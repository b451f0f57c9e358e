------------------------- MODULE MCSensorsPipeline -------------------------
(***************************************************************************)
(* The sensors pipeline on small instances.                                *)
(***************************************************************************)
EXTENDS SensorsPipeline

CONSTANTS v1, v2

\* One of the faults is anything at all; the others are broadcasts that fail.
OneFaultNext == PipelineNext /\ (glitches' # glitches /\ glitches > 0 => Broadcasting)

\* Visitor v2 has been there before, v1 is to come.
OneFaultInit == PipelineInit /\ fresh = {v1}

OneFaultSpec == OneFaultInit /\ [][OneFaultNext]_pipelineVars /\ PipelineFairness
=============================================================================
