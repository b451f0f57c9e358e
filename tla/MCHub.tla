-------------------------------- MODULE MCHub --------------------------------
(***************************************************************************)
(* The hub on small instances.                                             *)
(***************************************************************************)
EXTENDS Hub
=============================================================================
