------------------------- MODULE MCNetworkAnalytics -------------------------
(***************************************************************************)
(* Two label sets, which are interchangeable, three finite bounds, and a   *)
(* quantile of 3/4, which lies below the slowest observation as soon as    *)
(* there are four.                                                         *)
(***************************************************************************)
EXTENDS NetworkAnalytics, TLC

CONSTANTS l1, l2

MCBounds == <<1, 3, 6>>

Symmetry == Permutations(Labels)
=============================================================================
