------------------------------ MODULE MCReports ------------------------------
(* Constants for the runs of Reports. *)
EXTENDS Reports, TLC

CONSTANTS l1, l2, l3, l4

\* Two logs of one time and two later ones.
TestTimes == l1 :> 1 @@ l2 :> 1 @@ l3 :> 2 @@ l4 :> 3
=============================================================================
