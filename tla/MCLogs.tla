------------------------------- MODULE MCLogs -------------------------------
(* Constants for the runs of Logs. *)
EXTENDS Logs, TLC

CONSTANTS b1, b2, l1, l2, l3

\* A batch of two logs, and one that a log without raw_message fails.
TestBatches == b1 :> {l1, l2} @@ b2 :> {l3}
TestDays == l1 :> 0 @@ l2 :> 1 @@ l3 :> 0
TestHashes == l1 :> 1 @@ l2 :> 2 @@ l3 :> 3
=============================================================================
