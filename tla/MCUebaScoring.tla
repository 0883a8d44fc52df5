---------------------------- MODULE MCUebaScoring ----------------------------
(* Constants for the runs of UebaScoring. *)
EXTENDS UebaScoring, TLC

CONSTANTS u1, j1, j2

\* A batch of two events and a batch of one, of one user.
TwoBatches == j1 :> <<u1, u1>> @@ j2 :> <<u1>>

\* Nothing unusual, and everything.
TwoKinds == {{}, Anomalies}
=============================================================================
