------------------------------ MODULE MCCasework ------------------------------
(* An instance of Casework for TLC.                                         *)
EXTENDS Casework, TLC

CONSTANTS admin, analyst, newcomer, e1, e2

MCAccounts ==
    admin :> [role |-> "ADMIN", active |-> TRUE, mfa |-> FALSE, email |-> FALSE]
    @@ analyst :> [role |-> "ANALYST", active |-> TRUE, mfa |-> TRUE, email |-> TRUE]
    @@ newcomer :> None

Req(ops, by, on, val) == [op : ops, by : by, on : on, val : val]

MCRequests ==
    Req({"signIn"}, {None}, {analyst}, {None})
    \cup Req({"verifyMfa"}, {None}, {1}, {None})
    \cup Req({"signUp"}, {None}, {newcomer}, {"READER"})
    \cup Req({"createUser"}, {admin}, {newcomer}, {"ADMIN"})
    \cup Req({"deleteUser"}, {admin}, {analyst}, {None})
    \cup Req({"updateUser"}, {admin}, {analyst}, {"on", "ADMIN"})
    \cup Req({"updateUser"}, {admin}, {admin}, {"READER"})
    \cup Req({"enableMfa"}, {admin}, {admin}, {"address", "blank"})
    \cup Req({"enableMfa"}, {analyst}, {analyst}, {"blank"})
    \cup Req({"disableMfa"}, {admin}, {admin}, {None})
    \cup Req({"updateIncident"}, {analyst}, {None}, {"OPEN", "FALSE_POSITIVE", None})
    \cup Req({"flag", "unflag"}, {analyst}, {e1}, {None})
    \cup Req({"updateFlag"}, {analyst}, {e1}, {"RESOLVED"})
    \cup Req({"link"}, {analyst}, {e1}, {e2}) \cup Req({"link"}, {admin}, {e2}, {e1})

Symmetry == Permutations(Callers)
=============================================================================
