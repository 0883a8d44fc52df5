---------------------------- MODULE SerialWrites ----------------------------
(***************************************************************************)
(* What the write() helper of the pfSense agent promises its callers:      *)
(* a caller's function runs alone.  A caller that arrives while another    *)
(* one runs waits; whoever leaves may hand over to one that waits.         *)
(***************************************************************************)
CONSTANT Callers

VARIABLES running, waiting

vars == <<running, waiting>>

Init == running = {} /\ waiting = {}

Enter(c) ==
    /\ running = {}
    /\ c \notin waiting
    /\ running' = {c}
    /\ UNCHANGED waiting

Wait(c) ==
    /\ running # {}
    /\ c \notin running \cup waiting
    /\ waiting' = waiting \cup {c}
    /\ UNCHANGED running

Leave(c) ==
    /\ running = {c}
    /\ running' = {}
    /\ UNCHANGED waiting

HandOver(c, d) ==
    /\ running = {c}
    /\ d \in waiting
    /\ running' = {d}
    /\ waiting' = waiting \ {d}

Next == \E c \in Callers :
            \/ Enter(c)
            \/ Wait(c)
            \/ Leave(c)
            \/ \E d \in Callers : HandOver(c, d)

Spec == Init /\ [][Next]_vars
=============================================================================
