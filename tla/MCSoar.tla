------------------------------- MODULE MCSoar -------------------------------
(* Instances of Soar for TLC.                                               *)
EXTENDS Soar, TLC

CONSTANTS t1, t2, i1

OneIncident  == i1 :> {t1}
TwoTargets   == i1 :> {t1, t2}

NoCalls   == {}
Calls == {<<"temporary", t1>>, <<"unblock", t1>>}

Symmetry == Permutations(Workers)
=============================================================================
