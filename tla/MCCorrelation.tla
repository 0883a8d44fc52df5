--------------------------- MODULE MCCorrelation ----------------------------
(* Instances of Correlation for TLC.                                        *)
EXTENDS Correlation, TLC

CONSTANTS e1, e2, e3, s1, s2, h1, h2, t1, t2

OneSource  == [e \in Events |-> s1]
TwoSources == [e \in Events |-> IF e \in {e1, e2} THEN s1 ELSE s2]

\* s1 and s2 attack different hosts, or the same one.
OwnHosts   == s1 :> h1 @@ s2 :> h2
SharedHost == s1 :> h1 @@ s2 :> h1

\* e2 connects to t2, the others to t1; no target sends.
TestTargets == [e \in Events |-> IF e = e2 THEN t2 ELSE t1]
NoSender    == [e \in Events |-> None]

\* s1 sent enough a day ago to be missed.
TestBaseline == s1 :> 2 @@ s2 :> 1

\* For R001 and R005: events of one source and of pairwise different targets are
\* told apart by nothing.
Symmetry == Permutations(Workers) \cup Permutations(Events)
=============================================================================
