---------------------------- MODULE FiniteOrders ----------------------------
(***************************************************************************)
(* A finite set has a last element: what the pages of a search and the     *)
(* buckets of an aggregation take for granted.  The proof is by a smallest *)
(* counterexample, since proper subsets of a finite set are well-founded.  *)
(***************************************************************************)
EXTENDS Integers, FiniteSets, FiniteSetTheorems, TLAPS

\* A strict order on a finite set has a maximal element.
LEMMA FiniteMaximal ==
  ASSUME NEW S, IsFiniteSet(S), S # {}, NEW R,
         \A x \in S : <<x, x>> \notin R,
         \A x, y, z \in S : <<x, y>> \in R /\ <<y, z>> \in R => <<x, z>> \in R
  PROVE  \E m \in S : \A x \in S : <<m, x>> \notin R
<1> DEFINE Bad == {T \in SUBSET S : T # {} /\ \A m \in T : \E x \in T : <<m, x>> \in R}
<1> SUFFICES ASSUME S \in Bad  PROVE FALSE  OBVIOUS
<1>1. Bad \subseteq FiniteSubsetsOf(S) /\ Bad # {}  BY FS_FiniteSubsetsOfFinite
<1>2. PICK T \in Bad : \A U \in Bad : <<U, T>> \notin StrictSubsetOrdering(S)
  <2> HIDE DEF Bad
  <2>1. IsWellFoundedOn(StrictSubsetOrdering(S), FiniteSubsetsOf(S))
    BY FS_StrictSubsetOrderingWellFounded
  <2> QED  BY <1>1, <2>1, WFMin
<1>3. PICK t \in T : TRUE  OBVIOUS
<1>4. PICK y \in T : <<t, y>> \in R  OBVIOUS
<1> DEFINE U == T \ {t}
<1>5. y \in U /\ U \subseteq S /\ t \in S  BY <1>4
<1>6. U \notin Bad
  <2>1. <<U, T>> \in StrictSubsetOrdering(S)  BY <1>3, <1>5 DEF StrictSubsetOrdering
  <2> HIDE DEF U, Bad
  <2> QED  BY <1>2, <2>1
<1>7. PICK m \in U : \A x \in U : <<m, x>> \notin R  BY <1>5, <1>6
<1>8. <<m, t>> \in R  BY <1>7
<1>9. <<m, y>> \in R  BY <1>4, <1>5, <1>7, <1>8
<1> QED  BY <1>5, <1>7, <1>9

\* A finite set of integers has a greatest element.
LEMMA FiniteMax ==
  ASSUME NEW S \in SUBSET Int, IsFiniteSet(S), S # {}
  PROVE  \E m \in S : \A x \in S : x <= m
<1> DEFINE R == {p \in S \X S : p[1] < p[2]}
<1>1. \A x, y \in S : <<x, y>> \in R <=> x < y  OBVIOUS
<1> HIDE DEF R
<1>2. PICK m \in S : \A x \in S : <<m, x>> \notin R
  <2>1. \A x \in S : <<x, x>> \notin R  BY <1>1
  <2>2. \A x, y, z \in S : <<x, y>> \in R /\ <<y, z>> \in R => <<x, z>> \in R  BY <1>1
  <2> QED  BY <2>1, <2>2, FiniteMaximal
<1>3. ASSUME NEW x \in S  PROVE x <= m
  <2>1. ~(m < x) /\ m \in Int /\ x \in Int  BY <1>1, <1>2
  <2> QED  BY <2>1
<1> QED  BY <1>3
=============================================================================
