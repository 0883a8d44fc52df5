-------------------------- MODULE CorrelationProofs --------------------------
(***************************************************************************)
(* The safety of the correlation cycle for every set of workers, events    *)
(* and sources, every rule with any thresholds, and every combination of   *)
(* the faults, except where a theorem says otherwise.                      *)
(***************************************************************************)
EXTENDS Correlation, FiniteOrders

Searching == {"search", "found", "again"}
Holding   == {"create", "store", "trigger"}

GlobalTypes ==
    /\ now \in 1..MaxTime /\ rule \in Rules /\ active \in BOOLEAN /\ lastRun \in 0..now
    /\ stamp \in [Events -> Nat] /\ collected \in [Events -> Nat]
    /\ \A e \in Events : collected[e] <= stamp[e] /\ stamp[e] <= now
    /\ visible \subseteq Events /\ IsFiniteSet(visible) /\ \A e \in visible : stamp[e] # 0
    /\ incidents \in Seq(Incident) /\ scanned \in [Events -> Nat]
    /\ detected \subseteq Detection /\ failed \subseteq detected /\ gaps \subseteq 1..MaxTime
    /\ late \subseteq Events

LocalTypes ==
    /\ at \in [Workers -> Awaits]
    /\ since \in [Workers -> Nat] /\ upto \in [Workers -> Nat]
    /\ hits \in [Workers -> SUBSET Events] /\ unseen \in [Workers -> SUBSET Events]
    /\ todo \in [Workers -> SUBSET Detection]
    /\ cur \in [Workers -> Detection \cup {None}] /\ inc \in [Workers -> Nat]

\* What a worker read is not ahead of the clock, and what it is at was detected.
WorkerFits(w) ==
    /\ since[w] <= now /\ upto[w] <= now /\ inc[w] <= Len(incidents)
    /\ hits[w] \subseteq visible
    /\ at[w] \in Searching => 0 < upto[w]
    /\ at[w] \in Holding \cup {"check"} => todo[w] \subseteq detected
    /\ at[w] \in Holding => cur[w] \in detected
    /\ at[w] \in {"store", "trigger"} => inc[w] \in DOMAIN incidents

CorInv == GlobalTypes /\ LocalTypes /\ \A w \in Workers : WorkerFits(w)
-----------------------------------------------------------------------------
(* Frames. *)

Still(w) ==
    /\ at'[w] = at[w] /\ since'[w] = since[w] /\ upto'[w] = upto[w] /\ hits'[w] = hits[w]
    /\ unseen'[w] = unseen[w] /\ todo'[w] = todo[w] /\ cur'[w] = cur[w] /\ inc'[w] = inc[w]

\* What is known stays known.
Grows ==
    /\ now <= now' /\ rule' = rule /\ visible \subseteq visible'
    /\ \A e \in visible : stamp'[e] = stamp[e] /\ collected'[e] = collected[e]
    /\ \A e \in Events : stamp[e] # 0 => stamp'[e] = stamp[e] /\ collected'[e] = collected[e]
    /\ DOMAIN incidents \subseteq DOMAIN incidents' /\ Len(incidents) <= Len(incidents')
    /\ \A k \in DOMAIN incidents : /\ incidents'[k].of = incidents[k].of
                                   /\ incidents'[k].at = incidents[k].at
    /\ detected \subseteq detected' /\ failed \subseteq failed' /\ gaps \subseteq gaps'
    /\ late \subseteq late' /\ \A e \in Events : scanned[e] <= scanned'[e]

LEMMA Integral ==
  ASSUME CorInv
  PROVE  /\ now \in Nat /\ now <= MaxTime /\ 0 < now /\ Len(incidents) \in Nat /\ lastRun \in Nat
         /\ MaxTime \in Nat /\ lastRun <= now
         /\ DOMAIN incidents = 1..Len(incidents)
         /\ \A w \in Workers : since[w] \in Nat /\ upto[w] \in Nat /\ inc[w] \in Nat
         /\ \A w \in Workers : WorkerFits(w) /\ at[w] \in Awaits
         /\ \A e \in Events : stamp[e] \in Nat /\ collected[e] \in Nat /\ scanned[e] \in Nat
  BY CorrelationAssumption DEF CorInv, GlobalTypes, LocalTypes

LEMMA StillFits ==
  ASSUME CorInv, GlobalTypes', Grows, NEW w \in Workers, Still(w)
  PROVE  WorkerFits(w)'
<1>1. /\ now \in Nat /\ now' \in Nat /\ now <= now'
      /\ Len(incidents) \in Nat /\ Len(incidents') \in Nat /\ Len(incidents) <= Len(incidents')
      /\ since[w] \in Nat /\ upto[w] \in Nat /\ inc[w] \in Nat
  BY Integral, CorrelationAssumption DEF GlobalTypes, Grows
<1>2. WorkerFits(w)  BY DEF CorInv
<1>3. since[w] <= now' /\ upto[w] <= now' /\ inc[w] <= Len(incidents')
  BY <1>1, <1>2 DEF WorkerFits
<1> QED  BY <1>2, <1>3 DEF WorkerFits, Still, Grows

\* One worker moves.
LEMMA CorStep ==
  ASSUME CorInv, GlobalTypes', LocalTypes', Grows,
         NEW w \in Workers, WorkerFits(w)', \A v \in Workers \ {w} : Still(v)
  PROVE  CorInv'
<1>1. \A v \in Workers : WorkerFits(v)'  BY StillFits
<1> QED  BY <1>1 DEF CorInv

\* Nothing but the worker moves.
LEMMA LocalStep ==
  ASSUME CorInv, UNCHANGED <<now, store, incidents>>, lastRun' \in 0..now,
         detected \subseteq detected', detected' \subseteq Detection,
         failed \subseteq failed', failed' \subseteq detected',
         gaps \subseteq gaps', gaps' \subseteq 1..MaxTime,
         late \subseteq late', late' \subseteq Events,
         scanned' \in [Events -> Nat], \A e \in Events : scanned[e] <= scanned'[e]
  PROVE  GlobalTypes' /\ Grows
<1>1. UNCHANGED <<now, rule, collected, stamp, visible, active, incidents>>  BY DEF store
<1>2. now <= now /\ Len(incidents) <= Len(incidents)  BY Integral
<1>3. GlobalTypes'  BY <1>1 DEF CorInv, GlobalTypes
<1>4. Grows  BY <1>1, <1>2 DEF Grows
<1> QED  BY <1>3, <1>4

LEMMA GotoDone ==
  ASSUME LocalTypes, NEW w \in Workers, NEW a \in Awaits, Goto(w, a)
  PROVE  /\ at'[w] = a /\ at' \in [Workers -> Awaits]
         /\ \A v \in Workers \ {w} : at'[v] = at[v]
  BY DEF LocalTypes, Goto

LEMMA IdleDone ==
  ASSUME LocalTypes, NEW w \in Workers, Idle(w)
  PROVE  /\ at'[w] = "idle" /\ todo'[w] = {} /\ hits'[w] = {} /\ LocalTypes'
         /\ since'[w] = 0 /\ upto'[w] = 0 /\ inc'[w] = 0
         /\ \A v \in Workers \ {w} : Still(v)
  BY GotoDone DEF Idle, LocalTypes, Still, Awaits

\* The bucket that comes first is there.
LEMMA LeadingIsThere ==
  ASSUME NEW B \in SUBSET Events, IsFiniteSet(B), B # {}
  PROVE  Leading(B) \in Aims(B)
<1> DEFINE Hits(t) == Cardinality({e \in B : TargetOf[e] = t})
           H == {Hits(TargetOf[e]) : e \in B}
<1>1. \A t : Hits(t) \in Nat
  <2> SUFFICES ASSUME NEW t  PROVE Hits(t) \in Nat  OBVIOUS
  <2>1. IsFiniteSet({e \in B : TargetOf[e] = t})  BY FS_Subset
  <2> QED  BY <2>1, FS_CardinalityType
<1> HIDE DEF Hits
<1>2. H \subseteq Int /\ H # {}  BY <1>1
<1>3. [e \in B |-> Hits(TargetOf[e])] \in Surjection(B, H)  BY DEF Surjection
<1>4. IsFiniteSet(H)  BY <1>3, FS_Surjection
<1>5. PICK m \in H : \A x \in H : x <= m
  <2> HIDE DEF H
  <2> QED  BY <1>2, <1>4, FiniteMax
<1>6. PICK e \in B : m = Hits(TargetOf[e])  BY <1>5
<1>7. TargetOf[e] \in Aims(B) /\ \A u \in Aims(B) : Hits(u) <= Hits(TargetOf[e])
  BY <1>5, <1>6 DEF Aims
<1>8. Leading(B) = CHOOSE t \in Aims(B) : \A u \in Aims(B) : Hits(u) <= Hits(t)
  BY DEF Leading, Hits
<1> QED  BY <1>7, <1>8

LEMMA DetectionsTyped ==
  ASSUME CorInv, NEW S \in SUBSET visible, NEW q
  PROVE  Detections(q, S) \subseteq Detection
<1> SUFFICES ASSUME NEW s \in Sources, Of(S, s) # {}
             PROVE  Detect(q, s, Of(S, s)) \in Detection
  BY DEF Detections
<1> DEFINE B == Of(S, s)
<1>1. B \subseteq Events /\ IsFiniteSet(B)
  <2>1. B \subseteq visible  BY DEF Of
  <2> QED  BY <2>1, FS_Subset DEF CorInv, GlobalTypes
<1> HIDE DEF B
<1>2. Aims(B) \subseteq Targets  BY <1>1, CorrelationAssumption DEF Aims
<1>3. Named(q, s, B) \subseteq Names  BY <1>2, CorrelationAssumption DEF Named, Names
<1>4. Leading(B) \in Names  BY <1>1, <1>2, LeadingIsThere DEF B, Names
<1> QED  BY <1>3, <1>4 DEF Detect, Detection, B
-----------------------------------------------------------------------------
(* What each step does, and that it keeps CorInv. *)

LEMMA InitDoes == Init => CorInv
<1> SUFFICES ASSUME Init  PROVE CorInv  OBVIOUS
<1>1. GlobalTypes
  <2>1. IsFiniteSet(visible)  BY FS_EmptySet DEF Init
  <2> QED  BY <2>1, CorrelationAssumption DEF Init, GlobalTypes
<1>2. LocalTypes  BY DEF Init, LocalTypes, Awaits
<1>3. \A w \in Workers : WorkerFits(w)
  BY CorrelationAssumption DEF Init, WorkerFits, Searching, Holding
<1> QED  BY <1>1, <1>2, <1>3 DEF CorInv

\* The world moves: the workers and the incidents stay.
LEMMA WorldMoves ==
  ASSUME CorInv, GlobalTypes', UNCHANGED <<lastRun, incidents, local, history>>,
         now <= now', rule' = rule, visible \subseteq visible',
         \A e \in Events : stamp[e] # 0 => stamp'[e] = stamp[e] /\ collected'[e] = collected[e]
  PROVE  CorInv' /\ Grows /\ \A w \in Workers : Still(w)
<1>1. Grows  BY Integral DEF Grows, history, CorInv, GlobalTypes
<1>2. LocalTypes' /\ \A w \in Workers : Still(w)
  BY DEF CorInv, LocalTypes, Still, local
<1> QED  BY <1>1, <1>2, StillFits DEF CorInv

LEMMA TickDoes ==
  ASSUME CorInv, Tick
  PROVE  /\ CorInv' /\ Grows /\ \A w \in Workers : Still(w)
         /\ now' = now + 1 /\ UNCHANGED <<store, lastRun, incidents, local, history>>
<1>1. /\ now < MaxTime /\ now' = now + 1
      /\ UNCHANGED <<store, lastRun, incidents, local, history>>
  BY DEF Tick
<1>2. now' \in 1..MaxTime /\ now <= now' /\ lastRun \in 0..now'
      /\ \A e \in Events : stamp[e] <= now => stamp[e] <= now'
  BY <1>1, Integral
<1>3. GlobalTypes'  BY <1>1, <1>2 DEF CorInv, GlobalTypes, store, history
<1> QED  BY <1>1, <1>2, <1>3, WorldMoves DEF store

LEMMA ArriveDoes ==
  ASSUME CorInv, NEW e \in Events, Arrive(e)
  PROVE  /\ CorInv' /\ Grows /\ \A w \in Workers : Still(w)
         /\ UNCHANGED <<now, rule, active, lastRun, incidents, local, history>>
         /\ e \notin visible /\ stamp'[e] = now
         /\ \A f \in Events \ {e} : stamp'[f] = stamp[f] /\ collected'[f] = collected[f]
         /\ visible \subseteq visible' /\ visible' \subseteq visible \cup {e}
<1>1. /\ stamp[e] = 0 /\ stamp' = [stamp EXCEPT ![e] = now]
      /\ UNCHANGED <<now, rule, active, lastRun, incidents, local, history>>
      /\ visible' \in {visible, visible \cup {e}}
  BY DEF Arrive
<1>2. PICK t \in 1..now : collected' = [collected EXCEPT ![e] = t]  BY DEF Arrive
<1>3. /\ stamp' \in [Events -> Nat] /\ collected' \in [Events -> Nat]
      /\ stamp'[e] = now /\ collected'[e] = t /\ t \in Nat /\ t <= now /\ now # 0
      /\ \A f \in Events \ {e} : stamp'[f] = stamp[f] /\ collected'[f] = collected[f]
  BY <1>1, <1>2, Integral DEF CorInv, GlobalTypes
<1>4. \A f \in Events : collected'[f] <= stamp'[f] /\ stamp'[f] <= now
  <2> SUFFICES ASSUME NEW f \in Events
               PROVE  collected'[f] <= stamp'[f] /\ stamp'[f] <= now
    OBVIOUS
  <2>1. CASE f = e  BY <1>3, <2>1, Integral
  <2>2. CASE f # e  BY <1>3, <2>2 DEF CorInv, GlobalTypes
  <2> QED  BY <2>1, <2>2
<1>5. e \notin visible  BY <1>1 DEF CorInv, GlobalTypes
<1>6. IsFiniteSet(visible')  BY <1>1, FS_AddElement DEF CorInv, GlobalTypes
<1>7. \A f \in visible' : stamp'[f] # 0  BY <1>1, <1>3 DEF CorInv, GlobalTypes
<1>8. GlobalTypes'
  BY <1>1, <1>3, <1>4, <1>6, <1>7 DEF CorInv, GlobalTypes, history
<1>9. \A f \in Events : stamp[f] # 0 => stamp'[f] = stamp[f] /\ collected'[f] = collected[f]
  BY <1>1, <1>3, <1>5 DEF CorInv, GlobalTypes
<1> QED  BY <1>1, <1>3, <1>5, <1>8, <1>9, WorldMoves, Integral

LEMMA RefreshDoes ==
  ASSUME CorInv, NEW e \in Events, Refresh(e)
  PROVE  /\ CorInv' /\ Grows /\ \A w \in Workers : Still(w)
         /\ UNCHANGED <<now, rule, collected, stamp, active, lastRun, incidents, local, history>>
         /\ stamp[e] # 0 /\ e \notin visible /\ visible' = visible \cup {e}
<1>1. /\ stamp[e] # 0 /\ e \notin visible /\ visible' = visible \cup {e}
      /\ UNCHANGED <<now, rule, collected, stamp, active, lastRun, incidents, local, history>>
  BY DEF Refresh
<1>2. IsFiniteSet(visible')  BY <1>1, FS_AddElement DEF CorInv, GlobalTypes
<1>3. GlobalTypes'  BY <1>1, <1>2 DEF CorInv, GlobalTypes, history
<1> QED  BY <1>1, <1>3, WorldMoves, Integral

LEMMA ToggleDoes ==
  ASSUME CorInv, ToggleRule
  PROVE  /\ CorInv' /\ Grows /\ \A w \in Workers : Still(w)
         /\ UNCHANGED <<now, rule, collected, stamp, visible, lastRun, incidents, local, history>>
<1>1. /\ active' \in BOOLEAN
      /\ UNCHANGED <<now, rule, collected, stamp, visible, lastRun, incidents, local, history>>
  BY DEF ToggleRule
<1>2. GlobalTypes'  BY <1>1 DEF CorInv, GlobalTypes, history
<1> QED  BY <1>1, <1>2, WorldMoves, Integral

\* Nothing but the locals of a worker changes.
LEMMA OnlyLocal ==
  ASSUME CorInv, UNCHANGED <<now, store, lastRun, incidents, history>>
  PROVE  GlobalTypes' /\ Grows
<1>1. lastRun' \in 0..now /\ \A e \in Events : scanned[e] <= scanned[e]
  BY Integral DEF CorInv, GlobalTypes
<1> QED  BY <1>1, LocalStep DEF history, CorInv, GlobalTypes

LEMMA BeginCycleDoes ==
  ASSUME CorInv, NEW w \in Workers, BeginCycle(w)
  PROVE  /\ CorInv' /\ Grows /\ \A v \in Workers \ {w} : Still(v)
         /\ at[w] = "idle" /\ at'[w] = "ready"
         /\ todo'[w] = todo[w] /\ cur'[w] = cur[w]
         /\ UNCHANGED <<now, store, lastRun, incidents, history>>
<1>1. /\ at[w] = "idle" /\ Goto(w, "ready")
      /\ UNCHANGED <<now, store, lastRun, incidents, since, upto, hits, unseen, todo, cur, inc, history>>
  BY DEF BeginCycle
<1>2. GlobalTypes' /\ Grows  BY <1>1, OnlyLocal
<1>3. /\ at'[w] = "ready" /\ LocalTypes' /\ \A v \in Workers \ {w} : Still(v)
  BY <1>1, GotoDone DEF CorInv, LocalTypes, Still, Awaits
<1>4. WorkerFits(w)'
  BY <1>1, <1>3 DEF CorInv, WorkerFits, Searching, Holding, store
<1> QED  BY <1>1, <1>2, <1>3, <1>4, CorStep

LEMMA StartRuleDoes ==
  ASSUME CorInv, NEW w \in Workers, StartRule(w)
  PROVE  /\ CorInv' /\ Grows /\ \A v \in Workers \ {w} : Still(v)
         /\ at[w] = "ready" /\ at'[w] = "search"
         /\ since'[w] = lastRun /\ upto'[w] = now /\ todo'[w] = todo[w] /\ cur'[w] = cur[w]
         /\ UNCHANGED <<now, store, lastRun, incidents, history>>
<1>1. /\ at[w] = "ready" /\ Goto(w, "search")
      /\ since' = [since EXCEPT ![w] = lastRun] /\ upto' = [upto EXCEPT ![w] = now]
      /\ UNCHANGED <<now, store, lastRun, incidents, hits, unseen, todo, cur, inc, history>>
  BY DEF StartRule
<1>2. GlobalTypes' /\ Grows  BY <1>1, OnlyLocal
<1>3. /\ at'[w] = "search" /\ LocalTypes' /\ \A v \in Workers \ {w} : Still(v)
      /\ since'[w] = lastRun /\ upto'[w] = now
  BY <1>1, GotoDone, Integral DEF CorInv, LocalTypes, Still, Awaits
<1>4. WorkerFits(w)'
  BY <1>1, <1>3, Integral DEF CorInv, WorkerFits, Searching, Holding, store
<1> QED  BY <1>1, <1>2, <1>3, <1>4, CorStep

\* What a query finds, and what it does not find yet.
Answer(w, sought) == {e \in visible \cap sought : InRange(w, e)}
Missed(w)         == {e \in Events \ visible : stamp[e] # 0 /\ InRange(w, e)}

LEMMA QueryDoes ==
  ASSUME CorInv, NEW w \in Workers, at[w] \in {"search", "found"}, NEW sought, Query(w, sought),
         NEW a \in {"found", "again"}, Goto(w, a)
  PROVE  /\ CorInv' /\ Grows /\ \A v \in Workers \ {w} : Still(v)
         /\ at'[w] = a /\ hits'[w] = Answer(w, sought) /\ unseen'[w] = Missed(w)
         /\ since'[w] = since[w] /\ upto'[w] = upto[w]
         /\ todo'[w] = todo[w] /\ cur'[w] = cur[w]
         /\ UNCHANGED <<now, store, lastRun, incidents, history>>
<1>1. /\ hits' = [hits EXCEPT ![w] = Answer(w, sought)]
      /\ unseen' = [unseen EXCEPT ![w] = Missed(w)]
      /\ UNCHANGED <<now, store, lastRun, incidents, since, upto, todo, cur, inc, history>>
  BY DEF Query, Answer, Missed
<1>2. Answer(w, sought) \subseteq visible /\ visible \subseteq Events /\ Missed(w) \subseteq Events
  BY DEF Answer, Missed, CorInv, GlobalTypes
<1>3. GlobalTypes' /\ Grows  BY <1>1, OnlyLocal
<1>4. a \in Awaits  BY DEF Awaits
<1>5. /\ at'[w] = a /\ LocalTypes' /\ \A v \in Workers \ {w} : Still(v)
      /\ hits'[w] = Answer(w, sought) /\ unseen'[w] = Missed(w)
  BY <1>1, <1>2, <1>4, GotoDone DEF CorInv, LocalTypes, Still
<1>6. WorkerFits(w)'
  BY <1>1, <1>2, <1>5 DEF CorInv, WorkerFits, Searching, Holding, store
<1> QED  BY <1>1, <1>3, <1>5, <1>6, CorStep

LEMMA SearchDoes ==
  ASSUME CorInv, NEW w \in Workers, Search(w)
  PROVE  /\ CorInv' /\ Grows /\ \A v \in Workers \ {w} : Still(v)
         /\ at[w] = "search" /\ at'[w] = "found"
         /\ hits'[w] = Answer(w, IF rule \in {"R002", "R003", "R004"} THEN Enriched ELSE Events)
         /\ unseen'[w] = Missed(w)
         /\ since'[w] = since[w] /\ upto'[w] = upto[w]
         /\ todo'[w] = todo[w] /\ cur'[w] = cur[w]
         /\ UNCHANGED <<now, store, lastRun, incidents, history>>
<1> DEFINE sought == IF rule \in {"R002", "R003", "R004"} THEN Enriched ELSE Events
<1>1. at[w] = "search" /\ Query(w, sought) /\ Goto(w, "found")  BY DEF Search
<1> HIDE DEF sought
<1>2. /\ CorInv' /\ Grows /\ \A v \in Workers \ {w} : Still(v)
      /\ at'[w] = "found" /\ hits'[w] = Answer(w, sought) /\ unseen'[w] = Missed(w)
      /\ since'[w] = since[w] /\ upto'[w] = upto[w]
      /\ todo'[w] = todo[w] /\ cur'[w] = cur[w]
      /\ UNCHANGED <<now, store, lastRun, incidents, history>>
  BY <1>1, QueryDoes
<1> QED  BY <1>1, <1>2 DEF sought

LEMMA FallbackDoes ==
  ASSUME CorInv, NEW w \in Workers, Fallback(w)
  PROVE  /\ CorInv' /\ Grows /\ \A v \in Workers \ {w} : Still(v)
         /\ at[w] = "found" /\ at'[w] = "again" /\ hits'[w] = Answer(w, Events)
         /\ unseen'[w] = Missed(w)
         /\ since'[w] = since[w] /\ upto'[w] = upto[w]
         /\ todo'[w] = todo[w] /\ cur'[w] = cur[w]
         /\ UNCHANGED <<now, store, lastRun, incidents, history>>
<1>1. at[w] = "found" /\ Query(w, Events) /\ Goto(w, "again")  BY DEF Fallback, FallsBack
<1> QED  BY <1>1, QueryDoes

LEMMA CompareVolumeDoes ==
  ASSUME CorInv, NEW w \in Workers, CompareVolume(w)
  PROVE  /\ CorInv' /\ Grows /\ \A v \in Workers \ {w} : Still(v)
         /\ rule = "R004" /\ at[w] = "found" /\ at'[w] = "again" /\ hits'[w] = hits[w]
         /\ unseen'[w] = unseen[w]
         /\ since'[w] = since[w] /\ upto'[w] = upto[w] /\ cur'[w] = cur[w]
         /\ UNCHANGED <<now, store, lastRun, incidents, history>>
<1> DEFINE S == {s \in Sources : Quiet(Cardinality({e \in Of(visible, s) :
                                    since[w] <= collected[e] /\ collected[e] <= now}), Baseline[s])}
           new == {Detect("again", s, {}) : s \in S}
<1>1. /\ rule = "R004" /\ at[w] = "found" /\ Goto(w, "again")
      /\ todo' = [todo EXCEPT ![w] = new]
      /\ UNCHANGED <<now, store, lastRun, incidents, since, upto, hits, unseen, cur, inc, history>>
  BY DEF CompareVolume, ComparesVolume
<1>2. new \subseteq Detection
  <2> HIDE DEF S
  <2>1. S \subseteq Sources  BY DEF S
  <2>2. \A s \in Sources : Detect("again", s, {}) \in Detection
    BY <1>1 DEF Detect, Detection, Named, Names
  <2> QED  BY <2>1, <2>2
<1> HIDE DEF new
<1>3. GlobalTypes' /\ Grows  BY <1>1, OnlyLocal
<1>4. /\ at'[w] = "again" /\ LocalTypes' /\ \A v \in Workers \ {w} : Still(v)
  BY <1>1, <1>2, GotoDone DEF CorInv, LocalTypes, Still, Awaits
<1>5. WorkerFits(w)'
  BY <1>1, <1>4 DEF CorInv, WorkerFits, Searching, Holding, store
<1> QED  BY <1>1, <1>3, <1>4, <1>5, CorStep

LEMMA IdleFits ==
  ASSUME CorInv, GlobalTypes', Grows, NEW w \in Workers, Idle(w)
  PROVE  CorInv' /\ at'[w] = "idle" /\ todo'[w] = {} /\ \A v \in Workers \ {w} : Still(v)
<1>1. /\ at'[w] = "idle" /\ todo'[w] = {} /\ hits'[w] = {} /\ LocalTypes'
      /\ since'[w] = 0 /\ upto'[w] = 0 /\ inc'[w] = 0
      /\ \A v \in Workers \ {w} : Still(v)
  BY IdleDone DEF CorInv
<1>2. now' \in Nat /\ Len(incidents') \in Nat
  BY CorrelationAssumption DEF GlobalTypes
<1>3. WorkerFits(w)'  BY <1>1, <1>2 DEF WorkerFits, Searching, Holding
<1> QED  BY <1>1, <1>3, CorStep

LEMMA SearchFailsDoes ==
  ASSUME CorInv, NEW w \in Workers, SearchFails(w)
  PROVE  /\ CorInv' /\ Grows /\ \A v \in Workers \ {w} : Still(v)
         /\ at[w] \in Searching /\ at'[w] = "idle" /\ todo'[w] = {}
         /\ UNCHANGED <<now, store, lastRun, incidents, history>>
<1>1. /\ at[w] \in Searching /\ Idle(w) /\ UNCHANGED <<now, store, lastRun, incidents, history>>
  BY DEF SearchFails, Searching
<1>2. GlobalTypes' /\ Grows  BY <1>1, OnlyLocal
<1> QED  BY <1>1, <1>2, IdleFits

LEMMA EndRuleDoes ==
  ASSUME CorInv, NEW w \in Workers, EndRule(w)
  PROVE  /\ CorInv' /\ Grows /\ \A v \in Workers \ {w} : Still(v)
         /\ at[w] = "check" /\ todo[w] = {} /\ at'[w] = "idle" /\ todo'[w] = {}
         /\ UNCHANGED <<now, store, lastRun, incidents, history>>
<1>1. /\ at[w] = "check" /\ todo[w] = {} /\ Idle(w)
      /\ UNCHANGED <<now, store, lastRun, incidents, history>>
  BY DEF EndRule
<1>2. GlobalTypes' /\ Grows  BY <1>1, OnlyLocal
<1> QED  BY <1>1, <1>2, IdleFits

LEMMA FoundDoes ==
  ASSUME CorInv, NEW w \in Workers, Found(w)
  PROVE  /\ CorInv' /\ Grows /\ \A v \in Workers \ {w} : Still(v)
         /\ at[w] \in {"found", "again"} /\ at'[w] = "check"
         /\ todo'[w] = todo[w] \cup Detections(at[w], hits[w])
         /\ detected' = detected \cup todo'[w] /\ lastRun' = now /\ upto[w] < now
         /\ gaps' = gaps \cup (upto[w] .. (now - 1)) /\ late' = late \cup unseen[w]
         /\ scanned' = [e \in Events |-> IF e \in hits[w] THEN scanned[e] + 1 ELSE scanned[e]]
         /\ UNCHANGED <<now, store, incidents, failed>>
<1> DEFINE new == todo[w] \cup Detections(at[w], hits[w])
<1>1. /\ at[w] \in {"found", "again"} /\ now > upto[w] /\ lastRun' = now
      /\ todo' = [todo EXCEPT ![w] = new] /\ Goto(w, "check")
      /\ scanned' = [e \in Events |-> IF e \in hits[w] THEN scanned[e] + 1 ELSE scanned[e]]
      /\ detected' = detected \cup new /\ gaps' = gaps \cup (upto[w] .. (now - 1))
      /\ late' = late \cup unseen[w] /\ unseen' = [unseen EXCEPT ![w] = {}]
      /\ UNCHANGED <<now, store, incidents, since, upto, hits, cur, inc, failed>>
  BY DEF Found, SetLastRun
<1>2. new \subseteq Detection
  <2>1. hits[w] \subseteq visible  BY DEF CorInv, WorkerFits
  <2>2. Detections(at[w], hits[w]) \subseteq Detection  BY <2>1, DetectionsTyped
  <2> QED  BY <2>2 DEF CorInv, LocalTypes
<1> HIDE DEF new
<1>3. /\ at'[w] = "check" /\ LocalTypes' /\ \A v \in Workers \ {w} : Still(v)
      /\ todo'[w] = new
  BY <1>1, <1>2, GotoDone DEF CorInv, LocalTypes, Still, Awaits
<1>4. 0 < upto[w] /\ upto[w] \in Nat  BY <1>1, Integral DEF WorkerFits, Searching
<1>5. upto[w] .. (now - 1) \subseteq 1..MaxTime  BY <1>4, Integral
<1>6. /\ scanned' \in [Events -> Nat]
      /\ \A e \in Events : scanned[e] <= scanned'[e]
  BY <1>1, Integral
<1>7. lastRun' \in 0..now  BY <1>1, Integral
<1>8. GlobalTypes' /\ Grows
  <2>1. /\ detected \subseteq Detection /\ failed \subseteq detected /\ gaps \subseteq 1..MaxTime
        /\ late \subseteq Events /\ unseen[w] \subseteq Events
    BY DEF CorInv, GlobalTypes, LocalTypes
  <2> QED  BY <1>1, <1>2, <1>5, <1>6, <1>7, <2>1, LocalStep
<1>9. WorkerFits(w)'
  BY <1>1, <1>3 DEF CorInv, WorkerFits, Searching, Holding, store
<1>10. CorInv'  BY <1>3, <1>8, <1>9, CorStep
<1> QED  BY <1>1, <1>3, <1>8, <1>10 DEF new

\* A detection is off the list of its worker.
LEMMA DropDone ==
  ASSUME CorInv, NEW w \in Workers, at[w] \in Holding \cup {"check"}, NEW d, Drop(w, d),
         GlobalTypes', Grows
  PROVE  /\ CorInv' /\ \A v \in Workers \ {w} : Still(v)
         /\ at'[w] = "check" /\ todo'[w] = todo[w] \ {d}
<1>1. /\ todo' = [todo EXCEPT ![w] = todo[w] \ {d}]
      /\ cur' = [cur EXCEPT ![w] = None] /\ inc' = [inc EXCEPT ![w] = 0]
      /\ Goto(w, "check") /\ UNCHANGED <<since, upto, hits, unseen>>
  BY DEF Drop
<1>2. /\ at'[w] = "check" /\ LocalTypes' /\ todo'[w] = todo[w] \ {d} /\ inc'[w] = 0
      /\ \A v \in Workers \ {w} : Still(v)
  BY <1>1, GotoDone DEF CorInv, LocalTypes, Still, Awaits
<1>3. /\ now \in Nat /\ now' \in Nat /\ now <= now' /\ Len(incidents') \in Nat
      /\ since[w] \in Nat /\ upto[w] \in Nat /\ since[w] <= now /\ upto[w] <= now
  BY Integral, CorrelationAssumption DEF GlobalTypes, Grows, WorkerFits
<1>4. since[w] <= now' /\ upto[w] <= now' /\ 0 <= Len(incidents')  BY <1>3
<1>5. hits[w] \subseteq visible' /\ todo[w] \subseteq detected'
  BY DEF CorInv, WorkerFits, Grows
<1>6. WorkerFits(w)'  BY <1>1, <1>2, <1>4, <1>5 DEF WorkerFits, Searching, Holding
<1> QED  BY <1>2, <1>6, CorStep

LEMMA DropFailedDone ==
  ASSUME CorInv, NEW w \in Workers, at[w] \in Holding \cup {"check"}, NEW d \in detected,
         DropFailed(w, d), UNCHANGED <<now, store, lastRun, incidents, scanned, detected, gaps, late>>
  PROVE  /\ CorInv' /\ Grows /\ \A v \in Workers \ {w} : Still(v)
         /\ at'[w] = "check" /\ todo'[w] = todo[w] \ {d} /\ failed' = failed \cup {d}
<1>1. Drop(w, d) /\ failed' = failed \cup {d}  BY DEF DropFailed
<1>2. GlobalTypes' /\ Grows
  <2>1. lastRun' \in 0..now /\ (\A e \in Events : scanned[e] <= scanned[e])
        /\ scanned \in [Events -> Nat]
    BY Integral DEF CorInv, GlobalTypes
  <2>2. detected \subseteq Detection /\ failed \cup {d} \subseteq detected
        /\ gaps \subseteq 1..MaxTime /\ late \subseteq Events
    BY DEF CorInv, GlobalTypes
  <2> QED  BY <1>1, <2>1, <2>2, LocalStep
<1> QED  BY <1>1, <1>2, DropDone

LEMMA CheckDuplicateDoes ==
  ASSUME CorInv, NEW w \in Workers, CheckDuplicate(w)
  PROVE  /\ CorInv' /\ Grows /\ \A v \in Workers \ {w} : Still(v)
         /\ at[w] = "check" /\ UNCHANGED <<now, store, lastRun, incidents, scanned, detected, gaps, late>>
         /\ \E d \in todo[w] :
               \/ /\ Duplicate(d) /\ at'[w] = "check" /\ todo'[w] = todo[w] \ {d}
                  /\ failed' = failed
               \/ /\ at'[w] = "check" /\ todo'[w] = todo[w] \ {d} /\ failed' = failed \cup {d}
               \/ /\ ~Duplicate(d) /\ at'[w] = "create" /\ todo'[w] = todo[w] /\ cur'[w] = d
                  /\ failed' = failed
<1>1. at[w] = "check" /\ UNCHANGED <<now, store, lastRun, incidents, scanned, detected, gaps, late>>
  BY DEF CheckDuplicate
<1>2. PICK d \in todo[w] :
          \/ Duplicate(d) /\ Drop(w, d) /\ UNCHANGED failed
          \/ DropFailed(w, d)
          \/ /\ ~Duplicate(d)
             /\ cur' = [cur EXCEPT ![w] = d]
             /\ Goto(w, "create")
             /\ UNCHANGED <<since, upto, hits, unseen, todo, inc, failed>>
  BY DEF CheckDuplicate
<1>3. d \in detected /\ d \in Detection
  BY <1>1 DEF CorInv, WorkerFits, GlobalTypes
<1>4. CASE Duplicate(d) /\ Drop(w, d) /\ UNCHANGED failed
  <2>1. GlobalTypes' /\ Grows  BY <1>1, <1>4, OnlyLocal DEF history
  <2> QED  BY <1>1, <1>2, <1>4, <2>1, DropDone
<1>5. CASE DropFailed(w, d)
  BY <1>1, <1>2, <1>3, <1>5, DropFailedDone
<1>6. CASE /\ ~Duplicate(d) /\ cur' = [cur EXCEPT ![w] = d] /\ Goto(w, "create")
           /\ UNCHANGED <<since, upto, hits, unseen, todo, inc, failed>>
  <2>1. GlobalTypes' /\ Grows  BY <1>1, <1>6, OnlyLocal DEF history
  <2>2. /\ at'[w] = "create" /\ LocalTypes' /\ cur'[w] = d
        /\ \A v \in Workers \ {w} : Still(v)
    BY <1>3, <1>6, GotoDone DEF CorInv, LocalTypes, Still, Awaits
  <2>3. WorkerFits(w)'
    BY <1>1, <1>3, <1>6, <2>2 DEF CorInv, WorkerFits, Searching, Holding, store
  <2>4. CorInv'  BY <2>1, <2>2, <2>3, CorStep
  <2> QED  BY <1>1, <1>2, <1>6, <2>1, <2>2, <2>4
<1> QED  BY <1>2, <1>4, <1>5, <1>6

\* Sequences of incidents grow and are updated in place.
LEMMA IncidentsAppend ==
  ASSUME NEW s \in Seq(Incident), NEW row \in Incident
  PROVE  /\ Append(s, row) \in Seq(Incident) /\ Len(s) \in Nat
         /\ Len(Append(s, row)) = Len(s) + 1
         /\ DOMAIN Append(s, row) = DOMAIN s \cup {Len(s) + 1} /\ DOMAIN s = 1..Len(s)
         /\ Len(s) + 1 \notin DOMAIN s
         /\ \A k \in DOMAIN s : Append(s, row)[k] = s[k]
         /\ Append(s, row)[Len(s) + 1] = row
<1>1. /\ Append(s, row) \in Seq(Incident) /\ DOMAIN s = 1..Len(s) /\ Len(s) \in Nat
      /\ Len(Append(s, row)) = Len(s) + 1
      /\ DOMAIN Append(s, row) = 1..(Len(s) + 1)
      /\ \A i \in 1..Len(s) : Append(s, row)[i] = s[i]
      /\ Append(s, row)[Len(s) + 1] = row
  OBVIOUS
<1>2. 1..(Len(s) + 1) = (1..Len(s)) \cup {Len(s) + 1}  BY <1>1
<1> QED  BY <1>1, <1>2

LEMMA IncidentsUpdate ==
  ASSUME NEW s \in Seq(Incident), NEW i \in DOMAIN s, NEW row \in Incident
  PROVE  /\ [s EXCEPT ![i] = row] \in Seq(Incident)
         /\ DOMAIN [s EXCEPT ![i] = row] = DOMAIN s /\ Len([s EXCEPT ![i] = row]) = Len(s)
         /\ [s EXCEPT ![i] = row][i] = row
         /\ \A j \in DOMAIN s \ {i} : [s EXCEPT ![i] = row][j] = s[j]
  OBVIOUS

LEMMA CreateIncidentDoes ==
  ASSUME CorInv, NEW w \in Workers, CreateIncident(w)
  PROVE  /\ CorInv' /\ Grows /\ \A v \in Workers \ {w} : Still(v)
         /\ at[w] = "create" /\ UNCHANGED <<now, store, lastRun, scanned, detected, gaps, late>>
         /\ \/ /\ at'[w] = "store" /\ todo'[w] = todo[w] /\ cur'[w] = cur[w]
               /\ inc'[w] = Len(incidents) + 1 /\ failed' = failed
               /\ Len(incidents') = Len(incidents) + 1
               /\ DOMAIN incidents' = DOMAIN incidents \cup {Len(incidents) + 1}
               /\ \A k \in DOMAIN incidents : incidents'[k] = incidents[k]
               /\ incidents'[Len(incidents) + 1].of = cur[w]
               /\ incidents'[Len(incidents) + 1].at = now
            \/ /\ at'[w] = "check" /\ todo'[w] = todo[w] \ {cur[w]}
               /\ failed' = failed \cup {cur[w]} /\ incidents' = incidents
<1>1. at[w] = "create" /\ UNCHANGED <<now, store, lastRun, scanned, detected, gaps, late>>
  BY DEF CreateIncident
<1>2. cur[w] \in detected /\ cur[w] \in Detection
  BY <1>1 DEF CorInv, WorkerFits, GlobalTypes, Holding
<1> DEFINE row == [of |-> cur[w], at |-> now, events |-> {}, triggered |-> FALSE]
<1>3. row \in Incident /\ row.of = cur[w] /\ row.at = now
  BY <1>2, Integral DEF Incident
<1>4. CASE DropFailed(w, cur[w]) /\ UNCHANGED incidents
  BY <1>1, <1>2, <1>4, DropFailedDone DEF Holding
<1>5. CASE /\ incidents' = Append(incidents, row)
           /\ inc' = [inc EXCEPT ![w] = Len(incidents) + 1]
           /\ Goto(w, "store")
           /\ UNCHANGED <<since, upto, hits, unseen, todo, cur, failed>>
  <2> HIDE DEF row
  <2>1. /\ incidents' \in Seq(Incident) /\ Len(incidents') = Len(incidents) + 1
        /\ DOMAIN incidents' = DOMAIN incidents \cup {Len(incidents) + 1}
        /\ \A k \in DOMAIN incidents : incidents'[k] = incidents[k]
        /\ incidents'[Len(incidents) + 1] = row /\ Len(incidents) \in Nat
    BY <1>3, <1>5, IncidentsAppend DEF CorInv, GlobalTypes
  <2>2. UNCHANGED <<now, rule, collected, stamp, visible, active, failed, scanned, detected, gaps, late>>
    BY <1>1, <1>5 DEF store
  <2>3. GlobalTypes'  BY <1>1, <2>1, <2>2 DEF CorInv, GlobalTypes
  <2>4. Grows
    <3>1. now <= now /\ Len(incidents) <= Len(incidents') /\ \A e \in Events : scanned[e] <= scanned[e]
      BY <2>1, Integral
    <3> QED  BY <2>1, <2>2, <3>1 DEF Grows
  <2>5. /\ at'[w] = "store" /\ LocalTypes' /\ inc'[w] = Len(incidents) + 1
        /\ \A v \in Workers \ {w} : Still(v)
    BY <1>5, <2>1, GotoDone DEF CorInv, LocalTypes, Still, Awaits
  <2>6. WorkerFits(w)'
    BY <1>1, <1>2, <1>5, <2>1, <2>2, <2>5, Integral DEF WorkerFits, Searching, Holding
  <2>7. CorInv'  BY <2>3, <2>4, <2>5, <2>6, CorStep
  <2> QED  BY <1>1, <1>3, <1>5, <2>1, <2>4, <2>5, <2>7
<1> QED  BY <1>4, <1>5 DEF CreateIncident

\* An incident is updated in place; its detection and its time stay.
LEMMA IncidentUpdated ==
  ASSUME CorInv, NEW i \in DOMAIN incidents, NEW row \in Incident,
         incidents' = [incidents EXCEPT ![i] = row],
         row.of = incidents[i].of, row.at = incidents[i].at,
         UNCHANGED <<now, store, lastRun, scanned, detected, gaps, late, failed>>
  PROVE  /\ GlobalTypes' /\ Grows /\ DOMAIN incidents' = DOMAIN incidents
         /\ incidents'[i] = row /\ Len(incidents') = Len(incidents)
         /\ \A k \in DOMAIN incidents \ {i} : incidents'[k] = incidents[k]
<1>1. /\ incidents' \in Seq(Incident) /\ DOMAIN incidents' = DOMAIN incidents
      /\ Len(incidents') = Len(incidents) /\ incidents'[i] = row
      /\ \A k \in DOMAIN incidents \ {i} : incidents'[k] = incidents[k]
  BY IncidentsUpdate DEF CorInv, GlobalTypes
<1>2. UNCHANGED <<now, rule, collected, stamp, visible, active, failed, scanned, detected, gaps, late>>
  BY DEF store
<1>3. GlobalTypes'  BY <1>1, <1>2 DEF CorInv, GlobalTypes
<1>4. Grows
  <2>1. now <= now /\ Len(incidents) <= Len(incidents) /\ \A e \in Events : scanned[e] <= scanned[e]
    BY Integral
  <2> QED  BY <1>1, <1>2, <2>1 DEF Grows
<1> QED  BY <1>1, <1>3, <1>4

LEMMA StoreEventsDoes ==
  ASSUME CorInv, NEW w \in Workers, StoreEvents(w)
  PROVE  /\ CorInv' /\ Grows /\ \A v \in Workers \ {w} : Still(v)
         /\ at[w] = "store" /\ at'[w] = "trigger" /\ UNCHANGED <<now, store, lastRun, history>>
         /\ todo'[w] = todo[w] /\ cur'[w] = cur[w] /\ inc'[w] = inc[w]
         /\ DOMAIN incidents' = DOMAIN incidents
         /\ \A k \in DOMAIN incidents : incidents'[k].triggered = incidents[k].triggered
<1>1. /\ at[w] = "store" /\ Goto(w, "trigger")
      /\ UNCHANGED <<now, store, lastRun, since, upto, hits, unseen, todo, cur, inc, history>>
  BY DEF StoreEvents
<1>2. PICK stored \in SUBSET Evidence(cur[w]) :
        incidents' = [incidents EXCEPT ![inc[w]].events = stored]
  BY DEF StoreEvents
<1>3. stored \subseteq Events  BY DEF Evidence, Of, CorInv, GlobalTypes
<1>4. inc[w] \in DOMAIN incidents /\ incidents[inc[w]] \in Incident
  BY <1>1 DEF CorInv, WorkerFits, GlobalTypes
<1> DEFINE row == [incidents[inc[w]] EXCEPT !.events = stored]
<1>5. /\ row \in Incident /\ row.of = incidents[inc[w]].of /\ row.at = incidents[inc[w]].at
      /\ row.triggered = incidents[inc[w]].triggered
  BY <1>3, <1>4 DEF Incident
<1>6. incidents' = [incidents EXCEPT ![inc[w]] = row]  BY <1>2, <1>4
<1> HIDE DEF row
<1>7. /\ GlobalTypes' /\ Grows /\ DOMAIN incidents' = DOMAIN incidents
      /\ incidents'[inc[w]] = row /\ Len(incidents') = Len(incidents)
      /\ \A k \in DOMAIN incidents \ {inc[w]} : incidents'[k] = incidents[k]
  BY <1>1, <1>4, <1>5, <1>6, IncidentUpdated DEF history
<1>8. /\ at'[w] = "trigger" /\ LocalTypes' /\ \A v \in Workers \ {w} : Still(v)
  BY <1>1, GotoDone DEF CorInv, LocalTypes, Still, Awaits
<1>9. WorkerFits(w)'
  BY <1>1, <1>7, <1>8 DEF CorInv, WorkerFits, Searching, Holding, store, history
<1>10. CorInv'  BY <1>7, <1>8, <1>9, CorStep
<1> QED  BY <1>1, <1>4, <1>5, <1>7, <1>8, <1>10

LEMMA TriggerDoes ==
  ASSUME CorInv, NEW w \in Workers, Trigger(w)
  PROVE  /\ CorInv' /\ Grows /\ \A v \in Workers \ {w} : Still(v)
         /\ at[w] = "trigger" /\ at'[w] = "check"
         /\ UNCHANGED <<now, store, lastRun, scanned, detected, gaps, late>>
         /\ todo'[w] = todo[w] \ {cur[w]} /\ DOMAIN incidents' = DOMAIN incidents
         /\ \A k \in DOMAIN incidents \ {inc[w]} : incidents'[k] = incidents[k]
         /\ \/ incidents'[inc[w]].triggered = TRUE /\ failed' = failed
            \/ incidents' = incidents /\ failed' = failed \cup {cur[w]}
<1>1. at[w] = "trigger" /\ UNCHANGED <<now, store, lastRun, scanned, detected, gaps, late>>
  BY DEF Trigger
<1>2. /\ inc[w] \in DOMAIN incidents /\ incidents[inc[w]] \in Incident /\ cur[w] \in detected
  BY <1>1 DEF CorInv, WorkerFits, GlobalTypes, Holding
<1>3. CASE DropFailed(w, cur[w]) /\ UNCHANGED incidents
  BY <1>1, <1>2, <1>3, DropFailedDone DEF Holding
<1>4. CASE /\ incidents' = [incidents EXCEPT ![inc[w]].triggered = TRUE]
           /\ Drop(w, cur[w]) /\ UNCHANGED failed
  <2> DEFINE row == [incidents[inc[w]] EXCEPT !.triggered = TRUE]
  <2>1. /\ row \in Incident /\ row.of = incidents[inc[w]].of /\ row.at = incidents[inc[w]].at
        /\ row.triggered = TRUE
    BY <1>2 DEF Incident
  <2>2. incidents' = [incidents EXCEPT ![inc[w]] = row]  BY <1>2, <1>4
  <2> HIDE DEF row
  <2>3. /\ GlobalTypes' /\ Grows /\ DOMAIN incidents' = DOMAIN incidents
        /\ incidents'[inc[w]] = row
        /\ \A k \in DOMAIN incidents \ {inc[w]} : incidents'[k] = incidents[k]
    BY <1>1, <1>2, <1>4, <2>1, <2>2, IncidentUpdated
  <2>4. /\ CorInv' /\ \A v \in Workers \ {w} : Still(v)
        /\ at'[w] = "check" /\ todo'[w] = todo[w] \ {cur[w]}
    BY <1>1, <1>4, <2>3, DropDone DEF Holding
  <2> QED  BY <1>1, <1>4, <2>1, <2>3, <2>4
<1> QED  BY <1>3, <1>4 DEF Trigger

LEMMA RestartDoes ==
  ASSUME CorInv, Restart
  PROVE  /\ CorInv' /\ Grows /\ lastRun' = 0 /\ "crash" \in Faults
         /\ \A w \in Workers : at'[w] = "idle" /\ todo'[w] = {}
         /\ UNCHANGED <<now, store, incidents, history>>
<1>1. /\ "crash" \in Faults /\ lastRun' = 0
      /\ at' = [w \in Workers |-> "idle"]
      /\ since' = [w \in Workers |-> 0] /\ upto' = [w \in Workers |-> 0]
      /\ hits' = [w \in Workers |-> {}] /\ unseen' = [w \in Workers |-> {}]
      /\ todo' = [w \in Workers |-> {}]
      /\ cur' = [w \in Workers |-> None] /\ inc' = [w \in Workers |-> 0]
      /\ UNCHANGED <<now, store, incidents, history>>
  BY DEF Restart
<1>2. lastRun' \in 0..now /\ \A e \in Events : scanned[e] <= scanned[e]
  BY <1>1, Integral
<1>3. GlobalTypes' /\ Grows
  BY <1>1, <1>2, LocalStep DEF history, CorInv, GlobalTypes
<1>4. LocalTypes'  BY <1>1 DEF LocalTypes, Awaits
<1>5. \A w \in Workers : WorkerFits(w)'
  BY <1>1, Integral DEF WorkerFits, Searching, Holding
<1> QED  BY <1>1, <1>3, <1>4, <1>5 DEF CorInv

LEMMA CorNext == CorInv /\ [Next]_vars => CorInv'
<1> SUFFICES ASSUME CorInv, [Next]_vars  PROVE CorInv'  OBVIOUS
<1>1. CASE Tick \/ ToggleRule \/ Restart
  BY <1>1, TickDoes, ToggleDoes, RestartDoes
<1>2. ASSUME NEW e \in Events, Arrive(e) \/ Refresh(e)  PROVE CorInv'
  BY <1>2, ArriveDoes, RefreshDoes
<1>3. ASSUME NEW w \in Workers, RunRule(w)  PROVE CorInv'
  <2>1. CASE BeginCycle(w) \/ StartRule(w) \/ Search(w) \/ Fallback(w) \/ CompareVolume(w)
             \/ SearchFails(w)
    BY <2>1, BeginCycleDoes, StartRuleDoes, SearchDoes, FallbackDoes, CompareVolumeDoes,
       SearchFailsDoes
  <2>2. CASE Found(w) \/ CheckDuplicate(w) \/ CreateIncident(w) \/ StoreEvents(w)
             \/ Trigger(w) \/ EndRule(w)
    BY <2>2, FoundDoes, CheckDuplicateDoes, CreateIncidentDoes, StoreEventsDoes, TriggerDoes,
       EndRuleDoes
  <2> QED  BY <1>3, <2>1, <2>2 DEF RunRule
<1>4. CASE UNCHANGED vars
  BY <1>4 DEF vars, store, local, history, CorInv, GlobalTypes, LocalTypes, WorkerFits
<1> QED  BY <1>1, <1>2, <1>3, <1>4 DEF Next

LEMMA CorAlways == Spec => []CorInv
  BY InitDoes, CorNext, PTL DEF Spec

\* Type correctness: in particular nothing a worker read is ahead of the clock,
\* an event is never normalized before it was collected, and what failed had
\* been detected.
THEOREM CorrelationTypes == Spec => []TypeOK
<1>1. CorInv => TypeOK
  <2> SUFFICES ASSUME CorInv  PROVE TypeOK  OBVIOUS
  <2>1. \A e \in Events : stamp[e] \in 0..MaxTime /\ collected[e] \in 0..stamp[e]
    <3>1. \A e \in Events : collected[e] <= stamp[e] /\ stamp[e] <= now
      BY DEF CorInv, GlobalTypes
    <3> QED  BY <3>1, Integral
  <2>2. \A w \in Workers : since[w] \in 0..now /\ upto[w] \in 0..now /\ inc[w] \in 0..Len(incidents)
    <3>1. \A w \in Workers : since[w] <= now /\ upto[w] <= now /\ inc[w] <= Len(incidents)
      BY DEF CorInv, WorkerFits
    <3> QED  BY <3>1, Integral
  <2>3. visible \subseteq {e \in Events : stamp[e] # 0}  BY DEF CorInv, GlobalTypes
  <2>4. /\ stamp \in [Events -> 0..MaxTime] /\ since \in [Workers -> 0..now]
        /\ upto \in [Workers -> 0..now] /\ inc \in [Workers -> 0..Len(incidents)]
    BY <2>1, <2>2 DEF CorInv, GlobalTypes, LocalTypes
  <2> QED  BY <2>1, <2>3, <2>4 DEF TypeOK, CorInv, GlobalTypes, LocalTypes
<1> QED  BY <1>1, CorAlways, PTL
-----------------------------------------------------------------------------
(* What a search leaves out.  An event that was written to the index, found by
   it yet or not, is behind the last run only for one of the reasons below, and
   what a worker holds, with what its query could not find yet, covers its range
   up to the moment the query left. *)

Written == {e \in Events : stamp[e] # 0}

NoEnrichment(e) == rule \in {"R002", "R003", "R004"} /\ e \notin Enriched

Explained(e) ==
    \/ scanned[e] > 0 \/ stamp[e] \in gaps \/ e \in late
    \/ RangeStamp(e) # stamp[e]
    \/ NoEnrichment(e)

\* What is behind the range of a search is explained, and what is in it was found.
Covers(w) ==
    /\ at[w] \in Searching =>
          \A e \in Written : (RangeStamp(e) < since[w] => Explained(e))
    /\ at[w] \in {"found", "again"} =>
          \A e \in Written : \/ RangeStamp(e) # stamp[e] \/ NoEnrichment(e)
                             \/ stamp[e] < since[w] \/ upto[w] <= stamp[e]
                             \/ e \in hits[w] \/ e \in unseen[w]

GapsInv ==
    /\ \A e \in Written : (RangeStamp(e) < lastRun => Explained(e))
    /\ \A w \in Workers : Covers(w)

\* The reasons stay, and an event that arrives is ahead of every range.
LEMMA ReasonsStay ==
  ASSUME CorInv, CorInv', Grows, NEW e \in Written
  PROVE  /\ e \in Events /\ e \in Written' /\ RangeStamp(e)' = RangeStamp(e)
         /\ stamp'[e] = stamp[e] /\ (NoEnrichment(e) => NoEnrichment(e)')
         /\ (Explained(e) => Explained(e)')
         /\ RangeStamp(e) \in Nat /\ stamp[e] \in Nat /\ stamp[e] <= now
<1>1. /\ e \in Events /\ e \in Written' /\ stamp'[e] = stamp[e] /\ collected'[e] = collected[e]
      /\ rule' = rule /\ gaps \subseteq gaps' /\ late \subseteq late' /\ scanned[e] <= scanned'[e]
      /\ stamp[e] <= now
  BY DEF Written, CorInv, GlobalTypes, Grows
<1>2. scanned[e] \in Nat /\ scanned'[e] \in Nat /\ stamp[e] \in Nat /\ collected[e] \in Nat
  BY <1>1 DEF CorInv, GlobalTypes
<1>3. RangeStamp(e)' = RangeStamp(e) /\ RangeStamp(e) \in Nat  BY <1>1, <1>2 DEF RangeStamp
<1>4. NoEnrichment(e) => NoEnrichment(e)'  BY <1>1 DEF NoEnrichment
<1>5. scanned[e] > 0 => scanned'[e] > 0  BY <1>1, <1>2
<1>6. Explained(e) => Explained(e)'  BY <1>1, <1>3, <1>4, <1>5 DEF Explained
<1> QED  BY <1>1, <1>2, <1>3, <1>4, <1>6

LEMMA VisibleStays ==
  ASSUME CorInv, CorInv', Grows, NEW e \in visible
  PROVE  e \in visible' /\ RangeStamp(e)' = RangeStamp(e) /\ RangeStamp(e) \in Nat
<1>1. e \in Written  BY DEF Written, CorInv, GlobalTypes
<1>2. e \in visible'  BY DEF Grows
<1> QED  BY <1>1, <1>2, ReasonsStay

LEMMA CoversStays ==
  ASSUME CorInv, CorInv', Grows, NEW w \in Workers, Covers(w), Still(w),
         \A e \in Written' : e \in Written \/ stamp'[e] = now
  PROVE  Covers(w)'
<1>1. /\ since[w] \in Nat /\ upto[w] \in Nat /\ now \in Nat /\ since[w] <= now /\ upto[w] <= now
      /\ at'[w] = at[w] /\ since'[w] = since[w] /\ upto'[w] = upto[w] /\ hits'[w] = hits[w]
      /\ unseen'[w] = unseen[w]
  BY Integral DEF Still, CorInv, WorkerFits
<1>2. ASSUME at'[w] \in Searching, NEW e \in Written', RangeStamp(e)' < since'[w]
      PROVE  Explained(e)'
  <2>1. CASE e \in Written  BY <1>1, <1>2, <2>1, ReasonsStay DEF Covers
  <2>2. CASE stamp'[e] = now
    <3>1. RangeStamp(e)' # stamp'[e]  BY <1>1, <1>2, <2>2
    <3> QED  BY <3>1 DEF Explained
  <2> QED  BY <1>2, <2>1, <2>2
<1>3. ASSUME at'[w] \in {"found", "again"}, NEW e \in Written'
      PROVE  \/ RangeStamp(e)' # stamp'[e] \/ NoEnrichment(e)'
             \/ stamp'[e] < since'[w] \/ upto'[w] <= stamp'[e]
             \/ e \in hits'[w] \/ e \in unseen'[w]
  <2>1. CASE e \in Written
    <3>1. \/ RangeStamp(e) # stamp[e] \/ NoEnrichment(e)
          \/ stamp[e] < since[w] \/ upto[w] <= stamp[e] \/ e \in hits[w] \/ e \in unseen[w]
      BY <1>1, <1>3, <2>1 DEF Covers
    <3> QED  BY <1>1, <2>1, <3>1, ReasonsStay
  <2>2. CASE stamp'[e] = now  BY <1>1, <2>2
  <2> QED  BY <1>3, <2>1, <2>2
<1> QED  BY <1>2, <1>3 DEF Covers

\* A step of a worker that leaves the last run alone.
LEMMA GapsStep ==
  ASSUME CorInv, CorInv', Grows, GapsInv, NEW w \in Workers, Covers(w)',
         \A v \in Workers \ {w} : Still(v), UNCHANGED <<store, lastRun>>
  PROVE  GapsInv'
<1>1. UNCHANGED <<rule, stamp, collected, visible, lastRun>>  BY DEF store
<1>2. Written' = Written  BY <1>1 DEF Written
<1>3. \A e \in Written' : (RangeStamp(e)' < lastRun' => Explained(e)')
  BY <1>1, <1>2, ReasonsStay DEF GapsInv
<1>4. \A v \in Workers : Covers(v)'
  BY <1>1, <1>2, CoversStays DEF GapsInv
<1> QED  BY <1>3, <1>4 DEF GapsInv

\* A worker that is not searching covers nothing.
LEMMA NoSearchNoCover ==
  ASSUME NEW w \in Workers, at'[w] \notin Searching  PROVE Covers(w)'
  BY DEF Covers, Searching

\* A query that left in the range of the worker answers for all of it.
LEMMA AnswerCovers ==
  ASSUME CorInv, CorInv', Grows, GapsInv, NEW w \in Workers, at[w] \in Searching,
         UNCHANGED store, since'[w] = since[w], upto'[w] = upto[w],
         NEW sought, hits'[w] = Answer(w, sought), unseen'[w] = Missed(w),
         \A e \in Written : e \in sought \/ NoEnrichment(e)
  PROVE  Covers(w)'
<1>1. UNCHANGED <<rule, stamp, collected, visible>> /\ Written' = Written  BY DEF store, Written
<1>2. since[w] \in Nat /\ upto[w] \in Nat  BY Integral
<1>3. \A e \in Written' : (RangeStamp(e)' < since'[w] => Explained(e)')
  BY <1>1, ReasonsStay DEF GapsInv, Covers
<1>4. ASSUME NEW e \in Written'
      PROVE  \/ RangeStamp(e)' # stamp'[e] \/ NoEnrichment(e)'
             \/ stamp'[e] < since'[w] \/ upto'[w] <= stamp'[e]
             \/ e \in hits'[w] \/ e \in unseen'[w]
  <2>1. e \in Written /\ stamp[e] \in Nat /\ stamp'[e] = stamp[e]
        /\ RangeStamp(e)' = RangeStamp(e) /\ (NoEnrichment(e) => NoEnrichment(e)')
    BY <1>1, <1>4, ReasonsStay
  <2>2. CASE NoEnrichment(e)  BY <2>1, <2>2
  <2>3. CASE e \in sought /\ RangeStamp(e) = stamp[e] /\ since[w] <= stamp[e] /\ stamp[e] < upto[w]
    BY <1>2, <2>1, <2>3 DEF Answer, Missed, InRange, Written
  <2> QED  BY <1>2, <2>1, <2>2, <2>3
<1> QED  BY <1>3, <1>4 DEF Covers

LEMMA GapsAtFirst == Init => GapsInv
  BY CorrelationAssumption DEF Init, GapsInv, Covers, Searching, Written

\* The world moves.
LEMMA GapsWorld ==
  ASSUME CorInv, CorInv', Grows, GapsInv, \A w \in Workers : Still(w), UNCHANGED lastRun,
         \A e \in Written' : e \in Written \/ stamp'[e] = now
  PROVE  GapsInv'
<1>1. \A w \in Workers : Covers(w)'  BY CoversStays DEF GapsInv
<1>2. ASSUME NEW e \in Written', RangeStamp(e)' < lastRun'  PROVE Explained(e)'
  <2>1. CASE e \in Written  BY <1>2, <2>1, ReasonsStay DEF GapsInv
  <2>2. CASE stamp'[e] = now
    <3>1. RangeStamp(e)' # stamp'[e]  BY <1>2, <2>2, Integral
    <3> QED  BY <3>1 DEF Explained
  <2> QED  BY <1>2, <2>1, <2>2
<1> QED  BY <1>1, <1>2 DEF GapsInv

LEMMA GapsArrive ==
  ASSUME CorInv, GapsInv, NEW e \in Events, Arrive(e)
  PROVE  GapsInv'
<1>1. /\ CorInv' /\ Grows /\ \A w \in Workers : Still(w)
      /\ lastRun' = lastRun /\ stamp'[e] = now
      /\ \A f \in Events \ {e} : stamp'[f] = stamp[f]
  BY ArriveDoes
<1>2. \A f \in Written' : f \in Written \/ stamp'[f] = now  BY <1>1 DEF Written
<1> QED  BY <1>1, <1>2, GapsWorld

\* The answer arrives: every event of the past is explained.
LEMMA GapsFound ==
  ASSUME CorInv, GapsInv, NEW w \in Workers, Found(w)
  PROVE  GapsInv'
<1>1. /\ CorInv' /\ Grows
      /\ at[w] \in {"found", "again"} /\ at'[w] = "check" /\ lastRun' = now
      /\ gaps' = gaps \cup (upto[w] .. (now - 1)) /\ late' = late \cup unseen[w]
      /\ scanned' = [e \in Events |-> IF e \in hits[w] THEN scanned[e] + 1 ELSE scanned[e]]
      /\ UNCHANGED <<now, store>>
  BY FoundDoes
<1>2. \A v \in Workers \ {w} : Still(v)  BY FoundDoes
<1>3. UNCHANGED <<rule, stamp, collected, visible>> /\ Written' = Written  BY <1>1 DEF store, Written
<1>4. /\ upto[w] \in Nat /\ since[w] \in Nat /\ now \in Nat  BY Integral
<1>5. ASSUME NEW e \in Written', RangeStamp(e)' < lastRun'  PROVE Explained(e)'
  <2>1. /\ e \in Written /\ e \in Events /\ RangeStamp(e)' = RangeStamp(e) /\ stamp'[e] = stamp[e]
        /\ (NoEnrichment(e) => NoEnrichment(e)') /\ (Explained(e) => Explained(e)')
        /\ RangeStamp(e) \in Nat /\ stamp[e] \in Nat
    BY <1>1, <1>3, <1>5, ReasonsStay
  <2>2. CASE RangeStamp(e) # stamp[e] \/ NoEnrichment(e)  BY <2>1, <2>2 DEF Explained
  <2>3. CASE RangeStamp(e) = stamp[e] /\ stamp[e] < since[w]
    BY <1>1, <2>1, <2>3 DEF GapsInv, Covers, Searching
  <2>4. CASE e \in hits[w]
    <3>1. scanned[e] \in Nat /\ scanned'[e] = scanned[e] + 1  BY <1>1, <2>1, <2>4, Integral
    <3>2. scanned'[e] > 0  BY <3>1
    <3> QED  BY <3>2 DEF Explained
  <2>5. CASE RangeStamp(e) = stamp[e] /\ upto[w] <= stamp[e]
    <3>1. stamp[e] \in upto[w] .. (now - 1)  BY <1>1, <1>4, <1>5, <2>1, <2>5
    <3> QED  BY <1>1, <2>1, <3>1 DEF Explained
  <2>6. CASE e \in unseen[w]  BY <1>1, <2>6 DEF Explained
  <2>7. \/ RangeStamp(e) # stamp[e] \/ NoEnrichment(e)
        \/ stamp[e] < since[w] \/ upto[w] <= stamp[e] \/ e \in hits[w] \/ e \in unseen[w]
    BY <1>1, <2>1 DEF GapsInv, Covers
  <2> QED  BY <2>2, <2>3, <2>4, <2>5, <2>6, <2>7
<1>6. \A v \in Workers : Covers(v)'
  <2>1. Covers(w)'  BY <1>1, NoSearchNoCover DEF Searching
  <2>2. \A v \in Workers \ {w} : Covers(v)'  BY <1>1, <1>2, <1>3, CoversStays DEF GapsInv
  <2> QED  BY <2>1, <2>2
<1> QED  BY <1>5, <1>6 DEF GapsInv

LEMMA GapsNext ==
  ASSUME CorInv, GapsInv, [Next]_vars
  PROVE  GapsInv'
<1>1. CASE Tick \/ ToggleRule
  <2>1. /\ CorInv' /\ Grows /\ UNCHANGED <<lastRun, stamp, visible>>
        /\ \A w \in Workers : Still(w)
    BY <1>1, TickDoes, ToggleDoes DEF store
  <2>2. Written' = Written  BY <2>1 DEF Written
  <2> QED  BY <2>1, <2>2, GapsWorld
<1>2. ASSUME NEW e \in Events, Refresh(e)  PROVE GapsInv'
  <2>1. /\ CorInv' /\ Grows /\ UNCHANGED <<lastRun, stamp>> /\ \A w \in Workers : Still(w)
    BY <1>2, RefreshDoes
  <2>2. Written' = Written  BY <2>1 DEF Written
  <2> QED  BY <2>1, <2>2, GapsWorld
<1>3. ASSUME NEW w \in Workers, RunRule(w)  PROVE GapsInv'
  <2>1. CASE BeginCycle(w)
    BY <2>1, BeginCycleDoes, NoSearchNoCover, GapsStep DEF Searching
  <2>2. CASE StartRule(w)
    <3>1. /\ CorInv' /\ Grows /\ UNCHANGED <<store, lastRun>>
          /\ at'[w] = "search" /\ since'[w] = lastRun
      BY <2>2, StartRuleDoes
    <3>2. UNCHANGED <<rule, stamp, collected, visible>> /\ Written' = Written  BY <3>1 DEF store, Written
    <3>3. Covers(w)'  BY <3>1, <3>2, ReasonsStay DEF GapsInv, Covers
    <3> QED  BY <2>2, <3>1, <3>3, StartRuleDoes, GapsStep
  <2>3. CASE Search(w)
    <3> DEFINE sought == IF rule \in {"R002", "R003", "R004"} THEN Enriched ELSE Events
    <3>1. \A e \in Written : e \in sought \/ NoEnrichment(e)
      BY DEF NoEnrichment, Written
    <3>2. /\ CorInv' /\ Grows /\ UNCHANGED <<store, lastRun>> /\ at[w] = "search"
          /\ hits'[w] = Answer(w, sought) /\ unseen'[w] = Missed(w) /\ since'[w] = since[w] /\ upto'[w] = upto[w]
      BY <2>3, SearchDoes
    <3> HIDE DEF sought
    <3>3. Covers(w)'  BY <3>1, <3>2, AnswerCovers DEF Searching
    <3> QED  BY <2>3, <3>2, <3>3, SearchDoes, GapsStep
  <2>4. CASE Fallback(w)
    <3>1. \A e \in Written : e \in Events \/ NoEnrichment(e)  BY DEF Written
    <3>2. /\ CorInv' /\ Grows /\ UNCHANGED <<store, lastRun>> /\ at[w] = "found"
          /\ hits'[w] = Answer(w, Events) /\ unseen'[w] = Missed(w) /\ since'[w] = since[w] /\ upto'[w] = upto[w]
      BY <2>4, FallbackDoes
    <3>3. Covers(w)'  BY <3>1, <3>2, AnswerCovers DEF Searching
    <3> QED  BY <2>4, <3>2, <3>3, FallbackDoes, GapsStep
  <2>5. CASE CompareVolume(w)
    <3>1. /\ CorInv' /\ Grows /\ UNCHANGED <<store, lastRun>>
          /\ at[w] = "found" /\ at'[w] = "again" /\ hits'[w] = hits[w]
          /\ unseen'[w] = unseen[w]
          /\ since'[w] = since[w] /\ upto'[w] = upto[w]
      BY <2>5, CompareVolumeDoes
    <3>2. UNCHANGED <<rule, stamp, collected, visible>> /\ Written' = Written  BY <3>1 DEF store, Written
    <3>3. Covers(w)
      BY DEF GapsInv
    <3>4. Covers(w)'  BY <3>1, <3>2, <3>3, ReasonsStay DEF Covers, Searching
    <3> QED  BY <2>5, <3>1, <3>4, CompareVolumeDoes, GapsStep
  <2>6. CASE SearchFails(w) \/ EndRule(w)
    BY <2>6, SearchFailsDoes, EndRuleDoes, NoSearchNoCover, GapsStep DEF Searching
  <2>7. CASE Found(w)  BY <2>7, GapsFound
  <2>8. CASE CheckDuplicate(w)
    <3>1. at'[w] \notin Searching  BY <2>8, CheckDuplicateDoes DEF Searching
    <3> QED  BY <2>8, <3>1, CheckDuplicateDoes, NoSearchNoCover, GapsStep
  <2>9. CASE CreateIncident(w)
    <3>1. at'[w] \notin Searching  BY <2>9, CreateIncidentDoes DEF Searching
    <3> QED  BY <2>9, <3>1, CreateIncidentDoes, NoSearchNoCover, GapsStep
  <2>10. CASE StoreEvents(w)
    BY <2>10, StoreEventsDoes, NoSearchNoCover, GapsStep DEF Searching
  <2>11. CASE Trigger(w)
    BY <2>11, TriggerDoes, NoSearchNoCover, GapsStep DEF Searching
  <2> QED
    BY <1>3, <2>1, <2>2, <2>3, <2>4, <2>5, <2>6, <2>7, <2>8, <2>9, <2>10, <2>11 DEF RunRule
<1>4. CASE Restart
  <2>1. /\ CorInv' /\ Grows /\ lastRun' = 0 /\ UNCHANGED store
        /\ \A w \in Workers : at'[w] = "idle"
    BY <1>4, RestartDoes
  <2>2. UNCHANGED <<rule, stamp, collected, visible>> /\ Written' = Written  BY <2>1 DEF store, Written
  <2>3. \A e \in Written' : ~(RangeStamp(e)' < lastRun')  BY <2>1, <2>2, ReasonsStay
  <2>4. \A w \in Workers : Covers(w)'  BY <2>1, NoSearchNoCover DEF Searching
  <2> QED  BY <2>2, <2>3, <2>4 DEF GapsInv
<1>5. CASE UNCHANGED vars
  BY <1>5 DEF vars, store, local, history, GapsInv, Covers, Explained, NoEnrichment, RangeStamp, Written
<1> QED  BY <1>1, <1>2, <1>3, <1>4, <1>5, GapsArrive DEF Next

\* The last run never runs ahead of what was searched: whatever number of cycles
\* fail, overlap or are cut short by a restart, and however late the index finds
\* what was written to it, an event the last run has passed was part of a search,
\* or arrived while one was in flight, or was not yet found when one that covered
\* it was answered, or is of a kind the rule does not look for.
THEOREM SearchesLeaveNoGaps == Spec => []OnlyGapsAreLost
<1>1. CorInv /\ GapsInv /\ [Next]_vars => GapsInv'  BY GapsNext
<1>2. CorInv /\ GapsInv => OnlyGapsAreLost
  BY DEF GapsInv, OnlyGapsAreLost, Explained, NoEnrichment, Written
<1> QED  BY <1>1, <1>2, GapsAtFirst, CorAlways, PTL DEF Spec
-----------------------------------------------------------------------------
(* What is behind an incident.  Every incident is of a detection, a detection
   of R001 or R005 of a burst, and a burst stays in the index. *)

Bursty(s) ==
    \E B \in SUBSET Of(visible, s) :
        /\ Cardinality(B) >= Threshold /\ Span(B) <= MaxSpan
        /\ rule = "R005" => Cardinality(Aims(B)) >= MinTargets

BurstsInv ==
    /\ \A k \in DOMAIN incidents : incidents[k].of \in detected
    /\ \A w \in Workers :
          rule # "R004" /\ at[w] \in {"idle", "ready"} \cup Searching => todo[w] = {}
    /\ rule \in {"R001", "R005"} => \A d \in detected : Bursty(d.source)

LEMMA BurstStays ==
  ASSUME CorInv, Grows, NEW s, Bursty(s)
  PROVE  Bursty(s)'
<1>1. PICK B \in SUBSET Of(visible, s) :
         /\ Cardinality(B) >= Threshold /\ Span(B) <= MaxSpan
         /\ rule = "R005" => Cardinality(Aims(B)) >= MinTargets
  BY DEF Bursty
<1>2. B \in SUBSET Of(visible', s) /\ \A e \in B : collected'[e] = collected[e]
  BY DEF Of, Grows
<1>3. {collected'[e] : e \in B} = {collected[e] : e \in B}  BY <1>2
<1>4. Span(B)' = Span(B)  BY <1>3 DEF Span
<1>5. rule' = rule  BY DEF Grows
<1> QED  BY <1>1, <1>2, <1>4, <1>5 DEF Bursty, Of

\* A detection is of a source whose events, as the index returned them, are a burst.
LEMMA DetectionOfBurst ==
  ASSUME NEW q, NEW S \in SUBSET visible, rule \in {"R001", "R005"}, NEW d \in Detections(q, S)
  PROVE  Bursty(d.source)
<1>1. PICK s \in Sources : Matches(q, Of(S, s)) /\ d = Detect(q, s, Of(S, s))
  BY DEF Detections
<1>2. d.source = s  BY <1>1 DEF Detect
<1> DEFINE B == Of(S, s)
<1>3. B \in SUBSET Of(visible, s)  BY DEF Of
<1> HIDE DEF B
<1>4. /\ Cardinality(B) >= Threshold /\ Span(B) <= MaxSpan
      /\ rule = "R005" => Cardinality(Aims(B)) >= MinTargets
  BY <1>1 DEF Matches, BruteForce, Reconnaissance, B
<1> QED  BY <1>2, <1>3, <1>4 DEF Bursty

\* A step that detects nothing, and adds an incident only of what was detected.
LEMMA BurstsStep ==
  ASSUME CorInv, Grows, BurstsInv, detected' = detected,
         \A k \in DOMAIN incidents' : k \in DOMAIN incidents \/ incidents'[k].of \in detected,
         \A w \in Workers : \/ at'[w] \notin {"idle", "ready"} \cup Searching
                            \/ todo'[w] = {} \/ rule = "R004"
  PROVE  BurstsInv'
<1>1. rule' = rule  BY DEF Grows
<1>2. \A k \in DOMAIN incidents' : incidents'[k].of \in detected'  BY DEF BurstsInv, Grows
<1>3. ASSUME rule' \in {"R001", "R005"}, NEW d \in detected'  PROVE Bursty(d.source)'
  <2>1. Bursty(d.source)  BY <1>1, <1>3 DEF BurstsInv
  <2> DEFINE s == d.source
  <2>2. Bursty(s)  BY <2>1
  <2> HIDE DEF s
  <2>3. Bursty(s)'  BY <2>2, BurstStays
  <2> QED  BY <2>3 DEF s
<1> QED  BY <1>1, <1>2, <1>3 DEF BurstsInv

LEMMA BurstsAtFirst == Init => BurstsInv
  BY DEF Init, BurstsInv

LEMMA BurstsFound ==
  ASSUME CorInv, BurstsInv, NEW w \in Workers, Found(w)
  PROVE  BurstsInv'
<1>1. /\ Grows /\ at[w] \in {"found", "again"} /\ at'[w] = "check"
      /\ todo'[w] = todo[w] \cup Detections(at[w], hits[w])
      /\ detected' = detected \cup todo'[w] /\ UNCHANGED <<store, incidents>>
      /\ \A v \in Workers \ {w} : Still(v)
  BY FoundDoes
<1>2. hits[w] \in SUBSET visible  BY DEF CorInv, WorkerFits
<1>3. UNCHANGED rule  BY <1>1 DEF store
<1>4. ASSUME rule' \in {"R001", "R005"}, NEW d \in detected'  PROVE Bursty(d.source)'
  <2>1. todo[w] = {}  BY <1>1, <1>3, <1>4 DEF BurstsInv, Searching
  <2>2. Bursty(d.source)
    <3>1. CASE d \in detected  BY <1>3, <1>4, <3>1 DEF BurstsInv
    <3>2. CASE d \in Detections(at[w], hits[w])
      BY <1>2, <1>3, <1>4, <3>2, DetectionOfBurst
    <3> QED  BY <1>1, <1>4, <2>1, <3>1, <3>2
  <2> DEFINE s == d.source
  <2>3. Bursty(s)  BY <2>2
  <2> HIDE DEF s
  <2>4. Bursty(s)'  BY <1>1, <2>3, BurstStays
  <2> QED  BY <2>4 DEF s
<1>5. \A v \in Workers :
         rule' # "R004" /\ at'[v] \in {"idle", "ready"} \cup Searching => todo'[v] = {}
  BY <1>1, <1>3 DEF BurstsInv, Still, Searching
<1> QED  BY <1>1, <1>4, <1>5 DEF BurstsInv

LEMMA BurstsNext ==
  ASSUME CorInv, BurstsInv, [Next]_vars
  PROVE  BurstsInv'
<1> DEFINE Free(w) == \/ at'[w] \notin {"idle", "ready"} \cup Searching
                      \/ todo'[w] = {} \/ rule = "R004"
<1>0. \A w \in Workers : (Still(w) => Free(w))  BY DEF BurstsInv, Still
<1>1. CASE Tick \/ ToggleRule \/ \E e \in Events : Arrive(e) \/ Refresh(e)
  <2>1. Grows /\ UNCHANGED <<incidents, history>> /\ \A w \in Workers : Still(w)
    BY <1>1, TickDoes, ToggleDoes, ArriveDoes, RefreshDoes
  <2>2. detected' = detected  BY <2>1 DEF history
  <2>3. \A w \in Workers : Free(w)  BY <2>1, <1>0
  <2> QED  BY <2>1, <2>2, <2>3, BurstsStep
<1>2. ASSUME NEW w \in Workers, RunRule(w)  PROVE BurstsInv'
  <2>1. CASE BeginCycle(w) \/ StartRule(w) \/ Search(w) \/ Fallback(w)
    <3>1. Grows /\ UNCHANGED <<incidents, history>> /\ \A v \in Workers \ {w} : Still(v)
      BY <2>1, BeginCycleDoes, StartRuleDoes, SearchDoes, FallbackDoes
    <3>2. /\ at[w] \in {"idle", "ready"} \cup Searching
          /\ todo'[w] = todo[w]
      BY <2>1, BeginCycleDoes, StartRuleDoes, SearchDoes, FallbackDoes DEF Searching
    <3>3. Free(w)  BY <3>2 DEF BurstsInv
    <3>4. detected' = detected /\ \A v \in Workers : Free(v)  BY <1>0, <3>1, <3>3 DEF history
    <3> QED  BY <3>1, <3>4, BurstsStep
  <2>2. CASE CompareVolume(w) \/ SearchFails(w) \/ EndRule(w)
    <3>1. Grows /\ UNCHANGED <<incidents, history>> /\ \A v \in Workers \ {w} : Still(v)
      BY <2>2, CompareVolumeDoes, SearchFailsDoes, EndRuleDoes
    <3>2. Free(w)  BY <2>2, CompareVolumeDoes, SearchFailsDoes, EndRuleDoes
    <3>3. detected' = detected /\ \A v \in Workers : Free(v)  BY <1>0, <3>1, <3>2 DEF history
    <3> QED  BY <3>1, <3>3, BurstsStep
  <2>3. CASE Found(w)  BY <2>3, BurstsFound
  <2>4. CASE CheckDuplicate(w)
    <3>1. Grows /\ UNCHANGED <<incidents, detected>> /\ \A v \in Workers \ {w} : Still(v)
      BY <2>4, CheckDuplicateDoes
    <3>2. Free(w)  BY <2>4, CheckDuplicateDoes DEF Searching
    <3>3. \A v \in Workers : Free(v)  BY <1>0, <3>1, <3>2
    <3> QED  BY <3>1, <3>3, BurstsStep
  <2>5. CASE CreateIncident(w)
    <3>1. Grows /\ detected' = detected /\ \A v \in Workers \ {w} : Still(v)
      BY <2>5, CreateIncidentDoes
    <3>2. Free(w)  BY <2>5, CreateIncidentDoes DEF Searching
    <3>3. \A v \in Workers : Free(v)  BY <1>0, <3>1, <3>2
    <3>4. cur[w] \in detected
      BY <2>5, CreateIncidentDoes DEF CorInv, WorkerFits, Holding
    <3>5. \A k \in DOMAIN incidents' : k \in DOMAIN incidents \/ incidents'[k].of \in detected
      BY <2>5, <3>4, CreateIncidentDoes
    <3> QED  BY <3>1, <3>3, <3>5, BurstsStep
  <2>6. CASE StoreEvents(w) \/ Trigger(w)
    <3>1. /\ Grows /\ detected' = detected /\ \A v \in Workers \ {w} : Still(v)
          /\ DOMAIN incidents' = DOMAIN incidents
      BY <2>6, StoreEventsDoes, TriggerDoes DEF history
    <3>2. Free(w)  BY <2>6, StoreEventsDoes, TriggerDoes DEF Searching
    <3>3. \A v \in Workers : Free(v)  BY <1>0, <3>1, <3>2
    <3> QED  BY <3>1, <3>3, BurstsStep
  <2> QED  BY <1>2, <2>1, <2>2, <2>3, <2>4, <2>5, <2>6 DEF RunRule
<1>3. CASE Restart
  <2>1. Grows /\ UNCHANGED <<incidents, history>> /\ \A w \in Workers : todo'[w] = {}
    BY <1>3, RestartDoes
  <2>2. detected' = detected  BY <2>1 DEF history
  <2> QED  BY <2>1, <2>2, BurstsStep
<1>4. CASE UNCHANGED vars
  <2>1. UNCHANGED <<now, rule, collected, stamp, visible, incidents, scanned, detected, failed, gaps, late>>
    BY <1>4 DEF vars, store, history
  <2>2. now <= now /\ Len(incidents) <= Len(incidents) /\ \A e \in Events : scanned[e] <= scanned[e]
    BY Integral
  <2>3. Grows  BY <2>1, <2>2 DEF Grows
  <2>4. \A w \in Workers : Free(w)  BY <1>0, <1>4 DEF vars, local, Still
  <2> QED  BY <2>1, <2>3, <2>4, BurstsStep
<1> QED  BY <1>1, <1>2, <1>3, <1>4 DEF Next

LEMMA BurstsAlways == Spec => []BurstsInv
  BY BurstsAtFirst, BurstsNext, CorAlways, PTL DEF Spec

\* No incident of R001 or R005, hence no blocked address, without a burst that is
\* still in the index: enough events, close together and, of a scan, to enough
\* targets, whichever workers searched, failed or restarted meanwhile.
THEOREM IncidentsHaveBursts == Spec => []IncidentsAreBursts
<1>1. BurstsInv => IncidentsAreBursts  BY DEF BurstsInv, IncidentsAreBursts, Bursty
<1> QED  BY <1>1, BurstsAlways, PTL
-----------------------------------------------------------------------------
(* What becomes of a detection, while the process lives.  It is on the list of a
   worker until it has an incident, a neighbour that names it, or an error; an
   incident waits for its playbook only while a worker is at it. *)

Handled(d) == \E k \in DOMAIN incidents : incidents[k].of = d \/ SameEntity(k, d)

Listed(w, d)  == at[w] \in Holding \cup {"check"} /\ d \in todo[w]
IsAt(w, k) == at[w] \in {"store", "trigger"} /\ inc[w] = k

HandledInv ==
    /\ \A d \in detected \ failed : Handled(d) \/ \E w \in Workers : Listed(w, d)
    /\ \A k \in DOMAIN incidents :
          \/ incidents[k].triggered \/ incidents[k].of \in failed
          \/ \E w \in Workers : IsAt(w, k)
    /\ \A w \in Workers : at[w] \in {"store", "trigger"} => incidents[inc[w]].of = cur[w]

LEMMA HandledStays ==
  ASSUME Grows, NEW d, Handled(d)
  PROVE  Handled(d)'
  BY DEF Handled, SameEntity, Grows

\* The worker that moves keeps a detection on its list, or is done with it; so
\* with the incident it is at.
LEMMA HandledStep ==
  ASSUME CorInv, Grows, HandledInv, NEW w \in Workers, \A v \in Workers \ {w} : Still(v),
         \A d \in detected' \ failed' : d \in detected \/ Listed(w, d)',
         \A d \in detected : Listed(w, d) => Listed(w, d)' \/ d \in failed' \/ Handled(d)',
         \A k \in DOMAIN incidents : incidents[k].triggered => incidents'[k].triggered,
         \A k \in DOMAIN incidents' : k \in DOMAIN incidents \/ IsAt(w, k)',
         \A k \in DOMAIN incidents :
            IsAt(w, k) => IsAt(w, k)' \/ incidents'[k].triggered \/ cur[w] \in failed',
         at'[w] \in {"store", "trigger"} => incidents'[inc'[w]].of = cur'[w]
  PROVE  HandledInv'
<1>1. failed \subseteq failed' /\ DOMAIN incidents \subseteq DOMAIN incidents'
      /\ \A k \in DOMAIN incidents : incidents'[k].of = incidents[k].of
  BY DEF Grows
<1>2. \A v \in Workers \ {w} : /\ \A d : (Listed(v, d) => Listed(v, d)')
                               /\ \A k : (IsAt(v, k) => IsAt(v, k)')
  BY DEF Still, Listed, IsAt
<1>3. ASSUME NEW d \in detected' \ failed'
      PROVE  Handled(d)' \/ \E v \in Workers : Listed(v, d)'
  <2>1. CASE Listed(w, d)'  BY <2>1
  <2>2. CASE d \in detected
    <3>1. Handled(d) \/ \E v \in Workers : Listed(v, d)  BY <1>1, <1>3, <2>2 DEF HandledInv
    <3>2. CASE Handled(d)  BY <3>2, HandledStays
    <3>3. CASE \E v \in Workers : Listed(v, d)  BY <1>2, <1>3, <2>2, <3>3
    <3> QED  BY <3>1, <3>2, <3>3
  <2> QED  BY <1>3, <2>1, <2>2
<1>4. ASSUME NEW k \in DOMAIN incidents'
      PROVE  \/ incidents'[k].triggered \/ incidents'[k].of \in failed'
             \/ \E v \in Workers : IsAt(v, k)'
  <2>1. CASE k \notin DOMAIN incidents  BY <1>4, <2>1
  <2>2. CASE k \in DOMAIN incidents
    <3>1. \/ incidents[k].triggered \/ incidents[k].of \in failed
          \/ \E v \in Workers : IsAt(v, k)
      BY <2>2 DEF HandledInv
    <3>2. CASE incidents[k].triggered \/ incidents[k].of \in failed  BY <1>1, <2>2, <3>2
    <3>3. CASE IsAt(w, k)
      <4>1. incidents[k].of = cur[w]  BY <3>3 DEF HandledInv, IsAt
      <4> QED  BY <1>1, <2>2, <3>3, <4>1
    <3>4. CASE \E v \in Workers \ {w} : IsAt(v, k)  BY <1>2, <3>4
    <3> QED  BY <3>1, <3>2, <3>3, <3>4
  <2> QED  BY <2>1, <2>2
<1>5. ASSUME NEW v \in Workers, at'[v] \in {"store", "trigger"}
      PROVE  incidents'[inc'[v]].of = cur'[v]
  <2>1. CASE v = w  BY <1>5, <2>1
  <2>2. CASE v # w
    <3>1. /\ at[v] \in {"store", "trigger"} /\ inc'[v] = inc[v] /\ cur'[v] = cur[v]
      BY <1>5, <2>2 DEF Still
    <3>2. inc[v] \in DOMAIN incidents /\ incidents[inc[v]].of = cur[v]
      BY <3>1 DEF CorInv, WorkerFits, HandledInv
    <3> QED  BY <1>1, <3>1, <3>2
  <2> QED  BY <2>1, <2>2
<1> QED  BY <1>3, <1>4, <1>5 DEF HandledInv

LEMMA HandledAtFirst == Init => HandledInv
<1> SUFFICES ASSUME Init  PROVE HandledInv  OBVIOUS
<1>1. DOMAIN incidents = {} /\ detected = {} /\ \A w \in Workers : at[w] = "idle"
  BY DEF Init
<1> QED  BY <1>1 DEF HandledInv

LEMMA HandledNext ==
  ASSUME "crash" \notin Faults, CorInv, HandledInv, [Next]_vars
  PROVE  HandledInv'
<1>1. CASE Tick \/ ToggleRule \/ (\E e \in Events : Arrive(e) \/ Refresh(e)) \/ UNCHANGED vars
  <2>1. UNCHANGED <<incidents, local, history>>
    BY <1>1, TickDoes, ToggleDoes, ArriveDoes, RefreshDoes DEF vars
  <2> QED  BY <2>1 DEF HandledInv, Handled, SameEntity, Listed, IsAt, local, history
<1>2. ASSUME NEW w \in Workers, RunRule(w)  PROVE HandledInv'
  <2>1. CASE BeginCycle(w) \/ StartRule(w) \/ Search(w) \/ Fallback(w) \/ CompareVolume(w)
             \/ SearchFails(w) \/ EndRule(w)
    <3>1. Grows /\ UNCHANGED <<incidents, history>> /\ \A v \in Workers \ {w} : Still(v)
      BY <2>1, BeginCycleDoes, StartRuleDoes, SearchDoes, FallbackDoes, CompareVolumeDoes,
         SearchFailsDoes, EndRuleDoes
    <3>2. /\ at[w] \notin Holding /\ at'[w] \notin Holding
          /\ at[w] = "check" => todo[w] = {}
      BY <2>1, BeginCycleDoes, StartRuleDoes, SearchDoes, FallbackDoes, CompareVolumeDoes,
         SearchFailsDoes, EndRuleDoes DEF Holding, Searching
    <3>3. /\ \A d : ~Listed(w, d)
          /\ \A k : ~IsAt(w, k)
      BY <3>2 DEF Listed, IsAt, Holding
    <3> QED  BY <3>1, <3>2, <3>3, HandledStep DEF history, Holding
  <2>2. CASE Found(w)
    <3>1. /\ Grows /\ \A v \in Workers \ {w} : Still(v)
          /\ at[w] \in {"found", "again"} /\ at'[w] = "check"
          /\ detected' = detected \cup todo'[w] /\ UNCHANGED <<incidents, failed>>
      BY <2>2, FoundDoes
    <3>2. /\ \A d \in detected' : d \in detected \/ Listed(w, d)'
          /\ \A d : ~Listed(w, d)
          /\ \A k : ~IsAt(w, k)
      BY <3>1 DEF Listed, IsAt, Holding
    <3> QED  BY <3>1, <3>2, HandledStep
  <2>3. CASE CheckDuplicate(w)
    <3>1. /\ Grows /\ \A v \in Workers \ {w} : Still(v)
          /\ at[w] = "check" /\ UNCHANGED <<incidents, detected>>
      BY <2>3, CheckDuplicateDoes
    <3>2. PICK d \in todo[w] :
               \/ /\ Duplicate(d) /\ at'[w] = "check" /\ todo'[w] = todo[w] \ {d}
                  /\ failed' = failed
               \/ /\ at'[w] = "check" /\ todo'[w] = todo[w] \ {d} /\ failed' = failed \cup {d}
               \/ /\ ~Duplicate(d) /\ at'[w] = "create" /\ todo'[w] = todo[w] /\ cur'[w] = d
                  /\ failed' = failed
      BY <2>3, CheckDuplicateDoes
    <3>3. Duplicate(d) => Handled(d)
      BY Integral DEF Duplicate, Handled
    <3>4. Duplicate(d) => Handled(d)'  BY <3>1, <3>3, HandledStays
    <3>5. /\ \A x : (Listed(w, x) => Listed(w, x)' \/ x \in failed' \/ Handled(x)')
          /\ \A k : ~IsAt(w, k)
          /\ at'[w] \notin {"store", "trigger"}
      BY <3>1, <3>2, <3>4 DEF Listed, IsAt, Holding
    <3> QED  BY <3>1, <3>5, HandledStep
  <2>4. CASE CreateIncident(w)
    <3>1. /\ Grows /\ \A v \in Workers \ {w} : Still(v)
          /\ at[w] = "create" /\ UNCHANGED detected
      BY <2>4, CreateIncidentDoes
    <3>2. \A k : ~IsAt(w, k)  BY <3>1 DEF IsAt
    <3>3. CASE /\ at'[w] = "store" /\ todo'[w] = todo[w] /\ cur'[w] = cur[w]
               /\ inc'[w] = Len(incidents) + 1 /\ failed' = failed
               /\ DOMAIN incidents' = DOMAIN incidents \cup {Len(incidents) + 1}
               /\ \A k \in DOMAIN incidents : incidents'[k] = incidents[k]
               /\ incidents'[Len(incidents) + 1].of = cur[w]
      <4>1. /\ \A d : (Listed(w, d) => Listed(w, d)')
            /\ \A k \in DOMAIN incidents' : k \in DOMAIN incidents \/ IsAt(w, k)'
            /\ incidents'[inc'[w]].of = cur'[w]
        BY <3>1, <3>3 DEF Listed, IsAt, Holding
      <4> QED  BY <3>1, <3>2, <3>3, <4>1, HandledStep
    <3>4. CASE /\ at'[w] = "check" /\ todo'[w] = todo[w] \ {cur[w]}
               /\ failed' = failed \cup {cur[w]} /\ incidents' = incidents
      <4>1. \A d : (Listed(w, d) => Listed(w, d)' \/ d \in failed')
        BY <3>1, <3>4 DEF Listed, Holding
      <4> QED  BY <3>1, <3>2, <3>4, <4>1, HandledStep
    <3> QED  BY <2>4, <3>3, <3>4, CreateIncidentDoes
  <2>5. CASE StoreEvents(w)
    <3>1. /\ Grows /\ \A v \in Workers \ {w} : Still(v)
          /\ at[w] = "store" /\ at'[w] = "trigger" /\ UNCHANGED <<detected, failed>>
          /\ todo'[w] = todo[w] /\ cur'[w] = cur[w] /\ inc'[w] = inc[w]
          /\ DOMAIN incidents' = DOMAIN incidents
          /\ \A k \in DOMAIN incidents : incidents'[k].triggered = incidents[k].triggered
      BY <2>5, StoreEventsDoes DEF history
    <3>2. /\ \A d : (Listed(w, d) => Listed(w, d)')
          /\ \A k : (IsAt(w, k) => IsAt(w, k)')
      BY <3>1 DEF Listed, IsAt, Holding
    <3>3. incidents'[inc'[w]].of = cur'[w]
      <4>1. inc[w] \in DOMAIN incidents /\ incidents[inc[w]].of = cur[w]
        BY <3>1 DEF CorInv, WorkerFits, HandledInv
      <4> QED  BY <3>1, <4>1 DEF Grows
    <3> QED  BY <3>1, <3>2, <3>3, HandledStep
  <2>6. CASE Trigger(w)
    <3>1. /\ Grows /\ \A v \in Workers \ {w} : Still(v)
          /\ at[w] = "trigger" /\ at'[w] = "check" /\ UNCHANGED detected
          /\ todo'[w] = todo[w] \ {cur[w]} /\ DOMAIN incidents' = DOMAIN incidents
          /\ \A k \in DOMAIN incidents \ {inc[w]} : incidents'[k] = incidents[k]
          /\ \/ incidents'[inc[w]].triggered = TRUE /\ failed' = failed
             \/ incidents' = incidents /\ failed' = failed \cup {cur[w]}
      BY <2>6, TriggerDoes
    <3>2. inc[w] \in DOMAIN incidents /\ incidents[inc[w]].of = cur[w]
      BY <3>1 DEF CorInv, WorkerFits, HandledInv
    <3>3. Handled(cur[w])  BY <3>2 DEF Handled
    <3>4. \A d : (Listed(w, d) => Listed(w, d)' \/ d = cur[w])
      BY <3>1 DEF Listed, Holding
    <3>5. \A d : (Listed(w, d) => Listed(w, d)' \/ Handled(d)')
      BY <3>1, <3>3, <3>4, HandledStays
    <3>6. \A k \in DOMAIN incidents :
             IsAt(w, k) => incidents'[k].triggered \/ cur[w] \in failed'
      BY <3>1 DEF IsAt
    <3>7. \A k \in DOMAIN incidents : (incidents[k].triggered => incidents'[k].triggered)
      BY <3>1
    <3> QED  BY <3>1, <3>5, <3>6, <3>7, HandledStep
  <2> QED  BY <1>2, <2>1, <2>2, <2>3, <2>4, <2>5, <2>6 DEF RunRule
<1> QED  BY <1>1, <1>2 DEF Next, Restart

\* While the process lives, no detection is forgotten, however many workers
\* overlap and whichever searches and calls fail: when no cycle is under way,
\* each detection was cut short by an error or has an incident, its own or one
\* that names its entity, and every incident had its playbook started or failed.
THEOREM NoDetectionIsForgotten ==
  ASSUME "crash" \notin Faults
  PROVE  Spec => []DetectionsHandled
<1>1. CorInv /\ HandledInv /\ [Next]_vars => HandledInv'  BY HandledNext
<1>2. HandledInv => DetectionsHandled
  BY DEF HandledInv, DetectionsHandled, Handled, Listed, IsAt, Holding
<1> QED  BY <1>1, <1>2, HandledAtFirst, CorAlways, PTL DEF Spec
-----------------------------------------------------------------------------
(* One worker: cycles do not overlap. *)

OneWorker == \A v, w \in Workers : v = w

\* Between the duplicate check and the insert the clock may move, which can
\* only end the window.
NeighboursInv ==
    /\ NeighboursDiffer
    /\ \A w \in Workers : at[w] = "create" => ~Duplicate(cur[w])

LEMMA TimeOfRow ==
  ASSUME CorInv, NEW k \in DOMAIN incidents
  PROVE  incidents[k].at \in Nat
<1>1. incidents[k] \in Incident  BY DEF CorInv, GlobalTypes
<1> QED  BY <1>1 DEF Incident

LEMMA NotDuplicateStays ==
  ASSUME CorInv, CorInv', Grows, Len(incidents') = Len(incidents), NEW d, ~Duplicate(d)
  PROVE  ~Duplicate(d)'
<1>1. /\ now \in Nat /\ now' \in Nat /\ now <= now' /\ Len(incidents) \in Nat
      /\ DOMAIN incidents = 1..Len(incidents) /\ Window \in Nat
  BY Integral, CorrelationAssumption DEF CorInv, GlobalTypes, Grows
<1>2. CASE Len(incidents) = 0  BY <1>1, <1>2 DEF Duplicate
<1>3. CASE Len(incidents) > 0
  <2>1. PICK n : n = Len(incidents)  OBVIOUS
  <2>2. n \in DOMAIN incidents  BY <1>1, <1>3, <2>1
  <2>3. /\ incidents'[n].of = incidents[n].of /\ incidents'[n].at = incidents[n].at
        /\ incidents[n].at \in Nat
    BY <2>2, TimeOfRow DEF Grows
  <2>4. \/ ~(incidents[n].at + Window >= now)
        \/ ~(d.first \cap incidents[n].of.names # {})
    BY <1>3, <2>1 DEF Duplicate, SameEntity
  <2>5. \/ ~(incidents'[n].at + Window >= now')
        \/ ~(d.first \cap incidents'[n].of.names # {})
    BY <1>1, <2>3, <2>4
  <2> QED  BY <2>1, <2>5 DEF Duplicate, SameEntity
<1> QED  BY <1>1, <1>2, <1>3

\* No incident is added, and no other detection passes the check.
LEMMA NeighboursStep ==
  ASSUME CorInv, CorInv', Grows, NeighboursInv, DOMAIN incidents' = DOMAIN incidents,
         \A w \in Workers : \/ at'[w] # "create"
                            \/ at[w] = "create" /\ cur'[w] = cur[w]
                            \/ ~Duplicate(cur'[w])
  PROVE  NeighboursInv'
<1>1. Len(incidents') = Len(incidents)
  <2>1. DOMAIN incidents = 1..Len(incidents) /\ Len(incidents) \in Nat  BY Integral
  <2>2. incidents' \in Seq(Incident)  BY DEF CorInv, GlobalTypes
  <2> QED  BY <2>1, <2>2
<1>2. NeighboursDiffer'
  <2> SUFFICES ASSUME NEW k \in 2..Len(incidents)
               PROVE  \/ incidents'[k].at > incidents'[k - 1].at + Window
                      \/ ~SameEntity(k - 1, incidents[k].of)'
    BY <1>1 DEF NeighboursDiffer
  <2>1. k \in DOMAIN incidents /\ k - 1 \in DOMAIN incidents  BY Integral
  <2>2. /\ incidents'[k].of = incidents[k].of /\ incidents'[k].at = incidents[k].at
        /\ incidents'[k - 1].of = incidents[k - 1].of /\ incidents'[k - 1].at = incidents[k - 1].at
    BY <2>1 DEF Grows
  <2> QED  BY <2>2 DEF NeighboursInv, NeighboursDiffer, SameEntity
<1>3. ASSUME NEW w \in Workers, at'[w] = "create"  PROVE ~Duplicate(cur[w])'
  <2>1. PICK d : d = cur'[w]  OBVIOUS
  <2>2. ~Duplicate(d)  BY <1>3, <2>1 DEF NeighboursInv
  <2>3. ~Duplicate(d)'  BY <1>1, <2>2, NotDuplicateStays
  <2> QED  BY <2>1, <2>3 DEF Duplicate, SameEntity
<1> QED  BY <1>2, <1>3 DEF NeighboursInv

LEMMA NeighboursAtFirst == Init => NeighboursInv
<1> SUFFICES ASSUME Init  PROVE NeighboursInv  OBVIOUS
<1>1. Len(incidents) = 0 /\ \A w \in Workers : at[w] = "idle"  BY DEF Init
<1> QED  BY <1>1 DEF NeighboursInv, NeighboursDiffer

LEMMA NeighboursCreate ==
  ASSUME OneWorker, CorInv, NeighboursInv, NEW w \in Workers, CreateIncident(w)
  PROVE  NeighboursInv'
<1>1. CorInv' /\ Grows /\ at[w] = "create" /\ at'[w] # "create" /\ now' = now
  BY CreateIncidentDoes
<1>2. \A v \in Workers : at'[v] # "create"  BY <1>1 DEF OneWorker
<1>3. CASE incidents' = incidents  BY <1>1, <1>2, <1>3, NeighboursStep
<1>4. CASE /\ Len(incidents') = Len(incidents) + 1
           /\ \A k \in DOMAIN incidents : incidents'[k] = incidents[k]
           /\ incidents'[Len(incidents) + 1].of = cur[w]
           /\ incidents'[Len(incidents) + 1].at = now
  <2>1. /\ Len(incidents) \in Nat /\ DOMAIN incidents = 1..Len(incidents) /\ now \in Nat
        /\ Window \in Nat
    BY Integral, CorrelationAssumption
  <2>2. PICK n : n = Len(incidents)  OBVIOUS
  <2>3. ~Duplicate(cur[w])  BY <1>1 DEF NeighboursInv
  <2> SUFFICES ASSUME NEW k \in 2..(n + 1)
               PROVE  \/ incidents'[k].at > incidents'[k - 1].at + Window
                      \/ ~SameEntity(k - 1, incidents[k].of)'
    BY <1>2, <1>4, <2>2 DEF NeighboursInv, NeighboursDiffer
  <2>4. CASE k \in 2..n
    <3>1. k \in DOMAIN incidents /\ k - 1 \in DOMAIN incidents  BY <2>1, <2>2, <2>4
    <3>2. incidents'[k] = incidents[k] /\ incidents'[k - 1] = incidents[k - 1]  BY <1>4, <3>1
    <3> QED  BY <2>2, <2>4, <3>2 DEF NeighboursInv, NeighboursDiffer, SameEntity
  <2>5. CASE k = n + 1
    <3>1. n > 0 /\ n \in DOMAIN incidents /\ k - 1 = n  BY <2>1, <2>2, <2>5
    <3>2. incidents'[n] = incidents[n] /\ incidents[n].at \in Nat
      BY <1>4, <3>1, TimeOfRow
    <3>3. \/ ~(incidents[n].at + Window >= now)
          \/ ~(cur[w].first \cap incidents[n].of.names # {})
      BY <2>2, <2>3, <3>1 DEF Duplicate, SameEntity
    <3>4. incidents'[k].at = now /\ incidents'[k].of = cur[w]  BY <1>4, <2>2, <2>5
    <3>5. ~(incidents[n].at + Window >= now) => now > incidents[n].at + Window
      BY <2>1, <3>2
    <3> QED  BY <3>1, <3>2, <3>3, <3>4, <3>5 DEF SameEntity
  <2> QED  BY <2>1, <2>2, <2>4, <2>5
<1> QED  BY <1>3, <1>4, CreateIncidentDoes

LEMMA NeighboursNext ==
  ASSUME OneWorker, CorInv, NeighboursInv, [Next]_vars
  PROVE  NeighboursInv'
<1>1. CASE Tick \/ ToggleRule \/ \E e \in Events : Arrive(e) \/ Refresh(e)
  <2>1. CorInv' /\ Grows /\ UNCHANGED <<incidents, local>>
    BY <1>1, TickDoes, ToggleDoes, ArriveDoes, RefreshDoes
  <2> QED  BY <2>1, NeighboursStep DEF local
<1>2. ASSUME NEW w \in Workers, RunRule(w)  PROVE NeighboursInv'
  <2>1. CASE BeginCycle(w) \/ StartRule(w) \/ Search(w) \/ Fallback(w) \/ CompareVolume(w)
             \/ SearchFails(w) \/ EndRule(w)
    <3>1. CorInv' /\ Grows /\ UNCHANGED incidents /\ at'[w] # "create"
      BY <2>1, BeginCycleDoes, StartRuleDoes, SearchDoes, FallbackDoes, CompareVolumeDoes,
         SearchFailsDoes, EndRuleDoes
    <3> QED  BY <3>1, NeighboursStep DEF OneWorker
  <2>2. CASE Found(w) \/ StoreEvents(w) \/ Trigger(w)
    <3>1. CorInv' /\ Grows /\ DOMAIN incidents' = DOMAIN incidents /\ at'[w] # "create"
      BY <2>2, FoundDoes, StoreEventsDoes, TriggerDoes
    <3> QED  BY <3>1, NeighboursStep DEF OneWorker
  <2>3. CASE CheckDuplicate(w)
    <3>1. CorInv' /\ Grows /\ incidents' = incidents  BY <2>3, CheckDuplicateDoes
    <3>2. at'[w] # "create" \/ ~Duplicate(cur'[w])  BY <2>3, CheckDuplicateDoes
    <3> QED  BY <3>1, <3>2, NeighboursStep DEF OneWorker
  <2>4. CASE CreateIncident(w)  BY <2>4, NeighboursCreate
  <2> QED  BY <1>2, <2>1, <2>2, <2>3, <2>4 DEF RunRule
<1>3. CASE Restart
  <2>1. CorInv' /\ Grows /\ incidents' = incidents /\ \A w \in Workers : at'[w] # "create"
    BY <1>3, RestartDoes
  <2> QED  BY <2>1, NeighboursStep
<1>4. CASE UNCHANGED vars
  BY <1>4 DEF vars, store, local, NeighboursInv, NeighboursDiffer, Duplicate, SameEntity
<1> QED  BY <1>1, <1>2, <1>3, <1>4 DEF Next

\* As long as cycles do not overlap, and through any restart, an incident names
\* the first address or host of the one before it only after the window has
\* passed.
THEOREM NoDuplicateNeighbours ==
  ASSUME OneWorker
  PROVE  Spec => []NeighboursDiffer
<1>1. CorInv /\ NeighboursInv /\ [Next]_vars => NeighboursInv'  BY NeighboursNext
<1>2. NeighboursInv => NeighboursDiffer  BY DEF NeighboursInv
<1> QED  BY <1>1, <1>2, NeighboursAtFirst, CorAlways, PTL DEF Spec
-----------------------------------------------------------------------------
\* What a query of the worker finds lies in its range.
Ranged(w) ==
    /\ at[w] \in Searching => since[w] = lastRun
    /\ at[w] \in {"found", "again"} =>
          \A e \in hits[w] : since[w] <= RangeStamp(e) /\ RangeStamp(e) <= upto[w]

\* What was searched lies behind the last run, where the next search begins.
OnceInv ==
    /\ \A e \in Events : \/ scanned[e] = 0
                         \/ scanned[e] = 1 /\ e \in visible /\ RangeStamp(e) < lastRun
    /\ \A w \in Workers : Ranged(w)

LEMMA AnswerRanged ==
  ASSUME CorInv, CorInv', Grows, NEW w \in Workers, NEW sought, UNCHANGED <<store, lastRun>>,
         hits'[w] = Answer(w, sought), since'[w] = since[w], upto'[w] = upto[w],
         at[w] \in Searching, Ranged(w)
  PROVE  Ranged(w)'
<1>1. UNCHANGED <<rule, stamp, collected, visible, lastRun>>  BY DEF store
<1>2. \A e \in Answer(w, sought) : since[w] <= RangeStamp(e) /\ RangeStamp(e) <= upto[w]
  BY DEF Answer, InRange
<1> QED  BY <1>1, <1>2 DEF Ranged, RangeStamp

\* No event becomes part of a search, and the last run stays.
LEMMA OnceStep ==
  ASSUME CorInv, CorInv', Grows, OnceInv, scanned' = scanned, lastRun' = lastRun,
         \A w \in Workers : Still(w) \/ Ranged(w)'
  PROVE  OnceInv'
<1>1. ASSUME NEW e \in Events
      PROVE  \/ scanned'[e] = 0
             \/ scanned'[e] = 1 /\ e \in visible' /\ RangeStamp(e)' < lastRun'
  BY VisibleStays DEF OnceInv
<1>2. ASSUME NEW w \in Workers  PROVE Ranged(w)'
  <2>1. CASE Still(w)
    <3>1. Ranged(w)  BY DEF OnceInv, Ranged
    <3>2. hits[w] \subseteq visible  BY DEF CorInv, WorkerFits
    <3> QED  BY <2>1, <3>1, <3>2, VisibleStays DEF Ranged, Still
  <2> QED  BY <1>2, <2>1
<1> QED  BY <1>1, <1>2 DEF OnceInv, Ranged

LEMMA OnceAtFirst == Init => OnceInv
  BY DEF Init, OnceInv, Ranged, Searching

LEMMA OnceFound ==
  ASSUME OneWorker, CorInv, OnceInv, NEW w \in Workers, Found(w)
  PROVE  OnceInv'
<1>1. /\ CorInv' /\ Grows
      /\ at[w] \in {"found", "again"} /\ at'[w] = "check" /\ lastRun' = now /\ upto[w] < now
      /\ scanned' = [e \in Events |-> IF e \in hits[w] THEN scanned[e] + 1 ELSE scanned[e]]
      /\ UNCHANGED store
  BY FoundDoes
<1>2. /\ since[w] = lastRun /\ hits[w] \subseteq visible
      /\ \A e \in hits[w] : since[w] <= RangeStamp(e) /\ RangeStamp(e) <= upto[w]
  BY <1>1 DEF OnceInv, Ranged, Searching, CorInv, WorkerFits
<1>3. /\ now \in Nat /\ lastRun \in Nat /\ upto[w] \in Nat /\ lastRun <= now  BY Integral
<1>4. ASSUME NEW e \in Events
      PROVE  \/ scanned'[e] = 0
             \/ scanned'[e] = 1 /\ e \in visible' /\ RangeStamp(e)' < lastRun'
  <2>1. CASE e \in hits[w]
    <3>1. e \in visible /\ e \in visible' /\ RangeStamp(e)' = RangeStamp(e) /\ RangeStamp(e) \in Nat
      BY <1>1, <1>2, <2>1, VisibleStays
    <3>2. lastRun <= RangeStamp(e) /\ RangeStamp(e) <= upto[w]  BY <1>2, <2>1
    <3>3. scanned[e] = 0  BY <1>3, <3>1, <3>2 DEF OnceInv
    <3>4. scanned'[e] = 1  BY <1>1, <2>1, <3>3
    <3> QED  BY <1>1, <1>3, <3>1, <3>2, <3>4
  <2>2. CASE e \notin hits[w]
    <3>1. scanned'[e] = scanned[e]  BY <1>1, <2>2
    <3>2. CASE scanned[e] = 0  BY <3>1, <3>2
    <3>3. CASE scanned[e] = 1 /\ e \in visible /\ RangeStamp(e) < lastRun
      <4>1. e \in visible' /\ RangeStamp(e)' = RangeStamp(e) /\ RangeStamp(e) \in Nat
        BY <1>1, <3>3, VisibleStays
      <4> QED  BY <1>1, <1>3, <3>1, <3>3, <4>1
    <3> QED  BY <3>2, <3>3 DEF OnceInv
  <2> QED  BY <2>1, <2>2
<1>5. \A v \in Workers : at'[v] \notin Searching /\ at'[v] \notin {"found", "again"}
  BY <1>1 DEF OneWorker, Searching
<1> QED  BY <1>4, <1>5 DEF OnceInv, Ranged

LEMMA OnceNext ==
  ASSUME OneWorker, "crash" \notin Faults, CorInv, OnceInv, [Next]_vars
  PROVE  OnceInv'
<1>0. \A w \in Workers : (at'[w] \notin Searching => Ranged(w)')  BY DEF Ranged, Searching
<1>1. CASE Tick \/ ToggleRule \/ \E e \in Events : Arrive(e) \/ Refresh(e)
  <2>1. CorInv' /\ Grows /\ UNCHANGED <<lastRun, history>> /\ \A w \in Workers : Still(w)
    BY <1>1, TickDoes, ToggleDoes, ArriveDoes, RefreshDoes
  <2> QED  BY <2>1, OnceStep DEF history
<1>2. ASSUME NEW w \in Workers, RunRule(w)  PROVE OnceInv'
  <2>1. CASE BeginCycle(w) \/ SearchFails(w) \/ EndRule(w)
    <3>1. /\ CorInv' /\ Grows /\ UNCHANGED <<lastRun, history>> /\ at'[w] \notin Searching
      BY <2>1, BeginCycleDoes, SearchFailsDoes, EndRuleDoes DEF Searching
    <3> QED  BY <1>0, <3>1, OnceStep DEF history, OneWorker
  <2>2. CASE StartRule(w)
    <3>1. /\ CorInv' /\ Grows /\ UNCHANGED <<lastRun, history>>
          /\ at'[w] = "search" /\ since'[w] = lastRun
      BY <2>2, StartRuleDoes
    <3>2. Ranged(w)'  BY <3>1 DEF Ranged
    <3> QED  BY <3>1, <3>2, OnceStep DEF history, OneWorker
  <2>3. CASE Search(w)
    <3> DEFINE sought == IF rule \in {"R002", "R003", "R004"} THEN Enriched ELSE Events
    <3>1. /\ CorInv' /\ Grows /\ UNCHANGED <<store, lastRun, history>> /\ at[w] = "search"
          /\ hits'[w] = Answer(w, sought) /\ since'[w] = since[w] /\ upto'[w] = upto[w]
      BY <2>3, SearchDoes
    <3> HIDE DEF sought
    <3>2. Ranged(w)'  BY <3>1, AnswerRanged DEF OnceInv, Ranged, Searching
    <3> QED  BY <3>1, <3>2, OnceStep DEF history, OneWorker
  <2>4. CASE Fallback(w)
    <3>1. /\ CorInv' /\ Grows /\ UNCHANGED <<store, lastRun, history>> /\ at[w] = "found"
          /\ hits'[w] = Answer(w, Events) /\ since'[w] = since[w] /\ upto'[w] = upto[w]
      BY <2>4, FallbackDoes
    <3>2. Ranged(w)
      BY DEF OnceInv, Ranged
    <3>3. Ranged(w)'  BY <3>1, <3>2, AnswerRanged DEF Searching
    <3> QED  BY <3>1, <3>3, OnceStep DEF history, OneWorker
  <2>5. CASE CompareVolume(w)
    <3>1. /\ CorInv' /\ Grows /\ UNCHANGED <<store, lastRun, history>>
          /\ at[w] = "found" /\ at'[w] = "again" /\ hits'[w] = hits[w]
          /\ since'[w] = since[w] /\ upto'[w] = upto[w]
      BY <2>5, CompareVolumeDoes
    <3>2. Ranged(w)  BY DEF OnceInv, Ranged
    <3>3. Ranged(w)'
      BY <3>1, <3>2 DEF Ranged, Searching, RangeStamp, store
    <3> QED  BY <3>1, <3>3, OnceStep DEF history, OneWorker
  <2>6. CASE Found(w)  BY <2>6, OnceFound
  <2>7. CASE CheckDuplicate(w)
    <3>1. /\ CorInv' /\ Grows /\ UNCHANGED <<lastRun, scanned>> /\ at'[w] \notin Searching
      BY <2>7, CheckDuplicateDoes DEF Searching
    <3> QED  BY <1>0, <3>1, OnceStep DEF OneWorker
  <2>8. CASE CreateIncident(w)
    <3>1. /\ CorInv' /\ Grows /\ UNCHANGED <<lastRun, scanned>> /\ at'[w] \notin Searching
      BY <2>8, CreateIncidentDoes DEF Searching
    <3> QED  BY <1>0, <3>1, OnceStep DEF OneWorker
  <2>9. CASE StoreEvents(w) \/ Trigger(w)
    <3>1. /\ CorInv' /\ Grows /\ UNCHANGED <<lastRun, scanned>> /\ at'[w] \notin Searching
      BY <2>9, StoreEventsDoes, TriggerDoes DEF Searching, history
    <3> QED  BY <1>0, <3>1, OnceStep DEF OneWorker
  <2> QED  BY <1>2, <2>1, <2>2, <2>3, <2>4, <2>5, <2>6, <2>7, <2>8, <2>9 DEF RunRule
<1>3. CASE UNCHANGED vars
  BY <1>3 DEF vars, store, local, history, OnceInv, Ranged, RangeStamp
<1> QED  BY <1>1, <1>2, <1>3 DEF Next, Restart

\* As long as cycles do not overlap and the process lives, no event is part of
\* two searches, through any searches that fail and any events that are normalized
\* or indexed late: the next range begins where the last run is, past all of it.
THEOREM SearchedOnce ==
  ASSUME OneWorker, "crash" \notin Faults
  PROVE  Spec => []ScannedOnce
<1>1. CorInv /\ OnceInv /\ [Next]_vars => OnceInv'  BY OnceNext
<1>2. OnceInv => ScannedOnce  BY DEF OnceInv, ScannedOnce
<1> QED  BY <1>1, <1>2, OnceAtFirst, CorAlways, PTL DEF Spec
=============================================================================
