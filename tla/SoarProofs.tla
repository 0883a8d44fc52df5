------------------------------ MODULE SoarProofs ------------------------------
(***************************************************************************)
(* The safety of the SOAR service for every set of workers, incidents and  *)
(* targets, every choice of playbooks and modes, any number of runs, and   *)
(* every combination of the faults.                                        *)
(***************************************************************************)
EXTENDS Soar, FiniteOrders

Holds == [type : HoldTypes, target : Targets]
Run(w) == execs[ex[w]]

RowTypes ==
    /\ incident \in [Incidents -> {"OPEN", "RESOLVED"}]
    /\ execs \in Seq(Execution) /\ actions \in Seq(Action)
    /\ held \in SUBSET Holds /\ adrift \in SUBSET Holds

WorkerTypes ==
    /\ at \in [Workers -> Awaits]
    /\ ex \in [Workers -> Nat] /\ act \in [Workers -> Nat]
    /\ cur \in [Workers -> Targets \cup {None}]
    /\ todo \in [Workers -> SUBSET Targets] /\ done \in [Workers -> SUBSET Targets]

\* A block of an incident that an analyst finds, or that went adrift.
Covered(i, pb, t) ==
    \/ Hold(HoldType(pb), t) \in adrift
    \/ \E k \in DOMAIN actions : /\ actions[k].incident = i
                                 /\ actions[k].type = HoldType(pb)
                                 /\ actions[k].target = t

Evidence(i) ==
    \/ \E k \in DOMAIN actions : actions[k].incident = i
    \/ \E h \in adrift : h.target \in Entities[i]

\* What a worker holds on to is there: the rows, and what its run knows of them.
RowsThere(w) ==
    /\ at[w] \in RunAwaits \cup {"abort", "abortWrite"} => ex[w] \in DOMAIN execs
    /\ at[w] \in {"undo", "undoWrite"} => act[w] \in DOMAIN actions
    /\ at[w] = "cleanup" => cur[w] \in Targets

RunKnows(w) ==
    /\ at[w] = "cleanup" => Run(w).playbook \notin Recorded
    /\ at[w] = "record" => Run(w).playbook \in Recorded
    /\ at[w] \in {"run", "record"} /\ Run(w).playbook \in Recorded
           => todo[w] \cup done[w] \subseteq Entities[Run(w).incident]
    /\ at[w] = "resolve" => Evidence(Run(w).incident)
    /\ at[w] \in {"record", "resolve", "finish"} /\ Run(w).playbook \in Recorded
           => \A t \in done[w] : \/ at[w] = "record" /\ t \in todo[w]
                                 \/ Covered(Run(w).incident, Run(w).playbook, t)

\* An execution that waits to remove a block is nobody's run, and its abort
\* removes that block.
WaitingIsLeft(w) ==
    /\ at[w] \in RunAwaits /\ Run(w).status = "PENDING" => Run(w).ip = None
    /\ at[w] = "abort" /\ Run(w).status = "PENDING" /\ Run(w).ip # None
           => todo[w] = {Run(w).ip}

WorkerOK(w) == RowsThere(w) /\ RunKnows(w) /\ WaitingIsLeft(w)

RowOK(e) ==
    /\ execs[e].playbook \in Recorded
           => \A t \in execs[e].blocked : Covered(execs[e].incident, execs[e].playbook, t)
    /\ execs[e].status = "PENDING" /\ execs[e].ip # None => execs[e].mode = "AUTO"

\* A row leads back to a hold, and no request is about to close it.
FirmAction(h, k) ==
    /\ actions[k].type = h.type /\ actions[k].target = h.target
    /\ actions[k].status = "EXECUTED"
    /\ \A w \in Workers : ~(at[w] = "undoWrite" /\ act[w] = k)

FirmExec(h, e) ==
    /\ execs[e].playbook = "remove_rule" /\ execs[e].status = "PENDING"
    /\ h.type = "block_ip" /\ execs[e].ip = h.target
    /\ \A w \in Workers : ~(at[w] = "abortWrite" /\ ex[w] = e)

Accounted(h) ==
    \/ \E k \in DOMAIN actions : FirmAction(h, k)
    \/ \E e \in DOMAIN execs : FirmExec(h, e)
    \/ \E w \in Workers : h \in Unrecorded(w)

SoarInv ==
    /\ RowTypes /\ WorkerTypes
    /\ \A w \in Workers : WorkerOK(w)
    /\ \A e \in DOMAIN execs : RowOK(e)
    /\ ResolvedWithEvidence
    /\ \A h \in held \ adrift : Accounted(h)
-----------------------------------------------------------------------------
(* Frames. *)

\* Sequences of rows grow and are updated in place.
LEMMA SeqAppend ==
  ASSUME NEW S, NEW s \in Seq(S), NEW e \in S
  PROVE  /\ Append(s, e) \in Seq(S) /\ DOMAIN s = 1 .. Len(s) /\ Len(s) \in Nat
         /\ DOMAIN Append(s, e) = DOMAIN s \cup {Len(s) + 1} /\ Len(s) + 1 \notin DOMAIN s
         /\ \A i \in DOMAIN s : Append(s, e)[i] = s[i]
         /\ Append(s, e)[Len(s) + 1] = e
<1>1. /\ Append(s, e) \in Seq(S) /\ DOMAIN s = 1 .. Len(s) /\ Len(s) \in Nat
      /\ Len(Append(s, e)) = Len(s) + 1
      /\ DOMAIN Append(s, e) = 1 .. Len(s) + 1
      /\ \A i \in 1 .. Len(s) : Append(s, e)[i] = s[i]
      /\ Append(s, e)[Len(s) + 1] = e
  OBVIOUS
<1>2. 1 .. Len(s) + 1 = (1 .. Len(s)) \cup {Len(s) + 1}  BY <1>1
<1> QED  BY <1>1, <1>2

LEMMA SeqUpdate ==
  ASSUME NEW S, NEW s \in Seq(S), NEW i \in DOMAIN s, NEW e \in S
  PROVE  /\ [s EXCEPT ![i] = e] \in Seq(S) /\ DOMAIN [s EXCEPT ![i] = e] = DOMAIN s
         /\ [s EXCEPT ![i] = e][i] = e
         /\ \A j \in DOMAIN s \ {i} : [s EXCEPT ![i] = e][j] = s[j]
  OBVIOUS

\* The rows a worker may rely on: they stay, and keep their incident, playbook,
\* mode, type and target; no row is set back to PENDING.
RowsGrow ==
    /\ DOMAIN execs \subseteq DOMAIN execs' /\ DOMAIN actions \subseteq DOMAIN actions'
    /\ \A e \in DOMAIN execs :
          /\ execs'[e].incident = execs[e].incident
          /\ execs'[e].playbook = execs[e].playbook
          /\ execs'[e].mode = execs[e].mode
          /\ execs'[e].status = "PENDING"
                 => execs[e].status = "PENDING" /\ execs'[e].ip = execs[e].ip
    /\ \A k \in DOMAIN actions : /\ actions'[k].incident = actions[k].incident
                                 /\ actions'[k].type = actions[k].type
                                 /\ actions'[k].target = actions[k].target
    /\ adrift \subseteq adrift'

LEMMA RowsStay ==
  ASSUME UNCHANGED dbVars, adrift \subseteq adrift'
  PROVE  RowsGrow
  BY DEF dbVars, RowsGrow

LEMMA CoveredStays ==
  ASSUME RowsGrow, NEW i, NEW pb, NEW t, Covered(i, pb, t)
  PROVE  Covered(i, pb, t)'
  BY DEF RowsGrow, Covered

LEMMA EvidenceStays ==
  ASSUME RowsGrow, NEW i, Evidence(i)
  PROVE  Evidence(i)'
  BY DEF RowsGrow, Evidence

StandsStill(w) ==
    /\ at'[w] = at[w] /\ ex'[w] = ex[w] /\ act'[w] = act[w] /\ cur'[w] = cur[w]
    /\ todo'[w] = todo[w] /\ done'[w] = done[w]

\* What a worker knows stays true while the others work.
LEMMA OthersKnow ==
  ASSUME NEW w \in Workers, WorkerOK(w), StandsStill(w), RowsGrow
  PROVE  WorkerOK(w)'
<1>1. RowsThere(w)'  BY DEF WorkerOK, RowsThere, StandsStill, RowsGrow
<1>2. at[w] \in RunAwaits \cup {"abort", "abortWrite"} =>
        /\ ex[w] \in DOMAIN execs
        /\ Run(w)'.playbook = Run(w).playbook /\ Run(w)'.incident = Run(w).incident
        /\ Run(w)'.status = "PENDING" => Run(w).status = "PENDING" /\ Run(w)'.ip = Run(w).ip
  BY DEF WorkerOK, RowsThere, StandsStill, RowsGrow, Run
<1>3. RunKnows(w)'
  <2>1. /\ at[w] = "cleanup" => Run(w)'.playbook \notin Recorded
        /\ at[w] = "record" => Run(w)'.playbook \in Recorded
    BY <1>2 DEF WorkerOK, RunKnows, RunAwaits
  <2>2. at[w] \in {"run", "record"} /\ Run(w)'.playbook \in Recorded
           => todo[w] \cup done[w] \subseteq Entities[Run(w)'.incident]
    BY <1>2 DEF WorkerOK, RunKnows, RunAwaits
  <2>3. at[w] = "resolve" => Evidence(Run(w).incident)'
    BY <1>2, EvidenceStays DEF WorkerOK, RunKnows, RunAwaits
  <2>4. at[w] \in {"record", "resolve", "finish"} /\ Run(w)'.playbook \in Recorded
           => \A t \in done[w] : \/ at[w] = "record" /\ t \in todo[w]
                                 \/ Covered(Run(w).incident, Run(w).playbook, t)'
    BY <1>2, CoveredStays DEF WorkerOK, RunKnows, RunAwaits
  <2> QED  BY <1>2, <2>1, <2>2, <2>3, <2>4 DEF RunKnows, StandsStill, RunAwaits
<1>4. WaitingIsLeft(w)'
  BY <1>2 DEF WorkerOK, WaitingIsLeft, StandsStill
<1> QED  BY <1>1, <1>3, <1>4 DEF WorkerOK

LEMMA SoarFacts ==
  ASSUME SoarInv
  PROVE  /\ RowTypes /\ WorkerTypes /\ ResolvedWithEvidence
         /\ \A w \in Workers : RowsThere(w) /\ RunKnows(w) /\ WaitingIsLeft(w) /\ WorkerOK(w)
         /\ \A e \in DOMAIN execs : RowOK(e) /\ execs[e] \in Execution
         /\ \A k \in DOMAIN actions : actions[k] \in Action
         /\ \A h \in held \ adrift : Accounted(h)
         /\ \A h \in held : h.type \in HoldTypes /\ h.target \in Targets
<1>1. RowTypes /\ WorkerTypes  BY DEF SoarInv
<1>2. \A e \in DOMAIN execs : execs[e] \in Execution
  BY <1>1 DEF RowTypes
<1>3. \A k \in DOMAIN actions : actions[k] \in Action
  BY <1>1 DEF RowTypes
<1>4. \A h \in held : h.type \in HoldTypes /\ h.target \in Targets
  BY <1>1 DEF RowTypes, Holds
<1> QED  BY <1>1, <1>2, <1>3, <1>4 DEF SoarInv, WorkerOK

\* One worker moves, the others know what they knew.
LEMMA SoarStep ==
  ASSUME SoarInv, RowTypes', WorkerTypes', RowsGrow,
         NEW w \in Workers, WorkerOK(w)',
         \A v \in Workers \ {w} : StandsStill(v),
         \A e \in DOMAIN execs' : RowOK(e)', ResolvedWithEvidence',
         \A h \in held' \ adrift' : Accounted(h)'
  PROVE  SoarInv'
<1>1. \A v \in Workers : WorkerOK(v)'  BY SoarFacts, OthersKnow
<1> QED  BY <1>1 DEF SoarInv

LEMMA RowStays ==
  ASSUME RowsGrow, NEW e \in DOMAIN execs, execs'[e] = execs[e], RowOK(e)
  PROVE  RowOK(e)'
  BY CoveredStays DEF RowOK

LEMMA ResolvedStays ==
  ASSUME RowsGrow, ResolvedWithEvidence, incident' = incident
  PROVE  ResolvedWithEvidence'
  BY DEF RowsGrow, ResolvedWithEvidence

\* The rows are left alone.
LEMMA RowsLeft ==
  ASSUME SoarInv, UNCHANGED dbVars, adrift \subseteq adrift', held' \subseteq Holds,
         adrift' \subseteq Holds
  PROVE  /\ RowTypes' /\ RowsGrow /\ ResolvedWithEvidence'
         /\ \A e \in DOMAIN execs' : RowOK(e)'
<1>1. RowTypes'  BY SoarFacts DEF RowTypes, dbVars
<1>2. RowsGrow  BY RowsStay
<1>3. ResolvedWithEvidence'  BY <1>2, ResolvedStays, SoarFacts DEF dbVars
<1>4. \A e \in DOMAIN execs' : RowOK(e)'  BY <1>2, RowStays, SoarFacts DEF dbVars
<1> QED  BY <1>1, <1>2, <1>3, <1>4

LEMMA OthersUnrecorded ==
  ASSUME NEW v \in Workers, StandsStill(v), RowsGrow, RowsThere(v)
  PROVE  Unrecorded(v)' = Unrecorded(v)
<1>1. at[v] \in {"cleanup", "run", "record"} =>
        ex[v] \in DOMAIN execs /\ execs'[ex[v]].playbook = execs[ex[v]].playbook
  BY DEF RowsThere, RowsGrow, RunAwaits
<1>2. at'[v] = at[v] /\ ex'[v] = ex[v] /\ cur'[v] = cur[v] /\ todo'[v] = todo[v]
      /\ done'[v] = done[v]
  BY DEF StandsStill
<1>3. CASE at[v] = "cleanup"  BY <1>2, <1>3 DEF Unrecorded
<1>4. CASE at[v] = "run"  BY <1>1, <1>2, <1>4 DEF Unrecorded
<1>5. CASE at[v] = "record"  BY <1>1, <1>2, <1>5 DEF Unrecorded
<1>6. CASE at[v] \notin {"cleanup", "run", "record"}  BY <1>2, <1>6 DEF Unrecorded
<1> QED  BY <1>3, <1>4, <1>5, <1>6

LEMMA AccountedStays ==
  ASSUME SoarInv, RowsGrow, NEW w \in Workers, NEW h, Accounted(h),
         \A v \in Workers \ {w} : StandsStill(v),
         \A k \in DOMAIN actions : FirmAction(h, k) => FirmAction(h, k)',
         \A e \in DOMAIN execs : FirmExec(h, e) => FirmExec(h, e)',
         h \in Unrecorded(w) => Accounted(h)'
  PROVE  Accounted(h)'
<1>1. CASE \E k \in DOMAIN actions : FirmAction(h, k)  BY <1>1 DEF Accounted, RowsGrow
<1>2. CASE \E e \in DOMAIN execs : FirmExec(h, e)  BY <1>2 DEF Accounted, RowsGrow
<1>3. ASSUME NEW v \in Workers, h \in Unrecorded(v)  PROVE Accounted(h)'
  <2>1. CASE v = w  BY <1>3, <2>1
  <2>2. CASE v # w
    <3>1. Unrecorded(v)' = Unrecorded(v)  BY <2>2, OthersUnrecorded, SoarFacts
    <3> QED  BY <1>3, <3>1 DEF Accounted
  <2> QED  BY <2>1, <2>2
<1> QED  BY <1>1, <1>2, <1>3 DEF Accounted

LEMMA ActionsStayFirm ==
  ASSUME RowsGrow, NEW w \in Workers, NEW h,
         \A v \in Workers \ {w} : StandsStill(v), at'[w] # "undoWrite",
         \A k \in DOMAIN actions : actions'[k].status = actions[k].status
  PROVE  \A k \in DOMAIN actions : FirmAction(h, k) => FirmAction(h, k)'
<1> SUFFICES ASSUME NEW k \in DOMAIN actions, FirmAction(h, k)  PROVE FirmAction(h, k)'
  OBVIOUS
<1>1. \A v \in Workers : ~(at'[v] = "undoWrite" /\ act'[v] = k)
  BY DEF FirmAction, StandsStill
<1> QED  BY <1>1 DEF FirmAction, RowsGrow

LEMMA ExecsStayFirm ==
  ASSUME SoarInv, RowsGrow, NEW w \in Workers, NEW h, h.target \in Targets,
         \A v \in Workers \ {w} : StandsStill(v), at'[w] # "abortWrite",
         \A e \in DOMAIN execs :
            execs[e].status = "PENDING" /\ execs[e].ip # None => execs'[e] = execs[e]
  PROVE  \A e \in DOMAIN execs : FirmExec(h, e) => FirmExec(h, e)'
<1> SUFFICES ASSUME NEW e \in DOMAIN execs, FirmExec(h, e)  PROVE FirmExec(h, e)'
  OBVIOUS
<1>1. execs'[e] = execs[e]  BY SoarAssumption DEF FirmExec
<1>2. \A v \in Workers : ~(at'[v] = "abortWrite" /\ ex'[v] = e)
  BY DEF FirmExec, StandsStill
<1> QED  BY <1>1, <1>2 DEF FirmExec

\* A hold that was accounted for stays so when a worker moves without closing a row.
LEMMA HoldStays ==
  ASSUME SoarInv, RowsGrow, NEW w \in Workers, NEW h \in held \ adrift,
         \A v \in Workers \ {w} : StandsStill(v), at'[w] \notin {"undoWrite", "abortWrite"},
         \A k \in DOMAIN actions : actions'[k].status = actions[k].status,
         \A e \in DOMAIN execs :
            execs[e].status = "PENDING" /\ execs[e].ip # None => execs'[e] = execs[e],
         h \in Unrecorded(w) => Accounted(h)'
  PROVE  Accounted(h)'
<1>1. \A k \in DOMAIN actions : FirmAction(h, k) => FirmAction(h, k)'
  BY ActionsStayFirm
<1>2. \A e \in DOMAIN execs : FirmExec(h, e) => FirmExec(h, e)'
  BY ExecsStayFirm, SoarFacts
<1> QED  BY <1>1, <1>2, AccountedStays, SoarFacts
-----------------------------------------------------------------------------
(* How a worker moves. *)

LEMMA GotoDone ==
  ASSUME WorkerTypes, NEW w \in Workers, NEW a \in Awaits, Goto(w, a)
  PROVE  /\ at'[w] = a /\ at' \in [Workers -> Awaits]
         /\ \A v \in Workers \ {w} : at'[v] = at[v]
  BY DEF WorkerTypes, Goto

LEMMA StartRunDone ==
  ASSUME WorkerTypes, NEW w \in Workers, NEW e \in Nat, NEW targets \in SUBSET Targets,
         StartRun(w, e, targets)
  PROVE  /\ at'[w] = "run" /\ ex'[w] = e /\ todo'[w] = targets /\ done'[w] = {}
         /\ WorkerTypes' /\ \A v \in Workers \ {w} : StandsStill(v)
  BY GotoDone DEF StartRun, WorkerTypes, StandsStill, Awaits, RunAwaits

LEMMA IdleDone ==
  ASSUME WorkerTypes, NEW w \in Workers, Idle(w)
  PROVE  /\ at'[w] = "idle" /\ WorkerTypes' /\ WorkerOK(w)' /\ Unrecorded(w)' = {}
         /\ \A v \in Workers \ {w} : StandsStill(v)
<1>1. /\ at'[w] = "idle" /\ WorkerTypes'
      /\ \A v \in Workers \ {w} : StandsStill(v)
  BY GotoDone DEF Idle, WorkerTypes, StandsStill, Awaits
<1>2. WorkerOK(w)'
  BY <1>1 DEF WorkerOK, RowsThere, RunKnows, WaitingIsLeft, RunAwaits
<1>3. Unrecorded(w)' = {}  BY <1>1 DEF Unrecorded
<1> QED  BY <1>1, <1>2, <1>3

LEMMA TargetsOfRun ==
  ASSUME NEW pb \in AllPlaybooks, NEW i \in Incidents, NEW param \in Targets \cup {None}
  PROVE  /\ RunTargets(pb, i, param) \in SUBSET Targets
         /\ pb \in Recorded => RunTargets(pb, i, param) = Entities[i]
<1>1. Entities[i] \subseteq Targets  BY SoarAssumption
<1> QED  BY <1>1 DEF RunTargets, FirstTarget, Recorded

\* An execution is created.
LEMMA ExecCreated ==
  ASSUME SoarInv, NEW row \in Execution, execs' = Append(execs, row),
         row.blocked = {}, row.ip # None => row.mode = "AUTO",
         UNCHANGED <<incident, actions>>, adrift \subseteq adrift',
         held' \subseteq Holds, adrift' \subseteq Holds
  PROVE  /\ RowTypes' /\ RowsGrow /\ ResolvedWithEvidence'
         /\ \A e \in DOMAIN execs' : RowOK(e)'
         /\ Len(execs) + 1 \in DOMAIN execs' /\ execs'[Len(execs) + 1] = row
         /\ Len(execs) + 1 \in Nat
         /\ \A e \in DOMAIN execs : execs'[e] = execs[e]
<1>1. /\ execs' \in Seq(Execution)
      /\ DOMAIN execs' = DOMAIN execs \cup {Len(execs) + 1} /\ Len(execs) + 1 \in Nat
      /\ \A e \in DOMAIN execs : execs'[e] = execs[e]
      /\ execs'[Len(execs) + 1] = row
  BY SeqAppend, SoarFacts DEF RowTypes
<1>2. RowTypes'  BY <1>1, SoarFacts DEF RowTypes
<1>3. RowsGrow  BY <1>1 DEF RowsGrow
<1>4. ResolvedWithEvidence'  BY <1>3, ResolvedStays, SoarFacts
<1>5. ASSUME NEW e \in DOMAIN execs'  PROVE RowOK(e)'
  <2>1. CASE e \in DOMAIN execs  BY <1>1, <1>3, <2>1, RowStays, SoarFacts
  <2>2. CASE e = Len(execs) + 1  BY <1>1, <2>2 DEF RowOK
  <2> QED  BY <1>1, <2>1, <2>2
<1> QED  BY <1>1, <1>2, <1>3, <1>4, <1>5

LEMMA ExecutePlaybookKeeps ==
  ASSUME SoarInv, NEW w \in Workers, NEW i \in Incidents, NEW pb \in Playbooks,
         NEW mode \in Modes, NEW param \in Params \cup {None},
         ExecutePlaybook(w, i, pb, mode, param)
  PROVE  SoarInv'
<1> DEFINE row == [incident |-> i, playbook |-> pb, mode |-> mode, status |-> "PENDING",
                   ip |-> None, blocked |-> {}]
<1>1. /\ at[w] = "idle" /\ execs' = Append(execs, row)
      /\ IF mode = "AUTO" THEN StartRun(w, Len(execs) + 1, RunTargets(pb, i, param))
         ELSE UNCHANGED <<at, ex, act, cur, todo, done, runs>>
      /\ UNCHANGED <<incident, actions, held, adrift>>
  BY DEF ExecutePlaybook
<1>2. row \in Execution  BY SoarAssumption DEF Execution
<1>3. /\ row.incident = i /\ row.playbook = pb /\ row.ip = None /\ row.blocked = {}
  OBVIOUS
<1> HIDE DEF row
<1>4. held' \subseteq Holds /\ adrift' \subseteq Holds /\ adrift \subseteq adrift'
  BY <1>1, SoarFacts DEF RowTypes
<1>5. /\ RowTypes' /\ RowsGrow /\ ResolvedWithEvidence'
      /\ \A e \in DOMAIN execs' : RowOK(e)'
      /\ Len(execs) + 1 \in DOMAIN execs' /\ execs'[Len(execs) + 1] = row
      /\ Len(execs) + 1 \in Nat
      /\ \A e \in DOMAIN execs : execs'[e] = execs[e]
  BY <1>1, <1>2, <1>3, <1>4, ExecCreated
<1>6. /\ WorkerTypes' /\ WorkerOK(w)' /\ \A v \in Workers \ {w} : StandsStill(v)
      /\ at'[w] \in {"idle", "run"}
  <2>1. CASE mode = "AUTO"
    <3>1. /\ RunTargets(pb, i, param) \in SUBSET Targets
          /\ pb \in Recorded => RunTargets(pb, i, param) = Entities[i]
      BY TargetsOfRun, SoarAssumption
    <3>2. /\ at'[w] = "run" /\ ex'[w] = Len(execs) + 1
          /\ todo'[w] = RunTargets(pb, i, param) /\ done'[w] = {}
          /\ WorkerTypes' /\ \A v \in Workers \ {w} : StandsStill(v)
      BY <1>1, <1>5, <2>1, <3>1, StartRunDone, SoarFacts
    <3>3. Run(w)' = row  BY <1>5, <3>2 DEF Run
    <3>4. RowsThere(w)'  BY <1>5, <3>2 DEF RowsThere
    <3>5. RunKnows(w)'  BY <1>3, <3>1, <3>2, <3>3 DEF RunKnows
    <3>6. WaitingIsLeft(w)'  BY <1>3, <3>2, <3>3 DEF WaitingIsLeft
    <3> QED  BY <3>2, <3>4, <3>5, <3>6 DEF WorkerOK
  <2>2. CASE mode # "AUTO"
    <3>1. WorkerTypes' /\ \A v \in Workers : StandsStill(v)
      BY <1>1, <2>2, SoarFacts DEF WorkerTypes, StandsStill
    <3>2. WorkerOK(w)'  BY <1>5, <3>1, OthersKnow, SoarFacts
    <3> QED  BY <1>1, <2>2, <3>1, <3>2
  <2> QED  BY <2>1, <2>2
<1>7. ASSUME NEW h \in held \ adrift  PROVE Accounted(h)'
  <2>1. h \notin Unrecorded(w)  BY <1>1 DEF Unrecorded
  <2>2. \A k \in DOMAIN actions : actions'[k].status = actions[k].status  BY <1>1
  <2> QED  BY <1>5, <1>6, <2>1, <2>2, HoldStays
<1> QED  BY <1>1, <1>5, <1>6, <1>7, SoarStep

LEMMA ApproveKeeps ==
  ASSUME SoarInv, NEW w \in Workers, NEW e \in DOMAIN execs, ApproveExecution(w, e)
  PROVE  SoarInv'
<1> DEFINE targets == RunTargets(execs[e].playbook, execs[e].incident, None)
<1>1. /\ at[w] = "idle" /\ execs[e].status = "PENDING" /\ execs[e].mode = "CONFIRM"
      /\ StartRun(w, e, targets) /\ UNCHANGED <<dbVars, held, adrift>>
  BY DEF ApproveExecution
<1>2. held' \subseteq Holds /\ adrift' \subseteq Holds /\ adrift \subseteq adrift'
  BY <1>1, SoarFacts DEF RowTypes
<1>3. /\ RowTypes' /\ RowsGrow /\ ResolvedWithEvidence' /\ UNCHANGED <<execs, actions>>
      /\ \A f \in DOMAIN execs' : RowOK(f)'
  BY <1>1, <1>2, RowsLeft DEF dbVars
<1>4. execs[e] \in Execution /\ e \in Nat  BY SoarFacts DEF RowTypes
<1>5. /\ targets \in SUBSET Targets
      /\ execs[e].playbook \in Recorded => targets = Entities[execs[e].incident]
  BY <1>4, TargetsOfRun DEF Execution
<1> HIDE DEF targets
<1>6. /\ at'[w] = "run" /\ ex'[w] = e /\ todo'[w] = targets /\ done'[w] = {}
      /\ WorkerTypes' /\ \A v \in Workers \ {w} : StandsStill(v)
  BY <1>1, <1>4, <1>5, StartRunDone, SoarFacts
<1>7. WorkerOK(w)'
  <2>1. Run(w)' = execs[e]  BY <1>3, <1>6 DEF Run
  <2>2. RowsThere(w)'  BY <1>3, <1>6 DEF RowsThere
  <2>3. RunKnows(w)'  BY <1>5, <1>6, <2>1 DEF RunKnows
  <2>4. execs[e].ip = None  BY <1>1, SoarFacts DEF RowOK
  <2>5. WaitingIsLeft(w)'  BY <1>6, <2>1, <2>4 DEF WaitingIsLeft
  <2> QED  BY <2>2, <2>3, <2>5 DEF WorkerOK
<1>8. ASSUME NEW h \in held \ adrift  PROVE Accounted(h)'
  <2>1. h \notin Unrecorded(w)  BY <1>1 DEF Unrecorded
  <2> QED  BY <1>3, <1>6, <2>1, HoldStays
<1> QED  BY <1>1, <1>3, <1>6, <1>7, <1>8, SoarStep

LEMMA BlockNextKeeps ==
  ASSUME SoarInv, NEW w \in Workers, BlockNext(w)
  PROVE  SoarInv'
<1> DEFINE pb == execs[ex[w]].playbook
<1>1. PICK t \in todo[w], a \in Answers(FALSE) :
        /\ AddHold(HoldType(pb), t, a)
        /\ Adrift(IF ~a.success \/ pb = "block_port" THEN {Hold(HoldType(pb), t)} ELSE {})
        /\ todo' = [todo EXCEPT ![w] = @ \ {t}]
        /\ done' = [done EXCEPT ![w] = IF a.success THEN @ \cup {t} ELSE @]
        /\ IF a.success /\ pb = "temporary_block"
           THEN Goto(w, "cleanup") /\ cur' = [cur EXCEPT ![w] = t]
           ELSE UNCHANGED <<at, cur>>
  BY DEF BlockNext
<1>2. at[w] = "run" /\ pb \in Loops /\ UNCHANGED <<dbVars, ex, act, runs>>
  BY DEF BlockNext
<1>3. t \in Targets /\ HoldType(pb) \in HoldTypes
  BY SoarFacts DEF WorkerTypes, HoldType, HoldTypes
<1> DEFINE new == Hold(HoldType(pb), t)
<1>4. new \in Holds  BY <1>3 DEF Hold, Holds
<1>5. /\ held' \subseteq held \cup {new} /\ adrift' \subseteq adrift \cup {new}
      /\ adrift \subseteq adrift' /\ held \subseteq held'
      /\ ~a.success \/ pb = "block_port" => new \in adrift'
  BY <1>1 DEF AddHold, Adrift
<1> HIDE DEF new
<1>6. held' \subseteq Holds /\ adrift' \subseteq Holds  BY <1>4, <1>5, SoarFacts DEF RowTypes
<1>7. /\ RowTypes' /\ RowsGrow /\ ResolvedWithEvidence' /\ UNCHANGED <<execs, actions>>
      /\ \A f \in DOMAIN execs' : RowOK(f)'
  BY <1>2, <1>5, <1>6, RowsLeft DEF dbVars
<1>8. /\ todo'[w] = todo[w] \ {t} /\ ex'[w] = ex[w]
      /\ done'[w] = IF a.success THEN done[w] \cup {t} ELSE done[w]
      /\ todo' \in [Workers -> SUBSET Targets] /\ done' \in [Workers -> SUBSET Targets]
      /\ \A v \in Workers \ {w} : todo'[v] = todo[v] /\ done'[v] = done[v]
  BY <1>1, <1>2, <1>3, SoarFacts DEF WorkerTypes
<1>9. /\ IF a.success /\ pb = "temporary_block" THEN at'[w] = "cleanup" /\ cur'[w] = t
         ELSE at'[w] = "run"
      /\ at' \in [Workers -> Awaits] /\ cur' \in [Workers -> Targets \cup {None}]
      /\ \A v \in Workers \ {w} : at'[v] = at[v] /\ cur'[v] = cur[v]
  BY <1>1, <1>2, <1>3, SoarFacts, GotoDone DEF WorkerTypes, Awaits, RunAwaits
<1>10. WorkerTypes' /\ \A v \in Workers \ {w} : StandsStill(v)
  BY <1>2, <1>8, <1>9, SoarFacts DEF WorkerTypes, StandsStill
<1>11. WorkerOK(w)'
  <2>1. Run(w)' = Run(w) /\ pb = Run(w).playbook  BY <1>7, <1>8 DEF Run
  <2>2. RowsThere(w)'  BY <1>2, <1>3, <1>7, <1>8, <1>9, SoarFacts DEF RowsThere, RunAwaits
  <2>3. RunKnows(w)'
    BY <1>2, <1>8, <1>9, <2>1, SoarFacts DEF RunKnows, Recorded
  <2>4. WaitingIsLeft(w)'
    BY <1>2, <1>9, <2>1, SoarFacts DEF WaitingIsLeft, RunAwaits
  <2> QED  BY <2>2, <2>3, <2>4 DEF WorkerOK
<1>12. at'[w] = "run" /\ pb \in Recorded
          => Unrecorded(w)' = {Hold(HoldType(pb), u) : u \in done'[w]}
  BY <1>7, <1>8 DEF Unrecorded
<1>13. at'[w] = "cleanup" => Unrecorded(w)' = {Hold("block_ip", cur'[w])}
  BY DEF Unrecorded
<1>14. ASSUME NEW h \in held' \ adrift'  PROVE Accounted(h)'
  <2>1. CASE h = new /\ h \notin held
    <3>1. a.success /\ pb # "block_port"  BY <1>5, <2>1
    <3>2. CASE pb = "temporary_block"
      BY <1>9, <1>13, <2>1, <3>1, <3>2 DEF Accounted, HoldType, new
    <3>3. CASE pb \in Recorded
      BY <1>8, <1>9, <1>12, <2>1, <3>1, <3>3 DEF Accounted, Recorded, new
    <3> QED  BY <1>2, <3>1, <3>2, <3>3 DEF Loops
  <2>2. CASE h \in held
    <3>1. h \in Unrecorded(w) => Accounted(h)'
      <4> SUFFICES ASSUME h \in Unrecorded(w)  PROVE Accounted(h)'  OBVIOUS
      <4>1. pb \in Recorded /\ h \in {Hold(HoldType(pb), u) : u \in done[w]}
        BY <1>2 DEF Unrecorded
      <4>2. at'[w] = "run" /\ done[w] \subseteq done'[w]  BY <1>8, <1>9, <4>1 DEF Recorded
      <4>3. h \in Unrecorded(w)'  BY <1>12, <4>1, <4>2
      <4> QED  BY <4>3 DEF Accounted
    <3>2. h \in held \ adrift  BY <1>5, <2>2
    <3> QED  BY <1>7, <1>9, <1>10, <3>1, <3>2, HoldStays
  <2> QED  BY <1>5, <2>1, <2>2
<1> QED  BY <1>7, <1>10, <1>11, <1>14, SoarStep

\* The execution that is to remove a block is nobody's yet.
LEMMA CreateCleanupKeeps ==
  ASSUME SoarInv, NEW w \in Workers, CreateCleanup(w)
  PROVE  SoarInv'
<1> DEFINE row == [incident |-> execs[ex[w]].incident, playbook |-> "remove_rule",
                   mode |-> "AUTO", status |-> "PENDING", ip |-> cur[w], blocked |-> {}]
           hold == Hold("block_ip", cur[w])
<1>1. /\ at[w] = "cleanup" /\ Goto(w, "run") /\ cur' = [cur EXCEPT ![w] = None]
      /\ UNCHANGED <<incident, actions, held, ex, act, todo, done, runs>>
      /\ \/ execs' = Append(execs, row) /\ adrift' = adrift
         \/ execs' = execs /\ adrift' = adrift \cup {hold}
  BY DEF CreateCleanup, Adrift
<1>2. cur[w] \in Targets /\ ex[w] \in DOMAIN execs /\ execs[ex[w]] \in Execution
  BY <1>1, SoarFacts DEF RowsThere, RunAwaits
<1>3. /\ row \in Execution /\ row.blocked = {} /\ row.mode = "AUTO" /\ row.ip = cur[w]
      /\ row.playbook = "remove_rule" /\ row.status = "PENDING"
  BY <1>2 DEF Execution, AllPlaybooks
<1>4. hold \in Holds /\ hold.type = "block_ip" /\ hold.target = cur[w]
  BY <1>2 DEF Holds, Hold, HoldTypes
<1> HIDE DEF row, hold
<1>5. held' \subseteq Holds /\ adrift' \subseteq Holds /\ adrift \subseteq adrift'
  BY <1>1, <1>4, SoarFacts DEF RowTypes
<1>6. /\ RowTypes' /\ RowsGrow /\ ResolvedWithEvidence'
      /\ \A e \in DOMAIN execs' : RowOK(e)'
      /\ \A e \in DOMAIN execs : execs'[e] = execs[e]
  <2>1. CASE execs' = execs  BY <1>1, <1>5, <2>1, RowsLeft DEF dbVars
  <2>2. CASE execs' = Append(execs, row)  BY <1>1, <1>3, <1>5, <2>2, ExecCreated
  <2> QED  BY <1>1, <2>1, <2>2
<1>7. /\ at'[w] = "run" /\ WorkerTypes' /\ \A v \in Workers \ {w} : StandsStill(v)
      /\ todo'[w] = todo[w] /\ done'[w] = done[w] /\ ex'[w] = ex[w]
  BY <1>1, GotoDone, SoarFacts DEF WorkerTypes, StandsStill, Awaits, RunAwaits
<1>8. WorkerOK(w)'
  <2>1. Run(w)' = Run(w)  BY <1>2, <1>6, <1>7 DEF Run
  <2>2. RowsThere(w)'  BY <1>2, <1>6, <1>7 DEF RowsThere, RowsGrow
  <2>3. RunKnows(w)'  BY <1>1, <1>7, <2>1, SoarFacts DEF RunKnows
  <2>4. WaitingIsLeft(w)'  BY <1>1, <1>7, <2>1, SoarFacts DEF WaitingIsLeft, RunAwaits
  <2> QED  BY <2>2, <2>3, <2>4 DEF WorkerOK
<1>9. Unrecorded(w) = {hold}  BY <1>1 DEF Unrecorded, hold
<1>10. ASSUME NEW h \in held' \ adrift'  PROVE Accounted(h)'
  <2>1. ASSUME h = hold  PROVE Accounted(h)'
    <3>1. execs' = Append(execs, row)  BY <1>1, <2>1
    <3> PICK n : n = Len(execs) + 1  OBVIOUS
    <3>2. n \in DOMAIN execs' /\ execs'[n] = row /\ n \notin DOMAIN execs
      BY <1>3, <3>1, SeqAppend, SoarFacts DEF RowTypes
    <3>3. \A v \in Workers : ~(at'[v] = "abortWrite" /\ ex'[v] = n)
      BY <1>7, <3>2, SoarFacts DEF RowsThere, StandsStill
    <3>4. FirmExec(h, n)'  BY <1>3, <1>4, <2>1, <3>2, <3>3 DEF FirmExec
    <3> QED  BY <3>2, <3>4 DEF Accounted
  <2>2. h \in held \ adrift  BY <1>1, <1>5
  <2>3. \A k \in DOMAIN actions : actions'[k].status = actions[k].status  BY <1>1
  <2> QED  BY <1>6, <1>7, <1>9, <2>1, <2>2, <2>3, HoldStays
<1> QED  BY <1>6, <1>7, <1>8, <1>10, SoarStep

LEMMA RemoveRuleKeeps ==
  ASSUME SoarInv, NEW w \in Workers, RemoveRule(w)
  PROVE  SoarInv'
<1>1. /\ at[w] = "run" /\ execs[ex[w]].playbook = "remove_rule"
      /\ UNCHANGED <<dbVars, ex, act, cur, runs, adrift>>
  BY DEF RemoveRule
<1>2. PICK t \in todo[w], a \in Answers(TRUE) :
        /\ RemoveHold("block_ip", t, a)
        /\ todo' = [todo EXCEPT ![w] = {}] /\ done' = [done EXCEPT ![w] = {t}]
        /\ Goto(w, IF a.success THEN "finish" ELSE "fail")
  BY DEF RemoveRule
<1>3. held' \subseteq held  BY <1>2 DEF RemoveHold
<1>4. held' \subseteq Holds /\ adrift' \subseteq Holds /\ adrift \subseteq adrift'
  BY <1>1, <1>3, SoarFacts DEF RowTypes
<1>5. /\ RowTypes' /\ RowsGrow /\ ResolvedWithEvidence' /\ UNCHANGED <<execs, actions>>
      /\ \A f \in DOMAIN execs' : RowOK(f)'
  BY <1>1, <1>4, RowsLeft DEF dbVars
<1>6. PICK a1 \in {"finish", "fail"} : Goto(w, a1)  BY <1>2
<1>7. at'[w] \in {"finish", "fail"} /\ at' \in [Workers -> Awaits]
      /\ \A v \in Workers \ {w} : at'[v] = at[v]
  BY <1>6, GotoDone, SoarFacts DEF Awaits, RunAwaits
<1>8. t \in Targets  BY <1>2, SoarFacts DEF WorkerTypes
<1>9. /\ WorkerTypes' /\ \A v \in Workers \ {w} : StandsStill(v)
      /\ ex'[w] = ex[w]
  BY <1>1, <1>2, <1>7, <1>8, SoarFacts DEF WorkerTypes, StandsStill
<1>10. WorkerOK(w)'
  <2>1. Run(w)' = Run(w) /\ Run(w).playbook \notin Recorded
    BY <1>1, <1>5, <1>9 DEF Run, Recorded
  <2>2. RowsThere(w)'  BY <1>1, <1>5, <1>7, <1>9, SoarFacts DEF RowsThere, RunAwaits
  <2>3. RunKnows(w)'  BY <1>7, <2>1 DEF RunKnows
  <2>4. WaitingIsLeft(w)'  BY <1>1, <1>7, <2>1, SoarFacts DEF WaitingIsLeft, RunAwaits
  <2> QED  BY <2>2, <2>3, <2>4 DEF WorkerOK
<1>11. ASSUME NEW h \in held' \ adrift'  PROVE Accounted(h)'
  <2>1. h \notin Unrecorded(w)  BY <1>1 DEF Unrecorded, Recorded
  <2>2. h \in held \ adrift  BY <1>1, <1>3
  <2> QED  BY <1>5, <1>7, <1>9, <2>1, <2>2, HoldStays
<1> QED  BY <1>5, <1>9, <1>10, <1>11, SoarStep

LEMMA EndLoopKeeps ==
  ASSUME SoarInv, NEW w \in Workers, EndLoop(w)
  PROVE  SoarInv'
<1> DEFINE pb == execs[ex[w]].playbook
           records == pb \in Recorded /\ done[w] # {}
<1>1. /\ at[w] = "run" /\ todo[w] = {}
      /\ Goto(w, IF records THEN "record" ELSE "finish")
      /\ todo' = [todo EXCEPT ![w] = IF records THEN done[w] ELSE {}]
      /\ UNCHANGED <<dbVars, held, ex, act, cur, done, runs, adrift>>
  BY DEF EndLoop
<1> HIDE DEF records
<1>2. held' \subseteq Holds /\ adrift' \subseteq Holds /\ adrift \subseteq adrift'
  BY <1>1, SoarFacts DEF RowTypes
<1>3. /\ RowTypes' /\ RowsGrow /\ ResolvedWithEvidence' /\ UNCHANGED <<execs, actions>>
      /\ \A f \in DOMAIN execs' : RowOK(f)'
  BY <1>1, <1>2, RowsLeft DEF dbVars
<1>4. /\ at'[w] = IF records THEN "record" ELSE "finish"
      /\ at' \in [Workers -> Awaits] /\ \A v \in Workers \ {w} : at'[v] = at[v]
  <2>1. CASE records
    BY <1>1, <2>1, GotoDone, SoarFacts DEF Awaits, RunAwaits
  <2>2. CASE ~records
    BY <1>1, <2>2, GotoDone, SoarFacts DEF Awaits, RunAwaits
  <2> QED  BY <2>1, <2>2
<1>5. /\ WorkerTypes' /\ \A v \in Workers \ {w} : StandsStill(v)
      /\ ex'[w] = ex[w] /\ done'[w] = done[w] /\ (records => todo'[w] = done[w])
  BY <1>1, <1>4, SoarFacts DEF WorkerTypes, StandsStill
<1>6. WorkerOK(w)'
  <2>1. Run(w)' = Run(w)  BY <1>3, <1>5 DEF Run
  <2>2. RowsThere(w)'  BY <1>1, <1>3, <1>4, <1>5, SoarFacts DEF RowsThere, RunAwaits
  <2>3. RunKnows(w)'
    <3>1. records <=> Run(w).playbook \in Recorded /\ done[w] # {}  BY DEF records, Run
    <3>2. Run(w).playbook \in Recorded => done[w] \subseteq Entities[Run(w).incident]
      BY <1>1, SoarFacts DEF RunKnows
    <3>3. CASE records  BY <1>4, <1>5, <2>1, <3>1, <3>2, <3>3 DEF RunKnows
    <3>4. CASE ~records  BY <1>4, <1>5, <2>1, <3>1, <3>4 DEF RunKnows
    <3> QED  BY <3>3, <3>4
  <2>4. WaitingIsLeft(w)'  BY <1>1, <1>4, <2>1, SoarFacts DEF WaitingIsLeft, RunAwaits
  <2> QED  BY <2>2, <2>3, <2>4 DEF WorkerOK
<1>7. ASSUME NEW h \in held' \ adrift'  PROVE Accounted(h)'
  <2>1. h \in Unrecorded(w) => Accounted(h)'
    <3> SUFFICES ASSUME h \in Unrecorded(w)  PROVE h \in Unrecorded(w)'  BY DEF Accounted
    <3>1. pb \in Recorded /\ h \in {Hold(HoldType(pb), t) : t \in done[w]}
      BY <1>1 DEF Unrecorded
    <3>2. records  BY <3>1 DEF records
    <3>3. pb' = pb  BY <1>3, <1>5
    <3> QED  BY <1>4, <1>5, <3>1, <3>2, <3>3 DEF Unrecorded
  <2>2. h \in held \ adrift  BY <1>1
  <2> QED  BY <1>3, <1>4, <1>5, <2>1, <2>2, HoldStays
<1> QED  BY <1>3, <1>5, <1>6, <1>7, SoarStep

\* An incident with an execution has a latest one.
LEMMA LatestIsThere ==
  ASSUME SoarInv, NEW e \in DOMAIN execs
  PROVE  Latest(execs[e].incident) \in DOMAIN execs
<1> DEFINE i == execs[e].incident
           S == {f \in DOMAIN execs : execs[f].incident = i}
<1>1. DOMAIN execs = 1 .. Len(execs) /\ Len(execs) \in Nat
  BY SoarFacts DEF RowTypes
<1>2. S \subseteq 1 .. Len(execs) /\ S \subseteq Int /\ e \in S  BY <1>1
<1>3. IsFiniteSet(1 .. Len(execs))  BY <1>1, FS_Interval
<1>4. IsFiniteSet(S)  BY <1>2, <1>3, FS_Subset
<1> HIDE DEF S
<1>5. PICK m \in S : \A x \in S : x <= m  BY <1>2, <1>4, FiniteMax
<1>6. /\ m \in DOMAIN execs /\ execs[m].incident = i
      /\ \A f \in DOMAIN execs : execs[f].incident = i => f <= m
  BY <1>5 DEF S
<1> QED  BY <1>6 DEF Latest

\* An action is recorded.
LEMMA ActionRecorded ==
  ASSUME SoarInv, NEW row \in Action, actions' = Append(actions, row),
         UNCHANGED <<incident, execs, held, adrift>>
  PROVE  /\ RowTypes' /\ RowsGrow /\ ResolvedWithEvidence'
         /\ \A e \in DOMAIN execs' : RowOK(e)'
         /\ Len(actions) + 1 \in DOMAIN actions' /\ actions'[Len(actions) + 1] = row
         /\ Len(actions) + 1 \notin DOMAIN actions
         /\ \A k \in DOMAIN actions : actions'[k] = actions[k]
<1>1. /\ actions' \in Seq(Action)
      /\ DOMAIN actions' = DOMAIN actions \cup {Len(actions) + 1}
      /\ Len(actions) + 1 \notin DOMAIN actions
      /\ \A k \in DOMAIN actions : actions'[k] = actions[k]
      /\ actions'[Len(actions) + 1] = row
  BY SeqAppend, SoarFacts DEF RowTypes
<1>2. RowTypes'  BY <1>1, SoarFacts DEF RowTypes
<1>3. RowsGrow  BY <1>1 DEF RowsGrow
<1>4. ResolvedWithEvidence'  BY <1>3, ResolvedStays, SoarFacts
<1>5. \A e \in DOMAIN execs' : RowOK(e)'  BY <1>3, RowStays, SoarFacts
<1> QED  BY <1>1, <1>2, <1>3, <1>4, <1>5

\* A target is off the list of a run with its action, or adrift.
LEMMA RecordActionKeeps ==
  ASSUME SoarInv, NEW w \in Workers, RecordAction(w)
  PROVE  SoarInv'
<1> DEFINE e == execs[ex[w]]
<1>1. at[w] = "record" /\ UNCHANGED <<incident, execs, held, ex, act, cur, done, runs>>
  BY DEF RecordAction
<1>2. PICK t \in todo[w] :
        /\ \/ /\ actions' = Append(actions, [incident |-> e.incident,
                               exec |-> Latest(e.incident), type |-> HoldType(e.playbook),
                               target |-> t, status |-> "EXECUTED"])
              /\ UNCHANGED adrift
           \/ /\ Adrift({Hold(HoldType(e.playbook), t)})
              /\ UNCHANGED actions
        /\ todo' = [todo EXCEPT ![w] = @ \ {t}]
        /\ Goto(w, IF todo[w] = {t} THEN "resolve" ELSE "record")
  BY DEF RecordAction
<1> DEFINE row == [incident |-> e.incident, exec |-> Latest(e.incident),
                   type |-> HoldType(e.playbook), target |-> t, status |-> "EXECUTED"]
           hold == Hold(HoldType(e.playbook), t)
<1>3. ex[w] \in DOMAIN execs /\ e \in Execution /\ t \in Targets /\ e.playbook \in Recorded
      /\ t \in Entities[e.incident]
  BY <1>1, SoarFacts DEF RowsThere, RunKnows, RunAwaits, WorkerTypes, Run
<1>4. HoldType(e.playbook) \in {"block_ip", "isolate_host"}
  BY <1>3 DEF HoldType, Recorded
<1>5. row \in Action
  <2>1. Latest(e.incident) \in Nat  BY <1>3, LatestIsThere, SoarFacts DEF RowTypes
  <2> QED  BY <1>3, <1>4, <2>1 DEF Action, Execution
<1>6. hold \in Holds /\ hold.target = t /\ hold.type = HoldType(e.playbook)
  BY <1>3, <1>4 DEF Holds, Hold, HoldTypes
<1>7. \/ actions' = Append(actions, row) /\ adrift' = adrift
      \/ actions' = actions /\ adrift' = adrift \cup {hold}
  BY <1>2 DEF Adrift
<1>8. /\ row.incident = e.incident /\ row.type = HoldType(e.playbook) /\ row.target = t
      /\ row.status = "EXECUTED"
  OBVIOUS
<1> HIDE DEF row, hold
<1>9. adrift \subseteq adrift' /\ adrift' \subseteq Holds /\ held' \subseteq Holds
  BY <1>1, <1>6, <1>7, SoarFacts DEF RowTypes
<1>10. /\ RowTypes' /\ RowsGrow /\ ResolvedWithEvidence'
       /\ \A f \in DOMAIN execs' : RowOK(f)'
       /\ \A k \in DOMAIN actions : actions'[k] = actions[k]
  <2>1. CASE actions' = actions  BY <1>1, <1>9, <2>1, RowsLeft DEF dbVars
  <2>2. CASE actions' = Append(actions, row) /\ adrift' = adrift
    BY <1>1, <1>5, <2>2, ActionRecorded
  <2> QED  BY <1>7, <2>1, <2>2
<1>11. /\ at'[w] = IF todo[w] = {t} THEN "resolve" ELSE "record"
       /\ at' \in [Workers -> Awaits] /\ \A v \in Workers \ {w} : at'[v] = at[v]
  <2>1. CASE todo[w] = {t}
    BY <1>2, <2>1, GotoDone, SoarFacts DEF Awaits, RunAwaits
  <2>2. CASE todo[w] # {t}
    BY <1>2, <2>2, GotoDone, SoarFacts DEF Awaits, RunAwaits
  <2> QED  BY <2>1, <2>2
<1>12. /\ WorkerTypes' /\ \A v \in Workers \ {w} : StandsStill(v)
       /\ ex'[w] = ex[w] /\ done'[w] = done[w] /\ todo'[w] = todo[w] \ {t}
  BY <1>1, <1>2, <1>11, SoarFacts DEF WorkerTypes, StandsStill
<1>13. (\E k \in DOMAIN actions' : actions'[k] = row /\ k \notin DOMAIN actions)
          \/ hold \in adrift'
  BY <1>1, <1>5, <1>7, ActionRecorded
<1>14. WorkerOK(w)'
  <2>1. Run(w)' = Run(w) /\ Run(w) = e  BY <1>1, <1>12 DEF Run
  <2>2. RowsThere(w)'  BY <1>1, <1>3, <1>11, <1>12 DEF RowsThere
  <2>3. Covered(e.incident, e.playbook, t)'
    <3>1. hold = Hold(HoldType(e.playbook), t)  BY DEF hold
    <3>2. CASE hold \in adrift'  BY <1>1, <3>1, <3>2 DEF Covered
    <3>3. CASE hold \notin adrift'  BY <1>1, <1>8, <1>13, <3>3 DEF Covered
    <3> QED  BY <3>2, <3>3
  <2>4. Evidence(e.incident)'
    BY <1>1, <1>3, <1>6, <1>8, <1>13 DEF Evidence
  <2>5. \A u \in done[w] : u \in todo[w] \/ Covered(e.incident, e.playbook, u)'
    <3> SUFFICES ASSUME NEW u \in done[w], u \notin todo[w]
                 PROVE  Covered(e.incident, e.playbook, u)'
      OBVIOUS
    <3>1. Covered(e.incident, e.playbook, u)
      BY <1>1, <1>3, <2>1, SoarFacts DEF RunKnows
    <3> HIDE DEF e
    <3>2. \A i, pb : Covered(i, pb, u) => Covered(i, pb, u)'  BY <1>10, CoveredStays
    <3>3. e' = e  BY <1>1 DEF e
    <3> QED  BY <3>1, <3>2, <3>3
  <2>6. RunKnows(w)'
    BY <1>1, <1>3, <1>11, <1>12, <2>1, <2>3, <2>4, <2>5, SoarFacts DEF RunKnows
  <2>7. WaitingIsLeft(w)'  BY <1>1, <1>11, <2>1, SoarFacts DEF WaitingIsLeft, RunAwaits
  <2> QED  BY <2>2, <2>6, <2>7 DEF WorkerOK
<1>15. ASSUME NEW h \in held' \ adrift'  PROVE Accounted(h)'
  <2>1. h \in held \ adrift  BY <1>1, <1>9
  <2>2. h \in Unrecorded(w) => Accounted(h)'
    <3> SUFFICES ASSUME h \in Unrecorded(w)  PROVE Accounted(h)'  OBVIOUS
    <3>1. PICK u \in todo[w] : h = Hold(HoldType(e.playbook), u)
      BY <1>1 DEF Unrecorded
    <3>2. CASE u = t
      <4>1. h = hold  BY <3>1, <3>2 DEF hold
      <4>2. PICK k \in DOMAIN actions' : actions'[k] = row /\ k \notin DOMAIN actions
        BY <1>13, <4>1
      <4>3. \A v \in Workers : ~(at'[v] = "undoWrite" /\ act'[v] = k)
        BY <1>11, <1>12, <4>2, SoarFacts DEF RowsThere, StandsStill
      <4>4. FirmAction(h, k)'  BY <1>6, <1>8, <4>1, <4>2, <4>3 DEF FirmAction
      <4> QED  BY <4>2, <4>4 DEF Accounted
    <3>3. CASE u # t
      <4>1. at'[w] = "record" /\ u \in todo'[w]  BY <1>11, <1>12, <3>1, <3>3
      <4>2. execs'[ex'[w]] = e  BY <1>1, <1>12
      <4>3. h \in Unrecorded(w)'  BY <3>1, <4>1, <4>2 DEF Unrecorded
      <4> QED  BY <4>3 DEF Accounted
    <3> QED  BY <3>2, <3>3
  <2> QED  BY <1>1, <1>10, <1>11, <1>12, <2>1, <2>2, HoldStays
<1> QED  BY <1>10, <1>12, <1>14, <1>15, SoarStep

LEMMA AutoResolveKeeps ==
  ASSUME SoarInv, NEW w \in Workers, AutoResolve(w)
  PROVE  SoarInv'
<1>1. /\ at[w] = "resolve" /\ Goto(w, "finish")
      /\ UNCHANGED <<execs, actions, held, ex, act, cur, todo, done, runs, adrift>>
      /\ incident' \in {incident, [incident EXCEPT ![Run(w).incident] = "RESOLVED"]}
  BY DEF AutoResolve, Run
<1>2. ex[w] \in DOMAIN execs /\ Run(w) \in Execution /\ Evidence(Run(w).incident)
  BY <1>1, SoarFacts DEF RowsThere, RunKnows, RunAwaits, Run
<1>3. RowTypes'  BY <1>1, <1>2, SoarFacts DEF RowTypes
<1>4. RowsGrow  BY <1>1 DEF RowsGrow
<1>5. ResolvedWithEvidence'
  <2> SUFFICES ASSUME NEW i \in Incidents, incident'[i] = "RESOLVED"  PROVE Evidence(i)'
    BY DEF ResolvedWithEvidence, Evidence
  <2>1. Evidence(i)
    <3>1. CASE incident[i] = "RESOLVED"
      BY <3>1, SoarFacts DEF ResolvedWithEvidence, Evidence
    <3>2. CASE i = Run(w).incident  BY <1>2, <3>2
    <3> QED  BY <1>1, <1>2, <3>1, <3>2, SoarFacts DEF RowTypes
  <2> QED  BY <1>4, <2>1, EvidenceStays
<1>6. \A e \in DOMAIN execs' : RowOK(e)'  BY <1>1, <1>4, RowStays, SoarFacts
<1>7. /\ at'[w] = "finish" /\ WorkerTypes' /\ \A v \in Workers \ {w} : StandsStill(v)
      /\ ex'[w] = ex[w] /\ done'[w] = done[w]
  BY <1>1, GotoDone, SoarFacts DEF WorkerTypes, StandsStill, Awaits, RunAwaits
<1>8. WorkerOK(w)'
  <2>1. Run(w)' = Run(w)  BY <1>1, <1>7 DEF Run
  <2>2. RowsThere(w)'  BY <1>1, <1>2, <1>7 DEF RowsThere
  <2>3. \A i, pb, t : Covered(i, pb, t) => Covered(i, pb, t)'  BY <1>4, CoveredStays
  <2>4. RunKnows(w)'
    <3>1. Run(w).playbook \in Recorded =>
            \A t \in done[w] : Covered(Run(w).incident, Run(w).playbook, t)
      BY <1>1, SoarFacts DEF RunKnows
    <3>2. Run(w)'.playbook \in Recorded =>
            \A t \in done'[w] : Covered(Run(w).incident, Run(w).playbook, t)'
      BY <1>7, <2>1, <2>3, <3>1
    <3> QED  BY <1>7, <3>2 DEF RunKnows
  <2>5. WaitingIsLeft(w)'  BY <1>1, <1>7, <2>1, SoarFacts DEF WaitingIsLeft, RunAwaits
  <2> QED  BY <2>2, <2>4, <2>5 DEF WorkerOK
<1>9. ASSUME NEW h \in held' \ adrift'  PROVE Accounted(h)'
  <2>1. h \in held \ adrift /\ h \notin Unrecorded(w)  BY <1>1 DEF Unrecorded
  <2> QED  BY <1>1, <1>4, <1>7, <2>1, HoldStays
<1> QED  BY <1>3, <1>4, <1>5, <1>6, <1>7, <1>8, <1>9, SoarStep

\* An execution is given its last status.
LEMMA ExecSettled ==
  ASSUME SoarInv, NEW e \in DOMAIN execs, NEW row \in Execution,
         execs' = [execs EXCEPT ![e] = row], row.status # "PENDING",
         row.incident = execs[e].incident, row.playbook = execs[e].playbook,
         row.mode = execs[e].mode,
         row.playbook \in Recorded
             => \A t \in row.blocked : Covered(row.incident, row.playbook, t),
         UNCHANGED <<incident, actions, held, adrift>>
  PROVE  /\ RowTypes' /\ RowsGrow /\ ResolvedWithEvidence'
         /\ \A f \in DOMAIN execs' : RowOK(f)'
         /\ execs'[e] = row /\ \A f \in DOMAIN execs \ {e} : execs'[f] = execs[f]
<1>1. /\ execs' \in Seq(Execution) /\ DOMAIN execs' = DOMAIN execs /\ execs'[e] = row
      /\ \A f \in DOMAIN execs \ {e} : execs'[f] = execs[f]
  BY SeqUpdate, SoarFacts DEF RowTypes
<1>2. RowTypes'  BY <1>1, SoarFacts DEF RowTypes
<1>3. RowsGrow  BY <1>1 DEF RowsGrow
<1>4. ResolvedWithEvidence'  BY <1>3, ResolvedStays, SoarFacts
<1>5. ASSUME NEW f \in DOMAIN execs'  PROVE RowOK(f)'
  <2>1. CASE f # e  BY <1>1, <1>3, <2>1, RowStays, SoarFacts
  <2>2. CASE f = e
    <3>1. row.playbook \in Recorded
            => \A t \in row.blocked : Covered(row.incident, row.playbook, t)'
      BY <1>3, CoveredStays
    <3> QED  BY <1>1, <2>2, <3>1 DEF RowOK
  <2> QED  BY <2>1, <2>2
<1> QED  BY <1>1, <1>2, <1>3, <1>4, <1>5

\* The run is over and its execution has a status.
LEMMA RunSettles ==
  ASSUME SoarInv, NEW w \in Workers, at[w] \in {"finish", "fail"}, NEW row \in Execution,
         execs' = [execs EXCEPT ![ex[w]] = row], row.status # "PENDING",
         row.incident = Run(w).incident, row.playbook = Run(w).playbook,
         row.mode = Run(w).mode,
         row.playbook \in Recorded
             => \A t \in row.blocked : Covered(row.incident, row.playbook, t),
         Idle(w), UNCHANGED <<incident, actions, held, adrift>>
  PROVE  SoarInv'
<1>1. ex[w] \in DOMAIN execs  BY SoarFacts DEF RowsThere, RunAwaits
<1>2. /\ RowTypes' /\ RowsGrow /\ ResolvedWithEvidence'
      /\ execs'[ex[w]] = row /\ \A f \in DOMAIN execs' : RowOK(f)'
      /\ \A f \in DOMAIN execs \ {ex[w]} : execs'[f] = execs[f]
  BY <1>1, ExecSettled DEF Run
<1>3. /\ at'[w] = "idle" /\ WorkerTypes' /\ WorkerOK(w)'
      /\ \A v \in Workers \ {w} : StandsStill(v)
  BY IdleDone, SoarFacts
<1>4. ASSUME NEW h \in held' \ adrift'  PROVE Accounted(h)'
  <2>1. h \notin Unrecorded(w)  BY DEF Unrecorded
  <2>2. ~(Run(w).status = "PENDING" /\ Run(w).ip # None)
    BY SoarFacts DEF WaitingIsLeft, RunAwaits
  <2>3. \A e \in DOMAIN execs :
          execs[e].status = "PENDING" /\ execs[e].ip # None => execs'[e] = execs[e]
    BY <1>2, <2>2 DEF Run
  <2> QED  BY <1>2, <1>3, <2>1, <2>3, HoldStays
<1> QED  BY <1>2, <1>3, <1>4, SoarStep

LEMMA FinishRunKeeps ==
  ASSUME SoarInv, NEW w \in Workers, FinishRun(w)
  PROVE  SoarInv'
<1> DEFINE removal == execs[ex[w]].playbook = "remove_rule"
           ip == IF removal /\ done[w] # {} THEN CHOOSE t \in done[w] : TRUE ELSE None
           blocked == IF removal THEN {} ELSE done[w]
<1>1. /\ at[w] = "finish" /\ UNCHANGED <<incident, actions, held, runs, adrift>>
      /\ \/ /\ execs' = [execs EXCEPT ![ex[w]].status = "EXECUTED", ![ex[w]].ip = ip,
                                       ![ex[w]].blocked = blocked]
            /\ Idle(w)
         \/ Goto(w, "fail") /\ UNCHANGED <<execs, ex, act, cur, todo, done>>
  BY DEF FinishRun
<1>2. ex[w] \in DOMAIN execs /\ Run(w) \in Execution
  BY <1>1, SoarFacts DEF RowsThere, RunAwaits, Run
<1>3. ip \in Targets \cup {None} /\ blocked \in SUBSET Targets
  BY SoarFacts DEF WorkerTypes
<1>4. Run(w).playbook \in Recorded
        => \A t \in blocked : Covered(Run(w).incident, Run(w).playbook, t)
  BY <1>1, SoarFacts DEF RunKnows
<1> HIDE DEF ip, blocked
<1>5. CASE /\ execs' = [execs EXCEPT ![ex[w]].status = "EXECUTED", ![ex[w]].ip = ip,
                                    ![ex[w]].blocked = blocked]
           /\ Idle(w)
  <2> DEFINE row == [Run(w) EXCEPT !.status = "EXECUTED", !.ip = ip, !.blocked = blocked]
  <2>1. /\ row \in Execution /\ row.status = "EXECUTED" /\ row.blocked = blocked
        /\ row.incident = Run(w).incident /\ row.playbook = Run(w).playbook
        /\ row.mode = Run(w).mode
    BY <1>2, <1>3 DEF Execution
  <2>2. execs' = [execs EXCEPT ![ex[w]] = row]  BY <1>2, <1>5 DEF Run
  <2> HIDE DEF row
  <2>3. row.playbook \in Recorded
          => \A t \in row.blocked : Covered(row.incident, row.playbook, t)
    BY <1>4, <2>1
  <2> QED  BY <1>1, <1>5, <2>1, <2>2, <2>3, RunSettles
<1>6. CASE Goto(w, "fail") /\ UNCHANGED <<execs, ex, act, cur, todo, done>>
  <2>1. held' \subseteq Holds /\ adrift' \subseteq Holds /\ adrift \subseteq adrift'
        /\ UNCHANGED dbVars
    BY <1>1, <1>6, SoarFacts DEF RowTypes, dbVars
  <2>2. /\ RowTypes' /\ RowsGrow /\ ResolvedWithEvidence' /\ UNCHANGED <<execs, actions>>
        /\ \A f \in DOMAIN execs' : RowOK(f)'
    BY <1>1, <1>6, <2>1, RowsLeft
  <2>3. /\ at'[w] = "fail" /\ WorkerTypes' /\ \A v \in Workers \ {w} : StandsStill(v)
        /\ ex'[w] = ex[w]
    BY <1>6, GotoDone, SoarFacts DEF WorkerTypes, StandsStill, Awaits, RunAwaits
  <2>4. WorkerOK(w)'
    <3>1. Run(w)' = Run(w)  BY <1>6, <2>3 DEF Run
    <3>2. RowsThere(w)'  BY <1>2, <1>6, <2>3 DEF RowsThere
    <3>3. RunKnows(w)'  BY <2>3 DEF RunKnows
    <3>4. WaitingIsLeft(w)'  BY <1>1, <2>3, <3>1, SoarFacts DEF WaitingIsLeft, RunAwaits
    <3> QED  BY <3>2, <3>3, <3>4 DEF WorkerOK
  <2>5. ASSUME NEW h \in held' \ adrift'  PROVE Accounted(h)'
    <3>1. h \in held \ adrift /\ h \notin Unrecorded(w)  BY <1>1 DEF Unrecorded
    <3> QED  BY <1>1, <2>2, <2>3, <3>1, HoldStays
  <2> QED  BY <2>2, <2>3, <2>4, <2>5, SoarStep
<1> QED  BY <1>1, <1>5, <1>6

LEMMA FailRunKeeps ==
  ASSUME SoarInv, NEW w \in Workers, FailRun(w)
  PROVE  SoarInv'
<1>1. /\ at[w] = "fail" /\ UNCHANGED <<incident, actions, held, runs, adrift>> /\ Idle(w)
      /\ \/ execs' = [execs EXCEPT ![ex[w]].status = "FAILED", ![ex[w]].ip = None,
                                   ![ex[w]].blocked = {}]
         \/ execs' = execs
  BY DEF FailRun
<1>2. ex[w] \in DOMAIN execs /\ Run(w) \in Execution
  BY <1>1, SoarFacts DEF RowsThere, RunAwaits, Run
<1>3. CASE execs' = [execs EXCEPT ![ex[w]].status = "FAILED", ![ex[w]].ip = None,
                                  ![ex[w]].blocked = {}]
  <2> DEFINE row == [Run(w) EXCEPT !.status = "FAILED", !.ip = None, !.blocked = {}]
  <2>1. /\ row \in Execution /\ row.status = "FAILED" /\ row.blocked = {}
        /\ row.incident = Run(w).incident /\ row.playbook = Run(w).playbook
        /\ row.mode = Run(w).mode
    BY <1>2 DEF Execution
  <2>2. execs' = [execs EXCEPT ![ex[w]] = row]  BY <1>2, <1>3 DEF Run
  <2> HIDE DEF row
  <2> QED  BY <1>1, <2>1, <2>2, RunSettles
<1>4. CASE execs' = execs
  <2>1. held' \subseteq Holds /\ adrift' \subseteq Holds /\ adrift \subseteq adrift'
        /\ UNCHANGED dbVars
    BY <1>1, <1>4, SoarFacts DEF RowTypes, dbVars
  <2>2. /\ RowTypes' /\ RowsGrow /\ ResolvedWithEvidence' /\ UNCHANGED <<execs, actions>>
        /\ \A f \in DOMAIN execs' : RowOK(f)'
    BY <1>1, <1>4, <2>1, RowsLeft
  <2>3. /\ at'[w] = "idle" /\ WorkerTypes' /\ WorkerOK(w)'
        /\ \A v \in Workers \ {w} : StandsStill(v)
    BY <1>1, IdleDone, SoarFacts
  <2>4. ASSUME NEW h \in held' \ adrift'  PROVE Accounted(h)'
    <3>1. h \in held \ adrift /\ h \notin Unrecorded(w)  BY <1>1 DEF Unrecorded
    <3> QED  BY <1>1, <2>2, <2>3, <3>1, HoldStays
  <2> QED  BY <2>2, <2>3, <2>4, SoarStep
<1> QED  BY <1>1, <1>3, <1>4

LEMMA AbortPlaybookKeeps ==
  ASSUME SoarInv, NEW w \in Workers, NEW e \in DOMAIN execs, AbortPlaybook(w, e)
  PROVE  SoarInv'
<1>1. /\ at[w] = "idle" /\ ex' = [ex EXCEPT ![w] = e]
      /\ todo' = [todo EXCEPT ![w] = {execs[e].ip} \ {None}]
      /\ Goto(w, IF execs[e].ip = None THEN "abortWrite" ELSE "abort")
      /\ UNCHANGED <<dbVars, held, act, cur, done, runs, adrift>>
  BY DEF AbortPlaybook
<1>2. held' \subseteq Holds /\ adrift' \subseteq Holds /\ adrift \subseteq adrift'
  BY <1>1, SoarFacts DEF RowTypes
<1>3. /\ RowTypes' /\ RowsGrow /\ ResolvedWithEvidence' /\ UNCHANGED <<execs, actions>>
      /\ \A f \in DOMAIN execs' : RowOK(f)'
  BY <1>1, <1>2, RowsLeft DEF dbVars
<1>4. /\ at'[w] = IF execs[e].ip = None THEN "abortWrite" ELSE "abort"
      /\ at' \in [Workers -> Awaits] /\ \A v \in Workers \ {w} : at'[v] = at[v]
  <2>1. CASE execs[e].ip = None  BY <1>1, <2>1, GotoDone, SoarFacts DEF Awaits
  <2>2. CASE execs[e].ip # None  BY <1>1, <2>2, GotoDone, SoarFacts DEF Awaits
  <2> QED  BY <2>1, <2>2
<1>5. e \in Nat /\ {execs[e].ip} \ {None} \subseteq Targets
  BY SoarFacts DEF RowTypes, Execution
<1>6. /\ WorkerTypes' /\ \A v \in Workers \ {w} : StandsStill(v)
      /\ ex'[w] = e /\ todo'[w] = {execs[e].ip} \ {None}
  BY <1>1, <1>4, <1>5, SoarFacts DEF WorkerTypes, StandsStill
<1>7. WorkerOK(w)'
  <2>1. Run(w)' = execs[e]  BY <1>3, <1>6 DEF Run
  <2>2. RowsThere(w)'  BY <1>3, <1>4, <1>6 DEF RowsThere
  <2>3. RunKnows(w)'  BY <1>4 DEF RunKnows
  <2>4. WaitingIsLeft(w)'  BY <1>4, <1>6, <2>1 DEF WaitingIsLeft, RunAwaits
  <2> QED  BY <2>2, <2>3, <2>4 DEF WorkerOK
<1>8. ASSUME NEW h \in held' \ adrift'  PROVE Accounted(h)'
  <2>1. h \in held \ adrift /\ h \notin Unrecorded(w) /\ h.target # None
    BY <1>1, SoarFacts, SoarAssumption DEF Unrecorded
  <2>2. \A k \in DOMAIN actions : FirmAction(h, k) => FirmAction(h, k)'
    BY <1>3, <1>4, <1>6, ActionsStayFirm
  <2>3. ASSUME NEW f \in DOMAIN execs, FirmExec(h, f)  PROVE FirmExec(h, f)'
    <3>1. execs'[f] = execs[f] /\ execs[f].ip # None  BY <1>3, <2>1, <2>3 DEF FirmExec
    <3>2. \A v \in Workers : ~(at'[v] = "abortWrite" /\ ex'[v] = f)
      BY <1>4, <1>6, <2>3, <3>1 DEF FirmExec, StandsStill
    <3> QED  BY <2>3, <3>1, <3>2 DEF FirmExec
  <2> QED  BY <1>3, <1>6, <2>1, <2>2, <2>3, AccountedStays, SoarFacts
<1> QED  BY <1>3, <1>6, <1>7, <1>8, SoarStep

\* The block is removed, or adrift: the row that led to it may be closed.
LEMMA AbortUnblockKeeps ==
  ASSUME SoarInv, NEW w \in Workers, AbortUnblock(w)
  PROVE  SoarInv'
<1>1. /\ at[w] = "abort" /\ Goto(w, "abortWrite")
      /\ UNCHANGED <<dbVars, ex, act, cur, todo, done, runs>>
  BY DEF AbortUnblock
<1>2. PICK t \in todo[w] :
        /\ held' \in {held, held \ {Hold("block_ip", t)}}
        /\ adrift' \in {adrift, adrift \cup {Hold("block_ip", t)}}
        /\ Hold("block_ip", t) \notin held' \ adrift'
  BY DEF AbortUnblock, RemoveHold, Adrift
<1> DEFINE hold == Hold("block_ip", t)
<1>3. hold \in Holds /\ hold.type = "block_ip" /\ hold.target = t /\ t # None
  <2>1. t \in Targets  BY <1>2, SoarFacts DEF WorkerTypes
  <2> QED  BY <2>1, SoarAssumption DEF Holds, Hold, HoldTypes
<1>4. /\ held' \subseteq held /\ adrift \subseteq adrift' /\ adrift' \subseteq adrift \cup {hold}
      /\ hold \notin held' \ adrift'
  BY <1>2
<1> HIDE DEF hold
<1>5. held' \subseteq Holds /\ adrift' \subseteq Holds
  BY <1>3, <1>4, SoarFacts DEF RowTypes
<1>6. /\ RowTypes' /\ RowsGrow /\ ResolvedWithEvidence' /\ UNCHANGED <<execs, actions>>
      /\ \A f \in DOMAIN execs' : RowOK(f)'
  BY <1>1, <1>4, <1>5, RowsLeft DEF dbVars
<1>7. /\ at'[w] = "abortWrite" /\ WorkerTypes' /\ \A v \in Workers \ {w} : StandsStill(v)
      /\ ex'[w] = ex[w]
  BY <1>1, GotoDone, SoarFacts DEF WorkerTypes, StandsStill, Awaits
<1>8. WorkerOK(w)'
  <2>1. RowsThere(w)'  BY <1>1, <1>6, <1>7, SoarFacts DEF RowsThere
  <2>2. RunKnows(w)'  BY <1>7 DEF RunKnows
  <2>3. WaitingIsLeft(w)'  BY <1>7 DEF WaitingIsLeft, RunAwaits
  <2> QED  BY <2>1, <2>2, <2>3 DEF WorkerOK
<1>9. ASSUME NEW h \in held' \ adrift'  PROVE Accounted(h)'
  <2>1. h \in held \ adrift /\ h # hold /\ h.target # None /\ h \in Holds
    BY <1>4, SoarFacts, SoarAssumption DEF RowTypes
  <2>2. h \notin Unrecorded(w)  BY <1>1 DEF Unrecorded
  <2>3. \A k \in DOMAIN actions : FirmAction(h, k) => FirmAction(h, k)'
    BY <1>6, <1>7, ActionsStayFirm
  <2>4. ASSUME NEW f \in DOMAIN execs, FirmExec(h, f)  PROVE FirmExec(h, f)'
    <3>1. f # ex[w]
      <4> SUFFICES ASSUME f = ex[w]  PROVE FALSE  OBVIOUS
      <4>1. Run(w).status = "PENDING" /\ Run(w).ip = h.target /\ h.type = "block_ip"
        BY <2>4 DEF FirmExec, Run
      <4>2. todo[w] = {h.target}  BY <1>1, <2>1, <4>1, SoarFacts DEF WaitingIsLeft
      <4>3. h = hold  BY <1>2, <2>1, <4>1, <4>2 DEF hold, Holds, Hold
      <4> QED  BY <2>1, <4>3
    <3>2. \A v \in Workers : ~(at'[v] = "abortWrite" /\ ex'[v] = f)
      BY <1>7, <2>4, <3>1 DEF FirmExec, StandsStill
    <3> QED  BY <1>6, <2>4, <3>2 DEF FirmExec
  <2> QED  BY <1>6, <1>7, <2>1, <2>2, <2>3, <2>4, AccountedStays, SoarFacts
<1> QED  BY <1>6, <1>7, <1>8, <1>9, SoarStep

LEMMA AbortWriteKeeps ==
  ASSUME SoarInv, NEW w \in Workers, AbortWrite(w)
  PROVE  SoarInv'
<1> DEFINE e == ex[w]
<1>1. /\ at[w] = "abortWrite" /\ Idle(w) /\ UNCHANGED <<incident, actions, held, runs, adrift>>
      /\ execs' = execs \/ execs' = [execs EXCEPT ![e].status = "ABORTED"]
  BY DEF AbortWrite, SetStatus
<1>2. e \in DOMAIN execs /\ execs[e] \in Execution /\ RowOK(e)
  BY <1>1, SoarFacts DEF RowsThere
<1> DEFINE row == [execs[e] EXCEPT !.status = "ABORTED"]
<1>3. /\ row \in Execution /\ row.status = "ABORTED" /\ row.blocked = execs[e].blocked
      /\ row.incident = execs[e].incident /\ row.playbook = execs[e].playbook
      /\ row.mode = execs[e].mode
  BY <1>2 DEF Execution
<1>4. execs' = execs \/ execs' = [execs EXCEPT ![e] = row]  BY <1>1, <1>2
<1> HIDE DEF row
<1>5. held' \subseteq Holds /\ adrift' \subseteq Holds /\ adrift \subseteq adrift'
  BY <1>1, SoarFacts DEF RowTypes
<1>6. /\ RowTypes' /\ RowsGrow /\ ResolvedWithEvidence'
      /\ \A f \in DOMAIN execs' : RowOK(f)'
      /\ \A f \in DOMAIN execs \ {e} : execs'[f] = execs[f]
  <2>1. CASE execs' = execs  BY <1>1, <1>5, <2>1, RowsLeft DEF dbVars
  <2>2. CASE execs' = [execs EXCEPT ![e] = row]
    <3>1. row.playbook \in Recorded
            => \A t \in row.blocked : Covered(row.incident, row.playbook, t)
      BY <1>2, <1>3 DEF RowOK
    <3> HIDE DEF e
    <3> QED  BY <1>1, <1>2, <1>3, <2>2, <3>1, ExecSettled
  <2> QED  BY <1>4, <2>1, <2>2
<1>7. /\ at'[w] = "idle" /\ WorkerTypes' /\ WorkerOK(w)'
      /\ \A v \in Workers \ {w} : StandsStill(v)
  BY <1>1, IdleDone, SoarFacts
<1>8. ASSUME NEW h \in held' \ adrift'  PROVE Accounted(h)'
  <2>1. h \in held \ adrift /\ h \notin Unrecorded(w)  BY <1>1 DEF Unrecorded
  <2>2. \A k \in DOMAIN actions : FirmAction(h, k) => FirmAction(h, k)'
    BY <1>1, <1>6, <1>7, ActionsStayFirm
  <2>3. ASSUME NEW f \in DOMAIN execs, FirmExec(h, f)  PROVE FirmExec(h, f)'
    <3>1. execs'[f] = execs[f]  BY <1>1, <1>6, <2>3 DEF FirmExec
    <3>2. \A v \in Workers : ~(at'[v] = "abortWrite" /\ ex'[v] = f)
      BY <1>7, <2>3 DEF FirmExec, StandsStill
    <3> QED  BY <2>3, <3>1, <3>2 DEF FirmExec
  <2> QED  BY <1>6, <1>7, <2>1, <2>2, <2>3, AccountedStays, SoarFacts
<1> QED  BY <1>6, <1>7, <1>8, SoarStep

LEMMA UndoActionKeeps ==
  ASSUME SoarInv, NEW w \in Workers, NEW k \in DOMAIN actions, UndoAction(w, k)
  PROVE  SoarInv'
<1>1. /\ at[w] = "idle" /\ act' = [act EXCEPT ![w] = k] /\ Goto(w, "undo")
      /\ UNCHANGED <<dbVars, held, ex, cur, todo, done, runs, adrift>>
  BY DEF UndoAction
<1>2. held' \subseteq Holds /\ adrift' \subseteq Holds /\ adrift \subseteq adrift'
  BY <1>1, SoarFacts DEF RowTypes
<1>3. /\ RowTypes' /\ RowsGrow /\ ResolvedWithEvidence' /\ UNCHANGED <<execs, actions>>
      /\ \A f \in DOMAIN execs' : RowOK(f)'
  BY <1>1, <1>2, RowsLeft DEF dbVars
<1>4. k \in Nat  BY SoarFacts DEF RowTypes
<1>5. /\ at'[w] = "undo" /\ act'[w] = k /\ WorkerTypes'
      /\ \A v \in Workers \ {w} : StandsStill(v)
  BY <1>1, <1>4, GotoDone, SoarFacts DEF WorkerTypes, StandsStill, Awaits
<1>6. WorkerOK(w)'
  BY <1>3, <1>5 DEF WorkerOK, RowsThere, RunKnows, WaitingIsLeft, RunAwaits
<1>7. ASSUME NEW h \in held' \ adrift'  PROVE Accounted(h)'
  <2>1. h \in held \ adrift /\ h \notin Unrecorded(w)  BY <1>1 DEF Unrecorded
  <2> QED  BY <1>3, <1>5, <2>1, HoldStays
<1> QED  BY <1>3, <1>5, <1>6, <1>7, SoarStep

\* The hold is removed, or adrift, before its action is closed.
LEMMA UndoReverseKeeps ==
  ASSUME SoarInv, NEW w \in Workers, UndoReverse(w)
  PROVE  SoarInv'
<1> DEFINE k == actions[act[w]]
           hold == Hold(k.type, k.target)
<1>1. at[w] = "undo" /\ UNCHANGED <<dbVars, runs>>
  BY DEF UndoReverse
<1>2. PICK a \in Answers(TRUE) :
        /\ RemoveHold(k.type, k.target, a)
        /\ Adrift(IF a.effect \/ ~a.success THEN {} ELSE {hold})
        /\ IF a.success THEN Goto(w, "undoWrite") /\ UNCHANGED <<ex, act, cur, todo, done>>
           ELSE Idle(w)
  BY DEF UndoReverse
<1>3. /\ held' \subseteq held /\ adrift \subseteq adrift' /\ adrift' \subseteq adrift \cup {hold}
      /\ (a.success => hold \notin held' \ adrift')
  BY <1>2 DEF RemoveHold, Adrift
<1>4. act[w] \in DOMAIN actions /\ k \in Action
  BY <1>1, SoarFacts DEF RowsThere
<1>5. hold \in Holds /\ hold.type = k.type /\ hold.target = k.target
  BY <1>4 DEF Action, Holds, Hold, HoldTypes
<1> HIDE DEF hold
<1>6. held' \subseteq Holds /\ adrift' \subseteq Holds
  BY <1>3, <1>5, SoarFacts DEF RowTypes
<1>7. /\ RowTypes' /\ RowsGrow /\ ResolvedWithEvidence' /\ UNCHANGED <<execs, actions>>
      /\ \A f \in DOMAIN execs' : RowOK(f)'
  BY <1>1, <1>3, <1>6, RowsLeft DEF dbVars
<1>8. CASE ~a.success
  <2>1. Idle(w)  BY <1>2, <1>8
  <2>2. /\ at'[w] = "idle" /\ WorkerTypes' /\ WorkerOK(w)'
        /\ \A v \in Workers \ {w} : StandsStill(v)
    BY <2>1, IdleDone, SoarFacts
  <2>3. ASSUME NEW h \in held' \ adrift'  PROVE Accounted(h)'
    <3>1. h \in held \ adrift /\ h \notin Unrecorded(w)  BY <1>1, <1>3 DEF Unrecorded
    <3> QED  BY <1>7, <2>2, <3>1, HoldStays
  <2> QED  BY <1>7, <2>2, <2>3, SoarStep
<1>9. CASE a.success
  <2>1. Goto(w, "undoWrite") /\ UNCHANGED <<ex, act, cur, todo, done>>  BY <1>2, <1>9
  <2>2. /\ at'[w] = "undoWrite" /\ act'[w] = act[w] /\ WorkerTypes'
        /\ \A v \in Workers \ {w} : StandsStill(v)
    BY <2>1, GotoDone, SoarFacts DEF WorkerTypes, StandsStill, Awaits
  <2>3. WorkerOK(w)'
    BY <1>4, <1>7, <2>2 DEF WorkerOK, RowsThere, RunKnows, WaitingIsLeft, RunAwaits
  <2>4. ASSUME NEW h \in held' \ adrift'  PROVE Accounted(h)'
    <3>1. h \in held \ adrift /\ h # hold /\ h \notin Unrecorded(w) /\ h \in Holds
      BY <1>1, <1>3, <1>9, SoarFacts DEF Unrecorded, RowTypes
    <3>2. ASSUME NEW j \in DOMAIN actions, FirmAction(h, j)  PROVE FirmAction(h, j)'
      <4>1. j # act[w]  BY <3>1, <3>2 DEF FirmAction, hold, Hold, Holds
      <4>2. \A v \in Workers : ~(at'[v] = "undoWrite" /\ act'[v] = j)
        BY <2>2, <3>2, <4>1 DEF FirmAction, StandsStill
      <4> QED  BY <1>7, <3>2, <4>2 DEF FirmAction
    <3>3. \A e \in DOMAIN execs : FirmExec(h, e) => FirmExec(h, e)'
      BY <1>7, <2>2, <3>1, ExecsStayFirm, SoarFacts
    <3> QED  BY <1>7, <2>2, <3>1, <3>2, <3>3, AccountedStays, SoarFacts
  <2> QED  BY <1>7, <2>2, <2>3, <2>4, SoarStep
<1> QED  BY <1>8, <1>9

LEMMA UndoWriteKeeps ==
  ASSUME SoarInv, NEW w \in Workers, UndoWrite(w)
  PROVE  SoarInv'
<1> DEFINE k == act[w]
<1>1. /\ at[w] = "undoWrite" /\ Idle(w) /\ UNCHANGED <<incident, execs, held, runs, adrift>>
      /\ actions' = actions \/ actions' = [actions EXCEPT ![k].status = "REVERTED"]
  BY DEF UndoWrite
<1>2. k \in DOMAIN actions /\ actions[k] \in Action  BY <1>1, SoarFacts DEF RowsThere
<1> DEFINE row == [actions[k] EXCEPT !.status = "REVERTED"]
<1>3. /\ row \in Action /\ row.incident = actions[k].incident /\ row.type = actions[k].type
      /\ row.target = actions[k].target
  BY <1>2 DEF Action
<1>4. actions' = actions \/ actions' = [actions EXCEPT ![k] = row]  BY <1>1, <1>2
<1> HIDE DEF row
<1>5. /\ actions' \in Seq(Action) /\ DOMAIN actions' = DOMAIN actions
      /\ actions' = actions \/ actions'[k] = row
      /\ \A j \in DOMAIN actions \ {k} : actions'[j] = actions[j]
  <2>1. CASE actions' = actions  BY <2>1, SoarFacts DEF RowTypes
  <2>2. CASE actions' = [actions EXCEPT ![k] = row]
    BY <1>2, <1>3, <2>2, SeqUpdate, SoarFacts DEF RowTypes
  <2> QED  BY <1>4, <2>1, <2>2
<1>6. RowTypes'  BY <1>1, <1>5, SoarFacts DEF RowTypes
<1>7. RowsGrow  BY <1>1, <1>2, <1>3, <1>5 DEF RowsGrow
<1>8. ResolvedWithEvidence'  BY <1>1, <1>7, ResolvedStays, SoarFacts
<1>9. \A e \in DOMAIN execs' : RowOK(e)'  BY <1>1, <1>7, RowStays, SoarFacts
<1>10. /\ at'[w] = "idle" /\ WorkerTypes' /\ WorkerOK(w)'
       /\ \A v \in Workers \ {w} : StandsStill(v)
  BY <1>1, IdleDone, SoarFacts
<1>11. ASSUME NEW h \in held' \ adrift'  PROVE Accounted(h)'
  <2>1. h \in held \ adrift /\ h \notin Unrecorded(w) /\ h.target \in Targets
    BY <1>1, SoarFacts DEF Unrecorded
  <2>2. ASSUME NEW j \in DOMAIN actions, FirmAction(h, j)  PROVE FirmAction(h, j)'
    <3>1. actions'[j] = actions[j]  BY <1>1, <1>5, <2>2 DEF FirmAction
    <3>2. \A v \in Workers : ~(at'[v] = "undoWrite" /\ act'[v] = j)
      BY <1>10, <2>2 DEF FirmAction, StandsStill
    <3> QED  BY <2>2, <3>1, <3>2 DEF FirmAction
  <2>3. \A e \in DOMAIN execs : FirmExec(h, e) => FirmExec(h, e)'
    BY <1>1, <1>7, <1>10, <2>1, ExecsStayFirm
  <2> QED  BY <1>7, <1>10, <2>1, <2>2, <2>3, AccountedStays, SoarFacts
<1> QED  BY <1>6, <1>7, <1>8, <1>9, <1>10, <1>11, SoarStep

\* No row and no worker moves: what is held now was held, or is adrift.
LEMMA FirewallMoves ==
  ASSUME SoarInv, UNCHANGED <<dbVars, at, ex, act, cur, todo, done>>,
         adrift \subseteq adrift', adrift' \subseteq Holds, held' \subseteq Holds,
         held' \ adrift' \subseteq held \ adrift
  PROVE  SoarInv'
<1>1. /\ RowTypes' /\ RowsGrow /\ ResolvedWithEvidence' /\ UNCHANGED <<execs, actions>>
      /\ \A f \in DOMAIN execs' : RowOK(f)'
  BY RowsLeft DEF dbVars
<1>2. WorkerTypes' /\ \A v \in Workers : StandsStill(v)
  BY SoarFacts DEF WorkerTypes, StandsStill
<1>3. RowTypes' /\ WorkerTypes'  BY <1>1, <1>2
<1>4. \A v \in Workers : WorkerOK(v)'  BY <1>1, <1>2, SoarFacts, OthersKnow
<1>5. ASSUME NEW h \in held' \ adrift'  PROVE Accounted(h)'
  <2>1. Accounted(h)  BY SoarFacts
  <2>2. \A v \in Workers : Unrecorded(v)' = Unrecorded(v)
    BY <1>1, <1>2, OthersUnrecorded, SoarFacts
  <2>3. \A k \in DOMAIN actions : FirmAction(h, k) => FirmAction(h, k)'
    BY <1>1, <1>2 DEF FirmAction, StandsStill
  <2>4. \A e \in DOMAIN execs : FirmExec(h, e) => FirmExec(h, e)'
    BY <1>1, <1>2 DEF FirmExec, StandsStill
  <2> QED  BY <1>1, <2>1, <2>2, <2>3, <2>4 DEF Accounted
<1> QED  BY <1>1, <1>3, <1>4, <1>5 DEF SoarInv

LEMMA DirectCallKeeps ==
  ASSUME SoarInv, NEW op \in {"block", "temporary", "unblock"}, NEW t \in Targets,
         DirectCall(op, t)
  PROVE  SoarInv'
<1> DEFINE hold == Hold("block_ip", t)
<1>1. hold \in Holds  BY DEF Holds, Hold, HoldTypes
<1>2. UNCHANGED <<dbVars, at, ex, act, cur, todo, done>>  BY DEF DirectCall
<1>3. \/ held' \subseteq held \cup {hold} /\ adrift' = adrift \cup {hold}
      \/ held' \subseteq held /\ adrift' = adrift
  BY DEF DirectCall, AddHold, RemoveHold, Adrift
<1> HIDE DEF hold
<1>4. /\ adrift \subseteq adrift' /\ adrift' \subseteq Holds /\ held' \subseteq Holds
      /\ held' \ adrift' \subseteq held \ adrift
  BY <1>1, <1>3, SoarFacts DEF RowTypes
<1> QED  BY <1>2, <1>4, FirewallMoves

\* What the runs under way had no row for goes adrift.
LEMMA RestartKeeps == SoarInv /\ Restart => SoarInv'
<1> SUFFICES ASSUME SoarInv, Restart  PROVE SoarInv'  OBVIOUS
<1>1. /\ at' = [w \in Workers |-> "idle"]
      /\ ex' = [w \in Workers |-> 0] /\ act' = [w \in Workers |-> 0]
      /\ cur' = [w \in Workers |-> None]
      /\ todo' = [w \in Workers |-> {}] /\ done' = [w \in Workers |-> {}]
      /\ adrift' = adrift \cup UNION {Unrecorded(w) : w \in Workers}
      /\ UNCHANGED <<dbVars, held, runs>>
  BY DEF Restart, Adrift
<1>2. \A w \in Workers : Unrecorded(w) \subseteq Holds
  <2> SUFFICES ASSUME NEW w \in Workers, NEW h \in Unrecorded(w)  PROVE h \in Holds
    OBVIOUS
  <2>1. todo[w] \subseteq Targets /\ done[w] \subseteq Targets  BY SoarFacts DEF WorkerTypes
  <2>2. \A pb : HoldType(pb) \in HoldTypes  BY DEF HoldType, HoldTypes
  <2>3. CASE at[w] = "cleanup"
    BY <2>3, SoarFacts DEF Unrecorded, RowsThere, Hold, Holds, HoldTypes
  <2>4. CASE at[w] = "run"  BY <2>1, <2>2, <2>4 DEF Unrecorded, Hold, Holds
  <2>5. CASE at[w] = "record"  BY <2>1, <2>2, <2>5 DEF Unrecorded, Hold, Holds
  <2> QED  BY <2>3, <2>4, <2>5 DEF Unrecorded
<1>3. held' \subseteq Holds /\ adrift' \subseteq Holds /\ adrift \subseteq adrift'
  BY <1>1, <1>2, SoarFacts DEF RowTypes
<1>4. /\ RowTypes' /\ RowsGrow /\ ResolvedWithEvidence' /\ UNCHANGED <<execs, actions>>
      /\ \A f \in DOMAIN execs' : RowOK(f)'
  BY <1>1, <1>3, RowsLeft DEF dbVars
<1>5. WorkerTypes' /\ \A v \in Workers : at'[v] = "idle"
  BY <1>1 DEF WorkerTypes, Awaits
<1>7. \A v \in Workers : WorkerOK(v)'
  BY <1>5 DEF WorkerOK, RowsThere, RunKnows, WaitingIsLeft, RunAwaits
<1>8. ASSUME NEW h \in held' \ adrift'  PROVE Accounted(h)'
  <2>1. h \in held \ adrift /\ \A w \in Workers : h \notin Unrecorded(w)  BY <1>1
  <2>2. Accounted(h)  BY <2>1, SoarFacts
  <2>3. \A k \in DOMAIN actions : FirmAction(h, k) => FirmAction(h, k)'
    BY <1>4, <1>5 DEF FirmAction
  <2>4. \A e \in DOMAIN execs : FirmExec(h, e) => FirmExec(h, e)'
    BY <1>4, <1>5 DEF FirmExec
  <2> QED  BY <1>4, <2>1, <2>2, <2>3, <2>4 DEF Accounted
<1> QED  BY <1>4, <1>5, <1>7, <1>8 DEF SoarInv
-----------------------------------------------------------------------------
LEMMA SoarInit == Init => SoarInv
<1> SUFFICES ASSUME Init  PROVE SoarInv  OBVIOUS
<1>1. /\ execs = <<>> /\ actions = <<>> /\ DOMAIN execs = {} /\ DOMAIN actions = {}
      /\ held = {} /\ adrift = {} /\ \A w \in Workers : at[w] = "idle"
      /\ \A i \in Incidents : incident[i] = "OPEN"
  BY DEF Init
<1>2. RowTypes /\ WorkerTypes  BY DEF Init, RowTypes, WorkerTypes, Awaits
<1>3. \A w \in Workers : WorkerOK(w)
  BY <1>1 DEF WorkerOK, RowsThere, RunKnows, WaitingIsLeft, RunAwaits
<1>4. ResolvedWithEvidence  BY <1>1 DEF ResolvedWithEvidence
<1> QED  BY <1>1, <1>2, <1>3, <1>4 DEF SoarInv

LEMMA SoarNext == SoarInv /\ [Next]_vars => SoarInv'
<1> SUFFICES ASSUME SoarInv, [Next]_vars  PROVE SoarInv'  OBVIOUS
<1>1. ASSUME NEW w \in Workers, Request(w)  PROVE SoarInv'
  <2>1. ASSUME NEW i \in Incidents, NEW pb \in Playbooks, NEW m \in Modes,
               NEW t \in Params \cup {None}, ExecutePlaybook(w, i, pb, m, t)
        PROVE  SoarInv'
    BY <2>1, ExecutePlaybookKeeps
  <2>2. ASSUME NEW e \in DOMAIN execs, ApproveExecution(w, e) \/ AbortPlaybook(w, e)
        PROVE  SoarInv'
    BY <2>2, ApproveKeeps, AbortPlaybookKeeps
  <2>3. ASSUME NEW k \in DOMAIN actions, UndoAction(w, k)  PROVE SoarInv'
    BY <2>3, UndoActionKeeps
  <2> QED  BY <1>1, <2>1, <2>2, <2>3 DEF Request
<1>2. ASSUME NEW w \in Workers, Continue(w)  PROVE SoarInv'
  <2>1. CASE BlockNext(w) \/ CreateCleanup(w) \/ RemoveRule(w) \/ EndLoop(w)
    BY <2>1, BlockNextKeeps, CreateCleanupKeeps, RemoveRuleKeeps, EndLoopKeeps
  <2>2. CASE RecordAction(w) \/ AutoResolve(w) \/ FinishRun(w) \/ FailRun(w)
    BY <2>2, RecordActionKeeps, AutoResolveKeeps, FinishRunKeeps, FailRunKeeps
  <2>3. CASE AbortUnblock(w) \/ AbortWrite(w) \/ UndoReverse(w) \/ UndoWrite(w)
    BY <2>3, AbortUnblockKeeps, AbortWriteKeeps, UndoReverseKeeps, UndoWriteKeeps
  <2> QED  BY <1>2, <2>1, <2>2, <2>3 DEF Continue
<1>3. ASSUME NEW d \in Direct, DirectCall(d[1], d[2])  PROVE SoarInv'
  <2>1. d[1] \in {"block", "temporary", "unblock"} /\ d[2] \in Targets  BY SoarAssumption
  <2> QED  BY <1>3, <2>1, DirectCallKeeps
<1>4. CASE Restart  BY <1>4, RestartKeeps
<1>5. CASE UNCHANGED vars
  <2>1. UNCHANGED <<dbVars, at, ex, act, cur, todo, done, held, adrift>>
    BY <1>5 DEF vars, dbVars
  <2> QED  BY <2>1, FirewallMoves, SoarFacts DEF RowTypes
<1> QED  BY <1>1, <1>2, <1>3, <1>4, <1>5 DEF Next

LEMMA SoarAlways == Spec => []SoarInv
  BY SoarInit, SoarNext, PTL DEF Spec

-----------------------------------------------------------------------------
(* AUTO executions and their runs. *)

Runs(w, e) == at[w] \in RunAwaits /\ ex[w] = e

\* An AUTO execution is run by one worker, once, and has no outcome meanwhile.
PendingInv ==
    /\ stuck \subseteq DOMAIN execs
    /\ \A e \in DOMAIN execs, w \in Workers :
          execs[e].mode = "AUTO" /\ Runs(w, e)
              => /\ e \notin stuck /\ execs[e].status \in {"PENDING", "ABORTED"}
                 /\ \A v \in Workers : Runs(v, e) => v = w
    /\ PendingIsExplained

\* A row keeps its outcome, or is aborted.
RowKept(e) == /\ e \in DOMAIN execs' /\ execs'[e].mode = execs[e].mode
              /\ execs'[e].playbook = execs[e].playbook /\ execs'[e].ip = execs[e].ip
              /\ execs'[e].status \in {execs[e].status, "ABORTED"}

\* A row that is created waits for its approval or to remove a block.
RowCreated(e) == execs'[e].mode = "AUTO" =>
                    /\ execs'[e].playbook = "remove_rule" /\ execs'[e].ip # None
                    /\ execs'[e].status = "PENDING"

LEMMA SameRuns ==
  ASSUME SoarInv, PendingInv, stuck' = stuck,
         \A w \in Workers : /\ at'[w] \in RunAwaits <=> at[w] \in RunAwaits
                            /\ at[w] \in RunAwaits => ex'[w] = ex[w],
         \A e \in DOMAIN execs : RowKept(e),
         \A e \in DOMAIN execs' \ DOMAIN execs : RowCreated(e)
  PROVE  PendingInv'
<1>1. \A w \in Workers, e \in DOMAIN execs' : Runs(w, e)' <=> Runs(w, e)
  BY DEF Runs
<1>2. \A w \in Workers : \A e : Runs(w, e) => e \in DOMAIN execs
  BY SoarFacts DEF Runs, RowsThere
<1>3. stuck' \subseteq DOMAIN execs'  BY DEF PendingInv, RowKept
<1>4. ASSUME NEW e \in DOMAIN execs', NEW w \in Workers,
             execs'[e].mode = "AUTO", Runs(w, e)'
      PROVE  /\ e \notin stuck' /\ execs'[e].status \in {"PENDING", "ABORTED"}
             /\ \A v \in Workers : Runs(v, e)' => v = w
  BY <1>1, <1>2, <1>4 DEF PendingInv, RowKept
<1>5. ASSUME NEW e \in DOMAIN execs', execs'[e].mode = "AUTO"
      PROVE  /\ execs'[e].status = "PENDING" =>
                   \/ execs'[e].playbook = "remove_rule" /\ execs'[e].ip # None
                   \/ e \in stuck'
                   \/ \E w \in Workers : Runs(w, e)'
             /\ e \in stuck' => execs'[e].status \in {"PENDING", "ABORTED"}
  <2>1. CASE e \in DOMAIN execs
    <3>1. RowKept(e)  BY <2>1
    <3>2. /\ execs[e].status = "PENDING" =>
                \/ execs[e].playbook = "remove_rule" /\ execs[e].ip # None
                \/ e \in stuck
                \/ \E w \in Workers : Runs(w, e)
          /\ e \in stuck => execs[e].status \in {"PENDING", "ABORTED"}
      BY <1>5, <2>1, <3>1 DEF PendingInv, PendingIsExplained, RowKept, Runs
    <3> QED  BY <1>1, <3>1, <3>2 DEF RowKept
  <2>2. CASE e \notin DOMAIN execs
    BY <1>5, <2>2 DEF PendingInv, RowCreated
  <2> QED  BY <2>1, <2>2
<1>6. PendingIsExplained'  BY <1>5 DEF PendingIsExplained, Runs
<1> QED  BY <1>3, <1>4, <1>6 DEF PendingInv

\* A run of a new execution, or of one that an analyst approves.
LEMMA RunStarts ==
  ASSUME SoarInv, PendingInv, stuck' = stuck, NEW w \in Workers, at[w] = "idle",
         NEW e \in DOMAIN execs', at'[w] = "run", ex'[w] = e,
         \A v \in Workers \ {w} : StandsStill(v),
         \A f \in DOMAIN execs : f \in DOMAIN execs' /\ execs'[f] = execs[f],
         DOMAIN execs' \subseteq DOMAIN execs \cup {e},
         e \notin DOMAIN execs => execs'[e].status = "PENDING",
         e \in DOMAIN execs => execs[e].mode # "AUTO"
  PROVE  PendingInv'
<1>1. \A v \in Workers : \A f : Runs(v, f)' <=> (Runs(v, f) \/ (v = w /\ f = e))
  BY DEF Runs, StandsStill, RunAwaits
<1>2. \A v \in Workers : \A f : Runs(v, f) => f \in DOMAIN execs
  BY SoarFacts DEF Runs, RowsThere
<1>3. stuck' \subseteq DOMAIN execs'  BY DEF PendingInv
<1>4. ASSUME NEW f \in DOMAIN execs', NEW v \in Workers,
             execs'[f].mode = "AUTO", Runs(v, f)'
      PROVE  /\ f \notin stuck' /\ execs'[f].status \in {"PENDING", "ABORTED"}
             /\ \A u \in Workers : Runs(u, f)' => u = v
  <2>1. CASE f \in DOMAIN execs  BY <1>1, <1>4, <2>1 DEF PendingInv
  <2>2. CASE f \notin DOMAIN execs  BY <1>1, <1>2, <1>4, <2>2 DEF PendingInv
  <2> QED  BY <2>1, <2>2
<1>5. ASSUME NEW f \in DOMAIN execs', execs'[f].mode = "AUTO"
      PROVE  /\ execs'[f].status = "PENDING" =>
                   \/ execs'[f].playbook = "remove_rule" /\ execs'[f].ip # None
                   \/ f \in stuck'
                   \/ \E v \in Workers : Runs(v, f)'
             /\ f \in stuck' => execs'[f].status \in {"PENDING", "ABORTED"}
  <2>1. CASE f \in DOMAIN execs
    <3>1. execs[f].status = "PENDING" =>
                \/ execs[f].playbook = "remove_rule" /\ execs[f].ip # None
                \/ f \in stuck
                \/ \E v \in Workers : Runs(v, f)
      BY <1>5, <2>1 DEF PendingInv, PendingIsExplained, Runs
    <3>2. f \in stuck => execs[f].status \in {"PENDING", "ABORTED"}
      BY <1>5, <2>1 DEF PendingInv, PendingIsExplained
    <3> QED  BY <1>1, <2>1, <3>1, <3>2
  <2>2. CASE f \notin DOMAIN execs  BY <1>1, <2>2 DEF PendingInv
  <2> QED  BY <2>1, <2>2
<1>6. PendingIsExplained'  BY <1>5 DEF PendingIsExplained, Runs
<1> QED  BY <1>3, <1>4, <1>6 DEF PendingInv

\* A run ends with an outcome, or its execution is stuck from now on.
LEMMA RunEnds ==
  ASSUME SoarInv, PendingInv, NEW w \in Workers, at[w] \in RunAwaits, at'[w] = "idle",
         \A v \in Workers \ {w} : StandsStill(v),
         DOMAIN execs' = DOMAIN execs,
         \A f \in DOMAIN execs \ {ex[w]} : execs'[f] = execs[f],
         execs'[ex[w]].mode = execs[ex[w]].mode,
         \/ stuck' = stuck /\ execs'[ex[w]].status # "PENDING"
         \/ stuck' = stuck \cup {ex[w]} /\ execs'[ex[w]] = execs[ex[w]]
  PROVE  PendingInv'
<1>1. \A v \in Workers : \A f : Runs(v, f)' <=> (Runs(v, f) /\ v # w)
  BY DEF Runs, StandsStill, RunAwaits
<1>2. ex[w] \in DOMAIN execs /\ Runs(w, ex[w])
  BY SoarFacts DEF Runs, RowsThere
<1>3. stuck' \subseteq DOMAIN execs'  BY <1>2 DEF PendingInv
<1>4. ASSUME NEW f \in DOMAIN execs', NEW v \in Workers,
             execs'[f].mode = "AUTO", Runs(v, f)'
      PROVE  /\ f \notin stuck' /\ execs'[f].status \in {"PENDING", "ABORTED"}
             /\ \A u \in Workers : Runs(u, f)' => u = v
  <2>1. f # ex[w]  BY <1>1, <1>2, <1>4 DEF PendingInv
  <2> QED  BY <1>1, <1>4, <2>1 DEF PendingInv
<1>5. ASSUME NEW f \in DOMAIN execs', execs'[f].mode = "AUTO"
      PROVE  /\ execs'[f].status = "PENDING" =>
                   \/ execs'[f].playbook = "remove_rule" /\ execs'[f].ip # None
                   \/ f \in stuck'
                   \/ \E v \in Workers : Runs(v, f)'
             /\ f \in stuck' => execs'[f].status \in {"PENDING", "ABORTED"}
  <2>1. CASE f = ex[w]  BY <1>2, <1>5, <2>1 DEF PendingInv
  <2>2. CASE f # ex[w]
    <3>1. execs[f].status = "PENDING" =>
                \/ execs[f].playbook = "remove_rule" /\ execs[f].ip # None
                \/ f \in stuck
                \/ \E v \in Workers : Runs(v, f)
      BY <1>5, <2>2 DEF PendingInv, PendingIsExplained, Runs
    <3>2. f \in stuck => execs[f].status \in {"PENDING", "ABORTED"}
      BY <1>5, <2>2 DEF PendingInv, PendingIsExplained
    <3>3. ~Runs(w, f)  BY <2>2 DEF Runs
    <3> QED  BY <1>1, <2>2, <3>1, <3>2, <3>3
  <2> QED  BY <2>1, <2>2
<1>6. PendingIsExplained'  BY <1>5 DEF PendingIsExplained, Runs
<1> QED  BY <1>3, <1>4, <1>6 DEF PendingInv

LEMMA RowsKept ==
  ASSUME execs' = execs
  PROVE  /\ \A e \in DOMAIN execs : RowKept(e)
         /\ \A e \in DOMAIN execs' \ DOMAIN execs : RowCreated(e)
  BY DEF RowKept

\* The steps in a run that neither start nor end it.
LEMMA RunContinues ==
  ASSUME SoarInv, PendingInv, NEW w \in Workers,
         \/ BlockNext(w) \/ CreateCleanup(w) \/ RemoveRule(w) \/ EndLoop(w)
         \/ RecordAction(w) \/ AutoResolve(w)
         \/ (FinishRun(w) /\ Goto(w, "fail") /\ UNCHANGED <<execs, ex>>)
  PROVE  PendingInv'
<1>1. /\ stuck' = stuck /\ ex' = ex /\ at[w] \in RunAwaits
      /\ at' = at \/ \E a \in RunAwaits : Goto(w, a)
  <2>1. CASE BlockNext(w)
    <3>1. at' = at \/ Goto(w, "cleanup")  BY <2>1 DEF BlockNext
    <3> QED  BY <2>1, <3>1 DEF BlockNext, RunAwaits
  <2>2. CASE CreateCleanup(w)  BY <2>2 DEF CreateCleanup, RunAwaits
  <2>3. CASE RemoveRule(w)
    <3>1. Goto(w, "finish") \/ Goto(w, "fail")  BY <2>3 DEF RemoveRule
    <3> QED  BY <2>3, <3>1 DEF RemoveRule, RunAwaits
  <2>4. CASE EndLoop(w)
    <3>1. Goto(w, "record") \/ Goto(w, "finish")  BY <2>4 DEF EndLoop
    <3> QED  BY <2>4, <3>1 DEF EndLoop, RunAwaits
  <2>5. CASE RecordAction(w)
    <3>1. Goto(w, "resolve") \/ Goto(w, "record")  BY <2>5 DEF RecordAction
    <3> QED  BY <2>5, <3>1 DEF RecordAction, RunAwaits
  <2>6. CASE AutoResolve(w)  BY <2>6 DEF AutoResolve, RunAwaits
  <2>7. CASE FinishRun(w) /\ Goto(w, "fail") /\ UNCHANGED <<execs, ex>>
    BY <2>7 DEF FinishRun, RunAwaits
  <2> QED  BY <2>1, <2>2, <2>3, <2>4, <2>5, <2>6, <2>7
<1>2. \A v \in Workers : /\ at'[v] \in RunAwaits <=> at[v] \in RunAwaits
                         /\ ex'[v] = ex[v]
  <2>1. CASE at' = at  BY <1>1, <2>1
  <2>2. ASSUME NEW a \in RunAwaits, Goto(w, a)
        PROVE  \A v \in Workers : at'[v] \in RunAwaits <=> at[v] \in RunAwaits
    <3>1. a \in Awaits  BY DEF Awaits
    <3> QED  BY <1>1, <2>2, <3>1, GotoDone, SoarFacts
  <2> QED  BY <1>1, <2>1, <2>2
<1>3. /\ \A e \in DOMAIN execs : RowKept(e)
      /\ \A e \in DOMAIN execs' \ DOMAIN execs : RowCreated(e)
  <2>1. CASE execs' = execs  BY <2>1, RowsKept
  <2>2. CASE CreateCleanup(w) /\ execs' # execs
    <3> DEFINE row == [incident |-> execs[ex[w]].incident, playbook |-> "remove_rule",
                       mode |-> "AUTO", status |-> "PENDING", ip |-> cur[w], blocked |-> {}]
    <3>1. execs' = Append(execs, row)  BY <2>2 DEF CreateCleanup
    <3>2. cur[w] \in Targets /\ execs[ex[w]].incident \in Incidents
      BY <2>2, SoarFacts DEF CreateCleanup, RowsThere, RunAwaits, Execution
    <3>3. /\ row \in Execution /\ row.playbook = "remove_rule" /\ row.ip # None
          /\ row.status = "PENDING"
      BY <3>2, SoarAssumption DEF Execution, AllPlaybooks
    <3> HIDE DEF row
    <3>4. /\ DOMAIN execs' = DOMAIN execs \cup {Len(execs) + 1}
          /\ \A e \in DOMAIN execs : execs'[e] = execs[e]
          /\ execs'[Len(execs) + 1] = row
      BY <3>1, <3>3, SeqAppend, SoarFacts DEF RowTypes
    <3> QED  BY <3>3, <3>4 DEF RowKept, RowCreated
  <2>3. CASE ~CreateCleanup(w)
    <3>1. execs' = execs
      BY <2>3 DEF BlockNext, RemoveRule, EndLoop, RecordAction, AutoResolve, dbVars
    <3> QED  BY <3>1, RowsKept
  <2> QED  BY <2>1, <2>2, <2>3
<1> QED  BY <1>1, <1>2, <1>3, SameRuns

\* Aborts and undos are no runs.
LEMMA OthersNoRuns ==
  ASSUME SoarInv, PendingInv, NEW w \in Workers,
         \/ \E e \in DOMAIN execs : AbortPlaybook(w, e)
         \/ \E k \in DOMAIN actions : UndoAction(w, k)
         \/ AbortUnblock(w) \/ AbortWrite(w) \/ UndoReverse(w) \/ UndoWrite(w)
  PROVE  PendingInv'
<1>1. /\ stuck' = stuck /\ at[w] \notin RunAwaits
      /\ \E a \in Awaits \ RunAwaits : Goto(w, a)
      /\ ex' = ex \/ \E e : ex' = [ex EXCEPT ![w] = e]
  <2>1. ASSUME NEW e \in DOMAIN execs, AbortPlaybook(w, e)  PROVE <1>1!:
    <3>1. Goto(w, "abort") \/ Goto(w, "abortWrite")  BY <2>1 DEF AbortPlaybook
    <3> QED  BY <2>1, <3>1 DEF AbortPlaybook, Awaits, RunAwaits
  <2>2. ASSUME NEW k \in DOMAIN actions, UndoAction(w, k)  PROVE <1>1!:
    BY <2>2 DEF UndoAction, Awaits, RunAwaits
  <2>3. CASE AbortUnblock(w)  BY <2>3 DEF AbortUnblock, Awaits, RunAwaits
  <2>4. CASE AbortWrite(w)  BY <2>4 DEF AbortWrite, Idle, Awaits, RunAwaits
  <2>5. CASE UndoReverse(w)
    <3>1. /\ Goto(w, "undoWrite") \/ Goto(w, "idle")
          /\ ex' = ex \/ ex' = [ex EXCEPT ![w] = 0]
      BY <2>5 DEF UndoReverse, Idle
    <3> QED  BY <2>5, <3>1 DEF UndoReverse, Awaits, RunAwaits
  <2>6. CASE UndoWrite(w)  BY <2>6 DEF UndoWrite, Idle, Awaits, RunAwaits
  <2> QED  BY <2>1, <2>2, <2>3, <2>4, <2>5, <2>6
<1>2. \A v \in Workers : /\ at'[v] \in RunAwaits <=> at[v] \in RunAwaits
                         /\ at[v] \in RunAwaits => ex'[v] = ex[v]
  <2>1. PICK a \in Awaits \ RunAwaits : Goto(w, a)  BY <1>1
  <2>2. at'[w] = a /\ \A v \in Workers \ {w} : at'[v] = at[v]
    BY <2>1, GotoDone, SoarFacts
  <2>3. \A v \in Workers \ {w} : ex'[v] = ex[v]  BY <1>1, SoarFacts DEF WorkerTypes
  <2> QED  BY <1>1, <2>2, <2>3
<1>3. /\ \A e \in DOMAIN execs : RowKept(e)
      /\ \A e \in DOMAIN execs' \ DOMAIN execs : RowCreated(e)
  <2>1. CASE execs' = execs  BY <2>1, RowsKept
  <2>2. CASE AbortWrite(w) /\ execs' # execs
    <3>1. execs' = [execs EXCEPT ![ex[w]].status = "ABORTED"]
      BY <2>2 DEF AbortWrite, SetStatus
    <3>2. DOMAIN execs' = DOMAIN execs  BY <3>1
    <3>3. ASSUME NEW e \in DOMAIN execs  PROVE RowKept(e)
      <4>1. execs[e] \in Execution  BY SoarFacts
      <4>2. CASE e # ex[w]  BY <3>1, <3>2, <4>2 DEF RowKept
      <4>3. CASE e = ex[w]
        <5>1. execs'[e] = [execs[e] EXCEPT !.status = "ABORTED"]  BY <3>1, <4>3
        <5> QED  BY <3>2, <4>1, <5>1 DEF RowKept, Execution
      <4> QED  BY <4>2, <4>3
    <3> QED  BY <3>2, <3>3
  <2>3. CASE ~AbortWrite(w)
    <3>1. execs' = execs
      BY <2>3 DEF AbortPlaybook, UndoAction, AbortUnblock, UndoReverse, UndoWrite, dbVars
    <3> QED  BY <3>1, RowsKept
  <2> QED  BY <2>1, <2>2, <2>3
<1> QED  BY <1>1, <1>2, <1>3, SameRuns

LEMMA ExecutePlaybookExplained ==
  ASSUME SoarInv, PendingInv, NEW w \in Workers, NEW i \in Incidents, NEW pb \in Playbooks,
         NEW mode \in Modes, NEW param \in Params \cup {None},
         ExecutePlaybook(w, i, pb, mode, param)
  PROVE  PendingInv'
<1> DEFINE row == [incident |-> i, playbook |-> pb, mode |-> mode, status |-> "PENDING",
                   ip |-> None, blocked |-> {}]
           e == Len(execs) + 1
<1>1. /\ at[w] = "idle" /\ execs' = Append(execs, row) /\ stuck' = stuck
      /\ IF mode = "AUTO" THEN StartRun(w, e, RunTargets(pb, i, param))
         ELSE UNCHANGED <<at, ex, act, cur, todo, done, runs>>
  BY DEF ExecutePlaybook
<1>2. row \in Execution /\ row.status = "PENDING" /\ row.mode = mode
  BY SoarAssumption DEF Execution
<1> HIDE DEF row
<1>3. /\ DOMAIN execs' = DOMAIN execs \cup {e} /\ e \notin DOMAIN execs /\ e \in Nat
      /\ \A f \in DOMAIN execs : execs'[f] = execs[f]
      /\ execs'[e] = row
  BY <1>1, <1>2, SeqAppend, SoarFacts DEF RowTypes
<1> HIDE DEF e
<1>4. CASE mode = "AUTO"
  <2>1. RunTargets(pb, i, param) \in SUBSET Targets
    BY TargetsOfRun, SoarAssumption
  <2>2. /\ at'[w] = "run" /\ ex'[w] = e
        /\ \A v \in Workers \ {w} : StandsStill(v)
    BY <1>1, <1>3, <1>4, <2>1, StartRunDone, SoarFacts
  <2> QED  BY <1>1, <1>2, <1>3, <2>2, RunStarts
<1>5. CASE mode # "AUTO"
  <2>1. UNCHANGED <<at, ex>>  BY <1>1, <1>5
  <2>2. \A f \in DOMAIN execs : RowKept(f)  BY <1>3 DEF RowKept
  <2>3. \A f \in DOMAIN execs' \ DOMAIN execs : RowCreated(f)
    BY <1>2, <1>3, <1>5 DEF RowCreated
  <2> QED  BY <1>1, <2>1, <2>2, <2>3, SameRuns
<1> QED  BY <1>4, <1>5

LEMMA ApproveExplained ==
  ASSUME SoarInv, PendingInv, NEW w \in Workers, NEW e \in DOMAIN execs,
         ApproveExecution(w, e)
  PROVE  PendingInv'
<1>1. /\ at[w] = "idle" /\ execs[e].mode = "CONFIRM" /\ execs' = execs /\ stuck' = stuck
      /\ StartRun(w, e, RunTargets(execs[e].playbook, execs[e].incident, None))
  BY DEF ApproveExecution, dbVars
<1>2. /\ e \in Nat /\ execs[e] \in Execution
      /\ RunTargets(execs[e].playbook, execs[e].incident, None) \in SUBSET Targets
  BY TargetsOfRun, SoarFacts DEF RowTypes, Execution
<1>3. /\ at'[w] = "run" /\ ex'[w] = e
      /\ \A v \in Workers \ {w} : StandsStill(v)
  BY <1>1, <1>2, StartRunDone, SoarFacts
<1> QED  BY <1>1, <1>3, RunStarts

LEMMA RunEndExplained ==
  ASSUME SoarInv, PendingInv, NEW w \in Workers, FinishRun(w) \/ FailRun(w)
  PROVE  PendingInv'
<1>1. at[w] \in RunAwaits  BY DEF FinishRun, FailRun, RunAwaits
<1>2. ex[w] \in DOMAIN execs /\ execs[ex[w]] \in Execution
  BY <1>1, SoarFacts DEF RowsThere
<1>3. CASE Goto(w, "fail")
  <2>1. ~Idle(w)  BY <1>3, GotoDone, SoarFacts DEF Idle, Awaits, RunAwaits
  <2>2. FinishRun(w) /\ UNCHANGED <<execs, ex>>  BY <2>1 DEF FinishRun, FailRun
  <2> QED  BY <1>3, <2>2, RunContinues
<1>4. CASE Idle(w)
  <2>1. at'[w] = "idle" /\ \A v \in Workers \ {w} : StandsStill(v)
    BY <1>4, IdleDone, SoarFacts
  <2>2. CASE execs' = execs /\ FailRun(w) /\ stuck' = stuck \cup {ex[w]}
    BY <1>1, <2>1, <2>2, RunEnds
  <2>3. ASSUME NEW s \in {"EXECUTED", "FAILED"}, NEW ip, NEW blocked, stuck' = stuck,
               execs' = [execs EXCEPT ![ex[w]].status = s, ![ex[w]].ip = ip,
                                      ![ex[w]].blocked = blocked]
        PROVE  PendingInv'
    <3>1. execs' = [execs EXCEPT ![ex[w]] =
                      [execs[ex[w]] EXCEPT !.status = s, !.ip = ip, !.blocked = blocked]]
      BY <1>2, <2>3
    <3> DEFINE row == [execs[ex[w]] EXCEPT !.status = s, !.ip = ip, !.blocked = blocked]
    <3>2. row.status = s /\ row.mode = execs[ex[w]].mode  BY <1>2 DEF Execution
    <3> HIDE DEF row
    <3>3. /\ DOMAIN execs' = DOMAIN execs /\ execs'[ex[w]] = row
          /\ \A f \in DOMAIN execs \ {ex[w]} : execs'[f] = execs[f]
      BY <1>2, <3>1 DEF row
    <3>4. execs'[ex[w]].status # "PENDING"  BY <2>3, <3>2, <3>3
    <3> QED  BY <1>1, <2>1, <2>3, <3>2, <3>3, <3>4, RunEnds
  <2>4. CASE FinishRun(w)
    <3>1. at' # [at EXCEPT ![w] = "fail"]
      BY <2>1, SoarFacts DEF WorkerTypes
    <3>2. /\ stuck' = stuck
          /\ \E ip, blocked :
                execs' = [execs EXCEPT ![ex[w]].status = "EXECUTED", ![ex[w]].ip = ip,
                                       ![ex[w]].blocked = blocked]
      BY <2>4, <3>1 DEF FinishRun, Goto
    <3> QED  BY <2>3, <3>2
  <2>5. CASE FailRun(w)
    BY <2>2, <2>3, <2>5 DEF FailRun
  <2> QED  BY <2>4, <2>5
<1> QED  BY <1>3, <1>4 DEF FinishRun, FailRun

LEMMA RestartExplained ==
  ASSUME SoarInv, PendingInv, Restart
  PROVE  PendingInv'
<1>1. /\ \A w \in Workers : at'[w] = "idle"
      /\ stuck' = stuck \cup {ex[w] : w \in {v \in Workers : at[v] \in RunAwaits}}
      /\ execs' = execs
  BY DEF Restart, dbVars
<1>2. \A w \in Workers : at[w] \in RunAwaits => ex[w] \in DOMAIN execs
  BY SoarFacts DEF RowsThere
<1>3. \A w \in Workers : \A e : ~Runs(w, e)'  BY <1>1 DEF Runs, RunAwaits
<1>4. \A e : e \in stuck' <=> e \in stuck \/ \E w \in Workers : Runs(w, e)
  BY <1>1 DEF Runs
<1>5. stuck' \subseteq DOMAIN execs'  BY <1>1, <1>2 DEF PendingInv
<1>6. PendingIsExplained'
  BY <1>1, <1>4 DEF PendingInv, PendingIsExplained, Runs
<1> QED  BY <1>3, <1>5, <1>6 DEF PendingInv

LEMMA PendingStep == SoarInv /\ PendingInv /\ [Next]_vars => PendingInv'
<1> SUFFICES ASSUME SoarInv, PendingInv, [Next]_vars  PROVE PendingInv'  OBVIOUS
<1>1. ASSUME NEW w \in Workers, Request(w)  PROVE PendingInv'
  <2>1. ASSUME NEW i \in Incidents, NEW pb \in Playbooks, NEW m \in Modes,
               NEW t \in Params \cup {None}, ExecutePlaybook(w, i, pb, m, t)
        PROVE  PendingInv'
    BY <2>1, ExecutePlaybookExplained
  <2>2. ASSUME NEW e \in DOMAIN execs, ApproveExecution(w, e)  PROVE PendingInv'
    BY <2>2, ApproveExplained
  <2> QED  BY <1>1, <2>1, <2>2, OthersNoRuns DEF Request
<1>2. ASSUME NEW w \in Workers, Continue(w)  PROVE PendingInv'
  BY <1>2, RunContinues, RunEndExplained, OthersNoRuns DEF Continue
<1>3. CASE UNCHANGED vars \/ \E d \in Direct : DirectCall(d[1], d[2])
  <2>1. UNCHANGED <<execs, at, ex, stuck>>  BY <1>3 DEF vars, DirectCall, dbVars
  <2> QED  BY <2>1, RowsKept, SameRuns
<1>4. CASE Restart  BY <1>4, RestartExplained
<1> QED  BY <1>1, <1>2, <1>3, <1>4 DEF Next

LEMMA PendingInit == Init => PendingInv
<1> SUFFICES ASSUME Init  PROVE PendingInv  OBVIOUS
<1>1. DOMAIN execs = {} /\ stuck = {}  BY DEF Init
<1> QED  BY <1>1 DEF PendingInv, PendingIsExplained

LEMMA PendingAlways == Spec => [](SoarInv /\ PendingInv)
  BY SoarInit, SoarNext, PendingInit, PendingStep, PTL DEF Spec
-----------------------------------------------------------------------------
(* What an analyst may rely on. *)

\* Rows, holds and the locals of a run keep their types.
THEOREM SoarTypes == Spec => []TypeOK
<1>1. SoarInv /\ PendingInv => TypeOK
  <2> SUFFICES ASSUME SoarInv, PendingInv  PROVE TypeOK  OBVIOUS
  <2>1. DOMAIN execs \subseteq Nat  BY SoarFacts DEF RowTypes
  <2> QED  BY <2>1, SoarFacts DEF PendingInv, TypeOK, RowTypes, WorkerTypes, Holds
<1> QED  BY <1>1, PendingAlways, PTL

\* autoResolveIncident comes after the actions: an incident the SOAR resolved shows a
\* recorded action, or its record was lost.
THEOREM ResolutionHasEvidence == Spec => []ResolvedWithEvidence
<1>1. SoarInv => ResolvedWithEvidence  BY DEF SoarInv
<1> QED  BY <1>1, SoarAlways, PTL

\* Whoever approves, aborts or restarts in between: what the payload of an EXECUTED
\* block or isolation lists as blocked has its recorded action, or is adrift.
THEOREM PayloadsCanBeUndone == Spec => []ExecutedCanBeUndone
<1>1. SoarInv => ExecutedCanBeUndone
  BY DEF SoarInv, RowOK, Covered, ExecutedCanBeUndone
<1> QED  BY <1>1, SoarAlways, PTL

\* Between the requests every hold of the firewall has an open row that leads back to
\* it, or is adrift: undos, aborts and runs do not close the wrong row.
THEOREM HoldsAreAccountedFor == Spec => []EveryHoldAccountedFor
<1>1. SoarInv => EveryHoldAccountedFor
  <2> SUFFICES ASSUME SoarInv, \A w \in Workers : at[w] = "idle", NEW h \in held \ adrift
               PROVE  \/ \E k \in DOMAIN actions : /\ actions[k].type = h.type
                                                   /\ actions[k].target = h.target
                                                   /\ actions[k].status = "EXECUTED"
                      \/ \E e \in DOMAIN execs : /\ execs[e].playbook = "remove_rule"
                                                 /\ execs[e].ip = h.target
                                                 /\ execs[e].status = "PENDING"
    BY DEF EveryHoldAccountedFor
  <2>1. \A w \in Workers : h \notin Unrecorded(w)  BY DEF Unrecorded
  <2>2. Accounted(h)  BY SoarFacts
  <2> QED  BY <2>1, <2>2 DEF Accounted, FirmAction, FirmExec
<1> QED  BY <1>1, SoarAlways, PTL

\* An AUTO execution is PENDING only while it runs, as the removal temporary_block
\* leaves, or for good when its run was cut off by a restart or by a failure of the
\* update in the catch block; nothing gives such a one an outcome but its abort.
THEOREM PendingExplained == Spec => []PendingIsExplained
<1>1. PendingInv => PendingIsExplained  BY DEF PendingInv
<1> QED  BY <1>1, PendingAlways, PTL
=============================================================================
