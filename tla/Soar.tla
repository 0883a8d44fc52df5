-------------------------------- MODULE Soar --------------------------------
(***************************************************************************)
(* SoarService: playbook executions, their approval and abort, the actions *)
(* recorded for undo, and the incidents they resolve.  A worker is one     *)
(* request or correlation cycle; workers interleave at every await.        *)
(*                                                                         *)
(* The firewall agent is taken at its interface: a call takes effect at    *)
(* most once and is answered with success or by throwing.                  *)
(***************************************************************************)
EXTENDS Naturals, Sequences, FiniteSets, SequencesExt, Functions

CONSTANTS
    Workers, Incidents, Targets,
    Entities,       \* [Incidents -> SUBSET Targets]: related_entities
    Playbooks,      \* the playbooks this instance runs
    Modes,          \* and the modes it runs them in
    Params,         \* values of params.ip in requests for remove_rule
    Direct,         \* the calls of the direct endpoints: <<operation, target>>
    Faults,         \* see Answers, Restart
    MaxRuns,        \* bound on playbook runs started
    MaxExecs,       \* bound on executions created through executePlaybook
    None            \* no ip in a payload

AllPlaybooks == {"block_ip", "isolate_endpoint", "temporary_block",
                 "block_port", "remove_rule", "disable_account"}

ASSUME SoarAssumption ==
    /\ Entities \in [Incidents -> SUBSET Targets]
    /\ Playbooks \subseteq AllPlaybooks
    /\ Modes \subseteq {"AUTO", "CONFIRM"}
    /\ Params \subseteq Targets
    /\ Direct \subseteq {"block", "temporary", "unblock"} \X Targets
    /\ Faults \subseteq {"refused", "timeout", "silent", "db", "crash"}
    /\ MaxRuns \in Nat /\ MaxExecs \in Nat
    /\ None \notin Targets

VARIABLES
    incident,       \* status of each incident
    execs,          \* playbook_executions, in order of initiated_at
    actions,        \* soar_actions, in order of created_at
    held,           \* what the firewall blocks or isolates
    at,             \* the await a worker stands at
    ex, act, cur,   \* the execution, action, target it works on
    todo, done,     \* targets left and targets reported blocked in its run
    runs,           \* playbook runs started
    adrift,         \* (history) holds of which no row may remain: see below
    stuck           \* (history) executions whose run ended without a status

vars == <<incident, execs, actions, held, at, ex, act, cur, todo, done, runs, adrift,
          stuck>>
dbVars == <<incident, execs, actions>>
RunAwaits == {"run", "cleanup", "record", "resolve", "finish", "fail"}
Awaits == RunAwaits \cup {"idle", "undo", "undoWrite", "abort", "abortWrite"}

Execution ==
    [incident : Incidents, playbook : AllPlaybooks, mode : {"AUTO", "CONFIRM"},
     status : {"PENDING", "EXECUTED", "FAILED", "ABORTED"},
     ip : Targets \cup {None},      \* result_payload.ip
     blocked : SUBSET Targets]      \* result_payload.blocked or .isolated

Action ==
    [incident : Incidents, exec : Nat,
     type : {"block_ip", "isolate_host"}, target : Targets,
     status : {"EXECUTED", "REVERTED"}]

HoldTypes     == {"block_ip", "isolate_host", "block_port"}
Hold(type, t) == [type |-> type, target |-> t]
HoldType(pb)  == CASE pb = "isolate_endpoint" -> "isolate_host"
                   [] pb = "block_port"       -> "block_port"
                   [] OTHER                   -> "block_ip"
Recorded      == {"block_ip", "isolate_endpoint"}
Loops         == Recorded \cup {"temporary_block", "block_port"}

(***************************************************************************)
(* How a call to the agent ends.  For the Windows agent it is one request: *)
(* "refused", it throws and did nothing; "timeout", it throws and did it.  *)
(* "silent" is a removal by the pfSense agent that reports success and did *)
(* nothing (a failed listing reads as no alias).                           *)
(***************************************************************************)
Answers(removal) ==
    {[success |-> TRUE, effect |-> TRUE]}
    \cup (IF "refused" \in Faults THEN {[success |-> FALSE, effect |-> FALSE]} ELSE {})
    \cup (IF "timeout" \in Faults THEN {[success |-> FALSE, effect |-> TRUE]} ELSE {})
    \cup (IF removal /\ "silent" \in Faults
          THEN {[success |-> TRUE, effect |-> FALSE]} ELSE {})

\* Writes whose errors the code swallows may not happen.
SwallowedWrites == IF "db" \in Faults THEN {TRUE, FALSE} ELSE {TRUE}

\* blockIp, blockPort, isolateHost; unblockIp, unIsolateHost.
AddHold(type, t, a)    == held' = IF a.effect THEN held \cup {Hold(type, t)} ELSE held
RemoveHold(type, t, a) == held' = IF a.effect THEN held \ {Hold(type, t)} ELSE held

(***************************************************************************)
(* A hold goes adrift when the code has no row that would lead back to it: *)
(* the call that made it threw, or its row was lost or is never written,   *)
(* or the call that was to remove it did nothing.                          *)
(***************************************************************************)
Adrift(holds) == adrift' = adrift \cup holds
-----------------------------------------------------------------------------
Init ==
    /\ incident = [i \in Incidents |-> "OPEN"]
    /\ execs = <<>> /\ actions = <<>> /\ held = {}
    /\ at = [w \in Workers |-> "idle"]
    /\ ex = [w \in Workers |-> 0] /\ act = [w \in Workers |-> 0]
    /\ cur = [w \in Workers |-> None]
    /\ todo = [w \in Workers |-> {}] /\ done = [w \in Workers |-> {}]
    /\ runs = 0 /\ adrift = {} /\ stuck = {}

Goto(w, a) == at' = [at EXCEPT ![w] = a]
SetStatus(e, s) == execs' = [execs EXCEPT ![e].status = s]

\* runPlaybook is entered: the targets are the incident's entities, or the
\* parameter of remove_rule.
StartRun(w, e, targets) ==
    /\ runs < MaxRuns
    /\ runs' = runs + 1
    /\ Goto(w, "run")
    /\ ex' = [ex EXCEPT ![w] = e]
    /\ todo' = [todo EXCEPT ![w] = targets]
    /\ done' = [done EXCEPT ![w] = {}]
    /\ UNCHANGED <<act, cur>>

\* ips[0], if the incident has any.
FirstTarget(i) == {t \in Entities[i] : t = CHOOSE u \in Entities[i] : TRUE}

\* What runPlaybook acts on, given the params it was passed.
RunTargets(pb, i, param) ==
    IF pb = "remove_rule" THEN {param} \ {None}
    ELSE IF pb = "disable_account" THEN {}
    ELSE IF pb # "block_port" THEN Entities[i]
    ELSE IF param # None THEN {param} ELSE FirstTarget(i)

\* executePlaybook: AUTO runs at once, CONFIRM waits; the params of a CONFIRM
\* execution are not stored.
ExecutePlaybook(w, i, pb, mode, param) ==
    /\ at[w] = "idle"
    /\ Len(execs) < MaxExecs
    /\ pb \in {"remove_rule", "block_port"} \/ param = None
    /\ execs' = Append(execs, [incident |-> i, playbook |-> pb, mode |-> mode,
                               status |-> "PENDING", ip |-> None, blocked |-> {}])
    /\ IF mode = "AUTO"
       THEN StartRun(w, Len(execs) + 1, RunTargets(pb, i, param))
       ELSE UNCHANGED <<at, ex, act, cur, todo, done, runs>>
    /\ UNCHANGED <<incident, actions, held, adrift, stuck>>

\* approveExecution: the check, then the run without the params.
ApproveExecution(w, e) ==
    /\ at[w] = "idle"
    /\ execs[e].status = "PENDING" /\ execs[e].mode = "CONFIRM"
    /\ StartRun(w, e, RunTargets(execs[e].playbook, execs[e].incident, None))
    /\ UNCHANGED <<dbVars, held, adrift, stuck>>

\* The loop of the block, isolate, temporary-block and block-port playbooks:
\* one agent call per target, a throw counts the target as failed.
BlockNext(w) ==
    LET pb == execs[ex[w]].playbook IN
    /\ at[w] = "run" /\ pb \in Loops
    /\ \E t \in todo[w], a \in Answers(FALSE) :
          /\ AddHold(HoldType(pb), t, a)
          /\ Adrift(IF ~a.success \/ pb = "block_port" THEN {Hold(HoldType(pb), t)} ELSE {})
          /\ todo' = [todo EXCEPT ![w] = @ \ {t}]
          /\ done' = [done EXCEPT ![w] = IF a.success THEN @ \cup {t} ELSE @]
          /\ IF a.success /\ pb = "temporary_block"
             THEN Goto(w, "cleanup") /\ cur' = [cur EXCEPT ![w] = t]
             ELSE UNCHANGED <<at, cur>>
    /\ UNCHANGED <<dbVars, ex, act, runs, stuck>>

\* temporary_block: the execution that is to remove the block is created.
CreateCleanup(w) ==
    /\ at[w] = "cleanup"
    /\ \/ /\ execs' = Append(execs, [incident |-> execs[ex[w]].incident,
                                     playbook |-> "remove_rule", mode |-> "AUTO",
                                     status |-> "PENDING", ip |-> cur[w], blocked |-> {}])
          /\ UNCHANGED adrift
       \/ /\ "db" \in Faults
          /\ Adrift({Hold("block_ip", cur[w])})
          /\ UNCHANGED execs
    /\ Goto(w, "run")
    /\ cur' = [cur EXCEPT ![w] = None]
    /\ UNCHANGED <<incident, actions, held, ex, act, todo, done, runs, stuck>>

(***************************************************************************)
(* The operators named ...Mutant are bugs the code does not have; the      *)
(* properties below reject each of them.                                   *)
(***************************************************************************)
\* The throw of unblockIp leaves runPlaybook's caller without a catch.
UncaughtMutant(w) ==
    /\ at[w] = "run" /\ execs[ex[w]].playbook = "remove_rule"
    /\ \E t \in todo[w], a \in Answers(TRUE) :
          /\ RemoveHold("block_ip", t, a)
          /\ todo' = [todo EXCEPT ![w] = {}]
          /\ done' = [done EXCEPT ![w] = {t}]
          /\ Goto(w, IF a.success THEN "finish" ELSE "idle")
    /\ UNCHANGED <<dbVars, ex, act, cur, runs, adrift, stuck>>

\* remove_rule with an ip: unblock it; a throw fails the execution.
RemoveRule(w) ==
    /\ at[w] = "run" /\ execs[ex[w]].playbook = "remove_rule"
    /\ \E t \in todo[w], a \in Answers(TRUE) :
          /\ RemoveHold("block_ip", t, a)
          /\ todo' = [todo EXCEPT ![w] = {}]
          /\ done' = [done EXCEPT ![w] = {t}]
          /\ Goto(w, IF a.success THEN "finish" ELSE "fail")
    /\ UNCHANGED <<dbVars, ex, act, cur, runs, adrift, stuck>>

\* The incident is resolved before the actions are recorded.
ResolveFirstMutant(w) ==
    /\ at[w] = "run" /\ todo[w] = {}
    /\ Goto(w, IF done[w] # {} THEN "resolve" ELSE "finish")
    /\ UNCHANGED <<dbVars, held, ex, act, cur, todo, done, runs, adrift, stuck>>

\* The loop ended: block and isolate record what they blocked, the others
\* (and a playbook with nothing to do) return.
EndLoop(w) ==
    /\ at[w] = "run" /\ todo[w] = {}
    /\ LET records == execs[ex[w]].playbook \in Recorded /\ done[w] # {}
       IN  /\ Goto(w, IF records THEN "record" ELSE "finish")
           /\ todo' = [todo EXCEPT ![w] = IF records THEN done[w] ELSE {}]
    /\ UNCHANGED <<dbVars, held, ex, act, cur, done, runs, adrift, stuck>>

\* The latest execution of an incident: ORDER BY initiated_at DESC.
Latest(i) == CHOOSE e \in DOMAIN execs :
                /\ execs[e].incident = i
                /\ \A f \in DOMAIN execs : execs[f].incident = i => f <= e

\* Only the first target is recorded.
RecordFirstMutant(w) ==
    LET e == execs[ex[w]] IN
    /\ at[w] = "record"
    /\ \E t \in todo[w] :
          actions' = Append(actions, [incident |-> e.incident, exec |-> Latest(e.incident),
                                      type |-> HoldType(e.playbook),
                                      target |-> t, status |-> "EXECUTED"])
    /\ Goto(w, "resolve")
    /\ UNCHANGED <<incident, execs, held, ex, act, cur, todo, done, runs, adrift, stuck>>

\* recordAction for one target; its errors are swallowed.
RecordAction(w) ==
    LET e == execs[ex[w]] IN
    /\ at[w] = "record"
    /\ \E t \in todo[w] :
          /\ \/ /\ actions' = Append(actions, [incident |-> e.incident,
                                exec |-> Latest(e.incident),
                                type |-> HoldType(e.playbook), target |-> t,
                                status |-> "EXECUTED"])
                /\ UNCHANGED adrift
             \/ /\ "db" \in Faults
                /\ Adrift({Hold(HoldType(e.playbook), t)})
                /\ UNCHANGED actions
          /\ todo' = [todo EXCEPT ![w] = @ \ {t}]
          /\ Goto(w, IF todo[w] = {t} THEN "resolve" ELSE "record")
    /\ UNCHANGED <<incident, execs, held, ex, act, cur, done, runs, stuck>>

\* A status the column does not have.
ClosedMutant(w) ==
    /\ at[w] = "resolve"
    /\ incident' = [incident EXCEPT ![execs[ex[w]].incident] = "CLOSED"]
    /\ Goto(w, "finish")
    /\ UNCHANGED <<execs, actions, held, ex, act, cur, todo, done, runs, adrift, stuck>>

\* autoResolveIncident, whatever the incident's status; errors swallowed.
AutoResolve(w) ==
    /\ at[w] = "resolve"
    /\ \E written \in SwallowedWrites :
          incident' = IF written THEN [incident EXCEPT ![execs[ex[w]].incident] = "RESOLVED"]
                      ELSE incident
    /\ Goto(w, "finish")
    /\ UNCHANGED <<execs, actions, held, ex, act, cur, todo, done, runs, adrift, stuck>>

Idle(w) ==
    /\ Goto(w, "idle")
    /\ ex' = [ex EXCEPT ![w] = 0] /\ act' = [act EXCEPT ![w] = 0]
    /\ cur' = [cur EXCEPT ![w] = None]
    /\ todo' = [todo EXCEPT ![w] = {}] /\ done' = [done EXCEPT ![w] = {}]

\* The run returned: EXECUTED and its payload, whatever the row says by now.
\* The update is inside the try: when it throws, the execution is FAILED.
FinishRun(w) ==
    LET removal == execs[ex[w]].playbook = "remove_rule" IN
    /\ at[w] = "finish"
    /\ \/ /\ execs' = [execs EXCEPT
                ![ex[w]].status = "EXECUTED",
                ![ex[w]].ip = IF removal /\ done[w] # {} THEN CHOOSE t \in done[w] : TRUE
                              ELSE None,
                ![ex[w]].blocked = IF removal THEN {} ELSE done[w]]
          /\ Idle(w)
       \/ /\ "db" \in Faults
          /\ Goto(w, "fail")
          /\ UNCHANGED <<execs, ex, act, cur, todo, done>>
    /\ UNCHANGED <<incident, actions, held, runs, adrift, stuck>>

\* The run threw: FAILED, the payload is the error.  Nothing catches a throw of
\* this update: the request fails, and the row stays as it is.
FailRun(w) ==
    /\ at[w] = "fail"
    /\ \/ /\ execs' = [execs EXCEPT ![ex[w]].status = "FAILED", ![ex[w]].ip = None,
                                    ![ex[w]].blocked = {}]
          /\ UNCHANGED stuck
       \/ /\ "db" \in Faults
          /\ stuck' = stuck \cup {ex[w]}
          /\ UNCHANGED execs
    /\ Idle(w)
    /\ UNCHANGED <<incident, actions, held, runs, adrift>>

\* The payload is not looked at: nothing is unblocked.
NoUnblockMutant(w, e) ==
    /\ at[w] = "idle"
    /\ ex' = [ex EXCEPT ![w] = e]
    /\ Goto(w, "abortWrite")
    /\ UNCHANGED <<dbVars, held, act, cur, todo, done, runs, adrift, stuck>>

\* abortPlaybook: any status; the payload that was read decides the unblock.
AbortPlaybook(w, e) ==
    /\ at[w] = "idle"
    /\ ex' = [ex EXCEPT ![w] = e]
    /\ todo' = [todo EXCEPT ![w] = {execs[e].ip} \ {None}]
    /\ Goto(w, IF execs[e].ip = None THEN "abortWrite" ELSE "abort")
    /\ UNCHANGED <<dbVars, held, act, cur, done, runs, adrift, stuck>>

\* Its unblockIp, errors swallowed.
AbortUnblock(w) ==
    /\ at[w] = "abort"
    /\ \E t \in todo[w], a \in Answers(TRUE) :
          /\ RemoveHold("block_ip", t, a)
          /\ Adrift(IF a.effect THEN {} ELSE {Hold("block_ip", t)})
    /\ Goto(w, "abortWrite")
    /\ UNCHANGED <<dbVars, ex, act, cur, todo, done, runs, stuck>>

\* When its update throws, the request fails and the row stays.
AbortWrite(w) ==
    /\ at[w] = "abortWrite"
    /\ \/ SetStatus(ex[w], "ABORTED")
       \/ "db" \in Faults /\ UNCHANGED execs
    /\ Idle(w)
    /\ UNCHANGED <<incident, actions, held, runs, adrift, stuck>>

\* undoAction: the check, then the agent call, then the update.
UndoAction(w, k) ==
    /\ at[w] = "idle"
    /\ actions[k].status # "REVERTED"
    /\ act' = [act EXCEPT ![w] = k]
    /\ Goto(w, "undo")
    /\ UNCHANGED <<dbVars, held, ex, cur, todo, done, runs, adrift, stuck>>

UndoReverse(w) ==
    LET k == actions[act[w]] IN
    /\ at[w] = "undo"
    /\ \E a \in Answers(TRUE) :
          /\ RemoveHold(k.type, k.target, a)
          /\ Adrift(IF a.effect \/ ~a.success THEN {} ELSE {Hold(k.type, k.target)})
          /\ IF a.success THEN Goto(w, "undoWrite") /\ UNCHANGED <<ex, act, cur, todo, done>>
             ELSE Idle(w)
    /\ UNCHANGED <<dbVars, runs, stuck>>

UndoWrite(w) ==
    /\ at[w] = "undoWrite"
    /\ \E written \in SwallowedWrites :
          actions' = IF written THEN [actions EXCEPT ![act[w]].status = "REVERTED"]
                     ELSE actions
    /\ Idle(w)
    /\ UNCHANGED <<incident, execs, held, runs, adrift, stuck>>

\* POST soar/block-ip, soar/temporary-block (without the database, so that no
\* cleanup is created) and soar/unblock-ip: no row is touched.
DirectCall(op, t) ==
    /\ \/ /\ op \in {"block", "temporary"}
          /\ \E a \in Answers(FALSE) : AddHold("block_ip", t, a)
          /\ Adrift({Hold("block_ip", t)})
       \/ /\ op = "unblock"
          /\ \E a \in Answers(TRUE) : RemoveHold("block_ip", t, a)
          /\ UNCHANGED adrift
    /\ UNCHANGED <<dbVars, at, ex, act, cur, todo, done, runs, stuck>>

\* What a run under way made and has no row for yet.
Unrecorded(w) ==
    LET type == HoldType(execs[ex[w]].playbook) IN
    CASE at[w] = "cleanup" -> {Hold("block_ip", cur[w])}
      [] at[w] = "run" /\ execs[ex[w]].playbook \in Recorded -> {Hold(type, t) : t \in done[w]}
      [] at[w] = "record"  -> {Hold(type, t) : t \in todo[w]}
      [] OTHER -> {}

\* The backend dies and restarts; rows and firewall stay.
Restart ==
    /\ "crash" \in Faults
    /\ at' = [w \in Workers |-> "idle"]
    /\ ex' = [w \in Workers |-> 0] /\ act' = [w \in Workers |-> 0]
    /\ cur' = [w \in Workers |-> None]
    /\ todo' = [w \in Workers |-> {}] /\ done' = [w \in Workers |-> {}]
    /\ Adrift(UNION {Unrecorded(w) : w \in Workers})
    /\ stuck' = stuck \cup {ex[w] : w \in {v \in Workers : at[v] \in RunAwaits}}
    /\ UNCHANGED <<dbVars, held, runs>>

Request(w) ==
    \/ \E i \in Incidents, pb \in Playbooks, m \in Modes, t \in Params \cup {None} :
          ExecutePlaybook(w, i, pb, m, t)
    \/ \E e \in DOMAIN execs : ApproveExecution(w, e) \/ AbortPlaybook(w, e)
    \/ \E k \in DOMAIN actions : UndoAction(w, k)

Continue(w) ==
    \/ BlockNext(w) \/ CreateCleanup(w) \/ RemoveRule(w) \/ EndLoop(w)
    \/ RecordAction(w) \/ AutoResolve(w) \/ FinishRun(w) \/ FailRun(w)
    \/ AbortUnblock(w) \/ AbortWrite(w) \/ UndoReverse(w) \/ UndoWrite(w)

Next ==
    \/ \E w \in Workers : Request(w) \/ Continue(w)
    \/ \E d \in Direct : DirectCall(d[1], d[2])
    \/ Restart

Spec == Init /\ [][Next]_vars
-----------------------------------------------------------------------------
TypeOK ==
    /\ incident \in [Incidents -> {"OPEN", "RESOLVED"}]
    /\ execs \in Seq(Execution)
    /\ actions \in Seq(Action)
    /\ held \in SUBSET [type : HoldTypes, target : Targets]
    /\ adrift \in SUBSET [type : HoldTypes, target : Targets]
    /\ stuck \in SUBSET Nat
    /\ at \in [Workers -> Awaits]
    /\ ex \in [Workers -> Nat] /\ act \in [Workers -> Nat]
    /\ cur \in [Workers -> Targets \cup {None}]
    /\ todo \in [Workers -> SUBSET Targets] /\ done \in [Workers -> SUBSET Targets]

\* An incident the SOAR resolved shows at least one recorded action, or its
\* record was lost: the actions are inserted before the incident is closed.
ResolvedWithEvidence ==
    \A i \in Incidents : incident[i] = "RESOLVED" =>
        \/ \E k \in DOMAIN actions : actions[k].incident = i
        \/ \E h \in adrift : h.target \in Entities[i]

\* What the payload of an executed block or isolation lists as blocked can be
\* undone: there is an action for each of its targets whose record was not
\* lost, whoever approved, aborted or restarted what in between.
ExecutedCanBeUndone ==
    \A e \in DOMAIN execs :
        execs[e].status = "EXECUTED" /\ execs[e].playbook \in Recorded
            => \A t \in execs[e].blocked :
                  \/ Hold(HoldType(execs[e].playbook), t) \in adrift
                  \/ \E k \in DOMAIN actions :
                        /\ actions[k].incident = execs[e].incident
                        /\ actions[k].type = HoldType(execs[e].playbook)
                        /\ actions[k].target = t

\* Nothing stays blocked behind the analysts' back: with no request under
\* way, every hold has an action that can be undone or an execution that is
\* to remove it, or is adrift, however runs, undos and aborts interleaved.
EveryHoldAccountedFor ==
    (\A w \in Workers : at[w] = "idle") => \A h \in held \ adrift :
        \/ \E k \in DOMAIN actions : /\ actions[k].type = h.type
                                     /\ actions[k].target = h.target
                                     /\ actions[k].status = "EXECUTED"
        \/ \E e \in DOMAIN execs : /\ execs[e].playbook = "remove_rule"
                                   /\ execs[e].ip = h.target
                                   /\ execs[e].status = "PENDING"

\* An AUTO execution is PENDING for a reason: it runs, it is the removal that
\* temporary_block leaves behind, or its run was cut off by a restart or by the
\* failure of the very update that was to mark it FAILED.  Whatever the agent
\* answers or throws is no such reason.  And one that was cut off stays PENDING
\* until it is aborted: nothing takes it up again or gives it another outcome.
PendingIsExplained ==
    \A e \in DOMAIN execs : execs[e].mode = "AUTO" =>
        /\ execs[e].status = "PENDING" =>
              \/ execs[e].playbook = "remove_rule" /\ execs[e].ip # None
              \/ e \in stuck
              \/ \E w \in Workers : at[w] \in RunAwaits /\ ex[w] = e
        /\ e \in stuck => execs[e].status \in {"PENDING", "ABORTED"}

(***************************************************************************)
(* What the repository says of the SOAR service and the code does not do.  *)
(***************************************************************************)
\* "Rejects with ... 400 if not in PENDING/CONFIRM state" (approveExecution):
\* an execution that was approved is not approved and run a second time.
ApprovedRunsOnce ==
    \A v, w \in Workers :
        at[v] \in RunAwaits /\ at[w] \in RunAwaits /\ ex[v] = ex[w] => v = w
=============================================================================
