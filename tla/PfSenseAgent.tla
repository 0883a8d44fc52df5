---------------------------- MODULE PfSenseAgent ----------------------------
(***************************************************************************)
(* PfSenseAgentService: the modifying operations of the pfSense connector, *)
(* each a function run under write(), interleaved at their awaits, and the *)
(* REST service of the firewall they talk to.                              *)
(*                                                                         *)
(* The firewall keeps a staged configuration (aliases, rules) and the one  *)
(* in force, which POST /firewall/apply makes equal to the staged one.  It *)
(* is external: its behaviour is what the agent's code relies on (an alias *)
(* name is unique, a rule has an id, nothing is in force before an apply). *)
(*                                                                         *)
(* The agent reads the addresses of an alias under the name `addresses`,   *)
(* posts them as `address` when it rewrites one and as `addresses` when it *)
(* creates one.  Which of the two names the firewall uses is a constant.   *)
(***************************************************************************)
EXTENDS PfSenseWriteLock, FiniteSets

CONSTANTS
    Ips,            \* addresses callers name
    Protected,      \* the addresses validateBlockIp refuses
    RuleIds,        \* ids the firewall can give to rules: bounds their number
    Requests,       \* the calls this instance makes, a subset of AllRequests
    Fields,         \* the names under which the firewall takes and lists the
                    \* addresses of an alias; a field of another name is ignored
    Faults,         \* what may go wrong: see Outcomes, GetRules, Restart
    None            \* no alias of that name; no request

Blocklist == "Smart_Siem_Blocklist"
Isolation == "Smart_Siem_Isolation"
Managed   == {Blocklist, Isolation}
Aliases   == Managed \cup {"Other"}

AllRequests ==
    [kind : {"blockIp", "unblockIp", "isolateHost", "unIsolateHost",
             "blockPort", "deleteRule"}, on : Ips]
    \cup [kind : {"unblockRule"}, on : RuleIds]
    \cup [kind : {"createAlias"}, on : Aliases, ips : SUBSET Ips]
    \cup [kind : {"deleteAlias"}, on : Aliases]

ASSUME AgentAssumption ==
    /\ Protected \subseteq Ips
    /\ Requests \subseteq AllRequests
    /\ Fields \subseteq {"address", "addresses"}
    /\ Faults \subseteq {"refused", "timeout", "wrapped", "crash"}
    /\ \A S \in SUBSET Ips : S # None
    /\ \A r \in AllRequests : r # None

VARIABLES
    req,            \* the call a caller awaits
    step,           \* the await its function stands at
    seen,           \* the alias content listAliases gave it
    todo, deleted,  \* deleteRule: rules left to delete, deletedCount > 0
    applyTimer,     \* this.applyDebounceTimer is set
    aliases, rules, \* the firewall's staged configuration
    inForce,        \* the configuration the firewall enforces
    asked           \* (history) alias and address of calls that do not validate

fnVars == <<req, step, seen, todo, deleted, applyTimer>>
fwVars == <<aliases, rules, inForce>>
vars   == <<lockVars, fnVars, fwVars, asked>>

Steps == {"none", "list", "delete", "create", "postRule", "getRules",
          "deleteRules", "unblockRule", "createAlias", "deleteAlias",
          "apply", "armed", "applying", "done", "failed"}

IsAdd(r)     == r.kind \in {"blockIp", "isolateHost"}
IsRemove(r)  == r.kind \in {"unblockIp", "unIsolateHost"}
AliasOf(r)   == IF r.kind \in {"blockIp", "unblockIp"} THEN Blocklist ELSE Isolation
Content(s)   == IF s = None THEN {} ELSE s

\* What the code finds in an alias (`addresses ?? []`), and what the firewall
\* makes of the addresses of a rewrite and of createAlias.
Listed(s) == IF "addresses" \in Fields THEN Content(s) ELSE {}
Posted(s) == IF "address" \in Fields THEN s ELSE {}
Given(s)  == IF "addresses" \in Fields THEN s ELSE {}

Staged       == [aliases |-> aliases, rules |-> rules]

\* The first await of each operation.
First(r) == IF IsAdd(r) \/ IsRemove(r) THEN "list"
            ELSE IF r.kind = "blockPort" THEN "postRule"
            ELSE IF r.kind = "deleteRule" THEN "getRules"
            ELSE r.kind

\* blockPort does not validate.
UnvalidatedPortMutant(r) == r.kind = "blockIp" => r.on \notin Protected

\* blockIp and blockPort call validateBlockIp before write() and throw;
\* isolateHost and createAlias do not.
Valid(r) == r.kind \in {"blockIp", "blockPort"} => r.on \notin Protected

\* The addresses a call may bring into an alias without validation.
Unvalidated(r) ==
    IF r.kind = "isolateHost" THEN {<<Isolation, r.on>>}
    ELSE IF r.kind = "createAlias" THEN {r.on} \X r.ips ELSE {}

(***************************************************************************)
(* request(): the answer to a modifying call.  "refused" is an HTTP or     *)
(* network error before the firewall did anything, "timeout" an abort      *)
(* after it did.  Both come back as {status: 'error'}; it never throws.    *)
(***************************************************************************)
Outcomes == {"ok"} \cup (Faults \cap {"refused", "timeout"})
TakesEffect(o) == o # "refused"
\* What a GET may fail to bring back.
Lost(empty) == IF Faults \cap {"refused", "timeout"} = {} THEN {} ELSE {empty}
-----------------------------------------------------------------------------
Init ==
    /\ LockInit
    /\ req = [c \in Callers |-> None]
    /\ step = [c \in Callers |-> "none"]
    /\ seen = [c \in Callers |-> None]
    /\ todo = [c \in Callers |-> {}]
    /\ deleted = [c \in Callers |-> FALSE]
    /\ applyTimer = FALSE
    /\ aliases = [a \in Aliases |-> None]
    /\ rules = {}
    /\ inForce = Staged
    /\ asked = {}

\* A caller calls an operation, which starts or queues its function.
Call(c, r) ==
    /\ Valid(r)
    /\ Write(c)
    /\ req' = [req EXCEPT ![c] = r]
    /\ step' = [step EXCEPT ![c] = IF at'[c] = "direct" THEN First(r) ELSE "none"]
    /\ asked' = asked \cup Unvalidated(r)
    /\ UNCHANGED <<seen, todo, deleted, applyTimer, fwVars>>

Goto(c, s) == step' = [step EXCEPT ![c] = s]

\* addIpToAlias, removeIpFromAlias: await listAliases().  A failed listing
\* reads as no alias at all.
ListAliases(c) ==
    /\ step[c] = "list"
    /\ \E found \in {aliases[AliasOf(req[c])]} \cup Lost(None) :
          LET in == req[c].on \in Listed(found)
          IN  /\ seen' = [seen EXCEPT ![c] = found]
              /\ Goto(c, IF IsAdd(req[c]) = in THEN "done"
                         ELSE IF found = None THEN "create" ELSE "delete")
    /\ UNCHANGED <<lockVars, asked, req, todo, deleted, applyTimer, fwVars>>

\* First half of the rewrite: DELETE the alias, whatever the answer.
DeleteForRewrite(c) ==
    /\ step[c] = "delete"
    /\ \E o \in Outcomes :
          aliases' = IF TakesEffect(o)
                     THEN [aliases EXCEPT ![AliasOf(req[c])] = None] ELSE aliases
    /\ Goto(c, "create")
    /\ UNCHANGED <<lockVars, asked, req, seen, todo, deleted, applyTimer, rules, inForce>>

\* Only the new address is sent back.
OnlyNewMutant(c) ==
    Posted(IF IsAdd(req[c]) THEN {req[c].on} ELSE Listed(seen[c]) \ {req[c].on})

Rewritten(c) ==
    Posted(IF IsAdd(req[c]) THEN Listed(seen[c]) \cup {req[c].on}
           ELSE Listed(seen[c]) \ {req[c].on})

\* The answer of the POST is not looked at.
UncheckedPostMutant(c) ==
    /\ step[c] = "create"
    /\ \E o \in Outcomes :
          aliases' = IF TakesEffect(o) /\ aliases[AliasOf(req[c])] = None
                     THEN [aliases EXCEPT ![AliasOf(req[c])] = Rewritten(c)]
                     ELSE aliases
    /\ Goto(c, "apply")
    /\ UNCHANGED <<lockVars, asked, req, seen, todo, deleted, applyTimer, rules, inForce>>

\* Second half: POST the new content; the firewall refuses a second alias of
\* the same name; an error is thrown to the caller.
CreateForRewrite(c) ==
    /\ step[c] = "create"
    /\ IF aliases[AliasOf(req[c])] # None
       THEN Goto(c, "failed") /\ UNCHANGED aliases
       ELSE \E o \in Outcomes :
               /\ aliases' = IF TakesEffect(o)
                             THEN [aliases EXCEPT ![AliasOf(req[c])] = Rewritten(c)]
                             ELSE aliases
               /\ Goto(c, IF o = "ok" THEN "apply" ELSE "failed")
    /\ UNCHANGED <<lockVars, asked, req, seen, todo, deleted, applyTimer, rules, inForce>>

\* blockPort: POST a rule, for which the firewall has a fresh id.
PostRule(c) ==
    /\ step[c] = "postRule"
    /\ \/ /\ "refused" \in Faults \/ {r.id : r \in rules} = RuleIds
          /\ Goto(c, "failed") /\ UNCHANGED rules
       \/ \E o \in Outcomes \ {"refused"}, id \in RuleIds \ {r.id : r \in rules} :
             /\ rules' = rules \cup {[id |-> id, ip |-> req[c].on]}
             /\ Goto(c, IF o = "ok" THEN "apply" ELSE "failed")
    /\ UNCHANGED <<lockVars, asked, req, seen, todo, deleted, applyTimer, aliases, inForce>>

\* deleteRule: GET the rules and keep those of the given name.  An answer that
\* wraps the list in an object ("wrapped") has no filter: the function throws.
GetRules(c) ==
    /\ step[c] = "getRules"
    /\ \/ /\ \E found \in {{r \in rules : r.ip = req[c].on}} \cup Lost({}) :
                todo' = [todo EXCEPT ![c] = {r.id : r \in found}]
          /\ Goto(c, "deleteRules")
       \/ /\ "wrapped" \in Faults
          /\ Goto(c, "failed") /\ UNCHANGED todo
    /\ UNCHANGED <<lockVars, asked, req, seen, deleted, applyTimer, fwVars>>

WithoutRule(id) == {r \in rules : r.id # id}

\* After a DELETE that failed the rules are listed again.
ListAgainMutant(c) ==
    /\ step[c] = "deleteRules"
    /\ \/ /\ todo[c] = {}
          /\ Goto(c, IF deleted[c] THEN "apply" ELSE "done")
          /\ UNCHANGED <<todo, deleted, rules>>
       \/ \E id \in todo[c], o \in Outcomes :
             /\ rules' = IF TakesEffect(o) THEN WithoutRule(id) ELSE rules
             /\ todo' = [todo EXCEPT ![c] = @ \ {id}]
             /\ deleted' = [deleted EXCEPT ![c] = @ \/ o = "ok"]
             /\ IF o = "ok" THEN UNCHANGED step ELSE Goto(c, "getRules")
    /\ UNCHANGED <<lockVars, asked, req, seen, applyTimer, aliases, inForce>>

\* deleteRule's loop: one DELETE per rule, then apply if any was deleted.
DeleteRules(c) ==
    /\ step[c] = "deleteRules"
    /\ \/ /\ todo[c] = {}
          /\ Goto(c, IF deleted[c] THEN "apply" ELSE "done")
          /\ UNCHANGED <<todo, deleted, rules>>
       \/ \E id \in todo[c], o \in Outcomes :
             /\ rules' = IF TakesEffect(o) THEN WithoutRule(id) ELSE rules
             /\ todo' = [todo EXCEPT ![c] = @ \ {id}]
             /\ deleted' = [deleted EXCEPT ![c] = @ \/ o = "ok"]
             /\ UNCHANGED step
    /\ UNCHANGED <<lockVars, asked, req, seen, applyTimer, aliases, inForce>>

\* unblockIP_deprecated: DELETE one rule by id.
UnblockRule(c) ==
    /\ step[c] = "unblockRule"
    /\ \E o \in Outcomes :
          /\ rules' = IF TakesEffect(o) THEN WithoutRule(req[c].on) ELSE rules
          /\ Goto(c, IF o = "ok" THEN "apply" ELSE "failed")
    /\ UNCHANGED <<lockVars, asked, req, seen, todo, deleted, applyTimer, aliases, inForce>>

\* createAlias: POST only, no apply, of any name and addresses.
CreateAlias(c) ==
    /\ step[c] = "createAlias"
    /\ IF aliases[req[c].on] # None
       THEN Goto(c, "failed") /\ UNCHANGED aliases
       ELSE \E o \in Outcomes :
               /\ aliases' = IF TakesEffect(o)
                             THEN [aliases EXCEPT ![req[c].on] = Given(req[c].ips)]
                             ELSE aliases
               /\ Goto(c, IF o = "ok" THEN "done" ELSE "failed")
    /\ UNCHANGED <<lockVars, asked, req, seen, todo, deleted, applyTimer, rules, inForce>>

\* deleteAlias: DELETE only, no apply.
DeleteAlias(c) ==
    /\ step[c] = "deleteAlias"
    /\ \E o \in Outcomes :
          /\ aliases' = IF TakesEffect(o)
                        THEN [aliases EXCEPT ![req[c].on] = None] ELSE aliases
          /\ Goto(c, IF o = "ok" THEN "done" ELSE "failed")
    /\ UNCHANGED <<lockVars, asked, req, seen, todo, deleted, applyTimer, rules, inForce>>

\* The timer is not awaited: the function returns once it is set.
NotAwaitedMutant(c) ==
    /\ step[c] = "apply"
    /\ Goto(c, "done")
    /\ applyTimer' = TRUE
    /\ UNCHANGED <<lockVars, asked, req, seen, todo, deleted, fwVars>>

\* applyChanges: return at once if the timer is set, else set it.
ApplyChanges(c) ==
    /\ step[c] = "apply"
    /\ Goto(c, IF applyTimer THEN "done" ELSE "armed")
    /\ applyTimer' = TRUE
    /\ UNCHANGED <<lockVars, asked, req, seen, todo, deleted, fwVars>>

\* The timer is not cleared.
StaleTimerMutant(c) ==
    /\ step[c] = "armed"
    /\ Goto(c, "applying")
    /\ UNCHANGED <<lockVars, asked, req, seen, todo, deleted, applyTimer, fwVars>>

\* 500 ms later: clear the timer and send the POST.
TimerFires(c) ==
    /\ step[c] = "armed"
    /\ applyTimer' = FALSE
    /\ Goto(c, "applying")
    /\ UNCHANGED <<lockVars, asked, req, seen, todo, deleted, fwVars>>

\* The apply is answered; its outcome is not looked at.
Applied(c) ==
    /\ step[c] = "applying"
    /\ \E o \in Outcomes : inForce' = IF TakesEffect(o) THEN Staged ELSE inForce
    /\ Goto(c, "done")
    /\ UNCHANGED <<lockVars, asked, req, seen, todo, deleted, applyTimer, aliases, rules>>

\* fn settled: write() frees the lock and may start the closure it shifts.
Return(c) ==
    /\ step[c] \in {"done", "failed"}
    /\ Finish(c)
    /\ step' = [d \in Callers |->
                  IF d = c THEN "none"
                  ELSE IF at'[d] = "handed" THEN First(req[d]) ELSE step[d]]
    /\ req' = [req EXCEPT ![c] = None]
    /\ seen' = [seen EXCEPT ![c] = None]
    /\ todo' = [todo EXCEPT ![c] = {}]
    /\ deleted' = [deleted EXCEPT ![c] = FALSE]
    /\ UNCHANGED <<asked, applyTimer, fwVars>>

\* The backend dies and restarts; the firewall keeps what it has.
Restart ==
    /\ "crash" \in Faults
    /\ writeLock' = FALSE
    /\ writeQueue' = <<>>
    /\ at' = [c \in Callers |-> "idle"]
    /\ req' = [c \in Callers |-> None]
    /\ step' = [c \in Callers |-> "none"]
    /\ seen' = [c \in Callers |-> None]
    /\ todo' = [c \in Callers |-> {}]
    /\ deleted' = [c \in Callers |-> FALSE]
    /\ applyTimer' = FALSE
    /\ UNCHANGED <<asked, fwVars>>

FnStep(c) ==
    \/ ListAliases(c) \/ DeleteForRewrite(c) \/ CreateForRewrite(c)
    \/ PostRule(c) \/ GetRules(c) \/ DeleteRules(c) \/ UnblockRule(c)
    \/ CreateAlias(c) \/ DeleteAlias(c)
    \/ ApplyChanges(c) \/ TimerFires(c) \/ Applied(c)
    \/ Return(c)

Next ==
    \/ \E c \in Callers : \/ \E r \in Requests : Call(c, r)
                          \/ FnStep(c)
    \/ Restart

Spec == Init /\ [][Next]_vars

\* Every await ends: requests are aborted after this.timeout, the apply
\* timer fires after 500 ms, the rest is synchronous.
FairSpec == Spec /\ \A c \in Callers : WF_vars(FnStep(c))
-----------------------------------------------------------------------------
AliasContents == {None} \cup SUBSET Ips
Configs == [aliases : [Aliases -> AliasContents],
            rules : SUBSET [id : RuleIds, ip : Ips]]

TypeOK ==
    /\ LockTypeOK
    /\ req \in [Callers -> Requests \cup {None}]
    /\ step \in [Callers -> Steps]
    /\ seen \in [Callers -> AliasContents]
    /\ todo \in [Callers -> SUBSET RuleIds]
    /\ deleted \in [Callers -> BOOLEAN]
    /\ applyTimer \in BOOLEAN
    /\ Staged \in Configs
    /\ inForce \in Configs
    /\ asked \subseteq Aliases \X Ips

\* The read-modify-write of an alias works on what is still there: when the
\* DELETE goes out the alias has the content that was listed, and when the
\* POST goes out after a listing that found it, it is gone or still the same.
\* Whatever fails or restarts in between, no other write slips in.
ReadStaysFresh ==
    \A c \in Callers :
        /\ step[c] = "delete" => aliases[AliasOf(req[c])] = seen[c]
        /\ step[c] = "create" /\ seen[c] # None
              => aliases[AliasOf(req[c])] \in {None, seen[c]}

\* The early return of applyChanges is never taken: a function that reaches
\* it finds no timer, so none answers before its own change was applied.
ApplyNeverSuppressed ==
    \A c \in Callers : step[c] = "apply" => ~applyTimer

\* A block or an isolation answered as done is in the staged alias,
\* whichever requests failed or timed out and whatever ran before (of a
\* firewall that takes the field `address`).
ReportedBlockStaged ==
    \A c \in Callers :
        step[c] = "done" /\ IsAdd(req[c])
            => req[c].on \in Content(aliases[AliasOf(req[c])])

\* No protected address ever is in an alias or in a blocking rule, staged or in
\* force, but for the aliases into which an isolateHost or a createAlias, which
\* do not validate, was to put it: what such a call left behind spreads to no
\* other alias, and validation holds however often an alias is rewritten.
ProtectedNeverBlocked ==
    \A conf \in {Staged, inForce} :
        /\ \A a \in Aliases :
              \A ip \in Content(conf.aliases[a]) \cap Protected : <<a, ip>> \in asked
        /\ \A r \in conf.rules : r.ip \notin Protected

\* What holds of a caller's function at each of its awaits.
FnInv(c) ==
    /\ step[c] # "none" <=> Running(c)
    /\ req[c] = None <=> at[c] = "idle"
    /\ req[c] # None => Valid(req[c]) /\ Unvalidated(req[c]) \subseteq asked
    /\ step[c] \in {"list", "delete", "create"} => IsAdd(req[c]) \/ IsRemove(req[c])
    /\ step[c] = "postRule" => req[c].kind = "blockPort"
    /\ step[c] \in {"getRules", "deleteRules"} => req[c].kind = "deleteRule"
    /\ step[c] \in {"unblockRule", "createAlias", "deleteAlias"} => req[c].kind = step[c]
    /\ step[c] = "none" => seen[c] = None
    /\ step[c] = "delete" => seen[c] # None
    /\ step[c] \in {"delete", "create"}
          => \A ip \in Content(seen[c]) \cap Protected : <<AliasOf(req[c]), ip>> \in asked
    /\ step[c] \in {"apply", "armed", "applying", "done"}
       /\ IsAdd(req[c]) /\ "address" \in Fields
          => req[c].on \in Content(aliases[AliasOf(req[c])])

\* The debounce timer is set exactly while a running function waits for it.
TimerOwned == applyTimer <=> \E c \in Callers : step[c] = "armed"

\* The inductive invariant behind the four properties above.
AgentInv ==
    /\ TypeOK
    /\ LockInv
    /\ \A c \in Callers : FnInv(c)
    /\ TimerOwned
    /\ ReadStaysFresh
    /\ ProtectedNeverBlocked

\* With no write in progress the firewall enforces what is staged (when no
\* request fails, and alias creation and deletion by name aside).
QuiescentInForce == ~writeLock => inForce = Staged

\* A function that started returns, and so frees the lock, whatever its
\* requests are answered.
StartedWriteReturns == \A c \in Callers : Running(c) ~> at[c] = "idle"

(***************************************************************************)
(* Seen from the callers, an operation on an alias happens at one instant  *)
(* between its call and its return.  While an alias is being rewritten it  *)
(* stands for the content that was listed.                                 *)
(***************************************************************************)
BeingRewritten(a) ==
    {c \in Callers : step[c] = "create" /\ AliasOf(req[c]) = a /\ seen[c] # None}

Addresses == [a \in Managed |->
                IF BeingRewritten(a) # {}
                THEN seen[CHOOSE c \in BeingRewritten(a) : TRUE]
                ELSE Content(aliases[a])]

\* The effect of a call is there, or it never will be.
EffectTaken == {c \in Callers : step[c] \in {"apply", "armed", "applying",
                                            "done", "failed"}}

Register == INSTANCE AliasRegister WITH
    Names <- Managed, addrs <- Addresses, pending <- req, taken <- EffectTaken

\* The agent implements atomic alias operations, when no request fails.
AtomicAliasOperations == Register!Spec

(***************************************************************************)
(* What the repository says of the agent and the code does not do.         *)
(***************************************************************************)
\* "Add an IP address to a pfSense alias. Fetches current alias, appends IP"
\* (addIpToAlias): once the new content is posted, the alias holds the addresses
\* it had when it was listed, and the new one.
AppendsAddress ==
    \A c \in Callers :
        step[c] = "apply" /\ IsAdd(req[c])
            => aliases[AliasOf(req[c])] = Content(seen[c]) \cup {req[c].on}
=============================================================================
