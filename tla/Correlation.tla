---------------------------- MODULE Correlation -----------------------------
(***************************************************************************)
(* CorrelationService.runCycle for one rule: the search of the events since *)
(* the rule last ran, the detections it yields, the duplicate check, the    *)
(* incident, its evidence and its playbook.  A worker is one of the two     *)
(* jobs the correlation queue runs at a time; workers interleave at every   *)
(* await.  Rules share no state, so a behaviour is about one of them: R001  *)
(* (brute force), R002 (pass the hash), R003 (exfiltration), R004 (logs     *)
(* cleared or gone quiet) or R005 (reconnaissance).                         *)
(*                                                                          *)
(* Time is a bounded clock.  An event is collected at one moment and        *)
(* normalized then or later; R001 searches by the second stamp, the other   *)
(* rules by the first, and all measure a burst by the first.                *)
(***************************************************************************)
EXTENDS Naturals, Sequences, FiniteSets, FiniteSetsExt

CONSTANTS
    Workers, Events,
    Sources,        \* what events are grouped by: R003 takes users, R004 hosts,
                    \* the others source addresses
    Hosts, Targets,
    SourceOf,       \* [Events -> Sources]
    HostOf,         \* [Sources -> Hosts]: the host an address attacks
    TargetOf,       \* [Events -> Targets]: destination_ip (and port)
    SenderOf,       \* [Events -> Targets \cup {None}]: source_ip, if that of a target
    Enriched,       \* events the first query of a rule asks for: those with the
                    \* fields auth_package and logon_type (R002) or bytes_sent
                    \* (R003), or with the event_id of a cleared log (R004)
    Rules,          \* the rules of this instance
    Threshold,      \* definition.threshold; R003: the connections to exceed (100)
    MinTargets,     \* the targets of a scan (3); R003: the targets to exceed (10)
    MinVolume,      \* the volume to exceed, in events of one unit
    Baseline,       \* [Sources -> Nat]: events of a host a day ago
    MinBaseline,    \* the baseline a host needs (5)
    MaxSpan,        \* definition.max_time_span_seconds
    Window,         \* the 5 minutes of findRecentDuplicate
    Buffer,         \* the 5 minutes of fetchMatchingEventsFromEs
    MaxDelay,       \* bound on the time from collection to normalization
    Faults,         \* see Fails, Arrive, Restart
    MaxTime,        \* bound on the clock
    None            \* no detection, no target

ASSUME CorrelationAssumption ==
    /\ SourceOf \in [Events -> Sources] /\ HostOf \in [Sources -> Hosts]
    /\ TargetOf \in [Events -> Targets] /\ SenderOf \in [Events -> Targets \cup {None}]
    /\ Enriched \subseteq Events
    /\ Rules \subseteq {"R001", "R002", "R003", "R004", "R005"} /\ MaxDelay \in Nat
    /\ Threshold \in Nat \ {0} /\ MinTargets \in Nat /\ MaxSpan \in Nat
    /\ MinVolume \in Nat /\ Baseline \in [Sources -> Nat] /\ MinBaseline \in Nat
    /\ Window \in Nat /\ Buffer \in Nat /\ MaxTime \in Nat \ {0}
    /\ Faults \subseteq {"es", "db", "lag", "crash"}
    /\ None \notin Targets

VARIABLES
    now,            \* the clock
    rule,           \* the rule this is about; never changes
    collected,      \* when an event happened at its source
    stamp,          \* when an event was normalized; 0: not yet
    visible,        \* the events the index returns
    active,         \* correlation_rules.is_active
    lastRun,        \* lastRunPerRule of the rule; 0: no entry
    incidents,      \* incidents of the rule, in order of triggered_at
    at,             \* the await a worker stands at
    since, upto,    \* the bounds of its search
    hits,           \* what the index found for it
    unseen,         \* (history) what it would have found, had the index refreshed
    todo,           \* detections it has yet to handle
    cur, inc,       \* the detection and the incident it is at
    scanned,        \* (history) how often an event was part of a search
    detected,       \* (history) detections
    failed,         \* (history) those whose handling an error cut short
    gaps,           \* (history) times at which a search was in flight
    late            \* (history) events the index returned too late for a search

store == <<rule, collected, stamp, visible, active>>
local == <<at, since, upto, hits, unseen, todo, cur, inc>>
history == <<scanned, detected, failed, gaps, late>>
vars == <<now, store, lastRun, incidents, local, history>>

Awaits == {"idle", "ready", "search", "found", "again", "check", "create", "store", "trigger"}

\* A detection: the addresses and hosts it names in related_entities, and the
\* first of each.  R003 names the targets of a user, or his name only.
Names     == Sources \cup Hosts \cup Targets
Detection == [source : Sources, names : SUBSET Names, first : SUBSET Names]

\* The row, the ids of its incident_events and whether its playbook started.
Incident == [of : Detection, at : Nat, events : SUBSET Events, triggered : BOOLEAN]

\* A call to a service may throw.
Fails(service) == IF service \in Faults THEN {TRUE, FALSE} ELSE {FALSE}

Init ==
    /\ now = 1
    /\ rule \in Rules
    /\ collected = [e \in Events |-> 0]
    /\ stamp = [e \in Events |-> 0] /\ visible = {}
    /\ active = TRUE
    /\ lastRun = 0 /\ incidents = <<>>
    /\ at = [w \in Workers |-> "idle"]
    /\ since = [w \in Workers |-> 0] /\ upto = [w \in Workers |-> 0]
    /\ hits = [w \in Workers |-> {}] /\ unseen = [w \in Workers |-> {}]
    /\ todo = [w \in Workers |-> {}]
    /\ cur = [w \in Workers |-> None] /\ inc = [w \in Workers |-> 0]
    /\ scanned = [e \in Events |-> 0] /\ detected = {} /\ failed = {}
    /\ gaps = {} /\ late = {}
-----------------------------------------------------------------------------
Tick ==
    /\ now < MaxTime
    /\ now' = now + 1
    /\ UNCHANGED <<store, lastRun, incidents, local, history>>

\* An event is normalized, some time after it was collected, and written to the
\* index.  It is found at once, or ("lag") only after the index refreshed.
Arrive(e) ==
    /\ stamp[e] = 0
    /\ stamp' = [stamp EXCEPT ![e] = now]
    /\ \E t \in 1..now : t + MaxDelay >= now /\ collected' = [collected EXCEPT ![e] = t]
    /\ \E lagging \in Fails("lag") : visible' = IF lagging THEN visible ELSE visible \cup {e}
    /\ UNCHANGED <<now, rule, active, lastRun, incidents, local, history>>

Refresh(e) ==
    /\ stamp[e] # 0 /\ e \notin visible
    /\ visible' = visible \cup {e}
    /\ UNCHANGED <<now, rule, collected, stamp, active, lastRun, incidents, local, history>>

\* PATCH rules/:id {is_active}.
ToggleRule ==
    /\ active' = ~active
    /\ UNCHANGED <<now, rule, collected, stamp, visible, lastRun, incidents, local, history>>
-----------------------------------------------------------------------------
Goto(w, a) == at' = [at EXCEPT ![w] = a]

Idle(w) ==
    /\ Goto(w, "idle")
    /\ since' = [since EXCEPT ![w] = 0] /\ upto' = [upto EXCEPT ![w] = 0]
    /\ hits' = [hits EXCEPT ![w] = {}] /\ unseen' = [unseen EXCEPT ![w] = {}]
    /\ todo' = [todo EXCEPT ![w] = {}]
    /\ cur' = [cur EXCEPT ![w] = None] /\ inc' = [inc EXCEPT ![w] = 0]

\* A cycle reads the rules; one that is inactive is skipped.
BeginCycle(w) ==
    /\ at[w] = "idle"
    /\ active
    /\ Goto(w, "ready")
    /\ UNCHANGED <<now, store, lastRun, incidents, since, upto, hits, unseen, todo, cur, inc, history>>

\* It reaches the rule, after those before it: detect is called with the last
\* run, or the epoch, and takes the clock as the end of its range.
StartRule(w) ==
    /\ at[w] = "ready"
    /\ now < MaxTime
    /\ since' = [since EXCEPT ![w] = lastRun]
    /\ upto' = [upto EXCEPT ![w] = now]
    /\ Goto(w, "search")
    /\ UNCHANGED <<now, store, lastRun, incidents, hits, unseen, todo, cur, inc, history>>

\* The stamp the range of a rule's query is about.
RangeStamp(e) == IF rule = "R001" THEN stamp[e] ELSE collected[e]

InRange(w, e) == since[w] <= RangeStamp(e) /\ RangeStamp(e) <= upto[w]

\* The index evaluates a query at some moment of its round trip.
Query(w, sought) ==
    /\ hits' = [hits EXCEPT ![w] = {e \in visible \cap sought : InRange(w, e)}]
    /\ unseen' = [unseen EXCEPT ![w] =
                     {e \in Events \ visible : stamp[e] # 0 /\ InRange(w, e)}]
    /\ UNCHANGED <<now, store, lastRun, incidents, since, upto, todo, cur, inc, history>>

\* detect's query; R002, R003 and R004 first ask for some events only.
Search(w) ==
    /\ at[w] = "search"
    /\ Query(w, IF rule \in {"R002", "R003", "R004"} THEN Enriched ELSE Events)
    /\ Goto(w, "found")

(***************************************************************************)
(* The operators named ...Mutant are bugs the code does not have; the      *)
(* properties below reject each of them.                                   *)
(***************************************************************************)
Span(B) == Max({collected[e] : e \in B}) - Min({collected[e] : e \in B})

\* The span of the burst is not checked.
AnySpanMutant(B) == Cardinality(B) >= Threshold

\* R001: enough failed logins of one address, close enough together.
BruteForce(B) == Cardinality(B) >= Threshold /\ Span(B) <= MaxSpan

Aims(B) == {TargetOf[e] : e \in B}

\* R005: and towards enough targets.
Reconnaissance(B) == BruteForce(B) /\ Cardinality(Aims(B)) >= MinTargets

\* R003: bytes sent by a user, or else his connections.
Volume(B)      == Cardinality(B) > MinVolume
Connections(B) == Cardinality(B) > Threshold /\ Cardinality(Aims(B)) > MinTargets

\* The bucket that comes first: the target of most events.
Leading(B) ==
    LET Hits(t) == Cardinality({e \in B : TargetOf[e] = t})
    IN  CHOOSE t \in Aims(B) : \A u \in Aims(B) : Hits(u) <= Hits(t)

\* What a source needs, and its detection names, when the answer to query q
\* ("found" or "again") holds its events B.
Matches(q, B) ==
    CASE rule = "R001" -> BruteForce(B)
      [] rule = "R003" -> IF q = "found" THEN Volume(B) ELSE Connections(B)
      [] rule = "R005" -> Reconnaissance(B)
      [] OTHER -> TRUE

Named(q, s, B) ==
    CASE rule \in {"R001", "R002"} -> {s, HostOf[s]}
      [] rule = "R003" -> IF q = "found" THEN Aims(B) ELSE {}
      [] OTHER -> {s}

Of(S, s) == {e \in S : SourceOf[e] = s}

Detect(q, s, B) ==
    [source |-> s, names |-> Named(q, s, B),
     first |-> IF rule = "R003" /\ q = "found" THEN {Leading(B)} ELSE Named(q, s, B)]

\* One detection per source whose events match.
Detections(q, S) ==
    {Detect(q, s, Of(S, s)) : s \in {r \in Sources : Of(S, r) # {} /\ Matches(q, Of(S, r))}}

\* R002 asks for the text of all events when none is enriched, and R003 counts
\* connections when no volume is too high.
FallsBack(w) ==
    /\ at[w] = "found"
    /\ \/ rule = "R002" /\ hits[w] = {}
       \/ rule = "R003" /\ Detections("found", hits[w]) = {}

Fallback(w) ==
    /\ FallsBack(w)
    /\ Query(w, Events)
    /\ Goto(w, "again")

\* R004 goes on to compare what each host sent since the last run with what it
\* sent in five minutes a day ago; one that sent nothing is not looked at.  The
\* drop is rounded to the nearest percent and has to reach 10.
Quiet(n, baseline) ==
    /\ n > 0 /\ n < baseline
    /\ baseline >= MinBaseline
    /\ 200 * (baseline - n) >= 19 * baseline

ComparesVolume(w) == rule = "R004" /\ at[w] = "found"

\* The detections of hosts that went quiet, beside those of cleared logs.
CompareVolume(w) ==
    LET Sent(s) == {e \in Of(visible, s) : since[w] <= collected[e] /\ collected[e] <= now}
    IN  /\ ComparesVolume(w)
        /\ todo' = [todo EXCEPT ![w] =
                      {Detect("again", s, {}) : s \in {r \in Sources :
                                                   Quiet(Cardinality(Sent(r)), Baseline[r])}}]
        /\ Goto(w, "again")
        /\ UNCHANGED <<now, store, lastRun, incidents, since, upto, hits, unseen, cur, inc, history>>

\* The last run is set in a finally block.
FinallyMutant(w) ==
    /\ at[w] \in {"search", "found", "again"}
    /\ TRUE \in Fails("es")
    /\ lastRun' = now
    /\ Idle(w)
    /\ UNCHANGED <<now, store, incidents, history>>

\* The search throws, before or after the index evaluated it: the rule's
\* cycle ends and its last run stays.
SearchFails(w) ==
    /\ at[w] \in {"search", "found", "again"}
    /\ TRUE \in Fails("es")
    /\ Idle(w)
    /\ UNCHANGED <<now, store, lastRun, incidents, history>>

\* The answer arrives, at least one clock unit after the query left, and the
\* last run is set.
SetLastRun(w, time) ==
    LET new == todo[w] \cup Detections(at[w], hits[w]) IN
    /\ at[w] \in {"found", "again"} /\ ~FallsBack(w) /\ ~ComparesVolume(w)
    /\ now > upto[w]
    /\ lastRun' = time
    /\ todo' = [todo EXCEPT ![w] = new]
    /\ Goto(w, "check")
    /\ scanned' = [e \in Events |-> IF e \in hits[w] THEN scanned[e] + 1 ELSE scanned[e]]
    /\ detected' = detected \cup new
    /\ gaps' = gaps \cup (upto[w] .. (now - 1))
    /\ late' = late \cup unseen[w]
    /\ unseen' = [unseen EXCEPT ![w] = {}]
    /\ UNCHANGED <<now, store, incidents, since, upto, hits, cur, inc, failed>>

\* The end of the range, or the moment after now, becomes the last run.
EndOfRangeMutant(w) == SetLastRun(w, upto[w])
AfterNowMutant(w)   == SetLastRun(w, now + 1)

\* The clock of now, not the end of the range, becomes the last run.
Found(w) == SetLastRun(w, now)

\* Incident k names the first address or the first host of d.
SameEntity(k, d) == d.first \cap incidents[k].of.names # {}

\* The oldest incident of the window is looked at.
OldestMutant(d) ==
    \E k \in DOMAIN incidents :
        /\ incidents[k].at + Window >= now
        /\ \A j \in 1..(k - 1) : incidents[j].at + Window < now
        /\ SameEntity(k, d)

\* The most recent incident of the rule in the window, if any, is a duplicate
\* when it names the same entity.
Duplicate(d) ==
    LET k == Len(incidents) IN
    /\ k > 0
    /\ incidents[k].at + Window >= now
    /\ SameEntity(k, d)

Drop(w, d) ==
    /\ todo' = [todo EXCEPT ![w] = @ \ {d}]
    /\ cur' = [cur EXCEPT ![w] = None] /\ inc' = [inc EXCEPT ![w] = 0]
    /\ Goto(w, "check")
    /\ UNCHANGED <<since, upto, hits, unseen>>

\* An error inside handleDetection is logged and the detection dropped.
DropFailed(w, d) ==
    /\ TRUE \in Fails("db")
    /\ Drop(w, d)
    /\ failed' = failed \cup {d}

\* A duplicate ends the rule, not only the detection.
ReturnMutant(w) ==
    /\ at[w] = "check"
    /\ \E d \in todo[w] :
          \/ Duplicate(d) /\ Idle(w) /\ UNCHANGED failed
          \/ DropFailed(w, d)
          \/ /\ ~Duplicate(d)
             /\ cur' = [cur EXCEPT ![w] = d]
             /\ Goto(w, "create")
             /\ UNCHANGED <<since, upto, hits, unseen, todo, inc, failed>>
    /\ UNCHANGED <<now, store, lastRun, incidents, scanned, detected, gaps, late>>

\* handleDetection: a duplicate, or a failing query, ends it.
CheckDuplicate(w) ==
    /\ at[w] = "check"
    /\ \E d \in todo[w] :
          \/ Duplicate(d) /\ Drop(w, d) /\ UNCHANGED failed
          \/ DropFailed(w, d)
          \/ /\ ~Duplicate(d)
             /\ cur' = [cur EXCEPT ![w] = d]
             /\ Goto(w, "create")
             /\ UNCHANGED <<since, upto, hits, unseen, todo, inc, failed>>
    /\ UNCHANGED <<now, store, lastRun, incidents, scanned, detected, gaps, late>>

CreateIncident(w) ==
    /\ at[w] = "create"
    /\ \/ /\ incidents' = Append(incidents, [of |-> cur[w], at |-> now, events |-> {},
                                             triggered |-> FALSE])
          /\ inc' = [inc EXCEPT ![w] = Len(incidents) + 1]
          /\ Goto(w, "store")
          /\ UNCHANGED <<since, upto, hits, unseen, todo, cur, failed>>
       \/ DropFailed(w, cur[w]) /\ UNCHANGED incidents
    /\ UNCHANGED <<now, store, lastRun, scanned, detected, gaps, late>>

\* The events of the sender, the host or the user that the detection names.  The
\* addresses R003 names are targets, but they too are looked for as senders.
Evidence(d) ==
    {e \in Of(visible, d.source) :
        /\ stamp[e] + Buffer >= now
        /\ rule = "R003" /\ d.names # {} => SenderOf[e] \in d.names}

\* storeMatchingEvents: a second query, by the clock of now; a failed query
\* or insert leaves events out.
StoreEvents(w) ==
    LET found == Evidence(cur[w]) IN
    /\ at[w] = "store"
    /\ \E stored \in {found} \cup (IF TRUE \in Fails("db") \cup Fails("es")
                                   THEN SUBSET found ELSE {}) :
          incidents' = [incidents EXCEPT ![inc[w]].events = stored]
    /\ Goto(w, "trigger")
    /\ UNCHANGED <<now, store, lastRun, since, upto, hits, unseen, todo, cur, inc, history>>

\* executePlaybook; when it throws, the detection counts as handled.
Trigger(w) ==
    /\ at[w] = "trigger"
    /\ \/ /\ incidents' = [incidents EXCEPT ![inc[w]].triggered = TRUE]
          /\ Drop(w, cur[w])
          /\ UNCHANGED failed
       \/ DropFailed(w, cur[w]) /\ UNCHANGED incidents
    /\ UNCHANGED <<now, store, lastRun, scanned, detected, gaps, late>>

EndRule(w) ==
    /\ at[w] = "check" /\ todo[w] = {}
    /\ Idle(w)
    /\ UNCHANGED <<now, store, lastRun, incidents, history>>

\* The backend dies and restarts: the last run is lost with the process.
Restart ==
    /\ "crash" \in Faults
    /\ lastRun' = 0
    /\ at' = [w \in Workers |-> "idle"]
    /\ since' = [w \in Workers |-> 0] /\ upto' = [w \in Workers |-> 0]
    /\ hits' = [w \in Workers |-> {}] /\ unseen' = [w \in Workers |-> {}]
    /\ todo' = [w \in Workers |-> {}]
    /\ cur' = [w \in Workers |-> None] /\ inc' = [w \in Workers |-> 0]
    /\ UNCHANGED <<now, store, incidents, history>>

RunRule(w) ==
    \/ BeginCycle(w) \/ StartRule(w) \/ Search(w) \/ Fallback(w) \/ CompareVolume(w) \/ SearchFails(w) \/ Found(w)
    \/ CheckDuplicate(w) \/ CreateIncident(w) \/ StoreEvents(w) \/ Trigger(w) \/ EndRule(w)

Next ==
    \/ Tick
    \/ \E e \in Events : Arrive(e) \/ Refresh(e)
    \/ ToggleRule
    \/ \E w \in Workers : RunRule(w)
    \/ Restart

Spec == Init /\ [][Next]_vars
-----------------------------------------------------------------------------
TypeOK ==
    /\ now \in 1..MaxTime
    /\ rule \in Rules
    /\ stamp \in [Events -> 0..MaxTime]
    /\ \A e \in Events : collected[e] \in 0..stamp[e]
    /\ visible \subseteq {e \in Events : stamp[e] # 0}
    /\ active \in BOOLEAN
    /\ lastRun \in 0..now
    /\ incidents \in Seq(Incident)
    /\ at \in [Workers -> Awaits]
    /\ since \in [Workers -> 0..now] /\ upto \in [Workers -> 0..now]
    /\ hits \in [Workers -> SUBSET Events] /\ unseen \in [Workers -> SUBSET Events]
    /\ todo \in [Workers -> SUBSET Detection]
    /\ cur \in [Workers -> Detection \cup {None}]
    /\ inc \in [Workers -> 0..Len(incidents)]
    /\ scanned \in [Events -> Nat]
    /\ detected \subseteq Detection /\ failed \subseteq detected
    /\ gaps \subseteq 1..MaxTime /\ late \subseteq Events

\* Searches that fail, overlap or follow a restart or a pause of the rule lose
\* nothing: an event written to the index and older than the last run was part
\* of a search.  It is lost for one of four reasons: it was normalized while a
\* search was in flight; a search whose range held it was answered before the
\* index had refreshed, as bulkInsert does not wait for that; it was normalized
\* after it was collected, when the rule goes by the time of collection; R002
\* and R003 ask for events without fields only when those that have them bring
\* no detection.  Of R004, this is about the events of cleared logs.
OnlyGapsAreLost ==
    \A e \in Events :
        stamp[e] # 0 /\ RangeStamp(e) < lastRun =>
            \/ scanned[e] > 0 \/ stamp[e] \in gaps \/ e \in late
            \/ RangeStamp(e) # stamp[e]
            \/ rule \in {"R002", "R003", "R004"} /\ e \notin Enriched

\* As long as cycles do not overlap and the process lives, no event is part of
\* two searches, although the range of a search includes both of its ends.
ScannedOnce == \A e \in Events : scanned[e] <= 1

\* The duplicate check works between neighbours: an incident names the first
\* address or the host of the next one only when the window has passed.
NeighboursDiffer ==
    \A k \in 2..Len(incidents) :
        \/ incidents[k].at > incidents[k - 1].at + Window
        \/ ~SameEntity(k - 1, incidents[k].of)

\* No incident, hence no playbook, without a burst: the address of an incident
\* of R001 or R005 has Threshold events within MaxSpan, of a scan to MinTargets
\* targets, whatever range the search covered.
IncidentsAreBursts ==
    rule \in {"R001", "R005"} =>
        \A k \in DOMAIN incidents :
            \E B \in SUBSET Of(visible, incidents[k].of.source) :
                /\ Cardinality(B) >= Threshold /\ Span(B) <= MaxSpan
                /\ rule = "R005" => Cardinality(Aims(B)) >= MinTargets

\* No detection is forgotten: with the process alive and no cycle under way,
\* each one was cut short by an error or has an incident, its own or one that
\* names its first address or host, and the playbook of each incident was
\* started.
DetectionsHandled ==
    (\A w \in Workers : at[w] = "idle") =>
        /\ \A d \in detected \ failed :
              \E k \in DOMAIN incidents : incidents[k].of = d \/ SameEntity(k, d)
        /\ \A k \in DOMAIN incidents :
              incidents[k].triggered \/ incidents[k].of \in failed
=============================================================================
