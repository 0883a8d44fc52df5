------------------------------- MODULE Casework -------------------------------
(***************************************************************************)
(* What analysts do with what the SIEM found: IncidentsService.update and  *)
(* its audit trail beside the SOAR that closes the same incident, and      *)
(* FlaggedEventsService (flag, unflag, update, link).  Their requests are  *)
(* admitted, and may fail, as those of Access, beside the changes of       *)
(* accounts modelled there.                                                *)
(***************************************************************************)
EXTENDS Access, FiniteSets, SequencesExt

CONSTANTS
    Hashes,         \* ingestion hashes of the events that can be flagged
    Flagged         \* those flagged at first

FlagStatus == {"OPEN", "INVESTIGATING", "RESOLVED", "FALSE_POSITIVE"}
Statuses   == {"OPEN", "IN_PROGRESS", "RESOLVED", "FALSE_POSITIVE"}
Closed     == {"RESOLVED", "FALSE_POSITIVE"}

ASSUME CaseworkAssumption ==
    /\ Flagged \subseteq Hashes
    /\ None \notin Hashes \X Nat
    /\ \A r \in Requests :
          /\ r.op = "updateIncident" => r.val \in Statuses \cup {None}
          /\ r.op \in {"flag", "unflag", "updateFlag", "link"} => r.on \in Hashes
          /\ r.op = "updateFlag" => r.val \in FlagStatus
          /\ r.op = "link" => r.val \in Hashes

VARIABLES
    status,         \* status of the incident
    trail,          \* its status changes in audit_trail, by performed_at
    muddled,        \* (history) the trail need not tell the status: see below
    flags,          \* flagged_events by ingestion_hash: the row's id or None
    flagStatus,     \* and its status
    made,           \* ids given to the rows of a hash
    links,          \* flagged_event_links: pairs of ids
    crossed         \* (history) pairs linked by two requests at once

incidentVars == <<status, trail, muddled>>
flagVars     == <<flags, flagStatus, made, links, crossed>>
caseVars     == <<incidentVars, flagVars>>
vars         == <<accessVars, caseVars>>

Id(h, n)   == <<h, n>>          \* a row flagged again after its removal is another
ById(id)   == id[1]

Init ==
    /\ AccessInit
    /\ status = "OPEN" /\ trail = <<>> /\ muddled = FALSE
    /\ flags = [h \in Hashes |-> IF h \in Flagged THEN Id(h, 1) ELSE None]
    /\ flagStatus = [h \in Hashes |-> "OPEN"]
    /\ made = [h \in Hashes |-> IF h \in Flagged THEN 1 ELSE 0]
    /\ links = {} /\ crossed = {}
-----------------------------------------------------------------------------
\* Requests that read the incident and have not written their audit row.
Updating == {c \in Callers : at[c] \in {"writeIncident", "audit"}}

\* update(): the incident is read, for the audit row only, ...
ReadIncident(c) ==
    /\ at[c] = "updateIncident"
    /\ Continue(c, "writeIncident", status)
    /\ muddled' = (muddled \/ Updating # {})
    /\ UNCHANGED <<accountVars, calls, status, trail, flagVars>>

\* The row of the audit trail goes first.
AuditFirstMutant(c) ==
    /\ at[c] = "writeIncident"
    /\ trail' = IF req[c].val \in {None, seen[c]} THEN trail
                ELSE Append(trail, [old |-> seen[c], new |-> req[c].val])
    /\ \/ status' = IF req[c].val = None THEN status ELSE req[c].val
       \/ "db" \in Faults /\ UNCHANGED status
    /\ End(c)
    /\ UNCHANGED <<accountVars, calls, muddled, flagVars>>

\* ... written, with the status of the request if it names one, ...
WriteIncident(c) ==
    /\ at[c] = "writeIncident"
    /\ status' = IF req[c].val = None THEN status ELSE req[c].val
    /\ Continue(c, "audit", seen[c])
    /\ UNCHANGED <<accountVars, calls, trail, muddled, flagVars>>

\* ... and the change is entered in the trail; an error of the insert is
\* swallowed.
AuditUpdate(c) ==
    /\ at[c] = "audit"
    /\ \/ /\ trail' = IF req[c].val \in {None, seen[c]} THEN trail
                      ELSE Append(trail, [old |-> seen[c], new |-> req[c].val])
          /\ UNCHANGED muddled
       \/ /\ "db" \in Faults
          /\ muddled' = TRUE
          /\ UNCHANGED trail
    /\ End(c)
    /\ UNCHANGED <<accountVars, calls, status, flagVars>>

\* autoResolveIncident of the SOAR: whatever the status, and not audited.
SoarResolves ==
    /\ status' = "RESOLVED"
    /\ muddled' = TRUE
    /\ UNCHANGED <<accessVars, trail, flagVars>>
-----------------------------------------------------------------------------
\* flag(), unflag(), update(): the row is looked up by its hash.  Without one,
\* flag() goes on to insert it, the others answer 404.
FindFlag(c) ==
    /\ at[c] \in {"flag", "unflag", "updateFlag"}
    /\ LET found == flags[req[c].on]
       IN  IF found = None /\ req[c].op # "flag" THEN End(c)
           ELSE Continue(c, IF found = None THEN "insertFlag" ELSE "writeFlag", found)
    /\ UNCHANGED <<accountVars, calls, caseVars>>

\* The row is inserted, unless another request did meanwhile: hashes are
\* unique.
InsertFlag(c) ==
    LET h == req[c].on IN
    /\ at[c] = "insertFlag"
    /\ IF flags[h] = None
       THEN /\ flags' = [flags EXCEPT ![h] = Id(h, made[h] + 1)]
            /\ flagStatus' = [flagStatus EXCEPT ![h] = "OPEN"]
            /\ made' = [made EXCEPT ![h] = @ + 1]
       ELSE UNCHANGED <<flags, flagStatus, made>>
    /\ End(c)
    /\ UNCHANGED <<accountVars, calls, incidentVars, links, crossed>>

\* The links of the row stay behind.
NoCascadeMutant(id) == links

\* The links of a row go with it (onDelete: Cascade).
LinksWithout(id) == {l \in links : id # l[1] /\ id # l[2]}

\* The row of that id is updated or deleted; if it is gone, the request fails.
WriteFlag(c) ==
    LET h == req[c].on IN
    /\ at[c] = "writeFlag"
    /\ IF flags[h] # seen[c] THEN UNCHANGED <<flags, flagStatus, links>>
       ELSE IF req[c].op = "unflag"
       THEN /\ flags' = [flags EXCEPT ![h] = None]
            /\ links' = LinksWithout(seen[c])
            /\ UNCHANGED flagStatus
       ELSE /\ flagStatus' = [flagStatus EXCEPT ![h] =
                                IF req[c].op = "flag" THEN "OPEN" ELSE req[c].val]
            /\ UNCHANGED <<flags, links>>
    /\ End(c)
    /\ UNCHANGED <<accountVars, calls, incidentVars, made, crossed>>

\* link(): the first row is found, ...
FindFrom(c) ==
    /\ at[c] = "link"
    /\ Continue(c, "findTo", flags[req[c].on])
    /\ UNCHANGED <<accountVars, calls, caseVars>>

\* ... then the second; both have to exist.
FindTo(c) ==
    LET pair == <<seen[c], flags[req[c].val]>> IN
    /\ at[c] = "findTo"
    /\ IF None \in {pair[1], pair[2]} THEN End(c) ELSE Continue(c, "findLink", pair)
    /\ UNCHANGED <<accountVars, calls, caseVars>>

Swap(pair) == <<pair[2], pair[1]>>

\* Only the direction asked for is looked for.
OneWayMutant(pair) == pair \in links

Linked(pair) == pair \in links \/ Swap(pair) \in links

\* Those that found no link of the same two rows and are to create one.
Linking(pair) ==
    {c \in Callers : at[c] = "insertLink" /\ seen[c] \in {pair, Swap(pair)}}

\* The link is looked for in both directions: 409 if there is one.
FindLink(c) ==
    LET pair == seen[c] IN
    /\ at[c] = "findLink"
    /\ IF Linked(pair) THEN End(c) /\ UNCHANGED crossed
       ELSE /\ Continue(c, "insertLink", pair)
            /\ crossed' = IF Linking(pair) = {} THEN crossed
                          ELSE crossed \cup {pair, Swap(pair)}
    /\ UNCHANGED <<accountVars, calls, incidentVars, flags, flagStatus, made, links>>

\* The link is inserted; the database refuses a second one of that direction
\* and one to a row that is gone.
InsertLink(c) ==
    LET pair == seen[c] IN
    /\ at[c] = "insertLink"
    /\ links' = IF \A id \in {pair[1], pair[2]} : flags[ById(id)] = id
                THEN links \cup {pair} ELSE links
    /\ End(c)
    /\ UNCHANGED <<accountVars, calls, incidentVars, flags, flagStatus, made, crossed>>
-----------------------------------------------------------------------------
CaseStep(c) ==
    \/ ReadIncident(c) \/ WriteIncident(c) \/ AuditUpdate(c)
    \/ FindFlag(c) \/ InsertFlag(c) \/ WriteFlag(c)
    \/ FindFrom(c) \/ FindTo(c) \/ FindLink(c) \/ InsertLink(c)

\* A row that was to be written when the backend died is lost.
Restart ==
    /\ RestartCalls
    /\ muddled' = (muddled \/ \E c \in Callers : at[c] = "audit")
    /\ UNCHANGED <<status, trail, flagVars>>

Next ==
    \/ AccessNext /\ UNCHANGED caseVars
    \/ \E c \in Callers : \/ Throws(c) /\ UNCHANGED caseVars
                          \/ CaseStep(c)
    \/ SoarResolves
    \/ Restart

Spec == Init /\ [][Next]_vars
-----------------------------------------------------------------------------
Steps == AccessSteps \cup {"writeIncident", "audit", "insertFlag", "writeFlag",
                           "findTo", "findLink", "insertLink"}

Ids == Hashes \X Nat

\* What a request may have read: a user, a status, a row or two, or nothing.
Seen == {None} \cup Users \cup Statuses \cup Ids \cup (Ids \X Ids)

CallsOK ==
    /\ req \in [Callers -> Requests \cup {None}]
    /\ at \in [Callers -> Steps]
    /\ seen \in [Callers -> Seen]
    /\ admitted \in [Callers -> Nat]

CasesOK ==
    /\ status \in Statuses
    /\ trail \in Seq([old : Statuses, new : Statuses])
    /\ muddled \in BOOLEAN
    /\ made \in [Hashes -> Nat]
    /\ flags \in [Hashes -> Ids \cup {None}]
    /\ flagStatus \in [Hashes -> FlagStatus]
    /\ links \subseteq Ids \X Ids /\ crossed \subseteq Ids \X Ids

TypeOK == AccountsOK /\ CallsOK /\ CasesOK

\* The audit trail of an incident can be read as its history: every entry
\* starts where the one before it ended, and the last one tells the status.
\* What spoils it is only a run of the SOAR, a row that was lost, or two
\* updates under way at once; a failed update, a refused request or a restart
\* at another moment does not.
TrailTellsStatus ==
    ~muddled =>
        /\ \A i \in 2..Len(trail) : trail[i].old = trail[i - 1].new
        /\ (\A c \in Callers : at[c] # "audit")
              => status = IF trail = <<>> THEN "OPEN" ELSE Last(trail).new

\* Links join rows that exist, and two rows are linked once, unless two
\* requests had looked for their link before either inserted it.
LinkedOnce ==
    \A l \in links :
        /\ flags[ById(l[1])] = l[1] /\ flags[ById(l[2])] = l[2]
        /\ Swap(l) \in links => l[1] = l[2] \/ l \in crossed
=============================================================================
