# Verification of the Smart SIEM backend

TLA+ models of the backend in `src/` (NestJS, PostgreSQL through Prisma,
Elasticsearch, BullMQ over Redis, a pfSense firewall or an agent on Windows
hosts), TLC configurations that check them on small instances, and TLAPS proofs
of the theorems that matter most for every instance. Paths below are relative to
`src/src/` unless they start with `prisma/` or `docs/`; `README.md` with a line number is the
repository's own.

1. [The system](#1-the-system) - inventory: parts, state, operations, interaction
2. [The modules](#2-the-modules) - which module models which part, and how
3. [The runs](#3-the-runs) - what each checks and shows, bounds, fairness
4. [The proofs](#4-the-proofs) - theorems, inductive invariants, assumptions
5. [Where the code departs from what it says](#5-where-the-code-departs-from-what-it-says)
6. [Abstractions](#6-abstractions)
7. [What is not modelled](#7-what-is-not-modelled)
8. [Plan](#8-plan)

Run a check with `tlc -workers 2 -config X.cfg M`, a proof with `tlapm M.tla`.

## 1. The system

The backend is one Node.js process. Nothing in it runs in parallel, but every
`await` is a point at which another request, queue job, timer or playbook goes
on: the models interleave at awaits, and what stands between two awaits is one
step. A process that dies loses its memory and nothing else.

    collectors --POST /logs--> [queue logs] --> normalize --> Elasticsearch ctu-logs
                                    |                            |     |     |
                                    | score-batch                |     |     +-- reports
                                    v                            |     +-- retention: archive, purge
                              [queue ueba] --> UEBA scorer       v
                                    |                     correlation cycle (every minute)
                                    | disable_account            | incident, playbook
                                    v  (CONFIRM)                 v
                                  SOAR service: executions, actions, undo, abort
                                                |
                               pfSense agent  or  Windows Defender agent

| Part | State it keeps | Operations | What makes it correct |
|---|---|---|---|
| **pfSense agent** `soar/agents/pfsense-agent.service.ts` | `writeLock`, `writeQueue`, `applyDebounceTimer` in memory; aliases and rules, staged and in force, on the firewall | `blockIp`, `unblockIp`, `isolateHost`, `unIsolateHost`, `blockPort`, `deleteRule`, the alias calls; every write runs under `write()` | writes do not overlap; an alias is rewritten from what it holds; an address reported blocked is; what is staged comes into force; a queued write runs |
| **Windows Defender agent** `soar/agents/windows-defender-agent.service.ts` | none | the same interface, one HTTP request per call | a call takes effect at most once and answers or throws |
| **SOAR** `soar/soar.service.ts`, `soar/playbooks/` | `playbook_executions`, `soar_actions`, `incidents.status` | execute (AUTO or CONFIRM), approve, abort, undo, the direct endpoints | whatever is blocked can be found and undone; an incident is closed only by what was done; an execution ends, and runs once |
| **Correlation** `correlation/` | `lastRunPerRule` in memory; `incidents`, `incident_events` | a cycle per minute (two at a time), for each active rule: search, duplicate check, incident, evidence, playbook | every event is looked at; no incident without a burst; no detection lost; duplicates recognised |
| **Log ingestion** `logs/logs.service.ts`, `logs/processors/` | jobs of the queue `logs`; documents of `ctu-logs` | accept, normalize and enrich, bulk-insert, hand over to UEBA | a batch that succeeded is inserted, and inserted once |
| **Retention** `logs/logs-retention.service.ts` | files in `backups/logs` | daily: archive page by page, then delete by query | what is deleted was archived |
| **UEBA** `ueba/` | `ueba_profiles`: baseline, `risk_score`, `anomaly_count`; jobs of the queue `ueba` | score a log against the profile (five jobs at a time), trigger the SOAR, rebuild baselines at night | no account is put up for disabling without reason; no anomaly lost under concurrent jobs; every job ends |
| **Reports** `reports/` | `pendingJobs` in memory, files under the reports directory | generate (PDF, spreadsheet, CSV), job status, list, nightly cleanup | a report misses no log; a ready report can be downloaded until it expires, whole |
| **Incidents** `incidents/`, **audit** `audit/` | `incidents`, `audit_trail` | status changes by analysts, each followed by a row of the trail, beside the SOAR | the trail tells how the incident came to its status |
| **Flagged events** `flagged-events/` | `flagged_events`, `flagged_event_links` | flag, unflag, update, link | links join rows that exist, once per pair |
| **Authentication** `auth/`, **admin** `admin/` | `users`, `mfa_sessions`; tokens held by clients | sign-up, sign-in, one-time codes, MFA on and off, the guards of every request; accounts created, changed, deactivated | a code is used once; a token opens no more than its user may do; nobody is locked out by MFA |
| **Rules** `rules/` | `correlation_rules` | activation, parameters | an inactive rule does not run |
| **Notifications** `notifications/`, **mail** `mail/`, **dashboard** `dashboard/` | mail | output and read-only queries | nothing that interleaves |

How parts interact: the correlation and UEBA call `SoarService.executePlaybook`
directly; the SOAR calls the agent chosen at start-up; ingestion hands over to UEBA
through a queue; correlation, retention and reports meet ingestion only in the
index, where a document is found some time after it was written; analysts and the SOAR meet
in the row of an incident, and every request passes the guards, which read the row of its user.

The hard behaviours, each at its line in `PROJECT.json` under `hazards`: state
read before an `await` and written back after it (aliases, profiles, payloads,
statuses); errors that are caught and logged in the middle of a series of steps;
in-memory state lost in a restart (search positions, locks, report jobs); BullMQ
running a stalled job once more; requests that time out after they were carried out;
search windows with gaps, overlaps and ties.

## 2. The modules

| Module | Models | Extends or uses |
|---|---|---|
| `SerialWrites` | what `write()` promises: one function at a time, hand-over only to one that waits | |
| `PfSenseWriteLock` | `write()`: lock flag, queue, direct and handed-over functions | implements `SerialWrites` |
| `AliasRegister` | what a caller of the agent may assume: an operation on an alias happens at one instant between call and return | |
| `PfSenseAgent` | the modifying operations of the pfSense agent, the requests they make, and the firewall | extends `PfSenseWriteLock`, implements `AliasRegister` |
| `Soar` | executions, actions, undo and abort, with the agent taken at its interface | |
| `Correlation` | `runCycle` for one rule, any of R001 to R005 | |
| `Logs` | the queue `logs`: normalize jobs and the retention job beside them | |
| `UebaScoring` | the queue `ueba`: scoring, the trigger, the rebuild of baselines | |
| `Reports` | report jobs, their search, their files, the cleanup | |
| `Access` | sign-in, one-time codes, accounts, tokens and the guards | |
| `Casework` | incidents with their audit trail, flagged events and their links, as requests that `Access` admits | extends `Access` |
| `MC...` | values of the constants for TLC | extends the module it names |
| `PfSenseAgentProofs` | the theorems of section 4 about the lock and the agent | extends `PfSenseAgent`, `TLAPS` |
| `SoarProofs`, `CorrelationProofs`, `LogsProofs`, `UebaScoringProofs`, `ReportsProofs`, `CaseworkProofs` | the theorems of section 4 about the module it names | extends that module, `TLAPS` or `FiniteOrders` |
| `FiniteOrders` | last elements of finite sets, which the pages of a search and the buckets of an aggregation take for granted | extends `TLAPS` |

`PROJECT.json` maps every definition to the lines it stands for. Operators whose
name ends in `Mutant` are bugs the code does not have; for each property of each
run one of them, put in the place of the real definition, makes TLC find the
property violated. Variables commented as *history* exist for the properties only.

### PfSenseWriteLock, SerialWrites

`writeLock` and `writeQueue` are the fields of the agent, `at[c]` is where a
caller stands in `write()`. The code has two ways of running a function: under the
`try/finally` of the caller's own `write()` (`"direct"`) and as the closure a
direct writer shifts from the queue (`"handed"`). They end differently:
`FinishDirect` frees the lock and starts the head of the queue, `FinishHanded`
frees the lock and leaves the queue alone. This difference is the finding
`EveryQueuedWriteRuns`.

### PfSenseAgent, AliasRegister

Each operation is the chain of requests its function makes, one action per
request: `ListAliases`, `DeleteForRewrite`, `CreateForRewrite` for the rewriting of an
alias (the code deletes the alias and posts it again with its new content),
`PostRule`, `GetRules`, `DeleteRules`, `UnblockRule`, `CreateAlias`, `DeleteAlias`,
then `ApplyChanges`, `TimerFires`, `Applied` for the debounced apply and `Return`.
`createAlias` and `deleteAlias` may name any alias, those of the agent included, and bring in any
addresses. `step[c]` is the await a call stands at, `seen[c]` the content it listed. `request()`
never throws and answers after a timeout at the latest, so a request has one of the
`Outcomes`: done, refused with nothing done, or timed out with the request carried out. `deleteRule`
throws when the list of rules comes wrapped in an object (fault `"wrapped"`). The firewall
is `aliases` and `rules` (staged) and `inForce`. `Restart` empties the memory of the
backend wherever the calls stand, and leaves the firewall as it is.

The code reads the addresses of an alias as `addresses`, posts them as `address` when it rewrites one
and as `addresses` when it creates one. Which of these names the firewall knows is the constant
`Fields`: `Listed` is what the code finds in an alias, `Posted` and `Given` what the firewall keeps of
a rewrite and of `createAlias`. `AliasRegister` has the same constant, and its `Effects` say what
becomes of an alias then: with both names, union and difference; with `addresses` missing nothing is
ever found in an alias, with `address` missing a rewrite leaves it empty. `asked` is history: the
addresses that calls which do not validate were to put into an alias.

### Soar

A worker is a request or a correlation cycle; `at[w]` is the await it stands at, and
every request to the agent and every row written is a step of its own. `held` is what
the firewall holds back, `execs` and `actions` are the tables. `runPlaybook` is
`StartRun`, `BlockNext` (one target of a loop), `CreateCleanup` (temporary block),
`RemoveRule`, `EndLoop`, `RecordAction`, `AutoResolve`, and `FinishRun` or `FailRun`;
`abortPlaybook` is `AbortPlaybook`, `AbortUnblock`, `AbortWrite`; `undoAction` is
`UndoAction`, `UndoReverse`, `UndoWrite`. `adrift` is history: the holds for which the
code, after an error or a restart, has no row that leads back to them. So is `stuck`: the executions
whose run ended without a status, by a restart or because the update in the catch block (`FailRun`)
threw as well.

### Correlation

A behaviour is about one `rule` of R001 to R005. `now` is a bounded clock,
`collected[e]` when an event happened at its source, `stamp[e]` when it was normalized,
`visible` what the index returns; R001 searches by the second stamp, the others by the
first. A cycle is `BeginCycle` (reads the rules), `StartRule` (takes `since` from
`lastRun` and the end of the range from the clock), `Search` (the index evaluates the
query), `Fallback` (the second query of R002, when the first finds nothing, and of R003, when no
volume is too high), `CompareVolume` (the second signal of R004, hosts gone quiet), `Found` (the
answer arrives; `lastRun` becomes the clock of *now*) and, per detection,
`CheckDuplicate`, `CreateIncident`, `StoreEvents`, `Trigger`. What a rule makes of the
events of a source is `Matches` (`BruteForce`, `Reconnaissance`, `Volume`, `Connections`), what a
detection names in `related_entities` is `Named`, and the duplicate check (`SameEntity`) and the
search for evidence (`Evidence`) work on those names. Rules share no state, so one at a time is
enough. History: `gaps` are the moments at which a search was in flight, `late` the events that the
index did not show to the search whose range held them.

### Logs

A batch is a job: `Ingest`, `Normalize`, `BulkInsert` or `BulkThrows`, `HandOver`,
`Complete`. The retention job is `Schedule`, `StartPurge`, `NextPage` (search_after),
`EndSearch`, `WriteArchive`, `DeleteOld`. A restart in the middle of a job leaves it
active; BullMQ's stalled check runs it once more (`MaxStalls`), then fails it.

### UebaScoring

A job works through its logs: `Load` (read the profile; a log without one goes through
`CreateProfile` or, when another job was first, `CreateConflict`), `UpdateProfile` (the
new risk from the row that was *read*, the count by increment), `CreateIncident` and
`ExecutePlaybook` above the threshold. `Points`, `Score` and `Ema` are the arithmetic
of `scoreLog`, `Fails` its errors, `Rebuild` the nightly job. Which anomalies an event
can show on the default baseline (`CanShow`) is read off `DEFAULT_BASELINE`.

### Reports

`Generate` answers at once and leaves a background task: `FetchPage` until a short page,
an error or the cap, `EndFetch`, `Query` (the database), then `WriteSync` (PDF and CSV, one
step) or `BeginExcel` and `EndExcel` (a stream). `Arrive` indexes a log meanwhile,
`Cleanup` deletes old files, `Restart` forgets `pendingJobs`.

### Access, Casework

A caller is one HTTP request: `req[c]` what it asks for, `at[c]` the await it stands at, `seen[c]`
what it read before. `Arrive` is `JwtAuthGuard`, `Validate` is `JwtStrategy.validate` with
`RolesGuard`: it reads the row of the user, not the token. A role is asked for only where a handler or its controller carries
`@Roles` (`RolesOf`): the admin pages, of those modelled here. Sign-in is `SignIn`, `SendOtp`,
`CreateSession`, then in another request `VerifyMfa` (read and check), `MarkUsed`, `Sign`;
`enableMfa` is `EnableMfa` (stores the address it was given, which may be the empty string),
`CheckEmail`, `MfaOn`; accounts are `CheckName` and `InsertUser`,
`ReadUser` and `WriteUser`. `Casework` adds `ReadIncident`, `WriteIncident`, `AuditUpdate`
(`IncidentsService.update`; an error of the audit insert is swallowed), `SoarResolves`
(`autoResolveIncident`, which neither looks at the status nor audits), `FindFlag`, `InsertFlag`,
`WriteFlag`, and `FindFrom`, `FindTo`, `FindLink`, `InsertLink` (`link()`). `Throws` is a failing
database access at any of these awaits, `Restart` drops all requests. A row flagged again after its
removal has another id, and links are between ids. History: `rights` counts what admins took from
a user, `admitted` remembers it as of `Validate`, `granted` counts the tokens of a session, `raced`,
`muddled` and `crossed` mark the overlaps the code does not guard against, `emptied` the users who
stored an empty address while MFA was on or about to be.

## 3. The runs

Every run of the kind *holds* finishes without an error. A run of the kind *refuted*
checks one statement the repository makes and that the code does not keep; section 5
says what the counterexample shows.

| Run | Instance | Shows |
|---|---|---|
| `PfSenseWriteLock_Stranded` | 3 callers | refutes `EveryQueuedWriteRuns` |
| `PfSenseAgent_OneField` | 2 callers, 2 addresses, no faults, a firewall that knows the field `address` only | refutes `AppendsAddress` |
| `PfSenseAgent_Reliable` | 3 callers, 2 addresses, no faults, both field names, block, unblock, isolate and un-isolate | `AtomicAliasOperations`: `AliasRegister` is implemented, and `SerializesWrites`: so is `SerialWrites`, with the agent's own functions under the lock; `QuiescentInForce`: with nothing under way what is staged is in force; `ApplyNeverSuppressed` |
| `PfSenseAgent_Faults` | 2 callers, every operation, a protected address that `createAlias` puts under the name of the blocklist and `isolateHost` into the other, 1 rule id, refused and timed-out requests, wrapped answers, restarts | `ReadStaysFresh`, `ProtectedNeverBlocked`, `ReportedBlockStaged`; `StartedWriteReturns`: no function holds the lock for ever |
| `Soar_MC` | 2 workers, 1 incident with 2 targets, `block_ip`, `temporary_block`, `remove_rule`, both modes, direct calls, refused calls, failing writes, restarts | `ResolvedWithEvidence`, `ExecutedCanBeUndone`, `EveryHoldAccountedFor`, `PendingIsExplained` |
| `Soar_ApprovedTwice` | 2 workers, `block_ip` with CONFIRM, no faults | refutes `ApprovedRunsOnce` |
| `Correlation_Windows` | R001 or R005, 2 overlapping cycles, 2 events of a source to 2 targets, threshold 2, normalized at once or late, lagging index, failing searches, restarts | `OnlyGapsAreLost`, `IncidentsAreBursts` |
| `Correlation_Incidents` | each of R001 to R005, 1 cycle at a time, 3 events of 2 sources, threshold 1, failing searches and writes | `NeighboursDiffer`, `ScannedOnce`, `DetectionsHandled` |
| `Logs_MC` | a batch of 2 logs and a malformed one, pages of 1, every fault | `PurgedIsArchived`, `HandedOverIsInserted`, `RepeatedOnlyByRestart`, `JobsEnd` |
| `UebaScoring_MC` | 1 user, 2 jobs with 3 events, failing requests, restarts, a count that reaches its limit | `TriggerNeedsBaseline`, `TriggerNeedsTwoAnomalies`, `AnomaliesCounted`, `ScoredTwiceOnlyByRestart`, `JobsEnd` |
| `Reports_MC` | 1 request of any format, 4 logs (2 of one time), pages of 1, cap 4, files kept 1 day, 3 days, failing searches and writes, restarts | `MissingIsExplained`, `ReadyCanBeDownloaded`, `ListedIsWhole`, `JobsSettle` |
| `Casework_MC` | 3 requests at once of 3 in all: an admin, an analyst with MFA, a name not yet taken; role, activity and MFA changes with an address or an empty one, incident updates beside the SOAR, 2 flagged events; failing accesses, restarts | `RightsHeldAtAdmission`, `CodeGrantsOnce`, `MfaHasEmail`, `TrailTellsStatus`, `LinkedOnce` |

`Soar`, `Correlation`, `Logs`, `UebaScoring` and `Reports` also have their type invariant in a run;
every type invariant is proved (section 4).

### Bounds, and why they are enough

- *Callers and workers.* Two activities show every race between a read and a write
  back. The stranding of a queued write needs a direct writer and two behind it, hence
  three. Three callers in
  `PfSenseAgent_Reliable` are one under way, one queued and one that interferes. Both names of the
  addresses field are known to the firewall of the runs that hold, so that aliases have a content to
  lose; what a single name leads to is the finding of `PfSenseAgent_OneField`, and the theorems about
  the agent hold for any `Fields`, but for `ReportedBlocksAreStaged`, which says so.
- *Correlation.* In `Correlation_Windows` three clock units hold two ranges one behind the other and
  one that overlaps both. `Threshold` 2 with two events puts a search boundary between the events
  of a burst, `MaxSpan` 0 lets a pair be too far apart, `MaxDelay` 1 puts a search between the collection
  of an event and its normalization, and each exception of `OnlyGapsAreLost` but the one for R002 to
  R004, which do not run there, is needed. The two events are told apart by nothing (each has a target of
  its own), hence the symmetry. In `Correlation_Incidents`, `Window` 1 of 4 clock units lets a detection
  come inside and outside the window of an incident. Three events and two sources that attack
  one host let a detection follow another of the same source or, for R001 and R002, of the
  same host; for R005, whose detections name no hosts, the second source is no duplicate. Two events
  that the first query asks for and one that it does not reach both queries of R002 and R003 and
  both signals of R004; a baseline of 2 makes one source of R004 go quiet. The index does not lag there:
  `ScannedOnce`, `NeighboursDiffer` and `DetectionsHandled` are about what a search found, and their
  theorems hold with the lag.
- *Soar.* `MaxRuns` 2 and one created execution: a run, and the approval, the cleanup or the
  second request that meets it. Two targets let one of them fail.
- *Logs.* Two documents and pages of one make the archive take a page boundary and a
  document arrive behind it; `RetentionDays` 1 and `LastDay` 3 give two retention jobs. Days
  on which nothing can be old yet are left out by `Init`.
- *UEBA.* Three fully anomalous events are the fewest that take a risk to the threshold of
  70 (a new score enters with weight 0.3, from 15 on); two jobs overwrite each other.
  `MaxAnomalies` 3 stands for the 32767 of a `SmallInt`, so that the limit is met.
- *Casework.* Three requests are two that race and a third that changes the account, the incident or
  the row under them. `MaxCalls` 3 bounds all of a behaviour: the longest story of the properties, a
  flag removed and set again while a link is made, takes three. One session is enough, since
  sessions share nothing; the theorems hold for any number.
- *Reports.* Two logs of one time on a page boundary meet the missing tie breaker; the
  cap equals the number of logs. Jobs share nothing but the directory, hence one request.

Bounds stop the clock, the number of runs and the number of logs: `MaxTime`, `MaxRuns`,
`MaxExecs`, `MaxCalls`, `LastDay`. `Logs`, `UebaScoring`, `Reports` and `Casework` may come to rest when their bounded
work is done, and their configurations do not check deadlock; the others do.
Symmetry is used for interchangeable workers in runs without liveness.

### Fairness

Only steps that continue something already started are fair, and never a failure, a call
or a restart:

- `FnStep` of the agent and `Finish` of the lock: `request()` aborts every request after
  `this.timeout` and does not throw, the apply timer fires after 500 ms, and what remains is
  synchronous.
- `JobStep`, `PurgeStep` of `Logs`, `Continue` of `UebaScoring` and `Reports`: BullMQ's workers
  go on taking jobs and the clients of PostgreSQL and Elasticsearch answer or throw. That a
  step is *allowed* to succeed for ever is what is assumed, so an error is never needed for
  a job to end.

`Soar`, `Correlation` and `Casework` state no fairness; their properties about endings are about rows
that stay as they are (`PendingIsExplained`) or quiescent states (`DetectionsHandled`).

## 4. The proofs

TLC checks an instance; the theorems hold for every value of the constants that
satisfies the named assumption of the module (`AgentAssumption`, `SoarAssumption`,
`CorrelationAssumption`, `LogsConstants`, `ScoringConstants`, `ReportConstants`, `AccessAssumption`,
`CaseworkAssumption`; the lock needs none). The assumptions are typings: requests are calls of the
interface, a batch is a finite set or a sequence, a limit is a natural number, a page is not empty,
an account that has MFA at first has an address. No proof uses a bound of a run.

Seven theorems have hypotheses of their own, named in them. They are the conditions under which the
property is meant, and those of the run that checks it:

- `NoFaults` (no request is refused or times out, no restart), for `QuiescentFirewall` and
  `AliasOperationsAreAtomic`: when a request fails between the DELETE and the POST of an alias its
  content is gone, which section 5 lists. `NoNamedAliases`, for the first, sets aside the calls that
  create or delete an alias by name, which apply nothing.
- `"address" \in Fields`, for `ReportedBlocksAreStaged`: the firewall takes the field that rewrites post.
- no `"crash"`, for `AgentWritesSerialize`, `NoDetectionIsForgotten` and `SearchedOnce`: what they
  speak of is in memory.
- `OneWorker`, for `NoDuplicateNeighbours` and `SearchedOnce`: the cycles do not overlap.

| Theorem | Says, for every instance |
|---|---|
| `LockAlwaysTruthful`, `WritesExclude` | the flag is set exactly while a function runs, the queue holds the waiting callers once each, and one function runs at a time |
| `WritesSerialize` | `PfSenseWriteLock` implements `SerialWrites` |
| `AgentWritesSerialize` | so does `PfSenseAgent`, with its own functions under the lock and requests that fail |
| `AgentCorrect` | `AgentInv`, with any callers, calls, addresses, field names and faults |
| `ReadsStayFresh`, `ProtectedStayUnblocked`, `ReportedBlocksAreStaged`, `ApplyIsNeverSuppressed` | `ReadStaysFresh`, `ProtectedNeverBlocked`, `ReportedBlockStaged`, `ApplyNeverSuppressed` |
| `QuiescentFirewall` | with the lock free, what is staged is in force (`QuiescentInForce`) |
| `AliasOperationsAreAtomic` | `PfSenseAgent` implements `AliasRegister` with the same `Fields`, whichever they are (`AtomicAliasOperations`) |
| `SoarTypes` | rows, holds and the locals of a run keep their types |
| `ResolutionHasEvidence` | an incident the SOAR resolved shows an action, or a hold that went adrift |
| `PayloadsCanBeUndone` | what the payload of an executed block lists has its action, or is adrift |
| `HoldsAreAccountedFor` | between requests every hold has an open row that leads to it, or is adrift |
| `PendingExplained` | an AUTO execution that is PENDING runs, waits to remove a temporary block, or was cut off by a restart or by the failure of its last update, and then gets no other outcome than an abort |
| `CorrelationTypes` | nothing read is ahead of the clock; what failed had been detected |
| `SearchesLeaveNoGaps` | an event behind the last run was searched, or is in one of the named gaps, or was shown by the index too late for the search of its range |
| `IncidentsHaveBursts` | no incident of R001 or R005 without a burst in the index |
| `NoDetectionIsForgotten` | with no cycle under way every detection has an incident that names it, or failed |
| `NoDuplicateNeighbours` | an incident about the entity of the one before it comes after the window |
| `SearchedOnce` | no event is part of two searches |
| `LogsTypes` | jobs, documents and retention stay well-formed |
| `DeletionsAreArchived` | retention deletes what it archived, late documents and page ties aside |
| `SuccessMeansInserted` | what was handed over or succeeded is inserted, or was refused item by item |
| `OnlyRestartsRepeat` | a batch is inserted and scored twice only after a restart |
| `ScoringTypes` | risks stay in 0..100, jobs at one of their logs |
| `NoTriggerWithoutBaseline`, `NoTriggerOnOneAnomaly` | the trigger needs a built baseline and two suspicious events, however jobs overwrite each other |
| `NoAnomalyIsLost` | the count is exact |
| `OnlyRestartsRescore` | a log is scored again only after a restart |
| `ReportTypes` | jobs, tasks and files stay well-formed |
| `MissingLogsAreExplained` | a log missing from a finished report is tied with another, or a search failed or reached the cap |
| `ReadyReportsLast` | until its expiry the whole file of a ready report is there |
| `ListedReportsAreWhole` | the list shows a part of a PDF or spreadsheet only while it is written, or after a restart |
| `CaseworkTypes` | rows, sessions, trail and links stay well-formed and every request stands where its operation can |
| `RightsAreHeld` | a request past the guards is one of a user who was active and had the role its handler names, if it names one, when it was admitted |
| `MfaKeepsEmail` | an account has MFA without an address only after its owner stored an empty one |
| `CodesGrantOnce` | a code gives one token, unless two verifications were between check and mark at once |
| `LinksAreOnce` | links join rows that exist, once per pair, unless two requests looked before either inserted |
| `TrailTells` | the trail is the history of the incident, except after the SOAR, a lost row or overlapping updates |

### The arguments

**The lock.** `MutualExclusion` alone is not inductive: from a state in which the flag is
free although a function runs, `WriteDirect` starts a second. `LockTruthful` adds that the
flag says whether somebody runs and that the queue and the waiting callers are the same
set, without repetition; `LockInv` is both with the types, and is preserved. The refinement
uses it: `FinishDirect` is a `HandOver` because the head of the queue is a waiting caller,
`WriteDirect` an `Enter` because nobody runs when the flag is free.

**The agent.** `ReadStaysFresh` says that what a call listed is still there when it deletes
and posts. It holds because of two things that no single action shows: only the function that
holds the lock moves (`LockInv`), and every await knows what the one before established
(`FnInv`, one conjunct per await). `AgentInv` is their conjunction with the types, with
`TimerOwned` (the debounce timer is set exactly while the running function waits for it,
whence `ApplyNeverSuppressed`) and with `ProtectedNeverBlocked`, which the rewriting of an alias
needs about the content it listed. The proof has a lemma per action (`ListAliasesKeeps`,
..., `RestartKeeps`). The lemma `OneFunctionMoves` carries the bookkeeping about the callers
that rest, so that each of them is about one function and the firewall.

For `QuiescentInForce` the state between the requests is what counts: `QuietInv` says that the
staged configuration is in force *or* some function has changed it and not applied it yet
(`Unapplied`), and only the function that holds the lock is ever in that second case. The rewriting
needs `CleanRewrite`: the alias is gone when the POST goes out, so that it is not refused.

For `ProtectedNeverBlocked`, `asked` only grows, and every request in flight has its own addresses in
it (`FnInv`); the address that a rewrite adds is validated or in `asked`, and those it carries over
were listed in the same alias.

The refinement of `AliasRegister` maps a rewriting alias to the content that was listed
(`Addresses`). `HeldNow` and `HeldNext` give the mapped value as a function of the one caller
that moves (`Held`), since the others rest or start. Then each request is either a
`Take` (`TakesItsEffect`: the listing that finds nothing to do, the POST of the new content, a call
on other objects) or unseen (`UnseenByRegister`: the DELETE, because `ReadStaysFresh` makes the listed
content equal to the deleted one, and all that follows the POST). `Call` is `Invoke`, `Return` is `Return`.

**SOAR.** Two activities may hold the same rows, so each conjunct of `SoarInv` says what a worker may
rely on whatever the other does. Rows are never removed (`RowsThere`), the run of a row knows its
playbook and which targets it has done (`RunKnows`), and what was done and recorded stays `Covered`
even when another request undoes it, because undoing keeps the row. The holds are the hard part: a hold
that is not adrift has an EXECUTED action nobody is about to close (`FirmAction`), a PENDING cleanup
row nobody is about to abort (`FirmExec`), or is still in the hands of a worker (`Unrecorded`). For the
second, `WaitingIsLeft` is needed: a row that waits to remove a block is no run's, and its abort removes
that very block. `Accounted` is inductive only with all three; `EveryHoldAccountedFor` is what it
says when every worker is idle. `PendingExplained` has an invariant of its own beside it: an AUTO
execution has one run, which is over when the row is in `stuck`, and only a run or an abort writes a status.

**Correlation.** `CorInv` is the types, the order of the clock (nothing read is ahead of it) and what
the await of a worker implies. For each action a lemma `...Does` gives its effect as three facts:
who moves, who is `Still`, and that the store `Grows`; the five properties use only those.
`GapsInv` says of every worker that its range begins where everything behind is explained, and that its
answer holds all of its range but for what the index had not shown (`unseen`, which becomes part of
`late`); it needs that the clock stamps the new `lastRun` after the answer, and this is where the gap
of section 5 enters as an explanation. `BurstsInv` ties a detection to
a burst that cannot leave the index. `HandledInv` follows a detection from the list of a worker to an
incident or an error. `NeighboursInv` adds that a worker about to create has compared with the last
incident, which no other worker can replace when there is one. `OnceInv` says that what was searched
lies behind `lastRun`, where the next range begins.

**Logs.** `JobFits` counts: a batch has run once more often than it stalled, and has been scored less
often than it ran while it inserts. `RunsTell` ties the run number in a document to that count, so
that two documents of one log mean two runs. `PurgeFits` is the invariant of the paged search: what the
deletion will find is gathered, or `Explained` (late, or tied with another), or still `Ahead` of the
search. The step from page to page is where ties get lost; the lemmas of `FiniteOrders` give the last key of
a page, and a page that is not full leaves nothing ahead.

**Reports.** `Searched` is the same invariant for the pages of `fetchLogs`, with the cap and failed
searches marked in `partial`. `Kept` carries the file of a ready report from its writing
to its expiry: its modification time plus the lifetime is not before the expiry the user was told, so the
cleanup passes over it. `ListedIsWhole` is inductive with the types of jobs and tasks (`JobFits`).

**UEBA.** Two jobs may read a risk, and the later write wins, so the risk in a row says little
about the last event. What survives is what a risk *proves* about the row, whichever job wrote
it and whenever: above 51 an event scored over 50, above 66 two did, above 64 the baseline
was built (`Explains`; the numbers are the fixpoints of the moving average for events of at
most 50, one above, and at most 65). Counts only grow and a built baseline is not
taken back, so that a value read earlier still proves it of the row it is written to
(`ReadExplained`). `RiskInv` puts this together with what a job that is about to trigger knows.
`CountInv` adds that the count is exact, and that a log's risk is written at most once per start
of its job and only when the job passes it (`AppliedOnce`), which is what
`ScoredTwiceOnlyByRestart` follows from.

**Casework.** `CallInv` (`CaseworkProofs`) is the types with, for each request, what its await implies:
`OpFits` ties the await to the operation, `ReadFits` says that what was looked up still exists. One
lemma per action; `OthersFit` covers the requests that rest, because rows are never deleted and
addresses never taken away (`Grows`). On top, each property has an invariant of its own
(in the second half of the module). `RightsOf`: the rights counter has not moved since admission, or the user may
still act; it is inductive because every step that takes something away moves the counter
(`RowsTell`). `Once`: of a session that was not raced for, at most one request redeems, and only while
it is unused; at most one signs, and only after it is used and before a token was given. `LinkInv`:
a request that is to insert a link which exists by now, or which another is to insert too, is in
`crossed`. `TrailInv`: at most one update is under way, the status it read is the last one told, and
after its write only its own change is missing. For each, the steps that do not touch these rows are
dealt with at once by a lemma about moves (`NoNearer`, `NoMoreInserting`, `SameUpdates`).

### What stays with TLC

Liveness (`StartedWriteReturns`, `JobsEnd` of `Logs` and `UebaScoring`, `JobsSettle`) is beyond the
prover: those four are checked on the instances of section 3 only. Every other property of a run that
holds is a theorem, under the hypotheses above.

## 5. Where the code departs from what it says

Shown by a run:

- **`EveryQueuedWriteRuns`** (`soar/agents/pfsense-agent.service.ts:690`). A handed-over function
  that ends clears the lock without shifting the queue. With two writes queued behind a
  direct one the second is not started until another direct write ends; its HTTP
  request hangs.
- **`ApprovedRunsOnce`** (`soar/soar.service.ts:489`). `approveExecution` checks the status, runs the
  playbook, and writes the status at the end: two approvals both pass and the playbook
  runs twice.
- **`AppendsAddress`** (`soar/agents/pfsense-agent.service.ts:499`). `addIpToAlias` reads the addresses of
  an alias as `addresses` (476, 486) and posts the new list as `address` (499; in `removeIpFromAlias`
  525 and 540), `createAlias` posts `addresses` (435). On a firewall that has one name for the field,
  `address` in the run, the alias reads as empty, is deleted and posted again with the new address
  alone: the second block opens the first. For the same reason unblocking finds the address in no alias
  and does nothing. On a firewall whose field is `addresses` a rewritten alias is empty.

Met while modelling, followed by the models as the code has them, and not shown by a
run of their own:

- SOAR: an execution that has run, or is running, can be aborted; the parameters of a CONFIRM
  execution are not stored, so an approved `remove_rule` has nothing to remove; nothing
  reads the row that is to end a temporary block (`soar/playbooks/temporary-block.playbook.ts:29`), and a
  temporary block through its endpoint has no action to undo; `undoAction` ignores the agent's
  answer; `recordAction` links an action to the latest execution of the incident, which may be
  another; `unblockIp` leaves port rules and isolations of the address.
- SOAR, on errors: the update in the catch block of a run can throw as well (`soar/soar.service.ts:81`,
  `:523`); the request fails and the row stays PENDING, the exception `stuck` of `PendingIsExplained`. Of
  an AUTO run nothing takes it up again; a CONFIRM one can be approved, and so run, a second time.
- Incidents: a run that was under way sets an incident an analyst marked FALSE_POSITIVE to RESOLVED
  (`soar/soar.service.ts:340`) and writes no row of the trail, and an error of the audit insert is
  swallowed, whereas `README.md:288` has all user actions logged; both are exceptions of `TrailTellsStatus`.
- Accounts: two verifications of one code at once get a token each (`auth/mfa.service.ts:60`), the exception
  of `CodeGrantsOnce`; `signIn` does not look at `is_active`, so a deactivated user gets tokens, which
  `JwtStrategy.validate` then refuses at every request.
- Roles: `@Roles` stands only in `admin/admin.controller.ts:31` and `rules/rules.controller.ts:39`, `:54`
  and `:65`, and `RolesGuard` lets every role through where it is missing. A READER may therefore update
  incidents, execute, approve, abort and undo playbooks, and flag events, whereas `README.md:155-161` gives
  a READER views only, `incidents/incidents.controller.ts:54` says "(ANALYST or ADMIN only)", and
  `auth/mfa.service.ts:95` has disabling MFA "(admin only)" although anyone may for himself
  (`auth/auth.controller.ts:81`). `RightsHeldAtAdmission` judges a request by what its handler demands
  (`RolesOf`), not by these tables.
- MFA: the address of `enableMfa` is only checked to be a string (`auth/dto/mfa.dto.ts:16`), an empty one is
  stored (`auth/auth.service.ts:162`) and then counts as none (`auth/mfa.service.ts:23`, `:84`). Who posts an
  empty address while his MFA is on, or while another of his requests is about to switch it on, cannot
  sign in any more: the exception `emptied` of `MfaHasEmail`.
- Flagged events: links A to B and B to A requested at once both come into being
  (`flagged-events/flagged-events.service.ts:166`), the exception of `LinkedOnce`.
- pfSense agent: `isolateHost` and `createAlias` do not validate what `blockIp` does, and `createAlias` and
  `deleteAlias` take the names of the agent's own aliases and apply nothing; both are exceptions of
  `ProtectedNeverBlocked`, through `asked`, and of `QuiescentFirewall`. Success is reported although the
  apply failed, and nothing applies the change until the next write (`QuiescentInForce` is stated for
  requests that are answered). An alias is lost when the POST after its DELETE fails. `deleteRule` takes
  the list of rules to be an array (`soar/agents/pfsense-agent.service.ts:295`) and throws when the answer
  wraps it as that of the aliases does (`:449`).
- Correlation: `lastRun` becomes the time after the search while the range of the search ended before it,
  so an event of R001 that is normalized in between is part of no search
  (`correlation/correlation.service.ts:128`); `bulkInsert` does not wait for the index to refresh
  (`elasticsearch/elasticsearch.service.ts:216`), so an event that is not visible yet when the search of
  its range is answered is part of none either; the other rules search by `collected_at`, so an event that
  is normalized after the search over its moment is part of none
  (`correlation/rules/r005-reconnaissance.rule.ts:55`);
  R002 never looks at an event without the enriched fields while its search finds one that has
  them (`correlation/rules/r002-pass-the-hash.rule.ts:42`); all four are exceptions of
  `OnlyGapsAreLost`. R004 fires when a host sends 10 % less than its baseline, while its header says
  "sending < 10% of its 24h baseline" (`correlation/rules/r004-log-clearing.rule.ts:13`), and a host
  that sends nothing at all is not looked at. A burst across two searches is not seen; after a restart everything is
  scanned again, and incidents older than the five-minute window repeat; a detection about the
  same host as the last incident is suppressed with its playbook, although the attacker is
  another; the search for evidence covers the last minutes, not the range of the detection, and for a volume
  incident of R003, which names destinations, it asks for events whose `source_ip` is one of them
  (`correlation/correlation.service.ts:396`) and finds none of the connections the incident was raised for.
- Logs: retention deletes what it did not archive, namely documents that arrived late and
  documents that tie with the last one of a page (`logs/logs-retention.service.ts:71`);
  items that Elasticsearch refused count as indexed.
- UEBA: the attempts configured for `score-batch` are never used because errors are caught; each
  event above the threshold opens an incident of its own; the override for the demo user
  compares a lower-cased principal with a name that has capitals.
- Reports: logs that tie with the last of a page are missing; a CSV file cut short by a failed
  write stays on the list.

## 6. Abstractions

- *Interleaving.* A step runs from one await to the next. Two awaits in one step are named:
  `recordAction`'s lookup and insert, the upsert of a baseline.
- *pfSense.* What the firewall does is external: an alias name is unique, a rule has an id,
  nothing is in force before an apply. A request that timed out took effect before it was
  aborted or not at all, never later. A field whose name the firewall does not know is ignored, and a
  list of aliases is answered in a form `listAliases` understands or not at all. Of an address only matters whether `validateBlockIp` refuses it.
  The agent is configured.
- *SOAR.* A call to the agent is one step that takes effect at most once and is answered: the
  stranding of queued writes is the lock's finding and not repeated here. Wording, reasons and parameters other than
  the address of `remove_rule` are left out.
- *Correlation.* The events are those the filters of the rule and of the search for evidence match;
  an ip attacks one host; the targets and the ports of a scan are one number; a search takes at
  least one clock unit; the size limits of aggregations are not met. Volumes are numbers of events,
  and the baseline of a host is a constant.
- *Logs.* A document is in the index once a search can find it. Parsing and enrichment, which do not
  throw, are left out. Elasticsearch refuses items only among `Refusable`. The deletion by the
  index lifecycle policy (`elasticsearch/elasticsearch.service.ts:48`) is not part of the model.
- *UEBA.* An event is the set of anomalies it shows; a baseline is the default one or a built one,
  and a built one may find any event anomalous. Rounding of a half may fall either way.
  A rebuild may take any user (the code takes the 500 with most events).
- *Access and Casework.* A code is right or wrong, a password too, and an address is there or not (none and an empty one are the same to the code that
  sends codes);
  one-time codes expire at any moment. One incident; accounts are rows in the order of their creation. A
  request to the database is atomic and sees what was written before it. API keys, which let
  collectors in (`auth/guards/api-key.guard.ts`), are left out.
- *Reports.* A report is the set of its logs. PDF and CSV are made in one step, a spreadsheet is
  streamed. Removing a file that exists succeeds. The e-mail that may follow a report is left out.
  Retention does not delete while a report is made.

## 7. What is not modelled

Notifications and mail put messages into a queue and out of the system, and their errors are
swallowed; the dashboard, the queries of the audit trail and the lists of the controllers only read. The
retention settings and the other fields of a rule are one row written in one step. The enrichers and
parsers compute from their input and keep nothing. The alias playbooks and `check-ip` are one call each.
The building of UEBA baselines and the layout of reports are data. Start-up, wiring, seeds, scripts, the
set-up of index templates, deployment, the front-end assets and the log simulator in `docs/` are outside
the core.
`PROJECT.json` lists every part with its status.

## 8. Plan

Done: the firewall agent and its lock (most code acts through it, and mistakes there block or unblock
hosts), the SOAR above it, the correlation that drives it with all five rules, the log pipeline and
retention, UEBA scoring, reports, sign-in and accounts, incidents with their trail, flagged events;
proofs of every safety property, action property and refinement that a run checks.

Next, in this order:

1. Proofs with fewer hypotheses: `AtomicAliasOperations` with requests that fail (a register whose
   operations may fail and may lose an alias), `NeighboursDiffer` for overlapping cycles (overlap as an exception).
2. `Soar` beside the requests of `Casework` in one model: a run, an analyst's verdict and an abort on one
   incident (each is there now, with the other one reduced to a step).
3. `Logs` and `Reports` on one index: a report of a period that retention deletes meanwhile.
4. A ledger of holds that `Soar` implements (each hold has a row or is adrift), and a filter of events
   that a correlation rule implements (each event seen once, gaps aside).

Runs are merged rather than added where one instance can answer two questions: a new part takes the place
of a weaker property.
