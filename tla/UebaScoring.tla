---------------------------- MODULE UebaScoring ----------------------------
(***************************************************************************)
(* The queue "ueba": up to Concurrency jobs score their logs one after the *)
(* other.  A log is scored against the profile of its user in three        *)
(* requests (read or create the profile, write the new risk, and for a     *)
(* high risk an incident and a playbook that waits for a confirmation), so *)
(* that jobs of one user read what another is about to overwrite.  The     *)
(* nightly job writes baselines beside them.                               *)
(*                                                                         *)
(* A log is reduced to the anomalies it shows, a baseline to whether it is *)
(* the default one or was built.  The override for the demo user is left   *)
(* out: its name has capitals, and a normalized principal has none.        *)
(***************************************************************************)
EXTENDS Integers, FiniteSets, Sequences

CONSTANTS Users,        \* user principals
          Jobs,         \* score-batch jobs
          LogsOf,       \* the users of the logs of a job, in order
          Kinds,        \* the sets of anomalies an event may show
          Concurrency,  \* jobs the processor works on at a time
          MaxAnomalies, \* largest anomaly_count: a SmallInt
          Faults,       \* a subset of {"db", "restart"}
          None

Anomalies == {"off_hours", "new_host", "new_ip", "weekend_activity",
              "file_download_burst", "login_deviation"}

ASSUME ScoringConstants ==
  /\ LogsOf \in [Jobs -> Seq(Users) \ {<<>>}]
  /\ Kinds \subseteq SUBSET Anomalies
  /\ Concurrency \in Nat \ {0} /\ MaxAnomalies \in Nat
  /\ Faults \subseteq {"db", "restart"}
  /\ None \notin [risk : 0 .. 100, built : BOOLEAN, anomalies : Nat]

SOAR_THRESHOLD == 70
ColdRisk == 15
MaxStalls == 1   \* maxStalledCount of BullMQ, which the code leaves alone

VARIABLES
  profile,    \* the row of a user, or None
  job,        \* a job: its step, the log it is at, and the locals of scoreLog
  incidents,  \* incidents created for a user
  confirms,   \* executions of disable_account that wait for a confirmation
  applied,    \* history: how often the risk of a log of a job was written
  suspicious  \* history: how many of these events scored above 50

history == <<applied, suspicious>>
vars == <<profile, job, incidents, confirms, history>>

Profile == [risk : 0 .. 100, built : BOOLEAN, anomalies : 0 .. MaxAnomalies]

Steps == {"load", "create", "update", "incident", "execute"}
Ended == {"done", "failed"}

\* What a job knows: the risk it read, and the score of the event.
Job == [at : {"waiting"} \cup Steps \cup Ended, log : Nat \ {0}, stalls : 0 .. MaxStalls,
        before : 0 .. 100, built : BOOLEAN, event : 0 .. 100]

\* A job at its first log.
Fresh(at, stalls) ==
  [at |-> at, log |-> 1, stalls |-> stalls, before |-> 0, built |-> FALSE, event |-> 0]

\* The logs of the jobs.
Slots == UNION {{j} \X DOMAIN LogsOf[j] : j \in Jobs}

UserOf(j) == LogsOf[j][job[j].log]

ProfileOK == profile \in [Users -> Profile \cup {None}]
JobOK ==
  /\ job \in [Jobs -> Job]
  /\ \A j \in Jobs : job[j].log \in DOMAIN LogsOf[j]
CountsOK ==
  /\ incidents \in [Users -> Nat] /\ confirms \in [Users -> Nat]
  /\ applied \in [Slots -> Nat]
  /\ suspicious \in [Users -> Nat]

\* A risk stays between 0 and 100, and a job at one of its logs.
TypeOK == ProfileOK /\ JobOK /\ CountsOK

Init ==
  /\ profile = [u \in Users |-> None]
  /\ job = [j \in Jobs |-> Fresh("waiting", 0)]
  /\ incidents = [u \in Users |-> 0] /\ confirms = [u \in Users |-> 0]
  /\ applied = [s \in Slots |-> 0]
  /\ suspicious = [u \in Users |-> 0]

-----------------------------------------------------------------------------
(* The score of an event and the risk of a user. *)

\* As if with an empty list of known hosts every host were a new one.
EveryHostNewMutant(built) == Anomalies

\* The default baseline knows no hosts and no addresses, and with an empty list
\* none is new.  What a built baseline finds unusual depends on its data.
CanShow(built) == IF built THEN Anomalies ELSE Anomalies \ {"new_host", "new_ip"}

Points(shown, anomaly, points) == IF anomaly \in shown THEN points ELSE 0

\* The breakdown, added up.
Score(shown) ==
  Points(shown, "off_hours", 20) + Points(shown, "new_host", 20) + Points(shown, "new_ip", 15)
  + Points(shown, "weekend_activity", 15) + Points(shown, "file_download_burst", 20)
  + Points(shown, "login_deviation", 10)

Events(built) == {Score(kind \cap CanShow(built)) : kind \in Kinds}

\* As if the new event were added to what is left of the old risk.
SummedMutant(event, before) ==
  {n \in 0 .. 200 : 10 * n - 5 <= 10 * event + 7 * before /\ 10 * event + 7 * before <= 10 * n + 5}

\* As if the two weights were exchanged.
SwappedMutant(event, before) ==
  {n \in 0 .. 100 : 10 * n - 5 <= 7 * event + 3 * before /\ 7 * event + 3 * before <= 10 * n + 5}

\* Math.round(0.3 * eventScore + 0.7 * riskScoreBefore); a half may fall either way
\* in floating point.
Ema(event, before) ==
  {n \in 0 .. 100 : 10 * n - 5 <= 3 * event + 7 * before /\ 3 * event + 7 * before <= 10 * n + 5}

-----------------------------------------------------------------------------
(* The jobs. *)

Active == {j \in Jobs : job[j].at \in Steps}

Start(j) ==
  /\ job[j].at = "waiting" /\ Cardinality(Active) < Concurrency
  /\ job' = [job EXCEPT ![j] = Fresh("load", job[j].stalls)]
  /\ UNCHANGED <<profile, incidents, confirms, history>>

\* The loop of score-batch goes on with the next log.
After(j) ==
  IF job[j].log = Len(LogsOf[j]) THEN [job[j] EXCEPT !.at = "done"]
  ELSE [job[j] EXCEPT !.at = "load", !.log = @ + 1]

\* As if handleScoring let the error through: the attempts of the queue.
RethrownMutant(j) ==
  /\ job[j].at \in Steps /\ "db" \in Faults
  /\ job' = [job EXCEPT ![j] = Fresh("waiting", job[j].stalls)]
  /\ UNCHANGED <<profile, incidents, confirms, history>>

\* A request fails: handleScoring swallows the error and the log is not scored, or
\* triggerSoar does and nothing is triggered.  The attempts never come about.
Fails(j) ==
  /\ job[j].at \in Steps /\ "db" \in Faults
  /\ job' = [job EXCEPT ![j] = After(j)]
  /\ UNCHANGED <<profile, incidents, confirms, history>>

\* What scoreLog takes from a profile.
Read(j, row) ==
  \E event \in Events(row.built) :
    job' = [job EXCEPT ![j].at = "update", ![j].before = row.risk,
                       ![j].built = row.built, ![j].event = event]

Load(j) ==
  /\ job[j].at = "load"
  /\ IF profile[UserOf(j)] = None
     THEN job' = [job EXCEPT ![j].at = "create"]
     ELSE Read(j, profile[UserOf(j)])
  /\ UNCHANGED <<profile, incidents, confirms, history>>

ColdStart(built) == [risk |-> ColdRisk, built |-> built, anomalies |-> 0]

CreateProfile(j) ==
  /\ job[j].at = "create" /\ profile[UserOf(j)] = None
  /\ profile' = [profile EXCEPT ![UserOf(j)] = ColdStart(FALSE)]
  /\ Read(j, ColdStart(FALSE))
  /\ UNCHANGED <<incidents, confirms, history>>

\* As if the creation were tried again.
CreateAgainMutant(j) ==
  /\ job[j].at = "create" /\ profile[UserOf(j)] # None
  /\ UNCHANGED <<profile, job, incidents, confirms, history>>

\* Another job, or the rebuild, created the profile first: the name is unique, the
\* error is swallowed, and the log is not scored.
CreateConflict(j) ==
  /\ job[j].at = "create" /\ profile[UserOf(j)] # None
  /\ job' = [job EXCEPT ![j] = After(j)]
  /\ UNCHANGED <<profile, incidents, confirms, history>>

Suspicious(event) == event > 50

\* Beyond the range of the column the update throws, and the log is not scored.
Countable(j) == Suspicious(job[j].event) => profile[UserOf(j)].anomalies < MaxAnomalies

\* The bookkeeping of the properties, and where the job goes on.
Written(j, after) ==
  LET u == UserOf(j)
  IN  /\ job' = [job EXCEPT ![j] = IF after >= SOAR_THRESHOLD
                                   THEN [job[j] EXCEPT !.at = "incident"] ELSE After(j)]
      /\ applied' = [applied EXCEPT ![<<j, job[j].log>>] = @ + 1]
      /\ suspicious' = IF Suspicious(job[j].event) THEN [suspicious EXCEPT ![u] = @ + 1]
                       ELSE suspicious
      /\ UNCHANGED <<incidents, confirms>>

\* As if the count were read and written back: an increment is lost when another
\* job has written since.
LostIncrementMutant(j) ==
  LET u == UserOf(j)
  IN  /\ job[j].at = "update" /\ Countable(j)
      /\ \E after \in Ema(job[j].event, job[j].before) :
           /\ profile' = [profile EXCEPT
                ![u] = [@ EXCEPT !.risk = after,
                                 !.anomalies = IF Suspicious(job[j].event) /\ job[j].before = profile[u].risk
                                               THEN @ + 1 ELSE @]]
           /\ Written(j, after)

\* The update of a row: the count is incremented where it is, and the baseline is
\* left alone.
Overwritten(row, after, event) ==
  [row EXCEPT !.risk = after,
              !.anomalies = IF Suspicious(event) THEN row.anomalies + 1 ELSE row.anomalies]

\* The risk is written from what was read, whatever has been written since.
UpdateProfile(j) ==
  LET u == UserOf(j)
  IN  /\ job[j].at = "update" /\ Countable(j)
      /\ \E after \in Ema(job[j].event, job[j].before) :
           /\ profile' = [profile EXCEPT ![u] = Overwritten(@, after, job[j].event)]
           /\ Written(j, after)

UpdateOverflows(j) ==
  /\ job[j].at = "update" /\ ~Countable(j)
  /\ job' = [job EXCEPT ![j] = After(j)]
  /\ UNCHANGED <<profile, incidents, confirms, history>>

\* triggerSoar: every event that leaves the risk high creates an incident ...
CreateIncident(j) ==
  /\ job[j].at = "incident"
  /\ incidents' = [incidents EXCEPT ![UserOf(j)] = @ + 1]
  /\ job' = [job EXCEPT ![j].at = "execute"]
  /\ UNCHANGED <<profile, confirms, history>>

\* ... and an execution in CONFIRM mode, which runs nothing yet.
ExecutePlaybook(j) ==
  /\ job[j].at = "execute"
  /\ confirms' = [confirms EXCEPT ![UserOf(j)] = @ + 1]
  /\ job' = [job EXCEPT ![j] = After(j)]
  /\ UNCHANGED <<profile, incidents, history>>

\* buildBaselineForUser, nightly or on request: the upsert sets the baseline only.
\* Which data the baseline is made of is left out; an error is caught per user.
Rebuild(u) ==
  /\ profile' = [profile EXCEPT ![u] = IF @ = None THEN ColdStart(TRUE)
                                       ELSE [@ EXCEPT !.built = TRUE]]
  /\ UNCHANGED <<job, incidents, confirms, history>>

\* The process restarts: the active jobs are stalled, and run again from the first
\* log, once.
Restart ==
  /\ "restart" \in Faults /\ Active # {}
  /\ job' = [j \in Jobs |->
       IF j \notin Active THEN job[j]
       ELSE IF job[j].stalls = MaxStalls THEN [job[j] EXCEPT !.at = "failed"]
       ELSE Fresh("waiting", job[j].stalls + 1)]
  /\ UNCHANGED <<profile, incidents, confirms, history>>

Continue(j) ==
  \/ Start(j) \/ Load(j) \/ CreateProfile(j) \/ CreateConflict(j)
  \/ UpdateProfile(j) \/ UpdateOverflows(j) \/ CreateIncident(j) \/ ExecutePlaybook(j)

Next ==
  \/ \E j \in Jobs : Continue(j) \/ Fails(j)
  \/ \E u \in Users : Rebuild(u)
  \/ Restart

Spec == Init /\ [][Next]_vars

\* The workers take waiting jobs, and the requests of a job end.
FairSpec == Spec /\ \A j \in Jobs : WF_vars(Continue(j))

-----------------------------------------------------------------------------
(* Properties. *)

\* No account is put up for being disabled on the default baseline: without known
\* hosts and addresses an event scores at most 65, and no series of such events
\* takes the risk to 70, in whatever order concurrent jobs overwrite it.
TriggerNeedsBaseline == \A u \in Users : incidents[u] > 0 => profile[u] # None /\ profile[u].built

\* ... nor on a single suspicious event: the count shows two at least, although
\* the risk they add up to may be overwritten from an older read.
TriggerNeedsTwoAnomalies ==
  \A u \in Users : incidents[u] > 0 => profile[u] # None /\ profile[u].anomalies >= 2

\* The count is exact under concurrent jobs, as the risk is not.
AnomaliesCounted ==
  \A u \in Users : suspicious[u] = IF profile[u] = None THEN 0 ELSE profile[u].anomalies

\* A log moves the risk a second time only when a restart ran its job again: an
\* error in a later log never does.
ScoredTwiceOnlyByRestart == \A s \in Slots : applied[s] <= 1 + job[s[1]].stalls

\* A job ends, whatever other jobs do to the profile it works on.
JobsEnd == \A j \in Jobs : job[j].at = "waiting" ~> job[j].at \in Ended
=============================================================================
