-------------------------------- MODULE Logs --------------------------------
(***************************************************************************)
(* The queue "logs" and what its processor does with the index: a batch of *)
(* raw logs is accepted as a job, normalized, inserted in one bulk request *)
(* and handed to the queue "ueba" to be scored; once a day another job of  *)
(* the same queue archives the old documents page by page and deletes them *)
(* by query.  The jobs of the two kinds run side by side (concurrency 50), *)
(* requests fail before or after their effect, Elasticsearch refuses items *)
(* of a bulk, and the process restarts.                                    *)
(*                                                                         *)
(* Parsing, lower-casing and enrichment are left out: enrichLog never      *)
(* throws.  A document is in the index from the moment a search finds it.  *)
(***************************************************************************)
EXTENDS Integers, FiniteSets, FiniteSetsExt

CONSTANTS Batches,       \* requests to POST /logs
          Entries,       \* the raw logs they hold
          LogsOf,        \* the logs of a batch, possibly none
          CollectedAt,   \* the day a collector stamped a log with
          Hash,          \* ingestion_hash, the rank of the hash of raw_message
          Malformed,     \* logs without raw_message: nothing validates them
          WithPrincipal, \* logs that carry a user_principal
          Refusable,     \* logs Elasticsearch may refuse as items of a bulk
          PageSize,      \* documents per page of the archive's search
          RetentionDays, \* argument of archiveAndPurge
          LastDay,       \* bound on the clock
          Faults,        \* the faults that may happen, a subset of AllFaults
          None

AllFaults == {"bulk", "search", "write", "delete", "ueba", "restart"}

ASSUME LogsConstants ==
  /\ LogsOf \in [Batches -> SUBSET Entries] /\ \A b \in Batches : IsFiniteSet(LogsOf[b])
  /\ \A a, b \in Batches : a # b => LogsOf[a] \cap LogsOf[b] = {}
  /\ CollectedAt \in [Entries -> 0 .. LastDay] /\ Hash \in [Entries -> Nat]
  /\ Malformed \subseteq Entries /\ WithPrincipal \subseteq Entries
  /\ Refusable \subseteq Entries
  /\ PageSize \in Nat \ {0} /\ RetentionDays \in Nat /\ LastDay \in Nat
  /\ RetentionDays < LastDay
  /\ Faults \subseteq AllFaults

MaxStalls == 1   \* maxStalledCount of BullMQ, which the code leaves alone

VARIABLES
  job,        \* state of the job of a batch
  stalls,     \* how often a restart found the job active
  runs,       \* how often the job was started
  scoreJobs,  \* score-batch jobs added for the batch
  index,      \* documents of ctu-logs: a log, and the run that inserted it
  today,      \* the clock, in days
  scheduled,  \* the day of the last retention job
  purge,      \* the retention job: its step and its locals
  archive,    \* documents in the files of backups/logs
  purged,     \* history: documents the retention deleted
  refused,    \* history: logs Elasticsearch refused as items of a bulk
  late        \* history: documents indexed while this retention job, or the one
              \* that deleted them, was under way

jobVars == <<job, stalls, runs, scoreJobs, refused>>
purgeVars == <<scheduled, purge, archive, purged>>
vars == <<jobVars, purgeVars, index, today, late>>

Doc == [log : Entries, run : 1 .. MaxStalls + 1]
NoPurge == [at |-> "idle", cutoff |-> 0, after |-> None, gathered |-> {}, stalls |-> 0]

InProgress == {"insert", "inserted", "handed"}
Ended == {"done", "failed"}
PurgeSteps == {"search", "write", "delete"}

Purge == [at : {"idle", "waiting"} \cup PurgeSteps, cutoff : 0 .. LastDay,
          after : {None} \cup ((0 .. LastDay) \X Nat), gathered : SUBSET Doc,
          stalls : 0 .. MaxStalls]

Key(d) == <<CollectedAt[d.log], Hash[d.log]>>
Before(k, l) == k[1] < l[1] \/ (k[1] = l[1] /\ k[2] < l[2])

\* Every job is at a step of the processor, and a cutoff lies in the past.
TypeOK ==
  /\ job \in [Batches -> {"none", "waiting"} \cup InProgress \cup Ended]
  /\ stalls \in [Batches -> 0 .. MaxStalls] /\ runs \in [Batches -> 0 .. MaxStalls + 1]
  /\ scoreJobs \in [Batches -> 0 .. MaxStalls + 1]
  /\ index \subseteq Doc /\ today \in RetentionDays .. LastDay /\ scheduled \in 0 .. today
  /\ purge \in Purge /\ archive \subseteq Doc /\ purged \subseteq Doc
  /\ refused \subseteq Entries /\ late \subseteq Doc

\* The days before RetentionDays + 1, on which nothing can be old, are left out.
Init ==
  /\ job = [b \in Batches |-> "none"] /\ stalls = [b \in Batches |-> 0]
  /\ runs = [b \in Batches |-> 0] /\ scoreJobs = [b \in Batches |-> 0]
  /\ index = {} /\ today = RetentionDays + 1 /\ purge = NoPurge /\ scheduled = 0
  /\ archive = {} /\ purged = {} /\ refused = {} /\ late = {}

-----------------------------------------------------------------------------
(* The normalize jobs. *)

\* LogsService.ingest: the batch is queued without attempts, whatever it holds.
Ingest(b) ==
  /\ job[b] = "none"
  /\ job' = [job EXCEPT ![b] = "waiting"]
  /\ UNCHANGED <<stalls, runs, scoreJobs, refused, purgeVars, index, today, late>>

\* An empty batch ends the job at once; a log without raw_message makes
\* normalizeLogs throw, and the whole batch fails with it.
Normalize(b) ==
  /\ job[b] = "waiting"
  /\ runs' = [runs EXCEPT ![b] = @ + 1]
  /\ job' = [job EXCEPT ![b] = IF LogsOf[b] = {} THEN "done"
                               ELSE IF LogsOf[b] \cap Malformed # {} THEN "failed"
                               ELSE "insert"]
  /\ UNCHANGED <<stalls, scoreJobs, refused, purgeVars, index, today, late>>

\* The documents have no id of their own: every run adds new ones.
Insert(b, taken) ==
  LET docs == [log : taken, run : {runs[b]}]
  IN  /\ index' = index \cup docs
      /\ late' = IF purge.at \in PurgeSteps THEN late \cup docs ELSE late
      /\ UNCHANGED <<stalls, runs, scoreJobs, purgeVars, today>>

\* bulkInsert answers: items that were refused are logged and counted as indexed.
BulkInsert(b) ==
  /\ job[b] = "insert"
  /\ \E taken \in SUBSET LogsOf[b] :
       /\ LogsOf[b] \ taken \subseteq Refusable
       /\ Insert(b, taken)
       /\ refused' = refused \cup (LogsOf[b] \ taken)
  /\ job' = [job EXCEPT ![b] = "inserted"]

\* As if the queue tried a job that threw again.
RetriedMutant(b) ==
  /\ job[b] = "insert" /\ "bulk" \in Faults
  /\ \E taken \in SUBSET LogsOf[b] : Insert(b, taken)
  /\ job' = [job EXCEPT ![b] = IF runs[b] > MaxStalls THEN "failed" ELSE "waiting"]
  /\ UNCHANGED refused

\* bulkInsert throws, before or after the request took effect: the job has failed.
BulkThrows(b) ==
  /\ job[b] = "insert" /\ "bulk" \in Faults
  /\ \E taken \in SUBSET LogsOf[b] : Insert(b, taken)
  /\ job' = [job EXCEPT ![b] = "failed"]
  /\ UNCHANGED refused

\* As if the logs were handed over without waiting for the insertion.
EarlyHandOverMutant(b) ==
  /\ job[b] \in {"insert", "inserted"} /\ scoreJobs[b] < runs[b]
  /\ scoreJobs' = [scoreJobs EXCEPT ![b] = @ + 1]
  /\ job' = [job EXCEPT ![b] = IF @ = "inserted" THEN "handed" ELSE @]
  /\ UNCHANGED <<stalls, runs, refused, purgeVars, index, today, late>>

\* One score-batch job for the logs with a principal; an error of the queue is
\* swallowed.  Logs Elasticsearch refused are scored all the same.
HandOver(b) ==
  /\ job[b] = "inserted"
  /\ \/ /\ LogsOf[b] \cap WithPrincipal # {}
        /\ scoreJobs' = [scoreJobs EXCEPT ![b] = @ + 1]
     \/ /\ LogsOf[b] \cap WithPrincipal = {} \/ "ueba" \in Faults
        /\ UNCHANGED scoreJobs
  /\ job' = [job EXCEPT ![b] = "handed"]
  /\ UNCHANGED <<stalls, runs, refused, purgeVars, index, today, late>>

Complete(b) ==
  /\ job[b] = "handed"
  /\ job' = [job EXCEPT ![b] = "done"]
  /\ UNCHANGED <<stalls, runs, scoreJobs, refused, purgeVars, index, today, late>>

-----------------------------------------------------------------------------
(* The retention job. *)

\* The scheduler adds retention-archive every day at 02:30.
Schedule ==
  /\ purge.at = "idle" /\ scheduled < today
  /\ scheduled' = today
  /\ purge' = [NoPurge EXCEPT !.at = "waiting"]
  /\ UNCHANGED <<jobVars, archive, purged, index, today, late>>

\* As if the retention were added.
FutureMutant ==
  /\ purge.at = "waiting"
  /\ purge' = [purge EXCEPT !.at = "search", !.cutoff = today + RetentionDays,
                            !.after = None, !.gathered = {}]
  /\ late' = late \cap purged
  /\ UNCHANGED <<jobVars, scheduled, archive, purged, index, today>>

\* archiveAndPurge computes the cutoff once, for the archive and the deletion.
StartPurge ==
  /\ purge.at = "waiting"
  /\ purge' = [purge EXCEPT !.at = "search", !.cutoff = today - RetentionDays,
                            !.after = None, !.gathered = {}]
  /\ late' = late \cap purged
  /\ UNCHANGED <<jobVars, scheduled, archive, purged, index, today>>

Older(cutoff) == {d \in index : CollectedAt[d.log] < cutoff}

\* What the next page is taken from: search_after is strict.
Rest == {d \in Older(purge.cutoff) : purge.after = None \/ Before(purge.after, Key(d))}

\* The possible pages: the first documents in the order of collected_at and
\* ingestion_hash, those with the same key in any order.
Pages ==
  {page \in kSubset(IF Cardinality(Rest) < PageSize THEN Cardinality(Rest) ELSE PageSize, Rest) :
     \A d \in page, e \in Rest \ page : ~Before(Key(e), Key(d))}

LastKey(page) == CHOOSE k \in {Key(d) : d \in page} : \A d \in page : ~Before(k, Key(d))

\* search_after stays unset: the first page again and again.
SamePageMutant ==
  /\ purge.at = "search" /\ Rest # {}
  /\ \E page \in Pages : purge' = [purge EXCEPT !.gathered = @ \cup page]
  /\ UNCHANGED <<jobVars, scheduled, archive, purged, index, today, late>>

NextPage ==
  /\ purge.at = "search" /\ Rest # {}
  /\ \E page \in Pages :
       purge' = [purge EXCEPT !.gathered = @ \cup page, !.after = LastKey(page)]
  /\ UNCHANGED <<jobVars, scheduled, archive, purged, index, today, late>>

\* An empty page ends the search; when nothing was found nothing is deleted either.
EndSearch ==
  /\ purge.at = "search" /\ Rest = {}
  /\ purge' = IF purge.gathered = {} THEN NoPurge ELSE [purge EXCEPT !.at = "write"]
  /\ UNCHANGED <<jobVars, scheduled, archive, purged, index, today, late>>

WriteArchive ==
  /\ purge.at = "write"
  /\ archive' = archive \cup purge.gathered
  /\ purge' = [purge EXCEPT !.at = "delete"]
  /\ UNCHANGED <<jobVars, scheduled, purged, index, today, late>>

Delete(docs) ==
  /\ index' = index \ docs /\ purged' = purged \cup docs
  /\ purge' = NoPurge
  /\ UNCHANGED <<jobVars, scheduled, archive, today, late>>

\* As if the cutoff were computed again.
NewCutoffMutant == purge.at = "delete" /\ Delete(Older(today - RetentionDays))

\* deleteByQuery goes by the age of the documents, not by what was archived.
DeleteOld == purge.at = "delete" /\ Delete(Older(purge.cutoff))

\* As if the error of writeFile were caught.
UnwrittenMutant ==
  /\ purge.at = "write" /\ "write" \in Faults
  /\ purge' = [purge EXCEPT !.at = "delete"]
  /\ UNCHANGED <<jobVars, scheduled, archive, purged, index, today, late>>

\* A request or the file fails: the job has failed.  A deletion may fail half way.
PurgeFails ==
  \/ /\ \/ purge.at = "search" /\ "search" \in Faults
        \/ purge.at = "write" /\ "write" \in Faults
     /\ Delete({})
  \/ /\ purge.at = "delete" /\ "delete" \in Faults
     /\ \E docs \in SUBSET Older(purge.cutoff) : Delete(docs)

-----------------------------------------------------------------------------
(* The surroundings. *)

Tomorrow ==
  /\ today < LastDay /\ today' = today + 1
  /\ UNCHANGED <<jobVars, purgeVars, index, late>>

\* The process restarts: BullMQ finds its active jobs stalled and queues them
\* again, once; the locals of the retention job are gone.
Restart ==
  LET active == {b \in Batches : job[b] \in InProgress}
  IN  /\ "restart" \in Faults
      /\ active # {} \/ purge.at \in PurgeSteps
      /\ job' = [b \in Batches |-> IF b \notin active THEN job[b]
                                   ELSE IF stalls[b] = MaxStalls THEN "failed" ELSE "waiting"]
      /\ stalls' = [b \in Batches |-> IF b \in active /\ stalls[b] < MaxStalls
                                      THEN stalls[b] + 1 ELSE stalls[b]]
      /\ purge' = IF purge.at \notin PurgeSteps THEN purge
                  ELSE IF purge.stalls = MaxStalls THEN NoPurge
                  ELSE [NoPurge EXCEPT !.at = "waiting", !.stalls = purge.stalls + 1]
      /\ UNCHANGED <<runs, scoreJobs, refused, scheduled, archive, purged, index, today, late>>

JobStep(b) == Normalize(b) \/ BulkInsert(b) \/ HandOver(b) \/ Complete(b)
PurgeStep == StartPurge \/ NextPage \/ EndSearch \/ WriteArchive \/ DeleteOld

Next ==
  \/ \E b \in Batches : Ingest(b) \/ JobStep(b) \/ BulkThrows(b)
  \/ Schedule \/ PurgeStep \/ PurgeFails
  \/ Tomorrow \/ Restart

Spec == Init /\ [][Next]_vars

\* The workers of the queue go on taking jobs, and every request ends: no failure is
\* ever needed for a job to go on.
Fairness == (\A b \in Batches : WF_vars(JobStep(b))) /\ WF_vars(PurgeStep)

FairSpec == Spec /\ Fairness

-----------------------------------------------------------------------------
(* Properties. *)

Indexed(b) == {d.log : d \in {e \in index \cup purged : e.log \in LogsOf[b]}}

\* What was deleted is in an archive, unless it came while the job was under way
\* (deleteByQuery goes by age) or another document has its key (search_after
\* passes over the ties of a page's last document).
PurgedIsArchived ==
  \A d \in purged \ archive :
    \/ d \in late
    \/ \E e \in index \cup purged : e # d /\ Key(e) = Key(d)

\* A log is scored, and its job reported done, only after Elasticsearch has taken
\* it or refused it: no batch is lost by a job that succeeded.
HandedOverIsInserted ==
  \A b \in Batches :
    (scoreJobs[b] > 0 \/ job[b] = "done") => LogsOf[b] \subseteq Indexed(b) \cup refused

\* Only a restart inserts or scores a batch a second time: a job that threw after
\* its bulk request took effect is never run again.
RepeatedOnlyByRestart ==
  \A b \in Batches :
    stalls[b] = 0 =>
      /\ scoreJobs[b] <= 1
      /\ \A d, e \in index \cup purged : d.log = e.log /\ d.log \in LogsOf[b] => d = e

\* An accepted batch ends done or failed, and a retention job ends: the keys of
\* its pages grow, whatever is inserted meanwhile.
JobsEnd ==
  /\ \A b \in Batches : job[b] = "waiting" ~> job[b] \in Ended
  /\ purge.at = "waiting" ~> purge.at = "idle"
=============================================================================
