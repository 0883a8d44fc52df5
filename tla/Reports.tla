------------------------------ MODULE Reports ------------------------------
(***************************************************************************)
(* Reports: a request starts a job in the background whose state is kept   *)
(* in memory; the job reads the logs of the period page by page while      *)
(* others are indexed, and writes a file of its format; every night the    *)
(* files of a week ago are deleted.  The process restarts, searches and    *)
(* writes fail.                                                            *)
(*                                                                         *)
(* The content of a report is the set of its logs; layout, LaTeX and the   *)
(* e-mail with the report are left out.  A search sees every document that *)
(* is indexed when it is made.                                             *)
(***************************************************************************)
EXTENDS Integers, FiniteSets, FiniteSetsExt

CONSTANTS Requests,    \* report jobs, by their job_id
          Entries,     \* logs of ctu-logs in the period of the reports
          CollectedAt, \* their time
          PageSize,    \* documents per page of fetchLogs
          Cap,         \* logs at which fetchLogs stops (100000)
          Lifetime,    \* days a file is kept (7)
          LastDay,     \* bound on the clock
          Faults       \* a subset of AllFaults

AllFaults == {"search", "db", "write", "restart"}
Formats == {"pdf", "excel", "csv"}

ASSUME ReportConstants ==
  /\ IsFiniteSet(Entries) /\ CollectedAt \in [Entries -> Nat]
  /\ PageSize \in Nat \ {0} /\ Cap \in Nat /\ Lifetime \in Nat /\ LastDay \in Nat
  /\ Faults \subseteq AllFaults

VARIABLES
  pendingJobs, \* what getJobStatus answers: in memory
  task,        \* the background work of a job and its locals
  files,       \* files below REPORTS_DIR
  index,       \* documents of ctu-logs
  today,       \* the clock, in days
  expected,    \* history: the documents there were when a job began to search
  partial,     \* history: jobs with a search that failed, or that met the cap
  restarted    \* history: the process was restarted

vars == <<pendingJobs, task, files, index, today, expected, partial, restarted>>

\* A file of the directory of its format, or of the working directory of LaTeX.
File == [job : Requests, dir : Formats \cup {"latex"}, whole : BOOLEAN, mtime : 0 .. LastDay]

NoJob == [status |-> "unknown", format |-> "csv", expires |-> 0]
NoTask == [at |-> "none", after |-> -1, logs |-> {}]
Steps == {"fetch", "query", "write", "writing"}

\* Every job is in one of the states getJobStatus may answer, every file in one of
\* the directories.
TypeOK ==
  /\ pendingJobs \in [Requests -> [status : {"unknown", "generating", "ready", "failed"},
                                   format : Formats, expires : 0 .. LastDay + Lifetime]]
  /\ task \in [Requests -> [at : {"none"} \cup Steps, after : Int, logs : SUBSET Entries]]
  /\ files \subseteq File /\ index \subseteq Entries /\ today \in 0 .. LastDay
  /\ expected \in [Requests -> SUBSET Entries]
  /\ partial \subseteq Requests /\ restarted \in BOOLEAN

Init ==
  /\ pendingJobs = [r \in Requests |-> NoJob] /\ task = [r \in Requests |-> NoTask]
  /\ files = {} /\ index \in SUBSET Entries /\ today = 0
  /\ expected = [r \in Requests |-> {}] /\ partial = {} /\ restarted = FALSE

-----------------------------------------------------------------------------
(* A job. *)

\* The answer is the job_id; doGenerate goes on in the background.
Generate(r, format) ==
  /\ pendingJobs[r] = NoJob /\ expected[r] = {} /\ ~\E f \in files : f.job = r
  /\ pendingJobs' = [pendingJobs EXCEPT ![r].status = "generating", ![r].format = format]
  /\ task' = [task EXCEPT ![r].at = "fetch"]
  /\ expected' = [expected EXCEPT ![r] = index]
  /\ UNCHANGED <<files, index, today, partial, restarted>>

\* As if the page after began a unit of time later.
LastSkippedMutant(r) == {l \in index : CollectedAt[l] > task[r].after + 1}

\* The documents after the last one of the page before: ties of it are passed over.
Rest(r) == {l \in index : CollectedAt[l] > task[r].after}

Pages(r) ==
  {page \in kSubset(IF Cardinality(Rest(r)) < PageSize THEN Cardinality(Rest(r)) ELSE PageSize,
                    Rest(r)) :
     \A l \in page, k \in Rest(r) \ page : CollectedAt[l] <= CollectedAt[k]}

FetchPage(r) ==
  /\ task[r].at = "fetch" /\ Rest(r) # {} /\ Cardinality(task[r].logs) < Cap
  /\ \E page \in Pages(r) :
       task' = [task EXCEPT ![r].logs = @ \cup page,
                            ![r].after = Max({CollectedAt[l] : l \in page})]
  /\ UNCHANGED <<pendingJobs, files, index, today, expected, partial, restarted>>

\* An empty page, the cap or an error ends the search: an error is logged, and the
\* report is made of what there is.
EndFetch(r) ==
  /\ task[r].at = "fetch"
  /\ \/ Rest(r) = {} /\ UNCHANGED partial
     \/ Cardinality(task[r].logs) >= Cap /\ partial' = partial \cup {r}
     \/ "search" \in Faults /\ partial' = partial \cup {r}
  /\ task' = [task EXCEPT ![r].at = "query"]
  /\ UNCHANGED <<pendingJobs, files, index, today, expected, restarted>>

\* The queries to the database, which run beside the search.
Query(r) ==
  /\ task[r].at = "query"
  /\ task' = [task EXCEPT ![r].at = "write"]
  /\ UNCHANGED <<pendingJobs, files, index, today, expected, partial, restarted>>

\* As if nothing caught the error of the background work.
UnhandledMutant(r) ==
  /\ task[r].at \in {"fetch", "query"} /\ "db" \in Faults
  /\ task' = [task EXCEPT ![r] = NoTask]
  /\ UNCHANGED <<pendingJobs, files, index, today, expected, partial, restarted>>

Fail(r) ==
  /\ pendingJobs' = [pendingJobs EXCEPT ![r].status = "failed"]
  /\ task' = [task EXCEPT ![r] = NoTask]

\* doGenerate's catch: the job has failed, whatever its search still reads.
QueryFails(r) ==
  /\ task[r].at \in {"fetch", "query"} /\ "db" \in Faults
  /\ Fail(r)
  /\ UNCHANGED <<files, index, today, expected, partial, restarted>>

Made(r, dir, whole) == [job |-> r, dir |-> dir, whole |-> whole, mtime |-> today]

\* As if the state had another name than the one the clients wait for.
RenamedMutant(r) ==
  /\ pendingJobs' = [pendingJobs EXCEPT ![r].status = "done", ![r].expires = today + Lifetime]
  /\ task' = [task EXCEPT ![r].at = "none"]

Ready(r) ==
  /\ pendingJobs' = [pendingJobs EXCEPT ![r].status = "ready", ![r].expires = today + Lifetime]
  /\ task' = [task EXCEPT ![r].at = "none"]

\* generateCsv and LatexReportService.generate write their file without giving way:
\* pdflatex runs in a spawnSync.
WriteSync(r) ==
  /\ task[r].at = "write" /\ pendingJobs[r].format \in {"csv", "pdf"}
  /\ files' = files \cup {Made(r, pendingJobs[r].format, TRUE)}
  /\ Ready(r)
  /\ UNCHANGED <<index, today, expected, partial, restarted>>

\* A write that fails: a part of the CSV file stays where it is, and a PDF file that
\* pdflatex has left stays in the working directory.
WriteSyncFails(r) ==
  /\ task[r].at = "write" /\ "write" \in Faults
  /\ \/ /\ pendingJobs[r].format = "csv"
        /\ files' \in {files, files \cup {Made(r, "csv", FALSE)}}
     \/ /\ pendingJobs[r].format = "pdf"
        /\ files' \in {files, files \cup {Made(r, "latex", FALSE)}}
  /\ Fail(r)
  /\ UNCHANGED <<index, today, expected, partial, restarted>>

\* generateExcel: the file grows while others run.
BeginExcel(r) ==
  /\ task[r].at = "write" /\ pendingJobs[r].format = "excel"
  /\ files' = files \cup {Made(r, "excel", FALSE)}
  /\ task' = [task EXCEPT ![r].at = "writing"]
  /\ UNCHANGED <<pendingJobs, index, today, expected, partial, restarted>>

FilesOf(r) == {f \in files : f.job = r}

\* The file is whole, and written last now.
EndExcel(r) ==
  /\ task[r].at = "writing"
  /\ files' = (files \ FilesOf(r)) \cup {Made(r, "excel", TRUE)}
  /\ Ready(r)
  /\ UNCHANGED <<index, today, expected, partial, restarted>>

\* As if the catch left the file alone.
NoUnlinkMutant(r) ==
  /\ task[r].at = "writing" /\ "write" \in Faults
  /\ Fail(r)
  /\ UNCHANGED <<files, index, today, expected, partial, restarted>>

\* The catch of generateExcel removes what was written.
ExcelFails(r) ==
  /\ task[r].at = "writing" /\ "write" \in Faults
  /\ files' = files \ FilesOf(r)
  /\ Fail(r)
  /\ UNCHANGED <<index, today, expected, partial, restarted>>

-----------------------------------------------------------------------------
(* The surroundings. *)

\* As if a file went a day before its expiry.
EarlyMutant == {f \in files : f.mtime <= today - Lifetime}

\* A file that is being written is never old.
Old == {f \in files : f.mtime < today - Lifetime /\ task[f.job].at # "writing"}

\* The nightly job, in all four directories; pendingJobs keeps what it knows.
Cleanup ==
  /\ Old # {} /\ files' = files \ Old
  /\ UNCHANGED <<pendingJobs, task, index, today, expected, partial, restarted>>

Arrive(l) ==
  /\ l \notin index /\ index' = index \cup {l}
  /\ UNCHANGED <<pendingJobs, task, files, today, expected, partial, restarted>>

Tomorrow ==
  /\ today < LastDay /\ today' = today + 1
  /\ UNCHANGED <<pendingJobs, task, files, index, expected, partial, restarted>>

\* The map of the jobs is gone, and so is their work; the files stay.
Restart ==
  /\ "restart" \in Faults /\ \E r \in Requests : pendingJobs[r] # NoJob
  /\ pendingJobs' = [r \in Requests |-> NoJob] /\ task' = [r \in Requests |-> NoTask]
  /\ restarted' = TRUE
  /\ UNCHANGED <<files, index, today, expected, partial>>

Continue(r) ==
  FetchPage(r) \/ EndFetch(r) \/ Query(r) \/ WriteSync(r) \/ BeginExcel(r) \/ EndExcel(r)

Next ==
  \/ \E r \in Requests :
       \/ \E format \in Formats : Generate(r, format)
       \/ Continue(r) \/ QueryFails(r) \/ WriteSyncFails(r) \/ ExcelFails(r)
  \/ Cleanup \/ Tomorrow \/ Restart
  \/ \E l \in Entries : Arrive(l)

Spec == Init /\ [][Next]_vars

\* The requests of a job end, and its background work goes on.
FairSpec == Spec /\ \A r \in Requests : WF_vars(Continue(r))

-----------------------------------------------------------------------------
(* Properties. *)

\* A log that was there when the search began is missing from a finished report
\* only after a failed search or at the cap, or when another log has its time:
\* search_after without a tie breaker passes over the rest of a page's last time.
MissingIsExplained ==
  \A r \in Requests :
    pendingJobs[r].status = "ready" /\ r \notin partial =>
      \A l \in expected[r] \ task[r].logs :
        \E k \in index \ {l} : CollectedAt[k] = CollectedAt[l]

\* A report that is ready can be downloaded until it expires, whole: the nightly
\* cleanup and the expiry told to the user agree.
ReadyCanBeDownloaded ==
  \A r \in Requests :
    pendingJobs[r].status = "ready" /\ today <= pendingJobs[r].expires =>
      \E f \in files : f.job = r /\ f.dir = pendingJobs[r].format /\ f.whole

\* A part of a spreadsheet or a PDF is on the list of reports only while it is being
\* written, or after a restart; a failed job takes its part away.
ListedIsWhole ==
  \A f \in files :
    f.dir \in {"pdf", "excel"} /\ ~f.whole => task[f.job].at = "writing" \/ restarted

\* A job that was accepted becomes ready or failed, unless a restart forgets it.
JobsSettle ==
  \A r \in Requests :
    pendingJobs[r].status = "generating" ~> pendingJobs[r].status # "generating"
=============================================================================
