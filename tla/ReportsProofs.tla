---------------------------- MODULE ReportsProofs ----------------------------
(***************************************************************************)
(* The safety of report jobs for every set of requests and logs, every     *)
(* page size, cap and lifetime, and every combination of the faults.       *)
(***************************************************************************)
EXTENDS Reports, FiniteOrders

Tied(l) == \E k \in index \ {l} : CollectedAt[k] = CollectedAt[l]

\* The work of a job and its answer agree.
JobFits(r) ==
  /\ task[r].at \in Steps <=> pendingJobs[r].status = "generating"
  /\ task[r].at = "writing" => pendingJobs[r].format = "excel"
  /\ pendingJobs[r].status = "unknown" => task[r] = NoTask
  /\ expected[r] \subseteq index

\* A log that was expected is found, explained, or ahead of the search.
Searched(r) ==
  pendingJobs[r].status \in {"generating", "ready"} =>
    \A l \in expected[r] :
      \/ l \in task[r].logs \/ Tied(l) \/ r \in partial
      \/ task[r].at = "fetch" /\ CollectedAt[l] > task[r].after

\* The file of a report is no older than its expiry allows.
Kept(r) ==
  pendingJobs[r].status = "ready" /\ today <= pendingJobs[r].expires =>
    \E f \in files : /\ f.job = r /\ f.dir = pendingJobs[r].format /\ f.whole
                     /\ pendingJobs[r].expires <= f.mtime + Lifetime

\* A part of a file is on the list.
PartListed(f) == f.dir \in {"pdf", "excel"} /\ ~f.whole

ReportsInv ==
  /\ TypeOK
  /\ \A r \in Requests : JobFits(r) /\ Searched(r) /\ Kept(r)
  /\ ListedIsWhole
-----------------------------------------------------------------------------
LEMMA ReportsInit == Init => ReportsInv
<1> SUFFICES ASSUME Init  PROVE ReportsInv  OBVIOUS
<1> USE ReportConstants DEF Init
<1>1. TypeOK
  <2>1. NoJob \in [status : {"unknown", "generating", "ready", "failed"},
                   format : Formats, expires : 0 .. LastDay + Lifetime]
    BY DEF NoJob, Formats
  <2>2. NoTask \in [at : {"none"} \cup Steps, after : Int, logs : SUBSET Entries]
    BY DEF NoTask
  <2>3. 0 \in 0 .. LastDay  OBVIOUS
  <2> QED  BY <2>1, <2>2, <2>3 DEF TypeOK
<1>2. \A r \in Requests : JobFits(r) /\ Searched(r) /\ Kept(r)
  BY DEF JobFits, Searched, Kept, NoJob, NoTask, Steps
<1>3. ListedIsWhole  BY DEF ListedIsWhole
<1> QED  BY <1>1, <1>2, <1>3 DEF ReportsInv

LEMMA JobTypes ==
  ASSUME ReportsInv, NEW r \in Requests
  PROVE  /\ pendingJobs[r] \in [status : {"unknown", "generating", "ready", "failed"},
                                format : Formats, expires : 0 .. LastDay + Lifetime]
         /\ task[r] \in [at : {"none"} \cup Steps, after : Int, logs : SUBSET Entries]
         /\ expected[r] \subseteq Entries /\ today \in 0 .. LastDay
         /\ JobFits(r) /\ Searched(r) /\ Kept(r)
  BY DEF ReportsInv, TypeOK

\* A job moves: the other jobs keep what they know, and their files.
LEMMA JobMoves ==
  ASSUME ReportsInv, TypeOK', NEW r \in Requests,
         JobFits(r)', Searched(r)', Kept(r)',
         \A s \in Requests \ {r} : /\ pendingJobs'[s] = pendingJobs[s]
                                   /\ task'[s] = task[s] /\ expected'[s] = expected[s],
         partial \subseteq partial', UNCHANGED <<index, today, restarted>>,
         \A f : f.job # r => (f \in files' <=> f \in files),
         \A f \in files' : f.job = r /\ PartListed(f) => task'[r].at = "writing" \/ restarted
  PROVE  ReportsInv'
<1>1. ASSUME NEW s \in Requests \ {r}  PROVE JobFits(s)' /\ Searched(s)' /\ Kept(s)'
  <2>1. JobFits(s)'  BY <1>1, JobTypes DEF JobFits
  <2>2. Searched(s)'  BY <1>1, JobTypes DEF Searched, Tied
  <2>3. Kept(s)'
    <3> SUFFICES ASSUME pendingJobs[s].status = "ready", today <= pendingJobs[s].expires
                 PROVE  \E f \in files' : /\ f.job = s /\ f.dir = pendingJobs[s].format
                                          /\ f.whole
                                          /\ pendingJobs[s].expires <= f.mtime + Lifetime
      BY <1>1 DEF Kept
    <3>1. PICK f \in files : /\ f.job = s /\ f.dir = pendingJobs[s].format /\ f.whole
                             /\ pendingJobs[s].expires <= f.mtime + Lifetime
      BY <1>1, JobTypes DEF Kept
    <3>2. f \in files'  BY <1>1, <3>1
    <3> QED  BY <3>1, <3>2
  <2> QED  BY <2>1, <2>2, <2>3
<1>2. ListedIsWhole'
  <2> SUFFICES ASSUME NEW f \in files', PartListed(f)
               PROVE  task'[f.job].at = "writing" \/ restarted
    BY DEF ListedIsWhole, PartListed
  <2>1. CASE f.job = r  BY <2>1
  <2>2. CASE f.job # r
    <3>1. f \in files /\ f.job \in Requests  BY <2>2 DEF TypeOK, File
    <3> QED  BY <2>2, <3>1 DEF ReportsInv, ListedIsWhole, PartListed
  <2> QED  BY <2>1, <2>2
<1> QED  BY <1>1, <1>2 DEF ReportsInv

\* A job goes on without its files.
LEMMA JobGoesOn ==
  ASSUME ReportsInv, TypeOK', NEW r \in Requests,
         JobFits(r)', Searched(r)', Kept(r)',
         \A s \in Requests \ {r} : /\ pendingJobs'[s] = pendingJobs[s]
                                   /\ task'[s] = task[s] /\ expected'[s] = expected[s],
         partial \subseteq partial', UNCHANGED <<files, index, today, restarted>>,
         task[r].at # "writing"
  PROVE  ReportsInv'
<1>1. \A f \in files : f.job = r /\ PartListed(f) => restarted
  BY DEF ReportsInv, ListedIsWhole, PartListed
<1> QED  BY <1>1, JobMoves

\* The locals of one job are changed.
LEMMA TaskSet ==
  ASSUME ReportsInv, NEW r \in Requests,
         NEW t \in [at : {"none"} \cup Steps, after : Int, logs : SUBSET Entries],
         task' = [task EXCEPT ![r] = t]
  PROVE  /\ task'[r] = t /\ \A s \in Requests \ {r} : task'[s] = task[s]
         /\ task' \in [Requests -> [at : {"none"} \cup Steps, after : Int, logs : SUBSET Entries]]
  BY DEF ReportsInv, TypeOK

LEMMA GenerateKeeps ==
  ASSUME ReportsInv, NEW r \in Requests, NEW format \in Formats, Generate(r, format)
  PROVE  ReportsInv'
<1>1. /\ pendingJobs[r] = NoJob
      /\ pendingJobs' = [pendingJobs EXCEPT ![r].status = "generating", ![r].format = format]
      /\ task' = [task EXCEPT ![r].at = "fetch"]
      /\ expected' = [expected EXCEPT ![r] = index]
      /\ UNCHANGED <<files, index, today, partial, restarted>>
  BY DEF Generate
<1>2. task[r] = NoTask  BY <1>1, JobTypes DEF JobFits, NoJob
<1>3. /\ pendingJobs'[r].status = "generating" /\ pendingJobs'[r].format = format
      /\ task'[r].at = "fetch" /\ task'[r].after = -1 /\ task'[r].logs = {}
      /\ expected'[r] = index
      /\ \A s \in Requests \ {r} : /\ pendingJobs'[s] = pendingJobs[s]
                                   /\ task'[s] = task[s] /\ expected'[s] = expected[s]
  BY <1>1, <1>2 DEF ReportsInv, TypeOK, NoTask
<1>4. TypeOK'  BY <1>1 DEF ReportsInv, TypeOK, Steps
<1>5. JobFits(r)'  BY <1>1, <1>3 DEF JobFits, Steps
<1>6. Searched(r)'
  <2>1. \A l \in index : CollectedAt[l] > -1
    BY ReportConstants DEF ReportsInv, TypeOK
  <2> QED  BY <1>1, <1>3, <2>1 DEF Searched
<1>7. Kept(r)'  BY <1>3 DEF Kept
<1>8. task[r].at # "writing"  BY <1>2 DEF NoTask
<1> QED  BY <1>1, <1>3, <1>4, <1>5, <1>6, <1>7, <1>8, JobGoesOn

\* What a page of the search holds: the first of the rest, as far as times go.
LEMMA PageOrder ==
  ASSUME ReportsInv, NEW r \in Requests, Rest(r) # {}, NEW page \in Pages(r)
  PROVE  /\ page \subseteq Rest(r) /\ Rest(r) \subseteq index
         /\ \A l \in page, k \in Rest(r) \ page : CollectedAt[l] <= CollectedAt[k]
         /\ \E m \in page : /\ Max({CollectedAt[l] : l \in page}) = CollectedAt[m]
                           /\ \A l \in page : CollectedAt[l] <= CollectedAt[m]
<1> USE ReportConstants
<1> DEFINE size == IF Cardinality(Rest(r)) < PageSize THEN Cardinality(Rest(r)) ELSE PageSize
<1>1. Rest(r) \subseteq index /\ index \subseteq Entries
  BY DEF Rest, ReportsInv, TypeOK
<1>2. IsFiniteSet(Rest(r))  BY <1>1, FS_Subset
<1>3. size \in Nat \ {0}
  <2>1. Cardinality(Rest(r)) \in Nat /\ Cardinality(Rest(r)) # 0
    BY <1>2, FS_CardinalityType, FS_EmptySet
  <2> QED  BY <2>1
<1>4. /\ page \in kSubset(size, Rest(r))
      /\ \A l \in page, k \in Rest(r) \ page : CollectedAt[l] <= CollectedAt[k]
  BY DEF Pages
<1>5. page \subseteq Rest(r) /\ Cardinality(page) = size  BY <1>4 DEF kSubset
<1> HIDE DEF size
<1> DEFINE times == {CollectedAt[l] : l \in page}
<1>6. \E m \in times : \A x \in times : x <= m
  <2>1. IsFiniteSet(page)  BY <1>2, <1>5, FS_Subset
  <2>2. page # {}  BY <1>3, <1>5, FS_EmptySet
  <2>3. times \subseteq Int /\ times # {}  BY <1>1, <1>5, <2>2
  <2>4. [l \in page |-> CollectedAt[l]] \in Surjection(page, times)
    BY DEF Surjection
  <2>5. IsFiniteSet(times)  BY <2>1, <2>4, FS_Surjection
  <2> QED  BY <2>3, <2>5, FiniteMax
<1>7. times \subseteq Int  BY <1>1, <1>5
<1>8. Max(times) \in times /\ \A x \in times : Max(times) >= x
  <2> HIDE DEF times
  <2>1. \E m \in times : \A x \in times : m >= x  BY <1>6, <1>7
  <2> QED  BY <2>1 DEF Max
<1>9. PICK m \in page : Max(times) = CollectedAt[m]  BY <1>8
<1>10. \A l \in page : CollectedAt[l] <= CollectedAt[m]
  BY <1>1, <1>5, <1>7, <1>8, <1>9
<1> QED  BY <1>1, <1>4, <1>5, <1>9, <1>10

LEMMA FetchPageKeeps ==
  ASSUME ReportsInv, NEW r \in Requests, FetchPage(r)
  PROVE  ReportsInv'
<1> USE ReportConstants
<1>1. /\ task[r].at = "fetch" /\ Rest(r) # {}
      /\ UNCHANGED <<pendingJobs, files, index, today, expected, partial, restarted>>
  BY DEF FetchPage
<1>2. PICK page \in Pages(r) :
        task' = [task EXCEPT ![r].logs = @ \cup page,
                             ![r].after = Max({CollectedAt[l] : l \in page})]
  BY DEF FetchPage
<1>3. PICK m \in page : /\ Max({CollectedAt[l] : l \in page}) = CollectedAt[m]
                        /\ \A l \in page : CollectedAt[l] <= CollectedAt[m]
  BY <1>1, PageOrder
<1>4. /\ page \subseteq Rest(r) /\ Rest(r) \subseteq index /\ index \subseteq Entries
      /\ \A l \in page, k \in Rest(r) \ page : CollectedAt[l] <= CollectedAt[k]
  BY <1>1, PageOrder DEF ReportsInv, TypeOK
<1>5. CollectedAt[m] \in Int /\ page \subseteq Entries  BY <1>4
<1> HIDE ReportConstants
<1>6. /\ task'[r].at = "fetch" /\ task'[r].logs = task[r].logs \cup page
      /\ task'[r].after = CollectedAt[m]
      /\ \A s \in Requests \ {r} : task'[s] = task[s]
      /\ task' \in [Requests -> [at : {"none"} \cup Steps, after : Int, logs : SUBSET Entries]]
  BY <1>1, <1>2, <1>3, <1>5 DEF ReportsInv, TypeOK
<1>7. TypeOK'  BY <1>1, <1>6 DEF ReportsInv, TypeOK
<1>8. JobFits(r)'  BY <1>1, <1>6, JobTypes DEF JobFits, Steps, NoTask
<1>9. Searched(r)'
  <2> SUFFICES ASSUME pendingJobs[r].status \in {"generating", "ready"},
                      NEW l \in expected[r],
                      l \notin task[r].logs \cup page, ~Tied(l), r \notin partial
               PROVE  CollectedAt[l] > CollectedAt[m]
    BY <1>1, <1>6 DEF Searched, Tied
  <2>1. l \in index /\ CollectedAt[l] > task[r].after  BY JobTypes DEF Searched, JobFits
  <2>2. l \in Rest(r) \ page  BY <2>1 DEF Rest
  <2>3. CollectedAt[m] <= CollectedAt[l]  BY <1>4, <2>2
  <2>4. m \in index \ {l}  BY <1>4, <2>2
  <2>5. CollectedAt[m] # CollectedAt[l]  BY <2>4 DEF Tied
  <2>6. CollectedAt[l] \in Int /\ CollectedAt[m] \in Int
    BY <1>4, <2>2, ReportConstants
  <2> QED  BY <2>3, <2>5, <2>6
<1>10. Kept(r)'  BY <1>1, JobTypes DEF Kept
<1> QED  BY <1>1, <1>6, <1>7, <1>8, <1>9, <1>10, JobGoesOn

LEMMA EndFetchKeeps ==
  ASSUME ReportsInv, NEW r \in Requests, EndFetch(r)
  PROVE  ReportsInv'
<1>1. /\ task[r].at = "fetch"
      /\ \/ Rest(r) = {} /\ partial' = partial
         \/ partial' = partial \cup {r}
      /\ task' = [task EXCEPT ![r].at = "query"]
      /\ UNCHANGED <<pendingJobs, files, index, today, expected, restarted>>
  BY DEF EndFetch
<1>2. /\ task'[r].at = "query" /\ task'[r].logs = task[r].logs
      /\ \A s \in Requests \ {r} : task'[s] = task[s]
      /\ task' \in [Requests -> [at : {"none"} \cup Steps, after : Int, logs : SUBSET Entries]]
  BY <1>1 DEF ReportsInv, TypeOK, Steps
<1>3. TypeOK'  BY <1>1, <1>2 DEF ReportsInv, TypeOK
<1>4. JobFits(r)'  BY <1>1, <1>2, JobTypes DEF JobFits, Steps, NoTask
<1>5. Searched(r)'
  <2>1. CASE r \in partial'  BY <2>1 DEF Searched
  <2>2. CASE Rest(r) = {} /\ partial' = partial
    <3>1. \A l \in expected[r] : ~(CollectedAt[l] > task[r].after)
      BY <2>2, JobTypes DEF Rest, JobFits
    <3> QED  BY <1>1, <1>2, <2>2, <3>1, JobTypes DEF Searched, Tied
  <2> QED  BY <1>1, <2>1, <2>2
<1>6. Kept(r)'  BY <1>1, JobTypes DEF Kept
<1> QED  BY <1>1, <1>2, <1>3, <1>4, <1>5, <1>6, JobGoesOn

LEMMA QueryKeeps ==
  ASSUME ReportsInv, NEW r \in Requests, Query(r)
  PROVE  ReportsInv'
<1>1. /\ task[r].at = "query" /\ task' = [task EXCEPT ![r].at = "write"]
      /\ UNCHANGED <<pendingJobs, files, index, today, expected, partial, restarted>>
  BY DEF Query
<1>2. /\ task'[r].at = "write" /\ task'[r].logs = task[r].logs
      /\ \A s \in Requests \ {r} : task'[s] = task[s]
      /\ task' \in [Requests -> [at : {"none"} \cup Steps, after : Int, logs : SUBSET Entries]]
  BY <1>1 DEF ReportsInv, TypeOK, Steps
<1>3. TypeOK'  BY <1>1, <1>2 DEF ReportsInv, TypeOK
<1>4. JobFits(r)'  BY <1>1, <1>2, JobTypes DEF JobFits, Steps, NoTask
<1>5. Searched(r)'  BY <1>1, <1>2, JobTypes DEF Searched, Tied
<1>6. Kept(r)'  BY <1>1, JobTypes DEF Kept
<1> QED  BY <1>1, <1>2, <1>3, <1>4, <1>5, <1>6, JobGoesOn

\* The types of the files and of a job that is settled.
LEMMA MadeFile ==
  ASSUME ReportsInv, NEW r \in Requests, NEW dir \in Formats \cup {"latex"},
         NEW whole \in BOOLEAN
  PROVE  Made(r, dir, whole) \in File
  BY DEF ReportsInv, TypeOK, Made, File

LEMMA ReadyDone ==
  ASSUME ReportsInv, NEW r \in Requests, Ready(r), task[r].at \in {"write", "writing"},
         UNCHANGED <<today, index, expected, partial, restarted>>
  PROVE  /\ pendingJobs'[r].status = "ready" /\ pendingJobs'[r].format = pendingJobs[r].format
         /\ pendingJobs'[r].expires = today + Lifetime
         /\ task'[r].at = "none" /\ task'[r].logs = task[r].logs
         /\ \A s \in Requests \ {r} : pendingJobs'[s] = pendingJobs[s] /\ task'[s] = task[s]
         /\ JobFits(r)' /\ Searched(r)'
         /\ files' \subseteq File => TypeOK'
<1>1. /\ pendingJobs' = [pendingJobs EXCEPT ![r].status = "ready",
                                           ![r].expires = today + Lifetime]
      /\ task' = [task EXCEPT ![r].at = "none"]
  BY DEF Ready
<1>2. today + Lifetime \in 0 .. LastDay + Lifetime
  BY ReportConstants DEF ReportsInv, TypeOK
<1>3. /\ pendingJobs'[r].status = "ready" /\ pendingJobs'[r].format = pendingJobs[r].format
      /\ pendingJobs'[r].expires = today + Lifetime
      /\ \A s \in Requests \ {r} : pendingJobs'[s] = pendingJobs[s]
      /\ pendingJobs' \in [Requests -> [status : {"unknown", "generating", "ready", "failed"},
                                       format : Formats, expires : 0 .. LastDay + Lifetime]]
  BY <1>1, <1>2 DEF ReportsInv, TypeOK
<1>4. /\ task'[r].at = "none" /\ task'[r].logs = task[r].logs
      /\ \A s \in Requests \ {r} : task'[s] = task[s]
      /\ task' \in [Requests -> [at : {"none"} \cup Steps, after : Int, logs : SUBSET Entries]]
  BY <1>1 DEF ReportsInv, TypeOK
<1>5. JobFits(r)'  BY <1>3, <1>4, JobTypes DEF JobFits, Steps
<1>6. pendingJobs[r].status = "generating" /\ task[r].at # "fetch"
  BY JobTypes DEF JobFits, Steps
<1>7. Searched(r)'  BY <1>3, <1>4, <1>6, JobTypes DEF Searched, Tied
<1>8. files' \subseteq File => TypeOK'  BY <1>3, <1>4 DEF ReportsInv, TypeOK
<1> QED  BY <1>3, <1>4, <1>5, <1>7, <1>8

LEMMA FailDone ==
  ASSUME ReportsInv, NEW r \in Requests, Fail(r), task[r].at \in Steps,
         UNCHANGED <<today, index, expected, partial, restarted>>
  PROVE  /\ task'[r] = NoTask
         /\ \A s \in Requests \ {r} : pendingJobs'[s] = pendingJobs[s] /\ task'[s] = task[s]
         /\ JobFits(r)' /\ Searched(r)' /\ Kept(r)'
         /\ files' \subseteq File => TypeOK'
<1>1. /\ pendingJobs' = [pendingJobs EXCEPT ![r].status = "failed"]
      /\ task' = [task EXCEPT ![r] = NoTask]
  BY DEF Fail
<1>2. NoTask \in [at : {"none"} \cup Steps, after : Int, logs : SUBSET Entries]
  BY DEF NoTask
<1>3. /\ pendingJobs'[r].status = "failed"
      /\ \A s \in Requests \ {r} : pendingJobs'[s] = pendingJobs[s]
      /\ pendingJobs' \in [Requests -> [status : {"unknown", "generating", "ready", "failed"},
                                       format : Formats, expires : 0 .. LastDay + Lifetime]]
  BY <1>1 DEF ReportsInv, TypeOK
<1>4. /\ task'[r] = NoTask /\ \A s \in Requests \ {r} : task'[s] = task[s]
      /\ task' \in [Requests -> [at : {"none"} \cup Steps, after : Int, logs : SUBSET Entries]]
  BY <1>1, <1>2, TaskSet
<1>5. JobFits(r)'  BY <1>3, <1>4, JobTypes DEF JobFits, NoTask, Steps
<1>6. Searched(r)' /\ Kept(r)'  BY <1>3 DEF Searched, Kept
<1>7. files' \subseteq File => TypeOK'  BY <1>3, <1>4 DEF ReportsInv, TypeOK
<1> QED  BY <1>3, <1>4, <1>5, <1>6, <1>7

LEMMA QueryFailsKeeps ==
  ASSUME ReportsInv, NEW r \in Requests, QueryFails(r)
  PROVE  ReportsInv'
<1>1. /\ task[r].at \in {"fetch", "query"} /\ Fail(r)
      /\ UNCHANGED <<files, index, today, expected, partial, restarted>>
  BY DEF QueryFails
<1>2. task[r].at \in Steps /\ task[r].at # "writing"  BY <1>1 DEF Steps
<1>3. files' \subseteq File  BY <1>1 DEF ReportsInv, TypeOK
<1> QED  BY <1>1, <1>2, <1>3, FailDone, JobGoesOn

LEMMA WriteSyncKeeps ==
  ASSUME ReportsInv, NEW r \in Requests, WriteSync(r)
  PROVE  ReportsInv'
<1> DEFINE f == Made(r, pendingJobs[r].format, TRUE)
<1>1. /\ task[r].at = "write" /\ pendingJobs[r].format \in {"csv", "pdf"}
      /\ files' = files \cup {f} /\ Ready(r)
      /\ UNCHANGED <<index, today, expected, partial, restarted>>
  BY DEF WriteSync
<1>2. /\ f \in File /\ f.job = r /\ f.dir = pendingJobs[r].format /\ f.whole
      /\ f.mtime = today
  BY <1>1, MadeFile, JobTypes DEF Made
<1> HIDE DEF f
<1>3. files' \subseteq File  BY <1>1, <1>2 DEF ReportsInv, TypeOK
<1>4. TypeOK' /\ JobFits(r)' /\ Searched(r)'  BY <1>1, <1>3, ReadyDone
<1>5. /\ pendingJobs'[r].format = pendingJobs[r].format
      /\ pendingJobs'[r].expires = today + Lifetime
      /\ \A s \in Requests \ {r} : pendingJobs'[s] = pendingJobs[s] /\ task'[s] = task[s]
  BY <1>1, ReadyDone
<1>6. Kept(r)'
  <2>1. today + Lifetime <= f.mtime + Lifetime
    BY <1>2, ReportConstants DEF ReportsInv, TypeOK
  <2>2. f \in files'  BY <1>1
  <2> QED  BY <1>2, <1>5, <2>1, <2>2 DEF Kept
<1>7. \A g : g.job # r => (g \in files' <=> g \in files)  BY <1>1, <1>2
<1>8. \A g \in files' : g.job = r /\ PartListed(g) => restarted
  <2>1. \A g \in files : g.job = r /\ PartListed(g) => restarted
    BY <1>1 DEF ReportsInv, ListedIsWhole, PartListed
  <2> QED  BY <1>1, <1>2, <2>1 DEF PartListed
<1> QED  BY <1>1, <1>4, <1>5, <1>6, <1>7, <1>8, JobMoves

LEMMA WriteSyncFailsKeeps ==
  ASSUME ReportsInv, NEW r \in Requests, WriteSyncFails(r)
  PROVE  ReportsInv'
<1>1. /\ task[r].at = "write" /\ Fail(r)
      /\ UNCHANGED <<index, today, expected, partial, restarted>>
  BY DEF WriteSyncFails
<1>2. PICK dir \in {"csv", "latex"} : files' \in {files, files \cup {Made(r, dir, FALSE)}}
  BY DEF WriteSyncFails
<1> DEFINE f == Made(r, dir, FALSE)
<1>3. f \in File /\ f.job = r /\ ~PartListed(f)
  BY MadeFile DEF Made, PartListed, Formats
<1>4. files' \subseteq files \cup {f} /\ files \subseteq files'  BY <1>2
<1> HIDE DEF f
<1>5. files' \subseteq File  BY <1>3, <1>4 DEF ReportsInv, TypeOK
<1>6. \A g : g.job # r => (g \in files' <=> g \in files)  BY <1>3, <1>4
<1>7. \A g \in files' : g.job = r /\ PartListed(g) => restarted
  BY <1>1, <1>3, <1>4 DEF ReportsInv, ListedIsWhole, PartListed
<1>8. task[r].at \in Steps  BY <1>1 DEF Steps
<1> QED  BY <1>1, <1>5, <1>6, <1>7, <1>8, FailDone, JobMoves

LEMMA BeginExcelKeeps ==
  ASSUME ReportsInv, NEW r \in Requests, BeginExcel(r)
  PROVE  ReportsInv'
<1> DEFINE f == Made(r, "excel", FALSE)
<1>1. /\ task[r].at = "write" /\ pendingJobs[r].format = "excel"
      /\ files' = files \cup {f} /\ task' = [task EXCEPT ![r].at = "writing"]
      /\ UNCHANGED <<pendingJobs, index, today, expected, partial, restarted>>
  BY DEF BeginExcel
<1>2. f \in File /\ f.job = r  BY MadeFile DEF Made, Formats
<1> HIDE DEF f
<1>3. /\ task'[r].at = "writing" /\ task'[r].logs = task[r].logs
      /\ \A s \in Requests \ {r} : task'[s] = task[s]
      /\ task' \in [Requests -> [at : {"none"} \cup Steps, after : Int, logs : SUBSET Entries]]
  BY <1>1 DEF ReportsInv, TypeOK, Steps
<1>4. TypeOK'  BY <1>1, <1>2, <1>3 DEF ReportsInv, TypeOK
<1>5. JobFits(r)'  BY <1>1, <1>3, JobTypes DEF JobFits, Steps, NoTask
<1>6. Searched(r)'  BY <1>1, <1>3, JobTypes DEF Searched, Tied
<1>7. Kept(r)'  BY <1>1, JobTypes DEF Kept
<1>8. \A g : g.job # r => (g \in files' <=> g \in files)  BY <1>1, <1>2
<1> QED  BY <1>1, <1>3, <1>4, <1>5, <1>6, <1>7, <1>8, JobMoves

LEMMA EndExcelKeeps ==
  ASSUME ReportsInv, NEW r \in Requests, EndExcel(r)
  PROVE  ReportsInv'
<1> DEFINE f == Made(r, "excel", TRUE)
<1>1. /\ task[r].at = "writing" /\ files' = (files \ FilesOf(r)) \cup {f} /\ Ready(r)
      /\ UNCHANGED <<index, today, expected, partial, restarted>>
  BY DEF EndExcel
<1>2. /\ f \in File /\ f.job = r /\ f.dir = "excel" /\ f.whole /\ f.mtime = today
  BY MadeFile DEF Made, Formats
<1> HIDE DEF f
<1>3. files' \subseteq File  BY <1>1, <1>2 DEF ReportsInv, TypeOK
<1>4. TypeOK' /\ JobFits(r)' /\ Searched(r)'  BY <1>1, <1>3, ReadyDone
<1>5. /\ pendingJobs'[r].format = "excel"
      /\ pendingJobs'[r].expires = today + Lifetime
      /\ \A s \in Requests \ {r} : pendingJobs'[s] = pendingJobs[s] /\ task'[s] = task[s]
  BY <1>1, ReadyDone, JobTypes DEF JobFits
<1>6. Kept(r)'
  <2>1. today + Lifetime <= f.mtime + Lifetime
    BY <1>2, ReportConstants DEF ReportsInv, TypeOK
  <2>2. f \in files'  BY <1>1
  <2> QED  BY <1>2, <1>5, <2>1, <2>2 DEF Kept
<1>7. \A g : g.job # r => (g \in files' <=> g \in files)  BY <1>1, <1>2 DEF FilesOf
<1>8. \A g \in files' : g.job = r => ~PartListed(g)
  BY <1>1, <1>2 DEF FilesOf, PartListed
<1> QED  BY <1>1, <1>4, <1>5, <1>6, <1>7, <1>8, JobMoves

LEMMA ExcelFailsKeeps ==
  ASSUME ReportsInv, NEW r \in Requests, ExcelFails(r)
  PROVE  ReportsInv'
<1>1. /\ task[r].at = "writing" /\ files' = files \ FilesOf(r) /\ Fail(r)
      /\ UNCHANGED <<index, today, expected, partial, restarted>>
  BY DEF ExcelFails
<1>2. files' \subseteq File /\ task[r].at \in Steps
  BY <1>1 DEF ReportsInv, TypeOK, Steps
<1>3. /\ \A g : g.job # r => (g \in files' <=> g \in files)
      /\ \A g \in files' : g.job # r
  BY <1>1 DEF FilesOf
<1> QED  BY <1>1, <1>2, <1>3, FailDone, JobMoves

LEMMA CleanupKeeps == ReportsInv /\ Cleanup => ReportsInv'
<1> SUFFICES ASSUME ReportsInv, Cleanup  PROVE ReportsInv'  OBVIOUS
<1>1. /\ files' = files \ Old
      /\ UNCHANGED <<pendingJobs, task, index, today, expected, partial, restarted>>
  BY DEF Cleanup
<1>2. TypeOK'  BY <1>1 DEF ReportsInv, TypeOK
<1>3. ASSUME NEW r \in Requests  PROVE JobFits(r)' /\ Searched(r)' /\ Kept(r)'
  <2>1. JobFits(r)' /\ Searched(r)'  BY <1>1, JobTypes DEF JobFits, Searched, Tied
  <2>2. Kept(r)'
    <3> SUFFICES ASSUME pendingJobs[r].status = "ready", today <= pendingJobs[r].expires
                 PROVE  \E f \in files \ Old : /\ f.job = r /\ f.dir = pendingJobs[r].format
                                                /\ f.whole
                                                /\ pendingJobs[r].expires <= f.mtime + Lifetime
      BY <1>1 DEF Kept
    <3>1. PICK f \in files : /\ f.job = r /\ f.dir = pendingJobs[r].format /\ f.whole
                             /\ pendingJobs[r].expires <= f.mtime + Lifetime
      BY JobTypes DEF Kept
    <3>2. f.mtime \in Int  BY DEF ReportsInv, TypeOK, File
    <3>3. pendingJobs[r].expires \in Int /\ today \in Int /\ Lifetime \in Int
      BY JobTypes, ReportConstants
    <3>4. ~(f.mtime < today - Lifetime)  BY <3>1, <3>2, <3>3
    <3> QED  BY <3>1, <3>4 DEF Old
  <2> QED  BY <2>1, <2>2
<1>4. ListedIsWhole'  BY <1>1 DEF ReportsInv, ListedIsWhole
<1> QED  BY <1>2, <1>3, <1>4 DEF ReportsInv

LEMMA ArriveKeeps ==
  ASSUME ReportsInv, NEW l \in Entries, Arrive(l)
  PROVE  ReportsInv'
<1>1. /\ index' = index \cup {l}
      /\ UNCHANGED <<pendingJobs, task, files, today, expected, partial, restarted>>
  BY DEF Arrive
<1>2. TypeOK'  BY <1>1 DEF ReportsInv, TypeOK
<1>3. ASSUME NEW r \in Requests  PROVE JobFits(r)' /\ Searched(r)' /\ Kept(r)'
  BY <1>1, JobTypes DEF JobFits, Searched, Kept, Tied
<1>4. ListedIsWhole'  BY <1>1 DEF ReportsInv, ListedIsWhole
<1> QED  BY <1>2, <1>3, <1>4 DEF ReportsInv

LEMMA TomorrowKeeps == ReportsInv /\ Tomorrow => ReportsInv'
<1> SUFFICES ASSUME ReportsInv, Tomorrow  PROVE ReportsInv'  OBVIOUS
<1>1. /\ today < LastDay /\ today' = today + 1
      /\ UNCHANGED <<pendingJobs, task, files, index, expected, partial, restarted>>
  BY DEF Tomorrow
<1>2. today' \in 0 .. LastDay  BY <1>1, ReportConstants DEF ReportsInv, TypeOK
<1>3. TypeOK'  BY <1>1, <1>2 DEF ReportsInv, TypeOK
<1>4. ASSUME NEW r \in Requests  PROVE JobFits(r)' /\ Searched(r)' /\ Kept(r)'
  <2>1. JobFits(r)' /\ Searched(r)'  BY <1>1, JobTypes DEF JobFits, Searched, Tied
  <2>2. today' <= pendingJobs[r].expires => today <= pendingJobs[r].expires
    BY <1>1, JobTypes, ReportConstants
  <2>3. Kept(r)'  BY <1>1, <2>2, JobTypes DEF Kept
  <2> QED  BY <2>1, <2>3
<1>5. ListedIsWhole'  BY <1>1 DEF ReportsInv, ListedIsWhole
<1> QED  BY <1>3, <1>4, <1>5 DEF ReportsInv

LEMMA RestartKeeps == ReportsInv /\ Restart => ReportsInv'
<1> SUFFICES ASSUME ReportsInv, Restart  PROVE ReportsInv'  OBVIOUS
<1>1. /\ pendingJobs' = [r \in Requests |-> NoJob] /\ task' = [r \in Requests |-> NoTask]
      /\ restarted' = TRUE /\ UNCHANGED <<files, index, today, expected, partial>>
  BY DEF Restart
<1>2. TypeOK'
  <2>1. NoJob \in [status : {"unknown", "generating", "ready", "failed"},
                   format : Formats, expires : 0 .. LastDay + Lifetime]
    BY ReportConstants DEF NoJob, Formats
  <2>2. NoTask \in [at : {"none"} \cup Steps, after : Int, logs : SUBSET Entries]
    BY DEF NoTask
  <2> QED  BY <1>1, <2>1, <2>2 DEF ReportsInv, TypeOK
<1>3. ASSUME NEW r \in Requests  PROVE JobFits(r)' /\ Searched(r)' /\ Kept(r)'
  <2>1. pendingJobs'[r].status = "unknown" /\ task'[r] = NoTask  BY <1>1 DEF NoJob
  <2>2. JobFits(r)'  BY <1>1, <2>1, JobTypes DEF JobFits, NoTask, Steps
  <2> QED  BY <2>1, <2>2 DEF Searched, Kept
<1>4. ListedIsWhole'  BY <1>1 DEF ListedIsWhole
<1> QED  BY <1>2, <1>3, <1>4 DEF ReportsInv

LEMMA ReportsNext == ReportsInv /\ [Next]_vars => ReportsInv'
<1> SUFFICES ASSUME ReportsInv, [Next]_vars  PROVE ReportsInv'  OBVIOUS
<1>1. ASSUME NEW r \in Requests, NEW format \in Formats, Generate(r, format)  PROVE ReportsInv'
  BY <1>1, GenerateKeeps
<1>2. ASSUME NEW r \in Requests, Continue(r)  PROVE ReportsInv'
  BY <1>2, FetchPageKeeps, EndFetchKeeps, QueryKeeps, WriteSyncKeeps, BeginExcelKeeps,
     EndExcelKeeps DEF Continue
<1>3. ASSUME NEW r \in Requests, QueryFails(r) \/ WriteSyncFails(r) \/ ExcelFails(r)
      PROVE  ReportsInv'
  BY <1>3, QueryFailsKeeps, WriteSyncFailsKeeps, ExcelFailsKeeps
<1>4. CASE Cleanup \/ Tomorrow \/ Restart
  BY <1>4, CleanupKeeps, TomorrowKeeps, RestartKeeps
<1>5. ASSUME NEW l \in Entries, Arrive(l)  PROVE ReportsInv'
  BY <1>5, ArriveKeeps
<1>6. CASE UNCHANGED vars
  BY <1>6 DEF vars, ReportsInv, TypeOK, JobFits, Searched, Kept, ListedIsWhole, Tied
<1> QED  BY <1>1, <1>2, <1>3, <1>4, <1>5, <1>6 DEF Next

LEMMA ReportsAlways == Spec => []ReportsInv
  BY ReportsInit, ReportsNext, PTL DEF Spec
-----------------------------------------------------------------------------
(* What a user may rely on. *)

\* Every job is in one of the states getJobStatus may answer, every file in one of
\* the directories.
THEOREM ReportTypes == Spec => []TypeOK
<1>1. ReportsInv => TypeOK  BY DEF ReportsInv
<1> QED  BY <1>1, ReportsAlways, PTL

\* A log that was there when the search of fetchLogs began is missing from a finished
\* report only after a failed search or at the cap, or when another log has its time.
THEOREM MissingLogsAreExplained == Spec => []MissingIsExplained
<1>1. ReportsInv => MissingIsExplained
  <2> SUFFICES ASSUME ReportsInv, NEW r \in Requests, pendingJobs[r].status = "ready",
                      r \notin partial, NEW l \in expected[r] \ task[r].logs
               PROVE  \E k \in index \ {l} : CollectedAt[k] = CollectedAt[l]
    BY DEF MissingIsExplained
  <2>1. task[r].at # "fetch"  BY JobTypes DEF JobFits, Steps
  <2> QED  BY <2>1, JobTypes DEF Searched, Tied
<1> QED  BY <1>1, ReportsAlways, PTL

\* The expiry told to the user and the nightly cleanup agree: until then the whole
\* file of a report that is ready is there.
THEOREM ReadyReportsLast == Spec => []ReadyCanBeDownloaded
<1>1. ReportsInv => ReadyCanBeDownloaded
  BY JobTypes DEF Kept, ReadyCanBeDownloaded
<1> QED  BY <1>1, ReportsAlways, PTL

\* listReports shows a part of a spreadsheet or of a PDF only while it is being
\* written, or after a restart.
THEOREM ListedReportsAreWhole == Spec => []ListedIsWhole
<1>1. ReportsInv => ListedIsWhole  BY DEF ReportsInv
<1> QED  BY <1>1, ReportsAlways, PTL
=============================================================================
