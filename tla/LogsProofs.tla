----------------------------- MODULE LogsProofs -----------------------------
(***************************************************************************)
(* The safety of the queue "logs" for every set of batches and logs, every *)
(* page size and retention, and every combination of the faults.           *)
(***************************************************************************)
EXTENDS Logs, FiniteOrders

Stored == index \cup purged

\* What the state of a job says about its runs, and about the documents.
JobFits(b) ==
  /\ job[b] = "none" => stalls[b] = 0 /\ runs[b] = 0
  /\ job[b] = "waiting" => runs[b] = stalls[b]
  /\ job[b] \in InProgress => runs[b] = stalls[b] + 1
  /\ job[b] \in Ended => runs[b] <= stalls[b] + 1
  /\ scoreJobs[b] <= runs[b]
  /\ job[b] \in {"insert", "inserted"} => scoreJobs[b] < runs[b]
  /\ job[b] \in {"inserted", "handed", "done"} \/ scoreJobs[b] > 0
       => LogsOf[b] \subseteq Indexed(b) \cup refused

\* A document was inserted by a run of the batch of its log.
RunsTell ==
  \A d \in Stored : \A b \in Batches : d.log \in LogsOf[b] => d.run <= runs[b]

\* Why a document may be deleted without being archived, ...
Explained(d) == d \in late \/ \E e \in Stored : e # d /\ Key(e) = Key(d)

\* ... and which ones the next page is still to be taken from.
Ahead(d) == purge.after = None \/ Before(purge.after, Key(d))

\* The documents the deletion will find are explained, gathered, or ahead of the search.
PurgeFits ==
  /\ purge.at \in PurgeSteps =>
       \A d \in Older(purge.cutoff) :
         \/ Explained(d)
         \/ d \in purge.gathered
         \/ purge.at = "search" /\ Ahead(d)
  /\ purge.at = "delete" => purge.gathered \subseteq archive
  /\ PurgedIsArchived

LogsInv ==
  /\ TypeOK
  /\ IsFiniteSet(index)
  /\ \A b \in Batches : JobFits(b)
  /\ RunsTell
  /\ PurgeFits
-----------------------------------------------------------------------------
LEMMA ExplainedStays ==
  ASSUME NEW d, Explained(d), Stored \subseteq Stored', d \in late => d \in late'
  PROVE  Explained(d)'
  BY DEF Explained, Key

LEMMA IndexedStays ==
  ASSUME NEW b, Stored \subseteq Stored'
  PROVE  Indexed(b) \subseteq Indexed(b)'
  BY DEF Indexed, Stored

LEMMA LogsInit == Init => LogsInv
<1> SUFFICES ASSUME Init  PROVE LogsInv  OBVIOUS
<1> USE LogsConstants DEF Init
<1>1. NoPurge \in Purge  BY DEF NoPurge, Purge, MaxStalls
<1>2. TypeOK  BY <1>1 DEF TypeOK, MaxStalls
<1>3. IsFiniteSet(index)  BY FS_EmptySet
<1>4. \A b \in Batches : JobFits(b)  BY DEF JobFits, InProgress, Ended
<1>5. RunsTell /\ PurgeFits
  BY DEF RunsTell, Stored, PurgeFits, NoPurge, PurgeSteps, PurgedIsArchived
<1> QED  BY <1>2, <1>3, <1>4, <1>5 DEF LogsInv

\* A job moves: the other jobs and the retention keep what they know, as long as a
\* document that arrives in the middle of a retention job counts as late.
LEMMA JobMoves ==
  ASSUME LogsInv, TypeOK', NEW b \in Batches, JobFits(b)', IsFiniteSet(index'),
         \A a \in Batches \ {b} : /\ job'[a] = job[a] /\ stalls'[a] = stalls[a]
                                  /\ runs'[a] = runs[a] /\ scoreJobs'[a] = scoreJobs[a],
         refused \subseteq refused', index \subseteq index', late \subseteq late',
         runs[b] <= runs'[b], UNCHANGED purgeVars,
         \A d \in index' \ index : /\ d.log \in LogsOf[b] /\ d.run <= runs'[b]
                                   /\ purge.at \in PurgeSteps => d \in late'
  PROVE  LogsInv'
<1>1. purged' = purged /\ purge' = purge /\ archive' = archive  BY DEF purgeVars
<1>2. Stored \subseteq Stored'  BY <1>1 DEF Stored
<1>3. ASSUME NEW a \in Batches  PROVE JobFits(a)'
  <2>1. CASE a = b  BY <2>1
  <2>2. CASE a # b
    <3>1. Indexed(a) \subseteq Indexed(a)'  BY <1>2, IndexedStays
    <3>2. JobFits(a)  BY DEF LogsInv
    <3> QED  BY <2>2, <3>1, <3>2 DEF JobFits
  <2> QED  BY <2>1, <2>2
<1>4. RunsTell'
  <2> SUFFICES ASSUME NEW d \in Stored', NEW a \in Batches, d.log \in LogsOf[a]
               PROVE  d.run <= runs'[a]
    BY DEF RunsTell
  <2>1. CASE d \in Stored
    <3>1. d.run <= runs[a]  BY <2>1 DEF LogsInv, RunsTell
    <3>2. d.run \in Int /\ runs[a] \in Int /\ runs'[a] \in Int
      BY <2>1 DEF LogsInv, TypeOK, Stored, Doc
    <3>3. runs[a] <= runs'[a]  BY <3>2
    <3> QED  BY <3>1, <3>2, <3>3
  <2>2. CASE d \notin Stored
    <3>1. d \in index' \ index  BY <1>1, <2>2 DEF Stored
    <3>2. a = b  BY <3>1, LogsConstants
    <3> QED  BY <3>1, <3>2
  <2> QED  BY <2>1, <2>2
<1>5. PurgeFits'
  <2>1. ASSUME purge.at \in PurgeSteps, NEW d \in Older(purge.cutoff)'
        PROVE  Explained(d)' \/ d \in purge.gathered \/ (purge.at = "search" /\ Ahead(d))
    <3>1. CASE d \in index
      <4>1. d \in Older(purge.cutoff)  BY <1>1, <2>1, <3>1 DEF Older
      <4>2. Explained(d) \/ d \in purge.gathered \/ (purge.at = "search" /\ Ahead(d))
        BY <2>1, <4>1 DEF LogsInv, PurgeFits
      <4> QED  BY <1>2, <4>2, ExplainedStays
    <3>2. CASE d \notin index
      <4>1. d \in index' \ index  BY <2>1, <3>2 DEF Older
      <4> QED  BY <2>1, <4>1 DEF Explained
    <3> QED  BY <3>1, <3>2
  <2>2. PurgedIsArchived'
    <3> SUFFICES ASSUME NEW d \in purged \ archive  PROVE Explained(d)'
      BY <1>1 DEF PurgedIsArchived, Explained, Stored
    <3>1. Explained(d)  BY DEF LogsInv, PurgeFits, PurgedIsArchived, Explained, Stored
    <3> QED  BY <1>2, <3>1, ExplainedStays
  <2>3. purge.at = "delete" => purge.gathered \subseteq archive  BY DEF LogsInv, PurgeFits
  <2>4. \A d : Ahead(d)' <=> Ahead(d)  BY <1>1 DEF Ahead, Before, Key
  <2> QED  BY <1>1, <2>1, <2>2, <2>3, <2>4 DEF PurgeFits
<1> QED  BY <1>3, <1>4, <1>5 DEF LogsInv

\* The retention moves: a document is in the index or was deleted, as before.
LEMMA PurgeMoves ==
  ASSUME LogsInv, TypeOK', UNCHANGED jobVars, Stored' = Stored, index' \subseteq index, PurgeFits'
  PROVE  LogsInv'
<1>1. \A b \in Batches : JobFits(b)'
  <2> SUFFICES ASSUME NEW b \in Batches  PROVE JobFits(b)'  OBVIOUS
  <2>1. JobFits(b)  BY DEF LogsInv
  <2>2. Indexed(b) \subseteq Indexed(b)'  BY IndexedStays
  <2> QED  BY <2>1, <2>2 DEF JobFits, jobVars
<1>2. RunsTell'  BY DEF LogsInv, RunsTell, jobVars
<1>3. IsFiniteSet(index')  BY FS_Subset DEF LogsInv
<1> QED  BY <1>1, <1>2, <1>3 DEF LogsInv
-----------------------------------------------------------------------------
(* The normalize jobs. *)

LEMMA JobTypes ==
  ASSUME LogsInv, NEW b \in Batches
  PROVE  /\ stalls[b] \in 0 .. MaxStalls /\ runs[b] \in 0 .. MaxStalls + 1
         /\ scoreJobs[b] \in 0 .. MaxStalls + 1 /\ JobFits(b)
         /\ LogsOf[b] \subseteq Entries /\ IsFiniteSet(LogsOf[b])
  BY LogsConstants DEF LogsInv, TypeOK

\* A job that leaves the index alone.
LEMMA JobGoesOn ==
  ASSUME LogsInv, TypeOK', NEW b \in Batches, JobFits(b)',
         \A a \in Batches \ {b} : /\ job'[a] = job[a] /\ runs'[a] = runs[a]
                                  /\ scoreJobs'[a] = scoreJobs[a],
         runs[b] <= runs'[b],
         UNCHANGED <<stalls, refused, purgeVars, index, today, late>>
  PROVE  LogsInv'
<1>1. IsFiniteSet(index')  BY DEF LogsInv
<1> QED  BY <1>1, JobMoves

LEMMA IngestKeeps == ASSUME LogsInv, NEW b \in Batches, Ingest(b)  PROVE LogsInv'
<1>1. /\ job[b] = "none" /\ job' = [job EXCEPT ![b] = "waiting"]
      /\ UNCHANGED <<stalls, runs, scoreJobs, refused, purgeVars, index, today, late>>
  BY DEF Ingest
<1>2. TypeOK'  BY <1>1 DEF LogsInv, TypeOK, purgeVars
<1>3. job'[b] = "waiting" /\ UNCHANGED Indexed(b)
  BY <1>1 DEF LogsInv, TypeOK, Indexed, purgeVars
<1>4. JobFits(b)'  BY <1>1, <1>3, JobTypes DEF JobFits, InProgress, Ended
<1>5. \A a \in Batches \ {b} : job'[a] = job[a]  BY <1>1 DEF LogsInv, TypeOK
<1> QED  BY <1>1, <1>2, <1>4, <1>5, JobTypes, JobGoesOn

LEMMA NormalizeKeeps == ASSUME LogsInv, NEW b \in Batches, Normalize(b)  PROVE LogsInv'
<1> DEFINE next == IF LogsOf[b] = {} THEN "done"
                   ELSE IF LogsOf[b] \cap Malformed # {} THEN "failed" ELSE "insert"
<1>1. /\ job[b] = "waiting" /\ job' = [job EXCEPT ![b] = next]
      /\ runs' = [runs EXCEPT ![b] = @ + 1]
      /\ UNCHANGED <<stalls, scoreJobs, refused, purgeVars, index, today, late>>
  BY DEF Normalize
<1>2. next \in {"done", "failed", "insert"} /\ (next = "done" => LogsOf[b] = {})  OBVIOUS
<1> HIDE DEF next
<1>3. runs[b] = stalls[b] /\ scoreJobs[b] <= runs[b] /\ stalls[b] \in 0 .. MaxStalls
      /\ scoreJobs[b] \in Nat
  BY <1>1, JobTypes DEF JobFits
<1>4. job'[b] = next /\ runs'[b] = runs[b] + 1 /\ UNCHANGED Indexed(b)
  BY <1>1 DEF LogsInv, TypeOK, Indexed, purgeVars
<1>5. TypeOK'  BY <1>1, <1>2, <1>3 DEF LogsInv, TypeOK, purgeVars, InProgress, Ended, MaxStalls
<1>6. JobFits(b)'
  BY <1>1, <1>2, <1>3, <1>4, JobTypes DEF JobFits, InProgress, Ended, MaxStalls
<1>7. \A a \in Batches \ {b} : job'[a] = job[a] /\ runs'[a] = runs[a]
  BY <1>1 DEF LogsInv, TypeOK
<1>8. runs[b] <= runs'[b]  BY <1>3, <1>4
<1> QED  BY <1>1, <1>5, <1>6, <1>7, <1>8, JobGoesOn

\* What a bulk request adds.
LEMMA Inserting ==
  ASSUME LogsInv, NEW b \in Batches, job[b] = "insert",
         NEW taken \in SUBSET LogsOf[b], Insert(b, taken)
  PROVE  /\ index \subseteq index' /\ index' \subseteq Doc /\ IsFiniteSet(index')
         /\ late \subseteq late' /\ late' \subseteq Doc
         /\ taken \subseteq Indexed(b)'
         /\ \A d \in index' \ index : /\ d.log \in LogsOf[b] /\ d.run <= runs[b]
                                      /\ purge.at \in PurgeSteps => d \in late'
         /\ UNCHANGED <<stalls, runs, scoreJobs, purgeVars, today>>
<1> DEFINE docs == [log : taken, run : {runs[b]}]
<1>1. /\ index' = index \cup docs
      /\ late' = IF purge.at \in PurgeSteps THEN late \cup docs ELSE late
      /\ UNCHANGED <<stalls, runs, scoreJobs, purgeVars, today>>
  BY DEF Insert
<1>2. runs[b] \in 1 .. MaxStalls + 1
  BY JobTypes DEF JobFits, InProgress, MaxStalls
<1>3. docs \subseteq Doc  BY <1>2, JobTypes DEF Doc
<1>4. IsFiniteSet(docs)
  <2>1. IsFiniteSet(taken)  BY JobTypes, FS_Subset
  <2> DEFINE f == [d \in docs |-> d.log]
  <2>2. f \in Injection(docs, taken)
    <3>1. f \in [docs -> taken]  OBVIOUS
    <3>2. ASSUME NEW d \in docs, NEW e \in docs, f[d] = f[e]  PROVE d = e
      <4>1. d = [log |-> d.log, run |-> runs[b]] /\ e = [log |-> e.log, run |-> runs[b]]
        OBVIOUS
      <4> QED  BY <3>2, <4>1
    <3> HIDE DEF f, docs
    <3> QED  BY <3>1, <3>2 DEF Injection, IsInjective
  <2> HIDE DEF f, docs
  <2> QED  BY <2>1, <2>2, FS_Injection
<1>5. taken \subseteq Indexed(b)'
  <2> SUFFICES ASSUME NEW l \in taken  PROVE l \in Indexed(b)'  OBVIOUS
  <2>1. [log |-> l, run |-> runs[b]] \in index'  BY <1>1
  <2> QED  BY <2>1 DEF Indexed
<1>6. \A d \in docs : d.log \in LogsOf[b] /\ d.run = runs[b]  OBVIOUS
<1>7. index \subseteq Doc /\ late \subseteq Doc /\ IsFiniteSet(index)  BY DEF LogsInv, TypeOK
<1> HIDE DEF docs
<1>8. IsFiniteSet(index')  BY <1>1, <1>4, <1>7, FS_Union
<1> QED  BY <1>1, <1>2, <1>3, <1>5, <1>6, <1>7, <1>8

LEMMA BulkInsertKeeps == ASSUME LogsInv, NEW b \in Batches, BulkInsert(b)  PROVE LogsInv'
<1>1. PICK taken \in SUBSET LogsOf[b] :
        Insert(b, taken) /\ refused' = refused \cup (LogsOf[b] \ taken)
  BY DEF BulkInsert
<1>2. job[b] = "insert" /\ job' = [job EXCEPT ![b] = "inserted"]  BY DEF BulkInsert
<1>3. /\ index \subseteq index' /\ index' \subseteq Doc /\ IsFiniteSet(index')
      /\ late \subseteq late' /\ late' \subseteq Doc /\ taken \subseteq Indexed(b)'
      /\ \A d \in index' \ index : /\ d.log \in LogsOf[b] /\ d.run <= runs[b]
                                   /\ purge.at \in PurgeSteps => d \in late'
      /\ UNCHANGED <<stalls, runs, scoreJobs, purgeVars, today>>
  BY <1>1, <1>2, Inserting
<1>4. TypeOK'
  BY <1>1, <1>2, <1>3, JobTypes DEF LogsInv, TypeOK, purgeVars, InProgress
<1>5. job'[b] = "inserted"  BY <1>2 DEF LogsInv, TypeOK
<1>6. JobFits(b)'
  BY <1>1, <1>2, <1>3, <1>5, JobTypes DEF JobFits, InProgress, Ended
<1>7. \A a \in Batches \ {b} : job'[a] = job[a]  BY <1>2 DEF LogsInv, TypeOK
<1>8. refused \subseteq refused' /\ runs[b] <= runs'[b]  BY <1>1, <1>3, JobTypes
<1> QED  BY <1>3, <1>4, <1>6, <1>7, <1>8, JobMoves

LEMMA BulkThrowsKeeps == ASSUME LogsInv, NEW b \in Batches, BulkThrows(b)  PROVE LogsInv'
<1>1. PICK taken \in SUBSET LogsOf[b] : Insert(b, taken)  BY DEF BulkThrows
<1>2. job[b] = "insert" /\ job' = [job EXCEPT ![b] = "failed"] /\ refused' = refused
  BY DEF BulkThrows
<1>3. /\ index \subseteq index' /\ index' \subseteq Doc /\ IsFiniteSet(index')
      /\ late \subseteq late' /\ late' \subseteq Doc
      /\ \A d \in index' \ index : /\ d.log \in LogsOf[b] /\ d.run <= runs[b]
                                   /\ purge.at \in PurgeSteps => d \in late'
      /\ UNCHANGED <<stalls, runs, scoreJobs, purgeVars, today>>
  BY <1>1, <1>2, Inserting
<1>4. TypeOK'
  BY <1>2, <1>3 DEF LogsInv, TypeOK, purgeVars, InProgress, Ended
<1>5. job'[b] = "failed"  BY <1>2 DEF LogsInv, TypeOK
<1>6. Indexed(b) \subseteq Indexed(b)'
  BY <1>3, IndexedStays DEF Stored, purgeVars
<1>7. JobFits(b)'
  BY <1>2, <1>3, <1>5, <1>6, JobTypes DEF JobFits, InProgress, Ended
<1>8. \A a \in Batches \ {b} : job'[a] = job[a]  BY <1>2 DEF LogsInv, TypeOK
<1>9. refused \subseteq refused' /\ runs[b] <= runs'[b]  BY <1>2, <1>3, JobTypes
<1> QED  BY <1>3, <1>4, <1>7, <1>8, <1>9, JobMoves

LEMMA HandOverKeeps == ASSUME LogsInv, NEW b \in Batches, HandOver(b)  PROVE LogsInv'
<1>1. /\ job[b] = "inserted" /\ job' = [job EXCEPT ![b] = "handed"]
      /\ scoreJobs' = [scoreJobs EXCEPT ![b] = @ + 1] \/ scoreJobs' = scoreJobs
      /\ UNCHANGED <<stalls, runs, refused, purgeVars, index, today, late>>
  BY DEF HandOver
<1>2. /\ scoreJobs[b] < runs[b] /\ runs[b] \in 0 .. MaxStalls + 1 /\ scoreJobs[b] \in Nat
      /\ LogsOf[b] \subseteq Indexed(b) \cup refused /\ runs[b] = stalls[b] + 1
  BY <1>1, JobTypes DEF JobFits, InProgress
<1>3. /\ job'[b] = "handed" /\ scoreJobs'[b] \in {scoreJobs[b], scoreJobs[b] + 1}
      /\ UNCHANGED Indexed(b)
  BY <1>1 DEF LogsInv, TypeOK, Indexed, purgeVars
<1>4. TypeOK'
  BY <1>1, <1>2 DEF LogsInv, TypeOK, purgeVars, InProgress, Ended, MaxStalls
<1>5. JobFits(b)'  BY <1>1, <1>2, <1>3 DEF JobFits, InProgress, Ended, MaxStalls
<1>6. \A a \in Batches \ {b} : job'[a] = job[a] /\ scoreJobs'[a] = scoreJobs[a]
  BY <1>1 DEF LogsInv, TypeOK
<1> QED  BY <1>1, <1>2, <1>4, <1>5, <1>6, JobGoesOn

LEMMA CompleteKeeps == ASSUME LogsInv, NEW b \in Batches, Complete(b)  PROVE LogsInv'
<1>1. /\ job[b] = "handed" /\ job' = [job EXCEPT ![b] = "done"]
      /\ UNCHANGED <<stalls, runs, scoreJobs, refused, purgeVars, index, today, late>>
  BY DEF Complete
<1>2. TypeOK'  BY <1>1 DEF LogsInv, TypeOK, purgeVars, Ended
<1>3. job'[b] = "done" /\ UNCHANGED Indexed(b)
  BY <1>1 DEF LogsInv, TypeOK, Indexed, purgeVars
<1>4. JobFits(b)'  BY <1>1, <1>3, JobTypes DEF JobFits, InProgress, Ended
<1>5. \A a \in Batches \ {b} : job'[a] = job[a]  BY <1>1 DEF LogsInv, TypeOK
<1> QED  BY <1>1, <1>2, <1>4, <1>5, JobTypes, JobGoesOn
-----------------------------------------------------------------------------
(* The retention job. *)

LEMMA PurgeTypes ==
  ASSUME LogsInv
  PROVE  /\ purge.at \in {"idle", "waiting"} \cup PurgeSteps /\ purge.cutoff \in 0 .. LastDay
         /\ purge.after \in {None} \cup ((0 .. LastDay) \X Nat) /\ purge.gathered \subseteq Doc
         /\ purge.stalls \in 0 .. MaxStalls
         /\ purge \in Purge /\ NoPurge \in Purge /\ NoPurge.at = "idle"
  BY LogsConstants DEF LogsInv, TypeOK, Purge, NoPurge, MaxStalls

\* Without a retention job under way, only what was deleted has to be explained.
LEMMA AtRest ==
  ASSUME purge'.at \notin PurgeSteps, PurgedIsArchived'
  PROVE  PurgeFits'
  BY DEF PurgeFits, PurgeSteps

\* What was deleted stays explained while nothing more is deleted.
LEMMA PurgedStays ==
  ASSUME LogsInv, purged' = purged, archive \subseteq archive', Stored \subseteq Stored',
         late \cap purged \subseteq late'
  PROVE  PurgedIsArchived'
<1> SUFFICES ASSUME NEW d \in purged \ archive  PROVE Explained(d)'
  BY DEF PurgedIsArchived, Explained, Stored
<1>1. Explained(d)  BY DEF LogsInv, PurgeFits, PurgedIsArchived, Explained, Stored
<1> QED  BY <1>1, ExplainedStays

LEMMA ScheduleKeeps == ASSUME LogsInv, Schedule  PROVE LogsInv'
<1>1. /\ purge' = [NoPurge EXCEPT !.at = "waiting"] /\ scheduled' = today
      /\ UNCHANGED <<jobVars, archive, purged, index, today, late>>
  BY DEF Schedule
<1>2. purge' \in Purge /\ purge'.at = "waiting"
  BY <1>1, PurgeTypes DEF NoPurge, Purge
<1>3. TypeOK'  BY <1>1, <1>2, LogsConstants DEF LogsInv, TypeOK, jobVars
<1>4. PurgeFits'  BY <1>1, <1>2, AtRest, PurgedStays DEF PurgeSteps, Stored
<1> QED  BY <1>1, <1>3, <1>4, PurgeMoves DEF Stored

LEMMA StartPurgeKeeps == ASSUME LogsInv, StartPurge  PROVE LogsInv'
<1>1. /\ purge' = [purge EXCEPT !.at = "search", !.cutoff = today - RetentionDays,
                                !.after = None, !.gathered = {}]
      /\ late' = late \cap purged
      /\ UNCHANGED <<jobVars, scheduled, archive, purged, index, today>>
  BY DEF StartPurge
<1>2. purge' \in Purge /\ purge'.at = "search" /\ purge'.after = None
  <2>1. today - RetentionDays \in 0 .. LastDay
    BY LogsConstants DEF LogsInv, TypeOK
  <2> QED  BY <1>1, <2>1, PurgeTypes DEF Purge, PurgeSteps
<1>3. TypeOK'  BY <1>1, <1>2 DEF LogsInv, TypeOK, jobVars
<1>4. PurgedIsArchived'  BY <1>1, PurgedStays DEF Stored
<1>5. PurgeFits'  BY <1>2, <1>4 DEF PurgeFits, Ahead
<1> QED  BY <1>1, <1>3, <1>5, PurgeMoves DEF Stored

\* The keys of documents are ordered by the day, then by the hash.
LEMMA KeyOrder ==
  /\ \A d \in Doc : Key(d) \in (0 .. LastDay) \X Nat
  /\ \A k, l \in (0 .. LastDay) \X Nat : Before(k, l) \/ Before(l, k) \/ k = l
  /\ \A k \in (0 .. LastDay) \X Nat : ~Before(k, k)
  /\ \A j, k, l \in (0 .. LastDay) \X Nat : Before(j, k) /\ Before(k, l) => Before(j, l)
<1>1. \A d \in Doc : Key(d) \in (0 .. LastDay) \X Nat  BY LogsConstants DEF Doc, Key
<1>2. \A k \in (0 .. LastDay) \X Nat : k = <<k[1], k[2]>> /\ k[1] \in Int /\ k[2] \in Int
  BY LogsConstants
<1>3. \A k, l \in (0 .. LastDay) \X Nat : Before(k, l) \/ Before(l, k) \/ k = l
  <2> SUFFICES ASSUME NEW k \in (0 .. LastDay) \X Nat, NEW l \in (0 .. LastDay) \X Nat
               PROVE  Before(k, l) \/ Before(l, k) \/ k = l
    OBVIOUS
  <2>1. CASE k[1] = l[1] /\ k[2] = l[2]  BY <1>2, <2>1
  <2>2. CASE k[1] # l[1] \/ k[2] # l[2]  BY <1>2, <2>2 DEF Before
  <2> QED  BY <2>1, <2>2
<1>4. \A k \in (0 .. LastDay) \X Nat : ~Before(k, k)  BY <1>2 DEF Before
<1>5. \A j, k, l \in (0 .. LastDay) \X Nat : Before(j, k) /\ Before(k, l) => Before(j, l)
  BY <1>2 DEF Before
<1> QED  BY <1>1, <1>3, <1>4, <1>5

\* A page has a last key, and the documents left behind come after it or tie with it.
LEMMA PageEnds ==
  ASSUME LogsInv, NEW page \in Pages, Rest # {}
  PROVE  /\ page \subseteq Rest /\ LastKey(page) \in (0 .. LastDay) \X Nat
         /\ \A d \in Rest \ page : \/ Before(LastKey(page), Key(d))
                                   \/ \E e \in page : Key(e) = Key(d)
<1> DEFINE keys == {Key(d) : d \in page}
           n == IF Cardinality(Rest) < PageSize THEN Cardinality(Rest) ELSE PageSize
<1>1. page \subseteq Rest /\ Cardinality(page) = n
      /\ \A d \in page, e \in Rest \ page : ~Before(Key(e), Key(d))
  BY DEF Pages, kSubset
<1>2. Rest \subseteq Doc /\ IsFiniteSet(Rest)
  <2>1. Rest \subseteq index  BY DEF Rest, Older
  <2> QED  BY <2>1, FS_Subset DEF LogsInv, TypeOK
<1>3. IsFiniteSet(page) /\ page # {}
  <2>1. Cardinality(Rest) \in Nat /\ Cardinality(Rest) # 0
    BY <1>2, FS_CardinalityType, FS_EmptySet
  <2>2. n # 0  BY <2>1, LogsConstants
  <2> HIDE DEF n
  <2> QED  BY <1>1, <1>2, <2>2, FS_Subset, FS_EmptySet
<1>4. PICK m \in page : \A d \in page : ~Before(Key(m), Key(d))
  <2> DEFINE R == {p \in page \X page : Before(Key(p[1]), Key(p[2]))}
  <2>1. \A d, e \in page : <<d, e>> \in R <=> Before(Key(d), Key(e))  OBVIOUS
  <2> HIDE DEF R
  <2>2. page \subseteq Doc  BY <1>1, <1>2
  <2>3. \A d \in page : <<d, d>> \notin R  BY <2>1, <2>2, KeyOrder
  <2>4. \A c, d, e \in page : <<c, d>> \in R /\ <<d, e>> \in R => <<c, e>> \in R
    BY <2>1, <2>2, KeyOrder
  <2>5. \E m \in page : \A d \in page : <<m, d>> \notin R
    BY <1>3, <2>3, <2>4, FiniteMaximal
  <2> QED  BY <2>1, <2>5
<1>5. LastKey(page) \in keys /\ \A d \in page : ~Before(LastKey(page), Key(d))
  BY <1>4 DEF LastKey
<1>6. PICK last \in page : LastKey(page) = Key(last)  BY <1>5
<1>7. ASSUME NEW d \in Rest \ page
      PROVE  Before(LastKey(page), Key(d)) \/ \E e \in page : Key(e) = Key(d)
  <2>1. ~Before(Key(d), Key(last))  BY <1>1, <1>6
  <2>2. d \in Doc /\ last \in Doc  BY <1>1, <1>2
  <2> QED  BY <1>6, <2>1, <2>2, KeyOrder
<1> QED  BY <1>1, <1>2, <1>6, <1>7, KeyOrder

LEMMA NextPageKeeps == ASSUME LogsInv, NextPage  PROVE LogsInv'
<1>1. /\ purge.at = "search" /\ Rest # {}
      /\ UNCHANGED <<jobVars, scheduled, archive, purged, index, today, late>>
  BY DEF NextPage
<1>2. PICK page \in Pages :
        purge' = [purge EXCEPT !.gathered = @ \cup page, !.after = LastKey(page)]
  BY DEF NextPage
<1>3. /\ page \subseteq Rest /\ LastKey(page) \in (0 .. LastDay) \X Nat
      /\ \A d \in Rest \ page : \/ Before(LastKey(page), Key(d))
                                \/ \E e \in page : Key(e) = Key(d)
  BY <1>1, PageEnds
<1>4. Rest \subseteq index /\ index \subseteq Doc  BY DEF Rest, Older, LogsInv, TypeOK
<1>5. /\ purge' \in Purge /\ purge'.at = "search" /\ purge'.cutoff = purge.cutoff
      /\ purge'.gathered = purge.gathered \cup page /\ purge'.after = LastKey(page)
  BY <1>1, <1>2, <1>3, <1>4, PurgeTypes DEF Purge
<1>6. TypeOK'  BY <1>1, <1>5 DEF LogsInv, TypeOK, jobVars
<1>7. ASSUME NEW d \in Older(purge.cutoff)
      PROVE  Explained(d) \/ d \in purge'.gathered \/ Before(purge'.after, Key(d))
  <2>1. CASE d \in Rest \ page
    <3>1. CASE Before(LastKey(page), Key(d))  BY <1>5, <3>1
    <3>2. CASE \E e \in page : Key(e) = Key(d)
      BY <1>3, <1>4, <2>1, <3>2 DEF Explained, Stored
    <3> QED  BY <1>3, <2>1, <3>1, <3>2
  <2>2. CASE d \in page  BY <1>5, <2>2
  <2>3. CASE d \notin Rest
    <3>1. ~Ahead(d)  BY <2>3 DEF Rest, Ahead
    <3> QED  BY <1>1, <1>5, <3>1 DEF LogsInv, PurgeFits, PurgeSteps
  <2> QED  BY <2>1, <2>2, <2>3
<1>8. PurgedIsArchived'  BY <1>1, PurgedStays DEF Stored
<1>9. \A d : Explained(d)' <=> Explained(d)  BY <1>1 DEF Explained, Stored, Key
<1>10. Older(purge.cutoff)' = Older(purge.cutoff)  BY <1>1, <1>5 DEF Older
<1>11. \A d : Ahead(d)' <=> purge'.after = None \/ Before(purge'.after, Key(d))
  BY DEF Ahead, Before, Key
<1>12. PurgeFits'  BY <1>5, <1>7, <1>8, <1>9, <1>10, <1>11 DEF PurgeFits
<1> QED  BY <1>1, <1>6, <1>12, PurgeMoves DEF Stored

LEMMA EndSearchKeeps == ASSUME LogsInv, EndSearch  PROVE LogsInv'
<1>1. /\ purge.at = "search" /\ Rest = {}
      /\ UNCHANGED <<jobVars, scheduled, archive, purged, index, today, late>>
  BY DEF EndSearch
<1>2. PurgedIsArchived'  BY <1>1, PurgedStays DEF Stored
<1>3. CASE purge' = NoPurge
  <2>1. purge' \in Purge /\ purge'.at = "idle"  BY <1>3, PurgeTypes
  <2>2. TypeOK'  BY <1>1, <2>1 DEF LogsInv, TypeOK, jobVars
  <2>3. PurgeFits'  BY <1>2, <2>1, AtRest DEF PurgeSteps
  <2> QED  BY <1>1, <2>2, <2>3, PurgeMoves DEF Stored
<1>4. CASE purge' = [purge EXCEPT !.at = "write"]
  <2>1. purge' \in Purge /\ purge'.at = "write" /\ purge'.cutoff = purge.cutoff
        /\ purge'.gathered = purge.gathered
    BY <1>4, PurgeTypes DEF Purge, PurgeSteps
  <2>2. TypeOK'  BY <1>1, <2>1 DEF LogsInv, TypeOK, jobVars
  <2>3. ASSUME NEW d \in Older(purge.cutoff)  PROVE Explained(d) \/ d \in purge.gathered
    <3>1. ~Ahead(d)  BY <1>1 DEF Rest, Ahead
    <3> QED  BY <1>1, <3>1 DEF LogsInv, PurgeFits, PurgeSteps
  <2>4. \A d : Explained(d)' <=> Explained(d)  BY <1>1 DEF Explained, Stored, Key
  <2>5. Older(purge.cutoff)' = Older(purge.cutoff)  BY <1>1, <2>1 DEF Older
  <2>6. PurgeFits'  BY <1>2, <2>1, <2>3, <2>4, <2>5 DEF PurgeFits
  <2> QED  BY <1>1, <2>2, <2>6, PurgeMoves DEF Stored
<1> QED  BY <1>3, <1>4 DEF EndSearch

LEMMA WriteArchiveKeeps == ASSUME LogsInv, WriteArchive  PROVE LogsInv'
<1>1. /\ purge.at = "write" /\ archive' = archive \cup purge.gathered
      /\ purge' = [purge EXCEPT !.at = "delete"]
      /\ UNCHANGED <<jobVars, scheduled, purged, index, today, late>>
  BY DEF WriteArchive
<1>2. purge' \in Purge /\ purge'.at = "delete" /\ purge'.cutoff = purge.cutoff
      /\ purge'.gathered = purge.gathered
  BY <1>1, PurgeTypes DEF Purge, PurgeSteps
<1>3. TypeOK'  BY <1>1, <1>2, PurgeTypes DEF LogsInv, TypeOK, jobVars
<1>4. PurgedIsArchived'  BY <1>1, PurgedStays DEF Stored
<1>5. \A d \in Older(purge.cutoff) : Explained(d) \/ d \in purge.gathered
  BY <1>1 DEF LogsInv, PurgeFits, PurgeSteps
<1>6. \A d : Explained(d)' <=> Explained(d)  BY <1>1 DEF Explained, Stored, Key
<1>7. Older(purge.cutoff)' = Older(purge.cutoff)  BY <1>1, <1>2 DEF Older
<1>8. PurgeFits'  BY <1>1, <1>2, <1>4, <1>5, <1>6, <1>7 DEF PurgeFits
<1> QED  BY <1>1, <1>3, <1>8, PurgeMoves DEF Stored

\* The job ends, and some documents it may delete are deleted.
LEMMA DeleteKeeps ==
  ASSUME LogsInv, NEW docs \in SUBSET index, Delete(docs),
         \A d \in docs : Explained(d) \/ d \in archive
  PROVE  LogsInv'
<1>1. /\ index' = index \ docs /\ purged' = purged \cup docs /\ purge' = NoPurge
      /\ UNCHANGED <<jobVars, scheduled, archive, today, late>>
  BY DEF Delete
<1>2. Stored' = Stored  BY <1>1 DEF Stored
<1>3. purge' \in Purge /\ purge'.at = "idle"  BY <1>1, PurgeTypes
<1>4. TypeOK'  BY <1>1, <1>3 DEF LogsInv, TypeOK, jobVars
<1>5. PurgedIsArchived'
  <2> SUFFICES ASSUME NEW d \in purged' \ archive  PROVE Explained(d)'
    BY <1>1 DEF PurgedIsArchived, Explained, Stored
  <2>1. Explained(d)
    BY <1>1 DEF LogsInv, PurgeFits, PurgedIsArchived, Explained, Stored
  <2> QED  BY <1>1, <1>2, <2>1, ExplainedStays
<1>6. PurgeFits'  BY <1>3, <1>5, AtRest DEF PurgeSteps
<1> QED  BY <1>1, <1>2, <1>4, <1>6, PurgeMoves

\* What the archive holds or explains is all the deletion finds.
LEMMA DeletedExplained ==
  ASSUME LogsInv, purge.at = "delete", NEW d \in Older(purge.cutoff)
  PROVE  Explained(d) \/ d \in archive
  BY DEF LogsInv, PurgeFits, PurgeSteps

LEMMA DeleteOldKeeps == ASSUME LogsInv, DeleteOld  PROVE LogsInv'
<1>1. Older(purge.cutoff) \subseteq index  BY DEF Older
<1> QED  BY <1>1, DeletedExplained, DeleteKeeps DEF DeleteOld

LEMMA PurgeFailsKeeps == ASSUME LogsInv, PurgeFails  PROVE LogsInv'
<1>1. CASE Delete({})  BY <1>1, DeleteKeeps
<1>2. CASE purge.at = "delete" /\ \E docs \in SUBSET Older(purge.cutoff) : Delete(docs)
  <2>1. PICK docs \in SUBSET Older(purge.cutoff) : Delete(docs)  BY <1>2
  <2>2. docs \subseteq index  BY DEF Older
  <2> QED  BY <1>2, <2>1, <2>2, DeletedExplained, DeleteKeeps
<1> QED  BY <1>1, <1>2 DEF PurgeFails
-----------------------------------------------------------------------------
(* The surroundings. *)

LEMMA TomorrowKeeps == ASSUME LogsInv, Tomorrow  PROVE LogsInv'
<1>1. today < LastDay /\ today' = today + 1 /\ UNCHANGED <<jobVars, purgeVars, index, late>>
  BY DEF Tomorrow
<1>2. TypeOK'  BY <1>1, LogsConstants DEF LogsInv, TypeOK, jobVars, purgeVars
<1>3. PurgeFits'
  BY <1>1 DEF LogsInv, PurgeFits, purgeVars, Older, Explained, Stored, Ahead, Before, Key,
              PurgedIsArchived
<1> QED  BY <1>1, <1>2, <1>3, PurgeMoves DEF Stored, purgeVars

LEMMA RestartKeeps == ASSUME LogsInv, Restart  PROVE LogsInv'
<1> DEFINE active == {b \in Batches : job[b] \in InProgress}
<1>1. /\ job' = [b \in Batches |-> IF b \notin active THEN job[b]
                                   ELSE IF stalls[b] = MaxStalls THEN "failed" ELSE "waiting"]
      /\ stalls' = [b \in Batches |-> IF b \in active /\ stalls[b] < MaxStalls
                                      THEN stalls[b] + 1 ELSE stalls[b]]
      /\ UNCHANGED <<runs, scoreJobs, refused, scheduled, archive, purged, index, today, late>>
  BY DEF Restart
<1>2. purge' \in {purge, NoPurge, [NoPurge EXCEPT !.at = "waiting", !.stalls = purge.stalls + 1]}
      /\ (purge' = purge => purge.at \notin PurgeSteps)
  BY PurgeTypes DEF Restart, NoPurge, PurgeSteps
<1>3. purge' \in Purge /\ purge'.at \notin PurgeSteps
  <2>1. purge.stalls = MaxStalls \/ purge.stalls + 1 \in 0 .. MaxStalls
    BY PurgeTypes DEF MaxStalls
  <2>2. purge' \in {purge, NoPurge} \/ purge.stalls # MaxStalls
    BY DEF Restart
  <2> QED  BY <1>2, <2>1, <2>2, PurgeTypes DEF NoPurge, Purge, PurgeSteps
<1>4. ASSUME NEW b \in Batches
      PROVE  /\ job'[b] \in {"none", "waiting"} \cup InProgress \cup Ended
             /\ stalls'[b] \in 0 .. MaxStalls
             /\ JobFits(b)'
  <2>1. UNCHANGED Indexed(b)  BY <1>1 DEF Indexed
  <2>2. CASE b \notin active
    <3>1. job'[b] = job[b] /\ stalls'[b] = stalls[b]  BY <1>1, <2>2
    <3> QED  BY <1>1, <2>1, <3>1, JobTypes DEF JobFits, LogsInv, TypeOK
  <2>3. CASE b \in active /\ stalls[b] = MaxStalls
    <3>1. job'[b] = "failed" /\ stalls'[b] = stalls[b]  BY <1>1, <2>3, JobTypes
    <3> QED  BY <1>1, <2>1, <2>3, <3>1, JobTypes DEF JobFits, InProgress, Ended
  <2>4. CASE b \in active /\ stalls[b] # MaxStalls
    <3>1. job'[b] = "waiting" /\ stalls'[b] = stalls[b] + 1
      BY <1>1, <2>4, JobTypes DEF MaxStalls
    <3> QED  BY <1>1, <2>1, <2>4, <3>1, JobTypes DEF JobFits, InProgress, Ended, MaxStalls
  <2> QED  BY <2>2, <2>3, <2>4
<1>5. TypeOK'  BY <1>1, <1>3, <1>4 DEF LogsInv, TypeOK
<1>6. PurgeFits'  BY <1>1, <1>3, AtRest, PurgedStays DEF Stored
<1>7. IsFiniteSet(index') /\ RunsTell'  BY <1>1 DEF LogsInv, RunsTell, Stored
<1> QED  BY <1>4, <1>5, <1>6, <1>7 DEF LogsInv

LEMMA LogsNext == ASSUME LogsInv, [Next]_vars  PROVE LogsInv'
<1>1. CASE UNCHANGED vars
  <2>1. UNCHANGED <<jobVars, purgeVars, index, today, late>>  BY <1>1 DEF vars
  <2>2. TypeOK'  BY <2>1 DEF LogsInv, TypeOK, jobVars, purgeVars
  <2>3. PurgeFits'
    BY <2>1 DEF LogsInv, PurgeFits, purgeVars, Older, Explained, Stored, Ahead, Before, Key,
                PurgedIsArchived
  <2> QED  BY <2>1, <2>2, <2>3, PurgeMoves DEF Stored, purgeVars
<1>2. ASSUME NEW b \in Batches, Ingest(b) \/ JobStep(b) \/ BulkThrows(b)  PROVE LogsInv'
  BY <1>2, IngestKeeps, NormalizeKeeps, BulkInsertKeeps, HandOverKeeps, CompleteKeeps,
     BulkThrowsKeeps DEF JobStep
<1>3. CASE PurgeStep
  BY <1>3, StartPurgeKeeps, NextPageKeeps, EndSearchKeeps, WriteArchiveKeeps, DeleteOldKeeps
  DEF PurgeStep
<1> QED
  BY <1>1, <1>2, <1>3, ScheduleKeeps, PurgeFailsKeeps, TomorrowKeeps, RestartKeeps DEF Next
-----------------------------------------------------------------------------
(* What follows for every behaviour. *)

LEMMA LogsAlways == Spec => []LogsInv
<1>1. Init => LogsInv  BY LogsInit
<1>2. LogsInv /\ [Next]_vars => LogsInv'  BY LogsNext
<1> QED  BY <1>1, <1>2, PTL DEF Spec

\* Jobs, documents and the retention stay well-formed: a job is queued again at most
\* as often as BullMQ allows.
THEOREM LogsTypes == Spec => []TypeOK
<1>1. LogsInv => TypeOK  BY DEF LogsInv
<1> QED  BY <1>1, LogsAlways, PTL

\* archiveAndPurge deletes nothing it did not archive, except what came late and
\* the ties of a page's end.
THEOREM DeletionsAreArchived == Spec => []PurgedIsArchived
<1>1. LogsInv => PurgedIsArchived  BY DEF LogsInv, PurgeFits
<1> QED  BY <1>1, LogsAlways, PTL

\* No batch is lost by a job that succeeded, and none scored before it was inserted.
THEOREM SuccessMeansInserted == Spec => []HandedOverIsInserted
<1>1. LogsInv => HandedOverIsInserted  BY DEF LogsInv, JobFits, HandedOverIsInserted
<1> QED  BY <1>1, LogsAlways, PTL

\* A batch no restart interrupted is inserted once and scored once.
THEOREM OnlyRestartsRepeat == Spec => []RepeatedOnlyByRestart
<1>1. ASSUME LogsInv  PROVE RepeatedOnlyByRestart
  <2> SUFFICES ASSUME NEW b \in Batches, stalls[b] = 0
               PROVE  /\ scoreJobs[b] <= 1
                      /\ \A d, e \in Stored : d.log = e.log /\ d.log \in LogsOf[b] => d = e
    BY DEF RepeatedOnlyByRestart, Stored
  <2>1. runs[b] \in Nat /\ runs[b] <= 1 /\ scoreJobs[b] <= runs[b] /\ scoreJobs[b] \in Nat
    BY <1>1, JobTypes DEF LogsInv, TypeOK, JobFits, InProgress, Ended, MaxStalls
  <2>2. ASSUME NEW d \in Stored, NEW e \in Stored, d.log = e.log, d.log \in LogsOf[b]
        PROVE  d = e
    <3>1. d \in Doc /\ e \in Doc  BY <1>1 DEF LogsInv, TypeOK, Stored
    <3>2. d.run <= runs[b] /\ e.run <= runs[b]  BY <1>1, <2>2 DEF LogsInv, RunsTell
    <3>3. d.run = 1 /\ e.run = 1  BY <2>1, <3>1, <3>2 DEF Doc, MaxStalls
    <3>4. d = [log |-> d.log, run |-> d.run] /\ e = [log |-> e.log, run |-> e.run]
      BY <3>1 DEF Doc
    <3> QED  BY <2>2, <3>3, <3>4
  <2> QED  BY <2>1, <2>2
<1> QED  BY <1>1, LogsAlways, PTL
=============================================================================
