------------------------- MODULE UebaScoringProofs -------------------------
(***************************************************************************)
(* Proofs about UebaScoring, for every set of users and jobs, any batches  *)
(* and any concurrency.  The risk of a user is lost and found again as     *)
(* jobs overwrite it, but what a risk proves about the row it was read     *)
(* from stays true: counts only grow and a baseline stays built.           *)
(***************************************************************************)
EXTENDS UebaScoring, TLAPS

\* What a risk proves about a row, whenever it was written to it.
Explains(risk, row) ==
  /\ risk > 51 => row.anomalies >= 1
  /\ risk > 66 => row.anomalies >= 2
  /\ risk > 64 => row.built

Row(j) == profile[UserOf(j)]

RisksExplained == \A u \in Users : profile[u] # None => Explains(profile[u].risk, profile[u])

\* What a job has read still holds of the row when it writes.
ReadExplained(j) ==
  job[j].at = "update" =>
    /\ Row(j) # None
    /\ Explains(job[j].before, Row(j))
    /\ job[j].built => Row(j).built
    /\ ~job[j].built => job[j].before <= 64 /\ job[j].event <= 65

Disabling(row) == row # None /\ row.built /\ row.anomalies >= 2

TriggerExplained(j) == job[j].at \in {"incident", "execute"} => Disabling(Row(j))

IncidentsExplained == \A u \in Users : incidents[u] > 0 => Disabling(profile[u])

RiskInv ==
  /\ TypeOK
  /\ RisksExplained
  /\ \A j \in Jobs : ReadExplained(j) /\ TriggerExplained(j)
  /\ IncidentsExplained

-----------------------------------------------------------------------------
(* Scores and risks. *)

\* An event scores between 0 and 100, and at most 65 without hosts and addresses.
LEMMA ScoreRange ==
  ASSUME NEW shown
  PROVE  /\ Score(shown) \in 0 .. 100
         /\ "new_host" \notin shown /\ "new_ip" \notin shown => Score(shown) <= 65
  BY DEF Score, Points

\* The events scored against a row.
LEMMA EventRange ==
  ASSUME NEW built \in BOOLEAN, NEW event \in Events(built)
  PROVE  event \in 0 .. 100 /\ (~built => event <= 65)
<1>1. PICK kind \in Kinds : event = Score(kind \cap CanShow(built))  BY DEF Events
<1>2. ~built => "new_host" \notin CanShow(built) /\ "new_ip" \notin CanShow(built)  BY DEF CanShow
<1> QED  BY <1>1, <1>2, ScoreRange

\* How far one event may take the risk.
LEMMA EmaRange ==
  ASSUME NEW event \in 0 .. 100, NEW before \in 0 .. 100, NEW after \in Ema(event, before)
  PROVE  /\ after \in 0 .. 100
         /\ event <= 65 /\ before <= 64 => after <= 64
         /\ event <= 50 /\ before <= 51 => after <= 51
         /\ before <= 51 => after <= 66
         /\ event <= 50 /\ before <= 66 => after <= 66
  BY DEF Ema

-----------------------------------------------------------------------------
(* Types. *)

\* A job points at one of its logs, before and after it is done with one.
LEMMA UserOfType ==
  ASSUME TypeOK, NEW j \in Jobs
  PROVE  UserOf(j) \in Users
  BY ScoringConstants DEF TypeOK, JobOK, UserOf

LEMMA AfterType ==
  ASSUME TypeOK, NEW j \in Jobs
  PROVE  /\ After(j) \in Job
         /\ After(j).log \in DOMAIN LogsOf[j]
         /\ After(j).at \in {"done", "load"}
         /\ After(j).stalls = job[j].stalls
<1>1. job[j] \in Job /\ job[j].log \in DOMAIN LogsOf[j]  BY DEF TypeOK, JobOK
<1>2. LogsOf[j] \in Seq(Users)  BY ScoringConstants
<1>3. DOMAIN LogsOf[j] = 1 .. Len(LogsOf[j]) /\ Len(LogsOf[j]) \in Nat  BY <1>2
<1>4. job[j].log # Len(LogsOf[j]) => job[j].log + 1 \in DOMAIN LogsOf[j]  BY <1>1, <1>3
<1>5. CASE job[j].log = Len(LogsOf[j])
  <2>1. After(j) = [job[j] EXCEPT !.at = "done"]  BY <1>5 DEF After
  <2> QED  BY <1>1, <2>1 DEF Job, Ended
<1>6. CASE job[j].log # Len(LogsOf[j])
  <2>1. After(j) = [job[j] EXCEPT !.at = "load", !.log = job[j].log + 1]  BY <1>6 DEF After
  <2>2. job[j].log + 1 \in Nat \ {0}  BY <1>1 DEF Job
  <2>3. After(j) \in Job  BY <1>1, <2>1, <2>2 DEF Job, Steps
  <2>4. After(j).log = job[j].log + 1 /\ After(j).at = "load" /\ After(j).stalls = job[j].stalls
    BY <1>1, <2>1 DEF Job
  <2> QED  BY <1>4, <1>6, <2>3, <2>4
<1> QED  BY <1>5, <1>6

LEMMA FreshType ==
  ASSUME NEW j \in Jobs, NEW at \in {"waiting"} \cup Steps, NEW n \in 0 .. MaxStalls
  PROVE  Fresh(at, n) \in Job /\ Fresh(at, n).log \in DOMAIN LogsOf[j]
<1>1. LogsOf[j] \in Seq(Users) /\ LogsOf[j] # <<>>  BY ScoringConstants
<1>2. 1 \in DOMAIN LogsOf[j]  BY <1>1
<1> QED  BY <1>2 DEF Fresh, Job

\* One job takes a step to a record that fits it.
LEMMA JobSet ==
  ASSUME JobOK, NEW j \in Jobs, NEW to \in Job, to.log \in DOMAIN LogsOf[j],
         job' = [job EXCEPT ![j] = to]
  PROVE  JobOK'
  BY DEF JobOK

LEMMA ReadType ==
  ASSUME TypeOK, NEW j \in Jobs, NEW row \in Profile, Read(j, row)
  PROVE  \E event \in Events(row.built) :
           LET to == [job[j] EXCEPT !.at = "update", !.before = row.risk,
                                    !.built = row.built, !.event = event]
           IN  /\ to \in Job /\ to.log = job[j].log
               /\ job' = [job EXCEPT ![j] = to]
<1>1. PICK event \in Events(row.built) :
        job' = [job EXCEPT ![j].at = "update", ![j].before = row.risk,
                           ![j].built = row.built, ![j].event = event]
  BY DEF Read
<1>2. row.risk \in 0 .. 100 /\ row.built \in BOOLEAN  BY DEF Profile
<1>3. event \in 0 .. 100  BY <1>2, EventRange
<1>4. job[j] \in Job /\ job \in [Jobs -> Job]  BY DEF TypeOK, JobOK
<1> DEFINE to == [job[j] EXCEPT !.at = "update", !.before = row.risk,
                                !.built = row.built, !.event = event]
<1>5. to \in Job /\ to.log = job[j].log  BY <1>2, <1>3, <1>4 DEF Job, Steps
<1>6. job' = [job EXCEPT ![j] = to]  BY <1>1, <1>4 DEF Job
<1> QED  BY <1>5, <1>6

LEMMA ColdStartType ==
  ASSUME NEW built \in BOOLEAN
  PROVE  ColdStart(built) \in Profile
<1>1. ColdRisk \in 0 .. 100 /\ 0 \in 0 .. MaxAnomalies  BY ScoringConstants DEF ColdRisk
<1> QED  BY <1>1 DEF ColdStart, Profile

LEMMA ProfileIsNotNone == None \notin Profile
  BY ScoringConstants DEF Profile

-----------------------------------------------------------------------------
(* What a step leaves alone. *)

\* Rows are never deleted, baselines never taken back, and counts never lowered.
RowsGrow ==
  \A u \in Users : profile[u] # None =>
    /\ profile'[u] # None
    /\ profile[u].built => profile'[u].built
    /\ profile'[u].anomalies >= profile[u].anomalies

\* A job that does not move keeps what it knows of a row that grows.
LEMMA OthersStay ==
  ASSUME RiskInv, TypeOK', RowsGrow, NEW i \in Jobs, job'[i] = job[i]
  PROVE  ReadExplained(i)' /\ TriggerExplained(i)'
<1>1. UserOf(i)' = UserOf(i) /\ UserOf(i) \in Users  BY UserOfType DEF RiskInv, UserOf
<1>2. Row(i) # None => /\ Row(i)' # None
                       /\ Row(i).built => Row(i)'.built
                       /\ Row(i)'.anomalies >= Row(i).anomalies
  BY <1>1 DEF RowsGrow, Row
<1>3. Row(i) # None => Row(i).anomalies \in Nat
  BY <1>1 DEF RiskInv, TypeOK, ProfileOK, Profile, Row
<1>4. Row(i) # None => Row(i)'.anomalies \in Nat
  BY <1>1, <1>2 DEF TypeOK, ProfileOK, Profile, Row
<1>5. ReadExplained(i) /\ TriggerExplained(i)  BY DEF RiskInv
<1> QED  BY <1>2, <1>3, <1>4, <1>5 DEF ReadExplained, TriggerExplained, Explains, Disabling

\* Incidents stay explained while rows grow.
LEMMA OldIncidentsStay ==
  ASSUME RiskInv, TypeOK', RowsGrow, UNCHANGED incidents
  PROVE  IncidentsExplained'
<1> SUFFICES ASSUME NEW u \in Users, incidents[u] > 0 PROVE Disabling(profile'[u])
  BY DEF IncidentsExplained
<1>1. Disabling(profile[u])  BY DEF RiskInv, IncidentsExplained
<1>2. profile[u].anomalies \in Nat /\ profile'[u].anomalies \in Nat
  BY <1>1 DEF RiskInv, TypeOK, ProfileOK, Profile, RowsGrow, Disabling
<1> QED  BY <1>1, <1>2 DEF RowsGrow, Disabling

\* One job moves while the rows grow.
LEMMA OneMoves ==
  ASSUME RiskInv, TypeOK', RowsGrow, RisksExplained', UNCHANGED incidents,
         NEW j \in Jobs, \A i \in Jobs \ {j} : job'[i] = job[i],
         ReadExplained(j)', TriggerExplained(j)'
  PROVE  RiskInv'
<1>1. \A i \in Jobs : ReadExplained(i)' /\ TriggerExplained(i)'  BY OthersStay
<1>2. IncidentsExplained'  BY OldIncidentsStay
<1> QED  BY <1>1, <1>2 DEF RiskInv

\* One job moves on and no row changes.
LEMMA OneMovesOn ==
  ASSUME RiskInv, TypeOK', UNCHANGED <<profile, incidents>>,
         NEW j \in Jobs, \A i \in Jobs \ {j} : job'[i] = job[i],
         job'[j].at \notin {"update", "incident", "execute"}
  PROVE  RiskInv'
<1>1. RowsGrow  BY DEF RiskInv, TypeOK, ProfileOK, Profile, RowsGrow
<1>2. RisksExplained'  BY DEF RiskInv, RisksExplained
<1>3. ReadExplained(j)' /\ TriggerExplained(j)'  BY DEF ReadExplained, TriggerExplained
<1> QED  BY <1>1, <1>2, <1>3, OneMoves

-----------------------------------------------------------------------------
(* The steps. *)

LEMMA InitRiskInv == Init => RiskInv
<1> SUFFICES ASSUME Init PROVE RiskInv  OBVIOUS
<1>1. \A j \in Jobs : Fresh("waiting", 0) \in Job /\ Fresh("waiting", 0).log \in DOMAIN LogsOf[j]
  BY FreshType DEF MaxStalls
<1>2. TypeOK  BY <1>1 DEF Init, TypeOK, ProfileOK, JobOK, CountsOK
<1>3. \A j \in Jobs : job[j].at = "waiting"  BY DEF Init, Fresh
<1> QED  BY <1>2, <1>3 DEF Init, RiskInv, RisksExplained, ReadExplained, TriggerExplained,
                             IncidentsExplained

\* The counters of the history that no step but UpdateProfile touches.
LEMMA CountsStay ==
  ASSUME CountsOK, UNCHANGED <<incidents, confirms, history>>
  PROVE  CountsOK'
  BY DEF CountsOK, history

LEMMA StartStep ==
  ASSUME RiskInv, NEW j \in Jobs, Start(j)
  PROVE  RiskInv'
<1> DEFINE to == Fresh("load", job[j].stalls)
<1>1. job[j] \in Job /\ job \in [Jobs -> Job]  BY DEF RiskInv, TypeOK, JobOK
<1>2. to \in Job /\ to.log \in DOMAIN LogsOf[j]  BY <1>1, FreshType DEF Job, Steps
<1>3. job' = [job EXCEPT ![j] = to]  BY DEF Start
<1>4. TypeOK'
  BY <1>2, <1>3, JobSet, CountsStay DEF Start, RiskInv, TypeOK, ProfileOK
<1>5. job'[j].at = "load"  BY <1>1, <1>3 DEF Fresh
<1> QED  BY <1>1, <1>3, <1>4, <1>5, OneMovesOn DEF Start

\* A job is done with its log: the request failed, or it was the last one.
LEMMA AfterStep ==
  ASSUME RiskInv, NEW j \in Jobs, job' = [job EXCEPT ![j] = After(j)],
         UNCHANGED <<profile, incidents, history>>, CountsOK'
  PROVE  RiskInv'
<1>1. job \in [Jobs -> Job]  BY DEF RiskInv, TypeOK, JobOK
<1>2. /\ After(j) \in Job /\ After(j).log \in DOMAIN LogsOf[j]
      /\ After(j).at \in {"done", "load"}
  BY AfterType DEF RiskInv
<1>3. TypeOK'  BY <1>2, JobSet DEF RiskInv, TypeOK, ProfileOK
<1>4. job'[j].at \in {"done", "load"}  BY <1>1, <1>2
<1> QED  BY <1>1, <1>3, <1>4, OneMovesOn

\* A job reads a row.
LEMMA ReadStep ==
  ASSUME RiskInv, NEW j \in Jobs, NEW row \in Profile, Read(j, row),
         UNCHANGED <<incidents, confirms, history>>,
         ProfileOK', RowsGrow, RisksExplained', profile'[UserOf(j)] = row
  PROVE  RiskInv'
<1>1. job \in [Jobs -> Job]  BY DEF RiskInv, TypeOK, JobOK
<1>2. PICK event \in Events(row.built) :
        LET to == [job[j] EXCEPT !.at = "update", !.before = row.risk,
                                 !.built = row.built, !.event = event]
        IN  /\ to \in Job /\ to.log = job[j].log
            /\ job' = [job EXCEPT ![j] = to]
  BY ReadType DEF RiskInv
<1> DEFINE to == [job[j] EXCEPT !.at = "update", !.before = row.risk,
                                !.built = row.built, !.event = event]
<1>3. to \in Job /\ to.log = job[j].log /\ job' = [job EXCEPT ![j] = to]  BY <1>2
<1>4. /\ to.at = "update" /\ to.before = row.risk /\ to.built = row.built
      /\ to.event = event
  BY <1>1 DEF Job
<1> HIDE DEF to
<1>5. to.log \in DOMAIN LogsOf[j]  BY <1>3 DEF RiskInv, TypeOK, JobOK
<1>6. TypeOK'  BY <1>3, <1>5, JobSet, CountsStay DEF RiskInv, TypeOK
<1>7. UserOf(j)' = UserOf(j) /\ UserOf(j) \in Users
  BY <1>1, <1>3, UserOfType DEF RiskInv, UserOf
<1>8. row.risk \in 0 .. 100 /\ row.built \in BOOLEAN /\ row.anomalies \in Nat  BY DEF Profile
<1>9. row # None /\ Explains(row.risk, row)
  BY <1>7, ProfileIsNotNone DEF RisksExplained
<1>10. event \in 0 .. 100 /\ (~row.built => event <= 65)  BY <1>8, EventRange
<1>11. ReadExplained(j)'
  BY <1>1, <1>3, <1>4, <1>7, <1>8, <1>9, <1>10 DEF ReadExplained, Row, Explains
<1>12. TriggerExplained(j)'  BY <1>1, <1>3, <1>4 DEF TriggerExplained
<1> QED  BY <1>1, <1>3, <1>6, <1>11, <1>12, OneMoves

LEMMA LoadStep ==
  ASSUME RiskInv, NEW j \in Jobs, Load(j)
  PROVE  RiskInv'
<1>1. UserOf(j) \in Users  BY UserOfType DEF RiskInv
<1>2. job \in [Jobs -> Job] /\ job[j].log \in DOMAIN LogsOf[j]  BY DEF RiskInv, TypeOK, JobOK
<1>3. CASE profile[UserOf(j)] = None
  <2> DEFINE to == [job[j] EXCEPT !.at = "create"]
  <2>1. to \in Job /\ to.log = job[j].log /\ to.at = "create"  BY <1>2 DEF Job, Steps
  <2>2. job' = [job EXCEPT ![j] = to]  BY <1>3 DEF Load
  <2> HIDE DEF to
  <2>3. TypeOK'
    BY <1>2, <2>1, <2>2, JobSet, CountsStay DEF Load, RiskInv, TypeOK, ProfileOK
  <2> QED  BY <1>2, <2>1, <2>2, <2>3, OneMovesOn DEF Load
<1>4. CASE profile[UserOf(j)] # None
  <2>1. profile[UserOf(j)] \in Profile  BY <1>1, <1>4 DEF RiskInv, TypeOK, ProfileOK
  <2>2. Read(j, profile[UserOf(j)]) /\ UNCHANGED <<profile, incidents, confirms, history>>
    BY <1>4 DEF Load
  <2>3. RowsGrow  BY <2>2 DEF RiskInv, TypeOK, ProfileOK, Profile, RowsGrow
  <2>4. ProfileOK' /\ RisksExplained'  BY <2>2 DEF RiskInv, TypeOK, ProfileOK, RisksExplained
  <2> QED  BY <2>1, <2>2, <2>3, <2>4, ReadStep
<1> QED  BY <1>3, <1>4

LEMMA CreateProfileStep ==
  ASSUME RiskInv, NEW j \in Jobs, CreateProfile(j)
  PROVE  RiskInv'
<1> DEFINE row == ColdStart(FALSE)
<1>1. UserOf(j) \in Users /\ row \in Profile  BY UserOfType, ColdStartType DEF RiskInv
<1>2. profile \in [Users -> Profile \cup {None}]  BY DEF RiskInv, TypeOK, ProfileOK
<1>3. /\ profile[UserOf(j)] = None /\ profile' = [profile EXCEPT ![UserOf(j)] = row]
      /\ Read(j, row) /\ UNCHANGED <<incidents, confirms, history>>
  BY DEF CreateProfile
<1>4. Explains(row.risk, row)  BY DEF Explains, ColdStart, ColdRisk
<1> HIDE DEF row
<1>5. ProfileOK' /\ profile'[UserOf(j)] = row  BY <1>1, <1>2, <1>3 DEF ProfileOK
<1>6. RowsGrow  BY <1>1, <1>2, <1>3 DEF RowsGrow, Profile
<1>7. RisksExplained'  BY <1>1, <1>2, <1>3, <1>4 DEF RiskInv, RisksExplained
<1> QED  BY <1>1, <1>3, <1>5, <1>6, <1>7, ReadStep

LEMMA OverwrittenType ==
  ASSUME NEW row \in Profile, NEW after \in 0 .. 100, NEW event,
         Suspicious(event) => row.anomalies < MaxAnomalies
  PROVE  /\ Overwritten(row, after, event) \in Profile
         /\ Overwritten(row, after, event).anomalies
              = IF Suspicious(event) THEN row.anomalies + 1 ELSE row.anomalies
<1> DEFINE n == IF Suspicious(event) THEN row.anomalies + 1 ELSE row.anomalies
<1>1. n \in 0 .. MaxAnomalies  BY ScoringConstants DEF Profile
<1> HIDE DEF n
<1>2. Overwritten(row, after, event) = [row EXCEPT !.risk = after, !.anomalies = n]
  BY DEF Overwritten, n
<1>3. [row EXCEPT !.risk = after, !.anomalies = n] \in Profile  BY <1>1 DEF Profile
<1>4. [row EXCEPT !.risk = after, !.anomalies = n].anomalies = n  BY DEF Profile
<1> QED  BY <1>2, <1>3, <1>4 DEF n

\* The risk that is written is explained by the row it is written to, although it was
\* computed from an older one.
LEMMA UpdateExplains ==
  ASSUME NEW row \in Profile, NEW before \in 0 .. 100, NEW event \in 0 .. 100,
         NEW built \in BOOLEAN, NEW after \in Ema(event, before),
         Explains(before, row), built => row.built,
         ~built => before <= 64 /\ event <= 65,
         Suspicious(event) => row.anomalies < MaxAnomalies
  PROVE  LET to == Overwritten(row, after, event)
         IN  /\ to \in Profile /\ to.risk = after
             /\ to.built = row.built /\ to.anomalies >= row.anomalies
             /\ Explains(after, to)
             /\ after >= SOAR_THRESHOLD => to.built /\ to.anomalies >= 2
<1> DEFINE n == IF Suspicious(event) THEN row.anomalies + 1 ELSE row.anomalies
           to == Overwritten(row, after, event)
<1>1. /\ row.anomalies \in 0 .. MaxAnomalies /\ row.built \in BOOLEAN
      /\ row.risk \in 0 .. 100 /\ MaxAnomalies \in Nat
  BY ScoringConstants DEF Profile
<1>2. n \in 0 .. MaxAnomalies /\ n >= row.anomalies  BY <1>1 DEF Suspicious
<1>3. /\ after \in 0 .. 100
      /\ event <= 65 /\ before <= 64 => after <= 64
      /\ event <= 50 /\ before <= 51 => after <= 51
      /\ before <= 51 => after <= 66
      /\ event <= 50 /\ before <= 66 => after <= 66
  BY EmaRange
<1>4. to \in Profile /\ to.risk = after /\ to.built = row.built /\ to.anomalies = n
  BY <1>1, <1>2, <1>3 DEF Overwritten, Profile
<1>5. after > 64 => row.built
  BY <1>3 DEF Explains
<1>6. after > 51 => n >= 1
  BY <1>1, <1>3 DEF Explains, Suspicious
<1>7. after > 66 => n >= 2
  BY <1>1, <1>3 DEF Explains, Suspicious
<1> HIDE DEF n, to
<1>8. Explains(after, to)  BY <1>4, <1>5, <1>6, <1>7 DEF Explains
<1>9. after >= SOAR_THRESHOLD => to.built /\ to.anomalies >= 2
  BY <1>3, <1>4, <1>5, <1>7 DEF SOAR_THRESHOLD
<1> QED  BY <1>2, <1>4, <1>8, <1>9 DEF to

LEMMA CreateIncidentStep ==
  ASSUME RiskInv, NEW j \in Jobs, CreateIncident(j)
  PROVE  RiskInv'
<1> DEFINE to == [job[j] EXCEPT !.at = "execute"]
<1>1. UserOf(j) \in Users  BY UserOfType DEF RiskInv
<1>2. job \in [Jobs -> Job] /\ job[j].log \in DOMAIN LogsOf[j]  BY DEF RiskInv, TypeOK, JobOK
<1>3. to \in Job /\ to.log = job[j].log /\ to.at = "execute"  BY <1>2 DEF Job, Steps
<1>4. job' = [job EXCEPT ![j] = to]  BY DEF CreateIncident
<1> HIDE DEF to
<1>5. incidents \in [Users -> Nat]  BY DEF RiskInv, TypeOK, CountsOK
<1>6. incidents' = [incidents EXCEPT ![UserOf(j)] = @ + 1]  BY DEF CreateIncident
<1>7. CountsOK'  BY <1>1, <1>5, <1>6 DEF CreateIncident, RiskInv, TypeOK, CountsOK, history
<1>8. TypeOK'  BY <1>2, <1>3, <1>4, <1>7, JobSet DEF CreateIncident, RiskInv, TypeOK, ProfileOK
<1>9. RowsGrow  BY DEF CreateIncident, RiskInv, TypeOK, ProfileOK, Profile, RowsGrow
<1>10. Disabling(Row(j))  BY DEF CreateIncident, RiskInv, TriggerExplained
<1>11. UserOf(j)' = UserOf(j)  BY <1>2, <1>3, <1>4 DEF UserOf
<1>12. ReadExplained(j)' /\ TriggerExplained(j)'
  BY <1>2, <1>3, <1>4, <1>10, <1>11 DEF CreateIncident, ReadExplained, TriggerExplained, Row
<1>13. \A i \in Jobs : ReadExplained(i)' /\ TriggerExplained(i)'
  <2> SUFFICES ASSUME NEW i \in Jobs, i # j PROVE ReadExplained(i)' /\ TriggerExplained(i)'
    BY <1>12
  <2> QED  BY <1>2, <1>4, <1>8, <1>9, OthersStay
<1>14. IncidentsExplained'
  <2> SUFFICES ASSUME NEW u \in Users, incidents'[u] > 0 PROVE Disabling(profile[u])
    BY DEF CreateIncident, IncidentsExplained
  <2>1. CASE u = UserOf(j)  BY <1>10, <2>1 DEF Row
  <2>2. CASE u # UserOf(j)  BY <1>5, <1>6, <2>2 DEF RiskInv, IncidentsExplained
  <2> QED  BY <2>1, <2>2
<1>15. RisksExplained'  BY DEF CreateIncident, RiskInv, RisksExplained
<1> QED  BY <1>8, <1>13, <1>14, <1>15 DEF RiskInv

LEMMA UpdateProfileStep ==
  ASSUME RiskInv, NEW j \in Jobs, UpdateProfile(j)
  PROVE  RiskInv'
<1> DEFINE u == UserOf(j)
<1>1. u \in Users  BY UserOfType DEF RiskInv
<1>2. job \in [Jobs -> Job] /\ job[j].log \in DOMAIN LogsOf[j]  BY DEF RiskInv, TypeOK, JobOK
<1>3. profile \in [Users -> Profile \cup {None}]  BY DEF RiskInv, TypeOK, ProfileOK
<1>4. PICK after \in Ema(job[j].event, job[j].before) :
        /\ profile' = [profile EXCEPT ![u] = Overwritten(@, after, job[j].event)]
        /\ Written(j, after)
  BY DEF UpdateProfile
<1>5. job[j].at = "update" /\ Countable(j)  BY DEF UpdateProfile
<1>6. /\ profile[u] # None /\ Explains(job[j].before, profile[u])
      /\ job[j].built => profile[u].built
      /\ ~job[j].built => job[j].before <= 64 /\ job[j].event <= 65
  BY <1>5 DEF RiskInv, ReadExplained, Row
<1> DEFINE to == Overwritten(profile[u], after, job[j].event)
<1>7. profile[u] \in Profile  BY <1>1, <1>3, <1>6
<1>8. /\ to \in Profile /\ to.risk = after
      /\ to.built = profile[u].built /\ to.anomalies >= profile[u].anomalies
      /\ Explains(after, to)
      /\ after >= SOAR_THRESHOLD => to.built /\ to.anomalies >= 2
  <2>1. job[j].before \in 0 .. 100 /\ job[j].event \in 0 .. 100 /\ job[j].built \in BOOLEAN
    BY <1>2 DEF Job
  <2>2. Suspicious(job[j].event) => profile[u].anomalies < MaxAnomalies
    BY <1>5 DEF Countable
  <2> QED  BY <1>6, <1>7, <2>1, <2>2, UpdateExplains
<1>9. profile' = [profile EXCEPT ![u] = to]  BY <1>4
<1> HIDE DEF to
<1>10. ProfileOK'  BY <1>1, <1>3, <1>8, <1>9 DEF ProfileOK
<1>11. to # None  BY <1>8, ProfileIsNotNone
<1>12. RowsGrow
  <2> SUFFICES ASSUME NEW v \in Users, profile[v] # None
               PROVE  /\ profile'[v] # None
                      /\ profile[v].built => profile'[v].built
                      /\ profile'[v].anomalies >= profile[v].anomalies
    BY DEF RowsGrow
  <2>1. CASE v = u  BY <1>1, <1>3, <1>8, <1>9, <1>11, <2>1
  <2>2. CASE v # u
    <3>1. profile'[v] = profile[v] /\ profile[v].anomalies \in Nat
      BY <1>3, <1>9, <2>2 DEF Profile
    <3> QED  BY <3>1
  <2> QED  BY <2>1, <2>2
<1>13. RisksExplained'
  BY <1>1, <1>3, <1>8, <1>9 DEF RiskInv, RisksExplained
<1> DEFINE moved == IF after >= SOAR_THRESHOLD THEN [job[j] EXCEPT !.at = "incident"]
                    ELSE After(j)
<1>14. /\ moved \in Job /\ moved.log \in DOMAIN LogsOf[j]
       /\ moved.at \in {"incident", "done", "load"}
       /\ moved.at = "incident" => after >= SOAR_THRESHOLD /\ moved.log = job[j].log
  <2>1. CASE after >= SOAR_THRESHOLD
    <3>1. /\ [job[j] EXCEPT !.at = "incident"] \in Job
          /\ [job[j] EXCEPT !.at = "incident"].log = job[j].log
          /\ [job[j] EXCEPT !.at = "incident"].at = "incident"
      BY <1>2 DEF Job, Steps
    <3> QED  BY <1>2, <2>1, <3>1
  <2>2. CASE ~(after >= SOAR_THRESHOLD)
    BY <2>2, AfterType DEF RiskInv
  <2> QED  BY <2>1, <2>2
<1>15. job' = [job EXCEPT ![j] = moved]  BY <1>4 DEF Written
<1> HIDE DEF moved
<1>16. CountsOK'
  <2>1. CountsOK  BY DEF RiskInv, TypeOK
  <2>2. <<j, job[j].log>> \in Slots  BY <1>2 DEF Slots
  <2>3. applied' \in [Slots -> Nat]  BY <1>4, <2>1, <2>2 DEF Written, CountsOK
  <2>4. suspicious' \in [Users -> Nat]  BY <1>1, <1>4, <2>1 DEF Written, CountsOK
  <2> QED  BY <1>4, <2>1, <2>3, <2>4 DEF Written, CountsOK
<1>17. TypeOK'  BY <1>10, <1>14, <1>15, <1>16, JobSet DEF RiskInv, TypeOK
<1>18. ReadExplained(j)'  BY <1>2, <1>14, <1>15 DEF ReadExplained
<1>19. TriggerExplained(j)'
  <2> SUFFICES ASSUME moved.at = "incident" PROVE Disabling(Row(j)')
    BY <1>2, <1>14, <1>15 DEF TriggerExplained
  <2>1. Row(j)' = to  BY <1>1, <1>2, <1>3, <1>9, <1>14, <1>15 DEF Row, UserOf
  <2> QED  BY <1>8, <1>11, <1>14, <2>1 DEF Disabling
<1>20. \A i \in Jobs \ {j} : job'[i] = job[i]  BY <1>2, <1>15
<1> QED  BY <1>4, <1>12, <1>13, <1>17, <1>18, <1>19, <1>20, OneMoves DEF Written

LEMMA RebuildStep ==
  ASSUME RiskInv, NEW u \in Users, Rebuild(u)
  PROVE  RiskInv'
<1> DEFINE row == IF profile[u] = None THEN ColdStart(TRUE) ELSE [profile[u] EXCEPT !.built = TRUE]
<1>1. profile \in [Users -> Profile \cup {None}]  BY DEF RiskInv, TypeOK, ProfileOK
<1>2. profile' = [profile EXCEPT ![u] = row] /\ UNCHANGED <<job, incidents, confirms, history>>
  BY DEF Rebuild
<1>3. row \in Profile /\ row.built
  <2>1. CASE profile[u] = None  BY <2>1, ColdStartType DEF ColdStart
  <2>2. CASE profile[u] # None
    <3>1. profile[u] \in Profile  BY <1>1, <2>2
    <3>2. /\ [profile[u] EXCEPT !.built = TRUE] \in Profile
          /\ [profile[u] EXCEPT !.built = TRUE].built
      BY <3>1 DEF Profile
    <3> QED  BY <2>2, <3>2
  <2> QED  BY <2>1, <2>2
<1>4. profile[u] # None => row.risk = profile[u].risk /\ row.anomalies = profile[u].anomalies
  BY <1>1 DEF Profile
<1>5. profile[u] = None => row.risk = ColdRisk
  BY DEF ColdStart
<1> HIDE DEF row
<1>6. Explains(row.risk, row)
  <2>1. CASE profile[u] = None  BY <1>3, <1>5, <2>1 DEF Explains, ColdRisk
  <2>2. CASE profile[u] # None
    BY <1>3, <1>4, <2>2 DEF RiskInv, RisksExplained, Explains
  <2> QED  BY <2>1, <2>2
<1>7. row # None  BY <1>3, ProfileIsNotNone
<1>8. TypeOK'
  BY <1>1, <1>2, <1>3, CountsStay DEF RiskInv, TypeOK, ProfileOK, JobOK
<1>9. RowsGrow
  <2> SUFFICES ASSUME NEW v \in Users, profile[v] # None
               PROVE  /\ profile'[v] # None
                      /\ profile[v].built => profile'[v].built
                      /\ profile'[v].anomalies >= profile[v].anomalies
    BY DEF RowsGrow
  <2>1. profile[v].anomalies \in Nat  BY <1>1 DEF Profile
  <2>2. CASE v = u  BY <1>1, <1>2, <1>3, <1>4, <1>7, <2>1, <2>2
  <2>3. CASE v # u  BY <1>1, <1>2, <2>1, <2>3
  <2> QED  BY <2>2, <2>3
<1>10. RisksExplained'  BY <1>1, <1>2, <1>6 DEF RiskInv, RisksExplained
<1>11. \A i \in Jobs : ReadExplained(i)' /\ TriggerExplained(i)'
  BY <1>2, <1>8, <1>9, OthersStay
<1>12. IncidentsExplained'  BY <1>2, <1>8, <1>9, OldIncidentsStay
<1> QED  BY <1>8, <1>10, <1>11, <1>12 DEF RiskInv

LEMMA RestartStep ==
  ASSUME RiskInv, Restart
  PROVE  RiskInv'
<1>1. job \in [Jobs -> Job]  BY DEF RiskInv, TypeOK, JobOK
<1>2. UNCHANGED <<profile, incidents, confirms, history>>  BY DEF Restart
<1>3. ASSUME NEW j \in Jobs
      PROVE  /\ job'[j] \in Job /\ job'[j].log \in DOMAIN LogsOf[j]
             /\ job'[j] = job[j] \/ job'[j].at \in {"failed", "waiting"}
  <2>1. job[j] \in Job /\ job[j].log \in DOMAIN LogsOf[j]  BY DEF RiskInv, TypeOK, JobOK
  <2>2. CASE j \notin Active  BY <2>1, <2>2 DEF Restart
  <2>3. CASE j \in Active /\ job[j].stalls = MaxStalls
    <3>1. job'[j] = [job[j] EXCEPT !.at = "failed"]  BY <2>3 DEF Restart
    <3> QED  BY <2>1, <3>1 DEF Job, Ended
  <2>4. CASE j \in Active /\ job[j].stalls # MaxStalls
    <3>1. job'[j] = Fresh("waiting", job[j].stalls + 1)  BY <2>4 DEF Restart
    <3>2. job[j].stalls + 1 \in 0 .. MaxStalls  BY <2>1, <2>4 DEF Job, MaxStalls
    <3>3. job'[j].at = "waiting"  BY <3>1 DEF Fresh
    <3> QED  BY <3>1, <3>2, <3>3, FreshType
  <2> QED  BY <2>2, <2>3, <2>4
<1>4. JobOK'
  <2>1. DOMAIN job' = Jobs /\ job' = [j \in Jobs |-> job'[j]]  BY DEF Restart
  <2> QED  BY <1>3, <2>1 DEF JobOK
<1>5. TypeOK'  BY <1>2, <1>4, CountsStay DEF RiskInv, TypeOK, ProfileOK
<1>6. RowsGrow  BY <1>2 DEF RiskInv, TypeOK, ProfileOK, Profile, RowsGrow
<1>7. ASSUME NEW j \in Jobs PROVE ReadExplained(j)' /\ TriggerExplained(j)'
  <2>1. CASE job'[j] = job[j]  BY <1>5, <1>6, <2>1, OthersStay
  <2>2. CASE job'[j].at \in {"failed", "waiting"}
    BY <2>2 DEF ReadExplained, TriggerExplained
  <2> QED  BY <1>3, <2>1, <2>2
<1>8. IncidentsExplained'  BY <1>2, <1>5, <1>6, OldIncidentsStay
<1>9. RisksExplained'  BY <1>2 DEF RiskInv, RisksExplained
<1> QED  BY <1>5, <1>7, <1>8, <1>9 DEF RiskInv

LEMMA RiskStep ==
  ASSUME RiskInv, [Next]_vars
  PROVE  RiskInv'
<1>1. ASSUME NEW j \in Jobs, Continue(j) \/ Fails(j) PROVE RiskInv'
  <2>1. CASE Start(j)  BY <2>1, StartStep
  <2>2. CASE Load(j)  BY <2>2, LoadStep
  <2>3. CASE CreateProfile(j)  BY <2>3, CreateProfileStep
  <2>4. CASE CreateConflict(j)
    BY <2>4, AfterStep, CountsStay DEF CreateConflict, RiskInv, TypeOK
  <2>5. CASE UpdateProfile(j)  BY <2>5, UpdateProfileStep
  <2>6. CASE UpdateOverflows(j)
    BY <2>6, AfterStep, CountsStay DEF UpdateOverflows, RiskInv, TypeOK
  <2>7. CASE CreateIncident(j)  BY <2>7, CreateIncidentStep
  <2>8. CASE ExecutePlaybook(j)
    <3>1. UserOf(j) \in Users  BY UserOfType DEF RiskInv
    <3>2. CountsOK'  BY <2>8, <3>1 DEF ExecutePlaybook, RiskInv, TypeOK, CountsOK, history
    <3> QED  BY <2>8, <3>2, AfterStep DEF ExecutePlaybook
  <2>9. CASE Fails(j)
    BY <2>9, AfterStep, CountsStay DEF Fails, RiskInv, TypeOK
  <2> QED  BY <1>1, <2>1, <2>2, <2>3, <2>4, <2>5, <2>6, <2>7, <2>8, <2>9 DEF Continue
<1>2. ASSUME NEW u \in Users, Rebuild(u) PROVE RiskInv'  BY <1>2, RebuildStep
<1>3. CASE Restart  BY <1>3, RestartStep
<1>4. CASE UNCHANGED vars
  BY <1>4 DEF vars, history, RiskInv, TypeOK, ProfileOK, JobOK, CountsOK, RisksExplained,
              ReadExplained, TriggerExplained, IncidentsExplained, Row, UserOf
<1> QED  BY <1>1, <1>2, <1>3, <1>4 DEF Next

-----------------------------------------------------------------------------
(* What is counted. *)

\* The job is beyond its k-th log, or has written the risk for it.
Passed(j, k) ==
  \/ job[j].at \in Ended
  \/ k < job[j].log
  \/ k = job[j].log /\ job[j].at \in {"incident", "execute"}

\* Each restart of a job may write the risks of its logs once more.
AppliedOnce(j) ==
  /\ job[j].at = "waiting" => job[j].log = 1
  /\ \A k \in DOMAIN LogsOf[j] :
       /\ applied[<<j, k>>] <= job[j].stalls + 1
       /\ ~Passed(j, k) => applied[<<j, k>>] <= job[j].stalls

CountInv == RiskInv /\ AnomaliesCounted /\ \A j \in Jobs : AppliedOnce(j)

\* A job that has passed a log after a step with the same history still has.
LEMMA AppliedStays ==
  ASSUME NEW j \in Jobs, AppliedOnce(j), UNCHANGED applied,
         job'[j].stalls = job[j].stalls, job'[j].at = "waiting" => job'[j].log = 1,
         \A k \in DOMAIN LogsOf[j] : Passed(j, k) => Passed(j, k)'
  PROVE  AppliedOnce(j)'
  BY DEF AppliedOnce

\* A job that goes on with its next log passes this one.
LEMMA AfterPasses ==
  ASSUME RiskInv, NEW j \in Jobs, job'[j] = After(j)
  PROVE  /\ job'[j].stalls = job[j].stalls /\ job'[j].at # "waiting"
         /\ \A k \in DOMAIN LogsOf[j] :
              (Passed(j, k) \/ k = job[j].log) /\ job[j].at \notin Ended => Passed(j, k)'
<1>1. job[j] \in Job /\ After(j).stalls = job[j].stalls /\ After(j).at \in {"done", "load"}
  BY AfterType DEF RiskInv, TypeOK, JobOK
<1>2. LogsOf[j] \in Seq(Users)  BY ScoringConstants
<1>3. CASE job[j].log = Len(LogsOf[j])
  <2>1. job'[j].at = "done"  BY <1>1, <1>3 DEF After, Job
  <2> QED  BY <1>1, <2>1 DEF Passed, Ended
<1>4. CASE job[j].log # Len(LogsOf[j])
  <2>1. job'[j] = [job[j] EXCEPT !.at = "load", !.log = job[j].log + 1]  BY <1>4 DEF After
  <2>2. job'[j].log = job[j].log + 1 /\ job[j].log \in Nat  BY <1>1, <2>1 DEF Job
  <2>3. \A k \in DOMAIN LogsOf[j] : k \in Nat  BY <1>2
  <2> QED  BY <1>1, <2>2, <2>3 DEF Passed, Ended
<1> QED  BY <1>3, <1>4

\* The steps of one job but UpdateProfile leave the history alone.
LEMMA OneAppliedStays ==
  ASSUME CountInv, NEW j \in Jobs, Continue(j) \/ Fails(j), ~UpdateProfile(j)
  PROVE  /\ UNCHANGED history /\ \A i \in Jobs \ {j} : job'[i] = job[i]
         /\ AppliedOnce(j)'
<1>1. RiskInv /\ AppliedOnce(j)  BY DEF CountInv
<1>2. job \in [Jobs -> Job] /\ job[j] \in Job  BY <1>1 DEF RiskInv, TypeOK, JobOK
<1>3. ASSUME job[j].at \in Steps, job' = [job EXCEPT ![j] = After(j)], UNCHANGED history
      PROVE  AppliedOnce(j)'
  <2>1. job'[j] = After(j)  BY <1>2, <1>3
  <2>2. job[j].at \notin Ended  BY <1>3 DEF Steps, Ended
  <2>3. UNCHANGED applied  BY <1>3 DEF history
  <2> QED  BY <1>1, <2>1, <2>2, <2>3, AfterPasses, AppliedStays
<1>4. CASE Start(j)
  <2>1. job' = [job EXCEPT ![j] = Fresh("load", job[j].stalls)] /\ UNCHANGED history
    BY <1>4 DEF Start
  <2>2. /\ job'[j].at = "load" /\ job'[j].log = 1 /\ job'[j].stalls = job[j].stalls
        /\ job[j].at = "waiting" /\ job[j].log = 1
    BY <1>1, <1>2, <1>4, <2>1 DEF Start, Fresh, AppliedOnce
  <2>3. \A k \in DOMAIN LogsOf[j] : Passed(j, k) => Passed(j, k)'
    BY <2>2 DEF Passed, Ended
  <2> QED  BY <1>1, <1>2, <2>1, <2>2, <2>3, AppliedStays DEF history
<1>5. CASE Load(j) \/ CreateProfile(j) \/ CreateIncident(j)
  <2>1. UNCHANGED history  BY <1>5 DEF Load, CreateProfile, CreateIncident
  <2>2. /\ \A i \in Jobs \ {j} : job'[i] = job[i]
        /\ job'[j].log = job[j].log /\ job'[j].stalls = job[j].stalls
        /\ \/ job[j].at \in {"load", "create"} /\ job'[j].at \in {"create", "update"}
           \/ job[j].at = "incident" /\ job'[j].at = "execute"
    <3>1. ASSUME NEW row, Read(j, row)
          PROVE  /\ \A i \in Jobs \ {j} : job'[i] = job[i]
                 /\ job'[j].log = job[j].log /\ job'[j].stalls = job[j].stalls
                 /\ job'[j].at = "update"
      BY <1>2, <3>1 DEF Read, Job
    <3>2. CASE Load(j) /\ profile[UserOf(j)] = None  BY <1>2, <3>2 DEF Load, Job
    <3>3. CASE Load(j) /\ profile[UserOf(j)] # None  BY <3>1, <3>3 DEF Load
    <3>4. CASE CreateProfile(j)  BY <3>1, <3>4 DEF CreateProfile
    <3>5. CASE CreateIncident(j)  BY <1>2, <3>5 DEF CreateIncident, Job
    <3> QED  BY <1>5, <3>2, <3>3, <3>4, <3>5
  <2>3. \A k \in DOMAIN LogsOf[j] : Passed(j, k) => Passed(j, k)'
    BY <2>2 DEF Passed, Ended
  <2> QED  BY <1>1, <2>1, <2>2, <2>3, AppliedStays DEF history
<1>6. CASE CreateConflict(j) \/ UpdateOverflows(j) \/ ExecutePlaybook(j) \/ Fails(j)
  <2>1. /\ job[j].at \in Steps /\ job' = [job EXCEPT ![j] = After(j)] /\ UNCHANGED history
    BY <1>6 DEF CreateConflict, UpdateOverflows, ExecutePlaybook, Fails, Steps
  <2> QED  BY <1>2, <1>3, <2>1
<1> QED  BY <1>4, <1>5, <1>6 DEF Continue

LEMMA UpdateApplies ==
  ASSUME CountInv, NEW j \in Jobs, UpdateProfile(j)
  PROVE  \A i \in Jobs : AppliedOnce(i)'
<1>1. RiskInv /\ \A i \in Jobs : AppliedOnce(i)  BY DEF CountInv
<1>2. job \in [Jobs -> Job] /\ job[j] \in Job /\ job[j].log \in DOMAIN LogsOf[j]
  BY <1>1 DEF RiskInv, TypeOK, JobOK
<1>3. applied \in [Slots -> Nat]  BY <1>1 DEF RiskInv, TypeOK, CountsOK
<1>4. ASSUME NEW i \in Jobs, NEW k \in DOMAIN LogsOf[i] PROVE <<i, k>> \in Slots
  BY DEF Slots
<1>5. job[j].at = "update"  BY DEF UpdateProfile
<1>6. PICK after \in Ema(job[j].event, job[j].before) : Written(j, after)
  BY DEF UpdateProfile
<1>7. applied' = [applied EXCEPT ![<<j, job[j].log>>] = @ + 1]  BY <1>6 DEF Written
<1>8. \A i \in Jobs \ {j} : job'[i] = job[i]  BY <1>2, <1>6 DEF Written
<1>9. /\ job'[j].stalls = job[j].stalls /\ job'[j].at # "waiting"
      /\ \A k \in DOMAIN LogsOf[j] : Passed(j, k) \/ k = job[j].log => Passed(j, k)'
  <2>1. CASE after >= SOAR_THRESHOLD
    <3>1. job'[j] = [job[j] EXCEPT !.at = "incident"]  BY <1>2, <1>6, <2>1 DEF Written
    <3>2. /\ job'[j].at = "incident" /\ job'[j].log = job[j].log
          /\ job'[j].stalls = job[j].stalls
      BY <1>2, <3>1 DEF Job
    <3> QED  BY <1>5, <3>2 DEF Passed, Ended
  <2>2. CASE ~(after >= SOAR_THRESHOLD)
    <3>1. job'[j] = After(j)  BY <1>2, <1>6, <2>2 DEF Written
    <3>2. job[j].at \notin Ended  BY <1>5 DEF Ended
    <3> QED  BY <1>1, <3>1, <3>2, AfterPasses
  <2> QED  BY <2>1, <2>2
<1>10. AppliedOnce(j)'
  <2> SUFFICES ASSUME NEW k \in DOMAIN LogsOf[j]
               PROVE  /\ applied'[<<j, k>>] <= job[j].stalls + 1
                      /\ ~Passed(j, k)' => applied'[<<j, k>>] <= job[j].stalls
    BY <1>9 DEF AppliedOnce
  <2>1. /\ applied[<<j, k>>] <= job[j].stalls + 1
        /\ ~Passed(j, k) => applied[<<j, k>>] <= job[j].stalls
    BY <1>1 DEF AppliedOnce
  <2>2. CASE k = job[j].log
    <3>1. ~Passed(j, k)  BY <1>2, <1>5, <2>2 DEF Passed, Ended, Job
    <3>2. applied'[<<j, k>>] = applied[<<j, k>>] + 1  BY <1>3, <1>4, <1>7, <2>2
    <3>3. applied[<<j, k>>] \in Nat /\ job[j].stalls \in Nat  BY <1>2, <1>3, <1>4 DEF Job
    <3> QED  BY <1>9, <2>1, <2>2, <3>1, <3>2, <3>3
  <2>3. CASE k # job[j].log
    <3>1. <<j, k>> # <<j, job[j].log>>  BY <2>3
    <3>2. applied'[<<j, k>>] = applied[<<j, k>>]  BY <1>3, <1>4, <1>7, <3>1
    <3> QED  BY <1>9, <2>1, <3>2
  <2> QED  BY <2>2, <2>3
<1>11. ASSUME NEW i \in Jobs, i # j PROVE AppliedOnce(i)'
  <2>1. \A k \in DOMAIN LogsOf[i] : applied'[<<i, k>>] = applied[<<i, k>>]
    <3> SUFFICES ASSUME NEW k \in DOMAIN LogsOf[i]
                 PROVE  applied'[<<i, k>>] = applied[<<i, k>>]
      OBVIOUS
    <3>1. <<i, k>> # <<j, job[j].log>>  BY <1>11
    <3> QED  BY <1>3, <1>4, <1>7, <3>1
  <2>2. job'[i] = job[i]  BY <1>8, <1>11
  <2> QED  BY <1>1, <2>1, <2>2 DEF AppliedOnce, Passed
<1> QED  BY <1>10, <1>11

LEMMA UpdateCounts ==
  ASSUME CountInv, NEW j \in Jobs, UpdateProfile(j)
  PROVE  AnomaliesCounted'
<1> DEFINE u == UserOf(j)
<1>1. RiskInv /\ AnomaliesCounted  BY DEF CountInv
<1>2. u \in Users  BY <1>1, UserOfType DEF RiskInv
<1>3. profile \in [Users -> Profile \cup {None}] /\ suspicious \in [Users -> Nat]
  BY <1>1 DEF RiskInv, TypeOK, ProfileOK, CountsOK
<1>4. profile[u] # None  BY <1>1 DEF UpdateProfile, RiskInv, ReadExplained, Row
<1>5. PICK after \in Ema(job[j].event, job[j].before) :
        /\ profile' = [profile EXCEPT ![u] = Overwritten(@, after, job[j].event)]
        /\ Written(j, after)
  BY DEF UpdateProfile
<1>6. profile' \in [Users -> Profile \cup {None}] /\ profile'[u] # None
  <2>1. TypeOK'  BY <1>1, UpdateProfileStep DEF RiskInv
  <2>2. profile'[u] = Overwritten(profile[u], after, job[j].event)  BY <1>2, <1>3, <1>5
  <2>3. Overwritten(profile[u], after, job[j].event) # None
    <3>1. profile[u] \in Profile  BY <1>2, <1>3, <1>4
    <3>2. Suspicious(job[j].event) => profile[u].anomalies < MaxAnomalies
      BY DEF UpdateProfile, Countable
    <3>3. after \in 0 .. 100  BY DEF Ema
    <3>4. Overwritten(profile[u], after, job[j].event) \in Profile
      BY <3>1, <3>2, <3>3, OverwrittenType
    <3> QED  BY <3>4, ProfileIsNotNone
  <2> QED  BY <2>1, <2>2, <2>3 DEF TypeOK, ProfileOK
<1>7. profile'[u].anomalies = IF Suspicious(job[j].event) THEN profile[u].anomalies + 1
                              ELSE profile[u].anomalies
  <2>1. profile[u] \in Profile  BY <1>2, <1>3, <1>4
  <2>2. profile'[u] = Overwritten(profile[u], after, job[j].event)  BY <1>2, <1>3, <1>5
  <2> QED  BY <2>1, <2>2 DEF Overwritten, Profile
<1>8. suspicious' = IF Suspicious(job[j].event) THEN [suspicious EXCEPT ![u] = @ + 1]
                    ELSE suspicious
  BY <1>5 DEF Written
<1> SUFFICES ASSUME NEW v \in Users
             PROVE  suspicious'[v] = IF profile'[v] = None THEN 0 ELSE profile'[v].anomalies
  BY DEF AnomaliesCounted
<1>9. suspicious[v] = IF profile[v] = None THEN 0 ELSE profile[v].anomalies
  BY <1>1 DEF AnomaliesCounted
<1>10. CASE v = u  BY <1>2, <1>3, <1>4, <1>6, <1>7, <1>8, <1>9, <1>10
<1>11. CASE v # u
  <2>1. profile'[v] = profile[v] /\ suspicious'[v] = suspicious[v]
    BY <1>2, <1>3, <1>5, <1>8, <1>11
  <2> QED  BY <1>9, <2>1
<1> QED  BY <1>10, <1>11

LEMMA InitCountInv == Init => CountInv
<1> SUFFICES ASSUME Init PROVE CountInv  OBVIOUS
<1>1. RiskInv  BY InitRiskInv
<1>2. AnomaliesCounted  BY DEF Init, AnomaliesCounted
<1>3. ASSUME NEW j \in Jobs, NEW k \in DOMAIN LogsOf[j] PROVE applied[<<j, k>>] = 0
  <2>1. <<j, k>> \in Slots  BY DEF Slots
  <2> QED  BY <2>1 DEF Init
<1>4. \A j \in Jobs : job[j].log = 1 /\ job[j].stalls = 0  BY DEF Init, Fresh
<1> QED  BY <1>1, <1>2, <1>3, <1>4 DEF CountInv, AppliedOnce

\* A step that leaves counts and history alone.
LEMMA CountedStays ==
  ASSUME CountInv, UNCHANGED history,
         \A u \in Users : \/ profile'[u] = profile[u]
                          \/ profile[u] = None /\ profile'[u] # None /\ profile'[u].anomalies = 0
                          \/ /\ profile[u] # None /\ profile'[u] # None
                             /\ profile'[u].anomalies = profile[u].anomalies
  PROVE  AnomaliesCounted'
  BY DEF CountInv, AnomaliesCounted, history

LEMMA CountStep ==
  ASSUME CountInv, [Next]_vars
  PROVE  CountInv'
<1>1. RiskInv /\ AnomaliesCounted /\ \A j \in Jobs : AppliedOnce(j)  BY DEF CountInv
<1>2. RiskInv'  BY <1>1, RiskStep
<1>3. profile \in [Users -> Profile \cup {None}] /\ job \in [Jobs -> Job]
  BY <1>1 DEF RiskInv, TypeOK, ProfileOK, JobOK
<1>4. ASSUME NEW j \in Jobs, UpdateProfile(j) PROVE CountInv'
  BY <1>2, <1>4, UpdateApplies, UpdateCounts DEF CountInv
<1>5. ASSUME NEW j \in Jobs, Continue(j) \/ Fails(j), ~UpdateProfile(j) PROVE CountInv'
  <2>1. /\ UNCHANGED history /\ AppliedOnce(j)'
        /\ \A i \in Jobs \ {j} : job'[i] = job[i]
    BY <1>5, OneAppliedStays
  <2>2. \A i \in Jobs : AppliedOnce(i)'
    BY <1>1, <2>1 DEF AppliedOnce, Passed, history
  <2>3. CASE CreateProfile(j)
    <3>1. UserOf(j) \in Users /\ ColdStart(FALSE) \in Profile
      BY <1>1, UserOfType, ColdStartType DEF RiskInv
    <3>2. ColdStart(FALSE).anomalies = 0  BY DEF ColdStart
    <3>3. /\ profile[UserOf(j)] = None
          /\ profile' = [profile EXCEPT ![UserOf(j)] = ColdStart(FALSE)]
      BY <2>3 DEF CreateProfile
    <3>4. AnomaliesCounted'
      BY <1>3, <2>1, <3>1, <3>2, <3>3, ProfileIsNotNone, CountedStays
    <3> QED  BY <1>2, <2>2, <3>4 DEF CountInv
  <2>4. CASE ~CreateProfile(j)
    <3>1. UNCHANGED profile
      BY <1>5, <2>4 DEF Continue, Start, Load, CreateConflict, UpdateOverflows,
                        CreateIncident, ExecutePlaybook, Fails
    <3>2. AnomaliesCounted'  BY <2>1, <3>1, CountedStays
    <3> QED  BY <1>2, <2>2, <3>2 DEF CountInv
  <2> QED  BY <2>3, <2>4
<1>6. ASSUME NEW u \in Users, Rebuild(u) PROVE CountInv'
  <2>1. UNCHANGED <<job, history>>  BY <1>6 DEF Rebuild
  <2>2. \A i \in Jobs : AppliedOnce(i)'  BY <1>1, <2>1 DEF AppliedOnce, Passed, history
  <2>3. CASE profile[u] = None
    <3>1. profile' = [profile EXCEPT ![u] = ColdStart(TRUE)]  BY <1>6, <2>3 DEF Rebuild
    <3>2. ColdStart(TRUE) # None /\ ColdStart(TRUE).anomalies = 0
      BY ColdStartType, ProfileIsNotNone DEF ColdStart
    <3>3. AnomaliesCounted'  BY <1>3, <2>1, <2>3, <3>1, <3>2, CountedStays
    <3> QED  BY <1>2, <2>2, <3>3 DEF CountInv
  <2>4. CASE profile[u] # None
    <3> DEFINE row == [profile[u] EXCEPT !.built = TRUE]
    <3>1. profile' = [profile EXCEPT ![u] = row]  BY <1>6, <2>4 DEF Rebuild
    <3>2. profile[u] \in Profile  BY <1>3, <2>4
    <3>3. row \in Profile /\ row.anomalies = profile[u].anomalies  BY <3>2 DEF Profile
    <3> HIDE DEF row
    <3>4. AnomaliesCounted'
      BY <1>3, <2>1, <2>4, <3>1, <3>3, ProfileIsNotNone, CountedStays
    <3> QED  BY <1>2, <2>2, <3>4 DEF CountInv
  <2> QED  BY <2>3, <2>4
<1>7. CASE Restart
  <2>1. UNCHANGED <<profile, history>>  BY <1>7 DEF Restart
  <2>2. AnomaliesCounted'  BY <2>1, CountedStays
  <2>3. ASSUME NEW j \in Jobs PROVE AppliedOnce(j)'
    <3>1. \A k \in DOMAIN LogsOf[j] : applied[<<j, k>>] \in Nat
      <4> SUFFICES ASSUME NEW k \in DOMAIN LogsOf[j] PROVE applied[<<j, k>>] \in Nat
        OBVIOUS
      <4>1. <<j, k>> \in Slots  BY DEF Slots
      <4> QED  BY <1>1, <4>1 DEF RiskInv, TypeOK, CountsOK
    <3>2. job[j] \in Job /\ job[j].stalls \in Nat  BY <1>3 DEF Job
    <3>3. CASE j \notin Active
      <4>1. job'[j] = job[j]  BY <1>7, <3>3 DEF Restart
      <4> QED  BY <1>1, <2>1, <4>1 DEF AppliedOnce, Passed, history
    <3>4. CASE j \in Active /\ job[j].stalls = MaxStalls
      <4>1. job'[j] = [job[j] EXCEPT !.at = "failed"]  BY <1>7, <3>4 DEF Restart
      <4>2. job'[j].at = "failed" /\ job'[j].stalls = job[j].stalls  BY <3>2, <4>1 DEF Job
      <4> QED  BY <1>1, <2>1, <4>2 DEF AppliedOnce, Passed, Ended, history
    <3>5. CASE j \in Active /\ job[j].stalls # MaxStalls
      <4>1. job'[j] = Fresh("waiting", job[j].stalls + 1)  BY <1>7, <3>5 DEF Restart
      <4>2. job'[j].log = 1 /\ job'[j].stalls = job[j].stalls + 1  BY <4>1 DEF Fresh
      <4> QED  BY <1>1, <2>1, <3>1, <3>2, <4>2 DEF AppliedOnce, history
    <3> QED  BY <3>3, <3>4, <3>5
  <2> QED  BY <1>2, <2>2, <2>3 DEF CountInv
<1>8. CASE UNCHANGED vars
  <2>1. UNCHANGED <<profile, job, history>>  BY <1>8 DEF vars
  <2>2. AnomaliesCounted'  BY <2>1, CountedStays
  <2>3. \A i \in Jobs : AppliedOnce(i)'  BY <1>1, <2>1 DEF AppliedOnce, Passed, history
  <2> QED  BY <1>2, <2>2, <2>3 DEF CountInv
<1> QED  BY <1>4, <1>5, <1>6, <1>7, <1>8 DEF Next

LEMMA AlwaysCountInv == Spec => []CountInv
<1>1. Init => CountInv  BY InitCountInv
<1>2. CountInv /\ [Next]_vars => CountInv'  BY CountStep
<1> QED  BY <1>1, <1>2, PTL DEF Spec

-----------------------------------------------------------------------------
(* Theorems. *)

\* Every risk stays between 0 and 100 and every job at one of its logs, for all users,
\* jobs and batches: what the columns of ueba_profiles can hold.
THEOREM ScoringTypes == Spec => []TypeOK
<1>1. CountInv => TypeOK  BY DEF CountInv, RiskInv
<1> QED  BY <1>1, AlwaysCountInv, PTL

\* triggerSoar is never reached on the default baseline, in whatever order concurrent
\* jobs overwrite the risk: a risk above 64 was computed from a built one.
THEOREM NoTriggerWithoutBaseline == Spec => []TriggerNeedsBaseline
<1>1. CountInv => TriggerNeedsBaseline
  BY DEF CountInv, RiskInv, IncidentsExplained, Disabling, TriggerNeedsBaseline
<1> QED  BY <1>1, AlwaysCountInv, PTL

\* ... nor on a single suspicious event: one takes the risk to 66 at most.
THEOREM NoTriggerOnOneAnomaly == Spec => []TriggerNeedsTwoAnomalies
<1>1. CountInv => TriggerNeedsTwoAnomalies
  BY DEF CountInv, RiskInv, IncidentsExplained, Disabling, TriggerNeedsTwoAnomalies
<1> QED  BY <1>1, AlwaysCountInv, PTL

\* The increments of anomaly_count by concurrent jobs are all there.
THEOREM NoAnomalyIsLost == Spec => []AnomaliesCounted
<1>1. CountInv => AnomaliesCounted  BY DEF CountInv
<1> QED  BY <1>1, AlwaysCountInv, PTL

\* handleScoring swallows its errors, so that only a restart scores a log again.
THEOREM OnlyRestartsRescore == Spec => []ScoredTwiceOnlyByRestart
<1>1. CountInv => ScoredTwiceOnlyByRestart
  <2> SUFFICES ASSUME CountInv, NEW s \in Slots PROVE applied[s] <= 1 + job[s[1]].stalls
    BY DEF ScoredTwiceOnlyByRestart
  <2>1. PICK j \in Jobs : s \in {j} \X DOMAIN LogsOf[j]  BY DEF Slots
  <2>2. s = <<j, s[2]>> /\ s[1] = j /\ s[2] \in DOMAIN LogsOf[j]  BY <2>1
  <2>3. applied[<<j, s[2]>>] <= job[j].stalls + 1  BY <2>2 DEF CountInv, AppliedOnce
  <2>4. job[j].stalls \in Nat  BY DEF CountInv, RiskInv, TypeOK, JobOK, Job
  <2> QED  BY <2>2, <2>3, <2>4
<1> QED  BY <1>1, AlwaysCountInv, PTL
=============================================================================
