------------------------- MODULE PfSenseAgentProofs -------------------------
(***************************************************************************)
(* For every set of callers, write() runs one function at a time and       *)
(* implements the serializer of SerialWrites; on top of it, the safety of  *)
(* the pfSense agent for every set of callers, addresses, rule ids and     *)
(* requests, under every combination of the faults.                        *)
(***************************************************************************)
EXTENDS PfSenseAgent, SequenceTheorems, TLAPS

(* The lock. *)

\* Pushing a closure: who is in the queue afterwards, and that nobody is
\* there twice if the new one was not there.
LEMMA PushedQueue ==
    ASSUME NEW q \in Seq(Callers), NEW c \in Callers,
           \A i, j \in 1..Len(q) : q[i] = q[j] => i = j,
           \A i \in 1..Len(q) : q[i] # c
    PROVE  /\ Append(q, c) \in Seq(Callers)
           /\ \A d \in Callers :
                 (\E i \in 1..Len(Append(q, c)) : Append(q, c)[i] = d)
                    <=> (d = c \/ \E i \in 1..Len(q) : q[i] = d)
           /\ \A i, j \in 1..Len(Append(q, c)) :
                 Append(q, c)[i] = Append(q, c)[j] => i = j
<1>1. /\ Append(q, c) \in Seq(Callers)
      /\ Len(Append(q, c)) = Len(q) + 1
      /\ \A i \in 1..Len(q) : Append(q, c)[i] = q[i]
      /\ Append(q, c)[Len(q) + 1] = c
      /\ Len(q) \in Nat
  OBVIOUS
<1>2. 1..(Len(q) + 1) = 1..Len(q) \cup {Len(q) + 1}
  BY <1>1
<1>3. QED BY <1>1, <1>2

\* Shifting a closure: the head leaves, the others stay, still once each.
LEMMA ShiftedQueue ==
    ASSUME NEW q \in Seq(Callers), q # <<>>,
           \A i, j \in 1..Len(q) : q[i] = q[j] => i = j
    PROVE  /\ Head(q) \in Callers
           /\ Tail(q) \in Seq(Callers)
           /\ \E i \in 1..Len(q) : q[i] = Head(q)
           /\ \A d \in Callers :
                 (\E i \in 1..Len(Tail(q)) : Tail(q)[i] = d)
                    <=> (d # Head(q) /\ \E i \in 1..Len(q) : q[i] = d)
           /\ \A i, j \in 1..Len(Tail(q)) :
                 Tail(q)[i] = Tail(q)[j] => i = j
<1>1. /\ Len(q) \in Nat /\ Len(q) >= 1
      /\ Head(q) = q[1] /\ Head(q) \in Callers
      /\ Tail(q) \in Seq(Callers)
      /\ Len(Tail(q)) = Len(q) - 1
      /\ \A i \in 1..Len(Tail(q)) : Tail(q)[i] = q[i + 1]
  BY EmptySeq, HeadTailProperties
<1>2. \A d \in Callers :
         (\E i \in 1..Len(Tail(q)) : Tail(q)[i] = d)
            <=> (d # Head(q) /\ \E i \in 1..Len(q) : q[i] = d)
  <2>1. SUFFICES ASSUME NEW d \in Callers
                 PROVE  (\E i \in 1..Len(Tail(q)) : Tail(q)[i] = d)
                        <=> (d # q[1] /\ \E i \in 1..Len(q) : q[i] = d)
    BY <1>1
  <2>2. ASSUME NEW i \in 1..Len(Tail(q)), Tail(q)[i] = d
        PROVE  d # q[1] /\ \E j \in 1..Len(q) : q[j] = d
    <3>1. i + 1 \in 1..Len(q) /\ 1 \in 1..Len(q) /\ i + 1 # 1 /\ q[i + 1] = d
      BY <1>1, <2>2
    <3>2. QED BY <3>1
  <2>3. ASSUME d # q[1], NEW i \in 1..Len(q), q[i] = d
        PROVE  \E j \in 1..Len(Tail(q)) : Tail(q)[j] = d
    <3>1. i # 1 BY <2>3
    <3>2. i - 1 \in 1..Len(Tail(q)) /\ (i - 1) + 1 = i
      BY <1>1, <3>1
    <3>3. Tail(q)[i - 1] = q[(i - 1) + 1]
      BY <1>1, <3>2
    <3>4. QED BY <3>2, <3>3, <2>3
  <2>4. QED BY <2>2, <2>3
<1>3. ASSUME NEW i \in 1..Len(Tail(q)), NEW j \in 1..Len(Tail(q)),
             Tail(q)[i] = Tail(q)[j]
      PROVE  i = j
  <2>1. i + 1 \in 1..Len(q) /\ j + 1 \in 1..Len(q)
    BY <1>1
  <2>2. q[i + 1] = q[j + 1]
    BY <1>1, <1>3
  <2>3. QED BY <2>1, <2>2
<1>4. \E i \in 1..Len(q) : q[i] = Head(q)
  <2>1. 1 \in 1..Len(q) BY <1>1
  <2>2. QED BY <1>1, <2>1
<1>5. QED BY <1>1, <1>2, <1>3, <1>4
-----------------------------------------------------------------------------
LEMMA InitLockInv == LockInit => LockInv
<1> SUFFICES ASSUME LockInit PROVE LockInv
  OBVIOUS
<1>1. /\ writeQueue \in Seq(Callers)
      /\ Len(writeQueue) = 0
  BY DEF LockInit
<1>2. \A i \in 1..Len(writeQueue) : FALSE
  BY <1>1
<1>3. /\ writeLock = FALSE
      /\ at \in [Callers -> CallerStates]
      /\ \A c \in Callers : at[c] = "idle"
  BY DEF LockInit, CallerStates
<1>4. QED BY <1>1, <1>2, <1>3
             DEF LockInv, LockTypeOK, LockTruthful, MutualExclusion, Running

\* Each step of write(), whoever takes it, preserves LockInv.
LEMMA WriteKeepsLockInv ==
    ASSUME LockInv, NEW c \in Callers, Write(c)
    PROVE  LockInv'
<1> USE DEF LockInv, LockTypeOK, LockTruthful, MutualExclusion, CallerStates,
            Running
<1>1. CASE WriteDirect(c)
  BY <1>1 DEF WriteDirect
<1>2. CASE WriteQueued(c)
  <2>1. \A i \in 1..Len(writeQueue) : writeQueue[i] # c
    BY <1>2 DEF WriteQueued
  <2>2. /\ writeQueue' \in Seq(Callers)
        /\ \A d \in Callers :
              (\E i \in 1..Len(writeQueue') : writeQueue'[i] = d)
                 <=> (d = c \/ \E i \in 1..Len(writeQueue) : writeQueue[i] = d)
        /\ \A i, j \in 1..Len(writeQueue') :
              writeQueue'[i] = writeQueue'[j] => i = j
    BY <1>2, <2>1, PushedQueue DEF WriteQueued
  <2>3. /\ at' \in [Callers -> CallerStates]
        /\ \A d \in Callers : Running(d)' <=> Running(d)
        /\ \A d \in Callers : at'[d] = "queued" <=> (d = c \/ at[d] = "queued")
        /\ writeLock' = writeLock
    BY <1>2 DEF WriteQueued
  <2>4. QED BY <2>2, <2>3
<1>3. QED BY <1>1, <1>2 DEF Write

LEMMA FinishKeepsLockInv ==
    ASSUME LockInv, NEW c \in Callers, Finish(c)
    PROVE  LockInv'
<1> USE DEF LockInv, LockTypeOK, LockTruthful, MutualExclusion, CallerStates,
            Running
<1>1. CASE FinishDirect(c)
  <2>1. CASE writeQueue = <<>>
    <3>1. /\ writeLock' = FALSE
          /\ writeQueue' = writeQueue
          /\ at' \in [Callers -> CallerStates]
          /\ \A d \in Callers : at'[d] = IF d = c THEN "idle" ELSE at[d]
      BY <1>1, <2>1 DEF FinishDirect
    <3>2. \A d \in Callers : ~Running(d)'
      BY <1>1, <3>1 DEF FinishDirect
    <3>3. \A d \in Callers : at'[d] = "queued" <=> at[d] = "queued"
      BY <1>1, <3>1 DEF FinishDirect
    <3>4. QED BY <3>1, <3>2, <3>3
  <2>2. CASE writeQueue # <<>>
    <3> DEFINE next == Head(writeQueue)
    <3>1. /\ next \in Callers
          /\ \E i \in 1..Len(writeQueue) : writeQueue[i] = next
          /\ writeQueue' \in Seq(Callers)
          /\ \A d \in Callers :
                (\E i \in 1..Len(writeQueue') : writeQueue'[i] = d)
                   <=> (d # next /\ \E i \in 1..Len(writeQueue) : writeQueue[i] = d)
          /\ \A i, j \in 1..Len(writeQueue') :
                writeQueue'[i] = writeQueue'[j] => i = j
      <4>1. /\ writeQueue \in Seq(Callers)
            /\ \A i, j \in 1..Len(writeQueue) :
                  writeQueue[i] = writeQueue[j] => i = j
        OBVIOUS
      <4>2. writeQueue' = Tail(writeQueue)
        BY <1>1, <2>2 DEF FinishDirect
      <4> HIDE DEF LockInv, LockTypeOK, LockTruthful
      <4>3. LET q == writeQueue
            IN  /\ Head(q) \in Callers
                /\ Tail(q) \in Seq(Callers)
                /\ \E i \in 1..Len(q) : q[i] = Head(q)
                /\ \A d \in Callers :
                      (\E i \in 1..Len(Tail(q)) : Tail(q)[i] = d)
                         <=> (d # Head(q) /\ \E i \in 1..Len(q) : q[i] = d)
                /\ \A i, j \in 1..Len(Tail(q)) :
                      Tail(q)[i] = Tail(q)[j] => i = j
        BY <4>1, <2>2, ShiftedQueue, Zenon
      <4>4. QED BY <4>2, <4>3, Zenon
    <3>2. at[next] = "queued"
      BY <3>1
    <3>3. /\ at' \in [Callers -> CallerStates]
          /\ \A d \in Callers :
                at'[d] = IF d = next THEN "handed"
                         ELSE IF d = c THEN "idle" ELSE at[d]
          /\ writeLock' = TRUE
      <4>1. /\ at' = [at EXCEPT ![c] = "idle", ![next] = "handed"]
            /\ writeLock' = TRUE
        BY <1>1, <2>2 DEF FinishDirect
      <4>2. at \in [Callers -> CallerStates] /\ next \in Callers
        BY <3>1
      <4> HIDE DEF next, LockInv, LockTypeOK, LockTruthful, MutualExclusion
      <4>3. QED BY <4>1, <4>2
    <3>4. \A d \in Callers : Running(d)' <=> d = next
      BY <1>1, <3>1, <3>3 DEF FinishDirect
    <3>5. \A d \in Callers :
             at'[d] = "queued" <=> (d # next /\ at[d] = "queued")
      BY <1>1, <3>3 DEF FinishDirect
    <3> HIDE DEF next
    <3>6. QED BY <3>1, <3>3, <3>4, <3>5
  <2>3. QED BY <2>1, <2>2
<1>2. CASE FinishHanded(c)
  BY <1>2 DEF FinishHanded
<1>3. QED BY <1>1, <1>2 DEF Finish

LEMMA LockInvStep == LockInv /\ [LockNext]_lockVars => LockInv'
<1>1. SUFFICES ASSUME LockInv, [LockNext]_lockVars PROVE LockInv'
  OBVIOUS
<1>2. CASE UNCHANGED lockVars
  BY <1>1, <1>2 DEF lockVars, LockInv, LockTypeOK, LockTruthful,
                    MutualExclusion, CallerStates, Running
<1>3. CASE LockNext
  BY <1>1, <1>3, WriteKeepsLockInv, FinishKeepsLockInv DEF LockNext
<1>4. QED BY <1>1, <1>2, <1>3

\* The lock flag, the queue and the callers agree in every reachable state.
THEOREM LockAlwaysTruthful == LockSpec => []LockInv
BY InitLockInv, LockInvStep, PTL DEF LockSpec

\* No two write() functions are ever in progress at once, for any number of
\* callers.
THEOREM WritesExclude == LockSpec => []MutualExclusion
<1>1. LockInv => MutualExclusion
  BY DEF LockInv
<1>2. QED BY <1>1, LockAlwaysTruthful, PTL
-----------------------------------------------------------------------------
\* Each step of write() is a step of the serializer.
LEMMA LockStepSerializes ==
    ASSUME LockInv, LockNext
    PROVE  Serializer!Next
<1> USE DEF LockInv, LockTypeOK, LockTruthful, MutualExclusion, CallerStates,
            Running
<1>1. PICK c \in Callers : Write(c) \/ Finish(c)
  BY DEF LockNext
<1>2. CASE WriteDirect(c)
  <2>1. Serializer!Enter(c)
    BY <1>2 DEF WriteDirect, Serializer!Enter
  <2>2. QED BY <2>1 DEF Serializer!Next
<1>3. CASE WriteQueued(c)
  <2>1. Serializer!Wait(c)
    BY <1>3 DEF WriteQueued, Serializer!Wait
  <2>2. QED BY <2>1 DEF Serializer!Next
<1>4. CASE FinishDirect(c) /\ writeQueue = <<>>
  <2>1. Serializer!Leave(c)
    BY <1>4 DEF FinishDirect, Serializer!Leave
  <2>2. QED BY <2>1 DEF Serializer!Next
<1>5. CASE FinishDirect(c) /\ writeQueue # <<>>
  <2>1. /\ Head(writeQueue) \in Callers
        /\ at[Head(writeQueue)] = "queued"
    <3>1. /\ writeQueue \in Seq(Callers)
          /\ \A i, j \in 1..Len(writeQueue) :
                writeQueue[i] = writeQueue[j] => i = j
      OBVIOUS
    <3>2. /\ Head(writeQueue) \in Callers
          /\ \E i \in 1..Len(writeQueue) : writeQueue[i] = Head(writeQueue)
      <4> HIDE DEF LockInv, LockTypeOK, LockTruthful
      <4>1. QED BY <3>1, <1>5, ShiftedQueue
    <3>3. QED BY <3>2
  <2>2. PICK next \in Callers : next = Head(writeQueue) /\ at[next] = "queued"
    BY <2>1
  <2>3. Serializer!HandOver(c, next)
    <3>1. /\ at' = [at EXCEPT ![c] = "idle", ![next] = "handed"]
          /\ at[c] = "direct"
          /\ at \in [Callers -> CallerStates]
          /\ \A d \in Callers : Running(d) => d = c
      BY <1>5, <2>2 DEF FinishDirect
    <3> HIDE DEF LockInv, LockTypeOK, LockTruthful, MutualExclusion
    <3>2. \A d \in Callers :
             at'[d] = IF d = next THEN "handed"
                      ELSE IF d = c THEN "idle" ELSE at[d]
      BY <3>1, <2>2
    <3>3. {d \in Callers : Running(d)} = {c}
      BY <3>1
    <3>4. {d \in Callers : Running(d)}' = {next}
      BY <3>1, <2>2, <3>2
    <3>5. {d \in Callers : at[d] = "queued"}'
              = {d \in Callers : at[d] = "queued"} \ {next}
      BY <3>1, <3>2
    <3>6. QED BY <2>2, <3>3, <3>4, <3>5 DEF Serializer!HandOver
  <2>4. QED BY <2>3 DEF Serializer!Next
<1>6. CASE FinishHanded(c)
  <2>1. Serializer!Leave(c)
    BY <1>6 DEF FinishHanded, Serializer!Leave
  <2>2. QED BY <2>1 DEF Serializer!Next
<1>7. QED BY <1>1, <1>2, <1>3, <1>4, <1>5, <1>6 DEF Write, Finish

\* write() implements the serializer: initial states map to initial states
\* and every step to a step or a stutter.
THEOREM WritesSerialize == LockSpec => SerializesWrites
<1>1. LockInit => Serializer!Init
  BY DEF LockInit, Serializer!Init, Running
<1>2. LockInv /\ [LockNext]_lockVars => [Serializer!Next]_(Serializer!vars)
  <2>1. CASE UNCHANGED lockVars
    BY <2>1 DEF lockVars, Serializer!vars, Running
  <2>2. QED BY <2>1, LockStepSerializes
<1>3. QED BY <1>1, <1>2, LockAlwaysTruthful, PTL
          DEF LockSpec, SerializesWrites, Serializer!Spec
-----------------------------------------------------------------------------
(* The agent. *)

\* The part of ReadStaysFresh that is about one caller.
Fresh(c) ==
    /\ step[c] = "delete" => aliases[AliasOf(req[c])] = seen[c]
    /\ step[c] = "create" /\ seen[c] # None
          => aliases[AliasOf(req[c])] \in {None, seen[c]}

Frame(c) ==
    /\ UNCHANGED <<lockVars, asked, req>>
    /\ \A d \in Callers \ {c} : step'[d] = step[d] /\ seen'[d] = seen[d]

\* While one function is in progress no other caller's is.
LEMMA OthersRest ==
    ASSUME LockInv, \A c \in Callers : FnInv(c),
           NEW c \in Callers, NEW d \in Callers, c # d, step[c] # "none"
    PROVE  step[d] = "none"
BY DEF LockInv, MutualExclusion, FnInv

\* What is left to show for a step of one function: the rest is the frame.
LEMMA OneFunctionMoves ==
    ASSUME AgentInv, NEW c \in Callers, step[c] # "none", Frame(c),
           TypeOK', FnInv(c)', Fresh(c)', ProtectedNeverBlocked',
           applyTimer' <=> step'[c] = "armed"
    PROVE  AgentInv'
<1>1. \A d \in Callers \ {c} : step[d] = "none" /\ step'[d] = "none"
  <2>1. \A d \in Callers \ {c} : step[d] = "none"
    BY OthersRest DEF AgentInv
  <2>2. QED BY <2>1 DEF Frame
<1>2. LockInv'
  BY DEF AgentInv, Frame, lockVars, LockInv, LockTypeOK, LockTruthful,
         MutualExclusion, Running
<1>3. ASSUME NEW d \in Callers PROVE FnInv(d)'
  <2>1. CASE d = c
    BY <2>1
  <2>2. CASE d # c
    <3>1. /\ FnInv(d) /\ at'[d] = at[d] /\ req'[d] = req[d] /\ seen'[d] = seen[d]
          /\ asked' = asked
      BY <2>2 DEF AgentInv, Frame, lockVars
    <3>2. QED BY <1>1, <2>2, <3>1 DEF FnInv, Running, Valid, Unvalidated
  <2>3. QED BY <2>1, <2>2
<1>4. TimerOwned'
  BY <1>1 DEF TimerOwned
<1>5. ReadStaysFresh'
  BY <1>1 DEF ReadStaysFresh, Fresh
<1>6. QED BY <1>2, <1>3, <1>4, <1>5 DEF AgentInv
-----------------------------------------------------------------------------
LEMMA AgentInit == Init => AgentInv
<1> SUFFICES ASSUME Init PROVE AgentInv
  OBVIOUS
<1>1. LockInv
  BY InitLockInv DEF Init
<1>2. TypeOK
  BY <1>1 DEF Init, TypeOK, LockInv, Steps, Staged, Configs, AliasContents
<1>3. /\ \A c \in Callers : FnInv(c)
      /\ TimerOwned
      /\ ReadStaysFresh
  BY DEF Init, LockInit, FnInv, Running, TimerOwned, ReadStaysFresh
<1>4. ProtectedNeverBlocked
  BY DEF Init, ProtectedNeverBlocked, Staged, Content
<1>5. QED BY <1>1, <1>2, <1>3, <1>4 DEF AgentInv

\* A caller's request is one of those the constants allow.
LEMMA RequestFacts ==
    ASSUME TypeOK, NEW c \in Callers, req[c] # None
    PROVE  /\ req[c] \in AllRequests
           /\ req[c].kind \in {"blockIp", "unblockIp", "isolateHost",
                 "unIsolateHost", "blockPort", "deleteRule", "unblockRule",
                 "createAlias", "deleteAlias"}
           /\ (IsAdd(req[c]) \/ IsRemove(req[c]) \/ req[c].kind = "blockPort")
                 => req[c].on \in Ips
           /\ req[c].kind \in {"createAlias", "deleteAlias"} => req[c].on \in Aliases
           /\ req[c].kind = "createAlias" => req[c].ips \in SUBSET Ips
           /\ AliasOf(req[c]) \in {Blocklist, Isolation}
           /\ {Blocklist, Isolation} \subseteq Aliases
<1>1. req[c] \in AllRequests
  BY AgentAssumption DEF TypeOK
<1>2. QED BY <1>1 DEF AllRequests, IsAdd, IsRemove, AliasOf, Aliases, Managed,
                      Blocklist, Isolation

\* A running function has a request.
LEMMA RunningHasRequest ==
    ASSUME AgentInv, NEW c \in Callers, step[c] # "none"
    PROVE  /\ req[c] # None /\ FnInv(c) /\ Fresh(c)
           /\ applyTimer <=> step[c] = "armed"
<1>1. req[c] # None /\ FnInv(c) /\ Fresh(c)
  BY DEF AgentInv, FnInv, Running, ReadStaysFresh, Fresh
<1>2. \A d \in Callers : d # c => step[d] = "none"
  BY OthersRest DEF AgentInv
<1>3. QED BY <1>1, <1>2 DEF AgentInv, TimerOwned

LEMMA ListAliasesKeeps ==
    ASSUME AgentInv, NEW c \in Callers, ListAliases(c)
    PROVE  AgentInv'
<1> DEFINE a == AliasOf(req[c])
<1>1. /\ step[c] = "list"
      /\ req[c] # None /\ FnInv(c) /\ Fresh(c) /\ ~applyTimer
      /\ a \in Aliases
      /\ req[c].on \in Ips
      /\ TypeOK
  <2>1. TypeOK /\ step[c] = "list"
    BY DEF AgentInv, ListAliases
  <2>2. req[c] # None /\ FnInv(c) /\ Fresh(c) /\ ~applyTimer
    BY <2>1, RunningHasRequest
  <2>3. QED BY <2>1, <2>2, RequestFacts DEF FnInv
<1>2. PICK found \in {aliases[a]} \cup Lost(None) :
         /\ seen' = [seen EXCEPT ![c] = found]
         /\ Goto(c, IF IsAdd(req[c]) = (req[c].on \in Listed(found)) THEN "done"
                    ELSE IF found = None THEN "create" ELSE "delete")
  BY DEF ListAliases
<1>3. found \in {None, aliases[a]} /\ found \in AliasContents
  BY <1>1 DEF Lost, TypeOK, Staged, Configs, AliasContents
<1>4. /\ Frame(c)
      /\ applyTimer' = FALSE /\ UNCHANGED <<asked, aliases, rules, inForce, req, at>>
      /\ seen'[c] = found
      /\ step'[c] = IF IsAdd(req[c]) = (req[c].on \in Listed(found)) THEN "done"
                    ELSE IF found = None THEN "create" ELSE "delete"
  BY <1>1, <1>2 DEF ListAliases, Frame, Goto, TypeOK, lockVars, fwVars
<1>5. TypeOK'
  BY <1>1, <1>2, <1>3 DEF TypeOK, ListAliases, Goto, lockVars, fwVars, LockTypeOK,
                          Staged, Steps
<1>6. ProtectedNeverBlocked'
  BY <1>4 DEF AgentInv, ProtectedNeverBlocked, Staged
<1>7. Content(found) \subseteq Content(aliases[a])
  BY <1>3 DEF Content
<1>8. FnInv(c)'
  <2>1. \A ip \in Content(found) \cap Protected : <<a, ip>> \in asked
    BY <1>1, <1>7 DEF AgentInv, ProtectedNeverBlocked, Staged
  <2>2. at' = at /\ req' = req /\ asked' = asked /\ aliases' = aliases
    BY <1>4
  <2>3. /\ step'[c] \in {"done", "create", "delete"}
        /\ step'[c] = "delete" => found # None
        /\ step'[c] = "done" /\ IsAdd(req[c]) => req[c].on \in Content(aliases[a])
    <3>1. Listed(found) \subseteq Content(found)
      BY DEF Listed
    <3>2. QED BY <1>4, <1>7, <3>1
  <2> HIDE DEF a
  <2>4. a = AliasOf(req[c])
    BY DEF a
  <2>5. QED BY <1>1, <1>4, <2>1, <2>2, <2>3, <2>4
            DEF FnInv, Running, Valid, Unvalidated
<1>9. Fresh(c)'
  BY <1>1, <1>3, <1>4 DEF Fresh
<1>10. QED BY <1>1, <1>4, <1>5, <1>6, <1>8, <1>9, OneFunctionMoves

LEMMA DeleteForRewriteKeeps ==
    ASSUME AgentInv, NEW c \in Callers, DeleteForRewrite(c)
    PROVE  AgentInv'
<1> DEFINE a == AliasOf(req[c])
<1>1. /\ step[c] = "delete"
      /\ req[c] # None /\ FnInv(c) /\ Fresh(c) /\ ~applyTimer
      /\ a \in Aliases
      /\ TypeOK
  <2>1. TypeOK /\ step[c] = "delete"
    BY DEF AgentInv, DeleteForRewrite
  <2>2. QED BY <2>1, RunningHasRequest, RequestFacts
<1>2. /\ aliases' \in {aliases, [aliases EXCEPT ![a] = None]}
      /\ step' = [step EXCEPT ![c] = "create"]
      /\ UNCHANGED <<lockVars, asked, req, seen, todo, deleted, applyTimer, rules, inForce>>
  BY DEF DeleteForRewrite, Goto
<1>3. Frame(c) /\ step'[c] = "create"
  BY <1>1, <1>2 DEF Frame, TypeOK
<1>4. /\ aliases' \in [Aliases -> AliasContents]
      /\ aliases'[a] \in {None, aliases[a]}
      /\ \A b \in Aliases : Content(aliases'[b]) \subseteq Content(aliases[b])
  BY <1>1, <1>2 DEF TypeOK, Staged, Configs, AliasContents, Content
<1>5. TypeOK'
  BY <1>1, <1>2, <1>4
     DEF TypeOK, lockVars, LockTypeOK, Staged, Configs, Steps
<1>6. ProtectedNeverBlocked'
  BY <1>2, <1>4 DEF AgentInv, ProtectedNeverBlocked, Staged
<1>7. FnInv(c)'
  BY <1>1, <1>2, <1>3 DEF FnInv, Running, Valid, Unvalidated, lockVars
<1>8. Fresh(c)'
  BY <1>1, <1>2, <1>3, <1>4 DEF Fresh
<1>9. QED BY <1>1, <1>2, <1>3, <1>5, <1>6, <1>7, <1>8, OneFunctionMoves

\* What the rewrite posts: the listed content with the request's address added
\* or left out, as far as the firewall takes it, and no protected address but
\* those that came unvalidated.
LEMMA RewrittenContent ==
    ASSUME TypeOK, NEW c \in Callers, req[c] # None, FnInv(c),
           step[c] = "create"
    PROVE  /\ Rewritten(c) \in SUBSET Ips
           /\ IsAdd(req[c]) /\ "address" \in Fields => req[c].on \in Rewritten(c)
           /\ \A ip \in Rewritten(c) \cap Protected : <<AliasOf(req[c]), ip>> \in asked
<1>1. Content(seen[c]) \in SUBSET Ips
  BY DEF TypeOK, AliasContents, Content
<1>2. req[c].on \in Ips
  BY RequestFacts DEF FnInv
<1>3. \A ip \in Content(seen[c]) \cap Protected : <<AliasOf(req[c]), ip>> \in asked
  BY DEF FnInv
<1>4. IsAdd(req[c]) /\ req[c].on \in Protected => <<AliasOf(req[c]), req[c].on>> \in asked
  BY DEF FnInv, Valid, Unvalidated, IsAdd, AliasOf
<1>5. /\ Listed(seen[c]) \subseteq Content(seen[c])
      /\ Rewritten(c) \subseteq Listed(seen[c]) \cup {req[c].on}
      /\ ~IsAdd(req[c]) => Rewritten(c) \subseteq Listed(seen[c])
      /\ IsAdd(req[c]) /\ "address" \in Fields => req[c].on \in Rewritten(c)
  BY DEF Rewritten, Listed, Posted
<1>6. QED BY <1>1, <1>2, <1>3, <1>4, <1>5

LEMMA CreateForRewriteKeeps ==
    ASSUME AgentInv, NEW c \in Callers, CreateForRewrite(c)
    PROVE  AgentInv'
<1> DEFINE a == AliasOf(req[c])
<1>1. /\ step[c] = "create"
      /\ req[c] # None /\ FnInv(c) /\ ~applyTimer
      /\ a \in Aliases
      /\ TypeOK
  <2>1. TypeOK /\ step[c] = "create"
    BY DEF AgentInv, CreateForRewrite
  <2>2. QED BY <2>1, RunningHasRequest, RequestFacts
<1>2. /\ \/ aliases' = aliases /\ step' = [step EXCEPT ![c] = "failed"]
         \/ /\ aliases' = [aliases EXCEPT ![a] = Rewritten(c)]
            /\ \E s \in {"apply", "failed"} : step' = [step EXCEPT ![c] = s]
      /\ UNCHANGED <<lockVars, asked, req, seen, todo, deleted, applyTimer, rules, inForce>>
  BY DEF CreateForRewrite, Goto, TakesEffect
<1>3. /\ Frame(c)
      /\ step' \in [Callers -> Steps]
      /\ step'[c] \in {"apply", "failed"}
      /\ step'[c] = "apply" => aliases' = [aliases EXCEPT ![a] = Rewritten(c)]
  BY <1>1, <1>2 DEF Frame, TypeOK, Steps
<1>4. /\ Rewritten(c) \in SUBSET Ips
      /\ IsAdd(req[c]) /\ "address" \in Fields => req[c].on \in Rewritten(c)
      /\ \A ip \in Rewritten(c) \cap Protected : <<a, ip>> \in asked
  BY <1>1, RewrittenContent
<1>5. /\ aliases' \in [Aliases -> AliasContents]
      /\ \A b \in Aliases : \/ aliases'[b] = aliases[b]
                            \/ b = a /\ aliases'[b] = Rewritten(c)
      /\ step'[c] = "apply" => aliases'[a] = Rewritten(c)
  <2>1. /\ aliases \in [Aliases -> AliasContents]
        /\ Rewritten(c) \in AliasContents
    BY <1>1, <1>4 DEF TypeOK, Staged, Configs, AliasContents
  <2>2. a \in Aliases
    BY <1>1
  <2> HIDE DEF a
  <2>3. CASE aliases' = aliases /\ step'[c] # "apply"
    BY <2>1, <2>3
  <2>4. CASE aliases' = [aliases EXCEPT ![a] = Rewritten(c)]
    BY <2>1, <2>2, <2>4
  <2>5. QED BY <1>2, <1>3, <2>3, <2>4
<1>6. TypeOK'
  BY <1>1, <1>2, <1>3, <1>5 DEF TypeOK, lockVars, LockTypeOK, Staged, Configs
<1>7. Rewritten(c) # None
  BY <1>4, AgentAssumption
<1>8. ProtectedNeverBlocked'
  BY <1>2, <1>4, <1>5, <1>7 DEF AgentInv, ProtectedNeverBlocked, Staged, Content
<1>9. FnInv(c)'
  BY <1>1, <1>2, <1>3, <1>4, <1>5, <1>7
     DEF FnInv, Running, Valid, Unvalidated, lockVars, Content
<1>10. Fresh(c)'
  BY <1>3 DEF Fresh
<1>11. QED BY <1>1, <1>2, <1>3, <1>6, <1>8, <1>9, <1>10, OneFunctionMoves

-----------------------------------------------------------------------------
\* The operations on rules touch no alias.
LEMMA PostRuleKeeps ==
    ASSUME AgentInv, NEW c \in Callers, PostRule(c)
    PROVE  AgentInv'
<1>1. /\ step[c] = "postRule"
      /\ req[c] # None /\ FnInv(c) /\ ~applyTimer
      /\ req[c].kind = "blockPort" /\ req[c].on \in Ips \ Protected
      /\ TypeOK
  <2>1. TypeOK /\ step[c] = "postRule"
    BY DEF AgentInv, PostRule
  <2>2. req[c] # None /\ FnInv(c) /\ ~applyTimer
    BY <2>1, RunningHasRequest
  <2>3. req[c].kind = "blockPort"
    BY <2>1, <2>2 DEF FnInv
  <2>4. QED BY <2>1, <2>2, <2>3, RequestFacts DEF FnInv, Valid
<1>2. /\ \/ rules' = rules
         \/ \E id \in RuleIds : rules' = rules \cup {[id |-> id, ip |-> req[c].on]}
      /\ \E s \in {"apply", "failed"} : step' = [step EXCEPT ![c] = s]
      /\ UNCHANGED <<lockVars, asked, req, seen, todo, deleted, applyTimer, aliases, inForce>>
  BY DEF PostRule, Goto
<1>3. /\ Frame(c)
      /\ step' \in [Callers -> Steps]
      /\ step'[c] \in {"apply", "failed"}
  BY <1>1, <1>2 DEF Frame, TypeOK, Steps
<1>4. /\ rules' \in SUBSET [id : RuleIds, ip : Ips]
      /\ \A r \in rules' : r \in rules \/ r.ip \notin Protected
  BY <1>1, <1>2 DEF TypeOK, Staged, Configs
<1>5. TypeOK'
  BY <1>1, <1>2, <1>3, <1>4 DEF TypeOK, lockVars, LockTypeOK, Staged, Configs
<1>6. ProtectedNeverBlocked'
  BY <1>2, <1>4 DEF AgentInv, ProtectedNeverBlocked, Staged
<1>7. FnInv(c)' /\ Fresh(c)'
  BY <1>1, <1>2, <1>3 DEF FnInv, Fresh, Running, Valid, Unvalidated, IsAdd, lockVars
<1>8. QED BY <1>1, <1>2, <1>3, <1>5, <1>6, <1>7, OneFunctionMoves

LEMMA GetRulesKeeps ==
    ASSUME AgentInv, NEW c \in Callers, GetRules(c)
    PROVE  AgentInv'
<1>1. /\ step[c] = "getRules" /\ TypeOK
      /\ req[c] # None /\ FnInv(c) /\ ~applyTimer
  <2>1. TypeOK /\ step[c] = "getRules"
    BY DEF AgentInv, GetRules
  <2>2. QED BY <2>1, RunningHasRequest
<1>2. UNCHANGED <<lockVars, asked, req, seen, deleted, applyTimer, fwVars>>
  BY DEF GetRules
<1>3. /\ \E T \in SUBSET RuleIds : todo' = [todo EXCEPT ![c] = T]
      /\ \E s \in {"deleteRules", "failed"} : step' = [step EXCEPT ![c] = s]
  <2>1. CASE /\ \E found \in {{r \in rules : r.ip = req[c].on}} \cup Lost({}) :
                   todo' = [todo EXCEPT ![c] = {r.id : r \in found}]
             /\ Goto(c, "deleteRules")
    <3>1. PICK found \in {{r \in rules : r.ip = req[c].on}} \cup Lost({}) :
             todo' = [todo EXCEPT ![c] = {r.id : r \in found}]
      BY <2>1
    <3>2. found \subseteq rules /\ rules \in SUBSET [id : RuleIds, ip : Ips]
      BY <1>1, <3>1 DEF Lost, TypeOK, Staged, Configs
    <3>3. {r.id : r \in found} \in SUBSET RuleIds
      BY <3>2
    <3>4. QED BY <2>1, <3>1, <3>3 DEF Goto
  <2>2. CASE Goto(c, "failed") /\ UNCHANGED todo
    <3>1. todo' = [todo EXCEPT ![c] = todo[c]] /\ todo[c] \in SUBSET RuleIds
      BY <1>1, <2>2 DEF TypeOK
    <3>2. QED BY <2>2, <3>1 DEF Goto
  <2>3. QED BY <2>1, <2>2 DEF GetRules
<1>4. Frame(c) /\ step' \in [Callers -> Steps] /\ step'[c] \in {"deleteRules", "failed"}
  BY <1>1, <1>2, <1>3 DEF Frame, TypeOK, Steps
<1>5. TypeOK'
  BY <1>1, <1>2, <1>3, <1>4 DEF TypeOK, lockVars, fwVars, LockTypeOK, Staged
<1>6. ProtectedNeverBlocked'
  BY <1>2 DEF AgentInv, ProtectedNeverBlocked, Staged, fwVars
<1>7. FnInv(c)' /\ Fresh(c)'
  BY <1>1, <1>2, <1>4 DEF FnInv, Fresh, Running, Valid, Unvalidated, lockVars
<1>8. QED BY <1>1, <1>2, <1>4, <1>5, <1>6, <1>7, OneFunctionMoves

\* A rule leaves, no rule comes: what deleteRule's loop and
\* unblockIP_deprecated do to the rules.
LEMMA RulesLeave ==
    ASSUME AgentInv, NEW id, rules' \in {rules, WithoutRule(id)},
           UNCHANGED <<asked, aliases, inForce>>
    PROVE  /\ rules' \in SUBSET [id : RuleIds, ip : Ips]
           /\ ProtectedNeverBlocked'
<1>1. rules' \subseteq rules
  BY DEF WithoutRule
<1>2. rules \in SUBSET [id : RuleIds, ip : Ips]
  BY DEF AgentInv, TypeOK, Staged, Configs
<1>3. QED BY <1>1, <1>2 DEF AgentInv, ProtectedNeverBlocked, Staged

LEMMA DeleteRulesKeeps ==
    ASSUME AgentInv, NEW c \in Callers, DeleteRules(c)
    PROVE  AgentInv'
<1>1. /\ step[c] = "deleteRules" /\ TypeOK
      /\ req[c] # None /\ FnInv(c) /\ ~applyTimer
  <2>1. TypeOK /\ step[c] = "deleteRules"
    BY DEF AgentInv, DeleteRules
  <2>2. QED BY <2>1, RunningHasRequest
<1>2. UNCHANGED <<lockVars, asked, req, seen, applyTimer, aliases, inForce>>
  BY DEF DeleteRules
<1>3. /\ \E id : rules' \in {rules, WithoutRule(id)}
      /\ \E s \in {"apply", "done", "deleteRules"} : step' = [step EXCEPT ![c] = s]
      /\ \E T \in SUBSET RuleIds : todo' = [todo EXCEPT ![c] = T]
      /\ \E b \in BOOLEAN : deleted' = [deleted EXCEPT ![c] = b]
  <2>1. CASE /\ todo[c] = {}
             /\ Goto(c, IF deleted[c] THEN "apply" ELSE "done")
             /\ UNCHANGED <<todo, deleted, rules>>
    <3>1. /\ todo' = [todo EXCEPT ![c] = todo[c]] /\ todo[c] \in SUBSET RuleIds
          /\ deleted' = [deleted EXCEPT ![c] = deleted[c]] /\ deleted[c] \in BOOLEAN
      BY <1>1, <2>1 DEF TypeOK
    <3>2. QED BY <2>1, <3>1 DEF Goto
  <2>2. ASSUME NEW id \in todo[c], NEW o \in Outcomes,
               rules' = IF TakesEffect(o) THEN WithoutRule(id) ELSE rules,
               todo' = [todo EXCEPT ![c] = @ \ {id}],
               deleted' = [deleted EXCEPT ![c] = @ \/ o = "ok"],
               UNCHANGED step
        PROVE  <1>3!:
    <3>1. /\ todo' = [todo EXCEPT ![c] = todo[c] \ {id}]
          /\ todo[c] \ {id} \in SUBSET RuleIds
      BY <1>1, <2>2 DEF TypeOK
    <3>2. /\ deleted' = [deleted EXCEPT ![c] = (deleted[c] \/ o = "ok")]
          /\ (deleted[c] \/ o = "ok") \in BOOLEAN
      BY <2>2
    <3>3. step' = [step EXCEPT ![c] = "deleteRules"]
      BY <1>1, <2>2 DEF TypeOK
    <3>4. QED BY <2>2, <3>1, <3>2, <3>3
  <2>3. QED BY <2>1, <2>2 DEF DeleteRules
<1>4. /\ rules' \in SUBSET [id : RuleIds, ip : Ips]
      /\ ProtectedNeverBlocked'
  BY <1>2, <1>3, RulesLeave
<1>5. /\ Frame(c)
      /\ step' \in [Callers -> Steps]
      /\ step'[c] \in {"apply", "done", "deleteRules"}
  BY <1>1, <1>2, <1>3 DEF Frame, TypeOK, Steps
<1>6. TypeOK'
  BY <1>1, <1>2, <1>3, <1>4, <1>5 DEF TypeOK, lockVars, LockTypeOK, Staged, Configs
<1>7. FnInv(c)' /\ Fresh(c)'
  BY <1>1, <1>2, <1>5 DEF FnInv, Fresh, Running, Valid, Unvalidated, IsAdd, lockVars
<1>8. QED BY <1>1, <1>2, <1>4, <1>5, <1>6, <1>7, OneFunctionMoves

LEMMA UnblockRuleKeeps ==
    ASSUME AgentInv, NEW c \in Callers, UnblockRule(c)
    PROVE  AgentInv'
<1>1. /\ step[c] = "unblockRule" /\ TypeOK
      /\ req[c] # None /\ FnInv(c) /\ ~applyTimer
  <2>1. TypeOK /\ step[c] = "unblockRule"
    BY DEF AgentInv, UnblockRule
  <2>2. QED BY <2>1, RunningHasRequest
<1>2. /\ rules' \in {rules, WithoutRule(req[c].on)}
      /\ \E s \in {"apply", "failed"} : step' = [step EXCEPT ![c] = s]
      /\ UNCHANGED <<lockVars, asked, req, seen, todo, deleted, applyTimer, aliases, inForce>>
  BY DEF UnblockRule, Goto
<1>3. /\ rules' \in SUBSET [id : RuleIds, ip : Ips]
      /\ ProtectedNeverBlocked'
  BY <1>2, RulesLeave
<1>4. /\ Frame(c)
      /\ step' \in [Callers -> Steps]
      /\ step'[c] \in {"apply", "failed"}
  BY <1>1, <1>2 DEF Frame, TypeOK, Steps
<1>5. TypeOK'
  BY <1>1, <1>2, <1>3, <1>4 DEF TypeOK, lockVars, LockTypeOK, Staged, Configs
<1>6. FnInv(c)' /\ Fresh(c)'
  BY <1>1, <1>2, <1>4 DEF FnInv, Fresh, Running, Valid, Unvalidated, IsAdd, lockVars
<1>7. QED BY <1>1, <1>2, <1>3, <1>4, <1>5, <1>6, OneFunctionMoves

-----------------------------------------------------------------------------
\* Aliases created and deleted by name: no address comes but those asked for.
LEMMA NamedAliasKeeps ==
    ASSUME AgentInv, NEW c \in Callers, CreateAlias(c) \/ DeleteAlias(c)
    PROVE  AgentInv'
<1>1. /\ step[c] \in {"createAlias", "deleteAlias"} /\ TypeOK
      /\ req[c] # None /\ FnInv(c) /\ ~applyTimer
      /\ req[c].kind \in {"createAlias", "deleteAlias"}
      /\ req[c].on \in Aliases
  <2>1. TypeOK /\ step[c] \in {"createAlias", "deleteAlias"}
    BY DEF AgentInv, CreateAlias, DeleteAlias
  <2>2. req[c] # None /\ FnInv(c) /\ ~applyTimer
    BY <2>1, RunningHasRequest
  <2>3. req[c].kind \in {"createAlias", "deleteAlias"}
    BY <2>1, <2>2 DEF FnInv
  <2>4. QED BY <2>1, <2>2, <2>3, RequestFacts
<1>2. /\ \/ aliases' = aliases
         \/ aliases' = [aliases EXCEPT ![req[c].on] = None]
         \/ /\ req[c].kind = "createAlias"
            /\ aliases' = [aliases EXCEPT ![req[c].on] = Given(req[c].ips)]
      /\ \E s \in {"done", "failed"} : step' = [step EXCEPT ![c] = s]
      /\ UNCHANGED <<lockVars, asked, req, seen, todo, deleted, applyTimer, rules, inForce>>
  BY <1>1 DEF CreateAlias, DeleteAlias, Goto, FnInv
<1>3. /\ Frame(c)
      /\ step' \in [Callers -> Steps]
      /\ step'[c] \in {"done", "failed"}
  BY <1>1, <1>2 DEF Frame, TypeOK, Steps
<1>4. /\ aliases' \in [Aliases -> AliasContents]
      /\ \A a \in Aliases : \A ip \in Content(aliases'[a]) :
            ip \in Content(aliases[a]) \/ <<a, ip>> \in asked
  <2>1. aliases \in [Aliases -> AliasContents] /\ None \in AliasContents
    BY <1>1 DEF TypeOK, Staged, Configs, AliasContents
  <2>2. CASE aliases' = aliases
    BY <2>1, <2>2
  <2>3. CASE aliases' = [aliases EXCEPT ![req[c].on] = None]
    BY <1>1, <2>1, <2>3 DEF Content
  <2>4. CASE /\ req[c].kind = "createAlias"
             /\ aliases' = [aliases EXCEPT ![req[c].on] = Given(req[c].ips)]
    <3>1. req[c].ips \in SUBSET Ips
      BY <1>1, <2>4, RequestFacts
    <3>2. /\ Given(req[c].ips) \in SUBSET Ips /\ Given(req[c].ips) \subseteq req[c].ips
          /\ Content(Given(req[c].ips)) \subseteq req[c].ips
      BY <3>1 DEF Given, Content
    <3>3. {req[c].on} \X req[c].ips \subseteq asked
      BY <1>1, <2>4 DEF FnInv, Unvalidated
    <3>4. PICK g : g = Given(req[c].ips)
      OBVIOUS
    <3>5. /\ g \in AliasContents /\ Content(g) \subseteq req[c].ips
          /\ aliases' = [aliases EXCEPT ![req[c].on] = g]
      BY <2>4, <3>2, <3>4 DEF AliasContents
    <3>6. QED BY <1>1, <2>1, <3>3, <3>5
  <2>5. QED BY <1>2, <2>2, <2>3, <2>4
<1>5. TypeOK'
  BY <1>1, <1>2, <1>3, <1>4 DEF TypeOK, lockVars, LockTypeOK, Staged, Configs
<1>6. ProtectedNeverBlocked'
  BY <1>2, <1>4 DEF AgentInv, ProtectedNeverBlocked, Staged
<1>7. FnInv(c)' /\ Fresh(c)'
  BY <1>1, <1>2, <1>3 DEF FnInv, Fresh, Running, Valid, Unvalidated, IsAdd, lockVars
<1>8. QED BY <1>1, <1>2, <1>3, <1>5, <1>6, <1>7, OneFunctionMoves
-----------------------------------------------------------------------------
\* applyChanges: the timer, its firing, the answer of the firewall.
LEMMA ApplyKeeps ==
    ASSUME AgentInv, NEW c \in Callers,
           ApplyChanges(c) \/ TimerFires(c) \/ Applied(c)
    PROVE  AgentInv'
<1>1. /\ step[c] \in {"apply", "armed", "applying"} /\ TypeOK
      /\ req[c] # None /\ FnInv(c)
      /\ applyTimer <=> step[c] = "armed"
  <2>1. TypeOK /\ step[c] \in {"apply", "armed", "applying"}
    BY DEF AgentInv, ApplyChanges, TimerFires, Applied
  <2>2. QED BY <2>1, RunningHasRequest
<1>2. /\ \E s \in {"armed", "applying", "done"} : step' = [step EXCEPT ![c] = s]
      /\ step'[c] \in {"armed", "applying", "done"}
      /\ applyTimer' \in BOOLEAN
      /\ applyTimer' <=> step'[c] = "armed"
      /\ inForce' \in {inForce, Staged}
      /\ UNCHANGED <<lockVars, asked, req, seen, todo, deleted, aliases, rules>>
  <2>1. CASE ApplyChanges(c)
    BY <1>1, <2>1 DEF ApplyChanges, Goto, TypeOK, fwVars
  <2>2. CASE TimerFires(c)
    BY <1>1, <2>2 DEF TimerFires, Goto, TypeOK, fwVars
  <2>3. CASE Applied(c)
    BY <1>1, <2>3 DEF Applied, Goto, TypeOK
  <2>4. QED BY <2>1, <2>2, <2>3
<1>3. Frame(c) /\ step' \in [Callers -> Steps]
  BY <1>1, <1>2 DEF Frame, TypeOK, Steps
<1>4. TypeOK'
  BY <1>1, <1>2, <1>3 DEF TypeOK, lockVars, LockTypeOK, Staged
<1>5. ProtectedNeverBlocked'
  BY <1>2 DEF AgentInv, ProtectedNeverBlocked, Staged
<1>6. FnInv(c)' /\ Fresh(c)'
  BY <1>1, <1>2 DEF FnInv, Fresh, Running, Valid, Unvalidated, lockVars
<1>7. QED BY <1>1, <1>2, <1>3, <1>4, <1>5, <1>6, OneFunctionMoves
-----------------------------------------------------------------------------
\* Where a function starts, its facts hold.
LEMMA FirstAwait ==
    ASSUME NEW r \in AllRequests
    PROVE  /\ First(r) \in Steps \ {"none", "delete", "create", "apply", "armed",
                                    "applying", "done", "failed", "deleteRules"}
           /\ First(r) = "list" => IsAdd(r) \/ IsRemove(r)
           /\ First(r) = "postRule" => r.kind = "blockPort"
           /\ First(r) = "getRules" => r.kind = "deleteRule"
           /\ First(r) \in {"unblockRule", "createAlias", "deleteAlias"}
                 => r.kind = First(r)
<1>1. r.kind \in {"blockIp", "unblockIp", "isolateHost", "unIsolateHost",
                  "blockPort", "deleteRule", "unblockRule", "createAlias",
                  "deleteAlias"}
  BY DEF AllRequests
<1>2. QED BY <1>1 DEF First, Steps, IsAdd, IsRemove

\* What a call may bring in unvalidated is addresses into aliases.
LEMMA UnvalidatedPairs ==
    ASSUME NEW r \in AllRequests
    PROVE  Unvalidated(r) \subseteq Aliases \X Ips
<1>1. Isolation \in Aliases
  BY DEF Aliases, Managed
<1>2. r.kind = "isolateHost" => r.on \in Ips
  BY DEF AllRequests
<1>3. r.kind = "createAlias" => r.on \in Aliases /\ r.ips \in SUBSET Ips
  BY DEF AllRequests
<1>4. QED BY <1>1, <1>2, <1>3 DEF Unvalidated

LEMMA CallKeeps ==
    ASSUME AgentInv, NEW c \in Callers, NEW r \in Requests, Call(c, r)
    PROVE  AgentInv'
<1>1. /\ TypeOK /\ FnInv(c) /\ at[c] = "idle" /\ step[c] = "none"
      /\ r \in AllRequests /\ r # None /\ Valid(r)
  BY AgentAssumption
     DEF AgentInv, FnInv, Running, Call, Write, WriteDirect, WriteQueued
<1>2. /\ at' \in {[at EXCEPT ![c] = "direct"], [at EXCEPT ![c] = "queued"]}
      /\ req' = [req EXCEPT ![c] = r]
      /\ step' = [step EXCEPT ![c] = IF at'[c] = "direct" THEN First(r) ELSE "none"]
      /\ asked' = asked \cup Unvalidated(r)
      /\ UNCHANGED <<seen, todo, deleted, applyTimer, fwVars>>
  BY DEF Call, Write, WriteDirect, WriteQueued
<1>3. LockInv'
  BY WriteKeepsLockInv DEF AgentInv, Call
<1>4. /\ at'[c] \in {"direct", "queued"}
      /\ req'[c] = r
      /\ step'[c] = IF at'[c] = "direct" THEN First(r) ELSE "none"
      /\ \A d \in Callers \ {c} :
            at'[d] = at[d] /\ req'[d] = req[d] /\ step'[d] = step[d]
  BY <1>1, <1>2 DEF TypeOK, LockTypeOK
<1>5. TypeOK'
  <2>1. step' \in [Callers -> Steps]
    BY <1>1, <1>2, FirstAwait DEF TypeOK, Steps
  <2>2. req' \in [Callers -> Requests \cup {None}]
    BY <1>1, <1>2 DEF TypeOK
  <2>3. asked' \subseteq Aliases \X Ips
    BY <1>1, <1>2, UnvalidatedPairs DEF TypeOK
  <2>4. QED BY <1>1, <1>2, <1>3, <2>1, <2>2, <2>3 DEF TypeOK, LockInv, fwVars, Staged
<1>6. ASSUME NEW d \in Callers PROVE FnInv(d)'
  <2>1. CASE d = c
    BY <1>1, <1>2, <1>4, <2>1, FirstAwait DEF FnInv, Running, Valid, Unvalidated, fwVars
  <2>2. CASE d # c
    <3>1. FnInv(d)
      BY DEF AgentInv
    <3>2. QED BY <1>2, <1>4, <2>2, <3>1 DEF FnInv, Running, Valid, Unvalidated, fwVars
  <2>3. QED BY <2>1, <2>2
<1>7. TimerOwned'
  <2>1. \A d \in Callers : step'[d] = "armed" <=> step[d] = "armed"
    BY <1>1, <1>4, FirstAwait
  <2>2. QED BY <1>2, <2>1 DEF AgentInv, TimerOwned
<1>8. ReadStaysFresh'
  <2>1. step'[c] \notin {"delete", "create"}
    BY <1>1, <1>4, FirstAwait
  <2>2. QED BY <1>2, <1>4, <2>1 DEF AgentInv, ReadStaysFresh, fwVars
<1>9. ProtectedNeverBlocked'
  <2>1. asked \subseteq asked' /\ Staged' = Staged /\ inForce' = inForce
    BY <1>2 DEF Staged, fwVars
  <2>2. QED BY <2>1 DEF AgentInv, ProtectedNeverBlocked
<1>10. QED BY <1>3, <1>5, <1>6, <1>7, <1>8, <1>9 DEF AgentInv

\* What the end of a function does to the callers: its own rests, at most one
\* that was queued starts, nobody else moves.
LEMMA FinishEffect ==
    ASSUME LockInv, NEW c \in Callers, Finish(c)
    PROVE  /\ at'[c] = "idle"
           /\ \A d \in Callers \ {c} :
                 /\ at[d] \in {"idle", "queued"}
                 /\ at'[d] \in {at[d], "handed"}
                 /\ at'[d] # at[d] => at[d] = "queued"
<1>1. /\ at \in [Callers -> CallerStates]
      /\ \A d \in Callers \ {c} : at[d] \in {"idle", "queued"}
  BY DEF LockInv, LockTypeOK, MutualExclusion, Running, CallerStates, Finish,
         FinishDirect, FinishHanded
<1>2. CASE FinishDirect(c) /\ writeQueue # <<>>
  <2>1. /\ Head(writeQueue) \in Callers
        /\ at[Head(writeQueue)] = "queued"
    <3>1. /\ writeQueue \in Seq(Callers)
          /\ \A i, j \in 1..Len(writeQueue) : writeQueue[i] = writeQueue[j] => i = j
          /\ \A d \in Callers :
                at[d] = "queued" <=> \E i \in 1..Len(writeQueue) : writeQueue[i] = d
      BY DEF LockInv, LockTypeOK, LockTruthful
    <3>2. QED BY <3>1, <1>2, ShiftedQueue
  <2>2. PICK next \in Callers : next = Head(writeQueue) /\ at[next] = "queued"
    BY <2>1
  <2>3. at' = [at EXCEPT ![c] = "idle", ![next] = "handed"] /\ at[c] = "direct"
    BY <1>2, <2>2 DEF FinishDirect
  <2>4. QED BY <1>1, <2>2, <2>3
<1>3. CASE FinishHanded(c) \/ (FinishDirect(c) /\ writeQueue = <<>>)
  <2>1. at' = [at EXCEPT ![c] = "idle"]
    BY <1>3 DEF FinishHanded, FinishDirect
  <2>2. QED BY <1>1, <2>1
<1>4. QED BY <1>2, <1>3 DEF Finish

LEMMA ReturnKeeps ==
    ASSUME AgentInv, NEW c \in Callers, Return(c)
    PROVE  AgentInv'
<1>1. /\ TypeOK /\ LockInv /\ Finish(c)
      /\ step[c] \in {"done", "failed"}
      /\ \A d \in Callers \ {c} : step[d] = "none" /\ FnInv(d)
  BY OthersRest DEF AgentInv, Return
<1>2. /\ step' = [d \in Callers |->
                    IF d = c THEN "none"
                    ELSE IF at'[d] = "handed" THEN First(req[d]) ELSE step[d]]
      /\ req' = [req EXCEPT ![c] = None]
      /\ seen' = [seen EXCEPT ![c] = None]
      /\ todo' = [todo EXCEPT ![c] = {}]
      /\ deleted' = [deleted EXCEPT ![c] = FALSE]
      /\ UNCHANGED <<asked, applyTimer, fwVars>>
  BY DEF Return
<1>3. LockInv'
  BY <1>1, FinishKeepsLockInv
<1>4. /\ at'[c] = "idle" /\ req'[c] = None /\ step'[c] = "none" /\ seen'[c] = None
      /\ \A d \in Callers \ {c} :
            /\ at[d] \in {"idle", "queued"}
            /\ at'[d] \in {at[d], "handed"}
            /\ at'[d] # at[d] => at[d] = "queued"
            /\ req'[d] = req[d] /\ seen'[d] = seen[d]
            /\ step'[d] = IF at'[d] = "handed" THEN First(req[d]) ELSE "none"
  BY <1>1, <1>2, FinishEffect DEF TypeOK
<1>5. \A d \in Callers \ {c} :
         at'[d] = "handed" => req[d] \in AllRequests /\ req[d] # None
  BY <1>1, <1>4, AgentAssumption DEF FnInv, TypeOK
<1>6. TypeOK'
  <2>1. step' \in [Callers -> Steps]
    BY <1>1, <1>2, <1>4, <1>5, FirstAwait DEF TypeOK, Steps
  <2>2. req' \in [Callers -> Requests \cup {None}]
    BY <1>1, <1>2 DEF TypeOK
  <2>3. seen' \in [Callers -> AliasContents]
    BY <1>1, <1>2 DEF TypeOK, AliasContents
  <2>4. todo' \in [Callers -> SUBSET RuleIds] /\ deleted' \in [Callers -> BOOLEAN]
    BY <1>1, <1>2 DEF TypeOK
  <2>5. QED BY <1>1, <1>2, <1>3, <2>1, <2>2, <2>3, <2>4
               DEF TypeOK, LockInv, fwVars, Staged
<1>7. ASSUME NEW d \in Callers PROVE FnInv(d)'
  <2>1. CASE d = c
    BY <1>4, <2>1 DEF FnInv, Running
  <2>2. CASE d # c /\ at'[d] # "handed"
    BY <1>1, <1>2, <1>4, <2>2 DEF FnInv, Running, Valid, Unvalidated, fwVars
  <2>3. CASE d # c /\ at'[d] = "handed"
    BY <1>1, <1>2, <1>4, <1>5, <2>3, FirstAwait DEF FnInv, Running, Valid, Unvalidated, fwVars
  <2>4. QED BY <2>1, <2>2, <2>3
<1>8. \A d \in Callers : step'[d] \notin {"armed", "delete", "create"}
  BY <1>4, <1>5, FirstAwait
<1>9. TimerOwned'
  BY <1>1, <1>2, <1>8 DEF AgentInv, TimerOwned
<1>10. ReadStaysFresh'
  BY <1>8 DEF ReadStaysFresh
<1>11. ProtectedNeverBlocked'
  BY <1>2 DEF AgentInv, ProtectedNeverBlocked, Staged, fwVars
<1>12. QED BY <1>3, <1>6, <1>7, <1>9, <1>10, <1>11 DEF AgentInv

LEMMA RestartKeeps == ASSUME AgentInv, Restart PROVE AgentInv'
<1>2. LockInv'
  <2>1. /\ writeLock' = FALSE /\ writeQueue' = <<>>
        /\ at' = [c \in Callers |-> "idle"]
    BY DEF Restart
  <2>2. /\ writeQueue' \in Seq(Callers) /\ Len(writeQueue') = 0
        /\ \A i \in 1..Len(writeQueue') : FALSE
    BY <2>1
  <2>3. /\ at' \in [Callers -> CallerStates]
        /\ \A c \in Callers : at'[c] = "idle"
    BY <2>1 DEF CallerStates
  <2>4. QED BY <2>1, <2>2, <2>3
               DEF LockInv, LockTypeOK, LockTruthful, MutualExclusion, Running
<1>3. TypeOK'
  BY <1>2 DEF AgentInv, Restart, TypeOK, LockInv, Steps, Staged, AliasContents,
              fwVars
<1>4. (\A c \in Callers : FnInv(c))' /\ TimerOwned' /\ ReadStaysFresh'
  BY DEF Restart, FnInv, Running, TimerOwned, ReadStaysFresh
<1>5. ProtectedNeverBlocked'
  BY DEF AgentInv, Restart, ProtectedNeverBlocked, Staged, fwVars
<1>6. QED BY <1>2, <1>3, <1>4, <1>5 DEF AgentInv
-----------------------------------------------------------------------------
LEMMA AgentStep == AgentInv /\ [Next]_vars => AgentInv'
<1> SUFFICES ASSUME AgentInv, [Next]_vars PROVE AgentInv'
  OBVIOUS
<1>1. CASE UNCHANGED vars
  BY <1>1 DEF vars, lockVars, fnVars, fwVars, AgentInv, TypeOK, LockInv, LockTypeOK,
              LockTruthful, MutualExclusion, Running, FnInv, Valid, Unvalidated, TimerOwned,
              ReadStaysFresh, ProtectedNeverBlocked, Staged
<1>2. ASSUME NEW c \in Callers, NEW r \in Requests, Call(c, r) PROVE AgentInv'
  BY <1>2, CallKeeps
<1>3. ASSUME NEW c \in Callers, FnStep(c) PROVE AgentInv'
  BY <1>3, ListAliasesKeeps, DeleteForRewriteKeeps, CreateForRewriteKeeps,
     PostRuleKeeps, GetRulesKeeps, DeleteRulesKeeps, UnblockRuleKeeps,
     NamedAliasKeeps, ApplyKeeps, ReturnKeeps DEF FnStep
<1>4. CASE Restart
  BY <1>4, RestartKeeps
<1>5. QED BY <1>1, <1>2, <1>3, <1>4 DEF Next

\* The inductive invariant of the agent, types included: for every set of calls,
\* aliases created and deleted by any name and with any addresses among them.
THEOREM AgentCorrect == Spec => []AgentInv
BY AgentInit, AgentStep, PTL DEF Spec

\* A read-modify-write never works on a stale listing, whatever fails.
THEOREM ReadsStayFresh == Spec => []ReadStaysFresh
<1>1. AgentInv => ReadStaysFresh
  BY DEF AgentInv
<1>2. QED BY <1>1, AgentCorrect, PTL

\* Whatever is called, aliases created by name included, whatever fails and
\* whichever restarts: a protected address is in no rule, and in no alias but
\* those into which a call that does not validate was to put it.
THEOREM ProtectedStayUnblocked == Spec => []ProtectedNeverBlocked
<1>1. AgentInv => ProtectedNeverBlocked
  BY DEF AgentInv
<1>2. QED BY <1>1, AgentCorrect, PTL

\* A block or isolation answered as done is staged, at a firewall that takes the
\* field rewrites post.
THEOREM ReportedBlocksAreStaged ==
    ASSUME "address" \in Fields PROVE Spec => []ReportedBlockStaged
<1>1. AgentInv => ReportedBlockStaged
  BY DEF AgentInv, FnInv, ReportedBlockStaged
<1>2. QED BY <1>1, AgentCorrect, PTL

\* No function of another caller makes applyChanges return early.
THEOREM ApplyIsNeverSuppressed == Spec => []ApplyNeverSuppressed
<1>1. AgentInv => ApplyNeverSuppressed
  <2> SUFFICES ASSUME AgentInv, NEW c \in Callers, step[c] = "apply"
               PROVE  ~applyTimer
    BY DEF ApplyNeverSuppressed
  <2>1. QED BY RunningHasRequest
<1>2. QED BY <1>1, AgentCorrect, PTL
-----------------------------------------------------------------------------
(* When no request fails. *)

NoFaults == Faults = {}

LEMMA OnlyOk == NoFaults => Outcomes = {"ok"} /\ TakesEffect("ok") /\ \A x : Lost(x) = {}
BY DEF NoFaults, Outcomes, TakesEffect, Lost

StartAwaits ==
    {"none", "list", "postRule", "getRules", "unblockRule", "createAlias", "deleteAlias"}

\* The other callers rest, or start.
LEMMA OthersWait ==
    ASSUME AgentInv, NEW c \in Callers, FnStep(c)
    PROVE  /\ step[c] # "none"
           /\ \A d \in Callers \ {c} : /\ step[d] = "none" /\ step'[d] \in StartAwaits
                                       /\ req'[d] = req[d] /\ seen'[d] = seen[d]
<1>1. step[c] # "none"
  BY DEF FnStep, ListAliases, DeleteForRewrite, CreateForRewrite, PostRule, GetRules,
         DeleteRules, UnblockRule, CreateAlias, DeleteAlias, ApplyChanges, TimerFires,
         Applied, Return
<1>2. \A d \in Callers \ {c} : step[d] = "none"
  BY <1>1, OthersRest DEF AgentInv
<1>3. TypeOK
  BY DEF AgentInv
<1>4. CASE ~Return(c)
  <2>1. /\ req' = req
        /\ step' = step \/ \E s : step' = [step EXCEPT ![c] = s]
        /\ seen' = seen \/ \E x : seen' = [seen EXCEPT ![c] = x]
    <3>1. CASE ListAliases(c)
      BY <3>1 DEF ListAliases, Goto
    <3>2. CASE DeleteForRewrite(c) \/ CreateForRewrite(c)
      BY <3>2 DEF DeleteForRewrite, CreateForRewrite, Goto
    <3>3. CASE PostRule(c) \/ GetRules(c) \/ UnblockRule(c)
      BY <3>3 DEF PostRule, GetRules, UnblockRule, Goto
    <3>4. CASE DeleteRules(c)
      BY <3>4 DEF DeleteRules, Goto
    <3>5. CASE CreateAlias(c) \/ DeleteAlias(c)
      BY <3>5 DEF CreateAlias, DeleteAlias, Goto
    <3>6. CASE ApplyChanges(c) \/ TimerFires(c) \/ Applied(c)
      BY <3>6 DEF ApplyChanges, TimerFires, Applied, Goto
    <3>7. QED BY <1>4, <3>1, <3>2, <3>3, <3>4, <3>5, <3>6 DEF FnStep
  <2>2. QED BY <1>1, <1>2, <1>3, <2>1 DEF TypeOK, StartAwaits
<1>5. CASE Return(c)
  <2>1. /\ step' = [d \in Callers |->
                      IF d = c THEN "none"
                      ELSE IF at'[d] = "handed" THEN First(req[d]) ELSE step[d]]
        /\ req' = [req EXCEPT ![c] = None]
        /\ seen' = [seen EXCEPT ![c] = None]
        /\ LockInv /\ Finish(c)
    BY <1>5 DEF Return, AgentInv
  <2>2. ASSUME NEW d \in Callers \ {c}
        PROVE  step'[d] \in StartAwaits /\ req'[d] = req[d] /\ seen'[d] = seen[d]
    <3>1. req'[d] = req[d] /\ seen'[d] = seen[d]
      BY <1>3, <2>1, <2>2 DEF TypeOK
    <3>2. CASE at'[d] = "handed"
      <4>1. at[d] = "queued"
        BY <2>1, <3>2, FinishEffect
      <4>2. req[d] \in AllRequests
        BY <4>1, AgentAssumption, <1>3 DEF AgentInv, FnInv, TypeOK
      <4>3. First(req[d]) \in StartAwaits
        BY <4>2, FirstAwait DEF Steps, StartAwaits
      <4>4. QED BY <2>1, <2>2, <3>1, <3>2, <4>3
    <3>3. CASE at'[d] # "handed"
      BY <1>2, <2>1, <2>2, <3>1, <3>3 DEF StartAwaits
    <3>4. QED BY <3>2, <3>3
  <2>3. QED BY <1>1, <1>2, <2>2
<1>6. QED BY <1>4, <1>5

\* The alias is gone when its new content is posted: the post is not refused.
\* And an alias is rewritten only to change what was found in it.
CleanRewrite ==
    \A c \in Callers :
        /\ step[c] = "create" => aliases[AliasOf(req[c])] = None
        /\ step[c] \in {"delete", "create"}
              => (IsAdd(req[c]) <=> req[c].on \notin Listed(seen[c]))

LEMMA CleanStep ==
    ASSUME NoFaults, AgentInv, CleanRewrite, [Next]_vars
    PROVE  CleanRewrite'
<1>1. ASSUME NEW c \in Callers, NEW r \in Requests, Call(c, r) PROVE CleanRewrite'
  <2>1. /\ aliases' = aliases /\ seen' = seen /\ r \in AllRequests
        /\ step' = [step EXCEPT ![c] = IF at'[c] = "direct" THEN First(r) ELSE "none"]
        /\ req' = [req EXCEPT ![c] = r]
    BY <1>1, AgentAssumption DEF Call, fwVars
  <2>2. step'[c] \notin {"delete", "create"}
    BY <2>1, FirstAwait DEF AgentInv, TypeOK
  <2>3. \A d \in Callers \ {c} : step'[d] = step[d] /\ req'[d] = req[d]
    BY <2>1 DEF AgentInv, TypeOK
  <2>4. QED BY <2>1, <2>2, <2>3 DEF CleanRewrite, Listed
<1>2. ASSUME NEW c \in Callers, FnStep(c) PROVE CleanRewrite'
  <2>1. \A d \in Callers \ {c} : step'[d] \notin {"delete", "create"}
    BY <1>2, OthersWait DEF StartAwaits
  <2>2. TypeOK /\ step[c] # "none" /\ req[c] # None
    BY <1>2, OthersWait, RunningHasRequest DEF AgentInv
  <2>3. AliasOf(req[c]) \in Aliases
    BY <2>2, RequestFacts
  <2> SUFFICES ASSUME step'[c] \in {"delete", "create"}
               PROVE  /\ step'[c] = "create" => aliases'[AliasOf(req'[c])] = None
                      /\ IsAdd(req'[c]) <=> req'[c].on \notin Listed(seen'[c])
    BY <2>1 DEF CleanRewrite, Listed
  <2>4. CASE ListAliases(c)
    <3>1. /\ step' = [step EXCEPT ![c] =
                        IF IsAdd(req[c]) = (req[c].on \in Listed(aliases[AliasOf(req[c])]))
                        THEN "done"
                        ELSE IF aliases[AliasOf(req[c])] = None THEN "create" ELSE "delete"]
          /\ seen' = [seen EXCEPT ![c] = aliases[AliasOf(req[c])]]
          /\ req' = req /\ aliases' = aliases
      BY <2>4, OnlyOk DEF ListAliases, Goto, fwVars
    <3>2. /\ step'[c] = IF IsAdd(req[c]) = (req[c].on \in Listed(aliases[AliasOf(req[c])]))
                        THEN "done"
                        ELSE IF aliases[AliasOf(req[c])] = None THEN "create" ELSE "delete"
          /\ seen'[c] = aliases[AliasOf(req[c])]
      BY <2>2, <3>1 DEF TypeOK
    <3>3. IsAdd(req[c]) # (req[c].on \in Listed(aliases[AliasOf(req[c])]))
      BY <3>2
    <3>4. IsAdd(req[c]) \in BOOLEAN
      BY DEF IsAdd
    <3>5. QED BY <3>1, <3>2, <3>3, <3>4 DEF Listed
  <2>5. CASE DeleteForRewrite(c)
    <3>1. /\ aliases' = [aliases EXCEPT ![AliasOf(req[c])] = None]
          /\ req' = req /\ seen' = seen /\ step[c] = "delete"
      BY <2>5, OnlyOk DEF DeleteForRewrite
    <3>2. IsAdd(req'[c]) <=> req'[c].on \notin Listed(seen'[c])
      BY <3>1 DEF CleanRewrite
    <3>3. QED BY <2>2, <2>3, <3>1, <3>2 DEF TypeOK, Staged, Configs
  <2>6. CASE CreateForRewrite(c) \/ PostRule(c) \/ GetRules(c) \/ UnblockRule(c)
             \/ CreateAlias(c) \/ DeleteAlias(c) \/ ApplyChanges(c) \/ TimerFires(c)
             \/ Applied(c)
    BY <2>2, <2>6 DEF CreateForRewrite, PostRule, GetRules, UnblockRule, CreateAlias,
       DeleteAlias, ApplyChanges, TimerFires, Applied, Goto, TypeOK
  <2>7. CASE DeleteRules(c)
    BY <2>2, <2>7 DEF DeleteRules, Goto, TypeOK
  <2>8. CASE Return(c)
    BY <2>8 DEF Return
  <2>9. QED BY <1>2, <2>4, <2>5, <2>6, <2>7, <2>8 DEF FnStep
<1>3. CASE Restart
  BY <1>3 DEF Restart, NoFaults
<1>4. CASE UNCHANGED vars
  BY <1>4 DEF vars, fnVars, fwVars, CleanRewrite, Listed
<1>5. QED BY <1>1, <1>2, <1>3, <1>4 DEF Next

LEMMA CleanAtFirst == Init => CleanRewrite
BY DEF Init, CleanRewrite

\* A function changed what is staged and has not applied it yet.
Unapplied(c) == \/ step[c] \in {"create", "apply", "armed", "applying"}
                \/ step[c] = "deleteRules" /\ deleted[c]

QuietInv == inForce = Staged \/ \E c \in Callers : Unapplied(c)

\* No call creates or deletes an alias by name, which apply nothing.
NoNamedAliases == \A r \in Requests : r.kind \notin {"createAlias", "deleteAlias"}

LEMMA FunctionsApply ==
    ASSUME NoFaults, NoNamedAliases, AgentInv, CleanRewrite, QuietInv,
           NEW c \in Callers, FnStep(c)
    PROVE  QuietInv'
<1>1. /\ TypeOK /\ step[c] # "none" /\ req[c] # None /\ FnInv(c)
      /\ applyTimer <=> step[c] = "armed"
  BY OthersWait, RunningHasRequest DEF AgentInv
<1>2. inForce # Staged => Unapplied(c)
  BY OthersWait DEF QuietInv, Unapplied
<1>3. Outcomes = {"ok"} /\ TakesEffect("ok")
  BY OnlyOk
<1> DEFINE Kept == UNCHANGED <<aliases, rules, inForce>>
<1>4. CASE ListAliases(c) \/ GetRules(c)
  BY <1>2, <1>4 DEF ListAliases, GetRules, Unapplied, QuietInv, Staged, fwVars
<1>5. CASE DeleteForRewrite(c)
  BY <1>1, <1>5 DEF DeleteForRewrite, Goto, TypeOK, QuietInv, Unapplied
<1>6. CASE CreateForRewrite(c)
  <2>1. step' = [step EXCEPT ![c] = "apply"]
    BY <1>3, <1>6 DEF CreateForRewrite, Goto, CleanRewrite
  <2>2. QED BY <1>1, <2>1 DEF TypeOK, QuietInv, Unapplied
<1>7. CASE PostRule(c)
  <2>1. CASE step' = [step EXCEPT ![c] = "apply"]
    BY <1>1, <2>1 DEF TypeOK, QuietInv, Unapplied
  <2>2. CASE rules' = rules
    BY <1>2, <1>7, <2>2 DEF PostRule, Unapplied, QuietInv, Staged
  <2>3. QED BY <1>3, <1>7, <2>1, <2>2 DEF PostRule, Goto
<1>8. CASE DeleteRules(c)
  <2>1. CASE /\ todo[c] = {}
             /\ Goto(c, IF deleted[c] THEN "apply" ELSE "done")
             /\ UNCHANGED <<todo, deleted, rules>>
    <3>1. CASE deleted[c]
      BY <1>1, <2>1, <3>1 DEF Goto, TypeOK, QuietInv, Unapplied
    <3>2. CASE ~deleted[c]
      <4>1. inForce = Staged
        BY <1>2, <1>8, <3>2 DEF DeleteRules, Unapplied
      <4>2. QED BY <1>8, <2>1, <4>1 DEF DeleteRules, QuietInv, Staged
    <3>3. QED BY <3>1, <3>2
  <2>2. CASE /\ deleted' = [deleted EXCEPT ![c] = @ \/ "ok" = "ok"]
             /\ UNCHANGED step
    <3>1. deleted'[c] /\ step'[c] = "deleteRules"
      BY <1>1, <1>8, <2>2 DEF DeleteRules, TypeOK
    <3>2. QED BY <3>1 DEF QuietInv, Unapplied
  <2>3. QED BY <1>3, <1>8, <2>1, <2>2 DEF DeleteRules
<1>9. CASE UnblockRule(c)
  BY <1>1, <1>3, <1>9 DEF UnblockRule, Goto, TypeOK, QuietInv, Unapplied
<1>10. ~(CreateAlias(c) \/ DeleteAlias(c))
  BY <1>1 DEF CreateAlias, DeleteAlias, FnInv, NoNamedAliases, TypeOK
<1>11. CASE ApplyChanges(c) \/ TimerFires(c)
  BY <1>1, <1>11 DEF ApplyChanges, TimerFires, Goto, TypeOK, QuietInv, Unapplied
<1>12. CASE Applied(c)
  BY <1>3, <1>12 DEF Applied, QuietInv, Staged
<1>13. CASE Return(c)
  BY <1>2, <1>13 DEF Return, Unapplied, QuietInv, Staged, fwVars
<1>14. QED BY <1>4, <1>5, <1>6, <1>7, <1>8, <1>9, <1>10, <1>11, <1>12, <1>13
              DEF FnStep

LEMMA QuietStep ==
    ASSUME NoFaults, NoNamedAliases, AgentInv, CleanRewrite, QuietInv, [Next]_vars
    PROVE  QuietInv'
<1>1. ASSUME NEW c \in Callers, NEW r \in Requests, Call(c, r) PROVE QuietInv'
  <2>1. step[c] = "none" /\ TypeOK
    BY <1>1 DEF Call, Write, WriteDirect, WriteQueued, AgentInv, FnInv, Running
  <2>2. \A d \in Callers \ {c} : step'[d] = step[d] /\ deleted' = deleted
    BY <1>1, <2>1 DEF Call, TypeOK
  <2>3. \A d \in Callers : Unapplied(d) => Unapplied(d)'
    BY <2>1, <2>2 DEF Unapplied
  <2>4. Staged' = Staged /\ inForce' = inForce
    BY <1>1 DEF Call, fwVars, Staged
  <2>5. QED BY <2>3, <2>4 DEF QuietInv
<1>2. ASSUME NEW c \in Callers, FnStep(c) PROVE QuietInv'
  BY <1>2, FunctionsApply
<1>3. ~Restart
  BY DEF Restart, NoFaults
<1>4. CASE UNCHANGED vars
  BY <1>4 DEF vars, fnVars, fwVars, QuietInv, Unapplied, Staged
<1>5. QED BY <1>1, <1>2, <1>3, <1>4 DEF Next

\* With the lock free the firewall enforces what is staged, in every instance
\* whose requests are answered and whose calls name no alias.
THEOREM QuiescentFirewall ==
    ASSUME NoFaults, NoNamedAliases PROVE Spec => []QuiescentInForce
<1>1. Init => QuietInv
  BY DEF Init, QuietInv
<1>2. AgentInv /\ QuietInv => QuiescentInForce
  BY DEF AgentInv, FnInv, LockInv, LockTruthful, QuietInv, Unapplied,
         QuiescentInForce
<1>3. Spec => [](CleanRewrite /\ QuietInv)
  <2>1. AgentInv /\ CleanRewrite /\ QuietInv /\ [Next]_vars => CleanRewrite' /\ QuietInv'
    BY CleanStep, QuietStep
  <2>2. QED BY <1>1, <2>1, CleanAtFirst, AgentCorrect, PTL DEF Spec
<1>4. QED BY <1>2, <1>3, AgentCorrect, PTL
-----------------------------------------------------------------------------
(* The operations on aliases are atomic. *)

TakenSteps == {"apply", "armed", "applying", "done", "failed"}

\* The addresses of an alias, when no caller but c rewrites one.
Held(c, a) == IF step[c] = "create" /\ AliasOf(req[c]) = a /\ seen[c] # None
              THEN seen[c] ELSE Content(aliases[a])

LEMMA HeldNow ==
    ASSUME NEW c \in Callers, \A d \in Callers \ {c} : step[d] # "create"
    PROVE  Addresses = [a \in Managed |-> Held(c, a)]
<1>1. ASSUME NEW a \in Managed
      PROVE  (IF BeingRewritten(a) # {} THEN seen[CHOOSE d \in BeingRewritten(a) : TRUE]
              ELSE Content(aliases[a])) = Held(c, a)
  <2>1. BeingRewritten(a) \subseteq {c}
    BY DEF BeingRewritten
  <2>2. CASE BeingRewritten(a) = {}
    BY <2>2 DEF BeingRewritten, Held
  <2>3. CASE BeingRewritten(a) = {c}
    <3>1. step[c] = "create" /\ AliasOf(req[c]) = a /\ seen[c] # None
      BY <2>3 DEF BeingRewritten
    <3>2. (CHOOSE d \in BeingRewritten(a) : TRUE) = c
      BY <2>3
    <3>3. QED BY <2>3, <3>1, <3>2 DEF Held
  <2>4. QED BY <2>1, <2>2, <2>3
<1>2. QED BY <1>1 DEF Addresses

LEMMA HeldNext ==
    ASSUME NEW c \in Callers, \A d \in Callers \ {c} : step'[d] # "create"
    PROVE  Addresses' = [a \in Managed |-> Held(c, a)']
<1>1. ASSUME NEW a \in Managed
      PROVE  (IF BeingRewritten(a)' # {}
              THEN seen'[CHOOSE d \in BeingRewritten(a)' : TRUE]
              ELSE Content(aliases'[a])) = Held(c, a)'
  <2>1. BeingRewritten(a)' \subseteq {c}
    BY DEF BeingRewritten
  <2>2. CASE BeingRewritten(a)' = {}
    BY <2>2 DEF BeingRewritten, Held
  <2>3. CASE BeingRewritten(a)' = {c}
    <3>1. step'[c] = "create" /\ AliasOf(req'[c]) = a /\ seen'[c] # None
      BY <2>3 DEF BeingRewritten
    <3>2. (CHOOSE d \in BeingRewritten(a)' : TRUE) = c
      BY <2>3
    <3>3. QED BY <2>3, <3>1, <3>2 DEF Held
  <2>4. QED BY <2>1, <2>2, <2>3
<1>2. QED BY <1>1 DEF Addresses

\* What a request does to the addresses of one alias; made tells whether
\* createAlias found no alias of the name.
Effected(r, a, s, made) ==
    IF IsAdd(r) /\ AliasOf(r) = a THEN Register!Added(s, r.on)
    ELSE IF IsRemove(r) /\ AliasOf(r) = a THEN Register!Removed(s, r.on)
    ELSE IF r.kind = "createAlias" /\ r.on = a /\ made THEN Register!Found(r.ips)
    ELSE IF r.kind = "deleteAlias" /\ r.on = a THEN {} ELSE s

LEMMA RegisterEffect ==
    ASSUME NEW r \in AllRequests, NEW f, Addresses = [a \in Managed |-> f[a]],
           NEW made \in BOOLEAN,
           made /\ r.kind = "createAlias" /\ r.on \in Managed => f[r.on] = {}
    PROVE  [a \in Managed |-> Effected(r, a, f[a], made)] \in Register!Effects(r)
<1>1. r.kind \in {"blockIp", "unblockIp", "isolateHost", "unIsolateHost",
                  "blockPort", "deleteRule", "unblockRule", "createAlias",
                  "deleteAlias"}
  BY DEF AllRequests
<1>2. Blocklist # Isolation /\ Managed = {Blocklist, Isolation}
  BY DEF Managed, Blocklist, Isolation
<1>3. \A a \in Managed : Addresses[a] = f[a]
  OBVIOUS
<1> HIDE DEF Blocklist, Isolation
<1>4. CASE r.kind = "blockIp"
  <2>1. Register!Effects(r)
           = {Register!Write(Blocklist, Register!Added(Addresses[Blocklist], r.on))}
    BY <1>4 DEF Register!Effects
  <2>2. \A a \in Managed : Effected(r, a, f[a], made)
           = IF a = Blocklist THEN Register!Added(f[Blocklist], r.on) ELSE f[a]
    BY <1>4 DEF Effected, IsAdd, IsRemove, AliasOf
  <2>3. QED BY <1>2, <1>3, <2>1, <2>2 DEF Register!Write
<1>5. CASE r.kind = "unblockIp"
  <2>1. Register!Effects(r)
           = {Register!Write(Blocklist, Register!Removed(Addresses[Blocklist], r.on))}
    BY <1>5 DEF Register!Effects
  <2>2. \A a \in Managed : Effected(r, a, f[a], made)
           = IF a = Blocklist THEN Register!Removed(f[Blocklist], r.on) ELSE f[a]
    BY <1>5 DEF Effected, IsAdd, IsRemove, AliasOf
  <2>3. QED BY <1>2, <1>3, <2>1, <2>2 DEF Register!Write
<1>6. CASE r.kind = "isolateHost"
  <2>1. Register!Effects(r)
           = {Register!Write(Isolation, Register!Added(Addresses[Isolation], r.on))}
    BY <1>6 DEF Register!Effects
  <2>2. \A a \in Managed : Effected(r, a, f[a], made)
           = IF a = Isolation THEN Register!Added(f[Isolation], r.on) ELSE f[a]
    BY <1>6 DEF Effected, IsAdd, IsRemove, AliasOf
  <2>3. QED BY <1>2, <1>3, <2>1, <2>2 DEF Register!Write
<1>7. CASE r.kind = "unIsolateHost"
  <2>1. Register!Effects(r)
           = {Register!Write(Isolation, Register!Removed(Addresses[Isolation], r.on))}
    BY <1>7 DEF Register!Effects
  <2>2. \A a \in Managed : Effected(r, a, f[a], made)
           = IF a = Isolation THEN Register!Removed(f[Isolation], r.on) ELSE f[a]
    BY <1>7 DEF Effected, IsAdd, IsRemove, AliasOf
  <2>3. QED BY <1>2, <1>3, <2>1, <2>2 DEF Register!Write
<1>8. CASE r.kind \in {"blockPort", "deleteRule", "unblockRule"}
  <2>1. Register!Effects(r) = {Addresses}
    BY <1>8 DEF Register!Effects
  <2>2. \A a \in Managed : Effected(r, a, f[a], made) = f[a]
    BY <1>8 DEF Effected, IsAdd, IsRemove
  <2>3. QED BY <2>1, <2>2
<1>9. CASE r.kind = "createAlias"
  <2>1. Register!Effects(r)
           = {Addresses} \cup {Register!Write(r.on, Register!Found(r.ips)) :
                                 n \in {m \in Managed : m = r.on /\ Addresses[m] = {}}}
    BY <1>9 DEF Register!Effects
  <2>2. \A a \in Managed : Effected(r, a, f[a], made)
           = IF a = r.on /\ made THEN Register!Found(r.ips) ELSE f[a]
    BY <1>9 DEF Effected, IsAdd, IsRemove
  <2>3. CASE made /\ r.on \in Managed
    <3>1. r.on \in {m \in Managed : m = r.on /\ Addresses[m] = {}}
      BY <1>3, <1>9, <2>3
    <3>2. Register!Write(r.on, Register!Found(r.ips)) \in Register!Effects(r)
      BY <2>1, <3>1
    <3>3. [a \in Managed |-> Effected(r, a, f[a], made)]
             = Register!Write(r.on, Register!Found(r.ips))
      BY <1>3, <2>2, <2>3 DEF Register!Write
    <3>4. QED BY <3>2, <3>3
  <2>4. CASE ~(made /\ r.on \in Managed)
    <3>1. [a \in Managed |-> Effected(r, a, f[a], made)] = Addresses
      BY <2>2, <2>4
    <3>2. QED BY <2>1, <3>1
  <2>5. QED BY <2>3, <2>4
<1>10. CASE r.kind = "deleteAlias"
  <2>1. Register!Effects(r) = {Register!Write(r.on, {})}
    BY <1>10 DEF Register!Effects
  <2>2. \A a \in Managed : Effected(r, a, f[a], made) = IF a = r.on THEN {} ELSE f[a]
    BY <1>10 DEF Effected, IsAdd, IsRemove
  <2>3. QED BY <1>3, <2>1, <2>2 DEF Register!Write
<1>11. QED BY <1>1, <1>4, <1>5, <1>6, <1>7, <1>8, <1>9, <1>10

\* The step at which a function's effect is there, seen from the register.
LEMMA TakesItsEffect ==
    ASSUME AgentInv, NEW c \in Callers, FnStep(c), req' = req,
           step[c] \notin TakenSteps, step'[c] \in TakenSteps,
           NEW made \in BOOLEAN,
           made /\ req[c].kind = "createAlias" /\ req[c].on \in Managed
              => Held(c, req[c].on) = {},
           \A a \in Managed : Held(c, a)' = Effected(req[c], a, Held(c, a), made)
    PROVE  Register!Take(c)
<1>1. \A d \in Callers \ {c} : step[d] = "none" /\ step'[d] \in StartAwaits
  BY OthersWait
<1>2. req[c] \in AllRequests /\ req[c] # None
  BY OthersWait, RunningHasRequest, RequestFacts DEF AgentInv
<1>3. /\ Addresses = [a \in Managed |-> Held(c, a)]
      /\ Addresses' = [a \in Managed |-> Held(c, a)']
  BY <1>1, HeldNow, HeldNext DEF StartAwaits
<1>4. PICK f : f = [a \in Managed |-> Held(c, a)]
  OBVIOUS
<1>5. [a \in Managed |-> Effected(req[c], a, f[a], made)] \in Register!Effects(req[c])
  <2>1. made /\ req[c].kind = "createAlias" /\ req[c].on \in Managed => f[req[c].on] = {}
    BY <1>4
  <2>2. Addresses = [a \in Managed |-> f[a]]
    BY <1>3, <1>4
  <2> HIDE DEF Effected
  <2>3. QED BY <1>2, <2>1, <2>2, RegisterEffect
<1>6. Addresses' \in Register!Effects(req[c])
  BY <1>3, <1>4, <1>5
<1>7. EffectTaken = {} /\ EffectTaken' = {c}
  BY <1>1 DEF EffectTaken, TakenSteps, StartAwaits
<1>8. QED BY <1>2, <1>6, <1>7 DEF Register!Take

\* A step the register does not see.
LEMMA UnseenByRegister ==
    ASSUME AgentInv, NEW c \in Callers, FnStep(c), req' = req,
           step[c] \in TakenSteps <=> step'[c] \in TakenSteps,
           \A a \in Managed : Held(c, a)' = Held(c, a)
    PROVE  UNCHANGED Register!vars
<1>1. \A d \in Callers \ {c} : step[d] = "none" /\ step'[d] \in StartAwaits
  BY OthersWait
<1>2. Addresses' = Addresses
  BY <1>1, HeldNow, HeldNext DEF StartAwaits
<1>3. EffectTaken' = EffectTaken
  BY <1>1 DEF EffectTaken, TakenSteps, StartAwaits
<1>4. QED BY <1>2, <1>3 DEF Register!vars

Observed(c) == Register!Take(c) \/ Register!Return(c) \/ UNCHANGED Register!vars

LEMMA ListingObserved ==
    ASSUME NoFaults, AgentInv, NEW c \in Callers, ListAliases(c)
    PROVE  Observed(c)
<1> DEFINE held == aliases[AliasOf(req[c])]
           in == req[c].on \in Listed(held)
           next == IF IsAdd(req[c]) = in THEN "done"
                   ELSE IF held = None THEN "create" ELSE "delete"
<1>1. /\ FnStep(c) /\ step[c] = "list" /\ req' = req /\ aliases' = aliases
      /\ seen' = [seen EXCEPT ![c] = held]
      /\ step' = [step EXCEPT ![c] = next]
  BY OnlyOk DEF FnStep, ListAliases, Goto, fwVars
<1>2. TypeOK /\ (IsAdd(req[c]) \/ IsRemove(req[c])) /\ ~(IsAdd(req[c]) /\ IsRemove(req[c]))
  BY <1>1, RunningHasRequest DEF AgentInv, FnInv, IsAdd, IsRemove
<1>3. step'[c] = next /\ seen'[c] = held
  BY <1>1, <1>2 DEF TypeOK
<1>4. \A a \in Managed : Held(c, a) = Content(aliases[a]) /\ Held(c, a)' = Content(aliases[a])
  BY <1>1, <1>3 DEF Held
<1>5. CASE IsAdd(req[c]) = in
  <2>1. \A a \in Managed : Held(c, a)' = Effected(req[c], a, Held(c, a), FALSE)
    <3>1. /\ IsAdd(req[c]) => req[c].on \in Register!Found(Content(held))
          /\ IsRemove(req[c]) => req[c].on \notin Register!Found(Content(held))
      BY <1>2, <1>5 DEF Register!Found, Listed, IsAdd
    <3>2. req[c].kind \notin {"createAlias", "deleteAlias"}
      BY <1>2 DEF IsAdd, IsRemove
    <3>3. QED BY <1>2, <1>4, <3>1, <3>2 DEF Effected, Register!Added, Register!Removed
  <2>2. step[c] \notin TakenSteps /\ step'[c] \in TakenSteps
    BY <1>1, <1>3, <1>5 DEF TakenSteps
  <2>3. QED BY <1>1, <2>1, <2>2, TakesItsEffect DEF Observed
<1>6. CASE IsAdd(req[c]) # in
  <2>1. step[c] \notin TakenSteps /\ step'[c] \notin TakenSteps
    BY <1>1, <1>3, <1>6 DEF TakenSteps
  <2>2. QED BY <1>1, <1>4, <2>1, UnseenByRegister DEF Observed
<1>7. QED BY <1>5, <1>6

LEMMA RewriteObserved ==
    ASSUME NoFaults, AgentInv, CleanRewrite, NEW c \in Callers,
           DeleteForRewrite(c) \/ CreateForRewrite(c)
    PROVE  Observed(c)
<1>1. /\ FnStep(c) /\ step[c] \in {"delete", "create"} /\ req' = req /\ seen' = seen
      /\ TypeOK /\ FnInv(c) /\ Fresh(c) /\ req[c] # None
  BY RunningHasRequest DEF FnStep, DeleteForRewrite, CreateForRewrite, AgentInv
<1>2. /\ AliasOf(req[c]) \in Aliases /\ Managed \subseteq Aliases
      /\ aliases \in [Aliases -> AliasContents]
  BY <1>1, RequestFacts DEF TypeOK, Staged, Configs, Managed
<1>3. CASE DeleteForRewrite(c)
  <2>1. /\ aliases' = [aliases EXCEPT ![AliasOf(req[c])] = None]
        /\ step' = [step EXCEPT ![c] = "create"] /\ step[c] = "delete"
    BY <1>3, OnlyOk DEF DeleteForRewrite, Goto
  <2>2. /\ step'[c] = "create"
        /\ seen[c] # None /\ aliases[AliasOf(req[c])] = seen[c]
    BY <1>1, <2>1 DEF TypeOK, FnInv, Fresh
  <2>3. \A a \in Managed : Held(c, a)' = Held(c, a)
    BY <1>1, <1>2, <2>1, <2>2 DEF Held, Content
  <2>4. step[c] \notin TakenSteps /\ step'[c] \notin TakenSteps
    BY <2>1, <2>2 DEF TakenSteps
  <2>5. QED BY <1>1, <2>3, <2>4, UnseenByRegister DEF Observed
<1>4. CASE CreateForRewrite(c)
  <2>1. /\ aliases[AliasOf(req[c])] = None
        /\ aliases' = [aliases EXCEPT ![AliasOf(req[c])] = Rewritten(c)]
        /\ step' = [step EXCEPT ![c] = "apply"] /\ step[c] = "create"
    BY <1>4, OnlyOk DEF CreateForRewrite, CleanRewrite, Goto
  <2>2. step'[c] = "apply"
    BY <1>1, <2>1 DEF TypeOK
  <2>3. /\ Rewritten(c) # None
        /\ IsAdd(req[c]) \/ IsRemove(req[c])
        /\ ~(IsAdd(req[c]) /\ IsRemove(req[c]))
    BY <1>1, <2>1, RewrittenContent, AgentAssumption DEF FnInv, IsAdd, IsRemove
  <2>4. \A a \in Managed : Held(c, a)' = Effected(req[c], a, Held(c, a), FALSE)
    <3>1. ASSUME NEW a \in Managed PROVE Held(c, a)' = Content(aliases'[a])
      BY <2>2 DEF Held
    <3>2. CASE AliasOf(req[c]) \in Managed
      <4>1. /\ Content(aliases'[AliasOf(req[c])]) = Rewritten(c)
            /\ Held(c, AliasOf(req[c])) = Content(seen[c])
        BY <1>2, <2>1, <2>3 DEF Content, Held
      <4>2. \A a \in Managed \ {AliasOf(req[c])} :
               Content(aliases'[a]) = Content(aliases[a]) /\ Held(c, a) = Content(aliases[a])
        BY <1>2, <2>1 DEF Held
      <4>3. /\ IsAdd(req[c]) => Rewritten(c) = Register!Added(Content(seen[c]), req[c].on)
            /\ IsRemove(req[c]) => Rewritten(c) = Register!Removed(Content(seen[c]), req[c].on)
        BY <2>1, <2>3 DEF CleanRewrite, Rewritten, Posted, Listed, Register!Found,
           Register!Kept, Register!Added, Register!Removed
      <4>4. req[c].kind \notin {"createAlias", "deleteAlias"}
        BY <2>3 DEF IsAdd, IsRemove
      <4> HIDE DEF Rewritten, Register!Added, Register!Removed, Held, Content
      <4>5. QED BY <2>3, <3>1, <4>1, <4>2, <4>3, <4>4 DEF Effected
    <3>3. AliasOf(req[c]) \in Managed
      BY DEF AliasOf, Managed
    <3>4. QED BY <3>2, <3>3
  <2>5. step[c] \notin TakenSteps /\ step'[c] \in TakenSteps
    BY <2>1, <2>2 DEF TakenSteps
  <2>6. QED BY <1>1, <2>4, <2>5, TakesItsEffect DEF Observed
<1>5. QED BY <1>3, <1>4

\* createAlias and deleteAlias: those of other names are no part of the register.
LEMMA NamedObserved ==
    ASSUME NoFaults, AgentInv, NEW c \in Callers, CreateAlias(c) \/ DeleteAlias(c)
    PROVE  Observed(c)
<1>1. /\ FnStep(c) /\ TypeOK /\ FnInv(c) /\ req[c] # None /\ req' = req
      /\ step[c] \in {"createAlias", "deleteAlias"} /\ req[c].kind = step[c]
  BY RunningHasRequest DEF FnStep, CreateAlias, DeleteAlias, AgentInv, FnInv
<1>2. /\ req[c].on \in Aliases /\ Managed \subseteq Aliases
      /\ aliases \in [Aliases -> AliasContents]
      /\ ~IsAdd(req[c]) /\ ~IsRemove(req[c])
  BY <1>1, RequestFacts DEF TypeOK, Staged, Configs, Aliases, IsAdd, IsRemove
<1>3. step'[c] \in {"done", "failed"}
  BY <1>1 DEF CreateAlias, DeleteAlias, Goto, TypeOK
<1>4. step[c] \notin TakenSteps /\ step'[c] \in TakenSteps
  BY <1>1, <1>3 DEF TakenSteps
<1>5. \A a \in Managed : /\ Held(c, a) = Content(aliases[a])
                         /\ Held(c, a)' = Content(aliases'[a])
  BY <1>1, <1>3 DEF Held, Content
<1>6. CASE DeleteAlias(c)
  <2>1. aliases' = [aliases EXCEPT ![req[c].on] = None] /\ req[c].kind = "deleteAlias"
    BY <1>1, <1>6, OnlyOk DEF DeleteAlias
  <2>2. \A a \in Managed : Held(c, a)' = Effected(req[c], a, Held(c, a), FALSE)
    BY <1>2, <1>5, <2>1 DEF Effected, Content
  <2>3. QED BY <1>1, <1>4, <2>2, TakesItsEffect DEF Observed
<1>7. CASE CreateAlias(c) /\ aliases[req[c].on] # None
  <2>1. aliases' = aliases /\ req[c].kind = "createAlias"
    BY <1>1, <1>7 DEF CreateAlias
  <2>2. \A a \in Managed : Held(c, a)' = Effected(req[c], a, Held(c, a), FALSE)
    BY <1>2, <1>5, <2>1 DEF Effected
  <2>3. QED BY <1>1, <1>4, <2>2, TakesItsEffect DEF Observed
<1>8. CASE CreateAlias(c) /\ aliases[req[c].on] = None
  <2>1. /\ aliases' = [aliases EXCEPT ![req[c].on] = Given(req[c].ips)]
        /\ req[c].kind = "createAlias" /\ req[c].ips \in SUBSET Ips
    BY <1>1, <1>8, OnlyOk, RequestFacts DEF CreateAlias
  <2>2. /\ Given(req[c].ips) = Register!Found(req[c].ips)
        /\ Content(Given(req[c].ips)) = Given(req[c].ips)
    BY <2>1, AgentAssumption DEF Given, Register!Found, Content
  <2>3. PICK g : g = Given(req[c].ips)
    OBVIOUS
  <2>4. \A a \in Managed :
           Content(aliases'[a]) = IF a = req[c].on THEN g ELSE Content(aliases[a])
    BY <1>2, <2>1, <2>2, <2>3
  <2>5. \A a \in Managed : Held(c, a)' = Effected(req[c], a, Held(c, a), TRUE)
    BY <1>2, <1>5, <2>1, <2>2, <2>3, <2>4 DEF Effected
  <2>6. req[c].on \in Managed => Held(c, req[c].on) = {}
    BY <1>5, <1>8 DEF Content
  <2>7. QED BY <1>1, <1>4, <2>5, <2>6, TakesItsEffect DEF Observed
<1>9. QED BY <1>6, <1>7, <1>8

\* Rules are no part of the register.
LEMMA OthersObserved ==
    ASSUME AgentInv, NEW c \in Callers,
           \/ PostRule(c) \/ GetRules(c) \/ DeleteRules(c) \/ UnblockRule(c)
           \/ ApplyChanges(c) \/ TimerFires(c) \/ Applied(c)
    PROVE  Observed(c)
<1>1. /\ FnStep(c) /\ TypeOK /\ FnInv(c) /\ req[c] # None /\ req' = req
      /\ step[c] \in {"postRule", "getRules", "deleteRules", "unblockRule",
                      "apply", "armed", "applying"}
  <2>1. /\ req' = req
        /\ step[c] \in {"postRule", "getRules", "deleteRules", "unblockRule",
                        "apply", "armed", "applying"}
    BY DEF PostRule, GetRules, DeleteRules, UnblockRule, ApplyChanges, TimerFires, Applied
  <2>2. FnStep(c)
    BY DEF FnStep
  <2>3. QED BY <2>1, <2>2, RunningHasRequest DEF AgentInv
<1>2. aliases' = aliases
  BY DEF PostRule, GetRules, DeleteRules, UnblockRule, ApplyChanges, TimerFires,
         Applied, fwVars
<1>3. step'[c] # "create" /\ (step[c] \in TakenSteps => step'[c] \in TakenSteps)
  BY <1>1 DEF PostRule, GetRules, DeleteRules, UnblockRule, ApplyChanges, TimerFires,
              Applied, Goto, TypeOK, TakenSteps
<1>4. \A a \in Managed : Held(c, a)' = Held(c, a)
  BY <1>1, <1>2, <1>3 DEF Held
<1>5. CASE step[c] \in TakenSteps <=> step'[c] \in TakenSteps
  BY <1>1, <1>4, <1>5, UnseenByRegister DEF Observed
<1>6. CASE step[c] \notin TakenSteps /\ step'[c] \in TakenSteps
  <2>1. ~IsAdd(req[c]) /\ ~IsRemove(req[c]) /\ req[c].kind \notin {"createAlias", "deleteAlias"}
    BY <1>1, <1>6, RequestFacts DEF FnInv, TakenSteps, IsAdd, IsRemove, UnblockRule
  <2>2. \A a \in Managed : Held(c, a)' = Effected(req[c], a, Held(c, a), FALSE)
    BY <1>4, <2>1 DEF Effected
  <2>3. QED BY <1>1, <1>6, <2>2, TakesItsEffect DEF Observed
<1>7. QED BY <1>3, <1>5, <1>6

LEMMA ReturnObserved ==
    ASSUME AgentInv, NEW c \in Callers, Return(c)
    PROVE  Observed(c)
<1>1. /\ FnStep(c) /\ step[c] \in {"done", "failed"} /\ aliases' = aliases
      /\ req' = [req EXCEPT ![c] = None]
      /\ step' = [d \in Callers |->
                    IF d = c THEN "none"
                    ELSE IF at'[d] = "handed" THEN First(req[d]) ELSE step[d]]
  BY DEF FnStep, Return, fwVars
<1>2. \A d \in Callers \ {c} : step[d] = "none" /\ step'[d] \in StartAwaits
  BY <1>1, OthersWait
<1>3. \A a \in Managed : Held(c, a)' = Held(c, a)
  BY <1>1 DEF Held
<1>4. Addresses' = Addresses
  BY <1>2, <1>3, HeldNow, HeldNext DEF StartAwaits
<1>5. EffectTaken = {c} /\ EffectTaken' = {}
  BY <1>1, <1>2 DEF EffectTaken, StartAwaits
<1>6. QED BY <1>1, <1>4, <1>5 DEF Observed, Register!Return

LEMMA AddressesKept ==
    ASSUME UNCHANGED <<aliases, seen>>,
           \A a \in Managed : BeingRewritten(a)' = BeingRewritten(a)
    PROVE  Addresses' = Addresses
<1>1. ASSUME NEW a \in Managed
      PROVE  (IF BeingRewritten(a)' # {}
              THEN seen'[CHOOSE d \in BeingRewritten(a)' : TRUE]
              ELSE Content(aliases'[a]))
              = IF BeingRewritten(a) # {}
                THEN seen[CHOOSE d \in BeingRewritten(a) : TRUE]
                ELSE Content(aliases[a])
  <2>1. PICK B : B = BeingRewritten(a)
    OBVIOUS
  <2>2. B = BeingRewritten(a)'
    BY <2>1
  <2>3. QED BY ONLY <2>1, <2>2, aliases' = aliases, seen' = seen DEF Content
<1>2. QED BY <1>1 DEF Addresses

LEMMA CallObserved ==
    ASSUME AgentInv, NEW c \in Callers, NEW r \in Requests, Call(c, r)
    PROVE  Register!Invoke(c, r)
<1>1. /\ TypeOK /\ step[c] = "none" /\ req[c] = None /\ r \in AllRequests
      /\ req' = [req EXCEPT ![c] = r]
      /\ step' = [step EXCEPT ![c] = IF at'[c] = "direct" THEN First(r) ELSE "none"]
      /\ aliases' = aliases /\ seen' = seen
  BY AgentAssumption
     DEF Call, Write, WriteDirect, WriteQueued, AgentInv, FnInv, Running, fwVars
<1>2. /\ step'[c] \in StartAwaits
      /\ \A d \in Callers \ {c} : step'[d] = step[d] /\ req'[d] = req[d]
  BY <1>1, FirstAwait DEF TypeOK, Steps, StartAwaits
<1>3. EffectTaken' = EffectTaken
  BY <1>1, <1>2 DEF EffectTaken, StartAwaits
<1>4. \A a \in Managed : BeingRewritten(a)' = BeingRewritten(a)
  BY <1>1, <1>2 DEF BeingRewritten, StartAwaits
<1>5. Addresses' = Addresses
  BY <1>1, <1>4, AddressesKept
<1>6. QED BY <1>1, <1>3, <1>5 DEF Register!Invoke

\* Blocking, unblocking, isolating, un-isolating, creating and deleting are
\* atomic operations on the two aliases for those who call them, as long as
\* requests are answered and whichever names the firewall has for the addresses:
\* AliasRegister, whose effects say what becomes of the addresses then.
THEOREM AliasOperationsAreAtomic ==
    ASSUME NoFaults PROVE Spec => AtomicAliasOperations
<1>1. Init => Register!Init
  <2> SUFFICES ASSUME Init PROVE Register!Init
    OBVIOUS
  <2>1. \A a \in Managed : BeingRewritten(a) = {} /\ Content(aliases[a]) = {}
    BY DEF Init, BeingRewritten, Managed, Aliases, Content
  <2>2. Addresses = [a \in Managed |-> {}]
    BY <2>1 DEF Addresses
  <2>3. EffectTaken = {}
    BY DEF Init, EffectTaken
  <2>4. QED BY <2>2, <2>3 DEF Init, Register!Init
<1>2. AgentInv /\ CleanRewrite /\ [Next]_vars => [Register!Next]_(Register!vars)
  <2> SUFFICES ASSUME AgentInv, CleanRewrite, [Next]_vars
               PROVE  [Register!Next]_(Register!vars)
    OBVIOUS
  <2>1. ASSUME NEW c \in Callers, NEW r \in Requests, Call(c, r)
        PROVE  Register!Next
    BY <2>1, CallObserved DEF Register!Next
  <2>2. ASSUME NEW c \in Callers, FnStep(c)
        PROVE  [Register!Next]_(Register!vars)
    <3>1. Observed(c)
      BY <2>2, ListingObserved, RewriteObserved, NamedObserved, OthersObserved,
         ReturnObserved
         DEF FnStep
    <3>2. QED BY <3>1 DEF Observed, Register!Next
  <2>3. ~Restart
    BY DEF Restart, NoFaults
  <2>4. CASE UNCHANGED vars
    <3>1. \A a \in Managed : BeingRewritten(a)' = BeingRewritten(a)
      BY <2>4 DEF vars, fnVars, BeingRewritten
    <3>2. Addresses' = Addresses
      BY <2>4, <3>1, AddressesKept DEF vars, fnVars, fwVars
    <3>3. QED BY <2>4, <3>2 DEF vars, fnVars, EffectTaken, Register!vars
  <2>5. QED BY <2>1, <2>2, <2>3, <2>4 DEF Next
<1>3. Spec => []CleanRewrite
  <2>1. AgentInv /\ CleanRewrite /\ [Next]_vars => CleanRewrite'
    BY CleanStep
  <2>2. QED BY <2>1, CleanAtFirst, AgentCorrect, PTL DEF Spec
<1>4. QED BY <1>1, <1>2, <1>3, AgentCorrect, PTL
             DEF Spec, AtomicAliasOperations, Register!Spec

\* What the agent's functions do leaves the lock alone, so the writes of the
\* agent serialize as those of the lock by itself do, until the backend dies.
THEOREM AgentWritesSerialize ==
    ASSUME "crash" \notin Faults PROVE Spec => SerializesWrites
<1>1. Init => LockInit
  BY DEF Init
<1>2. [Next]_vars => [LockNext]_lockVars
  <2> SUFFICES ASSUME [Next]_vars PROVE [LockNext]_lockVars
    OBVIOUS
  <2>1. ASSUME NEW c \in Callers, NEW r \in Requests, Call(c, r) PROVE LockNext
    BY <2>1 DEF Call, LockNext
  <2>2. ASSUME NEW c \in Callers, FnStep(c) PROVE [LockNext]_lockVars
    <3>1. CASE Return(c)
      BY <3>1 DEF Return, LockNext
    <3>2. CASE ~Return(c)
      BY <2>2, <3>2 DEF FnStep, ListAliases, DeleteForRewrite, CreateForRewrite,
         PostRule, GetRules, DeleteRules, UnblockRule, CreateAlias, DeleteAlias,
         ApplyChanges, TimerFires, Applied
    <3>3. QED BY <3>1, <3>2
  <2>3. ~Restart
    BY DEF Restart
  <2>4. CASE UNCHANGED vars
    BY <2>4 DEF vars
  <2>5. QED BY <2>1, <2>2, <2>3, <2>4 DEF Next
<1>3. Spec => LockSpec
  BY <1>1, <1>2, PTL DEF Spec, LockSpec
<1>4. QED BY <1>3, WritesSerialize, PTL
=============================================================================
