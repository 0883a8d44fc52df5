-------------------------- MODULE PfSenseWriteLock --------------------------
(***************************************************************************)
(* PfSenseAgentService.write(fn): the in-memory lock and queue every       *)
(* modifying call of the pfSense agent goes through.  A caller is one      *)
(* activity of the backend (an HTTP request, a playbook, a correlation     *)
(* cycle); it awaits its write before it starts another.  What fn does is  *)
(* left to the modules that extend this one.                               *)
(***************************************************************************)
EXTENDS Naturals, Sequences

CONSTANT Callers

VARIABLES
    writeLock,      \* this.writeLock
    writeQueue,     \* this.writeQueue: the callers whose closure is queued
    at              \* where each caller is in write(), see CallerStates

lockVars == <<writeLock, writeQueue, at>>

(***************************************************************************)
(* "direct": fn runs under the try/finally of the caller's own write();    *)
(* "handed": fn runs as the closure a direct writer took from the queue.   *)
(***************************************************************************)
CallerStates == {"idle", "queued", "direct", "handed"}

Running(c) == at[c] \in {"direct", "handed"}

LockInit ==
    /\ writeLock = FALSE
    /\ writeQueue = <<>>
    /\ at = [c \in Callers |-> "idle"]

(***************************************************************************)
(* The operators named ...Mutant are bugs the code does not have; the      *)
(* properties below reject each of them.                                   *)
(***************************************************************************)
\* The lock is not looked at.
UncheckedMutant(c) ==
    /\ at[c] = "idle"
    /\ writeLock' = TRUE
    /\ at' = [at EXCEPT ![c] = "direct"]
    /\ UNCHANGED writeQueue

\* write(fn) with the lock free: fn starts at once.
WriteDirect(c) ==
    /\ at[c] = "idle"
    /\ ~writeLock
    /\ writeLock' = TRUE
    /\ at' = [at EXCEPT ![c] = "direct"]
    /\ UNCHANGED writeQueue

\* write(fn) with the lock taken: the closure is pushed.
WriteQueued(c) ==
    /\ at[c] = "idle"
    /\ writeLock
    /\ writeQueue' = Append(writeQueue, c)
    /\ at' = [at EXCEPT ![c] = "queued"]
    /\ UNCHANGED writeLock

\* The closure is started with the lock free.
UnlockedHandOverMutant(c) ==
    /\ at[c] = "direct"
    /\ writeLock' = FALSE
    /\ at' = IF writeQueue = <<>> THEN [at EXCEPT ![c] = "idle"]
             ELSE [at EXCEPT ![c] = "idle", ![Head(writeQueue)] = "handed"]
    /\ writeQueue' = IF writeQueue = <<>> THEN writeQueue ELSE Tail(writeQueue)

\* A direct fn returned or threw: the finally block frees the lock, shifts
\* the queue and, if it got a closure, takes the lock again and starts it.
FinishDirect(c) ==
    /\ at[c] = "direct"
    /\ IF writeQueue = <<>>
       THEN /\ writeLock' = FALSE
            /\ at' = [at EXCEPT ![c] = "idle"]
            /\ UNCHANGED writeQueue
       ELSE /\ writeLock' = TRUE
            /\ at' = [at EXCEPT ![c] = "idle", ![Head(writeQueue)] = "handed"]
            /\ writeQueue' = Tail(writeQueue)

\* A handed fn settled: .finally() frees the lock and leaves the queue alone.
FinishHanded(c) ==
    /\ at[c] = "handed"
    /\ writeLock' = FALSE
    /\ at' = [at EXCEPT ![c] = "idle"]
    /\ UNCHANGED writeQueue

Write(c)  == WriteDirect(c) \/ WriteQueued(c)
Finish(c) == FinishDirect(c) \/ FinishHanded(c)

LockNext == \E c \in Callers : Write(c) \/ Finish(c)

LockSpec == LockInit /\ [][LockNext]_lockVars

(***************************************************************************)
(* A function that runs settles: every request the agent makes is aborted  *)
(* after this.timeout and request() never throws.  Nobody has to write.    *)
(***************************************************************************)
FnSettles == \A c \in Callers : WF_lockVars(Finish(c))

FairLockSpec == LockSpec /\ FnSettles
-----------------------------------------------------------------------------
LockTypeOK ==
    /\ writeLock \in BOOLEAN
    /\ writeQueue \in Seq(Callers)
    /\ at \in [Callers -> CallerStates]

\* No two functions passed to write() are ever in progress at once, whatever
\* the order in which callers arrive and functions settle.
MutualExclusion ==
    \A c, d \in Callers : Running(c) /\ Running(d) => c = d

\* The lock flag and the queue tell the truth: the flag is set exactly while
\* some function runs, and the queue holds each waiting caller once.
LockTruthful ==
    /\ writeLock <=> \E c \in Callers : Running(c)
    /\ \A c \in Callers :
          at[c] = "queued" <=> \E i \in 1..Len(writeQueue) : writeQueue[i] = c
    /\ \A i, j \in 1..Len(writeQueue) :
          writeQueue[i] = writeQueue[j] => i = j

\* The inductive form of the two: what every step of write() preserves.
LockInv == LockTypeOK /\ LockTruthful /\ MutualExclusion

\* write() implements the serializer of SerialWrites: alone while running,
\* hand-over only to a caller that waits.
Serializer == INSTANCE SerialWrites WITH
    running <- {c \in Callers : Running(c)},
    waiting <- {c \in Callers : at[c] = "queued"}

SerializesWrites == Serializer!Spec

\* Every write that was accepted runs in the end: "Block an IP address on the
\* active firewall" (soar.controller.ts) names no condition under which the
\* request would hang.  It does hang: two callers queued behind one direct
\* write, and the second stays in the queue with the lock free.
EveryQueuedWriteRuns ==
    \A c \in Callers : at[c] = "queued" ~> at[c] = "handed"
=============================================================================
