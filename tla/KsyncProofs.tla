---------------------------- MODULE KsyncProofs ----------------------------
(***************************************************************************)
(* Proofs about Ksync for every set of threads and every initial count:    *)
(* type correctness, mutual exclusion, no lost wake-up on the mutex or on  *)
(* the semaphore, and conservation of permits.                             *)
(***************************************************************************)
EXTENDS Ksync, FiniteSetTheorems, TLAPS

\* A thread linked on a primitive's queue is inside that primitive's loop.
\* Every wake-up invariant needs it: a woken waiter must re-test.
QueueMatchesLoop ==
  \A t \in Threads : waitq[t] # "none" => pc[t] = waitq[t]

WakeInv ==
  /\ TypeOK
  /\ QueueMatchesLoop
  /\ MutexWakePending
  /\ SemWakePending

USE DEF Queues, procVars

-----------------------------------------------------------------------------
\* The steps of Ksync, with the two ways to stop or resume threads as one.
LEMMA NextCases ==
  ASSUME [Next]_vars
  PROVE  \/ \E t \in Threads :
              \/ \E i \in BOOLEAN : SemWait(t, i) \/ MutexLock(t, i)
              \/ SemAcquireStep(t) \/ SemPost(t) \/ SemTrywait(t)
              \/ MutexAcquireStep(t) \/ MutexUnlock(t) \/ MutexTrylock(t)
         \/ \E p \in Procs : ProcessCancel(p) \/ EndEveryThread(p)
         \/ \E val \in BOOLEAN, S \in SUBSET Threads : Suspend(S, val)
         \/ HaltForever \/ UNCHANGED vars
<1>1. ASSUME NEW val \in BOOLEAN, NEW p \in Procs, SetProcessSuspended(p, val)
      PROVE \E S \in SUBSET Threads : Suspend(S, val)
  <2>1. ThreadsOf(p) \in SUBSET Threads
    BY DEF ThreadsOf
  <2> QED
    BY <1>1, <2>1 DEF SetProcessSuspended
<1>2. ASSUME NEW val \in BOOLEAN, NEW t \in Threads, SetThreadSuspended(t, val)
      PROVE \E S \in SUBSET Threads : Suspend(S, val)
  <2>1. {t} \in SUBSET Threads
    OBVIOUS
  <2> QED
    BY <1>2, <2>1 DEF SetThreadSuspended
<1> QED
  BY <1>1, <1>2 DEF Next

\* TypeOK is an invariant: no sequence of semaphore and mutex calls, cancels,
\* stops and kills takes count below zero or leaves a field outside its type (ksync.c:23-161).
THEOREM TypeCorrect == Spec => []TypeOK
<1>1. Init => TypeOK
  <2> SUFFICES ASSUME Init PROVE TypeOK
    OBVIOUS
  <2>1. /\ intr \in [Threads -> BOOLEAN]
        /\ cancelled \in [Procs -> BOOLEAN]
        /\ locked \in BOOLEAN
        /\ halted \in BOOLEAN
    BY Zenon DEF Init
  <2> QED
    BY <2>1, KsyncAssumption DEF Init, TypeOK
<1>2. TypeOK /\ [Next]_vars => TypeOK'
  <2> SUFFICES ASSUME TypeOK, [Next]_vars PROVE TypeOK'
    OBVIOUS
  <2> USE KsyncAssumption, NoThreadAssumption DEF TypeOK
  <2>1. ASSUME NEW t \in Threads, NEW i \in BOOLEAN,
               SemWait(t, i) \/ MutexLock(t, i)
        PROVE TypeOK'
    BY Zenon, <2>1 DEF SemWait, MutexLock, Enter, semVars, mutexVars
  <2>2. ASSUME NEW t \in Threads, SemAcquireStep(t) PROVE TypeOK'
    BY <2>2 DEF SemAcquireStep, CancelOrBlock, Leave, WaitQueueBlock,
                TakePermit, semVars, mutexVars
  <2>3. ASSUME NEW t \in Threads, SemPost(t) PROVE TypeOK'
    BY <2>3 DEF SemPost, WakeOne, Waiters, semVars, mutexVars
  <2>4. ASSUME NEW t \in Threads, SemTrywait(t) PROVE TypeOK'
    BY <2>4 DEF SemTrywait, TakePermit, semVars, mutexVars
  <2>5. ASSUME NEW t \in Threads, MutexAcquireStep(t) PROVE TypeOK'
    BY Zenon, <2>5 DEF MutexAcquireStep, CancelOrBlock, Leave, WaitQueueBlock,
                TakeMutex, semVars, mutexVars
  <2>6. ASSUME NEW t \in Threads, MutexUnlock(t) PROVE TypeOK'
    BY Zenon, <2>6 DEF MutexUnlock, WakeOne, Waiters, semVars, mutexVars
  <2>7. ASSUME NEW t \in Threads, MutexTrylock(t) PROVE TypeOK'
    BY <2>7 DEF MutexTrylock, TakeMutex, semVars, mutexVars
  <2>8. ASSUME NEW p \in Procs, ProcessCancel(p) \/ EndEveryThread(p)
        PROVE TypeOK'
    BY <2>8 DEF ProcessCancel, EndEveryThread, WakeThreadsOf, semVars, mutexVars
  <2>9. ASSUME NEW val \in BOOLEAN, NEW S \in SUBSET Threads, Suspend(S, val)
        PROVE TypeOK'
    BY <2>9 DEF Suspend, semVars, mutexVars
  <2>10. CASE HaltForever \/ UNCHANGED vars
    BY <2>10 DEF HaltForever, vars
  <2> QED
    BY <2>1, <2>2, <2>3, <2>4, <2>5, <2>6, <2>7, <2>8, <2>9, <2>10, NextCases
<1> QED
  BY <1>1, <1>2, PTL DEF Spec

\* MutualExclusion is an invariant: whatever threads call lock, trylock and
\* unlock, the owner test of mutex_unlock keeps the mutex with the one thread
\* that was told it holds it (ksync.c:86-161).
THEOREM MutexExcludes == Spec => []MutualExclusion
<1>1. Init => MutualExclusion
  BY DEF Init, MutualExclusion
<1>2. MutualExclusion /\ [Next]_vars => MutualExclusion'
  <2> SUFFICES ASSUME MutualExclusion, [Next]_vars PROVE MutualExclusion'
    OBVIOUS
  <2> USE DEF MutualExclusion, semVars, mutexVars
  <2>1. ASSUME NEW t \in Threads, NEW i \in BOOLEAN,
               SemWait(t, i) \/ MutexLock(t, i)
        PROVE MutualExclusion'
    BY <2>1 DEF SemWait, MutexLock
  <2>2. ASSUME NEW t \in Threads,
               SemAcquireStep(t) \/ SemPost(t) \/ SemTrywait(t)
        PROVE MutualExclusion'
    BY <2>2 DEF SemAcquireStep, SemPost, SemTrywait, CancelOrBlock
  <2>3. ASSUME NEW t \in Threads, MutexAcquireStep(t) PROVE MutualExclusion'
    BY <2>3 DEF MutexAcquireStep, CancelOrBlock, TakeMutex
  <2>4. ASSUME NEW t \in Threads, MutexUnlock(t) PROVE MutualExclusion'
    BY <2>4 DEF MutexUnlock
  <2>5. ASSUME NEW t \in Threads, MutexTrylock(t) PROVE MutualExclusion'
    BY <2>5 DEF MutexTrylock, TakeMutex
  <2>6. ASSUME NEW p \in Procs, ProcessCancel(p) \/ EndEveryThread(p)
        PROVE MutualExclusion'
    BY <2>6 DEF ProcessCancel, EndEveryThread, WakeThreadsOf
  <2>7. ASSUME NEW val \in BOOLEAN, NEW S \in SUBSET Threads, Suspend(S, val)
        PROVE MutualExclusion'
    BY <2>7 DEF Suspend
  <2>8. CASE HaltForever \/ UNCHANGED vars
    BY <2>8 DEF HaltForever, vars
  <2> QED
    BY <2>1, <2>2, <2>3, <2>4, <2>5, <2>6, <2>7, <2>8, NextCases
<1> QED
  BY <1>1, <1>2, PTL DEF Spec

\* PermitsConserved is an invariant: a permit is posted once and taken once
\* (ksync.c:47, 58, 69).
THEOREM PermitsAreConserved == Spec => []PermitsConserved
<1>1. Init => PermitsConserved
  BY KsyncAssumption DEF Init, PermitsConserved
<1>2. TypeOK /\ PermitsConserved /\ [Next]_vars => PermitsConserved'
  <2> SUFFICES ASSUME TypeOK, PermitsConserved, [Next]_vars
               PROVE PermitsConserved'
    OBVIOUS
  <2> USE KsyncAssumption DEF TypeOK, PermitsConserved, semVars
  <2>1. ASSUME NEW t \in Threads, SemAcquireStep(t) PROVE PermitsConserved'
    BY <2>1 DEF SemAcquireStep, CancelOrBlock, TakePermit
  <2>2. ASSUME NEW t \in Threads, SemPost(t) \/ SemTrywait(t)
        PROVE PermitsConserved'
    BY <2>2 DEF SemPost, SemTrywait, TakePermit
  <2>3. CASE UNCHANGED semVars
    BY <2>3
  <2> QED
    BY <2>1, <2>2, <2>3, NextCases DEF SemWait, MutexLock, MutexAcquireStep,
      MutexUnlock, MutexTrylock, ProcessCancel, EndEveryThread, Suspend,
      HaltForever, CancelOrBlock, vars
<1> QED
  BY <1>1, <1>2, TypeCorrect, PTL DEF Spec
-----------------------------------------------------------------------------
\* Testing(q) is finite, so the semaphore argument may count it.
LEMMA TestingFinite == \A q \in Queues : /\ IsFiniteSet(Testing(q))
                                         /\ Cardinality(Testing(q)) \in Nat
<1> SUFFICES ASSUME NEW q \in Queues
             PROVE IsFiniteSet(Testing(q)) /\ Cardinality(Testing(q)) \in Nat
  OBVIOUS
<1>1. Testing(q) \subseteq Threads
  BY DEF Testing
<1> QED
  BY <1>1, KsyncAssumption, FS_Subset, FS_CardinalityType

\* The same for the set of the next state.
LEMMA TestingFiniteNext == IsFiniteSet(Testing("sem")')
<1>1. Testing("sem")' \subseteq Threads
  BY DEF Testing
<1> QED
  BY <1>1, KsyncAssumption, FS_Subset

\* When no awake thread leaves the semaphore's loop, no thread falls asleep
\* on it and count does not grow, the wake-up invariant survives.
LEMMA SemWakeMonotone ==
  ASSUME TypeOK, TypeOK', SemWakePending,
         Testing("sem") \subseteq Testing("sem")',
         Waiters("sem")' \subseteq Waiters("sem"),
         count' <= count
  PROVE  SemWakePending'
<1>1. Cardinality(Testing("sem")) <= Cardinality(Testing("sem")')
  BY TestingFiniteNext, FS_Subset
<1>2. /\ Cardinality(Testing("sem")) \in Nat
      /\ Cardinality(Testing("sem")') \in Nat
  BY TestingFinite, TestingFiniteNext, FS_CardinalityType
<1>3. CASE Waiters("sem")' = {}
  BY <1>3 DEF SemWakePending
<1>4. CASE Waiters("sem")' # {}
  BY <1>1, <1>2, <1>4 DEF SemWakePending, TypeOK
<1> QED
  BY <1>3, <1>4

\* WakeInv is inductive.
LEMMA WakeInvStep == ASSUME WakeInv, TypeOK', [Next]_vars PROVE WakeInv'
<1> USE DEF semVars, mutexVars
<1>1. QueueMatchesLoop'
  <2> USE DEF WakeInv, QueueMatchesLoop, TypeOK
  <2>1. ASSUME NEW t \in Threads,
               \/ \E i \in BOOLEAN : SemWait(t, i) \/ MutexLock(t, i)
               \/ SemAcquireStep(t) \/ SemPost(t) \/ SemTrywait(t)
               \/ MutexAcquireStep(t) \/ MutexUnlock(t) \/ MutexTrylock(t)
        PROVE QueueMatchesLoop'
    BY <2>1 DEF SemWait, MutexLock, Enter, SemAcquireStep, InLoop, Outside,
      CancelOrBlock, Leave, WaitQueueBlock, SemPost, WakeOne, Waiters,
      SemTrywait, MutexAcquireStep, MutexUnlock, MutexTrylock
  <2>2. ASSUME NEW p \in Procs, ProcessCancel(p) \/ EndEveryThread(p)
        PROVE QueueMatchesLoop'
    BY <2>2 DEF ProcessCancel, EndEveryThread, WakeThreadsOf
  <2>3. ASSUME NEW val \in BOOLEAN, NEW S \in SUBSET Threads, Suspend(S, val)
        PROVE QueueMatchesLoop'
    BY <2>3 DEF Suspend
  <2>4. CASE HaltForever \/ UNCHANGED vars
    BY <2>4 DEF HaltForever, vars
  <2> QED
    BY <2>1, <2>2, <2>3, <2>4, NextCases
<1>2. MutexWakePending'
  <2> USE DEF WakeInv, TypeOK, MutexWakePending, QueueMatchesLoop, Waiters,
              Testing
  <2>1. ASSUME NEW t \in Threads, NEW i \in BOOLEAN,
               SemWait(t, i) \/ MutexLock(t, i)
        PROVE MutexWakePending'
    BY <2>1 DEF SemWait, MutexLock, Enter, Outside
  <2>2. ASSUME NEW t \in Threads,
               SemAcquireStep(t) \/ SemPost(t) \/ SemTrywait(t)
        PROVE MutexWakePending'
    BY <2>2 DEF SemAcquireStep, SemPost, SemTrywait, CancelOrBlock, Leave,
                WaitQueueBlock, WakeOne, InLoop, Outside
  <2>3. ASSUME NEW t \in Threads, MutexAcquireStep(t)
        PROVE MutexWakePending'
    BY <2>3 DEF MutexAcquireStep, CancelOrBlock, TakeMutex
  <2>4. ASSUME NEW t \in Threads, MutexUnlock(t) PROVE MutexWakePending'
    BY <2>4 DEF MutexUnlock, WakeOne
  <2>5. ASSUME NEW t \in Threads, MutexTrylock(t) PROVE MutexWakePending'
    BY <2>5 DEF MutexTrylock, TakeMutex
  <2>6. ASSUME NEW p \in Procs, ProcessCancel(p) \/ EndEveryThread(p)
        PROVE MutexWakePending'
    BY <2>6 DEF ProcessCancel, EndEveryThread, WakeThreadsOf
  <2>7. ASSUME NEW val \in BOOLEAN, NEW S \in SUBSET Threads, Suspend(S, val)
        PROVE MutexWakePending'
    BY <2>7 DEF Suspend
  <2>8. CASE HaltForever \/ UNCHANGED vars
    BY <2>8 DEF HaltForever, vars
  <2> QED
    BY <2>1, <2>2, <2>3, <2>4, <2>5, <2>6, <2>7, <2>8, NextCases
<1>3. SemWakePending'
  <2> USE DEF WakeInv
  <2>1. ASSUME NEW t \in Threads, SemAcquireStep(t) PROVE SemWakePending'
    <3>1. CASE count = 0
      <4>1. count' = 0
        BY <2>1, <3>1 DEF SemAcquireStep, CancelOrBlock
      <4>2. Cardinality(Testing("sem")') \in Nat
        BY TestingFiniteNext, FS_CardinalityType
      <4> QED
        BY <4>1, <4>2 DEF SemWakePending
    <3>2. CASE count # 0
      <4>1. /\ t \in Testing("sem")
            /\ Testing("sem")' = Testing("sem") \ {t}
            /\ Waiters("sem")' = Waiters("sem")
            /\ count' = count - 1
        BY <2>1, <3>2 DEF SemAcquireStep, InLoop, TakePermit, Leave, Testing,
                          Waiters, TypeOK
      <4>2. Cardinality(Testing("sem")') = Cardinality(Testing("sem")) - 1
        BY <4>1, TestingFinite, FS_RemoveElement
      <4> QED
        BY <4>1, <4>2, TestingFinite DEF SemWakePending, TypeOK
    <3> QED
      BY <3>1, <3>2
  <2>2. ASSUME NEW t \in Threads, SemPost(t) PROVE SemWakePending'
    <3>1. CASE Waiters("sem") = {}
      BY <2>2, <3>1 DEF SemPost, WakeOne, Waiters, SemWakePending
    <3>2. ASSUME NEW u \in Waiters("sem"),
                 waitq' = [waitq EXCEPT ![u] = "none"]
          PROVE SemWakePending'
      <4>1. /\ u \notin Testing("sem")
            /\ Testing("sem")' = Testing("sem") \cup {u}
            /\ Waiters("sem") # {}
            /\ count' = count + 1
        BY <2>2, <3>2 DEF SemPost, Testing, Waiters, TypeOK, QueueMatchesLoop
      <4>2. Cardinality(Testing("sem")') = Cardinality(Testing("sem")) + 1
        BY <4>1, TestingFinite, FS_AddElement
      <4> QED
        BY <4>1, <4>2, TestingFinite DEF SemWakePending, TypeOK
    <3> QED
      BY <2>2, <3>1, <3>2 DEF SemPost, WakeOne
  <2>3. ASSUME Testing("sem") \subseteq Testing("sem")',
               Waiters("sem")' \subseteq Waiters("sem"), count' <= count
        PROVE SemWakePending'
    BY <2>3, SemWakeMonotone
  <2>4. ASSUME NEW t \in Threads, NEW i \in BOOLEAN,
               SemWait(t, i) \/ MutexLock(t, i)
        PROVE SemWakePending'
    BY <2>3, <2>4 DEF SemWait, MutexLock, Enter, Outside, Testing, Waiters, TypeOK
  <2>5. ASSUME NEW t \in Threads,
               SemTrywait(t) \/ MutexTrylock(t)
        PROVE SemWakePending'
    BY <2>3, <2>5 DEF SemTrywait, TakePermit, MutexTrylock, Testing, Waiters, TypeOK
  <2>6. ASSUME NEW t \in Threads, MutexAcquireStep(t) PROVE SemWakePending'
    BY <2>3, <2>6 DEF MutexAcquireStep, CancelOrBlock, WaitQueueBlock, Leave,
                      InLoop, Testing, Waiters, TypeOK
  <2>7. ASSUME NEW t \in Threads, MutexUnlock(t) PROVE SemWakePending'
    BY <2>3, <2>7 DEF MutexUnlock, WakeOne, Testing, Waiters, TypeOK
  <2>8. ASSUME NEW p \in Procs, ProcessCancel(p) \/ EndEveryThread(p)
        PROVE SemWakePending'
    BY <2>3, <2>8 DEF ProcessCancel, EndEveryThread, WakeThreadsOf, Testing,
                      Waiters, TypeOK
  <2>9. ASSUME NEW val \in BOOLEAN, NEW S \in SUBSET Threads, Suspend(S, val)
        PROVE SemWakePending'
    BY <2>3, <2>9 DEF Suspend, Testing, Waiters, TypeOK
  <2>10. CASE HaltForever \/ UNCHANGED vars
    BY <2>3, <2>10 DEF HaltForever, vars, Testing, Waiters, TypeOK
  <2> QED
    BY <2>1, <2>2, <2>4, <2>5, <2>6, <2>7, <2>8, <2>9, <2>10, NextCases
<1> QED
  BY <1>1, <1>2, <1>3 DEF WakeInv

\* The inductive invariant holds in every reachable state.
LEMMA WakeInvHolds == Spec => []WakeInv
<1>1. Init /\ TypeOK => WakeInv
  BY DEF Init, WakeInv, QueueMatchesLoop, MutexWakePending, SemWakePending,
         Waiters
<1>2. WakeInv /\ TypeOK' /\ [Next]_vars => WakeInv'
  BY WakeInvStep
<1> QED
  BY <1>1, <1>2, TypeCorrect, PTL DEF Spec

\* No lost wake-up on the mutex: a free mutex with sleepers always has an
\* awake thread that will test it when it runs, for any number of threads, posts,
\* stray unlocks, cancellations, stops and kills (ksync.c:86-149, process.c:944,
\* 1271).
THEOREM MutexNeverLosesWakeup == Spec => []MutexWakePending
<1>1. WakeInv => MutexWakePending
  BY DEF WakeInv
<1> QED
  BY <1>1, WakeInvHolds, PTL

\* No lost wake-up on the semaphore: no permit lies free without an awake
\* taker while threads sleep (ksync.c:23-72, process.c:944, 1271).
THEOREM SemNeverLosesWakeup == Spec => []SemWakePending
<1>1. WakeInv => SemWakePending
  BY DEF WakeInv
<1> QED
  BY <1>1, WakeInvHolds, PTL
=============================================================================
