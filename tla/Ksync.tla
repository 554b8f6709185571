------------------------------- MODULE Ksync -------------------------------
(***************************************************************************)
(* The kernel's sleeping locks: the counting semaphore and the mutex of    *)
(* kernel/process/ksync.c, with the wait queues of kernel/process/         *)
(* process.c they sleep on, and what other parts of the kernel do to a     *)
(* thread that waits: cancel its process, stop and resume it, kill it.     *)
(*                                                                         *)
(* Every operation runs its {test, modify, maybe block} under the one      *)
(* g_sched_lock, which schedule_locked() keeps across the context switch,  *)
(* so one pass through an acquire loop is one action.  A wait queue is the *)
(* set of the threads linked on it: wait_queue_wake_one() picks the head   *)
(* of a LIFO list, the model picks any member, so what holds here holds    *)
(* for the code's order too.                                               *)
(*                                                                         *)
(* A thread can be stopped wherever it is, asleep or between two turns of  *)
(* its loop, and neither scheduling policy dispatches a stopped thread.    *)
(***************************************************************************)
EXTENDS Integers, FiniteSets

CONSTANTS
  Threads,      \* kernel threads that use the two primitives
  Procs,        \* the processes they belong to
  ProcOf,       \* t->proc
  SemInitial,   \* sem_init's argument
  MaxPosts      \* bound: calls of sem_post in one behaviour

ASSUME KsyncAssumption ==
  /\ ProcOf \in [Threads -> Procs]
  /\ IsFiniteSet(Threads)
  /\ SemInitial \in Nat
  /\ MaxPosts \in Nat

NoThread == "nobody"
ASSUME NoThreadAssumption == NoThread \notin Threads

VARIABLES
  count,      \* semaphore: s->count
  locked,     \* mutex: m->locked
  owner,      \* mutex: m->owner
  waitq,      \* t->wait_queue: the queue a BLOCKED thread is linked on
  pc,         \* the acquire loop a thread is inside, "out" when in none
  intr,       \* sem_acquire's and mutex_acquire's `interruptible`
  cancelled,  \* proc->cancelled, sticky
  suspended,  \* the threads with t->suspended that are off their core
  halted,     \* arch_cpu_halt_forever() was reached with g_sched_lock held
  posts,      \* history: completed sem_post calls
  permits,    \* history: permits handed out by sem_acquire and sem_trywait
  critical    \* history: threads told they hold the mutex, not yet unlocked

vars == <<count, locked, owner, waitq, pc, intr, cancelled, suspended, halted,
          posts, permits, critical>>
semVars == <<count, posts, permits>>
mutexVars == <<locked, owner, critical>>
procVars == <<cancelled, suspended>>

Queues == {"none", "sem", "mutex"}

TypeOK ==
  /\ count \in Nat
  /\ locked \in BOOLEAN
  /\ owner \in Threads \cup {NoThread}
  /\ waitq \in [Threads -> Queues]
  /\ pc \in [Threads -> {"out", "sem", "mutex"}]
  /\ intr \in [Threads -> BOOLEAN]
  /\ cancelled \in [Procs -> BOOLEAN]
  /\ suspended \subseteq Threads
  /\ halted \in BOOLEAN
  /\ posts \in Nat
  /\ permits \in Nat
  /\ critical \subseteq Threads

Init ==
  /\ count = SemInitial
  /\ locked = FALSE
  /\ owner = NoThread
  /\ waitq = [t \in Threads |-> "none"]
  /\ pc = [t \in Threads |-> "out"]
  /\ intr = [t \in Threads |-> FALSE]
  /\ cancelled = [p \in Procs |-> FALSE]
  /\ suspended = {}
  /\ halted = FALSE
  /\ posts = 0
  /\ permits = 0
  /\ critical = {}
-----------------------------------------------------------------------------
(* Wait queues. *)

Waiters(q) == {t \in Threads : waitq[t] = q}

\* Threads inside the acquire loop of q and not asleep on it: they will take
\* g_sched_lock and test the resource.
Testing(q) == {t \in Threads : pc[t] = q /\ waitq[t] = "none"}

WaitQueueBlock(t, q) == waitq' = [waitq EXCEPT ![t] = q]

WakeOne(q) ==
  \/ /\ Waiters(q) = {}
     /\ UNCHANGED waitq
  \/ \E t \in Waiters(q) : waitq' = [waitq EXCEPT ![t] = "none"]

\* The policy's pick: a thread that is stopped is never dispatched.
Runs(t) == ~halted /\ t \notin suspended
Outside(t) == Runs(t) /\ pc[t] = "out"
InLoop(t, q) == Runs(t) /\ pc[t] = q /\ waitq[t] = "none"

Enter(t, q, i) ==
  /\ pc' = [pc EXCEPT ![t] = q]
  /\ intr' = [intr EXCEPT ![t] = i]

Leave(t) == pc' = [pc EXCEPT ![t] = "out"]

\* The would-block test of both loops: a cancelled process abandons an
\* interruptible acquire, every other thread goes to sleep.
CancelOrBlock(t, q) ==
  /\ IF intr[t] /\ cancelled[ProcOf[t]]
       THEN Leave(t) /\ UNCHANGED waitq
       ELSE WaitQueueBlock(t, q) /\ UNCHANGED pc
  /\ UNCHANGED <<semVars, mutexVars>>
-----------------------------------------------------------------------------
(* Semaphore. *)

SemWait(t, i) ==
  /\ Outside(t)
  /\ Enter(t, "sem", i)
  /\ UNCHANGED <<semVars, mutexVars, waitq, procVars, halted>>

TakePermit ==
  /\ count' = count - 1
  /\ permits' = permits + 1

\* Mutant: the cancellation test is made before the count is looked at.
SemAcquireStep_CancelFirst(t) ==
  /\ InLoop(t, "sem")
  /\ \/ /\ count = 0 \/ (intr[t] /\ cancelled[ProcOf[t]])
        /\ CancelOrBlock(t, "sem")
     \/ /\ count # 0 /\ ~(intr[t] /\ cancelled[ProcOf[t]])
        /\ TakePermit
        /\ Leave(t)
        /\ UNCHANGED <<posts, mutexVars, waitq>>
  /\ UNCHANGED <<intr, procVars, halted>>

SemAcquireStep(t) ==
  /\ InLoop(t, "sem")
  /\ \/ /\ count = 0
        /\ CancelOrBlock(t, "sem")
     \/ /\ count # 0
        /\ TakePermit
        /\ Leave(t)
        /\ UNCHANGED <<posts, mutexVars, waitq>>
  /\ UNCHANGED <<intr, procVars, halted>>

SemPost(t) ==
  /\ Outside(t)
  /\ posts < MaxPosts
  /\ count' = count + 1
  /\ posts' = posts + 1
  /\ WakeOne("sem")
  /\ UNCHANGED <<permits, mutexVars, pc, intr, procVars, halted>>

\* Mutant: the permit is taken without looking at the count.
SemTrywait_NoTest(t) ==
  /\ Outside(t)
  /\ TakePermit
  /\ UNCHANGED <<posts, mutexVars, waitq, pc, intr, procVars, halted>>

\* Mutant: success is reported without the decrement.
SemTrywait_NoDecrement(t) ==
  /\ Outside(t)
  /\ count > 0
  /\ permits' = permits + 1
  /\ UNCHANGED <<count, posts, mutexVars, waitq, pc, intr, procVars, halted>>

SemTrywait(t) ==
  /\ Outside(t)
  /\ count > 0
  /\ TakePermit
  /\ UNCHANGED <<posts, mutexVars, waitq, pc, intr, procVars, halted>>
-----------------------------------------------------------------------------
(* Mutex.  The re-lock test is made once, before the loop; the owner cannot *)
(* become t while t itself is inside the loop.                              *)

MutexLock(t, i) ==
  /\ Outside(t)
  /\ IF locked /\ owner = t
       THEN halted' = TRUE /\ UNCHANGED <<pc, intr>>
       ELSE Enter(t, "mutex", i) /\ UNCHANGED halted
  /\ UNCHANGED <<semVars, mutexVars, waitq, procVars>>

TakeMutex(t) ==
  /\ locked' = TRUE
  /\ owner' = t
  /\ critical' = critical \cup {t}

\* Mutant: the cancellation test is made before the mutex is looked at.
MutexAcquireStep_CancelFirst(t) ==
  /\ InLoop(t, "mutex")
  /\ \/ /\ locked \/ (intr[t] /\ cancelled[ProcOf[t]])
        /\ CancelOrBlock(t, "mutex")
     \/ /\ ~locked /\ ~(intr[t] /\ cancelled[ProcOf[t]])
        /\ TakeMutex(t)
        /\ Leave(t)
        /\ UNCHANGED <<semVars, waitq>>
  /\ UNCHANGED <<intr, procVars, halted>>

MutexAcquireStep(t) ==
  /\ InLoop(t, "mutex")
  /\ \/ /\ locked
        /\ CancelOrBlock(t, "mutex")
     \/ /\ ~locked
        /\ TakeMutex(t)
        /\ Leave(t)
        /\ UNCHANGED <<semVars, waitq>>
  /\ UNCHANGED <<intr, procVars, halted>>

\* Mutant: any thread may unlock a locked mutex.
MutexUnlock_NoOwnerTest(t) ==
  /\ Outside(t)
  /\ IF ~locked
       THEN UNCHANGED <<locked, owner, waitq>>
       ELSE /\ locked' = FALSE
            /\ owner' = NoThread
            /\ WakeOne("mutex")
  /\ critical' = critical \ {t}
  /\ UNCHANGED <<semVars, pc, intr, procVars, halted>>

\* Mutant: the mutex is released and nobody is woken.
MutexUnlock_NoWake(t) ==
  /\ Outside(t)
  /\ locked /\ owner = t
  /\ locked' = FALSE
  /\ owner' = NoThread
  /\ critical' = critical \ {t}
  /\ UNCHANGED <<semVars, waitq, pc, intr, procVars, halted>>

\* A thread leaves its critical section by calling mutex_unlock; so does, by
\* mistake, a thread that never entered one, and the code refuses it.
MutexUnlock(t) ==
  /\ Outside(t)
  /\ IF ~locked \/ owner # t
       THEN UNCHANGED <<locked, owner, waitq>>
       ELSE /\ locked' = FALSE
            /\ owner' = NoThread
            /\ WakeOne("mutex")
  /\ critical' = critical \ {t}
  /\ UNCHANGED <<semVars, pc, intr, procVars, halted>>

MutexTrylock(t) ==
  /\ Outside(t)
  /\ ~locked
  /\ TakeMutex(t)
  /\ UNCHANGED <<semVars, waitq, pc, intr, procVars, halted>>
-----------------------------------------------------------------------------
(* What is done to a process from outside. *)

ThreadsOf(p) == {t \in Threads : ProcOf[t] = p}

\* Every blocked thread of p is taken off its queue and made READY.
WakeThreadsOf(p) ==
  waitq' = [t \in Threads |-> IF t \in ThreadsOf(p) THEN "none" ELSE waitq[t]]

\* Mutant: the flag is raised and the sleepers are left asleep.
ProcessCancel_NoWake(p) ==
  /\ ~halted
  /\ cancelled' = [cancelled EXCEPT ![p] = TRUE]
  /\ UNCHANGED <<semVars, mutexVars, waitq, pc, intr, suspended, halted>>

\* process_cancel_locked: raise the flag, wake; a stopped thread stays stopped.
ProcessCancel(p) ==
  /\ ~halted
  /\ cancelled' = [cancelled EXCEPT ![p] = TRUE]
  /\ WakeThreadsOf(p)
  /\ UNCHANGED <<semVars, mutexVars, pc, intr, suspended, halted>>

\* A kill cancels, wakes and overrides a stop.  The threads leave the kernel
\* path they are on as every other thread does.
EndEveryThread(p) ==
  /\ ~halted
  /\ cancelled' = [cancelled EXCEPT ![p] = TRUE]
  /\ suspended' = suspended \ ThreadsOf(p)
  /\ WakeThreadsOf(p)
  /\ UNCHANGED <<semVars, mutexVars, pc, intr, halted>>

\* Stop or resume the threads S.  A thread that is on a core when the flag is
\* set runs on until its core schedules: for it this is that later moment.
Suspend(S, val) ==
  /\ ~halted
  /\ suspended' = IF val THEN suspended \cup S ELSE suspended \ S
  /\ UNCHANGED <<semVars, mutexVars, waitq, pc, intr, cancelled, halted>>

SetProcessSuspended(p, val) == Suspend(ThreadsOf(p), val)
SetThreadSuspended(t, val) == Suspend({t}, val)

HaltForever == halted /\ UNCHANGED vars

Next ==
  \/ \E t \in Threads :
       \/ \E i \in BOOLEAN : SemWait(t, i) \/ MutexLock(t, i)
       \/ SemAcquireStep(t) \/ SemPost(t) \/ SemTrywait(t)
       \/ MutexAcquireStep(t) \/ MutexUnlock(t) \/ MutexTrylock(t)
  \/ \E p \in Procs : ProcessCancel(p) \/ EndEveryThread(p)
  \/ \E val \in BOOLEAN :
       \/ \E p \in Procs : SetProcessSuspended(p, val)
       \/ \E t \in Threads : SetThreadSuspended(t, val)
  \/ HaltForever

\* A READY thread is dispatched again (aging, sched_rr.c) unless it is stopped:
\* a thread that can take another turn of its acquire loop, and is not stopped
\* before it does, takes it.  Nothing obliges a client to call an operation, or
\* anybody to resume a stopped thread.
Fairness ==
  \A t \in Threads : WF_vars(SemAcquireStep(t)) /\ WF_vars(MutexAcquireStep(t))

Spec == Init /\ [][Next]_vars
FairSpec == Spec /\ Fairness
-----------------------------------------------------------------------------
(* Properties. *)

\* Mutual exclusion as the callers see it: at most one thread has been told
\* it holds the mutex and has not released it, and m->owner names that thread
\* however many stray mutex_unlock calls other threads make (ksync.c:138).
MutualExclusion ==
  \A t \in critical : locked /\ owner = t

\* No lost wake-up on the mutex: while it is free and somebody sleeps on it, a
\* thread that will re-test it when it next runs is awake.  Holds because a
\* cancelled waiter tests the mutex before it gives up, so it never swallows the
\* wake-up that mutex_unlock spent on it (ksync.c:104-120).  The awake thread
\* may be a stopped one: wait_queue_wake_one does not look at t->suspended.
MutexWakePending ==
  ~locked /\ Waiters("mutex") # {} => Testing("mutex") # {}

\* No lost wake-up on the semaphore: while threads sleep, every free permit
\* has an awake thread on its way to it, even after a third thread stole the
\* permit a waiter was woken for (ksync.c:25-30) or the waiter was cancelled.
SemWakePending ==
  Waiters("sem") # {} => count <= Cardinality(Testing("sem"))

\* Permits are conserved: every permit was in the initial count or posted,
\* and is either free or was handed out once (ksync.c:47, 58, 69).
PermitsConserved == count + permits = SemInitial + posts

\* A cancelled process gets its threads back: an interruptible acquire ends,
\* with the resource or with ECANCELED, although nobody ever posts or unlocks
\* (ksync.c:40, 113; process.c:1271).  Only a thread that is stopped stays: a
\* cancel, unlike a kill, does not clear t->suspended.
CancelEndsWait ==
  \A t \in Threads :
    (pc[t] # "out" /\ intr[t] /\ cancelled[ProcOf[t]])
      ~> (pc[t] = "out" \/ halted \/ t \in suspended)

\* A released mutex with sleepers is taken again: the wake-up reaches a
\* thread that takes it, or the queue empties (ksync.c:147), unless a thread
\* that is awake for the mutex is stopped.  mutex_unlock wakes one waiter; when
\* that one is stopped (sched_rr.c:81, sched_deadline.c:138), the others sleep
\* on a free mutex until it is resumed or killed.
MutexHandedOn ==
  (~locked /\ Waiters("mutex") # {})
    ~> \/ locked \/ Waiters("mutex") = {} \/ halted
       \/ Testing("mutex") \cap suspended # {}
=============================================================================
