------------------------------ MODULE UserSync ------------------------------
(***************************************************************************)
(* The user library's mutex and condition variable (user/lib/embk.h) on    *)
(* top of the futex, driven by the bounded queue of                        *)
(* user/tests/lockdemo/lockdemo.c: producers and consumers share one       *)
(* mutex and one condition, and every wait is a loop around                *)
(* embk_cond_wait.                                                         *)
(*                                                                         *)
(* The mutex word is 0 free, 1 held, 2 held and perhaps waited for; the    *)
(* condition word is a sequence number.  An access to a word is one atomic *)
(* step; the queue is plain memory, so an update of it is a read and,      *)
(* later, a write.  A local that is dead is reset.                         *)
(***************************************************************************)
EXTENDS Futex, Sequences

CONSTANTS
  Producers, Consumers,   \* the threads of the program
  PerProducer,            \* PER_PROD: items each producer puts
  QCap,                   \* QCAP: capacity of the queue
  MaxSeq                  \* the sequence number counts modulo MaxSeq + 1

Mutex == "mutex"
Cond == "cond"
All == Cardinality(Threads)    \* broadcast: as many as there are

ASSUME ProgramAssumption ==
  /\ IsFiniteSet(Threads)
  /\ Threads = Producers \cup Consumers
  /\ Producers \cap Consumers = {}
  /\ Words = {Mutex, Cond}
  /\ PerProducer \in Nat
  /\ QCap \in Nat \ {0}
  /\ MaxSeq \in Nat \ {0, 1}
  /\ Values = 0..MaxSeq

VARIABLES
  pc,        \* the next step of each thread's program
  after,     \* where it goes once it has released the mutex
  seen,      \* the sequence number embk_cond_wait read
  copy,      \* what it read of the queue
  rounds,    \* critical sections a producer has left: its items, then its end
  queue,     \* q_buf between q_head and q_tail
  left,      \* q_producers_left
  consumed   \* history: the items taken, in order

uvars == <<pc, after, seen, copy, rounds, queue, left, consumed>>
vars == <<fvars, uvars>>

Items == Producers \X (1..PerProducer)
Queues == UNION {[1..n -> Items] : n \in 0..QCap}
Locking == {"lock", "swap"}
Holding == {"check", "load", "update", "unlock"}
Released == {"wait", "broadcast", "done"}

TypeOK ==
  /\ FutexTypeOK
  /\ pc \in [Threads -> Locking \cup Holding \cup Released]
  /\ after \in [Threads -> Released]
  /\ seen \in [Threads -> Values]
  /\ \A t \in Threads : pc[t] = "update" => copy[t] \in Queues
  /\ rounds \in [Threads -> 0..PerProducer + 1]
  /\ queue \in Queues
  /\ left \in 0..Cardinality(Producers)
  /\ mem[Mutex] \in 0..2

Init ==
  /\ FutexInit
  /\ pc = [t \in Threads |-> "lock"]
  /\ after = [t \in Threads |-> "wait"]
  /\ seen = [t \in Threads |-> 0]
  /\ copy = [t \in Threads |-> <<>>]
  /\ rounds = [t \in Threads |-> IF t \in Producers THEN PerProducer + 1 ELSE 0]
  /\ queue = <<>>
  /\ left = Cardinality(Producers)
  /\ consumed = <<>>
-----------------------------------------------------------------------------
Go(t, where) == pc' = [pc EXCEPT ![t] = where]
InProgram(t, where) == InUser(t) /\ pc[t] = where
Store(w, v) == mem' = [mem EXCEPT ![w] = v]

\* Mutant: the lock is taken whatever the word says.
MutexLock_NoCompare(t) ==
  /\ InProgram(t, "lock")
  /\ Store(Mutex, 1) /\ Go(t, "check")
  /\ UNCHANGED <<frame, at, call, intr, killed,
                 after, seen, copy, rounds, queue, left, consumed>>

\* embk_mutex_lock, the fast path: compare-and-swap 0 to 1.
MutexLock(t) ==
  /\ InProgram(t, "lock")
  /\ IF mem[Mutex] = 0
     THEN Store(Mutex, 1) /\ Go(t, "check")
     ELSE UNCHANGED mem /\ Go(t, "swap")
  /\ UNCHANGED <<frame, at, call, intr, killed,
                 after, seen, copy, rounds, queue, left, consumed>>

\* embk_mutex_lock, contended: exchange 2; unless the lock was free, sleep as
\* long as the word says 2, then try again.
MutexLockSlow(t) ==
  /\ InProgram(t, "swap")
  /\ Store(Mutex, 2)
  /\ IF mem[Mutex] = 0
     THEN Go(t, "check") /\ UNCHANGED <<at, call>>
     ELSE Enter(t, "wait", Mutex, 2) /\ UNCHANGED pc
  /\ UNCHANGED <<frame, intr, killed,
                 after, seen, copy, rounds, queue, left, consumed>>

\* embk_mutex_unlock: exchange 0, and wake one if somebody may wait.
MutexUnlock(t) ==
  /\ InProgram(t, "unlock")
  /\ Store(Mutex, 0)
  /\ Go(t, after[t]) /\ after' = [after EXCEPT ![t] = "wait"]
  /\ IF mem[Mutex] = 2
     THEN Enter(t, "wake", Mutex, 1)
     ELSE UNCHANGED <<at, call>>
  /\ UNCHANGED <<frame, intr, killed,
                 seen, copy, rounds, queue, left, consumed>>

\* embk_cond_wait, first half: read the sequence number, then release the mutex.
CondWait(t) ==
  /\ InProgram(t, "load")
  /\ seen' = [seen EXCEPT ![t] = mem[Cond]]
  /\ after' = [after EXCEPT ![t] = "wait"]
  /\ Go(t, "unlock")
  /\ UNCHANGED <<fvars, copy, rounds, queue, left, consumed>>

\* embk_cond_wait, second half: sleep unless it has moved, then lock again.
CondSleep(t) ==
  /\ InProgram(t, "wait")
  /\ Enter(t, "wait", Cond, seen[t])
  /\ Go(t, "lock") /\ seen' = [seen EXCEPT ![t] = 0]
  /\ UNCHANGED <<mem, frame, intr, killed,
                 after, copy, rounds, queue, left, consumed>>

\* Mutant: embk_cond_signal where the program broadcasts.
CondBroadcast_Signal(t) ==
  /\ InProgram(t, "broadcast")
  /\ Store(Cond, (mem[Cond] + 1) % (MaxSeq + 1))
  /\ Enter(t, "wake", Cond, 1)
  /\ Go(t, IF t \in Producers /\ rounds[t] = 0 THEN "done" ELSE "lock")
  /\ UNCHANGED <<frame, intr, killed,
                 after, seen, copy, rounds, queue, left, consumed>>

\* embk_cond_broadcast, the last thing of each turn of the program's loops.
CondBroadcast(t) ==
  /\ InProgram(t, "broadcast")
  /\ Store(Cond, (mem[Cond] + 1) % (MaxSeq + 1))
  /\ Enter(t, "wake", Cond, All)
  /\ Go(t, IF t \in Producers /\ rounds[t] = 0 THEN "done" ELSE "lock")
  /\ UNCHANGED <<frame, intr, killed,
                 after, seen, copy, rounds, queue, left, consumed>>
-----------------------------------------------------------------------------
\* The predicate of the program's while loop: the thread must wait.
MustWait(t) ==
  IF t \in Producers
  THEN rounds[t] > 1 /\ Len(queue) = QCap
  ELSE queue = <<>> /\ left > 0

\* A consumer that finds the queue drained and nobody left leaves its loop.
Finished(t) == t \in Consumers /\ queue = <<>> /\ left = 0

Check(t) ==
  /\ InProgram(t, "check")
  /\ \/ MustWait(t) /\ Go(t, "load") /\ UNCHANGED <<after, copy>>
     \/ /\ ~MustWait(t) /\ Finished(t)
        /\ after' = [after EXCEPT ![t] = "done"]
        /\ Go(t, "unlock")
        /\ UNCHANGED copy
     \/ /\ ~MustWait(t) /\ ~Finished(t)
        /\ copy' = [copy EXCEPT ![t] = queue]
        /\ Go(t, "update")
        /\ UNCHANGED after
  /\ UNCHANGED <<fvars, seen, rounds, queue, left, consumed>>

\* A producer's item, or its last turn, which only counts it out.
Put(t) ==
  /\ t \in Producers
  /\ rounds' = [rounds EXCEPT ![t] = @ - 1]
  /\ IF rounds[t] > 1
     THEN /\ queue' = Append(copy[t], <<t, PerProducer + 2 - rounds[t]>>)
          /\ UNCHANGED left
     ELSE left' = left - 1 /\ UNCHANGED queue
  /\ UNCHANGED consumed

Take(t) ==
  /\ t \in Consumers
  /\ queue' = Tail(copy[t])
  /\ consumed' = Append(consumed, Head(copy[t]))
  /\ UNCHANGED <<rounds, left>>

Update(t) ==
  /\ InProgram(t, "update")
  /\ Put(t) \/ Take(t)
  /\ after' = [after EXCEPT ![t] = "broadcast"]
  /\ Go(t, "unlock")
  /\ copy' = [copy EXCEPT ![t] = <<>>]
  /\ UNCHANGED <<fvars, seen>>

UserStep(t) ==
  \/ MutexLock(t) \/ MutexLockSlow(t) \/ MutexUnlock(t)
  \/ CondWait(t) \/ CondSleep(t) \/ CondBroadcast(t)
  \/ Check(t) \/ Update(t)

KernelStep(t) == FutexStep(t) /\ UNCHANGED uvars
Step(t) == UserStep(t) \/ KernelStep(t)

Next ==
  \/ \E t \in Threads : Step(t)
  \/ Interrupt /\ UNCHANGED uvars

\* Every thread that can run is scheduled eventually.
Fairness == \A t \in Threads : WF_vars(Step(t))
Spec == Init /\ [][Next]_vars /\ Fairness
-----------------------------------------------------------------------------
Asleep(w) == {t \in Threads : at[t] = "asleep" /\ call[t].word = w}
Waking(w) == {t \in Threads : call[t].op = "wake" /\ call[t].word = w}

\* At most one thread is between acquiring and releasing the mutex, whatever
\* mixture of fast path, contended path and spurious wake-ups let it in.
MutualExclusion ==
  \A t, u \in Threads : pc[t] \in Holding /\ pc[u] \in Holding => t = u

\* Nobody sleeps on a mutex that nobody will announce free: the word still says
\* 2, or a wake-up is on its way, or a thread that is awake on the contended
\* path will set it to 2 (embk.h: the third state "is what stops a lost wakeup").
MutexWakeOwed ==
  Asleep(Mutex) # {} =>
    \/ mem[Mutex] = 2
    \/ Waking(Mutex) # {}
    \/ \E t \in Threads : pc[t] = "swap" /\ at[t] # "asleep"

\* Nobody sleeps through a signal: whoever sleeps on a sequence number that has
\* moved since is about to be woken (embk.h on embk_cond_wait: "a signal cannot
\* slip past between here and the sleep").
CondWakeOwed ==
  \A t \in Asleep(Cond) : call[t].arg # mem[Cond] => Waking(Cond) # {}

\* Every item is taken once, each producer's in order: what was consumed and
\* what is queued is exactly what was put (lockdemo.c: "Every item produced was
\* consumed exactly once").
PutBy(p) == PerProducer + 1 - (IF rounds[p] = 0 THEN 1 ELSE rounds[p])
Flow == consumed \o queue
ItemsConserved ==
  /\ \A p \in Producers : \A n \in 1..PutBy(p) :
       \E i \in 1..Len(Flow) : Flow[i] = <<p, n>>
  /\ \A i \in 1..Len(Flow) :
       Flow[i][1] \in Producers /\ Flow[i][2] \in 1..PutBy(Flow[i][1])
  /\ \A i, j \in 1..Len(Flow) :
       i < j /\ Flow[i][1] = Flow[j][1] => Flow[i][2] < Flow[j][2]

\* The program ends: no interleaving of waits, wake-ups and spurious wake-ups
\* leaves a thread asleep for ever (lockdemo.c: a lost wakeup "HANGS").
Terminated == \A t \in Threads : pc[t] = "done" /\ at[t] = "user"
EventuallyDone == <>Terminated
-----------------------------------------------------------------------------
\* The same program while memory is reclaimed.  The page may go out at any
\* moment; it is enough to let it go while every thread is in user mode or
\* asleep.
PagedNext ==
  \/ Next
  \/ /\ PageOut /\ UNCHANGED uvars
     /\ \A t \in Threads : at[t] \in {"user", "asleep"}
  \/ PageIn /\ UNCHANGED uvars
PagedSpec ==
  /\ Init /\ [][PagedNext]_vars /\ Fairness
  /\ WF_vars(PageIn /\ UNCHANGED uvars)

\* The same program while it may be killed.
KilledNext ==
  \/ Next
  \/ (Kill \/ \E t \in Threads : Die(t)) /\ UNCHANGED uvars
KilledSpec ==
  /\ Init /\ [][KilledNext]_vars /\ Fairness
  /\ \A t \in Threads : WF_vars(Die(t) /\ UNCHANGED uvars)

\* A killed process ends (process.c:1477: "every indefinite sleep in the kernel
\* checks `cancelled`, which a kill implies, and returns").
KillEnds == killed ~> (\A t \in Threads : at[t] = "dead" \/ pc[t] = "done")
=============================================================================
