------------------------------- MODULE Futex -------------------------------
(***************************************************************************)
(* The futex system call (kernel/process/futex.c) as one process uses it:  *)
(* words of one page of anonymous memory, the frame the page occupies, and *)
(* the threads inside futex_wait and futex_wake.                           *)
(*                                                                         *)
(* A call first turns the word's address into a key, the physical address, *)
(* holding no lock; compare-and-sleep and wake then each run under         *)
(* g_sched_lock and g_futex_lock.  The page may be swapped out and come    *)
(* back in another frame (PageOut, PageIn), an interrupt or a cancellation *)
(* wakes every sleeper (Interrupt), and the process may be killed (Kill).  *)
(***************************************************************************)
EXTENDS Integers, FiniteSets

CONSTANTS
  Threads,        \* threads of the process
  Words,          \* the futex words, all on one page
  Values,         \* what a word may hold
  Frames,         \* physical frames the page may occupy
  NoFrame,        \* the page is out on the swap store
  BucketOf(_),    \* bucket_of: the wait queue of a key
  MaxInterrupts   \* bound on interrupts

ASSUME NoFrameAssumption == NoFrame \notin Frames

VARIABLES
  mem,      \* the words' values, as the process sees them
  frame,    \* where the page is
  at,       \* where each thread is: in user mode or at a point of the call
  call,     \* the call it is in: operation, word, argument and key
  intr,     \* interrupts raised so far
  killed    \* the process has been killed

fvars == <<mem, frame, at, call, intr, killed>>

Keys == [frame : Frames, word : Words]
NoKey == [frame |-> NoFrame, word |-> NoFrame]
NoCall == [op |-> "none", word |-> NoFrame, arg |-> 0, key |-> NoKey]
Points == {"user", "lookup", "locked", "asleep", "dead"}

FutexTypeOK ==
  /\ mem \in [Words -> Values]
  /\ frame \in Frames \cup {NoFrame}
  /\ at \in [Threads -> Points]
  /\ \A t \in Threads :
       IF at[t] \in {"user", "dead"}
       THEN call[t] = NoCall
       ELSE /\ call[t].op \in {"wait", "wake"}
            /\ call[t].word \in Words
            /\ call[t].key \in IF at[t] = "lookup" THEN {NoKey}
                               ELSE [frame : Frames, word : {call[t].word}]
  /\ intr \in 0..MaxInterrupts
  /\ killed \in BOOLEAN

FutexInit ==
  /\ mem = [w \in Words |-> 0]
  /\ frame \in Frames
  /\ at = [t \in Threads |-> "user"]
  /\ call = [t \in Threads |-> NoCall]
  /\ intr = 0
  /\ killed = FALSE
-----------------------------------------------------------------------------
\* A thread in user mode may touch the page: it is resident, or the fault
\* handler (PageIn) runs first.
InUser(t) == at[t] = "user" /\ frame # NoFrame

\* The thread traps into the kernel with the given operation.
Enter(t, op, w, arg) ==
  /\ at' = [at EXCEPT ![t] = "lookup"]
  /\ call' = [call EXCEPT ![t] = [op |-> op, word |-> w, arg |-> arg,
                                  key |-> NoKey]]

\* The threads in S leave the system call, where a killed thread dies.
Home == IF killed THEN "dead" ELSE "user"
Back(S) ==
  /\ at' = [t \in Threads |-> IF t \in S THEN Home ELSE at[t]]
  /\ call' = [t \in Threads |-> IF t \in S THEN NoCall ELSE call[t]]

\* futex_key.  access_ok faulted the page in; if it has gone out again before
\* the walk, the call fails with EFAULT.
FutexKey(t) ==
  /\ at[t] = "lookup"
  /\ IF frame = NoFrame
     THEN Back({t})
     ELSE /\ at' = [at EXCEPT ![t] = "locked"]
          /\ call' = [call EXCEPT ![t].key = [frame |-> frame,
                                              word |-> call[t].word]]
  /\ UNCHANGED <<mem, frame, intr, killed>>

\* What futex_wait reads through the direct map: the word, or whatever the
\* frame holds now if the page has left it.
Reads(k) == IF k.frame = frame THEN {mem[k.word]} ELSE Values

\* Mutant: the word is not compared again under the lock.
FutexWait_NoCompare(t) ==
  /\ at[t] = "locked" /\ call[t].op = "wait"
  /\ at' = [at EXCEPT ![t] = "asleep"]
  /\ UNCHANGED <<mem, frame, call, intr, killed>>

\* futex_wait: sleep only if the word still says what the caller saw.
FutexWait(t) ==
  /\ at[t] = "locked" /\ call[t].op = "wait"
  /\ \E v \in Reads(call[t].key) :
       IF v = call[t].arg
       THEN at' = [at EXCEPT ![t] = "asleep"] /\ UNCHANGED call
       ELSE Back({t})
  /\ UNCHANGED <<mem, frame, intr, killed>>

\* Mutant: the bucket is woken without looking at the sleepers' keys.
Sleepers_AnyKey(k) ==
  {t \in Threads : at[t] = "asleep" /\ BucketOf(call[t].key) = BucketOf(k)}

\* The threads of the key's bucket that sleep on the key.
Sleepers(k) ==
  {t \in Threads : /\ at[t] = "asleep"
                   /\ BucketOf(call[t].key) = BucketOf(k)
                   /\ call[t].key = k}

\* futex_wake: up to n sleepers become ready.
FutexWake(t) ==
  /\ at[t] = "locked" /\ call[t].op = "wake"
  /\ \E W \in SUBSET Sleepers(call[t].key) :
       /\ \/ Cardinality(W) = call[t].arg
          \/ Cardinality(W) < call[t].arg /\ W = Sleepers(call[t].key)
       /\ Back(W \cup {t})
  /\ UNCHANGED <<mem, frame, intr, killed>>

FutexStep(t) == FutexKey(t) \/ FutexWait(t) \/ FutexWake(t)

\* process_raise_interrupt and process_cancel: every sleeper is woken.
Interrupt ==
  /\ intr < MaxInterrupts
  /\ intr' = intr + 1
  /\ Back({t \in Threads : at[t] = "asleep"})
  /\ UNCHANGED <<mem, frame, killed>>

\* reclaim_anon_locked unmaps the page and frees its frame; sleeping on one of
\* its words does not keep it.
PageOut ==
  /\ frame # NoFrame
  /\ frame' = NoFrame
  /\ UNCHANGED <<mem, at, call, intr, killed>>

\* page_get: the page comes back into whichever frame is free.
PageIn ==
  /\ frame = NoFrame
  /\ frame' \in Frames
  /\ UNCHANGED <<mem, at, call, intr, killed>>

\* process_kill: every thread is marked; the blocked ones are woken, find the
\* process cancelled and die on their way out.
Kill ==
  /\ ~killed
  /\ killed' = TRUE
  /\ at' = [t \in Threads |-> IF at[t] = "asleep" THEN "dead" ELSE at[t]]
  /\ call' = [t \in Threads |-> IF at[t] = "asleep" THEN NoCall ELSE call[t]]
  /\ UNCHANGED <<mem, frame, intr>>

\* A marked thread that the scheduler finds in user mode dies there.
Die(t) ==
  /\ killed
  /\ at[t] = "user"
  /\ at' = [at EXCEPT ![t] = "dead"]
  /\ UNCHANGED <<mem, frame, call, intr, killed>>
=============================================================================
