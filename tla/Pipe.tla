-------------------------------- MODULE Pipe --------------------------------
(***************************************************************************)
(* Pipes: the ring buffers and reference counts of kernel/ipc/pipe.c, the  *)
(* descriptors of kernel/fs/fd.c and the object handles of kernel/ipc/     *)
(* handle.c that hold their ends, and the calls that make, install, copy,  *)
(* use and drop them.                                                      *)
(*                                                                         *)
(* An end is held by a descriptor, by a handle, or by a thread: the loan   *)
(* of a read or write in progress, the snapshot a close tears down after   *)
(* it gave up the table lock, or the ends pipe_create has not given        *)
(* handles to yet.  Everything done under one hold of g_sched_lock is one  *)
(* action; a descriptor table is only read and changed under its fd_lock,  *)
(* so a table change together with the reference it takes is one action    *)
(* too.  A byte is the thread that wrote it.                               *)
(***************************************************************************)
EXTENDS Integers, Sequences, FiniteSets

CONSTANTS
  Threads, Procs,
  ProcOf,       \* t->proc
  Shell,        \* the process that runs from the start; it spawns the others
  Pipes,        \* the slots of g_pipes
  Size,         \* PIPE_BUF_SIZE
  Fds,          \* the descriptor numbers of a process
  ReadLengths, WriteLengths,   \* the lengths read and write are called with
  MaxPipes,     \* bound: pipe_create calls in one behaviour
  Calls,        \* Calls[q]: what process q does and has done to it
  MaxCalls,     \* bound: reads, writes, copies and closes process q starts
  HandleRaces,  \* may a thread use or close a handle a sibling's call has?
  None

Sides == {"r", "w"}
Ends == [pipe : Pipes, side : Sides]

ASSUME PipeAssumption ==
  /\ IsFiniteSet(Threads) /\ IsFiniteSet(Procs) /\ IsFiniteSet(Fds)
  /\ ProcOf \in [Threads -> Procs]
  /\ Shell \in Procs
  /\ Size \in Nat \ {0}
  /\ ReadLengths \subseteq Nat \ {0} /\ WriteLengths \subseteq Nat \ {0}
  /\ Calls \in [Procs -> SUBSET {"pipe", "io", "dup", "close", "handle", "spawn",
                             "cancelled"}]
  /\ MaxPipes \in Nat /\ MaxCalls \in [Procs -> Nat]
  /\ HandleRaces \in BOOLEAN
  /\ None \notin Pipes \cup Ends \cup Threads \cup Procs

Indices == 0..(Size - 1)
Lengths == ReadLengths \cup WriteLengths

VARIABLES
  used, buf, head, tail, count,  \* struct pipe
  refs,       \* refs[p].r is n_readers, refs[p].w is n_writers
  made,       \* g_next_pipe_id - 1: pipes created so far
  fds,        \* fds[q][d]: the end descriptor d of process q holds, or None
  handles,    \* handles[q]: the ends process q holds object handles to
  life,       \* of a process: unborn, spawning, alive, zombie, reaped
  cancelled,  \* proc->cancelled, sticky
  pc,         \* where in a call a thread is, "user" outside
  end,        \* the end the thread itself holds or is installing
  args,       \* len and nonblock of the read or write in progress
  asleep,     \* threads blocked on their pipe's read_wait or write_wait
  child,      \* the process a spawning thread is building
  newfds,     \* descriptors a sys_pipe_fds call has installed so far
  answer,     \* what the read or write in progress is going to return
  calls       \* calls[q]: calls left to process q (bound)

pipeVars == <<used, buf, head, tail, count, refs, made>>
ring == <<buf, head, tail, count>>
tables == <<fds, handles>>
procVars == <<life, cancelled, calls>>
threadVars == <<pc, end, args, child, newfds, answer>>
vars == <<pipeVars, tables, procVars, threadVars, asleep>>

NoArgs == [len |-> 0, nonblock |-> FALSE]

TypeOK ==
  /\ used \in [Pipes -> BOOLEAN]
  /\ buf \in [Pipes -> [Indices -> Threads \cup {None}]]
  /\ head \in [Pipes -> Indices] /\ tail \in [Pipes -> Indices]
  /\ count \in [Pipes -> 0..Size]
  /\ refs \in [Pipes -> [Sides -> Nat]]
  /\ made \in 0..MaxPipes
  /\ fds \in [Procs -> [Fds -> Ends \cup {None}]]
  /\ handles \in [Procs -> SUBSET Ends]
  /\ life \in [Procs -> {"unborn", "spawning", "alive", "zombie", "reaped"}]
  /\ cancelled \in [Procs -> BOOLEAN]
  /\ pc \in [Threads -> {"user", "makeR", "makeW", "makeFail", "fdR", "fdW",
                         "dropR", "dropW", "undo", "undoW",
                         "undoFds", "undoClose", "read", "write", "return",
                         "closing", "install", "spawn", "discard"}]
  /\ end \in [Threads -> Ends \cup {None}]
  /\ args \in [Threads -> [len : Lengths \cup {0}, nonblock : BOOLEAN]]
  /\ asleep \subseteq Threads
  /\ child \in [Threads -> Procs \cup {None}]
  /\ newfds \in [Threads -> SUBSET Fds]
  /\ answer \in [Threads -> {"none", "done", "eof", "epipe", "ebadf",
                             "ecanceled", "eagain"}]
  /\ calls \in [Procs -> Nat]

Init ==
  /\ used = [p \in Pipes |-> FALSE]
  /\ buf = [p \in Pipes |-> [i \in Indices |-> None]]
  /\ head = [p \in Pipes |-> 0] /\ tail = [p \in Pipes |-> 0]
  /\ count = [p \in Pipes |-> 0]
  /\ refs = [p \in Pipes |-> [s \in Sides |-> 0]]
  /\ made = 0
  /\ fds = [q \in Procs |-> [d \in Fds |-> None]]
  /\ handles = [q \in Procs |-> {}]
  /\ life = [q \in Procs |-> IF q = Shell THEN "alive" ELSE "unborn"]
  /\ cancelled = [q \in Procs |-> FALSE]
  /\ pc = [t \in Threads |-> "user"]
  /\ end = [t \in Threads |-> None]
  /\ args = [t \in Threads |-> NoArgs]
  /\ asleep = {}
  /\ child = [t \in Threads |-> None]
  /\ newfds = [t \in Threads |-> {}]
  /\ answer = [t \in Threads |-> "none"]
  /\ calls = MaxCalls
-----------------------------------------------------------------------------
(* References. *)

Other(s) == IF s = "r" THEN "w" ELSE "r"
EndOf(p, s) == [pipe |-> p, side |-> s]

Nothing == [p \in Pipes |-> [s \in Sides |-> 0]]
One(e) == [p \in Pipes |-> [s \in Sides |-> IF e = EndOf(p, s) THEN 1 ELSE 0]]
Both(p) == [Nothing EXCEPT ![p] = [s \in Sides |-> 1]]
Many(q) == [p \in Pipes |-> [s \in Sides |->
              Cardinality({d \in Fds : fds[q][d] = EndOf(p, s)})]]
HandleRefs(q) == [p \in Pipes |-> [s \in Sides |->
                    IF EndOf(p, s) \in handles[q] THEN 1 ELSE 0]]

\* Mutant: the slot is freed as soon as one side has no holder left.
Settle_FreeEarly(drop, take) ==
  LET left == [p \in Pipes |-> [s \in Sides |-> refs[p][s] - drop[p][s]]]
  IN  /\ refs' = [p \in Pipes |-> [s \in Sides |-> left[p][s] + take[p][s]]]
      /\ used' = [p \in Pipes |->
                    /\ used[p]
                    /\ \/ \A s \in Sides : drop[p][s] = 0
                       \/ \A s \in Sides : left[p][s] # 0]
      /\ asleep' = {t \in asleep :
                      LET p == end[t].pipe
                          s == Other(end[t].side)
                      IN  drop[p][s] = 0 \/ left[p][s] # 0}

\* Mutant: nobody is woken when the last holder of a side leaves.
Settle_NoWake(drop, take) ==
  LET left == [p \in Pipes |-> [s \in Sides |-> refs[p][s] - drop[p][s]]]
  IN  /\ refs' = [p \in Pipes |-> [s \in Sides |-> left[p][s] + take[p][s]]]
      /\ used' = [p \in Pipes |->
                    /\ used[p]
                    /\ \/ \A s \in Sides : drop[p][s] = 0
                       \/ \E s \in Sides : left[p][s] # 0]
      /\ UNCHANGED asleep

\* Under one hold of g_sched_lock: the ends in `drop` are given up
\* (pipe_unref_locked: the last holder of a side wakes the threads waiting on
\* the other side, the last holder of both frees the slot), then the ends in
\* `take` get one more holder (pipe_ref_locked).
Settle(drop, take) ==
  LET left == [p \in Pipes |-> [s \in Sides |-> refs[p][s] - drop[p][s]]]
  IN  /\ refs' = [p \in Pipes |-> [s \in Sides |-> left[p][s] + take[p][s]]]
      /\ used' = [p \in Pipes |->
                    /\ used[p]
                    /\ \/ \A s \in Sides : drop[p][s] = 0
                       \/ \E s \in Sides : left[p][s] # 0]
      /\ asleep' = {t \in asleep :
                      LET p == end[t].pipe
                          s == Other(end[t].side)
                      IN  drop[p][s] = 0 \/ left[p][s] # 0}

Drop(refsDropped) == Settle(refsDropped, Nothing) /\ UNCHANGED <<ring, made>>

At(t, where) == pc[t] = where /\ t \notin asleep
Goto(t, where) == pc' = [pc EXCEPT ![t] = where]
InUser(t, call) ==
  At(t, "user") /\ life[ProcOf[t]] = "alive" /\ call \in Calls[ProcOf[t]]
Spend(q) == calls[q] > 0 /\ calls' = [calls EXCEPT ![q] = @ - 1]
SetEnd(t, e) == end' = [end EXCEPT ![t] = e]
Finish(t) == Goto(t, "user") /\ SetEnd(t, None)
SetFd(q, d, e) == fds' = [fds EXCEPT ![q][d] = e]
SetHandles(q, H) == handles' = [handles EXCEPT ![q] = H]
-----------------------------------------------------------------------------
(* pipe_create and the two system calls around it. *)

PipeCreate(t, p) ==
  /\ InUser(t, "pipe")
  /\ made < MaxPipes
  /\ ~used[p]
  /\ used' = [used EXCEPT ![p] = TRUE]
  /\ buf' = [buf EXCEPT ![p] = [i \in Indices |-> None]]
  /\ head' = [head EXCEPT ![p] = 0]
  /\ tail' = [tail EXCEPT ![p] = 0]
  /\ count' = [count EXCEPT ![p] = 0]
  /\ refs' = [refs EXCEPT ![p] = [s \in Sides |-> 1]]
  /\ made' = made + 1
  /\ Goto(t, "makeR")
  /\ SetEnd(t, EndOf(p, "r"))
  /\ UNCHANGED <<tables, procVars, args, child, newfds, answer, asleep>>

\* obj_handle_alloc for the read end, then for the write end; sys_pipe returns
\* to the user with the handles, sys_pipe_fds goes on to install descriptors,
\* a copy_to_user fault gives both handles back.
HandleForRead(t) ==
  /\ At(t, "makeR")
  /\ SetHandles(ProcOf[t], handles[ProcOf[t]] \cup {end[t]})
  /\ Goto(t, "makeW")
  /\ SetEnd(t, EndOf(end[t].pipe, "w"))
  /\ UNCHANGED <<pipeVars, fds, procVars, args, child, newfds, answer, asleep>>

HandleForWrite(t) ==
  /\ At(t, "makeW")
  /\ SetHandles(ProcOf[t], handles[ProcOf[t]] \cup {end[t]})
  /\ \/ Finish(t)
     \/ \E next \in {"fdR", "dropR"} : Goto(t, next) /\ UNCHANGED end
  /\ UNCHANGED <<pipeVars, fds, procVars, args, child, newfds, answer, asleep>>

\* obj_handle_alloc found no room.
HandleFails(t) ==
  \/ /\ At(t, "makeR")
     /\ Drop(Both(end[t].pipe))
     /\ Finish(t)
     /\ UNCHANGED <<tables, procVars, args, child, newfds, answer>>
  \/ /\ At(t, "makeW")
     /\ LET r == EndOf(end[t].pipe, "r") IN
          /\ Drop(One(r))
          /\ SetHandles(ProcOf[t], handles[ProcOf[t]] \ {r})
     /\ Goto(t, "makeFail")
     /\ UNCHANGED <<fds, procVars, end, args, child, newfds, answer>>
  \/ /\ At(t, "makeFail")
     /\ Drop(One(end[t]))
     /\ Finish(t)
     /\ UNCHANGED <<tables, procVars, args, child, newfds, answer>>

\* fd_install_pipe_any for the two ends: each installed descriptor takes a
\* reference of its own beside the handle's.
InstallAny(t) ==
  /\ pc[t] \in {"fdR", "fdW"}
  /\ LET q == ProcOf[t]
         e == EndOf(end[t].pipe, IF pc[t] = "fdR" THEN "r" ELSE "w")
     IN  \/ \E d \in Fds :
              /\ fds[q][d] = None
              /\ SetFd(q, d, e)
              /\ Settle(Nothing, One(e))
              /\ newfds' = [newfds EXCEPT ![t] = @ \cup {d}]
              /\ \E next \in IF pc[t] = "fdR" THEN {"fdW"} ELSE {"dropR", "undo"} :
                   Goto(t, next)
         \/ /\ Goto(t, "undo")
            /\ UNCHANGED <<used, refs, fds, newfds, asleep>>
  /\ UNCHANGED <<ring, made, handles, procVars, end, args, child, answer>>

\* The handles are released one after the other: the call failed, or its
\* descriptors have taken their place.
DropHandle(t) ==
  /\ pc[t] \in {"dropR", "dropW", "undo", "undoW"}
  /\ LET q == ProcOf[t]
         e == EndOf(end[t].pipe, IF pc[t] \in {"dropR", "undo"} THEN "r" ELSE "w")
     IN  /\ SetHandles(q, handles[q] \ {e})
         /\ Drop(One(e))
  /\ \/ /\ pc[t] \in {"dropR", "undo"}
        /\ Goto(t, IF pc[t] = "dropR" THEN "dropW" ELSE "undoW")
        /\ UNCHANGED <<end, newfds>>
     \/ /\ pc[t] = "dropW"
        /\ Finish(t)
        /\ newfds' = [newfds EXCEPT ![t] = {}]
     \/ /\ pc[t] = "undoW"
        /\ Goto(t, "undoFds")
        /\ UNCHANGED <<end, newfds>>
  /\ UNCHANGED <<fds, procVars, args, child, answer>>

\* vfs_close of the descriptors the failed call had installed, by number.
UndoFds(t) ==
  /\ At(t, "undoFds")
  /\ \/ /\ newfds[t] = {}
        /\ Finish(t)
        /\ UNCHANGED <<fds, newfds>>
     \/ \E d \in newfds[t] :
          /\ newfds' = [newfds EXCEPT ![t] = @ \ {d}]
          /\ SetFd(ProcOf[t], d, None)
          /\ IF fds[ProcOf[t]][d] = None
               THEN UNCHANGED <<pc, end>>
               ELSE Goto(t, "undoClose") /\ SetEnd(t, fds[ProcOf[t]][d])
  /\ UNCHANGED <<pipeVars, handles, procVars, args, child, answer, asleep>>
-----------------------------------------------------------------------------
(* Reads, writes and probes of a descriptor. *)

LengthsOf(op) == IF op = "read" THEN ReadLengths ELSE WriteLengths
OpOf(e) == IF e.side = "r" THEN "read" ELSE "write"

\* Mutant: the loan is a plain copy of the descriptor.
Borrow_NoRef(t, d, op) ==
  LET e == fds[ProcOf[t]][d] IN
  /\ InUser(t, "io")
  /\ e # None
  /\ Spend(ProcOf[t])
  /\ SetEnd(t, e)
  /\ \/ /\ op = OpOf(e)
        /\ Goto(t, op)
        /\ \E len \in LengthsOf(op), nonblock \in BOOLEAN :
             args' = [args EXCEPT ![t] = [len |-> len, nonblock |-> nonblock]]
        /\ UNCHANGED answer
     \/ /\ op # OpOf(e)
        /\ Goto(t, "return")
        /\ answer' = [answer EXCEPT ![t] = "ebadf"]
        /\ UNCHANGED args
  /\ UNCHANGED <<pipeVars, tables, life, cancelled, child, newfds, asleep>>

\* vfs_fd_read, vfs_fd_write, vfs_fd_avail, vfs_fd_poll: the descriptor is
\* copied under the table lock and the copy holds the end until fd_return.  The
\* wrong direction, or a probe, gives it back at once.
Borrow(t, d, op) ==
  LET e == fds[ProcOf[t]][d] IN
  /\ InUser(t, "io")
  /\ e # None
  /\ Spend(ProcOf[t])
  /\ Settle(Nothing, One(e))
  /\ SetEnd(t, e)
  /\ \/ /\ op = OpOf(e)
        /\ Goto(t, op)
        /\ \E len \in LengthsOf(op), nonblock \in BOOLEAN :
             args' = [args EXCEPT ![t] = [len |-> len, nonblock |-> nonblock]]
        /\ UNCHANGED answer
     \/ /\ op # OpOf(e)
        /\ Goto(t, "return")
        /\ answer' = [answer EXCEPT ![t] = "ebadf"]
        /\ UNCHANGED args
  /\ UNCHANGED <<ring, made, tables, life, cancelled, child, newfds>>

Reply(t, a) ==
  /\ Goto(t, "return")
  /\ answer' = [answer EXCEPT ![t] = a]

\* The tail of both would-block loops.
CancelOrBlock(t) ==
  \/ /\ cancelled[ProcOf[t]]
     /\ Reply(t, "ecanceled")
     /\ UNCHANGED asleep
  \/ /\ ~cancelled[ProcOf[t]]
     /\ args[t].nonblock
     /\ Reply(t, "eagain")
     /\ UNCHANGED asleep
  \/ /\ ~cancelled[ProcOf[t]]
     /\ ~args[t].nonblock
     /\ asleep' = asleep \cup {t}
     /\ UNCHANGED <<pc, answer>>

WakeAll(p, s) == asleep' = {u \in asleep : end[u] # EndOf(p, s)}

Lesser(a, b) == IF a < b THEN a ELSE b

\* One pass of pipe_read_flags' loop.
PipeRead(t) ==
  LET p == end[t].pipe
      n == Lesser(args[t].len, count[p])
  IN  /\ At(t, "read")
      /\ \/ /\ count[p] = 0
            /\ \/ refs[p].w = 0 /\ Reply(t, "eof") /\ UNCHANGED asleep
               \/ refs[p].w # 0 /\ CancelOrBlock(t)
            /\ UNCHANGED ring
         \/ /\ count[p] # 0
            /\ tail' = [tail EXCEPT ![p] = (@ + n) % Size]
            /\ count' = [count EXCEPT ![p] = @ - n]
            /\ WakeAll(p, "w")
            /\ Reply(t, "done")
            /\ UNCHANGED <<buf, head>>
      /\ UNCHANGED <<used, refs, made, tables, procVars, end, args, child, newfds>>

\* Mutant: only a full pipe makes a writer wait.
MustWait_NoAtomic(p, len) == count[p] = Size

\* A write that fits the pipe waits until it fits whole.
MustWait(p, len) == count[p] = Size \/ (len <= Size /\ Size - count[p] < len)

Wrapped(p, i, n) == (i + Size - head[p]) % Size < n

\* One pass of pipe_write_flags' loop, with the descriptor layer's atomic_small.
PipeWrite(t) ==
  LET p == end[t].pipe
      n == Lesser(args[t].len, Size - count[p])
  IN  /\ At(t, "write")
      /\ \/ /\ refs[p].r = 0
            /\ Reply(t, "epipe")
            /\ UNCHANGED <<ring, asleep>>
         \/ /\ refs[p].r # 0
            /\ MustWait(p, args[t].len)
            /\ CancelOrBlock(t)
            /\ UNCHANGED ring
         \/ /\ refs[p].r # 0
            /\ ~MustWait(p, args[t].len)
            /\ buf' = [buf EXCEPT ![p] = [i \in Indices |->
                         IF Wrapped(p, i, n) THEN t ELSE @[i]]]
            /\ head' = [head EXCEPT ![p] = (@ + n) % Size]
            /\ count' = [count EXCEPT ![p] = @ + n]
            /\ WakeAll(p, "r")
            /\ Reply(t, "done")
            /\ UNCHANGED tail
      /\ UNCHANGED <<used, refs, made, tables, procVars, end, args, child, newfds>>

\* fd_return: the loan's reference goes, the call is over.
FdReturn(t) ==
  /\ At(t, "return")
  /\ Drop(One(end[t]))
  /\ Finish(t)
  /\ args' = [args EXCEPT ![t] = NoArgs]
  /\ answer' = [answer EXCEPT ![t] = "none"]
  /\ UNCHANGED <<tables, procVars, child, newfds>>
-----------------------------------------------------------------------------
(* Copying and closing descriptors. *)

\* vfs_fd_dup: the target's old end is snapshotted and torn down after the
\* table lock is gone.
Dup(t, d, d2) ==
  LET q == ProcOf[t] IN
  /\ InUser(t, "dup")
  /\ fds[q][d] # None
  /\ d # d2
  /\ Spend(q)
  /\ Settle(Nothing, One(fds[q][d]))
  /\ SetFd(q, d2, fds[q][d])
  /\ IF fds[q][d2] = None
       THEN UNCHANGED <<pc, end>>
       ELSE Goto(t, "closing") /\ SetEnd(t, fds[q][d2])
  /\ UNCHANGED <<ring, made, handles, life, cancelled, args, child, newfds, answer>>

\* vfs_close: the slot is free at once, the end is dropped afterwards.
Close(t, d) ==
  LET q == ProcOf[t] IN
  /\ InUser(t, "close")
  /\ fds[q][d] # None
  /\ Spend(q)
  /\ SetFd(q, d, None)
  /\ Goto(t, "closing")
  /\ SetEnd(t, fds[q][d])
  /\ UNCHANGED <<pipeVars, handles, life, cancelled, args, child, newfds, answer, asleep>>

PipeFdClose(t) ==
  /\ pc[t] \in {"closing", "undoClose"}
  /\ Drop(One(end[t]))
  /\ IF pc[t] = "closing" THEN Finish(t) ELSE Goto(t, "undoFds") /\ SetEnd(t, None)
  /\ UNCHANGED <<tables, procVars, args, child, newfds, answer>>

\* A sibling's call is still working with the handle: it has not returned it
\* yet, is giving it back, or has looked it up.  Nothing in the kernel keeps
\* another thread from using or closing it, only the program does.
Busy(t, e) ==
  \E u \in Threads \ {t} :
    /\ ProcOf[u] = ProcOf[t]
    /\ \/ /\ pc[u] \in {"makeW", "fdR", "fdW", "dropR", "dropW", "undo", "undoW"}
          /\ end[u].pipe = e.pipe
       \/ pc[u] = "install" /\ end[u] = e

HandleClose(t, e) ==
  /\ InUser(t, "handle")
  /\ e \in handles[ProcOf[t]]
  /\ HandleRaces \/ ~Busy(t, e)
  /\ SetHandles(ProcOf[t], handles[ProcOf[t]] \ {e})
  /\ Drop(One(e))
  /\ UNCHANGED <<fds, procVars, threadVars>>
-----------------------------------------------------------------------------
(* Installing a handle's end as a descriptor, in the own table or in the    *)
(* table of a process under construction.                                   *)

Target(t) == IF child[t] = None THEN ProcOf[t] ELSE child[t]
Resume(t) == IF child[t] = None THEN "user" ELSE "spawn"

\* The handle is looked up without a lock: only the pipe and the side are kept.
ResolveHandle(t, e) ==
  /\ InUser(t, "handle") \/ At(t, "spawn")
  /\ e \in handles[ProcOf[t]]
  /\ HandleRaces \/ ~Busy(t, e)
  /\ child[t] = None => Spend(ProcOf[t])
  /\ child[t] # None => UNCHANGED calls
  /\ Goto(t, "install")
  /\ SetEnd(t, e)
  /\ UNCHANGED <<pipeVars, tables, life, cancelled, args, child, newfds, answer, asleep>>

\* install_pipe: what the slot held is closed first; the installed descriptor
\* is a new holder.  Without memory for it the slot stays empty.
InstallPipe(t, d) ==
  LET q == Target(t) IN
  /\ At(t, "install")
  /\ \/ /\ Settle(One(fds[q][d]), One(end[t]))
        /\ SetFd(q, d, end[t])
        /\ Goto(t, Resume(t))
     \/ /\ Settle(One(fds[q][d]), Nothing)
        /\ SetFd(q, d, None)
        /\ Goto(t, IF child[t] = None THEN "user" ELSE "discard")
  /\ SetEnd(t, None)
  /\ UNCHANGED <<ring, made, handles, procVars, args, child, newfds, answer>>

SpawnBegin(t, q) ==
  /\ InUser(t, "spawn")
  /\ life[q] = "unborn"
  /\ life' = [life EXCEPT ![q] = "spawning"]
  /\ child' = [child EXCEPT ![t] = q]
  /\ Goto(t, "spawn")
  /\ UNCHANGED <<pipeVars, tables, cancelled, calls, end, args, newfds, answer, asleep>>

\* fd_inherit_into: a descriptor of the parent is copied into the child's
\* table, over what the slot held.
SpawnInherit(t, d, d2) ==
  LET e == fds[ProcOf[t]][d]
      q == child[t]
  IN  /\ At(t, "spawn")
      /\ e # None
      /\ Settle(One(fds[q][d2]), One(e))
      /\ SetFd(q, d2, e)
      /\ UNCHANGED <<ring, made, handles, procVars, threadVars>>

SpawnDone(t) ==
  /\ At(t, "spawn")
  /\ life' = [life EXCEPT ![child[t]] = "alive"]
  /\ child' = [child EXCEPT ![t] = None]
  /\ Goto(t, "user")
  /\ UNCHANGED <<pipeVars, tables, cancelled, calls, end, args, newfds, answer, asleep>>

SpawnFails(t) ==
  /\ At(t, "spawn")
  /\ Goto(t, "discard")
  /\ UNCHANGED <<pipeVars, tables, procVars, end, args, child, newfds, answer, asleep>>

\* spawn_discard_fds closes the child's descriptors one by one.
SpawnDiscardFds(t) ==
  LET q == child[t] IN
  /\ At(t, "discard")
  /\ \/ \E d \in Fds :
          /\ fds[q][d] # None
          /\ Drop(One(fds[q][d]))
          /\ SetFd(q, d, None)
          /\ UNCHANGED <<life, child, pc>>
     \/ /\ \A d \in Fds : fds[q][d] = None
        /\ life' = [life EXCEPT ![q] = "unborn"]
        /\ child' = [child EXCEPT ![t] = None]
        /\ Goto(t, "user")
        /\ UNCHANGED <<pipeVars, fds, asleep>>
  /\ UNCHANGED <<handles, cancelled, calls, end, args, newfds, answer>>
-----------------------------------------------------------------------------
(* The processes' ends. *)

\* process_cancel_locked, on its own or as part of a kill.
Cancel(q) ==
  /\ life[q] = "alive" /\ ~cancelled[q] /\ "cancelled" \in Calls[q]
  /\ cancelled' = [cancelled EXCEPT ![q] = TRUE]
  /\ asleep' = {t \in asleep : ProcOf[t] # q}
  /\ UNCHANGED <<pipeVars, tables, life, calls, threadVars>>

\* The last thread of q leaves: its descriptors go at once, under the lock.
Exit(q) ==
  /\ life[q] = "alive"
  /\ \A t \in Threads : ProcOf[t] = q => At(t, "user")
  /\ life' = [life EXCEPT ![q] = "zombie"]
  /\ Drop(Many(q))
  /\ fds' = [fds EXCEPT ![q] = [d \in Fds |-> None]]
  /\ UNCHANGED <<handles, cancelled, calls, threadVars>>

\* process_reap_slot: the handles go only now.
Reap(q) ==
  /\ life[q] = "zombie"
  /\ life' = [life EXCEPT ![q] = "reaped"]
  /\ Drop(HandleRefs(q))
  /\ SetHandles(q, {})
  /\ UNCHANGED <<fds, cancelled, calls, threadVars>>

\* Everybody left: the machine has nothing more to do with pipes.
Idle ==
  /\ \A q \in Procs : life[q] \in {"unborn", "reaped"}
  /\ life[Shell] = "reaped"
  /\ UNCHANGED vars
-----------------------------------------------------------------------------
PipeCall(t) ==
  \/ \E p \in Pipes : PipeCreate(t, p)
  \/ HandleForRead(t) \/ HandleForWrite(t) \/ HandleFails(t)
  \/ InstallAny(t) \/ DropHandle(t) \/ UndoFds(t)

FdCall(t) ==
  \/ \E d \in Fds, op \in {"read", "write"} : Borrow(t, d, op)
  \/ FdReturn(t)
  \/ \E d, d2 \in Fds : Dup(t, d, d2)
  \/ \E d \in Fds : Close(t, d)
  \/ PipeFdClose(t)

HandleCall(t) ==
  \/ \E e \in Ends : HandleClose(t, e) \/ ResolveHandle(t, e)
  \/ \E d \in Fds : InstallPipe(t, d)

SpawnCall(t) ==
  \/ \E q \in Procs : SpawnBegin(t, q)
  \/ \E d, d2 \in Fds : SpawnInherit(t, d, d2)
  \/ SpawnDone(t) \/ SpawnFails(t) \/ SpawnDiscardFds(t)

Next ==
  \/ \E t \in Threads :
       PipeCall(t) \/ FdCall(t) \/ HandleCall(t) \/ SpawnCall(t)
       \/ PipeRead(t) \/ PipeWrite(t)
  \/ \E q \in Procs : Cancel(q) \/ Exit(q) \/ Reap(q)
  \/ Idle

Spec == Init /\ [][Next]_vars
-----------------------------------------------------------------------------
(* Properties. *)

HoldingThreads(e) ==
  {t \in Threads :
     \/ /\ pc[t] \in {"makeW", "makeFail", "read", "write", "return",
                      "closing", "undoClose"}
        /\ end[t] = e
     \/ pc[t] = "makeR" /\ end[t].pipe = e.pipe}

Holders(e) ==
  Cardinality({x \in Procs \X Fds : fds[x[1]][x[2]] = e})
    + Cardinality({q \in Procs : e \in handles[q]})
    + Cardinality(HoldingThreads(e))

\* The reference counts n_readers and n_writers are exactly the descriptors,
\* handles, loans and pending closes that exist, so a slot is in use exactly
\* while somebody can still name it: none is freed under a holder, none leaks.
RefsExact ==
  \A p \in Pipes :
    /\ \A s \in Sides : refs[p][s] = Holders(EndOf(p, s))
    /\ used[p] <=> \E s \in Sides : refs[p][s] # 0

\* A thread sleeps on a pipe only while what it waits for is really missing:
\* a reader while the pipe is empty and somebody can still write, a writer
\* while its write does not fit and somebody can still read, and neither in a
\* cancelled process.  Otherwise a wake-up was lost.
SleepIsJustified ==
  \A t \in asleep :
    LET p == end[t].pipe IN
    /\ used[p]
    /\ ~cancelled[ProcOf[t]]
    /\ pc[t] = "read" => count[p] = 0 /\ refs[p].w # 0
    /\ pc[t] = "write" => MustWait(p, args[t].len) /\ refs[p].r # 0

\* End of file and broken pipe are final: a side of a live pipe that nobody
\* holds is never held again, whatever copies, installations and calls in
\* progress there are.
GoneIsGone ==
  [][\A p \in Pipes, s \in Sides :
       (used[p] /\ refs[p][s] = 0) => refs'[p][s] = 0]_vars
=============================================================================
