---------------------------------- MODULE PipeInv ----------------------------
(***************************************************************************)
(* The inductive invariants of Pipe and the vocabulary their proofs use:   *)
(* what every place of a call says about counts, tables and processes      *)
(* (IInv), about the bytes in the ring and the calls shown to the abstract *)
(* stream (StreamInv), and what one step does to them.                     *)
(***************************************************************************)
EXTENDS Pipe

\* The sets that Holders counts.
FdHolders(e) == {x \in Procs \X Fds : fds[x[1]][x[2]] = e}
HandleHolders(e) == {q \in Procs : e \in handles[q]}

\* A pipe_create or sys_pipe_fds call, from the slot to its last handle.
BeforeHandle == {"makeR", "makeW", "makeFail"}
BothHandles == {"fdR", "fdW", "dropR", "undo"}
WithHandle == {"makeW"} \cup BothHandles \cup {"dropW", "undoW"}
Making == BeforeHandle \cup WithHandle
Loans == {"read", "write", "return", "closing", "undoClose"}
MakingOn(t, p) == pc[t] \in WithHandle /\ end[t].pipe = p

\* What a thread's place in a call says of the end it works with.
EndOK(t) ==
  /\ pc[t] \in Making \cup Loans \cup {"install"} => end[t] \in Ends
  /\ pc[t] \in {"makeR", "read"} => end[t].side = "r"
  /\ pc[t] \in (Making \ {"makeR"}) \cup {"write"} => end[t].side = "w"

\* Only a live process has threads in calls, and only a thread in a spawn has a
\* process under construction.
ProcOK(t) ==
  /\ pc[t] # "user" => life[ProcOf[t]] = "alive"
  /\ child[t] # None =>
       pc[t] \in {"spawn", "install", "discard"} /\ life[child[t]] = "spawning"
  /\ pc[t] \in {"spawn", "discard"} => child[t] # None

\* The handles a call is going to use or to give back are there.
HandlesOK(t) ==
  /\ pc[t] \in {"makeW"} \cup BothHandles =>
       EndOf(end[t].pipe, "r") \in handles[ProcOf[t]]
  /\ pc[t] \in BothHandles \cup {"dropW", "undoW"} =>
       EndOf(end[t].pipe, "w") \in handles[ProcOf[t]]
  /\ pc[t] = "install" => end[t] \in handles[ProcOf[t]]

\* Until its handle is there, a new pipe's end is known to its maker alone.
FreshOK(t) ==
  /\ pc[t] = "makeR" => \A s \in Sides : refs[end[t].pipe][s] = 1
  /\ pc[t] = "makeW" => refs[end[t].pipe]["w"] = 1

\* No two calls make the same pipe, install a handle one of them is still
\* working with, or build the same process.
Apart(t, u) ==
  /\ pc[t] \in Making /\ pc[u] \in Making => end[t].pipe # end[u].pipe
  /\ pc[t] = "install" /\ ProcOf[t] = ProcOf[u] => ~MakingOn(u, end[t].pipe)
  /\ child[t] # None => child[t] # child[u]

Calling ==
  /\ \A t \in Threads : EndOK(t) /\ ProcOK(t) /\ HandlesOK(t) /\ FreshOK(t)
  /\ \A t, u \in Threads : t # u => Apart(t, u)
  /\ \A t \in asleep : pc[t] \in {"read", "write"}

IInv == TypeOK /\ RefsExact /\ Calling /\ SleepIsJustified

-----------------------------------------------------------------------------
(* What a step does to the counts. *)

Is(a, b) == IF a = b THEN 1 ELSE 0
Among(x, S) == IF x \in S THEN 1 ELSE 0
RefCounts == [Pipes -> [Sides -> Nat]]

\* The holders change as the counts do.
Moves(drop, take) ==
  \A p \in Pipes, s \in Sides :
    Holders(EndOf(p, s))' = Holders(EndOf(p, s)) - drop[p][s] + take[p][s]

\* An end is only copied from a descriptor or a handle that stays.
Backed(drop, take) ==
  \A p \in Pipes, s \in Sides : take[p][s] # 0 =>
    /\ drop[p][s] < refs[p][s]
    /\ FdHolders(EndOf(p, s)) # {} \/ HandleHolders(EndOf(p, s)) # {}

\* A side nobody holds is not held in the next state.
NotRevived ==
  \A p \in Pipes, s \in Sides : refs[p][s] = 0 => refs'[p][s] = 0

\* A hang-up is final as long as the slot lives: what GoneIsGone says of one step.
GoneStep ==
  \A p \in Pipes, s \in Sides : (used[p] /\ refs[p][s] = 0) => refs'[p][s] = 0

\* The threads that are in the middle of nothing when t takes a step.
Still(t) ==
  \A u \in Threads \ {t} :
    pc'[u] = pc[u] /\ end'[u] = end[u] /\ args'[u] = args[u] /\ child'[u] = child[u]

\* The step of a thread that is not asleep, given what it does to the thread itself.
ThreadOK(t) == EndOK(t) /\ ProcOK(t) /\ HandlesOK(t) /\ FreshOK(t)

\* How often thread t is counted as a holder of e.
Hold(t, e) ==
  IF pc[t] \in Loans \cup {"makeW", "makeFail"} THEN Is(end[t], e)
  ELSE IF pc[t] = "makeR" THEN Is(end[t].pipe, e.pipe)
  ELSE 0

-----------------------------------------------------------------------------
(* The parts of TypeOK that settling references does not touch. *)

\* TypeOK but for what settling changes.
RingTyped ==
  /\ buf \in [Pipes -> [Indices -> Threads \cup {None}]]
  /\ head \in [Pipes -> Indices] /\ tail \in [Pipes -> Indices]
  /\ count \in [Pipes -> 0..Size]
  /\ made \in 0..MaxPipes

TablesTyped ==
  /\ fds \in [Procs -> [Fds -> Ends \cup {None}]]
  /\ handles \in [Procs -> SUBSET Ends]

ProcsTyped ==
  /\ life \in [Procs -> {"unborn", "spawning", "alive", "zombie", "reaped"}]
  /\ cancelled \in [Procs -> BOOLEAN]
  /\ calls \in [Procs -> Nat]

Labels == {"user", "makeR", "makeW", "makeFail", "fdR", "fdW",
           "dropR", "dropW", "undo", "undoW",
           "undoFds", "undoClose", "read", "write", "return",
           "closing", "install", "spawn", "discard"}

Answers == {"none", "done", "eof", "epipe", "ebadf", "ecanceled", "eagain"}
ThreadsTyped ==
  /\ pc \in [Threads -> Labels]
  /\ end \in [Threads -> Ends \cup {None}]
  /\ args \in [Threads -> [len : Lengths \cup {0}, nonblock : BOOLEAN]]
  /\ child \in [Threads -> Procs \cup {None}]
  /\ newfds \in [Threads -> SUBSET Fds]
  /\ answer \in [Threads -> Answers]

RestTyped == RingTyped /\ TablesTyped /\ ProcsTyped /\ ThreadsTyped

\* Why one sleeper sleeps.
Justified(t) ==
  LET p == end[t].pipe IN
  /\ used[p]
  /\ ~cancelled[ProcOf[t]]
  /\ pc[t] = "read" => count[p] = 0 /\ refs[p].w # 0
  /\ pc[t] = "write" => MustWait(p, args[t].len) /\ refs[p].r # 0
=============================================================================
