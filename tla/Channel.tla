------------------------------ MODULE Channel ------------------------------
(***************************************************************************)
(* Message channels (kernel/ipc/channel.c), the listening endpoints that   *)
(* hand them out (kernel/ipc/endpoint.c, kernel/fs/epfs.c), the handle     *)
(* tables that hold them (kernel/ipc/handle.c) and the surfaces messages   *)
(* carry (kernel/gfx/surface.c).                                           *)
(*                                                                         *)
(* A channel end is held by a handle, by the accept queue of an endpoint   *)
(* or by a call that is moving it from one to the other; a surface by a    *)
(* handle or by a message.  Queues, sleeping and waking are under          *)
(* g_sched_lock: one hold of it is one action.  Processes have one thread  *)
(* (the handle table has no lock), so at most one process sleeps on a      *)
(* wait queue.  What a message says is left out; what it carries is not.   *)
(***************************************************************************)
EXTENDS Integers, Sequences, FiniteSets, FiniteSetsExt, SequencesExt

CONSTANTS
  Procs,
  Born,        \* the processes that run from the start
  Calls,       \* Calls[p]: what the program of p does and has done to it
  Chans, Surfs, Eps,   \* room for that many objects at a time
  HandleMax,   \* OBJ_HANDLE_MAX
  QueueMax,    \* CHAN_QUEUE_MAX
  AcceptMax,   \* ENDPOINT_ACCEPT_MAX
  AncMax,      \* CHAN_MSG_MAX_HANDLES
  MovesTwice,  \* whether a program may move one handle twice in a message
  MaxCalls,    \* MaxCalls[p], bound: calls of p but for closes and exit
  None

ASSUME ChannelAssumption ==
  /\ Born \subseteq Procs
  /\ Calls \in [Procs -> SUBSET {"pair", "surface", "send", "recv", "listen", "connect",
                                 "spawn", "exit", "cancelled"}]
  /\ HandleMax \in Nat \ {0} /\ QueueMax \in Nat \ {0} /\ AcceptMax \in Nat \ {0}
  /\ AncMax \in Nat /\ MovesTwice \in BOOLEAN /\ MaxCalls \in [Procs -> Nat]
  /\ None \notin Procs \cup Chans \cup Surfs \cup Eps

Slots == 1..HandleMax
Ends == Chans \X {0, 1}
Peer(e) == <<e[1], 1 - e[2]>>
Objects == ({"chan"} \X Ends) \cup ({"surf"} \X Surfs) \cup ({"ep"} \X Eps)
Queues == ({"recv", "send"} \X Ends) \cup ({"accept"} \X Eps)

VARIABLES
  handles,    \* handles[p][i]: the object of slot i of proc->obj_handles, or None
  life,       \* of a process: unborn, alive, zombie, reaped
  cancelled,  \* proc->cancelled, sticky
  pc,         \* where in a call p is, "user" outside
  arg,        \* the end or endpoint the call works on, or None
  carry,      \* what the call itself holds: slots to pass, surfaces or ends
  k,          \* the kernel's objects and wait queues, see Kernel below
  lost,       \* history: the references a failed spawn or listen threw away
  calls       \* calls left to p (bound)

callVars == <<pc, arg, carry>>
vars == <<handles, life, cancelled, callVars, k, lost, calls>>

Ancillary == [slot : Slots, move : BOOLEAN]   \* a handle passed with a message

Kernel ==
  [asleep   : [Procs -> Queues \cup {None}],   \* the wait queue p is blocked on
   chans    : SUBSET Chans,                    \* the channels that are allocated
   inbox    : [Ends -> Seq(Seq(Surfs))],       \* messages for that end
   hungup   : [Ends -> BOOLEAN],               \* chan->peer_closed of that side
   refs     : [Chans -> 0..2],                 \* chan->refcount
   srefs    : [Surfs -> Nat],                  \* surf->refcount, 0 when free
   eps      : SUBSET Eps,                      \* the endpoints that are allocated
   node     : Eps \cup {None},                 \* the one published in epfs
   unlinked : [Eps -> BOOLEAN],                \* ep->unlinked
   acceptq  : [Eps -> Seq(Ends)]]              \* ep->accept_q

TypeOK ==
  /\ handles \in [Procs -> [Slots -> Objects \cup {None}]]
  /\ life \in [Procs -> {"unborn", "alive", "zombie", "reaped"}]
  /\ cancelled \in [Procs -> BOOLEAN]
  /\ pc \in [Procs -> {"user", "send", "recv", "deliver", "listen", "accept", "adopt",
                       "found", "checked", "queue", "drain", "drop"}]
  /\ arg \in [Procs -> Ends \cup Eps \cup {None}]
  /\ \A p \in Procs : carry[p] \in Seq(CASE pc[p] = "send"    -> Ancillary
                                         [] pc[p] = "deliver" -> Surfs
                                         [] OTHER             -> Ends)
  /\ k \in Kernel
  /\ \A e \in Ends : Len(k.inbox[e]) <= QueueMax
  /\ \A n \in Eps : Len(k.acceptq[n]) <= AcceptMax
  /\ lost \in [ends : SUBSET Ends, surfs : [Surfs -> Nat]]
  /\ calls \in [Procs -> Nat]

Init ==
  /\ handles = [p \in Procs |-> [i \in Slots |-> None]]
  /\ life = [p \in Procs |-> IF p \in Born THEN "alive" ELSE "unborn"]
  /\ cancelled = [p \in Procs |-> FALSE]
  /\ pc = [p \in Procs |-> "user"]
  /\ arg = [p \in Procs |-> None]
  /\ carry = [p \in Procs |-> <<>>]
  /\ k = [asleep |-> [p \in Procs |-> None], chans |-> {},
          inbox |-> [e \in Ends |-> <<>>], hungup |-> [e \in Ends |-> FALSE],
          refs |-> [c \in Chans |-> 0], srefs |-> [s \in Surfs |-> 0],
          eps |-> {}, node |-> None, unlinked |-> [n \in Eps |-> FALSE],
          acceptq |-> [n \in Eps |-> <<>>]]
  /\ lost = [ends |-> {}, surfs |-> [s \in Surfs |-> 0]]
  /\ calls = MaxCalls
-----------------------------------------------------------------------------
(* Handle tables, wait queues and the release of objects.  The operators   *)
(* take the kernel's state w and return the next one.                      *)

FreeSlots(p) == {i \in Slots : handles[p][i] = None}

\* obj_handle_alloc: the lowest free slot; only where there is one.
Install(table, obj) == [table EXCEPT ![Min({i \in Slots : table[i] = None})] = obj]
HasRoom(table) == \E i \in Slots : table[i] = None
Clear(p, obj) == [handles EXCEPT ![p] = [i \in Slots |-> IF @[i] = obj THEN None ELSE @[i]]]

Wake(w, queues) ==
  [w EXCEPT !.asleep = [p \in Procs |-> IF @[p] \in queues THEN None ELSE @[p]]]

Occurs(seq, s) == Cardinality({i \in DOMAIN seq : seq[i] = s})

\* surface_unref for each member of the sequence; free at 0.
DropSurfs(w, seq) == [w EXCEPT !.srefs = [s \in Surfs |-> @[s] - Occurs(seq, s)]]

\* channel_create_raw: all zero.
NewChannel(w, c, n) ==
  [w EXCEPT !.chans = @ \cup {c}, !.refs[c] = n,
            !.inbox[<<c, 0>>] = <<>>, !.inbox[<<c, 1>>] = <<>>,
            !.hungup[<<c, 0>>] = FALSE, !.hungup[<<c, 1>>] = FALSE]

\* Mutant: what the dropped messages carried is forgotten.
ReleaseEnd_KeepRefs(w, e) ==
  LET left == w.refs[e[1]] - 1
  IN  Wake([w EXCEPT !.hungup[Peer(e)] = TRUE, !.inbox[e] = <<>>, !.refs[e[1]] = left,
                     !.chans = IF left = 0 THEN @ \ {e[1]} ELSE @],
           {<<"recv", Peer(e)>>, <<"send", Peer(e)>>})

\* Mutant: the peer is told but not woken.
ReleaseEnd_NoWake(w, e) ==
  LET left == w.refs[e[1]] - 1
  IN  [DropSurfs(w, FlattenSeq(w.inbox[e]))
         EXCEPT !.hungup[Peer(e)] = TRUE, !.inbox[e] = <<>>, !.refs[e[1]] = left,
                !.chans = IF left = 0 THEN @ \ {e[1]} ELSE @]

\* channel_release_raw_end_locked: the peer is told and woken, the messages for
\* this end are dropped with what they carry, the last end frees the channel.
\* The queue woken last is that of senders to the peer; a sender to this end
\* sleeps on this end's own send_wait and is not woken.
ReleaseEnd(w, e) ==
  LET left == w.refs[e[1]] - 1
  IN  Wake([DropSurfs(w, FlattenSeq(w.inbox[e]))
              EXCEPT !.hungup[Peer(e)] = TRUE, !.inbox[e] = <<>>, !.refs[e[1]] = left,
                     !.chans = IF left = 0 THEN @ \ {e[1]} ELSE @],
           {<<"recv", Peer(e)>>, <<"send", Peer(e)>>})

\* endpoint_release_for_handle_impl, first half: no new connection gets in.
UnlinkEp(w, n) == [w EXCEPT !.unlinked[n] = TRUE, !.node = IF @ = n THEN None ELSE @]

\* The second half: the queue is emptied, acceptors are woken.  The caller
\* releases the ends that were in it.
DrainEp(w, n) == Wake([w EXCEPT !.acceptq[n] = <<>>], {<<"accept", n>>})
FreeEp(w, n) == [w EXCEPT !.eps = @ \ {n}]

\* obj_handle_free_locked, as a reap runs it.
ReleaseObj(w, obj) ==
  IF obj = None THEN w
  ELSE CASE obj[1] = "surf" -> DropSurfs(w, <<obj[2]>>)
         [] obj[1] = "chan" -> ReleaseEnd(w, obj[2])
         [] obj[1] = "ep" ->
              FreeEp(FoldLeft(ReleaseEnd, DrainEp(UnlinkEp(w, obj[2]), obj[2]),
                              w.acceptq[obj[2]]), obj[2])
-----------------------------------------------------------------------------
(* Calls.  A call that returns an error before it has changed anything is   *)
(* no step.                                                                 *)

InUser(p) == life[p] = "alive" /\ pc[p] = "user"

Enters(p, call) ==
  /\ InUser(p)
  /\ call \in Calls[p] /\ calls[p] > 0
  /\ calls' = [calls EXCEPT ![p] = @ - 1]

At(p, place, object, held) ==
  /\ pc' = [pc EXCEPT ![p] = place]
  /\ arg' = [arg EXCEPT ![p] = object]
  /\ carry' = [carry EXCEPT ![p] = held]
Returns(p) == At(p, "user", None, <<>>)

\* sched_block_current_locked
Blocks(p, place, object, held, queue) ==
  /\ k' = [k EXCEPT !.asleep[p] = queue]
  /\ At(p, place, object, held)

Resumed(p, place) == pc[p] = place /\ k.asleep[p] = None

Unused(objects, inuse) == CHOOSE o \in objects : o \notin inuse

\* channel_create_pair
ChanPair(p) ==
  /\ Enters(p, "pair")
  /\ k.chans # Chans /\ Cardinality(FreeSlots(p)) >= 2
  /\ LET c == Unused(Chans, k.chans)
     IN  /\ k' = NewChannel(k, c, 2)
         /\ handles' = [handles EXCEPT ![p] =
                          Install(Install(@, <<"chan", <<c, 0>>>>), <<"chan", <<c, 1>>>>)]
  /\ UNCHANGED <<life, cancelled, callVars, lost>>

\* surface_create
SurfaceCreate(p) ==
  /\ Enters(p, "surface")
  /\ HasRoom(handles[p])
  /\ \E s \in Surfs :
       /\ k.srefs[s] = 0
       /\ k' = [k EXCEPT !.srefs[s] = 1]
       /\ handles' = [handles EXCEPT ![p] = Install(@, <<"surf", s>>)]
  /\ UNCHANGED <<life, cancelled, callVars, lost>>

Holds(p, i, kind) == handles[p][i] # None /\ handles[p][i][1] = kind

\* The ancillary handles a program may pass: surfaces of its own, the same one
\* twice as well.  channel_send does not refuse a handle that is moved twice;
\* what becomes of its counts is outside RefsExact, see there.
Passable(p) ==
  {a \in UNION {[1..n -> Ancillary] : n \in 0..AncMax} :
     /\ \A j \in DOMAIN a : Holds(p, a[j].slot, "surf")
     /\ MovesTwice \/ \A j, l \in DOMAIN a :
                        a[j].move /\ a[l].move /\ a[j].slot = a[l].slot => j = l}

SurfOf(p, a) == handles[p][a.slot][2]

\* The surfaces a send takes one more reference to: those it copies.
Copied(p, anc) ==
  LET keeps(a) == ~a.move
      copies == SelectSeq(anc, keeps)
  IN  [j \in DOMAIN copies |-> SurfOf(p, copies[j])]

\* The rest of channel_send, once there is room and the peer is there: a moved
\* handle leaves the sender's table, a copied one takes a reference.
Enqueue(p, e, anc) ==
  LET copied == Copied(p, anc)
      msg == [j \in DOMAIN anc |-> SurfOf(p, anc[j])]
      moved == {anc[j].slot : j \in {j \in DOMAIN anc : anc[j].move}}
  IN  /\ k' = Wake([k EXCEPT !.srefs = [s \in Surfs |-> @[s] + Occurs(copied, s)],
                             !.inbox[Peer(e)] = Append(@, msg)], {<<"recv", Peer(e)>>})
      /\ handles' = [handles EXCEPT ![p] =
                       [i \in Slots |-> IF i \in moved THEN None ELSE @[i]]]
      /\ Returns(p)

Full(e) == Len(k.inbox[e]) >= QueueMax

\* channel_send
Send(p) ==
  /\ Enters(p, "send")
  /\ \E i \in Slots, anc \in Passable(p) :
       /\ Holds(p, i, "chan")
       /\ LET e == handles[p][i][2]
          IN  /\ ~k.hungup[e]
              /\ \/ ~Full(Peer(e)) /\ Enqueue(p, e, anc)
                 \/ /\ Full(Peer(e)) /\ ~cancelled[p]
                    /\ Blocks(p, "send", e, anc, <<"send", Peer(e)>>)
                    /\ UNCHANGED handles
  /\ UNCHANGED <<life, cancelled, lost>>

\* The turn of channel_send's loop after a wake-up.  The place a receive made is
\* still there, because p alone sends to this inbox: it never blocks again.
SendResumes(p) ==
  /\ Resumed(p, "send")
  /\ LET e == arg[p]
     IN  \/ ~k.hungup[e] /\ ~Full(Peer(e)) /\ Enqueue(p, e, carry[p])
         \/ /\ k.hungup[e] \/ (Full(Peer(e)) /\ cancelled[p])
            /\ Returns(p)
            /\ UNCHANGED <<k, handles>>
  /\ UNCHANGED <<life, cancelled, lost, calls>>

\* The first message leaves the queue; its references are the call's own until
\* Deliver.
Dequeue(p, e) ==
  /\ k.inbox[e] # <<>>
  /\ k' = Wake([k EXCEPT !.inbox[e] = Tail(@)], {<<"send", e>>})
  /\ At(p, "deliver", e, Head(k.inbox[e]))

\* channel_recv
Recv(p) ==
  /\ Enters(p, "recv")
  /\ \E i \in Slots :
       /\ Holds(p, i, "chan")
       /\ LET e == handles[p][i][2]
          IN  \/ Dequeue(p, e)
              \/ /\ k.inbox[e] = <<>> /\ ~k.hungup[e] /\ ~cancelled[p]
                 /\ Blocks(p, "recv", e, <<>>, <<"recv", e>>)
  /\ UNCHANGED <<handles, life, cancelled, lost>>

\* After a wake-up; nobody else receives here, so what woke p is still there.
RecvResumes(p) ==
  /\ Resumed(p, "recv")
  /\ LET e == arg[p]
     IN  \/ Dequeue(p, e)
         \/ /\ k.inbox[e] = <<>> /\ (k.hungup[e] \/ cancelled[p])
            /\ Returns(p) /\ UNCHANGED k
  /\ UNCHANGED <<handles, life, cancelled, lost, calls>>

\* The carried surfaces that find the table full.
Undelivered(p) == SubSeq(carry[p], Cardinality(FreeSlots(p)) + 1, Len(carry[p]))

\* The rest of channel_recv, without the lock: the handles are installed, each
\* with the reference that travelled; one that does not fit is dropped.
Deliver(p) ==
  /\ pc[p] = "deliver"
  /\ LET fits == SubSeq(carry[p], 1, Min({Len(carry[p]), Cardinality(FreeSlots(p))}))
         put(table, s) == Install(table, <<"surf", s>>)
     IN  handles' = [handles EXCEPT ![p] = FoldLeft(put, @, fits)]
  /\ k' = DropSurfs(k, Undelivered(p))
  /\ Returns(p)
  /\ UNCHANGED <<life, cancelled, lost, calls>>
-----------------------------------------------------------------------------
(* Rendezvous. *)

\* endpoint_listen up to create_endpoint: the node is there for anyone to find.
Listen(p) ==
  /\ Enters(p, "listen")
  /\ k.node = None /\ k.eps # Eps
  /\ LET n == Unused(Eps, k.eps)
     IN  /\ k' = [k EXCEPT !.eps = @ \cup {n}, !.node = n, !.unlinked[n] = FALSE,
                           !.acceptq[n] = <<>>]
         /\ At(p, "listen", n, <<>>)
  /\ UNCHANGED <<handles, life, cancelled, lost>>

\* The rest: a handle, or, in a full table, the endpoint is freed again.  The
\* connections that got in meanwhile are freed with it, released by nobody.
Listening(p) ==
  /\ pc[p] = "listen"
  /\ LET n == arg[p]
     IN  \/ /\ HasRoom(handles[p])
            /\ handles' = [handles EXCEPT ![p] = Install(@, <<"ep", n>>)]
            /\ UNCHANGED <<k, lost>>
         \/ /\ ~HasRoom(handles[p])
            /\ lost' = [lost EXCEPT !.ends = @ \cup ToSet(k.acceptq[n])]
            /\ k' = FreeEp([k EXCEPT !.node = None, !.acceptq[n] = <<>>], n)
            /\ UNCHANGED handles
  /\ Returns(p)
  /\ UNCHANGED <<life, cancelled, calls>>

\* endpoint_accept
AcceptFrom(p, n) ==
  /\ k.acceptq[n] # <<>>
  /\ k' = [k EXCEPT !.acceptq[n] = Tail(@)]
  /\ At(p, "adopt", n, <<Head(k.acceptq[n])>>)

Accept(p) ==
  /\ Enters(p, "listen")
  /\ \E i \in Slots :
       /\ Holds(p, i, "ep")
       /\ LET n == handles[p][i][2]
          IN  \/ AcceptFrom(p, n)
              \/ /\ k.acceptq[n] = <<>> /\ ~cancelled[p]
                 /\ Blocks(p, "accept", n, <<>>, <<"accept", n>>)
  /\ UNCHANGED <<handles, life, cancelled, lost>>

AcceptResumes(p) ==
  /\ Resumed(p, "accept")
  /\ LET n == arg[p]
     IN  \/ AcceptFrom(p, n)
         \/ /\ k.acceptq[n] = <<>> /\ cancelled[p]
            /\ Returns(p) /\ UNCHANGED k
  /\ UNCHANGED <<handles, life, cancelled, lost, calls>>

\* The rest of endpoint_accept: the end gets a handle or is released.
Adopt(p) ==
  /\ pc[p] = "adopt"
  /\ LET e == carry[p][1]
     IN  \/ /\ HasRoom(handles[p])
            /\ handles' = [handles EXCEPT ![p] = Install(@, <<"chan", e>>)]
            /\ UNCHANGED k
         \/ ~HasRoom(handles[p]) /\ k' = ReleaseEnd(k, e) /\ UNCHANGED handles
  /\ Returns(p)
  /\ UNCHANGED <<life, cancelled, lost, calls>>

\* endpoint_connect: the endpoint found under the path.
ConnectFind(p) ==
  /\ Enters(p, "connect")
  /\ k.node # None
  /\ At(p, "found", k.node, <<>>)
  /\ UNCHANGED <<handles, life, cancelled, k, lost>>

\* The liveness check and, if it passes, a channel whose end 0 gets a handle.
\* The memory of an endpoint freed meanwhile reads as it was left, or as the
\* endpoint that was allocated there since.
ConnectMake(p) ==
  /\ pc[p] = "found"
  /\ \/ /\ ~k.unlinked[arg[p]] /\ HasRoom(handles[p]) /\ k.chans # Chans
        /\ LET c == Unused(Chans, k.chans)
           IN  /\ k' = NewChannel(k, c, 1)
               /\ handles' = [handles EXCEPT ![p] = Install(@, <<"chan", <<c, 0>>>>)]
               /\ At(p, "queue", arg[p], <<<<c, 1>>>>)
     \/ /\ k.unlinked[arg[p]] \/ ~HasRoom(handles[p]) \/ k.chans = Chans
        /\ Returns(p)
        /\ UNCHANGED <<k, handles>>
  /\ UNCHANGED <<life, cancelled, lost, calls>>

\* Mutant: the second check for an unlinked endpoint is missing.
Refused_Unchecked(n) == Len(k.acceptq[n]) >= AcceptMax

Refused(n) == k.unlinked[n] \/ Len(k.acceptq[n]) >= AcceptMax

\* End 1 goes to the accept queue, or the client's end is released again.
ConnectQueue(p) ==
  /\ pc[p] = "queue"
  /\ LET n == arg[p]
         e == carry[p][1]
     IN  \/ /\ Refused(n)
            /\ k' = ReleaseEnd(k, Peer(e))
            /\ handles' = Clear(p, <<"chan", Peer(e)>>)
            /\ UNCHANGED lost
         \/ /\ ~Refused(n) /\ n \in k.eps
            /\ k' = Wake([k EXCEPT !.refs[e[1]] = @ + 1, !.acceptq[n] = Append(@, e)],
                         {<<"accept", n>>})
            /\ UNCHANGED <<handles, lost>>
         \/ /\ ~Refused(n) /\ n \notin k.eps
            /\ k' = [k EXCEPT !.refs[e[1]] = @ + 1]
            /\ lost' = [lost EXCEPT !.ends = @ \cup {e}]
            /\ UNCHANGED handles
  /\ Returns(p)
  /\ UNCHANGED <<life, cancelled, calls>>
-----------------------------------------------------------------------------
(* Closing, spawning, dying. *)

\* channel_close, surface_destroy, sys_handle_close of a channel or a surface
Close(p) ==
  /\ InUser(p)
  /\ \E i \in Slots :
       /\ Holds(p, i, "chan") \/ Holds(p, i, "surf")
       /\ k' = ReleaseObj(k, handles[p][i])
       /\ handles' = [handles EXCEPT ![p][i] = None]
  /\ UNCHANGED <<life, cancelled, callVars, lost, calls>>

\* sys_handle_close of an endpoint takes the lock once to empty the queue and
\* once for every end that was in it.
CloseEp(p) ==
  /\ InUser(p)
  /\ \E i \in Slots :
       /\ Holds(p, i, "ep")
       /\ k' = UnlinkEp(k, handles[p][i][2])
       /\ At(p, "drain", handles[p][i][2], <<>>)
  /\ UNCHANGED <<handles, life, cancelled, lost, calls>>

CloseDrains(p) ==
  /\ pc[p] = "drain"
  /\ k' = DrainEp(k, arg[p])
  /\ At(p, "drop", arg[p], k.acceptq[arg[p]])
  /\ UNCHANGED <<handles, life, cancelled, lost, calls>>

CloseDrops(p) ==
  /\ pc[p] = "drop"
  /\ \/ /\ carry[p] # <<>>
        /\ k' = ReleaseEnd(k, Head(carry[p]))
        /\ At(p, "drop", arg[p], Tail(carry[p]))
        /\ UNCHANGED handles
     \/ /\ carry[p] = <<>>
        /\ k' = FreeEp(k, arg[p])
        /\ handles' = Clear(p, <<"ep", arg[p]>>)
        /\ Returns(p)
  /\ UNCHANGED <<life, cancelled, lost, calls>>

\* channel_transfer_end_to moves an end, surface_transfer_to copies a surface.
Passed(p, i, obj) ==
  IF obj[1] = "chan" THEN [handles EXCEPT ![p][i] = None] ELSE handles

\* A spawn with one inherited handle.  When a later step of it fails, the child's
\* table is thrown away as it is.
Spawn(p) ==
  /\ Enters(p, "spawn")
  /\ \E q \in Procs, i \in Slots :
       /\ life[q] = "unborn"
       /\ Holds(p, i, "chan") \/ Holds(p, i, "surf")
       /\ LET obj == handles[p][i]
              kept == Passed(p, i, obj)
          IN  /\ k' = IF obj[1] = "surf" THEN [k EXCEPT !.srefs[obj[2]] = @ + 1] ELSE k
              /\ \/ /\ life' = [life EXCEPT ![q] = "alive"]
                    /\ handles' = [kept EXCEPT ![q] = Install(@, obj)]
                    /\ UNCHANGED lost
                 \/ /\ lost' = IF obj[1] = "surf"
                               THEN [lost EXCEPT !.surfs[obj[2]] = @ + 1]
                               ELSE [lost EXCEPT !.ends = @ \cup {obj[2]}]
                    /\ handles' = kept
                    /\ UNCHANGED life
  /\ UNCHANGED <<cancelled, callVars>>

\* A program that inherits nothing.
SpawnBare(p) ==
  /\ Enters(p, "spawn")
  /\ \E q \in Procs : life[q] = "unborn" /\ life' = [life EXCEPT ![q] = "alive"]
  /\ UNCHANGED <<handles, cancelled, callVars, k, lost>>

\* process_cancel or a kill: sticky, and the process is woken.
Cancel(p) ==
  /\ "cancelled" \in Calls[p] /\ life[p] = "alive" /\ ~cancelled[p]
  /\ cancelled' = [cancelled EXCEPT ![p] = TRUE]
  /\ k' = [k EXCEPT !.asleep[p] = None]
  /\ UNCHANGED <<handles, life, callVars, lost, calls>>

\* An exit leaves the handles to the reap.
Exit(p) ==
  /\ InUser(p) /\ "exit" \in Calls[p]
  /\ life' = [life EXCEPT ![p] = "zombie"]
  /\ UNCHANGED <<handles, cancelled, callVars, k, lost, calls>>

\* obj_handles_release_all in process_reap_slot, under one hold of the lock.
Reap(p) ==
  /\ life[p] = "zombie"
  /\ life' = [life EXCEPT ![p] = "reaped"]
  /\ k' = FoldLeft(ReleaseObj, k, handles[p])
  /\ handles' = [handles EXCEPT ![p] = [i \in Slots |-> None]]
  /\ UNCHANGED <<cancelled, callVars, lost, calls>>

Next ==
  \E p \in Procs :
    \/ ChanPair(p) \/ SurfaceCreate(p) \/ Send(p) \/ SendResumes(p)
    \/ Recv(p) \/ RecvResumes(p) \/ Deliver(p)
    \/ Listen(p) \/ Listening(p) \/ Accept(p) \/ AcceptResumes(p) \/ Adopt(p)
    \/ ConnectFind(p) \/ ConnectMake(p) \/ ConnectQueue(p)
    \/ Close(p) \/ CloseEp(p) \/ CloseDrains(p) \/ CloseDrops(p)
    \/ Spawn(p) \/ SpawnBare(p) \/ Cancel(p) \/ Exit(p) \/ Reap(p)

Spec == Init /\ [][Next]_vars
-----------------------------------------------------------------------------
(* Properties. *)

\* How often end e is referred to: by a handle, an accept queue, a call that
\* passes it on, or by what a failed call left behind.
Holders(e) ==
  Cardinality({h \in Procs \X Slots : handles[h[1]][h[2]] = <<"chan", e>>})
  + MapThenSumSet(LAMBDA n : Occurs(k.acceptq[n], e), k.eps)
  + MapThenSumSet(LAMBDA p : Occurs(carry[p], e), {p \in Procs : pc[p] \in {"adopt", "drop"}})
  + (IF e \in lost.ends THEN 1 ELSE 0)

\* How often surface s is referred to: by handles, messages and deliveries.
SurfHolders(s) ==
  Cardinality({h \in Procs \X Slots : handles[h[1]][h[2]] = <<"surf", s>>})
  + MapThenSumSet(LAMBDA e : Occurs(FlattenSeq(k.inbox[e]), s), Ends)
  + MapThenSumSet(LAMBDA p : Occurs(carry[p], s), {p \in Procs : pc[p] = "deliver"})
  + lost.surfs[s]

\* Whatever is copied, moved, refused, drained or reaped, and whoever dies while
\* it is under way: an end has at most one holder, a channel is allocated as
\* long as one of its ends is held and counts the held ones, and a surface
\* counts its handles and the messages that carry it (channel.c:11, invariant
\* A6: "handles + in-transit message refs").  A spawn or a listen that fails
\* half-way leaves references behind (lost).  And it holds of programs that do
\* not move one handle twice in a message: channel_send looks at a handle only
\* before it clears any (channel.c:143-153), so both places of the message then
\* travel on the one reference, and with MovesTwice this property fails.
RefsExact ==
  /\ \A c \in Chans :
       /\ k.refs[c] = Holders(<<c, 0>>) + Holders(<<c, 1>>)
       /\ c \in k.chans <=> k.refs[c] > 0
  /\ \A e \in Ends : Holders(e) <= 1
  /\ \A s \in Surfs : k.srefs[s] = SurfHolders(s)

\* Nobody talks to nobody: the other end of an end that is held is held as well,
\* is about to be queued, or its loss has been announced (peer_closed), so that
\* no receive waits for a peer that cannot exist (endpoint.c:174-176, 213-256).
PeerKnown ==
  \A e \in Ends :
    Holders(e) > 0 =>
      \/ Holders(Peer(e)) > 0
      \/ k.hungup[e]
      \/ \E p \in Procs : pc[p] = "queue" /\ carry[p] = <<Peer(e)>>

\* No lost wake-up: who sleeps has a reason to.  A receiver has nothing to read
\* and a peer; an acceptor an empty queue and a published endpoint; a sender a
\* full inbox -- or a receiver that closed, whose close does not wake it
\* (channel.c:296 wakes the other end's queue); nobody who sleeps is cancelled.
SleepIsJustified ==
  \A p \in Procs :
    k.asleep[p] # None =>
      /\ ~cancelled[p]
      /\ CASE pc[p] = "recv"   -> k.inbox[arg[p]] = <<>> /\ ~k.hungup[arg[p]]
           [] pc[p] = "send"   -> Full(Peer(arg[p])) \/ k.hungup[arg[p]]
           [] pc[p] = "accept" -> k.acceptq[arg[p]] = <<>> /\ k.node = arg[p]
=============================================================================
