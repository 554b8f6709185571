----------------------------- MODULE ByteStream -----------------------------
(***************************************************************************)
(* What a pipe promises to the threads that read and write it: a bounded   *)
(* first-in first-out stream of bytes with two ends.  A write of no more   *)
(* than Capacity bytes enters whole; a reader is told "eof" only when the  *)
(* stream is empty and nobody can ever write again; a writer is told       *)
(* "epipe" only when nobody can ever read again; an end that is gone never *)
(* comes back while the stream lives.  Nothing is said of reference        *)
(* counts, wait queues, locks or the ring the bytes are kept in.           *)
(***************************************************************************)
EXTENDS Integers, Sequences

CONSTANTS
  Threads,    \* the callers; a byte is the thread that wrote it
  Capacity,   \* bytes the stream holds at most
  Lengths     \* the lengths a caller may ask for

VARIABLES
  live,       \* the stream exists
  queue,      \* the bytes written and not yet read
  readable,   \* somebody holds the read end
  writable,   \* somebody holds the write end
  call        \* call[t]: t's call on this stream and the answer it was given

vars == <<live, queue, readable, writable, call>>

NoCall == [op |-> "none", len |-> 0, answer |-> "none"]
Answer(t, a) == call' = [call EXCEPT ![t].answer = a]
Asking(t, op) == call[t].op = op /\ call[t].answer = "none"

Init ==
  /\ ~live
  /\ queue = <<>>
  /\ ~readable
  /\ ~writable
  /\ call = [t \in Threads |-> NoCall]

Create ==
  /\ ~live
  /\ live' = TRUE
  /\ queue' = <<>>
  /\ readable' = TRUE
  /\ writable' = TRUE
  /\ UNCHANGED call

\* The wrong direction, or a mere probe, is answered at once.
Begin(t) ==
  /\ live
  /\ call[t] = NoCall
  /\ \E op \in {"read", "write"} :
       \/ \E len \in Lengths :
            call' = [call EXCEPT ![t] = [op |-> op, len |-> len, answer |-> "none"]]
       \/ call' = [call EXCEPT ![t] = [op |-> op, len |-> 0, answer |-> "ebadf"]]
  /\ UNCHANGED <<live, queue, readable, writable>>

Put(t) ==
  /\ Asking(t, "write")
  /\ readable
  /\ writable
  /\ \E n \in 1..(Capacity - Len(queue)) :
       /\ call[t].len <= Capacity => n = call[t].len
       /\ queue' = queue \o [i \in 1..n |-> t]
  /\ Answer(t, "done")
  /\ UNCHANGED <<live, readable, writable>>

Get(t) ==
  /\ Asking(t, "read")
  /\ queue # <<>>
  /\ LET n == IF call[t].len < Len(queue) THEN call[t].len ELSE Len(queue)
     IN  queue' = SubSeq(queue, n + 1, Len(queue))
  /\ Answer(t, "done")
  /\ UNCHANGED <<live, readable, writable>>

\* The answers that move no byte.
Refuse(t) ==
  /\ \/ Asking(t, "read") /\ queue = <<>> /\ ~writable /\ Answer(t, "eof")
     \/ Asking(t, "write") /\ ~readable /\ Answer(t, "epipe")
     \/ /\ \/ Asking(t, "read") /\ queue = <<>> /\ writable
           \/ /\ Asking(t, "write") /\ readable
              /\ \/ Len(queue) = Capacity
                 \/ call[t].len <= Capacity /\ Len(queue) + call[t].len > Capacity
        /\ \E a \in {"ecanceled", "eagain"} : Answer(t, a)
  /\ UNCHANGED <<live, queue, readable, writable>>

\* The caller leaves, and with its loan an end may go.
Lose(r, w) ==
  /\ live
  /\ readable' = (readable /\ r)
  /\ writable' = (writable /\ w)
  /\ live' = (readable' \/ writable')

End(t) ==
  /\ call[t] # NoCall
  /\ call' = [call EXCEPT ![t] = NoCall]
  /\ \E r, w \in BOOLEAN : Lose(r, w)
  /\ UNCHANGED queue

Close ==
  /\ \E r, w \in BOOLEAN : Lose(r, w)
  /\ UNCHANGED <<queue, call>>

Next ==
  \/ Create
  \/ Close
  \/ \E t \in Threads : Begin(t) \/ Put(t) \/ Get(t) \/ Refuse(t) \/ End(t)

Spec == Init /\ [][Next]_vars
=============================================================================
