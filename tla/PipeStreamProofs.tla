-------------------------- MODULE PipeStreamProofs --------------------------
(***************************************************************************)
(* Pipe implements ByteStream, for any number of threads, processes, pipes *)
(* and descriptors, any buffer size and any lengths, as long as no thread  *)
(* uses or closes a handle that a sibling's call is still working with.    *)
(* Beside IInv, the invariant of the counts, it takes that the ring's head *)
(* is where its tail and its count say, and what the arguments and the     *)
(* answer of a call are at each of its places.                             *)
(***************************************************************************)
EXTENDS PipeProofs, PipeStream

(* The byte stream. *)

InOp == {"read", "write", "return"}
CallOK(t) ==
  /\ pc[t] \notin InOp => args[t] = NoArgs /\ answer[t] = "none"
  /\ pc[t] \in {"read", "write"} =>
       args[t].len \in Lengths /\ args[t].len # 0 /\ answer[t] = "none"

StreamInv ==
  /\ \A t \in Threads : CallOK(t)
  /\ \A p \in Pipes : head[p] = (tail[p] + count[p]) % Size

\* A step of which the readers and writers in progress see nothing but ends going.
Quiet ==
  /\ \A u \in Threads : \/ pc'[u] = pc[u] /\ end'[u] = end[u]
                        \/ pc[u] \notin InOp /\ pc'[u] \notin InOp
  /\ \A p \in Pipes : used'[p] => used[p]
  /\ UNCHANGED <<buf, head, tail, count, args, answer>>

OnPipe(u, p) == pc[u] \in InOp /\ end[u].pipe = p
View(u) == [op |-> OpOf(end[u]), len |-> args[u].len, answer |-> answer[u]]
NoView == [op |-> "none", len |-> 0, answer |-> "none"]
SameView(u, p) ==
  \/ ~OnPipe(u, p) /\ ~OnPipe(u, p)'
  \/ OnPipe(u, p) /\ OnPipe(u, p)' /\ View(u)' = View(u)

\* No end of the pipe came or went altogether.
SameEnds(p) ==
  /\ used'[p] = used[p]
  /\ \A s \in Sides : refs'[p][s] = 0 <=> refs[p][s] = 0

StreamStep(p) == [Stream(p)!Next]_(Stream(p)!vars)

\* A call that is answered.
Shown(t, p0, a) ==
  /\ \A p \in Pipes : SameEnds(p)
  /\ \A u \in Threads : CallOK(u)'
  /\ \A p \in Pipes, u \in Threads : u # t => SameView(u, p)
  /\ \A p \in Pipes : p # p0 => ~OnPipe(t, p) /\ ~OnPipe(t, p)'
  /\ CallOn(p0)' = [CallOn(p0) EXCEPT ![t].answer = a]
  /\ CallOn(p0)[t].op = pc[t] /\ CallOn(p0)[t].len = args[t].len
  /\ CallOn(p0)[t].answer = "none"

-----------------------------------------------------------------------------
(* The bytes in a ring of N places. *)

Repeat(x, n) == [i \in 1..n |-> x]
FilledWith(w, s, c, n, x) == \A i \in 1..(c + n) : w[i] = IF i <= c THEN s[i] ELSE x
Put(b, h, n, x, N) == [i \in 0..(N - 1) |-> IF (i + N - h) % N < n THEN x ELSE b[i]]
Bytes(b, t, c, N) == [i \in 1..c |-> b[(t + i - 1) % N]]
PutShown(b, t, c, n, x, N) ==
  Bytes(Put(b, (t + c) % N, n, x, N), t, c + n, N) = Bytes(b, t, c, N) \o Repeat(x, n)

PutOn(p, t, n) == Contents(p)' = Contents(p) \o Repeat(t, n)

-----------------------------------------------------------------------------
(* Quiet steps. *)

\* The calls of which no reader and no writer sees anything but ends going.
LEMMA QuietSteps ==
  IInv =>
    /\ \A t \in Threads :
         (\/ HandleForRead(t) \/ HandleForWrite(t) \/ HandleFails(t)
          \/ InstallAny(t) \/ DropHandle(t) \/ UndoFds(t)
          \/ \E d, d2 \in Fds : Dup(t, d, d2)
          \/ \E d \in Fds : Close(t, d)
          \/ PipeFdClose(t) \/ HandleCall(t) \/ SpawnCall(t)) => Quiet
    /\ \A q \in Procs : Cancel(q) \/ Exit(q) \/ Reap(q) => Quiet
<1>SettleUsed.
      ASSUME NEW drop, NEW take, Settle(drop, take)
      PROVE  \A p \in Pipes : used'[p] => used[p]
  BY <1>SettleUsed, ZenonT(60) DEF Settle
\* It is enough to look at the thread that steps.
<1>QuietThread.
      ASSUME NEW t \in Threads, pc \in [Threads -> Labels], end \in [Threads -> Ends \cup {None}],
             pc[t] \notin InOp,
             \/ UNCHANGED pc
             \/ \E l \in Labels \ InOp : pc' = [pc EXCEPT ![t] = l],
             \/ UNCHANGED end
             \/ \E e \in Ends \cup {None} : end' = [end EXCEPT ![t] = e],
             \A p \in Pipes : used'[p] => used[p],
             UNCHANGED <<buf, head, tail, count, args, answer>>
      PROVE  Quiet
  <2> USE <1>QuietThread
  <2>1. \A u \in Threads : u # t => pc'[u] = pc[u] /\ end'[u] = end[u]
    BY Zenon
  <2>2. pc'[t] \notin InOp
    BY Zenon
  <2> QED
    BY <2>1, <2>2, ZenonT(60) DEF Quiet
<1>QuietPipeCall.
      ASSUME IInv, NEW t \in Threads,
             \/ HandleForRead(t) \/ HandleForWrite(t) \/ HandleFails(t)
             \/ InstallAny(t) \/ DropHandle(t) \/ UndoFds(t)
      PROVE  Quiet
  <2> USE <1>QuietPipeCall
  <2> USE DEF InOp, Labels
  <2>1. /\ pc \in [Threads -> Labels] /\ end \in [Threads -> Ends \cup {None}]
        /\ fds \in [Procs -> [Fds -> Ends \cup {None}]]
    BY Typing, Zenon DEF RestTyped, ThreadsTyped, TablesTyped
  <2>2. CASE HandleForRead(t)
    <3>1. EndOf(end[t].pipe, "w") \in Ends
      BY <2>2, Maker, EndFacts, ZenonT(60)
         DEF HandleForRead, At, Making, BeforeHandle, Sides
    <3> QED
      BY <2>1, <2>2, <3>1, <1>QuietThread, ZenonT(60)
         DEF HandleForRead, At, Goto, SetEnd, pipeVars
  <2>3. CASE HandleForWrite(t)
    BY <2>1, <2>3, <1>QuietThread, ZenonT(60)
       DEF HandleForWrite, At, Goto, SetEnd, Finish, pipeVars
  <2>4. CASE HandleFails(t)
    <3>1. \A p \in Pipes : used'[p] => used[p]
      BY <2>4, <1>SettleUsed, ZenonT(60) DEF HandleFails, Drop
    <3> QED
      BY <2>1, <2>4, <3>1, <1>QuietThread, ZenonT(60)
         DEF HandleFails, At, Goto, SetEnd, Finish, Drop, ring
  <2>5. CASE InstallAny(t)
    <3>1. \A p \in Pipes : used'[p] => used[p]
      BY <2>5, <1>SettleUsed, ZenonT(60) DEF InstallAny
    <3>2. /\ pc[t] \in {"fdR", "fdW"} /\ UNCHANGED <<ring, end, args, answer>>
          /\ \E l \in {"fdW", "dropR", "undo"} : pc' = [pc EXCEPT ![t] = l]
      BY <2>5, Zenon DEF InstallAny, Goto
    <3> QED
      BY <2>1, <3>1, <3>2, <1>QuietThread, ZenonT(60) DEF ring
  <2>6. CASE DropHandle(t)
    <3>1. \A p \in Pipes : used'[p] => used[p]
      BY <2>6, <1>SettleUsed, ZenonT(60) DEF DropHandle, Drop
    <3>2. /\ pc[t] \in {"dropR", "dropW", "undo", "undoW"} /\ UNCHANGED <<ring, args, answer>>
          /\ \E l \in {"dropW", "undoW", "user", "undoFds"} : pc' = [pc EXCEPT ![t] = l]
          /\ UNCHANGED end \/ end' = [end EXCEPT ![t] = None]
      BY <2>6, Zenon DEF DropHandle, Goto, SetEnd, Finish, Drop
    <3> QED
      BY <2>1, <3>1, <3>2, <1>QuietThread, ZenonT(60) DEF ring
  <2>7. CASE UndoFds(t)
    <3>1. /\ pc[t] = "undoFds" /\ UNCHANGED <<used, ring, args, answer>>
          /\ \/ UNCHANGED pc
             \/ \E l \in {"user", "undoClose"} : pc' = [pc EXCEPT ![t] = l]
          /\ \/ UNCHANGED end
             \/ \E e \in Ends \cup {None} : end' = [end EXCEPT ![t] = e]
      <4>1. newfds[t] \subseteq Fds /\ ProcOf[t] \in Procs
        BY PipeAssumption, Typing, ZenonT(60) DEF RestTyped, ThreadsTyped
      <4>2. \A d \in newfds[t] : fds[ProcOf[t]][d] \in Ends \cup {None}
        BY <2>1, <4>1, ZenonT(60)
      <4> QED
        BY <2>7, <4>2, ZenonT(60) DEF UndoFds, At, Goto, SetEnd, Finish, pipeVars, ring
    <3> QED
      BY <2>1, <3>1, <1>QuietThread, ZenonT(60) DEF ring
  <2> QED
    BY <2>2, <2>3, <2>4, <2>5, <2>6, <2>7, ZenonT(60)
<1>QuietFdCall.
      ASSUME IInv, NEW t \in Threads,
             \/ \E d, d2 \in Fds : Dup(t, d, d2)
             \/ \E d \in Fds : Close(t, d)
             \/ PipeFdClose(t)
      PROVE  Quiet
  <2> USE <1>QuietFdCall
  <2> USE DEF InOp, Labels
  <2>1. /\ pc \in [Threads -> Labels] /\ end \in [Threads -> Ends \cup {None}]
        /\ \A d \in Fds : fds[ProcOf[t]][d] \in Ends \cup {None}
    BY PipeAssumption, Typing, SMT, SMTT(60) DEF RestTyped, ThreadsTyped, TablesTyped
  <2>2. ASSUME NEW d \in Fds, NEW d2 \in Fds, Dup(t, d, d2) PROVE Quiet
    <3>1. \A p \in Pipes : used'[p] => used[p]
      BY <2>2, <1>SettleUsed, ZenonT(60) DEF Dup
    <3>2. /\ pc[t] = "user" /\ UNCHANGED <<ring, args, answer>>
          /\ UNCHANGED pc \/ pc' = [pc EXCEPT ![t] = "closing"]
          /\ UNCHANGED end \/ end' = [end EXCEPT ![t] = fds[ProcOf[t]][d2]]
      BY <2>2, ZenonT(60) DEF Dup, InUser, At, Goto, SetEnd
    <3> QED
      BY <2>1, <3>1, <3>2, <1>QuietThread, ZenonT(60) DEF ring
  <2>3. ASSUME NEW d \in Fds, Close(t, d) PROVE Quiet
    <3>1. /\ pc[t] = "user" /\ UNCHANGED <<used, ring, args, answer>>
          /\ pc' = [pc EXCEPT ![t] = "closing"]
          /\ end' = [end EXCEPT ![t] = fds[ProcOf[t]][d]]
      BY <2>3, ZenonT(60) DEF Close, InUser, At, Goto, SetEnd, pipeVars, ring
    <3> QED
      BY <2>1, <3>1, <1>QuietThread, ZenonT(60) DEF ring
  <2>4. CASE PipeFdClose(t)
    <3>1. \A p \in Pipes : used'[p] => used[p]
      BY <2>4, <1>SettleUsed, ZenonT(60) DEF PipeFdClose, Drop
    <3>2. /\ pc[t] \in {"closing", "undoClose"} /\ UNCHANGED <<ring, args, answer>>
          /\ \E l \in {"user", "undoFds"} : pc' = [pc EXCEPT ![t] = l]
          /\ end' = [end EXCEPT ![t] = None]
      BY <2>4, ZenonT(60) DEF PipeFdClose, Drop, Finish, Goto, SetEnd
    <3> QED
      BY <2>1, <3>1, <3>2, <1>QuietThread, ZenonT(60) DEF ring
  <2> QED
    BY <2>2, <2>3, <2>4, ZenonT(60)
<1>QuietHandleCall.
      ASSUME IInv, NEW t \in Threads, HandleCall(t) \/ SpawnCall(t)
      PROVE  Quiet
  <2> USE <1>QuietHandleCall
  <2> USE DEF InOp, Labels
  <2>1. /\ pc \in [Threads -> Labels] /\ end \in [Threads -> Ends \cup {None}]
    BY Typing, Zenon DEF RestTyped, ThreadsTyped
  <2>2. ASSUME NEW e \in Ends, HandleClose(t, e) PROVE Quiet
    <3>1. \A p \in Pipes : used'[p] => used[p]
      BY <2>2, <1>SettleUsed, ZenonT(60) DEF HandleClose, Drop
    <3> QED
      BY <2>1, <2>2, <3>1, <1>QuietThread, ZenonT(60)
         DEF HandleClose, InUser, At, Drop, ring, threadVars
  <2>3. ASSUME NEW e \in Ends, ResolveHandle(t, e) PROVE Quiet
    <3>1. /\ pc[t] \in {"user", "spawn"} /\ UNCHANGED <<used, ring, args, answer>>
          /\ pc' = [pc EXCEPT ![t] = "install"] /\ end' = [end EXCEPT ![t] = e]
      BY <2>3, ZenonT(60) DEF ResolveHandle, InUser, At, Goto, SetEnd, pipeVars, ring
    <3> QED
      BY <2>1, <3>1, <1>QuietThread, ZenonT(60) DEF ring
  <2>4. ASSUME NEW d \in Fds, InstallPipe(t, d) PROVE Quiet
    <3>1. \A p \in Pipes : used'[p] => used[p]
      BY <2>4, <1>SettleUsed, ZenonT(60) DEF InstallPipe
    <3>2. /\ pc[t] = "install" /\ UNCHANGED <<ring, args, answer>>
          /\ \E l \in {"user", "spawn", "discard"} : pc' = [pc EXCEPT ![t] = l]
          /\ end' = [end EXCEPT ![t] = None]
      BY <2>4, Zenon DEF InstallPipe, At, Goto, SetEnd, Resume
    <3> QED
      BY <2>1, <3>1, <3>2, <1>QuietThread, ZenonT(60) DEF ring
  <2>5. ASSUME NEW q \in Procs, SpawnBegin(t, q) PROVE Quiet
    BY <2>1, <2>5, <1>QuietThread, ZenonT(60) DEF SpawnBegin, InUser, At, Goto, pipeVars
  <2>6. ASSUME NEW d \in Fds, NEW d2 \in Fds, SpawnInherit(t, d, d2) PROVE Quiet
    <3>1. \A p \in Pipes : used'[p] => used[p]
      BY <2>6, <1>SettleUsed, ZenonT(60) DEF SpawnInherit
    <3> QED
      BY <2>1, <2>6, <3>1, <1>QuietThread, ZenonT(60)
         DEF SpawnInherit, At, ring, threadVars
  <2>7. CASE SpawnDone(t)
    BY <2>1, <2>7, <1>QuietThread, ZenonT(60) DEF SpawnDone, At, Goto, pipeVars
  <2>8. CASE SpawnFails(t)
    BY <2>1, <2>8, <1>QuietThread, ZenonT(60) DEF SpawnFails, At, Goto, pipeVars
  <2>9. CASE SpawnDiscardFds(t)
    <3>1. \A p \in Pipes : used'[p] => used[p]
      <4>1. (\E drop : Settle(drop, Nothing)) \/ UNCHANGED used
        BY <2>9, ZenonT(60) DEF SpawnDiscardFds, Drop, pipeVars
      <4> QED
        BY <4>1, <1>SettleUsed, ZenonT(60)
    <3>2. /\ pc[t] = "discard" /\ UNCHANGED <<ring, end, args, answer>>
          /\ UNCHANGED pc \/ pc' = [pc EXCEPT ![t] = "user"]
      BY <2>9, Zenon DEF SpawnDiscardFds, At, Goto, Drop, pipeVars, ring
    <3> QED
      BY <2>1, <3>1, <3>2, <1>QuietThread, ZenonT(60) DEF ring
  <2> QED
    BY <2>2, <2>3, <2>4, <2>5, <2>6, <2>7, <2>8, <2>9, ZenonT(60)
       DEF HandleCall, SpawnCall
<1>QuietProc.
      ASSUME NEW q \in Procs, Cancel(q) \/ Exit(q) \/ Reap(q)
      PROVE  Quiet
  <2> USE <1>QuietProc
  <2>1. CASE Cancel(q)
    BY <2>1, ZenonT(60) DEF Cancel, pipeVars, threadVars, Quiet
  <2>2. CASE Exit(q)
    <3>1. \A p \in Pipes : used'[p] => used[p]
      BY <2>2, <1>SettleUsed, ZenonT(60) DEF Exit, Drop
    <3> QED
      BY <2>2, <3>1, ZenonT(60) DEF Exit, Drop, ring, threadVars, Quiet
  <2>3. CASE Reap(q)
    <3>1. \A p \in Pipes : used'[p] => used[p]
      BY <2>3, <1>SettleUsed, ZenonT(60) DEF Reap, Drop
    <3> QED
      BY <2>3, <3>1, ZenonT(60) DEF Reap, Drop, ring, threadVars, Quiet
  <2> QED
    BY <2>1, <2>2, <2>3, ZenonT(60)
<1> QED
  BY <1>QuietPipeCall, <1>QuietFdCall, <1>QuietHandleCall, <1>QuietProc, ZenonT(60)

-----------------------------------------------------------------------------
(* The bytes in the ring. *)

LEMMA Around ==
  \A a, b \in Nat, n \in Nat \ {0} :
    a + b < n + n => ((a % n) + b) % n = (a + b) % n
<1>Past. \A m \in Nat, n \in Nat \ {0} : m < n => (m + n) % n = m
  BY Remainder, SMT, SMTT(60)
<1>Over. \A a \in Nat, n \in Nat : n <= a => \E m \in Nat : a = m + n
  <2> TAKE a \in Nat, n \in Nat
  <2> HAVE n <= a
  <2>1. a - n \in Nat /\ a = (a - n) + n
    BY SMT, SMTT(60)
  <2> QED
    BY <2>1, Zenon
<1> TAKE a, b \in Nat, n \in Nat \ {0}
<1> HAVE a + b < n + n
<1>0. n \in Nat /\ (a < n \/ n <= a)
  OBVIOUS
<1>1. CASE a < n
  BY <1>1, Remainder, Zenon
<1>2. CASE n <= a
  <2>1. PICK m \in Nat : a = m + n
    BY <1>0, <1>2, <1>Over, ZenonT(60)
  <2>2. m + b \in Nat /\ m + b < n /\ m < n /\ (m + n) + b = (m + b) + n
    BY <1>0, <2>1, SMT, SMTT(60)
  <2>3. (m + n) % n = m /\ ((m + b) + n) % n = m + b /\ (m + b) % n = m + b
    BY <2>1, <2>2, <1>Past, Remainder, ZenonT(60)
  <2> QED
    BY <2>1, <2>2, <2>3, ZenonT(60)
<1> QED
  BY <1>0, <1>1, <1>2, ZenonT(60)

\* Sequences given place by place.
LEMMA AsSequence ==
  ASSUME NEW X, NEW c \in Nat, NEW s \in [1..c -> X]
  PROVE  s \in Seq(X) /\ Len(s) = c /\ (c = 0 <=> s = <<>>)
  BY SMT, SMTT(60)

LEMMA Joined ==
  ASSUME NEW X, NEW s \in Seq(X), NEW v \in Seq(X)
  PROVE  /\ s \o v \in Seq(X) /\ Len(s \o v) = Len(s) + Len(v)
         /\ \A i \in 1..(Len(s) + Len(v)) :
              (s \o v)[i] = IF i <= Len(s) THEN s[i] ELSE v[i - Len(s)]
  BY SMT, SMTT(60)

LEMMA SamePlaces ==
  ASSUME NEW X, NEW s \in Seq(X), NEW v \in Seq(X), Len(s) = Len(v),
         \A i \in 1..Len(s) : s[i] = v[i]
  PROVE  s = v
  BY SMT, SMTT(60)

LEMMA Shortened ==
  ASSUME NEW X, NEW c \in Nat, NEW n \in 0..c,
         NEW s \in [1..c -> X], NEW w \in [1..(c - n) -> X],
         \A i \in 1..(c - n) : w[i] = s[n + i]
  PROVE  w = SubSeq(s, n + 1, Len(s))
<1>1. /\ s \in Seq(X) /\ w \in Seq(X) /\ Len(s) = c /\ Len(w) = c - n
  BY AsSequence, SMT, SMTT(60)
<1>2. /\ SubSeq(s, n + 1, c) \in Seq(X) /\ Len(SubSeq(s, n + 1, c)) = c - n
      /\ \A i \in 1..(c - n) : SubSeq(s, n + 1, c)[i] = s[n + i]
  BY <1>1, SMT, SMTT(60)
<1> QED
  BY <1>1, <1>2, SMT, SMTT(60)

LEMMA BytesTyped ==
  ASSUME NEW X, NEW N \in Nat \ {0}, NEW b \in [0..(N - 1) -> X],
         NEW t \in 0..(N - 1), NEW c \in Nat
  PROVE  Bytes(b, t, c, N) \in [1..c -> X]
<1>1. ASSUME NEW i \in 1..c PROVE b[(t + i - 1) % N] \in X
  <2>1. t + i - 1 \in Nat
    BY SMT, SMTT(60)
  <2>2. (t + i - 1) % N \in 0..(N - 1)
    BY <2>1, Remainder, ZenonT(60)
  <2> QED
    BY <2>2, Zenon
<1> QED
  BY <1>1, Zenon DEF Bytes

LEMMA GetBytes ==
  ASSUME NEW X, NEW N \in Nat \ {0}, NEW b \in [0..(N - 1) -> X],
         NEW t \in 0..(N - 1), NEW c \in 0..N, NEW n \in 0..c
  PROVE  Bytes(b, (t + n) % N, c - n, N)
           = SubSeq(Bytes(b, t, c, N), n + 1, Len(Bytes(b, t, c, N)))
<1>0. PICK t2, c2 : t2 = (t + n) % N /\ c2 = c - n
  BY ZenonT(60)
<1>1. t + n \in Nat /\ t2 \in 0..(N - 1) /\ c \in Nat /\ c2 \in Nat
  <2>1. t + n \in Nat
    BY SMT, SMTT(60)
  <2> QED
    BY <1>0, <2>1, Remainder, SMT, SMTT(60)
<1>2. /\ Bytes(b, t, c, N) \in [1..c -> X] /\ Bytes(b, t2, c2, N) \in [1..c2 -> X]
      /\ \A i \in 1..c : Bytes(b, t, c, N)[i] = b[(t + i - 1) % N]
      /\ \A i \in 1..c2 : Bytes(b, t2, c2, N)[i] = b[(t2 + i - 1) % N]
  <2>1. Bytes(b, t, c, N) \in [1..c -> X] /\ Bytes(b, t2, c2, N) \in [1..c2 -> X]
    BY <1>1, BytesTyped, ZenonT(60)
  <2>2. /\ \A i \in 1..c : Bytes(b, t, c, N)[i] = b[(t + i - 1) % N]
        /\ \A i \in 1..c2 : Bytes(b, t2, c2, N)[i] = b[(t2 + i - 1) % N]
    BY Zenon DEF Bytes
  <2> QED
    BY <2>1, <2>2, ZenonT(60)
<1>3. ASSUME NEW i \in 1..(c - n)
      PROVE  Bytes(b, t2, c2, N)[i] = Bytes(b, t, c, N)[n + i]
  <2>1. PICK a \in Nat, k \in Nat : a = t + n /\ k = i - 1
    BY <1>1, SMT, SMTT(60)
  <2>2. a + k < N + N /\ n + i \in 1..c /\ t2 + i - 1 = t2 + k /\ t + (n + i) - 1 = a + k
    BY <1>0, <1>1, <2>1, SMT, SMTT(60)
  <2>3. (t2 + k) % N = (a + k) % N
    <3>1. ((a % N) + k) % N = (a + k) % N
      BY <2>2, Around, ZenonT(60)
    <3> QED
      BY <1>0, <2>1, <3>1, ZenonT(60)
  <2>4. Bytes(b, t2, c2, N)[i] = b[(t2 + k) % N]
    BY <1>0, <1>2, <2>2, ZenonT(60)
  <2>5. Bytes(b, t, c, N)[n + i] = b[(a + k) % N]
    <3>1. Bytes(b, t, c, N)[n + i] = b[(t + (n + i) - 1) % N]
      BY <1>2, <2>2, ZenonT(60)
    <3> QED
      BY <2>2, <3>1, ZenonT(60)
  <2> QED
    BY <2>3, <2>4, <2>5, ZenonT(60)
<1> QED
  <2>1. PICK s, w : s = Bytes(b, t, c, N) /\ w = Bytes(b, t2, c2, N)
    BY Zenon
  <2>2. s \in [1..c -> X] /\ w \in [1..(c - n) -> X] /\ \A i \in 1..(c - n) : w[i] = s[n + i]
    BY <1>0, <1>2, <1>3, <2>1, ZenonT(60)
  <2>3. w = SubSeq(s, n + 1, Len(s))
    BY <1>1, <2>2, Shortened, SMT, SMTT(60)
  <2> QED
    BY <1>0, <2>1, <2>3, ZenonT(60)

LEMMA PutBytes ==
  \A X : \A N \in Nat \ {0} :
    \A b \in [0..(N - 1) -> X], t \in 0..(N - 1), c \in 0..N, x \in X :
      \A n \in 0..(N - c) : PutShown(b, t, c, n, x, N)
\* A place of the ring k places after the tail, against the n places from the head on.
<1>Places.
      ASSUME NEW N \in Nat \ {0}, NEW t \in 0..(N - 1), NEW c \in 0..N, NEW n \in 0..(N - c),
             NEW k \in 0..(c + n - 1), NEW h, h = (t + c) % N, NEW j, j = (t + k) % N
      PROVE  j \in 0..(N - 1) /\ ((j + N - h) % N < n <=> c <= k)
  <2> USE <1>Places
  <2>1. /\ t + c < N => h = t + c
        /\ N <= t + c => h = t + c - N
    <3>1. PICK a \in Nat : a = t + c /\ a < N + N
      BY SMT, SMTT(60)
    <3>2. h = a % N
      BY <3>1, ZenonT(60)
    <3>3. (a < N => a % N = a) /\ (N <= a => a % N = a - N)
      BY <3>1, Remainder, ZenonT(60)
    <3> QED
      BY <3>1, <3>2, <3>3, SMT, SMTT(60)
  <2>2. /\ t + k < N => j = t + k
        /\ N <= t + k => j = t + k - N
    <3>1. PICK a \in Nat : a = t + k /\ a < N + N
      BY SMT, SMTT(60)
    <3>2. j = a % N
      BY <3>1, ZenonT(60)
    <3>3. (a < N => a % N = a) /\ (N <= a => a % N = a - N)
      BY <3>1, Remainder, ZenonT(60)
    <3> QED
      BY <3>1, <3>2, <3>3, SMT, SMTT(60)
  <2>3. h \in 0..(N - 1) /\ j \in 0..(N - 1)
    BY <2>1, <2>2, SMT, SMTT(60)
  <2>4. CASE c <= k
    <3>1. \/ j + N - h = k - c
          \/ j + N - h = N + k - c
      BY <2>1, <2>2, <2>4, SMT, SMTT(60)
    <3>2. k - c \in Nat /\ k - c < N /\ k - c < n
      BY <2>4, SMT, SMTT(60)
    <3>3. (k - c) % N = k - c /\ (N + k - c) % N = k - c
      <4>1. PICK a \in Nat : a = k - c
        BY <3>2, ZenonT(60)
      <4>2. PICK b \in Nat : b = N + k - c
        BY <3>2, SMT, SMTT(60)
      <4>3. a < N /\ N <= b /\ b < N + N /\ b - N = a
        BY <3>2, <4>1, <4>2, SMT, SMTT(60)
      <4>4. a % N = a /\ b % N = a
        BY <4>3, Remainder, ZenonT(60)
      <4> QED
        BY <4>1, <4>2, <4>4, ZenonT(60)
    <3> QED
      BY <2>3, <2>4, <3>1, <3>2, <3>3, ZenonT(60)
  <2>5. CASE k < c
    <3>1. \/ j + N - h = N + k - c
          \/ j + N - h = N + N + k - c
      BY <2>1, <2>2, <2>5, SMT, SMTT(60)
    <3>2. N + k - c \in Nat /\ N + k - c < N /\ n <= N + k - c
      BY <2>5, SMT, SMTT(60)
    <3>3. j + N - h < N + N /\ j + N - h \in Nat
      BY <2>3, SMT, SMTT(60)
    <3>4. (j + N - h) % N = N + k - c
      <4>1. CASE j + N - h = N + k - c
        BY <3>2, <4>1, Remainder, ZenonT(60)
      <4>2. CASE j + N - h = N + N + k - c
        <5>1. PICK a \in Nat : a = j + N - h
          BY <3>3, ZenonT(60)
        <5>2. N <= a /\ a < N + N /\ a - N = N + k - c
          BY <3>2, <3>3, <4>2, <5>1, SMT, SMTT(60)
        <5>3. a % N = N + k - c
          BY <5>2, Remainder, ZenonT(60)
        <5> QED
          BY <5>1, <5>3, ZenonT(60)
      <4> QED
        BY <3>1, <4>1, <4>2, ZenonT(60)
    <3> QED
      BY <2>3, <2>5, <3>2, <3>4, SMT, SMTT(60)
  <2> QED
    BY <2>4, <2>5, SMT, SMTT(60)
<1>Filled.
      ASSUME NEW X, NEW x \in X, NEW c \in Nat, NEW n \in Nat,
             NEW s \in [1..c -> X], NEW w \in [1..(c + n) -> X], FilledWith(w, s, c, n, x)
      PROVE  w = s \o Repeat(x, n)
  <2> USE <1>Filled
  <2> USE DEF FilledWith
  <2>1. PICK v \in [1..n -> X] : v = [i \in 1..n |-> x]
    BY Zenon
  <2>2. /\ s \in Seq(X) /\ v \in Seq(X) /\ w \in Seq(X)
        /\ Len(s) = c /\ Len(v) = n /\ Len(w) = c + n
    BY AsSequence, SMT, SMTT(60)
  <2>3. s \o v \in Seq(X) /\ Len(s \o v) = c + n
    BY <2>2, Joined, ZenonT(60)
  <2>4. \A i \in 1..(c + n) : w[i] = (s \o v)[i]
    <3> TAKE i \in 1..(c + n)
    <3>0. (s \o v)[i] = IF i <= c THEN s[i] ELSE v[i - c]
      BY <2>2, Joined, ZenonT(60)
    <3>1. CASE i <= c
      BY <3>0, <3>1, ZenonT(60)
    <3>2. CASE c < i
      <4>1. i - c \in 1..n /\ ~(i <= c)
        BY <3>2, SMT, SMTT(60)
      <4>2. v[i - c] = x /\ w[i] = x
        BY <2>1, <4>1, ZenonT(60)
      <4> QED
        BY <3>0, <4>1, <4>2, ZenonT(60)
    <3> QED
      BY <3>1, <3>2, SMT, SMTT(60)
  <2>5. w = s \o v
    BY <2>2, <2>3, <2>4, SamePlaces, ZenonT(60)
  <2> QED
    BY <2>1, <2>5, ZenonT(60) DEF Repeat
<1>Shown.
      ASSUME NEW X, NEW N \in Nat \ {0}, NEW b \in [0..(N - 1) -> X],
             NEW t \in 0..(N - 1), NEW c \in 0..N, NEW n \in 0..(N - c), NEW x \in X
      PROVE  PutShown(b, t, c, n, x, N)
  <2> USE <1>Shown
  <2>0. PICK h, b2 :
          /\ h = (t + c) % N
          /\ b2 = Put(b, h, n, x, N)
    BY Zenon
  <2>1. c \in Nat /\ n \in Nat /\ c + n \in Nat
    BY SMT, SMTT(60)
  <2>2. b2 \in [0..(N - 1) -> X]
    BY <2>0, ZenonT(60) DEF Put
  <2>3. PICK s, w : s = Bytes(b, t, c, N) /\ w = Bytes(b2, t, c + n, N)
    BY Zenon
  <2>4. s \in [1..c -> X] /\ w \in [1..(c + n) -> X]
    BY <2>1, <2>2, <2>3, BytesTyped, ZenonT(60)
  <2>5. ASSUME NEW i \in 1..(c + n)
        PROVE  w[i] = IF i <= c THEN s[i] ELSE x
    <3>1. PICK k \in 0..(c + n - 1) : k = i - 1
      BY SMT, SMTT(60)
    <3>2. PICK j : j = (t + k) % N
      BY ZenonT(60)
    <3>3. j \in 0..(N - 1) /\ ((j + N - h) % N < n <=> c <= k)
      BY <2>0, <3>2, <1>Places, ZenonT(60)
    <3>4. t + i - 1 = t + k
      BY <3>1, Zenon
    <3>5. b2[j] = IF c <= k THEN x ELSE b[j]
      <4>1. b2[j] = IF (j + N - h) % N < n THEN x ELSE b[j]
        BY <2>0, <3>3, ZenonT(60) DEF Put
      <4> QED
        BY <3>3, <4>1, ZenonT(60)
    <3>6. (c <= k <=> ~(i <= c)) /\ (i <= c => i \in 1..c)
      BY <2>1, <3>1, SMT, SMTT(60)
    <3>7. w[i] = b2[j]
      <4>1. w[i] = b2[(t + i - 1) % N]
        BY <2>3, ZenonT(60) DEF Bytes
      <4> QED
        BY <3>2, <3>4, <4>1, ZenonT(60)
    <3>8. i <= c => s[i] = b[j]
      <4>1. i <= c => s[i] = b[(t + i - 1) % N]
        BY <2>3, <3>6, ZenonT(60) DEF Bytes
      <4> QED
        BY <3>2, <3>4, <4>1, ZenonT(60)
    <3> QED
      BY <3>5, <3>6, <3>7, <3>8, ZenonT(60)
  <2>6. FilledWith(w, s, c, n, x)
    BY <2>5, ZenonT(60) DEF FilledWith
  <2>7. w = s \o Repeat(x, n)
    BY <2>1, <2>4, <2>6, <1>Filled, ZenonT(60)
  <2> QED
    BY <2>0, <2>3, <2>7, ZenonT(60) DEF PutShown
<1> QED
  BY <1>Shown, ZenonT(60)

LEMMA Queue ==
  ASSUME TypeOK, NEW p \in Pipes
  PROVE  /\ Contents(p) = Bytes(buf[p], tail[p], count[p], Size)
         /\ Contents(p)' = Bytes(buf'[p], tail'[p], count'[p], Size)
         /\ Len(Contents(p)) = count[p]
         /\ count[p] = 0 <=> Contents(p) = <<>>
<1>1. /\ Size \in Nat \ {0} /\ count[p] \in Nat /\ tail[p] \in 0..(Size - 1)
      /\ buf[p] \in [0..(Size - 1) -> Threads \cup {None}]
  BY RingFacts, ZenonT(60) DEF Indices
<1>2. Contents(p) = Bytes(buf[p], tail[p], count[p], Size)
  BY Zenon DEF Contents, Bytes
<1>3. Contents(p)' = Bytes(buf'[p], tail'[p], count'[p], Size)
  BY Zenon DEF Contents, Bytes
<1>4. PICK s \in [1..count[p] -> Threads \cup {None}] : s = Contents(p)
  <2>1. PICK b, i, c : b = buf[p] /\ i = tail[p] /\ c = count[p]
    BY Zenon
  <2>2. /\ c \in Nat /\ i \in 0..(Size - 1)
        /\ b \in [0..(Size - 1) -> Threads \cup {None}]
    BY <1>1, <2>1, ZenonT(60)
  <2>3. Bytes(b, i, c, Size) \in [1..c -> Threads \cup {None}]
    BY <1>1, <2>2, BytesTyped, ZenonT(60)
  <2> QED
    BY <1>2, <2>1, <2>3, ZenonT(60)
<1>5. Len(s) = count[p] /\ (count[p] = 0 <=> s = <<>>)
  BY <1>1, AsSequence, SMT, SMTT(60)
<1> QED
  BY <1>2, <1>3, <1>4, <1>5, ZenonT(60)

-----------------------------------------------------------------------------
(* What the abstract stream shows of a step. *)

LEMMA CallsShown ==
  ASSUME NEW p
  PROVE  CallOn(p) = [u \in Threads |-> IF OnPipe(u, p) THEN View(u) ELSE NoView]
  BY Zenon DEF CallOn, OnPipe, View, NoView, InOp

LEMMA CallsShownNext ==
  ASSUME NEW p
  PROVE  CallOn(p)' =
           [u \in Threads |-> IF OnPipe(u, p)' THEN View(u)' ELSE NoView]
  BY Zenon DEF CallOn, OnPipe, View, NoView, InOp

LEMMA CallsSame ==
  ASSUME NEW p, \A u \in Threads : SameView(u, p)
  PROVE  CallOn(p)' = CallOn(p)
  BY CallsShown, CallsShownNext, ZenonT(60) DEF SameView

LEMMA CallsBut ==
  ASSUME NEW p, NEW t \in Threads, \A u \in Threads : u # t => SameView(u, p),
         NEW v, v = IF OnPipe(t, p)' THEN View(t)' ELSE NoView
  PROVE  CallOn(p)' = [CallOn(p) EXCEPT ![t] = v]
  BY CallsShown, CallsShownNext, ZenonT(60) DEF SameView

LEMMA RingSame ==
  ASSUME NEW p, buf'[p] = buf[p], tail'[p] = tail[p], count'[p] = count[p]
  PROVE  Contents(p)' = Contents(p)
  BY Zenon DEF Contents

LEMMA Stutters ==
  ASSUME NEW p, SameEnds(p), Contents(p)' = Contents(p), CallOn(p)' = CallOn(p)
  PROVE  UNCHANGED Stream(p)!vars
<1>1. (refs[p].r # 0)' = (refs[p].r # 0) /\ (refs[p].w # 0)' = (refs[p].w # 0)
  BY Zenon DEF SameEnds, Sides
<1>2. used'[p] = used[p]
  BY Zenon DEF SameEnds
<1> QED
  BY <1>1, <1>2, ZenonT(60) DEF Stream!vars

LEMMA FreeStays ==
  ASSUME IInv, IInv', NEW p \in Pipes, ~used[p], ~used'[p]
  PROVE  SameEnds(p)
<1>1. \A s \in Sides : refs[p][s] = 0 /\ refs'[p][s] = 0
  BY ZenonT(60) DEF IInv, RefsExact
<1>2. used \in [Pipes -> BOOLEAN] /\ used' \in [Pipes -> BOOLEAN]
  BY ZenonT(60) DEF IInv, TypeOK
<1> QED
  BY <1>1, <1>2, ZenonT(60) DEF SameEnds

\* Ends only go from a pipe in use, and it lives on while one of them is held.
LEMMA Losing ==
  ASSUME IInv, IInv', GoneStep, NEW p \in Pipes, used[p]
  PROVE  \E r, w \in BOOLEAN : Stream(p)!Lose(r, w)
<1>1. \A s \in Sides : refs[p][s] = 0 => refs'[p][s] = 0
  BY Zenon DEF GoneStep
<1>2. used'[p] = (refs'[p].r # 0 \/ refs'[p].w # 0)
  <2>1. used' \in [Pipes -> BOOLEAN]
    BY ZenonT(60) DEF IInv, TypeOK
  <2>2. used'[p] <=> \E s \in Sides : refs'[p][s] # 0
    BY ZenonT(60) DEF IInv, RefsExact
  <2> QED
    BY <2>1, <2>2, ZenonT(60) DEF Sides
<1>3. PICK r \in BOOLEAN, w \in BOOLEAN : r = (refs'[p].r # 0) /\ w = (refs'[p].w # 0)
  BY Zenon
<1>4. /\ (refs'[p].r # 0) = ((refs[p].r # 0) /\ r)
      /\ (refs'[p].w # 0) = ((refs[p].w # 0) /\ w)
  BY <1>1, <1>3, ZenonT(60) DEF Sides
<1>5. Stream(p)!Lose(r, w)
  BY <1>2, <1>4, ZenonT(60) DEF Stream!Lose
<1> QED
  BY <1>5, ZenonT(60)

LEMMA QuietStream ==
  ASSUME IInv, IInv', GoneStep, StreamInv, Quiet
  PROVE  StreamInv' /\ \A p \in Pipes : StreamStep(p)
<1>1. StreamInv'
  <2>1. ASSUME NEW u \in Threads PROVE CallOK(u)'
    BY Zenon DEF StreamInv, Quiet, CallOK, InOp
  <2> QED
    BY <2>1, ZenonT(60) DEF StreamInv, Quiet
<1>2. ASSUME NEW p \in Pipes PROVE StreamStep(p)
  <2>1. Contents(p)' = Contents(p)
    BY RingSame, ZenonT(60) DEF Quiet
  <2>2. CallOn(p)' = CallOn(p)
    <3>1. ASSUME NEW u \in Threads PROVE SameView(u, p)
      BY Zenon DEF Quiet, SameView, OnPipe, View, OpOf
    <3> QED
      BY <3>1, CallsSame, ZenonT(60)
  <2>3. CASE used[p]
    BY <2>1, <2>2, <2>3, Losing, ZenonT(60) DEF StreamStep, Stream!Next, Stream!Close
  <2>4. CASE ~used[p]
    <3>1. ~used'[p]
      BY <2>4, ZenonT(60) DEF Quiet
    <3> QED
      BY <2>1, <2>2, <2>4, <3>1, FreeStays, Stutters, ZenonT(60) DEF StreamStep
  <2> QED
    BY <2>3, <2>4, ZenonT(60)
<1> QED
  BY <1>1, <1>2, ZenonT(60)

\* A pipe another call works on, seen by the calls on this one.
LEMMA ElsewhereStream ==
  ASSUME NEW t \in Threads, NEW p, ~OnPipe(t, p), ~OnPipe(t, p)',
         \A u \in Threads : u # t => SameView(u, p),
         SameEnds(p), buf'[p] = buf[p], tail'[p] = tail[p], count'[p] = count[p]
  PROVE  StreamStep(p)
<1>1. CallOn(p)' = CallOn(p)
  BY CallsSame, ZenonT(60) DEF SameView
<1> QED
  BY <1>1, RingSame, Stutters, ZenonT(60) DEF StreamStep

\* Only the thread that steps shows the stream something new.
LEMMA OthersSame ==
  ASSUME NEW t \in Threads, NEW u \in Threads, u # t, NEW p,
         pc'[u] = pc[u], end'[u] = end[u], args'[u] = args[u], answer'[u] = answer[u]
  PROVE  SameView(u, p)
  BY Zenon DEF SameView, OnPipe, View, OpOf

LEMMA OthersOK ==
  ASSUME NEW t \in Threads, StreamInv, CallOK(t)',
         \A u \in Threads : u # t =>
           pc'[u] = pc[u] /\ args'[u] = args[u] /\ answer'[u] = answer[u]
  PROVE  \A u \in Threads : CallOK(u)'
<1>1. ASSUME NEW u \in Threads, u # t PROVE CallOK(u)'
  BY <1>1, ZenonT(60) DEF StreamInv, CallOK
<1> QED
  BY <1>1, ZenonT(60)

\* A pipe is created, an end is lent to a read or a write, and given back.
LEMMA StartStream ==
  \A t \in Threads :
    /\ IInv /\ IInv' /\ GoneStep /\ StreamInv
    /\ \/ \E p \in Pipes : PipeCreate(t, p)
       \/ NotRevived /\ \E d \in Fds, op \in {"read", "write"} : Borrow(t, d, op)
       \/ FdReturn(t)
    => StreamInv' /\ \A p \in Pipes : StreamStep(p)
<1>PipeCreateStream.
      ASSUME IInv, IInv', StreamInv, NEW t \in Threads, NEW p0 \in Pipes, PipeCreate(t, p0)
      PROVE  StreamInv' /\ \A p \in Pipes : StreamStep(p)
  <2> USE <1>PipeCreateStream
  <2>1. /\ pc[t] = "user" /\ ~used[p0] /\ used' = [used EXCEPT ![p0] = TRUE]
        /\ buf' = [buf EXCEPT ![p0] = [i \in Indices |-> None]]
        /\ head' = [head EXCEPT ![p0] = 0] /\ tail' = [tail EXCEPT ![p0] = 0]
        /\ count' = [count EXCEPT ![p0] = 0]
        /\ refs' = [refs EXCEPT ![p0] = [s \in Sides |-> 1]]
        /\ pc' = [pc EXCEPT ![t] = "makeR"] /\ end' = [end EXCEPT ![t] = EndOf(p0, "r")]
        /\ UNCHANGED <<args, answer>>
    BY Zenon DEF PipeCreate, InUser, At, Goto, SetEnd
  <2>2. TypeOK
    BY Zenon DEF IInv
  <2>3. pc'[t] = "makeR" /\ \A u \in Threads : u # t => pc'[u] = pc[u] /\ end'[u] = end[u]
    BY <2>1, <2>2, ZenonT(60) DEF TypeOK
  <2>4. /\ used'[p0] = TRUE /\ count'[p0] = 0 /\ head'[p0] = 0 /\ tail'[p0] = 0
        /\ \A s \in Sides : refs'[p0][s] = 1
        /\ \A p \in Pipes : p # p0 =>
             /\ used'[p] = used[p] /\ buf'[p] = buf[p] /\ head'[p] = head[p]
             /\ tail'[p] = tail[p] /\ count'[p] = count[p] /\ refs'[p] = refs[p]
    BY <2>1, <2>2, ZenonT(60) DEF TypeOK
  <2>5. StreamInv'
    <3>1. CallOK(t)'
      BY <2>1, <2>3, ZenonT(60) DEF StreamInv, CallOK, InOp
    <3>2. \A u \in Threads : CallOK(u)'
      BY <2>1, <2>3, <3>1, OthersOK, ZenonT(60)
    <3>3. 0 = (0 + 0) % Size
      BY PipeAssumption, Remainder, SMT, SMTT(60)
    <3>4. \A p \in Pipes : head'[p] = (tail'[p] + count'[p]) % Size
      BY <2>4, <3>3, ZenonT(60) DEF StreamInv
    <3> QED
      BY <3>2, <3>4, ZenonT(60) DEF StreamInv
  <2>6. \A u \in Threads, p \in Pipes : u # t => SameView(u, p)
    BY <2>1, <2>3, OthersSame, ZenonT(60)
  <2>7. \A p : ~OnPipe(t, p) /\ ~OnPipe(t, p)'
    BY <2>1, <2>3, ZenonT(60) DEF OnPipe, InOp
  <2>8. StreamStep(p0)
    <3>1. Contents(p0)' = <<>>
      BY <2>4, SMT, SMTT(60) DEF Contents
    <3>2. CallOn(p0)' = CallOn(p0)
      BY <2>6, <2>7, CallsSame, ZenonT(60) DEF SameView
    <3>3. (refs'[p0].r # 0) = TRUE /\ (refs'[p0].w # 0) = TRUE
      BY <2>4, SMT, SMTT(60) DEF Sides
    <3> QED
      BY <2>1, <2>4, <3>1, <3>2, <3>3, ZenonT(60)
         DEF StreamStep, Stream!Next, Stream!Create
  <2>9. ASSUME NEW p \in Pipes, p # p0 PROVE StreamStep(p)
    <3>1. SameEnds(p)
      BY <2>4, <2>9, ZenonT(60) DEF SameEnds
    <3> QED
      BY <2>4, <2>6, <2>7, <2>9, <3>1, ElsewhereStream, ZenonT(60)
  <2> QED
    BY <2>5, <2>8, <2>9, ZenonT(60)
<1>BorrowStream.
      ASSUME IInv, IInv', NotRevived, StreamInv, NEW t \in Threads, NEW d \in Fds,
             NEW op \in {"read", "write"}, Borrow(t, d, op)
      PROVE  StreamInv' /\ \A p \in Pipes : StreamStep(p)
  <2> USE <1>BorrowStream
  <2>1. ProcOf[t] \in Procs
    BY PipeAssumption, ZenonT(60)
  <2>2. PICK x \in Ends : x = fds[ProcOf[t]][d] /\ FdHolders(x) # {}
    BY <2>1, InTables, ZenonT(60) DEF Borrow, IInv
  <2>3. /\ pc[t] = "user" /\ Settle(Nothing, One(x))
        /\ UNCHANGED <<buf, head, tail, count>>
        /\ end' = [end EXCEPT ![t] = x]
        /\ \/ /\ op = OpOf(x) /\ pc' = [pc EXCEPT ![t] = op]
              /\ \E len \in LengthsOf(op), nonblock \in BOOLEAN :
                   args' = [args EXCEPT ![t] = [len |-> len, nonblock |-> nonblock]]
              /\ UNCHANGED answer
           \/ /\ pc' = [pc EXCEPT ![t] = "return"]
              /\ answer' = [answer EXCEPT ![t] = "ebadf"] /\ UNCHANGED args
    BY <2>2, ZenonT(60) DEF Borrow, InUser, At, Goto, SetEnd, ring
  <2>4. /\ TypeOK /\ args[t] = NoArgs /\ answer[t] = "none" /\ x.pipe \in Pipes
    BY <2>3, EndFacts, ZenonT(60) DEF IInv, StreamInv, CallOK, InOp
  <2>5. \A u \in Threads : u # t =>
          /\ pc'[u] = pc[u] /\ end'[u] = end[u]
          /\ args'[u] = args[u] /\ answer'[u] = answer[u]
    BY <2>3, <2>4, ZenonT(60) DEF TypeOK
  <2>6. /\ end'[t] = x /\ pc'[t] \in InOp
        /\ \/ /\ pc'[t] \in {"read", "write"} /\ args'[t].len \in Lengths
              /\ args'[t].len # 0 /\ answer'[t] = "none"
           \/ pc'[t] = "return" /\ args'[t].len = 0 /\ answer'[t] = "ebadf"
    <3>1. LengthsOf(op) \subseteq Lengths \ {0}
      BY PipeAssumption, ZenonT(60) DEF LengthsOf, Lengths
    <3> QED
      BY <2>3, <2>4, <3>1, SMT, SMTT(60) DEF TypeOK, InOp, NoArgs
  <2>7. StreamInv'
    <3>1. CallOK(t)'
      BY <2>6, ZenonT(60) DEF CallOK, InOp
    <3>2. \A u \in Threads : CallOK(u)'
      BY <2>5, <3>1, OthersOK, ZenonT(60)
    <3> QED
      BY <2>3, <3>2, ZenonT(60) DEF StreamInv
  <2>8. \A u \in Threads, p \in Pipes : u # t => SameView(u, p)
    BY <2>5, OthersSame, ZenonT(60)
  <2>9. \A p \in Pipes : SameEnds(p)
    <3> TAKE p \in Pipes
    <3>1. refs \in RefCounts /\ used \in [Pipes -> BOOLEAN]
      BY <2>4, ZenonT(60) DEF TypeOK, RefCounts
    <3>2. \A s \in Sides : refs'[p][s] = refs[p][s] - Nothing[p][s] + One(x)[p][s]
      BY <2>3, ZenonT(60) DEF Settle
    <3>3. \A s \in Sides : refs[p][s] # 0 => refs'[p][s] # 0
      BY <3>1, <3>2, OneFacts, SMT, SMTT(60) DEF RefCounts, Is
    <3>4. used'[p] = used[p]
      BY <2>3, <3>1, OneFacts, ZenonT(60) DEF Settle
    <3> QED
      BY <3>3, <3>4, ZenonT(60) DEF SameEnds, NotRevived
  <2>10. ASSUME NEW p \in Pipes, p = x.pipe PROVE StreamStep(p)
    <3>1. Contents(p)' = Contents(p)
      BY <2>3, RingSame, ZenonT(60)
    <3>2. used[p]
      <4>1. x = EndOf(p, x.side) /\ x.side \in Sides
        BY <2>10, EndFacts, ZenonT(60)
      <4>2. FdHolders(EndOf(p, x.side)) # {}
        BY <2>2, <4>1, ZenonT(60)
      <4>3. Holders(EndOf(p, x.side)) > 0
        BY <4>2, Held, ZenonT(60)
      <4>4. Holders(EndOf(p, x.side)) # 0
        BY <4>3, HolderSets, SMT, SMTT(60)
      <4> QED
        BY <4>1, <4>4, FreeSlot, ZenonT(60)
    <3>3. CallOn(p)[t] = NoView
      BY <2>3, CallsShown, ZenonT(60) DEF OnPipe, InOp
    <3>4. CallOn(p)' = [CallOn(p) EXCEPT ![t] =
            [op |-> OpOf(x), len |-> args'[t].len, answer |-> answer'[t]]]
      <4>1. PICK v : v = View(t)'
        BY Zenon
      <4>2. OnPipe(t, p)' /\ v = [op |-> OpOf(x), len |-> args'[t].len, answer |-> answer'[t]]
        BY <2>6, <2>10, <4>1, ZenonT(60) DEF OnPipe, View
      <4>3. CallOn(p)' = [CallOn(p) EXCEPT ![t] = v]
        BY <2>8, <4>1, <4>2, CallsBut, ZenonT(60)
      <4> QED
        BY <4>2, <4>3, ZenonT(60)
    <3>5. (refs[p].r # 0)' = (refs[p].r # 0) /\ (refs[p].w # 0)' = (refs[p].w # 0)
          /\ used'[p] = used[p]
      BY <2>9, ZenonT(60) DEF SameEnds, Sides
    <3>6. OpOf(x) \in {"read", "write"}
      BY ZenonT(60) DEF OpOf
    <3>7. Stream(p)!Begin(t)
      <4>1. \E o \in {"read", "write"} :
              \/ \E len \in Lengths : CallOn(p)' =
                   [CallOn(p) EXCEPT ![t] = [op |-> o, len |-> len, answer |-> "none"]]
              \/ CallOn(p)' = [CallOn(p) EXCEPT ![t] =
                                 [op |-> o, len |-> 0, answer |-> "ebadf"]]
        BY <2>6, <3>4, <3>6, ZenonT(60)
      <4> QED
        BY <3>1, <3>2, <3>3, <3>5, <4>1, ZenonT(60)
           DEF Stream!Begin, Stream!NoCall, NoView
    <3> QED
      BY <3>7, ZenonT(60) DEF StreamStep, Stream!Next
  <2>11. ASSUME NEW p \in Pipes, p # x.pipe PROVE StreamStep(p)
    <3>1. ~OnPipe(t, p) /\ ~OnPipe(t, p)'
      BY <2>3, <2>6, <2>11, ZenonT(60) DEF OnPipe, InOp
    <3> QED
      BY <2>3, <2>8, <2>9, <3>1, ElsewhereStream, ZenonT(60)
  <2> QED
    BY <2>7, <2>10, <2>11, ZenonT(60)
<1>FdReturnStream.
      ASSUME IInv, IInv', GoneStep, StreamInv, NEW t \in Threads, FdReturn(t)
      PROVE  StreamInv' /\ \A p \in Pipes : StreamStep(p)
  <2> USE <1>FdReturnStream
  <2>1. /\ pc[t] = "return" /\ Drop(One(end[t]))
        /\ pc' = [pc EXCEPT ![t] = "user"] /\ end' = [end EXCEPT ![t] = None]
        /\ args' = [args EXCEPT ![t] = NoArgs] /\ answer' = [answer EXCEPT ![t] = "none"]
        /\ UNCHANGED <<buf, head, tail, count>>
    BY ZenonT(60) DEF FdReturn, At, Finish, Goto, SetEnd, Drop, ring
  <2>2. /\ TypeOK /\ EndOK(t)
    BY ZenonT(60) DEF IInv, Calling
  <2>3. /\ pc'[t] = "user" /\ args'[t] = NoArgs /\ answer'[t] = "none"
        /\ \A u \in Threads : u # t =>
             /\ pc'[u] = pc[u] /\ end'[u] = end[u]
             /\ args'[u] = args[u] /\ answer'[u] = answer[u]
    BY <2>1, <2>2, ZenonT(60) DEF TypeOK
  <2>4. StreamInv'
    <3>1. CallOK(t)'
      BY <2>3, ZenonT(60) DEF CallOK, InOp
    <3>2. \A u \in Threads : CallOK(u)'
      BY <2>3, <3>1, OthersOK, ZenonT(60)
    <3> QED
      BY <2>1, <3>2, ZenonT(60) DEF StreamInv
  <2>5. \A u \in Threads, p \in Pipes : u # t => SameView(u, p)
    BY <2>3, OthersSame, ZenonT(60)
  <2>6. PICK x \in Ends : x = end[t] /\ x.pipe \in Pipes
    BY <2>1, <2>2, EndFacts, ZenonT(60) DEF EndOK, Loans
  <2>7. \A p : ~OnPipe(t, p)'
    BY <2>3, ZenonT(60) DEF OnPipe, InOp
  <2>8. \A p \in Pipes : Contents(p)' = Contents(p)
    BY <2>1, RingSame, ZenonT(60)
  <2>9. StreamStep(x.pipe)
    <3>1. PICK p \in Pipes : p = x.pipe
      BY <2>6, ZenonT(60)
    <3>2. used[p]
      BY <2>1, <2>6, <3>1, FreeSlot, ZenonT(60) DEF Loans
    <3>3. CallOn(p)[t] = View(t) /\ CallOn(p)[t] # NoView
      <4>1. CallOn(p)[t] = View(t)
        BY <2>1, <2>6, <3>1, CallsShown, ZenonT(60) DEF OnPipe, InOp
      <4>2. View(t).op # NoView.op
        BY Zenon DEF View, NoView, OpOf
      <4> QED
        BY <4>1, <4>2, ZenonT(60)
    <3>4. CallOn(p)' = [CallOn(p) EXCEPT ![t] = NoView]
      BY <2>5, <2>7, CallsBut, ZenonT(60)
    <3>5. Stream(p)!End(t)
      BY <2>8, <3>2, <3>3, <3>4, Losing, ZenonT(60) DEF Stream!End, Stream!NoCall, NoView
    <3> QED
      BY <3>1, <3>5, ZenonT(60) DEF StreamStep, Stream!Next
  <2>10. ASSUME NEW p \in Pipes, p # x.pipe PROVE StreamStep(p)
    <3>1. SameEnds(p)
      <4>1. refs \in RefCounts /\ used \in [Pipes -> BOOLEAN]
        BY <2>2, ZenonT(60) DEF TypeOK, RefCounts
      <4>2. \A s \in Sides : x # EndOf(p, s)
        BY <2>10, EndFacts, SMT, SMTT(60)
      <4>3. Settle(One(x), Nothing)
        BY <2>1, <2>6, ZenonT(60) DEF Drop
      <4>4. \A s \in Sides : One(x)[p][s] = 0
        BY <4>2, OneFacts, SMT, SMTT(60) DEF Is
      <4>5. \A s \in Sides : refs'[p][s] = refs[p][s] - One(x)[p][s] + Nothing[p][s]
        BY <4>3, ZenonT(60) DEF Settle
      <4>6. \A s \in Sides : refs'[p][s] = refs[p][s]
        BY <4>1, <4>4, <4>5, OneFacts, SMT, SMTT(60) DEF RefCounts
      <4>7. used'[p] = used[p]
        BY <4>1, <4>3, <4>4, ZenonT(60) DEF Settle
      <4> QED
        BY <4>6, <4>7, ZenonT(60) DEF SameEnds
    <3>2. ~OnPipe(t, p)
      BY <2>6, <2>10, ZenonT(60) DEF OnPipe
    <3> QED
      BY <2>1, <2>5, <2>7, <3>1, <3>2, ElsewhereStream, ZenonT(60)
  <2> QED
    BY <2>4, <2>6, <2>9, <2>10, ZenonT(60)
<1> QED
  BY <1>PipeCreateStream, <1>BorrowStream, <1>FdReturnStream, ZenonT(60)

-----------------------------------------------------------------------------
(* Reading and writing. *)

\* A call that finds nothing to do and goes to sleep: the stream sees nothing.
LEMMA SleepQuiet ==
  ASSUME UNCHANGED <<pc, answer, used, end, args, buf, head, tail, count>>
  PROVE  Quiet
  BY ZenonT(60) DEF Quiet

\* One pass of the loop of pipe_read or pipe_write.
LEMMA TransferStream ==
  \A t \in Threads :
    /\ IInv /\ IInv' /\ GoneStep /\ StreamInv
    /\ PipeRead(t) \/ PipeWrite(t)
    => StreamInv' /\ \A p \in Pipes : StreamStep(p)
<1>AnswerShown.
      ASSUME NEW p, NEW t \in Threads, \A u \in Threads : u # t => SameView(u, p),
             OnPipe(t, p), OnPipe(t, p)', UNCHANGED <<end, args>>
      PROVE  CallOn(p)' = [CallOn(p) EXCEPT ![t].answer = answer'[t]]
  <2> USE <1>AnswerShown
  <2>1. CallOn(p)' = [CallOn(p) EXCEPT ![t] = View(t)']
    <3>1. PICK v : v = View(t)'
      BY ZenonT(60)
    <3> QED
      BY <3>1, CallsBut, ZenonT(60)
  <2>2. View(t)' = [View(t) EXCEPT !.answer = answer'[t]]
    BY SMT, SMTT(60) DEF View
  <2>3. CallOn(p)[t] = View(t)
    BY CallsShown, ZenonT(60)
  <2> QED
    BY <2>1, <2>2, <2>3, ZenonT(60)
<1>Answered.
      ASSUME IInv, StreamInv, NEW t \in Threads, pc[t] \in {"read", "write"}, NEW a, Reply(t, a),
             UNCHANGED <<used, refs, end, args>>, NEW p0 \in Pipes, p0 = end[t].pipe
      PROVE  Shown(t, p0, a)
  <2> USE <1>Answered
  <2>1. TypeOK /\ end[t] = EndOf(end[t].pipe, IF pc[t] = "read" THEN "r" ELSE "w")
        /\ end[t].pipe \in Pipes
    BY InCall, ZenonT(60)
  <2>2. pc' = [pc EXCEPT ![t] = "return"] /\ answer' = [answer EXCEPT ![t] = a]
    BY ZenonT(60) DEF Reply, Goto
  <2>3. /\ pc'[t] = "return" /\ answer'[t] = a
        /\ \A u \in Threads : u # t => pc'[u] = pc[u] /\ answer'[u] = answer[u]
    BY <2>1, <2>2, ZenonT(60) DEF TypeOK
  <2>4. \A p \in Pipes : SameEnds(p)
    BY ZenonT(60) DEF SameEnds
  <2>5. \A u \in Threads : CallOK(u)'
    <3>1. CallOK(t)'
      BY <2>3, ZenonT(60) DEF CallOK, InOp
    <3> QED
      BY <2>3, <3>1, OthersOK, ZenonT(60)
  <2>6. \A p \in Pipes, u \in Threads : u # t => SameView(u, p)
    BY <2>3, OthersSame, ZenonT(60)
  <2>7. \A p \in Pipes : p # p0 => ~OnPipe(t, p) /\ ~OnPipe(t, p)'
    BY ZenonT(60) DEF OnPipe
  <2>8. /\ CallOn(p0)' = [CallOn(p0) EXCEPT ![t].answer = a]
        /\ CallOn(p0)[t].op = pc[t] /\ CallOn(p0)[t].len = args[t].len
        /\ CallOn(p0)[t].answer = "none"
    <3>1. OnPipe(t, p0) /\ OnPipe(t, p0)'
      BY <2>3, ZenonT(60) DEF OnPipe, InOp
    <3>2. CallOn(p0)' = [CallOn(p0) EXCEPT ![t].answer = a]
      BY <2>3, <2>6, <3>1, <1>AnswerShown, ZenonT(60)
    <3>3. CallOn(p0)[t] = View(t)
      BY <3>1, CallsShown, ZenonT(60)
    <3>4. OpOf(end[t]) = pc[t]
      BY <2>1, EndFacts, SMT, SMTT(60) DEF OpOf, Sides
    <3>5. answer[t] = "none"
      BY Zenon DEF StreamInv, CallOK
    <3> QED
      BY <3>2, <3>3, <3>4, <3>5, SMT, SMTT(60) DEF View
  <2> QED
    BY <2>4, <2>5, <2>6, <2>7, <2>8, ZenonT(60) DEF Shown
<1>RefuseStream.
      ASSUME IInv, StreamInv, NEW t \in Threads, pc[t] \in {"read", "write"}, NEW a, Reply(t, a),
             UNCHANGED <<used, refs, end, args, buf, head, tail, count>>, NEW p0 \in Pipes,
             p0 = end[t].pipe,
             \/ pc[t] = "read" /\ count[p0] = 0 /\ refs[p0].w = 0 /\ a = "eof"
             \/ pc[t] = "write" /\ refs[p0].r = 0 /\ a = "epipe"
             \/ /\ \/ pc[t] = "read" /\ count[p0] = 0 /\ refs[p0].w # 0
                   \/ pc[t] = "write" /\ refs[p0].r # 0 /\ MustWait(p0, args[t].len)
                /\ a \in {"ecanceled", "eagain"}
      PROVE  StreamInv' /\ \A p \in Pipes : StreamStep(p)
  <2> USE <1>RefuseStream
  <2>1. Shown(t, p0, a)
    <3>1. UNCHANGED <<used, refs, end, args>>
      BY Zenon
    <3> QED
      BY <3>1, <1>Answered, ZenonT(60)
  <2>2. StreamInv'
    BY <2>1, ZenonT(60) DEF StreamInv, Shown
  <2>3. ASSUME NEW p \in Pipes, p # p0 PROVE StreamStep(p)
    <3>1. /\ ~OnPipe(t, p) /\ ~OnPipe(t, p)' /\ SameEnds(p)
          /\ \A u \in Threads : u # t => SameView(u, p)
      BY <2>1, <2>3, ZenonT(60) DEF Shown
    <3>2. buf'[p] = buf[p] /\ tail'[p] = tail[p] /\ count'[p] = count[p]
      BY ZenonT(60)
    <3> QED
      BY <3>1, <3>2, ElsewhereStream, ZenonT(60)
  <2>4. Stream(p0)!Refuse(t)
    <3>1. TypeOK
      BY Zenon DEF IInv
    <3>2. /\ count[p0] = 0 <=> Contents(p0) = <<>>
          /\ Len(Contents(p0)) = count[p0]
      BY <3>1, Queue, ZenonT(60)
    <3>3. Contents(p0)' = Contents(p0)
      BY RingSame, ZenonT(60)
    <3>4. ASSUME MustWait(p0, args[t].len)
          PROVE  \/ Len(Contents(p0)) = Size
                 \/ /\ CallOn(p0)[t].len <= Size
                    /\ Len(Contents(p0)) + CallOn(p0)[t].len > Size
      <4>1. /\ Size \in Nat /\ count[p0] \in Nat /\ args[t].len \in Nat
        BY <3>1, RingFacts, ZenonT(60)
      <4>2. CallOn(p0)[t].len = args[t].len
        BY <2>1, ZenonT(60) DEF Shown
      <4>3. count[p0] = Size \/ (args[t].len <= Size /\ Size - count[p0] < args[t].len)
        BY <3>4, ZenonT(60) DEF MustWait
      <4>4. \A s, c, l \in Nat : s - c < l => c + l > s
        BY SMT, SMTT(60)
      <4> QED
        BY <3>2, <4>1, <4>2, <4>3, <4>4, ZenonT(60)
    <3>5. (refs[p0].r # 0)' = (refs[p0].r # 0) /\ (refs[p0].w # 0)' = (refs[p0].w # 0)
          /\ used'[p0] = used[p0]
      BY Zenon
    <3> QED
      BY <2>1, <3>2, <3>3, <3>4, <3>5, ZenonT(60)
         DEF Stream!Refuse, Stream!Asking, Stream!Answer, Shown
  <2>5. StreamStep(p0)
    BY <2>4, ZenonT(60) DEF StreamStep, Stream!Next
  <2> QED
    BY <2>2, <2>3, <2>5, ZenonT(60)
\* Bytes move through one ring; the other rings stay.
<1>MoveStream.
      ASSUME StreamInv, NEW t \in Threads, NEW p0 \in Pipes, NEW a, Shown(t, p0, a),
             \A p \in Pipes : p # p0 => /\ buf'[p] = buf[p] /\ tail'[p] = tail[p]
                                        /\ count'[p] = count[p] /\ head'[p] = head[p],
             head'[p0] = (tail'[p0] + count'[p0]) % Size, Stream(p0)!Put(t) \/ Stream(p0)!Get(t)
      PROVE  StreamInv' /\ \A p \in Pipes : StreamStep(p)
  <2> USE <1>MoveStream
  <2>1. \A p \in Pipes : head'[p] = (tail'[p] + count'[p]) % Size
    <3> TAKE p \in Pipes
    <3>1. CASE p = p0
      BY <3>1, ZenonT(60)
    <3>2. CASE p # p0
      BY <3>2, ZenonT(60) DEF StreamInv
    <3> QED
      BY <3>1, <3>2, ZenonT(60)
  <2>2. StreamInv'
    BY <2>1, ZenonT(60) DEF StreamInv, Shown
  <2>3. ASSUME NEW p \in Pipes, p # p0 PROVE StreamStep(p)
    <3>1. /\ ~OnPipe(t, p) /\ ~OnPipe(t, p)' /\ SameEnds(p)
          /\ \A u \in Threads : u # t => SameView(u, p)
          /\ buf'[p] = buf[p] /\ tail'[p] = tail[p] /\ count'[p] = count[p]
      BY <2>3, ZenonT(60) DEF Shown
    <3> QED
      BY <3>1, ElsewhereStream, ZenonT(60)
  <2>4. StreamStep(p0)
    BY ZenonT(60) DEF StreamStep, Stream!Next
  <2> QED
    BY <2>2, <2>3, <2>4, ZenonT(60)
<1>HeadStays.
      \A N \in Nat \ {0} : \A t \in 0..(N - 1), c \in 0..N : \A n \in 0..c :
        (((t + n) % N) + (c - n)) % N = (t + c) % N
  <2> TAKE N \in Nat \ {0}
  <2> TAKE t \in 0..(N - 1), c \in 0..N
  <2> TAKE n \in 0..c
  <2>1. PICK x \in Nat, y \in Nat : x = t + n /\ y = c - n
    BY SMT, SMTT(60)
  <2>2. x + y < N + N /\ x + y = t + c
    BY <2>1, SMT, SMTT(60)
  <2>3. ((x % N) + y) % N = (x + y) % N
    BY <2>2, Around, ZenonT(60)
  <2> QED
    BY <2>1, <2>2, <2>3, ZenonT(60)
<1>HeadMoves.
      \A N \in Nat \ {0} : \A t \in 0..(N - 1), c \in 0..N : \A n \in 0..(N - c) :
        (((t + c) % N) + n) % N = (t + (c + n)) % N
  <2> TAKE N \in Nat \ {0}
  <2> TAKE t \in 0..(N - 1), c \in 0..N
  <2> TAKE n \in 0..(N - c)
  <2>1. PICK x \in Nat : x = t + c
    OBVIOUS
  <2>2. n \in Nat /\ x + n < N + N /\ x + n = t + (c + n)
    BY <2>1
  <2>3. ((x % N) + n) % N = (x + n) % N
    BY <2>2, Around, ZenonT(60)
  <2> QED
    BY <2>1, <2>2, <2>3, ZenonT(60)
<1>Lesser.
      \A x \in Nat, y \in Nat :
        Lesser(x, y) \in 0..y /\ Lesser(x, y) = IF x < y THEN x ELSE y
  BY SMT, SMTT(60) DEF Lesser
<1>Positive. \A x \in Nat : x > 0 => x # 0
  BY SMT, SMTT(60)
<1>GetStream.
      ASSUME IInv, StreamInv, NEW t \in Threads, pc[t] = "read", Reply(t, "done"),
             UNCHANGED <<used, refs, end, args, buf, head>>, NEW p0 \in Pipes, p0 = end[t].pipe,
             count[p0] # 0, NEW n, n = Lesser(args[t].len, count[p0]),
             tail' = [tail EXCEPT ![p0] = (@ + n) % Size],
             count' = [count EXCEPT ![p0] = @ - n]
      PROVE  StreamInv' /\ \A p \in Pipes : StreamStep(p)
  <2> USE <1>GetStream
  <2>1. Shown(t, p0, "done")
    <3>1. UNCHANGED <<used, refs, end, args>> /\ pc[t] \in {"read", "write"}
      BY Zenon
    <3> QED
      BY <3>1, <1>Answered, ZenonT(60)
  <2>2. TypeOK
    BY ZenonT(60) DEF IInv
  <2>3. /\ tail'[p0] = (tail[p0] + n) % Size /\ count'[p0] = count[p0] - n
        /\ \A p \in Pipes : p # p0 => tail'[p] = tail[p] /\ count'[p] = count[p]
    BY <2>2, ZenonT(60) DEF TypeOK
  <2>4. /\ Size \in Nat \ {0} /\ count[p0] \in 0..Size /\ tail[p0] \in 0..(Size - 1)
        /\ buf[p0] \in [0..(Size - 1) -> Threads \cup {None}] /\ args[t].len \in Nat
    BY <2>2, RingFacts, ZenonT(60) DEF Indices
  <2>5. /\ n \in 0..count[p0]
        /\ n = IF args[t].len < count[p0] THEN args[t].len ELSE count[p0]
    <3>1. count[p0] \in Nat /\ args[t].len \in Nat
      BY <2>2, RingFacts, ZenonT(60)
    <3> QED
      BY <3>1, <1>Lesser, ZenonT(60)
  <2>6. head'[p0] = (tail'[p0] + count'[p0]) % Size
    <3>1. head[p0] = (tail[p0] + count[p0]) % Size
      BY Zenon DEF StreamInv
    <3>2. (((tail[p0] + n) % Size) + (count[p0] - n)) % Size = (tail[p0] + count[p0]) % Size
      BY <2>4, <2>5, <1>HeadStays, ZenonT(60)
    <3> QED
      BY <2>3, <3>1, <3>2, ZenonT(60)
  <2>7. Contents(p0)' = SubSeq(Contents(p0), n + 1, Len(Contents(p0)))
    <3>1. PICK b, i, c, i2, c2 : /\ b = buf[p0] /\ i = tail[p0] /\ c = count[p0]
                                 /\ i2 = tail'[p0] /\ c2 = count'[p0]
      BY ZenonT(60)
    <3>2. /\ c \in 0..Size /\ i \in 0..(Size - 1) /\ n \in 0..c
          /\ b \in [0..(Size - 1) -> Threads \cup {None}]
          /\ i2 = (i + n) % Size /\ c2 = c - n
      BY <2>3, <2>4, <2>5, <3>1, ZenonT(60)
    <3>3. Bytes(b, (i + n) % Size, c - n, Size)
            = SubSeq(Bytes(b, i, c, Size), n + 1, Len(Bytes(b, i, c, Size)))
      BY <2>4, <3>2, GetBytes, ZenonT(60)
    <3>4. Contents(p0) = Bytes(b, i, c, Size) /\ Contents(p0)' = Bytes(b, i2, c2, Size)
      BY <2>2, <3>1, Queue, ZenonT(60)
    <3> QED
      BY <3>2, <3>3, <3>4, ZenonT(60)
  <2>8. Len(Contents(p0)) = count[p0] /\ Contents(p0) # <<>>
    BY <2>2, Queue, ZenonT(60)
  <2>9. (refs[p0].r # 0)' = (refs[p0].r # 0) /\ (refs[p0].w # 0)' = (refs[p0].w # 0)
        /\ used'[p0] = used[p0]
    BY Zenon
  <2>10. Stream(p0)!Get(t)
    <3>1. PICK m : m = IF CallOn(p0)[t].len < Len(Contents(p0))
                         THEN CallOn(p0)[t].len ELSE Len(Contents(p0))
      BY Zenon
    <3>2. m = n
      BY <2>1, <2>5, <2>8, <3>1, ZenonT(60) DEF Shown
    <3> QED
      BY <2>1, <2>7, <2>8, <2>9, <3>1, <3>2, ZenonT(60)
         DEF Stream!Get, Stream!Asking, Stream!Answer, Shown
  <2>11. \A p \in Pipes : p # p0 => /\ buf'[p] = buf[p] /\ tail'[p] = tail[p]
                                    /\ count'[p] = count[p] /\ head'[p] = head[p]
    BY <2>3, Zenon
  <2> QED
    BY <2>1, <2>6, <2>10, <2>11, <1>MoveStream, ZenonT(60)
<1>PutContents.
      ASSUME TypeOK, NEW p \in Pipes, NEW t \in Threads, NEW n \in 0..(Size - count[p]),
             head[p] = (tail[p] + count[p]) % Size, tail'[p] = tail[p],
             count'[p] = count[p] + n, buf'[p] = Put(buf[p], head[p], n, t, Size)
      PROVE  PutOn(p, t, n)
  <2> USE <1>PutContents
  <2>1. PICK X, N, b, j, c : /\ X = Threads \cup {None} /\ N = Size
                             /\ b = buf[p] /\ j = tail[p] /\ c = count[p]
    BY Zenon
  <2>2. /\ N \in Nat \ {0} /\ b \in [0..(N - 1) -> X] /\ j \in 0..(N - 1) /\ c \in 0..N
        /\ n \in 0..(N - c) /\ t \in X
    BY <2>1, RingFacts, ZenonT(60) DEF Indices
  <2>3. PutShown(b, j, c, n, t, N)
    BY <2>2, PutBytes, ZenonT(60)
  <2>4. /\ Contents(p) = Bytes(b, j, c, N)
        /\ Contents(p)' = Bytes(Put(b, (j + c) % N, n, t, N), j, c + n, N)
    BY <2>1, Queue, ZenonT(60)
  <2> QED
    BY <2>3, <2>4, ZenonT(60) DEF PutShown, PutOn
<1>Room.
      \A N \in Nat \ {0}, l \in Nat : \A c \in 0..N :
        l # 0 /\ ~(c = N \/ (l <= N /\ N - c < l)) =>
          LET n == IF l < N - c THEN l ELSE N - c
          IN  n \in 0..(N - c) /\ n \in 1..(N - c) /\ (l <= N => n = l)
  BY SMT, SMTT(60)
<1>PutStream.
      ASSUME IInv, StreamInv, NEW t \in Threads, pc[t] = "write", Reply(t, "done"),
             UNCHANGED <<used, refs, end, args, tail>>, NEW p0 \in Pipes, p0 = end[t].pipe,
             refs[p0].r # 0, ~MustWait(p0, args[t].len),
             NEW n, n = Lesser(args[t].len, Size - count[p0]),
             buf' = [buf EXCEPT ![p0] = [i \in Indices |-> IF Wrapped(p0, i, n) THEN t ELSE @[i]]],
             head' = [head EXCEPT ![p0] = (@ + n) % Size],
             count' = [count EXCEPT ![p0] = @ + n]
      PROVE  StreamInv' /\ \A p \in Pipes : StreamStep(p)
  <2> USE <1>PutStream
  <2>1. Shown(t, p0, "done")
    <3>1. UNCHANGED <<used, refs, end, args>> /\ pc[t] \in {"read", "write"}
      BY ZenonT(60)
    <3> QED
      BY <3>1, <1>Answered, ZenonT(60)
  <2>2. TypeOK
    BY ZenonT(60) DEF IInv
  <2>3. /\ head'[p0] = (head[p0] + n) % Size /\ count'[p0] = count[p0] + n
        /\ buf'[p0] = [i \in Indices |-> IF Wrapped(p0, i, n) THEN t ELSE buf[p0][i]]
        /\ \A p \in Pipes : p # p0 =>
             buf'[p] = buf[p] /\ head'[p] = head[p] /\ count'[p] = count[p]
    BY <2>2, ZenonT(60) DEF TypeOK
  <2>4. /\ Size \in Nat \ {0} /\ count[p0] \in 0..Size /\ tail[p0] \in 0..(Size - 1)
        /\ buf[p0] \in [0..(Size - 1) -> Threads \cup {None}] /\ args[t].len \in Nat
    BY <2>2, RingFacts, ZenonT(60) DEF Indices
  <2>5. args[t].len # 0 /\ head[p0] = (tail[p0] + count[p0]) % Size
    BY ZenonT(60) DEF StreamInv, CallOK
  <2>6. /\ n \in 0..(Size - count[p0]) /\ n \in 1..(Size - count[p0])
        /\ args[t].len <= Size => n = args[t].len
    BY <2>4, <2>5, <1>Room, ZenonT(60) DEF Lesser, MustWait
  <2>7. head'[p0] = (tail'[p0] + count'[p0]) % Size
    <3>1. (((tail[p0] + count[p0]) % Size) + n) % Size = (tail[p0] + (count[p0] + n)) % Size
      BY <2>4, <2>6, <1>HeadMoves, ZenonT(60)
    <3> QED
      BY <2>3, <2>5, <3>1, ZenonT(60)
  <2>8. Contents(p0)' = Contents(p0) \o [i \in 1..n |-> t]
    <3>1. buf'[p0] = Put(buf[p0], head[p0], n, t, Size)
      BY <2>3, ZenonT(60) DEF Wrapped, Indices, Put
    <3>2. tail'[p0] = tail[p0]
      BY ZenonT(60)
    <3>3. PutOn(p0, t, n)
      BY <2>2, <2>3, <2>5, <2>6, <3>1, <3>2, <1>PutContents, ZenonT(60)
    <3> QED
      BY <3>3, ZenonT(60) DEF PutOn, Repeat
  <2>9. Len(Contents(p0)) = count[p0]
    BY <2>2, Queue, ZenonT(60)
  <2>10. (refs[p0].r # 0)' = (refs[p0].r # 0) /\ (refs[p0].w # 0)' = (refs[p0].w # 0)
         /\ used'[p0] = used[p0]
    BY ZenonT(60)
  <2>11. refs[p0].w # 0
    <3>1. end[t] = EndOf(p0, "w") /\ EndOK(t)
      BY InCall, ZenonT(60) DEF IInv, Calling
    <3>2. HoldingThreads(EndOf(p0, "w")) # {}
      BY <3>1, ThreadHolds, ZenonT(60) DEF Loans
    <3>3. Holders(EndOf(p0, "w")) > 0
      BY <3>2, Held, ZenonT(60)
    <3>4. refs[p0]["w"] = Holders(EndOf(p0, "w"))
      BY ZenonT(60) DEF IInv, RefsExact, Sides
    <3> QED
      BY <3>3, <3>4, HolderSets, <1>Positive, ZenonT(60)
  <2>12. Stream(p0)!Put(t)
    <3>1. n \in 1..(Size - Len(Contents(p0))) /\ (CallOn(p0)[t].len <= Size => n = CallOn(p0)[t].len)
      BY <2>1, <2>6, <2>9, ZenonT(60) DEF Shown
    <3> QED
      BY <2>1, <2>8, <2>10, <2>11, <3>1, ZenonT(60)
         DEF Stream!Put, Stream!Asking, Stream!Answer, Shown
  <2>13. \A p \in Pipes : p # p0 => /\ buf'[p] = buf[p] /\ tail'[p] = tail[p]
                                    /\ count'[p] = count[p] /\ head'[p] = head[p]
    BY <2>3, ZenonT(60)
  <2> QED
    BY <2>1, <2>7, <2>12, <2>13, <1>MoveStream, ZenonT(60)
<1>BlockStream.
      ASSUME IInv, IInv', GoneStep, StreamInv, NEW t \in Threads, CancelOrBlock(t),
             UNCHANGED <<used, refs, end, args, buf, head, tail, count>>,
             NEW p0 \in Pipes, p0 = end[t].pipe,
             \/ pc[t] = "read" /\ count[p0] = 0 /\ refs[p0].w # 0
             \/ pc[t] = "write" /\ refs[p0].r # 0 /\ MustWait(p0, args[t].len)
      PROVE  StreamInv' /\ \A p \in Pipes : StreamStep(p)
  <2> USE <1>BlockStream
  <2>1. \/ \E a \in {"ecanceled", "eagain"} : Reply(t, a)
        \/ UNCHANGED <<pc, answer>>
    BY ZenonT(60) DEF CancelOrBlock
  <2>2. ASSUME NEW a \in {"ecanceled", "eagain"}, Reply(t, a)
        PROVE  StreamInv' /\ \A p \in Pipes : StreamStep(p)
    BY <2>2, <1>RefuseStream, ZenonT(60)
  <2>3. CASE UNCHANGED <<pc, answer>>
    <3>1. Quiet
      BY <2>3, SleepQuiet, ZenonT(60)
    <3> QED
      BY <3>1, QuietStream, ZenonT(60)
  <2> QED
    BY <2>1, <2>2, <2>3, ZenonT(60)
<1>PipeReadStream.
      ASSUME IInv, IInv', GoneStep, StreamInv, NEW t \in Threads, PipeRead(t)
      PROVE  StreamInv' /\ \A p \in Pipes : StreamStep(p)
  <2> USE <1>PipeReadStream
  <2>1. pc[t] = "read" /\ UNCHANGED <<used, refs, end, args>>
    BY ZenonT(60) DEF PipeRead, At
  <2>2. PICK p0 \in Pipes : p0 = end[t].pipe
    BY <2>1, InCall, ZenonT(60)
  <2>3. PICK n : n = Lesser(args[t].len, count[p0])
    BY ZenonT(60)
  <2>4. \/ /\ count[p0] = 0 /\ refs[p0].w = 0 /\ Reply(t, "eof")
           /\ UNCHANGED <<buf, head, tail, count>>
        \/ /\ count[p0] = 0 /\ refs[p0].w # 0 /\ CancelOrBlock(t)
           /\ UNCHANGED <<buf, head, tail, count>>
        \/ /\ count[p0] # 0 /\ tail' = [tail EXCEPT ![p0] = (@ + n) % Size]
           /\ count' = [count EXCEPT ![p0] = @ - n] /\ Reply(t, "done")
           /\ UNCHANGED <<buf, head>>
    BY <2>2, <2>3, ZenonT(60) DEF PipeRead, ring
  <2>5. CASE /\ count[p0] = 0 /\ refs[p0].w = 0 /\ Reply(t, "eof")
             /\ UNCHANGED <<buf, head, tail, count>>
    <3>1. UNCHANGED <<used, refs, end, args, buf, head, tail, count>>
      BY <2>1, <2>5, ZenonT(60)
    <3> QED
      BY <2>1, <2>2, <2>5, <3>1, <1>RefuseStream, ZenonT(60)
  <2>6. CASE /\ count[p0] = 0 /\ refs[p0].w # 0 /\ CancelOrBlock(t)
             /\ UNCHANGED <<buf, head, tail, count>>
    <3>1. UNCHANGED <<used, refs, end, args, buf, head, tail, count>>
      BY <2>1, <2>6, ZenonT(60)
    <3> QED
      BY <2>1, <2>2, <2>6, <3>1, <1>BlockStream, ZenonT(60)
  <2>7. CASE /\ count[p0] # 0 /\ tail' = [tail EXCEPT ![p0] = (@ + n) % Size]
             /\ count' = [count EXCEPT ![p0] = @ - n] /\ Reply(t, "done")
             /\ UNCHANGED <<buf, head>>
    <3>1. UNCHANGED <<used, refs, end, args, buf, head>>
      BY <2>1, <2>7, ZenonT(60)
    <3> QED
      BY <2>1, <2>2, <2>3, <2>7, <3>1, <1>GetStream, ZenonT(60)
  <2> QED
    BY <2>4, <2>5, <2>6, <2>7, ZenonT(60)
<1>PipeWriteStream.
      ASSUME IInv, IInv', GoneStep, StreamInv, NEW t \in Threads, PipeWrite(t)
      PROVE  StreamInv' /\ \A p \in Pipes : StreamStep(p)
  <2> USE <1>PipeWriteStream
  <2>1. pc[t] = "write" /\ UNCHANGED <<used, refs, end, args>>
    BY ZenonT(60) DEF PipeWrite, At
  <2>2. PICK p0 \in Pipes : p0 = end[t].pipe
    BY <2>1, InCall, ZenonT(60)
  <2>3. PICK n : n = Lesser(args[t].len, Size - count[p0])
    BY ZenonT(60)
  <2> DEFINE Moved ==
        /\ refs[p0].r # 0 /\ ~MustWait(p0, args[t].len)
        /\ buf' = [buf EXCEPT ![p0] = [i \in Indices |-> IF Wrapped(p0, i, n) THEN t ELSE @[i]]]
        /\ head' = [head EXCEPT ![p0] = (@ + n) % Size]
        /\ count' = [count EXCEPT ![p0] = @ + n] /\ Reply(t, "done")
        /\ UNCHANGED tail
  <2>4. \/ refs[p0].r = 0 /\ Reply(t, "epipe") /\ UNCHANGED <<buf, head, tail, count>>
        \/ /\ refs[p0].r # 0 /\ MustWait(p0, args[t].len) /\ CancelOrBlock(t)
           /\ UNCHANGED <<buf, head, tail, count>>
        \/ Moved
    BY <2>2, <2>3, ZenonT(60) DEF PipeWrite, ring
  <2>5. CASE refs[p0].r = 0 /\ Reply(t, "epipe") /\ UNCHANGED <<buf, head, tail, count>>
    <3>1. UNCHANGED <<used, refs, end, args, buf, head, tail, count>>
      BY <2>1, <2>5, ZenonT(60)
    <3> QED
      BY <2>1, <2>2, <2>5, <3>1, <1>RefuseStream, ZenonT(60)
  <2>6. CASE /\ refs[p0].r # 0 /\ MustWait(p0, args[t].len) /\ CancelOrBlock(t)
             /\ UNCHANGED <<buf, head, tail, count>>
    <3>1. UNCHANGED <<used, refs, end, args, buf, head, tail, count>>
      BY <2>1, <2>6, ZenonT(60)
    <3> QED
      BY <2>1, <2>2, <2>6, <3>1, <1>BlockStream, ZenonT(60)
  <2>7. CASE Moved
    <3>1. UNCHANGED <<used, refs, end, args, tail>>
      BY <2>1, <2>7, Zenon
    <3> QED
      BY <2>1, <2>2, <2>3, <2>7, <3>1, <1>PutStream, ZenonT(60)
  <2> QED
    BY <2>4, <2>5, <2>6, <2>7, ZenonT(60)
<1> QED
  BY <1>PipeReadStream, <1>PipeWriteStream, ZenonT(60)

-----------------------------------------------------------------------------
(* The refinement. *)

LEMMA StreamNext ==
  ASSUME IInv, StreamInv, ~HandleRaces, [Next]_vars
  PROVE  StreamInv' /\ \A p \in Pipes : StreamStep(p)
<1> DEFINE Goal == StreamInv' /\ \A p \in Pipes : StreamStep(p)
<1>1. IInv' /\ GoneStep
  BY NextKeeps, ZenonT(60)
<1>2. Quiet => Goal
  BY <1>1, QuietStream, ZenonT(60)
<1>3. ASSUME NEW t \in Threads, PipeCall(t) PROVE Goal
  <2>1. \/ \E p \in Pipes : PipeCreate(t, p)
        \/ Quiet
    BY <1>3, QuietSteps, ZenonT(60) DEF PipeCall
  <2> QED
    BY <1>1, <1>2, <2>1, StartStream, ZenonT(60)
<1>4. ASSUME NEW t \in Threads, FdCall(t) PROVE Goal
  <2>1. CASE \E d \in Fds, op \in {"read", "write"} : Borrow(t, d, op)
    BY <1>1, <1>4, <2>1, FdCallKeeps, StartStream, ZenonT(60)
  <2>2. CASE FdReturn(t)
    BY <1>1, <2>2, StartStream, ZenonT(60)
  <2>3. CASE \/ \E d, d2 \in Fds : Dup(t, d, d2)
             \/ \E d \in Fds : Close(t, d)
             \/ PipeFdClose(t)
    BY <1>2, <2>3, QuietSteps, ZenonT(60)
  <2> QED
    BY <1>4, <2>1, <2>2, <2>3, ZenonT(60) DEF FdCall
<1>5. ASSUME NEW t \in Threads, HandleCall(t) \/ SpawnCall(t) PROVE Goal
  BY <1>2, <1>5, QuietSteps, ZenonT(60)
<1>6. ASSUME NEW t \in Threads, PipeRead(t) \/ PipeWrite(t) PROVE Goal
  BY <1>1, <1>6, TransferStream, ZenonT(60)
<1>7. ASSUME NEW q \in Procs, Cancel(q) \/ Exit(q) \/ Reap(q) PROVE Goal
  BY <1>2, <1>7, QuietSteps, ZenonT(60)
<1>8. CASE Idle \/ UNCHANGED vars
  <2>1. UNCHANGED <<pc, answer, used, end, args, buf, head, tail, count>>
    BY <1>8, ZenonT(60) DEF Idle, vars, pipeVars, threadVars
  <2> QED
    BY <1>2, <2>1, SleepQuiet, ZenonT(60)
<1> QED
  BY <1>3, <1>4, <1>5, <1>6, <1>7, <1>8, ZenonT(60) DEF Next

LEMMA StreamInit ==
  Init => StreamInv /\ \A p \in Pipes : Stream(p)!Init
<1> SUFFICES ASSUME Init PROVE StreamInv /\ \A p \in Pipes : Stream(p)!Init
  BY Zenon
<1>1. StreamInv
  <2>1. 0 = (0 + 0) % Size
    BY PipeAssumption, Remainder, SMT, SMTT(60)
  <2>2. \A p \in Pipes : head[p] = (tail[p] + count[p]) % Size
    BY <2>1, ZenonT(60) DEF Init
  <2> QED
    BY <2>2, ZenonT(60) DEF Init, StreamInv, CallOK, InOp
<1>2. ASSUME NEW p \in Pipes PROVE Stream(p)!Init
  <2>1. ~used[p] /\ ~(refs[p].r # 0) /\ ~(refs[p].w # 0) /\ count[p] = 0
    BY ZenonT(60) DEF Init, Sides
  <2>2. Contents(p) = <<>>
    BY <2>1, SMT, SMTT(60) DEF Contents
  <2>3. CallOn(p) = [t \in Threads |-> NoView]
    <3>1. \A t \in Threads : ~OnPipe(t, p)
      BY Zenon DEF Init, OnPipe, InOp
    <3> QED
      BY <3>1, CallsShown, ZenonT(60)
  <2> QED
    BY <2>1, <2>2, <2>3, ZenonT(60) DEF Stream!Init, Stream!NoCall, NoView
<1> QED
  BY <1>1, <1>2, ZenonT(60)

\* Every pipe slot behaves as a byte stream with two ends: the ring of pipe.c, with its
\* counts, loans and wake-ups, implements ByteStream for any buffer size and any lengths,
\* as long as no thread uses or closes a handle a sibling's call is working with.  Bytes
\* come out in the order they went in, a write that fits is never split, end of file and
\* broken pipe are only reported when the other side is gone for good.
THEOREM StreamRefined == ~HandleRaces => (Spec => RefinesByteStream)
<1> SUFFICES ASSUME ~HandleRaces PROVE Spec => RefinesByteStream
  BY Zenon
<1>1. IInv /\ StreamInv /\ [Next]_vars => StreamInv'
  BY StreamNext, ZenonT(60)
<1>2. IInv /\ StreamInv /\ [Next]_vars
        => [\A p \in Pipes : [Stream(p)!Next]_(Stream(p)!vars)]_vars
  BY StreamNext, ZenonT(60) DEF StreamStep
<1> QED
  BY <1>1, <1>2, StreamInit, SpecInvariant, PTL DEF Spec, RefinesByteStream
=============================================================================
