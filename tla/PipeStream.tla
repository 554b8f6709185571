----------------------------- MODULE PipeStream -----------------------------
(***************************************************************************)
(* Pipe as an implementation of ByteStream: the refinement mapping.        *)
(***************************************************************************)
EXTENDS Pipe

Contents(p) == [i \in 1..count[p] |-> buf[p][(tail[p] + i - 1) % Size]]

CallOn(p) ==
  [t \in Threads |->
     IF pc[t] \in {"read", "write", "return"} /\ end[t].pipe = p
       THEN [op |-> OpOf(end[t]),
             len |-> args[t].len,
             answer |-> answer[t]]
       ELSE [op |-> "none", len |-> 0, answer |-> "none"]]

Stream(p) ==
  INSTANCE ByteStream WITH
    Capacity <- Size, live <- used[p], queue <- Contents(p),
    readable <- refs[p].r # 0, writable <- refs[p].w # 0, call <- CallOn(p)

\* Every pipe slot behaves as a byte stream: the ring of pipe.c with its
\* counts, loans and wake-ups implements ByteStream.
RefinesByteStream ==
  /\ \A p \in Pipes : Stream(p)!Init
  /\ [][\A p \in Pipes : [Stream(p)!Next]_(Stream(p)!vars)]_vars
=============================================================================
