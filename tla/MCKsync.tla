------------------------------ MODULE MCKsync ------------------------------
(* Ksync with three threads, two of them of one process. *)
EXTENDS Ksync, TLC

CONSTANTS t1, t2, t3, p1, p2

MCThreads == {t1, t2, t3}
MCProcs == {p1, p2}
MCProcOf == (t1 :> p1) @@ (t2 :> p1) @@ (t3 :> p2)
=============================================================================
