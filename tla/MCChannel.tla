----------------------------- MODULE MCChannel -----------------------------
(* A server, a client that connects, and a child the client may spawn. *)
EXTENDS Channel

CONSTANTS sv, cl, ch, c1, c2, s1, n1

MCCalls == [p \in Procs |->
  CASE p = sv -> {"listen", "recv", "pair", "exit", "cancelled"}
    [] p = cl -> {"surface", "connect", "send", "spawn"}
    [] p = ch -> {"send", "recv", "exit", "cancelled"}]
MCMaxCalls == [p \in Procs |-> CASE p = sv -> 4 [] p = cl -> 3 [] p = ch -> 1]
=============================================================================
