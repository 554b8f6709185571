------------------------------- MODULE MCPipe -------------------------------
(* A single-threaded shell that makes pipes and spawns a two-threaded child. *)
EXTENDS PipeStream, TLC

CONSTANTS t0, t1, t2, sh, ch, p1, f0, f1

MCProcOf == t0 :> sh @@ t1 :> ch @@ t2 :> ch
MCCalls == sh :> {"pipe", "handle", "spawn"} @@ ch :> {"io", "dup", "close", "cancelled"}
MCMaxCalls == sh :> 0 @@ ch :> 3
Symmetry == {f @@ g : f \in Permutations({t1, t2}), g \in Permutations({f0, f1})}
=============================================================================
