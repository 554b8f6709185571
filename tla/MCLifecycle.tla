----------------------------- MODULE MCLifecycle -----------------------------
(* Small instances of the process lifecycle for TLC. *)
EXTENDS Lifecycle, TLC

CONSTANTS c1, c2, t1, t2, t3, p1, p2, p3

TwoCpus == {c1, c2}
TwoThreads == {t1, t2}
ThreeThreads == {t1, t2, t3}
TwoProcs == {p1, p2}
ThreeProcs == {p1, p2, p3}

ProcCalls == {"spawn", "exit", "kill", "wait"}
ThreadCalls == {"spawn", "thread", "exit", "wait", "cancel", "nomem"}
JobCalls == {"spawn", "kill", "wait", "ctrlz", "suspend"}
ExitCalls == {"thread", "exit"}

\* Cores, thread slots and process slots are interchangeable.
Symmetry == Permutations(Cpus) \cup Permutations(Threads) \cup Permutations(Procs)
=============================================================================
