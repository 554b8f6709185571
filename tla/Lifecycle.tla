------------------------------ MODULE Lifecycle ------------------------------
(***************************************************************************)
(* The life of processes and threads on several cores                       *)
(* (src/kernel/process/process.c): creation, the deferred kill, exit, the   *)
(* hand-off of a dead process to its parent, wait and join, job-control     *)
(* stops, and schedule_locked() with its per-core deferred reclamation.     *)
(*                                                                          *)
(* g_sched_lock is explicit.  A handler that takes and releases it is one   *)
(* action; a handler that enters schedule_locked() keeps it (lock = c)      *)
(* through Reap, Zombie and Switch, exactly as the code holds it across the *)
(* context switch.  The pinned idle kthread of a core is the value Idle of  *)
(* cur[c]: it never exits, is never frozen, and can always be picked.       *)
(***************************************************************************)
EXTENDS Integers, FiniteSets

CONSTANTS
  Cpus,      \* cores
  Threads,   \* slots of thread_table
  Procs,     \* slots of process_table
  Idle,      \* a core's idle kthread
  None,      \* NULL, and running_cpu == -1
  MaxPid,    \* bound on next_pid
  Calls      \* the requests this workload makes

ASSUME ConstantsAssumption ==
  /\ None \notin Cpus \cup Threads \cup Procs
  /\ Idle \notin Threads \cup {None}
  /\ MaxPid \in Nat \ {0}
  /\ IsFiniteSet(Threads)

VARIABLES
  tstate, tproc, tcpu, waitq, joinable, killed, susp, \* struct thread
  pc, want, peer, nproc,                              \* where a thread is in the kernel
  pid, parent, ppid, tlist, live, zombies, pcpu,      \* struct process
  cancelled, ended,
  cur, pendT, pendP,                                  \* struct percpu
  lock, at, dying,                                    \* g_sched_lock, schedule_locked
  nextPid, ctrlz                                      \* next_pid, a ^Z in flight

threadVars == <<tstate, tproc, tcpu, waitq, joinable, killed, susp>>
pathVars   == <<pc, want, peer, nproc>>
famVars    == <<pid, parent, ppid, zombies>>
procVars   == <<famVars, tlist, live, pcpu, cancelled, ended>>
cpuVars    == <<cur, pendT, pendP>>
lockVars   == <<lock, at, dying>>
vars == <<threadVars, pathVars, procVars, cpuVars, lockVars, nextPid, ctrlz>>

TStates == {"unused", "blocked", "ready", "running", "zombie"}
Paths == {"user", "wait", "join", "mkproc", "mkthread", "publish", "ret", "dead"}

\* One program runs, thread t0 of process p0 on core c0; its creator is gone.
Boot(t0, p0, c0) ==
  /\ tstate = [t \in Threads |-> IF t = t0 THEN "running" ELSE "unused"]
  /\ tproc = [t \in Threads |-> IF t = t0 THEN p0 ELSE None]
  /\ tcpu = [t \in Threads |-> IF t = t0 THEN c0 ELSE None]
  /\ waitq = [t \in Threads |-> "none"]
  /\ joinable = [t \in Threads |-> FALSE]
  /\ killed = [t \in Threads |-> FALSE]
  /\ susp = [t \in Threads |-> FALSE]
  /\ pc = [t \in Threads |-> "user"]
  /\ want = [t \in Threads |-> 0]
  /\ peer = [t \in Threads |-> None]
  /\ nproc = [t \in Threads |-> None]
  /\ pid = [p \in Procs |-> IF p = p0 THEN 1 ELSE 0]
  /\ parent = [p \in Procs |-> None]
  /\ ppid = [p \in Procs |-> 0]
  /\ tlist = [p \in Procs |-> IF p = p0 THEN {t0} ELSE {}]
  /\ live = [p \in Procs |-> IF p = p0 THEN 1 ELSE 0]
  /\ zombies = [p \in Procs |-> {}]
  /\ pcpu = [p \in Procs |-> None]
  /\ cancelled = [p \in Procs |-> FALSE]
  /\ ended = [p \in Procs |-> FALSE]
  /\ cur = [c \in Cpus |-> IF c = c0 THEN t0 ELSE Idle]
  /\ pendT = [c \in Cpus |-> None]
  /\ pendP = [c \in Cpus |-> None]
  /\ lock = None /\ at = "free" /\ dying = None
  /\ nextPid = 2 /\ ctrlz = 0

Init == \E t0 \in Threads, p0 \in Procs, c0 \in Cpus : Boot(t0, p0, c0)

-----------------------------------------------------------------------------
(* Helpers *)

\* Thread t executes on core c on kernel path s, whoever else holds the lock.
At(c, t, s) == lock # c /\ cur[c] = t /\ tstate[t] = "running" /\ pc[t] = s

\* The same, and it can take the lock.
In(c, t, s) == lock = None /\ At(c, t, s)

\* spin_lock without spin_unlock: schedule_locked() runs next on core c.
EnterSchedule(c) == lock' = c /\ at' = "reap" /\ dying' = None

\* Threads asleep on process p's child_wait or join_wait.
Asleep(p, q) == {t \in Threads : tproc[t] = p /\ tstate[t] = "blocked" /\ waitq[t] = q}

\* Move every thread of S to READY and off its queue, in the state function f.
Woken(f, S) == [t \in Threads |-> IF t \in S THEN "ready" ELSE f[t]]
Unqueue(S) == waitq' = [t \in Threads |-> IF t \in S THEN "none" ELSE waitq[t]]

\* Is the recorded parent still the process that created p?
ParentIsAlive_AnyOccupant(p) == parent[p] # None /\ pid[parent[p]] # 0 \* Mutant: the recycled slot passes for the parent.
ParentIsAlive(p) ==
  /\ parent[p] # None
  /\ pid[parent[p]] # 0
  /\ pid[parent[p]] = ppid[p]

\* thread_reap_slot on every thread of S: stack freed, slot zeroed.
FreeThreads(S) ==
  /\ tstate' = [t \in Threads |-> IF t \in S THEN "unused" ELSE tstate[t]]
  /\ tproc' = [t \in Threads |-> IF t \in S THEN None ELSE tproc[t]]
  /\ joinable' = [t \in Threads |-> joinable[t] /\ t \notin S]
  /\ killed' = [t \in Threads |-> killed[t] /\ t \notin S]
  /\ susp' = [t \in Threads |-> susp[t] /\ t \notin S]
  /\ UNCHANGED <<tcpu, waitq>>

\* Kernel stacks: those of S are gone, and thread r's system call returns.
Returns(S, r) ==
  /\ pc' = [t \in Threads |-> IF t \in S THEN "user" ELSE IF t = r THEN "ret" ELSE pc[t]]
  /\ want' = [t \in Threads |-> IF t \in S \cup {r} THEN 0 ELSE want[t]]
  /\ peer' = [t \in Threads |-> IF t \in S \cup {r} THEN None ELSE peer[t]]
  /\ nproc' = [t \in Threads |-> IF t \in S THEN None ELSE nproc[t]]

\* The threads nobody joined, minus the ones a core is still about to reap.
Orphans_Unclaimed(p, claimed) == {t \in Threads : tstate[t] = "zombie" /\ tproc[t] = p /\ tcpu[t] = None} \* Mutant: the claim check is missing.
Orphans(p, claimed) ==
  {t \in Threads : /\ tstate[t] = "zombie" /\ tproc[t] = p /\ tcpu[t] = None
                   /\ t \notin claimed}

\* process_reap_slot: the slot of every process of S is zeroed.  Its own list of
\* dead children goes with it; `taken` are the ones unlinked by a wait.
FreeProcs(S, taken) ==
  /\ pid' = [p \in Procs |-> IF p \in S THEN 0 ELSE pid[p]]
  /\ parent' = [p \in Procs |-> IF p \in S THEN None ELSE parent[p]]
  /\ ppid' = [p \in Procs |-> IF p \in S THEN 0 ELSE ppid[p]]
  /\ tlist' = [p \in Procs |-> IF p \in S THEN {} ELSE tlist[p]]
  /\ live' = [p \in Procs |-> IF p \in S THEN 0 ELSE live[p]]
  /\ zombies' = [p \in Procs |-> IF p \in S THEN {} ELSE zombies[p] \ taken]
  /\ cancelled' = [p \in Procs |-> cancelled[p] /\ p \notin S]
  /\ ended' = [p \in Procs |-> ended[p] /\ p \notin S]
  /\ UNCHANGED pcpu

-----------------------------------------------------------------------------
(* The end of a thread: thread_zombie_locked(t), idempotent *)

\* The last thread of its process, counting t out if it is still linked.
IsLast(t) == live[tproc[t]] = IF t \in tlist[tproc[t]] THEN 1 ELSE 0

\* The dead process is handed to its parent by this call.
HandsOff_Unlinked(t) == \* Mutant: only a retry, on a thread already unlinked, hands over.
  /\ t \notin tlist[tproc[t]]
  /\ IsLast(t) /\ ParentIsAlive(tproc[t])
  /\ tproc[t] \notin zombies[parent[tproc[t]]]
HandsOff(t) ==
  /\ IsLast(t) /\ ParentIsAlive(tproc[t])
  /\ tproc[t] \notin zombies[parent[tproc[t]]]

\* Every sleeper thread_zombie_locked(t) wakes.
ZombieWakes_NotParent(t) == IF t \in tlist[tproc[t]] THEN Asleep(tproc[t], "join") ELSE {} \* Mutant: the hand-off does not wake the parent.
ZombieWakes_NotJoiners(t) == IF HandsOff(t) THEN Asleep(parent[tproc[t]], "child") ELSE {} \* Mutant: thread_join is not woken.
ZombieWakes(t) ==
  (IF t \in tlist[tproc[t]] THEN Asleep(tproc[t], "join") ELSE {})
    \cup (IF HandsOff(t) THEN Asleep(parent[tproc[t]], "child") ELSE {})

\* The process to reclaim after the switch, or None.
ZombieLeaves(t) ==
  IF IsLast(t) /\ ~ParentIsAlive(tproc[t]) THEN tproc[t] ELSE None

\* The process-side effects; the caller writes tstate and waitq.
ThreadZombie_Recount(t) == \* Mutant: the count drops on every call.
  LET p == tproc[t] IN
  /\ tlist' = [tlist EXCEPT ![p] = @ \ {t}]
  /\ live' = [live EXCEPT ![p] = @ - 1]
  /\ pcpu' = IF IsLast(t) THEN [pcpu EXCEPT ![p] = tcpu[t]] ELSE pcpu
  /\ zombies' = IF HandsOff(t) THEN [zombies EXCEPT ![parent[p]] = @ \cup {p}] ELSE zombies
ThreadZombie(t) ==
  LET p == tproc[t]
      linked == t \in tlist[p] IN
  /\ tlist' = [tlist EXCEPT ![p] = @ \ {t}]
  /\ live' = IF linked THEN [live EXCEPT ![p] = @ - 1] ELSE live
  /\ pcpu' = IF linked /\ IsLast(t) THEN [pcpu EXCEPT ![p] = tcpu[t]] ELSE pcpu
  /\ zombies' = IF HandsOff(t) THEN [zombies EXCEPT ![parent[p]] = @ \cup {p}] ELSE zombies

-----------------------------------------------------------------------------
(* schedule() and schedule_locked() *)

\* The timer tick, sys_yield, or the tail of thread_exit_self on core c.
Tick(c) ==
  /\ lock = None
  /\ EnterSchedule(c)
  /\ UNCHANGED <<threadVars, pathVars, procVars, cpuVars, nextPid, ctrlz>>

\* Reclaim what this core switched away from the last time it got here.
Reap(c) ==
  /\ lock = c /\ at = "reap"
  /\ LET others == {pendT[d] : d \in Cpus \ {c}}
         mine == {pendT[c]} \cap {t \in Threads : tstate[t] = "zombie"}
         gone == mine \cup (IF pendP[c] = None THEN {} ELSE Orphans(pendP[c], others)) IN
     FreeThreads(gone) /\ Returns(gone, None)
  /\ FreeProcs({pendP[c]} \ {None}, {})
  /\ pendT' = [pendT EXCEPT ![c] = None]
  /\ pendP' = [pendP EXCEPT ![c] = None]
  /\ at' = "zombie"
  /\ UNCHANGED <<cur, lock, dying, nextPid, ctrlz>>

\* A killed thread found in user mode ends here; a dead one is disposed of
\* before the next thread is looked for, so that a woken parent can be picked.
Dies_ZombieOnly(t) == tstate[t] = "zombie" \* Mutant: a killed thread in user mode is not noticed.
Dies(t) == tstate[t] = "zombie" \/ (tstate[t] = "running" /\ killed[t] /\ pc[t] = "user")
Zombie(c) ==
  LET t == cur[c] IN
  /\ lock = c /\ at = "zombie"
  /\ at' = "switch"
  /\ IF t # Idle /\ Dies(t)
     THEN /\ ThreadZombie(t)
          /\ tstate' = [Woken(tstate, ZombieWakes(t)) EXCEPT ![t] = "zombie"]
          /\ Unqueue(ZombieWakes(t))
          /\ pc' = [pc EXCEPT ![t] = "dead"]
          /\ dying' = ZombieLeaves(t)
     ELSE UNCHANGED <<tlist, live, pcpu, zombies, tstate, waitq, pc, dying>>
  /\ UNCHANGED <<tproc, tcpu, joinable, killed, susp, want, peer, nproc, pid, parent,
                 ppid, cancelled, ended, cpuVars, lock, nextPid, ctrlz>>

\* What a policy may pick for core c: any policy picks one of these.
Eligible_AnyRunning(c) == {t \in Threads : ~susp[t] /\ tstate[t] \in {"ready", "running"}} \cup {Idle} \* Mutant: another core's running thread passes.
Eligible(c) ==
  {t \in Threads : /\ ~susp[t]
                   /\ \/ tstate[t] = "ready" /\ tcpu[t] = None
                      \/ t = cur[c] /\ tstate[t] = "running"} \cup {Idle}

\* Kept for thread_join: a joinable thread that is not completing its process.
KeepForJoin(t) == joinable[t] /\ dying = None

\* Pick n; when it is not the current thread, switch to it and release the lock.
Switch(c, n) ==
  LET prev == cur[c]
      dead == prev # Idle /\ tstate[prev] = "zombie" IN
  /\ lock = c /\ at = "switch"
  /\ n \in Eligible(c)
  /\ IF n = prev THEN UNCHANGED <<tstate, tcpu, pcpu, cpuVars>>
     ELSE /\ pendT' = IF dead /\ ~KeepForJoin(prev) THEN [pendT EXCEPT ![c] = prev] ELSE pendT
          /\ pendP' = IF dead /\ ~KeepForJoin(prev) THEN [pendP EXCEPT ![c] = dying] ELSE pendP
          /\ tstate' = [t \in Threads |-> IF t = n THEN "running"
                                          ELSE IF t = prev /\ tstate[t] = "running" THEN "ready"
                                          ELSE tstate[t]]
          /\ tcpu' = [t \in Threads |-> IF t = n THEN c ELSE IF t = prev THEN None ELSE tcpu[t]]
          /\ pcpu' = IF dead /\ live[tproc[prev]] = 0
                     THEN [pcpu EXCEPT ![tproc[prev]] = None] ELSE pcpu
          /\ cur' = [cur EXCEPT ![c] = n]
  /\ lock' = None /\ at' = "free" /\ dying' = None
  /\ UNCHANGED <<tproc, waitq, joinable, killed, susp, pathVars, famVars, tlist, live,
                 cancelled, ended, nextPid, ctrlz>>

-----------------------------------------------------------------------------
(* Creating processes and threads *)

\* process_create_kthread / create_image: reserve a process slot and record
\* the parent.  The caller goes on without the lock.
ProcessAlloc(c, t, p) ==
  /\ "spawn" \in Calls
  /\ In(c, t, "user") /\ pid[p] = 0 /\ nextPid <= MaxPid
  /\ pid' = [pid EXCEPT ![p] = nextPid]
  /\ nextPid' = nextPid + 1
  /\ parent' = [parent EXCEPT ![p] = tproc[t]]
  /\ ppid' = [ppid EXCEPT ![p] = pid[tproc[t]]]
  /\ zombies' = [zombies EXCEPT ![p] = {}]
  /\ tlist' = [tlist EXCEPT ![p] = {}]
  /\ live' = [live EXCEPT ![p] = 0]
  /\ pcpu' = [pcpu EXCEPT ![p] = None]
  /\ cancelled' = [cancelled EXCEPT ![p] = FALSE]
  /\ ended' = [ended EXCEPT ![p] = FALSE]
  /\ pc' = [pc EXCEPT ![t] = "mkproc"]
  /\ nproc' = [nproc EXCEPT ![t] = p]
  /\ UNCHANGED <<threadVars, want, peer, cpuVars, lockVars, ctrlz>>

\* thread_alloc: reserve a thread slot as a BLOCKED placeholder on no queue.
ThreadAlloc(c, t, n) ==
  /\ tstate[n] = "unused"
  /\ tstate' = [tstate EXCEPT ![n] = "blocked"]
  /\ tcpu' = [tcpu EXCEPT ![n] = None]
  /\ peer' = [peer EXCEPT ![t] = n]
  /\ pc' = [pc EXCEPT ![t] = "mkthread"]

\* The first thread of a new process, or the undo when the table is full.
FirstThreadAlloc(c, t) ==
  /\ In(c, t, "mkproc")
  /\ \/ /\ \E n \in Threads : ThreadAlloc(c, t, n)
        /\ UNCHANGED <<pid, nproc>>
     \/ /\ \A n \in Threads : tstate[n] # "unused"
        /\ pid' = [pid EXCEPT ![nproc[t]] = 0]
        /\ pc' = [pc EXCEPT ![t] = "ret"]
        /\ nproc' = [nproc EXCEPT ![t] = None]
        /\ UNCHANGED <<tstate, tcpu, peer>>
  /\ UNCHANGED <<tproc, waitq, joinable, killed, susp, want, parent, ppid, zombies, tlist,
                 live, pcpu, cancelled, ended, cpuVars, lockVars, nextPid, ctrlz>>

\* thread_create_user: another, joinable, thread of the calling process.
ThreadCreateUser(c, t) ==
  /\ "thread" \in Calls
  /\ In(c, t, "user")
  /\ \E n \in Threads : ThreadAlloc(c, t, n)
  /\ nproc' = [nproc EXCEPT ![t] = tproc[t]]
  /\ UNCHANGED <<tproc, waitq, joinable, killed, susp, want, procVars, cpuVars, lockVars,
                 nextPid, ctrlz>>

\* thread_init_for: the slot is filled in and linked onto the process.
ThreadInitFor(c, t) ==
  LET n == peer[t]
      p == nproc[t] IN
  /\ In(c, t, "mkthread")
  /\ tproc' = [tproc EXCEPT ![n] = p]
  /\ joinable' = [joinable EXCEPT ![n] = (p = tproc[t])]
  /\ killed' = [killed EXCEPT ![n] = FALSE]
  /\ susp' = [susp EXCEPT ![n] = FALSE]
  /\ waitq' = [waitq EXCEPT ![n] = "none"]
  /\ tlist' = [tlist EXCEPT ![p] = @ \cup {n}]
  /\ live' = [live EXCEPT ![p] = @ + 1]
  /\ pc' = [pc EXCEPT ![t] = "publish", ![n] = "user"]
  /\ UNCHANGED <<tstate, tcpu, want, peer, nproc, famVars, pcpu, cancelled, ended, cpuVars,
                 lockVars, nextPid, ctrlz>>

\* No kernel stack: the reservations are undone.
ThreadInitFails(c, t) ==
  /\ "nomem" \in Calls
  /\ At(c, t, "mkthread")
  /\ tstate' = [tstate EXCEPT ![peer[t]] = "unused"]
  /\ pid' = IF nproc[t] = tproc[t] THEN pid ELSE [pid EXCEPT ![nproc[t]] = 0]
  /\ pc' = [pc EXCEPT ![t] = "ret"]
  /\ peer' = [peer EXCEPT ![t] = None]
  /\ nproc' = [nproc EXCEPT ![t] = None]
  /\ UNCHANGED <<tproc, tcpu, waitq, joinable, killed, susp, want, parent, ppid, zombies,
                 tlist, live, pcpu, cancelled, ended, cpuVars, lockVars, nextPid, ctrlz>>

\* The creator's last step: the thread becomes schedulable.
Publish(c, t) ==
  /\ At(c, t, "publish")
  /\ tstate' = [tstate EXCEPT ![peer[t]] = "ready"]
  /\ pc' = [pc EXCEPT ![t] = "ret"]
  /\ peer' = [peer EXCEPT ![t] = None]
  /\ nproc' = [nproc EXCEPT ![t] = None]
  /\ UNCHANGED <<tproc, tcpu, waitq, joinable, killed, susp, want, procVars,
                 cpuVars, lockVars, nextPid, ctrlz>>

\* syscall exit: a killed thread goes no further.  The ZOMBIE store of
\* thread_die_killed is made before the lock is taken.
SyscallExit(c, t) ==
  /\ At(c, t, "ret")
  /\ pc' = [pc EXCEPT ![t] = IF killed[t] THEN "dead" ELSE "user"]
  /\ tstate' = [tstate EXCEPT ![t] = IF killed[t] THEN "zombie" ELSE @]
  /\ UNCHANGED <<tproc, tcpu, waitq, joinable, killed, susp, want, peer, nproc, procVars,
                 cpuVars, lockVars, nextPid, ctrlz>>

-----------------------------------------------------------------------------
(* Waiting for a child and joining a thread *)

\* wait_queue_block on the caller's own thread, then schedule_locked().
Block_Unlocks(c, t, q) == \* Mutant: the lock is dropped before the switch.
  /\ tstate' = [tstate EXCEPT ![t] = "blocked"]
  /\ tcpu' = [tcpu EXCEPT ![t] = None]
  /\ waitq' = [waitq EXCEPT ![t] = q]
  /\ UNCHANGED lockVars
Block(c, t, q) ==
  /\ tstate' = [tstate EXCEPT ![t] = "blocked"]
  /\ tcpu' = [tcpu EXCEPT ![t] = None]
  /\ waitq' = [waitq EXCEPT ![t] = q]
  /\ EnterSchedule(c)

\* A process some thread is still assembling: no handle names it yet.
Unborn(p) == \E t \in Threads : nproc[t] = p /\ tproc[t] # p

\* The handles of process p: the children it created and published.
ChildOf(q, p) == pid[q] # 0 /\ parent[q] = p /\ ppid[q] = pid[p] /\ ~Unborn(q)

\* sys_wait: the handle names a child of this process.
CallWait(c, t, q) ==
  /\ "wait" \in Calls
  /\ In(c, t, "user") /\ ChildOf(q, tproc[t])
  /\ pc' = [pc EXCEPT ![t] = "wait"]
  /\ want' = [want EXCEPT ![t] = pid[q]]
  /\ UNCHANGED <<threadVars, peer, nproc, procVars, cpuVars, lockVars, nextPid, ctrlz>>

\* process_find(want), and the dead child on the caller's own list.
Target(t) == {q \in Procs : pid[q] = want[t]}
DeadTarget(t) == {q \in zombies[tproc[t]] : pid[q] = want[t]}

\* Every live thread of the target is frozen.
Stopped(q) ==
  LET alive == {u \in tlist[q] : tstate[u] \notin {"zombie", "unused"}} IN
  live[q] > 0 /\ alive # {} /\ \A u \in alive : susp[u]

\* process_wait found its child on the zombie list: collect it.
WaitCollect(c, t, q) ==
  /\ In(c, t, "wait") /\ q \in DeadTarget(t)
  /\ pcpu[q] = None
  /\ LET gone == Orphans(q, {pendT[d] : d \in Cpus}) IN FreeThreads(gone) /\ Returns(gone, t)
  /\ FreeProcs({q}, {q})
  /\ UNCHANGED <<cpuVars, lockVars, nextPid, ctrlz>>

\* ECANCELED, ECHILD and ESTOPPED, in the order process_wait tests them.
WaitRefuses(c, t) ==
  /\ In(c, t, "wait") /\ DeadTarget(t) = {}
  /\ \/ cancelled[tproc[t]]
     \/ \A q \in Target(t) : parent[q] # tproc[t]
     \/ \E q \in Target(t) : Stopped(q)
  /\ Returns({}, t)
  /\ UNCHANGED <<threadVars, procVars, cpuVars, lockVars, nextPid, ctrlz>>

\* The child is alive: sleep on child_wait and look again when woken.
WaitBlocks(c, t) ==
  /\ In(c, t, "wait") /\ DeadTarget(t) = {}
  /\ ~cancelled[tproc[t]]
  /\ \E q \in Target(t) : parent[q] = tproc[t] /\ ~Stopped(q)
  /\ Block(c, t, "child")
  /\ UNCHANGED <<tproc, joinable, killed, susp, pathVars, procVars, cpuVars, nextPid, ctrlz>>

\* sys_thread_join on a sibling's tid.
CallJoin(c, t, u) ==
  /\ "thread" \in Calls
  /\ In(c, t, "user") /\ u # t
  /\ tproc[u] = tproc[t] /\ joinable[u]
  /\ pc' = [pc EXCEPT ![t] = "join"]
  /\ peer' = [peer EXCEPT ![t] = u]
  /\ UNCHANGED <<threadVars, want, nproc, procVars, cpuVars, lockVars, nextPid, ctrlz>>

\* thread_by_tid: the slot still holds a joinable thread of this process.
Joins(t) == LET u == peer[t] IN tproc[u] = tproc[t] /\ tstate[u] # "unused" /\ joinable[u]

\* The joined thread is dead and off its core: collect it.
JoinCollect_StillRunning(c, t) == \* Mutant: the running_cpu check is missing.
  /\ In(c, t, "join") /\ Joins(t)
  /\ tstate[peer[t]] = "zombie"
  /\ FreeThreads({peer[t]}) /\ Returns({peer[t]}, t)
  /\ UNCHANGED <<procVars, cpuVars, lockVars, nextPid, ctrlz>>
JoinCollect(c, t) ==
  /\ In(c, t, "join") /\ Joins(t)
  /\ tstate[peer[t]] = "zombie" /\ tcpu[peer[t]] = None
  /\ FreeThreads({peer[t]}) /\ Returns({peer[t]}, t)
  /\ UNCHANGED <<procVars, cpuVars, lockVars, nextPid, ctrlz>>

\* EINVAL and ECANCELED.
JoinRefuses(c, t) ==
  /\ In(c, t, "join")
  /\ ~Joins(t) \/ (tstate[peer[t]] # "zombie" /\ cancelled[tproc[t]])
  /\ Returns({}, t)
  /\ UNCHANGED <<threadVars, procVars, cpuVars, lockVars, nextPid, ctrlz>>

JoinBlocks_IgnoresCancel(c, t) == \* Mutant: the cancelled check is missing.
  /\ In(c, t, "join") /\ Joins(t)
  /\ tstate[peer[t]] # "zombie"
  /\ Block(c, t, "join")
  /\ UNCHANGED <<tproc, joinable, killed, susp, pathVars, procVars, cpuVars, nextPid, ctrlz>>
JoinBlocks(c, t) ==
  /\ In(c, t, "join") /\ Joins(t)
  /\ tstate[peer[t]] # "zombie" /\ ~cancelled[tproc[t]]
  /\ Block(c, t, "join")
  /\ UNCHANGED <<tproc, joinable, killed, susp, pathVars, procVars, cpuVars, nextPid, ctrlz>>

-----------------------------------------------------------------------------
(* Exit, kill, cancel, stop *)

\* thread_exit_self: the unlocked ZOMBIE store; schedule() follows as Tick.
ThreadExitSelf(c, t) ==
  /\ "thread" \in Calls
  /\ At(c, t, "user")
  /\ tstate' = [tstate EXCEPT ![t] = "zombie"]
  /\ pc' = [pc EXCEPT ![t] = "dead"]
  /\ UNCHANGED <<tproc, tcpu, waitq, joinable, killed, susp, want, peer, nproc, procVars,
                 cpuVars, lockVars, nextPid, ctrlz>>

\* end_every_thread_locked, the part every caller shares: every thread but the
\* caller's own is flagged, unfrozen, and woken if it sleeps on a queue.
Victims(p, t) == {u \in tlist[p] : u # t /\ tstate[u] # "zombie"}
Roused(p, t) == {u \in Victims(p, t) : tstate[u] = "blocked" /\ waitq[u] # "none"}
FlagThreads(p, t) ==
  /\ killed' = [u \in Threads |-> killed[u] \/ u \in Victims(p, t)]
  /\ susp' = [u \in Threads |-> susp[u] /\ u \notin Victims(p, t)]
  /\ cancelled' = [cancelled EXCEPT ![p] = TRUE]
  /\ ended' = [ended EXCEPT ![p] = TRUE]

\* process_exit_self, or a process killing itself: the caller's own thread is
\* the last to go and never returns.
ProcessExitSelf(c, t) ==
  LET p == tproc[t]
      woken == Roused(p, t) \cup ZombieWakes(t) IN
  /\ "exit" \in Calls
  /\ In(c, t, "user")
  /\ FlagThreads(p, t)
  /\ ThreadZombie(t)
  /\ tstate' = [Woken(tstate, woken) EXCEPT ![t] = "zombie"]
  /\ Unqueue(woken)
  /\ pc' = [pc EXCEPT ![t] = "dead"]
  /\ EnterSchedule(c)
  /\ UNCHANGED <<tproc, tcpu, joinable, want, peer, nproc, pid, parent, ppid, cpuVars,
                 nextPid, ctrlz>>

\* process_kill_code on another process: sys_kill, a session's end, a window closed.
ProcessKill(c, t, p) ==
  /\ "kill" \in Calls
  /\ In(c, t, "user")
  /\ pid[p] # 0 /\ live[p] # 0 /\ p # tproc[t]
  /\ FlagThreads(p, None)
  /\ tstate' = Woken(tstate, Roused(p, None))
  /\ Unqueue(Roused(p, None))
  /\ pc' = [pc EXCEPT ![t] = "ret"]
  /\ UNCHANGED <<tproc, tcpu, joinable, want, peer, nproc, famVars, tlist, live, pcpu,
                 cpuVars, lockVars, nextPid, ctrlz>>

\* process_cancel: the sticky flag, and a wake for every sleeper.
ProcessCancel(c, t, p) ==
  /\ "cancel" \in Calls
  /\ In(c, t, "user")
  /\ pid[p] # 0 /\ live[p] # 0
  /\ cancelled' = [cancelled EXCEPT ![p] = TRUE]
  /\ tstate' = Woken(tstate, Roused(p, None))
  /\ Unqueue(Roused(p, None))
  /\ pc' = [pc EXCEPT ![t] = "ret"]
  /\ UNCHANGED <<tproc, tcpu, joinable, killed, susp, want, peer, nproc, famVars, tlist,
                 live, pcpu, ended, cpuVars, lockVars, nextPid, ctrlz>>

\* sys_suspend on a child, both ways: every linked thread is frozen or thawed.
SysSuspend(c, t, q, val) ==
  /\ "suspend" \in Calls
  /\ In(c, t, "user") /\ ChildOf(q, tproc[t])
  /\ susp' = [u \in Threads |-> IF u \in tlist[q] THEN val ELSE susp[u]]
  /\ pc' = [pc EXCEPT ![t] = "ret"]
  /\ UNCHANGED <<tstate, tproc, tcpu, waitq, joinable, killed, want, peer, nproc, procVars,
                 cpuVars, lockVars, nextPid, ctrlz>>

\* ^Z in the keyboard interrupt: freeze the routed child, and then, under a
\* second hold of the lock, wake whoever waits in its parent.
CtrlZ(q) ==
  /\ "ctrlz" \in Calls
  /\ lock = None /\ ctrlz = 0
  /\ pid[q] # 0 /\ parent[q] # None
  /\ \E u \in tlist[q] : ~susp[u]
  /\ susp' = [u \in Threads |-> susp[u] \/ u \in tlist[q]]
  /\ ctrlz' = ppid[q]
  /\ UNCHANGED <<tstate, tproc, tcpu, waitq, joinable, killed, pathVars, procVars, cpuVars,
                 lockVars, nextPid>>

CtrlZWake_Nobody == \* Mutant: the router is not woken.
  /\ lock = None /\ ctrlz # 0
  /\ ctrlz' = 0
  /\ UNCHANGED <<threadVars, pathVars, procVars, cpuVars, lockVars, nextPid>>
CtrlZWake ==
  LET woken == UNION {Asleep(p, "child") : p \in {x \in Procs : pid[x] = ctrlz}} IN
  /\ lock = None /\ ctrlz # 0
  /\ tstate' = Woken(tstate, woken)
  /\ Unqueue(woken)
  /\ ctrlz' = 0
  /\ UNCHANGED <<tproc, tcpu, joinable, killed, susp, pathVars, procVars, cpuVars, lockVars,
                 nextPid>>

-----------------------------------------------------------------------------
(* The specification *)

Schedule(c) == Tick(c) \/ Reap(c) \/ Zombie(c) \/ \E n \in Threads \cup {Idle} : Switch(c, n)

\* A system call in progress.
KernelStep(c, t) ==
  \/ FirstThreadAlloc(c, t) \/ ThreadInitFor(c, t) \/ ThreadInitFails(c, t) \/ Publish(c, t)
  \/ SyscallExit(c, t)
  \/ (\E q \in Procs : WaitCollect(c, t, q)) \/ WaitRefuses(c, t) \/ WaitBlocks(c, t)
  \/ JoinCollect(c, t) \/ JoinRefuses(c, t) \/ JoinBlocks(c, t)

\* A system call made by a program.
UserStep(c, t) ==
  \/ ThreadCreateUser(c, t) \/ ThreadExitSelf(c, t) \/ ProcessExitSelf(c, t)
  \/ \E u \in Threads : CallJoin(c, t, u)
  \/ \E p \in Procs :
       \/ ProcessAlloc(c, t, p) \/ CallWait(c, t, p)
       \/ ProcessKill(c, t, p) \/ ProcessCancel(c, t, p)
       \/ \E val \in BOOLEAN : SysSuspend(c, t, p, val)

Next ==
  \/ \E c \in Cpus : Schedule(c)
  \/ \E c \in Cpus, t \in Threads : KernelStep(c, t) \/ UserStep(c, t)
  \/ (\E q \in Procs : CtrlZ(q)) \/ CtrlZWake

Spec == Init /\ [][Next]_vars

\* A core that spins for the lock gets it, the policy starves no READY thread
\* (priority aging), and a thread that is dispatched gets somewhere.
Fairness ==
  /\ \A c \in Cpus : SF_vars(Tick(c)) /\ WF_vars(Reap(c)) /\ WF_vars(Zombie(c))
  /\ \A c \in Cpus : WF_vars(\E n \in Threads \cup {Idle} : Switch(c, n))
  /\ \A t \in Threads : SF_vars(\E c \in Cpus : Switch(c, t))
  /\ \A t \in Threads : SF_vars(\E c \in Cpus : KernelStep(c, t))
  /\ SF_vars(CtrlZWake)
FairSpec == Spec /\ Fairness

-----------------------------------------------------------------------------
(* Properties *)

\* Every variable keeps its type.
TypeOK ==
  /\ tstate \in [Threads -> TStates]
  /\ tproc \in [Threads -> Procs \cup {None}]
  /\ tcpu \in [Threads -> Cpus \cup {None}]
  /\ waitq \in [Threads -> {"none", "child", "join"}]
  /\ joinable \in [Threads -> BOOLEAN]
  /\ killed \in [Threads -> BOOLEAN]
  /\ susp \in [Threads -> BOOLEAN]
  /\ pc \in [Threads -> Paths]
  /\ want \in [Threads -> Nat]
  /\ peer \in [Threads -> Threads \cup {None}]
  /\ nproc \in [Threads -> Procs \cup {None}]
  /\ pid \in [Procs -> Nat]
  /\ parent \in [Procs -> Procs \cup {None}]
  /\ ppid \in [Procs -> Nat]
  /\ tlist \in [Procs -> SUBSET Threads]
  /\ live \in [Procs -> Nat]
  /\ zombies \in [Procs -> SUBSET Procs]
  /\ pcpu \in [Procs -> Cpus \cup {None}]
  /\ cancelled \in [Procs -> BOOLEAN]
  /\ ended \in [Procs -> BOOLEAN]
  /\ cur \in [Cpus -> Threads \cup {Idle}]
  /\ pendT \in [Cpus -> Threads \cup {None}]
  /\ pendP \in [Cpus -> Procs \cup {None}]
  /\ lock \in Cpus \cup {None}
  /\ at \in {"free", "reap", "zombie", "switch"}
  /\ dying \in Procs \cup {None}
  /\ nextPid \in Nat /\ ctrlz \in Nat

\* No thread is executed by two cores at once: two cores on one kernel stack
\* is the corruption every comment around schedule_locked() is about.
OneCorePerThread ==
  \A c, d \in Cpus : c # d /\ cur[c] = cur[d] => cur[c] = Idle

\* What a core is executing on is not reclaimed under it: its thread slot has
\* not been freed or handed to a new thread, its process has not been freed,
\* and neither is queued for reclamation by any core.
NothingInUseIsReclaimed ==
  \A c \in Cpus : cur[c] # Idle =>
    LET t == cur[c] IN
    /\ tstate[t] \in {"running", "zombie"} \/ lock = c
    /\ tstate[t] # "unused"
    /\ tproc[t] # None /\ pid[tproc[t]] # 0
    /\ \A d \in Cpus : pendT[d] # t /\ pendP[d] # tproc[t]

\* The per-core reclamation slots own what they name: a dead thread off every
\* core, a process with no thread left that no parent can collect, and no two
\* cores name the same one.
ReclaimedOnce ==
  /\ \A c \in Cpus : pendT[c] # None => tstate[pendT[c]] = "zombie" /\ tcpu[pendT[c]] = None
  /\ \A c \in Cpus : pendP[c] # None =>
       /\ pid[pendP[c]] # 0 /\ live[pendP[c]] = 0 /\ tlist[pendP[c]] = {}
       /\ \A p \in Procs : pendP[c] \notin zombies[p]
  /\ \A c, d \in Cpus : c # d =>
       /\ pendT[c] = pendT[d] => pendT[c] = None
       /\ pendP[c] = pendP[d] => pendP[c] = None

\* live_thread_count counts the linked threads, each of which is a used slot of
\* that very process: the count that decides "the process is over" never drifts,
\* although thread_zombie_locked runs once or twice for each death.
LiveCountExact ==
  \A p \in Procs :
    /\ live[p] = Cardinality(tlist[p])
    /\ \A t \in tlist[p] : tproc[t] = p /\ tstate[t] # "unused"
    /\ live[p] # 0 => pid[p] # 0

\* An exit is never lost: a process whose threads are all gone and whose creator
\* still exists is on that creator's zombie list, where process_wait finds it.
ExitReachesParent ==
  \A p \in Procs :
    pid[p] # 0 /\ live[p] = 0 /\ ~Unborn(p) /\ ParentIsAlive(p) => p \in zombies[parent[p]]

\* A zombie list holds only finished children of its owner, never a process
\* whose creator's slot was since given to someone else.
ZombiesAreOwn ==
  \A p \in Procs : \A z \in zombies[p] :
    /\ parent[z] = p /\ ppid[z] = pid[p]
    /\ pid[z] # 0 /\ live[z] = 0 /\ ~Unborn(z)

\* Nobody sleeps through the event it waits for: while a thread is asleep in
\* process_wait its child is not collectable, and while one is asleep in
\* thread_join its sibling is not.
NoLostWakeup ==
  \A t \in Threads : tstate[t] = "blocked" =>
    /\ waitq[t] = "child" => DeadTarget(t) = {} /\ Target(t) # {}
    /\ waitq[t] = "join" => Joins(t) /\ (tstate[peer[t]] = "zombie" => peer[t] \in tlist[tproc[t]])

\* No thread of a cancelled or killed process sleeps in process_wait or
\* thread_join, so a kill reaches every one of them.
CancelledNeverSleeps ==
  \A t \in Threads : tstate[t] = "blocked" /\ waitq[t] # "none" =>
    ~killed[t] /\ ~cancelled[tproc[t]]

\* ^Z brings the parent back: while the router sleeps in process_wait, its
\* child is not stopped, unless the interrupt is about to wake it.
StopReachesWaiter ==
  \A t \in Threads : tstate[t] = "blocked" /\ waitq[t] = "child" =>
    \A q \in Target(t) : Stopped(q) => ctrlz = pid[tproc[t]]

\* Once a process has been ended, every thread it still has is flagged: "END THE
\* WHOLE PROCESS: every thread of `proc`, whoever asked."
EndedIsEnded ==
  \A p \in Procs : ended[p] => \A t \in tlist[p] : killed[t] \/ tstate[t] = "zombie"

\* A finished process can still be reclaimed: it is on the zombie list of a
\* living creator, or a core is about to free it.
NeverUnreclaimable ==
  \A p \in Procs : pid[p] # 0 /\ live[p] = 0 /\ ~Unborn(p) =>
    \/ ParentIsAlive(p)
    \/ dying = p \/ \E c \in Cpus : pendP[c] = p \/ (cur[c] # Idle /\ tproc[cur[c]] = p)

\* A killed thread dies, whatever it was doing and wherever it was, unless a
\* stop freezes it again.
KilledDies ==
  \A t \in Threads : killed[t] ~> tstate[t] \in {"zombie", "unused"} \/ susp[t]

\* The parent of a killed process comes back from process_wait, with its status
\* or with the news that it is stopped.
KilledIsCollected ==
  \A t \in Threads, q \in Procs :
    (pc[t] = "wait" /\ want[t] = pid[q] /\ ended[q]) ~> pc[t] # "wait"
=============================================================================
