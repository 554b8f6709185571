---------------------------- MODULE LifecycleInv ----------------------------
(***************************************************************************)
(* The inductive invariant of Lifecycle, one formula per data structure of *)
(* process.c: the scheduler lock, the cores, the thread slots, the thread  *)
(* lists, the reclamation slots, the pids, the families, the slots under   *)
(* construction and the sleepers.  It holds of every workload.             *)
(***************************************************************************)
EXTENDS Lifecycle

\* Thread t is on the list of its process.
Linked(t) == tproc[t] \in Procs /\ t \in tlist[tproc[t]]

\* Kernel paths on which a process or a thread is under construction.
Reserving == {"mkthread", "publish"}
Making == {"mkproc"} \cup Reserving

\* g_sched_lock is held while schedule_locked() is under way; by the time it
\* picks a thread, a dead one has left its list.
LockInv ==
  /\ at = "free" <=> lock = None
  /\ at = "switch" /\ cur[lock] # Idle /\ tstate[cur[lock]] = "zombie" => ~Linked(cur[lock])

\* A process is reclaimed on behalf of the dead thread that ended it.
DyingInv ==
  dying # None =>
    /\ at = "switch" /\ cur[lock] # Idle
    /\ tstate[cur[lock]] = "zombie" /\ tproc[cur[lock]] = dying
    /\ tlist[dying] = {} /\ ~ParentIsAlive(dying)

\* The thread of a core runs, has died and not been switched away from, or is on
\* its way to sleep under the lock.
CurState(c, t) ==
  \/ tstate[t] \in {"running", "zombie"} /\ tcpu[t] = c
  \/ tstate[t] = "blocked" /\ tcpu[t] = None /\ lock = c /\ waitq[t] # "none"

\* The slot of p belongs to a process that nobody is making or reclaiming.
InUse(p) ==
  /\ p \in Procs /\ pid[p] # 0 /\ ~Unborn(p)
  /\ \A d \in Cpus : pendP[d] # p

CurOK(c) ==
  cur[c] # Idle =>
    /\ CurState(c, cur[c])
    /\ Linked(cur[c]) \/ (tstate[cur[c]] = "zombie" /\ lock = c)
    /\ InUse(tproc[cur[c]])
CurInv == \A c \in Cpus : CurOK(c)

CpuOK(t) ==
  /\ tcpu[t] # None => cur[tcpu[t]] = t
  /\ tstate[t] = "running" => tcpu[t] # None
CpuInv == \A t \in Threads : CpuOK(t)

\* A thread slot in each state of its life.
SlotOK(t) ==
  /\ tstate[t] = "unused" => tproc[t] = None /\ tcpu[t] = None
  /\ waitq[t] # "none" => tstate[t] = "blocked"
  /\ tstate[t] \in {"ready", "running"} \/ waitq[t] # "none" => Linked(t)
  /\ tstate[t] = "zombie" /\ Linked(t) => tcpu[t] # None
SlotInv == \A t \in Threads : SlotOK(t)

\* Where a thread is in the kernel, and what it holds there.
PathOK(t) ==
  /\ waitq[t] = "child" => pc[t] = "wait"
  /\ waitq[t] = "join" => pc[t] = "join"
  /\ pc[t] \in Making => tstate[t] \in {"ready", "running"}
  /\ pc[t] \in {"wait", "join"} => tstate[t] \in {"ready", "running"} \/ waitq[t] # "none"
  /\ nproc[t] # None <=> pc[t] \in Making
  /\ pc[t] \in Reserving \cup {"join"} => peer[t] # None
PathInv == \A t \in Threads : PathOK(t)

KillInv == \A t \in Threads : killed[t] /\ Linked(t) => cancelled[tproc[t]]

\* A list holds threads of its process, which is a process as long as it has any.
ListOK(p) ==
  /\ \A t \in tlist[p] : tproc[t] = p /\ tstate[t] # "unused"
  /\ tlist[p] # {} => pid[p] # 0
ListInv == \A p \in Procs : ListOK(p)
CountInv == \A p \in Procs : live[p] = Cardinality(tlist[p])

\* What a core is about to reclaim is out of everybody's reach.
PendTOK(c) ==
  pendT[c] # None =>
    /\ tstate[pendT[c]] = "zombie" /\ tcpu[pendT[c]] = None
    /\ joinable[pendT[c]] => pendP[c] = tproc[pendT[c]]
PendPOK(c) ==
  pendP[c] # None =>
    /\ pid[pendP[c]] # 0 /\ tlist[pendP[c]] = {}
    /\ ~ParentIsAlive(pendP[c]) /\ ~Unborn(pendP[c])
PendInv ==
  /\ \A c \in Cpus : PendTOK(c) /\ PendPOK(c)
  /\ \A c, d \in Cpus : c # d =>
       /\ pendT[c] = pendT[d] => pendT[c] = None
       /\ pendP[c] = pendP[d] => pendP[c] = None

\* Pids are given out once.
PidInv ==
  /\ \A p \in Procs : pid[p] < nextPid /\ ppid[p] < nextPid
  /\ \A p, q \in Procs : pid[p] = pid[q] /\ pid[p] # 0 => p = q
  /\ \A t \in Threads : want[t] < nextPid

\* The zombie list of p holds its finished children, and all of them.
DeadChild(z, p) ==
  /\ z \in Procs /\ parent[z] = p /\ ppid[z] = pid[p] /\ pid[p] # 0
  /\ pid[z] # 0 /\ tlist[z] = {} /\ ~Unborn(z)
FamInv == \A p, z \in Procs : z \in zombies[p] <=> DeadChild(z, p)

\* A new process has one maker, no child, and no thread but the one being made.
MakeProcOK(t) ==
  pc[t] \in Making /\ nproc[t] # tproc[t] =>
    /\ pid[nproc[t]] # 0
    /\ \A z \in Procs : parent[z] = nproc[t] => ppid[z] # pid[nproc[t]]
    /\ tlist[nproc[t]] = IF pc[t] = "publish" THEN {peer[t]} ELSE {}

\* The slot reserved for a new thread, before and after it is filled in.
MakeThreadOK(t) ==
  /\ pc[t] = "mkproc" => nproc[t] # tproc[t]
  /\ pc[t] \in Reserving =>
       /\ tstate[peer[t]] = "blocked" /\ waitq[peer[t]] = "none" /\ tcpu[peer[t]] = None
       /\ tproc[peer[t]] = IF pc[t] = "publish" THEN nproc[t] ELSE None
       /\ pc[t] = "publish" => Linked(peer[t])

Apart(s, t) ==
  /\ pc[s] \in Making /\ pc[t] \in Making /\ nproc[s] = nproc[t] => nproc[t] = tproc[t]
  /\ pc[s] \in Reserving /\ pc[t] \in Reserving => peer[s] # peer[t]

MakeInv ==
  /\ \A t \in Threads : MakeProcOK(t) /\ MakeThreadOK(t)
  /\ \A s, t \in Threads : s # t => Apart(s, t)

\* A thread in process_wait wants a child of its own process.
WaitOK(t) ==
  pc[t] = "wait" =>
    /\ want[t] # 0
    /\ \A q \in Procs : pid[q] = want[t] =>
         parent[q] = tproc[t] /\ ppid[q] = pid[tproc[t]] /\ ~Unborn(q)
WaitInv == \A t \in Threads : WaitOK(t)

\* NoLostWakeup for one thread.
SleepOK(t) ==
  /\ waitq[t] = "child" => DeadTarget(t) = {} /\ Target(t) # {}
  /\ waitq[t] = "join" => Joins(t) /\ (tstate[peer[t]] = "zombie" => peer[t] \in tlist[tproc[t]])
SleepInv == \A t \in Threads : SleepOK(t)

IInv ==
  /\ TypeOK /\ LockInv /\ DyingInv /\ CurInv /\ CpuInv /\ SlotInv /\ PathInv /\ KillInv
  /\ ListInv /\ CountInv /\ PendInv /\ PidInv /\ FamInv /\ MakeInv /\ WaitInv /\ SleepInv
  /\ CancelledNeverSleeps

-----------------------------------------------------------------------------
(* The shapes of the steps: what an action does, whatever leads to it *)

\* The sleepers S wake, threads are flagged, frozen or thawed, and t returns.
WakeStep(t, S) ==
  /\ lock = None /\ S \subseteq Threads /\ \A u \in S : waitq[u] # "none"
  /\ tstate' = Woken(tstate, S) /\ Unqueue(S)
  /\ killed' \in [Threads -> BOOLEAN] /\ susp' \in [Threads -> BOOLEAN]
  /\ cancelled' \in [Procs -> BOOLEAN] /\ ended' \in [Procs -> BOOLEAN] /\ ctrlz' \in Nat
  /\ KillInv' /\ CancelledNeverSleeps'
  /\ \/ UNCHANGED pc
     \/ /\ tstate[t] = "running" /\ pc[t] = "user"
        /\ pc' = [pc EXCEPT ![t] = "ret"]
  /\ UNCHANGED <<tproc, tcpu, joinable, want, peer, nproc, famVars, tlist, live, pcpu,
                 cpuVars, lockVars, nextPid>>

\* Thread t moves between user mode and process_wait or thread_join.
PathStep(t) ==
  /\ lock = None /\ tstate[t] = "running" /\ pc[t] \in {"user", "wait", "join"}
  /\ pc' \in [Threads -> Paths] /\ pc'[t] \in {"wait", "join", "ret"}
  /\ want' \in [Threads -> Nat] /\ want'[t] < nextPid /\ WaitOK(t)'
  /\ peer' \in [Threads -> Threads \cup {None}] /\ (pc'[t] = "join" => peer'[t] # None)
  /\ \A u \in Threads \ {t} : pc'[u] = pc[u] /\ want'[u] = want[u] /\ peer'[u] = peer[u]
  /\ UNCHANGED <<threadVars, nproc, procVars, cpuVars, lockVars, nextPid, ctrlz>>

\* Thread t returns to user mode, or stores ZOMBIE in its own state.
DieStep(c, t) ==
  /\ lock # c /\ cur[c] = t /\ tstate[t] = "running" /\ pc[t] \in {"user", "ret"}
  /\ \/ tstate' = tstate /\ pc' = [pc EXCEPT ![t] = "user"]
     \/ tstate' = [tstate EXCEPT ![t] = "zombie"] /\ pc' = [pc EXCEPT ![t] = "dead"]
  /\ UNCHANGED <<tproc, tcpu, waitq, joinable, killed, susp, want, peer, nproc, procVars,
                 cpuVars, lockVars, nextPid, ctrlz>>

\* Process p is flagged, or only cancelled: nobody is left asleep but the ones who
\* slept, were not woken (S) and are not t.
FlagStep(p, t, S) ==
  /\ killed' \in {killed, [u \in Threads |-> killed[u] \/ u \in Victims(p, t)]}
  /\ cancelled' = [cancelled EXCEPT ![p] = TRUE]
  /\ tproc' = tproc /\ Roused(p, t) \subseteq S
  /\ \A q \in Procs : tlist'[q] \subseteq tlist[q]
  /\ \A u \in Threads : tstate'[u] = "blocked" /\ waitq'[u] # "none" =>
       u # t /\ u \notin S /\ tstate[u] = "blocked" /\ waitq[u] # "none"

\* Thread t of core c goes to sleep on queue q.
SleepStep(c, t, q) ==
  /\ lock = None /\ cur[c] = t /\ tstate[t] = "running" /\ q \in {"child", "join"}
  /\ q = "child" => pc[t] = "wait" /\ DeadTarget(t) = {} /\ Target(t) # {}
  /\ q = "join" => pc[t] = "join" /\ Joins(t) /\ tstate[peer[t]] # "zombie"
  /\ ~cancelled[tproc[t]] /\ Block(c, t, q)
  /\ UNCHANGED <<tproc, joinable, killed, susp, pathVars, procVars, cpuVars, nextPid, ctrlz>>

\* The dead threads G and the finished processes P are freed, and r returns.
FreeStep(G, P, r) ==
  /\ G \subseteq Threads /\ P \subseteq Procs
  /\ \A g \in G : tstate[g] = "zombie" /\ tcpu[g] = None
  /\ \A p \in P : pid[p] # 0 /\ tlist[p] = {} /\ ~Unborn(p)
  /\ r \in Threads => lock = None /\ tstate[r] = "running" /\ pc[r] \in {"wait", "join"}
  /\ \A d \in Cpus : cur[d] # Idle => tproc[cur[d]] \notin P
  /\ FreeThreads(G) /\ Returns(G, r) /\ FreeProcs(P, P)
  /\ pendT' \in [Cpus -> Threads \cup {None}] /\ pendP' \in [Cpus -> Procs \cup {None}]
  /\ \A d \in Cpus : \/ pendT'[d] = pendT[d] /\ pendP'[d] = pendP[d]
                     \/ pendT'[d] = None /\ pendP'[d] = None
  /\ \A d \in Cpus : pendT'[d] \notin G /\ pendP'[d] \notin P
  /\ at # "switch" /\ at' \in {"free", "reap", "zombie"} /\ (at' = "free" <=> at = "free")
  /\ UNCHANGED <<cur, lock, dying, nextPid, ctrlz>>

\* Thread t of core c ends: it leaves its process, and S, the sleepers this
\* concerns among them, wakes.
EndStep(c, t, S) ==
  /\ lock \in {None, c} /\ cur[c] = t /\ tstate[t] \in {"running", "zombie"}
  /\ tstate[t] = "running" => pc[t] = "user"
  /\ ThreadZombie(t)
  /\ ZombieWakes(t) \subseteq S /\ S \subseteq Threads /\ \A u \in S : waitq[u] # "none"
  /\ tstate' = [Woken(tstate, S) EXCEPT ![t] = "zombie"]
  /\ Unqueue(S)
  /\ pc' = [pc EXCEPT ![t] = "dead"]
  /\ killed' \in [Threads -> BOOLEAN] /\ susp' \in [Threads -> BOOLEAN]
  /\ cancelled' \in [Procs -> BOOLEAN] /\ ended' \in [Procs -> BOOLEAN]
  /\ KillInv' /\ CancelledNeverSleeps'
  /\ lock' = c
  /\ \/ at' = "reap" /\ dying' = None
     \/ at' = "switch" /\ dying' = ZombieLeaves(t)
  /\ UNCHANGED <<tproc, tcpu, joinable, want, peer, nproc, pid, parent, ppid, cpuVars, nextPid,
                 ctrlz>>

\* Core c goes on to the next part of schedule_locked(), or nothing happens.
LockStep(c) ==
  /\ \/ UNCHANGED lockVars
     \/ /\ c \in Cpus /\ lock \in {None, c} /\ lock' = c /\ dying' = None
        /\ \/ at' = "reap"
           \/ at' = "switch" /\ (cur[c] # Idle => tstate[cur[c]] # "zombie")
  /\ UNCHANGED <<threadVars, pathVars, procVars, cpuVars, nextPid, ctrlz>>

\* Thread t reserves slot n, for the first thread of a new process or for another
\* thread of its own.
ReserveStep(c, t, n) ==
  /\ lock = None /\ cur[c] = t /\ tstate[t] = "running"
  /\ \/ pc[t] = "mkproc" /\ nproc' = nproc
     \/ pc[t] = "user" /\ nproc' = [nproc EXCEPT ![t] = tproc[t]]
  /\ ThreadAlloc(c, t, n)
  /\ UNCHANGED <<tproc, waitq, joinable, killed, susp, want, procVars, cpuVars, lockVars,
                 nextPid, ctrlz>>

\* Thread t gives back what it holds: the slots U it reserved and, unless it was
\* making a thread of its own process, the slot of process p.
UndoStep(c, t, p, U) ==
  /\ lock # c /\ cur[c] = t /\ tstate[t] = "running" /\ p = nproc[t]
  /\ \/ pc[t] = "mkproc" /\ U = {}
     \/ pc[t] = "mkthread" /\ U = {peer[t]}
  /\ tstate' = [u \in Threads |-> IF u \in U THEN "unused" ELSE tstate[u]]
  /\ pid' = [q \in Procs |-> IF q = p /\ p # tproc[t] THEN 0 ELSE pid[q]]
  /\ pc' = [pc EXCEPT ![t] = "ret"]
  /\ nproc' = [nproc EXCEPT ![t] = None]
  /\ peer' \in {peer, [peer EXCEPT ![t] = None]}
  /\ UNCHANGED <<tproc, tcpu, waitq, joinable, killed, susp, want, parent, ppid, zombies, tlist,
                 live, pcpu, cancelled, ended, cpuVars, lockVars, nextPid, ctrlz>>
=============================================================================
