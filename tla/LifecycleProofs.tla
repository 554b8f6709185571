--------------------------- MODULE LifecycleProofs ---------------------------
(***************************************************************************)
(* The invariant of LifecycleInv is inductive, for every number of cores,  *)
(* thread slots and process slots and for every workload; the properties of*)
(* Lifecycle follow.  First the steps that make a process or a thread, then*)
(* the actions one by one, then the theorems.                              *)
(***************************************************************************)
EXTENDS LifecycleStepProofs

\* Reserving a process slot keeps the invariant.
LEMMA ProcessAllocKeeps ==
  ASSUME IInv, NEW c \in Cpus, NEW t \in Threads, NEW p \in Procs, ProcessAlloc(c, t, p)
  PROVE  IInv'
<1>0. /\ TypeOK /\ LockInv /\ DyingInv /\ CurInv /\ CpuInv /\ SlotInv /\ PathInv /\ KillInv
      /\ ListInv /\ CountInv /\ PendInv /\ PidInv /\ FamInv /\ MakeInv /\ WaitInv /\ SleepInv
      /\ CancelledNeverSleeps
  BY Zenon DEF IInv
<1>1. /\ UNCHANGED <<tstate, tproc, tcpu, waitq, joinable, killed, susp, want, peer>>
      /\ UNCHANGED <<cur, pendT, pendP, lock, at, dying, ctrlz>>
      /\ lock = None /\ cur[c] = t /\ tstate[t] = "running" /\ pc[t] = "user" /\ pid[p] = 0
      /\ nextPid' = nextPid + 1
  BY Zenon DEF ProcessAlloc, In, At, threadVars, cpuVars, lockVars
<1>2. /\ tproc[t] \in Procs /\ Linked(t) /\ InUse(tproc[t]) /\ waitq[t] = "none" /\ nproc[t] = None
      /\ None \notin Procs /\ p # None
  <2>1. pc[t] \notin Making /\ None \notin Procs
    BY <1>1, ConstantsAssumption, Zenon DEF Making, Reserving
  <2> QED
    BY <1>1, <2>1, RunFacts, ZenonT(60)
<1>3. /\ \A u \in Threads : pc'[u] = IF u = t THEN "mkproc" ELSE pc[u]
      /\ \A u \in Threads : nproc'[u] = IF u = t THEN p ELSE nproc[u]
      /\ \A q \in Procs : pid'[q] = IF q = p THEN nextPid ELSE pid[q]
      /\ \A q \in Procs : parent'[q] = IF q = p THEN tproc[t] ELSE parent[q]
      /\ \A q \in Procs : ppid'[q] = IF q = p THEN pid[tproc[t]] ELSE ppid[q]
      /\ \A q \in Procs : cancelled'[q] = IF q = p THEN FALSE ELSE cancelled[q]
  BY <1>0, ZenonT(60) DEF ProcessAlloc, TypeOK
<1>4. tlist[p] = {} /\ live[p] = 0 /\ zombies[p] = {}
  <2>1. tlist[p] = {}
    BY <1>0, <1>1, Zenon DEF ListInv, ListOK
  <2>2. live[p] = 0
    BY <1>0, <2>1, FS_EmptySet, Zenon DEF CountInv
  <2>3. ASSUME NEW z \in zombies[p]  PROVE FALSE
    BY <1>0, <1>1, <2>3, ZenonT(60) DEF FamInv, DeadChild, TypeOK
  <2> QED
    BY <2>1, <2>2, <2>3, Zenon
<1>5. UNCHANGED <<tlist, live, zombies>>
  BY <1>0, <1>4, Zenon DEF ProcessAlloc, TypeOK
<1>6. TypeOK'
  <2>1. pc' \in [Threads -> Paths] /\ nproc' \in [Threads -> Procs \cup {None}]
    BY <1>0, Zenon DEF ProcessAlloc, TypeOK, Paths
  <2>2. /\ pid' \in [Procs -> Nat] /\ ppid' \in [Procs -> Nat]
        /\ parent' \in [Procs -> Procs \cup {None}] /\ nextPid' \in Nat
    BY <1>0, <1>2, SMT, SMTT(60) DEF ProcessAlloc, TypeOK
  <2>3. /\ pcpu' \in [Procs -> Cpus \cup {None}] /\ cancelled' \in [Procs -> BOOLEAN]
        /\ ended' \in [Procs -> BOOLEAN]
    BY <1>0, Zenon DEF ProcessAlloc, TypeOK
  <2> QED
    BY <1>0, <1>1, <1>5, <2>1, <2>2, <2>3, Zenon DEF TypeOK
<1>7. /\ \A q \in Procs : pid[q] < nextPid /\ ppid[q] < nextPid /\ pid[q] \in Nat /\ ppid[q] \in Nat
      /\ \A u \in Threads : want[u] < nextPid /\ want[u] \in Nat
      /\ nextPid \in Nat
  BY <1>0, Zenon DEF PidInv, TypeOK
<1>8. /\ \A u \in Threads : pc[u] \in Making => nproc[u] # p
      /\ \A u \in Threads : Linked(u) => tproc[u] # p
      /\ ~Unborn(p) /\ \A q \in Procs : q # p => (Unborn(q)' <=> Unborn(q))
  <2>1. \A u \in Threads : Linked(u) => tproc[u] # p
    BY <1>4, Zenon DEF Linked
  <2>2. ASSUME NEW u \in Threads, pc[u] \in Making  PROVE nproc[u] # p
    <3>1. CASE nproc[u] = tproc[u]
      BY <1>0, <2>1, <2>2, <3>1, ZenonT(60) DEF PathInv, PathOK, SlotInv, SlotOK
    <3>2. CASE nproc[u] # tproc[u]
      <4>1. MakeProcOK(u)
        BY <1>0, Zenon DEF MakeInv
      <4> QED
        BY <1>1, <2>2, <3>2, <4>1, Zenon DEF MakeProcOK
    <3> QED
      BY <3>1, <3>2, Zenon
  <2>3. ~Unborn(p)
    BY <1>0, <1>2, <2>2, ZenonT(60) DEF Unborn, PathInv, PathOK
  <2>4. \A q \in Procs : q # p => (Unborn(q)' <=> Unborn(q))
    BY <1>1, <1>2, <1>3, ZenonT(120) DEF Unborn
  <2> QED
    BY <2>1, <2>2, <2>3, <2>4, ZenonT(60)
<1>9. /\ \A u \in Threads : Linked(u)' <=> Linked(u)
      /\ \A q \in Procs : q # p => (ParentIsAlive(q)' <=> ParentIsAlive(q))
      /\ Unborn(p)'
  <2>1. \A u \in Threads : Linked(u)' <=> Linked(u)
    BY <1>1, <1>5, Zenon DEF Linked
  <2>2. ASSUME NEW q \in Procs, q # p  PROVE ParentIsAlive(q)' <=> ParentIsAlive(q)
    <3>1. parent'[q] = parent[q] /\ ppid'[q] = ppid[q] /\ parent[q] \in Procs \cup {None}
      BY <1>0, <1>3, <2>2, Zenon DEF TypeOK
    <3>2. ppid[q] # nextPid
      BY <1>7
    <3> QED
      BY <1>1, <1>3, <3>1, <3>2 DEF ParentIsAlive
  <2>3. Unborn(p)'
    BY <1>1, <1>2, <1>3, <1>8, Zenon DEF Unborn
  <2> QED
    BY <2>1, <2>2, <2>3, Zenon
<1>10. LockInv' /\ DyingInv'
  BY <1>0, <1>1, <1>9, Zenon DEF LockInv, DyingInv
<1>11. CurInv'
  <2>1. ASSUME NEW d \in Cpus, cur[d] # Idle  PROVE CurOK(d)'
    <3>1. CurOK(d) /\ cur[d] \in Threads
      BY <1>0, <2>1, Zenon DEF CurInv, TypeOK
    <3>2. InUse(tproc[cur[d]])'
      <4>1. InUse(tproc[cur[d]])
        BY <2>1, <3>1, Zenon DEF CurOK
      <4>2. tproc[cur[d]] # p
        BY <1>1, <4>1, Zenon DEF InUse
      <4> QED
        BY <1>1, <1>3, <1>8, <4>1, <4>2, Zenon DEF InUse
    <3> QED
      BY <1>1, <1>9, <2>1, <3>1, <3>2, ZenonT(60) DEF CurOK, CurState
  <2> QED
    BY <1>1, <2>1, Zenon DEF CurInv, CurOK
<1>12. CpuInv' /\ SlotInv'
  BY <1>0, <1>1, <1>9, Zenon DEF CpuInv, CpuOK, SlotInv, SlotOK
<1>13. PathInv'
  <2>1. ASSUME NEW u \in Threads  PROVE PathOK(u)'
    <3>1. PathOK(u)
      BY <1>0, Zenon DEF PathInv
    <3>2. CASE u = t
      BY <1>1, <1>2, <1>3, <3>2, Zenon DEF PathOK, Making, Reserving
    <3>3. CASE u # t
      BY <1>1, <1>3, <3>1, <3>3, Zenon DEF PathOK
    <3> QED
      BY <3>2, <3>3, Zenon
  <2> QED
    BY <2>1, Zenon DEF PathInv
<1>14. KillInv'
  <2>1. ASSUME NEW u \in Threads, killed'[u], Linked(u)'  PROVE cancelled'[tproc'[u]]
    BY <1>0, <1>1, <1>3, <1>8, <1>9, <2>1, Zenon DEF KillInv, Linked
  <2> QED
    BY <2>1, Zenon DEF KillInv
<1>15. ListInv' /\ CountInv'
  <2>1. ASSUME NEW q \in Procs  PROVE ListOK(q)'
    <3>1. ListOK(q)
      BY <1>0, Zenon DEF ListInv
    <3> QED
      BY <1>1, <1>3, <1>4, <1>5, <3>1, Zenon DEF ListOK
  <2> QED
    BY <1>0, <1>5, <2>1, Zenon DEF ListInv, CountInv
<1>16. PendInv'
  <2>1. ASSUME NEW d \in Cpus  PROVE PendTOK(d)' /\ PendPOK(d)'
    <3>1. PendTOK(d) /\ PendPOK(d) /\ pendP[d] \in Procs \cup {None}
      BY <1>0, Zenon DEF PendInv, TypeOK
    <3>2. PendTOK(d)'
      BY <1>1, <3>1, Zenon DEF PendTOK
    <3>3. PendPOK(d)'
      BY <1>1, <1>3, <1>5, <1>8, <1>9, <3>1, Zenon DEF PendPOK
    <3> QED
      BY <3>2, <3>3, Zenon
  <2> QED
    BY <1>0, <1>1, <2>1, Zenon DEF PendInv
<1>17. PidInv'
  <2>1. \A q \in Procs : pid'[q] < nextPid' /\ ppid'[q] < nextPid'
    BY <1>1, <1>2, <1>3, <1>7, SMT, SMTT(60)
  <2>2. \A q, r \in Procs : pid'[q] = pid'[r] /\ pid'[q] # 0 => q = r
    <3>1. \A q \in Procs : pid[q] # nextPid
      BY <1>7
    <3> QED
      BY <1>0, <1>3, <3>1, ZenonT(120) DEF PidInv
  <2>3. \A u \in Threads : want'[u] < nextPid'
    BY <1>1, <1>7
  <2> QED
    BY <2>1, <2>2, <2>3, Zenon DEF PidInv
<1>18. FamInv'
  <2>1. ASSUME NEW q \in Procs, NEW z \in Procs
        PROVE  z \in zombies'[q] <=> DeadChild(z, q)'
    <3>1. z \in zombies[q] <=> DeadChild(z, q)
      BY <1>0, Zenon DEF FamInv
    <3>2. CASE z = p
      BY <1>1, <1>5, <1>9, <3>1, <3>2, Zenon DEF DeadChild
    <3>3. CASE z # p /\ q = p
      <4>1. ppid[z] # nextPid
        BY <1>7, SMT, SMTT(60)
      <4> QED
        BY <1>1, <1>3, <1>5, <3>1, <3>3, <4>1, ZenonT(60) DEF DeadChild
    <3>4. CASE z # p /\ q # p
      BY <1>3, <1>5, <1>8, <3>1, <3>4, Zenon DEF DeadChild
    <3> QED
      BY <3>2, <3>3, <3>4, Zenon
  <2> QED
    BY <2>1, Zenon DEF FamInv
<1>19. MakeInv'
  <2>1. ASSUME NEW u \in Threads  PROVE MakeProcOK(u)'
    <3>1. CASE u = t
      <4>1. pid'[p] # 0
        BY <1>3, <1>7, SMT, SMTT(60)
      <4>2. \A z \in Procs : parent'[z] = p => ppid'[z] # pid'[p]
        <5>1. tproc[t] # p
          BY <1>2, <1>8, Zenon
        <5>2. \A z \in Procs : ppid[z] # nextPid
          BY <1>7, SMT, SMTT(60)
        <5> QED
          BY <1>3, <5>1, <5>2, Zenon
      <4> QED
        BY <1>3, <1>4, <1>5, <3>1, <4>1, <4>2, ZenonT(60) DEF MakeProcOK
    <3>2. CASE u # t
      <4>1. MakeProcOK(u) /\ (pc[u] \in Making => nproc[u] \in Procs)
        BY <1>0, Zenon DEF MakeInv, PathInv, PathOK, TypeOK
      <4>2. pc[u] \in Making /\ nproc[u] # tproc[u] => nproc[u] # tproc[t]
        BY <1>2, <4>1, Zenon DEF InUse, Unborn
      <4>3. CASE pc[u] \in Making /\ nproc[u] # tproc[u]
        <5>1. /\ pid[nproc[u]] # 0 /\ nproc[u] # p /\ pid'[nproc[u]] = pid[nproc[u]]
              /\ \A z \in Procs : parent[z] = nproc[u] => ppid[z] # pid[nproc[u]]
          BY <1>1, <1>3, <4>1, <4>3, ZenonT(60) DEF MakeProcOK
        <5>2. \A z \in Procs : parent'[z] = nproc[u] => ppid'[z] # pid'[nproc[u]]
          BY <1>3, <4>2, <4>3, <5>1, Zenon
        <5> QED
          BY <1>1, <1>3, <1>5, <3>2, <4>1, <4>3, <5>1, <5>2, ZenonT(120) DEF MakeProcOK
      <4> QED
        BY <1>1, <1>3, <3>2, <4>3, Zenon DEF MakeProcOK
    <3> QED
      BY <3>1, <3>2, Zenon
  <2>2. ASSUME NEW u \in Threads  PROVE MakeThreadOK(u)'
    <3>1. CASE u = t
      BY <1>1, <1>2, <1>3, <1>8, <3>1, ZenonT(120) DEF MakeThreadOK, Reserving
    <3>2. CASE u # t
      <4>1. MakeThreadOK(u)
        BY <1>0, Zenon DEF MakeInv
      <4>2. pc[u] \in Reserving => peer[u] \in Threads
        BY <1>0, ZenonT(60) DEF PathInv, PathOK, TypeOK
      <4> QED
        BY <1>1, <1>3, <1>9, <3>2, <4>1, <4>2, ZenonT(60) DEF MakeThreadOK, Reserving
    <3> QED
      BY <3>1, <3>2, Zenon
  <2>3. ASSUME NEW u \in Threads, NEW v \in Threads, u # v  PROVE Apart(u, v)'
    <3>1. Apart(u, v)
      BY <1>0, <2>3, Zenon DEF MakeInv
    <3>2. CASE u # t /\ v # t
      BY <1>1, <1>3, <3>1, <3>2, ZenonT(60) DEF Apart
    <3>3. CASE u = t
      BY <1>1, <1>3, <1>8, <2>3, <3>3, ZenonT(60) DEF Apart, Reserving
    <3>4. CASE v = t
      BY <1>1, <1>3, <1>8, <2>3, <3>4, ZenonT(60) DEF Apart, Reserving
    <3> QED
      BY <3>2, <3>3, <3>4, Zenon
  <2> QED
    BY <2>1, <2>2, <2>3, ZenonT(60) DEF MakeInv
<1>20. WaitInv'
  <2>1. ASSUME NEW u \in Threads, pc'[u] = "wait"  PROVE WaitOK(u)'
    <3>1. WaitOK(u) /\ pc[u] = "wait" /\ Linked(u)
      BY <1>0, <1>3, <2>1, ZenonT(60) DEF WaitInv, PathInv, PathOK, SlotInv, SlotOK
    <3>2. tproc[u] # p /\ tproc[u] \in Procs /\ want[u] # nextPid
      BY <1>7, <1>8, <3>1 DEF Linked
    <3> QED
      BY <1>1, <1>3, <1>8, <3>1, <3>2, ZenonT(120) DEF WaitOK
  <2> QED
    BY <2>1, Zenon DEF WaitInv, WaitOK
<1>21. SleepInv'
  <2>1. ASSUME NEW u \in Threads  PROVE SleepOK(u)'
    <3>1. SleepOK(u) /\ WaitOK(u) /\ PathOK(u) /\ want[u] # nextPid /\ tproc[u] \in Procs \cup {None}
      BY <1>0, <1>7 DEF SleepInv, WaitInv, PathInv, TypeOK
    <3>2. waitq[u] = "child" => Target(u)' = Target(u) /\ DeadTarget(u)' \subseteq DeadTarget(u)
      <4>1. waitq[u] = "child" => want[u] # 0 /\ Linked(u)
        BY <1>0, <3>1, Zenon DEF PathOK, WaitOK, SlotInv, SlotOK
      <4>2. waitq[u] = "child" => Target(u)' = Target(u)
        BY <1>1, <1>3, <3>1, <4>1 DEF Target
      <4>3. waitq[u] = "child" => DeadTarget(u)' \subseteq DeadTarget(u)
        BY <1>0, <1>1, <1>3, <1>5, <3>1, <4>1, Zenon DEF DeadTarget, TypeOK, Linked
      <4> QED
        BY <4>2, <4>3, Zenon
    <3> QED
      BY <1>1, <1>5, <3>1, <3>2, Zenon DEF SleepOK, Joins
  <2> QED
    BY <2>1, Zenon DEF SleepInv
<1>22. CancelledNeverSleeps'
  <2>1. ASSUME NEW u \in Threads, tstate[u] = "blocked", waitq[u] # "none"
        PROVE  ~killed[u] /\ ~cancelled'[tproc[u]]
    BY <1>0, <1>3, <2>1, Zenon DEF CancelledNeverSleeps, SlotInv, SlotOK, Linked
  <2> QED
    BY <1>1, <2>1, Zenon DEF CancelledNeverSleeps
<1> QED
  BY <1>6, <1>10, <1>11, <1>12, <1>13, <1>14, <1>15, <1>16, <1>17, <1>18, <1>19, <1>20,
     <1>21, <1>22, ZenonT(60) DEF IInv

\* thread_alloc keeps the invariant.
LEMMA ReserveKeeps ==
  ASSUME IInv, NEW c \in Cpus, NEW t \in Threads, NEW n \in Threads, ReserveStep(c, t, n)
  PROVE  IInv'
<1>0. /\ TypeOK /\ LockInv /\ DyingInv /\ CurInv /\ CpuInv /\ SlotInv /\ PathInv /\ KillInv
      /\ ListInv /\ CountInv /\ PendInv /\ PidInv /\ FamInv /\ MakeInv /\ WaitInv /\ SleepInv
      /\ CancelledNeverSleeps
  BY Zenon DEF IInv
<1>1. /\ UNCHANGED <<tproc, waitq, joinable, killed, susp, want>>
      /\ UNCHANGED <<pid, parent, ppid, zombies, tlist, live, pcpu, cancelled, ended>>
      /\ UNCHANGED <<cur, pendT, pendP, lock, at, dying, nextPid, ctrlz>>
      /\ lock = None /\ cur[c] = t /\ tstate[t] = "running" /\ tstate[n] = "unused" /\ n # t
      /\ pc[t] \in {"mkproc", "user"}
  BY Zenon DEF ReserveStep, ThreadAlloc, procVars, famVars, cpuVars, lockVars
<1>2. /\ tproc[t] \in Procs /\ Linked(t) /\ InUse(tproc[t]) /\ waitq[t] = "none"
      /\ tproc[n] = None /\ tcpu[n] = None /\ waitq[n] = "none" /\ ~Linked(n)
      /\ None \notin Procs
      /\ pc[t] = "mkproc" <=> pc[t] \in Making
      /\ nproc[t] # None <=> pc[t] \in Making
  <2>1. tproc[n] = None /\ tcpu[n] = None /\ waitq[n] = "none"
    BY <1>0, <1>1, Zenon DEF SlotInv, SlotOK, TypeOK
  <2>2. None \notin Procs /\ ~Linked(n)
    BY <2>1, ConstantsAssumption, Zenon DEF Linked
  <2>3. pc[t] = "mkproc" <=> pc[t] \in Making
    BY <1>1, Zenon DEF Making, Reserving
  <2> QED
    BY <1>1, <2>1, <2>2, <2>3, RunFacts, Zenon
<1>3. /\ \A u \in Threads : tstate'[u] = IF u = n THEN "blocked" ELSE tstate[u]
      /\ \A u \in Threads : tcpu'[u] = tcpu[u]
      /\ \A u \in Threads : peer'[u] = IF u = t THEN n ELSE peer[u]
      /\ \A u \in Threads : pc'[u] = IF u = t THEN "mkthread" ELSE pc[u]
  BY <1>0, <1>2, Zenon DEF ReserveStep, ThreadAlloc, TypeOK
<1>4. /\ \A u \in Threads : u # t => nproc'[u] = nproc[u]
      /\ nproc'[t] \in Procs
      /\ \/ pc[t] = "mkproc" /\ nproc'[t] = nproc[t] /\ nproc[t] # tproc[t]
         \/ pc[t] = "user" /\ nproc'[t] = tproc[t] /\ nproc[t] = None
  <2>1. MakeThreadOK(t)
    BY <1>0, Zenon DEF MakeInv
  <2>2. CASE pc[t] = "mkproc" /\ nproc' = nproc
    BY <1>0, <1>2, <2>1, <2>2, ZenonT(60) DEF MakeThreadOK, TypeOK
  <2>3. CASE pc[t] = "user" /\ nproc' = [nproc EXCEPT ![t] = tproc[t]]
    BY <1>0, <1>2, <2>3, Zenon DEF TypeOK
  <2> QED
    BY <2>2, <2>3, Zenon DEF ReserveStep
<1>5. TypeOK'
  <2>1. /\ tstate' \in [Threads -> TStates] /\ tcpu' \in [Threads -> Cpus \cup {None}]
    BY <1>0, Zenon DEF ReserveStep, ThreadAlloc, TypeOK, TStates
  <2>2. /\ peer' \in [Threads -> Threads \cup {None}] /\ pc' \in [Threads -> Paths]
    BY <1>0, Zenon DEF ReserveStep, ThreadAlloc, TypeOK, Paths
  <2>3. nproc' \in [Threads -> Procs \cup {None}]
    BY <1>0, <1>2, Zenon DEF ReserveStep, TypeOK
  <2> QED
    BY <1>0, <1>1, <2>1, <2>2, <2>3, Zenon DEF TypeOK
<1>6. /\ \A u \in Threads : Linked(u)' <=> Linked(u)
      /\ \A q \in Procs : Unborn(q)' <=> Unborn(q)
      /\ \A q \in Procs : ParentIsAlive(q)' <=> ParentIsAlive(q)
  <2>1. \A q \in Procs : Unborn(q)' <=> Unborn(q)
    BY <1>1, <1>2, <1>4, ZenonT(120) DEF Unborn
  <2> QED
    BY <1>1, <2>1, Zenon DEF Linked, ParentIsAlive
<1>7. LockInv' /\ DyingInv'
  BY <1>0, <1>1, Zenon DEF LockInv, DyingInv
<1>8. CurInv'
  <2>1. ASSUME NEW d \in Cpus, cur[d] # Idle  PROVE CurOK(d)'
    <3>1. CurOK(d) /\ cur[d] \in Threads
      BY <1>0, <2>1, Zenon DEF CurInv, TypeOK
    <3>2. InUse(tproc[cur[d]])'
      <4>1. InUse(tproc[cur[d]])
        BY <2>1, <3>1, Zenon DEF CurOK
      <4> QED
        BY <1>1, <1>6, <4>1, Zenon DEF InUse
    <3>3. tstate'[cur[d]] = tstate[cur[d]]
      BY <1>1, <1>3, <2>1, <3>1, Zenon DEF CurOK, CurState
    <3> QED
      BY <1>1, <1>3, <1>6, <2>1, <3>1, <3>2, <3>3, Zenon DEF CurOK, CurState
  <2> QED
    BY <1>1, <2>1, Zenon DEF CurInv, CurOK
<1>9. CpuInv' /\ SlotInv' /\ PathInv'
  <2>1. ASSUME NEW u \in Threads  PROVE CpuOK(u)' /\ SlotOK(u)' /\ PathOK(u)'
    <3>1. CpuOK(u) /\ SlotOK(u) /\ PathOK(u) /\ (Linked(u)' <=> Linked(u))
      BY <1>0, <1>6, Zenon DEF CpuInv, SlotInv, PathInv
    <3>2. CpuOK(u)'
      BY <1>1, <1>3, <3>1, Zenon DEF CpuOK
    <3>3. SlotOK(u)'
      BY <1>1, <1>2, <1>3, <3>1, ZenonT(60) DEF SlotOK
    <3>4. PathOK(u)'
      <4>1. CASE u = t
        <5>1. /\ tstate'[t] = "running" /\ waitq'[t] = "none" /\ pc'[t] = "mkthread"
              /\ nproc'[t] # None /\ peer'[t] # None
          BY <1>1, <1>2, <1>3, <1>4, ConstantsAssumption, ZenonT(120)
        <5> QED
          BY <4>1, <5>1, Zenon DEF PathOK, Making, Reserving
      <4>2. CASE u # t
        BY <1>1, <1>2, <1>3, <1>4, <3>1, <4>2, ZenonT(60) DEF PathOK
      <4> QED
        BY <4>1, <4>2, Zenon
    <3> QED
      BY <3>2, <3>3, <3>4, Zenon
  <2> QED
    BY <2>1, Zenon DEF CpuInv, SlotInv, PathInv
<1>10. KillInv' /\ CountInv' /\ PidInv'
  BY <1>0, <1>1, <1>6, Zenon DEF KillInv, CountInv, PidInv
<1>11. ListInv' /\ CancelledNeverSleeps'
  <2>1. ListInv'
    BY <1>0, <1>1, <1>3, SMT, SMTT(60) DEF ListInv, ListOK, TypeOK
  <2>2. CancelledNeverSleeps'
    BY <1>0, <1>1, <1>2, <1>3, ZenonT(60) DEF CancelledNeverSleeps
  <2> QED
    BY <2>1, <2>2, Zenon
<1>12. PendInv'
  <2>1. ASSUME NEW d \in Cpus  PROVE PendTOK(d)' /\ PendPOK(d)'
    <3>1. PendTOK(d) /\ PendPOK(d) /\ pendT[d] \in Threads \cup {None} /\ pendP[d] \in Procs \cup {None}
      BY <1>0, Zenon DEF PendInv, TypeOK
    <3>2. PendTOK(d)'
      BY <1>1, <1>3, <3>1, Zenon DEF PendTOK
    <3>3. PendPOK(d)'
      BY <1>1, <1>6, <3>1, Zenon DEF PendPOK
    <3> QED
      BY <3>2, <3>3, Zenon
  <2> QED
    BY <1>0, <1>1, <2>1, ZenonT(60) DEF PendInv
<1>13. FamInv'
  BY <1>0, <1>1, <1>6, ZenonT(120) DEF FamInv, DeadChild
<1>14. MakeInv'
  <2>0. UNCHANGED <<tproc, pid, parent, ppid, tlist>>
    BY <1>1, Zenon
  <2>1. ASSUME NEW u \in Threads  PROVE MakeProcOK(u)'
    <3>1. MakeProcOK(u)
      BY <1>0, Zenon DEF MakeInv
    <3>2. CASE u = t
      <4>1. CASE pc[t] = "user"
        BY <1>1, <1>4, <3>2, <4>1, Zenon DEF MakeProcOK
      <4>2. CASE pc[t] = "mkproc"
        <5>1. nproc'[t] = nproc[t] /\ pc'[t] = "mkthread" /\ pc[t] \in Making
          BY <1>2, <1>3, <1>4, <4>2, Zenon
        <5> QED
          BY <2>0, <3>1, <3>2, <4>2, <5>1, Zenon DEF MakeProcOK
      <4> QED
        BY <1>1, <4>1, <4>2, Zenon
    <3>3. CASE u # t
      <4>1. nproc'[u] = nproc[u] /\ pc'[u] = pc[u] /\ peer'[u] = peer[u]
        BY <1>3, <1>4, <3>3, Zenon
      <4> QED
        BY <2>0, <3>1, <4>1, Zenon DEF MakeProcOK
    <3> QED
      BY <3>2, <3>3, Zenon
  <2>2. \A u \in Threads : pc[u] \in Reserving => peer[u] \in Threads /\ peer[u] # n
    <3>1. ASSUME NEW u \in Threads, pc[u] \in Reserving  PROVE peer[u] \in Threads /\ peer[u] # n
      <4>1. MakeThreadOK(u) /\ PathOK(u) /\ peer[u] \in Threads \cup {None}
        BY <1>0, Zenon DEF MakeInv, PathInv, TypeOK
      <4> QED
        BY <1>1, <3>1, <4>1, Zenon DEF MakeThreadOK, PathOK
    <3> QED
      BY <3>1, Zenon
  <2>3. ASSUME NEW u \in Threads  PROVE MakeThreadOK(u)'
    <3>1. CASE u = t
      BY <1>1, <1>2, <1>3, <3>1, ZenonT(60) DEF MakeThreadOK
    <3>2. CASE u # t
      <4>1. MakeThreadOK(u)
        BY <1>0, Zenon DEF MakeInv
      <4> QED
        BY <1>1, <1>3, <1>4, <1>6, <2>2, <3>2, <4>1 DEF MakeThreadOK, Reserving
    <3> QED
      BY <3>1, <3>2, Zenon
  <2>4. ASSUME NEW u \in Threads, NEW v \in Threads, u # v  PROVE Apart(u, v)'
    <3>1. Apart(u, v) /\ Apart(v, u)
      BY <1>0, <2>4, Zenon DEF MakeInv
    <3>2. pc'[u] \in Reserving /\ pc'[v] \in Reserving => peer'[u] # peer'[v]
      BY <1>3, <2>2, <2>4, <3>1, ZenonT(120) DEF Apart
    <3>3. pc'[u] \in Making /\ pc'[v] \in Making /\ nproc'[u] = nproc'[v] => nproc'[v] = tproc[v]
      <4>1. \A w \in Threads : nproc[w] = tproc[t] => nproc[w] = tproc[w]
        BY <1>2, Zenon DEF InUse, Unborn
      <4>2. CASE u # t /\ v # t
        BY <1>3, <1>4, <3>1, <4>2, Zenon DEF Apart
      <4>3. CASE u = t
        BY <1>2, <1>3, <1>4, <2>4, <3>1, <4>1, <4>3, Zenon DEF Apart
      <4>4. CASE v = t
        BY <1>2, <1>3, <1>4, <2>4, <3>1, <4>1, <4>4, Zenon DEF Apart
      <4> QED
        BY <4>2, <4>3, <4>4, Zenon
    <3> QED
      BY <1>1, <3>2, <3>3, Zenon DEF Apart
  <2> QED
    BY <2>1, <2>3, <2>4, Zenon DEF MakeInv
<1>15. WaitInv'
  <2>1. ASSUME NEW u \in Threads, pc'[u] = "wait"  PROVE WaitOK(u)'
    <3>1. WaitOK(u) /\ pc[u] = "wait"
      BY <1>0, <1>3, <2>1, Zenon DEF WaitInv
    <3> QED
      BY <1>1, <1>6, <3>1, ZenonT(60) DEF WaitOK
  <2> QED
    BY <2>1, Zenon DEF WaitInv, WaitOK
<1>16. SleepInv'
  <2>1. ASSUME NEW u \in Threads  PROVE SleepOK(u)'
    <3>1. SleepOK(u) /\ PathOK(u) /\ peer[u] \in Threads \cup {None}
      BY <1>0, Zenon DEF SleepInv, PathInv, TypeOK
    <3>2. DeadTarget(u)' = DeadTarget(u) /\ Target(u)' = Target(u)
      BY <1>1, Zenon DEF DeadTarget, Target
    <3>3. waitq[u] = "join" => /\ peer[u] \in Threads /\ peer[u] # n /\ u # t
                               /\ Joins(u) /\ (tstate[peer[u]] = "zombie" => peer[u] \in tlist[tproc[u]])
      BY <1>1, <1>2, <3>1, Zenon DEF SleepOK, PathOK, Joins
    <3> QED
      BY <1>1, <1>3, <3>1, <3>2, <3>3, ZenonT(120) DEF SleepOK, Joins
  <2> QED
    BY <2>1, Zenon DEF SleepInv
<1> QED
  BY <1>5, <1>7, <1>8, <1>9, <1>10, <1>11, <1>12, <1>13, <1>14, <1>15, <1>16, ZenonT(60)
     DEF IInv

\* thread_init_for keeps the invariant.
LEMMA ThreadInitForKeeps ==
  ASSUME IInv, NEW c \in Cpus, NEW t \in Threads, ThreadInitFor(c, t)
  PROVE  IInv'
<1>0. /\ TypeOK /\ LockInv /\ DyingInv /\ CurInv /\ CpuInv /\ SlotInv /\ PathInv /\ KillInv
      /\ ListInv /\ CountInv /\ PendInv /\ PidInv /\ FamInv /\ MakeInv /\ WaitInv /\ SleepInv
      /\ CancelledNeverSleeps
  BY Zenon DEF IInv
<1>1. /\ UNCHANGED <<tstate, tcpu, want, peer, nproc>>
      /\ UNCHANGED <<pid, parent, ppid, zombies, pcpu, cancelled, ended>>
      /\ UNCHANGED <<cur, pendT, pendP, lock, at, dying, nextPid, ctrlz>>
  BY Zenon DEF ThreadInitFor, famVars, cpuVars, lockVars
<1>2. lock = None /\ cur[c] = t /\ tstate[t] = "running" /\ pc[t] = "mkthread"
  BY Zenon DEF ThreadInitFor, In, At
<1>3. PICK n \in Threads, p \in Procs : n = peer[t] /\ p = nproc[t]
  <2>1. pc[t] \in Reserving /\ pc[t] \in Making
    BY <1>2, Zenon DEF Making, Reserving
  <2> QED
    BY <1>0, <2>1, ZenonT(60) DEF PathInv, PathOK, TypeOK
<1>4. /\ tproc[t] \in Procs /\ Linked(t) /\ InUse(tproc[t]) /\ waitq[t] = "none"
      /\ n # t /\ tstate[n] = "blocked" /\ waitq[n] = "none" /\ tcpu[n] = None /\ tproc[n] = None
      /\ None \notin Procs /\ n \notin tlist[p] /\ nproc[n] = None
      /\ pc[t] \in Reserving /\ pc[t] \in Making
  <2>1. pc[t] \in Reserving /\ pc[t] \in Making
    BY <1>2, Zenon DEF Making, Reserving
  <2>2. MakeThreadOK(t)
    BY <1>0, Zenon DEF MakeInv
  <2>3. tstate[n] = "blocked" /\ waitq[n] = "none" /\ tcpu[n] = None /\ tproc[n] = None
    BY <1>2, <1>3, <2>1, <2>2, Zenon DEF MakeThreadOK
  <2>4. nproc[n] = None
    BY <1>0, <2>3, Zenon DEF PathInv, PathOK
  <2>5. None \notin Procs /\ n \notin tlist[p]
    BY <1>0, <2>3, ConstantsAssumption, Zenon DEF ListInv, ListOK
  <2> QED
    BY <1>2, <2>1, <2>3, <2>4, <2>5, RunFacts, Zenon
<1>5. /\ \A u \in Threads : tproc'[u] = IF u = n THEN p ELSE tproc[u]
      /\ \A u \in Threads : u # n => /\ joinable'[u] = joinable[u] /\ killed'[u] = killed[u]
                                     /\ waitq'[u] = waitq[u]
      /\ ~killed'[n] /\ waitq'[n] = "none"
      /\ pc'[t] = "publish" /\ pc'[n] = "user"
      /\ \A u \in Threads : u # n /\ u # t => pc'[u] = pc[u]
  <2>1. /\ \A u \in Threads : tproc'[u] = IF u = n THEN p ELSE tproc[u]
        /\ \A u \in Threads : u # n => /\ joinable'[u] = joinable[u] /\ killed'[u] = killed[u]
                                       /\ waitq'[u] = waitq[u]
        /\ ~killed'[n] /\ waitq'[n] = "none"
    BY <1>0, <1>3, Zenon DEF ThreadInitFor, TypeOK
  <2>2. /\ pc'[t] = "publish" /\ pc'[n] = "user"
        /\ \A u \in Threads : u # n /\ u # t => pc'[u] = pc[u]
    BY <1>0, <1>3, <1>4, Zenon DEF ThreadInitFor, TypeOK
  <2> QED
    BY <2>1, <2>2, Zenon
<1>6. \A q \in Procs : /\ tlist'[q] = IF q = p THEN tlist[p] \cup {n} ELSE tlist[q]
                       /\ live'[q] = IF q = p THEN live[p] + 1 ELSE live[q]
  BY <1>0, <1>3, Zenon DEF ThreadInitFor, TypeOK
<1>7. TypeOK'
  <2>1. /\ tproc' \in [Threads -> Procs \cup {None}]
        /\ joinable' \in [Threads -> BOOLEAN] /\ killed' \in [Threads -> BOOLEAN]
        /\ susp' \in [Threads -> BOOLEAN] /\ waitq' \in [Threads -> {"none", "child", "join"}]
    BY <1>0, <1>3, Zenon DEF ThreadInitFor, TypeOK
  <2>2. pc' \in [Threads -> Paths]
    BY <1>0, ZenonT(60) DEF ThreadInitFor, TypeOK, Paths
  <2>3. tlist' \in [Procs -> SUBSET Threads] /\ live' \in [Procs -> Nat]
    BY <1>0, <1>3, SMT, SMTT(60) DEF ThreadInitFor, TypeOK
  <2> QED
    BY <1>0, <1>1, <2>1, <2>2, <2>3, Zenon DEF TypeOK
<1>8. /\ \A u \in Threads : u # n => (Linked(u)' <=> Linked(u))
      /\ Linked(n)' /\ ~Linked(n)
      /\ \A q \in Procs : Unborn(q)' <=> Unborn(q)
      /\ \A q \in Procs : ParentIsAlive(q)' <=> ParentIsAlive(q)
  <2>1. \A u \in Threads : u # n => (Linked(u)' <=> Linked(u))
    BY <1>5, <1>6, SMT, SMTT(60) DEF Linked
  <2>2. Linked(n)' /\ ~Linked(n)
    BY <1>4, <1>5, <1>6, Zenon DEF Linked
  <2>3. \A q \in Procs : Unborn(q)' <=> Unborn(q)
    BY <1>1, <1>4, <1>5, ZenonT(120) DEF Unborn
  <2>4. \A q \in Procs : ParentIsAlive(q)' <=> ParentIsAlive(q)
    BY <1>1, Zenon DEF ParentIsAlive
  <2> QED
    BY <2>1, <2>2, <2>3, <2>4, ZenonT(60)
<1>9. /\ pid[p] # 0
      /\ tproc[t] # p => Unborn(p) /\ tlist[p] = {}
      /\ \A u \in Threads : u # t /\ nproc[u] = p => tproc[u] = p
  <2>1. MakeProcOK(t)
    BY <1>0, Zenon DEF MakeInv
  <2>2. tproc[t] # p => pid[p] # 0 /\ Unborn(p) /\ tlist[p] = {}
    BY <1>2, <1>3, <1>4, <2>1, Zenon DEF MakeProcOK, Unborn
  <2>3. tproc[t] = p => pid[p] # 0
    BY <1>4, Zenon DEF InUse
  <2>4. ASSUME NEW u \in Threads, u # t, nproc[u] = p  PROVE tproc[u] = p
    <3>1. Apart(t, u) /\ pc[u] \in Making
      BY <1>0, <1>4, <2>4, Zenon DEF MakeInv, PathInv, PathOK
    <3> QED
      BY <1>3, <1>4, <2>4, <3>1, Zenon DEF Apart
  <2> QED
    BY <2>2, <2>3, <2>4, Zenon
<1>10. LockInv' /\ DyingInv'
  BY <1>0, <1>1, <1>2, Zenon DEF LockInv, DyingInv
<1>11. CurInv'
  <2>1. ASSUME NEW d \in Cpus, cur[d] # Idle  PROVE CurOK(d)'
    <3>1. CurOK(d) /\ cur[d] \in Threads
      BY <1>0, <2>1, Zenon DEF CurInv, TypeOK
    <3>2. cur[d] # n
      BY <1>4, <2>1, <3>1, Zenon DEF CurOK, CurState
    <3>3. InUse(tproc[cur[d]])'
      <4>1. InUse(tproc[cur[d]]) /\ tproc'[cur'[d]] = tproc[cur[d]]
        BY <1>1, <1>5, <2>1, <3>1, <3>2, Zenon DEF CurOK
      <4> QED
        BY <1>1, <1>8, <4>1, Zenon DEF InUse
    <3> QED
      BY <1>1, <1>5, <1>8, <2>1, <3>1, <3>2, <3>3, Zenon DEF CurOK, CurState
  <2> QED
    BY <1>1, <2>1, Zenon DEF CurInv, CurOK
<1>12. CpuInv' /\ SlotInv' /\ PathInv'
  <2>1. ASSUME NEW u \in Threads  PROVE SlotOK(u)'
    <3>1. SlotOK(u)
      BY <1>0, Zenon DEF SlotInv
    <3>2. CASE u = n
      BY <1>1, <1>4, <1>5, <3>2, Zenon DEF SlotOK
    <3>3. CASE u # n
      BY <1>1, <1>5, <1>8, <3>1, <3>3, Zenon DEF SlotOK
    <3> QED
      BY <3>2, <3>3, Zenon
  <2>2. ASSUME NEW u \in Threads  PROVE PathOK(u)'
    <3>1. PathOK(u)
      BY <1>0, Zenon DEF PathInv
    <3>2. CASE u = n
      BY <1>1, <1>4, <1>5, <3>2, Zenon DEF PathOK, Making, Reserving
    <3>3. CASE u = t
      <4>1. /\ pc'[t] = "publish" /\ waitq'[t] = "none" /\ tstate'[t] = "running"
            /\ nproc'[t] # None /\ peer'[t] # None
        BY <1>1, <1>2, <1>3, <1>4, <1>5, ConstantsAssumption, Zenon
      <4> QED
        BY <3>3, <4>1, Zenon DEF PathOK, Making, Reserving
    <3>4. CASE u # n /\ u # t
      BY <1>1, <1>5, <3>1, <3>4, Zenon DEF PathOK
    <3> QED
      BY <3>2, <3>3, <3>4, Zenon
  <2> QED
    BY <1>0, <1>1, <2>1, <2>2, Zenon DEF CpuInv, CpuOK, SlotInv, PathInv
<1>13. KillInv'
  <2>1. ASSUME NEW u \in Threads, killed'[u], Linked(u)'  PROVE cancelled'[tproc'[u]]
    <3>1. u # n /\ tproc'[u] = tproc[u] /\ killed[u] /\ Linked(u)
      BY <1>5, <1>8, <2>1, Zenon
    <3> QED
      BY <1>0, <1>1, <3>1, Zenon DEF KillInv
  <2> QED
    BY <2>1, Zenon DEF KillInv
<1>14. ListInv' /\ CountInv' /\ PidInv'
  <2>1. ASSUME NEW q \in Procs  PROVE ListOK(q)'
    <3>1. ListOK(q) /\ tlist[q] \subseteq Threads /\ n \notin tlist[q]
      BY <1>0, <1>4, ZenonT(60) DEF ListInv, ListOK, TypeOK
    <3>2. /\ \A u \in tlist[q] : tproc'[u] = tproc[u] /\ tstate'[u] = tstate[u] /\ joinable'[u] = joinable[u]
          /\ tstate'[n] = "blocked" /\ tproc'[n] = p
      BY <1>1, <1>4, <1>5, <3>1, Zenon
    <3>3. CASE q = p
      BY <1>1, <1>6, <1>9, <3>1, <3>2, <3>3 DEF ListOK
    <3>4. CASE q # p
      BY <1>1, <1>6, <3>1, <3>2, <3>4, Zenon DEF ListOK
    <3> QED
      BY <3>3, <3>4, Zenon
  <2>2. ASSUME NEW q \in Procs  PROVE live'[q] = Cardinality(tlist'[q])
    <3>1. live[q] = Cardinality(tlist[q]) /\ tlist[q] \in SUBSET Threads
      BY <1>0, Zenon DEF CountInv, TypeOK
    <3>2. CASE q = p
      <4>1. Cardinality(tlist[p] \cup {n}) = Cardinality(tlist[p]) + 1
        BY <1>4, <3>1, <3>2, CardFacts, ZenonT(60)
      <4> QED
        BY <1>6, <3>1, <3>2, <4>1, Zenon
    <3>3. CASE q # p
      BY <1>6, <3>1, <3>3, Zenon
    <3> QED
      BY <3>2, <3>3, Zenon
  <2>3. PidInv'
    BY <1>0, <1>1, Zenon DEF PidInv
  <2> QED
    BY <2>1, <2>2, <2>3, Zenon DEF ListInv, CountInv
<1>15. PendInv'
  <2>1. ASSUME NEW d \in Cpus  PROVE PendTOK(d)' /\ PendPOK(d)'
    <3>1. PendTOK(d) /\ PendPOK(d) /\ pendT[d] \in Threads \cup {None} /\ pendP[d] \in Procs \cup {None}
      BY <1>0, Zenon DEF PendInv, TypeOK
    <3>2. PendTOK(d)'
      <4>1. pendT[d] # None => pendT[d] # n
        BY <1>4, <3>1, Zenon DEF PendTOK
      <4> QED
        BY <1>1, <1>5, <3>1, <4>1, Zenon DEF PendTOK
    <3>3. PendPOK(d)'
      <4>1. pendP[d] # p
        BY <1>4, <1>9, <3>1, Zenon DEF PendPOK, InUse
      <4> QED
        BY <1>1, <1>6, <1>8, <3>1, <4>1, Zenon DEF PendPOK
    <3> QED
      BY <3>2, <3>3, Zenon
  <2> QED
    BY <1>0, <1>1, <2>1, Zenon DEF PendInv
<1>16. FamInv'
  <2>1. ASSUME NEW q \in Procs, NEW z \in Procs
        PROVE  z \in zombies'[q] <=> DeadChild(z, q)'
    <3>1. z \in zombies[q] <=> DeadChild(z, q)
      BY <1>0, Zenon DEF FamInv
    <3>2. CASE z = p
      <4>1. ~DeadChild(p, q)
        BY <1>4, <1>9, Zenon DEF DeadChild, Linked
      <4>2. ~DeadChild(p, q)'
        BY <1>6, Zenon DEF DeadChild
      <4> QED
        BY <1>1, <3>1, <3>2, <4>1, <4>2, Zenon
    <3>3. CASE z # p
      BY <1>1, <1>6, <1>8, <3>1, <3>3, Zenon DEF DeadChild
    <3> QED
      BY <3>2, <3>3, Zenon
  <2> QED
    BY <2>1, Zenon DEF FamInv
<1>17. MakeInv'
  <2>0. UNCHANGED <<pid, parent, ppid, nproc, peer, tstate, tcpu>>
    BY <1>1, Zenon
  <2>1. ASSUME NEW u \in Threads  PROVE MakeProcOK(u)' /\ MakeThreadOK(u)'
    <3>1. MakeProcOK(u) /\ MakeThreadOK(u)
      BY <1>0, Zenon DEF MakeInv
    <3>2. CASE u = n
      BY <1>5, <3>2, Zenon DEF MakeProcOK, MakeThreadOK, Making, Reserving
    <3>3. CASE u = t
      <4>1. pc'[t] = "publish" /\ tproc'[t] = tproc[t] /\ tproc'[n] = p
        BY <1>4, <1>5, Zenon
      <4>2. MakeProcOK(t)'
        <5>1. tproc[t] # p => tlist'[p] = {n}
          BY <1>6, <1>9, Zenon
        <5>2. MakeProcOK(t)
          BY <3>1, <3>3, Zenon
        <5> QED
          BY <1>3, <1>4, <2>0, <4>1, <5>1, <5>2, ZenonT(60) DEF MakeProcOK
      <4>3. MakeThreadOK(t)'
        BY <1>3, <1>4, <1>5, <1>8, <2>0, <4>1, ZenonT(60) DEF MakeThreadOK
      <4> QED
        BY <3>3, <4>2, <4>3, Zenon
    <3>4. CASE u # n /\ u # t
      <4>1. pc'[u] = pc[u] /\ tproc'[u] = tproc[u]
        BY <1>5, <3>4, Zenon
      <4>2. pc[u] \in Making /\ nproc[u] # tproc[u] => nproc[u] \in Procs /\ tlist'[nproc[u]] = tlist[nproc[u]]
        BY <1>0, <1>6, <1>9, <3>4, ZenonT(120) DEF PathInv, PathOK, TypeOK
      <4>3. MakeProcOK(u)'
        BY <2>0, <3>1, <4>1, <4>2, Zenon DEF MakeProcOK
      <4>4. pc[u] \in Reserving => peer[u] \in Threads /\ peer[u] # n
        <5>1. Apart(u, t)
          BY <1>0, <3>4, Zenon DEF MakeInv
        <5> QED
          BY <1>0, <1>3, <1>4, <5>1, ZenonT(60) DEF Apart, PathInv, PathOK, TypeOK
      <4>5. MakeThreadOK(u)'
        BY <1>5, <1>8, <2>0, <3>1, <4>1, <4>4, Zenon DEF MakeThreadOK, Reserving
      <4> QED
        BY <4>3, <4>5, Zenon
    <3> QED
      BY <3>2, <3>3, <3>4, Zenon
  <2>2. ASSUME NEW u \in Threads, NEW v \in Threads, u # v  PROVE Apart(u, v)'
    <3>1. Apart(u, v)
      BY <1>0, <2>2, Zenon DEF MakeInv
    <3>2. \A w \in Threads : /\ pc'[w] \in Making => pc[w] \in Making /\ tproc'[w] = tproc[w]
                             /\ pc'[w] \in Reserving => pc[w] \in Reserving
      BY <1>4, <1>5, Zenon DEF Making, Reserving
    <3> QED
      BY <2>0, <3>1, <3>2, Zenon DEF Apart
  <2> QED
    BY <2>1, <2>2, Zenon DEF MakeInv
<1>18. WaitInv'
  <2>1. ASSUME NEW u \in Threads, pc'[u] = "wait"  PROVE WaitOK(u)'
    <3>1. WaitOK(u) /\ pc[u] = "wait" /\ tproc'[u] = tproc[u]
      BY <1>0, <1>5, <2>1, Zenon DEF WaitInv
    <3> QED
      BY <1>1, <1>8, <3>1, Zenon DEF WaitOK
  <2> QED
    BY <2>1, Zenon DEF WaitInv, WaitOK
<1>19. SleepInv'
  <2>1. ASSUME NEW u \in Threads, waitq'[u] # "none"  PROVE SleepOK(u)'
    <3>1. u # n /\ waitq'[u] = waitq[u] /\ tproc'[u] = tproc[u] /\ SleepOK(u) /\ PathOK(u) /\ Linked(u)
      BY <1>0, <1>5, <2>1, Zenon DEF SleepInv, PathInv, SlotInv, SlotOK
    <3>2. DeadTarget(u)' = DeadTarget(u) /\ Target(u)' = Target(u)
      BY <1>1, <3>1, ZenonT(60) DEF DeadTarget, Target
    <3>3. waitq[u] = "join" =>
            /\ peer[u] \in Threads /\ peer[u] # n /\ tproc[u] \in Procs
            /\ Joins(u) /\ (tstate[peer[u]] = "zombie" => peer[u] \in tlist[tproc[u]])
      BY <1>0, <1>4, <3>1, SMT, SMTT(60) DEF SleepOK, PathOK, Joins, Linked, TypeOK
    <3> QED
      BY <1>1, <1>5, <1>6, <3>1, <3>2, <3>3, ZenonT(60) DEF SleepOK, Joins
  <2> QED
    BY <2>1, Zenon DEF SleepInv, SleepOK
<1>20. CancelledNeverSleeps'
  <2>1. ASSUME NEW u \in Threads, tstate[u] = "blocked", waitq'[u] # "none"
        PROVE  ~killed'[u] /\ ~cancelled[tproc'[u]]
    BY <1>0, <1>5, <2>1, Zenon DEF CancelledNeverSleeps
  <2> QED
    BY <1>1, <2>1, Zenon DEF CancelledNeverSleeps
<1> QED
  BY <1>7, <1>10, <1>11, <1>12, <1>13, <1>14, <1>15, <1>16, <1>17, <1>18, <1>19, <1>20,
     Zenon DEF IInv

\* Undoing the reservations keeps the invariant.
LEMMA UndoKeeps ==
  ASSUME IInv, NEW c \in Cpus, NEW t \in Threads, NEW p, NEW U, UndoStep(c, t, p, U)
  PROVE  IInv'
<1>0. /\ TypeOK /\ LockInv /\ DyingInv /\ CurInv /\ CpuInv /\ SlotInv /\ PathInv /\ KillInv
      /\ ListInv /\ CountInv /\ PendInv /\ PidInv /\ FamInv /\ MakeInv /\ WaitInv /\ SleepInv
      /\ CancelledNeverSleeps
  BY Zenon DEF IInv
<1>1. /\ UNCHANGED <<tproc, tcpu, waitq, joinable, killed, susp, want>>
      /\ UNCHANGED <<parent, ppid, zombies, tlist, live, pcpu, cancelled, ended>>
      /\ UNCHANGED <<cur, pendT, pendP, lock, at, dying, nextPid, ctrlz>>
      /\ cur[c] = t /\ tstate[t] = "running" /\ lock # c /\ p = nproc[t]
  BY Zenon DEF UndoStep, cpuVars, lockVars
<1>2. /\ p \in Procs /\ tproc[t] \in Procs /\ InUse(tproc[t]) /\ waitq[t] = "none" /\ t \notin U
      /\ pc[t] \in Making /\ pc[t] # "publish" /\ None \notin Procs
      /\ \A n \in U : /\ n \in Threads /\ tstate[n] = "blocked" /\ waitq[n] = "none"
                      /\ tcpu[n] = None /\ tproc[n] = None
  <2>1. pc[t] \in Making /\ pc[t] # "publish" /\ (pc[t] = "mkthread" => pc[t] \in Reserving)
    BY Zenon DEF UndoStep, Making, Reserving
  <2>2. MakeThreadOK(t) /\ PathOK(t)
    BY <1>0, Zenon DEF MakeInv, PathInv
  <2>3. \A n \in U : /\ n \in Threads /\ tstate[n] = "blocked" /\ waitq[n] = "none"
                     /\ tcpu[n] = None /\ tproc[n] = None
    BY <1>0, <2>1, <2>2 DEF UndoStep, MakeThreadOK, PathOK, TypeOK
  <2>4. p \in Procs /\ None \notin Procs
    BY <1>0, <1>1, <2>1, <2>2, ConstantsAssumption, Zenon DEF PathOK, TypeOK
  <2>5. t \notin U
    BY <1>1, <2>3, Zenon
  <2> QED
    BY <1>1, <2>1, <2>3, <2>4, <2>5, RunFacts, ZenonT(120)
<1>3. /\ \A u \in Threads : tstate'[u] = IF u \in U THEN "unused" ELSE tstate[u]
      /\ \A q \in Procs : pid'[q] = IF q = p /\ p # tproc[t] THEN 0 ELSE pid[q]
      /\ pc'[t] = "ret" /\ nproc'[t] = None
      /\ \A u \in Threads : u # t => pc'[u] = pc[u] /\ nproc'[u] = nproc[u] /\ peer'[u] = peer[u]
  BY <1>0, Zenon DEF UndoStep, TypeOK
<1>4. TypeOK'
  <2>1. tstate' \in [Threads -> TStates] /\ pid' \in [Procs -> Nat]
    BY <1>0, Zenon DEF UndoStep, TypeOK, TStates
  <2>2. /\ pc' \in [Threads -> Paths] /\ nproc' \in [Threads -> Procs \cup {None}]
        /\ peer' \in [Threads -> Threads \cup {None}]
    BY <1>0, Zenon DEF UndoStep, TypeOK, Paths
  <2> QED
    BY <1>0, <1>1, <2>1, <2>2, Zenon DEF TypeOK
<1>5. /\ p # tproc[t] =>
           /\ pid[p] # 0 /\ tlist[p] = {} /\ Unborn(p)
           /\ \A z \in Procs : parent[z] = p => ppid[z] # pid[p]
      /\ \A u \in Threads : u # t /\ nproc[u] = p /\ p # tproc[t] => tproc[u] = p
      /\ \A u \in Threads : u # t /\ pc[u] \in Reserving => peer[u] \notin U
  <2>1. p # tproc[t] =>
           /\ pid[p] # 0 /\ tlist[p] = {} /\ Unborn(p)
           /\ \A z \in Procs : parent[z] = p => ppid[z] # pid[p]
    <3>1. MakeProcOK(t)
      BY <1>0, Zenon DEF MakeInv
    <3> QED
      BY <1>1, <1>2, <3>1, Zenon DEF MakeProcOK, Unborn
  <2>2. ASSUME NEW u \in Threads, u # t, nproc[u] = p  PROVE tproc[u] = p
    <3>1. Apart(t, u) /\ pc[u] \in Making
      BY <1>0, <1>2, <2>2, Zenon DEF MakeInv, PathInv, PathOK
    <3> QED
      BY <1>1, <1>2, <2>2, <3>1, Zenon DEF Apart
  <2>3. ASSUME NEW u \in Threads, u # t, pc[u] \in Reserving  PROVE peer[u] \notin U
    <3>1. Apart(u, t)
      BY <1>0, <2>3, Zenon DEF MakeInv
    <3> QED
      BY <2>3, <3>1, Zenon DEF Apart, UndoStep, Reserving
  <2> QED
    BY <2>1, <2>2, <2>3, Zenon
<1>6. /\ \A u \in Threads : Linked(u)' <=> Linked(u)
      /\ \A q \in Procs : q # p \/ p = tproc[t] => (Unborn(q)' <=> Unborn(q)) /\ pid'[q] = pid[q]
      /\ p # tproc[t] => ~Unborn(p)' /\ pid'[p] = 0
  <2>1. \A u \in Threads : Linked(u)' <=> Linked(u)
    BY <1>1, Zenon DEF Linked
  <2>2. \A q \in Procs : q # p \/ p = tproc[t] => (Unborn(q)' <=> Unborn(q))
    BY <1>1, <1>2, <1>3, SMT, SMTT(60) DEF Unborn
  <2>3. p # tproc[t] => ~Unborn(p)'
    BY <1>1, <1>2, <1>3, <1>5, ZenonT(120) DEF Unborn
  <2> QED
    BY <1>2, <1>3, <2>1, <2>2, <2>3, Zenon
<1>7. \A q \in Procs : (ParentIsAlive(q)' <=> ParentIsAlive(q))
  <2>1. ASSUME NEW q \in Procs  PROVE ParentIsAlive(q)' <=> ParentIsAlive(q)
    <3>1. parent[q] \in Procs \cup {None}
      BY <1>0, Zenon DEF TypeOK
    <3>2. CASE parent[q] = p /\ p # tproc[t]
      BY <1>1, <1>5, <1>6, <3>2, Zenon DEF ParentIsAlive
    <3>3. CASE ~(parent[q] = p /\ p # tproc[t])
      BY <1>1, <1>6, <3>1, <3>3, Zenon DEF ParentIsAlive
    <3> QED
      BY <3>2, <3>3, Zenon
  <2> QED
    BY <2>1, Zenon
<1>8. \A u \in Threads : Linked(u) => tproc[u] \in Procs /\ pid'[tproc[u]] = pid[tproc[u]]
  BY <1>5, <1>6, Zenon DEF Linked
<1>10. LockInv' /\ DyingInv'
  <2>1. cur[lock] \in Threads => (tstate'[cur[lock]] = "zombie" <=> tstate[cur[lock]] = "zombie")
    BY <1>2, <1>3, Zenon
  <2>2. at = "switch" => lock \in Cpus /\ (cur[lock] # Idle => cur[lock] \in Threads)
    BY <1>0, Zenon DEF LockInv, TypeOK
  <2>3. LockInv'
    BY <1>0, <1>1, <1>6, <2>1, <2>2, Zenon DEF LockInv
  <2>4. DyingInv'
    <3>1. dying # None => dying \in Procs
      BY <1>0, Zenon DEF TypeOK
    <3> QED
      BY <1>0, <1>1, <1>7, <2>1, <2>2, <3>1, Zenon DEF DyingInv
  <2> QED
    BY <2>3, <2>4, Zenon
<1>11. CurInv'
  <2>1. ASSUME NEW d \in Cpus, cur[d] # Idle  PROVE CurOK(d)'
    <3>1. CurOK(d) /\ cur[d] \in Threads
      BY <1>0, <2>1, Zenon DEF CurInv, TypeOK
    <3>2. cur[d] \notin U /\ tstate'[cur[d]] = tstate[cur[d]]
      BY <1>2, <1>3, <2>1, <3>1, Zenon DEF CurOK, CurState
    <3>3. InUse(tproc[cur[d]])'
      <4>1. InUse(tproc[cur[d]]) /\ tproc'[cur'[d]] = tproc[cur[d]]
        BY <1>1, <2>1, <3>1, Zenon DEF CurOK
      <4> QED
        BY <1>1, <1>5, <1>6, <4>1, Zenon DEF InUse
    <3> QED
      BY <1>1, <1>6, <2>1, <3>1, <3>2, <3>3, Zenon DEF CurOK, CurState
  <2> QED
    BY <1>1, <2>1, Zenon DEF CurInv, CurOK
<1>12. CpuInv' /\ SlotInv' /\ PathInv'
  <2>1. ASSUME NEW u \in Threads  PROVE SlotOK(u)' /\ CpuOK(u)'
    <3>1. SlotOK(u) /\ CpuOK(u) /\ (Linked(u)' <=> Linked(u))
      BY <1>0, <1>6, Zenon DEF SlotInv, CpuInv
    <3> QED
      BY <1>1, <1>2, <1>3, <3>1, ZenonT(60) DEF SlotOK, CpuOK
  <2>2. ASSUME NEW u \in Threads  PROVE PathOK(u)'
    <3>1. PathOK(u)
      BY <1>0, Zenon DEF PathInv
    <3>2. CASE u = t
      <4>1. /\ pc'[t] = "ret" /\ waitq'[t] = "none" /\ nproc'[t] = None
        BY <1>1, <1>2, <1>3, Zenon
      <4> QED
        BY <3>2, <4>1, Zenon DEF PathOK, Making, Reserving
    <3>3. CASE u # t
      <4>1. pc'[u] = pc[u] /\ nproc'[u] = nproc[u] /\ peer'[u] = peer[u] /\ waitq'[u] = waitq[u]
        BY <1>1, <1>3, <3>3, Zenon
      <4>2. u \in U => pc[u] \notin Making \cup {"wait", "join"}
        BY <1>2, <3>1, Zenon DEF PathOK
      <4> QED
        BY <1>3, <3>1, <4>1, <4>2, Zenon DEF PathOK
    <3> QED
      BY <3>2, <3>3, Zenon
  <2> QED
    BY <2>1, <2>2, Zenon DEF CpuInv, SlotInv, PathInv
<1>13. KillInv' /\ CountInv' /\ CancelledNeverSleeps'
  <2>1. KillInv'
    BY <1>0, <1>1, <1>6, Zenon DEF KillInv
  <2>2. CountInv'
    BY <1>0, <1>1, Zenon DEF CountInv
  <2>3. CancelledNeverSleeps'
    BY <1>0, <1>1, <1>2, <1>3, ZenonT(120) DEF CancelledNeverSleeps
  <2> QED
    BY <2>1, <2>2, <2>3, Zenon
<1>14. ListInv' /\ PidInv'
  <2>1. ASSUME NEW q \in Procs  PROVE ListOK(q)'
    <3>1. ListOK(q) /\ tlist[q] \subseteq Threads
      BY <1>0, Zenon DEF ListInv, TypeOK
    <3>2. \A u \in tlist[q] : tproc[u] = q /\ u \notin U
      BY <1>2, <3>1, Zenon DEF ListOK
    <3> QED
      BY <1>1, <1>3, <1>5, <3>1, <3>2, ZenonT(60) DEF ListOK
  <2>2. PidInv'
    <3>1. ASSUME NEW q \in Procs  PROVE pid'[q] < nextPid
      <4>1. pid[q] \in Nat /\ nextPid \in Nat /\ pid[q] < nextPid
        BY <1>0, Zenon DEF PidInv, TypeOK
      <4>2. pid'[q] = pid[q] \/ pid'[q] = 0
        BY <1>6, Zenon
      <4> QED
        BY <4>1, <4>2, SMT
    <3>2. \A q, z \in Procs : pid'[q] = pid'[z] /\ pid'[q] # 0 => q = z
      BY <1>0, <1>3, ZenonT(120) DEF PidInv
    <3> QED
      BY <1>0, <1>1, <3>1, <3>2, Zenon DEF PidInv
  <2> QED
    BY <2>1, <2>2, Zenon DEF ListInv
<1>15. PendInv'
  <2>1. ASSUME NEW d \in Cpus  PROVE PendTOK(d)' /\ PendPOK(d)'
    <3>1. PendTOK(d) /\ PendPOK(d) /\ pendT[d] \in Threads \cup {None} /\ pendP[d] \in Procs \cup {None}
      BY <1>0, Zenon DEF PendInv, TypeOK
    <3>2. PendTOK(d)'
      BY <1>1, <1>2, <1>3, <3>1, Zenon DEF PendTOK
    <3>3. PendPOK(d)'
      BY <1>1, <1>5, <1>6, <1>7, <3>1, Zenon DEF PendPOK
    <3> QED
      BY <3>2, <3>3, Zenon
  <2> QED
    BY <1>0, <1>1, <2>1, Zenon DEF PendInv
<1>16. FamInv'
  <2>1. ASSUME NEW q \in Procs, NEW z \in Procs
        PROVE  z \in zombies'[q] <=> DeadChild(z, q)'
    <3>1. z \in zombies[q] <=> DeadChild(z, q)
      BY <1>0, Zenon DEF FamInv
    <3>2. DeadChild(z, q)' <=> DeadChild(z, q)
      <4>1. CASE p # tproc[t] /\ (z = p \/ q = p)
        BY <1>1, <1>5, <1>6, <4>1, ZenonT(60) DEF DeadChild
      <4>2. CASE ~(p # tproc[t] /\ (z = p \/ q = p))
        BY <1>1, <1>6, <4>2, Zenon DEF DeadChild
      <4> QED
        BY <4>1, <4>2, Zenon
    <3> QED
      BY <1>1, <3>1, <3>2, Zenon
  <2> QED
    BY <2>1, Zenon DEF FamInv
<1>17. MakeInv'
  <2>1. ASSUME NEW u \in Threads  PROVE MakeProcOK(u)' /\ MakeThreadOK(u)'
    <3>1. MakeProcOK(u) /\ MakeThreadOK(u)
      BY <1>0, Zenon DEF MakeInv
    <3>2. CASE u = t
      BY <1>3, <3>2, Zenon DEF MakeProcOK, MakeThreadOK, Making, Reserving
    <3>3. CASE u # t
      <4>1. /\ pc'[u] = pc[u] /\ nproc'[u] = nproc[u] /\ peer'[u] = peer[u] /\ tproc'[u] = tproc[u]
            /\ UNCHANGED <<parent, ppid, tlist, tproc, waitq, tcpu>>
        BY <1>1, <1>3, <3>3, Zenon
      <4>2. pc[u] \in Making /\ nproc[u] # tproc[u] => nproc[u] \in Procs /\ pid'[nproc[u]] = pid[nproc[u]]
        BY <1>0, <1>5, <1>6, <3>3, ZenonT(120) DEF PathInv, PathOK, TypeOK
      <4>3. MakeProcOK(u)'
        BY <3>1, <4>1, <4>2, Zenon DEF MakeProcOK
      <4>4. pc[u] \in Reserving => /\ peer[u] \in Threads /\ tstate'[peer[u]] = tstate[peer[u]]
                                   /\ (Linked(peer[u])' <=> Linked(peer[u]))
        <5>1. pc[u] \in Reserving => peer[u] \in Threads /\ peer[u] \notin U
          BY <1>0, <1>5, <3>3, ZenonT(60) DEF PathInv, PathOK, TypeOK
        <5> QED
          BY <1>1, <1>3, <5>1, <4>1, Zenon DEF Linked
      <4>5. MakeThreadOK(u)'
        BY <3>1, <4>1, <4>4, Zenon DEF MakeThreadOK, Reserving
      <4> QED
        BY <4>3, <4>5, Zenon
    <3> QED
      BY <3>2, <3>3, Zenon
  <2>2. ASSUME NEW u \in Threads, NEW v \in Threads, u # v  PROVE Apart(u, v)'
    <3>1. Apart(u, v) /\ tproc' = tproc
      BY <1>0, <1>1, <2>2, Zenon DEF MakeInv
    <3>2. \A w \in Threads : /\ pc'[w] \in Making => w # t
                             /\ pc'[w] \in Reserving => w # t
      BY <1>3, Zenon DEF Making, Reserving
    <3> QED
      BY <1>3, <3>1, <3>2, Zenon DEF Apart
  <2> QED
    BY <2>1, <2>2, Zenon DEF MakeInv
<1>18. WaitInv'
  <2>1. ASSUME NEW u \in Threads, pc'[u] = "wait"  PROVE WaitOK(u)'
    <3>1. WaitOK(u) /\ pc[u] = "wait" /\ Linked(u)
      BY <1>0, <1>3, <2>1, ZenonT(60) DEF WaitInv, PathInv, PathOK, SlotInv, SlotOK
    <3>2. pid'[tproc[u]] = pid[tproc[u]]
      BY <1>8, <3>1, Zenon
    <3> QED
      BY <1>1, <1>5, <1>6, <3>1, <3>2, ZenonT(60) DEF WaitOK
  <2> QED
    BY <2>1, Zenon DEF WaitInv, WaitOK
<1>19. SleepInv'
  <2>1. ASSUME NEW u \in Threads, waitq'[u] # "none"  PROVE SleepOK(u)'
    <3>1. waitq[u] # "none" /\ SleepOK(u) /\ PathOK(u) /\ Linked(u) /\ u # t
      BY <1>0, <1>1, <1>2, <2>1, Zenon DEF SleepInv, PathInv, SlotInv, SlotOK
    <3>2. waitq[u] = "child" => DeadTarget(u)' = DeadTarget(u) /\ Target(u)' = Target(u)
      <4>1. waitq[u] = "child" => WaitOK(u) /\ pc[u] = "wait"
        BY <1>0, <3>1, Zenon DEF WaitInv, PathOK
      <4>2. waitq[u] = "child" => \A q \in Procs : pid'[q] = want[u] <=> pid[q] = want[u]
        BY <1>5, <1>6, <4>1, Zenon DEF WaitOK
      <4>3. zombies[tproc[u]] \subseteq Procs
        BY <1>0, <3>1, Zenon DEF Linked, TypeOK
      <4> QED
        BY <1>1, <4>2, <4>3, Zenon DEF DeadTarget, Target
    <3>3. waitq[u] = "join" =>
            /\ peer'[u] = peer[u] /\ peer[u] \in Threads /\ peer[u] \notin U
      BY <1>0, <1>2, <1>3, <3>1, ZenonT(120) DEF SleepOK, PathOK, Joins, Linked, TypeOK
    <3> QED
      BY <1>1, <1>3, <3>1, <3>2, <3>3, ZenonT(60) DEF SleepOK, Joins
  <2> QED
    BY <2>1, Zenon DEF SleepInv, SleepOK
<1> QED
  BY <1>4, <1>10, <1>11, <1>12, <1>13, <1>14, <1>15, <1>16, <1>17, <1>18, <1>19,
     ZenonT(60) DEF IInv

\* Making the new thread schedulable keeps the invariant.
LEMMA PublishKeeps ==
  ASSUME IInv, NEW c \in Cpus, NEW t \in Threads, Publish(c, t)
  PROVE  IInv'
<1>0. /\ TypeOK /\ LockInv /\ DyingInv /\ CurInv /\ CpuInv /\ SlotInv /\ PathInv /\ KillInv
      /\ ListInv /\ CountInv /\ PendInv /\ PidInv /\ FamInv /\ MakeInv /\ WaitInv /\ SleepInv
      /\ CancelledNeverSleeps
  BY Zenon DEF IInv
<1>1. /\ UNCHANGED <<tproc, tcpu, waitq, joinable, killed, susp, want>>
      /\ UNCHANGED <<pid, parent, ppid, zombies, tlist, live, pcpu, cancelled, ended>>
      /\ UNCHANGED <<cur, pendT, pendP, lock, at, dying, nextPid, ctrlz>>
      /\ cur[c] = t /\ tstate[t] = "running" /\ lock # c /\ pc[t] = "publish"
  BY Zenon DEF Publish, At, procVars, famVars, cpuVars, lockVars
<1>2. PICK n \in Threads, p \in Procs : n = peer[t] /\ p = nproc[t]
  <2>1. pc[t] \in Reserving /\ pc[t] \in Making
    BY <1>1, Zenon DEF Making, Reserving
  <2> QED
    BY <1>0, <2>1, Zenon DEF PathInv, PathOK, TypeOK
<1>3. /\ tproc[t] \in Procs /\ InUse(tproc[t]) /\ waitq[t] = "none" /\ None \notin Procs
      /\ n # t /\ tstate[n] = "blocked" /\ waitq[n] = "none" /\ tcpu[n] = None /\ tproc[n] = p
      /\ Linked(n) /\ n \in tlist[p] /\ pc[t] \in Making /\ pc[t] \in Reserving
  <2>1. pc[t] \in Reserving /\ pc[t] \in Making
    BY <1>1, Zenon DEF Making, Reserving
  <2>2. MakeThreadOK(t)
    BY <1>0, Zenon DEF MakeInv
  <2>3. /\ tstate[n] = "blocked" /\ waitq[n] = "none" /\ tcpu[n] = None /\ tproc[n] = p
        /\ Linked(n)
    BY <1>1, <1>2, <2>1, <2>2, Zenon DEF MakeThreadOK
  <2>4. None \notin Procs /\ n \in tlist[p]
    BY <2>3, ConstantsAssumption, Zenon DEF Linked
  <2> QED
    BY <1>1, <2>1, <2>3, <2>4, RunFacts, Zenon
<1>4. /\ \A u \in Threads : tstate'[u] = IF u = n THEN "ready" ELSE tstate[u]
      /\ pc'[t] = "ret" /\ nproc'[t] = None
      /\ \A u \in Threads : u # t => pc'[u] = pc[u] /\ nproc'[u] = nproc[u] /\ peer'[u] = peer[u]
  BY <1>0, <1>2, Zenon DEF Publish, TypeOK
<1>5. TypeOK'
  <2>1. tstate' \in [Threads -> TStates]
    BY <1>0, Zenon DEF Publish, TypeOK, TStates
  <2>2. /\ pc' \in [Threads -> Paths] /\ nproc' \in [Threads -> Procs \cup {None}]
        /\ peer' \in [Threads -> Threads \cup {None}]
    BY <1>0, Zenon DEF Publish, TypeOK, Paths
  <2> QED
    BY <1>0, <1>1, <2>1, <2>2, Zenon DEF TypeOK
<1>6. /\ \A u \in Threads : Linked(u)' <=> Linked(u)
      /\ \A q \in Procs : Unborn(q)' => Unborn(q)
      /\ \A q \in Procs : q # p => (Unborn(q)' <=> Unborn(q))
      /\ \A q \in Procs : ParentIsAlive(q)' <=> ParentIsAlive(q)
      /\ \A u \in Threads : u # t /\ pc[u] \in Reserving => peer[u] # n
  <2>1. \A u \in Threads : Linked(u)' <=> Linked(u)
    BY <1>1, Zenon DEF Linked
  <2>2. \A q \in Procs : Unborn(q)' => Unborn(q)
    BY <1>1, <1>3, <1>4, ZenonT(120) DEF Unborn
  <2>3. \A q \in Procs : q # p => (Unborn(q)' <=> Unborn(q))
    BY <1>1, <1>2, <1>3, <1>4 DEF Unborn
  <2>4. \A q \in Procs : ParentIsAlive(q)' <=> ParentIsAlive(q)
    BY <1>1, Zenon DEF ParentIsAlive
  <2>5. ASSUME NEW u \in Threads, u # t, pc[u] \in Reserving  PROVE peer[u] # n
    <3>1. Apart(u, t)
      BY <1>0, <2>5, Zenon DEF MakeInv
    <3> QED
      BY <1>2, <1>3, <2>5, <3>1, Zenon DEF Apart
  <2> QED
    BY <2>1, <2>2, <2>3, <2>4, <2>5, Zenon
<1>10. LockInv' /\ DyingInv'
  <2>1. cur[lock] \in Threads => (tstate'[cur[lock]] = "zombie" <=> tstate[cur[lock]] = "zombie")
    BY <1>3, <1>4, Zenon
  <2>2. at = "switch" => lock \in Cpus /\ (cur[lock] # Idle => cur[lock] \in Threads)
    BY <1>0, Zenon DEF LockInv, TypeOK
  <2>3. LockInv'
    BY <1>0, <1>1, <1>6, <2>1, <2>2, Zenon DEF LockInv
  <2>4. DyingInv'
    <3>1. dying # None => dying \in Procs
      BY <1>0, Zenon DEF TypeOK
    <3> QED
      BY <1>0, <1>1, <1>6, <2>1, <2>2, <3>1, Zenon DEF DyingInv
  <2> QED
    BY <2>3, <2>4, Zenon
<1>11. CurInv'
  <2>1. ASSUME NEW d \in Cpus, cur[d] # Idle  PROVE CurOK(d)'
    <3>1. CurOK(d) /\ cur[d] \in Threads
      BY <1>0, <2>1, Zenon DEF CurInv, TypeOK
    <3>2. cur[d] # n /\ tstate'[cur[d]] = tstate[cur[d]]
      BY <1>3, <1>4, <2>1, <3>1, ZenonT(60) DEF CurOK, CurState
    <3>3. InUse(tproc[cur[d]])'
      <4>1. InUse(tproc[cur[d]]) /\ tproc'[cur'[d]] = tproc[cur[d]]
        BY <1>1, <2>1, <3>1, Zenon DEF CurOK
      <4> QED
        BY <1>1, <1>6, <4>1, ZenonT(60) DEF InUse
    <3> QED
      BY <1>1, <1>6, <2>1, <3>1, <3>2, <3>3, ZenonT(60) DEF CurOK, CurState
  <2> QED
    BY <1>1, <2>1, Zenon DEF CurInv, CurOK
<1>12. CpuInv' /\ SlotInv' /\ PathInv'
  <2>1. ASSUME NEW u \in Threads  PROVE SlotOK(u)' /\ CpuOK(u)'
    <3>1. SlotOK(u) /\ CpuOK(u) /\ (Linked(u)' <=> Linked(u))
      BY <1>0, <1>6, Zenon DEF SlotInv, CpuInv
    <3> QED
      BY <1>1, <1>3, <1>4, <3>1, ZenonT(60) DEF SlotOK, CpuOK
  <2>2. ASSUME NEW u \in Threads  PROVE PathOK(u)'
    <3>1. PathOK(u)
      BY <1>0, Zenon DEF PathInv
    <3>2. CASE u = t
      <4>1. /\ pc'[t] = "ret" /\ waitq'[t] = "none" /\ nproc'[t] = None
        BY <1>1, <1>3, <1>4, Zenon
      <4> QED
        BY <3>2, <4>1, Zenon DEF PathOK, Making, Reserving
    <3>3. CASE u # t
      <4>1. pc'[u] = pc[u] /\ nproc'[u] = nproc[u] /\ peer'[u] = peer[u] /\ waitq'[u] = waitq[u]
        BY <1>1, <1>4, <3>3, Zenon
      <4> QED
        BY <1>4, <3>1, <4>1, Zenon DEF PathOK
    <3> QED
      BY <3>2, <3>3, Zenon
  <2> QED
    BY <2>1, <2>2, Zenon DEF CpuInv, SlotInv, PathInv
<1>13. KillInv' /\ CountInv' /\ PidInv' /\ CancelledNeverSleeps'
  <2>1. KillInv'
    BY <1>0, <1>1, <1>6, Zenon DEF KillInv
  <2>2. CountInv' /\ PidInv'
    BY <1>0, <1>1, Zenon DEF CountInv, PidInv
  <2>3. CancelledNeverSleeps'
    BY <1>0, <1>1, <1>3, <1>4, ZenonT(60) DEF CancelledNeverSleeps
  <2> QED
    BY <2>1, <2>2, <2>3, ZenonT(60)
<1>14. ListInv'
  <2>1. ASSUME NEW q \in Procs  PROVE ListOK(q)'
    <3>1. ListOK(q) /\ tlist[q] \subseteq Threads
      BY <1>0, Zenon DEF ListInv, TypeOK
    <3> QED
      BY <1>1, <1>4, <3>1, Zenon DEF ListOK
  <2> QED
    BY <2>1, Zenon DEF ListInv
<1>15. PendInv'
  <2>1. ASSUME NEW d \in Cpus  PROVE PendTOK(d)' /\ PendPOK(d)'
    <3>1. PendTOK(d) /\ PendPOK(d) /\ pendT[d] \in Threads \cup {None} /\ pendP[d] \in Procs \cup {None}
      BY <1>0, Zenon DEF PendInv, TypeOK
    <3>2. PendTOK(d)'
      BY <1>1, <1>3, <1>4, <3>1, Zenon DEF PendTOK
    <3>3. PendPOK(d)'
      BY <1>1, <1>6, <3>1, ZenonT(60) DEF PendPOK
    <3> QED
      BY <3>2, <3>3, Zenon
  <2> QED
    BY <1>0, <1>1, <2>1, ZenonT(60) DEF PendInv
<1>16. FamInv'
  <2>1. ASSUME NEW q \in Procs, NEW z \in Procs
        PROVE  z \in zombies'[q] <=> DeadChild(z, q)'
    <3>1. z \in zombies[q] <=> DeadChild(z, q)
      BY <1>0, Zenon DEF FamInv
    <3>2. DeadChild(z, q)' <=> DeadChild(z, q)
      <4>1. CASE z = p
        BY <1>1, <1>3, <4>1, Zenon DEF DeadChild
      <4>2. CASE z # p
        BY <1>1, <1>6, <4>2, ZenonT(60) DEF DeadChild
      <4> QED
        BY <4>1, <4>2, Zenon
    <3> QED
      BY <1>1, <3>1, <3>2, Zenon
  <2> QED
    BY <2>1, Zenon DEF FamInv
<1>17. MakeInv'
  <2>1. ASSUME NEW u \in Threads  PROVE MakeProcOK(u)' /\ MakeThreadOK(u)'
    <3>1. MakeProcOK(u) /\ MakeThreadOK(u)
      BY <1>0, Zenon DEF MakeInv
    <3>2. CASE u = t
      BY <1>4, <3>2, ZenonT(60) DEF MakeProcOK, MakeThreadOK, Making, Reserving
    <3>3. CASE u # t
      <4>1. /\ pc'[u] = pc[u] /\ nproc'[u] = nproc[u] /\ peer'[u] = peer[u] /\ tproc'[u] = tproc[u]
            /\ UNCHANGED <<pid, parent, ppid, tlist, tproc, waitq, tcpu>>
        BY <1>1, <1>4, <3>3, Zenon
      <4>2. MakeProcOK(u)'
        BY <3>1, <4>1, Zenon DEF MakeProcOK
      <4>3. pc[u] \in Reserving => /\ peer[u] \in Threads /\ tstate'[peer[u]] = tstate[peer[u]]
                                   /\ (Linked(peer[u])' <=> Linked(peer[u]))
        <5>1. pc[u] \in Reserving => peer[u] \in Threads /\ peer[u] # n
          BY <1>0, <1>6, <3>3, Zenon DEF PathInv, PathOK, TypeOK
        <5> QED
          BY <1>4, <1>6, <5>1, <4>1, Zenon DEF Linked
      <4>4. MakeThreadOK(u)'
        BY <3>1, <4>1, <4>3, Zenon DEF MakeThreadOK, Reserving
      <4> QED
        BY <4>2, <4>4, Zenon
    <3> QED
      BY <3>2, <3>3, Zenon
  <2>2. ASSUME NEW u \in Threads, NEW v \in Threads, u # v  PROVE Apart(u, v)'
    <3>1. Apart(u, v) /\ tproc' = tproc
      BY <1>0, <1>1, <2>2, Zenon DEF MakeInv
    <3>2. \A w \in Threads : /\ pc'[w] \in Making => w # t
                             /\ pc'[w] \in Reserving => w # t
      BY <1>4, Zenon DEF Making, Reserving
    <3> QED
      BY <1>4, <3>1, <3>2, Zenon DEF Apart
  <2> QED
    BY <2>1, <2>2, Zenon DEF MakeInv
<1>18. WaitInv'
  <2>1. ASSUME NEW u \in Threads, pc'[u] = "wait"  PROVE WaitOK(u)'
    <3>1. WaitOK(u) /\ pc[u] = "wait"
      BY <1>0, <1>4, <2>1, ZenonT(60) DEF WaitInv
    <3> QED
      BY <1>1, <1>6, <3>1, Zenon DEF WaitOK
  <2> QED
    BY <2>1, Zenon DEF WaitInv, WaitOK
<1>19. SleepInv'
  <2>1. ASSUME NEW u \in Threads, waitq'[u] # "none"  PROVE SleepOK(u)'
    <3>1. waitq[u] # "none" /\ SleepOK(u) /\ PathOK(u) /\ u # t
      BY <1>0, <1>1, <1>3, <2>1, Zenon DEF SleepInv, PathInv
    <3>2. DeadTarget(u)' = DeadTarget(u) /\ Target(u)' = Target(u)
      BY <1>1, Zenon DEF DeadTarget, Target
    <3>3. waitq[u] = "join" =>
            /\ peer'[u] = peer[u] /\ peer[u] \in Threads
            /\ (tstate'[peer[u]] = "zombie" => tstate[peer[u]] = "zombie")
            /\ (tstate'[peer[u]] = "unused" => tstate[peer[u]] = "unused")
      BY <1>0, <1>4, <3>1, Zenon DEF PathOK, TypeOK
    <3> QED
      BY <1>1, <3>1, <3>2, <3>3, Zenon DEF SleepOK, Joins
  <2> QED
    BY <2>1, Zenon DEF SleepInv, SleepOK
<1> QED
  BY <1>5, <1>10, <1>11, <1>12, <1>13, <1>14, <1>15, <1>16, <1>17, <1>18, <1>19, Zenon
     DEF IInv

\* process_kill_code, process_cancel and process_exit_self flag every live thread of the
\* process and wake its sleepers, so nobody of it is left unflagged or asleep.
LEMMA FlagKeeps ==
  ASSUME IInv, NEW p \in Procs, NEW t, NEW S, FlagStep(p, t, S)
  PROVE  KillInv' /\ CancelledNeverSleeps'
<1>0. TypeOK /\ SlotInv /\ ListInv /\ KillInv /\ CancelledNeverSleeps
  BY Zenon DEF IInv
<1>1. /\ tproc' = tproc /\ Roused(p, t) \subseteq S
      /\ \A q \in Procs : cancelled'[q] = (cancelled[q] \/ q = p)
      /\ \A u \in Threads : killed'[u] => killed[u] \/ u \in Victims(p, t)
      /\ \A q \in Procs : tlist'[q] \subseteq tlist[q]
  <2>1. /\ tproc' = tproc /\ Roused(p, t) \subseteq S
        /\ \A q \in Procs : tlist'[q] \subseteq tlist[q]
    BY Zenon DEF FlagStep
  <2>2. \A q \in Procs : cancelled'[q] = (cancelled[q] \/ q = p)
    BY <1>0, Zenon DEF FlagStep, TypeOK
  <2>3. \A u \in Threads : killed'[u] => killed[u] \/ u \in Victims(p, t)
    BY Zenon DEF FlagStep
  <2> QED
    BY <2>1, <2>2, <2>3, Zenon
<1>2. \A u \in Threads : u \in Victims(p, t) => tproc[u] = p
  BY <1>0, Zenon DEF Victims, ListInv, ListOK
<1>3. ASSUME NEW u \in Threads, killed'[u], Linked(u)'  PROVE cancelled'[tproc'[u]]
  <2>1. tproc[u] \in Procs /\ Linked(u)
    BY <1>1, <1>3, Zenon DEF Linked
  <2>2. killed[u] \/ tproc[u] = p
    BY <1>1, <1>2, <1>3, Zenon
  <2> QED
    BY <1>0, <1>1, <2>1, <2>2, Zenon DEF KillInv
<1>4. ASSUME NEW u \in Threads, tstate'[u] = "blocked", waitq'[u] # "none"
      PROVE  ~killed'[u] /\ ~cancelled'[tproc'[u]]
  <2>1. u # t /\ u \notin S /\ tstate[u] = "blocked" /\ waitq[u] # "none"
    BY <1>4, Zenon DEF FlagStep
  <2>2. Linked(u) /\ ~killed[u] /\ ~cancelled[tproc[u]]
    BY <1>0, <2>1, Zenon DEF SlotInv, SlotOK, CancelledNeverSleeps
  <2>3. tproc[u] # p
    <3>1. u \notin Roused(p, t)
      BY <1>1, <2>1, Zenon
    <3> QED
      BY <2>1, <2>2, <3>1, Zenon DEF Linked, Roused, Victims
  <2> QED
    BY <1>1, <1>2, <2>2, <2>3, Zenon DEF Linked
<1> QED
  BY <1>3, <1>4, Zenon DEF KillInv, CancelledNeverSleeps

\* Whoever a kill or a death wakes was asleep on a queue.
LEMMA WakersAsleep ==
  ASSUME TypeOK, NEW p, NEW t
  PROVE  /\ Roused(p, t) \subseteq {u \in tlist[p] : waitq[u] # "none"}
         /\ ZombieWakes(t) \subseteq {u \in Threads : waitq[u] # "none"}
  BY Zenon DEF Roused, Victims, ZombieWakes, Asleep

\* The middle part of schedule_locked(), thread_zombie_locked() included, keeps the
\* invariant: the current thread is alive, or killed just now, or dead already.
LEMMA ZombieKeeps ==
  ASSUME IInv, NEW c \in Cpus, Zombie(c)
  PROVE  IInv'
<1>0. TypeOK /\ DyingInv /\ KillInv /\ CancelledNeverSleeps /\ lock = c /\ at = "zombie"
  BY Zenon DEF IInv, Zombie
<1>1. dying = None
  BY <1>0, Zenon DEF DyingInv
<1>2. CASE cur[c] # Idle /\ Dies(cur[c])
  <2>1. PICK t \in Threads : t = cur[c]
    BY <1>0, <1>2, Zenon DEF TypeOK
  <2>2. ThreadZombie(t) /\ Unqueue(ZombieWakes(t))
    BY <1>2, <2>1, Zenon DEF Zombie
  <2>3. /\ tstate' = [Woken(tstate, ZombieWakes(t)) EXCEPT ![t] = "zombie"]
        /\ pc' = [pc EXCEPT ![t] = "dead"] /\ dying' = ZombieLeaves(t)
        /\ lock' = c /\ at' = "switch"
        /\ UNCHANGED <<tproc, tcpu, joinable, killed, susp, want, peer, nproc>>
        /\ UNCHANGED <<pid, parent, ppid, cancelled, ended, cpuVars, nextPid, ctrlz>>
    BY <1>0, <1>2, <2>1, Zenon DEF Zombie
  <2>4. ZombieWakes(t) \subseteq {u \in Threads : waitq[u] # "none"}
    BY <1>0, WakersAsleep, Zenon
  <2>5. tstate[t] \in {"running", "zombie"} /\ (tstate[t] = "running" => pc[t] = "user")
    BY <1>2, <2>1, Zenon DEF Dies
  <2>6. KillInv'
    <3>1. \A u \in Threads : Linked(u)' => Linked(u)
      BY <1>0, <2>1, <2>2, <2>3, Zenon DEF Linked, ThreadZombie, TypeOK
    <3> QED
      BY <1>0, <2>3, <3>1, Zenon DEF KillInv
  <2>7. CancelledNeverSleeps'
    <3>1. \A u \in Threads : tstate'[u] = "blocked" /\ waitq'[u] # "none" =>
                               tstate[u] = "blocked" /\ waitq[u] # "none"
      BY <2>1, <2>2, <2>3, Zenon DEF Unqueue, Woken
    <3> QED
      BY <1>0, <2>3, <3>1, ZenonT(60) DEF CancelledNeverSleeps
  <2>8. killed \in [Threads -> BOOLEAN] /\ susp \in [Threads -> BOOLEAN]
    BY <1>0, Zenon DEF TypeOK
  <2>9. cancelled \in [Procs -> BOOLEAN] /\ ended \in [Procs -> BOOLEAN]
    BY <1>0, Zenon DEF TypeOK
  <2>10. EndStep(c, t, ZombieWakes(t))
    BY <1>0, <2>1, <2>2, <2>3, <2>4, <2>5, <2>6, <2>7, <2>8, <2>9, ZenonT(60) DEF EndStep
  <2> QED
    BY <2>10, EndKeeps, Zenon
<1>3. CASE ~(cur[c] # Idle /\ Dies(cur[c]))
  <2>1. LockStep(c)
    BY <1>0, <1>1, <1>3, ZenonT(60)
    DEF Zombie, Dies, LockStep, threadVars, pathVars, procVars, famVars
  <2> QED
    BY <2>1, LockKeeps, Zenon
<1> QED
  BY <1>2, <1>3, Zenon

\* process_exit_self() keeps the invariant: it kills its siblings and dies.
LEMMA ProcessExitSelfKeeps ==
  ASSUME IInv, NEW c \in Cpus, NEW t \in Threads, ProcessExitSelf(c, t)
  PROVE  IInv'
<1> DEFINE p == tproc[t]
           S == Roused(p, t) \cup ZombieWakes(t)
<1>0. TypeOK /\ lock = None /\ cur[c] = t /\ tstate[t] = "running" /\ pc[t] = "user"
  BY Zenon DEF IInv, ProcessExitSelf, In, At
<1>1. p \in Procs
  BY <1>0, RunFacts, Zenon
<1>2. /\ ThreadZombie(t) /\ Unqueue(S) /\ FlagThreads(p, t)
      /\ tstate' = [Woken(tstate, S) EXCEPT ![t] = "zombie"]
      /\ pc' = [pc EXCEPT ![t] = "dead"] /\ lock' = c /\ at' = "reap" /\ dying' = None
      /\ UNCHANGED <<tproc, tcpu, joinable, want, peer, nproc>>
      /\ UNCHANGED <<pid, parent, ppid, cpuVars, nextPid, ctrlz>>
  BY Zenon DEF ProcessExitSelf, EnterSchedule
<1>3. S \subseteq {u \in Threads : waitq[u] # "none"}
  <2>1. tlist[p] \subseteq Threads
    BY <1>0, <1>1, Zenon DEF TypeOK
  <2> QED
    BY <1>0, <2>1, WakersAsleep, ZenonT(60)
<1>4. /\ killed' \in [Threads -> BOOLEAN] /\ susp' \in [Threads -> BOOLEAN]
      /\ cancelled' \in [Procs -> BOOLEAN] /\ ended' \in [Procs -> BOOLEAN]
  BY <1>0, <1>2, Zenon DEF FlagThreads, TypeOK
<1>5. FlagStep(p, t, S)
  <2>1. \A q \in Procs : tlist'[q] \subseteq tlist[q]
    BY <1>0, <1>1, <1>2, Zenon DEF ThreadZombie, TypeOK
  <2>2. \A u \in Threads : tstate'[u] = "blocked" /\ waitq'[u] # "none" =>
                             u # t /\ u \notin S /\ tstate[u] = "blocked" /\ waitq[u] # "none"
    BY <1>2, Zenon DEF Unqueue, Woken
  <2> QED
    BY <1>2, <2>1, <2>2, Zenon DEF FlagStep, FlagThreads
<1>6. KillInv' /\ CancelledNeverSleeps'
  BY <1>1, <1>5, FlagKeeps, Zenon
<1>7. EndStep(c, t, S)
  BY <1>0, <1>2, <1>3, <1>4, <1>6, Zenon DEF EndStep
<1> QED
  BY <1>7, EndKeeps, Zenon

\* Reclaiming at the head of schedule_locked() keeps the invariant.
LEMMA ReapKeeps ==
  ASSUME IInv, NEW c \in Cpus, Reap(c)
  PROVE  IInv'
<1> DEFINE others == {pendT[d] : d \in Cpus \ {c}}
           mine == {pendT[c]} \cap {t \in Threads : tstate[t] = "zombie"}
           G == mine \cup (IF pendP[c] = None THEN {} ELSE Orphans(pendP[c], others))
           P == {pendP[c]} \ {None}
<1>0. TypeOK /\ CurInv /\ PendInv /\ FamInv /\ lock = c /\ at = "reap"
  BY Zenon DEF IInv, Reap
<1>1. /\ FreeThreads(G) /\ Returns(G, None) /\ FreeProcs(P, {})
      /\ pendT' = [pendT EXCEPT ![c] = None] /\ pendP' = [pendP EXCEPT ![c] = None]
      /\ at' = "zombie" /\ UNCHANGED <<cur, lock, dying, nextPid, ctrlz>>
  BY Zenon DEF Reap
<1>2. None \notin Threads /\ None \notin Procs
  BY ConstantsAssumption, Zenon
<1>3. PendTOK(c) /\ PendPOK(c) /\ pendT[c] \in Threads \cup {None} /\ pendP[c] \in Procs \cup {None}
  BY <1>0, Zenon DEF PendInv, TypeOK
<1>4. /\ G \subseteq Threads /\ P \subseteq Procs
      /\ \A g \in G : tstate[g] = "zombie" /\ tcpu[g] = None
      /\ \A p \in P : pid[p] # 0 /\ tlist[p] = {} /\ ~Unborn(p) /\ ~ParentIsAlive(p)
  BY <1>2, <1>3, Zenon DEF Orphans, PendTOK, PendPOK
<1>5. \A d \in Cpus : cur[d] # Idle => tproc[cur[d]] \notin P
  BY <1>0, Zenon DEF CurInv, CurOK, InUse
<1>6. /\ pendT' \in [Cpus -> Threads \cup {None}] /\ pendP' \in [Cpus -> Procs \cup {None}]
      /\ \A d \in Cpus : pendT'[d] = IF d = c THEN None ELSE pendT[d]
      /\ \A d \in Cpus : pendP'[d] = IF d = c THEN None ELSE pendP[d]
  BY <1>0, <1>1, Zenon DEF TypeOK
<1>7. \A d \in Cpus : pendT'[d] \notin G /\ pendP'[d] \notin P
  <2>1. ASSUME NEW d \in Cpus, d # c  PROVE pendT[d] \notin G /\ pendP[d] \notin P
    <3>1. /\ pendT[c] = pendT[d] => pendT[c] = None
          /\ pendP[c] = pendP[d] => pendP[c] = None
      BY <1>0, <2>1, Zenon DEF PendInv
    <3>2. pendT[d] \in others
      BY <2>1, Zenon
    <3> QED
      BY <1>2, <3>1, <3>2, Zenon DEF Orphans
  <2> QED
    BY <1>2, <1>4, <1>6, <2>1, ZenonT(120)
<1>8. FreeProcs(P, P)
  <2>1. \A p \in Procs : zombies[p] \ P = zombies[p] \ {}
    <3>1. ASSUME NEW p \in Procs, NEW z \in P  PROVE z \notin zombies[p]
      <4>1. ~DeadChild(z, p)
        BY <1>2, <1>4, <3>1, ZenonT(120) DEF DeadChild, ParentIsAlive
      <4> QED
        BY <1>0, <1>4, <3>1, <4>1, Zenon DEF FamInv
    <3> QED
      BY <3>1, Zenon
  <2>2. zombies' = [p \in Procs |-> IF p \in P THEN {} ELSE zombies[p] \ P]
    BY <1>1, <2>1, Zenon DEF FreeProcs
  <2> QED
    BY <1>1, <2>2, Zenon DEF FreeProcs
<1>9. FreeStep(G, P, None)
  <2> HIDE DEF G, P
  <2> QED
    BY <1>0, <1>1, <1>2, <1>4, <1>5, <1>6, <1>7, <1>8, Zenon DEF FreeStep
<1> QED
  BY <1>9, FreeKeeps, Zenon

\* process_wait collecting its child keeps the invariant.
LEMMA WaitCollectKeeps ==
  ASSUME IInv, NEW c \in Cpus, NEW t \in Threads, NEW q \in Procs, WaitCollect(c, t, q)
  PROVE  IInv'
<1> DEFINE G == Orphans(q, {pendT[d] : d \in Cpus})
<1>0. /\ TypeOK /\ LockInv /\ CurInv /\ PendInv /\ FamInv
      /\ lock = None /\ cur[c] = t /\ tstate[t] = "running" /\ pc[t] = "wait"
  BY Zenon DEF IInv, WaitCollect, In, At
<1>1. /\ FreeThreads(G) /\ Returns(G, t) /\ FreeProcs({q}, {q}) /\ q \in DeadTarget(t)
      /\ UNCHANGED <<cur, pendT, pendP, lock, at, dying, nextPid, ctrlz>>
  BY Zenon DEF WaitCollect, cpuVars, lockVars
<1>2. tproc[t] \in Procs
  BY <1>0, RunFacts, Zenon
<1>3. DeadChild(q, tproc[t])
  BY <1>0, <1>1, <1>2, Zenon DEF DeadTarget, FamInv
<1>4. pid[q] # 0 /\ tlist[q] = {} /\ ~Unborn(q) /\ ParentIsAlive(q)
  <2>1. None \notin Procs
    BY ConstantsAssumption, Zenon
  <2> QED
    BY <1>2, <1>3, <2>1, Zenon DEF DeadChild, ParentIsAlive
<1>5. G \subseteq Threads /\ \A g \in G : tstate[g] = "zombie" /\ tcpu[g] = None
  BY Zenon DEF Orphans
<1>6. \A d \in Cpus : cur[d] # Idle => tproc[cur[d]] \notin {q}
  <2>1. \A d \in Cpus : lock # d
    BY <1>0, ConstantsAssumption, Zenon
  <2> QED
    BY <1>0, <1>4, <2>1, Zenon DEF CurInv, CurOK, Linked
<1>7. \A d \in Cpus : pendT[d] \notin G /\ pendP[d] \notin {q}
  <2>1. \A d \in Cpus : pendT[d] \notin G
    BY Zenon DEF Orphans
  <2>2. \A d \in Cpus : pendP[d] # q
    <3>1. q # None
      BY ConstantsAssumption, Zenon
    <3> QED
      BY <1>0, <1>4, <3>1, Zenon DEF PendInv, PendPOK
  <2> QED
    BY <2>1, <2>2, Zenon
<1>8. at = "free" /\ pendT \in [Cpus -> Threads \cup {None}] /\ pendP \in [Cpus -> Procs \cup {None}]
  BY <1>0, Zenon DEF LockInv, TypeOK
<1>9. FreeStep(G, {q}, t)
  <2> HIDE DEF G
  <2> QED
    BY <1>0, <1>1, <1>4, <1>5, <1>6, <1>7, <1>8, ZenonT(60) DEF FreeStep
<1> QED
  BY <1>9, FreeKeeps, Zenon

\* thread_join collecting a sibling keeps the invariant.
LEMMA JoinCollectKeeps ==
  ASSUME IInv, NEW c \in Cpus, NEW t \in Threads, JoinCollect(c, t)
  PROVE  IInv'
<1>0. /\ TypeOK /\ LockInv /\ PathInv /\ PendInv
      /\ lock = None /\ cur[c] = t /\ tstate[t] = "running" /\ pc[t] = "join"
  BY Zenon DEF IInv, JoinCollect, In, At
<1>1. PICK u \in Threads : u = peer[t]
  BY <1>0, ZenonT(120) DEF PathInv, PathOK, TypeOK
<1>2. /\ tstate[u] = "zombie" /\ tcpu[u] = None /\ tproc[u] = tproc[t] /\ joinable[u]
      /\ FreeThreads({u}) /\ Returns({u}, t)
      /\ UNCHANGED <<pid, parent, ppid, zombies, tlist, live, pcpu, cancelled, ended>>
      /\ UNCHANGED <<cur, pendT, pendP, lock, at, dying, nextPid, ctrlz>>
  BY <1>1, Zenon DEF JoinCollect, Joins, procVars, famVars, cpuVars, lockVars
<1>3. tproc[t] \in Procs /\ tlist[tproc[t]] # {}
  BY <1>0, RunFacts, ZenonT(60) DEF Linked
<1>4. \A d \in Cpus : pendT[d] # u
  <2>1. ASSUME NEW d \in Cpus, pendT[d] = u  PROVE FALSE
    <3>1. PendTOK(d) /\ PendPOK(d) /\ u # None /\ tproc[t] # None
      BY <1>0, <1>3, ConstantsAssumption, Zenon DEF PendInv
    <3>2. pendP[d] = tproc[t]
      BY <1>2, <2>1, <3>1, ZenonT(60) DEF PendTOK
    <3> QED
      BY <1>3, <3>1, <3>2, Zenon DEF PendPOK
  <2> QED
    BY <2>1, Zenon
<1>5. FreeProcs({}, {})
  <2>1. /\ pid' = [p \in Procs |-> pid[p]] /\ parent' = [p \in Procs |-> parent[p]]
        /\ ppid' = [p \in Procs |-> ppid[p]] /\ tlist' = [p \in Procs |-> tlist[p]]
        /\ live' = [p \in Procs |-> live[p]] /\ zombies' = [p \in Procs |-> zombies[p] \ {}]
    BY <1>0, <1>2, ZenonT(60) DEF TypeOK
  <2>2. /\ cancelled' = [p \in Procs |-> cancelled[p] /\ p \notin {}]
        /\ ended' = [p \in Procs |-> ended[p] /\ p \notin {}]
    BY <1>0, <1>2, ZenonT(120) DEF TypeOK
  <2> QED
    BY <1>2, <2>1, <2>2, Zenon DEF FreeProcs
<1>6. at = "free" /\ pendT \in [Cpus -> Threads \cup {None}] /\ pendP \in [Cpus -> Procs \cup {None}]
  BY <1>0, Zenon DEF LockInv, TypeOK
<1>7. FreeStep({u}, {}, t)
  BY <1>0, <1>2, <1>4, <1>5, <1>6, Zenon DEF FreeStep
<1> QED
  BY <1>7, FreeKeeps, Zenon

\* Going to sleep in process_wait or thread_join keeps the invariant.
LEMMA SleepKeeps ==
  ASSUME IInv, NEW c \in Cpus, NEW t \in Threads, WaitBlocks(c, t) \/ JoinBlocks(c, t)
  PROVE  IInv'
<1>1. CASE WaitBlocks(c, t)
  <2>1. SleepStep(c, t, "child")
    BY <1>1, Zenon DEF WaitBlocks, In, At, SleepStep
  <2> QED
    BY <2>1, BlockKeeps, Zenon
<1>2. CASE JoinBlocks(c, t)
  <2>1. SleepStep(c, t, "join")
    BY <1>2, Zenon DEF JoinBlocks, In, At, SleepStep
  <2> QED
    BY <2>1, BlockKeeps, Zenon
<1> QED
  BY <1>1, <1>2, Zenon

\* Flagging, cancelling, freezing and waking keep the invariant.
LEMMA KillKeeps ==
  ASSUME IInv, NEW c \in Cpus, NEW t \in Threads, NEW p \in Procs,
         ProcessKill(c, t, p) \/ ProcessCancel(c, t, p)
  PROVE  IInv'
<1> DEFINE S == Roused(p, None)
<1>0. TypeOK /\ lock = None /\ tstate[t] = "running" /\ pc[t] = "user"
  BY Zenon DEF IInv, ProcessKill, ProcessCancel, In, At
<1>1. /\ tstate' = Woken(tstate, S) /\ Unqueue(S) /\ pc' = [pc EXCEPT ![t] = "ret"]
      /\ UNCHANGED <<tproc, tcpu, joinable, want, peer, nproc, famVars, tlist, live, pcpu,
                     cpuVars, lockVars, nextPid>>
      /\ ctrlz' = ctrlz
  BY Zenon DEF ProcessKill, ProcessCancel
<1>2. /\ killed' \in {killed, [u \in Threads |-> killed[u] \/ u \in Victims(p, None)]}
      /\ cancelled' = [cancelled EXCEPT ![p] = TRUE]
  BY Zenon DEF ProcessKill, ProcessCancel, FlagThreads
<1>3. /\ killed' \in [Threads -> BOOLEAN] /\ susp' \in [Threads -> BOOLEAN]
      /\ cancelled' \in [Procs -> BOOLEAN] /\ ended' \in [Procs -> BOOLEAN]
  <2>1. killed' \in [Threads -> BOOLEAN] /\ cancelled' \in [Procs -> BOOLEAN]
    BY <1>0, <1>2, ZenonT(60) DEF TypeOK
  <2>2. /\ susp' \in {susp, [u \in Threads |-> susp[u] /\ u \notin Victims(p, None)]}
        /\ ended' \in {ended, [ended EXCEPT ![p] = TRUE]}
    BY Zenon DEF ProcessKill, ProcessCancel, FlagThreads
  <2>3. susp' \in [Threads -> BOOLEAN] /\ ended' \in [Procs -> BOOLEAN]
    BY <1>0, <2>2, ZenonT(60) DEF TypeOK
  <2> QED
    BY <2>1, <2>3, Zenon
<1>4. S \in SUBSET Threads /\ \A u \in S : waitq[u] # "none"
  <2>1. tlist[p] \subseteq Threads
    BY <1>0, Zenon DEF TypeOK
  <2> QED
    BY <1>0, <2>1, WakersAsleep, Zenon
<1>5. FlagStep(p, None, S)
  <2>1. \A u \in Threads : tstate'[u] = "blocked" /\ waitq'[u] # "none" =>
                             u # None /\ u \notin S /\ tstate[u] = "blocked" /\ waitq[u] # "none"
    BY <1>1, ConstantsAssumption, ZenonT(60) DEF Unqueue, Woken
  <2> QED
    BY <1>1, <1>2, <2>1, ZenonT(60) DEF FlagStep
<1>6. KillInv' /\ CancelledNeverSleeps'
  BY <1>5, FlagKeeps, ZenonT(60)
<1>7. WakeStep(t, S)
  <2>1. ctrlz' \in Nat
    BY <1>0, <1>1, Zenon DEF TypeOK
  <2> HIDE DEF S
  <2> QED
    BY <1>0, <1>1, <1>3, <1>4, <1>6, <2>1, ZenonT(60) DEF WakeStep
<1> QED
  BY <1>7, WakeKeeps, Zenon

\* A step that flags nobody and puts nobody to sleep leaves no flagged sleeper.
LEMMA StillFlagged ==
  ASSUME IInv, NEW S, tstate' = Woken(tstate, S), Unqueue(S),
         UNCHANGED <<killed, cancelled, tproc, tlist>>
  PROVE  KillInv' /\ CancelledNeverSleeps'
<1>1. KillInv /\ CancelledNeverSleeps
  BY Zenon DEF IInv
<1>2. KillInv'
  BY <1>1, Zenon DEF KillInv, Linked
<1>3. \A u \in Threads : tstate'[u] = "blocked" /\ waitq'[u] # "none" =>
                           tstate[u] = "blocked" /\ waitq[u] # "none"
  BY Zenon DEF Unqueue, Woken
<1> QED
  BY <1>1, <1>2, <1>3, ZenonT(60) DEF CancelledNeverSleeps

\* Freezing or thawing a child keeps the invariant.
LEMMA SysSuspendKeeps ==
  ASSUME IInv, NEW c \in Cpus, NEW t \in Threads, NEW q \in Procs, NEW val \in BOOLEAN,
         SysSuspend(c, t, q, val)
  PROVE  IInv'
<1>1. TypeOK
  BY Zenon DEF IInv
<1>2. tstate' = Woken(tstate, {}) /\ Unqueue({})
  BY <1>1, Zenon DEF SysSuspend, TypeOK, Woken, Unqueue
<1>3. /\ susp' \in [Threads -> BOOLEAN] /\ ctrlz' \in Nat /\ killed' \in [Threads -> BOOLEAN]
      /\ cancelled' \in [Procs -> BOOLEAN] /\ ended' \in [Procs -> BOOLEAN]
  BY <1>1, Zenon DEF SysSuspend, TypeOK, procVars
<1>4. KillInv' /\ CancelledNeverSleeps'
  BY <1>2, StillFlagged, Zenon DEF SysSuspend, procVars
<1>5. WakeStep(t, {})
  BY <1>2, <1>3, <1>4, ZenonT(60) DEF SysSuspend, In, At, WakeStep, procVars
<1> QED
  BY <1>5, WakeKeeps, Zenon

\* The two halves of ^Z keep the invariant.
LEMMA CtrlZKeeps ==
  ASSUME IInv, NEW q \in Procs, CtrlZ(q)
  PROVE  IInv'
<1>1. TypeOK
  BY Zenon DEF IInv
<1>2. tstate' = Woken(tstate, {}) /\ Unqueue({})
  BY <1>1, Zenon DEF CtrlZ, TypeOK, Woken, Unqueue
<1>3. /\ susp' \in [Threads -> BOOLEAN] /\ ctrlz' \in Nat /\ killed' \in [Threads -> BOOLEAN]
      /\ cancelled' \in [Procs -> BOOLEAN] /\ ended' \in [Procs -> BOOLEAN]
  BY <1>1, Zenon DEF CtrlZ, TypeOK, procVars
<1>4. KillInv' /\ CancelledNeverSleeps'
  BY <1>2, StillFlagged, Zenon DEF CtrlZ, procVars
<1>5. WakeStep(None, {})
  BY <1>2, <1>3, <1>4, ZenonT(60) DEF CtrlZ, WakeStep, procVars, pathVars
<1> QED
  BY <1>5, WakeKeeps, Zenon

\* The foreground parent that ^Z wakes in process_wait() is a plain wake-up.
LEMMA CtrlZWakeKeeps ==
  ASSUME IInv, CtrlZWake
  PROVE  IInv'
<1> DEFINE S == UNION {Asleep(p, "child") : p \in {x \in Procs : pid[x] = ctrlz}}
<1>1. TypeOK
  BY Zenon DEF IInv
<1>2. S \subseteq Threads /\ \A u \in S : waitq[u] # "none"
  BY Zenon DEF Asleep
<1>3. /\ tstate' = Woken(tstate, S) /\ Unqueue(S) /\ lock = None
      /\ UNCHANGED <<pc, killed, susp, cancelled, ended>> /\ ctrlz' = 0
      /\ UNCHANGED <<tproc, tcpu, joinable, want, peer, nproc, famVars, tlist, live, pcpu,
                     cpuVars, lockVars, nextPid>>
  BY Zenon DEF CtrlZWake, pathVars, procVars
<1>4. /\ susp' \in [Threads -> BOOLEAN] /\ ctrlz' \in Nat /\ killed' \in [Threads -> BOOLEAN]
      /\ cancelled' \in [Procs -> BOOLEAN] /\ ended' \in [Procs -> BOOLEAN]
  BY <1>1, <1>3, Zenon DEF TypeOK
<1>5. KillInv' /\ CancelledNeverSleeps'
  <2> HIDE DEF S
  <2> QED
    BY <1>3, StillFlagged, Zenon
<1>6. WakeStep(None, S)
  <2> HIDE DEF S
  <2> QED
    BY <1>2, <1>3, <1>4, <1>5, ZenonT(60) DEF WakeStep
<1> QED
  BY <1>6, WakeKeeps, Zenon

\* Calling process_wait or thread_join, or being refused, keeps the invariant.
LEMMA CallWaitKeeps ==
  ASSUME IInv, NEW c \in Cpus, NEW t \in Threads, NEW q \in Procs, CallWait(c, t, q)
  PROVE  IInv'
<1>0. /\ TypeOK /\ PidInv /\ lock = None /\ cur[c] = t /\ tstate[t] = "running" /\ pc[t] = "user"
      /\ ChildOf(q, tproc[t])
      /\ pc' = [pc EXCEPT ![t] = "wait"] /\ want' = [want EXCEPT ![t] = pid[q]] /\ peer' = peer
      /\ UNCHANGED <<threadVars, nproc, procVars, cpuVars, lockVars, nextPid, ctrlz>>
  BY Zenon DEF IInv, CallWait, In, At
<1>1. /\ pc' \in [Threads -> Paths] /\ pc'[t] = "wait" /\ want'[t] = pid[q]
      /\ want' \in [Threads -> Nat] /\ peer' \in [Threads -> Threads \cup {None}]
      /\ \A u \in Threads \ {t} : pc'[u] = pc[u] /\ want'[u] = want[u] /\ peer'[u] = peer[u]
  BY <1>0, ZenonT(60) DEF TypeOK, Paths
<1>2. want'[t] < nextPid
  BY <1>0, <1>1, Zenon DEF PidInv
<1>3. WaitOK(t)'
  <2>1. UNCHANGED <<pid, parent, ppid, tproc, nproc>>
    BY <1>0, Zenon DEF threadVars, procVars, famVars
  <2>2. \A z \in Procs : pid[z] = want'[t] => z = q
    BY <1>0, <1>1, ZenonT(60) DEF ChildOf, PidInv
  <2>3. /\ pid[q] # 0 /\ parent[q] = tproc[t] /\ ppid[q] = pid[tproc[t]]
        /\ ~Unborn(q)'
    BY <1>0, <2>1, Zenon DEF ChildOf, Unborn
  <2> QED
    BY <1>1, <2>1, <2>2, <2>3, ZenonT(60) DEF WaitOK
<1>4. PathStep(t)
  BY <1>0, <1>1, <1>2, <1>3, Zenon DEF PathStep
<1> QED
  BY <1>4, PathKeeps, Zenon

\* Entering thread_join() keeps the invariant.
LEMMA CallJoinKeeps ==
  ASSUME IInv, NEW c \in Cpus, NEW t \in Threads, NEW u \in Threads, CallJoin(c, t, u)
  PROVE  IInv'
<1>0. /\ TypeOK /\ PidInv /\ lock = None /\ tstate[t] = "running" /\ pc[t] = "user"
      /\ pc' = [pc EXCEPT ![t] = "join"] /\ peer' = [peer EXCEPT ![t] = u] /\ want' = want
      /\ UNCHANGED <<threadVars, nproc, procVars, cpuVars, lockVars, nextPid, ctrlz>>
  BY Zenon DEF IInv, CallJoin, In, At
<1>1. /\ pc' \in [Threads -> Paths] /\ pc'[t] = "join" /\ peer'[t] = u
      /\ want' \in [Threads -> Nat] /\ peer' \in [Threads -> Threads \cup {None}]
      /\ \A v \in Threads \ {t} : pc'[v] = pc[v] /\ want'[v] = want[v] /\ peer'[v] = peer[v]
  BY <1>0, ZenonT(60) DEF TypeOK, Paths
<1>2. want'[t] < nextPid /\ WaitOK(t)' /\ u # None
  BY <1>0, <1>1, ConstantsAssumption, Zenon DEF PidInv, WaitOK
<1>3. PathStep(t)
  BY <1>0, <1>1, <1>2, Zenon DEF PathStep
<1> QED
  BY <1>3, PathKeeps, Zenon

\* Leaving process_wait() or thread_join() with an error keeps the invariant.
LEMMA RefusesKeeps ==
  ASSUME IInv, NEW c \in Cpus, NEW t \in Threads, WaitRefuses(c, t) \/ JoinRefuses(c, t)
  PROVE  IInv'
<1>0. /\ TypeOK /\ PidInv /\ lock = None /\ tstate[t] = "running" /\ pc[t] \in {"wait", "join"}
      /\ tproc[t] \in Procs
      /\ Returns({}, t)
      /\ UNCHANGED <<threadVars, procVars, cpuVars, lockVars, nextPid, ctrlz>>
  BY RunFacts, Zenon DEF IInv, WaitRefuses, JoinRefuses, In, At
<1>1. /\ pc' \in [Threads -> Paths] /\ pc'[t] = "ret" /\ want'[t] = 0
      /\ want' \in [Threads -> Nat] /\ peer' \in [Threads -> Threads \cup {None}]
      /\ \A u \in Threads \ {t} : pc'[u] = pc[u] /\ want'[u] = want[u] /\ peer'[u] = peer[u]
      /\ nproc' = nproc
  BY <1>0, ZenonT(60) DEF Returns, TypeOK, Paths
<1>2. want'[t] < nextPid /\ WaitOK(t)'
  BY <1>0, <1>1, SMT, SMTT(60) DEF PidInv, TypeOK, WaitOK
<1>3. PathStep(t)
  BY <1>0, <1>1, <1>2, ZenonT(60) DEF PathStep
<1> QED
  BY <1>3, PathKeeps, Zenon

\* Leaving a system call, and thread_exit_self, keep the invariant.
LEMMA LeaveKeeps ==
  ASSUME IInv, NEW c \in Cpus, NEW t \in Threads, SyscallExit(c, t) \/ ThreadExitSelf(c, t)
  PROVE  IInv'
<1>0. TypeOK /\ tstate[t] = "running"
  BY Zenon DEF IInv, SyscallExit, ThreadExitSelf, At
<1>1. \/ tstate' = tstate /\ pc' = [pc EXCEPT ![t] = "user"]
      \/ tstate' = [tstate EXCEPT ![t] = "zombie"] /\ pc' = [pc EXCEPT ![t] = "dead"]
  BY <1>0, ZenonT(60) DEF SyscallExit, ThreadExitSelf, TypeOK
<1>2. DieStep(c, t)
  BY <1>0, <1>1, Zenon DEF SyscallExit, ThreadExitSelf, At, DieStep
<1> QED
  BY <1>2, DieKeeps, Zenon

\* The reservation of a thread slot, and its undo, keep the invariant.
LEMMA FirstThreadAllocKeeps ==
  ASSUME IInv, NEW c \in Cpus, NEW t \in Threads, FirstThreadAlloc(c, t)
  PROVE  IInv'
<1>0. /\ TypeOK /\ PathInv /\ MakeInv
      /\ lock = None /\ lock # c /\ cur[c] = t /\ tstate[t] = "running" /\ pc[t] = "mkproc"
      /\ UNCHANGED <<tproc, waitq, joinable, killed, susp, want, parent, ppid, zombies, tlist,
                     live, pcpu, cancelled, ended, cpuVars, lockVars, nextPid, ctrlz>>
  BY Zenon DEF IInv, FirstThreadAlloc, In, At
<1>1. ASSUME NEW n \in Threads, ThreadAlloc(c, t, n), UNCHANGED <<pid, nproc>>
      PROVE  IInv'
  <2>1. ReserveStep(c, t, n)
    BY <1>0, <1>1, Zenon DEF ReserveStep, procVars, famVars
  <2> QED
    BY <2>1, ReserveKeeps, Zenon
<1>2. ASSUME pid' = [pid EXCEPT ![nproc[t]] = 0], pc' = [pc EXCEPT ![t] = "ret"],
             nproc' = [nproc EXCEPT ![t] = None], UNCHANGED <<tstate, tcpu, peer>>
      PROVE  IInv'
  <2>1. nproc[t] # tproc[t]
    BY <1>0, Zenon DEF MakeInv, MakeThreadOK
  <2>2. pid' = [q \in Procs |-> IF q = nproc[t] /\ nproc[t] # tproc[t] THEN 0 ELSE pid[q]]
    BY <1>0, <1>2, <2>1, ZenonT(60) DEF TypeOK
  <2>3. tstate' = [u \in Threads |-> IF u \in {} THEN "unused" ELSE tstate[u]]
    BY <1>0, <1>2, ZenonT(60) DEF TypeOK
  <2>4. UndoStep(c, t, nproc[t], {})
    BY <1>0, <1>2, <2>2, <2>3, ZenonT(60) DEF UndoStep
  <2> QED
    BY <2>4, UndoKeeps, Zenon
<1> QED
  BY <1>1, <1>2, Zenon DEF FirstThreadAlloc

\* A creation that fails gives back the thread slot and, if it made one, the process.
LEMMA ThreadInitFailsKeeps ==
  ASSUME IInv, NEW c \in Cpus, NEW t \in Threads, ThreadInitFails(c, t)
  PROVE  IInv'
<1>0. TypeOK
  BY Zenon DEF IInv
<1>1. pid' = [q \in Procs |-> IF q = nproc[t] /\ nproc[t] # tproc[t] THEN 0 ELSE pid[q]]
  BY <1>0, Zenon DEF ThreadInitFails, TypeOK
<1>2. tstate' = [u \in Threads |-> IF u \in {peer[t]} THEN "unused" ELSE tstate[u]]
  BY <1>0, Zenon DEF ThreadInitFails, TypeOK
<1>3. UndoStep(c, t, nproc[t], {peer[t]})
  BY <1>1, <1>2, ZenonT(60) DEF ThreadInitFails, At, UndoStep
<1> QED
  BY <1>3, UndoKeeps, Zenon

\* thread_create_user() reserves a thread slot and keeps the invariant.
LEMMA ThreadCreateUserKeeps ==
  ASSUME IInv, NEW c \in Cpus, NEW t \in Threads, ThreadCreateUser(c, t)
  PROVE  IInv'
<1>1. PICK n \in Threads : ThreadAlloc(c, t, n)
  BY Zenon DEF ThreadCreateUser
<1>2. ReserveStep(c, t, n)
  BY <1>1, Zenon DEF ThreadCreateUser, In, At, ReserveStep
<1> QED
  BY <1>2, ReserveKeeps, Zenon

\* The machine boots into the invariant.
LEMMA InitInv == Init => IInv
<1> SUFFICES ASSUME NEW t0 \in Threads, NEW p0 \in Procs, NEW c0 \in Cpus, Boot(t0, p0, c0)
             PROVE  IInv
  BY Zenon DEF Init
<1>0. None \notin Threads /\ None \notin Procs /\ None \notin Cpus /\ Idle \notin Threads /\ Idle # None
  BY ConstantsAssumption, Zenon
<1>1. /\ \A t \in Threads :
           /\ tstate[t] = IF t = t0 THEN "running" ELSE "unused"
           /\ tproc[t] = IF t = t0 THEN p0 ELSE None
           /\ tcpu[t] = IF t = t0 THEN c0 ELSE None
           /\ waitq[t] = "none" /\ ~joinable[t] /\ ~killed[t] /\ ~susp[t]
           /\ pc[t] = "user" /\ want[t] = 0 /\ peer[t] = None /\ nproc[t] = None
      /\ \A p \in Procs :
           /\ pid[p] = IF p = p0 THEN 1 ELSE 0
           /\ parent[p] = None /\ ppid[p] = 0 /\ zombies[p] = {} /\ ~cancelled[p] /\ ~ended[p]
           /\ tlist[p] = IF p = p0 THEN {t0} ELSE {}
           /\ live[p] = IF p = p0 THEN 1 ELSE 0
      /\ \A c \in Cpus : cur[c] = (IF c = c0 THEN t0 ELSE Idle) /\ pendT[c] = None /\ pendP[c] = None
      /\ lock = None /\ at = "free" /\ dying = None /\ nextPid = 2
  BY Zenon DEF Boot
<1>2. TypeOK
  <2>1. /\ tstate \in [Threads -> TStates] /\ tproc \in [Threads -> Procs \cup {None}]
        /\ tcpu \in [Threads -> Cpus \cup {None}] /\ waitq \in [Threads -> {"none", "child", "join"}]
    BY Zenon DEF Boot, TStates
  <2>2. /\ joinable \in [Threads -> BOOLEAN] /\ killed \in [Threads -> BOOLEAN]
        /\ susp \in [Threads -> BOOLEAN] /\ pc \in [Threads -> Paths] /\ want \in [Threads -> Nat]
        /\ peer \in [Threads -> Threads \cup {None}] /\ nproc \in [Threads -> Procs \cup {None}]
    BY Zenon DEF Boot, Paths
  <2>3. /\ pid \in [Procs -> Nat] /\ parent \in [Procs -> Procs \cup {None}] /\ ppid \in [Procs -> Nat]
        /\ tlist \in [Procs -> SUBSET Threads] /\ live \in [Procs -> Nat]
    BY Zenon DEF Boot
  <2>4. /\ zombies \in [Procs -> SUBSET Procs] /\ pcpu \in [Procs -> Cpus \cup {None}]
        /\ cancelled \in [Procs -> BOOLEAN] /\ ended \in [Procs -> BOOLEAN]
    BY Zenon DEF Boot
  <2>5. /\ cur \in [Cpus -> Threads \cup {Idle}] /\ pendT \in [Cpus -> Threads \cup {None}]
        /\ pendP \in [Cpus -> Procs \cup {None}] /\ nextPid \in Nat /\ ctrlz \in Nat
        /\ lock = None /\ at = "free" /\ dying = None
    BY Zenon DEF Boot
  <2> QED
    BY <2>1, <2>2, <2>3, <2>4, <2>5, ZenonT(60) DEF TypeOK
<1>3. (\A p \in Procs : ~Unborn(p)) /\ Linked(t0) /\ InUse(p0)
  BY <1>0, <1>1, SMT, SMTT(60) DEF Unborn, Linked, InUse
<1>4. LockInv /\ DyingInv
  BY <1>0, <1>1, ZenonT(60) DEF LockInv, DyingInv
<1>5. CurInv
  BY <1>0, <1>1, <1>3, ZenonT(120) DEF CurInv, CurOK, CurState
<1>6. CpuInv /\ SlotInv /\ PathInv
  <2>1. CpuInv
    BY <1>0, <1>1, ZenonT(120) DEF CpuInv, CpuOK
  <2>2. SlotInv
    BY <1>1, <1>3, Zenon DEF SlotInv, SlotOK
  <2>3. PathInv
    BY <1>1, Zenon DEF PathInv, PathOK, Making, Reserving
  <2> QED
    BY <2>1, <2>2, <2>3, Zenon
<1>7. KillInv /\ CancelledNeverSleeps
  BY <1>1, Zenon DEF KillInv, CancelledNeverSleeps
<1>8. ListInv /\ PendInv
  BY <1>0, <1>1 DEF ListInv, ListOK, PendInv, PendTOK, PendPOK
<1>9. CountInv
  <2>1. Cardinality({t0}) = 1 /\ Cardinality({}) = 0
    BY FS_EmptySet, FS_Singleton, Zenon
  <2> QED
    BY <1>1, <2>1, ZenonT(60) DEF CountInv
<1>10. PidInv /\ FamInv
  <2>1. PidInv
    BY <1>1 DEF PidInv
  <2>2. FamInv
    BY <1>0, <1>1, Zenon DEF FamInv, DeadChild
  <2> QED
    BY <2>1, <2>2, Zenon
<1>11. MakeInv /\ WaitInv /\ SleepInv
  BY <1>1, Zenon
     DEF MakeInv, MakeProcOK, MakeThreadOK, Apart, Making, Reserving, WaitInv, WaitOK,
         SleepInv, SleepOK
<1> QED
  BY <1>2, <1>4, <1>5, <1>6, <1>7, <1>8, <1>9, <1>10, <1>11, ZenonT(60) DEF IInv

\* Every step of every core keeps the invariant.
LEMMA NextKeeps == IInv /\ [Next]_vars => IInv'
<1> SUFFICES ASSUME IInv, [Next]_vars  PROVE IInv'
  BY Zenon
<1>1. ASSUME NEW c \in Cpus, Schedule(c)  PROVE IInv'
  <2>1. CASE Tick(c)
    <3>1. LockStep(c)
      BY <2>1, Zenon DEF Tick, EnterSchedule, LockStep
    <3> QED
      BY <3>1, LockKeeps, Zenon
  <2>2. CASE Reap(c)
    BY <2>2, ReapKeeps, Zenon
  <2>3. CASE Zombie(c)
    BY <2>3, ZombieKeeps, Zenon
  <2>4. ASSUME NEW n \in Threads \cup {Idle}, Switch(c, n)  PROVE IInv'
    BY <2>4, SwitchKeeps, Zenon
  <2> QED
    BY <1>1, <2>1, <2>2, <2>3, <2>4, Zenon DEF Schedule
<1>2. ASSUME NEW c \in Cpus, NEW t \in Threads, KernelStep(c, t)  PROVE IInv'
  <2>1. CASE FirstThreadAlloc(c, t)
    BY <2>1, FirstThreadAllocKeeps, Zenon
  <2>2. CASE ThreadInitFor(c, t)
    BY <2>2, ThreadInitForKeeps, ZenonT(60)
  <2>3. CASE ThreadInitFails(c, t)
    BY <2>3, ThreadInitFailsKeeps, Zenon
  <2>4. CASE Publish(c, t)
    BY <2>4, PublishKeeps, Zenon
  <2>5. CASE SyscallExit(c, t)
    BY <2>5, LeaveKeeps, Zenon
  <2>6. ASSUME NEW q \in Procs, WaitCollect(c, t, q)  PROVE IInv'
    BY <2>6, WaitCollectKeeps, Zenon
  <2>7. CASE WaitRefuses(c, t) \/ JoinRefuses(c, t)
    BY <2>7, RefusesKeeps, Zenon
  <2>8. CASE WaitBlocks(c, t) \/ JoinBlocks(c, t)
    BY <2>8, SleepKeeps, Zenon
  <2>9. CASE JoinCollect(c, t)
    BY <2>9, JoinCollectKeeps, Zenon
  <2> QED
    BY <1>2, <2>1, <2>2, <2>3, <2>4, <2>5, <2>6, <2>7, <2>8, <2>9, ZenonT(60)
       DEF KernelStep
<1>3. ASSUME NEW c \in Cpus, NEW t \in Threads, UserStep(c, t)  PROVE IInv'
  <2>1. CASE ThreadCreateUser(c, t)
    BY <2>1, ThreadCreateUserKeeps, Zenon
  <2>2. CASE ThreadExitSelf(c, t)
    BY <2>2, LeaveKeeps, Zenon
  <2>3. CASE ProcessExitSelf(c, t)
    BY <2>3, ProcessExitSelfKeeps, Zenon
  <2>4. ASSUME NEW u \in Threads, CallJoin(c, t, u)  PROVE IInv'
    BY <2>4, CallJoinKeeps, ZenonT(60)
  <2>5. ASSUME NEW p \in Procs, ProcessAlloc(c, t, p)  PROVE IInv'
    BY <2>5, ProcessAllocKeeps, Zenon
  <2>6. ASSUME NEW p \in Procs, CallWait(c, t, p)  PROVE IInv'
    BY <2>6, CallWaitKeeps, Zenon
  <2>7. ASSUME NEW p \in Procs, ProcessKill(c, t, p) \/ ProcessCancel(c, t, p)  PROVE IInv'
    BY <2>7, KillKeeps, Zenon
  <2>8. ASSUME NEW p \in Procs, NEW val \in BOOLEAN, SysSuspend(c, t, p, val)  PROVE IInv'
    BY <2>8, SysSuspendKeeps, Zenon
  <2> QED
    BY <1>3, <2>1, <2>2, <2>3, <2>4, <2>5, <2>6, <2>7, <2>8, ZenonT(60) DEF UserStep
<1>4. ASSUME NEW q \in Procs, CtrlZ(q)  PROVE IInv'
  BY <1>4, CtrlZKeeps, Zenon
<1>5. CASE CtrlZWake
  BY <1>5, CtrlZWakeKeeps, Zenon
<1>6. CASE UNCHANGED vars
  <2>1. LockStep(None)
    BY <1>6, Zenon DEF vars, LockStep
  <2> QED
    BY <2>1, LockKeeps, Zenon
<1> QED
  BY <1>1, <1>2, <1>3, <1>4, <1>5, <1>6, Zenon DEF Next

\* The invariant of LifecycleInv holds in every state the kernel reaches.
LEMMA Invariance == Spec => []IInv
  BY InitInv, NextKeeps, PTL DEF Spec

\* Every variable of process.c's model keeps its type.
THEOREM LifecycleTypeCorrect == Spec => []TypeOK
<1>1. IInv => TypeOK
  BY ZenonT(60) DEF IInv
<1> QED
  BY <1>1, Invariance, PTL

\* schedule_locked() never lets two cores execute one thread: a core's thread names
\* that core as its running_cpu, or is on its way to sleep under the lock.
THEOREM NoSharedThread == Spec => []OneCorePerThread
<1>1. IInv => OneCorePerThread
  <2> SUFFICES ASSUME IInv, NEW c \in Cpus, NEW d \in Cpus, c # d, cur[c] = cur[d], cur[c] # Idle
               PROVE  FALSE
    BY Zenon DEF OneCorePerThread
  <2>1. CurOK(c) /\ CurOK(d)
    BY Zenon DEF IInv, CurInv
  <2>2. None # c /\ None # d
    BY ConstantsAssumption, Zenon
  <2> QED
    BY <2>1, <2>2, Zenon DEF CurOK, CurState
<1> QED
  BY <1>1, Invariance, PTL

\* The thread a core is on, and its process, are not freed, reused or queued for
\* reclamation by reap_pending, process_wait or thread_join.
THEOREM InUseIsKept == Spec => []NothingInUseIsReclaimed
<1>1. IInv => NothingInUseIsReclaimed
  <2> SUFFICES ASSUME IInv, NEW c \in Cpus, cur[c] # Idle
               PROVE  LET t == cur[c] IN
                      /\ tstate[t] \in {"running", "zombie"} \/ lock = c
                      /\ tstate[t] # "unused"
                      /\ tproc[t] # None /\ pid[tproc[t]] # 0
                      /\ \A d \in Cpus : pendT[d] # t /\ pendP[d] # tproc[t]
    BY ZenonT(60) DEF NothingInUseIsReclaimed
  <2>1. PICK t \in Threads : t = cur[c]
    BY ZenonT(60) DEF IInv, TypeOK
  <2>2. CurState(c, t) /\ InUse(tproc[t])
    BY <2>1, Zenon DEF IInv, CurInv, CurOK
  <2>3. None # c /\ None \notin Procs /\ None \notin Threads
    BY ConstantsAssumption, Zenon
  <2>4. \A d \in Cpus : pendT[d] # t
    <3>1. ASSUME NEW d \in Cpus, pendT[d] = t  PROVE FALSE
      <4>1. PendTOK(d)
        BY ZenonT(60) DEF IInv, PendInv
      <4> QED
        BY <2>2, <2>3, <3>1, <4>1, ZenonT(60) DEF PendTOK, CurState
    <3> QED
      BY <3>1, Zenon
  <2> QED
    BY <2>1, <2>2, <2>3, <2>4, ZenonT(60) DEF CurState, InUse
<1> QED
  BY <1>1, Invariance, PTL

\* live_thread_count is the number of threads on the list, although
\* thread_zombie_locked runs once or twice for each death.
THEOREM CountNeverDrifts == Spec => []LiveCountExact
<1>1. IInv => LiveCountExact
  <2> SUFFICES ASSUME IInv, NEW p \in Procs
               PROVE  /\ live[p] = Cardinality(tlist[p])
                      /\ \A t \in tlist[p] : tproc[t] = p /\ tstate[t] # "unused"
                      /\ live[p] # 0 => pid[p] # 0
    BY Zenon DEF LiveCountExact
  <2>1. ListOK(p) /\ live[p] = Cardinality(tlist[p]) /\ tlist[p] \in SUBSET Threads
    BY ZenonT(60) DEF IInv, ListInv, CountInv, TypeOK
  <2>2. Cardinality(tlist[p]) = 0 <=> tlist[p] = {}
    BY <2>1, CardFacts, ZenonT(60)
  <2> QED
    BY <2>1, <2>2, Zenon DEF ListOK
<1> QED
  BY <1>1, Invariance, PTL

\* What a core's reap_pending slots name is dead, on no core and no zombie list, and
\* named by that core alone.
THEOREM ReclaimedByOne == Spec => []ReclaimedOnce
<1>1. IInv => ReclaimedOnce
  <2> SUFFICES ASSUME IInv  PROVE ReclaimedOnce
    BY Zenon
  <2>1. \A c \in Cpus : pendT[c] # None => tstate[pendT[c]] = "zombie" /\ tcpu[pendT[c]] = None
    BY Zenon DEF IInv, PendInv, PendTOK
  <2>2. ASSUME NEW c \in Cpus, pendP[c] # None
        PROVE  /\ pid[pendP[c]] # 0 /\ live[pendP[c]] = 0 /\ tlist[pendP[c]] = {}
               /\ \A p \in Procs : pendP[c] \notin zombies[p]
    <3>1. PendPOK(c) /\ pendP[c] \in Procs
      BY <2>2, ZenonT(60) DEF IInv, PendInv, TypeOK
    <3>2. live[pendP[c]] = 0
      <4>1. tlist[pendP[c]] = {} /\ live[pendP[c]] = Cardinality(tlist[pendP[c]])
        BY <2>2, <3>1, ZenonT(60) DEF PendPOK, IInv, CountInv
      <4> QED
        BY <4>1, FS_EmptySet, Zenon
    <3>3. ASSUME NEW p \in Procs  PROVE pendP[c] \notin zombies[p]
      <4>1. ~DeadChild(pendP[c], p)
        <5>1. None \notin Procs
          BY ConstantsAssumption, ZenonT(60)
        <5> QED
          BY <2>2, <3>1, <5>1, Zenon DEF PendPOK, DeadChild, ParentIsAlive
      <4> QED
        BY <3>1, <4>1, Zenon DEF IInv, FamInv
    <3> QED
      BY <2>2, <3>1, <3>2, <3>3, ZenonT(60) DEF PendPOK
  <2>3. \A c, d \in Cpus : c # d =>
          /\ pendT[c] = pendT[d] => pendT[c] = None
          /\ pendP[c] = pendP[d] => pendP[c] = None
    BY Zenon DEF IInv, PendInv
  <2> QED
    BY <2>1, <2>2, <2>3, Zenon DEF ReclaimedOnce
<1> QED
  BY <1>1, Invariance, PTL

\* The zombie list of a process holds finished children of that very process, and
\* not of an earlier user of its slot.
THEOREM ListedAreChildren == Spec => []ZombiesAreOwn
<1>1. IInv => ZombiesAreOwn
  <2> SUFFICES ASSUME IInv, NEW p \in Procs, NEW z \in zombies[p]
               PROVE  /\ parent[z] = p /\ ppid[z] = pid[p]
                      /\ pid[z] # 0 /\ live[z] = 0 /\ ~Unborn(z)
    BY ZenonT(60) DEF ZombiesAreOwn
  <2>1. z \in Procs
    BY ZenonT(60) DEF IInv, TypeOK
  <2>2. DeadChild(z, p)
    BY <2>1, Zenon DEF IInv, FamInv
  <2>3. live[z] = 0
    <3>1. tlist[z] = {} /\ live[z] = Cardinality(tlist[z])
      BY <2>1, <2>2, ZenonT(60) DEF DeadChild, IInv, CountInv
    <3> QED
      BY <3>1, FS_EmptySet, Zenon
  <2> QED
    BY <2>2, <2>3, Zenon DEF DeadChild
<1> QED
  BY <1>1, Invariance, PTL

\* A process whose last thread is gone is on the zombie list of its creator, as long
\* as that creator exists: no exit is lost between thread_zombie_locked and the lists.
THEOREM NoExitIsLost == Spec => []ExitReachesParent
<1>1. IInv => ExitReachesParent
  <2> SUFFICES ASSUME IInv, NEW p \in Procs,
                      pid[p] # 0, live[p] = 0, ~Unborn(p), ParentIsAlive(p)
               PROVE  p \in zombies[parent[p]]
    BY ZenonT(60) DEF ExitReachesParent
  <2>1. parent[p] \in Procs /\ tlist[p] \in SUBSET Threads /\ live[p] = Cardinality(tlist[p])
    BY Zenon DEF IInv, TypeOK, ParentIsAlive, CountInv
  <2>2. tlist[p] = {}
    BY <2>1, CardFacts, Zenon
  <2>3. DeadChild(p, parent[p])
    BY <2>1, <2>2, ZenonT(60) DEF DeadChild, ParentIsAlive
  <2> QED
    BY <2>1, <2>3, ZenonT(60) DEF IInv, FamInv
<1> QED
  BY <1>1, Invariance, PTL

\* Nobody sleeps in process_wait or thread_join past the death it waits for.
THEOREM NoSleeperIsForgotten == Spec => []NoLostWakeup
<1>1. IInv => NoLostWakeup
  BY Zenon DEF IInv, SleepInv, SleepOK, NoLostWakeup
<1> QED
  BY <1>1, Invariance, PTL

\* process_kill_code and process_cancel leave nobody of the process asleep in
\* process_wait or thread_join, and nobody of it goes to sleep there afterwards.
THEOREM KillWakesEverybody == Spec => []CancelledNeverSleeps
<1>1. IInv => CancelledNeverSleeps
  BY Zenon DEF IInv
<1> QED
  BY <1>1, Invariance, PTL
=============================================================================
