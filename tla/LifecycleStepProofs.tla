------------------------- MODULE LifecycleStepProofs -------------------------
(***************************************************************************)
(* What the steps of the scheduler do to the invariant of LifecycleInv: one*)
(* lemma for waking, for the paths of the waiting calls, for dying, for    *)
(* going to sleep, for freeing what is pending, for the end of a thread,   *)
(* for the lock and for the context switch, whatever action takes the step.*)
(***************************************************************************)
EXTENDS LifecycleInv, FiniteSetTheorems, TLAPS

\* Counting the threads of a list.
LEMMA CardFacts ==
  ASSUME NEW A \in SUBSET Threads
  PROVE  /\ Cardinality(A) \in Nat
         /\ Cardinality(A) = 0 <=> A = {}
         /\ \A t \in A : /\ Cardinality(A \ {t}) = Cardinality(A) - 1
                         /\ Cardinality(A) = 1 <=> A \ {t} = {}
         /\ \A t \in Threads \ A : Cardinality(A \cup {t}) = Cardinality(A) + 1
<1>1. IsFiniteSet(A)
  BY ConstantsAssumption, FS_Subset, Zenon
<1>2. Cardinality(A) \in Nat /\ (Cardinality(A) = 0 <=> A = {})
  BY <1>1, FS_CardinalityType, FS_EmptySet, Zenon
<1>3. ASSUME NEW t \in A
      PROVE  /\ Cardinality(A \ {t}) = Cardinality(A) - 1
             /\ Cardinality(A) = 1 <=> A \ {t} = {}
  <2>1. IsFiniteSet(A \ {t}) /\ Cardinality(A \ {t}) = Cardinality(A) - 1
    BY <1>1, FS_RemoveElement, Zenon
  <2>2. Cardinality(A \ {t}) = 0 <=> A \ {t} = {}
    BY <2>1, FS_EmptySet, Zenon
  <2> QED
    BY <1>2, <2>1, <2>2, SMT, SMTT(60)
<1>4. ASSUME NEW t \in Threads \ A  PROVE Cardinality(A \cup {t}) = Cardinality(A) + 1
  BY <1>1, FS_AddElement, Zenon
<1> QED
  BY <1>2, <1>3, <1>4, Zenon

\* A thread that a core is running is alive, on the list of a process in use, asleep
\* nowhere and on no other core.
LEMMA RunFacts ==
  ASSUME IInv, NEW c \in Cpus, NEW t \in Threads, cur[c] = t, tstate[t] = "running"
  PROVE  /\ tcpu[t] = c /\ waitq[t] = "none" /\ Linked(t) /\ InUse(tproc[t])
         /\ tproc[t] \in Procs /\ t # Idle /\ (lock # c /\ lock # None => cur[lock] # t)
         /\ \A d \in Cpus : cur[d] = t => d = c
         /\ nproc[t] # None <=> pc[t] \in Making
<1>1. TypeOK /\ CurInv /\ CpuInv /\ SlotInv /\ PathInv
  BY Zenon DEF IInv
<1>2. t # Idle /\ c # None
  BY ConstantsAssumption, Zenon
<1>3. tcpu[t] = c
  BY <1>1, <1>2, Zenon DEF CurInv, CurOK, CurState
<1>4. Linked(t) /\ waitq[t] = "none"
  BY <1>1, Zenon DEF SlotInv, SlotOK, TypeOK
<1>5. InUse(tproc[t])
  BY <1>1, <1>2, Zenon DEF CurInv, CurOK
<1>6. \A d \in Cpus : cur[d] = t => d = c
  BY <1>1, <1>2, <1>3, Zenon DEF CurInv, CurOK, CurState
<1>7. nproc[t] # None <=> pc[t] \in Making
  BY <1>1, Zenon DEF PathInv, PathOK
<1> QED
  BY <1>1, <1>2, <1>3, <1>4, <1>5, <1>6, <1>7, Zenon DEF Linked, TypeOK

\* Waking sleepers, flagging threads and freezing them keeps the invariant as long as
\* no flagged process sleeps.
LEMMA WakeKeeps ==
  ASSUME IInv, NEW t, NEW S, WakeStep(t, S)
  PROVE  IInv'
<1>0. /\ TypeOK /\ LockInv /\ DyingInv /\ CurInv /\ CpuInv /\ SlotInv /\ PathInv
      /\ ListInv /\ CountInv /\ PendInv /\ PidInv /\ FamInv /\ MakeInv /\ WaitInv /\ SleepInv
  BY Zenon DEF IInv
<1>1. /\ UNCHANGED <<tproc, tcpu, joinable, want, peer, nproc, pid, parent, ppid, zombies>>
      /\ UNCHANGED <<tlist, live, pcpu, cur, pendT, pendP, lock, at, dying, nextPid>>
      /\ lock = None /\ S \subseteq Threads /\ KillInv' /\ CancelledNeverSleeps'
  BY Zenon DEF WakeStep, famVars, cpuVars, lockVars
<1>2. \A u \in Threads :
        /\ tstate'[u] = IF u \in S THEN "ready" ELSE tstate[u]
        /\ waitq'[u] = IF u \in S THEN "none" ELSE waitq[u]
        /\ u \in S => tstate[u] = "blocked" /\ waitq[u] # "none" /\ Linked(u)
        /\ pc'[u] = pc[u] \/ (tstate[u] = "running" /\ pc[u] = "user" /\ pc'[u] = "ret")
  BY <1>0, ZenonT(60) DEF WakeStep, TypeOK, Woken, Unqueue, SlotInv, SlotOK
<1>3. TypeOK'
  <2>1. tstate' \in [Threads -> TStates]
    <3>1. tstate' = [u \in Threads |-> IF u \in S THEN "ready" ELSE tstate[u]]
      BY Zenon DEF WakeStep, Woken
    <3>2. tstate \in [Threads -> TStates] /\ "ready" \in TStates
      BY <1>0, Zenon DEF TypeOK, TStates
    <3> QED
      BY <3>1, <3>2, Zenon
  <2>4. pc' \in [Threads -> Paths]
    <3>1. pc \in [Threads -> Paths] /\ "ret" \in Paths
      BY <1>0, Zenon DEF TypeOK, Paths
    <3>2. pc' = pc \/ pc' = [pc EXCEPT ![t] = "ret"]
      BY Zenon DEF WakeStep
    <3> QED
      BY <3>1, <3>2, Zenon
  <2>2. waitq' \in [Threads -> {"none", "child", "join"}]
    BY <1>0, Zenon DEF WakeStep, TypeOK, Unqueue
  <2>3. /\ killed' \in [Threads -> BOOLEAN] /\ susp' \in [Threads -> BOOLEAN] /\ ctrlz' \in Nat
        /\ cancelled' \in [Procs -> BOOLEAN] /\ ended' \in [Procs -> BOOLEAN]
    BY Zenon DEF WakeStep
  <2> QED
    BY <1>0, <1>1, <2>1, <2>2, <2>3, <2>4, Zenon DEF TypeOK
<1>4. LockInv' /\ DyingInv'
  BY <1>0, <1>1, Zenon DEF LockInv, DyingInv
<1>5. CurInv'
  <2>1. \A c \in Cpus : c # None
    BY ConstantsAssumption, Zenon
  <2>2. \A u \in Threads : Linked(u)' <=> Linked(u)
    BY <1>1, Zenon DEF Linked
  <2>3. \A p \in Procs \cup {None} : InUse(p)' <=> InUse(p)
    BY <1>1, Zenon DEF InUse, Unborn
  <2>4. ASSUME NEW c \in Cpus, cur[c] # Idle  PROVE CurOK(c)'
    <3>1. cur[c] \in Threads /\ tproc[cur[c]] \in Procs \cup {None}
      BY <1>0, <2>4, Zenon DEF TypeOK
    <3>2. CurState(c, cur[c]) /\ tstate'[cur[c]] = tstate[cur[c]]
      <4>1. CurState(c, cur[c])
        BY <1>0, <2>4, Zenon DEF CurInv, CurOK
      <4>2. tstate[cur[c]] # "blocked"
        BY <1>1, <2>1, <4>1, Zenon DEF CurState
      <4> QED
        BY <1>2, <3>1, <4>1, <4>2, Zenon
    <3> QED
      BY <1>0, <1>1, <1>2, <2>1, <2>2, <2>3, <3>1, <3>2, Zenon DEF CurInv, CurOK, CurState
  <2> QED
    BY <1>1, <2>4, Zenon DEF CurInv, CurOK
<1>6. CpuInv'
  BY <1>0, <1>1, <1>2, Zenon DEF CpuInv, CpuOK
<1>7. SlotInv'
  BY <1>0, <1>1, <1>2, Zenon DEF SlotInv, SlotOK, Linked
<1>8. PathInv'
  BY <1>0, <1>1, <1>2, ZenonT(60) DEF PathInv, PathOK, Making, Reserving
<1>9. ListInv' /\ CountInv'
  BY <1>0, <1>1, <1>2, ZenonT(120) DEF ListInv, ListOK, CountInv, TypeOK
<1>10. PendInv'
  BY <1>0, <1>1, <1>2 DEF PendInv, PendTOK, PendPOK, ParentIsAlive, Unborn, TypeOK
<1>11. PidInv' /\ FamInv'
  BY <1>0, <1>1 DEF PidInv, FamInv, DeadChild, Unborn
<1>12. MakeInv'
  <2>1. \A u \in Threads : Linked(u)' <=> Linked(u)
    BY <1>1, Zenon DEF Linked
  <2>2. \A u \in Threads : pc'[u] = pc[u] \/ (pc[u] \notin Making /\ pc'[u] \notin Making)
    BY <1>2, Zenon DEF Making, Reserving
  <2>3. ASSUME NEW u \in Threads  PROVE MakeProcOK(u)'
    <3>1. MakeProcOK(u)
      BY <1>0, Zenon DEF MakeInv
    <3> QED
      BY <1>1, <2>2, <3>1, Zenon DEF MakeProcOK
  <2>4. ASSUME NEW u \in Threads  PROVE MakeThreadOK(u)'
    <3>1. MakeThreadOK(u)
      BY <1>0, Zenon DEF MakeInv
    <3>2. pc[u] \in Reserving => peer[u] \in Threads
      BY <1>0, Zenon DEF PathInv, PathOK, TypeOK
    <3> QED
      BY <1>1, <1>2, <2>1, <2>2, <3>1, <3>2, Zenon DEF MakeThreadOK, Making, Reserving
  <2>5. \A u, v \in Threads : u # v => Apart(u, v)'
    BY <1>0, <1>1, <2>2, Zenon DEF MakeInv, Apart, Making, Reserving
  <2> QED
    BY <2>3, <2>4, <2>5, Zenon DEF MakeInv
<1>13. WaitInv'
  BY <1>0, <1>1, <1>2, ZenonT(120) DEF WaitInv, WaitOK, Unborn
<1>14. SleepInv'
  <2>1. ASSUME NEW u \in Threads  PROVE SleepOK(u)'
    <3>1. waitq'[u] = waitq[u] \/ waitq'[u] = "none"
      BY <1>2, Zenon
    <3>0. SleepOK(u)
      BY <1>0, Zenon DEF SleepInv
    <3>2. CASE waitq[u] = "child"
      <4>1. DeadTarget(u)' = DeadTarget(u) /\ Target(u)' = Target(u)
        BY <1>1, Zenon DEF DeadTarget, Target
      <4> QED
        BY <3>0, <3>1, <3>2, <4>1, Zenon DEF SleepOK
    <3>3. CASE waitq[u] = "join"
      <4>1. peer[u] \in Threads
        BY <1>0, <3>3, ZenonT(60) DEF PathInv, PathOK, TypeOK
      <4> QED
        BY <1>1, <1>2, <3>0, <3>1, <3>3, <4>1, Zenon DEF SleepOK, Joins
    <3> QED
      BY <1>0, <3>1, <3>2, <3>3, Zenon DEF TypeOK, SleepOK
  <2> QED
    BY <2>1, Zenon DEF SleepInv
<1> QED
  BY <1>1, <1>3, <1>4, <1>5, <1>6, <1>7, <1>8, <1>9, <1>10, <1>11, <1>12, <1>13, <1>14,
     ZenonT(60) DEF IInv

\* Entering or leaving process_wait and thread_join keeps the invariant.
LEMMA PathKeeps ==
  ASSUME IInv, NEW t \in Threads, PathStep(t)
  PROVE  IInv'
<1>0. /\ TypeOK /\ LockInv /\ DyingInv /\ CurInv /\ CpuInv /\ SlotInv /\ PathInv /\ KillInv
      /\ ListInv /\ CountInv /\ PendInv /\ PidInv /\ FamInv /\ MakeInv /\ WaitInv /\ SleepInv
      /\ CancelledNeverSleeps
  BY Zenon DEF IInv
<1>1. /\ UNCHANGED <<tstate, tproc, tcpu, waitq, joinable, killed, susp, nproc, pid, parent, ppid>>
      /\ UNCHANGED <<zombies, tlist, live, pcpu, cancelled, ended>>
      /\ UNCHANGED <<cur, pendT, pendP, lock, at, dying, nextPid, ctrlz>>
      /\ lock = None /\ tstate[t] = "running" /\ pc[t] \in {"user", "wait", "join"}
      /\ pc' \in [Threads -> Paths] /\ pc'[t] \in {"wait", "join", "ret"}
      /\ want' \in [Threads -> Nat] /\ want'[t] < nextPid /\ WaitOK(t)'
      /\ peer' \in [Threads -> Threads \cup {None}] /\ (pc'[t] = "join" => peer'[t] # None)
      /\ \A u \in Threads \ {t} : pc'[u] = pc[u] /\ want'[u] = want[u] /\ peer'[u] = peer[u]
  BY Zenon DEF PathStep, threadVars, procVars, famVars, cpuVars, lockVars
<1>2. pc[t] \notin Making /\ pc'[t] \notin Making /\ waitq[t] = "none" /\ Linked(t)
  BY <1>0, <1>1, Zenon DEF Making, Reserving, SlotInv, SlotOK, TypeOK
<1>3. TypeOK'
  BY <1>0, <1>1, ZenonT(60) DEF TypeOK
<1>4. LockInv' /\ DyingInv'
  BY <1>0, <1>1, SMT, SMTT(60) DEF LockInv, DyingInv
<1>5. CurInv' /\ CpuInv'
  BY <1>0, <1>1, ZenonT(60)
     DEF CurInv, CurOK, CurState, Linked, InUse, Unborn, CpuInv, CpuOK
<1>6. SlotInv'
  BY <1>0, <1>1, <1>2, Zenon DEF SlotInv, SlotOK, Linked
<1>7. PathInv'
  BY <1>0, <1>1, <1>2, ZenonT(120) DEF PathInv, PathOK, Making, Reserving
<1>8. KillInv' /\ ListInv' /\ CountInv'
  BY <1>0, <1>1, Zenon DEF KillInv, ListInv, ListOK, CountInv, Linked
<1>9. PendInv'
  BY <1>0, <1>1, ZenonT(120) DEF PendInv, PendTOK, PendPOK, ParentIsAlive, Unborn
<1>10. PidInv'
  <2>1. \A u \in Threads : want'[u] < nextPid
    BY <1>0, <1>1, Zenon DEF PidInv
  <2> QED
    BY <1>0, <1>1, <2>1, Zenon DEF PidInv
<1>11. FamInv'
  BY <1>0, <1>1 DEF FamInv, DeadChild, Unborn
<1>12. MakeInv'
  <2>1. \A u \in Threads : pc'[u] \in Making => u # t
    BY <1>2, Zenon
  <2>2. ASSUME NEW u \in Threads  PROVE MakeProcOK(u)' /\ MakeThreadOK(u)'
    <3>1. MakeProcOK(u) /\ MakeThreadOK(u)
      BY <1>0, Zenon DEF MakeInv
    <3>2. CASE u = t
      BY <1>2, <3>2, Zenon DEF MakeProcOK, MakeThreadOK, Making
    <3>3. CASE u # t
      BY <1>1, <3>1, <3>3, Zenon DEF MakeProcOK, MakeThreadOK, Linked
    <3> QED
      BY <3>2, <3>3, Zenon
  <2>3. ASSUME NEW u \in Threads, NEW v \in Threads, u # v  PROVE Apart(u, v)'
    BY <1>0, <1>1, <1>2, <2>3, ZenonT(120) DEF MakeInv, Apart, Making
  <2> QED
    BY <2>2, <2>3, Zenon DEF MakeInv
<1>13. WaitInv'
  BY <1>0, <1>1 DEF WaitInv, WaitOK, Unborn
<1>14. SleepInv'
  <2>1. ASSUME NEW u \in Threads  PROVE SleepOK(u)'
    <3>1. SleepOK(u)
      BY <1>0, Zenon DEF SleepInv
    <3>2. u # t => DeadTarget(u)' = DeadTarget(u) /\ Target(u)' = Target(u)
      BY <1>1, Zenon DEF DeadTarget, Target
    <3> QED
      BY <1>1, <1>2, <3>1, <3>2, Zenon DEF SleepOK, Joins
  <2> QED
    BY <2>1, Zenon DEF SleepInv
<1>15. CancelledNeverSleeps'
  BY <1>0, <1>1, Zenon DEF CancelledNeverSleeps
<1> QED
  BY <1>3, <1>4, <1>5, <1>6, <1>7, <1>8, <1>9, <1>10, <1>11, <1>12, <1>13, <1>14, <1>15,
     ZenonT(60) DEF IInv

\* The unlocked ZOMBIE store, and the return to user mode, keep the invariant.
LEMMA DieKeeps ==
  ASSUME IInv, NEW c \in Cpus, NEW t \in Threads, DieStep(c, t)
  PROVE  IInv'
<1>0. /\ TypeOK /\ LockInv /\ DyingInv /\ CurInv /\ CpuInv /\ SlotInv /\ PathInv /\ KillInv
      /\ ListInv /\ CountInv /\ PendInv /\ PidInv /\ FamInv /\ MakeInv /\ WaitInv /\ SleepInv
      /\ CancelledNeverSleeps
  BY Zenon DEF IInv
<1>1. /\ UNCHANGED <<tproc, tcpu, waitq, joinable, killed, susp, want, peer, nproc>>
      /\ UNCHANGED <<pid, parent, ppid, zombies, tlist, live, pcpu, cancelled, ended>>
      /\ UNCHANGED <<cur, pendT, pendP, lock, at, dying, nextPid, ctrlz>>
      /\ lock # c /\ cur[c] = t /\ tstate[t] = "running" /\ pc[t] \in {"user", "ret"}
  BY Zenon DEF DieStep, procVars, famVars, cpuVars, lockVars
<1>2. /\ \A u \in Threads \ {t} : tstate'[u] = tstate[u] /\ pc'[u] = pc[u]
      /\ tstate'[t] \in {"running", "zombie"} /\ pc'[t] \in {"user", "dead"}
      /\ pc'[t] \notin Making /\ pc[t] \notin Making
  BY <1>0, <1>1, ZenonT(60) DEF DieStep, TypeOK, Making, Reserving
<1>3. /\ tcpu[t] = c /\ c # None /\ waitq[t] = "none" /\ Linked(t) /\ nproc[t] = None
      /\ lock # None => cur[lock] # t
  BY <1>1, <1>2, RunFacts, ConstantsAssumption, ZenonT(60)
<1>4. TypeOK'
  <2>1. tstate' \in [Threads -> TStates]
    BY <1>0, ZenonT(120) DEF DieStep, TypeOK, TStates
  <2>2. pc' \in [Threads -> Paths]
    BY <1>0, SMT, SMTT(60) DEF DieStep, TypeOK, Paths
  <2> QED
    BY <1>0, <1>1, <2>1, <2>2, Zenon DEF TypeOK
<1>5. \A u \in Threads : Linked(u)' <=> Linked(u)
  BY <1>1, Zenon DEF Linked
<1>6. LockInv' /\ DyingInv'
  <2>1. LockInv'
    BY <1>0, <1>1, <1>2, <1>3, <1>5, ZenonT(60) DEF LockInv, TypeOK
  <2>2. DyingInv'
    BY <1>0, <1>1, <1>2, <1>3, ZenonT(60) DEF DyingInv, LockInv, TypeOK, ParentIsAlive
  <2> QED
    BY <2>1, <2>2, Zenon
<1>7. CurInv'
  <2>1. ASSUME NEW d \in Cpus  PROVE CurOK(d)'
    <3>1. CurOK(d) /\ cur[d] \in Threads \cup {Idle}
      BY <1>0, Zenon DEF CurInv, TypeOK
    <3>2. InUse(tproc[cur[d]])' <=> InUse(tproc[cur[d]])
      BY <1>1, Zenon DEF InUse, Unborn
    <3>3. CASE cur[d] = t
      <4>1. d = c
        BY <1>1, <3>3, RunFacts
      <4> QED
        BY <1>1, <1>2, <1>3, <1>5, <3>1, <3>2, <3>3, <4>1, Zenon DEF CurOK, CurState
    <3>4. CASE cur[d] # t
      BY <1>1, <1>2, <1>5, <3>1, <3>2, <3>4, ZenonT(60) DEF CurOK, CurState
    <3> QED
      BY <3>3, <3>4, Zenon
  <2> QED
    BY <2>1, Zenon DEF CurInv
<1>8. CpuInv'
  BY <1>0, <1>1, <1>2, <1>3, ZenonT(60) DEF CpuInv, CpuOK
<1>9. SlotInv'
  BY <1>0, <1>1, <1>2, <1>3, <1>5, SMT, SMTT(60) DEF SlotInv, SlotOK
<1>10. PathInv'
  BY <1>0, <1>1, <1>2, <1>3, SMT, SMTT(60) DEF PathInv, PathOK, Making, Reserving
<1>11. KillInv' /\ ListInv' /\ CountInv'
  BY <1>0, <1>1, <1>2, SMT, SMTT(60) DEF KillInv, ListInv, ListOK, CountInv, Linked, TypeOK
<1>12. PendInv'
  <2>1. ASSUME NEW d \in Cpus  PROVE PendTOK(d)' /\ PendPOK(d)'
    <3>1. PendTOK(d) /\ PendPOK(d)
      BY <1>0, Zenon DEF PendInv
    <3>2. PendTOK(d)'
      BY <1>0, <1>1, <1>2, <3>1, ZenonT(60) DEF PendTOK, TypeOK
    <3>3. PendPOK(d)'
      BY <1>1, <3>1, Zenon DEF PendPOK, ParentIsAlive, Unborn
    <3> QED
      BY <3>2, <3>3, Zenon
  <2> QED
    BY <1>0, <1>1, <2>1, Zenon DEF PendInv
<1>13. PidInv' /\ FamInv'
  <2>1. PidInv'
    BY <1>0, <1>1, ZenonT(60) DEF PidInv
  <2>2. FamInv'
    BY <1>0, <1>1, SMT, SMTT(60) DEF FamInv, DeadChild, Unborn
  <2> QED
    BY <2>1, <2>2, Zenon
<1>14. MakeInv'
  <2>1. ASSUME NEW u \in Threads  PROVE MakeProcOK(u)' /\ MakeThreadOK(u)'
    <3>1. MakeProcOK(u) /\ MakeThreadOK(u)
      BY <1>0, Zenon DEF MakeInv
    <3>2. CASE u = t
      BY <1>2, <3>2, Zenon DEF MakeProcOK, MakeThreadOK, Making
    <3>3. CASE u # t
      <4>1. pc[u] \in Reserving => peer[u] \in Threads /\ peer[u] # t
        <5>1. pc[u] \in Reserving => peer[u] # None /\ peer[u] \in Threads \cup {None}
          BY <1>0, Zenon DEF PathInv, PathOK, TypeOK
        <5>2. pc[u] \in Reserving => tstate[peer[u]] = "blocked"
          BY <3>1, Zenon DEF MakeThreadOK
        <5> QED
          BY <1>1, <5>1, <5>2, SMT, SMTT(60)
      <4>2. MakeProcOK(u)'
        BY <1>1, <1>2, <3>1, <3>3, Zenon DEF MakeProcOK
      <4>3. MakeThreadOK(u)'
        BY <1>1, <1>2, <1>5, <3>1, <3>3, <4>1, Zenon DEF MakeThreadOK, Reserving
      <4> QED
        BY <4>2, <4>3, Zenon
    <3> QED
      BY <3>2, <3>3, Zenon
  <2>3. ASSUME NEW u \in Threads, NEW v \in Threads, u # v  PROVE Apart(u, v)'
    BY <1>0, <1>1, <1>2, <2>3, ZenonT(60) DEF MakeInv, Apart, Making
  <2> QED
    BY <2>1, <2>3, Zenon DEF MakeInv
<1>15. WaitInv'
  BY <1>0, <1>1, <1>2, SMT, SMTT(60) DEF WaitInv, WaitOK, Unborn
<1>16. SleepInv'
  <2>1. ASSUME NEW u \in Threads  PROVE SleepOK(u)'
    <3>1. SleepOK(u)
      BY <1>0, Zenon DEF SleepInv
    <3>2. DeadTarget(u)' = DeadTarget(u) /\ Target(u)' = Target(u)
      BY <1>1, Zenon DEF DeadTarget, Target
    <3>3. waitq[u] = "join" => peer[u] \in Threads
      BY <1>0, Zenon DEF PathInv, PathOK, TypeOK
    <3> QED
      BY <1>1, <1>2, <1>3, <3>1, <3>2, <3>3, ZenonT(120) DEF SleepOK, Joins, Linked
  <2> QED
    BY <2>1, Zenon DEF SleepInv
<1>17. CancelledNeverSleeps'
  BY <1>0, <1>1, <1>2, <1>3, ZenonT(60) DEF CancelledNeverSleeps
<1> QED
  BY <1>4, <1>6, <1>7, <1>8, <1>9, <1>10, <1>11, <1>12, <1>13, <1>14, <1>15, <1>16,
     <1>17, ZenonT(60) DEF IInv

\* Going to sleep under the lock keeps the invariant.
LEMMA BlockKeeps ==
  ASSUME IInv, NEW c \in Cpus, NEW t \in Threads, NEW q, SleepStep(c, t, q)
  PROVE  IInv'
<1>0. /\ TypeOK /\ LockInv /\ DyingInv /\ CurInv /\ CpuInv /\ SlotInv /\ PathInv /\ KillInv
      /\ ListInv /\ CountInv /\ PendInv /\ PidInv /\ FamInv /\ MakeInv /\ WaitInv /\ SleepInv
      /\ CancelledNeverSleeps
  BY Zenon DEF IInv
<1>1. /\ UNCHANGED <<tproc, joinable, killed, susp, pc, want, peer, nproc>>
      /\ UNCHANGED <<pid, parent, ppid, zombies, tlist, live, pcpu, cancelled, ended>>
      /\ UNCHANGED <<cur, pendT, pendP, nextPid, ctrlz>>
  BY Zenon DEF SleepStep, pathVars, procVars, famVars, cpuVars
<1>2. /\ \A u \in Threads \ {t} : tstate'[u] = tstate[u] /\ tcpu'[u] = tcpu[u] /\ waitq'[u] = waitq[u]
      /\ tstate'[t] = "blocked" /\ tcpu'[t] = None /\ waitq'[t] = q
      /\ lock' = c /\ at' = "reap" /\ dying' = None
      /\ lock = None /\ cur[c] = t /\ tstate[t] = "running"
  BY <1>0, Zenon DEF SleepStep, TypeOK, Block, EnterSchedule
<1>3. /\ tcpu[t] = c /\ c # None /\ waitq[t] = "none" /\ Linked(t) /\ tproc[t] \in Procs
      /\ \A d \in Cpus : d # None /\ (cur[d] = t => d = c)
      /\ pc[t] \notin Making /\ q # "none"
  <2>1. c # None /\ \A d \in Cpus : d # None
    BY ConstantsAssumption, Zenon
  <2>2. pc[t] \notin Making /\ q # "none"
    BY Zenon DEF SleepStep, Making, Reserving
  <2> QED
    BY <2>1, <2>2, RunFacts, ZenonT(60) DEF SleepStep
<1>4. TypeOK'
  <2>1. /\ tstate' \in [Threads -> TStates] /\ tcpu' \in [Threads -> Cpus \cup {None}]
        /\ waitq' \in [Threads -> {"none", "child", "join"}]
    BY <1>0, Zenon DEF SleepStep, TypeOK, TStates, Block
  <2> QED
    BY <1>0, <1>1, <1>2, <2>1, Zenon DEF TypeOK
<1>5. \A u \in Threads : Linked(u)' <=> Linked(u)
  BY <1>1, Zenon DEF Linked
<1>6. LockInv' /\ DyingInv'
  BY <1>2, <1>3, Zenon DEF LockInv, DyingInv
<1>7. CurInv'
  <2>1. ASSUME NEW d \in Cpus  PROVE CurOK(d)'
    <3>1. CurOK(d) /\ cur[d] \in Threads \cup {Idle}
      BY <1>0, Zenon DEF CurInv, TypeOK
    <3>2. InUse(tproc[cur[d]])' <=> InUse(tproc[cur[d]])
      BY <1>1, Zenon DEF InUse, Unborn
    <3>3. CASE cur[d] = t
      BY <1>1, <1>2, <1>3, <1>5, <3>1, <3>2, <3>3, ZenonT(60) DEF CurOK, CurState
    <3>4. CASE cur[d] # t
      BY <1>1, <1>2, <1>3, <1>5, <3>1, <3>2, <3>4, ZenonT(60) DEF CurOK, CurState
    <3> QED
      BY <3>3, <3>4, Zenon
  <2> QED
    BY <2>1, Zenon DEF CurInv
<1>8. CpuInv'
  BY <1>0, <1>1, <1>2, ZenonT(60) DEF CpuInv, CpuOK
<1>9. SlotInv'
  BY <1>0, <1>1, <1>2, <1>3, <1>5, ZenonT(120) DEF SlotInv, SlotOK
<1>10. PathInv'
  <2>1. ASSUME NEW u \in Threads  PROVE PathOK(u)'
    <3>1. PathOK(u)
      BY <1>0, Zenon DEF PathInv
    <3> QED
      BY <1>1, <1>2, <1>3, <3>1, Zenon DEF SleepStep, PathOK
  <2> QED
    BY <2>1, Zenon DEF PathInv
<1>11. KillInv' /\ ListInv' /\ CountInv'
  BY <1>0, <1>1, <1>2 DEF KillInv, ListInv, ListOK, CountInv, Linked, TypeOK
<1>12. PendInv'
  <2>1. ASSUME NEW d \in Cpus  PROVE PendTOK(d)' /\ PendPOK(d)'
    <3>1. PendTOK(d) /\ PendPOK(d)
      BY <1>0, Zenon DEF PendInv
    <3>2. PendTOK(d)'
      BY <1>0, <1>1, <1>2, <3>1, ZenonT(60) DEF PendTOK, TypeOK
    <3>3. PendPOK(d)'
      BY <1>1, <3>1, Zenon DEF PendPOK, ParentIsAlive, Unborn
    <3> QED
      BY <3>2, <3>3, Zenon
  <2> QED
    BY <1>0, <1>1, <2>1, Zenon DEF PendInv
<1>13. PidInv' /\ FamInv'
  <2>1. PidInv'
    BY <1>0, <1>1, Zenon DEF PidInv
  <2>2. FamInv'
    BY <1>0, <1>1 DEF FamInv, DeadChild, Unborn
  <2> QED
    BY <2>1, <2>2, Zenon
<1>14. MakeInv'
  <2>1. ASSUME NEW u \in Threads  PROVE MakeProcOK(u)' /\ MakeThreadOK(u)'
    <3>1. MakeProcOK(u) /\ MakeThreadOK(u)
      BY <1>0, Zenon DEF MakeInv
    <3>2. pc[u] \in Reserving => peer[u] \in Threads /\ peer[u] # t
      BY <1>0, <1>2, <3>1, ZenonT(120) DEF PathInv, PathOK, TypeOK, MakeThreadOK
    <3>3. MakeProcOK(u)'
      BY <1>1, <3>1, Zenon DEF MakeProcOK
    <3>4. MakeThreadOK(u)'
      BY <1>1, <1>2, <1>5, <3>1, <3>2, Zenon DEF MakeThreadOK, Reserving
    <3> QED
      BY <3>3, <3>4, Zenon
  <2>3. ASSUME NEW u \in Threads, NEW v \in Threads, u # v  PROVE Apart(u, v)'
    BY <1>0, <1>1, <2>3, Zenon DEF MakeInv, Apart
  <2> QED
    BY <2>1, <2>3, Zenon DEF MakeInv
<1>15. WaitInv'
  BY <1>0, <1>1, ZenonT(60) DEF WaitInv, WaitOK, Unborn
<1>16. SleepInv'
  <2>1. ASSUME NEW u \in Threads  PROVE SleepOK(u)'
    <3>1. SleepOK(u)
      BY <1>0, Zenon DEF SleepInv
    <3>2. DeadTarget(u)' = DeadTarget(u) /\ Target(u)' = Target(u)
      BY <1>1, Zenon DEF DeadTarget, Target
    <3>3. waitq'[u] = "join" => peer[u] \in Threads
      BY <1>0, <1>2, ZenonT(60) DEF SleepStep, PathInv, PathOK, TypeOK
    <3>4. waitq'[u] = "join" => Joins(u) /\ (tstate[peer[u]] = "zombie" => peer[u] \in tlist[tproc[u]])
      BY <1>2, <3>1, Zenon DEF SleepStep, SleepOK
    <3>5. waitq'[u] = "child" => DeadTarget(u) = {} /\ Target(u) # {}
      BY <1>2, <3>1, Zenon DEF SleepStep, SleepOK
    <3> QED
      BY <1>1, <1>2, <3>2, <3>3, <3>4, <3>5, Zenon DEF SleepOK, Joins
  <2> QED
    BY <2>1, Zenon DEF SleepInv
<1>17. CancelledNeverSleeps'
  BY <1>0, <1>1, <1>2, <1>3, ZenonT(60) DEF SleepStep, CancelledNeverSleeps, KillInv
<1> QED
  BY <1>4, <1>6, <1>7, <1>8, <1>9, <1>10, <1>11, <1>12, <1>13, <1>14, <1>15, <1>16,
     <1>17, Zenon DEF IInv

\* Reclaiming dead threads and finished processes keeps the invariant.
LEMMA FreeKeeps ==
  ASSUME IInv, NEW G, NEW P, NEW r, FreeStep(G, P, r)
  PROVE  IInv'
<1>0. /\ TypeOK /\ LockInv /\ DyingInv /\ CurInv /\ CpuInv /\ SlotInv /\ PathInv /\ KillInv
      /\ ListInv /\ CountInv /\ PendInv /\ PidInv /\ FamInv /\ MakeInv /\ WaitInv /\ SleepInv
      /\ CancelledNeverSleeps
  BY Zenon DEF IInv
<1>1. /\ UNCHANGED <<tcpu, waitq, pcpu, cur, lock, dying, nextPid, ctrlz>>
      /\ G \subseteq Threads /\ P \subseteq Procs
  BY Zenon DEF FreeStep, FreeThreads, FreeProcs
<1>2. \A u \in Threads \ G :
        /\ tstate'[u] = tstate[u] /\ tproc'[u] = tproc[u] /\ joinable'[u] = joinable[u]
        /\ killed'[u] = killed[u] /\ susp'[u] = susp[u] /\ nproc'[u] = nproc[u]
        /\ u # r => pc'[u] = pc[u] /\ want'[u] = want[u] /\ peer'[u] = peer[u]
        /\ u = r => pc'[u] = "ret" /\ want'[u] = 0 /\ peer'[u] = None
  <2>1. \A u \in Threads \ G :
          /\ tstate'[u] = tstate[u] /\ tproc'[u] = tproc[u]
          /\ joinable'[u] = joinable[u] /\ killed'[u] = killed[u] /\ susp'[u] = susp[u]
    BY <1>0, ZenonT(60) DEF FreeStep, FreeThreads, TypeOK
  <2>2. \A u \in Threads \ G :
          /\ nproc'[u] = nproc[u]
          /\ u # r => pc'[u] = pc[u] /\ want'[u] = want[u] /\ peer'[u] = peer[u]
          /\ u = r => pc'[u] = "ret" /\ want'[u] = 0 /\ peer'[u] = None
    BY <1>0, Zenon DEF FreeStep, Returns
  <2> QED
    BY <2>1, <2>2, ZenonT(60)
<1>3. \A g \in G :
        /\ g \in Threads /\ tstate[g] = "zombie" /\ tcpu[g] = None /\ waitq[g] = "none" /\ ~Linked(g)
        /\ tstate'[g] = "unused" /\ tproc'[g] = None /\ ~joinable'[g] /\ ~killed'[g]
        /\ pc'[g] = "user" /\ want'[g] = 0 /\ nproc[g] = None /\ nproc'[g] = None
        /\ pc[g] \notin {"wait", "join"} /\ pc[g] \notin Making
  <2>1. \A g \in G : g \in Threads /\ tstate[g] = "zombie" /\ tcpu[g] = None
    BY Zenon DEF FreeStep
  <2>2. \A g \in G : /\ tstate'[g] = "unused" /\ tproc'[g] = None /\ ~joinable'[g] /\ ~killed'[g]
    BY <2>1, Zenon DEF FreeStep, FreeThreads
  <2>3. \A g \in G : pc'[g] = "user" /\ want'[g] = 0 /\ nproc'[g] = None
    BY <2>1, Zenon DEF FreeStep, Returns
  <2>4. \A g \in G : waitq[g] = "none" /\ ~Linked(g)
    BY <1>0, <2>1, ZenonT(60) DEF SlotInv, SlotOK
  <2>5. \A g \in G : nproc[g] = None /\ pc[g] \notin {"wait", "join"} /\ pc[g] \notin Making
    BY <1>0, <2>1, <2>4, ZenonT(60) DEF PathInv, PathOK
  <2> QED
    BY <2>1, <2>2, <2>3, <2>4, <2>5, Zenon
<1>4. \A p \in Procs \ P :
        /\ pid'[p] = pid[p] /\ parent'[p] = parent[p] /\ ppid'[p] = ppid[p] /\ tlist'[p] = tlist[p]
        /\ live'[p] = live[p] /\ zombies'[p] = zombies[p] \ P /\ cancelled'[p] = cancelled[p]
  BY <1>0, ZenonT(60) DEF FreeStep, FreeProcs, TypeOK
<1>5. \A p \in P :
        /\ p \in Procs /\ pid[p] # 0 /\ tlist[p] = {} /\ ~Unborn(p)
        /\ pid'[p] = 0 /\ parent'[p] = None /\ ppid'[p] = 0 /\ tlist'[p] = {} /\ live'[p] = 0
        /\ zombies'[p] = {} /\ ~cancelled'[p]
  BY Zenon DEF FreeStep, FreeProcs
<1>6. /\ \A u \in Threads : Linked(u)' <=> Linked(u)
      /\ \A u \in Threads : Linked(u) => tproc[u] \notin P /\ u \notin G
      /\ \A p \in Procs : Unborn(p)' <=> Unborn(p)
      /\ \A p \in Procs : p \notin P /\ ParentIsAlive(p)' => ParentIsAlive(p)
  <2>1. \A u \in Threads : Linked(u) => tproc[u] \notin P /\ u \notin G
    BY <1>3, <1>5, Zenon DEF Linked
  <2>2. None \notin Procs
    BY ConstantsAssumption, ZenonT(60)
  <2>3. ASSUME NEW u \in Threads  PROVE Linked(u)' <=> Linked(u)
    BY <1>2, <1>3, <1>4, <1>5, <2>1, <2>2, SMT, SMTT(60) DEF Linked
  <2>4. \A p \in Procs : Unborn(p)' <=> Unborn(p)
    BY <1>2, <1>3, <2>2, SMT, SMTT(60) DEF Unborn
  <2>5. ASSUME NEW p \in Procs, p \notin P, ParentIsAlive(p)'  PROVE ParentIsAlive(p)
    <3>1. parent[p] \in Procs /\ parent'[p] = parent[p] /\ ppid'[p] = ppid[p]
      BY <1>0, <1>4, <2>5, ZenonT(60) DEF TypeOK, ParentIsAlive
    <3> QED
      BY <1>4, <1>5, <2>5, <3>1, SMT, SMTT(60) DEF ParentIsAlive
  <2> QED
    BY <2>1, <2>3, <2>4, <2>5, ZenonT(60)
<1>7. TypeOK'
  <2>1. /\ tstate' \in [Threads -> TStates] /\ tproc' \in [Threads -> Procs \cup {None}]
        /\ joinable' \in [Threads -> BOOLEAN] /\ killed' \in [Threads -> BOOLEAN]
        /\ susp' \in [Threads -> BOOLEAN]
    BY <1>0, Zenon DEF FreeStep, FreeThreads, TypeOK, TStates
  <2>2. /\ pc' \in [Threads -> Paths] /\ want' \in [Threads -> Nat]
        /\ peer' \in [Threads -> Threads \cup {None}] /\ nproc' \in [Threads -> Procs \cup {None}]
    BY <1>0, Zenon DEF FreeStep, Returns, TypeOK, Paths
  <2>3. /\ pid' \in [Procs -> Nat] /\ parent' \in [Procs -> Procs \cup {None}]
        /\ ppid' \in [Procs -> Nat] /\ tlist' \in [Procs -> SUBSET Threads]
        /\ live' \in [Procs -> Nat] /\ zombies' \in [Procs -> SUBSET Procs]
        /\ cancelled' \in [Procs -> BOOLEAN] /\ ended' \in [Procs -> BOOLEAN]
    BY <1>0, Zenon DEF FreeStep, FreeProcs, TypeOK
  <2>4. /\ pendT' \in [Cpus -> Threads \cup {None}] /\ pendP' \in [Cpus -> Procs \cup {None}]
        /\ at' \in {"free", "reap", "zombie", "switch"}
    BY Zenon DEF FreeStep
  <2> QED
    BY <1>0, <1>1, <2>1, <2>2, <2>3, <2>4, Zenon DEF TypeOK
<1>8. LockInv' /\ DyingInv'
  BY <1>0, <1>1, Zenon DEF FreeStep, LockInv, DyingInv
<1>9. CurInv'
  <2>1. ASSUME NEW d \in Cpus, cur[d] # Idle  PROVE CurOK(d)'
    <3>1. CurOK(d) /\ cur[d] \in Threads /\ d # None
      BY <1>0, <2>1, ConstantsAssumption, ZenonT(60) DEF CurInv, TypeOK
    <3>2. cur[d] \notin G
      <4>1. tstate[cur[d]] = "zombie" => tcpu[cur[d]] = d
        BY <2>1, <3>1, Zenon DEF CurOK, CurState
      <4> QED
        BY <1>3, <3>1, <4>1, Zenon
    <3>3. tproc[cur[d]] \notin P
      BY <2>1, Zenon DEF FreeStep
    <3>4. InUse(tproc[cur[d]])'
      <4>1. InUse(tproc[cur[d]]) /\ tproc'[cur[d]] = tproc[cur[d]]
        BY <1>2, <2>1, <3>1, <3>2, Zenon DEF CurOK
      <4>2. \A e \in Cpus : pendP'[e] # tproc[cur[d]]
        BY <4>1, ConstantsAssumption, ZenonT(120) DEF FreeStep, InUse
      <4> QED
        BY <1>1, <1>4, <1>6, <3>3, <4>1, <4>2, ZenonT(120) DEF InUse
    <3> QED
      BY <1>1, <1>2, <1>6, <3>1, <3>2, <3>4, ZenonT(60) DEF CurOK, CurState
  <2> QED
    BY <1>1, <2>1, Zenon DEF CurInv, CurOK
<1>10. CpuInv'
  BY <1>0, <1>1, <1>2, <1>3, ZenonT(120) DEF CpuInv, CpuOK
<1>11. SlotInv'
  <2>1. ASSUME NEW u \in Threads  PROVE SlotOK(u)'
    <3>1. SlotOK(u) /\ (Linked(u)' <=> Linked(u))
      BY <1>0, <1>6, Zenon DEF SlotInv
    <3>2. u \notin G /\ u = r => tstate[u] = "running"
      BY Zenon DEF FreeStep
    <3>3. CASE u \in G
      BY <1>1, <1>3, <3>1, <3>3, Zenon DEF SlotOK
    <3>4. CASE u \notin G
      BY <1>1, <1>2, <3>1, <3>2, <3>4, ZenonT(60) DEF SlotOK
    <3> QED
      BY <3>3, <3>4, Zenon
  <2> QED
    BY <2>1, Zenon DEF SlotInv
<1>12. \A u \in Threads : u \notin G /\ u = r =>
         tstate[u] = "running" /\ waitq[u] = "none" /\ pc[u] \notin Making /\ nproc[u] = None
  <2>1. ASSUME NEW u \in Threads, u = r
        PROVE tstate[u] = "running" /\ pc[u] \in {"wait", "join"} /\ pc[u] \notin Making
    BY <2>1, Zenon DEF FreeStep, Making, Reserving
  <2>2. ASSUME NEW u \in Threads, u = r  PROVE waitq[u] = "none" /\ nproc[u] = None
    BY <1>0, <2>1, <2>2, ZenonT(60) DEF SlotInv, SlotOK, PathInv, PathOK, TypeOK
  <2> QED
    BY <2>1, <2>2, Zenon
<1>13. PathInv'
  <2>1. "user" \notin Making /\ "ret" \notin Making
    BY Zenon DEF Making, Reserving
  <2>2. ASSUME NEW u \in Threads  PROVE PathOK(u)'
    <3>1. PathOK(u)
      BY <1>0, Zenon DEF PathInv
    <3>2. CASE u \in G
      BY <1>1, <1>3, <2>1, <3>2, Zenon DEF PathOK, Making, Reserving
    <3>3. CASE u \notin G /\ u = r
      BY <1>1, <1>2, <1>12, <2>1, <3>3, ZenonT(60) DEF PathOK, Making, Reserving
    <3>4. CASE u \notin G /\ u # r
      BY <1>1, <1>2, <3>1, <3>4, ZenonT(60) DEF PathOK
    <3> QED
      BY <3>2, <3>3, <3>4, Zenon
  <2> QED
    BY <2>2, Zenon DEF PathInv
<1>14. KillInv'
  <2>1. ASSUME NEW u \in Threads, killed'[u], Linked(u)'  PROVE cancelled'[tproc'[u]]
    <3>1. u \notin G /\ Linked(u) /\ tproc[u] \notin P /\ tproc'[u] = tproc[u] /\ killed[u]
      BY <1>2, <1>6, <2>1, Zenon
    <3> QED
      BY <1>0, <1>4, <3>1, ZenonT(60) DEF KillInv, Linked
  <2> QED
    BY <2>1, Zenon DEF KillInv
<1>15. ListInv' /\ CountInv'
  <2>1. ASSUME NEW p \in Procs  PROVE ListOK(p)'
    <3>1. ListOK(p)
      BY <1>0, Zenon DEF ListInv
    <3>2. \A u \in tlist[p] : u \in Threads /\ Linked(u) /\ u \notin G
      BY <1>0, <1>6, <3>1, ZenonT(60) DEF ListOK, Linked, TypeOK
    <3>3. CASE p \in P
      BY <1>5, <3>3, Zenon DEF ListOK
    <3>4. CASE p \notin P
      BY <1>2, <1>4, <3>1, <3>2, <3>4, ZenonT(60) DEF ListOK
    <3> QED
      BY <3>3, <3>4, Zenon
  <2>2. ASSUME NEW p \in Procs  PROVE live'[p] = Cardinality(tlist'[p])
    <3>1. CASE p \in P
      BY <1>5, <3>1, FS_EmptySet, Zenon
    <3>2. CASE p \notin P
      BY <1>0, <1>4, <3>2, ZenonT(60) DEF CountInv
    <3> QED
      BY <3>1, <3>2, Zenon
  <2> QED
    BY <2>1, <2>2, Zenon DEF ListInv, CountInv
<1>16. PendInv'
  <2>1. ASSUME NEW d \in Cpus  PROVE PendTOK(d)' /\ PendPOK(d)'
    <3>1. PendTOK(d) /\ PendPOK(d)
      BY <1>0, Zenon DEF PendInv
    <3>2. /\ pendT'[d] \in (Threads \ G) \cup {None} /\ pendP'[d] \in (Procs \ P) \cup {None}
          /\ \/ pendT'[d] = pendT[d] /\ pendP'[d] = pendP[d]
             \/ pendT'[d] = None /\ pendP'[d] = None
      BY Zenon DEF FreeStep
    <3>3. PendTOK(d)'
      BY <1>1, <1>2, <3>1, <3>2, ZenonT(120) DEF PendTOK
    <3>4. PendPOK(d)'
      BY <1>4, <1>6, <3>1, <3>2, ZenonT(120) DEF PendPOK
    <3> QED
      BY <3>3, <3>4, Zenon
  <2>2. ASSUME NEW c \in Cpus, NEW d \in Cpus, c # d
        PROVE  /\ pendT'[c] = pendT'[d] => pendT'[c] = None
               /\ pendP'[c] = pendP'[d] => pendP'[c] = None
    BY <1>0, <2>2, ZenonT(120) DEF FreeStep, PendInv
  <2> QED
    BY <2>1, <2>2, Zenon DEF PendInv
<1>17. PidInv'
  <2>1. \A p \in Procs : pid'[p] < nextPid /\ ppid'[p] < nextPid
    BY <1>0, <1>4, <1>5, SMT, SMTT(60) DEF PidInv, TypeOK
  <2>2. \A p, q \in Procs : pid'[p] = pid'[q] /\ pid'[p] # 0 => p = q
    BY <1>0, <1>4, <1>5, ZenonT(120) DEF PidInv
  <2>3. \A u \in Threads : want'[u] < nextPid
    BY <1>0, <1>2, <1>3, SMT, SMTT(60) DEF PidInv, TypeOK
  <2> QED
    BY <1>1, <2>1, <2>2, <2>3, ZenonT(60) DEF PidInv
<1>18. FamInv'
  <2>1. ASSUME NEW p \in Procs, NEW z \in Procs
        PROVE  z \in zombies'[p] <=> DeadChild(z, p)'
    <3>1. z \in zombies[p] <=> DeadChild(z, p)
      BY <1>0, Zenon DEF FamInv
    <3>2. CASE p \in P \/ z \in P
      BY <1>4, <1>5, <3>2, Zenon DEF DeadChild
    <3>3. CASE p \notin P /\ z \notin P
      BY <1>4, <1>6, <3>1, <3>3, Zenon DEF DeadChild
    <3> QED
      BY <3>2, <3>3, Zenon
  <2> QED
    BY <2>1, Zenon DEF FamInv
<1>19. MakeInv'
  <2>0. "user" \notin Making /\ "ret" \notin Making
    BY Zenon DEF Making, Reserving
  <2>1. \A u \in Threads : pc'[u] \in Making =>
          /\ u \notin G /\ u # r /\ pc'[u] = pc[u] /\ nproc'[u] = nproc[u] /\ peer'[u] = peer[u]
          /\ tproc'[u] = tproc[u]
    BY <1>2, <1>3, <2>0, ZenonT(60)
  <2>2. ASSUME NEW u \in Threads, pc'[u] \in Making  PROVE MakeProcOK(u)'
    <3>1. MakeProcOK(u) /\ pc[u] \in Making /\ nproc[u] \in Procs
      BY <1>0, <2>1, <2>2, ZenonT(60) DEF MakeInv, PathInv, PathOK, TypeOK
    <3>2. nproc[u] # tproc[u] => nproc[u] \notin P
      BY <1>5, <3>1, Zenon DEF Unborn
    <3>3. \A z \in Procs : parent'[z] = nproc[u] => parent[z] = nproc[u] /\ ppid'[z] = ppid[z]
      BY <1>4, <1>5, <3>1, ConstantsAssumption, ZenonT(120)
    <3>4. CASE nproc[u] # tproc[u]
      <4>1. /\ pid'[nproc[u]] = pid[nproc[u]] /\ tlist'[nproc[u]] = tlist[nproc[u]]
        BY <1>4, <3>1, <3>2, <3>4, Zenon
      <4> QED
        BY <2>1, <2>2, <3>1, <3>3, <3>4, <4>1, ZenonT(120) DEF MakeProcOK
    <3> QED
      BY <2>1, <2>2, <3>4, Zenon DEF MakeProcOK
  <2>3. ASSUME NEW u \in Threads, pc'[u] \in Making  PROVE MakeThreadOK(u)'
    <3>1. MakeThreadOK(u) /\ pc[u] \in Making
      BY <1>0, <2>1, <2>3, Zenon DEF MakeInv
    <3>2. pc[u] \in Reserving => peer[u] \in Threads /\ peer[u] \notin G
      BY <1>0, <1>3, <3>1, ZenonT(120) DEF PathInv, PathOK, TypeOK, MakeThreadOK
    <3> QED
      BY <1>1, <1>2, <1>6, <2>1, <2>3, <3>1, <3>2, SMT, SMTT(60) DEF MakeThreadOK, Reserving
  <2>4. ASSUME NEW u \in Threads, NEW v \in Threads, u # v  PROVE Apart(u, v)'
    <3>1. Apart(u, v)
      BY <1>0, <2>4, Zenon DEF MakeInv
    <3>2. CASE pc'[u] \in Making /\ pc'[v] \in Making
      BY <2>1, <3>1, <3>2, Zenon DEF Apart
    <3>3. CASE ~(pc'[u] \in Making /\ pc'[v] \in Making)
      BY <3>3, Zenon DEF Apart, Making
    <3> QED
      BY <3>2, <3>3, Zenon
  <2>5. ASSUME NEW u \in Threads, pc'[u] \notin Making  PROVE MakeProcOK(u)' /\ MakeThreadOK(u)'
    BY <2>5, Zenon DEF MakeProcOK, MakeThreadOK, Making
  <2> QED
    BY <2>2, <2>3, <2>4, <2>5, Zenon DEF MakeInv
<1>20. \A u \in Threads : pc'[u] = "wait" \/ waitq'[u] # "none" =>
         /\ u \notin G /\ u # r /\ pc'[u] = pc[u] /\ want'[u] = want[u] /\ peer'[u] = peer[u]
         /\ tproc'[u] = tproc[u] /\ tproc[u] \in Procs \ P /\ Linked(u)
  <2>1. ASSUME NEW u \in Threads, pc'[u] = "wait" \/ waitq'[u] # "none"
        PROVE  /\ u \notin G /\ u # r /\ pc'[u] = pc[u] /\ want'[u] = want[u]
               /\ peer'[u] = peer[u] /\ tproc'[u] = tproc[u]
    BY <1>1, <1>2, <1>3, <1>12, <2>1, Zenon
  <2>2. ASSUME NEW u \in Threads, pc'[u] = "wait" \/ waitq'[u] # "none"  PROVE Linked(u)
    <3>1. pc[u] = "wait" \/ waitq[u] # "none"
      BY <1>1, <2>1, <2>2, Zenon
    <3>2. tstate[u] \in {"ready", "running"} \/ waitq[u] # "none"
      BY <1>0, <3>1, Zenon DEF PathInv, PathOK
    <3> QED
      BY <1>0, <3>2, Zenon DEF SlotInv, SlotOK
  <2> QED
    BY <1>6, <2>1, <2>2, Zenon DEF Linked
<1>21. WaitInv'
  <2>1. ASSUME NEW u \in Threads, pc'[u] = "wait"  PROVE WaitOK(u)'
    <3>1. /\ want'[u] = want[u] /\ tproc'[u] = tproc[u] /\ tproc[u] \in Procs \ P /\ pc[u] = "wait"
      BY <1>20, <2>1, Zenon
    <3>2. WaitOK(u)
      BY <1>0, Zenon DEF WaitInv
    <3>3. \A q \in Procs : pid'[q] = want[u] => q \notin P
      BY <1>5, <3>1, <3>2, Zenon DEF WaitOK
    <3> QED
      BY <1>4, <1>6, <3>1, <3>2, <3>3, ZenonT(120) DEF WaitOK
  <2> QED
    BY <2>1, Zenon DEF WaitInv, WaitOK
<1>22. SleepInv'
  <2>1. ASSUME NEW u \in Threads, waitq'[u] # "none"  PROVE SleepOK(u)'
    <3>1. /\ u \notin G /\ u # r /\ want'[u] = want[u] /\ peer'[u] = peer[u]
          /\ tproc'[u] = tproc[u] /\ tproc[u] \in Procs \ P /\ Linked(u) /\ waitq'[u] = waitq[u]
      BY <1>1, <1>20, <2>1, Zenon
    <3>2. SleepOK(u) /\ WaitOK(u) /\ (waitq[u] = "child" => pc[u] = "wait") /\ pid[tproc[u]] # 0
      BY <1>0, <3>1, Zenon DEF SleepInv, WaitInv, PathInv, PathOK, ListInv, ListOK, Linked
    <3>3. CASE waitq[u] = "child"
      <4>1. DeadTarget(u) = {} /\ Target(u) # {} /\ want[u] # 0
        BY <3>2, <3>3, Zenon DEF SleepOK, WaitOK
      <4>2. \A q \in Target(u) : q \notin P
        <5>1. ASSUME NEW q \in Target(u), q \in P  PROVE FALSE
          <6>1. q \in Procs /\ pid[q] = want[u] /\ parent[q] = tproc[u] /\ ppid[q] = pid[tproc[u]]
            BY <3>2, <3>3, <5>1, Zenon DEF Target, WaitOK
          <6>2. DeadChild(q, tproc[u])
            BY <1>5, <3>2, <5>1, <6>1, ZenonT(60) DEF DeadChild
          <6>3. q \in zombies[tproc[u]]
            BY <1>0, <3>1, <6>1, <6>2, ZenonT(60) DEF FamInv
          <6> QED
            BY <4>1, <6>1, <6>3, Zenon DEF DeadTarget
        <5> QED
          BY <5>1, Zenon
      <4>3. Target(u)' # {}
        BY <1>4, <3>1, <4>1, <4>2, ZenonT(60) DEF Target
      <4>4. DeadTarget(u)' = {}
        <5>1. ASSUME NEW q \in DeadTarget(u)'  PROVE FALSE
          <6>1. q \in zombies[tproc[u]] /\ q \notin P /\ pid'[q] = want[u] /\ q \in Procs
            BY <1>0, <1>4, <3>1, ZenonT(120) DEF DeadTarget, TypeOK
          <6> QED
            BY <1>4, <4>1, <6>1, Zenon DEF DeadTarget
        <5> QED
          BY <5>1, Zenon
      <4> QED
        BY <3>1, <3>3, <4>3, <4>4, Zenon DEF SleepOK
    <3>4. CASE waitq[u] = "join"
      <4>1. /\ Joins(u) /\ (tstate[peer[u]] = "zombie" => peer[u] \in tlist[tproc[u]])
            /\ peer[u] \in Threads
        BY <1>0, <3>2, <3>4, Zenon DEF SleepOK, PathInv, PathOK, TypeOK
      <4>2. peer[u] \notin G
        BY <1>3, <3>1, <4>1, Zenon DEF Joins, Linked
      <4> QED
        BY <1>2, <1>4, <3>1, <3>4, <4>1, <4>2, SMT, SMTT(60) DEF SleepOK, Joins
    <3> QED
      BY <1>0, <2>1, <3>1, <3>3, <3>4, Zenon DEF TypeOK
  <2> QED
    BY <2>1, Zenon DEF SleepInv, SleepOK
<1>23. CancelledNeverSleeps'
  <2>1. ASSUME NEW u \in Threads, tstate'[u] = "blocked", waitq'[u] # "none"
        PROVE  ~killed'[u] /\ ~cancelled'[tproc'[u]]
    <3>1. u \notin G /\ tproc'[u] = tproc[u] /\ tproc[u] \in Procs \ P /\ tstate[u] = "blocked"
      BY <1>2, <1>20, <2>1, Zenon
    <3> QED
      BY <1>0, <1>1, <1>2, <1>4, <2>1, <3>1, Zenon DEF CancelledNeverSleeps
  <2> QED
    BY <2>1, Zenon DEF CancelledNeverSleeps
<1> QED
  BY <1>7, <1>8, <1>9, <1>10, <1>11, <1>13, <1>14, <1>15, <1>16, <1>17, <1>18, <1>19,
     <1>21, <1>22, <1>23, Zenon DEF IInv

\* thread_zombie_locked keeps the invariant, the first time and the second.
LEMMA EndKeeps ==
  ASSUME IInv, NEW c \in Cpus, NEW t \in Threads, NEW S, EndStep(c, t, S)
  PROVE  IInv'
<1>0. /\ TypeOK /\ LockInv /\ DyingInv /\ CurInv /\ CpuInv /\ SlotInv /\ PathInv
      /\ ListInv /\ CountInv /\ PendInv /\ PidInv /\ FamInv /\ MakeInv /\ WaitInv /\ SleepInv
  BY Zenon DEF IInv
<1>1. /\ UNCHANGED <<tproc, tcpu, joinable, want, peer, nproc, pid, parent, ppid>>
      /\ UNCHANGED <<cur, pendT, pendP, nextPid, ctrlz>>
      /\ lock' = c /\ cur[c] = t /\ lock \in {None, c}
  BY Zenon DEF EndStep, cpuVars
<1>2. PICK p \in Procs : p = tproc[t] /\ InUse(p)
  <2>1. t # Idle
    BY ConstantsAssumption, Zenon
  <2> QED
    BY <1>0, <1>1, <2>1, ZenonT(60) DEF CurInv, CurOK, InUse
<1>3. /\ tcpu[t] = c /\ c # None /\ t # Idle /\ waitq[t] = "none" /\ pc[t] \notin Making
      /\ nproc[t] = None /\ (t \notin tlist[p] => tstate[t] = "zombie")
      /\ tstate[t] \in {"running", "zombie"}
  <2>1. t # Idle /\ c # None /\ tstate[t] \in {"running", "zombie"}
    BY ConstantsAssumption, Zenon DEF EndStep
  <2>2. tcpu[t] = c
    BY <1>0, <1>1, <2>1, Zenon DEF CurInv, CurOK, CurState
  <2>3. waitq[t] = "none" /\ (t \notin tlist[p] => tstate[t] = "zombie")
    BY <1>0, <1>2, <2>1, Zenon DEF SlotInv, SlotOK, Linked
  <2>4. pc[t] \notin Making
    BY <1>0, <2>1, Zenon DEF EndStep, PathInv, PathOK, Making, Reserving
  <2> QED
    BY <1>0, <2>1, <2>2, <2>3, <2>4, ZenonT(60) DEF PathInv, PathOK
<1>4. /\ \A u \in S : u \in Threads /\ u # t /\ waitq[u] # "none" /\ tstate[u] = "blocked" /\ Linked(u)
      /\ \A u \in S : tstate'[u] = "ready" /\ waitq'[u] = "none" /\ pc'[u] = pc[u]
      /\ \A u \in Threads : u \notin S /\ u # t =>
           tstate'[u] = tstate[u] /\ waitq'[u] = waitq[u] /\ pc'[u] = pc[u]
      /\ tstate'[t] = "zombie" /\ waitq'[t] = "none" /\ pc'[t] = "dead"
  <2>1. \A u \in S : u \in Threads /\ u # t /\ waitq[u] # "none" /\ tstate[u] = "blocked" /\ Linked(u)
    BY <1>0, <1>3, Zenon DEF EndStep, SlotInv, SlotOK
  <2>2. t \notin S
    BY <2>1, Zenon
  <2>3. /\ \A u \in S : tstate'[u] = "ready"
        /\ \A u \in Threads : u \notin S /\ u # t => tstate'[u] = tstate[u]
        /\ tstate'[t] = "zombie"
    BY <2>1, <2>2, Zenon DEF EndStep, Woken
  <2>4. /\ \A u \in S : waitq'[u] = "none"
        /\ \A u \in Threads : u \notin S => waitq'[u] = waitq[u]
    BY <2>1, Zenon DEF EndStep, Unqueue
  <2>5. \A u \in Threads : pc'[u] = IF u = t THEN "dead" ELSE pc[u]
    BY <1>0, Zenon DEF EndStep, TypeOK
  <2> QED
    BY <1>3, <2>1, <2>2, <2>3, <2>4, <2>5, ZenonT(60)
<1>5. /\ \A q \in Procs : tlist'[q] = IF q = p THEN tlist[p] \ {t} ELSE tlist[q]
      /\ tlist' \in [Procs -> SUBSET Threads]
  BY <1>0, <1>2, ZenonT(60) DEF EndStep, ThreadZombie, TypeOK
<1>6. /\ IsLast(t) <=> tlist'[p] = {}
      /\ \A q \in Procs : live'[q] = Cardinality(tlist'[q])
      /\ live' \in [Procs -> Nat]
  <2>1. tlist[p] \in SUBSET Threads /\ live[p] = Cardinality(tlist[p]) /\ tlist'[p] = tlist[p] \ {t}
    BY <1>0, <1>2, <1>5, Zenon DEF TypeOK, CountInv
  <2>2. /\ Cardinality(tlist[p]) \in Nat
        /\ Cardinality(tlist[p]) = 0 <=> tlist[p] = {}
        /\ t \in tlist[p] => /\ Cardinality(tlist[p] \ {t}) = Cardinality(tlist[p]) - 1
                             /\ Cardinality(tlist[p]) = 1 <=> tlist[p] \ {t} = {}
        /\ Cardinality(tlist[p] \ {t}) \in Nat
    <3>1. tlist[p] \ {t} \in SUBSET Threads
      BY <2>1, Zenon
    <3> QED
      BY <2>1, <3>1, CardFacts, Zenon
  <2>3. IsLast(t) <=> tlist'[p] = {}
    <3>1. CASE t \in tlist[p]
      BY <1>2, <2>1, <2>2, <3>1, Zenon DEF IsLast
    <3>2. CASE t \notin tlist[p]
      <4>1. tlist[p] \ {t} = tlist[p]
        BY <3>2, Zenon
      <4> QED
        BY <1>2, <2>1, <2>2, <3>2, <4>1, Zenon DEF IsLast
    <3> QED
      BY <3>1, <3>2, Zenon
  <2>4. live'[p] = Cardinality(tlist'[p]) /\ (\A q \in Procs : q # p => live'[q] = live[q])
    <3>1. CASE t \in tlist[p]
      BY <1>0, <1>2, <2>1, <2>2, <3>1, ZenonT(60) DEF EndStep, ThreadZombie, TypeOK
    <3>2. CASE t \notin tlist[p]
      <4>1. tlist[p] \ {t} = tlist[p]
        BY <3>2, Zenon
      <4> QED
        BY <1>2, <2>1, <3>2, <4>1, ZenonT(60) DEF EndStep, ThreadZombie
    <3> QED
      BY <3>1, <3>2, Zenon
  <2>5. \A q \in Procs : live'[q] = Cardinality(tlist'[q])
    BY <1>0, <1>5, <2>4, Zenon DEF CountInv
  <2>6. live' \in [Procs -> Nat]
    <3>1. \A q \in Procs : live'[q] \in Nat
      BY <1>5, <2>5, CardFacts, SMT, SMTT(60)
    <3>2. live' = [q \in Procs |-> live'[q]]
      BY <1>0, ZenonT(60) DEF EndStep, ThreadZombie, TypeOK
    <3> QED
      BY <3>1, <3>2, ZenonT(60)
  <2> QED
    BY <2>3, <2>5, <2>6, Zenon
<1>7. /\ \A z, q \in Procs : z \in zombies'[q] <=>
           z \in zombies[q] \/ (z = p /\ q = parent[p] /\ tlist'[p] = {} /\ ParentIsAlive(p))
      /\ zombies' \in [Procs -> SUBSET Procs]
  <2>1. ParentIsAlive(p) => parent[p] \in Procs
    BY <1>0, ZenonT(60) DEF ParentIsAlive, TypeOK
  <2>2. HandsOff(t) <=> tlist'[p] = {} /\ ParentIsAlive(p) /\ p \notin zombies[parent[p]]
    BY <1>2, <1>6, ZenonT(60) DEF HandsOff
  <2>3. zombies' = IF HandsOff(t) THEN [zombies EXCEPT ![parent[p]] = @ \cup {p}] ELSE zombies
    BY <1>2, Zenon DEF EndStep, ThreadZombie
  <2>4. CASE HandsOff(t)
    BY <1>0, <2>1, <2>2, <2>3, <2>4, ZenonT(60) DEF TypeOK
  <2>5. CASE ~HandsOff(t)
    BY <1>0, <2>1, <2>2, <2>3, <2>5, ZenonT(60) DEF TypeOK
  <2> QED
    BY <2>4, <2>5, Zenon
<1>8. TypeOK'
  <2>1. tstate' \in [Threads -> TStates] /\ waitq' \in [Threads -> {"none", "child", "join"}]
    BY <1>0, Zenon DEF EndStep, Woken, Unqueue, TypeOK, TStates
  <2>2. pc' \in [Threads -> Paths] /\ pcpu' \in [Procs -> Cpus \cup {None}]
    <3>1. pc' \in [Threads -> Paths]
      BY <1>0, Zenon DEF EndStep, TypeOK, Paths
    <3>2. pcpu' = pcpu \/ pcpu' = [pcpu EXCEPT ![p] = tcpu[t]]
      BY <1>2, Zenon DEF EndStep, ThreadZombie
    <3> QED
      BY <1>0, <3>1, <3>2, ZenonT(60) DEF TypeOK
  <2>3. at' \in {"free", "reap", "zombie", "switch"} /\ dying' \in Procs \cup {None}
    BY <1>2, Zenon DEF EndStep, ZombieLeaves
  <2>4. /\ killed' \in [Threads -> BOOLEAN] /\ susp' \in [Threads -> BOOLEAN]
        /\ cancelled' \in [Procs -> BOOLEAN] /\ ended' \in [Procs -> BOOLEAN]
    BY Zenon DEF EndStep
  <2> QED
    BY <1>0, <1>1, <1>5, <1>6, <1>7, <2>1, <2>2, <2>3, <2>4, ZenonT(60) DEF TypeOK
<1>9. /\ \A u \in Threads : u # t => (Linked(u)' <=> Linked(u))
      /\ ~Linked(t)'
      /\ \A q \in Procs : Unborn(q)' <=> Unborn(q)
      /\ \A q \in Procs : ParentIsAlive(q)' <=> ParentIsAlive(q)
  <2>1. \A u \in Threads : u # t => (Linked(u)' <=> Linked(u))
    BY <1>1, <1>5, Zenon DEF Linked
  <2>2. ~Linked(t)'
    BY <1>1, <1>2, <1>5, Zenon DEF Linked
  <2> QED
    BY <1>1, <2>1, <2>2, Zenon DEF Unborn, ParentIsAlive
<1>10. LockInv'
  BY <1>1, <1>3, <1>9, ZenonT(60) DEF EndStep, LockInv
<1>11. DyingInv'
  <2>1. CASE dying' = None
    BY <2>1, Zenon DEF DyingInv
  <2>2. CASE dying' # None
    <3>1. at' = "switch" /\ dying' = p /\ IsLast(t) /\ ~ParentIsAlive(p)
      BY <1>2, <2>2, Zenon DEF EndStep, ZombieLeaves
    <3> QED
      BY <1>1, <1>2, <1>3, <1>4, <1>6, <1>9, <3>1, ZenonT(60) DEF DyingInv
  <2> QED
    BY <2>1, <2>2, Zenon
<1>12. CurInv'
  <2>1. ASSUME NEW d \in Cpus, cur[d] # Idle  PROVE CurOK(d)'
    <3>1. CurOK(d) /\ cur[d] \in Threads /\ d # None
      BY <1>0, <2>1, ConstantsAssumption, ZenonT(60) DEF CurInv, TypeOK
    <3>2. InUse(tproc[cur[d]])'
      <4>1. InUse(tproc[cur[d]])
        BY <2>1, <3>1, Zenon DEF CurOK
      <4> QED
        BY <1>1, <4>1, Zenon DEF InUse, Unborn
    <3>3. CASE d = c
      BY <1>1, <1>3, <1>4, <3>2, <3>3, ZenonT(60) DEF CurOK, CurState
    <3>4. CASE d # c
      <4>1. lock # d /\ tstate[cur[d]] \in {"running", "zombie"} /\ tcpu[cur[d]] = d /\ Linked(cur[d])
        BY <1>1, <2>1, <3>1, <3>4, ZenonT(60) DEF CurOK, CurState
      <4>2. cur[d] # t /\ cur[d] \notin S
        BY <1>3, <1>4, <3>4, <4>1, Zenon
      <4> QED
        BY <1>1, <1>4, <1>9, <3>1, <3>2, <4>1, <4>2, ZenonT(60) DEF CurOK, CurState
    <3> QED
      BY <3>3, <3>4, ZenonT(60)
  <2> QED
    BY <1>1, <2>1, ZenonT(60) DEF CurInv, CurOK
<1>13. CpuInv'
  <2>1. ASSUME NEW u \in Threads  PROVE CpuOK(u)'
    <3>1. CpuOK(u)
      BY <1>0, Zenon DEF CpuInv
    <3> QED
      BY <1>1, <1>4, <3>1, Zenon DEF CpuOK
  <2> QED
    BY <2>1, Zenon DEF CpuInv
<1>14. SlotInv'
  <2>1. ASSUME NEW u \in Threads  PROVE SlotOK(u)'
    <3>1. SlotOK(u)
      BY <1>0, Zenon DEF SlotInv
    <3>2. CASE u = t
      BY <1>4, <1>9, <3>2, Zenon DEF SlotOK
    <3>3. CASE u \in S
      BY <1>4, <1>9, <3>3, Zenon DEF SlotOK
    <3>4. CASE u \notin S /\ u # t
      BY <1>1, <1>4, <1>9, <3>1, <3>4, ZenonT(60) DEF SlotOK
    <3> QED
      BY <3>2, <3>3, <3>4, Zenon
  <2> QED
    BY <2>1, Zenon DEF SlotInv
<1>15. PathInv'
  <2>1. ASSUME NEW u \in Threads  PROVE PathOK(u)'
    <3>1. PathOK(u)
      BY <1>0, Zenon DEF PathInv
    <3>2. CASE u = t
      BY <1>1, <1>3, <1>4, <3>2, Zenon DEF PathOK, Making, Reserving
    <3>3. CASE u \in S
      BY <1>1, <1>4, <3>1, <3>3, ZenonT(60) DEF PathOK
    <3>4. CASE u \notin S /\ u # t
      BY <1>1, <1>4, <3>1, <3>4, ZenonT(60) DEF PathOK
    <3> QED
      BY <3>2, <3>3, <3>4, Zenon
  <2> QED
    BY <2>1, Zenon DEF PathInv
<1>16. ListInv' /\ CountInv'
  <2>1. ASSUME NEW q \in Procs  PROVE ListOK(q)'
    <3>1. ListOK(q) /\ tlist'[q] \subseteq tlist[q] /\ tlist[q] \subseteq Threads
      BY <1>0, <1>5, ZenonT(60) DEF ListInv, TypeOK
    <3>2. \A u \in Threads : tstate[u] # "unused" => tstate'[u] # "unused"
      BY <1>4, Zenon
    <3> QED
      BY <1>1, <3>1, <3>2, Zenon DEF ListOK
  <2> QED
    BY <1>6, <2>1, ZenonT(60) DEF ListInv, CountInv
<1>17. PendInv'
  <2>1. ASSUME NEW d \in Cpus  PROVE PendTOK(d)' /\ PendPOK(d)'
    <3>1. /\ PendTOK(d) /\ PendPOK(d)
          /\ pendT[d] \in Threads \cup {None} /\ pendP[d] \in Procs \cup {None}
      BY <1>0, Zenon DEF PendInv, TypeOK
    <3>2. PendTOK(d)'
      <4>1. pendT[d] # None => pendT[d] # t /\ pendT[d] \notin S
        BY <1>3, <1>4, <3>1, Zenon DEF PendTOK
      <4> QED
        BY <1>1, <1>4, <3>1, <4>1, Zenon DEF PendTOK
    <3>3. PendPOK(d)'
      BY <1>1, <1>5, <1>9, <3>1, ZenonT(60) DEF PendPOK
    <3> QED
      BY <3>2, <3>3, Zenon
  <2> QED
    BY <1>0, <1>1, <2>1, ZenonT(60) DEF PendInv
<1>18. PidInv'
  BY <1>0, <1>1, Zenon DEF PidInv
<1>19. FamInv'
  <2>1. ASSUME NEW q \in Procs, NEW z \in Procs
        PROVE  z \in zombies'[q] <=> DeadChild(z, q)'
    <3>1. z \in zombies[q] <=> DeadChild(z, q)
      BY <1>0, Zenon DEF FamInv
    <3>2. CASE z # p
      <4>1. tlist'[z] = tlist[z]
        BY <1>5, <3>2, Zenon
      <4> QED
        BY <1>1, <1>7, <1>9, <3>1, <3>2, <4>1, ZenonT(60) DEF DeadChild
    <3>3. CASE z = p
      <4>1. pid[p] # 0 /\ ~Unborn(p)
        BY <1>2, Zenon DEF InUse
      <4>2. DeadChild(p, q)' <=> parent[p] = q /\ ppid[p] = pid[q] /\ pid[q] # 0 /\ tlist'[p] = {}
        BY <1>1, <1>9, <4>1, Zenon DEF DeadChild
      <4>3. DeadChild(p, q) => tlist'[p] = {}
        BY <1>5, Zenon DEF DeadChild
      <4>4. parent[p] = q => q # None
        BY ConstantsAssumption, Zenon
      <4>5. p \in zombies'[q] <=>
              DeadChild(p, q) \/ (q = parent[p] /\ tlist'[p] = {} /\ ParentIsAlive(p))
        BY <1>7, <3>1, <3>3, Zenon
      <4> QED
        BY <3>3, <4>2, <4>3, <4>4, <4>5, Zenon DEF DeadChild, ParentIsAlive
    <3> QED
      BY <3>2, <3>3, Zenon
  <2> QED
    BY <2>1, Zenon DEF FamInv
<1>20. MakeInv'
  <2>1. \A u \in Threads : pc'[u] \in Making => u # t /\ pc'[u] = pc[u]
    BY <1>4, Zenon DEF Making, Reserving
  <2>2. ASSUME NEW u \in Threads, pc'[u] \in Making  PROVE MakeProcOK(u)'
    <3>1. MakeProcOK(u) /\ pc[u] \in Making /\ nproc[u] \in Procs
      BY <1>0, <2>1, <2>2, Zenon DEF MakeInv, PathInv, PathOK, TypeOK
    <3>2. nproc[u] # tproc[u] => tlist'[nproc[u]] = tlist[nproc[u]]
      <4>1. nproc[u] # tproc[u] => nproc[u] # p
        BY <1>2, Zenon DEF InUse, Unborn
      <4> QED
        BY <1>5, <3>1, <4>1, Zenon
    <3> QED
      BY <1>1, <2>1, <2>2, <3>1, <3>2, ZenonT(60) DEF MakeProcOK
  <2>3. ASSUME NEW u \in Threads, pc'[u] \in Making  PROVE MakeThreadOK(u)'
    <3>1. MakeThreadOK(u) /\ pc[u] \in Making
      BY <1>0, <2>1, <2>3, Zenon DEF MakeInv
    <3>2. pc[u] \in Reserving => peer[u] \in Threads /\ peer[u] # t /\ peer[u] \notin S
      BY <1>0, <1>3, <1>4, <3>1, SMT, SMTT(60) DEF PathInv, PathOK, TypeOK, MakeThreadOK
    <3> QED
      BY <1>1, <1>4, <1>9, <2>1, <2>3, <3>1, <3>2, ZenonT(120) DEF MakeThreadOK, Reserving
  <2>4. ASSUME NEW u \in Threads, NEW v \in Threads, u # v  PROVE Apart(u, v)'
    <3>1. Apart(u, v)
      BY <1>0, <2>4, Zenon DEF MakeInv
    <3>2. CASE pc'[u] \in Making /\ pc'[v] \in Making
      BY <1>1, <2>1, <3>1, <3>2, ZenonT(60) DEF Apart
    <3>3. CASE ~(pc'[u] \in Making /\ pc'[v] \in Making)
      BY <3>3, Zenon DEF Apart, Making
    <3> QED
      BY <3>2, <3>3, Zenon
  <2>5. ASSUME NEW u \in Threads, pc'[u] \notin Making  PROVE MakeProcOK(u)' /\ MakeThreadOK(u)'
    BY <2>5, Zenon DEF MakeProcOK, MakeThreadOK, Making
  <2> QED
    BY <2>2, <2>3, <2>4, <2>5, Zenon DEF MakeInv
<1>21. WaitInv'
  <2>1. ASSUME NEW u \in Threads, pc'[u] = "wait"  PROVE WaitOK(u)'
    <3>1. WaitOK(u) /\ pc[u] = "wait"
      BY <1>0, <1>4, <2>1, ZenonT(60) DEF WaitInv
    <3> QED
      BY <1>1, <1>9, <3>1, Zenon DEF WaitOK
  <2> QED
    BY <2>1, Zenon DEF WaitInv, WaitOK
<1>22. SleepInv'
  <2>1. ASSUME NEW u \in Threads, waitq'[u] # "none"  PROVE SleepOK(u)'
    <3>1. /\ u \notin S /\ u # t /\ waitq'[u] = waitq[u] /\ tstate[u] = "blocked"
          /\ Linked(u) /\ SleepOK(u)
      BY <1>0, <1>4, <2>1, ZenonT(60) DEF SlotInv, SlotOK, SleepInv
    <3>2. u \notin ZombieWakes(t)
      BY <3>1, Zenon DEF EndStep
    <3>3. CASE waitq[u] = "child"
      <4>1. DeadTarget(u) = {} /\ Target(u) # {}
        BY <3>1, <3>3, Zenon DEF SleepOK
      <4>2. Target(u)' = Target(u)
        BY <1>1, Zenon DEF Target
      <4>3. ASSUME NEW q \in DeadTarget(u)'  PROVE q \in DeadTarget(u)
        <5>1. tproc[u] \in Procs /\ q \in Procs /\ q \in zombies'[tproc[u]] /\ pid[q] = want[u]
          BY <1>1, <1>7, <3>1, <4>3, Zenon DEF DeadTarget, Linked
        <5>2. CASE q \in zombies[tproc[u]]
          BY <5>1, <5>2, Zenon DEF DeadTarget
        <5>3. CASE q \notin zombies[tproc[u]]
          <6>1. q = p /\ tproc[u] = parent[p] /\ tlist'[p] = {} /\ ParentIsAlive(p)
            BY <1>7, <5>1, <5>3, Zenon
          <6>2. HandsOff(t)
            BY <1>2, <1>6, <5>3, <6>1, Zenon DEF HandsOff
          <6>3. u \in Asleep(parent[tproc[t]], "child")
            BY <1>2, <3>1, <3>3, <6>1, Zenon DEF Asleep
          <6> QED
            BY <3>2, <6>2, <6>3, ZenonT(60) DEF ZombieWakes
        <5> QED
          BY <5>2, <5>3, Zenon
      <4> QED
        BY <3>1, <3>3, <4>1, <4>2, <4>3, Zenon DEF SleepOK
    <3>4. CASE waitq[u] = "join"
      <4>1. /\ Joins(u) /\ (tstate[peer[u]] = "zombie" => peer[u] \in tlist[tproc[u]])
            /\ peer[u] \in Threads /\ tproc[u] \in Procs
        BY <1>0, <3>1, <3>4, ZenonT(60) DEF SleepOK, PathInv, PathOK, TypeOK, Linked
      <4>2. peer[u] # t
        <5>1. SUFFICES ASSUME peer[u] = t  PROVE FALSE
          BY Zenon
        <5>2. tproc[u] = p /\ t \in tlist[p]
          BY <1>2, <1>3, <4>1, <5>1, ZenonT(60) DEF Joins
        <5>3. u \in Asleep(tproc[t], "join")
          BY <1>2, <3>1, <3>4, <5>2, Zenon DEF Asleep
        <5> QED
          BY <1>2, <3>2, <5>2, <5>3, Zenon DEF ZombieWakes
      <4>3. tstate'[peer[u]] # "unused" /\ (tstate'[peer[u]] = "zombie" => tstate[peer[u]] = "zombie")
        BY <1>4, <4>1, <4>2, Zenon DEF Joins
      <4> QED
        BY <1>1, <1>5, <3>1, <3>4, <4>1, <4>2, <4>3, ZenonT(60) DEF SleepOK, Joins
    <3> QED
      BY <1>0, <2>1, <3>1, <3>3, <3>4, Zenon DEF TypeOK
  <2> QED
    BY <2>1, Zenon DEF SleepInv, SleepOK
<1>23. KillInv' /\ CancelledNeverSleeps'
  BY Zenon DEF EndStep
<1> QED
  BY <1>8, <1>10, <1>11, <1>12, <1>13, <1>14, <1>15, <1>16, <1>17, <1>18, <1>19, <1>20,
     <1>21, <1>22, <1>23, Zenon DEF IInv

\* Moving on within schedule_locked() keeps the invariant.
LEMMA LockKeeps ==
  ASSUME IInv, NEW c, LockStep(c)
  PROVE  IInv'
<1>0. /\ TypeOK /\ LockInv /\ DyingInv /\ CurInv /\ CpuInv /\ SlotInv /\ PathInv /\ KillInv
      /\ ListInv /\ CountInv /\ PendInv /\ PidInv /\ FamInv /\ MakeInv /\ WaitInv /\ SleepInv
      /\ CancelledNeverSleeps
  BY Zenon DEF IInv
<1>1. /\ UNCHANGED <<tstate, tproc, tcpu, waitq, joinable, killed, susp, pc, want, peer, nproc>>
      /\ UNCHANGED <<pid, parent, ppid, zombies, tlist, live, pcpu, cancelled, ended>>
      /\ UNCHANGED <<cur, pendT, pendP, nextPid, ctrlz>>
      /\ lock' = lock \/ (lock \in {None, c} /\ lock' = c)
  BY Zenon DEF LockStep, threadVars, pathVars, procVars, famVars, cpuVars, lockVars
<1>2. TypeOK'
  <2>1. /\ lock' \in Cpus \cup {None} /\ at' \in {"free", "reap", "zombie", "switch"}
        /\ dying' \in Procs \cup {None}
    BY <1>0, Zenon DEF LockStep, lockVars, TypeOK
  <2> QED
    BY <1>0, <1>1, <2>1, Zenon DEF TypeOK
<1>3. LockInv' /\ DyingInv'
  <2>1. CASE UNCHANGED lockVars
    BY <1>0, <1>1, <2>1, Zenon DEF lockVars, LockInv, DyingInv, Linked, ParentIsAlive
  <2>2. CASE ~UNCHANGED lockVars
    BY <1>1, <2>2, ConstantsAssumption, ZenonT(60) DEF LockStep, LockInv, DyingInv
  <2> QED
    BY <2>1, <2>2, Zenon
<1>4. CurInv'
  <2>1. ASSUME NEW d \in Cpus  PROVE CurOK(d)'
    <3>1. CurOK(d) /\ d # None
      BY <1>0, ConstantsAssumption, Zenon DEF CurInv
    <3>2. /\ Linked(cur[d])' <=> Linked(cur[d])
          /\ Unborn(tproc[cur[d]])' <=> Unborn(tproc[cur[d]])
      BY <1>1, Zenon DEF Linked, Unborn
    <3>3. InUse(tproc[cur[d]])' <=> InUse(tproc[cur[d]])
      BY <1>1, <3>2, Zenon DEF InUse
    <3>4. CurState(d, cur[d]) => CurState(d, cur[d])'
      BY <1>1, <3>1, Zenon DEF CurState
    <3> QED
      BY <1>1, <3>1, <3>2, <3>3, <3>4, ZenonT(60) DEF CurOK
  <2> QED
    BY <2>1, Zenon DEF CurInv
<1>5. CpuInv' /\ SlotInv'
  BY <1>0, <1>1, Zenon DEF CpuInv, CpuOK, SlotInv, SlotOK, Linked
<1>6. PathInv' /\ KillInv'
  BY <1>0, <1>1, Zenon DEF PathInv, PathOK, KillInv, Linked
<1>7. ListInv' /\ CountInv'
  BY <1>0, <1>1, Zenon DEF ListInv, ListOK, CountInv
<1>8. PendInv'
  BY <1>0, <1>1, ZenonT(60) DEF PendInv, PendTOK, PendPOK, ParentIsAlive, Unborn
<1>9. PidInv'
  BY <1>0, <1>1, Zenon DEF PidInv
<1>10. FamInv'
  <2>1. ASSUME NEW p \in Procs, NEW z \in Procs  PROVE DeadChild(z, p)' <=> DeadChild(z, p)
    <3>1. Unborn(z)' <=> Unborn(z)
      BY <1>1, Zenon DEF Unborn
    <3> QED
      BY <1>1, <3>1, Zenon DEF DeadChild
  <2> QED
    BY <1>0, <1>1, <2>1, Zenon DEF FamInv
<1>11. MakeInv'
  <2>1. ASSUME NEW u \in Threads  PROVE MakeProcOK(u)' /\ MakeThreadOK(u)'
    <3>1. MakeProcOK(u) /\ MakeThreadOK(u)
      BY <1>0, Zenon DEF MakeInv
    <3>2. MakeProcOK(u)'
      BY <1>1, <3>1, Zenon DEF MakeProcOK
    <3>3. Linked(peer[u])' <=> Linked(peer[u])
      BY <1>1, Zenon DEF Linked
    <3> QED
      BY <1>1, <3>1, <3>2, <3>3, Zenon DEF MakeThreadOK
  <2>2. \A u, v \in Threads : u # v => Apart(u, v)'
    BY <1>0, <1>1, Zenon DEF MakeInv, Apart
  <2> QED
    BY <2>1, <2>2, Zenon DEF MakeInv
<1>12. WaitInv'
  BY <1>0, <1>1, ZenonT(60) DEF WaitInv, WaitOK, Unborn
<1>13. SleepInv'
  <2>1. ASSUME NEW u \in Threads  PROVE SleepOK(u)'
    <3>1. SleepOK(u)
      BY <1>0, Zenon DEF SleepInv
    <3>2. DeadTarget(u)' = DeadTarget(u) /\ Target(u)' = Target(u)
      BY <1>1, Zenon DEF DeadTarget, Target
    <3>3. Joins(u)' <=> Joins(u)
      BY <1>1, Zenon DEF Joins
    <3> QED
      BY <1>1, <3>1, <3>2, <3>3, Zenon DEF SleepOK
  <2> QED
    BY <2>1, Zenon DEF SleepInv
<1>14. CancelledNeverSleeps'
  BY <1>0, <1>1, ZenonT(60) DEF CancelledNeverSleeps
<1> QED
  BY <1>2, <1>3, <1>4, <1>5, <1>6, <1>7, <1>8, <1>9, <1>10, <1>11, <1>12, <1>13, <1>14,
     ZenonT(60) DEF IInv

\* The switch to another thread keeps the invariant.
LEMMA SwitchKeeps ==
  ASSUME IInv, NEW c \in Cpus, NEW n, Switch(c, n)
  PROVE  IInv'
<1>0. /\ TypeOK /\ LockInv /\ DyingInv /\ CurInv /\ CpuInv /\ SlotInv /\ PathInv /\ KillInv
      /\ ListInv /\ CountInv /\ PendInv /\ PidInv /\ FamInv /\ MakeInv /\ WaitInv /\ SleepInv
      /\ CancelledNeverSleeps
  BY Zenon DEF IInv
<1>1. /\ UNCHANGED <<tproc, waitq, joinable, killed, susp, pc, want, peer, nproc>>
      /\ UNCHANGED <<pid, parent, ppid, zombies, tlist, live, cancelled, ended, nextPid, ctrlz>>
      /\ lock = c /\ at = "switch" /\ lock' = None /\ at' = "free" /\ dying' = None
      /\ c # None /\ Idle \notin Threads
  BY ConstantsAssumption, Zenon DEF Switch, pathVars, famVars
<1>2. PICK prev \in Threads \cup {Idle} : prev = cur[c]
  BY <1>0, Zenon DEF TypeOK
<1>3. /\ n \in Threads \cup {Idle}
      /\ n # prev /\ n # Idle =>
           /\ tstate[n] = "ready" /\ tcpu[n] = None /\ Linked(n) /\ waitq[n] = "none"
      /\ n = prev /\ n # Idle => tstate[n] = "running" /\ tcpu[n] = c /\ Linked(n)
  <2>1. /\ n \in Threads \cup {Idle}
        /\ n # Idle => \/ tstate[n] = "ready" /\ tcpu[n] = None
                       \/ n = prev /\ tstate[n] = "running"
    BY <1>2, Zenon DEF Switch, Eligible
  <2>2. n = prev /\ n # Idle => tstate[n] = "running" /\ tcpu[n] = c
    BY <1>0, <1>1, <1>2, <2>1, ZenonT(60) DEF CurInv, CurOK, CurState
  <2>3. n # Idle => Linked(n) /\ waitq[n] = "none"
    BY <1>0, <2>1, Zenon DEF SlotInv, SlotOK, TypeOK
  <2> QED
    BY <2>1, <2>2, <2>3, Zenon
<1>4. /\ \A u \in Threads : u # n /\ u # prev => tstate'[u] = tstate[u] /\ tcpu'[u] = tcpu[u]
      /\ n # Idle => tstate'[n] = "running" /\ tcpu'[n] = c
      /\ prev # Idle /\ prev # n =>
           /\ tstate'[prev] = IF tstate[prev] = "running" THEN "ready" ELSE tstate[prev]
           /\ tcpu'[prev] = None
      /\ \A d \in Cpus : cur'[d] = IF d = c THEN n ELSE cur[d]
  <2>1. CASE n = prev
    BY <1>0, <1>2, <1>3, <2>1, Zenon DEF Switch, cpuVars, TypeOK
  <2>2. CASE n # prev
    <3>1. /\ tstate' = [u \in Threads |-> IF u = n THEN "running"
                                          ELSE IF u = prev /\ tstate[u] = "running" THEN "ready"
                                          ELSE tstate[u]]
          /\ tcpu' = [u \in Threads |-> IF u = n THEN c ELSE IF u = prev THEN None ELSE tcpu[u]]
          /\ cur' = [cur EXCEPT ![c] = n]
      BY <1>2, <2>2, Zenon DEF Switch
    <3> QED
      BY <1>0, <1>2, <1>3, <2>2, <3>1, Zenon DEF TypeOK
  <2> QED
    BY <2>1, <2>2, Zenon
<1>5. /\ prev # Idle =>
           /\ CurState(c, prev) /\ InUse(tproc[prev])
           /\ tstate[prev] = "zombie" => ~Linked(prev) /\ tcpu[prev] = c
           /\ tstate[prev] = "running" => tcpu[prev] = c /\ Linked(prev)
           /\ tstate[prev] \in {"running", "zombie"} \/ (tstate[prev] = "blocked" /\ waitq[prev] # "none")
      /\ dying # None => prev # Idle /\ tstate[prev] = "zombie" /\ tproc[prev] = dying
                         /\ tlist[dying] = {} /\ ~ParentIsAlive(dying)
  <2>1. prev # Idle => CurState(c, prev) /\ InUse(tproc[prev])
    BY <1>0, <1>2, Zenon DEF CurInv, CurOK
  <2>2. prev # Idle /\ tstate[prev] = "zombie" => ~Linked(prev) /\ tcpu[prev] = c
    BY <1>0, <1>1, <1>2, <2>1, Zenon DEF LockInv, CurState
  <2>3. prev # Idle /\ tstate[prev] = "running" => tcpu[prev] = c /\ Linked(prev)
    BY <1>0, <2>1, Zenon DEF CurState, SlotInv, SlotOK
  <2>4. prev # Idle => \/ tstate[prev] \in {"running", "zombie"}
                       \/ tstate[prev] = "blocked" /\ waitq[prev] # "none"
    BY <2>1, Zenon DEF CurState
  <2>5. dying # None => prev # Idle /\ tstate[prev] = "zombie" /\ tproc[prev] = dying
                         /\ tlist[dying] = {} /\ ~ParentIsAlive(dying)
    BY <1>0, <1>1, <1>2, Zenon DEF DyingInv
  <2> QED
    BY <2>1, <2>2, <2>3, <2>4, <2>5, ZenonT(60)
<1>6. /\ \A d \in Cpus \ {c} : pendT'[d] = pendT[d] /\ pendP'[d] = pendP[d]
      /\ \/ pendT'[c] = pendT[c] /\ pendP'[c] = pendP[c]
         \/ /\ prev # Idle /\ prev # n /\ tstate[prev] = "zombie"
            /\ pendT'[c] = prev /\ pendP'[c] = dying /\ (joinable[prev] => dying # None)
      /\ pendT' \in [Cpus -> Threads \cup {None}] /\ pendP' \in [Cpus -> Procs \cup {None}]
  <2>1. CASE n = prev
    BY <1>0, <1>2, <2>1, Zenon DEF Switch, cpuVars, TypeOK
  <2>2. CASE n # prev /\ (prev = Idle \/ tstate[prev] # "zombie" \/ KeepForJoin(prev))
    BY <1>0, <1>2, <2>2, ZenonT(60) DEF Switch, TypeOK
  <2>3. CASE n # prev /\ ~(prev = Idle \/ tstate[prev] # "zombie" \/ KeepForJoin(prev))
    <3>1. pendT' = [pendT EXCEPT ![c] = prev] /\ pendP' = [pendP EXCEPT ![c] = dying]
      BY <1>2, <2>3, Zenon DEF Switch
    <3>2. prev \in Threads /\ (joinable[prev] => dying # None)
      BY <2>3, Zenon DEF KeepForJoin
    <3> QED
      BY <1>0, <2>3, <3>1, <3>2, ZenonT(60) DEF TypeOK
  <2> QED
    BY <2>1, <2>2, <2>3, ZenonT(60)
<1>7. TypeOK'
  <2>1. pcpu' \in [Procs -> Cpus \cup {None}]
    <3>1. pcpu' = pcpu \/ pcpu' = [pcpu EXCEPT ![tproc[prev]] = None]
      BY <1>2, Zenon DEF Switch
    <3> QED
      BY <1>0, <3>1, Zenon DEF TypeOK
  <2>2. tstate' \in [Threads -> TStates] /\ tcpu' \in [Threads -> Cpus \cup {None}]
    <3>1. CASE n = prev
      BY <1>0, <1>2, <3>1, ZenonT(60) DEF Switch, TypeOK
    <3>2. CASE n # prev
      <4>1. tstate' = [u \in Threads |-> tstate'[u]] /\ tcpu' = [u \in Threads |-> tcpu'[u]]
        BY <1>2, <3>2, ZenonT(60) DEF Switch
      <4>2. ASSUME NEW u \in Threads  PROVE tstate'[u] \in TStates /\ tcpu'[u] \in Cpus \cup {None}
        <5>1. tstate[u] \in TStates /\ tcpu[u] \in Cpus \cup {None}
          BY <1>0, Zenon DEF TypeOK
        <5> QED
          BY <1>1, <1>4, <5>1, Zenon DEF TStates
      <4> QED
        BY <4>1, <4>2, Zenon
    <3> QED
      BY <3>1, <3>2, ZenonT(60)
  <2>3. cur' \in [Cpus -> Threads \cup {Idle}]
    BY <1>0, <1>3, ZenonT(60) DEF Switch, cpuVars, TypeOK
  <2> QED
    BY <1>0, <1>1, <1>6, <2>1, <2>2, <2>3, ZenonT(60) DEF TypeOK
<1>8. LockInv' /\ DyingInv'
  BY <1>1, Zenon DEF LockInv, DyingInv
<1>9. /\ \A u \in Threads : Linked(u)' <=> Linked(u)
      /\ \A q \in Procs : (Unborn(q)' <=> Unborn(q)) /\ (ParentIsAlive(q)' <=> ParentIsAlive(q))
  BY <1>1, Zenon DEF Linked, Unborn, ParentIsAlive
<1>10. \A u \in Threads : Linked(u) => \A d \in Cpus : pendP'[d] # tproc[u]
  <2>1. ASSUME NEW u \in Threads, Linked(u), NEW d \in Cpus  PROVE pendP'[d] # tproc[u]
    <3>1. tproc[u] \in Procs /\ tlist[tproc[u]] # {} /\ tproc[u] # None
      BY <2>1, ConstantsAssumption, Zenon DEF Linked
    <3>2. pendP[d] # None => tlist[pendP[d]] = {}
      BY <1>0, Zenon DEF PendInv, PendPOK
    <3> QED
      BY <1>5, <1>6, <3>1, <3>2, ZenonT(60)
  <2> QED
    BY <2>1, Zenon
<1>11. CurInv'
  <2>1. ASSUME n # Idle, n # prev  PROVE CurOK(c)'
    <3>1. pid[tproc[n]] # 0 /\ tproc[n] \in Procs /\ n \in tlist[tproc[n]]
      BY <1>0, <1>3, <2>1, ZenonT(60) DEF ListInv, ListOK, Linked
    <3>2. ~Unborn(tproc[n])
      <4>1. SUFFICES ASSUME NEW u \in Threads, nproc[u] = tproc[n], tproc[u] # tproc[n]
                     PROVE  FALSE
        BY Zenon DEF Unborn
      <4>2. pc[u] \in Making
        BY <1>0, <3>1, <4>1, ConstantsAssumption, ZenonT(60) DEF PathInv, PathOK
      <4>0. MakeProcOK(u)
        BY <1>0, Zenon DEF MakeInv
      <4>3. pc[u] = "publish" /\ n = peer[u]
        BY <3>1, <4>0, <4>1, <4>2, ZenonT(60) DEF MakeProcOK
      <4>4. tstate[n] = "blocked"
        BY <1>0, <4>3, ZenonT(60) DEF MakeInv, MakeThreadOK, Reserving
      <4> QED
        BY <1>3, <2>1, <4>4, ZenonT(60)
    <3>3. InUse(tproc[n])'
      BY <1>1, <1>3, <1>9, <1>10, <2>1, <3>1, <3>2, ZenonT(60) DEF InUse
    <3> QED
      BY <1>1, <1>3, <1>4, <1>9, <2>1, <3>3, ZenonT(60) DEF CurOK, CurState
  <2>2. ASSUME n # Idle, n = prev  PROVE CurOK(c)'
    <3>1. InUse(tproc[n])'
      BY <1>1, <1>3, <1>5, <1>9, <1>10, <2>2, ZenonT(60) DEF InUse
    <3> QED
      BY <1>1, <1>3, <1>4, <1>9, <2>2, <3>1, ZenonT(60) DEF CurOK, CurState
  <2>3. CurOK(c)'
    BY <1>4, <2>1, <2>2, ZenonT(60) DEF CurOK
  <2>4. ASSUME NEW d \in Cpus, d # c, cur[d] # Idle  PROVE CurOK(d)'
    <3>1. CurOK(d) /\ cur[d] \in Threads /\ d # None
      BY <1>0, <2>4, ConstantsAssumption, ZenonT(60) DEF CurInv, TypeOK
    <3>2. /\ tstate[cur[d]] \in {"running", "zombie"} /\ tcpu[cur[d]] = d /\ Linked(cur[d])
          /\ InUse(tproc[cur[d]])
      BY <1>1, <2>4, <3>1, ZenonT(60) DEF CurOK, CurState
    <3>3. cur[d] # n /\ cur[d] # prev
      BY <1>3, <1>5, <2>4, <3>1, <3>2, ZenonT(60)
    <3>4. PICK u \in Threads : u = cur[d] /\ u = cur'[d]
      BY <1>4, <2>4, <3>1, Zenon
    <3>5. InUse(tproc[u])'
      BY <1>1, <1>9, <1>10, <3>2, <3>4, ZenonT(60) DEF InUse
    <3> QED
      BY <1>1, <1>4, <1>9, <2>4, <3>1, <3>2, <3>3, <3>4, <3>5, ZenonT(60)
         DEF CurOK, CurState
  <2> QED
    BY <1>4, <2>3, <2>4, Zenon DEF CurInv, CurOK
<1>12. CpuInv'
  <2>1. ASSUME NEW u \in Threads  PROVE CpuOK(u)'
    <3>1. CpuOK(u) /\ u # Idle /\ tcpu[u] \in Cpus \cup {None}
      BY <1>0, <1>1, Zenon DEF CpuInv, TypeOK
    <3>2. CASE u = n
      BY <1>1, <1>4, <3>1, <3>2, ZenonT(60) DEF CpuOK
    <3>3. CASE u # n /\ u = prev
      BY <1>4, <3>1, <3>3, ZenonT(60) DEF CpuOK
    <3>4. CASE u # n /\ u # prev
      BY <1>2, <1>4, <3>1, <3>4, ZenonT(60) DEF CpuOK
    <3> QED
      BY <3>2, <3>3, <3>4, Zenon
  <2> QED
    BY <2>1, Zenon DEF CpuInv
<1>13. SlotInv' /\ PathInv'
  <2>1. ASSUME NEW u \in Threads  PROVE SlotOK(u)' /\ PathOK(u)'
    <3>1. SlotOK(u) /\ PathOK(u) /\ u # Idle /\ (Linked(u)' <=> Linked(u))
      BY <1>0, <1>1, <1>9, Zenon DEF SlotInv, PathInv
    <3>2. CASE u = n
      <4>1. tstate'[u] = "running" /\ waitq[u] = "none" /\ Linked(u)
        BY <1>0, <1>3, <1>4, <3>1, <3>2, ZenonT(60) DEF SlotOK, TypeOK
      <4> QED
        BY <1>1, <3>1, <4>1, Zenon DEF SlotOK, PathOK
    <3>3. CASE u # n /\ u = prev
      <4>1. tstate'[u] = IF tstate[u] = "running" THEN "ready" ELSE tstate[u]
        BY <1>4, <3>1, <3>3, Zenon
      <4>2. tstate[u] # "unused" /\ (tstate[u] = "zombie" => ~Linked(u))
        BY <1>5, <3>1, <3>3, Zenon
      <4>3. SlotOK(u)'
        BY <1>1, <3>1, <4>1, <4>2, ZenonT(60) DEF SlotOK
      <4>4. PathOK(u)'
        BY <1>1, <3>1, <4>1, Zenon DEF PathOK
      <4> QED
        BY <4>3, <4>4, Zenon
    <3>4. CASE u # n /\ u # prev
      BY <1>1, <1>4, <3>1, <3>4, ZenonT(60) DEF SlotOK, PathOK
    <3> QED
      BY <3>2, <3>3, <3>4, Zenon
  <2> QED
    BY <2>1, Zenon DEF SlotInv, PathInv
<1>14. \A u \in Threads : /\ tstate'[u] = "unused" => tstate[u] = "unused"
                          /\ tstate'[u] = "zombie" <=> tstate[u] = "zombie"
                          /\ tstate'[u] = "blocked" <=> tstate[u] = "blocked"
  BY <1>1, <1>3, <1>4, ZenonT(60)
<1>15. KillInv' /\ CountInv' /\ PidInv'
  BY <1>0, <1>1, Zenon DEF KillInv, CountInv, PidInv, Linked
<1>16. ListInv'
  BY <1>0, <1>1, <1>14, ZenonT(60) DEF ListInv, ListOK, TypeOK
<1>17. PendInv'
  <2>1. ASSUME NEW d \in Cpus  PROVE PendTOK(d) /\ PendPOK(d)
                                     /\ pendT[d] \in Threads \cup {None} /\ pendP[d] \in Procs \cup {None}
    BY <1>0, Zenon DEF PendInv, TypeOK
  <2>2. ASSUME NEW d \in Cpus, pendT[d] # None
        PROVE  pendT[d] # prev /\ tcpu'[pendT[d]] = None /\ tstate'[pendT[d]] = "zombie"
    <3>1. pendT[d] \in Threads /\ tstate[pendT[d]] = "zombie" /\ tcpu[pendT[d]] = None
      BY <2>1, <2>2, ZenonT(60) DEF PendTOK
    <3>2. pendT[d] # prev /\ pendT[d] # n
      BY <1>1, <1>3, <1>5, <3>1, ZenonT(60)
    <3> QED
      BY <1>4, <3>1, <3>2, Zenon
  <2>3. ASSUME NEW d \in Cpus, pendT'[d] = pendT[d], pendP'[d] = pendP[d]
        PROVE  PendTOK(d)' /\ PendPOK(d)'
    BY <1>1, <1>9, <2>1, <2>2, <2>3, ZenonT(60) DEF PendTOK, PendPOK
  <2>4. CASE pendT'[c] = pendT[c] /\ pendP'[c] = pendP[c]
    BY <1>0, <1>6, <2>3, <2>4, SMT, SMTT(60) DEF PendInv
  <2>5. CASE /\ prev # Idle /\ prev # n /\ tstate[prev] = "zombie"
             /\ pendT'[c] = prev /\ pendP'[c] = dying /\ (joinable[prev] => dying # None)
    <3>1. PendTOK(c)'
      BY <1>1, <1>4, <1>5, <2>5, Zenon DEF PendTOK
    <3>2. PendPOK(c)'
      <4>1. dying # None => InUse(dying) /\ dying \in Procs
        BY <1>5, Zenon DEF InUse
      <4> QED
        BY <1>1, <1>5, <1>9, <2>5, <4>1, Zenon DEF PendPOK, InUse
    <3>3. \A d \in Cpus \ {c} : /\ pendT'[d] = prev => FALSE
                                /\ pendP'[d] = dying => dying = None
      BY <1>2, <1>5, <1>6, <2>2, <2>5, ConstantsAssumption, ZenonT(60) DEF InUse
    <3> QED
      BY <1>0, <1>6, <2>3, <2>5, <3>1, <3>2, <3>3, ZenonT(120) DEF PendInv
  <2> QED
    BY <1>6, <2>4, <2>5, Zenon
<1>18. FamInv'
  BY <1>0, <1>1, <1>9, ZenonT(120) DEF FamInv, DeadChild
<1>19. MakeInv'
  <2>1. ASSUME NEW u \in Threads  PROVE MakeProcOK(u)' /\ MakeThreadOK(u)'
    <3>1. MakeProcOK(u) /\ MakeThreadOK(u)
      BY <1>0, Zenon DEF MakeInv
    <3>2. MakeProcOK(u)'
      BY <1>1, <3>1, Zenon DEF MakeProcOK
    <3>3. pc[u] \in Reserving => peer[u] \in Threads /\ peer[u] # n /\ peer[u] # prev
      <4>1. pc[u] \in Reserving => /\ peer[u] \in Threads
                                   /\ tstate[peer[u]] = "blocked" /\ waitq[peer[u]] = "none"
        BY <1>0, <3>1, ZenonT(120) DEF PathInv, PathOK, TypeOK, MakeThreadOK
      <4> QED
        BY <1>1, <1>3, <1>5, <4>1, Zenon
    <3>4. MakeThreadOK(u)'
      BY <1>1, <1>4, <1>9, <3>1, <3>3, Zenon DEF MakeThreadOK
    <3> QED
      BY <3>2, <3>4, Zenon
  <2>2. ASSUME NEW u \in Threads, NEW v \in Threads, u # v  PROVE Apart(u, v)'
    BY <1>0, <1>1, <2>2, Zenon DEF MakeInv, Apart
  <2> QED
    BY <2>1, <2>2, Zenon DEF MakeInv
<1>20. WaitInv'
  BY <1>0, <1>1, <1>9, ZenonT(60) DEF WaitInv, WaitOK
<1>21. SleepInv'
  <2>1. ASSUME NEW u \in Threads  PROVE SleepOK(u)'
    <3>1. SleepOK(u) /\ (waitq[u] = "join" => peer[u] \in Threads)
      BY <1>0, Zenon DEF SleepInv, PathInv, PathOK, TypeOK
    <3>2. DeadTarget(u)' = DeadTarget(u) /\ Target(u)' = Target(u)
      BY <1>1, Zenon DEF DeadTarget, Target
    <3> QED
      BY <1>1, <1>14, <3>1, <3>2, Zenon DEF SleepOK, Joins
  <2> QED
    BY <2>1, Zenon DEF SleepInv
<1>22. CancelledNeverSleeps'
  BY <1>0, <1>1, <1>14, Zenon DEF CancelledNeverSleeps
<1> QED
  BY <1>7, <1>8, <1>11, <1>12, <1>13, <1>15, <1>16, <1>17, <1>18, <1>19, <1>20, <1>21,
     <1>22, ZenonT(60) DEF IInv
=============================================================================
