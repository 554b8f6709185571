--------------------------- MODULE UserSyncProofs ---------------------------
(***************************************************************************)
(* For any number of threads, items and interrupts, and any assignment of  *)
(* keys to buckets: the futex mutex excludes, and neither the mutex nor    *)
(* the condition variable loses a wake-up, as long as the page that holds  *)
(* them stays in its frame.                                                *)
(***************************************************************************)
EXTENDS UserSync, FiniteSetTheorems, TLAPS

Labels == Locking \cup Holding \cup Released
Calls == [op : {"none", "wait", "wake"}, word : Words \cup {NoFrame}, arg : Nat,
          key : [frame : Frames \cup {NoFrame}, word : Words \cup {NoFrame}]]

Typed ==
  /\ mem \in [Words -> Values]
  /\ frame \in Frames
  /\ killed = FALSE
  /\ at \in [Threads -> Points]
  /\ call \in [Threads -> Calls]
  /\ pc \in [Threads -> Labels]
  /\ after \in [Threads -> Released]
  /\ seen \in [Threads -> Values]

\* What is known of a thread inside the system call.
CallOf(t) ==
  /\ at[t] \in {"user", "dead"} => call[t].op = "none"
  /\ at[t] \in {"lookup", "locked", "asleep"} =>
       call[t].op \in {"wait", "wake"} /\ call[t].word \in Words
  /\ at[t] \in {"locked", "asleep"} =>
       call[t].key = [frame |-> frame, word |-> call[t].word]
  /\ at[t] = "asleep" => call[t].op = "wait"
  /\ call[t].op = "wait" /\ call[t].word = Mutex =>
       pc[t] = "swap" /\ call[t].arg = 2
  /\ call[t].op = "wait" /\ call[t].word = Cond => pc[t] = "lock"
  /\ call[t].op = "wake" /\ call[t].word = Mutex => call[t].arg = 1
  /\ call[t].op = "wake" /\ call[t].word = Cond => call[t].arg = All
CallsMatch == \A t \in Threads : CallOf(t)

FreeMeansFree == mem[Mutex] = 0 => \A t \in Threads : pc[t] \notin Holding

IInv ==
  /\ Typed /\ CallsMatch
  /\ MutualExclusion /\ FreeMeansFree
  /\ MutexWakeOwed /\ CondWakeOwed

LEMMA ValueFacts ==
  /\ 0 \in Values /\ 1 \in Values /\ 2 \in Values
  /\ Values \subseteq Nat
  /\ Mutex \in Words /\ Cond \in Words /\ Mutex # Cond
  /\ Words = {Mutex, Cond}
  /\ \A v \in Values : (v + 1) % (MaxSeq + 1) \in Values
  /\ \A v \in Values : (v + 1) % (MaxSeq + 1) # v
  /\ All \in Nat
PROOF
<1>1. MaxSeq \in Nat /\ MaxSeq > 1 /\ Values = 0..MaxSeq
  BY ProgramAssumption, SMT, SMTT(60)
<1>2. \A v \in 0..MaxSeq : (v + 1) % (MaxSeq + 1) \in 0..MaxSeq
  BY <1>1, SMT, SMTT(60)
<1>3. \A v \in 0..MaxSeq : (v + 1) % (MaxSeq + 1) # v
  BY <1>1, SMT, SMTT(60)
<1>4. All \in Nat
  BY ProgramAssumption, FS_CardinalityType, Zenon DEF All
<1> QED
  BY <1>1, <1>2, <1>3, <1>4, ProgramAssumption, SMT, SMTT(60) DEF Mutex, Cond

LEMMA InitIInv == Init => IInv
PROOF
<1> SUFFICES ASSUME Init PROVE IInv
  BY Zenon
<1>1. killed = FALSE
  BY Zenon DEF Init, FutexInit
<1>2. Typed
  <2>1. NoCall \in Calls
    BY Zenon DEF NoCall, NoKey, Calls
  <2> QED
    BY <1>1, <2>1, ValueFacts, Zenon DEF Init, FutexInit, Typed, Points, Labels, Locking,
       Holding, Released
<1>3. CallsMatch
  BY Zenon DEF Init, FutexInit, CallsMatch, CallOf, NoCall
<1>4. MutualExclusion /\ FreeMeansFree
  BY Zenon DEF Init, FutexInit, MutualExclusion, FreeMeansFree, Holding
<1>5. MutexWakeOwed /\ CondWakeOwed
  BY Zenon DEF Init, FutexInit, MutexWakeOwed, CondWakeOwed, Asleep
<1> QED
  BY <1>2, <1>3, <1>4, <1>5, Zenon DEF IInv

-----------------------------------------------------------------------------
\* A step inside the critical section touches neither word nor call.
LEMMA HoldingStep ==
  ASSUME IInv, NEW t \in Threads, NEW x \in Holding,
         pc[t] \in Holding, pc' = [pc EXCEPT ![t] = x],
         after' \in [Threads -> Released], seen' \in [Threads -> Values],
         UNCHANGED fvars
  PROVE  IInv'
PROOF
<1> USE DEF IInv
<1>1. /\ mem' = mem /\ frame' = frame /\ killed' = killed
      /\ at' = at /\ call' = call
  BY Zenon DEF fvars
<1>0. killed' = FALSE
  BY <1>1, Zenon DEF Typed
<1>2. Typed'
  BY Zenon, <1>0, <1>1 DEF Typed, Labels
<1>3. CallsMatch'
  <2> SUFFICES ASSUME NEW u \in Threads PROVE CallOf(u)'
    BY Zenon DEF CallsMatch
  <2>1. CallOf(u)
    BY Zenon DEF CallsMatch
  <2> QED
    BY <1>1, <2>1, Zenon DEF CallOf, Typed, Holding
<1>4. MutualExclusion' /\ FreeMeansFree'
  BY <1>1, Zenon DEF MutualExclusion, FreeMeansFree, Typed, Holding
<1>5. MutexWakeOwed'
  BY <1>1, Zenon DEF MutexWakeOwed, Asleep, Waking, Typed, Holding
<1>6. CondWakeOwed'
  BY <1>1, Zenon DEF CondWakeOwed, Asleep, Waking
<1> QED
  BY <1>2, <1>3, <1>4, <1>5, <1>6, Zenon

LEMMA CriticalSteps ==
  ASSUME IInv, NEW t \in Threads, CondWait(t) \/ Check(t) \/ Update(t)
  PROVE  IInv'
PROOF
<1> USE DEF IInv
<1>1. CASE CondWait(t)
  <2>1. mem[Cond] \in Values
    BY ValueFacts, Zenon DEF Typed
  <2>2. after' \in [Threads -> Released] /\ seen' \in [Threads -> Values]
    BY <1>1, <2>1, Zenon DEF CondWait, Typed, Released
  <2>3. pc[t] \in Holding /\ pc' = [pc EXCEPT ![t] = "unlock"] /\ UNCHANGED fvars
    BY <1>1, Zenon DEF CondWait, InProgram, Go, Holding
  <2> QED
    BY Zenon, <2>2, <2>3, HoldingStep DEF Holding
<1>2. CASE Check(t)
  <2>1. after' \in [Threads -> Released] /\ seen' \in [Threads -> Values]
    BY <1>2, Zenon DEF Check, Typed, Released
  <2>2. pc[t] \in Holding /\ UNCHANGED fvars
    BY <1>2, Zenon DEF Check, InProgram, Holding
  <2>3. PICK x \in Holding : pc' = [pc EXCEPT ![t] = x]
    BY <1>2, Zenon DEF Check, Go, Holding
  <2> QED
    BY Zenon, <2>1, <2>2, <2>3, HoldingStep
<1>3. CASE Update(t)
  <2>1. after' \in [Threads -> Released] /\ seen' \in [Threads -> Values]
    BY <1>3, Zenon DEF Update, Typed, Released
  <2>2. pc[t] \in Holding /\ pc' = [pc EXCEPT ![t] = "unlock"] /\ UNCHANGED fvars
    BY <1>3, Zenon DEF Update, InProgram, Go, Holding
  <2> QED
    BY Zenon, <2>1, <2>2, HoldingStep DEF Holding
<1> QED
  BY <1>1, <1>2, <1>3, Zenon

LEMMA MutexLockKeeps ==
  ASSUME IInv, NEW t \in Threads, MutexLock(t)
  PROVE  IInv'
PROOF
<1> USE DEF IInv
<1>1. /\ at[t] = "user" /\ pc[t] = "lock"
      /\ frame' = frame /\ at' = at /\ call' = call
      /\ after' = after /\ seen' = seen
  BY Zenon DEF MutexLock, InProgram, InUser
<1>2. killed' = FALSE
  BY Zenon DEF MutexLock, Typed
<1>3. \/ /\ mem[Mutex] = 0 /\ mem' = [mem EXCEPT ![Mutex] = 1]
         /\ pc' = [pc EXCEPT ![t] = "check"]
      \/ mem' = mem /\ pc' = [pc EXCEPT ![t] = "swap"]
  BY Zenon DEF MutexLock, Store, Go
<1>4. Typed'
  BY <1>1, <1>2, <1>3, ValueFacts, Zenon DEF Typed, Labels, Holding, Locking
<1>5. CallsMatch'
  <2> SUFFICES ASSUME NEW u \in Threads PROVE CallOf(u)'
    BY Zenon DEF CallsMatch
  <2>1. CallOf(u)
    BY Zenon DEF CallsMatch
  <2> QED
    BY <1>1, <1>3, <2>1, Zenon DEF CallOf, Typed
<1>6. MutualExclusion' /\ FreeMeansFree'
  BY <1>1, <1>3, ValueFacts, SMT, SMTT(60) DEF MutualExclusion, FreeMeansFree, Typed, Holding
<1>7. MutexWakeOwed'
  BY <1>1, <1>3, ValueFacts, SMT, SMTT(60) DEF MutexWakeOwed, Asleep, Waking, Typed
<1>8. CondWakeOwed'
  BY <1>1, <1>3, ValueFacts, ZenonT(60) DEF CondWakeOwed, Asleep, Waking, Typed
<1> QED
  BY <1>4, <1>5, <1>6, <1>7, <1>8, Zenon

-----------------------------------------------------------------------------
\* What entering the kernel does to the caller and to everybody else.
LEMMA EnterFacts ==
  ASSUME Typed, NEW t \in Threads, NEW op \in {"wait", "wake"}, NEW w \in Words,
         NEW arg \in Nat, Enter(t, op, w, arg)
  PROVE  /\ at' \in [Threads -> Points] /\ call' \in [Threads -> Calls]
         /\ at'[t] = "lookup"
         /\ call'[t].op = op /\ call'[t].word = w /\ call'[t].arg = arg
         /\ \A u \in Threads \ {t} : at'[u] = at[u] /\ call'[u] = call[u]
PROOF
<1> DEFINE c == [op |-> op, word |-> w, arg |-> arg, key |-> NoKey]
<1>1. c \in Calls
  BY Zenon DEF Calls, NoKey
<1>2. at' = [at EXCEPT ![t] = "lookup"] /\ call' = [call EXCEPT ![t] = c]
  BY Zenon DEF Enter
<1>3. at' \in [Threads -> Points] /\ at'[t] = "lookup"
  BY <1>2, Zenon DEF Typed, Points
<1>4. call' \in [Threads -> Calls] /\ call'[t] = c
  BY <1>1, <1>2, Zenon DEF Typed
<1>5. c.op = op /\ c.word = w /\ c.arg = arg
  BY Zenon
<1>6. \A u \in Threads \ {t} : at'[u] = at[u] /\ call'[u] = call[u]
  BY <1>2, Zenon DEF Typed
<1> QED
  BY <1>3, <1>4, <1>5, <1>6, Zenon

\* A thread that enters the kernel ends no wake-up of the condition.
LEMMA CondOwedOnEnter ==
  ASSUME IInv, NEW t \in Threads, at[t] = "user", at'[t] = "lookup",
         \A u \in Threads \ {t} : at'[u] = at[u] /\ call'[u] = call[u],
         mem'[Cond] = mem[Cond]
  PROVE  CondWakeOwed'
PROOF
<1> SUFFICES ASSUME NEW u \in Threads, at'[u] = "asleep", call'[u].word = Cond,
                    call'[u].arg # mem'[Cond]
             PROVE  \E x \in Threads : call'[x].op = "wake" /\ call'[x].word = Cond
  BY Zenon DEF CondWakeOwed, Asleep, Waking
<1>1. u # t /\ u \in Asleep(Cond) /\ call[u].arg # mem[Cond]
  BY Zenon DEF Asleep
<1>2. PICK x \in Waking(Cond) : TRUE
  BY <1>1, Zenon DEF IInv, CondWakeOwed
<1>3. x \in Threads /\ call[x].op = "wake" /\ call[x].word = Cond
  BY <1>2, Zenon DEF Waking
<1>4. call[t].op = "none"
  BY Zenon DEF IInv, CallsMatch, CallOf
<1>5. x # t
  BY <1>3, <1>4, Zenon
<1> QED
  BY <1>3, <1>5, Zenon

LEMMA MutexLockSlowKeeps ==
  ASSUME IInv, NEW t \in Threads, MutexLockSlow(t)
  PROVE  IInv'
PROOF
<1> USE DEF IInv
<1>1. /\ at[t] = "user" /\ pc[t] = "swap"
      /\ frame' = frame /\ after' = after /\ seen' = seen
      /\ mem' = [mem EXCEPT ![Mutex] = 2]
  BY Zenon DEF MutexLockSlow, InProgram, InUser, Store
<1>2. killed' = FALSE
  BY Zenon DEF MutexLockSlow, Typed
<1>3. mem'[Mutex] = 2 /\ mem'[Cond] = mem[Cond] /\ mem' \in [Words -> Values]
  BY <1>1, ValueFacts, Zenon DEF Typed
<1>4. CASE mem[Mutex] = 0
  <2>1. at' = at /\ call' = call /\ pc' = [pc EXCEPT ![t] = "check"]
    BY <1>4, Zenon DEF MutexLockSlow, Go
  <2>2. Typed'
    BY <1>1, <1>2, <1>3, <2>1, Zenon DEF Typed, Labels, Holding
  <2>3. CallsMatch'
    <3> SUFFICES ASSUME NEW u \in Threads PROVE CallOf(u)'
      BY Zenon DEF CallsMatch
    <3>1. CallOf(u)
      BY Zenon DEF CallsMatch
    <3> QED
      BY <1>1, <2>1, <3>1, Zenon DEF CallOf, Typed
  <2>4. MutualExclusion' /\ FreeMeansFree'
    BY <1>3, <1>4, <2>1, SMT, SMTT(60) DEF MutualExclusion, FreeMeansFree, Typed, Holding
  <2>5. MutexWakeOwed' /\ CondWakeOwed'
    BY <1>3, <2>1, Zenon DEF MutexWakeOwed, CondWakeOwed, Asleep, Waking
  <2> QED
    BY <2>2, <2>3, <2>4, <2>5, Zenon
<1>5. CASE mem[Mutex] # 0
  <2>1. Enter(t, "wait", Mutex, 2) /\ pc' = pc
    BY <1>5, Zenon DEF MutexLockSlow
  <2>2. /\ at' \in [Threads -> Points] /\ call' \in [Threads -> Calls]
        /\ at'[t] = "lookup"
        /\ call'[t].op = "wait" /\ call'[t].word = Mutex /\ call'[t].arg = 2
        /\ \A u \in Threads \ {t} : at'[u] = at[u] /\ call'[u] = call[u]
    BY ZenonT(40), <2>1, EnterFacts, ValueFacts
  <2>3. Typed'
    BY <1>1, <1>2, <1>3, <2>1, <2>2, Zenon DEF Typed
  <2>4. CallsMatch'
    <3> SUFFICES ASSUME NEW u \in Threads PROVE CallOf(u)'
      BY Zenon DEF CallsMatch
    <3>1. CallOf(u)
      BY Zenon DEF CallsMatch
    <3>2. CASE u = t
      BY ZenonT(40), <1>1, <2>1, <2>2, <3>2, ValueFacts DEF CallOf
    <3>3. CASE u # t
      BY <1>1, <2>1, <2>2, <3>1, <3>3, ZenonT(60) DEF CallOf
    <3> QED
      BY <3>2, <3>3, Zenon
  <2>5. MutualExclusion' /\ FreeMeansFree'
    BY <1>3, <2>1 DEF MutualExclusion, FreeMeansFree
  <2>6. MutexWakeOwed'
    BY <1>3, Zenon DEF MutexWakeOwed
  <2>7. CondWakeOwed'
    BY <1>1, <1>3, <2>2, CondOwedOnEnter, Zenon
  <2> QED
    BY <2>3, <2>4, <2>5, <2>6, <2>7, Zenon
<1> QED
  BY <1>4, <1>5, Zenon

LEMMA MutexUnlockKeeps ==
  ASSUME IInv, NEW t \in Threads, MutexUnlock(t)
  PROVE  IInv'
PROOF
<1> USE DEF IInv
<1>1. /\ at[t] = "user" /\ pc[t] = "unlock"
      /\ frame' = frame /\ seen' = seen
      /\ mem' = [mem EXCEPT ![Mutex] = 0]
      /\ pc' = [pc EXCEPT ![t] = after[t]]
      /\ after' = [after EXCEPT ![t] = "wait"]
  BY Zenon DEF MutexUnlock, InProgram, InUser, Store, Go
<1>2. killed' = FALSE
  BY Zenon DEF MutexUnlock, Typed
<1>3. mem'[Mutex] = 0 /\ mem'[Cond] = mem[Cond] /\ mem' \in [Words -> Values]
  BY <1>1, ValueFacts, Zenon DEF Typed
<1>4. /\ after[t] \in Released /\ after' \in [Threads -> Released]
      /\ pc' \in [Threads -> Labels] /\ pc'[t] = after[t]
      /\ \A u \in Threads \ {t} : pc'[u] = pc[u]
  BY <1>1, Zenon DEF Typed, Released, Labels
<1>5. MutualExclusion' /\ FreeMeansFree'
  BY <1>1, <1>3, <1>4, SMT, SMTT(60) DEF MutualExclusion, FreeMeansFree, Holding, Released
<1>6. CASE mem[Mutex] = 2
  <2>1. Enter(t, "wake", Mutex, 1)
    BY <1>6, Zenon DEF MutexUnlock
  <2>2. /\ at' \in [Threads -> Points] /\ call' \in [Threads -> Calls]
        /\ at'[t] = "lookup"
        /\ call'[t].op = "wake" /\ call'[t].word = Mutex /\ call'[t].arg = 1
        /\ \A u \in Threads \ {t} : at'[u] = at[u] /\ call'[u] = call[u]
    BY Zenon, <2>1, EnterFacts, ValueFacts
  <2>3. Typed'
    BY <1>1, <1>2, <1>3, <1>4, <2>2, Zenon DEF Typed
  <2>4. CallsMatch'
    <3> SUFFICES ASSUME NEW u \in Threads PROVE CallOf(u)'
      BY Zenon DEF CallsMatch
    <3>1. CallOf(u)
      BY Zenon DEF CallsMatch
    <3>2. CASE u = t
      BY ZenonT(40), <1>1, <2>2, <3>2, ValueFacts DEF CallOf
    <3>3. CASE u # t
      BY <1>1, <1>4, <2>2, <3>1, <3>3, SMT, SMTT(60) DEF CallOf
    <3> QED
      BY <3>2, <3>3, Zenon
  <2>5. MutexWakeOwed'
    BY <2>2, Zenon DEF MutexWakeOwed, Waking
  <2>6. CondWakeOwed'
    BY <1>1, <1>3, <2>2, CondOwedOnEnter, ZenonT(60)
  <2> QED
    BY <1>5, <2>3, <2>4, <2>5, <2>6, Zenon
<1>7. CASE mem[Mutex] # 2
  <2>1. at' = at /\ call' = call
    BY <1>7, Zenon DEF MutexUnlock
  <2>2. Typed'
    BY ZenonT(40), <1>1, <1>2, <1>3, <1>4, <2>1 DEF Typed
  <2>3. CallsMatch'
    <3> SUFFICES ASSUME NEW u \in Threads PROVE CallOf(u)'
      BY Zenon DEF CallsMatch
    <3>1. CallOf(u)
      BY Zenon DEF CallsMatch
    <3> QED
      BY <1>1, <1>4, <2>1, <3>1, Zenon DEF CallOf
  <2>4. MutexWakeOwed'
    BY <1>1, <1>4, <1>7, <2>1, SMT, SMTT(60) DEF MutexWakeOwed, Asleep, Waking
  <2>5. CondWakeOwed'
    BY <1>3, <2>1, Zenon DEF CondWakeOwed, Asleep, Waking
  <2> QED
    BY <1>5, <2>2, <2>3, <2>4, <2>5, Zenon
<1> QED
  BY <1>6, <1>7, Zenon

\* Nor does it end a wake-up of the mutex, or leave the contended path.
LEMMA MutexOwedOnEnter ==
  ASSUME IInv, NEW t \in Threads, at[t] = "user", at'[t] = "lookup",
         \A u \in Threads \ {t} : at'[u] = at[u] /\ call'[u] = call[u],
         \A u \in Threads \ {t} : pc'[u] = pc[u],
         pc[t] # "swap", mem'[Mutex] = mem[Mutex]
  PROVE  MutexWakeOwed'
PROOF
<1> SUFFICES ASSUME NEW u \in Threads, at'[u] = "asleep", call'[u].word = Mutex,
                    mem'[Mutex] # 2
             PROVE  \/ \E x \in Threads : call'[x].op = "wake" /\ call'[x].word = Mutex
                    \/ \E x \in Threads : pc'[x] = "swap" /\ at'[x] # "asleep"
  BY Zenon DEF MutexWakeOwed, Asleep, Waking
<1>1. Asleep(Mutex) # {} /\ mem[Mutex] # 2
  BY Zenon DEF Asleep
<1>2. call[t].op = "none"
  BY Zenon DEF IInv, CallsMatch, CallOf
<1>3. CASE Waking(Mutex) # {}
  BY <1>2, <1>3, SMT, SMTT(60) DEF Waking
<1>4. CASE \E x \in Threads : pc[x] = "swap" /\ at[x] # "asleep"
  BY <1>4, Zenon
<1> QED
  BY <1>1, <1>3, <1>4, Zenon DEF IInv, MutexWakeOwed

LEMMA CondSleepKeeps ==
  ASSUME IInv, NEW t \in Threads, CondSleep(t)
  PROVE  IInv'
PROOF
<1> USE DEF IInv
<1>1. /\ at[t] = "user" /\ pc[t] = "wait"
      /\ frame' = frame /\ after' = after /\ mem' = mem
      /\ pc' = [pc EXCEPT ![t] = "lock"]
      /\ seen' = [seen EXCEPT ![t] = 0]
      /\ Enter(t, "wait", Cond, seen[t])
  BY Zenon DEF CondSleep, InProgram, InUser, Go
<1>2. killed' = FALSE
  BY Zenon DEF CondSleep, Typed
<1>3. seen[t] \in Nat /\ seen' \in [Threads -> Values]
  BY Zenon, <1>1, ValueFacts DEF Typed
<1>4. /\ at' \in [Threads -> Points] /\ call' \in [Threads -> Calls]
      /\ at'[t] = "lookup"
      /\ call'[t].op = "wait" /\ call'[t].word = Cond
      /\ \A u \in Threads \ {t} : at'[u] = at[u] /\ call'[u] = call[u]
  BY ZenonT(40), <1>1, <1>3, EnterFacts, ValueFacts
<1>5. /\ pc' \in [Threads -> Labels] /\ pc'[t] = "lock"
      /\ \A u \in Threads \ {t} : pc'[u] = pc[u]
  BY <1>1, Zenon DEF Typed, Labels, Locking
<1>6. Typed'
  BY ZenonT(40), <1>1, <1>2, <1>3, <1>4, <1>5 DEF Typed
<1>7. CallsMatch'
  <2> SUFFICES ASSUME NEW u \in Threads PROVE CallOf(u)'
    BY Zenon DEF CallsMatch
  <2>1. CallOf(u)
    BY Zenon DEF CallsMatch
  <2>2. CASE u = t
    BY <1>4, <1>5, <2>2, ValueFacts, Zenon DEF CallOf
  <2>3. CASE u # t
    BY ZenonT(40), <1>1, <1>4, <1>5, <2>1, <2>3 DEF CallOf
  <2> QED
    BY <2>2, <2>3, Zenon
<1>8. MutualExclusion' /\ FreeMeansFree'
  BY <1>1, <1>5, Zenon DEF MutualExclusion, FreeMeansFree, Holding
<1>9. MutexWakeOwed'
  BY <1>1, <1>4, <1>5, MutexOwedOnEnter, Zenon
<1>10. CondWakeOwed'
  BY <1>1, <1>4, CondOwedOnEnter, Zenon
<1> QED
  BY <1>6, <1>7, <1>8, <1>9, <1>10, Zenon

LEMMA CondBroadcastKeeps ==
  ASSUME IInv, NEW t \in Threads, CondBroadcast(t)
  PROVE  IInv'
PROOF
<1> USE DEF IInv
<1> DEFINE where == IF t \in Producers /\ rounds[t] = 0 THEN "done" ELSE "lock"
<1>1. /\ at[t] = "user" /\ pc[t] = "broadcast"
      /\ frame' = frame /\ after' = after /\ seen' = seen
      /\ mem' = [mem EXCEPT ![Cond] = (mem[Cond] + 1) % (MaxSeq + 1)]
      /\ pc' = [pc EXCEPT ![t] = where]
      /\ Enter(t, "wake", Cond, All)
  BY Zenon DEF CondBroadcast, InProgram, InUser, Store, Go
<1>2. killed' = FALSE
  BY Zenon DEF CondBroadcast, Typed
<1>3. mem' \in [Words -> Values] /\ mem'[Mutex] = mem[Mutex]
  BY Zenon, <1>1, ValueFacts DEF Typed
<1>4. /\ at' \in [Threads -> Points] /\ call' \in [Threads -> Calls]
      /\ at'[t] = "lookup"
      /\ call'[t].op = "wake" /\ call'[t].word = Cond /\ call'[t].arg = All
      /\ \A u \in Threads \ {t} : at'[u] = at[u] /\ call'[u] = call[u]
  BY Zenon, <1>1, EnterFacts, ValueFacts
<1>5. where \in {"lock", "done"}
  BY Zenon
<1> HIDE DEF where
<1>6. /\ pc' \in [Threads -> Labels] /\ pc'[t] = where
      /\ \A u \in Threads \ {t} : pc'[u] = pc[u]
  BY ZenonT(40), <1>1, <1>5 DEF Typed, Labels, Locking, Released
<1>7. Typed'
  BY ZenonT(40), <1>1, <1>2, <1>3, <1>4, <1>6 DEF Typed
<1>8. CallsMatch'
  <2> SUFFICES ASSUME NEW u \in Threads PROVE CallOf(u)'
    BY Zenon DEF CallsMatch
  <2>1. CallOf(u)
    BY Zenon DEF CallsMatch
  <2>2. CASE u = t
    BY ZenonT(40), <1>4, <1>6, <2>2, ValueFacts DEF CallOf
  <2>3. CASE u # t
    BY <1>1, <1>4, <1>6, <2>1, <2>3, ZenonT(60) DEF CallOf
  <2> QED
    BY <2>2, <2>3, Zenon
<1>9. MutualExclusion' /\ FreeMeansFree'
  BY <1>1, <1>3, <1>5, <1>6, Zenon DEF MutualExclusion, FreeMeansFree, Holding
<1>10. MutexWakeOwed'
  BY ZenonT(40), <1>1, <1>3, <1>4, <1>6, MutexOwedOnEnter
<1>11. CondWakeOwed'
  BY <1>4, Zenon DEF CondWakeOwed, Waking
<1> QED
  BY <1>7, <1>8, <1>9, <1>10, <1>11, Zenon

-----------------------------------------------------------------------------
\* What leaving the kernel does while the process is not killed.
LEMMA BackFacts ==
  ASSUME Typed, NEW S \in SUBSET Threads, Back(S)
  PROVE  /\ at' \in [Threads -> Points] /\ call' \in [Threads -> Calls]
         /\ \A u \in S : at'[u] = "user" /\ call'[u].op = "none"
         /\ \A u \in Threads \ S : at'[u] = at[u] /\ call'[u] = call[u]
PROOF
<1>1. Home = "user"
  BY Zenon DEF Home, Typed
<1>2. NoCall \in Calls /\ NoCall.op = "none"
  BY Zenon DEF NoCall, NoKey, Calls
<1>3. at' = [u \in Threads |-> IF u \in S THEN "user" ELSE at[u]]
  BY <1>1, Zenon DEF Back
<1>4. call' = [u \in Threads |-> IF u \in S THEN NoCall ELSE call[u]]
  BY Zenon DEF Back
<1>5. /\ at' \in [Threads -> Points]
      /\ \A u \in S : at'[u] = "user"
      /\ \A u \in Threads \ S : at'[u] = at[u]
  BY <1>3, Zenon DEF Typed, Points
<1>6. /\ call' \in [Threads -> Calls]
      /\ \A u \in S : call'[u].op = "none"
      /\ \A u \in Threads \ S : call'[u] = call[u]
  BY <1>2, <1>4, Zenon DEF Typed
<1> QED
  BY <1>5, <1>6, Zenon

\* What a step that only brings the threads of S back preserves.
LEMMA BackKeeps ==
  ASSUME IInv, NEW S \in SUBSET Threads, Back(S), UNCHANGED uvars,
         UNCHANGED <<mem, frame, killed>>
  PROVE  Typed' /\ CallsMatch' /\ MutualExclusion' /\ FreeMeansFree'
PROOF
<1> USE DEF IInv
<1>1. /\ at' \in [Threads -> Points] /\ call' \in [Threads -> Calls]
      /\ \A u \in S : at'[u] = "user" /\ call'[u].op = "none"
      /\ \A u \in Threads \ S : at'[u] = at[u] /\ call'[u] = call[u]
  BY BackFacts, Zenon
<1>2. pc' = pc /\ after' = after /\ seen' = seen
  BY Zenon DEF uvars
<1>3. mem' = mem /\ frame' = frame
  BY Zenon
<1>4. killed' = FALSE
  BY Zenon DEF Typed
<1>5. Typed'
  BY <1>1, <1>2, <1>3, <1>4, Zenon DEF Typed
<1>6. CallsMatch'
  <2> SUFFICES ASSUME NEW u \in Threads PROVE CallOf(u)'
    BY Zenon DEF CallsMatch
  <2>1. CallOf(u)
    BY Zenon DEF CallsMatch
  <2>2. CASE u \in S
    BY ZenonT(40), <1>1, <2>2 DEF CallOf
  <2>3. CASE u \notin S
    BY Zenon, <1>1, <1>2, <1>3, <2>1, <2>3 DEF CallOf
  <2> QED
    BY <2>2, <2>3, Zenon
<1>7. MutualExclusion' /\ FreeMeansFree'
  BY <1>2, <1>3, Zenon DEF MutualExclusion, FreeMeansFree
<1> QED
  BY <1>5, <1>6, <1>7, Zenon

LEMMA InterruptKeeps ==
  ASSUME IInv, Interrupt, UNCHANGED uvars
  PROVE  IInv'
PROOF
<1> DEFINE S == {u \in Threads : at[u] = "asleep"}
<1>1. Back(S) /\ UNCHANGED <<mem, frame, killed>>
  BY Zenon DEF Interrupt
<1>2. Typed' /\ CallsMatch' /\ MutualExclusion' /\ FreeMeansFree'
  BY <1>1, BackKeeps, Zenon
<1>3. \A u \in Threads : at'[u] # "asleep"
  <2>1. /\ \A u \in S : at'[u] = "user"
        /\ \A u \in Threads \ S : at'[u] = at[u]
    BY <1>1, BackFacts, Zenon DEF IInv
  <2> QED
    BY <2>1, Zenon
<1>4. MutexWakeOwed' /\ CondWakeOwed'
  BY <1>3, Zenon DEF MutexWakeOwed, CondWakeOwed, Asleep
<1> QED
  BY <1>2, <1>4, Zenon DEF IInv

LEMMA FutexKeyKeeps ==
  ASSUME IInv, NEW t \in Threads, FutexKey(t), UNCHANGED uvars
  PROVE  IInv'
PROOF
<1> USE DEF IInv
<1> DEFINE k == [frame |-> frame, word |-> call[t].word]
<1>1. /\ at[t] = "lookup" /\ mem' = mem /\ frame' = frame
      /\ pc' = pc /\ after' = after /\ seen' = seen
  BY Zenon DEF FutexKey, uvars
<1>2. killed' = FALSE
  BY Zenon DEF FutexKey, Typed
<1>3. /\ at' = [at EXCEPT ![t] = "locked"]
      /\ call' = [call EXCEPT ![t].key = k]
  BY NoFrameAssumption, Zenon DEF FutexKey, Typed
<1>4. CallOf(t) /\ call[t] \in Calls
  BY ZenonT(40) DEF CallsMatch, Typed
<1>5. k \in [frame : Frames \cup {NoFrame}, word : Words \cup {NoFrame}]
  BY <1>1, <1>4, Zenon DEF Typed, CallOf
<1>6. /\ call'[t].op = call[t].op /\ call'[t].word = call[t].word
      /\ call'[t].arg = call[t].arg /\ call'[t].key = k
      /\ call'[t] \in Calls
  BY Zenon, <1>3, <1>4, <1>5 DEF Calls, Typed
<1>7. \A u \in Threads \ {t} : at'[u] = at[u] /\ call'[u] = call[u]
  BY <1>3, Zenon DEF Typed
<1>8. at'[t] = "locked" /\ at' \in [Threads -> Points]
  BY <1>3, Zenon DEF Typed, Points
<1>9. call' \in [Threads -> Calls]
  BY <1>3, <1>6, <1>7, Zenon DEF Typed
<1>10. Typed'
  BY <1>1, <1>2, <1>8, <1>9, Zenon DEF Typed
<1>11. CallsMatch'
  <2> SUFFICES ASSUME NEW u \in Threads PROVE CallOf(u)'
    BY Zenon DEF CallsMatch
  <2>1. CallOf(u)
    BY ZenonT(40) DEF CallsMatch
  <2>2. CASE u = t
    BY <1>1, <1>4, <1>6, <1>8, <2>2, Zenon DEF CallOf
  <2>3. CASE u # t
    BY ZenonT(40), <1>1, <1>7, <2>1, <2>3 DEF CallOf
  <2> QED
    BY <2>2, <2>3, Zenon
<1>12. MutualExclusion' /\ FreeMeansFree'
  BY <1>1, Zenon DEF MutualExclusion, FreeMeansFree
<1>13. /\ \A w : Asleep(w)' = Asleep(w) /\ Waking(w)' = Waking(w)
       /\ \A u \in Threads : at[u] = "asleep" => call'[u] = call[u]
       /\ \A u \in Threads : at[u] # "asleep" => at'[u] # "asleep"
  BY ZenonT(40), <1>1, <1>6, <1>7, <1>8 DEF Asleep, Waking
<1>14. MutexWakeOwed'
  BY ZenonT(60), <1>1, <1>13 DEF MutexWakeOwed
<1>15. CondWakeOwed'
  BY ZenonT(30), <1>1, <1>13 DEF CondWakeOwed, Asleep
<1> QED
  BY <1>10, <1>11, <1>12, <1>14, <1>15, Zenon

LEMMA FutexWaitKeeps ==
  ASSUME IInv, NEW t \in Threads, FutexWait(t), UNCHANGED uvars
  PROVE  IInv'
PROOF
<1> USE DEF IInv
<1>1. /\ at[t] = "locked" /\ call[t].op = "wait" /\ mem' = mem /\ frame' = frame
      /\ pc' = pc /\ after' = after /\ seen' = seen
      /\ UNCHANGED <<mem, frame, killed>>
  BY Zenon DEF FutexWait, uvars
<1>2. killed' = FALSE
  BY Zenon DEF FutexWait, Typed
<1>3. CallOf(t)
  BY ZenonT(40) DEF CallsMatch
<1>4. call[t].key.frame = frame /\ call[t].key.word = call[t].word
  BY <1>1, <1>3 DEF CallOf
<1>5. Reads(call[t].key) = {mem[call[t].word]}
  BY ZenonT(40), <1>4 DEF Reads
<1>6. CASE mem[call[t].word] = call[t].arg
  <2>1. at' = [at EXCEPT ![t] = "asleep"] /\ call' = call
    BY <1>5, <1>6, Zenon DEF FutexWait
  <2>2. /\ at' \in [Threads -> Points] /\ at'[t] = "asleep"
        /\ \A u \in Threads \ {t} : at'[u] = at[u]
    BY <2>1, Zenon DEF Typed, Points
  <2>3. Typed'
    BY ZenonT(40), <1>1, <1>2, <2>1, <2>2 DEF Typed
  <2>4. CallsMatch'
    <3> SUFFICES ASSUME NEW u \in Threads PROVE CallOf(u)'
      BY Zenon DEF CallsMatch
    <3>1. CallOf(u)
      BY Zenon DEF CallsMatch
    <3>2. CASE u = t
      BY Zenon, <1>1, <1>3, <2>1, <2>2, <3>2 DEF CallOf
    <3>3. CASE u # t
      BY ZenonT(40), <1>1, <2>1, <2>2, <3>1, <3>3 DEF CallOf
    <3> QED
      BY <3>2, <3>3, Zenon
  <2>5. MutualExclusion' /\ FreeMeansFree'
    BY <1>1, Zenon DEF MutualExclusion, FreeMeansFree
  <2>6. MutexWakeOwed'
    <3>1. CASE call[t].word = Mutex
      BY ZenonT(40), <1>1, <1>3, <1>6, <3>1 DEF CallOf, MutexWakeOwed
    <3>2. CASE call[t].word = Cond
      <4>1. pc[t] = "lock"
        BY ZenonT(40), <1>1, <1>3, <3>2 DEF CallOf
      <4>2. Asleep(Mutex)' = Asleep(Mutex) /\ Waking(Mutex)' = Waking(Mutex)
        BY ZenonT(40), <1>1, <2>1, <2>2, <3>2, ValueFacts DEF Asleep, Waking
      <4> QED
        BY <1>1, <2>2, <4>1, <4>2, Zenon DEF MutexWakeOwed
    <3> QED
      BY ZenonT(40), <1>1, <1>3, <3>1, <3>2, ValueFacts DEF CallOf
  <2>7. CondWakeOwed'
    BY <1>1, <1>6, <2>1, <2>2, ZenonT(60) DEF CondWakeOwed, Asleep, Waking
  <2> QED
    BY <2>3, <2>4, <2>5, <2>6, <2>7, Zenon
<1>7. CASE mem[call[t].word] # call[t].arg
  <2>1. Back({t})
    BY ZenonT(40), <1>5, <1>7 DEF FutexWait
  <2>2. Typed' /\ CallsMatch' /\ MutualExclusion' /\ FreeMeansFree'
    BY <1>1, <2>1, BackKeeps, Zenon
  <2>3. /\ at'[t] = "user" /\ call'[t].op = "none"
        /\ \A u \in Threads \ {t} : at'[u] = at[u] /\ call'[u] = call[u]
    BY <2>1, BackFacts, Zenon
  <2>4. \A w : Asleep(w)' = Asleep(w) /\ Waking(w)' = Waking(w)
    BY <1>1, <2>3, ZenonT(60) DEF Asleep, Waking
  <2>5. MutexWakeOwed'
    BY ZenonT(40), <1>1, <2>3, <2>4 DEF MutexWakeOwed
  <2>6. CondWakeOwed'
    BY <1>1, <2>3, <2>4, Zenon DEF CondWakeOwed, Asleep
  <2> QED
    BY <2>2, <2>5, <2>6, Zenon
<1> QED
  BY <1>6, <1>7, Zenon

\* A wake that takes the limit of one takes somebody; one that takes the limit
\* of all takes every sleeper, because the waker itself is awake.
LEMMA WakeTakes ==
  ASSUME NEW t \in Threads, NEW Z \in SUBSET (Threads \ {t}), NEW W \in SUBSET Z,
         NEW n, \/ Cardinality(W) = n
                \/ Cardinality(W) < n /\ W = Z
  PROVE  /\ n = 1 => W # {} \/ W = Z
         /\ n = All => W = Z
PROOF
<1>1. IsFiniteSet(Threads) /\ IsFiniteSet(Threads \ {t})
  BY ProgramAssumption, FS_RemoveElement, ZenonT(60)
<1>2. /\ Cardinality(Threads \ {t}) = Cardinality(Threads) - 1
      /\ Cardinality(Threads) \in Nat
  BY <1>1, FS_RemoveElement, FS_CardinalityType, Zenon
<1>3. IsFiniteSet(W) /\ Cardinality(W) <= Cardinality(Threads \ {t})
  BY <1>1, FS_Subset, Zenon
<1>4. Cardinality(W) \in Nat
  BY <1>3, FS_CardinalityType, Zenon
<1>5. n = 1 => W # {} \/ W = Z
  BY FS_EmptySet, SMT, SMTT(60)
<1>6. n = All => W = Z
  BY <1>2, <1>3, <1>4, SMT, SMTT(60) DEF All
<1> QED
  BY <1>5, <1>6, Zenon

LEMMA FutexWakeKeeps ==
  ASSUME IInv, NEW t \in Threads, FutexWake(t), UNCHANGED uvars
  PROVE  IInv'
PROOF
<1> USE DEF IInv
<1> DEFINE Z == Sleepers(call[t].key)
<1>1. /\ at[t] = "locked" /\ call[t].op = "wake" /\ pc' = pc /\ mem' = mem
      /\ UNCHANGED <<mem, frame, killed>>
  BY Zenon DEF FutexWake, uvars
<1>2. PICK W \in SUBSET Z :
        /\ \/ Cardinality(W) = call[t].arg
           \/ Cardinality(W) < call[t].arg /\ W = Z
        /\ Back(W \cup {t})
  BY Zenon DEF FutexWake
<1>3. Z \in SUBSET (Threads \ {t})
  BY <1>1, Zenon DEF Sleepers
<1>4. Z = Asleep(call[t].word)
  <2>1. call[t].key = [frame |-> frame, word |-> call[t].word]
    BY <1>1, Zenon DEF CallsMatch, CallOf
  <2>2. \A u \in Threads : at[u] = "asleep" =>
          call[u].key = [frame |-> frame, word |-> call[u].word]
    BY Zenon DEF CallsMatch, CallOf
  <2>3. \A u \in Threads : at[u] = "asleep" =>
          (call[u].key = call[t].key <=> call[u].word = call[t].word)
    <3> SUFFICES ASSUME NEW u \in Threads, at[u] = "asleep"
                 PROVE  call[u].key = call[t].key <=> call[u].word = call[t].word
      BY Zenon
    <3>1. call[u].key = [frame |-> frame, word |-> call[u].word]
      BY <2>2, Zenon
    <3>2. call[u].key.word = call[u].word /\ call[t].key.word = call[t].word
      BY <2>1, <3>1, SMT, SMTT(60)
    <3>3. call[u].word = call[t].word => call[u].key = call[t].key
      BY <2>1, <3>1, Zenon
    <3> QED
      BY <3>2, <3>3, Zenon
  <2>4. \A u \in Threads :
          call[u].key = call[t].key => BucketOf(call[u].key) = BucketOf(call[t].key)
    BY Zenon
  <2>5. Z = {u \in Threads : at[u] = "asleep" /\ call[u].key = call[t].key}
    <3>1. Z = {u \in Threads : /\ at[u] = "asleep"
                               /\ BucketOf(call[u].key) = BucketOf(call[t].key)
                               /\ call[u].key = call[t].key}
      BY Zenon DEF Sleepers
    <3> HIDE DEF Z
    <3> QED
      BY <2>4, <3>1, Zenon
  <2> QED
    BY ZenonT(40), <2>3, <2>5 DEF Asleep
<1>5. /\ call[t].arg = 1 => W # {} \/ W = Z
      /\ call[t].arg = All => W = Z
  BY ZenonT(40), <1>2, <1>3, WakeTakes
<1>6. Typed' /\ CallsMatch' /\ MutualExclusion' /\ FreeMeansFree'
  BY ZenonT(40), <1>1, <1>2, <1>3, BackKeeps
<1>7. /\ \A u \in W \cup {t} : at'[u] = "user" /\ call'[u].op = "none"
      /\ \A u \in Threads \ (W \cup {t}) : at'[u] = at[u] /\ call'[u] = call[u]
  BY <1>2, <1>3, BackFacts, ZenonT(60)
<1> HIDE DEF Z
<1>8. \A u \in W : at[u] = "asleep" /\ call[u].op = "wait" /\ call[u].word = call[t].word
  BY Zenon, <1>2, <1>4 DEF Asleep, CallsMatch, CallOf
<1>9. CASE call[t].word = Mutex
  <2>1. W # {} \/ W = Z
    BY Zenon, <1>1, <1>5, <1>9 DEF CallsMatch, CallOf
  <2>2. W # {} => MutexWakeOwed'
    <3> SUFFICES ASSUME NEW u \in W PROVE MutexWakeOwed'
      BY Zenon
    <3>1. u \in Threads /\ pc[u] = "swap" /\ at'[u] # "asleep"
      BY Zenon, <1>3, <1>7, <1>8, <1>9 DEF CallsMatch, CallOf
    <3> QED
      BY Zenon, <1>1, <3>1 DEF MutexWakeOwed
  <2>3. W = Z => MutexWakeOwed'
    <3> SUFFICES ASSUME W = Z PROVE MutexWakeOwed'
      BY Zenon
    <3>1. Asleep(Mutex)' = {}
      BY <1>4, <1>7, <1>9, SMT, SMTT(60) DEF Asleep
    <3> QED
      BY Zenon, <3>1 DEF MutexWakeOwed
  <2>4. MutexWakeOwed'
    BY ZenonT(40), <2>1, <2>2, <2>3
  <2>5. Asleep(Cond)' = Asleep(Cond) /\ Waking(Cond)' = Waking(Cond)
    BY <1>1, <1>7, <1>8, <1>9, ValueFacts, SMT, SMTT(60) DEF Asleep, Waking
  <2>6. \A u \in Asleep(Cond) : call'[u] = call[u]
    BY <1>1, <1>7, <1>8, <1>9, ValueFacts, Zenon DEF Asleep
  <2>7. CondWakeOwed'
    BY <1>1, <2>5, <2>6, Zenon DEF CondWakeOwed
  <2> QED
    BY <1>6, <2>4, <2>7, Zenon
<1>10. CASE call[t].word = Cond
  <2>1. W = Z
    BY ZenonT(40), <1>1, <1>5, <1>10 DEF CallsMatch, CallOf
  <2>2. Asleep(Cond)' = {}
    BY <1>4, <1>7, <1>10, <2>1, SMT, SMTT(60) DEF Asleep
  <2>3. CondWakeOwed'
    BY ZenonT(40), <2>2 DEF CondWakeOwed
  <2>4. Asleep(Mutex)' = Asleep(Mutex) /\ Waking(Mutex)' = Waking(Mutex)
    BY <1>1, <1>7, <1>8, <1>10, ValueFacts, SMT, SMTT(60) DEF Asleep, Waking
  <2>5. \A u \in Threads : at[u] # "asleep" => at'[u] # "asleep"
    BY <1>7, Zenon
  <2>6. MutexWakeOwed'
    BY <1>1, <2>4, <2>5, Zenon DEF MutexWakeOwed
  <2> QED
    BY <1>6, <2>3, <2>6, Zenon
<1> QED
  BY ZenonT(60), <1>1, <1>9, <1>10, ValueFacts DEF CallsMatch, CallOf

-----------------------------------------------------------------------------
LEMMA NextKeeps == IInv /\ [Next]_vars => IInv'
PROOF
<1> SUFFICES ASSUME IInv, [Next]_vars PROVE IInv'
  BY Zenon
<1>1. ASSUME NEW t \in Threads, UserStep(t) PROVE IInv'
  BY <1>1, MutexLockKeeps, MutexLockSlowKeeps, MutexUnlockKeeps, CondSleepKeeps,
     CondBroadcastKeeps, CriticalSteps, ZenonT(60) DEF UserStep
<1>2. ASSUME NEW t \in Threads, KernelStep(t) PROVE IInv'
  BY <1>2, FutexKeyKeeps, FutexWaitKeeps, FutexWakeKeeps, Zenon DEF KernelStep, FutexStep
<1>3. CASE Interrupt /\ UNCHANGED uvars
  BY <1>3, InterruptKeeps, Zenon
<1>4. CASE UNCHANGED vars
  <2>1. /\ mem' = mem /\ frame' = frame /\ at' = at /\ call' = call
        /\ pc' = pc /\ after' = after /\ seen' = seen
    BY <1>4, Zenon DEF vars, fvars, uvars
  <2>2. killed' = FALSE
    BY <1>4, Zenon DEF vars, fvars, IInv, Typed
  <2>3. Typed' /\ CallsMatch'
    BY Zenon, <2>1, <2>2 DEF IInv, Typed, CallsMatch, CallOf
  <2>4. MutualExclusion' /\ FreeMeansFree' /\ MutexWakeOwed' /\ CondWakeOwed'
    BY Zenon, <2>1 DEF IInv, MutualExclusion, FreeMeansFree, MutexWakeOwed, CondWakeOwed,
       Asleep, Waking
  <2> QED
    BY <2>3, <2>4, Zenon DEF IInv
<1> QED
  BY <1>1, <1>2, <1>3, <1>4, Zenon DEF Next, Step

LEMMA AlwaysIInv == Spec => []IInv
PROOF
BY InitIInv, NextKeeps, PTL DEF Spec

\* embk_mutex_lock and embk_mutex_unlock exclude: at most one thread is in its
\* critical section, for any number of threads and of spurious wake-ups.
THEOREM MutexExcludes == Spec => []MutualExclusion
PROOF
<1>1. IInv => MutualExclusion
  BY Zenon DEF IInv
<1> QED
  BY <1>1, AlwaysIInv, PTL

\* No wake-up of the mutex is lost: whoever sleeps on it is owed one, by the
\* word's state 2, by a wake in flight or by a thread awake on the contended path.
THEOREM MutexLosesNoWake == Spec => []MutexWakeOwed
PROOF
<1>1. IInv => MutexWakeOwed
  BY Zenon DEF IInv
<1> QED
  BY <1>1, AlwaysIInv, PTL

\* No signal is slept through: embk_cond_wait's sequence number and the compare
\* in futex_wait close the window between the unlock and the sleep.
THEOREM CondLosesNoWake == Spec => []CondWakeOwed
PROOF
<1>1. IInv => CondWakeOwed
  BY Zenon DEF IInv
<1> QED
  BY <1>1, AlwaysIInv, PTL
-----------------------------------------------------------------------------
(* The queue. *)

\* What the mutex protects: a copy of the queue is current while it is held, a
\* producer that has left has nothing more to put, a consumer about to take
\* finds an item.
Unfinished == {p \in Producers : rounds[p] # 0}

DataOK ==
  /\ rounds \in [Threads -> 0..PerProducer + 1]
  /\ left = Cardinality(Unfinished)
  /\ copy \in [Threads -> Seq(Items)]
  /\ queue \in Seq(Items) /\ consumed \in Seq(Items)
  /\ \A t \in Threads : pc[t] = "update" => copy[t] = queue
  /\ \A t \in Producers : rounds[t] = 0 =>
       \/ pc[t] = "unlock" /\ after[t] = "broadcast"
       \/ pc[t] \in {"broadcast", "done"}
  /\ \A t \in Consumers : pc[t] = "update" => queue # <<>>
  /\ ItemsConserved

DInv == IInv /\ DataOK

LEMMA AppendToFlow ==
  ASSUME NEW S, NEW c \in Seq(S), NEW q \in Seq(S), NEW x \in S
  PROVE  c \o Append(q, x) = Append(c \o q, x)
  BY SMT, SMTT(60)

LEMMA MoveInFlow ==
  ASSUME NEW S, NEW c \in Seq(S), NEW q \in Seq(S), q # <<>>
  PROVE  /\ Head(q) \in S /\ Tail(q) \in Seq(S)
         /\ Append(c, Head(q)) \o Tail(q) = c \o q
  BY SMT, SMTT(60)

LEMMA PutByFacts ==
  ASSUME DataOK, NEW p \in Producers
  PROVE  rounds[p] \in 0..PerProducer + 1 /\ PutBy(p) \in Nat /\ PutBy(p) <= PerProducer
  BY ProgramAssumption, SMT, SMTT(60) DEF DataOK, PutBy

LEMMA LeftIsNat ==
  ASSUME DataOK
  PROVE  IsFiniteSet(Unfinished) /\ left \in Nat
<1>1. Unfinished \subseteq Threads
  BY ProgramAssumption, Zenon DEF Unfinished
<1> QED
  BY <1>1, ProgramAssumption, FS_Subset, FS_CardinalityType, Zenon DEF DataOK

\* A producer's turn counts it out when it was its last.
LEMMA CountOut ==
  ASSUME DataOK, NEW t \in Producers, rounds[t] \in 1..PerProducer + 1,
         rounds' = [rounds EXCEPT ![t] = @ - 1],
         left' = IF rounds[t] > 1 THEN left ELSE left - 1
  PROVE  (left = Cardinality(Unfinished))'
<1>1. /\ rounds \in [Threads -> 0..PerProducer + 1] /\ t \in Unfinished
      /\ Producers \subseteq Threads /\ left = Cardinality(Unfinished)
  BY ProgramAssumption, SMT, SMTT(60) DEF DataOK, Unfinished
<1>2. CASE rounds[t] > 1
  <2>1. Unfinished' = Unfinished
    BY <1>1, <1>2, SMT, SMTT(60) DEF Unfinished
  <2> QED
    BY <1>1, <1>2, <2>1, Zenon
<1>3. CASE ~(rounds[t] > 1)
  <2>1. Unfinished' = Unfinished \ {t}
    BY <1>1, <1>3, SMT, SMTT(60) DEF Unfinished
  <2> QED
    BY <1>1, <1>3, <2>1, LeftIsNat, FS_RemoveElement, ZenonT(60)
<1> QED
  BY <1>2, <1>3, Zenon

\* What is conserved depends on the flow and on what the producers have put.
LEMMA SameFlow ==
  ASSUME ItemsConserved, Flow' = Flow,
         \A p \in Producers : \/ rounds'[p] = rounds[p]
                              \/ rounds[p] = 1 /\ rounds'[p] = 0
  PROVE  ItemsConserved'
<1>1. \A p \in Producers : PutBy(p)' = PutBy(p)
  BY Zenon DEF PutBy
<1>2. \A p \in Producers : \A n \in 1..PutBy(p)' :
        \E i \in 1..Len(Flow') : Flow'[i] = <<p, n>>
  BY <1>1, Zenon DEF ItemsConserved
<1>3. \A i \in 1..Len(Flow') :
        Flow'[i][1] \in Producers /\ Flow'[i][2] \in 1..PutBy(Flow[i][1])'
  <2> TAKE i \in 1..Len(Flow')
  <2>1. Flow[i][1] \in Producers /\ Flow[i][2] \in 1..PutBy(Flow[i][1])
    BY Zenon DEF ItemsConserved
  <2>2. PutBy(Flow[i][1])' = PutBy(Flow[i][1])
    BY <2>1, Zenon DEF PutBy
  <2> QED
    BY <2>1, <2>2, Zenon
<1>4. \A i, j \in 1..Len(Flow') :
        i < j /\ Flow'[i][1] = Flow'[j][1] => Flow'[i][2] < Flow'[j][2]
  BY Zenon DEF ItemsConserved
<1> QED
  BY <1>2, <1>3, <1>4, Zenon DEF ItemsConserved

\* A step that leaves the queue and the counts alone.
LEMMA QuietData ==
  ASSUME DataOK, UNCHANGED <<rounds, queue, consumed, left>>,
         copy' \in [Threads -> Seq(Items)],
         \A t \in Threads : pc'[t] = "update" =>
           \/ pc[t] = "update" /\ copy'[t] = copy[t]
           \/ copy'[t] = queue /\ (t \in Consumers => queue # <<>>),
         \A t \in Producers : rounds[t] = 0 =>
           \/ pc'[t] = "unlock" /\ after'[t] = "broadcast"
           \/ pc'[t] \in {"broadcast", "done"}
  PROVE  DataOK'
<1>2. Flow' = Flow
  BY Zenon DEF Flow
<1>3. ItemsConserved'
  BY <1>2, SameFlow, Zenon DEF DataOK
<1>4. Producers \subseteq Threads /\ Consumers \subseteq Threads
  BY ProgramAssumption, Zenon
<1>5. (left = Cardinality(Unfinished))'
  BY Zenon DEF DataOK, Unfinished
<1> QED
  BY <1>3, <1>4, <1>5, Zenon DEF DataOK

\* A producer's item goes to the end of the flow.
LEMMA ItemPut ==
  ASSUME DataOK, NEW t \in Producers, rounds[t] > 1,
         rounds' = [rounds EXCEPT ![t] = @ - 1],
         queue' = Append(queue, <<t, PerProducer + 2 - rounds[t]>>),
         consumed' = consumed
  PROVE  queue' \in Seq(Items) /\ ItemsConserved'
<1> DEFINE n == PerProducer + 2 - rounds[t]
<1>1. /\ t \in Threads /\ PerProducer \in Nat /\ rounds[t] \in 2..PerProducer + 1
      /\ rounds \in [Threads -> 0..PerProducer + 1]
  BY ProgramAssumption, PutByFacts, SMT, SMTT(60) DEF DataOK
<1>2. n \in 1..PerProducer /\ n = PutBy(t) + 1 /\ PutBy(t)' = n
  BY <1>1, SMT, SMTT(60) DEF PutBy
<1>3. \A p \in Producers \ {t} : PutBy(p)' = PutBy(p)
  BY <1>1, SMT, SMTT(60) DEF PutBy
<1>4. <<t, n>> \in Items
  BY <1>2, Zenon DEF Items
<1>5. queue \in Seq(Items) /\ consumed \in Seq(Items) /\ Flow \in Seq(Items)
  BY SMT, SMTT(60) DEF DataOK, Flow
<1>6. queue' \in Seq(Items)
  BY <1>4, <1>5, SMT, SMTT(60)
<1>7. Flow' = Append(Flow, <<t, n>>)
  BY <1>4, <1>5, AppendToFlow, SMT, SMTT(60) DEF Flow
<1>8. /\ Len(Flow') = Len(Flow) + 1 /\ Len(Flow) \in Nat
      /\ \A i \in 1..Len(Flow) : Flow'[i] = Flow[i]
      /\ Flow'[Len(Flow) + 1] = <<t, n>>
  BY <1>4, <1>5, <1>7, SMT, SMTT(60)
<1>9. \A p \in Producers : PutBy(p) \in Nat
  BY PutByFacts, Zenon
<1> HIDE DEF n
<1>10. \A p \in Producers : \A k \in 1..PutBy(p)' :
         \E i \in 1..Len(Flow') : Flow'[i] = <<p, k>>
  <2> SUFFICES ASSUME NEW p \in Producers, NEW k \in 1..PutBy(p)'
               PROVE  \E i \in 1..Len(Flow') : Flow'[i] = <<p, k>>
    BY Zenon DEF PutBy
  <2>1. CASE p = t /\ k = n
    BY <1>8, <2>1, SMT, SMTT(60)
  <2>2. CASE ~(p = t /\ k = n)
    <3>1. k \in 1..PutBy(p)
      BY <1>2, <1>3, <1>9, <2>2, SMT, SMTT(60)
    <3>2. PICK i \in 1..Len(Flow) : Flow[i] = <<p, k>>
      BY <3>1, Zenon DEF DataOK, ItemsConserved, PutBy
    <3> QED
      BY <1>8, <3>2, SMT, SMTT(60)
  <2> QED
    BY <2>1, <2>2, Zenon
<1>11. \A i \in 1..Len(Flow') :
         Flow'[i][1] \in Producers /\ Flow'[i][2] \in 1..PutBy(Flow[i][1])'
  <2> SUFFICES ASSUME NEW i \in 1..Len(Flow')
               PROVE  Flow'[i][1] \in Producers /\ Flow'[i][2] \in 1..PutBy(Flow[i][1])'
    BY ZenonT(60)
  <2>1. CASE i = Len(Flow) + 1
    BY <1>2, <1>8, <2>1, SMT, SMTT(60) DEF PutBy
  <2>2. CASE i \in 1..Len(Flow)
    <3>1. /\ Flow'[i] = Flow[i] /\ Flow[i][1] \in Producers
          /\ Flow[i][2] \in 1..PutBy(Flow[i][1])
      BY <1>8, <2>2, Zenon DEF DataOK, ItemsConserved
    <3> DEFINE p == Flow[i][1]
    <3>2. p = t => PutBy(t)' = PutBy(p) + 1
      BY <1>2, <3>1, Zenon
    <3> QED
      BY <1>2, <1>3, <1>9, <3>1, SMT, SMTT(60) DEF PutBy
  <2> QED
    BY <1>8, <2>1, <2>2, SMT, SMTT(60)
<1>12. \A i, j \in 1..Len(Flow') :
         i < j /\ Flow'[i][1] = Flow'[j][1] => Flow'[i][2] < Flow'[j][2]
  <2> SUFFICES ASSUME NEW i \in 1..Len(Flow'), NEW j \in 1..Len(Flow'),
                      i < j, Flow'[i][1] = Flow'[j][1]
               PROVE  Flow'[i][2] < Flow'[j][2]
    BY Zenon
  <2>1. i \in 1..Len(Flow) /\ Flow'[i] = Flow[i] /\ Flow[i][2] \in 1..PutBy(Flow[i][1])
    BY <1>8, SMT, SMTT(60) DEF DataOK, ItemsConserved
  <2>2. CASE j = Len(Flow) + 1
    BY <1>2, <1>8, <1>9, <2>1, <2>2, SMT, SMTT(60)
  <2>3. CASE j \in 1..Len(Flow)
    BY <1>8, <2>1, <2>3, Zenon DEF DataOK, ItemsConserved
  <2> QED
    BY <1>8, <2>2, <2>3, SMT, SMTT(60)
<1> QED
  BY <1>6, <1>10, <1>11, <1>12, ZenonT(60) DEF ItemsConserved, PutBy

\* A producer's last turn counts it out and puts nothing.
LEMMA LastTurn ==
  ASSUME DataOK, NEW t \in Producers, rounds[t] = 1,
         rounds' = [rounds EXCEPT ![t] = @ - 1], UNCHANGED <<queue, consumed>>
  PROVE  ItemsConserved'
<1>1. rounds \in [Threads -> 0..PerProducer + 1] /\ Producers \subseteq Threads
  BY ProgramAssumption, Zenon DEF DataOK
<1>2. \A p \in Producers : rounds'[p] = rounds[p] \/ (rounds[p] = 1 /\ rounds'[p] = 0)
  <2>1. rounds'[t] = 0 /\ \A p \in Threads \ {t} : rounds'[p] = rounds[p]
    BY <1>1, SMT, SMTT(60)
  <2> QED
    BY <1>1, <2>1, ZenonT(60)
<1>3. Flow' = Flow /\ ItemsConserved
  BY Zenon DEF Flow, DataOK
<1> QED
  BY <1>2, <1>3, SameFlow, ZenonT(60)

\* A consumer moves the first item of the queue; the flow stays.
LEMMA ItemTaken ==
  ASSUME DataOK, queue # <<>>, rounds' = rounds,
         queue' = Tail(queue), consumed' = Append(consumed, Head(queue))
  PROVE  queue' \in Seq(Items) /\ consumed' \in Seq(Items) /\ ItemsConserved'
<1>1. queue \in Seq(Items) /\ consumed \in Seq(Items) /\ ItemsConserved
  BY Zenon DEF DataOK
<1>2. queue' \in Seq(Items) /\ consumed' \in Seq(Items) /\ Flow' = Flow
  BY <1>1, MoveInFlow, SMT, SMTT(60) DEF Flow
<1> QED
  BY <1>1, <1>2, SameFlow, Zenon

\* The one thread in the update has a copy of the queue that is still current.
LEMMA UpdateData ==
  ASSUME DInv, NEW t \in Threads, Update(t)
  PROVE  DataOK'
<1>1. /\ pc[t] = "update" /\ pc' = [pc EXCEPT ![t] = "unlock"]
      /\ after' = [after EXCEPT ![t] = "broadcast"]
      /\ pc \in [Threads -> Locking \cup Holding \cup Released]
      /\ after \in [Threads -> Released]
      /\ MutualExclusion /\ DataOK
  BY Zenon DEF Update, InProgram, Go, DInv, IInv, Typed, Labels
<1>2. copy[t] = queue /\ \A u \in Threads : pc'[u] # "update"
  BY <1>1, Zenon DEF DataOK, MutualExclusion, Holding
<1>3. Producers \subseteq Threads /\ Consumers \subseteq Threads
  BY ProgramAssumption, Zenon
<1>4. pc'[t] = "unlock" /\ after'[t] = "broadcast"
  BY <1>1, Zenon
<1>5. copy' \in [Threads -> Seq(Items)]
  BY <1>1, SMT, SMTT(60) DEF Update, DataOK
<1>6. CASE Put(t)
  <2>1. t \in Producers /\ rounds[t] # 0
    BY <1>1, <1>6, Zenon DEF Put, DataOK
  <2>2. rounds[t] \in 1..PerProducer + 1
    BY <1>1, <2>1, PutByFacts, SMT, SMTT(60)
  <2>3. /\ rounds' = [rounds EXCEPT ![t] = @ - 1] /\ consumed' = consumed
        /\ rounds[t] > 1 => queue' = Append(queue, <<t, PerProducer + 2 - rounds[t]>>)
        /\ ~(rounds[t] > 1) => queue' = queue
    BY <1>2, <1>6, Zenon DEF Put
  <2>4. queue' \in Seq(Items) /\ ItemsConserved'
    <3>1. CASE rounds[t] > 1
      BY <1>1, <2>1, <2>3, <3>1, ItemPut, Zenon
    <3>2. CASE ~(rounds[t] > 1)
      <4>1. rounds[t] = 1
        BY <2>2, <3>2, SMT, SMTT(60)
      <4> QED
        BY <1>1, <2>1, <2>3, <3>2, <4>1, LastTurn, Zenon DEF DataOK
    <3> QED
      BY <3>1, <3>2, Zenon
  <2>5. rounds \in [Threads -> 0..PerProducer + 1] /\ consumed \in Seq(Items)
    BY <1>1, Zenon DEF DataOK
  <2>6. rounds' \in [Threads -> 0..PerProducer + 1]
    BY <2>2, <2>3, <2>5, ProgramAssumption, SMT, SMTT(60)
  <2>7. \A p \in Producers : rounds'[p] = 0 =>
          \/ pc'[p] = "unlock" /\ after'[p] = "broadcast"
          \/ pc'[p] \in {"broadcast", "done"}
    <3> SUFFICES ASSUME NEW p \in Producers, p # t, rounds'[p] = 0
                 PROVE  \/ pc'[p] = "unlock" /\ after'[p] = "broadcast"
                        \/ pc'[p] \in {"broadcast", "done"}
      BY <1>4, Zenon
    <3>1. rounds[p] = 0 /\ pc'[p] = pc[p] /\ after'[p] = after[p]
      BY <1>1, <1>3, <2>3, <2>5, Zenon
    <3> QED
      BY <1>1, <3>1, Zenon DEF DataOK
  <2>8. (left = Cardinality(Unfinished))'
    <3>1. left' = IF rounds[t] > 1 THEN left ELSE left - 1
      BY <1>6, Zenon DEF Put
    <3> QED
      BY <1>1, <2>1, <2>2, <2>3, <3>1, CountOut, Zenon
  <2> QED
    BY <1>2, <1>3, <1>5, <2>3, <2>4, <2>5, <2>6, <2>7, <2>8, ZenonT(60) DEF DataOK
<1>7. CASE Take(t)
  <2>1. queue # <<>>
    BY <1>1, <1>7, Zenon DEF Take, DataOK
  <2>2. /\ rounds' = rounds /\ queue' = Tail(queue)
        /\ consumed' = Append(consumed, Head(queue))
    BY <1>2, <1>7, Zenon DEF Take
  <2>3. queue' \in Seq(Items) /\ consumed' \in Seq(Items) /\ ItemsConserved'
    BY <1>1, <2>1, <2>2, ItemTaken, ZenonT(60)
  <2>4. \A p \in Producers : rounds'[p] = 0 =>
          \/ pc'[p] = "unlock" /\ after'[p] = "broadcast"
          \/ pc'[p] \in {"broadcast", "done"}
    BY <1>1, <1>3, <2>2, <1>4, ZenonT(60) DEF DataOK
  <2>5. (left = Cardinality(Unfinished))'
    BY <1>1, <1>7, Zenon DEF Take, DataOK, Unfinished
  <2> QED
    BY <1>1, <1>2, <1>3, <1>5, <2>2, <2>3, <2>4, <2>5, ZenonT(60) DEF DataOK
<1> QED
  BY <1>6, <1>7, Zenon DEF Update

\* The steps of a thread that leave the queue alone.
LEMMA OtherUserData ==
  ASSUME DInv, NEW t \in Threads, UserStep(t), ~Update(t)
  PROVE  DataOK'
<1>1. /\ pc \in [Threads -> Labels] /\ after \in [Threads -> Released]
      /\ copy \in [Threads -> Seq(Items)] /\ queue \in Seq(Items)
      /\ DataOK /\ Producers \subseteq Threads
      /\ Producers \cap Consumers = {} /\ Consumers \subseteq Threads
      /\ \A u \in Producers : rounds[u] = 0 =>
           \/ pc[u] = "unlock" /\ after[u] = "broadcast"
           \/ pc[u] \in {"broadcast", "done"}
  BY ProgramAssumption, Zenon DEF DInv, IInv, Typed, DataOK
<1> SUFFICES
      /\ UNCHANGED <<rounds, queue, consumed, left>>
      /\ copy' \in [Threads -> Seq(Items)]
      /\ \A u \in Threads : pc'[u] = "update" =>
           \/ pc[u] = "update" /\ copy'[u] = copy[u]
           \/ copy'[u] = queue /\ (u \in Consumers => queue # <<>>)
      /\ \A u \in Producers : rounds[u] = 0 =>
           \/ pc'[u] = "unlock" /\ after'[u] = "broadcast"
           \/ pc'[u] \in {"broadcast", "done"}
  BY <1>1, QuietData, Zenon
<1>2. CASE MutexLock(t)
  BY <1>1, <1>2, Zenon DEF MutexLock, InProgram, Go
<1>3. CASE MutexLockSlow(t)
  BY <1>1, <1>3, Zenon DEF MutexLockSlow, InProgram, Go
<1>4. CASE MutexUnlock(t)
  BY <1>1, <1>4, Zenon DEF MutexUnlock, InProgram, Go, Released
<1>5. CASE CondWait(t)
  BY <1>1, <1>5, Zenon DEF CondWait, InProgram, Go
<1>6. CASE CondSleep(t)
  BY <1>1, <1>6, Zenon DEF CondSleep, InProgram, Go
<1>7. CASE CondBroadcast(t)
  BY <1>1, <1>7, Zenon DEF CondBroadcast, InProgram, Go
<1>8. CASE Check(t)
  <2>1. /\ UNCHANGED <<rounds, queue, consumed, left>> /\ pc[t] = "check"
        /\ copy' \in [Threads -> Seq(Items)]
        /\ \A u \in Threads \ {t} :
             pc'[u] = pc[u] /\ copy'[u] = copy[u] /\ after'[u] = after[u]
    BY <1>1, <1>8, ZenonT(60) DEF Check, InProgram, Go
  <2>2. pc'[t] = "update" => copy'[t] = queue /\ (t \in Consumers => queue # <<>>)
    <3>1. SUFFICES ASSUME pc'[t] = "update"
                   PROVE  copy'[t] = queue /\ (t \in Consumers => queue # <<>>)
      BY Zenon
    <3>2. copy' = [copy EXCEPT ![t] = queue] /\ ~MustWait(t) /\ ~Finished(t)
      BY <1>1, <1>8, <3>1, Zenon DEF Check, Go
    <3>3. left \in Nat
      BY <1>1, LeftIsNat, Zenon
    <3> QED
      BY <1>1, <3>2, <3>3 DEF MustWait, Finished
  <2> QED
    BY <1>1, <2>1, <2>2, Zenon
<1> QED
  BY <1>2, <1>3, <1>4, <1>5, <1>6, <1>7, <1>8, ZenonT(60) DEF UserStep

LEMMA InitData == Init => DataOK
<1> SUFFICES ASSUME Init PROVE DataOK
  BY Zenon
<1>1. /\ PerProducer \in Nat /\ Producers \subseteq Threads /\ Consumers \subseteq Threads
      /\ queue = <<>> /\ consumed = <<>> /\ pc = [t \in Threads |-> "lock"]
      /\ rounds = [t \in Threads |-> IF t \in Producers THEN PerProducer + 1 ELSE 0]
  BY ProgramAssumption, Zenon DEF Init
<1>2. Flow = <<>> /\ \A p \in Producers : PutBy(p) = 0
  BY <1>1, SMT, SMTT(60) DEF Flow, PutBy
<1>3. ItemsConserved
  BY <1>2, SMT, SMTT(60) DEF ItemsConserved
<1>4. Unfinished = Producers
  BY <1>1, SMT, SMTT(60) DEF Unfinished
<1>5. copy \in [Threads -> Seq(Items)] /\ left = Cardinality(Producers)
  BY DEF Init
<1> QED
  BY <1>1, <1>3, <1>4, <1>5, SMT, SMTT(60) DEF DataOK

LEMMA DataKeeps == DInv /\ [Next]_vars => DInv'
<1> SUFFICES ASSUME DInv, [Next]_vars PROVE DInv'
  BY Zenon
<1>1. IInv'
  BY NextKeeps, Zenon DEF DInv
<1>2. ASSUME NEW t \in Threads, UserStep(t) PROVE DataOK'
  BY <1>2, UpdateData, OtherUserData, Zenon
<1>3. ASSUME UNCHANGED uvars PROVE DataOK'
  BY <1>3, QuietData, Zenon DEF uvars, DInv, DataOK
<1> QED
  BY <1>1, <1>2, <1>3, Zenon DEF DInv, Next, Step, KernelStep, vars

\* lockdemo.c, "Every item produced was consumed exactly once": under the mutex
\* and the condition of embk.h no item of the bounded queue is lost, duplicated or
\* reordered within its producer, for any number of threads and items.
THEOREM ItemsNeverLost == Spec => []ItemsConserved
<1>1. Init => DInv
  BY InitIInv, InitData, Zenon DEF DInv
<1>2. DInv => ItemsConserved
  BY Zenon DEF DInv, DataOK
<1> QED
  BY <1>1, <1>2, DataKeeps, PTL DEF Spec
=============================================================================
