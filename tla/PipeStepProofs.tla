---------------------------- MODULE PipeStepProofs ----------------------------
(***************************************************************************)
(* Steps of Pipe that keep its invariant: how the holders of an end are    *)
(* counted, what settling references preserves, and then the calls on      *)
(* descriptors, reads and writes, spawns and the ends of processes.        *)
(***************************************************************************)
EXTENDS PipeInv, FiniteSetTheorems, TLAPS

(* Counting holders. *)

\* Two finite sets that agree except perhaps on one element.
LEMMA OneElement ==
  ASSUME NEW S, NEW S2, NEW x, IsFiniteSet(S),
         \A y \in S : y # x => y \in S2,
         \A y \in S2 : y # x => y \in S
  PROVE  /\ IsFiniteSet(S2)
         /\ Cardinality(S2) = Cardinality(S) - Among(x, S) + Among(x, S2)
<1> DEFINE R == S \ {x}
<1>1. /\ IsFiniteSet(R) /\ Cardinality(R) \in Nat
      /\ Cardinality(S) = Cardinality(R) + Among(x, S)
  BY FS_RemoveElement, FS_CardinalityType, FS_Subset, SMT, SMTT(60) DEF Among
<1>2. CASE x \in S2
  <2>1. S2 = R \cup {x} /\ x \notin R
    BY <1>2, Zenon
  <2> QED
    BY <1>1, <1>2, <2>1, FS_AddElement, SMT, SMTT(60) DEF Among
<1>3. CASE x \notin S2
  <2>1. S2 = R
    BY <1>3, Zenon
  <2> QED
    BY <1>1, <1>3, <2>1, SMT, SMTT(60) DEF Among
<1> QED
  BY <1>2, <1>3, Zenon

LEMMA HolderSets ==
  ASSUME NEW e
  PROVE  /\ IsFiniteSet(FdHolders(e)) /\ IsFiniteSet(HandleHolders(e))
         /\ IsFiniteSet(HoldingThreads(e))
         /\ Cardinality(FdHolders(e)) \in Nat
         /\ Cardinality(HandleHolders(e)) \in Nat
         /\ Cardinality(HoldingThreads(e)) \in Nat
         /\ Holders(e) = Cardinality(FdHolders(e)) + Cardinality(HandleHolders(e))
                           + Cardinality(HoldingThreads(e))
         /\ Holders(e) \in Nat
<1>1. IsFiniteSet(Procs \X Fds)
  BY PipeAssumption, FS_Product, Zenon
<1>2. /\ FdHolders(e) \subseteq Procs \X Fds /\ HandleHolders(e) \subseteq Procs
      /\ HoldingThreads(e) \subseteq Threads
  BY Zenon DEF FdHolders, HandleHolders, HoldingThreads
<1>3. /\ IsFiniteSet(FdHolders(e)) /\ IsFiniteSet(HandleHolders(e))
      /\ IsFiniteSet(HoldingThreads(e))
  BY <1>1, <1>2, PipeAssumption, FS_Subset, Zenon
<1>4. /\ Cardinality(FdHolders(e)) \in Nat
      /\ Cardinality(HandleHolders(e)) \in Nat
      /\ Cardinality(HoldingThreads(e)) \in Nat
  BY <1>3, FS_CardinalityType, Zenon
<1>5. Holders(e) = Cardinality(FdHolders(e)) + Cardinality(HandleHolders(e))
                     + Cardinality(HoldingThreads(e))
  BY Zenon DEF Holders, FdHolders, HandleHolders
<1> QED
  BY <1>3, <1>4, <1>5, SMT, SMTT(60)

\* Whoever holds an end is counted.
LEMMA Held ==
  ASSUME NEW e, \/ FdHolders(e) # {} \/ HandleHolders(e) # {}
                \/ HoldingThreads(e) # {}
  PROVE  Holders(e) > 0
<1>1. \A S : IsFiniteSet(S) /\ S # {} => Cardinality(S) > 0
  <2> SUFFICES ASSUME NEW S, IsFiniteSet(S), S # {} PROVE Cardinality(S) > 0
    BY Zenon
  <2>1. Cardinality(S) \in Nat /\ Cardinality(S) # 0
    BY FS_CardinalityType, FS_EmptySet, Zenon
  <2> QED
    BY <2>1, SMT, SMTT(60)
<1> QED
  BY <1>1, HolderSets, SMT, SMTT(60)

\* Holders whose tables or places have not changed.
LEMMA SameHolders ==
  ASSUME NEW e
  PROVE  /\ UNCHANGED fds => FdHolders(e)' = FdHolders(e)
         /\ UNCHANGED handles => HandleHolders(e)' = HandleHolders(e)
         /\ UNCHANGED <<pc, end>> => HoldingThreads(e)' = HoldingThreads(e)
  BY Zenon DEF FdHolders, HandleHolders, HoldingThreads

LEMMA HoldersNext ==
  ASSUME NEW e
  PROVE  Holders(e)' = Cardinality(FdHolders(e)') + Cardinality(HandleHolders(e)')
                         + Cardinality(HoldingThreads(e)')
  BY Zenon DEF Holders, FdHolders, HandleHolders

LEMMA FdStep ==
  ASSUME TypeOK, NEW q \in Procs, NEW d \in Fds, NEW x, SetFd(q, d, x), NEW e
  PROVE  Cardinality(FdHolders(e)') =
           Cardinality(FdHolders(e)) - Is(fds[q][d], e) + Is(x, e)
<1>1. /\ fds \in [Procs -> [Fds -> Ends \cup {None}]]
      /\ fds' = [fds EXCEPT ![q] = [fds[q] EXCEPT ![d] = x]]
  BY Zenon DEF TypeOK, SetFd
<1>2. \A q2 \in Procs, d2 \in Fds :
        fds'[q2][d2] = IF q2 = q /\ d2 = d THEN x ELSE fds[q2][d2]
  BY <1>1, Zenon
<1>3. \A y \in Procs \X Fds : y # <<q, d>> => fds'[y[1]][y[2]] = fds[y[1]][y[2]]
  BY <1>2
<1>4. /\ Among(<<q, d>>, FdHolders(e)) = Is(fds[q][d], e)
      /\ Among(<<q, d>>, FdHolders(e)') = Is(x, e)
  BY <1>2, Zenon DEF Among, Is, FdHolders
<1>5. /\ \A y \in FdHolders(e) : y # <<q, d>> => y \in FdHolders(e)'
      /\ \A y \in FdHolders(e)' : y # <<q, d>> => y \in FdHolders(e)
  BY <1>3, Zenon DEF FdHolders
<1> HIDE DEF FdHolders
<1> QED
  BY <1>4, <1>5, OneElement, HolderSets, Zenon

LEMMA HandleStep ==
  ASSUME TypeOK, NEW q \in Procs, NEW H, SetHandles(q, H), NEW e
  PROVE  Cardinality(HandleHolders(e)') =
           Cardinality(HandleHolders(e)) - Among(e, handles[q]) + Among(e, H)
<1>1. \A q2 \in Procs : handles'[q2] = IF q2 = q THEN H ELSE handles[q2]
  BY Zenon DEF TypeOK, SetHandles
<1>2. /\ Among(q, HandleHolders(e)) = Among(e, handles[q])
      /\ Among(q, HandleHolders(e)') = Among(e, H)
  BY <1>1, Zenon DEF Among, HandleHolders
<1>3. /\ \A y \in HandleHolders(e) : y # q => y \in HandleHolders(e)'
      /\ \A y \in HandleHolders(e)' : y # q => y \in HandleHolders(e)
  BY <1>1, Zenon DEF HandleHolders
<1> QED
  BY <1>2, <1>3, OneElement, HolderSets, SMT, SMTT(60)

LEMMA ThreadStep ==
  ASSUME NEW t, \A u \in Threads \ {t} : pc'[u] = pc[u] /\ end'[u] = end[u], NEW e
  PROVE  Cardinality(HoldingThreads(e)') =
           Cardinality(HoldingThreads(e)) - Among(t, HoldingThreads(e))
             + Among(t, HoldingThreads(e)')
<1>1. /\ \A y \in HoldingThreads(e) : y # t => y \in HoldingThreads(e)'
      /\ \A y \in HoldingThreads(e)' : y # t => y \in HoldingThreads(e)
  BY Zenon DEF HoldingThreads
<1> QED
  BY <1>1, OneElement, HolderSets, Zenon

\* The ends that a thread in a call holds.
LEMMA ThreadHolds ==
  ASSUME NEW t \in Threads, EndOK(t)
  PROVE  /\ pc[t] \in Loans \cup {"makeW", "makeFail"} =>
              end[t] \in Ends /\ t \in HoldingThreads(end[t])
         /\ pc[t] = "makeR" => end[t] \in Ends /\ \A s \in Sides :
              t \in HoldingThreads(EndOf(end[t].pipe, s))
  BY Zenon DEF EndOK, HoldingThreads, Loans, Making, BeforeHandle, EndOf

LEMMA EndFacts ==
  /\ \A p \in Pipes, s \in Sides :
       /\ EndOf(p, s) \in Ends /\ EndOf(p, s).pipe = p /\ EndOf(p, s).side = s
  /\ \A e \in Ends : e.pipe \in Pipes /\ e.side \in Sides /\ e = EndOf(e.pipe, e.side)
  BY DEF Ends, EndOf

LEMMA CountOne ==
  ASSUME NEW S, IsFiniteSet(S)
  PROVE  Cardinality(S) \in Nat /\ (Cardinality(S) = 0 <=> S = {})
  BY FS_CardinalityType, FS_EmptySet, Zenon

\* An end with one holder, who is a thread, is in no table.
LEMMA SoleHolder ==
  ASSUME RefsExact, NEW p \in Pipes, NEW s \in Sides, refs[p][s] = 1,
         NEW u \in HoldingThreads(EndOf(p, s))
  PROVE  FdHolders(EndOf(p, s)) = {} /\ HandleHolders(EndOf(p, s)) = {}
<1> DEFINE e == EndOf(p, s)
<1>1. Holders(e) = 1
  BY Zenon DEF RefsExact
<1>2. Cardinality(HoldingThreads(e)) # 0
  BY CountOne, HolderSets, Zenon
<1>3. Cardinality(FdHolders(e)) = 0 /\ Cardinality(HandleHolders(e)) = 0
  <2> HIDE DEF e
  <2> QED
    BY <1>1, <1>2, HolderSets, SMT, SMTT(60)
<1> QED
  BY <1>3, CountOne, HolderSets, Zenon

LEMMA HoldCounts ==
  ASSUME NEW t \in Threads, NEW e
  PROVE  /\ Among(t, HoldingThreads(e)) = Hold(t, e)
         /\ Among(t, HoldingThreads(e)') = Hold(t, e)'
         /\ Hold(t, e) \in {0, 1} /\ Hold(t, e)' \in {0, 1}
  BY Zenon DEF Among, Hold, HoldingThreads, Loans, Is

LEMMA ThreadDelta ==
  ASSUME NEW t \in Threads, Still(t), UNCHANGED <<fds, handles>>, NEW e
  PROVE  Holders(e)' = Holders(e) - Hold(t, e) + Hold(t, e)'
<1>1. Cardinality(HoldingThreads(e)') =
        Cardinality(HoldingThreads(e)) - Hold(t, e) + Hold(t, e)'
  BY ThreadStep, HoldCounts, SMT, SMTT(60) DEF Still
<1>2. /\ Cardinality(FdHolders(e)') = Cardinality(FdHolders(e))
      /\ Cardinality(HandleHolders(e)') = Cardinality(HandleHolders(e))
  BY SameHolders, Zenon
<1> QED
  BY <1>1, <1>2, HolderSets, HoldersNext, HoldCounts, SMT, SMTT(60)

LEMMA FdDelta ==
  ASSUME TypeOK, NEW t \in Threads, Still(t), UNCHANGED handles,
         NEW q \in Procs, NEW d \in Fds, NEW x, SetFd(q, d, x), NEW e
  PROVE  Holders(e)' = Holders(e) - Is(fds[q][d], e) + Is(x, e)
                         - Hold(t, e) + Hold(t, e)'
<1>1. Cardinality(HoldingThreads(e)') =
        Cardinality(HoldingThreads(e)) - Hold(t, e) + Hold(t, e)'
  BY ThreadStep, HoldCounts, SMT, SMTT(60) DEF Still
<1>2. /\ Cardinality(FdHolders(e)') =
           Cardinality(FdHolders(e)) - Is(fds[q][d], e) + Is(x, e)
      /\ Is(fds[q][d], e) \in {0, 1} /\ Is(x, e) \in {0, 1}
  BY FdStep, SMT, SMTT(60) DEF Is
<1>3. Cardinality(HandleHolders(e)') = Cardinality(HandleHolders(e))
  BY SameHolders, Zenon
<1> QED
  BY <1>1, <1>2, <1>3, HolderSets, HoldersNext, HoldCounts, SMT, SMTT(60)

\* The references of an end, as a count.
LEMMA OneFacts ==
  /\ Nothing \in RefCounts
  /\ \A p \in Pipes, s \in Sides : Nothing[p][s] = 0
  /\ \A e : One(e) \in RefCounts
  /\ \A e : \A p \in Pipes, s \in Sides : One(e)[p][s] = Is(e, EndOf(p, s))
  /\ \A p \in Pipes : Both(p) \in RefCounts
  /\ \A p, p2 \in Pipes, s \in Sides : Both(p2)[p][s] = Is(p2, p)
  BY Zenon DEF Nothing, One, Both, Is, RefCounts

-----------------------------------------------------------------------------
(* What settling references preserves. *)

\* A step of t that neither starts to make a pipe, gets its first handle, looks a
\* handle up nor begins a spawn cannot bring it into another thread's way.
LEMMA ApartKeeps ==
  ASSUME IInv, NEW t \in Threads, Still(t),
         pc'[t] \in Making => pc[t] \in Making /\ end'[t].pipe = end[t].pipe,
         pc'[t] \in WithHandle => pc[t] \in WithHandle,
         pc'[t] = "install" => pc[t] = "install" /\ end'[t] = end[t],
         child'[t] \in {child[t], None}
  PROVE  \A u, v \in Threads : u # v => Apart(u, v)'
<1> SUFFICES ASSUME NEW u \in Threads, NEW v \in Threads, u # v PROVE Apart(u, v)'
  BY Zenon
<1>1. Apart(u, v) /\ Apart(v, u)
  BY Zenon DEF IInv, Calling
<1>2. CASE u # t /\ v # t
  BY <1>1, <1>2, Zenon DEF Still, Apart, MakingOn
<1>3. CASE u = t
  BY <1>1, <1>3, Zenon DEF Still, Apart, MakingOn
<1>4. CASE v = t
  <2>1. /\ pc'[u] = pc[u] /\ end'[u] = end[u] /\ child'[u] = child[u]
    BY <1>4, Zenon DEF Still
  <2>2. WithHandle \subseteq Making
    BY Zenon DEF Making
  <2> QED
    BY <1>1, <1>4, <2>1, <2>2, Zenon DEF Apart, MakingOn
<1> QED
  BY <1>2, <1>3, <1>4, Zenon

LEMMA CallingKeeps ==
  ASSUME IInv, NEW t, Still(t), t \notin asleep, asleep' \subseteq asleep,
         \A u, v \in Threads : u # v => Apart(u, v)',
         \A u \in Threads \ {t} : FreshOK(u)' /\ HandlesOK(u)' /\ ProcOK(u)',
         t \in Threads => ThreadOK(t)'
  PROVE  Calling'
<1>1. \A u \in Threads \ {t} : EndOK(u)'
  BY Zenon DEF IInv, Calling, Still, EndOK
<1>2. \A u \in Threads : (EndOK(u) /\ ProcOK(u) /\ HandlesOK(u) /\ FreshOK(u))'
  BY <1>1, Zenon DEF ThreadOK
<1>3. \A u \in asleep' : pc'[u] \in {"read", "write"}
  BY Zenon DEF IInv, Calling, Still, TypeOK
<1> QED
  BY <1>2, <1>3, Zenon DEF Calling

LEMMA ElsewhereKept ==
  ASSUME IInv, NEW t, Still(t), NEW u \in Threads \ {t}
  PROVE  /\ UNCHANGED handles => HandlesOK(u)'
         /\ UNCHANGED life => ProcOK(u)'
  BY SMT, SMTT(60) DEF IInv, Calling, Still, HandlesOK, ProcOK

\* The step of a thread that is not asleep and settles references, given what it does
\* to the thread itself and to the tables.
LEMMA StepKeeps ==
  \A t : \A drop, take \in RefCounts :
    /\ IInv /\ Still(t) /\ t \notin asleep /\ Settle(drop, take) /\ Moves(drop, take)
    /\ Backed(drop, take) /\ UNCHANGED <<count, cancelled>> /\ RestTyped'
    /\ \A u, v \in Threads : u # v => Apart(u, v)'
    /\ \A u \in Threads \ {t} : HandlesOK(u)' /\ ProcOK(u)'
    /\ t \in Threads => ThreadOK(t)'
    => IInv' /\ NotRevived
<1>CountsNext.
      ASSUME NEW e
      PROVE  /\ Cardinality(FdHolders(e)') \in Nat /\ Cardinality(HandleHolders(e)') \in Nat
             /\ Cardinality(HoldingThreads(e)') \in Nat
  <2> USE <1>CountsNext
  <2>1. IsFiniteSet(Procs \X Fds)
    BY PipeAssumption, FS_Product, Zenon
  <2>2. /\ FdHolders(e)' \subseteq Procs \X Fds /\ HandleHolders(e)' \subseteq Procs
        /\ HoldingThreads(e)' \subseteq Threads
    BY Zenon DEF FdHolders, HandleHolders, HoldingThreads
  <2> QED
    BY <2>1, <2>2, PipeAssumption, FS_Subset, FS_CardinalityType, ZenonT(60)
<1>HeldNext.
      ASSUME NEW e, NEW t \in HoldingThreads(e)'
      PROVE  Holders(e)' \in Nat /\ Holders(e)' > 0
  <2> USE <1>HeldNext
  <2>1. IsFiniteSet(HoldingThreads(e)')
    <3>1. HoldingThreads(e)' \subseteq Threads
      BY Zenon DEF HoldingThreads
    <3> QED
      BY <3>1, PipeAssumption, FS_Subset, Zenon
  <2>2. Cardinality(HoldingThreads(e)') # 0
    BY <2>1, FS_EmptySet, Zenon
  <2> QED
    BY <2>2, HoldersNext, <1>CountsNext, SMT, SMTT(60)
<1>SomeLeft.
      \A r, d, n \in Nat :
        d <= r /\ (r - d # 0 \/ (d = 0 /\ r # 0)) => r - d + n # 0
  OBVIOUS
<1>SettleCounts.
      ASSUME IInv, NEW drop \in RefCounts, NEW take \in RefCounts, Settle(drop, take),
             Moves(drop, take), Backed(drop, take)
      PROVE  /\ refs' \in RefCounts /\ used' \in [Pipes -> BOOLEAN] /\ RefsExact'
             /\ NotRevived
             /\ \A p \in Pipes, s \in Sides :
                  /\ refs'[p][s] = refs[p][s] - drop[p][s] + take[p][s]
                  /\ drop[p][s] <= refs[p][s]
  <2> USE <1>SettleCounts
  <2>1. /\ refs \in RefCounts /\ used \in [Pipes -> BOOLEAN]
        /\ \A p \in Pipes, s \in Sides : refs[p][s] = Holders(EndOf(p, s))
        /\ \A p \in Pipes : used[p] <=> \E s \in Sides : refs[p][s] # 0
    BY Zenon DEF IInv, TypeOK, RefsExact, RefCounts
  <2>2. /\ \A p \in Pipes, s \in Sides :
             refs'[p][s] = refs[p][s] - drop[p][s] + take[p][s]
        /\ refs' = [p \in Pipes |-> [s \in Sides |->
                      refs[p][s] - drop[p][s] + take[p][s]]]
    BY Zenon DEF Settle
  <2>3. \A p \in Pipes, s \in Sides : Holders(EndOf(p, s))' \in Nat
    BY HoldersNext, <1>CountsNext, SMT, SMTT(60)
  <2>4. \A p \in Pipes, s \in Sides :
          /\ refs[p][s] \in Nat /\ drop[p][s] \in Nat /\ take[p][s] \in Nat
          /\ refs'[p][s] = Holders(EndOf(p, s))'
          /\ refs'[p][s] \in Nat
          /\ drop[p][s] <= refs[p][s]
    <3> TAKE p \in Pipes, s \in Sides
    <3>1. refs[p][s] \in Nat /\ drop[p][s] \in Nat /\ take[p][s] \in Nat
      BY <2>1, Zenon DEF RefCounts
    <3>2. refs'[p][s] = Holders(EndOf(p, s))' /\ refs'[p][s] \in Nat
      BY <2>1, <2>2, <2>3, SMT, SMTT(60) DEF Moves
    <3>3. take[p][s] # 0 => drop[p][s] < refs[p][s]
      BY Zenon DEF Backed
    <3> QED
      BY <2>2, <3>1, <3>2, <3>3, SMT, SMTT(60)
  <2>5. refs' \in RefCounts
    BY <2>2, <2>4, Zenon DEF RefCounts
  <2>6. /\ used' \in [Pipes -> BOOLEAN]
        /\ \A p \in Pipes : used'[p] <=>
             /\ used[p]
             /\ \/ \A s \in Sides : drop[p][s] = 0
                \/ \E s \in Sides : refs[p][s] - drop[p][s] # 0
    BY Zenon DEF Settle
  <2>7. \A p \in Pipes : used'[p] <=> \E s \in Sides : refs'[p][s] # 0
    <3> TAKE p \in Pipes
    <3>1. ASSUME used'[p] PROVE \E s \in Sides : refs'[p][s] # 0
      <4>1. CASE \A s \in Sides : drop[p][s] = 0
        <5>1. PICK s \in Sides : refs[p][s] # 0
          BY <2>1, <2>6, <3>1, Zenon
        <5> QED
          BY <2>2, <2>4, <4>1, <5>1, SMT, SMTT(60)
      <4>2. CASE \E s \in Sides : refs[p][s] - drop[p][s] # 0
        <5>1. PICK s \in Sides : refs[p][s] - drop[p][s] # 0
          BY <4>2, Zenon
        <5> QED
          BY <2>2, <2>4, <5>1, <1>SomeLeft, ZenonT(60)
      <4> QED
        BY <2>6, <3>1, <4>1, <4>2, ZenonT(60)
    <3>2. ASSUME NEW s \in Sides, refs'[p][s] # 0 PROVE used'[p]
      <4>1. CASE take[p][s] # 0
        <5>1. drop[p][s] < refs[p][s]
          BY <4>1, Zenon DEF Backed
        <5>2. refs[p][s] - drop[p][s] # 0 /\ refs[p][s] # 0
          BY <2>4, <5>1, SMT, SMTT(60)
        <5> QED
          BY <2>1, <2>6, <5>2, Zenon
      <4>2. CASE take[p][s] = 0
        <5>1. refs[p][s] - drop[p][s] # 0 /\ refs[p][s] # 0
          BY <2>2, <2>4, <3>2, <4>2, SMT, SMTT(60)
        <5> QED
          BY <2>1, <2>6, <5>1, Zenon
      <4> QED
        BY <4>1, <4>2, Zenon
    <3> QED
      BY <3>1, <3>2, Zenon
  <2>8. RefsExact'
    BY <2>4, <2>7, ZenonT(60) DEF RefsExact
  <2>9. NotRevived
    <3> SUFFICES ASSUME NEW p \in Pipes, NEW s \in Sides, refs[p][s] = 0
                 PROVE  refs'[p][s] = 0
      BY Zenon DEF NotRevived
    <3>1. take[p][s] = 0
      BY <2>4, SMT, SMTT(60) DEF Backed
    <3> QED
      BY <2>2, <2>4, <3>1, SMT, SMTT(60)
  <2> QED
    BY <2>2, <2>4, <2>5, <2>6, <2>8, <2>9, ZenonT(60)
<1>SettleSleepers.
      ASSUME IInv, NEW drop \in RefCounts, NEW take \in RefCounts, Settle(drop, take),
             Moves(drop, take), Backed(drop, take), UNCHANGED <<count, cancelled>>,
             NEW t, t \notin asleep, Still(t)
      PROVE  asleep' \subseteq asleep /\ SleepIsJustified'
  <2> USE <1>SettleSleepers
  <2>1. asleep' \subseteq asleep
    BY Zenon DEF Settle
  <2>2. asleep \subseteq Threads /\ refs \in RefCounts
    BY Zenon DEF IInv, TypeOK, RefCounts
  <2> SUFFICES ASSUME NEW u \in asleep'
               PROVE  /\ used'[end'[u].pipe]
                      /\ ~cancelled'[ProcOf[u]]
                      /\ pc'[u] = "read" =>
                           count'[end'[u].pipe] = 0 /\ refs'[end'[u].pipe].w # 0
                      /\ pc'[u] = "write" =>
                           /\ MustWait(end[u].pipe, args[u].len)'
                           /\ refs'[end'[u].pipe].r # 0
    BY <2>1, Zenon DEF SleepIsJustified
  <2>3. /\ u \in Threads \ {t} /\ u \in asleep /\ pc'[u] = pc[u] /\ end'[u] = end[u]
        /\ args'[u] = args[u] /\ pc[u] \in {"read", "write"} /\ EndOK(u)
    BY <2>1, <2>2, Zenon DEF Still, IInv, Calling
  <2>4. PICK e \in Ends : e = end[u]
    BY <2>3, Zenon DEF EndOK, Loans
  <2>5. PICK p \in Pipes, s \in Sides : p = e.pipe /\ s = Other(e.side)
    BY EndFacts, Zenon DEF Other, Sides
  <2>6. /\ pc[u] = "read" => s = "w"
        /\ pc[u] = "write" => s = "r"
    BY <2>3, <2>4, <2>5, Zenon DEF EndOK, Other
  <2>7. used'[p]
    <3>1. u \in HoldingThreads(e)'
      BY <2>3, <2>4, Zenon DEF HoldingThreads
    <3>2. Holders(e)' # 0
      BY <3>1, <1>HeldNext, SMT, SMTT(60)
    <3>3. e.side \in Sides /\ e = EndOf(p, e.side)
      BY <2>5, EndFacts, Zenon
    <3> QED
      BY <3>2, <3>3, <1>SettleCounts, ZenonT(60) DEF RefsExact
  <2>8. /\ ~cancelled[ProcOf[u]]
        /\ pc[u] = "read" => count[p] = 0 /\ refs[p]["w"] # 0
        /\ pc[u] = "write" => MustWait(p, args[u].len) /\ refs[p]["r"] # 0
    BY <2>3, <2>4, <2>5, Zenon DEF IInv, SleepIsJustified
  <2>9. refs'[p][s] # 0
    <3>1. /\ refs'[p][s] = refs[p][s] - drop[p][s] + take[p][s]
          /\ drop[p][s] <= refs[p][s]
      BY <1>SettleCounts, Zenon
    <3>4. refs[p][s] \in Nat /\ drop[p][s] \in Nat /\ take[p][s] \in Nat
      BY <2>2, Zenon DEF RefCounts
    <3>2. drop[p][s] = 0 \/ refs[p][s] - drop[p][s] # 0
      BY <2>4, <2>5, Zenon DEF Settle
    <3>3. refs[p][s] # 0
      BY <2>3, <2>6, <2>8, Zenon
    <3> QED
      BY <3>1, <3>2, <3>3, <3>4, <1>SomeLeft, Zenon
  <2> QED
    BY <2>3, <2>4, <2>5, <2>6, <2>7, <2>8, <2>9, ZenonT(60) DEF MustWait
<1>OneLeft.
      \A r, d, n, x : d \in Nat /\ r = 1 /\ n = 0 /\ x = r - d + n /\ d <= r /\ x # 0 =>
        x = 1
  OBVIOUS
<1>SoleKept.
      ASSUME IInv, NEW drop \in RefCounts, NEW take \in RefCounts, Settle(drop, take),
             Moves(drop, take), Backed(drop, take),
             NEW p \in Pipes, NEW s \in Sides, refs[p][s] = 1,
             NEW u \in HoldingThreads(EndOf(p, s)), u \in HoldingThreads(EndOf(p, s))'
      PROVE  refs'[p][s] = 1
  <2> USE <1>SoleKept
  <2>1. take[p][s] = 0
    BY SoleHolder, Zenon DEF IInv, Backed
  <2>2. /\ refs'[p][s] = refs[p][s] - drop[p][s] + take[p][s]
        /\ drop[p][s] <= refs[p][s] /\ RefsExact'
    BY <1>SettleCounts, Zenon
  <2>5. refs'[p][s] = Holders(EndOf(p, s))'
    BY <2>2, Zenon DEF RefsExact
  <2>3. Holders(EndOf(p, s))' # 0
    BY <1>HeldNext, SMT, SMTT(60)
  <2>4. drop[p][s] \in Nat
    BY Zenon DEF RefCounts
  <2> QED
    BY <2>1, <2>2, <2>3, <2>4, <2>5, <1>OneLeft, ZenonT(60)
<1>FreshKeeps.
      ASSUME IInv, NEW drop \in RefCounts, NEW take \in RefCounts, Settle(drop, take),
             Moves(drop, take), Backed(drop, take),
             NEW t, Still(t), NEW u \in Threads \ {t}
      PROVE  FreshOK(u)'
  <2> USE <1>FreshKeeps
  <2>1. pc'[u] = pc[u] /\ end'[u] = end[u] /\ EndOK(u) /\ FreshOK(u)
    BY Zenon DEF Still, IInv, Calling
  <2>2. CASE pc[u] \notin {"makeR", "makeW"}
    BY <2>1, <2>2, Zenon DEF FreshOK
  <2>3. CASE pc[u] \in {"makeR", "makeW"}
    <3>1. PICK e \in Ends : e = end[u]
      BY <2>1, <2>3, Zenon DEF EndOK, Making, BeforeHandle
    <3>2. e.pipe \in Pipes /\ e = EndOf(e.pipe, e.side)
      BY EndFacts, Zenon
    <3>3. CASE pc[u] = "makeR"
      <4>1. ASSUME NEW s \in Sides PROVE refs'[e.pipe][s] = 1
        <5>1. /\ u \in HoldingThreads(EndOf(e.pipe, s))
              /\ u \in HoldingThreads(EndOf(e.pipe, s))'
          BY <2>1, <3>1, <3>2, <3>3, EndFacts, SMT, SMTT(60) DEF HoldingThreads
        <5>2. refs[e.pipe][s] = 1
          BY <2>1, <3>1, <3>3, Zenon DEF FreshOK
        <5> QED
          BY <3>2, <5>1, <5>2, <1>SoleKept, ZenonT(60)
      <4> QED
        BY <2>1, <3>1, <3>3, <4>1, Zenon DEF FreshOK
    <3>4. CASE pc[u] = "makeW"
      <4>1. u \in HoldingThreads(EndOf(e.pipe, "w")) /\ e.side = "w"
        BY <2>1, <3>1, <3>2, <3>4, ZenonT(60) DEF HoldingThreads, EndOK, Making, BeforeHandle
      <4>2. u \in HoldingThreads(EndOf(e.pipe, "w"))'
        BY <2>1, <3>1, <3>2, <3>4, <4>1, ZenonT(60) DEF HoldingThreads
      <4>3. refs[e.pipe]["w"] = 1
        BY <2>1, <3>1, <3>4, Zenon DEF FreshOK
      <4>4. refs'[e.pipe]["w"] = 1
        BY <3>2, <4>1, <4>2, <4>3, <1>SoleKept, ZenonT(60) DEF Sides
      <4> QED
        BY <2>1, <3>1, <3>4, <4>4, Zenon DEF FreshOK
    <3> QED
      BY <2>3, <3>3, <3>4, Zenon
  <2> QED
    BY <2>2, <2>3, Zenon
<1>Kept.
      ASSUME IInv, NEW t, Still(t), t \notin asleep,
             NEW drop \in RefCounts, NEW take \in RefCounts, Settle(drop, take),
             Moves(drop, take), Backed(drop, take), UNCHANGED <<count, cancelled>>,
             RestTyped', \A u, v \in Threads : u # v => Apart(u, v)',
             \A u \in Threads \ {t} : HandlesOK(u)' /\ ProcOK(u)',
             t \in Threads => ThreadOK(t)'
      PROVE  IInv' /\ NotRevived
  <2> USE <1>Kept
  <2>1. refs' \in RefCounts /\ used' \in [Pipes -> BOOLEAN] /\ RefsExact' /\ NotRevived
    BY <1>SettleCounts, Zenon
  <2>2. asleep' \subseteq asleep /\ SleepIsJustified'
    BY <1>SettleSleepers, Zenon
  <2>3. \A u \in Threads \ {t} : FreshOK(u)'
    BY <1>FreshKeeps, Zenon
  <2>4. Calling'
    BY <2>2, <2>3, CallingKeeps, Zenon
  <2>5. asleep' \subseteq Threads
    BY <2>2, Zenon DEF IInv, TypeOK
  <2>6. TypeOK'
    BY <2>1, <2>5, Zenon DEF TypeOK, RestTyped, RingTyped, TablesTyped, ProcsTyped,
                             ThreadsTyped, Labels, Answers, RefCounts
  <2> QED
    BY <2>1, <2>2, <2>4, <2>6, ZenonT(60) DEF IInv
<1> QED
  BY <1>Kept, Zenon

\* A step outside pipe_create that leaves handles and processes alone.
LEMMA PlainStep ==
  ASSUME IInv, NEW t \in Threads, Still(t), t \notin asleep,
         NEW drop \in RefCounts, NEW take \in RefCounts, Settle(drop, take),
         Moves(drop, take), Backed(drop, take),
         UNCHANGED <<count, cancelled, handles, life>>, RestTyped',
         pc'[t] \notin Making \cup {"install"}, child'[t] \in {child[t], None},
         EndOK(t)', ProcOK(t)'
  PROVE  IInv' /\ NotRevived
<1>1. \A u, v \in Threads : u # v => Apart(u, v)'
  <2>1. pc'[t] \notin Making /\ pc'[t] \notin WithHandle /\ pc'[t] # "install"
    BY Zenon DEF Making
  <2> QED
    BY <2>1, ApartKeeps, Zenon
<1>2. \A u \in Threads \ {t} : HandlesOK(u)' /\ ProcOK(u)'
  BY ElsewhereKept, Zenon
<1>3. HandlesOK(t)' /\ FreshOK(t)'
  BY Zenon DEF HandlesOK, FreshOK, Making, BeforeHandle, WithHandle
<1> QED
  BY <1>1, <1>2, <1>3, StepKeeps, Zenon DEF ThreadOK

LEMMA Typing ==
  ASSUME IInv
  PROVE  /\ RestTyped
         /\ UNCHANGED <<ring, made>> => RingTyped'
         /\ UNCHANGED tables => TablesTyped'
         /\ UNCHANGED procVars => ProcsTyped'
         /\ UNCHANGED threadVars => ThreadsTyped'
<1>1. RestTyped
  BY Zenon DEF IInv, TypeOK, RestTyped, RingTyped, TablesTyped, ProcsTyped, ThreadsTyped,
               Labels, Answers
<1> QED
  BY <1>1, Zenon DEF RestTyped, RingTyped, TablesTyped, ProcsTyped, ThreadsTyped,
              ring, tables, procVars, threadVars

\* Not to touch any count is to settle nothing.
LEMMA NothingSettled ==
  ASSUME IInv, UNCHANGED <<used, refs, asleep>>
  PROVE  Settle(Nothing, Nothing)
<1>1. refs \in RefCounts /\ used \in [Pipes -> BOOLEAN] /\ asleep \subseteq Threads
  BY Zenon DEF IInv, TypeOK, RefCounts
<1>2. refs = [p \in Pipes |-> [s \in Sides |->
                (refs[p][s] - Nothing[p][s]) + Nothing[p][s]]]
  BY <1>1, OneFacts, SMT, SMTT(60) DEF RefCounts
<1>3. \A u \in asleep : end[u].pipe \in Pipes /\ Other(end[u].side) \in Sides
  <2> TAKE u \in asleep
  <2>1. end[u] \in Ends
    BY <1>1, Zenon DEF IInv, Calling, EndOK, Loans
  <2> QED
    BY <2>1, EndFacts, Zenon DEF Other, Sides
<1> DEFINE left == [p \in Pipes |-> [s \in Sides |-> refs[p][s] - Nothing[p][s]]]
<1>4. refs' = [p \in Pipes |-> [s \in Sides |-> left[p][s] + Nothing[p][s]]]
  BY <1>2, Zenon
<1>5. used' = [p \in Pipes |->
                 /\ used[p]
                 /\ \/ \A s \in Sides : Nothing[p][s] = 0
                    \/ \E s \in Sides : left[p][s] # 0]
  BY <1>1, OneFacts, Zenon
<1>6. asleep' = {t \in asleep :
                   LET p == end[t].pipe
                       s == Other(end[t].side)
                   IN  Nothing[p][s] = 0 \/ left[p][s] # 0}
  BY <1>3, OneFacts, Zenon
<1> QED
  BY <1>4, <1>5, <1>6, Zenon DEF Settle

LEMMA NothingTaken ==
  ASSUME NEW drop
  PROVE  Backed(drop, Nothing)
  BY OneFacts, Zenon DEF Backed

LEMMA InTables ==
  ASSUME TypeOK, NEW q \in Procs
  PROVE  /\ \A d \in Fds : fds[q][d] # None =>
              fds[q][d] \in Ends /\ <<q, d>> \in FdHolders(fds[q][d])
         /\ \A e \in handles[q] : e \in Ends /\ q \in HandleHolders(e)
  BY SMT, SMTT(60) DEF TypeOK, FdHolders, HandleHolders

\* A copy of what a table holds.
LEMMA CopyBacked ==
  ASSUME IInv, NEW e \in Ends, FdHolders(e) # {} \/ HandleHolders(e) # {}
  PROVE  Backed(Nothing, One(e))
<1> SUFFICES ASSUME NEW p \in Pipes, NEW s \in Sides, One(e)[p][s] # 0
             PROVE  /\ Nothing[p][s] < refs[p][s]
                    /\ FdHolders(EndOf(p, s)) # {} \/ HandleHolders(EndOf(p, s)) # {}
  BY Zenon DEF Backed
<1>1. e = EndOf(p, s)
  BY OneFacts, SMT, SMTT(60) DEF Is
<1>2. Holders(e) > 0 /\ refs[p][s] = Holders(e) /\ Nothing[p][s] = 0
  BY <1>1, Held, OneFacts, Zenon DEF IInv, RefsExact
<1>3. Holders(e) \in Nat
  BY HolderSets, Zenon
<1> QED
  BY <1>1, <1>2, <1>3, Zenon

\* Thread t gives up the end it holds.
LEMMA EndDropped ==
  ASSUME NEW t \in Threads, Still(t), UNCHANGED <<fds, handles>>,
         pc[t] \in Loans \cup {"makeFail"},
         pc'[t] \notin Loans \cup {"makeR", "makeW", "makeFail"}
  PROVE  Moves(One(end[t]), Nothing)
<1> SUFFICES ASSUME NEW p \in Pipes, NEW s \in Sides
             PROVE  Holders(EndOf(p, s))' = Holders(EndOf(p, s))
                      - One(end[t])[p][s] + Nothing[p][s]
  BY Zenon DEF Moves
<1> DEFINE e == EndOf(p, s)
<1>1. Hold(t, e) = Is(end[t], e) /\ Hold(t, e)' = 0
  BY Zenon DEF Hold
<1>2. Holders(e)' = Holders(e) - Hold(t, e) + Hold(t, e)'
  BY ThreadDelta, ZenonT(60)
<1> QED
  BY <1>1, <1>2, OneFacts, SMT, SMTT(60)

\* A step that replaces one descriptor by x and drops what it held.
LEMMA FdReplaced ==
  ASSUME IInv, NEW t \in Threads, Still(t), UNCHANGED handles,
         NEW q \in Procs, NEW d \in Fds, NEW x, SetFd(q, d, x),
         pc[t] \notin Loans \cup BeforeHandle, pc'[t] \notin Loans \cup BeforeHandle
  PROVE  Moves(One(fds[q][d]), One(x))
<1> SUFFICES ASSUME NEW p \in Pipes, NEW s \in Sides
             PROVE  Holders(EndOf(p, s))' = Holders(EndOf(p, s))
                      - One(fds[q][d])[p][s] + One(x)[p][s]
  BY Zenon DEF Moves
<1> DEFINE e == EndOf(p, s)
<1>1. Hold(t, e) = 0 /\ Hold(t, e)' = 0
  BY Zenon DEF Hold, Loans, BeforeHandle
<1>2. Holders(e)' = Holders(e) - Is(fds[q][d], e) + Is(x, e) - Hold(t, e) + Hold(t, e)'
  BY FdDelta, SMT, SMTT(60) DEF IInv
<1>3. One(fds[q][d])[p][s] = Is(fds[q][d], e) /\ One(x)[p][s] = Is(x, e)
  BY OneFacts, Zenon
<1> QED
  BY <1>1, <1>2, <1>3, HolderSets, SMT, SMTT(60) DEF Is

\* No end at all is no reference.
LEMMA OneNone == One(None) = Nothing
  BY PipeAssumption, EndFacts, SMT, SMTT(60) DEF One, Nothing

\* A step that changes no count and no holder.
LEMMA NobodyMoves ==
  ASSUME IInv, NEW t \in Threads, Still(t), UNCHANGED <<fds, handles>>,
         pc[t] \notin Loans \cup BeforeHandle, pc'[t] \notin Loans \cup BeforeHandle
  PROVE  Moves(Nothing, Nothing)
<1> SUFFICES ASSUME NEW p \in Pipes, NEW s \in Sides
             PROVE  Holders(EndOf(p, s))' = Holders(EndOf(p, s))
                      - Nothing[p][s] + Nothing[p][s]
  BY Zenon DEF Moves
<1> DEFINE e == EndOf(p, s)
<1>1. Hold(t, e) = 0 /\ Hold(t, e)' = 0
  BY Zenon DEF Hold, BeforeHandle
<1>2. Holders(e)' = Holders(e) - Hold(t, e) + Hold(t, e)'
  BY ThreadDelta, Zenon
<1> QED
  BY <1>1, <1>2, OneFacts, HolderSets, ZenonT(60)

\* A side that nobody holds at all is not held by the next step of anyone but
\* pipe_create.
LEMMA GoneFromRevived == NotRevived => GoneStep
  BY Zenon DEF NotRevived, GoneStep

\* Nobody holds an end of a free slot, works on it or sleeps on it.
LEMMA FreeSlot ==
  ASSUME IInv, NEW p \in Pipes, ~used[p]
  PROVE  /\ \A s \in Sides : refs[p][s] = 0 /\ Holders(EndOf(p, s)) = 0
         /\ \A u \in Threads : pc[u] \in Making \cup Loans => end[u].pipe # p
<1>1. \A s \in Sides : refs[p][s] = 0 /\ Holders(EndOf(p, s)) = 0
  BY Zenon DEF IInv, RefsExact
<1>2. ASSUME NEW u \in Threads, pc[u] \in Making \cup Loans, end[u].pipe = p
      PROVE  FALSE
  <2>1. EndOK(u) /\ HandlesOK(u) /\ ProcOf[u] \in Procs
    BY PipeAssumption, Zenon DEF IInv, Calling
  <2>2. PICK s \in Sides : end[u] = EndOf(p, s)
    BY <1>2, <2>1, EndFacts, ZenonT(60) DEF EndOK
  <2>3. CASE pc[u] \in Loans \cup BeforeHandle
    <3>1. HoldingThreads(EndOf(p, s)) # {}
      BY <2>1, <2>2, <2>3, ThreadHolds, ZenonT(60) DEF BeforeHandle, HoldingThreads
    <3> QED
      BY <1>1, <3>1, Held, HolderSets, SMT, SMTT(60)
  <2>4. CASE pc[u] \in BothHandles \cup {"dropW", "undoW"}
    <3>1. HandleHolders(EndOf(p, "w")) # {}
      BY <1>2, <2>1, <2>4, Zenon DEF HandlesOK, HandleHolders
    <3> QED
      BY <1>1, <3>1, Held, HolderSets, SMT, SMTT(60) DEF Sides
  <2> QED
    BY <1>2, <2>3, <2>4, Zenon DEF Making, WithHandle, BeforeHandle
<1> QED
  BY <1>1, <1>2, Zenon

\* What a thread making a pipe is.
LEMMA Maker ==
  ASSUME IInv, NEW t \in Threads, pc[t] \in Making
  PROVE  /\ TypeOK /\ ThreadOK(t) /\ t \notin asleep /\ ProcOf[t] \in Procs
         /\ child[t] = None /\ life[ProcOf[t]] = "alive"
         /\ end[t] \in Ends /\ end[t].pipe \in Pipes
         /\ pc[t] = "makeR" => end[t] = EndOf(end[t].pipe, "r")
         /\ pc[t] # "makeR" => end[t] = EndOf(end[t].pipe, "w")
<1>1. /\ TypeOK /\ ThreadOK(t) /\ ProcOf[t] \in Procs
      /\ \A u \in asleep : pc[u] \in {"read", "write"}
  BY PipeAssumption, Zenon DEF IInv, Calling, ThreadOK
<1>2. pc[t] \notin {"read", "write", "user", "spawn", "install", "discard"}
  BY Zenon DEF Making, BeforeHandle, WithHandle, BothHandles
<1>3. t \notin asleep /\ child[t] = None /\ life[ProcOf[t]] = "alive"
  BY <1>1, <1>2, Zenon DEF ThreadOK, ProcOK
<1>4. /\ end[t] \in Ends
      /\ pc[t] = "makeR" => end[t].side = "r"
      /\ pc[t] # "makeR" => end[t].side = "w"
  BY <1>1, Zenon DEF ThreadOK, EndOK
<1>5. end[t].pipe \in Pipes /\ end[t] = EndOf(end[t].pipe, end[t].side)
  BY <1>4, EndFacts, Zenon
<1> QED
  BY <1>1, <1>3, <1>4, <1>5, ZenonT(60)

\* Remainders, as far as a ring of n places needs them.
LEMMA Remainder ==
  \A a \in Nat, n \in Nat \ {0} :
    /\ a % n \in 0..(n - 1)
    /\ a < n => a % n = a
    /\ n <= a /\ a < n + n => a % n = a - n
  BY SMT, SMTT(60)

\* The thread of a read or a write in progress and its pipe.
LEMMA InCall ==
  ASSUME IInv, NEW t \in Threads, pc[t] \in {"read", "write"}
  PROVE  /\ TypeOK /\ end[t] \in Ends /\ end[t].pipe \in Pipes
         /\ end[t] = EndOf(end[t].pipe, IF pc[t] = "read" THEN "r" ELSE "w")
         /\ used[end[t].pipe] /\ child[t] = None /\ life[ProcOf[t]] = "alive"
<1>1. TypeOK /\ EndOK(t) /\ ProcOK(t)
  BY Zenon DEF IInv, Calling
<1>2. /\ end[t] \in Ends /\ child[t] = None /\ life[ProcOf[t]] = "alive"
      /\ end[t].side = IF pc[t] = "read" THEN "r" ELSE "w"
  BY <1>1, Zenon DEF EndOK, ProcOK, Loans
<1>3. end[t].pipe \in Pipes /\ end[t] = EndOf(end[t].pipe, end[t].side)
  BY <1>2, EndFacts, Zenon
<1>4. used[end[t].pipe]
  BY <1>3, FreeSlot, ZenonT(60) DEF Loans
<1> QED
  BY <1>1, <1>2, <1>3, <1>4, ZenonT(60)

LEMMA RingFacts ==
  ASSUME TypeOK, NEW p \in Pipes
  PROVE  /\ Size \in Nat /\ Size # 0 /\ count[p] \in 0..Size /\ count[p] \in Nat
         /\ head[p] \in 0..(Size - 1) /\ tail[p] \in 0..(Size - 1)
         /\ buf[p] \in [Indices -> Threads \cup {None}]
         /\ \A t \in Threads : args[t].len \in Nat
<1>1. Lengths \cup {0} \subseteq Nat
  BY PipeAssumption, SMT, SMTT(60) DEF Lengths
<1>2. \A t \in Threads : args[t].len \in Nat
  BY <1>1, Zenon DEF TypeOK
<1>3. Size \in Nat /\ Size # 0
  BY PipeAssumption, Zenon
<1> QED
  BY <1>2, <1>3, SMT, SMTT(60) DEF TypeOK, Indices

LEMMA JustifiedAll == SleepIsJustified <=> \A t \in asleep : Justified(t)
  BY Zenon DEF SleepIsJustified, Justified

-----------------------------------------------------------------------------
(* Reading and writing the ring. *)

\* One pass of the loop of pipe_read or pipe_write.
LEMMA TransferKeeps ==
  \A t \in Threads : IInv /\ (PipeRead(t) \/ PipeWrite(t)) => IInv' /\ GoneStep
\* One pass of a loop: the call falls asleep or is answered.
<1>PassKeeps.
      ASSUME IInv, NEW t \in Threads, pc[t] \in {"read", "write"}, t \notin asleep, Still(t),
             pc' \in [Threads -> Labels], answer' \in [Threads -> Answers], RingTyped',
             UNCHANGED <<used, refs, fds, handles, procVars, end, args, child, newfds>>,
             \/ pc'[t] = pc[t] /\ asleep' = asleep \cup {t}
             \/ pc'[t] = "return" /\ asleep' \subseteq asleep,
             SleepIsJustified'
      PROVE  IInv' /\ GoneStep
  <2> USE <1>PassKeeps
  <2>1. TypeOK /\ ThreadOK(t)
    BY Zenon DEF IInv, Calling, ThreadOK
  <2>2. UNCHANGED <<life, cancelled, calls>>
    BY Zenon DEF procVars
  <2>3. RefsExact'
    <3>1. \A e : Holders(e)' = Holders(e)
      <4> TAKE e
      <4>1. Hold(t, e)' = Hold(t, e) /\ Hold(t, e) \in {0, 1}
        BY HoldCounts, Zenon DEF Hold, Loans
      <4>2. Holders(e)' = Holders(e) - Hold(t, e) + Hold(t, e)'
        BY ThreadDelta, Zenon
      <4> QED
        BY <4>1, <4>2, HolderSets, SMT, SMTT(60)
    <3> QED
      BY <3>1, ZenonT(60) DEF IInv, RefsExact
  <2>4. Calling'
    <3>1. \A u \in Threads \ {t} : ThreadOK(u)'
      BY <2>2, SMT, SMTT(60) DEF Still, IInv, Calling, ThreadOK, EndOK, ProcOK, HandlesOK, FreshOK
    <3>2. ThreadOK(t)'
      BY <2>1, <2>2, ZenonT(60)
         DEF ThreadOK, EndOK, ProcOK, HandlesOK, FreshOK, Making, BeforeHandle,
             WithHandle, BothHandles, Loans
    <3>3. \A u, v \in Threads : u # v => Apart(u, v)'
      BY ApartKeeps, ZenonT(60) DEF Making, BeforeHandle, WithHandle, BothHandles
    <3>4. \A u \in asleep' : pc'[u] \in {"read", "write"}
      BY <2>1, SMT, SMTT(60) DEF Still, IInv, Calling, TypeOK
    <3>5. \A u \in Threads : (EndOK(u) /\ ProcOK(u) /\ HandlesOK(u) /\ FreshOK(u))'
      BY <3>1, <3>2, Zenon DEF ThreadOK
    <3> QED
      BY <3>3, <3>4, <3>5, ZenonT(60) DEF Calling
  <2>5. TypeOK'
    <3>1. TablesTyped' /\ ProcsTyped' /\ ThreadsTyped'
      BY Typing, Zenon DEF tables, RestTyped, ThreadsTyped
    <3>2. used' \in [Pipes -> BOOLEAN] /\ refs' \in RefCounts /\ asleep' \subseteq Threads
      BY <2>1, Zenon DEF TypeOK, RefCounts
    <3> QED
      BY <3>1, <3>2, ZenonT(60)
         DEF TypeOK, RingTyped, TablesTyped, ProcsTyped, ThreadsTyped, Labels, Answers,
             RefCounts
  <2>6. GoneStep
    BY Zenon DEF GoneStep
  <2> QED
    BY <2>3, <2>4, <2>5, <2>6, ZenonT(60) DEF IInv
\* A call goes to sleep, or is answered, without touching the ring.
<1>NoMoveKeeps.
      ASSUME IInv, NEW t \in Threads, pc[t] \in {"read", "write"}, t \notin asleep,
             UNCHANGED ring,
             UNCHANGED <<used, refs, made, tables, procVars, end, args, child, newfds>>,
             \/ /\ \E a \in {"eof", "epipe"} : Reply(t, a)
                /\ UNCHANGED asleep
             \/ /\ CancelOrBlock(t)
                /\ pc[t] = "read" => count[end[t].pipe] = 0 /\ refs[end[t].pipe].w # 0
                /\ pc[t] = "write" => /\ MustWait(end[t].pipe, args[t].len)
                                      /\ refs[end[t].pipe].r # 0
      PROVE  IInv' /\ GoneStep
  <2> USE <1>NoMoveKeeps
  <2>1. TypeOK /\ used[end[t].pipe]
    BY InCall, Zenon
  <2>2. /\ UNCHANGED <<buf, head, tail, count, fds, handles, life, cancelled, calls>>
        /\ \/ \E a \in Answers : /\ pc' = [pc EXCEPT ![t] = "return"]
                                 /\ answer' = [answer EXCEPT ![t] = a]
                                 /\ UNCHANGED asleep
           \/ UNCHANGED <<pc, answer>> /\ asleep' = asleep \cup {t} /\ Justified(t)
    <3>1. UNCHANGED <<buf, head, tail, count, fds, handles, life, cancelled, calls>>
      BY Zenon DEF ring, tables, procVars
    <3>2. CASE \E a \in {"eof", "epipe"} : Reply(t, a) /\ UNCHANGED asleep
      BY <3>1, <3>2, Zenon DEF Reply, Goto, Answers
    <3>3. CASE /\ CancelOrBlock(t)
               /\ pc[t] = "read" => count[end[t].pipe] = 0 /\ refs[end[t].pipe].w # 0
               /\ pc[t] = "write" => /\ MustWait(end[t].pipe, args[t].len)
                                     /\ refs[end[t].pipe].r # 0
      <4>1. \/ \E a \in Answers : Reply(t, a) /\ UNCHANGED asleep
            \/ /\ ~cancelled[ProcOf[t]]
               /\ UNCHANGED <<pc, answer>> /\ asleep' = asleep \cup {t}
        BY <3>3, Zenon DEF CancelOrBlock, Answers
      <4> QED
        BY <2>1, <3>1, <3>3, <4>1, ZenonT(60) DEF Reply, Goto, Justified
    <3> QED
      BY <3>2, <3>3, Zenon
  <2>3. /\ Still(t)
        /\ \/ pc'[t] = pc[t] /\ asleep' = asleep \cup {t} /\ Justified(t)
           \/ pc'[t] = "return" /\ UNCHANGED asleep
    BY <2>1, <2>2, ZenonT(60) DEF Still, TypeOK
  <2>4. pc' \in [Threads -> Labels] /\ answer' \in [Threads -> Answers]
    <3>1. pc \in [Threads -> Labels] /\ answer \in [Threads -> Answers]
      BY Typing, Zenon DEF RestTyped, ThreadsTyped
    <3>2. "return" \in Labels
      BY Zenon DEF Labels
    <3> QED
      BY <2>2, <3>1, <3>2, ZenonT(60)
  <2>5. RingTyped'
    BY <2>2, Typing, Zenon DEF ring
  <2>6. SleepIsJustified'
    <3>1. \A u \in asleep' : pc'[u] = pc[u] /\ Justified(u)
      BY <2>1, <2>3, JustifiedAll, SMT, SMTT(60) DEF IInv, Still, TypeOK
    <3>2. \A u \in asleep' : Justified(u)'
      BY <2>2, <3>1, Zenon DEF Justified, MustWait
    <3> QED
      BY <3>2, ZenonT(60) DEF SleepIsJustified, Justified
  <2> QED
    BY <2>2, <2>3, <2>4, <2>5, <2>6, <1>PassKeeps, ZenonT(60) DEF tables
\* Bytes go through the ring: the sleepers on the side they help are woken, the
\* others wait for what has become less, or wait on another pipe.
<1>MoveKeeps.
      ASSUME IInv, NEW t \in Threads, pc[t] \in {"read", "write"}, t \notin asleep,
             RingTyped', Reply(t, "done"),
             UNCHANGED <<used, refs, made, tables, procVars, end, args, child, newfds>>,
             NEW p \in Pipes, NEW c \in 0..Size, count' = [count EXCEPT ![p] = c],
             NEW s \in Sides, WakeAll(p, s),
             s = "r" => count[p] # Size /\ count[p] <= c,
             s = "w" => count[p] # 0
      PROVE  IInv' /\ GoneStep
  <2> USE <1>MoveKeeps
  <2>1. TypeOK
    BY Zenon DEF IInv
  <2>2. /\ pc' = [pc EXCEPT ![t] = "return"] /\ answer' = [answer EXCEPT ![t] = "done"]
        /\ UNCHANGED <<fds, handles, life, cancelled, calls>> /\ asleep' \subseteq asleep
    BY Zenon DEF Reply, Goto, WakeAll, tables, procVars
  <2>3. Still(t) /\ pc'[t] = "return"
    BY <2>1, <2>2, ZenonT(60) DEF Still, TypeOK
  <2>4. pc' \in [Threads -> Labels] /\ answer' \in [Threads -> Answers]
    BY <2>2, Typing, Zenon DEF RestTyped, ThreadsTyped, Labels, Answers
  <2>5. SleepIsJustified'
    <3>1. ASSUME NEW u \in asleep' PROVE Justified(u)'
      <4>1. /\ u \in Threads \ {t} /\ u \in asleep /\ pc[u] \in {"read", "write"}
            /\ Justified(u) /\ end[u] # EndOf(p, s)
        BY <2>1, <2>2, JustifiedAll, ZenonT(60) DEF IInv, Calling, TypeOK, WakeAll
      <4>2. PICK p2 \in Pipes : p2 = end[u].pipe
        BY <4>1, InCall, Zenon
      <4>3. pc'[u] = pc[u] /\ end'[u] = end[u] /\ args'[u] = args[u]
        BY <2>3, <4>1, ZenonT(60) DEF Still
      <4>4. CASE p2 # p
        <5>1. count'[p2] = count[p2]
          BY <2>1, <4>4, Zenon DEF TypeOK
        <5> QED
          BY <2>2, <4>1, <4>2, <4>3, <5>1, ZenonT(60) DEF Justified, MustWait
      <4>5. CASE p2 = p
        <5>1. end[u] = EndOf(p, IF pc[u] = "read" THEN "r" ELSE "w")
          BY <4>1, <4>2, <4>5, InCall, ZenonT(60)
        <5>2. CASE s = "w"
          <6>1. pc[u] = "read"
            BY <4>1, <5>1, <5>2, ZenonT(60)
          <6> QED
            BY <4>1, <4>2, <4>5, <5>2, <6>1, Zenon DEF Justified
        <5>3. CASE s = "r"
          <6>1. pc[u] = "write"
            BY <4>1, <5>1, <5>3, ZenonT(60)
          <6>2. /\ used[p] /\ ~cancelled[ProcOf[u]] /\ refs[p].r # 0
                /\ MustWait(p, args[u].len)
            BY <4>1, <4>2, <4>5, <6>1, ZenonT(60) DEF Justified
          <6>3. /\ count'[p] = c /\ count[p] \in 0..Size /\ Size \in Nat
                /\ args[u].len \in Nat
            BY <2>1, <4>1, RingFacts, ZenonT(60) DEF TypeOK
          <6>4. MustWait(p, args[u].len)'
            BY <4>3, <5>3, <6>2, <6>3, SMT, SMTT(60) DEF MustWait
          <6> QED
            BY <2>2, <4>2, <4>3, <4>5, <6>1, <6>2, <6>4, ZenonT(60) DEF Justified
        <5> QED
          BY <5>2, <5>3, Zenon DEF Sides
      <4> QED
        BY <4>4, <4>5, ZenonT(60)
    <3> QED
      BY <3>1, Zenon DEF SleepIsJustified, Justified
  <2> QED
    BY <2>2, <2>3, <2>4, <2>5, <1>PassKeeps, ZenonT(60) DEF tables
<1>PipeReadKeeps.
      ASSUME IInv, NEW t \in Threads, PipeRead(t)
      PROVE  IInv' /\ GoneStep
  <2> USE <1>PipeReadKeeps
  <2>1. /\ pc[t] = "read" /\ t \notin asleep
        /\ UNCHANGED <<used, refs, made, tables, procVars, end, args, child, newfds>>
    BY Zenon DEF PipeRead, At
  <2>2. PICK p \in Pipes : p = end[t].pipe
    BY <2>1, InCall, ZenonT(60)
  <2>3. PICK n : n = Lesser(args[t].len, count[p])
    BY Zenon
  <2>4. CASE count[p] = 0
    BY <2>1, <2>2, <2>4, <1>NoMoveKeeps, ZenonT(60) DEF PipeRead
  <2>5. CASE count[p] # 0
    <3>1. /\ tail' = [tail EXCEPT ![p] = (@ + n) % Size]
          /\ count' = [count EXCEPT ![p] = @ - n]
          /\ WakeAll(p, "w") /\ Reply(t, "done") /\ UNCHANGED <<buf, head>>
      BY <2>2, <2>3, <2>5, ZenonT(60) DEF PipeRead
    <3>2. /\ Size \in Nat /\ Size # 0 /\ count[p] \in 0..Size
          /\ tail[p] \in 0..(Size - 1) /\ args[t].len \in Nat
      BY RingFacts, Zenon DEF IInv
    <3>3. n \in 0..count[p]
      BY <2>3, <3>2, SMT, SMTT(60) DEF Lesser
    <3>4. count[p] - n \in 0..Size /\ (tail[p] + n) % Size \in Indices
      <4>1. count[p] - n \in 0..Size /\ tail[p] + n \in Nat
        BY <3>2, <3>3, SMT, SMTT(60)
      <4> QED
        BY <3>2, <4>1, Remainder, ZenonT(60) DEF Indices
    <3>5. RingTyped'
      BY <2>1, <3>1, <3>4, Typing, ZenonT(60) DEF RestTyped, RingTyped
    <3>6. count' = [count EXCEPT ![p] = count[p] - n]
      BY <3>1, Zenon
    <3> QED
      BY <2>1, <2>5, <3>1, <3>4, <3>5, <3>6, <1>MoveKeeps, ZenonT(60) DEF Sides
  <2> QED
    BY <2>4, <2>5, ZenonT(60)
<1>PipeWriteKeeps.
      ASSUME IInv, NEW t \in Threads, PipeWrite(t)
      PROVE  IInv' /\ GoneStep
  <2> USE <1>PipeWriteKeeps
  <2>1. /\ pc[t] = "write" /\ t \notin asleep
        /\ UNCHANGED <<used, refs, made, tables, procVars, end, args, child, newfds>>
    BY Zenon DEF PipeWrite, At
  <2>2. PICK p \in Pipes : p = end[t].pipe
    BY <2>1, InCall, Zenon
  <2>3. PICK n : n = Lesser(args[t].len, Size - count[p])
    BY Zenon
  <2>4. CASE refs[p].r = 0 \/ MustWait(p, args[t].len)
    BY <2>1, <2>2, <2>4, <1>NoMoveKeeps, ZenonT(60) DEF PipeWrite
  <2>5. CASE refs[p].r # 0 /\ ~MustWait(p, args[t].len)
    <3>1. /\ buf' = [buf EXCEPT ![p] = [i \in Indices |->
                       IF Wrapped(p, i, n) THEN t ELSE buf[p][i]]]
          /\ head' = [head EXCEPT ![p] = (@ + n) % Size]
          /\ count' = [count EXCEPT ![p] = @ + n]
          /\ WakeAll(p, "r") /\ Reply(t, "done") /\ UNCHANGED tail
      BY <2>2, <2>3, <2>5, ZenonT(60) DEF PipeWrite
    <3>2. /\ Size \in Nat /\ Size # 0 /\ count[p] \in 0..Size
          /\ head[p] \in 0..(Size - 1) /\ args[t].len \in Nat
          /\ buf[p] \in [Indices -> Threads \cup {None}]
      BY RingFacts, ZenonT(60) DEF IInv
    <3>3. n \in 0..(Size - count[p])
      BY <2>3, <3>2, SMT, SMTT(60) DEF Lesser
    <3>4. count[p] + n \in 0..Size /\ (head[p] + n) % Size \in Indices
      <4>1. count[p] + n \in 0..Size /\ head[p] + n \in Nat
        BY <3>2, <3>3, SMT, SMTT(60)
      <4> QED
        BY <3>2, <4>1, Remainder, ZenonT(60) DEF Indices
    <3>5. RingTyped'
      <4>1. [i \in Indices |-> IF Wrapped(p, i, n) THEN t ELSE buf[p][i]]
              \in [Indices -> Threads \cup {None}]
        BY <3>2, Zenon
      <4>2. buf' \in [Pipes -> [Indices -> Threads \cup {None}]]
        BY <3>1, <4>1, Typing, ZenonT(60) DEF RestTyped, RingTyped
      <4> QED
        BY <2>1, <3>1, <3>4, <4>2, Typing, ZenonT(60) DEF RestTyped, RingTyped
    <3>6. count' = [count EXCEPT ![p] = count[p] + n]
      BY <3>1, Zenon
    <3>7. count[p] # Size /\ count[p] <= count[p] + n
      BY <2>5, <3>2, <3>3, SMT, SMTT(60) DEF MustWait
    <3> QED
      BY <2>1, <3>1, <3>4, <3>5, <3>6, <3>7, <1>MoveKeeps, ZenonT(60) DEF Sides
  <2> QED
    BY <2>4, <2>5, ZenonT(60)
<1> QED
  BY <1>PipeReadKeeps, <1>PipeWriteKeeps, Zenon

-----------------------------------------------------------------------------
(* The processes' ends. *)

\* A process is cancelled, leaves or is reaped.
LEMMA ProcessKeeps ==
  \A q \in Procs : IInv /\ (Cancel(q) \/ Exit(q) \/ Reap(q)) => IInv' /\ GoneStep
<1>CancelKeeps.
      ASSUME IInv, NEW q \in Procs, Cancel(q)
      PROVE  IInv' /\ GoneStep
  <2> USE <1>CancelKeeps
  <2>1. /\ cancelled' = [cancelled EXCEPT ![q] = TRUE]
        /\ asleep' = {t \in asleep : ProcOf[t] # q}
        /\ UNCHANGED <<used, refs, buf, head, tail, count, made, fds, handles, life, calls>>
        /\ UNCHANGED <<pc, end, args, child, newfds, answer>>
    BY Zenon DEF Cancel, pipeVars, tables, threadVars
  <2>2. TypeOK /\ asleep' \subseteq asleep
    BY <2>1, Zenon DEF IInv
  <2>3. \A e : Holders(e)' = Holders(e)
    BY <2>1, ZenonT(60) DEF Holders, HoldingThreads
  <2>4. RefsExact'
    BY <2>1, <2>3, Zenon DEF IInv, RefsExact
  <2>5. SleepIsJustified'
    <3>1. ASSUME NEW u \in asleep' PROVE Justified(u)'
      <4>1. u \in asleep /\ ProcOf[u] # q /\ Justified(u)
        BY <2>1, JustifiedAll, Zenon DEF IInv
      <4>2. ProcOf[u] \in Procs
        BY <2>2, <4>1, PipeAssumption, ZenonT(60) DEF TypeOK
      <4>3. cancelled'[ProcOf[u]] = cancelled[ProcOf[u]]
        BY <2>1, <2>2, <4>1, <4>2, ZenonT(60) DEF TypeOK
      <4> QED
        BY <2>1, <4>1, <4>3, Zenon DEF Justified, MustWait
    <3> QED
      BY <3>1, Zenon DEF SleepIsJustified, Justified
  <2>6. Calling'
    <3>1. /\ \A u \in Threads : (EndOK(u) /\ ProcOK(u) /\ HandlesOK(u) /\ FreshOK(u))'
          /\ \A u \in asleep' : pc'[u] \in {"read", "write"}
      BY <2>1, <2>2, SMT, SMTT(60) DEF IInv, Calling, EndOK, ProcOK, HandlesOK, FreshOK
    <3>2. \A u, v \in Threads : u # v => Apart(u, v)'
      BY <2>1, Zenon DEF IInv, Calling, Apart, MakingOn
    <3> QED
      BY <3>1, <3>2, ZenonT(60) DEF Calling
  <2>7. TypeOK'
    BY <2>1, <2>2, Zenon DEF TypeOK
  <2>8. GoneStep
    BY <2>1, Zenon DEF GoneStep
  <2> QED
    BY <2>4, <2>5, <2>6, <2>7, <2>8, ZenonT(60) DEF IInv
\* A process leaves or is reaped: no thread moves, and the calls in progress are
\* other processes' calls.
<1>LeaveKeeps.
      ASSUME IInv, NEW q \in Procs, life[q] \in {"alive", "zombie"},
             \A t \in Threads : ProcOf[t] = q => pc[t] = "user",
             NEW l \in {"zombie", "reaped"}, life' = [life EXCEPT ![q] = l],
             NEW drop \in RefCounts, Drop(drop), Moves(drop, Nothing), TablesTyped',
             \A r \in Procs : r # q => handles'[r] = handles[r],
             UNCHANGED <<cancelled, calls, threadVars>>
      PROVE  IInv' /\ NotRevived
  <2> USE <1>LeaveKeeps
  <2>1. /\ Settle(drop, Nothing) /\ UNCHANGED <<ring, made, cancelled, calls>>
        /\ UNCHANGED <<pc, end, args, child, newfds, answer>>
    BY Zenon DEF Drop, threadVars
  <2>2. TypeOK /\ None \notin Threads /\ None \notin asleep
    BY PipeAssumption, ZenonT(60) DEF IInv, TypeOK
  <2>3. Still(None)
    BY <2>1, Zenon DEF Still
  <2>4. RestTyped'
    <3>1. ProcsTyped'
      BY <2>1, Typing, ZenonT(60) DEF RestTyped, ProcsTyped
    <3> QED
      BY <2>1, <3>1, Typing, ZenonT(60) DEF RestTyped, threadVars
  <2>5. \A u, v \in Threads : u # v => Apart(u, v)'
    BY <2>1, Zenon DEF IInv, Calling, Apart, MakingOn
  <2>6. \A u \in Threads \ {None} : HandlesOK(u)' /\ ProcOK(u)'
    <3> TAKE u \in Threads \ {None}
    <3>1. /\ HandlesOK(u) /\ ProcOK(u) /\ ProcOf[u] \in Procs
          /\ child[u] \in Procs \cup {None}
      BY <2>2, PipeAssumption, ZenonT(60) DEF IInv, Calling, TypeOK
    <3>2. \A r \in Procs : r # q => life'[r] = life[r]
      BY <2>2, Zenon DEF TypeOK
    <3>3. HandlesOK(u)'
      <4>1. CASE ProcOf[u] = q
        BY <2>1, <4>1, Zenon DEF HandlesOK, BothHandles
      <4>2. CASE ProcOf[u] # q
        BY <2>1, <3>1, <4>2, ZenonT(60) DEF HandlesOK
      <4> QED
        BY <4>1, <4>2, Zenon
    <3>4. pc[u] # "user" => life'[ProcOf[u]] = life[ProcOf[u]]
      BY <3>1, <3>2, ZenonT(60)
    <3>5. child[u] # None => life'[child[u]] = life[child[u]]
      BY <3>1, <3>2, Zenon DEF ProcOK
    <3>6. ProcOK(u)'
      BY <2>1, <3>1, <3>4, <3>5, ZenonT(60) DEF ProcOK
    <3> QED
      BY <3>3, <3>6, ZenonT(60)
  <2> QED
    BY <2>1, <2>2, <2>3, <2>4, <2>5, <2>6, StepKeeps, NothingTaken, OneFacts, ZenonT(60)
       DEF ring
<1>ExitKeeps.
      ASSUME IInv, NEW q \in Procs, Exit(q)
      PROVE  IInv' /\ NotRevived
  <2> USE <1>ExitKeeps
  <2>1. /\ life[q] = "alive" /\ life' = [life EXCEPT ![q] = "zombie"]
        /\ \A t \in Threads : ProcOf[t] = q => pc[t] = "user"
        /\ Drop(Many(q)) /\ fds' = [fds EXCEPT ![q] = [d \in Fds |-> None]]
        /\ UNCHANGED <<handles, cancelled, calls, threadVars>>
    BY Zenon DEF Exit, At
  <2>2. TypeOK /\ fds \in [Procs -> [Fds -> Ends \cup {None}]] /\ None \notin Ends
    BY PipeAssumption, ZenonT(60) DEF IInv, TypeOK
  <2>3. \A p \in Pipes, s \in Sides :
          /\ Many(q)[p][s] = Cardinality({d \in Fds : fds[q][d] = EndOf(p, s)})
          /\ Many(q)[p][s] \in Nat
    <3> TAKE p \in Pipes, s \in Sides
    <3>1. IsFiniteSet({d \in Fds : fds[q][d] = EndOf(p, s)})
      <4>1. {d \in Fds : fds[q][d] = EndOf(p, s)} \subseteq Fds
        BY Zenon
      <4> QED
        BY <4>1, FS_Subset, PipeAssumption, ZenonT(60)
    <3>2. Many(q)[p][s] = Cardinality({d \in Fds : fds[q][d] = EndOf(p, s)})
      BY Zenon DEF Many
    <3> QED
      BY <3>1, <3>2, FS_CardinalityType, ZenonT(60)
  <2>4. Many(q) \in RefCounts
    <3>1. Many(q) = [p \in Pipes |-> [s \in Sides |-> Many(q)[p][s]]]
      BY ZenonT(60) DEF Many
    <3> HIDE DEF Many
    <3> QED
      BY <2>3, <3>1, Zenon DEF RefCounts
  <2>5. Moves(Many(q), Nothing)
    <3> SUFFICES ASSUME NEW p \in Pipes, NEW s \in Sides
                 PROVE  Holders(EndOf(p, s))' = Holders(EndOf(p, s))
                          - Many(q)[p][s] + Nothing[p][s]
      BY Zenon DEF Moves
    <3>1. PICK e \in Ends : e = EndOf(p, s)
      BY EndFacts, Zenon
    <3>2. PICK D : D = {d \in Fds : fds[q][d] = e}
      BY ZenonT(60)
    <3>3. IsFiniteSet(D) /\ Cardinality(D) \in Nat /\ Many(q)[p][s] = Cardinality(D)
      <4>1. D \subseteq Fds
        BY <3>2, Zenon
      <4> QED
        BY <2>3, <3>1, <3>2, <4>1, FS_Subset, FS_CardinalityType, PipeAssumption, SMT, SMTT(60)
    <3>4. Cardinality({q} \X D) = Cardinality(D)
      <4>1. IsFiniteSet({q}) /\ Cardinality({q}) = 1
        BY FS_Singleton, Zenon
      <4>2. Cardinality({q} \X D) = Cardinality({q}) * Cardinality(D)
        BY <3>3, <4>1, FS_Product, ZenonT(60)
      <4> QED
        BY <3>3, <4>1, <4>2, SMT, SMTT(60)
    <3>5. FdHolders(e)' = FdHolders(e) \ ({q} \X D)
      <4>1. \A r \in Procs, d \in Fds :
              fds'[r][d] = IF r = q THEN None ELSE fds[r][d]
        BY <2>1, <2>2, Zenon
      <4>2. \A r \in Procs, d \in Fds :
              fds'[r][d] = e <=> fds[r][d] = e /\ ~(r = q /\ d \in D)
        BY <2>2, <3>2, <4>1, ZenonT(60)
      <4> QED
        BY <4>2, SMT, SMTT(60) DEF FdHolders
    <3>6. FdHolders(e) \cap ({q} \X D) = {q} \X D
      BY <3>2, Zenon DEF FdHolders
    <3>7. Cardinality(FdHolders(e)') = Cardinality(FdHolders(e)) - Cardinality(D)
      <4>1. Cardinality(FdHolders(e) \ ({q} \X D)) =
              Cardinality(FdHolders(e)) - Cardinality(FdHolders(e) \cap ({q} \X D))
        BY HolderSets, FS_Difference, Zenon
      <4> QED
        BY <3>4, <3>5, <3>6, <4>1, ZenonT(60)
    <3>8. /\ Cardinality(HandleHolders(e)') = Cardinality(HandleHolders(e))
          /\ Cardinality(HoldingThreads(e)') = Cardinality(HoldingThreads(e))
      BY <2>1, SameHolders, ZenonT(60) DEF threadVars
    <3> QED
      BY <3>1, <3>3, <3>7, <3>8, HolderSets, HoldersNext, OneFacts, SMT, SMTT(60)
  <2>6. TablesTyped'
    <3>1. fds' \in [Procs -> [Fds -> Ends \cup {None}]]
      BY <2>1, <2>2, Zenon
    <3> QED
      BY <2>1, <3>1, Typing, ZenonT(60) DEF RestTyped, TablesTyped
  <2> QED
    BY <2>1, <2>4, <2>5, <2>6, <1>LeaveKeeps, ZenonT(60)
<1>ReapKeeps.
      ASSUME IInv, NEW q \in Procs, Reap(q)
      PROVE  IInv' /\ NotRevived
  <2> USE <1>ReapKeeps
  <2>1. /\ life[q] = "zombie" /\ life' = [life EXCEPT ![q] = "reaped"]
        /\ Drop(HandleRefs(q)) /\ SetHandles(q, {})
        /\ UNCHANGED <<fds, cancelled, calls, threadVars>>
    BY Zenon DEF Reap
  <2>2. TypeOK /\ \A t \in Threads : ProcOf[t] = q => pc[t] = "user"
    BY <2>1, Zenon DEF IInv, Calling, ProcOK
  <2>3. /\ HandleRefs(q) \in RefCounts
        /\ \A p \in Pipes, s \in Sides :
             HandleRefs(q)[p][s] = Among(EndOf(p, s), handles[q])
    BY ZenonT(60) DEF HandleRefs, RefCounts, Among
  <2>4. Moves(HandleRefs(q), Nothing)
    <3> SUFFICES ASSUME NEW p \in Pipes, NEW s \in Sides
                 PROVE  Holders(EndOf(p, s))' = Holders(EndOf(p, s))
                          - HandleRefs(q)[p][s] + Nothing[p][s]
      BY Zenon DEF Moves
    <3>1. PICK e : e = EndOf(p, s)
      BY Zenon
    <3>2. Cardinality(HandleHolders(e)') =
            Cardinality(HandleHolders(e)) - Among(e, handles[q]) + Among(e, {})
      BY <2>1, <2>2, HandleStep, ZenonT(60)
    <3>3. /\ Among(e, {}) = 0 /\ Among(e, handles[q]) \in {0, 1}
          /\ HandleRefs(q)[p][s] = Among(e, handles[q])
      BY <2>3, <3>1, ZenonT(60) DEF Among
    <3>4. /\ Cardinality(FdHolders(e)') = Cardinality(FdHolders(e))
          /\ Cardinality(HoldingThreads(e)') = Cardinality(HoldingThreads(e))
      BY <2>1, SameHolders, ZenonT(60) DEF threadVars
    <3> QED
      BY <3>1, <3>2, <3>3, <3>4, HolderSets, HoldersNext, OneFacts, SMT, SMTT(60)
  <2>5. TablesTyped' /\ \A r \in Procs : r # q => handles'[r] = handles[r]
    BY <2>1, Typing, Zenon DEF RestTyped, TablesTyped, SetHandles
  <2> QED
    BY <2>1, <2>2, <2>3, <2>4, <2>5, <1>LeaveKeeps, ZenonT(60)
<1> QED
  BY <1>CancelKeeps, <1>ExitKeeps, <1>ReapKeeps, GoneFromRevived, ZenonT(60)

-----------------------------------------------------------------------------
(* Descriptors. *)

\* sys_read and sys_write up to the loan and after it, dup, close.
LEMMA FdCallKeeps ==
  \A t \in Threads : IInv /\ FdCall(t) => IInv' /\ NotRevived
<1>FdReturnKeeps.
      ASSUME IInv, NEW t \in Threads, FdReturn(t)
      PROVE  IInv' /\ NotRevived
  <2> USE <1>FdReturnKeeps
  <2>1. /\ pc[t] = "return" /\ t \notin asleep
        /\ Settle(One(end[t]), Nothing) /\ UNCHANGED <<ring, made>>
        /\ pc' = [pc EXCEPT ![t] = "user"] /\ end' = [end EXCEPT ![t] = None]
        /\ args' = [args EXCEPT ![t] = NoArgs]
        /\ answer' = [answer EXCEPT ![t] = "none"]
        /\ UNCHANGED <<fds, handles, life, cancelled, calls, child, newfds>>
    BY Zenon DEF FdReturn, At, Drop, Finish, Goto, SetEnd, tables, procVars
  <2>2. TypeOK /\ ThreadOK(t)
    BY Zenon DEF IInv, Calling, ThreadOK
  <2>3. Still(t) /\ pc'[t] = "user" /\ child'[t] = child[t] /\ child[t] = None
    BY <2>1, <2>2, ZenonT(60) DEF Still, TypeOK, ThreadOK, ProcOK
  <2>4. Moves(One(end[t]), Nothing)
    BY <2>1, <2>3, EndDropped, ZenonT(60) DEF Loans
  <2>5. RestTyped'
    <3>1. ThreadsTyped'
      BY <2>1, Typing, ZenonT(60) DEF RestTyped, ThreadsTyped, Labels, Answers, NoArgs
    <3> QED
      BY <2>1, <3>1, Typing, ZenonT(60) DEF RestTyped, tables, procVars
  <2>6. EndOK(t)' /\ ProcOK(t)' /\ pc'[t] \notin Making \cup {"install"}
    BY <2>3, Zenon DEF EndOK, ProcOK, Making, BeforeHandle, WithHandle, BothHandles, Loans
  <2> QED
    BY <2>1, <2>3, <2>4, <2>5, <2>6, PlainStep, NothingTaken, OneFacts, ZenonT(60)
       DEF ring
<1>PipeFdCloseKeeps.
      ASSUME IInv, NEW t \in Threads, PipeFdClose(t)
      PROVE  IInv' /\ NotRevived
  <2> USE <1>PipeFdCloseKeeps
  <2>1. /\ pc[t] \in {"closing", "undoClose"}
        /\ Settle(One(end[t]), Nothing) /\ UNCHANGED <<ring, made>>
        /\ pc' = [pc EXCEPT ![t] = IF pc[t] = "closing" THEN "user" ELSE "undoFds"]
        /\ end' = [end EXCEPT ![t] = None]
        /\ UNCHANGED <<fds, handles, life, cancelled, calls, args, child, newfds, answer>>
    BY ZenonT(60) DEF PipeFdClose, Drop, Finish, Goto, SetEnd, tables, procVars
  <2>2. TypeOK /\ ThreadOK(t) /\ t \notin asleep
    BY <2>1, Zenon DEF IInv, Calling, ThreadOK
  <2>3. /\ Still(t) /\ pc'[t] \in {"user", "undoFds"} /\ child'[t] = child[t]
        /\ child[t] = None
    BY <2>1, <2>2, ZenonT(60) DEF Still, TypeOK, ThreadOK, ProcOK
  <2>4. Moves(One(end[t]), Nothing)
    BY <2>1, <2>3, EndDropped, ZenonT(60) DEF Loans
  <2>5. RestTyped'
    <3>1. ThreadsTyped'
      BY <2>1, Typing, ZenonT(60) DEF RestTyped, ThreadsTyped, Labels
    <3> QED
      BY <2>1, <3>1, Typing, ZenonT(60) DEF RestTyped, tables, procVars
  <2>6. EndOK(t)' /\ ProcOK(t)' /\ pc'[t] \notin Making \cup {"install"}
    BY <2>1, <2>2, <2>3, ZenonT(60)
       DEF EndOK, ProcOK, ThreadOK, Making, BeforeHandle, WithHandle, BothHandles, Loans
  <2> QED
    BY <2>1, <2>2, <2>3, <2>4, <2>5, <2>6, PlainStep, NothingTaken, OneFacts, ZenonT(60)
       DEF ring
<1>BorrowKeeps.
      ASSUME IInv, NEW t \in Threads, NEW d \in Fds, NEW op \in {"read", "write"},
             Borrow(t, d, op)
      PROVE  IInv' /\ NotRevived
  <2> USE <1>BorrowKeeps
  <2>1. ProcOf[t] \in Procs
    BY PipeAssumption, Zenon
  <2>2. PICK x \in Ends : x = fds[ProcOf[t]][d]
    BY <2>1, InTables, ZenonT(60) DEF Borrow, IInv
  <2>3. /\ pc[t] = "user" /\ t \notin asleep /\ life[ProcOf[t]] = "alive"
        /\ Settle(Nothing, One(x)) /\ UNCHANGED <<ring, made>>
        /\ end' = [end EXCEPT ![t] = x]
        /\ \/ /\ op = OpOf(x) /\ pc' = [pc EXCEPT ![t] = op]
              /\ \E len \in LengthsOf(op), nonblock \in BOOLEAN :
                   args' = [args EXCEPT ![t] = [len |-> len, nonblock |-> nonblock]]
              /\ UNCHANGED answer
           \/ /\ pc' = [pc EXCEPT ![t] = "return"]
              /\ answer' = [answer EXCEPT ![t] = "ebadf"] /\ UNCHANGED args
        /\ calls' = [calls EXCEPT ![ProcOf[t]] = @ - 1] /\ calls[ProcOf[t]] > 0
        /\ UNCHANGED <<fds, handles, life, cancelled, child, newfds>>
    BY <2>2, ZenonT(60) DEF Borrow, InUser, At, Goto, SetEnd, Spend, tables
  <2>4. TypeOK /\ ThreadOK(t)
    BY Zenon DEF IInv, Calling, ThreadOK, TypeOK
  <2>5. /\ Still(t) /\ pc'[t] \in {"read", "write", "return"} /\ child'[t] = child[t]
        /\ child[t] = None /\ end'[t] = x
        /\ pc'[t] = "read" => x.side = "r"
        /\ pc'[t] = "write" => x.side = "w"
    <3>1. Still(t) /\ child'[t] = child[t] /\ end'[t] = x
      BY <2>3, <2>4, ZenonT(60) DEF Still, TypeOK
    <3>2. child[t] = None
      BY <2>3, <2>4, ZenonT(60) DEF ThreadOK, ProcOK
    <3>3. /\ pc'[t] \in {"read", "write", "return"}
          /\ pc'[t] = "read" => x.side = "r"
          /\ pc'[t] = "write" => x.side = "w"
      BY <2>3, <2>4, EndFacts, SMT, SMTT(60) DEF TypeOK, OpOf, Sides
    <3> QED
      BY <3>1, <3>2, <3>3, ZenonT(60)
  <2>6. Moves(Nothing, One(x))
    <3> SUFFICES ASSUME NEW p \in Pipes, NEW s \in Sides
                 PROVE  Holders(EndOf(p, s))' = Holders(EndOf(p, s))
                          - Nothing[p][s] + One(x)[p][s]
      BY Zenon DEF Moves
    <3> DEFINE e == EndOf(p, s)
    <3>1. Hold(t, e) = 0 /\ Hold(t, e)' = Is(x, e)
      BY <2>3, <2>5, ZenonT(60) DEF Hold, Loans
    <3>2. Holders(e)' = Holders(e) - Hold(t, e) + Hold(t, e)'
      BY <2>3, <2>5, ThreadDelta, ZenonT(60)
    <3> QED
      BY <3>1, <3>2, OneFacts, ZenonT(60)
  <2>7. Backed(Nothing, One(x))
    <3>1. FdHolders(x) # {}
      BY <2>1, <2>2, InTables, ZenonT(60) DEF IInv, Borrow
    <3> QED
      BY <3>1, CopyBacked, ZenonT(60)
  <2>8. RestTyped'
    <3>1. ThreadsTyped'
      <4>1. args' \in [Threads -> [len : Lengths \cup {0}, nonblock : BOOLEAN]]
        <5>1. args \in [Threads -> [len : Lengths \cup {0}, nonblock : BOOLEAN]]
          BY Typing, ZenonT(60) DEF RestTyped, ThreadsTyped
        <5>2. \A len \in LengthsOf(op), nonblock \in BOOLEAN :
                [len |-> len, nonblock |-> nonblock]
                  \in [len : Lengths \cup {0}, nonblock : BOOLEAN]
          BY ZenonT(60) DEF LengthsOf, Lengths
        <5>3. \A r \in [len : Lengths \cup {0}, nonblock : BOOLEAN] :
                [args EXCEPT ![t] = r] \in [Threads -> [len : Lengths \cup {0}, nonblock : BOOLEAN]]
          BY <5>1, ZenonT(60)
        <5>4. \/ \E len \in LengthsOf(op), nonblock \in BOOLEAN :
                   args' = [args EXCEPT ![t] = [len |-> len, nonblock |-> nonblock]]
              \/ args' = args
          BY <2>3, ZenonT(60)
        <5>5. ASSUME NEW len \in LengthsOf(op), NEW nonblock \in BOOLEAN,
                     args' = [args EXCEPT ![t] = [len |-> len, nonblock |-> nonblock]]
              PROVE  args' \in [Threads -> [len : Lengths \cup {0}, nonblock : BOOLEAN]]
          <6>1. PICK r \in [len : Lengths \cup {0}, nonblock : BOOLEAN] :
                  r = [len |-> len, nonblock |-> nonblock]
            BY <5>2, ZenonT(60)
          <6>2. args' = [args EXCEPT ![t] = r]
            BY <5>5, <6>1, ZenonT(60)
          <6> QED
            BY <5>3, <6>2, ZenonT(60)
        <5> QED
          BY <5>1, <5>4, <5>5, ZenonT(60)
      <4>2. /\ pc \in [Threads -> Labels] /\ end \in [Threads -> Ends \cup {None}]
            /\ answer \in [Threads -> Answers]
        BY Typing, ZenonT(60) DEF RestTyped, ThreadsTyped
      <4>3. pc' \in [Threads -> Labels] /\ answer' \in [Threads -> Answers]
        BY <2>3, <4>2, ZenonT(60) DEF Labels, Answers
      <4>4. end' \in [Threads -> Ends \cup {None}]
        BY <2>3, <4>2, Zenon
      <4> QED
        BY <2>3, <4>1, <4>3, <4>4, Typing, ZenonT(60) DEF RestTyped, ThreadsTyped
    <3>2. ProcsTyped'
      BY <2>1, <2>3, Typing DEF RestTyped, ProcsTyped
    <3> QED
      BY <2>3, <3>1, <3>2, Typing, ZenonT(60) DEF RestTyped, tables
  <2>9. EndOK(t)' /\ ProcOK(t)' /\ pc'[t] \notin Making \cup {"install"}
    BY <2>3, <2>5, Zenon DEF EndOK, ProcOK, Making, BeforeHandle, WithHandle, BothHandles
  <2> QED
    BY <2>3, <2>5, <2>6, <2>7, <2>8, <2>9, PlainStep, OneFacts, ZenonT(60) DEF ring
<1>CloseKeeps.
      ASSUME IInv, NEW t \in Threads, NEW d \in Fds, Close(t, d)
      PROVE  IInv' /\ NotRevived
  <2> USE <1>CloseKeeps
  <2> DEFINE q == ProcOf[t]
  <2>1. q \in Procs
    BY PipeAssumption, ZenonT(60)
  <2>2. PICK x \in Ends : x = fds[q][d]
    BY <2>1, InTables, ZenonT(60) DEF Close, IInv
  <2>3. /\ pc[t] = "user" /\ t \notin asleep /\ life[q] = "alive"
        /\ pc' = [pc EXCEPT ![t] = "closing"] /\ end' = [end EXCEPT ![t] = x]
        /\ SetFd(q, d, None) /\ fds' = [fds EXCEPT ![q][d] = None]
        /\ calls' = [calls EXCEPT ![q] = @ - 1] /\ calls[q] > 0
        /\ UNCHANGED <<used, refs, asleep, ring, made, handles, life, cancelled,
                       args, child, newfds, answer>>
    BY <2>2, ZenonT(60) DEF Close, InUser, At, Goto, SetEnd, Spend, pipeVars, ring, SetFd
  <2>4. TypeOK /\ ThreadOK(t) /\ None \notin Ends
    BY PipeAssumption, ZenonT(60) DEF IInv, Calling, ThreadOK
  <2>5. /\ Still(t) /\ pc'[t] = "closing" /\ child'[t] = child[t] /\ child[t] = None
        /\ end'[t] = x
    BY <2>3, <2>4, ZenonT(60) DEF Still, TypeOK, ThreadOK, ProcOK
  <2>6. Moves(Nothing, Nothing)
    <3> SUFFICES ASSUME NEW p \in Pipes, NEW s \in Sides
                 PROVE  Holders(EndOf(p, s))' = Holders(EndOf(p, s))
                          - Nothing[p][s] + Nothing[p][s]
      BY Zenon DEF Moves
    <3> DEFINE e == EndOf(p, s)
    <3>1. Hold(t, e) = 0 /\ Hold(t, e)' = Is(x, e)
      BY <2>3, <2>5, ZenonT(60) DEF Hold, Loans
    <3>2. e # None
      BY <2>4, EndFacts, SMT, SMTT(60)
    <3>3. Holders(e)' = Holders(e) - Is(x, e) + Is(None, e) - Hold(t, e) + Hold(t, e)'
      BY <2>1, <2>2, <2>3, <2>4, <2>5, FdDelta, SMT, SMTT(60)
    <3> QED
      BY <3>1, <3>2, <3>3, OneFacts, HolderSets, SMT, SMTT(60) DEF Is
  <2>7. RestTyped'
    <3>1. ThreadsTyped' /\ ProcsTyped'
      BY <2>1, <2>3, Typing, SMT, SMTT(60) DEF RestTyped, ThreadsTyped, ProcsTyped, Labels
    <3>2. TablesTyped'
      BY <2>1, <2>3, Typing, ZenonT(60) DEF RestTyped, TablesTyped
    <3> QED
      BY <2>3, <3>1, <3>2, Typing, ZenonT(60) DEF RestTyped
  <2>8. EndOK(t)' /\ ProcOK(t)' /\ pc'[t] \notin Making \cup {"install"}
    BY <2>3, <2>5, ZenonT(60) DEF EndOK, ProcOK, Making, BeforeHandle, WithHandle, BothHandles
  <2>9. Settle(Nothing, Nothing)
    BY <2>3, NothingSettled, Zenon
  <2> QED
    BY <2>3, <2>5, <2>6, <2>7, <2>8, <2>9, PlainStep, NothingTaken, OneFacts, ZenonT(60)
       DEF ring
<1>DupKeeps.
      ASSUME IInv, NEW t \in Threads, NEW d \in Fds, NEW d2 \in Fds, Dup(t, d, d2)
      PROVE  IInv' /\ NotRevived
  <2> USE <1>DupKeeps
  <2> DEFINE q == ProcOf[t]
  <2>1. q \in Procs
    BY PipeAssumption, Zenon
  <2>2. PICK x \in Ends : x = fds[q][d]
    BY <2>1, InTables, ZenonT(60) DEF Dup, IInv
  <2>3. PICK y \in Ends \cup {None} : y = fds[q][d2]
    BY <2>1, InTables, ZenonT(60) DEF IInv
  <2>4. /\ pc[t] = "user" /\ t \notin asleep /\ life[q] = "alive"
        /\ Settle(Nothing, One(x))
        /\ y = None => UNCHANGED <<pc, end>>
        /\ y # None => /\ pc' = [pc EXCEPT ![t] = "closing"]
                       /\ end' = [end EXCEPT ![t] = y]
        /\ SetFd(q, d2, x) /\ fds' = [fds EXCEPT ![q][d2] = x]
        /\ calls' = [calls EXCEPT ![q] = @ - 1] /\ calls[q] > 0
        /\ UNCHANGED <<ring, made, handles, life, cancelled, args, child, newfds, answer>>
    BY <2>2, <2>3, ZenonT(60) DEF Dup, InUser, At, Goto, SetEnd, Spend, SetFd
  <2>5. TypeOK /\ ThreadOK(t) /\ None \notin Ends
    BY PipeAssumption, Zenon DEF IInv, Calling, ThreadOK
  <2>6. /\ Still(t) /\ pc'[t] \in {"user", "closing"} /\ child'[t] = child[t]
        /\ child[t] = None
        /\ pc'[t] = "closing" <=> y # None
        /\ pc'[t] = "closing" => end'[t] = y /\ y \in Ends
    BY <2>4, <2>5, ZenonT(60) DEF Still, TypeOK, ThreadOK, ProcOK
  <2>7. Moves(Nothing, One(x))
    <3> SUFFICES ASSUME NEW p \in Pipes, NEW s \in Sides
                 PROVE  Holders(EndOf(p, s))' = Holders(EndOf(p, s))
                          - Nothing[p][s] + One(x)[p][s]
      BY Zenon DEF Moves
    <3> DEFINE e == EndOf(p, s)
    <3>1. e # None
      BY <2>5, EndFacts, SMT, SMTT(60)
    <3>2. Hold(t, e) = 0 /\ Hold(t, e)' = Is(y, e)
      BY <2>4, <2>6, <3>1, ZenonT(60) DEF Hold, Loans, Is
    <3>3. Holders(e)' = Holders(e) - Is(y, e) + Is(x, e) - Hold(t, e) + Hold(t, e)'
      BY <2>1, <2>3, <2>4, <2>5, <2>6, FdDelta, SMT, SMTT(60)
    <3> QED
      BY <3>2, <3>3, OneFacts, HolderSets, SMT, SMTT(60) DEF Is
  <2>8. Backed(Nothing, One(x))
    <3>1. FdHolders(x) # {}
      BY <2>1, <2>2, InTables, ZenonT(60) DEF IInv, Dup
    <3> QED
      BY <3>1, CopyBacked, ZenonT(60)
  <2>9. RestTyped'
    <3>1. /\ pc \in [Threads -> Labels] /\ end \in [Threads -> Ends \cup {None}]
          /\ fds \in [Procs -> [Fds -> Ends \cup {None}]]
      BY Typing, Zenon DEF RestTyped, ThreadsTyped, TablesTyped
    <3>2. pc' \in [Threads -> Labels] /\ end' \in [Threads -> Ends \cup {None}]
      BY <2>4, <3>1, ZenonT(60) DEF Labels
    <3>3. ThreadsTyped' /\ ProcsTyped'
      BY <2>1, <2>4, <3>2, Typing DEF RestTyped, ThreadsTyped, ProcsTyped
    <3>4. fds' \in [Procs -> [Fds -> Ends \cup {None}]]
      BY <2>1, <2>4, <3>1, ZenonT(60)
    <3> QED
      BY <2>4, <3>3, <3>4, Typing, ZenonT(60) DEF RestTyped, TablesTyped
  <2>10. EndOK(t)' /\ ProcOK(t)' /\ pc'[t] \notin Making \cup {"install"}
    BY <2>4, <2>6, Zenon
       DEF EndOK, ProcOK, Making, BeforeHandle, WithHandle, BothHandles, Loans
  <2> QED
    BY <2>4, <2>6, <2>7, <2>8, <2>9, <2>10, PlainStep, OneFacts, ZenonT(60) DEF ring
<1> QED
  BY <1>BorrowKeeps, <1>FdReturnKeeps, <1>DupKeeps, <1>CloseKeeps, <1>PipeFdCloseKeeps,
     ZenonT(60) DEF FdCall

-----------------------------------------------------------------------------
(* Spawning. *)

\* sys_spawn_fds, from the new slot to the first thread or the discarded table.
LEMMA SpawnCallKeeps ==
  \A t \in Threads : IInv /\ SpawnCall(t) => IInv' /\ NotRevived
\* A descriptor replaced by a copy of another one.
<1>FdBacked.
      ASSUME IInv, NEW q \in Procs, NEW d \in Fds, NEW q2 \in Procs, NEW d2 \in Fds,
             <<q, d>> # <<q2, d2>>, fds[q2][d2] # None
      PROVE  Backed(One(fds[q][d]), One(fds[q2][d2]))
  <2> USE <1>FdBacked
  <2>1. PICK e \in Ends : e = fds[q2][d2]
    BY InTables, ZenonT(60) DEF IInv
  <2>2. <<q2, d2>> \in FdHolders(e)
    BY <2>1, ZenonT(60) DEF FdHolders
  <2> DEFINE x == fds[q][d]
  <2> SUFFICES ASSUME NEW p \in Pipes, NEW s \in Sides, One(e)[p][s] # 0
               PROVE  /\ One(x)[p][s] < refs[p][s]
                      /\ FdHolders(EndOf(p, s)) # {} \/ HandleHolders(EndOf(p, s)) # {}
    BY <2>1, ZenonT(60) DEF Backed
  <2>3. e = EndOf(p, s)
    BY OneFacts, SMT, SMTT(60) DEF Is
  <2>4. refs[p][s] = Holders(e) /\ One(x)[p][s] = Is(x, e)
    BY <2>3, OneFacts, SMT, SMTT(60) DEF IInv, RefsExact
  <2>5. Is(x, e) < Cardinality(FdHolders(e))
    <3>1. CASE x = e
      <4>1. <<q, d>> \in FdHolders(e)
        BY <3>1, Zenon DEF FdHolders
      <4> DEFINE R == FdHolders(e) \ {<<q, d>>}
      <4>2. /\ IsFiniteSet(R) /\ R # {}
            /\ Cardinality(R) = Cardinality(FdHolders(e)) - 1
        BY <2>2, <4>1, HolderSets, FS_RemoveElement, ZenonT(60)
      <4> HIDE DEF R
      <4>3. Cardinality(R) \in Nat /\ Cardinality(R) # 0
        BY <4>2, CountOne, ZenonT(60)
      <4> QED
        BY <3>1, <4>2, <4>3, HolderSets, SMT, SMTT(60) DEF Is
    <3>2. CASE x # e
      <4>1. Cardinality(FdHolders(e)) # 0
        BY <2>2, HolderSets, CountOne, ZenonT(60)
      <4> QED
        BY <3>2, <4>1, HolderSets, SMT, SMTT(60) DEF Is
    <3> QED
      BY <3>1, <3>2, ZenonT(60)
  <2>6. Is(x, e) < Holders(e)
    <3>1. Is(x, e) \in {0, 1}
      BY Zenon DEF Is
    <3> HIDE DEF x
    <3> QED
      BY <2>5, <3>1, HolderSets, SMT, SMTT(60)
  <2> QED
    BY <2>2, <2>3, <2>4, <2>6, ZenonT(60)
<1>SpawnInheritKeeps.
      ASSUME IInv, NEW t \in Threads, NEW d \in Fds, NEW d2 \in Fds, SpawnInherit(t, d, d2)
      PROVE  IInv' /\ NotRevived
  <2> USE <1>SpawnInheritKeeps
  <2> DEFINE q == child[t]
             x == fds[ProcOf[t]][d]
  <2>1. /\ pc[t] = "spawn" /\ t \notin asleep /\ x # None
        /\ Settle(One(fds[q][d2]), One(x)) /\ SetFd(q, d2, x)
        /\ UNCHANGED <<ring, made, handles, procVars, threadVars>>
    BY ZenonT(60) DEF SpawnInherit, At
  <2>2. TypeOK /\ ThreadOK(t)
    BY Zenon DEF IInv, Calling, ThreadOK
  <2>3. ProcOf[t] \in Procs /\ q \in Procs /\ q # ProcOf[t]
    BY <2>1, <2>2, PipeAssumption, ZenonT(60) DEF TypeOK, ThreadOK, ProcOK
  <2>4. Still(t) /\ pc'[t] = pc[t] /\ child'[t] = child[t] /\ end'[t] = end[t]
    BY <2>1, Zenon DEF Still, threadVars
  <2>5. Moves(One(fds[q][d2]), One(x))
    <3>1. pc[t] \notin Loans \cup BeforeHandle
      BY <2>1, ZenonT(60) DEF Loans, BeforeHandle
    <3> QED
      BY <2>1, <2>3, <2>4, <3>1, FdReplaced, ZenonT(60)
  <2>6. Backed(One(fds[q][d2]), One(x))
    BY <2>1, <2>3, <1>FdBacked, ZenonT(60)
  <2>7. RestTyped'
    <3>1. x \in Ends
      BY <2>1, <2>2, <2>3, InTables, ZenonT(60)
    <3>2. fds' \in [Procs -> [Fds -> Ends \cup {None}]]
      BY <2>1, <2>3, <3>1, Typing, ZenonT(60) DEF RestTyped, TablesTyped, SetFd
    <3> QED
      BY <2>1, <3>2, Typing, ZenonT(60) DEF RestTyped, TablesTyped
  <2>8. EndOK(t)' /\ ProcOK(t)' /\ pc'[t] \notin Making \cup {"install"}
    BY <2>1, <2>2, <2>4, ZenonT(60)
       DEF EndOK, ProcOK, ThreadOK, procVars, Making, BeforeHandle, WithHandle,
           BothHandles
  <2> QED
    BY <2>1, <2>4, <2>5, <2>6, <2>7, <2>8, PlainStep, OneFacts, ZenonT(60)
       DEF ring, procVars
<1>SpawnFailsKeeps.
      ASSUME IInv, NEW t \in Threads, SpawnFails(t)
      PROVE  IInv' /\ NotRevived
  <2> USE <1>SpawnFailsKeeps
  <2>1. /\ pc[t] = "spawn" /\ t \notin asleep
        /\ pc' = [pc EXCEPT ![t] = "discard"]
        /\ UNCHANGED <<used, refs, asleep, ring, made, fds, handles, life, cancelled, calls,
                       end, args, child, newfds, answer>>
    BY ZenonT(60) DEF SpawnFails, At, Goto, pipeVars, ring, tables, procVars
  <2>2. TypeOK /\ ThreadOK(t)
    BY Zenon DEF IInv, Calling, ThreadOK
  <2>3. Still(t) /\ pc'[t] = "discard" /\ child'[t] = child[t]
    BY <2>1, <2>2, ZenonT(60) DEF Still, TypeOK
  <2>4. Moves(Nothing, Nothing)
    BY <2>1, <2>3, NobodyMoves, ZenonT(60) DEF Loans, BeforeHandle
  <2>5. RestTyped'
    <3>1. ThreadsTyped'
      BY <2>1, Typing, ZenonT(60) DEF RestTyped, ThreadsTyped, Labels
    <3> QED
      BY <2>1, <3>1, Typing, ZenonT(60) DEF RestTyped, tables, procVars
  <2>6. EndOK(t)' /\ ProcOK(t)' /\ pc'[t] \notin Making \cup {"install"}
    BY <2>1, <2>2, <2>3, ZenonT(60)
       DEF EndOK, ProcOK, ThreadOK, Making, BeforeHandle, WithHandle, BothHandles, Loans
  <2>7. Settle(Nothing, Nothing)
    BY <2>1, NothingSettled, Zenon
  <2> QED
    BY <2>1, <2>3, <2>4, <2>5, <2>6, <2>7, PlainStep, NothingTaken, OneFacts, ZenonT(60)
       DEF ring
\* A spawn ends: the process it built becomes alive, or is unborn again.
<1>SpawnEnds.
      ASSUME IInv, NEW t \in Threads, t \notin asleep, pc[t] \in {"spawn", "discard"},
             NEW l \in {"alive", "unborn"}, life' = [life EXCEPT ![child[t]] = l],
             child' = [child EXCEPT ![t] = None], Goto(t, "user"),
             UNCHANGED <<used, refs, asleep, ring, made, fds, handles, cancelled, calls,
                         end, args, newfds, answer>>
      PROVE  IInv' /\ NotRevived
  <2> USE <1>SpawnEnds
  <2>1. TypeOK /\ ThreadOK(t)
    BY Zenon DEF IInv, Calling, ThreadOK
  <2>2. child[t] \in Procs /\ life[child[t]] = "spawning"
    BY <2>1, ZenonT(60) DEF TypeOK, ThreadOK, ProcOK
  <2>3. Still(t) /\ pc'[t] = "user" /\ child'[t] = None
    BY <2>1, ZenonT(60) DEF Still, TypeOK, Goto
  <2>4. Moves(Nothing, Nothing)
    BY <2>3, NobodyMoves, Zenon DEF Loans, BeforeHandle
  <2>5. RestTyped'
    <3>1. ThreadsTyped'
      BY Typing, ZenonT(60) DEF RestTyped, ThreadsTyped, Labels, Goto
    <3>2. ProcsTyped'
      BY <2>2, Typing, ZenonT(60) DEF RestTyped, ProcsTyped
    <3> QED
      BY <3>1, <3>2, Typing, ZenonT(60) DEF RestTyped, tables
  <2>6. ThreadOK(t)'
    BY <2>3, ZenonT(60) DEF ThreadOK, EndOK, ProcOK, HandlesOK, FreshOK, Making, BeforeHandle,
                WithHandle, BothHandles, Loans
  <2>7. \A u \in Threads \ {t} : HandlesOK(u)' /\ ProcOK(u)'
    <3> TAKE u \in Threads \ {t}
    <3>1. HandlesOK(u)'
      BY <2>3, ElsewhereKept, ZenonT(60)
    <3>2. /\ ProcOK(u) /\ Apart(t, u) /\ pc'[u] = pc[u] /\ child'[u] = child[u]
          /\ ProcOf[u] \in Procs /\ child[u] \in Procs \cup {None}
      BY <2>1, <2>3, PipeAssumption, ZenonT(60) DEF Still, IInv, Calling, TypeOK
    <3>3. child[t] # child[u] /\ child[t] # None
      BY <2>2, <3>2, PipeAssumption, Zenon DEF Apart
    <3>4. \A r \in Procs : r # child[t] => life'[r] = life[r]
      BY <2>1, Zenon DEF TypeOK
    <3> QED
      BY <2>2, <3>1, <3>2, <3>3, <3>4, ZenonT(60) DEF ProcOK
  <2>8. \A u, v \in Threads : u # v => Apart(u, v)'
    BY <2>3, ApartKeeps, Zenon DEF Making, BeforeHandle, WithHandle, BothHandles
  <2>9. Settle(Nothing, Nothing)
    BY NothingSettled, Zenon
  <2> QED
    BY <2>3, <2>4, <2>5, <2>6, <2>7, <2>8, <2>9, StepKeeps, NothingTaken, OneFacts,
       ZenonT(60) DEF ring
<1>SpawnDoneKeeps.
      ASSUME IInv, NEW t \in Threads, SpawnDone(t)
      PROVE  IInv' /\ NotRevived
  BY <1>SpawnDoneKeeps, <1>SpawnEnds, ZenonT(60) DEF SpawnDone, At, pipeVars, ring, tables
<1>SpawnDiscardFdsKeeps.
      ASSUME IInv, NEW t \in Threads, SpawnDiscardFds(t)
      PROVE  IInv' /\ NotRevived
  <2> USE <1>SpawnDiscardFdsKeeps
  <2> DEFINE q == child[t]
  <2>1. /\ pc[t] = "discard" /\ t \notin asleep
        /\ UNCHANGED <<handles, cancelled, calls, end, args, newfds, answer>>
    BY ZenonT(60) DEF SpawnDiscardFds, At
  <2>2. TypeOK /\ ThreadOK(t)
    BY Zenon DEF IInv, Calling, ThreadOK
  <2>3. q \in Procs
    BY <2>1, <2>2, ZenonT(60) DEF TypeOK, ThreadOK, ProcOK
  <2>4. ASSUME NEW d \in Fds, Drop(One(fds[q][d])), SetFd(q, d, None),
               UNCHANGED <<life, child, pc>>
        PROVE  IInv' /\ NotRevived
    <3>1. Still(t) /\ pc'[t] = pc[t] /\ child'[t] = child[t] /\ end'[t] = end[t]
      BY <2>1, <2>4, ZenonT(60) DEF Still
    <3>2. Settle(One(fds[q][d]), One(None)) /\ UNCHANGED <<ring, made>>
      BY <2>4, OneNone, ZenonT(60) DEF Drop
    <3>3. Moves(One(fds[q][d]), One(None))
      <4>1. pc[t] \notin Loans \cup BeforeHandle
        BY <2>1, Zenon DEF Loans, BeforeHandle
      <4> QED
        BY <2>1, <2>3, <2>4, <3>1, <4>1, FdReplaced, ZenonT(60)
    <3>4. Backed(One(fds[q][d]), One(None))
      BY OneNone, NothingTaken, ZenonT(60)
    <3>5. RestTyped'
      <4>1. fds' \in [Procs -> [Fds -> Ends \cup {None}]]
        BY <2>3, <2>4, Typing, ZenonT(60) DEF RestTyped, TablesTyped, SetFd
      <4> QED
        BY <2>1, <2>4, <3>2, <4>1, Typing, ZenonT(60)
           DEF RestTyped, TablesTyped, procVars, threadVars
    <3>6. EndOK(t)' /\ ProcOK(t)' /\ pc'[t] \notin Making \cup {"install"}
      BY <2>1, <2>2, <2>4, <3>1, ZenonT(60)
         DEF EndOK, ProcOK, ThreadOK, Making, BeforeHandle, WithHandle, BothHandles
    <3> QED
      BY <2>1, <2>4, <3>1, <3>2, <3>3, <3>4, <3>5, <3>6, PlainStep, OneFacts, ZenonT(60)
         DEF ring
  <2>5. ASSUME life' = [life EXCEPT ![q] = "unborn"], child' = [child EXCEPT ![t] = None],
               Goto(t, "user"), UNCHANGED <<pipeVars, fds, asleep>>
        PROVE  IInv' /\ NotRevived
    BY <2>1, <2>5, <1>SpawnEnds, ZenonT(60) DEF pipeVars, ring
  <2> QED
    BY <2>4, <2>5, ZenonT(60) DEF SpawnDiscardFds
<1>SpawnBeginKeeps.
      ASSUME IInv, NEW t \in Threads, NEW q \in Procs, SpawnBegin(t, q)
      PROVE  IInv' /\ NotRevived
  <2> USE <1>SpawnBeginKeeps
  <2>1. /\ pc[t] = "user" /\ t \notin asleep /\ life[ProcOf[t]] = "alive"
        /\ life[q] = "unborn" /\ life' = [life EXCEPT ![q] = "spawning"]
        /\ child' = [child EXCEPT ![t] = q] /\ pc' = [pc EXCEPT ![t] = "spawn"]
        /\ UNCHANGED <<used, refs, asleep, ring, made, fds, handles, cancelled, calls,
                       end, args, newfds, answer>>
    BY ZenonT(60) DEF SpawnBegin, InUser, At, Goto, pipeVars, ring, tables
  <2>2. TypeOK /\ ThreadOK(t) /\ None \notin Procs /\ ProcOf[t] \in Procs
    BY PipeAssumption, ZenonT(60) DEF IInv, Calling, ThreadOK
  <2>3. /\ Still(t) /\ pc'[t] = "spawn" /\ child'[t] = q
        /\ \A r \in Procs : r # q => life'[r] = life[r]
        /\ life'[q] = "spawning"
    BY <2>1, <2>2, ZenonT(60) DEF Still, TypeOK
  <2>4. Moves(Nothing, Nothing)
    BY <2>1, <2>3, NobodyMoves, ZenonT(60) DEF Loans, BeforeHandle
  <2>5. RestTyped'
    <3>1. ThreadsTyped'
      BY <2>1, Typing, Zenon DEF RestTyped, ThreadsTyped, Labels
    <3>2. ProcsTyped'
      BY <2>1, Typing, ZenonT(60) DEF RestTyped, ProcsTyped
    <3> QED
      BY <2>1, <3>1, <3>2, Typing, ZenonT(60) DEF RestTyped, tables
  <2>6. ThreadOK(t)'
    BY <2>1, <2>2, <2>3, ZenonT(60)
       DEF ThreadOK, EndOK, ProcOK, HandlesOK, FreshOK, Making, BeforeHandle,
           WithHandle, BothHandles, Loans
  <2>7. \A u \in Threads \ {t} :
          /\ ProcOK(u) /\ Apart(u, t) /\ Apart(t, u) /\ pc'[u] = pc[u] /\ end'[u] = end[u]
          /\ child'[u] = child[u] /\ child[u] # q
          /\ ProcOf[u] \in Procs /\ child[u] \in Procs \cup {None}
    <3> TAKE u \in Threads \ {t}
    <3>1. ProcOK(u) /\ Apart(u, t) /\ Apart(t, u)
      BY ZenonT(60) DEF IInv, Calling
    <3>2. pc'[u] = pc[u] /\ end'[u] = end[u] /\ child'[u] = child[u]
      BY <2>3, ZenonT(60) DEF Still
    <3>3. ProcOf[u] \in Procs /\ child[u] \in Procs \cup {None}
      BY <2>2, PipeAssumption, ZenonT(60) DEF TypeOK
    <3>4. child[u] # q
      BY <2>1, <2>2, <3>1, ZenonT(60) DEF ProcOK
    <3> QED
      BY <3>1, <3>2, <3>3, <3>4, Zenon
  <2>8. \A u \in Threads \ {t} : HandlesOK(u)' /\ ProcOK(u)'
    <3> TAKE u \in Threads \ {t}
    <3>1. HandlesOK(u)'
      BY <2>1, <2>3, ElsewhereKept, ZenonT(60)
    <3>2. pc[u] # "user" => ProcOf[u] # q
      BY <2>1, <2>7, Zenon DEF ProcOK
    <3>3. child[u] # None => life'[child[u]] = life[child[u]]
      BY <2>3, <2>7, ZenonT(60)
    <3> QED
      <4>1. /\ ProcOK(u) /\ pc'[u] = pc[u] /\ child'[u] = child[u]
            /\ pc[u] # "user" => life'[ProcOf[u]] = life[ProcOf[u]]
        BY <2>3, <2>7, <3>2, ZenonT(60)
      <4>2. ProcOK(u)'
        BY <3>3, <4>1, ZenonT(60) DEF ProcOK
      <4> QED
        BY <3>1, <4>2, ZenonT(60)
  <2>9. \A u, v \in Threads : u # v => Apart(u, v)'
    <3> SUFFICES ASSUME NEW u \in Threads, NEW v \in Threads, u # v PROVE Apart(u, v)'
      BY Zenon
    <3>1. pc'[t] \notin Making /\ pc'[t] # "install" /\ pc'[t] \notin WithHandle
      BY <2>3, ZenonT(60) DEF Making, BeforeHandle, WithHandle, BothHandles
    <3>2. CASE u = t
      BY <2>3, <2>7, <3>1, <3>2, ZenonT(60) DEF Apart
    <3>3. CASE v = t
      BY <2>3, <2>7, <3>1, <3>3, ZenonT(60) DEF Apart, MakingOn
    <3>4. CASE u # t /\ v # t
      <4>1. Apart(u, v)
        BY Zenon DEF IInv, Calling
      <4> QED
        BY <2>7, <3>4, <4>1, ZenonT(60) DEF Apart, MakingOn
    <3> QED
      BY <3>2, <3>3, <3>4, ZenonT(60)
  <2>10. Settle(Nothing, Nothing)
    BY <2>1, NothingSettled, Zenon
  <2> QED
    BY <2>1, <2>3, <2>4, <2>5, <2>6, <2>8, <2>9, <2>10, StepKeeps, NothingTaken,
       OneFacts, ZenonT(60) DEF ring
<1> QED
  BY <1>SpawnBeginKeeps, <1>SpawnInheritKeeps, <1>SpawnDoneKeeps, <1>SpawnFailsKeeps,
     <1>SpawnDiscardFdsKeeps, ZenonT(60) DEF SpawnCall
=============================================================================
