----------------------------- MODULE PipeProofs -----------------------------
(***************************************************************************)
(* Proofs about Pipe, for any number of threads, processes, pipes and      *)
(* descriptors: the reference counts are exact, nobody oversleeps, a       *)
(* hang-up is final.  The counts are only exact as long as no thread uses  *)
(* or closes a handle that a sibling's call is still working with          *)
(* (~HandleRaces).                                                         *)
(***************************************************************************)
EXTENDS PipeStepProofs

(* Handles. *)

\* Thread t removes a handle of its process that no sibling works with.
LEMMA HandleRemoved ==
  ASSUME IInv, NEW t \in Threads, Still(t), NEW x \in Ends,
         SetHandles(ProcOf[t], handles[ProcOf[t]] \ {x}),
         NEW u \in Threads \ {t},
         ProcOf[u] = ProcOf[t] =>
           /\ pc[u] \in WithHandle => end[u].pipe # x.pipe
           /\ pc[u] = "install" => end[u] # x
  PROVE  HandlesOK(u)'
<1>1. HandlesOK(u) /\ EndOK(u) /\ pc'[u] = pc[u] /\ end'[u] = end[u]
  BY Zenon DEF IInv, Calling, Still
<1>2. ProcOf[u] \in Procs /\ ProcOf[t] \in Procs
  BY PipeAssumption, Zenon
<1>3. CASE ProcOf[u] # ProcOf[t]
  <2>1. handles'[ProcOf[u]] = handles[ProcOf[u]]
    BY <1>2, <1>3, Typing, Zenon DEF SetHandles, RestTyped, TablesTyped
  <2> QED
    BY <1>1, <2>1, Zenon DEF HandlesOK
<1>4. CASE ProcOf[u] = ProcOf[t]
  <2>1. handles'[ProcOf[u]] = handles[ProcOf[u]] \ {x}
    BY <1>2, <1>4, Typing, Zenon DEF SetHandles, RestTyped, TablesTyped
  <2>2. CASE pc[u] \in WithHandle
    <3>1. \A s \in Sides : EndOf(end[u].pipe, s) # x
      BY <1>4, <2>2, SMT, SMTT(60) DEF EndOf
    <3> QED
      BY <1>1, <2>1, <2>2, <3>1, ZenonT(60) DEF HandlesOK, WithHandle, BothHandles, Sides
  <2>3. CASE pc[u] \notin WithHandle
    BY <1>1, <1>4, <2>1, <2>3, ZenonT(60) DEF HandlesOK, WithHandle
  <2> QED
    BY <2>2, <2>3, Zenon
<1> QED
  BY <1>3, <1>4, Zenon

LEMMA HandleGone ==
  ASSUME NEW S, NEW x \in S, NEW e, NEW h \in Nat
  PROVE  h - Among(e, S) + Among(e, S \ {x}) = h - Is(x, e)
  BY SMT, SMTT(60) DEF Among, Is

LEMMA HandleDropped ==
  ASSUME TypeOK, NEW t \in Threads, Still(t), UNCHANGED fds, NEW q \in Procs,
         NEW x \in handles[q], SetHandles(q, handles[q] \ {x}),
         \A e : Hold(t, e)' = Hold(t, e)
  PROVE  Moves(One(x), Nothing)
<1> SUFFICES ASSUME NEW p \in Pipes, NEW s \in Sides
             PROVE  Holders(EndOf(p, s))' = Holders(EndOf(p, s))
                      - One(x)[p][s] + Nothing[p][s]
  BY Zenon DEF Moves
<1>1. PICK e : e = EndOf(p, s)
  BY Zenon
<1>2. Cardinality(HandleHolders(e)') = Cardinality(HandleHolders(e)) - Is(x, e)
  <2>1. Cardinality(HandleHolders(e)') = Cardinality(HandleHolders(e))
          - Among(e, handles[q]) + Among(e, handles[q] \ {x})
    BY HandleStep, Zenon
  <2>2. Cardinality(HandleHolders(e)) \in Nat
    BY HolderSets, Zenon
  <2> QED
    BY <2>1, <2>2, HandleGone, SMT, SMTT(60)
<1>3. Cardinality(HoldingThreads(e)') = Cardinality(HoldingThreads(e))
  <2>1. Cardinality(HoldingThreads(e)') =
          Cardinality(HoldingThreads(e)) - Hold(t, e) + Hold(t, e)'
    BY ThreadStep, HoldCounts, SMT, SMTT(60) DEF Still
  <2>2. Hold(t, e) \in {0, 1} /\ Hold(t, e)' = Hold(t, e)
    BY HoldCounts, Zenon
  <2> QED
    BY <2>1, <2>2, HolderSets, SMT, SMTT(60)
<1>4. Cardinality(FdHolders(e)') = Cardinality(FdHolders(e))
  BY SameHolders, Zenon
<1>5. One(x)[p][s] = Is(x, e) /\ Nothing[p][s] = 0 /\ Is(x, e) \in {0, 1}
  BY <1>1, OneFacts, SMT, SMTT(60) DEF Is
<1> QED
  BY <1>1, <1>2, <1>3, <1>4, <1>5, HolderSets, HoldersNext, SMT, SMTT(60)

\* handle_close, and the installation of a handle's end as a descriptor.
LEMMA HandleCallKeeps ==
  \A t \in Threads : IInv /\ ~HandleRaces /\ HandleCall(t) => IInv' /\ NotRevived
\* A descriptor replaced by a copy of a handle's end.
<1>HandleBacked.
      ASSUME IInv, NEW e \in Ends, HandleHolders(e) # {},
             NEW q \in Procs, NEW d \in Fds
      PROVE  Backed(One(fds[q][d]), One(e))
  <2> USE <1>HandleBacked
  <2> DEFINE x == fds[q][d]
  <2> SUFFICES ASSUME NEW p \in Pipes, NEW s \in Sides, One(e)[p][s] # 0
               PROVE  /\ One(x)[p][s] < refs[p][s]
                      /\ FdHolders(EndOf(p, s)) # {} \/ HandleHolders(EndOf(p, s)) # {}
    BY Zenon DEF Backed
  <2>1. e = EndOf(p, s)
    BY OneFacts, SMT, SMTT(60) DEF Is
  <2>2. refs[p][s] = Holders(e) /\ One(x)[p][s] = Is(x, e)
    BY <2>1, OneFacts, SMT, SMTT(60) DEF IInv, RefsExact
  <2>3. Cardinality(HandleHolders(e)) # 0
    BY HolderSets, CountOne, Zenon
  <2>4. Is(x, e) = 0 \/ Cardinality(FdHolders(e)) # 0
    <3>1. x = e => <<q, d>> \in FdHolders(e)
      BY Zenon DEF FdHolders
    <3> QED
      BY <3>1, HolderSets, CountOne, Zenon DEF Is
  <2>5. Is(x, e) \in {0, 1}
    BY Zenon DEF Is
  <2>6. Is(x, e) < Holders(e)
    <3> HIDE DEF x
    <3> QED
      BY <2>3, <2>4, <2>5, HolderSets, SMT, SMTT(60)
  <2> QED
    BY <2>1, <2>2, <2>6, ZenonT(60)
<1>InstallPipeKeeps.
      ASSUME IInv, NEW t \in Threads, NEW d \in Fds, InstallPipe(t, d)
      PROVE  IInv' /\ NotRevived
  <2> USE <1>InstallPipeKeeps
  <2> DEFINE q == Target(t)
  <2>1. /\ pc[t] = "install" /\ t \notin asleep
        /\ \/ /\ Settle(One(fds[q][d]), One(end[t])) /\ SetFd(q, d, end[t])
              /\ pc' = [pc EXCEPT ![t] = Resume(t)]
           \/ /\ Settle(One(fds[q][d]), One(None)) /\ SetFd(q, d, None)
              /\ pc' = [pc EXCEPT ![t] = IF child[t] = None THEN "user" ELSE "discard"]
        /\ end' = [end EXCEPT ![t] = None]
        /\ UNCHANGED <<ring, made, handles, procVars, args, child, newfds, answer>>
    BY OneNone, Zenon DEF InstallPipe, At, Goto, SetEnd
  <2>2. TypeOK /\ ThreadOK(t) /\ None \notin Ends /\ None \notin Procs
    BY PipeAssumption, Zenon DEF IInv, Calling, ThreadOK
  <2>3. q \in Procs /\ end[t] \in Ends /\ HandleHolders(end[t]) # {}
    <3>1. ProcOf[t] \in Procs /\ child[t] \in Procs \cup {None}
      BY <2>2, PipeAssumption, Zenon DEF TypeOK
    <3>2. end[t] \in handles[ProcOf[t]]
      BY <2>1, <2>2, Zenon DEF ThreadOK, HandlesOK
    <3> QED
      BY <2>2, <3>1, <3>2, InTables, ZenonT(60) DEF Target
  <2>4. /\ Still(t) /\ child'[t] = child[t] /\ end'[t] = None
        /\ pc'[t] \in {"user", "spawn", "discard"}
        /\ pc'[t] = "user" <=> child[t] = None
    BY <2>1, <2>2, ZenonT(60) DEF Still, TypeOK, Resume
  <2>5. PICK x \in Ends \cup {None} :
          /\ Settle(One(fds[q][d]), One(x)) /\ SetFd(q, d, x)
          /\ x = end[t] \/ x = None
    BY <2>1, <2>3, Zenon
  <2>6. Moves(One(fds[q][d]), One(x))
    <3>1. /\ pc[t] \notin Loans \cup BeforeHandle
          /\ pc'[t] \notin Loans \cup BeforeHandle
      BY <2>1, <2>4, Zenon DEF Loans, BeforeHandle
    <3> QED
      BY <2>1, <2>3, <2>4, <2>5, <3>1, FdReplaced, ZenonT(60)
  <2>7. Backed(One(fds[q][d]), One(x))
    <3>1. CASE x = None
      BY <3>1, OneNone, NothingTaken, Zenon
    <3>2. CASE x = end[t]
      BY <2>3, <3>2, <1>HandleBacked, Zenon
    <3> QED
      BY <2>5, <3>1, <3>2, Zenon
  <2>8. RestTyped'
    <3>1. ThreadsTyped'
      BY <2>1, <2>4, Typing, ZenonT(60) DEF RestTyped, ThreadsTyped, Labels, Resume
    <3>2. fds' \in [Procs -> [Fds -> Ends \cup {None}]]
      BY <2>3, <2>5, Typing, Zenon DEF RestTyped, TablesTyped, SetFd
    <3> QED
      BY <2>1, <3>1, <3>2, Typing, Zenon DEF RestTyped, TablesTyped
  <2>9. EndOK(t)' /\ ProcOK(t)' /\ pc'[t] \notin Making \cup {"install"}
    BY <2>1, <2>2, <2>4, Zenon
       DEF EndOK, ProcOK, ThreadOK, procVars, Making, BeforeHandle, WithHandle,
           BothHandles, Loans
  <2> QED
    BY <2>1, <2>4, <2>5, <2>6, <2>7, <2>8, <2>9, PlainStep, OneFacts, ZenonT(60)
       DEF ring, procVars
<1>HandleCloseKeeps.
      ASSUME IInv, ~HandleRaces, NEW t \in Threads, NEW x \in Ends, HandleClose(t, x)
      PROVE  IInv' /\ NotRevived
  <2> USE <1>HandleCloseKeeps
  <2> DEFINE q == ProcOf[t]
  <2>1. /\ pc[t] = "user" /\ t \notin asleep /\ x \in handles[q] /\ ~Busy(t, x)
        /\ SetHandles(q, handles[q] \ {x}) /\ Settle(One(x), Nothing)
        /\ UNCHANGED <<ring, made, fds, life, cancelled, calls>>
        /\ UNCHANGED <<pc, end, args, child, newfds, answer>>
    BY Zenon DEF HandleClose, InUser, At, Drop, procVars, threadVars
  <2>2. TypeOK /\ ThreadOK(t) /\ q \in Procs /\ handles[q] \subseteq Ends
    BY PipeAssumption, ZenonT(60) DEF IInv, Calling, ThreadOK, TypeOK
  <2>3. Still(t) /\ pc'[t] = "user" /\ child'[t] = child[t] /\ end'[t] = end[t]
    BY <2>1, Zenon DEF Still
  <2>4. Moves(One(x), Nothing)
    <3>1. \A e : Hold(t, e)' = Hold(t, e)
      BY <2>1, <2>3, Zenon DEF Hold
    <3> QED
      BY <2>1, <2>2, <2>3, <3>1, HandleDropped, ZenonT(60)
  <2>5. RestTyped'
    <3>1. handles' \in [Procs -> SUBSET Ends]
      BY <2>1, <2>2, Typing, ZenonT(60) DEF RestTyped, TablesTyped, SetHandles
    <3> QED
      BY <2>1, <3>1, Typing, Zenon DEF RestTyped, TablesTyped, procVars, threadVars
  <2>6. ThreadOK(t)'
    BY <2>1, <2>2, <2>3, ZenonT(60) DEF ThreadOK, EndOK, ProcOK, HandlesOK, FreshOK, Making,
                            BeforeHandle, WithHandle, BothHandles, Loans
  <2>7. \A u \in Threads \ {t} : HandlesOK(u)' /\ ProcOK(u)'
    <3> TAKE u \in Threads \ {t}
    <3>1. ProcOf[u] = ProcOf[t] =>
            /\ pc[u] \in WithHandle => end[u].pipe # x.pipe
            /\ pc[u] = "install" => end[u] # x
      BY <2>1, Zenon DEF Busy, WithHandle, BothHandles
    <3>2. HandlesOK(u)'
      BY <2>1, <2>3, <3>1, HandleRemoved, ZenonT(60)
    <3> QED
      BY <2>1, <2>3, <3>2, ElsewhereKept, ZenonT(60)
  <2>8. \A u, v \in Threads : u # v => Apart(u, v)'
    BY <2>1, <2>3, ApartKeeps, Zenon DEF Making, BeforeHandle, WithHandle, BothHandles
  <2> QED
    BY <2>1, <2>3, <2>4, <2>5, <2>6, <2>7, <2>8, StepKeeps, NothingTaken, OneFacts,
       ZenonT(60) DEF ring
<1>ResolveHandleKeeps.
      ASSUME IInv, ~HandleRaces, NEW t \in Threads, NEW x \in Ends, ResolveHandle(t, x)
      PROVE  IInv' /\ NotRevived
  <2> USE <1>ResolveHandleKeeps
  <2> DEFINE q == ProcOf[t]
  <2>1. /\ \/ pc[t] = "user" /\ life[q] = "alive"
           \/ pc[t] = "spawn"
        /\ t \notin asleep /\ x \in handles[q] /\ ~Busy(t, x)
        /\ \/ UNCHANGED calls
           \/ calls[q] > 0 /\ calls' = [calls EXCEPT ![q] = @ - 1]
        /\ pc' = [pc EXCEPT ![t] = "install"] /\ end' = [end EXCEPT ![t] = x]
        /\ UNCHANGED <<used, refs, asleep, ring, made, fds, handles, life, cancelled>>
        /\ UNCHANGED <<args, child, newfds, answer>>
    BY Zenon DEF ResolveHandle, InUser, At, Spend, Goto, SetEnd, pipeVars, ring, tables
  <2>2. TypeOK /\ ThreadOK(t) /\ q \in Procs
    BY PipeAssumption, Zenon DEF IInv, Calling, ThreadOK
  <2>3. Still(t) /\ pc'[t] = "install" /\ child'[t] = child[t] /\ end'[t] = x
    BY <2>1, <2>2, Zenon DEF Still, TypeOK
  <2>4. Moves(Nothing, Nothing)
    BY <2>1, <2>3, NobodyMoves, ZenonT(60) DEF Loans, BeforeHandle
  <2>5. RestTyped'
    <3>1. ThreadsTyped'
      BY <2>1, Typing, Zenon DEF RestTyped, ThreadsTyped, Labels
    <3>2. ProcsTyped'
      BY <2>1, <2>2, Typing, SMT, SMTT(60) DEF RestTyped, ProcsTyped
    <3> QED
      BY <2>1, <3>1, <3>2, Typing, ZenonT(60) DEF RestTyped, tables
  <2>6. ThreadOK(t)'
    BY <2>1, <2>2, <2>3, ZenonT(60) DEF ThreadOK, EndOK, ProcOK, HandlesOK, FreshOK, Making,
                            BeforeHandle, WithHandle, BothHandles, Loans
  <2>7. \A u \in Threads \ {t} : HandlesOK(u)' /\ ProcOK(u)'
    BY <2>1, <2>3, ElsewhereKept, Zenon
  <2>8. \A u, v \in Threads : u # v => Apart(u, v)'
    <3> SUFFICES ASSUME NEW u \in Threads, NEW v \in Threads, u # v PROVE Apart(u, v)'
      BY Zenon
    <3>1. pc'[t] \notin Making /\ pc'[t] \notin WithHandle
      BY <2>3, Zenon DEF Making, BeforeHandle, WithHandle, BothHandles
    <3>2. Apart(u, v) /\ Apart(v, u)
      BY Zenon DEF IInv, Calling
    <3>3. CASE u = t
      <4>1. pc'[v] = pc[v] /\ end'[v] = end[v] /\ child'[v] = child[v]
        BY <2>3, <3>3, Zenon DEF Still
      <4>2. ProcOf[t] = ProcOf[v] => ~(pc[v] \in WithHandle /\ end[v].pipe = x.pipe)
        BY <2>1, <3>3, Zenon DEF Busy, WithHandle, BothHandles
      <4> QED
        BY <2>3, <3>1, <3>2, <3>3, <4>1, <4>2, ZenonT(60) DEF Apart, MakingOn
    <3>4. CASE v = t
      BY <2>3, <3>1, <3>2, <3>4, ZenonT(60) DEF Apart, MakingOn, Still
    <3>5. CASE u # t /\ v # t
      BY <2>3, <3>2, <3>5, ZenonT(60) DEF Apart, MakingOn, Still
    <3> QED
      BY <3>3, <3>4, <3>5, Zenon
  <2>9. Settle(Nothing, Nothing)
    BY <2>1, NothingSettled, Zenon
  <2> QED
    BY <2>1, <2>3, <2>4, <2>5, <2>6, <2>7, <2>8, <2>9, StepKeeps, NothingTaken,
       OneFacts, ZenonT(60) DEF ring
<1> QED
  BY <1>HandleCloseKeeps, <1>ResolveHandleKeeps, <1>InstallPipeKeeps, Zenon
     DEF HandleCall

\* pipe_create and sys_pipe_fds, with every way they fail.
LEMMA PipeCallKeeps ==
  \A t \in Threads : IInv /\ PipeCall(t) => IInv' /\ GoneStep
<1>HandleAdded.
      ASSUME IInv, NEW t \in Threads, Still(t), NEW x,
             SetHandles(ProcOf[t], handles[ProcOf[t]] \cup {x}),
             NEW u \in Threads \ {t}
      PROVE  HandlesOK(u)'
  <2> USE <1>HandleAdded
  <2>1. HandlesOK(u) /\ pc'[u] = pc[u] /\ end'[u] = end[u]
    BY Zenon DEF IInv, Calling, Still
  <2>2. handles[ProcOf[u]] \subseteq handles'[ProcOf[u]]
    BY PipeAssumption, Typing, Zenon DEF SetHandles, RestTyped, TablesTyped
  <2> QED
    BY <2>1, <2>2, ZenonT(60) DEF HandlesOK
<1>HandleNew.
      ASSUME NEW S, NEW x, x \notin S, NEW e, NEW h \in Nat
      PROVE  h - Among(e, S) + Among(e, S \cup {x}) = h + Is(x, e)
  BY <1>HandleNew, SMT, SMTT(60) DEF Among, Is
\* A handle that was not there is added.
<1>HandleTaken.
      ASSUME TypeOK, NEW t \in Threads, Still(t), UNCHANGED fds, NEW q \in Procs,
             NEW x, x \notin handles[q], SetHandles(q, handles[q] \cup {x}), NEW e,
             Is(x, e) + Hold(t, e)' = Hold(t, e)
      PROVE  Holders(e)' = Holders(e)
  <2> USE <1>HandleTaken
  <2>1. Cardinality(HandleHolders(e)') = Cardinality(HandleHolders(e)) + Is(x, e)
    <3>1. Cardinality(HandleHolders(e)') = Cardinality(HandleHolders(e))
            - Among(e, handles[q]) + Among(e, handles[q] \cup {x})
      BY HandleStep, Zenon
    <3>2. Cardinality(HandleHolders(e)) \in Nat
      BY HolderSets, ZenonT(60)
    <3> QED
      BY <3>1, <3>2, <1>HandleNew, SMT, SMTT(60)
  <2>2. Cardinality(HoldingThreads(e)') =
          Cardinality(HoldingThreads(e)) - Hold(t, e) + Hold(t, e)'
    BY ThreadStep, HoldCounts, SMT, SMTT(60) DEF Still
  <2>3. Hold(t, e) \in {0, 1} /\ Hold(t, e)' \in {0, 1} /\ Is(x, e) \in {0, 1}
    BY HoldCounts, Zenon DEF Is
  <2>4. Cardinality(FdHolders(e)') = Cardinality(FdHolders(e))
    BY SameHolders, Zenon
  <2> QED
    BY <2>1, <2>2, <2>3, <2>4, HolderSets, HoldersNext, SMT, SMTT(60)
\* A step of a call that has made a pipe.
<1>MakerStep.
      ASSUME IInv, NEW t \in Threads, Still(t), t \notin asleep, pc[t] \in Making,
             NEW drop \in RefCounts, NEW take \in RefCounts, Settle(drop, take),
             Moves(drop, take), Backed(drop, take),
             UNCHANGED <<count, cancelled, life>>, RestTyped', child'[t] = child[t],
             pc'[t] \in Making => end'[t].pipe = end[t].pipe,
             pc'[t] \in WithHandle => pc[t] \in WithHandle, pc'[t] # "install",
             \A u \in Threads \ {t} : HandlesOK(u)', ThreadOK(t)'
      PROVE  IInv' /\ NotRevived
  <2> USE <1>MakerStep
  <2>1. \A u, v \in Threads : u # v => Apart(u, v)'
    BY ApartKeeps, Zenon
  <2>2. \A u \in Threads \ {t} : HandlesOK(u)' /\ ProcOK(u)'
    BY ElsewhereKept, Zenon
  <2> QED
    BY <2>1, <2>2, StepKeeps, ZenonT(60)
\* No sibling works with the handles of a call in progress.
<1>MakerAlone.
      ASSUME IInv, NEW t \in Threads, pc[t] \in WithHandle, NEW u \in Threads \ {t},
             ProcOf[u] = ProcOf[t], pc[u] \in WithHandle \cup {"install"}
      PROVE  end[u].pipe # end[t].pipe
  <2> USE <1>MakerAlone
  <2>1. Apart(u, t)
    BY Zenon DEF IInv, Calling
  <2> QED
    BY <2>1, Zenon DEF Apart, MakingOn, Making
<1>HandleForReadKeeps.
      ASSUME IInv, NEW t \in Threads, HandleForRead(t)
      PROVE  IInv' /\ NotRevived
  <2> USE <1>HandleForReadKeeps
  <2> DEFINE q == ProcOf[t]
  <2>1. /\ pc[t] = "makeR" /\ t \notin asleep
        /\ SetHandles(q, handles[q] \cup {end[t]})
        /\ pc' = [pc EXCEPT ![t] = "makeW"]
        /\ end' = [end EXCEPT ![t] = EndOf(end[t].pipe, "w")]
        /\ UNCHANGED <<used, refs, asleep, ring, made, fds, life, cancelled, calls>>
        /\ UNCHANGED <<args, child, newfds, answer>>
    BY Zenon DEF HandleForRead, At, Goto, SetEnd, pipeVars, ring, procVars
  <2>2. pc[t] \in Making
    BY <2>1, ZenonT(60) DEF Making, BeforeHandle
  <2>3. PICK p \in Pipes, r \in Ends, w \in Ends :
          /\ p = end[t].pipe /\ end[t] = r
          /\ r = EndOf(p, "r") /\ w = EndOf(p, "w") /\ w.pipe = p /\ w.side = "w"
    BY <2>1, <2>2, Maker, EndFacts, SMT, SMTT(60) DEF Sides
  <2>4. TypeOK /\ ThreadOK(t) /\ q \in Procs
    BY <2>2, Maker, Zenon
  <2>5. /\ Still(t) /\ pc'[t] = "makeW" /\ child'[t] = child[t] /\ end'[t] = w
        /\ handles'[q] = handles[q] \cup {r}
    BY <2>1, <2>3, <2>4, ZenonT(60) DEF Still, TypeOK, SetHandles
  <2>6. /\ \A s \in Sides : refs[p][s] = 1
        /\ HandleHolders(r) = {} /\ HandleHolders(w) = {}
    <3>1. \A s \in Sides : refs[p][s] = 1 /\ t \in HoldingThreads(EndOf(p, s))
      BY <2>1, <2>3, <2>4, EndFacts, ZenonT(60) DEF ThreadOK, FreshOK, HoldingThreads
    <3> QED
      BY <2>3, <3>1, SoleHolder, ZenonT(60) DEF IInv, Sides
  <2>7. r \notin handles[q]
    BY <2>4, <2>6, ZenonT(60) DEF HandleHolders
  <2>8. Moves(Nothing, Nothing)
    <3> SUFFICES ASSUME NEW p2 \in Pipes, NEW s \in Sides
                 PROVE  Holders(EndOf(p2, s))' = Holders(EndOf(p2, s))
                          - Nothing[p2][s] + Nothing[p2][s]
      BY Zenon DEF Moves
    <3>1. PICK e \in Ends : e = EndOf(p2, s)
      BY EndFacts, Zenon
    <3>2. Hold(t, e) = Is(p, e.pipe) /\ Hold(t, e)' = Is(w, e)
      BY <2>1, <2>3, <2>5, ZenonT(60) DEF Hold, Loans
    <3>3. Is(r, e) + Is(w, e) = Is(p, e.pipe)
      BY <2>3, EndFacts, SMT, SMTT(60) DEF Is, Sides
    <3>4. Is(r, e) + Hold(t, e)' = Hold(t, e)
      BY <3>2, <3>3, ZenonT(60)
    <3>5. Holders(e)' = Holders(e)
      BY <2>1, <2>3, <2>4, <2>5, <2>7, <3>4, <1>HandleTaken, ZenonT(60)
    <3> QED
      BY <3>1, <3>5, OneFacts, HolderSets, SMT, SMTT(60)
  <2>9. RestTyped'
    <3>1. ThreadsTyped'
      BY <2>1, <2>3, Typing, ZenonT(60) DEF RestTyped, ThreadsTyped, Labels
    <3>2. handles' \in [Procs -> SUBSET Ends]
      BY <2>1, <2>3, <2>4, Typing, ZenonT(60) DEF RestTyped, TablesTyped, SetHandles
    <3> QED
      BY <2>1, <3>1, <3>2, Typing, ZenonT(60) DEF RestTyped, TablesTyped, procVars
  <2>10. ThreadOK(t)'
    <3>1. EndOK(t)' /\ ProcOK(t)'
      BY <2>1, <2>2, <2>3, <2>5, Maker, ZenonT(60) DEF EndOK, ProcOK
    <3>2. HandlesOK(t)' /\ FreshOK(t)'
      BY <2>1, <2>3, <2>5, <2>6, ZenonT(60) DEF HandlesOK, FreshOK, BothHandles, Sides
    <3> QED
      BY <3>1, <3>2, ZenonT(60) DEF ThreadOK
  <2>11. \A u \in Threads \ {t} : HandlesOK(u)' /\ ProcOK(u)'
    BY <2>1, <2>5, <1>HandleAdded, ElsewhereKept, ZenonT(60)
  <2>12. \A u, v \in Threads : u # v => Apart(u, v)'
    <3> SUFFICES ASSUME NEW u \in Threads, NEW v \in Threads, u # v PROVE Apart(u, v)'
      BY Zenon
    <3>1. Apart(u, v) /\ Apart(v, u)
      BY Zenon DEF IInv, Calling
    <3>2. end'[t].pipe = end[t].pipe
      BY <2>3, <2>5, ZenonT(60)
    <3>3. CASE u = t
      BY <2>1, <2>2, <2>5, <3>1, <3>2, <3>3, ZenonT(60) DEF Apart, MakingOn, Still
    <3>4. CASE v = t
      <4>1. pc'[u] = pc[u] /\ end'[u] = end[u] /\ child'[u] = child[u]
        BY <2>5, <3>4, ZenonT(60) DEF Still
      <4>2. pc[u] = "install" => end[u].pipe # p
        <5>1. ProcOf[u] \in Procs /\ HandlesOK(u) /\ EndOK(u)
          BY PipeAssumption, ZenonT(60) DEF IInv, Calling
        <5>2. pc[u] = "install" => end[u] \in Ends /\ end[u] # r /\ end[u] # w
          BY <2>6, <5>1, ZenonT(60) DEF HandlesOK, EndOK, HandleHolders
        <5> QED
          BY <2>3, <5>2, EndFacts, SMT, SMTT(60) DEF Sides
      <4> QED
        BY <2>2, <2>3, <2>5, <3>1, <3>2, <3>4, <4>1, <4>2, ZenonT(60) DEF Apart, MakingOn
    <3>5. CASE u # t /\ v # t
      BY <2>5, <3>1, <3>5, ZenonT(60) DEF Apart, MakingOn, Still
    <3> QED
      BY <3>3, <3>4, <3>5, ZenonT(60)
  <2>13. Settle(Nothing, Nothing)
    BY <2>1, NothingSettled, ZenonT(60)
  <2> QED
    BY <2>1, <2>5, <2>8, <2>9, <2>10, <2>11, <2>12, <2>13, StepKeeps, NothingTaken,
       OneFacts, ZenonT(60) DEF ring
<1>HandleForWriteKeeps.
      ASSUME IInv, NEW t \in Threads, HandleForWrite(t)
      PROVE  IInv' /\ NotRevived
  <2> USE <1>HandleForWriteKeeps
  <2> DEFINE q == ProcOf[t]
  <2>1. /\ pc[t] = "makeW" /\ t \notin asleep
        /\ SetHandles(q, handles[q] \cup {end[t]})
        /\ \/ /\ pc' = [pc EXCEPT ![t] = "user"]
              /\ end' = [end EXCEPT ![t] = None]
           \/ /\ \E next \in {"fdR", "dropR"} : pc' = [pc EXCEPT ![t] = next]
              /\ UNCHANGED end
        /\ UNCHANGED <<used, refs, asleep, ring, made, fds, life, cancelled, calls>>
        /\ UNCHANGED <<args, child, newfds, answer>>
    BY ZenonT(60) DEF HandleForWrite, At, Goto, SetEnd, Finish, pipeVars, ring, procVars
  <2>2. pc[t] \in Making /\ pc[t] \in WithHandle
    BY <2>1, ZenonT(60) DEF Making, WithHandle
  <2>3. PICK p \in Pipes, r \in Ends, w \in Ends :
          /\ p = end[t].pipe /\ end[t] = w
          /\ r = EndOf(p, "r") /\ w = EndOf(p, "w") /\ w.pipe = p /\ w.side = "w"
    BY <2>1, <2>2, Maker, EndFacts, SMT, SMTT(60) DEF Sides
  <2>4. TypeOK /\ ThreadOK(t) /\ q \in Procs
    BY <2>2, Maker, ZenonT(60)
  <2>5. /\ Still(t) /\ pc'[t] \in {"user", "fdR", "dropR"} /\ child'[t] = child[t]
        /\ pc'[t] # "user" => end'[t] = w
        /\ handles'[q] = handles[q] \cup {w}
    BY <2>1, <2>3, <2>4, ZenonT(60) DEF Still, TypeOK, SetHandles
  <2>6. w \notin handles[q]
    <3>1. refs[p]["w"] = 1 /\ t \in HoldingThreads(w)
      BY <2>1, <2>3, <2>4, ZenonT(60) DEF ThreadOK, FreshOK, HoldingThreads
    <3>2. HandleHolders(w) = {}
      BY <2>3, <3>1, SoleHolder, ZenonT(60) DEF IInv, Sides
    <3> QED
      BY <2>4, <3>2, ZenonT(60) DEF HandleHolders
  <2>7. Moves(Nothing, Nothing)
    <3> SUFFICES ASSUME NEW p2 \in Pipes, NEW s \in Sides
                 PROVE  Holders(EndOf(p2, s))' = Holders(EndOf(p2, s))
                          - Nothing[p2][s] + Nothing[p2][s]
      BY Zenon DEF Moves
    <3>1. PICK e : e = EndOf(p2, s)
      BY Zenon
    <3>2. Hold(t, e) = Is(w, e) /\ Hold(t, e)' = 0
      BY <2>1, <2>3, <2>5, ZenonT(60) DEF Hold, Loans
    <3>3. Is(w, e) + Hold(t, e)' = Hold(t, e)
      BY <3>2, SMT, SMTT(60) DEF Is
    <3>4. /\ TypeOK /\ Still(t) /\ UNCHANGED fds /\ q \in Procs
          /\ SetHandles(q, handles[q] \cup {w})
      BY <2>1, <2>3, <2>4, <2>5, ZenonT(60)
    <3>5. Holders(e)' = Holders(e)
      BY <2>6, <3>3, <3>4, <1>HandleTaken, ZenonT(60)
    <3> QED
      BY <3>1, <3>5, OneFacts, HolderSets, SMT, SMTT(60)
  <2>8. RestTyped'
    <3>1. pc \in [Threads -> Labels] /\ end \in [Threads -> Ends \cup {None}]
      BY Typing, Zenon DEF RestTyped, ThreadsTyped
    <3>2. pc' \in [Threads -> Labels] /\ end' \in [Threads -> Ends \cup {None}]
      BY <2>1, <3>1, ZenonT(60) DEF Labels
    <3>3. ThreadsTyped'
      BY <2>1, <3>2, Typing, ZenonT(60) DEF RestTyped, ThreadsTyped
    <3>4. handles' \in [Procs -> SUBSET Ends]
      BY <2>1, <2>3, <2>4, Typing, ZenonT(60) DEF RestTyped, TablesTyped, SetHandles
    <3> QED
      BY <2>1, <3>3, <3>4, Typing, ZenonT(60) DEF RestTyped, TablesTyped, procVars
  <2>9. ThreadOK(t)'
    <3>1. EndOK(t)' /\ ProcOK(t)'
      BY <2>1, <2>2, <2>3, <2>5, Maker, ZenonT(60)
         DEF EndOK, ProcOK, Making, BeforeHandle, WithHandle, BothHandles, Loans
    <3>2. r \in handles[q]
      BY <2>1, <2>3, <2>4, ZenonT(60) DEF ThreadOK, HandlesOK
    <3>3. HandlesOK(t)' /\ FreshOK(t)'
      BY <2>3, <2>5, <3>2, ZenonT(60) DEF HandlesOK, FreshOK, BothHandles
    <3> QED
      BY <3>1, <3>3, Zenon DEF ThreadOK
  <2>10. \A u \in Threads \ {t} : HandlesOK(u)'
    BY <2>1, <2>5, <1>HandleAdded, ZenonT(60)
  <2>11. /\ pc'[t] \in Making => end'[t].pipe = end[t].pipe
         /\ pc'[t] # "install"
    BY <2>3, <2>5, ZenonT(60) DEF Making, BeforeHandle, WithHandle, BothHandles
  <2>12. Settle(Nothing, Nothing)
    BY <2>1, NothingSettled, ZenonT(60)
  <2> QED
    BY <2>1, <2>2, <2>5, <2>7, <2>8, <2>9, <2>10, <2>11, <2>12, <1>MakerStep,
       NothingTaken, OneFacts, ZenonT(60) DEF ring
<1>HandleFailsKeeps.
      ASSUME IInv, NEW t \in Threads, HandleFails(t)
      PROVE  IInv' /\ NotRevived
  <2> USE <1>HandleFailsKeeps
  <2> DEFINE q == ProcOf[t]
             p == end[t].pipe
  <2>1. ASSUME At(t, "makeR"), Drop(Both(p)), Finish(t),
               UNCHANGED <<tables, procVars, args, child, newfds, answer>>
        PROVE  IInv' /\ NotRevived
    <3>1. /\ pc[t] = "makeR" /\ t \notin asleep
          /\ Settle(Both(p), Nothing) /\ UNCHANGED <<ring, made>>
          /\ pc' = [pc EXCEPT ![t] = "user"] /\ end' = [end EXCEPT ![t] = None]
          /\ UNCHANGED <<fds, handles, life, cancelled, calls, args, child, newfds, answer>>
      BY <2>1, Zenon DEF At, Drop, Finish, Goto, SetEnd, tables, procVars
    <3>2. pc[t] \in Making
      BY <3>1, Zenon DEF Making, BeforeHandle
    <3>3. TypeOK /\ p \in Pipes /\ child[t] = None
      BY <3>2, Maker, ZenonT(60)
    <3>4. Still(t) /\ pc'[t] = "user" /\ child'[t] = child[t]
      BY <3>1, <3>3, ZenonT(60) DEF Still, TypeOK
    <3>5. Moves(Both(p), Nothing)
      <4> SUFFICES ASSUME NEW p2 \in Pipes, NEW s \in Sides
                   PROVE  Holders(EndOf(p2, s))' = Holders(EndOf(p2, s))
                            - Both(p)[p2][s] + Nothing[p2][s]
        BY Zenon DEF Moves
      <4> DEFINE e == EndOf(p2, s)
      <4>1. Hold(t, e) = Is(p, p2) /\ Hold(t, e)' = 0
        BY <3>1, <3>4, EndFacts, SMT, SMTT(60) DEF Hold, Loans
      <4>2. Holders(e)' = Holders(e) - Hold(t, e) + Hold(t, e)'
        BY <3>1, <3>4, ThreadDelta, Zenon
      <4> QED
        BY <3>3, <4>1, <4>2, OneFacts, ZenonT(60)
    <3>6. RestTyped'
      <4>1. ThreadsTyped'
        BY <3>1, Typing, ZenonT(60) DEF RestTyped, ThreadsTyped, Labels
      <4> QED
        BY <3>1, <4>1, Typing, ZenonT(60) DEF RestTyped, tables, procVars
    <3>7. EndOK(t)' /\ ProcOK(t)' /\ pc'[t] \notin Making \cup {"install"}
      BY <3>3, <3>4, ZenonT(60)
         DEF EndOK, ProcOK, Making, BeforeHandle, WithHandle, BothHandles, Loans
    <3> QED
      BY <3>1, <3>3, <3>4, <3>5, <3>6, <3>7, PlainStep, NothingTaken, OneFacts,
         ZenonT(60) DEF ring
  <2>2. ASSUME At(t, "makeFail"), Drop(One(end[t])), Finish(t),
               UNCHANGED <<tables, procVars, args, child, newfds, answer>>
        PROVE  IInv' /\ NotRevived
    <3>1. /\ pc[t] = "makeFail" /\ t \notin asleep
          /\ Settle(One(end[t]), Nothing) /\ UNCHANGED <<ring, made>>
          /\ pc' = [pc EXCEPT ![t] = "user"] /\ end' = [end EXCEPT ![t] = None]
          /\ UNCHANGED <<fds, handles, life, cancelled, calls, args, child, newfds, answer>>
      BY <2>2, Zenon DEF At, Drop, Finish, Goto, SetEnd, tables, procVars
    <3>2. pc[t] \in Making
      BY <3>1, Zenon DEF Making, BeforeHandle
    <3>3. TypeOK /\ child[t] = None
      BY <3>2, Maker, Zenon
    <3>4. Still(t) /\ pc'[t] = "user" /\ child'[t] = child[t]
      BY <3>1, <3>3, Zenon DEF Still, TypeOK
    <3>5. Moves(One(end[t]), Nothing)
      BY <3>1, <3>4, EndDropped, ZenonT(60) DEF Loans
    <3>6. RestTyped'
      <4>1. ThreadsTyped'
        BY <3>1, Typing, Zenon DEF RestTyped, ThreadsTyped, Labels
      <4> QED
        BY <3>1, <4>1, Typing, ZenonT(60) DEF RestTyped, tables, procVars
    <3>7. EndOK(t)' /\ ProcOK(t)' /\ pc'[t] \notin Making \cup {"install"}
      BY <3>3, <3>4, Zenon
         DEF EndOK, ProcOK, Making, BeforeHandle, WithHandle, BothHandles, Loans
    <3> QED
      BY <3>1, <3>4, <3>5, <3>6, <3>7, PlainStep, NothingTaken, OneFacts, ZenonT(60)
         DEF ring
  <2>3. ASSUME At(t, "makeW"), Drop(One(EndOf(p, "r"))),
               SetHandles(q, handles[q] \ {EndOf(p, "r")}), Goto(t, "makeFail"),
               UNCHANGED <<fds, procVars, end, args, child, newfds, answer>>
        PROVE  IInv' /\ NotRevived
    <3>1. /\ pc[t] = "makeW" /\ t \notin asleep
          /\ Settle(One(EndOf(p, "r")), Nothing) /\ UNCHANGED <<ring, made>>
          /\ pc' = [pc EXCEPT ![t] = "makeFail"]
          /\ UNCHANGED <<fds, life, cancelled, calls, end, args, child, newfds, answer>>
      BY <2>3, Zenon DEF At, Drop, Goto, procVars
    <3>2. pc[t] \in Making /\ pc[t] \in WithHandle
      BY <3>1, Zenon DEF Making, WithHandle
    <3>3. TypeOK /\ ThreadOK(t) /\ q \in Procs
      BY <3>2, Maker, ZenonT(60)
    <3>4. PICK r \in Ends : r = EndOf(p, "r") /\ r.pipe = p /\ r \in handles[q]
      BY <3>1, <3>2, <3>3, Maker, EndFacts, SMT, SMTT(60) DEF Sides, ThreadOK, HandlesOK
    <3>5. Still(t) /\ pc'[t] = "makeFail" /\ child'[t] = child[t] /\ end'[t] = end[t]
      BY <3>1, <3>3, ZenonT(60) DEF Still, TypeOK
    <3>6. Moves(One(r), Nothing)
      <4>1. \A e : Hold(t, e)' = Hold(t, e)
        BY <3>1, <3>5, Zenon DEF Hold
      <4> QED
        BY <2>3, <3>1, <3>3, <3>4, <3>5, <4>1, HandleDropped, ZenonT(60)
    <3>7. RestTyped'
      <4>1. ThreadsTyped'
        BY <3>1, Typing, Zenon DEF RestTyped, ThreadsTyped, Labels
      <4>2. handles' \in [Procs -> SUBSET Ends]
        BY <2>3, <3>3, Typing, Zenon DEF RestTyped, TablesTyped, SetHandles
      <4> QED
        BY <3>1, <4>1, <4>2, Typing, ZenonT(60) DEF RestTyped, TablesTyped, procVars
    <3>8. ThreadOK(t)'
      BY <3>1, <3>2, <3>5, Maker, ZenonT(60)
         DEF ThreadOK, EndOK, ProcOK, HandlesOK, FreshOK, Making, BeforeHandle,
             WithHandle, BothHandles, Loans
    <3>9. \A u \in Threads \ {t} : HandlesOK(u)'
      <4> TAKE u \in Threads \ {t}
      <4>1. ProcOf[u] = ProcOf[t] =>
              /\ pc[u] \in WithHandle => end[u].pipe # r.pipe
              /\ pc[u] = "install" => end[u] # r
        BY <3>2, <3>4, <1>MakerAlone, Zenon
      <4> QED
        BY <2>3, <3>4, <3>5, <4>1, HandleRemoved, ZenonT(60)
    <3>10. /\ pc'[t] \in Making => end'[t].pipe = end[t].pipe
           /\ pc'[t] # "install"
      BY <3>5, Zenon
    <3> QED
      BY <3>1, <3>2, <3>4, <3>5, <3>6, <3>7, <3>8, <3>9, <3>10, <1>MakerStep,
         NothingTaken, OneFacts, ZenonT(60) DEF ring
  <2> QED
    BY <2>1, <2>2, <2>3, ZenonT(60) DEF HandleFails
<1>InstallAnyKeeps.
      ASSUME IInv, NEW t \in Threads, InstallAny(t)
      PROVE  IInv' /\ NotRevived
  <2> USE <1>InstallAnyKeeps
  <2> DEFINE q == ProcOf[t]
             p == end[t].pipe
  <2>1. /\ pc[t] \in {"fdR", "fdW"}
        /\ UNCHANGED <<ring, made, handles, life, cancelled, calls, end, args, child, answer>>
    BY Zenon DEF InstallAny, procVars
  <2>2. pc[t] \in Making /\ pc[t] \in WithHandle /\ pc[t] \in BothHandles
    BY <2>1, Zenon DEF Making, WithHandle, BothHandles
  <2>3. /\ TypeOK /\ ThreadOK(t) /\ t \notin asleep /\ q \in Procs /\ p \in Pipes
        /\ child[t] = None /\ life[q] = "alive" /\ end[t] \in Ends
    BY <2>2, Maker, Zenon
  <2>4. PICK x \in Ends :
          /\ x = EndOf(p, IF pc[t] = "fdR" THEN "r" ELSE "w")
          /\ x \in handles[q]
    BY <2>2, <2>3, EndFacts, Zenon DEF Sides, ThreadOK, HandlesOK
  <2>5. ASSUME Still(t), pc'[t] \in BothHandles, end'[t] = end[t],
               NEW take \in RefCounts, Settle(Nothing, take), Moves(Nothing, take),
               Backed(Nothing, take), TablesTyped', ThreadsTyped'
        PROVE  IInv' /\ NotRevived
    <3>1. ThreadOK(t)'
      <4>1. EndOK(t)' /\ ProcOK(t)'
        BY <2>1, <2>2, <2>3, <2>5, Maker, ZenonT(60)
           DEF ThreadOK, EndOK, ProcOK, Making, BeforeHandle, WithHandle, BothHandles,
               Loans
      <4>2. HandlesOK(t)' /\ FreshOK(t)'
        BY <2>1, <2>2, <2>3, <2>5, ZenonT(60)
           DEF ThreadOK, HandlesOK, FreshOK, BothHandles
      <4> QED
        BY <4>1, <4>2, Zenon DEF ThreadOK
    <3>2. \A u \in Threads \ {t} : HandlesOK(u)'
      BY <2>1, <2>5, ElsewhereKept, ZenonT(60)
    <3>3. RestTyped'
      BY <2>1, <2>5, Typing, Zenon DEF RestTyped, procVars
    <3>4. pc'[t] # "install"
      BY <2>5, Zenon DEF BothHandles
    <3> QED
      BY <2>1, <2>2, <2>3, <2>5, <3>1, <3>2, <3>3, <3>4, <1>MakerStep, OneFacts,
         ZenonT(60) DEF ring
  <2>6. ASSUME NEW d \in Fds, fds[q][d] = None, SetFd(q, d, x), Settle(Nothing, One(x)),
               newfds' = [newfds EXCEPT ![t] = @ \cup {d}],
               NEW next \in {"fdW", "dropR", "undo"}, Goto(t, next)
        PROVE  IInv' /\ NotRevived
    <3>1. Still(t) /\ pc'[t] = next /\ end'[t] = end[t] /\ next \in BothHandles
      BY <2>1, <2>3, <2>6, ZenonT(60) DEF Still, TypeOK, Goto, BothHandles
    <3>2. Moves(Nothing, One(x))
      <4>1. /\ pc[t] \notin Loans \cup BeforeHandle
            /\ pc'[t] \notin Loans \cup BeforeHandle
        BY <2>1, <2>6, <3>1, ZenonT(60) DEF Loans, BeforeHandle
      <4>2. Moves(One(fds[q][d]), One(x))
        BY <2>1, <2>3, <2>6, <3>1, <4>1, FdReplaced, ZenonT(60)
      <4> QED
        BY <2>6, <4>2, OneNone, Zenon
    <3>3. Backed(Nothing, One(x))
      <4>1. HandleHolders(x) # {}
        BY <2>3, <2>4, Zenon DEF HandleHolders
      <4> QED
        BY <4>1, CopyBacked, Zenon
    <3>4. TablesTyped'
      <4>1. fds' \in [Procs -> [Fds -> Ends \cup {None}]]
        BY <2>3, <2>6, Typing, ZenonT(60) DEF RestTyped, TablesTyped, SetFd
      <4> QED
        BY <2>1, <4>1, Typing, ZenonT(60) DEF RestTyped, TablesTyped
    <3>5. ThreadsTyped'
      BY <2>1, <2>6, Typing, ZenonT(60) DEF RestTyped, ThreadsTyped, Labels, Goto
    <3> QED
      BY <2>5, <2>6, <3>1, <3>2, <3>3, <3>4, <3>5, OneFacts, ZenonT(60)
  <2>7. ASSUME Goto(t, "undo"), UNCHANGED <<used, refs, fds, newfds, asleep>>
        PROVE  IInv' /\ NotRevived
    <3>1. Still(t) /\ pc'[t] = "undo" /\ end'[t] = end[t] /\ pc'[t] \in BothHandles
      BY <2>1, <2>3, <2>7, ZenonT(60) DEF Still, TypeOK, Goto, BothHandles
    <3>2. Moves(Nothing, Nothing)
      BY <2>1, <2>7, <3>1, NobodyMoves, ZenonT(60) DEF Loans, BeforeHandle
    <3>3. Settle(Nothing, Nothing)
      BY <2>7, NothingSettled, Zenon
    <3>4. TablesTyped'
      BY <2>1, <2>7, Typing, Zenon DEF tables
    <3>5. ThreadsTyped'
      BY <2>1, <2>7, Typing, ZenonT(60) DEF RestTyped, ThreadsTyped, Labels, Goto
    <3> QED
      BY <2>5, <3>1, <3>2, <3>3, <3>4, <3>5, NothingTaken, OneFacts, ZenonT(60)
  <2> QED
    <3>1. \/ \E d \in Fds :
               /\ fds[q][d] = None /\ SetFd(q, d, x) /\ Settle(Nothing, One(x))
               /\ newfds' = [newfds EXCEPT ![t] = @ \cup {d}]
               /\ \E next \in {"fdW", "dropR", "undo"} : Goto(t, next)
          \/ Goto(t, "undo") /\ UNCHANGED <<used, refs, fds, newfds, asleep>>
      BY <2>4, Zenon DEF InstallAny
    <3> QED
      BY <2>6, <2>7, <3>1, Zenon
<1>DropHandleKeeps.
      ASSUME IInv, NEW t \in Threads, DropHandle(t)
      PROVE  IInv' /\ NotRevived
  <2> USE <1>DropHandleKeeps
  <2> DEFINE q == ProcOf[t]
             p == end[t].pipe
  <2>1. /\ pc[t] \in {"dropR", "dropW", "undo", "undoW"}
        /\ UNCHANGED <<fds, life, cancelled, calls, args, child, answer>>
        /\ \/ /\ pc[t] = "dropR" /\ pc' = [pc EXCEPT ![t] = "dropW"]
              /\ UNCHANGED <<end, newfds>>
           \/ /\ pc[t] = "undo" /\ pc' = [pc EXCEPT ![t] = "undoW"]
              /\ UNCHANGED <<end, newfds>>
           \/ /\ pc[t] = "dropW" /\ pc' = [pc EXCEPT ![t] = "user"]
              /\ end' = [end EXCEPT ![t] = None]
              /\ newfds' = [newfds EXCEPT ![t] = {}]
           \/ /\ pc[t] = "undoW" /\ pc' = [pc EXCEPT ![t] = "undoFds"]
              /\ UNCHANGED <<end, newfds>>
    BY Zenon DEF DropHandle, Goto, SetEnd, Finish, procVars
  <2>2. pc[t] \in Making /\ pc[t] \in WithHandle
    BY <2>1, ZenonT(60) DEF Making, WithHandle, BothHandles
  <2>3. /\ TypeOK /\ ThreadOK(t) /\ t \notin asleep /\ q \in Procs /\ p \in Pipes
        /\ child[t] = None /\ life[q] = "alive" /\ end[t] \in Ends /\ end[t].side = "w"
    <3>1. pc[t] # "makeR"
      BY <2>1, ZenonT(60)
    <3> QED
      BY <2>2, <3>1, Maker, EndFacts, SMT, SMTT(60) DEF Sides
  <2>4. PICK x \in Ends :
          /\ x = EndOf(p, IF pc[t] \in {"dropR", "undo"} THEN "r" ELSE "w")
          /\ x \in handles[q] /\ x.pipe = p
    BY <2>1, <2>3, EndFacts, SMT, SMTT(60) DEF Sides, ThreadOK, HandlesOK, BothHandles
  <2>5. /\ SetHandles(q, handles[q] \ {x}) /\ Settle(One(x), Nothing)
        /\ UNCHANGED <<ring, made>>
    BY <2>4, Zenon DEF DropHandle, Drop
  <2>6. /\ Still(t) /\ child'[t] = child[t] /\ handles'[q] = handles[q] \ {x}
        /\ \/ pc'[t] \in {"user", "undoFds"}
           \/ pc'[t] \in {"dropW", "undoW"} /\ end'[t] = end[t] /\ pc[t] \in {"dropR", "undo"}
    BY <2>1, <2>3, <2>5, ZenonT(60) DEF Still, TypeOK, SetHandles
  <2>7. Moves(One(x), Nothing)
    <3>1. \A e : Hold(t, e)' = Hold(t, e)
      BY <2>1, <2>6, Zenon DEF Hold, Loans
    <3>2. UNCHANGED fds
      BY <2>1, Zenon
    <3> QED
      BY <2>3, <2>4, <2>5, <2>6, <3>1, <3>2, HandleDropped, Zenon
  <2>8. RestTyped'
    <3>1. /\ pc \in [Threads -> Labels] /\ end \in [Threads -> Ends \cup {None}]
          /\ newfds \in [Threads -> SUBSET Fds]
      BY Typing, Zenon DEF RestTyped, ThreadsTyped
    <3>2. /\ pc' \in [Threads -> Labels] /\ end' \in [Threads -> Ends \cup {None}]
          /\ newfds' \in [Threads -> SUBSET Fds]
      BY <2>1, <3>1, Zenon DEF Labels
    <3>3. ThreadsTyped'
      BY <2>1, <3>2, Typing, ZenonT(60) DEF RestTyped, ThreadsTyped
    <3>4. handles' \in [Procs -> SUBSET Ends]
      BY <2>3, <2>5, Typing, ZenonT(60) DEF RestTyped, TablesTyped, SetHandles
    <3> QED
      BY <2>1, <2>5, <3>3, <3>4, Typing, ZenonT(60) DEF RestTyped, TablesTyped, procVars
  <2>9. ThreadOK(t)'
    <3>1. EndOK(t)' /\ ProcOK(t)'
      BY <2>1, <2>3, <2>6, ZenonT(60)
         DEF EndOK, ProcOK, Making, BeforeHandle, WithHandle, BothHandles, Loans
    <3>2. pc[t] \in {"dropR", "undo"} =>
            EndOf(p, "w") \in handles[q] /\ EndOf(p, "w") # x
      BY <2>3, <2>4, EndFacts, ZenonT(60) DEF ThreadOK, HandlesOK, BothHandles, Sides
    <3>3. HandlesOK(t)' /\ FreshOK(t)'
      BY <2>6, <3>2, Zenon DEF HandlesOK, FreshOK, BothHandles
    <3> QED
      BY <3>1, <3>3, ZenonT(60) DEF ThreadOK
  <2>10. \A u \in Threads \ {t} : HandlesOK(u)'
    <3> TAKE u \in Threads \ {t}
    <3>1. ProcOf[u] = ProcOf[t] =>
            /\ pc[u] \in WithHandle => end[u].pipe # x.pipe
            /\ pc[u] = "install" => end[u] # x
      BY <2>2, <2>4, <1>MakerAlone, ZenonT(60)
    <3> QED
      BY <2>4, <2>5, <2>6, <3>1, HandleRemoved, ZenonT(60)
  <2>11. /\ pc'[t] \in Making => end'[t].pipe = end[t].pipe
         /\ pc'[t] # "install"
    BY <2>6, Zenon DEF Making, BeforeHandle, WithHandle, BothHandles
  <2> QED
    BY <2>1, <2>2, <2>3, <2>4, <2>5, <2>6, <2>7, <2>8, <2>9, <2>10, <2>11, <1>MakerStep,
       NothingTaken, OneFacts, ZenonT(60) DEF ring
<1>UndoFdsKeeps.
      ASSUME IInv, NEW t \in Threads, UndoFds(t)
      PROVE  IInv' /\ NotRevived
  <2> USE <1>UndoFdsKeeps
  <2> DEFINE q == ProcOf[t]
  <2>1. q \in Procs
    BY PipeAssumption, Zenon
  <2>2. /\ pc[t] = "undoFds" /\ t \notin asleep
        /\ UNCHANGED <<used, refs, asleep, ring, made, handles, life, cancelled, calls,
                       args, child, answer>>
    BY Zenon DEF UndoFds, At, pipeVars, procVars, ring
  <2>3. TypeOK /\ ThreadOK(t) /\ None \notin Ends /\ child[t] = None
    BY <2>2, PipeAssumption, ZenonT(60) DEF IInv, Calling, ThreadOK, ProcOK
  <2>4. Settle(Nothing, Nothing)
    BY <2>2, NothingSettled, Zenon
  <2>5. CASE newfds[t] = {} /\ Finish(t) /\ UNCHANGED <<fds, newfds>>
    <3>1. pc' = [pc EXCEPT ![t] = "user"] /\ end' = [end EXCEPT ![t] = None]
      BY <2>5, Zenon DEF Finish, Goto, SetEnd
    <3>2. Still(t) /\ pc'[t] = "user" /\ child'[t] = child[t]
      BY <2>2, <2>3, <3>1, ZenonT(60) DEF Still, TypeOK
    <3>3. Moves(Nothing, Nothing)
      <4> SUFFICES ASSUME NEW p \in Pipes, NEW s \in Sides
                   PROVE  Holders(EndOf(p, s))' = Holders(EndOf(p, s))
                            - Nothing[p][s] + Nothing[p][s]
        BY Zenon DEF Moves
      <4> DEFINE e == EndOf(p, s)
      <4>1. Hold(t, e) = 0 /\ Hold(t, e)' = 0
        BY <2>2, <3>2, Zenon DEF Hold, Loans
      <4>2. Holders(e)' = Holders(e) - Hold(t, e) + Hold(t, e)'
        BY <2>2, <2>5, <3>2, ThreadDelta, ZenonT(60)
      <4> QED
        BY <4>1, <4>2, OneFacts, HolderSets, ZenonT(60)
    <3>4. RestTyped'
      <4>1. ThreadsTyped'
        BY <2>2, <2>5, <3>1, Typing, ZenonT(60) DEF RestTyped, ThreadsTyped, Labels
      <4> QED
        BY <2>2, <2>5, <4>1, Typing, ZenonT(60) DEF RestTyped, tables, procVars
    <3>5. EndOK(t)' /\ ProcOK(t)' /\ pc'[t] \notin Making \cup {"install"}
      BY <2>3, <3>2, Zenon
         DEF EndOK, ProcOK, Making, BeforeHandle, WithHandle, BothHandles, Loans
    <3> QED
      BY <2>2, <2>4, <3>2, <3>3, <3>4, <3>5, PlainStep, NothingTaken, OneFacts,
         ZenonT(60) DEF ring
  <2>6. ASSUME NEW d \in newfds[t],
               newfds' = [newfds EXCEPT ![t] = @ \ {d}], SetFd(q, d, None),
               IF fds[q][d] = None THEN UNCHANGED <<pc, end>>
                                   ELSE Goto(t, "undoClose") /\ SetEnd(t, fds[q][d])
        PROVE  IInv' /\ NotRevived
    <3>1. d \in Fds
      BY Typing, Zenon DEF RestTyped, ThreadsTyped
    <3>2. PICK y \in Ends \cup {None} : y = fds[q][d]
      BY <2>1, <3>1, InTables, ZenonT(60) DEF IInv
    <3>3. /\ y = None => UNCHANGED <<pc, end>>
          /\ y # None => /\ pc' = [pc EXCEPT ![t] = "undoClose"]
                         /\ end' = [end EXCEPT ![t] = y]
          /\ fds' = [fds EXCEPT ![q][d] = None]
      BY <2>6, <3>2, ZenonT(60) DEF Goto, SetEnd, SetFd
    <3>4. /\ Still(t) /\ pc'[t] \in {"undoFds", "undoClose"} /\ child'[t] = child[t]
          /\ pc'[t] = "undoClose" <=> y # None
          /\ pc'[t] = "undoClose" => end'[t] = y /\ y \in Ends
      BY <2>2, <2>3, <3>3, ZenonT(60) DEF Still, TypeOK
    <3>5. Moves(Nothing, Nothing)
      <4> SUFFICES ASSUME NEW p \in Pipes, NEW s \in Sides
                   PROVE  Holders(EndOf(p, s))' = Holders(EndOf(p, s))
                            - Nothing[p][s] + Nothing[p][s]
        BY ZenonT(60) DEF Moves
      <4> DEFINE e == EndOf(p, s)
      <4>1. e # None
        BY <2>3, EndFacts, SMT, SMTT(60)
      <4>2. Hold(t, e) = 0 /\ Hold(t, e)' = Is(y, e)
        BY <2>2, <3>4, <4>1, ZenonT(60) DEF Hold, Loans, Is
      <4>3. Holders(e)' = Holders(e) - Is(y, e) + Is(None, e) - Hold(t, e) + Hold(t, e)'
        BY <2>1, <2>2, <2>3, <2>6, <3>1, <3>2, <3>4, FdDelta, SMT, SMTT(60)
      <4> QED
        BY <4>1, <4>2, <4>3, OneFacts, HolderSets, SMT, SMTT(60) DEF Is
    <3>6. RestTyped'
      <4>1. /\ pc \in [Threads -> Labels] /\ end \in [Threads -> Ends \cup {None}]
            /\ fds \in [Procs -> [Fds -> Ends \cup {None}]]
            /\ newfds \in [Threads -> SUBSET Fds]
        BY Typing, Zenon DEF RestTyped, ThreadsTyped, TablesTyped
      <4>2. pc' \in [Threads -> Labels] /\ end' \in [Threads -> Ends \cup {None}]
        BY <3>3, <4>1, ZenonT(60) DEF Labels
      <4>3. newfds' \in [Threads -> SUBSET Fds]
        BY <2>6, <4>1, ZenonT(60)
      <4>4. ThreadsTyped'
        BY <2>2, <4>2, <4>3, Typing, ZenonT(60) DEF RestTyped, ThreadsTyped
      <4>5. fds' \in [Procs -> [Fds -> Ends \cup {None}]]
        BY <2>1, <3>1, <3>3, <4>1, ZenonT(60)
      <4> QED
        BY <2>2, <4>4, <4>5, Typing, ZenonT(60) DEF RestTyped, TablesTyped, procVars
    <3>7. EndOK(t)' /\ ProcOK(t)' /\ pc'[t] \notin Making \cup {"install"}
      BY <2>2, <2>3, <3>4, ZenonT(60)
         DEF EndOK, ProcOK, ThreadOK, Making, BeforeHandle, WithHandle, BothHandles,
             Loans
    <3> QED
      BY <2>2, <2>4, <3>4, <3>5, <3>6, <3>7, PlainStep, NothingTaken, OneFacts,
         ZenonT(60) DEF ring
  <2> QED
    BY <2>5, <2>6, Zenon DEF UndoFds
<1>PipeCreateKeeps.
      ASSUME IInv, NEW t \in Threads, NEW p \in Pipes, PipeCreate(t, p)
      PROVE  IInv' /\ GoneStep
  <2> USE <1>PipeCreateKeeps
  <2>1. /\ pc[t] = "user" /\ t \notin asleep /\ life[ProcOf[t]] = "alive"
        /\ made < MaxPipes /\ made' = made + 1
        /\ ~used[p] /\ used' = [used EXCEPT ![p] = TRUE]
        /\ refs' = [refs EXCEPT ![p] = [s \in Sides |-> 1]]
        /\ pc' = [pc EXCEPT ![t] = "makeR"]
        /\ end' = [end EXCEPT ![t] = EndOf(p, "r")]
        /\ UNCHANGED <<fds, handles, life, cancelled, calls>>
        /\ UNCHANGED <<args, child, newfds, answer, asleep>>
    BY Zenon DEF PipeCreate, InUser, At, Goto, SetEnd, tables, procVars
  <2>2. /\ buf' = [buf EXCEPT ![p] = [i \in Indices |-> None]]
        /\ head' = [head EXCEPT ![p] = 0] /\ tail' = [tail EXCEPT ![p] = 0]
        /\ count' = [count EXCEPT ![p] = 0]
    BY Zenon DEF PipeCreate
  <2>3. TypeOK /\ ThreadOK(t) /\ EndOf(p, "r") \in Ends /\ child[t] = None
    BY <2>1, EndFacts, ZenonT(60) DEF IInv, Calling, ThreadOK, ProcOK, Sides
  <2>4. /\ Still(t) /\ pc'[t] = "makeR" /\ child'[t] = None /\ end'[t] = EndOf(p, "r")
        /\ end'[t].pipe = p /\ end'[t].side = "r"
    BY <2>1, <2>3, EndFacts, SMT, SMTT(60) DEF Still, TypeOK, Sides
  <2>5. /\ \A p2 \in Pipes, s \in Sides :
             refs'[p2][s] = IF p2 = p THEN 1 ELSE refs[p2][s]
        /\ \A p2 \in Pipes : used'[p2] = IF p2 = p THEN TRUE ELSE used[p2]
        /\ refs' \in RefCounts /\ used' \in [Pipes -> BOOLEAN]
    BY <2>1, <2>3, ZenonT(60) DEF TypeOK, RefCounts
  <2>6. RefsExact'
    <3>1. ASSUME NEW p2 \in Pipes, NEW s \in Sides
          PROVE  refs'[p2][s] = Holders(EndOf(p2, s))'
      <4>1. PICK e \in Ends : e = EndOf(p2, s) /\ e.pipe = p2
        BY EndFacts, Zenon
      <4>2. Hold(t, e) = 0 /\ Hold(t, e)' = Is(p, p2)
        BY <2>1, <2>4, <4>1, ZenonT(60) DEF Hold, Loans
      <4>3. Holders(e)' = Holders(e) + Is(p, p2)
        BY <2>1, <2>4, <4>2, ThreadDelta, HolderSets, SMT, SMTT(60)
      <4>4. CASE p2 = p
        <5>1. Holders(e) = 0
          BY <2>1, <4>1, <4>4, FreeSlot, ZenonT(60)
        <5> QED
          BY <2>5, <4>1, <4>3, <4>4, <5>1, SMT, SMTT(60) DEF Is
      <4>5. CASE p2 # p
        <5>1. refs[p2][s] = Holders(e) /\ Holders(e) \in Nat
          BY <4>1, HolderSets, ZenonT(60) DEF IInv, RefsExact
        <5> QED
          BY <2>5, <4>1, <4>3, <4>5, <5>1, SMT, SMTT(60) DEF Is
      <4> QED
        BY <4>4, <4>5, ZenonT(60)
    <3>2. \A p2 \in Pipes : used'[p2] <=> \E s \in Sides : refs'[p2][s] # 0
      <4> TAKE p2 \in Pipes
      <4>1. used[p2] <=> \E s \in Sides : refs[p2][s] # 0
        BY Zenon DEF IInv, RefsExact
      <4>2. CASE p2 = p
        <5>1. "r" \in Sides
          BY Zenon DEF Sides
        <5>2. used'[p2] /\ refs'[p2]["r"] = 1
          BY <2>5, <4>2, <5>1, ZenonT(60)
        <5> QED
          BY <5>1, <5>2, SMT, SMTT(60)
      <4>3. CASE p2 # p
        BY <2>5, <4>1, <4>3, ZenonT(60)
      <4> QED
        BY <4>2, <4>3, ZenonT(60)
    <3> QED
      BY <3>1, <3>2, ZenonT(60) DEF RefsExact
  <2>7. \A u \in Threads \ {t} : pc[u] \in Making \cup Loans =>
          end[u] \in Ends /\ end[u].pipe \in Pipes /\ end[u].pipe # p
    BY <2>1, FreeSlot, EndFacts, ZenonT(60) DEF IInv, Calling, EndOK
  <2>8. SleepIsJustified'
    <3> SUFFICES ASSUME NEW u \in asleep'
                 PROVE  /\ used'[end'[u].pipe]
                        /\ ~cancelled'[ProcOf[u]]
                        /\ pc'[u] = "read" =>
                             count'[end'[u].pipe] = 0 /\ refs'[end'[u].pipe].w # 0
                        /\ pc'[u] = "write" =>
                             /\ MustWait(end[u].pipe, args[u].len)'
                             /\ refs'[end'[u].pipe].r # 0
      BY ZenonT(60) DEF SleepIsJustified
    <3>1. u \in Threads \ {t} /\ u \in asleep /\ pc[u] \in {"read", "write"}
      BY <2>1, <2>3, ZenonT(60) DEF IInv, Calling, TypeOK
    <3>2. PICK p2 \in Pipes : p2 = end[u].pipe /\ p2 # p
      BY <2>7, <3>1, ZenonT(60) DEF Loans
    <3>3. pc'[u] = pc[u] /\ end'[u] = end[u] /\ args'[u] = args[u]
      BY <2>4, <3>1, ZenonT(60) DEF Still
    <3>4. count'[p2] = count[p2] /\ used'[p2] = used[p2] /\ refs'[p2] = refs[p2]
      BY <2>1, <2>2, <2>3, <3>2, ZenonT(60) DEF TypeOK
    <3>5. /\ used[p2] /\ ~cancelled[ProcOf[u]]
          /\ pc[u] = "read" => count[p2] = 0 /\ refs[p2].w # 0
          /\ pc[u] = "write" => MustWait(p2, args[u].len) /\ refs[p2].r # 0
      BY <3>1, <3>2, ZenonT(60) DEF IInv, SleepIsJustified
    <3> QED
      BY <2>1, <3>2, <3>3, <3>4, <3>5, ZenonT(60) DEF MustWait
  <2>9. \A u \in Threads \ {t} : FreshOK(u)' /\ HandlesOK(u)' /\ ProcOK(u)'
    <3> TAKE u \in Threads \ {t}
    <3>1. HandlesOK(u)' /\ ProcOK(u)'
      BY <2>1, <2>4, ElsewhereKept, ZenonT(60)
    <3>2. pc'[u] = pc[u] /\ end'[u] = end[u] /\ FreshOK(u)
      BY <2>4, ZenonT(60) DEF Still, IInv, Calling
    <3>3. pc[u] \in {"makeR", "makeW"} => end[u].pipe \in Pipes /\ end[u].pipe # p
      BY <2>7, Zenon DEF Making, BeforeHandle
    <3>4. FreshOK(u)'
      BY <2>5, <3>2, <3>3, ZenonT(60) DEF FreshOK, Sides
    <3> QED
      BY <3>1, <3>4, ZenonT(60)
  <2>10. ThreadOK(t)'
    BY <2>1, <2>3, <2>4, <2>5, SMT, SMTT(60) DEF ThreadOK, EndOK, ProcOK, HandlesOK, FreshOK, Making,
                            BeforeHandle, WithHandle, BothHandles, Loans
  <2>11. \A u, v \in Threads : u # v => Apart(u, v)'
    <3> SUFFICES ASSUME NEW u \in Threads, NEW v \in Threads, u # v PROVE Apart(u, v)'
      BY Zenon
    <3>1. Apart(u, v) /\ Apart(v, u)
      BY Zenon DEF IInv, Calling
    <3>2. pc'[t] \notin WithHandle /\ pc'[t] # "install"
      BY <2>4, Zenon DEF WithHandle, BothHandles
    <3>3. CASE u = t
      BY <2>4, <2>7, <3>1, <3>2, <3>3, ZenonT(60) DEF Apart, MakingOn, Still
    <3>4. CASE v = t
      BY <2>3, <2>4, <2>7, <3>1, <3>2, <3>4, ZenonT(60) DEF Apart, MakingOn, Still
    <3>5. CASE u # t /\ v # t
      BY <2>4, <3>1, <3>5, ZenonT(60) DEF Apart, MakingOn, Still
    <3> QED
      BY <3>3, <3>4, <3>5, ZenonT(60)
  <2>12. Calling'
    BY <2>1, <2>4, <2>9, <2>10, <2>11, CallingKeeps, ZenonT(60)
  <2>13. TypeOK'
    <3>1. RingTyped'
      <4>1. /\ buf \in [Pipes -> [Indices -> Threads \cup {None}]]
            /\ head \in [Pipes -> Indices] /\ tail \in [Pipes -> Indices]
            /\ count \in [Pipes -> 0..Size] /\ made \in 0..MaxPipes
            /\ Size \in Nat \ {0} /\ MaxPipes \in Nat
        BY PipeAssumption, Typing, ZenonT(60) DEF RestTyped, RingTyped
      <4>2. 0 \in Indices /\ 0 \in 0..Size /\ made' \in 0..MaxPipes
        BY <2>1, <4>1, SMT, SMTT(60) DEF Indices
      <4>3. buf' \in [Pipes -> [Indices -> Threads \cup {None}]]
        BY <2>2, <4>1, ZenonT(60)
      <4>4. head' \in [Pipes -> Indices] /\ tail' \in [Pipes -> Indices]
        BY <2>2, <4>1, <4>2, ZenonT(60)
      <4>5. count' \in [Pipes -> 0..Size]
        BY <2>2, <4>1, <4>2, ZenonT(60)
      <4> QED
        BY <4>2, <4>3, <4>4, <4>5, ZenonT(60) DEF RingTyped
    <3>2. ThreadsTyped'
      BY <2>1, <2>3, Typing, ZenonT(60) DEF RestTyped, ThreadsTyped, Labels
    <3>3. TablesTyped' /\ ProcsTyped' /\ asleep' \subseteq Threads
      BY <2>1, <2>3, Typing, ZenonT(60) DEF tables, procVars, TypeOK
    <3> QED
      BY <2>5, <3>1, <3>2, <3>3, ZenonT(60)
         DEF TypeOK, RingTyped, TablesTyped, ProcsTyped, ThreadsTyped, Labels, Answers,
             RefCounts
  <2>14. GoneStep
    BY <2>1, <2>5, SMT, SMTT(60) DEF GoneStep
  <2> QED
    BY <2>6, <2>8, <2>12, <2>13, <2>14, ZenonT(60) DEF IInv
<1> QED
  BY <1>PipeCreateKeeps, <1>HandleForReadKeeps, <1>HandleForWriteKeeps,
     <1>HandleFailsKeeps, <1>InstallAnyKeeps, <1>DropHandleKeeps, <1>UndoFdsKeeps,
     GoneFromRevived, ZenonT(60) DEF PipeCall

-----------------------------------------------------------------------------
(* The theorems. *)

LEMMA StutterKeeps ==
  ASSUME IInv, UNCHANGED vars
  PROVE  IInv' /\ GoneStep
<1>1. /\ UNCHANGED <<used, buf, head, tail, count, refs, made, fds, handles, life>>
      /\ UNCHANGED <<cancelled, calls, pc, end, args, child, newfds, answer, asleep>>
  BY Zenon DEF vars, pipeVars, tables, procVars, threadVars
<1>2. TypeOK' /\ RefsExact' /\ SleepIsJustified'
  <2>1. \A e : Holders(e)' = Holders(e)
    BY <1>1, ZenonT(60) DEF Holders, HoldingThreads
  <2>2. TypeOK'
    BY <1>1, ZenonT(60) DEF IInv, TypeOK
  <2>3. RefsExact'
    BY <1>1, <2>1, ZenonT(60) DEF IInv, RefsExact
  <2> QED
    BY <1>1, <2>2, <2>3, ZenonT(60) DEF IInv, SleepIsJustified, MustWait
<1>3. Calling'
  <2>1. /\ \A u \in Threads : (EndOK(u) /\ ProcOK(u) /\ HandlesOK(u) /\ FreshOK(u))'
        /\ \A u \in asleep' : pc'[u] \in {"read", "write"}
    BY <1>1, SMT, SMTT(60) DEF IInv, Calling, EndOK, ProcOK, HandlesOK, FreshOK
  <2>2. \A u, v \in Threads : u # v => Apart(u, v)'
    BY <1>1, ZenonT(60) DEF IInv, Calling, Apart, MakingOn
  <2> QED
    BY <2>1, <2>2, ZenonT(60) DEF Calling
<1> QED
  BY <1>1, <1>2, <1>3, ZenonT(60) DEF IInv, GoneStep

LEMMA NextKeeps ==
  ASSUME IInv, ~HandleRaces, [Next]_vars
  PROVE  IInv' /\ GoneStep
<1>1. ASSUME NEW t \in Threads, PipeCall(t) PROVE IInv' /\ GoneStep
  BY <1>1, PipeCallKeeps, Zenon
<1>2. ASSUME NEW t \in Threads, FdCall(t) \/ HandleCall(t) \/ SpawnCall(t)
      PROVE  IInv' /\ GoneStep
  BY <1>2, FdCallKeeps, HandleCallKeeps, SpawnCallKeeps, GoneFromRevived, ZenonT(60)
<1>3. ASSUME NEW t \in Threads, PipeRead(t) \/ PipeWrite(t) PROVE IInv' /\ GoneStep
  BY <1>3, TransferKeeps, ZenonT(60)
<1>4. ASSUME NEW q \in Procs, Cancel(q) \/ Exit(q) \/ Reap(q) PROVE IInv' /\ GoneStep
  BY <1>4, ProcessKeeps, Zenon
<1>5. CASE Idle \/ UNCHANGED vars
  BY <1>5, StutterKeeps, ZenonT(60) DEF Idle
<1> QED
  BY <1>1, <1>2, <1>3, <1>4, <1>5, ZenonT(60) DEF Next

LEMMA InitOK == Init => IInv
<1> SUFFICES ASSUME Init PROVE IInv
  BY Zenon
<1>1. TypeOK
  <2>1. RingTyped
    <3>1. Size \in Nat /\ Size # 0 /\ MaxPipes \in Nat
      BY PipeAssumption, ZenonT(60)
    <3>2. 0 \in Indices /\ 0 \in 0..Size /\ 0 \in 0..MaxPipes
      BY <3>1, SMT, SMTT(60) DEF Indices
    <3> QED
      BY <3>2, Zenon DEF Init, RingTyped
  <2>2. TablesTyped
    BY Zenon DEF Init, TablesTyped
  <2>3. ProcsTyped
    BY PipeAssumption, Zenon DEF Init, ProcsTyped
  <2>4. ThreadsTyped
    BY Zenon DEF Init, ThreadsTyped, Labels, Answers, NoArgs
  <2>5. used \in [Pipes -> BOOLEAN] /\ refs \in RefCounts /\ asleep \subseteq Threads
    BY Zenon DEF Init, RefCounts
  <2> QED
    BY <2>1, <2>2, <2>3, <2>4, <2>5, ZenonT(60)
       DEF TypeOK, RingTyped, TablesTyped, ProcsTyped, ThreadsTyped, Labels, Answers,
           RefCounts
<1>2. RefsExact
  <2>1. ASSUME NEW p \in Pipes, NEW s \in Sides PROVE Holders(EndOf(p, s)) = 0
    <3>1. PICK e \in Ends : e = EndOf(p, s)
      BY EndFacts, Zenon
    <3>2. FdHolders(e) = {}
      <4>1. fds = [q \in Procs |-> [d \in Fds |-> None]]
        BY Zenon DEF Init
      <4>2. e # None /\ \A q \in Procs, d \in Fds : fds[q][d] = None
        BY <4>1, PipeAssumption, Zenon
      <4>3. \A x \in Procs \X Fds : fds[x[1]][x[2]] # e
        BY <4>2, Zenon
      <4> QED
        BY <4>3, Zenon DEF FdHolders
    <3>3. HandleHolders(e) = {} /\ HoldingThreads(e) = {}
      BY Zenon DEF Init, HandleHolders, HoldingThreads
    <3>4. /\ Cardinality(FdHolders(e)) = 0 /\ Cardinality(HandleHolders(e)) = 0
          /\ Cardinality(HoldingThreads(e)) = 0
      BY <3>2, <3>3, FS_EmptySet, ZenonT(60)
    <3> QED
      BY <3>1, <3>4, HolderSets, SMT, SMTT(60)
  <2> QED
    BY <2>1, Zenon DEF Init, RefsExact
<1>3. Calling
  BY Zenon DEF Init, Calling, EndOK, ProcOK, HandlesOK, FreshOK, Apart, MakingOn, Making,
         BeforeHandle, WithHandle, BothHandles, Loans
<1>4. SleepIsJustified
  BY Zenon DEF Init, SleepIsJustified
<1> QED
  BY <1>1, <1>2, <1>3, <1>4, ZenonT(60) DEF IInv

LEMMA SpecInvariant == ~HandleRaces => (Spec => []IInv)
<1> SUFFICES ASSUME ~HandleRaces PROVE Spec => []IInv
  BY Zenon
<1>1. IInv /\ [Next]_vars => IInv'
  BY NextKeeps, Zenon
<1> QED
  BY <1>1, InitOK, PTL DEF Spec

\* The counts n_readers and n_writers that pipe_ref and pipe_unref keep are exactly
\* the descriptors, handles, loans and pending closes there are, in every interleaving
\* of the calls of any number of threads, as long as no thread uses or closes a handle
\* a sibling's call is working with: no slot is freed under a holder, none leaks.
THEOREM CountsAreExact == ~HandleRaces => (Spec => []RefsExact)
  BY SpecInvariant, PTL DEF IInv

\* Nobody oversleeps: a thread that pipe_read or pipe_write put to sleep is woken by
\* the byte, the room, the hang-up or the cancellation it waits for.
THEOREM NobodyOversleeps == ~HandleRaces => (Spec => []SleepIsJustified)
  BY SpecInvariant, PTL DEF IInv

\* End of file and broken pipe are final: a side of a pipe in use that nobody holds is
\* never held again.
THEOREM HangUpIsFinal == ~HandleRaces => (Spec => GoneIsGone)
<1> SUFFICES ASSUME ~HandleRaces PROVE Spec => GoneIsGone
  BY Zenon
<1>1. IInv /\ [Next]_vars => [GoneStep]_vars
  BY NextKeeps, Zenon
<1> QED
  BY <1>1, SpecInvariant, PTL DEF Spec, GoneIsGone, GoneStep
=============================================================================
