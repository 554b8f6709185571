------------------------- MODULE UpdateSystemProofs -------------------------
(***************************************************************************)
(* The A/B update for every set of images and every revision limit.  Of    *)
(* the journal alone: every transition keeps its state valid, remembers    *)
(* the releases, and confirms only what was tried.  Of the machine: what   *)
(* the journal names is intact whatever is interrupted, torn or misread,   *)
(* the running slot is never written, a trial starts once, and the two     *)
(* records implement the journal.                                          *)
(***************************************************************************)
EXTENDS UpdateSystem, UpdateJournal, TLAPS

(* What each transition of the journal does to a state. *)

\* No image is the empty descriptor.
LEMMA NoImageIsNone == NoImage \notin Images
  BY UpdateAssumption, Zenon DEF NoImage

\* The fields of a state.
LEMMA StateFields ==
  ASSUME NEW s \in States
  PROVE  /\ s.revision \in 1..MaxRevision
         /\ s.flags \in {"clear", "reverted", "writing"}
         /\ s.active \in Slots
         /\ s.pending \in Slots \cup {NoSlot}
         /\ s.previous \in Slots \cup {NoSlot}
         /\ s.attempts \in {0, 1}
         /\ s.slot \in [Slots -> Images \cup {NoImage}]
  BY Zenon DEF States

\* The factory state encodes.
LEMMA FactoryValid == FactoryState \in States /\ Valid(FactoryState)
  BY UpdateAssumption, NoImageIsNone
  DEF FactoryState, States, Valid, Slots, NoSlot

\* Bumping the revision changes nothing else.
LEMMA BumpValid ==
  ASSUME NEW s \in States, CanBump(s)
  PROVE  /\ Bump(s) \in States
         /\ Valid(s) => Valid(Bump(s))
         /\ Bump(s).revision = s.revision + 1
         /\ Bump(s).flags = s.flags /\ Bump(s).active = s.active
         /\ Bump(s).pending = s.pending /\ Bump(s).previous = s.previous
         /\ Bump(s).attempts = s.attempts /\ Bump(s).slot = s.slot
<1>1. s.revision + 1 \in 1..MaxRevision
  BY StateFields, UpdateAssumption DEF CanBump
<1>2. Bump(s) \in States
  BY <1>1, Zenon DEF Bump, States
<1>3. /\ Bump(s).flags = s.flags /\ Bump(s).active = s.active
      /\ Bump(s).pending = s.pending /\ Bump(s).previous = s.previous
      /\ Bump(s).attempts = s.attempts /\ Bump(s).slot = s.slot
      /\ Bump(s).revision = s.revision + 1
  BY Zenon DEF Bump, States
<1> QED
  BY <1>2, <1>3, Zenon DEF Valid

\* Each transition of protocol.c takes a valid state to a valid state.
LEMMA BeginWriteValid ==
  ASSUME NEW s \in States, Valid(s), CanBeginWrite(s)
  PROVE  BeginWrite(s) \in States /\ Valid(BeginWrite(s))
<1> DEFINE n == [s EXCEPT !.previous = NoSlot, !.flags = "writing"]
<1>1. n \in States
  BY Zenon DEF States
<1>2. CanBump(n)
  BY Zenon DEF States, CanBump, CanBeginWrite
<1>3. Valid(n)
  BY StateFields DEF Valid, States, CanBeginWrite, Slots, NoSlot
<1> QED
  BY <1>1, <1>2, <1>3, BumpValid, Zenon DEF BeginWrite

LEMMA StageValid ==
  ASSUME NEW s \in States, Valid(s),
         NEW target \in Slots, NEW image \in Images, CanStage(s, target, image)
  PROVE  Stage(s, target, image) \in States /\ Valid(Stage(s, target, image))
<1> DEFINE n == [s EXCEPT !.slot[target] = image, !.pending = target,
                          !.previous = NoSlot, !.attempts = 1, !.flags = "clear"]
<1>1. n \in States
  BY Zenon DEF States
<1>2. CanBump(n)
  BY Zenon DEF States, CanBump, CanStage
<1>3. Valid(n)
  BY NoImageIsNone, StateFields DEF Valid, States, CanStage, Slots, NoSlot
<1> QED
  BY <1>1, <1>2, <1>3, BumpValid, Zenon DEF Stage

LEMMA RejectValid ==
  ASSUME NEW s \in States, Valid(s), CanReject(s)
  PROVE  Reject(s) \in States /\ Valid(Reject(s))
<1> DEFINE n == [s EXCEPT !.pending = NoSlot, !.attempts = 0, !.flags = "reverted"]
<1>1. n \in States
  BY Zenon DEF States
<1>2. CanBump(n)
  BY Zenon DEF States, CanBump, CanReject
<1>3. Valid(n)
  BY StateFields DEF Valid, States, CanReject, Slots, NoSlot
<1> QED
  BY <1>1, <1>2, <1>3, BumpValid, Zenon DEF Reject

LEMMA ConfirmValid ==
  ASSUME NEW s \in States, Valid(s), NEW r \in Slots, CanConfirm(s, r)
  PROVE  Confirm(s, r) \in States /\ Valid(Confirm(s, r))
<1> DEFINE n == [s EXCEPT !.previous = s.active, !.active = r,
                          !.pending = NoSlot, !.flags = "clear"]
<1>1. n \in States
  BY Zenon DEF States
<1>2. CanBump(n)
  BY Zenon DEF States, CanBump, CanConfirm
<1>3. Valid(n)
  BY StateFields DEF Valid, States, CanConfirm, Slots, NoSlot
<1> QED
  BY <1>1, <1>2, <1>3, BumpValid, Zenon DEF Confirm

LEMMA RollbackValid ==
  ASSUME NEW s \in States, Valid(s), CanRollback(s)
  PROVE  Rollback(s) \in States /\ Valid(Rollback(s))
<1> DEFINE n == [s EXCEPT !.pending = s.previous, !.previous = NoSlot,
                          !.attempts = 1, !.flags = "clear"]
<1>1. n \in States
  BY Zenon DEF States
<1>2. CanBump(n)
  BY Zenon DEF States, CanBump, CanRollback
<1>3. Valid(n)
  BY StateFields, SMTT(30) DEF Valid, States, CanRollback, Slots, NoSlot
<1> QED
  BY <1>1, <1>2, <1>3, BumpValid, Zenon DEF Rollback

LEMMA BootValid ==
  ASSUME NEW s \in States, Valid(s), BootChanges(s), CanBump(s)
  PROVE  BootResult(s) \in States /\ Valid(BootResult(s))
<1>1. CASE BootTries(s)
  <2> DEFINE n == [s EXCEPT !.attempts = 0]
  <2>1. n \in States /\ CanBump(n)
    BY StateFields, Zenon DEF States, CanBump
  <2>2. Valid(n)
    BY <1>1, StateFields DEF Valid, States, BootTries, Slots, NoSlot
  <2> QED
    BY <1>1, <2>1, <2>2, BumpValid, Zenon DEF BootResult
<1>2. CASE ~BootTries(s)
  <2>1. CanReject(s)
    BY Zenon DEF CanReject, BootChanges
  <2> QED
    BY <1>2, <2>1, RejectValid, Zenon DEF BootResult
<1> QED
  BY <1>1, <1>2, Zenon
-----------------------------------------------------------------------------
\* The slots a state may start from or fall back to.
Uses(s, i) == i = s.active \/ i = s.pending \/ i = s.previous

\* What all transitions but Stage have in common: one revision on, no slot
\* descriptor changed, no slot used that was not used before.
Follows(s, n) ==
  /\ n \in States /\ Valid(n)
  /\ n.revision = s.revision + 1
  /\ n.slot = s.slot
  /\ \A i \in Slots : Uses(n, i) => Uses(s, i)

LEMMA BeginWriteFollows ==
  ASSUME NEW s \in States, Valid(s), CanBeginWrite(s)
  PROVE  /\ Follows(s, BeginWrite(s))
         /\ BeginWrite(s).active = s.active /\ BeginWrite(s).flags = "writing"
         /\ BeginWrite(s).pending = NoSlot /\ BeginWrite(s).previous = NoSlot
<1>1. /\ BeginWrite(s).slot = s.slot /\ BeginWrite(s).revision = s.revision + 1
      /\ BeginWrite(s).active = s.active /\ BeginWrite(s).flags = "writing"
      /\ BeginWrite(s).pending = s.pending /\ BeginWrite(s).previous = NoSlot
  BY Zenon DEF BeginWrite, Bump, States
<1> QED
  BY <1>1, BeginWriteValid, SMTT(30) DEF Follows, Uses, CanBeginWrite, Slots, NoSlot

LEMMA RejectFollows ==
  ASSUME NEW s \in States, Valid(s), CanReject(s)
  PROVE  /\ Follows(s, Reject(s))
         /\ Reject(s).active = s.active /\ Reject(s).pending = NoSlot
         /\ Reject(s).flags = "reverted" /\ Reject(s).previous = s.previous
<1>1. /\ Reject(s).slot = s.slot /\ Reject(s).revision = s.revision + 1
      /\ Reject(s).active = s.active /\ Reject(s).pending = NoSlot
      /\ Reject(s).flags = "reverted" /\ Reject(s).previous = s.previous
  BY Zenon DEF Reject, Bump, States
<1> QED
  BY <1>1, RejectValid DEF Follows, Uses, Slots, NoSlot

LEMMA ConfirmFollows ==
  ASSUME NEW s \in States, Valid(s), NEW r \in Slots, CanConfirm(s, r)
  PROVE  /\ Follows(s, Confirm(s, r))
         /\ Confirm(s, r).active = r /\ Confirm(s, r).pending = NoSlot
         /\ Confirm(s, r).flags = "clear"
<1>1. /\ Confirm(s, r).slot = s.slot /\ Confirm(s, r).revision = s.revision + 1
      /\ Confirm(s, r).active = r /\ Confirm(s, r).pending = NoSlot
      /\ Confirm(s, r).previous = s.active /\ Confirm(s, r).flags = "clear"
  BY Zenon DEF Confirm, Bump, States
<1> QED
  BY <1>1, ConfirmValid DEF Follows, Uses, CanConfirm, Slots, NoSlot

LEMMA RollbackFollows ==
  ASSUME NEW s \in States, Valid(s), CanRollback(s)
  PROVE  /\ Follows(s, Rollback(s))
         /\ Rollback(s).active = s.active /\ Rollback(s).flags = "clear"
<1>1. /\ Rollback(s).slot = s.slot /\ Rollback(s).revision = s.revision + 1
      /\ Rollback(s).active = s.active /\ Rollback(s).pending = s.previous
      /\ Rollback(s).previous = NoSlot /\ Rollback(s).flags = "clear"
  BY Zenon DEF Rollback, Bump, States
<1> QED
  BY <1>1, RollbackValid DEF Follows, Uses, Slots, NoSlot

\* A boot that changes the journal selects the confirmed slot or the one under
\* trial, whose attempt is spent in the state it leaves.
LEMMA BootFollows ==
  ASSUME NEW s \in States, Valid(s), BootChanges(s), CanBump(s)
  PROVE  /\ Follows(s, BootResult(s))
         /\ BootResult(s).active = s.active /\ BootResult(s).attempts = 0
         /\ BootTries(s) => BootSlot(s) = BootResult(s).pending
         /\ BootSlot(s) \in Slots
         /\ ~BootTries(s) => BootSlot(s) = s.active
<1>1. CASE BootTries(s)
  <2>1. BootResult(s) = Bump([s EXCEPT !.attempts = 0])
    BY <1>1, Zenon DEF BootResult
  <2>2. /\ BootResult(s).slot = s.slot /\ BootResult(s).revision = s.revision + 1
        /\ BootResult(s).active = s.active /\ BootResult(s).pending = s.pending
        /\ BootResult(s).previous = s.previous /\ BootResult(s).attempts = 0
    BY <2>1, Zenon DEF Bump, States
  <2>3. BootSlot(s) = s.pending /\ s.pending \in Slots
    BY <1>1, StateFields, Zenon DEF BootSlot, BootTries
  <2> QED
    BY <1>1, <2>2, <2>3, BootValid, Zenon DEF Follows, Uses
<1>2. CASE ~BootTries(s)
  <2>1. CanReject(s) /\ BootResult(s) = Reject(s)
    BY <1>2, Zenon DEF CanReject, BootChanges, BootResult
  <2>2. Reject(s).attempts = 0
    BY Zenon DEF Reject, Bump, States
  <2> QED
    BY <1>2, <2>1, <2>2, RejectFollows, StateFields, Zenon DEF BootSlot
<1> QED
  BY <1>1, <1>2, Zenon

LEMMA StageFields ==
  ASSUME NEW s \in States, NEW target \in Slots, NEW image \in Images
  PROVE  /\ Stage(s, target, image).slot = [s.slot EXCEPT ![target] = image]
         /\ Stage(s, target, image).revision = s.revision + 1
         /\ Stage(s, target, image).active = s.active
         /\ Stage(s, target, image).pending = target
         /\ Stage(s, target, image).previous = NoSlot
         /\ Stage(s, target, image).flags = "clear"
  BY Zenon DEF Stage, Bump, States

LEMMA StageStep ==
  ASSUME NEW s \in States, Valid(s),
         NEW target \in Slots, NEW image \in Images, CanStage(s, target, image)
  PROVE  /\ Stage(s, target, image) \in States /\ Valid(Stage(s, target, image))
         /\ Stage(s, target, image).revision = s.revision + 1
  BY StageValid, StageFields, ZenonT(60)
-----------------------------------------------------------------------------
(* The journal as its users see it. *)

\* Every reachable journal state passes update_state_valid: the encoder never
\* refuses a state the transitions produced (protocol.c:38-52, 54).
THEOREM JournalAlwaysValid == JournalSpec => []AlwaysValid
<1>1. JournalInit => AlwaysValid
  BY FactoryValid, Zenon DEF JournalInit, AlwaysValid
<1>2. AlwaysValid /\ [JournalNext]_st => AlwaysValid'
  <2> SUFFICES ASSUME AlwaysValid, [JournalNext]_st PROVE AlwaysValid'
    BY Zenon
  <2> USE DEF AlwaysValid
  <2>1. CASE Begins
    BY <2>1, BeginWriteValid, Zenon DEF Begins
  <2>2. CASE Stages
    <3>1. Other(st.active) \in Slots
      BY StateFields DEF Other, Slots
    <3> QED
      BY <2>2, <3>1, StageValid, Zenon DEF Stages
  <2>3. CASE Boots
    BY <2>3, BootValid, Zenon DEF Boots
  <2>4. CASE Rejects
    BY <2>4, RejectValid, Zenon DEF Rejects
  <2>5. CASE Confirms
    BY <2>5, ConfirmValid, Zenon DEF Confirms
  <2>6. CASE Rollbacks
    BY <2>6, RollbackValid, Zenon DEF Rollbacks
  <2>7. CASE UNCHANGED st
    BY <2>7, Zenon
  <2> QED
    BY <2>1, <2>2, <2>3, <2>4, <2>5, <2>6, <2>7, Zenon DEF JournalNext
<1> QED
  BY <1>1, <1>2, PTL DEF JournalSpec

\* Only Stages writes a slot descriptor.
LEMMA SlotsKept ==
  ASSUME st \in States, Begins \/ Boots \/ Rejects \/ Confirms \/ Rollbacks
  PROVE  st'.slot = st.slot
  BY Zenon DEF States, Begins, BeginWrite, Boots, BootResult, Rejects, Reject, Confirms,
         Confirm, Rollbacks, Rollback, Bump

\* A remembered release is never replaced by an older one or by different
\* bytes of the same release (protocol.c:96-110).
THEOREM JournalRemembersReleases == JournalSpec => ReleaseRemembered
<1> DEFINE Kept == \A s \in Slots : \/ st'.slot[s].release > st.slot[s].release
                                    \/ st'.slot[s] = st.slot[s]
<1>1. AlwaysValid /\ [JournalNext]_st => [Kept]_st
  <2> SUFFICES ASSUME AlwaysValid, [JournalNext]_st, ~UNCHANGED st PROVE Kept
    BY Zenon
  <2>1. CASE Stages
    <3>1. PICK image \in Images : /\ CanStage(st, Other(st.active), image)
                                  /\ st' = Stage(st, Other(st.active), image)
      BY <2>1, Zenon DEF Stages
    <3>2. /\ st'.slot = [st.slot EXCEPT ![Other(st.active)] = image]
          /\ st.slot \in [Slots -> Images \cup {NoImage}]
      BY <3>1, StateFields, Zenon DEF Stage, Bump, States, AlwaysValid
    <3>3. \A s \in Slots : st.slot[s].release \in Nat /\ image.release \in Nat
      BY <3>2, UpdateAssumption DEF NoImage
    <3> QED
      BY <3>1, <3>2, <3>3 DEF CanStage
  <2>2. CASE Begins \/ Boots \/ Rejects \/ Confirms \/ Rollbacks
    BY <2>2, SlotsKept, Zenon DEF AlwaysValid
  <2> QED
    BY <2>1, <2>2, Zenon DEF JournalNext
<1> QED
  BY <1>1, JournalAlwaysValid, PTL DEF JournalSpec, ReleaseRemembered

\* The confirmed slot changes only by confirming the slot under trial after
\* its one attempt was spent; the old one is retained (protocol.c:127-132).
THEOREM JournalConfirmsTried == JournalSpec => OnlyTriedConfirmed
<1> DEFINE Tried == st'.active # st.active =>
              st.pending = st'.active /\ st.attempts = 0 /\ st'.previous = st.active
<1>1. AlwaysValid /\ [JournalNext]_st => [Tried]_st
  <2> SUFFICES ASSUME AlwaysValid, [JournalNext]_st, ~UNCHANGED st PROVE Tried
    BY Zenon
  <2>1. CASE Confirms
    BY <2>1, Zenon DEF Confirms, Confirm, CanConfirm, Bump, States, AlwaysValid
  <2>2. CASE Begins \/ Stages \/ Boots \/ Rejects \/ Rollbacks
    <3>1. st'.active = st.active
      BY ZenonT(60), <2>2 DEF Begins, BeginWrite, Stages, Stage, Boots, BootResult, Rejects,
        Reject, Rollbacks, Rollback, Bump, States, AlwaysValid
    <3> QED
      BY <3>1, Zenon
  <2> QED
    BY <2>1, <2>2, Zenon DEF JournalNext
<1> QED
  BY <1>1, JournalAlwaysValid, PTL DEF JournalSpec, OnlyTriedConfirmed
-----------------------------------------------------------------------------
(* The machine: its inductive invariant. *)

Choice == ChooseRecord(rec[0], rec[1])

\* A record that may be acted on: the newest, or, if a read of that one fails,
\* an older one that the boot manager would change.
Live(r) == rec[r] # Torn /\ (rec[r] = Chosen \/ BootChanges(rec[r]))

\* The records are valid and one of them is chosen.
JournalOK ==
  /\ \A r \in Slots : rec[r] # Torn => Valid(rec[r])
  /\ Chosen # Torn

\* What a live record uses is intact.
LiveIntact == \A r, i \in Slots : Live(r) /\ Uses(rec[r], i) => Intact(rec[r], i)

\* What is being written, or was and is not flushed, is used by no live record.
Spare(i) == \A r \in Slots : Live(r) => ~Uses(rec[r], i)
TargetSpare == (Serving /\ u.writing) \/ dirty # {} => Spare(u.target)

\* The boot manager acts on a record; it starts another slot than the confirmed
\* one only from the state it has just recorded.
BootOK ==
  phase \in {"chain", "kernel"} =>
    /\ \E r \in Slots : rec[r] = boot.state
    /\ \/ boot.slot = boot.state.active
       \/ /\ boot.slot = boot.state.pending
          /\ boot.state = Chosen /\ boot.state.attempts = 0
          /\ phase = "chain" => boot.record = Choice

\* The service works on the chosen state; it writes the inactive slot of a state
\* that says so, and what it has verified is flushed.
ServiceOK ==
  Serving =>
    /\ u.state = Chosen /\ u.record = Choice
    /\ boot.slot = IF u.trial THEN u.state.pending ELSE u.state.active
    /\ ~u.writing => u.verify = 0
    /\ u.writing =>
         /\ u.state.flags = "writing"
         /\ u.target = Other(u.state.active)
         /\ u.verify # 0 => u.done = Parts /\ dirty = {}
         /\ u.verify = 2 => disk["root"][u.target] = u.candidate

DirtyOK == dirty # {} => phase = "running"

\* A trial that may still start has not started.
TriesOK ==
  misread \/ /\ tries <= 1
             /\ BootTries(Chosen) => tries = 0
             /\ phase = "chain" /\ boot.slot # boot.state.active => tries = 0

IInv ==
  /\ TypeOK /\ JournalOK /\ LiveIntact /\ TargetSpare
  /\ BootOK /\ ServiceOK /\ DirtyOK /\ TriesOK
-----------------------------------------------------------------------------
(* Choosing and writing records. *)

\* A record that decodes is not a torn one.
LEMMA StateNotTorn == \A s \in States : s # Torn
<1> SUFFICES ASSUME NEW s \in States PROVE s # Torn
  BY Zenon
<1>1. s.revision # 0
  BY StateFields, UpdateAssumption
<1>2. Torn.revision = 0
  BY Zenon DEF Torn
<1> QED
  BY <1>1, <1>2, Zenon

LEMMA OtherSlot ==
  \A r \in Slots : Other(r) \in Slots /\ Other(r) # r /\ Other(Other(r)) = r
  BY DEF Slots, Other

\* The record chosen is one of the two, and no other record that decodes is
\* newer, or as new and different.
LEMMA ChooseFacts ==
  ASSUME NEW a \in States \cup {Torn}, NEW b \in States \cup {Torn}
  PROVE  /\ ChooseRecord(a, b) \in {0, 1, NoSlot}
         /\ ChooseRecord(a, b) = 0 =>
              /\ a \in States
              /\ b # Torn => a.revision >= b.revision
              /\ b # Torn /\ a.revision = b.revision => a = b
         /\ ChooseRecord(a, b) = 1 =>
              /\ b \in States
              /\ a # Torn => b.revision > a.revision
         /\ a # Torn /\ b = Torn => ChooseRecord(a, b) = 0
         /\ b # Torn /\ a = Torn => ChooseRecord(a, b) = 1
         /\ a # Torn /\ b # Torn /\ a.revision > b.revision => ChooseRecord(a, b) = 0
         /\ a # Torn /\ b # Torn /\ a.revision < b.revision => ChooseRecord(a, b) = 1
<1>1. a # Torn => a \in States /\ a.revision \in Nat
  BY StateFields
<1>2. b # Torn => b \in States /\ b.revision \in Nat
  BY StateFields
<1>3. a = Torn \/ a # Torn
  BY Zenon
<1> QED
  BY <1>1, <1>2 DEF ChooseRecord, NoSlot

RecOK == rec \in [Slots -> States \cup {Torn}]

LEMMA ChosenFacts ==
  ASSUME RecOK, Chosen # Torn
  PROVE  /\ Choice \in Slots /\ Chosen = rec[Choice] /\ Chosen \in States
         /\ \A r \in Slots : rec[r] # Torn =>
              /\ rec[r] \in States
              /\ rec[r].revision <= Chosen.revision
              /\ rec[r].revision = Chosen.revision => rec[r] = Chosen
<1>1. rec[0] \in States \cup {Torn} /\ rec[1] \in States \cup {Torn}
  BY Zenon DEF RecOK, Slots
<1>2. Choice \in {0, 1}
  BY <1>1, ChooseFacts DEF Choice, Chosen, NoSlot
<1>3. Chosen = rec[Choice]
  BY <1>2, Zenon DEF Chosen, Choice, NoSlot
<1>4. \A r \in Slots : rec[r] # Torn => rec[r] \in States /\ rec[r].revision \in Nat
  BY StateFields DEF RecOK
<1>5. CASE Choice = 0
  BY <1>1, <1>3, <1>4, <1>5, ChooseFacts, SMTT(30) DEF Choice, Slots
<1>6. CASE Choice = 1
  BY <1>1, <1>3, <1>4, <1>6, ChooseFacts, SMTT(30) DEF Choice, Slots
<1> QED
  BY <1>2, <1>5, <1>6, Zenon

\* What a write of `next` beside record r, whether it succeeds, fails or tears
\* the record, does to the journal.
Moved(r, next) ==
  /\ RecOK' /\ JournalOK'
  /\ rec'[r] = rec[r]
  /\ \A q \in Slots : Live(q)' => rec'[q] = next \/ (Live(q) /\ rec'[q] = rec[q])
  /\ rec[r] = Chosen => Chosen' \in {Chosen, next}

LEMMA RecordWritten ==
  ASSUME RecOK, JournalOK, NEW r \in Slots, Live(r),
         NEW next \in States, Valid(next), next.revision = rec[r].revision + 1,
         NEW x \in {rec[Other(r)], next, Torn},
         rec' = [rec EXCEPT ![Other(r)] = x]
  PROVE  /\ Moved(r, next)
         /\ x = next => Chosen' = next /\ Choice' = Other(r)
<1>1. Other(r) \in Slots /\ Other(r) # r /\ Slots = {r, Other(r)}
  BY DEF Slots, Other
<1>2. rec[r] \in States /\ rec[r] # Torn /\ Valid(rec[r]) /\ rec[r].revision \in Nat
  BY StateFields, SMTT(30) DEF RecOK, JournalOK, Live
<1>3. next # Torn
  BY StateNotTorn, Zenon
<1>4. rec' \in [Slots -> States \cup {Torn}]
  BY <1>1, Zenon DEF RecOK
<1>5. rec'[r] = rec[r] /\ rec'[Other(r)] = x
  BY <1>1, Zenon DEF RecOK
<1>6. \A q \in Slots : rec'[q] # Torn => Valid(rec'[q])
  BY <1>1, <1>2, <1>5, Zenon DEF JournalOK
<1>7. ASSUME x = next PROVE Choice' = Other(r) /\ Chosen' = next
  <2>1. next.revision > rec[r].revision
    BY <1>2, SMTT(30)
  <2>2. CASE r = 0
    <3>1. rec'[0] = rec[0] /\ rec'[1] = next
      BY <1>5, <1>7, <2>2, SMTT(30) DEF Other
    <3>2. ChooseRecord(rec'[0], rec'[1]) = 1
      BY <1>2, <1>3, <2>1, <2>2, <3>1, ChooseFacts, SMTT(30)
    <3> QED
      BY <2>2, <3>1, <3>2, SMTT(30) DEF Choice, Chosen, Other, NoSlot
  <2>3. CASE r = 1
    <3>1. rec'[1] = rec[1] /\ rec'[0] = next
      BY <1>5, <1>7, <2>3, SMTT(30) DEF Other
    <3>2. ChooseRecord(rec'[0], rec'[1]) = 0
      BY <1>2, <1>3, <2>1, <2>3, <3>1, ChooseFacts, SMTT(30)
    <3> QED
      BY <2>3, <3>1, <3>2, SMTT(30) DEF Choice, Chosen, Other, NoSlot
  <2> QED
    BY <2>2, <2>3, Zenon DEF Slots
<1>8. ASSUME x = Torn PROVE Chosen' = rec[r]
  <2>1. CASE r = 0
    <3>1. rec'[0] = rec[0] /\ rec'[1] = Torn
      BY <1>5, <1>8, <2>1, SMTT(30) DEF Other
    <3>2. ChooseRecord(rec'[0], rec'[1]) = 0
      BY <1>2, <2>1, <3>1, ChooseFacts, SMTT(30)
    <3> QED
      BY <2>1, <3>1, <3>2, SMTT(30) DEF Chosen, NoSlot
  <2>2. CASE r = 1
    <3>1. rec'[1] = rec[1] /\ rec'[0] = Torn
      BY <1>5, <1>8, <2>2, SMTT(30) DEF Other
    <3>2. ChooseRecord(rec'[0], rec'[1]) = 1
      BY <1>2, <2>2, <3>1, ChooseFacts, SMTT(30)
    <3> QED
      BY <2>2, <3>1, <3>2, SMTT(30) DEF Chosen, NoSlot
  <2> QED
    BY <2>1, <2>2, Zenon DEF Slots
<1>9. ASSUME x = rec[Other(r)] PROVE rec' = rec /\ Chosen' = Chosen
  BY <1>1, <1>9, SMTT(30) DEF RecOK, Chosen
<1>10. Chosen' # Torn
  BY <1>2, <1>3, <1>7, <1>8, <1>9, Zenon DEF JournalOK
<1>11. \A q \in Slots : Live(q)' => rec'[q] = next \/ (Live(q) /\ rec'[q] = rec[q])
  <2>1. CASE x = rec[Other(r)]
    BY <1>9, <2>1, Zenon DEF Live
  <2>2. CASE x \in {next, Torn}
    BY <1>1, <1>5, <2>2, Zenon DEF Live
  <2> QED
    BY <2>1, <2>2, Zenon
<1> QED
  BY <1>4, <1>5, <1>6, <1>7, <1>8, <1>9, <1>10, <1>11, Zenon DEF Moved, RecOK, JournalOK

\* A transition other than Stage keeps what is used intact and what is spare
\* spare.
LEMMA MovedKeeps ==
  ASSUME NEW r \in Slots, Live(r), NEW next, Follows(rec[r], next), Moved(r, next)
  PROVE  /\ LiveIntact /\ disk' = disk => LiveIntact'
         /\ \A i \in Slots : Spare(i) => Spare(i)'
<1>1. ASSUME LiveIntact, disk' = disk PROVE LiveIntact'
  <2> SUFFICES ASSUME NEW q \in Slots, NEW i \in Slots, Live(q)', Uses(rec'[q], i)
               PROVE  Intact(rec[q], i)'
    BY Zenon DEF LiveIntact
  <2>1. CASE rec'[q] = next
    <3>1. Uses(rec[r], i) /\ next.slot = rec[r].slot
      BY <2>1, Zenon DEF Follows
    <3>2. Intact(rec[r], i)
      BY <1>1, <3>1, Zenon DEF LiveIntact
    <3> QED
      BY <1>1, <2>1, <3>1, <3>2, Zenon DEF Intact
  <2>2. CASE Live(q) /\ rec'[q] = rec[q]
    BY <1>1, <2>2 DEF LiveIntact, Intact
  <2> QED
    BY <2>1, <2>2, Zenon DEF Moved
<1>2. ASSUME NEW i \in Slots, Spare(i) PROVE Spare(i)'
  <2> SUFFICES ASSUME NEW q \in Slots, Live(q)', Uses(rec'[q], i) PROVE FALSE
    BY Zenon DEF Spare
  <2>1. CASE rec'[q] = next
    BY <1>2, <2>1, Zenon DEF Spare, Follows
  <2>2. CASE Live(q) /\ rec'[q] = rec[q]
    BY <1>2, <2>2, Zenon DEF Spare
  <2> QED
    BY <2>1, <2>2, Zenon DEF Moved
<1> QED
  BY <1>1, <1>2, Zenon

\* Without a journal write, and without a write to a slot in use, nothing that
\* the journal names changes.
LEMMA RecKept ==
  ASSUME rec' = rec
  PROVE  /\ RecOK => RecOK'
         /\ JournalOK => JournalOK'
         /\ Chosen' = Chosen /\ Choice' = Choice
         /\ \A q \in Slots : Live(q)' <=> Live(q)
         /\ \A i \in Slots : Spare(i)' <=> Spare(i)
         /\ disk' = disk /\ LiveIntact => LiveIntact'
<1>1. Chosen' = Chosen /\ Choice' = Choice
  BY Zenon DEF Chosen, Choice
<1>2. \A q \in Slots : Live(q)' <=> Live(q)
  BY <1>1, Zenon DEF Live
<1>3. \A i \in Slots : Spare(i)' <=> Spare(i)
  BY <1>2, Zenon DEF Spare
<1>4. disk' = disk /\ LiveIntact => LiveIntact'
  BY <1>2 DEF LiveIntact, Intact
<1> QED
  BY <1>1, <1>2, <1>3, <1>4, Zenon DEF RecOK, JournalOK

LEMMA ChosenLive ==
  ASSUME RecOK, JournalOK
  PROVE  /\ Choice \in Slots /\ rec[Choice] = Chosen /\ Live(Choice)
         /\ Chosen \in States /\ Valid(Chosen)
<1>1. /\ Choice \in Slots /\ rec[Choice] = Chosen
      /\ Chosen \in States /\ Chosen # Torn
  BY ChosenFacts, Zenon DEF JournalOK
<1> QED
  BY <1>1, Zenon DEF Live, JournalOK

\* persist() of the transition from the service's state.
LEMMA PersistStep ==
  ASSUME IInv, Serving, NEW next \in States, Valid(next),
         next.revision = u.state.revision + 1,
         NEW done, NEW failed, Persist(next, done, failed)
  PROVE  /\ u.record \in Slots /\ Live(u.record) /\ rec[u.record] = u.state
         /\ u.state \in States /\ Valid(u.state)
         /\ Moved(u.record, next)
         /\ Chosen' \in {u.state, next}
         /\ \/ u' = [failed EXCEPT !.ready = FALSE]
            \/ /\ u' = [done EXCEPT !.state = next, !.record = Other(u.record)]
               /\ Chosen' = next /\ Choice' = Other(u.record)
<1>1. RecOK /\ JournalOK
  BY Zenon DEF IInv, TypeOK, RecOK
<1>2. u.state = Chosen /\ u.record = Choice
  BY Zenon DEF IInv, ServiceOK
<1>3. /\ u.record \in Slots /\ Live(u.record) /\ rec[u.record] = u.state
      /\ u.state \in States /\ Valid(u.state)
  BY <1>1, <1>2, ChosenLive, Zenon
<1>4. CASE WriteRecord(u.record, next)
           /\ u' = [done EXCEPT !.state = next, !.record = Other(u.record)]
  BY <1>1, <1>2, <1>3, <1>4, RecordWritten, Zenon DEF WriteRecord, Moved
<1>5. CASE WriteRecordFails(u.record, next) /\ u' = [failed EXCEPT !.ready = FALSE]
  <2>1. PICK x \in {rec[Other(u.record)], next, Torn} :
               rec' = [rec EXCEPT ![Other(u.record)] = x]
    BY <1>5, Zenon DEF WriteRecordFails
  <2> QED
    BY <1>1, <1>2, <1>3, <1>5, <2>1, RecordWritten, Zenon DEF Moved
<1> QED
  BY <1>3, <1>4, <1>5, Zenon DEF Persist
-----------------------------------------------------------------------------
(* Steps of the service. *)

ServiceType ==
  [ready : BOOLEAN, state : States, record : Slots, trial : BOOLEAN,
   worker : {"none", "alive", "dead"}, job : BOOLEAN,
   writing : BOOLEAN, target : Slots, candidate : Images,
   done : SUBSET Parts, verify : 0..2, healthy : BOOLEAN]

LEMMA ServiceFields ==
  ASSUME NEW v \in ServiceType
  PROVE  /\ v.ready \in BOOLEAN /\ v.state \in States /\ v.record \in Slots
         /\ v.trial \in BOOLEAN /\ v.writing \in BOOLEAN /\ v.target \in Slots
         /\ v.candidate \in Images /\ v.done \subseteq Parts /\ v.verify \in 0..2
  BY Zenon DEF ServiceType

\* A service call runs in phase "running" and leaves the machine there.
LEMMA ServingKeeps ==
  ASSUME IInv, Serving, UNCHANGED <<phase, boot, misread>>,
         RecOK', disk' \in [Parts -> [Slots -> Contents]], dirty' \subseteq Parts,
         u' \in ServiceType,
         JournalOK', LiveIntact', TargetSpare', ServiceOK',
         tries' = 0 \/ (tries' = tries /\ (BootTries(Chosen') => BootTries(Chosen)))
  PROVE  IInv'
<1>1. TypeOK'
  BY SMTT(30) DEF IInv, TypeOK, RecOK, ServiceType
<1>2. phase' = "running"
  BY Zenon DEF Serving
<1>3. BootOK' /\ DirtyOK'
  BY <1>2, Zenon DEF BootOK, DirtyOK
<1>4. TriesOK'
  BY <1>2 DEF IInv, TriesOK
<1> QED
  BY <1>1, <1>3, <1>4, Zenon DEF IInv

\* A call that writes neither the journal nor a slot, and at most ends staging.
LEMMA CallKeeps ==
  ASSUME IInv, Serving, UNCHANGED <<rec, disk, dirty, phase, boot, tries, misread>>,
         u' \in ServiceType,
         u'.state = u.state, u'.record = u.record, u'.trial = u.trial,
         u'.target = u.target, u'.candidate = u.candidate, u'.done = u.done,
         \/ u'.writing = u.writing /\ u'.verify = u.verify
         \/ u'.writing = FALSE /\ u'.verify = 0
  PROVE  IInv'
<1>1. RecOK /\ JournalOK /\ LiveIntact /\ u \in ServiceType
  BY Zenon DEF IInv, TypeOK, RecOK, ServiceType
<1>2. RecOK' /\ JournalOK' /\ LiveIntact' /\ Chosen' = Chosen /\ Choice' = Choice
  BY <1>1, RecKept, Zenon
<1>3. TargetSpare'
  <2>1. u.target \in Slots
    BY <1>1, ServiceFields, Zenon
  <2>2. Spare(u.target)' <=> Spare(u.target)
    BY RecKept, Zenon DEF Spare
  <2> QED
    BY <2>1, <2>2, Zenon DEF IInv, TargetSpare, Serving, Spare
<1>4. ServiceOK'
  BY <1>2, ZenonT(60) DEF IInv, ServiceOK, Serving
<1> QED
  BY <1>2, <1>3, <1>4, ServingKeeps, Zenon DEF IInv, TypeOK

\* Spare after the step, for a slot given before it.
WillSpare(i) == \A q \in Slots : Live(q)' => ~Uses(rec'[q], i)

\* A call that persists a transition other than Stage.
LEMMA PersistKeeps ==
  ASSUME IInv, Serving, UNCHANGED <<disk, dirty, phase, boot, misread>>,
         NEW next, Follows(u.state, next),
         NEW done \in ServiceType, NEW failed \in ServiceType,
         Persist(next, done, failed),
         dirty # {} => done.target = u.target /\ failed.target = u.target,
         boot.slot = IF done.trial THEN next.pending ELSE next.active,
         ~done.writing => done.verify = 0,
         done.writing =>
           /\ next.flags = "writing" /\ done.target = Other(next.active)
           /\ done.verify = 0
           /\ Chosen' = next => WillSpare(done.target),
         tries' = 0 \/ (tries' = tries /\ ~BootTries(next))
  PROVE  IInv'
<1>1. RecOK /\ JournalOK /\ LiveIntact /\ u \in ServiceType
  BY Zenon DEF IInv, TypeOK, RecOK, ServiceType
<1>2. next \in States /\ Valid(next) /\ next.revision = u.state.revision + 1
  BY Zenon DEF Follows
<1>3. /\ u.record \in Slots /\ Live(u.record) /\ rec[u.record] = u.state
      /\ Moved(u.record, next) /\ Chosen' \in {u.state, next}
      /\ \/ u' = [failed EXCEPT !.ready = FALSE]
         \/ /\ u' = [done EXCEPT !.state = next, !.record = Other(u.record)]
            /\ Chosen' = next /\ Choice' = Other(u.record)
  BY <1>2, PersistStep, Zenon
<1>4. LiveIntact' /\ \A i \in Slots : Spare(i) => Spare(i)'
  BY <1>1, <1>3, MovedKeeps, Zenon
<1>5. u.target \in Slots /\ (dirty # {} => Spare(u.target))
  BY <1>1, ServiceFields, Zenon DEF IInv, TargetSpare
<1>6. tries' = 0 \/ (tries' = tries /\ (BootTries(Chosen') => BootTries(Chosen)))
  <2>1. u.state = Chosen
    BY Zenon DEF IInv, ServiceOK
  <2> QED
    BY <1>3, <2>1, Zenon
<1>7. RecOK' /\ JournalOK'
  BY <1>3, Zenon DEF Moved
<1>8. CASE u' = [failed EXCEPT !.ready = FALSE]
  <2>1. u' \in ServiceType
    BY <1>8, Zenon DEF ServiceType
  <2>2. u'.ready = FALSE /\ u'.target = failed.target
    BY <1>8, Zenon DEF ServiceType
  <2>3. TargetSpare'
    BY <1>4, <1>5, <2>2, Zenon DEF TargetSpare, Serving, Spare
  <2>4. ServiceOK'
    BY <2>2, Zenon DEF ServiceOK, Serving
  <2> QED
    BY <1>4, <1>6, <1>7, <2>1, <2>3, <2>4, ServingKeeps, Zenon DEF IInv, TypeOK
<1>9. CASE /\ u' = [done EXCEPT !.state = next, !.record = Other(u.record)]
           /\ Chosen' = next /\ Choice' = Other(u.record)
  <2>1. u' \in ServiceType
    BY <1>2, <1>3, <1>9, OtherSlot, Zenon DEF ServiceType
  <2>2. /\ u'.state = next /\ u'.record = Other(u.record) /\ u'.trial = done.trial
        /\ u'.writing = done.writing /\ u'.target = done.target
        /\ u'.verify = done.verify
    BY <1>9, Zenon DEF ServiceType
  <2>3. TargetSpare'
    BY <1>4, <1>5, <1>9, <2>2, Zenon DEF TargetSpare, Serving, Spare, WillSpare
  <2>4. ServiceOK'
    BY <1>9, <2>2 DEF ServiceOK, Serving
  <2> QED
    BY <1>4, <1>6, <1>7, <2>1, <2>3, <2>4, ServingKeeps, Zenon DEF IInv, TypeOK
<1> QED
  BY <1>3, <1>8, <1>9, Zenon

\* What a call starts from.
LEMMA CallFacts ==
  ASSUME IInv, Serving
  PROVE  /\ u \in ServiceType /\ u.state \in States /\ Valid(u.state)
         /\ boot.slot \in Slots
         /\ boot.slot = IF u.trial THEN u.state.pending ELSE u.state.active
         /\ ~u.writing => u.verify = 0
         /\ u.writing => /\ u.state.flags = "writing" /\ u.state.pending = NoSlot
                         /\ u.state.previous = NoSlot /\ ~u.trial
                         /\ u.target = Other(u.state.active)
                         /\ Spare(u.target)
<1>1. RecOK /\ JournalOK /\ u \in ServiceType /\ boot.slot \in Slots
  BY Zenon DEF IInv, TypeOK, RecOK, ServiceType
<1>2. u.state \in States /\ Valid(u.state)
  BY <1>1, ChosenLive, Zenon DEF IInv, ServiceOK
<1>3. /\ boot.slot = IF u.trial THEN u.state.pending ELSE u.state.active
      /\ ~u.writing => u.verify = 0
      /\ u.writing => /\ u.state.flags = "writing"
                      /\ u.target = Other(u.state.active)
                      /\ Spare(u.target)
  BY Zenon DEF IInv, ServiceOK, TargetSpare
<1>4. u.writing => u.state.pending = NoSlot /\ u.state.previous = NoSlot /\ ~u.trial
  BY <1>1, <1>2, <1>3, SMTT(30) DEF Valid, Slots, NoSlot
<1> QED
  BY <1>1, <1>2, <1>3, <1>4, Zenon

\* Rejecting what was being written.
LEMMA RejectKeeps ==
  ASSUME IInv, Serving, u.writing, CanReject(u.state),
         UNCHANGED <<disk, dirty, phase, boot, tries, misread>>,
         NEW done \in ServiceType, NEW failed \in ServiceType,
         done.target = u.target, failed.target = u.target, done.trial = u.trial,
         done.writing = FALSE, done.verify = 0,
         Persist(Reject(u.state), done, failed)
  PROVE  IInv'
<1>1. /\ Follows(u.state, Reject(u.state)) /\ Reject(u.state).active = u.state.active
      /\ Reject(u.state).pending = NoSlot
  BY CallFacts, RejectFollows, Zenon
<1>2. boot.slot = IF done.trial THEN Reject(u.state).pending ELSE Reject(u.state).active
  BY <1>1, CallFacts, Zenon
<1>3. ~BootTries(Reject(u.state))
  BY <1>1, Zenon DEF BootTries
<1> QED
  BY <1>1, <1>2, <1>3, PersistKeeps, Zenon

LEMMA ClearType ==
  ASSUME NEW v \in ServiceType
  PROVE  /\ StagingClear(v) \in ServiceType
         /\ StagingClear(v).writing = FALSE /\ StagingClear(v).verify = 0
         /\ StagingClear(v).state = v.state /\ StagingClear(v).record = v.record
         /\ StagingClear(v).trial = v.trial /\ StagingClear(v).target = v.target
         /\ StagingClear(v).candidate = v.candidate /\ StagingClear(v).done = v.done
<1>1. StagingClear(v) \in ServiceType
  <2>1. 0 \in 0..2
    OBVIOUS
  <2> QED
    BY <2>1, Zenon DEF StagingClear, ServiceType
<1> QED
  BY <1>1, Zenon DEF StagingClear, ServiceType

LEMMA RegisterWorkerKeeps == IInv /\ RegisterWorker => IInv'
<1> SUFFICES ASSUME IInv, RegisterWorker PROVE IInv'
  BY Zenon
<1> DEFINE registered == [u EXCEPT !.job = FALSE, !.worker = "alive"]
<1>1. u \in ServiceType /\ Serving
  BY CallFacts, Zenon DEF RegisterWorker
<1>2. /\ registered \in ServiceType /\ registered.state = u.state
      /\ registered.record = u.record /\ registered.trial = u.trial
      /\ registered.target = u.target /\ registered.candidate = u.candidate
      /\ registered.done = u.done /\ registered.writing = u.writing
      /\ registered.verify = u.verify
  BY <1>1, Zenon DEF ServiceType
<1>3. CASE u' = registered /\ rec' = rec
  BY <1>1, <1>2, <1>3, CallKeeps, Zenon DEF RegisterWorker
<1>4. CASE /\ u.writing /\ CanReject(u.state)
           /\ Persist(Reject(u.state), StagingClear(registered), StagingClear(u))
  <2>1. /\ StagingClear(registered) \in ServiceType
        /\ StagingClear(registered).target = u.target
        /\ StagingClear(registered).trial = u.trial
        /\ StagingClear(registered).writing = FALSE
        /\ StagingClear(registered).verify = 0
    BY <1>2, ClearType, Zenon
  <2>2. StagingClear(u) \in ServiceType /\ StagingClear(u).target = u.target
    BY <1>1, ClearType, Zenon
  <2>3. UNCHANGED <<disk, dirty, phase, boot, tries, misread>>
    BY Zenon DEF RegisterWorker
  <2> HIDE DEF registered
  <2> QED
    BY <1>1, <1>4, <2>1, <2>2, <2>3, RejectKeeps, Zenon
<1>5. CASE u' = StagingClear(u) /\ rec' = rec
  BY <1>1, <1>5, ClearType, CallKeeps, Zenon DEF RegisterWorker
<1> QED
  BY <1>3, <1>4, <1>5, Zenon DEF RegisterWorker

LEMMA AbortKeeps == IInv /\ Abort => IInv'
<1> SUFFICES ASSUME IInv, Abort PROVE IInv'
  BY Zenon
<1> DEFINE idle == [u EXCEPT !.job = FALSE]
<1>1. u \in ServiceType /\ Serving
  BY CallFacts, Zenon DEF Abort, WorkerCalls
<1>2. /\ idle \in ServiceType /\ idle.state = u.state /\ idle.record = u.record
      /\ idle.trial = u.trial /\ idle.target = u.target
      /\ idle.candidate = u.candidate /\ idle.done = u.done
  BY <1>1, Zenon DEF ServiceType
<1>3. CASE /\ u.writing /\ CanReject(u.state)
           /\ Persist(Reject(u.state), StagingClear(idle), StagingClear(idle))
  <2>1. /\ StagingClear(idle) \in ServiceType
        /\ StagingClear(idle).target = u.target
        /\ StagingClear(idle).trial = u.trial
        /\ StagingClear(idle).writing = FALSE
        /\ StagingClear(idle).verify = 0
    BY <1>2, ClearType, Zenon
  <2>2. UNCHANGED <<disk, dirty, phase, boot, tries, misread>>
    BY Zenon DEF Abort
  <2> HIDE DEF idle
  <2> QED
    BY <1>1, <1>3, <2>1, <2>2, RejectKeeps, Zenon
<1>4. CASE u' = StagingClear(idle) /\ rec' = rec
  BY <1>1, <1>2, <1>4, ClearType, CallKeeps, Zenon DEF Abort
<1> QED
  BY <1>3, <1>4, Zenon DEF Abort

LEMMA WorkerDiesKeeps == IInv /\ WorkerDies => IInv'
<1> SUFFICES ASSUME IInv, WorkerDies PROVE IInv'
  BY Zenon
<1>1. u \in ServiceType /\ Serving
  BY CallFacts, Zenon DEF WorkerDies, WorkerCalls
<1> QED
  BY <1>1, CallKeeps, Zenon DEF WorkerDies, ServiceType

LEMMA RequestJobKeeps == IInv /\ RequestJob => IInv'
<1> SUFFICES ASSUME IInv, RequestJob PROVE IInv'
  BY Zenon
<1>1. u \in ServiceType /\ Serving
  BY CallFacts, Zenon DEF RequestJob, AdminMay
<1> QED
  BY <1>1, CallKeeps, Zenon DEF RequestJob, ServiceType

LEMMA ReportDoneKeeps == IInv /\ ReportDone => IInv'
<1> SUFFICES ASSUME IInv, ReportDone PROVE IInv'
  BY Zenon
<1>1. u \in ServiceType /\ Serving
  BY CallFacts, Zenon DEF ReportDone, WorkerCalls
<1> QED
  BY <1>1, CallKeeps, Zenon DEF ReportDone, ServiceType

LEMMA RequestRollbackKeeps == IInv /\ RequestRollback => IInv'
<1> SUFFICES ASSUME IInv, RequestRollback PROVE IInv'
  BY Zenon
<1> DEFINE next == Rollback(u.state)
<1>1. /\ Serving /\ ~u.writing /\ ~u.trial /\ CanRollback(u.state)
      /\ Persist(next, u, u) /\ tries' = 0
      /\ UNCHANGED <<disk, dirty, phase, boot, misread>>
  BY Zenon DEF RequestRollback, AdminMay
<1>2. Follows(u.state, next) /\ next.active = u.state.active
  BY <1>1, CallFacts, RollbackFollows, Zenon
<1>3. /\ u \in ServiceType /\ u.verify = 0
      /\ boot.slot = IF u.trial THEN next.pending ELSE next.active
  BY <1>1, <1>2, CallFacts, Zenon
<1> HIDE DEF next
<1> QED
  BY <1>1, <1>2, <1>3, PersistKeeps, Zenon

LEMMA HealthKeeps ==
  ASSUME NEW desktop \in BOOLEAN
  PROVE  IInv /\ Health(desktop) => IInv'
<1> SUFFICES ASSUME IInv, Health(desktop) PROVE IInv'
  BY Zenon
<1>1. /\ Serving /\ u.trial /\ u \in ServiceType /\ ~u.writing /\ u.verify = 0
      /\ boot.slot \in Slots
  BY CallFacts, Zenon DEF Health
<1>2. UNCHANGED <<disk, dirty, phase, boot, tries, misread>>
  BY Zenon DEF Health
<1>3. CASE rec' = rec /\ \E h \in BOOLEAN : u' = [u EXCEPT !.healthy = h]
  BY <1>1, <1>2, <1>3, CallKeeps, Zenon DEF ServiceType
<1>4. CASE /\ CanConfirm(u.state, boot.slot)
           /\ Persist(Confirm(u.state, boot.slot), [u EXCEPT !.trial = FALSE], u)
  <2> DEFINE next == Confirm(u.state, boot.slot)
             done == [u EXCEPT !.trial = FALSE]
  <2>1. Follows(u.state, next) /\ next.active = boot.slot /\ next.pending = NoSlot
    BY <1>1, <1>4, CallFacts, ConfirmFollows, Zenon
  <2>2. /\ done \in ServiceType /\ done.trial = FALSE /\ done.target = u.target
        /\ done.writing = FALSE /\ done.verify = 0
    BY <1>1, Zenon DEF ServiceType
  <2>3. ~BootTries(next)
    BY <2>1, Zenon DEF BootTries
  <2>4. Persist(next, done, u)
    BY <1>4, Zenon
  <2>5. boot.slot = IF done.trial THEN next.pending ELSE next.active
    BY <2>1, <2>2, Zenon
  <2> HIDE DEF next, done
  <2> QED
    BY <1>1, <1>2, <2>1, <2>2, <2>3, <2>4, <2>5, PersistKeeps, Zenon
<1> QED
  BY <1>3, <1>4, Zenon DEF Health

LEMMA BeginKeeps ==
  ASSUME NEW image \in Images
  PROVE  IInv /\ Begin(image) => IInv'
<1> SUFFICES ASSUME IInv, Begin(image) PROVE IInv'
  BY Zenon
<1> DEFINE target == Other(u.state.active)
           next == BeginWrite(u.state)
           done == [u EXCEPT !.writing = TRUE, !.target = target,
                             !.candidate = image, !.done = {}]
           failed == [u EXCEPT !.target = target]
<1>1. /\ Serving /\ ~u.writing /\ CanBeginWrite(u.state)
      /\ Persist(next, done, failed)
      /\ UNCHANGED <<disk, dirty, phase, boot, tries, misread>>
  BY Zenon DEF Begin, WorkerCalls
<1>2. /\ u \in ServiceType /\ u.state \in States /\ Valid(u.state) /\ u.verify = 0
      /\ boot.slot \in Slots
      /\ boot.slot = IF u.trial THEN u.state.pending ELSE u.state.active
  BY <1>1, CallFacts, Zenon
<1>3. /\ Follows(u.state, next) /\ next.active = u.state.active
      /\ next.flags = "writing" /\ next.pending = NoSlot /\ next.previous = NoSlot
  BY <1>1, <1>2, BeginWriteFollows, Zenon
<1>4. u.state.active \in Slots /\ target \in Slots /\ target # u.state.active
  BY <1>2, StateFields, OtherSlot, Zenon
<1>5. /\ done \in ServiceType /\ done.writing = TRUE /\ done.target = target
      /\ done.verify = 0 /\ done.trial = u.trial
  BY <1>2, <1>4, Zenon DEF ServiceType
<1>6. failed \in ServiceType /\ failed.target = target
  BY <1>2, <1>4, Zenon DEF ServiceType
<1>7. boot.slot = IF done.trial THEN next.pending ELSE next.active
  BY <1>1, <1>2, <1>3, <1>5, SMTT(30) DEF CanBeginWrite, Slots, NoSlot
<1>8. dirty # {} => target = u.target
  <2>1. dirty # {} => ~Uses(u.state, u.target)
    BY <1>1, PersistStep, <1>3, Zenon DEF Follows, IInv, TargetSpare, Spare
  <2>2. u.target \in Slots
    BY <1>2, ServiceFields, Zenon
  <2> QED
    BY <1>4, <2>1, <2>2, Zenon DEF Uses, Slots, Other
<1>9. ASSUME Chosen' = next PROVE WillSpare(target)
  <2> SUFFICES ASSUME NEW q \in Slots, Live(q)', Uses(rec'[q], target) PROVE FALSE
    BY Zenon DEF WillSpare
  <2>1. u.record \in Slots /\ rec[u.record] = u.state /\ Moved(u.record, next)
    BY <1>1, <1>3, PersistStep, Zenon DEF Follows
  <2>2. ~Uses(next, target)
    BY <1>3, <1>4, SMTT(30) DEF Uses, Slots, NoSlot
  <2>3. next # Torn /\ next # u.state
    BY <1>2, <1>3, StateNotTorn, StateFields, SMTT(30) DEF Follows
  <2>4. Chosen' \in {rec'[0], rec'[1]}
    BY <1>9, <2>1, <2>3, ChooseFacts, SMTT(30) DEF Moved, RecOK, Chosen, Slots, NoSlot
  <2>5. rec'[q] = u.state
    BY <1>9, <2>1, <2>2, <2>3, <2>4, Zenon DEF Moved, Slots
  <2>6. ~BootChanges(u.state)
    BY <1>1, Zenon DEF BootChanges, CanBeginWrite
  <2> QED
    BY <1>9, <2>3, <2>5, <2>6, Zenon DEF Live
<1>10. ~BootTries(next)
  BY <1>3, Zenon DEF BootTries
<1>11. target = Other(next.active)
  BY <1>3, Zenon
<1> HIDE DEF target, next, done, failed
<1> QED
  BY <1>1, <1>3, <1>5, <1>6, <1>7, <1>8, <1>9, <1>10, <1>11, PersistKeeps, Zenon

LEMMA WriteImageKeeps ==
  ASSUME NEW part \in Parts
  PROVE  IInv /\ WriteImage(part) => IInv'
<1> SUFFICES ASSUME IInv, WriteImage(part) PROVE IInv'
  BY Zenon
<1>1. /\ Serving /\ u.writing /\ part \notin u.done
      /\ dirty' = dirty \cup {part}
      /\ UNCHANGED <<rec, phase, boot, tries, misread>>
  BY Zenon DEF WriteImage, WorkerCalls
<1>2. PICK bytes \in {u.candidate, Junk} :
             /\ disk' = [disk EXCEPT ![part][u.target] = bytes]
             /\ u' = [u EXCEPT !.done = @ \cup {part}] \/ u' = u
  BY Zenon DEF WriteImage
<1>3. u \in ServiceType /\ Spare(u.target) /\ u.target \in Slots /\ bytes \in Contents
  BY <1>1, CallFacts, ServiceFields, Zenon DEF Contents
<1>4. /\ u' \in ServiceType /\ u'.ready = u.ready /\ u'.state = u.state
      /\ u'.record = u.record
      /\ u'.trial = u.trial /\ u'.writing = u.writing /\ u'.target = u.target
      /\ u'.candidate = u.candidate /\ u'.verify = u.verify
  BY <1>2, <1>3, SMTT(30) DEF ServiceType
<1>5. RecOK /\ JournalOK /\ LiveIntact /\ disk \in [Parts -> [Slots -> Contents]]
  BY Zenon DEF IInv, TypeOK, RecOK
<1>6. RecOK' /\ JournalOK' /\ Chosen' = Chosen /\ Choice' = Choice
  BY <1>1, <1>5, RecKept, Zenon
<1>7. disk' \in [Parts -> [Slots -> Contents]] /\ dirty' \subseteq Parts
  BY <1>1, <1>2, <1>3, <1>5, Zenon DEF IInv, TypeOK
<1>8. \A q \in Slots : Live(q)' => Live(q)
  BY <1>1, RecKept, Zenon
<1>9. LiveIntact'
  <2> SUFFICES ASSUME NEW q \in Slots, NEW i \in Slots, Live(q)', Uses(rec'[q], i)
               PROVE  Intact(rec[q], i)'
    BY Zenon DEF LiveIntact
  <2>1. Live(q) /\ Uses(rec[q], i) /\ i # u.target
    BY <1>1, <1>3, <1>8, Zenon DEF Spare
  <2>2. \A p \in Parts : disk'[p][i] = disk[p][i]
    BY <1>2, <1>3, <1>5, <2>1, Zenon
  <2> QED
    BY <1>1, <1>5, <2>1, <2>2, SMTT(30) DEF LiveIntact, Intact
<1>10. TargetSpare'
  BY <1>1, <1>3, <1>4, <1>8, Zenon DEF TargetSpare, Spare
<1>11. ServiceOK'
  <2>1. u.verify = 0
    BY <1>1, Zenon DEF IInv, ServiceOK
  <2> QED
    BY <1>1, <1>4, <1>6, <2>1, SMTT(30) DEF IInv, ServiceOK
<1> QED
  BY <1>1, <1>4, <1>6, <1>7, <1>9, <1>10, <1>11, ServingKeeps, Zenon

\* commit_image: a call that only reads back.
LEMMA ReadBackKeeps ==
  ASSUME IInv, Serving, u.writing, u.done = Parts,
         UNCHANGED <<rec, disk, phase, boot, tries, misread>>,
         dirty' = IF u.verify = 0 THEN {} ELSE dirty,
         NEW v \in {1, 2}, u' = [u EXCEPT !.verify = v],
         v = 2 => disk["root"][u.target] = u.candidate
  PROVE  IInv'
<1>1. u \in ServiceType
  BY CallFacts, Zenon
<1>2. /\ u' \in ServiceType /\ u'.ready = u.ready /\ u'.state = u.state
      /\ u'.record = u.record
      /\ u'.trial = u.trial /\ u'.writing = u.writing /\ u'.target = u.target
      /\ u'.candidate = u.candidate /\ u'.verify = v /\ u'.done = u.done
  <2>1. v \in 0..2
    OBVIOUS
  <2>2. u' \in ServiceType
    BY <1>1, <2>1, Zenon DEF ServiceType
  <2> QED
    BY <1>1, <2>2, Zenon DEF ServiceType
<1>3. RecOK /\ JournalOK /\ LiveIntact
  BY Zenon DEF IInv, TypeOK, RecOK
<1>4. RecOK' /\ JournalOK' /\ LiveIntact' /\ Chosen' = Chosen /\ Choice' = Choice
  BY <1>3, RecKept, Zenon
<1>5. dirty' = {}
  BY Zenon DEF IInv, ServiceOK
<1>6. TargetSpare'
  <2>1. \A q \in Slots : Live(q)' => Live(q)
    BY RecKept, Zenon
  <2> QED
    BY <1>2, <2>1, Zenon DEF IInv, TargetSpare, Spare
<1>7. ServiceOK'
  BY <1>2, <1>4, <1>5, Zenon DEF IInv, ServiceOK
<1> QED
  BY <1>2, <1>4, <1>5, <1>6, <1>7, ServingKeeps, Zenon DEF IInv, TypeOK

\* commit_image: the call that publishes the trial.
LEMMA PublishKeeps ==
  ASSUME IInv, Serving, u.writing, u.verify = 2,
         disk["efi"][u.target] = u.candidate,
         CanStage(u.state, u.target, u.candidate),
         Persist(Stage(u.state, u.target, u.candidate), StagingClear(u), u),
         tries' = 0, UNCHANGED <<disk, dirty, phase, boot, misread>>
  PROVE  IInv'
<1> DEFINE next == Stage(u.state, u.target, u.candidate)
<1>1. /\ u \in ServiceType /\ u.target \in Slots /\ u.candidate \in Images
      /\ u.state \in States /\ Valid(u.state) /\ u.target = Other(u.state.active)
      /\ u.state.active \in Slots /\ ~u.trial /\ boot.slot = u.state.active
  BY CallFacts, ServiceFields, StateFields, Zenon
<1>2. next \in States /\ Valid(next)
  BY <1>1, StageValid, Zenon
<1>3. /\ next.slot = [u.state.slot EXCEPT ![u.target] = u.candidate]
      /\ next.revision = u.state.revision + 1 /\ next.active = u.state.active
      /\ next.pending = u.target /\ next.previous = NoSlot
  BY <1>1, StageFields, SMTT(30)
<1>4. disk["root"][u.target] = u.candidate /\ dirty = {}
  BY DEF IInv, ServiceOK
<1>5. /\ u.record \in Slots /\ Live(u.record) /\ rec[u.record] = u.state
      /\ Moved(u.record, next)
      /\ \/ u' = [u EXCEPT !.ready = FALSE]
         \/ /\ u' = [StagingClear(u) EXCEPT !.state = next, !.record = Other(u.record)]
            /\ Chosen' = next /\ Choice' = Other(u.record)
  BY <1>2, <1>3, PersistStep, Zenon
<1>6. RecOK' /\ JournalOK'
  BY <1>5, Zenon DEF Moved
<1>7. Intact(u.state, u.state.active)
  BY <1>1, <1>5, Zenon DEF IInv, LiveIntact, Uses
<1>8. LiveIntact'
  <2> SUFFICES ASSUME NEW q \in Slots, NEW i \in Slots, Live(q)', Uses(rec'[q], i)
               PROVE  Intact(rec[q], i)'
    BY Zenon DEF LiveIntact
  <2>1. CASE rec'[q] = next
    <3>1. i = u.state.active \/ i = u.target
      BY <1>3, <2>1 DEF Uses, Slots, NoSlot
    <3>2. u.state.slot \in [Slots -> Images \cup {NoImage}] /\ u.target # u.state.active
      BY <1>1, StateFields, OtherSlot, Zenon
    <3>3. \A p \in Parts : disk[p][i] = next.slot[i]
      <4>1. CASE i = u.state.active
        BY <1>1, <1>3, <1>7, <3>2, <4>1 DEF Intact
      <4>2. CASE i = u.target
        BY <1>1, <1>3, <1>4, <3>2, <4>2, Zenon DEF Parts
      <4> QED
        BY <3>1, <4>1, <4>2, Zenon
    <3> QED
      BY <2>1, <3>3, Zenon DEF Intact
  <2>2. CASE Live(q) /\ rec'[q] = rec[q]
    BY <2>2 DEF IInv, LiveIntact, Intact
  <2> QED
    BY <1>5, <2>1, <2>2, Zenon DEF Moved
<1>9. CASE u' = [u EXCEPT !.ready = FALSE]
  <2>1. u' \in ServiceType /\ u'.ready = FALSE
    BY <1>1, <1>9, Zenon DEF ServiceType
  <2>2. TargetSpare' /\ ServiceOK'
    BY <1>4, <2>1, Zenon DEF TargetSpare, ServiceOK, Serving
  <2> QED
    BY <1>6, <1>8, <2>1, <2>2, ServingKeeps, Zenon DEF IInv, TypeOK
<1>10. CASE /\ u' = [StagingClear(u) EXCEPT !.state = next, !.record = Other(u.record)]
            /\ Chosen' = next /\ Choice' = Other(u.record)
  <2>1. StagingClear(u) \in ServiceType /\ Other(u.record) \in Slots
    BY <1>1, <1>5, ClearType, OtherSlot, Zenon
  <2>2. u' \in ServiceType
    BY <1>2, <1>10, <2>1, Zenon DEF ServiceType
  <2>3. /\ u'.state = next /\ u'.record = Other(u.record)
        /\ u'.writing = StagingClear(u).writing /\ u'.verify = StagingClear(u).verify
        /\ u'.trial = StagingClear(u).trial
    BY <1>10, <2>1, Zenon DEF ServiceType
  <2>4. u'.writing = FALSE /\ u'.verify = 0 /\ u'.trial = u.trial
    BY <1>1, <2>3, ClearType, Zenon
  <2>5. TargetSpare'
    BY <1>4, <2>4, Zenon DEF TargetSpare, Serving
  <2>6. ServiceOK'
    BY <1>1, <1>3, <1>10, <2>3, <2>4, Zenon DEF ServiceOK
  <2> QED
    BY <1>6, <1>8, <2>2, <2>5, <2>6, ServingKeeps, Zenon DEF IInv, TypeOK
<1> QED
  BY <1>5, <1>9, <1>10, Zenon

LEMMA CommitImageKeeps == IInv /\ CommitImage => IInv'
<1> SUFFICES ASSUME IInv, CommitImage PROVE IInv'
  BY Zenon
<1> DEFINE mode == IF u.verify = 0 THEN 1 ELSE u.verify
           checked == IF mode = 1 THEN "root" ELSE "efi"
           matches == disk[checked][u.target] = u.candidate
<1>1. /\ Serving /\ u.writing /\ u.done = Parts
      /\ dirty' = IF u.verify = 0 THEN {} ELSE dirty
      /\ UNCHANGED <<disk, phase, boot, misread>>
  BY Zenon DEF CommitImage, WorkerCalls
<1>2. mode \in {1, 2} /\ (mode = 2 => u.verify = 2)
  BY <1>1, CallFacts, ServiceFields
<1>3. CASE u' = [u EXCEPT !.verify = mode] /\ UNCHANGED <<rec, tries>>
  <2>1. mode = 2 => disk["root"][u.target] = u.candidate
    BY <1>1, <1>2, Zenon DEF IInv, ServiceOK
  <2> HIDE DEF mode
  <2> QED
    BY <1>1, <1>2, <1>3, <2>1, ReadBackKeeps, Zenon
<1>4. CASE /\ mode = 1 /\ matches
           /\ u' = [u EXCEPT !.verify = 2] /\ UNCHANGED <<rec, tries>>
  <2>1. disk["root"][u.target] = u.candidate
    BY <1>4, Zenon
  <2> HIDE DEF mode, matches
  <2> QED
    BY <1>1, <1>4, <2>1, ReadBackKeeps, Zenon
<1>5. CASE /\ mode = 2 /\ matches /\ CanStage(u.state, u.target, u.candidate)
           /\ Persist(Stage(u.state, u.target, u.candidate), StagingClear(u), u)
           /\ tries' = 0
  <2>1. u.verify = 2 /\ disk["efi"][u.target] = u.candidate /\ dirty' = dirty
    BY <1>1, <1>2, <1>5
  <2> HIDE DEF mode, matches
  <2> QED
    BY <1>1, <1>5, <2>1, PublishKeeps, Zenon
<1> QED
  BY <1>3, <1>4, <1>5, Zenon DEF CommitImage
-----------------------------------------------------------------------------
(* Steps of the machine and of the boot manager. *)

LEMMA InitInv == Init => IInv
<1> SUFFICES ASSUME Init PROVE IInv
  BY Zenon
<1>1. rec[0] = FactoryState /\ rec[1] = FactoryState
  BY Zenon DEF Init, Slots
<1>2. FactoryState \in States /\ Valid(FactoryState) /\ FactoryState # Torn
  BY FactoryValid, StateNotTorn, Zenon
<1>3. Choice = 0 /\ Chosen = FactoryState
  BY <1>1, <1>2 DEF Choice, Chosen, ChooseRecord, NoSlot
<1>4. TypeOK
  <2>1. Factory \in Contents /\ NoImage \in Contents
    BY UpdateAssumption, Zenon DEF Contents
  <2>2. disk \in [Parts -> [Slots -> Contents]]
    BY <2>1, Zenon DEF Init
  <2>3. BootOff \in [state : States, record : Slots, slot : Slots, normal : BOOLEAN]
    BY <1>2, Zenon DEF BootOff, Slots
  <2>4. ServiceOff \in ServiceType
    BY <1>2, UpdateAssumption DEF ServiceOff, ServiceType, Slots
  <2>5. QED
    <3>1. rec \in [Slots -> States \cup {Torn}]
      BY <1>2, Zenon DEF Init
    <3>2. /\ dirty \subseteq Parts /\ phase = "off" /\ boot = BootOff
          /\ u = ServiceOff /\ tries = 0 /\ misread \in BOOLEAN
      BY Zenon DEF Init
    <3> QED
      BY <2>2, <2>3, <2>4, <3>1, <3>2 DEF TypeOK, ServiceType
<1>5. JournalOK
  BY <1>1, <1>2, <1>3, Zenon DEF JournalOK, Slots
<1>6. LiveIntact
  BY <1>1, Zenon DEF LiveIntact, Intact, Uses, Init, FactoryState, Slots, NoSlot
<1>7. TargetSpare /\ BootOK /\ ServiceOK /\ DirtyOK
  BY Zenon DEF Init, TargetSpare, BootOK, ServiceOK, DirtyOK, Serving
<1>8. TriesOK
  BY DEF Init, TriesOK
<1> QED
  BY <1>4, <1>5, <1>6, <1>7, <1>8, Zenon DEF IInv

LEMMA PowerFailKeeps == IInv /\ PowerFail => IInv'
<1> SUFFICES ASSUME IInv, PowerFail PROVE IInv'
  BY Zenon
<1>1. PICK lost \in SUBSET dirty :
             disk' = [p \in Parts |-> IF p \in lost
                                        THEN [disk[p] EXCEPT ![u.target] = Junk]
                                        ELSE disk[p]]
  BY Zenon DEF PowerFail
<1>2. /\ phase' = "off" /\ dirty' = {} /\ boot' = BootOff /\ u' = ServiceOff
      /\ UNCHANGED <<rec, tries, misread>>
  BY Zenon DEF PowerFail
<1>3. /\ RecOK /\ JournalOK /\ LiveIntact /\ u \in ServiceType /\ u.target \in Slots
      /\ disk \in [Parts -> [Slots -> Contents]]
  BY ServiceFields, Zenon DEF IInv, TypeOK, RecOK, ServiceType
<1>4. FactoryState \in States
  BY FactoryValid, Zenon
<1>5. TypeOK'
  <2>1. Junk \in Contents
    BY Zenon DEF Contents
  <2>2. disk' \in [Parts -> [Slots -> Contents]]
    BY <1>1, <1>3, <2>1, Zenon
  <2>3. BootOff \in [state : States, record : Slots, slot : Slots, normal : BOOLEAN]
    BY <1>4, Zenon DEF BootOff, Slots
  <2>4. ServiceOff \in ServiceType
    BY <1>4, UpdateAssumption DEF ServiceOff, ServiceType, Slots
  <2> QED
    BY <1>2, <2>2, <2>3, <2>4 DEF IInv, TypeOK, ServiceType
<1>6. JournalOK' /\ Chosen' = Chosen /\ \A q \in Slots : Live(q)' => Live(q)
  BY <1>2, <1>3, RecKept, Zenon
<1>7. LiveIntact'
  <2> SUFFICES ASSUME NEW q \in Slots, NEW i \in Slots, Live(q)', Uses(rec'[q], i)
               PROVE  Intact(rec[q], i)'
    BY Zenon DEF LiveIntact
  <2>1. Live(q) /\ Uses(rec[q], i) /\ (lost # {} => i # u.target)
    BY <1>2, <1>6, Zenon DEF IInv, TargetSpare, Spare
  <2>2. \A p \in Parts : disk'[p][i] = disk[p][i]
    BY <1>1, <1>3, <2>1, Zenon
  <2> QED
    BY <1>2, <1>3, <2>1, <2>2, Zenon DEF LiveIntact, Intact
<1>8. TargetSpare' /\ BootOK' /\ ServiceOK' /\ DirtyOK'
  BY <1>2, Zenon DEF TargetSpare, BootOK, ServiceOK, DirtyOK, Serving
<1>9. TriesOK'
  BY <1>2, <1>6, Zenon DEF IInv, TriesOK
<1> QED
  BY <1>5, <1>6, <1>7, <1>8, <1>9, Zenon DEF IInv

BootType == [state : States, record : Slots, slot : Slots, normal : BOOLEAN]

\* The boot manager runs before the service and writes no slot.
LEMMA BootingKeeps ==
  ASSUME IInv, phase \in {"off", "chain"}, UNCHANGED <<disk, dirty, u>>,
         phase' \in {"chain", "kernel", "recovery", "dead"},
         RecOK', JournalOK', LiveIntact', boot' \in BootType,
         tries' \in 0..2, misread' \in BOOLEAN, BootOK', TriesOK'
  PROVE  IInv'
<1>1. TypeOK'
  BY ZenonT(60) DEF IInv, TypeOK, RecOK, BootType
<1>2. dirty = {}
  BY Zenon DEF IInv, DirtyOK
<1>3. TargetSpare' /\ ServiceOK' /\ DirtyOK'
  BY <1>2, Zenon DEF TargetSpare, ServiceOK, DirtyOK, Serving
<1> QED
  BY <1>1, <1>3, Zenon DEF IInv

LEMMA ChainStartsKeeps == IInv /\ ChainStarts => IInv'
<1> SUFFICES ASSUME IInv, ChainStarts PROVE IInv'
  BY Zenon
<1>1. /\ phase = "chain" /\ phase' \in {"kernel", "dead"}
      /\ UNCHANGED <<rec, disk, dirty, boot, u, misread>>
      /\ tries' = IF boot.slot # boot.state.active /\ tries < 2
                    THEN tries + 1 ELSE tries
  BY Zenon DEF ChainStarts
<1>2. RecOK /\ JournalOK /\ LiveIntact /\ boot \in BootType /\ tries \in 0..2
      /\ misread \in BOOLEAN
  BY Zenon DEF IInv, TypeOK, RecOK, BootType
<1>3. RecOK' /\ JournalOK' /\ LiveIntact' /\ Chosen' = Chosen
  BY <1>1, <1>2, RecKept, Zenon
<1>4. tries' \in 0..2
  BY <1>1, <1>2
<1>5. BootOK'
  BY <1>1, <1>3, Zenon DEF IInv, BootOK
<1>6. TriesOK'
  <2>1. CASE boot.slot = boot.state.active
    BY <1>1, <1>3, <2>1, Zenon DEF IInv, TriesOK
  <2>2. CASE boot.slot # boot.state.active
    <3>1. boot.state = Chosen /\ boot.state.attempts = 0
      BY <1>1, <2>2, Zenon DEF IInv, BootOK
    <3>2. ~BootTries(Chosen)
      BY <3>1 DEF BootTries
    <3> QED
      BY <1>1, <1>2, <1>3, <2>2, <3>2 DEF IInv, TriesOK
  <2> QED
    BY <2>1, <2>2, Zenon
<1> QED
  BY <1>1, <1>2, <1>3, <1>4, <1>5, <1>6, BootingKeeps, Zenon

\* What the boot manager reads and acts on is one of the records, the newest
\* one unless a read failed.
LEMMA ReadFacts ==
  ASSUME RecOK, JournalOK, NEW a \in Readings(0), NEW b \in Readings(1),
         NEW r, r = ChooseRecord(a, b), r # NoSlot,
         NEW s, s = IF r = 0 THEN a ELSE b
  PROVE  /\ r \in Slots /\ s = rec[r] /\ s \in States /\ Valid(s)
         /\ BootChanges(s) => Live(r)
         /\ a = rec[0] /\ b = rec[1] => s = Chosen /\ r = Choice /\ Live(r)
<1>1. /\ rec[0] \in States \cup {Torn} /\ rec[1] \in States \cup {Torn}
      /\ a \in {rec[0], Torn} /\ b \in {rec[1], Torn}
  BY Zenon DEF RecOK, Slots, Readings
<1>2. r \in {0, 1} /\ s \in States
  BY <1>1, ChooseFacts
<1>3. s # Torn
  BY <1>2, StateNotTorn, Zenon
<1>4. s = rec[r]
  BY <1>1, <1>2, <1>3, Zenon
<1>5. a = rec[0] /\ b = rec[1] => s = Chosen /\ r = Choice
  BY <1>2, <1>4, Zenon DEF Chosen, Choice
<1> QED
  BY <1>2, <1>3, <1>4, <1>5, Zenon DEF JournalOK, Live, Slots

\* A write by the boot manager beside the live record r.
LEMMA BootWrite ==
  ASSUME IInv, NEW r \in Slots, Live(r), NEW next, Follows(rec[r], next),
         disk' = disk,
         \/ WriteRecord(r, next)
         \/ WriteRecordFails(r, next)
  PROVE  /\ RecOK' /\ JournalOK' /\ LiveIntact' /\ rec'[r] = rec[r]
         /\ rec[r] = Chosen => Chosen' \in {Chosen, next}
         /\ WriteRecord(r, next) =>
              Chosen' = next /\ Choice' = Other(r) /\ rec'[Other(r)] = next
<1>1. RecOK /\ JournalOK /\ LiveIntact
  BY Zenon DEF IInv, TypeOK, RecOK
<1>2. next \in States /\ Valid(next) /\ next.revision = rec[r].revision + 1
  BY Zenon DEF Follows
<1>3. PICK x \in {rec[Other(r)], next, Torn} : rec' = [rec EXCEPT ![Other(r)] = x]
  BY Zenon DEF WriteRecord, WriteRecordFails
<1>4. Moved(r, next)
  BY <1>1, <1>2, <1>3, RecordWritten, Zenon
<1>5. WriteRecord(r, next) => Chosen' = next /\ Choice' = Other(r)
  BY <1>1, <1>2, RecordWritten, Zenon DEF WriteRecord
<1>6. WriteRecord(r, next) => rec'[Other(r)] = next
  BY <1>1, OtherSlot, Zenon DEF WriteRecord, RecOK
<1> QED
  BY <1>1, <1>4, <1>5, <1>6, MovedKeeps, Zenon DEF Moved

LEMMA SelectSlotKeeps ==
  ASSUME IInv, phase = "off", UNCHANGED <<disk, dirty, u, tries>>,
         NEW r \in Slots, NEW s \in States, s = rec[r], Valid(s),
         BootChanges(s) => Live(r), misread' \in BOOLEAN,
         misread => misread', ~misread' => s = Chosen,
         SelectSlot(r, s)
  PROVE  IInv'
<1>1. /\ RecOK /\ JournalOK /\ LiveIntact /\ boot \in BootType /\ tries \in 0..2
      /\ misread \in BOOLEAN
  BY Zenon DEF IInv, TypeOK, RecOK, BootType
<1>2. s.active \in Slots
  BY StateFields, Zenon
<1>3. CASE phase' = "dead" /\ UNCHANGED <<rec, boot>>
  <2>1. RecOK' /\ JournalOK' /\ LiveIntact' /\ Chosen' = Chosen
    BY <1>1, <1>3, RecKept, Zenon
  <2>2. BootOK'
    BY <1>3, Zenon DEF BootOK
  <2>3. TriesOK'
    BY <1>3, <2>1, Zenon DEF IInv, TriesOK
  <2> QED
    BY <1>1, <1>3, <2>1, <2>2, <2>3, BootingKeeps, Zenon
<1>4. CASE /\ boot' = [state |-> s, record |-> r, slot |-> s.active, normal |-> TRUE]
           /\ phase' = "chain"
           /\ rec' = rec
  <2>1. RecOK' /\ JournalOK' /\ LiveIntact' /\ Chosen' = Chosen
    BY <1>1, <1>4, RecKept, Zenon
  <2>2. boot' \in BootType /\ boot'.state = s /\ boot'.slot = s.active
    BY <1>2, <1>4, Zenon DEF BootType
  <2>3. BootOK'
    BY <1>4, <2>2, Zenon DEF BootOK
  <2>4. TriesOK'
    BY <2>1, <2>2, Zenon DEF IInv, TriesOK
  <2> QED
    BY <1>1, <1>4, <2>1, <2>2, <2>3, <2>4, BootingKeeps, Zenon
<1>5. ASSUME BootChanges(s), CanBump(s)
      PROVE  /\ Follows(rec[r], BootResult(s)) /\ BootResult(s) \in States
             /\ BootResult(s).active = s.active /\ BootResult(s).attempts = 0
             /\ BootTries(s) => BootSlot(s) = BootResult(s).pending
             /\ BootSlot(s) \in Slots
             /\ ~BootTries(s) => BootSlot(s) = s.active
             /\ ~BootTries(BootResult(s))
  BY <1>5, BootFollows DEF Follows, BootTries
<1>6. CASE /\ BootChanges(s) /\ CanBump(s)
           /\ WriteRecord(r, BootResult(s))
           /\ boot' = [state |-> BootResult(s), record |-> Other(r),
                       slot |-> BootSlot(s), normal |-> TRUE]
           /\ phase' = "chain"
  <2>1. /\ RecOK' /\ JournalOK' /\ LiveIntact' /\ Chosen' = BootResult(s)
        /\ Choice' = Other(r) /\ rec'[Other(r)] = BootResult(s)
    BY <1>5, <1>6, BootWrite, Zenon
  <2>2. /\ boot' \in BootType /\ boot'.state = BootResult(s)
        /\ boot'.slot = BootSlot(s) /\ boot'.record = Other(r)
    BY <1>5, <1>6, OtherSlot, Zenon DEF BootType
  <2>3. BootOK'
    BY <1>5, <1>6, <2>1, <2>2, OtherSlot, Zenon DEF BootOK
  <2>4. TriesOK'
    BY <1>5, <1>6, <2>1, <2>2, Zenon DEF IInv, TriesOK
  <2> QED
    BY <1>1, <1>6, <2>1, <2>2, <2>3, <2>4, BootingKeeps, Zenon
<1>7. CASE /\ BootChanges(s) /\ CanBump(s)
           /\ WriteRecordFails(r, BootResult(s))
           /\ boot' = [state |-> s, record |-> r, slot |-> s.active, normal |-> TRUE]
           /\ phase' = "chain"
  <2>1. /\ RecOK' /\ JournalOK' /\ LiveIntact' /\ rec'[r] = s
        /\ s = Chosen => Chosen' \in {Chosen, BootResult(s)}
    BY <1>5, <1>7, BootWrite, Zenon
  <2>2. boot' \in BootType /\ boot'.state = s /\ boot'.slot = s.active
    BY <1>2, <1>7, Zenon DEF BootType
  <2>3. BootOK'
    BY <1>7, <2>1, <2>2, Zenon DEF BootOK
  <2>4. TriesOK'
    BY <1>5, <1>7, <2>1, <2>2, Zenon DEF IInv, TriesOK
  <2> QED
    BY <1>1, <1>7, <2>1, <2>2, <2>3, <2>4, BootingKeeps, Zenon
<1> QED
  BY <1>3, <1>4, <1>6, <1>7, Zenon DEF SelectSlot

LEMMA PowerOnKeeps ==
  ASSUME NEW normal \in BOOLEAN
  PROVE  IInv /\ PowerOn(normal) => IInv'
<1> SUFFICES ASSUME IInv, PowerOn(normal) PROVE IInv'
  BY Zenon
<1>1. phase = "off" /\ UNCHANGED <<disk, dirty, u, tries>>
  BY Zenon DEF PowerOn
<1>2. PICK a \in Readings(0), b \in Readings(1) :
        LET r == ChooseRecord(a, b)
            s == IF r = 0 THEN a ELSE b
        IN /\ misread' = (misread \/ <<a, b>> # <<rec[0], rec[1]>>)
           /\ \/ /\ r = NoSlot
                 /\ phase' = "recovery"
                 /\ UNCHANGED <<rec, boot>>
              \/ /\ r # NoSlot /\ normal
                 /\ SelectSlot(r, s)
              \/ /\ r # NoSlot /\ ~normal
                 /\ boot' = [state |-> s, record |-> r, slot |-> s.active,
                             normal |-> FALSE]
                 /\ phase' = "chain"
                 /\ UNCHANGED rec
  BY Zenon DEF PowerOn
<1> DEFINE r == ChooseRecord(a, b)
           s == IF r = 0 THEN a ELSE b
<1>3. /\ RecOK /\ JournalOK /\ LiveIntact /\ boot \in BootType /\ tries \in 0..2
      /\ misread \in BOOLEAN
  BY Zenon DEF IInv, TypeOK, RecOK, BootType
<1>4. /\ misread' \in BOOLEAN
      /\ misread => misread'
      /\ ~misread' => a = rec[0] /\ b = rec[1]
  BY <1>2, <1>3, Zenon
<1>5. ASSUME r # NoSlot
      PROVE  /\ r \in Slots /\ s = rec[r] /\ s \in States /\ Valid(s)
             /\ BootChanges(s) => Live(r)
             /\ ~misread' => s = Chosen
  BY <1>3, <1>4, <1>5, ReadFacts
<1>6. CASE phase' = "recovery" /\ UNCHANGED <<rec, boot>>
  <2>1. RecOK' /\ JournalOK' /\ LiveIntact' /\ Chosen' = Chosen
    BY <1>1, <1>3, <1>6, RecKept, Zenon
  <2>2. BootOK'
    BY <1>6, Zenon DEF BootOK
  <2>3. TriesOK'
    BY <1>1, <1>4, <1>6, <2>1, Zenon DEF IInv, TriesOK
  <2> QED
    BY <1>1, <1>3, <1>4, <1>6, <2>1, <2>2, <2>3, BootingKeeps, Zenon
<1>7. CASE r # NoSlot /\ SelectSlot(r, s)
  <2> HIDE DEF r, s
  <2> QED
    BY <1>1, <1>4, <1>5, <1>7, SelectSlotKeeps, Zenon
<1>8. CASE /\ r # NoSlot
           /\ boot' = [state |-> s, record |-> r, slot |-> s.active, normal |-> FALSE]
           /\ phase' = "chain" /\ rec' = rec
  <2> HIDE DEF r, s
  <2>1. RecOK' /\ JournalOK' /\ LiveIntact' /\ Chosen' = Chosen
    BY <1>1, <1>3, <1>8, RecKept, Zenon
  <2>2. s.active \in Slots
    BY <1>5, <1>8, StateFields, Zenon
  <2>3. boot' \in BootType /\ boot'.state = s /\ boot'.slot = s.active
    BY <1>5, <1>8, <2>2, Zenon DEF BootType
  <2>4. BootOK'
    BY <1>5, <1>8, <2>3, Zenon DEF BootOK
  <2>5. TriesOK'
    BY <1>1, <1>4, <2>1, <2>3, Zenon DEF IInv, TriesOK
  <2> QED
    BY <1>1, <1>3, <1>4, <1>8, <2>1, <2>3, <2>4, <2>5, BootingKeeps, Zenon
<1> QED
  BY <1>2, <1>6, <1>7, <1>8, Zenon

LEMMA ChainFailsKeeps == IInv /\ ChainFails => IInv'
<1> SUFFICES ASSUME IInv, ChainFails PROVE IInv'
  BY Zenon
<1> DEFINE s == boot.state
           next == Reject(boot.state)
<1>1. phase = "chain" /\ UNCHANGED <<disk, dirty, u, tries, misread>>
  BY Zenon DEF ChainFails
<1>2. /\ RecOK /\ JournalOK /\ LiveIntact /\ boot \in BootType /\ tries \in 0..2
      /\ misread \in BOOLEAN
  BY Zenon DEF IInv, TypeOK, RecOK, BootType
<1>3. s \in States /\ s.active \in Slots /\ boot.record \in Slots
  BY <1>2, StateFields, Zenon DEF BootType
<1>4. CASE phase' = "recovery" /\ UNCHANGED <<rec, boot>>
  <2>1. RecOK' /\ JournalOK' /\ LiveIntact' /\ Chosen' = Chosen
    BY <1>1, <1>2, <1>4, RecKept, Zenon
  <2>2. BootOK'
    BY <1>4, Zenon DEF BootOK
  <2>3. TriesOK'
    BY <1>1, <1>4, <2>1, Zenon DEF IInv, TriesOK
  <2> QED
    BY <1>1, <1>2, <1>4, <2>1, <2>2, <2>3, BootingKeeps, Zenon
<1>5. ASSUME boot.slot # s.active
      PROVE  s = Chosen /\ boot.record = Choice /\ rec[boot.record] = s
             /\ Live(boot.record) /\ Valid(s)
  BY <1>1, <1>2, <1>5, ChosenLive, Zenon DEF IInv, BootOK
<1>6. ASSUME boot.slot # s.active, CanReject(s)
      PROVE  Follows(s, next) /\ next \in States /\ next.active = s.active
             /\ ~BootTries(next)
  BY <1>3, <1>5, <1>6, RejectFollows, Zenon DEF Follows, BootTries
<1>7. CASE /\ boot.slot # s.active /\ CanReject(s)
           /\ WriteRecord(boot.record, next)
           /\ boot' = [boot EXCEPT !.state = next, !.slot = s.active]
           /\ phase' = phase
  <2>1. /\ RecOK' /\ JournalOK' /\ LiveIntact' /\ Chosen' = next
        /\ rec'[Other(boot.record)] = next
    BY <1>1, <1>3, <1>5, <1>6, <1>7, BootWrite, Zenon
  <2>2. boot' \in BootType /\ boot'.state = next /\ boot'.slot = s.active
    BY <1>2, <1>3, <1>6, <1>7, Zenon DEF BootType
  <2>3. BootOK'
    BY <1>3, <1>6, <1>7, <2>1, <2>2, OtherSlot, Zenon DEF BootOK
  <2>4. TriesOK'
    BY <1>1, <1>6, <1>7, <2>1, <2>2, Zenon DEF IInv, TriesOK
  <2> QED
    BY <1>1, <1>2, <1>7, <2>1, <2>2, <2>3, <2>4, BootingKeeps, Zenon
<1>8. CASE /\ boot.slot # s.active
           /\ \/ CanReject(s) /\ WriteRecordFails(boot.record, next)
              \/ ~CanReject(s) /\ rec' = rec
           /\ boot' = [boot EXCEPT !.slot = s.active]
           /\ phase' = phase
  <2>1. /\ RecOK' /\ JournalOK' /\ LiveIntact' /\ rec'[boot.record] = s
        /\ BootTries(Chosen') => BootTries(Chosen)
    <3>1. CASE CanReject(s) /\ WriteRecordFails(boot.record, next)
      BY <1>1, <1>3, <1>5, <1>6, <1>8, <3>1, BootWrite
    <3>2. CASE rec' = rec
      BY <1>1, <1>2, <1>5, <1>8, <3>2, RecKept, Zenon
    <3> QED
      BY <1>8, <3>1, <3>2, Zenon
  <2>2. boot' \in BootType /\ boot'.state = s /\ boot'.slot = s.active
    BY <1>2, <1>3, <1>8, Zenon DEF BootType
  <2>3. BootOK'
    BY <1>3, <2>1, <2>2, Zenon DEF BootOK
  <2>4. TriesOK'
    BY <1>1, <1>8, <2>1, <2>2, Zenon DEF IInv, TriesOK
  <2> QED
    BY <1>1, <1>2, <1>8, <2>1, <2>2, <2>3, <2>4, BootingKeeps, Zenon
<1> QED
  BY <1>4, <1>7, <1>8, Zenon DEF ChainFails

LEMMA ServiceInitKeeps == IInv /\ ServiceInit => IInv'
<1> SUFFICES ASSUME IInv, ServiceInit PROVE IInv'
  BY Zenon
<1>1. /\ phase = "kernel" /\ phase' = "running"
      /\ UNCHANGED <<rec, disk, dirty, boot, tries, misread>>
  BY Zenon DEF ServiceInit
<1>2. RecOK /\ JournalOK /\ LiveIntact
  BY Zenon DEF IInv, TypeOK, RecOK
<1>3. RecOK' /\ JournalOK' /\ LiveIntact' /\ Chosen' = Chosen /\ Choice' = Choice
  BY <1>1, <1>2, RecKept, Zenon
<1>4. ServiceOff \in ServiceType /\ ServiceOff.ready = FALSE
      /\ ServiceOff.writing = FALSE /\ ServiceOff.verify = 0
  BY FactoryValid, UpdateAssumption DEF ServiceOff, ServiceType, Slots
<1>5. Chosen \in States /\ Valid(Chosen) /\ Choice \in Slots
  BY <1>2, ChosenLive, Zenon
<1>6. u' \in ServiceType /\ u'.writing = FALSE /\ ServiceOK'
  <2>1. CASE u' = ServiceOff
    BY <1>4, <2>1, Zenon DEF ServiceOK, Serving
  <2>2. CASE /\ Chosen.revision = boot.state.revision
             /\ u' = [ServiceOff EXCEPT !.ready = TRUE, !.state = Chosen,
                        !.record = ChooseRecord(rec[0], rec[1]),
                        !.trial = Chosen.pending = boot.slot]
    <3>1. boot.state = Chosen
      BY <1>1, <1>2, <2>2, ChosenFacts, StateNotTorn
      DEF IInv, TypeOK, JournalOK, BootOK
    <3>2. (Chosen.pending = boot.slot) \in BOOLEAN
      BY Zenon
    <3>3. u' \in ServiceType
      BY <1>4, <1>5, <2>2, <3>2, ZenonT(60) DEF ServiceType, Choice
    <3>4. /\ u'.state = Chosen /\ u'.record = Choice /\ u'.writing = FALSE
          /\ u'.verify = 0 /\ u'.trial = (Chosen.pending = boot.slot)
      BY <1>4, <2>2, Zenon DEF ServiceType, Choice
    <3>5. /\ boot.slot \in Slots
          /\ boot.slot = Chosen.active \/ boot.slot = Chosen.pending
      BY <1>1, <3>1, Zenon DEF IInv, TypeOK, BootOK
    <3>6. boot.slot = IF u'.trial THEN Chosen.pending ELSE Chosen.active
      BY <1>5, <3>4, <3>5, Zenon DEF Valid
    <3> QED
      BY <1>1, <1>3, <3>3, <3>4, <3>6, Zenon DEF ServiceOK
  <2> QED
    BY <2>1, <2>2, Zenon DEF ServiceInit
<1>7. dirty' = {}
  BY <1>1, Zenon DEF IInv, DirtyOK
<1>8. TypeOK'
  BY <1>1, <1>6, Zenon DEF IInv, TypeOK, ServiceType
<1>9. TargetSpare' /\ BootOK' /\ DirtyOK'
  BY <1>1, <1>6, <1>7, Zenon DEF TargetSpare, BootOK, DirtyOK
<1>10. TriesOK'
  BY <1>1, <1>3, Zenon DEF IInv, TriesOK
<1> QED
  BY <1>3, <1>6, <1>8, <1>9, <1>10, Zenon DEF IInv
-----------------------------------------------------------------------------
(* The theorems. *)

LEMMA NextKeeps == IInv /\ [Next]_vars => IInv'
<1> SUFFICES ASSUME IInv, [Next]_vars PROVE IInv'
  BY Zenon
<1>1. CASE UNCHANGED vars
  <2>1. UNCHANGED <<rec, disk, dirty, phase, boot, u, tries, misread>>
    BY <1>1, Zenon DEF vars
  <2>2. RecOK /\ JournalOK /\ LiveIntact
    BY Zenon DEF IInv, TypeOK, RecOK
  <2>3. JournalOK' /\ LiveIntact' /\ Chosen' = Chosen /\ Choice' = Choice
        /\ \A q \in Slots : Live(q)' => Live(q)
    BY <2>1, <2>2, RecKept, Zenon
  <2>4. TypeOK'
    BY <2>1 DEF IInv, TypeOK
  <2>5. TargetSpare'
    BY <2>1, <2>3, Zenon DEF IInv, TargetSpare, Spare, Serving
  <2>6. BootOK' /\ ServiceOK' /\ DirtyOK' /\ TriesOK'
    BY <2>1, <2>3, Zenon DEF IInv, BootOK, ServiceOK, DirtyOK, TriesOK, Serving
  <2> QED
    BY <2>3, <2>4, <2>5, <2>6, Zenon DEF IInv
<1>2. CASE Next
  BY <1>2, PowerFailKeeps, PowerOnKeeps, ChainStartsKeeps, ChainFailsKeeps,
     ServiceInitKeeps, RegisterWorkerKeeps, WorkerDiesKeeps, RequestJobKeeps,
     RequestRollbackKeeps, ReportDoneKeeps, BeginKeeps, WriteImageKeeps,
     CommitImageKeeps, AbortKeeps, HealthKeeps, ZenonT(60)
  DEF Next
<1> QED
  BY <1>1, <1>2, Zenon

LEMMA Invariance == Spec => []IInv
  BY InitInv, NextKeeps, PTL DEF Spec

\* The journal, the slots and the service's struct keep their types: a failed or
\* torn write never leaves a record that decodes to anything else (protocol.c:54).
THEOREM SystemTypeCorrect == Spec => []TypeOK
<1>1. IInv => TypeOK
  BY Zenon DEF IInv
<1> QED
  BY <1>1, Invariance, PTL

\* For every set of images: whatever power failure, torn record, failed write
\* or misread comes between, the journal can be read and each slot it would start
\* or fall back to holds the bytes it names (service.c:112, 154; update_boot.c:120).
THEOREM JournalNamesIntactSlots == Spec => []SelectedIntact
<1>1. IInv => SelectedIntact
  <2> SUFFICES ASSUME IInv PROVE SelectedIntact
    BY Zenon
  <2>1. RecOK /\ JournalOK
    BY Zenon DEF IInv, TypeOK, RecOK
  <2>2. /\ Choice \in Slots /\ rec[Choice] = Chosen /\ Live(Choice)
        /\ Chosen \in States
    BY <2>1, ChosenLive, Zenon
  <2>3. \A i \in Slots : Uses(Chosen, i) => Intact(Chosen, i)
    BY <2>2, Zenon DEF IInv, LiveIntact
  <2>4. /\ Chosen.active \in Slots /\ Chosen.pending \in Slots \cup {NoSlot}
        /\ Chosen.previous \in Slots \cup {NoSlot}
    BY <2>2, StateFields, Zenon
  <2> QED
    BY <2>1, <2>3, <2>4, Zenon DEF SelectedIntact, Uses, JournalOK
<1> QED
  BY <1>1, Invariance, PTL

\* The service never overwrites the slot the running system was started from,
\* confirmed or under trial (service.c:91).
THEOREM RunningSlotNeverWritten == Spec => []RunningSlotReadOnly
<1>1. IInv => RunningSlotReadOnly
  <2> SUFFICES ASSUME IInv, Serving, u.writing PROVE u.target # boot.slot
    BY Zenon DEF RunningSlotReadOnly
  <2>1. u.target = Other(u.state.active) /\ boot.slot = u.state.active
        /\ u.state.active \in Slots
    BY CallFacts, StateFields, Zenon
  <2> QED
    BY <2>1, OtherSlot, Zenon
<1> QED
  BY <1>1, Invariance, PTL

\* A slot under trial is started at most once until it is confirmed or staged
\* again, unless the boot manager fails to read a record (update_boot.c:126-130).
THEOREM TrialStartsOnce == Spec => []OneTrialBoot
<1>1. IInv => OneTrialBoot
  BY Zenon DEF IInv, TriesOK, OneTrialBoot
<1> QED
  BY <1>1, Invariance, PTL

\* The state the service computes from is the one the next boot will read, after
\* every success and every failure of persist() (service.c:44-45, 69).
THEOREM ServiceSeesJournal == Spec => []ServiceStateCurrent
<1>1. IInv => ServiceStateCurrent
  BY Zenon DEF IInv, ServiceOK, ServiceStateCurrent, Choice
<1> QED
  BY <1>1, Invariance, PTL
-----------------------------------------------------------------------------
(* The two records implement UpdateJournal. *)

\* The transitions of the abstract journal are those of protocol.c.
LEMMA SameTransitions ==
  /\ J!FactoryState = FactoryState
  /\ \A s : /\ J!CanBeginWrite(s) <=> CanBeginWrite(s)
            /\ J!BeginWrite(s) = BeginWrite(s)
            /\ J!CanReject(s) <=> CanReject(s)
            /\ J!Reject(s) = Reject(s)
            /\ J!CanRollback(s) <=> CanRollback(s)
            /\ J!Rollback(s) = Rollback(s)
            /\ J!BootChanges(s) <=> BootChanges(s)
            /\ J!CanBump(s) <=> CanBump(s)
            /\ J!BootResult(s) = BootResult(s)
            /\ J!Other(s) = Other(s)
  /\ \A s, r : /\ J!CanConfirm(s, r) <=> CanConfirm(s, r)
               /\ J!Confirm(s, r) = Confirm(s, r)
  /\ \A s, t, i : /\ J!CanStage(s, t, i) <=> CanStage(s, t, i)
                  /\ J!Stage(s, t, i) = Stage(s, t, i)
  /\ J!Slots = Slots
  BY DEF J!FactoryState, FactoryState, J!CanBeginWrite, CanBeginWrite,
     J!BeginWrite, BeginWrite, J!CanReject, CanReject, J!Reject, Reject,
     J!CanRollback, CanRollback, J!Rollback, Rollback, J!BootChanges, BootChanges,
     J!CanBump, CanBump, J!BootResult, BootResult, J!Other, Other,
     J!CanConfirm, CanConfirm, J!Confirm, Confirm, J!CanStage, CanStage,
     J!Stage, Stage, J!Slots, Slots, J!Bump, Bump, J!NoSlot, NoSlot,
     J!BootTries, BootTries, J!NoImage, NoImage

\* persist() by the service moves the journal by the transition or not at all.
LEMMA PersistChosen ==
  ASSUME IInv, Serving, NEW next \in States, Valid(next),
         next.revision = u.state.revision + 1,
         NEW done, NEW failed, Persist(next, done, failed)
  PROVE  u.state = Chosen /\ Chosen' \in {Chosen, next}
<1>1. u.state = Chosen
  BY Zenon DEF IInv, ServiceOK
<1> QED
  BY <1>1, PersistStep, Zenon

LEMMA ServiceImplements ==
  ASSUME IInv,
         \/ RegisterWorker \/ RequestRollback \/ CommitImage \/ Abort
         \/ \E image \in Images : Begin(image)
         \/ \E desktop \in BOOLEAN : Health(desktop)
  PROVE  J!JournalNext \/ Chosen' = Chosen
<1>1. Serving
  BY Zenon DEF RegisterWorker, RequestRollback, AdminMay, CommitImage, Abort, Begin,
     WorkerCalls, Health
<1>2. /\ u \in ServiceType /\ u.state \in States /\ Valid(u.state)
      /\ u.target \in Slots /\ u.candidate \in Images /\ boot.slot \in Slots
      /\ u.state = Chosen
  BY <1>1, CallFacts, ServiceFields, Zenon DEF IInv, ServiceOK
<1>3. rec' = rec => Chosen' = Chosen
  BY RecKept, Zenon
<1>4. ASSUME CanReject(u.state), NEW done, NEW failed,
             Persist(Reject(u.state), done, failed)
      PROVE  J!JournalNext \/ Chosen' = Chosen
  <2>1. Follows(u.state, Reject(u.state))
    BY <1>2, <1>4, RejectFollows, Zenon
  <2>2. Chosen' \in {Chosen, Reject(u.state)}
    BY <1>1, <1>4, <2>1, PersistChosen, Zenon DEF Follows
  <2>3. CASE Chosen' = Reject(u.state)
    <3>1. J!Rejects
      BY <1>2, <1>4, <2>3, SameTransitions, Zenon DEF J!Rejects
    <3> QED
      BY <3>1, Zenon DEF J!JournalNext
  <2> QED
    BY <2>2, <2>3, Zenon
<1>5. CASE RegisterWorker
  BY <1>3, <1>4, <1>5, Zenon DEF RegisterWorker
<1>6. CASE Abort
  BY <1>3, <1>4, <1>6, Zenon DEF Abort
<1>7. CASE RequestRollback
  <2>1. CanRollback(u.state) /\ Persist(Rollback(u.state), u, u)
    BY <1>7, Zenon DEF RequestRollback
  <2>2. Follows(u.state, Rollback(u.state))
    BY <1>2, <2>1, RollbackFollows, Zenon
  <2>3. Chosen' \in {Chosen, Rollback(u.state)}
    BY <1>1, <2>1, <2>2, PersistChosen, Zenon DEF Follows
  <2>4. CASE Chosen' = Rollback(u.state)
    <3>1. J!Rollbacks
      BY <1>2, <2>1, <2>4, SameTransitions, Zenon DEF J!Rollbacks
    <3> QED
      BY <3>1, Zenon DEF J!JournalNext
  <2> QED
    BY <2>3, <2>4, Zenon
<1>8. CASE CommitImage
  <2>1. CASE rec' = rec
    BY <1>3, <2>1, Zenon
  <2>2. CASE /\ CanStage(u.state, u.target, u.candidate)
             /\ Persist(Stage(u.state, u.target, u.candidate), StagingClear(u), u)
    <3> DEFINE next == Stage(u.state, u.target, u.candidate)
    <3>1. next \in States /\ Valid(next) /\ next.revision = u.state.revision + 1
      BY <1>2, <2>2, StageStep, Zenon
    <3>2. Chosen' \in {Chosen, next}
      BY <1>1, <2>2, <3>1, PersistChosen, Zenon
    <3>3. u.target = Other(u.state.active)
      BY <1>1, <1>8, CallFacts, Zenon DEF CommitImage
    <3>4. CASE Chosen' = next
      <4>1. J!Stages
        BY <1>2, <2>2, <3>3, <3>4, SameTransitions, Zenon DEF J!Stages
      <4> QED
        BY <4>1, Zenon DEF J!JournalNext
    <3> QED
      BY <3>2, <3>4, Zenon
  <2> QED
    BY <1>8, <2>1, <2>2, Zenon DEF CommitImage
<1>9. ASSUME NEW image \in Images, Begin(image) PROVE J!JournalNext \/ Chosen' = Chosen
  <2>1. /\ CanBeginWrite(u.state)
        /\ \E done, failed : Persist(BeginWrite(u.state), done, failed)
    BY <1>9, Zenon DEF Begin
  <2>2. Follows(u.state, BeginWrite(u.state))
    BY <1>2, <2>1, BeginWriteFollows, Zenon
  <2>3. Chosen' \in {Chosen, BeginWrite(u.state)}
    BY <1>1, <2>1, <2>2, PersistChosen, Zenon DEF Follows
  <2>4. CASE Chosen' = BeginWrite(u.state)
    <3>1. J!Begins
      BY <1>2, <2>1, <2>4, SameTransitions, Zenon DEF J!Begins
    <3> QED
      BY <3>1, Zenon DEF J!JournalNext
  <2> QED
    BY <2>3, <2>4, Zenon
<1>10. ASSUME NEW desktop \in BOOLEAN, Health(desktop)
       PROVE  J!JournalNext \/ Chosen' = Chosen
  <2>1. CASE rec' = rec
    BY <1>3, <2>1, Zenon
  <2>2. CASE /\ CanConfirm(u.state, boot.slot)
             /\ Persist(Confirm(u.state, boot.slot), [u EXCEPT !.trial = FALSE], u)
    <3>1. Follows(u.state, Confirm(u.state, boot.slot))
      BY <1>2, <2>2, ConfirmFollows, Zenon
    <3>2. Chosen' \in {Chosen, Confirm(u.state, boot.slot)}
      BY <1>1, <2>2, <3>1, PersistChosen, Zenon DEF Follows
    <3>3. CASE Chosen' = Confirm(u.state, boot.slot)
      <4>1. J!Confirms
        BY <1>2, <2>2, <3>3, SameTransitions, Zenon DEF J!Confirms
      <4> QED
        BY <4>1, Zenon DEF J!JournalNext
    <3> QED
      BY <3>2, <3>3, Zenon
  <2> QED
    BY <1>10, <2>1, <2>2, Zenon DEF Health
<1> QED
  BY <1>5, <1>6, <1>7, <1>8, <1>9, <1>10, Zenon

\* A boot moves the journal by update_state_boot or not at all, if it reads both
\* records.
LEMMA PowerOnImplements ==
  ASSUME IInv, NEW normal \in BOOLEAN, PowerOn(normal), ~misread'
  PROVE  J!JournalNext \/ Chosen' = Chosen
<1>1. RecOK /\ JournalOK
  BY Zenon DEF IInv, TypeOK, RecOK
<1>2. rec' = rec => Chosen' = Chosen
  BY RecKept, Zenon
<1> DEFINE r == Choice
           s == Chosen
<1>3. rec' = rec \/ SelectSlot(r, s)
  BY <1>1, ReadFacts, ZenonT(60) DEF PowerOn
<1>4. disk' = disk
  BY Zenon DEF PowerOn
<1>5. r \in Slots /\ Live(r) /\ s = rec[r] /\ s \in States /\ Valid(s)
  BY <1>1, ChosenLive, Zenon
<1>6. CASE /\ BootChanges(s) /\ CanBump(s)
           /\ WriteRecord(r, BootResult(s)) \/ WriteRecordFails(r, BootResult(s))
  <2>1. Follows(rec[r], BootResult(s))
    BY <1>5, <1>6, BootFollows, Zenon
  <2>2. Chosen' \in {Chosen, BootResult(s)}
    BY <1>4, <1>5, <1>6, <2>1, BootWrite, Zenon
  <2>3. CASE Chosen' = BootResult(s)
    <3>1. J!Boots
      BY <1>6, <2>3, SameTransitions, Zenon DEF J!Boots
    <3> QED
      BY <3>1, Zenon DEF J!JournalNext
  <2> QED
    BY <2>2, <2>3, Zenon
<1> QED
  BY <1>2, <1>3, <1>6, Zenon DEF SelectSlot

\* A trial that cannot be started is rejected or left alone.
LEMMA ChainFailsImplements ==
  ASSUME IInv, ChainFails
  PROVE  J!JournalNext \/ Chosen' = Chosen
<1> DEFINE s == boot.state
<1>1. RecOK /\ JournalOK /\ s \in States
  BY Zenon DEF IInv, TypeOK, RecOK
<1>2. rec' = rec => Chosen' = Chosen
  BY RecKept, Zenon
<1>3. CASE /\ boot.slot # s.active /\ CanReject(s)
           /\ \/ WriteRecord(boot.record, Reject(s))
              \/ WriteRecordFails(boot.record, Reject(s))
  <2>1. s = Chosen /\ boot.record = Choice
    BY <1>3, Zenon DEF IInv, BootOK, ChainFails
  <2>2. boot.record \in Slots /\ Live(boot.record) /\ rec[boot.record] = s /\ Valid(s)
    BY <1>1, <2>1, ChosenLive, Zenon
  <2>3. Follows(rec[boot.record], Reject(s))
    BY <1>1, <1>3, <2>2, RejectFollows, Zenon
  <2>4. Chosen' \in {Chosen, Reject(s)}
    BY <1>3, <2>1, <2>2, <2>3, BootWrite, Zenon DEF ChainFails
  <2>5. CASE Chosen' = Reject(s)
    <3>1. J!Rejects
      BY <1>3, <2>1, <2>5, SameTransitions, Zenon DEF J!Rejects
    <3> QED
      BY <3>1, Zenon DEF J!JournalNext
  <2> QED
    BY <2>4, <2>5, Zenon
<1> QED
  BY <1>2, <1>3, Zenon DEF ChainFails

\* The two-record journal on a disk that tears, loses and refuses writes
\* implements one durable state that changes by whole transitions of protocol.c,
\* as long as the boot manager reads both records (service.c:60-69,
\* update_boot.c:84-130).
THEOREM JournalRefined == Spec => ImplementsJournal
<1>1. Init => J!JournalInit
  <2> SUFFICES ASSUME Init PROVE J!JournalInit
    BY Zenon
  <2>1. rec[0] = FactoryState /\ rec[1] = FactoryState
    BY Zenon DEF Init, Slots
  <2>2. Chosen = FactoryState
    BY <2>1, FactoryValid, StateNotTorn DEF Chosen, ChooseRecord, NoSlot
  <2> QED
    BY <2>2, SameTransitions, Zenon DEF J!JournalInit
<1>2. IInv /\ [Next]_vars => [misread' \/ [J!JournalNext]_Chosen]_vars
  <2> SUFFICES ASSUME IInv, Next PROVE misread' \/ J!JournalNext \/ Chosen' = Chosen
    BY Zenon
  <2>1. CASE rec' = rec
    BY <2>1, RecKept, Zenon
  <2>2. CASE PowerFail \/ ChainStarts \/ ServiceInit \/ WorkerDies \/ RequestJob
             \/ ReportDone \/ \E part \in Parts : WriteImage(part)
    BY <2>1, <2>2, Zenon DEF PowerFail, ChainStarts, ServiceInit, WorkerDies, RequestJob,
       ReportDone, WriteImage
  <2>3. CASE \E normal \in BOOLEAN : PowerOn(normal)
    BY <2>3, PowerOnImplements, Zenon
  <2>4. CASE ChainFails
    BY <2>4, ChainFailsImplements, Zenon
  <2> QED
    BY <2>2, <2>3, <2>4, ServiceImplements, Zenon DEF Next
<1> QED
  BY <1>1, <1>2, Invariance, PTL DEF Spec, ImplementsJournal
=============================================================================
