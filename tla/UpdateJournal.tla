--------------------------- MODULE UpdateJournal ---------------------------
(***************************************************************************)
(* What the boot journal promises its users: one durable state, changed    *)
(* only by whole transitions of protocol.c.  UpdateSystem, with two        *)
(* records, torn writes, I/O errors and power failures, implements it.     *)
(***************************************************************************)
EXTENDS UpdateProtocol

VARIABLE st   \* the durable state

JournalInit == st = FactoryState

Begins == CanBeginWrite(st) /\ st' = BeginWrite(st)
Stages ==
  \E image \in Images :
    CanStage(st, Other(st.active), image) /\ st' = Stage(st, Other(st.active), image)
Boots == BootChanges(st) /\ CanBump(st) /\ st' = BootResult(st)
Rejects == CanReject(st) /\ st' = Reject(st)
Confirms == \E s \in Slots : CanConfirm(st, s) /\ st' = Confirm(st, s)
Rollbacks == CanRollback(st) /\ st' = Rollback(st)

JournalNext == Begins \/ Stages \/ Boots \/ Rejects \/ Confirms \/ Rollbacks

JournalSpec == JournalInit /\ [][JournalNext]_st
-----------------------------------------------------------------------------
\* Every state the transitions reach passes update_state_valid, so
\* update_state_encode never refuses to persist one (protocol.c:38, 54).
AlwaysValid == st \in States /\ Valid(st)

\* A slot's remembered release never goes back, and the same release never
\* changes its bytes, whatever is staged, rejected or rolled back
\* (protocol.c:100-106; docs/UPDATES.md:84 "cannot replace a remembered higher
\* release with older or different bytes").
ReleaseRemembered ==
  [][\A s \in Slots :
       \/ st'.slot[s].release > st.slot[s].release
       \/ st'.slot[s] = st.slot[s]]_st

\* The confirmed system changes only to the slot under trial whose one boot
\* attempt has been spent (protocol.c:127-132).
OnlyTriedConfirmed ==
  [][st'.active # st.active =>
       st.pending = st'.active /\ st.attempts = 0 /\ st'.previous = st.active]_st
=============================================================================
