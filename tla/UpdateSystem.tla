---------------------------- MODULE UpdateSystem ----------------------------
(***************************************************************************)
(* A/B system updates: the boot manager (boot/uefi/update_boot.c), the     *)
(* kernel's update service (kernel/update/service.c) and the disk between  *)
(* them, with power failures at every step, torn journal records, journal  *)
(* I/O errors and a write cache that a power failure loses.                *)
(*                                                                         *)
(* Every service call holds u.lock from start to end, so a call is one     *)
(* action.  A power failure in the middle of a journal write leaves the    *)
(* record old, new or torn, as a failed write does, and nothing else runs  *)
(* in between: it is the failed write followed by PowerFail.               *)
(***************************************************************************)
EXTENDS UpdateProtocol

CONSTANT ReadFaults   \* may the boot manager's journal reads fail?
ASSUME ReadFaultsAssumption == ReadFaults \in BOOLEAN

Parts == {"root", "efi"}                    \* the two halves of a slot
Junk == [release |-> 0, build |-> 1]        \* bytes of no image
Torn == [revision |-> 0]                    \* a record that does not decode
Contents == Images \cup {NoImage, Junk}

VARIABLES
  rec,      \* the two journal records on the ESP
  disk,     \* disk[part][slot]: what is stored, cached writes included
  dirty,    \* parts of the target slot with writes not yet flushed
  phase,    \* "off", "chain" (boot manager), "kernel", "running", "recovery", "dead"
  boot,     \* the boot manager's selected state, its record, slot and mode
  u,        \* the service's static struct
  tries,    \* history: kernels started from the slot under trial, up to 2
  misread   \* history: the boot manager has failed to read a journal record

vars == <<rec, disk, dirty, phase, boot, u, tries, misread>>

BootOff == [state |-> FactoryState, record |-> 0, slot |-> 0, normal |-> TRUE]
ServiceOff ==
  [ready |-> FALSE, state |-> FactoryState, record |-> 0, trial |-> FALSE,
   worker |-> "none", job |-> FALSE, writing |-> FALSE, target |-> 0,
   candidate |-> Factory, done |-> {}, verify |-> 0, healthy |-> FALSE]

TypeOK ==
  /\ rec \in [Slots -> States \cup {Torn}]
  /\ disk \in [Parts -> [Slots -> Contents]]
  /\ dirty \subseteq Parts
  /\ phase \in {"off", "chain", "kernel", "running", "recovery", "dead"}
  /\ boot \in [state : States, record : Slots, slot : Slots, normal : BOOLEAN]
  /\ u \in [ready : BOOLEAN, state : States, record : Slots, trial : BOOLEAN,
            worker : {"none", "alive", "dead"}, job : BOOLEAN,
            writing : BOOLEAN, target : Slots, candidate : Images,
            done : SUBSET Parts, verify : 0..2, healthy : BOOLEAN]
  /\ tries \in 0..2
  /\ misread \in BOOLEAN

Init ==
  /\ rec = [r \in Slots |-> FactoryState]
  /\ disk = [p \in Parts |-> [s \in Slots |-> IF s = 0 THEN Factory ELSE NoImage]]
  /\ dirty = {}
  /\ phase = "off"
  /\ boot = BootOff
  /\ u = ServiceOff
  /\ tries = 0
  /\ misread = FALSE
-----------------------------------------------------------------------------
(* The journal. *)

\* update_state_choose: the record to use, NoSlot when there is none.
ChooseRecord(a, b) ==
  CASE a = Torn /\ b = Torn -> NoSlot
    [] a # Torn /\ b # Torn /\ a.revision = b.revision /\ a # b -> NoSlot
    [] a # Torn /\ (b = Torn \/ a.revision > b.revision \/ a = b) -> 0
    [] OTHER -> 1

Chosen == LET r == ChooseRecord(rec[0], rec[1])
          IN IF r = NoSlot THEN Torn ELSE rec[r]

\* A journal write goes to the record that is not in use, is flushed and read
\* back.  When it fails the record is old, new or torn.
WriteRecord(record, next) == rec' = [rec EXCEPT ![Other(record)] = next]

\* Mutant: a failed write may hit the record in use.
WriteRecordFails_InPlace(record, next) ==
  \E r \in {rec[record], next, Torn} : rec' = [rec EXCEPT ![record] = r]

WriteRecordFails(record, next) ==
  \E r \in {rec[Other(record)], next, Torn} :
    rec' = [rec EXCEPT ![Other(record)] = r]

\* Mutant: a failed journal write leaves the service running.
Persist_StaysReady(next, done, failed) ==
  \/ /\ WriteRecord(u.record, next)
     /\ u' = [done EXCEPT !.state = next, !.record = Other(u.record)]
  \/ /\ WriteRecordFails(u.record, next)
     /\ u' = failed

\* The service's persist(): `done` or `failed` is the caller's next u.
Persist(next, done, failed) ==
  \/ /\ WriteRecord(u.record, next)
     /\ u' = [done EXCEPT !.state = next, !.record = Other(u.record)]
  \/ /\ WriteRecordFails(u.record, next)
     /\ u' = [failed EXCEPT !.ready = FALSE]
-----------------------------------------------------------------------------
(* The machine. *)

\* What the write cache had not flushed may be lost.
PowerFail ==
  /\ phase # "off"
  /\ phase' = "off"
  /\ \E lost \in SUBSET dirty :
       disk' = [p \in Parts |-> IF p \in lost
                                  THEN [disk[p] EXCEPT ![u.target] = Junk]
                                  ELSE disk[p]]
  /\ dirty' = {}
  /\ boot' = BootOff
  /\ u' = ServiceOff
  /\ UNCHANGED <<rec, tries, misread>>
-----------------------------------------------------------------------------
(* The boot manager. *)

\* What a journal read returns: an unreadable page decodes as no record.
Readings(r) == {rec[r]} \cup (IF ReadFaults THEN {Torn} ELSE {})

\* Mutant: the trial is started before its attempt is recorded as spent.
SelectSlot_NotRecorded(r, s) ==
  /\ boot' = [state |-> IF BootTries(s) THEN BootResult(s) ELSE s,
              record |-> r, slot |-> BootSlot(s), normal |-> TRUE]
  /\ phase' = "chain"
  /\ UNCHANGED rec

\* A normal boot from state s of record r: the journal change is persisted
\* before the slot is started, the confirmed slot is used when it cannot be.
SelectSlot(r, s) ==
  \/ /\ BootExhausted(s)
     /\ phase' = "dead"
     /\ UNCHANGED <<rec, boot>>
  \/ /\ ~BootChanges(s)
     /\ boot' = [state |-> s, record |-> r, slot |-> s.active, normal |-> TRUE]
     /\ phase' = "chain"
     /\ UNCHANGED rec
  \/ /\ BootChanges(s) /\ CanBump(s)
     /\ WriteRecord(r, BootResult(s))
     /\ boot' = [state |-> BootResult(s), record |-> Other(r),
                 slot |-> BootSlot(s), normal |-> TRUE]
     /\ phase' = "chain"
  \/ /\ BootChanges(s) /\ CanBump(s)
     /\ WriteRecordFails(r, BootResult(s))
     /\ boot' = [state |-> s, record |-> r, slot |-> s.active, normal |-> TRUE]
     /\ phase' = "chain"

PowerOn(normal) ==
  /\ phase = "off"
  /\ \E a \in Readings(0), b \in Readings(1) :
       LET r == ChooseRecord(a, b)
           s == IF r = 0 THEN a ELSE b
       IN /\ misread' = (misread \/ <<a, b>> # <<rec[0], rec[1]>>)
          /\ \/ /\ r = NoSlot
                /\ phase' = "recovery"
                /\ UNCHANGED <<rec, boot>>
             \/ /\ r # NoSlot /\ normal
                /\ SelectSlot(r, s)
             \/ /\ r # NoSlot /\ ~normal
                /\ boot' = [state |-> s, record |-> r, slot |-> s.active,
                            normal |-> FALSE]
                /\ phase' = "chain"
                /\ UNCHANGED rec
  /\ UNCHANGED <<disk, dirty, u, tries>>

\* chain() verifies the EFI image's digest and starts it; the started loader
\* refuses a slot that was not selected (update_boot_child).
ChainStarts ==
  LET s == boot.state
      selected == \/ boot.slot = s.active
                  \/ boot.slot = s.pending /\ s.attempts = 0
  IN /\ phase = "chain"
     /\ disk["efi"][boot.slot] = s.slot[boot.slot]
     /\ phase' = IF selected THEN "kernel" ELSE "dead"
     /\ tries' = IF boot.slot # s.active /\ tries < 2 THEN tries + 1 ELSE tries
     /\ UNCHANGED <<rec, disk, dirty, boot, u, misread>>

\* The image is bad, cannot be loaded, or its loader returned.
ChainFails ==
  /\ phase = "chain"
  /\ \/ /\ boot.slot = boot.state.active
        /\ phase' = "recovery"
        /\ UNCHANGED <<rec, boot>>
     \/ /\ boot.slot # boot.state.active /\ CanReject(boot.state)
        /\ WriteRecord(boot.record, Reject(boot.state))
        /\ boot' = [boot EXCEPT !.state = Reject(boot.state),
                                !.slot = boot.state.active]
        /\ UNCHANGED phase
     \/ /\ boot.slot # boot.state.active
        /\ \/ CanReject(boot.state) /\ WriteRecordFails(boot.record, Reject(boot.state))
           \/ ~CanReject(boot.state) /\ UNCHANGED rec
        /\ boot' = [boot EXCEPT !.slot = boot.state.active]
        /\ UNCHANGED phase
  /\ UNCHANGED <<disk, dirty, u, tries, misread>>
-----------------------------------------------------------------------------
(* The update service. *)

\* update_service_init.  It serves only the state the boot manager saw.
ServiceInit ==
  /\ phase = "kernel"
  /\ phase' = "running"
  /\ \/ u' = ServiceOff
     \/ /\ boot.normal
        /\ Chosen # Torn
        /\ Chosen.revision = boot.state.revision
        /\ u' = [ServiceOff EXCEPT !.ready = TRUE, !.state = Chosen,
                   !.record = ChooseRecord(rec[0], rec[1]),
                   !.trial = Chosen.pending = boot.slot]
  /\ UNCHANGED <<rec, disk, dirty, boot, tries, misread>>

Serving == phase = "running" /\ u.ready
WorkerCalls == Serving /\ u.worker = "alive"
StagingClear(v) == [v EXCEPT !.writing = FALSE, !.verify = 0]

\* EMBK_UPDATE_WORKER: a restarted worker first rejects what was interrupted.
RegisterWorker ==
  LET registered == [u EXCEPT !.job = FALSE, !.worker = "alive"]
  IN /\ Serving
     /\ u.worker # "alive"
     /\ \/ /\ ~u.writing
           /\ u' = registered
           /\ UNCHANGED rec
        \/ /\ u.writing /\ CanReject(u.state)
           /\ Persist(Reject(u.state), StagingClear(registered), StagingClear(u))
        \/ /\ u.writing /\ ~CanReject(u.state)
           /\ u' = StagingClear(u)
           /\ UNCHANGED rec
     /\ UNCHANGED <<disk, dirty, phase, boot, tries, misread>>

WorkerDies ==
  /\ WorkerCalls
  /\ u' = [u EXCEPT !.worker = "dead"]
  /\ UNCHANGED <<rec, disk, dirty, phase, boot, tries, misread>>

\* The administrator's requests share one gate.
AdminMay == Serving /\ ~u.writing /\ ~u.job /\ ~u.trial

RequestJob ==
  /\ AdminMay
  /\ u.state.pending = NoSlot
  /\ u.worker = "alive"
  /\ u' = [u EXCEPT !.job = TRUE]
  /\ UNCHANGED <<rec, disk, dirty, phase, boot, tries, misread>>

RequestRollback ==
  /\ AdminMay
  /\ CanRollback(u.state)
  /\ Persist(Rollback(u.state), u, u)
  /\ tries' = 0
  /\ UNCHANGED <<disk, dirty, phase, boot, misread>>

ReportDone ==
  /\ WorkerCalls
  /\ u' = [u EXCEPT !.job = FALSE]
  /\ UNCHANGED <<rec, disk, dirty, phase, boot, tries, misread>>

\* Mutant: a pending trial does not stop a new installation.
Begin_DuringTrial(image) ==
  LET target == Other(u.state.active)
  IN /\ WorkerCalls
     /\ ~u.writing
     /\ CanBump(u.state)
     /\ Persist(BeginWrite([u.state EXCEPT !.pending = NoSlot, !.attempts = 0]),
                [u EXCEPT !.writing = TRUE, !.target = target,
                          !.candidate = image, !.done = {}],
                [u EXCEPT !.target = target])
     /\ UNCHANGED <<disk, dirty, phase, boot, tries, misread>>

Begin(image) ==
  LET target == Other(u.state.active)
  IN /\ WorkerCalls
     /\ ~u.writing /\ u.state.pending = NoSlot
     /\ CanStage(u.state, target, image)
     /\ CanBeginWrite(u.state)
     /\ Persist(BeginWrite(u.state),
                [u EXCEPT !.writing = TRUE, !.target = target,
                          !.candidate = image, !.done = {}],
                [u EXCEPT !.target = target])
     /\ UNCHANGED <<disk, dirty, phase, boot, tries, misread>>

\* A chunk that is not the last, failed or is not the release's bytes leaves
\* Junk; the last good one completes the image.
WriteImage(part) ==
  /\ WorkerCalls
  /\ u.writing
  /\ part \notin u.done
  /\ \E last \in BOOLEAN, bytes \in {u.candidate, Junk} :
       /\ bytes = u.candidate => last
       /\ disk' = [disk EXCEPT ![part][u.target] = bytes]
       /\ u' = IF last THEN [u EXCEPT !.done = @ \cup {part}] ELSE u
  /\ dirty' = dirty \cup {part}
  /\ UNCHANGED <<rec, phase, boot, tries, misread>>

\* Mutant: the readback is served before the devices are flushed.
CommitImage_NoFlush ==
  /\ WorkerCalls
  /\ u.writing
  /\ u.done = Parts
  /\ \A p \in Parts : disk[p][u.target] = u.candidate
  /\ CanStage(u.state, u.target, u.candidate)
  /\ Persist(Stage(u.state, u.target, u.candidate), StagingClear(u), u)
  /\ tries' = 0
  /\ UNCHANGED <<disk, dirty, phase, boot, misread>>

\* commit_image: flush on the first call, then read back the root (verify 1)
\* and the EFI image (verify 2) over several calls, then publish the trial.
CommitImage ==
  LET mode == IF u.verify = 0 THEN 1 ELSE u.verify
      checked == IF mode = 1 THEN "root" ELSE "efi"
      matches == disk[checked][u.target] = u.candidate
  IN /\ WorkerCalls
     /\ u.writing
     /\ u.done = Parts
     /\ dirty' = IF u.verify = 0 THEN {} ELSE dirty
     /\ \/ /\ u' = [u EXCEPT !.verify = mode]       \* more to read, or a mismatch
           /\ UNCHANGED <<rec, tries>>
        \/ /\ mode = 1 /\ matches
           /\ u' = [u EXCEPT !.verify = 2]
           /\ UNCHANGED <<rec, tries>>
        \/ /\ mode = 2 /\ matches
           /\ CanStage(u.state, u.target, u.candidate)
           /\ Persist(Stage(u.state, u.target, u.candidate), StagingClear(u), u)
           /\ tries' = 0
     /\ UNCHANGED <<disk, phase, boot, misread>>

Abort ==
  /\ WorkerCalls
  /\ \/ /\ u.writing /\ CanReject(u.state)
        /\ LET aborted == StagingClear([u EXCEPT !.job = FALSE])
           IN Persist(Reject(u.state), aborted, aborted)
     \/ /\ ~u.writing \/ ~CanReject(u.state)
        /\ u' = StagingClear([u EXCEPT !.job = FALSE])
        /\ UNCHANGED rec
  /\ UNCHANGED <<disk, dirty, phase, boot, tries, misread>>

\* update_service_health: the trial is confirmed on the second healthy report.
Health(desktop) ==
  /\ Serving /\ u.trial
  /\ \/ /\ ~desktop \/ u.worker # "alive"
        /\ u' = [u EXCEPT !.healthy = FALSE]
        /\ UNCHANGED rec
     \/ /\ desktop /\ u.worker = "alive" /\ ~u.healthy
        /\ u' = [u EXCEPT !.healthy = TRUE]
        /\ UNCHANGED rec
     \/ /\ desktop /\ u.worker = "alive" /\ u.healthy
        /\ CanConfirm(u.state, boot.slot)
        /\ Persist(Confirm(u.state, boot.slot), [u EXCEPT !.trial = FALSE], u)
  /\ UNCHANGED <<disk, dirty, phase, boot, tries, misread>>
-----------------------------------------------------------------------------
Next ==
  \/ PowerFail
  \/ \E normal \in BOOLEAN : PowerOn(normal)
  \/ ChainStarts \/ ChainFails
  \/ ServiceInit
  \/ RegisterWorker \/ WorkerDies
  \/ RequestJob \/ RequestRollback \/ ReportDone
  \/ \E image \in Images : Begin(image)
  \/ \E part \in Parts : WriteImage(part)
  \/ CommitImage \/ Abort
  \/ \E desktop \in BOOLEAN : Health(desktop)

Spec == Init /\ [][Next]_vars
-----------------------------------------------------------------------------
(* Properties. *)

Intact(s, i) == \A p \in Parts : disk[p][i] = s.slot[i]

\* Whatever was interrupted, the journal can be read and every slot it would
\* start or fall back to (confirmed, under trial, retained for rollback) holds
\* exactly the bytes the journal names (docs/UPDATES.md:55-60; service.c:112
\* persists BEGIN before the first overwrite, :154 publishes after readback).
SelectedIntact ==
  /\ Chosen # Torn
  /\ Intact(Chosen, Chosen.active)
  /\ Chosen.pending # NoSlot => Intact(Chosen, Chosen.pending)
  /\ Chosen.previous # NoSlot => Intact(Chosen, Chosen.previous)

\* The slot the running system was started from is never the one being
\* overwritten, across trials, rollbacks and reverts (service.c:91;
\* docs/UPDATES.md:5 "The current slot stays read-only").
RunningSlotReadOnly == Serving /\ u.writing => u.target # boot.slot

\* A slot under trial is started at most once until it is confirmed or staged
\* again (update_boot.c:126-130; docs/UPDATES.md:8 "An unconfirmed trial gets
\* one boot attempt; the next boot selects the confirmed system"), as long as the
\* boot manager can read both journal records.
OneTrialBoot == tries <= 1 \/ misread

\* While the service accepts calls, the state it computes transitions from is
\* the one the next boot will read (service.c:44-45, 69).
ServiceStateCurrent ==
  Serving => u.state = Chosen /\ u.record = ChooseRecord(rec[0], rec[1])

\* The two-record journal, whatever is torn, lost or refused, implements one
\* durable state that changes by whole transitions only, as long as the boot
\* manager can read both records.
J == INSTANCE UpdateJournal WITH st <- Chosen
ImplementsJournal == J!JournalInit /\ [][misread' \/ [J!JournalNext]_Chosen]_vars
=============================================================================
