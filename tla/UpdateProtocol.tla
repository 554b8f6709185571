--------------------------- MODULE UpdateProtocol ---------------------------
(***************************************************************************)
(* The boot journal's state and its transitions: kernel/update/protocol.c, *)
(* shared by the kernel's update service and the UEFI boot manager.        *)
(*                                                                         *)
(* A slot descriptor (sizes, version, two digests) is an image: a release  *)
(* number and the build that the digests identify.  Partition GUIDs are    *)
(* constant and left out.  last_error is non-zero exactly when flags is    *)
(* REVERTED (protocol.c:47-48) and is merged into it.  Each transition is  *)
(* the pair of its guard (UPDATE_OK is returned) and its result.           *)
(***************************************************************************)
EXTENDS Integers

CONSTANTS
  Images,       \* releases that can be installed: [release, build] records
  Factory,      \* the image the installer puts in slot A
  MaxRevision   \* the code's UINT64_MAX, where a revision cannot be bumped

ASSUME UpdateAssumption ==
  /\ Images \subseteq [release : Nat \ {0}, build : Nat]
  /\ Factory \in Images
  /\ MaxRevision \in Nat \ {0}

Slots == {0, 1}
NoSlot == 255
NoImage == [release |-> 0, build |-> 0]
Other(s) == 1 - s

States ==
  [revision : 1..MaxRevision,
   flags : {"clear", "reverted", "writing"},
   active : Slots,
   pending : Slots \cup {NoSlot},
   previous : Slots \cup {NoSlot},
   attempts : {0, 1},
   slot : [Slots -> Images \cup {NoImage}]]

FactoryState ==
  [revision |-> 1, flags |-> "clear", active |-> 0, pending |-> NoSlot,
   previous |-> NoSlot, attempts |-> 0,
   slot |-> [s \in Slots |-> IF s = 0 THEN Factory ELSE NoImage]]

\* update_state_valid: a trial or a retained slot is the inactive one and has
\* an image, a state that is WRITING or REVERTED has nothing pending.
Valid(s) ==
  /\ s.slot[s.active] # NoImage
  /\ s.pending # NoSlot => s.pending # s.active /\ s.slot[s.pending] # NoImage
  /\ s.pending = NoSlot => s.attempts = 0
  /\ s.flags = "reverted" => s.pending = NoSlot
  /\ s.flags = "writing" => s.pending = NoSlot /\ s.previous = NoSlot
  /\ s.previous # NoSlot => s.previous # s.active /\ s.slot[s.previous] # NoImage

\* Mutant: the exhausted revision is bumped.
CanBump_PastEnd(s) == s.revision <= MaxRevision

CanBump(s) == s.revision < MaxRevision
Bump(s) == [s EXCEPT !.revision = @ + 1]

CanBeginWrite(s) ==
  /\ s.pending = NoSlot
  /\ s.flags # "writing"
  /\ CanBump(s)
BeginWrite(s) == Bump([s EXCEPT !.previous = NoSlot, !.flags = "writing"])

CanStage(s, target, image) ==
  /\ target # s.active
  /\ s.pending = NoSlot
  /\ image.release > s.slot[s.active].release
  /\ image.release >= s.slot[target].release
  /\ image.release = s.slot[target].release => image = s.slot[target]
  /\ CanBump(s)
Stage(s, target, image) ==
  Bump([s EXCEPT !.slot[target] = image, !.pending = target,
                 !.previous = NoSlot, !.attempts = 1, !.flags = "clear"])

CanReject(s) ==
  /\ s.pending # NoSlot \/ s.flags = "writing"
  /\ CanBump(s)

Reject(s) ==
  Bump([s EXCEPT !.pending = NoSlot, !.attempts = 0, !.flags = "reverted"])

CanConfirm(s, running) ==
  /\ s.pending = running
  /\ s.attempts = 0
  /\ CanBump(s)
Confirm(s, running) ==
  Bump([s EXCEPT !.previous = s.active, !.active = running,
                 !.pending = NoSlot, !.flags = "clear"])

CanRollback(s) ==
  /\ s.previous # NoSlot
  /\ s.pending = NoSlot
  /\ CanBump(s)
Rollback(s) ==
  Bump([s EXCEPT !.pending = s.previous, !.previous = NoSlot,
                 !.attempts = 1, !.flags = "clear"])

\* update_state_boot.  BootChanges: the journal must be rewritten before the
\* selected slot is started; BootExhausted: it would have to be and cannot.
BootChanges(s) == s.flags = "writing" \/ s.pending # NoSlot
BootExhausted(s) == BootChanges(s) /\ ~CanBump(s)
BootTries(s) == s.flags # "writing" /\ s.pending # NoSlot /\ s.attempts = 1
BootSlot(s) == IF BootTries(s) THEN s.pending ELSE s.active
BootResult(s) ==
  IF ~BootChanges(s) THEN s
  ELSE IF BootTries(s) THEN Bump([s EXCEPT !.attempts = 0])
  ELSE Reject(s)
=============================================================================
