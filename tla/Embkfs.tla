------------------------------- MODULE Embkfs -------------------------------
(***************************************************************************)
(* The copy-on-write commit of EMBKFS (kernel/fs/embkfs/embkfs.c): the      *)
(* allocator, transactions, the two-flush commit with its two superblocks   *)
(* and the root's mirror, snapshots, unlinking of open files, and the mount *)
(* after a power loss, on a device with a volatile write cache.             *)
(*                                                                          *)
(* embkfs_lock is held for a whole operation, so operations do not overlap; *)
(* an operation is one action up to each point where what the device has    *)
(* taken matters.  The tree is one node that maps files to extents of one   *)
(* block.  A pointer carries the checksum, generation and place of its      *)
(* node: here it is the node itself, and reading through it compares.       *)
(***************************************************************************)
EXTENDS Integers, Sequences, FiniteSets, FiniteSetsExt, SequencesExt

CONSTANTS
  Files,       \* object ids
  Values,      \* what a data block may hold
  Names,       \* of snapshots
  NBlocks,     \* blocks the allocator hands out
  FreeMod,     \* modulus of the free count, 2^64 in the code
  MaxOpen,     \* bound: handles on one file
  MaxGen,      \* bound: generations
  MaxCrashes,  \* bound: power losses
  MaxFaults,   \* bound: writes and flushes that fail
  MaxPending,  \* bound: versions of the registry between two flushes
  Absent, Empty, Torn

ASSUME EmbkfsAssumption ==
  /\ NBlocks \in Nat /\ NBlocks >= 2
  /\ FreeMod \in Nat /\ FreeMod > NBlocks
  /\ MaxGen \in Nat /\ MaxCrashes \in Nat /\ MaxFaults \in Nat /\ MaxOpen \in Nat
  /\ MaxPending \in Nat

Blocks == 1..NBlocks
NoBlock == 0
NoSnapshots == [n \in Names |-> Absent]
Copies == {"primary", "backup"}

VARIABLES
  disk,     \* blk, sb, reg: of each block the versions written since the last flush
  vol,      \* struct embkfs_volume
  txn,      \* the operation under way
  open,     \* g_open_refs
  doubt,    \* history: the tree of a commit whose superblock is not sealed
  shown,    \* history: for each version of the registry, the trees of its snapshots
  leaked,   \* history: a block of a mirror that failed is marked until the next mount
  crashes, faults

vars == <<disk, vol, txn, open, doubt, shown, leaked, crashes, faults>>

-----------------------------------------------------------------------------
(* The device.  A write is seen by reads at once and is durable at the next *)
(* flush; a power loss leaves any version of a block, or a torn one.        *)

Reads(d, b) == Last(d.blk[b])
Registry == Last(disk.reg)

\* Of equal versions one is enough: only the last is told from the others.
WriteBlk(d, b, content) ==
  [d EXCEPT !.blk[b] = Append(SelectSeq(@, LAMBDA old : old # content), content)]
WriteReg(d, reg) == [d EXCEPT !.reg = Append(@, reg)]
WriteSb(d, copy, sb) == [d EXCEPT !.sb[copy] = Append(@, sb)]

Flushed(d) ==
  [blk |-> [b \in Blocks |-> <<Last(d.blk[b])>>],
   sb  |-> [c \in Copies |-> <<Last(d.sb[c])>>],
   reg |-> <<Last(d.reg)>>]

Dirty == {b \in Blocks : Len(disk.blk[b]) > 1}

\* What a power loss may leave of a block.
LeftOf(b) == ToSet(disk.blk[b]) \cup {Torn}

\* embkfs_device_failed: the call reports an I/O error, and the device may have
\* done what it was asked to.  Only EIO makes the volume read-only; it is what the
\* drivers answer for a transfer that failed, the other errors of the block layer
\* being about a missing device or a block beyond its end.
Fails(outcomes) ==
  /\ faults > 0
  /\ faults' = faults - 1
  /\ disk' \in {disk} \cup outcomes
-----------------------------------------------------------------------------
(* Trees. *)

HasData(inode) == inode # Absent /\ inode.data # Empty
DataOf(inode) == IF HasData(inode) THEN {inode.data.block} ELSE {}
BlocksOf(node) == {node.block} \cup UNION {DataOf(node.files[f]) : f \in Files}
Orphans(node) == {f \in Files : node.files[f] # Absent /\ node.files[f].links = 0}

\* embkfs_read_node: the root of the volume, and no other node, has a copy.
Readable(node, root, mirror) ==
  \/ Reads(disk, node.block) = node
  \/ node.block = root.block /\ mirror # NoBlock /\ Reads(disk, mirror) = node

Listed == {n \in Names : Registry[n] # Absent}

\* embkfs_bitmap_build: what it marks, and whether its walk succeeds.
Marks(root, mirror) ==
  BlocksOf(root) \cup ({mirror} \ {NoBlock}) \cup UNION {BlocksOf(Registry[n]) : n \in Listed}
Walks(root, mirror) ==
  \A node \in {root} \cup {Registry[n] : n \in Listed} : Readable(node, root, mirror)

\* probe_superblock_mode: the newer copy, the primary of two equal ones.
Chosen ==
  LET p == Last(disk.sb["primary"])
      s == Last(disk.sb["backup"])
  IN  IF s.gen > p.gen THEN s ELSE p

\* The self-healing of probe_superblock_mode: the copy that is not of the chosen
\* generation is overwritten with the one that is.
Healed(sb) ==
  [disk EXCEPT !.sb = [c \in Copies |->
     IF Last(@[c]).gen = sb.gen THEN @[c] ELSE Append(@[c], sb)]]

Idle == [pc |-> "idle"]
Down == [state |-> "down"]

\* A formatted volume that nobody has mounted yet.
Init ==
  LET root == [block |-> 1, gen |-> 1, files |-> [f \in Files |-> Absent]]
      sb == [gen |-> 1, root |-> root, mirror |-> NBlocks, free |-> NBlocks - 2]
  IN  /\ disk = [blk |-> [b \in Blocks |-> IF b \in {1, NBlocks} THEN <<root>> ELSE <<Torn>>],
                 sb  |-> [c \in Copies |-> <<sb>>],
                 reg |-> <<NoSnapshots>>]
      /\ vol = Down
      /\ txn = Idle
      /\ open = [f \in Files |-> 0]
      /\ doubt = {} /\ shown = <<NoSnapshots>> /\ leaked = FALSE
      /\ crashes = MaxCrashes /\ faults = MaxFaults
-----------------------------------------------------------------------------
(* Allocation and transactions. *)

Take(v, b) == [v EXCEPT !.used = @ \cup {b}, !.index = @ \ {b}]
Release(v, blocks) == [v EXCEPT !.used = @ \ blocks, !.index = @ \cup blocks]
Rebuilt(v) == [v EXCEPT !.index = Blocks \ v.used]

ReadOnly(v) == [v EXCEPT !.ro = TRUE]

\* Every writing call; the bound on generations is the model's.
Ready == vol.state = "up" /\ txn = Idle /\ ~vol.ro
Begins == vol.gen < MaxGen

Txn(files, freed, allocated) ==
  [pc |-> "cow", rollback |-> FALSE, files |-> files, freed |-> freed,
   alloc |-> allocated, root |-> Absent, mirror |-> NoBlock, free |-> 0]

\* embkfs_txn_end(committed = false), and the failure path of a rollback, which
\* rebuilds the bitmap but not the index.  A mount whose sweep fails is no mount.
Abort(v) ==
  /\ vol' = IF v.state = "mounting" THEN [v EXCEPT !.state = "halted"]
            ELSE IF txn.rollback THEN [v EXCEPT !.used = Marks(vol.root, vol.mirror)]
            ELSE Release(v, txn.alloc)
  /\ txn' = Idle

\* embkfs_make_object
Create(f) ==
  /\ Ready /\ Begins
  /\ vol.root.files[f] = Absent
  /\ txn' = Txn([vol.root.files EXCEPT ![f] = [links |-> 1, data |-> Empty]], {}, {})
  /\ UNCHANGED <<disk, vol, open, doubt, shown, leaked, crashes, faults>>

\* embkfs_write_file up to the tree: the new data goes to a free block, the old
\* block stays marked until the commit.  Without a free block nothing happens.
Write(f, v) ==
  /\ Ready /\ Begins
  /\ vol.root.files[f] # Absent
  /\ vol.root.files[f].links = 1 \/ open[f] > 0
  /\ LET old == DataOf(vol.root.files[f])
         b == Min(vol.index)
     IN  \/ /\ v = Empty
            /\ txn' = Txn([vol.root.files EXCEPT ![f].data = Empty], old, {})
            /\ UNCHANGED <<disk, vol, faults>>
         \/ /\ v # Empty /\ vol.index # {}
            /\ disk' = WriteBlk(disk, b, v)
            /\ vol' = Take(vol, b)
            /\ txn' = Txn([vol.root.files EXCEPT ![f].data = [block |-> b, value |-> v]],
                          old, {b})
            /\ UNCHANGED faults
         \/ /\ v # Empty /\ vol.index # {}
            /\ Fails({WriteBlk(disk, b, v)})
            /\ vol' = ReadOnly(vol)
            /\ UNCHANGED txn
  /\ UNCHANGED <<open, doubt, shown, leaked, crashes>>

\* The end of an object nobody holds open: its data is freed with it.
Destroys(f) == Txn([vol.root.files EXCEPT ![f] = Absent], DataOf(vol.root.files[f]), {})

\* embkfs_unlink of the only name; an open file stays, with no link.
Unlink(f) ==
  /\ Ready /\ Begins
  /\ vol.root.files[f] # Absent /\ vol.root.files[f].links = 1
  /\ txn' = IF open[f] > 0 THEN Txn([vol.root.files EXCEPT ![f].links = 0], {}, {})
            ELSE Destroys(f)
  /\ UNCHANGED <<disk, vol, open, doubt, shown, leaked, crashes, faults>>

\* embkfs_object_get
Open(f) ==
  /\ vol.state = "up" /\ txn = Idle
  /\ vol.root.files[f] # Absent /\ vol.root.files[f].links = 1
  /\ open[f] < MaxOpen
  /\ open' = [open EXCEPT ![f] = @ + 1]
  /\ UNCHANGED <<disk, vol, txn, doubt, shown, leaked, crashes, faults>>

\* embkfs_object_put: the last close destroys an unlinked file.
Close(f) ==
  /\ vol.state = "up" /\ txn = Idle
  /\ open[f] > 0
  /\ open' = [open EXCEPT ![f] = @ - 1]
  /\ LET last == open[f] = 1 /\ f \in Orphans(vol.root) /\ ~vol.ro
     IN  /\ last => Begins
         /\ txn' = IF last THEN Destroys(f) ELSE txn
  /\ UNCHANGED <<disk, vol, doubt, shown, leaked, crashes, faults>>
-----------------------------------------------------------------------------
(* The commit. *)

\* embkfs_cow_apply and embkfs_txn_new_free: the new node is written to a free
\* block.  While there are snapshots nothing that is freed counts as free.
CowApply ==
  /\ txn.pc = "cow"
  /\ LET b == Min(vol.index)
         node == [block |-> b, gen |-> vol.gen + 1, files |-> txn.files]
         freed == txn.freed \cup {vol.root.block}
         net == Cardinality(txn.alloc) + 1 - (IF vol.snaps > 0 THEN 0 ELSE Cardinality(freed))
     IN  \/ vol.index = {} /\ Abort(vol) /\ UNCHANGED <<disk, faults>>
         \/ /\ vol.index # {}
            /\ disk' = WriteBlk(disk, b, node)
            /\ vol' = Take(vol, b)
            /\ txn' = [txn EXCEPT !.pc = "mirror", !.root = node, !.freed = freed,
                                  !.alloc = @ \cup {b}, !.free = (vol.free - net) % FreeMod]
            /\ UNCHANGED faults
         \/ /\ vol.index # {}
            /\ Fails({WriteBlk(disk, b, node)})
            /\ Abort(ReadOnly(vol))
  /\ UNCHANGED <<open, doubt, shown, leaked, crashes>>

\* embkfs_commit, the root's second copy in the last free block.  If it cannot be
\* written the commit goes on without one and the block stays marked.
StageMirror ==
  /\ txn.pc = "mirror"
  /\ LET m == Max(vol.index)
         staged == [txn EXCEPT !.pc = "barrier",
                               !.alloc = IF txn.rollback THEN @ ELSE @ \cup {m}]
     IN  \/ /\ txn.free = 0 \/ vol.index = {}
            /\ txn' = [txn EXCEPT !.pc = "barrier"]
            /\ UNCHANGED <<disk, vol, leaked, faults>>
         \/ /\ txn.free # 0 /\ vol.index # {}
            /\ vol' = Take(vol, m)
            /\ \/ /\ disk' = WriteBlk(disk, m, txn.root)
                  /\ txn' = [staged EXCEPT !.mirror = m, !.free = @ - 1]
                  /\ UNCHANGED <<leaked, faults>>
               \/ /\ Fails({WriteBlk(disk, m, txn.root)})
                  /\ txn' = staged
                  /\ leaked' = TRUE
  /\ UNCHANGED <<open, doubt, shown, crashes>>

\* Mutant: the barrier is missing.
Barrier_None ==
  /\ txn.pc = "barrier"
  /\ txn' = [txn EXCEPT !.pc = "super"]
  /\ UNCHANGED <<disk, vol, open, doubt, shown, leaked, crashes, faults>>

\* The first flush: the new tree is durable before a superblock names it.
Barrier ==
  /\ txn.pc = "barrier"
  /\ \/ /\ disk' = Flushed(disk)
        /\ shown' = <<Last(shown)>>
        /\ txn' = [txn EXCEPT !.pc = "super"]
        /\ UNCHANGED <<vol, faults>>
     \/ Fails({}) /\ Abort(ReadOnly(vol)) /\ UNCHANGED shown
  /\ UNCHANGED <<open, doubt, leaked, crashes>>

\* What a reader finds in a tree, checksums verified: links and data.
Seen(d, node) ==
  [f \in Files |->
     IF node.files[f] = Absent THEN Absent
     ELSE LET data == node.files[f].data
          IN  [links |-> node.files[f].links,
               data  |-> IF data = Empty THEN Empty
                         ELSE IF Reads(d, data.block) = data.value THEN data.value
                         ELSE Torn]]

Shown(d, node) == IF Reads(d, node.block) = node THEN Seen(d, node) ELSE Torn

\* embkfs_write_superblock: the primary, then the backup.
WriteSuperblock ==
  /\ txn.pc = "super"
  /\ LET sb == [gen |-> vol.gen + 1, root |-> txn.root, mirror |-> txn.mirror,
                free |-> txn.free]
         first == WriteSb(disk, "primary", sb)
         both == WriteSb(first, "backup", sb)
     IN  \/ /\ disk' = both
            /\ txn' = [txn EXCEPT !.pc = "seal"]
            /\ UNCHANGED <<vol, faults>>
         \/ Fails({first, both}) /\ Abort(ReadOnly(vol))
  /\ doubt' = IF disk' = disk THEN doubt ELSE {Seen(disk, txn.root)}
  /\ UNCHANGED <<open, shown, leaked, crashes>>

\* Mutant: the old mirror is not released.
Publish_KeepMirror(v) ==
  [v EXCEPT !.root = txn.root, !.gen = @ + 1, !.mirror = txn.mirror, !.free = txn.free]

\* The new root is the volume's; the old mirror is free at once.
Publish(v) ==
  LET old == {v.mirror} \cap (v.used \ {txn.mirror})
  IN  Release([v EXCEPT !.root = txn.root, !.gen = @ + 1, !.mirror = txn.mirror,
                        !.free = txn.free + Cardinality(old)], old)

\* Mutant: snapshots hold nothing back.
Reclaim_Always(v) == Release(v, txn.freed)

\* embkfs_txn_end(committed = true): nothing is reclaimed while there are snapshots.
Reclaim(v) == IF v.snaps = 0 THEN Release(v, txn.freed) ELSE v

\* The second flush seals the superblock before success is reported.
Seal ==
  /\ txn.pc = "seal"
  /\ \/ /\ disk' = Flushed(disk)
        /\ vol' = IF txn.rollback THEN Rebuilt(Publish(vol)) ELSE Reclaim(Publish(vol))
        /\ txn' = Idle
        /\ doubt' = {}
        /\ UNCHANGED faults
     \/ Fails({}) /\ Abort(ReadOnly(vol)) /\ UNCHANGED doubt
  /\ UNCHANGED <<open, shown, leaked, crashes>>
-----------------------------------------------------------------------------
(* Snapshots: a list of roots in a block of its own, written in place.      *)

Shows(n, tree) ==
  IF disk'.reg = disk.reg THEN shown ELSE Append(shown, [Last(shown) EXCEPT ![n] = tree])

\* embkfs_snapshot_create_impl
SnapshotCreate(n) ==
  /\ Ready
  /\ n \notin Listed /\ Len(disk.reg) < MaxPending
  /\ LET reg == [Registry EXCEPT ![n] = vol.root]
     IN  \/ /\ disk' = WriteReg(disk, reg)
            /\ vol' = [vol EXCEPT !.snaps = Cardinality(Listed) + 1]
            /\ UNCHANGED faults
         \/ Fails({WriteReg(disk, reg)}) /\ vol' = ReadOnly(vol)
  /\ shown' = Shows(n, Seen(disk, vol.root))
  /\ UNCHANGED <<txn, open, doubt, leaked, crashes>>

\* embkfs_snapshot_delete_impl: with the last one, what was held back is freed.
\* A volume without an allocator has no bitmap to rebuild: the kernel faults.
SnapshotDelete(n) ==
  /\ Ready
  /\ n \in Listed /\ Len(disk.reg) < MaxPending
  /\ LET reg == [Registry EXCEPT ![n] = Absent]
         left == Cardinality(Listed) - 1
         fewer == [vol EXCEPT !.snaps = left]
         live == BlocksOf(vol.root) \cup ({vol.mirror} \ {NoBlock})
     IN  \/ /\ disk' = WriteReg(disk, reg)
            /\ vol' = IF left > 0 THEN fewer
                      ELSE IF vol.alloc THEN Rebuilt([fewer EXCEPT !.used = live])
                      ELSE [vol EXCEPT !.state = "halted"]
            /\ UNCHANGED faults
         \/ Fails({WriteReg(disk, reg)}) /\ vol' = ReadOnly(vol)
  /\ shown' = Shows(n, Absent)
  /\ UNCHANGED <<txn, open, doubt, leaked, crashes>>

\* embkfs_snapshot_rollback_impl: the bitmap is that of the old tree before the
\* commit starts, the index only after it.
Rollback(n) ==
  /\ Ready /\ Begins
  /\ n \in Listed
  /\ LET target == Registry[n]
         marks == Marks(target, vol.mirror)
     IN  \/ /\ vol.alloc
            /\ vol' = [vol EXCEPT !.used = marks, !.snaps = Cardinality(Listed)]
            /\ txn' = [Txn(target.files, {}, {}) EXCEPT
                         !.pc = "mirror", !.rollback = TRUE, !.root = target,
                         !.free = NBlocks - Cardinality(marks)]
         \/ /\ ~vol.alloc
            /\ vol' = [vol EXCEPT !.state = "halted"]
            /\ UNCHANGED txn
  /\ UNCHANGED <<disk, open, doubt, shown, leaked, crashes, faults>>
-----------------------------------------------------------------------------
(* Power loss and mount. *)

\* A superblock is one sector: it is never torn.  A torn registry fails its
\* checksum and counts as empty.  A block that neither names is read by nobody
\* before it is written again, and is as good as torn.
Crash ==
  /\ crashes > 0
  /\ vol.state # "down"
  /\ crashes' = crashes - 1
  /\ \E sb \in [Copies -> UNION {ToSet(disk.sb[c]) : c \in Copies}], r \in 0..Len(disk.reg) :
       LET reg == IF r = 0 THEN NoSnapshots ELSE disk.reg[r]
           nodes == {sb[c].root : c \in Copies} \cup ({reg[n] : n \in Names} \ {Absent})
           named == UNION {BlocksOf(node) : node \in nodes} \cup {sb[c].mirror : c \in Copies}
       IN  /\ \A c \in Copies : sb[c] \in ToSet(disk.sb[c])
           /\ r = 0 => Len(disk.reg) > 1
           /\ \E left \in [Dirty \cap named -> UNION {LeftOf(b) : b \in Dirty}] :
                LET found == [blk |-> [b \in Blocks |-> <<IF b \in DOMAIN left THEN left[b]
                                                          ELSE IF b \in named THEN Reads(disk, b)
                                                          ELSE Torn>>],
                              sb  |-> [c \in Copies |-> <<sb[c]>>],
                              reg |-> <<reg>>]
                IN  /\ \A b \in DOMAIN left : left[b] \in LeftOf(b)
                    /\ disk' = found
                    /\ shown' = <<[n \in Names |->
                         IF reg[n] = Absent THEN Absent
                         ELSE IF \A i \in r..Len(disk.reg) : disk.reg[i][n] = reg[n]
                              THEN shown[r][n]
                         ELSE Shown(found, reg[n])]>>
  /\ vol' = Down
  /\ txn' = Idle
  /\ open' = [f \in Files |-> 0]
  /\ doubt' = {}
  /\ UNCHANGED <<leaked, faults>>

\* embkfs_mount up to the sweep: the other superblock is repaired if it differs,
\* or the repair fails, which stops nothing; and a walk that fails leaves a
\* mounted volume without an allocator.
Mount ==
  /\ vol.state = "down"
  /\ Readable(Chosen.root, Chosen.root, Chosen.mirror)
  /\ LET sb == Chosen
         works == Walks(sb.root, sb.mirror)
         marks == IF works THEN Marks(sb.root, sb.mirror) ELSE Blocks
     IN  /\ vol' = [state |-> "mounting", ro |-> FALSE, root |-> sb.root, gen |-> sb.gen,
                    mirror |-> sb.mirror, free |-> sb.free, alloc |-> works,
                    used |-> marks, index |-> Blocks \ marks,
                    snaps |-> IF works THEN Cardinality(Listed) ELSE 0]
         /\ \/ disk' = Healed(sb) /\ UNCHANGED faults
            \/ disk # Healed(sb) /\ Fails({Healed(sb)})
  /\ leaked' = FALSE
  /\ UNCHANGED <<txn, open, doubt, shown, crashes>>

\* embkfs_mount_orphan_sweep: one object after the other, then the volume is up.
Sweep ==
  /\ vol.state = "mounting" /\ txn = Idle
  /\ \/ /\ Orphans(vol.root) = {}
        /\ vol' = [vol EXCEPT !.state = "up"]
        /\ UNCHANGED txn
     \/ /\ Begins
        /\ \E f \in Orphans(vol.root) : txn' = Destroys(f)
        /\ UNCHANGED vol
  /\ UNCHANGED <<disk, open, doubt, shown, leaked, crashes, faults>>

Next ==
  \/ \E f \in Files : Create(f) \/ Unlink(f) \/ Open(f) \/ Close(f)
  \/ \E f \in Files, v \in Values \cup {Empty} : Write(f, v)
  \/ CowApply \/ StageMirror \/ Barrier \/ WriteSuperblock \/ Seal
  \/ \E n \in Names : SnapshotCreate(n) \/ SnapshotDelete(n) \/ Rollback(n)
  \/ Crash \/ Mount \/ Sweep

Spec == Init /\ [][Next]_vars
-----------------------------------------------------------------------------
(* Properties. *)

\* What the volume holds now: through the mounted root, or the one a mount finds.
Tree ==
  LET at == IF vol.state = "down" THEN Chosen ELSE vol
  IN  IF Readable(at.root, at.root, at.mirror) THEN Seen(disk, at.root) ELSE Torn

Volume == INSTANCE AtomicVolume WITH
  Lost <- Torn,
  tree <- Tree,
  doubt <- doubt,
  regs <- shown,
  open <- {f \in Files : open[f] > 0}

\* Whatever a power loss, a failed write or a full volume interrupts, the files
\* are those left by a whole number of operations, an operation embkfs_commit
\* reported done survives, and a snapshot keeps the tree it was taken of: the two
\* flushes, the two superblocks and the reclaiming of blocks implement AtomicVolume.
ImplementsAtomicVolume == Volume!Spec

\* What is named stays intact: on a mounted volume both copies of the root are
\* whole, and each snapshot of the registry shows the tree it was taken of, or, if
\* a power loss undid its deletion, what the loss had left of it.
NamedIsIntact ==
  vol.state # "down" =>
    /\ Reads(disk, vol.root.block) = vol.root
    /\ vol.mirror # NoBlock => Reads(disk, vol.mirror) = vol.root
    /\ \A n \in Listed : Shown(disk, Registry[n]) = Last(shown)[n]

\* Blocks somebody may still need: of the live tree, the snapshots, the mirror and
\* the operation under way.
Needed ==
  Marks(vol.root, vol.mirror) \cup (IF txn = Idle THEN {} ELSE txn.alloc)

\* The allocator never offers a block that is in use, although transactions,
\* rollback and snapshots update bitmap and index at different times; and with
\* no snapshot left to hold blocks back, every unused block is on offer again.
AllocatorExact ==
  vol.state \in {"mounting", "up"} /\ vol.alloc =>
    /\ vol.index \cap (Needed \cup vol.used) = {}
    /\ txn = Idle /\ ~vol.ro /\ Listed = {} /\ ~leaked =>
         /\ vol.used = Needed
         /\ vol.index = Blocks \ Needed
=============================================================================
