# EmbLinkOs: TLA+ specifications

Specifications of the concurrent and the persistent core of EmbLinkOs, checked
with TLC on small instances and, for the parts listed below, proved with TLAPS
for every instance. Line numbers refer to the sources under `src/`.

## The system

EmbLinkOs is an operating system in C. One lock, `g_sched_lock`, guards all
process and thread state, every wait queue, the pipes and the channels; it is
held across the context switch. Whatever can sleep follows one pattern: test
under the lock, block, re-test after the wake-up. Around that core:

| part | state | operations | what is hard about it |
|---|---|---|---|
| sleeping locks (`kernel/process/ksync.c`) | count or owner, a wait queue | wait, post, lock, unlock, try | a permit stolen from a woken waiter, a cancelled waiter that swallows a wake-up |
| processes and threads (`kernel/process/process.c`) | two slot tables, parent links, zombie lists, per-core reclamation slots | spawn, thread create, exit, kill, cancel, wait, join, stop, resume, schedule | a core still runs on the stack of what is being freed; slots are reused under stale parent links |
| pipes (`kernel/ipc/pipe.c`, `fs/fd.c`, `ipc/handle.c`) | a ring, two reference counts, descriptors and handles in each process | create, read, write, dup, close, install, spawn inheritance, exit | a close while a sibling sleeps in a read; counts held by loans that no table shows |
| futexes (`kernel/process/futex.c`) | hashed wait queues keyed by physical address | wait, wake | the key is computed before any lock is taken |
| user-space locks (`user/lib/embk.h`) | two words of user memory | lock, unlock, wait, signal, broadcast | lost wake-ups between user-space tests and the sleep |
| updates (`kernel/update`, `boot/uefi/update_boot.c`) | two journal records, two system slots | begin, write, commit, abort, trial boot, confirm, reject, roll back | power failures, torn records, lost write caches |
| channels, endpoints, surfaces (`kernel/ipc`, `kernel/gfx/surface.c`) | message queues with handles in transit, accept queues, reference counts | send, receive, listen, connect, accept, close, spawn inheritance | references that live only in a queued message, a server that dies under a connect |
| EMBKFS (`kernel/fs/embkfs`) | trees, two superblocks, a root mirror, a snapshot list, an in-memory allocator | create, write, unlink, commit, snapshot, rollback, mount | a power loss between any two writes, snapshots that share blocks with the live tree |
| deferred work (`kernel/kworker`) | a ring of 256 jobs | defer, run | a full ring drops the job |
| other file systems, VFS (`kernel/fs`) | mounts, vnodes, on-disk formats | the VFS calls | unmount against open files |
| memory (`kernel/mm`) | frames, objects, mappings, swap slots | fault, reclaim, map, unmap, shoot-down | a page that moves while somebody remembers its frame |
| network (`kernel/net`) | connections, timers | TCP, UDP, DHCP, DNS | loss, reordering, retransmission |
| services and programs (`user`, `shell`, `ui`) | per program | ordinary programs on the calls above | supervision and restart |

`PROJECT.json` lists every part with its state of modelling, and under "hazards"
what is hard to test in the parts modelled so far, each with the line where it
bites and the properties that would catch it.

## Modules

| module | models | checked by |
|---|---|---|
| `Ksync` | semaphore and mutex, with the wait queues, and the cancels, stops and kills their waiters meet | `MCKsync`, `Ksync.cfg`; `KsyncProofs` |
| `UpdateProtocol` | the journal state and its transitions (`kernel/update/protocol.c`) as guard/result pairs | used by the next two |
| `UpdateJournal` | the abstract journal: one durable state that changes by whole transitions | as the specification `UpdateSystem` implements; `UpdateSystemProofs` |
| `UpdateSystem` | boot manager, kernel service, disk and power; implements `UpdateJournal` | `MCUpdate`, `UpdateSystem.cfg`; `UpdateSystemProofs` |
| `Lifecycle` | processes, threads and `schedule_locked` on several cores | `MCLifecycle`, four `Lifecycle*.cfg`; `LifecycleInv`, `LifecycleStepProofs`, `LifecycleProofs` |
| `ByteStream` | the abstract pipe: a bounded FIFO with two ends | as the specification `Pipe` implements |
| `Pipe` | ring, counts, descriptors, handles, spawn, exit | `PipeInv`, `PipeStepProofs`, `PipeProofs` |
| `PipeStream` | how a slot of `Pipe` maps to `ByteStream` | `MCPipe`, `Pipe.cfg` (with all of `Pipe`); `PipeStreamProofs` |
| `Futex` | the kernel half of the futex call, with paging, interrupts and kills | used by the next |
| `UserSync` | `embk_mutex`, `embk_cond` and the bounded queue of `user/tests/lockdemo`, composed with `Futex` | `MCUserSync`, `UserSync.cfg`, `FutexPaged.cfg`, `FutexKilled.cfg`; `UserSyncProofs` |
| `Channel` | channels, listening endpoints, handle tables and the reference counts of surfaces | `MCChannel`, `Channel.cfg` |
| `AtomicVolume` | the abstract volume: files that change by whole operations, and a weaker list of snapshots | as the specification `Embkfs` implements |
| `Embkfs` | allocator, transactions, two-flush commit, snapshots, mount, on a device with a volatile cache | `MCEmbkfs`, `Embkfs.cfg` |

Conventions. What the code does under one hold of `g_sched_lock` is one action;
where it lets go in the middle, there are two. A wait queue is the set of its
waiters: the code's queue is LIFO, the models wake any member, so what holds
here holds for the code's order. An operator whose comment starts with "Mutant:"
is the faulty variant of the definition after it; it is not part of the
specification and serves to show that a property can fail.

### Ksync

State: `count`, `locked`, `owner` of the two objects, `waitq[t]` (the queue a
blocked thread is on), `pc[t]` (the acquire loop it is in), `intr[t]` and the
sticky `cancelled[p]`. `SemWait` and `MutexLock` enter a loop; one turn of it
(`SemAcquireStep`, `MutexAcquireStep`) is one action, because the lock is held
from the test to the context switch. `SemPost`, `MutexUnlock`, the two try
operations and `ProcessCancel` are one action each. A thread that locks a mutex
it owns stops the machine (`halted`), as the code does. `posts`, `permits` and
`critical` are history variables.

`suspended` holds the stopped threads: no scheduling policy dispatches them
(`sched_rr.c:81`, `sched_deadline.c:138`), so none of their steps is enabled
(`Runs`). `SetProcessSuspended` and `SetThreadSuspended` stop and resume a thread
wherever it is, asleep in an acquire loop included; a thread on a core runs on to
the next `schedule()`, and is in `suspended` from there on. A kill
(`EndEveryThread`) clears the stop, a cancel does not. The wake-up invariants hold
whoever is stopped. The two liveness properties have to name the stop:
`CancelEndsWait` excepts a thread that is itself stopped, `MutexHandedOn` a mutex
one of whose awake takers is stopped, because `mutex_unlock` wakes one waiter and
`wait_queue_wake_one` does not look at `suspended` (see Observations).

### UpdateProtocol, UpdateJournal, UpdateSystem

A slot descriptor is an image (a release and a build); a journal record decodes
to the state that was encoded or to nothing (`Torn`). `rec` holds the two
records, `disk` the two halves of the two slots, `dirty` what a power failure
may still lose, `boot` and `u` the memory of the boot manager and the service.
Every service call holds `u.lock` throughout and is one action. A journal write
that fails leaves the record old, new or torn; a power failure in the middle of
one is that failure followed by `PowerFail`. With `ReadFaults`, a record may be
unreadable at boot: `update_boot.c:112` treats it as absent.

### Lifecycle

`tstate`, `tproc`, `tcpu`, `waitq`, `joinable`, `killed`, `susp` are the fields
of `struct thread`; `pid`, `parent`, `ppid`, `tlist`, `live`, `zombies`, `pcpu`,
`cancelled` those of `struct process`; `cur`, `pendT`, `pendP` those of
`struct percpu`. `lock`, `at` and `dying` are `g_sched_lock` and the position
inside `schedule_locked`, which is three actions under one hold: `Reap` frees
what this core left the last time, `Zombie` disposes of the current thread if it
is dead or killed, `Switch` picks and switches. `pc`, `want`, `peer`, `nproc`
say where in a system call a thread is, because creation gives the lock up
between reserving a process, reserving a thread, filling it in and publishing it.

### ByteStream, Pipe, PipeStream

`buf`, `head`, `tail`, `count`, `refs` are `struct pipe`. An end is held by a
descriptor (`fds`), by an object handle (`handles`), or by a thread (`pc`,
`end`): a loan during a read or write, the snapshot a close still has to tear
down, the ends `pipe_create` has not given handles to. A byte is the thread that
wrote it. `Stream(p)`, in `PipeStream`, maps a slot to `ByteStream`: the queue is the content of
the ring, an end is open while its count is not zero.

### Futex, UserSync

`mem` is what the process sees, `frame` where its page is, `at[t]` and `call[t]`
where a thread is inside the call. `FutexKey` is the unlocked look-up;
`FutexWait` and `FutexWake` run under the locks. `UserSync` adds the program:
`pc[t]` walks through `embk_mutex_lock` (one atomic instruction per action),
the test of the queue, `embk_cond_wait` or the update, `embk_mutex_unlock` and
`embk_cond_broadcast`. Locals that are dead are reset, which saves states and
changes nothing.

### Channel

`handles[p]` is `proc->obj_handles`. `k` is what the kernel holds under
`g_sched_lock`: for every channel end its inbox (`inbox`) and `peer_closed`
(`hungup`), `refcount` (`refs`), the counts of surfaces (`srefs`), the endpoints
with `unlinked` and `accept_q`, the one published node (`node`), and which wait
queue a process sleeps on (`asleep`). A message is the sequence of surfaces it
carries. `pc`, `arg`, `carry` say where in a call a process is and what the call
itself holds: `channel_recv` installs handles after it let go of the lock
(`Deliver`), `endpoint_connect` takes the lock twice (`ConnectFind`,
`ConnectMake`, `ConnectQueue`), closing an endpoint takes it once per queued
connection (`CloseEp`, `CloseDrains`, `CloseDrops`), while a reap does all of it
under one hold (`Reap`). The pointer `connect` found may outlive its endpoint:
`unlinked` and `acceptq` are then read as the dead object or the one in its place
has them. `lost` is a history variable: references the code throws away when a
spawn or a listen fails half-way.

`RefsExact` counts holders over all places a reference can be: handles, queued
messages, accept queues, calls under way, and `lost`. `PeerKnown` is what a user
of a channel relies on: an end whose peer is nowhere has been told. References in
`lost` count as held in both, so neither says anything of what such a failed spawn
or listen leaves behind (see Observations).

### AtomicVolume, Embkfs

`disk` keeps for every block, superblock copy and the snapshot list the versions
written since the last flush; a read sees the last, a power loss (`Crash`) leaves
any of them or, for a block or the list, a torn one. A superblock fits a sector
and is never torn. `vol` is `struct embkfs_volume`: root, generation, mirror, free
count, the bitmap (`used`), the free-extent index (`index`), `snapshot_count`
(`snaps`), `read_only` (`ro`). `embkfs_lock` is held for a whole operation, so one
operation is under way at a time (`txn`), in the steps a power loss can tell apart:

| step | code |
|---|---|
| `Create`, `Write`, `Unlink`, `Close` of an unlinked file | data written to free blocks, what will be freed noted |
| `CowApply` | the new node, `embkfs_cow_apply` |
| `StageMirror` | the root's second copy, at the far end |
| `Barrier` | first flush |
| `WriteSuperblock` | primary, then backup |
| `Seal` | second flush, then root, mirror, bitmap and index in memory |

Each write or flush may fail; a write that fails may have reached the device or
not. The volume is then read-only until the next mount, except after the mirror's
write and the mount's repair of a superblock, which the code carries on without. `SnapshotCreate` and `SnapshotDelete` write the
list in place, `Rollback` commits a snapshot's root. `Mount` picks the newer
superblock, repairs the other one, marks what root, mirror and snapshots reach and
`Sweep` destroys objects without a name.

The tree is one node whose pointer is the node itself: following it succeeds if
the block still holds exactly that node, which is what checksum, generation and
block number establish in the code. `doubt`, `shown` and `leaked` are history
variables: the tree of a commit between its superblock and its seal, the tree each
snapshot showed when the list was written, and whether the block of a mirror that
could not be written is still marked.

`AtomicVolume` says what is promised: `Issue` and `Settle` an operation, a
`PowerLoss` keeps the tree or the one in doubt, `Flush` makes the snapshot list
durable. The refinement maps `tree` to what reading through the mounted root (or
the one a mount would choose) returns.

## Runs

| run | instance | shows | states |
|---|---|---|---|
| `ksync` | 3 threads of 2 processes, 2 posts; cancels, kills, stops and resumes at every point | exclusion, no lost wake-up, conserved permits; cancelled waiters return and a released mutex is taken, unless a stop is in the way | 339 000 |
| `update` | 2 slots, 4 images, 10 revisions, every fault at every step | what the journal names is intact, the running slot is never written, the service's state is the next boot's; as long as both records are readable, one trial boot and `UpdateJournal` | 497 000 |
| `life_procs` | 2 cores, 3 threads, 3 process slots, 4 pids | no two cores on one thread, nothing in use is freed, no exit is lost or delivered to a stranger | 434 000 |
| `life_threads` | 2 cores, 3 threads, 2 process slots, allocation failures | the same with threads; each slot freed once, the live count exact, no joiner or waiter forgotten, no sleeper in a cancelled process | 546 000 |
| `life_jobs` | 2 cores, 2 threads, 2 process slots, ^Z, suspend, resume, kill | ^Z brings the waiting parent back; a killed thread dies unless it is stopped again; the parent's wait returns | 28 000 |
| `life_late_thread` | 2 cores, 3 threads | violated: see Findings | |
| `pipe` | a shell and a child of two threads, a 2-byte ring, 2 descriptors, writes of 2 and 3 bytes | exact counts, no lost wake-up, end of file is final, refines `ByteStream` | 115 000 |
| `futex` | 2 producers, 1 consumer, 1 place, both words in one bucket, 1 interrupt | exclusion, no lost wake-up of mutex or condition, items conserved, the program ends | 141 000 |
| `futex_paged`, `futex_killed` | the same with paging, with a kill | violated: see Findings | |
| `channel` | a server, a client and a child; 2 channels, 1 surface, 1 endpoint, 2 handles a process and 2 a message, queues of 1 | exact counts of ends and surfaces, no end with an unannounced missing peer, no lost wake-up | 543 000 |
| `embkfs` | 1 file, 2 values, 1 snapshot name, 7 blocks, 4 commits, 1 power loss, 1 device error | refines `AtomicVolume`; what root, mirror and snapshots name is intact; the allocator offers no block in use and forgets none | 554 000 |

Bounds, and why they are enough. `MaxPosts`: two posts suffice for a permit to
be stolen and posted again. `MaxRevision`: ten journal writes are two full
updates with a rejection, and reach the refusal at the last revision.
`MaxPid = 4` on three process slots forces a slot to be reused while a living
process still names its old occupant as parent. `Calls` selects the system calls
of a workload, so that each run explores one kind of interplay in full; between
them every action is taken. A ring of two bytes wraps around, is full, and meets
a write that never fits (3). `MaxCalls = 3` calls in the child give a read, a
write and a close in every order, and calls that find the pipe slot reused
(`MaxPipes = 2` on one slot). `HandleRaces = FALSE` excludes programs that close
a handle one of their own calls is using (see Observations). `MaxSeq = 9`
is more broadcasts than the program makes, so the number does not wrap. In
`channel`, two handles a process and queues of one make every table and queue full
in some order, a message of two handles is copied and moved in every combination
and finds room for both, one or none, and four calls of the server, three
of the client and one of the child are enough for listen, connect, accept, a send
that blocks and a spawn. In `embkfs`, `MaxGen = 5` is four commits after the format,
enough for create, write, overwrite and unlink or rollback with a snapshot in
between; seven blocks run out while a snapshot holds blocks back; `MaxPending = 2`
is one unflushed change of the snapshot list. Larger instances were checked once
with the same result (two power losses with one fault, 4.4 million states; three
versions of the list; six blocks). Symmetry is used where there is no liveness
property. `Lifecycle`, `Pipe`, `UserSync` and `Channel` state a type invariant that
no run lists.

Deadlock is checked except where a program may stop: clients of a semaphore
nobody posts, a terminated or killed program, programs that have made their calls
(`channel`), a volume nobody uses or at its last generation (`embkfs`).

Fairness. `Ksync`: a READY thread that is not stopped takes another turn (the
policy ages priorities, `sched_rr.c`); nothing obliges a client to call anything,
or anybody to resume a stopped thread. The fairness is weak, and a stopped
thread's step is not enabled: a thread that is stopped again and again is promised
nothing.
`Lifecycle`: a core that spins for the lock gets it, the policy starves no READY
thread, a dispatched thread gets somewhere, the rest of an interrupt runs.
Strong fairness is needed because the lock and the cores are contended.
`UserSync`: every thread that can run is scheduled, and none is stopped; the
spurious wake-ups are not fair. `Channel` and `Embkfs` assume none: their properties are safety.

## Proofs

| theorem | says, for every value of the constants |
|---|---|
| `KsyncProofs!TypeCorrect` | the types hold; the count never goes below zero |
| `KsyncProofs!MutexExcludes` | one holder, and it is the owner, however many stray unlocks |
| `KsyncProofs!PermitsAreConserved` | free and handed-out permits are the initial and posted ones |
| `KsyncProofs!MutexNeverLosesWakeup`, `SemNeverLosesWakeup` | sleepers of a free mutex, or of a free permit, have an awake thread on its way |
| `UpdateSystemProofs!JournalAlwaysValid` | of the journal alone (`JournalSpec`): every reachable state passes `update_state_valid` |
| `UpdateSystemProofs!JournalRemembersReleases`, `JournalConfirmsTried` | of the journal alone: releases never go back; only the tried slot becomes the confirmed one |
| `UpdateSystemProofs!SystemTypeCorrect` | the types of disk, boot manager and service hold; no revision wraps |
| `UpdateSystemProofs!JournalNamesIntactSlots` | the record the boot manager selects names a confirmed slot whose image is whole |
| `UpdateSystemProofs!RunningSlotNeverWritten` | no step writes the slot the running kernel came from |
| `UpdateSystemProofs!TrialStartsOnce` | a pending image is started on trial at most once, unless a record was misread |
| `UpdateSystemProofs!ServiceSeesJournal` | a usable service computes from the state the next boot selects |
| `UpdateSystemProofs!JournalRefined` | the two records on the disk implement `UpdateJournal`, as long as both can be read |
| `LifecycleProofs!LifecycleTypeCorrect` | the types hold |
| `LifecycleProofs!NoSharedThread` | no two cores are on one thread |
| `LifecycleProofs!InUseIsKept` | the thread a core is on, and its process, are neither freed nor pending |
| `LifecycleProofs!CountNeverDrifts` | `live_thread_count` is the length of the list |
| `LifecycleProofs!ReclaimedByOne` | what is pending on a core is dead, off every list and pending there alone |
| `LifecycleProofs!ListedAreChildren` | a zombie list holds children of this very process, not of an earlier user of the slot |
| `LifecycleProofs!NoExitIsLost` | a finished process with a living parent is on the parent's list |
| `LifecycleProofs!NoSleeperIsForgotten` | nobody sleeps in `process_wait` or `thread_join` past the death it waits for |
| `LifecycleProofs!KillWakesEverybody` | nobody of a cancelled process sleeps there, or goes to sleep there later |
| `PipeProofs!CountsAreExact` | the two counts of a pipe are the references that exist (`~HandleRaces`) |
| `PipeProofs!NobodyOversleeps` | a thread sleeps on a pipe only while it has a reason to (`~HandleRaces`) |
| `PipeProofs!HangUpIsFinal` | an end whose count is zero stays closed until the slot is made anew (`~HandleRaces`) |
| `PipeStreamProofs!StreamRefined` | the ring implements `ByteStream`, slot by slot (`~HandleRaces`) |
| `UserSyncProofs!MutexExcludes` | the futex mutex excludes |
| `UserSyncProofs!MutexLosesNoWake`, `CondLosesNoWake` | neither the mutex nor the condition loses a wake-up while the page stays in its frame |
| `UserSyncProofs!ItemsNeverLost` | producers and consumers neither lose nor duplicate an item |

Assumptions are the named ASSUMEs of the component modules: sizes are natural
numbers, sets of threads finite, the null values are no members. Nothing is
assumed about the number of cores, threads, processes, descriptors, pipes, posts,
images, revisions, items or buckets. The four theorems on `Pipe` have
`~HandleRaces` as a hypothesis: with two threads racing on one handle the counts
are wrong in the code (see Observations).

*Ksync.* `SemWakePending` is a count: while somebody sleeps, there are at most as
many free permits as awake threads in the loop. It is not inductive alone: a
woken waiter must be in the loop it was woken for, which is `QueueMatchesLoop`.
`WakeInv` is that, the types and the two wake-up invariants. The counting steps
are lemmas on the cardinality of `Testing`.

*Update.* One lemma per transition says that it keeps `States` and `Valid`; the
action properties of the journal follow from the fields each transition changes.
For the machine, that the *selected* record names whole slots is not inductive: a
read that fails, or the roll-back of a trial, makes the boot manager act on
another record. `LiveIntact` says it of every live record, the newest and an older
one that the boot manager would still change; `TargetSpare` says that what is
being written or not yet flushed is used by no live record; `BootOK`, `ServiceOK`,
`DirtyOK` and `TriesOK` say what boot manager and service remember of the journal.
The refinement then has one step per action: a journal write is a transition,
everything else leaves the selected state alone.

*Lifecycle.* `IInv` of `LifecycleInv` has one formula per data structure, and they
depend on one another. A pending thread or process belongs to the core it is
pending on because a dead thread is linked or current (`CurInv`, `SlotInv`,
`PendInv`); that holds because whoever makes a process or a thread owns it until
it is published (`MakeInv`); a count is the size of a list because only the end of
a thread and its publication change either (`ListInv`, `CountInv`); a zombie is
its parent's because a pid is never given twice (`PidInv`, `FamInv`); a sleeper in
`process_wait` or `thread_join` has a live target because a death wakes the queue
under the lock under which the sleeper looked (`WaitInv`, `SleepInv`). An action
is reduced to the shape of its step (`WakeStep`, `DieStep`, `FreeStep`, `EndStep`,
...), and one lemma per shape, with one step per formula of `IInv`, shows that it
is kept: many actions wake, few end a thread. The proof covers every workload
`Calls`.

*Pipe.* The counts are exact because of what a thread in the middle of a call
holds: `IInv` is the types, `RefsExact`, `Calling` (which references each point of
a call stands for) and `SleepIsJustified`. The step lemmas count references added
and taken. `StreamInv`, of head, tail and count, is enough for the refinement:
head is tail plus count modulo the size, so a wrapped copy into the ring appends
to the queue and a copy out takes its front.

*UserSync.* `IInv` consists of the types, `CallsMatch` (what `call[t]` holds at
each point of the system call, and which program point it was made from),
exclusion with `FreeMeansFree` (a word of 0 means that nobody is inside), and
the two wake-up invariants. `CallsMatch` carries the argument: a sleeper on the
mutex compared with 2 and is back at the exchange when it wakes, so it will set
2 again; a waker of the condition wakes all. One lemma per action shows that
`IInv` is kept. The interesting case is `FutexWake` on the mutex: it takes one
sleeper, and that sleeper is the awake thread on the contended path that the
remaining ones need.

Only model-checked: all liveness (`CancelEndsWait`, `MutexHandedOn`, `KilledDies`,
`KilledIsCollected`, `EventuallyDone`); `Channel`, whose counts are sums over queued
messages (an induction over sequences); `Embkfs` with its refinement of
`AtomicVolume`; and `StopReachesWaiter` of `Lifecycle`. That one is about one
workload: it fails when a suspending parent has a second thread (see Observations),
so it is no consequence of an invariant that holds for every workload. The three theorems on the journal
alone carry over to the machine by `JournalRefined`, as long as no record is
misread.

## Findings

- `life_late_thread`: a thread linked after its process was ended is not ended
  with it (`process.c:459` against `process.c:1420`).
- `futex_paged`: the futex key is a physical address; a page that is swapped out
  under a sleeper returns in another frame and the wake-up misses
  (`futex.c:88`, `mm/vm_object.c:996`).
- `futex_killed`: `futex_wait` looks at `cancelled` only after it was woken, so a
  kill that lands between entering the call and blocking is not noticed
  (`futex.c:119` against `process.c:1477`).

## Observations

Behaviour of the code met while modelling that no run is about.

- A finished child nobody waited for is lost when its parent is reclaimed:
  `process_reap_slot` (`process.c:545`) never walks the parent's zombie list, so
  the slot is never used again. `NeverUnreclaimable` in `Lifecycle` states the
  opposite and fails; `docs/architecture/process-and-scheduling.md:638` calls it
  fixed.
- `sys_suspend` (`syscalls.c:1120`) wakes nobody, so a sibling already asleep in
  `process_wait` stays asleep. `StopReachesWaiter` is about ^Z; in `life_jobs`
  a suspending parent has one thread.
- A stop that follows a kill freezes the killed thread again
  (`set_process_suspended`, `process.c:2220`), hence the exception in `KilledDies`.
- `mutex_unlock` may spend its one wake-up on a stopped thread (`ksync.c:147`;
  `set_process_suspended` stops threads inside kernel locks as well). The mutex is
  then free, and the other waiters sleep until the stopped thread is resumed or
  killed or a third one locks and unlocks the mutex. A thread that is stopped while
  it holds the mutex keeps it. So a wait for a kernel lock is not bounded, as
  `process.c:1478-1479` has it, while somebody is stopped. Without its exception
  `MutexHandedOn` fails, and TLC shows the first of these.
- Object handles are released when a process is reaped (`process.c:551`), not
  when it exits: a zombie that holds the write handle of a pipe keeps its readers
  from end of file until somebody waits for it.
- `fd_install_obj` and the spawn action that installs a handle look the handle up
  without a lock. With `HandleRaces = TRUE` and a two-threaded shell `RefsExact`
  fails in `Pipe`: the object can be gone when its reference is taken.
- `futex_key` fails when the page leaves between `access_ok` and the page-table
  walk; `embk_mutex_unlock` ignores the result, so that wake-up is lost as well.
- A journal record that cannot be read at boot counts as absent; the older record
  still offers the attempt, and the trial is started a second time
  (`boot/uefi/update_boot.c:112`; `docs/UPDATES.md:8` promises one). Hence the
  exception in `OneTrialBoot`: without it TLC finds the second start.
- A failed `persist` whose record reached the disk all the same makes the
  message of `service.c:227` ("The next restart will restore the previous
  system.") untrue.
- Closing a channel end wakes the queues of the other end (`channel.c:295-296`). A
  sender that waits for room in the closing end's own inbox sleeps on that end's
  `send_wait` and is not woken, although `channel.c:164` says "block until the peer
  inbox has room (or peer dies)". `SleepIsJustified` has an exception for it.
- `channel_send` checks the handles of a message before it clears any of them
  (`channel.c:143-153`, `185-200`), and does not look whether one is there twice. A
  handle that is moved twice in one message gives it two references on one count,
  against invariant A6 (`channel.c:11`). With `MovesTwice = TRUE` TLC finds `RefsExact`
  violated by such a send; the `channel` run excludes it, and only it: a handle that
  is copied twice, or copied and moved, keeps its count exact.
- A spawn that fails after an inherited channel end or surface was installed throws
  the child's table away (`process.c:2780`), and `endpoint_listen` with a full table
  frees the endpoint without looking at its queue (`endpoint.c:83-88`): the
  references are never given back and the peers never told.
- `endpoint_connect` uses the endpoint it found after the lock was released; the
  endpoint may be freed by then (`endpoint.c:147-179` and `255`).
- A finished process holds its channel ends until it is reaped: a client can still
  connect to a zombie's endpoint and send to it.
- The snapshot list is neither copied nor flushed (`embkfs.c:1005`). After the last
  snapshot is deleted its blocks are free at once; a power loss then can bring the
  old list back while the blocks hold something else. A mount that finds an
  overwritten node leaves the volume without an allocator and `finish_mount` goes on
  (`embkfs.c:8029`); the deletion of that snapshot or a rollback then clears a bitmap
  that is not there (`embkfs.c:7912`). Overwritten data is found only by reading it,
  also after a rollback to such a snapshot. The comment at `embkfs.c:1003` considers
  a torn write only.
- The free count in the superblock leaves out the old mirror that the commit frees
  right after (`embkfs.c:2714` and `2751`), so a mount after a commit that replaced a
  mirror finds one block more than it says ("-- MISMATCH", `embkfs.c:8001`), and commits made after it count down from
  the low value. At 0 no mirror is staged (`embkfs.c:2698`).
- A rollback takes the next object id from the tree of the snapshot
  (`embkfs.c:7932`), so an id that is still held open can be given to a new file. A
  snapshot of a tree with an unlinked open file brings, after a rollback, an object
  without a name back until the next mount.
- The mount fails if its orphan sweep finds no free block (`embkfs.c:8031`).

## Limits of the models

- *Lifecycle*: the idle thread of a core is always eligible, so the paths of
  `schedule_locked` that find nothing to run are not taken. Kernel threads, the
  child handle table, `process_child_control`, `process_abort_spawn`, sessions
  and timed sleep are left out. Any process may kill any other. The parent is
  recorded together with the reservation of the slot.
- *Pipe*: a new descriptor is any free one, the code takes the lowest. A probe
  is a loan and its return. That blocked calls return is not checked as liveness;
  `SleepIsJustified` is the safety half of it.
- *UpdateSystem*: sector maps, digests and device look-up succeed or fail as a
  whole. A read that fails while the service starts is the service staying off,
  one that fails after a journal write is the failed write.
- *Futex*: the words share one page. In `futex_paged` the page leaves only while
  every thread is in user mode or asleep, which is enough for the finding.
  `embk_mutex_trylock` and `embk_cond_signal` are not actions: the program does
  not call them. That a sequence number wraps all the way round during one sleep
  is outside `CondWakeOwed`.

- *Channel*: processes have one thread, because the handle table has no lock
  (`handle.c:11`) and two threads that use one handle can do anything to it. So one
  process sleeps on a queue at most, and that blocked calls return is not checked
  as liveness. A message carries surfaces; the code would also take channel and
  endpoint handles, whose references it does not count (`channel.c:46`). Programs do
  not move a handle twice in one message (`MovesTwice`). One path, one endpoint object. A
  message's bytes and the answer to a buffer that is too small are left out.
- *Embkfs*: a tree of one node and files of one block: which blocks an operation
  frees and takes is exact, how items are laid out in nodes is not modelled. One
  directory, so no rename and no link counts above one. A failed write or flush is an
  I/O error: the drivers answer EIO for a failed transfer, and only that makes the
  volume read-only (`embkfs.c:980`). Reads that fail are not
  modelled, nor an unmount: what is not flushed when the power goes is at its mercy.
  The code's lists of a transaction do not overflow here. The snapshot list in its
  older place in the tree (volumes without `SNAPREG`) is not modelled.

Not modelled at all, with the reason for each, are the components of
`PROJECT.json` with status `not_modelled`: mostly drivers, formats, drawing,
interpreters and ordinary programs.

Out of the prover's reach and left to TLC: liveness under fairness, and what
recursive definitions compute for every input.

## Plan

1. `Kworker` and session end on top of `Lifecycle`: reclamation that outlives the
   reap, and the full ring.
2. TCP: connection set-up and tear-down with loss, duplication and retransmission.
3. VM objects: fault, reclaim and unmap of shared pages; composed with `Futex` to
   restate `futex_paged` for any key that survives paging.
4. Debugger stops and `process_child_control` in `Lifecycle`.
5. `Channel` with several threads a process and a lock on the handle table, and an
   abstract FIFO of messages it refines; `Embkfs` with inner nodes and directories.
6. Proofs: `Embkfs`, that the free-extent index never meets what root, mirror and
   snapshots name, for any volume size; `Channel`, once its counts are stated
   without sums over sequences.
