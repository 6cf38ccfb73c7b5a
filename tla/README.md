# A TLA+ development of cabe

cabe is an embedded key-value store for raw block devices: values of exactly
1 MiB, an in-memory index, a write-ahead log (WAL) in a ring on a device of its
own, and snapshots in two slots on a third. This directory holds TLA+ models of
its concurrency and crash behaviour, the TLC configurations that check them, and
TLAPS proofs. `PROJECT.json` maps each definition to the lines it models and
lists runs, mutants, hazards, findings and theorems.

## 1. The system

A *device group* is three devices: values, log, snapshots. An `Engine` owns one
`Reactor` per group; keys are routed to groups by hash.

| component | state | operations | works with |
|---|---|---|---|
| Engine facade (`engine/engine.cpp`) | `opened_`, reactors, value buffer pools | Open, Close, Put, Get, Delete, SetWalLevel, Snapshot, AllocateValueBuffer | submits `OpNode`s on the caller's stack to reactors and sleeps on the thread's wake word |
| Reactor (`engine/reactor.cpp`) | inbox (lock-free stack), one thread, its `DeviceContext` | Run, Execute*, DoSnapshot, WriteWalRescuing, CloseDc | the only thread that touches its group |
| Index and block allocator (`index/`, `slots/`) | map key → block and CRC; ring of free blocks | Insert, Lookup, Delete; Acquire, Recycle, RebuildFromActive | called by the reactor |
| WAL commit group (`wal/wal.cpp`) | stack of writers, leader flag, epoch | WriteWal at the synchronous levels 1 and 3 | threads meet through atomics; results are stored in nodes on their stacks |
| WAL ring (`wal/wal.cpp`) | head, tail, window, buffer, next sequence number | WriteWal, Flush, ReclaimUpTo, Recover, Close | the log device; the boundary of the newest snapshot |
| Snapshot slots (`snapshot/snapshot.cpp`) | active slot, generation, covered number | Open, Write, Load | the snapshot device; permits ReclaimUpTo |
| Value buffer pool (`engine/value_buffer_pool.cpp`) | tagged free stack, slots with generations, count, closing | Allocate, Release, Identify, BeginClose, WaitUntilIdle | application threads, Put, Close |
| Super blocks (`engine/super_block.cpp`) | two copies per device | CreateDeviceGroup, RecoverDeviceGroup with repair | called by Open for one group after the other, before any reactor runs |
| io_uring back end (`io/uring/`) | submission and completion queues, registered buffers | Open, Close, RegisterWriteBuffers, Write, Read | the kernel; called by the reactor |
| Synchronous back end, raw device (`io/sync/`, `util/raw_device.cpp`) | file descriptors | Read, Write, ReadAt, WriteAt, Sync | everything above |

What is hard:

* **Lock-free hand-over.** A result stored in a node ends the life of the node,
  which is on another thread's stack. A leader resigns while a writer pushes; a
  reactor or caller goes to sleep while its partner notifies; stale heads of a
  stack are compared with new ones.
* **Crashes.** Power fails between any two device operations, any subset of the
  writes since the last fdatasync survives, and recovery has to tell live frames
  from torn ones and from those of earlier turns and lives.
* **Partial failure.** A segment write, an fdatasync or a snapshot fails after
  others succeeded, and the frame stays behind in a buffer or on the device.
* **Order between devices.** A block may be reused, and the log reclaimed, only
  when what replaces it is durable on another device. A create of several groups can
  stop after any of its writes, over devices that belonged to another engine.
* **Asynchronous completion.** A system call that fails half way leaves a request in
  the kernel's hands, and the next call meets its completion.

What makes each component correct: the commit group has one leader, loses no
writer, touches no dead node, and reports success only for durable frames; the
ring keeps every promised frame and replays nothing stale; the slots never land on
a snapshot older than the log; the reactor answers each call once and in order; the
shard loses only the newest versions in a crash and keeps each block with one
owner; the pool hands out a slot once and Close waits for it; recovery opens devices
that one create has put together, in the places it gave them, whatever single copy was
damaged; a successful transfer is the caller's own.

## 2. Modules

| module | models | how the state corresponds |
|---|---|---|
| `CommitGroup` | `Wal::WriteWal` at levels 1 and 3, `LeaderLoop`, `ProcessBatch`, `WaitResult` | one action per atomic operation of a thread; the ring offers any window it could offer |
| `WalRingInvariants` | | the inductive invariants of `WalRing` that `WalRingProofs` shows of every step |
| `CommitGroupProofs`, `IoUringProofs`, `SnapshotSlotsProofs`, `ValueBufferPoolProofs`, `ReactorProofs`, `DeviceGroupsProofs`, `ShardProofs`, `WalRingProofs` | | theorems about the module each is named after |
| `WalRing` | geometry, WriteWal at both kinds of level, Flush, reclaiming, Close, `Recover` | frames in slots with every content since the last fdatasync; a call is a list of steps, so power can fail between any two |
| `SnapshotSlots` | `Snapshot::Write` and both branches of `Open` | header and records of two slots, as a read returns them and as the platter may hold them |
| `Reactor` | SubmitAndWait, broadcasts, `Run`, `Finalize`, `Stop`, `Engine::Close` | one action per atomic operation; executing an operation is one step |
| `Shard` | ExecutePut, ExecuteDelete, ExecuteGet, ExecuteSetWalLevel, snapshots and rescue, CloseDc, `RecoverDevice` | index, allocator, value blocks, log as a sequence of frames with its durable prefix, snapshots as index images |
| `VersionedMap` | what a shard promises | abstract specification that `Shard` implements |
| `ValueBufferPool` | Allocate, ReleaseSlot, Identify, BeginClose, WaitUntilIdle, and Put's choice of path | one action per atomic operation; BeginClose's plain store may become visible late |
| `DeviceGroups` | `Engine::Open` and `Close`, `CreateDeviceGroup`, `RecoverDeviceGroup`, `ReadSuperBlockWithRepair` | both copies on every device, as a read returns them and as the platter may hold them; Open is a list of steps per group; the snapshot slots are the engine UUID in them |
| `IoUring` | the io_uring back end, `SubmitAndWait`, the kernel's side of the ring | entries prepared, in flight and completed; one action per system call or completion |
| `MC*` | | model values, device lists and symmetry for TLC |

The modules meet at interfaces each states itself: `Shard` takes from `WalRing`
that a crash leaves a prefix of the frames that includes the synchronised ones, and
from `SnapshotSlots` that a restart finds the newest complete snapshot or an
unfinished one that turns out to be valid; `WalRing` and `SnapshotSlots` each keep
the other's part as a number (`covered`, `reclaimed`). `Reactor` takes an operation
as one step because one thread alone touches a device group. `DeviceGroups` opens what
the other modules start from; `IoUring` is what stands behind `Shard`'s value write
when the engine is built with io_uring.

Data that no property tells apart is left out: a frame is its sequence number and
the life that wrote it, a value is the number of its Put, a CRC says whole or torn,
keys and threads are model values.

Definitions whose name carries a suffix (`Pop_Untagged`, `Match_AnyPlace`) are
mutants: a plausible mistake in the code of the definition that follows them. Each
property of a passing run has one that breaks it.

## 3. Runs

Run TLC in this directory, e.g. `tlc -workers 2 -config Shard.cfg MCShard`.

| run | asks |
|---|---|
| `commit_group` | Two threads, four calls, failing writes and syncs. One leader at a time (`LeaderExclusion`); nobody is left on the stack (`NoAbandonedWriter`); no dead node is read (`LastTouch`); the assertion in WriteWal (`LeaderExitsFinal`); success only after the fdatasync that covers the frame (`DurableBeforeReturn`); `BufferBound`, `WallLeavesNoDirtyFrame`, `NoLostWakeup`; and every call gets its result whatever others push, and returns once no more calls are made (`EveryCallAnswered`; that a call also returns while others go on is not so, section 6). |
| `wal_ring` | Eight frames through a ring of six, both levels, snapshots, a failing WriteAt, fdatasync or snapshot, and three restarts, by Close, kill or power failure at any step: promised frames survive, only accepted frames are replayed, recovery refuses in three situations only (section 6), a rescue makes room, and the window keeps its bounds with frames a failed write has left behind. |
| `snapshot_slots` | Four writes, failing or torn, and three restarts: the chosen snapshot reaches back to what the log still holds, generations stay distinct but for one case (section 6), refusals happen only without a completed snapshot. |
| `reactor` | Two callers, two reactors, two submissions, broadcasts and Close: no dead node is reached, arrival order (callers block, so only the drain-then-close of Stop depends on it), no lost wake-up; every call and Close return. |
| `shard` | All four levels, two keys on two blocks, one run-time failure, kills and power failures, three lives: blocks have one owner, index and log agree, values outlive the entries that may come back, refusals only after a failed log write, and `VersionedMap` is implemented. |
| `value_buffer_pool` | Two threads, two slots, two keys, Close at any time: no slot handed out twice, Put never takes a buffer of another key for its own and never copies one it could write directly, Close waits and is woken. |
| `device_groups` | Two groups, three calls of Open with any of five device lists, three events among: another create, a failing write, sync, read or source of randomness, a power failure, a decayed copy, a resized device; kills at any step. What Open accepts stems from one create per group, in its place and with its list length (`GroupOfOneCreate`); recovery refuses only for a reason, and never because one copy per device is bad (`SurvivesOneHarm`); a finished create is never mixed with an older one on its devices (`NoMixOfFinished`); a group loads the snapshot of its own create or none (`SnapshotOfThisCreate`). |
| `io_uring` | Any sequence of Writes and Reads with three faults (signals, failed and partial submissions, waits, syncs and registrations, short transfers): a success is the call's own transfer, and durable where the level asks for it, but for one exact exception; between calls the ring holds only what failed system calls left there; every call returns. |
| `shard_value_sync`, `shard_ghost`, `wal_recreate`, `wal_erase` | Four statements of the documents that the code does not keep (section 6). |

**Bounds.** They are named constants (`Max…`). Two writers with two calls each are
enough for a leader that resigns while the other pushes, retakes, or finds its own node
answered; three writers (2.1 million states up to symmetry) show nothing new, and the
safety properties are proved for any number. `MaxCalls` also ends the load: the run says
nothing of a call's return while others push without end, which is why `EveryCallAnswered`
promises a return only when the load ends. Its other half, a result for every call, does not
need the bound: with the counters taken out of the model and calls made for ever TLC still
finds it true, and finds the leader that never returns. In `wal_ring` a ring of three blocks and a
buffer of two is the smallest ring Wal::Open accepts for that buffer, so every window
meets the seam or the head, and eight frames reuse every slot; three lives are needed to
see what a recovery leaves to the next one. A ring of four blocks (5.4 million states)
and ten frames in two lives give the same answers. Four snapshot writes make a failed
write, its retry and both slots' reuse happen between restarts. Two blocks force reuse
of a block by the other key at once. In the pool a stale head needs two allocations and
a release under a third call, which is `MaxCalls = 3` (four calls, 7.9 million states,
show nothing new). Three calls of Open are a create, an interrupted or failing second
one and the recovery that meets both; the last call is a recovery, as nothing would
observe a create. Five lists are the right one, swapped groups, a shorter list, logs
exchanged between groups, and a data device in the place of a log. In `reactor`
two submissions let one caller's node be reused, or two callers, a broadcast and Close overlap;
the safety properties are proved for any number. In `io_uring` a queue
of two is filled by two failed submissions, and the third fault strikes the call that
meets what they left.

**Deadlock** is checked except in the `Shard` runs, where a refused device stays
closed, and in the pool, which may be left idle for good. Elsewhere an explicit
action stands for the intended end (`Done`, `Idle`), or, in `IoUring`, Open, Close and
calls are always possible.

**Symmetry** permutes callers, devices, threads or keys; the specifications treat
them alike. No liveness run uses it.

**Fairness.** Weak fairness of each thread's own steps, and of the steps of Close
once it has begun: the operating system runs every thread that can run. Calling an
operation, calling Close, failures and crashes are never assumed to happen. The
commit group needs no strong fairness since a thread that loses an election is
answered by the winner. In `IoUring` the caller runs when it can and the kernel does
not stop while transfers are in flight; signals are bounded by `MaxFaults`, since a
call that is interrupted for ever never returns.

## 4. What is proved

Each theorem is of the form `Spec => []P`, or says that `Spec` implements another
specification, and holds for every value of the constants that
the named assumptions of its module admit. Each inductive invariant was checked by TLC, with
the constants of the module's run, before it was proved.

**`CommitGroupProofs`**: each safety property of `commit_group`, and its type, for every
set of writers, every block and buffer size and any number of calls. Assumptions:
`BlockFrames` and `BufBlocks` are positive, `MaxCalls` is a natural number, `Faults` a
Boolean. The inductive invariant is built in layers:

1. `TypeOK` by itself (`TypeCorrect`).
2. `LeaderExclusion` is inductive over the type: the flag is up exactly while some
   thread stands in the exclusive part (`OneLeader`).
3. `Responsible`: while the stack is not empty the flag is up or a thread is about to
   look at it. With 2 this gives `NoAbandonedWriter` (`NobodyAbandoned`).
4. `NodeInv` = `StackNodes`, `ChainNodes`, `PendingNodes`, `Positions`, `LeaderNode`:
   stack and untouched rest of the chain hold distinct pending nodes, every waiting
   node without a result is in one of them, and a leader's node is in its batch or
   answered. `LastTouch` alone is not inductive: the step that stores a result must
   know that the node occurs nowhere else (`LeaderTouchesLiveNodes`,
   `LeaderHasResult`).
5. `BufferBound` is inductive with the window's type; `DirtyWindow` says that frames
   of the batch wait in the buffer only while the window is open
   (`BufferNeverOverrun`, `WallIsClean`).
6. `WakeInv`: a thread that may sleep on the present epoch with its result stored
   relies on a leader that has yet to change the epoch, one that sleeps on an old
   epoch on a leader that has yet to notify (`NoWakeupIsLost`).
7. `DurableInv` = `LogOrder`, `AdmittedFrames`, `VerdictFrames` and the property:
   the verdict of a batch is bounded by what the device has synchronised while its
   results are still being stored (`SuccessIsDurable`).

What the proofs need to know of reversing a chain is a lemma (`ReverseChainFact`).

**`IoUringProofs`**: `SuccessIsOwn` and `CleanBetweenCalls`, for any number of blocks,
registered slots, queue entries and faults. `Accounted` counts the entries of the three queues:
one for each failed call that has left one (`lag`), and one for the call in progress between
its submission and its completion. With `lag = 0` this makes every entry the call's own
(`OnlyOwn`), so what Wait takes is; with `lag > 0` only the block number of the completion
still protects the caller, which is the exception the properties state. `SyncOfFull` carries
what was taken over the fdatasync.

**`SnapshotSlotsProofs`**: `CoverageKept`, `ActiveIntact`, `GenerationsDiffer` and
`RefusesOnlyFirst`, for any number of writes, restarts and sequence numbers, with and without
faults. The properties speak of what Open reads; the invariant must speak of every content the
platter may turn out to hold. Its core is `Anchored`: once a Write has succeeded, and as long
as no Open has trusted the cache, one slot is complete and durable, nothing it does not cover
has been reclaimed, and no header the other slot may hold can be mistaken for a newer snapshot
with less coverage. `Newest` adds, without faults, that reads return the newest header.

**`ValueBufferPoolProofs`**: `SlotsAccounted`, `PutSourceRight`, `CloseWaits` and
`NoSleepingCloser`, for any set of threads and keys, any number of slots and calls. `Stacked`
says that some sequence of slots is the free stack, link by link, and holds exactly the slots
nobody owns; `HeadRight` is the argument of the tag: a thread whose head is still current when
it compares has read the link that is still there. `ProbeRight` ties what Identify has read so
far to the generation it began with, and `OneOwner` keeps slots, buffers and threads apart.
That the model's walk down the stack meets each slot once is shown with the least index at
which it would not (`WFMin`). `CountRight` and `CloseOrder` account for `outstanding`, and give
`CloseWaits`.

**`ReactorProofs`**: `NodesAlive`, `InArrivalOrder`, `NoSleepingReactor` and
`NoSleepingCaller`, for any callers, any finite set of devices and any number of operations
(and no caller named like the Stop node). `Queued` describes each reactor's nodes, in hand, in
the batch and in the inbox, as one queue: they are those of the calls it has not answered
(`Everyone`), each once (`Once`), and whoever came before a node stands before it
(`InOrder`). A lemma per operation says what it does to such a queue: push, Stop, drain and
reversal, take, answer. The ghost `before` holds the unanswered callers that pushed before.
`NoSleepingReactor` is inductive by itself. `NoSleepingCaller` is not: `Roused` adds the caller
that has tested its result and not yet slept, for which either the bump is still to come or the
wake word differs from the one it read.

**`DeviceGroupsProofs`**: `GroupOfOneCreate`, `NoMixOfFinished` and `SnapshotOfThisCreate`, for
any number of groups, calls of Open, failures and crashes, and any device lists that name no
device twice (`ListsAssumption`, a duty of the caller: `Engine::Open` does not check it, and a
create that is given a device twice overwrites its own super blocks). The properties speak of groups that are open; the
invariant speaks of every content a device may turn out to hold (`On`). `Home`: a super block is
one that the create it names has built for this device. `Floor`: nothing older than a given
create is left; a create that has succeeded is a floor on its three devices (`DoneWritten`), and
a data super block is a floor on the snapshot device of its group (`SnapshotFirst`), which is
why the order of CreateDeviceGroup matters: the snapshot slots of the group behind an accepted
super block cannot have been taken over from it. `FinishedDone` takes a create of the engine
apart into those of its groups, `Building` and `Reading` follow the group in hand through its
steps, whose order is `Orderly`, and `SlotsRight` says whose snapshot a slot holds.

`SurvivesOneHarm`, in the second half of the module, follows from this invariant and `RInv`.
Beside `ListsAssumption` the assumption is that there is a largest size of a data device, which is the one devices have at
first (`SizesAssumption`). `Repairable`: a device of a create that has succeeded, and that
nobody has written to since, holds only what that create wrote, its backup is durable, and the
copies the platter may hold in a bad state are no more than were damaged. `Owned` makes the
last writer of a device known before its create succeeds, `Sized` bounds the sizes in super
blocks. A refusal is then traced, check by check, to what `Undisturbed` excludes. That a repair
whose Sync fails still leaves the backup good is what `harm = 1` stands for.

**`WalRingProofs`**: `WindowInRing` for every size of ring, buffer and batch, after any faults,
kills and power failures; that a single write is never answered with a full ring
(`SingleWriteFits`), and `RescueMakesRoom` for batches of one frame, which is what one reactor per log
writes. What makes the window inductive is not in the window but on the device: `Placed` ties
tail and head to blocks of an endless log, of which the ring shows a part; a number
always lies in the same slot (`Home`), and none on the device lies beyond the block before the
head (`Within`). Recover reads both blocks off what it finds: the first number it
misses lies where it puts the tail (`Surveyed`, `TailOf`), and the distance of two
blocks of the log is that of their places in the ring (`Distance`). `Rescue` knows what
a call has still to do; after a snapshot that succeeded the log is empty, and by the
geometry an empty log has room.

Promises (`PromisesSurvive`) rest on `Durable`: whatever a power failure makes of the slot of a
promised number, it holds that number (`Lasting`); a frame given out is in the buffer, in its
order, or on the device (`Buffered`, `Left`). A write harms no live number because every live
number has its own slot (`Apart`); a torn write goes to the window, where no promise lies outside
the buffer (`TornKept`). Recover walks over every promised frame (`Reached`, `Walked`), and what it
erases lies ahead of the tail. Whether that also spares the frames at the head is exactly what
`wal_erase` (section 6) is about, and the theorem says so: `PromisesKept` has the condition that
no recovery erases a frame it has just replayed (`ErasesOnlyFragments`), for any sizes.
`ErasureSpares` says when a device keeps that condition: if a whole buffer fits between tail and
head whenever a recovery begins to erase (`RoomAhead`), or the seam comes first, the zeros end
before the head, and spare what has been replayed (`Spared`) and what has been promised
(`ErasesOnlyUnpromised`). `PromisesWithRoom` puts the two together. Both hold for every size of
ring, buffer and batch, the code's default of eight blocks included; without the condition the
statements are false, as `wal_erase` shows.

`ReplayFaithful` (`ReplayHolds`, any sizes, no condition) rests on `Traced`. While a log is open, a
frame beyond the snapshot was given out in the life that the ghost `history` has for its number,
whether it is in the buffer (`Noted`) or current in its slot (`Newest`), and what a slot held before
is covered by the snapshot (`Behind`). For a device that is down this must not depend on what
came back: there is a number that no slot can show, and every content up to it was accepted
(`Cut`), so the walk of Recover ends there or earlier and replays only accepted frames. The frames
an erasure has overwritten break `Behind` until its fdatasync, but they lie beyond the end of the
walk, so `Cut` survives a power failure. It does not survive a kill or a failed fdatasync followed
by new frames, since the next Recover finds nothing to erase and synchronises nothing: that
is `half_erased`, the exception the property has.

`RefusesOnlyLostHead` (`RefusalsExplained`) rests on `Refusing`, the largest invariant here. Recover
refuses when a number before a live frame is missing in the wrong place, so the invariant says
when a number can be missing at all. `Holes`: without failures, of any content a slot may
show, an earlier number beyond the snapshot survives every power failure (`Kept`), or belongs to
the same window (`Near`, which is what Recover tolerates), or is of an earlier life (`Older`).
Once something has failed (`faults`) the property asks less, and so does the invariant. To keep
`Holes` when a window is written, what is no longer buffered must be safe or have been replayed
(`Fresh`); to keep it when Recover opens a log, what a process finds has no gaps (`Gapless`)
or is synchronised (`Settled`). `Anchored` is for the third case, a snapshot beyond every
frame of the ring. `Working` says what a call has still to do: at a synchronous level its frame is
in the buffer only until its own batch has been written and synchronised, so a later window
starts with nothing owed. That is where `MaxBatch = 1` comes in, the only batches one reactor per
log can produce (a writer waits for its call): a batch of several segments writes its first windows
without a synchronisation between them, and the statement is false of it (TLC: a batch of three
frames, a buffer of two blocks of one frame, and a power failure before its fdatasync). The other
condition is that of `PromisesKept`, and `ErasureSpares` reduces it to `RoomAhead` here too.
TLC has checked `Traced` and `Refusing` as invariants too, on small rings with buffers of one to
three blocks.

**`ShardProofs`**: `BlocksPartitioned`, `ReplayAgrees`, `RefusesOnlyHaunted`, `ValuesKept` and
`ImplementsVersionedMap`, for any keys and blocks, any levels and kinds of failure, any number of
operations, lives and failures (`ShardAssumption`). The lemmas on replay hold for logs of any
length: they argue from the least index at which replay would not be what the lemma says, since
the library's induction theorems cannot be used. The invariant has two parts. `Right` speaks of
log, index and blocks: `Partitioned` gives a block one place; `Agrees` says that snapshot and
whole log rebuild the index, with the frame of the present operation once it is appended;
`Sound` says that every index a crash may leave can be rebuilt, on top of an unfinished snapshot
too. That `RebuildFromActive` lists each block nobody owns once is a lemma (`RebuildFacts`).
`Valued` speaks of what the blocks hold: `Stored` that the index finds its values, `Drained` that
at a level which synchronises the log only the present frame is not yet durable, `Earlier` that
the log without this frame rebuilds the index, `Found` and `Kept` what a recovery will find. With
`Drained`, `ValuesKept` need only be shown of the index and of the index before the present
frame; that no block of either is free or being written is `Partitioned`. The
refinement (`ShardImplementsMap`) maps the indexes from the last durable frame on to the
versions of `VersionedMap`: LogAppend writes one key, a synchronisation or a snapshot makes
versions durable, the end of a life drops the newest ones, every other step stutters.

The proof of `RefusesOnlyHaunted` failed at first, and rightly: the ghost `haunted` used to be reset
by every recovery. A log that comes back whole from the device's cache, with the frame of a failed
operation and what followed it, is accepted; a power failure may then leave a shorter prefix,
which ends between the two and gives one block to two keys. TLC finds this with four
operations at level 1, one more than the run `shard` has. `haunted` now lasts until a snapshot, or
until a recovery finds the log synchronised.

## 5. What is only model-checked

No safety property of a passing run is only model-checked. What is not proved:

* `PromisesSurvive` and `RefusesOnlyLostHead` without the condition on erasures, since they
  are false then (`wal_erase`); `RefusesOnlyLostHead` for
  batches of several segments, which is false too, and `RescueMakesRoom` for batches of more than
  one frame. No run speaks of such batches.
* Liveness (`EveryCallAnswered`, `EveryCallReturns`, `CloseReturns`) of every module: liveness under fairness and
  `ENABLED` are outside what the installed provers do.
* The four statements of section 6 that are violated.

## 6. Findings

* **A block is reused too early at levels 2 and 4** (`shard_value_sync`). ExecutePut
  and ExecuteDelete recycle the old block once the new frame is in the log's buffer.
  At a batched level the frame may be lost in a crash after the block has been
  overwritten; the old entry comes back and its value is gone, although it had been
  durable. The design promises that what the log keeps is readable.
* **A failed log write leaves a ghost** (`shard_ghost`). When WriteAt or fdatasync
  fails, the frame stays in the buffer or on the device while the index keeps the old
  state. Repeating the Delete puts two tombstones into the log and recovery refuses
  the device. `src/ROADMAP.md:565` reasons without run-time faults; the commit group's
  design claims that every prefix is recoverable. `RefusesOnlyHaunted` (run `shard`)
  shows that nothing else leads to a refusal.
* **A re-created log replays its predecessor** (`wal_recreate`). Wal::Open with
  create leaves old frames in the ring; after a crash those whose numbers continue the
  new ones are taken for live.
* **Recovery erases live frames** (`wal_erase`). After a torn window Recover writes zeros
  from the tail over a whole buffer, up to the seam, and does not stop at the head. The
  window that was torn did: in a nearly full ring that has wrapped it was shorter than the
  buffer. The frames at the head, durable and just replayed, are erased; the index of this
  life has them, but the next Open without a snapshot in between refuses the device. A power
  failure during the erasure is worse: it may keep the first of these frames and not the
  next; the Recover after it takes the rest for one more torn window, erases it and opens the
  device without promised frames. TLC finds this as a violation of `PromisesSurvive` with the
  constants of `WalRingErase.cfg` and two lives. It takes a
  buffer of at least three blocks (the default has eight) and a recovery that finds less
  than a buffer between tail and head (`ErasureSpares`), and nothing else can lose a promise
  (`PromisesKept`, `PromisesWithRoom`). The bounds of `wal_ring`
  exclude it, which came to light when the invariant for a proof of `WindowInRing` was
  written down; with the zone cut off at the head, all properties hold in the ring of `wal_erase` too.

Passing properties also state known limits exactly, as the documents do:

* `EveryCallAnswered` promises a result under any load, and a return only once the load ends. A
  leader whose own result is long stored stays in LeaderLoop as long as others push: it is
  re-elected without limit ("连任无上限", `src/wal/wal.cpp:631`), and the design records that
  "饱和负载下 leader 调用者延迟无上界" (`src/doc/P6/P6M1_commit_group_design.md:79`, D12).
* `RefusesOnlyLostHead` names the three cases in which Recover refuses a device. None
  of them loses a promised frame by itself, but the device does not open. (1) A torn
  window whose first frame is lost (`src/doc/P5/P5M6_recovery_design.md`). (2) A hole in
  an earlier window than the last: its fdatasync failed and the next window was written,
  or the life before wrote it and this life replayed it from the device's cache.
  (3) A snapshot that covers frames which were never durable: Flush returns at once at a
  synchronous level because "已分配 seq 的帧皆持久" (`src/wal/wal.cpp:789`), which is not
  so after a failed write or a kill. Batches of several segments, which one reactor per
  log cannot produce, would add a fourth case.
* `ReplayFaithful` has one exception (`half_erased`): a kill, or a failed fdatasync, ends
  the erasure of stale fragments; the next Recover finds them gone, erases nothing and so
  synchronises nothing; a power failure brings them back after their numbers were reused.
* `NoMixOfFinished` and `GroupOfOneCreate` say what RecoverDeviceGroup can tell. The engine
  UUID is drawn per group and never compared across groups, although
  `src/doc/P5/P5M1_super_block_design.md:148` calls it the identity of the whole engine:
  when a second create stops between two groups, recovery opens a new first group beside
  an old second one. `NoMixOfFinished` exempts a later create that put other devices in
  the place of the older group. The proof fails without the exemption, for a reason: after a
  create of [A, B] and one of [C, B], each finished, the numbers and the list length of A and
  B still fit, and recovery of [A, B] takes the old A beside the new B. Line 253 there says a crashed create is never accepted by recover
  ("崩溃的 create 不会被 recover 自愈"); that holds on blank devices only.
* `SurvivesOneHarm` exempts devices a later create has written to. The comment at
  `src/engine/super_block.cpp:53` ("主份有效 ⇒ 备份必有效") speaks of blank devices; on a
  second create a power failure between the two writes leaves an old primary beside a new
  backup. A read error of that primary then makes the repair write the backup over it
  (`glitch`).
* `SuccessIsOwn` and `CleanBetweenCalls`: `SubmitAndWait` returns without having seen its
  completion when the submission or the wait fails other than by a signal, where the
  comment before it promises one cqe_seen per call
  ("无论成败恒 cqe_seen 一次", `src/io/uring/io_uring_backend.cpp:213`). From then on the
  ring is one completion behind: calls for other blocks fail, a call for the same block
  takes the old completion for its own (a Write also a Read's), and the kernel may still
  use the buffer of the failed call. As many failed submissions as the queue has entries
  leave no entry to prepare. Only Close and Open mend it (`lag`).
* `RefusesOnlyFirst`: a torn first snapshot makes Open refuse.
* `GenerationsDiffer` has one exception, which the proof brought to light: the comment in
  `src/snapshot/snapshot.cpp:114` says that the writing side rules out a collision of
  generations ("写侧构造保证代际不可能撞号"). Attempts that were never synchronised can leave a
  slot with several headers the platter may turn out to hold, say 3 and, after a restart that
  read neither, 2. An Open that trusts the 2 in the device's cache makes this slot the active
  one and writes 3 into the other; a power failure then brings the old 3 back beside it. With
  faults, six writes and four restarts TLC reaches the state; the bounds of the run do not.
  Open treats it as contradictory evidence and refuses.
* `ValuesKept` at the synchronous levels asks that frames replayed from the device's
  cache have been synchronised once. After a *kill* they need not be: recovery frees
  blocks on the strength of frames that a later power failure can still take back.
  With `Levels = {1}` and `Crashes = {"power", "kill"}`, `NoCorruptRead` fails.
* `CloseWaits` covers allocations counted before Close began. BeginClose's store and
  WaitUntilIdle's load may be reordered, so an overlapping Allocate can miss the flag
  while Close misses its count. `src/engine/engine.h:31` forbids the overlap.
* `EveryCallReturns` of `Reactor` exempts calls pushed after the last drain of a
  reactor (`missed`), for the same reason.

## 7. Not modelled

The opt-in `VerifyValuesCrc`; read errors of the log, the slots and values; CRC
collisions; 32-bit wrap of tags, generations and wake words; overflow of the completion
queue, which needs more left-over entries than a queue holds; moves of the back-end and
device objects; the Read of the synchronous back end (one pread); the error codes by
which recovery tells unreadable super blocks from foreign ones (when one copy cannot be
read and the other is foreign the code reports a foreign device); the write buffer pool
(one thread, one vector); the back-off of the snapshot trigger (any Put or Delete may
trigger); SPDK (a configuration stub); routing, hashing, logging, metrics, benchmarks and
vendored code. A step of the code that is coarser here: in `WalRing` a failed
or interrupted WriteAt of several blocks leaves all of them in the device's cache or none (a power
failure still keeps any subset of what was written); Recover's check of itself is evaluated before its erasure, not after; the erasure
(the zero blocks and the rewritten tail) is one step, so a kill between two of its writes is left
out, while a power failure before its fdatasync keeps any subset. In `DeviceGroups` the clearing of the
snapshot slots, two header writes and an fdatasync (`src/snapshot/snapshot.cpp:58`), is one
durable step. Weak memory is modelled only where said: `Recheck` in `CommitGroup`,
BeginClose's store in `ValueBufferPool`.

## 8. Plan

1. Done: `CommitGroup`, `WalRing` with faults, kills and power failures, `SnapshotSlots`,
   `Reactor`, `Shard` over `VersionedMap`, `ValueBufferPool`, `DeviceGroups`, `IoUring`;
   proofs for all of them, of `WalRing` for the window, the rescue, the promises, the
   frames Recover replays and the devices it refuses.
2. Not begun: an abstract log (accepted frames, durable prefix) that ties `WalRing` to the prefix
   `Shard` assumes, with the exceptions of section 6 as its steps.
