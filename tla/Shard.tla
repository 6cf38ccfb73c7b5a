--------------------------------- MODULE Shard ---------------------------------
(***************************************************************************)
(* One device group and the reactor that owns it: how Put, Get, Delete,    *)
(* SetWalLevel, Snapshot and Close use the value device, the log, the      *)
(* snapshot, the index and the block allocator, and what RecoverDevice     *)
(* makes of the devices after a crash.                                     *)
(*                                                                         *)
(* The log is the sequence of frames since the newest snapshot: its first  *)
(* "synced" frames are durable, "written" ones have reached the device,    *)
(* the rest is in the buffer, and a crash leaves a prefix (module          *)
(* WalRing).  A snapshot is the index it was taken from (module            *)
(* SnapshotSlots).  Values are numbered by the Put that brings them, and   *)
(* the CRC kept in the index is the number of the value it belongs to.     *)
(* A reactor executes one operation at a time, so the steps of an          *)
(* operation interleave with crashes only.                                 *)
(***************************************************************************)
EXTENDS Integers, Sequences, FiniteSets

CONSTANTS
    Keys,
    BlockCount,   \* blocks of the value device
    Levels,       \* durability levels in use, of 1 (Strict) to 4 (Async)
    Faults,       \* what may fail at run time: "value", "log", "snapshot"
    Crashes,      \* how a life may end besides Close: "power", "kill"
    MaxOps,       \* bound: Puts and Deletes
    MaxLives,     \* bound: lives of the process
    MaxFaults     \* bound: run-time failures

ASSUME ShardAssumption ==
    /\ BlockCount \in Nat \ {0}
    /\ Levels \subseteq 1 .. 4 /\ Levels # {}
    /\ Faults \subseteq {"value", "log", "snapshot"}
    /\ Crashes \subseteq {"power", "kill"}
    /\ MaxOps \in Nat /\ MaxLives \in Nat /\ MaxFaults \in Nat

VARIABLES
    level,     \* options_.wal_level
    index,     \* meta_index
    free,      \* block_allocator, the ring from head_ to tail_
    pc, op,    \* step and parameters of the operation being executed
    mode,      \* "up", "down" or "refused"
    disk,      \* per block: what a read returns
    loose,     \* per block: what a power failure may leave there instead
    base,      \* index of the newest complete snapshot
    spare,     \* a snapshot whose Write has not succeeded, and what it covers
    frames, written, synced,
    passed,    \* frames the buffer has left behind (AdvanceAfterWrite)
    ops, lives, faults,
    replayed,  \* ghost: frames a recovery replayed from the device's cache
    damaged,   \* ghost: values whose loss the level of the time permitted
    haunted    \* ghost: the log may come back with a frame whose operation was told to have
               \* failed, and without what followed it

log    == <<base, spare, frames, written, synced, passed>>
values == <<disk, loose>>
memory == <<index, free>>
ghost  == <<replayed, damaged, haunted>>
count  == <<ops, lives, faults>>
vars   == <<level, memory, pc, op, mode, values, log, count, ghost>>

Blocks   == 1 .. BlockCount
Contents == 0 .. MaxOps                 \* 0: garbage, a torn value included
None     == [block |-> 0, val |-> 0, fua |-> FALSE]
Metas    == [block : Blocks, val : 1 .. MaxOps, fua : BOOLEAN] \cup {None}
Maps     == [Keys -> Metas]
NoOp     == [kind |-> "none", key |-> "none", meta |-> None, level |-> 1]

IsValueFuaLevel(l) == l \in {1, 2}
IsWalSyncLevel(l)  == l \in {1, 3}
Failing(what) == what \in Faults /\ faults < MaxFaults
Outcomes(what) == IF Failing(what) THEN BOOLEAN ELSE {TRUE}

Init ==
    /\ level \in Levels
    /\ index = [k \in Keys |-> None]
    /\ free = [i \in Blocks |-> i]
    /\ pc = "idle" /\ op = NoOp
    /\ mode = "up"
    /\ disk = [b \in Blocks |-> 0]
    /\ loose = [b \in Blocks |-> {}]
    /\ base = index /\ spare = <<>>
    /\ frames = <<>> /\ written = 0 /\ synced = 0 /\ passed = 0
    /\ ops = 0 /\ lives = 1 /\ faults = 0
    /\ replayed = 0 /\ damaged = {} /\ haunted = FALSE

---------------------------------------------------------------------------
(* Replay: ApplyWalEntry over a snapshot.                                  *)

\* The index after the first n frames of f on top of b.
ApplyWalEntry(b, f) ==
    LET after[n \in 0 .. Len(f)] ==
          IF n = 0 THEN b ELSE [after[n - 1] EXCEPT ![f[n].key] = f[n].meta]
    IN  after

\* Snapshot::Load delivers every record of the chosen slot, ApplyRecoveredEntry
\* inserts each of them.
Load == base

\* The block of a recovered entry must exist.
ValidateRecoveredMeta(m) == m = None \/ m.block \in Blocks

\* A tombstone for a key that is not there.
DeletesAbsent(b, f) ==
    \E n \in 1 .. Len(f) : f[n].meta = None /\ ApplyWalEntry(b, f)[n - 1][f[n].key] = None

Active(map) == {map[k].block : k \in Keys} \ {0}

\* RebuildFromActive refuses two keys that claim the same block.
DuplicateBlock(map) ==
    \E j, k \in Keys : j # k /\ map[j].block = map[k].block /\ map[j] # None

\* RebuildFromActive: the blocks no entry claims, in ascending order.
RebuildFromActive(map) ==
    LET rest == Blocks \ Active(map)
        rank(b) == Cardinality({c \in rest : c <= b})
    IN  [i \in 1 .. Cardinality(rest) |-> CHOOSE b \in rest : rank(b) = i]

---------------------------------------------------------------------------
(* Steps of an operation.                                                  *)

At(step) == mode = "up" /\ pc = step
Goto(step) == pc' = step /\ UNCHANGED op
Return == pc' = "idle" /\ op' = NoOp
Call(step, o) == At("idle") /\ pc' = step /\ op' = o
Recycle(b) == free' = Append(free, b)

\* The operation fails; a Put gives its new block back.
GiveUp ==
    /\ Return
    /\ faults' = faults + 1
    /\ IF op.kind = "put" THEN Recycle(op.meta.block) ELSE UNCHANGED free

\* ExecuteGet: Lookup, Read, and the comparison of the CRC.
ExecuteGet(k) ==
    IF index[k] = None THEN "not_found"
    ELSE IF disk[index[k].block] = index[k].val THEN "value" ELSE "corrupted"

\* ExecutePut: acquire a block (kEngineNoSpace otherwise) and start to write the
\* value; until the write has finished the block may hold anything.
ExecutePut(k) ==
    /\ ops < MaxOps /\ free # <<>>
    /\ LET b == Head(free)
           v == ops + 1
       IN  /\ Call("write", [kind |-> "put", key |-> k, level |-> level,
                             meta |-> [block |-> b, val |-> v, fua |-> IsValueFuaLevel(level)]])
           /\ loose' = [loose EXCEPT ![b] = @ \cup {disk[b], 0, v}]
    /\ free' = Tail(free)
    /\ ops' = ops + 1
    /\ UNCHANGED <<level, index, mode, disk, log, lives, faults, ghost>>

\* The value is on the device; levels 1 and 2 synchronise the whole device.
ValueWritten ==
    /\ At("write")
    /\ LET b == op.meta.block
       IN  /\ disk' = [disk EXCEPT ![b] = op.meta.val]
           /\ loose' = IF op.meta.fua THEN [c \in Blocks |-> {}]
                                      ELSE [loose EXCEPT ![b] = @ \ {op.meta.val}]
    /\ Goto("log")
    /\ UNCHANGED <<level, memory, mode, log, count, ghost>>

\* Forgets the block of a write that failed.
ValueFails_Leaks ==
    /\ At("write") /\ Failing("value")
    /\ \E c \in loose[op.meta.block] : disk' = [disk EXCEPT ![op.meta.block] = c]
    /\ Return
    /\ UNCHANGED <<level, memory, mode, loose, log, count, ghost>>

\* The fallback buffer is not available, pwrite fails or fdatasync fails.
ValueFails ==
    /\ At("write") /\ Failing("value")
    /\ \E c \in loose[op.meta.block] : disk' = [disk EXCEPT ![op.meta.block] = c]
    /\ GiveUp
    /\ UNCHANGED <<level, index, mode, loose, log, ops, lives, ghost>>

\* Writes a tombstone without looking the key up.
ExecuteDelete_Unchecked(k) ==
    /\ ops < MaxOps
    /\ Call("log", [NoOp EXCEPT !.kind = "delete", !.key = k])
    /\ ops' = ops + 1
    /\ UNCHANGED <<level, memory, mode, values, log, lives, faults, ghost>>

\* ExecuteDelete: a key that is not there leaves no tombstone.
ExecuteDelete(k) ==
    /\ ops < MaxOps /\ index[k] # None
    /\ Call("log", [NoOp EXCEPT !.kind = "delete", !.key = k])
    /\ ops' = ops + 1
    /\ UNCHANGED <<level, memory, mode, values, log, lives, faults, ghost>>

---------------------------------------------------------------------------
(* WriteWalRescuing.                                                       *)

\* The ring is full: take a snapshot, then write again.
LogFull ==
    /\ At("log") /\ frames # <<>>
    /\ Goto("flush")
    /\ UNCHANGED <<level, memory, mode, values, log, count, ghost>>

\* Append.  A synchronous level goes on to write the frame; a batched one returns,
\* or flushes the window that the frame has filled.
LogAppend ==
    /\ At("log")
    /\ frames' = Append(frames, [key |-> op.key, meta |-> op.meta])
    /\ IF IsWalSyncLevel(level) THEN Goto("log_write") ELSE Goto("log_write") \/ Goto("apply")
    /\ UNCHANGED <<level, memory, mode, values, count, ghost>>
    /\ UNCHANGED <<base, spare, written, synced, passed>>

\* A failed WriteAt leaves the device with or without the frames.
WriteFails == written' \in {written, Len(frames)}

\* A batched level meets a full window, left by a Flush that failed: it flushes
\* again before it appends, and appends nothing when that fails.
LogRetries ==
    /\ At("log") /\ ~ IsWalSyncLevel(level) /\ passed < Len(frames)
    /\ \E ok \in Outcomes("log") :
         IF ok THEN /\ written' = Len(frames) /\ synced' = Len(frames) /\ passed' = Len(frames)
                    /\ UNCHANGED <<pc, op, free, faults>>
               ELSE WriteFails /\ GiveUp /\ UNCHANGED <<synced, passed>>
    /\ UNCHANGED <<level, index, mode, values, base, spare, frames, ops, lives, ghost>>

\* WriteAt.  When it fails the frame stays in the buffer and will be written with
\* the next one.  A synchronous level advances now, a batched one after fdatasync.
LogWrite ==
    /\ At("log_write")
    /\ \E ok \in Outcomes("log") :
         IF ok THEN /\ written' = Len(frames)
                    /\ passed' = IF IsWalSyncLevel(level) THEN Len(frames) ELSE passed
                    /\ Goto("log_sync") /\ UNCHANGED <<free, faults, haunted>>
               ELSE WriteFails /\ GiveUp /\ haunted' = TRUE /\ UNCHANGED passed
    /\ UNCHANGED <<level, index, mode, values, base, spare, frames, synced, ops, lives>>
    /\ UNCHANGED <<replayed, damaged>>

\* fdatasync.
LogSync ==
    /\ At("log_sync")
    /\ \E ok \in Outcomes("log") :
         IF ok THEN /\ synced' = written /\ passed' = written
                    /\ Goto("apply") /\ UNCHANGED <<free, faults, haunted>>
               ELSE GiveUp /\ haunted' = TRUE /\ UNCHANGED <<synced, passed>>
    /\ UNCHANGED <<level, index, mode, values, base, spare, frames, written, ops, lives>>
    /\ UNCHANGED <<replayed, damaged>>

\* Leaves a deleted key in the index.
Apply_KeepsDeleted ==
    /\ At("apply")
    /\ index' = [index EXCEPT ![op.key] = IF op.meta = None THEN @ ELSE op.meta]
    /\ IF index'[op.key] = index[op.key] THEN UNCHANGED free
       ELSE IF index[op.key] = None THEN UNCHANGED free ELSE Recycle(index[op.key].block)
    /\ \/ Return
       \/ pc' = "flush" /\ op' = [NoOp EXCEPT !.kind = "snapshot"]
    /\ UNCHANGED <<level, mode, values, log, count, ghost>>

\* The log has the frame: Insert or Delete, recycle the old block, and take a
\* snapshot when the log has grown enough (MaybeRequestSnapshot).
Apply ==
    /\ At("apply")
    /\ index' = [index EXCEPT ![op.key] = op.meta]
    /\ IF index[op.key] = None THEN UNCHANGED free ELSE Recycle(index[op.key].block)
    /\ \/ Return
       \/ pc' = "flush" /\ op' = [NoOp EXCEPT !.kind = "snapshot"]
    /\ UNCHANGED <<level, mode, values, log, count, ghost>>

---------------------------------------------------------------------------
(* Flush, and what the callers of Flush do next.                           *)

ExecuteSnapshot ==
    /\ Call("flush", [NoOp EXCEPT !.kind = "snapshot"])
    /\ UNCHANGED <<level, memory, mode, values, log, count, ghost>>

\* Changes the level and leaves the batched frames in the buffer.
ExecuteSetWalLevel_NoFlush(l) ==
    /\ l # level
    /\ At("idle")
    /\ level' = l
    /\ UNCHANGED <<memory, pc, op, mode, values, log, count, ghost>>

\* ExecuteSetWalLevel: a tightening flushes first.
ExecuteSetWalLevel(l) ==
    /\ l # level
    /\ IF IsWalSyncLevel(l) /\ ~ IsWalSyncLevel(level)
       THEN Call("flush", [NoOp EXCEPT !.kind = "level", !.level = l]) /\ level' = level
       ELSE At("idle") /\ level' = l /\ UNCHANGED <<pc, op>>
    /\ UNCHANGED <<memory, mode, values, log, count, ghost>>

\* CloseDc: Wal::Close flushes.
CloseDc ==
    /\ lives < MaxLives
    /\ Call("flush", [NoOp EXCEPT !.kind = "close"])
    /\ UNCHANGED <<level, memory, mode, values, log, count, ghost>>

Flushed ==
    \/ op.kind = "level" /\ level' = op.level /\ Return
    \/ op.kind = "close" /\ Goto("closed") /\ UNCHANGED level
    \/ op.kind \notin {"level", "close"} /\ Goto("snapshot") /\ UNCHANGED level

\* Nothing to do at a synchronous level, or when the buffer holds nothing new.
FlushNothing ==
    /\ At("flush")
    /\ IsWalSyncLevel(level) \/ passed = Len(frames)
    /\ Flushed
    /\ UNCHANGED <<memory, mode, values, log, count, ghost>>

\* A Flush that fails ends the operation; Close goes on.
FlushFails ==
    IF op.kind # "close" THEN GiveUp
    ELSE Goto("closed") /\ faults' = faults + 1 /\ UNCHANGED free

FlushWrite ==
    /\ At("flush") /\ ~ IsWalSyncLevel(level) /\ synced < Len(frames)
    /\ \E ok \in Outcomes("log") :
         IF ok THEN written' = Len(frames) /\ Goto("flush_sync") /\ UNCHANGED <<free, faults>>
               ELSE WriteFails /\ FlushFails
    /\ UNCHANGED <<level, index, mode, values, ops, lives, ghost>>
    /\ UNCHANGED <<base, spare, frames, synced, passed>>

FlushSync ==
    /\ At("flush_sync")
    /\ \E ok \in Outcomes("log") :
         IF ok THEN /\ synced' = written /\ passed' = written
                    /\ Flushed /\ UNCHANGED <<free, faults>>
               ELSE FlushFails /\ UNCHANGED <<synced, passed, level>>
    /\ UNCHANGED <<index, mode, values, base, spare, frames, written, ops, lives, ghost>>

\* DoSnapshot: Snapshot::Write writes the index into the slot that is not active.
SnapshotBegins ==
    /\ At("snapshot")
    /\ spare' = <<[map |-> index, at |-> Len(frames)]>>
    /\ Goto("snapshot_sync")
    /\ UNCHANGED <<level, memory, mode, values, count, ghost>>
    /\ UNCHANGED <<base, frames, written, synced, passed>>

\* The new snapshot replaces the old one, and the frames it covers are reclaimed.
SnapshotTaken ==
    /\ base' = spare[1].map
    /\ spare' = <<>>
    /\ frames' = <<>> /\ written' = 0 /\ synced' = 0 /\ passed' = 0
    /\ replayed' = 0 /\ haunted' = FALSE
    /\ IF op.kind = "snapshot" THEN Return ELSE Goto("log")
    /\ UNCHANGED <<free, faults>>

\* Reclaims the log although the snapshot was not written.
SnapshotEnds_ReclaimsAnyway ==
    /\ At("snapshot_sync")
    /\ \/ SnapshotTaken
       \/ /\ Failing("snapshot")
          /\ GiveUp
          /\ frames' = <<>> /\ written' = 0 /\ synced' = 0 /\ passed' = 0
          /\ UNCHANGED <<base, spare, replayed, haunted>>
    /\ UNCHANGED <<level, index, mode, values, ops, lives, damaged>>

\* Snapshot::Write succeeds, or fails and leaves a slot that may yet be valid; a
\* failure reclaims nothing, and a rescued write gives up.
SnapshotEnds ==
    /\ At("snapshot_sync")
    /\ \/ SnapshotTaken
       \/ /\ Failing("snapshot")
          /\ GiveUp
          /\ UNCHANGED <<log, replayed, haunted>>
    /\ UNCHANGED <<level, index, mode, values, ops, lives, damaged>>

---------------------------------------------------------------------------
(* The end of a life.                                                      *)

\* What is left of log and snapshots when n frames survive: the complete
\* snapshot, or the unfinished one if it turns out to be valid.
Land(n, keep) ==
    \E s \in {[map |-> base, at |-> 0]} \cup {spare[i] : i \in 1 .. Len(spare)} :
        /\ base' = s.map
        /\ spare' = <<>>
        /\ frames' = SubSeq(frames, s.at + 1, n)
        /\ written' = Len(frames') /\ passed' = Len(frames')
        /\ synced' = IF keep > s.at THEN keep - s.at ELSE 0

\* Entries a restart will find without their value, and that the contract of the
\* level lets go: values of the asynchronous levels, and anything at a level that
\* batches the log, after a failed operation or on frames not yet synchronised.
Excused ==
    LET map     == ApplyWalEntry(base', frames')[Len(frames')]
        bad(m)  == disk'[m.block] # m.val \/ (m.fua /\ loose'[m.block] # {})
        lax(m)  == ~ m.fua \/ ~ IsWalSyncLevel(level) \/ synced < replayed \/ haunted
    IN  {m.val : m \in {n \in {map[k] : k \in Keys} \ {None} : bad(n) /\ lax(n)}}

Down ==
    /\ mode' = "down"
    /\ index' = [k \in Keys |-> None] /\ free' = <<>>
    /\ Return
    /\ damaged' = damaged \cup Excused
    /\ replayed' = IF synced < replayed THEN Len(frames') ELSE 0
    /\ UNCHANGED haunted

\* Close ends, or the process is killed: the devices keep what reached them.
Closed ==
    /\ At("closed")
    /\ Land(written, synced)
    /\ UNCHANGED values
    /\ Down
    /\ UNCHANGED <<level, count>>

Killed ==
    /\ "kill" \in Crashes /\ lives < MaxLives
    /\ mode = "up"
    /\ Land(written, synced)
    /\ \E c \in IF pc = "write" THEN loose[op.meta.block] ELSE {0} :
         disk' = IF pc = "write" THEN [disk EXCEPT ![op.meta.block] = c] ELSE disk
    /\ loose' = loose
    /\ Down
    /\ UNCHANGED <<level, count>>

\* The power fails: a prefix of the written frames survives, and each block keeps
\* one of its contents since it was last synchronised.
PowerFails ==
    /\ "power" \in Crashes /\ lives < MaxLives
    /\ mode \in {"up", "down"}
    /\ \E n \in synced .. written : Land(n, n)
    /\ disk' \in {d \in [Blocks -> Contents] :
                    \A b \in Blocks : d[b] \in loose[b] \cup {disk[b]}}
    /\ loose' = [b \in Blocks |-> {}]
    /\ Down
    /\ UNCHANGED <<level, count>>

---------------------------------------------------------------------------
(* RecoverDevice.                                                          *)

\* Load the snapshot, replay the frames, rebuild the allocator.  Contradictions
\* make Open refuse the device.
RecoverDevice ==
    /\ mode = "down" /\ lives < MaxLives
    /\ LET map == ApplyWalEntry(Load, frames)[Len(frames)]
       IN  IF \/ \E k \in Keys : ~ ValidateRecoveredMeta(Load[k])
              \/ \E n \in 1 .. Len(frames) : ~ ValidateRecoveredMeta(frames[n].meta)
              \/ DeletesAbsent(Load, frames)
              \/ DuplicateBlock(map)
           THEN mode' = "refused" /\ UNCHANGED <<index, free, replayed, haunted>>
           ELSE /\ mode' = "up"
                /\ index' = map
                /\ free' = RebuildFromActive(map)
                /\ replayed' = Len(frames) /\ haunted' = (haunted /\ synced < Len(frames))
    /\ level' \in Levels
    /\ lives' = lives + 1
    /\ UNCHANGED <<pc, op, values, log, ops, faults, damaged>>

Next ==
    \/ \E k \in Keys : ExecutePut(k) \/ ExecuteDelete(k)
    \/ ValueWritten \/ ValueFails
    \/ LogFull \/ LogAppend \/ LogRetries \/ LogWrite \/ LogSync \/ Apply
    \/ ExecuteSnapshot \/ (\E l \in Levels : ExecuteSetWalLevel(l)) \/ CloseDc
    \/ FlushNothing \/ FlushWrite \/ FlushSync
    \/ SnapshotBegins \/ SnapshotEnds
    \/ Closed \/ Killed \/ PowerFails
    \/ RecoverDevice

Spec == Init /\ [][Next]_vars

---------------------------------------------------------------------------
(* Properties.                                                             *)

TypeOK ==
    /\ level \in Levels
    /\ index \in Maps
    /\ free \in Seq(Blocks)
    /\ pc \in {"idle", "write", "log", "log_write", "log_sync", "apply", "flush", "flush_sync",
               "snapshot", "snapshot_sync", "closed"}
    /\ mode \in {"up", "down", "refused"}
    /\ disk \in [Blocks -> Contents] /\ loose \in [Blocks -> SUBSET Contents]
    /\ base \in Maps
    /\ 0 <= synced /\ synced <= written /\ written <= Len(frames)
    /\ passed \in 0 .. written

\* The state has its type, and a block is free, or belongs to one key, or is being
\* written: none is lost and none is shared, through failures, rescues and restarts
\* (Acquire, Recycle, RebuildFromActive).
BlocksPartitioned ==
    /\ TypeOK
    /\ mode = "up" =>
           LET held == IF op.kind = "put" THEN {op.meta.block} ELSE {}
               idle == {free[i] : i \in 1 .. Len(free)}
           IN  /\ Len(free) = Cardinality(idle)
               /\ Cardinality(idle) + Cardinality(Active(index)) + Cardinality(held) = BlockCount
               /\ idle \cup Active(index) \cup held = Blocks
               /\ ~ DuplicateBlock(index)

\* Between operations the index is what a recovery of snapshot and whole log
\* would build: snapshots, rescues and recoveries lose no entry.  Only the frame of
\* an operation that failed after its Append sets them apart.
ReplayAgrees ==
    At("idle") /\ ~ haunted => index = ApplyWalEntry(base, frames)[Len(frames)]

\* Recovery meets a contradiction (a tombstone for an absent key, a block with two
\* owners: kWalRecoveryCorrupted, kEngineDuplicateBlock) only when the log holds
\* the frame of an operation that was reported as failed.
RefusesOnlyHaunted == mode = "refused" => haunted

\* Recovery is defined for every prefix of the log.
RecoveryAccepts == mode # "refused"

\* At a level that synchronises the log, whatever prefix a crash leaves, each
\* entry points to a block that still holds its value, durably if the value was
\* written with FUA: no block is reused while a recoverable entry needs it.
\* Frames that a recovery replayed from the device's cache must be synchronised
\* once before this can be said, and no frame may belong to a failed operation.
ValuesKept ==
    mode # "refused" /\ IsWalSyncLevel(level) /\ synced >= replayed /\ ~ haunted =>
        \A n \in synced .. written : \A k \in Keys :
            LET m == ApplyWalEntry(base, frames)[n][k]
            IN  m # None /\ m.val \notin damaged =>
                  /\ disk[m.block] = m.val
                  /\ m.fua => loose[m.block] = {}

\* No read reports a damaged value.
NoCorruptRead == mode = "up" => \A k \in Keys : ExecuteGet(k) # "corrupted"

\* The shard implements the map of VersionedMap: a step writes one key, makes
\* versions durable or ends a life, and only the end of a life loses versions.
\* What becomes of a frame whose operation failed is undefined until the next
\* snapshot, or a recovery that finds the log synchronised: steps of a haunted log
\* are let pass.
Plain(map) == [k \in Keys |-> map[k].val]
Abstract == INSTANCE VersionedMap WITH
    Values   <- 1 .. MaxOps,
    Absent   <- 0,
    versions <- [i \in 1 .. Len(frames) - synced + 1 |->
                   Plain(ApplyWalEntry(base, frames)[synced + i - 1])],
    up       <- mode = "up"
ImplementsVersionedMap == Abstract!Init /\ [][Abstract!Next \/ haunted]_(Abstract!vars)

==============================================================================
