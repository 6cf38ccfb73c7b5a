-------------------------------- MODULE WalRing --------------------------------
(***************************************************************************)
(* The write-ahead log of one device (wal/wal.cpp): a ring of blocks with  *)
(* a window buffer, both durability levels, reclaiming after a snapshot,   *)
(* power failures that tear unsynchronised writes, and Recover.            *)
(*                                                                         *)
(* A frame is <<sequence number, life>>; "life" counts the lives of the    *)
(* process and stands for the frame's content, so that a frame left over   *)
(* from an earlier life differs from a later one with the same number.     *)
(* Offsets are block numbers, sizes are counted in blocks or frames.  A    *)
(* call is a list of steps (todo), so that the power can fail between any  *)
(* two of them.  The threads of one batch are module CommitGroup; here a   *)
(* batch is a number of frames.  The snapshot is reduced to the sequence   *)
(* number it covers, and is durable when its Write succeeds.               *)
(***************************************************************************)
EXTENDS Integers, Sequences, FiniteSets

CONSTANTS
    BlockFrames,   \* frames in a block
    RingBlocks,    \* blocks in the ring
    BufBlocks,     \* blocks in the buffer
    Levels,        \* levels in use: "sync" (1, 3) and "batch" (2, 4)
    MaxBatch,      \* frames one synchronous batch holds at most
    MaxSeq,        \* bound: sequence numbers used
    MaxLives,      \* bound: restarts, after Close or a power failure
    MaxFaults      \* bound: failures of WriteAt, Sync and snapshots at run time

\* Wal::Open refuses a ring that is smaller than the buffer and one block.
ASSUME SizeAssumption ==
    /\ BlockFrames \in Nat \ {0} /\ BufBlocks \in Nat \ {0}
    /\ RingBlocks \in Nat /\ RingBlocks >= BufBlocks + 1
ASSUME LevelAssumption ==
    Levels \subseteq {"sync", "batch"} /\ Levels # {}
ASSUME BoundAssumption ==
    /\ MaxBatch \in Nat \ {0} /\ MaxSeq \in Nat /\ MaxLives \in Nat /\ MaxFaults \in Nat

VARIABLES
    platter,   \* per slot: contents since the last Sync, the current one last
    cur,       \* cur_off_ (tail), as a block number
    head,      \* head_off_
    buf,       \* frames in cur_buf_
    window,    \* window_bytes_, in blocks
    seq_next,  \* the next sequence number
    level,     \* opts_->wal_level
    covered,   \* covered_seq of the newest snapshot
    mode,      \* "up", "down", "erasing" (in Recover) or "refused"
    todo,      \* steps left of the call in progress
    local,     \* locals of the call: batch size, attempt, wrote, dirty, full
    last,      \* outcome of the last call
    faults,    \* failures so far
    life,      \* lives of the process so far
    history,   \* ghost: life in which each number was given out, or 0
    promised,  \* ghost: highest number whose durability a caller relies on
    half_erased,  \* ghost: an erasure was cut off before its fdatasync and none followed
    faithful   \* ghost: the last Recover replayed only accepted frames

device == <<platter>>
ring   == <<cur, head, buf, window, seq_next>>
call   == <<todo, local, last>>
past   == <<life, history, promised, half_erased, faithful>>
ghost  == <<faults, past>>
vars   == <<device, ring, level, covered, mode, call, ghost>>

Slots  == 0 .. RingBlocks * BlockFrames - 1
None   == <<0, 0>>
Frames == (0 .. MaxSeq) \X (0 .. MaxLives + 1)
Idle   == [size |-> 1, attempt |-> 1, wrote |-> FALSE, dirty |-> FALSE, full |-> FALSE]

Least(a, b) == IF a <= b THEN a ELSE b

---------------------------------------------------------------------------
(* Geometry.                                                               *)

\* The largest window at pos: the buffer, up to the seam, up to one block
\* before the head.
WindowAt(pos, h) ==
    LET live  == (pos + RingBlocks - h) % RingBlocks
        limit == RingBlocks - 1
        adm   == IF live >= limit THEN 0 ELSE limit - live
    IN  Least(BufBlocks, Least(RingBlocks - pos, adm))

Init ==
    /\ platter = [x \in Slots |-> <<None>>]
    /\ cur = 0 /\ head = 0 /\ buf = <<>>
    /\ window = WindowAt(0, 0)
    /\ seq_next = 1
    /\ level \in Levels
    /\ covered = 0
    /\ mode = "up"
    /\ todo = <<>> /\ local = Idle /\ last = "ok"
    /\ faults = 0
    /\ life = 1
    /\ history = [s \in 1 .. MaxSeq |-> 0]
    /\ promised = 0
    /\ half_erased = FALSE /\ faithful = TRUE

---------------------------------------------------------------------------
(* The device: writes are complete but not durable until Sync.             *)

Current(x) == platter[x][Len(platter[x])]

\* WriteAt: each slot in the domain of content receives its frame.
WriteAt(content) ==
    platter' = [x \in Slots |->
                  IF x \in DOMAIN content /\ content[x] # Current(x)
                  THEN Append(platter[x], content[x]) ELSE platter[x]]

Sync == platter' = [x \in Slots |-> <<Current(x)>>]

\* Slots whose content a power failure may take back.
Unsynced == {x \in Slots : Len(platter[x]) > 1}

Most == CHOOSE m \in {Len(platter[x]) : x \in Slots} : \A x \in Slots : Len(platter[x]) <= m

\* The power fails: each slot keeps one of its contents since the last Sync.
Torn ==
    \E pick \in [Unsynced -> 1 .. Most] :
        /\ \A x \in Unsynced : pick[x] <= Len(platter[x])
        /\ platter' = [x \in Slots |->
                         <<platter[x][IF x \in Unsynced THEN pick[x] ELSE 1]>>]

\* A request to the device, if one is made, may fail.
Outcomes(made) == IF made /\ faults < MaxFaults THEN BOOLEAN ELSE {TRUE}
Count(ok) == faults' = IF ok THEN faults ELSE faults + 1

---------------------------------------------------------------------------
(* The window.                                                             *)

\* Blocks the buffered frames take, and the slots they go to.
UsedBlocks == (Len(buf) + BlockFrames - 1) \div BlockFrames
Span == cur * BlockFrames .. (cur + UsedBlocks) * BlockFrames - 1

\* WriteWindowSpan: the used blocks, the last one padded with zeros.
WriteWindowSpan ==
    WriteAt([x \in Span |-> LET i == x - cur * BlockFrames + 1
                            IN  IF i <= Len(buf) THEN buf[i] ELSE None])

\* Advances past a partial block and starts the next frame in a new one.
AdvanceAfterWrite_SkipsPartial ==
    LET next == cur + UsedBlocks
    IN  /\ cur' = IF next = RingBlocks THEN 0 ELSE next
        /\ buf' = <<>>
        /\ window' = WindowAt(cur', head)

\* Whole blocks are left behind, a partial block stays in the buffer and will be
\* written again; the window is opened anew.
AdvanceAfterWrite ==
    LET full == Len(buf) \div BlockFrames
        next == cur + full
    IN  /\ cur' = IF next = RingBlocks THEN 0 ELSE next
        /\ buf' = SubSeq(buf, full * BlockFrames + 1, Len(buf))
        /\ window' = WindowAt(cur', head)

WindowFull(w) == Len(buf) >= w * BlockFrames

\* Append: the only place where a sequence number is given out.
AppendEntry ==
    /\ seq_next <= MaxSeq
    /\ buf' = Append(buf, <<seq_next, life>>)
    /\ history' = [history EXCEPT ![seq_next] = life]
    /\ seq_next' = seq_next + 1

---------------------------------------------------------------------------
(* Calls.  Each starts on an idle log and leaves its steps in todo.        *)

Call(steps, size) ==
    /\ mode = "up"
    /\ todo = <<>>
    /\ todo' = steps
    /\ local' = [Idle EXCEPT !.size = size]
    /\ UNCHANGED <<device, ring, level, covered, mode, last, ghost>>

\* The steps of WriteWal at the present level.
WriteSteps(size) ==
    IF level = "sync" THEN [i \in 1 .. size |-> "admit"] \o <<"tail", "batch_sync">>
                      ELSE <<"write">>

\* WriteWal through WriteWalRescuing, or a batch of several writers.
WriteWal ==
    \E size \in 1 .. IF level = "sync" THEN MaxBatch ELSE 1 :
        /\ seq_next + size - 1 <= MaxSeq
        /\ Call(WriteSteps(size), size)

\* DoSnapshot, on request or by the growth of the log.
Snapshot == Call(<<"flush", "snapshot">>, 1)

Close == life <= MaxLives /\ Call(<<"flush", "close">>, 1)

\* ExecuteSetWalLevel: only a tightening flushes what has been batched.
SetWalLevel(l) ==
    /\ l # level
    /\ Call(IF l = "sync" THEN <<"flush", l>> ELSE <<l>>, 1)

---------------------------------------------------------------------------
(* Steps.                                                                  *)

At(step) == mode = "up" /\ todo # <<>> /\ Head(todo) = step
Return(outcome) == todo' = <<>> /\ local' = Idle /\ last' = outcome
Continue ==
    IF Len(todo) = 1 THEN Return("ok") ELSE todo' = Tail(todo) /\ UNCHANGED <<local, last>>

\* WriteWal found the ring full.  A single write is rescued by a snapshot and
\* tried once more.
Full ==
    IF local.size = 1 /\ local.attempt = 1
    THEN /\ todo' = <<"flush", "snapshot", "retry">>
         /\ local' = [Idle EXCEPT !.attempt = 2]
         /\ last' = last
    ELSE Return("full")

\* A step failed and the call returns; Close goes on to close the device.  The
\* failure of a rescuing snapshot is reported as a full ring.
Fail ==
    LET final == todo[Len(todo)]
    IN  IF final = "close" THEN todo' = <<"close">> /\ UNCHANGED <<local, last>>
        ELSE Return(IF final = "retry" THEN "no_rescue" ELSE "failed")

\* A failed WriteAt leaves the device with or without the frames.
WriteFails ==
    /\ Fail
    /\ WriteWindowSpan \/ UNCHANGED device

Retry ==
    /\ At("retry")
    /\ todo' = WriteSteps(1)
    /\ UNCHANGED <<device, ring, level, covered, mode, local, last, ghost>>

\* ProcessBatch, one frame: reopen a closed window or meet the wall; write out a
\* full window; append.
AdmitReopen ==
    /\ At("admit") /\ window = 0
    /\ window' = WindowAt(cur, head)
    /\ IF window' = 0
       THEN /\ todo' = <<"tail", "batch_sync">>
            /\ local' = [local EXCEPT !.full = TRUE]
       ELSE UNCHANGED <<todo, local>>
    /\ UNCHANGED <<device, cur, head, buf, seq_next, level, covered, mode, last, ghost>>

AdmitSegment ==
    /\ At("admit") /\ window # 0 /\ WindowFull(window)
    /\ \E ok \in Outcomes(TRUE) :
         /\ Count(ok)
         /\ IF ok
            THEN /\ WriteWindowSpan
                 /\ AdvanceAfterWrite
                 /\ local' = [local EXCEPT !.wrote = TRUE, !.dirty = FALSE, !.full = window' = 0]
                 /\ todo' = IF window' = 0 THEN <<"tail", "batch_sync">> ELSE todo
                 /\ last' = last
            ELSE WriteFails /\ UNCHANGED <<cur, buf, window>>
    /\ UNCHANGED <<head, seq_next, level, covered, mode, past>>

AdmitAppend ==
    /\ At("admit") /\ window # 0 /\ ~ WindowFull(window)
    /\ AppendEntry
    /\ todo' = Tail(todo)
    /\ local' = [local EXCEPT !.dirty = TRUE]
    /\ UNCHANGED <<device, cur, head, window, level, covered, mode, last, life, promised, half_erased, faithful, faults>>

\* The last segment of the batch.
BatchTail ==
    /\ At("tail")
    /\ \E ok \in Outcomes(local.dirty) :
         /\ Count(ok)
         /\ IF ~ local.dirty THEN Continue /\ UNCHANGED <<device, cur, buf, window>>
            ELSE IF ok
            THEN /\ WriteWindowSpan
                 /\ AdvanceAfterWrite
                 /\ todo' = Tail(todo)
                 /\ local' = [local EXCEPT !.wrote = TRUE, !.dirty = FALSE]
                 /\ last' = last
            ELSE WriteFails /\ UNCHANGED <<cur, buf, window>>
    /\ UNCHANGED <<head, seq_next, level, covered, mode, past>>

\* Promises the frames although fdatasync failed.
BatchSync_IgnoresOutcome ==
    /\ At("batch_sync")
    /\ \E ok \in Outcomes(local.wrote) :
         Count(ok) /\ IF ok THEN Sync ELSE UNCHANGED device
    /\ UNCHANGED half_erased
    /\ promised' = IF local.wrote THEN seq_next - 1 ELSE promised
    /\ IF local.full THEN Full ELSE Return("ok")
    /\ UNCHANGED <<ring, level, covered, mode, life, history, faithful>>

\* One fdatasync for the batch; success promises every frame given out so far.
BatchSync ==
    /\ At("batch_sync")
    /\ \E ok \in Outcomes(local.wrote) :
         /\ Count(ok)
         /\ IF ok
            THEN /\ IF local.wrote THEN Sync /\ half_erased' = FALSE /\ promised' = seq_next - 1
                                   ELSE UNCHANGED <<platter, half_erased, promised>>
                 /\ IF local.full THEN Full ELSE Return("ok")
            ELSE Fail /\ UNCHANGED <<device, half_erased, promised>>
    /\ UNCHANGED <<ring, level, covered, mode, life, history, faithful>>

\* Appends to a window that a failed Flush has left full.
BatchedWrite_Overfills ==
    /\ At("write")
    /\ LET w == IF window = 0 THEN WindowAt(cur, head) ELSE window
       IN  \/ /\ w = 0
              /\ Full
              /\ UNCHANGED <<ring, history>>
           \/ /\ w # 0
              /\ window' = w
              /\ AppendEntry
              /\ IF Len(buf') >= w * BlockFrames
                 THEN todo' = <<"flush">> /\ UNCHANGED <<local, last>>
                 ELSE Return("ok")
              /\ UNCHANGED <<cur, head>>
    /\ UNCHANGED <<device, level, covered, mode, life, promised, half_erased, faithful, faults>>

\* WriteWal at a batched level: full ring, a full window left by a failed Flush,
\* or append and flush when the window is full.
BatchedWrite ==
    /\ At("write")
    /\ LET w == IF window = 0 THEN WindowAt(cur, head) ELSE window
       IN  \/ /\ w = 0
              /\ Full
              /\ UNCHANGED <<ring, history>>
           \/ /\ w # 0 /\ WindowFull(w)
              /\ window' = w
              /\ todo' = <<"flush">> \o todo
              /\ UNCHANGED <<cur, head, buf, seq_next, local, last, history>>
           \/ /\ w # 0 /\ ~ WindowFull(w)
              /\ window' = w
              /\ AppendEntry
              /\ IF Len(buf') >= w * BlockFrames
                 THEN todo' = <<"flush">> /\ UNCHANGED <<local, last>>
                 ELSE Return("ok")
              /\ UNCHANGED <<cur, head>>
    /\ UNCHANGED <<device, level, covered, mode, life, promised, half_erased, faithful, faults>>

\* Flush: nothing to do at a synchronous level or with an empty buffer.
FlushWrite ==
    /\ At("flush")
    /\ LET idle == level = "sync" \/ buf = <<>>
       IN  \E ok \in Outcomes(~ idle) :
             /\ Count(ok)
             /\ IF idle THEN Continue /\ UNCHANGED device
                ELSE IF ok
                THEN /\ WriteWindowSpan
                     /\ todo' = <<"flush_sync">> \o Tail(todo)
                     /\ UNCHANGED <<local, last>>
                ELSE WriteFails
    /\ UNCHANGED <<ring, level, covered, mode, past>>

\* The tail moves only after fdatasync has succeeded.
FlushSync ==
    /\ At("flush_sync")
    /\ \E ok \in Outcomes(TRUE) :
         /\ Count(ok)
         /\ IF ok THEN Sync /\ half_erased' = FALSE /\ AdvanceAfterWrite /\ promised' = seq_next - 1 /\ Continue
                  ELSE Fail /\ UNCHANGED <<device, cur, buf, window, half_erased, promised>>
    /\ UNCHANGED <<head, seq_next, level, covered, mode, life, history, faithful>>

\* Keeps the head where it is.
TakeSnapshot_NoReclaim ==
    /\ At("snapshot")
    /\ covered' = seq_next - 1
    /\ Continue
    /\ UNCHANGED <<device, ring, level, mode, ghost>>

\* The rest of DoSnapshot: the snapshot covers every number given out, then
\* ReclaimUpTo moves the head to the tail.  A snapshot whose Write fails may yet
\* be found on the device; nothing is reclaimed for it.
TakeSnapshot ==
    /\ At("snapshot")
    /\ \E ok \in Outcomes(TRUE) :
         /\ Count(ok)
         /\ IF ok THEN covered' = seq_next - 1 /\ head' = cur /\ Continue
                  ELSE covered' \in {covered, seq_next - 1} /\ head' = head /\ Fail
    /\ UNCHANGED <<device, cur, buf, window, seq_next, level, mode, past>>

SwitchLevel ==
    /\ \E l \in Levels : At(l) /\ level' = l
    /\ Continue
    /\ UNCHANGED <<device, ring, covered, mode, ghost>>

\* Nothing in memory outlives the process.
Forget ==
    /\ cur' = 0 /\ head' = 0 /\ buf' = <<>> /\ window' = 0 /\ seq_next' = 1
    /\ todo' = <<>> /\ local' = Idle /\ last' = "ok"

CloseDevice ==
    /\ At("close")
    /\ life <= MaxLives /\ life' = life + 1
    /\ Forget
    /\ mode' = "down"
    /\ UNCHANGED <<device, level, covered, history, promised, half_erased, faithful, faults>>

\* The machine stops at any moment, Recover included.
PowerFailure ==
    /\ mode # "refused"
    /\ life <= MaxLives /\ life' = life + 1
    /\ Torn
    /\ Forget
    /\ mode' = "down"
    /\ UNCHANGED <<level, covered, history, promised, half_erased, faithful, faults>>

\* The process dies; the device keeps what it was given, durable or not.
Kill ==
    /\ mode \in {"up", "erasing"}
    /\ life <= MaxLives /\ life' = life + 1
    /\ Forget
    /\ mode' = "down"
    /\ half_erased' = (half_erased \/ mode = "erasing")
    /\ UNCHANGED <<device, level, covered, history, promised, faithful, faults>>

---------------------------------------------------------------------------
(* Recover.                                                                *)

Block(x) == x \div BlockFrames
Seq0(x)  == Current(x)[1]
Ahead(x, n) == (x + n) % (RingBlocks * BlockFrames)

Valid == {x \in Slots : Seq0(x) # 0}
Live  == {x \in Valid : Seq0(x) > covered}

\* CensusScan, then the walk from the first live frame over consecutive numbers,
\* and the sweep of the rest of the ring.  The tail follows from the last frame
\* replayed, or from the newest frame when none is live.
Survey ==
    LET valid  == Valid
        live   == Live
        first  == CHOOSE x \in live : \A y \in live :
                    Seq0(x) < Seq0(y) \/ (Seq0(x) = Seq0(y) /\ x <= y)
        newest == CHOOSE x \in valid : \A y \in valid :
                    Seq0(x) > Seq0(y) \/ (Seq0(x) = Seq0(y) /\ x <= y)
        broken == {n \in 0 .. Cardinality(Slots) - 1 : Seq0(Ahead(first, n)) # covered + 1 + n}
        replayed == IF live = {} THEN 0
                    ELSE IF broken = {} THEN Cardinality(Slots)
                    ELSE CHOOSE n \in broken : \A m \in broken : n <= m
        run    == {Ahead(first, n) : n \in 0 .. replayed - 1}
        stop   == Ahead(first, replayed)
        anchor == IF replayed > 0 THEN Ahead(first, replayed - 1) ELSE newest
        full   == (anchor + 1) % BlockFrames = 0
        tail   == IF full THEN (Block(anchor) + 1) % RingBlocks ELSE Block(anchor)
    IN  [valid     |-> valid,
         live      |-> live,
         replayed  |-> replayed,
         run       |-> run,
         fragments |-> live \ run,
         first     |-> IF live = {} THEN 0 ELSE first,
         stop      |-> IF live = {} THEN 0 ELSE stop,
         anchor    |-> IF valid = {} THEN 0 ELSE Seq0(anchor),
         tail      |-> IF valid = {} THEN 0 ELSE tail,
         frames    |-> IF valid = {} \/ full THEN 0 ELSE (anchor % BlockFrames) + 1,
         head      |-> IF valid = {} THEN 0 ELSE IF live = {} THEN tail ELSE Block(first)]

\* The window that was being written when the walk stopped, and the fragments a
\* torn write may have left in it.
ZoneEnd(c) == Least(Block(c.stop) + BufBlocks, RingBlocks)
Tolerated(c, x) ==
    /\ x >= c.stop /\ x < ZoneEnd(c) * BlockFrames
    /\ Seq0(x) > covered + c.replayed
    /\ Seq0(x) <= covered + c.replayed + BufBlocks * BlockFrames

\* The closing self-check: the live region is what the walk crossed, the numbering
\* continues after the snapshot, every live frame is accounted for.
SelfCheck(c) ==
    LET crossed == Block(c.first + c.replayed - 1) - Block(c.first) + 1
    IN  /\ (c.tail + RingBlocks - c.head) % RingBlocks =
              IF c.live = {} THEN 0 ELSE crossed - (IF c.frames > 0 THEN 1 ELSE 0)
        /\ c.anchor >= covered
        /\ c.replayed + Cardinality(c.fragments) = Cardinality(c.live)

\* What Recover does not accept: a snapshot without any frame, a history whose
\* beginning is missing, live frames out of place, a failed self-check.
Acceptable(c) ==
    /\ c.valid = {} => covered = 0
    /\ c.live # {} => c.replayed > 0
    /\ \A x \in c.fragments : Tolerated(c, x)
    /\ SelfCheck(c)

\* Leaves the fragments where they are.
Erase_Nothing(c) == UNCHANGED platter

\* The blocks that hold fragments are cleared; the tail block is written again
\* with its frames and without what follows them.
Erase(c) ==
    LET zone  == (c.tail + (IF c.frames > 0 THEN 1 ELSE 0)) * BlockFrames
                     .. ZoneEnd(c) * BlockFrames - 1
        after == c.tail * BlockFrames + c.frames .. (c.tail + 1) * BlockFrames - 1
    IN  WriteAt([x \in zone \cup (IF c.frames > 0 THEN after ELSE {}) |-> None])

\* Recover up to the erasure's fdatasync, with the options of the new process.
Recover ==
    /\ mode = "down"
    /\ \E c \in {Survey} :
         /\ Acceptable(c)
         /\ cur' = c.tail
         /\ head' = c.head
         /\ buf' = [i \in 1 .. c.frames |-> Current(c.tail * BlockFrames + i - 1)]
         /\ seq_next' = c.anchor + 1
         /\ window' = WindowAt(c.tail, c.head)
         /\ IF c.fragments = {} THEN mode' = "up" /\ UNCHANGED platter
                                ELSE mode' = "erasing" /\ Erase(c)
         /\ faithful' = (half_erased \/ \A x \in c.run : Current(x)[2] = history[Seq0(x)])
         /\ history' = [s \in 1 .. MaxSeq |->
              IF \E x \in c.run : Seq0(x) = s
              THEN Current(CHOOSE x \in c.run : Seq0(x) = s)[2]
              ELSE IF s < seq_next' THEN history[s] ELSE 0]
    /\ level' \in Levels
    /\ UNCHANGED <<covered, call, life, promised, half_erased, faults>>

FinishErase ==
    /\ mode = "erasing"
    /\ Sync
    /\ mode' = "up"
    /\ half_erased' = FALSE
    /\ UNCHANGED <<ring, level, covered, call, life, history, promised, faithful, faults>>

Refuse ==
    /\ mode = "down"
    /\ ~ Acceptable(Survey)
    /\ mode' = "refused"
    /\ UNCHANGED <<device, ring, level, covered, call, ghost>>

\* Nothing is left to do.
Refused ==
    /\ mode = "refused"
    /\ UNCHANGED vars

Next ==
    \/ WriteWal \/ Snapshot \/ Close \/ \E l \in Levels : SetWalLevel(l)
    \/ Retry \/ AdmitReopen \/ AdmitSegment \/ AdmitAppend \/ BatchTail \/ BatchSync
    \/ BatchedWrite \/ FlushWrite \/ FlushSync \/ TakeSnapshot \/ SwitchLevel
    \/ CloseDevice \/ PowerFailure \/ Kill
    \/ Recover \/ FinishErase \/ Refuse \/ Refused

Spec == Init /\ [][Next]_vars

\* Open with create over a used device: the snapshot headers are cleared, the
\* ring is not.
Recreate ==
    /\ mode = "down" /\ life <= MaxLives
    /\ covered' = 0
    /\ cur' = 0 /\ head' = 0 /\ buf' = <<>> /\ seq_next' = 1
    /\ window' = WindowAt(0, 0)
    /\ mode' = "up"
    /\ life' = life + 1
    /\ history' = [s \in 1 .. MaxSeq |-> 0]
    /\ promised' = 0 /\ half_erased' = FALSE /\ faithful' = TRUE
    /\ level' \in Levels
    /\ UNCHANGED <<device, call, faults>>

RecreateSpec == Init /\ [][Next \/ Recreate]_vars

---------------------------------------------------------------------------
(* Properties.                                                             *)

Steps == {"admit", "tail", "batch_sync", "write", "retry", "flush", "flush_sync", "snapshot",
          "close", "sync", "batch"}

\* The type invariant.
TypeOK ==
    /\ \A x \in Slots : platter[x] # <<>>
    /\ \A x \in Slots : \A i \in 1 .. Len(platter[x]) : platter[x][i] \in Frames
    /\ cur \in 0 .. RingBlocks - 1 /\ head \in 0 .. RingBlocks - 1
    /\ \A i \in 1 .. Len(buf) : buf[i] \in Frames
    /\ window \in 0 .. BufBlocks
    /\ seq_next \in 1 .. MaxSeq + 1
    /\ level \in Levels /\ covered \in 0 .. MaxSeq
    /\ mode \in {"up", "down", "erasing", "refused"}
    /\ \A i \in 1 .. Len(todo) : todo[i] \in Steps
    /\ last \in {"ok", "full", "failed", "no_rescue"}
    /\ life \in 1 .. MaxLives + 1 /\ promised \in 0 .. MaxSeq /\ faults \in 0 .. MaxFaults

Missing(n) == \A x \in Slots : Seq0(x) # n

\* Unless a recovery has erased too much (ErasesOnlyUnpromised; it takes a buffer of three
\* blocks), Recover refuses a device in three cases only, none of which touches a promised
\* frame.  Frames beyond the snapshot survived a torn write but the first of them,
\* covered + 1, did not.  Or the hole is in an earlier window than the one being
\* written: one that was left behind when its fdatasync failed, or one that the life
\* before had written and this life replayed from the device's cache.  Or the snapshot
\* covers frames that were never made durable, since Flush does nothing at a synchronous
\* level: frames a failed write has left in the buffer, or frames replayed from the cache.
RefusesOnlyLostHead ==
    mode = "refused" =>
        \/ Live # {} /\ Missing(covered + 1) /\ promised <= covered
        \/ \E x \in Live : \E n \in covered + 1 .. Seq0(x) - 1 :
               /\ Missing(n) /\ n > promised
               /\ history[n] < Current(x)[2] \/ faults > 0
        \/ promised < covered /\ \A x \in Slots : Seq0(x) < covered

\* A frame a caller was told is durable is replayed, or covered by a snapshot,
\* after any number of failures, unless a recovery has erased too much
\* (ErasesOnlyUnpromised): a power failure during such an erasure may leave the next
\* Recover a log that ends before the promised frames.
PromisesSurvive == mode \in {"up", "erasing"} => promised < seq_next

\* Recover replays the frames that were accepted, never one of an earlier life that
\* happens to carry an expected sequence number.  The one exception: an erasure of such
\* frames was cut off before its fdatasync and the next Recover, which finds them gone,
\* synchronises nothing; the power fails before anything else does.
ReplayFaithful == faithful

\* What Recover erases was promised to nobody: the promised frames beyond the snapshot
\* are still in the ring when it has written its zeros (invariant 3 of the recovery design).
ErasesOnlyUnpromised == mode = "erasing" => \A n \in covered + 1 .. promised : ~ Missing(n)

\* The state has its type, a window never reaches past the seam of the ring or into
\* the last block before the head, and the frames in the buffer fit in it, also after
\* failed writes have left frames there (Append has no check of its own).
WindowInRing ==
    /\ TypeOK
    /\ mode = "up" =>
           /\ cur + UsedBlocks <= RingBlocks
           /\ ((cur + RingBlocks - head) % RingBlocks) + UsedBlocks <= RingBlocks - 1
           /\ Len(buf) <= BufBlocks * BlockFrames

\* The snapshot that rescues a write from a full ring always makes room for it
\* (the capacity check of Wal::Open).
RescueMakesRoom == last # "full"

==============================================================================
