------------------------------ MODULE CommitGroup ------------------------------
(***************************************************************************)
(* The commit group of the write-ahead log (wal/wal.cpp, synchronous       *)
(* levels 1 and 3).  Any number of threads call WriteWal; each pushes a    *)
(* node that lives on its own stack frame, one of them becomes the leader, *)
(* writes a whole batch with one fdatasync, stores the results in the      *)
(* nodes and wakes the others.                                             *)
(*                                                                         *)
(* One step is one atomic operation on shared memory, or one piece of      *)
(* ProcessBatch that touches only what the leader owns.  The orders are    *)
(* sequentially consistent, as the code asks of the operations on          *)
(* stack_head and leader_active; the one weaker load that may miss a push  *)
(* (Recheck) may miss it here too.  Where the ring geometry decides how    *)
(* large a window is, any window the ring could offer is possible: the     *)
(* geometry itself is module WalRing.                                      *)
(***************************************************************************)
EXTENDS Integers, Sequences

CONSTANTS
    Writers,      \* the threads that call WriteWal
    MaxCalls,     \* bound: calls the threads make together
    BlockFrames,  \* frames in a block (kWalBlockSize / kWalFrameSize)
    BufBlocks,    \* blocks in the buffer (buf_size_ / kWalBlockSize)
    Faults        \* may WriteAt and Sync of the device fail?

ASSUME CallsAssumption  == MaxCalls \in Nat
ASSUME BlockAssumption  == BlockFrames \in Nat \ {0}
ASSUME BufferAssumption == BufBlocks \in Nat \ {0}
ASSUME FaultsAssumption == Faults \in BOOLEAN

VARIABLES
    stack,          \* chain under commit_.stack_head, newest node first
    leader_active,  \* commit_.leader_active
    epoch,          \* commit_.epoch
    pc,             \* where each thread stands in WriteWal
    result,         \* node.result of each thread's current (or last) node
    seq,            \* sequence number of the frame of that node, 0 if none
    seen,           \* e in WaitResult: the epoch a thread took before it waits
    calls,          \* calls started so far
    batch,          \* chain a leader works on, in arrival order
    at,             \* position of the node in hand (n, then m, of ProcessBatch)
    wrote, dirty,   \* of ProcessBatch: a segment went out; frames still wait
    fail_rc,        \* of ProcessBatch: first failure
    verdict,        \* <<prefix_rc, suffix_rc, first_rejected>> of ProcessBatch
    n_frames,       \* frames in cur_buf_
    window,         \* window_bytes_, in frames
    seq_next,       \* the next sequence number
    written,        \* highest sequence number handed to the device
    durable         \* highest sequence number covered by a successful Sync

group == <<stack, leader_active, epoch>>
mine  == <<result, seq, seen, calls>>
work  == <<batch, at, wrote, dirty, fail_rc, verdict>>
log   == <<n_frames, window, seq_next, written, durable>>
vars  == <<group, pc, mine, work, log>>

Results  == {"pending", "ok", "full", "failed"}
NoVerdict == <<"ok", "ok", 0>>

\* Where a thread that holds leader_active can stand.
Leading  == {"drain", "admit", "fill", "epoch", "notify", "more", "resign"}
Electing == {"elect", "check", "retake"}
Waiting  == {"led", "wait", "snap", "again", "sleep", "asleep"}
Places   == {"idle"} \cup Leading \cup Electing \cup Waiting

Outcomes == IF Faults THEN BOOLEAN ELSE {TRUE}

\* Windows the ring can offer at the tail: whole blocks, at most the buffer,
\* none when the ring is full (WindowAt).
Windows == {k * BlockFrames : k \in 0 .. BufBlocks}

Init ==
    /\ stack = <<>>
    /\ leader_active = FALSE
    /\ epoch = 0
    /\ pc = [w \in Writers |-> "idle"]
    /\ result = [w \in Writers |-> "pending"]
    /\ seq = [w \in Writers |-> 0]
    /\ seen = [w \in Writers |-> 0]
    /\ calls = 0
    /\ batch = [w \in Writers |-> <<>>]
    /\ at = [w \in Writers |-> 1]
    /\ wrote = [w \in Writers |-> FALSE]
    /\ dirty = [w \in Writers |-> FALSE]
    /\ fail_rc = [w \in Writers |-> "ok"]
    /\ verdict = [w \in Writers |-> NoVerdict]
    /\ n_frames = 0
    /\ window \in Windows
    /\ seq_next = 1
    /\ written = 0
    /\ durable = 0

Goto(w, p) == pc' = [pc EXCEPT ![w] = p]

---------------------------------------------------------------------------
(* WriteWal: the node goes on the stack; whoever finds it empty stands     *)
(* for election.                                                           *)

PushWriter(w) ==
    /\ pc[w] = "idle"
    /\ calls < MaxCalls
    /\ calls' = calls + 1
    /\ result' = [result EXCEPT ![w] = "pending"]
    /\ seq' = [seq EXCEPT ![w] = 0]
    /\ stack' = <<w>> \o stack
    /\ Goto(w, IF stack = <<>> THEN "elect" ELSE "wait")
    /\ UNCHANGED <<leader_active, epoch, seen, work, log>>

\* Enters LeaderLoop whatever the flag was.
Elect_Always(w) ==
    /\ pc[w] = "elect"
    /\ leader_active' = TRUE
    /\ Goto(w, "drain")
    /\ UNCHANGED <<stack, epoch, mine, work, log>>

Elect(w) ==
    /\ pc[w] = "elect"
    /\ leader_active' = TRUE
    /\ Goto(w, IF leader_active THEN "wait" ELSE "drain")
    /\ UNCHANGED <<stack, epoch, mine, work, log>>

---------------------------------------------------------------------------
(* LeaderLoop and ProcessBatch.                                            *)

ReverseChain(chain) == [i \in 1 .. Len(chain) |-> chain[Len(chain) + 1 - i]]

Drain(w) ==
    /\ pc[w] = "drain"
    /\ stack' = <<>>
    /\ batch' = [batch EXCEPT ![w] = ReverseChain(stack)]
    /\ at' = [at EXCEPT ![w] = 1]
    /\ wrote' = [wrote EXCEPT ![w] = FALSE]
    /\ dirty' = [dirty EXCEPT ![w] = FALSE]
    /\ fail_rc' = [fail_rc EXCEPT ![w] = "ok"]
    /\ Goto(w, IF stack = <<>> THEN "more" ELSE "admit")
    /\ UNCHANGED <<leader_active, epoch, mine, verdict, log>>

\* The frame loop still has a node to admit.
Admitting(w) ==
    /\ pc[w] = "admit"
    /\ at[w] <= Len(batch[w])
    /\ fail_rc[w] = "ok"

\* The window is closed: reopen it, or stop at this node because the ring is
\* full.
ReopenWindow(w) ==
    /\ Admitting(w)
    /\ window = 0
    /\ \E x \in Windows :
         /\ window' = x
         /\ fail_rc' = [fail_rc EXCEPT ![w] = IF x = 0 THEN "full" ELSE "ok"]
    /\ UNCHANGED <<group, pc, mine, batch, at, wrote, dirty, verdict>>
    /\ UNCHANGED <<n_frames, seq_next, written, durable>>

\* AdvanceAfterWrite, for the counts this module keeps: a partial block stays
\* in the buffer.
Advanced == n_frames % BlockFrames

\* Forgets that the frames of this batch have left the buffer.
WriteSegment_KeepsDirty(w) ==
    /\ Admitting(w)
    /\ window # 0
    /\ n_frames >= window
    /\ \E x \in Windows :
         /\ window' = x
         /\ fail_rc' = [fail_rc EXCEPT ![w] = IF x = 0 THEN "full" ELSE "ok"]
    /\ wrote' = [wrote EXCEPT ![w] = TRUE]
    /\ n_frames' = Advanced
    /\ written' = seq_next - 1
    /\ UNCHANGED <<group, pc, mine, batch, at, dirty, verdict, seq_next, durable>>

\* The window is full: write it out in the middle of the batch, without Sync.
WriteSegment(w) ==
    /\ Admitting(w)
    /\ window # 0
    /\ n_frames >= window
    /\ \/ /\ \E x \in Windows :
               /\ window' = x
               /\ fail_rc' = [fail_rc EXCEPT ![w] = IF x = 0 THEN "full" ELSE "ok"]
          /\ wrote' = [wrote EXCEPT ![w] = TRUE]
          /\ dirty' = [dirty EXCEPT ![w] = FALSE]
          /\ n_frames' = Advanced
          /\ written' = seq_next - 1
       \/ /\ FALSE \in Outcomes
          /\ fail_rc' = [fail_rc EXCEPT ![w] = "failed"]
          /\ UNCHANGED <<wrote, dirty, window, n_frames, written>>
    /\ UNCHANGED <<group, pc, mine, batch, at, verdict, seq_next, durable>>

\* Appends without looking at the window.
AppendFrame_Unadmitted(w) ==
    /\ Admitting(w)
    /\ window # 0
    /\ seq' = [seq EXCEPT ![batch[w][at[w]]] = seq_next]
    /\ seq_next' = seq_next + 1
    /\ n_frames' = n_frames + 1
    /\ dirty' = [dirty EXCEPT ![w] = TRUE]
    /\ at' = [at EXCEPT ![w] = @ + 1]
    /\ UNCHANGED <<group, pc, result, seen, calls, batch, wrote, fail_rc, verdict>>
    /\ UNCHANGED <<window, written, durable>>

AppendFrame(w) ==
    /\ Admitting(w)
    /\ window # 0
    /\ n_frames < window
    /\ seq' = [seq EXCEPT ![batch[w][at[w]]] = seq_next]
    /\ seq_next' = seq_next + 1
    /\ n_frames' = n_frames + 1
    /\ dirty' = [dirty EXCEPT ![w] = TRUE]
    /\ at' = [at EXCEPT ![w] = @ + 1]
    /\ UNCHANGED <<group, pc, result, seen, calls, batch, wrote, fail_rc, verdict>>
    /\ UNCHANGED <<window, written, durable>>

\* The loop is over: every node is admitted or one was rejected.
LoopEnded(w) ==
    /\ pc[w] = "admit"
    /\ at[w] > Len(batch[w]) \/ fail_rc[w] # "ok"

\* The results are known.  The node in hand is the first one without a frame of
\* this batch (first_rejected): the suffix starts there, and keeps "full" even if
\* the prefix failed.
EndBatch(w, prefix) ==
    /\ verdict' = [verdict EXCEPT ![w] =
                     <<prefix, IF fail_rc[w] = "full" THEN "full" ELSE prefix, at[w]>>]
    /\ at' = [at EXCEPT ![w] = 1]
    /\ Goto(w, "fill")

\* A write failed in the frame loop: the device is not touched again.
StopOnFailure(w) ==
    /\ LoopEnded(w)
    /\ fail_rc[w] = "failed"
    /\ EndBatch(w, "failed")
    /\ UNCHANGED <<group, mine, batch, wrote, dirty, fail_rc, log>>

\* The last segment goes out; a failed write leaves the frames in the buffer.
WriteTail(w) ==
    /\ LoopEnded(w)
    /\ fail_rc[w] # "failed"
    /\ dirty[w]
    /\ \/ /\ window' \in Windows
          /\ n_frames' = Advanced
          /\ written' = seq_next - 1
          /\ wrote' = [wrote EXCEPT ![w] = TRUE]
          /\ dirty' = [dirty EXCEPT ![w] = FALSE]
          /\ UNCHANGED <<pc, at, verdict>>
       \/ /\ FALSE \in Outcomes
          /\ EndBatch(w, "failed")
          /\ UNCHANGED <<wrote, dirty, window, n_frames, written>>
    /\ UNCHANGED <<group, mine, batch, fail_rc, seq_next, durable>>

\* Answers without waiting for the outcome of fdatasync.
SyncBatch_IgnoresOutcome(w) ==
    /\ LoopEnded(w)
    /\ fail_rc[w] # "failed"
    /\ ~ dirty[w]
    /\ \/ wrote[w] /\ durable' = written
       \/ durable' = durable
    /\ EndBatch(w, "ok")
    /\ UNCHANGED <<group, mine, batch, wrote, dirty, fail_rc, n_frames, window, seq_next,
                   written>>

\* One fdatasync for all segments of the batch; none if nothing was written.
SyncBatch(w) ==
    /\ LoopEnded(w)
    /\ fail_rc[w] # "failed"
    /\ ~ dirty[w]
    /\ \/ /\ wrote[w]
          /\ durable' = written
          /\ EndBatch(w, "ok")
       \/ /\ wrote[w]
          /\ FALSE \in Outcomes
          /\ durable' = durable
          /\ EndBatch(w, "failed")
       \/ /\ ~ wrote[w]
          /\ durable' = durable
          /\ EndBatch(w, "ok")
    /\ UNCHANGED <<group, mine, batch, wrote, dirty, fail_rc, n_frames, window, seq_next,
                   written>>

\* The result for the node in hand.
Verdict(w) == IF at[w] >= verdict[w][3] THEN verdict[w][2] ELSE verdict[w][1]

\* Stores the result first and reads the successor from the node afterwards.
Fill_ReadsNextAfterStore(w) ==
    /\ pc[w] = "fill"
    /\ LET m == batch[w][at[w]]
           stored == result[m] # "pending"
       IN  /\ result' = [result EXCEPT ![m] = Verdict(w)]
           /\ at' = [at EXCEPT ![w] = IF stored THEN @ + 1 ELSE @]
           /\ Goto(w, IF stored /\ at[w] = Len(batch[w]) THEN "epoch" ELSE "fill")
    /\ UNCHANGED <<group, seq, seen, calls, batch, wrote, dirty, fail_rc, verdict, log>>

\* The successor is read, then the result is stored: the last access to the node.
Fill(w) ==
    /\ pc[w] = "fill"
    /\ LET m == batch[w][at[w]]
       IN  result' = [result EXCEPT ![m] = Verdict(w)]
    /\ at' = [at EXCEPT ![w] = @ + 1]
    /\ Goto(w, IF at[w] = Len(batch[w]) THEN "epoch" ELSE "fill")
    /\ UNCHANGED <<group, seq, seen, calls, batch, wrote, dirty, fail_rc, verdict, log>>

\* Changes the epoch but wakes nobody.
BumpEpoch_NoNotify(w) ==
    /\ pc[w] = "epoch"
    /\ epoch' = epoch + 1
    /\ Goto(w, "more")
    /\ UNCHANGED <<stack, leader_active, mine, work, log>>

BumpEpoch(w) ==
    /\ pc[w] = "epoch"
    /\ epoch' = epoch + 1
    /\ Goto(w, "notify")
    /\ UNCHANGED <<stack, leader_active, mine, work, log>>

\* Every thread blocked in epoch.wait compares the value again.  ProcessBatch
\* returns and its locals end.
NotifyAll(w) ==
    /\ pc[w] = "notify"
    /\ pc' = [v \in Writers |-> IF v = w THEN "more"
                                ELSE IF pc[v] = "asleep" THEN "sleep" ELSE pc[v]]
    /\ batch' = [batch EXCEPT ![w] = <<>>]
    /\ at' = [at EXCEPT ![w] = 1]
    /\ wrote' = [wrote EXCEPT ![w] = FALSE]
    /\ dirty' = [dirty EXCEPT ![w] = FALSE]
    /\ fail_rc' = [fail_rc EXCEPT ![w] = "ok"]
    /\ verdict' = [verdict EXCEPT ![w] = NoVerdict]
    /\ UNCHANGED <<group, mine, log>>

\* The acquire load of stack_head: it may miss a push, never invent one.
Recheck(w) ==
    /\ pc[w] = "more"
    /\ \/ stack # <<>> /\ Goto(w, "drain")
       \/ Goto(w, "resign")
    /\ UNCHANGED <<group, mine, work, log>>

Resign(w) ==
    /\ pc[w] = "resign"
    /\ leader_active' = FALSE
    /\ Goto(w, "check")
    /\ UNCHANGED <<stack, epoch, mine, work, log>>

\* Leaves without looking at the stack once more.
CheckAfterResign_Skipped(w) ==
    /\ pc[w] = "check"
    /\ Goto(w, "led")
    /\ UNCHANGED <<group, mine, work, log>>

CheckAfterResign(w) ==
    /\ pc[w] = "check"
    /\ Goto(w, IF stack = <<>> THEN "led" ELSE "retake")
    /\ UNCHANGED <<group, mine, work, log>>

\* Goes back to work without winning the flag.
Retake_WithoutFlag(w) ==
    /\ pc[w] = "retake"
    /\ leader_active' = TRUE
    /\ Goto(w, "drain")
    /\ UNCHANGED <<stack, epoch, mine, work, log>>

Retake(w) ==
    /\ pc[w] = "retake"
    /\ leader_active' = TRUE
    /\ Goto(w, IF leader_active THEN "led" ELSE "drain")
    /\ UNCHANGED <<stack, epoch, mine, work, log>>

---------------------------------------------------------------------------
(* WaitResult, for leaders and followers alike.                            *)

LeaveLeaderLoop(w) ==
    /\ pc[w] = "led"
    /\ Goto(w, "wait")
    /\ UNCHANGED <<group, mine, work, log>>

\* First and third step of WaitResult: look at the result.
LookAtResult(w) ==
    /\ \/ pc[w] = "wait"  /\ Goto(w, IF result[w] = "pending" THEN "snap" ELSE "idle")
       \/ pc[w] = "again" /\ Goto(w, IF result[w] = "pending" THEN "sleep" ELSE "idle")
    /\ seen' = [seen EXCEPT ![w] = IF result[w] = "pending" THEN @ ELSE 0]
    /\ UNCHANGED <<group, result, seq, calls, work, log>>

SnapEpoch(w) ==
    /\ pc[w] = "snap"
    /\ seen' = [seen EXCEPT ![w] = epoch]
    /\ Goto(w, "again")
    /\ UNCHANGED <<group, result, seq, calls, work, log>>

\* Goes to sleep whatever the epoch is now.
WaitEpoch_Unconditional(w) ==
    /\ pc[w] = "sleep"
    /\ Goto(w, "asleep")
    /\ UNCHANGED <<group, mine, work, log>>

\* epoch.wait(e): block only while the epoch still is e.
WaitEpoch(w) ==
    /\ pc[w] = "sleep"
    /\ Goto(w, IF epoch = seen[w] THEN "asleep" ELSE "wait")
    /\ seen' = [seen EXCEPT ![w] = IF epoch = @ THEN @ ELSE 0]
    /\ UNCHANGED <<group, result, seq, calls, work, log>>

---------------------------------------------------------------------------
\* What thread w does inside WriteWal, once it has been called.
Step(w) ==
    \/ Elect(w) \/ Drain(w)
    \/ ReopenWindow(w) \/ WriteSegment(w) \/ AppendFrame(w)
    \/ StopOnFailure(w) \/ WriteTail(w) \/ SyncBatch(w)
    \/ Fill(w) \/ BumpEpoch(w) \/ NotifyAll(w)
    \/ Recheck(w) \/ Resign(w) \/ CheckAfterResign(w) \/ Retake(w)
    \/ LeaveLeaderLoop(w) \/ LookAtResult(w) \/ SnapEpoch(w) \/ WaitEpoch(w)

\* All calls are made and have returned.
Done ==
    /\ calls = MaxCalls
    /\ \A w \in Writers : pc[w] = "idle"
    /\ UNCHANGED vars

Next == (\E w \in Writers : PushWriter(w) \/ Step(w)) \/ Done

Spec == Init /\ [][Next]_vars

\* A thread inside WriteWal keeps running (the operating system schedules it);
\* nothing obliges a thread to make another call.
FairSpec == Spec /\ \A w \in Writers : WF_vars(Step(w))

---------------------------------------------------------------------------
(* Properties.                                                             *)

Failures == {"ok", "full", "failed"}
Verdicts == {"ok", "failed"} \X Failures \X Nat

TypeGroup == stack \in Seq(Writers) /\ leader_active \in BOOLEAN /\ epoch \in Nat

TypeMine ==
    /\ pc \in [Writers -> Places]
    /\ result \in [Writers -> Results]
    /\ seq \in [Writers -> Nat]
    /\ seen \in [Writers -> Nat]
    /\ calls \in Nat

TypeWork ==
    /\ batch \in [Writers -> Seq(Writers)]
    /\ at \in [Writers -> Nat \ {0}]
    /\ wrote \in [Writers -> BOOLEAN]
    /\ dirty \in [Writers -> BOOLEAN]
    /\ fail_rc \in [Writers -> Failures]
    /\ verdict \in [Writers -> Verdicts]

TypeLog ==
    /\ n_frames \in Nat
    /\ window \in Windows
    /\ seq_next \in Nat \ {0}
    /\ written \in Nat
    /\ durable \in Nat

\* The type invariant, by groups of variables.
TypeOK == TypeGroup /\ TypeMine /\ TypeWork /\ TypeLog

\* I1: at most one thread owns the window, the buffer and the device, and
\* leader_active says whether there is one (LeaderLoop).
LeaderExclusion ==
    /\ \A v, w \in Writers : pc[v] \in Leading /\ pc[w] \in Leading => v = w
    /\ leader_active <=> \E w \in Writers : pc[w] \in Leading

\* I2: nodes on the stack are never abandoned: there is a leader, or a thread
\* that has yet to contest the election (D7, D8).
NoAbandonedWriter ==
    stack # <<>> => \E w \in Writers : pc[w] \in Leading \cup Electing

\* Positions of the chain a leader has still to touch: all of it while frames
\* are admitted, the rest of it while results are stored.
Untouched(w) ==
    CASE pc[w] = "admit" -> 1 .. Len(batch[w])
      [] pc[w] = "fill"  -> at[w] .. Len(batch[w])
      [] OTHER -> {}

\* I3: a leader only touches nodes whose owner is still inside WriteWal, for
\* the owner's stack frame, and the node with it, is gone as soon as it saw a
\* result (last-touch rule D3).
LastTouch ==
    \A w \in Writers : \A i \in Untouched(w) :
        LET owner == batch[w][i] IN pc[owner] # "idle" /\ result[owner] = "pending"

\* The assertion after LeaderLoop: a thread that has led finds its own result
\* stored, whoever processed its node (D10).
LeaderExitsFinal ==
    \A w \in Writers : pc[w] = "led" => result[w] # "pending"

\* WriteWal reports success on a synchronous level only for a frame that a
\* successful fdatasync covers (D16, D23).
DurableBeforeReturn ==
    \A w \in Writers : result[w] = "ok" => seq[w] \in 1 .. durable

\* Append never copies a frame past the window, hence past the buffer: a frame
\* fits in the open window, and a closed window leaves less than a block.
BufferBound ==
    IF window = 0 THEN n_frames < BlockFrames ELSE n_frames <= window

\* D19: when the ring turns out to be full, no frame of the batch is waiting in
\* the buffer for a write that would never come.
WallLeavesNoDirtyFrame ==
    \A w \in Writers : pc[w] = "admit" /\ fail_rc[w] = "full" => ~ dirty[w]

\* D21, D22: a thread never sleeps on a result that is already stored unless
\* the leader that stored it has still to wake everybody.
NoLostWakeup ==
    \A w \in Writers : pc[w] = "asleep" /\ result[w] # "pending" =>
        \E v \in Writers : pc[v] \in {"fill", "epoch", "notify"}

\* From some point on nobody calls WriteWal any more.
LoadEnds == <>[][calls' = calls]_calls

\* Under any load every call gets its result, whoever leads (D7, D21).  Its thread may then
\* still be kept in LeaderLoop by what others push, since a leader is re-elected without limit
\* (wal.cpp:631; D12 records the unbounded delay as a known limit): that a call also returns is
\* said only for a load that ends.
EveryCallAnswered ==
    /\ \A w \in Writers : pc[w] # "idle" ~> result[w] # "pending"
    /\ LoadEnds => \A w \in Writers : pc[w] # "idle" ~> pc[w] = "idle"

==============================================================================
