--------------------------- MODULE CommitGroupProofs ---------------------------
(***************************************************************************)
(* Proofs about CommitGroup, for any set of writers, any number of calls,  *)
(* any block and buffer size, with or without device faults.               *)
(***************************************************************************)
EXTENDS CommitGroup, TLAPS

USE CallsAssumption, BlockAssumption, BufferAssumption, FaultsAssumption

\* What WindowAt offers: nothing, or at least one whole block.
LEMMA WindowsFact ==
    /\ Windows \subseteq Nat
    /\ \A x \in Windows : x # 0 => x >= BlockFrames
    /\ 0 \in Windows
  <1>1. \A k \in 0 .. BufBlocks : k * BlockFrames \in Nat
    OBVIOUS
  <1>2. \A k \in 0 .. BufBlocks : k * BlockFrames # 0 => k * BlockFrames >= BlockFrames
    <2>1. SUFFICES ASSUME NEW k \in 0 .. BufBlocks, k # 0
                   PROVE k * BlockFrames >= BlockFrames
      OBVIOUS
    <2>2. k * BlockFrames = (k - 1) * BlockFrames + BlockFrames
      OBVIOUS
    <2>3. (k - 1) * BlockFrames >= 0
      BY <2>1
    <2> QED BY <2>2, <2>3
  <1>3. 0 * BlockFrames = 0
    OBVIOUS
  <1> QED BY <1>1, <1>2, <1>3 DEF Windows

\* AdvanceAfterWrite keeps less than a block in the buffer.
LEMMA AdvancedFact ==
    ASSUME n_frames \in Nat PROVE Advanced \in Nat /\ Advanced < BlockFrames
  BY DEF Advanced

\* Reversing the drained chain permutes its nodes.
LEMMA ReverseChainFact ==
    ASSUME NEW S, NEW s \in Seq(S)
    PROVE  /\ ReverseChain(s) \in Seq(S)
           /\ Len(ReverseChain(s)) = Len(s)
           /\ \A i \in 1 .. Len(s) : ReverseChain(s)[i] = s[Len(s) + 1 - i]
  BY DEF ReverseChain

\* Ending a batch (the exits of ProcessBatch) keeps the types of the
\* leader's own state.
LEMMA EndBatchType ==
    ASSUME TypeWork, NEW w \in Writers, NEW p \in {"ok", "failed"}, EndBatch(w, p)
    PROVE  at' \in [Writers -> Nat \ {0}] /\ verdict' \in [Writers -> Verdicts]
  <1>1. <<p, IF fail_rc[w] = "full" THEN "full" ELSE p, at[w]>> \in Verdicts
    BY DEF TypeWork, Verdicts, Failures
  <1> QED BY <1>1 DEF EndBatch, TypeWork

\* The state a Wal starts with (Open) is well typed.
LEMMA TypeInit == Init => TypeOK
  <1> SUFFICES ASSUME Init PROVE TypeOK
    OBVIOUS
  <1>1. TypeGroup
    <2>1. stack = <<>> /\ leader_active = FALSE /\ epoch = 0
      BY DEF Init
    <2>2. stack \in Seq(Writers) /\ epoch \in Nat
      BY <2>1
    <2>3. leader_active \in BOOLEAN
      BY <2>1
    <2> QED BY <2>2, <2>3 DEF TypeGroup
  <1>2. TypeMine
    BY DEF Init, TypeMine, Places, Results
  <1>3. TypeWork
    BY DEF Init, TypeWork, NoVerdict, Verdicts, Failures
  <1>4. TypeLog
    BY DEF Init, TypeLog
  <1> QED BY <1>1, <1>2, <1>3, <1>4 DEF TypeOK

\* Every atomic step of WriteWal, LeaderLoop and ProcessBatch keeps the
\* types.
LEMMA TypeStep == TypeOK /\ [Next]_vars => TypeOK'
  <1> SUFFICES ASSUME TypeOK, [Next]_vars PROVE TypeOK'
    OBVIOUS
  <1> USE DEF TypeOK, group, mine, work, log
  <1> USE DEF Places, Leading, Electing, Waiting, Goto
  <1>1. ASSUME NEW w \in Writers, PushWriter(w) PROVE TypeOK'
    <2>1. TypeGroup'
      BY <1>1 DEF PushWriter, TypeGroup, Results
    <2>2. TypeMine'
      BY <1>1 DEF PushWriter, TypeMine, Results
    <2>3. TypeWork'
      BY <1>1 DEF PushWriter, TypeWork
    <2>4. TypeLog'
      BY <1>1 DEF PushWriter, TypeLog
    <2> QED BY <2>1, <2>2, <2>3, <2>4
  <1>2. ASSUME NEW w \in Writers, Elect(w) PROVE TypeOK'
    <2>1. TypeGroup'
      BY <1>2 DEF Elect, TypeGroup
    <2>2. TypeMine'
      BY <1>2 DEF Elect, TypeMine
    <2>3. TypeWork'
      BY <1>2 DEF Elect, TypeWork
    <2>4. TypeLog'
      BY <1>2 DEF Elect, TypeLog
    <2> QED BY <2>1, <2>2, <2>3, <2>4
  <1>3. ASSUME NEW w \in Writers, Drain(w) PROVE TypeOK'
    <2>1. TypeGroup'
      BY <1>3 DEF Drain, TypeGroup
    <2>2. TypeMine'
      BY <1>3 DEF Drain, TypeMine
    <2>3. TypeWork'
      <3>1. ReverseChain(stack) \in Seq(Writers)
        BY ReverseChainFact DEF TypeGroup
      <3> QED BY <1>3, <3>1 DEF Drain, TypeWork, Failures
    <2>4. TypeLog'
      BY <1>3 DEF Drain, TypeLog
    <2> QED BY <2>1, <2>2, <2>3, <2>4
  <1>4. ASSUME NEW w \in Writers, ReopenWindow(w) PROVE TypeOK'
    <2>1. TypeGroup'
      BY <1>4 DEF ReopenWindow, TypeGroup
    <2>2. TypeMine'
      BY <1>4 DEF ReopenWindow, TypeMine
    <2>3. TypeWork'
      BY <1>4 DEF ReopenWindow, TypeWork, Admitting, Failures
    <2>4. TypeLog'
      BY <1>4 DEF ReopenWindow, TypeLog, Admitting
    <2> QED BY <2>1, <2>2, <2>3, <2>4
  <1>5. ASSUME NEW w \in Writers, WriteSegment(w) PROVE TypeOK'
    <2>1. TypeGroup'
      BY <1>5 DEF WriteSegment, TypeGroup
    <2>2. TypeMine'
      BY <1>5 DEF WriteSegment, TypeMine
    <2>3. TypeWork'
      BY <1>5 DEF WriteSegment, TypeWork, Admitting, Failures
    <2>4. TypeLog'
      <3>1. Advanced \in Nat /\ seq_next - 1 \in Nat
        BY AdvancedFact DEF TypeLog
      <3>2. n_frames' \in Nat /\ written' \in Nat /\ window' \in Windows
        BY <1>5, <3>1 DEF WriteSegment, TypeLog
      <3>3. seq_next' = seq_next /\ durable' = durable
        BY <1>5 DEF WriteSegment
      <3> QED BY <3>2, <3>3 DEF TypeLog
    <2> QED BY <2>1, <2>2, <2>3, <2>4
  <1>6. ASSUME NEW w \in Writers, AppendFrame(w) PROVE TypeOK'
    <2>1. TypeGroup'
      BY <1>6 DEF AppendFrame, TypeGroup
    <2>2. TypeMine'
      BY <1>6 DEF AppendFrame, TypeMine, Admitting, TypeWork, TypeLog
    <2>3. TypeWork'
      BY <1>6 DEF AppendFrame, TypeWork, Admitting, Failures
    <2>4. TypeLog'
      BY <1>6 DEF AppendFrame, TypeLog, Admitting
    <2> QED BY <2>1, <2>2, <2>3, <2>4
  <1>7. ASSUME NEW w \in Writers, StopOnFailure(w) PROVE TypeOK'
    <2>1. TypeGroup'
      BY <1>7 DEF StopOnFailure, TypeGroup
    <2>2. TypeMine'
      BY <1>7 DEF StopOnFailure, TypeMine, EndBatch, LoopEnded
    <2>3. TypeWork'
      BY <1>7, EndBatchType DEF StopOnFailure, TypeWork
    <2>4. TypeLog'
      BY <1>7 DEF StopOnFailure, TypeLog
    <2> QED BY <2>1, <2>2, <2>3, <2>4
  <1>8. ASSUME NEW w \in Writers, WriteTail(w) PROVE TypeOK'
    <2>1. TypeGroup'
      BY <1>8 DEF WriteTail, TypeGroup
    <2>2. TypeMine'
      BY <1>8 DEF WriteTail, TypeMine, EndBatch, LoopEnded
    <2>3. TypeWork'
      BY <1>8, EndBatchType DEF WriteTail, TypeWork
    <2>4. TypeLog'
      <3>1. Advanced \in Nat /\ seq_next - 1 \in Nat
        BY AdvancedFact DEF TypeLog
      <3>2. n_frames' \in Nat /\ written' \in Nat /\ window' \in Windows
        BY <1>8, <3>1 DEF WriteTail, TypeLog
      <3>3. seq_next' = seq_next /\ durable' = durable
        BY <1>8 DEF WriteTail
      <3> QED BY <3>2, <3>3 DEF TypeLog
    <2> QED BY <2>1, <2>2, <2>3, <2>4
  <1>9. ASSUME NEW w \in Writers, SyncBatch(w) PROVE TypeOK'
    <2>1. TypeGroup'
      BY <1>9 DEF SyncBatch, TypeGroup
    <2>2. TypeMine'
      BY <1>9 DEF SyncBatch, TypeMine, EndBatch, LoopEnded
    <2>3. TypeWork'
      BY <1>9, EndBatchType DEF SyncBatch, TypeWork
    <2>4. TypeLog'
      BY <1>9 DEF SyncBatch, TypeLog, EndBatch, LoopEnded
    <2> QED BY <2>1, <2>2, <2>3, <2>4
  <1>10. ASSUME NEW w \in Writers, Fill(w) PROVE TypeOK'
    <2>1. TypeGroup'
      BY <1>10 DEF Fill, TypeGroup
    <2>2. TypeMine'
      BY <1>10 DEF Fill, Verdict, TypeMine, Results, TypeWork, Verdicts, Failures
    <2>3. TypeWork'
      BY <1>10 DEF Fill, TypeWork, Results
    <2>4. TypeLog'
      BY <1>10 DEF Fill, TypeLog
    <2> QED BY <2>1, <2>2, <2>3, <2>4
  <1>11. ASSUME NEW w \in Writers, BumpEpoch(w) PROVE TypeOK'
    <2>1. TypeGroup'
      BY <1>11 DEF BumpEpoch, TypeGroup
    <2>2. TypeMine'
      BY <1>11 DEF BumpEpoch, TypeMine
    <2>3. TypeWork'
      BY <1>11 DEF BumpEpoch, TypeWork
    <2>4. TypeLog'
      BY <1>11 DEF BumpEpoch, TypeLog
    <2> QED BY <2>1, <2>2, <2>3, <2>4
  <1>12. ASSUME NEW w \in Writers, NotifyAll(w) PROVE TypeOK'
    <2>1. TypeGroup'
      BY <1>12 DEF NotifyAll, TypeGroup
    <2>2. TypeMine'
      BY <1>12 DEF NotifyAll, TypeMine
    <2>3. TypeWork'
      BY <1>12 DEF NotifyAll, TypeWork, NoVerdict, Verdicts, Failures
    <2>4. TypeLog'
      BY <1>12 DEF NotifyAll, TypeLog
    <2> QED BY <2>1, <2>2, <2>3, <2>4
  <1>13. ASSUME NEW w \in Writers, Recheck(w) PROVE TypeOK'
    <2>1. TypeGroup'
      BY <1>13 DEF Recheck, TypeGroup
    <2>2. TypeMine'
      BY <1>13 DEF Recheck, TypeMine
    <2>3. TypeWork'
      BY <1>13 DEF Recheck, TypeWork
    <2>4. TypeLog'
      BY <1>13 DEF Recheck, TypeLog
    <2> QED BY <2>1, <2>2, <2>3, <2>4
  <1>14. ASSUME NEW w \in Writers, Resign(w) PROVE TypeOK'
    <2>1. TypeGroup'
      BY <1>14 DEF Resign, TypeGroup
    <2>2. TypeMine'
      BY <1>14 DEF Resign, TypeMine
    <2>3. TypeWork'
      BY <1>14 DEF Resign, TypeWork
    <2>4. TypeLog'
      BY <1>14 DEF Resign, TypeLog
    <2> QED BY <2>1, <2>2, <2>3, <2>4
  <1>15. ASSUME NEW w \in Writers, CheckAfterResign(w) PROVE TypeOK'
    <2>1. TypeGroup'
      BY <1>15 DEF CheckAfterResign, TypeGroup
    <2>2. TypeMine'
      BY <1>15 DEF CheckAfterResign, TypeMine
    <2>3. TypeWork'
      BY <1>15 DEF CheckAfterResign, TypeWork
    <2>4. TypeLog'
      BY <1>15 DEF CheckAfterResign, TypeLog
    <2> QED BY <2>1, <2>2, <2>3, <2>4
  <1>16. ASSUME NEW w \in Writers, Retake(w) PROVE TypeOK'
    <2>1. TypeGroup'
      BY <1>16 DEF Retake, TypeGroup
    <2>2. TypeMine'
      BY <1>16 DEF Retake, TypeMine
    <2>3. TypeWork'
      BY <1>16 DEF Retake, TypeWork
    <2>4. TypeLog'
      BY <1>16 DEF Retake, TypeLog
    <2> QED BY <2>1, <2>2, <2>3, <2>4
  <1>17. ASSUME NEW w \in Writers, LeaveLeaderLoop(w) PROVE TypeOK'
    <2>1. TypeGroup'
      BY <1>17 DEF LeaveLeaderLoop, TypeGroup
    <2>2. TypeMine'
      BY <1>17 DEF LeaveLeaderLoop, TypeMine
    <2>3. TypeWork'
      BY <1>17 DEF LeaveLeaderLoop, TypeWork
    <2>4. TypeLog'
      BY <1>17 DEF LeaveLeaderLoop, TypeLog
    <2> QED BY <2>1, <2>2, <2>3, <2>4
  <1>18. ASSUME NEW w \in Writers, LookAtResult(w) PROVE TypeOK'
    <2>1. TypeGroup'
      BY <1>18 DEF LookAtResult, TypeGroup
    <2>2. TypeMine'
      BY <1>18 DEF LookAtResult, TypeMine
    <2>3. TypeWork'
      BY <1>18 DEF LookAtResult, TypeWork
    <2>4. TypeLog'
      BY <1>18 DEF LookAtResult, TypeLog
    <2> QED BY <2>1, <2>2, <2>3, <2>4
  <1>19. ASSUME NEW w \in Writers, SnapEpoch(w) PROVE TypeOK'
    <2>1. TypeGroup'
      BY <1>19 DEF SnapEpoch, TypeGroup
    <2>2. TypeMine'
      BY <1>19 DEF SnapEpoch, TypeMine, TypeGroup
    <2>3. TypeWork'
      BY <1>19 DEF SnapEpoch, TypeWork
    <2>4. TypeLog'
      BY <1>19 DEF SnapEpoch, TypeLog
    <2> QED BY <2>1, <2>2, <2>3, <2>4
  <1>20. ASSUME NEW w \in Writers, WaitEpoch(w) PROVE TypeOK'
    <2>1. TypeGroup'
      BY <1>20 DEF WaitEpoch, TypeGroup
    <2>2. TypeMine'
      BY <1>20 DEF WaitEpoch, TypeMine
    <2>3. TypeWork'
      BY <1>20 DEF WaitEpoch, TypeWork
    <2>4. TypeLog'
      BY <1>20 DEF WaitEpoch, TypeLog
    <2> QED BY <2>1, <2>2, <2>3, <2>4
  <1>21. CASE UNCHANGED vars
    BY <1>21 DEF vars, TypeGroup, TypeMine, TypeWork, TypeLog
  <1> QED
    BY <1>1, <1>2, <1>3, <1>4, <1>5, <1>6, <1>7, <1>8, <1>9, <1>10,
       <1>11, <1>12, <1>13, <1>14, <1>15, <1>16, <1>17, <1>18, <1>19, <1>20, <1>21
    DEF Next, Step, Done

\* Every variable of the commit group keeps its type, for any set of writers.
THEOREM TypeCorrect == Spec => []TypeOK
  BY TypeInit, TypeStep, PTL DEF Spec

---------------------------------------------------------------------------
(* I1 and I2: the flag and the stack.                                      *)

\* No step makes a second leader: the flag is taken by a test-and-set and given
\* up before the stack is looked at again.
LEMMA ExclusionStep == TypeOK /\ LeaderExclusion /\ [Next]_vars => LeaderExclusion'
  <1> SUFFICES ASSUME TypeMine, leader_active \in BOOLEAN, LeaderExclusion, [Next]_vars
               PROVE LeaderExclusion'
    BY DEF TypeOK, TypeGroup
  <1> USE DEF LeaderExclusion, TypeMine, group, mine, work, log, Leading, Goto
  <1>1. ASSUME NEW w \in Writers, PushWriter(w) PROVE LeaderExclusion'
    BY <1>1 DEF PushWriter
  <1>2. ASSUME NEW w \in Writers, Elect(w) PROVE LeaderExclusion'
    BY <1>2 DEF Elect
  <1>3. ASSUME NEW w \in Writers, Drain(w) PROVE LeaderExclusion'
    BY <1>3 DEF Drain
  <1>4. ASSUME NEW w \in Writers, ReopenWindow(w) PROVE LeaderExclusion'
    BY <1>4 DEF ReopenWindow, Admitting
  <1>5. ASSUME NEW w \in Writers, WriteSegment(w) PROVE LeaderExclusion'
    BY <1>5 DEF WriteSegment, Admitting
  <1>6. ASSUME NEW w \in Writers, AppendFrame(w) PROVE LeaderExclusion'
    BY <1>6 DEF AppendFrame, Admitting
  <1>7. ASSUME NEW w \in Writers, StopOnFailure(w) PROVE LeaderExclusion'
    BY <1>7 DEF StopOnFailure, EndBatch, LoopEnded
  <1>8. ASSUME NEW w \in Writers, WriteTail(w) PROVE LeaderExclusion'
    BY <1>8 DEF WriteTail, EndBatch, LoopEnded
  <1>9. ASSUME NEW w \in Writers, SyncBatch(w) PROVE LeaderExclusion'
    BY <1>9 DEF SyncBatch, EndBatch, LoopEnded
  <1>10. ASSUME NEW w \in Writers, Fill(w) PROVE LeaderExclusion'
    BY <1>10 DEF Fill
  <1>11. ASSUME NEW w \in Writers, BumpEpoch(w) PROVE LeaderExclusion'
    BY <1>11 DEF BumpEpoch
  <1>12. ASSUME NEW w \in Writers, NotifyAll(w) PROVE LeaderExclusion'
    BY <1>12 DEF NotifyAll
  <1>13. ASSUME NEW w \in Writers, Recheck(w) PROVE LeaderExclusion'
    BY <1>13 DEF Recheck
  <1>14. ASSUME NEW w \in Writers, Resign(w) PROVE LeaderExclusion'
    BY <1>14 DEF Resign
  <1>15. ASSUME NEW w \in Writers, CheckAfterResign(w) PROVE LeaderExclusion'
    BY <1>15 DEF CheckAfterResign
  <1>16. ASSUME NEW w \in Writers, Retake(w) PROVE LeaderExclusion'
    BY <1>16 DEF Retake
  <1>17. ASSUME NEW w \in Writers, LeaveLeaderLoop(w) PROVE LeaderExclusion'
    BY <1>17 DEF LeaveLeaderLoop
  <1>18. ASSUME NEW w \in Writers, LookAtResult(w) PROVE LeaderExclusion'
    BY <1>18 DEF LookAtResult
  <1>19. ASSUME NEW w \in Writers, SnapEpoch(w) PROVE LeaderExclusion'
    BY <1>19 DEF SnapEpoch
  <1>20. ASSUME NEW w \in Writers, WaitEpoch(w) PROVE LeaderExclusion'
    BY <1>20 DEF WaitEpoch
  <1>21. CASE UNCHANGED vars
    BY <1>21 DEF vars
  <1> QED
    BY <1>1, <1>2, <1>3, <1>4, <1>5, <1>6, <1>7, <1>8, <1>9, <1>10, <1>11, <1>12,
       <1>13, <1>14, <1>15, <1>16, <1>17, <1>18, <1>19, <1>20, <1>21
    DEF Next, Step, Done

\* I1 of the design: whatever the number of writers, at most one thread is the
\* leader, and leader_active is set exactly while there is one.
THEOREM OneLeader == Spec => []LeaderExclusion
  <1>1. Init => LeaderExclusion
    BY DEF Init, LeaderExclusion, Leading
  <1> QED BY <1>1, ExclusionStep, TypeCorrect, PTL DEF Spec

\* NoAbandonedWriter as it is maintained: while the flag is down, the node that
\* made the stack non-empty, or the thread that has just resigned, will look.
Responsible == stack # <<>> => leader_active \/ \E w \in Writers : pc[w] \in Electing

\* No step leaves a node on the stack with nobody to look at it: push,
\* election, resignation and the check after it hand the duty on.
LEMMA ResponsibleStep == TypeOK /\ Responsible /\ [Next]_vars => Responsible'
  <1> SUFFICES ASSUME TypeMine, TypeGroup, Responsible, [Next]_vars
               PROVE Responsible'
    BY DEF TypeOK
  <1> USE DEF Responsible, TypeMine, TypeGroup, group, mine, work, log, Electing, Goto
  <1>1. ASSUME NEW w \in Writers, PushWriter(w) PROVE Responsible'
    BY <1>1 DEF PushWriter
  <1>2. ASSUME NEW w \in Writers, Elect(w) PROVE Responsible'
    BY <1>2 DEF Elect
  <1>3. ASSUME NEW w \in Writers, Drain(w) PROVE Responsible'
    BY <1>3 DEF Drain
  <1>4. ASSUME NEW w \in Writers, ReopenWindow(w) PROVE Responsible'
    BY <1>4 DEF ReopenWindow, Admitting
  <1>5. ASSUME NEW w \in Writers, WriteSegment(w) PROVE Responsible'
    BY <1>5 DEF WriteSegment, Admitting
  <1>6. ASSUME NEW w \in Writers, AppendFrame(w) PROVE Responsible'
    BY <1>6 DEF AppendFrame, Admitting
  <1>7. ASSUME NEW w \in Writers, StopOnFailure(w) PROVE Responsible'
    BY <1>7 DEF StopOnFailure, EndBatch, LoopEnded
  <1>8. ASSUME NEW w \in Writers, WriteTail(w) PROVE Responsible'
    BY <1>8 DEF WriteTail, EndBatch, LoopEnded
  <1>9. ASSUME NEW w \in Writers, SyncBatch(w) PROVE Responsible'
    BY <1>9 DEF SyncBatch, EndBatch, LoopEnded
  <1>10. ASSUME NEW w \in Writers, Fill(w) PROVE Responsible'
    BY <1>10 DEF Fill
  <1>11. ASSUME NEW w \in Writers, BumpEpoch(w) PROVE Responsible'
    BY <1>11 DEF BumpEpoch
  <1>12. ASSUME NEW w \in Writers, NotifyAll(w) PROVE Responsible'
    BY <1>12 DEF NotifyAll
  <1>13. ASSUME NEW w \in Writers, Recheck(w) PROVE Responsible'
    BY <1>13 DEF Recheck
  <1>14. ASSUME NEW w \in Writers, Resign(w) PROVE Responsible'
    BY <1>14 DEF Resign
  <1>15. ASSUME NEW w \in Writers, CheckAfterResign(w) PROVE Responsible'
    BY <1>15 DEF CheckAfterResign
  <1>16. ASSUME NEW w \in Writers, Retake(w) PROVE Responsible'
    BY <1>16 DEF Retake
  <1>17. ASSUME NEW w \in Writers, LeaveLeaderLoop(w) PROVE Responsible'
    BY <1>17 DEF LeaveLeaderLoop
  <1>18. ASSUME NEW w \in Writers, LookAtResult(w) PROVE Responsible'
    BY <1>18 DEF LookAtResult
  <1>19. ASSUME NEW w \in Writers, SnapEpoch(w) PROVE Responsible'
    BY <1>19 DEF SnapEpoch
  <1>20. ASSUME NEW w \in Writers, WaitEpoch(w) PROVE Responsible'
    BY <1>20 DEF WaitEpoch
  <1>21. CASE UNCHANGED vars
    BY <1>21 DEF vars
  <1> QED
    BY <1>1, <1>2, <1>3, <1>4, <1>5, <1>6, <1>7, <1>8, <1>9, <1>10, <1>11, <1>12,
       <1>13, <1>14, <1>15, <1>16, <1>17, <1>18, <1>19, <1>20, <1>21
    DEF Next, Step, Done

\* I2 of the design: a node on the stack always has somebody who will drain it.
THEOREM NobodyAbandoned == Spec => []NoAbandonedWriter
  <1>1. Init => Responsible
    BY DEF Init, Responsible
  <1>2. Responsible /\ LeaderExclusion => NoAbandonedWriter
    BY DEF Responsible, LeaderExclusion, NoAbandonedWriter
  <1> QED BY <1>1, <1>2, ResponsibleStep, TypeCorrect, OneLeader, PTL DEF Spec

---------------------------------------------------------------------------
(* I3: who may touch which node.                                      *)

\* A node on the stack is pending, its owner waits, and it is there once.
StackNodes ==
    /\ \A i \in 1 .. Len(stack) : pc[stack[i]] # "idle" /\ result[stack[i]] = "pending"
    /\ \A i, j \in 1 .. Len(stack) : stack[i] = stack[j] => i = j

\* So is a node in a leader's chain that has no result yet; it left the stack.
ChainNodes ==
    \A w \in Writers : \A i \in Untouched(w) :
        /\ pc[batch[w][i]] # "idle"
        /\ result[batch[w][i]] = "pending"
        /\ \A j \in Untouched(w) : batch[w][i] = batch[w][j] => i = j
        /\ \A k \in 1 .. Len(stack) : stack[k] # batch[w][i]

\* A thread without a result is on the stack or in a leader's chain.
PendingNodes ==
    \A w \in Writers : pc[w] # "idle" /\ result[w] = "pending" =>
        \/ \E i \in 1 .. Len(stack) : stack[i] = w
        \/ \E v \in Writers : \E i \in Untouched(v) : batch[v][i] = w

\* Where the leader stands in its chain.
Positions ==
    \A w \in Writers :
        /\ pc[w] = "admit" => Len(batch[w]) >= 1 /\ at[w] <= Len(batch[w]) + 1
        /\ pc[w] = "fill"  => at[w] <= Len(batch[w])

\* A leader drained its own node before it took up its first batch, and has its
\* own result once that batch is answered.
Answered == {"epoch", "notify", "more", "resign", "check", "retake", "led"}
LeaderNode ==
    \A w \in Writers :
        /\ pc[w] \in {"admit", "fill"} => \A i \in 1 .. Len(stack) : stack[i] # w
        /\ pc[w] \in Answered => result[w] # "pending"

NodeInv == StackNodes /\ ChainNodes /\ PendingNodes /\ Positions /\ LeaderNode

\* A step that moves no node, stores no result and returns from no call.
Quiet ==
    /\ stack' = stack /\ result' = result
    /\ \A v \in Writers :
         /\ (pc'[v] = "idle") <=> (pc[v] = "idle")
         /\ Untouched(v)' = Untouched(v)
         /\ \A i \in Untouched(v) : batch'[v][i] = batch[v][i]

\* A step that leaves stack, chains, states and positions alone keeps NodeInv.
LEMMA QuietStep ==
    ASSUME TypeOK, StackNodes, ChainNodes, PendingNodes, Quiet
    PROVE  StackNodes' /\ ChainNodes' /\ PendingNodes'
  <1>1. \A v \in Writers : \A i \in Untouched(v) : batch[v][i] \in Writers
    BY DEF TypeOK, TypeWork, Untouched
  <1>2. \A i \in 1 .. Len(stack) : stack[i] \in Writers
    BY DEF TypeOK, TypeGroup
  <1>3. stack' = stack /\ result' = result
    BY DEF Quiet
  <1>4. \A v \in Writers : (pc'[v] = "idle") <=> (pc[v] = "idle")
    BY DEF Quiet
  <1>5. \A v \in Writers : Untouched(v)' = Untouched(v)
    BY DEF Quiet
  <1>6. \A v \in Writers : \A i \in Untouched(v) : batch'[v][i] = batch[v][i]
    BY DEF Quiet
  <1>7. StackNodes'
    BY <1>2, <1>3, <1>4 DEF StackNodes
  <1>8. ChainNodes'
    BY <1>1, <1>3, <1>4, <1>5, <1>6 DEF ChainNodes
  <1>9. PendingNodes'
    BY <1>3, <1>4, <1>5, <1>6 DEF PendingNodes
  <1> QED BY <1>7, <1>8, <1>9

\* The steps that end a batch leave every chain and every state alone.
LEMMA EndBatchQuiet ==
    ASSUME TypeOK, NEW w \in Writers, NEW p, pc[w] = "admit", EndBatch(w, p),
           stack' = stack, result' = result, batch' = batch
    PROVE  Quiet
  <1> USE DEF TypeOK, TypeMine, TypeWork
  <1>1. pc' = [pc EXCEPT ![w] = "fill"] /\ at' = [at EXCEPT ![w] = 1]
    BY DEF EndBatch, Goto
  <1>2. Untouched(w)' = Untouched(w)
    BY <1>1 DEF Untouched
  <1>3. \A v \in Writers \ {w} : Untouched(v)' = Untouched(v)
    BY <1>1 DEF Untouched
  <1> QED BY <1>1, <1>2, <1>3 DEF Quiet

\* The actions of ProcessBatch that only write, append or synchronise touch
\* no node of the stack or of a chain.
LEMMA QuietActions ==
    ASSUME TypeOK, Positions, NEW w \in Writers,
           \/ Elect(w) \/ ReopenWindow(w) \/ WriteSegment(w) \/ AppendFrame(w)
           \/ StopOnFailure(w) \/ WriteTail(w) \/ SyncBatch(w) \/ BumpEpoch(w)
           \/ NotifyAll(w) \/ Recheck(w) \/ Resign(w) \/ CheckAfterResign(w)
           \/ Retake(w) \/ LeaveLeaderLoop(w) \/ SnapEpoch(w) \/ WaitEpoch(w)
    PROVE  Quiet
  <1> USE DEF TypeOK, TypeMine, TypeWork, Quiet, Untouched, group, mine, work, log, Goto
  <1>1. CASE Elect(w)
    BY <1>1 DEF Elect
  <1>2. CASE ReopenWindow(w)
    BY <1>2 DEF ReopenWindow, Admitting
  <1>3. CASE WriteSegment(w)
    BY <1>3 DEF WriteSegment, Admitting
  <1>4. CASE AppendFrame(w)
    BY <1>4 DEF AppendFrame, Admitting
  <1>5. CASE StopOnFailure(w)
    BY <1>5, EndBatchQuiet DEF StopOnFailure, LoopEnded
  <1>6. CASE WriteTail(w)
    <2>1. CASE EndBatch(w, "failed")
      BY <1>6, <2>1, EndBatchQuiet DEF WriteTail, LoopEnded
    <2>2. CASE UNCHANGED <<pc, at, verdict>>
      BY <1>6, <2>2 DEF WriteTail
    <2> QED BY <1>6, <2>1, <2>2 DEF WriteTail
  <1>7. CASE SyncBatch(w)
    BY <1>7, EndBatchQuiet DEF SyncBatch, LoopEnded
  <1>8. CASE BumpEpoch(w)
    BY <1>8 DEF BumpEpoch
  <1>9. CASE NotifyAll(w)
    BY <1>9 DEF NotifyAll
  <1>10. CASE Recheck(w)
    BY <1>10 DEF Recheck
  <1>11. CASE Resign(w)
    BY <1>11 DEF Resign
  <1>12. CASE CheckAfterResign(w)
    BY <1>12 DEF CheckAfterResign
  <1>13. CASE Retake(w)
    BY <1>13 DEF Retake
  <1>14. CASE LeaveLeaderLoop(w)
    BY <1>14 DEF LeaveLeaderLoop
  <1>15. CASE SnapEpoch(w)
    BY <1>15 DEF SnapEpoch
  <1>16. CASE WaitEpoch(w)
    BY <1>16 DEF WaitEpoch
  <1> QED
    BY <1>1, <1>2, <1>3, <1>4, <1>5, <1>6, <1>7, <1>8, <1>9, <1>10, <1>11, <1>12,
       <1>13, <1>14, <1>15, <1>16

\* PushWriter puts a node on the stack that no chain and no other node holds.
LEMMA PushNodes ==
    ASSUME TypeOK, StackNodes, ChainNodes, PendingNodes, LeaderNode,
           NEW w \in Writers, PushWriter(w)
    PROVE  StackNodes' /\ ChainNodes' /\ PendingNodes' /\ LeaderNode'
  <1>0. /\ stack \in Seq(Writers)
        /\ pc \in [Writers -> Places] /\ result \in [Writers -> Results]
        /\ batch \in [Writers -> Seq(Writers)] /\ at \in [Writers -> Nat \ {0}]
        /\ verdict \in [Writers -> Verdicts]
    BY DEF TypeOK, TypeGroup, TypeMine, TypeWork
  <1>1. /\ pc[w] = "idle" /\ stack' = <<w>> \o stack /\ batch' = batch /\ at' = at
        /\ result' = [result EXCEPT ![w] = "pending"]
        /\ pc' \in {[pc EXCEPT ![w] = "elect"], [pc EXCEPT ![w] = "wait"]}
    BY DEF PushWriter, Goto, work
  <1>2. /\ Len(stack) \in Nat
        /\ Len(stack') = Len(stack) + 1
        /\ stack'[1] = w
        /\ \A i \in 1 .. Len(stack) : stack'[i + 1] = stack[i]
        /\ \A i \in 2 .. Len(stack') : stack'[i] = stack[i - 1] /\ i - 1 \in 1 .. Len(stack)
    BY <1>0, <1>1
  <1>3. \A v \in Writers : Untouched(v)' = Untouched(v)
    BY <1>0, <1>1 DEF Untouched
  <1>4. \A i \in 1 .. Len(stack) : stack[i] \in Writers /\ stack[i] # w
    BY <1>0, <1>1 DEF StackNodes
  <1>5. \A v \in Writers : \A i \in Untouched(v) : batch[v][i] \in Writers /\ batch[v][i] # w
    BY <1>0, <1>1 DEF ChainNodes, Untouched
  <1>6. \A v \in Writers \ {w} : pc'[v] = pc[v] /\ result'[v] = result[v]
    BY <1>0, <1>1
  <1>7. pc'[w] \in {"elect", "wait"} /\ result'[w] = "pending"
    BY <1>0, <1>1
  <1>8. StackNodes'
    <2>1. \A i \in 1 .. Len(stack') : pc'[stack'[i]] # "idle" /\ result'[stack'[i]] = "pending"
      <3>1. SUFFICES ASSUME NEW i \in 1 .. Len(stack')
                     PROVE  pc'[stack'[i]] # "idle" /\ result'[stack'[i]] = "pending"
        OBVIOUS
      <3>2. CASE i = 1
        BY <3>2, <1>2, <1>7
      <3>3. CASE i \in 2 .. Len(stack')
        BY <3>3, <1>2, <1>4, <1>6 DEF StackNodes
      <3> QED BY <3>2, <3>3, <1>2
    <2>2. ASSUME NEW i \in 1 .. Len(stack'), NEW j \in 1 .. Len(stack'), stack'[i] = stack'[j]
          PROVE i = j
      <3>1. CASE i = 1 \/ j = 1
        BY <3>1, <1>2, <1>4, <2>2
      <3>2. CASE i \in 2 .. Len(stack') /\ j \in 2 .. Len(stack')
        <4>1. i - 1 \in 1 .. Len(stack) /\ j - 1 \in 1 .. Len(stack) /\ stack[i - 1] = stack[j - 1]
          BY <3>2, <1>2, <2>2
        <4>2. i - 1 = j - 1
          BY <4>1 DEF StackNodes
        <4> QED BY <4>2, <3>2, <1>2
      <3> QED BY <3>1, <3>2, <1>2
    <2> QED BY <2>1, <2>2 DEF StackNodes
  <1>9. ChainNodes'
    <2>1. SUFFICES ASSUME NEW v \in Writers, NEW i \in Untouched(v)
                   PROVE  /\ pc'[batch[v][i]] # "idle"
                          /\ result'[batch[v][i]] = "pending"
                          /\ \A j \in Untouched(v) : batch[v][i] = batch[v][j] => i = j
                          /\ \A l \in 1 .. Len(stack') : stack'[l] # batch[v][i]
      BY <1>1, <1>3 DEF ChainNodes
    <2>2. \A l \in 1 .. Len(stack') : stack'[l] # batch[v][i]
      BY <1>2, <1>5 DEF ChainNodes
    <2> QED BY <2>2, <1>5, <1>6 DEF ChainNodes
  <1>10. PendingNodes'
    <2>1. SUFFICES ASSUME NEW u \in Writers, pc'[u] # "idle", result'[u] = "pending"
                   PROVE  \/ \E i \in 1 .. Len(stack') : stack'[i] = u
                          \/ \E v \in Writers : \E i \in Untouched(v) : batch[v][i] = u
      BY <1>1, <1>3 DEF PendingNodes
    <2>2. CASE u = w
      BY <2>2, <1>2
    <2>3. CASE u # w /\ \E i \in 1 .. Len(stack) : stack[i] = u
      <3>1. PICK i \in 1 .. Len(stack) : stack[i] = u
        BY <2>3
      <3>2. i + 1 \in 1 .. Len(stack') /\ stack'[i + 1] = u
        BY <3>1, <1>2
      <3> QED BY <3>2
    <2>4. CASE u # w /\ \E v \in Writers : \E i \in Untouched(v) : batch[v][i] = u
      BY <2>4
    <2> QED BY <2>1, <2>2, <2>3, <2>4, <1>6 DEF PendingNodes
  <1>11. LeaderNode'
    <2>1. ASSUME NEW u \in Writers, pc'[u] \in {"admit", "fill"}, NEW i \in 1 .. Len(stack')
          PROVE stack'[i] # u
      BY <2>1, <1>2, <1>6, <1>7 DEF LeaderNode
    <2>2. ASSUME NEW u \in Writers, pc'[u] \in Answered PROVE result'[u] # "pending"
      BY <2>2, <1>6, <1>7 DEF LeaderNode, Answered
    <2> QED BY <2>1, <2>2 DEF LeaderNode
  <1> QED BY <1>8, <1>9, <1>10, <1>11

\* Drain moves the whole stack into the leader's batch: nodes change their
\* place, none is lost or doubled.
LEMMA DrainNodes ==
    ASSUME TypeOK, LeaderExclusion, StackNodes, ChainNodes, PendingNodes, LeaderNode,
           NEW w \in Writers, Drain(w)
    PROVE  StackNodes' /\ ChainNodes' /\ PendingNodes' /\ LeaderNode'
  <1>0. /\ stack \in Seq(Writers)
        /\ pc \in [Writers -> Places] /\ result \in [Writers -> Results]
        /\ batch \in [Writers -> Seq(Writers)] /\ at \in [Writers -> Nat \ {0}]
        /\ verdict \in [Writers -> Verdicts]
    BY DEF TypeOK, TypeGroup, TypeMine, TypeWork
  <1>1. /\ pc[w] = "drain" /\ stack' = <<>> /\ result' = result
        /\ batch' = [batch EXCEPT ![w] = ReverseChain(stack)]
        /\ at' = [at EXCEPT ![w] = 1]
        /\ pc' = [pc EXCEPT ![w] = IF stack = <<>> THEN "more" ELSE "admit"]
    BY DEF Drain, Goto, mine
  <1>2. Len(stack') = 0 /\ (stack = <<>> <=> Len(stack) = 0) /\ Len(stack) \in Nat
    BY <1>0, <1>1
  <1>3. /\ Len(batch'[w]) = Len(stack)
        /\ \A i \in 1 .. Len(stack) : batch'[w][i] = stack[Len(stack) + 1 - i]
    BY <1>0, <1>1, ReverseChainFact
  <1>4. Untouched(w) = {} /\ \A v \in Writers \ {w} : Untouched(v) = {}
    BY <1>0, <1>1 DEF LeaderExclusion, Leading, Untouched
  <1>5. \A v \in Writers \ {w} : Untouched(v)' = {}
    BY <1>0, <1>1 DEF LeaderExclusion, Leading, Untouched
  <1>6. Untouched(w)' = 1 .. Len(stack)
    BY <1>0, <1>1, <1>2, <1>3 DEF Untouched
  <1>7. StackNodes'
    BY <1>2 DEF StackNodes
  <1>8. ChainNodes'
    <2>1. SUFFICES ASSUME NEW i \in 1 .. Len(stack)
                   PROVE  /\ pc'[batch'[w][i]] # "idle"
                          /\ result'[batch'[w][i]] = "pending"
                          /\ \A j \in 1 .. Len(stack) : batch'[w][i] = batch'[w][j] => i = j
      BY <1>2, <1>5, <1>6 DEF ChainNodes
    <2>2. Len(stack) + 1 - i \in 1 .. Len(stack)
      BY <1>2
    <2>3. pc'[batch'[w][i]] # "idle" /\ result'[batch'[w][i]] = "pending"
      <3>1. batch'[w][i] = stack[Len(stack) + 1 - i]
        BY <1>3
      <3>2. /\ stack[Len(stack) + 1 - i] \in Writers
            /\ pc[stack[Len(stack) + 1 - i]] # "idle"
            /\ result[stack[Len(stack) + 1 - i]] = "pending"
        BY <1>0, <2>2 DEF StackNodes
      <3> QED BY <1>0, <1>1, <3>1, <3>2
    <2>4. ASSUME NEW j \in 1 .. Len(stack), batch'[w][i] = batch'[w][j] PROVE i = j
      <3>1. Len(stack) + 1 - j \in 1 .. Len(stack)
        BY <1>2
      <3>2. Len(stack) + 1 - i = Len(stack) + 1 - j
        <4>1. stack[Len(stack) + 1 - i] = stack[Len(stack) + 1 - j]
          BY <1>3, <2>4
        <4> QED BY <4>1, <2>2, <3>1 DEF StackNodes
      <3> QED BY <1>2, <3>2
    <2> QED BY <2>3, <2>4
  <1>9. PendingNodes'
    <2>1. SUFFICES ASSUME NEW u \in Writers, pc[u] # "idle", result[u] = "pending"
                   PROVE  \E i \in 1 .. Len(stack) : batch'[w][i] = u
      BY <1>1, <1>6 DEF PendingNodes
    <2>2. PICK i \in 1 .. Len(stack) : stack[i] = u
      BY <2>1, <1>4 DEF PendingNodes
    <2>3. Len(stack) + 1 - i \in 1 .. Len(stack)
      BY <1>2
    <2>4. batch'[w][Len(stack) + 1 - i] = stack[Len(stack) + 1 - (Len(stack) + 1 - i)]
      BY <1>3, <2>3
    <2>5. Len(stack) + 1 - (Len(stack) + 1 - i) = i
      BY <1>2
    <2> QED BY <2>2, <2>3, <2>4, <2>5
  <1>10. LeaderNode'
    <2>1. stack = <<>> => result[w] # "pending"
      BY <1>1, <1>2, <1>4 DEF PendingNodes
    <2> QED BY <1>0, <1>1, <1>2, <2>1 DEF LeaderNode, Answered
  <1> QED BY <1>7, <1>8, <1>9, <1>10

\* Fill answers the node at the leader's position, which leaves the nodes
\* after it untouched and unanswered.
LEMMA FillNodes ==
    ASSUME TypeOK, LeaderExclusion, NodeInv, NEW w \in Writers, Fill(w)
    PROVE  StackNodes' /\ ChainNodes' /\ PendingNodes' /\ LeaderNode'
  <1>0. /\ stack \in Seq(Writers)
        /\ pc \in [Writers -> Places] /\ result \in [Writers -> Results]
        /\ batch \in [Writers -> Seq(Writers)] /\ at \in [Writers -> Nat \ {0}]
        /\ verdict \in [Writers -> Verdicts]
    BY DEF TypeOK, TypeGroup, TypeMine, TypeWork
  <1> DEFINE m == batch[w][at[w]]
  <1>1. /\ pc[w] = "fill" /\ stack' = stack /\ batch' = batch
        /\ result' = [result EXCEPT ![m] = Verdict(w)]
        /\ at' = [at EXCEPT ![w] = at[w] + 1]
        /\ pc' = [pc EXCEPT ![w] = IF at[w] = Len(batch[w]) THEN "epoch" ELSE "fill"]
    BY DEF Fill, Goto, group
  <1>2. at[w] \in 1 .. Len(batch[w]) /\ Len(batch[w]) \in Nat /\ at[w] \in Nat
    BY <1>0, <1>1 DEF NodeInv, Positions
  <1>3. Untouched(w) = at[w] .. Len(batch[w]) /\ at[w] \in Untouched(w)
    BY <1>0, <1>1, <1>2 DEF Untouched
  <1>4. m \in Writers /\ result[m] = "pending"
    BY <1>0, <1>2, <1>3 DEF NodeInv, ChainNodes
  <1>5. Verdict(w) # "pending"
    BY <1>0 DEF Verdict, Verdicts, Failures
  <1>6. \A v \in Writers \ {w} : Untouched(v) = {} /\ Untouched(v)' = {}
    BY <1>0, <1>1 DEF LeaderExclusion, Leading, Untouched
  <1>7. Untouched(w)' = Untouched(w) \ {at[w]}
    <2>1. CASE at[w] = Len(batch[w])
      BY <1>0, <2>1, <1>1, <1>2, <1>3 DEF Untouched
    <2>2. CASE at[w] # Len(batch[w])
      <3>1. pc'[w] = "fill" /\ at'[w] = at[w] + 1 /\ batch'[w] = batch[w]
        BY <1>0, <2>2, <1>1
      <3>2. Untouched(w)' = at[w] + 1 .. Len(batch[w])
        BY <3>1 DEF Untouched
      <3> QED BY <3>2, <1>2, <1>3
    <2> QED BY <2>1, <2>2
  <1>8. \A u \in Writers \ {m} : result'[u] = result[u]
    BY <1>0, <1>1
  <1>9. \A u \in Writers : (pc'[u] = "idle") <=> (pc[u] = "idle")
    BY <1>0, <1>1
  <1>10. \A i \in 1 .. Len(stack) : stack[i] \in Writers /\ stack[i] # m
    <2>1. \A i \in 1 .. Len(stack) : stack[i] # batch[w][at[w]]
      BY <1>3 DEF NodeInv, ChainNodes
    <2> QED BY <1>0, <2>1
  <1>11. \A i \in Untouched(w) : batch[w][i] \in Writers
    BY <1>0, <1>2, <1>3
  <1>12. \A i \in Untouched(w)' : batch[w][i] # m
    BY <1>3, <1>7 DEF NodeInv, ChainNodes
  <1>13. StackNodes'
    BY <1>1, <1>8, <1>9, <1>10 DEF NodeInv, StackNodes
  <1>14. ChainNodes'
    <2>1. SUFFICES ASSUME NEW i \in Untouched(w)'
                   PROVE  /\ pc'[batch[w][i]] # "idle"
                          /\ result'[batch[w][i]] = "pending"
                          /\ \A j \in Untouched(w)' : batch[w][i] = batch[w][j] => i = j
                          /\ \A l \in 1 .. Len(stack) : stack[l] # batch[w][i]
      BY <1>1, <1>6 DEF ChainNodes
    <2> QED BY <1>7, <1>8, <1>9, <1>11, <1>12 DEF NodeInv, ChainNodes
  <1>15. PendingNodes'
    <2>1. SUFFICES ASSUME NEW u \in Writers, pc'[u] # "idle", result'[u] = "pending"
                   PROVE  \/ \E i \in 1 .. Len(stack) : stack[i] = u
                          \/ \E i \in Untouched(w)' : batch[w][i] = u
      BY <1>1 DEF PendingNodes
    <2>2. u # m
      BY <2>1, <1>0, <1>1, <1>4, <1>5
    <2>3. pc[u] # "idle" /\ result[u] = "pending"
      BY <2>1, <2>2, <1>8, <1>9
    <2>4. \/ \E i \in 1 .. Len(stack) : stack[i] = u
          \/ \E i \in Untouched(w) : batch[w][i] = u
      BY <2>3, <1>6 DEF NodeInv, PendingNodes
    <2> QED BY <2>2, <2>4, <1>7
  <1>16. LeaderNode'
    <2>1. ASSUME at[w] = Len(batch[w]) PROVE result'[w] # "pending"
      <3>1. SUFFICES ASSUME result[w] = "pending" PROVE w = m
        BY <1>0, <1>1, <1>4, <1>5
      <3>2. \A i \in 1 .. Len(stack) : stack[i] # w
        BY <1>1 DEF NodeInv, LeaderNode
      <3>3. PICK i \in Untouched(w) : batch[w][i] = w
        BY <1>1, <1>6, <3>1, <3>2 DEF NodeInv, PendingNodes
      <3> QED BY <3>3, <1>2, <1>3, <2>1
    <2>2. ASSUME NEW u \in Writers, pc'[u] \in {"admit", "fill"}
          PROVE  \A i \in 1 .. Len(stack') : stack'[i] # u
      BY <2>2, <1>0, <1>1 DEF NodeInv, LeaderNode
    <2>3. ASSUME NEW u \in Writers, pc'[u] \in Answered PROVE result'[u] # "pending"
      BY <2>1, <2>3, <1>0, <1>1, <1>4, <1>5, <1>8 DEF NodeInv, LeaderNode, Answered
    <2> QED BY <2>2, <2>3 DEF LeaderNode
  <1> QED BY <1>13, <1>14, <1>15, <1>16

\* Reading a result moves a thread out of WaitResult only when its state is
\* final, so no node still on a chain loses its owner.
LEMMA LookNodes ==
    ASSUME TypeOK, StackNodes, ChainNodes, PendingNodes, LeaderNode,
           NEW w \in Writers, LookAtResult(w)
    PROVE  StackNodes' /\ ChainNodes' /\ PendingNodes' /\ LeaderNode'
  <1>0. /\ stack \in Seq(Writers)
        /\ pc \in [Writers -> Places] /\ result \in [Writers -> Results]
        /\ batch \in [Writers -> Seq(Writers)] /\ at \in [Writers -> Nat \ {0}]
        /\ verdict \in [Writers -> Verdicts]
    BY DEF TypeOK, TypeGroup, TypeMine, TypeWork
  <1>1. /\ stack' = stack /\ result' = result /\ batch' = batch /\ at' = at
        /\ pc[w] \in {"wait", "again"} /\ pc'[w] \in {"snap", "sleep", "idle"}
        /\ \A v \in Writers \ {w} : pc'[v] = pc[v]
        /\ pc'[w] = "idle" => result[w] # "pending"
    BY <1>0 DEF LookAtResult, Goto, group, work
  <1>2. \A v \in Writers : Untouched(v)' = Untouched(v)
    BY <1>0, <1>1 DEF Untouched
  <1>3. \A v \in Writers : \A i \in Untouched(v) : batch[v][i] \in Writers
    BY <1>0 DEF Untouched
  <1>4. \A i \in 1 .. Len(stack) : stack[i] \in Writers
    BY <1>0
  <1>5. StackNodes'
    BY <1>1, <1>4 DEF StackNodes
  <1>6. ChainNodes'
    BY <1>1, <1>2, <1>3 DEF ChainNodes
  <1>7. PendingNodes'
    BY <1>1, <1>2 DEF PendingNodes
  <1>8. LeaderNode'
    BY <1>1 DEF LeaderNode, Answered
  <1> QED BY <1>5, <1>6, <1>7, <1>8

\* A leader's position stays within its batch through every step.
LEMMA PositionsStep == TypeOK /\ Positions /\ [Next]_vars => Positions'
  <1> SUFFICES ASSUME TypeOK, Positions, [Next]_vars PROVE Positions'
    OBVIOUS
  <1>0. /\ pc \in [Writers -> Places]
        /\ at \in [Writers -> Nat \ {0}]
        /\ batch \in [Writers -> Seq(Writers)]
    BY DEF TypeOK, TypeMine, TypeWork
  <1> USE <1>0 DEF Positions, group, mine, work, log, Goto
  <1>1. ASSUME NEW w \in Writers, PushWriter(w) PROVE Positions'
    BY <1>1 DEF PushWriter
  <1>2. ASSUME NEW w \in Writers, Elect(w) PROVE Positions'
    BY <1>2 DEF Elect
  <1>3. ASSUME NEW w \in Writers, Drain(w) PROVE Positions'
    <2>1. Len(batch'[w]) = Len(stack) /\ Len(stack) \in Nat
      BY <1>3, ReverseChainFact DEF Drain, TypeOK, TypeGroup
    <2>2. stack # <<>> => Len(stack) >= 1
      BY DEF TypeOK, TypeGroup
    <2> QED BY <1>3, <2>1, <2>2 DEF Drain
  <1>4. ASSUME NEW w \in Writers, ReopenWindow(w) PROVE Positions'
    BY <1>4 DEF ReopenWindow, Admitting
  <1>5. ASSUME NEW w \in Writers, WriteSegment(w) PROVE Positions'
    BY <1>5 DEF WriteSegment, Admitting
  <1>6. ASSUME NEW w \in Writers, AppendFrame(w) PROVE Positions'
    <2>1. pc' = pc /\ batch' = batch /\ at' = [at EXCEPT ![w] = @ + 1] /\ at[w] <= Len(batch[w])
      BY <1>6 DEF AppendFrame, Admitting
    <2>2. Len(batch[w]) \in Nat /\ at[w] \in Nat /\ pc[w] = "admit"
      BY <1>6 DEF AppendFrame, Admitting
    <2> QED BY <2>1, <2>2
  <1>7. ASSUME NEW w \in Writers, StopOnFailure(w) PROVE Positions'
    BY <1>7 DEF StopOnFailure, EndBatch, LoopEnded
  <1>8. ASSUME NEW w \in Writers, WriteTail(w) PROVE Positions'
    BY <1>8 DEF WriteTail, EndBatch, LoopEnded
  <1>9. ASSUME NEW w \in Writers, SyncBatch(w) PROVE Positions'
    BY <1>9 DEF SyncBatch, EndBatch, LoopEnded
  <1>10. ASSUME NEW w \in Writers, Fill(w) PROVE Positions'
    BY <1>10 DEF Fill
  <1>11. ASSUME NEW w \in Writers, BumpEpoch(w) PROVE Positions'
    BY <1>11 DEF BumpEpoch
  <1>12. ASSUME NEW w \in Writers, NotifyAll(w) PROVE Positions'
    BY <1>12 DEF NotifyAll
  <1>13. ASSUME NEW w \in Writers, Recheck(w) PROVE Positions'
    BY <1>13 DEF Recheck
  <1>14. ASSUME NEW w \in Writers, Resign(w) PROVE Positions'
    BY <1>14 DEF Resign
  <1>15. ASSUME NEW w \in Writers, CheckAfterResign(w) PROVE Positions'
    BY <1>15 DEF CheckAfterResign
  <1>16. ASSUME NEW w \in Writers, Retake(w) PROVE Positions'
    BY <1>16 DEF Retake
  <1>17. ASSUME NEW w \in Writers, LeaveLeaderLoop(w) PROVE Positions'
    BY <1>17 DEF LeaveLeaderLoop
  <1>18. ASSUME NEW w \in Writers, LookAtResult(w) PROVE Positions'
    BY <1>18 DEF LookAtResult
  <1>19. ASSUME NEW w \in Writers, SnapEpoch(w) PROVE Positions'
    BY <1>19 DEF SnapEpoch
  <1>20. ASSUME NEW w \in Writers, WaitEpoch(w) PROVE Positions'
    BY <1>20 DEF WaitEpoch
  <1>21. CASE UNCHANGED vars
    BY <1>21 DEF vars
  <1> QED
    BY <1>1, <1>2, <1>3, <1>4, <1>5, <1>6, <1>7, <1>8, <1>9, <1>10, <1>11, <1>12,
       <1>13, <1>14, <1>15, <1>16, <1>17, <1>18, <1>19, <1>20, <1>21
    DEF Next, Step, Done

\* Every step of the commit group keeps the invariant on nodes.
LEMMA NodeStep == TypeOK /\ LeaderExclusion /\ NodeInv /\ [Next]_vars => NodeInv'
  <1> SUFFICES ASSUME TypeOK, LeaderExclusion, NodeInv, [Next]_vars PROVE NodeInv'
    OBVIOUS
  <1>p. Positions'
    BY PositionsStep DEF NodeInv
  <1>t. pc \in [Writers -> Places]
    BY DEF TypeOK, TypeMine
  <1> USE <1>t DEF NodeInv
  <1>1. ASSUME NEW w \in Writers, PushWriter(w) PROVE NodeInv'
    BY <1>1, <1>p, PushNodes
  <1>2. ASSUME NEW w \in Writers, Elect(w) PROVE NodeInv'
    <2>1. LeaderNode'
      BY <1>2 DEF Elect, LeaderNode, Answered, Goto, group, mine
    <2> QED BY <1>2, <2>1, <1>p, QuietActions, QuietStep
  <1>3. ASSUME NEW w \in Writers, Drain(w) PROVE NodeInv'
    BY <1>3, <1>p, DrainNodes
  <1>4. ASSUME NEW w \in Writers, ReopenWindow(w) PROVE NodeInv'
    <2>1. LeaderNode'
      BY <1>4 DEF ReopenWindow, LeaderNode, Answered, Goto, group, mine
    <2> QED BY <1>4, <2>1, <1>p, QuietActions, QuietStep
  <1>5. ASSUME NEW w \in Writers, WriteSegment(w) PROVE NodeInv'
    <2>1. LeaderNode'
      BY <1>5 DEF WriteSegment, LeaderNode, Answered, Goto, group, mine
    <2> QED BY <1>5, <2>1, <1>p, QuietActions, QuietStep
  <1>6. ASSUME NEW w \in Writers, AppendFrame(w) PROVE NodeInv'
    <2>1. LeaderNode'
      BY <1>6 DEF AppendFrame, LeaderNode, Answered, Goto, group, mine
    <2> QED BY <1>6, <2>1, <1>p, QuietActions, QuietStep
  <1>7. ASSUME NEW w \in Writers, StopOnFailure(w) PROVE NodeInv'
    <2>1. LeaderNode'
      BY <1>7 DEF StopOnFailure, LeaderNode, Answered, Goto, group, mine, EndBatch, LoopEnded
    <2> QED BY <1>7, <2>1, <1>p, QuietActions, QuietStep
  <1>8. ASSUME NEW w \in Writers, WriteTail(w) PROVE NodeInv'
    <2>1. LeaderNode'
      BY <1>8 DEF WriteTail, LeaderNode, Answered, Goto, group, mine, EndBatch, LoopEnded
    <2> QED BY <1>8, <2>1, <1>p, QuietActions, QuietStep
  <1>9. ASSUME NEW w \in Writers, SyncBatch(w) PROVE NodeInv'
    <2>1. LeaderNode'
      BY <1>9 DEF SyncBatch, LeaderNode, Answered, Goto, group, mine, EndBatch, LoopEnded
    <2> QED BY <1>9, <2>1, <1>p, QuietActions, QuietStep
  <1>10. ASSUME NEW w \in Writers, Fill(w) PROVE NodeInv'
    BY <1>10, <1>p, FillNodes
  <1>11. ASSUME NEW w \in Writers, BumpEpoch(w) PROVE NodeInv'
    <2>1. LeaderNode'
      BY <1>11 DEF BumpEpoch, LeaderNode, Answered, Goto, group, mine
    <2> QED BY <1>11, <2>1, <1>p, QuietActions, QuietStep
  <1>12. ASSUME NEW w \in Writers, NotifyAll(w) PROVE NodeInv'
    <2>1. LeaderNode'
      BY <1>12 DEF NotifyAll, LeaderNode, Answered, Goto, group, mine
    <2> QED BY <1>12, <2>1, <1>p, QuietActions, QuietStep
  <1>13. ASSUME NEW w \in Writers, Recheck(w) PROVE NodeInv'
    <2>1. LeaderNode'
      BY <1>13 DEF Recheck, LeaderNode, Answered, Goto, group, mine
    <2> QED BY <1>13, <2>1, <1>p, QuietActions, QuietStep
  <1>14. ASSUME NEW w \in Writers, Resign(w) PROVE NodeInv'
    <2>1. LeaderNode'
      BY <1>14 DEF Resign, LeaderNode, Answered, Goto, group, mine
    <2> QED BY <1>14, <2>1, <1>p, QuietActions, QuietStep
  <1>15. ASSUME NEW w \in Writers, CheckAfterResign(w) PROVE NodeInv'
    <2>1. LeaderNode'
      BY <1>15 DEF CheckAfterResign, LeaderNode, Answered, Goto, group, mine
    <2> QED BY <1>15, <2>1, <1>p, QuietActions, QuietStep
  <1>16. ASSUME NEW w \in Writers, Retake(w) PROVE NodeInv'
    <2>1. LeaderNode'
      BY <1>16 DEF Retake, LeaderNode, Answered, Goto, group, mine
    <2> QED BY <1>16, <2>1, <1>p, QuietActions, QuietStep
  <1>17. ASSUME NEW w \in Writers, LeaveLeaderLoop(w) PROVE NodeInv'
    <2>1. LeaderNode'
      BY <1>17 DEF LeaveLeaderLoop, LeaderNode, Answered, Goto, group, mine
    <2> QED BY <1>17, <2>1, <1>p, QuietActions, QuietStep
  <1>18. ASSUME NEW w \in Writers, LookAtResult(w) PROVE NodeInv'
    BY <1>18, <1>p, LookNodes
  <1>19. ASSUME NEW w \in Writers, SnapEpoch(w) PROVE NodeInv'
    <2>1. LeaderNode'
      BY <1>19 DEF SnapEpoch, LeaderNode, Answered, Goto, group, mine
    <2> QED BY <1>19, <2>1, <1>p, QuietActions, QuietStep
  <1>20. ASSUME NEW w \in Writers, WaitEpoch(w) PROVE NodeInv'
    <2>1. LeaderNode'
      BY <1>20 DEF WaitEpoch, LeaderNode, Answered, Goto, group, mine
    <2> QED BY <1>20, <2>1, <1>p, QuietActions, QuietStep
  <1>21. CASE UNCHANGED vars
    BY <1>21 DEF vars, group, mine, work, StackNodes, ChainNodes, PendingNodes,
                 Positions, LeaderNode, Untouched
  <1> QED
    BY <1>1, <1>2, <1>3, <1>4, <1>5, <1>6, <1>7, <1>8, <1>9, <1>10, <1>11, <1>12,
       <1>13, <1>14, <1>15, <1>16, <1>17, <1>18, <1>19, <1>20, <1>21
    DEF Next, Step, Done

\* The invariant on nodes holds in every state.
LEMMA NodeCorrect == Spec => []NodeInv
  <1>1. Init => NodeInv
    BY DEF Init, NodeInv, StackNodes, ChainNodes, PendingNodes, Positions, LeaderNode,
           Untouched, Answered
  <1> QED BY <1>1, NodeStep, TypeCorrect, OneLeader, PTL DEF Spec

\* I3 of the design: a leader never touches a node whose owner may have left.
THEOREM LeaderTouchesLiveNodes == Spec => []LastTouch
  <1>1. NodeInv => LastTouch
    BY DEF NodeInv, ChainNodes, LastTouch
  <1> QED BY <1>1, NodeCorrect, PTL

\* The assertion of WriteWal after LeaderLoop never fails.
THEOREM LeaderHasResult == Spec => []LeaderExitsFinal
  <1>1. NodeInv => LeaderExitsFinal
    BY DEF NodeInv, LeaderNode, Answered, LeaderExitsFinal
  <1> QED BY <1>1, NodeCorrect, PTL

---------------------------------------------------------------------------
(* The window: admission and the wall.                                     *)

\* No step appends past the window that OpenWindow admitted.
LEMMA BufferStep == TypeOK /\ BufferBound /\ [Next]_vars => BufferBound'
  <1> SUFFICES ASSUME TypeLog, BufferBound, [Next]_vars PROVE BufferBound'
    BY DEF TypeOK
  <1>0. window \in Nat
    BY WindowsFact DEF TypeLog
  <1> USE DEF BufferBound, TypeLog, group, mine, work, log
  <1>1. ASSUME NEW w \in Writers, PushWriter(w) PROVE BufferBound'
    BY <1>1 DEF PushWriter
  <1>2. ASSUME NEW w \in Writers, Elect(w) PROVE BufferBound'
    BY <1>2 DEF Elect
  <1>3. ASSUME NEW w \in Writers, Drain(w) PROVE BufferBound'
    BY <1>3 DEF Drain
  <1>4. ASSUME NEW w \in Writers, ReopenWindow(w) PROVE BufferBound'
    BY <1>4, <1>0, WindowsFact DEF ReopenWindow
  <1>5. ASSUME NEW w \in Writers, WriteSegment(w) PROVE BufferBound'
    <2>1. Advanced \in Nat /\ Advanced < BlockFrames
      BY AdvancedFact
    <2>2. \/ n_frames' = Advanced /\ window' \in Windows
          \/ n_frames' = n_frames /\ window' = window
      BY <1>5 DEF WriteSegment
    <2>3. CASE n_frames' = Advanced /\ window' \in Windows
      BY <2>1, <2>3, WindowsFact
    <2>4. CASE n_frames' = n_frames /\ window' = window
      BY <2>4
    <2> QED BY <2>2, <2>3, <2>4
  <1>6. ASSUME NEW w \in Writers, AppendFrame(w) PROVE BufferBound'
    BY <1>6, <1>0 DEF AppendFrame
  <1>7. ASSUME NEW w \in Writers, StopOnFailure(w) PROVE BufferBound'
    BY <1>7 DEF StopOnFailure, EndBatch, LoopEnded
  <1>8. ASSUME NEW w \in Writers, WriteTail(w) PROVE BufferBound'
    <2>1. Advanced \in Nat /\ Advanced < BlockFrames
      BY AdvancedFact
    <2>2. \/ n_frames' = Advanced /\ window' \in Windows
          \/ n_frames' = n_frames /\ window' = window
      BY <1>8 DEF WriteTail
    <2>3. CASE n_frames' = Advanced /\ window' \in Windows
      BY <2>1, <2>3, WindowsFact
    <2>4. CASE n_frames' = n_frames /\ window' = window
      BY <2>4
    <2> QED BY <2>2, <2>3, <2>4
  <1>9. ASSUME NEW w \in Writers, SyncBatch(w) PROVE BufferBound'
    BY <1>9 DEF SyncBatch, EndBatch, LoopEnded
  <1>10. ASSUME NEW w \in Writers, Fill(w) PROVE BufferBound'
    BY <1>10 DEF Fill
  <1>11. ASSUME NEW w \in Writers, BumpEpoch(w) PROVE BufferBound'
    BY <1>11 DEF BumpEpoch
  <1>12. ASSUME NEW w \in Writers, NotifyAll(w) PROVE BufferBound'
    BY <1>12 DEF NotifyAll
  <1>13. ASSUME NEW w \in Writers, Recheck(w) PROVE BufferBound'
    BY <1>13 DEF Recheck
  <1>14. ASSUME NEW w \in Writers, Resign(w) PROVE BufferBound'
    BY <1>14 DEF Resign
  <1>15. ASSUME NEW w \in Writers, CheckAfterResign(w) PROVE BufferBound'
    BY <1>15 DEF CheckAfterResign
  <1>16. ASSUME NEW w \in Writers, Retake(w) PROVE BufferBound'
    BY <1>16 DEF Retake
  <1>17. ASSUME NEW w \in Writers, LeaveLeaderLoop(w) PROVE BufferBound'
    BY <1>17 DEF LeaveLeaderLoop
  <1>18. ASSUME NEW w \in Writers, LookAtResult(w) PROVE BufferBound'
    BY <1>18 DEF LookAtResult
  <1>19. ASSUME NEW w \in Writers, SnapEpoch(w) PROVE BufferBound'
    BY <1>19 DEF SnapEpoch
  <1>20. ASSUME NEW w \in Writers, WaitEpoch(w) PROVE BufferBound'
    BY <1>20 DEF WaitEpoch
  <1>21. CASE UNCHANGED vars
    BY <1>21 DEF vars
  <1> QED
    BY <1>1, <1>2, <1>3, <1>4, <1>5, <1>6, <1>7, <1>8, <1>9, <1>10, <1>11, <1>12,
       <1>13, <1>14, <1>15, <1>16, <1>17, <1>18, <1>19, <1>20, <1>21
    DEF Next, Step, Done

\* Append stays inside the window, and so inside the buffer, for any block and
\* buffer size and whatever window the ring offers.
THEOREM BufferNeverOverrun == Spec => []BufferBound
  <1>1. Init => BufferBound
    BY WindowsFact DEF Init, BufferBound
  <1> QED BY <1>1, BufferStep, TypeCorrect, PTL DEF Spec

\* Frames of the batch wait in the buffer only while the window is open.
DirtyWindow ==
    \A w \in Writers : pc[w] = "admit" /\ dirty[w] => window # 0 /\ fail_rc[w] # "full"

\* The buffer is written out before the leader leaves a batch at a full ring.
LEMMA DirtyStep == TypeOK /\ LeaderExclusion /\ DirtyWindow /\ [Next]_vars => DirtyWindow'
  <1> SUFFICES ASSUME TypeMine, TypeWork, LeaderExclusion, DirtyWindow, [Next]_vars
               PROVE  DirtyWindow'
    BY DEF TypeOK
  <1>0. \A v, w \in Writers : pc[v] = "admit" /\ pc[w] = "admit" => v = w
    BY DEF LeaderExclusion, Leading
  <1> USE <1>0 DEF DirtyWindow, TypeMine, TypeWork, group, mine, work, log, Goto
  <1>1. ASSUME NEW w \in Writers, PushWriter(w) PROVE DirtyWindow'
    BY <1>1 DEF PushWriter
  <1>2. ASSUME NEW w \in Writers, Elect(w) PROVE DirtyWindow'
    BY <1>2 DEF Elect
  <1>3. ASSUME NEW w \in Writers, Drain(w) PROVE DirtyWindow'
    BY <1>3 DEF Drain
  <1>4. ASSUME NEW w \in Writers, ReopenWindow(w) PROVE DirtyWindow'
    BY <1>4 DEF ReopenWindow, Admitting
  <1>5. ASSUME NEW w \in Writers, WriteSegment(w) PROVE DirtyWindow'
    BY <1>5 DEF WriteSegment, Admitting
  <1>6. ASSUME NEW w \in Writers, AppendFrame(w) PROVE DirtyWindow'
    BY <1>6 DEF AppendFrame, Admitting
  <1>7. ASSUME NEW w \in Writers, StopOnFailure(w) PROVE DirtyWindow'
    BY <1>7 DEF StopOnFailure, EndBatch, LoopEnded
  <1>8. ASSUME NEW w \in Writers, WriteTail(w) PROVE DirtyWindow'
    BY <1>8 DEF WriteTail, EndBatch, LoopEnded
  <1>9. ASSUME NEW w \in Writers, SyncBatch(w) PROVE DirtyWindow'
    BY <1>9 DEF SyncBatch, EndBatch, LoopEnded
  <1>10. ASSUME NEW w \in Writers, Fill(w) PROVE DirtyWindow'
    BY <1>10 DEF Fill
  <1>11. ASSUME NEW w \in Writers, BumpEpoch(w) PROVE DirtyWindow'
    BY <1>11 DEF BumpEpoch
  <1>12. ASSUME NEW w \in Writers, NotifyAll(w) PROVE DirtyWindow'
    BY <1>12 DEF NotifyAll
  <1>13. ASSUME NEW w \in Writers, Recheck(w) PROVE DirtyWindow'
    BY <1>13 DEF Recheck
  <1>14. ASSUME NEW w \in Writers, Resign(w) PROVE DirtyWindow'
    BY <1>14 DEF Resign
  <1>15. ASSUME NEW w \in Writers, CheckAfterResign(w) PROVE DirtyWindow'
    BY <1>15 DEF CheckAfterResign
  <1>16. ASSUME NEW w \in Writers, Retake(w) PROVE DirtyWindow'
    BY <1>16 DEF Retake
  <1>17. ASSUME NEW w \in Writers, LeaveLeaderLoop(w) PROVE DirtyWindow'
    BY <1>17 DEF LeaveLeaderLoop
  <1>18. ASSUME NEW w \in Writers, LookAtResult(w) PROVE DirtyWindow'
    BY <1>18 DEF LookAtResult
  <1>19. ASSUME NEW w \in Writers, SnapEpoch(w) PROVE DirtyWindow'
    BY <1>19 DEF SnapEpoch
  <1>20. ASSUME NEW w \in Writers, WaitEpoch(w) PROVE DirtyWindow'
    BY <1>20 DEF WaitEpoch
  <1>21. CASE UNCHANGED vars
    BY <1>21 DEF vars
  <1> QED
    BY <1>1, <1>2, <1>3, <1>4, <1>5, <1>6, <1>7, <1>8, <1>9, <1>10, <1>11, <1>12,
       <1>13, <1>14, <1>15, <1>16, <1>17, <1>18, <1>19, <1>20, <1>21
    DEF Next, Step, Done

\* D19: a batch that meets a full ring leaves no frame of its own unwritten.
THEOREM WallIsClean == Spec => []WallLeavesNoDirtyFrame
  <1>1. Init => DirtyWindow
    BY DEF Init, DirtyWindow
  <1>2. DirtyWindow => WallLeavesNoDirtyFrame
    BY DEF DirtyWindow, WallLeavesNoDirtyFrame
  <1> QED BY <1>1, <1>2, DirtyStep, TypeCorrect, OneLeader, PTL DEF Spec

---------------------------------------------------------------------------
(* Waking up.                                                              *)

\* A thread that may fall asleep on the present epoch with its result stored
\* relies on a leader that has not changed the epoch yet; one that sleeps on an
\* old epoch relies on a leader that has not called notify_all yet.
WakeInv ==
    \A w \in Writers :
        /\ seen[w] <= epoch
        /\ pc[w] \in {"sleep", "asleep"} /\ result[w] # "pending" /\ seen[w] = epoch =>
             \E v \in Writers : pc[v] \in {"fill", "epoch"}
        /\ pc[w] = "asleep" /\ seen[w] # epoch => \E v \in Writers : pc[v] = "notify"

\* A waiter that sleeps on an epoch has either no result yet or a leader that
\* will bump the epoch and notify.
LEMMA WakeStep == TypeOK /\ WakeInv /\ [Next]_vars => WakeInv'
  <1> SUFFICES ASSUME TypeMine, TypeOK, WakeInv, [Next]_vars PROVE WakeInv'
    BY DEF TypeOK
  <1>0. epoch \in Nat
    BY DEF TypeOK, TypeGroup
  <1> USE <1>0 DEF WakeInv, TypeMine, group, mine, work, log, Goto
  <1>1. ASSUME NEW w \in Writers, PushWriter(w) PROVE WakeInv'
    BY <1>1 DEF PushWriter
  <1>2. ASSUME NEW w \in Writers, Elect(w) PROVE WakeInv'
    BY <1>2 DEF Elect
  <1>3. ASSUME NEW w \in Writers, Drain(w) PROVE WakeInv'
    BY <1>3 DEF Drain
  <1>4. ASSUME NEW w \in Writers, ReopenWindow(w) PROVE WakeInv'
    BY <1>4 DEF ReopenWindow, Admitting
  <1>5. ASSUME NEW w \in Writers, WriteSegment(w) PROVE WakeInv'
    BY <1>5 DEF WriteSegment, Admitting
  <1>6. ASSUME NEW w \in Writers, AppendFrame(w) PROVE WakeInv'
    BY <1>6 DEF AppendFrame, Admitting
  <1>7. ASSUME NEW w \in Writers, StopOnFailure(w) PROVE WakeInv'
    BY <1>7 DEF StopOnFailure, EndBatch, LoopEnded
  <1>8. ASSUME NEW w \in Writers, WriteTail(w) PROVE WakeInv'
    BY <1>8 DEF WriteTail, EndBatch, LoopEnded
  <1>9. ASSUME NEW w \in Writers, SyncBatch(w) PROVE WakeInv'
    BY <1>9 DEF SyncBatch, EndBatch, LoopEnded
  <1>10. ASSUME NEW w \in Writers, Fill(w) PROVE WakeInv'
    BY <1>10 DEF Fill
  <1>11. ASSUME NEW w \in Writers, BumpEpoch(w) PROVE WakeInv'
    BY <1>11 DEF BumpEpoch
  <1>12. ASSUME NEW w \in Writers, NotifyAll(w) PROVE WakeInv'
    BY <1>12 DEF NotifyAll
  <1>13. ASSUME NEW w \in Writers, Recheck(w) PROVE WakeInv'
    BY <1>13 DEF Recheck
  <1>14. ASSUME NEW w \in Writers, Resign(w) PROVE WakeInv'
    BY <1>14 DEF Resign
  <1>15. ASSUME NEW w \in Writers, CheckAfterResign(w) PROVE WakeInv'
    BY <1>15 DEF CheckAfterResign
  <1>16. ASSUME NEW w \in Writers, Retake(w) PROVE WakeInv'
    BY <1>16 DEF Retake
  <1>17. ASSUME NEW w \in Writers, LeaveLeaderLoop(w) PROVE WakeInv'
    BY <1>17 DEF LeaveLeaderLoop
  <1>18. ASSUME NEW w \in Writers, LookAtResult(w) PROVE WakeInv'
    BY <1>18 DEF LookAtResult
  <1>19. ASSUME NEW w \in Writers, SnapEpoch(w) PROVE WakeInv'
    BY <1>19 DEF SnapEpoch
  <1>20. ASSUME NEW w \in Writers, WaitEpoch(w) PROVE WakeInv'
    BY <1>20 DEF WaitEpoch
  <1>21. CASE UNCHANGED vars
    BY <1>21 DEF vars
  <1> QED
    BY <1>1, <1>2, <1>3, <1>4, <1>5, <1>6, <1>7, <1>8, <1>9, <1>10, <1>11, <1>12,
       <1>13, <1>14, <1>15, <1>16, <1>17, <1>18, <1>19, <1>20, <1>21
    DEF Next, Step, Done

\* D21 and D22: no wake-up is lost, whatever the order of storing results,
\* changing the epoch, notifying and falling asleep.
THEOREM NoWakeupIsLost == Spec => []NoLostWakeup
  <1>1. Init => WakeInv
    <2>1. Init => epoch = 0 /\ \A w \in Writers : seen[w] = 0 /\ pc[w] = "idle"
      BY DEF Init
    <2>2. 0 <= 0
      OBVIOUS
    <2> QED BY <2>1, <2>2 DEF WakeInv
  <1>2. WakeInv => NoLostWakeup
    BY DEF WakeInv, NoLostWakeup
  <1> QED BY <1>1, <1>2, WakeStep, TypeCorrect, PTL DEF Spec

---------------------------------------------------------------------------
(* Durability.                                                             *)

\* The device lags behind the sequence numbers, the platter behind the device.
LogOrder == durable <= written /\ written <= seq_next - 1

\* The nodes before the one in hand have a frame; unless frames wait in the
\* buffer it is on the device; and if nothing was written there are none.
AdmittedFrames ==
    \A w \in Writers : pc[w] = "admit" =>
        /\ \A i \in 1 .. at[w] - 1 : seq[batch[w][i]] \in 1 .. seq_next - 1
        /\ ~ dirty[w] => \A i \in 1 .. at[w] - 1 : seq[batch[w][i]] <= written
        /\ ~ dirty[w] /\ ~ wrote[w] => at[w] = 1

\* A leader that stores success does so for frames that are durable.
VerdictFrames ==
    \A w \in Writers : pc[w] = "fill" =>
        /\ verdict[w][1] = "ok" =>
             \A i \in at[w] .. verdict[w][3] - 1 : seq[batch[w][i]] \in 1 .. durable
        /\ verdict[w][2] = "ok" => verdict[w][3] > Len(batch[w])
        /\ verdict[w][3] <= Len(batch[w]) + 1

DurableInv == LogOrder /\ AdmittedFrames /\ VerdictFrames /\ DurableBeforeReturn

\* What EndBatch establishes when the prefix failed, or is durable.
LEMMA EndBatchVerdict ==
    ASSUME TypeOK, Positions, NEW w \in Writers, NEW p \in {"ok", "failed"}, LoopEnded(w),
           EndBatch(w, p), VerdictFrames, batch' = batch, seq' = seq,
           durable' \in Nat, durable <= durable',
           p = "ok" => /\ fail_rc[w] # "failed"
                       /\ \A i \in 1 .. at[w] - 1 : seq[batch[w][i]] \in 1 .. durable'
    PROVE  VerdictFrames' /\ pc'[w] = "fill" /\ \A v \in Writers \ {w} : pc'[v] = pc[v]
  <1>0. /\ pc \in [Writers -> Places] /\ at \in [Writers -> Nat \ {0}] /\ durable \in Nat
        /\ verdict \in [Writers -> Verdicts] /\ batch \in [Writers -> Seq(Writers)]
        /\ fail_rc[w] \in Failures /\ at[w] \in Nat /\ Len(batch[w]) \in Nat
        /\ \A v \in Writers : seq[v] \in Nat
    BY DEF TypeOK, TypeMine, TypeWork, TypeLog
  <1>1. /\ pc' = [pc EXCEPT ![w] = "fill"] /\ at' = [at EXCEPT ![w] = 1]
        /\ verdict' = [verdict EXCEPT ![w] =
             <<p, IF fail_rc[w] = "full" THEN "full" ELSE p, at[w]>>]
    BY DEF EndBatch, Goto
  <1>2. /\ pc'[w] = "fill" /\ at'[w] = 1 /\ verdict'[w][1] = p /\ verdict'[w][3] = at[w]
        /\ verdict'[w][2] = IF fail_rc[w] = "full" THEN "full" ELSE p
    BY <1>0, <1>1
  <1>3. \A v \in Writers \ {w} : pc'[v] = pc[v] /\ at'[v] = at[v] /\ verdict'[v] = verdict[v]
    BY <1>0, <1>1
  <1>4. verdict'[w][2] = "ok" => at[w] > Len(batch[w])
    BY <1>0, <1>2 DEF LoopEnded, Failures
  <1>5. at[w] <= Len(batch[w]) + 1
    BY DEF Positions, LoopEnded
  <1>6. ASSUME NEW v \in Writers, v # w, pc'[v] = "fill"
        PROVE  /\ verdict'[v][1] = "ok" =>
                    \A i \in at'[v] .. verdict'[v][3] - 1 : seq[batch[v][i]] \in 1 .. durable'
               /\ verdict'[v][2] = "ok" => verdict'[v][3] > Len(batch[v])
               /\ verdict'[v][3] <= Len(batch[v]) + 1
    <2>1. pc[v] = "fill" /\ at'[v] = at[v] /\ verdict'[v] = verdict[v]
      BY <1>3, <1>6
    <2>2. \A n : n \in 1 .. durable => n \in 1 .. durable'
      BY <1>0
    <2> QED BY <2>1, <2>2 DEF VerdictFrames
  <1>7. VerdictFrames'
    BY <1>2, <1>4, <1>5, <1>6 DEF VerdictFrames
  <1> QED BY <1>2, <1>3, <1>7

\* A result of success is stored only when the batch's fdatasync succeeded,
\* and no later step takes the frame out of the synchronised prefix.
LEMMA DurableStep ==
    TypeOK /\ LeaderExclusion /\ NodeInv /\ DurableInv /\ [Next]_vars => DurableInv'
  <1> SUFFICES ASSUME TypeOK, LeaderExclusion, NodeInv, DurableInv, [Next]_vars
               PROVE  DurableInv'
    OBVIOUS
  <1>a. /\ pc \in [Writers -> Places] /\ at \in [Writers -> Nat \ {0}]
        /\ batch \in [Writers -> Seq(Writers)] /\ seq \in [Writers -> Nat]
        /\ result \in [Writers -> Results] /\ verdict \in [Writers -> Verdicts]
    BY DEF TypeOK, TypeMine, TypeWork
  <1>b. seq_next \in Nat \ {0} /\ written \in Nat /\ durable \in Nat
    BY DEF TypeOK, TypeLog
  <1>c. wrote \in [Writers -> BOOLEAN] /\ dirty \in [Writers -> BOOLEAN]
    BY DEF TypeOK, TypeWork
  <1>d. \A v, w \in Writers : pc[v] \in {"admit", "fill"} /\ pc[w] \in {"admit", "fill"} => v = w
    BY DEF LeaderExclusion, Leading
  <1>e. \A w \in Writers : pc[w] = "admit" => \A i \in 1 .. Len(batch[w]) :
          batch[w][i] \in Writers /\ pc[batch[w][i]] # "idle" /\ result[batch[w][i]] = "pending"
    BY <1>a DEF NodeInv, ChainNodes, Untouched
  <1>f. \A w \in Writers : pc[w] = "fill" => \A i \in at[w] .. Len(batch[w]) :
          batch[w][i] \in Writers /\ pc[batch[w][i]] # "idle" /\ result[batch[w][i]] = "pending"
    BY <1>a DEF NodeInv, ChainNodes, Untouched
  <1>g. \A w \in Writers : Len(batch[w]) \in Nat /\ at[w] \in Nat /\ at[w] >= 1
    BY <1>a
  <1>h. \A w \in Writers :
          /\ pc[w] = "admit" => Len(batch[w]) >= 1 /\ at[w] <= Len(batch[w]) + 1
          /\ pc[w] = "fill" => at[w] <= Len(batch[w])
    BY DEF NodeInv, Positions
  <1>1. ASSUME NEW w \in Writers, PushWriter(w) PROVE DurableInv'
    <2>1. /\ pc[w] = "idle" /\ batch' = batch /\ at' = at /\ dirty' = dirty /\ wrote' = wrote
          /\ verdict' = verdict /\ written' = written /\ durable' = durable
          /\ seq_next' = seq_next /\ pc'[w] \in {"elect", "wait"}
          /\ seq' = [seq EXCEPT ![w] = 0] /\ result' = [result EXCEPT ![w] = "pending"]
          /\ \A v \in Writers \ {w} : pc'[v] = pc[v]
      BY <1>1, <1>a DEF PushWriter, Goto, work, log
    <2>2. \A v \in Writers \ {w} : seq'[v] = seq[v] /\ result'[v] = result[v]
      BY <1>a, <2>1
    <2>3. LogOrder'
      BY <2>1 DEF DurableInv, LogOrder
    <2>4. \A v \in Writers : pc[v] = "admit" =>
            \A i \in 1 .. at[v] - 1 : seq'[batch[v][i]] = seq[batch[v][i]]
      BY <1>e, <1>g, <1>h, <2>1, <2>2
    <2>5. AdmittedFrames'
      BY <2>1, <2>4 DEF DurableInv, AdmittedFrames
    <2>6. \A v \in Writers : pc[v] = "fill" =>
            \A i \in at[v] .. Len(batch[v]) : seq'[batch[v][i]] = seq[batch[v][i]]
      BY <1>f, <2>1, <2>2
    <2>7. \A v \in Writers : pc[v] = "fill" => verdict[v][3] \in Nat
      BY <1>a DEF Verdicts
    <2>8. \A v \in Writers : pc[v] = "fill" =>
            \A i \in at[v] .. verdict[v][3] - 1 : i \in at[v] .. Len(batch[v])
      BY <1>g, <2>7 DEF DurableInv, VerdictFrames
    <2>9. VerdictFrames'
      BY <2>1, <2>6, <2>8 DEF DurableInv, VerdictFrames
    <2>10. DurableBeforeReturn'
      BY <1>a, <2>1, <2>2 DEF DurableInv, DurableBeforeReturn
    <2> QED BY <2>3, <2>5, <2>9, <2>10 DEF DurableInv
  <1>2. ASSUME NEW w \in Writers, Elect(w) PROVE DurableInv'
    BY <1>2, <1>a DEF Elect, DurableInv, LogOrder, AdmittedFrames, VerdictFrames,
       DurableBeforeReturn, Goto, group, mine, work, log
  <1>3. ASSUME NEW w \in Writers, Drain(w) PROVE DurableInv'
    <2>1. /\ seq' = seq /\ result' = result /\ written' = written /\ durable' = durable
          /\ seq_next' = seq_next /\ verdict' = verdict /\ pc'[w] \in {"more", "admit"}
          /\ at' = [at EXCEPT ![w] = 1] /\ wrote' = [wrote EXCEPT ![w] = FALSE]
          /\ dirty' = [dirty EXCEPT ![w] = FALSE]
          /\ \A v \in Writers \ {w} : pc'[v] = pc[v]
      BY <1>3, <1>a DEF Drain, Goto, mine, log
    <2>2. at'[w] = 1
      BY <1>a, <2>1
    <2>3. \A v \in Writers \ {w} : pc[v] \notin {"admit", "fill"}
      BY <1>3 DEF Drain, LeaderExclusion, Leading
    <2>4. AdmittedFrames' /\ VerdictFrames'
      BY <2>1, <2>2, <2>3 DEF AdmittedFrames, VerdictFrames
    <2> QED BY <2>1, <2>4 DEF DurableInv, LogOrder, DurableBeforeReturn
  <1>4. ASSUME NEW w \in Writers, ReopenWindow(w) PROVE DurableInv'
    BY <1>4, <1>a DEF ReopenWindow, Admitting, DurableInv, LogOrder, AdmittedFrames, VerdictFrames,
       DurableBeforeReturn, Goto, group, mine, work, log
  <1>5. ASSUME NEW w \in Writers, WriteSegment(w) PROVE DurableInv'
    <2>1. /\ pc' = pc /\ batch' = batch /\ at' = at /\ verdict' = verdict /\ seq' = seq
          /\ result' = result /\ seq_next' = seq_next /\ durable' = durable /\ pc[w] = "admit"
          /\ \/ written' = seq_next - 1 /\ dirty' = [dirty EXCEPT ![w] = FALSE]
                /\ wrote' = [wrote EXCEPT ![w] = TRUE]
             \/ written' = written /\ dirty' = dirty /\ wrote' = wrote
      BY <1>5 DEF WriteSegment, Admitting, mine
    <2>2. LogOrder'
      BY <1>b, <2>1 DEF DurableInv, LogOrder
    <2>3. AdmittedFrames'
      BY <1>b, <1>c, <1>d, <2>1 DEF DurableInv, AdmittedFrames, LogOrder
    <2>4. VerdictFrames' /\ DurableBeforeReturn'
      BY <2>1 DEF DurableInv, VerdictFrames, DurableBeforeReturn
    <2> QED BY <2>2, <2>3, <2>4 DEF DurableInv
  <1>6. ASSUME NEW w \in Writers, AppendFrame(w) PROVE DurableInv'
    <2> DEFINE m == batch[w][at[w]]
    <2>1. /\ pc' = pc /\ batch' = batch /\ verdict' = verdict /\ result' = result
          /\ written' = written /\ durable' = durable /\ wrote' = wrote
          /\ pc[w] = "admit" /\ at[w] <= Len(batch[w]) /\ seq_next' = seq_next + 1
          /\ seq' = [seq EXCEPT ![m] = seq_next] /\ at' = [at EXCEPT ![w] = @ + 1]
          /\ dirty' = [dirty EXCEPT ![w] = TRUE]
      BY <1>6 DEF AppendFrame, Admitting, group
    <2>2. m \in Writers /\ result[m] = "pending"
      BY <1>e, <1>g, <2>1
    <2>3. seq'[m] = seq_next /\ \A v \in Writers \ {m} : seq'[v] = seq[v]
      BY <1>a, <2>1, <2>2
    <2>4. at'[w] = at[w] + 1 /\ dirty'[w] = TRUE
      BY <1>a, <1>c, <2>1
    <2>5. LogOrder'
      BY <1>b, <2>1 DEF DurableInv, LogOrder
    <2>6. AdmittedFrames'
      <3>1. SUFFICES ASSUME NEW i \in 1 .. at[w] PROVE seq'[batch[w][i]] \in 1 .. seq_next
        BY <1>b, <1>d, <1>g, <2>1, <2>4 DEF AdmittedFrames
      <3>2. batch[w][i] \in Writers
        BY <1>e, <1>g, <2>1
      <3>3. CASE batch[w][i] = m
        BY <1>b, <2>3, <3>3
      <3>4. CASE batch[w][i] # m
        <4>1. i \in 1 .. at[w] - 1
          BY <1>g, <3>4
        <4>2. seq[batch[w][i]] \in 1 .. seq_next - 1
          BY <2>1, <4>1 DEF DurableInv, AdmittedFrames
        <4> QED BY <1>b, <2>3, <3>2, <3>4, <4>2
      <3> QED BY <3>3, <3>4
    <2>7. VerdictFrames'
      BY <1>d, <2>1 DEF VerdictFrames
    <2>8. DurableBeforeReturn'
      BY <2>1, <2>2, <2>3 DEF DurableInv, DurableBeforeReturn
    <2> QED BY <2>5, <2>6, <2>7, <2>8 DEF DurableInv
  <1>7. ASSUME NEW w \in Writers, StopOnFailure(w) PROVE DurableInv'
    <2>1. /\ batch' = batch /\ seq' = seq /\ result' = result /\ written' = written
          /\ durable' = durable /\ seq_next' = seq_next /\ wrote' = wrote /\ dirty' = dirty
          /\ LoopEnded(w) /\ EndBatch(w, "failed")
      BY <1>7 DEF StopOnFailure, mine, log
    <2>2. VerdictFrames' /\ pc'[w] = "fill" /\ \A v \in Writers \ {w} : pc'[v] = pc[v]
      BY <1>b, <2>1, EndBatchVerdict DEF NodeInv, DurableInv
    <2>3. AdmittedFrames'
      BY <1>d, <2>1, <2>2 DEF AdmittedFrames, LoopEnded
    <2> QED BY <2>1, <2>2, <2>3 DEF DurableInv, LogOrder, DurableBeforeReturn
  <1>8. ASSUME NEW w \in Writers, WriteTail(w) PROVE DurableInv'
    <2>1. /\ batch' = batch /\ seq' = seq /\ result' = result
          /\ durable' = durable /\ seq_next' = seq_next /\ LoopEnded(w)
      BY <1>8 DEF WriteTail, mine
    <2>2. CASE EndBatch(w, "failed") /\ UNCHANGED <<wrote, dirty, written>>
      <3>1. VerdictFrames' /\ pc'[w] = "fill" /\ \A v \in Writers \ {w} : pc'[v] = pc[v]
        BY <1>b, <2>1, <2>2, EndBatchVerdict DEF NodeInv, DurableInv
      <3>2. AdmittedFrames'
        BY <1>d, <2>1, <3>1 DEF AdmittedFrames, LoopEnded
      <3> QED BY <2>1, <2>2, <3>1, <3>2 DEF DurableInv, LogOrder, DurableBeforeReturn
    <2>3. CASE /\ UNCHANGED <<pc, at, verdict>> /\ written' = seq_next - 1
               /\ wrote' = [wrote EXCEPT ![w] = TRUE] /\ dirty' = [dirty EXCEPT ![w] = FALSE]
      <3>1. LogOrder'
        BY <1>b, <2>1, <2>3 DEF DurableInv, LogOrder
      <3>2. AdmittedFrames'
        BY <1>b, <1>c, <1>d, <2>1, <2>3 DEF DurableInv, AdmittedFrames, LoopEnded
      <3> QED BY <2>1, <2>3, <3>1, <3>2 DEF DurableInv, VerdictFrames, DurableBeforeReturn
    <2> QED BY <1>8, <2>2, <2>3 DEF WriteTail
  <1>9. ASSUME NEW w \in Writers, SyncBatch(w) PROVE DurableInv'
    <2>1. /\ batch' = batch /\ seq' = seq /\ result' = result /\ written' = written
          /\ seq_next' = seq_next /\ LoopEnded(w) /\ pc[w] = "admit"
          /\ fail_rc[w] # "failed" /\ ~ dirty[w]
      BY <1>9 DEF SyncBatch, mine, LoopEnded
    <2>2. /\ durable' \in Nat /\ durable <= durable' /\ durable' <= written
          /\ \A n : n \in 1 .. durable => n \in 1 .. durable'
      <3>1. durable' = written \/ durable' = durable
        BY <1>9 DEF SyncBatch
      <3> QED BY <1>b, <3>1 DEF DurableInv, LogOrder
    <2>3. CASE EndBatch(w, "failed")
      <3>1. VerdictFrames' /\ pc'[w] = "fill" /\ \A v \in Writers \ {w} : pc'[v] = pc[v]
        BY <2>1, <2>2, <2>3, EndBatchVerdict DEF NodeInv, DurableInv
      <3> QED BY <1>d, <2>1, <2>2, <3>1
              DEF DurableInv, LogOrder, AdmittedFrames, DurableBeforeReturn
    <2>4. CASE EndBatch(w, "ok") /\ (durable' = written \/ ~ wrote[w])
      <3>1. \A i \in 1 .. at[w] - 1 : seq[batch[w][i]] \in 1 .. written
        <4>1. SUFFICES ASSUME NEW i \in 1 .. at[w] - 1 PROVE seq[batch[w][i]] \in 1 .. written
          OBVIOUS
        <4>2. seq[batch[w][i]] \in 1 .. seq_next - 1 /\ seq[batch[w][i]] <= written
          BY <2>1 DEF DurableInv, AdmittedFrames
        <4> QED BY <1>b, <4>2
      <3>2. ~ wrote[w] => at[w] = 1
        BY <2>1 DEF DurableInv, AdmittedFrames
      <3>3. \A i \in 1 .. at[w] - 1 : seq[batch[w][i]] \in 1 .. durable'
        BY <2>4, <3>1, <3>2
      <3>4. VerdictFrames' /\ pc'[w] = "fill" /\ \A v \in Writers \ {w} : pc'[v] = pc[v]
        BY <2>1, <2>2, <2>4, <3>3, EndBatchVerdict DEF NodeInv, DurableInv
      <3> QED BY <1>d, <2>1, <2>2, <3>4
              DEF DurableInv, LogOrder, AdmittedFrames, DurableBeforeReturn
    <2> QED BY <1>9, <2>3, <2>4 DEF SyncBatch
  <1>10. ASSUME NEW w \in Writers, Fill(w) PROVE DurableInv'
    <2> DEFINE m == batch[w][at[w]]
    <2>1. /\ pc[w] = "fill" /\ batch' = batch /\ seq' = seq /\ written' = written
          /\ durable' = durable /\ seq_next' = seq_next /\ wrote' = wrote /\ dirty' = dirty
          /\ verdict' = verdict /\ at' = [at EXCEPT ![w] = @ + 1]
          /\ result' = [result EXCEPT ![m] = Verdict(w)]
          /\ pc'[w] \in {"fill", "epoch"} /\ \A v \in Writers \ {w} : pc'[v] = pc[v]
      BY <1>10, <1>a DEF Fill, Goto, log
    <2>2. m \in Writers /\ at[w] \in Nat /\ at[w] <= Len(batch[w]) /\ at'[w] = at[w] + 1
      BY <1>a, <1>f, <1>g, <1>h, <2>1
    <2>3. verdict[w][3] \in Nat
      BY <1>a DEF Verdicts
    <2>4. Verdict(w) = "ok" => seq[m] \in 1 .. durable
      <3>1. CASE at[w] >= verdict[w][3]
        BY <1>g, <2>1, <2>2, <2>3, <3>1 DEF Verdict, DurableInv, VerdictFrames
      <3>2. CASE ~ (at[w] >= verdict[w][3])
        <4>1. at[w] \in at[w] .. verdict[w][3] - 1
          BY <2>2, <2>3, <3>2
        <4> QED BY <2>1, <3>2, <4>1 DEF Verdict, DurableInv, VerdictFrames
      <3> QED BY <3>1, <3>2
    <2>5. DurableBeforeReturn'
      BY <1>a, <2>1, <2>2, <2>4 DEF DurableInv, DurableBeforeReturn
    <2>6. VerdictFrames'
      <3>1. \A i : i \in at[w] + 1 .. verdict[w][3] - 1 => i \in at[w] .. verdict[w][3] - 1
        BY <2>2, <2>3
      <3> QED BY <1>d, <2>1, <2>2, <3>1 DEF DurableInv, VerdictFrames
    <2>7. AdmittedFrames'
      BY <1>d, <2>1 DEF AdmittedFrames
    <2> QED BY <2>1, <2>5, <2>6, <2>7 DEF DurableInv, LogOrder
  <1>11. ASSUME NEW w \in Writers, BumpEpoch(w) PROVE DurableInv'
    BY <1>11, <1>a DEF BumpEpoch, DurableInv, LogOrder, AdmittedFrames, VerdictFrames,
       DurableBeforeReturn, Goto, group, mine, work, log
  <1>12. ASSUME NEW w \in Writers, NotifyAll(w) PROVE DurableInv'
    <2>1. /\ seq' = seq /\ result' = result /\ written' = written /\ durable' = durable
          /\ seq_next' = seq_next
      BY <1>12 DEF NotifyAll, mine, log
    <2>2. \A v \in Writers : pc'[v] \notin {"admit", "fill"}
      BY <1>12, <1>a DEF NotifyAll, LeaderExclusion, Leading
    <2>3. AdmittedFrames' /\ VerdictFrames'
      BY <2>2 DEF AdmittedFrames, VerdictFrames
    <2> QED BY <2>1, <2>3 DEF DurableInv, LogOrder, DurableBeforeReturn
  <1>13. ASSUME NEW w \in Writers, Recheck(w) PROVE DurableInv'
    BY <1>13, <1>a DEF Recheck, DurableInv, LogOrder, AdmittedFrames, VerdictFrames,
       DurableBeforeReturn, Goto, group, mine, work, log
  <1>14. ASSUME NEW w \in Writers, Resign(w) PROVE DurableInv'
    BY <1>14, <1>a DEF Resign, DurableInv, LogOrder, AdmittedFrames, VerdictFrames,
       DurableBeforeReturn, Goto, group, mine, work, log
  <1>15. ASSUME NEW w \in Writers, CheckAfterResign(w) PROVE DurableInv'
    BY <1>15, <1>a DEF CheckAfterResign, DurableInv, LogOrder, AdmittedFrames, VerdictFrames,
       DurableBeforeReturn, Goto, group, mine, work, log
  <1>16. ASSUME NEW w \in Writers, Retake(w) PROVE DurableInv'
    BY <1>16, <1>a DEF Retake, DurableInv, LogOrder, AdmittedFrames, VerdictFrames,
       DurableBeforeReturn, Goto, group, mine, work, log
  <1>17. ASSUME NEW w \in Writers, LeaveLeaderLoop(w) PROVE DurableInv'
    BY <1>17, <1>a DEF LeaveLeaderLoop, DurableInv, LogOrder, AdmittedFrames, VerdictFrames,
       DurableBeforeReturn, Goto, group, mine, work, log
  <1>18. ASSUME NEW w \in Writers, LookAtResult(w) PROVE DurableInv'
    BY <1>18, <1>a DEF LookAtResult, DurableInv, LogOrder, AdmittedFrames, VerdictFrames,
       DurableBeforeReturn, Goto, group, mine, work, log
  <1>19. ASSUME NEW w \in Writers, SnapEpoch(w) PROVE DurableInv'
    BY <1>19, <1>a DEF SnapEpoch, DurableInv, LogOrder, AdmittedFrames, VerdictFrames,
       DurableBeforeReturn, Goto, group, mine, work, log
  <1>20. ASSUME NEW w \in Writers, WaitEpoch(w) PROVE DurableInv'
    BY <1>20, <1>a DEF WaitEpoch, DurableInv, LogOrder, AdmittedFrames, VerdictFrames,
       DurableBeforeReturn, Goto, group, mine, work, log
  <1>21. CASE UNCHANGED vars
    BY <1>21 DEF vars, mine, work, log, DurableInv, LogOrder, AdmittedFrames, VerdictFrames,
                 DurableBeforeReturn
  <1> QED
    BY <1>1, <1>2, <1>3, <1>4, <1>5, <1>6, <1>7, <1>8, <1>9, <1>10, <1>11, <1>12,
       <1>13, <1>14, <1>15, <1>16, <1>17, <1>18, <1>19, <1>20, <1>21
    DEF Next, Step, Done

\* The promise of the synchronous levels: success means that the frame is
\* durable, with any number of writers and in spite of failed writes and syncs.
THEOREM SuccessIsDurable == Spec => []DurableBeforeReturn
  <1>1. Init => DurableInv
    <2>1. Init => /\ durable = 0 /\ written = 0 /\ seq_next = 1
                  /\ \A w \in Writers : pc[w] = "idle" /\ result[w] = "pending"
      BY DEF Init
    <2> QED BY <2>1 DEF DurableInv, LogOrder, AdmittedFrames, VerdictFrames, DurableBeforeReturn
  <1>2. DurableInv => DurableBeforeReturn
    BY DEF DurableInv
  <1> QED BY <1>1, <1>2, DurableStep, TypeCorrect, OneLeader, NodeCorrect, PTL DEF Spec

==============================================================================
