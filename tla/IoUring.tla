-------------------------------- MODULE IoUring --------------------------------
(***************************************************************************)
(* The io_uring back end of a data device (io/uring/io_uring_backend.cpp): *)
(* Write and Read prepare one entry of the submission queue, submit it and *)
(* wait for one completion, which they recognise by its block number.  One *)
(* thread makes the calls (the reactor of the device); the kernel carries  *)
(* out what was submitted, in any order.                                   *)
(*                                                                         *)
(* A failing system call may leave an entry behind: from then on each call *)
(* finds the completion of an earlier one first, and lag says how many are *)
(* left over.                                                              *)
(***************************************************************************)
EXTENDS Integers, Sequences, SequencesExt

CONSTANTS
    BlockCount,     \* blocks of the device
    SlotCount,      \* slots of the value buffer pool
    QueueDepth,     \* entries of the submission queue
    MaxFaults       \* bound: interrupted and failing system calls and transfers

ASSUME SizesAssumption ==
    BlockCount \in Nat \ {0} /\ SlotCount \in Nat /\ QueueDepth \in Nat \ {0}
ASSUME BoundAssumption == MaxFaults \in Nat

Slots == 1 .. SlotCount

\* Memory a Write is given: a slot of the device's own pool, a slot of another pool,
\* or other memory (slot 0).
Buffers == {[slot |-> s, own |-> o] : s \in Slots, o \in BOOLEAN} \cup {[slot |-> 0, own |-> FALSE]}

VARIABLES
    ring,           \* the ring is set up (fd_, ring_initialized_, files_registered_)
    registered,     \* buffers_registered_
    sq,             \* entries prepared and not submitted
    inflight,       \* entries in the kernel's hands
    cq,             \* completed entries that were not seen
    pc,             \* the calling thread: "idle", "submit", "wait" or "sync"
    call,           \* its call: block, fua (a Write, at a level that asks for it)
    result,         \* of the last call: "none", "ok" or "error"
    took,           \* ghost: the completed entry the call took for its own
    synced,         \* ghost: fdatasync has succeeded in this call
    fault,          \* ghost: something has failed, or an argument was bad, in this call
    lag,            \* ghost: entries left behind by calls that have returned
    faults          \* the bound's counter

queue  == <<sq, inflight, cq>>
thread == <<pc, call, result, took, synced, fault>>
vars   == <<ring, registered, queue, thread, lag, faults>>

\* An entry: block is its user_data; mine, a ghost, says that it stems from the call in
\* progress; misfit, that it names a registered buffer in which the data is not; full,
\* that it was carried out in full.
NoEntry == [block |-> 0, mine |-> FALSE, misfit |-> FALSE, full |-> FALSE]
NoCall  == [block |-> 0, fua |-> FALSE]

Init ==
    /\ ring = FALSE /\ registered = FALSE
    /\ sq = <<>> /\ inflight = <<>> /\ cq = <<>>
    /\ pc = "idle" /\ call = NoCall /\ result = "none"
    /\ took = NoEntry /\ synced = FALSE /\ fault = FALSE
    /\ lag = 0 /\ faults = 0

\* Entries once their call has returned.
Disowned(q) == [i \in 1 .. Len(q) |-> [q[i] EXCEPT !.mine = FALSE]]

Faulty == faults < MaxFaults /\ faults' = faults + 1
Sound  == UNCHANGED faults

---------------------------------------------------------------------------
(* Open, Close and the registration of buffers.                            *)

\* Open either succeeds or gives back what it has acquired.
Open ==
    /\ pc = "idle" /\ ~ ring
    /\ \/ Sound /\ ring' = TRUE
       \/ Faulty /\ UNCHANGED ring
    /\ UNCHANGED <<registered, queue, thread, lag>>

RegisterWriteBuffers ==
    /\ pc = "idle" /\ ring /\ ~ registered /\ Slots # {}
    /\ \/ Sound /\ registered' = TRUE
       \/ Faulty /\ UNCHANGED registered
    /\ UNCHANGED <<ring, queue, thread, lag>>

\* The kernel cancels what is left in the ring.
Close ==
    /\ pc = "idle" /\ ring
    /\ ring' = FALSE /\ registered' = FALSE
    /\ sq' = <<>> /\ inflight' = <<>> /\ cq' = <<>> /\ lag' = 0
    /\ call' = NoCall /\ result' = "none"
    /\ took' = NoEntry /\ synced' = FALSE /\ fault' = FALSE
    /\ UNCHANGED <<pc, faults>>

---------------------------------------------------------------------------
(* Write and Read up to the submission.                                    *)

Fail(bad) ==
    /\ pc' = "idle" /\ result' = "error" /\ fault' = bad
    /\ call' = NoCall /\ took' = NoEntry /\ synced' = FALSE
FailBehind(bad) == Fail(bad) /\ lag' = lag + 1
Succeed == pc' = "idle" /\ result' = "ok"

\* The address must be the one registered under the index.
UseFixedWriteBuffer(buf) == registered /\ buf.slot \in Slots /\ buf.own

\* The checks, and an entry of the submission queue if there is one left.
Prepare(b, misfit, fua) ==
    /\ pc = "idle" /\ ring
    /\ IF b >= BlockCount \/ Len(sq) = QueueDepth
       THEN Fail(b >= BlockCount) /\ sq' = Disowned(sq)
       ELSE /\ pc' = "submit" /\ result' = "none"
            /\ call' = [block |-> b, fua |-> fua]
            /\ sq' = Append(Disowned(sq), [block |-> b, mine |-> TRUE, misfit |-> misfit,
                                           full |-> FALSE])
            /\ took' = NoEntry /\ synced' = FALSE /\ fault' = FALSE
    /\ inflight' = Disowned(inflight) /\ cq' = Disowned(cq)
    /\ UNCHANGED <<ring, registered, lag, faults>>

\* A fixed buffer is named by its index; misfit: that is not where the data is.
Write(b, buf, fua) == Prepare(b, UseFixedWriteBuffer(buf) /\ ~ buf.own, fua)

Read(b) == Prepare(b, FALSE, FALSE)

---------------------------------------------------------------------------
(* SubmitAndWait.                                                          *)

\* io_uring_submit hands over the first n prepared entries; the kernel took all of them, or
\* stopped before.
HandOver(n) ==
    /\ inflight' = inflight \o SubSeq(sq, 1, n)
    /\ sq' = SubSeq(sq, n + 1, Len(sq))
    /\ IF n = Len(sq) THEN Sound ELSE Faulty

\* The result of io_uring_submit is not looked at.
Submit_AnyCount ==
    /\ pc = "submit" /\ pc' = "wait"
    /\ \E n \in 0 .. Len(sq) : HandOver(n)
    /\ UNCHANGED <<ring, registered, cq, call, result, took, synced, fault, lag>>

\* Exactly one entry must go, which is the oldest one: with entries left behind before it the
\* call's own entry may stay in the queue.
Submit ==
    /\ pc = "submit"
    /\ \E n \in 0 .. Len(sq) :
         /\ HandOver(n)
         /\ IF n = 1
            THEN pc' = "wait" /\ UNCHANGED <<call, result, took, synced, fault, lag>>
            ELSE FailBehind(fault \/ n < Len(sq))
    /\ UNCHANGED <<ring, registered, cq>>

\* The call gives up when a signal arrives.
Interrupt_GivesUp ==
    /\ pc \in {"submit", "wait"}
    /\ Faulty /\ Fail(TRUE)
    /\ UNCHANGED <<ring, registered, queue, lag>>

\* EINTR, and EAGAIN of the submission: the system call is repeated.
Interrupt ==
    /\ pc \in {"submit", "wait"}
    /\ Faulty
    /\ UNCHANGED <<ring, registered, queue, thread, lag>>

\* The kernel carries out an entry, fully or not, and posts its completion.  It
\* refuses a fixed buffer that is not the registered one.
Complete(i) ==
    /\ \E full \in {~ inflight[i].misfit, FALSE} :
         /\ IF full \/ inflight[i].misfit
            THEN Sound /\ UNCHANGED fault
            ELSE Faulty /\ fault' = (fault \/ inflight[i].mine)
         /\ cq' = Append(cq, [inflight[i] EXCEPT !.full = full])
    /\ inflight' = RemoveAt(inflight, i)
    /\ UNCHANGED <<ring, registered, sq, pc, call, result, took, synced, lag>>

\* Goes on after a good completion.
Accept(entry) ==
    /\ took' = entry
    /\ IF call.fua THEN pc' = "sync" /\ UNCHANGED result ELSE Succeed
    /\ UNCHANGED <<call, synced, fault>>

\* Does not compare the block numbers.
Wait_AnyBlock ==
    /\ pc = "wait" /\ cq # <<>> /\ cq' = Tail(cq)
    /\ IF Head(cq).full THEN Accept(Head(cq)) ELSE Fail(fault)
    /\ UNCHANGED <<ring, registered, sq, inflight, lag, faults>>

\* The oldest completion is taken and marked as seen, whatever it says.
Wait ==
    /\ pc = "wait" /\ cq # <<>> /\ cq' = Tail(cq)
    /\ IF Head(cq).block = call.block /\ Head(cq).full
       THEN Accept(Head(cq)) ELSE Fail(fault)
    /\ UNCHANGED <<ring, registered, sq, inflight, lag, faults>>

\* io_uring_wait_cqe fails other than by a signal: the entry is left in flight.
WaitFails ==
    /\ pc = "wait"
    /\ Faulty /\ FailBehind(TRUE)
    /\ UNCHANGED <<ring, registered, queue>>

\* The fdatasync after a Write at levels 1 and 2.
Sync ==
    /\ pc = "sync"
    /\ \/ Sound /\ Succeed /\ synced' = TRUE /\ UNCHANGED <<call, took, fault>>
       \/ Faulty /\ Fail(TRUE)
    /\ UNCHANGED <<ring, registered, queue, lag>>

Kernel == \E i \in 1 .. Len(inflight) : Complete(i)
Caller == Submit \/ Interrupt \/ Wait \/ WaitFails \/ Sync

Next ==
    \/ Open \/ RegisterWriteBuffers \/ Close
    \/ \E b \in 0 .. BlockCount :
         \/ \E buf \in Buffers, fua \in BOOLEAN : Write(b, buf, fua)
         \/ Read(b)
    \/ Caller
    \/ Kernel

Spec == Init /\ [][Next]_vars

\* The thread runs when it can; the kernel does not stop with transfers in flight.
FairSpec == Spec /\ WF_vars(Caller) /\ WF_vars(Kernel)

---------------------------------------------------------------------------
(* Properties.                                                             *)

Entry == [block : 0 .. BlockCount - 1, mine : BOOLEAN, misfit : BOOLEAN, full : BOOLEAN]

\* The type invariant; the submission queue keeps its size.
TypeOK ==
    /\ ring \in BOOLEAN /\ registered \in BOOLEAN
    /\ sq \in Seq(Entry) /\ inflight \in Seq(Entry) /\ cq \in Seq(Entry)
    /\ Len(sq) <= QueueDepth
    /\ pc \in {"idle", "submit", "wait", "sync"} /\ result \in {"none", "ok", "error"}
    /\ call \in [block : 0 .. BlockCount - 1, fua : BOOLEAN] /\ took \in Entry
    /\ synced \in BOOLEAN /\ fault \in BOOLEAN /\ lag \in Nat /\ faults \in 0 .. MaxFaults

\* A call that reports success has had its own transfer carried out in full, and for a
\* Write at levels 1 and 2 made durable.  The one exception needs a failed system call
\* before: the call takes the full completion of an earlier entry for the same block,
\* which the block number in user_data cannot tell from its own (SubmitAndWait).
SuccessIsOwn ==
    pc = "idle" /\ result = "ok" =>
        /\ took.full /\ (call.fua => synced)
        /\ took.mine \/ (lag > 0 /\ took.block = call.block)

\* Between calls the ring holds exactly the entries that failed system calls have left
\* there, so with none it holds nothing and the kernel touches no memory of a caller;
\* and a call fails for a reason of its own or because entries were left before it.
CleanBetweenCalls ==
    /\ TypeOK
    /\ pc = "idle" =>
           /\ Len(sq) + Len(inflight) + Len(cq) = lag
           /\ result = "error" => fault \/ lag > 0

\* Every Write and Read returns (SubmitAndWait waits only for what was submitted).
EveryCallReturns == (pc # "idle") ~> (pc = "idle")

==============================================================================
