-------------------------------- MODULE Reactor --------------------------------
(***************************************************************************)
(* The reactors of an engine (engine/reactor.cpp) and the threads that     *)
(* call them: an inbox per reactor (a stack, drained whole and reversed),  *)
(* a wake word per calling thread, Engine::Close, and the calls that race  *)
(* with it.                                                                *)
(*                                                                         *)
(* An operation is named by its caller: its node lives on the caller's     *)
(* stack while the call lasts.  Executing an operation is one step: a      *)
(* reactor alone touches its device.  The wake word of a thread outlives   *)
(* its calls, so a reactor may bump it for an operation that has returned. *)
(***************************************************************************)
EXTENDS Integers, Sequences, FiniteSets, SequencesExt

CONSTANTS
    Callers,    \* threads that call the engine
    Devices,    \* devices, one reactor each
    MaxOps      \* bound: operations submitted to reactors

Stop   == "stop"      \* the node Close submits
Nobody == "nobody"

ASSUME OpsAssumption == MaxOps \in Nat
ASSUME DevicesAssumption == IsFiniteSet(Devices)
ASSUME CallersAssumption == Stop \notin Callers /\ Nobody \notin Callers

VARIABLES
    inbox,      \* per reactor: its stack of nodes, the top first
    result,     \* per caller: OpNode::result
    wake,       \* per caller: its wake word
    pc,         \* per caller: progress of SubmitAndWait
    target,     \* per caller: the reactor of its operation
    rest,       \* per caller: reactors a broadcast has still to reach
    seen,       \* per caller: the wake word it last read
    run,        \* per reactor: progress of Run
    batch,      \* per reactor: nodes left of the batch, oldest first
    op,         \* per reactor: the caller whose operation it has in hand
    stopping,   \* per reactor: "no", "batch" or "late" part of the shutdown
    opened,     \* Engine::opened_
    closing,    \* reactors Close has still to stop
    joining,    \* reactors Close waits for
    before,     \* ghost, per caller: unanswered callers that pushed to its reactor earlier
    missed,     \* ghost: callers that pushed after a reactor's last drain
    ops         \* operations of the calls so far

calls    == <<result, wake, pc, target, rest, seen>>
reactors == <<run, batch, op, stopping>>
engine   == <<opened, closing, joining>>
ghost    == <<before, missed, ops>>
vars     == <<inbox, calls, reactors, engine, ghost>>

Pending == 1
Ok      == 0
NotOpen == -1

Init ==
    /\ inbox = [r \in Devices |-> <<>>]
    /\ result = [c \in Callers |-> Ok]
    /\ wake = [c \in Callers |-> 0]
    /\ pc = [c \in Callers |-> "out"]
    /\ target = [c \in Callers |-> Nobody]
    /\ rest = [c \in Callers |-> {}]
    /\ seen = [c \in Callers |-> 0]
    /\ run = [r \in Devices |-> "drain"]
    /\ batch = [r \in Devices |-> <<>>]
    /\ op = [r \in Devices |-> Nobody]
    /\ stopping = [r \in Devices |-> "no"]
    /\ opened = TRUE /\ closing = {} /\ joining = {}
    /\ before = [c \in Callers |-> {}]
    /\ missed = {}
    /\ ops = 0

Go(c, l)  == pc' = [pc EXCEPT ![c] = l]
Run(r, l) == run' = [run EXCEPT ![r] = l]

---------------------------------------------------------------------------
(* The calling threads.                                                    *)

\* Put, Get and Delete go to one reactor, SetWalLevel and Snapshot to each in turn;
\* opened_ is checked once.
Call(c) ==
    /\ pc[c] = "out"
    /\ opened
    /\ \E S \in {Devices} \cup {{r} : r \in Devices} :
         /\ ops + Cardinality(S) <= MaxOps
         /\ ops' = ops + Cardinality(S)
         /\ rest' = [rest EXCEPT ![c] = S]
    /\ Go(c, "node")
    /\ UNCHANGED <<inbox, result, wake, target, seen, reactors, engine, before, missed>>

\* SubmitAndWait: a node for one reactor, its result pending.  The wake word is
\* read before the node becomes visible.
NewNode(c) ==
    /\ pc[c] = "node"
    /\ \E r \in rest[c] :
         /\ target' = [target EXCEPT ![c] = r]
         /\ rest' = [rest EXCEPT ![c] = @ \ {r}]
    /\ result' = [result EXCEPT ![c] = Pending]
    /\ seen' = [seen EXCEPT ![c] = wake[c]]
    /\ Go(c, "push")
    /\ UNCHANGED <<inbox, wake, reactors, engine, ghost>>

\* The reactor's thread will not look at its inbox again.
LastDrainOver(r) == stopping[r] = "late" /\ run[r] # "drain"

\* The calls in progress whose nodes reactor r has been given and has not answered.
Unanswered(r) ==
    {c \in Callers : /\ target[c] = r /\ result[c] = Pending
                     /\ pc[c] \in {"notify", "test", "wait", "asleep"}}

\* Submit's compare-and-swap, and the notification of the reactor.
Push(c) ==
    /\ pc[c] = "push"
    /\ inbox' = [inbox EXCEPT ![target[c]] = <<c>> \o @]
    /\ before' = [before EXCEPT ![c] = Unanswered(target[c])]
    /\ missed' = IF LastDrainOver(target[c]) THEN missed \cup {c} ELSE missed
    /\ Go(c, "notify")
    /\ UNCHANGED <<result, wake, target, rest, seen, reactors, engine, ops>>

Awaken(r) == run' = [run EXCEPT ![r] = IF @ = "asleep" THEN "drain" ELSE @]

NotifyInbox(c) ==
    /\ pc[c] = "notify"
    /\ Awaken(target[c])
    /\ Go(c, "test")
    /\ UNCHANGED <<inbox, result, wake, target, rest, seen, batch, op, stopping, engine, ghost>>

\* Once the result is there the node dies; a broadcast goes on to the next reactor.
Test(c) ==
    /\ pc[c] = "test"
    /\ IF result[c] = Pending
       THEN Go(c, "wait") /\ UNCHANGED <<result, target, seen>>
       ELSE /\ Go(c, IF rest[c] = {} THEN "out" ELSE "node")
            /\ result' = [result EXCEPT ![c] = Ok]
            /\ target' = [target EXCEPT ![c] = Nobody]
            /\ seen' = [seen EXCEPT ![c] = 0]
    /\ UNCHANGED <<inbox, wake, rest, reactors, engine, ghost>>

\* Goes to sleep without comparing.
Wait_Blindly(c) ==
    /\ pc[c] = "wait"
    /\ Go(c, "asleep")
    /\ UNCHANGED <<inbox, result, wake, target, rest, seen, reactors, engine, ghost>>

\* The futex: sleep if the word is still the one seen, else read it again.
Wait(c) ==
    /\ pc[c] = "wait"
    /\ IF wake[c] = seen[c]
       THEN Go(c, "asleep") /\ seen' = seen
       ELSE Go(c, "test") /\ seen' = [seen EXCEPT ![c] = wake[c]]
    /\ UNCHANGED <<inbox, result, wake, target, rest, reactors, engine, ghost>>

---------------------------------------------------------------------------
(* The reactor threads.                                                    *)

\* Serves the newest operation first.
Reversed_Not(chain) == chain

\* The stack in order of arrival.
Reversed(chain) == Reverse(chain)

\* Reads the stack without taking it.
Drain_Copies(r) ==
    /\ run[r] = "drain"
    /\ batch' = [batch EXCEPT ![r] = Reversed(inbox[r])]
    /\ Run(r, IF inbox[r] = <<>> /\ stopping[r] = "no" THEN "sleep" ELSE "take")
    /\ UNCHANGED <<inbox, calls, op, stopping, engine, ghost>>

\* DrainAll takes the whole stack, or the thread waits for it to be non-empty.
Drain(r) ==
    /\ run[r] = "drain"
    /\ batch' = [batch EXCEPT ![r] = Reversed(inbox[r])]
    /\ inbox' = [inbox EXCEPT ![r] = <<>>]
    /\ Run(r, IF inbox[r] = <<>> /\ stopping[r] = "no" THEN "sleep" ELSE "take")
    /\ UNCHANGED <<calls, op, stopping, engine, ghost>>

\* Goes to sleep without looking at the inbox.
Sleep_Blindly(r) ==
    /\ run[r] = "sleep"
    /\ Run(r, "asleep")
    /\ UNCHANGED <<inbox, calls, batch, op, stopping, engine, ghost>>

\* The futex on the inbox.
Sleep(r) ==
    /\ run[r] = "sleep"
    /\ Run(r, IF inbox[r] = <<>> THEN "asleep" ELSE "drain")
    /\ UNCHANGED <<inbox, calls, batch, op, stopping, engine, ghost>>

\* The next node of the batch; next is read before the node is answered.
Take(r) ==
    /\ run[r] = "take" /\ batch[r] # <<>> /\ Head(batch[r]) # Stop
    /\ op' = [op EXCEPT ![r] = Head(batch[r])]
    /\ batch' = [batch EXCEPT ![r] = Tail(@)]
    /\ Run(r, "store")
    /\ UNCHANGED <<inbox, calls, stopping, engine, ghost>>

\* Stop: close the device, fail the rest of the batch.
TakeStop(r) ==
    /\ run[r] = "take" /\ batch[r] # <<>> /\ Head(batch[r]) = Stop
    /\ batch' = [batch EXCEPT ![r] = Tail(@)]
    /\ stopping' = [stopping EXCEPT ![r] = "batch"]
    /\ UNCHANGED <<inbox, calls, run, op, engine, ghost>>

\* Ends without looking for operations that arrived during the shutdown.
EndBatch_NoLateDrain(r) ==
    /\ run[r] = "take" /\ batch[r] = <<>>
    /\ Run(r, IF stopping[r] = "batch" THEN "ended" ELSE "drain")
    /\ UNCHANGED <<inbox, calls, batch, op, stopping, engine, ghost>>

\* The batch is finished: drain again; during the shutdown once more, for
\* the operations pushed meanwhile; then the thread ends.
EndBatch(r) ==
    /\ run[r] = "take" /\ batch[r] = <<>>
    /\ Run(r, IF stopping[r] = "late" THEN "ended" ELSE "drain")
    /\ stopping' = [stopping EXCEPT ![r] = IF @ = "batch" THEN "late" ELSE @]
    /\ UNCHANGED <<inbox, calls, batch, op, engine, ghost>>

\* Execute and Finalize's release store: the last access to the node.
Store(r) ==
    /\ run[r] = "store"
    /\ result' = [result EXCEPT ![op[r]] = IF stopping[r] = "no" THEN Ok ELSE NotOpen]
    /\ before' = [c \in Callers |-> before[c] \ {op[r]}]
    /\ Run(r, "bump")
    /\ UNCHANGED <<inbox, wake, pc, target, rest, seen, batch, op, stopping, engine, missed, ops>>

\* The wake word's fetch_add: its thread may be in a later call by now.
Bump(r) ==
    /\ run[r] = "bump"
    /\ wake' = [wake EXCEPT ![op[r]] = @ + 1]
    /\ Run(r, "notify")
    /\ UNCHANGED <<inbox, result, pc, target, rest, seen, batch, op, stopping, engine, ghost>>

\* notify_one: a sleeping thread looks at its wake word again.
Notify(r) ==
    /\ run[r] = "notify"
    /\ pc' = [pc EXCEPT ![op[r]] = IF @ = "asleep" THEN "wait" ELSE @]
    /\ op' = [op EXCEPT ![r] = Nobody]
    /\ Run(r, "take")
    /\ UNCHANGED <<inbox, result, wake, target, rest, seen, batch, stopping, engine, ghost>>

---------------------------------------------------------------------------
(* Engine::Close.                                                          *)

BeginClose ==
    /\ opened
    /\ opened' = FALSE
    /\ closing' = Devices
    /\ UNCHANGED <<inbox, calls, reactors, joining, ghost>>

\* Does not wake the reactor.
SubmitStop_Silently(r) ==
    /\ joining = {} /\ r \in closing
    /\ inbox' = [inbox EXCEPT ![r] = <<Stop>> \o @]
    /\ closing' = closing \ {r}
    /\ joining' = {r}
    /\ UNCHANGED <<calls, reactors, opened, ghost>>

\* Reactor::Stop, one reactor after the other.
SubmitStop(r) ==
    /\ joining = {} /\ r \in closing
    /\ inbox' = [inbox EXCEPT ![r] = <<Stop>> \o @]
    /\ Awaken(r)
    /\ closing' = closing \ {r}
    /\ joining' = {r}
    /\ UNCHANGED <<calls, batch, op, stopping, opened, ghost>>

Join(r) ==
    /\ r \in joining /\ run[r] = "ended"
    /\ joining' = {}
    /\ UNCHANGED <<inbox, calls, reactors, opened, closing, ghost>>

SubmitStep(c) ==
    NewNode(c) \/ Push(c) \/ NotifyInbox(c) \/ Test(c) \/ Wait(c)

ReactorStep(r) ==
    \/ Drain(r) \/ Sleep(r) \/ Take(r) \/ TakeStop(r) \/ EndBatch(r)
    \/ Store(r) \/ Bump(r) \/ Notify(r)

StopStep == \E r \in Devices : SubmitStop(r) \/ Join(r)

\* Close has returned and so has every call that was not missed.
Idle ==
    /\ ~ opened /\ closing = {} /\ joining = {}
    /\ \A c \in Callers \ missed : pc[c] = "out"
    /\ UNCHANGED vars

Next ==
    \/ \E c \in Callers : Call(c) \/ SubmitStep(c)
    \/ \E r \in Devices : ReactorStep(r)
    \/ BeginClose \/ StopStep
    \/ Idle

Spec == Init /\ [][Next]_vars

\* Every thread that is able to run does run; nobody has to call or to close.
FairSpec ==
    /\ Spec
    /\ \A c \in Callers : WF_vars(SubmitStep(c))
    /\ \A r \in Devices : WF_vars(ReactorStep(r))
    /\ WF_vars(StopStep)

---------------------------------------------------------------------------
(* Properties.                                                             *)

Labels == {"out", "node", "push", "notify", "test", "wait", "asleep"}
RunLabels == {"drain", "sleep", "asleep", "take", "store", "bump", "notify", "ended"}

\* The type invariant; a reactor has an operation in hand while it answers it.
TypeOK ==
    /\ inbox \in [Devices -> Seq(Callers \cup {Stop})]
    /\ result \in [Callers -> {Pending, Ok, NotOpen}]
    /\ wake \in [Callers -> Nat] /\ seen \in [Callers -> Nat]
    /\ pc \in [Callers -> Labels]
    /\ target \in [Callers -> Devices \cup {Nobody}] /\ rest \in [Callers -> SUBSET Devices]
    /\ run \in [Devices -> RunLabels]
    /\ batch \in [Devices -> Seq(Callers \cup {Stop})]
    /\ op \in [Devices -> Callers \cup {Nobody}]
    /\ \A r \in Devices : run[r] \in {"store", "bump", "notify"} <=> op[r] # Nobody
    /\ stopping \in [Devices -> {"no", "batch", "late"}]
    /\ opened \in BOOLEAN /\ closing \in SUBSET Devices /\ joining \in SUBSET Devices
    /\ missed \in SUBSET Callers /\ ops \in 0 .. MaxOps

Occurrences(s, x) == {i \in 1 .. Len(s) : s[i] = x}

\* The state has its type, and a node a reactor can still reach belongs to a call in
\* progress that waits for this reactor, and is reached once (Finalize and Take: the
\* node dies with the call, next is read first).
NodesAlive ==
    /\ TypeOK
    /\ \A r \in Devices, c \in Callers :
           LET held == (IF run[r] = "store" THEN <<op[r]>> ELSE <<>>) \o batch[r] \o inbox[r]
           IN  Occurrences(held, c) # {} =>
                   /\ result[c] = Pending /\ target[c] = r
                   /\ pc[c] \in {"notify", "test", "wait", "asleep"}
                   /\ \A i, j \in Occurrences(held, c) : i = j

\* Each reactor serves operations in the order in which they were pushed, across
\* batches and through the shutdown.  A caller waits for its answer before it calls again,
\* so only Stop depends on it: what arrived before Stop is executed before the devices are
\* closed, and what arrived after it is refused (drain-then-close in Run).
InArrivalOrder ==
    \A r \in Devices : run[r] = "store" => before[op[r]] = {}

\* A reactor asleep over a non-empty inbox is about to be notified.
NoSleepingReactor ==
    \A r \in Devices : run[r] = "asleep" /\ inbox[r] # <<>> =>
        \E c \in Callers : pc[c] = "notify" /\ target[c] = r

\* A caller asleep although its result is there is about to be woken by the
\* reactor that stored it, whatever bumps its earlier calls still cause.
NoSleepingCaller ==
    \A c \in Callers : pc[c] = "asleep" /\ result[c] # Pending =>
        \E r \in Devices : op[r] = c /\ run[r] \in {"bump", "notify"} /\ target[c] = r

\* Every call returns, calls that overtake Close included, unless its node was
\* pushed after the reactor's last drain.
EveryCallReturns ==
    \A c \in Callers : pc[c] # "out" ~> pc[c] = "out" \/ c \in missed

\* Close returns: each reactor sees its Stop and ends.
CloseReturns == ~ opened ~> closing = {} /\ joining = {}

==============================================================================
