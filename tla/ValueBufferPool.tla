---------------------------- MODULE ValueBufferPool ----------------------------
(***************************************************************************)
(* The pool of value buffers of one device (engine/value_buffer_pool.cpp): *)
(* a stack of free slots whose head carries a tag, a generation per slot,  *)
(* the count that Close waits for, and the test with which Put finds out   *)
(* whether a value lies in a buffer that was allocated for its key.        *)
(*                                                                         *)
(* One action is one atomic operation, with two liberties: a step that     *)
(* touches only the thread's own data joins its neighbour, and so does the *)
(* store to next_free of a slot that is not on the stack.  BeginClose's    *)
(* store to closing is a plain store, which the processor may keep from    *)
(* other threads for a while (pending); read-modify-write operations and   *)
(* entering the kernel make it visible.  Keys are taken to differ both in  *)
(* their length and in their bytes.  Tags and generations do not wrap.     *)
(***************************************************************************)
EXTENDS Integers, Sequences, FiniteSets

CONSTANTS
    Threads,     \* callers of the pool
    SlotCount,   \* slot_count
    Keys,        \* keys buffers are bound to
    MaxCalls     \* bound: calls of Allocate and Put

ASSUME SlotCountAssumption == SlotCount \in Nat
ASSUME MaxCallsAssumption == MaxCalls \in Nat

VARIABLES
    next_free,     \* per slot: the slot below it on the stack
    state,         \* per slot: "Free" or "Allocated"
    generation,    \* per slot
    bound_len,     \* per slot: the key whose length is stored (bound_key_len)
    bound_bytes,   \* per slot: the key whose bytes are stored
    free_head,     \* tag and slot
    active_count,  \* buffers and allocations in progress
    closing,       \* the flag, as other threads see it
    pending,       \* the closer's store to closing is not visible yet
    closer,        \* where Close is
    seen,          \* the count WaitUntilIdle has loaded
    pc,            \* per thread: where it is
    loc,           \* per thread: its locals
    live,          \* buffers in the hands of the application
    calls,         \* calls of Allocate and Put so far
    bound          \* ghost: per slot, the keys of its allocations in order

slots == <<next_free, state, generation, bound_len, bound_bytes>>
close == <<closing, pending, closer, seen>>
vars  == <<slots, free_head, active_count, close, pc, loc, live, calls, bound>>

Slots == 0 .. SlotCount - 1
kInvalidSlot == -1
NoKey == "none"
Heads == [tag : Nat, slot : Slots \cup {kInvalidSlot}]

NoLocals == [key |-> NoKey, head |-> [tag |-> 0, slot |-> kInvalidSlot], slot |-> kInvalidSlot,
             gen |-> 0, len |-> NoKey, bytes |-> NoKey, early |-> FALSE, own |-> {}]

Step(t, from, to) == pc[t] = from /\ pc' = [pc EXCEPT ![t] = to]

---------------------------------------------------------------------------
(* Create.                                                                 *)

FirstLinks == [s \in Slots |-> IF s + 1 = SlotCount THEN kInvalidSlot ELSE s + 1]

Init ==
    /\ next_free = FirstLinks
    /\ state = [s \in Slots |-> "Free"] /\ generation = [s \in Slots |-> 1]
    /\ bound_len = [s \in Slots |-> NoKey] /\ bound_bytes = [s \in Slots |-> NoKey]
    /\ free_head = [tag |-> 0, slot |-> IF SlotCount > 0 THEN 0 ELSE kInvalidSlot]
    /\ active_count = 0
    /\ closing = FALSE /\ pending = FALSE /\ closer = "open" /\ seen = 0
    /\ pc = [t \in Threads |-> "idle"] /\ loc = [t \in Threads |-> NoLocals]
    /\ live = {} /\ calls = 0
    /\ bound = [s \in Slots |-> <<>>]

---------------------------------------------------------------------------
(* Allocate.                                                               *)

\* The first look at closing turns late calls away.
Allocate(t, k) ==
    /\ calls < MaxCalls /\ ~ closing
    /\ Step(t, "idle", "count")
    /\ loc' = [loc EXCEPT ![t].key = k]
    /\ calls' = calls + 1
    /\ UNCHANGED <<slots, free_head, active_count, close, live, bound>>

Count(t) ==
    /\ Step(t, "count", "recheck")
    /\ active_count' = active_count + 1
    /\ loc' = [loc EXCEPT ![t].early = (closer = "open")]
    /\ UNCHANGED <<slots, free_head, close, live, calls, bound>>

Recheck(t) ==
    /\ Step(t, "recheck", IF closing THEN "drop" ELSE "load")
    /\ UNCHANGED <<slots, free_head, active_count, close, loc, live, calls, bound>>

\* An empty stack ends the call with kEnginePoolExhausted.
LoadHead(t) ==
    /\ Step(t, "load", IF free_head.slot = kInvalidSlot THEN "drop" ELSE "next")
    /\ loc' = [loc EXCEPT ![t].head = free_head]
    /\ UNCHANGED <<slots, free_head, active_count, close, live, calls, bound>>

LoadNext(t) ==
    /\ Step(t, "next", "pop")
    /\ loc' = [loc EXCEPT ![t].slot = next_free[loc[t].head.slot]]
    /\ UNCHANGED <<slots, free_head, active_count, close, live, calls, bound>>

\* Compares the slot of the head without its tag.
Pop_Untagged(t) ==
    /\ IF free_head.slot = loc[t].head.slot
       THEN /\ Step(t, "pop", "bytes")
            /\ free_head' = [tag |-> free_head.tag + 1, slot |-> loc[t].slot]
            /\ loc' = [loc EXCEPT ![t].slot = loc[t].head.slot]
            /\ bound' = [bound EXCEPT ![loc[t].head.slot] = Append(@, loc[t].key)]
       ELSE Step(t, "pop", "load") /\ UNCHANGED <<free_head, loc, bound>>
    /\ UNCHANGED <<slots, active_count, close, live, calls>>

\* Marks the slot as allocated before its key is stored.
Pop_Publishes(t) ==
    /\ IF free_head = loc[t].head
       THEN /\ Step(t, "pop", "bytes")
            /\ free_head' = [tag |-> free_head.tag + 1, slot |-> loc[t].slot]
            /\ state' = [state EXCEPT ![loc[t].head.slot] = "Allocated"]
            /\ loc' = [loc EXCEPT ![t].slot = loc[t].head.slot]
            /\ bound' = [bound EXCEPT ![loc[t].head.slot] = Append(@, loc[t].key)]
       ELSE Step(t, "pop", "load") /\ UNCHANGED <<free_head, state, loc, bound>>
    /\ UNCHANGED <<next_free, generation, bound_len, bound_bytes>>
    /\ UNCHANGED <<active_count, close, live, calls>>

\* The compare-and-exchange that takes the slot.
Pop(t) ==
    /\ IF free_head = loc[t].head
       THEN /\ Step(t, "pop", "bytes")
            /\ free_head' = [tag |-> free_head.tag + 1, slot |-> loc[t].slot]
            /\ loc' = [loc EXCEPT ![t].slot = loc[t].head.slot]
            /\ bound' = [bound EXCEPT ![loc[t].head.slot] = Append(@, loc[t].key)]
       ELSE Step(t, "pop", "load") /\ UNCHANGED <<free_head, loc, bound>>
    /\ UNCHANGED <<slots, active_count, close, live, calls>>

\* StoreBoundKey: first the bytes, then the length.
StoreBytes(t) ==
    /\ Step(t, "bytes", "len")
    /\ bound_bytes' = [bound_bytes EXCEPT ![loc[t].slot] = loc[t].key]
    /\ UNCHANGED <<next_free, state, generation, bound_len>>
    /\ UNCHANGED <<free_head, active_count, close, loc, live, calls, bound>>

StoreLen(t) ==
    /\ Step(t, "len", "publish")
    /\ bound_len' = [bound_len EXCEPT ![loc[t].slot] = loc[t].key]
    /\ UNCHANGED <<next_free, state, generation, bound_bytes>>
    /\ UNCHANGED <<free_head, active_count, close, loc, live, calls, bound>>

Publish(t) ==
    /\ Step(t, "publish", "control")
    /\ state' = [state EXCEPT ![loc[t].slot] = "Allocated"]
    /\ UNCHANGED <<next_free, generation, bound_len, bound_bytes>>
    /\ UNCHANGED <<free_head, active_count, close, loc, live, calls, bound>>

\* The buffer is handed out, unless there is no memory for its control block.
MakeControl(t) ==
    LET g == generation[loc[t].slot]
    IN  /\ \/ /\ Step(t, "control", "idle")
              /\ live' = live \cup {[slot |-> loc[t].slot, gen |-> g, key |-> loc[t].key,
                                     early |-> loc[t].early]}
              /\ loc' = [loc EXCEPT ![t] = NoLocals]
           \/ /\ Step(t, "control", "check")
              /\ loc' = [loc EXCEPT ![t].gen = g]
              /\ UNCHANGED live
        /\ UNCHANGED <<slots, free_head, active_count, close, calls, bound>>

---------------------------------------------------------------------------
(* Release.                                                                *)

\* reset or the destructor of a buffer, by whichever thread has it now.
Release(t, b) ==
    /\ b \in live
    /\ Step(t, "idle", "check")
    /\ live' = live \ {b}
    /\ loc' = [loc EXCEPT ![t].slot = b.slot, ![t].gen = b.gen, ![t].early = b.early]
    /\ UNCHANGED <<slots, free_head, active_count, close, calls, bound>>

CheckGeneration(t) ==
    /\ Step(t, "check", IF generation[loc[t].slot] = loc[t].gen THEN "free" ELSE "drop")
    /\ UNCHANGED <<slots, free_head, active_count, close, loc, live, calls, bound>>

ExchangeState(t) ==
    /\ Step(t, "free", IF state[loc[t].slot] = "Allocated" THEN "bump" ELSE "drop")
    /\ state' = [state EXCEPT ![loc[t].slot] = "Free"]
    /\ UNCHANGED <<next_free, generation, bound_len, bound_bytes>>
    /\ UNCHANGED <<free_head, active_count, close, loc, live, calls, bound>>

BumpGeneration(t) ==
    /\ Step(t, "bump", "push")
    /\ generation' = [generation EXCEPT ![loc[t].slot] = @ + 1]
    /\ UNCHANGED <<next_free, state, bound_len, bound_bytes>>
    /\ UNCHANGED <<free_head, active_count, close, loc, live, calls, bound>>

\* PushFreeSlot: read the head, link the slot to it, and exchange.
LinkSlot(t) ==
    /\ Step(t, "push", "link")
    /\ loc' = [loc EXCEPT ![t].head = free_head]
    /\ next_free' = [next_free EXCEPT ![loc[t].slot] = free_head.slot]
    /\ UNCHANGED <<state, generation, bound_len, bound_bytes>>
    /\ UNCHANGED <<free_head, active_count, close, live, calls, bound>>

Push(t) ==
    /\ IF free_head = loc[t].head
       THEN /\ Step(t, "link", "drop")
            /\ free_head' = [tag |-> free_head.tag + 1, slot |-> loc[t].slot]
       ELSE Step(t, "link", "push") /\ UNCHANGED free_head
    /\ UNCHANGED <<slots, active_count, close, loc, live, calls, bound>>

\* DropActiveRef: count down, and wake Close if it has begun.
DropActiveRef(t) ==
    /\ Step(t, "drop", "notify")
    /\ active_count' = active_count - 1
    /\ loc' = [loc EXCEPT ![t] = NoLocals]
    /\ UNCHANGED <<slots, free_head, close, live, calls, bound>>

\* Wakes nobody.
Notify_Not(t) ==
    /\ Step(t, "notify", "idle")
    /\ UNCHANGED <<slots, free_head, active_count, close, loc, live, calls, bound>>

Notify(t) ==
    /\ Step(t, "notify", "idle")
    /\ closer' = IF closing /\ closer = "asleep" THEN "load" ELSE closer
    /\ UNCHANGED <<slots, free_head, active_count, closing, pending, seen, loc, live, calls, bound>>

---------------------------------------------------------------------------
(* Put, as far as the pool takes part: Identify and the choice of path.    *)

\* A Put for key k of a value at the address of a slot.  "own" remembers whether
\* the value is in a buffer bound to k that the application holds.
Put(t, k, s) ==
    /\ calls < MaxCalls
    /\ Step(t, "idle", "probe_state")
    /\ loc' = [loc EXCEPT ![t].key = k, ![t].slot = s, ![t].gen = generation[s],
                          ![t].own = {b \in live : b.slot = s /\ b.key = k}]
    /\ calls' = calls + 1
    /\ UNCHANGED <<slots, free_head, active_count, close, live, bound>>

ProbeState(t) ==
    /\ Step(t, "probe_state", IF state[loc[t].slot] = "Allocated" THEN "probe_len" ELSE "copy")
    /\ UNCHANGED <<slots, free_head, active_count, close, loc, live, calls, bound>>

\* CopyBoundKey: first the length, then the bytes.
CopyLen(t) ==
    /\ Step(t, "probe_len", "probe_bytes")
    /\ loc' = [loc EXCEPT ![t].len = bound_len[loc[t].slot]]
    /\ UNCHANGED <<slots, free_head, active_count, close, live, calls, bound>>

CopyBytes(t) ==
    /\ Step(t, "probe_bytes", "probe_gen")
    /\ loc' = [loc EXCEPT ![t].bytes = bound_bytes[loc[t].slot]]
    /\ UNCHANGED <<slots, free_head, active_count, close, live, calls, bound>>

ProbeGeneration(t) ==
    /\ Step(t, "probe_gen", IF generation[loc[t].slot] = loc[t].gen THEN "probe_again" ELSE "copy")
    /\ UNCHANGED <<slots, free_head, active_count, close, loc, live, calls, bound>>

\* What a matched slot is to the Put, and how its value is written: only from a
\* buffer bound to its key directly.
ClassifyPutValueSource(l) ==
    IF l.len = l.key /\ l.bytes = l.key THEN "TargetKeyValueBuffer" ELSE "OtherKeyValueBuffer"
BuildPutWritePlan(source) == IF source = "TargetKeyValueBuffer" THEN "direct" ELSE "copy"

ProbeAgain(t) ==
    /\ Step(t, "probe_again",
            BuildPutWritePlan(IF state[loc[t].slot] = "Allocated"
                              THEN ClassifyPutValueSource(loc[t])
                              ELSE "PoolAddressNotAllocated"))
    /\ UNCHANGED <<slots, free_head, active_count, close, loc, live, calls, bound>>

\* The value is written and Put returns.
PutReturns(t) ==
    /\ Step(t, "direct", "idle") \/ Step(t, "copy", "idle")
    /\ loc' = [loc EXCEPT ![t] = NoLocals]
    /\ UNCHANGED <<slots, free_head, active_count, close, live, calls, bound>>

---------------------------------------------------------------------------
(* Close.                                                                  *)

\* BeginClose.  Nobody waits for the count yet, so its notify_all does nothing.
BeginClose ==
    /\ closer = "open"
    /\ closer' = "load" /\ pending' = TRUE
    /\ UNCHANGED <<slots, free_head, active_count, closing, seen, pc, loc, live, calls, bound>>

\* The store to closing leaves the store buffer.
StoreDrains ==
    /\ pending
    /\ pending' = FALSE /\ closing' = TRUE
    /\ UNCHANGED <<slots, free_head, active_count, closer, seen, pc, loc, live, calls, bound>>

WaitUntilIdle ==
    /\ closer = "load"
    /\ closer' = IF active_count = 0 THEN "closed" ELSE "wait"
    /\ seen' = active_count
    /\ UNCHANGED <<slots, free_head, active_count, closing, pending, pc, loc, live, calls, bound>>

\* Returns from WaitUntilIdle when the count has changed, whatever it is.
WaitForChange_Once ==
    /\ closer = "wait"
    /\ closer' = IF active_count = seen THEN "asleep" ELSE "closed"
    /\ pending' = FALSE /\ closing' = TRUE
    /\ UNCHANGED <<slots, free_head, active_count, seen, pc, loc, live, calls, bound>>

\* atomic::wait enters the kernel, which makes the store visible and compares the
\* count again: it sleeps, or returns because the count has changed.
WaitForChange ==
    /\ closer = "wait"
    /\ closer' = IF active_count = seen THEN "asleep" ELSE "load"
    /\ pending' = FALSE /\ closing' = TRUE
    /\ UNCHANGED <<slots, free_head, active_count, seen, pc, loc, live, calls, bound>>

AllocateSteps(t) ==
    \/ Count(t) \/ Recheck(t) \/ LoadHead(t) \/ LoadNext(t) \/ Pop(t)
    \/ StoreBytes(t) \/ StoreLen(t) \/ Publish(t) \/ MakeControl(t)
ReleaseSteps(t) ==
    \/ CheckGeneration(t) \/ ExchangeState(t) \/ BumpGeneration(t) \/ LinkSlot(t) \/ Push(t)
    \/ DropActiveRef(t) \/ Notify(t)
PutSteps(t) ==
    ProbeState(t) \/ CopyLen(t) \/ CopyBytes(t) \/ ProbeGeneration(t) \/ ProbeAgain(t) \/ PutReturns(t)
Steps(t) == AllocateSteps(t) \/ ReleaseSteps(t) \/ PutSteps(t)
Closing == StoreDrains \/ WaitUntilIdle \/ WaitForChange

Next ==
    \/ \E t \in Threads :
         \/ \E k \in Keys : Allocate(t, k) \/ \E s \in Slots : Put(t, k, s)
         \/ \E b \in live : Release(t, b)
         \/ Steps(t)
    \/ BeginClose \/ Closing

Spec == Init /\ [][Next]_vars

---------------------------------------------------------------------------
(* Properties.                                                             *)

TypeOK ==
    /\ next_free \in [Slots -> Slots \cup {kInvalidSlot}]
    /\ state \in [Slots -> {"Free", "Allocated"}]
    /\ generation \in [Slots -> Nat]
    /\ bound_len \in [Slots -> Keys \cup {NoKey}] /\ bound_bytes \in [Slots -> Keys \cup {NoKey}]
    /\ free_head \in Heads
    /\ active_count \in Nat
    /\ closing \in BOOLEAN /\ pending \in BOOLEAN /\ seen \in Nat
    /\ closer \in {"open", "load", "wait", "asleep", "closed"}

\* The n-th slot of the free stack.
NthFree[n \in 0 .. SlotCount] ==
    IF n = 0 THEN free_head.slot
    ELSE IF NthFree[n - 1] = kInvalidSlot THEN kInvalidSlot ELSE next_free[NthFree[n - 1]]
FreeSlots == {NthFree[n] : n \in 0 .. SlotCount} \ {kInvalidSlot}

Filling(t)   == pc[t] \in {"bytes", "len", "publish", "control"}
Returning(t) == pc[t] \in {"check", "free", "bump", "push", "link"}
Busy == {t \in Threads : Filling(t) \/ Returning(t)}

\* The state has its type, and a slot is on the free stack once, or in the hands of one
\* buffer or one thread: none is handed out twice and none is lost, however stale the
\* heads are that threads compare (the tag in free_head).
SlotsAccounted ==
    /\ TypeOK
    /\ NthFree[SlotCount] = kInvalidSlot
    /\ FreeSlots \cup {b.slot : b \in live} \cup {loc[t].slot : t \in Busy} = Slots
    /\ Cardinality(FreeSlots) + Cardinality(live) + Cardinality(Busy) = SlotCount

\* Put writes from a slot only when an allocation of the slot for its key was
\* there during the call, never on a mixture of two keys; and it does not copy
\* a buffer of its own key that the application held all the time (Identify).
PutSourceRight ==
    \A t \in Threads :
        /\ pc[t] = "direct" => /\ loc[t].gen \in DOMAIN bound[loc[t].slot]
                               /\ bound[loc[t].slot][loc[t].gen] = loc[t].key
        /\ pc[t] = "copy" => loc[t].own \cap live = {}

\* When Close has seen the count at zero, every allocation that was counted before
\* Close began has been released, and its slot is back on the stack.
CloseWaits ==
    closer = "closed" =>
        /\ \A b \in live : ~ b.early
        /\ \A t \in Threads : loc[t].early => pc[t] \notin {"load", "next", "pop"} /\ t \notin Busy

\* Close does not sleep through the last release: when it is asleep the count is
\* not zero, or the thread that brought it to zero is about to wake Close, although
\* that thread may have read closing before BeginClose's store was visible.
NoSleepingCloser ==
    closer = "asleep" =>
        active_count > 0 \/ \E t \in Threads : pc[t] = "notify"

==============================================================================
