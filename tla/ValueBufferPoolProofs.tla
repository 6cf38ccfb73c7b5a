------------------------- MODULE ValueBufferPoolProofs -------------------------
(***************************************************************************)
(* Proofs about ValueBufferPool, for any set of threads and of keys, any   *)
(* number of slots and of calls.                                           *)
(***************************************************************************)
EXTENDS ValueBufferPool, SequenceTheorems, FunctionTheorems, FiniteSetTheorems,
        WellFoundedInduction, TLAPS

USE SlotCountAssumption, MaxCallsAssumption

---------------------------------------------------------------------------
(* The inductive invariant: types.                                         *)

AnySlot == Slots \cup {kInvalidSlot}
AnyKey  == Keys \cup {NoKey}
Buffers == [slot : Slots, gen : Nat, key : Keys, early : BOOLEAN]
Locals  == [key : AnyKey, head : Heads, slot : AnySlot, gen : Nat, len : AnyKey,
            bytes : AnyKey, early : BOOLEAN, own : SUBSET Buffers]

Allocs == {"recheck", "load", "next", "pop"}
Fills  == {"bytes", "len", "publish", "control"}
Backs  == {"check", "free", "bump", "push", "link"}
Probes == {"probe_state", "probe_len", "probe_bytes", "probe_gen", "probe_again", "direct", "copy"}
Places == {"idle", "count", "drop", "notify"} \cup Allocs \cup Fills \cup Backs \cup Probes

\* A thread at p with locals l has what it works on.
Equipped(p, l) ==
    /\ p \in Places /\ l \in Locals
    /\ p \in Fills \cup Backs \cup Probes => l.slot \in Slots
    /\ p \in {"next", "pop"} => l.head.slot \in Slots
    /\ p \in {"count"} \cup Allocs \cup Fills \cup Probes => l.key \in Keys

Typed ==
    /\ next_free \in [Slots -> AnySlot]
    /\ state \in [Slots -> {"Free", "Allocated"}]
    /\ generation \in [Slots -> Nat \ {0}]
    /\ bound_len \in [Slots -> AnyKey] /\ bound_bytes \in [Slots -> AnyKey]
    /\ free_head \in Heads
    /\ live \in SUBSET Buffers /\ bound \in [Slots -> Seq(Keys)]
    /\ pc \in [Threads -> Places] /\ loc \in [Threads -> Locals]
    /\ \A t \in Threads : Equipped(pc[t], loc[t])

---------------------------------------------------------------------------
(* The inductive invariant: who has a slot.                                *)

Owns(t) == pc[t] \in Fills \cup Backs

\* A slot has one owner.
OneOwner ==
    /\ \A t, u \in Threads : Owns(t) /\ Owns(u) /\ loc[t].slot = loc[u].slot => t = u
    /\ \A b, c \in live : b.slot = c.slot => b = c
    /\ \A t \in Threads, b \in live : Owns(t) => loc[t].slot # b.slot

\* The slot is allocated, by its generation: bound ends with the allocation in progress.
InUse(s) == Len(bound[s]) = generation[s]
Spare(s) == state[s] = "Free" /\ Len(bound[s]) + 1 = generation[s]

\* The free stack, from its head down.
Linked(st) ==
    /\ free_head.slot = IF st = <<>> THEN kInvalidSlot ELSE st[1]
    /\ \A i \in 1 .. Len(st) : next_free[st[i]] = IF i = Len(st) THEN kInvalidSlot ELSE st[i + 1]
Unowned(s) ==
    /\ \A b \in live : b.slot # s
    /\ \A t \in Threads : Owns(t) => loc[t].slot # s
Stack(st) ==
    /\ Linked(st)
    /\ \A i, j \in 1 .. Len(st) : st[i] = st[j] => i = j
    /\ \A i \in 1 .. Len(st) : Spare(st[i]) /\ Unowned(st[i])
    /\ \A s \in Slots : Unowned(s) => \E i \in 1 .. Len(st) : st[i] = s
Stacked == \E st \in Seq(Slots) : Stack(st)

---------------------------------------------------------------------------
(* The inductive invariant: what becomes of a slot.                        *)

\* The key of slot s is stored for its allocation in progress.
Published(s) ==
    /\ InUse(s)
    /\ bound_len[s] = bound[s][generation[s]] /\ bound_bytes[s] = bound[s][generation[s]]
SlotsRight == \A s \in Slots : state[s] = "Allocated" => Published(s)

\* A buffer in the application's hands is the last allocation of its slot.
LiveRight ==
    \A b \in live : /\ state[b.slot] = "Allocated" /\ b.gen = generation[b.slot]
                    /\ bound[b.slot][b.gen] = b.key

\* A slot on its way to the application, and back, in the hands of a thread at p with
\* locals l.
OwnerRight(p, l) ==
    /\ p \in Fills => InUse(l.slot) /\ bound[l.slot][generation[l.slot]] = l.key
    /\ p \in {"check", "free", "bump"} => InUse(l.slot)
    /\ p \in {"bytes", "len", "publish", "bump"} => state[l.slot] = "Free"
    /\ p \in {"control", "check", "free"} => state[l.slot] = "Allocated"
    /\ p \in {"check", "free"} => l.gen = generation[l.slot]
    /\ p \in {"push", "link"} => Spare(l.slot)
    /\ p \in {"len", "publish"} => bound_bytes[l.slot] = l.key
    /\ p = "publish" => bound_len[l.slot] = l.key

\* A head that is still current when it is compared has kept the link below it.
HeadRight(p, l) ==
    /\ p \in {"next", "pop", "link"} => l.head.tag <= free_head.tag
    /\ p = "pop" /\ l.head = free_head => l.slot = next_free[l.head.slot]
    /\ p = "link" => next_free[l.slot] = l.head.slot

\* What a Put has found out, as long as the slot's generation has not moved on; and for good
\* once it has compared the generation.
ProbeRight(p, l) ==
    /\ p \in Probes => l.gen <= generation[l.slot]
    /\ p \in {"probe_len", "probe_bytes", "probe_gen"} /\ generation[l.slot] = l.gen =>
         /\ Published(l.slot)
         /\ p \in {"probe_bytes", "probe_gen"} => l.len = bound[l.slot][l.gen]
         /\ p = "probe_gen" => l.bytes = bound[l.slot][l.gen]
    /\ p \in {"probe_again", "direct"} =>
         /\ l.gen \in 1 .. Len(bound[l.slot])
         /\ l.len = bound[l.slot][l.gen] /\ l.bytes = bound[l.slot][l.gen]
    /\ p = "direct" => l.key = bound[l.slot][l.gen]

\* Buffers a Put has seen in the application's hands do not come back once released.
OwnRight(p, l) ==
    \A b \in l.own :
        /\ p \in Probes => b.slot = l.slot /\ b.key = l.key /\ b.gen = l.gen
        /\ b.gen <= Len(bound[b.slot])
        /\ \A u \in Threads : pc[u] \in Fills /\ loc[u].slot = b.slot => b.gen < generation[b.slot]
        /\ p = "copy" => b \notin live

Right(p, l) == OwnerRight(p, l) /\ HeadRight(p, l) /\ ProbeRight(p, l) /\ OwnRight(p, l)

SlotInv ==
    /\ Typed /\ OneOwner /\ Stacked /\ SlotsRight /\ LiveRight
    /\ \A t \in Threads : Right(pc[t], loc[t])

---------------------------------------------------------------------------
(* The inductive invariant: the count, and Close.                          *)

Held == Allocs \cup Fills \cup Backs \cup {"drop"}
Counted == {t \in Threads : pc[t] \in Held}
CountRight ==
    /\ IsFiniteSet(Counted) /\ IsFiniteSet(live)
    /\ active_count = Cardinality(Counted) + Cardinality(live)

CloseOrder ==
    /\ closer \in {"open", "load", "wait", "asleep", "closed"}
    /\ closing \in BOOLEAN /\ pending \in BOOLEAN /\ seen \in Nat
    /\ closer = "wait" => seen > 0
    /\ closer = "asleep" => closing
    /\ closer = "closed" => (\A b \in live : ~ b.early) /\ (\A t \in Counted : ~ loc[t].early)

IInv == SlotInv /\ CountRight /\ CloseOrder /\ NoSleepingCloser

---------------------------------------------------------------------------
(* Create.                                                                 *)

\* The locals of a thread that is not in a call are well typed.
LEMMA NoLocalsType == NoLocals \in Locals /\ Equipped("idle", NoLocals) /\ NoLocals.own = {}
  <1>1. NoLocals \in Locals /\ NoLocals.own = {}
    BY DEF NoLocals, Locals, Heads, AnySlot, AnyKey
  <1> QED BY <1>1 DEF Equipped, Places, Fills, Backs, Probes, Allocs

\* Create puts every slot on the stack.
LEMMA SlotInit == Init => SlotInv
  <1> SUFFICES ASSUME Init PROVE SlotInv
    OBVIOUS
  <1>0. pc = [t \in Threads |-> "idle"] /\ loc = [t \in Threads |-> NoLocals]
    BY DEF Init
  <1>1. Typed
    <2>1. next_free \in [Slots -> AnySlot]
      BY DEF Init, FirstLinks, AnySlot, Slots, kInvalidSlot
    <2>2. free_head \in Heads
      BY DEF Init, Heads, AnySlot, Slots, kInvalidSlot
    <2>3. /\ state \in [Slots -> {"Free", "Allocated"}] /\ generation \in [Slots -> Nat \ {0}]
          /\ bound_len \in [Slots -> AnyKey] /\ bound_bytes \in [Slots -> AnyKey]
          /\ live \in SUBSET Buffers /\ bound \in [Slots -> Seq(Keys)]
      BY DEF Init, AnyKey
    <2>4. pc \in [Threads -> Places]
      BY <1>0 DEF Places
    <2>5. loc \in [Threads -> Locals]
      BY <1>0, NoLocalsType
    <2>6. \A t \in Threads : Equipped(pc[t], loc[t])
      BY <1>0, NoLocalsType
    <2> QED BY <2>1, <2>2, <2>3, <2>4, <2>5, <2>6 DEF Typed
  <1>2. \A t \in Threads : ~ Owns(t)
    BY <1>0 DEF Owns, Fills, Backs
  <1>3. live = {}
    BY DEF Init
  <1>4. OneOwner /\ LiveRight
    BY <1>2, <1>3 DEF OneOwner, LiveRight
  <1>5. SlotsRight
    BY DEF Init, SlotsRight
  <1>6. Stacked
    <2> DEFINE st == [i \in 1 .. SlotCount |-> i - 1]
    <2>1. st \in Seq(Slots) /\ Len(st) = SlotCount
      BY DEF Slots
    <2>2. \A i \in 1 .. SlotCount : st[i] = i - 1 /\ i - 1 \in Slots
      BY DEF Slots
    <2>3. st = <<>> <=> SlotCount = 0
      BY <2>1, EmptySeq
    <2> HIDE DEF st
    <2>4. Linked(st)
      BY <2>1, <2>2, <2>3 DEF Linked, Init, FirstLinks
    <2>5. \A i, j \in 1 .. Len(st) : st[i] = st[j] => i = j
      BY <2>1, <2>2
    <2>6. \A i \in 1 .. Len(st) : Spare(st[i]) /\ Unowned(st[i])
      BY <1>2, <1>3, <2>1, <2>2 DEF Init, Spare, Unowned
    <2>7. \A s \in Slots : \E i \in 1 .. Len(st) : st[i] = s
      <3> TAKE s \in Slots
      <3>1. s \in Nat /\ s + 1 \in 1 .. SlotCount /\ s + 1 - 1 = s
        BY DEF Slots
      <3>2. s + 1 \in 1 .. Len(st) /\ st[s + 1] = s
        BY <2>1, <2>2, <3>1
      <3> QED BY <3>2
    <2> QED BY <2>1, <2>4, <2>5, <2>6, <2>7 DEF Stacked, Stack
  <1>7. \A t \in Threads : Right(pc[t], loc[t])
    BY <1>0, NoLocalsType
    DEF Right, OwnerRight, HeadRight, ProbeRight, OwnRight, Fills, Backs, Probes
  <1> QED BY <1>1, <1>4, <1>5, <1>6, <1>7 DEF SlotInv

---------------------------------------------------------------------------
(* Steps that leave the slots alone.                                       *)

\* What a thread owns and how its neighbours see the slots do not depend on the locals
\* that a step changes without touching a slot or the head.
LEMMA LocalStep ==
    ASSUME SlotInv, NEW t \in Threads, NEW p, NEW l, Equipped(p, l),
           pc' = [pc EXCEPT ![t] = p], loc' = [loc EXCEPT ![t] = l],
           UNCHANGED <<next_free, state, generation, bound_len, bound_bytes>>,
           UNCHANGED <<free_head, live, bound>>,
           p \in Fills \cup Backs <=> Owns(t), Owns(t) => l.slot = loc[t].slot,
           p \in Fills => pc[t] \in Fills,
           Right(p, l)
    PROVE  SlotInv'
  <1>0. Typed
    BY DEF SlotInv
  <1>1. /\ pc'[t] = p /\ loc'[t] = l
        /\ \A u \in Threads : u # t => pc'[u] = pc[u] /\ loc'[u] = loc[u]
    BY <1>0 DEF Typed
  <1>2. Typed'
    <2>1. \A u \in Threads : Equipped(pc'[u], loc'[u])
      BY <1>0, <1>1, Zenon DEF Typed
    <2>2. pc' \in [Threads -> Places] /\ loc' \in [Threads -> Locals]
      BY <1>0 DEF Typed, Equipped
    <2>3. /\ next_free' \in [Slots -> AnySlot] /\ state' \in [Slots -> {"Free", "Allocated"}]
          /\ generation' \in [Slots -> Nat \ {0}]
          /\ bound_len' \in [Slots -> AnyKey] /\ bound_bytes' \in [Slots -> AnyKey]
          /\ free_head' \in Heads /\ live' \in SUBSET Buffers /\ bound' \in [Slots -> Seq(Keys)]
      BY <1>0, Zenon DEF Typed
    <2> QED BY <2>1, <2>2, <2>3, Zenon DEF Typed
  <1>3. \A u \in Threads : (Owns(u)' <=> Owns(u)) /\ (Owns(u) => loc'[u].slot = loc[u].slot)
    BY <1>1 DEF Owns
  <1>4. OneOwner'
    BY <1>3 DEF SlotInv, OneOwner
  <1>5. SlotsRight' /\ LiveRight'
    BY DEF SlotInv, SlotsRight, LiveRight, Published, InUse
  <1>6. Stacked'
    <2>1. PICK st \in Seq(Slots) : Stack(st)
      BY DEF SlotInv, Stacked
    <2>2. \A s : Unowned(s)' <=> Unowned(s)
      BY <1>3, Zenon DEF Unowned
    <2>3. \A s : Spare(s)' <=> Spare(s)
      BY Zenon DEF Spare
    <2>4. Linked(st)' <=> Linked(st)
      BY Zenon DEF Linked
    <2>5. Stack(st)'
      BY <2>1, <2>2, <2>3, <2>4, Zenon DEF Stack
    <2> QED BY <2>5, Zenon DEF Stacked
  <1>7. ASSUME NEW u \in Threads PROVE Right(pc[u], loc[u])'
    <2>1. Right(pc'[u], loc'[u])
      BY <1>1 DEF SlotInv
    <2>2. OwnerRight(pc[u], loc[u])'
      BY <2>1 DEF Right, OwnerRight, InUse, Spare
    <2>3. HeadRight(pc[u], loc[u])'
      BY <2>1 DEF Right, HeadRight
    <2>4. ProbeRight(pc[u], loc[u])'
      BY <2>1 DEF Right, ProbeRight, InUse, Published
    <2>5. \A v \in Threads : pc'[v] \in Fills => pc[v] \in Fills /\ loc'[v].slot = loc[v].slot
      BY <1>1 DEF Owns
    <2>6. OwnRight(pc[u], loc[u])'
      BY <2>1, <2>5 DEF Right, OwnRight
    <2> QED BY <2>2, <2>3, <2>4, <2>6 DEF Right
  <1> QED BY <1>2, <1>4, <1>5, <1>6, <1>7 DEF SlotInv

\* What every thread can rely on.
LEMMA ThreadFacts ==
    ASSUME SlotInv, NEW t \in Threads
    PROVE  /\ loc[t] \in Locals /\ pc[t] \in Places
           /\ Equipped(pc[t], loc[t]) /\ Right(pc[t], loc[t])
           /\ \A u \in Threads : u # t => Equipped(pc[u], loc[u]) /\ Right(pc[u], loc[u])
  BY DEF SlotInv, Typed

\* Allocate up to the exchange of the head, what a failed exchange leads to, and the end
\* of a release.
LEMMA QuietAllocateStep ==
    ASSUME SlotInv, NEW t \in Threads,
           \/ \E k \in Keys : Allocate(t, k)
           \/ Count(t) \/ Recheck(t) \/ LoadHead(t) \/ LoadNext(t)
           \/ CheckGeneration(t) \/ DropActiveRef(t) \/ Notify(t)
    PROVE  SlotInv'
  <1> DEFINE l == loc[t]
  <1>a. l \in Locals /\ Equipped(pc[t], l) /\ Right(pc[t], l)
    BY ThreadFacts
  <1>b. pc \in [Threads -> Places] /\ loc \in [Threads -> Locals]
    BY DEF SlotInv, Typed
  <1>c. loc' = loc => loc' = [loc EXCEPT ![t] = l]
    BY <1>b
  <1> USE DEF Step
  <1>1. ASSUME NEW k \in Keys, Allocate(t, k) PROVE SlotInv'
    <2> DEFINE m == [l EXCEPT !.key = k]
    <2>1. /\ pc[t] = "idle" /\ pc' = [pc EXCEPT ![t] = "count"] /\ loc' = [loc EXCEPT ![t] = m]
          /\ UNCHANGED <<next_free, state, generation, bound_len, bound_bytes>>
          /\ UNCHANGED <<free_head, live, bound>>
      BY <1>1, <1>b DEF Allocate, slots
    <2>2. m \in Locals /\ m.key = k /\ m.own = l.own
      BY <1>a DEF Locals, AnyKey
    <2> HIDE DEF m
    <2>3. Equipped("count", m)
      BY <2>2 DEF Equipped, Places, Fills, Backs, Probes, Allocs
    <2>4. Right("count", m)
      BY <1>a, <2>2 DEF Right, OwnerRight, HeadRight, ProbeRight, OwnRight, Fills, Probes
    <2>5. "count" \notin Fills \cup Backs /\ ~ Owns(t)
      BY <2>1 DEF Owns, Fills, Backs
    <2> QED BY <2>1, <2>3, <2>4, <2>5, LocalStep
  <1>2. CASE Count(t)
    <2> DEFINE m == [l EXCEPT !.early = (closer = "open")]
    <2>1. /\ pc[t] = "count" /\ pc' = [pc EXCEPT ![t] = "recheck"] /\ loc' = [loc EXCEPT ![t] = m]
          /\ UNCHANGED <<next_free, state, generation, bound_len, bound_bytes>>
          /\ UNCHANGED <<free_head, live, bound>>
      BY <1>2, <1>b DEF Count, slots
    <2>2. (closer = "open") \in BOOLEAN
      OBVIOUS
    <2>3. m \in Locals /\ m.key = l.key /\ m.own = l.own
      BY <1>a, <2>2 DEF Locals
    <2> HIDE DEF m
    <2>4. Equipped("recheck", m)
      BY <1>a, <2>1, <2>3 DEF Equipped, Places, Fills, Backs, Probes, Allocs
    <2>5. Right("recheck", m)
      BY <1>a, <2>3 DEF Right, OwnerRight, HeadRight, ProbeRight, OwnRight, Fills, Probes
    <2>6. "recheck" \notin Fills \cup Backs /\ ~ Owns(t)
      BY <2>1 DEF Owns, Fills, Backs
    <2> QED BY <2>1, <2>4, <2>5, <2>6, LocalStep
  <1>3. CASE Recheck(t)
    <2>1. PICK p \in {"drop", "load"} : pc' = [pc EXCEPT ![t] = p]
      BY <1>3 DEF Recheck
    <2>2. /\ pc[t] = "recheck" /\ loc' = [loc EXCEPT ![t] = l]
          /\ UNCHANGED <<next_free, state, generation, bound_len, bound_bytes>>
          /\ UNCHANGED <<free_head, live, bound>>
      BY <1>3, <1>c DEF Recheck, slots
    <2>3. Equipped(p, l)
      BY <1>a, <2>1, <2>2 DEF Equipped, Places, Fills, Backs, Probes, Allocs
    <2>4. Right(p, l)
      BY <1>a, <2>1, <2>2 DEF Right, OwnerRight, HeadRight, ProbeRight, OwnRight, Fills, Probes
    <2>5. p \notin Fills \cup Backs /\ ~ Owns(t)
      BY <2>1, <2>2 DEF Owns, Fills, Backs
    <2> QED BY <2>1, <2>2, <2>3, <2>4, <2>5, LocalStep
  <1>4. CASE LoadHead(t)
    <2> DEFINE m == [l EXCEPT !.head = free_head]
    <2>1. PICK p \in {"drop", "next"} :
            pc' = [pc EXCEPT ![t] = p] /\ (p = "next" => free_head.slot # kInvalidSlot)
      BY <1>4 DEF LoadHead
    <2>2. /\ pc[t] = "load" /\ loc' = [loc EXCEPT ![t] = m]
          /\ UNCHANGED <<next_free, state, generation, bound_len, bound_bytes>>
          /\ UNCHANGED <<free_head, live, bound>>
      BY <1>4, <1>b DEF LoadHead, slots
    <2>3. free_head \in Heads /\ free_head.tag \in Nat /\ free_head.slot \in AnySlot
      BY DEF SlotInv, Typed, Heads, AnySlot
    <2>4. m \in Locals /\ m.key = l.key /\ m.own = l.own /\ m.head = free_head
      BY <1>a, <2>3 DEF Locals
    <2> HIDE DEF m
    <2>5. Equipped(p, m)
      BY <1>a, <2>1, <2>2, <2>3, <2>4 DEF Equipped, Places, Fills, Backs, Probes, Allocs, AnySlot
    <2>6. Right(p, m)
      BY <1>a, <2>1, <2>2, <2>3, <2>4
      DEF Right, OwnerRight, HeadRight, ProbeRight, OwnRight, Fills, Probes
    <2>7. p \notin Fills \cup Backs /\ ~ Owns(t)
      BY <2>1, <2>2 DEF Owns, Fills, Backs
    <2> QED BY <2>1, <2>2, <2>5, <2>6, <2>7, LocalStep
  <1>5. CASE LoadNext(t)
    <2> DEFINE m == [l EXCEPT !.slot = next_free[l.head.slot]]
    <2>1. /\ pc[t] = "next" /\ pc' = [pc EXCEPT ![t] = "pop"] /\ loc' = [loc EXCEPT ![t] = m]
          /\ UNCHANGED <<next_free, state, generation, bound_len, bound_bytes>>
          /\ UNCHANGED <<free_head, live, bound>>
      BY <1>5, <1>b DEF LoadNext, slots
    <2>2. l.head.slot \in Slots /\ next_free[l.head.slot] \in AnySlot
      BY <1>a, <2>1 DEF Equipped, SlotInv, Typed
    <2>3. /\ m \in Locals /\ m.key = l.key /\ m.own = l.own /\ m.head = l.head
          /\ m.slot = next_free[l.head.slot]
      BY <1>a, <2>2 DEF Locals
    <2> HIDE DEF m
    <2>4. Equipped("pop", m)
      BY <1>a, <2>1, <2>2, <2>3 DEF Equipped, Places, Fills, Backs, Probes, Allocs
    <2>5. Right("pop", m)
      BY <1>a, <2>1, <2>3 DEF Right, OwnerRight, HeadRight, ProbeRight, OwnRight, Fills, Probes
    <2>6. "pop" \notin Fills \cup Backs /\ ~ Owns(t)
      BY <2>1 DEF Owns, Fills, Backs
    <2> QED BY <2>1, <2>4, <2>5, <2>6, LocalStep
  <1>6. CASE CheckGeneration(t)
    <2>1. pc[t] = "check" /\ loc' = [loc EXCEPT ![t] = l]
          /\ UNCHANGED <<next_free, state, generation, bound_len, bound_bytes>>
          /\ UNCHANGED <<free_head, live, bound>>
      BY <1>6, <1>c DEF CheckGeneration, slots
    <2>2. l.gen = generation[l.slot]
      BY <1>a, <2>1 DEF Right, OwnerRight
    <2>3. pc' = [pc EXCEPT ![t] = "free"]
      BY <1>6, <2>2 DEF CheckGeneration
    <2>4. Equipped("free", l)
      BY <1>a, <2>1 DEF Equipped, Places, Fills, Backs, Probes, Allocs
    <2>5. Right("free", l)
      BY <1>a, <2>1 DEF Right, OwnerRight, HeadRight, ProbeRight, OwnRight, Fills, Probes
    <2>6. "free" \in Fills \cup Backs /\ Owns(t) /\ "free" \notin Fills
      BY <2>1 DEF Owns, Fills, Backs
    <2> QED BY <2>1, <2>3, <2>4, <2>5, <2>6, LocalStep
  <1>7. CASE DropActiveRef(t)
    <2>1. /\ pc[t] = "drop" /\ pc' = [pc EXCEPT ![t] = "notify"]
          /\ loc' = [loc EXCEPT ![t] = NoLocals]
          /\ UNCHANGED <<next_free, state, generation, bound_len, bound_bytes>>
          /\ UNCHANGED <<free_head, live, bound>>
      BY <1>7 DEF DropActiveRef, slots
    <2>2. Equipped("notify", NoLocals)
      BY NoLocalsType DEF Equipped, Places, Fills, Backs, Probes, Allocs
    <2>3. Right("notify", NoLocals)
      BY NoLocalsType DEF Right, OwnerRight, HeadRight, ProbeRight, OwnRight, Fills, Probes
    <2>4. "notify" \notin Fills \cup Backs /\ ~ Owns(t)
      BY <2>1 DEF Owns, Fills, Backs
    <2> QED BY <2>1, <2>2, <2>3, <2>4, LocalStep
  <1>8. CASE Notify(t)
    <2>1. /\ pc[t] = "notify" /\ pc' = [pc EXCEPT ![t] = "idle"]
          /\ loc' = [loc EXCEPT ![t] = l]
          /\ UNCHANGED <<next_free, state, generation, bound_len, bound_bytes>>
          /\ UNCHANGED <<free_head, live, bound>>
      BY <1>8, <1>c DEF Notify, slots
    <2>2. Equipped("idle", l)
      BY <1>a DEF Equipped, Places, Fills, Backs, Probes, Allocs
    <2>3. Right("idle", l)
      BY <1>a DEF Right, OwnerRight, HeadRight, ProbeRight, OwnRight, Fills, Probes
    <2>4. "idle" \notin Fills \cup Backs /\ ~ Owns(t)
      BY <2>1 DEF Owns, Fills, Backs
    <2> QED BY <2>1, <2>2, <2>3, <2>4, LocalStep
  <1> QED BY <1>1, <1>2, <1>3, <1>4, <1>5, <1>6, <1>7, <1>8

\* A Put up to its return.  What it concludes from the slot is right because a generation
\* that has not moved since the call began means that the slot's key has not either.
LEMMA QuietPutStep ==
    ASSUME SlotInv, NEW t \in Threads,
           \/ \E k \in Keys, s \in Slots : Put(t, k, s)
           \/ PutSteps(t)
    PROVE  SlotInv'
  <1> DEFINE l == loc[t]
  <1>a. l \in Locals /\ Equipped(pc[t], l) /\ Right(pc[t], l)
    BY ThreadFacts
  <1>b. pc \in [Threads -> Places] /\ loc \in [Threads -> Locals]
    BY DEF SlotInv, Typed
  <1>c. loc' = loc => loc' = [loc EXCEPT ![t] = l]
    BY <1>b
  <1>d. /\ generation \in [Slots -> Nat \ {0}] /\ bound \in [Slots -> Seq(Keys)]
        /\ bound_len \in [Slots -> AnyKey] /\ bound_bytes \in [Slots -> AnyKey]
        /\ live \in SUBSET Buffers
    BY DEF SlotInv, Typed
  <1>e. ASSUME NEW b \in live
        PROVE  /\ b.slot \in Slots /\ state[b.slot] = "Allocated" /\ b.gen = generation[b.slot]
               /\ Published(b.slot) /\ bound[b.slot][b.gen] = b.key
    BY <1>d DEF SlotInv, LiveRight, SlotsRight, Buffers
  <1>f. pc[t] \in {"probe_state", "probe_len", "probe_bytes", "probe_gen", "probe_again"} =>
          l.slot \in Slots /\ l.key \in Keys
    BY <1>a DEF Equipped, Probes
  <1> USE DEF Step
  <1>1. ASSUME NEW k \in Keys, NEW s \in Slots, Put(t, k, s) PROVE SlotInv'
    <2> DEFINE own == {b \in live : b.slot = s /\ b.key = k}
               m   == [l EXCEPT !.key = k, !.slot = s, !.gen = generation[s], !.own = own]
    <2>1. /\ pc[t] = "idle" /\ pc' = [pc EXCEPT ![t] = "probe_state"]
          /\ loc' = [loc EXCEPT ![t] = m]
          /\ UNCHANGED <<next_free, state, generation, bound_len, bound_bytes>>
          /\ UNCHANGED <<free_head, live, bound>>
      BY <1>1, <1>b DEF Put, slots
    <2>2. own \in SUBSET Buffers /\ generation[s] \in Nat \ {0}
      BY <1>d
    <2>3. m \in Locals /\ m.key = k /\ m.slot = s /\ m.gen = generation[s] /\ m.own = own
      BY <1>a, <2>2 DEF Locals, AnyKey, AnySlot
    <2>4. \A b \in own : b \in live /\ b.slot = s /\ b.key = k
      OBVIOUS
    <2> HIDE DEF m, own
    <2>5. Equipped("probe_state", m)
      BY <2>3 DEF Equipped, Places, Fills, Backs, Probes, Allocs
    <2>6. OwnRight("probe_state", m)
      <3> SUFFICES ASSUME NEW b \in own
                   PROVE  /\ b.slot = m.slot /\ b.key = m.key /\ b.gen = m.gen
                          /\ b.gen <= Len(bound[b.slot])
                          /\ \A u \in Threads : ~ (pc[u] \in Fills /\ loc[u].slot = b.slot)
        BY <2>3 DEF OwnRight
      <3>1. b \in live /\ b.slot = s /\ b.key = k
        BY <2>4
      <3>2. b.gen = generation[s] /\ Len(bound[s]) = generation[s]
        BY <1>e, <3>1 DEF Published, InUse
      <3>3. \A u \in Threads : ~ (pc[u] \in Fills /\ loc[u].slot = b.slot)
        BY <3>1 DEF SlotInv, OneOwner, Owns
      <3> QED BY <2>2, <2>3, <3>1, <3>2, <3>3
    <2>7. Right("probe_state", m)
      BY <2>2, <2>3, <2>6 DEF Right, OwnerRight, HeadRight, ProbeRight, Fills, Probes
    <2>8. "probe_state" \notin Fills \cup Backs /\ ~ Owns(t)
      BY <2>1 DEF Owns, Fills, Backs
    <2> QED BY <2>1, <2>5, <2>7, <2>8, LocalStep
  <1>2. CASE ProbeState(t)
    <2>1. PICK p \in {"probe_len", "copy"} :
            pc' = [pc EXCEPT ![t] = p] /\ (p = "probe_len" <=> state[l.slot] = "Allocated")
      BY <1>2 DEF ProbeState
    <2>2. /\ pc[t] = "probe_state" /\ loc' = [loc EXCEPT ![t] = l]
          /\ UNCHANGED <<next_free, state, generation, bound_len, bound_bytes>>
          /\ UNCHANGED <<free_head, live, bound>>
      BY <1>2, <1>c DEF ProbeState, slots
    <2>3. Equipped(p, l)
      BY <1>a, <2>1, <2>2 DEF Equipped, Places, Fills, Backs, Probes, Allocs
    <2>4. p = "probe_len" => Published(l.slot)
      BY <1>f, <2>1, <2>2 DEF SlotInv, SlotsRight
    <2>5. OwnRight(p, l)
      <3>1. \A b \in l.own : b.slot = l.slot
        BY <1>a, <2>2 DEF Right, OwnRight, Probes
      <3>2. p = "copy" => \A b \in l.own : b \notin live
        BY <1>e, <2>1, <3>1
      <3> QED BY <1>a, <2>1, <2>2, <3>2 DEF Right, OwnRight, Probes
    <2>6. Right(p, l)
      BY <1>a, <2>1, <2>2, <2>4, <2>5 DEF Right, OwnerRight, HeadRight, ProbeRight, Fills, Probes
    <2>7. p \notin Fills \cup Backs /\ ~ Owns(t)
      BY <2>1, <2>2 DEF Owns, Fills, Backs
    <2> QED BY <2>1, <2>2, <2>3, <2>6, <2>7, LocalStep
  <1>3. CASE CopyLen(t)
    <2> DEFINE m == [l EXCEPT !.len = bound_len[l.slot]]
    <2>1. /\ pc[t] = "probe_len" /\ pc' = [pc EXCEPT ![t] = "probe_bytes"]
          /\ loc' = [loc EXCEPT ![t] = m]
          /\ UNCHANGED <<next_free, state, generation, bound_len, bound_bytes>>
          /\ UNCHANGED <<free_head, live, bound>>
      BY <1>3, <1>b DEF CopyLen, slots
    <2>2. bound_len[l.slot] \in AnyKey
      BY <1>d, <1>f, <2>1
    <2>3. /\ m \in Locals /\ m.key = l.key /\ m.slot = l.slot /\ m.gen = l.gen /\ m.own = l.own
          /\ m.len = bound_len[l.slot]
      BY <1>a, <2>2 DEF Locals
    <2> HIDE DEF m
    <2>4. Equipped("probe_bytes", m)
      BY <1>a, <2>1, <2>3 DEF Equipped, Places, Fills, Backs, Probes, Allocs
    <2>5. Right("probe_bytes", m)
      BY <1>a, <2>1, <2>3
      DEF Right, OwnerRight, HeadRight, ProbeRight, OwnRight, Published, Fills, Probes
    <2>6. "probe_bytes" \notin Fills \cup Backs /\ ~ Owns(t)
      BY <2>1 DEF Owns, Fills, Backs
    <2> QED BY <2>1, <2>4, <2>5, <2>6, LocalStep
  <1>4. CASE CopyBytes(t)
    <2> DEFINE m == [l EXCEPT !.bytes = bound_bytes[l.slot]]
    <2>1. /\ pc[t] = "probe_bytes" /\ pc' = [pc EXCEPT ![t] = "probe_gen"]
          /\ loc' = [loc EXCEPT ![t] = m]
          /\ UNCHANGED <<next_free, state, generation, bound_len, bound_bytes>>
          /\ UNCHANGED <<free_head, live, bound>>
      BY <1>4, <1>b DEF CopyBytes, slots
    <2>2. bound_bytes[l.slot] \in AnyKey
      BY <1>d, <1>f, <2>1
    <2>3. /\ m \in Locals /\ m.key = l.key /\ m.slot = l.slot /\ m.gen = l.gen /\ m.own = l.own
          /\ m.len = l.len /\ m.bytes = bound_bytes[l.slot]
      BY <1>a, <2>2 DEF Locals
    <2> HIDE DEF m
    <2>4. Equipped("probe_gen", m)
      BY <1>a, <2>1, <2>3 DEF Equipped, Places, Fills, Backs, Probes, Allocs
    <2>5. Right("probe_gen", m)
      BY <1>a, <2>1, <2>3
      DEF Right, OwnerRight, HeadRight, ProbeRight, OwnRight, Published, Fills, Probes
    <2>6. "probe_gen" \notin Fills \cup Backs /\ ~ Owns(t)
      BY <2>1 DEF Owns, Fills, Backs
    <2> QED BY <2>1, <2>4, <2>5, <2>6, LocalStep
  <1>5. CASE ProbeGeneration(t)
    <2>1. PICK p \in {"probe_again", "copy"} :
            pc' = [pc EXCEPT ![t] = p] /\ (p = "probe_again" <=> generation[l.slot] = l.gen)
      BY <1>5 DEF ProbeGeneration
    <2>2. /\ pc[t] = "probe_gen" /\ loc' = [loc EXCEPT ![t] = l]
          /\ UNCHANGED <<next_free, state, generation, bound_len, bound_bytes>>
          /\ UNCHANGED <<free_head, live, bound>>
      BY <1>5, <1>c DEF ProbeGeneration, slots
    <2>3. Equipped(p, l)
      BY <1>a, <2>1, <2>2 DEF Equipped, Places, Fills, Backs, Probes, Allocs
    <2>4. p = "probe_again" =>
            /\ l.gen \in 1 .. Len(bound[l.slot])
            /\ l.len = bound[l.slot][l.gen] /\ l.bytes = bound[l.slot][l.gen]
      BY <1>a, <1>d, <1>f, <2>1, <2>2 DEF Right, ProbeRight, Published, InUse
    <2>5. OwnRight(p, l)
      <3>1. \A b \in l.own : b.slot = l.slot /\ b.gen = l.gen
        BY <1>a, <2>2 DEF Right, OwnRight, Probes
      <3>2. p = "copy" => \A b \in l.own : b \notin live
        BY <1>e, <2>1, <3>1
      <3> QED BY <1>a, <2>1, <2>2, <3>2 DEF Right, OwnRight, Probes
    <2>6. Right(p, l)
      BY <1>a, <2>1, <2>2, <2>4, <2>5 DEF Right, OwnerRight, HeadRight, ProbeRight, Fills, Probes
    <2>7. p \notin Fills \cup Backs /\ ~ Owns(t)
      BY <2>1, <2>2 DEF Owns, Fills, Backs
    <2> QED BY <2>1, <2>2, <2>3, <2>6, <2>7, LocalStep
  <1>6. CASE ProbeAgain(t)
    <2>1. PICK p \in {"direct", "copy"} :
            /\ pc' = [pc EXCEPT ![t] = p]
            /\ p = "direct" <=> state[l.slot] = "Allocated" /\ l.len = l.key /\ l.bytes = l.key
      BY <1>6 DEF ProbeAgain, BuildPutWritePlan, ClassifyPutValueSource
    <2>2. /\ pc[t] = "probe_again" /\ loc' = [loc EXCEPT ![t] = l]
          /\ UNCHANGED <<next_free, state, generation, bound_len, bound_bytes>>
          /\ UNCHANGED <<free_head, live, bound>>
      BY <1>6, <1>c DEF ProbeAgain, slots
    <2>3. Equipped(p, l)
      BY <1>a, <2>1, <2>2 DEF Equipped, Places, Fills, Backs, Probes, Allocs
    <2>4. l.len = bound[l.slot][l.gen] /\ l.bytes = bound[l.slot][l.gen]
      BY <1>a, <2>2 DEF Right, ProbeRight
    <2>5. OwnRight(p, l)
      <3>1. \A b \in l.own : b.slot = l.slot /\ b.gen = l.gen /\ b.key = l.key
        BY <1>a, <2>2 DEF Right, OwnRight, Probes
      <3>2. p = "copy" => \A b \in l.own : b \notin live
        BY <1>e, <2>1, <2>4, <3>1
      <3> QED BY <1>a, <2>1, <2>2, <3>2 DEF Right, OwnRight, Probes
    <2>6. Right(p, l)
      BY <1>a, <2>1, <2>2, <2>4, <2>5 DEF Right, OwnerRight, HeadRight, ProbeRight, Fills, Probes
    <2>7. p \notin Fills \cup Backs /\ ~ Owns(t)
      BY <2>1, <2>2 DEF Owns, Fills, Backs
    <2> QED BY <2>1, <2>2, <2>3, <2>6, <2>7, LocalStep
  <1>7. CASE PutReturns(t)
    <2>1. /\ pc[t] \in {"direct", "copy"} /\ pc' = [pc EXCEPT ![t] = "idle"]
          /\ loc' = [loc EXCEPT ![t] = NoLocals]
          /\ UNCHANGED <<next_free, state, generation, bound_len, bound_bytes>>
          /\ UNCHANGED <<free_head, live, bound>>
      BY <1>7 DEF PutReturns, slots
    <2>2. Equipped("idle", NoLocals)
      BY NoLocalsType
    <2>3. Right("idle", NoLocals)
      BY NoLocalsType DEF Right, OwnerRight, HeadRight, ProbeRight, OwnRight, Fills, Probes
    <2>4. "idle" \notin Fills \cup Backs /\ ~ Owns(t)
      BY <2>1 DEF Owns, Fills, Backs
    <2> QED BY <2>1, <2>2, <2>3, <2>4, LocalStep
  <1> QED BY <1>1, <1>2, <1>3, <1>4, <1>5, <1>6, <1>7 DEF PutSteps

\* Exchanges that another thread has forestalled, and an allocation without memory for the
\* control block, which goes the way of a release.
LEMMA FailedStep ==
    ASSUME SlotInv, NEW t \in Threads,
           \/ Pop(t) /\ free_head # loc[t].head
           \/ Push(t) /\ free_head # loc[t].head
           \/ MakeControl(t) /\ pc'[t] = "check"
    PROVE  SlotInv'
  <1> DEFINE l == loc[t]
  <1>a. l \in Locals /\ Equipped(pc[t], l) /\ Right(pc[t], l)
    BY ThreadFacts
  <1>b. pc \in [Threads -> Places] /\ loc \in [Threads -> Locals]
    BY DEF SlotInv, Typed
  <1>c. loc' = loc => loc' = [loc EXCEPT ![t] = l]
    BY <1>b
  <1> USE DEF Step
  <1>1. CASE Pop(t) /\ free_head # loc[t].head
    <2>1. /\ pc[t] = "pop" /\ pc' = [pc EXCEPT ![t] = "load"] /\ loc' = [loc EXCEPT ![t] = l]
          /\ UNCHANGED <<next_free, state, generation, bound_len, bound_bytes>>
          /\ UNCHANGED <<free_head, live, bound>>
      BY <1>1, <1>c DEF Pop, slots
    <2>2. Equipped("load", l)
      BY <1>a, <2>1 DEF Equipped, Places, Fills, Backs, Probes, Allocs
    <2>3. Right("load", l)
      BY <1>a DEF Right, OwnerRight, HeadRight, ProbeRight, OwnRight, Fills, Probes
    <2>4. "load" \notin Fills \cup Backs /\ ~ Owns(t)
      BY <2>1 DEF Owns, Fills, Backs
    <2> QED BY <2>1, <2>2, <2>3, <2>4, LocalStep
  <1>2. CASE Push(t) /\ free_head # loc[t].head
    <2>1. /\ pc[t] = "link" /\ pc' = [pc EXCEPT ![t] = "push"] /\ loc' = [loc EXCEPT ![t] = l]
          /\ UNCHANGED <<next_free, state, generation, bound_len, bound_bytes>>
          /\ UNCHANGED <<free_head, live, bound>>
      BY <1>2, <1>c DEF Push, slots
    <2>2. Equipped("push", l)
      BY <1>a, <2>1 DEF Equipped, Places, Fills, Backs, Probes, Allocs
    <2>3. Right("push", l)
      BY <1>a, <2>1 DEF Right, OwnerRight, HeadRight, ProbeRight, OwnRight, Fills, Probes
    <2>4. "push" \in Fills \cup Backs /\ Owns(t) /\ "push" \notin Fills
      BY <2>1 DEF Owns, Fills, Backs
    <2> QED BY <2>1, <2>2, <2>3, <2>4, LocalStep
  <1>3. CASE MakeControl(t) /\ pc'[t] = "check"
    <2> DEFINE m == [l EXCEPT !.gen = generation[l.slot]]
    <2>1. pc[t] = "control" /\ pc' = [pc EXCEPT ![t] = "check"]
      BY <1>3, <1>b DEF MakeControl
    <2>2. /\ loc' = [loc EXCEPT ![t] = m]
          /\ UNCHANGED <<next_free, state, generation, bound_len, bound_bytes>>
          /\ UNCHANGED <<free_head, live, bound>>
      BY <1>3, <1>b DEF MakeControl, slots
    <2>3. l.slot \in Slots /\ generation[l.slot] \in Nat
      BY <1>a, <2>1 DEF Equipped, Fills, SlotInv, Typed
    <2>4. m \in Locals /\ m.slot = l.slot /\ m.gen = generation[l.slot] /\ m.own = l.own
      BY <1>a, <2>3 DEF Locals
    <2> HIDE DEF m
    <2>5. Equipped("check", m)
      BY <2>3, <2>4 DEF Equipped, Places, Fills, Backs, Probes, Allocs
    <2>6. Right("check", m)
      BY <1>a, <2>1, <2>4 DEF Right, OwnerRight, HeadRight, ProbeRight, OwnRight, Fills, Probes
    <2>7. "check" \in Fills \cup Backs /\ Owns(t) /\ "check" \notin Fills
      BY <2>1 DEF Owns, Fills, Backs
    <2> QED BY <2>1, <2>2, <2>4, <2>5, <2>6, <2>7, LocalStep
  <1> QED BY <1>1, <1>2, <1>3

---------------------------------------------------------------------------
(* Steps in which the owner of a slot changes it.                          *)

\* The owner of a slot may change it as long as a Put that watches the slot finds either
\* another generation or the published key.
LEMMA OwnerStep ==
    ASSUME SlotInv, NEW t \in Threads, NEW p, NEW l, NEW s \in Slots,
           s = loc[t].slot, l.slot = s, l.own = loc[t].own,
           Equipped(p, l), pc' = [pc EXCEPT ![t] = p], loc' = [loc EXCEPT ![t] = l],
           Owns(t), p \in Fills \cup Backs, p \in Fills => pc[t] \in Fills,
           UNCHANGED <<free_head, live, bound>>,
           next_free' \in [Slots -> AnySlot], state' \in [Slots -> {"Free", "Allocated"}],
           generation' \in [Slots -> Nat \ {0}],
           bound_len' \in [Slots -> AnyKey], bound_bytes' \in [Slots -> AnyKey],
           \A x \in Slots : x # s =>
               /\ next_free'[x] = next_free[x] /\ state'[x] = state[x]
               /\ generation'[x] = generation[x]
               /\ bound_len'[x] = bound_len[x] /\ bound_bytes'[x] = bound_bytes[x],
           generation'[s] >= generation[s],
           generation'[s] = generation[s] /\ Published(s) => Published(s)',
           state'[s] = "Allocated" => Published(s)',
           OwnerRight(p, l)', HeadRight(p, l)'
    PROVE  SlotInv'
  <1>0. Typed
    BY DEF SlotInv
  <1>a. generation \in [Slots -> Nat \ {0}] /\ bound \in [Slots -> Seq(Keys)]
    BY <1>0 DEF Typed
  <1>1. /\ pc'[t] = p /\ loc'[t] = l
        /\ \A u \in Threads : u # t => pc'[u] = pc[u] /\ loc'[u] = loc[u]
    BY <1>0 DEF Typed
  <1>2. Typed'
    <2>1. \A u \in Threads : Equipped(pc'[u], loc'[u])
      BY <1>0, <1>1, Zenon DEF Typed
    <2>2. pc' \in [Threads -> Places] /\ loc' \in [Threads -> Locals]
      BY <1>0 DEF Typed, Equipped
    <2>3. free_head' \in Heads /\ live' \in SUBSET Buffers /\ bound' \in [Slots -> Seq(Keys)]
      BY <1>0, Zenon DEF Typed
    <2> QED BY <2>1, <2>2, <2>3, Zenon DEF Typed
  <1>3. \A u \in Threads : (Owns(u)' <=> Owns(u)) /\ loc'[u].slot = loc[u].slot
    BY <1>1 DEF Owns
  <1>4. OneOwner'
    BY <1>3 DEF SlotInv, OneOwner
  <1>5. \A x \in Slots : x # s => (Published(x)' <=> Published(x))
    BY DEF Published, InUse
  <1>6. SlotsRight'
    BY <1>5 DEF SlotInv, SlotsRight
  <1>7. LiveRight'
    <2> SUFFICES ASSUME NEW b \in live
                 PROVE  /\ state'[b.slot] = "Allocated" /\ b.gen = generation'[b.slot]
                        /\ bound[b.slot][b.gen] = b.key
      BY DEF LiveRight
    <2>1. b.slot \in Slots
      BY <1>0 DEF Typed, Buffers
    <2>2. b.slot # s
      BY DEF SlotInv, OneOwner
    <2> QED BY <2>1, <2>2 DEF SlotInv, LiveRight
  <1>8. PICK st \in Seq(Slots) : Stack(st)
    BY DEF SlotInv, Stacked
  <1>9. \A i \in 1 .. Len(st) : st[i] \in Slots /\ st[i] # s
    <2> TAKE i \in 1 .. Len(st)
    <2>1. st[i] \in Slots
      BY ElementOfSeq
    <2>2. Unowned(st[i])
      BY <1>8 DEF Stack
    <2> QED BY <2>1, <2>2 DEF Unowned
  <1>10. Stacked'
    <2>1. \A x : Unowned(x)' <=> Unowned(x)
      BY <1>3 DEF Unowned
    <2>2. \A i \in 1 .. Len(st) : Spare(st[i])' <=> Spare(st[i])
      BY <1>9 DEF Spare
    <2>3. Linked(st)'
      <3>1. \A i \in 1 .. Len(st) : next_free'[st[i]] = next_free[st[i]]
        BY <1>9
      <3>2. Linked(st) /\ free_head' = free_head
        BY <1>8 DEF Stack
      <3> QED BY <3>1, <3>2 DEF Linked
    <2>4. Stack(st)'
      BY <1>8, <2>1, <2>2, <2>3, Zenon DEF Stack
    <2> QED BY <2>4, Zenon DEF Stacked
  <1>11. free_head.slot \in Slots => free_head.slot # s
    <2>1. free_head.slot \in Slots => st # <<>>
      BY <1>8 DEF Stack, Linked, Slots, kInvalidSlot
    <2>2. st # <<>> => 1 \in 1 .. Len(st)
      BY EmptySeq
    <2> QED BY <1>8, <1>9, <2>1, <2>2 DEF Stack, Linked
  <1>12. \A v \in Threads : pc'[v] \in Fills => pc[v] \in Fills /\ loc'[v].slot = loc[v].slot
    BY <1>1, <1>3
  <1>13. \A u \in Threads : \A b \in loc[u].own : b \in Buffers
    BY <1>0 DEF Typed, Locals
  <1>g. \A x \in Slots : /\ generation'[x] \in Nat /\ generation[x] \in Nat
                            /\ generation'[x] >= generation[x]
    <2> TAKE x \in Slots
    <2>1. generation'[x] \in Nat /\ generation[x] \in Nat
      BY <1>a
    <2>2. CASE x = s
      BY <2>1, <2>2
    <2>3. CASE x # s
      <3>1. generation'[x] = generation[x]
        BY <2>3
      <3> QED BY <2>1, <3>1
    <2> QED BY <2>2, <2>3
  <1>14. ASSUME NEW u \in Threads, u # t PROVE Right(pc[u], loc[u])'
    <2>a. PICK q \in Places : q = pc[u]
      BY <1>0 DEF Typed
    <2>b. PICK m \in Locals : m = loc[u]
      BY <1>0 DEF Typed
    <2>1. /\ pc'[u] = q /\ loc'[u] = m /\ Right(q, m) /\ Equipped(q, m)
      BY <1>1, <1>14, <2>a, <2>b, ThreadFacts
    <2>2. OwnerRight(q, m)'
      <3>1. q \in Fills \cup Backs => m.slot \in Slots /\ m.slot # s
        BY <1>14, <2>a, <2>b, <2>1 DEF SlotInv, OneOwner, Owns, Equipped
      <3>2. q \in Fills \cup Backs => OwnerRight(q, m)'
        BY <2>1, <3>1 DEF Right, OwnerRight, InUse, Spare
      <3>3. q \notin Fills \cup Backs => OwnerRight(q, m)'
        BY DEF OwnerRight, Fills, Backs
      <3> QED BY <3>2, <3>3
    <2>3. HeadRight(q, m)'
      <3>1. q = "link" => m.slot \in Slots /\ m.slot # s
        BY <1>14, <2>a, <2>b, <2>1 DEF SlotInv, OneOwner, Owns, Equipped, Backs
      <3>2. q = "pop" => m.head.slot \in Slots
        BY <2>1 DEF Equipped
      <3> QED BY <1>11, <2>1, <3>1, <3>2 DEF Right, HeadRight
    <2>4. ProbeRight(q, m)'
      <3>1. q \in Probes => m.slot \in Slots /\ m.gen \in Nat
        BY <2>1 DEF Equipped, Locals
      <3>2. CASE q \notin Probes
        BY <3>2 DEF ProbeRight, Probes
      <3>3. CASE q \in Probes /\ m.slot # s
        BY <1>5, <2>1, <3>1, <3>3 DEF Right, ProbeRight
      <3>4. CASE q \in Probes /\ m.slot = s
        <4>1. generation'[s] \in Nat /\ generation[s] \in Nat
          BY <1>a
        <4>2. m.gen <= generation'[s]
          BY <2>1, <3>1, <3>4, <4>1 DEF Right, ProbeRight
        <4>3. generation'[s] = m.gen => generation[s] = m.gen
          BY <2>1, <3>1, <3>4, <4>1 DEF Right, ProbeRight
        <4> QED BY <2>1, <3>4, <4>2, <4>3 DEF Right, ProbeRight
      <3> QED BY <3>2, <3>3, <3>4
    <2>5. OwnRight(q, m)'
      <3>1. ASSUME NEW b \in m.own, NEW v \in Threads, pc'[v] \in Fills, loc'[v].slot = b.slot
            PROVE  b.gen < generation'[b.slot]
        <4>1. b.gen < generation[b.slot]
          BY <1>12, <2>1, <3>1 DEF Right, OwnRight
        <4>2. b.gen \in Nat /\ b.slot \in Slots
          BY <1>13, <2>b DEF Buffers
        <4>3. generation'[b.slot] \in Nat /\ generation[b.slot] \in Nat
              /\ generation'[b.slot] >= generation[b.slot]
          BY <1>g, <4>2
        <4> QED BY <4>1, <4>2, <4>3
      <3> QED BY <2>1, <3>1 DEF Right, OwnRight
    <2> QED BY <2>1, <2>2, <2>3, <2>4, <2>5 DEF Right
  <1>15. Right(pc[t], loc[t])'
    <2>1. ProbeRight(p, l)'
      BY DEF ProbeRight, Fills, Backs, Probes
    <2>2. OwnRight(p, l)'
      <3>1. OwnRight(pc[t], loc[t])
        BY ThreadFacts DEF Right
      <3>2. p \notin Probes /\ p # "copy"
        BY DEF Fills, Backs, Probes
      <3>3. ASSUME NEW b \in l.own, NEW v \in Threads, pc'[v] \in Fills, loc'[v].slot = b.slot
            PROVE  b.gen < generation'[b.slot]
        <4>1. b.gen < generation[b.slot]
          BY <1>12, <3>1, <3>3 DEF OwnRight
        <4>2. b.gen \in Nat /\ b.slot \in Slots
          BY <1>13 DEF Buffers
        <4>3. generation'[b.slot] \in Nat /\ generation[b.slot] \in Nat
              /\ generation'[b.slot] >= generation[b.slot]
          BY <1>g, <4>2
        <4> QED BY <4>1, <4>2, <4>3
      <3> QED BY <3>1, <3>2, <3>3 DEF OwnRight
    <2> QED BY <1>1, <2>1, <2>2 DEF Right
  <1>16. \A u \in Threads : Right(pc[u], loc[u])'
    BY <1>14, <1>15
  <1> QED BY <1>2, <1>4, <1>6, <1>7, <1>10, <1>16 DEF SlotInv

\* The steps of Allocate after it has taken a slot, and of a release before it gives the
\* slot back.
LEMMA OwnedSlotStep ==
    ASSUME SlotInv, NEW t \in Threads,
           \/ StoreBytes(t) \/ StoreLen(t) \/ Publish(t)
           \/ ExchangeState(t) \/ BumpGeneration(t) \/ LinkSlot(t)
    PROVE  SlotInv'
  <1>0. Typed
    BY DEF SlotInv
  <1>a. PICK l \in Locals : l = loc[t]
    BY ThreadFacts
  <1>b. Equipped(pc[t], l) /\ Right(pc[t], l)
    BY <1>a, ThreadFacts
  <1>c. Owns(t)
    BY DEF Owns, Fills, Backs, StoreBytes, StoreLen, Publish, ExchangeState, BumpGeneration,
           LinkSlot, Step
  <1>d. PICK s \in Slots : s = l.slot
    BY <1>a, <1>b, <1>c DEF Owns, Equipped
  <1>e. /\ next_free \in [Slots -> AnySlot] /\ state \in [Slots -> {"Free", "Allocated"}]
        /\ generation \in [Slots -> Nat \ {0}]
        /\ bound_len \in [Slots -> AnyKey] /\ bound_bytes \in [Slots -> AnyKey]
        /\ free_head \in Heads /\ bound \in [Slots -> Seq(Keys)] /\ loc \in [Threads -> Locals]
    BY <1>0 DEF Typed
  <1>f. loc' = loc => loc' = [loc EXCEPT ![t] = l]
    BY <1>a, <1>e
  <1>h. generation[s] \in Nat /\ generation[s] >= generation[s]
    BY <1>e
  <1>g. /\ "len" \in Fills /\ "publish" \in Fills /\ "control" \in Fills
        /\ "bump" \in Backs /\ "push" \in Backs /\ "link" \in Backs
        /\ "bump" \notin Fills /\ "push" \notin Fills /\ "link" \notin Fills
        /\ "bytes" \in Fills
    BY DEF Fills, Backs
  <1> USE DEF Step
  <1>1. CASE StoreBytes(t)
    <2>1. /\ pc[t] = "bytes" /\ pc' = [pc EXCEPT ![t] = "len"] /\ loc' = [loc EXCEPT ![t] = l]
          /\ bound_bytes' = [bound_bytes EXCEPT ![s] = l.key]
          /\ UNCHANGED <<next_free, state, generation, bound_len>>
          /\ UNCHANGED <<free_head, live, bound>>
      BY <1>1, <1>a, <1>d, <1>f DEF StoreBytes
    <2>2. Equipped("len", l)
      BY <1>b, <2>1 DEF Equipped, Places, Fills, Backs, Probes, Allocs
    <2>3. l.key \in AnyKey
      BY <1>a DEF Locals
    <2>4. bound_bytes' \in [Slots -> AnyKey] /\ bound_bytes'[s] = l.key
      BY <1>e, <2>1, <2>3
    <2>5. InUse(s) /\ bound[s][generation[s]] = l.key /\ state[s] = "Free"
      BY <1>b, <1>d, <1>g, <2>1 DEF Right, OwnerRight
    <2>6. Published(s) => Published(s)'
      BY <2>1, <2>4, <2>5 DEF Published, InUse
    <2>7. OwnerRight("len", l)' /\ HeadRight("len", l)'
      BY <1>d, <2>1, <2>4, <2>5 DEF OwnerRight, HeadRight, InUse
    <2>8. \A x \in Slots : x # s => bound_bytes'[x] = bound_bytes[x]
      BY <1>e, <2>1
    <2>9. "len" \in Fills \cup Backs /\ pc[t] \in Fills
      BY <1>g, <2>1
    <2> QED BY <1>a, <1>c, <1>d, <1>e, <1>g, <1>h, <2>1, <2>2, <2>4, <2>5, <2>6, <2>7,
               <2>8, <2>9, OwnerStep, ZenonT(30)
  <1>2. CASE StoreLen(t)
    <2>1. /\ pc[t] = "len" /\ pc' = [pc EXCEPT ![t] = "publish"] /\ loc' = [loc EXCEPT ![t] = l]
          /\ bound_len' = [bound_len EXCEPT ![s] = l.key]
          /\ UNCHANGED <<next_free, state, generation, bound_bytes>>
          /\ UNCHANGED <<free_head, live, bound>>
      BY <1>2, <1>a, <1>d, <1>f DEF StoreLen
    <2>2. Equipped("publish", l)
      BY <1>b, <2>1 DEF Equipped, Places, Fills, Backs, Probes, Allocs
    <2>3. l.key \in AnyKey
      BY <1>a DEF Locals
    <2>4. bound_len' \in [Slots -> AnyKey] /\ bound_len'[s] = l.key
      BY <1>e, <2>1, <2>3
    <2>5. /\ InUse(s) /\ bound[s][generation[s]] = l.key /\ state[s] = "Free"
          /\ bound_bytes[s] = l.key
      BY <1>b, <1>d, <1>g, <2>1 DEF Right, OwnerRight
    <2>6. Published(s) => Published(s)'
      BY <2>1, <2>4, <2>5 DEF Published, InUse
    <2>7. OwnerRight("publish", l)' /\ HeadRight("publish", l)'
      BY <1>d, <2>1, <2>4, <2>5 DEF OwnerRight, HeadRight, InUse
    <2>8. \A x \in Slots : x # s => bound_len'[x] = bound_len[x]
      BY <1>e, <2>1
    <2>9. "publish" \in Fills \cup Backs /\ pc[t] \in Fills
      BY <1>g, <2>1
    <2> QED BY <1>a, <1>c, <1>d, <1>e, <1>g, <1>h, <2>1, <2>2, <2>4, <2>5, <2>6, <2>7,
               <2>8, <2>9, OwnerStep, ZenonT(30)
  <1>3. CASE Publish(t)
    <2>1. /\ pc[t] = "publish" /\ pc' = [pc EXCEPT ![t] = "control"]
          /\ loc' = [loc EXCEPT ![t] = l]
          /\ state' = [state EXCEPT ![s] = "Allocated"]
          /\ UNCHANGED <<next_free, generation, bound_len, bound_bytes>>
          /\ UNCHANGED <<free_head, live, bound>>
      BY <1>3, <1>a, <1>d, <1>f DEF Publish
    <2>2. Equipped("control", l)
      BY <1>b, <2>1 DEF Equipped, Places, Fills, Backs, Probes, Allocs
    <2>3. state' \in [Slots -> {"Free", "Allocated"}] /\ state'[s] = "Allocated"
      BY <1>e, <2>1
    <2>4. /\ InUse(s) /\ bound[s][generation[s]] = l.key
          /\ bound_bytes[s] = l.key /\ bound_len[s] = l.key
      BY <1>b, <1>d, <1>g, <2>1 DEF Right, OwnerRight
    <2>5. Published(s)'
      BY <2>1, <2>4 DEF Published, InUse
    <2>6. OwnerRight("control", l)' /\ HeadRight("control", l)'
      BY <1>d, <2>1, <2>3, <2>4 DEF OwnerRight, HeadRight, InUse
    <2>7. \A x \in Slots : x # s => state'[x] = state[x]
      BY <1>e, <2>1
    <2>9. "control" \in Fills \cup Backs /\ pc[t] \in Fills
      BY <1>g, <2>1
    <2> QED BY <1>a, <1>c, <1>d, <1>e, <1>g, <1>h, <2>1, <2>2, <2>3, <2>5, <2>6, <2>7,
               <2>9, OwnerStep, ZenonT(30)
  <1>4. CASE ExchangeState(t)
    <2>1. /\ pc[t] = "free" /\ loc' = [loc EXCEPT ![t] = l]
          /\ state' = [state EXCEPT ![s] = "Free"]
          /\ UNCHANGED <<next_free, generation, bound_len, bound_bytes>>
          /\ UNCHANGED <<free_head, live, bound>>
      BY <1>4, <1>a, <1>d, <1>f DEF ExchangeState
    <2>2. InUse(s) /\ state[s] = "Allocated"
      BY <1>b, <1>d, <2>1 DEF Right, OwnerRight
    <2>3. pc' = [pc EXCEPT ![t] = "bump"]
      BY <1>4, <1>a, <1>d, <2>2 DEF ExchangeState
    <2>4. Equipped("bump", l)
      BY <1>b, <2>1 DEF Equipped, Places, Fills, Backs, Probes, Allocs
    <2>5. state' \in [Slots -> {"Free", "Allocated"}] /\ state'[s] = "Free"
      BY <1>e, <2>1
    <2>6. Published(s) => Published(s)'
      BY <2>1 DEF Published, InUse
    <2>7. OwnerRight("bump", l)' /\ HeadRight("bump", l)'
      BY <1>d, <1>g, <2>1, <2>2, <2>5 DEF OwnerRight, HeadRight, InUse
    <2>8. \A x \in Slots : x # s => state'[x] = state[x]
      BY <1>e, <2>1
    <2> QED BY <1>a, <1>c, <1>d, <1>e, <1>g, <1>h, <2>1, <2>3, <2>4, <2>5, <2>6, <2>7,
               <2>8, OwnerStep, ZenonT(30)
  <1>5. CASE BumpGeneration(t)
    <2>1. /\ pc[t] = "bump" /\ pc' = [pc EXCEPT ![t] = "push"] /\ loc' = [loc EXCEPT ![t] = l]
          /\ generation' = [generation EXCEPT ![s] = @ + 1]
          /\ UNCHANGED <<next_free, state, bound_len, bound_bytes>>
          /\ UNCHANGED <<free_head, live, bound>>
      BY <1>5, <1>a, <1>d, <1>f DEF BumpGeneration
    <2>2. Equipped("push", l)
      BY <1>b, <2>1 DEF Equipped, Places, Fills, Backs, Probes, Allocs
    <2>3. generation' \in [Slots -> Nat \ {0}] /\ generation'[s] = generation[s] + 1
      BY <1>e, <2>1
    <2>4. generation'[s] >= generation[s] /\ generation'[s] # generation[s]
      BY <1>h, <2>3
    <2>5. InUse(s) /\ state[s] = "Free"
      BY <1>b, <1>d, <2>1 DEF Right, OwnerRight
    <2>6. OwnerRight("push", l)' /\ HeadRight("push", l)'
      BY <1>d, <1>g, <2>1, <2>3, <2>5 DEF OwnerRight, HeadRight, InUse, Spare
    <2>7. \A x \in Slots : x # s => generation'[x] = generation[x]
      BY <1>e, <2>1
    <2> QED BY <1>a, <1>c, <1>d, <1>e, <1>g, <2>1, <2>2, <2>3, <2>4, <2>5, <2>6, <2>7,
               OwnerStep, ZenonT(30)
  <1>6. CASE LinkSlot(t)
    <2>1. free_head.slot \in AnySlot /\ free_head.tag \in Nat /\ free_head.tag <= free_head.tag
      BY <1>e DEF Heads, AnySlot
    <2>2. [l EXCEPT !.head = free_head] \in Locals
      BY <1>a, <1>e DEF Locals
    <2>3. PICK m \in Locals : m = [l EXCEPT !.head = free_head]
      BY <2>2
    <2>4. m.slot = l.slot /\ m.own = l.own /\ m.head = free_head
      BY <1>a, <2>3 DEF Locals
    <2>5. /\ pc[t] = "push" /\ pc' = [pc EXCEPT ![t] = "link"] /\ loc' = [loc EXCEPT ![t] = m]
          /\ next_free' = [next_free EXCEPT ![s] = free_head.slot]
          /\ UNCHANGED <<state, generation, bound_len, bound_bytes>>
          /\ UNCHANGED <<free_head, live, bound>>
      BY <1>6, <1>a, <1>d, <1>e, <2>3 DEF LinkSlot
    <2>6. Equipped("link", m)
      BY <1>d, <2>4 DEF Equipped, Places, Fills, Backs, Probes, Allocs
    <2>7. next_free' \in [Slots -> AnySlot] /\ next_free'[s] = free_head.slot
      BY <1>e, <2>1, <2>5
    <2>8. Spare(s)
      BY <1>b, <1>d, <2>5 DEF Right, OwnerRight
    <2>9. Spare(s)' /\ state'[s] # "Allocated"
      BY <2>5, <2>8 DEF Spare
    <2>10. OwnerRight("link", m)'
      BY <1>d, <1>g, <2>4, <2>9 DEF OwnerRight
    <2>11. HeadRight("link", m)'
      BY <1>d, <2>1, <2>4, <2>5, <2>7 DEF HeadRight
    <2>12. \A x \in Slots : x # s => next_free'[x] = next_free[x]
      BY <1>e, <2>5
    <2>13. Published(s) => Published(s)'
      BY <2>5 DEF Published, InUse
    <2> QED BY <1>a, <1>c, <1>d, <1>e, <1>g, <1>h, <2>4, <2>5, <2>6, <2>7, <2>9, <2>10,
               <2>11, <2>12, <2>13, OwnerStep, ZenonT(30)
  <1> QED BY <1>1, <1>2, <1>3, <1>4, <1>5, <1>6

---------------------------------------------------------------------------
(* Steps in which a slot changes hands.                                    *)

\* The application gives a buffer back: its slot goes from the buffer to the thread.
LEMMA ReleaseStep ==
    ASSUME SlotInv, NEW t \in Threads, NEW b \in live, Release(t, b)
    PROVE  SlotInv'
  <1>0. Typed
    BY DEF SlotInv
  <1>a. b \in Buffers /\ b.slot \in Slots /\ b.gen \in Nat /\ b.early \in BOOLEAN
    BY <1>0 DEF Typed, Buffers
  <1>b. PICK l \in Locals : l = loc[t]
    BY ThreadFacts
  <1>c. [l EXCEPT !.slot = b.slot, !.gen = b.gen, !.early = b.early] \in Locals
    BY <1>a, <1>b DEF Locals, AnySlot
  <1>d. PICK m \in Locals : m = [l EXCEPT !.slot = b.slot, !.gen = b.gen, !.early = b.early]
    BY <1>c
  <1>e. m.slot = b.slot /\ m.gen = b.gen /\ m.own = l.own
    BY <1>b, <1>d DEF Locals
  <1>1. /\ pc[t] = "idle" /\ pc' = [pc EXCEPT ![t] = "check"] /\ loc' = [loc EXCEPT ![t] = m]
        /\ live' = live \ {b}
        /\ UNCHANGED <<next_free, state, generation, bound_len, bound_bytes>>
        /\ UNCHANGED <<free_head, bound>>
    BY <1>0, <1>b, <1>d DEF Release, Step, slots, Typed
  <1>2. /\ pc'[t] = "check" /\ loc'[t] = m
        /\ \A u \in Threads : u # t => pc'[u] = pc[u] /\ loc'[u] = loc[u]
    BY <1>0, <1>1 DEF Typed
  <1>3. Typed'
    <2>1. Equipped("check", m)
      BY <1>a, <1>e DEF Equipped, Places, Fills, Backs, Probes, Allocs
    <2>2. \A u \in Threads : Equipped(pc'[u], loc'[u])
      BY <1>0, <1>2, <2>1, Zenon DEF Typed
    <2>3. pc' \in [Threads -> Places] /\ loc' \in [Threads -> Locals]
      BY <1>0, <1>1, <2>1 DEF Typed, Equipped
    <2>4. live' \in SUBSET Buffers
      BY <1>0, <1>1 DEF Typed
    <2> QED BY <1>0, <1>1, <2>2, <2>3, <2>4, Zenon DEF Typed
  <1>4. /\ Owns(t)' /\ ~ Owns(t)
        /\ \A u \in Threads : u # t => (Owns(u)' <=> Owns(u)) /\ loc'[u].slot = loc[u].slot
    BY <1>1, <1>2 DEF Owns, Fills, Backs
  <1>5. OneOwner'
    BY <1>1, <1>2, <1>4, <1>e DEF SlotInv, OneOwner
  <1>6. \A x \in Slots : Published(x)' <=> Published(x)
    BY <1>1 DEF Published, InUse
  <1>7. SlotsRight'
    BY <1>1, <1>6 DEF SlotInv, SlotsRight
  <1>8. LiveRight'
    BY <1>1 DEF SlotInv, LiveRight
  <1>9. Stacked'
    <2>1. PICK st \in Seq(Slots) : Stack(st)
      BY DEF SlotInv, Stacked
    <2>2. \A x : Unowned(x)' <=> Unowned(x)
      BY <1>1, <1>2, <1>4, <1>e DEF Unowned
    <2>3. \A x : Spare(x)' <=> Spare(x)
      BY <1>1, Zenon DEF Spare
    <2>4. Linked(st)' <=> Linked(st)
      BY <1>1, Zenon DEF Linked
    <2>5. Stack(st)'
      BY <2>1, <2>2, <2>3, <2>4, Zenon DEF Stack
    <2> QED BY <2>5, Zenon DEF Stacked
  <1>10. \A v \in Threads : pc'[v] \in Fills => pc[v] \in Fills /\ loc'[v].slot = loc[v].slot
    BY <1>2 DEF Fills
  <1>11. ASSUME NEW u \in Threads, u # t PROVE Right(pc[u], loc[u])'
    <2>1. Right(pc'[u], loc'[u])
      BY <1>2, <1>11, ThreadFacts
    <2>2. OwnerRight(pc[u], loc[u])'
      BY <1>1, <2>1 DEF Right, OwnerRight, InUse, Spare
    <2>3. HeadRight(pc[u], loc[u])'
      BY <1>1, <2>1 DEF Right, HeadRight
    <2>4. ProbeRight(pc[u], loc[u])'
      BY <1>1, <2>1 DEF Right, ProbeRight, InUse, Published
    <2>5. OwnRight(pc[u], loc[u])'
      BY <1>1, <1>10, <2>1 DEF Right, OwnRight
    <2> QED BY <2>2, <2>3, <2>4, <2>5 DEF Right
  <1>12. Right(pc[t], loc[t])'
    <2>1. OwnerRight("check", m)'
      <3>1. /\ state[b.slot] = "Allocated" /\ b.gen = generation[b.slot] /\ InUse(b.slot)
        BY <1>a DEF SlotInv, LiveRight, SlotsRight, Published
      <3> QED BY <1>1, <1>e, <3>1 DEF OwnerRight, InUse, Fills
    <2>2. HeadRight("check", m)' /\ ProbeRight("check", m)'
      BY DEF HeadRight, ProbeRight, Probes
    <2>3. OwnRight("check", m)'
      <3>1. OwnRight(pc[t], l)
        BY <1>b, ThreadFacts DEF Right
      <3> QED BY <1>1, <1>10, <1>e, <3>1 DEF OwnRight, Probes
    <2> QED BY <1>2, <2>1, <2>2, <2>3 DEF Right
  <1>13. \A u \in Threads : Right(pc[u], loc[u])'
    BY <1>11, <1>12
  <1> QED BY <1>3, <1>5, <1>7, <1>8, <1>9, <1>13 DEF SlotInv

\* Allocate hands the slot out as a buffer that is new to everyone: a Put that remembers
\* buffers of the slot remembers earlier generations.
LEMMA MakeControlStep ==
    ASSUME SlotInv, NEW t \in Threads, MakeControl(t), pc'[t] # "check"
    PROVE  /\ SlotInv'
           /\ \E b : /\ b \notin live /\ live' = live \cup {b} /\ b.early = loc[t].early
                     /\ pc[t] = "control" /\ pc' = [pc EXCEPT ![t] = "idle"]
                     /\ loc' = [loc EXCEPT ![t] = NoLocals]
  <1>0. Typed
    BY DEF SlotInv
  <1>a. PICK l \in Locals : l = loc[t]
    BY ThreadFacts
  <1>b. Equipped(pc[t], l) /\ Right(pc[t], l)
    BY <1>a, ThreadFacts
  <1>c. pc[t] = "control"
    BY DEF MakeControl, Step
  <1>d. l.slot \in Slots /\ l.key \in Keys /\ l.early \in BOOLEAN /\ generation[l.slot] \in Nat \ {0}
    BY <1>0, <1>b, <1>c DEF Equipped, Fills, Typed, Locals
  <1>e. PICK b \in Buffers :
          b = [slot |-> l.slot, gen |-> generation[l.slot], key |-> l.key, early |-> l.early]
    BY <1>d DEF Buffers
  <1>f. /\ b.slot = l.slot /\ b.gen = generation[l.slot] /\ b.key = l.key /\ b.early = l.early
    BY <1>e
  <1>1. /\ pc' = [pc EXCEPT ![t] = "idle"] /\ loc' = [loc EXCEPT ![t] = NoLocals]
        /\ live' = live \cup {b}
        /\ UNCHANGED <<next_free, state, generation, bound_len, bound_bytes>>
        /\ UNCHANGED <<free_head, bound>>
    BY <1>0, <1>a, <1>e DEF MakeControl, Step, slots, Typed
  <1>2. /\ pc'[t] = "idle" /\ loc'[t] = NoLocals
        /\ \A u \in Threads : u # t => pc'[u] = pc[u] /\ loc'[u] = loc[u]
    BY <1>0, <1>1 DEF Typed
  <1>3. Typed'
    <2>1. \A u \in Threads : Equipped(pc'[u], loc'[u])
      BY <1>0, <1>2, NoLocalsType, Zenon DEF Typed
    <2>2. pc' \in [Threads -> Places] /\ loc' \in [Threads -> Locals]
      BY <1>0, <1>1, NoLocalsType DEF Typed, Equipped
    <2>3. live' \in SUBSET Buffers
      BY <1>0, <1>1 DEF Typed
    <2> QED BY <1>0, <1>1, <2>1, <2>2, <2>3, Zenon DEF Typed
  <1>4. /\ Owns(t) /\ ~ Owns(t)'
        /\ \A u \in Threads : u # t => (Owns(u)' <=> Owns(u)) /\ loc'[u].slot = loc[u].slot
    BY <1>1, <1>2, <1>c DEF Owns, Fills, Backs
  <1>5. OneOwner' /\ b \notin live
    BY <1>1, <1>2, <1>4, <1>a, <1>f DEF SlotInv, OneOwner
  <1>6. \A x \in Slots : Published(x)' <=> Published(x)
    BY <1>1 DEF Published, InUse
  <1>7. SlotsRight'
    BY <1>1, <1>6 DEF SlotInv, SlotsRight
  <1>8. LiveRight'
    <2>1. state[b.slot] = "Allocated" /\ bound[b.slot][b.gen] = b.key
      BY <1>b, <1>c, <1>f DEF Right, OwnerRight, Fills
    <2> QED BY <1>1, <1>f, <2>1 DEF SlotInv, LiveRight
  <1>9. Stacked'
    <2>1. PICK st \in Seq(Slots) : Stack(st)
      BY DEF SlotInv, Stacked
    <2>2. \A x : Unowned(x)' <=> Unowned(x)
      BY <1>1, <1>2, <1>4, <1>a, <1>f DEF Unowned
    <2>3. \A x : Spare(x)' <=> Spare(x)
      BY <1>1, Zenon DEF Spare
    <2>4. Linked(st)' <=> Linked(st)
      BY <1>1, Zenon DEF Linked
    <2>5. Stack(st)'
      BY <2>1, <2>2, <2>3, <2>4, Zenon DEF Stack
    <2> QED BY <2>5, Zenon DEF Stacked
  <1>10. \A v \in Threads : pc'[v] \in Fills => pc[v] \in Fills /\ loc'[v].slot = loc[v].slot
    BY <1>2 DEF Fills
  <1>11. ASSUME NEW u \in Threads, u # t PROVE Right(pc[u], loc[u])'
    <2>1. Right(pc'[u], loc'[u]) /\ Right(pc[u], loc[u])
      BY <1>2, <1>11, ThreadFacts
    <2>2. OwnerRight(pc[u], loc[u])'
      BY <1>1, <2>1 DEF Right, OwnerRight, InUse, Spare
    <2>3. HeadRight(pc[u], loc[u])'
      BY <1>1, <2>1 DEF Right, HeadRight
    <2>4. ProbeRight(pc[u], loc[u])'
      BY <1>1, <2>1 DEF Right, ProbeRight, InUse, Published
    <2>5. \A c \in loc[u].own : c # b
      <3> SUFFICES ASSUME b \in loc[u].own PROVE FALSE
        OBVIOUS
      <3>1. b.gen < generation[b.slot]
        BY <1>a, <1>c, <1>f, <2>1 DEF Right, OwnRight, Fills
      <3> QED BY <1>d, <1>f, <3>1
    <2>6. OwnRight(pc[u], loc[u])'
      BY <1>1, <1>2, <1>10, <1>11, <2>1, <2>5 DEF Right, OwnRight
    <2> QED BY <2>2, <2>3, <2>4, <2>6 DEF Right
  <1>12. Right(pc[t], loc[t])'
    <2>1. Right("idle", NoLocals)'
      <3>1. NoLocals' = NoLocals
        BY DEF NoLocals
      <3> QED BY <3>1, NoLocalsType DEF Right, OwnerRight, HeadRight, ProbeRight, OwnRight, Fills, Probes
    <2> QED BY <1>2, <2>1
  <1>13. \A u \in Threads : Right(pc[u], loc[u])'
    BY <1>11, <1>12
  <1>14. SlotInv'
    BY <1>3, <1>5, <1>7, <1>8, <1>9, <1>13 DEF SlotInv
  <1> QED BY <1>1, <1>5, <1>14, <1>a, <1>c, <1>f

\* Allocate takes the top of the stack.  That the head is still the one the thread has read
\* means, by the tag, that no slot was taken or given back meanwhile, so the link it has read
\* below the head is still right.
LEMMA PopStep ==
    ASSUME SlotInv, NEW t \in Threads, Pop(t), free_head = loc[t].head
    PROVE  SlotInv'
  <1>0. Typed
    BY DEF SlotInv
  <1>a. PICK l \in Locals : l = loc[t]
    BY ThreadFacts
  <1>b. Equipped(pc[t], l) /\ Right(pc[t], l)
    BY <1>a, ThreadFacts
  <1>c. pc[t] = "pop" /\ pc' = [pc EXCEPT ![t] = "bytes"]
    BY DEF Pop, Step
  <1>d. PICK s \in Slots : s = l.head.slot
    BY <1>b, <1>c DEF Equipped
  <1>e. /\ l.key \in Keys /\ l.slot \in AnySlot /\ l.slot = next_free[s] /\ s = free_head.slot
    BY <1>a, <1>b, <1>c, <1>d DEF Equipped, Allocs, Right, HeadRight, Locals
  <1>f. [l EXCEPT !.slot = s] \in Locals
    BY <1>a DEF Locals, AnySlot
  <1>g. PICK m \in Locals : m = [l EXCEPT !.slot = s]
    BY <1>f
  <1>h. m.slot = s /\ m.key = l.key /\ m.own = l.own
    BY <1>a, <1>g DEF Locals
  <1>1. /\ free_head' = [tag |-> free_head.tag + 1, slot |-> l.slot]
        /\ loc' = [loc EXCEPT ![t] = m] /\ bound' = [bound EXCEPT ![s] = Append(@, l.key)]
        /\ UNCHANGED <<next_free, state, generation, bound_len, bound_bytes>> /\ live' = live
    BY <1>0, <1>a, <1>d, <1>g DEF Pop, Step, slots, Typed
  <1>2. /\ pc'[t] = "bytes" /\ loc'[t] = m
        /\ \A u \in Threads : u # t => pc'[u] = pc[u] /\ loc'[u] = loc[u]
    BY <1>0, <1>1, <1>c DEF Typed
  <1>i. /\ bound \in [Slots -> Seq(Keys)] /\ generation \in [Slots -> Nat \ {0}]
        /\ free_head \in Heads /\ free_head.tag \in Nat
    BY <1>0 DEF Typed, Heads
  <1>j. bound[s] \in Seq(Keys) /\ Len(bound[s]) \in Nat /\ generation[s] \in Nat \ {0}
    BY <1>i
  <1>k. /\ bound' \in [Slots -> Seq(Keys)] /\ bound'[s] = Append(bound[s], l.key)
        /\ \A x \in Slots : x # s => bound'[x] = bound[x]
    <2>1. Append(bound[s], l.key) \in Seq(Keys)
      BY <1>e, <1>j
    <2> QED BY <1>1, <1>i, <2>1
  <1>l. /\ Len(bound'[s]) = Len(bound[s]) + 1 /\ bound'[s][Len(bound[s]) + 1] = l.key
        /\ \A i \in 1 .. Len(bound[s]) : bound'[s][i] = bound[s][i]
    <2>1. PICK q \in Seq(Keys), k \in Keys : q = bound[s] /\ k = l.key
      BY <1>e, <1>j
    <2>2. /\ Len(Append(q, k)) = Len(q) + 1 /\ Append(q, k)[Len(q) + 1] = k
          /\ \A i \in 1 .. Len(q) : Append(q, k)[i] = q[i]
      BY AppendProperties
    <2> QED BY <1>k, <2>1, <2>2
  <1>3. Typed'
    <2>1. Equipped("bytes", m)
      BY <1>e, <1>h DEF Equipped, Places, Fills, Backs, Probes, Allocs
    <2>2. \A u \in Threads : Equipped(pc'[u], loc'[u])
      BY <1>0, <1>2, <2>1, Zenon DEF Typed
    <2>3. pc' \in [Threads -> Places] /\ loc' \in [Threads -> Locals]
      BY <1>0, <1>1, <1>c, <2>1 DEF Typed, Equipped
    <2>4. free_head' \in Heads
      BY <1>1, <1>e, <1>i DEF Heads, AnySlot
    <2> QED BY <1>0, <1>1, <1>k, <2>2, <2>3, <2>4, Zenon DEF Typed
  <1>4. PICK st \in Seq(Slots) : Stack(st)
    BY DEF SlotInv, Stacked
  <1>5. st # <<>> /\ st[1] = s /\ Len(st) \in Nat \ {0} /\ 1 \in 1 .. Len(st)
    <2>1. st # <<>> /\ st[1] = s
      BY <1>4, <1>e DEF Stack, Linked, Slots, kInvalidSlot
    <2>2. Len(st) # 0 /\ Len(st) \in Nat
      BY <2>1, EmptySeq, LenProperties
    <2> QED BY <2>1, <2>2
  <1>6. Unowned(s) /\ Spare(s)
    BY <1>4, <1>5 DEF Stack
  <1>7. /\ Owns(t)' /\ ~ Owns(t)
        /\ \A u \in Threads : u # t => (Owns(u)' <=> Owns(u)) /\ loc'[u].slot = loc[u].slot
    BY <1>2, <1>c DEF Owns, Fills, Backs
  <1>8. OneOwner'
    BY <1>1, <1>2, <1>6, <1>7, <1>h DEF SlotInv, OneOwner, Unowned
  <1>9. \A x \in Slots : x # s => (Published(x)' <=> Published(x))
    BY <1>1, <1>k DEF Published, InUse
  <1>10. state[s] = "Free" /\ Len(bound[s]) + 1 = generation[s] /\ ~ Published(s) /\ InUse(s)'
    BY <1>1, <1>6, <1>j, <1>l DEF Spare, Published, InUse
  <1>11. SlotsRight'
    BY <1>1, <1>9, <1>10 DEF SlotInv, SlotsRight
  <1>12. LiveRight'
    <2>1. \A b \in live : b.slot \in Slots /\ b.slot # s
      BY <1>0, <1>6 DEF Unowned, Typed, Buffers
    <2> QED BY <1>1, <1>k, <2>1 DEF SlotInv, LiveRight
  <1>13. Stacked'
    <2>1. PICK tl \in Seq(Slots) : tl = Tail(st)
      BY <1>5, HeadTailProperties
    <2>2. /\ Len(tl) = Len(st) - 1
          /\ \A i \in 1 .. Len(tl) : tl[i] = st[i + 1] /\ i + 1 \in 1 .. Len(st) /\ tl[i] \in Slots
      <3>1. Len(tl) = Len(st) - 1 /\ \A i \in 1 .. Len(tl) : tl[i] = st[i + 1]
        BY <1>5, <2>1, HeadTailProperties
      <3>2. \A i \in 1 .. Len(tl) : i + 1 \in 1 .. Len(st)
        BY <1>5, <3>1
      <3> QED BY <3>1, <3>2, ElementOfSeq
    <2>3. \A i, j \in 1 .. Len(st) : st[i] = st[j] => i = j
      BY <1>4 DEF Stack
    <2>4. \A i \in 1 .. Len(tl) : tl[i] # s
      BY <1>5, <2>2, <2>3
    <2>5. \A x : Unowned(x)' <=> Unowned(x) /\ x # s
      BY <1>1, <1>2, <1>7, <1>h DEF Unowned
    <2>6. Linked(tl)'
      <3>1. \A i \in 1 .. Len(st) :
              next_free[st[i]] = IF i = Len(st) THEN kInvalidSlot ELSE st[i + 1]
        BY <1>4 DEF Stack, Linked
      <3>2. tl = <<>> <=> Len(st) = 1
        <4>1. Len(tl) = 0 <=> Len(st) = 1
          BY <1>5, <2>2
        <4>2. tl = <<>> <=> Len(tl) = 0
          BY EmptySeq
        <4> QED BY <4>1, <4>2
      <3>3. free_head'.slot = IF tl = <<>> THEN kInvalidSlot ELSE tl[1]
        <4>1. free_head'.slot = IF Len(st) = 1 THEN kInvalidSlot ELSE st[2]
          <5>1. free_head'.slot = next_free[st[1]]
            BY <1>1, <1>5, <1>e
          <5>2. next_free[st[1]] = IF 1 = Len(st) THEN kInvalidSlot ELSE st[1 + 1]
            BY <1>5, <3>1
          <5> QED BY <5>1, <5>2
        <4>2. Len(st) # 1 => tl[1] = st[2]
          BY <1>5, <2>2
        <4> QED BY <3>2, <4>1, <4>2
      <3>4. \A i \in 1 .. Len(tl) :
              next_free[tl[i]] = IF i = Len(tl) THEN kInvalidSlot ELSE tl[i + 1]
        <4> TAKE i \in 1 .. Len(tl)
        <4>1. tl[i] = st[i + 1] /\ i + 1 \in 1 .. Len(st)
          BY <2>2
        <4>2. next_free[tl[i]] = IF i + 1 = Len(st) THEN kInvalidSlot ELSE st[i + 1 + 1]
          BY <3>1, <4>1
        <4>3. i + 1 = Len(st) <=> i = Len(tl)
          BY <1>5, <2>2
        <4>4. i # Len(tl) => tl[i + 1] = st[i + 1 + 1]
          <5>1. i # Len(tl) => i + 1 \in 1 .. Len(tl)
            BY <1>5, <2>2
          <5> QED BY <2>2, <5>1
        <4> QED BY <4>2, <4>3, <4>4
      <3> QED BY <1>1, <3>3, <3>4 DEF Linked
    <2>7. \A i, j \in 1 .. Len(tl) : tl[i] = tl[j] => i = j
      BY <2>2, <2>3
    <2>8. \A i \in 1 .. Len(tl) : Spare(tl[i])' /\ Unowned(tl[i])'
      <3> TAKE i \in 1 .. Len(tl)
      <3>1. Spare(st[i + 1]) /\ Unowned(st[i + 1])
        BY <1>4, <2>2 DEF Stack
      <3>2. Spare(tl[i]) /\ Unowned(tl[i])
        BY <2>2, <3>1
      <3> QED BY <1>1, <1>k, <2>2, <2>4, <2>5, <3>2 DEF Spare
    <2>9. \A x \in Slots : Unowned(x)' => \E i \in 1 .. Len(tl) : tl[i] = x
      <3> SUFFICES ASSUME NEW x \in Slots, Unowned(x)' PROVE \E i \in 1 .. Len(tl) : tl[i] = x
        OBVIOUS
      <3>1. PICK i \in 1 .. Len(st) : st[i] = x
        BY <1>4, <2>5 DEF Stack
      <3>2. i # 1
        BY <1>5, <2>5, <3>1
      <3>3. i - 1 \in 1 .. Len(tl) /\ tl[i - 1] = x
        BY <1>5, <2>2, <3>1, <3>2
      <3> QED BY <3>3
    <2>10. Stack(tl)'
      BY <2>6, <2>7, <2>8, <2>9 DEF Stack
    <2> QED BY <2>10, Zenon DEF Stacked
  <1>15. \A u \in Threads : \A b \in loc[u].own : b.slot \in Slots /\ b.gen \in Nat
    BY <1>0 DEF Typed, Locals, Buffers
  <1>16. ASSUME NEW u \in Threads PROVE OwnRight(pc[u], loc[u])'
    <2>1. loc'[u].own = loc[u].own /\ OwnRight(pc[u], loc[u])
      BY <1>2, <1>a, <1>h, ThreadFacts DEF Right
    <2>2. ASSUME NEW b \in loc[u].own
          PROVE  /\ b.gen <= Len(bound'[b.slot])
                 /\ b.slot = s => b.gen < generation[b.slot]
                 /\ \A v \in Threads : pc'[v] \in Fills /\ loc'[v].slot = b.slot =>
                                     b.gen < generation[b.slot]
      <3>1. b.slot \in Slots /\ b.gen \in Nat /\ b.gen <= Len(bound[b.slot])
        BY <1>15, <2>1 DEF OwnRight
      <3>2. b.slot = s => b.gen < generation[b.slot]
        BY <1>10, <1>j, <3>1
      <3>3. b.gen <= Len(bound'[b.slot])
        <4>1. CASE b.slot = s
          BY <1>j, <1>l, <3>1, <4>1
        <4>2. CASE b.slot # s
          BY <1>k, <3>1, <4>2
        <4> QED BY <4>1, <4>2
      <3>4. \A v \in Threads : v # t /\ pc'[v] \in Fills /\ loc'[v].slot = b.slot =>
                               b.gen < generation[b.slot]
        BY <1>2, <2>1 DEF OwnRight
      <3> QED BY <1>2, <1>h, <3>2, <3>3, <3>4
    <2>3. u # t => pc'[u] = pc[u]
      BY <1>2
    <2>4. u = t => pc'[u] \notin Probes /\ pc'[u] # "copy"
      BY <1>2 DEF Probes
    <2>5. CASE u = t
      BY <1>1, <2>1, <2>2, <2>4, <2>5 DEF OwnRight
    <2>6. CASE u # t
      <3>1. loc'[u] = loc[u]
        BY <1>2, <2>6
      <3> QED BY <1>1, <2>1, <2>2, <2>3, <2>6, <3>1 DEF OwnRight
    <2> QED BY <2>5, <2>6
  <1>14. ASSUME NEW u \in Threads, u # t PROVE Right(pc[u], loc[u])'
    <2>a. PICK q \in Places : q = pc[u]
      BY <1>0 DEF Typed
    <2>b. PICK n \in Locals : n = loc[u]
      BY <1>0 DEF Typed
    <2>1. /\ pc'[u] = q /\ loc'[u] = n /\ Right(q, n) /\ Equipped(q, n)
      BY <1>2, <1>14, <2>a, <2>b, ThreadFacts
    <2>2. OwnerRight(q, n)'
      <3>1. q \in Fills \cup Backs => n.slot \in Slots /\ n.slot # s
        BY <1>6, <2>a, <2>b, <2>1 DEF Unowned, Owns, Equipped
      <3>2. q \in Fills \cup Backs => OwnerRight(q, n)'
        BY <1>1, <1>k, <2>1, <3>1 DEF Right, OwnerRight, InUse, Spare
      <3>3. q \notin Fills \cup Backs => OwnerRight(q, n)'
        BY DEF OwnerRight, Fills, Backs
      <3> QED BY <3>2, <3>3
    <2>3. HeadRight(q, n)'
      <3>1. free_head'.tag = free_head.tag + 1 /\ n.head.tag \in Nat
        BY <1>1, <2>b DEF Locals, Heads
      <3>2. q \in {"next", "pop", "link"} => n.head.tag <= free_head'.tag /\ n.head # free_head'
        BY <1>i, <2>1, <3>1 DEF Right, HeadRight
      <3> QED BY <1>1, <2>1, <3>2 DEF Right, HeadRight
    <2>4. ProbeRight(q, n)'
      <3>1. q \in Probes => n.slot \in Slots /\ n.gen \in Nat
        BY <2>1 DEF Equipped, Locals
      <3>2. CASE q \notin Probes
        BY <3>2 DEF ProbeRight, Probes
      <3>3. CASE q \in Probes /\ n.slot # s
        BY <1>1, <1>9, <1>k, <2>1, <3>1, <3>3 DEF Right, ProbeRight
      <3>4. CASE q \in Probes /\ n.slot = s
        <4>1. q \in {"probe_len", "probe_bytes", "probe_gen"} => generation[s] # n.gen
          BY <1>10, <2>1, <3>4 DEF Right, ProbeRight
        <4>2. q \in {"probe_again", "direct"} =>
                /\ n.gen \in 1 .. Len(bound'[s]) /\ bound'[s][n.gen] = bound[s][n.gen]
          BY <1>j, <1>l, <2>1, <3>1, <3>4 DEF Right, ProbeRight
        <4> QED BY <1>1, <2>1, <3>4, <4>1, <4>2 DEF Right, ProbeRight
      <3> QED BY <3>2, <3>3, <3>4
    <2>5. OwnRight(q, n)'
      BY <1>16, <1>2, <1>14, <2>b, <2>1
    <2> QED BY <2>1, <2>2, <2>3, <2>4, <2>5 DEF Right
  <1>17. Right(pc[t], loc[t])'
    <2>1. OwnerRight("bytes", m)'
      BY <1>1, <1>10, <1>h, <1>l DEF OwnerRight
    <2>2. HeadRight("bytes", m)' /\ ProbeRight("bytes", m)'
      BY DEF HeadRight, ProbeRight, Probes
    <2>3. OwnRight("bytes", m)'
      BY <1>2, <1>16
    <2> QED BY <1>2, <2>1, <2>2, <2>3 DEF Right
  <1>18. \A u \in Threads : Right(pc[u], loc[u])'
    BY <1>14, <1>17
  <1> QED BY <1>3, <1>8, <1>11, <1>12, <1>13, <1>18 DEF SlotInv

\* A release puts its slot on top of the stack, by the same argument on the tag.
LEMMA PushStep ==
    ASSUME SlotInv, NEW t \in Threads, Push(t), free_head = loc[t].head
    PROVE  SlotInv'
  <1>0. Typed
    BY DEF SlotInv
  <1>a. PICK l \in Locals : l = loc[t]
    BY ThreadFacts
  <1>b. Equipped(pc[t], l) /\ Right(pc[t], l)
    BY <1>a, ThreadFacts
  <1>c. pc[t] = "link" /\ pc' = [pc EXCEPT ![t] = "drop"]
    BY DEF Push, Step
  <1>d. PICK s \in Slots : s = l.slot
    BY <1>b, <1>c DEF Equipped, Backs
  <1>e. next_free[s] = free_head.slot /\ Spare(s)
    BY <1>a, <1>b, <1>c, <1>d DEF Right, HeadRight, OwnerRight
  <1>1. /\ free_head' = [tag |-> free_head.tag + 1, slot |-> s] /\ loc' = loc
        /\ UNCHANGED <<next_free, state, generation, bound_len, bound_bytes>>
        /\ live' = live /\ bound' = bound
    BY <1>a, <1>d DEF Push, Step, slots
  <1>2. pc'[t] = "drop" /\ \A u \in Threads : u # t => pc'[u] = pc[u]
    BY <1>0, <1>c DEF Typed
  <1>i. free_head \in Heads /\ free_head.tag \in Nat
    BY <1>0 DEF Typed, Heads
  <1>3. Typed'
    <2>1. Equipped("drop", l)
      BY <1>a DEF Equipped, Places, Fills, Backs, Probes, Allocs
    <2>2. \A u \in Threads : Equipped(pc'[u], loc'[u])
      BY <1>0, <1>1, <1>2, <1>a, <2>1, Zenon DEF Typed
    <2>3. pc' \in [Threads -> Places]
      BY <1>0, <1>c, <2>1 DEF Typed, Equipped
    <2>4. free_head' \in Heads
      BY <1>1, <1>i DEF Heads
    <2> QED BY <1>0, <1>1, <2>2, <2>3, <2>4, Zenon DEF Typed
  <1>4. PICK st \in Seq(Slots) : Stack(st)
    BY DEF SlotInv, Stacked
  <1>5. Owns(t) /\ ~ Owns(t)' /\ \A u \in Threads : u # t => (Owns(u)' <=> Owns(u))
    BY <1>2, <1>c DEF Owns, Fills, Backs
  <1>6. OneOwner'
    BY <1>1, <1>5 DEF SlotInv, OneOwner
  <1>7. SlotsRight' /\ LiveRight'
    BY <1>1 DEF SlotInv, SlotsRight, LiveRight, Published, InUse
  <1>8. Stacked'
    <2>1. PICK new \in Seq(Slots) : new = <<s>> \o st
      <3>1. <<s>> \in Seq(Slots)
        OBVIOUS
      <3>2. <<s>> \o st \in Seq(Slots)
        BY <3>1, ConcatProperties
      <3> QED BY <3>2
    <2>2. Len(st) \in Nat /\ Len(new) = Len(st) + 1 /\ new[1] = s /\ new # <<>>
      BY <2>1
    <2>3. \A i \in 1 .. Len(new) : i # 1 => i - 1 \in 1 .. Len(st) /\ new[i] = st[i - 1]
      BY <2>1
    <2>4. \A x : Unowned(x)' <=> Unowned(x) \/ x = s
      <3>1. \A x : Unowned(x) => Unowned(x)'
        BY <1>1, <1>5 DEF Unowned
      <3>2. Unowned(s)'
        BY <1>1, <1>2, <1>5, <1>a, <1>d DEF SlotInv, OneOwner, Unowned
      <3>3. \A x : Unowned(x)' /\ x # s => Unowned(x)
        BY <1>1, <1>5, <1>a, <1>d DEF Unowned
      <3> QED BY <3>1, <3>2, <3>3
    <2>5. \A i \in 1 .. Len(st) : st[i] # s
      <3>1. ~ Unowned(s)
        BY <1>5, <1>a, <1>d DEF Unowned
      <3> QED BY <1>4, <3>1 DEF Stack
    <2>6. Linked(new)'
      <3>1. \A i \in 1 .. Len(st) :
              next_free[st[i]] = IF i = Len(st) THEN kInvalidSlot ELSE st[i + 1]
        BY <1>4 DEF Stack, Linked
      <3>2. st = <<>> <=> Len(st) = 0
        BY EmptySeq
      <3>3. next_free[s] = IF Len(st) = 0 THEN kInvalidSlot ELSE st[1]
        BY <1>4, <1>e, <3>2 DEF Stack, Linked
      <3>4. ASSUME NEW i \in 1 .. Len(new)
            PROVE  next_free[new[i]] = IF i = Len(new) THEN kInvalidSlot ELSE new[i + 1]
        <4>1. CASE i = 1
          <5>1. Len(st) # 0 => 2 \in 1 .. Len(new) /\ new[2] = st[1]
            <6>1. Len(st) # 0 => 2 \in 1 .. Len(new)
              BY <2>2
            <6> QED BY <2>3, <6>1
          <5> QED BY <2>2, <3>3, <4>1, <5>1
        <4>2. CASE i # 1
          <5>1. i - 1 \in 1 .. Len(st) /\ new[i] = st[i - 1]
            BY <2>3, <4>2
          <5>2. next_free[new[i]] = IF i - 1 = Len(st) THEN kInvalidSlot ELSE st[i - 1 + 1]
            BY <3>1, <5>1
          <5>3. i - 1 = Len(st) <=> i = Len(new)
            BY <2>2, <5>1
          <5>4. i # Len(new) => new[i + 1] = st[i - 1 + 1]
            <6>1. i # Len(new) => i + 1 \in 1 .. Len(new) /\ i + 1 # 1 /\ i + 1 - 1 = i - 1 + 1
              BY <2>2
            <6> QED BY <2>3, <6>1
          <5> QED BY <5>2, <5>3, <5>4
        <4> QED BY <4>1, <4>2
      <3> QED BY <1>1, <2>2, <3>4 DEF Linked
    <2>7. \A i, j \in 1 .. Len(new) : new[i] = new[j] => i = j
      <3> SUFFICES ASSUME NEW i \in 1 .. Len(new), NEW j \in 1 .. Len(new), new[i] = new[j]
                   PROVE  i = j
        OBVIOUS
      <3>1. \A x, y \in 1 .. Len(st) : st[x] = st[y] => x = y
        BY <1>4 DEF Stack
      <3>2. CASE i = 1 \/ j = 1
        BY <2>2, <2>3, <2>5, <3>2
      <3>3. CASE i # 1 /\ j # 1
        <4>1. i - 1 = j - 1
          BY <2>3, <3>1, <3>3
        <4> QED BY <4>1
      <3> QED BY <3>2, <3>3
    <2>8. \A i \in 1 .. Len(new) : Spare(new[i])' /\ Unowned(new[i])'
      <3> TAKE i \in 1 .. Len(new)
      <3>1. i # 1 => Spare(new[i]) /\ Unowned(new[i])
        BY <1>4, <2>3 DEF Stack
      <3>2. Spare(new[i])
        BY <1>e, <2>2, <3>1
      <3>3. Spare(new[i])'
        BY <1>1, <3>2 DEF Spare
      <3>4. Unowned(new[i])'
        BY <2>2, <2>4, <3>1
      <3> QED BY <3>3, <3>4
    <2>9. \A x \in Slots : Unowned(x)' => \E i \in 1 .. Len(new) : new[i] = x
      <3> SUFFICES ASSUME NEW x \in Slots, Unowned(x)' PROVE \E i \in 1 .. Len(new) : new[i] = x
        OBVIOUS
      <3>1. CASE x = s
        BY <2>2, <3>1
      <3>2. CASE x # s
        <4>1. PICK i \in 1 .. Len(st) : st[i] = x
          BY <1>4, <2>4, <3>2 DEF Stack
        <4>2. i + 1 \in 1 .. Len(new) /\ i + 1 # 1 /\ i + 1 - 1 = i
          BY <2>2
        <4>3. new[i + 1] = x
          BY <2>3, <4>1, <4>2
        <4> QED BY <4>2, <4>3
      <3> QED BY <3>1, <3>2
    <2>10. Stack(new)'
      BY <2>6, <2>7, <2>8, <2>9 DEF Stack
    <2> QED BY <2>10, Zenon DEF Stacked
  <1>9. \A v \in Threads : pc'[v] \in Fills => pc[v] \in Fills
    BY <1>2 DEF Fills
  <1>10. ASSUME NEW u \in Threads, u # t PROVE Right(pc[u], loc[u])'
    <2>a. PICK q \in Places : q = pc[u]
      BY <1>0 DEF Typed
    <2>b. PICK n \in Locals : n = loc[u]
      BY <1>0 DEF Typed
    <2>1. pc'[u] = q /\ loc'[u] = n /\ Right(q, n)
      BY <1>1, <1>2, <1>10, <2>a, <2>b, ThreadFacts
    <2>2. OwnerRight(q, n)'
      BY <1>1, <2>1 DEF Right, OwnerRight, InUse, Spare
    <2>3. HeadRight(q, n)'
      <3>1. free_head'.tag = free_head.tag + 1 /\ n.head.tag \in Nat
        BY <1>1, <2>b DEF Locals, Heads
      <3>2. q \in {"next", "pop", "link"} => n.head.tag <= free_head'.tag /\ n.head # free_head'
        BY <1>i, <2>1, <3>1 DEF Right, HeadRight
      <3> QED BY <1>1, <2>1, <3>2 DEF Right, HeadRight
    <2>4. ProbeRight(q, n)'
      BY <1>1, <2>1 DEF Right, ProbeRight, InUse, Published
    <2>5. OwnRight(q, n)'
      BY <1>1, <1>9, <2>1 DEF Right, OwnRight
    <2> QED BY <2>1, <2>2, <2>3, <2>4, <2>5 DEF Right
  <1>11. Right(pc[t], loc[t])'
    <2>1. OwnerRight("drop", l)' /\ HeadRight("drop", l)' /\ ProbeRight("drop", l)'
      BY DEF OwnerRight, HeadRight, ProbeRight, Probes, Fills
    <2>2. OwnRight("drop", l)'
      BY <1>1, <1>9, <1>b DEF Right, OwnRight, Probes
    <2> QED BY <1>1, <1>2, <1>a, <2>1, <2>2 DEF Right
  <1>12. \A u \in Threads : Right(pc[u], loc[u])'
    BY <1>10, <1>11
  <1> QED BY <1>3, <1>6, <1>7, <1>8, <1>12 DEF SlotInv

\* The close flag and the closing thread have nothing to do with the slots.
LEMMA CloserStep ==
    ASSUME SlotInv, BeginClose \/ Closing \/ UNCHANGED vars
    PROVE  SlotInv'
  <1>1. /\ UNCHANGED <<next_free, state, generation, bound_len, bound_bytes>>
        /\ UNCHANGED <<free_head, live, bound>> /\ pc' = pc /\ loc' = loc
    BY DEF BeginClose, Closing, StoreDrains, WaitUntilIdle, WaitForChange, vars, slots
  <1>2. Typed' /\ OneOwner'
    BY <1>1, Zenon DEF SlotInv, Typed, OneOwner, Owns
  <1>3. Stacked'
    <2>1. PICK st \in Seq(Slots) : Stack(st)
      BY DEF SlotInv, Stacked
    <2>2. \A x : (Unowned(x)' <=> Unowned(x)) /\ (Spare(x)' <=> Spare(x))
      BY <1>1, Zenon DEF Unowned, Owns, Spare
    <2>3. Linked(st)' <=> Linked(st)
      BY <1>1, Zenon DEF Linked
    <2>4. Stack(st)'
      BY <2>1, <2>2, <2>3, Zenon DEF Stack
    <2> QED BY <2>4, Zenon DEF Stacked
  <1>4. SlotsRight' /\ LiveRight'
    BY <1>1, Zenon DEF SlotInv, SlotsRight, LiveRight, Published, InUse
  <1>5. \A t \in Threads : Right(pc[t], loc[t])'
    <2> TAKE t \in Threads
    <2>1. Right(pc[t], loc[t])
      BY DEF SlotInv
    <2>2. OwnerRight(pc[t], loc[t])' /\ HeadRight(pc[t], loc[t])'
      BY <1>1, <2>1 DEF Right, OwnerRight, HeadRight, InUse, Spare
    <2>3. ProbeRight(pc[t], loc[t])' /\ OwnRight(pc[t], loc[t])'
      BY <1>1, <2>1 DEF Right, ProbeRight, OwnRight, InUse, Published
    <2> QED BY <2>2, <2>3 DEF Right
  <1> QED BY <1>2, <1>3, <1>4, <1>5 DEF SlotInv

\* Every step keeps the slots in order.
LEMMA SlotStep == SlotInv /\ [Next]_vars => SlotInv'
  <1> SUFFICES ASSUME SlotInv, [Next]_vars PROVE SlotInv'
    OBVIOUS
  <1>1. ASSUME NEW t \in Threads, NEW k \in Keys, Allocate(t, k) PROVE SlotInv'
    BY <1>1, QuietAllocateStep
  <1>2. ASSUME NEW t \in Threads, NEW k \in Keys, NEW s \in Slots, Put(t, k, s) PROVE SlotInv'
    BY <1>2, QuietPutStep
  <1>3. ASSUME NEW t \in Threads, NEW b \in live, Release(t, b) PROVE SlotInv'
    BY <1>3, ReleaseStep
  <1>4. ASSUME NEW t \in Threads, AllocateSteps(t) PROVE SlotInv'
    <2>1. CASE Count(t) \/ Recheck(t) \/ LoadHead(t) \/ LoadNext(t)
      BY <2>1, QuietAllocateStep
    <2>2. CASE Pop(t)
      BY <2>2, PopStep, FailedStep
    <2>3. CASE StoreBytes(t) \/ StoreLen(t) \/ Publish(t)
      BY <2>3, OwnedSlotStep
    <2>4. CASE MakeControl(t)
      BY <2>4, MakeControlStep, FailedStep
    <2> QED BY <1>4, <2>1, <2>2, <2>3, <2>4 DEF AllocateSteps
  <1>5. ASSUME NEW t \in Threads, ReleaseSteps(t) PROVE SlotInv'
    <2>1. CASE CheckGeneration(t) \/ DropActiveRef(t) \/ Notify(t)
      BY <2>1, QuietAllocateStep
    <2>2. CASE ExchangeState(t) \/ BumpGeneration(t) \/ LinkSlot(t)
      BY <2>2, OwnedSlotStep
    <2>3. CASE Push(t)
      BY <2>3, PushStep, FailedStep
    <2> QED BY <1>5, <2>1, <2>2, <2>3 DEF ReleaseSteps
  <1>6. ASSUME NEW t \in Threads, PutSteps(t) PROVE SlotInv'
    BY <1>6, QuietPutStep
  <1>7. CASE BeginClose \/ Closing \/ UNCHANGED vars
    BY <1>7, CloserStep
  <1> QED BY <1>1, <1>2, <1>3, <1>4, <1>5, <1>6, <1>7 DEF Next, Steps

---------------------------------------------------------------------------
(* The count.                                                              *)

\* A step of one thread changes the set of counted threads by that thread at most.
LEMMA CountedStep ==
    ASSUME Typed, NEW t \in Threads, NEW p, pc' = [pc EXCEPT ![t] = p]
    PROVE  /\ pc'[t] = p /\ \A u \in Threads : u # t => pc'[u] = pc[u]
           /\ (p \in Held <=> pc[t] \in Held) => Counted' = Counted
           /\ p \in Held /\ pc[t] \notin Held => t \notin Counted /\ Counted' = Counted \cup {t}
           /\ p \notin Held /\ pc[t] \in Held => t \in Counted /\ Counted' = Counted \ {t}
  <1>1. pc'[t] = p /\ \A u \in Threads : u # t => pc'[u] = pc[u]
    BY DEF Typed
  <1> QED BY <1>1 DEF Counted

\* When nothing that Close looks at changes, and the thread that is about to wake Close does
\* not go away.
LEMMA CloseStep ==
    ASSUME CloseOrder, NoSleepingCloser, UNCHANGED <<closing, pending, closer, seen>>,
           closer = "closed" => /\ \A b \in live' : ~ b.early
                                /\ \A t \in Counted' : ~ loc'[t].early,
           \/ active_count > 0 => active_count' > 0
           \/ \E t \in Threads : pc'[t] = "notify",
           \A t \in Threads : pc[t] = "notify" => pc'[t] = "notify"
    PROVE  CloseOrder' /\ NoSleepingCloser'
  <1>1. closing' \in BOOLEAN /\ pending' \in BOOLEAN /\ (closer' = "asleep" => closing')
    BY Zenon DEF CloseOrder
  <1>2. seen' \in Nat /\ closer' \in {"open", "load", "wait", "asleep", "closed"}
        /\ (closer' = "wait" => seen' > 0)
    BY DEF CloseOrder
  <1>3. CloseOrder'
    BY <1>1, <1>2, Zenon DEF CloseOrder
  <1>4. NoSleepingCloser'
    BY DEF NoSleepingCloser
  <1> QED BY <1>3, <1>4

\* Steps in which a thread comes to no buffer and gives none back, and Close has no part.
LEMMA UncountedStep ==
    ASSUME Typed, CountRight, CloseOrder, NoSleepingCloser, NEW t \in Threads,
           \/ \E k \in Keys : Allocate(t, k)
           \/ \E k \in Keys, s \in Slots : Put(t, k, s)
           \/ PutSteps(t)
    PROVE  CountRight' /\ CloseOrder' /\ NoSleepingCloser'
  <1>1. PICK p : pc' = [pc EXCEPT ![t] = p] /\ p \notin Held
    <2>1. PICK p \in Probes \cup {"count", "idle"} : pc' = [pc EXCEPT ![t] = p]
      <3>1. CASE \/ \E k \in Keys : Allocate(t, k)
                 \/ \E k \in Keys, s \in Slots : Put(t, k, s)
        BY <3>1 DEF Allocate, Put, Step, Probes
      <3>2. CASE ProbeState(t) \/ CopyLen(t) \/ CopyBytes(t) \/ ProbeGeneration(t)
        BY <3>2 DEF ProbeState, CopyLen, CopyBytes, ProbeGeneration, Step, Probes
      <3>3. CASE ProbeAgain(t) \/ PutReturns(t)
        BY <3>3 DEF ProbeAgain, BuildPutWritePlan, PutReturns, Step, Probes
      <3> QED BY <3>1, <3>2, <3>3 DEF PutSteps
    <2> QED BY <2>1 DEF Probes, Held, Allocs, Fills, Backs
  <1>2. pc[t] \notin Held /\ pc[t] # "notify"
    BY DEF Allocate, Put, PutSteps, ProbeState, CopyLen, CopyBytes, ProbeGeneration, ProbeAgain,
           PutReturns, Step, Held, Allocs, Fills, Backs
  <1>3. /\ UNCHANGED <<closing, pending, closer, seen>> /\ live' = live
        /\ active_count' = active_count
    BY DEF Allocate, Put, PutSteps, ProbeState, CopyLen, CopyBytes, ProbeGeneration, ProbeAgain,
           PutReturns, Step, close
  <1>4. \A u \in Threads : u # t => loc'[u] = loc[u]
    BY DEF Allocate, Put, PutSteps, ProbeState, CopyLen, CopyBytes, ProbeGeneration, ProbeAgain,
           PutReturns, Step, Typed
  <1>5. Counted' = Counted /\ t \notin Counted /\ \A u \in Threads : u # t => pc'[u] = pc[u]
    BY <1>1, <1>2, CountedStep DEF Counted
  <1>6. CountRight'
    BY <1>3, <1>5 DEF CountRight
  <1>7. closer = "closed" => (\A b \in live' : ~ b.early) /\ (\A u \in Counted' : ~ loc'[u].early)
    BY <1>3, <1>4, <1>5, Zenon DEF CloseOrder, Counted
  <1>8. \A u \in Threads : pc[u] = "notify" => pc'[u] = "notify"
    BY <1>2, <1>5
  <1> QED BY <1>3, <1>6, <1>7, <1>8, CloseStep

\* Steps in which a thread is counted before and after.
LEMMA KeptStep ==
    ASSUME Typed, CountRight, CloseOrder, NoSleepingCloser, NEW t \in Threads,
           \/ Recheck(t) \/ LoadHead(t) \/ LoadNext(t) \/ Pop(t)
           \/ StoreBytes(t) \/ StoreLen(t) \/ Publish(t)
           \/ MakeControl(t) /\ pc'[t] = "check"
           \/ CheckGeneration(t) \/ ExchangeState(t) \/ BumpGeneration(t) \/ LinkSlot(t) \/ Push(t)
    PROVE  CountRight' /\ CloseOrder' /\ NoSleepingCloser'
  <1>a. pc \in [Threads -> Places] /\ loc \in [Threads -> Locals]
    BY DEF Typed
  <1>1. PICK p : /\ pc' = [pc EXCEPT ![t] = p] /\ p \in Held
    BY <1>a DEF Recheck, LoadHead, LoadNext, Pop, StoreBytes, StoreLen, Publish, MakeControl,
           CheckGeneration, ExchangeState, BumpGeneration, LinkSlot, Push, Step, Held, Allocs,
           Fills, Backs
  <1>2. pc[t] \in Held /\ pc[t] # "notify"
    BY DEF Recheck, LoadHead, LoadNext, Pop, StoreBytes, StoreLen, Publish, MakeControl,
           CheckGeneration, ExchangeState, BumpGeneration, LinkSlot, Push, Step, Held, Allocs,
           Fills, Backs
  <1>3. UNCHANGED <<closing, pending, closer, seen>> /\ active_count' = active_count
    BY DEF Recheck, LoadHead, LoadNext, Pop, StoreBytes, StoreLen, Publish, MakeControl,
           CheckGeneration, ExchangeState, BumpGeneration, LinkSlot, Push, close
  <1>4. live' = live
    BY <1>a DEF Recheck, LoadHead, LoadNext, Pop, StoreBytes, StoreLen, Publish, MakeControl,
           CheckGeneration, ExchangeState, BumpGeneration, LinkSlot, Push, Step
  <1>5. \A u \in Threads : loc'[u].early = loc[u].early
    <2>1. loc[t] \in Locals
      BY <1>a
    <2>2. CASE loc' = loc
      BY <2>2, Zenon
    <2>3. ASSUME NEW h \in Heads, loc' = [loc EXCEPT ![t].head = h]
          PROVE  \A u \in Threads : loc'[u].early = loc[u].early
      BY <1>a, <2>1, <2>3 DEF Locals
    <2>4. ASSUME NEW s, loc' = [loc EXCEPT ![t].slot = s]
          PROVE  \A u \in Threads : loc'[u].early = loc[u].early
      BY <1>a, <2>1, <2>4 DEF Locals
    <2>5. ASSUME NEW g, loc' = [loc EXCEPT ![t].gen = g]
          PROVE  \A u \in Threads : loc'[u].early = loc[u].early
      BY <1>a, <2>1, <2>5 DEF Locals
    <2>6. free_head \in Heads
      BY DEF Typed
    <2>7. \/ loc' = loc \/ loc' = [loc EXCEPT ![t].head = free_head]
          \/ loc' = [loc EXCEPT ![t].slot = next_free[loc[t].head.slot]]
          \/ loc' = [loc EXCEPT ![t].slot = loc[t].head.slot]
          \/ loc' = [loc EXCEPT ![t].gen = generation[loc[t].slot]]
      BY <1>a DEF Recheck, LoadHead, LoadNext, Pop, StoreBytes, StoreLen, Publish, MakeControl,
           CheckGeneration, ExchangeState, BumpGeneration, LinkSlot, Push, Step
    <2> QED BY <2>2, <2>3, <2>4, <2>5, <2>6, <2>7
  <1>6. Counted' = Counted /\ \A u \in Threads : u # t => pc'[u] = pc[u]
    BY <1>1, <1>2, CountedStep
  <1>7. CountRight'
    BY <1>3, <1>4, <1>6 DEF CountRight
  <1>8. closer = "closed" => (\A b \in live' : ~ b.early) /\ (\A u \in Counted' : ~ loc'[u].early)
    BY <1>4, <1>5, <1>6, Zenon DEF CloseOrder, Counted
  <1>9. \A u \in Threads : pc[u] = "notify" => pc'[u] = "notify"
    BY <1>2, <1>6
  <1> QED BY <1>3, <1>7, <1>8, <1>9, CloseStep

\* Steps that change the count, or move a buffer between a thread and the application.
LEMMA CountingStep ==
    ASSUME SlotInv, CountRight, CloseOrder, NoSleepingCloser, NEW t \in Threads,
           \/ Count(t) \/ DropActiveRef(t)
           \/ MakeControl(t) /\ pc'[t] # "check"
           \/ \E b \in live : Release(t, b)
    PROVE  CountRight' /\ CloseOrder' /\ NoSleepingCloser'
  <1>0. Typed
    BY DEF SlotInv
  <1>a. pc \in [Threads -> Places] /\ loc \in [Threads -> Locals] /\ loc[t] \in Locals
    BY <1>0 DEF Typed
  <1>b. IsFiniteSet(Counted) /\ IsFiniteSet(live) /\ active_count = Cardinality(Counted) + Cardinality(live)
    BY DEF CountRight
  <1>c. /\ Cardinality(Counted) \in Nat /\ Cardinality(live) \in Nat /\ active_count \in Nat
    BY <1>b, FS_CardinalityType
  <1>d. Counted \subseteq Threads
    BY DEF Counted
  <1> USE DEF Step
  <1>1. CASE Count(t)
    <2>1. /\ pc[t] = "count" /\ pc' = [pc EXCEPT ![t] = "recheck"]
          /\ active_count' = active_count + 1 /\ live' = live
          /\ UNCHANGED <<closing, pending, closer, seen>>
      BY <1>1 DEF Count, close
    <2>2. t \notin Counted /\ Counted' = Counted \cup {t} /\ \A u \in Threads : u # t => pc'[u] = pc[u]
      BY <1>0, <2>1, CountedStep DEF Held, Allocs, Fills, Backs
    <2>3. IsFiniteSet(Counted') /\ Cardinality(Counted') = Cardinality(Counted) + 1
      BY <1>b, <2>2, FS_AddElement
    <2>4. CountRight'
      BY <1>b, <1>c, <2>1, <2>3 DEF CountRight
    <2>5. loc'[t].early = (closer = "open") /\ \A u \in Threads : u # t => loc'[u] = loc[u]
      BY <1>1, <1>a DEF Count, Locals
    <2>6. closer = "closed" => ~ loc'[t].early
      BY <2>5
    <2>7. closer = "closed" => (\A b \in live' : ~ b.early) /\ (\A u \in Counted' : ~ loc'[u].early)
      BY <1>d, <2>1, <2>2, <2>5, <2>6, Zenon DEF CloseOrder
    <2>8. active_count' > 0 /\ \A u \in Threads : pc[u] = "notify" => pc'[u] = "notify"
      BY <1>c, <2>1, <2>2
    <2> QED BY <2>1, <2>4, <2>7, <2>8, CloseStep
  <1>2. CASE DropActiveRef(t)
    <2>1. /\ pc[t] = "drop" /\ pc' = [pc EXCEPT ![t] = "notify"]
          /\ active_count' = active_count - 1 /\ live' = live
          /\ UNCHANGED <<closing, pending, closer, seen>>
      BY <1>2 DEF DropActiveRef, close
    <2>2. /\ t \in Counted /\ Counted' = Counted \ {t} /\ pc'[t] = "notify"
          /\ \A u \in Threads : u # t => pc'[u] = pc[u]
      BY <1>0, <2>1, CountedStep DEF Held, Allocs, Fills, Backs
    <2>3. IsFiniteSet(Counted') /\ Cardinality(Counted') = Cardinality(Counted) - 1
      BY <1>b, <2>2, FS_RemoveElement
    <2>4. CountRight'
      BY <1>b, <1>c, <2>1, <2>3 DEF CountRight
    <2>5. \A u \in Threads : u # t => loc'[u] = loc[u]
      BY <1>2, <1>a DEF DropActiveRef
    <2>6. closer = "closed" => (\A b \in live' : ~ b.early) /\ (\A u \in Counted' : ~ loc'[u].early)
      BY <1>d, <2>1, <2>2, <2>5 DEF CloseOrder
    <2>7. \A u \in Threads : pc[u] = "notify" => pc'[u] = "notify"
      BY <2>1, <2>2
    <2> QED BY <2>1, <2>2, <2>4, <2>6, <2>7, CloseStep
  <1>3. CASE MakeControl(t) /\ pc'[t] # "check"
    <2>1. PICK b : /\ b \notin live /\ live' = live \cup {b} /\ b.early = loc[t].early
                   /\ pc[t] = "control" /\ pc' = [pc EXCEPT ![t] = "idle"]
                   /\ loc' = [loc EXCEPT ![t] = NoLocals]
      BY <1>3, MakeControlStep
    <2>2. active_count' = active_count /\ UNCHANGED <<closing, pending, closer, seen>>
      BY <1>3 DEF MakeControl, close
    <2>3. /\ t \in Counted /\ Counted' = Counted \ {t}
          /\ \A u \in Threads : u # t => pc'[u] = pc[u]
      BY <1>0, <2>1, CountedStep DEF Held, Allocs, Fills, Backs
    <2>4. IsFiniteSet(Counted') /\ Cardinality(Counted') = Cardinality(Counted) - 1
      BY <1>b, <2>3, FS_RemoveElement
    <2>5. IsFiniteSet(live') /\ Cardinality(live') = Cardinality(live) + 1
      BY <1>b, <2>1, FS_AddElement
    <2>6. CountRight'
      BY <1>b, <1>c, <2>2, <2>4, <2>5 DEF CountRight
    <2>7. \A u \in Threads : u # t => loc'[u] = loc[u]
      BY <1>a, <2>1
    <2>8. closer = "closed" => (\A c \in live' : ~ c.early) /\ (\A u \in Counted' : ~ loc'[u].early)
      BY <1>d, <2>1, <2>3, <2>7 DEF CloseOrder
    <2>9. \A u \in Threads : pc[u] = "notify" => pc'[u] = "notify"
      BY <2>1, <2>3
    <2> QED BY <2>2, <2>6, <2>8, <2>9, CloseStep
  <1>4. ASSUME NEW b \in live, Release(t, b)
        PROVE  CountRight' /\ CloseOrder' /\ NoSleepingCloser'
    <2>1. /\ pc[t] = "idle" /\ pc' = [pc EXCEPT ![t] = "check"] /\ live' = live \ {b}
          /\ active_count' = active_count /\ UNCHANGED <<closing, pending, closer, seen>>
      BY <1>4 DEF Release, close
    <2>2. /\ t \notin Counted /\ Counted' = Counted \cup {t}
          /\ \A u \in Threads : u # t => pc'[u] = pc[u]
      BY <1>0, <2>1, CountedStep DEF Held, Allocs, Fills, Backs
    <2>3. IsFiniteSet(Counted') /\ Cardinality(Counted') = Cardinality(Counted) + 1
      BY <1>b, <2>2, FS_AddElement
    <2>4. IsFiniteSet(live') /\ Cardinality(live') = Cardinality(live) - 1
      BY <1>b, <2>1, FS_RemoveElement
    <2>5. CountRight'
      BY <1>b, <1>c, <2>1, <2>3, <2>4 DEF CountRight
    <2>6. loc'[t].early = b.early /\ \A u \in Threads : u # t => loc'[u] = loc[u]
      BY <1>4, <1>a DEF Release, Locals
    <2>7. closer = "closed" => (\A c \in live' : ~ c.early) /\ (\A u \in Counted' : ~ loc'[u].early)
      BY <1>d, <2>1, <2>2, <2>6 DEF CloseOrder
    <2>8. \A u \in Threads : pc[u] = "notify" => pc'[u] = "notify"
      BY <2>1, <2>2
    <2> QED BY <2>1, <2>5, <2>7, <2>8, CloseStep
  <1> QED BY <1>1, <1>2, <1>3, <1>4

\* The steps of Close, and of the thread that wakes it.
LEMMA ClosingStep ==
    ASSUME Typed, CountRight, CloseOrder, NoSleepingCloser,
           \/ \E t \in Threads : Notify(t)
           \/ BeginClose \/ Closing \/ UNCHANGED vars
    PROVE  CountRight' /\ CloseOrder' /\ NoSleepingCloser'
  <1>b. IsFiniteSet(Counted) /\ IsFiniteSet(live) /\ active_count = Cardinality(Counted) + Cardinality(live)
    BY DEF CountRight
  <1>c. /\ Cardinality(Counted) \in Nat /\ Cardinality(live) \in Nat /\ active_count \in Nat
    BY <1>b, FS_CardinalityType
  <1>d. /\ closing \in BOOLEAN /\ pending \in BOOLEAN /\ (closer = "asleep" => closing)
        /\ closer \in {"open", "load", "wait", "asleep", "closed"} /\ seen \in Nat
        /\ closer = "wait" => seen > 0
    BY DEF CloseOrder
  <1>1. ASSUME NEW t \in Threads, Notify(t) PROVE CountRight' /\ CloseOrder' /\ NoSleepingCloser'
    <2>1. /\ pc[t] = "notify" /\ pc' = [pc EXCEPT ![t] = "idle"] /\ loc' = loc
          /\ live' = live /\ active_count' = active_count /\ seen' = seen
          /\ closer' = IF closing /\ closer = "asleep" THEN "load" ELSE closer
      BY <1>1 DEF Notify, Step
    <2>a. closing' = closing /\ pending' = pending
      BY <1>1, Zenon DEF Notify
    <2>2. Counted' = Counted
      BY <2>1, CountedStep DEF Held, Allocs, Fills, Backs
    <2>3. CountRight'
      BY <2>1, <2>2 DEF CountRight
    <2>4. closer' # "asleep" /\ closer' \in {"open", "load", "wait", "closed"}
          /\ (closer' # "load" => closer' = closer)
      BY <1>d, <2>1
    <2>5. closing' \in BOOLEAN /\ pending' \in BOOLEAN
      BY <1>d, <2>a, Zenon
    <2>6. seen' \in Nat /\ (closer' = "wait" => seen' > 0)
      BY <1>d, <2>1, <2>4
    <2>7. closer' = "closed" => (\A b \in live' : ~ b.early) /\ (\A u \in Counted' : ~ loc'[u].early)
      BY <2>1, <2>2, <2>4 DEF CloseOrder
    <2>8. CloseOrder'
      BY <2>4, <2>5, <2>6, <2>7 DEF CloseOrder
    <2> QED BY <2>3, <2>4, <2>8 DEF NoSleepingCloser
  <1>2. CASE BeginClose
    <2>1. /\ closer' = "load" /\ pc' = pc /\ loc' = loc /\ live' = live
          /\ active_count' = active_count /\ seen' = seen
      BY <1>2 DEF BeginClose
    <2>2. closing' \in BOOLEAN /\ pending' \in BOOLEAN
      BY <1>2, <1>d, Zenon DEF BeginClose
    <2> QED BY <1>b, <1>d, <2>1, <2>2 DEF CountRight, Counted, CloseOrder, NoSleepingCloser
  <1>3. CASE StoreDrains
    <2>1. /\ closer' = closer /\ pc' = pc /\ loc' = loc /\ live' = live
          /\ active_count' = active_count /\ seen' = seen
      BY <1>3 DEF StoreDrains
    <2>2. closing' = TRUE /\ pending' = FALSE
      BY <1>3, Zenon DEF StoreDrains
    <2>3. CountRight' /\ NoSleepingCloser'
      BY <2>1 DEF CountRight, Counted, NoSleepingCloser
    <2>4. CloseOrder'
      BY <1>d, <2>1, <2>2, Zenon DEF CloseOrder, Counted
    <2> QED BY <2>3, <2>4
  <1>4. CASE WaitUntilIdle
    <2>1. /\ pc' = pc /\ loc' = loc /\ live' = live
          /\ active_count' = active_count /\ seen' = active_count
          /\ closer' = IF active_count = 0 THEN "closed" ELSE "wait"
      BY <1>4 DEF WaitUntilIdle
    <2>2. closing' \in BOOLEAN /\ pending' \in BOOLEAN
      BY <1>4, <1>d, Zenon DEF WaitUntilIdle
    <2>3. CountRight' /\ NoSleepingCloser' /\ Counted' = Counted
      BY <2>1 DEF CountRight, Counted, NoSleepingCloser
    <2>4. closer' = "closed" => live = {} /\ Counted = {}
      BY <1>b, <1>c, <2>1, FS_EmptySet
    <2>5. seen' \in Nat /\ (closer' = "wait" => seen' > 0)
      BY <1>c, <2>1
    <2>6. CloseOrder'
      BY <2>1, <2>2, <2>3, <2>4, <2>5 DEF CloseOrder
    <2> QED BY <2>3, <2>6
  <1>5. CASE WaitForChange
    <2>1. /\ pc' = pc /\ loc' = loc /\ live' = live
          /\ active_count' = active_count /\ seen' = seen /\ closer = "wait"
          /\ closer' = IF active_count = seen THEN "asleep" ELSE "load"
      BY <1>5 DEF WaitForChange
    <2>2. closing' = TRUE /\ pending' = FALSE
      BY <1>5, Zenon DEF WaitForChange
    <2>3. CountRight'
      BY <2>1 DEF CountRight, Counted
    <2>4. NoSleepingCloser'
      BY <1>d, <2>1 DEF NoSleepingCloser
    <2>5. CloseOrder'
      BY <1>d, <2>1, <2>2 DEF CloseOrder
    <2> QED BY <2>3, <2>4, <2>5
  <1>6. CASE UNCHANGED vars
    <2>1. /\ pc' = pc /\ loc' = loc /\ live' = live /\ active_count' = active_count
          /\ UNCHANGED <<closing, pending, closer, seen>>
      BY <1>6, Zenon DEF vars, close
    <2> QED BY <2>1, Zenon DEF CountRight, Counted, CloseOrder, NoSleepingCloser
  <1> QED BY <1>1, <1>2, <1>3, <1>4, <1>5, <1>6 DEF Closing

\* The whole invariant is inductive.
LEMMA Inductive == IInv /\ [Next]_vars => IInv'
  <1> SUFFICES ASSUME IInv, [Next]_vars PROVE IInv'
    OBVIOUS
  <1>a. SlotInv /\ Typed /\ CountRight /\ CloseOrder /\ NoSleepingCloser
    BY DEF IInv, SlotInv
  <1>b. SlotInv'
    BY <1>a, SlotStep
  <1> DEFINE P == CountRight /\ CloseOrder /\ NoSleepingCloser
  <1>1. ASSUME NEW t \in Threads, NEW k \in Keys, Allocate(t, k) PROVE P'
    BY <1>1, <1>a, UncountedStep
  <1>2. ASSUME NEW t \in Threads, NEW k \in Keys, NEW s \in Slots, Put(t, k, s) PROVE P'
    BY <1>2, <1>a, UncountedStep
  <1>3. ASSUME NEW t \in Threads, NEW b \in live, Release(t, b) PROVE P'
    BY <1>3, <1>a, CountingStep
  <1>4. ASSUME NEW t \in Threads, AllocateSteps(t) PROVE P'
    <2>1. CASE Count(t)
      BY <1>a, <2>1, CountingStep
    <2>2. CASE MakeControl(t)
      BY <1>a, <2>2, CountingStep, KeptStep
    <2>3. CASE \/ Recheck(t) \/ LoadHead(t) \/ LoadNext(t) \/ Pop(t) \/ StoreBytes(t) \/ StoreLen(t)
               \/ Publish(t)
      BY <1>a, <2>3, KeptStep
    <2> QED BY <1>4, <2>1, <2>2, <2>3 DEF AllocateSteps
  <1>5. ASSUME NEW t \in Threads, ReleaseSteps(t) PROVE P'
    <2>1. CASE \/ CheckGeneration(t) \/ ExchangeState(t) \/ BumpGeneration(t) \/ LinkSlot(t) \/ Push(t)
      BY <1>a, <2>1, KeptStep
    <2>2. CASE DropActiveRef(t)
      BY <1>a, <2>2, CountingStep
    <2>3. CASE Notify(t)
      BY <1>a, <2>3, ClosingStep
    <2> QED BY <1>5, <2>1, <2>2, <2>3 DEF ReleaseSteps
  <1>6. ASSUME NEW t \in Threads, PutSteps(t) PROVE P'
    BY <1>6, <1>a, UncountedStep
  <1>7. ASSUME BeginClose \/ Closing \/ UNCHANGED vars PROVE P'
    BY <1>7, <1>a, ClosingStep
  <1>8. P'
    BY <1>1, <1>2, <1>3, <1>4, <1>5, <1>6, <1>7 DEF Next, Steps
  <1> QED BY <1>b, <1>8 DEF IInv

\* Create establishes it.
LEMMA Initially == Init => IInv
  <1> SUFFICES ASSUME Init PROVE IInv
    OBVIOUS
  <1>1. SlotInv
    BY SlotInit
  <1>2. live = {} /\ Counted = {} /\ active_count = 0
    BY DEF Init, Counted, Held, Allocs, Fills, Backs
  <1>3. CountRight
    BY <1>2, FS_EmptySet DEF CountRight
  <1>4. CloseOrder /\ NoSleepingCloser
    BY DEF Init, CloseOrder, NoSleepingCloser
  <1> QED BY <1>1, <1>3, <1>4 DEF IInv

\* Every reachable state satisfies it.
LEMMA Invariance == Spec => []IInv
  BY Initially, Inductive, PTL DEF Spec

---------------------------------------------------------------------------
(* The theorems.                                                           *)

\* Close does not sleep through the last release (WaitUntilIdle and DropActiveRef), for any
\* number of threads and although the store to closing may be delayed: a closer goes to sleep
\* in the kernel, which makes the store visible, so the thread at "notify" sees it.
THEOREM NoSleepingCloserHolds == Spec => []NoSleepingCloser
  <1>1. IInv => NoSleepingCloser
    BY DEF IInv
  <1> QED BY <1>1, Invariance, PTL

\* When Close has seen the count at zero, no buffer of an allocation that was counted before
\* Close began is in the application's hands or on its way: active_count is exactly the number
\* of buffers handed out and of threads between the two ends of the count.
THEOREM CloseWaitsHolds == Spec => []CloseWaits
  <1>1. IInv => CloseWaits
    <2> SUFFICES ASSUME IInv, closer = "closed"
                 PROVE  /\ \A b \in live : ~ b.early
                        /\ \A t \in Threads : loc[t].early =>
                               pc[t] \notin {"load", "next", "pop"} /\ t \notin Busy
      BY DEF CloseWaits
    <2>1. (\A b \in live : ~ b.early) /\ (\A t \in Counted : ~ loc[t].early)
      BY DEF IInv, CloseOrder
    <2>2. \A t \in Threads : pc[t] \in {"load", "next", "pop"} \/ t \in Busy => t \in Counted
      BY DEF Counted, Held, Busy, Filling, Returning, Allocs, Fills, Backs
    <2> QED BY <2>1, <2>2
  <1> QED BY <1>1, Invariance, PTL

\* Put writes from a slot directly only when the slot was allocated for its key during the call,
\* and never copies a buffer of its own key that was held all the time: the generation that Put
\* reads first and last (Identify) makes state, length and bytes one reading.
THEOREM PutSourceRightHolds == Spec => []PutSourceRight
  <1>1. IInv => PutSourceRight
    <2> SUFFICES ASSUME IInv, NEW t \in Threads
                 PROVE  /\ pc[t] = "direct" => /\ loc[t].gen \in DOMAIN bound[loc[t].slot]
                                               /\ bound[loc[t].slot][loc[t].gen] = loc[t].key
                        /\ pc[t] = "copy" => loc[t].own \cap live = {}
      BY DEF PutSourceRight
    <2>1. SlotInv /\ Equipped(pc[t], loc[t]) /\ Right(pc[t], loc[t])
      BY ThreadFacts DEF IInv
    <2>2. pc[t] = "direct" => loc[t].slot \in Slots /\ bound[loc[t].slot] \in Seq(Keys)
      BY <2>1 DEF Equipped, Probes, SlotInv, Typed
    <2>3. pc[t] = "direct" => DOMAIN bound[loc[t].slot] = 1 .. Len(bound[loc[t].slot])
      BY <2>2
    <2>4. pc[t] = "direct" => /\ loc[t].gen \in 1 .. Len(bound[loc[t].slot])
                              /\ bound[loc[t].slot][loc[t].gen] = loc[t].key
      BY <2>1 DEF Right, ProbeRight
    <2>5. pc[t] = "copy" => loc[t].own \cap live = {}
      BY <2>1 DEF Right, OwnRight
    <2> QED BY <2>3, <2>4, <2>5
  <1> QED BY <1>1, Invariance, PTL

---------------------------------------------------------------------------
(* The stack as NthFree walks it.                                          *)

\* A set of natural numbers that is not empty has a least element.
LEMMA Least ==
    ASSUME NEW T, T \subseteq Nat, T # {}
    PROVE  \E x \in T : \A y \in T : x <= y
  <1>1. PICK x \in T : \A y \in T : ~ (<<y, x>> \in OpToRel(<, Nat))
    BY NatLessThanWellFounded, WFMin
  <1>2. \A y \in T : ~ (y < x)
    BY <1>1 DEF OpToRel
  <1>3. \A y \in T : x <= y
    BY <1>2
  <1> QED BY <1>3

\* A one-to-one image is as large as the set.
LEMMA SameSize ==
    ASSUME NEW S, NEW T, NEW f \in [S -> T], IsFiniteSet(S),
           \A a, b \in S : f[a] = f[b] => a = b,
           \A y \in T : \E a \in S : f[a] = y
    PROVE  IsFiniteSet(T) /\ Cardinality(T) = Cardinality(S)
  <1>1. f \in Bijection(S, T)
    BY Fun_IsBij
  <1>2. ExistsBijection(S, T)
    BY <1>1, Fun_ExistsBij
  <1> QED BY <1>2, FS_Bijection

\* The slots that NthFree walks over are those of the stack.
LEMMA Walk ==
    ASSUME NEW st \in Seq(Slots), Len(st) <= SlotCount,
           free_head.slot = IF Len(st) = 0 THEN kInvalidSlot ELSE st[1],
           \A i \in 1 .. Len(st) : next_free[st[i]] = IF i = Len(st) THEN kInvalidSlot ELSE st[i + 1]
    PROVE  \A n \in 0 .. SlotCount : NthFree[n] = IF n < Len(st) THEN st[n + 1] ELSE kInvalidSlot
  <1> DEFINE Body(f) == [n \in 0 .. SlotCount |->
                           IF n = 0 THEN free_head.slot
                           ELSE IF f[n - 1] = kInvalidSlot THEN kInvalidSlot ELSE next_free[f[n - 1]]]
             g == [n \in 0 .. SlotCount |-> IF n < Len(st) THEN st[n + 1] ELSE kInvalidSlot]
  <1>1. NthFree = CHOOSE f : f = Body(f)
    BY Zenon DEF NthFree
  <1>a. Len(st) \in Nat /\ \A i \in 1 .. Len(st) : st[i] # kInvalidSlot
    <2>1. \A i \in 1 .. Len(st) : st[i] \in Slots
      BY ElementOfSeq
    <2> QED BY <2>1 DEF Slots, kInvalidSlot
  <1>b. \A n \in 0 .. SlotCount : g[n] = IF n < Len(st) THEN st[n + 1] ELSE kInvalidSlot
    OBVIOUS
  <1>c. \A f : \A n \in 0 .. SlotCount : Body(f)[n] =
          IF n = 0 THEN free_head.slot
          ELSE IF f[n - 1] = kInvalidSlot THEN kInvalidSlot ELSE next_free[f[n - 1]]
    OBVIOUS
  <1>d. /\ g = [n \in 0 .. SlotCount |-> g[n]]
        /\ \A f : Body(f) = [n \in 0 .. SlotCount |-> Body(f)[n]]
    OBVIOUS
  <1> HIDE DEF g, Body
  <1>2. \A n \in 0 .. SlotCount : n # 0 =>
          g[n] = IF g[n - 1] = kInvalidSlot THEN kInvalidSlot ELSE next_free[g[n - 1]]
    <2> SUFFICES ASSUME NEW n \in 0 .. SlotCount, n # 0
                 PROVE  g[n] = IF g[n - 1] = kInvalidSlot THEN kInvalidSlot ELSE next_free[g[n - 1]]
      OBVIOUS
    <2>1. n - 1 \in 0 .. SlotCount /\ n - 1 + 1 = n
      OBVIOUS
    <2>2. CASE n - 1 < Len(st)
      <3>1. n \in 1 .. Len(st) /\ g[n - 1] = st[n]
        BY <1>a, <1>b, <2>1, <2>2
      <3>2. g[n - 1] # kInvalidSlot
        BY <1>a, <3>1
      <3>3. next_free[g[n - 1]] = IF n = Len(st) THEN kInvalidSlot ELSE st[n + 1]
        BY <3>1
      <3>4. n < Len(st) <=> n # Len(st)
        BY <1>a, <2>2
      <3> QED BY <1>b, <3>2, <3>3, <3>4
    <2>3. CASE ~ (n - 1 < Len(st))
      <3>1. ~ (n < Len(st))
        BY <1>a, <2>3
      <3> QED BY <1>b, <2>1, <2>3, <3>1
    <2> QED BY <2>2, <2>3
  <1>3. g[0] = free_head.slot
    BY <1>a, <1>b
  <1>4. g = Body(g)
    <2>1. \A n \in 0 .. SlotCount : g[n] = Body(g)[n]
      BY <1>2, <1>3, <1>c
    <2> QED BY <1>d, <2>1
  <1>5. NthFree = Body(NthFree)
    BY <1>1, <1>4, Zenon
  <1>6. \A n \in 0 .. SlotCount : NthFree[n] = g[n]
    <2> DEFINE T == {n \in 0 .. SlotCount : NthFree[n] # g[n]}
    <2> SUFFICES ASSUME T # {} PROVE FALSE
      OBVIOUS
    <2>a. T \subseteq Nat
      OBVIOUS
    <2>1. PICK n \in T : \A k \in T : n <= k
      <3> HIDE DEF T
      <3> QED BY <2>a, Least
    <2>2. n \in 0 .. SlotCount /\ NthFree[n] # g[n] /\ n - 1 \notin T
      BY <2>1
    <2>3. NthFree[n] = IF n = 0 THEN free_head.slot
                       ELSE IF NthFree[n - 1] = kInvalidSlot THEN kInvalidSlot
                            ELSE next_free[NthFree[n - 1]]
      BY <1>5, <1>c, <2>2
    <2>4. CASE n = 0
      BY <1>3, <2>2, <2>3, <2>4
    <2>5. CASE n # 0
      <3>1. NthFree[n - 1] = g[n - 1]
        BY <2>2, <2>5
      <3> QED BY <1>2, <2>2, <2>3, <2>5, <3>1
    <2> QED BY <2>4, <2>5
  <1> QED BY <1>6, <1>b

\* The stack holds no slot twice, so no more slots than there are.
LEMMA StackSize ==
    ASSUME NEW st \in Seq(Slots), \A i, j \in 1 .. Len(st) : st[i] = st[j] => i = j
    PROVE  LET R == {st[i] : i \in 1 .. Len(st)}
           IN  /\ R \subseteq Slots /\ IsFiniteSet(R) /\ Cardinality(R) = Len(st)
               /\ IsFiniteSet(Slots) /\ Cardinality(Slots) = SlotCount /\ Len(st) <= SlotCount
  <1> DEFINE R == {st[i] : i \in 1 .. Len(st)}
             f == [i \in 1 .. Len(st) |-> st[i]]
  <1>1. Len(st) \in Nat
    BY LenProperties
  <1>2. IsFiniteSet(1 .. Len(st)) /\ Cardinality(1 .. Len(st)) = Len(st)
    <2>1. PICK n \in Nat : n = Len(st)
      BY <1>1
    <2>2. IsFiniteSet(1 .. n) /\ Cardinality(1 .. n) = IF 1 > n THEN 0 ELSE n - 1 + 1
      BY FS_Interval
    <2>3. Cardinality(1 .. n) = n
      BY <2>2
    <2> QED BY <2>1, <2>2, <2>3
  <1>3. /\ f \in [1 .. Len(st) -> R] /\ \A a, b \in 1 .. Len(st) : f[a] = f[b] => a = b
        /\ \A y \in R : \E a \in 1 .. Len(st) : f[a] = y
    OBVIOUS
  <1>4. IsFiniteSet(R) /\ Cardinality(R) = Len(st)
    <2> HIDE DEF f, R
    <2> QED BY <1>2, <1>3, SameSize
  <1>5. R \subseteq Slots
    BY ElementOfSeq
  <1>6. IsFiniteSet(Slots) /\ Cardinality(Slots) = SlotCount
    BY FS_Interval DEF Slots
  <1>7. Cardinality(R) <= Cardinality(Slots)
    <2> HIDE DEF R
    <2> QED BY <1>5, <1>6, FS_Subset
  <1> QED BY <1>4, <1>5, <1>6, <1>7

\* Every slot is on the free stack once, or in the hands of one buffer or one thread: none is
\* handed out twice and none is lost, for any number of slots and threads and however stale the
\* heads are that they compare.
THEOREM SlotsAccountedHolds == Spec => []SlotsAccounted
  <1>1. IInv => SlotsAccounted
    <2> SUFFICES ASSUME IInv PROVE SlotsAccounted
      OBVIOUS
    <2>a. SlotInv /\ Typed /\ OneOwner
      BY DEF IInv, SlotInv
    <2>b. PICK st \in Seq(Slots) : Stack(st)
      BY <2>a DEF SlotInv, Stacked
    <2> DEFINE F == {st[i] : i \in 1 .. Len(st)}
               L == {b.slot : b \in live}
               B == {loc[t].slot : t \in Busy}
    <2>c. /\ \A x : x \in F <=> \E i \in 1 .. Len(st) : st[i] = x
          /\ \A x : x \in L <=> \E b \in live : b.slot = x
          /\ \A x : x \in B <=> \E t \in Busy : loc[t].slot = x
      OBVIOUS
    <2>1. TypeOK
      <3>1. active_count \in Nat
        BY FS_CardinalityType DEF IInv, CountRight
      <3>2. /\ next_free \in [Slots -> Slots \cup {kInvalidSlot}]
            /\ state \in [Slots -> {"Free", "Allocated"}] /\ generation \in [Slots -> Nat]
            /\ bound_len \in [Slots -> Keys \cup {NoKey}] /\ bound_bytes \in [Slots -> Keys \cup {NoKey}]
            /\ free_head \in Heads
        BY <2>a DEF Typed, AnySlot, AnyKey
      <3>3. /\ closing \in BOOLEAN /\ pending \in BOOLEAN /\ seen \in Nat
            /\ closer \in {"open", "load", "wait", "asleep", "closed"}
        BY DEF IInv, CloseOrder
      <3> QED BY <3>1, <3>2, <3>3, Zenon DEF TypeOK
    <2>2. /\ F \subseteq Slots /\ IsFiniteSet(F) /\ Cardinality(F) = Len(st)
          /\ IsFiniteSet(Slots) /\ Cardinality(Slots) = SlotCount /\ Len(st) <= SlotCount
      BY <2>b, StackSize DEF Stack
    <2>3. Len(st) \in Nat /\ \A i \in 1 .. Len(st) : st[i] # kInvalidSlot
      <3>1. Len(st) \in Nat /\ \A i \in 1 .. Len(st) : st[i] \in Slots
        BY ElementOfSeq, LenProperties
      <3> QED BY <3>1 DEF Slots, kInvalidSlot
    <2>4. \A n \in 0 .. SlotCount : NthFree[n] = IF n < Len(st) THEN st[n + 1] ELSE kInvalidSlot
      <3>1. st = <<>> <=> Len(st) = 0
        BY EmptySeq
      <3> QED BY <2>2, <2>b, <3>1, Walk DEF Stack, Linked
    <2> HIDE DEF F, L, B
    <2>5. NthFree[SlotCount] = kInvalidSlot
      <3>1. SlotCount \in 0 .. SlotCount /\ ~ (SlotCount < Len(st))
        BY <2>2, <2>3
      <3> QED BY <2>4, <3>1
    <2>6. FreeSlots = F
      <3>1. ASSUME NEW x \in FreeSlots PROVE x \in F
        <4>1. PICK n \in 0 .. SlotCount : x = NthFree[n] /\ x # kInvalidSlot
          BY <3>1 DEF FreeSlots
        <4>2. n < Len(st) /\ x = st[n + 1]
          BY <2>4, <4>1
        <4>3. n + 1 \in 1 .. Len(st)
          BY <2>3, <4>2
        <4> QED BY <2>c, <4>2, <4>3
      <3>2. ASSUME NEW i \in 1 .. Len(st) PROVE st[i] \in FreeSlots
        <4>1. i - 1 \in 0 .. SlotCount /\ i - 1 < Len(st) /\ i - 1 + 1 = i
          BY <2>2, <2>3
        <4>2. NthFree[i - 1] = st[i]
          BY <2>4, <4>1
        <4> QED BY <2>3, <4>1, <4>2 DEF FreeSlots
      <3> QED BY <2>c, <3>1, <3>2
    <2>7. Busy = {t \in Threads : Owns(t)}
      BY DEF Busy, Filling, Returning, Owns, Fills, Backs
    <2>8. \A s \in Slots : Unowned(s) <=> s \notin L /\ s \notin B
      BY <2>7, <2>c DEF Unowned
    <2>9. L \subseteq Slots /\ B \subseteq Slots
      <3>1. \A t \in Threads : Equipped(pc[t], loc[t])
        BY <2>a DEF Typed
      <3> QED BY <2>7, <2>a, <2>c, <3>1 DEF Typed, Buffers, Equipped, Owns
    <2>10. F \cup L \cup B = Slots
      <3>1. \A s \in Slots : Unowned(s) => s \in F
        BY <2>b, <2>c DEF Stack
      <3> QED BY <2>2, <2>8, <2>9, <3>1
    <2>11. IsFiniteSet(L) /\ Cardinality(L) = Cardinality(live)
      <3> DEFINE f == [b \in live |-> b.slot]
      <3>1. /\ f \in [live -> L] /\ \A b, c \in live : f[b] = f[c] => b = c
            /\ \A y \in L : \E b \in live : f[b] = y
        BY <2>a, <2>c DEF OneOwner
      <3>2. IsFiniteSet(live)
        BY DEF IInv, CountRight
      <3> HIDE DEF f
      <3> QED BY <3>1, <3>2, SameSize
    <2>12. IsFiniteSet(B) /\ Cardinality(B) = Cardinality(Busy)
      <3> DEFINE f == [t \in Busy |-> loc[t].slot]
      <3>1. /\ f \in [Busy -> B] /\ \A t, u \in Busy : f[t] = f[u] => t = u
            /\ \A y \in B : \E t \in Busy : f[t] = y
        BY <2>7, <2>a, <2>c DEF OneOwner
      <3>2. IsFiniteSet(Counted) /\ Busy \subseteq Counted
        BY <2>7 DEF IInv, CountRight, Counted, Held, Owns
      <3>3. IsFiniteSet(Busy)
        BY <3>2, FS_Subset
      <3> HIDE DEF f
      <3> QED BY <3>1, <3>3, SameSize
    <2>13. F \cap L = {} /\ (F \cup L) \cap B = {}
      <3>1. F \cap L = {} /\ F \cap B = {}
        <4>1. \A s \in F : Unowned(s)
          BY <2>b, <2>c DEF Stack
        <4> QED BY <2>2, <2>8, <4>1
      <3>2. L \cap B = {}
        BY <2>7, <2>a, <2>c DEF OneOwner
      <3> QED BY <3>1, <3>2
    <2>14. Cardinality(F) + Cardinality(live) + Cardinality(Busy) = SlotCount
      <3>1. /\ IsFiniteSet(F \cup L)
            /\ Cardinality(F \cup L) = Cardinality(F) + Cardinality(L) - Cardinality(F \cap L)
        BY <2>2, <2>11, FS_Union
      <3>2. Cardinality((F \cup L) \cup B) =
              Cardinality(F \cup L) + Cardinality(B) - Cardinality((F \cup L) \cap B)
        BY <2>12, <3>1, FS_Union
      <3>3. Cardinality(F \cap L) = 0 /\ Cardinality((F \cup L) \cap B) = 0
        BY <2>13, FS_EmptySet
      <3>4. Cardinality((F \cup L) \cup B) = SlotCount
        BY <2>2, <2>10
      <3>5. /\ Cardinality(F) \in Nat /\ Cardinality(L) \in Nat /\ Cardinality(B) \in Nat
            /\ Cardinality(F \cup L) \in Nat
        BY <2>2, <2>11, <2>12, <3>1, FS_CardinalityType
      <3>6. Cardinality(F) + Cardinality(L) + Cardinality(B) = SlotCount
        BY <3>1, <3>2, <3>3, <3>4, <3>5
      <3> QED BY <2>11, <2>12, <3>6
    <2>15. FreeSlots \cup {b.slot : b \in live} \cup {loc[t].slot : t \in Busy} = Slots
      BY <2>6, <2>10 DEF L, B
    <2>16. Cardinality(FreeSlots) + Cardinality(live) + Cardinality(Busy) = SlotCount
      BY <2>6, <2>14
    <2> QED BY <2>1, <2>5, <2>15, <2>16, Zenon DEF SlotsAccounted
  <1> QED BY <1>1, Invariance, PTL

==============================================================================
