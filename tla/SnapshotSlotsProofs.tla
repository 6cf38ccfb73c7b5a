-------------------------- MODULE SnapshotSlotsProofs --------------------------
(***************************************************************************)
(* Proofs about SnapshotSlots, for any number of Writes, restarts, power   *)
(* failures and sequence numbers, with or without device faults.           *)
(***************************************************************************)
EXTENDS SnapshotSlots, TLAPS

USE FaultsAssumption, BoundsAssumption

---------------------------------------------------------------------------
(* The inductive invariant.                                                *)

\* What a read returns is one of the contents the platter may hold.
Readable == \A s \in Slots : header[s] \in header_maybe[s] /\ data[s] \in data_maybe[s]

\* Generations stay behind the count of Writes, and what headers cover behind the log.
Limits ==
    /\ next_gen <= writes + 1 /\ pending.gen <= writes
    /\ \A s \in Slots : \A h \in header_maybe[s] : h.gen <= writes /\ h.covered <= flushed

\* A Write in progress: the header it will leave or has left in the inactive slot.
InProgress ==
    /\ pc # "idle" => /\ mode = "up"
                      /\ pending.gen = next_gen /\ pending.covered = flushed
                      /\ pending.image \in {Empty, data[Target]}
    /\ pc = "sync" => header[Target] = pending

\* The slot in use, as far as reads go.
InUse ==
    mode = "up" /\ active # -1 =>
        /\ header[active].gen # 0 /\ VerifySlotData(active)
        /\ header[active].covered = last_covered

Durable(s) == header_maybe[s] = {header[s]} /\ data_maybe[s] = {data[s]}

\* Slot a is a complete snapshot on the platter, nothing it does not cover is gone from the
\* log, and whatever the other slot may turn out to hold will not be taken for it.
Anchor(a) ==
    /\ Durable(a) /\ header[a].gen # 0 /\ VerifySlotData(a)
    /\ reclaimed <= header[a].covered
    /\ \A h \in header_maybe[1 - a] :
         /\ h.gen # header[a].gen
         /\ h.gen > header[a].gen => h.covered >= header[a].covered
    /\ mode = "up" => active = a /\ header[a].gen < next_gen

\* No Write has succeeded yet.
Virgin ==
    /\ header_maybe[1] = {NoHeader} /\ reclaimed = 0
    /\ mode = "up" => active = -1

Anchored == cached \/ Virgin \/ \E a \in Slots : Anchor(a)

\* Without faults the header a read returns is the newest the slot may hold, and the next
\* generation is newer than all.
Latest == \A s \in Slots : \A h \in header_maybe[s] : h.gen <= header[s].gen
Apart  == \A h0 \in header_maybe[0], h1 \in header_maybe[1] : h0.gen = h1.gen => h0.gen = 0
Ahead  ==
    mode = "up" =>
        \A s \in Slots : \A h \in header_maybe[s] :
            h.gen < next_gen \/ (pc = "sync" /\ h.gen = next_gen)
Newest == ~ Faults => Latest /\ Apart /\ Ahead

Basic == TypeOK /\ Readable /\ Limits /\ InProgress /\ InUse
IInv  == Basic /\ Anchored /\ Newest /\ RefusesOnlyFirst

---------------------------------------------------------------------------
(* Helpers.                                                                *)

\* The type invariant without its one truth value.
Typed ==
    /\ header \in [Slots -> Headers] /\ header_maybe \in [Slots -> SUBSET Headers]
    /\ data \in [Slots -> Images] /\ data_maybe \in [Slots -> SUBSET Images]
    /\ active \in {-1, 0, 1} /\ next_gen \in 1 .. MaxWrites + 1
    /\ last_covered \in 0 .. MaxSeq
    /\ pc \in {"idle", "header", "sync"} /\ pending \in Headers
    /\ mode \in {"up", "down", "refused"}
    /\ seq \in 0 .. MaxSeq /\ flushed \in 0 .. seq /\ reclaimed \in 0 .. MaxSeq
    /\ writes \in 0 .. MaxWrites /\ opens \in 0 .. MaxOpens

\* A header that was cleared is a header, and records of several Writes are records.
LEMMA NothingType == NoHeader \in Headers /\ Mixed \in Images /\ Empty \in Images
  BY DEF NoHeader, Headers, Images, Mixed, Empty

\* Write's target is a slot other than the active one.
LEMMA TargetFact ==
    ASSUME active \in {-1, 0, 1}
    PROVE  Target \in Slots /\ Target # active /\ (active # -1 => Target = 1 - active)
  BY DEF Target, Slots

\* Open's candidate is a slot with a valid header, and no valid header is newer.
LEMMA CandidateFact ==
    ASSUME header \in [Slots -> Headers], ~ NeverTaken
    PROVE  /\ Candidate \in Slots /\ HeaderOk(Candidate)
           /\ \A x \in Slots : HeaderOk(x) => header[x].gen <= header[Candidate].gen
  <1>1. header[0].gen \in Nat /\ header[1].gen \in Nat
    BY DEF Slots, Headers
  <1>2. \E s \in {x \in Slots : HeaderOk(x)} :
           \A x \in Slots : HeaderOk(x) => header[x].gen <= header[s].gen
    BY <1>1 DEF NeverTaken, HeaderOk, Slots
  <1> QED BY <1>2, Zenon DEF Candidate

\* Open chooses a slot with a valid header and the records that belong to it: the newest
\* such header, or the other one when its records do not match.
LEMMA ChosenFact ==
    ASSUME header \in [Slots -> Headers], ~ NeverTaken, Chosen # -1
    PROVE  /\ Chosen \in Slots /\ HeaderOk(Chosen) /\ VerifySlotData(Chosen)
           /\ \/ Chosen = Candidate
              \/ Chosen = 1 - Candidate /\ ~ VerifySlotData(Candidate)
  <1>1. Candidate \in Slots /\ HeaderOk(Candidate)
    BY CandidateFact
  <1> QED BY <1>1 DEF Chosen, Slots

---------------------------------------------------------------------------
(* The types.                                                              *)

\* Open with create leaves a state of the invariant.
LEMMA InitIInv == Init => IInv
  <1> SUFFICES ASSUME Init PROVE IInv
    OBVIOUS
  <1> USE NothingType DEF Init, Slots
  <1>1. Typed
    BY DEF Typed, NoHeader, Headers
  <1>2. TypeOK
    BY <1>1, Zenon DEF Typed, TypeOK
  <1>3. Readable /\ Limits /\ InProgress /\ InUse
    BY DEF Readable, Limits, InProgress, InUse, NoHeader
  <1>4. Virgin
    BY DEF Virgin
  <1>5. Newest
    BY DEF Newest, Latest, Apart, Ahead, NoHeader
  <1> QED BY <1>2, <1>3, <1>4, <1>5 DEF IInv, Basic, Anchored, RefusesOnlyFirst

\* Every step of Write, every restart and every Open keeps the types, and ties together
\* what is read, what is being written and what is in use.
LEMMA BasicStep == Basic /\ [Next]_vars => Basic'
  <1> SUFFICES ASSUME Basic, [Next]_vars PROVE Basic'
    OBVIOUS
  <1> USE DEF Slots
  <1>a. Typed /\ cached \in BOOLEAN /\ Readable /\ Limits /\ InProgress /\ InUse
    BY DEF Basic, TypeOK, Typed
  <1>b. ASSUME Typed', cached' \in BOOLEAN, Readable', Limits', InProgress', InUse'
        PROVE  Basic'
    BY <1>b, Zenon DEF Basic, TypeOK, Typed
  <1>c. active \in {-1, 0, 1}
    BY <1>a DEF Typed
  <1>1. CASE Grow
    <2>1. UNCHANGED <<device, memory, writing, mode, flushed, reclaimed, cached, bounds>>
          /\ seq < MaxSeq /\ seq' = seq + 1
      BY <1>1 DEF Grow
    <2>2. Typed'
      BY <1>a, <2>1 DEF Typed, device, memory, writing, bounds
    <2>3. cached' \in BOOLEAN /\ Readable' /\ Limits' /\ InProgress' /\ InUse'
      BY <1>a, <2>1, Zenon
      DEF Readable, Limits, InProgress, InUse, VerifySlotData, Target,
          device, memory, writing, bounds
    <2> QED BY <1>b, <2>2, <2>3
  <1>2. CASE WriteRecords
    <2>1. /\ mode = "up" /\ pc = "idle" /\ writes < MaxWrites /\ writes' = writes + 1
          /\ flushed' = seq
          /\ UNCHANGED <<header, header_maybe, memory, mode, seq, reclaimed, cached, opens>>
      BY <1>2 DEF WriteRecords
    <2>2. PICK image \in {Empty, writes + 1}, ok \in Outcomes :
            /\ IF image = Empty
               THEN UNCHANGED <<data, data_maybe>>
               ELSE /\ \E found \in IF ok THEN {image} ELSE {data[Target], Mixed, image} :
                           data' = [data EXCEPT ![Target] = found]
                    /\ data_maybe' = [data_maybe EXCEPT ![Target] = @ \cup {Mixed, image}]
            /\ IF ok THEN /\ pc' = "header"
                          /\ pending' = [gen |-> next_gen, covered |-> seq, image |-> image]
                     ELSE UNCHANGED writing
      BY <1>2, Zenon DEF WriteRecords
    <2>3. Target \in Slots /\ Target # active /\ Target' = Target
      BY <1>c, <2>1, TargetFact DEF Target, memory
    <2>4. image \in Images /\ Mixed \in Images
      BY <1>a, <2>1, NothingType DEF Images, Typed
    <2>5. /\ data' \in [Slots -> Images] /\ data_maybe' \in [Slots -> SUBSET Images]
          /\ \A s \in Slots : data'[s] \in data_maybe'[s]
          /\ \A s \in Slots : s # Target => data'[s] = data[s]
          /\ ok => image \in {Empty, data'[Target]}
      <3>1. CASE image = Empty
        BY <1>a, <2>2, <3>1 DEF Typed, Readable
      <3>2. CASE image # Empty
        <4>1. PICK found \in IF ok THEN {image} ELSE {data[Target], Mixed, image} :
                 data' = [data EXCEPT ![Target] = found]
          BY <2>2, <3>2, Zenon
        <4>2. data_maybe' = [data_maybe EXCEPT ![Target] = @ \cup {Mixed, image}]
          BY <2>2, <3>2, Zenon
        <4>3. found \in {data[Target], Mixed, image} /\ (ok => found = image)
          BY <4>1, Zenon
        <4> QED BY <1>a, <2>3, <2>4, <4>1, <4>2, <4>3 DEF Typed, Readable
      <3> QED BY <3>1, <3>2
    <2>6. /\ pc' \in {"idle", "header"} /\ pending' \in Headers /\ pending'.gen <= writes'
          /\ pc' # "idle" => /\ pending'.gen = next_gen /\ pending'.covered = seq
                             /\ pending'.image \in {Empty, data'[Target]}
      <3>1. CASE ok
        <4>1. pc' = "header" /\ pending' = [gen |-> next_gen, covered |-> seq, image |-> image]
          BY <2>2, <3>1, Zenon
        <4>2. image \in {Empty, data'[Target]}
          BY <2>5, <3>1, Zenon
        <4> QED BY <1>a, <2>1, <2>4, <4>1, <4>2 DEF Typed, Headers, Limits
      <3>2. CASE ~ ok
        <4>1. pc' = pc /\ pending' = pending
          BY <2>2, <3>2, Zenon DEF writing
        <4> QED BY <1>a, <2>1, <4>1 DEF Typed, Limits, Headers
      <3> QED BY <3>1, <3>2
    <2>7. Typed'
      BY <1>a, <2>1, <2>5, <2>6 DEF Typed, memory
    <2>8. Readable'
      BY <1>a, <2>1, <2>5 DEF Readable
    <2>9. Limits'
      BY <1>a, <2>1, <2>6 DEF Limits, Typed, memory, Headers
    <2>10. InProgress'
      BY <1>a, <2>1, <2>3, <2>6 DEF InProgress, memory
    <2>11. InUse'
      BY <1>a, <2>1, <2>3, <2>5 DEF InUse, VerifySlotData, Typed, memory
    <2> QED BY <1>a, <1>b, <2>1, <2>7, <2>8, <2>9, <2>10, <2>11
  <1>3. CASE WriteHeader
    <2>1. /\ mode = "up" /\ pc = "header"
          /\ header_maybe' = [header_maybe EXCEPT ![Target] = @ \cup {NoHeader, pending}]
          /\ UNCHANGED <<data, data_maybe, memory, pending, mode, outside, bounds>>
      BY <1>3 DEF WriteHeader
    <2>2. PICK ok \in Outcomes :
            /\ \E found \in IF ok THEN {pending} ELSE {header[Target], NoHeader, pending} :
                   header' = [header EXCEPT ![Target] = found]
            /\ pc' = IF ok THEN "sync" ELSE "idle"
      BY <1>3, Zenon DEF WriteHeader
    <2>3. PICK found \in IF ok THEN {pending} ELSE {header[Target], NoHeader, pending} :
            header' = [header EXCEPT ![Target] = found]
      BY <2>2, Zenon
    <2>4. found \in {header[Target], NoHeader, pending} /\ (ok => found = pending)
      BY <2>3, Zenon
    <2>5. pc' \in {"sync", "idle"} /\ (pc' = "sync" => ok)
      BY <2>2
    <2>6. Target \in Slots /\ Target # active /\ Target' = Target
      BY <1>c, <2>1, TargetFact DEF Target, memory
    <2>7. Typed'
      BY <1>a, <2>1, <2>3, <2>4, <2>5, <2>6, NothingType DEF Typed, memory, outside, bounds
    <2>8. Readable'
      BY <1>a, <2>1, <2>3, <2>4, <2>6 DEF Readable, Typed
    <2>9. Limits'
      BY <1>a, <2>1, <2>6 DEF Limits, InProgress, Typed, memory, outside, bounds, NoHeader, Headers
    <2>10. InProgress'
      <3>1. pc' = "sync" => header'[Target] = pending
        BY <1>a, <2>3, <2>4, <2>5, <2>6 DEF Typed
      <3> QED BY <1>a, <2>1, <2>5, <2>6, <3>1 DEF InProgress, memory, outside
    <2>11. InUse'
      BY <1>a, <2>1, <2>3, <2>6 DEF InUse, VerifySlotData, Typed, memory
    <2>12. cached' \in BOOLEAN
      BY <1>a, <2>1, Zenon DEF outside
    <2> QED BY <1>b, <2>7, <2>8, <2>9, <2>10, <2>11, <2>12
  <1>4. CASE SyncSlot
    <2>1. /\ mode = "up" /\ pc = "sync" /\ pc' = "idle"
          /\ UNCHANGED <<header, data, pending, mode, seq, flushed, cached, bounds>>
      BY <1>4 DEF SyncSlot
    <2>2. Target \in Slots /\ header[Target] = pending /\ pending.image \in {Empty, data[Target]}
      BY <1>a, <1>c, <2>1, TargetFact DEF InProgress
    <2>3. CASE UNCHANGED <<header_maybe, data_maybe, memory, reclaimed>>
      <3>1. Typed' /\ Readable' /\ Limits'
        BY <1>a, <2>1, <2>3 DEF Typed, Readable, Limits, memory, bounds
      <3>2. InProgress' /\ InUse'
        BY <1>a, <2>1, <2>3 DEF InProgress, InUse, VerifySlotData, memory
      <3> QED BY <1>a, <1>b, <2>1, <3>1, <3>2
    <2>4. CASE /\ Flushed
               /\ active' = Target /\ last_covered' = pending.covered
               /\ next_gen' = next_gen + 1 /\ reclaimed' = pending.covered
      <3>1. Typed'
        BY <1>a, <2>1, <2>2, <2>4 DEF Typed, Limits, InProgress, Flushed, bounds, Headers
      <3>2. Readable'
        BY <1>a, <2>1, <2>4 DEF Readable, Flushed
      <3>3. Limits'
        BY <1>a, <2>1, <2>4 DEF Limits, InProgress, Readable, Flushed, bounds, Typed, Headers
      <3>4. InProgress'
        BY <2>1 DEF InProgress
      <3>5. pending.gen # 0
        BY <1>a, <2>1 DEF InProgress, Typed
      <3>6. InUse'
        BY <1>a, <2>1, <2>2, <2>4, <3>5 DEF InUse, VerifySlotData
      <3> QED BY <1>a, <1>b, <2>1, <3>1, <3>2, <3>3, <3>4, <3>6
    <2> QED BY <1>4, <2>3, <2>4, Zenon DEF SyncSlot
  <1>5. CASE Stop
    <2>1. /\ pc' = "idle" /\ pending' = NoHeader /\ active' = -1 /\ next_gen' = 1
          /\ last_covered' = 0 /\ mode' = "down"
          /\ UNCHANGED <<header, header_maybe, data, data_maybe, seq, flushed, reclaimed, cached, writes>>
          /\ opens < MaxOpens /\ opens' = opens + 1
      BY <1>5 DEF Stop, Down, device, outside
    <2>2. Typed'
      BY <1>a, <2>1, NothingType DEF Typed
    <2>3. Readable' /\ Limits' /\ InProgress' /\ InUse'
      BY <1>a, <2>1 DEF Readable, Limits, InProgress, InUse, NoHeader, Typed
    <2> QED BY <1>a, <1>b, <2>1, <2>2, <2>3
  <1>6. CASE PowerFailure
    <2>1. /\ pc' = "idle" /\ pending' = NoHeader /\ active' = -1 /\ next_gen' = 1
          /\ last_covered' = 0 /\ mode' = "down"
          /\ UNCHANGED <<seq, flushed, reclaimed, cached, writes>>
          /\ opens < MaxOpens /\ opens' = opens + 1
      BY <1>6 DEF PowerFailure, Down, outside
    <2>2. PICK h0 \in header_maybe[0], h1 \in header_maybe[1],
               d0 \in data_maybe[0], d1 \in data_maybe[1] :
            /\ header' = [s \in Slots |-> IF s = 0 THEN h0 ELSE h1]
            /\ data' = [s \in Slots |-> IF s = 0 THEN d0 ELSE d1]
      BY <1>6 DEF PowerFailure
    <2>3. /\ header_maybe' = [s \in Slots |-> {header'[s]}]
          /\ data_maybe' = [s \in Slots |-> {data'[s]}]
      BY <1>6 DEF PowerFailure
    <2>4. Typed'
      BY <1>a, <2>1, <2>2, <2>3, NothingType DEF Typed
    <2>5. Readable' /\ InProgress' /\ InUse'
      BY <2>1, <2>2, <2>3 DEF Readable, InProgress, InUse
    <2>6. Limits'
      BY <1>a, <2>1, <2>2, <2>3 DEF Limits, NoHeader, Typed
    <2> QED BY <1>a, <1>b, <2>1, <2>4, <2>5, <2>6
  <1>7. CASE Open
    <2>1. /\ mode = "down" /\ mode' = "up" /\ ~ Refused
          /\ UNCHANGED <<header, header_maybe, data, data_maybe, pc, pending, flushed, writes, opens>>
          /\ seq' \in flushed .. seq
          /\ reclaimed' = IF last_covered' > reclaimed THEN last_covered' ELSE reclaimed
      BY <1>7 DEF Open, Resume, device, writing, bounds
    <2>2. pc = "idle"
      BY <1>a, <2>1 DEF InProgress
    <2>3. CASE NeverTaken
      <3>1. active' = -1 /\ next_gen' = 1 /\ last_covered' = 0 /\ cached' = cached
        BY <1>7, <2>3, Zenon DEF Open
      <3>2. Typed'
        BY <1>a, <2>1, <3>1 DEF Typed
      <3>3. Readable' /\ Limits' /\ InProgress' /\ InUse'
        BY <1>a, <2>1, <2>2, <3>1 DEF Readable, Limits, InProgress, InUse, Typed
      <3> QED BY <1>a, <1>b, <3>1, <3>2, <3>3
    <2>4. CASE ~ NeverTaken
      <3>1. /\ active' = Chosen /\ next_gen' = header[Candidate].gen + 1
            /\ last_covered' = header[Chosen].covered
        BY <1>7, <2>4, Zenon DEF Open, NextGeneration
      <3>2. cached' \in BOOLEAN
        BY <1>7, <2>4, Zenon DEF Open
      <3>3. Chosen # -1
        BY <2>1, <2>4 DEF Refused
      <3>4. header \in [Slots -> Headers]
        BY <1>a DEF Typed
      <3>5. Candidate \in Slots /\ header[Candidate].gen <= writes /\ header[Candidate].gen \in Nat
        BY <1>a, <2>4, <3>4, CandidateFact DEF Readable, Limits, Headers
      <3>6. Chosen \in Slots /\ HeaderOk(Chosen) /\ VerifySlotData(Chosen)
        BY <2>4, <3>3, <3>4, ChosenFact
      <3>7. Typed'
        BY <1>a, <2>1, <3>1, <3>4, <3>5, <3>6 DEF Typed, Headers
      <3>8. Readable' /\ Limits' /\ InProgress'
        BY <1>a, <2>1, <2>2, <3>1, <3>5 DEF Readable, Limits, InProgress, Typed
      <3>9. InUse'
        BY <2>1, <3>1, <3>6 DEF InUse, VerifySlotData, HeaderOk
      <3> QED BY <1>b, <3>2, <3>7, <3>8, <3>9
    <2> QED BY <2>3, <2>4
  <1>8. CASE Refuse
    <2>1. mode = "down" /\ mode' = "refused"
          /\ UNCHANGED <<device, memory, writing, outside, bounds>>
      BY <1>8 DEF Refuse
    <2>2. Typed' /\ cached' \in BOOLEAN
      BY <1>a, <2>1, Zenon DEF Typed, device, memory, writing, outside, bounds
    <2>3. Readable' /\ Limits' /\ InUse'
      BY <1>a, <2>1 DEF Readable, Limits, InUse, device, memory, writing, outside, bounds
    <2>4. InProgress'
      BY <1>a, <2>1 DEF InProgress, writing
    <2> QED BY <1>b, <2>2, <2>3, <2>4
  <1>9. CASE UNCHANGED vars
    <2>1. UNCHANGED <<device, memory, writing, outside, bounds>> /\ mode' = mode
      BY <1>9 DEF vars
    <2>2. Typed' /\ cached' \in BOOLEAN /\ Readable' /\ Limits' /\ InProgress' /\ InUse'
      BY <1>a, <2>1, Zenon
      DEF Typed, Readable, Limits, InProgress, InUse, VerifySlotData, Target,
          device, memory, writing, outside, bounds
    <2> QED BY <1>b, <2>2
  <1> QED
    BY <1>1, <1>2, <1>3, <1>4, <1>5, <1>6, <1>7, <1>8, <1>9, Zenon DEF Next, Done

---------------------------------------------------------------------------
(* A complete snapshot on the platter.                                     *)

\* With a durable snapshot a and no trust in the cache so far, Open finds no collision and
\* does not refuse the device: it chooses a or, only if it is newer, the other slot.
LEMMA AnchorOpens ==
    ASSUME Basic, NEW a \in Slots, Anchor(a)
    PROVE  /\ ~ NeverTaken /\ ~ Collision /\ Chosen \in Slots /\ ~ Refused
           /\ Chosen # a => header[Chosen].gen > header[a].gen
           /\ header[Candidate].gen >= header[a].gen
           /\ header[Candidate].gen >= header[Chosen].gen
  <1> USE DEF Slots
  <1>1. /\ header \in [Slots -> Headers] /\ HeaderOk(a) /\ VerifySlotData(a)
        /\ header[1 - a] \in header_maybe[1 - a] /\ 1 - a \in Slots
    BY DEF Basic, TypeOK, Readable, Anchor, HeaderOk
  <1>2. header[1 - a].gen # header[a].gen
    BY <1>1 DEF Anchor
  <1>3. ~ NeverTaken /\ ~ Collision
    BY <1>1, <1>2 DEF NeverTaken, Collision
  <1>4. /\ Candidate \in Slots /\ HeaderOk(Candidate)
        /\ \A x \in Slots : HeaderOk(x) => header[x].gen <= header[Candidate].gen
    BY <1>1, <1>3, CandidateFact
  <1>5. header[a].gen \in Nat /\ header[1 - a].gen \in Nat
    BY <1>1 DEF Headers
  <1>6. Chosen \in Slots /\ HeaderOk(Chosen) /\ (Chosen # a => Chosen = Candidate)
    BY <1>1, <1>4 DEF Chosen
  <1>7. Chosen # a => header[Chosen].gen > header[a].gen
    BY <1>1, <1>2, <1>4, <1>5, <1>6
  <1>8. ~ Refused
    BY <1>3, <1>6 DEF Refused
  <1> QED BY <1>1, <1>3, <1>4, <1>6, <1>7, <1>8

\* Writes, restarts and power failures keep a complete snapshot on the platter that the
\* next Open will find, until an Open puts its trust in the cache.
LEMMA AnchoredStep == Basic /\ Basic' /\ Anchored /\ [Next]_vars => Anchored'
  <1> SUFFICES ASSUME Basic, Basic', Anchored, [Next]_vars PROVE Anchored'
    OBVIOUS
  <1> USE DEF Slots
  <1>a. Typed /\ Readable /\ Limits /\ InProgress
    BY DEF Basic, TypeOK, Typed
  <1>b. Typed' /\ Readable'
    BY DEF Basic, TypeOK, Typed
  <1>c. active \in {-1, 0, 1}
    BY <1>a DEF Typed
  <1>d. cached => cached'
    BY Zenon DEF Next, Grow, WriteRecords, WriteHeader, SyncSlot, Stop, PowerFailure, Down,
                 Open, Refuse, Done, vars, outside
  <1>e. SUFFICES ASSUME ~ cached, ~ cached', Virgin \/ \E a \in Slots : Anchor(a)
                 PROVE  Virgin' \/ \E a \in Slots : Anchor(a)'
    BY <1>d, Zenon DEF Anchored
  <1>1. CASE /\ UNCHANGED <<header, header_maybe, data, data_maybe, active, next_gen, reclaimed>>
             /\ mode' = mode
    BY <1>e, <1>1 DEF Virgin, Anchor, Durable, VerifySlotData
  <1>2. CASE /\ UNCHANGED <<header, header_maybe, data, data_maybe, reclaimed>>
             /\ mode' # "up"
    BY <1>e, <1>2 DEF Virgin, Anchor, Durable, VerifySlotData
  <1>3. CASE WriteRecords
    <2>1. /\ mode = "up" /\ mode' = mode
          /\ UNCHANGED <<header, header_maybe, active, next_gen, reclaimed>>
      BY <1>3 DEF WriteRecords, memory
    <2>2. \A s \in Slots : s # Target => data'[s] = data[s] /\ data_maybe'[s] = data_maybe[s]
      <3>1. \/ UNCHANGED <<data, data_maybe>>
            \/ \E f, g : /\ data' = [data EXCEPT ![Target] = f]
                         /\ data_maybe' = [data_maybe EXCEPT ![Target] = g]
        BY <1>3, Zenon DEF WriteRecords
      <3> QED BY <1>a, <3>1 DEF Typed
    <2>3. CASE Virgin
      BY <2>1, <2>3 DEF Virgin
    <2>4. ASSUME NEW a \in Slots, Anchor(a) PROVE Anchor(a)'
      <3>1. Target # a
        BY <1>c, <2>1, <2>4, TargetFact DEF Anchor
      <3> QED BY <2>1, <2>2, <2>4, <3>1 DEF Anchor, Durable, VerifySlotData
    <2> QED BY <1>e, <2>3, <2>4
  <1>4. CASE WriteHeader
    <2>1. /\ mode = "up" /\ mode' = mode /\ pc = "header"
          /\ UNCHANGED <<data, data_maybe, active, next_gen, reclaimed>>
          /\ header_maybe' = [header_maybe EXCEPT ![Target] = @ \cup {NoHeader, pending}]
          /\ \E f : header' = [header EXCEPT ![Target] = f]
      BY <1>4, Zenon DEF WriteHeader, memory, outside
    <2>2. Target \in Slots /\ pending.gen = next_gen /\ pending.covered = flushed
      BY <1>a, <1>c, <2>1, TargetFact DEF InProgress
    <2>3. /\ \A s \in Slots : s # Target => header'[s] = header[s] /\ header_maybe'[s] = header_maybe[s]
          /\ header_maybe'[Target] = header_maybe[Target] \cup {NoHeader, pending}
      BY <1>a, <2>1, <2>2 DEF Typed
    <2>4. CASE Virgin
      <3>1. Target = 0
        BY <2>1, <2>4 DEF Virgin, Target
      <3> QED BY <2>1, <2>3, <2>4, <3>1 DEF Virgin
    <2>5. ASSUME NEW a \in Slots, Anchor(a) PROVE Anchor(a)'
      <3>1. Target = 1 - a /\ Target # a
        BY <1>c, <2>1, <2>5, TargetFact DEF Anchor
      <3>2. /\ header[a] \in Headers /\ pending \in Headers /\ header[a].covered <= flushed
            /\ header[a].gen < next_gen /\ header[a].gen # 0
        BY <1>a, <2>1, <2>5 DEF Typed, Readable, Limits, Anchor
      <3>3. ASSUME NEW h \in header_maybe'[1 - a]
            PROVE  h.gen # header[a].gen /\ (h.gen > header[a].gen => h.covered >= header[a].covered)
        <4>1. CASE h \in header_maybe[1 - a]
          BY <2>5, <4>1 DEF Anchor
        <4>2. CASE h = NoHeader
          BY <3>2, <4>2 DEF NoHeader, Headers
        <4>3. CASE h = pending
          BY <2>2, <3>2, <4>3 DEF Headers
        <4> QED BY <2>3, <3>1, <3>3, <4>1, <4>2, <4>3
      <3> QED BY <2>1, <2>3, <2>5, <3>1, <3>3 DEF Anchor, Durable, VerifySlotData
    <2> QED BY <1>e, <2>4, <2>5
  <1>5. CASE SyncSlot
    <2>1. /\ mode = "up" /\ pc = "sync"
          /\ UNCHANGED <<header, data, mode>>
      BY <1>5 DEF SyncSlot
    <2>2. CASE UNCHANGED <<header_maybe, data_maybe, memory, reclaimed>>
      BY <1>1, <2>1, <2>2 DEF memory
    <2>3. CASE /\ Flushed /\ active' = Target
               /\ next_gen' = next_gen + 1 /\ reclaimed' = pending.covered
      <3>1. /\ Target \in Slots /\ header[Target] = pending /\ pending.gen = next_gen
            /\ pending.image \in {Empty, data[Target]}
        BY <1>a, <1>c, <2>1, TargetFact DEF InProgress
      <3>2. next_gen \in Nat \ {0} /\ pending.covered \in Nat
        BY <1>a DEF Typed, Headers
      <3>3. header[1 - Target].gen < next_gen /\ 1 - Target \in Slots
        <4>1. CASE Virgin
          <5>1. Target = 0 /\ header[1] = NoHeader
            BY <1>a, <2>1, <4>1 DEF Virgin, Target, Readable
          <5> QED BY <3>2, <5>1 DEF NoHeader
        <4>2. ASSUME NEW a \in Slots, Anchor(a)
              PROVE  header[1 - Target].gen < next_gen /\ 1 - Target \in Slots
          <5>1. Target = 1 - a
            BY <1>c, <2>1, <4>2, TargetFact DEF Anchor
          <5>2. 1 - Target = a
            BY <5>1
          <5> QED BY <2>1, <4>2, <5>2 DEF Anchor
        <4> QED BY <1>e, <4>1, <4>2
      <3>4. \A h \in header_maybe'[1 - Target] : h = header[1 - Target]
        BY <2>3, <3>3 DEF Flushed
      <3>5. PICK t \in Slots : t = Target
        BY <3>1
      <3>6. header_maybe'[t] = {header[t]} /\ data_maybe'[t] = {data[t]} /\ active' = t
        BY <2>3, <3>5 DEF Flushed
      <3>7. Anchor(t)'
        BY <2>1, <2>3, <3>1, <3>2, <3>3, <3>4, <3>5, <3>6, <1>a
        DEF Anchor, Durable, VerifySlotData, Typed, Headers
      <3> QED BY <3>7
    <2> QED BY <1>5, <2>2, <2>3, Zenon DEF SyncSlot
  <1>6. CASE PowerFailure
    <2>1. mode' = "down" /\ reclaimed' = reclaimed
      BY <1>6 DEF PowerFailure, Down, outside
    <2>2. PICK h0 \in header_maybe[0], h1 \in header_maybe[1],
               d0 \in data_maybe[0], d1 \in data_maybe[1] :
            /\ header' = [s \in Slots |-> IF s = 0 THEN h0 ELSE h1]
            /\ data' = [s \in Slots |-> IF s = 0 THEN d0 ELSE d1]
      BY <1>6 DEF PowerFailure
    <2>3. /\ header_maybe' = [s \in Slots |-> {header'[s]}]
          /\ data_maybe' = [s \in Slots |-> {data'[s]}]
      BY <1>6 DEF PowerFailure
    <2>4. CASE Virgin
      BY <2>1, <2>2, <2>3, <2>4 DEF Virgin
    <2>5. ASSUME NEW a \in Slots, Anchor(a) PROVE Anchor(a)'
      <3>1. header'[a] = header[a] /\ data'[a] = data[a]
        BY <2>2, <2>5 DEF Anchor, Durable
      <3>2. header_maybe'[1 - a] \subseteq header_maybe[1 - a]
        BY <2>2, <2>3
      <3> QED BY <2>1, <2>3, <2>5, <3>1, <3>2 DEF Anchor, Durable, VerifySlotData
    <2> QED BY <1>e, <2>4, <2>5
  <1>7. CASE Open
    <2>1. /\ mode = "down" /\ mode' = "up" /\ ~ Refused
          /\ UNCHANGED <<header, header_maybe, data, data_maybe>>
          /\ reclaimed' = IF last_covered' > reclaimed THEN last_covered' ELSE reclaimed
      BY <1>7 DEF Open, device
    <2>2. CASE NeverTaken
      <3>1. active' = -1 /\ last_covered' = 0
        BY <1>7, <2>2, Zenon DEF Open
      <3>2. Virgin
        BY <1>e, <2>2, AnchorOpens
      <3> QED BY <2>1, <3>1, <3>2 DEF Virgin
    <2>3. CASE ~ NeverTaken
      <3>1. /\ active' = Chosen /\ next_gen' = header[Candidate].gen + 1
            /\ last_covered' = header[Chosen].covered
        BY <1>7, <2>3, Zenon DEF Open, NextGeneration
      <3>2. header_maybe[Chosen] = {header[Chosen]} /\ data_maybe[Chosen] = {data[Chosen]}
        BY <1>7, <1>e, <2>3, Zenon DEF Open
      <3>3. /\ Chosen \in Slots /\ HeaderOk(Chosen) /\ VerifySlotData(Chosen)
            /\ header \in [Slots -> Headers]
        BY <1>a, <2>1, <2>3, ChosenFact DEF Typed, Refused
      <3>4. /\ header[Candidate].gen >= header[Chosen].gen
            /\ header[Candidate].gen \in Nat /\ header[Chosen].gen \in Nat
            /\ header[Chosen].covered \in Nat /\ reclaimed \in Nat
        BY <1>a, <2>3, <3>3, CandidateFact DEF Typed, Headers
      <3>5. header_maybe[1 - Chosen] \subseteq Headers /\ 1 - Chosen \in Slots
        BY <1>a, <3>3 DEF Typed
      <3>6. reclaimed <= header[Chosen].covered
            /\ \A h \in header_maybe[1 - Chosen] :
                  /\ h.gen # header[Chosen].gen
                  /\ h.gen > header[Chosen].gen => h.covered >= header[Chosen].covered
        <4>1. CASE Virgin
          <5>1. header[1] = NoHeader
            BY <1>a, <4>1 DEF Virgin, Readable
          <5>2. Chosen = 0 /\ 1 - Chosen = 1
            BY <3>3, <5>1 DEF HeaderOk, NoHeader
          <5>3. \A h \in header_maybe[1 - Chosen] : h = NoHeader
            BY <4>1, <5>2 DEF Virgin
          <5>4. NoHeader.gen = 0 /\ header[Chosen].gen # 0 /\ reclaimed = 0
            BY <3>3, <4>1 DEF NoHeader, HeaderOk, Virgin
          <5> QED BY <3>4, <5>3, <5>4
        <4>2. ASSUME NEW a \in Slots, Anchor(a)
              PROVE  reclaimed <= header[Chosen].covered
                     /\ \A h \in header_maybe[1 - Chosen] :
                           /\ h.gen # header[Chosen].gen
                           /\ h.gen > header[Chosen].gen => h.covered >= header[Chosen].covered
          <5>1. CASE Chosen = a
            BY <4>2, <5>1 DEF Anchor
          <5>2. CASE Chosen # a
            <6>1. Chosen = 1 - a /\ 1 - Chosen = a
              BY <3>3, <5>2
            <6>2. header[Chosen].gen > header[a].gen
              BY <4>2, <5>2, AnchorOpens
            <6>3. /\ header[Chosen] \in header_maybe[1 - a]
                  /\ header[a].gen \in Nat /\ header[a].covered \in Nat
              BY <1>a, <3>2, <6>1 DEF Typed, Headers
            <6>4. header[Chosen].covered >= header[a].covered
              BY <4>2, <6>2, <6>3 DEF Anchor
            <6>5. \A h \in header_maybe[1 - Chosen] : h = header[a]
              BY <4>2, <6>1 DEF Anchor, Durable
            <6>6. reclaimed <= header[a].covered
              BY <4>2 DEF Anchor
            <6> QED BY <3>4, <6>2, <6>3, <6>4, <6>5, <6>6
          <5> QED BY <5>1, <5>2
        <4> QED BY <1>e, <4>1, <4>2
      <3>7. reclaimed' <= header[Chosen].covered
        BY <2>1, <3>1, <3>4, <3>6
      <3>8. header[Chosen].gen < next_gen'
        BY <3>1, <3>4
      <3>9. PICK c \in Slots : c = Chosen
        BY <3>3
      <3>10. Anchor(c)'
        BY <2>1, <3>1, <3>2, <3>3, <3>6, <3>7, <3>8, <3>9
        DEF Anchor, Durable, VerifySlotData, HeaderOk
      <3> QED BY <3>10
    <2> QED BY <2>2, <2>3
  <1>8. CASE Stop \/ Refuse
    BY <1>2, <1>8 DEF Stop, Down, Refuse, device, outside
  <1>9. CASE Grow \/ UNCHANGED vars
    BY <1>1, <1>9 DEF Grow, vars, device, memory, outside
  <1> QED
    BY <1>3, <1>4, <1>5, <1>6, <1>7, <1>8, <1>9, Zenon DEF Next, Done

---------------------------------------------------------------------------
(* Generations.                                                            *)

\* Without faults no header of an older Write outlives a newer one in its slot.
LEMMA NewestStep == Basic /\ Newest /\ [Next]_vars => Newest'
  <1> SUFFICES ASSUME Basic, Latest, Apart, Ahead, ~ Faults, [Next]_vars
               PROVE  Latest' /\ Apart' /\ Ahead'
    BY DEF Newest
  <1> USE DEF Slots
  <1>a. Typed /\ Readable /\ InProgress
    BY DEF Basic, TypeOK, Typed
  <1>c. active \in {-1, 0, 1}
    BY <1>a DEF Typed
  <1>1. CASE UNCHANGED <<header, header_maybe, next_gen, pc>> /\ mode' = mode
    BY <1>1 DEF Latest, Apart, Ahead
  <1>2. CASE UNCHANGED <<header, header_maybe>> /\ mode' # "up"
    BY <1>2 DEF Latest, Apart, Ahead
  <1>3. CASE WriteRecords
    <2>1. UNCHANGED <<header, header_maybe, next_gen>> /\ mode' = mode /\ pc = "idle"
      BY <1>3 DEF WriteRecords, memory
    <2> QED BY <2>1 DEF Latest, Apart, Ahead
  <1>4. CASE WriteHeader
    <2>1. /\ mode = "up" /\ mode' = mode /\ pc = "header" /\ next_gen' = next_gen
          /\ header_maybe' = [header_maybe EXCEPT ![Target] = @ \cup {NoHeader, pending}]
      BY <1>4 DEF WriteHeader, memory
    <2>2. header' = [header EXCEPT ![Target] = pending] /\ pc' = "sync"
      BY <1>4, Zenon DEF WriteHeader, Outcomes
    <2>3. /\ Target \in Slots /\ pending.gen = next_gen /\ next_gen \in Nat \ {0}
          /\ NoHeader.gen = 0
      BY <1>a, <1>c, <2>1, TargetFact DEF InProgress, Typed, NoHeader
    <2>4. \A s \in Slots : s # Target => header'[s] = header[s] /\ header_maybe'[s] = header_maybe[s]
      BY <1>a, <2>1, <2>2, <2>3 DEF Typed
    <2>5. /\ header'[Target] = pending
          /\ header_maybe'[Target] = header_maybe[Target] \cup {NoHeader, pending}
      BY <1>a, <2>1, <2>2, <2>3 DEF Typed
    <2>6. \A s \in Slots : \A h \in header_maybe[s] : h.gen < next_gen /\ h.gen \in Nat
      BY <1>a, <2>1 DEF Ahead, Typed, Headers
    <2>7. Latest'
      BY <2>3, <2>4, <2>5, <2>6 DEF Latest
    <2>8. Ahead'
      BY <2>1, <2>2, <2>3, <2>4, <2>5, <2>6 DEF Ahead
    <2>9. Apart'
      BY <2>3, <2>4, <2>5, <2>6 DEF Apart
    <2> QED BY <2>7, <2>8, <2>9
  <1>5. CASE SyncSlot
    <2>1. /\ mode = "up" /\ mode' = mode /\ header' = header /\ next_gen' = next_gen + 1
          /\ header_maybe' = [s \in Slots |-> {header[s]}]
      BY <1>5, Zenon DEF SyncSlot, Outcomes, Flushed
    <2>2. next_gen \in Nat /\ \A s \in Slots : header[s].gen \in Nat /\ header[s].gen <= next_gen
      BY <1>a, <2>1 DEF Typed, Headers, Readable, Ahead
    <2> QED BY <1>a, <2>1, <2>2 DEF Latest, Apart, Ahead, Readable
  <1>6. CASE PowerFailure
    <2>1. mode' = "down"
      BY <1>6 DEF PowerFailure, Down
    <2>2. PICK h0 \in header_maybe[0], h1 \in header_maybe[1] :
            header' = [s \in Slots |-> IF s = 0 THEN h0 ELSE h1]
      BY <1>6 DEF PowerFailure
    <2>3. header_maybe' = [s \in Slots |-> {header'[s]}]
      BY <1>6 DEF PowerFailure
    <2>4. h0.gen \in Nat /\ h1.gen \in Nat
      BY <1>a DEF Typed, Headers
    <2> QED BY <2>1, <2>2, <2>3, <2>4 DEF Latest, Apart, Ahead
  <1>7. CASE Open
    <2>1. UNCHANGED <<header, header_maybe>> /\ pc' = pc
      BY <1>7 DEF Open, device, writing
    <2>2. Latest' /\ Apart'
      BY <2>1 DEF Latest, Apart
    <2>3. \A s \in Slots : \A h \in header_maybe[s] :
             h.gen \in Nat /\ header[s].gen \in Nat /\ h.gen <= header[s].gen
      BY <1>a DEF Typed, Headers, Latest
    <2>4. CASE NeverTaken
      <3>1. next_gen' = 1
        BY <1>7, <2>4, Zenon DEF Open
      <3> QED BY <2>1, <2>2, <2>3, <2>4, <3>1 DEF Ahead, NeverTaken, HeaderOk
    <2>5. CASE ~ NeverTaken
      <3>1. next_gen' = header[Candidate].gen + 1
        BY <1>7, <2>5, Zenon DEF Open, NextGeneration
      <3>2. Candidate \in Slots /\ \A x \in Slots : header[x].gen <= header[Candidate].gen
        BY <1>a, <2>5, CandidateFact DEF Typed, HeaderOk, Headers
      <3>3. header[Candidate].gen \in Nat
        BY <1>a, <3>2 DEF Typed, Headers
      <3> QED BY <2>1, <2>2, <2>3, <3>1, <3>2, <3>3 DEF Ahead
    <2> QED BY <2>4, <2>5
  <1>8. CASE Stop \/ Refuse
    BY <1>2, <1>8 DEF Stop, Down, Refuse, device
  <1>9. CASE Grow \/ UNCHANGED vars
    BY <1>1, <1>9 DEF Grow, vars, device, memory, writing
  <1> QED
    BY <1>3, <1>4, <1>5, <1>6, <1>7, <1>8, <1>9, Zenon DEF Next, Done

---------------------------------------------------------------------------
(* The theorems.                                                           *)

\* Open refuses the device only while no Write has succeeded.
LEMMA RefusesStep ==
    Basic /\ Anchored /\ RefusesOnlyFirst /\ [Next]_vars => RefusesOnlyFirst'
  <1> SUFFICES ASSUME Basic, Anchored, RefusesOnlyFirst, [Next]_vars, mode' = "refused", ~ cached'
               PROVE  reclaimed' = 0
    BY DEF RefusesOnlyFirst
  <1>1. CASE Refuse
    <2>1. Refused /\ reclaimed' = reclaimed /\ cached' = cached
      BY <1>1 DEF Refuse, outside
    <2>2. Virgin
      BY <2>1, AnchorOpens DEF Anchored
    <2> QED BY <2>1, <2>2 DEF Virgin
  <1>2. CASE UNCHANGED vars
    BY <1>2 DEF vars, outside, RefusesOnlyFirst
  <1> QED
    BY <1>1, <1>2 DEF Next, Grow, WriteRecords, WriteHeader, SyncSlot, Stop, PowerFailure, Down,
                      Open, Done

\* The inductive invariant holds throughout.
LEMMA Invariance == Spec => []IInv
  <1>1. IInv /\ [Next]_vars => IInv'
    <2> SUFFICES ASSUME IInv, [Next]_vars PROVE IInv'
      OBVIOUS
    <2>1. Basic'
      BY BasicStep DEF IInv
    <2> QED BY <2>1, AnchoredStep, NewestStep, RefusesStep DEF IInv
  <1> QED BY <1>1, InitIInv, PTL DEF Spec

\* The slot in use stays complete while the other one is being written, through failed
\* Writes and restarts: its header and its records match (Write, Open).
THEOREM ActiveIntactHolds == Spec => []ActiveIntact
  <1>1. IInv => ActiveIntact
    BY DEF IInv, Basic, InUse, VerifySlotData, ActiveIntact
  <1> QED BY <1>1, Invariance, PTL

\* What DoSnapshot has reclaimed of the log is covered by the snapshot every later Open
\* chooses, as long as none has trusted the cache.
THEOREM CoverageKeptHolds == Spec => []CoverageKept
  <1>1. IInv => CoverageKept
    <2> SUFFICES ASSUME IInv, mode = "up", ~ cached PROVE last_covered >= reclaimed
      BY DEF CoverageKept
    <2>1. Typed
      BY DEF IInv, Basic, TypeOK, Typed
    <2>2. CASE Virgin
      BY <2>1, <2>2 DEF Virgin, Typed
    <2>3. ASSUME NEW a \in Slots, Anchor(a) PROVE last_covered >= reclaimed
      <3>1. active = a /\ reclaimed <= header[a].covered /\ a # -1
        BY <2>3 DEF Anchor, Slots
      <3>2. last_covered = header[a].covered
        BY <3>1 DEF IInv, Basic, InUse
      <3> QED BY <2>1, <3>1, <3>2 DEF Typed
    <2> QED BY <2>2, <2>3 DEF IInv, Anchored
  <1> QED BY <1>1, Invariance, PTL

\* The evidence Open calls contradictory, two valid headers of one generation, takes a
\* failed transfer and an Open that trusted the cache.
THEOREM GenerationsDifferHolds == Spec => []GenerationsDiffer
  <1>1. IInv => GenerationsDiffer
    <2> SUFFICES ASSUME IInv, Collision PROVE Faults /\ cached
      BY DEF GenerationsDiffer
    <2>1. Readable
      BY DEF IInv, Basic
    <2>2. Faults
      BY <2>1 DEF IInv, Newest, Apart, Collision, HeaderOk, Readable, Slots
    <2>3. ~ Virgin
      BY <2>1 DEF Collision, HeaderOk, Virgin, NoHeader, Readable, Slots
    <2>4. \A a \in Slots : ~ Anchor(a)
      BY AnchorOpens DEF IInv
    <2> QED BY <2>2, <2>3, <2>4 DEF IInv, Anchored
  <1> QED BY <1>1, Invariance, PTL

\* Once a Write has succeeded, no crash and no failed Write makes Open refuse the device,
\* as long as no Open has trusted the cache.
THEOREM RefusesOnlyFirstHolds == Spec => []RefusesOnlyFirst
  <1>1. IInv => RefusesOnlyFirst
    BY DEF IInv
  <1> QED BY <1>1, Invariance, PTL

==============================================================================
