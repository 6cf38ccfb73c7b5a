----------------------------- MODULE SnapshotSlots -----------------------------
(***************************************************************************)
(* The two snapshot slots of one device (snapshot/snapshot.cpp): Write     *)
(* fills the inactive slot, records first, header last, then one           *)
(* fdatasync; Open chooses between the slots after a restart.              *)
(*                                                                         *)
(* The records of a slot are an image: the number of the Write that        *)
(* produced them, or Mixed when they stem from several.  A header carries  *)
(* the image its data_crc was computed over.  Each area has the content a  *)
(* read returns and the set of contents the platter may hold: they differ  *)
(* between a WriteAt and the next fdatasync.  The log behind the snapshots *)
(* is reduced to seq, its last number, and reclaimed, the number up to     *)
(* which its frames may have been overwritten.                             *)
(***************************************************************************)
EXTENDS Integers, FiniteSets

CONSTANTS
    Faults,     \* may WriteAt and Sync fail?
    MaxSeq,     \* bound: sequence numbers
    MaxWrites,  \* bound: calls of Write
    MaxOpens    \* bound: restarts

ASSUME FaultsAssumption == Faults \in BOOLEAN
ASSUME BoundsAssumption == MaxSeq \in Nat /\ MaxWrites \in Nat /\ MaxOpens \in Nat

VARIABLES
    header,        \* per slot: what a read of the header returns
    header_maybe,  \* per slot: what the platter may hold of it
    data,          \* per slot: what a read of the records returns
    data_maybe,    \* per slot: what the platter may hold of them
    active,        \* active_slot_
    next_gen,      \* next_gen_
    last_covered,  \* last_covered_seq_
    pc,            \* progress of Write
    pending,       \* header under construction
    mode,          \* "up", "down" or "refused"
    seq,           \* last sequence number of the log
    flushed,       \* ghost: sequence number the log is durable up to
    reclaimed,     \* ghost: frames up to here may be gone from the log
    cached,        \* ghost: Open has chosen a slot that was not durable
    writes, opens  \* bounds' counters

device  == <<header, header_maybe, data, data_maybe>>
memory  == <<active, next_gen, last_covered>>
writing == <<pc, pending>>
outside == <<seq, flushed, reclaimed, cached>>
bounds  == <<writes, opens>>
vars    == <<device, memory, writing, mode, outside, bounds>>

Slots == {0, 1}
Mixed == 0
Empty == -1        \* a snapshot without records: no data to verify
Images == {Empty, Mixed} \cup 1 .. MaxWrites
Headers == [gen : 0 .. MaxWrites + 1, covered : 0 .. MaxSeq, image : Images]
NoHeader == [gen |-> 0, covered |-> 0, image |-> Mixed]

\* Open with create clears both headers and synchronises.
Init ==
    /\ header = [s \in Slots |-> NoHeader]
    /\ header_maybe = [s \in Slots |-> {NoHeader}]
    /\ data = [s \in Slots |-> Mixed]
    /\ data_maybe = [s \in Slots |-> {Mixed}]
    /\ active = -1 /\ next_gen = 1 /\ last_covered = 0
    /\ pc = "idle" /\ pending = NoHeader
    /\ mode = "up"
    /\ seq = 0 /\ flushed = 0 /\ reclaimed = 0 /\ cached = FALSE
    /\ writes = 0 /\ opens = 0

---------------------------------------------------------------------------
(* Write.                                                                  *)

Outcomes == IF Faults THEN BOOLEAN ELSE {TRUE}

\* Takes turns without regard to the slot Open has chosen.
Target_Alternates == next_gen % 2

\* The inactive slot; A when there is none.
Target == IF active = 0 THEN 1 ELSE 0

\* The log grows.
Grow ==
    /\ mode = "up" /\ pc = "idle"
    /\ seq < MaxSeq
    /\ seq' = seq + 1
    /\ UNCHANGED <<device, memory, writing, mode, flushed, reclaimed, cached, bounds>>

\* DoSnapshot has flushed the log.  The records of the index are written; a failure
\* leaves any part of them.
WriteRecords ==
    /\ mode = "up" /\ pc = "idle"
    /\ writes < MaxWrites /\ writes' = writes + 1
    /\ \E image \in {Empty, writes + 1}, ok \in Outcomes :
         /\ IF image = Empty
            THEN UNCHANGED <<data, data_maybe>>
            ELSE /\ \E found \in IF ok THEN {image} ELSE {data[Target], Mixed, image} :
                        data' = [data EXCEPT ![Target] = found]
                 /\ data_maybe' = [data_maybe EXCEPT ![Target] = @ \cup {Mixed, image}]
         /\ IF ok THEN /\ pc' = "header"
                       /\ pending' = [gen |-> next_gen, covered |-> seq, image |-> image]
                  ELSE UNCHANGED writing
    /\ flushed' = seq
    /\ UNCHANGED <<header, header_maybe, memory, mode, seq, reclaimed, cached, opens>>

\* The header, with the checksum of the records, replaces the slot's old one.
WriteHeader ==
    /\ mode = "up" /\ pc = "header"
    /\ \E ok \in Outcomes :
         /\ \E found \in IF ok THEN {pending} ELSE {header[Target], NoHeader, pending} :
                header' = [header EXCEPT ![Target] = found]
         /\ pc' = IF ok THEN "sync" ELSE "idle"
    /\ header_maybe' = [header_maybe EXCEPT ![Target] = @ \cup {NoHeader, pending}]
    /\ UNCHANGED <<data, data_maybe, memory, pending, mode, outside, bounds>>

Flushed ==
    /\ header_maybe' = [s \in Slots |-> {header[s]}]
    /\ data_maybe' = [s \in Slots |-> {data[s]}]

\* Reports success without waiting for the device.
SyncSlot_NoSync ==
    /\ mode = "up" /\ pc = "sync"
    /\ active' = Target /\ last_covered' = pending.covered /\ next_gen' = next_gen + 1
    /\ reclaimed' = pending.covered
    /\ pc' = "idle"
    /\ UNCHANGED <<device, pending, mode, seq, flushed, cached, bounds>>

\* Keeps the generation for the next snapshot.
SyncSlot_SameGeneration ==
    /\ mode = "up" /\ pc = "sync"
    /\ Flushed
    /\ active' = Target /\ last_covered' = pending.covered
    /\ reclaimed' = pending.covered
    /\ pc' = "idle"
    /\ UNCHANGED <<header, data, next_gen, pending, mode, seq, flushed, cached, bounds>>

\* The fdatasync that makes the slot the active one; DoSnapshot then reclaims the
\* log.  After a failure the next Write tries the same slot and generation.
SyncSlot ==
    /\ mode = "up" /\ pc = "sync"
    /\ \E ok \in Outcomes :
         IF ok THEN /\ Flushed
                    /\ active' = Target
                    /\ last_covered' = pending.covered
                    /\ next_gen' = next_gen + 1
                    /\ reclaimed' = pending.covered
               ELSE UNCHANGED <<header_maybe, data_maybe, memory, reclaimed>>
    /\ pc' = "idle"
    /\ UNCHANGED <<header, data, pending, mode, seq, flushed, cached, bounds>>

---------------------------------------------------------------------------
(* Restarts.                                                               *)

Down ==
    /\ opens < MaxOpens /\ opens' = opens + 1
    /\ pc' = "idle" /\ pending' = NoHeader
    /\ active' = -1 /\ next_gen' = 1 /\ last_covered' = 0
    /\ mode' = "down"
    /\ UNCHANGED <<outside, writes>>

\* Close, or the death of the process: the device's cache survives.
Stop ==
    /\ mode = "up"
    /\ Down
    /\ UNCHANGED device

\* The power fails: what was not synchronised may be lost, in part too.
PowerFailure ==
    /\ mode # "refused"
    /\ \E h0 \in header_maybe[0], h1 \in header_maybe[1],
          d0 \in data_maybe[0], d1 \in data_maybe[1] :
         /\ header' = [s \in Slots |-> IF s = 0 THEN h0 ELSE h1]
         /\ data' = [s \in Slots |-> IF s = 0 THEN d0 ELSE d1]
    /\ header_maybe' = [s \in Slots |-> {header'[s]}]
    /\ data_maybe' = [s \in Slots |-> {data'[s]}]
    /\ Down

\* A header that verifies, and records that match it.
HeaderOk(s) == header[s].gen # 0

\* Looks at the header only.
VerifySlotData_HeaderOnly(s) == TRUE

VerifySlotData(s) == header[s].image \in {Empty, data[s]}

Collision == HeaderOk(0) /\ HeaderOk(1) /\ header[0].gen = header[1].gen

\* The slot with the newer header is the candidate; the other one is the fallback.
Candidate == CHOOSE s \in {x \in Slots : HeaderOk(x)} :
                \A x \in Slots : HeaderOk(x) => header[x].gen <= header[s].gen

Chosen ==
    IF VerifySlotData(Candidate) THEN Candidate
    ELSE IF HeaderOk(1 - Candidate) /\ VerifySlotData(1 - Candidate) THEN 1 - Candidate
    ELSE -1

NeverTaken == \A s \in Slots : ~ HeaderOk(s)
Refused == ~ NeverTaken /\ (Collision \/ Chosen = -1)

\* Recovery of the log: numbering resumes after what has been flushed at least.
Resume == seq' \in flushed .. seq

NextGeneration == header[Candidate].gen + 1

\* Open without create, then the recovery of the log: what the snapshot
\* covers counts as reclaimed.
Open ==
    /\ mode = "down"
    /\ ~ Refused
    /\ IF NeverTaken
       THEN active' = -1 /\ next_gen' = 1 /\ last_covered' = 0 /\ cached' = cached
       ELSE /\ active' = Chosen
            /\ next_gen' = NextGeneration
            /\ last_covered' = header[Chosen].covered
            /\ cached' = (cached \/ header_maybe[Chosen] # {header[Chosen]}
                                 \/ data_maybe[Chosen] # {data[Chosen]})
    /\ Resume
    /\ reclaimed' = IF last_covered' > reclaimed THEN last_covered' ELSE reclaimed
    /\ mode' = "up"
    /\ UNCHANGED <<device, writing, flushed, bounds>>

Refuse ==
    /\ mode = "down"
    /\ Refused
    /\ mode' = "refused"
    /\ UNCHANGED <<device, memory, writing, outside, bounds>>

\* Nothing is left to do within the bounds.
Done ==
    /\ mode = "refused" \/ (mode = "up" /\ pc = "idle" /\ seq = MaxSeq /\ opens = MaxOpens)
    /\ UNCHANGED vars

Next ==
    \/ Grow \/ WriteRecords \/ WriteHeader \/ SyncSlot
    \/ Stop \/ PowerFailure \/ Open \/ Refuse \/ Done

Spec == Init /\ [][Next]_vars

---------------------------------------------------------------------------
(* Properties.                                                             *)

\* The type invariant.
TypeOK ==
    /\ header \in [Slots -> Headers] /\ header_maybe \in [Slots -> SUBSET Headers]
    /\ data \in [Slots -> Images] /\ data_maybe \in [Slots -> SUBSET Images]
    /\ active \in {-1, 0, 1} /\ next_gen \in 1 .. MaxWrites + 1
    /\ last_covered \in 0 .. MaxSeq
    /\ pc \in {"idle", "header", "sync"} /\ pending \in Headers
    /\ mode \in {"up", "down", "refused"}
    /\ seq \in 0 .. MaxSeq /\ flushed \in 0 .. seq /\ reclaimed \in 0 .. MaxSeq
    /\ cached \in BOOLEAN
    /\ writes \in 0 .. MaxWrites /\ opens \in 0 .. MaxOpens

\* No restart falls back to a snapshot older than the frames that are gone from
\* the log, unless an earlier Open had trusted a slot that was only in the cache
\* (Open's fallback, Write's choice of slot, DoSnapshot's reclaiming).
CoverageKept == mode = "up" /\ ~ cached => last_covered >= reclaimed

\* The state has its type, and the slot in use is complete while the other one is being
\* written: header and records match, and belong to the number the log is reclaimed up to.
ActiveIntact ==
    /\ TypeOK
    /\ mode = "up" /\ active # -1 =>
           /\ header[active].gen # 0
           /\ header[active].image \in {Empty, data[active]}
           /\ header[active].covered = last_covered

\* Two valid headers never carry the same generation (Open takes that for contradictory
\* evidence), after retries, fallbacks and power failures included.  It takes a failed
\* transfer and an Open that had trusted the cache to reach it.
GenerationsDiffer == Collision => Faults /\ cached

\* The device is refused only before any Write has succeeded, or after an Open
\* that had trusted the cache.
RefusesOnlyFirst == mode = "refused" /\ ~ cached => reclaimed = 0

==============================================================================
