------------------------------ MODULE DeviceGroups ------------------------------
(***************************************************************************)
(* Engine::Open and the super blocks of its device groups                  *)
(* (engine/super_block.cpp, engine/engine.cpp): create writes two copies   *)
(* of a super block to each of three devices per group, recover reads and  *)
(* repairs them and decides whether the devices it was given belong        *)
(* together.                                                               *)
(*                                                                         *)
(* A device is <<group, type>> of the first day; the operator passes       *)
(* device lists, not always the same ones.  A copy of a super block is its *)
(* record, Blank (never written) or Torn (checksum wrong).  Each copy has  *)
(* the content a read returns and the set of contents the platter may      *)
(* hold.  UUIDs are numbers, fresh by a counter: four of them per call of  *)
(* CreateDeviceGroup, the engine's first.  What lies behind the super      *)
(* blocks is reduced to the engine UUID in the snapshot slots.             *)
(***************************************************************************)
EXTENDS Integers, Sequences, FiniteSets

CONSTANTS
    N,           \* groups of devices on the machine
    Lists,       \* device lists (Options::devices) the operator passes
    NewLists,    \* those of them the operator passes with create
    Sizes,       \* blocks a data device may hold
    MaxOpens,    \* bound: calls of Open, the last of them without create
    MaxEvents    \* bound: calls of Open with create, and failures of a device, of
                 \* the power or of the operator

Types  == {"data", "wal", "snapshot"}
Disks  == (1 .. N) \X Types
Copies == {"primary", "backup"}

ASSUME BoundsAssumption ==
    N \in Nat \ {0} /\ MaxOpens \in Nat /\ MaxEvents \in Nat
ASSUME SizesAssumption == Sizes \subseteq Nat /\ \E n \in Sizes : \A m \in Sizes : m <= n
\* A list names no device twice.
ASSUME ListsAssumption ==
    /\ NewLists \subseteq Lists
    /\ \A l \in Lists :
           /\ l # <<>> /\ l \in Seq([Types -> Disks])
           /\ \A i, j \in 1 .. Len(l), t, u \in Types : l[i][t] = l[j][u] => i = j /\ t = u

VARIABLES
    copy,        \* per device and copy: what a read returns
    copy_maybe,  \* per device and copy: what the platter may hold
    slots,       \* per device: engine UUID in its snapshot slots, or 0
    blocks,      \* per device: its size in blocks
    mode,        \* "down", "opening" or "up"
    create,      \* Options::create of the Open in progress
    list,        \* Options::devices
    todo,        \* steps left for the group in hand
    sb,          \* per type: the super blocks of the group in hand
    groups,      \* groups opened so far
    outcome,     \* of the last Open
    born,        \* ghost, per CreateDeviceGroup: devices, place, list and its length, Open
    owner,       \* ghost, per device: the last CreateDeviceGroup that wrote to it
    done,        \* ghost: calls of CreateDeviceGroup that have succeeded
    finished,    \* ghost: calls of Open with create that have succeeded
    snapped,     \* ghost: engine UUIDs under which a snapshot was taken
    harm,        \* ghost, per device: copies damaged since both were good
    glitch,      \* ghost: a read failed during this Open
    opens, events   \* bounds' counters

device == <<copy, copy_maybe>>
call   == <<create, list, todo, sb, groups>>
ghost  == <<born, owner, done, finished, snapped, harm>>
vars   == <<device, slots, blocks, mode, call, outcome, ghost, glitch, opens, events>>

Blank == [type |-> "blank"]
Torn  == [type |-> "torn"]
NoBlock == [t \in Types |-> Blank]

Init ==
    /\ copy = [d \in Disks |-> [c \in Copies |-> Blank]]
    /\ copy_maybe = [d \in Disks |-> [c \in Copies |-> {Blank}]]
    /\ slots = [d \in Disks |-> 0]
    /\ blocks \in [Disks -> {CHOOSE n \in Sizes : \A m \in Sizes : m <= n}]
    /\ mode = "down" /\ create = FALSE /\ list = <<>> /\ todo = <<>>
    /\ sb = NoBlock /\ groups = <<>> /\ outcome = "none"
    /\ born = <<>> /\ owner = [d \in Disks |-> 0] /\ done = {} /\ finished = {} /\ snapped = {}
    /\ harm = [d \in Disks |-> 0] /\ glitch = FALSE
    /\ opens = 0 /\ events = 0

---------------------------------------------------------------------------
(* Super blocks.                                                           *)

\* GenerateUuid for the engine and its devices: unused numbers.
Uuid(k, what) ==
    4 * k + CASE what = "engine" -> 0 [] what = "data" -> 1
              [] what = "wal" -> 2 [] what = "snapshot" -> 3

\* The call of CreateDeviceGroup an engine UUID stems from.
CreateOf(s) == s.engine \div 4

\* Fields a device of another type carries are zero.
SuperBlock(t, k, id, count, n) ==
    [type     |-> t,
     engine   |-> Uuid(k, "engine"),
     device   |-> Uuid(k, t),
     data     |-> IF t = "data" THEN 0 ELSE Uuid(k, "data"),
     wal      |-> IF t = "data" THEN Uuid(k, "wal") ELSE 0,
     snapshot |-> IF t = "data" THEN Uuid(k, "snapshot") ELSE 0,
     id       |-> id,
     count    |-> count,
     blocks   |-> IF t = "data" THEN n ELSE 0]

\* CheckSuperBlock.
Valid(s) == s \notin {Blank, Torn}

\* Open and size check of a group's devices; the small devices always suffice.
LargeEnough(g) == blocks[g["data"]] >= 1

Group == list[Len(groups) + 1]
Place == Len(groups)

\* What happens to the devices after the last Open is of no consequence.
MoreToCome == opens < MaxOpens

Outcomes == IF events < MaxEvents THEN BOOLEAN ELSE {TRUE}
Count(ok) == events' = IF ok THEN events ELSE events + 1

---------------------------------------------------------------------------
(* Engine::Open.                                                           *)

CreateSteps ==
    << <<"backup", "wal">>, <<"sync", "wal">>, <<"primary", "wal">>, <<"sync", "wal">>,
       <<"backup", "snapshot">>, <<"sync", "snapshot">>,
       <<"primary", "snapshot">>, <<"sync", "snapshot">>,
       <<"backup", "data">>, <<"sync", "data">>, <<"primary", "data">>, <<"sync", "data">>,
       <<"rest", "group">> >>
RecoverSteps == << <<"read", "data">>, <<"read", "wal">>, <<"read", "snapshot">>,
                   <<"match", "group">>, <<"rest", "group">> >>

At(step, t) == mode = "opening" /\ todo # <<>> /\ Head(todo) = <<step, t>>
Advance == todo' = Tail(todo) /\ UNCHANGED <<mode, create, list, groups, outcome>>

\* AbortOpen for the group in hand and those before it.
Fail(why) ==
    /\ mode' = "down" /\ todo' = <<>> /\ sb' = NoBlock /\ groups' = <<>>
    /\ outcome' = why
    /\ create' = FALSE
    /\ list' = IF why = "refused" THEN list ELSE <<>>

Open(wipe, l) ==
    /\ mode = "down" /\ opens < MaxOpens
    /\ opens' = opens + 1
    /\ wipe => l \in NewLists /\ events < MaxEvents /\ opens' < MaxOpens
    /\ events' = IF wipe THEN events + 1 ELSE events
    /\ mode' = "opening" /\ create' = wipe /\ list' = l
    /\ groups' = <<>> /\ sb' = NoBlock /\ outcome' = "none" /\ glitch' = FALSE
    /\ todo' = << <<"begin", "group">> >>
    /\ UNCHANGED <<device, slots, blocks, ghost>>

\* CreateDeviceGroup up to its first write; the source of randomness may fail.
BeginCreate ==
    /\ At("begin", "group") /\ create
    /\ \E ok \in Outcomes :
         /\ Count(ok)
         /\ IF ~ LargeEnough(Group) \/ ~ ok
            THEN Fail("failed") /\ UNCHANGED born
            ELSE /\ sb' = [t \in Types |-> SuperBlock(t, Len(born) + 1, Place, Len(list),
                                                      blocks[Group["data"]])]
                 /\ born' = Append(born, [disks |-> Group, id |-> Place,
                                          count |-> Len(list), list |-> list, open |-> opens])
                 /\ todo' = CreateSteps
                 /\ UNCHANGED <<mode, create, list, groups, outcome>>
    /\ UNCHANGED <<device, slots, blocks, owner, done, finished, snapped, harm, glitch, opens>>

\* A WriteAt of one copy: not durable before the next Sync; a failure leaves any
\* part of it.
WriteAt(d, c, s, ok) ==
    /\ \E found \in IF ok THEN {s} ELSE {copy[d][c], Torn, s} :
           copy' = [copy EXCEPT ![d][c] = found]
    /\ copy_maybe' = [copy_maybe EXCEPT ![d][c] = @ \cup {Torn, s}]

\* WriteSuperBlockPair: one of its two writes.
WriteCopy(c, t) ==
    /\ At(c, t)
    /\ \E ok \in Outcomes :
         /\ Count(ok)
         /\ WriteAt(Group[t], c, sb[t], ok)
         /\ IF ok THEN Advance /\ UNCHANGED sb ELSE Fail("failed")
    /\ owner' = [owner EXCEPT ![Group[t]] = CreateOf(sb[t])]
    /\ UNCHANGED <<slots, blocks, born, done, finished, snapped, harm, glitch, opens>>

\* Every write to the device is durable.
Synced(d) == copy_maybe' = [copy_maybe EXCEPT ![d] = [c \in Copies |-> {copy[d][c]}]]

\* After the last Sync of the data device CreateDeviceGroup returns.
Completes ==
    LET last == todo[2] = <<"rest", "group">>
    IN  /\ done' = IF last THEN done \cup {CreateOf(sb["data"])} ELSE done
        /\ harm' = [d \in Disks |-> IF last /\ \E t \in Types : d = Group[t] THEN 0 ELSE harm[d]]

\* The fdatasync after each of the two writes.
SyncCopy(t) ==
    /\ At("sync", t)
    /\ \E ok \in Outcomes :
         /\ Count(ok)
         /\ IF ok THEN Synced(Group[t]) /\ Advance /\ Completes /\ UNCHANGED sb
                  ELSE Fail("failed") /\ UNCHANGED <<copy_maybe, done, harm>>
    /\ UNCHANGED <<copy, slots, blocks, born, owner, finished, snapped, glitch, opens>>

BeginRecover ==
    /\ At("begin", "group") /\ ~ create
    /\ IF LargeEnough(Group)
       THEN todo' = RecoverSteps /\ UNCHANGED <<mode, create, list, groups, outcome, sb>>
       ELSE Fail("refused")
    /\ UNCHANGED <<device, slots, blocks, ghost, glitch, opens, events>>

\* ReadSuperBlockWithRepair when the primary is good.
ReadPrimary(t) ==
    /\ At("read", t)
    /\ Valid(copy[Group[t]]["primary"])
    /\ Advance
    /\ sb' = [sb EXCEPT ![t] = copy[Group[t]]["primary"]]
    /\ UNCHANGED <<device, slots, blocks, ghost, glitch, opens, events>>

\* Uses the backup and leaves the primary as it is.
ReadBackup_NoRepair(t) ==
    /\ At("read", t)
    /\ LET d == Group[t]
       IN  /\ ~ Valid(copy[d]["primary"])
           /\ Valid(copy[d]["backup"])
           /\ sb' = [sb EXCEPT ![t] = copy[d]["backup"]]
           /\ harm' = [harm EXCEPT ![d] = 0]
    /\ Advance
    /\ UNCHANGED <<device, slots, blocks, born, owner, done, finished, snapped, glitch, opens, events>>

\* The primary is bad or cannot be read: the backup is used and written over the
\* primary.  A failure of that write or of its Sync is not reported.
ReadBackup(t) ==
    /\ At("read", t)
    /\ LET d == Group[t]
       IN  \E unread \in IF events < MaxEvents THEN BOOLEAN ELSE {FALSE} :
             /\ unread \/ ~ Valid(copy[d]["primary"])
             /\ Valid(copy[d]["backup"])
             /\ sb' = [sb EXCEPT ![t] = copy[d]["backup"]]
             /\ \E repair \in {"synced"} \cup IF events < MaxEvents THEN {"written", "failed"} ELSE {} :
                  /\ IF repair = "synced"
                     THEN /\ copy' = [copy EXCEPT ![d]["primary"] = copy[d]["backup"]]
                          /\ copy_maybe' = [copy_maybe EXCEPT ![d] =
                                              [c \in Copies |-> {copy[d]["backup"]}]]
                     ELSE WriteAt(d, "primary", copy[d]["backup"], repair = "written")
                  /\ harm' = [harm EXCEPT ![d] = IF repair = "synced" THEN 0 ELSE 1]
                  /\ events' = events + IF unread \/ repair # "synced" THEN 1 ELSE 0
             /\ glitch' = (glitch \/ unread)
    /\ Advance
    /\ UNCHANGED <<slots, blocks, born, owner, done, finished, snapped, opens>>

\* Neither copy can be used: both are bad, or one of them cannot be read.
ReadNothing(t) ==
    /\ At("read", t)
    /\ LET bad == {c \in Copies : ~ Valid(copy[Group[t]][c])}
       IN  \/ bad = Copies /\ UNCHANGED <<glitch, events>>
           \/ events < MaxEvents /\ events' = events + 1 /\ glitch' = TRUE
    /\ Fail("refused")
    /\ UNCHANGED <<device, slots, blocks, ghost, opens>>

---------------------------------------------------------------------------
(* The checks of RecoverDeviceGroup, in its order.                         *)

TypesMatch == \A t \in Types : sb[t].type = t
EnginesMatch == \A t \in Types : sb[t].engine = sb["data"].engine
PairsMatch ==
    /\ sb["data"].wal = sb["wal"].device /\ sb["wal"].data = sb["data"].device
    /\ sb["data"].snapshot = sb["snapshot"].device /\ sb["snapshot"].data = sb["data"].device
IdsMatch == \A t \in Types : sb[t].id = Place
CountsMatch == \A t \in Types : sb[t].count = Len(list)
SizeMatches == sb["data"].blocks <= blocks[Group["data"]]

\* Does not compare the device numbers with the places in the list.
Match_AnyPlace ==
    /\ At("match", "group")
    /\ IF TypesMatch /\ EnginesMatch /\ PairsMatch /\ CountsMatch /\ SizeMatches
       THEN Advance /\ UNCHANGED sb ELSE Fail("refused")
    /\ UNCHANGED <<device, slots, blocks, ghost, glitch, opens, events>>

\* Does not compare the number of groups.
Match_AnyCount ==
    /\ At("match", "group")
    /\ IF TypesMatch /\ EnginesMatch /\ PairsMatch /\ IdsMatch /\ SizeMatches
       THEN Advance /\ UNCHANGED sb ELSE Fail("refused")
    /\ UNCHANGED <<device, slots, blocks, ghost, glitch, opens, events>>

Match ==
    /\ At("match", "group")
    /\ IF TypesMatch /\ EnginesMatch /\ PairsMatch /\ IdsMatch /\ CountsMatch /\ SizeMatches
       THEN Advance /\ UNCHANGED sb ELSE Fail("refused")
    /\ UNCHANGED <<device, slots, blocks, ghost, glitch, opens, events>>

---------------------------------------------------------------------------
(* The rest of the group, and of the engine.                               *)

\* Loads whatever the slots hold.
Loaded_Any(s) == slots[Group["snapshot"]]

\* Recovery loads a snapshot with the UUID of this engine only.
Loaded(s) == IF slots[Group["snapshot"]] = s.engine THEN s.engine ELSE 0

\* The data device, the buffers, the log and the snapshots are opened, any of
\* which may fail.  create clears the snapshot slots, last of all.
OpenRest ==
    /\ At("rest", "group")
    /\ \E ok \in Outcomes :
         /\ Count(ok)
         /\ slots' \in {IF create THEN [slots EXCEPT ![Group["snapshot"]] = 0] ELSE slots}
                           \cup IF ok THEN {} ELSE {slots}
         /\ IF ok
            THEN /\ groups' = Append(groups, [sb |-> sb["data"],
                                              index |-> IF create THEN 0 ELSE Loaded(sb["data"])])
                 /\ todo' = << <<IF Len(groups') = Len(list) THEN "start" ELSE "begin", "group">> >>
                 /\ sb' = NoBlock
                 /\ UNCHANGED <<mode, create, list, outcome>>
            ELSE Fail("failed")
    /\ UNCHANGED <<device, blocks, ghost, glitch, opens>>

\* Phase two: a reactor per group is started; one failure stops them all.
StartReactors ==
    /\ At("start", "group")
    /\ \E ok \in Outcomes :
         /\ Count(ok)
         /\ IF ok THEN /\ mode' = "up" /\ outcome' = "ok" /\ todo' = <<>>
                       /\ finished' = IF create THEN finished \cup {opens} ELSE finished
                       /\ UNCHANGED <<create, list, sb, groups>>
                  ELSE Fail("failed") /\ UNCHANGED finished
    /\ UNCHANGED <<device, slots, blocks, born, owner, done, snapped, harm, glitch, opens>>

\* A running engine leaves its UUID in the slots of a group.
TakeSnapshot(i) ==
    /\ mode = "up" /\ MoreToCome
    /\ slots' = [slots EXCEPT ![list[i]["snapshot"]] = groups[i].sb.engine]
    /\ snapped' = snapped \cup {groups[i].sb.engine}
    /\ UNCHANGED <<device, blocks, mode, call, outcome, born, owner, done, finished, harm, glitch, opens, events>>

Stopped ==
    /\ mode' = "down" /\ todo' = <<>> /\ sb' = NoBlock /\ groups' = <<>>
    /\ outcome' = "none"
    /\ create' = FALSE /\ list' = <<>>

Close ==
    /\ mode = "up" /\ MoreToCome
    /\ Stopped
    /\ UNCHANGED <<device, slots, blocks, ghost, glitch, opens, events>>

\* The process dies; the devices keep what they were given.
Kill ==
    /\ mode = "opening" /\ MoreToCome
    /\ Stopped
    /\ UNCHANGED <<device, slots, blocks, ghost, glitch, opens, events>>

Unsynced == {x \in Disks \X Copies : copy_maybe[x[1]][x[2]] # {copy[x[1]][x[2]]}}

\* The power fails: each copy that was not synchronised is old, new or torn.
PowerFailure ==
    /\ MoreToCome /\ events < MaxEvents /\ events' = events + 1
    /\ Unsynced # {}
    /\ \E pick \in [Unsynced -> UNION {copy_maybe[x[1]][x[2]] : x \in Unsynced}] :
         /\ \A x \in Unsynced : pick[x] \in copy_maybe[x[1]][x[2]]
         /\ copy' = [d \in Disks |-> [c \in Copies |->
                       IF <<d, c>> \in Unsynced THEN pick[<<d, c>>] ELSE copy[d][c]]]
         /\ copy_maybe' = [d \in Disks |-> [c \in Copies |-> {copy'[d][c]}]]
    /\ Stopped
    /\ UNCHANGED <<slots, blocks, ghost, glitch, opens>>

\* A copy decays on the device.
Rot(d, c) ==
    /\ mode = "down" /\ MoreToCome
    /\ outcome' = "none" /\ list' = <<>>
    /\ events < MaxEvents /\ events' = events + 1
    /\ Valid(copy[d][c])
    /\ copy' = [copy EXCEPT ![d][c] = Torn]
    /\ copy_maybe' = [copy_maybe EXCEPT ![d][c] = {Torn}]
    /\ harm' = [harm EXCEPT ![d] = @ + 1]
    /\ UNCHANGED <<slots, blocks, mode, create, todo, sb, groups, born, owner, done, finished, snapped, glitch, opens>>

\* The operator changes the size of a data device.
Resize(g, n) ==
    /\ mode = "down" /\ MoreToCome
    /\ outcome' = "none" /\ list' = <<>>
    /\ events < MaxEvents /\ events' = events + 1
    /\ n # blocks[<<g, "data">>]
    /\ blocks' = [blocks EXCEPT ![<<g, "data">>] = n]
    /\ UNCHANGED <<device, slots, mode, create, todo, sb, groups, ghost, glitch, opens>>

\* No further Open is made.
Idle == mode # "opening" /\ ~ MoreToCome /\ UNCHANGED vars

Next ==
    \/ \E wipe \in BOOLEAN, l \in Lists : Open(wipe, l)
    \/ BeginCreate \/ BeginRecover
    \/ \E t \in Types :
         \/ \E c \in Copies : WriteCopy(c, t)
         \/ SyncCopy(t) \/ ReadPrimary(t) \/ ReadBackup(t) \/ ReadNothing(t)
    \/ Match \/ OpenRest \/ StartReactors
    \/ \E i \in 1 .. Len(groups) : TakeSnapshot(i)
    \/ Close \/ Kill \/ PowerFailure
    \/ \E d \in Disks, c \in Copies : Rot(d, c)
    \/ \E g \in 1 .. N, n \in Sizes : Resize(g, n)
    \/ Idle

Spec == Init /\ [][Next]_vars

---------------------------------------------------------------------------
(* Properties.                                                             *)

\* A copy holds a super block some create has built, or none.
Content(s) ==
    \/ s \in {Blank, Torn}
    \/ LET k == CreateOf(s)
       IN  k \in 1 .. Len(born) /\ s = SuperBlock(s.type, k, born[k].id, born[k].count, s.blocks)

\* The type invariant.
TypeOK ==
    /\ \A d \in Disks, c \in Copies :
           copy[d][c] \in copy_maybe[d][c] /\ \A s \in copy_maybe[d][c] : Content(s)
    /\ mode \in {"down", "opening", "up"} /\ create \in BOOLEAN
    /\ outcome \in {"none", "ok", "failed", "refused"}
    /\ owner \in [Disks -> 0 .. Len(born)] /\ done \subseteq 1 .. Len(born)

\* The state has its type, and the devices at place i belong to one call of
\* CreateDeviceGroup, which was given exactly these devices, this place and a list of
\* this length: no drift of device names, no longer or shorter list is taken for the
\* original (RecoverDeviceGroup).
GroupOfOneCreate ==
    /\ TypeOK
    /\ \A i \in 1 .. Len(groups) :
           LET b == born[CreateOf(groups[i].sb)]
           IN  b.disks = list[i] /\ b.id = i - 1 /\ b.count = Len(list)

\* A group that was created, and not touched by a later create.
Undisturbed(i) ==
    \E k \in done :
        /\ born[k].disks = list[i] /\ born[k].id = i - 1 /\ born[k].count = Len(list)
        /\ \A t \in Types : owner[list[i][t]] = k /\ harm[list[i][t]] <= 1

\* Recovery refuses an engine only for a reason: a group that was never completed or
\* was written to by a later create, a device with both copies damaged, another
\* size, or a failing read.  One damaged copy per device never matters, and after a
\* repair another one may be damaged (WriteSuperBlockPair, ReadSuperBlockWithRepair).
SurvivesOneHarm ==
    outcome = "refused" /\ ~ glitch =>
        \E i \in 1 .. Len(list) :
            \/ ~ Undisturbed(i)
            \/ blocks[list[i]["data"]] < CHOOSE n \in Sizes : \A m \in Sizes : m <= n

\* Groups i and j of different creates run as one engine only when the later create did
\* not succeed, unless it put other devices in place i: a create that has succeeded is
\* never mixed with what was on its devices before, nor with a group it did without (the
\* length of the list, checked by RecoverDeviceGroup).
NoMixOfFinished ==
    \A i, j \in 1 .. Len(groups) :
        LET a == born[CreateOf(groups[i].sb)]
            b == born[CreateOf(groups[j].sb)]
        IN  a.open < b.open /\ (i \in 1 .. Len(b.list) => b.list[i] = list[i]) =>
                b.open \notin finished

\* A group starts from a snapshot exactly when its own engine has taken one: not from
\* one an earlier engine left on the device, also when a create stopped before it
\* cleared the slots, and an interrupted create never takes the snapshot from the
\* group it did not replace (the order of CreateDeviceGroup and Snapshot::Open).
SnapshotOfThisCreate ==
    mode = "opening" =>
        \A i \in 1 .. Len(groups) :
            LET e == groups[i].sb.engine
            IN  groups[i].index = IF e \in snapped THEN e ELSE 0

==============================================================================
