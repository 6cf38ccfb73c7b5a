-------------------------- MODULE DeviceGroupsProofs ---------------------------
(***************************************************************************)
(* Proofs about DeviceGroups, for any number of groups, any device lists   *)
(* that name no device twice, any sizes, and any number of calls of Open,  *)
(* failures and crashes.                                                   *)
(***************************************************************************)
EXTENDS DeviceGroups, SequenceTheorems, TLAPS

---------------------------------------------------------------------------
(* The inductive invariant: what devices may hold.                         *)

\* The contents device d may turn out to hold, in either copy.
On(d) == copy_maybe[d]["primary"] \cup copy_maybe[d]["backup"]

\* A super block, built by the create it names for this device.
Home(d, s) ==
    LET k == CreateOf(s)
    IN  /\ k \in 1 .. Len(born) /\ s.type \in Types /\ born[k].disks[s.type] = d
        /\ s = SuperBlock(s.type, k, born[k].id, born[k].count, s.blocks)

\* Nothing older than create k is left on device d.
Floor(d, k) == \A s \in On(d) : Valid(s) => CreateOf(s) >= k

\* Device d may hold what create k has written.
Holds(d, k) == \E s \in On(d) : Valid(s) /\ CreateOf(s) = k

Contents ==
    /\ copy = [d \in Disks |-> [c \in Copies |-> copy[d][c]]]
    /\ copy_maybe = [d \in Disks |-> [c \in Copies |-> copy_maybe[d][c]]]
    /\ \A d \in Disks, c \in Copies : copy[d][c] \in copy_maybe[d][c]
    /\ \A d \in Disks : \A s \in On(d) : Valid(s) => Home(d, s)

\* The snapshot device is written before the data device, and a create that has succeeded
\* has written all three.
SnapshotFirst ==
    \A d \in Disks : \A s \in On(d) :
        Valid(s) /\ s.type = "data" => Floor(born[CreateOf(s)].disks["snapshot"], CreateOf(s))
DoneWritten == \A k \in done, t \in Types : Floor(born[k].disks[t], k)

---------------------------------------------------------------------------
(* The inductive invariant: the calls of CreateDeviceGroup.                *)

Births == [disks : [Types -> Disks], id : Nat, count : Nat, list : Lists, open : Nat]

History ==
    /\ born \in Seq(Births) /\ opens \in Nat
    /\ owner \in [Disks -> 0 .. Len(born)] /\ done \subseteq 1 .. Len(born)
    /\ \A k \in 1 .. Len(born) : born[k].open <= opens /\ born[k].count = Len(born[k].list)
    /\ \A j, k \in 1 .. Len(born) : j <= k => born[j].open <= born[k].open
    /\ mode # "down" => \A k \in 1 .. Len(born) :
           born[k].open = opens => create /\ born[k].list = list
    /\ mode = "opening" => opens \notin finished
    /\ finished \subseteq 0 .. opens

\* A create of the whole engine has succeeded when it has for each place of its list.
FinishedDone ==
    \A k \in 1 .. Len(born) : born[k].open \in finished =>
        \A i \in 1 .. Len(born[k].list) : \E j \in done :
            born[j].open = born[k].open /\ born[j].disks = born[k].list[i]

---------------------------------------------------------------------------
(* The inductive invariant: the Open in progress.                          *)

Steps == {"begin", "backup", "sync", "primary", "rest", "read", "match", "start"}

\* A step, and the device it is about.
What(step) == step[1]
Of(step) == step[2]

\* What is left of the steps of a group, and what their order is.
Orderly(s) ==
    /\ s \in Seq(Steps \X (Types \cup {"group"}))
    /\ \A i \in 1 .. Len(s) :
         /\ i > 1 => What(s[i]) \notin {"begin", "start"}
         /\ What(s[i]) \notin {"begin", "rest", "start"} => i + 1 \in 1 .. Len(s)
         /\ What(s[i]) = "rest" => i = Len(s)
         /\ What(s[i]) \in {"rest", "match"} => Of(s[i]) = "group"
         /\ What(s[i]) \in {"backup", "primary"} => What(s[i + 1]) = "sync" /\ Of(s[i + 1]) = Of(s[i])
         /\ What(s[i]) = "read" => \E j \in 1 .. Len(s) : i < j /\ What(s[j]) = "match"
         /\ What(s[i]) = "match" => \A j \in 1 .. Len(s) : i < j => What(s[j]) # "read"
         /\ Of(s[i]) = "data" => \A j \in 1 .. Len(s) :
                i < j /\ What(s[j]) \in {"backup", "primary", "sync"} => Of(s[j]) = "data"

Left(step, t) == \E i \in 1 .. Len(todo) : What(todo[i]) = step /\ Of(todo[i]) = t
Working == mode = "opening" /\ todo # <<>> /\ What(todo[1]) \notin {"begin", "start"}

Progress ==
    /\ mode \in {"down", "opening", "up"}
    /\ outcome \in {"none", "ok", "failed", "refused"}
    /\ Orderly(todo)
    /\ mode # "opening" => todo = <<>>
    /\ mode = "down" => groups = <<>>
    /\ mode # "down" => list \in Lists
    /\ sb = [t \in Types |-> sb[t]]
    /\ todo # <<>> /\ What(todo[1]) = "begin" => sb = NoBlock
    /\ create => \A i \in 1 .. Len(todo) : What(todo[i]) \notin {"read", "match"}
    /\ ~ create => \A i \in 1 .. Len(todo) : What(todo[i]) \notin {"backup", "primary", "sync"}
    /\ mode # "down" => Len(groups) <= Len(list)
    /\ mode = "opening" /\ todo # <<>> /\ What(todo[1]) # "start" => Len(groups) < Len(list)
    /\ mode = "up" \/ (todo # <<>> /\ What(todo[1]) = "start") => Len(groups) = Len(list)

\* Create: the super blocks of the group in hand, and how far they are written.
Building ==
    create /\ Working =>
        LET k == Len(born)
        IN  /\ k \in 1 .. Len(born)
            /\ born[k] = [disks |-> Group, id |-> Place, count |-> Len(list),
                          list |-> list, open |-> opens]
            /\ \A t \in Types : sb[t] = SuperBlock(t, k, Place, Len(list), sb["data"].blocks)
            /\ \A t \in Types :
                 /\ \A c \in Copies : ~ Left(c, t) => copy[Group[t]][c] = sb[t]
                 /\ (\A step \in {"backup", "primary", "sync"} : ~ Left(step, t)) =>
                        On(Group[t]) = {sb[t]}
            /\ What(todo[1]) = "rest" => k \in done

\* Recover: what was read for the group in hand, and that it has been compared.
Read(t) == Valid(sb[t]) /\ Home(Group[t], sb[t]) /\ sb[t] \in On(Group[t])
Reading ==
    ~ create /\ Working =>
        /\ \A t \in Types : sb[t] = Blank \/ Read(t)
        /\ ~ Left("match", "group") => TypesMatch /\ EnginesMatch /\ IdsMatch /\ CountsMatch

\* The groups opened before.
Opened(i) ==
    LET s == groups[i].sb
        k == CreateOf(s)
    IN  /\ k \in 1 .. Len(born) /\ s.engine = Uuid(k, "engine")
        /\ born[k].disks = list[i] /\ born[k].id = i - 1 /\ born[k].count = Len(list)
        /\ \A t \in Types : Holds(list[i][t], k)
        /\ Floor(list[i]["snapshot"], k)
        /\ create => k \in done /\ born[k].open = opens
AllOpened ==
    /\ groups \in Seq({groups[i] : i \in 1 .. Len(groups)})
    /\ \A i \in 1 .. Len(groups) : Opened(i)

---------------------------------------------------------------------------
(* The inductive invariant: snapshots.                                     *)

SlotsRight ==
    /\ slots = [d \in Disks |-> slots[d]]
    /\ \A d \in Disks : slots[d] # 0 => slots[d] \in snapped
    /\ \A e \in snapped : \E k \in 1 .. Len(born) : e = Uuid(k, "engine")
    /\ \A k \in 1 .. Len(born) : Uuid(k, "engine") \in snapped =>
           LET d == born[k].disks["snapshot"]
           IN  Floor(d, k) /\ (slots[d] = Uuid(k, "engine") \/ Floor(d, k + 1))

\* A create takes no snapshot before it has succeeded.
NotYet ==
    mode = "opening" /\ create => \A k \in 1 .. Len(born) :
        born[k].open = opens => Uuid(k, "engine") \notin snapped

IInv ==
    /\ create \in BOOLEAN
    /\ Contents /\ SnapshotFirst /\ DoneWritten /\ History /\ FinishedDone
    /\ Progress /\ Building /\ Reading /\ AllOpened
    /\ SlotsRight /\ NotYet /\ SnapshotOfThisCreate

---------------------------------------------------------------------------
(* Super blocks.                                                           *)

\* A super block tells which create has built it, and for what.
LEMMA SuperBlockFacts ==
    ASSUME NEW t \in Types, NEW k \in Nat, NEW id, NEW count, NEW n
    PROVE  LET s == SuperBlock(t, k, id, count, n)
           IN  /\ s.type = t /\ s.engine = Uuid(k, "engine") /\ s.id = id /\ s.count = count
               /\ CreateOf(s) = k /\ Valid(s)
               /\ s = SuperBlock(t, k, id, count, s.blocks)
               /\ t = "data" => s.blocks = n
  <1> DEFINE s == SuperBlock(t, k, id, count, n)
  <1>1. /\ s.type = t /\ s.engine = Uuid(k, "engine") /\ s.id = id /\ s.count = count
        /\ s.blocks = IF t = "data" THEN n ELSE 0
    BY DEF SuperBlock
  <1>2. s = SuperBlock(t, k, id, count, s.blocks)
    BY DEF SuperBlock
  <1>3. Uuid(k, "engine") = 4 * k
    BY DEF Uuid
  <1>4. CreateOf(s) = k
    <2>1. (4 * k) \div 4 = k
      OBVIOUS
    <2> HIDE DEF s
    <2> QED BY <1>1, <1>3, <2>1 DEF CreateOf
  <1>5. Valid(s)
    <2> HIDE DEF s
    <2> QED BY <1>1 DEF Valid, Blank, Torn, Types
  <1> HIDE DEF s
  <1>6. t = "data" => s.blocks = n
    BY <1>1
  <1> QED BY <1>1, <1>2, <1>4, <1>5, <1>6 DEF s

\* What no create has built.
LEMMA NoSuperBlock ==
    ~ Valid(Blank) /\ ~ Valid(Torn) /\ Blank.type \notin Types /\ \A t \in Types : NoBlock[t] = Blank
  BY DEF Valid, Blank, Torn, Types, NoBlock

\* The engine UUIDs of two creates differ.
LEMMA UuidFacts ==
    /\ \A k \in Nat : Uuid(k, "engine") = 4 * k
    /\ \A j, k \in Nat : Uuid(j, "engine") = Uuid(k, "engine") => j = k
  <1>1. \A k \in Nat : Uuid(k, "engine") = 4 * k
    BY DEF Uuid
  <1> QED BY <1>1

\* A device list names no device twice.
LEMMA ListFacts ==
    ASSUME NEW l \in Lists
    PROVE  /\ l \in Seq([Types -> Disks]) /\ Len(l) \in Nat \ {0}
           /\ \A i \in 1 .. Len(l) : l[i] \in [Types -> Disks]
           /\ \A i, j \in 1 .. Len(l), t, u \in Types : l[i][t] = l[j][u] => i = j /\ t = u
  <1>1. /\ l \in Seq([Types -> Disks]) /\ l # <<>>
        /\ \A i, j \in 1 .. Len(l), t, u \in Types : l[i][t] = l[j][u] => i = j /\ t = u
    BY ListsAssumption
  <1>2. Len(l) \in Nat \ {0}
    BY <1>1, EmptySeq, LenProperties
  <1> QED BY <1>1, <1>2, ElementOfSeq

---------------------------------------------------------------------------
(* The steps of an Open.                                                   *)

\* A sequence with one more element.
LEMMA Appended ==
    ASSUME NEW g, g \in Seq({g[i] : i \in 1 .. Len(g)}), NEW x
    PROVE  LET h == Append(g, x)
           IN  /\ h \in Seq({h[i] : i \in 1 .. Len(h)})
               /\ Len(g) \in Nat /\ Len(h) = Len(g) + 1 /\ h[Len(g) + 1] = x
               /\ \A i \in 1 .. Len(g) : h[i] = g[i]
  <1> DEFINE S == {g[i] : i \in 1 .. Len(g)} \cup {x}
  <1>1. g \in Seq(S) /\ Len(g) \in Nat
    <2>1. Len(g) \in Nat /\ g = [i \in 1 .. Len(g) |-> g[i]]
      BY LenProperties
    <2>2. \A i \in 1 .. Len(g) : g[i] \in S
      OBVIOUS
    <2> QED BY <2>1, <2>2, SeqDef
  <1>2. x \in S
    OBVIOUS
  <1> HIDE DEF S
  <1>3. PICK h \in Seq(S) : h = Append(g, x)
    BY <1>1, <1>2, AppendProperties
  <1>4. /\ Len(h) = Len(g) + 1 /\ h[Len(g) + 1] = x
        /\ \A i \in 1 .. Len(g) : h[i] = g[i]
    BY <1>1, <1>2, <1>3, AppendProperties
  <1>5. h \in Seq({h[i] : i \in 1 .. Len(h)})
    <2>1. Len(h) \in Nat /\ h = [i \in 1 .. Len(h) |-> h[i]]
      BY LenProperties
    <2>2. \A i \in 1 .. Len(h) : h[i] \in {h[j] : j \in 1 .. Len(h)}
      OBVIOUS
    <2> QED BY <2>1, <2>2, SeqDef
  <1> HIDE DEF S
  <1> QED BY <1>1, <1>3, <1>4, <1>5, Zenon

\* The steps left after the first.
LEMMA OrderlyTail ==
    ASSUME NEW s, Orderly(s), s # <<>>
    PROVE  /\ Orderly(Tail(s)) /\ Head(s) = s[1] /\ 1 \in 1 .. Len(s) /\ Len(s) \in Nat
           /\ Len(Tail(s)) = Len(s) - 1
           /\ \A i \in 1 .. Len(Tail(s)) : i + 1 \in 1 .. Len(s) /\ Tail(s)[i] = s[i + 1]
           /\ \A j \in 1 .. Len(s) : j = 1 \/ \E i \in 1 .. Len(Tail(s)) : j = i + 1 /\ Tail(s)[i] = s[j]
  <1> DEFINE E == Steps \X (Types \cup {"group"})
  <1>1. s \in Seq(E)
    BY DEF Orderly
  <1> HIDE DEF E
  <1>2. PICK p \in Seq(E) : p = Tail(s)
    BY <1>1, HeadTailProperties
  <1>3. /\ Len(p) = Len(s) - 1 /\ Head(s) = s[1] /\ Len(s) \in Nat /\ Len(p) \in Nat
        /\ \A i \in 1 .. Len(p) : p[i] = s[i + 1]
    BY <1>1, <1>2, HeadTailProperties, LenProperties
  <1>4. /\ 1 \in 1 .. Len(s)
        /\ \A i \in 1 .. Len(p) : i + 1 \in 1 .. Len(s) /\ i + 1 > 1 /\ p[i] = s[i + 1]
    BY <1>3
  <1>5. ASSUME NEW j \in 1 .. Len(s), j # 1
        PROVE  \E i \in 1 .. Len(p) : j = i + 1 /\ p[i] = s[j]
    <2>1. j - 1 \in 1 .. Len(p) /\ j = (j - 1) + 1
      BY <1>3, <1>5
    <2>2. p[j - 1] = s[(j - 1) + 1]
      BY <1>3, <2>1
    <2> QED BY <2>1, <2>2
  <1>6. Orderly(p)
    <2> SUFFICES ASSUME NEW i \in 1 .. Len(p)
                 PROVE  /\ i > 1 => What(p[i]) \notin {"begin", "start"}
                        /\ What(p[i]) \notin {"begin", "rest", "start"} => i + 1 \in 1 .. Len(p)
                        /\ What(p[i]) = "rest" => i = Len(p)
                        /\ What(p[i]) \in {"rest", "match"} => Of(p[i]) = "group"
                        /\ What(p[i]) \in {"backup", "primary"} => What(p[i + 1]) = "sync" /\ Of(p[i + 1]) = Of(p[i])
                        /\ What(p[i]) = "read" => \E j \in 1 .. Len(p) : i < j /\ What(p[j]) = "match"
                        /\ What(p[i]) = "match" => \A j \in 1 .. Len(p) : i < j => What(p[j]) # "read"
                        /\ Of(p[i]) = "data" => \A j \in 1 .. Len(p) :
                               i < j /\ What(p[j]) \in {"backup", "primary", "sync"} => Of(p[j]) = "data"
      BY DEF Orderly, E
    <2>1. PICK m \in 1 .. Len(s) : m = i + 1 /\ m > 1 /\ p[i] = s[m]
      BY <1>4
    <2>2. /\ What(s[m]) \notin {"begin", "start"}
          /\ What(s[m]) \notin {"begin", "rest", "start"} => m + 1 \in 1 .. Len(s)
          /\ What(s[m]) = "rest" => m = Len(s)
          /\ What(s[m]) \in {"rest", "match"} => Of(s[m]) = "group"
          /\ What(s[m]) \in {"backup", "primary"} => What(s[m + 1]) = "sync" /\ Of(s[m + 1]) = Of(s[m])
          /\ What(s[m]) = "read" => \E j \in 1 .. Len(s) : m < j /\ What(s[j]) = "match"
      BY <2>1 DEF Orderly
    <2>3. Of(s[m]) = "data" => \A j \in 1 .. Len(s) :
               m < j /\ What(s[j]) \in {"backup", "primary", "sync"} => Of(s[j]) = "data"
      BY <2>1 DEF Orderly
    <2>4. m + 1 \in 1 .. Len(s) => i + 1 \in 1 .. Len(p) /\ p[i + 1] = s[m + 1]
      BY <1>3, <1>4, <2>1
    <2>5. What(p[i]) = "read" => \E j \in 1 .. Len(p) : i < j /\ What(p[j]) = "match"
      <3> SUFFICES ASSUME What(p[i]) = "read" PROVE \E j \in 1 .. Len(p) : i < j /\ What(p[j]) = "match"
        OBVIOUS
      <3>1. PICK j \in 1 .. Len(s) : m < j /\ What(s[j]) = "match"
        BY <2>1, <2>2
      <3>2. j # 1
        BY <2>1, <3>1
      <3>3. PICK x \in 1 .. Len(p) : j = x + 1 /\ p[x] = s[j]
        BY <1>5, <3>2
      <3>4. i < x
        BY <2>1, <3>1, <3>3
      <3> QED BY <3>1, <3>3, <3>4
    <2>6. Of(p[i]) = "data" => \A j \in 1 .. Len(p) :
              i < j /\ What(p[j]) \in {"backup", "primary", "sync"} => Of(p[j]) = "data"
      <3> SUFFICES ASSUME Of(p[i]) = "data", NEW j \in 1 .. Len(p), i < j,
                          What(p[j]) \in {"backup", "primary", "sync"}
                   PROVE  Of(p[j]) = "data"
        OBVIOUS
      <3>1. PICK x \in 1 .. Len(s) : x = j + 1 /\ p[j] = s[x]
        BY <1>4
      <3>2. m < x
        BY <2>1, <3>1
      <3> QED BY <2>1, <2>3, <3>1, <3>2
    <2>7. What(p[i]) = "rest" => i = Len(p)
      <3> SUFFICES ASSUME What(p[i]) = "rest" PROVE i = Len(p)
        OBVIOUS
      <3>1. m = Len(s)
        BY <2>1, <2>2
      <3>2. m = i + 1 /\ Len(p) = Len(s) - 1 /\ Len(s) \in Nat /\ Len(p) \in Nat
        BY <1>3, <2>1
      <3> QED BY <1>3, <3>1, <3>2
    <2>8. What(p[i]) = "match" => \A j \in 1 .. Len(p) : i < j => What(p[j]) # "read"
      <3> SUFFICES ASSUME What(p[i]) = "match", NEW j \in 1 .. Len(p), i < j PROVE What(p[j]) # "read"
        OBVIOUS
      <3>1. PICK x \in 1 .. Len(s) : x = j + 1 /\ p[j] = s[x]
        BY <1>4
      <3>2. m < x
        BY <2>1, <3>1
      <3> QED BY <2>1, <3>1, <3>2 DEF Orderly
    <2> QED BY <2>1, <2>2, <2>4, <2>5, <2>6, <2>7, <2>8
  <1> QED BY <1>2, <1>3, <1>4, <1>5, <1>6

\* A sequence of thirteen steps.
LEMMA Thirteen ==
    ASSUME NEW S, NEW a \in S, NEW b \in S, NEW c \in S, NEW d \in S, NEW e \in S, NEW f \in S,
           NEW g \in S, NEW h \in S, NEW i \in S, NEW j \in S, NEW k \in S, NEW l \in S, NEW m \in S
    PROVE  <<a, b, c, d, e, f, g, h, i, j, k, l, m>> \in Seq(S)
  OBVIOUS

\* The sequences of steps an Open begins with.
LEMMA OrderlySteps ==
    /\ Orderly(<<>>) /\ \A x \in {"begin", "start"} : Orderly(<< <<x, "group">> >>)
    /\ Orderly(RecoverSteps) /\ Orderly(CreateSteps)
  <1> DEFINE E == Steps \X (Types \cup {"group"})
  <1>1. \A x \in Steps, t \in Types \cup {"group"} : <<x, t>> \in E
    OBVIOUS
  <1>2. /\ {"begin", "backup", "sync", "primary", "rest", "read", "match", "start"} \subseteq Steps
        /\ {"data", "wal", "snapshot", "group"} \subseteq Types \cup {"group"}
    BY DEF Steps, Types
  <1> HIDE DEF E
  <1>3. Orderly(<<>>)
    BY DEF Orderly
  <1>4. ASSUME NEW x \in {"begin", "start"}
        PROVE  Orderly(<< <<x, "group">> >>)
    <2> DEFINE s == << <<x, "group">> >>
    <2>1. s \in Seq(E)
      <3>1. <<x, "group">> \in E
        BY <1>1, <1>2
      <3> DEFINE e == <<x, "group">>
      <3> HIDE DEF e
      <3>2. e \in E
        BY <3>1 DEF e
      <3>3. <<e>> \in Seq(E)
        BY <3>2
      <3> QED BY <3>3 DEF e
    <2>2. What(s[1]) \in {"begin", "start"} /\ Of(s[1]) = "group"
      BY DEF What, Of
    <2>3. Len(s) = 1
      OBVIOUS
    <2> HIDE DEF s
    <2>4. \A i \in 1 .. Len(s) : i = 1
      BY <2>3
    <2>5. Orderly(s)
      <3> SUFFICES ASSUME NEW i \in 1 .. Len(s)
                   PROVE  /\ ~ i > 1 /\ What(s[i]) \in {"begin", "start"} /\ Of(s[i]) = "group"
        BY <2>1 DEF Orderly, E
      <3>1. i = 1
        BY <2>4
      <3> QED BY <2>2, <3>1
    <2> QED BY <2>5 DEF s
  <1>5. Orderly(RecoverSteps)
    <2>1. RecoverSteps \in Seq(E)
      <3>1. ASSUME NEW S, NEW a \in S, NEW b \in S, NEW c \in S, NEW d \in S, NEW e \in S
            PROVE  <<a, b, c, d, e>> \in Seq(S)
        OBVIOUS
      <3>2. /\ <<"read", "data">> \in E /\ <<"read", "wal">> \in E /\ <<"read", "snapshot">> \in E
            /\ <<"match", "group">> \in E /\ <<"rest", "group">> \in E
        BY <1>1, <1>2
      <3> QED BY <3>1, <3>2 DEF RecoverSteps
    <2>2. /\ Len(RecoverSteps) = 5
          /\ What(RecoverSteps[1]) = "read" /\ Of(RecoverSteps[1]) = "data"
          /\ What(RecoverSteps[2]) = "read" /\ Of(RecoverSteps[2]) = "wal"
          /\ What(RecoverSteps[3]) = "read" /\ Of(RecoverSteps[3]) = "snapshot"
          /\ What(RecoverSteps[4]) = "match" /\ Of(RecoverSteps[4]) = "group"
          /\ What(RecoverSteps[5]) = "rest" /\ Of(RecoverSteps[5]) = "group"
      BY DEF RecoverSteps, What, Of
    <2>3. \A i \in 1 .. 5 : i \in {1, 2, 3, 4, 5}
      OBVIOUS
    <2>4. \A i \in 1 .. 5 :
            /\ What(RecoverSteps[i]) \notin {"begin", "start", "backup", "primary", "sync"}
            /\ What(RecoverSteps[i]) = "rest" <=> i = 5
            /\ What(RecoverSteps[i]) \in {"rest", "match"} => Of(RecoverSteps[i]) = "group"
            /\ What(RecoverSteps[i]) = "read" => i < 4
            /\ What(RecoverSteps[i]) = "match" => i = 4
      BY <2>2, <2>3
    <2> QED BY <2>1, <2>2, <2>4 DEF Orderly, E
  <1>6. Orderly(CreateSteps)
    <2>1. CreateSteps \in Seq(E)
      <3>1. /\ <<"backup", "wal">> \in E /\ <<"sync", "wal">> \in E /\ <<"primary", "wal">> \in E
            /\ <<"backup", "snapshot">> \in E /\ <<"sync", "snapshot">> \in E
            /\ <<"primary", "snapshot">> \in E
            /\ <<"backup", "data">> \in E /\ <<"sync", "data">> \in E /\ <<"primary", "data">> \in E
            /\ <<"rest", "group">> \in E
        BY <1>1, <1>2
      <3> QED BY <3>1, Thirteen DEF CreateSteps
    <2>2. /\ Len(CreateSteps) = 13
           /\ What(CreateSteps[1]) = "backup" /\ Of(CreateSteps[1]) = "wal"
           /\ What(CreateSteps[2]) = "sync" /\ Of(CreateSteps[2]) = "wal"
           /\ What(CreateSteps[3]) = "primary" /\ Of(CreateSteps[3]) = "wal"
           /\ What(CreateSteps[4]) = "sync" /\ Of(CreateSteps[4]) = "wal"
           /\ What(CreateSteps[5]) = "backup" /\ Of(CreateSteps[5]) = "snapshot"
           /\ What(CreateSteps[6]) = "sync" /\ Of(CreateSteps[6]) = "snapshot"
           /\ What(CreateSteps[7]) = "primary" /\ Of(CreateSteps[7]) = "snapshot"
           /\ What(CreateSteps[8]) = "sync" /\ Of(CreateSteps[8]) = "snapshot"
           /\ What(CreateSteps[9]) = "backup" /\ Of(CreateSteps[9]) = "data"
           /\ What(CreateSteps[10]) = "sync" /\ Of(CreateSteps[10]) = "data"
           /\ What(CreateSteps[11]) = "primary" /\ Of(CreateSteps[11]) = "data"
           /\ What(CreateSteps[12]) = "sync" /\ Of(CreateSteps[12]) = "data"
           /\ What(CreateSteps[13]) = "rest" /\ Of(CreateSteps[13]) = "group"
      BY DEF CreateSteps, What, Of
    <2>3. \A i \in 1 .. 13 : i \in {1, 2, 3, 4, 5, 6, 7, 8, 9, 10, 11, 12, 13}
      OBVIOUS
    <2>4. ASSUME NEW i \in 1 .. 13, What(CreateSteps[i]) \in {"backup", "primary"}
          PROVE  What(CreateSteps[i + 1]) = "sync" /\ Of(CreateSteps[i + 1]) = Of(CreateSteps[i])
      <3>1. i \in {1, 3, 5, 7, 9, 11}
        BY <2>2, <2>3, <2>4
      <3> QED BY <2>2, <3>1
    <2>5. \A i \in 1 .. 13 :
            /\ What(CreateSteps[i]) \in {"backup", "sync", "primary", "rest"}
            /\ What(CreateSteps[i]) = "rest" <=> i = 13
            /\ Of(CreateSteps[i]) = "data" => i >= 9
            /\ i >= 9 /\ What(CreateSteps[i]) # "rest" => Of(CreateSteps[i]) = "data"
            /\ What(CreateSteps[i]) = "rest" => Of(CreateSteps[i]) = "group"
      BY <2>2, <2>3
    <2>6. Len(CreateSteps) = 13
      BY <2>2
    <2> QED BY <2>1, <2>4, <2>5, <2>6 DEF Orderly, E
  <1> QED BY <1>3, <1>4, <1>5, <1>6

\* The steps of a create, and of a recovery.
LEMMA StepsFacts ==
    /\ CreateSteps # <<>> /\ What(CreateSteps[1]) = "backup"
    /\ \A i \in 1 .. Len(CreateSteps) : What(CreateSteps[i]) \in {"backup", "sync", "primary", "rest"}
    /\ \A c \in Copies, t \in Types :
         \E i \in 1 .. Len(CreateSteps) : What(CreateSteps[i]) = c /\ Of(CreateSteps[i]) = t
    /\ RecoverSteps # <<>> /\ What(RecoverSteps[1]) = "read"
    /\ \A i \in 1 .. Len(RecoverSteps) : What(RecoverSteps[i]) \in {"read", "match", "rest"}
    /\ \E i \in 1 .. Len(RecoverSteps) :
         What(RecoverSteps[i]) = "match" /\ Of(RecoverSteps[i]) = "group"
  <1>1. /\ Len(CreateSteps) = 13
        /\ What(CreateSteps[1]) = "backup" /\ Of(CreateSteps[1]) = "wal"
        /\ What(CreateSteps[3]) = "primary" /\ Of(CreateSteps[3]) = "wal"
        /\ What(CreateSteps[5]) = "backup" /\ Of(CreateSteps[5]) = "snapshot"
        /\ What(CreateSteps[7]) = "primary" /\ Of(CreateSteps[7]) = "snapshot"
        /\ What(CreateSteps[9]) = "backup" /\ Of(CreateSteps[9]) = "data"
        /\ What(CreateSteps[11]) = "primary" /\ Of(CreateSteps[11]) = "data"
    BY DEF CreateSteps, What, Of
  <1>2. \A i \in 1 .. 13 : What(CreateSteps[i]) \in {"backup", "sync", "primary", "rest"}
    BY DEF CreateSteps, What
  <1>3. \A c \in Copies, t \in Types :
          \E i \in 1 .. Len(CreateSteps) : What(CreateSteps[i]) = c /\ Of(CreateSteps[i]) = t
    <2>1. {1, 3, 5, 7, 9, 11} \subseteq 1 .. Len(CreateSteps)
      BY <1>1
    <2> QED BY <1>1, <2>1 DEF Copies, Types
  <1>4. Len(RecoverSteps) = 5
    BY DEF RecoverSteps
  <1>5. \A i \in 1 .. 5 : What(RecoverSteps[i]) \in {"read", "match", "rest"}
    BY DEF RecoverSteps, What
  <1>6. /\ What(RecoverSteps[1]) = "read"
        /\ What(RecoverSteps[4]) = "match" /\ Of(RecoverSteps[4]) = "group"
    BY DEF RecoverSteps, What, Of
  <1>7. CreateSteps # <<>> /\ RecoverSteps # <<>>
    BY DEF CreateSteps, RecoverSteps
  <1> QED BY <1>1, <1>2, <1>3, <1>4, <1>5, <1>6, <1>7

---------------------------------------------------------------------------
(* What a step of an Open finds, and leaves.                               *)

\* A step of an Open in progress.
LEMMA AtFacts ==
    ASSUME IInv, NEW step, NEW t, At(step, t)
    PROVE  /\ mode = "opening" /\ todo # <<>> /\ Orderly(todo)
           /\ 1 \in 1 .. Len(todo) /\ What(todo[1]) = step /\ Of(todo[1]) = t /\ Left(step, t)
           /\ list \in Lists /\ Len(groups) \in Nat
           /\ step \notin {"begin", "start"} => Working
           /\ step # "start" =>
                /\ Len(groups) + 1 \in 1 .. Len(list) /\ Place + 1 \in 1 .. Len(list)
                /\ Group \in [Types -> Disks]
                /\ \A u \in Types : Group[u] \in Disks
  <1>1. mode = "opening" /\ todo # <<>> /\ Orderly(todo) /\ list \in Lists
    BY DEF IInv, Progress, At
  <1>2. 1 \in 1 .. Len(todo) /\ todo[1] = <<step, t>>
    BY <1>1, OrderlyTail DEF At
  <1>3. What(todo[1]) = step /\ Of(todo[1]) = t
    BY <1>2 DEF What, Of
  <1>4. Left(step, t)
    BY <1>2, <1>3 DEF Left
  <1>5. Len(groups) \in Nat
    <2>1. groups \in Seq({groups[i] : i \in 1 .. Len(groups)})
      BY DEF IInv, AllOpened
    <2> QED BY <2>1, LenProperties
  <1>6. step \notin {"begin", "start"} => Working
    BY <1>1, <1>3 DEF Working
  <1>7. ASSUME step # "start"
        PROVE  /\ Len(groups) + 1 \in 1 .. Len(list) /\ Place + 1 \in 1 .. Len(list)
               /\ Group \in [Types -> Disks] /\ \A u \in Types : Group[u] \in Disks
    <2>1. Len(groups) < Len(list)
      BY <1>1, <1>3, <1>7 DEF IInv, Progress
    <2>2. Len(list) \in Nat /\ \A i \in 1 .. Len(list) : list[i] \in [Types -> Disks]
      BY <1>1, ListFacts
    <2>3. Len(groups) + 1 \in 1 .. Len(list)
      BY <1>5, <2>1, <2>2
    <2>4. Group \in [Types -> Disks]
      BY <2>2, <2>3 DEF Group
    <2> QED BY <2>3, <2>4 DEF Place
  <1> QED BY <1>1, <1>2, <1>3, <1>4, <1>5, <1>6, <1>7

\* The next step of the group in hand.
LEMMA AdvanceFacts ==
    ASSUME IInv, NEW step, NEW t, At(step, t), step \notin {"begin", "rest", "start"}, Advance,
           sb' = [u \in Types |-> sb'[u]]
    PROVE  /\ Progress' /\ Working' /\ todo' # <<>> /\ Group' = Group /\ Place' = Place
           /\ 2 \in 1 .. Len(todo) /\ todo'[1] = todo[2]
           /\ \A x, u : Left(x, u)' => Left(x, u)
           /\ \A x, u : Left(x, u) => Left(x, u)' \/ (x = step /\ u = t)
  <1>1. /\ mode = "opening" /\ todo # <<>> /\ Orderly(todo) /\ 1 \in 1 .. Len(todo)
        /\ What(todo[1]) = step /\ Of(todo[1]) = t
    BY AtFacts
  <1>2. todo' = Tail(todo) /\ UNCHANGED <<mode, create, list, groups, outcome>>
    BY DEF Advance
  <1>3. /\ Orderly(todo') /\ Len(todo) \in Nat /\ Len(todo') = Len(todo) - 1
        /\ \A i \in 1 .. Len(todo') : i + 1 \in 1 .. Len(todo) /\ todo'[i] = todo[i + 1]
        /\ \A j \in 1 .. Len(todo) : j = 1 \/ \E i \in 1 .. Len(todo') : j = i + 1 /\ todo'[i] = todo[j]
    BY <1>1, <1>2, OrderlyTail
  <1>4. 2 \in 1 .. Len(todo)
    BY <1>1 DEF Orderly
  <1>5. 1 \in 1 .. Len(todo') /\ todo'[1] = todo[2] /\ todo' # <<>>
    <2>1. 1 \in 1 .. Len(todo')
      BY <1>3, <1>4
    <2>2. todo'[1] = todo[1 + 1]
      BY <1>3, <2>1
    <2>3. todo' # <<>>
      BY <2>1
    <2> QED BY <2>1, <2>2, <2>3
  <1>6. What(todo[2]) \notin {"begin", "start"}
    BY <1>1, <1>4 DEF Orderly
  <1>7. Working'
    BY <1>1, <1>2, <1>5, <1>6 DEF Working
  <1>8. Group' = Group /\ Place' = Place
    BY <1>2 DEF Group, Place
  <1>9. \A x, u : Left(x, u)' => Left(x, u)
    BY <1>3 DEF Left
  <1>10. \A x, u : Left(x, u) => Left(x, u)' \/ (x = step /\ u = t)
    BY <1>1, <1>3 DEF Left
  <1>11. Progress'
    <2>1. ASSUME NEW P, \A j \in 1 .. Len(todo) : What(todo[j]) \notin P
          PROVE  \A i \in 1 .. Len(todo') : What(todo'[i]) \notin P
      BY <1>3, <2>1
    <2>2. /\ create' => \A i \in 1 .. Len(todo') : What(todo'[i]) \notin {"read", "match"}
          /\ ~ create' =>
               \A i \in 1 .. Len(todo') : What(todo'[i]) \notin {"backup", "primary", "sync"}
      BY <1>2, <2>1 DEF IInv, Progress
    <2>3. Len(groups) < Len(list)
      BY <1>1 DEF IInv, Progress
    <2> QED BY <1>1, <1>2, <1>3, <1>5, <1>6, <2>2, <2>3 DEF IInv, Progress
  <1> QED BY <1>4, <1>5, <1>7, <1>8, <1>9, <1>10, <1>11

\* What is recorded of the creates.
LEMMA BornFacts ==
    ASSUME IInv
    PROVE  /\ born \in Seq(Births) /\ Len(born) \in Nat
           /\ \A k \in 1 .. Len(born) :
                /\ born[k] \in Births /\ born[k].disks \in [Types -> Disks]
                /\ \A t \in Types : born[k].disks[t] \in Disks
                /\ born[k].disks["snapshot"] \in Disks /\ born[k].open \in Nat
  <1>1. born \in Seq(Births)
    BY DEF IInv, History
  <1>2. Len(born) \in Nat /\ \A k \in 1 .. Len(born) : born[k] \in Births
    BY <1>1, ElementOfSeq, LenProperties
  <1>3. \A k \in 1 .. Len(born) : born[k].disks \in [Types -> Disks] /\ born[k].open \in Nat
    BY <1>2 DEF Births
  <1> QED BY <1>1, <1>2, <1>3 DEF Types

---------------------------------------------------------------------------
(* What steps keep.                                                        *)

\* Contents that are lost, and torn ones, do no harm.
LEMMA Shrink ==
    ASSUME IInv, UNCHANGED born,
           copy' = [d \in Disks |-> [c \in Copies |-> copy'[d][c]]],
           copy_maybe' = [d \in Disks |-> [c \in Copies |-> copy_maybe'[d][c]]],
           \A d \in Disks, c \in Copies : copy'[d][c] \in copy_maybe'[d][c],
           \A d \in Disks : On(d)' \subseteq On(d) \cup {Torn}
    PROVE  /\ Contents' /\ SnapshotFirst' /\ (UNCHANGED done => DoneWritten')
           /\ \A d \in Disks : \A k : Floor(d, k) => Floor(d, k)'
  <1>1. \A d \in Disks : \A s \in On(d)' : Valid(s) => s \in On(d)
    BY NoSuperBlock
  <1>2. \A d \in Disks : \A k : Floor(d, k) => Floor(d, k)'
    BY <1>1 DEF Floor
  <1>3. \A d \in Disks : \A s : Home(d, s) => Home(d, s)'
    BY DEF Home
  <1>4. \A d \in Disks : \A s \in On(d) : Valid(s) => Home(d, s)
    BY DEF IInv, Contents
  <1>5. Contents'
    BY <1>1, <1>3, <1>4 DEF Contents
  <1>6. \A k \in 1 .. Len(born), t \in Types : born[k].disks[t] \in Disks
    BY BornFacts
  <1>7. SnapshotFirst'
    <2> SUFFICES ASSUME NEW d \in Disks, NEW s \in On(d)', Valid(s), s.type = "data"
                 PROVE  Floor(born[CreateOf(s)].disks["snapshot"], CreateOf(s))'
      BY DEF SnapshotFirst
    <2>1. s \in On(d) /\ CreateOf(s) \in 1 .. Len(born)
      BY <1>1, <1>4 DEF Home
    <2>2. Floor(born[CreateOf(s)].disks["snapshot"], CreateOf(s))
      BY <2>1 DEF IInv, SnapshotFirst
    <2>3. born[CreateOf(s)].disks["snapshot"] \in Disks
      BY <1>6, <2>1 DEF Types
    <2>4. born' = born
      OBVIOUS
    <2> QED BY <1>2, <2>2, <2>3, <2>4
  <1>8. UNCHANGED done => DoneWritten'
    <2> SUFFICES ASSUME UNCHANGED done, NEW k \in done, NEW t \in Types
                 PROVE  Floor(born[k].disks[t], k)'
      BY DEF DoneWritten
    <2>1. k \in 1 .. Len(born)
      BY DEF IInv, History
    <2>2. Floor(born[k].disks[t], k)
      BY DEF IInv, DoneWritten
    <2>3. born[k].disks[t] \in Disks
      BY <1>6, <2>1
    <2> QED BY <1>2, <2>2, <2>3
  <1> QED BY <1>2, <1>5, <1>7, <1>8

\* The steps that write to no device.
LEMMA DevicesKept ==
    ASSUME IInv, UNCHANGED <<device, born, done>>
    PROVE  /\ Contents' /\ SnapshotFirst' /\ DoneWritten'
           /\ \A d \in Disks : \A k : Floor(d, k) => Floor(d, k)'
  <1>1. UNCHANGED <<copy, copy_maybe>>
    BY DEF device
  <1>2. \A d : On(d)' = On(d)
    BY <1>1 DEF On
  <1>3. /\ copy' = [d \in Disks |-> [c \in Copies |-> copy'[d][c]]]
        /\ copy_maybe' = [d \in Disks |-> [c \in Copies |-> copy_maybe'[d][c]]]
        /\ \A d \in Disks, c \in Copies : copy'[d][c] \in copy_maybe'[d][c]
    BY <1>1 DEF IInv, Contents
  <1> QED BY <1>2, <1>3, Shrink

\* The history of creates.
LEMMA HistoryKept ==
    ASSUME IInv, UNCHANGED <<born, finished, opens>>,
           UNCHANGED done \/ (done \subseteq done' /\ done' \subseteq 1 .. Len(born)),
           owner' \in [Disks -> 0 .. Len(born)],
           mode' = "down" \/ UNCHANGED <<mode, create, list>>
    PROVE  History' /\ FinishedDone'
  <1>1. FinishedDone'
    BY DEF IInv, FinishedDone
  <1>2. History'
    BY DEF IInv, History
  <1> QED BY <1>1, <1>2

\* The calls after which nothing is open.
LEMMA Down ==
    ASSUME mode' = "down", todo' = <<>>, groups' = <<>>, create' \in BOOLEAN,
           sb' = [t \in Types |-> sb'[t]],
           outcome' \in {"none", "failed", "refused"}
    PROVE  /\ (create \in BOOLEAN)' /\ Progress' /\ Building' /\ Reading' /\ AllOpened'
           /\ NotYet' /\ SnapshotOfThisCreate'
  <1>1. Len(groups') = 0 /\ Len(todo') = 0
    OBVIOUS
  <1>2. Progress'
    BY <1>1, OrderlySteps DEF Progress
  <1>3. Building' /\ Reading' /\ NotYet' /\ SnapshotOfThisCreate'
    BY DEF Building, Reading, NotYet, SnapshotOfThisCreate, Working
  <1>4. AllOpened'
    BY <1>1 DEF AllOpened
  <1> QED BY <1>2, <1>3, <1>4

\* The snapshots.
LEMMA SlotsKept ==
    ASSUME IInv, UNCHANGED <<born, slots, snapped>>,
           \A d \in Disks : \A k : Floor(d, k) => Floor(d, k)'
    PROVE  SlotsRight'
  <1>1. \A k \in 1 .. Len(born) : born[k].disks["snapshot"] \in Disks
    BY BornFacts
  <1> QED BY <1>1 DEF IInv, SlotsRight

\* The groups opened before share no device with the one in hand.
LEMMA OpenedKept ==
    ASSUME IInv, UNCHANGED <<groups, list, create, born, opens>>, done \subseteq done',
           list \in Lists, Len(groups) + 1 \in 1 .. Len(list), Len(groups) \in Nat,
           \A d \in Disks : (\A t \in Types : d # Group[t]) => On(d)' = On(d)
    PROVE  AllOpened'
  <1> SUFFICES ASSUME NEW i \in 1 .. Len(groups)
               PROVE  Opened(i)'
    BY DEF IInv, AllOpened
  <1>1. i \in 1 .. Len(list) /\ i # Len(groups) + 1
    <2>1. Len(list) \in Nat
      BY ListFacts
    <2> QED BY <2>1
  <1>2. \A t \in Types : list[i][t] \in Disks /\ On(list[i][t])' = On(list[i][t])
    <2> TAKE t \in Types
    <2>1. list[i] \in [Types -> Disks]
      BY <1>1, ListFacts
    <2>2. \A u \in Types : list[i][t] # Group[u]
      BY <1>1, ListFacts DEF Group
    <2> QED BY <2>1, <2>2
  <1>3. Opened(i)
    BY DEF IInv, AllOpened
  <1>4. list[i]' = list[i]
    OBVIOUS
  <1>5. \A t \in Types : \A k : Holds(list[i][t], k) => Holds(list[i][t], k)'
    BY <1>2 DEF Holds
  <1>6. \A k : Floor(list[i]["snapshot"], k) => Floor(list[i]["snapshot"], k)'
    BY <1>2 DEF Floor, Types
  <1> QED BY <1>3, <1>4, <1>5, <1>6 DEF Opened

\* A call that fails, and a process that ends.
LEMMA DownKept ==
    ASSUME IInv, mode' = "down", todo' = <<>>, groups' = <<>>, create' \in BOOLEAN,
           sb' = [t \in Types |-> sb'[t]], outcome' \in {"none", "failed", "refused"},
           UNCHANGED <<device, slots, born, done, finished, snapped, opens>>,
           owner' \in [Disks -> 0 .. Len(born)]
    PROVE  IInv'
  <1>1. /\ Contents' /\ SnapshotFirst' /\ DoneWritten'
        /\ \A d \in Disks : \A k : Floor(d, k) => Floor(d, k)'
    BY DevicesKept
  <1>2. SlotsRight'
    BY <1>1, SlotsKept
  <1>3. History' /\ FinishedDone'
    BY HistoryKept
  <1>4. /\ (create \in BOOLEAN)' /\ Progress' /\ Building' /\ Reading' /\ AllOpened'
        /\ NotYet' /\ SnapshotOfThisCreate'
    BY Down
  <1> QED BY <1>1, <1>2, <1>3, <1>4 DEF IInv

\* AbortOpen.
LEMMA FailKept ==
    ASSUME IInv, NEW why \in {"failed", "refused"}, Fail(why),
           UNCHANGED <<device, slots, born, owner, done, finished, snapped, opens>>
    PROVE  IInv'
  <1>1. /\ mode' = "down" /\ todo' = <<>> /\ groups' = <<>> /\ create' \in BOOLEAN
        /\ sb' = [t \in Types |-> sb'[t]] /\ outcome' \in {"none", "failed", "refused"}
    BY DEF Fail, NoBlock
  <1>2. owner' \in [Disks -> 0 .. Len(born)]
    BY DEF IInv, History
  <1> QED BY <1>1, <1>2, DownKept

\* The end of the process leaves the devices as they are.
LEMMA StoppedKept ==
    ASSUME IInv, Stopped,
           UNCHANGED <<device, slots, born, owner, done, finished, snapped, opens>>
    PROVE  IInv'
  <1>1. /\ mode' = "down" /\ todo' = <<>> /\ groups' = <<>> /\ create' \in BOOLEAN
        /\ sb' = [t \in Types |-> sb'[t]] /\ outcome' \in {"none", "failed", "refused"}
    BY DEF Stopped, NoBlock
  <1>2. owner' \in [Disks -> 0 .. Len(born)]
    BY DEF IInv, History
  <1> QED BY <1>1, <1>2, DownKept

---------------------------------------------------------------------------
(* Every step keeps the invariant.                                         *)

\* Blank devices satisfy the invariant.
LEMMA InitIInv == Init => IInv
  <1> SUFFICES ASSUME Init PROVE IInv
    OBVIOUS
  <1>1. /\ mode = "down" /\ create = FALSE /\ list = <<>> /\ todo = <<>> /\ sb = NoBlock
        /\ groups = <<>> /\ outcome = "none" /\ born = <<>> /\ owner = [d \in Disks |-> 0]
        /\ done = {} /\ finished = {} /\ snapped = {} /\ opens = 0
        /\ slots = [d \in Disks |-> 0]
    BY DEF Init
  <1>2. Len(born) = 0 /\ Len(todo) = 0 /\ Len(groups) = 0
    BY <1>1
  <1>3. \A d \in Disks, c \in Copies : copy[d][c] = Blank /\ copy_maybe[d][c] = {Blank}
    BY DEF Init
  <1>4. \A d \in Disks : \A s \in On(d) : ~ Valid(s)
    BY <1>3, NoSuperBlock DEF On, Copies
  <1>5. Contents
    <2>1. /\ copy = [d \in Disks |-> [c \in Copies |-> copy[d][c]]]
          /\ copy_maybe = [d \in Disks |-> [c \in Copies |-> copy_maybe[d][c]]]
      BY DEF Init
    <2> QED BY <1>3, <1>4, <2>1 DEF Contents
  <1>6. SnapshotFirst /\ DoneWritten
    BY <1>1, <1>4 DEF SnapshotFirst, DoneWritten
  <1>7. History /\ FinishedDone
    BY <1>1, <1>2 DEF History, FinishedDone
  <1>8. Progress
    <2>1. sb = [t \in Types |-> sb[t]]
      BY <1>1 DEF NoBlock
    <2> QED BY <1>1, <1>2, <2>1, OrderlySteps DEF Progress
  <1>9. Building /\ Reading /\ NotYet /\ SnapshotOfThisCreate
    BY <1>1 DEF Building, Reading, NotYet, SnapshotOfThisCreate, Working
  <1>10. AllOpened
    BY <1>1, <1>2 DEF AllOpened
  <1>11. SlotsRight
    BY <1>1, <1>2 DEF SlotsRight
  <1> QED BY <1>1, <1>5, <1>6, <1>7, <1>8, <1>9, <1>10, <1>11 DEF IInv

\* A call of Open starts with no group in hand, and no create of this call has begun.
LEMMA OpenKeeps ==
    ASSUME IInv, NEW wipe \in BOOLEAN, NEW l \in Lists, Open(wipe, l)
    PROVE  IInv'
  <1>1. /\ opens' = opens + 1 /\ mode' = "opening" /\ create' = wipe /\ list' = l
        /\ groups' = <<>> /\ sb' = NoBlock /\ outcome' = "none" /\ todo' = << <<"begin", "group">> >>
        /\ UNCHANGED <<device, slots, ghost>>
    BY DEF Open
  <1>2. UNCHANGED <<born, owner, done, finished, snapped>>
    BY <1>1 DEF ghost
  <1>3. /\ Contents' /\ SnapshotFirst' /\ DoneWritten'
        /\ \A d \in Disks : \A k : Floor(d, k) => Floor(d, k)'
    BY <1>1, <1>2, DevicesKept
  <1>4. SlotsRight'
    BY <1>1, <1>2, <1>3, SlotsKept
  <1>5. FinishedDone'
    BY <1>2 DEF IInv, FinishedDone
  <1>6. Len(born) \in Nat /\ \A k \in 1 .. Len(born) : born[k].open \in Nat
    BY BornFacts
  <1>7. /\ opens \in Nat /\ \A k \in 1 .. Len(born) : born[k].open <= opens
        /\ finished \subseteq 0 .. opens
    BY DEF IInv, History
  <1>8. \A k \in 1 .. Len(born) : born[k].open # opens' /\ born[k].open <= opens'
    BY <1>1, <1>6, <1>7
  <1>9. opens' \notin finished /\ opens' \in Nat
    BY <1>1, <1>7
  <1>10. History'
    <2>1. finished \subseteq 0 .. opens'
      BY <1>1, <1>7
    <2> QED BY <1>1, <1>2, <1>8, <1>9, <2>1 DEF IInv, History
  <1>11. Len(groups') = 0 /\ Len(todo') = 1
    BY <1>1
  <1>12. What(todo'[1]) = "begin" /\ \A i \in 1 .. Len(todo') : i = 1
    BY <1>1, <1>11 DEF What
  <1>13. Progress'
    <2>1. sb' = [t \in Types |-> sb'[t]]
      BY <1>1 DEF NoBlock
    <2>2. Orderly(todo')
      BY <1>1, OrderlySteps
    <2>3. 0 < Len(l)
      BY ListFacts
    <2>4. todo' # <<>>
      BY <1>11
    <2>5. \A i \in 1 .. Len(todo') : What(todo'[i]) = "begin"
      BY <1>12
    <2> QED BY <1>1, <1>11, <2>1, <2>2, <2>3, <2>4, <2>5, <1>12 DEF Progress
  <1>14. Building' /\ Reading'
    BY <1>12 DEF Building, Reading, Working
  <1>15. NotYet' /\ SnapshotOfThisCreate' /\ AllOpened'
    BY <1>1, <1>2, <1>8, <1>11 DEF NotYet, SnapshotOfThisCreate, AllOpened
  <1> QED BY <1>1, <1>3, <1>4, <1>5, <1>10, <1>13, <1>14, <1>15 DEF IInv

\* The first step of CreateDeviceGroup.
LEMMA BeginCreateKeeps ==
    ASSUME IInv, BeginCreate
    PROVE  IInv'
  <1>1. /\ At("begin", "group") /\ create
        /\ UNCHANGED <<device, slots, owner, done, finished, snapped, opens>>
    BY DEF BeginCreate
  <1>2. CASE Fail("failed") /\ UNCHANGED born
    BY <1>1, <1>2, FailKept
  <1> DEFINE k == Len(born) + 1
             r == [disks |-> Group, id |-> Place, count |-> Len(list), list |-> list, open |-> opens]
             n == blocks[Group["data"]]
  <1>3. ASSUME sb' = [t \in Types |-> SuperBlock(t, k, Place, Len(list), n)],
               born' = Append(born, r), todo' = CreateSteps,
               UNCHANGED <<mode, create, list, groups, outcome>>
        PROVE  IInv'
    <2>1. /\ mode = "opening" /\ list \in Lists /\ Len(groups) \in Nat /\ Group \in [Types -> Disks]
          /\ Len(groups) + 1 \in 1 .. Len(list)
      BY <1>1, AtFacts
    <2>2. Len(list) \in Nat /\ opens \in Nat /\ Place \in Nat
      BY <2>1, ListFacts DEF Place, IInv, History
    <2>3. r \in Births
      BY <2>1, <2>2 DEF Births
    <2>4. born \in Seq(Births) /\ Len(born) \in Nat /\ \A j \in 1 .. Len(born) : born[j] \in Births
      BY BornFacts
    <2> HIDE DEF r, n
    <2>5. /\ born' \in Seq(Births) /\ Len(born') = k /\ born'[k] = r
          /\ \A j \in 1 .. Len(born) : born'[j] = born[j]
      BY <1>3, <2>3, <2>4, AppendProperties
    <2>6. k \in Nat /\ 1 .. Len(born) \subseteq 1 .. k /\ k \in 1 .. k
          /\ \A j \in 1 .. k : j = k \/ j \in 1 .. Len(born)
      BY <2>4
    <2> HIDE DEF k
    <2>7. r.disks = Group /\ r.id = Place /\ r.count = Len(list) /\ r.list = list /\ r.open = opens
      BY DEF r
    <2>8. \A d : On(d)' = On(d)
      BY <1>1 DEF On, device
    <2>9. \A d, j : (Floor(d, j)' <=> Floor(d, j)) /\ (Holds(d, j)' <=> Holds(d, j))
      BY <2>8 DEF Floor, Holds
    <2>10. Contents'
      <3>1. \A d \in Disks : \A s : Home(d, s) => Home(d, s)'
        BY <2>5, <2>6 DEF Home
      <3>2. UNCHANGED <<copy, copy_maybe>>
        BY <1>1 DEF device
      <3> QED BY <2>8, <3>1, <3>2 DEF IInv, Contents
    <2>11. SnapshotFirst'
      <3> SUFFICES ASSUME NEW d \in Disks, NEW s \in On(d), Valid(s), s.type = "data"
                   PROVE  Floor(born[CreateOf(s)].disks["snapshot"], CreateOf(s))'
        BY <2>8 DEF SnapshotFirst
      <3>1. CreateOf(s) \in 1 .. Len(born)
        BY DEF IInv, Contents, Home
      <3>2. born'[CreateOf(s)] = born[CreateOf(s)]
        BY <2>5, <3>1
      <3>3. Floor(born[CreateOf(s)].disks["snapshot"], CreateOf(s))
        BY DEF IInv, SnapshotFirst
      <3> QED BY <2>9, <3>2, <3>3
    <2>12. done \subseteq 1 .. Len(born)
      BY DEF IInv, History
    <2>13. DoneWritten'
      BY <1>1, <2>5, <2>9, <2>12 DEF IInv, DoneWritten
    <2>14. /\ \A j \in 1 .. Len(born) : born[j].open <= opens
           /\ opens \notin finished
      BY <2>1 DEF IInv, History
    <2>15. History'
      <3>1. \A j \in 1 .. Len(born)' : born'[j].open <= opens
        BY <2>2, <2>5, <2>6, <2>7, <2>14
      <3>2. \A j \in 1 .. Len(born)' : born'[j].count = Len(born'[j].list)
        <4>1. \A j \in 1 .. Len(born) : born[j].count = Len(born[j].list)
          BY DEF IInv, History
        <4> QED BY <2>5, <2>6, <2>7, <4>1
      <3>3. ASSUME NEW i \in 1 .. Len(born)', NEW j \in 1 .. Len(born)', i <= j
            PROVE  born'[i].open <= born'[j].open
        <4>1. CASE j = k
          BY <2>5, <2>7, <3>1, <4>1
        <4>2. CASE j # k
          <5>1. i \in 1 .. Len(born) /\ j \in 1 .. Len(born)
            BY <2>4, <2>5, <2>6, <3>3, <4>2
          <5> QED BY <2>5, <3>3, <5>1 DEF IInv, History
        <4> QED BY <4>1, <4>2
      <3>4. \A j \in 1 .. Len(born)' : born'[j].open = opens => create /\ born'[j].list = list
        BY <1>1, <2>1, <2>5, <2>6, <2>7 DEF IInv, History
      <3>5. owner' \in [Disks -> 0 .. Len(born)']
        <4>1. 0 .. Len(born) \subseteq 0 .. Len(born)'
          BY <2>4, <2>5 DEF k
        <4> QED BY <1>1, <4>1 DEF IInv, History
      <3>6. done' \subseteq 1 .. Len(born)'
        BY <1>1, <2>5, <2>6, <2>12
      <3> QED BY <1>1, <1>3, <2>5, <2>14, <3>1, <3>3, <3>4, <3>5, <3>6, <3>2 DEF IInv, History
    <2>16. FinishedDone'
      <3> SUFFICES ASSUME NEW j \in 1 .. k, born'[j].open \in finished,
                          NEW i \in 1 .. Len(born'[j].list)
                   PROVE  \E m \in done : born'[m].open = born'[j].open /\ born'[m].disks = born'[j].list[i]
        BY <1>1, <2>5 DEF FinishedDone
      <3>1. j \in 1 .. Len(born)
        BY <2>5, <2>6, <2>7, <2>14
      <3>2. PICK m \in done : born[m].open = born[j].open /\ born[m].disks = born[j].list[i]
        BY <2>5, <3>1 DEF IInv, FinishedDone
      <3> QED BY <2>5, <2>12, <3>1, <3>2
    <2>17. \A t \in Types : Valid(sb'[t]) /\ sb'[t] = SuperBlock(t, k, Place, Len(list), sb'["data"].blocks)
      <3>1. "data" \in Types
        BY DEF Types
      <3>2. \A t \in Types : sb'[t] = SuperBlock(t, k, Place, Len(list), n)
        BY <1>3
      <3>3. sb'["data"].blocks = n
        BY <2>6, <3>1, <3>2, SuperBlockFacts
      <3> QED BY <2>6, <3>2, <3>3, SuperBlockFacts
    <2>18. Progress'
      <3>1. sb' = [t \in Types |-> sb'[t]]
        BY <1>3
      <3>2. Orderly(todo') /\ todo' # <<>> /\ What(todo'[1]) = "backup"
        BY <1>3, OrderlySteps, StepsFacts
      <3>3. \A i \in 1 .. Len(todo') : What(todo'[i]) \notin {"read", "match"}
        BY <1>3, StepsFacts
      <3>4. Len(groups) < Len(list)
        BY <2>1, <2>2
      <3> QED BY <1>1, <1>3, <2>1, <3>1, <3>2, <3>3, <3>4 DEF IInv, Progress
    <2>19. Building'
      <3>1. Group' = Group /\ Place' = Place /\ Len(list)' = Len(list) /\ list' = list /\ opens' = opens
        BY <1>1, <1>3 DEF Group, Place
      <3>2. \A c \in Copies, t \in Types : Left(c, t)'
        BY <1>3, StepsFacts DEF Left
      <3>3. \A t \in Types : \E step \in {"backup", "primary", "sync"} : Left(step, t)'
        BY <3>2 DEF Copies
      <3>4. What(todo'[1]) # "rest"
        BY <1>3, StepsFacts
      <3>5. born'[k] = [disks |-> Group, id |-> Place, count |-> Len(list),
                        list |-> list, open |-> opens]'
        BY <2>5, <3>1 DEF r
      <3> QED BY <2>5, <2>6, <2>17, <3>1, <3>2, <3>3, <3>4, <3>5 DEF Building
    <2>20. Reading'
      BY <1>1, <1>3 DEF Reading
    <2>21. AllOpened'
      <3> SUFFICES ASSUME NEW i \in 1 .. Len(groups) PROVE Opened(i)'
        BY <1>3 DEF IInv, AllOpened
      <3>1. Opened(i)
        BY DEF IInv, AllOpened
      <3>2. CreateOf(groups[i].sb) \in 1 .. Len(born)
        BY <3>1 DEF Opened
      <3> QED BY <1>1, <1>3, <2>5, <2>6, <2>9, <3>1, <3>2 DEF Opened
    <2>22. \A e \in snapped : \E j \in 1 .. Len(born) : e = Uuid(j, "engine")
      BY DEF IInv, SlotsRight
    <2>23. Uuid(k, "engine") \notin snapped
      <3> SUFFICES ASSUME Uuid(k, "engine") \in snapped PROVE FALSE
        OBVIOUS
      <3>1. PICK j \in 1 .. Len(born) : Uuid(k, "engine") = Uuid(j, "engine")
        BY <2>22
      <3>2. k = j
        BY <2>4, <2>6, <3>1, UuidFacts
      <3> QED BY <2>4, <3>2 DEF k
    <2>24. SlotsRight'
      <3>1. \A e \in snapped : \E j \in 1 .. k : e = Uuid(j, "engine")
        BY <2>6, <2>22
      <3>2. ASSUME NEW j \in 1 .. k, Uuid(j, "engine") \in snapped
            PROVE  (LET d == born[j].disks["snapshot"]
                    IN  Floor(d, j) /\ (slots[d] = Uuid(j, "engine") \/ Floor(d, j + 1)))'
        <4>1. j \in 1 .. Len(born) /\ born'[j] = born[j]
          BY <2>5, <2>6, <2>23, <3>2
        <4>2. LET d == born[j].disks["snapshot"]
              IN  Floor(d, j) /\ (slots[d] = Uuid(j, "engine") \/ Floor(d, j + 1))
          BY <3>2, <4>1 DEF IInv, SlotsRight
        <4> QED BY <1>1, <2>9, <4>1, <4>2
      <3> QED BY <1>1, <2>5, <3>1, <3>2 DEF IInv, SlotsRight
    <2>25. NotYet'
      BY <1>1, <1>3, <2>1, <2>5, <2>6, <2>23 DEF IInv, NotYet
    <2>26. SnapshotOfThisCreate'
      BY <1>1, <1>3 DEF IInv, SnapshotOfThisCreate
    <2> QED BY <1>1, <1>3, <2>10, <2>11, <2>13, <2>15, <2>16, <2>18, <2>19, <2>20, <2>21, <2>24,
               <2>25, <2>26 DEF IInv
  <1> QED BY <1>2, <1>3 DEF BeginCreate

\* The steps that change nothing but the super blocks in hand and the steps left.
LEMMA QuietKept ==
    ASSUME IInv, Progress', Building', Reading',
           UNCHANGED <<device, slots, born, owner, done, finished, snapped, opens,
                       mode, create, list, groups>>
    PROVE  IInv'
  <1>1. /\ Contents' /\ SnapshotFirst' /\ DoneWritten'
        /\ \A d \in Disks : \A k : Floor(d, k) => Floor(d, k)'
    BY DevicesKept
  <1>2. SlotsRight'
    BY <1>1, SlotsKept
  <1>3. History' /\ FinishedDone'
    BY HistoryKept DEF IInv, History
  <1>4. NotYet' /\ SnapshotOfThisCreate'
    BY DEF IInv, NotYet, SnapshotOfThisCreate
  <1>5. AllOpened'
    <2>1. \A d : On(d)' = On(d)
      BY DEF On, device
    <2>2. \A d, k : (Floor(d, k)' <=> Floor(d, k)) /\ (Holds(d, k)' <=> Holds(d, k))
      BY <2>1 DEF Floor, Holds
    <2> QED BY <2>2 DEF IInv, AllOpened, Opened
  <1> QED BY <1>1, <1>2, <1>3, <1>4, <1>5 DEF IInv

\* The first step of RecoverDeviceGroup.
LEMMA BeginRecoverKeeps ==
    ASSUME IInv, BeginRecover
    PROVE  IInv'
  <1>1. /\ At("begin", "group") /\ ~ create
        /\ UNCHANGED <<device, slots, born, owner, done, finished, snapped, opens>>
    BY DEF BeginRecover, ghost
  <1>2. CASE Fail("refused")
    BY <1>1, <1>2, FailKept
  <1>3. ASSUME todo' = RecoverSteps, UNCHANGED <<mode, create, list, groups, outcome, sb>>
        PROVE  IInv'
    <2>1. /\ mode = "opening" /\ What(todo[1]) = "begin" /\ todo # <<>>
      BY <1>1, AtFacts
    <2>2. sb = NoBlock
      BY <2>1 DEF IInv, Progress
    <2>3. Orderly(todo') /\ todo' # <<>> /\ What(todo'[1]) = "read"
      BY <1>3, OrderlySteps, StepsFacts
    <2>4. Progress'
      <3>1. \A i \in 1 .. Len(todo') : What(todo'[i]) \notin {"backup", "primary", "sync"}
        BY <1>3, StepsFacts
      <3> QED BY <1>1, <1>3, <2>1, <2>3, <3>1 DEF IInv, Progress
    <2>5. Building'
      BY <1>1, <1>3 DEF Building
    <2>6. Reading'
      <3>1. Left("match", "group")'
        BY <1>3, StepsFacts DEF Left
      <3>2. \A t \in Types : sb'[t] = Blank
        BY <1>3, <2>2, NoSuperBlock
      <3> QED BY <3>1, <3>2 DEF Reading
    <2> QED BY <1>1, <1>3, <2>4, <2>5, <2>6, QuietKept
  <1> QED BY <1>2, <1>3 DEF BeginRecover

\* A step that only recovery takes.
LEMMA RecoverOnly ==
    ASSUME IInv, NEW step \in {"read", "match"}, NEW t, At(step, t)
    PROVE  ~ create /\ Left("match", "group") /\ Reading /\ Working
  <1>1. /\ Orderly(todo) /\ 1 \in 1 .. Len(todo) /\ What(todo[1]) = step /\ Working
    BY AtFacts
  <1>2. ~ create
    BY <1>1 DEF IInv, Progress
  <1>3. \E j \in 1 .. Len(todo) : What(todo[j]) = "match" /\ Of(todo[j]) = "group"
    <2>1. PICK j \in 1 .. Len(todo) : What(todo[j]) = "match"
      BY <1>1 DEF Orderly
    <2> QED BY <1>1, <2>1 DEF Orderly
  <1> QED BY <1>1, <1>2, <1>3 DEF IInv, Left

\* ReadSuperBlockWithRepair, when it finds a super block.
LEMMA ReadKept ==
    ASSUME IInv, NEW t \in Types, At("read", t), Advance,
           UNCHANGED <<slots, born, owner, done, finished, snapped, opens>>,
           NEW s, Valid(s), s \in On(Group[t]), sb' = [sb EXCEPT ![t] = s],
           copy' = [d \in Disks |-> [c \in Copies |-> copy'[d][c]]],
           copy_maybe' = [d \in Disks |-> [c \in Copies |-> copy_maybe'[d][c]]],
           \A d \in Disks, c \in Copies : copy'[d][c] \in copy_maybe'[d][c],
           \A d \in Disks : On(d)' \subseteq On(d) \cup {Torn},
           \A d \in Disks : d = Group[t] => s \in On(d)',
           \A d \in Disks : d # Group[t] => On(d)' = On(d)
    PROVE  IInv'
  <1>1. /\ mode = "opening" /\ list \in Lists /\ Len(groups) \in Nat
        /\ Len(groups) + 1 \in 1 .. Len(list) /\ \A u \in Types : Group[u] \in Disks
    BY AtFacts
  <1>2. ~ create /\ Left("match", "group") /\ Reading /\ Working
    BY RecoverOnly
  <1>3. UNCHANGED <<mode, create, list, groups, outcome>>
    BY DEF Advance
  <1>4. sb = [u \in Types |-> sb[u]]
    BY DEF IInv, Progress
  <1>5. /\ sb' = [u \in Types |-> sb'[u]] /\ sb'[t] = s
        /\ \A u \in Types : u # t => sb'[u] = sb[u]
    BY <1>4
  <1>6. /\ Progress' /\ Group' = Group
        /\ \A x, u : Left(x, u) => Left(x, u)' \/ (x = "read" /\ u = t)
    BY <1>5, AdvanceFacts
  <1>7. /\ Contents' /\ SnapshotFirst' /\ DoneWritten'
        /\ \A d \in Disks : \A k : Floor(d, k) => Floor(d, k)'
    BY Shrink
  <1>8. SlotsRight'
    BY <1>7, SlotsKept
  <1>9. History' /\ FinishedDone'
    BY <1>3, HistoryKept DEF IInv, History
  <1>10. NotYet' /\ SnapshotOfThisCreate'
    BY <1>3 DEF IInv, NotYet, SnapshotOfThisCreate
  <1>11. AllOpened'
    BY <1>1, <1>3, OpenedKept
  <1>12. Building'
    BY <1>2, <1>3 DEF Building
  <1>13. Reading'
    <2>1. Left("match", "group")'
      BY <1>2, <1>6
    <2>2. \A d \in Disks : \A x : Home(d, x) => Home(d, x)'
      BY DEF Home
    <2>3. Read(t)'
      <3>1. Home(Group[t], s)
        BY <1>1 DEF IInv, Contents
      <3>2. Home(Group[t], s)'
        BY <1>1, <1>6, <2>2, <3>1 DEF Home
      <3>3. s \in On(Group[t])'
        BY <1>1, <1>6 DEF On
      <3> QED BY <1>5, <3>2, <3>3 DEF Read
    <2>4. ASSUME NEW u \in Types, u # t
          PROVE  sb'[u] = Blank \/ Read(u)'
      <3>1. sb[u] = Blank \/ Read(u)
        BY <1>2 DEF Reading
      <3>2. Group[u] # Group[t]
        BY <1>1, <2>4, ListFacts DEF Group
      <3>3. On(Group[u])' = On(Group[u])
        BY <1>1, <1>6, <3>2 DEF On
      <3>4. ASSUME Read(u) PROVE Read(u)'
        <4>1. Valid(sb[u]) /\ Home(Group[u], sb[u]) /\ sb[u] \in On(Group[u])
          BY <3>4 DEF Read
        <4>2. Home(Group[u], sb[u])'
          BY <1>5, <1>6, <2>4, <4>1 DEF Home
        <4> QED BY <1>5, <2>4, <3>3, <4>1, <4>2 DEF Read
      <3> QED BY <1>5, <2>4, <3>1, <3>4
    <2> QED BY <2>1, <2>3, <2>4 DEF Reading
  <1> QED BY <1>2, <1>3, <1>6, <1>7, <1>8, <1>9, <1>10, <1>11, <1>12, <1>13 DEF IInv

\* A good primary is what its create has built for this device.
LEMMA ReadPrimaryKeeps ==
    ASSUME IInv, NEW t \in Types, ReadPrimary(t)
    PROVE  IInv'
  <1> DEFINE s == copy[Group[t]]["primary"]
  <1>1. /\ At("read", t) /\ Valid(s) /\ Advance /\ sb' = [sb EXCEPT ![t] = s]
        /\ UNCHANGED <<slots, born, owner, done, finished, snapped, opens>>
        /\ UNCHANGED <<copy, copy_maybe>>
    BY DEF ReadPrimary, ghost, device
  <1>2. \A d : On(d)' = On(d)
    BY <1>1 DEF On
  <1>3. /\ copy' = [d \in Disks |-> [c \in Copies |-> copy'[d][c]]]
        /\ copy_maybe' = [d \in Disks |-> [c \in Copies |-> copy_maybe'[d][c]]]
        /\ \A d \in Disks, c \in Copies : copy'[d][c] \in copy_maybe'[d][c]
    BY <1>1 DEF IInv, Contents
  <1>4. s \in On(Group[t])
    <2>1. Group[t] \in Disks
      BY <1>1, AtFacts
    <2> QED BY <2>1 DEF IInv, Contents, On, Copies
  <1> HIDE DEF s
  <1> QED BY <1>1, <1>2, <1>3, <1>4, ReadKept

\* A write of one copy.
LEMMA WriteAtFacts ==
    ASSUME IInv, NEW d \in Disks, NEW c \in Copies, NEW s, NEW ok, WriteAt(d, c, s, ok)
    PROVE  /\ copy' = [e \in Disks |-> [b \in Copies |-> copy'[e][b]]]
           /\ copy_maybe' = [e \in Disks |-> [b \in Copies |-> copy_maybe'[e][b]]]
           /\ \A e \in Disks, b \in Copies : copy'[e][b] \in copy_maybe'[e][b]
           /\ \A e \in Disks : e # d => On(e)' = On(e) /\ copy'[e] = copy[e]
           /\ On(d)' = On(d) \cup {Torn, s}
           /\ ok => copy'[d][c] = s
           /\ \A b \in Copies : b # c => copy'[d][b] = copy[d][b]
  <1>1. /\ copy = [e \in Disks |-> [b \in Copies |-> copy[e][b]]]
        /\ copy_maybe = [e \in Disks |-> [b \in Copies |-> copy_maybe[e][b]]]
        /\ \A e \in Disks, b \in Copies : copy[e][b] \in copy_maybe[e][b]
    BY DEF IInv, Contents
  <1>2. PICK found \in IF ok THEN {s} ELSE {copy[d][c], Torn, s} :
            copy' = [copy EXCEPT ![d][c] = found]
    BY DEF WriteAt
  <1>3. copy_maybe' = [copy_maybe EXCEPT ![d][c] = @ \cup {Torn, s}]
    BY DEF WriteAt
  <1>4. /\ copy' = [e \in Disks |-> [b \in Copies |-> copy'[e][b]]]
        /\ copy'[d][c] = found
        /\ \A e \in Disks, b \in Copies : <<e, b>> # <<d, c>> => copy'[e][b] = copy[e][b]
        /\ \A e \in Disks : e # d => copy'[e] = copy[e]
    BY <1>1, <1>2
  <1>5. /\ copy_maybe' = [e \in Disks |-> [b \in Copies |-> copy_maybe'[e][b]]]
        /\ copy_maybe'[d][c] = copy_maybe[d][c] \cup {Torn, s}
        /\ \A e \in Disks, b \in Copies : <<e, b>> # <<d, c>> => copy_maybe'[e][b] = copy_maybe[e][b]
    BY <1>1, <1>3
  <1>6. \A e \in Disks, b \in Copies : copy'[e][b] \in copy_maybe'[e][b]
    <2>1. copy'[d][c] \in copy_maybe'[d][c]
      BY <1>1, <1>2, <1>4, <1>5
    <2> QED BY <1>1, <1>4, <1>5, <2>1
  <1>7. \A e \in Disks : e # d => On(e)' = On(e)
    BY <1>5 DEF On, Copies
  <1>8. On(d)' = On(d) \cup {Torn, s}
    <2>1. CASE c = "primary"
      <3>1. copy_maybe'[d]["backup"] = copy_maybe[d]["backup"]
        BY <1>5, <2>1 DEF Copies
      <3> QED BY <1>5, <2>1, <3>1 DEF On
    <2>2. CASE c = "backup"
      <3>1. copy_maybe'[d]["primary"] = copy_maybe[d]["primary"]
        BY <1>5, <2>2 DEF Copies
      <3> QED BY <1>5, <2>2, <3>1 DEF On
    <2> QED BY <2>1, <2>2 DEF Copies
  <1>9. ok => copy'[d][c] = s
    BY <1>2, <1>4
  <1>10. \A b \in Copies : b # c => copy'[d][b] = copy[d][b]
    BY <1>4
  <1> QED BY <1>4, <1>5, <1>6, <1>7, <1>8, <1>9, <1>10

\* So is a good backup, and it is all that a repair adds to the device.
LEMMA ReadBackupKeeps ==
    ASSUME IInv, NEW t \in Types, ReadBackup(t)
    PROVE  IInv'
  <1>1. At("read", t)
    BY DEF ReadBackup
  <1>2. PICK d \in Disks : d = Group[t]
    BY <1>1, AtFacts
  <1>3. PICK s \in On(d) : s = copy[d]["backup"]
    BY DEF IInv, Contents, On, Copies
  <1>4. /\ At("read", t) /\ Valid(s) /\ Advance /\ sb' = [sb EXCEPT ![t] = s]
        /\ UNCHANGED <<slots, born, owner, done, finished, snapped, opens>>
    BY <1>2, <1>3 DEF ReadBackup
  <1>5. \/ /\ copy' = [copy EXCEPT ![d]["primary"] = s]
           /\ copy_maybe' = [copy_maybe EXCEPT ![d] = [c \in Copies |-> {s}]]
        \/ \E ok \in BOOLEAN : WriteAt(d, "primary", s, ok)
    BY <1>2, <1>3 DEF ReadBackup
  <1>6. /\ copy' = [e \in Disks |-> [c \in Copies |-> copy'[e][c]]]
        /\ copy_maybe' = [e \in Disks |-> [c \in Copies |-> copy_maybe'[e][c]]]
        /\ \A e \in Disks, c \in Copies : copy'[e][c] \in copy_maybe'[e][c]
        /\ \A e \in Disks : On(e)' \subseteq On(e) \cup {Torn}
        /\ \A e \in Disks : e = d => s \in On(e)'
        /\ \A e \in Disks : e # d => On(e)' = On(e)
    <2>1. CASE /\ copy' = [copy EXCEPT ![d]["primary"] = s]
               /\ copy_maybe' = [copy_maybe EXCEPT ![d] = [c \in Copies |-> {s}]]
      <3>1. /\ copy = [e \in Disks |-> [b \in Copies |-> copy[e][b]]]
            /\ copy_maybe = [e \in Disks |-> [b \in Copies |-> copy_maybe[e][b]]]
            /\ \A e \in Disks, b \in Copies : copy[e][b] \in copy_maybe[e][b]
        BY DEF IInv, Contents
      <3>2. /\ copy' = [e \in Disks |-> [b \in Copies |-> copy'[e][b]]]
            /\ \A b \in Copies : copy'[d][b] = s
            /\ \A e \in Disks : e # d => copy'[e] = copy[e]
        BY <1>3, <2>1, <3>1 DEF Copies
      <3>3. /\ copy_maybe' = [e \in Disks |-> [b \in Copies |-> copy_maybe'[e][b]]]
            /\ \A b \in Copies : copy_maybe'[d][b] = {s}
            /\ \A e \in Disks : e # d => copy_maybe'[e] = copy_maybe[e]
        BY <2>1, <3>1
      <3>4. On(d)' = {s}
        BY <3>3 DEF On, Copies
      <3>5. \A e \in Disks : e # d => On(e)' = On(e)
        BY <3>3 DEF On
      <3>6. ASSUME NEW e \in Disks, NEW c \in Copies PROVE copy'[e][c] \in copy_maybe'[e][c]
        <4>1. CASE e = d
          BY <3>2, <3>3, <4>1
        <4>2. CASE e # d
          <5>1. copy'[e] = copy[e] /\ copy_maybe'[e] = copy_maybe[e]
            BY <3>2, <3>3, <4>2
          <5> QED BY <3>1, <5>1
        <4> QED BY <4>1, <4>2
      <3>7. \A e \in Disks : On(e)' \subseteq On(e) \cup {Torn}
        BY <3>4, <3>5
      <3> QED BY <3>2, <3>3, <3>4, <3>5, <3>6, <3>7
    <2>2. CASE \E ok \in BOOLEAN : WriteAt(d, "primary", s, ok)
      <3>1. "primary" \in Copies
        BY DEF Copies
      <3>2. PICK ok \in BOOLEAN : WriteAt(d, "primary", s, ok)
        BY <2>2
      <3> QED BY <3>1, <3>2, WriteAtFacts
    <2> QED BY <1>5, <2>1, <2>2
  <1> QED BY <1>4, <1>2, <1>6, ReadKept

\* Recovery that finds no super block gives up.
LEMMA ReadNothingKeeps ==
    ASSUME IInv, NEW t \in Types, ReadNothing(t)
    PROVE  IInv'
  BY FailKept DEF ReadNothing, ghost

\* The checks of RecoverDeviceGroup.
LEMMA MatchKeeps ==
    ASSUME IInv, Match
    PROVE  IInv'
  <1>1. /\ At("match", "group")
        /\ UNCHANGED <<device, slots, born, owner, done, finished, snapped, opens>>
    BY DEF Match, ghost
  <1>2. CASE Fail("refused")
    BY <1>1, <1>2, FailKept
  <1>3. ASSUME TypesMatch, EnginesMatch, IdsMatch, CountsMatch, Advance, UNCHANGED sb
        PROVE  IInv'
    <2>1. ~ create /\ Reading /\ Working
      BY <1>1, RecoverOnly
    <2>2. UNCHANGED <<mode, create, list, groups>>
      BY <1>3 DEF Advance
    <2>3. Progress' /\ Group' = Group /\ Place' = Place
      BY <1>1, <1>3, AdvanceFacts DEF IInv, Progress
    <2>4. Building'
      BY <2>1, <2>2 DEF Building
    <2>5. Reading'
      <3>1. TypesMatch' /\ EnginesMatch' /\ IdsMatch' /\ CountsMatch'
        BY <1>3, <2>2, <2>3 DEF TypesMatch, EnginesMatch, IdsMatch, CountsMatch
      <3>2. \A u \in Types : Read(u) => Read(u)'
        BY <1>1, <1>3, <2>3 DEF Read, Home, On, device
      <3> QED BY <1>3, <2>1, <3>1, <3>2 DEF Reading
    <2> QED BY <1>1, <2>2, <2>3, <2>4, <2>5, QuietKept
  <1> QED BY <1>2, <1>3 DEF Match

---------------------------------------------------------------------------
(* CreateDeviceGroup writes its super blocks.                              *)

\* A step that only create takes.
LEMMA CreateOnly ==
    ASSUME IInv, NEW step \in {"backup", "primary", "sync"}, NEW t \in Types, At(step, t)
    PROVE  /\ create /\ Working /\ Building /\ Len(born) \in Nat /\ Len(born) \in 1 .. Len(born)
           /\ born[Len(born)].open = opens /\ born[Len(born)].disks = Group
           /\ \A u \in Types :
                /\ Valid(sb[u]) /\ sb[u].type = u /\ CreateOf(sb[u]) = Len(born)
                /\ Home(Group[u], sb[u])
           /\ \A u, v \in Types : u # v => Group[u] # Group[v]
           /\ Uuid(Len(born), "engine") \notin snapped
           /\ t = "data" => On(Group["snapshot"]) = {sb["snapshot"]}
  <1> DEFINE k == Len(born)
  <1>1. /\ mode = "opening" /\ list \in Lists /\ Len(groups) + 1 \in 1 .. Len(list)
        /\ Orderly(todo) /\ 1 \in 1 .. Len(todo) /\ What(todo[1]) = step /\ Of(todo[1]) = t /\ Working
        /\ todo # <<>>
    BY AtFacts
  <1>2. create
    BY <1>1 DEF IInv, Progress
  <1>3. Building
    BY DEF IInv
  <1>4. k \in Nat
    BY BornFacts
  <1> HIDE DEF k
  <1>5. /\ k \in 1 .. Len(born)
        /\ born[k] = [disks |-> Group, id |-> Place, count |-> Len(list), list |-> list, open |-> opens]
        /\ \A u \in Types : sb[u] = SuperBlock(u, k, Place, Len(list), sb["data"].blocks)
    BY <1>1, <1>2, <1>3 DEF Building, k
  <1>6. born[k].open = opens /\ born[k].disks = Group /\ born[k].id = Place /\ born[k].count = Len(list)
    BY <1>5
  <1>7. ASSUME NEW u \in Types
        PROVE  /\ Valid(sb[u]) /\ sb[u].type = u /\ CreateOf(sb[u]) = k
               /\ Home(Group[u], sb[u])
    <2>1. sb[u] = SuperBlock(u, k, Place, Len(list), sb["data"].blocks)
      BY <1>5
    <2>2. /\ Valid(sb[u]) /\ sb[u].type = u /\ CreateOf(sb[u]) = k
          /\ sb[u] = SuperBlock(u, k, Place, Len(list), sb[u].blocks)
      BY <1>4, <2>1, SuperBlockFacts
    <2> QED BY <1>5, <1>6, <2>2 DEF Home
  <1>8. \A u, v \in Types : u # v => Group[u] # Group[v]
    BY <1>1, ListFacts DEF Group
  <1>9. Uuid(k, "engine") \notin snapped
    BY <1>1, <1>2, <1>5, <1>6 DEF IInv, NotYet
  <1>10. ASSUME t = "data" PROVE On(Group["snapshot"]) = {sb["snapshot"]}
    <2>1. ASSUME NEW x \in {"backup", "primary", "sync"}, Left(x, "snapshot")
          PROVE  FALSE
      <3>1. PICK j \in 1 .. Len(todo) : What(todo[j]) = x /\ Of(todo[j]) = "snapshot"
        BY <2>1 DEF Left
      <3>2. j # 1
        BY <1>1, <1>10, <3>1
      <3>3. Len(todo) \in Nat
        BY <1>1, OrderlyTail
      <3>4. 1 < j
        BY <3>2, <3>3
      <3> QED BY <1>1, <1>10, <3>1, <3>4 DEF Orderly
    <2> QED BY <1>1, <1>2, <1>3, <2>1 DEF Building, Types
  <1> QED BY <1>1, <1>2, <1>3, <1>4, <1>5, <1>6, <1>7, <1>8, <1>9, <1>10 DEF k

\* What a write of the group in hand does to the devices.
LEMMA WriteSafe ==
    ASSUME IInv, NEW c \in Copies, NEW t \in Types, At(c, t), UNCHANGED <<born, done, slots, snapped>>,
           NEW ok \in BOOLEAN, WriteAt(Group[t], c, sb[t], ok)
    PROVE  Contents' /\ SnapshotFirst' /\ DoneWritten' /\ SlotsRight'
  <1>1. /\ Len(born) \in Nat /\ born[Len(born)].disks = Group
        /\ \A u \in Types :
             /\ Valid(sb[u]) /\ sb[u].type = u /\ CreateOf(sb[u]) = Len(born)
             /\ Home(Group[u], sb[u])
        /\ \A u, v \in Types : u # v => Group[u] # Group[v]
        /\ Uuid(Len(born), "engine") \notin snapped
        /\ t = "data" => On(Group["snapshot"]) = {sb["snapshot"]}
    BY CreateOnly DEF Copies
  <1>2. \A u \in Types : Group[u] \in Disks
    BY AtFacts DEF Copies
  <1>3. PICK d \in Disks : d = Group[t]
    BY <1>2
  <1>4. PICK s : s = sb[t]
    OBVIOUS
  <1>5. PICK k \in Nat : k = Len(born)
    BY <1>1
  <1>6. Valid(s) /\ s.type = t /\ CreateOf(s) = k /\ Home(d, s)
    BY <1>1, <1>3, <1>4, <1>5
  <1>7. /\ copy' = [e \in Disks |-> [b \in Copies |-> copy'[e][b]]]
        /\ copy_maybe' = [e \in Disks |-> [b \in Copies |-> copy_maybe'[e][b]]]
        /\ \A e \in Disks, b \in Copies : copy'[e][b] \in copy_maybe'[e][b]
        /\ \A e \in Disks : e # d => On(e)' = On(e)
        /\ On(d)' = On(d) \cup {Torn, s}
    BY <1>3, <1>4, WriteAtFacts
  <1>8. \A e \in Disks : \A x \in On(e)' : Valid(x) => x \in On(e) \/ (e = d /\ x = s)
    BY <1>7, NoSuperBlock
  <1>9. ASSUME NEW e \in Disks, NEW j \in Int, j <= k, Floor(e, j)
        PROVE  Floor(e, j)'
    BY <1>6, <1>8, <1>9 DEF Floor
  <1>10. \A e \in Disks : \A x : Home(e, x) => Home(e, x)'
    BY DEF Home
  <1>11. \A e \in Disks : \A x \in On(e) : Valid(x) => Home(e, x)
    BY DEF IInv, Contents
  <1>12. Contents'
    BY <1>6, <1>7, <1>8, <1>10, <1>11 DEF Contents
  <1>13. \A j \in 1 .. k, u \in Types : j \in Int /\ j <= k /\ born[j].disks[u] \in Disks
    BY <1>5, BornFacts
  <1>14. SnapshotFirst'
    <2> SUFFICES ASSUME NEW e \in Disks, NEW x \in On(e)', Valid(x), x.type = "data"
                 PROVE  Floor(born[CreateOf(x)].disks["snapshot"], CreateOf(x))'
      BY DEF SnapshotFirst
    <2>1. CASE x \in On(e)
      <3>1. CreateOf(x) \in 1 .. k
        BY <1>5, <1>11, <2>1 DEF Home
      <3>2. Floor(born[CreateOf(x)].disks["snapshot"], CreateOf(x))
        BY <2>1 DEF IInv, SnapshotFirst
      <3>3. PICK g \in Disks : g = born[CreateOf(x)].disks["snapshot"]
        BY <1>13, <3>1 DEF Types
      <3>4. Floor(g, CreateOf(x))'
        BY <1>9, <1>13, <3>1, <3>2, <3>3 DEF Types
      <3> QED BY <3>3, <3>4 DEF Floor
    <2>2. CASE e = d /\ x = s
      <3>1. t = "data" /\ CreateOf(x) = k
        BY <1>6, <2>2
      <3>2. On(Group["snapshot"]) = {sb["snapshot"]} /\ Group["snapshot"] # Group["data"]
        BY <1>1, <3>1 DEF Types
      <3>3. PICK g \in Disks : g = Group["snapshot"]
        BY <1>2 DEF Types
      <3>4. Floor(g, k)
        BY <1>1, <1>5, <3>2, <3>3 DEF Floor, Types
      <3>5. Floor(g, k)'
        BY <1>9, <3>4
      <3>6. born'[k].disks["snapshot"] = g
        BY <1>1, <1>5, <3>3
      <3> QED BY <3>1, <3>5, <3>6 DEF Floor
    <2> QED BY <1>8, <2>1, <2>2
  <1>15. DoneWritten'
    <2> SUFFICES ASSUME NEW j \in done, NEW u \in Types PROVE Floor(born[j].disks[u], j)'
      BY DEF DoneWritten
    <2>1. j \in 1 .. k
      BY <1>5 DEF IInv, History
    <2>2. PICK g \in Disks : g = born[j].disks[u]
      BY <1>13, <2>1
    <2>3. Floor(g, j)
      BY <2>2 DEF IInv, DoneWritten
    <2>4. Floor(g, j)'
      BY <1>9, <1>13, <2>1, <2>3
    <2> QED BY <2>2, <2>4 DEF Floor
  <1>16. SlotsRight'
    <2>1. ASSUME NEW j \in 1 .. Len(born), Uuid(j, "engine") \in snapped
          PROVE  (LET g == born[j].disks["snapshot"]
                  IN  Floor(g, j) /\ (slots[g] = Uuid(j, "engine") \/ Floor(g, j + 1)))'
      <3>1. j \in 1 .. k /\ j # k
        BY <1>1, <1>5, <2>1
      <3>2. PICK g \in Disks : g = born[j].disks["snapshot"]
        BY <1>13, <3>1 DEF Types
      <3>3. Floor(g, j) /\ (slots[g] = Uuid(j, "engine") \/ Floor(g, j + 1))
        BY <2>1, <3>2 DEF IInv, SlotsRight
      <3>4. j \in Int /\ j <= k /\ j + 1 \in Int /\ j + 1 <= k
        BY <3>1
      <3>5. Floor(g, j)' /\ (slots[g] = Uuid(j, "engine") \/ Floor(g, j + 1)')
        BY <1>9, <3>3, <3>4
      <3> QED BY <3>2, <3>5
    <2> QED BY <2>1 DEF IInv, SlotsRight
  <1> QED BY <1>12, <1>14, <1>15, <1>16

\* One of the two writes of WriteSuperBlockPair, complete or not.
LEMMA WriteCopyKeeps ==
    ASSUME IInv, NEW c \in Copies, NEW t \in Types, WriteCopy(c, t)
    PROVE  IInv'
  <1>1. /\ At(c, t) /\ owner' = [owner EXCEPT ![Group[t]] = CreateOf(sb[t])]
        /\ UNCHANGED <<slots, born, done, finished, snapped, opens>>
    BY DEF WriteCopy
  <1>2. PICK ok \in BOOLEAN : /\ WriteAt(Group[t], c, sb[t], ok)
                              /\ IF ok THEN Advance /\ UNCHANGED sb ELSE Fail("failed")
    BY DEF WriteCopy, Outcomes
  <1>3. Contents' /\ SnapshotFirst' /\ DoneWritten' /\ SlotsRight'
    BY <1>1, <1>2, WriteSafe
  <1>4. /\ create /\ Working /\ Building /\ Len(born) \in Nat
        /\ CreateOf(sb[t]) = Len(born)
        /\ \A u, v \in Types : u # v => Group[u] # Group[v]
    BY <1>1, CreateOnly DEF Copies
  <1>5. owner' \in [Disks -> 0 .. Len(born)]
    <2>1. owner \in [Disks -> 0 .. Len(born)]
      BY DEF IInv, History
    <2>2. CreateOf(sb[t]) \in 0 .. Len(born)
      BY <1>4
    <2>3. owner' = [owner EXCEPT ![Group[t]] = CreateOf(sb[t])]
      BY <1>1
    <2> QED BY <2>1, <2>2, <2>3
  <1>6. CASE ~ ok
    <2>1. Fail("failed")
      BY <1>2, <1>6
    <2>2. /\ mode' = "down" /\ todo' = <<>> /\ groups' = <<>> /\ create' \in BOOLEAN
          /\ sb' = [u \in Types |-> sb'[u]] /\ outcome' \in {"none", "failed", "refused"}
      BY <2>1 DEF Fail, NoBlock
    <2>3. History' /\ FinishedDone'
      BY <1>1, <1>5, <2>2, HistoryKept
    <2>4. /\ (create \in BOOLEAN)' /\ Progress' /\ Building' /\ Reading' /\ AllOpened'
          /\ NotYet' /\ SnapshotOfThisCreate'
      BY <2>2, Down
    <2> QED BY <1>3, <2>3, <2>4 DEF IInv
  <1>7. CASE ok
    <2>1. Advance /\ UNCHANGED sb
      BY <1>2, <1>7
    <2>2. UNCHANGED <<mode, create, list, groups>>
      BY <2>1 DEF Advance
    <2>3. /\ mode = "opening" /\ list \in Lists /\ Len(groups) \in Nat
          /\ Len(groups) + 1 \in 1 .. Len(list) /\ \A u \in Types : Group[u] \in Disks
          /\ Orderly(todo) /\ 1 \in 1 .. Len(todo) /\ What(todo[1]) = c /\ Of(todo[1]) = t
      BY <1>1, AtFacts DEF Copies
    <2>4. /\ Progress' /\ Working' /\ todo' # <<>> /\ Group' = Group /\ Place' = Place
          /\ 2 \in 1 .. Len(todo) /\ todo'[1] = todo[2]
          /\ \A x, u : Left(x, u) => Left(x, u)' \/ (x = c /\ u = t)
      <3>1. sb' = [u \in Types |-> sb'[u]]
        BY <2>1 DEF IInv, Progress
      <3>2. c \notin {"begin", "rest", "start"}
        BY DEF Copies
      <3> QED BY <1>1, <2>1, <3>1, <3>2, AdvanceFacts
    <2>5. History' /\ FinishedDone'
      BY <1>1, <1>5, <2>2, HistoryKept
    <2>6. NotYet' /\ SnapshotOfThisCreate'
      BY <1>1, <2>2 DEF IInv, NotYet, SnapshotOfThisCreate
    <2>7. PICK d \in Disks : d = Group[t]
      BY <2>3
    <2>8. /\ \A e \in Disks : e # d => On(e)' = On(e) /\ copy'[e] = copy[e]
          /\ copy'[d][c] = sb[t]
          /\ \A b \in Copies : b # c => copy'[d][b] = copy[d][b]
      <3>1. PICK s : s = sb[t]
        OBVIOUS
      <3>2. WriteAt(d, c, s, ok)
        BY <1>2, <2>7, <3>1
      <3>3. /\ \A e \in Disks : e # d => On(e)' = On(e) /\ copy'[e] = copy[e]
            /\ ok => copy'[d][c] = s
            /\ \A b \in Copies : b # c => copy'[d][b] = copy[d][b]
        BY <3>2, WriteAtFacts
      <3> QED BY <1>7, <3>1, <3>3
    <2>9. AllOpened'
      BY <1>1, <2>2, <2>3, <2>7, <2>8, OpenedKept
    <2>10. Reading'
      BY <1>4, <2>2 DEF Reading
    <2>11. What(todo'[1]) = "sync" /\ Of(todo'[1]) = t
      <3>1. What(todo[1 + 1]) = "sync" /\ Of(todo[1 + 1]) = t
        BY <2>3 DEF Orderly, Copies
      <3> QED BY <2>4, <3>1
    <2>12. Left("sync", t)'
      <3>1. 1 \in 1 .. Len(todo')
        BY <2>4, OrderlyTail DEF Progress
      <3> QED BY <2>11, <3>1 DEF Left
    <2>13. ASSUME NEW u \in Types, NEW b \in Copies, ~ Left(b, u)'
           PROVE  copy'[Group[u]][b] = sb[u]
      <3>1. CASE b = c /\ u = t
        BY <2>7, <2>8, <3>1
      <3>2. CASE ~ (b = c /\ u = t)
        <4>1. copy[Group[u]][b] = sb[u]
          BY <1>4, <2>4, <2>13, <3>2 DEF Building
        <4>2. CASE u = t
          BY <2>7, <2>8, <3>2, <4>1, <4>2
        <4>3. CASE u # t
          <5>1. Group[u] \in Disks /\ Group[u] # d
            BY <1>4, <2>3, <2>7, <4>3
          <5> QED BY <2>8, <4>1, <5>1
        <4> QED BY <4>2, <4>3
      <3> QED BY <3>1, <3>2
    <2>14. ASSUME NEW u \in Types, \A step \in {"backup", "primary", "sync"} : ~ Left(step, u)'
           PROVE  On(Group[u])' = {sb[u]}
      <3>1. u # t
        BY <2>12, <2>14
      <3>2. On(Group[u]) = {sb[u]}
        <4>1. \A step \in {"backup", "primary", "sync"} : ~ Left(step, u)
          BY <2>4, <2>14, <3>1
        <4> QED BY <1>4, <4>1 DEF Building
      <3>3. PICK e \in Disks : e = Group[u] /\ e # d
        BY <1>4, <2>3, <2>7, <3>1
      <3>4. On(e)' = {sb[u]}
        BY <2>8, <3>2, <3>3
      <3> QED BY <2>4, <3>3, <3>4 DEF On
    <2>15. Building'
      BY <1>1, <1>4, <2>1, <2>2, <2>4, <2>11, <2>13, <2>14 DEF Building
    <2> QED BY <1>3, <1>4, <2>2, <2>4, <2>5, <2>6, <2>9, <2>10, <2>15 DEF IInv
  <1> QED BY <1>6, <1>7

\* The step that returns from CreateDeviceGroup.
LEMMA RestStep ==
    ASSUME Orderly(todo), 2 \in 1 .. Len(todo)
    PROVE  /\ What(todo[2]) = "rest" <=> todo[2] = <<"rest", "group">>
           /\ What(todo[2]) = "rest" => Len(todo) = 2
  <1>1. What(todo[2]) = "rest" => Of(todo[2]) = "group" /\ Len(todo) = 2
    BY DEF Orderly
  <1>2. todo[2] \in Steps \X (Types \cup {"group"})
    BY ElementOfSeq DEF Orderly
  <1>3. todo[2] = <<What(todo[2]), Of(todo[2])>>
    BY <1>2 DEF What, Of
  <1>4. todo[2] = <<"rest", "group">> => What(todo[2]) = "rest"
    BY DEF What
  <1> QED BY <1>1, <1>3, <1>4

\* The Sync after a write; the last one leaves nothing older on the devices of the group.
LEMMA SyncCopyKeeps ==
    ASSUME IInv, NEW t \in Types, SyncCopy(t)
    PROVE  IInv'
  <1>1. /\ At("sync", t)
        /\ UNCHANGED <<copy, slots, born, owner, finished, snapped, opens>>
    BY DEF SyncCopy
  <1>2. CASE Fail("failed") /\ UNCHANGED <<copy_maybe, done, harm>>
    BY <1>1, <1>2, FailKept DEF device
  <1>3. ASSUME Synced(Group[t]), Advance, Completes, UNCHANGED sb
        PROVE  IInv'
    <2>1. /\ create /\ Working /\ Building /\ Len(born) \in Nat /\ Len(born) \in 1 .. Len(born)
          /\ born[Len(born)].disks = Group
          /\ \A u \in Types : CreateOf(sb[u]) = Len(born)
          /\ \A u, v \in Types : u # v => Group[u] # Group[v]
      BY <1>1, CreateOnly
    <2>2. UNCHANGED <<mode, create, list, groups>>
      BY <1>3 DEF Advance
    <2>3. /\ mode = "opening" /\ list \in Lists /\ Len(groups) \in Nat /\ Orderly(todo)
          /\ Len(groups) + 1 \in 1 .. Len(list) /\ \A u \in Types : Group[u] \in Disks
      BY <1>1, AtFacts
    <2>4. /\ Progress' /\ Working' /\ todo' # <<>> /\ Group' = Group /\ Place' = Place
          /\ 2 \in 1 .. Len(todo) /\ todo'[1] = todo[2]
          /\ \A x, u : Left(x, u) => Left(x, u)' \/ (x = "sync" /\ u = t)
      BY <1>1, <1>3, AdvanceFacts DEF IInv, Progress
    <2>5. PICK d \in Disks : d = Group[t]
      BY <2>3
    <2>6. /\ copy = [e \in Disks |-> [b \in Copies |-> copy[e][b]]]
          /\ copy_maybe = [e \in Disks |-> [b \in Copies |-> copy_maybe[e][b]]]
          /\ \A e \in Disks, b \in Copies : copy[e][b] \in copy_maybe[e][b]
      BY DEF IInv, Contents
    <2>7. copy_maybe' = [copy_maybe EXCEPT ![d] = [c \in Copies |-> {copy[d][c]}]]
      BY <1>3, <2>5 DEF Synced
    <2>8. /\ copy_maybe' = [e \in Disks |-> [b \in Copies |-> copy_maybe'[e][b]]]
          /\ \A b \in Copies : copy_maybe'[d][b] = {copy[d][b]}
          /\ \A e \in Disks : e # d => copy_maybe'[e] = copy_maybe[e]
      BY <2>6, <2>7
    <2>9. On(d)' = {copy[d]["primary"], copy[d]["backup"]}
      BY <2>8 DEF On, Copies
    <2>10. \A e \in Disks : e # d => On(e)' = On(e)
      BY <2>8 DEF On
    <2>11. \A e \in Disks : On(e)' \subseteq On(e) \cup {Torn}
      <3>1. {copy[d]["primary"], copy[d]["backup"]} \subseteq On(d)
        BY <2>6 DEF On, Copies
      <3> QED BY <2>9, <2>10, <3>1
    <2>12. /\ copy' = [e \in Disks |-> [b \in Copies |-> copy'[e][b]]]
           /\ \A e \in Disks, b \in Copies : copy'[e][b] \in copy_maybe'[e][b]
      <3>1. ASSUME NEW e \in Disks, NEW b \in Copies PROVE copy[e][b] \in copy_maybe'[e][b]
        BY <2>6, <2>8
      <3> QED BY <1>1, <2>6, <3>1
    <2>13. /\ Contents' /\ SnapshotFirst' /\ (UNCHANGED done => DoneWritten')
           /\ \A e \in Disks : \A j : Floor(e, j) => Floor(e, j)'
      BY <1>1, <2>8, <2>11, <2>12, Shrink
    <2>14. SlotsRight'
      BY <1>1, <2>13, SlotsKept
    <2>15. done' = IF todo[2] = <<"rest", "group">> THEN done \cup {Len(born)} ELSE done
      BY <1>3, <2>1 DEF Completes, Types
    <2>16. done \subseteq 1 .. Len(born)
      BY DEF IInv, History
    <2>17. done \subseteq done' /\ done' \subseteq 1 .. Len(born)
      BY <2>1, <2>15, <2>16
    <2>18. History' /\ FinishedDone'
      BY <1>1, <2>2, <2>17, HistoryKept DEF IInv, History
    <2>19. NotYet' /\ SnapshotOfThisCreate'
      BY <1>1, <2>2 DEF IInv, NotYet, SnapshotOfThisCreate
    <2>20. AllOpened'
      BY <1>1, <2>2, <2>3, <2>5, <2>10, <2>17, OpenedKept
    <2>21. Reading'
      BY <2>1, <2>2 DEF Reading
    <2>22. ASSUME NEW u \in Types, NEW b \in Copies, ~ Left(b, u)'
           PROVE  copy[Group[u]][b] = sb[u]
      BY <2>1, <2>4, <2>22 DEF Building, Copies
    <2>23. ASSUME NEW u \in Types, \A step \in {"backup", "primary", "sync"} : ~ Left(step, u)'
           PROVE  On(Group[u])' = {sb[u]}
      <3>1. CASE u = t
        <4>1. copy[d]["primary"] = sb[u] /\ copy[d]["backup"] = sb[u]
          BY <2>5, <2>22, <2>23, <3>1 DEF Copies
        <4> QED BY <2>4, <2>5, <2>9, <3>1, <4>1 DEF On
      <3>2. CASE u # t
        <4>1. On(Group[u]) = {sb[u]}
          BY <2>1, <2>4, <2>23, <3>2 DEF Building
        <4>2. PICK e \in Disks : e = Group[u] /\ e # d
          BY <2>1, <2>3, <2>5, <3>2
        <4>3. On(e)' = {sb[u]}
          BY <2>10, <4>1, <4>2
        <4> QED BY <2>4, <4>2, <4>3 DEF On
      <3> QED BY <3>1, <3>2
    <2>24. What(todo'[1]) = "rest" => Len(born) \in done'
      BY <2>3, <2>4, <2>15, RestStep
    <2>25. Building'
      BY <1>1, <1>3, <2>1, <2>2, <2>4, <2>22, <2>23, <2>24 DEF Building
    <2>26. DoneWritten'
      <3>1. CASE todo[2] # <<"rest", "group">>
        BY <2>13, <2>15, <3>1
      <3>2. CASE todo[2] = <<"rest", "group">>
        <4>1. Len(todo) = 2 /\ What(todo[2]) = "rest"
          BY <2>3, <2>4, <3>2, RestStep
        <4>2. \A i \in 1 .. Len(todo') : What(todo'[i]) = "rest"
          <5>1. Len(todo') = Len(todo) - 1
            BY <1>3, <2>3, <2>4, OrderlyTail DEF Advance, Working
          <5>2. \A i \in 1 .. Len(todo') : i = 1
            BY <4>1, <5>1
          <5> QED BY <2>4, <4>1, <5>2
        <4>3. \A u \in Types : On(Group[u])' = {sb[u]}
          BY <2>23, <4>2 DEF Left
        <4>4. ASSUME NEW u \in Types PROVE Floor(born[Len(born)].disks[u], Len(born))'
          <5>1. \A x \in On(Group[u])' : CreateOf(x) = Len(born)
            BY <2>1, <4>3
          <5>2. (born[Len(born)].disks[u])' = Group[u]'
            BY <1>1, <2>1, <2>4
          <5>3. Len(born)' = Len(born) /\ Len(born) >= Len(born)
            BY <1>1, <2>1
          <5> QED BY <5>1, <5>2, <5>3 DEF Floor, On
        <4>5. ASSUME NEW j \in done, NEW u \in Types PROVE Floor(born[j].disks[u], j)'
          <5>1. PICK e \in Disks : e = born[j].disks[u]
            BY <2>16, BornFacts
          <5>2. Floor(e, j)
            BY <5>1 DEF IInv, DoneWritten
          <5>3. Floor(e, j)'
            BY <2>13, <5>2
          <5> QED BY <1>1, <5>1, <5>3 DEF Floor
        <4> QED BY <1>1, <2>15, <3>2, <4>4, <4>5 DEF DoneWritten
      <3> QED BY <3>1, <3>2
    <2> QED BY <2>1, <2>2, <2>4, <2>13, <2>14, <2>18, <2>19, <2>20, <2>21, <2>25, <2>26 DEF IInv
  <1> QED BY <1>2, <1>3 DEF SyncCopy

---------------------------------------------------------------------------
(* The rest of a group, and of the engine.                                 *)

\* The group in hand once its super blocks are written, or read and compared: it is one
\* create's, on just these devices.
LEMMA GroupInHand ==
    ASSUME IInv, At("rest", "group")
    PROVE  LET k == CreateOf(sb["data"])
           IN  /\ k \in 1 .. Len(born) /\ sb["data"].engine = Uuid(k, "engine")
               /\ born[k].disks = Group /\ born[k].id = Place /\ born[k].count = Len(list)
               /\ \A t \in Types : Holds(Group[t], k)
               /\ Floor(Group["snapshot"], k)
               /\ create => k \in done /\ born[k].open = opens /\ k = Len(born)
  <1>1. /\ mode = "opening" /\ todo # <<>> /\ Orderly(todo) /\ 1 \in 1 .. Len(todo)
        /\ What(todo[1]) = "rest" /\ Of(todo[1]) = "group" /\ Working
        /\ Group \in [Types -> Disks] /\ \A t \in Types : Group[t] \in Disks
    BY AtFacts
  <1>2. \A i \in 1 .. Len(todo) : What(todo[i]) = "rest"
    <2>1. Len(todo) = 1
      BY <1>1 DEF Orderly
    <2>2. \A i \in 1 .. Len(todo) : i = 1
      BY <2>1
    <2> QED BY <1>1, <2>2
  <1>3. Len(born) \in Nat
    BY BornFacts
  <1>4. "data" \in Types /\ "snapshot" \in Types
    BY DEF Types
  <1>5. CASE create
    <2>1. PICK k \in Nat : k = Len(born)
      BY <1>3
    <2>2. /\ k \in 1 .. Len(born)
          /\ born[k] = [disks |-> Group, id |-> Place, count |-> Len(list),
                        list |-> list, open |-> opens]
          /\ \A t \in Types : sb[t] = SuperBlock(t, k, Place, Len(list), sb["data"].blocks)
          /\ k \in done
      BY <1>1, <1>5, <2>1 DEF IInv, Building
    <2>3. /\ born[k].disks = Group /\ born[k].id = Place /\ born[k].count = Len(list)
          /\ born[k].open = opens
      BY <2>2
    <2>4. \A t \in Types : CreateOf(sb[t]) = k /\ Valid(sb[t]) /\ sb[t].engine = Uuid(k, "engine")
      BY <2>2, SuperBlockFacts
    <2>5. \A t \in Types : On(Group[t]) = {sb[t]}
      BY <1>1, <1>2, <1>5 DEF IInv, Building, Left
    <2>6. \A t \in Types : Holds(Group[t], k)
      BY <2>4, <2>5 DEF Holds
    <2>7. Floor(Group["snapshot"], k)
      BY <1>4, <2>4, <2>5 DEF Floor
    <2>8. CreateOf(sb["data"]) = k /\ sb["data"].engine = Uuid(k, "engine")
      BY <1>4, <2>4
    <2> QED BY <1>5, <2>1, <2>2, <2>3, <2>6, <2>7, <2>8
  <1>6. CASE ~ create
    <2>1. /\ \A t \in Types : sb[t] = Blank \/ Read(t)
          /\ TypesMatch /\ EnginesMatch /\ IdsMatch /\ CountsMatch
      <3>1. ~ Left("match", "group")
        BY <1>2 DEF Left
      <3> QED BY <1>1, <1>6, <3>1 DEF IInv, Reading
    <2>2. \A t \in Types : sb[t].type = t /\ Read(t)
      BY <2>1, NoSuperBlock DEF TypesMatch
    <2>3. PICK k : k = CreateOf(sb["data"])
      OBVIOUS
    <2>4. \A t \in Types : CreateOf(sb[t]) = k
      BY <2>1, <2>3 DEF EnginesMatch, CreateOf
    <2>5. \A t \in Types :
            /\ Valid(sb[t]) /\ sb[t] \in On(Group[t])
            /\ k \in 1 .. Len(born) /\ born[k].disks[t] = Group[t]
            /\ sb[t] = SuperBlock(t, k, born[k].id, born[k].count, sb[t].blocks)
      BY <2>2, <2>4 DEF Read, Home
    <2>6. k \in 1 .. Len(born) /\ k \in Nat
      BY <1>3, <1>4, <2>5
    <2>7. /\ sb["data"].engine = Uuid(k, "engine") /\ sb["data"].id = born[k].id
          /\ sb["data"].count = born[k].count
      BY <1>4, <2>5, <2>6, SuperBlockFacts
    <2>8. born[k].id = Place /\ born[k].count = Len(list)
      BY <1>4, <2>1, <2>7 DEF IdsMatch, CountsMatch
    <2>9. born[k].disks = Group
      <3>1. born[k].disks \in [Types -> Disks]
        BY <2>6, BornFacts
      <3> QED BY <1>1, <2>5, <3>1
    <2>10. \A t \in Types : Holds(Group[t], k)
      BY <2>4, <2>5 DEF Holds
    <2>11. Floor(Group["snapshot"], k)
      <3>1. sb["data"] \in On(Group["data"]) /\ Valid(sb["data"]) /\ sb["data"].type = "data"
        BY <1>4, <2>2, <2>5
      <3>2. Floor(born[k].disks["snapshot"], k)
        BY <1>1, <1>4, <2>3, <3>1 DEF IInv, SnapshotFirst
      <3> QED BY <2>9, <3>2
    <2> QED BY <1>6, <2>3, <2>6, <2>7, <2>8, <2>9, <2>10, <2>11
  <1> QED BY <1>5, <1>6

\* Clearing the slots takes no snapshot from a create that is still on the device.
LEMMA ClearKept ==
    ASSUME IInv, At("rest", "group"), UNCHANGED <<device, born, snapped>>,
           slots' = slots \/ (create /\ slots' = [slots EXCEPT ![Group["snapshot"]] = 0])
    PROVE  SlotsRight'
  <1>1. \A d : On(d)' = On(d)
    BY DEF On, device
  <1>2. \A d, j : Floor(d, j)' <=> Floor(d, j)
    BY <1>1 DEF Floor
  <1>3. CASE slots' = slots
    BY <1>2, <1>3, SlotsKept
  <1>4. CASE create /\ slots' = [slots EXCEPT ![Group["snapshot"]] = 0]
    <2>1. mode = "opening" /\ Group \in [Types -> Disks]
      BY AtFacts
    <2>2. PICK g \in Disks : g = Group["snapshot"]
      BY <2>1 DEF Types
    <2>3. Len(born) \in Nat /\ Len(born) \in 1 .. Len(born) /\ Floor(g, Len(born)) /\ born[Len(born)].open = opens
      <3>1. Floor(g, Len(born)) /\ born[Len(born)].open = opens /\ Len(born) \in 1 .. Len(born)
        BY <1>4, <2>2, GroupInHand
      <3> QED BY <3>1, BornFacts
    <2>4. Uuid(Len(born), "engine") \notin snapped
      BY <1>4, <2>1, <2>3 DEF IInv, NotYet
    <2>5. /\ slots = [d \in Disks |-> slots[d]]
          /\ \A d \in Disks : slots[d] # 0 => slots[d] \in snapped
          /\ \A e \in snapped : \E j \in 1 .. Len(born) : e = Uuid(j, "engine")
      BY DEF IInv, SlotsRight
    <2>6. /\ slots' = [d \in Disks |-> slots'[d]] /\ slots'[g] = 0
          /\ \A d \in Disks : d # g => slots'[d] = slots[d]
      BY <1>4, <2>2, <2>5
    <2>7. ASSUME NEW j \in 1 .. Len(born), Uuid(j, "engine") \in snapped
          PROVE  (LET d == born[j].disks["snapshot"]
                  IN  Floor(d, j) /\ (slots[d] = Uuid(j, "engine") \/ Floor(d, j + 1)))'
      <3>1. PICK d \in Disks : d = born[j].disks["snapshot"]
        BY BornFacts
      <3>2. Floor(d, j) /\ (slots[d] = Uuid(j, "engine") \/ Floor(d, j + 1))
        BY <2>7, <3>1 DEF IInv, SlotsRight
      <3>3. slots'[d] = Uuid(j, "engine") \/ Floor(d, j + 1)
        <4>1. CASE d # g
          BY <2>6, <3>2, <4>1
        <4>2. CASE d = g
          <5>1. j # Len(born)
            BY <2>4, <2>7
          <5>2. j + 1 <= Len(born) /\ j + 1 \in Int
            BY <2>3, <5>1
          <5>3. \A s \in On(g) : Valid(s) => CreateOf(s) \in Int
            BY <2>3 DEF IInv, Contents, Home
          <5> QED BY <2>3, <4>2, <5>2, <5>3 DEF Floor
        <4> QED BY <4>1, <4>2
      <3> QED BY <1>2, <3>1, <3>2, <3>3
    <2>8. \A d \in Disks : slots'[d] # 0 => slots'[d] \in snapped
      BY <2>5, <2>6
    <2> QED BY <2>5, <2>6, <2>7, <2>8 DEF SlotsRight
  <1> QED BY <1>3, <1>4

\* The group in hand becomes an opened one, with the snapshot of its own engine.
LEMMA OpenRestKeeps ==
    ASSUME IInv, OpenRest
    PROVE  IInv'
  <1> DEFINE r == [sb |-> sb["data"], index |-> IF create THEN 0 ELSE Loaded(sb["data"])]
  <1>1. /\ At("rest", "group")
        /\ UNCHANGED <<device, born, owner, done, finished, snapped, opens>>
        /\ slots' = slots \/ (create /\ slots' = [slots EXCEPT ![Group["snapshot"]] = 0])
    BY DEF OpenRest, ghost
  <1>2. SlotsRight'
    BY <1>1, ClearKept
  <1>3. Contents' /\ SnapshotFirst' /\ DoneWritten'
    BY <1>1, DevicesKept
  <1>4. CASE Fail("failed")
    <2>1. /\ mode' = "down" /\ todo' = <<>> /\ groups' = <<>> /\ create' \in BOOLEAN
          /\ sb' = [u \in Types |-> sb'[u]] /\ outcome' \in {"none", "failed", "refused"}
      BY <1>4 DEF Fail, NoBlock
    <2>2. History' /\ FinishedDone'
      BY <1>1, <2>1, HistoryKept DEF IInv, History
    <2>3. /\ (create \in BOOLEAN)' /\ Progress' /\ Building' /\ Reading' /\ AllOpened'
          /\ NotYet' /\ SnapshotOfThisCreate'
      BY <2>1, Down
    <2> QED BY <1>2, <1>3, <2>2, <2>3 DEF IInv
  <1>5. ASSUME groups' = Append(groups, r),
               todo' = << <<IF Len(groups') = Len(list) THEN "start" ELSE "begin", "group">> >>,
               sb' = NoBlock, UNCHANGED <<mode, create, list, outcome>>
        PROVE  IInv'
    <2>1. /\ mode = "opening" /\ list \in Lists /\ Len(groups) \in Nat
          /\ Len(groups) + 1 \in 1 .. Len(list)
      BY <1>1, AtFacts
    <2>2. PICK n \in Nat : n = Len(groups) + 1
      BY <2>1
    <2>3. n \in 1 .. Len(list) /\ Len(list) \in Nat /\ Group = list[n] /\ Place = n - 1
      BY <2>1, <2>2, ListFacts DEF Group, Place
    <2>4. r.sb = sb["data"] /\ r.index = IF create THEN 0 ELSE Loaded(sb["data"])
      OBVIOUS
    <2> HIDE DEF r
    <2>5. groups \in Seq({groups[i] : i \in 1 .. Len(groups)})
      BY DEF IInv, AllOpened
    <2>6. /\ groups' \in Seq({groups'[i] : i \in 1 .. Len(groups')})
          /\ Len(groups') = n /\ groups'[n] = r
          /\ \A i \in 1 .. Len(groups) : groups'[i] = groups[i]
      BY <1>5, <2>2, <2>5, Appended
    <2>7. \A i \in 1 .. n : i = n \/ i \in 1 .. Len(groups)
      BY <2>1, <2>2
    <2>8. History' /\ FinishedDone'
      BY <1>1, <1>5, HistoryKept DEF IInv, History
    <2>9. NotYet'
      BY <1>1, <1>5 DEF IInv, NotYet
    <2>10. PICK x \in {"begin", "start"} : /\ x = IF Len(groups') = Len(list) THEN "start" ELSE "begin"
                                           /\ todo' = << <<x, "group">> >>
      BY <1>5
    <2>11. Len(todo') = 1 /\ What(todo'[1]) = x
      BY <2>10 DEF What
    <2>12. Progress'
      <3>1. sb' = [t \in Types |-> sb'[t]]
        BY <1>5 DEF NoBlock
      <3>2. Orderly(todo') /\ todo' # <<>>
        <4>1. Orderly(todo')
          BY <2>10, OrderlySteps
        <4> QED BY <2>11, <4>1
      <3>3. \A i \in 1 .. Len(todo') : What(todo'[i]) \in {"begin", "start"}
        <4>1. \A i \in 1 .. Len(todo') : i = 1
          BY <2>11
        <4> QED BY <2>11, <4>1
      <3>4. Len(groups') <= Len(list) /\ (x = "start" => Len(groups') = Len(list))
            /\ (x # "start" => Len(groups') < Len(list))
        BY <2>3, <2>6, <2>10
      <3>5. outcome' \in {"none", "ok", "failed", "refused"}
        BY <1>5 DEF IInv, Progress
      <3> QED BY <1>5, <2>1, <2>11, <3>1, <3>2, <3>3, <3>4, <3>5 DEF Progress
    <2>13. Building' /\ Reading'
      BY <2>11 DEF Building, Reading, Working
    <2>14. PICK k : k = CreateOf(sb["data"])
      OBVIOUS
    <2>15. /\ k \in 1 .. Len(born) /\ r.sb.engine = Uuid(k, "engine") /\ CreateOf(r.sb) = k
           /\ born[k].disks = list[n] /\ born[k].id = n - 1 /\ born[k].count = Len(list)
           /\ \A t \in Types : Holds(list[n][t], k)
           /\ Floor(list[n]["snapshot"], k)
           /\ create => k \in done /\ born[k].open = opens
      BY <1>1, <2>3, <2>4, <2>14, GroupInHand
    <2>16. \A d : On(d)' = On(d)
      BY <1>1 DEF On, device
    <2>17. \A d, j : (Floor(d, j)' <=> Floor(d, j)) /\ (Holds(d, j)' <=> Holds(d, j))
      BY <2>16 DEF Floor, Holds
    <2>18. AllOpened'
      <3>1. ASSUME NEW i \in 1 .. Len(groups) PROVE Opened(i)'
        <4>1. Opened(i) /\ groups'[i] = groups[i]
          BY <2>6 DEF IInv, AllOpened
        <4> QED BY <1>1, <1>5, <2>17, <4>1 DEF Opened
      <3>2. Opened(n)'
        BY <1>1, <1>5, <2>6, <2>15, <2>17 DEF Opened
      <3> QED BY <2>6, <2>7, <3>1, <3>2 DEF AllOpened
    <2>19. r.index = IF r.sb.engine \in snapped THEN r.sb.engine ELSE 0
      <3>1. PICK g \in Disks : g = Group["snapshot"]
        BY <1>1, AtFacts DEF Types
      <3>2. PICK e : e = Uuid(k, "engine")
        OBVIOUS
      <3>3. Len(born) \in Nat
        BY BornFacts
      <3>4. k \in Nat /\ e # 0
        <4>1. k \in 1 .. Len(born)
          BY <2>15
        <4>2. k \in Nat /\ 4 * k # 0
          BY <3>3, <4>1
        <4> QED BY <3>2, <4>2, UuidFacts
      <3>5. CASE create
        <4>1. e \notin snapped
          BY <2>1, <2>15, <3>2, <3>5 DEF IInv, NotYet
        <4> QED BY <2>4, <2>15, <3>2, <3>5, <4>1
      <3>6. CASE ~ create
        <4>1. r.index = IF slots[g] = e THEN e ELSE 0
          BY <2>4, <2>15, <3>1, <3>2, <3>6 DEF Loaded
        <4>2. slots[g] # 0 => slots[g] \in snapped
          BY DEF IInv, SlotsRight
        <4>3. ASSUME e \in snapped PROVE slots[g] = e
          <5>1. born[k].disks["snapshot"] = g
            BY <2>3, <2>15, <3>1
          <5>2. slots[g] = e \/ Floor(g, k + 1)
            BY <2>15, <3>2, <4>3, <5>1 DEF IInv, SlotsRight
          <5>3. Holds(g, k)
            BY <2>3, <2>15, <3>1 DEF Types
          <5>4. ~ Floor(g, k + 1)
            BY <3>4, <5>3 DEF Holds, Floor
          <5> QED BY <5>2, <5>4
        <4> QED BY <2>15, <3>2, <3>4, <4>1, <4>2, <4>3
      <3> QED BY <3>5, <3>6
    <2>20. SnapshotOfThisCreate'
      <3>1. ASSUME NEW i \in 1 .. Len(groups)
            PROVE  groups'[i].index = IF groups'[i].sb.engine \in snapped THEN groups'[i].sb.engine ELSE 0
        BY <2>1, <2>6 DEF IInv, SnapshotOfThisCreate
      <3> QED BY <1>1, <2>6, <2>7, <2>19, <3>1 DEF SnapshotOfThisCreate
    <2> QED BY <1>2, <1>3, <1>5, <2>8, <2>9, <2>12, <2>13, <2>18, <2>20 DEF IInv
  <1> QED BY <1>4, <1>5 DEF OpenRest

\* A create of the whole engine succeeds once each of its groups has.
LEMMA StartReactorsKeeps ==
    ASSUME IInv, StartReactors
    PROVE  IInv'
  <1>1. /\ At("start", "group")
        /\ UNCHANGED <<device, slots, born, owner, done, snapped, opens>>
    BY DEF StartReactors
  <1>2. CASE Fail("failed") /\ UNCHANGED finished
    BY <1>1, <1>2, FailKept
  <1>3. ASSUME mode' = "up", outcome' = "ok", todo' = <<>>,
               finished' = IF create THEN finished \cup {opens} ELSE finished,
               UNCHANGED <<create, list, sb, groups>>
        PROVE  IInv'
    <2>1. mode = "opening" /\ list \in Lists /\ todo # <<>> /\ What(todo[1]) = "start"
      BY <1>1, AtFacts
    <2>2. Len(groups) = Len(list)
      BY <2>1 DEF IInv, Progress
    <2>3. /\ Contents' /\ SnapshotFirst' /\ DoneWritten'
          /\ \A d \in Disks : \A k : Floor(d, k) => Floor(d, k)'
      BY <1>1, DevicesKept
    <2>4. SlotsRight'
      BY <1>1, <2>3, SlotsKept
    <2>5. History'
      <3>1. finished' \subseteq 0 .. opens
        BY <1>3 DEF IInv, History
      <3> QED BY <1>1, <1>3, <2>1, <3>1 DEF IInv, History
    <2>6. FinishedDone'
      <3> SUFFICES ASSUME NEW k \in 1 .. Len(born), born[k].open \in finished',
                          NEW i \in 1 .. Len(born[k].list)
                   PROVE  \E j \in done : born[j].open = born[k].open /\ born[j].disks = born[k].list[i]
        BY <1>1 DEF FinishedDone
      <3>1. CASE born[k].open \in finished
        BY <3>1 DEF IInv, FinishedDone
      <3>2. CASE born[k].open \notin finished
        <4>1. create /\ born[k].open = opens
          BY <1>3, <3>2
        <4>2. born[k].list = list
          BY <2>1, <4>1 DEF IInv, History
        <4>3. Opened(i)
          BY <2>2, <4>2 DEF IInv, AllOpened
        <4> QED BY <4>1, <4>2, <4>3 DEF Opened
      <3> QED BY <3>1, <3>2
    <2>7. Progress'
      <3>1. Len(todo') = 0
        BY <1>3
      <3> QED BY <1>3, <2>1, <2>2, <3>1, OrderlySteps DEF IInv, Progress
    <2>8. Building' /\ Reading' /\ NotYet' /\ SnapshotOfThisCreate'
      BY <1>3 DEF Building, Reading, NotYet, SnapshotOfThisCreate, Working
    <2>9. AllOpened'
      <3>1. \A d : On(d)' = On(d)
        BY <1>1 DEF On, device
      <3>2. \A d, k : (Floor(d, k)' <=> Floor(d, k)) /\ (Holds(d, k)' <=> Holds(d, k))
        BY <3>1 DEF Floor, Holds
      <3> QED BY <1>1, <1>3, <3>2 DEF IInv, AllOpened, Opened
    <2> QED BY <1>3, <2>3, <2>4, <2>5, <2>6, <2>7, <2>8, <2>9 DEF IInv
  <1> QED BY <1>2, <1>3 DEF StartReactors

\* A snapshot is taken by the newest engine on its device.
LEMMA TakeSnapshotKeeps ==
    ASSUME IInv, NEW i \in 1 .. Len(groups), TakeSnapshot(i)
    PROVE  IInv'
  <1>1. /\ mode = "up" /\ UNCHANGED <<device, mode, call, outcome, born, owner, done, finished, opens>>
        /\ slots' = [slots EXCEPT ![list[i]["snapshot"]] = groups[i].sb.engine]
        /\ snapped' = snapped \cup {groups[i].sb.engine}
    BY DEF TakeSnapshot
  <1>2. UNCHANGED <<create, list, todo, sb, groups>>
    BY <1>1 DEF call
  <1>3. /\ Contents' /\ SnapshotFirst' /\ DoneWritten'
    BY <1>1, DevicesKept
  <1>4. History' /\ FinishedDone'
    BY <1>1, <1>2, HistoryKept DEF IInv, History
  <1>5. Progress'
    BY <1>1, <1>2 DEF IInv, Progress
  <1>6. Building' /\ Reading' /\ NotYet' /\ SnapshotOfThisCreate'
    BY <1>1 DEF Building, Reading, NotYet, SnapshotOfThisCreate, Working
  <1>7. \A d : On(d)' = On(d)
    BY <1>1 DEF On, device
  <1>8. \A d, j : (Floor(d, j)' <=> Floor(d, j)) /\ (Holds(d, j)' <=> Holds(d, j))
    BY <1>7 DEF Floor, Holds
  <1>9. AllOpened'
    BY <1>1, <1>2, <1>8 DEF IInv, AllOpened, Opened
  <1>10. PICK k : k = CreateOf(groups[i].sb)
    OBVIOUS
  <1>11. PICK e : e = Uuid(k, "engine")
    OBVIOUS
  <1>12. /\ k \in 1 .. Len(born) /\ groups[i].sb.engine = e
         /\ born[k].disks = list[i] /\ Holds(list[i]["snapshot"], k)
         /\ Floor(list[i]["snapshot"], k)
    BY <1>10, <1>11 DEF IInv, AllOpened, Opened, Types
  <1>13. PICK g \in Disks : g = list[i]["snapshot"]
    BY <1>12, BornFacts
  <1>14. Len(born) \in Nat /\ k \in Nat /\ Holds(g, k) /\ Floor(g, k)
    BY <1>12, <1>13, BornFacts
  <1>15. /\ slots = [d \in Disks |-> slots[d]]
         /\ \A d \in Disks : slots[d] # 0 => slots[d] \in snapped
         /\ \A x \in snapped : \E j \in 1 .. Len(born) : x = Uuid(j, "engine")
    BY DEF IInv, SlotsRight
  <1>16. /\ slots' = [d \in Disks |-> slots'[d]] /\ slots'[g] = e
         /\ \A d \in Disks : d # g => slots'[d] = slots[d]
         /\ snapped' = snapped \cup {e}
    BY <1>1, <1>12, <1>13, <1>15
  <1>17. ASSUME NEW j \in 1 .. Len(born), Uuid(j, "engine") \in snapped'
         PROVE  (LET d == born[j].disks["snapshot"]
                 IN  Floor(d, j) /\ (slots[d] = Uuid(j, "engine") \/ Floor(d, j + 1)))'
    <2>1. PICK d \in Disks : d = born[j].disks["snapshot"]
      BY BornFacts
    <2>2. j \in Nat
      BY <1>14
    <2>3. CASE j = k
      <3>1. d = g
        BY <1>12, <1>13, <2>1, <2>3
      <3> QED BY <1>1, <1>8, <1>11, <1>14, <1>16, <2>1, <2>3, <3>1
    <2>4. CASE j # k
      <3>1. Uuid(j, "engine") # e
        BY <1>11, <1>14, <2>2, <2>4, UuidFacts
      <3>2. Floor(d, j) /\ (slots[d] = Uuid(j, "engine") \/ Floor(d, j + 1))
        BY <1>16, <1>17, <2>1, <3>1 DEF IInv, SlotsRight
      <3>3. slots'[d] = Uuid(j, "engine") \/ Floor(d, j + 1)
        <4>1. CASE d # g
          BY <1>16, <3>2, <4>1
        <4>2. CASE d = g
          <5>1. k >= j
            BY <1>14, <3>2, <4>2 DEF Holds, Floor
          <5>2. k >= j + 1
            BY <1>14, <2>2, <2>4, <5>1
          <5>3. \A s \in On(g) : Valid(s) => CreateOf(s) \in Int
            BY <1>14 DEF IInv, Contents, Home
          <5> QED BY <1>14, <2>2, <4>2, <5>2, <5>3 DEF Floor
        <4> QED BY <4>1, <4>2
      <3> QED BY <1>1, <1>8, <2>1, <3>2, <3>3
    <2> QED BY <2>3, <2>4
  <1>18. SlotsRight'
    <2>1. \A d \in Disks : slots'[d] # 0 => slots'[d] \in snapped'
      BY <1>15, <1>16
    <2>2. \A x \in snapped' : \E j \in 1 .. Len(born) : x = Uuid(j, "engine")
      BY <1>11, <1>12, <1>15, <1>16
    <2> QED BY <1>1, <1>16, <1>17, <2>1, <2>2 DEF SlotsRight
  <1> QED BY <1>2, <1>3, <1>4, <1>5, <1>6, <1>9, <1>18 DEF IInv

---------------------------------------------------------------------------
(* What happens to the devices and to the process.                         *)

\* The process is down, or goes down, and contents are lost.
LEMMA LossKept ==
    ASSUME IInv, mode' = "down", todo' = <<>>, groups' = <<>>, create' \in BOOLEAN,
           sb' = [t \in Types |-> sb'[t]], outcome' \in {"none", "failed", "refused"},
           UNCHANGED <<slots, born, owner, done, finished, snapped, opens>>,
           copy' = [d \in Disks |-> [c \in Copies |-> copy'[d][c]]],
           copy_maybe' = [d \in Disks |-> [c \in Copies |-> copy_maybe'[d][c]]],
           \A d \in Disks, c \in Copies : copy'[d][c] \in copy_maybe'[d][c],
           \A d \in Disks : On(d)' \subseteq On(d) \cup {Torn}
    PROVE  IInv'
  <1>1. /\ Contents' /\ SnapshotFirst' /\ DoneWritten'
        /\ \A d \in Disks : \A k : Floor(d, k) => Floor(d, k)'
    BY Shrink
  <1>2. SlotsRight'
    BY <1>1, SlotsKept
  <1>3. History' /\ FinishedDone'
    BY HistoryKept DEF IInv, History
  <1>4. /\ (create \in BOOLEAN)' /\ Progress' /\ Building' /\ Reading' /\ AllOpened'
        /\ NotYet' /\ SnapshotOfThisCreate'
    BY Down
  <1> QED BY <1>1, <1>2, <1>3, <1>4 DEF IInv

\* A power failure leaves one of the contents each copy may have.
LEMMA PowerFailureKeeps ==
    ASSUME IInv, PowerFailure
    PROVE  IInv'
  <1>1. Stopped /\ UNCHANGED <<slots, born, owner, done, finished, snapped, opens>>
    BY DEF PowerFailure, ghost
  <1>2. /\ mode' = "down" /\ todo' = <<>> /\ groups' = <<>> /\ create' \in BOOLEAN
        /\ sb' = [t \in Types |-> sb'[t]] /\ outcome' \in {"none", "failed", "refused"}
    BY <1>1 DEF Stopped, NoBlock
  <1>3. PICK pick :
          /\ \A x \in Unsynced : pick[x] \in copy_maybe[x[1]][x[2]]
          /\ copy' = [d \in Disks |-> [c \in Copies |->
                        IF <<d, c>> \in Unsynced THEN pick[<<d, c>>] ELSE copy[d][c]]]
          /\ copy_maybe' = [d \in Disks |-> [c \in Copies |-> {copy'[d][c]}]]
    BY DEF PowerFailure
  <1>4. ASSUME NEW d \in Disks, NEW c \in Copies
        PROVE  copy'[d][c] \in copy_maybe[d][c] /\ copy_maybe'[d][c] = {copy'[d][c]}
    <2>1. copy[d][c] \in copy_maybe[d][c]
      BY DEF IInv, Contents
    <2>2. copy'[d][c] = IF <<d, c>> \in Unsynced THEN pick[<<d, c>>] ELSE copy[d][c]
      BY <1>3
    <2>3. <<d, c>> \in Unsynced => pick[<<d, c>>] \in copy_maybe[d][c]
      BY <1>3
    <2> QED BY <1>3, <2>1, <2>2, <2>3
  <1>5. /\ copy' = [d \in Disks |-> [c \in Copies |-> copy'[d][c]]]
        /\ copy_maybe' = [d \in Disks |-> [c \in Copies |-> copy_maybe'[d][c]]]
    BY <1>3
  <1>6. \A d \in Disks : On(d)' \subseteq On(d) \cup {Torn}
    BY <1>4 DEF On, Copies
  <1> QED BY <1>1, <1>2, <1>4, <1>5, <1>6, LossKept

\* Decay adds no super block.
LEMMA RotKeeps ==
    ASSUME IInv, NEW d \in Disks, NEW c \in Copies, Rot(d, c)
    PROVE  IInv'
  <1>1. /\ mode = "down" /\ outcome' = "none"
        /\ copy' = [copy EXCEPT ![d][c] = Torn]
        /\ copy_maybe' = [copy_maybe EXCEPT ![d][c] = {Torn}]
        /\ UNCHANGED <<slots, mode, create, todo, sb, groups, born, owner, done, finished, snapped, opens>>
    BY DEF Rot
  <1>2. /\ mode' = "down" /\ todo' = <<>> /\ groups' = <<>> /\ create' \in BOOLEAN
        /\ sb' = [t \in Types |-> sb'[t]] /\ outcome' \in {"none", "failed", "refused"}
    BY <1>1 DEF IInv, Progress
  <1>3. /\ copy = [e \in Disks |-> [b \in Copies |-> copy[e][b]]]
        /\ copy_maybe = [e \in Disks |-> [b \in Copies |-> copy_maybe[e][b]]]
        /\ \A e \in Disks, b \in Copies : copy[e][b] \in copy_maybe[e][b]
    BY DEF IInv, Contents
  <1>4. /\ copy' = [e \in Disks |-> [b \in Copies |-> copy'[e][b]]]
        /\ copy'[d][c] = Torn
        /\ \A e \in Disks, b \in Copies : <<e, b>> # <<d, c>> => copy'[e][b] = copy[e][b]
    BY <1>1, <1>3
  <1>5. /\ copy_maybe' = [e \in Disks |-> [b \in Copies |-> copy_maybe'[e][b]]]
        /\ copy_maybe'[d][c] = {Torn}
        /\ \A e \in Disks, b \in Copies : <<e, b>> # <<d, c>> => copy_maybe'[e][b] = copy_maybe[e][b]
    BY <1>1, <1>3
  <1>6. \A e \in Disks, b \in Copies :
          copy'[e][b] \in copy_maybe'[e][b] /\ copy_maybe'[e][b] \subseteq copy_maybe[e][b] \cup {Torn}
    BY <1>3, <1>4, <1>5
  <1>7. \A e \in Disks : On(e)' \subseteq On(e) \cup {Torn}
    BY <1>6 DEF On, Copies
  <1> QED BY <1>1, <1>2, <1>4, <1>5, <1>6, <1>7, LossKept

\* A device changes its size while no Open is in progress, and its super blocks stay.
LEMMA ResizeKeeps ==
    ASSUME IInv, NEW g \in 1 .. N, NEW n \in Sizes, Resize(g, n)
    PROVE  IInv'
  <1>1. /\ mode = "down" /\ outcome' = "none"
        /\ UNCHANGED <<device, slots, mode, create, todo, sb, groups, ghost, opens>>
    BY DEF Resize
  <1>2. /\ mode' = "down" /\ todo' = <<>> /\ groups' = <<>> /\ create' \in BOOLEAN
        /\ sb' = [t \in Types |-> sb'[t]] /\ outcome' \in {"none", "failed", "refused"}
    BY <1>1 DEF IInv, Progress
  <1>3. UNCHANGED <<born, done, finished, snapped>> /\ owner' \in [Disks -> 0 .. Len(born)]
    BY <1>1 DEF ghost, IInv, History
  <1> QED BY <1>1, <1>2, <1>3, DownKept

\* A step that changes nothing.
LEMMA StutterKeeps ==
    ASSUME IInv, UNCHANGED vars
    PROVE  IInv'
  <1>1. UNCHANGED <<device, slots, born, owner, done, finished, snapped, opens,
                    mode, create, list, groups, todo, sb, outcome>>
    BY DEF vars, call, ghost
  <1>2. UNCHANGED <<copy, copy_maybe>>
    BY <1>1 DEF device
  <1>3. \A x, u : Left(x, u)' <=> Left(x, u)
    BY <1>1 DEF Left
  <1>4. Group' = Group /\ Place' = Place /\ (Working' <=> Working)
    BY <1>1 DEF Group, Place, Working
  <1>5. \A d : On(d)' = On(d)
    BY <1>2 DEF On
  <1>6. Progress'
    BY <1>1 DEF IInv, Progress
  <1>7. Building'
    <2>1. \A t : On(Group[t])' = On(Group[t])
      BY <1>2, <1>4 DEF On
    <2> QED BY <1>1, <1>2, <1>3, <1>4, <2>1 DEF IInv, Building
  <1>8. Reading'
    <2>1. \A t \in Types : Read(t) => Read(t)'
      BY <1>1, <1>2, <1>4 DEF Read, Home, On
    <2>2. /\ TypesMatch' <=> TypesMatch
          /\ EnginesMatch' <=> EnginesMatch
          /\ IdsMatch' <=> IdsMatch
          /\ CountsMatch' <=> CountsMatch
      BY <1>1, <1>4 DEF TypesMatch, EnginesMatch, IdsMatch, CountsMatch
    <2> QED BY <1>1, <1>3, <1>4, <2>1, <2>2 DEF IInv, Reading
  <1> QED BY <1>1, <1>6, <1>7, <1>8, QuietKept

\* Every step keeps the invariant.
LEMMA NextKeeps ==
    ASSUME IInv, [Next]_vars
    PROVE  IInv'
  <1>1. ASSUME NEW wipe \in BOOLEAN, NEW l \in Lists, Open(wipe, l) PROVE IInv'
    BY <1>1, OpenKeeps
  <1>2. CASE BeginCreate
    BY <1>2, BeginCreateKeeps
  <1>3. CASE BeginRecover
    BY <1>3, BeginRecoverKeeps
  <1>4. ASSUME NEW t \in Types, NEW c \in Copies, WriteCopy(c, t) PROVE IInv'
    BY <1>4, WriteCopyKeeps
  <1>5. ASSUME NEW t \in Types, SyncCopy(t) PROVE IInv'
    BY <1>5, SyncCopyKeeps
  <1>6. ASSUME NEW t \in Types, ReadPrimary(t) PROVE IInv'
    BY <1>6, ReadPrimaryKeeps
  <1>7. ASSUME NEW t \in Types, ReadBackup(t) PROVE IInv'
    BY <1>7, ReadBackupKeeps
  <1>8. ASSUME NEW t \in Types, ReadNothing(t) PROVE IInv'
    BY <1>8, ReadNothingKeeps
  <1>9. CASE Match
    BY <1>9, MatchKeeps
  <1>10. CASE OpenRest
    BY <1>10, OpenRestKeeps
  <1>11. CASE StartReactors
    BY <1>11, StartReactorsKeeps
  <1>12. ASSUME NEW i \in 1 .. Len(groups), TakeSnapshot(i) PROVE IInv'
    BY <1>12, TakeSnapshotKeeps
  <1>13. CASE Close
    BY <1>13, StoppedKept DEF Close, ghost
  <1>14. CASE Kill
    BY <1>14, StoppedKept DEF Kill, ghost
  <1>15. CASE PowerFailure
    BY <1>15, PowerFailureKeeps
  <1>16. ASSUME NEW d \in Disks, NEW c \in Copies, Rot(d, c) PROVE IInv'
    BY <1>16, RotKeeps
  <1>17. ASSUME NEW g \in 1 .. N, NEW n \in Sizes, Resize(g, n) PROVE IInv'
    BY <1>17, ResizeKeeps
  <1>18. CASE Idle \/ UNCHANGED vars
    BY <1>18, StutterKeeps DEF Idle
  <1> QED BY <1>1, <1>2, <1>3, <1>4, <1>5, <1>6, <1>7, <1>8, <1>9, <1>10, <1>11, <1>12, <1>13,
             <1>14, <1>15, <1>16, <1>17, <1>18 DEF Next

---------------------------------------------------------------------------
(* The theorems.                                                           *)

\* The invariant holds throughout.
THEOREM IInvHolds == Spec => []IInv
  BY InitIInv, NextKeeps, PTL DEF Spec

\* Whatever the devices have been through and in whatever order they are named, a group
\* that opens consists of the three devices one call of CreateDeviceGroup was given, at
\* the place and in a list of the length that call had (RecoverDeviceGroup).
THEOREM GroupOfOneCreateHolds == Spec => []GroupOfOneCreate
  <1>1. ASSUME IInv PROVE GroupOfOneCreate
    <2>1. ASSUME NEW d \in Disks, NEW c \in Copies, NEW s \in copy_maybe[d][c]
          PROVE  Content(s)
      <3>1. s \in On(d)
        BY DEF On, Copies
      <3>2. Valid(s) => Home(d, s)
        BY <3>1, <1>1 DEF IInv, Contents
      <3> QED BY <3>2 DEF Content, Home, Valid
    <2>2. TypeOK
      BY <1>1, <2>1 DEF IInv, Contents, History, Progress, TypeOK
    <2> QED BY <1>1, <2>2 DEF IInv, AllOpened, Opened, GroupOfOneCreate
  <1> QED BY <1>1, IInvHolds, PTL

\* Where two groups of an engine stem from two creates, the later create has not succeeded,
\* unless it put other devices in the place of the older group: what a create that has
\* succeeded replaced or did without does not come back beside it (the number of groups in
\* the super block).
THEOREM NoMixOfFinishedHolds == Spec => []NoMixOfFinished
  <1>1. ASSUME IInv PROVE NoMixOfFinished
    <2> SUFFICES ASSUME NEW i \in 1 .. Len(groups), NEW j \in 1 .. Len(groups),
                        born[CreateOf(groups[i].sb)].open < born[CreateOf(groups[j].sb)].open,
                        i \in 1 .. Len(born[CreateOf(groups[j].sb)].list) =>
                            born[CreateOf(groups[j].sb)].list[i] = list[i],
                        born[CreateOf(groups[j].sb)].open \in finished
                 PROVE  FALSE
      BY DEF NoMixOfFinished
    <2>1. PICK a : a = CreateOf(groups[i].sb)
      OBVIOUS
    <2>2. PICK b : b = CreateOf(groups[j].sb)
      OBVIOUS
    <2>3. /\ a \in 1 .. Len(born) /\ \A t \in Types : Holds(list[i][t], a)
          /\ b \in 1 .. Len(born) /\ born[b].count = Len(list)
      BY <1>1, <2>1, <2>2 DEF IInv, AllOpened, Opened
    <2>4. born[a].open < born[b].open /\ born[b].open \in finished
      BY <2>1, <2>2
    <2>5. i \in 1 .. Len(born[b].list) /\ born[b].list[i] = list[i]
      <3>1. Len(born[b].list) = Len(list)
        BY <1>1, <2>3 DEF IInv, History
      <3>2. groups # <<>>
        OBVIOUS
      <3>3. Len(groups) <= Len(list) /\ list \in Lists
        BY <1>1, <3>2 DEF IInv, Progress
      <3>4. Len(list) \in Nat
        BY <3>3, ListFacts
      <3>5. groups \in Seq({groups[x] : x \in 1 .. Len(groups)})
        BY <1>1 DEF IInv, AllOpened
      <3>6. Len(groups) \in Nat
        BY <3>5, LenProperties
      <3>7. i \in 1 .. Len(born[b].list)
        BY <3>1, <3>3, <3>4, <3>6
      <3> QED BY <2>2, <3>7
    <2>6. PICK k \in done : born[k].open = born[b].open /\ born[k].disks = list[i]
      BY <1>1, <2>3, <2>4, <2>5 DEF IInv, FinishedDone
    <2>7. k \in 1 .. Len(born)
      BY <1>1 DEF IInv, History
    <2>8. Floor(list[i]["data"], k)
      BY <1>1, <2>6 DEF IInv, DoneWritten, Types
    <2>9. Holds(list[i]["data"], a)
      BY <2>3 DEF Types
    <2>10. a >= k
      BY <2>8, <2>9 DEF Floor, Holds
    <2>11. Len(born) \in Nat /\ born[a].open \in Nat /\ born[k].open \in Nat
      BY <1>1, <2>3, <2>7, BornFacts
    <2>12. k <= a
      BY <2>3, <2>7, <2>10, <2>11
    <2>13. born[k].open <= born[a].open
      BY <1>1, <2>3, <2>7, <2>12 DEF IInv, History
    <2> QED BY <2>4, <2>6, <2>11, <2>13
  <1> QED BY <1>1, IInvHolds, PTL

\* A group starts from a snapshot exactly when the engine its super block names has taken
\* one on it (the order in which CreateDeviceGroup writes and clears).
THEOREM SnapshotOfThisCreateHolds == Spec => []SnapshotOfThisCreate
  <1>1. IInv => SnapshotOfThisCreate
    BY DEF IInv
  <1> QED BY <1>1, IInvHolds, PTL

---------------------------------------------------------------------------
(* Recovery refuses an engine only for a reason: one more invariant, about  *)
(* who wrote a device last and how many of its copies are damaged.         *)

Largest == CHOOSE n \in Sizes : \A m \in Sizes : m <= n

\* The sizes in super blocks of data devices are sizes of devices that could be created.
CreatedSize(s) == s.blocks \in Sizes /\ s.blocks >= 1
Sized ==
    /\ blocks \in [Disks -> Sizes]
    /\ \A d \in Disks : \A s \in On(d) : Valid(s) /\ s.type = "data" => CreatedSize(s)
    /\ create /\ Working => CreatedSize(sb["data"])

\* The last create that wrote to a device was given that device, and while it is at
\* work it has not succeeded.
Owned ==
    /\ \A d \in Disks : owner[d] # 0 => \E t \in Types : born[owner[d]].disks[t] = d
    /\ create /\ Working =>
         /\ \A c \in Copies, t \in Types : ~ Left(c, t) => owner[Group[t]] = Len(born)
         /\ What(todo[1]) # "rest" => Len(born) \notin done

\* All copies of device d at place c are good.
Good(d, c) == \A s \in copy_maybe[d][c] : Valid(s)

\* A device of a create that has succeeded holds that create's super blocks only, and no
\* more bad copies than were damaged.  Its backup is always durable.
Repairable ==
    \A d \in Disks : owner[d] \in done =>
        /\ copy_maybe[d]["backup"] = {copy[d]["backup"]}
        /\ \A s \in On(d) : Valid(s) => CreateOf(s) = owner[d]
        /\ harm[d] = 0 => \A c \in Copies : Good(d, c)
        /\ harm[d] = 1 => \E c \in Copies : Good(d, c)

\* What recovery has read for the group in hand.
ReadSoFar ==
    ~ create /\ Working => \A t \in Types : ~ Left("read", t) => sb[t] # Blank

\* The outcome of an Open in progress is not known yet.
Pending ==
    /\ mode = "opening" => outcome = "none"
    /\ mode = "up" => outcome = "ok"

RInv ==
    /\ harm \in [Disks -> Nat]
    /\ Sized /\ Owned /\ Repairable /\ ReadSoFar /\ Pending /\ SurvivesOneHarm

---------------------------------------------------------------------------
(* What the steps of both invariants share.                                *)

\* The largest size.
LEMMA LargestFacts == Largest \in Sizes /\ Largest \in Nat /\ \A m \in Sizes : m <= Largest /\ m \in Nat
  BY SizesAssumption DEF Largest

\* A state in which recovery has refused no engine, or had a reason to.
LEMMA NotRefused ==
    ASSUME outcome' # "refused"
    PROVE  SurvivesOneHarm'
  BY DEF SurvivesOneHarm

\* The steps that write to no device and build no super block.
LEMMA SameRepair ==
    ASSUME IInv, RInv, UNCHANGED <<device, born, owner, done, harm>>, blocks' \in [Disks -> Sizes],
           ~ Working' \/ ~ create', ReadSoFar', Pending', SurvivesOneHarm'
    PROVE  RInv'
  <1>1. UNCHANGED <<copy, copy_maybe>>
    BY DEF device
  <1>2. \A d : On(d)' = On(d)
    BY <1>1 DEF On
  <1>3. Sized'
    BY <1>2 DEF RInv, Sized
  <1>4. Owned'
    BY DEF RInv, Owned
  <1>5. Repairable'
    BY <1>1, <1>2 DEF RInv, Repairable, Good
  <1> QED BY <1>3, <1>4, <1>5 DEF RInv

\* Those of them that have no group in hand.
LEMMA IdleRepair ==
    ASSUME IInv, RInv, UNCHANGED <<device, born, owner, done, harm>>, blocks' \in [Disks -> Sizes],
           ~ Working', Pending', outcome' # "refused"
    PROVE  RInv'
  BY SameRepair, NotRefused DEF ReadSoFar

\* AbortOpen and the end of the process.
LEMMA DownRepair ==
    ASSUME IInv, RInv, mode' = "down", outcome' # "refused",
           UNCHANGED <<device, born, owner, done, harm>>, blocks' \in [Disks -> Sizes]
    PROVE  RInv'
  BY IdleRepair DEF Working, Pending

\* A group that a create has finished, that no later create has written to, and of which
\* at most one copy per device was damaged, can be read: one copy of each device is good,
\* and whatever is read from it is what that create has written.
LEMMA UndisturbedFacts ==
    ASSUME IInv, RInv, list \in Lists, NEW i \in 1 .. Len(list), Undisturbed(i)
    PROVE  \E k \in 1 .. Len(born) :
             /\ born[k].disks = list[i] /\ born[k].id = i - 1 /\ born[k].count = Len(list)
             /\ \A t \in Types :
                  /\ \E c \in Copies : Valid(copy[list[i][t]][c])
                  /\ \A s \in On(list[i][t]) : Valid(s) =>
                       /\ s.type = t
                       /\ s = SuperBlock(t, k, i - 1, Len(list), s.blocks)
                       /\ t = "data" => CreatedSize(s)
  <1>1. PICK k \in done :
          /\ born[k].disks = list[i] /\ born[k].id = i - 1 /\ born[k].count = Len(list)
          /\ \A t \in Types : owner[list[i][t]] = k /\ harm[list[i][t]] <= 1
    BY DEF Undisturbed
  <1>2. k \in 1 .. Len(born)
    BY DEF IInv, History
  <1>3. ASSUME NEW t \in Types
        PROVE  /\ \E c \in Copies : Valid(copy[list[i][t]][c])
               /\ \A s \in On(list[i][t]) : Valid(s) =>
                    /\ s.type = t
                    /\ s = SuperBlock(t, k, i - 1, Len(list), s.blocks)
                    /\ t = "data" => CreatedSize(s)
    <2>1. PICK d \in Disks : d = list[i][t]
      BY ListFacts
    <2>2. owner[d] = k /\ harm[d] \in Nat /\ harm[d] <= 1
      BY <1>1, <2>1 DEF RInv
    <2>3. /\ \A s \in On(d) : Valid(s) => CreateOf(s) = k
          /\ harm[d] = 0 => \A c \in Copies : Good(d, c)
          /\ harm[d] = 1 => \E c \in Copies : Good(d, c)
      BY <2>2 DEF RInv, Repairable
    <2>4. harm[d] = 0 \/ harm[d] = 1
      BY <2>2
    <2>5. PICK c \in Copies : Good(d, c)
      BY <2>3, <2>4 DEF Copies
    <2>6. Valid(copy[d][c])
      BY <2>5 DEF Good, IInv, Contents
    <2>7. ASSUME NEW s \in On(d), Valid(s)
          PROVE  /\ s.type = t
                 /\ s = SuperBlock(t, k, i - 1, Len(list), s.blocks)
                 /\ t = "data" => CreatedSize(s)
      <3>1. /\ s.type \in Types /\ born[k].disks[s.type] = d
            /\ s = SuperBlock(s.type, k, born[k].id, born[k].count, s.blocks)
        BY <2>3, <2>7 DEF IInv, Contents, Home
      <3>2. s.type = t
        BY <1>1, <2>1, <3>1, ListFacts
      <3>3. t = "data" => CreatedSize(s)
        BY <2>7, <3>2 DEF RInv, Sized
      <3> QED BY <1>1, <3>1, <3>2, <3>3
    <2> QED BY <2>1, <2>6, <2>7
  <1> QED BY <1>1, <1>2, <1>3

---------------------------------------------------------------------------
(* Every step keeps the invariant.                                         *)

\* At the start no device has been written to.
LEMMA InitRepair == Init => RInv
  <1> SUFFICES ASSUME Init PROVE RInv
    OBVIOUS
  <1>1. /\ blocks \in [Disks -> {Largest}] /\ mode = "down" /\ outcome = "none"
        /\ owner = [d \in Disks |-> 0] /\ done = {} /\ harm = [d \in Disks |-> 0]
    BY DEF Init, Largest
  <1>2. ~ Working
    BY <1>1 DEF Working
  <1>3. \A d \in Disks : \A s \in On(d) : ~ Valid(s)
    BY NoSuperBlock DEF Init, On, Copies
  <1>4. Sized
    BY <1>1, <1>2, <1>3, LargestFacts DEF Sized
  <1>5. Owned /\ Repairable
    BY <1>1, <1>2 DEF Owned, Repairable
  <1>6. ReadSoFar /\ Pending /\ SurvivesOneHarm
    BY <1>1, <1>2 DEF ReadSoFar, Pending, SurvivesOneHarm
  <1> QED BY <1>1, <1>4, <1>5, <1>6 DEF RInv

\* An Open that has just begun has no group in hand.
LEMMA OpenRepair ==
    ASSUME IInv, RInv, NEW wipe \in BOOLEAN, NEW l \in Lists, Open(wipe, l)
    PROVE  RInv'
  <1>1. /\ mode' = "opening" /\ outcome' = "none" /\ todo' = << <<"begin", "group">> >>
        /\ UNCHANGED <<device, blocks, ghost>>
    BY DEF Open
  <1>2. What(todo'[1]) = "begin"
    BY <1>1 DEF What
  <1>3. ~ Working' /\ Pending'
    BY <1>1, <1>2 DEF Working, Pending
  <1>4. blocks' \in [Disks -> Sizes] /\ UNCHANGED <<born, owner, done, harm>>
    BY <1>1 DEF RInv, Sized, ghost
  <1> QED BY <1>1, <1>3, <1>4, IdleRepair

\* A new create has not succeeded, and its data device is large enough.
LEMMA BeginCreateRepair ==
    ASSUME IInv, RInv, BeginCreate
    PROVE  RInv'
  <1>1. /\ At("begin", "group") /\ create
        /\ UNCHANGED <<device, blocks, owner, done, harm>>
    BY DEF BeginCreate
  <1>2. blocks \in [Disks -> Sizes] /\ blocks' \in [Disks -> Sizes]
    BY <1>1 DEF RInv, Sized
  <1>3. CASE Fail("failed") /\ UNCHANGED born
    BY <1>1, <1>2, <1>3, DownRepair DEF Fail
  <1> DEFINE r == [disks |-> Group, id |-> Place, count |-> Len(list), list |-> list, open |-> opens]
             n == blocks[Group["data"]]
  <1>4. ASSUME LargeEnough(Group),
               sb' = [t \in Types |-> SuperBlock(t, Len(born) + 1, Place, Len(list), n)],
               born' = Append(born, r), todo' = CreateSteps,
               UNCHANGED <<mode, create, list, groups, outcome>>
        PROVE  RInv'
    <2>1. /\ mode = "opening" /\ \A u \in Types : Group[u] \in Disks
      BY <1>1, AtFacts
    <2>2. n \in Sizes /\ n >= 1
      BY <1>2, <1>4, <2>1 DEF LargeEnough, Types
    <2> HIDE DEF r, n
    <2>3. born \in Seq(Births) /\ Len(born) \in Nat
      BY BornFacts
    <2>4. Len(born') = Len(born) + 1 /\ \A j \in 1 .. Len(born) : born'[j] = born[j]
      <3>1. list \in Lists /\ Len(groups) \in Nat /\ Group \in [Types -> Disks]
        BY <1>1, AtFacts
      <3>2. Len(list) \in Nat /\ opens \in Nat /\ Place \in Nat
        BY <3>1, ListFacts DEF Place, IInv, History
      <3>3. r \in Births
        BY <3>1, <3>2 DEF Births, r
      <3> QED BY <1>4, <2>3, <3>3, AppendProperties
    <2>5. CreatedSize(sb'["data"])
      <3>1. sb'["data"] = SuperBlock("data", Len(born) + 1, Place, Len(list), n) /\ "data" \in Types
        BY <1>4 DEF Types
      <3>2. sb'["data"].blocks = n
        BY <3>1 DEF SuperBlock
      <3> QED BY <2>2, <3>2 DEF CreatedSize
    <2>6. UNCHANGED <<copy, copy_maybe>>
      BY <1>1 DEF device
    <2>7. \A d : On(d)' = On(d)
      BY <2>6 DEF On
    <2>8. Sized'
      BY <1>2, <2>5, <2>7 DEF RInv, Sized
    <2>9. Owned'
      <3>1. \A d \in Disks : owner[d] \in 0 .. Len(born)
        BY DEF IInv, History
      <3>2. ASSUME NEW d \in Disks, owner[d] # 0
            PROVE  \E t \in Types : born'[owner[d]].disks[t] = d
        <4>1. owner[d] \in 1 .. Len(born)
          BY <2>3, <3>1, <3>2
        <4> QED BY <2>4, <3>2, <4>1 DEF RInv, Owned
      <3>3. Len(born') \notin done
        BY <2>3, <2>4 DEF IInv, History
      <3>4. \A c \in Copies, t \in Types : Left(c, t)'
        BY <1>4, StepsFacts DEF Left
      <3> QED BY <1>1, <3>2, <3>3, <3>4 DEF Owned
    <2>10. Repairable'
      BY <1>1, <2>6, <2>7 DEF RInv, Repairable, Good
    <2>11. ReadSoFar' /\ Pending'
      BY <1>1, <1>4 DEF RInv, ReadSoFar, Pending
    <2>12. outcome' # "refused"
      BY <1>4, <2>1 DEF RInv, Pending
    <2> QED BY <1>1, <2>8, <2>9, <2>10, <2>11, <2>12, NotRefused DEF RInv
  <1> QED BY <1>3, <1>4 DEF BeginCreate

\* What an undisturbed group of sufficient size has in store.
LEMMA RefuseRepair ==
    ASSUME IInv, RInv, NEW step, NEW t, At(step, t), step # "start", Fail("refused"),
           UNCHANGED <<device, blocks, born, owner, done, harm>>,
           Undisturbed(Place + 1) /\ blocks[Group["data"]] >= Largest => glitch'
    PROVE  RInv'
  <1>1. list \in Lists /\ Place + 1 \in 1 .. Len(list) /\ Group = list[Place + 1] /\ \A u \in Types : Group[u] \in Disks
    BY AtFacts DEF Group, Place
  <1>2. mode' = "down" /\ list' = list
    BY DEF Fail
  <1>3. ~ Working' /\ Pending'
    BY <1>2 DEF Working, Pending
  <1>4. blocks \in [Disks -> Sizes] /\ blocks' \in [Disks -> Sizes]
    BY DEF RInv, Sized
  <1>5. ASSUME ~ glitch'
        PROVE  ~ Undisturbed(Place + 1) \/ blocks[list[Place + 1]["data"]] < Largest
    <2>1. blocks[Group["data"]] \in Nat /\ Largest \in Nat
      BY <1>1, <1>4, LargestFacts DEF Types
    <2> QED BY <1>1, <1>5, <2>1
  <1>6. SurvivesOneHarm'
    <2> SUFFICES ASSUME ~ glitch'
                 PROVE  \E i \in 1 .. Len(list)' : ~ Undisturbed(i)' \/ blocks'[list'[i]["data"]] < Largest
      BY DEF SurvivesOneHarm, Largest
    <2>1. PICK i \in 1 .. Len(list) : ~ Undisturbed(i) \/ blocks[list[i]["data"]] < Largest
      BY <1>1, <1>5
    <2>2. Undisturbed(i)' => Undisturbed(i)
      BY <1>2 DEF Undisturbed
    <2> QED BY <1>2, <2>1, <2>2
  <1> QED BY <1>3, <1>4, <1>6, SameRepair DEF ReadSoFar

\* The first step of RecoverDeviceGroup refuses a device that has become too small.
LEMMA BeginRecoverRepair ==
    ASSUME IInv, RInv, BeginRecover
    PROVE  RInv'
  <1>1. /\ At("begin", "group") /\ ~ create
        /\ UNCHANGED <<device, blocks, born, owner, done, harm>>
    BY DEF BeginRecover, ghost
  <1>2. /\ mode = "opening" /\ list \in Lists /\ Place + 1 \in 1 .. Len(list)
        /\ Group = list[Place + 1] /\ \A u \in Types : Group[u] \in Disks
    BY <1>1, AtFacts DEF Group, Place
  <1>3. blocks \in [Disks -> Sizes] /\ blocks' \in [Disks -> Sizes]
    BY <1>1 DEF RInv, Sized
  <1>4. ASSUME Fail("refused"), ~ LargeEnough(Group)
        PROVE  RInv'
    <2>1. ASSUME Undisturbed(Place + 1) PROVE ~ blocks[Group["data"]] >= Largest
      <3>1. /\ \E c \in Copies : Valid(copy[Group["data"]][c])
            /\ \A s \in On(Group["data"]) : Valid(s) => CreatedSize(s)
        BY <1>2, <2>1, UndisturbedFacts DEF Types
      <3>2. PICK c \in Copies : Valid(copy[Group["data"]][c])
        BY <3>1
      <3>3. copy[Group["data"]][c] \in On(Group["data"])
        BY <1>2 DEF IInv, Contents, On, Copies, Types
      <3>4. CreatedSize(copy[Group["data"]][c])
        BY <3>1, <3>2, <3>3
      <3>5. Largest >= 1
        <4>1. PICK m \in Sizes : m >= 1
          BY <3>4 DEF CreatedSize
        <4> QED BY <4>1, LargestFacts
      <3>6. blocks[Group["data"]] \in Nat
        BY <1>2, <1>3, LargestFacts DEF Types
      <3> QED BY <1>4, <3>5, <3>6, LargestFacts DEF LargeEnough
    <2> QED BY <1>1, <1>4, <2>1, RefuseRepair
  <1>5. ASSUME todo' = RecoverSteps, UNCHANGED <<mode, create, list, groups, outcome, sb>>
        PROVE  RInv'
    <2>1. \A t \in Types : Left("read", t)'
      <3>1. /\ Len(RecoverSteps) = 5
            /\ What(RecoverSteps[1]) = "read" /\ Of(RecoverSteps[1]) = "data"
            /\ What(RecoverSteps[2]) = "read" /\ Of(RecoverSteps[2]) = "wal"
            /\ What(RecoverSteps[3]) = "read" /\ Of(RecoverSteps[3]) = "snapshot"
        BY DEF RecoverSteps, What, Of
      <3>2. {1, 2, 3} \subseteq 1 .. Len(todo')
        BY <1>5, <3>1
      <3> QED BY <1>5, <3>1, <3>2 DEF Left, Types
    <2>2. ReadSoFar' /\ Pending' /\ outcome' # "refused"
      BY <1>2, <1>5, <2>1 DEF RInv, ReadSoFar, Pending
    <2> QED BY <1>1, <1>3, <1>5, <2>2, NotRefused, SameRepair
  <1> QED BY <1>4, <1>5 DEF BeginRecover

\* What has been read is remembered.
LEMMA ReadRepair ==
    ASSUME IInv, RInv, NEW t \in Types, At("read", t), Advance,
           NEW s, Valid(s), sb' = [sb EXCEPT ![t] = s]
    PROVE  ReadSoFar' /\ Pending' /\ SurvivesOneHarm' /\ ~ create'
  <1>1. mode = "opening" /\ ~ create /\ Working
    BY AtFacts, RecoverOnly
  <1>2. UNCHANGED <<mode, create, outcome>>
    BY DEF Advance
  <1>3. sb = [u \in Types |-> sb[u]]
    BY DEF IInv, Progress
  <1>4. /\ sb' = [u \in Types |-> sb'[u]] /\ sb'[t] = s
        /\ \A u \in Types : u # t => sb'[u] = sb[u]
    BY <1>3
  <1>5. \A x, u : Left(x, u) => Left(x, u)' \/ (x = "read" /\ u = t)
    BY <1>4, AdvanceFacts
  <1>6. s # Blank
    BY NoSuperBlock
  <1>7. \A u \in Types : ~ Left("read", u)' => sb'[u] # Blank
    BY <1>1, <1>4, <1>5, <1>6 DEF RInv, ReadSoFar
  <1>8. ReadSoFar'
    BY <1>7 DEF ReadSoFar
  <1>9. Pending' /\ outcome' # "refused"
    BY <1>1, <1>2 DEF RInv, Pending
  <1> QED BY <1>1, <1>2, <1>8, <1>9, NotRefused

\* Reading a good primary.
LEMMA ReadPrimaryRepair ==
    ASSUME IInv, RInv, NEW t \in Types, ReadPrimary(t)
    PROVE  RInv'
  <1>1. PICK s : s = copy[Group[t]]["primary"]
    OBVIOUS
  <1>2. /\ At("read", t) /\ Valid(s) /\ Advance /\ sb' = [sb EXCEPT ![t] = s]
        /\ UNCHANGED <<device, blocks, born, owner, done, harm>>
    BY <1>1 DEF ReadPrimary, ghost
  <1>3. blocks' \in [Disks -> Sizes]
    BY <1>2 DEF RInv, Sized
  <1> QED BY <1>2, <1>3, ReadRepair, SameRepair

\* Recovery finds no super block only when both copies were damaged, or a read failed.
LEMMA ReadNothingRepair ==
    ASSUME IInv, RInv, NEW t \in Types, ReadNothing(t)
    PROVE  RInv'
  <1>1. /\ At("read", t) /\ Fail("refused")
        /\ UNCHANGED <<device, blocks, born, owner, done, harm>>
    BY DEF ReadNothing, ghost
  <1>2. /\ list \in Lists /\ Place + 1 \in 1 .. Len(list) /\ Group = list[Place + 1]
    BY <1>1, AtFacts DEF Group, Place
  <1>3. (\A c \in Copies : ~ Valid(copy[Group[t]][c])) \/ glitch'
    BY DEF ReadNothing
  <1>4. Undisturbed(Place + 1) => \E c \in Copies : Valid(copy[Group[t]][c])
    BY <1>2, UndisturbedFacts
  <1> QED BY <1>1, <1>3, <1>4, RefuseRepair

\* The super blocks of an undisturbed group agree with each other and with their place.
LEMMA MatchRepair ==
    ASSUME IInv, RInv, Match
    PROVE  RInv'
  <1>1. /\ At("match", "group")
        /\ UNCHANGED <<device, blocks, born, owner, done, harm>>
    BY DEF Match, ghost
  <1>2. /\ mode = "opening" /\ list \in Lists /\ Place + 1 \in 1 .. Len(list) /\ Group = list[Place + 1]
        /\ \A u \in Types : Group[u] \in Disks
        /\ Orderly(todo) /\ 1 \in 1 .. Len(todo) /\ What(todo[1]) = "match"
    BY <1>1, AtFacts DEF Group, Place
  <1>3. ~ create /\ Reading /\ Working
    BY <1>1, RecoverOnly
  <1>4. blocks \in [Disks -> Sizes] /\ blocks' \in [Disks -> Sizes]
    BY <1>1 DEF RInv, Sized
  <1>5. ASSUME Fail("refused"),
               ~ (TypesMatch /\ EnginesMatch /\ PairsMatch /\ IdsMatch /\ CountsMatch /\ SizeMatches)
        PROVE  RInv'
    <2>1. \A u \in Types : Read(u)
      <3>1. \A u \in Types : ~ Left("read", u)
        <4>1. Len(todo) \in Nat
          BY <1>2, OrderlyTail
        <4>2. \A j \in 1 .. Len(todo) : j = 1 \/ 1 < j
          BY <4>1
        <4> QED BY <1>2, <4>2 DEF Left, Orderly
      <3> QED BY <1>3, <3>1 DEF RInv, ReadSoFar, Reading
    <2>2. ASSUME Undisturbed(Place + 1), blocks[Group["data"]] >= Largest PROVE FALSE
      <3>1. PICK k \in 1 .. Len(born) :
              \A u \in Types : \A s \in On(Group[u]) : Valid(s) =>
                /\ s.type = u
                /\ s = SuperBlock(u, k, (Place + 1) - 1, Len(list), s.blocks)
                /\ u = "data" => CreatedSize(s)
        BY <1>2, <2>2, UndisturbedFacts
      <3>2. Place = (Place + 1) - 1
        BY <1>1, AtFacts DEF Place
      <3>3. \A u \in Types : sb[u].type = u /\ sb[u] = SuperBlock(u, k, Place, Len(list), sb[u].blocks)
        BY <2>1, <3>1, <3>2 DEF Read
      <3>4. CreatedSize(sb["data"])
        BY <2>1, <3>1 DEF Read, Types
      <3>5. k \in Nat
        BY BornFacts
      <3>6. \A u \in Types : sb[u].engine = Uuid(k, "engine") /\ sb[u].id = Place /\ sb[u].count = Len(list)
        BY <3>3, <3>5, SuperBlockFacts
      <3>7. TypesMatch /\ EnginesMatch /\ IdsMatch /\ CountsMatch
        BY <3>3, <3>6 DEF TypesMatch, EnginesMatch, IdsMatch, CountsMatch, Types
      <3>8. PairsMatch
        <4>1. /\ sb["data"] = SuperBlock("data", k, Place, Len(list), sb["data"].blocks)
              /\ sb["wal"] = SuperBlock("wal", k, Place, Len(list), sb["wal"].blocks)
              /\ sb["snapshot"] = SuperBlock("snapshot", k, Place, Len(list), sb["snapshot"].blocks)
          BY <3>3 DEF Types
        <4>2. /\ sb["data"].device = Uuid(k, "data") /\ sb["data"].wal = Uuid(k, "wal")
              /\ sb["data"].snapshot = Uuid(k, "snapshot")
          BY <4>1 DEF SuperBlock
        <4>3. sb["wal"].device = Uuid(k, "wal") /\ sb["wal"].data = Uuid(k, "data")
          BY <4>1 DEF SuperBlock
        <4>4. sb["snapshot"].device = Uuid(k, "snapshot") /\ sb["snapshot"].data = Uuid(k, "data")
          BY <4>1 DEF SuperBlock
        <4> QED BY <4>2, <4>3, <4>4 DEF PairsMatch
      <3>9. SizeMatches
        <4>1. blocks[Group["data"]] \in Nat /\ sb["data"].blocks \in Nat /\ sb["data"].blocks <= Largest
              /\ Largest \in Nat
          BY <1>2, <1>4, <3>4, LargestFacts DEF CreatedSize, Types
        <4> QED BY <2>2, <4>1 DEF SizeMatches
      <3> QED BY <1>5, <3>7, <3>8, <3>9
    <2> QED BY <1>1, <1>5, <2>2, RefuseRepair
  <1>6. ASSUME Advance, UNCHANGED sb
        PROVE  RInv'
    <2>1. UNCHANGED <<mode, create, outcome>>
      BY <1>6 DEF Advance
    <2>2. \A x, u : Left(x, u) => Left(x, u)' \/ (x = "match" /\ u = "group")
      BY <1>1, <1>6, AdvanceFacts DEF IInv, Progress
    <2>3. ReadSoFar'
      BY <1>3, <1>6, <2>2 DEF RInv, ReadSoFar
    <2>4. Pending' /\ outcome' # "refused"
      BY <1>2, <2>1 DEF RInv, Pending
    <2> QED BY <1>1, <1>3, <1>4, <2>1, <2>3, <2>4, NotRefused, SameRepair
  <1> QED BY <1>5, <1>6 DEF Match

---------------------------------------------------------------------------
(* The steps that write to devices.                                        *)

\* Contents that are lost leave the sizes in the super blocks as they are.
LEMMA SizesLost ==
    ASSUME RInv, \A d \in Disks : On(d)' \subseteq On(d) \cup {Torn}
    PROVE  \A d \in Disks : \A s \in On(d)' : Valid(s) /\ s.type = "data" => CreatedSize(s)
  <1>1. \A d \in Disks : \A s \in On(d)' : Valid(s) => s \in On(d)
    BY NoSuperBlock
  <1> QED BY <1>1 DEF RInv, Sized

\* A repair that is not synchronised leaves a good backup, one that is leaves two good
\* copies.
LEMMA ReadBackupRepair ==
    ASSUME IInv, RInv, NEW t \in Types, ReadBackup(t)
    PROVE  RInv'
  <1>1. At("read", t) /\ Advance /\ UNCHANGED <<blocks, born, owner, done>>
    BY DEF ReadBackup
  <1>2. PICK d \in Disks : d = Group[t]
    BY <1>1, AtFacts
  <1>3. PICK s \in On(d) : s = copy[d]["backup"] /\ s \in copy_maybe[d]["backup"]
    BY DEF IInv, Contents, On, Copies
  <1>4. Valid(s) /\ sb' = [sb EXCEPT ![t] = s]
    BY <1>2, <1>3 DEF ReadBackup
  <1>5. PICK repair \in {"synced", "written", "failed"} :
          /\ IF repair = "synced"
             THEN /\ copy' = [copy EXCEPT ![d]["primary"] = s]
                  /\ copy_maybe' = [copy_maybe EXCEPT ![d] = [c \in Copies |-> {s}]]
             ELSE WriteAt(d, "primary", s, repair = "written")
          /\ harm' = [harm EXCEPT ![d] = IF repair = "synced" THEN 0 ELSE 1]
    BY <1>2, <1>3 DEF ReadBackup
  <1>6. /\ copy = [e \in Disks |-> [b \in Copies |-> copy[e][b]]]
        /\ copy_maybe = [e \in Disks |-> [b \in Copies |-> copy_maybe[e][b]]]
        /\ harm \in [Disks -> Nat]
    BY DEF IInv, Contents, RInv
  <1>7. /\ harm' \in [Disks -> Nat] /\ harm'[d] = IF repair = "synced" THEN 0 ELSE 1
        /\ \A e \in Disks : e # d => harm'[e] = harm[e]
    BY <1>5, <1>6
  <1>8. /\ \A e \in Disks : e # d => copy'[e] = copy[e] /\ copy_maybe'[e] = copy_maybe[e]
        /\ copy'[d]["backup"] = s
        /\ copy_maybe'[d]["backup"] \in {{s}, copy_maybe[d]["backup"]}
        /\ repair = "synced" => \A c \in Copies : copy_maybe'[d][c] = {s}
        /\ On(d)' \subseteq On(d) \cup {Torn}
    <2>1. CASE repair = "synced"
      <3>1. /\ copy' = [copy EXCEPT ![d]["primary"] = s]
            /\ copy_maybe' = [copy_maybe EXCEPT ![d] = [c \in Copies |-> {s}]]
        BY <1>5, <2>1
      <3>2. /\ \A e \in Disks : e # d => copy'[e] = copy[e] /\ copy_maybe'[e] = copy_maybe[e]
            /\ copy'[d]["backup"] = s
        <4>1. \A e \in Disks : e # d => copy'[e] = copy[e]
          BY <1>6, <3>1
        <4>2. \A e \in Disks : e # d => copy_maybe'[e] = copy_maybe[e]
          BY <1>6, <3>1
        <4>3. "primary" # "backup" /\ copy'[d]["backup"] = copy[d]["backup"]
          BY <1>6, <3>1 DEF Copies
        <4> QED BY <1>3, <4>1, <4>2, <4>3
      <3>3. \A c \in Copies : copy_maybe'[d][c] = {s}
        BY <1>6, <3>1
      <3>4. On(d)' \subseteq On(d) \cup {Torn}
        BY <3>3 DEF On, Copies
      <3> QED BY <3>2, <3>3, <3>4 DEF Copies
    <2>2. CASE repair # "synced"
      <3>1. PICK ok \in BOOLEAN : WriteAt(d, "primary", s, ok)
        BY <1>5, <2>2
      <3>2. "primary" \in Copies /\ "backup" \in Copies /\ "backup" # "primary"
        BY DEF Copies
      <3>3. /\ \A e \in Disks : e # d => copy'[e] = copy[e]
            /\ On(d)' = On(d) \cup {Torn, s}
            /\ copy'[d]["backup"] = copy[d]["backup"]
        BY <3>1, <3>2, WriteAtFacts
      <3>4. copy_maybe' = [copy_maybe EXCEPT ![d]["primary"] = @ \cup {Torn, s}]
        BY <3>1 DEF WriteAt
      <3>5. /\ \A e \in Disks : e # d => copy_maybe'[e] = copy_maybe[e]
            /\ copy_maybe'[d]["backup"] = copy_maybe[d]["backup"]
        BY <1>6, <3>2, <3>4
      <3> QED BY <1>3, <2>2, <3>3, <3>5
    <2> QED BY <2>1, <2>2
  <1>9. \A e \in Disks : e # d => On(e)' = On(e)
    BY <1>8 DEF On
  <1>10. \A e \in Disks : On(e)' \subseteq On(e) \cup {Torn}
    BY <1>8, <1>9
  <1>11. ReadSoFar' /\ Pending' /\ SurvivesOneHarm' /\ ~ create'
    BY <1>1, <1>4, ReadRepair
  <1>12. Sized'
    BY <1>1, <1>10, <1>11, SizesLost DEF RInv, Sized
  <1>13. Owned'
    BY <1>1, <1>11 DEF RInv, Owned
  <1>14. Repairable'
    <2>1. ASSUME NEW e \in Disks, e # d, owner[e] \in done
          PROVE  /\ copy_maybe'[e]["backup"] = {copy'[e]["backup"]}
                 /\ \A x \in On(e)' : Valid(x) => CreateOf(x) = owner[e]
                 /\ harm'[e] = 0 => \A c \in Copies : Good(e, c)'
                 /\ harm'[e] = 1 => \E c \in Copies : Good(e, c)'
      <3>1. copy'[e] = copy[e] /\ copy_maybe'[e] = copy_maybe[e] /\ harm'[e] = harm[e] /\ On(e)' = On(e)
        BY <1>7, <1>8, <1>9, <2>1
      <3> QED BY <2>1, <3>1 DEF RInv, Repairable, Good
    <2>2. ASSUME owner[d] \in done
          PROVE  /\ copy_maybe'[d]["backup"] = {copy'[d]["backup"]}
                 /\ \A x \in On(d)' : Valid(x) => CreateOf(x) = owner[d]
                 /\ harm'[d] = 0 => \A c \in Copies : Good(d, c)'
                 /\ harm'[d] = 1 => \E c \in Copies : Good(d, c)'
      <3>1. /\ copy_maybe[d]["backup"] = {s}
            /\ \A x \in On(d) : Valid(x) => CreateOf(x) = owner[d]
        BY <1>3, <2>2 DEF RInv, Repairable
      <3>2. copy_maybe'[d]["backup"] = {s}
        BY <1>8, <3>1
      <3>3. \A x \in On(d)' : Valid(x) => CreateOf(x) = owner[d]
        BY <1>8, <3>1, NoSuperBlock
      <3>4. Good(d, "backup")' /\ "backup" \in Copies
        BY <1>4, <3>2 DEF Good, Copies
      <3>5. harm'[d] = 0 => \A c \in Copies : Good(d, c)'
        BY <1>4, <1>7, <1>8 DEF Good
      <3> QED BY <1>8, <3>2, <3>3, <3>4, <3>5
    <2> QED BY <1>1, <2>1, <2>2 DEF Repairable
  <1> QED BY <1>7, <1>11, <1>12, <1>13, <1>14 DEF RInv

\* A copy that decays is one damaged copy more.
LEMMA RotRepair ==
    ASSUME IInv, RInv, NEW d \in Disks, NEW c \in Copies, Rot(d, c)
    PROVE  RInv'
  <1>1. /\ mode' = "down" /\ outcome' # "refused"
        /\ copy' = [copy EXCEPT ![d][c] = Torn]
        /\ copy_maybe' = [copy_maybe EXCEPT ![d][c] = {Torn}]
        /\ harm' = [harm EXCEPT ![d] = @ + 1]
        /\ UNCHANGED <<blocks, born, owner, done>>
    BY DEF Rot
  <1>2. /\ copy = [e \in Disks |-> [b \in Copies |-> copy[e][b]]]
        /\ copy_maybe = [e \in Disks |-> [b \in Copies |-> copy_maybe[e][b]]]
        /\ harm \in [Disks -> Nat]
    BY DEF IInv, Contents, RInv
  <1>3. /\ copy'[d][c] = Torn
        /\ \A e \in Disks, b \in Copies : <<e, b>> # <<d, c>> => copy'[e][b] = copy[e][b]
    BY <1>1, <1>2
  <1>4. /\ copy_maybe'[d][c] = {Torn}
        /\ \A e \in Disks, b \in Copies : <<e, b>> # <<d, c>> => copy_maybe'[e][b] = copy_maybe[e][b]
    BY <1>1, <1>2
  <1>5. /\ harm' \in [Disks -> Nat] /\ harm'[d] = harm[d] + 1 /\ harm[d] \in Nat
        /\ \A e \in Disks : e # d => harm'[e] = harm[e]
    BY <1>1, <1>2
  <1>6. \A e \in Disks : On(e)' \subseteq On(e) \cup {Torn}
    BY <1>4 DEF On, Copies
  <1>7. ~ Working' /\ Pending' /\ SurvivesOneHarm'
    BY <1>1, NotRefused DEF Working, Pending
  <1>8. Sized' /\ Owned' /\ ReadSoFar'
    BY <1>1, <1>6, <1>7, SizesLost DEF RInv, Sized, Owned, ReadSoFar
  <1>9. Repairable'
    <2> SUFFICES ASSUME NEW e \in Disks, owner[e] \in done
                 PROVE  /\ copy_maybe'[e]["backup"] = {copy'[e]["backup"]}
                        /\ \A x \in On(e)' : Valid(x) => CreateOf(x) = owner[e]
                        /\ harm'[e] = 0 => \A b \in Copies : Good(e, b)'
                        /\ harm'[e] = 1 => \E b \in Copies : Good(e, b)'
      BY <1>1 DEF Repairable
    <2>1. /\ copy_maybe[e]["backup"] = {copy[e]["backup"]}
          /\ \A x \in On(e) : Valid(x) => CreateOf(x) = owner[e]
          /\ harm[e] = 0 => \A b \in Copies : Good(e, b)
          /\ harm[e] = 1 => \E b \in Copies : Good(e, b)
      BY DEF RInv, Repairable
    <2>2. \A x \in On(e)' : Valid(x) => CreateOf(x) = owner[e]
      BY <1>6, <2>1, NoSuperBlock
    <2>3. copy_maybe'[e]["backup"] = {copy'[e]["backup"]}
      <3>1. "backup" \in Copies
        BY DEF Copies
      <3>2. CASE e = d /\ c = "backup"
        BY <1>3, <1>4, <3>2
      <3>3. CASE ~ (e = d /\ c = "backup")
        <4>1. <<e, "backup">> # <<d, c>>
          BY <3>3
        <4> QED BY <1>3, <1>4, <2>1, <3>1, <4>1
      <3> QED BY <3>2, <3>3
    <2>4. CASE e # d
      <3>1. \A b \in Copies : copy_maybe'[e][b] = copy_maybe[e][b]
        <4>1. \A b \in Copies : <<e, b>> # <<d, c>>
          BY <2>4
        <4> QED BY <1>4, <4>1
      <3>2. \A b \in Copies : Good(e, b) => Good(e, b)'
        BY <3>1 DEF Good
      <3>3. harm'[e] = harm[e]
        BY <1>5, <2>4
      <3> QED BY <2>1, <2>2, <2>3, <3>2, <3>3
    <2>5. CASE e = d
      <3>1. harm'[e] # 0 /\ (harm'[e] = 1 => harm[e] = 0)
        BY <1>5, <2>5
      <3>2. PICK b \in Copies : b # c
        BY DEF Copies
      <3>3. copy_maybe'[e][b] = copy_maybe[e][b]
        <4>1. <<e, b>> # <<d, c>>
          BY <3>2
        <4> QED BY <1>4, <4>1
      <3>4. harm[e] = 0 => Good(e, b)'
        BY <2>1, <3>3 DEF Good
      <3> QED BY <2>2, <2>3, <3>1, <3>4
    <2> QED BY <2>4, <2>5
  <1> QED BY <1>5, <1>7, <1>8, <1>9 DEF RInv

\* A power failure picks one of the contents a copy may have.
LEMMA PowerFailureRepair ==
    ASSUME IInv, RInv, PowerFailure
    PROVE  RInv'
  <1>1. Stopped /\ UNCHANGED <<blocks, born, owner, done, harm>>
    BY DEF PowerFailure, ghost
  <1>2. mode' = "down" /\ outcome' # "refused"
    BY <1>1 DEF Stopped
  <1>3. PICK pick :
          /\ \A x \in Unsynced : pick[x] \in copy_maybe[x[1]][x[2]]
          /\ copy' = [d \in Disks |-> [c \in Copies |->
                        IF <<d, c>> \in Unsynced THEN pick[<<d, c>>] ELSE copy[d][c]]]
          /\ copy_maybe' = [d \in Disks |-> [c \in Copies |-> {copy'[d][c]}]]
    BY DEF PowerFailure
  <1>4. ASSUME NEW d \in Disks, NEW c \in Copies
        PROVE  copy'[d][c] \in copy_maybe[d][c] /\ copy_maybe'[d][c] = {copy'[d][c]}
    <2>1. copy[d][c] \in copy_maybe[d][c]
      BY DEF IInv, Contents
    <2>2. copy'[d][c] = IF <<d, c>> \in Unsynced THEN pick[<<d, c>>] ELSE copy[d][c]
      BY <1>3
    <2>3. <<d, c>> \in Unsynced => pick[<<d, c>>] \in copy_maybe[d][c]
      BY <1>3
    <2> QED BY <1>3, <2>1, <2>2, <2>3
  <1>5. \A d \in Disks : On(d)' \subseteq On(d)
    BY <1>4 DEF On, Copies
  <1>6. \A d \in Disks : On(d)' \subseteq On(d) \cup {Torn}
    BY <1>5
  <1>7. ~ Working' /\ Pending' /\ SurvivesOneHarm'
    BY <1>2, NotRefused DEF Working, Pending
  <1>8. Sized' /\ Owned' /\ ReadSoFar'
    BY <1>1, <1>6, <1>7, SizesLost DEF RInv, Sized, Owned, ReadSoFar
  <1>9. \A d \in Disks, c \in Copies : Good(d, c) => Good(d, c)'
    BY <1>4 DEF Good
  <1>10. Repairable'
    <2>1. \A d \in Disks : copy_maybe'[d]["backup"] = {copy'[d]["backup"]}
      BY <1>4 DEF Copies
    <2> QED BY <1>1, <1>5, <1>9, <2>1 DEF RInv, Repairable
  <1> QED BY <1>1, <1>7, <1>8, <1>10 DEF RInv

\* A write makes the create at work the owner of the device; it has not succeeded yet.
LEMMA WriteCopyRepair ==
    ASSUME IInv, RInv, NEW c \in Copies, NEW t \in Types, WriteCopy(c, t)
    PROVE  RInv'
  <1>1. At(c, t) /\ UNCHANGED <<blocks, born, done, harm>>
    BY DEF WriteCopy
  <1>2. PICK ok \in BOOLEAN : /\ WriteAt(Group[t], c, sb[t], ok)
                              /\ IF ok THEN Advance /\ UNCHANGED sb ELSE Fail("failed")
    BY DEF WriteCopy, Outcomes
  <1>3. /\ create /\ Working /\ Len(born) \in Nat /\ Len(born) \in 1 .. Len(born)
        /\ born[Len(born)].disks = Group
        /\ CreateOf(sb[t]) = Len(born) /\ Valid(sb[t]) /\ sb[t].type = t
    BY <1>1, CreateOnly DEF Copies
  <1>4. /\ mode = "opening" /\ \A u \in Types : Group[u] \in Disks
        /\ What(todo[1]) = c /\ c # "rest" /\ c \notin {"begin", "rest", "start"}
    BY <1>1, AtFacts DEF Copies
  <1>5. PICK d \in Disks : d = Group[t]
    BY <1>4
  <1>6. PICK s : s = sb[t]
    OBVIOUS
  <1>7. owner \in [Disks -> 0 .. Len(born)] /\ owner' = [owner EXCEPT ![d] = Len(born)]
    BY <1>3, <1>5 DEF WriteCopy, IInv, History
  <1>8. owner'[d] = Len(born) /\ \A e \in Disks : e # d => owner'[e] = owner[e]
    BY <1>7
  <1>9. Len(born) \notin done
    BY <1>3, <1>4 DEF RInv, Owned
  <1>10. /\ \A e \in Disks : e # d => On(e)' = On(e) /\ copy'[e] = copy[e]
         /\ On(d)' = On(d) \cup {Torn, s}
    BY <1>2, <1>5, <1>6, WriteAtFacts
  <1>11. \A e \in Disks : e # d => copy_maybe'[e] = copy_maybe[e]
    <2>1. copy_maybe = [e \in Disks |-> [b \in Copies |-> copy_maybe[e][b]]]
      BY DEF IInv, Contents
    <2>2. copy_maybe' = [copy_maybe EXCEPT ![d][c] = @ \cup {Torn, s}]
      BY <1>2, <1>5, <1>6 DEF WriteAt
    <2> QED BY <2>1, <2>2
  <1>12. s.type = "data" => CreatedSize(s)
    BY <1>3, <1>6 DEF RInv, Sized
  <1>13. \A e \in Disks : \A x \in On(e)' : Valid(x) /\ x.type = "data" => CreatedSize(x)
    <2>1. \A e \in Disks : \A x \in On(e)' : Valid(x) => x \in On(e) \/ x = s
      BY <1>10, NoSuperBlock
    <2> QED BY <1>12, <2>1 DEF RInv, Sized
  <1>14. Repairable'
    <2> SUFFICES ASSUME NEW e \in Disks, owner'[e] \in done
                 PROVE  /\ copy_maybe'[e]["backup"] = {copy'[e]["backup"]}
                        /\ \A x \in On(e)' : Valid(x) => CreateOf(x) = owner'[e]
                        /\ harm[e] = 0 => \A b \in Copies : Good(e, b)'
                        /\ harm[e] = 1 => \E b \in Copies : Good(e, b)'
      BY <1>1 DEF Repairable
    <2>1. e # d
      BY <1>8, <1>9
    <2>2. copy'[e] = copy[e] /\ copy_maybe'[e] = copy_maybe[e] /\ On(e)' = On(e) /\ owner'[e] = owner[e]
      BY <1>8, <1>10, <1>11, <2>1
    <2> QED BY <2>2 DEF RInv, Repairable, Good
  <1>15. \A e \in Disks : owner'[e] # 0 => \E u \in Types : born[owner'[e]].disks[u] = e
    BY <1>3, <1>5, <1>8 DEF RInv, Owned
  <1>16. blocks' \in [Disks -> Sizes] /\ harm' \in [Disks -> Nat]
    BY <1>1 DEF RInv, Sized
  <1>17. CASE ~ ok
    <2>1. mode' = "down" /\ outcome' = "failed"
      BY <1>2, <1>17 DEF Fail
    <2>2. ~ Working' /\ Pending' /\ SurvivesOneHarm'
      BY <2>1, NotRefused DEF Working, Pending
    <2>3. Sized' /\ Owned' /\ ReadSoFar'
      BY <1>1, <1>13, <1>15, <1>16, <2>2 DEF Sized, Owned, ReadSoFar
    <2> QED BY <1>14, <1>16, <2>2, <2>3 DEF RInv
  <1>18. CASE ok
    <2>1. Advance /\ UNCHANGED sb
      BY <1>2, <1>18
    <2>2. UNCHANGED <<mode, create, list, groups, outcome>>
      BY <2>1 DEF Advance
    <2>3. Group' = Group /\ \A x, u : Left(x, u) => Left(x, u)' \/ (x = c /\ u = t)
      BY <1>1, <1>4, <2>1, AdvanceFacts DEF IInv, Progress
    <2>4. ReadSoFar' /\ Pending' /\ outcome' # "refused"
      BY <1>3, <1>4, <2>2 DEF RInv, ReadSoFar, Pending
    <2>5. Sized'
      BY <1>3, <1>13, <1>16, <2>1 DEF RInv, Sized
    <2>6. ASSUME NEW b \in Copies, NEW u \in Types, ~ Left(b, u)'
          PROVE  owner'[Group[u]] = Len(born)
      <3>1. CASE u = t
        BY <1>5, <1>8, <3>1
      <3>2. CASE u # t
        <4>1. owner[Group[u]] = Len(born)
          BY <1>3, <2>3, <2>6, <3>2 DEF RInv, Owned
        <4> QED BY <1>4, <1>8, <4>1
      <3> QED BY <3>1, <3>2
    <2>7. Owned'
      BY <1>1, <1>9, <1>15, <2>3, <2>6 DEF Owned
    <2> QED BY <1>14, <1>16, <2>4, <2>5, <2>7, NotRefused DEF RInv
  <1> QED BY <1>17, <1>18

\* Once the last Sync has succeeded each device of the group holds its super block twice,
\* and nothing else; an earlier one makes durable what was written.
LEMMA SyncCopyRepair ==
    ASSUME IInv, RInv, NEW t \in Types, SyncCopy(t)
    PROVE  RInv'
  <1>1. At("sync", t) /\ UNCHANGED <<copy, blocks, born, owner>>
    BY DEF SyncCopy
  <1>2. blocks' \in [Disks -> Sizes]
    BY <1>1 DEF RInv, Sized
  <1>3. CASE Fail("failed") /\ UNCHANGED <<copy_maybe, done, harm>>
    BY <1>1, <1>2, <1>3, DownRepair DEF Fail, device
  <1>4. ASSUME Synced(Group[t]), Advance, Completes, UNCHANGED sb
        PROVE  RInv'
    <2>1. /\ create /\ Working /\ Building /\ Len(born) \in Nat /\ Len(born) \in 1 .. Len(born)
          /\ born[Len(born)].disks = Group
          /\ \A u \in Types : CreateOf(sb[u]) = Len(born) /\ Valid(sb[u])
      BY <1>1, CreateOnly
    <2>2. UNCHANGED <<mode, create, list, groups, outcome>>
      BY <1>4 DEF Advance
    <2>3. /\ mode = "opening" /\ Orderly(todo) /\ \A u \in Types : Group[u] \in Disks
          /\ What(todo[1]) = "sync"
      BY <1>1, AtFacts
    <2>4. /\ Working' /\ todo' # <<>> /\ Group' = Group
          /\ 2 \in 1 .. Len(todo) /\ todo'[1] = todo[2]
          /\ \A x, u : Left(x, u) => Left(x, u)' \/ (x = "sync" /\ u = t)
      BY <1>1, <1>4, AdvanceFacts DEF IInv, Progress
    <2>5. PICK d \in Disks : d = Group[t]
      BY <2>3
    <2>6. /\ copy_maybe = [e \in Disks |-> [b \in Copies |-> copy_maybe[e][b]]]
          /\ \A e \in Disks, b \in Copies : copy[e][b] \in copy_maybe[e][b]
      BY DEF IInv, Contents
    <2>7. copy_maybe' = [copy_maybe EXCEPT ![d] = [c \in Copies |-> {copy[d][c]}]]
      BY <1>4, <2>5 DEF Synced
    <2>8. /\ \A b \in Copies : copy_maybe'[d][b] = {copy[d][b]}
          /\ \A e \in Disks : e # d => copy_maybe'[e] = copy_maybe[e]
      BY <2>6, <2>7
    <2>9. \A e \in Disks, b \in Copies : copy_maybe'[e][b] \subseteq copy_maybe[e][b]
      <3>1. \A e \in Disks, b \in Copies : {copy[e][b]} \subseteq copy_maybe[e][b]
        BY <2>6
      <3> QED BY <2>8, <3>1
    <2>10. \A e \in Disks : On(e)' \subseteq On(e)
      BY <2>9 DEF On, Copies
    <2>11. \A e \in Disks : On(e)' \subseteq On(e) \cup {Torn}
      BY <2>10
    <2>12. PICK last \in BOOLEAN : last <=> todo[2] = <<"rest", "group">>
      OBVIOUS
    <2>13. /\ done' = IF last THEN done \cup {Len(born)} ELSE done
           /\ harm' = [e \in Disks |-> IF last /\ \E u \in Types : e = Group[u] THEN 0 ELSE harm[e]]
      BY <1>4, <2>1, <2>12 DEF Completes, Types
    <2>14. harm' \in [Disks -> Nat]
      BY <2>13 DEF RInv
    <2>15. What(todo'[1]) = "rest" <=> last
      BY <2>3, <2>4, <2>12, RestStep
    <2>16. ReadSoFar' /\ Pending' /\ outcome' # "refused"
      BY <2>1, <2>2, <2>3 DEF RInv, ReadSoFar, Pending
    <2>17. Sized'
      BY <1>2, <1>4, <2>1, <2>11, SizesLost DEF RInv, Sized
    <2>18. \A c \in Copies, u \in Types : ~ Left(c, u)' => owner[Group[u]] = Len(born)
      BY <2>1, <2>4 DEF RInv, Owned, Copies
    <2>19. Len(born) \notin done
      BY <2>1, <2>3 DEF RInv, Owned
    <2>20. Owned'
      BY <1>1, <2>4, <2>13, <2>15, <2>18, <2>19 DEF RInv, Owned
    <2>21. ASSUME NEW e \in Disks, owner[e] \in done, owner[e] # Len(born)
           PROVE  /\ copy_maybe'[e]["backup"] = {copy[e]["backup"]}
                  /\ \A x \in On(e)' : Valid(x) => CreateOf(x) = owner[e]
                  /\ harm[e] = 0 => \A b \in Copies : Good(e, b)'
                  /\ harm[e] = 1 => \E b \in Copies : Good(e, b)'
      <3>1. /\ copy_maybe[e]["backup"] = {copy[e]["backup"]}
            /\ \A x \in On(e) : Valid(x) => CreateOf(x) = owner[e]
            /\ harm[e] = 0 => \A b \in Copies : Good(e, b)
            /\ harm[e] = 1 => \E b \in Copies : Good(e, b)
        BY <2>21 DEF RInv, Repairable
      <3>2. \A b \in Copies : Good(e, b) => Good(e, b)'
        BY <2>9 DEF Good
      <3>3. copy_maybe'[e]["backup"] = {copy[e]["backup"]}
        BY <2>8, <3>1 DEF Copies
      <3> QED BY <2>10, <3>1, <3>2, <3>3
    <2>22. CASE ~ last
      <3>1. done' = done /\ \A e \in Disks : harm'[e] = harm[e]
        BY <2>13, <2>22
      <3>2. \A e \in Disks : owner[e] \in done => owner[e] # Len(born)
        BY <2>19
      <3>3. Repairable'
        BY <1>1, <2>21, <3>1, <3>2 DEF Repairable
      <3> QED BY <2>14, <2>16, <2>17, <2>20, <3>3, NotRefused DEF RInv
    <2>23. CASE last
      <3>1. Len(todo) = 2 /\ What(todo[2]) = "rest"
        BY <2>3, <2>4, <2>12, <2>23, RestStep
      <3>2. \A i \in 1 .. Len(todo') : What(todo'[i]) = "rest"
        <4>1. Len(todo') = Len(todo) - 1
          BY <1>4, <2>3, <2>4, OrderlyTail DEF Advance, Working
        <4>2. \A i \in 1 .. Len(todo') : i = 1
          BY <3>1, <4>1
        <4> QED BY <2>4, <3>1, <4>2
      <3>3. \A x \in {"backup", "primary", "sync"}, u \in Types : ~ Left(x, u)'
        BY <3>2 DEF Left
      <3>4. \A u \in Types : owner[Group[u]] = Len(born)
        BY <2>18, <3>3 DEF Copies
      <3>5. \A e \in Disks : owner[e] = Len(born) <=> \E u \in Types : e = Group[u]
        BY <2>1, <3>4 DEF RInv, Owned
      <3>6. ASSUME NEW u \in Types
            PROVE  \E e \in Disks : e = Group[u] /\ On(e)' = {sb[u]}
        <4>1. IInv'
          BY SyncCopyKeeps
        <4>2. On(Group[u])' = {sb[u]}
          BY <1>4, <2>1, <2>2, <2>4, <3>3, <4>1 DEF IInv, Building
        <4>3. PICK e \in Disks : e = Group[u]
          BY <2>3
        <4> QED BY <2>4, <4>2, <4>3 DEF On
      <3>7. ASSUME NEW e \in Disks, owner[e] = Len(born)
            PROVE  /\ copy_maybe'[e]["backup"] = {copy[e]["backup"]}
                   /\ \A x \in On(e)' : Valid(x) => CreateOf(x) = owner[e]
                   /\ \A b \in Copies : Good(e, b)'
                   /\ harm'[e] = 0
        <4>1. PICK u \in Types : e = Group[u]
          BY <3>5, <3>7
        <4>2. On(e)' = {sb[u]}
          BY <3>6, <4>1
        <4>3. \A x \in On(e)' : Valid(x) /\ CreateOf(x) = owner[e]
          BY <2>1, <3>7, <4>2
        <4>4. \A b \in Copies : Good(e, b)'
          BY <4>3 DEF Good, On, Copies
        <4>5. copy_maybe'[e]["backup"] = {copy[e]["backup"]}
          <5>1. (Contents)'
            BY SyncCopyKeeps DEF IInv
          <5>2. copy'[e]["backup"] \in copy_maybe'[e]["backup"]
            BY <5>1 DEF Contents, Copies
          <5>3. copy_maybe'[e]["backup"] \subseteq {sb[u]}
            BY <4>2 DEF On
          <5> QED BY <1>1, <5>2, <5>3
        <4>6. harm'[e] = 0
          BY <2>13, <2>23, <4>1
        <4> QED BY <4>3, <4>4, <4>5, <4>6
      <3>8. \A e \in Disks : owner[e] # Len(born) => harm'[e] = harm[e]
        BY <2>13, <3>5
      <3>9. Repairable'
        <4> SUFFICES ASSUME NEW e \in Disks, owner[e] \in done'
                     PROVE  /\ copy_maybe'[e]["backup"] = {copy[e]["backup"]}
                            /\ \A x \in On(e)' : Valid(x) => CreateOf(x) = owner[e]
                            /\ harm'[e] = 0 => \A b \in Copies : Good(e, b)'
                            /\ harm'[e] = 1 => \E b \in Copies : Good(e, b)'
          BY <1>1 DEF Repairable
        <4>1. CASE owner[e] = Len(born)
          BY <3>7, <4>1
        <4>2. CASE owner[e] # Len(born)
          <5>1. owner[e] \in done /\ harm'[e] = harm[e]
            BY <2>13, <3>8, <4>2
          <5> QED BY <2>21, <4>2, <5>1
        <4> QED BY <4>1, <4>2
      <3> QED BY <2>14, <2>16, <2>17, <2>20, <3>9, NotRefused DEF RInv
    <2> QED BY <2>22, <2>23
  <1> QED BY <1>3, <1>4 DEF SyncCopy

---------------------------------------------------------------------------
(* The rest of a group, and of the engine.                                 *)

\* The group in hand is done with.
LEMMA OpenRestRepair ==
    ASSUME IInv, RInv, OpenRest
    PROVE  RInv'
  <1>1. At("rest", "group") /\ UNCHANGED <<device, blocks, born, owner, done, harm>>
    BY DEF OpenRest, ghost
  <1>2. blocks' \in [Disks -> Sizes] /\ mode = "opening"
    BY <1>1, AtFacts DEF RInv, Sized
  <1>3. CASE Fail("failed")
    BY <1>1, <1>2, <1>3, DownRepair DEF Fail
  <1>4. ASSUME todo' = << <<IF Len(groups') = Len(list) THEN "start" ELSE "begin", "group">> >>,
               UNCHANGED <<mode, outcome>>
        PROVE  RInv'
    <2>1. What(todo'[1]) \in {"begin", "start"}
      BY <1>4 DEF What
    <2>2. ~ Working' /\ Pending' /\ outcome' # "refused"
      BY <1>2, <1>4, <2>1 DEF Working, RInv, Pending
    <2> QED BY <1>1, <1>2, <2>2, IdleRepair
  <1> QED BY <1>3, <1>4 DEF OpenRest

\* An engine that runs was not refused.
LEMMA StartReactorsRepair ==
    ASSUME IInv, RInv, StartReactors
    PROVE  RInv'
  <1>1. UNCHANGED <<device, blocks, born, owner, done, harm>>
    BY DEF StartReactors
  <1>2. blocks' \in [Disks -> Sizes]
    BY <1>1 DEF RInv, Sized
  <1>3. CASE Fail("failed")
    BY <1>1, <1>2, <1>3, DownRepair DEF Fail
  <1>4. CASE mode' = "up" /\ outcome' = "ok"
    BY <1>1, <1>2, <1>4, IdleRepair DEF Working, Pending
  <1> QED BY <1>3, <1>4 DEF StartReactors

\* A snapshot leaves the super blocks alone.
LEMMA TakeSnapshotRepair ==
    ASSUME IInv, RInv, NEW i, TakeSnapshot(i)
    PROVE  RInv'
  <1>1. mode = "up" /\ UNCHANGED <<device, blocks, mode, outcome, born, owner, done, harm>>
    BY DEF TakeSnapshot
  <1>2. blocks' \in [Disks -> Sizes] /\ outcome' = "ok"
    BY <1>1 DEF RInv, Sized, Pending
  <1> QED BY <1>1, <1>2, IdleRepair DEF Working, Pending

\* The end of the process, and a change of size while it is not running.
LEMMA StoppedRepair ==
    ASSUME IInv, RInv, Stopped, UNCHANGED <<device, blocks, ghost>>
    PROVE  RInv'
  <1>1. mode' = "down" /\ outcome' # "refused" /\ UNCHANGED <<born, owner, done, harm>>
    BY DEF Stopped, ghost
  <1>2. blocks' \in [Disks -> Sizes]
    BY DEF RInv, Sized
  <1> QED BY <1>1, <1>2, DownRepair

\* A device that shrinks or grows is one of another size.
LEMMA ResizeRepair ==
    ASSUME IInv, RInv, NEW g \in 1 .. N, NEW n \in Sizes, Resize(g, n)
    PROVE  RInv'
  <1>1. mode' = "down" /\ outcome' # "refused" /\ UNCHANGED <<device, born, owner, done, harm>>
    BY DEF Resize, ghost
  <1>2. blocks' \in [Disks -> Sizes]
    <2>1. blocks \in [Disks -> Sizes]
      BY DEF RInv, Sized
    <2> QED BY <2>1 DEF Resize
  <1> QED BY <1>1, <1>2, DownRepair

\* A step that changes nothing.
LEMMA StutterRepair ==
    ASSUME IInv, RInv, UNCHANGED vars
    PROVE  RInv'
  <1>1. UNCHANGED <<device, blocks, mode, create, list, todo, sb, groups, outcome,
                    born, owner, done, harm, glitch>>
    BY DEF vars, call, ghost
  <1>2. UNCHANGED <<copy, copy_maybe>>
    BY <1>1 DEF device
  <1>3. \A d : On(d)' = On(d)
    BY <1>2 DEF On
  <1>4. \A x, u : Left(x, u)' <=> Left(x, u)
    BY <1>1 DEF Left
  <1>5. Group' = Group /\ (Working' <=> Working)
    BY <1>1 DEF Group, Working
  <1>6. Sized'
    BY <1>1, <1>3, <1>5 DEF RInv, Sized
  <1>7. Owned'
    BY <1>1, <1>4, <1>5 DEF RInv, Owned
  <1>8. Repairable'
    BY <1>1, <1>2, <1>3 DEF RInv, Repairable, Good
  <1>9. ReadSoFar' /\ Pending'
    BY <1>1, <1>4, <1>5 DEF RInv, ReadSoFar, Pending
  <1>10. SurvivesOneHarm'
    <2>1. \A i : Undisturbed(i)' <=> Undisturbed(i)
      BY <1>1 DEF Undisturbed
    <2> QED BY <1>1, <2>1 DEF RInv, SurvivesOneHarm
  <1> QED BY <1>1, <1>6, <1>7, <1>8, <1>9, <1>10 DEF RInv

\* Every step keeps the invariant.
LEMMA NextRepair ==
    ASSUME IInv, RInv, [Next]_vars
    PROVE  RInv'
  <1>1. ASSUME NEW wipe \in BOOLEAN, NEW l \in Lists, Open(wipe, l) PROVE RInv'
    BY <1>1, OpenRepair
  <1>2. CASE BeginCreate
    BY <1>2, BeginCreateRepair
  <1>3. CASE BeginRecover
    BY <1>3, BeginRecoverRepair
  <1>4. ASSUME NEW t \in Types, NEW c \in Copies, WriteCopy(c, t) PROVE RInv'
    BY <1>4, WriteCopyRepair
  <1>5. ASSUME NEW t \in Types, SyncCopy(t) PROVE RInv'
    BY <1>5, SyncCopyRepair
  <1>6. ASSUME NEW t \in Types, ReadPrimary(t) PROVE RInv'
    BY <1>6, ReadPrimaryRepair
  <1>7. ASSUME NEW t \in Types, ReadBackup(t) PROVE RInv'
    BY <1>7, ReadBackupRepair
  <1>8. ASSUME NEW t \in Types, ReadNothing(t) PROVE RInv'
    BY <1>8, ReadNothingRepair
  <1>9. CASE Match
    BY <1>9, MatchRepair
  <1>10. CASE OpenRest
    BY <1>10, OpenRestRepair
  <1>11. CASE StartReactors
    BY <1>11, StartReactorsRepair
  <1>12. ASSUME NEW i \in 1 .. Len(groups), TakeSnapshot(i) PROVE RInv'
    BY <1>12, TakeSnapshotRepair
  <1>13. CASE Close
    BY <1>13, StoppedRepair DEF Close
  <1>14. CASE Kill
    BY <1>14, StoppedRepair DEF Kill
  <1>15. CASE PowerFailure
    BY <1>15, PowerFailureRepair
  <1>16. ASSUME NEW d \in Disks, NEW c \in Copies, Rot(d, c) PROVE RInv'
    BY <1>16, RotRepair
  <1>17. ASSUME NEW g \in 1 .. N, NEW n \in Sizes, Resize(g, n) PROVE RInv'
    BY <1>17, ResizeRepair
  <1>18. CASE Idle \/ UNCHANGED vars
    BY <1>18, StutterRepair DEF Idle
  <1> QED BY <1>1, <1>2, <1>3, <1>4, <1>5, <1>6, <1>7, <1>8, <1>9, <1>10, <1>11, <1>12, <1>13,
             <1>14, <1>15, <1>16, <1>17, <1>18 DEF Next

---------------------------------------------------------------------------
(* The theorems.                                                           *)

\* The invariant holds throughout.
THEOREM RInvHolds == Spec => []RInv
  <1>1. IInv /\ RInv /\ [Next]_vars => RInv'
    BY NextRepair
  <1> QED BY <1>1, InitRepair, IInvHolds, PTL DEF Spec

\* An Open without create refuses an engine for a reason only: one of its groups was never
\* completed or was written to by a later create, a device lost both copies of its super
\* block or is smaller than the largest, or a read failed.  One bad copy per device is not a
\* reason, nor is a second one after a repair (ReadSuperBlockWithRepair).
THEOREM SurvivesOneHarmHolds == Spec => []SurvivesOneHarm
  <1>1. RInv => SurvivesOneHarm
    BY DEF RInv
  <1> QED BY <1>1, RInvHolds, PTL

==============================================================================
