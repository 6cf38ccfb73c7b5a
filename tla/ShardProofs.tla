------------------------------ MODULE ShardProofs ------------------------------
(***************************************************************************)
(* Proofs about module Shard, for every number of keys, blocks, lives,     *)
(* operations and failures.  The inductive invariant comes in two parts:   *)
(* Right is about log, index and blocks, Valued about what the blocks hold.*)
(***************************************************************************)
EXTENDS Shard, SequenceTheorems, FiniteSetTheorems, NaturalsInduction, WellFoundedInduction, TLAPS

---------------------------------------------------------------------------
(* Replay.                                                                 *)

Frame == [key : Keys, meta : Metas]

\* A set of numbers that is not empty has a least member.
LEMMA Least ==
    ASSUME NEW S, S \subseteq Nat, S # {}
    PROVE  \E m \in S : \A n \in S : m <= n
<1>1. IsWellFoundedOn(OpToRel(<, Nat), Nat)
    BY NatLessThanWellFounded
<1>2. PICK m \in S : \A n \in S : <<n, m>> \notin OpToRel(<, Nat)
    BY <1>1, WFMin, Zenon
<1>3. \A n \in S : ~ (n < m)
    BY <1>2 DEF OpToRel
<1> QED
    BY <1>3

\* What one frame does to an index.
Applied(map, e) == [map EXCEPT ![e.key] = e.meta]

\* One frame makes an index of an index.
LEMMA FrameStep ==
    ASSUME NEW map \in Maps, NEW e \in Frame
    PROVE  Applied(map, e) \in Maps
  BY DEF Maps, Frame, Applied

\* h is the list of the indexes that the first m frames of f make of b.
Solves(h, b, f, m) ==
    h = [n \in 0 .. m |-> IF n = 0 THEN b ELSE Applied(h[n - 1], f[n])]

\* The recursion of ApplyWalEntry has a solution.
LEMMA ReplayExists ==
    ASSUME NEW b, NEW f \in Seq(Frame)
    PROVE  \E h : Solves(h, b, f, Len(f))
<1> DEFINE S == {m \in 0 .. Len(f) : ~ \E h : Solves(h, b, f, m)}
<1>1. SUFFICES ASSUME S # {} PROVE FALSE
  <2>1. Len(f) \in 0 .. Len(f)
    BY LenProperties
  <2>2. Len(f) \notin S
    BY <1>1
  <2> QED
    BY <2>1, <2>2
<1>2. S \subseteq Nat
    OBVIOUS
<1>3. PICK m \in S : \A n \in S : m <= n
    BY <1>1, <1>2, Least
<1>4. m \in 0 .. Len(f) /\ m \in Nat
    BY <1>3
<1>5. m # 0
  <2> DEFINE h0 == [n \in 0 .. 0 |-> b]
  <2>1. Solves(h0, b, f, 0)
    BY DEF Solves
  <2> QED
    BY <1>3, <2>1
<1>6. m - 1 \in 0 .. Len(f) /\ m - 1 \notin S
    BY <1>3, <1>4, <1>5, LenProperties
<1>7. PICK g : Solves(g, b, f, m - 1)
    BY <1>6
<1> DEFINE h == [n \in 0 .. m |-> IF n = m THEN Applied(g[m - 1], f[m]) ELSE g[n]]
<1>8. \A n \in 0 .. m - 1 : h[n] = g[n]
    BY <1>4, <1>5
<1>9. \A n \in 0 .. m - 1 : g[n] = IF n = 0 THEN b ELSE Applied(g[n - 1], f[n])
    BY <1>7, Zenon DEF Solves
<1>10. \A n \in 0 .. m : h[n] = IF n = 0 THEN b ELSE Applied(h[n - 1], f[n])
  <2> SUFFICES ASSUME NEW n \in 0 .. m
               PROVE  h[n] = IF n = 0 THEN b ELSE Applied(h[n - 1], f[n])
    OBVIOUS
  <2>1. CASE n = m
    <3>1. h[m] = Applied(g[m - 1], f[m]) /\ h[m - 1] = g[m - 1]
      BY <1>4, <1>5, <1>8
    <3> QED
      BY <2>1, <3>1, <1>5
  <2>2. CASE n # m /\ n = 0
    BY <2>2, <1>4, <1>8, <1>9
  <2>3. CASE n # m /\ n # 0
    <3>1. n \in 0 .. m - 1 /\ n - 1 \in 0 .. m - 1
      BY <2>3, <1>4
    <3> HIDE DEF h
    <3> QED
      BY <2>3, <3>1, <1>8, <1>9
  <2> QED
    BY <2>1, <2>2, <2>3
<1>11. Solves(h, b, f, m)
  <2>1. h = [n \in 0 .. m |-> h[n]]
    OBVIOUS
  <2> HIDE DEF h
  <2>2. [n \in 0 .. m |-> h[n]] = [n \in 0 .. m |-> IF n = 0 THEN b ELSE Applied(h[n - 1], f[n])]
    BY <1>10, Zenon
  <2> QED
    BY <2>1, <2>2, Zenon DEF Solves
<1> QED
    BY <1>3, <1>11

\* What ApplyWalEntry computes: the index of the snapshot, then one frame at a time.
LEMMA ReplayFacts ==
    ASSUME NEW b \in Maps, NEW f \in Seq(Frame)
    PROVE  /\ ApplyWalEntry(b, f)[0] = b
           /\ \A n \in 1 .. Len(f) : ApplyWalEntry(b, f)[n] =
                  Applied(ApplyWalEntry(b, f)[n - 1], f[n])
           /\ \A n \in 0 .. Len(f) : ApplyWalEntry(b, f)[n] \in Maps
<1> DEFINE g == ApplyWalEntry(b, f)
<1>1. PICK h : Solves(h, b, f, Len(f))
    BY ReplayExists
<1>2. Solves(g, b, f, Len(f))
    BY <1>1 DEF ApplyWalEntry, Solves, Applied
<1> HIDE DEF g
<1>3. Len(f) \in Nat
    BY LenProperties
<1>4. \A n \in 0 .. Len(f) : g[n] = IF n = 0 THEN b ELSE Applied(g[n - 1], f[n])
    BY <1>2, Zenon DEF Solves
<1>5. g[0] = b
    BY <1>3, <1>4
<1>6. \A n \in 1 .. Len(f) : g[n] = Applied(g[n - 1], f[n])
    BY <1>3, <1>4
<1>7. \A n \in 0 .. Len(f) : g[n] \in Maps
  <2> DEFINE S == {n \in 0 .. Len(f) : g[n] \notin Maps}
  <2>1. SUFFICES ASSUME S # {} PROVE FALSE
    OBVIOUS
  <2>2. S \subseteq Nat
    OBVIOUS
  <2>3. PICK m \in S : \A n \in S : m <= n
    BY <2>1, <2>2, Least
  <2>4. m # 0 /\ m \in 1 .. Len(f)
    BY <2>3, <1>5, <1>3
  <2>5. m - 1 \in 0 .. Len(f) /\ m - 1 \notin S
    BY <2>3, <2>4, <1>3
  <2>6. g[m - 1] \in Maps /\ f[m] \in Frame
    BY <2>4, <2>5, ElementOfSeq
  <2>7. g[m] \in Maps
    BY <2>4, <2>6, <1>6, FrameStep
  <2> QED
    BY <2>3, <2>7
<1> QED
    BY <1>5, <1>6, <1>7 DEF g

\* Replay in two parts: when f2 continues where the first a frames of f1 end, replaying
\* it over what these make of b1 goes through the same indexes.
LEMMA ReplayShift ==
    ASSUME NEW b1 \in Maps, NEW f1 \in Seq(Frame), NEW f2 \in Seq(Frame),
           NEW a \in 0 .. Len(f1), NEW c \in Nat, a + c <= Len(f1), c <= Len(f2),
           \A i \in 1 .. c : f2[i] = f1[a + i]
    PROVE  \A n \in 0 .. c : ApplyWalEntry(ApplyWalEntry(b1, f1)[a], f2)[n] = ApplyWalEntry(b1, f1)[a + n]
<1> DEFINE g1 == ApplyWalEntry(b1, f1)
           b2 == g1[a]
           g2 == ApplyWalEntry(b2, f2)
           S == {n \in 0 .. c : g2[n] # g1[a + n]}
<1>0. Len(f1) \in Nat /\ Len(f2) \in Nat
    BY LenProperties
<1>1. /\ g2[0] = b2
      /\ \A n \in 1 .. Len(f2) : g2[n] = Applied(g2[n - 1], f2[n])
      /\ \A n \in 1 .. Len(f1) : g1[n] = Applied(g1[n - 1], f1[n])
    BY ReplayFacts
<1> HIDE DEF g1, g2
<1>2. SUFFICES ASSUME S # {} PROVE FALSE
    BY DEF g1, g2
<1>3. S \subseteq Nat
    OBVIOUS
<1>4. PICK m \in S : \A n \in S : m <= n
    BY <1>2, <1>3, Least
<1>5. m # 0 /\ m \in 1 .. c /\ m \in 1 .. Len(f2) /\ a + m \in 1 .. Len(f1)
    BY <1>4, <1>1, <1>0
<1>6. m - 1 \in 0 .. c /\ m - 1 \notin S
    BY <1>4, <1>5
<1>7. g2[m - 1] = g1[a + m - 1]
    BY <1>6, <1>5, <1>0
<1>8. f2[m] = f1[a + m]
    BY <1>5
<1>9. g2[m] = Applied(g2[m - 1], f2[m])
    BY <1>5, <1>1
<1>10. g1[a + m] = Applied(g1[a + m - 1], f1[a + m])
    BY <1>5, <1>1
<1> QED
    BY <1>4, <1>7, <1>8, <1>9, <1>10

\* The whole of a log that continues another one.
LEMMA ReplayRest ==
    ASSUME NEW b1 \in Maps, NEW f1 \in Seq(Frame), NEW f2 \in Seq(Frame),
           NEW a \in 0 .. Len(f1), a + Len(f2) <= Len(f1),
           \A i \in 1 .. Len(f2) : f2[i] = f1[a + i]
    PROVE  \A n \in 0 .. Len(f2) :
               ApplyWalEntry(ApplyWalEntry(b1, f1)[a], f2)[n] = ApplyWalEntry(b1, f1)[a + n]
<1>1. Len(f2) \in Nat /\ Len(f2) <= Len(f2)
    BY LenProperties
<1> QED
    BY <1>1, ReplayShift

\* Frames that follow do not change what the first ones make.
LEMMA ReplayPrefix ==
    ASSUME NEW b \in Maps, NEW f1 \in Seq(Frame), NEW f2 \in Seq(Frame), Len(f1) <= Len(f2),
           \A i \in 1 .. Len(f1) : f2[i] = f1[i]
    PROVE  \A n \in 0 .. Len(f1) : ApplyWalEntry(b, f2)[n] = ApplyWalEntry(b, f1)[n]
<1>1. Len(f1) \in Nat /\ b = ApplyWalEntry(b, f1)[0]
    BY LenProperties, ReplayFacts
<1>2. 0 \in 0 .. Len(f1) /\ 0 + Len(f1) <= Len(f1)
    BY <1>1
<1>3. \A i \in 1 .. Len(f1) : f2[i] = f1[0 + i]
    BY <1>1
<1>4. \A n \in 0 .. Len(f1) : ApplyWalEntry(ApplyWalEntry(b, f1)[0], f2)[n] = ApplyWalEntry(b, f1)[0 + n]
    BY <1>1, <1>2, <1>3, ReplayShift
<1> QED
    BY <1>1, <1>4

---------------------------------------------------------------------------
(* The inductive invariant.                                                *)

\* The indexes a recovery goes through, and who has a block.
After == ApplyWalEntry(base, frames)
Held == IF op.kind = "put" THEN {op.meta.block} ELSE {}
Listed(f) == {f[i] : i \in 1 .. Len(f)}
Once(f) == \A i, j \in 1 .. Len(f) : f[i] = f[j] => i = j
Idle == Listed(free)
Steps == {"idle", "write", "log", "log_write", "log_sync", "apply", "flush", "flush_sync",
          "snapshot", "snapshot_sync", "closed"}

\* The log on the devices.
LogTyped ==
    /\ base \in Maps
    /\ frames \in Seq(Frame)
    /\ synced \in Nat /\ written \in Nat /\ passed \in Nat
    /\ synced <= written /\ written <= Len(frames) /\ passed <= written
    /\ spare \in Seq([map : Maps, at : Nat])
    /\ \A i \in 1 .. Len(spare) : spare[i].at <= Len(frames)

\* The value device.
DiskTyped == disk \in [Blocks -> Contents] /\ loose \in [Blocks -> SUBSET Contents]

\* The memory of the reactor.
MemoryTyped ==
    /\ level \in Levels
    /\ index \in Maps
    /\ free \in Seq(Blocks)
    /\ pc \in Steps
    /\ mode \in {"up", "down", "refused"}
    /\ ops \in 0 .. MaxOps
    /\ haunted \in BOOLEAN

\* The operation fits its step, and the snapshot being written is the index.
OpRight ==
    /\ mode # "up" => pc = "idle" /\ spare = <<>>
    /\ pc = "idle" => op = NoOp
    /\ pc = "write" => op.kind = "put"
    /\ pc \in {"log", "log_write", "log_sync", "apply"} => op.kind \in {"put", "delete"}
    /\ pc \in {"flush", "flush_sync"} => op.kind \in {"put", "delete", "snapshot", "level", "close"}
    /\ pc \in {"snapshot", "snapshot_sync"} => op.kind \in {"put", "delete", "snapshot"}
    /\ op.kind \in {"put", "delete"} => op.key \in Keys
    /\ op.kind = "put" => op.meta \in Metas \ {None}
    /\ op.kind = "delete" => op.meta = None /\ index[op.key] # None
    /\ op.kind = "level" => op.level \in Levels
    /\ pc = "snapshot_sync" => spare = <<[map |-> index, at |-> Len(frames)]>>

Typed == LogTyped /\ DiskTyped /\ MemoryTyped /\ OpRight

\* A block is free once, or belongs to one key, or to the Put being executed.
Partitioned ==
    mode = "up" =>
        /\ Once(free)
        /\ \A k \in Keys : index[k].block \notin Idle /\ index[k].block \notin Held
        /\ \A b \in Held : b \notin Idle
        /\ \A b \in Blocks : b \in Idle \/ b \in Held \/ \E k \in Keys : index[k].block = b
        /\ ~ DuplicateBlock(index)

\* Snapshot and log rebuild the index, with the frame of the present operation
\* once it is appended.
Agrees ==
    mode = "up" /\ ~ haunted =>
        After[Len(frames)] =
            IF pc \in {"log_write", "log_sync", "apply"} THEN [index EXCEPT ![op.key] = op.meta]
            ELSE index

\* Whatever a crash may leave of the log can be replayed, on top of an unfinished snapshot too.
Sound ==
    ~ haunted =>
        /\ \A n \in synced .. Len(frames) : ~ DuplicateBlock(After[n])
        /\ \A n \in 1 .. Len(frames) : frames[n].meta = None => After[n - 1][frames[n].key] # None
        /\ \A i \in 1 .. Len(spare) : spare[i].map = After[spare[i].at]

Right == Typed /\ Partitioned /\ Agrees /\ Sound /\ RefusesOnlyHaunted

---------------------------------------------------------------------------
(* Lemmas on the log.                                                      *)

\* The indexes of a replay, as indexes.
LEMMA AfterFacts ==
    ASSUME LogTyped
    PROVE  /\ After[0] = base
           /\ \A n \in 1 .. Len(frames) : After[n] = Applied(After[n - 1], frames[n])
           /\ \A n \in 0 .. Len(frames) : After[n] \in Maps
  BY ReplayFacts DEF After, LogTyped

\* A frame appended adds one index to a replay.
LEMMA AfterAppend ==
    ASSUME LogTyped, NEW e \in Frame, frames' = Append(frames, e), base' = base
    PROVE  /\ \A n \in 0 .. Len(frames) : After'[n] = After[n]
           /\ After'[Len(frames) + 1] = Applied(After[Len(frames)], e)
           /\ frames' \in Seq(Frame) /\ Len(frames') = Len(frames) + 1
           /\ \A n \in 1 .. Len(frames) : frames'[n] = frames[n]
           /\ frames'[Len(frames) + 1] = e
<1>1. frames \in Seq(Frame) /\ base \in Maps
    BY DEF LogTyped
<1>2. /\ frames' \in Seq(Frame) /\ Len(frames') = Len(frames) + 1
      /\ \A n \in 1 .. Len(frames) : frames'[n] = frames[n]
      /\ frames'[Len(frames) + 1] = e
    BY <1>1, AppendProperties
<1>3. Len(frames) \in Nat
    BY <1>1, LenProperties
<1>5. \A n \in 0 .. Len(frames) : ApplyWalEntry(base, frames')[n] = ApplyWalEntry(base, frames)[n]
  <2>1. Len(frames) <= Len(frames')
    BY <1>2, <1>3
  <2> QED
    BY <1>1, <1>2, <2>1, ReplayPrefix, Zenon
<1>6. \A n \in 0 .. Len(frames) : After'[n] = After[n]
    BY <1>3, <1>5 DEF After
<1>7. \A n \in 1 .. Len(frames') : After'[n] = Applied(After'[n - 1], frames'[n])
  <2>1. \A n \in 1 .. Len(frames') : ApplyWalEntry(base, frames')[n] = Applied(ApplyWalEntry(base, frames')[n - 1], frames'[n])
    BY <1>1, <1>2, ReplayFacts
  <2> QED
    BY <2>1 DEF After
<1>8. After'[Len(frames) + 1] = Applied(After[Len(frames)], e)
    BY <1>2, <1>3, <1>6, <1>7
<1> QED
    BY <1>2, <1>6, <1>8

\* What a crash leaves: the frames from a to the n-th, or none of them when the
\* snapshot covers more, on top of a snapshot that covers a frames.
LEMMA LandFacts ==
    ASSUME LogTyped, NEW n \in Nat, NEW keep \in Nat, keep <= n, n <= Len(frames), Land(n, keep)
    PROVE  \E a \in 0 .. Len(frames) :
              /\ base' \in Maps
              /\ frames' \in Seq(Frame)
              /\ Len(frames') = (IF a > n THEN a ELSE n) - a
              /\ \A i \in 1 .. Len(frames') : frames'[i] = frames[a + i]
              /\ synced' = (IF a > keep THEN a ELSE keep) - a
              /\ written' = Len(frames') /\ passed' = Len(frames') /\ spare' = <<>>
              /\ Sound /\ ~ haunted => base' = After[a]
              /\ (base' = base /\ a = 0) \/ \E i \in 1 .. Len(spare) : base' = spare[i].map /\ a = spare[i].at
<1>1. PICK s \in {[map |-> base, at |-> 0]} \cup {spare[i] : i \in 1 .. Len(spare)} :
        /\ base' = s.map
        /\ spare' = <<>>
        /\ frames' = SubSeq(frames, s.at + 1, n)
        /\ written' = Len(frames') /\ passed' = Len(frames')
        /\ synced' = IF keep > s.at THEN keep - s.at ELSE 0
    BY DEF Land
<1>3. (s.map = base /\ s.at = 0) \/ \E i \in 1 .. Len(spare) : s = spare[i]
    OBVIOUS
<1>4. frames \in Seq(Frame) /\ Len(frames) \in Nat
    BY LenProperties DEF LogTyped
<1>2. s.map \in Maps /\ s.at \in 0 .. Len(frames)
  <2>1. \A i \in 1 .. Len(spare) : spare[i] \in [map : Maps, at : Nat]
    BY ElementOfSeq DEF LogTyped
  <2> QED
    BY <1>3, <1>4, <2>1 DEF LogTyped
<1> DEFINE a == s.at
           g == SubSeq(frames, a + 1, n)
<1>5. a \in Nat /\ a <= Len(frames)
    BY <1>2, <1>4
<1> HIDE DEF a
<1>6. /\ g \in Seq(Frame)
      /\ Len(g) = (IF a > n THEN a ELSE n) - a
      /\ \A i \in 1 .. Len(g) : g[i] = frames[a + i]
  <2>1. CASE a < n
    <3>1. a + 1 \in 1 .. n + 1 /\ n \in a .. Len(frames)
      BY <2>1, <1>4, <1>5
    <3>2. Len(g) = n - (a + 1) + 1 /\ \A i \in 1 .. n - (a + 1) + 1 : g[i] = frames[a + 1 + i - 1]
      BY <2>1, <1>4, <1>5, SubSeqProperties
    <3>3. g \in Seq(Frame)
      BY <2>1, <1>4, <1>5, SubSeqProperties
    <3> QED
      <4>1. n - (a + 1) + 1 = n - a /\ \A i \in 1 .. n - a : a + 1 + i - 1 = a + i
        BY <1>5
      <4>2. Len(g) = n - a /\ \A i \in 1 .. n - a : g[i] = frames[a + i]
        BY <3>2, <4>1
      <4> HIDE DEF g
      <4> QED
        BY <2>1, <3>3, <4>2, <1>5
  <2>2. CASE a >= n
    <3>1. g = <<>>
      BY <2>2, <1>4, <1>5, SubSeqProperties
    <3> QED
      BY <2>2, <3>1, <1>5
  <2> QED
    BY <2>1, <2>2, <1>5
<1>7. synced' = (IF a > keep THEN a ELSE keep) - a
    BY <1>1, <1>5 DEF a
<1>8. frames' = g
    BY <1>1 DEF a
<1>9. Sound /\ ~ haunted => base' = After[a]
    BY <1>1, <1>3, AfterFacts DEF Sound, a
<1>10. (base' = base /\ a = 0) \/ \E i \in 1 .. Len(spare) : base' = spare[i].map /\ a = spare[i].at
    BY <1>1, <1>3 DEF a
<1> HIDE DEF g
<1>11. a \in 0 .. Len(frames)
    BY <1>4, <1>5
<1>12. /\ base' \in Maps
       /\ written' = Len(frames') /\ passed' = Len(frames') /\ spare' = <<>>
    BY <1>1, <1>2
<1>13. /\ frames' \in Seq(Frame)
       /\ Len(frames') = (IF a > n THEN a ELSE n) - a
       /\ \A i \in 1 .. Len(frames') : frames'[i] = frames[a + i]
    BY <1>6, <1>8
<1> QED
    BY <1>7, <1>9, <1>10, <1>11, <1>12, <1>13

---------------------------------------------------------------------------
(* Blocks.                                                                 *)

\* Blocks is finite.
LEMMA BlocksFinite ==
    ASSUME ShardAssumption
    PROVE  IsFiniteSet(Blocks) /\ Cardinality(Blocks) = BlockCount
  BY FS_Interval DEF Blocks, ShardAssumption

\* RebuildFromActive lists each block that no entry claims once.
LEMMA RebuildFacts ==
    ASSUME ShardAssumption, NEW map
    PROVE  LET r == RebuildFromActive(map)
           IN  /\ r \in Seq(Blocks \ Active(map))
               /\ Once(r)
               /\ Listed(r) = Blocks \ Active(map)
<1> DEFINE rest == Blocks \ Active(map)
           rank == [b \in rest |-> Cardinality({c \in rest : c <= b})]
           n == Cardinality(rest)
<1>1. IsFiniteSet(rest) /\ n \in Nat
    BY BlocksFinite, FS_Difference, FS_CardinalityType
<1>2. \A b \in rest : rank[b] \in 1 .. n
  <2> SUFFICES ASSUME NEW b \in rest PROVE rank[b] \in 1 .. n
    OBVIOUS
  <2> DEFINE low == {c \in rest : c <= b}
  <2>1. low \subseteq rest /\ b \in low
    BY DEF Blocks
  <2>2. IsFiniteSet(low) /\ Cardinality(low) <= n
    BY <1>1, <2>1, FS_Subset
  <2>3. Cardinality(low) \in Nat /\ Cardinality(low) # 0
    BY <2>1, <2>2, FS_CardinalityType, FS_EmptySet
  <2> QED
    BY <1>1, <2>2, <2>3
<1>3. \A b, c \in rest : b < c => rank[b] < rank[c]
  <2> SUFFICES ASSUME NEW b \in rest, NEW c \in rest, b < c PROVE rank[b] < rank[c]
    OBVIOUS
  <2> DEFINE low == {d \in rest : d <= b}
             high == {d \in rest : d <= c}
  <2>1. low \subseteq high /\ c \in high /\ c \notin low
    BY DEF Blocks
  <2>2. IsFiniteSet(high)
    <3>1. high \subseteq rest
      OBVIOUS
    <3> QED
      BY <1>1, <3>1, FS_Subset
  <2>3. Cardinality(low) <= Cardinality(high) /\ (Cardinality(low) = Cardinality(high) => low = high)
    BY <2>1, <2>2, FS_Subset
  <2>4. Cardinality(low) \in Nat /\ Cardinality(high) \in Nat
    BY <2>1, <2>2, FS_Subset, FS_CardinalityType
  <2> QED
    BY <2>1, <2>3, <2>4
<1>4. rank \in [rest -> 1 .. n]
    BY <1>2
<1>5. \A b, c \in rest : rank[b] = rank[c] => b = c
  <2>1. \A b \in rest : b \in Int
    BY DEF Blocks
  <2>2. \A b \in rest : rank[b] \in Int
    BY <1>2
  <2> HIDE DEF rank, rest
  <2> QED
    BY <1>3, <2>1, <2>2
<1>6. \A i \in 1 .. n : \E b \in rest : rank[b] = i
  <2>1. IsFiniteSet(1 .. n) /\ Cardinality(1 .. n) = n
    BY <1>1, FS_Interval
  <2>2. rank \in Injection(rest, 1 .. n)
    BY <1>4, <1>5 DEF Injection, IsInjective
  <2>3. rank \in Surjection(rest, 1 .. n)
    BY <1>1, <2>1, <2>2, FS_Injection
  <2> QED
    BY <2>3 DEF Surjection
<1> DEFINE r == [i \in 1 .. n |-> CHOOSE b \in rest : Cardinality({c \in rest : c <= b}) = i]
<1>7. \A i \in 1 .. n : r[i] \in rest /\ rank[r[i]] = i
    BY <1>6
<1>8. r = RebuildFromActive(map)
    BY DEF RebuildFromActive
<1> HIDE DEF rank, rest, n
<1>9. r \in Seq(rest) /\ Len(r) = n
  <2>1. r \in [1 .. n -> rest]
    BY <1>7, Zenon
  <2> HIDE DEF r
  <2> QED
    BY <1>1, <2>1
<1>10. \A i, j \in 1 .. n : r[i] = r[j] => i = j
    BY <1>7
<1>11. \A b \in rest : \E i \in 1 .. n : r[i] = b
    BY <1>2, <1>5, <1>7
<1> QED
  <2> HIDE DEF r
  <2>1. \A i \in 1 .. n : r[i] \in rest
    BY <1>7
  <2>2. Listed(r) = rest
    BY <1>9, <1>11, <2>1 DEF Listed
  <2>3. Once(r)
    BY <1>9, <1>10 DEF Once
  <2>4. r \in Seq(rest)
    BY <1>9
  <2> QED
    BY <1>8, <2>2, <2>3, <2>4 DEF rest

---------------------------------------------------------------------------
(* Types.                                                                  *)

\* A step keeps the types and fits operation and step together.
LEMMA TypedStep ==
    ASSUME ShardAssumption, Typed, Next
    PROVE  Typed'
<1> USE DEF Typed, log, values, memory, ghost, count
<1>0. None \in Metas /\ NoOp.kind = "none" /\ None.block = 0 /\ None.val = 0
    BY DEF None, NoOp, Metas
<1>a. Len(frames) \in Nat /\ Len(spare) \in Nat /\ Len(free) \in Nat
    BY LenProperties DEF LogTyped, MemoryTyped
<1>f. \A i \in 1 .. Len(spare) : spare[i].at \in Nat
  <2>1. \A i \in 1 .. Len(spare) : spare[i] \in [map : Maps, at : Nat]
    BY ElementOfSeq DEF LogTyped
  <2> QED
    BY <2>1
<1>1. ASSUME NEW k \in Keys, ExecutePut(k) PROVE Typed'
  <2>1. LogTyped'
    BY <1>1 DEF ExecutePut, LogTyped
  <2>2. Head(free) \in Blocks /\ Tail(free) \in Seq(Blocks)
    BY <1>1, HeadTailProperties DEF ExecutePut, MemoryTyped
  <2>3. ops + 1 \in 1 .. MaxOps /\ ops' = ops + 1
    BY <1>1 DEF ExecutePut, MemoryTyped, ShardAssumption
  <2>4. DiskTyped'
    <3>1. {disk[Head(free)], 0, ops + 1} \subseteq Contents
      BY <2>2, <2>3 DEF Contents, DiskTyped
    <3> QED
      BY <1>1, <2>2, <3>1 DEF ExecutePut, DiskTyped
  <2>5. MemoryTyped'
    BY <1>1, <2>2, <2>3 DEF ExecutePut, MemoryTyped, Call, At, Steps
  <2>6. OpRight'
    <3>1. [block |-> Head(free), val |-> ops + 1, fua |-> IsValueFuaLevel(level)] \in Metas \ {None}
      BY <2>2, <2>3 DEF Metas, None, IsValueFuaLevel
    <3> QED
      BY <1>1, <3>1 DEF ExecutePut, Call, At, OpRight
  <2> QED
    BY <2>1, <2>4, <2>5, <2>6
<1>2. ASSUME NEW k \in Keys, ExecuteDelete(k) PROVE Typed'
  <2>1. LogTyped' /\ DiskTyped'
    BY <1>2 DEF ExecuteDelete, LogTyped, DiskTyped
  <2>2. MemoryTyped'
    BY <1>2 DEF ExecuteDelete, MemoryTyped, Call, At, Steps
  <2>3. OpRight'
    BY <1>2 DEF ExecuteDelete, Call, At, OpRight, NoOp
  <2> QED
    BY <2>1, <2>2, <2>3
<1>3. CASE ValueWritten
  <2>1. LogTyped' /\ MemoryTyped' /\ OpRight'
    BY <1>3 DEF ValueWritten, LogTyped, MemoryTyped, OpRight, At, Goto, Steps
  <2>2. op.meta.block \in Blocks /\ op.meta.val \in Contents
    BY <1>3 DEF ValueWritten, At, OpRight, Metas, Contents
  <2>3. DiskTyped'
    BY <1>3, <2>2 DEF ValueWritten, DiskTyped
  <2> QED
    BY <2>1, <2>3
<1>4. CASE ValueFails
  <2>1. LogTyped'
    BY <1>4 DEF ValueFails, LogTyped
  <2>2. op.kind = "put" /\ op.meta.block \in Blocks
    BY <1>4 DEF ValueFails, At, OpRight, Metas
  <2>3. DiskTyped'
    BY <1>4, <2>2 DEF ValueFails, DiskTyped
  <2>4. MemoryTyped'
    BY <1>4, <2>2 DEF ValueFails, MemoryTyped, GiveUp, Return, Recycle, Steps
  <2>5. OpRight'
    BY <1>0, <1>4 DEF ValueFails, GiveUp, Return, OpRight
  <2> QED
    BY <2>1, <2>3, <2>4, <2>5
<1>5. CASE LogFull
    BY <1>5 DEF LogFull, LogTyped, DiskTyped, MemoryTyped, OpRight, At, Goto, Steps
<1>6. CASE LogAppend
  <2>1. op.key \in Keys /\ op.meta \in Metas
    BY <1>0, <1>6 DEF LogAppend, At, OpRight
  <2>2. [key |-> op.key, meta |-> op.meta] \in Frame
    BY <2>1 DEF Frame
  <2>3. frames' \in Seq(Frame) /\ Len(frames') = Len(frames) + 1
    BY <1>6, <2>2, AppendProperties DEF LogAppend, LogTyped
  <2>4. LogTyped'
    <3>1. UNCHANGED <<base, spare, written, synced, passed>>
      BY <1>6 DEF LogAppend
    <3> QED
      BY <1>a, <1>f, <2>3, <3>1 DEF LogTyped
  <2>5. DiskTyped' /\ MemoryTyped' /\ OpRight'
    BY <1>6 DEF LogAppend, DiskTyped, MemoryTyped, OpRight, At, Goto, Steps
  <2> QED
    BY <2>4, <2>5
<1>b. op.kind = "put" => op.meta.block \in Blocks
    BY DEF OpRight, Metas
<1>7. CASE LogRetries
  <2>1. LogTyped' /\ DiskTyped'
    BY <1>7, <1>a DEF LogRetries, LogTyped, DiskTyped, WriteFails
  <2>2. MemoryTyped'
    BY <1>7, <1>b DEF LogRetries, MemoryTyped, GiveUp, Return, Recycle, Steps
  <2>3. OpRight'
    BY <1>0, <1>7 DEF LogRetries, GiveUp, Return, OpRight
  <2> QED
    BY <2>1, <2>2, <2>3
<1>8. CASE LogWrite
  <2>1. LogTyped' /\ DiskTyped'
    BY <1>8, <1>a DEF LogWrite, LogTyped, DiskTyped, WriteFails
  <2>2. MemoryTyped'
    <3>1. free' \in Seq(Blocks)
      BY <1>8, <1>b DEF LogWrite, MemoryTyped, GiveUp, Recycle
    <3>2. haunted' \in BOOLEAN
      BY <1>8 DEF LogWrite, MemoryTyped
    <3>3. pc' \in Steps /\ UNCHANGED <<level, index, mode, ops>>
      BY <1>8 DEF LogWrite, GiveUp, Return, Goto, Steps
    <3> QED
      BY <3>1, <3>2, <3>3 DEF MemoryTyped
  <2>3. OpRight'
    BY <1>0, <1>8 DEF LogWrite, GiveUp, Return, Goto, At, OpRight
  <2> QED
    BY <2>1, <2>2, <2>3
<1>9. CASE LogSync
  <2>1. LogTyped' /\ DiskTyped'
    BY <1>9, <1>a DEF LogSync, LogTyped, DiskTyped
  <2>2. MemoryTyped'
    <3>1. free' \in Seq(Blocks)
      BY <1>9, <1>b DEF LogSync, MemoryTyped, GiveUp, Recycle
    <3>2. haunted' \in BOOLEAN
      BY <1>9 DEF LogSync, MemoryTyped
    <3>3. pc' \in Steps /\ UNCHANGED <<level, index, mode, ops>>
      BY <1>9 DEF LogSync, GiveUp, Return, Goto, Steps
    <3> QED
      BY <3>1, <3>2, <3>3 DEF MemoryTyped
  <2>3. OpRight'
    BY <1>0, <1>9 DEF LogSync, GiveUp, Return, Goto, At, OpRight
  <2> QED
    BY <2>1, <2>2, <2>3
<1>10. CASE Apply
  <2>1. LogTyped' /\ DiskTyped'
    BY <1>10 DEF Apply, LogTyped, DiskTyped
  <2>2. op.key \in Keys /\ op.meta \in Metas
    BY <1>0, <1>10 DEF Apply, At, OpRight
  <2>3. index' \in Maps
    BY <1>10, <2>2 DEF Apply, MemoryTyped, Maps
  <2>4. index[op.key] # None => index[op.key].block \in Blocks
    BY <2>2 DEF MemoryTyped, Maps, Metas
  <2>5. free' \in Seq(Blocks)
    <3>1. free' = free \/ (index[op.key] # None /\ free' = Append(free, index[op.key].block))
      BY <1>10 DEF Apply, Recycle
    <3>2. free \in Seq(Blocks)
      BY DEF MemoryTyped
    <3>3. \A b \in Blocks : Append(free, b) \in Seq(Blocks)
      BY <3>2, AppendProperties
    <3> QED
      BY <2>4, <3>1, <3>2, <3>3
  <2>6. pc' \in Steps /\ UNCHANGED <<level, mode, ops, haunted>>
    BY <1>10 DEF Apply, Return, Steps
  <2>7. MemoryTyped'
    BY <2>3, <2>5, <2>6 DEF MemoryTyped
  <2>8. OpRight'
    BY <1>0, <1>10 DEF Apply, At, Return, OpRight, NoOp
  <2> QED
    BY <2>1, <2>7, <2>8
<1>11. CASE ExecuteSnapshot
    BY <1>11 DEF ExecuteSnapshot, Call, At, NoOp, LogTyped, DiskTyped, MemoryTyped, OpRight, Steps
<1>12. ASSUME NEW l \in Levels, ExecuteSetWalLevel(l) PROVE Typed'
  <2>1. LogTyped' /\ DiskTyped'
    BY <1>12 DEF ExecuteSetWalLevel, LogTyped, DiskTyped
  <2>2. MemoryTyped'
    BY <1>12 DEF ExecuteSetWalLevel, Call, At, MemoryTyped, Steps
  <2>3. OpRight'
    BY <1>12 DEF ExecuteSetWalLevel, Call, At, NoOp, OpRight
  <2> QED
    BY <2>1, <2>2, <2>3
<1>13. CASE CloseDc
    BY <1>13 DEF CloseDc, Call, At, NoOp, LogTyped, DiskTyped, MemoryTyped, OpRight, Steps
<1>14. CASE FlushNothing
  <2>1. LogTyped' /\ DiskTyped'
    BY <1>14 DEF FlushNothing, LogTyped, DiskTyped
  <2>2. MemoryTyped'
    BY <1>14 DEF FlushNothing, Flushed, Return, Goto, At, OpRight, MemoryTyped, Steps
  <2>3. OpRight'
    BY <1>0, <1>14 DEF FlushNothing, Flushed, Return, Goto, At, OpRight
  <2> QED
    BY <2>1, <2>2, <2>3
<1>15. CASE FlushWrite
  <2>1. LogTyped' /\ DiskTyped'
    BY <1>15, <1>a DEF FlushWrite, WriteFails, LogTyped, DiskTyped
  <2>2. MemoryTyped'
    BY <1>15, <1>b DEF FlushWrite, FlushFails, GiveUp, Recycle, Return, Goto, MemoryTyped, Steps
  <2>3. OpRight'
    BY <1>0, <1>15 DEF FlushWrite, FlushFails, GiveUp, Return, Goto, At, OpRight
  <2> QED
    BY <2>1, <2>2, <2>3
<1>16. CASE FlushSync
  <2>1. LogTyped' /\ DiskTyped'
    <3>1. /\ UNCHANGED <<base, frames, spare, written, disk, loose>>
          /\ (synced' = written /\ passed' = written) \/ (synced' = synced /\ passed' = passed)
      BY <1>16 DEF FlushSync
    <3> QED
      BY <1>a, <3>1 DEF LogTyped, DiskTyped
  <2>2. MemoryTyped'
    BY <1>16, <1>b DEF FlushSync, Flushed, FlushFails, GiveUp, Recycle, Return, Goto, OpRight, MemoryTyped, Steps
  <2>3. OpRight'
    BY <1>0, <1>16 DEF FlushSync, Flushed, FlushFails, GiveUp, Return, Goto, At, OpRight
  <2> QED
    BY <2>1, <2>2, <2>3
<1>17. CASE SnapshotBegins
  <2>1. spare' \in Seq([map : Maps, at : Nat]) /\ Len(spare') = 1 /\ spare'[1].at = Len(frames)
    BY <1>17, <1>a DEF SnapshotBegins, MemoryTyped
  <2>2. LogTyped'
    BY <1>17, <1>a, <2>1 DEF SnapshotBegins, LogTyped
  <2>3. DiskTyped' /\ MemoryTyped' /\ OpRight'
    BY <1>17 DEF SnapshotBegins, Goto, At, DiskTyped, MemoryTyped, OpRight, Steps
  <2> QED
    BY <2>2, <2>3
<1>18. CASE SnapshotEnds
  <2>1. spare[1].map = index /\ index \in Maps
    BY <1>18 DEF SnapshotEnds, At, OpRight, MemoryTyped
  <2>2. LogTyped' /\ DiskTyped'
    <3>1. CASE SnapshotTaken
      BY <1>18, <2>1, <3>1 DEF SnapshotEnds, SnapshotTaken, LogTyped, DiskTyped
    <3>2. CASE UNCHANGED log
      BY <1>18, <3>2 DEF SnapshotEnds, LogTyped, DiskTyped
    <3> QED
      BY <1>18, <3>1, <3>2 DEF SnapshotEnds
  <2>3. MemoryTyped'
    <3>1. free' \in Seq(Blocks)
      BY <1>18, <1>b DEF SnapshotEnds, SnapshotTaken, MemoryTyped, GiveUp, Recycle
    <3>2. haunted' \in BOOLEAN
      BY <1>18 DEF SnapshotEnds, SnapshotTaken, MemoryTyped
    <3>3. pc' \in Steps /\ UNCHANGED <<level, index, mode, ops>>
      BY <1>18 DEF SnapshotEnds, SnapshotTaken, GiveUp, Return, Goto, Steps
    <3> QED
      BY <3>1, <3>2, <3>3 DEF MemoryTyped
  <2>4. OpRight'
    BY <1>0, <1>18 DEF SnapshotEnds, SnapshotTaken, GiveUp, Return, Goto, At, OpRight
  <2> QED
    BY <2>2, <2>3, <2>4
<1>c. ASSUME NEW n \in Nat, NEW keep \in Nat, keep <= n, n <= Len(frames), Land(n, keep)
      PROVE  LogTyped'
  <2>1. PICK a \in 0 .. Len(frames) :
              /\ base' \in Maps
              /\ frames' \in Seq(Frame)
              /\ Len(frames') = (IF a > n THEN a ELSE n) - a
              /\ synced' = (IF a > keep THEN a ELSE keep) - a
              /\ written' = Len(frames') /\ passed' = Len(frames') /\ spare' = <<>>
    BY <1>c, LandFacts
  <2> QED
    <3>1. \A i \in 1 .. Len(spare') : spare'[i].at <= Len(frames')
      BY <2>1
    <3>2. spare' \in Seq([map : Maps, at : Nat])
      BY <2>1
    <3>3. a \in Nat /\ Len(frames) \in Nat
      BY <1>a, <2>1
    <3> DEFINE s1 == synced'
               l1 == Len(frames')
    <3>4. s1 = (IF a > keep THEN a ELSE keep) - a /\ l1 = (IF a > n THEN a ELSE n) - a
      BY <2>1
    <3> HIDE DEF s1, l1
    <3>5. s1 \in Nat /\ l1 \in Nat /\ s1 <= l1
      BY <1>c, <3>3, <3>4
    <3> QED
      BY <2>1, <3>1, <3>2, <3>5 DEF LogTyped, s1, l1
<1>d. ASSUME Down, UNCHANGED <<level, count>>, \E n, keep : Land(n, keep) PROVE MemoryTyped' /\ OpRight'
  <2>1. index' \in Maps /\ free' \in Seq(Blocks) /\ mode' = "down" /\ pc' = "idle" /\ op' = NoOp
    BY <1>0, <1>d DEF Down, Return, Maps
  <2>2. UNCHANGED <<level, ops, haunted>> /\ spare' = <<>>
    BY <1>d DEF Down, Land
  <2> QED
    BY <1>0, <2>1, <2>2 DEF MemoryTyped, OpRight, Steps
<1>e. synced \in Nat /\ written \in Nat /\ synced <= written /\ written <= Len(frames)
    BY DEF LogTyped
<1>19. CASE Closed
  <2>1. LogTyped'
    BY <1>19, <1>c, <1>e DEF Closed
  <2>2. DiskTyped'
    BY <1>19 DEF Closed, DiskTyped
  <2> QED
    BY <1>19, <1>d, <2>1, <2>2 DEF Closed
<1>20. CASE Killed
  <2>1. LogTyped'
    BY <1>20, <1>c, <1>e DEF Killed
  <2>2. pc = "write" => op.meta.block \in Blocks
    BY <1>b DEF OpRight
  <2>3. DiskTyped'
    BY <1>20, <2>2 DEF Killed, DiskTyped
  <2> QED
    BY <1>20, <1>d, <2>1, <2>3 DEF Killed
<1>21. CASE PowerFails
  <2>1. LogTyped'
    <3>1. PICK n \in synced .. written : Land(n, n)
      BY <1>21 DEF PowerFails
    <3> QED
      BY <1>c, <1>e, <3>1
  <2>2. DiskTyped'
    BY <1>21 DEF PowerFails, DiskTyped
  <2> QED
    BY <1>21, <1>d, <2>1, <2>2 DEF PowerFails
<1>22. CASE RecoverDevice
  <2>1. LogTyped' /\ DiskTyped'
    BY <1>22 DEF RecoverDevice, LogTyped, DiskTyped
  <2> DEFINE map == ApplyWalEntry(base, frames)[Len(frames)]
  <2>2. map \in Maps
    BY <1>a, AfterFacts DEF After
  <2>3. RebuildFromActive(map) \in Seq(Blocks)
    <3>1. RebuildFromActive(map) \in Seq(Blocks \ Active(map))
      BY RebuildFacts
    <3> QED
      BY <3>1
  <2> HIDE DEF map
  <2>4. \/ mode' = "refused" /\ UNCHANGED <<index, free, haunted>>
        \/ mode' = "up" /\ index' = map /\ free' = RebuildFromActive(map) /\ haunted' = (haunted /\ synced < Len(frames))
    BY <1>22 DEF RecoverDevice, Load, map
  <2>5. /\ pc = "idle" /\ op = NoOp /\ spare = <<>>
        /\ UNCHANGED <<pc, op, ops, spare>> /\ level' \in Levels
    BY <1>22 DEF RecoverDevice, OpRight
  <2>6. haunted' \in BOOLEAN
    BY <2>4 DEF MemoryTyped
  <2>7. MemoryTyped'
    BY <2>2, <2>3, <2>4, <2>5, <2>6 DEF MemoryTyped
  <2>8. OpRight'
    BY <1>0, <2>5 DEF OpRight
  <2> QED
    BY <2>1, <2>7, <2>8
<1> QED
    BY <1>1, <1>2, <1>3, <1>4, <1>5, <1>6, <1>7, <1>8, <1>9, <1>10, <1>11, <1>12, <1>13, <1>14,
       <1>15, <1>16, <1>17, <1>18, <1>19, <1>20, <1>21, <1>22 DEF Next

---------------------------------------------------------------------------
(* No block is lost, none is shared.                                       *)

\* A block given back goes to the end of the list.
LEMMA ListedAppend ==
    ASSUME NEW f \in Seq(Blocks), NEW b \in Blocks, Once(f), b \notin Listed(f)
    PROVE  Once(Append(f, b)) /\ Listed(Append(f, b)) = Listed(f) \cup {b}
<1> DEFINE g == Append(f, b)
<1>1. /\ Len(f) \in Nat /\ Len(g) = Len(f) + 1
      /\ \A i \in 1 .. Len(f) : g[i] = f[i]
      /\ g[Len(f) + 1] = b
    BY AppendProperties, LenProperties
<1> HIDE DEF g
<1>2. \A i \in 1 .. Len(g) : i \in 1 .. Len(f) \/ i = Len(f) + 1
    BY <1>1
<1>3. \A i \in 1 .. Len(f) : i \in 1 .. Len(g) /\ f[i] # b
    BY <1>1 DEF Listed
<1>4. Once(g)
    BY <1>1, <1>2, <1>3 DEF Once
<1>5. Len(f) + 1 \in 1 .. Len(g)
    BY <1>1
<1>6. Listed(g) = Listed(f) \cup {b}
    BY <1>1, <1>2, <1>3, <1>5 DEF Listed
<1> QED
    BY <1>4, <1>6 DEF g

\* A block acquired is the first of the list.
LEMMA ListedTail ==
    ASSUME NEW f \in Seq(Blocks), f # <<>>, Once(f)
    PROVE  /\ Once(Tail(f)) /\ Listed(Tail(f)) = Listed(f) \ {Head(f)}
           /\ Head(f) \in Listed(f) /\ Head(f) \in Blocks
<1> DEFINE g == Tail(f)
<1>1. /\ Len(f) \in Nat /\ Len(f) # 0 /\ Len(g) = Len(f) - 1
      /\ \A i \in 1 .. Len(g) : g[i] = f[i + 1]
      /\ Head(f) = f[1] /\ Head(f) \in Blocks
    BY HeadTailProperties, LenProperties
<1> HIDE DEF g
<1>2. \A i \in 1 .. Len(g) : i + 1 \in 1 .. Len(f) /\ i + 1 # 1
    BY <1>1
<1>3. \A i \in 1 .. Len(f) : i = 1 \/ (i - 1 \in 1 .. Len(g) /\ f[i] = g[i - 1])
    BY <1>1
<1>4. 1 \in 1 .. Len(f)
    BY <1>1
<1>5. Once(g)
  <2> SUFFICES ASSUME NEW i \in 1 .. Len(g), NEW j \in 1 .. Len(g), g[i] = g[j] PROVE i = j
    BY DEF Once
  <2>1. i + 1 = j + 1
    BY <1>1, <1>2 DEF Once
  <2> QED
    BY <2>1, <1>1
<1>6. \A x : x \in Listed(g) <=> x \in Listed(f) /\ x # f[1]
  <2>1. ASSUME NEW i \in 1 .. Len(g) PROVE g[i] \in Listed(f) /\ g[i] # f[1]
    BY <1>1, <1>2, <1>4 DEF Listed, Once
  <2>2. ASSUME NEW i \in 1 .. Len(f), f[i] # f[1] PROVE f[i] \in Listed(g)
    BY <1>3, <2>2 DEF Listed
  <2> QED
    BY <2>1, <2>2 DEF Listed
<1>7. f[1] \in Listed(f)
    BY <1>4 DEF Listed
<1> QED
    BY <1>1, <1>5, <1>6, <1>7 DEF g

\* No key of an index has block 0 but the absent ones, and two keys that share a
\* block are a duplicate.
LEMMA NoDuplicate ==
    ASSUME NEW map \in Maps
    PROVE  /\ \A k \in Keys : map[k].block = 0 <=> map[k] = None
           /\ ~ DuplicateBlock(map) <=>
                \A j, k \in Keys : map[j].block = map[k].block /\ map[j].block # 0 => j = k
<1>1. \A k \in Keys : map[k].block = 0 <=> map[k] = None
  <2> SUFFICES ASSUME NEW k \in Keys PROVE map[k].block = 0 <=> map[k] = None
    OBVIOUS
  <2>1. map[k] \in Metas
    BY DEF Maps
  <2>2. None.block = 0 /\ 0 \notin Blocks
    BY DEF None, Blocks
  <2>3. map[k] = None \/ map[k].block \in Blocks
    BY <2>1 DEF Metas
  <2> QED
    BY <2>2, <2>3
<1> QED
    BY <1>1 DEF DuplicateBlock

\* The memory is left alone, and no block changes hands with the operation.
Quiet ==
    /\ UNCHANGED <<index, free, mode>>
    /\ op' = op \/ (op.kind # "put" /\ op'.kind # "put")

\* A quiet step leaves every block where it is.
LEMMA QuietBlocks ==
    ASSUME Partitioned, Quiet
    PROVE  Partitioned'
  BY DEF Partitioned, Quiet, Held, Idle

\* An operation that gives up gives its block back.
LEMMA GiveUpBlocks ==
    ASSUME Typed, Partitioned, mode = "up", GiveUp, UNCHANGED <<index, mode>>
    PROVE  Partitioned'
<1>1. op' = NoOp /\ op'.kind # "put" /\ Held' = {}
    BY DEF GiveUp, Return, NoOp, Held
<1>2. CASE op.kind # "put"
    BY <1>1, <1>2, QuietBlocks DEF GiveUp, Quiet
<1>3. CASE op.kind = "put"
  <2> DEFINE b == op.meta.block
  <2>1. b \in Blocks /\ free \in Seq(Blocks) /\ Held = {b} /\ free' = Append(free, b)
    BY <1>3 DEF Typed, OpRight, MemoryTyped, Metas, Held, GiveUp, Recycle
  <2>2. Once(free) /\ b \notin Listed(free)
    BY <2>1 DEF Partitioned, Idle
  <2>3. Once(free') /\ Idle' = Idle \cup {b}
    BY <2>1, <2>2, ListedAppend DEF Idle
  <2> HIDE DEF b
  <2> QED
    BY <1>1, <2>1, <2>3 DEF Partitioned
<1> QED
    BY <1>2, <1>3

\* A step keeps the blocks apart and together.
LEMMA BlocksStep ==
    ASSUME ShardAssumption, Typed, Partitioned, Next
    PROVE  Partitioned'
<1> USE DEF log, values, memory, ghost, count
<1>0. NoOp.kind = "none" /\ None \in Metas /\ None.block = 0
    BY DEF NoOp, None, Metas
<1>1. ASSUME NEW k \in Keys, ExecutePut(k) PROVE Partitioned'
  <2>1. mode = "up" /\ Held = {} /\ free # <<>> /\ free \in Seq(Blocks)
    BY <1>0, <1>1 DEF ExecutePut, Call, At, Typed, OpRight, Held, MemoryTyped
  <2> DEFINE b == Head(free)
  <2>2. free' = Tail(free) /\ Held' = {b} /\ UNCHANGED <<index, mode>>
    BY <1>1 DEF ExecutePut, Call, Held
  <2>3. Once(free)
    BY <2>1 DEF Partitioned
  <2>4. Once(free') /\ Idle' = Idle \ {b} /\ b \in Idle
    BY <2>1, <2>2, <2>3, ListedTail DEF Idle
  <2> HIDE DEF b
  <2> QED
    BY <2>1, <2>2, <2>4 DEF Partitioned
<1>2. ASSUME NEW k \in Keys, ExecuteDelete(k) PROVE Partitioned'
  <2>1. Quiet
    BY <1>0, <1>2 DEF ExecuteDelete, Call, At, Typed, OpRight, Quiet, NoOp
  <2> QED
    BY <2>1, QuietBlocks
<1>3. CASE ValueWritten
    BY <1>3, QuietBlocks DEF ValueWritten, Goto, Quiet
<1>4. CASE ValueFails
    BY <1>4, GiveUpBlocks DEF ValueFails, At
<1>5. CASE LogFull
    BY <1>5, QuietBlocks DEF LogFull, Goto, Quiet
<1>6. CASE LogAppend
    BY <1>6, QuietBlocks DEF LogAppend, Goto, Quiet
<1>7. CASE LogRetries
  <2>1. mode = "up" /\ (Quiet \/ (GiveUp /\ UNCHANGED <<index, mode>>))
    BY <1>7 DEF LogRetries, At, Quiet
  <2> QED
    BY <2>1, QuietBlocks, GiveUpBlocks
<1>8. CASE LogWrite
  <2>1. mode = "up" /\ (Quiet \/ (GiveUp /\ UNCHANGED <<index, mode>>))
    BY <1>8 DEF LogWrite, At, Goto, Quiet
  <2> QED
    BY <2>1, QuietBlocks, GiveUpBlocks
<1>9. CASE LogSync
  <2>1. mode = "up" /\ (Quiet \/ (GiveUp /\ UNCHANGED <<index, mode>>))
    BY <1>9 DEF LogSync, At, Goto, Quiet
  <2> QED
    BY <2>1, QuietBlocks, GiveUpBlocks
<1>10. CASE Apply
  <2>1. mode = "up" /\ mode' = "up" /\ op.key \in Keys /\ op.meta \in Metas
    BY <1>0, <1>10 DEF Apply, At, Typed, OpRight
  <2>2. index \in Maps /\ free \in Seq(Blocks) /\ index' \in Maps
    BY <1>10, <2>1 DEF Apply, Typed, MemoryTyped, Maps
  <2>3. Held' = {}
    BY <1>0, <1>10 DEF Apply, Return, Held, NoOp
  <2> DEFINE x == op.key
             old == index[op.key].block
             new == op.meta.block
  <2>4. /\ \A k \in Keys : index'[k].block = IF k = x THEN new ELSE index[k].block
    BY <1>10, <2>1, <2>2 DEF Apply, Maps
  <2>5. \/ op.kind = "put" /\ Held = {new} /\ new \in Blocks /\ new # 0
        \/ op.kind = "delete" /\ Held = {} /\ new = 0
    BY <1>0, <1>10 DEF Apply, At, Typed, OpRight, Held, Metas, None, Blocks
  <2>6. \A j, k \in Keys : index[j].block = index[k].block /\ index[j].block # 0 => j = k
    BY <2>1, <2>2, NoDuplicate DEF Partitioned
  <2>7. old = 0 => index[x] = None
    BY <2>1, <2>2, NoDuplicate
  <2>8. old # 0 => old \in Blocks /\ index[x] # None
    BY <2>1, <2>2, <1>0 DEF Maps, Metas
  <2>9. old \notin Idle /\ Once(free)
    BY <2>1 DEF Partitioned
  <2>10. Once(free') /\ Idle' = (IF old = 0 THEN Idle ELSE Idle \cup {old})
    <3>1. CASE old = 0
      BY <1>10, <2>7, <2>9, <3>1 DEF Apply, Idle
    <3>2. CASE old # 0
      <4>1. free' = Append(free, old)
        BY <1>10, <2>8, <3>2 DEF Apply, Recycle
      <4> QED
        BY <2>2, <2>8, <2>9, <3>2, <4>1, ListedAppend DEF Idle
    <3> QED
      BY <3>1, <3>2
  <2>11. /\ \A k \in Keys : index[k].block \notin Idle /\ index[k].block \notin Held
         /\ \A b \in Held : b \notin Idle
         /\ \A b \in Blocks : b \in Idle \/ b \in Held \/ \E k \in Keys : index[k].block = b
         /\ 0 \notin Blocks
    BY <2>1 DEF Partitioned, Blocks
  <2>12. 0 \notin Idle
    BY <2>2 DEF Idle, Listed, Blocks
  <2> HIDE DEF x, old, new
  <2>13. x \in Keys /\ old = index[x].block
    BY <2>1 DEF x, old
  <2>14. \A k \in Keys : index'[k].block \notin Idle'
    BY <2>4, <2>5, <2>6, <2>10, <2>11, <2>12, <2>13
  <2>15. \A b \in Blocks : b \in Idle' \/ \E k \in Keys : index'[k].block = b
    BY <2>4, <2>5, <2>10, <2>11, <2>13
  <2>16. \A j, k \in Keys : index'[j].block = index'[k].block /\ index'[j].block # 0 => j = k
    BY <2>4, <2>5, <2>6, <2>11, <2>13
  <2>17. ~ DuplicateBlock(index')
    BY <2>2, <2>16, NoDuplicate
  <2> QED
    BY <2>1, <2>3, <2>10, <2>14, <2>15, <2>17 DEF Partitioned
<1>11. CASE ExecuteSnapshot
  <2>1. Quiet
    BY <1>0, <1>11 DEF ExecuteSnapshot, Call, At, Typed, OpRight, Quiet, NoOp
  <2> QED
    BY <2>1, QuietBlocks
<1>12. ASSUME NEW l \in Levels, ExecuteSetWalLevel(l) PROVE Partitioned'
  <2>1. Quiet
    BY <1>0, <1>12 DEF ExecuteSetWalLevel, Call, At, Typed, OpRight, Quiet, NoOp
  <2> QED
    BY <2>1, QuietBlocks
<1>13. CASE CloseDc
  <2>1. Quiet
    BY <1>0, <1>13 DEF CloseDc, Call, At, Typed, OpRight, Quiet, NoOp
  <2> QED
    BY <2>1, QuietBlocks
<1>a. Flushed => op' = op \/ (op.kind # "put" /\ op'.kind # "put")
    BY <1>0 DEF Flushed, Return, Goto
<1>14. CASE FlushNothing
    BY <1>14, <1>a, QuietBlocks DEF FlushNothing, Quiet
<1>15. CASE FlushWrite
  <2>1. mode = "up" /\ (Quiet \/ (GiveUp /\ UNCHANGED <<index, mode>>))
    BY <1>15 DEF FlushWrite, FlushFails, At, Goto, Quiet
  <2> QED
    BY <2>1, QuietBlocks, GiveUpBlocks
<1>16. CASE FlushSync
  <2>1. mode = "up" /\ (Quiet \/ (GiveUp /\ UNCHANGED <<index, mode>>))
    BY <1>16, <1>a DEF FlushSync, FlushFails, At, Goto, Quiet
  <2> QED
    BY <2>1, QuietBlocks, GiveUpBlocks
<1>17. CASE SnapshotBegins
    BY <1>17, QuietBlocks DEF SnapshotBegins, Goto, Quiet
<1>18. CASE SnapshotEnds
  <2>1. mode = "up" /\ (Quiet \/ (GiveUp /\ UNCHANGED <<index, mode>>))
    BY <1>0, <1>18 DEF SnapshotEnds, SnapshotTaken, Return, At, Goto, Quiet
  <2> QED
    BY <2>1, QuietBlocks, GiveUpBlocks
<1>19. CASE Closed \/ Killed \/ PowerFails
    BY <1>19 DEF Closed, Killed, PowerFails, Down, Partitioned
<1>20. CASE RecoverDevice
  <2> DEFINE map == ApplyWalEntry(base, frames)[Len(frames)]
  <2>1. map \in Maps
    BY AfterFacts, LenProperties DEF After, Typed, LogTyped
  <2>2. \/ mode' # "up"
        \/ index' = map /\ free' = RebuildFromActive(map) /\ ~ DuplicateBlock(map)
    BY <1>20 DEF RecoverDevice, Load
  <2>3. Held' = {}
    BY <1>0, <1>20 DEF RecoverDevice, Typed, OpRight, Held
  <2> HIDE DEF map
  <2>4. CASE mode' # "up"
    BY <2>4 DEF Partitioned
  <2>5. CASE index' = map /\ free' = RebuildFromActive(map) /\ ~ DuplicateBlock(map)
    <3>1. Once(free') /\ Idle' = Blocks \ Active(map)
      BY <2>5, RebuildFacts DEF Idle
    <3>2. \A k \in Keys : map[k].block \notin Blocks \ Active(map)
      BY DEF Active, Blocks
    <3>3. \A b \in Blocks : b \in Active(map) => \E k \in Keys : map[k].block = b
      BY DEF Active
    <3> QED
      BY <2>3, <2>5, <3>1, <3>2, <3>3 DEF Partitioned
  <2> QED
    BY <2>2, <2>4, <2>5
<1> QED
    BY <1>1, <1>2, <1>3, <1>4, <1>5, <1>6, <1>7, <1>8, <1>9, <1>10, <1>11, <1>12, <1>13, <1>14,
       <1>15, <1>16, <1>17, <1>18, <1>19, <1>20 DEF Next

---------------------------------------------------------------------------
(* The log and the index.                                                  *)

\* A log that is only written or synchronised further keeps what was said of it.
LEMMA SoundSame ==
    ASSUME LogTyped, Sound, UNCHANGED <<base, frames, spare>>, synced' \in Nat, synced <= synced',
           haunted' = haunted
    PROVE  Sound'
<1>1. After' = After /\ Len(frames)' = Len(frames) /\ Len(frames) \in Nat
    BY LenProperties DEF After, LogTyped
<1>2. \A n \in synced' .. Len(frames) : n \in synced .. Len(frames)
    BY <1>1 DEF LogTyped
<1> QED
    BY <1>1, <1>2 DEF Sound

\* The index with the frame of the operation being executed.
LEMMA WithFrame ==
    ASSUME Typed, Partitioned, mode = "up", op.kind \in {"put", "delete"}
    PROVE  ~ DuplicateBlock([index EXCEPT ![op.key] = op.meta])
<1> DEFINE x == op.key
           map == [index EXCEPT ![x] = op.meta]
<1>0. None \in Metas /\ None.block = 0 /\ 0 \notin Blocks
    BY DEF None, Metas, Blocks
<1>1. x \in Keys /\ op.meta \in Metas /\ index \in Maps
    BY <1>0 DEF Typed, OpRight, MemoryTyped
<1>2. map \in Maps /\ map[x] = op.meta /\ \A k \in Keys : k # x => map[k] = index[k]
    BY <1>1 DEF Maps
<1>3. \A j, k \in Keys : index[j].block = index[k].block /\ index[j].block # 0 => j = k
    BY <1>1, NoDuplicate DEF Partitioned
<1>4. op.meta.block = 0 \/ \A k \in Keys : index[k].block # op.meta.block
    BY <1>0 DEF Partitioned, Held, Typed, OpRight
<1> HIDE DEF map
<1>5. \A j, k \in Keys : map[j].block = map[k].block /\ map[j].block # 0 => j = k
    BY <1>1, <1>2, <1>3, <1>4
<1> QED
    BY <1>2, <1>5, NoDuplicate DEF map

\* LogAppend.
LEMMA AppendStep ==
    ASSUME Typed, Partitioned, Agrees, Sound, LogAppend
    PROVE  Agrees' /\ Sound'
<1> DEFINE e == [key |-> op.key, meta |-> op.meta]
           x == [index EXCEPT ![op.key] = op.meta]
<1>0. None \in Metas
    BY DEF Metas
<1>1. /\ mode = "up" /\ pc = "log" /\ op.kind \in {"put", "delete"} /\ op.key \in Keys /\ op.meta \in Metas
      /\ op.kind = "delete" => index[op.key] # None
      /\ op.kind = "put" => op.meta # None
    BY <1>0 DEF LogAppend, At, Typed, OpRight
<1>2. e \in Frame /\ frames' = Append(frames, e) /\ base' = base /\ LogTyped
    BY <1>1 DEF LogAppend, Frame, Typed
<1>3. UNCHANGED <<index, op, mode, haunted, spare, synced>> /\ pc' \in {"log_write", "apply"}
    BY DEF LogAppend, Goto, memory, ghost
<1>4. /\ \A n \in 0 .. Len(frames) : After'[n] = After[n]
      /\ After'[Len(frames) + 1] = Applied(After[Len(frames)], e)
      /\ frames' \in Seq(Frame) /\ Len(frames') = Len(frames) + 1
      /\ \A n \in 1 .. Len(frames) : frames'[n] = frames[n]
      /\ frames'[Len(frames) + 1] = e
    BY <1>2, AfterAppend
<1>5. Len(frames) \in Nat /\ synced \in Nat /\ synced <= Len(frames)
    BY LenProperties DEF Typed, LogTyped
<1>6. SUFFICES ASSUME ~ haunted PROVE Agrees' /\ Sound'
    BY <1>3 DEF Agrees, Sound
<1>7. After[Len(frames)] = index
    BY <1>1, <1>6 DEF Agrees
<1>8. After'[Len(frames) + 1] = x
    BY <1>4, <1>7 DEF Applied
<1>9. Agrees'
    BY <1>3, <1>4, <1>8 DEF Agrees
<1>10. \A n \in synced .. Len(frames) + 1 : ~ DuplicateBlock(After'[n])
  <2>1. ~ DuplicateBlock(x)
    BY <1>1, WithFrame
  <2>2. \A n \in synced .. Len(frames) : ~ DuplicateBlock(After[n])
    BY <1>6 DEF Sound
  <2>3. \A n \in synced .. Len(frames) + 1 : n = Len(frames) + 1 \/ (n \in synced .. Len(frames) /\ n \in 0 .. Len(frames))
    BY <1>5
  <2> HIDE DEF x
  <2> QED
    BY <1>4, <1>8, <2>1, <2>2, <2>3
<1>11. \A n \in 1 .. Len(frames) + 1 : frames'[n].meta = None => After'[n - 1][frames'[n].key] # None
  <2> SUFFICES ASSUME NEW n \in 1 .. Len(frames) + 1, frames'[n].meta = None
               PROVE  After'[n - 1][frames'[n].key] # None
    OBVIOUS
  <2>1. CASE n \in 1 .. Len(frames)
    <3>1. n - 1 \in 0 .. Len(frames) /\ frames'[n] = frames[n]
      BY <1>4, <1>5, <2>1
    <3>2. After'[n - 1] = After[n - 1]
      BY <1>4, <3>1
    <3> QED
      BY <1>6, <2>1, <3>1, <3>2 DEF Sound
  <2>2. CASE n = Len(frames) + 1
    <3>1. After'[n - 1] = index /\ frames'[n] = e
      BY <1>4, <1>5, <1>7, <2>2
    <3> QED
      BY <1>1, <3>1
  <2> QED
    BY <1>5, <2>1, <2>2
<1>12. \A i \in 1 .. Len(spare) : spare[i].map = After'[spare[i].at]
  <2> SUFFICES ASSUME NEW i \in 1 .. Len(spare) PROVE spare[i].map = After'[spare[i].at]
    OBVIOUS
  <2>1. spare[i] \in [map : Maps, at : Nat] /\ spare[i].at <= Len(frames)
    BY ElementOfSeq DEF Typed, LogTyped
  <2>2. spare[i].at \in 0 .. Len(frames)
    BY <1>5, <2>1
  <2> QED
    BY <1>4, <1>6, <2>2 DEF Sound
<1>13. Sound'
    BY <1>3, <1>4, <1>10, <1>11, <1>12 DEF Sound
<1> QED
    BY <1>9, <1>13

\* What a restart will replay is part of what would have been replayed before.
LEMMA LandReplay ==
    ASSUME LogTyped, Sound, ~ haunted, NEW n \in Nat, NEW keep \in Nat, keep <= n, n <= Len(frames),
           Land(n, keep)
    PROVE  \E a \in 0 .. Len(frames) :
              /\ Len(frames') = (IF a > n THEN a ELSE n) - a
              /\ \A i \in 1 .. Len(frames') : frames'[i] = frames[a + i]
              /\ synced' = (IF a > keep THEN a ELSE keep) - a
              /\ spare' = <<>>
              /\ \A m \in 0 .. Len(frames') : After'[m] = After[a + m]
              /\ Len(frames') \in Nat /\ a + Len(frames') <= Len(frames)
<1>2. PICK a \in 0 .. Len(frames) :
              /\ base' \in Maps
              /\ frames' \in Seq(Frame)
              /\ Len(frames') = (IF a > n THEN a ELSE n) - a
              /\ \A i \in 1 .. Len(frames') : frames'[i] = frames[a + i]
              /\ synced' = (IF a > keep THEN a ELSE keep) - a
              /\ spare' = <<>>
              /\ base' = After[a]
    BY LandFacts
<1>3. Len(frames) \in Nat /\ synced \in Nat /\ Len(frames') \in Nat /\ a + Len(frames') <= Len(frames) /\ a \in Nat
    BY <1>2, LenProperties DEF LogTyped
<1>4. \A m \in 0 .. Len(frames') : After'[m] = After[a + m]
  <2>1. frames \in Seq(Frame) /\ base \in Maps /\ a + Len(frames') <= Len(frames)
    BY <1>3 DEF LogTyped
  <2>2. base' = ApplyWalEntry(base, frames)[a] /\ \A i \in 1 .. Len(frames') : frames'[i] = frames[a + i]
    BY <1>2 DEF After
  <2>3. frames' \in Seq(Frame) /\ base' \in Maps
    BY <1>2
  <2>4. \A m \in 0 .. Len(frames') :
            ApplyWalEntry(ApplyWalEntry(base, frames)[a], frames')[m] = ApplyWalEntry(base, frames)[a + m]
    BY <2>1, <2>2, <2>3, ReplayRest, Zenon
  <2> QED
    BY <2>2, <2>4 DEF After
<1> QED
    BY <1>2, <1>3, <1>4

\* The end of a life.
LEMMA LandStep ==
    ASSUME LogTyped, Sound, NEW n \in Nat, NEW keep \in Nat, synced <= keep, keep <= n, n <= Len(frames),
           Land(n, keep), haunted' = haunted
    PROVE  Sound'
<1>1. SUFFICES ASSUME ~ haunted PROVE Sound'
    BY DEF Sound
<1>2. PICK a \in 0 .. Len(frames) :
              /\ Len(frames') = (IF a > n THEN a ELSE n) - a
              /\ \A i \in 1 .. Len(frames') : frames'[i] = frames[a + i]
              /\ synced' = (IF a > keep THEN a ELSE keep) - a
              /\ spare' = <<>>
              /\ \A m \in 0 .. Len(frames') : After'[m] = After[a + m]
              /\ Len(frames') \in Nat /\ a + Len(frames') <= Len(frames)
    BY <1>1, LandReplay
<1>3. Len(frames) \in Nat /\ synced \in Nat /\ Len(frames') \in Nat /\ a + Len(frames') <= Len(frames) /\ a \in Nat
    BY <1>2, LenProperties DEF LogTyped
<1>4. \A m \in 0 .. Len(frames') : After'[m] = After[a + m]
    BY <1>2
<1>5. \A m \in synced' .. Len(frames') : ~ DuplicateBlock(After'[m])
  <2>1. \A m \in synced' .. Len(frames') : m \in 0 .. Len(frames') /\ a + m \in synced .. Len(frames)
    <3> DEFINE s1 == synced'
               l1 == Len(frames')
    <3>1. s1 = (IF a > keep THEN a ELSE keep) - a /\ synced <= keep
      BY <1>2
    <3>2. a \in Nat /\ synced \in Nat /\ l1 \in Nat /\ Len(frames) \in Nat /\ a + l1 <= Len(frames)
      BY <1>3
    <3> HIDE DEF s1, l1
    <3>3. s1 \in Nat /\ keep <= a + s1
      BY <3>1, <3>2
    <3>4. \A m \in s1 .. l1 : m \in 0 .. l1 /\ a + m \in synced .. Len(frames)
      BY <3>1, <3>2, <3>3
    <3> QED
      BY <3>4 DEF s1, l1
  <2> QED
    BY <1>1, <1>4, <2>1 DEF Sound
<1>6. \A m \in 1 .. Len(frames') : frames'[m].meta = None => After'[m - 1][frames'[m].key] # None
  <2> SUFFICES ASSUME NEW m \in 1 .. Len(frames'), frames'[m].meta = None
               PROVE  After'[m - 1][frames'[m].key] # None
    OBVIOUS
  <2>1. frames'[m] = frames[a + m] /\ a + m \in 1 .. Len(frames) /\ m - 1 \in 0 .. Len(frames')
    <3>1. frames'[m] = frames[a + m]
      BY <1>2
    <3>2. m \in Nat /\ m >= 1 /\ m <= Len(frames')
      BY <1>3
    <3> QED
      BY <1>3, <3>1, <3>2
  <2>2. After'[m - 1] = After[a + (m - 1)] /\ a + (m - 1) = a + m - 1
    BY <1>3, <1>4, <2>1
  <2> QED
    BY <1>1, <2>1, <2>2 DEF Sound
<1>7. Len(spare') = 0
    BY <1>2
<1> QED
    BY <1>5, <1>6, <1>7 DEF Sound

\* RecoverDevice.
LEMMA RecoverStep ==
    ASSUME Typed, Sound, RecoverDevice
    PROVE  Agrees' /\ Sound' /\ RefusesOnlyHaunted'
<1> DEFINE map == After[Len(frames)]
<1>0. /\ LogTyped /\ Len(frames) \in Nat /\ synced \in Nat /\ synced <= Len(frames) /\ spare = <<>>
      /\ pc = "idle" /\ mode = "down"
    BY LenProperties DEF RecoverDevice, Typed, OpRight, LogTyped
<1>1. UNCHANGED <<pc, op, base, spare, frames, synced>>
    BY DEF RecoverDevice, log
<1>2. \A k \in Keys : ValidateRecoveredMeta(base[k])
    BY <1>0 DEF LogTyped, ValidateRecoveredMeta, Maps, Metas
<1>3. \A n \in 1 .. Len(frames) : ValidateRecoveredMeta(frames[n].meta)
  <2>1. \A n \in 1 .. Len(frames) : frames[n] \in Frame
    BY <1>0, ElementOfSeq DEF LogTyped
  <2> QED
    BY <2>1 DEF Frame, ValidateRecoveredMeta, Metas
<1>4. \/ mode' = "refused" /\ haunted' = haunted /\ (DeletesAbsent(base, frames) \/ DuplicateBlock(map))
      \/ /\ mode' = "up" /\ index' = map /\ haunted' = (haunted /\ synced < Len(frames))
         /\ ~ DeletesAbsent(base, frames) /\ ~ DuplicateBlock(map)
    BY <1>2, <1>3 DEF RecoverDevice, Load, After
<1>5. DeletesAbsent(base, frames) <=>
        \E n \in 1 .. Len(frames) : frames[n].meta = None /\ After[n - 1][frames[n].key] = None
    BY DEF DeletesAbsent, After
<1>6. After' = After /\ Len(frames)' = Len(frames)
    BY <1>1 DEF After
<1> HIDE DEF map
<1>7. CASE mode' = "refused" /\ haunted' = haunted /\ (DeletesAbsent(base, frames) \/ DuplicateBlock(map))
  <2>1. haunted
    <3> SUFFICES ASSUME ~ haunted PROVE FALSE
      OBVIOUS
    <3>1. ~ DeletesAbsent(base, frames)
      BY <1>5 DEF Sound
    <3>2. Len(frames) \in synced .. Len(frames)
      BY <1>0
    <3>3. ~ DuplicateBlock(map)
      BY <3>2 DEF Sound, map
    <3> QED
      BY <1>7, <3>1, <3>3
  <2> QED
    BY <1>7, <2>1 DEF Agrees, Sound, RefusesOnlyHaunted
<1>8. CASE /\ mode' = "up" /\ index' = map /\ haunted' = (haunted /\ synced < Len(frames))
           /\ ~ DeletesAbsent(base, frames) /\ ~ DuplicateBlock(map)
  <2>1. Agrees'
    BY <1>0, <1>1, <1>6, <1>8 DEF Agrees, map
  <2>2. RefusesOnlyHaunted'
    BY <1>8 DEF RefusesOnlyHaunted
  <2>3. CASE haunted'
    BY <2>1, <2>2, <2>3 DEF Sound
  <2>4. CASE ~ haunted /\ ~ haunted'
    BY <1>1, <1>6, <2>1, <2>2, <2>4 DEF Sound
  <2>5. CASE synced = Len(frames)
    <3>1. \A n \in synced .. Len(frames) : n = Len(frames)
      BY <1>0, <2>5
    <3>2. \A n \in synced .. Len(frames) : ~ DuplicateBlock(After[n])
      BY <1>8, <3>1 DEF map
    <3>3. Len(spare) = 0
      BY <1>0
    <3> QED
      BY <1>1, <1>5, <1>6, <1>8, <2>1, <2>2, <3>2, <3>3 DEF Sound
  <2> QED
    BY <1>0, <1>8, <2>3, <2>4, <2>5 DEF Typed, MemoryTyped
<1> QED
    BY <1>4, <1>7, <1>8

\* A step keeps index, log and snapshots together.
LEMMA LogStep ==
    ASSUME Right, Next
    PROVE  Agrees' /\ Sound' /\ RefusesOnlyHaunted'
<1> USE DEF log, values, memory, ghost, count
<1>0. /\ Typed /\ Partitioned /\ Agrees /\ Sound /\ RefusesOnlyHaunted
      /\ LogTyped /\ MemoryTyped /\ OpRight
    BY DEF Right, Typed
<1>a. /\ Len(frames) \in Nat /\ synced \in Nat /\ written \in Nat
      /\ synced <= written /\ written <= Len(frames)
    BY <1>0, LenProperties DEF LogTyped
<1>b. ASSUME mode = "up", mode' = "up", UNCHANGED <<base, frames, spare>>, synced' \in Nat, synced <= synced',
             haunted' = haunted, index' = index, pc' \notin {"log_write", "log_sync", "apply"},
             pc \notin {"log_write", "log_sync", "apply"}
      PROVE  Agrees' /\ Sound' /\ RefusesOnlyHaunted'
  <2>1. Sound'
    BY <1>0, <1>b, SoundSame
  <2>2. After' = After
    BY <1>b DEF After
  <2> QED
    BY <1>0, <1>b, <2>1, <2>2 DEF Agrees, RefusesOnlyHaunted
<1>1. ASSUME NEW k \in Keys, ExecutePut(k) \/ ExecuteDelete(k) PROVE Agrees' /\ Sound' /\ RefusesOnlyHaunted'
    BY <1>a, <1>b, <1>1 DEF ExecutePut, ExecuteDelete, Call, At
<1>2. CASE ValueWritten
    BY <1>a, <1>b, <1>2 DEF ValueWritten, At, Goto
<1>3. CASE ValueFails
    BY <1>a, <1>b, <1>3 DEF ValueFails, At, GiveUp, Return
<1>4. CASE LogFull
    BY <1>a, <1>b, <1>4 DEF LogFull, At, Goto
<1>5. CASE LogAppend
  <2>1. RefusesOnlyHaunted'
    BY <1>5 DEF LogAppend, At, RefusesOnlyHaunted
  <2> QED
    BY <1>0, <1>5, <2>1, AppendStep
<1>6. CASE LogRetries
  <2>1. /\ mode = "up" /\ mode' = "up" /\ UNCHANGED <<base, frames, spare, haunted, index>> /\ pc = "log"
        /\ pc' \in {"log", "idle"} /\ (synced' = synced \/ synced' = Len(frames))
    BY <1>6 DEF LogRetries, At, GiveUp, Return
  <2> QED
    BY <1>a, <1>b, <2>1
<1>7. CASE LogWrite \/ LogSync
  <2>1. /\ mode = "up" /\ mode' = "up" /\ UNCHANGED <<base, frames, spare, index>>
        /\ pc \in {"log_write", "log_sync"} /\ (synced' = synced \/ synced' = written)
    BY <1>7 DEF LogWrite, LogSync, At
  <2>2. haunted' = TRUE \/ (haunted' = haunted /\ op' = op /\ pc' \in {"log_sync", "apply"})
    BY <1>7 DEF LogWrite, LogSync, Goto
  <2>3. RefusesOnlyHaunted'
    BY <2>1 DEF RefusesOnlyHaunted
  <2>4. CASE haunted' = TRUE
    BY <2>3, <2>4 DEF Agrees, Sound
  <2>5. CASE haunted' = haunted /\ op' = op /\ pc' \in {"log_sync", "apply"}
    <3>1. Sound'
      BY <1>0, <1>a, <2>1, <2>5, SoundSame
    <3>2. After' = After
      BY <2>1 DEF After
    <3>3. Agrees'
      BY <1>0, <2>1, <2>5, <3>2 DEF Agrees
    <3> QED
      BY <2>3, <3>1, <3>3
  <2> QED
    BY <2>2, <2>4, <2>5
<1>8. CASE Apply
  <2>1. /\ mode = "up" /\ mode' = "up" /\ UNCHANGED <<base, frames, spare, synced, haunted>>
        /\ pc = "apply" /\ index' = [index EXCEPT ![op.key] = op.meta] /\ pc' \in {"idle", "flush"}
    BY <1>8 DEF Apply, At, Return
  <2>2. Sound'
    BY <1>0, <1>a, <2>1, SoundSame
  <2>3. After' = After
    BY <2>1 DEF After
  <2>4. Agrees'
    BY <1>0, <2>1, <2>3 DEF Agrees
  <2> QED
    BY <2>1, <2>2, <2>4 DEF RefusesOnlyHaunted
<1>9. CASE ExecuteSnapshot
    BY <1>a, <1>b, <1>9 DEF ExecuteSnapshot, Call, At
<1>10. ASSUME NEW l \in Levels, ExecuteSetWalLevel(l) PROVE Agrees' /\ Sound' /\ RefusesOnlyHaunted'
    BY <1>a, <1>b, <1>10 DEF ExecuteSetWalLevel, Call, At
<1>11. CASE CloseDc
    BY <1>a, <1>b, <1>11 DEF CloseDc, Call, At
<1>c. Flushed => pc' \in {"idle", "closed", "snapshot"}
    BY DEF Flushed, Return, Goto
<1>12. CASE FlushNothing
    BY <1>a, <1>b, <1>c, <1>12 DEF FlushNothing, At
<1>13. CASE FlushWrite
  <2>1. pc' \in {"flush_sync", "idle", "closed"}
    BY <1>13 DEF FlushWrite, FlushFails, GiveUp, Return, Goto
  <2> QED
    BY <1>a, <1>b, <1>13, <2>1 DEF FlushWrite, At
<1>14. CASE FlushSync
  <2>1. pc' \in {"idle", "closed", "snapshot"}
    BY <1>14, <1>c DEF FlushSync, FlushFails, GiveUp, Return, Goto
  <2>2. synced' = written \/ synced' = synced
    BY <1>14 DEF FlushSync
  <2> QED
    BY <1>a, <1>b, <1>14, <2>1, <2>2 DEF FlushSync, At
<1>15. CASE SnapshotBegins
  <2>1. /\ mode = "up" /\ mode' = "up" /\ UNCHANGED <<base, frames, synced, haunted, index>>
        /\ pc = "snapshot" /\ pc' = "snapshot_sync" /\ spare' = <<[map |-> index, at |-> Len(frames)]>>
    BY <1>15 DEF SnapshotBegins, At, Goto
  <2>2. After' = After
    BY <2>1 DEF After
  <2>3. Agrees' /\ RefusesOnlyHaunted'
    BY <1>0, <2>1, <2>2 DEF Agrees, RefusesOnlyHaunted
  <2>4. ~ haunted => After[Len(frames)] = index
    BY <1>0, <2>1 DEF Agrees
  <2>5. Len(spare') = 1 /\ spare'[1].map = index /\ spare'[1].at = Len(frames)
    BY <2>1
  <2>6. Sound'
    BY <1>0, <2>1, <2>2, <2>4, <2>5 DEF Sound
  <2> QED
    BY <2>3, <2>6
<1>16. CASE SnapshotEnds
  <2>1. mode = "up" /\ mode' = "up" /\ pc = "snapshot_sync" /\ index' = index /\ spare[1].map = index
    BY <1>0, <1>16 DEF SnapshotEnds, At, OpRight
  <2>2. RefusesOnlyHaunted'
    BY <2>1 DEF RefusesOnlyHaunted
  <2>3. CASE SnapshotTaken
    <3>1. base' = index /\ frames' = <<>> /\ spare' = <<>> /\ synced' = 0 /\ pc' \in {"idle", "log"}
      BY <2>1, <2>3 DEF SnapshotTaken, Return, Goto
    <3>2. index \in Maps /\ frames' \in Seq(Frame) /\ Len(frames') = 0 /\ Len(spare') = 0
      BY <1>0, <3>1 DEF MemoryTyped
    <3>3. After'[0] = index
      BY <3>1, <3>2, ReplayFacts DEF After
    <3>4. ~ DuplicateBlock(index)
      BY <1>0, <2>1 DEF Partitioned
    <3>5. \A n \in synced' .. Len(frames') : n = 0
      BY <3>1, <3>2
    <3>6. Sound'
      BY <3>2, <3>3, <3>4, <3>5 DEF Sound
    <3>7. Agrees'
      BY <2>1, <3>1, <3>2, <3>3 DEF Agrees
    <3> QED
      BY <2>2, <3>6, <3>7
  <2>4. CASE GiveUp /\ UNCHANGED <<log, haunted>>
    BY <1>a, <1>b, <2>1, <2>4 DEF GiveUp, Return
  <2> QED
    BY <1>16, <2>3, <2>4 DEF SnapshotEnds
<1>d. ASSUME Down PROVE Agrees' /\ RefusesOnlyHaunted' /\ haunted' = haunted
    BY <1>d DEF Down, Agrees, RefusesOnlyHaunted
<1>17. CASE Closed \/ Killed
  <2>1. Land(written, synced) /\ Down
    BY <1>17 DEF Closed, Killed
  <2> QED
    BY <1>0, <1>a, <1>d, <2>1, LandStep
<1>18. CASE PowerFails
  <2>1. PICK n \in synced .. written : Land(n, n)
    BY <1>18 DEF PowerFails
  <2>2. Down
    BY <1>18 DEF PowerFails
  <2>3. n \in Nat /\ synced <= n /\ n <= n /\ n <= Len(frames)
    BY <1>a
  <2> QED
    BY <1>0, <1>d, <2>1, <2>2, <2>3, LandStep
<1>19. CASE RecoverDevice
    BY <1>0, <1>19, RecoverStep
<1> QED
    BY <1>1, <1>2, <1>3, <1>4, <1>5, <1>6, <1>7, <1>8, <1>9, <1>10, <1>11, <1>12, <1>13, <1>14,
       <1>15, <1>16, <1>17, <1>18, <1>19 DEF Next

\* The invariant holds at first.
LEMMA RightInit ==
    ASSUME ShardAssumption, Init
    PROVE  Right
<1>0. None \in Metas /\ NoOp.kind = "none" /\ None.block = 0
    BY DEF None, Metas, NoOp
<1>1. index \in Maps /\ base = index /\ \A k \in Keys : index[k] = None
    BY <1>0 DEF Init, Maps
<1>2. frames = <<>> /\ spare = <<>> /\ frames \in Seq(Frame) /\ Len(frames) = 0 /\ Len(spare) = 0
    BY DEF Init
<1>3. free \in Seq(Blocks) /\ Len(free) = BlockCount /\ \A i \in 1 .. BlockCount : free[i] = i
    BY DEF Init, Blocks, ShardAssumption
<1>4. LogTyped
    BY <1>1, <1>2 DEF Init, LogTyped
<1>5. DiskTyped
    BY DEF Init, DiskTyped, Contents, ShardAssumption
<1>6. MemoryTyped
  <2>1. ops \in 0 .. MaxOps
    BY DEF Init, ShardAssumption
  <2>2. haunted \in BOOLEAN /\ pc \in Steps /\ mode = "up" /\ level \in Levels
    BY DEF Init, Steps
  <2> QED
    BY <1>1, <1>3, <2>1, <2>2 DEF MemoryTyped
<1>7. OpRight
    BY <1>0 DEF Init, OpRight
<1>8. ~ DuplicateBlock(index)
    BY <1>1 DEF DuplicateBlock
<1>9. Once(free) /\ Idle = Blocks /\ 0 \notin Blocks
    BY <1>3 DEF Once, Idle, Listed, Blocks
<1>10. Held = {}
    BY <1>0 DEF Init, Held
<1>11. Partitioned
    BY <1>0, <1>1, <1>8, <1>9, <1>10 DEF Partitioned
<1>12. After[0] = index
    BY <1>1, <1>2, ReplayFacts DEF After
<1>13. Agrees /\ RefusesOnlyHaunted
    BY <1>2, <1>12 DEF Init, Agrees, RefusesOnlyHaunted
<1>14. \A n \in synced .. Len(frames) : n = 0
    BY <1>2 DEF Init
<1>15. Sound
    BY <1>2, <1>8, <1>12, <1>14 DEF Sound
<1> QED
    BY <1>4, <1>5, <1>6, <1>7, <1>11, <1>13, <1>15 DEF Right, Typed

\* The invariant is preserved by every step, and by a step that changes nothing.
LEMMA RightStep ==
    ASSUME ShardAssumption, Right, [Next]_vars
    PROVE  Right'
<1>1. CASE Next
    BY <1>1, TypedStep, BlocksStep, LogStep DEF Right
<1>2. CASE UNCHANGED vars
  <2>1. UNCHANGED <<level, index, free, pc, op, mode, disk, loose, base, spare, frames, written, synced, passed,
                    ops, haunted>>
    BY <1>2 DEF vars, log, values, memory, ghost, count
  <2>2. After' = After /\ Idle' = Idle /\ Held' = Held
    BY <2>1 DEF After, Idle, Held
  <2>3. Typed'
    BY <2>1 DEF Right, Typed, LogTyped, DiskTyped, MemoryTyped, OpRight
  <2>4. Partitioned' /\ Agrees' /\ Sound' /\ RefusesOnlyHaunted'
    BY <2>1, <2>2 DEF Right, Partitioned, Agrees, Sound, RefusesOnlyHaunted
  <2> QED
    BY <2>3, <2>4 DEF Right
<1> QED
    BY <1>1, <1>2

\* The invariant holds throughout.
LEMMA Invariance == Spec => []Right
<1>1. Init => Right
    BY RightInit, ShardAssumption
<1>2. Right /\ [Next]_vars => Right'
    BY RightStep, ShardAssumption
<1> QED
    BY <1>1, <1>2, PTL DEF Spec

---------------------------------------------------------------------------
(* The theorems.                                                           *)

\* Blocks counted: as many as there are free, owned and being written.
LEMMA Counted ==
    ASSUME ShardAssumption, Typed, Partitioned, mode = "up"
    PROVE  /\ Len(free) = Cardinality(Idle)
           /\ Cardinality(Idle) + Cardinality(Active(index)) + Cardinality(Held) = BlockCount
           /\ Idle \cup Active(index) \cup Held = Blocks
<1>1. /\ free \in Seq(Blocks) /\ index \in Maps /\ Len(free) \in Nat
      /\ op.kind = "put" => op.meta \in Metas \ {None}
    BY LenProperties DEF Typed, MemoryTyped, OpRight
<1>2. \A k \in Keys : index[k].block = 0 \/ index[k].block \in Blocks
    BY <1>1 DEF Maps, Metas, None
<1>3. Idle \subseteq Blocks
    BY <1>1 DEF Idle, Listed
<1>4. Active(index) \subseteq Blocks
    BY <1>2 DEF Active
<1>5. Held \subseteq Blocks
    BY <1>1 DEF Held, Metas
<1>6. Blocks \subseteq Idle \cup Active(index) \cup Held
    BY DEF Partitioned, Active, Blocks
<1>7. Idle \cap Active(index) = {} /\ (Idle \cup Active(index)) \cap Held = {}
    BY DEF Partitioned, Active
<1>8. Idle \cup Active(index) \cup Held = Blocks
    BY <1>3, <1>4, <1>5, <1>6
<1>9. IsFiniteSet(Idle) /\ IsFiniteSet(Active(index)) /\ IsFiniteSet(Held)
    BY <1>3, <1>4, <1>5, BlocksFinite, FS_Subset
<1>10. Cardinality(Idle \cup Active(index)) = Cardinality(Idle) + Cardinality(Active(index))
       /\ IsFiniteSet(Idle \cup Active(index))
  <2>1. Cardinality(Idle \cap Active(index)) = 0
    BY <1>7, FS_EmptySet
  <2>2. Cardinality(Idle) \in Nat /\ Cardinality(Active(index)) \in Nat
    BY <1>9, FS_CardinalityType
  <2>3. /\ IsFiniteSet(Idle \cup Active(index))
        /\ Cardinality(Idle \cup Active(index)) =
               Cardinality(Idle) + Cardinality(Active(index)) - Cardinality(Idle \cap Active(index))
    BY <1>9, FS_Union, Zenon
  <2> QED
    BY <2>1, <2>2, <2>3
<1>11. Cardinality(Blocks) = Cardinality(Idle \cup Active(index)) + Cardinality(Held)
  <2>1. Cardinality((Idle \cup Active(index)) \cap Held) = 0
    BY <1>7, FS_EmptySet
  <2>2. Cardinality(Held) \in Nat /\ Cardinality(Idle \cup Active(index)) \in Nat
    BY <1>9, <1>10, FS_CardinalityType
  <2>3. Cardinality((Idle \cup Active(index)) \cup Held) = Cardinality(Idle \cup Active(index)) + Cardinality(Held)
    <3> DEFINE owned == Idle \cup Active(index)
    <3>1. IsFiniteSet(owned) /\ IsFiniteSet(Held)
      BY <1>9, <1>10
    <3>2. Cardinality(owned \cup Held) = Cardinality(owned) + Cardinality(Held) - Cardinality(owned \cap Held)
      BY <3>1, FS_Union, Zenon
    <3> QED
      BY <2>1, <2>2, <3>2
  <2> QED
    BY <1>8, <2>3
<1>12. Len(free) = Cardinality(Idle)
  <2>1. Once(free)
    BY DEF Partitioned
  <2>2. free \in Bijection(1 .. Len(free), Idle)
    BY <1>1, <2>1 DEF Bijection, Injection, IsInjective, Surjection, Idle, Listed, Once
  <2>3. PICK n \in Nat : n = Len(free)
    BY <1>1
  <2>4. IsFiniteSet(1 .. n) /\ Cardinality(1 .. n) = n
    BY FS_Interval
  <2>5. ExistsBijection(1 .. n, Idle)
    BY <2>2, <2>3 DEF ExistsBijection
  <2>6. Cardinality(Idle) = Cardinality(1 .. n)
    BY <2>4, <2>5, FS_Bijection
  <2> QED
    BY <2>3, <2>4, <2>6
<1> QED
    BY <1>8, <1>10, <1>11, <1>12, BlocksFinite

\* BlocksPartitioned: through every interleaving of operations, run-time failures,
\* rescues, crashes and recoveries, a block is free, or belongs to one key, or to the Put
\* being executed, and the state has its type.
THEOREM NoBlockLostOrShared == Spec => []BlocksPartitioned
<1>1. Right => BlocksPartitioned
  <2> SUFFICES ASSUME Right PROVE BlocksPartitioned
    OBVIOUS
  <2>1. TypeOK
    <3>1. free \in Seq(Blocks) /\ index \in Maps /\ base \in Maps /\ level \in Levels
      BY DEF Right, Typed, MemoryTyped, LogTyped
    <3>2. /\ 0 <= synced /\ synced <= written /\ written <= Len(frames)
          /\ passed \in 0 .. written
      BY DEF Right, Typed, LogTyped
    <3>3. disk \in [Blocks -> Contents] /\ loose \in [Blocks -> SUBSET Contents]
      BY DEF Right, Typed, DiskTyped
    <3>4. mode \in {"up", "down", "refused"} /\ pc \in Steps
      BY DEF Right, Typed, MemoryTyped
    <3> QED
      BY <3>1, <3>2, <3>3, <3>4 DEF TypeOK, Steps
  <2>2. ASSUME mode = "up"
        PROVE  /\ Len(free) = Cardinality(Idle)
               /\ Cardinality(Idle) + Cardinality(Active(index)) + Cardinality(Held) = BlockCount
               /\ Idle \cup Active(index) \cup Held = Blocks
               /\ ~ DuplicateBlock(index)
    BY <2>2, Counted, ShardAssumption DEF Right, Partitioned
  <2> QED
    BY <2>1, <2>2 DEF BlocksPartitioned, Idle, Listed, Held
<1> QED
    BY <1>1, Invariance, PTL

\* ReplayAgrees: between operations a recovery of snapshot and whole log would build the
\* index, unless an operation failed after its Append.
THEOREM LogRebuildsIndex == Spec => []ReplayAgrees
<1>1. Right => ReplayAgrees
    BY DEF Right, Agrees, ReplayAgrees, At, After
<1> QED
    BY <1>1, Invariance, PTL

\* RefusesOnlyHaunted: RecoverDevice meets a contradiction only in a log that may have
\* come back with the frame of an operation that was reported as failed.
THEOREM RefusalHasReason == Spec => []RefusesOnlyHaunted
<1>1. Right => RefusesOnlyHaunted
    BY DEF Right
<1> QED
    BY <1>1, Invariance, PTL

---------------------------------------------------------------------------
(* The shard implements the versioned map.                                 *)

VersionsOf(b, f, s) == [i \in 1 .. Len(f) - s + 1 |-> Plain(ApplyWalEntry(b, f)[s + i - 1])]
Versions == VersionsOf(base, frames, synced)
Up == mode = "up"
PlainMaps == [Keys -> 0 .. MaxOps]

\* The steps of VersionedMap, in the terms of the shard.
LEMMA AbstractSteps ==
    /\ Abstract!Init <=> Versions = <<[k \in Keys |-> 0]>> /\ Up = TRUE
    /\ Abstract!vars = <<Versions, Up>>
    /\ \A k, v : Abstract!Write(k, v) <=>
           /\ Up /\ Up' = Up
           /\ Versions' = Append(Versions, [Versions[Len(Versions)] EXCEPT ![k] = v])
    /\ \A n : Abstract!Persist(n) <=>
           Up /\ Up' = Up /\ Versions' = SubSeq(Versions, n, Len(Versions))
    /\ \A m, n : Abstract!Stop(m, n) <=> Up' = FALSE /\ Versions' = SubSeq(Versions, m, n)
    /\ Abstract!Start <=> ~ Up /\ Up' = TRUE /\ Versions' = Versions
<1> USE DEF Versions, VersionsOf, Up
<1>1. Abstract!Init <=> Versions = <<[k \in Keys |-> 0]>> /\ Up = TRUE
    BY Zenon DEF Abstract!Init
<1>2. Abstract!vars = <<Versions, Up>>
    BY Zenon DEF Abstract!vars
<1>3. \A k, v : Abstract!Write(k, v) <=>
           /\ Up /\ Up' = Up
           /\ Versions' = Append(Versions, [Versions[Len(Versions)] EXCEPT ![k] = v])
    BY Zenon DEF Abstract!Write
<1>4. \A n : Abstract!Persist(n) <=>
           Up /\ Up' = Up /\ Versions' = SubSeq(Versions, n, Len(Versions))
    BY Zenon DEF Abstract!Persist
<1>5. \A m, n : Abstract!Stop(m, n) <=> Up' = FALSE /\ Versions' = SubSeq(Versions, m, n)
    BY Zenon DEF Abstract!Stop
<1>6. Abstract!Start <=> ~ Up /\ Up' = TRUE /\ Versions' = Versions
    BY Zenon DEF Abstract!Start
<1> QED
    BY <1>1, <1>2, <1>3, <1>4, <1>5, <1>6, Zenon

\* The versions are those a crash may fall back to.
LEMMA VersionFacts ==
    ASSUME ShardAssumption, NEW b \in Maps, NEW f \in Seq(Frame), NEW s \in Nat, s <= Len(f)
    PROVE  /\ VersionsOf(b, f, s) \in Seq(PlainMaps)
           /\ Len(VersionsOf(b, f, s)) = Len(f) - s + 1
           /\ \A i \in 1 .. Len(f) - s + 1 : VersionsOf(b, f, s)[i] = Plain(ApplyWalEntry(b, f)[s + i - 1])
<1> DEFINE g == ApplyWalEntry(b, f)
           n == Len(f) - s + 1
           v == VersionsOf(b, f, s)
<1>1. Len(f) \in Nat
    BY LenProperties
<1>2. \A i \in 0 .. Len(f) : Plain(g[i]) \in PlainMaps
  <2> SUFFICES ASSUME NEW i \in 0 .. Len(f) PROVE Plain(g[i]) \in PlainMaps
    OBVIOUS
  <2>1. g[i] \in Maps
    BY ReplayFacts
  <2>2. \A m \in Metas : m.val \in 0 .. MaxOps
    BY DEF Metas, None, ShardAssumption
  <2> QED
    BY <2>1, <2>2 DEF Plain, PlainMaps, Maps
<1>3. n \in Nat /\ \A i \in 1 .. n : s + i - 1 \in 0 .. Len(f)
    BY <1>1
<1>4. v = [i \in 1 .. n |-> Plain(g[s + i - 1])]
    BY DEF VersionsOf
<1> HIDE DEF n, g, v
<1>5. \A i \in 1 .. n : Plain(g[s + i - 1]) \in PlainMaps
    BY <1>2, <1>3
<1>6. v \in [1 .. n -> PlainMaps] /\ \A i \in 1 .. n : v[i] = Plain(g[s + i - 1])
    BY <1>4, <1>5, Zenon
<1>7. v \in Seq(PlainMaps) /\ Len(v) = n
    BY <1>3, <1>6
<1> QED
    BY <1>6, <1>7 DEF n, g, v

\* The versions before a step.
LEMMA VersionsNow ==
    ASSUME ShardAssumption, LogTyped
    PROVE  /\ Len(frames) \in Nat /\ synced \in Nat /\ synced <= Len(frames)
           /\ Versions \in Seq(PlainMaps)
           /\ Len(Versions) = Len(frames) - synced + 1
           /\ \A i \in 1 .. Len(frames) - synced + 1 : Versions[i] = Plain(After[synced + i - 1])
<1>1. base \in Maps /\ frames \in Seq(Frame) /\ Len(frames) \in Nat /\ synced \in Nat /\ synced <= Len(frames)
    BY LenProperties DEF LogTyped
<1> QED
    BY <1>1, VersionFacts DEF Versions, After

\* The versions after a step.
LEMMA VersionsNext ==
    ASSUME ShardAssumption, LogTyped'
    PROVE  /\ Len(frames') \in Nat /\ synced' \in Nat /\ synced' <= Len(frames')
           /\ Versions' \in Seq(PlainMaps)
           /\ Len(Versions') = Len(frames') - synced' + 1
           /\ \A i \in 1 .. Len(frames') - synced' + 1 : Versions'[i] = Plain(After'[synced' + i - 1])
<1>1. base' \in Maps /\ frames' \in Seq(Frame) /\ Len(frames') \in Nat /\ synced' \in Nat /\ synced' <= Len(frames')
    BY LenProperties DEF LogTyped
<1> QED
    BY <1>1, VersionFacts DEF Versions, After

\* A sequence that lists the m-th to the n-th element of another one.
LEMMA IsSubSeq ==
    ASSUME NEW S, NEW v \in Seq(S), NEW w \in Seq(S), NEW m \in Nat, NEW n \in Nat,
           1 <= m, m <= n, n <= Len(v), Len(w) = n - m + 1,
           \A i \in 1 .. n - m + 1 : w[i] = v[m + i - 1]
    PROVE  w = SubSeq(v, m, n)
<1>1. \A i \in m .. n : v[i] \in S
    BY ElementOfSeq
<1>2. /\ SubSeq(v, m, n) \in Seq(S)
      /\ Len(SubSeq(v, m, n)) = n - m + 1
      /\ \A i \in 1 .. n - m + 1 : SubSeq(v, m, n)[i] = v[m + i - 1]
    BY <1>1, SubSeqProperties
<1> QED
    BY <1>2, SeqEqual

\* Writing one key.
LEMMA PlainApplied ==
    ASSUME NEW map \in Maps, NEW e \in Frame
    PROVE  Plain(Applied(map, e)) = [Plain(map) EXCEPT ![e.key] = e.meta.val]
  BY DEF Plain, Applied, Maps, Frame

\* LogAppend is a write.
LEMMA AppendIsWrite ==
    ASSUME ShardAssumption, Typed, LogTyped', LogAppend
    PROVE  Abstract!Next
<1> DEFINE e == [key |-> op.key, meta |-> op.meta]
           v == [Plain(After[Len(frames)]) EXCEPT ![op.key] = op.meta.val]
<1>1. op.key \in Keys /\ op.meta \in Metas /\ mode = "up" /\ mode' = "up"
  <2>1. None \in Metas
    BY DEF Metas
  <2> QED
    BY <2>1 DEF LogAppend, At, Typed, OpRight
<1>2. e \in Frame /\ frames' = Append(frames, e) /\ base' = base /\ synced' = synced /\ LogTyped
    BY <1>1 DEF LogAppend, Frame, Typed
<1>3. /\ \A n \in 0 .. Len(frames) : After'[n] = After[n]
      /\ After'[Len(frames) + 1] = Applied(After[Len(frames)], e)
      /\ Len(frames') = Len(frames) + 1
    BY <1>2, AfterAppend
<1>4. /\ Versions \in Seq(PlainMaps)
      /\ Len(frames) \in Nat /\ synced \in Nat /\ synced <= Len(frames)
      /\ Len(Versions) = Len(frames) - synced + 1
      /\ \A i \in 1 .. Len(frames) - synced + 1 : Versions[i] = Plain(After[synced + i - 1])
    BY <1>2, VersionsNow
<1>5. /\ Versions' \in Seq(PlainMaps)
      /\ Len(Versions') = Len(frames') - synced' + 1
      /\ \A i \in 1 .. Len(frames') - synced' + 1 : Versions'[i] = Plain(After'[synced' + i - 1])
    BY VersionsNext
<1>6. Versions[Len(Versions)] = Plain(After[Len(frames)])
    BY <1>4
<1> DEFINE n == Len(frames) - synced + 1
<1>7. n \in Nat /\ n # 0 /\ Len(Versions) = n /\ Len(Versions') = n + 1
    BY <1>2, <1>3, <1>4, <1>5
<1>8. \A i \in 1 .. n : Versions'[i] = Versions[i]
  <2> SUFFICES ASSUME NEW i \in 1 .. n PROVE Versions'[i] = Versions[i]
    OBVIOUS
  <2>1. synced + i - 1 \in 0 .. Len(frames) /\ i \in 1 .. Len(frames') - synced' + 1
    BY <1>2, <1>3, <1>4
  <2>2. Versions'[i] = Plain(After'[synced + i - 1])
    BY <1>2, <1>5, <2>1
  <2> QED
    BY <1>3, <1>4, <2>1, <2>2
<1>9. Versions'[n + 1] = v
  <2>1. After[Len(frames)] \in Maps
    BY <1>2, <1>4, AfterFacts
  <2>2. Versions'[n + 1] = Plain(After'[Len(frames) + 1])
    <3>1. n + 1 \in 1 .. Len(frames') - synced' + 1 /\ synced' + (n + 1) - 1 = Len(frames) + 1
      BY <1>2, <1>3, <1>4
    <3> QED
      BY <1>5, <3>1
  <2>3. e.key = op.key /\ e.meta = op.meta
    OBVIOUS
  <2> HIDE DEF e
  <2> QED
    BY <1>2, <1>3, <2>1, <2>2, <2>3, PlainApplied
<1>10. v \in PlainMaps
    <2>1. n + 1 \in 1 .. Len(Versions')
      BY <1>7
    <2> QED
      BY <1>5, <1>9, <2>1, ElementOfSeq
<1>11. Versions' = Append(Versions, v)
  <2> HIDE DEF v, n
  <2>1. /\ Append(Versions, v) \in Seq(PlainMaps) /\ Len(Append(Versions, v)) = n + 1
        /\ \A i \in 1 .. n : Append(Versions, v)[i] = Versions[i]
        /\ Append(Versions, v)[n + 1] = v
    BY <1>4, <1>7, <1>10, AppendProperties
  <2>2. \A i \in 1 .. n + 1 : i \in 1 .. n \/ i = n + 1
    BY <1>7
  <2>3. \A i \in 1 .. n + 1 : Versions'[i] = Append(Versions, v)[i]
    BY <1>8, <1>9, <2>1, <2>2
  <2> QED
    BY <1>5, <1>7, <2>1, <2>3, SeqEqual
<1>12. op.meta.val \in (1 .. MaxOps) \cup {0}
    BY <1>1 DEF Metas, None
<1>13. Abstract!Write(op.key, op.meta.val)
  <2>1. Up /\ Up' = Up
    BY <1>1 DEF Up
  <2>2. Versions' = Append(Versions, [Versions[Len(Versions)] EXCEPT ![op.key] = op.meta.val])
    BY <1>6, <1>11
  <2> QED
    BY <2>1, <2>2, AbstractSteps, Zenon
<1> QED
    BY <1>1, <1>12, <1>13 DEF Abstract!Next

\* Frames that become durable are versions that cannot come back.
LEMMA SyncIsPersist ==
    ASSUME ShardAssumption, LogTyped, LogTyped', mode = "up", mode' = "up", UNCHANGED <<base, frames>>,
           synced <= synced'
    PROVE  Abstract!Next
<1>1. /\ Len(frames) \in Nat /\ synced \in Nat /\ synced <= Len(frames)
      /\ Versions \in Seq(PlainMaps)
      /\ Len(Versions) = Len(frames) - synced + 1
      /\ \A i \in 1 .. Len(frames) - synced + 1 : Versions[i] = Plain(After[synced + i - 1])
    BY VersionsNow
<1>2. PICK s \in Nat : s = synced' /\ s <= Len(frames) /\ synced <= s
    BY VersionsNext
<1>3. After' = After
    BY DEF After
<1>4. /\ Versions' \in Seq(PlainMaps)
      /\ Len(Versions') = Len(frames) - s + 1
      /\ \A i \in 1 .. Len(frames) - s + 1 : Versions'[i] = Plain(After[s + i - 1])
    BY <1>2, <1>3, VersionsNext
<1> DEFINE m == s - synced + 1
           n == Len(frames) - synced + 1
<1>5. Len(frames) \in Nat /\ synced \in Nat /\ synced <= s /\ s <= Len(frames)
    BY <1>1, <1>2
<1>6. m \in Nat /\ n \in Nat /\ 1 <= m /\ m <= n /\ Len(frames) - s + 1 = n - m + 1
    BY <1>5
<1>7. n <= Len(Versions) /\ Len(Versions') = n - m + 1 /\ n = Len(Versions)
    BY <1>1, <1>4, <1>6
<1>8. \A i \in 1 .. n - m + 1 : Versions'[i] = Versions[m + i - 1]
  <2> SUFFICES ASSUME NEW i \in 1 .. n - m + 1 PROVE Versions'[i] = Versions[m + i - 1]
    OBVIOUS
  <2>1. /\ i \in 1 .. Len(frames) - s + 1 /\ m + i - 1 \in 1 .. Len(frames) - synced + 1
        /\ synced + (m + i - 1) - 1 = s + i - 1
    BY <1>5
  <2> QED
    BY <1>1, <1>4, <2>1
<1> HIDE DEF m, n
<1>9. Versions' = SubSeq(Versions, m, n)
    BY <1>1, <1>4, <1>6, <1>7, <1>8, IsSubSeq
<1>10. Abstract!Persist(m)
  <2>1. Up /\ Up' = Up /\ Versions' = SubSeq(Versions, m, Len(Versions))
    BY <1>7, <1>9 DEF Up
  <2> QED
    BY <2>1, AbstractSteps, Zenon
<1>11. m \in 1 .. Len(Versions)
    BY <1>6, <1>7
<1> QED
    BY <1>10, <1>11 DEF Abstract!Next, Versions, VersionsOf

\* A snapshot makes every version but the present one impossible to come back.
LEMMA SnapshotIsPersist ==
    ASSUME ShardAssumption, LogTyped, LogTyped', mode = "up", mode' = "up",
           base' = After[Len(frames)], frames' = <<>>, synced' = 0
    PROVE  Abstract!Next
<1>1. /\ Len(frames) \in Nat /\ synced \in Nat /\ synced <= Len(frames)
      /\ Versions \in Seq(PlainMaps)
      /\ Len(Versions) = Len(frames) - synced + 1
      /\ \A i \in 1 .. Len(frames) - synced + 1 : Versions[i] = Plain(After[synced + i - 1])
    BY VersionsNow
<1> DEFINE n == Len(frames) - synced + 1
<1>2. Len(frames) \in Nat /\ synced \in Nat /\ synced <= Len(frames)
    BY <1>1
<1>3. n \in Nat /\ 1 <= n /\ n \in 1 .. n /\ synced + n - 1 = Len(frames) /\ n - n + 1 = 1
    BY <1>2
<1>4. Len(Versions) = n /\ Versions[n] = Plain(After[Len(frames)])
    BY <1>1, <1>3
<1>5. Len(frames') = 0 /\ frames' \in Seq(Frame) /\ base' \in Maps
    BY DEF LogTyped
<1>6. After'[0] = base'
    BY <1>5, ReplayFacts DEF After
<1>7. Versions' \in Seq(PlainMaps) /\ Len(Versions') = 1 /\ Versions'[1] = Plain(base')
  <2>1. /\ Versions' \in Seq(PlainMaps) /\ Len(Versions') = Len(frames') - synced' + 1
        /\ \A i \in 1 .. Len(frames') - synced' + 1 : Versions'[i] = Plain(After'[synced' + i - 1])
    BY VersionsNext
  <2>2. Len(frames') - synced' + 1 = 1 /\ synced' + 1 - 1 = 0
    BY <1>5
  <2>3. Versions'[1] = Plain(After'[0])
    BY <2>1, <2>2
  <2> QED
    BY <1>6, <2>1, <2>2, <2>3
<1>8. \A i \in 1 .. n - n + 1 : Versions'[i] = Versions[n + i - 1]
  <2>1. \A i \in 1 .. n - n + 1 : i = 1 /\ n + i - 1 = n
    BY <1>3
  <2>2. Versions'[1] = Versions[n]
    BY <1>4, <1>7
  <2> HIDE DEF n
  <2> QED
    BY <2>1, <2>2
<1> HIDE DEF n
<1>9. Versions' = SubSeq(Versions, n, n)
    BY <1>1, <1>3, <1>4, <1>7, <1>8, IsSubSeq
<1>10. Abstract!Persist(n)
  <2>1. Up /\ Up' = Up /\ Versions' = SubSeq(Versions, n, Len(Versions))
    BY <1>4, <1>9 DEF Up
  <2> QED
    BY <2>1, AbstractSteps, Zenon
<1>11. n \in 1 .. Len(Versions)
    BY <1>3, <1>4
<1> QED
    BY <1>10, <1>11 DEF Abstract!Next, Versions, VersionsOf

\* The end of a life loses the newest versions only.
LEMMA LandIsStop ==
    ASSUME ShardAssumption, LogTyped, LogTyped', Sound, ~ haunted, mode' = "down",
           NEW n \in Nat, NEW keep \in Nat, synced <= keep, keep <= n, n <= Len(frames), Land(n, keep)
    PROVE  Abstract!Next
<1>1. PICK a \in 0 .. Len(frames) :
              /\ Len(frames') = (IF a > n THEN a ELSE n) - a
              /\ \A i \in 1 .. Len(frames') : frames'[i] = frames[a + i]
              /\ synced' = (IF a > keep THEN a ELSE keep) - a
              /\ spare' = <<>>
              /\ \A m \in 0 .. Len(frames') : After'[m] = After[a + m]
              /\ Len(frames') \in Nat /\ a + Len(frames') <= Len(frames)
    BY LandReplay, Zenon
<1>2. /\ Len(frames) \in Nat /\ synced \in Nat /\ synced <= Len(frames)
      /\ Versions \in Seq(PlainMaps)
      /\ Len(Versions) = Len(frames) - synced + 1
      /\ \A i \in 1 .. Len(frames) - synced + 1 : Versions[i] = Plain(After[synced + i - 1])
    BY VersionsNow
<1>3. /\ Len(frames') \in Nat /\ synced' \in Nat /\ synced' <= Len(frames')
      /\ Versions' \in Seq(PlainMaps)
      /\ Len(Versions') = Len(frames') - synced' + 1
      /\ \A i \in 1 .. Len(frames') - synced' + 1 : Versions'[i] = Plain(After'[synced' + i - 1])
    BY VersionsNext
<1> DEFINE first == IF a > keep THEN a ELSE keep
           last == IF a > n THEN a ELSE n
           m1 == first - synced + 1
           n1 == last - synced + 1
           s1 == synced'
           l1 == Len(frames')
<1>4. /\ Len(frames) \in Nat /\ synced \in Nat /\ a \in Nat /\ a <= Len(frames)
      /\ s1 \in Nat /\ l1 \in Nat /\ s1 = first - a /\ l1 = last - a
    BY <1>1, <1>2, <1>3
<1>5. first \in Nat /\ last \in Nat /\ synced <= first /\ first <= last /\ last <= Len(frames)
    BY <1>4
<1> HIDE DEF first, last, s1, l1
<1>6. /\ m1 \in Nat /\ n1 \in Nat /\ 1 <= m1 /\ m1 <= n1 /\ n1 <= Len(frames) - synced + 1
      /\ l1 - s1 + 1 = n1 - m1 + 1
    BY <1>4, <1>5
<1>7. \A i \in 1 .. n1 - m1 + 1 : Versions'[i] = Versions[m1 + i - 1]
  <2> SUFFICES ASSUME NEW i \in 1 .. n1 - m1 + 1 PROVE Versions'[i] = Versions[m1 + i - 1]
    OBVIOUS
  <2>1. /\ i \in 1 .. l1 - s1 + 1 /\ s1 + i - 1 \in 0 .. l1
        /\ m1 + i - 1 \in 1 .. Len(frames) - synced + 1
        /\ a + (s1 + i - 1) = synced + (m1 + i - 1) - 1
    BY <1>4, <1>5
  <2>2. Versions'[i] = Plain(After'[s1 + i - 1])
    BY <1>3, <2>1 DEF s1, l1
  <2>3. After'[s1 + i - 1] = After[a + (s1 + i - 1)]
    BY <1>1, <2>1 DEF l1
  <2>4. Versions[m1 + i - 1] = Plain(After[synced + (m1 + i - 1) - 1])
    BY <1>2, <2>1
  <2> QED
    BY <2>1, <2>2, <2>3, <2>4
<1>8. Len(Versions') = n1 - m1 + 1
    BY <1>3, <1>6 DEF s1, l1
<1> HIDE DEF m1, n1
<1>9. Versions' = SubSeq(Versions, m1, n1)
  <2>1. n1 <= Len(Versions)
    BY <1>2, <1>6
  <2> QED
    BY <1>2, <1>3, <1>6, <1>7, <1>8, <2>1, IsSubSeq, Zenon
<1>10. Abstract!Stop(m1, n1)
  <2>1. Up' = FALSE
    BY DEF Up
  <2> QED
    BY <1>9, <2>1, AbstractSteps, Zenon
<1>11. n1 \in 1 .. Len(Versions) /\ m1 \in 1 .. n1
    BY <1>2, <1>6
<1> QED
    BY <1>10, <1>11 DEF Abstract!Next, Versions, VersionsOf

\* Every step of a log that is not haunted is a step of the versioned map, or changes
\* neither its versions nor whether it is open.
LEMMA StepIsAbstract ==
    ASSUME ShardAssumption, Right, LogTyped', Next, ~ haunted
    PROVE  Abstract!Next \/ UNCHANGED <<Versions, Up>>
<1> USE DEF log, values, memory, ghost, count
<1>0. /\ Typed /\ Agrees /\ Sound /\ LogTyped /\ OpRight /\ Len(frames) \in Nat /\ synced \in Nat /\ written \in Nat
      /\ synced <= written /\ written <= Len(frames)
    BY LenProperties DEF Right, Typed, LogTyped
<1>a. ASSUME UNCHANGED <<base, frames, synced, mode>> PROVE UNCHANGED <<Versions, Up>>
    BY <1>a DEF Versions, Up
<1>1. ASSUME NEW k \in Keys, ExecutePut(k) \/ ExecuteDelete(k) PROVE UNCHANGED <<Versions, Up>>
    BY <1>a, <1>1 DEF ExecutePut, ExecuteDelete
<1>2. CASE ValueWritten \/ ValueFails \/ LogFull \/ LogWrite
    BY <1>a, <1>2 DEF ValueWritten, ValueFails, LogFull, LogWrite
<1>3. CASE LogAppend
    BY <1>0, <1>3, AppendIsWrite
<1>4. CASE LogRetries
  <2>1. /\ mode = "up" /\ mode' = "up" /\ UNCHANGED <<base, frames>>
        /\ (synced' = synced \/ synced' = Len(frames))
    BY <1>4 DEF LogRetries, At
  <2> QED
    BY <1>0, <2>1, SyncIsPersist
<1>5. CASE LogSync \/ FlushSync
  <2>1. /\ mode = "up" /\ mode' = "up" /\ UNCHANGED <<base, frames>>
        /\ (synced' = synced \/ synced' = written)
    BY <1>5 DEF LogSync, FlushSync, At
  <2> QED
    BY <1>0, <2>1, SyncIsPersist
<1>6. CASE Apply \/ ExecuteSnapshot \/ CloseDc
    BY <1>a, <1>6 DEF Apply, ExecuteSnapshot, CloseDc
<1>7. ASSUME NEW l \in Levels, ExecuteSetWalLevel(l) PROVE UNCHANGED <<Versions, Up>>
    BY <1>a, <1>7 DEF ExecuteSetWalLevel
<1>8. CASE FlushNothing \/ FlushWrite \/ SnapshotBegins
    BY <1>a, <1>8 DEF FlushNothing, FlushWrite, SnapshotBegins
<1>9. CASE SnapshotEnds
  <2>1. mode = "up" /\ mode' = "up" /\ pc = "snapshot_sync" /\ spare[1].map = index
    BY <1>0, <1>9 DEF SnapshotEnds, At, OpRight
  <2>2. CASE SnapshotTaken
    <3>1. base' = index /\ frames' = <<>> /\ synced' = 0
      BY <2>1, <2>2 DEF SnapshotTaken
    <3>2. After[Len(frames)] = index
      BY <1>0, <2>1 DEF Agrees
    <3> QED
      BY <1>0, <2>1, <3>1, <3>2, SnapshotIsPersist
  <2>3. CASE UNCHANGED log
    BY <1>a, <2>1, <2>3
  <2> QED
    BY <1>9, <2>2, <2>3 DEF SnapshotEnds
<1>10. CASE Closed \/ Killed
  <2>1. Land(written, synced) /\ mode' = "down"
    BY <1>10 DEF Closed, Killed, Down
  <2> QED
    BY <1>0, <2>1, LandIsStop
<1>11. CASE PowerFails
  <2>1. mode' = "down"
    BY <1>11 DEF PowerFails, Down
  <2>2. PICK n \in synced .. written : Land(n, n)
    BY <1>11 DEF PowerFails
  <2>3. n \in Nat /\ synced <= n /\ n <= n /\ n <= Len(frames)
    BY <1>0
  <2> QED
    BY <1>0, <2>1, <2>2, <2>3, LandIsStop
<1>12. CASE RecoverDevice
  <2>1. UNCHANGED <<base, frames, synced>> /\ mode = "down" /\ mode' \in {"up", "refused"}
    BY <1>12 DEF RecoverDevice
  <2>2. Versions' = Versions /\ ~ Up
    BY <2>1 DEF Versions, Up
  <2>3. CASE mode' = "up"
    <3>1. Up' = TRUE
      BY <2>3 DEF Up
    <3>2. Abstract!Start
      BY <2>2, <3>1, AbstractSteps, Zenon
    <3> QED
      BY <3>2 DEF Abstract!Next
  <2>4. CASE mode' = "refused"
    BY <2>1, <2>2, <2>4 DEF Up
  <2> QED
    BY <2>1, <2>3, <2>4
<1> QED
    BY <1>1, <1>2, <1>3, <1>4, <1>5, <1>6, <1>7, <1>8, <1>9, <1>10, <1>11, <1>12 DEF Next

\* ImplementsVersionedMap: whatever fails and whenever a crash comes, the shard behaves
\* like the versioned map: a step writes one key, makes versions durable or ends a life,
\* and only the end of a life loses versions, the newest ones; steps of a log with the
\* frame of an operation that was reported as failed are left out.
THEOREM ShardImplementsMap == Spec => ImplementsVersionedMap
<1>1. Init => Abstract!Init
  <2> SUFFICES ASSUME Init PROVE Abstract!Init
    OBVIOUS
  <2>1. LogTyped
    BY RightInit, ShardAssumption DEF Right, Typed
  <2>2. Len(frames) = 0 /\ synced = 0 /\ mode = "up" /\ base = [k \in Keys |-> None]
    BY DEF Init
  <2>3. After[0] = base
    BY <2>1, AfterFacts
  <2>4. Plain(base) = [k \in Keys |-> 0]
    BY <2>2 DEF Plain, None
  <2>5. Versions \in Seq(PlainMaps) /\ Len(Versions) = 1 /\ Versions[1] = Plain(After[0])
    BY <2>1, <2>2, VersionsNow, ShardAssumption
  <2>6. Versions = <<[k \in Keys |-> 0]>>
    BY <2>3, <2>4, <2>5
  <2>7. Up = TRUE
    BY <2>2 DEF Up
  <2> QED
    BY <2>6, <2>7, AbstractSteps, Zenon
<1>2. Right /\ Right' /\ [Next]_vars => [Abstract!Next \/ haunted]_(Abstract!vars)
  <2> SUFFICES ASSUME Right, Right', [Next]_vars
               PROVE  Abstract!Next \/ haunted \/ UNCHANGED <<Versions, Up>>
    BY Zenon DEF Abstract!vars, Versions, VersionsOf, Up
  <2>1. CASE UNCHANGED vars
    BY <2>1 DEF vars, log, Versions, Up
  <2>2. CASE Next
    BY <2>2, StepIsAbstract, ShardAssumption DEF Right, Typed
  <2> QED
    BY <2>1, <2>2
<1> QED
    BY <1>1, <1>2, Invariance, PTL DEF Spec, ImplementsVersionedMap

---------------------------------------------------------------------------
(* Values.                                                                 *)

\* The entries of map find their values, durably if they were written with FUA, but for
\* the damaged ones.
Intact(map, d, l, lost) ==
    \A k \in Keys : map[k] # None /\ map[k].val \notin lost =>
        /\ d[map[k].block] = map[k].val
        /\ map[k].fua => l[map[k].block] = {}

\* The step before a synchronisation has written the whole log.
Ready ==
    /\ replayed \in Nat
    /\ pc \in {"log_sync", "flush_sync"} => written = Len(frames)

\* Without the frame of the present operation the log rebuilds the index.
Earlier ==
    mode = "up" /\ ~ haunted /\ pc \in {"log_write", "log_sync"} =>
        Len(frames) # 0 /\ After[Len(frames) - 1] = index

\* At a level that synchronises the log, and wherever a Flush has nothing to do, no frame
\* but the present one waits to be synchronised.
Drained ==
    mode = "up" /\ ~ haunted /\ replayed <= synced =>
        IF pc \in {"log_write", "log_sync"} THEN IsWalSyncLevel(level) => synced = Len(frames) - 1
        ELSE IsWalSyncLevel(level) \/ passed = Len(frames) => synced = Len(frames)

\* The index finds its values, and the Put being executed its own.
Stored ==
    mode = "up" =>
        /\ Intact(index, disk, loose, damaged)
        /\ op.kind = "put" /\ pc # "write" =>
              /\ disk[op.meta.block] = op.meta.val
              /\ op.meta.fua => loose[op.meta.block] = {}

\* What a recovery is going to build finds its values.
Found == mode = "down" => Intact(After[Len(frames)], disk, loose, damaged)

\* ValuesKept, for every length the log may have.
Recoverable ==
    IsWalSyncLevel(level) /\ replayed <= synced /\ ~ haunted =>
        \A n \in synced .. Len(frames) : Intact(After[n], disk, loose, damaged)
Kept == mode = "down" => Recoverable

Valued == Ready /\ Earlier /\ Drained /\ Stored /\ Found /\ Kept

\* Ready and Drained are kept.
LEMMA DrainedStep ==
    ASSUME Right, Right', Ready, Drained, Next
    PROVE  Ready' /\ Drained'
<1> USE DEF log, values, memory, ghost, count
<1>0. /\ Len(frames) \in Nat /\ synced \in Nat /\ written \in Nat /\ passed \in Nat /\ replayed \in Nat
      /\ synced <= written /\ written <= Len(frames) /\ passed <= written /\ OpRight
    BY LenProperties DEF Right, Typed, LogTyped, Ready
<1>1. Len(frames') \in Nat /\ synced' \in Nat /\ synced' <= Len(frames')
    BY LenProperties DEF Right, Typed, LogTyped
<1>a. ASSUME UNCHANGED <<level, mode, frames, synced, written, passed, replayed>>, haunted' = haunted \/ haunted' = TRUE,
             pc \notin {"log_write", "log_sync"}, pc' \notin {"log_write", "log_sync"},
             pc' = "flush_sync" => pc = "flush_sync"
      PROVE  Ready' /\ Drained'
    BY <1>a DEF Ready, Drained
<1>2. ASSUME NEW k \in Keys, ExecutePut(k) \/ ExecuteDelete(k) PROVE Ready' /\ Drained'
    BY <1>a, <1>2 DEF ExecutePut, ExecuteDelete, Call, At
<1>3. CASE ValueWritten \/ ValueFails \/ LogFull
    BY <1>a, <1>3 DEF ValueWritten, ValueFails, LogFull, GiveUp, Return, At, Goto
<1>4. CASE LogAppend
  <2>1. /\ Len(frames') = Len(frames) + 1
        /\ UNCHANGED <<level, mode, synced, written, passed, replayed, haunted>>
        /\ pc = "log" /\ mode = "up"
        /\ IF IsWalSyncLevel(level) THEN pc' = "log_write" ELSE pc' \in {"log_write", "apply"}
    <3>1. frames \in Seq(Frame)
      BY DEF Right, Typed, LogTyped
    <3> QED
      BY <1>4, <3>1 DEF LogAppend, At, Goto
  <2>2. Ready'
    BY <1>0, <2>1 DEF Ready
  <2>3. Drained'
    BY <1>0, <2>1 DEF Drained
  <2> QED
    BY <2>2, <2>3
<1>5. CASE LogRetries
  <2>1. /\ pc = "log" /\ mode = "up" /\ pc' \in {"log", "idle"} /\ UNCHANGED <<level, mode, frames, replayed, haunted>>
        /\ passed < Len(frames)
        /\ (synced' = Len(frames) \/ (synced' = synced /\ passed' = passed))
        /\ ~ IsWalSyncLevel(level)
    BY <1>5 DEF LogRetries, At, GiveUp, Return
  <2> QED
    BY <1>0, <2>1 DEF Ready, Drained
<1>6. CASE LogWrite
  <2>1. /\ pc = "log_write" /\ mode = "up" /\ UNCHANGED <<level, mode, frames, replayed, synced>>
        /\ \/ pc' = "log_sync" /\ written' = Len(frames) /\ haunted' = haunted
           \/ pc' = "idle" /\ haunted' = TRUE
    BY <1>6 DEF LogWrite, At, GiveUp, Return, Goto
  <2> QED
    BY <1>0, <2>1 DEF Ready, Drained
<1>7. CASE LogSync
  <2>1. /\ pc = "log_sync" /\ mode = "up" /\ UNCHANGED <<level, mode, frames, replayed>>
        /\ \/ pc' = "apply" /\ synced' = written
           \/ pc' = "idle" /\ haunted' = TRUE
    BY <1>7 DEF LogSync, At, GiveUp, Return, Goto
  <2> QED
    BY <1>0, <2>1 DEF Ready, Drained
<1>8. CASE Apply \/ ExecuteSnapshot \/ CloseDc \/ SnapshotBegins
    BY <1>a, <1>8 DEF Apply, ExecuteSnapshot, CloseDc, SnapshotBegins, Call, Return, At, Goto
<1>9. ASSUME NEW l \in Levels, ExecuteSetWalLevel(l) PROVE Ready' /\ Drained'
  <2>1. /\ pc = "idle" /\ mode = "up" /\ UNCHANGED <<mode, frames, synced, written, passed, replayed, haunted>>
        /\ pc' \in {"idle", "flush"} /\ (IsWalSyncLevel(level') => IsWalSyncLevel(level))
    BY <1>9 DEF ExecuteSetWalLevel, Call, At
  <2> QED
    BY <1>0, <2>1 DEF Ready, Drained
<1>b. Flushed => pc' \in {"idle", "closed", "snapshot"}
    BY DEF Flushed, Return, Goto
<1>10. CASE FlushNothing
  <2>1. /\ pc = "flush" /\ mode = "up" /\ UNCHANGED <<mode, frames, synced, written, passed, replayed, haunted>>
        /\ pc' \in {"idle", "closed", "snapshot"} /\ (IsWalSyncLevel(level) \/ passed = Len(frames))
    BY <1>10, <1>b DEF FlushNothing, At
  <2> QED
    BY <1>0, <2>1 DEF Ready, Drained
<1>11. CASE FlushWrite
  <2>1. /\ pc = "flush" /\ mode = "up" /\ UNCHANGED <<level, mode, frames, synced, passed, replayed, haunted>>
        /\ \/ pc' = "flush_sync" /\ written' = Len(frames)
           \/ pc' \in {"idle", "closed"}
    BY <1>11 DEF FlushWrite, FlushFails, GiveUp, Return, Goto, At
  <2> QED
    BY <1>0, <2>1 DEF Ready, Drained
<1>12. CASE FlushSync
  <2>1. /\ pc = "flush_sync" /\ mode = "up" /\ UNCHANGED <<mode, frames, replayed, haunted>>
        /\ pc' \in {"idle", "closed", "snapshot"}
        /\ (synced' = written \/ UNCHANGED <<synced, passed, level>>)
    BY <1>12, <1>b DEF FlushSync, FlushFails, GiveUp, Return, Goto, At
  <2> QED
    BY <1>0, <2>1 DEF Ready, Drained
<1>13. CASE SnapshotEnds
  <2>1. pc = "snapshot_sync" /\ mode = "up" /\ UNCHANGED <<level, mode>> /\ pc' \in {"idle", "log"}
    BY <1>13 DEF SnapshotEnds, SnapshotTaken, GiveUp, Return, Goto, At
  <2>2. CASE SnapshotTaken
    <3>1. frames' = <<>> /\ synced' = 0 /\ replayed' = 0 /\ Len(frames') = 0
      BY <2>2 DEF SnapshotTaken
    <3> QED
      BY <2>1, <3>1 DEF Ready, Drained
  <2>3. CASE UNCHANGED <<log, replayed, haunted>>
    BY <1>a, <2>1, <2>3
  <2> QED
    BY <1>13, <2>2, <2>3 DEF SnapshotEnds
<1>14. CASE Closed \/ Killed \/ PowerFails
  <2>1. mode' = "down" /\ pc' = "idle" /\ (replayed' = Len(frames') \/ replayed' = 0)
    BY <1>14 DEF Closed, Killed, PowerFails, Down, Return
  <2> QED
    BY <1>1, <2>1 DEF Ready, Drained
<1>15. CASE RecoverDevice
  <2>1. /\ pc = "idle" /\ UNCHANGED <<pc, frames, synced>>
        /\ \/ mode' = "up" /\ replayed' = Len(frames)
           \/ mode' = "refused" /\ replayed' = replayed
    BY <1>0, <1>15 DEF RecoverDevice, OpRight
  <2> QED
    BY <1>0, <2>1 DEF Ready, Drained
<1> QED
    BY <1>2, <1>3, <1>4, <1>5, <1>6, <1>7, <1>8, <1>9, <1>10, <1>11, <1>12, <1>13, <1>14, <1>15 DEF Next

\* Earlier is kept.
LEMMA EarlierStep ==
    ASSUME Right, Earlier, Next
    PROVE  Earlier'
<1> USE DEF log, values, memory, ghost, count
<1>0. LogTyped /\ Typed /\ Agrees /\ Len(frames) \in Nat
    BY LenProperties DEF Right, Typed, LogTyped
<1>1. CASE LogAppend
  <2>1. mode = "up" /\ pc = "log" /\ UNCHANGED <<index, haunted, base>>
    BY <1>1 DEF LogAppend, At
  <2>2. [key |-> op.key, meta |-> op.meta] \in Frame
    <3>1. None \in Metas
      BY DEF Metas
    <3> QED
      BY <1>0, <1>1, <3>1 DEF LogAppend, At, Frame, Typed, OpRight
  <2>3. Len(frames') = Len(frames) + 1 /\ After'[Len(frames)] = After[Len(frames)]
    <3>1. frames' = Append(frames, [key |-> op.key, meta |-> op.meta])
      BY <1>1 DEF LogAppend
    <3>2. Len(frames') = Len(frames) + 1 /\ \A n \in 0 .. Len(frames) : After'[n] = After[n]
      BY <1>0, <2>1, <2>2, <3>1, AfterAppend
    <3> QED
      BY <1>0, <3>2
  <2>4. ~ haunted => After[Len(frames)] = index
    BY <1>0, <2>1 DEF Agrees
  <2>5. Len(frames') - 1 = Len(frames) /\ Len(frames') # 0
    BY <1>0, <2>3
  <2> QED
    BY <2>1, <2>3, <2>4, <2>5 DEF Earlier
<1>2. CASE LogWrite
  <2>1. /\ pc = "log_write" /\ mode = "up" /\ UNCHANGED <<base, frames, index>>
        /\ (haunted' = haunted \/ pc' = "idle")
    BY <1>2 DEF LogWrite, At, GiveUp, Return
  <2>2. After' = After
    BY <2>1 DEF After
  <2> QED
    BY <2>1, <2>2 DEF Earlier
<1>3. pc' \notin {"log_write", "log_sync"} => Earlier'
    BY DEF Earlier
<1>4. ASSUME NEW k \in Keys, ExecutePut(k) \/ ExecuteDelete(k) PROVE Earlier'
    BY <1>3, <1>4 DEF ExecutePut, ExecuteDelete, Call
<1>5. CASE ValueWritten \/ ValueFails \/ LogFull \/ LogSync
    BY <1>3, <1>5 DEF ValueWritten, ValueFails, LogFull, LogSync, GiveUp, Return, Goto
<1>6. CASE LogRetries
    BY <1>3, <1>6 DEF LogRetries, GiveUp, Return, At
<1>7. CASE Apply \/ ExecuteSnapshot \/ CloseDc \/ SnapshotBegins
    BY <1>3, <1>7 DEF Apply, ExecuteSnapshot, CloseDc, SnapshotBegins, Call, Return, Goto
<1>8. ASSUME NEW l \in Levels, ExecuteSetWalLevel(l) PROVE Earlier'
    BY <1>3, <1>8 DEF ExecuteSetWalLevel, Call, At
<1>9. CASE FlushNothing \/ FlushWrite \/ FlushSync
    BY <1>3, <1>9 DEF FlushNothing, FlushWrite, FlushSync, Flushed, FlushFails, GiveUp, Return, Goto
<1>10. CASE SnapshotEnds
    BY <1>3, <1>10 DEF SnapshotEnds, SnapshotTaken, GiveUp, Return, Goto
<1>11. CASE Closed \/ Killed \/ PowerFails
    BY <1>3, <1>11 DEF Closed, Killed, PowerFails, Down, Return
<1>12. CASE RecoverDevice
  <2>1. pc' = "idle"
    BY <1>0, <1>12 DEF RecoverDevice, Typed, OpRight
  <2> QED
    BY <1>3, <2>1
<1> QED
    BY <1>1, <1>2, <1>4, <1>5, <1>6, <1>7, <1>8, <1>9, <1>10, <1>11, <1>12 DEF Next

\* Stored is kept.
LEMMA StoredStep ==
    ASSUME ShardAssumption, Right, Stored, Found, Next
    PROVE  Stored'
<1> USE DEF log, values, memory, ghost, count
<1>0. /\ Typed /\ Partitioned /\ LogTyped /\ MemoryTyped /\ OpRight /\ DiskTyped
      /\ index \in Maps /\ free \in Seq(Blocks)
      /\ NoOp.kind = "none"
    BY DEF Right, Typed, MemoryTyped, NoOp
<1>1. \A k \in Keys : index[k] # None => index[k].block \in Blocks
    BY <1>0 DEF Maps, Metas
<1>a. ASSUME mode = "up", UNCHANGED <<index, disk, loose, damaged>>,
             (op' = op /\ pc # "write") \/ op'.kind # "put"
      PROVE  Stored'
    BY <1>a DEF Stored
<1>2. ASSUME NEW k \in Keys, ExecutePut(k) PROVE Stored'
  <2> DEFINE b == Head(free)
  <2>1. /\ mode = "up" /\ pc' = "write" /\ free # <<>> /\ UNCHANGED <<index, disk, damaged>>
        /\ loose' = [loose EXCEPT ![b] = @ \cup {disk[b], 0, ops + 1}]
    BY <1>2 DEF ExecutePut, Call, At
  <2>2. b \in Idle
    BY <1>0, <2>1, ListedTail DEF Partitioned, Idle
  <2>3. \A j \in Keys : index[j].block # b
    BY <1>0, <2>1, <2>2 DEF Partitioned
  <2> HIDE DEF b
  <2>4. \A j \in Keys : index[j] # None => loose'[index[j].block] = loose[index[j].block]
    BY <1>0, <1>1, <2>1, <2>3 DEF DiskTyped
  <2>5. Intact(index, disk, loose, damaged)
    BY <2>1 DEF Stored
  <2>6. Intact(index, disk, loose', damaged)
    BY <2>4, <2>5 DEF Intact
  <2> QED
    BY <2>1, <2>6 DEF Stored
<1>3. ASSUME NEW k \in Keys, ExecuteDelete(k) PROVE Stored'
    BY <1>a, <1>3 DEF ExecuteDelete, Call, At, NoOp
<1>b. ASSUME mode = "up", op.kind = "put"
      PROVE  op.meta.block \in Blocks /\ \A k \in Keys : index[k].block # op.meta.block
  <2>1. op.meta \in Metas \ {None}
    BY <1>0, <1>b DEF OpRight
  <2>2. op.meta.block \in Held
    BY <1>b DEF Held
  <2> QED
    BY <1>0, <1>b, <2>1, <2>2 DEF Partitioned, Metas
<1>4. CASE ValueWritten
  <2> DEFINE b == op.meta.block
  <2>1. /\ mode = "up" /\ op.kind = "put" /\ op' = op /\ UNCHANGED <<index, damaged>>
        /\ disk' = [disk EXCEPT ![b] = op.meta.val]
        /\ loose' = IF op.meta.fua THEN [c \in Blocks |-> {}] ELSE [loose EXCEPT ![b] = @ \ {op.meta.val}]
    BY <1>0, <1>4 DEF ValueWritten, At, Goto, OpRight
  <2>2. b \in Blocks /\ \A k \in Keys : index[k].block # b
    BY <1>b, <2>1
  <2> HIDE DEF b
  <2>3. \A k \in Keys : index[k] # None =>
            /\ disk'[index[k].block] = disk[index[k].block]
            /\ loose'[index[k].block] = loose[index[k].block] \/ loose'[index[k].block] = {}
    BY <1>0, <1>1, <2>1, <2>2 DEF DiskTyped
  <2>4. Intact(index, disk, loose, damaged)
    BY <2>1 DEF Stored
  <2>5. Intact(index, disk', loose', damaged)
    BY <2>3, <2>4 DEF Intact
  <2>6. disk'[b] = op.meta.val /\ (op.meta.fua => loose'[b] = {})
    BY <1>0, <2>1, <2>2 DEF DiskTyped
  <2> QED
    BY <2>1, <2>5, <2>6 DEF Stored, b
<1>5. CASE ValueFails
  <2> DEFINE b == op.meta.block
  <2>1. /\ mode = "up" /\ op.kind = "put" /\ op' = NoOp /\ UNCHANGED <<index, loose, damaged>>
        /\ \E c : disk' = [disk EXCEPT ![b] = c]
    BY <1>0, <1>5 DEF ValueFails, At, GiveUp, Return, OpRight
  <2>2. b \in Blocks /\ \A k \in Keys : index[k].block # b
    BY <1>b, <2>1
  <2> HIDE DEF b
  <2>3. \A k \in Keys : index[k] # None => disk'[index[k].block] = disk[index[k].block]
    BY <1>0, <1>1, <2>1, <2>2 DEF DiskTyped
  <2>4. Intact(index, disk', loose, damaged)
    BY <2>1, <2>3 DEF Stored, Intact
  <2> QED
    BY <1>0, <2>1, <2>4 DEF Stored
<1>6. CASE LogFull
    BY <1>a, <1>6 DEF LogFull, At, Goto
<1>7. CASE LogAppend
    BY <1>a, <1>7 DEF LogAppend, At, Goto
<1>8. CASE LogRetries
    BY <1>0, <1>a, <1>8 DEF LogRetries, At, GiveUp, Return
<1>9. CASE LogWrite
    BY <1>0, <1>a, <1>9 DEF LogWrite, At, GiveUp, Return, Goto
<1>10. CASE LogSync
    BY <1>0, <1>a, <1>10 DEF LogSync, At, GiveUp, Return, Goto
<1>11. CASE Apply
  <2>1. /\ mode = "up" /\ pc = "apply" /\ op.key \in Keys /\ op.kind \in {"put", "delete"}
        /\ index' = [index EXCEPT ![op.key] = op.meta] /\ UNCHANGED <<disk, loose, damaged>>
        /\ op'.kind # "put" /\ (op.kind = "delete" => op.meta = None)
    BY <1>0, <1>11 DEF Apply, At, Return, NoOp, OpRight
  <2>2. \A k \in Keys : index'[k] = IF k = op.key THEN op.meta ELSE index[k]
    BY <1>0, <2>1 DEF Maps
  <2>3. Intact(index, disk, loose, damaged)
    BY <2>1 DEF Stored
  <2>4. op.kind = "put" => disk[op.meta.block] = op.meta.val /\ (op.meta.fua => loose[op.meta.block] = {})
    BY <2>1 DEF Stored
  <2>5. Intact(index', disk, loose, damaged)
    BY <2>1, <2>2, <2>3, <2>4 DEF Intact
  <2> QED
    BY <2>1, <2>5 DEF Stored
<1>12. CASE ExecuteSnapshot
    BY <1>a, <1>12 DEF ExecuteSnapshot, Call, At, NoOp
<1>13. ASSUME NEW l \in Levels, ExecuteSetWalLevel(l) PROVE Stored'
  <2>1. /\ mode = "up" /\ pc = "idle" /\ UNCHANGED <<index, disk, loose, damaged>>
        /\ (op' = op \/ op'.kind = "level")
    BY <1>13 DEF ExecuteSetWalLevel, Call, At, NoOp
  <2> QED
    BY <1>a, <2>1
<1>14. CASE CloseDc
    BY <1>a, <1>14 DEF CloseDc, Call, At, NoOp
<1>c. Flushed => op' = op \/ op' = NoOp
    BY DEF Flushed, Return, Goto
<1>15. CASE FlushNothing
    BY <1>0, <1>a, <1>c, <1>15 DEF FlushNothing, At
<1>16. CASE FlushWrite
    BY <1>0, <1>a, <1>16 DEF FlushWrite, FlushFails, GiveUp, Return, Goto, At
<1>17. CASE FlushSync
    BY <1>0, <1>a, <1>c, <1>17 DEF FlushSync, FlushFails, GiveUp, Return, Goto, At
<1>18. CASE SnapshotBegins
    BY <1>a, <1>18 DEF SnapshotBegins, At, Goto
<1>19. CASE SnapshotEnds
    BY <1>0, <1>a, <1>19 DEF SnapshotEnds, SnapshotTaken, GiveUp, Return, Goto, At
<1>20. CASE Closed \/ Killed \/ PowerFails
    BY <1>20 DEF Closed, Killed, PowerFails, Down, Stored
<1>21. CASE RecoverDevice
  <2>1. mode = "down" /\ UNCHANGED <<op, disk, loose, damaged>> /\ op = NoOp
    BY <1>0, <1>21 DEF RecoverDevice, OpRight
  <2>2. mode' # "up" \/ index' = After[Len(frames)]
    BY <1>21 DEF RecoverDevice, Load, After
  <2>3. Intact(After[Len(frames)], disk, loose, damaged)
    BY <2>1 DEF Found
  <2> QED
    BY <1>0, <2>1, <2>2, <2>3 DEF Stored
<1> QED
    BY <1>2, <1>3, <1>4, <1>5, <1>6, <1>7, <1>8, <1>9, <1>10, <1>11, <1>12, <1>13, <1>14,
       <1>15, <1>16, <1>17, <1>18, <1>19, <1>20, <1>21 DEF Next

\* While the shard is open: what the contract asks of a log is in the index.
LEMMA RecoverableUp ==
    ASSUME Right, Earlier, Drained, Stored, mode = "up"
    PROVE  Recoverable
<1> SUFFICES ASSUME IsWalSyncLevel(level), replayed <= synced, ~ haunted, NEW n \in synced .. Len(frames)
             PROVE  Intact(After[n], disk, loose, damaged)
    BY DEF Recoverable
<1>0. Len(frames) \in Nat /\ synced \in Nat /\ index \in Maps /\ Agrees /\ OpRight
    BY LenProperties DEF Right, Typed, LogTyped, MemoryTyped
<1>1. Intact(index, disk, loose, damaged)
    BY DEF Stored
<1>2. pc \in {"log_write", "log_sync", "apply"} => Intact([index EXCEPT ![op.key] = op.meta], disk, loose, damaged)
  <2> SUFFICES ASSUME pc \in {"log_write", "log_sync", "apply"}
               PROVE  Intact([index EXCEPT ![op.key] = op.meta], disk, loose, damaged)
    OBVIOUS
  <2>1. op.key \in Keys /\ op.kind \in {"put", "delete"} /\ (op.kind = "delete" => op.meta = None)
    BY <1>0 DEF OpRight
  <2>2. op.kind = "put" => disk[op.meta.block] = op.meta.val /\ (op.meta.fua => loose[op.meta.block] = {})
    BY DEF Stored
  <2> DEFINE map == [index EXCEPT ![op.key] = op.meta]
  <2>3. \A k \in Keys : map[k] = IF k = op.key THEN op.meta ELSE index[k]
    BY <1>0, <2>1 DEF Maps
  <2> HIDE DEF map
  <2>4. Intact(map, disk, loose, damaged)
    BY <1>1, <2>1, <2>2, <2>3 DEF Intact
  <2> QED
    BY <2>4 DEF map
<1>3. n = Len(frames) \/ (pc \in {"log_write", "log_sync"} /\ n = Len(frames) - 1)
    BY <1>0 DEF Drained
<1>4. CASE n = Len(frames)
  <2>1. After[n] = IF pc \in {"log_write", "log_sync", "apply"} THEN [index EXCEPT ![op.key] = op.meta] ELSE index
    BY <1>0, <1>4 DEF Agrees
  <2> QED
    BY <1>1, <1>2, <2>1
<1>5. CASE pc \in {"log_write", "log_sync"} /\ n = Len(frames) - 1
    BY <1>1, <1>5 DEF Earlier
<1> QED
    BY <1>3, <1>4, <1>5

\* A life ends: what the contract asks of the log is still there, and everything that is
\* missing elsewhere has been excused.
LEMMA DownStep ==
    ASSUME Right, LogTyped', Ready, Recoverable, NEW n \in Nat, NEW keep \in Nat,
           synced <= keep, keep <= n, n <= Len(frames), Land(n, keep), Down, level' = level,
           IsWalSyncLevel(level) /\ replayed <= synced /\ ~ haunted =>
               \A j \in synced .. Len(frames) : \A k \in Keys :
                   After[j][k] # None /\ After[j][k].val \notin damaged =>
                       /\ After[j][k].fua => /\ disk'[After[j][k].block] = After[j][k].val
                                             /\ loose'[After[j][k].block] = {}
                       /\ keep # n => disk'[After[j][k].block] = After[j][k].val
    PROVE  Found' /\ Kept'
<1> DEFINE strict == IsWalSyncLevel(level) /\ replayed <= synced /\ ~ haunted
           map == After'[Len(frames')]
<1>0. /\ LogTyped /\ Sound /\ Len(frames) \in Nat /\ synced \in Nat /\ replayed \in Nat
      /\ Len(frames') \in Nat /\ synced' \in Nat /\ synced' <= Len(frames')
    BY LenProperties DEF Right, Typed, LogTyped, Ready
<1>1. mode' = "down" /\ haunted' = haunted /\ replayed' = IF synced < replayed THEN Len(frames') ELSE 0
    BY DEF Down
<1>2. /\ damaged \subseteq damaged'
      /\ \A k \in Keys : map[k] # None /\ map[k].val \notin damaged' =>
            \/ disk'[map[k].block] = map[k].val /\ (map[k].fua => loose'[map[k].block] = {})
            \/ map[k].fua /\ strict
  <2>1. damaged' = damaged \cup Excused
    BY DEF Down
  <2>2. SUFFICES ASSUME NEW k \in Keys, map[k] # None, map[k].val \notin Excused
                 PROVE  \/ disk'[map[k].block] = map[k].val /\ (map[k].fua => loose'[map[k].block] = {})
                        \/ map[k].fua /\ strict
    BY <2>1
  <2>3. ~ (/\ disk'[map[k].block] # map[k].val \/ (map[k].fua /\ loose'[map[k].block] # {})
           /\ ~ map[k].fua \/ ~ IsWalSyncLevel(level) \/ synced < replayed \/ haunted)
    BY <2>2, Zenon DEF Excused, After
  <2> QED
    BY <1>0, <2>3
<1>3. strict => \E a \in 0 .. Len(frames) :
                   /\ \A j \in synced' .. Len(frames') : a + j \in synced .. Len(frames) /\ After'[j] = After[a + j]
                   /\ keep = n => synced' = Len(frames')
  <2> SUFFICES ASSUME strict
               PROVE  \E a \in 0 .. Len(frames) :
                   /\ \A j \in synced' .. Len(frames') : a + j \in synced .. Len(frames) /\ After'[j] = After[a + j]
                   /\ keep = n => synced' = Len(frames')
    OBVIOUS
  <2>1. PICK a \in 0 .. Len(frames) :
              /\ Len(frames') = (IF a > n THEN a ELSE n) - a
              /\ \A i \in 1 .. Len(frames') : frames'[i] = frames[a + i]
              /\ synced' = (IF a > keep THEN a ELSE keep) - a
              /\ spare' = <<>>
              /\ \A m \in 0 .. Len(frames') : After'[m] = After[a + m]
              /\ Len(frames') \in Nat /\ a + Len(frames') <= Len(frames)
    BY <1>0, LandReplay
  <2> DEFINE s1 == synced'
             l1 == Len(frames')
  <2>2. /\ a \in Nat /\ l1 \in Nat /\ s1 \in Nat /\ a + l1 <= Len(frames) /\ synced <= keep
        /\ s1 = (IF a > keep THEN a ELSE keep) - a /\ l1 = (IF a > n THEN a ELSE n) - a
    BY <1>0, <2>1
  <2>3. \A m \in 0 .. l1 : After'[m] = After[a + m]
    BY <2>1
  <2> HIDE DEF s1, l1
  <2>4. \A j \in s1 .. l1 : j \in 0 .. l1 /\ a + j \in synced .. Len(frames)
    BY <1>0, <2>2
  <2>5. keep = n => s1 = l1
    BY <2>2
  <2> QED
    BY <2>3, <2>4, <2>5 DEF s1, l1
<1>4. strict => \A j \in synced' .. Len(frames') : \A k \in Keys :
                   After'[j][k] # None /\ After'[j][k].val \notin damaged' =>
                       /\ After'[j][k].fua => /\ disk'[After'[j][k].block] = After'[j][k].val
                                              /\ loose'[After'[j][k].block] = {}
                       /\ keep # n => disk'[After'[j][k].block] = After'[j][k].val
    BY <1>2, <1>3
<1>5. Found'
  <2> SUFFICES ASSUME NEW k \in Keys, map[k] # None, map[k].val \notin damaged'
               PROVE  disk'[map[k].block] = map[k].val /\ (map[k].fua => loose'[map[k].block] = {})
    BY DEF Found, Intact
  <2>1. Len(frames') \in synced' .. Len(frames')
    BY <1>0
  <2> QED
    BY <1>2, <1>4, <2>1
<1>6. Kept'
  <2> SUFFICES ASSUME IsWalSyncLevel(level), replayed' <= synced', ~ haunted,
                      NEW j \in synced' .. Len(frames')
               PROVE  Intact(After'[j], disk', loose', damaged')
    BY <1>1 DEF Kept, Recoverable
  <2>1. Intact(map, disk', loose', damaged')
    BY <1>1, <1>5 DEF Found
  <2>2. CASE j = Len(frames')
    BY <2>1, <2>2
  <2>3. CASE j # Len(frames')
    <3>1. synced' # Len(frames')
      BY <1>0, <2>3
    <3>2. strict
      BY <1>0, <1>1, <3>1
    <3>3. keep # n
      BY <1>3, <3>1, <3>2
    <3> HIDE DEF strict, map
    <3> QED
      BY <1>4, <3>2, <3>3 DEF Intact
  <2> QED
    BY <2>2, <2>3
<1> QED
    BY <1>5, <1>6

\* Found and Kept are kept.
LEMMA KeptStep ==
    ASSUME ShardAssumption, Right, Right', Valued, Next
    PROVE  Found' /\ Kept'
<1> USE DEF log, values, memory, ghost, count
<1>0. /\ Len(frames) \in Nat /\ synced \in Nat /\ written \in Nat /\ synced <= written /\ written <= Len(frames)
      /\ LogTyped' /\ Typed /\ Partitioned /\ Ready /\ OpRight /\ DiskTyped /\ LogTyped
    BY LenProperties DEF Right, Typed, LogTyped, Valued
<1>1. mode \in {"up", "down"} => Recoverable
    BY RecoverableUp DEF Valued, Kept
<1>2. CASE mode' # "down"
    BY <1>2 DEF Found, Kept
<1>3. ASSUME mode \in {"up", "down"},
             UNCHANGED <<disk, loose>> PROVE
           IsWalSyncLevel(level) /\ replayed <= synced /\ ~ haunted =>
               \A j \in synced .. Len(frames) : \A k \in Keys :
                   After[j][k] # None /\ After[j][k].val \notin damaged =>
                       /\ After[j][k].fua => /\ disk'[After[j][k].block] = After[j][k].val
                                             /\ loose'[After[j][k].block] = {}
                       /\ synced # written => disk'[After[j][k].block] = After[j][k].val
    BY <1>1, <1>3 DEF Recoverable, Intact
<1>4. CASE Closed
  <2>1. mode = "up" /\ UNCHANGED <<disk, loose, level>> /\ Down /\ Land(written, synced)
    BY <1>4 DEF Closed, At
  <2> QED
    BY <1>0, <1>1, <1>3, <2>1, DownStep
<1>5. CASE Killed
  <2>1. mode = "up" /\ loose' = loose /\ level' = level /\ Down /\ Land(written, synced)
    BY <1>5 DEF Killed
  <2>2. \/ pc # "write" /\ disk' = disk
        \/ pc = "write" /\ \E c : disk' = [disk EXCEPT ![op.meta.block] = c]
    BY <1>5 DEF Killed
  <2>3. CASE disk' = disk
    BY <1>0, <1>1, <1>3, <2>1, <2>3, DownStep
  <2>4. CASE pc = "write" /\ \E c : disk' = [disk EXCEPT ![op.meta.block] = c]
    <3> DEFINE b == op.meta.block
    <3>1. b \in Blocks /\ \A k \in Keys : index[k].block # b
      <4>1. op.meta \in Metas \ {None} /\ b \in Held
        BY <1>0, <2>4 DEF OpRight, Held
      <4> QED
        BY <1>0, <2>1, <4>1 DEF Partitioned, Metas
    <3>2. IsWalSyncLevel(level) /\ replayed <= synced /\ ~ haunted =>
            synced = Len(frames) /\ After[Len(frames)] = index
      BY <2>1, <2>4 DEF Valued, Drained, Right, Agrees
    <3> HIDE DEF b
    <3>3. index \in Maps /\ Intact(index, disk, loose, damaged)
      BY <2>1 DEF Valued, Stored, Right, Typed, MemoryTyped
    <3>4. \A k \in Keys : index[k] # None => disk'[index[k].block] = disk[index[k].block]
      <4>1. \A k \in Keys : index[k] # None => index[k].block \in Blocks
        BY <3>3 DEF Maps, Metas
      <4> QED
        BY <1>0, <2>4, <3>1, <4>1 DEF DiskTyped, b
    <3>5. IsWalSyncLevel(level) /\ replayed <= synced /\ ~ haunted =>
               \A j \in synced .. Len(frames) : \A k \in Keys :
                   After[j][k] # None /\ After[j][k].val \notin damaged =>
                       /\ After[j][k].fua => /\ disk'[After[j][k].block] = After[j][k].val
                                             /\ loose'[After[j][k].block] = {}
                       /\ synced # written => disk'[After[j][k].block] = After[j][k].val
      <4> SUFFICES ASSUME IsWalSyncLevel(level), replayed <= synced, ~ haunted,
                          NEW j \in synced .. Len(frames), NEW k \in Keys,
                          After[j][k] # None, After[j][k].val \notin damaged
                   PROVE  /\ disk'[After[j][k].block] = After[j][k].val
                          /\ After[j][k].fua => loose'[After[j][k].block] = {}
        OBVIOUS
      <4>1. j = Len(frames)
        BY <1>0, <3>2
      <4>2. After[j] = index
        BY <3>2, <4>1
      <4> QED
        BY <2>1, <3>3, <3>4, <4>2 DEF Intact
    <3> QED
      BY <1>0, <1>1, <2>1, <3>5, DownStep
  <2> QED
    BY <2>2, <2>3, <2>4
<1>6. CASE PowerFails
  <2>1. /\ mode \in {"up", "down"} /\ Down /\ level' = level /\ loose' = [b \in Blocks |-> {}]
        /\ \A b \in Blocks : disk'[b] \in loose[b] \cup {disk[b]}
    BY <1>6 DEF PowerFails
  <2>2. PICK n \in synced .. written : Land(n, n)
    BY <1>6 DEF PowerFails
  <2>3. n \in Nat /\ synced <= n /\ n <= n /\ n <= Len(frames)
    BY <1>0
  <2>4. IsWalSyncLevel(level) /\ replayed <= synced /\ ~ haunted =>
               \A j \in synced .. Len(frames) : \A k \in Keys :
                   After[j][k] # None /\ After[j][k].val \notin damaged =>
                       /\ After[j][k].fua => /\ disk'[After[j][k].block] = After[j][k].val
                                             /\ loose'[After[j][k].block] = {}
                       /\ n # n => disk'[After[j][k].block] = After[j][k].val
    <3> SUFFICES ASSUME IsWalSyncLevel(level), replayed <= synced, ~ haunted,
                        NEW j \in synced .. Len(frames), NEW k \in Keys,
                        After[j][k] # None, After[j][k].val \notin damaged, After[j][k].fua
                 PROVE  disk'[After[j][k].block] = After[j][k].val /\ loose'[After[j][k].block] = {}
      OBVIOUS
    <3>1. After[j] \in Maps
      BY <1>0, AfterFacts
    <3>2. After[j][k].block \in Blocks
      BY <3>1 DEF Maps, Metas
    <3>3. disk[After[j][k].block] = After[j][k].val /\ loose[After[j][k].block] = {}
      BY <1>1, <2>1 DEF Recoverable, Intact
    <3> QED
      BY <2>1, <3>2, <3>3
  <2> QED
    BY <1>0, <1>1, <2>1, <2>2, <2>3, <2>4, DownStep
<1>7. CASE mode' = "down" /\ ~ (Closed \/ Killed \/ PowerFails)
  <2>1. mode = "up" /\ mode' = mode
    BY <1>7 DEF Next, ExecutePut, ExecuteDelete, ValueWritten, ValueFails, LogFull, LogAppend, LogRetries, LogWrite,
                LogSync, Apply, ExecuteSnapshot, ExecuteSetWalLevel, CloseDc, FlushNothing, FlushWrite, FlushSync,
                SnapshotBegins, SnapshotEnds, RecoverDevice, Call, At
  <2> QED
    BY <1>7, <2>1
<1> QED
    BY <1>2, <1>4, <1>5, <1>6, <1>7

\* The second part of the invariant holds at first.
LEMMA ValuedInit ==
    ASSUME ShardAssumption, Init
    PROVE  Valued
<1>1. /\ pc = "idle" /\ mode = "up" /\ op.kind = "none" /\ replayed = 0 /\ synced = 0 /\ frames = <<>>
      /\ \A k \in Keys : index[k] = None
    BY DEF Init, NoOp
<1> QED
    BY <1>1 DEF Valued, Ready, Earlier, Drained, Stored, Found, Kept, Intact

\* The second part of the invariant is preserved by every step, and by a step that
\* changes nothing.
LEMMA ValuedStep ==
    ASSUME ShardAssumption, Right, Right', Valued, [Next]_vars
    PROVE  Valued'
<1>1. CASE Next
    BY <1>1, DrainedStep, EarlierStep, StoredStep, KeptStep DEF Valued
<1>2. CASE UNCHANGED vars
  <2>1. UNCHANGED <<level, index, pc, op, mode, disk, loose, base, frames, written, synced, passed,
                    replayed, damaged, haunted>>
    BY <1>2 DEF vars, log, values, memory, ghost, count
  <2>2. After' = After
    BY <2>1 DEF After
  <2>3. Ready' /\ Earlier' /\ Drained'
    BY <2>1, <2>2 DEF Valued, Ready, Earlier, Drained
  <2>4. Stored' /\ Found' /\ Kept'
    BY <2>1, <2>2 DEF Valued, Stored, Found, Kept, Recoverable
  <2> QED
    BY <2>3, <2>4 DEF Valued
<1> QED
    BY <1>1, <1>2

\* Both parts of the invariant hold throughout.
LEMMA ValuedAlways == Spec => [](Right /\ Valued)
<1>1. Init => Right /\ Valued
    BY RightInit, ValuedInit, ShardAssumption
<1>2. Right /\ Valued /\ [Next]_vars => Right' /\ Valued'
    BY RightStep, ValuedStep, ShardAssumption
<1> QED
    BY <1>1, <1>2, PTL DEF Spec

\* ValuesKept: at a level that synchronises the log, no block is reused, and no
\* acknowledged value dropped, while an entry that a crash may leave needs it, whatever
\* the order of failures, rescues, level changes, crashes and recoveries.
THEOREM RecoverableValuesKept == Spec => []ValuesKept
<1>1. Right /\ Valued => ValuesKept
  <2> SUFFICES ASSUME Right, Valued, mode # "refused", IsWalSyncLevel(level), synced >= replayed, ~ haunted,
                      NEW n \in synced .. written, NEW k \in Keys,
                      After[n][k] # None, After[n][k].val \notin damaged
               PROVE  /\ disk[After[n][k].block] = After[n][k].val
                      /\ After[n][k].fua => loose[After[n][k].block] = {}
    BY DEF ValuesKept, After
  <2>1. /\ synced \in Nat /\ written \in Nat /\ Len(frames) \in Nat /\ written <= Len(frames)
        /\ replayed \in Nat /\ mode \in {"up", "down"}
    BY LenProperties DEF Right, Typed, LogTyped, MemoryTyped, Valued, Ready
  <2>2. Recoverable
    BY <2>1, RecoverableUp DEF Valued, Kept
  <2>3. n \in synced .. Len(frames) /\ replayed <= synced
    BY <2>1
  <2> QED
    BY <2>2, <2>3 DEF Recoverable, Intact
<1> QED
    BY <1>1, ValuedAlways, PTL

==============================================================================
