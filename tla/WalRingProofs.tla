----------------------------- MODULE WalRingProofs -----------------------------
(***************************************************************************)
(* Proofs about module WalRing, for every size of ring, buffer and batch.  *)
(***************************************************************************)
EXTENDS WalRingInvariants, SequenceTheorems, FiniteSetTheorems, NaturalsInduction, WellFoundedInduction, TLAPS

---------------------------------------------------------------------------
(* Arithmetic.                                                             *)

\* Products of natural numbers are ordered like their factors.
LEMMA Products ==
    ASSUME NEW a \in Int, NEW b \in Int, NEW c \in Nat
    PROVE  /\ a * c \in Int
           /\ a <= b => a * c <= b * c
           /\ (a + b) * c = a * c + b * c
           /\ (a - b) * c = a * c - b * c
           /\ (a + 1) * c = a * c + c
  OBVIOUS

\* A multiple that is less than another one is so by a whole factor.
LEMMA Factors ==
    ASSUME NEW a \in Int, NEW b \in Int, NEW c \in Nat \ {0}, a * c < (b + 1) * c
    PROVE  a <= b
<1>1. CASE a >= b + 1
  <2>1. (b + 1) * c <= a * c
    BY <1>1, Products
  <2>2. a * c \in Int /\ (b + 1) * c \in Int
    BY Products
  <2> QED
    BY <2>1, <2>2
<1> QED
    BY <1>1

\* Division with remainder.
LEMMA Division ==
    ASSUME NEW a \in Nat, NEW c \in Nat \ {0}
    PROVE  /\ a \div c \in Nat /\ a % c \in 0 .. c - 1
           /\ a = (a \div c) * c + (a % c)
  OBVIOUS

\* Quotient and remainder are unique.
LEMMA Quotient ==
    ASSUME NEW c \in Nat \ {0}, NEW q \in Nat, NEW r \in 0 .. c - 1
    PROVE  (q * c + r) \div c = q /\ (q * c + r) % c = r
<1>1. q * c \in Nat /\ q * c + r \in Nat
    OBVIOUS
<1> DEFINE a == q * c + r
           p == a \div c
           s == a % c
<1>2. p \in Nat /\ s \in 0 .. c - 1 /\ a = p * c + s
    BY <1>1, Division
<1>3. a = q * c + r
    OBVIOUS
<1> HIDE DEF a, p, s
<1>4. q * c < (p + 1) * c /\ p * c < (q + 1) * c
  <2>1. (p + 1) * c = p * c + c /\ (q + 1) * c = q * c + c /\ p * c \in Int
    BY <1>2, Products
  <2> QED
    BY <1>1, <1>2, <1>3, <2>1
<1>5. p = q
    BY <1>2, <1>4, Factors
<1> QED
    BY <1>1, <1>2, <1>3, <1>5 DEF a, p, s

\* A set of numbers that is not empty has a least member.
LEMMA LeastMember ==
    ASSUME NEW S, S \subseteq Nat, S # {}
    PROVE  \E m \in S : \A n \in S : m <= n
<1>1. IsWellFoundedOn(OpToRel(<, Nat), Nat)
    BY NatLessThanWellFounded
<1>2. PICK m \in S : \A n \in S : <<n, m>> \notin OpToRel(<, Nat)
    BY <1>1, WFMin, Zenon
<1>3. \A n \in S : ~ (n < m)
    BY <1>2 DEF OpToRel
<1> QED
    BY <1>3

---------------------------------------------------------------------------
(* Lives, numbers and slots.                                               *)

\* The constants, for the provers.
LEMMA Sizes ==
    /\ BlockFrames \in Nat \ {0} /\ BufBlocks \in Nat \ {0} /\ RingBlocks \in Nat /\ RingBlocks >= 2
    /\ RingBlocks - 1 \in Nat
  BY SizeAssumption

\* Blocks that are less than a ring apart are as far apart in the ring.
LEMMA Distance ==
    ASSUME NEW v \in Nat, NEW h \in Nat, NEW p, NEW g, Lies(v, p), Lies(h, g), h <= v, v - h <= RingBlocks - 1
    PROVE  (p + RingBlocks - g) % RingBlocks = v - h
<1>1. PICK q \in Nat : v = q * RingBlocks + p
    BY DEF Lies
<1>2. PICK k \in Nat : h = k * RingBlocks + g
    BY DEF Lies
<1>3. p \in 0 .. RingBlocks - 1 /\ g \in 0 .. RingBlocks - 1 /\ RingBlocks \in Nat \ {0}
    BY Sizes DEF Lies
<1> DEFINE d == v - h
<1>4. d \in 0 .. RingBlocks - 1
    BY <1>3
<1>5. q * RingBlocks \in Nat /\ k * RingBlocks \in Nat /\ (q - k) * RingBlocks = q * RingBlocks - k * RingBlocks
    BY <1>3, Products
<1>6. d = (q - k) * RingBlocks + (p - g)
    BY <1>1, <1>2, <1>3, <1>5
<1> HIDE DEF d
<1>7. q - k = 0 \/ q - k = 1
  <2> DEFINE m == q - k
  <2>1. m \in Int /\ (0 - 1) * RingBlocks < (m + 1) * RingBlocks /\ m * RingBlocks < (1 + 1) * RingBlocks
    <3>1. m \in Int
      OBVIOUS
    <3> HIDE DEF m
    <3>2. (m + 1) * RingBlocks = m * RingBlocks + RingBlocks /\ m * RingBlocks \in Int
      BY <1>3, <3>1, Products
    <3>3. m * RingBlocks = d - (p - g)
      BY <1>3, <1>4, <1>6, <3>2 DEF m
    <3> QED
      BY <1>3, <1>4, <3>1, <3>2, <3>3
  <2> HIDE DEF m
  <2>2. 0 - 1 <= m
    BY <1>3, <2>1, Factors
  <2>3. m <= 1
    BY <1>3, <2>1, Factors
  <2>4. m # 0 - 1
    <3> SUFFICES ASSUME m = 0 - 1 PROVE FALSE
      OBVIOUS
    <3>1. d = 0 - RingBlocks + (p - g)
      BY <1>3, <1>6 DEF m
    <3> QED
      BY <1>3, <1>4, <3>1
  <2> QED
    BY <2>1, <2>2, <2>3, <2>4 DEF m
<1>8. p + RingBlocks - g = 0 * RingBlocks + d \/ p + RingBlocks - g = 1 * RingBlocks + d
    BY <1>3, <1>4, <1>6, <1>7
<1>9. (p + RingBlocks - g) % RingBlocks = d
    BY <1>3, <1>4, <1>8, Quotient
<1> QED
    BY <1>9 DEF d

\* The window at block v of the log when the head is at block h.
LEMMA WindowFacts ==
    ASSUME NEW v \in Nat, NEW h \in Nat, NEW p, NEW g, Lies(v, p), Lies(h, g), h <= v, v - h <= RingBlocks - 1
    PROVE  /\ WindowAt(p, g) \in 0 .. BufBlocks
           /\ WindowAt(p, g) <= RingBlocks - 1 - (v - h) /\ WindowAt(p, g) <= RingBlocks - p
           /\ v - h <= RingBlocks - 2 => WindowAt(p, g) >= 1
<1>1. (p + RingBlocks - g) % RingBlocks = v - h
    BY Distance
<1>2. p \in 0 .. RingBlocks - 1
    BY DEF Lies
<1> DEFINE live == (p + RingBlocks - g) % RingBlocks
<1>3. WindowAt(p, g) = LET limit == RingBlocks - 1
                           adm   == IF live >= limit THEN 0 ELSE limit - live
                       IN  Least(BufBlocks, Least(RingBlocks - p, adm))
    BY DEF WindowAt
<1> HIDE DEF live
<1>4. live = v - h
    BY <1>1 DEF live
<1> QED
    BY <1>2, <1>3, <1>4, Sizes DEF Least

---------------------------------------------------------------------------
(* What happens to device and buffer.                                      *)

\* A later snapshot leaves no less room.
LEMMA WithinLater ==
    ASSUME NEW n, NEW s \in Nat, NEW t \in Nat, s <= t, Within(n, s)
    PROVE  Within(n, t)
<1>1. PICK h \in Nat : h * BlockFrames <= s /\ n <= (h + RingBlocks - 1) * BlockFrames
    BY DEF Within
<1>2. h * BlockFrames <= t
  <2>1. h * BlockFrames \in Int
    BY Sizes, Products
  <2> QED
    BY <1>1, <2>1
<1> QED
    BY <1>1, <1>2 DEF Within

\* Padding lies anywhere.
LEMMA Padding ==
    ASSUME NEW x, NEW s \in Nat
    PROVE  None \in Frames /\ Home(None[1], x) /\ Within(None[1], s)
<1>1. None \in Frames /\ None[1] = 0
    BY BoundAssumption DEF None, Frames
<1>2. 0 * BlockFrames <= s /\ 0 <= (0 + RingBlocks - 1) * BlockFrames
    BY Sizes, Products
<1> QED
    BY <1>1, <1>2 DEF Home, Within

\* The newest content of a slot is one of its contents.
LEMMA CurrentFacts ==
    ASSUME NEW s, PlatterRight(platter, s), NEW x \in Slots
    PROVE  Current(x) \in Frames /\ Home(Current(x)[1], x) /\ Within(Current(x)[1], s)
<1>1. platter[x] \in Seq(Frames) /\ platter[x] # <<>>
    BY DEF PlatterRight
<1>2. Len(platter[x]) \in 1 .. Len(platter[x])
    BY <1>1
<1>3. Current(x) = platter[x][Len(platter[x])]
    BY DEF Current
<1> QED
    BY <1>1, <1>2, <1>3 DEF PlatterRight

\* A snapshot does no harm to the device and the buffer.
LEMMA LaterSnapshot ==
    ASSUME NEW s \in Nat, NEW t \in Nat, s <= t
    PROVE  /\ \A d : PlatterRight(d, s) => PlatterRight(d, t)
           /\ \A f, p : BufferRight(f, p, s) => BufferRight(f, p, t)
  BY WithinLater DEF PlatterRight, BufferRight

\* A write of frames that lie where they belong.
LEMMA GoodWrite ==
    ASSUME NEW s, PlatterRight(platter, s), NEW content, WriteAt(content),
           \A x \in Slots : x \in DOMAIN content =>
               content[x] \in Frames /\ Home(content[x][1], x) /\ Within(content[x][1], s)
    PROVE  PlatterRight(platter', s)
<1>1. \A x \in Slots : platter[x] \in Seq(Frames) /\ platter[x] # <<>>
    BY DEF PlatterRight
<1>2. platter' = [x \in Slots |-> IF x \in DOMAIN content /\ content[x] # Current(x)
                                 THEN Append(platter[x], content[x]) ELSE platter[x]]
    BY DEF WriteAt
<1>3. SUFFICES ASSUME NEW x \in Slots
               PROVE  /\ platter'[x] \in Seq(Frames) /\ platter'[x] # <<>>
                      /\ \A i \in 1 .. Len(platter'[x]) : Home(platter'[x][i][1], x) /\ Within(platter'[x][i][1], s)
    BY <1>2 DEF PlatterRight
<1>4. CASE platter'[x] = platter[x]
    BY <1>1, <1>4 DEF PlatterRight
<1>5. CASE x \in DOMAIN content /\ platter'[x] = Append(platter[x], content[x])
  <2> DEFINE f == platter[x]
             e == content[x]
  <2>1. f \in Seq(Frames) /\ e \in Frames /\ Home(e[1], x) /\ Within(e[1], s)
    BY <1>1, <1>5
  <2>2. \A i \in 1 .. Len(f) : Home(f[i][1], x) /\ Within(f[i][1], s)
    BY DEF PlatterRight
  <2> HIDE DEF f, e
  <2>3. /\ Append(f, e) \in Seq(Frames) /\ Len(Append(f, e)) = Len(f) + 1 /\ Len(f) \in Nat
        /\ \A i \in 1 .. Len(f) : Append(f, e)[i] = f[i]
        /\ Append(f, e)[Len(f) + 1] = e
    BY <2>1, AppendProperties, LenProperties
  <2>4. Append(f, e) # <<>>
    BY <2>1, <2>3
  <2>5. \A i \in 1 .. Len(f) + 1 : Home(Append(f, e)[i][1], x) /\ Within(Append(f, e)[i][1], s)
    BY <2>1, <2>2, <2>3
  <2> QED
    BY <1>5, <2>3, <2>4, <2>5 DEF f, e
<1> QED
    BY <1>2, <1>4, <1>5

\* A synchronisation keeps the newest content of each slot.
LEMMA GoodSync ==
    ASSUME NEW s, PlatterRight(platter, s), Sync
    PROVE  PlatterRight(platter', s)
<1>1. \A x \in Slots : Current(x) \in Frames /\ Home(Current(x)[1], x) /\ Within(Current(x)[1], s)
    BY CurrentFacts
<1>2. platter' = [x \in Slots |-> <<Current(x)>>]
    BY DEF Sync
<1> QED
    BY <1>1, <1>2 DEF PlatterRight

\* A power failure keeps one content of each slot.
LEMMA GoodTorn ==
    ASSUME NEW s, PlatterRight(platter, s), Torn
    PROVE  PlatterRight(platter', s)
<1>1. PICK pick \in [Unsynced -> 1 .. Most] :
          /\ \A x \in Unsynced : pick[x] <= Len(platter[x])
          /\ platter' = [x \in Slots |-> <<platter[x][IF x \in Unsynced THEN pick[x] ELSE 1]>>]
    BY DEF Torn
<1>2. \A x \in Slots : platter[x] \in Seq(Frames) /\ platter[x] # <<>> /\ Len(platter[x]) \in Nat /\ Len(platter[x]) >= 1
    BY DEF PlatterRight
<1>3. ASSUME NEW x \in Slots
      PROVE  \E i \in 1 .. Len(platter[x]) : platter'[x] = <<platter[x][i]>>
  <2>1. CASE x \in Unsynced
    <3>1. pick[x] \in 1 .. Most /\ pick[x] <= Len(platter[x])
      BY <1>1, <2>1
    <3>2. pick[x] \in 1 .. Len(platter[x])
      BY <1>2, <3>1
    <3> QED
      BY <1>1, <2>1, <3>2
  <2>2. CASE x \notin Unsynced
    BY <1>1, <1>2, <2>2
  <2> QED
    BY <2>1, <2>2
<1>4. \A x \in Slots : \A i \in 1 .. Len(platter[x]) :
          platter[x][i] \in Frames /\ Home(platter[x][i][1], x) /\ Within(platter[x][i][1], s)
    BY <1>2 DEF PlatterRight
<1>5. ASSUME NEW x \in Slots
      PROVE  /\ platter'[x] \in Seq(Frames) /\ platter'[x] # <<>>
             /\ \A i \in 1 .. Len(platter'[x]) : Home(platter'[x][i][1], x) /\ Within(platter'[x][i][1], s)
  <2>1. PICK i \in 1 .. Len(platter[x]) : platter'[x] = <<platter[x][i]>>
    BY <1>3
  <2>2. platter[x][i] \in Frames /\ Home(platter[x][i][1], x) /\ Within(platter[x][i][1], s)
    BY <1>4
  <2> QED
    BY <2>1, <2>2
<1>6. DOMAIN platter' = Slots /\ platter' = [x \in Slots |-> platter'[x]]
    BY <1>1
<1> QED
    BY <1>5, <1>6 DEF PlatterRight

\* WriteWindowSpan writes each frame to its slot.
LEMMA GoodSpan ==
    ASSUME Typed, DeviceRight, BufRight, WriteWindowSpan
    PROVE  PlatterRight(platter', covered)
<1> DEFINE content == [x \in Span |-> LET i == x - cur * BlockFrames + 1
                                     IN  IF i <= Len(buf) THEN buf[i] ELSE None]
<1>1. WriteAt(content)
    BY DEF WriteWindowSpan
<1>2. /\ cur * BlockFrames \in Int /\ covered \in Nat
      /\ buf \in Seq(Frames) /\ Len(buf) \in Nat
      /\ \A i \in 1 .. Len(buf) : Home(buf[i][1], cur * BlockFrames + i - 1) /\ Within(buf[i][1], covered)
    BY Sizes, Products, LenProperties DEF Typed, BufRight, BufferRight
<1>3. ASSUME NEW x \in Slots, x \in DOMAIN content
      PROVE  content[x] \in Frames /\ Home(content[x][1], x) /\ Within(content[x][1], covered)
  <2> DEFINE c == cur * BlockFrames
             i == x - c + 1
  <2>1. x \in Span
    BY <1>3
  <2>2. x \in Int /\ x >= c
    <3>1. Span = c .. (cur + UsedBlocks) * BlockFrames - 1
      BY DEF Span
    <3> QED
      BY <2>1, <3>1
  <2>3. content[x] = IF i <= Len(buf) THEN buf[i] ELSE None
    BY <2>1
  <2> HIDE DEF content, c
  <2>4. c \in Int
    BY <1>2 DEF c
  <2>5. CASE i <= Len(buf)
    <3>1. i \in 1 .. Len(buf) /\ c + i - 1 = x
      BY <1>2, <2>2, <2>4, <2>5
    <3>2. Home(buf[i][1], c + i - 1) /\ Within(buf[i][1], covered) /\ buf[i] \in Frames
      BY <1>2, <3>1 DEF c
    <3> QED
      BY <2>3, <2>5, <3>1, <3>2
  <2>6. CASE ~ (i <= Len(buf))
    BY <1>2, <2>3, <2>6, Padding
  <2> QED
    BY <2>5, <2>6
<1> HIDE DEF content
<1> QED
    BY <1>1, <1>3, GoodWrite DEF DeviceRight

\* The next block of the log lies at the next block of the ring.
LEMMA LiesNext ==
    ASSUME NEW v \in Nat, NEW p, Lies(v, p), NEW n \in Nat, p + n <= RingBlocks
    PROVE  Lies(v + n, IF p + n = RingBlocks THEN 0 ELSE p + n)
<1>1. PICK q \in Nat : v = q * RingBlocks + p
    BY DEF Lies
<1>2. p \in 0 .. RingBlocks - 1 /\ RingBlocks \in Nat
    BY Sizes DEF Lies
<1>3. CASE p + n = RingBlocks
  <2>1. v + n = (q + 1) * RingBlocks + 0
    BY <1>1, <1>2, <1>3, Products
  <2>2. q + 1 \in Nat /\ 0 \in 0 .. RingBlocks - 1
    BY <1>2
  <2> QED
    BY <1>3, <2>1, <2>2 DEF Lies
<1>4. CASE p + n # RingBlocks
  <2>1. v + n = q * RingBlocks + (p + n) /\ p + n \in 0 .. RingBlocks - 1
    <3>1. q * RingBlocks \in Int
      BY <1>2, Products
    <3> QED
      BY <1>1, <1>2, <1>4, <3>1
  <2> QED
    BY <1>4, <2>1 DEF Lies
<1> QED
    BY <1>3, <1>4

\* AdvanceAfterWrite moves the tail over the full blocks and opens a new window.
LEMMA Advanced ==
    ASSUME Typed, BufRight, Open, Located, AdvanceAfterWrite, head' = head, seq_next' = seq_next, covered' = covered
    PROVE  cur' \in 0 .. RingBlocks - 1 /\ window' \in 0 .. BufBlocks /\ BufRight' /\ Located'
<1>1. PICK v \in Nat, h \in Nat : Placed(v, h)
    BY DEF Located
<1> DEFINE full == Len(buf) \div BlockFrames
           rest == Len(buf) % BlockFrames
           next == cur + full
<1>2. /\ buf \in Seq(Frames) /\ Len(buf) \in Nat /\ cur \in 0 .. RingBlocks - 1 /\ window \in Nat
      /\ seq_next \in Nat /\ covered \in Nat
    BY LenProperties DEF BufRight, BufferRight, Typed
<1>3. full \in Nat /\ rest \in 0 .. BlockFrames - 1 /\ Len(buf) = full * BlockFrames + rest
    BY <1>2, Division, Sizes
<1>4. /\ cur' = IF next = RingBlocks THEN 0 ELSE next
      /\ buf' = SubSeq(buf, full * BlockFrames + 1, Len(buf))
      /\ window' = WindowAt(cur', head)
    BY DEF AdvanceAfterWrite
<1> HIDE DEF full, rest
<1>5. full <= window /\ (rest > 0 => full < window)
  <2>1. Len(buf) <= window * BlockFrames
    BY <1>1 DEF Placed
  <2>2. (window + 1) * BlockFrames = window * BlockFrames + BlockFrames /\ window * BlockFrames \in Int
        /\ full * BlockFrames \in Int
    BY <1>2, <1>3, Sizes, Products
  <2>3. full * BlockFrames < (window + 1) * BlockFrames
    BY <1>2, <1>3, <2>1, <2>2, Sizes
  <2>4. full <= window
    BY <1>2, <1>3, <2>3, Sizes, Factors
  <2>5. full = window => rest = 0
    BY <1>3, <2>1, <2>2
  <2> QED
    BY <1>2, <1>3, <2>4, <2>5
<1>6. window <= RingBlocks - 1 - (v - h) /\ window <= RingBlocks - cur /\ h <= v /\ Lies(v, cur) /\ Lies(h, head)
      /\ h * BlockFrames <= covered /\ v * BlockFrames + Len(buf) = seq_next - 1
    BY <1>1 DEF Placed
<1>a. PICK w \in Nat : w = v + full
    BY <1>3
<1>7. Lies(w, cur')
  <2>1. cur + full <= RingBlocks
    BY <1>2, <1>3, <1>5, <1>6, Sizes
  <2>2. Lies(v + full, IF cur + full = RingBlocks THEN 0 ELSE cur + full)
    BY <1>3, <1>6, <2>1, LiesNext
  <2> QED
    BY <1>4, <1>a, <2>2
<1>8. w - h <= RingBlocks - 1 /\ h <= w /\ (rest > 0 => w - h <= RingBlocks - 2)
    BY <1>2, <1>3, <1>5, <1>6, <1>a, Sizes
<1>9. /\ WindowAt(cur', head) \in 0 .. BufBlocks
      /\ WindowAt(cur', head) <= RingBlocks - 1 - (w - h) /\ WindowAt(cur', head) <= RingBlocks - cur'
      /\ w - h <= RingBlocks - 2 => WindowAt(cur', head) >= 1
    BY <1>4, <1>6, <1>7, <1>8, WindowFacts
<1>10. /\ buf' \in Seq(Frames) /\ Len(buf') = rest
       /\ \A i \in 1 .. rest : buf'[i] = buf[full * BlockFrames + i]
  <2> DEFINE m == full * BlockFrames
  <2>1. m \in Nat /\ Len(buf) = m + rest
    BY <1>3, Sizes
  <2> HIDE DEF m
  <2>2. buf' = SubSeq(buf, m + 1, Len(buf))
    BY <1>4 DEF m
  <2>3. /\ SubSeq(buf, m + 1, Len(buf)) \in Seq(Frames)
        /\ Len(SubSeq(buf, m + 1, Len(buf))) = (IF m + 1 <= Len(buf) THEN Len(buf) - (m + 1) + 1 ELSE 0)
        /\ \A i \in 1 .. Len(buf) - (m + 1) + 1 : SubSeq(buf, m + 1, Len(buf))[i] = buf[m + 1 + i - 1]
    <3>1. m + 1 \in 1 .. Len(buf) + 1 /\ Len(buf) \in 0 .. Len(buf)
      BY <1>3, <2>1
    <3>2. buf \in Seq(Frames)
      BY <1>2
    <3> QED
      BY <3>1, <3>2, SubSeqProperties
  <2>4. Len(buf) - (m + 1) + 1 = rest /\ (IF m + 1 <= Len(buf) THEN rest ELSE 0) = rest /\ \A i \in 1 .. rest : m + 1 + i - 1 = m + i
    BY <1>3, <2>1
  <2> QED
    BY <1>3, <2>1, <2>2, <2>3, <2>4 DEF m
<1>11. ASSUME NEW i \in 1 .. rest
       PROVE  Home(buf'[i][1], cur' * BlockFrames + i - 1) /\ Within(buf'[i][1], covered)
  <2>1. cur' = cur + full
    BY <1>2, <1>3, <1>4, <1>5, <1>6, <1>11
  <2>2. /\ cur' * BlockFrames = cur * BlockFrames + full * BlockFrames
        /\ cur * BlockFrames \in Int /\ full * BlockFrames \in Nat
    BY <1>2, <1>3, <2>1, Sizes, Products
  <2>3. full * BlockFrames + i \in 1 .. Len(buf)
    BY <1>3, <2>2
  <2>4. cur * BlockFrames + (full * BlockFrames + i) - 1 = cur' * BlockFrames + i - 1
    BY <1>3, <2>2
  <2>5. Home(buf[full * BlockFrames + i][1], cur * BlockFrames + (full * BlockFrames + i) - 1)
        /\ Within(buf[full * BlockFrames + i][1], covered)
    BY <2>3 DEF BufRight, BufferRight
  <2> QED
    BY <1>10, <2>4, <2>5
<1>12. BufRight'
    BY <1>10, <1>11 DEF BufRight, BufferRight
<1>13. w * BlockFrames + Len(buf') = seq_next' - 1
  <2>1. (v + full) * BlockFrames = v * BlockFrames + full * BlockFrames /\ v * BlockFrames \in Int /\ full * BlockFrames \in Int
    BY <1>3, Sizes, Products
  <2> QED
    BY <1>3, <1>6, <1>10, <1>a, <2>1
<1>14. Len(buf') <= window' * BlockFrames
  <2>1. CASE rest = 0
    BY <1>4, <1>9, <1>10, <2>1, Sizes
  <2>2. CASE rest > 0
    <3>1. PICK n \in Nat : n = window' /\ 1 <= n
      BY <1>4, <1>8, <1>9, <2>2
    <3> DEFINE a == 1
    <3>2. a \in Int /\ n \in Int /\ BlockFrames \in Nat /\ a <= n /\ a * BlockFrames = BlockFrames
      BY <3>1, Sizes
    <3> HIDE DEF a
    <3>3. a * BlockFrames <= n * BlockFrames
      BY <3>2, Products
    <3>4. BlockFrames <= n * BlockFrames /\ n * BlockFrames \in Int
      BY <3>2, <3>3, Products
    <3>5. rest <= n * BlockFrames
      BY <1>3, <3>4, Sizes
    <3> QED
      BY <1>10, <3>1, <3>5
  <2> QED
    BY <1>3, <2>1, <2>2
<1>15. Placed(w, h)'
    BY <1>4, <1>6, <1>7, <1>8, <1>9, <1>13, <1>14 DEF Placed, Lies
<1>16. Located'
  <2>1. covered' < seq_next'
    BY DEF Located
  <2> QED
    BY <1>15, <2>1 DEF Located
<1>17. cur' \in 0 .. RingBlocks - 1
    BY <1>7 DEF Lies
<1> QED
    BY <1>4, <1>9, <1>12, <1>16, <1>17

\* Append puts the next frame behind the buffered ones, in its place.
LEMMA Appended ==
    ASSUME Typed, BufRight, Open, Located, NEW w \in Nat, ~ WindowFull(w),
           \A v, h \in Nat : Placed(v, h) => w <= RingBlocks - 1 - (v - h) /\ w <= RingBlocks - cur,
           AppendEntry, cur' = cur, head' = head, window' = w, covered' = covered
    PROVE  seq_next' \in 1 .. MaxSeq + 1 /\ BufRight' /\ Located'
<1>1. PICK v \in Nat, h \in Nat : Placed(v, h)
    BY DEF Located
<1>2. /\ buf \in Seq(Frames) /\ Len(buf) \in Nat /\ cur \in 0 .. RingBlocks - 1
      /\ seq_next \in 1 .. MaxSeq + 1 /\ covered \in Nat /\ life \in 1 .. MaxLives + 1 /\ covered < seq_next
    BY LenProperties DEF BufRight, BufferRight, Typed, Located
<1>3. seq_next <= MaxSeq /\ buf' = Append(buf, <<seq_next, life>>) /\ seq_next' = seq_next + 1
    BY DEF AppendEntry
<1> DEFINE e == <<seq_next, life>>
<1>4. e \in Frames /\ e[1] = seq_next
    BY <1>2, <1>3, BoundAssumption DEF Frames
<1> HIDE DEF e
<1>5. /\ Append(buf, e) \in Seq(Frames) /\ Len(Append(buf, e)) = Len(buf) + 1
      /\ \A i \in 1 .. Len(buf) : Append(buf, e)[i] = buf[i]
      /\ Append(buf, e)[Len(buf) + 1] = e
    BY <1>2, <1>4, AppendProperties
<1>6. buf' = Append(buf, e)
    BY <1>3 DEF e
<1>7. /\ Lies(v, cur) /\ Lies(h, head) /\ h <= v /\ h * BlockFrames <= covered
      /\ v * BlockFrames + Len(buf) = seq_next - 1
      /\ w <= RingBlocks - 1 - (v - h) /\ w <= RingBlocks - cur
    BY <1>1 DEF Placed
<1>8. Len(buf) + 1 <= w * BlockFrames
  <2>1. w * BlockFrames \in Int
    BY Sizes, Products
  <2> QED
    BY <1>2, <2>1 DEF WindowFull
<1>9. Home(seq_next, cur * BlockFrames + Len(buf))
  <2>1. PICK q \in Nat : v = q * RingBlocks + cur
    BY <1>7 DEF Lies
  <2>2. q * RingBlocks \in Int /\ q * RingBlocks \in Nat
    BY Sizes
  <2>3. v * BlockFrames = q * RingBlocks * BlockFrames + cur * BlockFrames
    BY <1>2, <2>1, <2>2, Sizes, Products
  <2>4. q * RingBlocks * BlockFrames \in Int /\ cur * BlockFrames \in Int
    BY <1>2, <2>2, Sizes, Products
  <2>5. seq_next - 1 = q * RingBlocks * BlockFrames + (cur * BlockFrames + Len(buf))
    BY <1>2, <1>7, <2>3, <2>4
  <2> QED
    BY <2>5 DEF Home
<1>10. Within(seq_next, covered)
  <2> DEFINE a == v + w
             b == h + RingBlocks - 1
  <2>1. a \in Int /\ b \in Int /\ a <= b
    BY <1>7, Sizes
  <2>2. a * BlockFrames = v * BlockFrames + w * BlockFrames
    BY Sizes, Products
  <2> HIDE DEF a, b
  <2>3. a * BlockFrames <= b * BlockFrames /\ b * BlockFrames \in Int
    BY <2>1, Sizes, Products
  <2>4. v * BlockFrames \in Int /\ w * BlockFrames \in Int
    BY Sizes, Products
  <2>5. seq_next <= b * BlockFrames
    <3> DEFINE vb == v * BlockFrames
               wb == w * BlockFrames
               ab == a * BlockFrames
               bb == b * BlockFrames
    <3>1. /\ ab = vb + wb /\ ab <= bb /\ bb \in Int /\ vb \in Int /\ wb \in Int
          /\ vb + Len(buf) = seq_next - 1 /\ Len(buf) + 1 <= wb
      BY <1>7, <1>8, <2>2, <2>3, <2>4
    <3>2. seq_next \in Int /\ Len(buf) \in Int
      BY <1>2
    <3> HIDE DEF vb, wb, ab, bb
    <3>3. seq_next <= bb
      BY <3>1, <3>2
    <3> QED
      BY <3>3 DEF bb
  <2> QED
    BY <1>7, <2>5 DEF Within, b
<1>11. BufRight'
  <2>1. SUFFICES ASSUME NEW i \in 1 .. Len(buf) + 1
                 PROVE  Home(buf'[i][1], cur' * BlockFrames + i - 1) /\ Within(buf'[i][1], covered')
    BY <1>5, <1>6 DEF BufRight, BufferRight
  <2>2. CASE i \in 1 .. Len(buf)
    <3>1. Home(buf[i][1], cur * BlockFrames + i - 1) /\ Within(buf[i][1], covered)
      BY <2>2 DEF BufRight, BufferRight
    <3> QED
      BY <1>5, <1>6, <2>2, <3>1
  <2>3. CASE i = Len(buf) + 1
    <3>1. cur * BlockFrames + i - 1 = cur * BlockFrames + Len(buf)
      <4>1. cur * BlockFrames \in Int
        BY <1>2, Sizes, Products
      <4> QED
        BY <1>2, <2>3, <4>1
    <3>2. buf'[i] = e
      BY <1>5, <1>6, <2>3
    <3> QED
      BY <1>4, <1>9, <1>10, <3>1, <3>2
  <2> QED
    BY <1>2, <2>2, <2>3
<1>12. Placed(v, h)'
  <2>1. v * BlockFrames + Len(buf') = seq_next' - 1
    <3>1. v * BlockFrames \in Int
      BY Sizes, Products
    <3>2. Len(buf') = Len(buf) + 1 /\ seq_next' - 1 = seq_next
      BY <1>2, <1>3, <1>5, <1>6
    <3>3. v * BlockFrames + (Len(buf) + 1) = seq_next
      <4> DEFINE vb == v * BlockFrames
      <4>1. vb \in Int /\ vb + Len(buf) = seq_next - 1
        BY <1>7, <3>1
      <4>2. seq_next \in Int /\ Len(buf) \in Int
        BY <1>2
      <4> HIDE DEF vb
      <4>3. vb + (Len(buf) + 1) = seq_next
        BY <4>1, <4>2
      <4> QED
        BY <4>3 DEF vb
    <3> QED
      BY <3>2, <3>3
  <2>2. Len(buf') <= window' * BlockFrames
    BY <1>5, <1>6, <1>8
  <2> QED
    BY <1>7, <2>1, <2>2 DEF Placed, Lies
<1>13. covered' < seq_next' /\ seq_next' \in 1 .. MaxSeq + 1
    BY <1>2, <1>3, BoundAssumption
<1> QED
    BY <1>11, <1>12, <1>13 DEF Located

\* A reopened window is as good as the one that was there.
LEMMA Reopened ==
    ASSUME Typed, Located
    PROVE  /\ WindowAt(cur, head) \in 0 .. BufBlocks
           /\ \A v, h \in Nat : Placed(v, h) =>
                  /\ WindowAt(cur, head) <= RingBlocks - 1 - (v - h)
                  /\ WindowAt(cur, head) <= RingBlocks - cur
<1>1. ASSUME NEW v \in Nat, NEW h \in Nat, Placed(v, h)
      PROVE  /\ WindowAt(cur, head) \in 0 .. BufBlocks
             /\ WindowAt(cur, head) <= RingBlocks - 1 - (v - h) /\ WindowAt(cur, head) <= RingBlocks - cur
  <2>1. Lies(v, cur) /\ Lies(h, head) /\ h <= v /\ window <= RingBlocks - 1 - (v - h) /\ window \in Nat
    BY <1>1 DEF Placed, Typed
  <2>2. v - h <= RingBlocks - 1
    BY <2>1, Sizes
  <2> QED
    BY <2>1, <2>2, WindowFacts
<1> QED
    BY <1>1 DEF Located

---------------------------------------------------------------------------
(* Recover.                                                                *)

\* The block of the log that number n is in, when the number lies in slot x.
LEMMA BlockOf ==
    ASSUME NEW x \in Slots, NEW n \in Nat \ {0}, Home(n, x)
    PROVE  /\ Block(x) \in 0 .. RingBlocks - 1 /\ x % BlockFrames \in 0 .. BlockFrames - 1
           /\ x = Block(x) * BlockFrames + (x % BlockFrames)
           /\ \E u \in Nat : Lies(u, Block(x)) /\ n - 1 = u * BlockFrames + (x % BlockFrames)
<1> DEFINE b == Block(x)
           r == x % BlockFrames
<1>1. x \in Nat /\ x < RingBlocks * BlockFrames
    BY Sizes DEF Slots
<1>2. b \in Nat /\ r \in 0 .. BlockFrames - 1 /\ x = b * BlockFrames + r
    BY <1>1, Division, Sizes DEF Block
<1> HIDE DEF b, r
<1>3. b <= RingBlocks - 1
  <2>1. b * BlockFrames < ((RingBlocks - 1) + 1) * BlockFrames
    <3>1. (RingBlocks - 1) + 1 = RingBlocks /\ b * BlockFrames \in Int /\ RingBlocks * BlockFrames \in Int
      BY <1>2, Sizes, Products
    <3> QED
      BY <1>1, <1>2, <3>1
  <2> QED
    BY <1>2, <2>1, Sizes, Factors
<1>4. PICK q \in Nat : n - 1 = q * RingBlocks * BlockFrames + x
    BY DEF Home
<1> DEFINE u == q * RingBlocks + b
<1>5. u \in Nat /\ Lies(u, b)
    BY <1>2, <1>3, Sizes DEF Lies
<1>6. n - 1 = u * BlockFrames + r
  <2>1. q * RingBlocks \in Int
    BY Sizes
  <2>2. u * BlockFrames = q * RingBlocks * BlockFrames + b * BlockFrames
    BY <1>2, <2>1, Sizes, Products
  <2>3. q * RingBlocks * BlockFrames \in Int /\ b * BlockFrames \in Int
    BY <1>2, <2>1, Sizes, Products
  <2> QED
    BY <1>2, <1>4, <2>2, <2>3
<1> HIDE DEF u
<1>7. b \in 0 .. RingBlocks - 1
    BY <1>2, <1>3, Sizes
<1> QED
    BY <1>2, <1>5, <1>6, <1>7 DEF b, r

\* Where the log goes on after number n, which lies in slot x.
LEMMA TailOf ==
    ASSUME NEW x \in Slots, NEW n \in Nat \ {0}, Home(n, x), NEW full, NEW tail, NEW frames,
           full = ((x + 1) % BlockFrames = 0),
           tail = IF full THEN (Block(x) + 1) % RingBlocks ELSE Block(x),
           frames = IF full THEN 0 ELSE (x % BlockFrames) + 1
    PROVE  /\ frames \in 0 .. BlockFrames - 1
           /\ \E v \in Nat : Lies(v, tail) /\ v * BlockFrames + frames = n
           /\ \A i \in 1 .. frames : tail * BlockFrames + i - 1 \in Slots
<1> DEFINE b == Block(x)
           r == x % BlockFrames
<1>1. x \in Nat /\ x < RingBlocks * BlockFrames
    BY Sizes DEF Slots
<1>2. b \in Nat /\ r \in 0 .. BlockFrames - 1 /\ x = b * BlockFrames + r
    BY BlockOf, Sizes
<1>3. b <= RingBlocks - 1
    BY BlockOf, Sizes
<1>4. PICK u \in Nat : Lies(u, b) /\ n - 1 = u * BlockFrames + r
    BY BlockOf
<1> HIDE DEF b, r
<1>5. u \in Nat /\ Lies(u, b)
    BY <1>4
<1>6. n - 1 = u * BlockFrames + r
    BY <1>4
<1>7. u * BlockFrames \in Int /\ b * BlockFrames \in Nat
    BY <1>2, <1>5, Sizes, Products
<1>8. CASE r = BlockFrames - 1
  <2>1. full
    <3>1. x + 1 = (b + 1) * BlockFrames + 0
      <4>1. (b + 1) * BlockFrames = b * BlockFrames + BlockFrames
        BY <1>2, Sizes, Products
      <4> QED
        BY <1>2, <1>7, <1>8, <4>1, Sizes
    <3>2. b + 1 \in Nat /\ 0 \in 0 .. BlockFrames - 1
      BY <1>2, Sizes
    <3>3. (x + 1) % BlockFrames = 0
      <4> DEFINE y == b + 1
      <4>1. y \in Nat /\ 0 \in 0 .. BlockFrames - 1 /\ x + 1 = y * BlockFrames + 0
        BY <3>1, <3>2
      <4> HIDE DEF y
      <4>2. (y * BlockFrames + 0) % BlockFrames = 0
        BY <4>1, Quotient, Sizes
      <4> QED
        BY <4>1, <4>2
    <3> QED
      BY <3>3
  <2>2. tail = (b + 1) % RingBlocks /\ frames = 0
    BY <2>1 DEF b
  <2>3. (b + 1) % RingBlocks = IF b + 1 = RingBlocks THEN 0 ELSE b + 1
    <3>1. CASE b + 1 = RingBlocks
      <4>1. b + 1 = 1 * RingBlocks + 0 /\ 0 \in 0 .. RingBlocks - 1 /\ RingBlocks \in Nat \ {0}
        BY <3>1, Sizes
      <4>2. (1 * RingBlocks + 0) % RingBlocks = 0
        BY <4>1, Quotient
      <4> QED
        BY <3>1, <4>1, <4>2
    <3>2. CASE b + 1 # RingBlocks
      <4>1. b + 1 = 0 * RingBlocks + (b + 1) /\ b + 1 \in 0 .. RingBlocks - 1 /\ RingBlocks \in Nat \ {0}
        BY <1>2, <1>3, <3>2, Sizes
      <4>2. (0 * RingBlocks + (b + 1)) % RingBlocks = b + 1
        BY <4>1, Quotient
      <4> QED
        BY <3>2, <4>1, <4>2
    <3> QED
      BY <3>1, <3>2
  <2>4. Lies(u + 1, tail)
    BY <1>2, <1>3, <1>5, <2>2, <2>3, LiesNext, Sizes
  <2>5. (u + 1) * BlockFrames + frames = n
    <3>1. (u + 1) * BlockFrames = u * BlockFrames + BlockFrames
      BY <1>5, Sizes, Products
    <3>2. u * BlockFrames + BlockFrames = n
      BY <1>6, <1>7, <1>8, Sizes
    <3>3. n + 0 = n
      OBVIOUS
    <3> QED
      BY <2>2, <3>1, <3>2, <3>3
  <2> QED
    BY <1>5, <2>2, <2>4, <2>5, Sizes
<1>9. CASE r # BlockFrames - 1
  <2>1. ~ full
    <3>1. x + 1 = b * BlockFrames + (r + 1) /\ r + 1 \in 0 .. BlockFrames - 1
      BY <1>2, <1>7, <1>9, Sizes
    <3>2. (x + 1) % BlockFrames = r + 1
      <4> DEFINE y == r + 1
      <4>1. b \in Nat /\ y \in 0 .. BlockFrames - 1 /\ x + 1 = b * BlockFrames + y
        BY <1>2, <3>1
      <4> HIDE DEF y
      <4>2. (b * BlockFrames + y) % BlockFrames = y
        BY <4>1, Quotient, Sizes
      <4>3. (x + 1) % BlockFrames = y
        BY <4>1, <4>2
      <4> QED
        BY <4>3 DEF y
    <3>3. (x + 1) % BlockFrames # 0
      BY <1>2, <3>2
    <3> QED
      BY <3>3
  <2>2. tail = b /\ frames = r + 1
    BY <2>1 DEF b, r
  <2>3. u * BlockFrames + frames = n
    BY <1>2, <1>6, <1>7, <2>2
  <2>4. \A i \in 1 .. frames : tail * BlockFrames + i - 1 \in Slots
    <3>1. ASSUME NEW i \in 1 .. frames
          PROVE  b * BlockFrames + i - 1 \in Slots
      <4>1. i \in Nat /\ i >= 1 /\ i <= r + 1
        BY <1>2, <2>2
      <4>2. b * BlockFrames + i - 1 \in Nat /\ b * BlockFrames + i - 1 <= x
        BY <1>2, <1>7, <4>1
      <4>3. RingBlocks * BlockFrames \in Nat
        BY Sizes
      <4> QED
        BY <1>1, <4>2, <4>3 DEF Slots
    <3> QED
      BY <2>2, <3>1
  <2> QED
    BY <1>2, <1>5, <1>9, <2>2, <2>3, <2>4, Sizes
<1> QED
    BY <1>8, <1>9

\* The log goes on after number n with the head at the block of number covered + 1 or later.
LEMMA PlacedAgain ==
    ASSUME NEW v \in Nat, NEW h \in Nat, NEW p, NEW g, NEW n \in Nat, NEW s \in Nat, NEW k \in 0 .. BlockFrames - 1,
           Lies(v, p), Lies(h, g), v * BlockFrames + k = n, h * BlockFrames <= s, s <= n,
           s < (h + 1) * BlockFrames, Within(n, s)
    PROVE  /\ h <= v /\ WindowAt(p, g) \in 0 .. BufBlocks
           /\ WindowAt(p, g) <= RingBlocks - 1 - (v - h) /\ WindowAt(p, g) <= RingBlocks - p
           /\ k <= WindowAt(p, g) * BlockFrames
<1>1. v * BlockFrames \in Int /\ h * BlockFrames \in Int /\ (v + 1) * BlockFrames = v * BlockFrames + BlockFrames
    BY Sizes, Products
<1>2. h <= v
  <2>1. h * BlockFrames < (v + 1) * BlockFrames
    BY <1>1, Sizes
  <2> QED
    BY <2>1, Sizes, Factors
<1>3. PICK e \in Nat : e * BlockFrames <= s /\ n <= (e + RingBlocks - 1) * BlockFrames
    BY DEF Within
<1>4. e <= h
  <2>1. e * BlockFrames \in Int /\ (h + 1) * BlockFrames \in Int
    BY Sizes, Products
  <2>2. e * BlockFrames < (h + 1) * BlockFrames
    BY <1>3, <2>1
  <2> QED
    BY <2>2, Sizes, Factors
<1> DEFINE z == h + RingBlocks - 1
<1>5. n <= z * BlockFrames
  <2> DEFINE y == e + RingBlocks - 1
  <2>1. y \in Int /\ z \in Int /\ y <= z /\ n <= y * BlockFrames
    BY <1>3, <1>4, Sizes
  <2> HIDE DEF y, z
  <2>2. y * BlockFrames <= z * BlockFrames /\ y * BlockFrames \in Int /\ z * BlockFrames \in Int
    BY <2>1, Sizes, Products
  <2> QED
    BY <2>1, <2>2
<1>6. z \in Int
    BY Sizes
<1> HIDE DEF z
<1>7. z * BlockFrames \in Int /\ (z + 1) * BlockFrames = z * BlockFrames + BlockFrames
    BY <1>6, Sizes, Products
<1>8. v <= z
  <2>1. v * BlockFrames < (z + 1) * BlockFrames
    BY <1>1, <1>5, <1>7, Sizes
  <2> QED
    BY <1>6, <2>1, Sizes, Factors
<1>9. k > 0 => v <= z - 1
  <2> SUFFICES ASSUME k > 0 PROVE v <= z - 1
    OBVIOUS
  <2>1. v * BlockFrames < ((z - 1) + 1) * BlockFrames
    <3>1. (z - 1) + 1 = z
      BY <1>6
    <3> QED
      BY <1>1, <1>5, <1>7, <3>1
  <2>2. z - 1 \in Int
    BY <1>6
  <2> QED
    BY <2>1, <2>2, Sizes, Factors
<1>10. v - h <= RingBlocks - 1 /\ (k > 0 => v - h <= RingBlocks - 2)
    BY <1>8, <1>9, Sizes DEF z
<1>11. /\ WindowAt(p, g) \in 0 .. BufBlocks
       /\ WindowAt(p, g) <= RingBlocks - 1 - (v - h) /\ WindowAt(p, g) <= RingBlocks - p
       /\ v - h <= RingBlocks - 2 => WindowAt(p, g) >= 1
    BY <1>2, <1>10, WindowFacts
<1>12. k <= WindowAt(p, g) * BlockFrames
  <2>1. PICK w \in Nat : w = WindowAt(p, g) /\ (k > 0 => w >= 1)
    BY <1>10, <1>11
  <2>2. CASE k = 0
    <3>1. w * BlockFrames \in Nat
      BY Sizes
    <3> QED
      BY <2>1, <2>2, <3>1
  <2>3. CASE k > 0
    <3> DEFINE a == 1
    <3>1. a \in Int /\ w \in Int /\ a <= w /\ a * BlockFrames = BlockFrames
      BY <2>1, <2>3, Sizes
    <3> HIDE DEF a
    <3>2. a * BlockFrames <= w * BlockFrames /\ w * BlockFrames \in Int
      BY <3>1, Sizes, Products
    <3>3. k <= w * BlockFrames
      BY <3>1, <3>2, Sizes
    <3> QED
      BY <2>1, <3>3
  <2> QED
    BY <2>2, <2>3
<1> QED
    BY <1>2, <1>11, <1>12

\* The frames of a device have a first and a newest one.
LEMMA FirstAndNewest ==
    ASSUME NEW s, PlatterRight(platter, s), NEW S \in SUBSET Slots, S # {}
    PROVE  /\ \E x \in S : \A y \in S : Seq0(x) < Seq0(y) \/ (Seq0(x) = Seq0(y) /\ x <= y)
           /\ \E x \in S : \A y \in S : Seq0(x) > Seq0(y) \/ (Seq0(x) = Seq0(y) /\ x <= y)
<1>1. \A x \in S : Seq0(x) \in 0 .. MaxSeq
    BY CurrentFacts DEF Seq0, Frames
<1>2. S \subseteq Nat /\ MaxSeq \in Nat
    BY Sizes, BoundAssumption DEF Slots
<1>3. ASSUME NEW m \in Nat, \E x \in S : Seq0(x) = m
      PROVE  \E x \in S : Seq0(x) = m /\ \A y \in S : Seq0(y) = m => x <= y
  <2> DEFINE T == {x \in S : Seq0(x) = m}
  <2>1. T \subseteq Nat /\ T # {}
    BY <1>2, <1>3
  <2>2. PICK x \in T : \A y \in T : x <= y
    <3> HIDE DEF T
    <3> QED
      BY <2>1, LeastMember
  <2> QED
    BY <2>2
<1>4. \E x \in S : \A y \in S : Seq0(x) < Seq0(y) \/ (Seq0(x) = Seq0(y) /\ x <= y)
  <2> DEFINE T == {Seq0(x) : x \in S}
  <2>1. T \subseteq Nat /\ T # {}
    BY <1>1
  <2>2. PICK m \in T : \A n \in T : m <= n
    <3> HIDE DEF T
    <3> QED
      BY <2>1, LeastMember
  <2>3. m \in Nat /\ (\E x \in S : Seq0(x) = m) /\ \A y \in S : m <= Seq0(y)
    BY <2>1, <2>2
  <2>4. PICK x \in S : Seq0(x) = m /\ \A y \in S : Seq0(y) = m => x <= y
    BY <1>3, <2>3
  <2>5. \A y \in S : Seq0(x) < Seq0(y) \/ (Seq0(x) = Seq0(y) /\ x <= y)
    BY <1>1, <2>3, <2>4
  <2> QED
    BY <2>5
<1>5. \E x \in S : \A y \in S : Seq0(x) > Seq0(y) \/ (Seq0(x) = Seq0(y) /\ x <= y)
  <2> DEFINE T == {MaxSeq - Seq0(x) : x \in S}
  <2>0. \A x \in S : MaxSeq - Seq0(x) \in Nat
    BY <1>1, <1>2
  <2>1. T \subseteq Nat /\ T # {}
    BY <2>0
  <2>2. PICK k \in T : \A n \in T : k <= n
    <3> HIDE DEF T
    <3> QED
      BY <2>1, LeastMember
  <2>3. PICK z \in S : k = MaxSeq - Seq0(z)
    BY <2>2
  <2>4. \A y \in S : MaxSeq - Seq0(z) <= MaxSeq - Seq0(y)
    BY <2>2, <2>3
  <2>5. \A y \in S : Seq0(y) <= Seq0(z)
    BY <1>1, <1>2, <2>4
  <2>6. PICK x \in S : Seq0(x) = Seq0(z) /\ \A y \in S : Seq0(y) = Seq0(z) => x <= y
    <3>1. Seq0(z) \in Nat
      BY <1>1
    <3> QED
      BY <1>3, <3>1
  <2>7. \A y \in S : Seq0(x) > Seq0(y) \/ (Seq0(x) = Seq0(y) /\ x <= y)
    BY <1>1, <2>5, <2>6
  <2> QED
    BY <2>7
<1> QED
    BY <1>4, <1>5

\* Every step of the walk is a slot; no step is the slot itself.
LEMMA Walk ==
    ASSUME NEW x \in Slots
    PROVE  Ahead(x, 0) = x /\ \A n \in Nat : Ahead(x, n) \in Slots
<1> DEFINE z == RingBlocks * BlockFrames
<1>1. z \in Nat \ {0}
    BY Sizes
<1>2. Slots = 0 .. z - 1 /\ \A n : Ahead(x, n) = (x + n) % z
    BY DEF Slots, Ahead
<1> HIDE DEF z
<1>3. x \in 0 .. z - 1
    BY <1>2
<1>4. (0 * z + x) % z = x
    BY <1>1, <1>3, Quotient
<1>5. x + 0 = 0 * z + x
    BY <1>1, <1>3
<1>6. \A n \in Nat : (x + n) % z \in 0 .. z - 1
    BY <1>1, <1>3
<1> QED
    BY <1>2, <1>4, <1>5, <1>6

\* Such is a device that is accepted.
LEMMA AcceptedWalk ==
    ASSUME NEW c, Acceptable(c)
    PROVE  Walkable(c)
  BY DEF Acceptable, SelfCheck, Walkable

\* What Recover finds on a device that it accepts: tail and head are blocks of the log, the
\* last frame is the one before the next number, and there is room for the frames of the tail.
LEMMA Surveyed ==
    ASSUME DeviceRight, covered \in Nat, NEW c, c = Survey, Walkable(c)
    PROVE  /\ c.anchor \in 0 .. MaxSeq /\ covered <= c.anchor
           /\ c.frames \in 0 .. BlockFrames - 1
           /\ \A i \in 1 .. c.frames : c.tail * BlockFrames + i - 1 \in Slots
           /\ \E v, h \in Nat :
                  /\ Lies(v, c.tail) /\ Lies(h, c.head)
                  /\ v * BlockFrames + c.frames = c.anchor
                  /\ h * BlockFrames <= covered /\ covered < (h + 1) * BlockFrames
           /\ Within(c.anchor, covered)
           /\ Live = {} => c.anchor = covered
<1> DEFINE valid  == Valid
           live   == Live
           first  == CHOOSE x \in live : \A y \in live :
                       Seq0(x) < Seq0(y) \/ (Seq0(x) = Seq0(y) /\ x <= y)
           newest == CHOOSE x \in valid : \A y \in valid :
                       Seq0(x) > Seq0(y) \/ (Seq0(x) = Seq0(y) /\ x <= y)
           broken == {n \in 0 .. Cardinality(Slots) - 1 : Seq0(Ahead(first, n)) # covered + 1 + n}
           replayed == IF live = {} THEN 0
                       ELSE IF broken = {} THEN Cardinality(Slots)
                       ELSE CHOOSE n \in broken : \A m \in broken : n <= m
           anchor == IF replayed > 0 THEN Ahead(first, replayed - 1) ELSE newest
           full   == (anchor + 1) % BlockFrames = 0
           tail   == IF full THEN (Block(anchor) + 1) % RingBlocks ELSE Block(anchor)
<1>1. /\ c.valid = valid /\ c.live = live
      /\ c.replayed = replayed
      /\ c.anchor = IF valid = {} THEN 0 ELSE Seq0(anchor)
      /\ c.tail = IF valid = {} THEN 0 ELSE tail
      /\ c.frames = IF valid = {} \/ full THEN 0 ELSE (anchor % BlockFrames) + 1
      /\ c.head = IF valid = {} THEN 0 ELSE IF live = {} THEN tail ELSE Block(first)
    BY DEF Survey
<1>2. live \subseteq valid /\ valid \subseteq Slots
    BY DEF Live, Valid
<1>3. /\ \A x \in Slots : Seq0(x) \in 0 .. MaxSeq /\ Home(Seq0(x), x) /\ Within(Seq0(x), covered)
      /\ \A x \in valid : Seq0(x) # 0
      /\ \A x \in valid : x \in live \/ ~ (Seq0(x) > covered)
    BY CurrentFacts DEF Seq0, Frames, DeviceRight, Valid, Live
<1>4. /\ c.valid = {} => covered = 0
      /\ c.live # {} => c.replayed > 0
      /\ c.live = {} => c.anchor >= covered
    BY DEF Walkable
<1>5. CASE valid = {}
  <2>1. c.anchor = 0 /\ c.tail = 0 /\ c.frames = 0 /\ c.head = 0 /\ covered = 0
    BY <1>1, <1>4, <1>5
  <2>2. Lies(0, 0) /\ 0 * BlockFrames + 0 = 0 /\ 0 * BlockFrames <= 0 /\ 0 < (0 + 1) * BlockFrames
    <3>1. 0 = 0 * RingBlocks + 0 /\ 0 \in 0 .. RingBlocks - 1
      BY Sizes
    <3> QED
      BY <3>1, Sizes DEF Lies
  <2>3. Within(0, 0)
    BY Padding DEF None
  <2>4. 0 \in 0 .. MaxSeq /\ 0 \in 0 .. BlockFrames - 1 /\ 0 \in Nat /\ 0 <= 0
    BY Sizes, BoundAssumption
  <2> QED
    BY <2>1, <2>2, <2>3, <2>4
<1>6. CASE valid # {}
  <2>1. /\ anchor \in Slots /\ Seq0(anchor) # 0 /\ covered <= Seq0(anchor)
        /\ live = {} => Seq0(anchor) = covered
        /\ live # {} => first \in Slots /\ Seq0(first) = covered + 1
    <3>1. CASE live = {}
      <4>1. newest \in valid
        <5>1. \E x \in valid : \A y \in valid : Seq0(x) > Seq0(y) \/ (Seq0(x) = Seq0(y) /\ x <= y)
          BY <1>2, <1>6, FirstAndNewest DEF DeviceRight
        <5> QED
          BY <5>1
      <4> HIDE DEF newest
      <4>2. anchor = newest
        BY <3>1
      <4> HIDE DEF anchor
      <4>3. anchor \in Slots /\ Seq0(anchor) # 0 /\ ~ (Seq0(anchor) > covered)
        BY <1>2, <1>3, <3>1, <4>1, <4>2
      <4>4. Seq0(anchor) >= covered
        BY <1>1, <1>4, <1>6, <3>1
      <4>5. Seq0(anchor) = covered
        BY <1>3, <4>3, <4>4
      <4> QED
        BY <3>1, <4>3, <4>5
    <3>2. CASE live # {}
      <4>1. first \in live
        <5>1. \E x \in live : \A y \in live : Seq0(x) < Seq0(y) \/ (Seq0(x) = Seq0(y) /\ x <= y)
          <6>1. live \in SUBSET Slots
            BY <1>2
          <6> HIDE DEF live
          <6> QED
            BY <3>2, <6>1, FirstAndNewest DEF DeviceRight
        <5> QED
          BY <5>1
      <4> HIDE DEF first
      <4>2. first \in Slots /\ \A n \in Nat : Ahead(first, n) \in Slots /\ Ahead(first, 0) = first
        BY <1>2, <4>1, Walk
      <4>3. Cardinality(Slots) \in Nat
        <5>1. RingBlocks * BlockFrames - 1 \in Int
          BY Sizes
        <5>2. Cardinality(0 .. RingBlocks * BlockFrames - 1) \in Nat
          BY <5>1, FS_Interval
        <5> QED
          BY <5>2 DEF Slots
      <4>4. /\ replayed \in Nat /\ replayed > 0 /\ replayed <= Cardinality(Slots)
            /\ \A n \in 0 .. replayed - 1 : n \notin broken
        <5>1. replayed > 0
          BY <1>1, <1>4, <3>2
        <5>2. CASE broken = {}
          <6>1. replayed = Cardinality(Slots)
            BY <3>2, <5>2
          <6> QED
            BY <4>3, <5>1, <5>2, <6>1
        <5>3. CASE broken # {}
          <6>1. broken \subseteq Nat /\ \A n \in broken : n < Cardinality(Slots)
            BY <4>3
          <6>2. replayed = CHOOSE n \in broken : \A m \in broken : n <= m
            BY <3>2, <5>3
          <6> HIDE DEF broken, replayed
          <6>3. \E n \in broken : \A m \in broken : n <= m
            BY <5>3, <6>1, LeastMember
          <6>4. replayed \in broken /\ \A m \in broken : replayed <= m
            BY <6>2, <6>3
          <6> QED
            BY <4>3, <5>1, <6>1, <6>4
        <5> QED
          BY <5>2, <5>3
      <4>5. \A n \in 0 .. Cardinality(Slots) - 1 : n \notin broken => Seq0(Ahead(first, n)) = covered + 1 + n
        OBVIOUS
      <4>6. anchor = Ahead(first, replayed - 1)
        BY <4>4
      <4> HIDE DEF broken, replayed, anchor
      <4>7. 0 \in 0 .. replayed - 1 /\ replayed - 1 \in 0 .. replayed - 1
            /\ 0 \in 0 .. Cardinality(Slots) - 1 /\ replayed - 1 \in 0 .. Cardinality(Slots) - 1
        BY <4>3, <4>4
      <4>8. Seq0(Ahead(first, 0)) = covered + 1 + 0
        BY <4>4, <4>5, <4>7
      <4>9. Seq0(anchor) = covered + 1 + (replayed - 1)
        BY <4>4, <4>5, <4>6, <4>7
      <4>10. anchor \in Slots
        BY <4>2, <4>6, <4>7
      <4>11. Seq0(anchor) # 0 /\ covered <= Seq0(anchor) /\ Seq0(first) = covered + 1
        BY <4>2, <4>4, <4>8, <4>9
      <4> QED
        BY <3>2, <4>2, <4>10, <4>11
    <3> QED
      BY <3>1, <3>2
  <2>2. /\ c.anchor = Seq0(anchor) /\ c.tail = tail
        /\ c.frames = IF full THEN 0 ELSE (anchor % BlockFrames) + 1
        /\ live = {} => c.head = tail
        /\ live # {} => c.head = Block(first)
    BY <1>1, <1>6
  <2> HIDE DEF first, anchor
  <2>3. /\ Seq0(anchor) \in 0 .. MaxSeq /\ Seq0(anchor) \in Nat \ {0}
        /\ Home(Seq0(anchor), anchor) /\ Within(Seq0(anchor), covered)
    BY <1>3, <2>1
  <2>4. /\ c.frames \in 0 .. BlockFrames - 1
        /\ \E v \in Nat : Lies(v, tail) /\ v * BlockFrames + c.frames = Seq0(anchor)
        /\ \A i \in 1 .. c.frames : tail * BlockFrames + i - 1 \in Slots
    <3> DEFINE frames == c.frames
    <3>1. /\ full = ((anchor + 1) % BlockFrames = 0)
          /\ tail = IF full THEN (Block(anchor) + 1) % RingBlocks ELSE Block(anchor)
          /\ frames = IF full THEN 0 ELSE (anchor % BlockFrames) + 1
      BY <2>2
    <3>2. anchor \in Slots /\ Seq0(anchor) \in Nat \ {0} /\ Home(Seq0(anchor), anchor)
      BY <2>1, <2>3
    <3> HIDE DEF full, tail, frames
    <3>3. /\ frames \in 0 .. BlockFrames - 1
          /\ \E v \in Nat : Lies(v, tail) /\ v * BlockFrames + frames = Seq0(anchor)
          /\ \A i \in 1 .. frames : tail * BlockFrames + i - 1 \in Slots
      BY <3>1, <3>2, TailOf
    <3> QED
      BY <3>3 DEF frames
  <2> HIDE DEF tail, full
  <2>5. PICK v \in Nat : Lies(v, tail) /\ v * BlockFrames + c.frames = Seq0(anchor)
    BY <2>4
  <2>6. \E h \in Nat : Lies(h, c.head) /\ h * BlockFrames <= covered /\ covered < (h + 1) * BlockFrames
    <3>1. CASE live = {}
      <4>1. v * BlockFrames + c.frames = covered /\ Lies(v, c.head)
        BY <2>1, <2>2, <2>5, <3>1
      <4>2. v * BlockFrames \in Int /\ (v + 1) * BlockFrames = v * BlockFrames + BlockFrames
        BY Sizes, Products
      <4>3. c.frames \in 0 .. BlockFrames - 1 /\ BlockFrames \in Nat
        BY <2>4, Sizes
      <4>4. v * BlockFrames <= covered /\ covered < (v + 1) * BlockFrames
        BY <4>1, <4>2, <4>3
      <4> QED
        BY <4>1, <4>4
    <3>2. CASE live # {}
      <4>1. first \in Slots /\ Home(covered + 1, first) /\ covered + 1 \in Nat \ {0}
        BY <1>3, <2>1, <3>2
      <4>2. PICK h \in Nat : Lies(h, Block(first)) /\ (covered + 1) - 1 = h * BlockFrames + (first % BlockFrames)
        BY <4>1, BlockOf
      <4>3. first % BlockFrames \in 0 .. BlockFrames - 1
        BY <4>1, BlockOf
      <4>4. h * BlockFrames \in Int /\ (h + 1) * BlockFrames = h * BlockFrames + BlockFrames
        BY Sizes, Products
      <4>5. h * BlockFrames <= covered /\ covered < (h + 1) * BlockFrames
        BY <4>2, <4>3, <4>4, Sizes
      <4> QED
        BY <2>2, <3>2, <4>2, <4>5
    <3> QED
      BY <3>1, <3>2
  <2>7. Live = {} => c.anchor = covered
    BY <2>1, <2>2
  <2> QED
    BY <2>1, <2>2, <2>3, <2>4, <2>5, <2>6, <2>7
<1> QED
    BY <1>5, <1>6

\* Recover's erasure writes zeros only.
LEMMA GoodErase ==
    ASSUME DeviceRight, covered \in Nat, NEW c, Erase(c)
    PROVE  PlatterRight(platter', covered)
<1> DEFINE zone  == (c.tail + (IF c.frames > 0 THEN 1 ELSE 0)) * BlockFrames
                        .. ZoneEnd(c) * BlockFrames - 1
           after == c.tail * BlockFrames + c.frames .. (c.tail + 1) * BlockFrames - 1
           cleared == zone \cup (IF c.frames > 0 THEN after ELSE {})
           content == [x \in cleared |-> None]
<1>1. WriteAt(content)
    BY DEF Erase
<1> HIDE DEF cleared
<1>2. \A x \in Slots : x \in DOMAIN content =>
          content[x] \in Frames /\ Home(content[x][1], x) /\ Within(content[x][1], covered)
  <2>1. \A x \in Slots : None \in Frames /\ Home(None[1], x) /\ Within(None[1], covered)
    BY Padding
  <2> QED
    BY <2>1
<1> HIDE DEF content
<1> QED
    BY <1>1, <1>2, GoodWrite DEF DeviceRight

\* Recover leaves a log that is placed, with the frames of its last block in the buffer.
LEMMA RecoverInside ==
    ASSUME Inside, Recover
    PROVE  Inside'
<1>1. PICK c \in {Survey} :
         /\ Acceptable(c)
         /\ cur' = c.tail
         /\ head' = c.head
         /\ buf' = [i \in 1 .. c.frames |-> Current(c.tail * BlockFrames + i - 1)]
         /\ seq_next' = c.anchor + 1
         /\ window' = WindowAt(c.tail, c.head)
         /\ \/ mode' = "up" /\ UNCHANGED platter
            \/ mode' = "erasing" /\ Erase(c)
    BY DEF Recover
<1>2. /\ level' \in Levels
      /\ UNCHANGED <<covered, todo, local, last, life, promised, faults>>
    BY DEF Recover, call
<1>3. DeviceRight /\ covered \in Nat /\ covered \in 0 .. MaxSeq
    BY BoundAssumption DEF Inside, Typed
<1>4. /\ c.anchor \in 0 .. MaxSeq /\ covered <= c.anchor
      /\ c.frames \in 0 .. BlockFrames - 1
      /\ \A i \in 1 .. c.frames : c.tail * BlockFrames + i - 1 \in Slots
      /\ Within(c.anchor, covered)
    BY <1>1, <1>3, Surveyed, AcceptedWalk
<1>5. PICK v \in Nat, h \in Nat :
          /\ Lies(v, c.tail) /\ Lies(h, c.head)
          /\ v * BlockFrames + c.frames = c.anchor
          /\ h * BlockFrames <= covered /\ covered < (h + 1) * BlockFrames
  <2>1. \E v, h \in Nat :
          /\ Lies(v, c.tail) /\ Lies(h, c.head)
          /\ v * BlockFrames + c.frames = c.anchor
          /\ h * BlockFrames <= covered /\ covered < (h + 1) * BlockFrames
    BY <1>1, <1>3, Surveyed, AcceptedWalk
  <2> QED
    BY <2>1
<1>6. /\ h <= v /\ WindowAt(c.tail, c.head) \in 0 .. BufBlocks
      /\ WindowAt(c.tail, c.head) <= RingBlocks - 1 - (v - h) /\ WindowAt(c.tail, c.head) <= RingBlocks - c.tail
      /\ c.frames <= WindowAt(c.tail, c.head) * BlockFrames
  <2>1. c.anchor \in Nat
    BY <1>4, BoundAssumption
  <2> QED
    BY <1>3, <1>4, <1>5, <2>1, PlacedAgain
<1>7. \A i \in 1 .. c.frames : /\ Current(c.tail * BlockFrames + i - 1) \in Frames
                              /\ Home(Current(c.tail * BlockFrames + i - 1)[1], c.tail * BlockFrames + i - 1)
                              /\ Within(Current(c.tail * BlockFrames + i - 1)[1], covered)
  <2>1. PlatterRight(platter, covered)
    BY <1>3 DEF DeviceRight
  <2>2. ASSUME NEW i \in 1 .. c.frames
        PROVE  /\ Current(c.tail * BlockFrames + i - 1) \in Frames
               /\ Home(Current(c.tail * BlockFrames + i - 1)[1], c.tail * BlockFrames + i - 1)
               /\ Within(Current(c.tail * BlockFrames + i - 1)[1], covered)
    <3> DEFINE x == c.tail * BlockFrames + i - 1
    <3>1. x \in Slots
      BY <1>4
    <3> HIDE DEF x
    <3>2. Current(x) \in Frames /\ Home(Current(x)[1], x) /\ Within(Current(x)[1], covered)
      BY <2>1, <3>1, CurrentFacts
    <3> QED
      BY <3>2 DEF x
  <2> QED
    BY <2>2
<1>8. buf' \in Seq(Frames) /\ Len(buf') = c.frames
  <2>1. c.frames \in Nat
    BY <1>4, Sizes
  <2>2. \A i \in 1 .. c.frames : Current(c.tail * BlockFrames + i - 1) \in Frames
    BY <1>7
  <2> DEFINE f(i) == Current(c.tail * BlockFrames + i - 1)
  <2> HIDE DEF f
  <2>3. buf' = [i \in 1 .. c.frames |-> f(i)] /\ \A i \in 1 .. c.frames : f(i) \in Frames
    BY <1>1, <2>2 DEF f
  <2> QED
    BY <2>1, <2>3
<1>9. BufRight'
  <2>1. \A i \in 1 .. Len(buf') : Home(buf'[i][1], cur' * BlockFrames + i - 1) /\ Within(buf'[i][1], covered')
    BY <1>1, <1>2, <1>7, <1>8
  <2> QED
    BY <1>8, <2>1 DEF BufRight, BufferRight
<1>10. DeviceRight'
  <2>1. PlatterRight(platter', covered)
    BY <1>1, <1>3, GoodErase DEF DeviceRight
  <2> QED
    BY <1>2, <2>1 DEF DeviceRight
<1>11. Located'
  <2>1. covered' < seq_next'
    BY <1>1, <1>2, <1>3, <1>4
  <2>2. v * BlockFrames + Len(buf') = seq_next' - 1
    BY <1>1, <1>4, <1>5, <1>8
  <2>3. Placed(v, h)'
    BY <1>1, <1>2, <1>5, <1>6, <1>8, <2>2 DEF Placed, Lies
  <2> QED
    BY <2>1, <2>3 DEF Located
<1>12. Typed'
  <2>1. cur' \in 0 .. RingBlocks - 1 /\ head' \in 0 .. RingBlocks - 1
    BY <1>1, <1>5 DEF Lies
  <2>2. seq_next' \in 1 .. MaxSeq + 1
    BY <1>1, <1>4, BoundAssumption
  <2>3. window' \in 0 .. BufBlocks /\ mode' \in {"up", "down", "erasing", "refused"}
    BY <1>1, <1>6
  <2> QED
    BY <1>2, <2>1, <2>2, <2>3 DEF Inside, Typed
<1> QED
    BY <1>9, <1>10, <1>11, <1>12 DEF Inside

---------------------------------------------------------------------------
(* The steps.                                                              *)

\* The steps of a call are sequences of steps.
LEMMA StepLists ==
    /\ \A s \in Steps : <<s>> \in Seq(Steps)
    /\ \A s, t \in Steps : <<s, t>> \in Seq(Steps)
    /\ \A s, t, u \in Steps : <<s, t, u>> \in Seq(Steps)
    /\ <<>> \in Seq(Steps)
    /\ \A s \in Seq(Steps) : s # <<>> => Tail(s) \in Seq(Steps)
    /\ \A s, t \in Seq(Steps) : s \o t \in Seq(Steps)
  OBVIOUS

\* However a step ends, a well-formed list of steps is left.
LEMMA StepEnds ==
    ASSUME Typed, todo # <<>>, Continue \/ Fail \/ Full \/ \E r \in {"ok", "full", "failed"} : Return(r)
    PROVE  CallTyped'
<1>1. /\ todo \in Seq(Steps) /\ last \in {"ok", "full", "failed", "no_rescue"}
      /\ Tail(todo) \in Seq(Steps) /\ <<>> \in Seq(Steps)
      /\ <<"flush", "snapshot", "retry">> \in Seq(Steps) /\ <<"close">> \in Seq(Steps)
    BY StepLists DEF Typed, Steps
<1>2. CASE Continue
    BY <1>1, <1>2 DEF Continue, Return, CallTyped
<1>3. CASE Fail
    BY <1>1, <1>3 DEF Fail, Return, CallTyped
<1>4. CASE Full
    BY <1>1, <1>4 DEF Full, Return, CallTyped
<1>5. CASE \E r \in {"ok", "full", "failed"} : Return(r)
    BY <1>1, <1>5 DEF Return, CallTyped
<1> QED
    BY <1>2, <1>3, <1>4, <1>5

\* The steps that WriteWal consists of.
LEMMA WriteStepsTyped ==
    ASSUME NEW n \in Nat
    PROVE  WriteSteps(n) \in Seq(Steps)
<1>1. [i \in 1 .. n |-> "admit"] \in Seq(Steps)
    BY DEF Steps
<1>2. <<"tail", "batch_sync">> \in Seq(Steps) /\ <<"write">> \in Seq(Steps)
    BY StepLists DEF Steps
<1>3. [i \in 1 .. n |-> "admit"] \o <<"tail", "batch_sync">> \in Seq(Steps)
    BY <1>1, <1>2, StepLists
<1> QED
    BY <1>2, <1>3 DEF WriteSteps

\* No more failures than the bound allows.
LEMMA Counted ==
    ASSUME Typed, NEW made, NEW ok \in Outcomes(made), Count(ok)
    PROVE  faults' \in 0 .. MaxFaults
<1>1. faults \in 0 .. MaxFaults /\ MaxFaults \in Nat
    BY BoundAssumption DEF Typed
<1>2. CASE ok
    BY <1>1, <1>2 DEF Count
<1>3. CASE ~ ok
  <2>1. faults < MaxFaults
    BY <1>3, Zenon DEF Outcomes
  <2>2. faults' = faults + 1
    BY <1>3 DEF Count
  <2> QED
    BY <1>1, <2>1, <2>2
<1> QED
    BY <1>2, <1>3

\* A failed write leaves frames where they belong, or none.
LEMMA GoodFailure ==
    ASSUME Typed, DeviceRight, BufRight, WriteFails
    PROVE  PlatterRight(platter', covered)
<1>1. CASE WriteWindowSpan
    BY <1>1, GoodSpan
<1>2. CASE UNCHANGED device
    BY <1>2 DEF device, DeviceRight
<1> QED
    BY <1>1, <1>2 DEF WriteFails

\* A step that leaves the ring alone.
LEMMA RingKept ==
    ASSUME Inside, UNCHANGED <<ring, covered, life, promised>>,
           mode' \in {"up", "down", "erasing", "refused"}, mode' = mode \/ Open \/ ~ Open',
           PlatterRight(platter', covered), CallTyped', level' \in Levels, faults' \in 0 .. MaxFaults
    PROVE  Inside'
<1>1. Typed'
    BY DEF Inside, Typed, ring, CallTyped
<1>2. DeviceRight' /\ BufRight'
    BY DEF Inside, DeviceRight, BufRight, ring
<1>3. (Open => Located)'
  <2>1. Located => Located'
    BY DEF Located, Placed, ring
  <2> QED
    BY <2>1 DEF Inside, Open
<1> QED
    BY <1>1, <1>2, <1>3 DEF Inside

\* A step that leaves the device, its ring, the level and the mode alone.
LEMMA OnlyTheCall ==
    ASSUME Inside, UNCHANGED <<device, ring, level, covered, mode, ghost>>, CallTyped'
    PROVE  Inside'
<1>1. PlatterRight(platter', covered)
    BY DEF Inside, DeviceRight, device
<1>2. /\ UNCHANGED <<ring, covered, life, promised>> /\ level' \in Levels /\ faults' \in 0 .. MaxFaults
      /\ mode' \in {"up", "down", "erasing", "refused"} /\ mode' = mode
    BY DEF Inside, Typed, ghost, past
<1> QED
    BY <1>1, <1>2, RingKept

\* A step that moves the ring on.
LEMMA RingMoved ==
    ASSUME Inside, UNCHANGED <<level, covered, mode, life>>, PlatterRight(platter', covered),
           CallTyped', faults' \in 0 .. MaxFaults, promised' \in 0 .. MaxSeq, head' = head,
           cur' \in 0 .. RingBlocks - 1, window' \in 0 .. BufBlocks, seq_next' \in 1 .. MaxSeq + 1,
           BufRight', Located'
    PROVE  Inside'
<1>1. Typed'
    BY DEF Inside, Typed, CallTyped
<1>2. DeviceRight'
    BY DEF DeviceRight
<1> QED
    BY <1>1, <1>2 DEF Inside

\* What a step of a call may count on.
LEMMA AtFacts ==
    ASSUME Inside, NEW s, At(s)
    PROVE  /\ Typed /\ DeviceRight /\ BufRight /\ Open /\ Located /\ PlatterRight(platter, covered)
           /\ todo # <<>> /\ todo \in Seq(Steps) /\ Tail(todo) \in Seq(Steps)
           /\ seq_next - 1 \in 0 .. MaxSeq /\ covered \in 0 .. MaxSeq
  BY StepLists, BoundAssumption DEF Inside, At, Open, DeviceRight, Typed

\* The calls, retries and the switch of the level.
LEMMA CallsInside ==
    ASSUME Inside, WriteWal \/ Snapshot \/ Close \/ (\E l \in Levels : SetWalLevel(l)) \/ Retry
    PROVE  Inside'
<1>1. ASSUME NEW steps, NEW n, steps \in Seq(Steps), Call(steps, n)
      PROVE  Inside'
  <2>1. CallTyped'
    BY <1>1 DEF Call, CallTyped, Inside, Typed
  <2> QED
    BY <1>1, <2>1, OnlyTheCall DEF Call
<1>2. CASE WriteWal
  <2>1. PICK n \in 1 .. IF level = "sync" THEN MaxBatch ELSE 1 : Call(WriteSteps(n), n)
    BY <1>2 DEF WriteWal
  <2>2. n \in Nat
    BY <2>1
  <2> QED
    BY <1>1, <2>1, <2>2, WriteStepsTyped
<1>3. CASE Snapshot
  <2>1. <<"flush", "snapshot">> \in Seq(Steps)
    BY StepLists DEF Steps
  <2> QED
    BY <1>1, <1>3, <2>1 DEF Snapshot
<1>4. CASE Close
  <2>1. <<"flush", "close">> \in Seq(Steps)
    BY StepLists DEF Steps
  <2> QED
    BY <1>1, <1>4, <2>1 DEF Close
<1>5. CASE \E l \in Levels : SetWalLevel(l)
  <2>1. PICK l \in Levels : SetWalLevel(l)
    BY <1>5
  <2>2. l \in Steps /\ "flush" \in Steps
    BY LevelAssumption DEF Steps
  <2>3. (IF l = "sync" THEN <<"flush", l>> ELSE <<l>>) \in Seq(Steps)
    BY <2>2, StepLists
  <2> QED
    BY <1>1, <2>1, <2>3 DEF SetWalLevel
<1>6. CASE Retry
  <2>1. WriteSteps(1) \in Seq(Steps)
    BY WriteStepsTyped
  <2>2. CallTyped'
    BY <1>6, <2>1 DEF Retry, CallTyped, Inside, Typed
  <2> QED
    BY <1>6, <2>2, OnlyTheCall DEF Retry
<1> QED
    BY <1>2, <1>3, <1>4, <1>5, <1>6

\* One frame of a batch: the window is opened again, written out, or filled.
LEMMA AdmitInside ==
    ASSUME Inside, AdmitReopen \/ AdmitSegment \/ AdmitAppend
    PROVE  Inside'
<1>1. CASE AdmitReopen
  <2>1. /\ Typed /\ DeviceRight /\ BufRight /\ Open /\ Located /\ PlatterRight(platter, covered)
        /\ todo \in Seq(Steps) /\ window = 0 /\ window' = WindowAt(cur, head)
        /\ UNCHANGED <<device, cur, head, buf, seq_next, level, covered, mode, last, ghost>>
    BY <1>1, AtFacts DEF AdmitReopen
  <2>2. CallTyped'
    <3>1. <<"tail", "batch_sync">> \in Seq(Steps)
      BY StepLists DEF Steps
    <3>2. todo' = todo \/ todo' = <<"tail", "batch_sync">>
      BY <1>1 DEF AdmitReopen
    <3> QED
      BY <2>1, <3>1, <3>2 DEF CallTyped, Typed
  <2>3. WindowAt(cur, head) \in 0 .. BufBlocks
    BY <2>1, Reopened
  <2>4. Located'
    <3>1. PICK v \in Nat, h \in Nat : Placed(v, h)
      BY <2>1 DEF Located
    <3>2. WindowAt(cur, head) <= RingBlocks - 1 - (v - h) /\ WindowAt(cur, head) <= RingBlocks - cur
      BY <2>1, <3>1, Reopened
    <3>3. Len(buf) <= window' * BlockFrames
      <4>1. Len(buf) <= 0
        <5>1. Len(buf) <= window * BlockFrames /\ 0 * BlockFrames = 0
          BY <3>1, Sizes DEF Placed
        <5> QED
          BY <2>1, <5>1
      <4>2. PICK n \in Nat : n = window'
        BY <2>1, <2>3, Sizes
      <4>3. n * BlockFrames \in Nat
        <5>1. BlockFrames \in Nat
          BY Sizes
        <5> QED
          BY <5>1
      <4>4. Len(buf) \in Nat
        BY <2>1, LenProperties DEF BufRight, BufferRight
      <4> QED
        BY <4>1, <4>2, <4>3, <4>4
    <3>4. Placed(v, h)'
      BY <2>1, <3>1, <3>2, <3>3 DEF Placed, Lies
    <3> QED
      BY <2>1, <3>4 DEF Located
  <2>5. BufRight'
    BY <2>1 DEF BufRight
  <2> QED
    BY <2>1, <2>2, <2>3, <2>4, <2>5, RingMoved DEF Typed, ghost, past, device
<1>2. CASE AdmitSegment
  <2>1. PICK ok \in Outcomes(TRUE) :
         /\ Count(ok)
         /\ IF ok
            THEN /\ WriteWindowSpan
                 /\ AdvanceAfterWrite
                 /\ todo' = IF window' = 0 THEN <<"tail", "batch_sync">> ELSE todo
                 /\ last' = last
            ELSE WriteFails /\ UNCHANGED <<cur, buf, window>>
    BY <1>2 DEF AdmitSegment
  <2>2. /\ Typed /\ DeviceRight /\ BufRight /\ Open /\ Located /\ todo # <<>>
        /\ todo \in Seq(Steps)
        /\ UNCHANGED <<head, seq_next, level, covered, mode, past>>
    BY <1>2, AtFacts DEF AdmitSegment
  <2>3. faults' \in 0 .. MaxFaults
    BY <2>1, <2>2, Counted
  <2>4. CASE ok
    <3>1. PlatterRight(platter', covered)
      BY <2>1, <2>2, <2>4, GoodSpan
    <3>2. cur' \in 0 .. RingBlocks - 1 /\ window' \in 0 .. BufBlocks /\ BufRight' /\ Located'
      BY <2>1, <2>2, <2>4, Advanced
    <3>3. CallTyped'
      <4>1. <<"tail", "batch_sync">> \in Seq(Steps)
        BY StepLists DEF Steps
      <4> QED
        BY <2>1, <2>2, <2>4, <4>1 DEF CallTyped, Typed
    <3> QED
      BY <2>2, <2>3, <3>1, <3>2, <3>3, RingMoved DEF Typed, past
  <2>5. CASE ~ ok
    <3>1. PlatterRight(platter', covered)
      BY <2>1, <2>2, <2>5, GoodFailure
    <3>2. CallTyped'
      BY <2>1, <2>2, <2>5, StepEnds DEF WriteFails
    <3> QED
      BY <2>1, <2>2, <2>3, <2>5, <3>1, <3>2, RingKept DEF Typed, past, ring
  <2> QED
    BY <2>4, <2>5
<1>3. CASE AdmitAppend
  <2>1. /\ Typed /\ DeviceRight /\ BufRight /\ Open /\ Located /\ PlatterRight(platter, covered)
        /\ Tail(todo) \in Seq(Steps) /\ ~ WindowFull(window) /\ AppendEntry /\ todo' = Tail(todo)
        /\ UNCHANGED <<device, cur, head, window, level, covered, mode, last, life, promised, half_erased, faithful, faults>>
    BY <1>3, AtFacts DEF AdmitAppend
  <2>2. CallTyped'
    BY <2>1 DEF CallTyped, Typed
  <2>3. seq_next' \in 1 .. MaxSeq + 1 /\ BufRight' /\ Located'
    <3>1. \A v, h \in Nat : Placed(v, h) => window <= RingBlocks - 1 - (v - h) /\ window <= RingBlocks - cur
      BY DEF Placed
    <3>2. window \in Nat
      BY <2>1 DEF Typed
    <3> QED
      BY <2>1, <3>1, <3>2, Appended
  <2> QED
    BY <2>1, <2>2, <2>3, RingMoved DEF Typed, device
<1> QED
    BY <1>1, <1>2, <1>3

\* The end of a batch: its last segment and its fdatasync.
LEMMA BatchInside ==
    ASSUME Inside, BatchTail \/ BatchSync
    PROVE  Inside'
<1>1. CASE BatchTail
  <2>1. PICK ok \in Outcomes(local.dirty) :
         /\ Count(ok)
         /\ IF ~ local.dirty THEN Continue /\ UNCHANGED <<device, cur, buf, window>>
            ELSE IF ok
            THEN /\ WriteWindowSpan
                 /\ AdvanceAfterWrite
                 /\ todo' = Tail(todo)
                 /\ last' = last
            ELSE WriteFails /\ UNCHANGED <<cur, buf, window>>
    BY <1>1 DEF BatchTail
  <2>2. /\ Typed /\ DeviceRight /\ BufRight /\ Open /\ Located /\ todo # <<>> /\ Tail(todo) \in Seq(Steps)
        /\ PlatterRight(platter, covered)
        /\ UNCHANGED <<head, seq_next, level, covered, mode, past>>
    BY <1>1, AtFacts DEF BatchTail
  <2>3. faults' \in 0 .. MaxFaults
    BY <2>1, <2>2, Counted
  <2>4. CASE ~ local.dirty
    <3>1. CallTyped'
      BY <2>1, <2>2, <2>4, StepEnds
    <3>2. PlatterRight(platter', covered)
      BY <2>1, <2>2, <2>4 DEF device
    <3> QED
      BY <2>1, <2>2, <2>3, <2>4, <3>1, <3>2, RingKept DEF Typed, past, ring
  <2>5. CASE local.dirty /\ ok
    <3>1. PlatterRight(platter', covered)
      BY <2>1, <2>2, <2>5, GoodSpan
    <3>2. cur' \in 0 .. RingBlocks - 1 /\ window' \in 0 .. BufBlocks /\ BufRight' /\ Located'
      BY <2>1, <2>2, <2>5, Advanced
    <3>3. CallTyped'
      BY <2>1, <2>2, <2>5 DEF CallTyped, Typed
    <3> QED
      BY <2>2, <2>3, <3>1, <3>2, <3>3, RingMoved DEF Typed, past
  <2>6. CASE local.dirty /\ ~ ok
    <3>1. PlatterRight(platter', covered)
      BY <2>1, <2>2, <2>6, GoodFailure
    <3>2. CallTyped'
      BY <2>1, <2>2, <2>6, StepEnds DEF WriteFails
    <3> QED
      BY <2>1, <2>2, <2>3, <2>6, <3>1, <3>2, RingKept DEF Typed, past, ring
  <2> QED
    BY <2>4, <2>5, <2>6
<1>2. CASE BatchSync
  <2>1. PICK ok \in Outcomes(local.wrote) :
         /\ Count(ok)
         /\ IF ok
            THEN /\ IF local.wrote THEN Sync /\ half_erased' = FALSE /\ promised' = seq_next - 1
                                   ELSE UNCHANGED <<platter, half_erased, promised>>
                 /\ IF local.full THEN Full ELSE Return("ok")
            ELSE Fail /\ UNCHANGED <<device, half_erased, promised>>
    BY <1>2 DEF BatchSync
  <2>2. /\ Typed /\ PlatterRight(platter, covered) /\ todo # <<>> /\ seq_next - 1 \in 0 .. MaxSeq
        /\ UNCHANGED <<ring, level, covered, mode, life>>
    BY <1>2, AtFacts DEF BatchSync
  <2>3. faults' \in 0 .. MaxFaults
    BY <2>1, <2>2, Counted
  <2>4. CallTyped'
    <3>1. Continue \/ Fail \/ Full \/ \E r \in {"ok", "full", "failed"} : Return(r)
      BY <2>1
    <3> QED
      BY <2>2, <3>1, StepEnds
  <2>5. PlatterRight(platter', covered)
    <3>1. Sync \/ platter' = platter
      BY <2>1 DEF device
    <3> QED
      BY <2>2, <3>1, GoodSync
  <2>6. promised' \in 0 .. MaxSeq
    BY <2>1, <2>2 DEF Typed
  <2>7. Located' /\ BufRight'
    BY <1>2, <2>2, AtFacts DEF BatchSync, Located, Placed, BufRight, ring
  <2>8. cur' = cur /\ head' = head /\ window' = window /\ seq_next' = seq_next
    BY <2>2 DEF ring
  <2> QED
    BY <2>2, <2>3, <2>4, <2>5, <2>6, <2>7, <2>8, RingMoved DEF Typed
<1> QED
    BY <1>1, <1>2

\* A write at a batched level.
LEMMA BatchedInside ==
    ASSUME Inside, BatchedWrite
    PROVE  Inside'
<1> DEFINE w == IF window = 0 THEN WindowAt(cur, head) ELSE window
<1>1. /\ Typed /\ DeviceRight /\ BufRight /\ Open /\ Located /\ PlatterRight(platter, covered)
      /\ todo # <<>> /\ todo \in Seq(Steps)
      /\ UNCHANGED <<device, level, covered, mode, life, promised, half_erased, faithful, faults>>
    BY AtFacts DEF BatchedWrite
<1>2. \/ w = 0 /\ Full /\ UNCHANGED <<ring, history>>
      \/ /\ w # 0 /\ WindowFull(w) /\ window' = w /\ todo' = <<"flush">> \o todo
         /\ UNCHANGED <<cur, head, buf, seq_next, local, last, history>>
      \/ /\ w # 0 /\ ~ WindowFull(w) /\ window' = w /\ AppendEntry
         /\ (todo' = <<"flush">> /\ UNCHANGED <<local, last>>) \/ Return("ok")
         /\ UNCHANGED <<cur, head>>
    BY DEF BatchedWrite
<1>3. w \in 0 .. BufBlocks /\ \A v, h \in Nat : Placed(v, h) => w <= RingBlocks - 1 - (v - h) /\ w <= RingBlocks - cur
  <2>1. CASE window = 0
    <3>1. w = WindowAt(cur, head)
      BY <2>1
    <3> HIDE DEF w
    <3> QED
      BY <1>1, <3>1, Reopened
  <2>2. CASE window # 0
    <3>1. w = window
      BY <2>2
    <3> HIDE DEF w
    <3> QED
      BY <1>1, <3>1 DEF Placed, Typed
  <2> QED
    BY <2>1, <2>2
<1>4. \A v, h \in Nat : Placed(v, h) => Len(buf) <= w * BlockFrames
  <2> TAKE v, h \in Nat
  <2> HAVE Placed(v, h)
  <2>1. Len(buf) <= window * BlockFrames
    BY DEF Placed
  <2>2. CASE window = 0
    <3>1. w \in Nat /\ Len(buf) \in Nat
      BY <1>1, <1>3, Sizes, LenProperties DEF BufRight, BufferRight
    <3>2. Len(buf) <= 0
      <4>1. 0 * BlockFrames = 0
        BY Sizes
      <4> QED
        BY <2>1, <2>2, <4>1
    <3> HIDE DEF w
    <3>3. w * BlockFrames \in Nat
      BY <3>1, Sizes
    <3> QED
      BY <3>1, <3>2, <3>3
  <2>3. CASE window # 0
    BY <2>1, <2>3
  <2> QED
    BY <2>2, <2>3
<1>5. <<"flush">> \in Seq(Steps)
    BY StepLists DEF Steps
<1> HIDE DEF w
<1>6. CASE w = 0 /\ Full /\ UNCHANGED <<ring, history>>
  <2>1. CallTyped'
    BY <1>1, <1>6, StepEnds
  <2>2. PlatterRight(platter', covered)
    BY <1>1 DEF device
  <2> QED
    BY <1>1, <1>6, <2>1, <2>2, RingKept DEF Typed
<1>7. CASE /\ w # 0 /\ WindowFull(w) /\ window' = w /\ todo' = <<"flush">> \o todo
           /\ UNCHANGED <<cur, head, buf, seq_next, local, last, history>>
  <2>1. CallTyped'
    BY <1>1, <1>5, <1>7, StepLists DEF CallTyped, Typed
  <2>2. PlatterRight(platter', covered)
    BY <1>1 DEF device
  <2>3. Located'
    <3>1. PICK v \in Nat, h \in Nat : Placed(v, h)
      BY <1>1 DEF Located
    <3>2. Placed(v, h)'
      BY <1>1, <1>3, <1>4, <1>7, <3>1 DEF Placed, Lies
    <3> QED
      BY <1>1, <1>7, <3>2 DEF Located
  <2>4. BufRight'
    BY <1>1, <1>7 DEF BufRight
  <2> QED
    BY <1>1, <1>3, <1>7, <2>1, <2>2, <2>3, <2>4, RingMoved DEF Typed
<1>8. CASE /\ w # 0 /\ ~ WindowFull(w) /\ window' = w /\ AppendEntry
           /\ (todo' = <<"flush">> /\ UNCHANGED <<local, last>>) \/ Return("ok")
           /\ UNCHANGED <<cur, head>>
  <2>1. CallTyped'
    <3>1. CASE todo' = <<"flush">> /\ UNCHANGED <<local, last>>
      BY <1>1, <1>5, <3>1 DEF CallTyped, Typed
    <3>2. CASE Return("ok")
      BY <1>1, <3>2, StepEnds
    <3> QED
      BY <1>8, <3>1, <3>2
  <2>2. PlatterRight(platter', covered)
    BY <1>1 DEF device
  <2>3. seq_next' \in 1 .. MaxSeq + 1 /\ BufRight' /\ Located'
    <3>1. w \in Nat
      BY <1>3, Sizes
    <3> QED
      BY <1>1, <1>3, <1>8, <3>1, Appended
  <2> QED
    BY <1>1, <1>3, <1>8, <2>1, <2>2, <2>3, RingMoved DEF Typed
<1> QED
    BY <1>2, <1>6, <1>7, <1>8

\* Flush: the buffered frames are written, and the tail moves on after fdatasync.
LEMMA FlushInside ==
    ASSUME Inside, FlushWrite \/ FlushSync
    PROVE  Inside'
<1>1. CASE FlushWrite
  <2> DEFINE idle == level = "sync" \/ buf = <<>>
  <2>1. PICK ok \in Outcomes(~ idle) :
         /\ Count(ok)
         /\ IF idle THEN Continue /\ UNCHANGED device
            ELSE IF ok
            THEN /\ WriteWindowSpan
                 /\ todo' = <<"flush_sync">> \o Tail(todo)
                 /\ UNCHANGED <<local, last>>
            ELSE WriteFails
    BY <1>1 DEF FlushWrite
  <2>2. /\ Typed /\ DeviceRight /\ BufRight /\ todo # <<>> /\ Tail(todo) \in Seq(Steps)
        /\ PlatterRight(platter, covered)
        /\ UNCHANGED <<ring, level, covered, mode, past>>
    BY <1>1, AtFacts DEF FlushWrite
  <2>3. faults' \in 0 .. MaxFaults
    BY <2>1, <2>2, Counted
  <2>4. CallTyped'
    <3>1. <<"flush_sync">> \in Seq(Steps)
      BY StepLists DEF Steps
    <3>2. CASE todo' = <<"flush_sync">> \o Tail(todo) /\ UNCHANGED <<local, last>>
      BY <2>2, <3>1, <3>2, StepLists DEF CallTyped, Typed
    <3>3. CASE Continue \/ Fail
      BY <2>2, <3>3, StepEnds
    <3> QED
      BY <2>1, <3>2, <3>3 DEF WriteFails
  <2>5. PlatterRight(platter', covered)
    <3>1. CASE UNCHANGED device
      BY <2>2, <3>1 DEF device
    <3>2. CASE WriteWindowSpan
      BY <2>2, <3>2, GoodSpan
    <3>3. CASE WriteFails
      BY <2>2, <3>3, GoodFailure
    <3> QED
      BY <2>1, <3>1, <3>2, <3>3
  <2> QED
    BY <2>2, <2>3, <2>4, <2>5, RingKept DEF Typed, past
<1>2. CASE FlushSync
  <2>1. PICK ok \in Outcomes(TRUE) :
         /\ Count(ok)
         /\ IF ok THEN Sync /\ half_erased' = FALSE /\ AdvanceAfterWrite /\ promised' = seq_next - 1 /\ Continue
                  ELSE Fail /\ UNCHANGED <<device, cur, buf, window, half_erased, promised>>
    BY <1>2 DEF FlushSync
  <2>2. /\ Typed /\ BufRight /\ Open /\ Located /\ PlatterRight(platter, covered) /\ todo # <<>>
        /\ seq_next - 1 \in 0 .. MaxSeq
        /\ UNCHANGED <<head, seq_next, level, covered, mode, life, history, faithful>>
    BY <1>2, AtFacts DEF FlushSync
  <2>3. faults' \in 0 .. MaxFaults
    BY <2>1, <2>2, Counted
  <2>4. CallTyped'
    BY <2>1, <2>2, StepEnds
  <2>5. CASE ok
    <3>1. PlatterRight(platter', covered)
      BY <2>1, <2>2, <2>5, GoodSync
    <3>2. cur' \in 0 .. RingBlocks - 1 /\ window' \in 0 .. BufBlocks /\ BufRight' /\ Located'
      BY <2>1, <2>2, <2>5, Advanced
    <3> QED
      BY <2>1, <2>2, <2>3, <2>4, <2>5, <3>1, <3>2, RingMoved DEF Typed
  <2>6. CASE ~ ok
    BY <2>1, <2>2, <2>3, <2>4, <2>6, RingKept DEF Typed, device, ring
  <2> QED
    BY <2>5, <2>6
<1> QED
    BY <1>1, <1>2

\* A snapshot covers every number given out; the head moves to the tail.
LEMMA SnapshotInside ==
    ASSUME Inside, TakeSnapshot
    PROVE  Inside'
<1>1. PICK ok \in Outcomes(TRUE) :
         /\ Count(ok)
         /\ IF ok THEN covered' = seq_next - 1 /\ head' = cur /\ Continue
                  ELSE covered' \in {covered, seq_next - 1} /\ head' = head /\ Fail
    BY DEF TakeSnapshot
<1>2. /\ Typed /\ DeviceRight /\ BufRight /\ Open /\ Located /\ todo # <<>>
      /\ seq_next - 1 \in 0 .. MaxSeq /\ covered \in 0 .. MaxSeq
      /\ UNCHANGED <<device, cur, buf, window, seq_next, level, mode, past>>
    BY AtFacts DEF TakeSnapshot
<1>3. faults' \in 0 .. MaxFaults
    BY <1>1, <1>2, Counted
<1>4. CallTyped'
    BY <1>1, <1>2, StepEnds
<1>5. covered' \in 0 .. MaxSeq /\ covered <= covered' /\ covered' < seq_next'
  <2>1. covered < seq_next /\ seq_next \in 1 .. MaxSeq + 1
    BY <1>2 DEF Located, Typed
  <2> QED
    BY <1>1, <1>2, <2>1, BoundAssumption
<1>6. DeviceRight' /\ BufRight'
  <2>1. covered \in Nat /\ covered' \in Nat
    BY <1>2, <1>5, BoundAssumption
  <2>2. PlatterRight(platter, covered') /\ BufferRight(buf, cur, covered')
    BY <1>2, <1>5, <2>1, LaterSnapshot DEF DeviceRight, BufRight
  <2> QED
    BY <1>2, <2>2 DEF DeviceRight, BufRight, device
<1>7. Located'
  <2>1. PICK v \in Nat, h \in Nat : Placed(v, h)
    BY <1>2 DEF Located
  <2>2. /\ Lies(v, cur) /\ Lies(h, head) /\ h <= v /\ h * BlockFrames <= covered
        /\ v * BlockFrames + Len(buf) = seq_next - 1
        /\ window <= RingBlocks - 1 - (v - h) /\ window <= RingBlocks - cur
        /\ Len(buf) <= window * BlockFrames
    BY <2>1 DEF Placed
  <2>3. h * BlockFrames \in Int /\ v * BlockFrames \in Int /\ Len(buf) \in Nat
    BY <1>2, Sizes, Products, LenProperties DEF BufRight, BufferRight
  <2>4. CASE ok
    <3>1. v * BlockFrames <= covered'
      BY <1>1, <1>2, <2>2, <2>3, <2>4
    <3>2. window <= RingBlocks - 1 - (v - v)
      BY <1>2, <2>2, Sizes DEF Typed
    <3>3. Placed(v, v)'
      <4>1. Lies(v, cur)' /\ Lies(v, head)'
        BY <1>1, <1>2, <2>2, <2>4 DEF Lies
      <4>2. window' <= RingBlocks - 1 - (v - v) /\ v <= v /\ seq_next' = seq_next /\ buf' = buf /\ cur' = cur
            /\ window' = window
        BY <1>2, <3>2
      <4> QED
        BY <2>2, <3>1, <4>1, <4>2 DEF Placed
    <3> QED
      BY <1>5, <3>3 DEF Located
  <2>5. CASE ~ ok
    <3>1. h * BlockFrames <= covered'
      BY <1>2, <1>5, <2>2, <2>3
    <3>2. Placed(v, h)'
      BY <1>1, <1>2, <2>2, <2>5, <3>1 DEF Placed, Lies
    <3> QED
      BY <1>5, <3>2 DEF Located
  <2> QED
    BY <2>4, <2>5
<1>8. head' \in 0 .. RingBlocks - 1
    BY <1>1, <1>2 DEF Typed
<1>9. Typed'
    BY <1>2, <1>3, <1>4, <1>5, <1>8 DEF Typed, CallTyped, past
<1> QED
    BY <1>6, <1>7, <1>9 DEF Inside

\* A process that stops leaves nothing but the device.
LEMMA StopInside ==
    ASSUME Inside, CloseDevice \/ PowerFailure \/ Kill
    PROVE  Inside'
<1>1. /\ life <= MaxLives /\ life' = life + 1 /\ Forget /\ mode' = "down"
      /\ UNCHANGED <<level, covered, promised, faults>>
      /\ Torn \/ UNCHANGED platter
    BY DEF CloseDevice, PowerFailure, Kill, device
<1>2. PlatterRight(platter', covered)
    BY <1>1, GoodTorn DEF Inside, DeviceRight
<1>3. cur' = 0 /\ head' = 0 /\ buf' = <<>> /\ window' = 0 /\ seq_next' = 1 /\ todo' = <<>> /\ last' = "ok"
    BY <1>1 DEF Forget
<1>4. life' \in 1 .. MaxLives + 1
    BY <1>1, BoundAssumption DEF Inside, Typed
<1>5. Typed'
  <2>1. 0 \in 0 .. RingBlocks - 1 /\ 0 \in 0 .. BufBlocks /\ 1 \in 1 .. MaxSeq + 1 /\ <<>> \in Seq(Steps)
    BY Sizes, BoundAssumption
  <2> QED
    BY <1>1, <1>3, <1>4, <2>1 DEF Inside, Typed
<1>6. BufRight' /\ DeviceRight'
    BY <1>1, <1>2, <1>3 DEF BufRight, BufferRight, DeviceRight
<1> QED
    BY <1>1, <1>5, <1>6 DEF Inside, Open

\* The end of an erasure, and a log that is refused.
LEMMA OtherInside ==
    ASSUME Inside, SwitchLevel \/ FinishErase \/ Refuse \/ Refused
    PROVE  Inside'
<1>1. CASE SwitchLevel
  <2>1. PICK l \in Levels : At(l) /\ level' = l /\ Continue
              /\ UNCHANGED <<device, ring, covered, mode, ghost>>
    BY <1>1 DEF SwitchLevel
  <2>2. Typed /\ todo # <<>> /\ PlatterRight(platter, covered)
    BY <2>1, AtFacts
  <2>3. CallTyped'
    BY <2>1, <2>2, StepEnds
  <2>4. /\ PlatterRight(platter', covered) /\ level' \in Levels /\ faults' \in 0 .. MaxFaults
        /\ mode' \in {"up", "down", "erasing", "refused"}
    BY <2>1, <2>2 DEF device, ghost, Typed
  <2> QED
    BY <2>1, <2>3, <2>4, RingKept DEF ghost, past
<1>2. CASE FinishErase
  <2>1. PlatterRight(platter', covered)
    BY <1>2, GoodSync DEF FinishErase, Inside, DeviceRight
  <2>2. CallTyped'
    BY <1>2 DEF FinishErase, call, CallTyped, Inside, Typed
  <2>3. Open /\ mode' = "up"
    BY <1>2 DEF FinishErase, Open
  <2> QED
    BY <1>2, <2>1, <2>2, <2>3, RingKept DEF FinishErase, Inside, Typed
<1>3. CASE Refuse
  <2>1. PlatterRight(platter', covered)
    BY <1>3 DEF Refuse, Inside, DeviceRight, device
  <2>2. CallTyped'
    BY <1>3 DEF Refuse, call, CallTyped, Inside, Typed
  <2>3. mode' = "refused" /\ ~ Open'
    BY <1>3 DEF Refuse, Open
  <2> QED
    BY <1>3, <2>1, <2>2, <2>3, RingKept DEF Refuse, Inside, Typed, ghost, past
<1>4. CASE Refused
  <2>1. PlatterRight(platter', covered)
    BY <1>4 DEF Refused, vars, Inside, DeviceRight, device
  <2>2. CallTyped'
    BY <1>4 DEF Refused, vars, call, CallTyped, Inside, Typed
  <2> QED
    BY <1>4, <2>1, <2>2, RingKept DEF Refused, vars, Inside, Typed, ghost, past
<1> QED
    BY <1>1, <1>2, <1>3, <1>4

---------------------------------------------------------------------------
(* The theorem.                                                            *)

\* The log begins with an empty window at the start of the ring.
LEMMA InsideInit == Init => Inside
<1> SUFFICES ASSUME Init PROVE Inside
    OBVIOUS
<1>1. /\ platter = [x \in Slots |-> <<None>>]
      /\ cur = 0 /\ head = 0 /\ buf = <<>> /\ window = WindowAt(0, 0)
      /\ seq_next = 1 /\ level \in Levels /\ covered = 0 /\ mode = "up"
      /\ todo = <<>> /\ last = "ok" /\ faults = 0 /\ life = 1 /\ promised = 0
    BY DEF Init
<1>2. Lies(0, 0)
  <2>1. 0 = 0 * RingBlocks + 0 /\ 0 \in 0 .. RingBlocks - 1
    BY Sizes
  <2> QED
    BY <2>1 DEF Lies
<1>3. WindowAt(0, 0) \in 0 .. BufBlocks /\ WindowAt(0, 0) <= RingBlocks - 1 - (0 - 0) /\ WindowAt(0, 0) <= RingBlocks - 0
  <2>1. 0 \in Nat /\ 0 <= 0 /\ 0 - 0 <= RingBlocks - 1
    BY Sizes
  <2> QED
    BY <1>2, <2>1, WindowFacts
<1>4. Typed
  <2>1. 0 \in 0 .. RingBlocks - 1 /\ 1 \in 1 .. MaxSeq + 1 /\ <<>> \in Seq(Steps) /\ 0 \in 0 .. MaxSeq
        /\ 1 \in 1 .. MaxLives + 1 /\ 0 \in 0 .. MaxFaults
    BY Sizes, BoundAssumption
  <2> QED
    BY <1>1, <1>3, <2>1 DEF Typed
<1>5. DeviceRight
  <2>1. \A x \in Slots : None \in Frames /\ Home(None[1], x) /\ Within(None[1], 0)
    BY Padding
  <2> QED
    BY <1>1, <2>1 DEF DeviceRight, PlatterRight
<1>6. BufRight
    BY <1>1 DEF BufRight, BufferRight
<1>7. Located
  <2>1. 0 * BlockFrames = 0 /\ Len(buf) = 0
    BY <1>1, Sizes
  <2>2. Len(buf) <= window * BlockFrames
    <3>1. PICK n \in Nat : n = window
      BY <1>1, <1>3, Sizes
    <3>2. n * BlockFrames \in Nat
      <4>1. BlockFrames \in Nat
        BY Sizes
      <4> QED
        BY <4>1
    <3> QED
      BY <2>1, <3>1, <3>2
  <2>3. Placed(0, 0)
    <3>1. 0 * BlockFrames + Len(buf) = seq_next - 1 /\ 0 * BlockFrames <= covered
      BY <1>1, <2>1
    <3> QED
      BY <1>1, <1>2, <1>3, <2>2, <3>1 DEF Placed
  <2> QED
    BY <1>1, <2>3 DEF Located
<1> QED
    BY <1>4, <1>5, <1>6, <1>7 DEF Inside

\* Every step keeps the log inside its ring.
LEMMA InsideNext == Inside /\ [Next]_vars => Inside'
<1> SUFFICES ASSUME Inside, [Next]_vars PROVE Inside'
    OBVIOUS
<1>1. CASE WriteWal \/ Snapshot \/ Close \/ (\E l \in Levels : SetWalLevel(l)) \/ Retry
    BY <1>1, CallsInside
<1>2. CASE AdmitReopen \/ AdmitSegment \/ AdmitAppend
    BY <1>2, AdmitInside
<1>3. CASE BatchTail \/ BatchSync
    BY <1>3, BatchInside
<1>4. CASE BatchedWrite
    BY <1>4, BatchedInside
<1>5. CASE FlushWrite \/ FlushSync
    BY <1>5, FlushInside
<1>6. CASE TakeSnapshot
    BY <1>6, SnapshotInside
<1>7. CASE CloseDevice \/ PowerFailure \/ Kill
    BY <1>7, StopInside
<1>8. CASE Recover
    BY <1>8, RecoverInside
<1>9. CASE SwitchLevel \/ FinishErase \/ Refuse \/ Refused
    BY <1>9, OtherInside
<1>10. CASE UNCHANGED vars
  <2>1. CallTyped' /\ PlatterRight(platter', covered)
    BY <1>10 DEF vars, device, call, CallTyped, Inside, Typed, DeviceRight
  <2> QED
    BY <1>10, <2>1, RingKept DEF vars, Inside, Typed, ghost, past
<1> QED
    BY <1>1, <1>2, <1>3, <1>4, <1>5, <1>6, <1>7, <1>8, <1>9, <1>10 DEF Next

\* What the invariant says in the terms of WindowInRing.
LEMMA InsideShows == Inside => WindowInRing
<1> SUFFICES ASSUME Inside PROVE WindowInRing
    OBVIOUS
<1>1. Typed /\ DeviceRight /\ BufRight
    BY DEF Inside
<1>2. TypeOK
  <2>1. \A x \in Slots : platter[x] \in Seq(Frames) /\ platter[x] # <<>>
    BY <1>1 DEF DeviceRight, PlatterRight
  <2>2. \A x \in Slots : \A i \in 1 .. Len(platter[x]) : platter[x][i] \in Frames
    BY <2>1
  <2>3. \A i \in 1 .. Len(buf) : buf[i] \in Frames
    BY <1>1 DEF BufRight, BufferRight
  <2>4. \A i \in 1 .. Len(todo) : todo[i] \in Steps
    BY <1>1 DEF Typed
  <2> QED
    BY <1>1, <2>1, <2>2, <2>3, <2>4 DEF TypeOK, Typed
<1>3. ASSUME mode = "up"
      PROVE  /\ cur + UsedBlocks <= RingBlocks
             /\ ((cur + RingBlocks - head) % RingBlocks) + UsedBlocks <= RingBlocks - 1
             /\ Len(buf) <= BufBlocks * BlockFrames
  <2>1. PICK v \in Nat, h \in Nat : Placed(v, h)
    BY <1>3 DEF Inside, Open, Located
  <2>2. /\ Lies(v, cur) /\ Lies(h, head) /\ h <= v
        /\ window <= RingBlocks - 1 - (v - h) /\ window <= RingBlocks - cur
        /\ Len(buf) <= window * BlockFrames
    BY <2>1 DEF Placed
  <2>3. window \in 0 .. BufBlocks /\ window \in Nat /\ Len(buf) \in Nat /\ cur \in 0 .. RingBlocks - 1
    BY <1>1, LenProperties DEF Typed, BufRight, BufferRight
  <2>4. (cur + RingBlocks - head) % RingBlocks = v - h
    <3>1. v - h <= RingBlocks - 1
      BY <2>2, <2>3, Sizes
    <3> QED
      BY <2>2, <3>1, Distance
  <2>5. UsedBlocks \in Nat /\ UsedBlocks <= window
    <3> DEFINE a == Len(buf) + BlockFrames - 1
    <3>1. a \in Nat
      BY <2>3, Sizes
    <3>2. UsedBlocks = a \div BlockFrames
      BY DEF UsedBlocks
    <3>3. a < (window + 1) * BlockFrames
      <4>1. (window + 1) * BlockFrames = window * BlockFrames + BlockFrames /\ window * BlockFrames \in Int
        BY <2>3, Sizes, Products
      <4> QED
        BY <2>2, <2>3, <4>1, Sizes
    <3> HIDE DEF a
    <3>4. UsedBlocks \in Nat /\ UsedBlocks * BlockFrames <= a
      <4>1. a \div BlockFrames \in Nat /\ a % BlockFrames \in 0 .. BlockFrames - 1
            /\ a = (a \div BlockFrames) * BlockFrames + (a % BlockFrames)
        BY <3>1, Division, Sizes
      <4>2. (a \div BlockFrames) * BlockFrames \in Int
        BY <4>1, Sizes, Products
      <4> QED
        BY <3>1, <3>2, <4>1, <4>2, Sizes
    <3>5. UsedBlocks * BlockFrames < (window + 1) * BlockFrames
      <4>1. UsedBlocks * BlockFrames \in Int /\ (window + 1) * BlockFrames \in Int
        BY <2>3, <3>4, Sizes, Products
      <4> QED
        BY <3>1, <3>3, <3>4, <4>1
    <3> QED
      BY <2>3, <3>4, <3>5, Sizes, Factors
  <2>6. Len(buf) <= BufBlocks * BlockFrames
    <3>1. window * BlockFrames <= BufBlocks * BlockFrames /\ window * BlockFrames \in Int /\ BufBlocks * BlockFrames \in Int
      BY <2>3, Sizes, Products
    <3> QED
      BY <2>2, <2>3, <3>1
  <2> QED
    BY <2>2, <2>3, <2>4, <2>5, <2>6, Sizes
<1> QED
    BY <1>2, <1>3 DEF WindowInRing

\* A window never reaches past the seam of the ring or into the last block before the head,
\* and what is buffered fits in it, through failed writes, power failures and Recover
\* (WindowAt, AppendFramed and AdvanceAfterWrite of wal.cpp).
THEOREM WindowHolds == Spec => []WindowInRing
<1>1. Init => Inside
    BY InsideInit
<1>2. Inside /\ [Next]_vars => Inside'
    BY InsideNext
<1>3. Inside => WindowInRing
    BY InsideShows
<1> QED
    BY <1>1, <1>2, <1>3, PTL DEF Spec

---------------------------------------------------------------------------
(* The rescue.                                                             *)

\* An idle log has no call to rescue.
LEMMA IdleFacts ==
    /\ Idle \in [size : 1 .. MaxBatch, attempt : {1, 2}, wrote : BOOLEAN, dirty : BOOLEAN, full : BOOLEAN]
    /\ ~ Idle.dirty /\ ~ Idle.full /\ Idle.attempt = 1 /\ Idle.size = 1
  BY BoundAssumption DEF Idle

\* A call that has returned needs no rescue.
LEMMA IdleRescue ==
    ASSUME local' = Idle, Pure(todo')
    PROVE  Rescue'
  BY IdleFacts DEF Rescue, LocalTyped

\* Lists of steps that are pure.
LEMMA PureLists ==
    /\ Pure(<<>>)
    /\ \A s : Pure(<<s>>)
    /\ Pure(<<"tail", "batch_sync">>) /\ Pure(<<"admit", "tail", "batch_sync">>)
    /\ Pure(<<"flush", "snapshot", "retry">>) /\ Pure(<<"flush", "snapshot">>) /\ Pure(<<"flush", "close">>)
    /\ Pure(<<"flush", "sync">>) /\ Pure(<<"sync">>) /\ Pure(<<"batch">>)
    /\ \A n \in Nat : Pure(WriteSteps(n))
    /\ \A s \in Seq(Steps) : s # <<>> /\ Pure(s) => Pure(Tail(s))
<1>1. \A s : Pure(<<s>>)
    BY DEF Pure
<1>2. /\ Pure(<<>>)
      /\ Pure(<<"tail", "batch_sync">>) /\ Pure(<<"admit", "tail", "batch_sync">>)
      /\ Pure(<<"flush", "snapshot", "retry">>) /\ Pure(<<"flush", "snapshot">>) /\ Pure(<<"flush", "close">>)
      /\ Pure(<<"flush", "sync">>) /\ Pure(<<"sync">>) /\ Pure(<<"batch">>)
    BY DEF Pure, Batching
<1>3. ASSUME NEW n \in Nat
      PROVE  Pure(WriteSteps(n))
  <2>1. Pure(<<"write">>)
    BY <1>1
  <2>2. Pure([i \in 1 .. n |-> "admit"] \o <<"tail", "batch_sync">>)
    <3> DEFINE f == [i \in 1 .. n |-> "admit"]
               g == <<"tail", "batch_sync">>
    <3>1. f \in Seq(Batching) /\ g \in Seq(Batching)
      BY DEF Batching
    <3> HIDE DEF f, g
    <3>2. f \o g \in Seq(Batching)
      BY <3>1, ConcatProperties
    <3>3. \A i \in 1 .. Len(f \o g) : (f \o g)[i] \in Batching
      BY <3>2
    <3> QED
      BY <3>3 DEF Pure, f, g
  <2> QED
    BY <2>1, <2>2 DEF WriteSteps
<1>4. ASSUME NEW s \in Seq(Steps), s # <<>>, Pure(s)
      PROVE  Pure(Tail(s))
  <2>1. Len(Tail(s)) = Len(s) - 1 /\ Len(s) \in Nat /\ \A i \in 1 .. Len(Tail(s)) : Tail(s)[i] = s[i + 1]
    BY <1>4
  <2>2. \A i \in 1 .. Len(Tail(s)) : i + 1 \in 1 .. Len(s)
    BY <2>1
  <2> QED
    BY <1>4, <2>1, <2>2 DEF Pure
<1> QED
    BY <1>1, <1>2, <1>3, <1>4

\* A window that is shut has an empty buffer, and opens when the head is at the tail.
LEMMA Shut ==
    ASSUME Inside, Open, window = 0
    PROVE  buf = <<>> /\ (head = cur => WindowAt(cur, head) # 0)
<1>1. PICK v \in Nat, h \in Nat : Placed(v, h)
    BY DEF Inside, Located
<1>2. buf \in Seq(Frames)
    BY DEF Inside, BufRight, BufferRight
<1>3. Len(buf) <= 0
  <2>1. Len(buf) <= window * BlockFrames /\ 0 * BlockFrames = 0
    BY <1>1, Sizes DEF Placed
  <2> QED
    BY <2>1
<1>4. buf = <<>>
    BY <1>2, <1>3, EmptySeq, LenProperties
<1>5. ASSUME head = cur PROVE WindowAt(cur, cur) >= 1
  <2>1. Lies(v, cur) /\ v - v <= RingBlocks - 1 /\ v - v <= RingBlocks - 2 /\ v <= v
    BY <1>1, Sizes DEF Placed
  <2> QED
    BY <2>1, WindowFacts
<1> QED
    BY <1>4, <1>5

\* The steps of a single write, at either kind of level.
LEMMA SingleWrite == WriteSteps(1) \in {<<"admit", "tail", "batch_sync">>, <<"write">>}
<1>1. [i \in 1 .. 1 |-> "admit"] \o <<"tail", "batch_sync">> = <<"admit", "tail", "batch_sync">>
  <2> DEFINE f == [i \in 1 .. 1 |-> "admit"]
             g == <<"tail", "batch_sync">>
             k == <<"admit", "tail", "batch_sync">>
  <2>1. f \in Seq(Steps) /\ Len(f) = 1 /\ f[1] = "admit"
    BY DEF Steps
  <2>2. /\ g \in Seq(Steps) /\ Len(g) = 2 /\ g[1] = "tail" /\ g[2] = "batch_sync"
        /\ k \in Seq(Steps) /\ Len(k) = 3 /\ k[1] = "admit" /\ k[2] = "tail" /\ k[3] = "batch_sync"
    BY DEF Steps
  <2> HIDE DEF f, g, k
  <2>3. /\ f \o g \in Seq(Steps) /\ Len(f \o g) = 3
        /\ (f \o g)[1] = "admit" /\ (f \o g)[2] = "tail" /\ (f \o g)[3] = "batch_sync"
    <3>1. /\ f \o g \in Seq(Steps) /\ Len(f \o g) = Len(f) + Len(g)
          /\ \A i \in 1 .. Len(f) + Len(g) : (f \o g)[i] = IF i <= Len(f) THEN f[i] ELSE g[i - Len(f)]
      BY <2>1, <2>2, ConcatProperties
    <3> QED
      BY <2>1, <2>2, <3>1
  <2>4. f \o g = k
    <3>1. Len(f \o g) = Len(k) /\ \A i \in 1 .. Len(f \o g) : (f \o g)[i] = k[i]
      BY <2>2, <2>3
    <3> QED
      BY <2>2, <2>3, <3>1, SeqEqual
  <2> QED
    BY <2>4 DEF f, g, k
<1> QED
    BY <1>1 DEF WriteSteps

\* An empty buffer does not fill a window.
LEMMA EmptyFits ==
    ASSUME buf = <<>>, NEW w \in Nat, w # 0
    PROVE  ~ WindowFull(w)
<1>1. Len(buf) = 0 /\ w * BlockFrames \in Nat /\ w * BlockFrames # 0
    BY Sizes
<1> QED
    BY <1>1 DEF WindowFull

\* What holds at a step that is part of a batch, and at one that is not.
LEMMA AtBatch ==
    ASSUME Inside, Rescue, NEW s, At(s)
    PROVE  /\ mode = "up" /\ Open /\ Typed /\ todo \in Seq(Steps) /\ todo # <<>> /\ Len(todo) >= 1
           /\ todo[1] = s /\ Pure(Tail(todo))
           /\ s \in Batching => /\ \A i \in 1 .. Len(todo) : todo[i] \in Batching
                                /\ \A i \in 1 .. Len(Tail(todo)) : Tail(todo)[i] \in Batching
           /\ s \notin Batching => ~ local.dirty /\ ~ local.full /\ \A i \in 1 .. Len(todo) : todo[i] \notin Batching
<1>1. mode = "up" /\ todo # <<>> /\ Head(todo) = s /\ todo \in Seq(Steps)
    BY DEF At, Inside, Typed
<1>2. /\ 1 \in 1 .. Len(todo) /\ Len(todo) >= 1 /\ todo[1] = s
      /\ Len(Tail(todo)) = Len(todo) - 1 /\ Len(todo) \in Nat
      /\ \A i \in 1 .. Len(Tail(todo)) : Tail(todo)[i] = todo[i + 1]
    BY <1>1
<1>3. \A i \in 1 .. Len(Tail(todo)) : i + 1 \in 1 .. Len(todo)
    BY <1>2
<1>4. Pure(Tail(todo))
    BY <1>1, PureLists DEF Rescue
<1>5. s \notin Batching => ~ local.dirty /\ ~ local.full /\ \A i \in 1 .. Len(todo) : todo[i] \notin Batching
  <2>1. {"tail", "batch_sync"} \subseteq Batching
    BY DEF Batching
  <2> QED
    BY <1>2, <2>1 DEF Rescue, Pure
<1>6. s \in Batching => \A i \in 1 .. Len(todo) : todo[i] \in Batching
    BY <1>2 DEF Rescue, Pure
<1> QED
    BY <1>1, <1>2, <1>3, <1>4, <1>5, <1>6 DEF Open, Inside

\* A step outside a batch keeps the invariant when it goes on with the call.
LEMMA CalmRescue ==
    ASSUME Rescue, mode' = "up", UNCHANGED local, ~ local.dirty, ~ local.full, Pure(todo'),
           local.attempt = 2 => Second'
    PROVE  Rescue'
  BY DEF Rescue, LocalTyped

\* A call that fails needs no rescue.
LEMMA FailRescue ==
    ASSUME Inside, Rescue, NEW s, At(s), Fail, mode' = mode
    PROVE  Rescue'
<1>1. /\ mode = "up" /\ todo \in Seq(Steps) /\ todo # <<>> /\ Len(todo) \in 1 .. Len(todo)
      /\ s \in Batching => \A i \in 1 .. Len(todo) : todo[i] \in Batching
      /\ s \notin Batching => ~ local.dirty /\ ~ local.full
    BY AtBatch
<1>2. Pure(<<>>) /\ Pure(<<"close">>)
    BY PureLists
<1>3. CASE todo[Len(todo)] = "close"
  <2>1. todo' = <<"close">> /\ UNCHANGED local
    BY <1>3 DEF Fail
  <2>2. ~ local.dirty /\ ~ local.full
    <3>1. "close" \notin Batching
      BY DEF Batching
    <3> QED
      BY <1>1, <1>3, <3>1
  <2>3. local.attempt # 2
    BY <1>3 DEF Rescue, Second
  <2> QED
    BY <1>1, <1>2, <2>1, <2>2, <2>3, CalmRescue
<1>4. CASE todo[Len(todo)] # "close"
  <2>1. todo' = <<>> /\ local' = Idle
    BY <1>4 DEF Fail, Return
  <2> QED
    BY <1>2, <2>1, IdleRescue
<1> QED
    BY <1>3, <1>4

\* A call that begins, or a second attempt.
LEMMA CallsRescue ==
    ASSUME Inside, Rescue, WriteWal \/ Snapshot \/ Close \/ (\E l \in Levels : SetWalLevel(l)) \/ Retry
    PROVE  Rescue'
<1>1. ASSUME NEW steps, NEW n \in 1 .. MaxBatch, Call(steps, n), Pure(steps)
      PROVE  Rescue'
  <2>1. local' = [Idle EXCEPT !.size = n] /\ mode' = "up" /\ Pure(todo')
    BY <1>1 DEF Call
  <2>2. local' = [size |-> n, attempt |-> 1, wrote |-> FALSE, dirty |-> FALSE, full |-> FALSE]
    BY <2>1 DEF Idle
  <2>3. LocalTyped' /\ ~ local'.dirty /\ ~ local'.full /\ local'.attempt # 2
    BY <2>2 DEF LocalTyped
  <2> QED
    BY <2>1, <2>3 DEF Rescue
<1>2. 1 \in 1 .. MaxBatch
    BY BoundAssumption
<1>3. CASE WriteWal
  <2>1. PICK n \in 1 .. IF level = "sync" THEN MaxBatch ELSE 1 : Call(WriteSteps(n), n)
    BY <1>3 DEF WriteWal
  <2>2. n \in 1 .. MaxBatch /\ Pure(WriteSteps(n))
    BY <1>2, <2>1, BoundAssumption, PureLists
  <2> QED
    BY <1>1, <2>1, <2>2
<1>4. CASE Snapshot \/ Close \/ \E l \in Levels : SetWalLevel(l)
  <2>1. /\ Pure(<<"flush", "snapshot">>) /\ Pure(<<"flush", "close">>)
        /\ \A l \in Levels : Pure(IF l = "sync" THEN <<"flush", l>> ELSE <<l>>)
    BY PureLists
  <2> QED
    BY <1>1, <1>2, <1>4, <2>1 DEF Snapshot, Close, SetWalLevel
<1>5. CASE Retry
  <2>1. /\ mode = "up" /\ mode' = "up" /\ todo # <<>> /\ Head(todo) = "retry" /\ todo \in Seq(Steps)
        /\ todo' = WriteSteps(1) /\ UNCHANGED <<local, cur, head, buf, window>>
    BY <1>5 DEF Retry, At, ring, Inside, Typed
  <2>2. ~ local.dirty /\ ~ local.full /\ Pure(todo')
    <3>1. ~ local.dirty /\ ~ local.full
      BY <1>5, AtBatch DEF Retry, Batching
    <3> QED
      BY <2>1, <3>1, PureLists
  <2>3. ASSUME local.attempt = 2
        PROVE  Second'
    <3>1. todo = <<"retry">> /\ window = 0 /\ head = cur
      BY <2>1, <2>3 DEF Rescue, Second
    <3>2. buf = <<>>
      BY <2>1, <3>1, Shut DEF Open
    <3> QED
      BY <2>1, <3>1, <3>2, SingleWrite DEF Second
  <2> QED
    BY <2>1, <2>2, <2>3, CalmRescue
<1> QED
    BY <1>3, <1>4, <1>5

\* The fields of the call's record that a batch changes.
LEMMA LocalStep ==
    ASSUME LocalTyped, NEW w \in BOOLEAN, NEW d \in BOOLEAN, NEW f \in BOOLEAN, NEW new,
           new = [local EXCEPT !.wrote = w, !.dirty = d, !.full = f]
    PROVE  /\ new \in [size : 1 .. MaxBatch, attempt : {1, 2}, wrote : BOOLEAN, dirty : BOOLEAN, full : BOOLEAN]
           /\ new.dirty = d /\ new.full = f /\ new.attempt = local.attempt
  BY DEF LocalTyped

\* One frame of a batch.
LEMMA AdmitRescue ==
    ASSUME Inside, Rescue, AdmitReopen \/ AdmitSegment \/ AdmitAppend
    PROVE  Rescue'
<1>1. /\ At("admit") /\ mode' = mode
      /\ mode = "up" /\ Open /\ Typed /\ todo \in Seq(Steps) /\ todo # <<>> /\ Len(todo) >= 1 /\ todo[1] = "admit"
      /\ \A i \in 1 .. Len(todo) : todo[i] \in Batching
      /\ \A i \in 1 .. Len(Tail(todo)) : Tail(todo)[i] \in Batching
      /\ LocalTyped
  <2>1. At("admit") /\ mode' = mode /\ "admit" \in Batching
    BY DEF AdmitReopen, AdmitSegment, AdmitAppend, Batching
  <2> QED
    BY <2>1, AtBatch DEF Rescue
<1>2. ~ local.full
  <2>1. 1 \in 1 .. Len(todo)
    BY <1>1
  <2> QED
    BY <1>1, <2>1 DEF Rescue
<1>3. local.attempt = 2 => todo = <<"admit", "tail", "batch_sync">> /\ buf = <<>> /\ (window = 0 => head = cur)
    BY <1>1 DEF Rescue, Second
<1>4. /\ Len(<<"tail", "batch_sync">>) = 2
      /\ \A i \in 1 .. 2 : <<"tail", "batch_sync">>[i] \in {"tail", "batch_sync"}
      /\ \A i \in 1 .. 2 : <<"tail", "batch_sync">>[i] \in Batching
      /\ Pure(<<"tail", "batch_sync">>)
    BY PureLists DEF Batching
<1>5. CASE AdmitReopen
  <2>1. /\ window = 0 /\ window' = WindowAt(cur, head) /\ buf' = buf /\ head' = head /\ cur' = cur
        /\ IF window' = 0
           THEN todo' = <<"tail", "batch_sync">> /\ local' = [local EXCEPT !.full = TRUE]
           ELSE UNCHANGED <<todo, local>>
    BY <1>5 DEF AdmitReopen
  <2>2. ~ local.dirty
    BY <2>1 DEF Rescue
  <2>3. CASE window' = 0
    <3>1. local.attempt # 2
      BY <1>1, <1>3, <2>1, <2>3, Shut
    <3>2. local' = [local EXCEPT !.wrote = local.wrote, !.dirty = FALSE, !.full = TRUE]
      <4>1. local.dirty = FALSE
        BY <1>1, <2>2 DEF LocalTyped
      <4> QED
        BY <1>1, <2>1, <2>3, <4>1 DEF LocalTyped
    <3>3. LocalTyped' /\ ~ local'.dirty /\ local'.full /\ local'.attempt = local.attempt
      <4>1. local.wrote \in BOOLEAN
        BY <1>1 DEF LocalTyped
      <4> QED
        BY <1>1, <3>2, <4>1, LocalStep DEF LocalTyped
    <3> QED
      BY <1>1, <1>4, <2>1, <2>3, <3>1, <3>3 DEF Rescue
  <2>4. CASE window' # 0
    <3>1. local.attempt = 2 => Second'
      BY <1>3, <2>1, <2>4 DEF Second
    <3> QED
      BY <1>1, <1>2, <2>1, <2>2, <2>4, <3>1, CalmRescue DEF Rescue
  <2> QED
    BY <2>3, <2>4
<1>6. CASE AdmitSegment
  <2>1. PICK ok \in Outcomes(TRUE) :
         IF ok
         THEN /\ local' = [local EXCEPT !.wrote = TRUE, !.dirty = FALSE, !.full = window' = 0]
              /\ todo' = IF window' = 0 THEN <<"tail", "batch_sync">> ELSE todo
         ELSE Fail
    BY <1>6 DEF AdmitSegment, WriteFails
  <2>2. window # 0 /\ WindowFull(window) /\ window \in Nat
    BY <1>1, <1>6 DEF AdmitSegment, Typed
  <2>3. local.attempt # 2
    BY <1>3, <2>2, EmptyFits
  <2>4. CASE ok
    <3>1. LocalTyped' /\ local'.dirty = FALSE /\ local'.full = (window' = 0) /\ local'.attempt = local.attempt
      <4> DEFINE f == window' = 0
      <4>1. f \in BOOLEAN /\ local' = [local EXCEPT !.wrote = TRUE, !.dirty = FALSE, !.full = f]
        BY <2>1, <2>4
      <4> HIDE DEF f
      <4>2. LocalTyped' /\ local'.dirty = FALSE /\ local'.full = f /\ local'.attempt = local.attempt
        BY <1>1, <4>1, LocalStep DEF LocalTyped
      <4> QED
        BY <4>2 DEF f
    <3>2. CASE window' = 0
      BY <1>1, <1>4, <2>1, <2>3, <2>4, <3>1, <3>2 DEF Rescue
    <3>3. CASE window' # 0
      BY <1>1, <2>1, <2>3, <2>4, <3>1, <3>3 DEF Rescue
    <3> QED
      BY <3>2, <3>3
  <2>5. CASE ~ ok
    BY <1>1, <2>1, <2>5, FailRescue
  <2> QED
    BY <2>4, <2>5
<1>7. CASE AdmitAppend
  <2>1. /\ window # 0 /\ window' = window /\ todo' = Tail(todo) /\ local' = [local EXCEPT !.dirty = TRUE]
    BY <1>7 DEF AdmitAppend
  <2>2. LocalTyped' /\ local'.dirty = TRUE /\ ~ local'.full /\ local'.attempt = local.attempt
    <3>1. local' = [local EXCEPT !.wrote = local.wrote, !.dirty = TRUE, !.full = FALSE]
      <4>1. local.full = FALSE
        BY <1>1, <1>2 DEF LocalTyped
      <4> QED
        BY <1>1, <2>1, <4>1 DEF LocalTyped
    <3>2. local.wrote \in BOOLEAN
      BY <1>1 DEF LocalTyped
    <3> QED
      BY <1>1, <3>1, <3>2, LocalStep DEF LocalTyped
  <2>3. local.attempt = 2 => todo' = <<"tail", "batch_sync">>
    <3>1. Tail(<<"admit", "tail", "batch_sync">>) = <<"tail", "batch_sync">>
      OBVIOUS
    <3> QED
      BY <1>3, <2>1, <3>1
  <2>4. Pure(todo')
    BY <1>1, <2>1 DEF Pure
  <2> QED
    BY <1>1, <2>1, <2>2, <2>3, <2>4 DEF Rescue, Second
<1> QED
    BY <1>5, <1>6, <1>7

\* A write that meets the full ring is rescued once.  A second attempt never meets it.
LEMMA FullRescue ==
    ASSUME Rescue, mode' = "up", window' = window, window = 0, Full
    PROVE  Rescue' /\ (last' = "full" => last = "full" \/ local.size > 1 \/ local.attempt = 2)
<1>1. Pure(<<>>) /\ Pure(<<"flush", "snapshot", "retry">>)
    BY PureLists
<1>2. CASE local.size = 1 /\ local.attempt = 1
  <2>1. todo' = <<"flush", "snapshot", "retry">> /\ local' = [Idle EXCEPT !.attempt = 2] /\ last' = last
    BY <1>2 DEF Full
  <2>2. local' = [size |-> 1, attempt |-> 2, wrote |-> FALSE, dirty |-> FALSE, full |-> FALSE]
    BY <2>1 DEF Idle
  <2>3. LocalTyped' /\ ~ local'.dirty /\ ~ local'.full
    BY <2>2, BoundAssumption DEF LocalTyped
  <2>4. Second'
    BY <2>1 DEF Second
  <2> QED
    BY <1>1, <2>1, <2>3, <2>4 DEF Rescue
<1>3. CASE ~ (local.size = 1 /\ local.attempt = 1)
  <2>1. todo' = <<>> /\ local' = Idle
    BY <1>3 DEF Full, Return
  <2>2. local.size > 1 \/ local.attempt = 2
    BY <1>3, BoundAssumption DEF Rescue, LocalTyped
  <2> QED
    BY <1>1, <2>1, <2>2, IdleRescue
<1> QED
    BY <1>2, <1>3

\* Going on with a call, or returning from it, is not a full ring.
LEMMA ContinueAnswers ==
    ASSUME Continue \/ Fail \/ Return("ok")
    PROVE  Answered
  BY DEF Continue, Fail, Return, Answered

\* The end of a batch.
LEMMA BatchRescue ==
    ASSUME Inside, Rescue, BatchTail \/ BatchSync
    PROVE  Rescue' /\ Answered
<1>1. CASE BatchTail
  <2>1. PICK ok \in Outcomes(local.dirty) :
         IF ~ local.dirty THEN Continue /\ UNCHANGED <<device, cur, buf, window>>
         ELSE IF ok
         THEN /\ todo' = Tail(todo)
              /\ local' = [local EXCEPT !.wrote = TRUE, !.dirty = FALSE]
              /\ last' = last
         ELSE Fail
    BY <1>1 DEF BatchTail, WriteFails
  <2>2. /\ At("tail") /\ mode' = mode /\ mode = "up" /\ todo \in Seq(Steps) /\ todo # <<>> /\ todo[1] = "tail"
        /\ \A i \in 1 .. Len(Tail(todo)) : Tail(todo)[i] \in Batching
        /\ LocalTyped /\ Pure(Tail(todo)) /\ Pure(<<>>)
    <3>1. At("tail") /\ mode' = mode /\ "tail" \in Batching
      BY <1>1 DEF BatchTail, Batching
    <3> QED
      BY <3>1, AtBatch, PureLists DEF Rescue
  <2>3. local.attempt = 2 => Tail(todo) = <<"batch_sync">> /\ ~ local.full
    <3>1. local.attempt = 2 => todo = <<"tail", "batch_sync">> /\ ~ local.full
      BY <2>2 DEF Rescue, Second
    <3>2. Tail(<<"tail", "batch_sync">>) = <<"batch_sync">>
      OBVIOUS
    <3> QED
      BY <3>1, <3>2
  <2>4. local.full => \A i \in 1 .. Len(Tail(todo)) : Tail(todo)[i] \in {"tail", "batch_sync"}
    <3>1. /\ Len(Tail(todo)) = Len(todo) - 1 /\ Len(todo) \in Nat
          /\ \A i \in 1 .. Len(Tail(todo)) : Tail(todo)[i] = todo[i + 1]
      BY <2>2
    <3>2. \A i \in 1 .. Len(Tail(todo)) : i + 1 \in 1 .. Len(todo)
      BY <3>1
    <3> QED
      BY <3>1, <3>2 DEF Rescue
  <2>5. CASE ~ local.dirty
    <3>1. Continue /\ window' = window
      BY <2>1, <2>5
    <3>2. CASE Len(todo) = 1
      <4>1. local' = Idle /\ todo' = <<>>
        BY <3>1, <3>2 DEF Continue, Return
      <4> QED
        BY <2>2, <3>1, <4>1, IdleRescue, ContinueAnswers
    <3>3. CASE Len(todo) # 1
      <4>1. todo' = Tail(todo) /\ local' = local
        BY <3>1, <3>3 DEF Continue
      <4>2. local.attempt = 2 => Second'
        BY <2>3, <4>1 DEF Second
      <4>3. Rescue'
        BY <2>2, <2>4, <2>5, <3>1, <4>1, <4>2 DEF Rescue, LocalTyped
      <4> QED
        BY <3>1, <4>3, ContinueAnswers
    <3> QED
      BY <3>2, <3>3
  <2>6. CASE local.dirty /\ ok
    <3>1. todo' = Tail(todo) /\ last' = last /\ ~ local.full
      BY <2>1, <2>6 DEF Rescue
    <3>2. LocalTyped' /\ ~ local'.dirty /\ ~ local'.full /\ local'.attempt = local.attempt
      <4>1. local' = [local EXCEPT !.wrote = TRUE, !.dirty = FALSE, !.full = FALSE]
        <5>1. local.full = FALSE
          BY <2>2, <3>1 DEF LocalTyped
        <5> QED
          BY <2>1, <2>2, <2>6, <5>1 DEF LocalTyped
      <4> QED
        BY <2>2, <4>1, LocalStep DEF LocalTyped
    <3>3. local.attempt = 2 => Second'
      BY <2>3, <3>1, <3>2 DEF Second
    <3> QED
      BY <2>2, <3>1, <3>2, <3>3 DEF Rescue, Answered
  <2>7. CASE local.dirty /\ ~ ok
    BY <2>1, <2>2, <2>7, FailRescue, ContinueAnswers
  <2> QED
    BY <2>5, <2>6, <2>7
<1>2. CASE BatchSync
  <2>1. PICK ok \in Outcomes(local.wrote) :
         IF ok THEN IF local.full THEN Full ELSE Return("ok") ELSE Fail
    BY <1>2 DEF BatchSync
  <2>2. At("batch_sync") /\ mode' = mode /\ window' = window /\ mode = "up" /\ Pure(<<>>)
    BY <1>2, PureLists DEF BatchSync, ring, At
  <2>3. CASE ok /\ local.full
    <3>1. window = 0
      BY <2>3 DEF Rescue
    <3>2. local.attempt # 2
      <4>1. todo # <<>> /\ Head(todo) = "batch_sync"
        BY <2>2 DEF At
      <4> QED
        BY <2>3, <4>1 DEF Rescue, Second
    <3> QED
      BY <2>1, <2>2, <2>3, <3>1, <3>2, FullRescue DEF Answered
  <2>4. CASE ok /\ ~ local.full
    <3>1. Return("ok")
      BY <2>1, <2>4
    <3>2. local' = Idle /\ todo' = <<>>
      BY <3>1 DEF Return
    <3> QED
      BY <2>2, <3>1, <3>2, IdleRescue, ContinueAnswers
  <2>5. CASE ~ ok
    BY <2>1, <2>2, <2>5, FailRescue, ContinueAnswers
  <2> QED
    BY <2>3, <2>4, <2>5
<1> QED
    BY <1>1, <1>2

\* A write at a batched level.
LEMMA BatchedRescue ==
    ASSUME Inside, Rescue, BatchedWrite
    PROVE  Rescue' /\ Answered
<1> DEFINE w == IF window = 0 THEN WindowAt(cur, head) ELSE window
<1>1. /\ At("write") /\ mode' = mode /\ mode = "up" /\ Open /\ Typed /\ todo \in Seq(Steps) /\ Len(todo) >= 1
      /\ todo # <<>> /\ todo[1] = "write" /\ Pure(<<>>) /\ Pure(<<"flush">>)
      /\ ~ local.dirty /\ ~ local.full /\ \A i \in 1 .. Len(todo) : todo[i] \notin Batching
  <2>1. At("write") /\ mode' = mode /\ "write" \notin Batching
    BY DEF BatchedWrite, Batching
  <2> QED
    BY <2>1, AtBatch, PureLists
<1>2. \/ w = 0 /\ Full /\ UNCHANGED <<ring, history>>
      \/ /\ w # 0 /\ WindowFull(w) /\ window' = w /\ todo' = <<"flush">> \o todo
         /\ UNCHANGED <<local, last>>
      \/ (todo' = <<"flush">> /\ UNCHANGED <<local, last>>) \/ Return("ok")
    BY DEF BatchedWrite
<1>3. w \in Nat
  <2>1. CASE window = 0
    <3>1. w = WindowAt(cur, head)
      BY <2>1
    <3> HIDE DEF w
    <3> QED
      BY <1>1, <3>1, Reopened, Sizes DEF Inside
  <2>2. CASE window # 0
    BY <1>1, <2>2, Sizes DEF Typed
  <2> QED
    BY <2>1, <2>2
<1>4. local.attempt = 2 => buf = <<>> /\ (window = 0 => head = cur)
  BY <1>1 DEF Rescue, Second
<1>5. w = 0 => window = 0 /\ WindowAt(cur, head) = 0
    OBVIOUS
<1> HIDE DEF w
<1>6. CASE w = 0 /\ Full /\ UNCHANGED <<ring, history>>
  <2>1. window = 0 /\ WindowAt(cur, head) = 0 /\ window' = window
    BY <1>5, <1>6 DEF ring
  <2>2. local.attempt # 2
    BY <1>1, <1>4, <2>1, Shut
  <2> QED
    BY <1>1, <1>6, <2>1, <2>2, FullRescue DEF Answered
<1>7. CASE /\ w # 0 /\ WindowFull(w) /\ window' = w /\ todo' = <<"flush">> \o todo
           /\ UNCHANGED <<local, last>>
  <2>1. local.attempt # 2
    BY <1>3, <1>4, <1>7, EmptyFits
  <2>2. Pure(todo')
    <3>1. /\ <<"flush">> \in Seq(Steps) /\ Len(<<"flush">>) = 1 /\ <<"flush">>[1] = "flush"
      BY DEF Steps
    <3>2. /\ Len(todo') = 1 + Len(todo)
          /\ \A i \in 1 .. 1 + Len(todo) : todo'[i] = IF i <= 1 THEN <<"flush">>[i] ELSE todo[i - 1]
      <4> DEFINE f == <<"flush">>
      <4>1. f \in Seq(Steps) /\ Len(f) = 1 /\ todo' = f \o todo
        BY <1>7, <3>1
      <4> HIDE DEF f
      <4>2. /\ Len(f \o todo) = Len(f) + Len(todo)
            /\ \A i \in 1 .. Len(f) + Len(todo) : (f \o todo)[i] = IF i <= Len(f) THEN f[i] ELSE todo[i - Len(f)]
        BY <1>1, <4>1, ConcatProperties
      <4> QED
        BY <4>1, <4>2 DEF f
    <3>3. \A i \in 1 .. Len(todo') : todo'[i] \notin Batching
      <4> TAKE i \in 1 .. Len(todo')
      <4>1. CASE i = 1
        BY <1>1, <3>1, <3>2, <4>1 DEF Batching
      <4>2. CASE i # 1
        <5>1. i - 1 \in 1 .. Len(todo)
          BY <1>1, <3>2, <4>2
        <5> QED
          BY <1>1, <3>2, <4>2, <5>1
      <4> QED
        BY <4>1, <4>2
    <3> QED
      BY <3>3 DEF Pure
  <2> QED
    BY <1>1, <1>7, <2>1, <2>2, CalmRescue DEF Answered
<1>8. CASE todo' = <<"flush">> /\ UNCHANGED <<local, last>>
  <2>1. local.attempt = 2 => Second'
    BY <1>1, <1>8 DEF Second
  <2> QED
    BY <1>1, <1>8, <2>1, CalmRescue DEF Answered
<1>9. CASE Return("ok")
  <2>1. local' = Idle /\ todo' = <<>>
    BY <1>9 DEF Return
  <2> QED
    BY <1>1, <1>9, <2>1, IdleRescue, ContinueAnswers
<1> QED
    BY <1>2, <1>6, <1>7, <1>8, <1>9

\* A step outside a batch that goes on with the call.
LEMMA ContinueRescue ==
    ASSUME Inside, Rescue, NEW s, At(s), s \notin Batching, Continue, mode' = mode,
           local.attempt = 2 /\ Len(todo) # 1 => Second'
    PROVE  Rescue'
<1>1. /\ mode = "up" /\ Pure(Tail(todo)) /\ Pure(<<>>) /\ ~ local.dirty /\ ~ local.full
    BY AtBatch, PureLists
<1>2. CASE Len(todo) = 1
  <2>1. local' = Idle /\ todo' = <<>>
    BY <1>2 DEF Continue, Return
  <2> QED
    BY <1>1, <2>1, IdleRescue
<1>3. CASE Len(todo) # 1
  <2>1. todo' = Tail(todo) /\ UNCHANGED local
    BY <1>3 DEF Continue
  <2> QED
    BY <1>1, <1>3, <2>1, CalmRescue
<1> QED
    BY <1>2, <1>3

\* Flush and the snapshot of a rescue.
LEMMA FlushRescue ==
    ASSUME Inside, Rescue, FlushWrite \/ FlushSync \/ TakeSnapshot
    PROVE  Rescue' /\ Answered
<1>1. CASE FlushWrite
  <2> DEFINE idle == level = "sync" \/ buf = <<>>
  <2>1. PICK ok \in Outcomes(~ idle) :
         IF idle THEN Continue
         ELSE IF ok
         THEN todo' = <<"flush_sync">> \o Tail(todo) /\ UNCHANGED <<local, last>>
         ELSE Fail
    BY <1>1 DEF FlushWrite, WriteFails
  <2>2. /\ At("flush") /\ "flush" \notin Batching /\ mode' = mode /\ window' = window
    BY <1>1 DEF FlushWrite, Batching, ring
  <2>3. /\ mode = "up" /\ Open /\ Typed /\ todo \in Seq(Steps) /\ Len(todo) >= 1
        /\ todo # <<>> /\ todo[1] = "flush"
        /\ ~ local.dirty /\ ~ local.full /\ \A i \in 1 .. Len(todo) : todo[i] \notin Batching
    BY <2>2, AtBatch
  <2>4. local.attempt = 2 => \/ todo = <<"flush", "snapshot", "retry">> /\ window = 0
                             \/ todo = <<"flush">>
    BY <2>3 DEF Rescue, Second
  <2>5. CASE idle
    <3>1. Continue
      BY <2>1, <2>5
    <3>2. ASSUME local.attempt = 2, Len(todo) # 1
          PROVE  Second'
      <4>1. todo = <<"flush", "snapshot", "retry">> /\ window = 0
        BY <2>4, <3>2
      <4>2. Tail(<<"flush", "snapshot", "retry">>) = <<"snapshot", "retry">>
        OBVIOUS
      <4>3. todo' = <<"snapshot", "retry">>
        BY <3>1, <3>2, <4>1, <4>2 DEF Continue
      <4> QED
        BY <2>2, <4>1, <4>3 DEF Second
    <3>3. Rescue'
      BY <2>2, <3>1, <3>2, ContinueRescue
    <3> QED
      BY <3>1, <3>3, ContinueAnswers
  <2>6. CASE ~ idle /\ ok
    <3>1. todo' = <<"flush_sync">> \o Tail(todo) /\ UNCHANGED <<local, last>>
      BY <2>1, <2>6
    <3>2. local.attempt = 2 => todo = <<"flush">>
      <4>1. window = 0 => buf = <<>>
        BY <2>3, Shut
      <4> QED
        BY <2>4, <2>6, <4>1
    <3>3. local.attempt = 2 => todo' = <<"flush_sync">>
      <4>1. <<"flush_sync">> \o Tail(<<"flush">>) = <<"flush_sync">>
        <5>1. Tail(<<"flush">>) = <<>> /\ <<"flush_sync">> \in Seq(Steps)
          BY DEF Steps
        <5> QED
          BY <5>1, ConcatEmptySeq
      <4> QED
        BY <3>1, <3>2, <4>1
    <3>4. Pure(todo')
      <4>1. /\ Tail(todo) \in Seq(Steps) /\ Len(Tail(todo)) = Len(todo) - 1 /\ Len(todo) \in Nat
            /\ \A i \in 1 .. Len(Tail(todo)) : Tail(todo)[i] = todo[i + 1]
        BY <2>3
      <4>2. \A i \in 1 .. Len(Tail(todo)) : Tail(todo)[i] \notin Batching
        <5>1. \A i \in 1 .. Len(Tail(todo)) : i + 1 \in 1 .. Len(todo)
          BY <4>1
        <5> QED
          BY <2>3, <4>1, <5>1
      <4> DEFINE f == <<"flush_sync">>
                 g == Tail(todo)
      <4>3. f \in Seq(Steps) /\ Len(f) = 1 /\ f[1] = "flush_sync" /\ todo' = f \o g
        BY <3>1 DEF Steps
      <4>4. g \in Seq(Steps) /\ \A i \in 1 .. Len(g) : g[i] \notin Batching
        BY <4>1, <4>2
      <4> HIDE DEF f, g
      <4>5. /\ f \o g \in Seq(Steps) /\ Len(f \o g) = Len(f) + Len(g) /\ Len(g) \in Nat
            /\ \A i \in 1 .. Len(f) + Len(g) : (f \o g)[i] = IF i <= Len(f) THEN f[i] ELSE g[i - Len(f)]
        BY <4>3, <4>4, ConcatProperties, LenProperties
      <4>6. \A i \in 1 .. Len(todo') : todo'[i] \notin Batching
        <5> TAKE i \in 1 .. Len(todo')
        <5>1. CASE i = 1
          BY <4>3, <4>5, <5>1 DEF Batching
        <5>2. CASE i # 1
          <6>1. i - 1 \in 1 .. Len(g) /\ todo'[i] = g[i - 1]
            BY <4>3, <4>5, <5>2
          <6> QED
            BY <4>4, <6>1
        <5> QED
          BY <5>1, <5>2
      <4> QED
        BY <4>6 DEF Pure
    <3>5. local.attempt = 2 => Second'
      BY <2>3, <3>1, <3>3 DEF Second
    <3> QED
      BY <2>2, <2>3, <3>1, <3>4, <3>5, CalmRescue DEF Answered
  <2>7. CASE ~ idle /\ ~ ok
    BY <2>1, <2>2, <2>7, FailRescue, ContinueAnswers
  <2> QED
    BY <2>5, <2>6, <2>7
<1>2. CASE FlushSync
  <2>1. Continue \/ Fail
    BY <1>2 DEF FlushSync
  <2>2. /\ At("flush_sync") /\ "flush_sync" \notin Batching /\ mode' = mode
    BY <1>2 DEF FlushSync, Batching
  <2>3. local.attempt = 2 => Len(todo) = 1
    <3>1. todo # <<>> /\ Head(todo) = "flush_sync"
      BY <2>2 DEF At
    <3>2. local.attempt = 2 => todo = <<"flush_sync">>
      BY <3>1 DEF Rescue, Second
    <3> QED
      BY <3>2
  <2> QED
    BY <2>1, <2>2, <2>3, ContinueRescue, FailRescue, ContinueAnswers
<1>3. CASE TakeSnapshot
  <2>1. (head' = cur /\ Continue) \/ Fail
    BY <1>3 DEF TakeSnapshot
  <2>2. /\ At("snapshot") /\ "snapshot" \notin Batching /\ mode' = mode /\ cur' = cur /\ window' = window
    BY <1>3 DEF TakeSnapshot, Batching
  <2>3. CASE head' = cur /\ Continue
    <3>1. ASSUME local.attempt = 2, Len(todo) # 1
          PROVE  Second'
      <4>1. todo # <<>> /\ Head(todo) = "snapshot"
        BY <2>2 DEF At
      <4>2. todo = <<"snapshot", "retry">> /\ window = 0
        BY <3>1, <4>1 DEF Rescue, Second
      <4>3. Tail(<<"snapshot", "retry">>) = <<"retry">>
        OBVIOUS
      <4>4. todo' = <<"retry">>
        BY <2>3, <3>1, <4>2, <4>3 DEF Continue
      <4> QED
        BY <2>2, <2>3, <4>2, <4>4 DEF Second
    <3> QED
      BY <2>2, <2>3, <3>1, ContinueRescue, ContinueAnswers
  <2>4. CASE Fail
    BY <2>2, <2>4, FailRescue, ContinueAnswers
  <2> QED
    BY <2>1, <2>3, <2>4
<1> QED
    BY <1>1, <1>2, <1>3

\* Steps that do not concern the rescue.
LEMMA OtherRescue ==
    ASSUME Inside, Rescue,
           SwitchLevel \/ CloseDevice \/ PowerFailure \/ Kill \/ Recover \/ FinishErase \/ Refuse \/ Refused
    PROVE  Rescue' /\ Answered
<1>1. CASE SwitchLevel
  <2>1. PICK l \in Levels : At(l) /\ Continue /\ mode' = mode
    BY <1>1 DEF SwitchLevel
  <2>2. l \in {"sync", "batch"} /\ l \notin Batching
    BY LevelAssumption DEF Batching
  <2>3. local.attempt # 2
    <3>1. todo # <<>> /\ Head(todo) = l
      BY <2>1 DEF At
    <3> QED
      BY <2>2, <3>1 DEF Rescue, Second
  <2> QED
    BY <2>1, <2>2, <2>3, ContinueRescue, ContinueAnswers
<1>2. CASE CloseDevice \/ PowerFailure \/ Kill
  <2>1. local' = Idle /\ todo' = <<>> /\ last' = "ok"
    BY <1>2 DEF CloseDevice, PowerFailure, Kill, Forget
  <2> QED
    BY <2>1, IdleRescue, PureLists DEF Answered
<1>3. CASE Recover \/ FinishErase \/ Refuse
  <2>1. mode # "up" /\ UNCHANGED <<todo, local, last>>
    BY <1>3 DEF Recover, FinishErase, Refuse, call
  <2>2. local' = Idle /\ Pure(todo')
    BY <2>1 DEF Rescue
  <2> QED
    BY <2>1, <2>2, IdleRescue DEF Answered
<1>4. CASE Refused
  <2>1. mode # "up" /\ UNCHANGED <<todo, local, last>>
    BY <1>4 DEF Refused, vars, call
  <2>2. local' = Idle /\ Pure(todo')
    BY <2>1 DEF Rescue
  <2> QED
    BY <2>1, <2>2, IdleRescue DEF Answered
<1> QED
    BY <1>1, <1>2, <1>3, <1>4

\* Every step keeps the invariant of the rescue, and none answers a single write with a full ring.
LEMMA RescueNext == Inside /\ Rescue /\ [Next]_vars => Rescue' /\ Answered
<1> SUFFICES ASSUME Inside, Rescue, [Next]_vars PROVE Rescue' /\ Answered
    OBVIOUS
<1>1. CASE WriteWal \/ Snapshot \/ Close \/ (\E l \in Levels : SetWalLevel(l)) \/ Retry
  <2>1. last' = last
    BY <1>1 DEF WriteWal, Snapshot, Close, SetWalLevel, Retry, Call
  <2> QED
    BY <1>1, <2>1, CallsRescue DEF Answered
<1>2. CASE AdmitReopen \/ AdmitSegment \/ AdmitAppend
  <2>1. last' = last \/ Fail
    BY <1>2 DEF AdmitReopen, AdmitSegment, AdmitAppend, WriteFails
  <2> QED
    BY <1>2, <2>1, AdmitRescue, ContinueAnswers DEF Answered
<1>3. CASE BatchTail \/ BatchSync
    BY <1>3, BatchRescue
<1>4. CASE BatchedWrite
    BY <1>4, BatchedRescue
<1>5. CASE FlushWrite \/ FlushSync \/ TakeSnapshot
    BY <1>5, FlushRescue
<1>6. CASE SwitchLevel \/ CloseDevice \/ PowerFailure \/ Kill \/ Recover \/ FinishErase \/ Refuse \/ Refused
    BY <1>6, OtherRescue
<1>7. CASE UNCHANGED vars
  <2>1. UNCHANGED <<mode, todo, local, last, cur, head, buf, window>>
    BY <1>7 DEF vars, call, ring
  <2>2. Second => Second'
    BY <2>1 DEF Second
  <2> QED
    BY <2>1, <2>2 DEF Rescue, LocalTyped, Answered
<1> QED
    BY <1>1, <1>2, <1>3, <1>4, <1>5, <1>6, <1>7 DEF Next

\* A single write is never answered with a full ring: the snapshot that rescues it has made
\* room (WriteWalRescuing of reactor.cpp over the capacity check of Wal::Open).  This holds for
\* every size of batch; a batch of several frames, whose writers call WriteWal directly, may
\* be answered so.
THEOREM SingleWriteFits == Spec => [][last' = "full" => last = "full" \/ local.size > 1]_vars
<1>1. Init => Inside /\ Rescue
  <2>1. ASSUME Init PROVE Rescue
    <3>1. local = Idle /\ todo = <<>>
      BY <2>1 DEF Init
    <3> QED
      BY <3>1, IdleFacts, PureLists DEF Rescue, LocalTyped
  <2> QED
    BY <2>1, InsideInit
<1>2. Inside /\ Rescue /\ [Next]_vars => Inside' /\ Rescue'
    BY InsideNext, RescueNext
<1>3. Inside /\ Rescue /\ [Next]_vars => [last' = "full" => last = "full" \/ local.size > 1]_vars
    BY RescueNext DEF Answered
<1> QED
    BY <1>1, <1>2, <1>3, PTL DEF Spec

\* When every write is one frame, the snapshot that rescues a write from a full ring always
\* makes room for it (the capacity check of Wal::Open).
THEOREM RescueHolds == ASSUME MaxBatch = 1 PROVE Spec => []RescueMakesRoom
<1> DEFINE IInv == Inside /\ Rescue /\ RescueMakesRoom
<1>1. Init => IInv
  <2>1. ASSUME Init PROVE Rescue /\ RescueMakesRoom
    <3>1. local = Idle /\ todo = <<>> /\ last = "ok"
      BY <2>1 DEF Init
    <3> QED
      BY <3>1, IdleFacts, PureLists DEF Rescue, LocalTyped, RescueMakesRoom
  <2> QED
    BY <2>1, InsideInit
<1>2. IInv /\ [Next]_vars => IInv'
  <2>1. ASSUME Inside, Rescue, RescueMakesRoom, [Next]_vars
        PROVE  RescueMakesRoom'
    <3>1. ~ (local.size > 1)
      BY <2>1 DEF Rescue, LocalTyped
    <3> QED
      BY <2>1, <3>1, RescueNext DEF Answered, RescueMakesRoom
  <2> QED
    BY <2>1, InsideNext, RescueNext
<1>3. IInv => RescueMakesRoom
    OBVIOUS
<1> QED
    BY <1>1, <1>2, <1>3, PTL DEF Spec

---------------------------------------------------------------------------
(* Promises.                                                               *)

\* A number has one slot.
LEMMA Seats ==
    ASSUME NEW n \in Nat \ {0}
    PROVE  /\ Seat(n) \in Slots /\ Home(n, Seat(n))
           /\ \A x \in Slots : Home(n, x) => x = Seat(n)
<1> DEFINE N == RingBlocks * BlockFrames
<1>1. N \in Nat \ {0}
    BY Sizes
<1>2. Slots = 0 .. N - 1
    BY DEF Slots
<1>3. \A q \in Nat : q * RingBlocks * BlockFrames = q * N
    BY Sizes
<1> HIDE DEF N
<1>4. (n - 1) \div N \in Nat /\ (n - 1) % N \in 0 .. N - 1 /\ n - 1 = ((n - 1) \div N) * N + ((n - 1) % N)
  <2>1. n - 1 \in Nat
    OBVIOUS
  <2> QED
    BY <1>1, <2>1, Division
<1>5. Seat(n) = (n - 1) % N
    BY DEF Seat, N
<1>6. Seat(n) \in Slots /\ Home(n, Seat(n))
    BY <1>2, <1>3, <1>4, <1>5 DEF Home
<1>7. ASSUME NEW x \in Slots, Home(n, x)
      PROVE  x = Seat(n)
  <2>1. PICK q \in Nat : n - 1 = q * N + x
    BY <1>3, <1>7 DEF Home
  <2>2. (q * N + x) % N = x
    BY <1>1, <1>2, Quotient
  <2> QED
    BY <1>5, <2>1, <2>2
<1> QED
    BY <1>6, <1>7

\* Two numbers in one slot are a ring apart.
LEMMA Apart ==
    ASSUME NEW n \in Nat \ {0}, NEW m \in Nat \ {0}, NEW x \in Slots, Home(n, x), Home(m, x),
           NEW h \in Nat, h * BlockFrames < n, n <= (h + RingBlocks) * BlockFrames,
           h * BlockFrames < m, m <= (h + RingBlocks) * BlockFrames
    PROVE  n = m
<1> DEFINE N == RingBlocks * BlockFrames
<1>1. N \in Nat \ {0} /\ x \in Int
    BY Sizes DEF Slots
<1>2. \A q \in Nat : q * RingBlocks * BlockFrames = q * N
    BY Sizes
<1>3. h * BlockFrames \in Int /\ (h + RingBlocks) * BlockFrames = h * BlockFrames + N
    BY Sizes, Products
<1> HIDE DEF N
<1>4. PICK q \in Nat : n - 1 = q * N + x
    BY <1>2 DEF Home
<1>5. PICK k \in Nat : m - 1 = k * N + x
    BY <1>2 DEF Home
<1> DEFINE a == q * N
           b == k * N
<1>6. a \in Int /\ b \in Int /\ (q + 1) * N = a + N /\ (k + 1) * N = b + N
    BY <1>1, Products
<1>7. n - 1 = a + x /\ m - 1 = b + x
    BY <1>4, <1>5
<1>8. a < (k + 1) * N /\ b < (q + 1) * N
  <2> HIDE DEF a, b
  <2>1. n - m < N /\ m - n < N
    BY <1>1, <1>3
  <2>2. n - 1 - a = m - 1 - b
    BY <1>1, <1>6, <1>7
  <2> QED
    BY <1>1, <1>6, <2>1, <2>2
<1>9. q <= k /\ k <= q
    BY <1>1, <1>8, Factors
<1>10. q = k
    BY <1>9
<1> QED
    BY <1>4, <1>5, <1>10

\* The numbers beyond the snapshot lie within one turn of the ring.
LEMMA LogRange ==
    ASSUME Inside, Open, NEW v \in Nat, NEW h \in Nat, Placed(v, h),
           NEW n \in Nat, covered < n, n < seq_next
    PROVE  n \in Nat \ {0} /\ h * BlockFrames < n /\ n <= (h + RingBlocks) * BlockFrames
<1>1. /\ covered \in Nat /\ seq_next \in Nat /\ window \in Nat /\ buf \in Seq(Frames) /\ Len(buf) \in Nat
    BY LenProperties, Sizes, BoundAssumption DEF Inside, Typed, BufRight, BufferRight
<1>2. /\ h * BlockFrames <= covered /\ v * BlockFrames + Len(buf) = seq_next - 1
      /\ window <= RingBlocks - 1 - (v - h) /\ Len(buf) <= window * BlockFrames
    BY DEF Placed
<1> DEFINE a == v + window
           b == h + RingBlocks
           hb == h * BlockFrames
           vb == v * BlockFrames
           wb == window * BlockFrames
           ab == a * BlockFrames
           bb == b * BlockFrames
<1>3. a \in Int /\ b \in Int /\ a <= b
    BY <1>1, <1>2, Sizes
<1>4. ab = vb + wb /\ vb \in Int /\ wb \in Int /\ hb \in Int
    BY <1>1, Sizes, Products
<1> HIDE DEF a, b
<1>5. ab <= bb /\ ab \in Int /\ bb \in Int
    BY <1>3, Sizes, Products
<1>6. hb <= covered /\ vb + Len(buf) = seq_next - 1 /\ Len(buf) <= wb
    BY <1>2
<1> HIDE DEF hb, vb, wb, ab, bb
<1>7. n \in Nat \ {0} /\ hb < n /\ n <= bb
    BY <1>1, <1>4, <1>5, <1>6
<1> QED
    BY <1>7 DEF hb, bb, b

\* The number whose slot a window's write reaches.
LEMMA Reached ==
    ASSUME Inside, mode = "up", NEW v \in Nat, NEW h \in Nat, Placed(v, h), NEW x \in Span, x \in Slots
    PROVE  \E j \in Nat \ {0} : /\ j = x - cur * BlockFrames + 1
                               /\ Home(v * BlockFrames + j, x)
                               /\ v * BlockFrames + j \in Nat \ {0}
                               /\ h * BlockFrames < v * BlockFrames + j
                               /\ v * BlockFrames + j <= (h + RingBlocks) * BlockFrames
                               /\ v * BlockFrames + j <= (h + RingBlocks - 1) * BlockFrames
<1>1. /\ cur \in 0 .. RingBlocks - 1 /\ buf \in Seq(Frames) /\ Len(buf) \in Nat /\ window \in Nat
      /\ Open /\ Typed
    BY LenProperties, Sizes DEF Inside, Typed, BufRight, BufferRight, Open
<1>2. /\ Lies(v, cur) /\ Lies(h, head) /\ h <= v /\ window <= RingBlocks - 1 - (v - h)
    BY DEF Placed
<1>3. UsedBlocks \in Nat
  <2>1. Len(buf) + BlockFrames - 1 \in Nat
    BY <1>1, Sizes
  <2> QED
    BY <2>1, Division, Sizes DEF UsedBlocks
<1>4. v - h + UsedBlocks <= RingBlocks - 1
  <2>1. ((cur + RingBlocks - head) % RingBlocks) + UsedBlocks <= RingBlocks - 1
    BY InsideShows DEF WindowInRing
  <2>2. v - h <= RingBlocks - 1
    BY <1>1, <1>2, Sizes
  <2>3. (cur + RingBlocks - head) % RingBlocks = v - h
    BY <1>2, <2>2, Distance
  <2> QED
    BY <2>1, <2>3
<1> DEFINE c == cur * BlockFrames
           u == UsedBlocks * BlockFrames
           vb == v * BlockFrames
           hb == h * BlockFrames
           j == x - c + 1
<1>5. c \in Nat /\ u \in Nat /\ vb \in Nat /\ hb \in Nat /\ hb <= vb
    BY <1>1, <1>2, <1>3, Sizes, Products
<1>6. x \in c .. c + u - 1
  <2>1. (cur + UsedBlocks) * BlockFrames = c + u
    BY <1>1, <1>3, Sizes, Products
  <2>2. x \in c .. (cur + UsedBlocks) * BlockFrames - 1
    BY Zenon DEF Span
  <2> QED
    BY <1>5, <2>1, <2>2
<1>7. vb + u <= (h + RingBlocks) * BlockFrames /\ vb + u <= (h + RingBlocks - 1) * BlockFrames
  <2> DEFINE a == v + UsedBlocks
             b == h + RingBlocks
             d == h + RingBlocks - 1
  <2>1. a \in Int /\ b \in Int /\ d \in Int /\ a <= b /\ a <= d
    BY <1>3, <1>4, Sizes
  <2>2. a * BlockFrames = vb + u
    BY <1>3, Sizes, Products
  <2> HIDE DEF a, b, d
  <2>3. a * BlockFrames <= b * BlockFrames /\ a * BlockFrames <= d * BlockFrames
    BY <2>1, Sizes, Products
  <2> QED
    BY <2>2, <2>3 DEF b, d
<1>8. (h + RingBlocks) * BlockFrames \in Int /\ (h + RingBlocks - 1) * BlockFrames \in Int
  <2>1. h + RingBlocks \in Int /\ h + RingBlocks - 1 \in Int
    BY Sizes
  <2> QED
    BY <2>1, Sizes, Products
<1>9. PICK q \in Nat : v = q * RingBlocks + cur
    BY <1>2 DEF Lies
<1>10. vb = q * RingBlocks * BlockFrames + c /\ q * RingBlocks * BlockFrames \in Int
  <2>1. q * RingBlocks \in Int /\ q * RingBlocks \in Nat
    BY Sizes
  <2> QED
    BY <1>1, <1>9, <2>1, Sizes, Products
<1> HIDE DEF c, u, vb, hb
<1>11. j \in Nat \ {0} /\ j <= u
    BY <1>5, <1>6
<1>12. vb + j - 1 = q * RingBlocks * BlockFrames + x
    BY <1>5, <1>6, <1>10
<1>13. Home(vb + j, x)
  <2> DEFINE m == vb + j
  <2>1. m - 1 = q * RingBlocks * BlockFrames + x
    BY <1>5, <1>6, <1>10, <1>12
  <2> HIDE DEF m
  <2>2. Home(m, x)
    BY <2>1 DEF Home
  <2> QED
    BY <2>2 DEF m
<1>14. /\ vb + j \in Nat \ {0} /\ hb < vb + j /\ vb + j <= (h + RingBlocks) * BlockFrames
       /\ vb + j <= (h + RingBlocks - 1) * BlockFrames
    BY <1>5, <1>7, <1>8, <1>11
<1> QED
    BY <1>11, <1>13, <1>14 DEF c, vb, hb

\* What a write does to the slot of a number it is not against.
LEMMA WriteHere ==
    ASSUME DeviceRight, NEW content, WriteAt(content), NEW n \in Nat \ {0},
           Seat(n) \in DOMAIN content => content[Seat(n)][1] = n
    PROVE  /\ Kept(n) => Kept(n)'
           /\ Here(n) \/ Seat(n) \in DOMAIN content => Here(n)'
<1> DEFINE x == Seat(n)
<1>1. x \in Slots /\ platter[x] \in Seq(Frames) /\ platter[x] # <<>> /\ Len(platter[x]) \in Nat
    BY Seats, LenProperties DEF DeviceRight, PlatterRight
<1>2. platter'[x] = IF x \in DOMAIN content /\ content[x] # Current(x)
                    THEN Append(platter[x], content[x]) ELSE platter[x]
    BY <1>1 DEF WriteAt
<1>3. Len(platter[x]) \in 1 .. Len(platter[x])
    BY <1>1, EmptySeq
<1>4. CASE x \in DOMAIN content /\ content[x] # Current(x)
  <2>1. /\ Len(platter'[x]) = Len(platter[x]) + 1
        /\ \A i \in 1 .. Len(platter[x]) : platter'[x][i] = platter[x][i]
        /\ platter'[x][Len(platter[x]) + 1] = content[x]
    BY <1>1, <1>2, <1>4
  <2>2. content[x][1] = n
    BY <1>4
  <2>3. Here(n)'
    BY <2>1, <2>2 DEF Here, Seq0, Current, Seat
  <2>4. ASSUME Kept(n), NEW i \in 1 .. Len(platter'[x])
        PROVE  platter'[x][i][1] = n
    <3>1. i \in 1 .. Len(platter[x]) \/ i = Len(platter[x]) + 1
      BY <1>1, <2>1
    <3> QED
      BY <2>1, <2>2, <2>4, <3>1 DEF Kept
  <2> QED
    BY <2>3, <2>4 DEF Kept, Seat
<1>5. CASE ~ (x \in DOMAIN content /\ content[x] # Current(x))
  <2>1. platter'[x] = platter[x]
    BY <1>2, <1>5
  <2>2. Here(n)' <=> Here(n)
    BY <2>1 DEF Here, Seq0, Current, Seat
  <2>3. Kept(n)' <=> Kept(n)
    BY <2>1 DEF Kept, Seat
  <2>4. x \in DOMAIN content => Here(n)
    BY <1>5 DEF Here, Seq0
  <2> QED
    BY <2>2, <2>3, <2>4
<1> QED
    BY <1>4, <1>5

\* The slots of the buffered frames are written.
LEMMA InSpan ==
    ASSUME Inside, mode = "up", NEW v \in Nat, NEW h \in Nat, Placed(v, h), NEW i \in 1 .. Len(buf)
    PROVE  /\ cur * BlockFrames + i - 1 \in Span /\ cur * BlockFrames + i - 1 \in Slots
           /\ Home(v * BlockFrames + i, cur * BlockFrames + i - 1)
<1>1. /\ cur \in 0 .. RingBlocks - 1 /\ buf \in Seq(Frames) /\ Len(buf) \in Nat
    BY LenProperties, Sizes DEF Inside, Typed, BufRight, BufferRight
<1> DEFINE c == cur * BlockFrames
           u == UsedBlocks * BlockFrames
           vb == v * BlockFrames
<1>2. UsedBlocks \in Nat /\ Len(buf) <= u
  <2> DEFINE a == Len(buf) + BlockFrames - 1
  <2>1. a \in Nat /\ UsedBlocks = a \div BlockFrames
    BY <1>1, Sizes DEF UsedBlocks
  <2> HIDE DEF a
  <2>2. /\ a \div BlockFrames \in Nat /\ a % BlockFrames \in 0 .. BlockFrames - 1
        /\ a = (a \div BlockFrames) * BlockFrames + (a % BlockFrames)
    BY <2>1, Division, Sizes
  <2>3. u \in Int /\ u = (a \div BlockFrames) * BlockFrames
    BY <2>1, <2>2, Sizes, Products
  <2> QED
    BY <1>1, <2>1, <2>2, <2>3, Sizes DEF a
<1>3. cur + UsedBlocks <= RingBlocks
    BY InsideShows DEF WindowInRing
<1>4. c \in Nat /\ u \in Nat /\ vb \in Nat /\ (cur + UsedBlocks) * BlockFrames = c + u
    BY <1>1, <1>2, Sizes, Products
<1>5. c + u <= RingBlocks * BlockFrames /\ RingBlocks * BlockFrames \in Int
  <2> DEFINE a == cur + UsedBlocks
  <2>1. a \in Int /\ a <= RingBlocks
    BY <1>1, <1>2, <1>3
  <2>2. a * BlockFrames = c + u
    BY <1>4
  <2> HIDE DEF a
  <2> QED
    BY <2>1, <2>2, Sizes, Products
<1>6. PICK q \in Nat : v = q * RingBlocks + cur
    BY DEF Placed, Lies
<1>7. vb = q * RingBlocks * BlockFrames + c /\ q * RingBlocks * BlockFrames \in Int
  <2>1. q * RingBlocks \in Int /\ q * RingBlocks \in Nat
    BY Sizes
  <2> QED
    BY <1>1, <1>6, <2>1, Sizes, Products
<1>8. Span = c .. (cur + UsedBlocks) * BlockFrames - 1
    BY DEF Span
<1> DEFINE m == vb + i
           y == c + i - 1
           a == q * RingBlocks * BlockFrames
<1> HIDE DEF c, u, vb
<1>9. y \in c .. c + u - 1 /\ y \in 0 .. RingBlocks * BlockFrames - 1
    BY <1>1, <1>2, <1>4, <1>5
<1>10. m - 1 = a + y
  <2>1. vb = a + c /\ a \in Int
    BY <1>7
  <2> HIDE DEF a
  <2> QED
    BY <1>1, <1>4, <2>1
<1> HIDE DEF m, y
<1>11. Home(m, y)
    BY <1>10 DEF Home
<1>12. y \in Span /\ y \in Slots
    BY <1>4, <1>8, <1>9 DEF Slots
<1> QED
    BY <1>11, <1>12 DEF m, y, c, vb

\* A window that is written leaves every number given out on the device, and moves none.
LEMMA SpanHere ==
    ASSUME Inside, mode = "up", Buffered, Left, WriteWindowSpan, NEW n \in Nat, covered < n, n < seq_next
    PROVE  Here(n)' /\ (Kept(n) => Kept(n)')
<1> DEFINE content == [x \in Span |-> LET i == x - cur * BlockFrames + 1
                                     IN  IF i <= Len(buf) THEN buf[i] ELSE None]
<1>1. WriteAt(content) /\ DOMAIN content = Span
    BY DEF WriteWindowSpan
<1>2. Open /\ DeviceRight
    BY DEF Open, Inside
<1>3. PICK v \in Nat, h \in Nat : Placed(v, h)
    BY <1>2 DEF Inside, Located
<1>4. n \in Nat \ {0} /\ h * BlockFrames < n /\ n <= (h + RingBlocks) * BlockFrames
    BY <1>2, <1>3, LogRange
<1>5. Seat(n) \in Slots /\ Home(n, Seat(n)) /\ \A x \in Slots : Home(n, x) => x = Seat(n)
    BY <1>4, Seats
<1>6. /\ cur \in Nat /\ seq_next \in Nat /\ Len(buf) \in Nat
      /\ cur * BlockFrames \in Int /\ v * BlockFrames \in Nat
      /\ v * BlockFrames + Len(buf) = seq_next - 1
    BY <1>3, LenProperties, Sizes, BoundAssumption, Products DEF Inside, Typed, BufRight, BufferRight, Placed
<1>7. CASE n <= v * BlockFrames
  <2>1. Here(n)
    BY <1>6, <1>7 DEF Left
  <2>2. Seat(n) \notin Span
    <3> SUFFICES ASSUME Seat(n) \in Span PROVE FALSE
      OBVIOUS
    <3>1. PICK j \in Nat \ {0} : /\ Home(v * BlockFrames + j, Seat(n))
                                 /\ v * BlockFrames + j \in Nat \ {0}
                                 /\ h * BlockFrames < v * BlockFrames + j
                                 /\ v * BlockFrames + j <= (h + RingBlocks) * BlockFrames
      BY <1>3, <1>5, Reached
    <3>2. n = v * BlockFrames + j
      BY <1>4, <1>5, <3>1, Apart
    <3> QED
      BY <1>6, <1>7, <3>2
  <2> HIDE DEF content
  <2> QED
    BY <1>1, <1>2, <1>4, <2>1, <2>2, WriteHere
<1>8. CASE n > v * BlockFrames
  <2> DEFINE c == cur * BlockFrames
             vb == v * BlockFrames
             i == n - vb
             y == c + i - 1
  <2>1. c \in Int /\ vb \in Nat /\ vb + Len(buf) = seq_next - 1 /\ n > vb
    BY <1>6, <1>8
  <2>2. i \in 1 .. Len(buf) /\ vb + i = n /\ seq_next - 1 - Len(buf) + i = n /\ y - c + 1 = i
    <3> HIDE DEF c, vb
    <3> QED
      BY <1>4, <1>6, <2>1
  <2> HIDE DEF i
  <2>3. y \in Span /\ y \in Slots /\ Home(v * BlockFrames + i, y)
    BY <1>3, <2>2, InSpan
  <2>4. y = Seat(n)
    BY <1>5, <2>2, <2>3
  <2>5. buf[i][1] = n
    BY <2>2 DEF Buffered
  <2>6. content[y] = buf[i]
    <3>1. content[y] = LET k == y - cur * BlockFrames + 1 IN IF k <= Len(buf) THEN buf[k] ELSE None
      BY <2>3
    <3>2. y - cur * BlockFrames + 1 = i /\ i <= Len(buf)
      BY <1>6, <2>2
    <3> QED
      BY <3>1, <3>2
  <2> HIDE DEF content, y
  <2> QED
    BY <1>1, <1>2, <1>4, <2>3, <2>4, <2>5, <2>6, WriteHere
<1> QED
    BY <1>6, <1>7, <1>8

\* A synchronisation makes what a read finds stay.
LEMMA SyncHere ==
    ASSUME DeviceRight, Sync, NEW n \in Nat \ {0}
    PROVE  (Here(n) => Here(n)' /\ Kept(n)') /\ (Kept(n) => Here(n))
<1> DEFINE x == Seat(n)
<1>1. x \in Slots /\ platter[x] \in Seq(Frames) /\ platter[x] # <<>> /\ Len(platter[x]) \in Nat
    BY Seats, LenProperties DEF DeviceRight, PlatterRight
<1>2. platter'[x] = <<Current(x)>>
    BY <1>1 DEF Sync
<1>3. Len(platter'[x]) = 1 /\ platter'[x][1] = Current(x)
    BY <1>2
<1>4. Here(n) => Here(n)' /\ Kept(n)'
    BY <1>3 DEF Here, Kept, Seq0, Current, Seat
<1>5. Len(platter[x]) \in 1 .. Len(platter[x])
    BY <1>1, EmptySeq
<1> QED
    BY <1>4, <1>5 DEF Here, Kept, Seq0, Current

\* A power failure takes back nothing that stays.
LEMMA TornKept ==
    ASSUME DeviceRight, Torn, NEW n \in Nat \ {0}, Kept(n)
    PROVE  Kept(n)'
<1> DEFINE x == Seat(n)
<1>1. x \in Slots /\ platter[x] \in Seq(Frames) /\ platter[x] # <<>> /\ Len(platter[x]) \in Nat
    BY Seats, LenProperties DEF DeviceRight, PlatterRight
<1>2. PICK k : k \in 1 .. Len(platter[x]) /\ platter'[x] = <<platter[x][k]>>
  <2>1. PICK pick \in [Unsynced -> 1 .. Most] :
            /\ \A y \in Unsynced : pick[y] <= Len(platter[y])
            /\ platter' = [y \in Slots |->
                             <<platter[y][IF y \in Unsynced THEN pick[y] ELSE 1]>>]
    BY DEF Torn
  <2> QED
    BY <1>1, <2>1, EmptySeq
<1>3. Len(platter'[x]) = 1 /\ platter'[x][1] = platter[x][k]
    BY <1>2
<1> QED
    BY <1>2, <1>3 DEF Kept, Seat

\* The walk of an accepted log that has live frames: it starts at the first number the snapshot
\* leaves, crosses consecutive numbers and ends at the last of them or where the next is missing.
LEMMA Walked ==
    ASSUME DeviceRight, covered \in Nat, NEW c, c = Survey, Walkable(c), Live # {}
    PROVE  /\ c.first \in Slots /\ c.replayed \in Nat \ {0} /\ c.replayed <= RingBlocks * BlockFrames
           /\ \A n \in 0 .. c.replayed - 1 : Seq0(Ahead(c.first, n)) = covered + 1 + n
           /\ c.replayed < RingBlocks * BlockFrames => Seq0(Ahead(c.first, c.replayed)) # covered + 1 + c.replayed
           /\ c.anchor = covered + c.replayed
           /\ c.stop = Ahead(c.first, c.replayed)
<1> DEFINE valid  == Valid
           live   == Live
           first  == CHOOSE x \in live : \A y \in live :
                       Seq0(x) < Seq0(y) \/ (Seq0(x) = Seq0(y) /\ x <= y)
           newest == CHOOSE x \in valid : \A y \in valid :
                       Seq0(x) > Seq0(y) \/ (Seq0(x) = Seq0(y) /\ x <= y)
           broken == {n \in 0 .. Cardinality(Slots) - 1 : Seq0(Ahead(first, n)) # covered + 1 + n}
           replayed == IF live = {} THEN 0
                       ELSE IF broken = {} THEN Cardinality(Slots)
                       ELSE CHOOSE n \in broken : \A m \in broken : n <= m
           anchor == IF replayed > 0 THEN Ahead(first, replayed - 1) ELSE newest
           z == RingBlocks * BlockFrames
<1>1. /\ c.live = live /\ c.replayed = replayed
      /\ c.anchor = IF valid = {} THEN 0 ELSE Seq0(anchor)
      /\ c.first = IF live = {} THEN 0 ELSE first
      /\ c.stop = IF live = {} THEN 0 ELSE Ahead(first, replayed)
    BY DEF Survey
<1>2. live # {} /\ live \subseteq valid /\ valid \subseteq Slots
    BY DEF Live, Valid
<1>3. replayed > 0
    BY <1>1, <1>2 DEF Walkable
<1>4. first \in Slots
  <2>1. \E x \in live : \A y \in live : Seq0(x) < Seq0(y) \/ (Seq0(x) = Seq0(y) /\ x <= y)
    <3>1. live \in SUBSET Slots
      BY <1>2
    <3> HIDE DEF live
    <3> QED
      BY <1>2, <3>1, FirstAndNewest DEF DeviceRight
  <2>2. first \in live
    BY <2>1
  <2> HIDE DEF first
  <2> QED
    BY <1>2, <2>2
<1>5. z \in Nat /\ Cardinality(Slots) = z
  <2>1. z \in Nat /\ z - 1 \in Int /\ 0 \in Int
    BY Sizes
  <2> HIDE DEF z
  <2>2. Cardinality(0 .. z - 1) = IF 0 > z - 1 THEN 0 ELSE z - 1 - 0 + 1
    BY <2>1, FS_Interval
  <2> QED
    BY <2>1, <2>2 DEF Slots, z
<1> HIDE DEF z, first, newest
<1>6. /\ replayed \in Nat /\ replayed <= z
      /\ \A n \in 0 .. replayed - 1 : n \notin broken
      /\ replayed < z => replayed \in broken
  <2>1. CASE broken = {}
    <3>1. replayed = z
      BY <1>2, <1>5, <2>1
    <3> HIDE DEF broken, replayed
    <3> QED
      BY <1>5, <2>1, <3>1
  <2>2. CASE broken # {}
    <3>1. broken \subseteq Nat /\ \A n \in broken : n < z
      BY <1>5
    <3>2. replayed = CHOOSE n \in broken : \A m \in broken : n <= m
      BY <1>2, <2>2
    <3> HIDE DEF broken, replayed
    <3>3. \E n \in broken : \A m \in broken : n <= m
      BY <2>2, <3>1, LeastMember
    <3>4. replayed \in broken /\ \A m \in broken : replayed <= m
      BY <3>2, <3>3
    <3> QED
      BY <1>5, <3>1, <3>4
  <2> QED
    BY <2>1, <2>2
<1>7. \A n \in 0 .. z - 1 : n \notin broken <=> Seq0(Ahead(first, n)) = covered + 1 + n
    BY <1>5
<1>8. anchor = Ahead(first, replayed - 1)
    BY <1>3
<1> HIDE DEF broken, replayed, anchor
<1>9. \A n \in 0 .. replayed - 1 : Seq0(Ahead(first, n)) = covered + 1 + n
    BY <1>5, <1>6, <1>7
<1>10. replayed < z => Seq0(Ahead(first, replayed)) # covered + 1 + replayed
    BY <1>5, <1>6, <1>7
<1>11. Seq0(anchor) = covered + replayed
    BY <1>3, <1>6, <1>8, <1>9
<1> QED
    BY <1>1, <1>2, <1>3, <1>4, <1>6, <1>9, <1>10, <1>11 DEF z

\* The slots of consecutive numbers follow each other.
LEMMA SeatAhead ==
    ASSUME NEW n \in Nat \ {0}, NEW m \in Nat
    PROVE  Seat(n + m) = Ahead(Seat(n), m)
<1> DEFINE z == RingBlocks * BlockFrames
           x == Seat(n)
           y == (x + m) % z
<1>1. x \in Slots /\ Home(n, x) /\ z \in Nat \ {0}
    BY Seats, Sizes
<1>2. y = Ahead(x, m) /\ \A q \in Nat : q * RingBlocks * BlockFrames = q * z
    BY Sizes DEF Ahead
<1>3. Slots = 0 .. z - 1
    BY DEF Slots
<1> HIDE DEF z, x
<1>4. PICK q \in Nat : n - 1 = q * z + x
    BY <1>1, <1>2 DEF Home
<1>5. x + m \in Nat
    BY <1>1, <1>3
<1> DEFINE k == (x + m) \div z
<1>6. k \in Nat /\ y \in 0 .. z - 1 /\ x + m = k * z + y
    BY <1>1, <1>5, Division
<1> HIDE DEF k, y
<1>7. (q + k) * z = q * z + k * z /\ q * z \in Int /\ k * z \in Int /\ q + k \in Nat
    BY <1>1, <1>6, Products
<1>8. (n + m) - 1 = (q + k) * z + y
    BY <1>1, <1>3, <1>4, <1>6, <1>7
<1>9. Home(n + m, y) /\ y \in Slots /\ n + m \in Nat \ {0}
  <2>1. \E p \in Nat : (n + m) - 1 = p * z + y
    BY <1>7, <1>8
  <2>2. \E p \in Nat : (n + m) - 1 = p * RingBlocks * BlockFrames + y
    BY <1>2, <2>1
  <2> QED
    BY <1>3, <1>6, <2>2 DEF Home
<1> QED
    BY <1>2, <1>9, Seats DEF x

\* The numbers of an accepted log are all there, and when there are live frames the next is not.
LEMMA SurveyHere ==
    ASSUME DeviceRight, covered \in Nat, NEW c, c = Survey, Walkable(c)
    PROVE  /\ \A n \in Nat : covered < n /\ n <= c.anchor => Here(n)
           /\ Here(covered + 1) => covered < c.anchor /\ ~ Here(c.anchor + 1)
<1>1. \A x \in Slots : Seq0(x) \in 0 .. MaxSeq /\ Home(Seq0(x), x)
    BY CurrentFacts DEF Seq0, Frames, DeviceRight
<1>2. Here(covered + 1) => Live # {}
  <2>1. Seat(covered + 1) \in Slots
    BY Seats
  <2> QED
    BY <1>1, <2>1 DEF Here, Live, Valid
<1>3. CASE Live = {}
  <2>1. c.anchor = covered
    BY <1>3, Surveyed
  <2> QED
    BY <1>2, <1>3, <2>1
<1>4. CASE Live # {}
  <2> DEFINE z == RingBlocks * BlockFrames
  <2>1. /\ c.first \in Slots /\ c.replayed \in Nat \ {0} /\ c.replayed <= z
        /\ \A n \in 0 .. c.replayed - 1 : Seq0(Ahead(c.first, n)) = covered + 1 + n
        /\ c.replayed < z => Seq0(Ahead(c.first, c.replayed)) # covered + 1 + c.replayed
        /\ c.anchor = covered + c.replayed
    BY <1>4, Walked
  <2>2. z \in Nat
    BY Sizes
  <2> HIDE DEF z
  <2>3. c.first = Seat(covered + 1) /\ Seq0(c.first) = covered + 1
    <3>1. Seq0(c.first) = covered + 1
      <4>1. 0 \in 0 .. c.replayed - 1 /\ Ahead(c.first, 0) = c.first
        BY <2>1, Walk
      <4> QED
        BY <2>1, <4>1
    <3>2. Home(covered + 1, c.first)
      BY <1>1, <2>1, <3>1
    <3> QED
      BY <2>1, <3>1, <3>2, Seats
  <2>4. ASSUME NEW n \in Nat, covered < n, n <= c.anchor
        PROVE  Here(n)
    <3> DEFINE m == n - covered - 1
    <3>1. m \in 0 .. c.replayed - 1 /\ covered + 1 + m = n /\ m \in Nat
      BY <2>1, <2>4
    <3> HIDE DEF m
    <3>2. Seat(n) = Ahead(c.first, m)
      <4>1. covered + 1 \in Nat \ {0}
        OBVIOUS
      <4>2. Seat(covered + 1 + m) = Ahead(Seat(covered + 1), m)
        BY <3>1, <4>1, SeatAhead
      <4> QED
        BY <2>3, <3>1, <4>2
    <3> QED
      BY <2>1, <3>1, <3>2 DEF Here
  <2>5. ~ Here(c.anchor + 1)
    <3>1. covered + 1 + c.replayed = c.anchor + 1
      BY <2>1
    <3>2. Seat(c.anchor + 1) = Ahead(c.first, c.replayed)
      BY <2>1, <2>3, <3>1, SeatAhead
    <3>3. CASE c.replayed < z
      BY <2>1, <3>1, <3>2, <3>3 DEF Here
    <3>4. CASE c.replayed = z
      <4>1. Ahead(c.first, z) = c.first
        <5>1. c.first \in 0 .. z - 1 /\ z # 0
          BY <2>1, <2>2 DEF Slots, z
        <5>2. c.first + z = 1 * z + c.first
          BY <2>2, <5>1
        <5>3. (1 * z + c.first) % z = c.first
          BY <2>2, <5>1, Quotient
        <5> QED
          BY <5>2, <5>3 DEF Ahead, z
      <4> QED
        BY <2>1, <2>2, <2>3, <3>1, <3>2, <3>4, <4>1 DEF Here
    <3> QED
      BY <2>1, <2>2, <3>3, <3>4
  <2> QED
    BY <2>1, <2>4, <2>5
<1> QED
    BY <1>3, <1>4

\* A frame that is still there after an erasure has not been touched by it.
LEMMA EraseHere ==
    ASSUME DeviceRight, NEW c, Erase(c), NEW n \in Nat \ {0}, Here(n)'
    PROVE  Kept(n) => Kept(n)'
<1> DEFINE zone  == (c.tail + (IF c.frames > 0 THEN 1 ELSE 0)) * BlockFrames
                        .. ZoneEnd(c) * BlockFrames - 1
           after == c.tail * BlockFrames + c.frames .. (c.tail + 1) * BlockFrames - 1
           cleared == zone \cup (IF c.frames > 0 THEN after ELSE {})
           content == [x \in cleared |-> None]
           x == Seat(n)
<1>1. WriteAt(content) /\ DOMAIN content = cleared
    BY DEF Erase
<1> HIDE DEF cleared
<1>2. x \in Slots /\ platter[x] \in Seq(Frames) /\ platter[x] # <<>> /\ Len(platter[x]) \in Nat
    BY Seats, LenProperties DEF DeviceRight, PlatterRight
<1>3. x \in cleared => content[x] = None
    OBVIOUS
<1> HIDE DEF content
<1>4. platter'[x] = IF x \in cleared /\ None # Current(x) THEN Append(platter[x], None) ELSE platter[x]
    BY <1>1, <1>2, <1>3 DEF WriteAt
<1>5. platter'[x][Len(platter'[x])][1] = n
    BY DEF Here, Seq0, Current, Seat
<1>6. platter'[x] = platter[x]
  <2> SUFFICES ASSUME None # Current(x), platter'[x] = Append(platter[x], None) PROVE FALSE
    BY <1>4
  <2>1. Len(platter'[x]) = Len(platter[x]) + 1 /\ platter'[x][Len(platter[x]) + 1] = None
    BY <1>2
  <2> QED
    BY <1>5, <2>1 DEF None
<1> QED
    BY <1>6 DEF Kept, Seat

\* The frames of the last block are buffered in their order.
LEMMA RecoverBuffered ==
    ASSUME Inside, Recover
    PROVE  Buffered'
<1>1. PICK c \in {Survey} :
         /\ Acceptable(c)
         /\ cur' = c.tail
         /\ buf' = [i \in 1 .. c.frames |-> Current(c.tail * BlockFrames + i - 1)]
         /\ seq_next' = c.anchor + 1
    BY DEF Recover
<1>2. UNCHANGED covered
    BY DEF Recover
<1>3. DeviceRight /\ covered \in Nat
    BY BoundAssumption DEF Inside, Typed
<1>4. /\ c.anchor \in Nat /\ covered <= c.anchor /\ c.frames \in 0 .. BlockFrames - 1 /\ c.frames \in Nat
      /\ \A i \in 1 .. c.frames : c.tail * BlockFrames + i - 1 \in Slots
      /\ \E v \in Nat : Lies(v, c.tail) /\ v * BlockFrames + c.frames = c.anchor
    BY <1>1, <1>3, Surveyed, AcceptedWalk, Sizes, BoundAssumption
<1>5. \A n \in Nat : covered < n /\ n <= c.anchor => Here(n)
    BY <1>1, <1>3, SurveyHere, AcceptedWalk
<1>6. Len(buf') = c.frames
    BY <1>1, <1>4
<1>7. Buffered'
  <2> SUFFICES ASSUME NEW i \in 1 .. Len(buf'), covered < c.anchor - c.frames + i
               PROVE  buf'[i][1] = c.anchor - c.frames + i
    <3>1. seq_next' - 1 - Len(buf') = c.anchor - c.frames /\ covered' = covered
      BY <1>1, <1>2, <1>4, <1>6
    <3> QED
      BY <3>1 DEF Buffered
  <2> DEFINE n == c.anchor - c.frames + i
             y == c.tail * BlockFrames + i - 1
  <2>1. i \in 1 .. c.frames /\ buf'[i] = Current(y)
    BY <1>1, <1>4, <1>6
  <2>2. n \in Nat \ {0} /\ covered < n /\ n <= c.anchor
    BY <1>3, <1>4, <2>1
  <2>3. Home(n, y) /\ y \in Slots
    <3>1. PICK v \in Nat : Lies(v, c.tail) /\ v * BlockFrames + c.frames = c.anchor
      BY <1>4
    <3>2. PICK q \in Nat : v = q * RingBlocks + c.tail
      BY <3>1 DEF Lies
    <3>3. c.tail \in 0 .. RingBlocks - 1
      BY <3>1 DEF Lies
    <3> DEFINE t == c.tail * BlockFrames
               b == v * BlockFrames
               a == q * RingBlocks * BlockFrames
    <3>4. t \in Int /\ a \in Int /\ b = a + t
      <4>1. q * RingBlocks \in Int /\ c.tail \in Int
        BY <3>3, Sizes
      <4>2. (q * RingBlocks + c.tail) * BlockFrames = a + t /\ a \in Int /\ t \in Int
        BY <4>1, Sizes, Products
      <4> QED
        BY <3>2, <4>2
    <3>5. n - 1 = a + y
      <4>1. b + c.frames = c.anchor /\ y = t + i - 1
        BY <3>1
      <4> HIDE DEF a, b, t, y
      <4> QED
        BY <1>4, <2>1, <3>4, <4>1
    <3>6. Home(n, y)
      <4> HIDE DEF n, y
      <4> QED
        BY <3>5 DEF Home, a
    <3> QED
      BY <1>4, <2>1, <3>6
  <2>4. y = Seat(n) /\ Here(n)
    BY <1>5, <2>2, <2>3, Seats
  <2> QED
    BY <2>1, <2>4 DEF Here, Seq0
<1> QED
    BY <1>7

\* What a device that accepts a log has kept of the promises, and what Recover makes of it.
LEMMA RecoverDurable ==
    ASSUME Inside, Lasting, Recover, ErasesOnlyFragments'
    PROVE  Lasting' /\ promised' < seq_next' /\ Buffered' /\ Left'
<1>1. PICK c \in {Survey} :
         /\ Acceptable(c)
         /\ cur' = c.tail
         /\ head' = c.head
         /\ buf' = [i \in 1 .. c.frames |-> Current(c.tail * BlockFrames + i - 1)]
         /\ seq_next' = c.anchor + 1
         /\ \/ mode' = "up" /\ UNCHANGED platter
            \/ mode' = "erasing" /\ Erase(c)
    BY DEF Recover
<1>2. UNCHANGED <<covered, promised>>
    BY DEF Recover
<1>3. DeviceRight /\ covered \in Nat /\ promised \in Nat
    BY BoundAssumption DEF Inside, Typed
<1>4. Inside'
    BY RecoverInside
<1>5. /\ c.anchor \in Nat /\ covered <= c.anchor /\ c.frames \in 0 .. BlockFrames - 1 /\ c.frames \in Nat
      /\ \A i \in 1 .. c.frames : c.tail * BlockFrames + i - 1 \in Slots
      /\ \E v \in Nat : Lies(v, c.tail) /\ v * BlockFrames + c.frames = c.anchor
    BY <1>1, <1>3, Surveyed, AcceptedWalk, Sizes, BoundAssumption
<1>6. /\ \A n \in Nat : covered < n /\ n <= c.anchor => Here(n)
      /\ Here(covered + 1) => covered < c.anchor /\ ~ Here(c.anchor + 1)
    BY <1>1, <1>3, SurveyHere, AcceptedWalk
<1>7. \A n \in Nat \ {0} : Kept(n) => Here(n)
  <2>1. ASSUME NEW n \in Nat \ {0}, Kept(n)
        PROVE  Here(n)
    <3>1. Seat(n) \in Slots /\ platter[Seat(n)] \in Seq(Frames) /\ platter[Seat(n)] # <<>>
      BY <1>3, Seats DEF DeviceRight, PlatterRight
    <3>2. Len(platter[Seat(n)]) \in 1 .. Len(platter[Seat(n)])
      BY <3>1, LenProperties, EmptySeq
    <3> QED
      BY <2>1, <3>2 DEF Kept, Here, Seq0, Current
  <2> QED
    BY <2>1
<1>8. promised <= c.anchor
  <2> SUFFICES ASSUME c.anchor < promised PROVE FALSE
    BY <1>3, <1>5
  <2>1. Kept(covered + 1) /\ Kept(c.anchor + 1)
    BY <1>3, <1>5 DEF Lasting
  <2> QED
    BY <1>3, <1>5, <1>6, <1>7, <2>1
<1>9. ASSUME NEW n \in Nat, covered < n, n <= c.anchor
      PROVE  Here(n)' /\ (Kept(n) => Kept(n)')
  <2>1. n \in Nat \ {0} /\ Here(n)
    BY <1>3, <1>6, <1>9
  <2>2. CASE mode' = "up" /\ UNCHANGED platter
    BY <2>1, <2>2 DEF Here, Kept, Seq0, Current, Seat
  <2>3. CASE mode' = "erasing" /\ Erase(c)
    <3>1. n \in covered' + 1 .. seq_next' - 1
      BY <1>1, <1>2, <1>3, <1>5, <1>9
    <3>2. ~ Missing(n)'
      BY <2>3, <3>1 DEF ErasesOnlyFragments
    <3>3. PICK x \in Slots : Seq0(x)' = n
      BY <3>2 DEF Missing
    <3>4. Home(n, x)
      <4>1. PlatterRight(platter', covered') /\ Seq0(x)' = platter'[x][Len(platter'[x])][1]
        BY <1>4 DEF Inside, DeviceRight, Seq0, Current
      <4>2. platter'[x] \in Seq(Frames) /\ platter'[x] # <<>>
            /\ \A i \in 1 .. Len(platter'[x]) : Home(platter'[x][i][1], x)
        BY <4>1 DEF PlatterRight
      <4>3. Len(platter'[x]) \in 1 .. Len(platter'[x])
        BY <4>2, LenProperties, EmptySeq
      <4> QED
        BY <3>3, <4>1, <4>2, <4>3
    <3>5. x = Seat(n)
      BY <2>1, <3>4, Seats
    <3>6. Here(n)'
      BY <3>3, <3>5 DEF Here, Seat
    <3> QED
      BY <1>3, <2>1, <2>3, <3>6, EraseHere
  <2> QED
    BY <1>1, <2>2, <2>3
<1>10. Lasting'
    BY <1>2, <1>3, <1>5, <1>8, <1>9 DEF Lasting
<1>11. Len(buf') = c.frames
    BY <1>1, <1>5
<1>12. Left'
    BY <1>1, <1>2, <1>5, <1>9, <1>11 DEF Left
<1>13. Buffered'
    BY RecoverBuffered
<1> QED
    BY <1>1, <1>2, <1>3, <1>5, <1>8, <1>10, <1>12, <1>13

\* The lists of steps that calls start with or go on with.
LEMMA ShapedLists ==
    /\ Shaped(<<>>)
    /\ Shaped(<<"tail", "batch_sync">>)
    /\ Shaped(<<"flush", "snapshot", "retry">>) /\ Shaped(<<"flush", "snapshot">>) /\ Shaped(<<"flush", "close">>)
    /\ Shaped(<<"flush", "sync">>) /\ Shaped(<<"sync">>) /\ Shaped(<<"batch">>) /\ Shaped(<<"flush">>) /\ Shaped(<<"close">>)
    /\ \A n \in Nat \ {0} : Shaped(WriteSteps(n)) /\ WriteSteps(n) # <<>> /\ WriteSteps(n)[1] \in {"admit", "write"}
    /\ \A s \in Seq(Steps) : s # <<>> /\ Shaped(s) =>
           /\ Shaped(Tail(s))
           /\ \A i \in 1 .. Len(Tail(s)) : Tail(s)[i] # "flush_sync"
           /\ Shaped(<<"flush_sync">> \o Tail(s))
           /\ s[1] # "flush_sync" => Shaped(<<"flush">> \o s)
<1>1. /\ Shaped(<<>>)
      /\ Shaped(<<"tail", "batch_sync">>)
      /\ Shaped(<<"flush", "snapshot", "retry">>) /\ Shaped(<<"flush", "snapshot">>) /\ Shaped(<<"flush", "close">>)
      /\ Shaped(<<"flush", "sync">>) /\ Shaped(<<"sync">>) /\ Shaped(<<"batch">>) /\ Shaped(<<"flush">>) /\ Shaped(<<"close">>)
    BY DEF Shaped
<1>2. ASSUME NEW n \in Nat \ {0}
      PROVE  Shaped(WriteSteps(n)) /\ WriteSteps(n) # <<>> /\ WriteSteps(n)[1] \in {"admit", "write"}
  <2>1. Shaped(<<"write">>)
    BY DEF Shaped
  <2> DEFINE f == [i \in 1 .. n |-> "admit"]
             g == <<"tail", "batch_sync">>
             w == f \o g
  <2>2. f \in Seq(Steps) /\ g \in Seq(Steps) /\ Len(f) = n /\ Len(g) = 2
    BY DEF Steps
  <2>3. \A i \in 1 .. n : f[i] = "admit"
    OBVIOUS
  <2>4. g[1] = "tail" /\ g[2] = "batch_sync"
    OBVIOUS
  <2> HIDE DEF f, g
  <2>5. /\ w \in Seq(Steps) /\ Len(w) = n + 2
        /\ \A i \in 1 .. n : w[i] = "admit"
        /\ w[n + 1] = "tail" /\ w[n + 2] = "batch_sync"
    <3>1. /\ w \in Seq(Steps) /\ Len(w) = n + 2
          /\ \A i \in 1 .. Len(w) : w[i] = IF i <= n THEN f[i] ELSE g[i - n]
      <4>1. /\ w \in Seq(Steps) /\ Len(w) = Len(f) + Len(g)
            /\ \A i \in 1 .. Len(f) + Len(g) : w[i] = IF i <= Len(f) THEN f[i] ELSE g[i - Len(f)]
        BY <2>2, ConcatProperties
      <4> HIDE DEF w
      <4> QED
        BY <2>2, <4>1
    <3>2. /\ \A i \in 1 .. n : i \in 1 .. Len(w)
          /\ n + 1 \in 1 .. Len(w) /\ n + 2 \in 1 .. Len(w) /\ (n + 1) - n = 1 /\ (n + 2) - n = 2
      BY <3>1
    <3> HIDE DEF w
    <3> QED
      BY <2>3, <2>4, <3>1, <3>2
  <2> HIDE DEF w
  <2>6. ASSUME NEW i \in 1 .. Len(w)
        PROVE  /\ w[i] # "flush_sync"
               /\ w[i] = "admit" => i < Len(w) /\ w[i + 1] \in {"admit", "tail"}
    <3>1. i \in 1 .. n \/ i = n + 1 \/ i = n + 2
      BY <2>5
    <3>2. CASE i \in 1 .. n
      <4>1. i + 1 \in 1 .. n \/ i + 1 = n + 1
        BY <3>2
      <4> QED
        BY <2>5, <3>2, <4>1
    <3> QED
      BY <2>5, <3>1, <3>2
  <2>7. Shaped(w)
    BY <2>6 DEF Shaped
  <2>8. w # <<>> /\ w[1] = "admit"
    BY <2>5
  <2> QED
    BY <2>1, <2>7, <2>8 DEF WriteSteps, w, f, g
<1>3. ASSUME NEW s \in Seq(Steps), s # <<>>, Shaped(s)
      PROVE  /\ Shaped(Tail(s))
             /\ \A i \in 1 .. Len(Tail(s)) : Tail(s)[i] # "flush_sync"
             /\ Shaped(<<"flush_sync">> \o Tail(s))
             /\ s[1] # "flush_sync" => Shaped(<<"flush">> \o s)
  <2> DEFINE t == Tail(s)
             p == <<"flush_sync">> \o t
             r == <<"flush">> \o s
  <2>1. /\ Len(s) \in Nat /\ Len(t) = Len(s) - 1 /\ \A i \in 1 .. Len(t) : t[i] = s[i + 1]
        /\ t \in Seq(Steps)
    BY <1>3
  <2>2. /\ Len(p) = Len(t) + 1 /\ p[1] = "flush_sync" /\ \A i \in 2 .. Len(p) : p[i] = t[i - 1]
    <3> HIDE DEF t
    <3> QED
      BY <2>1
  <2>3. /\ Len(r) = Len(s) + 1 /\ r[1] = "flush" /\ \A i \in 2 .. Len(r) : r[i] = s[i - 1]
    OBVIOUS
  <2> HIDE DEF t, p, r
  <2>4. ASSUME NEW i \in 1 .. Len(t)
        PROVE  /\ t[i] # "flush_sync"
               /\ t[i] = "admit" => i < Len(t) /\ t[i + 1] \in {"admit", "tail"}
    <3>1. i + 1 \in 1 .. Len(s) /\ i + 1 # 1 /\ t[i] = s[i + 1]
      <4>1. i \in Nat /\ i >= 1 /\ i <= Len(s) - 1
        BY <2>1
      <4> QED
        BY <2>1, <4>1
    <3>2. ASSUME t[i] = "admit" PROVE i < Len(t) /\ t[i + 1] \in {"admit", "tail"}
      <4>1. i + 1 < Len(s) /\ s[i + 1 + 1] \in {"admit", "tail"}
        BY <1>3, <3>1, <3>2 DEF Shaped
      <4>2. i + 1 \in 1 .. Len(t)
        BY <2>1, <3>1, <4>1
      <4> QED
        BY <2>1, <4>1, <4>2
    <3> QED
      BY <1>3, <3>1, <3>2 DEF Shaped
  <2>5. Shaped(p)
    <3>1. ASSUME NEW i \in 1 .. Len(p), i # 1
          PROVE  /\ p[i] # "flush_sync"
                 /\ p[i] = "admit" => i < Len(p) /\ p[i + 1] \in {"admit", "tail"}
      <4>1. i - 1 \in 1 .. Len(t) /\ i \in 2 .. Len(p) /\ p[i] = t[i - 1]
        BY <2>1, <2>2, <3>1
      <4>2. ASSUME p[i] = "admit" PROVE i < Len(p) /\ p[i + 1] \in {"admit", "tail"}
        <5>1. i - 1 < Len(t) /\ t[(i - 1) + 1] \in {"admit", "tail"}
          BY <2>4, <4>1, <4>2
        <5>2. i + 1 \in 2 .. Len(p) /\ (i + 1) - 1 = (i - 1) + 1 /\ i < Len(p)
          BY <2>1, <2>2, <4>1, <5>1
        <5>3. p[i + 1] = t[(i + 1) - 1]
          BY <2>2, <5>2
        <5> QED
          BY <5>1, <5>2, <5>3
      <4> QED
        BY <2>4, <4>1, <4>2
    <3> QED
      BY <2>2, <3>1 DEF Shaped
  <2>6. ASSUME s[1] # "flush_sync" PROVE Shaped(r)
    <3>1. ASSUME NEW i \in 1 .. Len(r), i # 1
          PROVE  /\ r[i] # "flush_sync"
                 /\ r[i] = "admit" => i < Len(r) /\ r[i + 1] \in {"admit", "tail"}
      <4>1. i - 1 \in 1 .. Len(s) /\ i \in 2 .. Len(r) /\ r[i] = s[i - 1]
        BY <2>1, <2>3, <3>1
      <4>2. ASSUME r[i] = "admit" PROVE i < Len(r) /\ r[i + 1] \in {"admit", "tail"}
        <5>1. i - 1 < Len(s) /\ s[(i - 1) + 1] \in {"admit", "tail"}
          BY <1>3, <4>1, <4>2 DEF Shaped
        <5>2. i + 1 \in 2 .. Len(r) /\ (i + 1) - 1 = (i - 1) + 1 /\ i < Len(r)
          BY <2>1, <2>3, <4>1, <5>1
        <5>3. r[i + 1] = s[(i + 1) - 1]
          BY <2>3, <5>2
        <5> QED
          BY <5>1, <5>2, <5>3
      <4> QED
        BY <1>3, <2>6, <4>1, <4>2 DEF Shaped
    <3> QED
      BY <2>3, <3>1 DEF Shaped
  <2> QED
    BY <2>4, <2>5, <2>6 DEF Shaped, t, p, r
<1> QED
    BY <1>1, <1>2, <1>3

\* A call that returns leaves nothing to do.
LEMMA ReturnQueue ==
    ASSUME todo' = <<>>, local' = Idle \/ local' = [Idle EXCEPT !.attempt = 2]
    PROVE  Queue'
  BY ShapedLists DEF Queue, Idle

\* A call that goes on.
LEMMA ContinueQueue ==
    ASSUME Inside, Rescue, Queue, NEW s, At(s), ~ local.dirty, Continue, mode' = mode
    PROVE  Queue'
<1>1. /\ mode = "up" /\ todo \in Seq(Steps) /\ todo # <<>>
    BY AtBatch
<1>2. CASE Len(todo) = 1
    BY <1>2, ReturnQueue DEF Continue, Return
<1>3. CASE Len(todo) # 1
  <2>1. todo' = Tail(todo) /\ local' = local
    BY <1>3 DEF Continue
  <2>2. Shaped(todo')
    BY <1>1, <2>1, ShapedLists DEF Queue
  <2>3. local.wrote => \A i \in 1 .. Len(todo') : todo'[i] \in Batching
    <3>1. ASSUME \A i \in 1 .. Len(todo) : todo[i] \in Batching, NEW i \in 1 .. Len(todo')
          PROVE  todo'[i] \in Batching
      <4>1. i + 1 \in 1 .. Len(todo) /\ todo'[i] = todo[i + 1]
        BY <1>1, <2>1
      <4> QED
        BY <3>1, <4>1
    <3> QED
      BY <3>1 DEF Queue
  <2> QED
    BY <1>1, <2>1, <2>2, <2>3 DEF Queue
<1> QED
    BY <1>2, <1>3

\* A call that fails returns or goes on to close the device.
LEMMA FailQueue ==
    ASSUME Inside, Rescue, Queue, NEW s, At(s), Fail, mode' = mode
    PROVE  Queue' /\ (todo' = <<>> \/ todo' = <<"close">>) /\ (todo' = <<"close">> => local' = local /\ ~ local.wrote)
<1>1. mode = "up" /\ todo \in Seq(Steps) /\ todo # <<>> /\ Len(todo) \in 1 .. Len(todo)
    BY AtBatch, LenProperties
<1>2. CASE todo[Len(todo)] = "close"
  <2>1. todo' = <<"close">> /\ local' = local
    BY <1>2 DEF Fail
  <2>2. ~ local.wrote /\ ~ local.dirty
    <3>1. "close" \notin Batching
      BY DEF Batching
    <3> QED
      BY <1>1, <1>2, <3>1 DEF Queue, Rescue
  <2>3. Shaped(todo') /\ todo' # <<>>
    BY <2>1, ShapedLists
  <2> QED
    BY <1>1, <2>1, <2>2, <2>3 DEF Queue
<1>3. CASE todo[Len(todo)] # "close"
  <2>1. todo' = <<>> /\ local' = Idle
    BY <1>3 DEF Fail, Return
  <2> QED
    BY <2>1, ReturnQueue
<1> QED
    BY <1>2, <1>3

\* The steps of a write.
LEMMA WriteQueue ==
    ASSUME Inside, Rescue, Queue, AdmitReopen \/ AdmitSegment \/ AdmitAppend \/ BatchTail \/ BatchSync \/ BatchedWrite
    PROVE  Queue'
<1>1. ASSUME AdmitReopen PROVE Queue'
  <2>1. /\ At("admit") /\ mode' = mode
        /\ \/ todo' = <<"tail", "batch_sync">> /\ local' = [local EXCEPT !.full = TRUE]
           \/ UNCHANGED <<todo, local>>
    BY <1>1 DEF AdmitReopen
  <2>2. mode = "up" /\ LocalTyped
    BY <2>1, AtBatch DEF Rescue
  <2>3. CASE todo' = <<"tail", "batch_sync">> /\ local' = [local EXCEPT !.full = TRUE]
    <3>1. local'.dirty = local.dirty /\ local'.wrote = local.wrote
      BY <2>2, <2>3 DEF LocalTyped
    <3>2. \A i \in 1 .. Len(todo') : todo'[i] \in Batching
      BY <2>3 DEF Batching
    <3>3. todo' # <<>> /\ todo'[1] = "tail" /\ Shaped(todo')
      BY <2>3, ShapedLists
    <3> QED
      BY <2>1, <2>2, <3>2, <3>3 DEF Queue
  <2>4. CASE UNCHANGED <<todo, local>>
    BY <2>1, <2>4 DEF Queue
  <2> QED
    BY <2>1, <2>3, <2>4
<1>2. ASSUME AdmitSegment PROVE Queue'
  <2>1. /\ At("admit") /\ mode' = mode
        /\ \/ /\ local' = [local EXCEPT !.wrote = TRUE, !.dirty = FALSE, !.full = window' = 0]
              /\ todo' = <<"tail", "batch_sync">> \/ todo' = todo
           \/ Fail
    BY <1>2 DEF AdmitSegment, WriteFails
  <2>2. mode = "up" /\ LocalTyped /\ \A i \in 1 .. Len(todo) : todo[i] \in Batching
    <3>1. "admit" \in Batching
      BY DEF Batching
    <3> QED
      BY <2>1, <3>1, AtBatch DEF Rescue
  <2>3. CASE Fail
    BY <2>1, <2>3, FailQueue
  <2>4. CASE /\ local' = [local EXCEPT !.wrote = TRUE, !.dirty = FALSE, !.full = window' = 0]
             /\ todo' = <<"tail", "batch_sync">> \/ todo' = todo
    <3>1. ~ local'.dirty
      BY <2>2, <2>4 DEF LocalTyped
    <3>2. \A i \in 1 .. Len(todo') : todo'[i] \in Batching
      BY <2>2, <2>4 DEF Batching
    <3>3. Shaped(todo')
      BY <2>4, ShapedLists DEF Queue
    <3> QED
      BY <2>1, <2>2, <3>1, <3>2, <3>3 DEF Queue
  <2> QED
    BY <2>1, <2>3, <2>4
<1>3. ASSUME AdmitAppend PROVE Queue'
  <2>1. At("admit") /\ mode' = mode /\ todo' = Tail(todo) /\ local' = [local EXCEPT !.dirty = TRUE]
    BY <1>3 DEF AdmitAppend
  <2>2. /\ mode = "up" /\ LocalTyped /\ todo \in Seq(Steps) /\ todo # <<>> /\ todo[1] = "admit"
        /\ \A i \in 1 .. Len(todo') : todo'[i] \in Batching
    <3>1. "admit" \in Batching
      BY DEF Batching
    <3> QED
      BY <2>1, <3>1, AtBatch DEF Rescue
  <2>3. 1 < Len(todo) /\ todo[2] \in {"admit", "tail"}
    <3>1. 1 \in 1 .. Len(todo) /\ 1 + 1 = 2
      BY <2>2, EmptySeq, LenProperties
    <3> QED
      BY <2>2, <3>1 DEF Queue, Shaped
  <2>4. todo' # <<>> /\ todo'[1] = todo[2] /\ Shaped(todo')
    <3>1. todo' # <<>> /\ todo'[1] = todo[2]
      <4>1. Len(todo) \in Nat /\ Len(todo') = Len(todo) - 1 /\ \A i \in 1 .. Len(todo') : todo'[i] = todo[i + 1]
        BY <2>1, <2>2
      <4>2. 1 \in 1 .. Len(todo') /\ 1 + 1 = 2 /\ Len(<<>>) = 0
        BY <2>3, <4>1
      <4> QED
        BY <4>1, <4>2
    <3> QED
      BY <2>1, <2>2, <3>1, ShapedLists DEF Queue
  <2> QED
    BY <2>1, <2>2, <2>3, <2>4 DEF Queue
<1>4. ASSUME BatchTail PROVE Queue'
  <2>1. /\ At("tail") /\ mode' = mode
        /\ \/ ~ local.dirty /\ Continue
           \/ todo' = Tail(todo) /\ local' = [local EXCEPT !.wrote = TRUE, !.dirty = FALSE]
           \/ Fail
    BY <1>4 DEF BatchTail, WriteFails
  <2>2. /\ mode = "up" /\ LocalTyped /\ todo \in Seq(Steps) /\ todo # <<>>
        /\ \A i \in 1 .. Len(Tail(todo)) : Tail(todo)[i] \in Batching
    <3>1. "tail" \in Batching
      BY DEF Batching
    <3> QED
      BY <2>1, <3>1, AtBatch DEF Rescue
  <2>3. CASE todo' = Tail(todo) /\ local' = [local EXCEPT !.wrote = TRUE, !.dirty = FALSE]
    <3>1. ~ local'.dirty
      BY <2>2, <2>3 DEF LocalTyped
    <3>2. Shaped(todo')
      BY <2>2, <2>3, ShapedLists DEF Queue
    <3> QED
      BY <2>1, <2>2, <2>3, <3>1, <3>2 DEF Queue
  <2> QED
    BY <2>1, <2>3, FailQueue, ContinueQueue
<1>5. ASSUME Full, mode' = "up" PROVE Queue'
  <2>1. CASE todo' = <<"flush", "snapshot", "retry">> /\ local' = [Idle EXCEPT !.attempt = 2]
    <3>1. ~ local'.wrote /\ ~ local'.dirty /\ Shaped(todo')
      BY <2>1, ShapedLists DEF Idle
    <3> QED
      BY <1>5, <3>1 DEF Queue
  <2>2. CASE todo' = <<>> /\ local' = Idle
    BY <2>2, ReturnQueue
  <2> QED
    BY <1>5, <2>1, <2>2 DEF Full, Return
<1>6. ASSUME BatchSync PROVE Queue'
  <2>1. At("batch_sync") /\ mode' = mode /\ (Full \/ Return("ok") \/ Fail)
    BY <1>6 DEF BatchSync
  <2>2. mode = "up"
    BY <2>1, AtBatch
  <2>3. Return("ok") => Queue'
    BY ReturnQueue DEF Return
  <2> QED
    BY <1>5, <2>1, <2>2, <2>3, FailQueue
<1>7. ASSUME BatchedWrite PROVE Queue'
  <2>1. /\ At("write") /\ mode' = mode
        /\ \/ Full
           \/ todo' = <<"flush">> \o todo /\ local' = local
           \/ todo' = <<"flush">> /\ local' = local
           \/ Return("ok")
    BY <1>7 DEF BatchedWrite
  <2>2. /\ mode = "up" /\ todo \in Seq(Steps) /\ todo # <<>> /\ todo[1] = "write" /\ ~ local.dirty
        /\ \A i \in 1 .. Len(todo) : todo[i] \notin Batching
    <3>1. "write" \notin Batching
      BY DEF Batching
    <3> QED
      BY <2>1, <3>1, AtBatch
  <2>3. ~ local.wrote
    <3>1. 1 \in 1 .. Len(todo)
      BY <2>2, EmptySeq, LenProperties
    <3> QED
      BY <2>2, <3>1 DEF Queue
  <2>4. Return("ok") => Queue'
    BY ReturnQueue DEF Return
  <2>5. Shaped(<<"flush">> \o todo) /\ Shaped(<<"flush">>)
    BY <2>2, ShapedLists DEF Queue
  <2> QED
    BY <1>5, <2>1, <2>2, <2>3, <2>4, <2>5 DEF Queue
<1> QED
    BY <1>1, <1>2, <1>3, <1>4, <1>6, <1>7

\* The steps of a Flush, a snapshot and a change of level.
LEMMA FlushQueue ==
    ASSUME Inside, Rescue, Queue, FlushWrite \/ FlushSync \/ TakeSnapshot \/ SwitchLevel
    PROVE  Queue'
<1>1. PICK s : /\ At(s) /\ s \notin Batching /\ mode' = mode
               /\ \/ Continue
                  \/ Fail
                  \/ todo' = <<"flush_sync">> \o Tail(todo) /\ local' = local
  <2>1. /\ "flush" \notin Batching /\ "flush_sync" \notin Batching /\ "snapshot" \notin Batching
        /\ \A l \in Levels : l \notin Batching
    BY LevelAssumption DEF Batching
  <2>2. CASE FlushWrite
    BY <2>1, <2>2 DEF FlushWrite, WriteFails
  <2>3. CASE FlushSync
    BY <2>1, <2>3 DEF FlushSync
  <2>4. CASE TakeSnapshot
    BY <2>1, <2>4 DEF TakeSnapshot
  <2>5. CASE SwitchLevel
    BY <2>1, <2>5 DEF SwitchLevel
  <2> QED
    BY <2>2, <2>3, <2>4, <2>5
<1>2. /\ mode = "up" /\ todo \in Seq(Steps) /\ todo # <<>> /\ ~ local.dirty /\ 1 \in 1 .. Len(todo)
      /\ \A i \in 1 .. Len(todo) : todo[i] \notin Batching
    BY <1>1, AtBatch
<1>3. ~ local.wrote
    BY <1>2 DEF Queue
<1>4. Shaped(<<"flush_sync">> \o Tail(todo))
    BY <1>2, ShapedLists DEF Queue
<1>5. CASE todo' = <<"flush_sync">> \o Tail(todo) /\ local' = local
    BY <1>1, <1>2, <1>3, <1>4, <1>5 DEF Queue
<1> QED
    BY <1>1, <1>2, <1>5, ContinueQueue, FailQueue

\* Calls begin, or end with their process.
LEMMA OtherQueue ==
    ASSUME Inside, Rescue, Queue,
           \/ WriteWal \/ Snapshot \/ Close \/ \E l \in Levels : SetWalLevel(l)
           \/ Retry \/ CloseDevice \/ PowerFailure \/ Kill \/ Recover \/ FinishErase \/ Refuse \/ UNCHANGED vars
    PROVE  Queue'
<1>1. ASSUME NEW steps, NEW size, Call(steps, size), Shaped(steps)
      PROVE  Queue'
  <2>1. mode' = "up" /\ todo' = steps /\ local' = [Idle EXCEPT !.size = size]
    BY <1>1 DEF Call
  <2>2. ~ local'.wrote /\ ~ local'.dirty
    BY <2>1 DEF Idle
  <2> QED
    BY <1>1, <2>1, <2>2 DEF Queue
<1>2. ASSUME WriteWal PROVE Queue'
  <2>1. PICK size \in 1 .. IF level = "sync" THEN MaxBatch ELSE 1 : Call(WriteSteps(size), size)
    BY <1>2 DEF WriteWal
  <2>2. size \in Nat \ {0}
    BY BoundAssumption
  <2> QED
    BY <1>1, <2>1, <2>2, ShapedLists
<1>3. ASSUME Snapshot \/ Close PROVE Queue'
    BY <1>1, <1>3, ShapedLists DEF Snapshot, Close
<1>4. ASSUME NEW l \in Levels, SetWalLevel(l) PROVE Queue'
  <2>1. l = "sync" \/ l = "batch"
    BY LevelAssumption
  <2>2. Shaped(<<"flush", "sync">>) /\ Shaped(<<"batch">>)
    BY ShapedLists
  <2>3. CASE l = "sync"
    <3>1. Call(<<"flush", "sync">>, 1)
      BY <1>4, <2>3 DEF SetWalLevel
    <3> QED
      BY <1>1, <2>2, <3>1
  <2>4. CASE l = "batch"
    <3>1. Call(<<"batch">>, 1)
      BY <1>4, <2>4 DEF SetWalLevel
    <3> QED
      BY <1>1, <2>2, <3>1
  <2> QED
    BY <2>1, <2>3, <2>4
<1>5. ASSUME Retry PROVE Queue'
  <2>1. At("retry") /\ todo' = WriteSteps(1) /\ UNCHANGED <<local, mode>>
    BY <1>5 DEF Retry
  <2>2. /\ mode = "up" /\ ~ local.dirty /\ 1 \in 1 .. Len(todo)
        /\ \A i \in 1 .. Len(todo) : todo[i] \notin Batching
    <3>1. "retry" \notin Batching
      BY DEF Batching
    <3> QED
      BY <2>1, <3>1, AtBatch
  <2>3. ~ local.wrote
    BY <2>2 DEF Queue
  <2>4. Shaped(WriteSteps(1))
    <3>1. 1 \in Nat \ {0}
      OBVIOUS
    <3> QED
      BY <3>1, ShapedLists
  <2> QED
    BY <2>1, <2>2, <2>3, <2>4 DEF Queue
<1>6. ASSUME CloseDevice \/ PowerFailure \/ Kill PROVE Queue'
    BY <1>6, ReturnQueue DEF CloseDevice, PowerFailure, Kill, Forget
<1>7. ASSUME Recover \/ FinishErase \/ Refuse PROVE Queue'
  <2>1. mode # "up" /\ UNCHANGED <<todo, local>>
    BY <1>7 DEF Recover, FinishErase, Refuse, call
  <2>2. todo' = <<>> /\ local' = Idle
    BY <2>1 DEF Queue, Rescue
  <2> QED
    BY <2>2, ReturnQueue
<1>8. ASSUME UNCHANGED vars PROVE Queue'
    BY <1>8 DEF Queue, vars, call
<1> QED
    BY <1>2, <1>3, <1>4, <1>5, <1>6, <1>7, <1>8

\* What is buffered after whole blocks have been left behind.
LEMMA AdvanceBuffered ==
    ASSUME Inside, Buffered, AdvanceAfterWrite, seq_next' = seq_next, covered' = covered
    PROVE  Buffered'
<1>1. /\ buf \in Seq(Frames) /\ Len(buf) \in Nat /\ seq_next \in Nat /\ covered \in Nat
    BY LenProperties, BoundAssumption DEF Inside, Typed, BufRight, BufferRight
<1> DEFINE full == Len(buf) \div BlockFrames
           k == full * BlockFrames
<1>2. buf' = SubSeq(buf, k + 1, Len(buf))
    BY DEF AdvanceAfterWrite
<1>3. k \in Nat /\ k <= Len(buf)
  <2>1. full \in Nat /\ Len(buf) % BlockFrames \in 0 .. BlockFrames - 1 /\ Len(buf) = full * BlockFrames + (Len(buf) % BlockFrames)
    BY <1>1, Division, Sizes
  <2> HIDE DEF full
  <2> QED
    BY <1>1, <2>1, Sizes, Products
<1> HIDE DEF k
<1>4. Len(buf') = Len(buf) - k /\ \A i \in 1 .. Len(buf) - k : buf'[i] = buf[k + i]
    BY <1>1, <1>2, <1>3
<1>5. ASSUME NEW i \in 1 .. Len(buf'), covered' < seq_next' - 1 - Len(buf') + i
      PROVE  buf'[i][1] = seq_next' - 1 - Len(buf') + i
  <2>1. k + i \in 1 .. Len(buf) /\ buf'[i] = buf[k + i]
    BY <1>1, <1>3, <1>4
  <2>2. seq_next' - 1 - Len(buf') + i = seq_next - 1 - Len(buf) + (k + i)
    BY <1>1, <1>3, <1>4
  <2> QED
    BY <1>5, <2>1, <2>2 DEF Buffered
<1> QED
    BY <1>5 DEF Buffered

\* A frame that is appended gets the next number.
LEMMA AppendDurable ==
    ASSUME Inside, Open, Open', Durable, AppendEntry, UNCHANGED <<platter, covered, promised>>, ~ Written'
    PROVE  Durable'
<1>1. /\ buf \in Seq(Frames) /\ Len(buf) \in Nat /\ seq_next \in Nat /\ covered \in Nat /\ promised \in Nat
    BY LenProperties, BoundAssumption DEF Inside, Typed, BufRight, BufferRight
<1>2. buf' = Append(buf, <<seq_next, life>>) /\ seq_next' = seq_next + 1
    BY DEF AppendEntry
<1>3. /\ Len(buf') = Len(buf) + 1
      /\ \A i \in 1 .. Len(buf) : buf'[i] = buf[i]
      /\ buf'[Len(buf) + 1] = <<seq_next, life>>
    BY <1>1, <1>2
<1>4. \A n \in Nat : (Here(n)' <=> Here(n)) /\ (Kept(n)' <=> Kept(n))
    BY DEF Here, Kept, Seq0, Current, Seat
<1>5. seq_next' - 1 - Len(buf') = seq_next - 1 - Len(buf)
    BY <1>1, <1>2, <1>3
<1>6. Lasting'
    BY <1>4 DEF Durable, Lasting
<1>7. Left'
    BY <1>4, <1>5 DEF Durable, Left
<1>8. ASSUME NEW i \in 1 .. Len(buf'), covered' < seq_next' - 1 - Len(buf') + i
      PROVE  buf'[i][1] = seq_next' - 1 - Len(buf') + i
  <2>1. CASE i \in 1 .. Len(buf)
    BY <1>3, <1>5, <1>8, <2>1 DEF Durable, Buffered
  <2>2. CASE i = Len(buf) + 1
    BY <1>1, <1>2, <1>3, <1>5, <2>2
  <2> QED
    BY <1>1, <1>3, <2>1, <2>2
<1>9. promised' < seq_next'
    BY <1>1, <1>2 DEF Durable
<1> QED
    BY <1>6, <1>7, <1>8, <1>9 DEF Durable, Buffered

\* A step that leaves the log alone.
LEMMA QuietDurable ==
    ASSUME Inside, Durable, UNCHANGED <<platter, buf, seq_next, promised>>,
           covered' \in Nat, covered <= covered', Open' => Open, Open' /\ Written' => Written
    PROVE  Durable'
<1>1. \A n \in Nat : (Here(n)' <=> Here(n)) /\ (Kept(n)' <=> Kept(n))
    BY DEF Here, Kept, Seq0, Current, Seat
<1>2. /\ buf \in Seq(Frames) /\ Len(buf) \in Nat /\ seq_next \in Nat /\ covered \in Nat /\ promised \in Nat
    BY LenProperties, BoundAssumption DEF Inside, Typed, BufRight, BufferRight
<1>3. \A n \in Nat : covered' < n => covered < n
    BY <1>2
<1>4. Lasting'
    BY <1>1, <1>3 DEF Durable, Lasting
<1>5. ASSUME Open' PROVE promised' < seq_next' /\ Buffered' /\ Left'
  <2>1. Left'
    BY <1>1, <1>3, <1>5 DEF Durable, Left
  <2>2. ASSUME NEW i \in 1 .. Len(buf'), covered' < seq_next' - 1 - Len(buf') + i
        PROVE  buf'[i][1] = seq_next' - 1 - Len(buf') + i
    <3>1. covered < seq_next - 1 - Len(buf) + i
      BY <1>2, <2>2
    <3> QED
      BY <1>5, <2>2, <3>1 DEF Durable, Buffered
  <2> QED
    BY <1>5, <2>1, <2>2 DEF Durable, Buffered
<1>6. ASSUME Open', Written' PROVE AllHere'
    BY <1>1, <1>3, <1>6 DEF Durable, AllHere
<1> QED
    BY <1>4, <1>5, <1>6 DEF Durable

\* A window that has been written.
LEMMA WrittenDurable ==
    ASSUME Inside, mode = "up", mode' = mode, Inside', Durable, WriteWindowSpan,
           UNCHANGED <<seq_next, covered, promised>>, AdvanceAfterWrite \/ buf' = buf
    PROVE  Durable' /\ AllHere'
<1>1. /\ seq_next \in Nat /\ covered \in Nat /\ promised \in Nat /\ Len(buf') \in Nat /\ Open /\ Open'
    BY LenProperties, BoundAssumption DEF Inside, Typed, BufRight, BufferRight, Open
<1>2. promised < seq_next /\ Buffered /\ Left
    BY <1>1 DEF Durable
<1>3. \A n \in Nat : covered < n /\ n < seq_next => Here(n)' /\ (Kept(n) => Kept(n)')
    BY <1>2, SpanHere
<1>4. AllHere'
    BY <1>3 DEF AllHere
<1>5. Left'
    BY <1>1, <1>4 DEF AllHere, Left
<1>6. Lasting'
    BY <1>1, <1>2, <1>3 DEF Durable, Lasting
<1>7. Buffered'
    BY <1>2, AdvanceBuffered DEF Buffered
<1> QED
    BY <1>2, <1>4, <1>5, <1>6, <1>7 DEF Durable

\* A device that has been synchronised.
LEMMA SyncedDurable ==
    ASSUME Inside, Inside', Open, Open', Durable, Sync, UNCHANGED <<seq_next, covered>>,
           buf' = buf \/ (AdvanceAfterWrite /\ AllHere),
           promised' = promised \/ (promised' = seq_next - 1 /\ AllHere), ~ Written'
    PROVE  Durable'
<1>1. /\ seq_next \in Nat /\ covered \in Nat /\ promised \in Nat /\ Len(buf') \in Nat /\ DeviceRight
      /\ promised' \in Nat
    BY LenProperties, BoundAssumption DEF Inside, Typed, BufRight, BufferRight
<1>2. promised < seq_next /\ Buffered /\ Left /\ Lasting
    BY DEF Durable
<1>3. \A n \in Nat \ {0} : (Here(n) => Here(n)' /\ Kept(n)') /\ (Kept(n) => Here(n))
    BY <1>1, SyncHere
<1>4. Buffered'
    BY <1>2, AdvanceBuffered DEF Buffered
<1>5. Left'
  <2>1. CASE buf' = buf
    BY <1>1, <1>2, <1>3, <2>1 DEF Left
  <2>2. CASE AllHere
    BY <1>1, <1>3, <2>2 DEF Left, AllHere
  <2> QED
    BY <2>1, <2>2
<1>6. Lasting' /\ promised' < seq_next'
  <2>1. CASE promised' = promised
    BY <1>1, <1>2, <1>3, <2>1 DEF Lasting
  <2>2. CASE promised' = seq_next - 1 /\ AllHere
    BY <1>1, <1>3, <2>2 DEF Lasting, AllHere
  <2> QED
    BY <2>1, <2>2
<1> QED
    BY <1>4, <1>5, <1>6 DEF Durable

\* When a synchronisation is no longer about to follow.
LEMMA NotWritten ==
    ASSUME Inside, Rescue, Queue, NEW s, At(s), mode' = mode
    PROVE  /\ Continue /\ Written' => Written
           /\ Continue /\ ~ local.wrote => ~ Written'
           /\ Fail \/ Full \/ (\E o : Return(o)) => ~ Written'
<1>1. /\ mode = "up" /\ todo \in Seq(Steps) /\ todo # <<>>
    BY AtBatch
<1>2. \A o : Return(o) => ~ Written'
    BY DEF Return, Written, Idle
<1>3. ASSUME Continue, Len(todo) # 1
      PROVE  local' = local /\ (Written' <=> local.wrote /\ ~ local.dirty)
  <2>1. todo' = Tail(todo) /\ local' = local
    BY <1>3 DEF Continue
  <2>2. \A i \in 1 .. Len(todo') : todo'[i] # "flush_sync"
    BY <1>1, <2>1, ShapedLists DEF Queue
  <2>3. todo' # <<>> => 1 \in 1 .. Len(todo')
    <3>1. todo' \in Seq(Steps)
      BY <1>1, <2>1
    <3> QED
      BY <3>1, EmptySeq, LenProperties
  <2> QED
    BY <2>1, <2>2, <2>3 DEF Written
<1>4. Continue /\ Len(todo) = 1 => ~ Written'
    BY <1>2 DEF Continue
<1>5. Fail => ~ Written'
  <2>1. ASSUME Fail, todo' = <<"close">>, local' = local, ~ local.wrote PROVE ~ Written'
    BY <2>1 DEF Written
  <2>2. ASSUME Fail, todo' # <<"close">> PROVE ~ Written'
    BY <1>2, <2>2 DEF Fail
  <2> QED
    BY <2>1, <2>2, FailQueue
<1>6. Full => ~ Written'
  <2>1. ASSUME todo' = <<"flush", "snapshot", "retry">>, local' = [Idle EXCEPT !.attempt = 2] PROVE ~ Written'
    BY <2>1 DEF Written, Idle
  <2> QED
    BY <1>2, <2>1 DEF Full
<1> QED
    BY <1>2, <1>3, <1>4, <1>5, <1>6 DEF Written

\* Calls that begin, and steps that only look.
LEMMA CallsDurable ==
    ASSUME Inside, Rescue, Queue, Durable, Inside',
           WriteWal \/ Snapshot \/ Close \/ (\E l \in Levels : SetWalLevel(l)) \/ Retry \/ AdmitReopen \/ SwitchLevel
    PROVE  Durable'
<1>1. ASSUME mode = "up", mode' = mode, UNCHANGED <<platter, buf, seq_next, promised, covered>>, Written' => Written
      PROVE  Durable'
  <2>1. covered \in Nat
    BY BoundAssumption DEF Inside, Typed
  <2> QED
    BY <1>1, <2>1, QuietDurable DEF Open
<1>2. ASSUME NEW steps, NEW size, Call(steps, size), steps # <<>> => steps[1] # "flush_sync"
      PROVE  Durable'
  <2>1. /\ mode = "up" /\ mode' = mode /\ todo' = steps /\ local' = [Idle EXCEPT !.size = size]
        /\ UNCHANGED <<platter, buf, seq_next, promised, covered>>
    BY <1>2 DEF Call, device, ring, ghost, past
  <2>2. ~ Written'
    BY <1>2, <2>1 DEF Written, Idle
  <2> QED
    BY <1>1, <2>1, <2>2
<1>3. ASSUME WriteWal PROVE Durable'
  <2>1. PICK size \in 1 .. IF level = "sync" THEN MaxBatch ELSE 1 : Call(WriteSteps(size), size)
    BY <1>3 DEF WriteWal
  <2>2. size \in Nat \ {0}
    BY BoundAssumption
  <2>3. WriteSteps(size)[1] \in {"admit", "write"}
    BY <2>2, ShapedLists
  <2> QED
    BY <1>2, <2>1, <2>3
<1>4. ASSUME Snapshot \/ Close PROVE Durable'
    BY <1>2, <1>4 DEF Snapshot, Close
<1>5. ASSUME NEW l \in Levels, SetWalLevel(l) PROVE Durable'
  <2>1. l = "sync" \/ l = "batch"
    BY LevelAssumption
  <2>2. CASE l = "sync"
    <3>1. Call(<<"flush", "sync">>, 1)
      BY <1>5, <2>2 DEF SetWalLevel
    <3> QED
      BY <1>2, <3>1
  <2>3. CASE l = "batch"
    <3>1. Call(<<"batch">>, 1)
      BY <1>5, <2>3 DEF SetWalLevel
    <3> QED
      BY <1>2, <3>1
  <2> QED
    BY <2>1, <2>2, <2>3
<1>6. ASSUME Retry PROVE Durable'
  <2>1. At("retry") /\ todo' = WriteSteps(1) /\ UNCHANGED <<local, mode, platter, buf, seq_next, promised, covered>>
    BY <1>6 DEF Retry, device, ring, ghost, past
  <2>2. WriteSteps(1)[1] \in {"admit", "write"}
    <3>1. 1 \in Nat \ {0}
      OBVIOUS
    <3> QED
      BY <3>1, ShapedLists
  <2>3. Written' => Written
    BY <2>1, <2>2 DEF Written
  <2> QED
    BY <1>1, <2>1, <2>3 DEF At
<1>7. ASSUME AdmitReopen PROVE Durable'
  <2>1. /\ At("admit") /\ UNCHANGED <<mode, platter, buf, seq_next, promised, covered>>
        /\ \/ todo' = <<"tail", "batch_sync">> /\ local' = [local EXCEPT !.full = TRUE]
           \/ UNCHANGED <<todo, local>>
    BY <1>7 DEF AdmitReopen, device, past, ghost
  <2>2. LocalTyped
    BY DEF Rescue
  <2>3. Written' => Written
    BY <2>1, <2>2 DEF Written, LocalTyped
  <2> QED
    BY <1>1, <2>1, <2>3 DEF At
<1>8. ASSUME SwitchLevel PROVE Durable'
  <2>1. PICK l \in Levels : At(l)
    BY <1>8 DEF SwitchLevel
  <2>2. Continue /\ UNCHANGED <<mode, platter, buf, seq_next, promised, covered>>
    BY <1>8 DEF SwitchLevel, device, ring, ghost, past
  <2>3. Written' => Written
    BY <2>1, <2>2, NotWritten
  <2> QED
    BY <1>1, <2>1, <2>2, <2>3 DEF At
<1> QED
    BY <1>3, <1>4, <1>5, <1>6, <1>7, <1>8

\* A write that failed.
LEMMA FailedDurable ==
    ASSUME Inside, Rescue, Queue, Durable, Inside', NEW s, At(s), mode' = mode, WriteFails,
           UNCHANGED <<buf, seq_next, covered, promised>>
    PROVE  Durable'
<1>1. mode = "up" /\ Fail /\ (WriteWindowSpan \/ UNCHANGED platter)
    BY DEF WriteFails, device, At
<1>2. CASE WriteWindowSpan
    BY <1>1, <1>2, WrittenDurable
<1>3. CASE UNCHANGED platter
  <2>1. ~ Written' /\ covered \in Nat
    BY <1>1, NotWritten, BoundAssumption DEF Inside, Typed
  <2> QED
    BY <1>1, <1>3, <2>1, QuietDurable DEF Open
<1> QED
    BY <1>1, <1>2, <1>3

\* The steps of a write keep the promises.
LEMMA WriteDurable ==
    ASSUME Inside, Rescue, Queue, Durable, Inside', AdmitSegment \/ AdmitAppend \/ BatchTail \/ BatchSync \/ BatchedWrite
    PROVE  Durable'
<1>0. covered \in Nat /\ LocalTyped
    BY BoundAssumption DEF Inside, Typed, Rescue
<1>1. ASSUME AdmitSegment PROVE Durable'
  <2>1. /\ At("admit") /\ mode' = mode /\ UNCHANGED <<seq_next, covered, promised>>
        /\ \/ WriteWindowSpan /\ AdvanceAfterWrite
           \/ WriteFails /\ UNCHANGED buf
    BY <1>1 DEF AdmitSegment, past
  <2>2. mode = "up"
    BY <2>1 DEF At
  <2> QED
    BY <2>1, <2>2, WrittenDurable, FailedDurable
<1>2. ASSUME AdmitAppend PROVE Durable'
  <2>1. /\ At("admit") /\ mode' = mode /\ AppendEntry /\ UNCHANGED <<platter, covered, promised>>
        /\ todo' = Tail(todo) /\ local' = [local EXCEPT !.dirty = TRUE]
    BY <1>2 DEF AdmitAppend, device
  <2>2. ~ Written'
    <3>1. local'.dirty
      BY <1>0, <2>1 DEF LocalTyped
    <3>2. todo \in Seq(Steps) /\ todo # <<>> /\ mode = "up"
      BY <2>1, AtBatch
    <3>3. \A i \in 1 .. Len(todo') : todo'[i] # "flush_sync"
      BY <2>1, <3>2, ShapedLists DEF Queue
    <3>4. todo' \in Seq(Steps)
      BY <2>1, <3>2
    <3>5. todo' # <<>> => 1 \in 1 .. Len(todo')
      BY <3>4, EmptySeq, LenProperties
    <3> QED
      BY <3>1, <3>3, <3>5 DEF Written
  <2> QED
    BY <2>1, <2>2, AppendDurable DEF At, Open
<1>3. ASSUME BatchTail PROVE Durable'
  <2>1. /\ At("tail") /\ mode' = mode /\ UNCHANGED <<seq_next, covered, promised>>
        /\ \/ ~ local.dirty /\ Continue /\ UNCHANGED <<platter, buf>>
           \/ WriteWindowSpan /\ AdvanceAfterWrite
           \/ WriteFails /\ UNCHANGED buf
    BY <1>3 DEF BatchTail, past, device
  <2>2. mode = "up"
    BY <2>1 DEF At
  <2>3. ASSUME ~ local.dirty, Continue, UNCHANGED <<platter, buf>> PROVE Durable'
    <3>1. Written' => Written
      BY <2>1, <2>3, NotWritten
    <3> QED
      BY <1>0, <2>1, <2>2, <2>3, <3>1, QuietDurable DEF Open
  <2> QED
    BY <2>1, <2>2, <2>3, WrittenDurable, FailedDurable
<1>4. ASSUME BatchSync PROVE Durable'
  <2>1. /\ At("batch_sync") /\ mode' = mode /\ UNCHANGED <<buf, seq_next, covered>>
        /\ Full \/ Return("ok") \/ Fail
        /\ \/ local.wrote /\ Sync /\ promised' = seq_next - 1
           \/ UNCHANGED <<platter, promised>>
    BY <1>4 DEF BatchSync, ring, device
  <2>2. mode = "up" /\ todo[1] = "batch_sync"
    BY <2>1, AtBatch
  <2>3. ~ Written'
    BY <2>1, NotWritten
  <2>4. CASE UNCHANGED <<platter, promised>>
    BY <1>0, <2>1, <2>2, <2>3, <2>4, QuietDurable DEF Open
  <2>5. CASE local.wrote /\ Sync /\ promised' = seq_next - 1
    <3>1. ~ local.dirty
      BY <2>2 DEF Queue
    <3>2. AllHere
      BY <2>2, <2>5, <3>1 DEF Durable, Written, Open
    <3> QED
      BY <2>1, <2>2, <2>3, <2>5, <3>2, SyncedDurable DEF Open
  <2> QED
    BY <2>1, <2>4, <2>5
<1>5. ASSUME BatchedWrite PROVE Durable'
  <2>1. /\ At("write") /\ mode' = mode /\ UNCHANGED <<platter, covered, promised>>
        /\ \/ Full /\ UNCHANGED <<buf, seq_next>>
           \/ todo' = <<"flush">> \o todo /\ UNCHANGED <<local, buf, seq_next>>
           \/ AppendEntry /\ (Return("ok") \/ (todo' = <<"flush">> /\ local' = local))
    BY <1>5 DEF BatchedWrite, ring, device
  <2>2. /\ mode = "up" /\ todo \in Seq(Steps) /\ todo # <<>> /\ 1 \in 1 .. Len(todo)
        /\ \A i \in 1 .. Len(todo) : todo[i] \notin Batching
    <3>1. "write" \notin Batching
      BY DEF Batching
    <3> QED
      BY <2>1, <3>1, AtBatch
  <2>3. ~ local.wrote
    BY <2>2 DEF Queue
  <2>4. ASSUME todo' = <<"flush">> \o todo \/ todo' = <<"flush">>, local' = local PROVE ~ Written'
    <3>1. (<<"flush">> \o todo)[1] = "flush"
      BY <2>2
    <3>2. todo'[1] = "flush"
      BY <2>4, <3>1
    <3> QED
      BY <2>3, <2>4, <3>2 DEF Written
  <2>5. ~ Written'
    BY <2>1, <2>4, NotWritten
  <2>6. CASE UNCHANGED <<buf, seq_next>>
    BY <1>0, <2>1, <2>2, <2>5, <2>6, QuietDurable DEF Open
  <2>7. CASE AppendEntry
    BY <2>1, <2>2, <2>5, <2>7, AppendDurable DEF Open
  <2> QED
    BY <2>1, <2>6, <2>7
<1> QED
    BY <1>1, <1>2, <1>3, <1>4, <1>5

\* A Flush and a snapshot keep the promises.
LEMMA FlushDurable ==
    ASSUME Inside, Rescue, Queue, Durable, Inside', FlushWrite \/ FlushSync \/ TakeSnapshot
    PROVE  Durable'
<1>0. covered \in Nat /\ seq_next - 1 \in Nat
    BY BoundAssumption DEF Inside, Typed
<1>1. ASSUME FlushWrite PROVE Durable'
  <2>1. /\ At("flush") /\ mode' = mode /\ UNCHANGED <<buf, seq_next, covered, promised>>
        /\ \/ Continue /\ UNCHANGED platter
           \/ WriteWindowSpan
           \/ WriteFails
    BY <1>1 DEF FlushWrite, ring, past, device
  <2>2. mode = "up"
    BY <2>1 DEF At
  <2>3. ASSUME Continue, UNCHANGED platter PROVE Durable'
    <3>1. Written' => Written
      BY <2>1, <2>3, NotWritten
    <3> QED
      BY <1>0, <2>1, <2>2, <2>3, <3>1, QuietDurable DEF Open
  <2> QED
    BY <2>1, <2>2, <2>3, WrittenDurable, FailedDurable
<1>2. ASSUME FlushSync PROVE Durable'
  <2>1. /\ At("flush_sync") /\ mode' = mode /\ UNCHANGED <<seq_next, covered>>
        /\ \/ Sync /\ AdvanceAfterWrite /\ promised' = seq_next - 1 /\ Continue
           \/ Fail /\ UNCHANGED <<platter, buf, promised>>
    BY <1>2 DEF FlushSync, device
  <2>2. mode = "up" /\ todo # <<>> /\ todo[1] = "flush_sync" /\ todo \in Seq(Steps)
    BY <2>1, AtBatch
  <2>3. ASSUME Fail, UNCHANGED <<platter, buf, promised>> PROVE Durable'
    <3>1. ~ Written'
      BY <2>1, <2>3, NotWritten
    <3> QED
      BY <1>0, <2>1, <2>2, <2>3, <3>1, QuietDurable DEF Open
  <2>4. ASSUME Sync, AdvanceAfterWrite, promised' = seq_next - 1, Continue PROVE Durable'
    <3>1. AllHere
      BY <2>2 DEF Durable, Written, Open
    <3>2. ~ local.wrote
      <4>1. 1 \in 1 .. Len(todo) /\ "flush_sync" \notin Batching
        BY <2>2, EmptySeq, LenProperties DEF Batching
      <4> QED
        BY <2>2, <4>1 DEF Queue
    <3>3. ~ Written'
      BY <2>1, <2>4, <3>2, NotWritten
    <3> QED
      BY <2>1, <2>2, <2>4, <3>1, <3>3, SyncedDurable DEF Open
  <2> QED
    BY <2>1, <2>3, <2>4
<1>3. ASSUME TakeSnapshot PROVE Durable'
  <2>1. /\ At("snapshot") /\ mode' = mode /\ UNCHANGED <<platter, buf, seq_next, promised>>
        /\ covered' = covered \/ covered' = seq_next - 1
        /\ Continue \/ Fail
    BY <1>3 DEF TakeSnapshot, device, past
  <2>2. mode = "up" /\ Open
    BY <2>1 DEF At, Open
  <2>3. covered' \in Nat /\ covered <= covered'
    <3>1. covered < seq_next /\ seq_next \in Nat
      BY <2>2, BoundAssumption DEF Inside, Located, Typed
    <3> QED
      BY <1>0, <2>1, <3>1
  <2>4. Written' => Written
    BY <2>1, NotWritten
  <2> QED
    BY <2>1, <2>2, <2>3, <2>4, QuietDurable
<1> QED
    BY <1>1, <1>2, <1>3

\* A process that ends, a recovery and its refusal keep the promises.
LEMMA StopDurable ==
    ASSUME Inside, Rescue, Queue, Durable, Inside', ErasesOnlyFragments',
           CloseDevice \/ PowerFailure \/ Kill \/ Recover \/ FinishErase \/ Refuse \/ UNCHANGED vars
    PROVE  Durable'
<1>0. covered \in Nat /\ promised \in Nat /\ DeviceRight
    BY BoundAssumption DEF Inside, Typed
<1>1. ASSUME CloseDevice \/ Kill PROVE Durable'
  <2>1. mode' = "down" /\ UNCHANGED <<platter, covered, promised>>
    BY <1>1 DEF CloseDevice, Kill, device
  <2>2. \A n \in Nat : Kept(n)' <=> Kept(n)
    BY <2>1 DEF Kept, Seat
  <2> QED
    BY <2>1, <2>2 DEF Durable, Lasting, Open
<1>2. ASSUME PowerFailure PROVE Durable'
  <2>1. mode' = "down" /\ Torn /\ UNCHANGED <<covered, promised>>
    BY <1>2 DEF PowerFailure
  <2>2. \A n \in Nat \ {0} : Kept(n) => Kept(n)'
    BY <1>0, <2>1, TornKept
  <2> QED
    BY <1>0, <2>1, <2>2 DEF Durable, Lasting, Open
<1>3. ASSUME Recover PROVE Durable'
  <2>1. todo' = <<>> /\ local' = Idle
    BY <1>3 DEF Recover, call, Queue, Rescue
  <2>2. ~ Written'
    BY <2>1 DEF Written, Idle
  <2> QED
    BY <1>3, <2>2, RecoverDurable DEF Durable
<1>4. ASSUME FinishErase PROVE Durable'
  <2>1. mode = "erasing" /\ mode' = "up" /\ Sync /\ UNCHANGED <<buf, seq_next, covered, promised, todo, local>>
    BY <1>4 DEF FinishErase, ring, call
  <2>2. todo' = <<>> /\ local' = Idle
    BY <2>1 DEF Queue, Rescue
  <2>3. ~ Written'
    BY <2>2 DEF Written, Idle
  <2> QED
    BY <2>1, <2>3, SyncedDurable DEF Open
<1>5. ASSUME Refuse \/ UNCHANGED vars PROVE Durable'
  <2>1. UNCHANGED <<platter, buf, seq_next, covered, promised, todo, local>> /\ (mode' = mode \/ mode' = "refused")
    BY <1>5 DEF Refuse, vars, device, ring, call, ghost, past
  <2>2. (Written' <=> Written) /\ (Open' => Open)
    BY <2>1 DEF Written, Open
  <2> QED
    BY <1>0, <2>1, <2>2, QuietDurable
<1> QED
    BY <1>1, <1>2, <1>3, <1>4, <1>5

\* Every step keeps the promises, when recoveries erase only fragments.
LEMMA DurableNext == Inside /\ Rescue /\ Queue /\ Durable /\ [Next]_vars /\ ErasesOnlyFragments' => Queue' /\ Durable'
<1> SUFFICES ASSUME Inside, Rescue, Queue, Durable, [Next]_vars, ErasesOnlyFragments'
             PROVE  Queue' /\ Durable'
    OBVIOUS
<1>1. Inside'
    BY InsideNext
<1>2. CASE WriteWal \/ Snapshot \/ Close \/ \E l \in Levels : SetWalLevel(l)
    BY <1>1, <1>2, CallsDurable, OtherQueue
<1>3. CASE Retry
    BY <1>1, <1>3, CallsDurable, OtherQueue
<1>4. CASE AdmitReopen
    BY <1>1, <1>4, CallsDurable, WriteQueue
<1>5. CASE SwitchLevel
    BY <1>1, <1>5, CallsDurable, FlushQueue
<1>6. CASE AdmitSegment \/ AdmitAppend \/ BatchTail \/ BatchSync \/ BatchedWrite
    BY <1>1, <1>6, WriteDurable, WriteQueue
<1>7. CASE FlushWrite \/ FlushSync \/ TakeSnapshot
    BY <1>1, <1>7, FlushDurable, FlushQueue
<1>8. CASE CloseDevice \/ PowerFailure \/ Kill \/ Recover \/ FinishErase \/ Refuse \/ UNCHANGED vars
    BY <1>1, <1>8, StopDurable, OtherQueue
<1>9. CASE Refused
    BY <1>1, <1>9, StopDurable, OtherQueue DEF Refused
<1> QED
    BY <1>2, <1>3, <1>4, <1>5, <1>6, <1>7, <1>8, <1>9 DEF Next

\* At first nothing is promised.
LEMMA DurableInit == Init => Queue /\ Durable /\ ErasesOnlyFragments
<1> SUFFICES ASSUME Init PROVE Queue /\ Durable /\ ErasesOnlyFragments
    OBVIOUS
<1>1. /\ mode = "up" /\ todo = <<>> /\ local = Idle /\ promised = 0 /\ covered = 0 /\ seq_next = 1 /\ buf = <<>>
    BY DEF Init
<1>2. ~ Written /\ ~ local.wrote /\ ~ local.dirty
    BY <1>1 DEF Written, Idle
<1>3. Queue
    BY <1>1, <1>2, ShapedLists DEF Queue
<1>4. Len(buf) = 0
    BY <1>1
<1>5. Lasting /\ Left /\ Buffered
    BY <1>1, <1>4 DEF Lasting, Left, Buffered
<1> QED
    BY <1>1, <1>2, <1>3, <1>5 DEF Durable, ErasesOnlyFragments

\* Two blocks of the log that hold one number are the same; two places of one block are.
LEMMA OneBlock ==
    ASSUME NEW v \in Nat, NEW p, NEW k \in 0 .. BlockFrames - 1, Lies(v, p),
           NEW u \in Nat, NEW b, NEW r \in 0 .. BlockFrames - 1, Lies(u, b),
           v * BlockFrames + k = u * BlockFrames + r
    PROVE  p = b
<1>1. (v * BlockFrames + k) \div BlockFrames = v /\ (u * BlockFrames + r) \div BlockFrames = u
    BY Quotient, Sizes
<1>2. v = u
    BY <1>1
<1>3. PICK q \in Nat : v = q * RingBlocks + p
    BY DEF Lies
<1>4. PICK l \in Nat : u = l * RingBlocks + b
    BY DEF Lies
<1>5. p \in 0 .. RingBlocks - 1 /\ b \in 0 .. RingBlocks - 1 /\ RingBlocks \in Nat \ {0}
    BY Sizes DEF Lies
<1>6. (q * RingBlocks + p) % RingBlocks = p /\ (l * RingBlocks + b) % RingBlocks = b
    BY <1>5, Quotient
<1> QED
    BY <1>2, <1>3, <1>4, <1>6

\* Where the zone does not reach the head, the zeros of a recovery spare the frames it has
\* replayed: the frames of the blocks from tail to head lie before the snapshot or beyond the tail.
LEMMA Spared ==
    ASSUME Inside, Recover, RoomAhead'
    PROVE  ErasesOnlyFragments'
<1>1. PICK c \in {Survey} :
         /\ Acceptable(c)
         /\ cur' = c.tail /\ head' = c.head
         /\ seq_next' = c.anchor + 1
         /\ \/ mode' = "up"
            \/ mode' = "erasing" /\ Erase(c) /\ c.fragments # {}
    BY DEF Recover
<1>2. covered' = covered /\ covered \in Nat /\ DeviceRight
    BY BoundAssumption DEF Recover, Inside, Typed
<1> SUFFICES ASSUME mode' = "erasing", NEW n \in covered + 1 .. c.anchor
             PROVE  ~ Missing(n)'
  <2>1. covered' + 1 .. seq_next' - 1 = covered + 1 .. c.anchor
    <3>1. c.anchor \in Int
      BY <1>1, <1>2, Surveyed, AcceptedWalk
    <3> QED
      BY <1>1, <1>2, <3>1
  <2> QED
    BY <2>1 DEF ErasesOnlyFragments
<1>3. /\ c = Survey /\ Acceptable(c) /\ Erase(c) /\ c.fragments # {}
    BY <1>1
<1>4. /\ c.anchor \in Nat /\ c.frames \in 0 .. BlockFrames - 1
      /\ \E v \in Nat : Lies(v, c.tail) /\ v * BlockFrames + c.frames = c.anchor
    BY <1>2, <1>3, Surveyed, AcceptedWalk, BoundAssumption
<1>5. PICK v \in Nat : Lies(v, c.tail) /\ v * BlockFrames + c.frames = c.anchor
    BY <1>4
<1>6. n \in Nat \ {0} /\ Here(n) /\ covered < n /\ n <= c.anchor
    BY <1>2, <1>3, <1>4, SurveyHere, AcceptedWalk
<1>7. Seat(n) \in Slots /\ Home(n, Seat(n))
    BY <1>6, Seats
<1> DEFINE zone  == (c.tail + (IF c.frames > 0 THEN 1 ELSE 0)) * BlockFrames
                        .. ZoneEnd(c) * BlockFrames - 1
           after == c.tail * BlockFrames + c.frames .. (c.tail + 1) * BlockFrames - 1
           cleared == zone \cup (IF c.frames > 0 THEN after ELSE {})
           content == [y \in cleared |-> None]
           x == Seat(n)
<1>8. Live # {} /\ c.fragments \subseteq Live
    BY <1>3 DEF Survey
<1>9. /\ c.replayed \in Nat /\ c.anchor = covered + c.replayed
      /\ c.stop = Ahead(c.first, c.replayed) /\ c.first = Seat(covered + 1)
  <2>1. /\ c.first \in Slots /\ c.replayed \in Nat \ {0}
        /\ \A m \in 0 .. c.replayed - 1 : Seq0(Ahead(c.first, m)) = covered + 1 + m
        /\ c.anchor = covered + c.replayed
        /\ c.stop = Ahead(c.first, c.replayed)
    BY <1>2, <1>3, <1>8, Walked, AcceptedWalk
  <2>2. Seq0(c.first) = covered + 1
    <3>1. 0 \in 0 .. c.replayed - 1 /\ Ahead(c.first, 0) = c.first
      BY <2>1, Walk
    <3> QED
      BY <1>2, <2>1, <3>1
  <2>3. Home(covered + 1, c.first)
    <3>1. Home(Seq0(c.first), c.first)
      BY <1>2, <2>1, CurrentFacts DEF Seq0, DeviceRight
    <3> QED
      BY <2>2, <3>1
  <2> QED
    BY <1>2, <2>1, <2>3, Seats
<1>10. Block(c.stop) = c.tail
  <2>1. c.stop = Seat(c.anchor + 1)
    <3>1. covered + 1 \in Nat \ {0} /\ covered + 1 + c.replayed = c.anchor + 1
      BY <1>2, <1>9
    <3> QED
      BY <1>9, <3>1, SeatAhead
  <2>2. c.stop \in Slots /\ Home(c.anchor + 1, c.stop) /\ c.anchor + 1 \in Nat \ {0}
    BY <1>4, <2>1, Seats
  <2>3. PICK u \in Nat : Lies(u, Block(c.stop)) /\ (c.anchor + 1) - 1 = u * BlockFrames + (c.stop % BlockFrames)
    BY <2>2, BlockOf
  <2>4. c.stop % BlockFrames \in 0 .. BlockFrames - 1
    BY <2>2, BlockOf
  <2>5. v * BlockFrames + c.frames = u * BlockFrames + (c.stop % BlockFrames)
    BY <1>4, <1>5, <2>3
  <2> QED
    BY <1>4, <1>5, <2>3, <2>4, <2>5, OneBlock
<1>11. PICK h \in Nat : Lies(h, c.head) /\ h * BlockFrames <= covered /\ covered < (h + 1) * BlockFrames
  <2>1. covered + 1 \in Nat \ {0} /\ c.first \in Slots /\ Home(covered + 1, c.first)
    BY <1>2, <1>9, Seats
  <2>2. PICK h \in Nat : Lies(h, Block(c.first)) /\ (covered + 1) - 1 = h * BlockFrames + (c.first % BlockFrames)
    BY <2>1, BlockOf
  <2>3. c.first % BlockFrames \in 0 .. BlockFrames - 1 /\ BlockFrames \in Nat
    BY <2>1, BlockOf, Sizes
  <2>4. h * BlockFrames \in Int /\ (h + 1) * BlockFrames = h * BlockFrames + BlockFrames
    BY <2>3, Products
  <2>5. c.head = Block(c.first)
    <3> DEFINE first == CHOOSE y \in Live : \A z \in Live :
                   Seq0(y) < Seq0(z) \/ (Seq0(y) = Seq0(z) /\ y <= z)
    <3>1. Valid # {}
      BY <1>8 DEF Live
    <3>2. c.first = first
      BY <1>3, <1>8 DEF Survey
    <3>3. c.head = Block(first)
      BY <1>3, <1>8, <3>1 DEF Survey
    <3> QED
      BY <3>2, <3>3
  <2>6. h * BlockFrames <= covered /\ covered < (h + 1) * BlockFrames
    BY <1>2, <2>2, <2>3, <2>4
  <2> QED
    BY <2>2, <2>5, <2>6
<1>12. c.tail \in 0 .. RingBlocks - 1 /\ c.head \in 0 .. RingBlocks - 1 /\ RingBlocks \in Nat \ {0}
    BY <1>5, <1>11, Sizes DEF Lies
<1>13. h <= v /\ v < h + RingBlocks - 1
  <2>1. PICK y : y \in c.fragments
    BY <1>3
  <2>2. y \in Slots /\ Seq0(y) > covered + c.replayed
    BY <1>3, <1>8, <2>1 DEF Acceptable, Tolerated, Live, Valid
  <2>3. Seq0(y) \in Nat /\ Within(Seq0(y), covered)
    <3>1. Current(y) \in Frames /\ Within(Current(y)[1], covered)
      BY <1>2, <2>2, CurrentFacts DEF DeviceRight
    <3> QED
      BY <3>1, BoundAssumption DEF Frames, Seq0
  <2>4. PICK g \in Nat : g * BlockFrames <= covered /\ Seq0(y) <= (g + RingBlocks - 1) * BlockFrames
    BY <2>3 DEF Within
  <2> DEFINE w == g + RingBlocks - 2
             b == v * BlockFrames
  <2>5. w \in Int /\ w + 1 = g + RingBlocks - 1
    BY <1>12
  <2>6. /\ g * BlockFrames \in Int /\ h * BlockFrames \in Int /\ b \in Int
        /\ (h + 1) * BlockFrames \in Int /\ (w + 1) * BlockFrames \in Int
        /\ (v + 1) * BlockFrames = b + BlockFrames /\ BlockFrames \in Nat \ {0}
    BY <2>5, Sizes, Products
  <2> HIDE DEF w, b
  <2>7. b + c.frames = c.anchor
    BY <1>5 DEF b
  <2>8. g * BlockFrames < (h + 1) * BlockFrames
    BY <1>2, <1>11, <2>4, <2>6
  <2>9. b < (w + 1) * BlockFrames
    <3>1. Seq0(y) <= (w + 1) * BlockFrames
      BY <2>4, <2>5
    <3> QED
      BY <1>4, <1>9, <2>2, <2>3, <2>6, <2>7, <3>1
  <2>10. h * BlockFrames < (v + 1) * BlockFrames
    BY <1>2, <1>4, <1>9, <1>11, <2>6, <2>7
  <2>11. g <= h
    BY <2>6, <2>8, Factors
  <2>12. v <= w
    BY <2>5, <2>6, <2>9, Factors DEF b
  <2>13. h <= v
    BY <2>6, <2>10, Factors
  <2> QED
    BY <1>12, <2>5, <2>11, <2>12, <2>13
<1>14. v - h = IF c.head <= c.tail THEN c.tail - c.head ELSE c.tail + RingBlocks - c.head
  <2>1. (c.tail + RingBlocks - c.head) % RingBlocks = v - h
    <3>1. v - h <= RingBlocks - 1
      BY <1>12, <1>13
    <3> QED
      BY <1>5, <1>11, <1>13, <3>1, Distance
  <2>2. CASE c.head <= c.tail
    <3> DEFINE r == c.tail - c.head
    <3>1. r \in 0 .. RingBlocks - 1 /\ c.tail + RingBlocks - c.head = 1 * RingBlocks + r
      BY <1>12, <2>2
    <3>2. (1 * RingBlocks + r) % RingBlocks = r
      <4> HIDE DEF r
      <4> QED
        BY <1>12, <3>1, Quotient
    <3> QED
      BY <2>1, <2>2, <3>1, <3>2
  <2>3. CASE ~ (c.head <= c.tail)
    <3> DEFINE r == c.tail + RingBlocks - c.head
    <3>1. r \in 0 .. RingBlocks - 1 /\ r = 0 * RingBlocks + r
      BY <1>12, <2>3
    <3>2. (0 * RingBlocks + r) % RingBlocks = r
      <4> HIDE DEF r
      <4> QED
        BY <1>12, <3>1, Quotient
    <3>3. r % RingBlocks = r
      BY <3>1, <3>2
    <3> QED
      BY <2>1, <2>3, <3>3
  <2> QED
    BY <2>2, <2>3
<1>15. c.head <= c.tail \/ c.tail + BufBlocks <= c.head
    BY <1>1 DEF RoomAhead
<1>16. ASSUME x \in cleared
       PROVE  FALSE
  <2> DEFINE t == c.tail * BlockFrames
             b == v * BlockFrames
             j == x - t + 1
             m == b + j
             k == IF c.head <= c.tail THEN RingBlocks - c.tail ELSE BufBlocks
             e == k * BlockFrames
             top == (h + RingBlocks) * BlockFrames
  <2>1. t \in Nat /\ b \in Nat /\ BlockFrames \in Nat \ {0} /\ b + c.frames = c.anchor
    BY <1>5, <1>12, Sizes, Products
  <2>2. k \in Nat \ {0} /\ v + k <= h + RingBlocks
    BY <1>12, <1>13, <1>14, <1>15, Sizes
  <2>3. /\ e \in Int /\ BlockFrames <= e /\ (c.tail + k) * BlockFrames = t + e
        /\ (c.tail + 1) * BlockFrames = t + BlockFrames /\ (c.tail + 0) * BlockFrames = t
    <3>1. k \in Int /\ 1 <= k /\ 1 * BlockFrames = BlockFrames
      BY <2>1, <2>2
    <3> HIDE DEF k
    <3> QED
      BY <1>12, <2>1, <3>1, Products
  <2>4. x \in Nat /\ x >= t + c.frames /\ x < t + e
    <3>1. x \in Nat /\ x < RingBlocks * BlockFrames
      BY <1>7, Sizes DEF Slots
    <3>2. ZoneEnd(c) \in Int /\ (c.head <= c.tail \/ ZoneEnd(c) <= c.tail + k)
      BY <1>10, <1>12, Sizes DEF ZoneEnd, Least
    <3>3. CASE x \in zone
      <4>1. x >= (c.tail + (IF c.frames > 0 THEN 1 ELSE 0)) * BlockFrames /\ x <= ZoneEnd(c) * BlockFrames - 1
        BY <3>3
      <4>2. x >= t + c.frames
        <5> HIDE DEF x, t, e, k
        <5> QED
          BY <1>4, <2>1, <2>3, <3>1, <4>1
      <4>3. CASE c.head <= c.tail
        <5>1. c.tail + k = RingBlocks
          BY <1>12, <4>3
        <5> HIDE DEF x, t, e, k
        <5> QED
          BY <2>3, <3>1, <4>2, <5>1
      <4>4. CASE ~ (c.head <= c.tail)
        <5>1. c.tail + k \in Int /\ ZoneEnd(c) <= c.tail + k
          BY <1>12, <2>2, <3>2, <4>4
        <5>2. ZoneEnd(c) * BlockFrames <= (c.tail + k) * BlockFrames /\ ZoneEnd(c) * BlockFrames \in Int
          BY <3>2, <5>1, Sizes, Products
        <5> HIDE DEF x, t, e, k
        <5> QED
          BY <2>1, <2>3, <3>1, <4>1, <4>2, <5>2
      <4> QED
        BY <4>3, <4>4
    <3>4. CASE x \in after
      <4>1. x >= t + c.frames /\ x <= (c.tail + 1) * BlockFrames - 1
        BY <3>4
      <4> HIDE DEF x, t, e, k
      <4> QED
        BY <1>4, <2>1, <2>3, <3>1, <4>1
    <3> QED
      BY <1>16, <3>3, <3>4
  <2>5. Home(m, x)
    <3>1. PICK q \in Nat : v = q * RingBlocks + c.tail
      BY <1>5 DEF Lies
    <3> DEFINE a == q * RingBlocks * BlockFrames
    <3>2. a \in Int /\ b = a + t
      <4>1. q * RingBlocks \in Int /\ c.tail \in Int
        BY <1>12, Sizes
      <4> QED
        BY <3>1, <4>1, Sizes, Products
    <3>3. m - 1 = a + x
      <4> HIDE DEF a, b, t, x
      <4> QED
        BY <2>1, <2>4, <3>2
    <3>4. Home(m, x)
      <4> HIDE DEF m, x
      <4> QED
        BY <3>3 DEF Home, a
    <3> QED
      BY <3>4
  <2>6. b + e <= top /\ top \in Int
    <3> HIDE DEF k
    <3>1. (v + k) * BlockFrames = b + e
      BY <2>2, Sizes, Products
    <3> DEFINE i == v + k
               f == h + RingBlocks
    <3>2. i \in Int /\ f \in Int /\ i <= f
      BY <1>12, <2>2
    <3> HIDE DEF i, f
    <3>3. i * BlockFrames <= f * BlockFrames /\ f * BlockFrames \in Int
      BY <3>2, Sizes, Products
    <3> QED
      BY <3>1, <3>3 DEF i, f
  <2> HIDE DEF t, x, b, e, k, top
  <2>7. m \in Nat \ {0} /\ c.anchor < m /\ m <= top
    BY <1>4, <2>1, <2>3, <2>4, <2>6
  <2>8. h * BlockFrames \in Int
    BY Sizes, Products
  <2> HIDE DEF m
  <2>9. n = m
    <3>1. h * BlockFrames < n /\ n <= top /\ h * BlockFrames < m
      BY <1>2, <1>4, <1>6, <1>11, <2>6, <2>7, <2>8
    <3> QED
      BY <1>6, <1>7, <2>5, <2>7, <3>1, Apart DEF x, top
  <2> QED
    BY <1>4, <1>6, <2>7, <2>9
<1>17. WriteAt(content) /\ DOMAIN content = cleared
    BY <1>3 DEF Erase
<1> HIDE DEF content, cleared
<1>18. Here(n)'
    BY <1>2, <1>6, <1>16, <1>17, WriteHere
<1> QED
    BY <1>7, <1>18 DEF Here, Missing, Seat

\* At first.
LEMMA PromisedInit == Init => Promised /\ ErasesOnlyFragments
<1> SUFFICES ASSUME Init PROVE Rescue
    BY InsideInit, DurableInit DEF Promised
<1>1. local = Idle /\ todo = <<>>
    BY DEF Init
<1> QED
    BY <1>1, IdleFacts, PureLists DEF Rescue, LocalTyped

\* Every step.
LEMMA PromisedNext == Promised /\ [Next]_vars /\ ErasesOnlyFragments' => Promised'
  BY InsideNext, RescueNext, DurableNext DEF Promised

\* What the invariant says of an open log.
LEMMA PromisedShows == Promised => PromisesSurvive
  BY DEF Promised, Durable, Open, PromisesSurvive

\* With room ahead of the tail every recovery erases fragments only.
LEMMA SparedNext == Promised /\ ErasesOnlyFragments /\ [Next]_vars /\ RoomAhead' => ErasesOnlyFragments'
<1> SUFFICES ASSUME Promised, ErasesOnlyFragments, [Next]_vars, RoomAhead', mode' = "erasing"
             PROVE  ErasesOnlyFragments'
    BY DEF ErasesOnlyFragments
<1>1. CASE Recover
    BY <1>1, Spared DEF Promised
<1>2. CASE UNCHANGED vars
    BY <1>2 DEF ErasesOnlyFragments, Missing, Seq0, Current, vars, device, ring
<1>3. CASE Next /\ ~ Recover
  <2>1. UNCHANGED vars
    BY <1>3 DEF Next, WriteWal, Snapshot, Close, SetWalLevel, Call, Retry, AdmitReopen, AdmitSegment, AdmitAppend,
         BatchTail, BatchSync, BatchedWrite, FlushWrite, FlushSync, TakeSnapshot, SwitchLevel, CloseDevice,
         PowerFailure, Kill, FinishErase, Refuse, Refused, At
  <2> QED
    BY <1>2, <2>1
<1> QED
    BY <1>1, <1>2, <1>3

\* As long as recoveries erase no frame they have just replayed, a frame whose durability a
\* caller was promised is replayed or covered by a snapshot, through any failed writes, kills and
\* power failures, for every size of ring, buffer and batch (WriteWal, Flush and Recover of wal.cpp).
THEOREM PromisesKept == Spec /\ []ErasesOnlyFragments => []PromisesSurvive
<1>1. Init => Promised
    BY PromisedInit
<1>2. Promised /\ [Next]_vars /\ ErasesOnlyFragments' => Promised'
    BY PromisedNext
<1>3. Promised => PromisesSurvive
    BY PromisedShows
<1> QED
    BY <1>1, <1>2, <1>3, PTL DEF Spec

\* The condition holds wherever the zeros of Recover, which stop at the seam but not at the head
\* (src/wal/wal.cpp:436), meet the seam first or end before the head: they spare what has been
\* replayed, and with it everything that was promised (invariant 3 of the recovery design), for
\* every size of ring and buffer.  The run wal_erase shows a recovery without that room.
THEOREM ErasureSpares == Spec /\ []RoomAhead => []ErasesOnlyFragments /\ []ErasesOnlyUnpromised
<1>1. Init => Promised /\ ErasesOnlyFragments
    BY PromisedInit
<1>2. Promised /\ ErasesOnlyFragments /\ [Next]_vars /\ RoomAhead' => Promised' /\ ErasesOnlyFragments'
    BY PromisedNext, SparedNext
<1>3. Promised /\ ErasesOnlyFragments => ErasesOnlyUnpromised
  <2> SUFFICES ASSUME Promised, ErasesOnlyFragments, mode = "erasing", NEW n \in covered + 1 .. promised
               PROVE  ~ Missing(n)
    BY DEF ErasesOnlyUnpromised
  <2>1. promised < seq_next /\ promised \in Nat /\ covered \in Nat /\ seq_next \in Nat
    BY BoundAssumption DEF Promised, Durable, Open, Inside, Typed
  <2>2. n \in covered + 1 .. seq_next - 1
    BY <2>1
  <2> QED
    BY <2>2 DEF ErasesOnlyFragments
<1> QED
    BY <1>1, <1>2, <1>3, PTL DEF Spec

\* So no promise is lost as long as recoveries find that room, whatever the sizes of ring, buffer
\* and batch.
THEOREM PromisesWithRoom == Spec /\ []RoomAhead => []PromisesSurvive
  BY ErasureSpares, PromisesKept, PTL

---------------------------------------------------------------------------
(* Whose frames are replayed.                                              *)

\* A slot after a write.
LEMMA WriteSlot ==
    ASSUME DeviceRight, NEW content, WriteAt(content), NEW x \in Slots
    PROVE  /\ Current(x)' = IF x \in DOMAIN content THEN content[x] ELSE Current(x)
           /\ platter'[x] = platter[x] \/
                  /\ x \in DOMAIN content /\ content[x] # Current(x)
                  /\ Len(platter'[x]) = Len(platter[x]) + 1
                  /\ \A i \in 1 .. Len(platter[x]) : platter'[x][i] = platter[x][i]
           /\ Len(platter[x]) \in Nat \ {0} /\ Current(x) = platter[x][Len(platter[x])]
           /\ Current(x) \in Frames
<1>1. platter[x] \in Seq(Frames) /\ platter[x] # <<>> /\ Len(platter[x]) \in Nat
    BY LenProperties DEF DeviceRight, PlatterRight
<1>2. platter'[x] = IF x \in DOMAIN content /\ content[x] # Current(x)
                    THEN Append(platter[x], content[x]) ELSE platter[x]
    BY DEF WriteAt
<1>3. Len(platter[x]) \in Nat \ {0} /\ Current(x) = platter[x][Len(platter[x])] /\ Current(x) \in Frames
  <2>1. Len(platter[x]) \in Nat \ {0}
    BY <1>1, EmptySeq
  <2> QED
    BY <2>1, CurrentFacts DEF Current, DeviceRight
<1>4. CASE x \in DOMAIN content /\ content[x] # Current(x)
  <2>1. /\ Len(platter'[x]) = Len(platter[x]) + 1
        /\ \A i \in 1 .. Len(platter[x]) : platter'[x][i] = platter[x][i]
        /\ platter'[x][Len(platter[x]) + 1] = content[x]
    BY <1>1, <1>2, <1>4
  <2>2. Current(x)' = content[x]
    BY <2>1 DEF Current
  <2> QED
    BY <1>3, <1>4, <2>1, <2>2
<1>5. CASE ~ (x \in DOMAIN content /\ content[x] # Current(x))
  <2>1. platter'[x] = platter[x]
    BY <1>2, <1>5
  <2>2. Current(x)' = Current(x)
    BY <2>1 DEF Current
  <2> QED
    BY <1>3, <1>5, <2>1, <2>2
<1> QED
    BY <1>4, <1>5

\* A slot after a synchronisation.
LEMMA SyncSlot ==
    ASSUME Sync
    PROVE  Behind' /\ \A x \in Slots : Current(x)' = Current(x)
<1>1. \A x \in Slots : platter'[x] = <<Current(x)>>
    BY DEF Sync
<1>2. \A x \in Slots : Len(platter'[x]) = 1 /\ platter'[x][1] = Current(x)
    BY <1>1
<1>3. Behind'
  <2> SUFFICES ASSUME NEW x \in Slots, NEW i \in 1 .. Len(platter'[x]) - 1 PROVE FALSE
    BY DEF Behind
  <2>1. Len(platter'[x]) = 1
    BY <1>2
  <2> QED
    BY <2>1
<1>4. \A x \in Slots : Current(x)' = Current(x)
    BY <1>2 DEF Current
<1> QED
    BY <1>3, <1>4

\* A window that is written replaces no frame beyond the snapshot by another one.
LEMMA SpanTraced ==
    ASSUME Inside, mode = "up", Noted, Newest, WriteWindowSpan, UNCHANGED <<seq_next, covered, history>>
    PROVE  /\ Newest' /\ (Behind => Behind')
           /\ \A x \in Slots : covered < Current(x)[1] => platter'[x] = platter[x]
<1> DEFINE content == [x \in Span |-> LET i == x - cur * BlockFrames + 1
                                     IN  IF i <= Len(buf) THEN buf[i] ELSE None]
<1>1. WriteAt(content) /\ DOMAIN content = Span
    BY DEF WriteWindowSpan
<1>2. Open /\ DeviceRight
    BY DEF Open, Inside
<1>3. PICK v \in Nat, h \in Nat : Placed(v, h)
    BY <1>2 DEF Inside, Located
<1>4. /\ seq_next \in Nat /\ covered \in Nat /\ Len(buf) \in Nat /\ v * BlockFrames \in Nat
      /\ v * BlockFrames + Len(buf) = seq_next - 1
    BY <1>3, LenProperties, Sizes, BoundAssumption DEF Inside, Typed, BufRight, BufferRight, Placed
<1>5. ASSUME NEW x \in Slots, x \in Span
      PROVE  Known(content[x]) /\ (covered < Current(x)[1] => content[x] = Current(x))
  <2>1. PICK j \in Nat \ {0} : /\ j = x - cur * BlockFrames + 1
                               /\ Home(v * BlockFrames + j, x)
                               /\ v * BlockFrames + j \in Nat \ {0}
                               /\ h * BlockFrames < v * BlockFrames + j
                               /\ v * BlockFrames + j <= (h + RingBlocks) * BlockFrames
    BY <1>2, <1>3, <1>5, Reached
  <2>2. content[x] = IF j <= Len(buf) THEN buf[j] ELSE None
    BY <1>5, <2>1
  <2> HIDE DEF content
  <2>3. Known(content[x])
    <3>1. CASE j <= Len(buf)
      BY <1>4, <2>2, <3>1 DEF Noted
    <3>2. CASE ~ (j <= Len(buf))
      BY <1>4, <2>2, <3>2 DEF Known, None
    <3> QED
      BY <3>1, <3>2
  <2>4. ASSUME covered < Current(x)[1]
        PROVE  content[x] = Current(x)
    <3> DEFINE n == Current(x)[1]
               m == v * BlockFrames + j
    <3>1. /\ Current(x) \in Frames /\ Home(n, x) /\ n \in Nat
          /\ n < seq_next /\ Current(x)[2] = history[n]
      <4>1. Current(x) \in Frames /\ Home(n, x)
        BY <1>2, CurrentFacts DEF DeviceRight
      <4>2. n \in Nat
        BY <4>1, BoundAssumption DEF Frames
      <4> QED
        BY <2>4, <4>1, <4>2 DEF Newest, Known
    <3>2. n \in Nat \ {0} /\ h * BlockFrames < n /\ n <= (h + RingBlocks) * BlockFrames
      <4> HIDE DEF n
      <4>1. covered < n
        BY <2>4 DEF n
      <4> QED
        BY <1>2, <1>3, <3>1, <4>1, LogRange
    <3>3. n = m
      <4> HIDE DEF n
      <4> QED
        BY <2>1, <3>1, <3>2, Apart
    <3>4. j \in 1 .. Len(buf) /\ seq_next - 1 - Len(buf) + j = n
      <4> DEFINE vb == v * BlockFrames
      <4>1. n = vb + j /\ vb + Len(buf) = seq_next - 1 /\ vb \in Nat
        BY <1>4, <3>3
      <4>2. seq_next \in Nat /\ Len(buf) \in Nat
        BY <1>4
      <4> HIDE DEF vb, n
      <4> QED
        BY <3>1, <4>1, <4>2
    <3>5. buf[j][1] = n /\ buf[j][2] = history[n] /\ buf[j] \in Frames
      <4>1. buf[j][1] = n
        BY <2>4, <3>4 DEF Noted, Buffered
      <4>2. buf \in Seq(Frames)
        BY DEF Inside, BufRight, BufferRight
      <4> QED
        BY <2>4, <3>4, <4>1, <4>2 DEF Noted, Known
    <3>6. content[x] = buf[j]
      BY <2>2, <3>4
    <3> QED
      BY <3>1, <3>5, <3>6 DEF Frames
  <2> QED
    BY <2>3, <2>4
<1> HIDE DEF content
<1>6. Newest'
  <2> SUFFICES ASSUME NEW x \in Slots PROVE Known(Current(x))'
    BY DEF Newest
  <2>1. Current(x)' = IF x \in Span THEN content[x] ELSE Current(x)
    BY <1>1, <1>2, WriteSlot
  <2>2. CASE x \in Span
    <3> DEFINE f == content[x]
    <3>1. Known(f) /\ Current(x)' = f
      BY <1>5, <2>1, <2>2
    <3> HIDE DEF f
    <3> QED
      BY <3>1 DEF Known
  <2>3. CASE x \notin Span
    BY <2>1, <2>3 DEF Newest, Known
  <2> QED
    BY <2>2, <2>3
<1>7. ASSUME Behind, NEW x \in Slots, NEW i \in 1 .. Len(platter'[x]) - 1
      PROVE  platter'[x][i][1] <= covered
  <2>1. CASE platter'[x] = platter[x]
    BY <1>7, <2>1 DEF Behind
  <2>2. CASE /\ x \in Span /\ content[x] # Current(x)
             /\ Len(platter'[x]) = Len(platter[x]) + 1
             /\ \A k \in 1 .. Len(platter[x]) : platter'[x][k] = platter[x][k]
    <3>1. Len(platter[x]) \in Nat \ {0} /\ Current(x) = platter[x][Len(platter[x])] /\ Current(x) \in Frames
      BY <1>1, <1>2, WriteSlot
    <3>2. i \in 1 .. Len(platter[x]) - 1 \/ i = Len(platter[x])
      BY <1>7, <2>2, <3>1
    <3>3. platter'[x][i] = platter[x][i]
      BY <2>2, <3>1, <3>2
    <3>4. Current(x)[1] <= covered
      <4>1. Current(x)[1] \in Nat
        BY <3>1, BoundAssumption DEF Frames
      <4> QED
        BY <1>4, <1>5, <2>2, <4>1
    <3> QED
      BY <1>7, <3>1, <3>2, <3>3, <3>4 DEF Behind
  <2> QED
    BY <1>1, <1>2, <2>1, <2>2, WriteSlot
<1>8. ASSUME NEW x \in Slots, covered < Current(x)[1]
      PROVE  platter'[x] = platter[x]
  <2>1. platter'[x] = platter[x] \/ (x \in Span /\ content[x] # Current(x))
    BY <1>1, <1>2, WriteSlot
  <2> QED
    BY <1>5, <1>8, <2>1
<1> QED
    BY <1>6, <1>7, <1>8 DEF Behind

\* What is buffered after whole blocks have been left behind.
LEMMA AdvanceNoted ==
    ASSUME Inside, Noted, AdvanceAfterWrite, UNCHANGED <<seq_next, covered, history>>
    PROVE  Noted'
<1>1. buf \in Seq(Frames) /\ Len(buf) \in Nat
    BY LenProperties DEF Inside, BufRight, BufferRight
<1> DEFINE full == Len(buf) \div BlockFrames
           k == full * BlockFrames
<1>2. buf' = SubSeq(buf, k + 1, Len(buf))
    BY DEF AdvanceAfterWrite
<1>3. k \in Nat /\ k <= Len(buf)
  <2>1. full \in Nat /\ Len(buf) % BlockFrames \in 0 .. BlockFrames - 1 /\ Len(buf) = full * BlockFrames + (Len(buf) % BlockFrames)
    BY <1>1, Division, Sizes
  <2> HIDE DEF full
  <2> QED
    BY <1>1, <2>1, Sizes, Products
<1> HIDE DEF k
<1>4. Len(buf') = Len(buf) - k /\ \A i \in 1 .. Len(buf) - k : buf'[i] = buf[k + i]
    BY <1>1, <1>2, <1>3
<1>5. ASSUME NEW i \in 1 .. Len(buf') PROVE Known(buf[i])'
  <2>1. k + i \in 1 .. Len(buf) /\ buf'[i] = buf[k + i]
    BY <1>1, <1>3, <1>4
  <2> QED
    BY <2>1 DEF Noted, Known
<1>6. Buffered'
    BY AdvanceBuffered DEF Noted
<1> QED
    BY <1>5, <1>6 DEF Noted

\* A frame that is appended is recorded.
LEMMA AppendTraced ==
    ASSUME Inside, mode = "up", mode' = "up", Traced, AppendEntry, UNCHANGED <<platter, covered, half_erased, faithful>>
    PROVE  Traced'
<1>1. /\ buf \in Seq(Frames) /\ Len(buf) \in Nat /\ seq_next \in Nat /\ covered \in Nat
      /\ life \in Int /\ seq_next \in 1 .. MaxSeq
    BY LenProperties, BoundAssumption DEF Inside, Typed, BufRight, BufferRight, AppendEntry
<1>2. buf' = Append(buf, <<seq_next, life>>) /\ seq_next' = seq_next + 1 /\ history' = [history EXCEPT ![seq_next] = life]
    BY DEF AppendEntry
<1>3. /\ Len(buf') = Len(buf) + 1
      /\ \A i \in 1 .. Len(buf) : buf'[i] = buf[i]
      /\ buf'[Len(buf) + 1] = <<seq_next, life>>
    BY <1>1, <1>2
<1>4. Noted /\ Newest /\ history \in [1 .. MaxSeq -> Int] /\ DeviceRight
    BY DEF Traced, Open, Inside
<1>5. history' \in [1 .. MaxSeq -> Int] /\ history'[seq_next] = life
    BY <1>1, <1>2, <1>4
<1>6. ASSUME NEW f \in Frames, Known(f) PROVE Known(f)'
  <2>1. f[1] \in 0 .. MaxSeq /\ f[1] \in Nat
    BY BoundAssumption DEF Frames
  <2>2. covered < f[1] => history'[f[1]] = history[f[1]]
    BY <1>1, <1>2, <1>4, <1>6, <2>1 DEF Known
  <2> QED
    BY <1>1, <1>2, <1>6, <2>1, <2>2 DEF Known
<1>7. Newest'
  <2>1. \A x \in Slots : Current(x) \in Frames
    BY <1>4, CurrentFacts DEF DeviceRight
  <2>2. \A x \in Slots : Known(Current(x))'
    <3> SUFFICES ASSUME NEW x \in Slots PROVE Known(Current(x))'
      OBVIOUS
    <3> DEFINE f == Current(x)
    <3>1. f \in Frames /\ Known(f) /\ Current(x)' = f
      BY <1>4, <2>1 DEF Newest, Current
    <3> HIDE DEF f
    <3>2. covered' < f[1] => f[1] < seq_next' /\ f[2] = history'[f[1]]
      BY <1>6, <3>1 DEF Known
    <3> QED
      BY <3>1, <3>2 DEF Known
  <2> QED
    BY <2>2 DEF Newest
<1>8. ASSUME NEW i \in 1 .. Len(buf') PROVE Known(buf[i])'
  <2>1. CASE i \in 1 .. Len(buf)
    <3> DEFINE f == buf[i]
    <3>1. f \in Frames /\ Known(f) /\ buf'[i] = f
      BY <1>1, <1>3, <1>4, <2>1 DEF Noted
    <3> HIDE DEF f
    <3>2. covered' < f[1] => f[1] < seq_next' /\ f[2] = history'[f[1]]
      BY <1>6, <3>1 DEF Known
    <3> QED
      BY <3>1, <3>2 DEF Known
  <2>2. CASE i = Len(buf) + 1
    BY <1>1, <1>2, <1>3, <1>5, <2>2 DEF Known
  <2> QED
    BY <1>1, <1>3, <1>8, <2>1, <2>2
<1>9. ASSUME NEW i \in 1 .. Len(buf'), covered' < seq_next' - 1 - Len(buf') + i
      PROVE  buf'[i][1] = seq_next' - 1 - Len(buf') + i
  <2>0. seq_next' - 1 - Len(buf') = seq_next - 1 - Len(buf)
    BY <1>1, <1>2, <1>3
  <2>1. CASE i \in 1 .. Len(buf)
    BY <1>3, <1>4, <1>9, <2>0, <2>1 DEF Noted, Buffered
  <2>2. CASE i = Len(buf) + 1
    BY <1>1, <1>2, <1>3, <2>0, <2>2
  <2> QED
    BY <1>1, <1>3, <1>9, <2>1, <2>2
<1>10. Noted'
    BY <1>8, <1>9 DEF Noted, Buffered
<1>11. Behind => Behind'
    BY DEF Behind
<1> QED
    BY <1>5, <1>7, <1>10, <1>11 DEF Traced

\* A step that leaves log and device alone.
LEMMA QuietTraced ==
    ASSUME Inside, Traced, mode = "up", mode' = "up", UNCHANGED <<platter, buf, seq_next, history, half_erased, faithful>>,
           covered' \in Nat, covered <= covered'
    PROVE  Traced'
<1>1. /\ buf \in Seq(Frames) /\ Len(buf) \in Nat /\ seq_next \in Nat /\ covered \in Nat /\ DeviceRight
    BY LenProperties, BoundAssumption DEF Inside, Typed, BufRight, BufferRight
<1>2. Noted /\ Newest /\ history \in [1 .. MaxSeq -> Int] /\ faithful
    BY DEF Traced, Open
<1>3. ASSUME NEW f \in Frames, Known(f) PROVE Known(f)'
  <2>1. f[1] \in Nat
    BY BoundAssumption DEF Frames
  <2> QED
    BY <1>1, <1>3, <2>1 DEF Known
<1>4. Newest'
  <2> SUFFICES ASSUME NEW x \in Slots PROVE Known(Current(x))'
    BY DEF Newest
  <2> DEFINE f == Current(x)
  <2>1. f \in Frames /\ Known(f) /\ Current(x)' = f
    BY <1>1, <1>2, CurrentFacts DEF Newest, Current, DeviceRight
  <2> HIDE DEF f
  <2>2. covered' < f[1] => f[1] < seq_next' /\ f[2] = history'[f[1]]
    BY <1>3, <2>1 DEF Known
  <2> QED
    BY <2>1, <2>2 DEF Known
<1>5. ASSUME NEW i \in 1 .. Len(buf') PROVE Known(buf[i])'
  <2> DEFINE f == buf[i]
  <2>1. f \in Frames /\ Known(f) /\ buf'[i] = f
    BY <1>1, <1>2, <1>5 DEF Noted
  <2> HIDE DEF f
  <2>2. covered' < f[1] => f[1] < seq_next' /\ f[2] = history'[f[1]]
    BY <1>3, <2>1 DEF Known
  <2> QED
    BY <2>1, <2>2 DEF Known
<1>6. ASSUME NEW i \in 1 .. Len(buf'), covered' < seq_next' - 1 - Len(buf') + i
      PROVE  buf'[i][1] = seq_next' - 1 - Len(buf') + i
  <2>1. covered < seq_next - 1 - Len(buf) + i
    BY <1>1, <1>6
  <2> QED
    BY <1>2, <1>6, <2>1 DEF Noted, Buffered
<1>7. Noted'
    BY <1>5, <1>6 DEF Noted, Buffered
<1>8. Behind => Behind'
  <2> SUFFICES ASSUME Behind, NEW x \in Slots, NEW i \in 1 .. Len(platter[x]) - 1
               PROVE  platter[x][i][1] <= covered'
    BY DEF Behind
  <2>1. platter[x] \in Seq(Frames) /\ Len(platter[x]) \in Nat
    BY <1>1, LenProperties DEF DeviceRight, PlatterRight
  <2>2. platter[x][i] \in Frames
    BY <2>1
  <2>3. platter[x][i][1] \in Nat
    BY <2>2, BoundAssumption DEF Frames
  <2> QED
    BY <1>1, <2>3 DEF Behind
<1> QED
    BY <1>2, <1>4, <1>7, <1>8 DEF Traced

\* A window that has been written.
LEMMA WrittenTraced ==
    ASSUME Inside, mode = "up", mode' = "up", Traced, WriteWindowSpan,
           UNCHANGED <<seq_next, covered, history, half_erased, faithful>>, AdvanceAfterWrite \/ buf' = buf
    PROVE  Traced'
<1>1. Noted /\ Newest /\ history \in [1 .. MaxSeq -> Int] /\ faithful
    BY DEF Traced, Open
<1>2. Newest' /\ (Behind => Behind')
    BY <1>1, SpanTraced
<1>3. Noted'
  <2>1. CASE buf' = buf
    BY <1>1, <2>1 DEF Noted, Buffered, Known
  <2>2. CASE AdvanceAfterWrite
    BY <1>1, <2>2, AdvanceNoted
  <2> QED
    BY <2>1, <2>2
<1> QED
    BY <1>1, <1>2, <1>3 DEF Traced

\* A device that has been synchronised.
LEMMA SyncedTraced ==
    ASSUME Inside, Open, mode' = "up", Traced, Sync,
           UNCHANGED <<seq_next, covered, history, faithful>>, AdvanceAfterWrite \/ buf' = buf
    PROVE  Traced'
<1>1. Noted /\ Newest /\ history \in [1 .. MaxSeq -> Int] /\ faithful
    BY DEF Traced
<1>2. Behind' /\ Newest'
    BY <1>1, SyncSlot DEF Newest, Known
<1>3. Noted'
  <2>1. CASE buf' = buf
    BY <1>1, <2>1 DEF Noted, Buffered, Known
  <2>2. CASE AdvanceAfterWrite
    BY <1>1, <2>2, AdvanceNoted
  <2> QED
    BY <2>1, <2>2
<1> QED
    BY <1>1, <1>2, <1>3 DEF Traced

\* What an accepted log consists of: the walk crosses the numbers up to the last one, the next
\* is nowhere, what lies beyond is fragments, and these begin where the tail ends.
LEMMA RunSeats ==
    ASSUME DeviceRight, covered \in Nat, NEW c, c = Survey, Walkable(c)
    PROVE  /\ \A x \in c.run : x \in Slots /\ covered < Seq0(x) /\ Seq0(x) <= c.anchor
           /\ \A x \in Slots : covered < Seq0(x) /\ Seq0(x) <= c.anchor => x \in c.run
           /\ \A x \in Slots : c.anchor < Seq0(x) => x \in c.fragments
           /\ \A x \in Slots : Seq0(x) # c.anchor + 1
           /\ \A x \in c.fragments :
                  Tolerated(c, x) => c.tail * BlockFrames + c.frames <= x /\ x < ZoneEnd(c) * BlockFrames
           /\ \A n \in Nat : covered < n /\ n <= c.anchor => Here(n)
           /\ Live # {} => /\ c.first = Seat(covered + 1) /\ c.stop = Seat(c.anchor + 1)
                           /\ c.anchor = covered + c.replayed /\ c.replayed \in Nat \ {0}
<1>1. \A x \in Slots : Seq0(x) \in 0 .. MaxSeq /\ Seq0(x) \in Nat /\ Home(Seq0(x), x)
    BY CurrentFacts, BoundAssumption DEF Seq0, Frames, DeviceRight
<1>2. /\ c.anchor \in Nat /\ covered <= c.anchor /\ c.frames \in 0 .. BlockFrames - 1
      /\ \E v \in Nat : Lies(v, c.tail) /\ v * BlockFrames + c.frames = c.anchor
      /\ Live = {} => c.anchor = covered
    BY Surveyed, BoundAssumption
<1>3. /\ \A n \in Nat : covered < n /\ n <= c.anchor => Here(n)
      /\ Here(covered + 1) => covered < c.anchor /\ ~ Here(c.anchor + 1)
    BY SurveyHere
<1>4. \A x \in Slots : covered < Seq0(x) => x \in Live
    BY <1>1, <1>2 DEF Live, Valid
<1>5. c.live = Live /\ c.fragments = c.live \ c.run
    BY DEF Survey
<1>6. ASSUME NEW x \in Slots, Seq0(x) = c.anchor + 1
      PROVE  FALSE
  <2>1. x \in Live /\ x = Seat(c.anchor + 1) /\ Here(c.anchor + 1)
    <3>1. x \in Live
      BY <1>2, <1>4, <1>6
    <3>2. x = Seat(c.anchor + 1)
      BY <1>1, <1>2, <1>6, Seats
    <3> QED
      BY <1>6, <3>1, <3>2 DEF Here
  <2>2. covered < c.anchor
    <3>1. c.replayed \in Nat \ {0} /\ c.anchor = covered + c.replayed
      BY <2>1, Walked
    <3> QED
      BY <3>1
  <2>3. Here(covered + 1)
    BY <1>2, <1>3, <2>2
  <2> QED
    BY <1>3, <2>1, <2>3
<1>7. CASE Live = {}
  <2>1. c.run = {}
    <3>1. c.replayed = 0
      BY <1>7 DEF Survey
    <3> DEFINE first == CHOOSE x \in Live : \A y \in Live :
                            Seq0(x) < Seq0(y) \/ (Seq0(x) = Seq0(y) /\ x <= y)
    <3>2. c.run = {Ahead(first, n) : n \in 0 .. c.replayed - 1}
      BY DEF Survey
    <3> HIDE DEF first
    <3> QED
      BY <3>1, <3>2
  <2> QED
    BY <1>2, <1>3, <1>4, <1>5, <1>6, <1>7, <2>1
<1>8. CASE Live # {}
  <2>1. /\ c.first \in Slots /\ c.replayed \in Nat \ {0}
        /\ \A n \in 0 .. c.replayed - 1 : Seq0(Ahead(c.first, n)) = covered + 1 + n
        /\ c.anchor = covered + c.replayed /\ c.stop = Ahead(c.first, c.replayed)
    BY <1>8, Walked
  <2>2. c.run = {Ahead(c.first, n) : n \in 0 .. c.replayed - 1}
    BY <1>8 DEF Survey
  <2>3. \A n \in Nat : Ahead(c.first, n) \in Slots
    BY <2>1, Walk
  <2>4. c.first = Seat(covered + 1)
    <3>1. Seq0(c.first) = covered + 1
      <4>1. 0 \in 0 .. c.replayed - 1 /\ Ahead(c.first, 0) = c.first
        BY <2>1, Walk
      <4> QED
        BY <2>1, <4>1
    <3> QED
      BY <1>1, <2>1, <3>1, Seats
  <2>5. \A x \in c.run : x \in Slots /\ covered < Seq0(x) /\ Seq0(x) <= c.anchor
    <3> SUFFICES ASSUME NEW n \in 0 .. c.replayed - 1
                 PROVE  LET x == Ahead(c.first, n) IN x \in Slots /\ covered < Seq0(x) /\ Seq0(x) <= c.anchor
      BY <2>2
    <3>1. n \in Nat /\ Seq0(Ahead(c.first, n)) = covered + 1 + n
      BY <2>1
    <3> QED
      BY <2>1, <2>3, <3>1
  <2>6. ASSUME NEW x \in Slots, covered < Seq0(x), Seq0(x) <= c.anchor
        PROVE  x \in c.run
    <3> DEFINE n == Seq0(x)
               m == n - covered - 1
    <3>1. n \in Nat \ {0} /\ x = Seat(n)
      BY <1>1, <2>6, Seats
    <3>2. m \in 0 .. c.replayed - 1 /\ m \in Nat /\ covered + 1 + m = n
      <4> HIDE DEF n
      <4>1. covered < n /\ n <= c.anchor
        BY <2>6 DEF n
      <4> QED
        BY <2>1, <3>1, <4>1
    <3> HIDE DEF m, n
    <3>3. Seat(covered + 1 + m) = Ahead(Seat(covered + 1), m)
      <4>1. covered + 1 \in Nat \ {0}
        OBVIOUS
      <4> QED
        BY <3>2, <4>1, SeatAhead
    <3> QED
      BY <2>2, <2>4, <3>1, <3>2, <3>3
  <2>7. \A x \in Slots : c.anchor < Seq0(x) => x \in c.fragments
    <3> SUFFICES ASSUME NEW x \in Slots, c.anchor < Seq0(x) PROVE x \in c.fragments
      OBVIOUS
    <3>1. x \notin c.run
      BY <1>1, <1>2, <2>5
    <3>2. x \in Live
      BY <1>1, <1>2, <1>4
    <3> QED
      BY <1>5, <3>1, <3>2
  <2>8. c.stop = c.tail * BlockFrames + c.frames /\ c.stop = Seat(c.anchor + 1)
    <3>1. c.stop = Seat(c.anchor + 1)
      <4>1. covered + 1 \in Nat \ {0} /\ c.replayed \in Nat /\ covered + 1 + c.replayed = c.anchor + 1
        BY <2>1
      <4>2. Seat(covered + 1 + c.replayed) = Ahead(Seat(covered + 1), c.replayed)
        BY <4>1, SeatAhead
      <4> QED
        BY <2>1, <2>4, <4>1, <4>2
    <3> DEFINE t == c.tail * BlockFrames
               y == t + c.frames
    <3>2. PICK v \in Nat : Lies(v, c.tail) /\ v * BlockFrames + c.frames = c.anchor
      BY <1>2
    <3>3. PICK q \in Nat : v = q * RingBlocks + c.tail
      BY <3>2 DEF Lies
    <3>4. c.tail \in 0 .. RingBlocks - 1
      BY <3>2 DEF Lies
    <3> DEFINE a == q * RingBlocks * BlockFrames
               b == v * BlockFrames
               z == RingBlocks * BlockFrames
               e == (c.tail + 1) * BlockFrames
               n == c.anchor + 1
    <3>5. t \in Nat /\ a \in Nat /\ b = a + t
      <4>1. q * RingBlocks \in Nat /\ c.tail \in Nat
        BY <3>4, Sizes
      <4> QED
        BY <3>3, <4>1, Sizes, Products
    <3>6. e = t + BlockFrames /\ e <= z /\ z \in Nat
      <4>1. c.tail + 1 \in Nat /\ c.tail + 1 <= RingBlocks /\ c.tail \in Nat /\ RingBlocks \in Nat
        BY <3>4, Sizes
      <4> QED
        BY <4>1, Sizes, Products
    <3>7. b + c.frames = c.anchor /\ c.frames \in 0 .. BlockFrames - 1 /\ BlockFrames \in Nat
      BY <1>2, <3>2, Sizes
    <3> HIDE DEF a, b, t, z, e
    <3>8. n - 1 = a + y /\ y \in 0 .. z - 1
      BY <1>2, <3>5, <3>6, <3>7
    <3> HIDE DEF y, n
    <3>9. Home(n, y)
      BY <3>8 DEF Home, a
    <3>10. y \in Slots
      BY <3>8 DEF z, Slots
    <3>11. y = Seat(n)
      BY <1>2, <3>9, <3>10, Seats DEF n
    <3> QED
      BY <3>1, <3>11 DEF y, t, n
  <2>9. \A x \in c.fragments :
            Tolerated(c, x) => c.tail * BlockFrames + c.frames <= x /\ x < ZoneEnd(c) * BlockFrames
    BY <2>8 DEF Tolerated
  <2> QED
    BY <1>3, <1>6, <2>1, <2>4, <2>5, <2>6, <2>7, <2>8, <2>9
<1> QED
    BY <1>7, <1>8

\* What an erasure leaves.
LEMMA EraseTraced ==
    ASSUME DeviceRight, covered \in Nat, NEW c, c = Survey, Acceptable(c), Erase(c)
    PROVE  /\ \A x \in Slots : Current(x)' = None \/ (Current(x)' = Current(x) /\ x \notin c.fragments)
           /\ \A x \in Slots : \A i \in 1 .. Len(platter'[x]) :
                  platter'[x][i] = None \/ (i \in 1 .. Len(platter[x]) /\ platter'[x][i] = platter[x][i])
<1> DEFINE zone  == (c.tail + (IF c.frames > 0 THEN 1 ELSE 0)) * BlockFrames
                        .. ZoneEnd(c) * BlockFrames - 1
           after == c.tail * BlockFrames + c.frames .. (c.tail + 1) * BlockFrames - 1
           cleared == zone \cup (IF c.frames > 0 THEN after ELSE {})
           content == [x \in cleared |-> None]
<1>1. WriteAt(content) /\ DOMAIN content = cleared
    BY DEF Erase
<1>2. /\ c.frames \in 0 .. BlockFrames - 1 /\ c.tail \in Nat /\ BlockFrames \in Nat
      /\ c.stop \in Int /\ ZoneEnd(c) \in Int
  <2>1. c.frames \in 0 .. BlockFrames - 1 /\ c.tail \in 0 .. RingBlocks - 1
    BY Surveyed, AcceptedWalk DEF Lies
  <2>2. c.stop \in Nat
    <3>1. CASE Live = {}
      <4>1. \E y : c.stop = IF Live = {} THEN 0 ELSE y
        BY <3>1 DEF Survey
      <4> QED
        BY <3>1, <4>1
    <3>2. CASE Live # {}
      <4>1. c.first \in Slots /\ c.replayed \in Nat /\ c.stop = Ahead(c.first, c.replayed)
        BY <3>2, Walked, AcceptedWalk
      <4>2. c.stop \in Slots
        BY <4>1, Walk
      <4> QED
        BY <4>2 DEF Slots
    <3> QED
      BY <3>1, <3>2
  <2>3. ZoneEnd(c) \in Int
    <3>1. Block(c.stop) \in Nat
      BY <2>2, Sizes, Division DEF Block
    <3> QED
      BY <3>1, Sizes DEF ZoneEnd, Least
  <2> QED
    BY <2>1, <2>2, <2>3, Sizes
<1>3. \A x \in c.fragments : x \in cleared /\ x \in Slots
  <2> SUFFICES ASSUME NEW x \in c.fragments PROVE x \in cleared /\ x \in Slots
    OBVIOUS
  <2>1. c.tail * BlockFrames + c.frames <= x /\ x < ZoneEnd(c) * BlockFrames
    BY RunSeats, AcceptedWalk DEF Acceptable
  <2>2. x \in Slots /\ x \in Int
    <3>1. c.fragments = c.live \ c.run /\ c.live = Live
      BY DEF Survey
    <3>2. x \in Slots
      BY <3>1 DEF Live, Valid
    <3> QED
      BY <3>2 DEF Slots
  <2> DEFINE t == c.tail * BlockFrames
             e == (c.tail + 1) * BlockFrames
             z == ZoneEnd(c) * BlockFrames
  <2>3. t \in Int /\ e = t + BlockFrames /\ z \in Int /\ (c.tail + 0) * BlockFrames = t
    BY <1>2, Products
  <2>4. zone = (IF c.frames > 0 THEN e ELSE t) .. z - 1 /\ after = t + c.frames .. e - 1
    BY <2>3
  <2>5. t + c.frames <= x /\ x < z
    BY <2>1
  <2> DEFINE k == c.frames
  <2>6. k \in Nat /\ t + k <= x
    BY <1>2, <2>5
  <2> HIDE DEF zone, after, t, e, z
  <2>7. CASE k > 0
    <3>1. cleared = (e .. z - 1) \cup (t + k .. e - 1)
      BY <2>4, <2>7
    <3> HIDE DEF k, cleared
    <3> QED
      BY <2>2, <2>3, <2>5, <2>6, <3>1
  <2>8. CASE ~ (k > 0)
    <3>1. cleared = t .. z - 1 /\ t <= x
      BY <2>3, <2>4, <2>6, <2>8
    <3> HIDE DEF k, cleared
    <3> QED
      BY <2>2, <2>3, <2>5, <3>1
  <2> QED
    BY <2>7, <2>8
<1> HIDE DEF cleared
<1>4. \A x \in cleared : content[x] = None
    OBVIOUS
<1> HIDE DEF content
<1>5. ASSUME NEW x \in Slots
      PROVE  Current(x)' = None \/ (Current(x)' = Current(x) /\ x \notin c.fragments)
  <2>1. Current(x)' = IF x \in cleared THEN content[x] ELSE Current(x)
    BY <1>1, WriteSlot
  <2> QED
    BY <1>3, <1>4, <2>1
<1>6. ASSUME NEW x \in Slots, NEW i \in 1 .. Len(platter'[x])
      PROVE  platter'[x][i] = None \/ (i \in 1 .. Len(platter[x]) /\ platter'[x][i] = platter[x][i])
  <2>1. CASE platter'[x] = platter[x]
    BY <1>6, <2>1
  <2>2. CASE /\ x \in cleared /\ Len(platter'[x]) = Len(platter[x]) + 1
             /\ \A k \in 1 .. Len(platter[x]) : platter'[x][k] = platter[x][k]
    <3>1. Len(platter[x]) \in Nat
      BY <1>1, WriteSlot
    <3>2. i \in 1 .. Len(platter[x]) \/ i = Len(platter'[x])
      BY <1>6, <2>2, <3>1
    <3>3. platter'[x][Len(platter'[x])] = None
      <4>1. Current(x)' = content[x]
        BY <1>1, <2>2, WriteSlot
      <4> QED
        BY <1>4, <2>2, <4>1 DEF Current
    <3> QED
      BY <2>2, <3>2, <3>3
  <2> QED
    BY <1>1, <2>1, <2>2, WriteSlot
<1> QED
    BY <1>5, <1>6

\* Recover replays what was accepted, and records whatever it replays.
LEMMA RecoverTraced ==
    ASSUME Inside, Traced, Recover
    PROVE  Traced'
<1>1. PICK c \in {Survey} :
         /\ Acceptable(c)
         /\ buf' = [i \in 1 .. c.frames |-> Current(c.tail * BlockFrames + i - 1)]
         /\ seq_next' = c.anchor + 1
         /\ \/ c.fragments = {} /\ mode' = "up" /\ UNCHANGED platter
            \/ mode' = "erasing" /\ Erase(c)
         /\ faithful' = (half_erased \/ \A x \in c.run : Current(x)[2] = history[Seq0(x)])
         /\ history' = [s \in 1 .. MaxSeq |->
              IF \E x \in c.run : Seq0(x) = s
              THEN Current(CHOOSE x \in c.run : Seq0(x) = s)[2]
              ELSE IF s < seq_next' THEN history[s] ELSE 0]
    BY Zenon DEF Recover
<1>2. UNCHANGED <<covered, half_erased>> /\ mode = "down"
    BY DEF Recover
<1>3. DeviceRight /\ covered \in Nat /\ history \in [1 .. MaxSeq -> Int]
    BY BoundAssumption DEF Inside, Typed, Traced
<1>4. /\ \A x \in c.run : x \in Slots /\ covered < Seq0(x) /\ Seq0(x) <= c.anchor
      /\ \A x \in Slots : covered < Seq0(x) /\ Seq0(x) <= c.anchor => x \in c.run
      /\ \A x \in Slots : c.anchor < Seq0(x) => x \in c.fragments
      /\ \A x \in Slots : Seq0(x) # c.anchor + 1
      /\ \A x \in c.fragments : c.tail * BlockFrames + c.frames <= x /\ x < ZoneEnd(c) * BlockFrames
      /\ \A n \in Nat : covered < n /\ n <= c.anchor => Here(n)
    BY <1>1, <1>3, RunSeats, AcceptedWalk DEF Acceptable
<1>5. /\ c.anchor \in Nat /\ covered <= c.anchor /\ c.frames \in 0 .. BlockFrames - 1 /\ c.frames \in Nat /\ c.tail \in Nat
      /\ \A i \in 1 .. c.frames : c.tail * BlockFrames + i - 1 \in Slots
  <2>1. /\ c.anchor \in 0 .. MaxSeq /\ covered <= c.anchor /\ c.frames \in 0 .. BlockFrames - 1
        /\ \A i \in 1 .. c.frames : c.tail * BlockFrames + i - 1 \in Slots
        /\ \E v \in Nat : Lies(v, c.tail)
    BY <1>1, <1>3, Surveyed, AcceptedWalk
  <2> QED
    BY <2>1, Sizes, BoundAssumption DEF Lies
<1>6. \A x \in Slots : /\ Current(x) \in Frames /\ Seq0(x) = Current(x)[1] /\ Seq0(x) \in 0 .. MaxSeq /\ Seq0(x) \in Nat
                      /\ Home(Seq0(x), x) /\ Current(x)[2] \in Int
  <2>1. \A x \in Slots : Current(x) \in Frames /\ Home(Current(x)[1], x)
    BY <1>3, CurrentFacts DEF DeviceRight
  <2> QED
    BY <2>1, BoundAssumption DEF Seq0, Frames
<1>7. ASSUME NEW x \in c.run
      PROVE  history'[Seq0(x)] = Current(x)[2]
  <2> DEFINE n == Seq0(x)
             y == CHOOSE z \in c.run : Seq0(z) = n
  <2>1. n \in Nat \ {0} /\ n \in 1 .. MaxSeq
    BY <1>3, <1>4, <1>6
  <2>2. y \in c.run /\ Seq0(y) = n
    BY Zenon
  <2>3. y = Seat(n) /\ x = Seat(n)
    <3> HIDE DEF n, y
    <3>1. x \in Slots /\ y \in Slots /\ Home(n, y) /\ Home(n, x)
      BY <1>4, <1>6, <2>2 DEF n
    <3> QED
      BY <2>1, <3>1, Seats
  <2>4. history'[n] = Current(y)[2]
    BY <1>1, <2>1
  <2> QED
    BY <2>3, <2>4
<1>8. history' \in [1 .. MaxSeq -> Int]
  <2> SUFFICES ASSUME NEW s \in 1 .. MaxSeq PROVE history'[s] \in Int
    BY <1>1
  <2>1. CASE \E x \in c.run : Seq0(x) = s
    BY <1>4, <1>6, <1>7, <2>1
  <2>2. CASE ~ \E x \in c.run : Seq0(x) = s
    <3>1. history'[s] = IF s < seq_next' THEN history[s] ELSE 0
      BY <1>1, <2>2
    <3> QED
      BY <1>3, <3>1
  <2> QED
    BY <2>1, <2>2
<1>9. ASSUME NEW x \in Slots, x \notin c.fragments, covered < Seq0(x)
      PROVE  x \in c.run /\ Seq0(x) < seq_next' /\ Current(x)[2] = history'[Seq0(x)]
  <2>1. Seq0(x) <= c.anchor
    BY <1>4, <1>5, <1>6, <1>9
  <2>2. x \in c.run
    BY <1>4, <1>9, <2>1
  <2> QED
    BY <1>1, <1>5, <1>6, <1>7, <2>1, <2>2
<1>10. Newest'
  <2> SUFFICES ASSUME NEW x \in Slots PROVE Known(Current(x))'
    BY DEF Newest
  <2>1. CASE c.fragments = {} /\ mode' = "up" /\ UNCHANGED platter
    <3>1. Current(x)' = Current(x)
      BY <2>1 DEF Current
    <3> QED
      BY <1>2, <1>6, <1>9, <2>1, <3>1 DEF Known
  <2>2. CASE mode' = "erasing" /\ Erase(c)
    <3>1. Current(x)' = None \/ (Current(x)' = Current(x) /\ x \notin c.fragments)
      BY <1>1, <1>3, <2>2, EraseTraced
    <3>2. CASE Current(x)' = None
      BY <1>2, <1>3, <3>2 DEF Known, None
    <3>3. CASE Current(x)' = Current(x) /\ x \notin c.fragments
      BY <1>2, <1>6, <1>9, <3>3 DEF Known
    <3> QED
      BY <3>1, <3>2, <3>3
  <2> QED
    BY <1>1, <2>1, <2>2
<1>11. Noted'
  <2>1. Len(buf') = c.frames
    BY <1>1, <1>5
  <2>2. ASSUME NEW i \in 1 .. Len(buf') PROVE Known(buf[i])'
    <3> DEFINE y == c.tail * BlockFrames + i - 1
               t == c.tail * BlockFrames
    <3>1. buf'[i] = Current(y) /\ y \in Slots
      BY <1>1, <1>5, <2>1
    <3>2. y \notin c.fragments
      <4>1. t \in Int /\ y = t + i - 1 /\ (y \in c.fragments => t + c.frames <= y)
        BY <1>4, <1>5, Sizes
      <4> HIDE DEF t, y
      <4> QED
        BY <1>5, <2>1, <4>1
    <3> HIDE DEF y
    <3> QED
      BY <1>2, <1>6, <1>9, <3>1, <3>2 DEF Known
  <2> QED
    BY <2>2, RecoverBuffered DEF Noted
<1>12. ASSUME ~ half_erased
       PROVE  faithful' /\ (mode' = "up" => Behind') /\ (mode' = "erasing" => Cut(seq_next - 1)')
  <2>1. Behind
    BY <1>2, <1>12 DEF Traced
  <2>2. PICK k \in Nat : covered <= k /\ Cut(k)
    BY <1>2, <1>12 DEF Traced
  <2>3. \A x \in Slots : covered < Seq0(x) => Seq0(x) # k + 1 /\ (Seq0(x) <= k => Current(x)[2] = history[Seq0(x)])
    <3> SUFFICES ASSUME NEW x \in Slots, covered < Seq0(x)
                 PROVE  Seq0(x) # k + 1 /\ (Seq0(x) <= k => Current(x)[2] = history[Seq0(x)])
      OBVIOUS
    <3>1. platter[x] \in Seq(Frames) /\ platter[x] # <<>>
      BY <1>3 DEF DeviceRight, PlatterRight
    <3>2. Len(platter[x]) \in 1 .. Len(platter[x]) /\ Current(x) = platter[x][Len(platter[x])]
      BY <3>1, LenProperties, EmptySeq DEF Current
    <3> QED
      BY <2>2, <3>2 DEF Cut, Seq0
  <2>4. c.anchor <= k
    <3> SUFFICES ASSUME k < c.anchor PROVE FALSE
      BY <1>5
    <3>1. Here(k + 1) /\ Seat(k + 1) \in Slots
      <4>1. k + 1 \in Nat \ {0} /\ covered < k + 1 /\ k + 1 <= c.anchor
        BY <1>3, <1>5, <2>2
      <4> QED
        BY <1>4, <4>1, Seats
    <3> QED
      BY <1>3, <2>2, <2>3, <3>1 DEF Here
  <2>5. faithful'
    <3>1. \A x \in c.run : Current(x)[2] = history[Seq0(x)]
      BY <1>4, <1>5, <1>6, <2>3, <2>4
    <3> QED
      BY <1>1, <3>1
  <2>6. mode' = "up" => Behind'
    BY <1>1, <1>2, <2>1 DEF Behind
  <2>7. ASSUME mode' = "erasing", NEW x \in Slots, NEW i \in 1 .. Len(platter'[x]), covered < platter'[x][i][1]
        PROVE  /\ platter'[x][i][1] # c.anchor + 1
               /\ platter'[x][i][1] <= c.anchor => platter'[x][i][2] = history'[platter'[x][i][1]]
    <3>1. platter'[x][i] = None \/ (i \in 1 .. Len(platter[x]) /\ platter'[x][i] = platter[x][i])
      BY <1>1, <1>3, <2>7, EraseTraced
    <3>2. platter'[x][i] # None
      BY <1>3, <2>7 DEF None
    <3>3. platter'[x][i] = Current(x)
      <4>1. i \in 1 .. Len(platter[x]) /\ platter'[x][i] = platter[x][i]
        BY <3>1, <3>2
      <4>2. platter[x] \in Seq(Frames) /\ Len(platter[x]) \in Nat
        BY <1>3, LenProperties DEF DeviceRight, PlatterRight
      <4>3. platter[x][i][1] \in Nat
        <5>1. platter[x][i] \in Frames
          BY <4>1, <4>2
        <5> QED
          BY <5>1, BoundAssumption DEF Frames
      <4>4. ~ (i \in 1 .. Len(platter[x]) - 1)
        <5> SUFFICES ASSUME i \in 1 .. Len(platter[x]) - 1 PROVE FALSE
          OBVIOUS
        <5>1. platter[x][i][1] <= covered
          BY <2>1 DEF Behind
        <5> QED
          BY <1>3, <2>7, <4>1, <4>3, <5>1
      <4>5. i = Len(platter[x])
        BY <4>1, <4>2, <4>4
      <4> QED
        BY <4>1, <4>5 DEF Current
    <3>4. covered < Seq0(x) /\ platter'[x][i][1] = Seq0(x)
      BY <1>6, <2>7, <3>3
    <3> QED
      BY <1>4, <1>7, <3>3, <3>4
  <2>8. mode' = "erasing" => Cut(seq_next - 1)'
    <3>1. seq_next' - 1 = c.anchor
      BY <1>1, <1>5
    <3> QED
      BY <1>2, <2>7, <3>1 DEF Cut
  <2> QED
    BY <2>5, <2>6, <2>8
<1>13. faithful' /\ mode' \in {"up", "erasing"}
    BY <1>1, <1>12
<1> QED
    BY <1>2, <1>8, <1>10, <1>11, <1>12, <1>13 DEF Traced

\* A process that ends leaves a device that is safe to walk over, if it was so before.
LEMMA StopTraced ==
    ASSUME Inside, Traced, CloseDevice \/ PowerFailure \/ Kill
    PROVE  Traced'
<1>1. /\ mode' = "down" /\ UNCHANGED <<covered, history, faithful>> /\ mode # "refused"
      /\ Torn \/ UNCHANGED platter
  <2>1. CASE CloseDevice
    BY <2>1 DEF CloseDevice, device, At
  <2>2. CASE PowerFailure
    BY <2>2 DEF PowerFailure
  <2>3. CASE Kill
    BY <2>3 DEF Kill, device
  <2> QED
    BY <2>1, <2>2, <2>3
<1>11. ASSUME ~ half_erased'
       PROVE  ~ half_erased /\ (Torn \/ (UNCHANGED platter /\ mode = "up"))
  <2>1. CASE CloseDevice
    BY <1>11, <2>1, Zenon DEF CloseDevice, device, At
  <2>2. CASE PowerFailure
    BY <1>11, <2>2, Zenon DEF PowerFailure
  <2>3. CASE Kill
    <3>1. ~ half_erased /\ mode # "erasing" /\ UNCHANGED platter
      BY <1>11, <2>3, Zenon DEF Kill, device
    <3>2. mode = "up"
      BY <2>3, <3>1 DEF Kill
    <3> QED
      BY <3>1, <3>2
  <2> QED
    BY <2>1, <2>2, <2>3
<1>2. DeviceRight /\ covered \in Nat /\ seq_next \in Nat /\ mode \in {"up", "erasing", "down"}
    BY <1>1, BoundAssumption DEF Inside, Typed
<1>3. \A x \in Slots : platter[x] \in Seq(Frames) /\ Len(platter[x]) \in Nat \ {0}
  <2>1. \A x \in Slots : platter[x] \in Seq(Frames) /\ platter[x] # <<>>
    BY <1>2 DEF DeviceRight, PlatterRight
  <2> QED
    BY <2>1, LenProperties, EmptySeq
<1>4. ASSUME mode = "up", ~ half_erased
      PROVE  covered <= seq_next - 1 /\ seq_next - 1 \in Nat /\ Behind /\ Cut(seq_next - 1)
  <2>1. Newest /\ Behind
    BY <1>4 DEF Traced, Open
  <2>2. covered < seq_next
    BY <1>4 DEF Inside, Located, Open
  <2>3. ASSUME NEW x \in Slots, NEW i \in 1 .. Len(platter[x]), covered < platter[x][i][1]
        PROVE  /\ platter[x][i][1] # seq_next - 1 + 1
               /\ platter[x][i][1] <= seq_next - 1 => platter[x][i][2] = history[platter[x][i][1]]
    <3>1. platter[x][i] \in Frames
      BY <1>3
    <3>2. platter[x][i][1] \in Nat
      BY <3>1, BoundAssumption DEF Frames
    <3>3. ~ (i \in 1 .. Len(platter[x]) - 1)
      BY <1>2, <2>1, <2>3, <3>2 DEF Behind
    <3>4. i = Len(platter[x])
      BY <1>3, <3>3
    <3>5. platter[x][i] = Current(x)
      BY <3>4 DEF Current
    <3> QED
      BY <1>2, <2>1, <2>3, <3>2, <3>5 DEF Newest, Known
  <2> QED
    BY <1>2, <2>1, <2>2, <2>3 DEF Cut
<1>5. ASSUME ~ half_erased
      PROVE  \E k \in Nat : covered <= k /\ Cut(k)
  <2>1. CASE mode = "up"
    BY <1>4, <1>5, <2>1
  <2>2. CASE mode = "erasing"
    <3>1. covered < seq_next
      BY <2>2 DEF Inside, Located, Open
    <3>2. seq_next - 1 \in Nat /\ covered <= seq_next - 1
      BY <1>2, <3>1
    <3> QED
      BY <1>5, <2>2, <3>2 DEF Traced
  <2>3. CASE mode = "down"
    BY <1>5, <2>3 DEF Traced
  <2> QED
    BY <1>2, <2>1, <2>2, <2>3
<1>6. ASSUME ~ half_erased'
      PROVE  Behind' /\ \E k \in Nat : covered' <= k /\ Cut(k)'
  <2>0. ~ half_erased /\ (Torn \/ (UNCHANGED platter /\ mode = "up"))
    BY <1>6, <1>11
  <2>1. PICK k \in Nat : covered <= k /\ Cut(k)
    BY <1>5, <2>0
  <2>2. CASE UNCHANGED platter /\ mode = "up"
    <3>1. Cut(k)' /\ covered' <= k
      BY <1>1, <2>1, <2>2 DEF Cut
    <3>2. Behind
      BY <2>0, <2>2 DEF Traced
    <3> QED
      BY <1>1, <2>2, <3>1, <3>2 DEF Behind
  <2>3. CASE Torn
    <3>1. ASSUME NEW x \in Slots
          PROVE  \E j \in 1 .. Len(platter[x]) : platter'[x] = <<platter[x][j]>>
      <4>1. PICK pick \in [Unsynced -> 1 .. Most] :
                /\ \A y \in Unsynced : pick[y] <= Len(platter[y])
                /\ platter' = [y \in Slots |->
                                 <<platter[y][IF y \in Unsynced THEN pick[y] ELSE 1]>>]
        BY <2>3 DEF Torn
      <4> QED
        BY <1>3, <4>1
    <3>2. \A x \in Slots : Len(platter'[x]) = 1 /\ \E j \in 1 .. Len(platter[x]) : platter'[x][1] = platter[x][j]
      <4> SUFFICES ASSUME NEW x \in Slots
                   PROVE  Len(platter'[x]) = 1 /\ \E j \in 1 .. Len(platter[x]) : platter'[x][1] = platter[x][j]
        OBVIOUS
      <4>1. PICK j \in 1 .. Len(platter[x]) : platter'[x] = <<platter[x][j]>>
        BY <3>1
      <4>2. Len(platter'[x]) = 1 /\ platter'[x][1] = platter[x][j]
        BY <4>1
      <4> QED
        BY <4>2
    <3>3. Behind'
      <4> SUFFICES ASSUME NEW x \in Slots, NEW i \in 1 .. Len(platter'[x]) - 1 PROVE FALSE
        BY DEF Behind
      <4>1. Len(platter'[x]) = 1
        BY <3>2
      <4> QED
        BY <4>1
    <3>4. Cut(k)'
      <4> SUFFICES ASSUME NEW x \in Slots, NEW i \in 1 .. Len(platter'[x]), covered' < platter'[x][i][1]
                   PROVE  /\ platter'[x][i][1] # k + 1
                          /\ platter'[x][i][1] <= k => platter'[x][i][2] = history'[platter'[x][i][1]]
        BY DEF Cut
      <4>1. i = 1
        BY <3>2
      <4>2. PICK j \in 1 .. Len(platter[x]) : platter'[x][i] = platter[x][j]
        BY <3>2, <4>1
      <4> QED
        BY <1>1, <2>1, <4>2 DEF Cut
    <3> QED
      BY <1>1, <2>1, <3>3, <3>4
  <2> QED
    BY <2>0, <2>2, <2>3
<1> QED
    BY <1>1, <1>6 DEF Traced, Open

\* Every step keeps the record of what is replayed.
LEMMA TracedNext == Inside /\ Traced /\ [Next]_vars => Traced'
<1> SUFFICES ASSUME Inside, Traced, [Next]_vars
             PROVE  Traced'
    OBVIOUS
<1>0. covered \in Nat /\ seq_next \in Nat
    BY BoundAssumption DEF Inside, Typed
<1>1. CASE WriteWal \/ Snapshot \/ Close \/ \E l \in Levels : SetWalLevel(l)
  <2>1. /\ mode = "up" /\ mode' = mode
        /\ UNCHANGED <<platter, buf, seq_next, history, half_erased, faithful, covered>>
    BY <1>1 DEF WriteWal, Snapshot, Close, SetWalLevel, Call, device, ring, ghost, past
  <2> QED
    BY <1>0, <2>1, QuietTraced
<1>2. CASE Retry \/ AdmitReopen \/ SwitchLevel
  <2>1. /\ mode = "up" /\ mode' = mode
        /\ UNCHANGED <<platter, buf, seq_next, history, half_erased, faithful, covered>>
    BY <1>2 DEF Retry, AdmitReopen, SwitchLevel, At, device, ring, ghost, past
  <2> QED
    BY <1>0, <2>1, QuietTraced
<1>3. CASE AdmitSegment \/ BatchTail \/ FlushWrite
  <2>1. /\ mode = "up" /\ mode' = mode /\ UNCHANGED <<seq_next, history, half_erased, faithful, covered>>
        /\ \/ WriteWindowSpan /\ (AdvanceAfterWrite \/ buf' = buf)
           \/ UNCHANGED <<platter, buf>>
    BY <1>3 DEF AdmitSegment, BatchTail, FlushWrite, WriteFails, At, device, ring, past
  <2> QED
    BY <1>0, <2>1, QuietTraced, WrittenTraced
<1>4. CASE AdmitAppend
    BY <1>4, AppendTraced DEF AdmitAppend, At, device
<1>5. CASE BatchSync
  <2>1. /\ mode = "up" /\ mode' = mode /\ UNCHANGED <<buf, seq_next, history, faithful, covered>>
        /\ Sync \/ UNCHANGED <<platter, half_erased>>
    BY <1>5 DEF BatchSync, At, device, ring
  <2> QED
    BY <1>0, <2>1, QuietTraced, SyncedTraced DEF Open
<1>6. CASE BatchedWrite
  <2>1. /\ mode = "up" /\ mode' = mode /\ UNCHANGED <<platter, half_erased, faithful, covered>>
        /\ AppendEntry \/ UNCHANGED <<buf, seq_next, history>>
    BY <1>6 DEF BatchedWrite, At, device, ring
  <2> QED
    BY <1>0, <2>1, QuietTraced, AppendTraced
<1>7. CASE FlushSync
  <2>1. /\ mode = "up" /\ mode' = mode /\ UNCHANGED <<seq_next, history, faithful, covered>>
        /\ (Sync /\ AdvanceAfterWrite) \/ UNCHANGED <<platter, buf, half_erased>>
    BY <1>7 DEF FlushSync, At, device
  <2> QED
    BY <1>0, <2>1, QuietTraced, SyncedTraced DEF Open
<1>8. CASE TakeSnapshot
  <2>1. /\ mode = "up" /\ mode' = mode /\ UNCHANGED <<platter, buf, seq_next, history, half_erased, faithful>>
        /\ covered' = covered \/ covered' = seq_next - 1
    BY <1>8 DEF TakeSnapshot, At, device, past
  <2>2. covered < seq_next
    BY <2>1 DEF Inside, Located, Open
  <2>3. covered' \in Nat /\ covered <= covered'
    BY <1>0, <2>1, <2>2
  <2> QED
    BY <2>1, <2>3, QuietTraced
<1>9. CASE CloseDevice \/ PowerFailure \/ Kill
    BY <1>9, StopTraced
<1>10. CASE Recover
    BY <1>10, RecoverTraced
<1>11. CASE FinishErase
  <2>1. mode = "erasing" /\ mode' = "up" /\ Sync /\ UNCHANGED <<buf, seq_next, history, faithful, covered>>
    BY <1>11 DEF FinishErase, ring
  <2> QED
    BY <2>1, SyncedTraced DEF Open
<1>12. CASE Refuse
  <2>1. mode' = "refused" /\ UNCHANGED <<history, faithful>>
    BY <1>12 DEF Refuse, ghost, past
  <2> QED
    BY <2>1 DEF Traced, Open
<1>13. CASE UNCHANGED vars
  <2>1. UNCHANGED <<platter, buf, seq_next, history, half_erased, faithful, covered, mode>>
    BY <1>13 DEF vars, device, ring, ghost, past
  <2> QED
    BY <2>1 DEF Traced, Open, Noted, Newest, Buffered, Known, Current, Behind, Cut
<1> QED
    BY <1>1, <1>2, <1>3, <1>4, <1>5, <1>6, <1>7, <1>8, <1>9, <1>10, <1>11, <1>12, <1>13 DEF Next, Refused

\* At first there is nothing to replay.
LEMMA TracedInit == Init => Traced
<1> SUFFICES ASSUME Init PROVE Traced
    OBVIOUS
<1>1. /\ platter = [x \in Slots |-> <<None>>] /\ buf = <<>> /\ covered = 0 /\ mode = "up" /\ faithful = TRUE
      /\ history = [s \in 1 .. MaxSeq |-> 0]
    BY DEF Init
<1>2. \A x \in Slots : Len(platter[x]) = 1 /\ platter[x][1] = None
    BY <1>1
<1>3. Newest
    BY <1>1, <1>2 DEF Newest, Known, Current, None
<1>4. Noted
  <2>1. Len(buf) = 0
    BY <1>1
  <2> QED
    BY <2>1 DEF Noted, Buffered
<1>5. Behind
  <2> SUFFICES ASSUME NEW x \in Slots, NEW i \in 1 .. Len(platter[x]) - 1 PROVE FALSE
    BY DEF Behind
  <2>1. Len(platter[x]) = 1
    BY <1>2
  <2> QED
    BY <2>1
<1>6. history \in [1 .. MaxSeq -> Int]
    BY <1>1
<1> QED
    BY <1>1, <1>3, <1>4, <1>5, <1>6 DEF Traced

\* Recover never replays a frame of an earlier life whose number merely fits, for every size of
\* ring, buffer and batch and after any failed writes, kills and power failures; an erasure that was
\* cut off and not made up for is the exception that ReplayFaithful names (Recover, src/wal/wal.cpp).
THEOREM ReplayHolds == Spec => []ReplayFaithful
<1>1. Init => Inside /\ Traced
    BY InsideInit, TracedInit
<1>2. Inside /\ Traced /\ [Next]_vars => Inside' /\ Traced'
    BY InsideNext, TracedNext
<1>3. Traced => ReplayFaithful
    BY DEF Traced, ReplayFaithful
<1> QED
    BY <1>1, <1>2, <1>3, PTL DEF Spec

---------------------------------------------------------------------------
(* Why a device is refused.                                                *)

\* It is about the device, the snapshot and the history.
LEMMA SameHoles == ASSUME UNCHANGED <<platter, covered, history>> PROVE Holes => Holes'
<1>1. \A n : Kept(n)' = Kept(n) /\ Here(n)' = Here(n)
    BY DEF Kept, Here, Seq0, Current, Seat
<1>2. \A n, l : Older(n, l)' = Older(n, l) /\ Near(n, l)' = Near(n, l)
    BY DEF Older, Near, Seat
<1> SUFFICES ASSUME Holes, NEW x \in Slots, NEW i \in 1 .. Len(platter[x]),
                    NEW n \in covered + 1 .. platter[x][i][1] - 1
             PROVE  \/ Kept(n)' \/ Near(n, platter[x][i][1])
                    \/ Older(n, platter[x][i][2])' /\ (i = Len(platter[x]) \/ Here(n)')
    BY DEF Holes, Near, Older, Seat
<1>3. \/ Kept(n) \/ Near(n, platter[x][i][1])
      \/ Older(n, platter[x][i][2]) /\ (i = Len(platter[x]) \/ Here(n))
    BY DEF Holes
<1> QED
    BY <1>1, <1>3 DEF Older

\* A later number lies in no earlier block.
LEMMA LaterBlock ==
    ASSUME NEW a \in Nat, NEW b \in Nat, a <= b
    PROVE  Block(a) <= Block(b) /\ Block(a) \in Nat /\ Block(b) \in Nat
           /\ Block(a) * BlockFrames <= a /\ a < (Block(a) + 1) * BlockFrames
<1> DEFINE p == a \div BlockFrames
           q == b \div BlockFrames
           r == a % BlockFrames
           t == b % BlockFrames
<1>1. /\ p \in Nat /\ r \in 0 .. BlockFrames - 1 /\ a = p * BlockFrames + r
      /\ q \in Nat /\ t \in 0 .. BlockFrames - 1 /\ b = q * BlockFrames + t
    BY Division, Sizes
<1> HIDE DEF p, q, r, t
<1>2. p * BlockFrames \in Int /\ q * BlockFrames \in Int /\ (q + 1) * BlockFrames = q * BlockFrames + BlockFrames
      /\ (p + 1) * BlockFrames = p * BlockFrames + BlockFrames
    BY <1>1, Sizes, Products
<1>3. p * BlockFrames < (q + 1) * BlockFrames /\ p * BlockFrames <= a /\ a < (p + 1) * BlockFrames
    BY <1>1, <1>2, Sizes
<1>4. p <= q
    BY <1>1, <1>3, Factors, Sizes
<1> QED
    BY <1>1, <1>3, <1>4 DEF Block, p, q

\* A number between two that are near is near the second.
LEMMA NearOn ==
    ASSUME NEW n \in Nat \ {0}, NEW m \in Nat, Near(n, m), NEW k \in Nat, n <= k, k < m
    PROVE  Near(k, m)
<1> DEFINE N == RingBlocks * BlockFrames
           y == Seat(n) + (k - n)
<1>1. /\ Seat(n) \in Slots /\ Home(n, Seat(n)) /\ Seat(m) \in Slots
      /\ m - Seat(m) = n - Seat(n) /\ k \in Nat \ {0} /\ N \in Nat /\ Slots = 0 .. N - 1
  <2>1. m \in Nat \ {0} /\ k \in Nat \ {0}
    OBVIOUS
  <2>2. Seat(n) \in Slots /\ Home(n, Seat(n)) /\ Seat(m) \in Slots
    BY <2>1, Seats
  <2>3. Slots = 0 .. N - 1 /\ N \in Nat
    BY Sizes DEF Slots
  <2> HIDE DEF N
  <2>4. m - Seat(m) = n - Seat(n)
    BY <2>2, <2>3 DEF Near
  <2> QED
    BY <2>1, <2>2, <2>3, <2>4
<1> HIDE DEF N
<1>2. y \in Slots /\ Seat(n) <= y
    BY <1>1
<1>3. Home(k, y)
  <2>1. PICK q \in Nat : n - 1 = q * RingBlocks * BlockFrames + Seat(n)
    BY <1>1 DEF Home
  <2> DEFINE p == q * RingBlocks * BlockFrames
             x == Seat(n)
  <2>2. p \in Int /\ x \in Int
    BY <1>1, Sizes, Products
  <2>3. n - 1 = p + x /\ y = x + (k - n)
    BY <2>1
  <2>4. k - 1 = p + y
    <3> HIDE DEF p, x, y
    <3> QED
      BY <2>2, <2>3
  <2> QED
    BY <2>4 DEF Home
<1>4. y = Seat(k)
    BY <1>1, <1>2, <1>3, Seats
<1>5. Block(Seat(n)) <= Block(y) /\ Block(Seat(n)) \in Nat /\ Block(y) \in Nat
    BY <1>1, <1>2, LaterBlock
<1>6. Block(Seat(m)) \in Nat
    BY <1>1, LaterBlock
<1>7. Seat(m) - Seat(k) = m - k
    BY <1>1, <1>4
<1> QED
    BY <1>4, <1>5, <1>6, <1>7, Sizes DEF Near

\* Recover tolerates a frame behind the hole if it is near to it.
LEMMA TolerableNear ==
    ASSUME DeviceRight, covered \in Nat, NEW c, c = Survey, Walkable(c), Live # {},
           NEW x \in Slots, c.anchor < Seq0(x)
    PROVE  /\ Tolerated(c, x) <=> Near(c.anchor + 1, Seq0(x))
           /\ c.anchor \in Nat /\ Seq0(x) \in Nat /\ c.anchor + 1 < Seq0(x) /\ x = Seat(Seq0(x))
<1> DEFINE n == c.anchor + 1
           m == Seq0(x)
           s == c.stop
           z == ZoneEnd(c)
           N == RingBlocks * BlockFrames
           w == BufBlocks * BlockFrames
<1>1. /\ s = Seat(n) /\ c.anchor = covered + c.replayed /\ c.replayed \in Nat \ {0} /\ m # n
    BY RunSeats
<1>2. m \in Nat /\ Home(m, x)
    BY CurrentFacts, BoundAssumption DEF Seq0, Frames, DeviceRight
<1>3. n \in Nat \ {0} /\ m \in Nat \ {0} /\ n < m /\ c.anchor \in Nat
    BY <1>1, <1>2
<1>4. x = Seat(m) /\ s \in Slots /\ Home(n, s)
    BY <1>1, <1>2, <1>3, Seats
<1>5. /\ N \in Nat \ {0} /\ w \in Nat /\ w <= N /\ Slots = 0 .. N - 1
  <2>1. N \in Nat \ {0} /\ w \in Nat /\ Slots = 0 .. N - 1
    BY Sizes DEF Slots
  <2>2. w <= N
    <3>1. BufBlocks <= RingBlocks /\ BufBlocks \in Int /\ RingBlocks \in Int /\ BlockFrames \in Nat
      BY SizeAssumption
    <3> QED
      BY <3>1, Products
  <2> QED
    BY <2>1, <2>2
<1>14. \A q \in Nat : q * RingBlocks * BlockFrames = q * N
    BY Sizes
<1>6. /\ Block(s) \in Nat /\ Block(s) * BlockFrames <= s /\ s < (Block(s) + 1) * BlockFrames
      /\ Block(x) \in Nat /\ Block(x) * BlockFrames <= x /\ x < (Block(x) + 1) * BlockFrames
  <2> HIDE DEF s, N
  <2>1. s \in Nat /\ x \in Nat
    BY <1>4, <1>5
  <2> QED
    BY <2>1, LaterBlock
<1>7. /\ z = Least(Block(s) + BufBlocks, RingBlocks)
      /\ Tolerated(c, x) <=> /\ x >= s /\ x < z * BlockFrames
                             /\ m > covered + c.replayed /\ m <= covered + c.replayed + w
    BY DEF ZoneEnd, Tolerated
<1> HIDE DEF s, z, w, N
<1>8. z \in Nat /\ z <= Block(s) + BufBlocks /\ (z = RingBlocks \/ z = Block(s) + BufBlocks)
    BY <1>6, <1>7, Sizes DEF Least
<1>9. x \in Nat /\ s \in Nat /\ x < N /\ s < N
    BY <1>4, <1>5
<1>10. Block(x) < RingBlocks
  <2>1. Block(x) * BlockFrames < ((RingBlocks - 1) + 1) * BlockFrames
    <3>1. Block(x) * BlockFrames \in Int /\ (RingBlocks - 1) + 1 = RingBlocks
      BY <1>6, Sizes, Products
    <3> QED
      BY <1>5, <1>6, <1>9, <3>1 DEF N
  <2>2. Block(x) <= RingBlocks - 1
    BY <1>6, <2>1, Factors, Sizes
  <2> QED
    BY <1>6, <2>2, Sizes
<1>11. x < z * BlockFrames <=> Block(x) < z
  <2>1. ASSUME x < z * BlockFrames PROVE Block(x) < z
    <3>1. Block(x) * BlockFrames \in Int /\ z * BlockFrames \in Int /\ z - 1 \in Int /\ (z - 1) + 1 = z
      BY <1>6, <1>8, Sizes, Products
    <3>2. Block(x) * BlockFrames < ((z - 1) + 1) * BlockFrames
      BY <1>6, <1>9, <2>1, <3>1
    <3>3. Block(x) <= z - 1
      BY <1>6, <3>1, <3>2, Factors, Sizes
    <3> QED
      BY <1>6, <1>8, <3>3
  <2>2. ASSUME Block(x) < z PROVE x < z * BlockFrames
    <3>1. Block(x) + 1 <= z /\ Block(x) + 1 \in Int /\ z \in Int
      BY <1>6, <1>8, <2>2
    <3>2. (Block(x) + 1) * BlockFrames <= z * BlockFrames
      BY <3>1, Products, Sizes
    <3>3. (Block(x) + 1) * BlockFrames \in Int /\ z * BlockFrames \in Int
      BY <3>1, Products, Sizes
    <3> QED
      BY <1>6, <1>9, <3>2, <3>3
  <2> QED
    BY <2>1, <2>2
<1> DEFINE u == covered + c.replayed
<1>15. u \in Nat /\ n = u + 1
    BY <1>1
<1>16. N \in Nat /\ w \in Nat /\ w <= N /\ n \in Nat /\ m \in Nat /\ n < m
    BY <1>3, <1>5
<1>12. ASSUME Tolerated(c, x)
       PROVE  Near(n, m)
  <2>1. x >= s /\ Block(x) < z /\ m <= covered + c.replayed + w
    BY <1>7, <1>11, <1>12
  <2>12. (\E q \in Nat : n - 1 = q * N + s) /\ (\E k \in Nat : m - 1 = k * N + x)
    <3> HIDE DEF n, m
    <3>1. n # 0 /\ m # 0
      BY <1>3
    <3> QED
      BY <1>2, <1>4, <1>14, <3>1 DEF Home
  <2>2. PICK q \in Nat : n - 1 = q * N + s
    BY <2>12
  <2>3. PICK k \in Nat : m - 1 = k * N + x
    BY <2>12
  <2> DEFINE a == q * N
             b == k * N
  <2>4. a \in Int /\ b \in Int /\ (q + 1) * N = a + N /\ (k + 1) * N = b + N
    BY <1>5, Products
  <2>5. n - 1 = a + s /\ m - 1 = b + x
    BY <2>2, <2>3
  <2>6. a < (k + 1) * N /\ b < (q + 1) * N
    <3> HIDE DEF a, b
    <3>1. m <= u + w /\ x >= s
      BY <2>1
    <3> HIDE DEF u, n, m
    <3>2. m - n < w
      BY <1>15, <1>16, <3>1
    <3>3. a < b + N
      BY <1>9, <1>16, <2>4, <2>5
    <3>4. b < a + N
      BY <1>9, <1>16, <2>4, <2>5, <3>1, <3>2
    <3> QED
      BY <2>4, <3>3, <3>4
  <2>7. q <= k /\ k <= q
    BY <1>5, <2>6, Factors
  <2>8. q = k
    BY <2>7
  <2>9. x - s = m - n
    <3>1. a = b
      BY <2>8
    <3> HIDE DEF a, b, n, m
    <3> QED
      BY <1>9, <1>16, <2>4, <2>5, <3>1
  <2>10. Block(x) < Block(s) + BufBlocks
    BY <1>6, <1>8, <2>1, Sizes
  <2> QED
    BY <1>1, <1>3, <1>4, <2>9, <2>10 DEF Near
<1>13. ASSUME Near(n, m)
       PROVE  Tolerated(c, x)
  <2>1. x - s = m - n /\ Block(x) < Block(s) + BufBlocks
    BY <1>1, <1>4, <1>13 DEF Near
  <2>2. x >= s
    BY <1>3, <1>9, <2>1
  <2>3. x < z * BlockFrames
    BY <1>8, <1>10, <1>11, <2>1
  <2>4. x < Block(s) * BlockFrames + w
    <3>1. Block(x) + 1 <= Block(s) + BufBlocks /\ Block(x) + 1 \in Int /\ Block(s) + BufBlocks \in Int
      BY <1>6, <2>1, Sizes
    <3>2. (Block(x) + 1) * BlockFrames <= (Block(s) + BufBlocks) * BlockFrames
      BY <3>1, Products, Sizes
    <3>3. (Block(s) + BufBlocks) * BlockFrames = Block(s) * BlockFrames + w
      BY <1>6, Products, Sizes DEF w
    <3>4. (Block(x) + 1) * BlockFrames \in Int /\ Block(s) * BlockFrames \in Int
      BY <1>6, Products, Sizes
    <3> QED
      BY <1>5, <1>6, <1>9, <3>2, <3>3, <3>4
  <2>5. m - n < w
    <3> DEFINE b == Block(s) * BlockFrames
    <3>1. b \in Int /\ b <= s /\ x < b + w
      BY <1>6, <2>4, Products, Sizes
    <3> HIDE DEF b, n, m
    <3>2. x - s < w
      BY <1>9, <1>16, <3>1
    <3> QED
      BY <2>1, <3>2
  <2>6. m > u /\ m <= u + w
    <3> HIDE DEF u, n, m
    <3> QED
      BY <1>15, <1>16, <2>5
  <2> QED
    BY <1>7, <2>2, <2>3, <2>6
<1> QED
    BY <1>3, <1>4, <1>12, <1>13 DEF n, m

\* The walk counts each frame once.
LEMMA WalkCount ==
    ASSUME DeviceRight, covered \in Nat, NEW c, c = Survey, Walkable(c), Live # {}
    PROVE  c.replayed + Cardinality(c.fragments) = Cardinality(c.live)
<1>1. /\ c.first \in Slots /\ c.replayed \in Nat \ {0}
      /\ \A n \in 0 .. c.replayed - 1 : Seq0(Ahead(c.first, n)) = covered + 1 + n
    BY Walked
<1>2. c.run = {Ahead(c.first, n) : n \in 0 .. c.replayed - 1} /\ c.live = Live /\ c.fragments = c.live \ c.run
    BY DEF Survey
<1>3. c.run \subseteq c.live
  <2>1. \A x \in c.run : x \in Slots /\ covered < Seq0(x)
    BY RunSeats
  <2>2. \A x \in Slots : Seq0(x) \in Nat
    BY CurrentFacts, BoundAssumption DEF Seq0, Frames, DeviceRight
  <2> QED
    BY <1>2, <2>1, <2>2 DEF Live, Valid
<1> DEFINE S == 0 .. c.replayed - 1
           f == [n \in S |-> Ahead(c.first, n)]
<1>4. IsFiniteSet(S) /\ Cardinality(S) = c.replayed
  <2>1. 0 \in Int /\ c.replayed - 1 \in Int
    BY <1>1
  <2>2. IsFiniteSet(S) /\ Cardinality(S) = IF 0 > c.replayed - 1 THEN 0 ELSE c.replayed - 1 - 0 + 1
    BY <2>1, FS_Interval
  <2> QED
    BY <1>1, <2>2
<1>5. f \in Surjection(S, c.run)
    BY <1>2 DEF Surjection
<1>6. f \in Injection(S, c.run)
  <2>1. \A a, b \in S : f[a] = f[b] => a = b
    <3> SUFFICES ASSUME NEW a \in S, NEW b \in S, f[a] = f[b] PROVE a = b
      OBVIOUS
    <3>1. covered + 1 + a = covered + 1 + b
      BY <1>1
    <3> QED
      BY <3>1
  <2> QED
    BY <1>5, <2>1 DEF Surjection, Injection, IsInjective
<1>7. Cardinality(c.run) = c.replayed
  <2> HIDE DEF S, f
  <2> QED
    BY <1>4, <1>5, <1>6, FS_Surjection
<1>8. IsFiniteSet(c.live)
  <2>1. RingBlocks * BlockFrames - 1 \in Int /\ 0 \in Int
    BY Sizes
  <2>2. IsFiniteSet(0 .. RingBlocks * BlockFrames - 1)
    BY <2>1, FS_Interval
  <2>3. Live \in SUBSET Slots /\ IsFiniteSet(Slots)
    BY <2>2 DEF Live, Valid, Slots
  <2> QED
    BY <1>2, <2>3, FS_Subset
<1>9. Cardinality(c.live \ c.run) = Cardinality(c.live) - Cardinality(c.live \cap c.run)
    BY <1>8, FS_Difference
<1>10. c.live \cap c.run = c.run /\ Cardinality(c.live) \in Nat
    BY <1>3, <1>8, FS_CardinalityType
<1> HIDE DEF S, f
<1>11. Cardinality(c.live \cap c.run) = c.replayed
    BY <1>7, <1>10
<1>12. Cardinality(c.fragments) = Cardinality(c.live) - c.replayed
    BY <1>2, <1>9, <1>11
<1> QED
    BY <1>1, <1>10, <1>12

\* The walk crosses the blocks from head to tail.
LEMMA WalkCrosses ==
    ASSUME DeviceRight, covered \in Nat, NEW c, c = Survey, Walkable(c), Live # {}
    PROVE  (c.tail + RingBlocks - c.head) % RingBlocks =
               Block(c.first + c.replayed - 1) - Block(c.first) + 1 - (IF c.frames > 0 THEN 1 ELSE 0)
<1>1. /\ c.anchor \in Nat /\ covered <= c.anchor /\ Within(c.anchor, covered)
      /\ c.frames \in 0 .. BlockFrames - 1
      /\ \E v, h \in Nat : /\ Lies(v, c.tail) /\ Lies(h, c.head)
                           /\ v * BlockFrames + c.frames = c.anchor
                           /\ h * BlockFrames <= covered /\ covered < (h + 1) * BlockFrames
    BY Surveyed, BoundAssumption
<1>2. PICK v \in Nat, h \in Nat : /\ Lies(v, c.tail) /\ Lies(h, c.head)
                                  /\ v * BlockFrames + c.frames = c.anchor
                                  /\ h * BlockFrames <= covered /\ covered < (h + 1) * BlockFrames
    BY <1>1
<1>3. h <= v /\ v - h <= RingBlocks - 1
  <2>1. /\ h <= v /\ WindowAt(c.tail, c.head) \in 0 .. BufBlocks
        /\ WindowAt(c.tail, c.head) <= RingBlocks - 1 - (v - h)
    BY <1>1, <1>2, PlacedAgain
  <2> QED
    BY <2>1, Sizes
<1>4. (c.tail + RingBlocks - c.head) % RingBlocks = v - h
    BY <1>2, <1>3, Distance
<1>5. /\ c.first \in Slots /\ c.replayed \in Nat \ {0} /\ c.anchor = covered + c.replayed
      /\ c.first = Seat(covered + 1)
    BY Walked, RunSeats
<1> DEFINE g == Block(c.first)
           r == c.first % BlockFrames
<1>6. PICK u \in Nat : covered = u * BlockFrames + r
  <2>1. covered + 1 \in Nat \ {0}
    OBVIOUS
  <2>2. Home(covered + 1, c.first)
    BY <1>5, <2>1, Seats
  <2>3. \E u \in Nat : (covered + 1) - 1 = u * BlockFrames + r
    BY <1>5, <2>1, <2>2, BlockOf
  <2>4. (covered + 1) - 1 = covered
    OBVIOUS
  <2> QED
    BY <2>3, <2>4
<1>7. g \in Nat /\ r \in 0 .. BlockFrames - 1 /\ c.first = g * BlockFrames + r /\ c.first \in Nat
  <2>1. c.first \in Nat
    BY <1>5, Sizes DEF Slots
  <2> QED
    BY <2>1, Division, Sizes DEF Block
<1> HIDE DEF g, r
<1> DEFINE gb == g * BlockFrames
           hb == h * BlockFrames
           vb == v * BlockFrames
           ub == u * BlockFrames
<1>8. gb \in Int /\ hb \in Int /\ vb \in Int /\ ub \in Int
      /\ (h + 1) * BlockFrames = hb + BlockFrames /\ (u + 1) * BlockFrames = ub + BlockFrames
    BY <1>7, Sizes, Products
<1>9. u = h
  <2>1. vb + c.frames = c.anchor /\ hb <= covered /\ covered < hb + BlockFrames /\ covered = ub + r
    BY <1>2, <1>6, <1>8
  <2>2. hb < (u + 1) * BlockFrames /\ ub < (h + 1) * BlockFrames
    <3> HIDE DEF hb, ub
    <3> QED
      BY <1>7, <1>8, <2>1, Sizes
  <2>3. h <= u /\ u <= h
    BY <2>2, Factors, Sizes
  <2> QED
    BY <2>3
<1> DEFINE p == c.first + c.replayed - 1
           d == (g + v) - h
           db == d * BlockFrames
<1>10. db = gb + vb - hb
  <2>1. g + v \in Int /\ (g + v) * BlockFrames = gb + vb
    BY <1>7, Sizes, Products
  <2>2. ((g + v) - h) * BlockFrames = (g + v) * BlockFrames - hb
    BY <2>1, Sizes, Products
  <2>3. db = ((g + v) - h) * BlockFrames
    OBVIOUS
  <2> HIDE DEF db, gb, hb, vb, d
  <2> QED
    BY <1>8, <2>1, <2>2, <2>3
<1>11. p = db + c.frames - 1
  <2>1. covered = hb + r /\ c.first = gb + r /\ c.anchor = vb + c.frames
    BY <1>2, <1>6, <1>7, <1>9
  <2> HIDE DEF gb, hb, vb, db
  <2> QED
    BY <1>1, <1>5, <1>7, <1>8, <1>10, <2>1
<1>12. d \in Nat
    BY <1>3, <1>7
<1>13. CASE c.frames > 0
  <2>1. c.frames - 1 \in 0 .. BlockFrames - 1
    BY <1>1, <1>13, Sizes
  <2>2. Block(p) = d
    <3>1. (d * BlockFrames + (c.frames - 1)) \div BlockFrames = d
      BY <1>12, <2>1, Quotient, Sizes
    <3>2. p = d * BlockFrames + (c.frames - 1)
      <4>1. db \in Int /\ c.frames \in Int
        BY <1>1, <1>8, <1>10
      <4> HIDE DEF p, d
      <4> QED
        BY <1>11, <4>1
    <3> QED
      BY <3>1, <3>2 DEF Block
  <2>3. Block(p) - g + 1 - 1 = v - h
    BY <1>7, <2>2
  <2> QED
    BY <1>4, <1>13, <2>3 DEF g
<1>14. CASE ~ (c.frames > 0)
  <2>1. c.frames = 0 /\ BlockFrames - 1 \in 0 .. BlockFrames - 1
    BY <1>1, <1>14, Sizes
  <2>2. d - 1 \in Nat
    <3>1. hb < vb
      <4>1. vb + c.frames = c.anchor /\ hb <= covered
        BY <1>2
      <4> HIDE DEF hb, vb
      <4> QED
        BY <1>5, <1>8, <2>1, <4>1
    <3>2. v # h
      BY <1>8, <3>1
    <3> QED
      BY <1>3, <1>7, <3>2
  <2>3. Block(p) = d - 1
    <3>1. ((d - 1) * BlockFrames + (BlockFrames - 1)) \div BlockFrames = d - 1
      BY <2>1, <2>2, Quotient, Sizes
    <3>2. p = (d - 1) * BlockFrames + (BlockFrames - 1)
      <4>1. db \in Int /\ BlockFrames \in Int /\ (d - 1) * BlockFrames = db - BlockFrames
        <5>1. d \in Int /\ 1 \in Int /\ 1 * BlockFrames = BlockFrames
          BY <1>12, Sizes
        <5> HIDE DEF d
        <5> QED
          BY <5>1, Sizes, Products
      <4> HIDE DEF p, d
      <4> QED
        BY <1>11, <2>1, <4>1
    <3> QED
      BY <3>1, <3>2 DEF Block
  <2>4. Block(p) - g + 1 - 0 = v - h
    BY <1>7, <2>3
  <2> QED
    BY <1>4, <1>14, <2>4 DEF g
<1> QED
    BY <1>13, <1>14

\* What a kept number says of the device.
LEMMA KeptHere ==
    ASSUME DeviceRight, NEW n \in Nat \ {0}, Kept(n)
    PROVE  Here(n) /\ ~ Missing(n) /\ Seat(n) \in Slots
<1>1. Seat(n) \in Slots
    BY Seats
<1>2. platter[Seat(n)] \in Seq(Frames) /\ platter[Seat(n)] # <<>>
    BY <1>1 DEF DeviceRight, PlatterRight
<1>3. Len(platter[Seat(n)]) \in 1 .. Len(platter[Seat(n)])
    BY <1>2, LenProperties, EmptySeq
<1>4. Here(n)
    BY <1>3 DEF Kept, Here, Seq0, Current
<1> QED
    BY <1>1, <1>4 DEF Here, Missing

\* A walk that does not start: the first number is nowhere.
LEMMA NoStart ==
    ASSUME DeviceRight, covered \in Nat, NEW c, c = Survey, Live # {}, ~ (c.replayed > 0)
    PROVE  Missing(covered + 1)
<1> DEFINE live   == Live
           first  == CHOOSE x \in live : \A y \in live :
                       Seq0(x) < Seq0(y) \/ (Seq0(x) = Seq0(y) /\ x <= y)
           broken == {n \in 0 .. Cardinality(Slots) - 1 : Seq0(Ahead(first, n)) # covered + 1 + n}
           replayed == IF live = {} THEN 0
                       ELSE IF broken = {} THEN Cardinality(Slots)
                       ELSE CHOOSE n \in broken : \A m \in broken : n <= m
           z == RingBlocks * BlockFrames
<1>1. c.replayed = replayed
    BY DEF Survey
<1>2. live # {} /\ live \subseteq Slots /\ \A x \in Slots : Seq0(x) \in Nat
  <2>1. \A x \in Slots : Seq0(x) \in Nat
    BY CurrentFacts, BoundAssumption DEF Seq0, Frames, DeviceRight
  <2> QED
    BY <2>1 DEF Live, Valid
<1>3. first \in live /\ \A y \in live : Seq0(first) <= Seq0(y)
  <2>1. \E x \in live : \A y \in live : Seq0(x) < Seq0(y) \/ (Seq0(x) = Seq0(y) /\ x <= y)
    <3>1. live \in SUBSET Slots
      BY <1>2
    <3> HIDE DEF live
    <3> QED
      BY <1>2, <3>1, FirstAndNewest DEF DeviceRight
  <2>2. first \in live /\ \A y \in live : Seq0(first) < Seq0(y) \/ (Seq0(first) = Seq0(y) /\ first <= y)
    BY <2>1
  <2> HIDE DEF first, live
  <2> QED
    BY <1>2, <2>2
<1>4. z \in Nat \ {0} /\ Cardinality(Slots) = z
  <2>1. z \in Nat \ {0} /\ z - 1 \in Int /\ 0 \in Int
    BY Sizes
  <2> HIDE DEF z
  <2>2. Cardinality(0 .. z - 1) = IF 0 > z - 1 THEN 0 ELSE z - 1 - 0 + 1
    BY <2>1, FS_Interval
  <2> QED
    BY <2>1, <2>2 DEF Slots, z
<1> HIDE DEF z, first
<1>5. broken # {}
  <2> SUFFICES ASSUME broken = {} PROVE FALSE
    OBVIOUS
  <2>1. replayed = z
    BY <1>2, <1>4
  <2> QED
    BY <1>1, <1>4, <2>1
<1>6. replayed = CHOOSE n \in broken : \A m \in broken : n <= m
  BY <1>2, <1>5
<1>7. broken \subseteq Nat
  BY <1>4
<1>8. 0 \in broken => Seq0(Ahead(first, 0)) # covered + 1
  OBVIOUS
<1>9. replayed \in broken
  <2> HIDE DEF broken, replayed
  <2>1. \E n \in broken : \A m \in broken : n <= m
    BY <1>5, <1>7, LeastMember
  <2> QED
    BY <1>6, <2>1
<1>10. replayed = 0
  <2> HIDE DEF broken, replayed
  <2> QED
    BY <1>1, <1>7, <1>9
<1>11. Seq0(first) # covered + 1
  <2>1. Ahead(first, 0) = first
    BY <1>2, <1>3, Walk
  <2> QED
    BY <1>8, <1>9, <1>10, <2>1
<1> SUFFICES ASSUME NEW x \in Slots, Seq0(x) = covered + 1 PROVE FALSE
    BY DEF Missing
<1>12. x \in live
    BY DEF Live, Valid
<1>13. covered < Seq0(first)
    BY <1>3 DEF Live
<1> QED
    BY <1>2, <1>3, <1>11, <1>12, <1>13

\* A snapshot beyond every frame of the ring.
LEMMA BeyondRing ==
    ASSUME Inside, Lasting, Anchored, covered > 0, \A x \in Slots : Seq0(x) < covered
    PROVE  Explained
<1>1. DeviceRight /\ covered \in Nat /\ promised \in Nat
    BY BoundAssumption DEF Inside, Typed
<1>2. \A x \in Slots : Seq0(x) \in Nat
    BY <1>1, CurrentFacts, BoundAssumption DEF Seq0, Frames, DeviceRight
<1>3. ASSUME NEW n \in Nat, Kept(n), covered <= n PROVE FALSE
  <2>1. Here(n) /\ Seat(n) \in Slots
    BY <1>1, <1>3, KeptHere
  <2> QED
    BY <1>1, <1>3, <2>1 DEF Here
<1>4. ~ (promised > covered)
  <2> SUFFICES ASSUME promised > covered PROVE FALSE
    OBVIOUS
  <2>1. Kept(promised)
    BY <1>1 DEF Lasting
  <2> QED
    BY <1>1, <1>3, <2>1
<1>5. promised # covered
  <2> SUFFICES ASSUME promised = covered PROVE FALSE
    OBVIOUS
  <2>1. Kept(covered) \/ Kept(covered + 1)
    BY DEF Anchored
  <2> QED
    BY <1>1, <1>3, <2>1
<1> QED
    BY <1>1, <1>4, <1>5 DEF Explained

\* A device that is refused.
LEMMA RefusalExplained ==
    ASSUME Inside, Lasting, Anchored, faults = 0 => Holes, NEW c, c = Survey, ~ Acceptable(c)
    PROVE  Explained
<1>1. DeviceRight /\ covered \in Nat /\ promised \in Nat /\ faults \in Nat
    BY BoundAssumption DEF Inside, Typed
<1>2. c.valid = Valid /\ c.live = Live /\ Live \subseteq Valid /\ Valid \subseteq Slots /\ c.fragments = Live \ c.run
    BY DEF Survey, Live, Valid
<1>3. \A x \in Slots : Seq0(x) \in Nat
    BY <1>1, CurrentFacts, BoundAssumption DEF Seq0, Frames, DeviceRight
<1>4. \A x \in Slots : (x \in Live <=> covered < Seq0(x)) /\ (x \in Valid <=> Seq0(x) # 0)
    BY <1>1, <1>3 DEF Live, Valid
<1>20. RingBlocks % RingBlocks = 0 /\ Cardinality({}) = 0 /\ RingBlocks \in Nat
  <2>1. RingBlocks \in Nat \ {0} /\ 0 \in 0 .. RingBlocks - 1 /\ 1 * RingBlocks + 0 = RingBlocks /\ 1 \in Nat
    BY Sizes
  <2>2. (1 * RingBlocks + 0) % RingBlocks = 0
    BY <2>1, Quotient
  <2> QED
    BY <2>1, <2>2, FS_EmptySet
<1>5. CASE Valid = {}
  <2>1. c.tail = 0 /\ c.head = 0 /\ c.anchor = 0 /\ Live = {} /\ c.replayed = 0
    BY <1>2, <1>5 DEF Survey
  <2>2. \A x \in Slots : Seq0(x) = 0
    BY <1>4, <1>5
  <2>3. CASE covered = 0
    <3>1. SelfCheck(c)
      BY <1>2, <1>20, <2>1, <2>3 DEF SelfCheck
    <3>2. c.fragments = {} /\ c.live = {}
      BY <1>2, <2>1
    <3> QED
      BY <2>3, <3>1, <3>2 DEF Acceptable
  <2>4. CASE covered > 0
    BY <2>2, <2>4, BeyondRing
  <2> QED
    BY <1>1, <2>3, <2>4
<1>6. CASE Valid # {} /\ Live = {}
  <2>1. CASE covered <= c.anchor
    <3>1. Walkable(c)
      <4>1. c.anchor >= covered
        BY <2>1
      <4> QED
        BY <1>2, <1>6, <4>1 DEF Walkable
    <3>2. c.anchor = covered /\ \E v \in Nat : Lies(v, c.tail)
      BY <1>1, <1>6, <3>1, Surveyed
    <3>3. c.tail \in Nat /\ c.head = c.tail /\ c.replayed = 0
      <4>1. c.tail \in Nat
        BY <3>2, Sizes DEF Lies
      <4>2. c.head = c.tail /\ c.replayed = 0
        BY <1>6 DEF Survey
      <4> QED
        BY <4>1, <4>2
    <3>4. SelfCheck(c)
      <4>1. c.tail + RingBlocks - c.head = RingBlocks
        BY <1>20, <3>3
      <4>2. c.fragments = {} /\ c.live = {} /\ c.anchor >= covered
        BY <1>1, <1>2, <1>6, <3>2
      <4> QED
        BY <1>20, <3>3, <4>1, <4>2 DEF SelfCheck
    <3>5. c.fragments = {} /\ c.live = {}
      BY <1>2, <1>6
    <3> QED
      BY <1>2, <1>6, <3>4, <3>5 DEF Acceptable
  <2>2. CASE ~ (covered <= c.anchor)
    <3> DEFINE valid  == Valid
               newest == CHOOSE x \in valid : \A y \in valid :
                       Seq0(x) > Seq0(y) \/ (Seq0(x) = Seq0(y) /\ x <= y)
    <3>1. c.anchor = Seq0(newest)
      BY <1>6 DEF Survey
    <3>2. newest \in valid /\ \A y \in valid : Seq0(y) <= Seq0(newest)
      <4>1. \E x \in valid : \A y \in valid : Seq0(x) > Seq0(y) \/ (Seq0(x) = Seq0(y) /\ x <= y)
        <5>1. valid \in SUBSET Slots /\ valid # {}
          BY <1>2, <1>6
        <5> HIDE DEF valid
        <5> QED
          BY <1>1, <5>1, FirstAndNewest DEF DeviceRight
      <4>2. newest \in valid /\ \A y \in valid : Seq0(newest) > Seq0(y) \/ (Seq0(newest) = Seq0(y) /\ newest <= y)
        BY <4>1
      <4> HIDE DEF newest
      <4>3. \A y \in valid : Seq0(y) \in Nat
        BY <1>2, <1>3
      <4> QED
        BY <4>2, <4>3
    <3> HIDE DEF newest
    <3>3. newest \in Slots
      BY <1>2, <3>2
    <3>4. \A x \in Slots : Seq0(x) < covered
      BY <1>1, <1>3, <1>4, <2>2, <3>1, <3>2, <3>3
    <3>5. covered > 0
      BY <1>1, <1>3, <3>3, <3>4
    <3> QED
      BY <3>4, <3>5, BeyondRing
  <2> QED
    BY <2>1, <2>2
<1>7. CASE Live # {} /\ ~ (c.replayed > 0)
  <2>1. Missing(covered + 1)
    BY <1>1, <1>7, NoStart
  <2>2. promised <= covered
    <3> SUFFICES ASSUME promised > covered PROVE FALSE
      BY <1>1
    <3>1. Kept(covered + 1) /\ covered + 1 \in Nat \ {0}
      BY <1>1 DEF Lasting
    <3> QED
      BY <1>1, <2>1, <3>1, KeptHere
  <2> QED
    BY <1>7, <2>1, <2>2 DEF Explained
<1>8. CASE Live # {} /\ c.replayed > 0
  <2>1. Walkable(c)
    <3>1. Valid # {}
      BY <1>2, <1>8
    <3> QED
      BY <1>2, <1>8, <3>1 DEF Walkable
  <2>2. /\ \A x \in Slots : covered < Seq0(x) /\ Seq0(x) <= c.anchor => x \in c.run
        /\ \A x \in Slots : Seq0(x) # c.anchor + 1
        /\ c.anchor = covered + c.replayed /\ c.replayed \in Nat \ {0}
    BY <1>1, <1>8, <2>1, RunSeats
  <2>3. PICK x \in c.fragments : ~ Tolerated(c, x)
    <3> SUFFICES ASSUME \A x \in c.fragments : Tolerated(c, x) PROVE FALSE
      OBVIOUS
    <3>1. (c.tail + RingBlocks - c.head) % RingBlocks =
               Block(c.first + c.replayed - 1) - Block(c.first) + 1 - (IF c.frames > 0 THEN 1 ELSE 0)
      BY <1>1, <1>8, <2>1, WalkCrosses
    <3>2. c.replayed + Cardinality(c.fragments) = Cardinality(c.live)
      BY <1>1, <1>8, <2>1, WalkCount
    <3>3. c.anchor >= covered /\ c.live # {} /\ c.valid # {}
      BY <1>1, <1>2, <1>8, <2>2
    <3>4. SelfCheck(c)
      <4> DEFINE crossed == Block(c.first + c.replayed - 1) - Block(c.first) + 1
                 gone == (c.tail + RingBlocks - c.head) % RingBlocks
      <4>1. gone = crossed - (IF c.frames > 0 THEN 1 ELSE 0)
        <5> DEFINE p == Block(c.first + c.replayed - 1)
                   q == Block(c.first)
        <5>1. gone = (p - q) + (1 - (IF c.frames > 0 THEN 1 ELSE 0)) /\ crossed = (p - q) + 1
          BY <3>1
        <5>2. p \in Nat /\ q \in Nat
          <6>1. c.first \in Slots /\ c.replayed \in Nat \ {0}
            BY <1>1, <1>8, <2>1, Walked
          <6>2. c.first \in Nat /\ c.first + c.replayed - 1 \in Nat
            BY <6>1, Sizes DEF Slots
          <6> QED
            BY <6>2, LaterBlock
        <5> HIDE DEF p, q, crossed, gone
        <5> QED
          BY <5>1, <5>2
      <4> HIDE DEF crossed, gone
      <4>2. gone = IF c.live = {} THEN 0 ELSE crossed - (IF c.frames > 0 THEN 1 ELSE 0)
        BY <3>3, <4>1
      <4> QED
        BY <3>2, <3>3, <4>2 DEF SelfCheck, crossed, gone
    <3> QED
      BY <1>8, <3>3, <3>4 DEF Acceptable
  <2>4. x \in Live /\ x \in Slots /\ c.anchor < Seq0(x)
    BY <1>1, <1>2, <1>3, <1>4, <2>2
  <2> DEFINE n == c.anchor + 1
  <2>5. ~ Near(n, Seq0(x)) /\ n < Seq0(x) /\ n \in Nat \ {0}
    BY <1>1, <1>8, <2>1, <2>3, <2>4, TolerableNear
  <2>6. n \in covered + 1 .. Seq0(x) - 1 /\ covered < n
    BY <1>1, <1>3, <2>2, <2>4, <2>5
  <2>7. Missing(n)
    BY <2>2 DEF Missing
  <2> HIDE DEF n
  <2>8. ~ Kept(n)
    BY <1>1, <2>5, <2>7, KeptHere
  <2>9. n > promised
    BY <1>1, <2>5, <2>6, <2>8 DEF Lasting
  <2>10. history[n] < Current(x)[2] \/ faults > 0
    <3> SUFFICES ASSUME faults = 0 PROVE history[n] < Current(x)[2]
      BY <1>1
    <3>1. platter[x] \in Seq(Frames) /\ platter[x] # <<>>
      BY <1>1, <2>4 DEF DeviceRight, PlatterRight
    <3>2. Len(platter[x]) \in 1 .. Len(platter[x]) /\ Current(x) = platter[x][Len(platter[x])]
      BY <3>1, LenProperties, EmptySeq DEF Current
    <3>3. Older(n, Current(x)[2])
      BY <2>4, <2>5, <2>6, <2>8, <3>2 DEF Holes, Seq0
    <3> QED
      BY <3>3 DEF Older
  <2> QED
    BY <2>4, <2>6, <2>7, <2>9, <2>10 DEF Explained
<1> QED
    BY <1>5, <1>6, <1>7, <1>8

\* The contents of a slot.
LEMMA Contents ==
    ASSUME DeviceRight, NEW x \in Slots
    PROVE  /\ Len(platter[x]) \in Nat \ {0} /\ Len(platter[x]) \in 1 .. Len(platter[x])
           /\ Current(x) = platter[x][Len(platter[x])]
           /\ \A i \in 1 .. Len(platter[x]) :
                  /\ platter[x][i] \in Frames /\ Home(platter[x][i][1], x)
                  /\ platter[x][i][1] \in Nat /\ platter[x][i][1] <= MaxSeq /\ platter[x][i][2] \in Nat
<1>1. platter[x] \in Seq(Frames) /\ platter[x] # <<>> /\ Len(platter[x]) \in Nat
    BY LenProperties DEF DeviceRight, PlatterRight
<1>2. Len(platter[x]) \in Nat \ {0}
    BY <1>1, EmptySeq
<1>3. \A i \in 1 .. Len(platter[x]) : platter[x][i] \in Frames /\ Home(platter[x][i][1], x)
    BY <1>1 DEF DeviceRight, PlatterRight
<1>4. \A f \in Frames : f[1] \in Nat /\ f[1] <= MaxSeq /\ f[2] \in Nat
    BY BoundAssumption DEF Frames
<1> QED
    BY <1>2, <1>3, <1>4 DEF Current

\* The contents of a slot after a step.
LEMMA ContentsAfter ==
    ASSUME DeviceRight', NEW x \in Slots
    PROVE  /\ Len(platter'[x]) \in Nat \ {0} /\ Len(platter'[x]) \in 1 .. Len(platter'[x])
           /\ \A i \in 1 .. Len(platter'[x]) :
                  /\ platter'[x][i] \in Frames /\ Home(platter'[x][i][1], x)
                  /\ platter'[x][i][1] \in Nat /\ platter'[x][i][1] <= MaxSeq /\ platter'[x][i][2] \in Nat
<1>1. platter'[x] \in Seq(Frames) /\ platter'[x] # <<>> /\ Len(platter'[x]) \in Nat
    BY LenProperties DEF DeviceRight, PlatterRight
<1>2. Len(platter'[x]) \in Nat \ {0}
    BY <1>1, EmptySeq
<1>3. \A i \in 1 .. Len(platter'[x]) : platter'[x][i] \in Frames /\ Home(platter'[x][i][1], x)
    BY <1>1 DEF DeviceRight, PlatterRight
<1>4. \A f \in Frames : f[1] \in Nat /\ f[1] <= MaxSeq /\ f[2] \in Nat
    BY BoundAssumption DEF Frames
<1> QED
    BY <1>2, <1>3, <1>4

\* What the buffer holds after whole blocks have been left behind.
LEMMA AdvanceShift ==
    ASSUME Inside, AdvanceAfterWrite
    PROVE  \E k \in Nat : /\ Len(buf') = Len(buf) - k /\ k <= Len(buf) /\ Len(buf') < BlockFrames
                          /\ Len(buf') \in Nat
                          /\ \A i \in 1 .. Len(buf') : k + i \in 1 .. Len(buf) /\ buf'[i] = buf[k + i]
<1>1. buf \in Seq(Frames) /\ Len(buf) \in Nat
    BY LenProperties DEF Inside, BufRight, BufferRight
<1> DEFINE full == Len(buf) \div BlockFrames
           k == full * BlockFrames
           r == Len(buf) % BlockFrames
<1>2. buf' = SubSeq(buf, k + 1, Len(buf))
    BY DEF AdvanceAfterWrite
<1>3. k \in Nat /\ k <= Len(buf) /\ Len(buf) - k < BlockFrames
  <2>1. full \in Nat /\ r \in 0 .. BlockFrames - 1 /\ Len(buf) = k + r
    BY <1>1, Division, Sizes
  <2>2. k \in Nat
    <3> HIDE DEF full
    <3> QED
      BY <2>1, Sizes, Products
  <2> HIDE DEF k, r
  <2> QED
    BY <1>1, <2>1, <2>2, Sizes
<1> HIDE DEF k
<1>4. Len(buf') = Len(buf) - k /\ \A i \in 1 .. Len(buf) - k : buf'[i] = buf[k + i]
    BY <1>1, <1>2, <1>3
<1>5. \A i \in 1 .. Len(buf') : k + i \in 1 .. Len(buf) /\ buf'[i] = buf[k + i]
    BY <1>1, <1>3, <1>4
<1> QED
    BY <1>1, <1>3, <1>4, <1>5

\* The same, if any have.
LEMMA BufferShift ==
    ASSUME Inside, AdvanceAfterWrite \/ buf' = buf
    PROVE  \E k \in Nat : /\ Len(buf') = Len(buf) - k /\ k <= Len(buf) /\ Len(buf') \in Nat
                          /\ \A i \in 1 .. Len(buf') : k + i \in 1 .. Len(buf) /\ buf'[i] = buf[k + i]
<1>1. CASE buf' = buf
  <2>1. Len(buf) \in Nat
    BY LenProperties DEF Inside, BufRight, BufferRight
  <2>2. Len(buf') = Len(buf) - 0 /\ 0 <= Len(buf) /\ Len(buf') \in Nat
    BY <1>1, <2>1
  <2>3. \A i \in 1 .. Len(buf') : 0 + i \in 1 .. Len(buf) /\ buf'[i] = buf[0 + i]
    BY <1>1, <2>1
  <2> WITNESS 0 \in Nat
  <2> QED
    BY <2>2, <2>3
<1>2. CASE AdvanceAfterWrite
    BY <1>2, AdvanceShift
<1> QED
    BY <1>1, <1>2

\* The last frame in the buffer stays there.
LEMMA TipShift ==
    ASSUME Inside, Inside', Tip, AdvanceAfterWrite \/ buf' = buf, UNCHANGED seq_next
    PROVE  Tip'
<1>1. PICK k \in Nat : /\ Len(buf') = Len(buf) - k /\ k <= Len(buf) /\ Len(buf') \in Nat
                      /\ \A i \in 1 .. Len(buf') : k + i \in 1 .. Len(buf) /\ buf'[i] = buf[k + i]
    BY BufferShift
<1> SUFFICES ASSUME buf' # <<>> PROVE buf'[Len(buf')][1] = seq_next - 1
    BY DEF Tip
<1>2. Len(buf') \in 1 .. Len(buf') /\ Len(buf) \in Nat
  <2>1. buf' \in Seq(Frames) /\ Len(buf) \in Nat
    BY LenProperties DEF Inside, BufRight, BufferRight
  <2>2. Len(buf') # 0
    BY <2>1, EmptySeq
  <2> QED
    BY <1>1, <2>1, <2>2
<1>3. buf'[Len(buf')] = buf[k + Len(buf')] /\ k + Len(buf') = Len(buf) /\ k + Len(buf') \in 1 .. Len(buf)
    BY <1>1, <1>2
<1>4. buf # <<>>
    BY <1>3
<1> QED
    BY <1>3, <1>4 DEF Tip

\* What lies beyond a snapshot lies beyond an earlier one.
LEMMA Beyond ==
    \A a, b, m \in Nat : \A n : a <= b /\ n \in b + 1 .. m - 1 => n \in a + 1 .. m - 1
  OBVIOUS

\* A step that leaves device and buffer alone.
LEMMA QuietStored ==
    ASSUME Inside, Lasting, Stored, mode = "up", mode' = "up",
           UNCHANGED <<platter, buf, seq_next, history, life, promised>>,
           covered' = covered \/ covered' = seq_next - 1, faults' = 0 => faults = 0
    PROVE  Stored'
<1>1. /\ covered \in Nat /\ seq_next \in Nat /\ promised \in Nat /\ covered < seq_next /\ Len(buf) \in Nat /\ DeviceRight
    BY LenProperties, BoundAssumption DEF Inside, Typed, Located, Open, BufRight, BufferRight
<1>2. covered' \in Nat /\ covered <= covered' /\ covered' < seq_next
    BY <1>1
<1>3. \A x \in Slots : \A i \in 1 .. Len(platter[x]) : platter[x][i][1] \in Nat
    BY <1>1, Contents
<1>4. LivesTo(IF mode = "down" THEN life - 1 ELSE life)'
    BY DEF Stored, LivesTo
<1>5. Ungiven' /\ Tip'
    BY DEF Stored, Open, Ungiven, Tip
<1>6. Own'
  <2> SUFFICES ASSUME NEW i \in 1 .. Len(buf), covered' < seq_next - 1 - Len(buf) + i
               PROVE  buf[i][2] = life \/ Current(Seat(seq_next - 1 - Len(buf) + i)) = buf[i]
    BY DEF Own, Current, Seat
  <2>1. covered < seq_next - 1 - Len(buf) + i
    BY <1>1, <1>2
  <2> QED
    BY <2>1 DEF Stored, Open, Own
<1>7. Gapless'
  <2> SUFFICES ASSUME NEW x \in Slots, NEW n \in covered' + 1 .. Seq0(x) - 1 PROVE Here(n)
    BY DEF Gapless, Seq0, Current, Here, Seat
  <2>1. Seq0(x) \in Nat
    BY <1>1, CurrentFacts, BoundAssumption DEF Seq0, Frames, DeviceRight
  <2> DEFINE m == Seq0(x)
  <2>2. n \in covered + 1 .. m - 1
    <3>1. m \in Nat /\ n \in covered' + 1 .. m - 1
      BY <2>1
    <3>2. covered \in Nat /\ covered' \in Nat /\ covered <= covered'
      BY <1>1, <1>2
    <3> HIDE DEF m
    <3> QED
      BY <3>1, <3>2, Beyond
  <2> QED
    BY <2>2 DEF Stored, Open, Gapless
<1>8. Anchored'
  <2> SUFFICES ASSUME promised = covered', covered' > 0
               PROVE  \/ Kept(covered') /\ \A i \in 1 .. Len(buf) : seq_next - 1 - Len(buf) + i = covered' => buf[i][1] = covered'
                      \/ Kept(covered' + 1)
    BY DEF Anchored, Kept, Seat
  <2>1. CASE covered' = covered
    BY <2>1 DEF Stored, Anchored, Open
  <2>2. CASE covered' # covered
    <3>1. covered' = seq_next - 1 /\ covered < promised
      BY <1>1, <1>2, <2>2
    <3>2. Kept(covered')
      BY <1>1, <3>1 DEF Lasting
    <3>3. ASSUME NEW i \in 1 .. Len(buf), seq_next - 1 - Len(buf) + i = covered'
          PROVE  buf[i][1] = covered'
      <4>1. i = Len(buf)
        BY <1>1, <3>1, <3>3
      <4>2. buf # <<>>
        BY <3>3
      <4> QED
        BY <3>1, <4>1, <4>2 DEF Stored, Open, Tip
    <3> QED
      BY <3>2, <3>3
  <2> QED
    BY <2>1, <2>2
<1>9. ASSUME faults' = 0 PROVE Holes'
  <2> SUFFICES ASSUME NEW x \in Slots, NEW i \in 1 .. Len(platter[x]), NEW n \in covered' + 1 .. platter[x][i][1] - 1
               PROVE  \/ Kept(n) \/ Near(n, platter[x][i][1])
                      \/ Older(n, platter[x][i][2]) /\ (i = Len(platter[x]) \/ Here(n))
    BY DEF Holes, Kept, Near, Older, Here, Seq0, Current, Seat
  <2> DEFINE m == platter[x][i][1]
  <2>1. n \in covered + 1 .. m - 1
    <3>1. m \in Nat /\ n \in covered' + 1 .. m - 1
      BY <1>3
    <3>2. covered \in Nat /\ covered' \in Nat /\ covered <= covered'
      BY <1>1, <1>2
    <3> HIDE DEF m
    <3> QED
      BY <3>1, <3>2, Beyond
  <2> QED
    BY <1>9, <2>1 DEF Stored, Holes
<1> QED
    BY <1>4, <1>5, <1>6, <1>7, <1>8, <1>9 DEF Stored, Open

\* A frame that is appended.
LEMMA AppendStored ==
    ASSUME Inside, Traced, Stored, mode = "up", mode' = "up", AppendEntry,
           UNCHANGED <<platter, covered, life, promised, faults>>
    PROVE  Stored'
<1>1. /\ buf \in Seq(Frames) /\ Len(buf) \in Nat /\ covered \in Nat /\ covered < seq_next
      /\ life \in Nat \ {0} /\ seq_next \in 1 .. MaxSeq /\ seq_next \in Nat /\ MaxSeq \in Nat /\ DeviceRight
    BY LenProperties, BoundAssumption DEF Inside, Typed, Located, Open, BufRight, BufferRight, AppendEntry
<1>2. buf' = Append(buf, <<seq_next, life>>) /\ seq_next' = seq_next + 1 /\ history' = [history EXCEPT ![seq_next] = life]
    BY DEF AppendEntry
<1>3. /\ Len(buf') = Len(buf) + 1
      /\ \A i \in 1 .. Len(buf) : buf'[i] = buf[i]
      /\ buf'[Len(buf) + 1] = <<seq_next, life>>
      /\ seq_next' - 1 - Len(buf') = seq_next - 1 - Len(buf)
    BY <1>1, <1>2
<1>4. /\ Ungiven /\ Own /\ Gapless /\ Tip /\ Anchored /\ (faults = 0 => Holes) /\ Open
      /\ LivesTo(life) /\ history \in [1 .. MaxSeq -> Int]
    BY DEF Stored, Traced, Open
<1>5. \A n \in 1 .. MaxSeq : n # seq_next => history'[n] = history[n]
    BY <1>1, <1>2, <1>4
<1>6. LivesTo(IF mode = "down" THEN life - 1 ELSE life)'
  <2>1. \A i \in 1 .. Len(buf') : buf'[i][2] <= life /\ (buf'[i][1] # 0 => buf'[i][2] > 0)
    <3> SUFFICES ASSUME NEW i \in 1 .. Len(buf') PROVE buf'[i][2] <= life /\ (buf'[i][1] # 0 => buf'[i][2] > 0)
      OBVIOUS
    <3>1. CASE i \in 1 .. Len(buf)
      BY <1>3, <1>4, <3>1 DEF LivesTo
    <3>2. CASE i = Len(buf) + 1
      BY <1>1, <1>3, <3>2
    <3> QED
      BY <1>1, <1>3, <3>1, <3>2
  <2> QED
    BY <1>4, <2>1 DEF LivesTo
<1>7. Ungiven'
  <2> SUFFICES ASSUME NEW n \in seq_next + 1 .. MaxSeq PROVE history'[n] = 0
    BY <1>2 DEF Ungiven
  <2>1. n \in seq_next .. MaxSeq /\ n \in 1 .. MaxSeq /\ n # seq_next
    BY <1>1
  <2> QED
    BY <1>4, <1>5, <2>1 DEF Ungiven
<1>8. Tip'
  <2>1. buf'[Len(buf')] = <<seq_next, life>> /\ seq_next' - 1 = seq_next
    BY <1>1, <1>2, <1>3
  <2> QED
    BY <2>1 DEF Tip
<1>9. Own'
  <2> SUFFICES ASSUME NEW i \in 1 .. Len(buf'), covered < seq_next - 1 - Len(buf) + i
               PROVE  buf'[i][2] = life \/ Current(Seat(seq_next - 1 - Len(buf) + i)) = buf'[i]
    BY <1>3 DEF Own, Current, Seat
  <2>1. CASE i \in 1 .. Len(buf)
    BY <1>3, <1>4, <2>1 DEF Own
  <2>2. CASE i = Len(buf) + 1
    BY <1>3, <2>2
  <2> QED
    BY <1>1, <1>3, <2>1, <2>2
<1>10. Gapless'
    BY <1>4 DEF Gapless, Seq0, Current, Here, Seat
<1>11. Anchored'
  <2> SUFFICES ASSUME promised = covered, covered > 0
               PROVE  \/ Kept(covered) /\ \A i \in 1 .. Len(buf') : seq_next - 1 - Len(buf) + i = covered => buf'[i][1] = covered
                      \/ Kept(covered + 1)
    BY <1>3 DEF Anchored, Kept, Seat
  <2>1. CASE Kept(covered + 1)
    BY <2>1
  <2>2. CASE Kept(covered) /\ \A i \in 1 .. Len(buf) : seq_next - 1 - Len(buf) + i = covered => buf[i][1] = covered
    <3> SUFFICES ASSUME NEW i \in 1 .. Len(buf'), seq_next - 1 - Len(buf) + i = covered PROVE buf'[i][1] = covered
      BY <2>2
    <3>1. i \in 1 .. Len(buf)
      BY <1>1, <1>3
    <3> QED
      BY <1>3, <2>2, <3>1
  <2> QED
    BY <1>4, <2>1, <2>2 DEF Anchored
<1>12. ASSUME NEW n \in Nat, NEW l, Older(n, l), n \in 1 .. MaxSeq
       PROVE  Older(n, l)'
  <2>1. history[seq_next] = 0
    BY <1>1, <1>4 DEF Ungiven
  <2>2. n # seq_next
    BY <1>12, <2>1 DEF Older
  <2> QED
    BY <1>5, <1>12, <2>2 DEF Older
<1>13. ASSUME faults = 0 PROVE Holes'
  <2> SUFFICES ASSUME NEW x \in Slots, NEW i \in 1 .. Len(platter[x]), NEW n \in covered + 1 .. platter[x][i][1] - 1
               PROVE  \/ Kept(n) \/ Near(n, platter[x][i][1])
                      \/ Older(n, platter[x][i][2])' /\ (i = Len(platter[x]) \/ Here(n))
    BY DEF Holes, Kept, Near, Older, Here, Seq0, Current, Seat
  <2> DEFINE m == platter[x][i][1]
             l == platter[x][i][2]
  <2>1. \/ Kept(n) \/ Near(n, m)
        \/ Older(n, l) /\ (i = Len(platter[x]) \/ Here(n))
    BY <1>4, <1>13 DEF Holes
  <2>2. n \in Nat /\ n \in 1 .. MaxSeq
    <3>1. m \in Nat /\ m <= MaxSeq /\ n \in covered + 1 .. m - 1
      BY <1>1, Contents
    <3> HIDE DEF m
    <3> QED
      BY <1>1, <3>1
  <2>3. Older(n, l) => Older(n, l)'
    BY <1>12, <2>2 DEF Older
  <2> QED
    BY <2>1, <2>3
<1> QED
    BY <1>4, <1>6, <1>7, <1>8, <1>9, <1>10, <1>11, <1>13 DEF Stored, Open

\* Where the frames of the buffer go.
LEMMA BufferSeat ==
    ASSUME Inside, mode = "up", NEW v \in Nat, NEW h \in Nat, Placed(v, h), NEW j \in 1 .. Len(buf)
    PROVE  /\ v * BlockFrames + j \in Nat \ {0} /\ Seat(v * BlockFrames + j) = cur * BlockFrames + j - 1
           /\ cur * BlockFrames + j - 1 \in Span /\ cur * BlockFrames + j - 1 \in Slots
           /\ v * BlockFrames + j = seq_next - 1 - Len(buf) + j
<1> DEFINE m == v * BlockFrames + j
           x == cur * BlockFrames + j - 1
<1>1. v * BlockFrames \in Nat /\ v * BlockFrames + Len(buf) = seq_next - 1 /\ Len(buf) \in Nat /\ seq_next \in Nat
    BY Sizes, LenProperties, BoundAssumption DEF Inside, Typed, BufRight, BufferRight, Placed
<1>2. m \in Nat \ {0} /\ m = seq_next - 1 - Len(buf) + j
    BY <1>1
<1>3. x \in Span /\ x \in Slots /\ Home(m, x)
    BY InSpan
<1> HIDE DEF m, x
<1>4. Seat(m) = x
    BY <1>2, <1>3, Seats
<1> QED
    BY <1>2, <1>3, <1>4 DEF m, x

\* Numbers of one window are near.
LEMMA WindowNear ==
    ASSUME Inside, mode = "up", NEW v \in Nat, NEW h \in Nat, Placed(v, h),
           NEW i \in 1 .. Len(buf), NEW j \in 1 .. Len(buf), i < j
    PROVE  Near(v * BlockFrames + i, v * BlockFrames + j)
<1> DEFINE vb == v * BlockFrames
           cb == cur * BlockFrames
           x == cb + i - 1
           y == cb + j - 1
<1>1. /\ vb \in Nat /\ cb \in Nat /\ Len(buf) \in Nat /\ cur \in Nat /\ window \in Nat /\ window <= BufBlocks
      /\ Len(buf) <= window * BlockFrames
    BY Sizes, LenProperties, BoundAssumption DEF Inside, Typed, BufRight, BufferRight, Placed
<1>2. Seat(vb + i) = x /\ Seat(vb + j) = y
    BY BufferSeat
<1>3. window * BlockFrames <= BufBlocks * BlockFrames /\ (cur + BufBlocks) * BlockFrames = cb + BufBlocks * BlockFrames
      /\ window * BlockFrames \in Int /\ BufBlocks * BlockFrames \in Int
    BY <1>1, Sizes, Products
<1>4. y < (cur + BufBlocks) * BlockFrames /\ cb <= x /\ x \in Nat /\ y \in Nat
  <2> DEFINE w == window * BlockFrames
             b == BufBlocks * BlockFrames
             e == (cur + BufBlocks) * BlockFrames
  <2>1. /\ w \in Int /\ b \in Int /\ w <= b /\ cb \in Nat /\ Len(buf) \in Nat /\ Len(buf) <= w
        /\ e = cb + b
    BY <1>1, <1>3
  <2>2. i \in Nat /\ j \in Nat /\ 1 <= i /\ 1 <= j /\ j <= Len(buf)
    BY <1>1
  <2> HIDE DEF cb, w, b, e
  <2>3. y < e
    BY <2>1, <2>2
  <2>4. cb <= x /\ x \in Nat /\ y \in Nat
    BY <2>1, <2>2
  <2> HIDE DEF x, y
  <2> QED
    BY <2>3, <2>4 DEF e
<1>5. /\ Block(x) \in Nat /\ x < (Block(x) + 1) * BlockFrames
      /\ Block(y) \in Nat /\ Block(y) * BlockFrames <= y
  <2>1. x \in Nat /\ y \in Nat /\ x <= x /\ y <= y
    BY <1>4
  <2> HIDE DEF x, y
  <2> QED
    BY <2>1, LaterBlock
<1>6. cur <= Block(x)
  <2>1. cur * BlockFrames < (Block(x) + 1) * BlockFrames
    <3> DEFINE e == (Block(x) + 1) * BlockFrames
    <3>1. e \in Int /\ x < e /\ cb <= x /\ x \in Nat /\ cb \in Nat
      BY <1>1, <1>4, <1>5, Sizes, Products
    <3> HIDE DEF x, e, cb
    <3>2. cb < e
      BY <3>1
    <3> QED
      BY <3>2 DEF cb, e
  <2>2. cur \in Int /\ Block(x) \in Int
    BY <1>1, <1>5
  <2> HIDE DEF x, y, cb, vb
  <2> QED
    BY <2>1, <2>2, Factors, Sizes
<1>7. Block(y) <= cur + BufBlocks - 1
  <2>1. Block(y) * BlockFrames < ((cur + BufBlocks - 1) + 1) * BlockFrames
    <3>1. Block(y) * BlockFrames \in Int /\ (cur + BufBlocks - 1) + 1 = cur + BufBlocks
      BY <1>1, <1>5, Sizes, Products
    <3>2. (cur + BufBlocks) * BlockFrames \in Int
      BY <1>1, <1>3, Sizes
    <3> DEFINE d == Block(y) * BlockFrames
               e == (cur + BufBlocks) * BlockFrames
    <3>3. d \in Int /\ e \in Int /\ d <= y /\ y < e /\ y \in Nat
      BY <1>4, <1>5, <3>1, <3>2
    <3> HIDE DEF y, d, e
    <3>4. d < e
      BY <3>3
    <3> QED
      BY <3>1, <3>4 DEF d, e
  <2>2. cur + BufBlocks - 1 \in Int /\ Block(y) \in Int
    BY <1>1, <1>5, Sizes
  <2> HIDE DEF x, y, cb, vb
  <2> QED
    BY <2>1, <2>2, Factors, Sizes
<1>8. Block(y) < Block(x) + BufBlocks
  <2> HIDE DEF x, y
  <2> QED
    BY <1>1, <1>5, <1>6, <1>7, Sizes
<1>9. y - x = (vb + j) - (vb + i) /\ vb + i < vb + j
  <2> HIDE DEF vb, cb
  <2> QED
    BY <1>1
<1> QED
    BY <1>2, <1>8, <1>9 DEF Near

\* What a slot holds after a window has been written.
LEMMA SpanSlot ==
    ASSUME Inside, mode = "up", WriteWindowSpan
    PROVE  /\ \A x \in Slots : \A j \in 1 .. Len(buf) : x = cur * BlockFrames + j - 1 => Current(x)' = buf[j]
           /\ \A x \in Slots : \A i \in 1 .. Len(platter'[x]) :
                  \/ i \in 1 .. Len(platter[x]) /\ platter'[x][i] = platter[x][i]
                  \/ i = Len(platter'[x]) /\ platter'[x][i] = None
                  \/ /\ i = Len(platter'[x])
                     /\ \E j \in 1 .. Len(buf) : x = cur * BlockFrames + j - 1 /\ platter'[x][i] = buf[j] /\ Current(x) # buf[j]
<1> DEFINE content == [x \in Span |-> LET i == x - cur * BlockFrames + 1
                                     IN  IF i <= Len(buf) THEN buf[i] ELSE None]
           cb == cur * BlockFrames
<1>1. WriteAt(content) /\ DOMAIN content = Span
    BY DEF WriteWindowSpan
<1>2. Open /\ DeviceRight /\ cb \in Nat /\ Len(buf) \in Nat
    BY LenProperties, Sizes, BoundAssumption DEF Open, Inside, Typed, BufRight, BufferRight
<1>3. PICK v \in Nat, h \in Nat : Placed(v, h)
    BY <1>2 DEF Inside, Located
<1>4. \A x \in Span : content[x] = IF x - cb + 1 <= Len(buf) THEN buf[x - cb + 1] ELSE None
    OBVIOUS
<1> HIDE DEF content
<1>5. ASSUME NEW x \in Slots, NEW j \in 1 .. Len(buf), x = cb + j - 1 PROVE Current(x)' = buf[j]
  <2>1. x \in Span
    BY <1>3, <1>5, BufferSeat
  <2>2. Current(x)' = content[x]
    BY <1>1, <1>2, <2>1, WriteSlot
  <2>3. x - cb + 1 = j
    <3> HIDE DEF cb
    <3> QED
      BY <1>2, <1>5
  <2>4. content[x] = buf[j]
    <3> HIDE DEF cb
    <3> QED
      BY <1>2, <1>4, <2>1, <2>3
  <2> QED
    BY <2>2, <2>4
<1>6. ASSUME NEW x \in Slots, NEW i \in 1 .. Len(platter'[x])
      PROVE  \/ i \in 1 .. Len(platter[x]) /\ platter'[x][i] = platter[x][i]
             \/ i = Len(platter'[x]) /\ platter'[x][i] = None
             \/ /\ i = Len(platter'[x])
                /\ \E j \in 1 .. Len(buf) : x = cb + j - 1 /\ platter'[x][i] = buf[j] /\ Current(x) # buf[j]
  <2>1. CASE platter'[x] = platter[x]
    BY <2>1
  <2>2. CASE platter'[x] # platter[x]
    <3>1. /\ x \in Span /\ content[x] # Current(x)
          /\ Len(platter'[x]) = Len(platter[x]) + 1
          /\ \A k \in 1 .. Len(platter[x]) : platter'[x][k] = platter[x][k]
          /\ Len(platter[x]) \in Nat /\ Current(x)' = content[x]
      BY <1>1, <1>2, <2>2, WriteSlot
    <3>2. CASE i \in 1 .. Len(platter[x])
      BY <3>1, <3>2
    <3>3. CASE i = Len(platter'[x])
      <4>1. platter'[x][i] = content[x]
        BY <3>1, <3>3 DEF Current
      <4>2. CASE ~ (x - cb + 1 <= Len(buf))
        BY <1>4, <3>1, <3>3, <4>1, <4>2
      <4>3. CASE x - cb + 1 <= Len(buf)
        <5> DEFINE j == x - cb + 1
        <5>1. content[x] = buf[j]
          BY <1>4, <3>1, <4>3
        <5>2. x \in Nat /\ cb <= x
          <6>1. x \in Nat
            BY Sizes DEF Slots
          <6>2. cb <= x
            BY <3>1 DEF Span
          <6> QED
            BY <6>1, <6>2
        <5>3. j \in 1 .. Len(buf) /\ x = cb + j - 1
          <6> HIDE DEF cb
          <6> QED
            BY <1>2, <4>3, <5>2
        <5> HIDE DEF j, cb
        <5> QED
          BY <3>1, <3>3, <4>1, <5>1, <5>3
      <4> QED
        BY <4>2, <4>3
    <3> QED
      BY <3>1, <3>2, <3>3
  <2> QED
    BY <2>1, <2>2
<1> QED
    BY <1>5, <1>6

\* A window reaches the last number of the snapshot only with its own frame.
LEMMA AnchorSeat ==
    ASSUME Inside, mode = "up", NEW v \in Nat, NEW h \in Nat, Placed(v, h), covered > 0, Seat(covered) \in Span
    PROVE  \E j \in 1 .. Len(buf) : v * BlockFrames + j = covered /\ Seat(covered) = cur * BlockFrames + j - 1
<1> DEFINE x == Seat(covered)
           vb == v * BlockFrames
           g == IF h = 0 THEN 0 ELSE h - 1
           top == (h + RingBlocks - 1) * BlockFrames
<1>1. /\ vb \in Nat /\ vb + Len(buf) = seq_next - 1 /\ Len(buf) \in Nat /\ seq_next \in Nat /\ covered < seq_next
      /\ covered \in Nat \ {0} /\ h * BlockFrames <= covered /\ h <= v
      /\ window \in Nat /\ window <= RingBlocks - 1 - (v - h) /\ Len(buf) <= window * BlockFrames
    BY Sizes, LenProperties, BoundAssumption DEF Inside, Typed, BufRight, BufferRight, Placed, Located, Open
<1>2. x \in Slots /\ Home(covered, x)
    BY <1>1, Seats
<1>3. PICK j \in Nat \ {0} : /\ j = x - cur * BlockFrames + 1
                             /\ Home(vb + j, x)
                             /\ vb + j \in Nat \ {0}
                             /\ h * BlockFrames < vb + j
                             /\ vb + j <= top
    BY <1>2, Reached
<1> HIDE DEF x
<1>4. top \in Int /\ h * BlockFrames \in Nat /\ vb + Len(buf) <= top
  <2>1. h + RingBlocks - 1 \in Int /\ top \in Int /\ h * BlockFrames \in Nat
    BY Sizes, Products
  <2>2. v + window <= h + RingBlocks - 1 /\ v + window \in Int
    BY <1>1, Sizes
  <2>3. (v + window) * BlockFrames <= top
    BY <2>1, <2>2, Products, Sizes
  <2> DEFINE w == window * BlockFrames
  <2>4. (v + window) * BlockFrames = vb + w /\ w \in Int
    BY <1>1, Products, Sizes
  <2>5. vb \in Nat /\ Len(buf) \in Nat /\ Len(buf) <= w /\ vb + w <= top
    BY <1>1, <2>3, <2>4
  <2> HIDE DEF vb, top, w
  <2>6. vb + Len(buf) <= top
    BY <2>1, <2>4, <2>5
  <2> QED
    BY <2>1, <2>6
<1>5. g \in Nat /\ g * BlockFrames \in Nat /\ top <= (g + RingBlocks) * BlockFrames /\ (g + RingBlocks) * BlockFrames \in Int
      /\ g * BlockFrames <= h * BlockFrames /\ (g * BlockFrames < h * BlockFrames \/ g * BlockFrames = 0)
  <2>1. CASE h = 0
    <3>1. g = 0 /\ g * BlockFrames = 0 /\ h * BlockFrames = 0 /\ (g + RingBlocks) * BlockFrames \in Int
      BY <2>1, Sizes, Products
    <3>2. h + RingBlocks - 1 <= g + RingBlocks /\ h + RingBlocks - 1 \in Int /\ g + RingBlocks \in Int
      BY <2>1, <3>1, Sizes
    <3>3. top <= (g + RingBlocks) * BlockFrames
      BY <3>2, Products, Sizes
    <3> QED
      BY <3>1, <3>3
  <2>2. CASE h # 0
    <3>1. g = h - 1 /\ g \in Nat /\ g + RingBlocks = h + RingBlocks - 1 /\ h = g + 1
      BY <2>2, Sizes
    <3>2. g * BlockFrames \in Nat /\ (g + 1) * BlockFrames = g * BlockFrames + BlockFrames
      BY <3>1, Sizes, Products
    <3>3. top = (g + RingBlocks) * BlockFrames
      BY <3>1
    <3> HIDE DEF g
    <3>4. g * BlockFrames < h * BlockFrames
      BY <3>1, <3>2, Sizes
    <3>5. top <= (g + RingBlocks) * BlockFrames
      BY <1>4, <3>3
    <3> QED
      BY <1>4, <3>1, <3>2, <3>3, <3>4, <3>5
  <2> QED
    BY <2>1, <2>2
<1>6. vb + j = covered
  <2> DEFINE lo == g * BlockFrames
             hb == h * BlockFrames
             hi == (g + RingBlocks) * BlockFrames
  <2>4. lo \in Nat /\ hi \in Int /\ hb \in Nat /\ top <= hi /\ lo <= hb /\ (lo < hb \/ lo = 0) /\ top \in Int
        /\ hb <= covered /\ hb < vb + j /\ vb + j <= top /\ vb + Len(buf) <= top
    BY <1>1, <1>3, <1>4, <1>5
  <2>1. lo < covered /\ covered <= hi
    <3> HIDE DEF lo, hb, hi, g, top, vb
    <3> QED
      BY <1>1, <2>4
  <2>2. lo < vb + j /\ vb + j <= hi
    <3> HIDE DEF lo, hb, hi, g, top, vb
    <3> QED
      BY <1>1, <2>4
  <2>3. g \in Nat
    BY <1>5
  <2> HIDE DEF g, top, vb
  <2> QED
    BY <1>1, <1>2, <1>3, <2>1, <2>2, <2>3, Apart
<1>7. j \in 1 .. Len(buf)
  <2> HIDE DEF vb
  <2> QED
    BY <1>1, <1>6
<1>8. x = cur * BlockFrames + j - 1
  <2>1. x \in Nat /\ cur * BlockFrames \in Nat
    BY <1>2, Sizes DEF Slots, Inside, Typed
  <2> QED
    BY <1>3, <2>1
<1> QED
    BY <1>6, <1>7, <1>8 DEF x

\* A window that is written leaves the last frame of the snapshot where it is.
LEMMA AnchorKept ==
    ASSUME Inside, mode = "up", WriteWindowSpan, NEW n, n = covered, n > 0, Kept(n),
           \A i \in 1 .. Len(buf) : seq_next - 1 - Len(buf) + i = n => buf[i][1] = n
    PROVE  Kept(n)'
<1> DEFINE content == [x \in Span |-> LET i == x - cur * BlockFrames + 1
                                     IN  IF i <= Len(buf) THEN buf[i] ELSE None]
           cb == cur * BlockFrames
<1>1. WriteAt(content) /\ DOMAIN content = Span
    BY DEF WriteWindowSpan
<1>2. Open /\ DeviceRight /\ cb \in Nat /\ Len(buf) \in Nat /\ n \in Nat \ {0}
    BY LenProperties, Sizes, BoundAssumption DEF Open, Inside, Typed, BufRight, BufferRight
<1>3. PICK v \in Nat, h \in Nat : Placed(v, h)
    BY <1>2 DEF Inside, Located
<1>4. \A x \in Span : content[x] = IF x - cb + 1 <= Len(buf) THEN buf[x - cb + 1] ELSE None
    OBVIOUS
<1> HIDE DEF content
<1>5. ASSUME Seat(n) \in Span PROVE content[Seat(n)][1] = n
  <2>1. PICK j \in 1 .. Len(buf) : v * BlockFrames + j = n /\ Seat(n) = cb + j - 1
    BY <1>2, <1>3, <1>5, AnchorSeat
  <2>2. seq_next - 1 - Len(buf) + j = n
    BY <1>3, <2>1, BufferSeat
  <2>3. Seat(n) - cb + 1 = j
    <3> HIDE DEF cb
    <3> QED
      BY <1>2, <2>1
  <2>4. content[Seat(n)] = buf[j]
    <3> HIDE DEF cb
    <3> QED
      BY <1>2, <1>4, <1>5, <2>3
  <2> QED
    BY <2>2, <2>4
<1> QED
    BY <1>1, <1>2, <1>5, WriteHere

\* A frame that is written for the first time, and a number before it that the snapshot leaves.
LEMMA WrittenHole ==
    ASSUME Inside, mode = "up", Traced, Durable, Stored, Fresh, WriteWindowSpan,
           UNCHANGED <<seq_next, covered, history>>,
           NEW j \in 1 .. Len(buf), NEW x \in Slots, x = cur * BlockFrames + j - 1, Current(x) # buf[j],
           NEW n \in covered + 1 .. buf[j][1] - 1
    PROVE  Kept(n)' \/ Near(n, buf[j][1]) \/ Older(n, buf[j][2])
<1> DEFINE m == buf[j][1]
<1>1. /\ Open /\ DeviceRight /\ covered \in Nat /\ seq_next \in Nat /\ Len(buf) \in Nat /\ m \in Nat
      /\ Home(m, x)
  <2>1. Open /\ DeviceRight /\ covered \in Nat /\ seq_next \in Nat /\ Len(buf) \in Nat
    BY LenProperties, BoundAssumption DEF Open, Inside, Typed, BufRight, BufferRight
  <2>2. buf[j] \in Frames /\ Home(buf[j][1], cur * BlockFrames + j - 1)
    BY DEF Inside, BufRight, BufferRight
  <2> QED
    BY <2>1, <2>2, BoundAssumption DEF Frames
<1>2. PICK v \in Nat, h \in Nat : Placed(v, h)
    BY <1>1 DEF Inside, Located
<1>3. Own /\ Buffered /\ Left /\ \A i \in 1 .. Len(buf) : Known(buf[i])
    BY <1>1 DEF Stored, Durable, Traced, Noted
<1>4. covered < m /\ n \in Nat /\ covered < n /\ n < m /\ m < seq_next
  <2>1. covered < m => m < seq_next
    BY <1>3 DEF Known
  <2>2. n \in covered + 1 .. m - 1
    OBVIOUS
  <2> HIDE DEF m
  <2> QED
    BY <1>1, <2>1, <2>2
<1>5. /\ v * BlockFrames \in Nat /\ v * BlockFrames + Len(buf) = seq_next - 1
      /\ v * BlockFrames + j = seq_next - 1 - Len(buf) + j
    BY <1>2, Sizes, BufferSeat DEF Placed
<1>6. m = v * BlockFrames + j
  <2>1. m \in Nat \ {0} /\ h * BlockFrames < m /\ m <= (h + RingBlocks) * BlockFrames
    <3> HIDE DEF m
    <3> QED
      BY <1>1, <1>2, <1>4, LogRange
  <2>2. x \in Span
    BY <1>2, BufferSeat
  <2>3. PICK k \in Nat \ {0} : /\ k = x - cur * BlockFrames + 1
                               /\ Home(v * BlockFrames + k, x)
                               /\ v * BlockFrames + k \in Nat \ {0}
                               /\ h * BlockFrames < v * BlockFrames + k
                               /\ v * BlockFrames + k <= (h + RingBlocks) * BlockFrames
    BY <1>2, <2>2, Reached
  <2>4. m = v * BlockFrames + k
    <3> HIDE DEF m
    <3> QED
      BY <1>1, <1>2, <2>1, <2>3, Apart
  <2>5. k = j
    <3> DEFINE cb == cur * BlockFrames
    <3>1. cb \in Nat /\ x = cb + j - 1 /\ k = x - cb + 1 /\ j \in Nat
      BY <2>3, Sizes DEF Inside, Typed
    <3> HIDE DEF cb
    <3> QED
      BY <3>1
  <2> QED
    BY <2>4, <2>5
<1>7. CASE n <= v * BlockFrames
  <2>1. n \in covered + 1 .. seq_next - 1 - Len(buf)
    BY <1>1, <1>4, <1>5, <1>7
  <2>2. CASE Kept(n)
    <3>1. n < seq_next
      BY <1>1, <1>4
    <3> QED
      BY <1>3, <1>4, <2>2, <3>1, SpanHere
  <2>3. CASE Older(n, life)
    <3>1. covered < seq_next - 1 - Len(buf) + j /\ m = seq_next - 1 - Len(buf) + j
      BY <1>4, <1>5, <1>6
    <3>2. Seat(m) = x
      BY <1>2, <1>6, BufferSeat
    <3>3. buf[j][2] = life
      BY <1>3, <3>1, <3>2 DEF Own
    <3> QED
      BY <2>3, <3>3
  <2> QED
    BY <2>1, <2>2, <2>3 DEF Fresh
<1>8. CASE v * BlockFrames < n
  <2> DEFINE w == v * BlockFrames
             i == n - w
  <2>1. w \in Nat /\ w < n /\ n < w + j /\ n = w + i
    BY <1>4, <1>5, <1>6, <1>8
  <2>2. i \in 1 .. Len(buf) /\ i < j
    <3>1. n \in Nat /\ j \in Nat /\ j <= Len(buf) /\ Len(buf) \in Nat
      BY <1>1, <1>4
    <3> HIDE DEF w
    <3> QED
      BY <2>1, <3>1
  <2> HIDE DEF i
  <2>3. Near(v * BlockFrames + i, v * BlockFrames + j)
    BY <1>2, <2>2, WindowNear
  <2> QED
    BY <1>6, <2>1, <2>3
<1> QED
    BY <1>4, <1>5, <1>7, <1>8

\* A window that has been written.
LEMMA WrittenStored ==
    ASSUME Inside, Inside', Durable, Traced, Stored, mode = "up", mode' = "up", WriteWindowSpan,
           UNCHANGED <<seq_next, covered, history, life, promised>>, AdvanceAfterWrite \/ buf' = buf,
           faults' = 0 => faults = 0 /\ Fresh
    PROVE  Stored' /\ (buf # <<>> => Shown')
<1>1. /\ Open /\ DeviceRight /\ DeviceRight' /\ covered \in Nat /\ seq_next \in Nat /\ Len(buf) \in Nat
      /\ life \in Nat \ {0} /\ promised \in Nat /\ covered < seq_next
    BY LenProperties, BoundAssumption DEF Open, Inside, Typed, BufRight, BufferRight, Located
<1>2. PICK v \in Nat, h \in Nat : Placed(v, h)
    BY <1>1 DEF Inside, Located
<1>3. PICK k \in Nat : /\ Len(buf') = Len(buf) - k /\ k <= Len(buf) /\ Len(buf') \in Nat
                      /\ \A i \in 1 .. Len(buf') : k + i \in 1 .. Len(buf) /\ buf'[i] = buf[k + i]
    BY BufferShift
<1>4. \A i \in 1 .. Len(buf') : seq_next - 1 - Len(buf') + i = seq_next - 1 - Len(buf) + (k + i)
    BY <1>1, <1>3
<1>5. Ungiven /\ Own /\ Gapless /\ Tip /\ Anchored /\ (faults = 0 => Holes) /\ LivesTo(life)
    BY <1>1 DEF Stored
<1>6. Buffered /\ Left /\ Noted /\ Newest
    BY <1>1 DEF Durable, Traced
<1>7. Newest' /\ \A x \in Slots : covered < Current(x)[1] => platter'[x] = platter[x]
    BY <1>6, SpanTraced
<1>8. /\ \A x \in Slots : \A j \in 1 .. Len(buf) : x = cur * BlockFrames + j - 1 => Current(x)' = buf[j]
      /\ \A x \in Slots : \A i \in 1 .. Len(platter'[x]) :
                  \/ i \in 1 .. Len(platter[x]) /\ platter'[x][i] = platter[x][i]
                  \/ i = Len(platter'[x]) /\ platter'[x][i] = None
                  \/ /\ i = Len(platter'[x])
                     /\ \E j \in 1 .. Len(buf) : x = cur * BlockFrames + j - 1 /\ platter'[x][i] = buf[j] /\ Current(x) # buf[j]
    BY SpanSlot
<1>10. LivesTo(IF mode = "down" THEN life - 1 ELSE life)'
  <2>1. \A x \in Slots : \A i \in 1 .. Len(platter'[x]) : platter'[x][i][2] <= life /\ (platter'[x][i][1] # 0 => platter'[x][i][2] > 0)
    <3> SUFFICES ASSUME NEW x \in Slots, NEW i \in 1 .. Len(platter'[x])
                 PROVE  platter'[x][i][2] <= life /\ (platter'[x][i][1] # 0 => platter'[x][i][2] > 0)
      OBVIOUS
    <3>1. CASE i \in 1 .. Len(platter[x]) /\ platter'[x][i] = platter[x][i]
      BY <1>5, <3>1 DEF LivesTo
    <3>2. CASE platter'[x][i] = None
      BY <1>1, <3>2 DEF None
    <3>3. CASE \E j \in 1 .. Len(buf) : platter'[x][i] = buf[j]
      BY <1>5, <3>3 DEF LivesTo
    <3> QED
      BY <1>8, <3>1, <3>2, <3>3
  <2>2. \A i \in 1 .. Len(buf') : buf'[i][2] <= life /\ (buf'[i][1] # 0 => buf'[i][2] > 0)
    BY <1>3, <1>5 DEF LivesTo
  <2> QED
    BY <2>1, <2>2 DEF LivesTo
<1>11. Ungiven'
    BY <1>5 DEF Ungiven
<1>12. Tip'
    BY <1>5, TipShift
<1>13. Own'
  <2> SUFFICES ASSUME NEW i \in 1 .. Len(buf'), NEW n, n = seq_next - 1 - Len(buf') + i
               PROVE  Current(Seat(n))' = buf'[i]
    BY DEF Own, Current, Seat
  <2>1. k + i \in 1 .. Len(buf) /\ buf'[i] = buf[k + i] /\ n = seq_next - 1 - Len(buf) + (k + i)
    BY <1>3, <1>4
  <2>2. n = v * BlockFrames + (k + i) /\ Seat(n) = cur * BlockFrames + (k + i) - 1 /\ Seat(n) \in Slots
    BY <1>2, <2>1, BufferSeat
  <2> QED
    BY <1>8, <2>1, <2>2
<1>14. Gapless'
  <2>1. AllHere'
    BY WrittenDurable
  <2> SUFFICES ASSUME NEW x \in Slots, NEW n \in covered + 1 .. Current(x)'[1] - 1 PROVE Here(n)'
    BY DEF Gapless, Seq0
  <2> DEFINE m == Current(x)'[1]
  <2>2. m \in Nat
    <3>1. Len(platter'[x]) \in 1 .. Len(platter'[x]) /\ \A i \in 1 .. Len(platter'[x]) : platter'[x][i][1] \in Nat
      BY <1>1, ContentsAfter
    <3> QED
      BY <3>1 DEF Current
  <2>3. covered < m => m < seq_next
    BY <1>7 DEF Newest, Known
  <2>4. n \in covered + 1 .. m - 1
    OBVIOUS
  <2> HIDE DEF m
  <2>5. n \in Nat /\ covered < n /\ n < seq_next
    BY <1>1, <2>2, <2>3, <2>4
  <2> QED
    BY <2>1, <2>5 DEF AllHere
<1>15. Anchored'
  <2> SUFFICES ASSUME NEW n, n = covered, promised = n, n > 0
               PROVE  \/ Kept(n)' /\ \A i \in 1 .. Len(buf') : seq_next - 1 - Len(buf') + i = n => buf'[i][1] = n
                      \/ Kept(n + 1)'
    BY DEF Anchored, Kept, Seat
  <2>1. CASE Kept(n + 1)
    <3>1. n + 1 \in Nat \ {0}
      BY <1>1
    <3>2. Here(n + 1) /\ Seat(n + 1) \in Slots
      BY <1>1, <2>1, <3>1, KeptHere
    <3>3. n + 1 < seq_next
      BY <1>1, <1>6, <3>2 DEF Newest, Known, Here, Seq0
    <3> QED
      BY <1>1, <1>6, <2>1, <3>1, <3>3, SpanHere
  <2>2. CASE Kept(n) /\ \A i \in 1 .. Len(buf) : seq_next - 1 - Len(buf) + i = n => buf[i][1] = n
    <3>1. Kept(n)'
      BY <2>2, AnchorKept
    <3>2. ASSUME NEW i \in 1 .. Len(buf'), seq_next - 1 - Len(buf') + i = n PROVE buf'[i][1] = n
      BY <1>3, <1>4, <2>2, <3>2
    <3> QED
      BY <3>1, <3>2
  <2> QED
    BY <1>1, <1>5, <2>1, <2>2 DEF Anchored
<1>16. ASSUME faults' = 0 PROVE Holes'
  <2>0. Holes /\ Fresh
    BY <1>5, <1>16
  <2> SUFFICES ASSUME NEW x \in Slots, NEW i \in 1 .. Len(platter'[x]), NEW n \in covered + 1 .. platter'[x][i][1] - 1
               PROVE  \/ Kept(n)' \/ Near(n, platter'[x][i][1])
                      \/ Older(n, platter'[x][i][2]) /\ (i = Len(platter'[x]) \/ Here(n)')
    BY DEF Holes, Near, Older, Seat
  <2>1. n \in Nat /\ covered < n /\ platter'[x][i][1] \in Nat
    <3> DEFINE m == platter'[x][i][1]
    <3>1. m \in Nat /\ n \in covered + 1 .. m - 1
      BY <1>1, ContentsAfter
    <3> HIDE DEF m
    <3> QED
      BY <1>1, <3>1 DEF m
  <2>2. CASE i \in 1 .. Len(platter[x]) /\ platter'[x][i] = platter[x][i]
    <3> DEFINE m == platter[x][i][1]
               l == platter[x][i][2]
    <3>1. \/ Kept(n) \/ Near(n, m)
          \/ Older(n, l) /\ (i = Len(platter[x]) \/ Here(n))
      BY <2>0, <2>2 DEF Holes
    <3>2. Here(n) => n < seq_next
      <4>1. Seat(n) \in Slots
        BY <1>1, <2>1, Seats
      <4> QED
        BY <1>6, <2>1, <4>1 DEF Newest, Known, Here, Seq0
    <3>3. Kept(n) => Kept(n)'
      <4>1. Kept(n) => Here(n)
        BY <1>1, <2>1, KeptHere
      <4> QED
        BY <1>6, <2>1, <3>2, <4>1, SpanHere
    <3>4. Here(n) => Here(n)'
      BY <1>6, <2>1, <3>2, SpanHere
    <3>5. i = Len(platter[x]) => i = Len(platter'[x])
      <4> SUFFICES ASSUME i = Len(platter[x]) PROVE platter'[x] = platter[x]
        OBVIOUS
      <4>1. Current(x)[1] = platter'[x][i][1]
        BY <2>2 DEF Current
      <4>2. covered < platter'[x][i][1]
        <5> DEFINE q == platter'[x][i][1]
        <5>1. q \in Nat /\ n \in covered + 1 .. q - 1
          BY <2>1
        <5> HIDE DEF q
        <5>2. covered < q
          BY <1>1, <5>1
        <5> QED
          BY <5>2 DEF q
      <4> QED
        BY <1>7, <4>1, <4>2
    <3> QED
      BY <2>2, <3>1, <3>3, <3>4, <3>5
  <2>3. CASE platter'[x][i] = None
    <3>1. platter'[x][i][1] = 0
      BY <2>3 DEF None
    <3> QED
      BY <1>1, <3>1
  <2>4. CASE i = Len(platter'[x]) /\ \E j \in 1 .. Len(buf) : x = cur * BlockFrames + j - 1 /\ platter'[x][i] = buf[j] /\ Current(x) # buf[j]
    <3>1. PICK j \in 1 .. Len(buf) : x = cur * BlockFrames + j - 1 /\ platter'[x][i] = buf[j] /\ Current(x) # buf[j]
      BY <2>4
    <3>2. n \in covered + 1 .. buf[j][1] - 1
      BY <3>1
    <3>3. Kept(n)' \/ Near(n, buf[j][1]) \/ Older(n, buf[j][2])
      BY <2>0, <3>1, <3>2, WrittenHole
    <3> QED
      BY <2>4, <3>1, <3>3
  <2> QED
    BY <1>8, <2>2, <2>3, <2>4
<1>17. ASSUME buf # <<>> PROVE Shown'
  <2>1. Len(buf) \in 1 .. Len(buf)
    <3>1. buf \in Seq(Frames)
      BY DEF Inside, BufRight, BufferRight
    <3>2. Len(buf) # 0
      BY <1>17, <3>1, EmptySeq
    <3> QED
      BY <1>1, <3>2
  <2> DEFINE n == seq_next - 1
  <2>2. n = v * BlockFrames + Len(buf) /\ Seat(n) = cur * BlockFrames + Len(buf) - 1 /\ Seat(n) \in Slots
    <3>1. n = seq_next - 1 - Len(buf) + Len(buf)
      BY <1>1
    <3> QED
      BY <1>2, <2>1, <3>1, BufferSeat
  <2>3. \A y \in Slots : y = cur * BlockFrames + Len(buf) - 1 => platter'[y][Len(platter'[y])] = buf[Len(buf)]
    BY <1>8, <2>1 DEF Current
  <2>4. platter'[Seat(n)][Len(platter'[Seat(n)])] = buf[Len(buf)]
    BY <2>2, <2>3
  <2>5. buf[Len(buf)][1] = n
    BY <1>5, <1>17 DEF Tip
  <2> QED
    BY <2>4, <2>5 DEF Shown, Here, Seq0, Current, Seat
<1> QED
    BY <1>10, <1>11, <1>12, <1>13, <1>14, <1>15, <1>16, <1>17 DEF Stored, Open

\* A device that has been synchronised.
LEMMA SyncedStored ==
    ASSUME Inside, Inside', Stored, Open, mode' = "up", Sync,
           UNCHANGED <<seq_next, covered, history, life>>, AdvanceAfterWrite \/ buf' = buf,
           promised' = promised \/ (promised' = seq_next - 1 /\ Shown), faults' = 0 => faults = 0
    PROVE  Stored'
<1>1. /\ DeviceRight /\ DeviceRight' /\ covered \in Nat /\ seq_next \in Nat /\ Len(buf) \in Nat
      /\ life \in Nat \ {0} /\ promised \in Nat /\ covered < seq_next /\ mode # "down"
  <2>1. covered \in Nat /\ seq_next \in Nat /\ Len(buf) \in Nat /\ life \in Nat \ {0} /\ promised \in Nat
    BY LenProperties, BoundAssumption DEF Inside, Typed, BufRight, BufferRight
  <2>2. DeviceRight /\ DeviceRight' /\ covered < seq_next
    BY DEF Inside, Located
  <2>3. mode # "down"
    BY DEF Open
  <2> QED
    BY <2>1, <2>2, <2>3
<1>3. PICK k \in Nat : /\ Len(buf') = Len(buf) - k /\ k <= Len(buf) /\ Len(buf') \in Nat
                      /\ \A i \in 1 .. Len(buf') : k + i \in 1 .. Len(buf) /\ buf'[i] = buf[k + i]
    BY BufferShift
<1>4. \A i \in 1 .. Len(buf') : seq_next - 1 - Len(buf') + i = seq_next - 1 - Len(buf) + (k + i)
    BY <1>1, <1>3
<1>5. Ungiven /\ Own /\ Gapless /\ Tip /\ Anchored /\ (faults = 0 => Holes) /\ LivesTo(life)
    BY <1>1 DEF Stored
<1>6. \A x \in Slots : platter'[x] = <<Current(x)>> /\ Current(x)' = Current(x)
    BY SyncSlot DEF Sync
<1>7. \A x \in Slots : /\ Len(platter'[x]) = 1 /\ platter'[x][1] = platter[x][Len(platter[x])]
                       /\ Len(platter[x]) \in 1 .. Len(platter[x])
  <2> SUFFICES ASSUME NEW x \in Slots
               PROVE  /\ Len(platter'[x]) = 1 /\ platter'[x][1] = platter[x][Len(platter[x])]
                      /\ Len(platter[x]) \in 1 .. Len(platter[x])
    OBVIOUS
  <2>1. Len(platter[x]) \in 1 .. Len(platter[x]) /\ Current(x) = platter[x][Len(platter[x])]
    BY <1>1, Contents
  <2>2. platter'[x] = <<Current(x)>>
    BY <1>6
  <2>3. Len(platter'[x]) = 1 /\ platter'[x][1] = Current(x)
    BY <2>2
  <2> QED
    BY <2>1, <2>3
<1>8. \A n \in Nat \ {0} : (Here(n) => Here(n)' /\ Kept(n)') /\ (Kept(n) => Here(n))
    BY <1>1, SyncHere
<1>10. LivesTo(IF mode = "down" THEN life - 1 ELSE life)'
  <2>1. \A x \in Slots : \A i \in 1 .. Len(platter'[x]) : platter'[x][i][2] <= life /\ (platter'[x][i][1] # 0 => platter'[x][i][2] > 0)
    <3> SUFFICES ASSUME NEW x \in Slots, NEW i \in 1 .. Len(platter'[x])
                 PROVE  platter'[x][i][2] <= life /\ (platter'[x][i][1] # 0 => platter'[x][i][2] > 0)
      OBVIOUS
    <3>3. Len(platter'[x]) = 1
      BY <1>7
    <3>1. i = 1
      BY <3>3
    <3>2. platter'[x][i] = platter[x][Len(platter[x])] /\ Len(platter[x]) \in 1 .. Len(platter[x])
      BY <1>7, <3>1
    <3> QED
      BY <1>5, <3>2 DEF LivesTo
  <2>2. \A i \in 1 .. Len(buf') : buf'[i][2] <= life /\ (buf'[i][1] # 0 => buf'[i][2] > 0)
    BY <1>3, <1>5 DEF LivesTo
  <2> QED
    BY <2>1, <2>2 DEF LivesTo
<1>11. Ungiven' /\ Tip'
    BY <1>5, TipShift DEF Ungiven
<1>13. Own'
  <2> SUFFICES ASSUME NEW i \in 1 .. Len(buf'), NEW n, n = seq_next - 1 - Len(buf') + i, covered < n
               PROVE  buf'[i][2] = life \/ Current(Seat(n))' = buf'[i]
    BY DEF Own, Current, Seat
  <2>1. k + i \in 1 .. Len(buf) /\ buf'[i] = buf[k + i] /\ n = seq_next - 1 - Len(buf) + (k + i)
    BY <1>3, <1>4
  <2>2. buf[k + i][2] = life \/ Current(Seat(n)) = buf[k + i]
    BY <1>5, <2>1 DEF Own
  <2>3. Seat(n) \in Slots
    <3>1. n \in Nat \ {0}
      BY <1>1, <2>1
    <3> QED
      BY <3>1, Seats
  <2> QED
    BY <1>6, <2>1, <2>2, <2>3
<1>14. Gapless'
  <2> SUFFICES ASSUME NEW x \in Slots, NEW n \in covered + 1 .. Current(x)'[1] - 1 PROVE Here(n)'
    BY DEF Gapless, Seq0
  <2>1. Here(n)
    BY <1>5, <1>6 DEF Gapless, Seq0
  <2>2. n \in Nat \ {0}
    <3> DEFINE m == Current(x)'[1]
    <3>1. m \in Nat
      BY <1>1, <1>6, Contents
    <3>2. n \in covered + 1 .. m - 1
      OBVIOUS
    <3> HIDE DEF m
    <3> QED
      BY <1>1, <3>1, <3>2
  <2> QED
    BY <1>8, <2>1, <2>2
<1>15. Anchored'
  <2> SUFFICES ASSUME NEW n, n = covered, promised' = n, n > 0
               PROVE  \/ Kept(n)' /\ \A i \in 1 .. Len(buf') : seq_next - 1 - Len(buf') + i = n => buf'[i][1] = n
                      \/ Kept(n + 1)'
    BY DEF Anchored, Kept, Seat
  <2>1. CASE promised' = seq_next - 1 /\ Shown
    <3>1. n = seq_next - 1 /\ Here(n)
      BY <1>1, <2>1 DEF Shown
    <3>2. Kept(n)'
      BY <1>1, <1>8, <3>1
    <3>3. ASSUME NEW i \in 1 .. Len(buf'), seq_next - 1 - Len(buf') + i = n PROVE buf'[i][1] = n
      <4>1. i = Len(buf') /\ buf' # <<>>
        BY <1>1, <1>3, <3>1, <3>3
      <4> QED
        BY <1>11, <3>1, <4>1 DEF Tip
    <3> QED
      BY <3>2, <3>3
  <2>2. CASE promised = n /\ Kept(n + 1)
    <3>1. n + 1 \in Nat \ {0}
      BY <1>1
    <3> QED
      BY <1>8, <2>2, <3>1
  <2>3. CASE promised = n /\ Kept(n) /\ \A i \in 1 .. Len(buf) : seq_next - 1 - Len(buf) + i = n => buf[i][1] = n
    <3>1. Kept(n)'
      BY <1>1, <1>8, <2>3
    <3>2. ASSUME NEW i \in 1 .. Len(buf'), seq_next - 1 - Len(buf') + i = n PROVE buf'[i][1] = n
      BY <1>3, <1>4, <2>3, <3>2
    <3> QED
      BY <3>1, <3>2
  <2> QED
    BY <1>1, <1>5, <2>1, <2>2, <2>3 DEF Anchored
<1>16. ASSUME faults' = 0 PROVE Holes'
  <2>0. Holes
    BY <1>5, <1>16
  <2> SUFFICES ASSUME NEW x \in Slots, NEW i \in 1 .. Len(platter'[x]), NEW n \in covered + 1 .. platter'[x][i][1] - 1
               PROVE  \/ Kept(n)' \/ Near(n, platter'[x][i][1])
                      \/ Older(n, platter'[x][i][2]) /\ (i = Len(platter'[x]) \/ Here(n)')
    BY DEF Holes, Near, Older, Seat
  <2>1. n \in Nat \ {0}
    <3> DEFINE m == platter'[x][i][1]
    <3>1. m \in Nat /\ n \in covered + 1 .. m - 1
      BY <1>1, ContentsAfter
    <3> HIDE DEF m
    <3> QED
      BY <1>1, <3>1 DEF m
  <2>5. Len(platter'[x]) = 1
    BY <1>7
  <2>4. i = 1 /\ Len(platter'[x]) = 1
    BY <2>5
  <2>2. i = 1 /\ Len(platter'[x]) = 1 /\ platter'[x][i] = platter[x][Len(platter[x])] /\ Len(platter[x]) \in 1 .. Len(platter[x])
    BY <1>7, <2>4
  <2>3. Kept(n) \/ Near(n, platter'[x][i][1]) \/ Older(n, platter'[x][i][2])
    BY <2>0, <2>2 DEF Holes
  <2> QED
    BY <1>8, <2>1, <2>2, <2>3
<1> QED
    BY <1>10, <1>11, <1>13, <1>14, <1>15, <1>16 DEF Stored, Open

\* A process that ends.
LEMMA StopStored ==
    ASSUME Inside, Inside', Traced, Stored, CloseDevice \/ PowerFailure \/ Kill
    PROVE  Stored'
<1>1. /\ mode' = "down" /\ UNCHANGED <<covered, history, promised, faults>> /\ life' = life + 1 /\ buf' = <<>>
      /\ Torn \/ (UNCHANGED platter /\ Open)
  <2>1. CASE CloseDevice
    BY <2>1 DEF CloseDevice, device, At, Forget, Open
  <2>2. CASE PowerFailure
    BY <2>2 DEF PowerFailure, Forget
  <2>3. CASE Kill
    BY <2>3 DEF Kill, device, Forget, Open
  <2> QED
    BY <2>1, <2>2, <2>3
<1>2. /\ DeviceRight /\ DeviceRight' /\ covered \in Nat /\ life \in Nat \ {0} /\ promised \in Nat
  <2>1. covered \in Nat /\ life \in Nat \ {0} /\ promised \in Nat
    BY BoundAssumption DEF Inside, Typed
  <2>2. DeviceRight /\ DeviceRight'
    BY DEF Inside
  <2> QED
    BY <2>1, <2>2
<1>3. Anchored /\ (faults = 0 => Holes)
    BY DEF Stored
<1>4. \A x \in Slots : \A i \in 1 .. Len(platter[x]) :
          platter[x][i][2] <= life /\ (platter[x][i][1] # 0 => platter[x][i][2] > 0)
  <2> SUFFICES ASSUME NEW x \in Slots, NEW i \in 1 .. Len(platter[x])
               PROVE  platter[x][i][2] <= life /\ (platter[x][i][1] # 0 => platter[x][i][2] > 0)
    OBVIOUS
  <2> DEFINE f == platter[x][i]
             l == IF mode = "down" THEN life - 1 ELSE life
  <2>1. f[2] <= l /\ (f[1] # 0 => f[2] > 0)
    BY DEF Stored, LivesTo
  <2>2. f[2] \in Nat
    BY <1>2, Contents
  <2>3. l <= life /\ l \in Int
    BY <1>2
  <2> HIDE DEF f, l
  <2>4. f[2] <= life /\ (f[1] # 0 => f[2] > 0)
    BY <1>2, <2>1, <2>2, <2>3
  <2> QED
    BY <2>4 DEF f
<1>5. CASE UNCHANGED platter /\ Open
  <2>1. LivesTo(IF mode = "down" THEN life - 1 ELSE life)'
    <3>1. (IF mode' = "down" THEN life' - 1 ELSE life') = life /\ Len(buf') = 0
      BY <1>1, <1>2
    <3> QED
      BY <1>4, <1>5, <3>1 DEF LivesTo
  <2>2. Latest'
    <3> SUFFICES ASSUME NEW x \in Slots, covered < Seq0(x) PROVE Current(x)[2] = history[Seq0(x)]
      BY <1>1, <1>5 DEF Latest, Current, Seq0
    <3> QED
      BY <1>5 DEF Traced, Newest, Known, Seq0
  <2>3. Gapless'
    <3>1. Gapless
      BY <1>5 DEF Stored
    <3> QED
      BY <1>1, <1>5, <3>1 DEF Gapless, Seq0, Current, Here, Seat
  <2>4. Anchored'
    BY <1>1, <1>3, <1>5 DEF Anchored, Kept, Seat, Open
  <2>6. Holes => Holes'
    BY <1>1, <1>5, SameHoles
  <2>5. faults' = 0 => Holes'
    BY <1>1, <1>3, <2>6
  <2> QED
    BY <1>1, <2>1, <2>2, <2>3, <2>4, <2>5 DEF Stored, Open
<1>6. CASE Torn
  <2>1. \A x \in Slots : \E j \in 1 .. Len(platter[x]) : Len(platter'[x]) = 1 /\ platter'[x][1] = platter[x][j]
    <3> SUFFICES ASSUME NEW x \in Slots
                 PROVE  \E j \in 1 .. Len(platter[x]) : Len(platter'[x]) = 1 /\ platter'[x][1] = platter[x][j]
      OBVIOUS
    <3>1. PICK pick \in [Unsynced -> 1 .. Most] :
              /\ \A y \in Unsynced : pick[y] <= Len(platter[y])
              /\ platter' = [y \in Slots |->
                               <<platter[y][IF y \in Unsynced THEN pick[y] ELSE 1]>>]
      BY <1>6 DEF Torn
    <3>2. Len(platter[x]) \in Nat \ {0}
      BY <1>2, Contents
    <3>3. PICK j \in 1 .. Len(platter[x]) : platter'[x] = <<platter[x][j]>>
      BY <3>1, <3>2
    <3> QED
      BY <3>3
  <2>2. LivesTo(IF mode = "down" THEN life - 1 ELSE life)'
    <3>1. (IF mode' = "down" THEN life' - 1 ELSE life') = life /\ Len(buf') = 0
      BY <1>1, <1>2
    <3>2. ASSUME NEW x \in Slots, NEW i \in 1 .. Len(platter'[x])
          PROVE  platter'[x][i][2] <= life /\ (platter'[x][i][1] # 0 => platter'[x][i][2] > 0)
      <4>1. PICK j \in 1 .. Len(platter[x]) : Len(platter'[x]) = 1 /\ platter'[x][1] = platter[x][j]
        BY <2>1
      <4>2. i = 1
        BY <4>1
      <4> QED
        BY <1>4, <4>1, <4>2
    <3> QED
      BY <3>1, <3>2 DEF LivesTo
  <2>3. Settled'
    BY <2>1 DEF Settled
  <2>4. Anchored'
    <3> SUFFICES ASSUME NEW n, n = covered, promised = n, n > 0 PROVE Kept(n)' \/ Kept(n + 1)'
      BY <1>1 DEF Anchored, Kept, Seat, Open
    <3>1. n \in Nat \ {0} /\ n + 1 \in Nat \ {0}
      BY <1>2
    <3>2. Kept(n) \/ Kept(n + 1)
      BY <1>3 DEF Anchored
    <3> QED
      BY <1>2, <1>6, <3>1, <3>2, TornKept
  <2>5. ASSUME faults' = 0 PROVE Holes'
    <3>0. Holes
      BY <1>1, <1>3, <2>5
    <3> SUFFICES ASSUME NEW x \in Slots, NEW i \in 1 .. Len(platter'[x]), NEW n \in covered + 1 .. platter'[x][i][1] - 1
                 PROVE  \/ Kept(n)' \/ Near(n, platter'[x][i][1])
                        \/ Older(n, platter'[x][i][2]) /\ i = Len(platter'[x])
      BY <1>1 DEF Holes, Near, Older, Seat
    <3>1. PICK j \in 1 .. Len(platter[x]) : Len(platter'[x]) = 1 /\ platter'[x][1] = platter[x][j]
      BY <2>1
    <3>2. i = 1
      BY <3>1
    <3>3. platter'[x][i] = platter[x][j]
      BY <3>1, <3>2
    <3>4. Kept(n) \/ Near(n, platter'[x][i][1]) \/ Older(n, platter'[x][i][2])
      BY <3>0, <3>3 DEF Holes
    <3>5. n \in Nat \ {0}
      <4> DEFINE m == platter'[x][i][1]
      <4>1. m \in Nat /\ n \in covered + 1 .. m - 1
        BY <1>2, ContentsAfter
      <4> HIDE DEF m
      <4> QED
        BY <1>2, <4>1 DEF m
    <3> QED
      BY <1>2, <1>6, <3>1, <3>2, <3>4, <3>5, TornKept
  <2> QED
    BY <1>1, <2>2, <2>3, <2>4, <2>5 DEF Stored, Open
<1> QED
    BY <1>1, <1>5, <1>6

\* What Recover finds and makes of it.
LEMMA RecoverFinds ==
    ASSUME Inside, Inside', Traced, Recover, ErasesOnlyFragments'
    PROVE  \E c : /\ c = Survey /\ Acceptable(c)
                  /\ c.anchor \in Nat /\ covered <= c.anchor /\ seq_next' = c.anchor + 1
                  /\ Len(buf') \in 0 .. BlockFrames - 1
                  /\ \A i \in 1 .. Len(buf') : \A n :
                         n = c.anchor - Len(buf') + i =>
                             n \in Nat \ {0} /\ Seat(n) \in Slots /\ buf'[i] = Current(Seat(n))
                  /\ buf' # <<>> => Here(c.anchor)
                  /\ \A x \in Slots : c.anchor < Seq0(x) => x \in c.fragments
                  /\ \A x \in Slots : Seq0(x) # c.anchor + 1
                  /\ \A n \in Nat : covered < n /\ n <= c.anchor =>
                         /\ Here(n) /\ Here(n)' /\ (Kept(n) => Kept(n)')
                         /\ history'[n] = Current(Seat(n))[2]
                  /\ \A n \in c.anchor + 1 .. MaxSeq : history'[n] = 0
                  /\ \A x \in Slots : Current(x)' = None \/ (Current(x)' = Current(x) /\ x \notin c.fragments)
                  /\ \A x \in Slots : \A i \in 1 .. Len(platter'[x]) :
                         platter'[x][i] = None \/ (i \in 1 .. Len(platter[x]) /\ platter'[x][i] = platter[x][i])
                  /\ UNCHANGED platter \/ (c.fragments # {} /\ c.fragments \subseteq Live)
<1>1. PICK c \in {Survey} :
         /\ Acceptable(c)
         /\ cur' = c.tail
         /\ buf' = [i \in 1 .. c.frames |-> Current(c.tail * BlockFrames + i - 1)]
         /\ seq_next' = c.anchor + 1
         /\ \/ c.fragments = {} /\ mode' = "up" /\ UNCHANGED platter
            \/ c.fragments # {} /\ mode' = "erasing" /\ Erase(c)
         /\ history' = [s \in 1 .. MaxSeq |->
              IF \E x \in c.run : Seq0(x) = s
              THEN Current(CHOOSE x \in c.run : Seq0(x) = s)[2]
              ELSE IF s < seq_next' THEN history[s] ELSE 0]
    BY Zenon DEF Recover
<1>2. UNCHANGED covered /\ mode = "down"
    BY DEF Recover
<1>3. DeviceRight /\ covered \in Nat /\ DeviceRight' /\ MaxSeq \in Nat
    BY BoundAssumption DEF Inside, Typed
<1>4. /\ \A x \in c.run : x \in Slots /\ covered < Seq0(x) /\ Seq0(x) <= c.anchor
      /\ \A x \in Slots : covered < Seq0(x) /\ Seq0(x) <= c.anchor => x \in c.run
      /\ \A x \in Slots : c.anchor < Seq0(x) => x \in c.fragments
      /\ \A x \in Slots : Seq0(x) # c.anchor + 1
      /\ \A n \in Nat : covered < n /\ n <= c.anchor => Here(n)
    BY <1>1, <1>3, RunSeats, AcceptedWalk
<1>5. /\ c.anchor \in Nat /\ c.anchor <= MaxSeq /\ covered <= c.anchor
      /\ c.frames \in 0 .. BlockFrames - 1 /\ c.frames \in Nat /\ c.tail \in Nat
      /\ \A i \in 1 .. c.frames : c.tail * BlockFrames + i - 1 \in Slots
      /\ \E v \in Nat : Lies(v, c.tail) /\ v * BlockFrames + c.frames = c.anchor
  <2>1. /\ c.anchor \in 0 .. MaxSeq /\ covered <= c.anchor /\ c.frames \in 0 .. BlockFrames - 1
        /\ \A i \in 1 .. c.frames : c.tail * BlockFrames + i - 1 \in Slots
        /\ \E v \in Nat : Lies(v, c.tail) /\ v * BlockFrames + c.frames = c.anchor
    BY <1>1, <1>3, Surveyed, AcceptedWalk
  <2>2. c.anchor \in Nat /\ c.anchor <= MaxSeq /\ c.frames \in Nat
    BY <1>3, <2>1, Sizes
  <2>3. c.tail \in Nat
    BY <2>1, Sizes DEF Lies
  <2> QED
    BY <2>1, <2>2, <2>3
<1>6. Len(buf') = c.frames
    BY <1>1, <1>5
<1>7. ASSUME NEW i \in 1 .. Len(buf'), NEW n, n = c.anchor - Len(buf') + i
      PROVE  n \in Nat \ {0} /\ Seat(n) \in Slots /\ buf'[i] = Current(Seat(n))
  <2> DEFINE y == c.tail * BlockFrames + i - 1
  <2>1. i \in 1 .. c.frames /\ buf'[i] = Current(y) /\ y \in Slots
    BY <1>1, <1>5, <1>6
  <2>2. PICK v \in Nat : Lies(v, c.tail) /\ v * BlockFrames + c.frames = c.anchor
    BY <1>5
  <2>3. PICK q \in Nat : v = q * RingBlocks + c.tail
    BY <2>2 DEF Lies
  <2> DEFINE t == c.tail * BlockFrames
             b == v * BlockFrames
             a == q * RingBlocks * BlockFrames
  <2>4. t \in Int /\ a \in Int /\ b = a + t /\ b \in Nat
    <3>1. q * RingBlocks \in Int /\ c.tail \in Int
      BY <1>5, Sizes
    <3>2. (q * RingBlocks + c.tail) * BlockFrames = a + t /\ a \in Int /\ t \in Int
      BY <3>1, Sizes, Products
    <3> QED
      BY <2>3, <3>2, Sizes
  <2>5. n - 1 = a + y /\ n \in Nat \ {0}
    <3>1. b + c.frames = c.anchor /\ y = t + i - 1
      BY <2>2
    <3>2. n = c.anchor - c.frames + i /\ i \in Nat \ {0} /\ c.anchor \in Nat /\ c.frames \in Nat
      BY <1>5, <1>6, <1>7, <2>1
    <3> HIDE DEF a, b, t, y
    <3> QED
      BY <2>4, <3>1, <3>2
  <2>6. Home(n, y)
    <3> HIDE DEF y
    <3> QED
      BY <2>5 DEF Home, a
  <2>7. y = Seat(n)
    BY <2>1, <2>5, <2>6, Seats
  <2> QED
    BY <2>1, <2>5, <2>7
<1>8. \A x \in Slots : Seq0(x) \in Nat /\ Home(Seq0(x), x) /\ Seq0(x) = Current(x)[1]
    BY <1>3, CurrentFacts, BoundAssumption DEF Seq0, Frames, DeviceRight
<1>9. ASSUME buf' # <<>> PROVE Here(c.anchor)
  <2>1. c.frames # 0
    BY <1>1, <1>5, <1>9
  <2>2. CASE covered < c.anchor
    BY <1>4, <1>5, <2>2
  <2>3. CASE c.anchor = covered
    <3>1. Live = {}
      <4> SUFFICES ASSUME Live # {} PROVE FALSE
        OBVIOUS
      <4>1. c.anchor = covered + c.replayed /\ c.replayed \in Nat \ {0}
        BY <1>1, <1>3, RunSeats, AcceptedWalk
      <4> QED
        BY <1>3, <2>3, <4>1
    <3>2. Valid # {}
      <4> SUFFICES ASSUME Valid = {} PROVE FALSE
        OBVIOUS
      <4>1. c.frames = 0
        BY <1>1 DEF Survey
      <4> QED
        BY <2>1, <4>1
    <3> DEFINE valid == Valid
               newest == CHOOSE x \in valid : \A y \in valid :
                       Seq0(x) > Seq0(y) \/ (Seq0(x) = Seq0(y) /\ x <= y)
    <3>3. c.anchor = Seq0(newest)
      BY <1>1, <3>1, <3>2 DEF Survey
    <3>4. newest \in valid
      <4>1. \E x \in valid : \A y \in valid : Seq0(x) > Seq0(y) \/ (Seq0(x) = Seq0(y) /\ x <= y)
        <5>1. valid \in SUBSET Slots /\ valid # {}
          BY <3>2 DEF Valid
        <5> HIDE DEF valid
        <5> QED
          BY <1>3, <5>1, FirstAndNewest DEF DeviceRight
      <4> QED
        BY <4>1
    <3> HIDE DEF newest
    <3>5. newest \in Slots /\ Seq0(newest) # 0
      BY <3>4 DEF Valid
    <3>6. newest = Seat(c.anchor)
      BY <1>8, <3>3, <3>5, Seats
    <3> QED
      BY <3>3, <3>6 DEF Here
  <2> QED
    BY <1>3, <1>5, <2>2, <2>3
<1>10. /\ \A x \in Slots : Current(x)' = None \/ (Current(x)' = Current(x) /\ x \notin c.fragments)
       /\ \A x \in Slots : \A i \in 1 .. Len(platter'[x]) :
              platter'[x][i] = None \/ (i \in 1 .. Len(platter[x]) /\ platter'[x][i] = platter[x][i])
  <2>1. CASE c.fragments = {} /\ UNCHANGED platter
    BY <2>1 DEF Current
  <2>2. CASE Erase(c)
    BY <1>1, <1>3, <2>2, EraseTraced
  <2> QED
    BY <1>1, <2>1, <2>2
<1>11. ASSUME NEW n \in Nat, covered < n, n <= c.anchor
       PROVE  Here(n) /\ Here(n)' /\ (Kept(n) => Kept(n)')
  <2>1. n \in Nat \ {0} /\ Here(n)
    BY <1>3, <1>4, <1>11
  <2>2. CASE UNCHANGED platter
    BY <2>1, <2>2 DEF Here, Kept, Seq0, Current, Seat
  <2>3. CASE mode' = "erasing" /\ Erase(c)
    <3>1. n \in covered' + 1 .. seq_next' - 1
      BY <1>1, <1>2, <1>3, <1>5, <1>11
    <3>2. ~ Missing(n)'
      BY <2>3, <3>1 DEF ErasesOnlyFragments
    <3>3. PICK x \in Slots : Seq0(x)' = n
      BY <3>2 DEF Missing
    <3>4. Home(n, x)
      <4>1. Len(platter'[x]) \in 1 .. Len(platter'[x]) /\ Seq0(x)' = platter'[x][Len(platter'[x])][1]
        BY <1>3, ContentsAfter DEF Seq0, Current
      <4> QED
        BY <1>3, <3>3, <4>1, ContentsAfter
    <3>5. x = Seat(n)
      BY <2>1, <3>4, Seats
    <3>6. Here(n)'
      BY <3>3, <3>5 DEF Here, Seat
    <3> QED
      BY <1>3, <2>1, <2>3, <3>6, EraseHere
  <2> QED
    BY <1>1, <2>2, <2>3
<1>12. ASSUME NEW n \in Nat, covered < n, n <= c.anchor
       PROVE  history'[n] = Current(Seat(n))[2]
  <2> DEFINE y == CHOOSE z \in c.run : Seq0(z) = n
  <2>1. n \in Nat \ {0} /\ n \in 1 .. MaxSeq /\ Here(n) /\ Seat(n) \in Slots
    <3>1. n \in Nat \ {0} /\ n \in 1 .. MaxSeq
      BY <1>3, <1>5, <1>12
    <3> QED
      BY <1>4, <1>12, <3>1, Seats
  <2>2. Seat(n) \in c.run /\ Seq0(Seat(n)) = n
    BY <1>4, <1>12, <2>1 DEF Here
  <2>3. y \in c.run /\ Seq0(y) = n
    BY <2>2, Zenon
  <2>4. y = Seat(n)
    <3> HIDE DEF y
    <3>1. y \in Slots /\ Home(n, y)
      BY <1>4, <1>8, <2>3
    <3> QED
      BY <2>1, <3>1, Seats
  <2>5. history'[n] = Current(y)[2]
    BY <1>1, <2>1, <2>2
  <2> QED
    BY <2>4, <2>5
<1>13. ASSUME NEW n \in c.anchor + 1 .. MaxSeq PROVE history'[n] = 0
  <2>1. n \in 1 .. MaxSeq /\ c.anchor < n
    BY <1>3, <1>5
  <2>2. ~ \E x \in c.run : Seq0(x) = n
    BY <1>4, <1>5, <2>1
  <2>3. ~ (n < seq_next')
    BY <1>1, <1>5, <2>1
  <2> QED
    BY <1>1, <2>1, <2>2, <2>3
<1>14. UNCHANGED platter \/ (c.fragments # {} /\ c.fragments \subseteq Live)
  <2>0. c = Survey
    OBVIOUS
  <2>1. c.live = Live /\ c.fragments = c.live \ c.run
    BY <2>0 DEF Survey
  <2> QED
    BY <1>1, <2>1
<1>15. c = Survey /\ Acceptable(c) /\ seq_next' = c.anchor + 1 /\ Len(buf') \in 0 .. BlockFrames - 1
    BY <1>1, <1>5, <1>6
<1>16. \A n \in Nat : covered < n /\ n <= c.anchor =>
           Here(n) /\ Here(n)' /\ (Kept(n) => Kept(n)') /\ history'[n] = Current(Seat(n))[2]
    BY <1>11, <1>12
<1> QED
    BY <1>4, <1>5, <1>7, <1>9, <1>10, <1>13, <1>14, <1>15, <1>16, Zenon

\* A process that has replayed its log.
LEMMA RecoverStored ==
    ASSUME Inside, Inside', Traced, Stored, Recover, ErasesOnlyFragments'
    PROVE  Stored' /\ Fresh' /\ Len(buf') < BlockFrames
<1>1. PICK c : /\ c = Survey /\ Acceptable(c)
               /\ c.anchor \in Nat /\ covered <= c.anchor /\ seq_next' = c.anchor + 1
               /\ Len(buf') \in 0 .. BlockFrames - 1
               /\ \A i \in 1 .. Len(buf') : \A n :
                      n = c.anchor - Len(buf') + i =>
                          n \in Nat \ {0} /\ Seat(n) \in Slots /\ buf'[i] = Current(Seat(n))
               /\ buf' # <<>> => Here(c.anchor)
               /\ \A x \in Slots : c.anchor < Seq0(x) => x \in c.fragments
               /\ \A x \in Slots : Seq0(x) # c.anchor + 1
               /\ \A n \in Nat : covered < n /\ n <= c.anchor =>
                      /\ Here(n) /\ Here(n)' /\ (Kept(n) => Kept(n)')
                      /\ history'[n] = Current(Seat(n))[2]
               /\ \A n \in c.anchor + 1 .. MaxSeq : history'[n] = 0
               /\ \A x \in Slots : Current(x)' = None \/ (Current(x)' = Current(x) /\ x \notin c.fragments)
               /\ \A x \in Slots : \A i \in 1 .. Len(platter'[x]) :
                      platter'[x][i] = None \/ (i \in 1 .. Len(platter[x]) /\ platter'[x][i] = platter[x][i])
               /\ UNCHANGED platter \/ (c.fragments # {} /\ c.fragments \subseteq Live)
    BY RecoverFinds, Zenon
<1>2. UNCHANGED <<covered, life, promised, faults>> /\ mode = "down" /\ mode' \in {"up", "erasing"}
    BY DEF Recover
<1>3. /\ DeviceRight /\ DeviceRight' /\ covered \in Nat /\ MaxSeq \in Nat /\ life \in Nat \ {0} /\ promised \in Nat
      /\ Len(buf') \in Nat /\ seq_next' \in Nat /\ BlockFrames \in Nat
  <2>1. covered \in Nat /\ MaxSeq \in Nat /\ life \in Nat \ {0} /\ promised \in Nat
    BY BoundAssumption DEF Inside, Typed
  <2>2. DeviceRight /\ DeviceRight'
    BY DEF Inside
  <2> QED
    BY <1>1, <2>1, <2>2, Sizes
<1>4. LivesTo(life - 1) /\ (Settled \/ (Latest /\ Gapless)) /\ (faults = 0 => Holes)
    BY <1>2 DEF Stored
<1>5. ASSUME NEW i \in 1 .. Len(buf'), NEW n, n = seq_next' - 1 - Len(buf') + i
      PROVE  n \in Nat \ {0} /\ n <= c.anchor /\ Seat(n) \in Slots /\ buf'[i] = Current(Seat(n))
  <2>1. n = c.anchor - Len(buf') + i
    BY <1>1, <1>3, <1>5
  <2>2. n <= c.anchor
    BY <1>1, <1>3, <2>1
  <2> QED
    BY <1>1, <2>1, <2>2
<1>6. ASSUME NEW n \in Nat, covered < n, n <= c.anchor
      PROVE  /\ n \in Nat \ {0} /\ Seat(n) \in Slots /\ Here(n) /\ Here(n)' /\ (Kept(n) => Kept(n)')
             /\ history'[n] = Current(Seat(n))[2]
             /\ Current(Seat(n)) = platter[Seat(n)][Len(platter[Seat(n)])] /\ Current(Seat(n))[1] = n
             /\ Kept(n) \/ (Latest /\ Gapless)
  <2>1. n \in Nat \ {0}
    BY <1>3, <1>6
  <2>2. Seat(n) \in Slots /\ Here(n) /\ Here(n)' /\ (Kept(n) => Kept(n)') /\ history'[n] = Current(Seat(n))[2]
    BY <1>1, <1>6, <2>1, Seats
  <2>3. Current(Seat(n)) = platter[Seat(n)][Len(platter[Seat(n)])] /\ Current(Seat(n))[1] = n
    BY <2>2 DEF Here, Seq0, Current
  <2>4. Settled => Kept(n)
    BY <2>2, <2>3 DEF Settled, Kept
  <2> QED
    BY <1>4, <2>1, <2>2, <2>3, <2>4
<1>7. ASSUME NEW x \in Slots
      PROVE  /\ Len(platter[x]) \in Nat \ {0} /\ Len(platter[x]) \in 1 .. Len(platter[x])
             /\ Current(x) = platter[x][Len(platter[x])] /\ Seq0(x) = Current(x)[1] /\ Seq0(x) \in Nat
             /\ \A i \in 1 .. Len(platter[x]) :
                    /\ platter[x][i][1] \in Nat /\ platter[x][i][1] <= MaxSeq /\ platter[x][i][2] \in Nat
                    /\ platter[x][i][2] <= life - 1 /\ (platter[x][i][1] # 0 => platter[x][i][2] > 0)
             /\ Current(x)[2] \in Nat /\ Current(x)[2] <= life - 1 /\ (Current(x)[1] # 0 => Current(x)[2] > 0)
  <2>1. /\ Len(platter[x]) \in Nat \ {0} /\ Len(platter[x]) \in 1 .. Len(platter[x])
        /\ Current(x) = platter[x][Len(platter[x])]
        /\ \A i \in 1 .. Len(platter[x]) :
               /\ platter[x][i][1] \in Nat /\ platter[x][i][1] <= MaxSeq /\ platter[x][i][2] \in Nat
    BY <1>3, Contents
  <2>2. \A i \in 1 .. Len(platter[x]) : platter[x][i][2] <= life - 1 /\ (platter[x][i][1] # 0 => platter[x][i][2] > 0)
    BY <1>4 DEF LivesTo
  <2> QED
    BY <2>1, <2>2 DEF Seq0
<1>10. LivesTo(IF mode = "down" THEN life - 1 ELSE life)'
  <2>0. (IF mode' = "down" THEN life' - 1 ELSE life') = life /\ life' = life
    BY <1>2
  <2>1. ASSUME NEW x \in Slots, NEW i \in 1 .. Len(platter'[x])
        PROVE  platter'[x][i][2] <= life /\ (platter'[x][i][1] # 0 => platter'[x][i][2] > 0)
    <3>1. CASE platter'[x][i] = None
      BY <1>3, <3>1 DEF None
    <3>2. CASE i \in 1 .. Len(platter[x]) /\ platter'[x][i] = platter[x][i]
      <4> DEFINE f == platter[x][i]
      <4>1. f[2] \in Nat /\ f[2] <= life - 1 /\ (f[1] # 0 => f[2] > 0)
        BY <1>7, <3>2
      <4> HIDE DEF f
      <4>2. f[2] <= life
        BY <1>3, <4>1
      <4> QED
        BY <3>2, <4>1, <4>2 DEF f
    <3> QED
      BY <1>1, <3>1, <3>2
  <2>2. ASSUME NEW i \in 1 .. Len(buf')
        PROVE  buf'[i][2] <= life /\ (buf'[i][1] # 0 => buf'[i][2] > 0)
    <3>1. PICK n : n = seq_next' - 1 - Len(buf') + i
      OBVIOUS
    <3>2. Seat(n) \in Slots /\ buf'[i] = Current(Seat(n))
      BY <1>5, <3>1
    <3> DEFINE f == buf'[i]
    <3>3. f[2] \in Nat /\ f[2] <= life - 1 /\ (f[1] # 0 => f[2] > 0)
      BY <1>7, <3>2
    <3> HIDE DEF f
    <3>4. f[2] <= life
      BY <1>3, <3>3
    <3> QED
      BY <3>3, <3>4 DEF f
  <2> QED
    BY <2>0, <2>1, <2>2 DEF LivesTo
<1>11. Ungiven'
    BY <1>1 DEF Ungiven
<1>12. Tip'
  <2> SUFFICES ASSUME buf' # <<>> PROVE buf'[Len(buf')][1] = c.anchor
    BY <1>1 DEF Tip
  <2>1. Len(buf') \in 1 .. Len(buf')
    <3>1. buf' \in Seq(Frames)
      BY DEF Inside, BufRight, BufferRight
    <3>2. Len(buf') # 0
      BY <3>1, EmptySeq
    <3> QED
      BY <1>3, <3>2
  <2>2. c.anchor = seq_next' - 1 - Len(buf') + Len(buf')
    BY <1>1, <1>3
  <2>3. buf'[Len(buf')] = Current(Seat(c.anchor))
    BY <1>5, <2>1, <2>2
  <2> QED
    BY <1>1, <2>3 DEF Here, Seq0
<1>13. ASSUME NEW n \in Nat, covered < n, n <= c.anchor
       PROVE  Current(Seat(n))' = Current(Seat(n))
  <2>1. Seat(n) \in Slots /\ Here(n)' /\ n # 0
    BY <1>6, <1>13
  <2>2. \A x \in Slots : x = Seat(n) => Current(x)'[1] = n
    BY <2>1 DEF Here, Seq0, Current, Seat
  <2>3. \A x \in Slots : x = Seat(n) => Current(x)' = Current(x)
    BY <1>1, <2>1, <2>2 DEF None
  <2> QED
    BY <2>1, <2>3 DEF Current, Seat
<1>14. Own'
  <2> SUFFICES ASSUME NEW i \in 1 .. Len(buf'), NEW n, n = seq_next' - 1 - Len(buf') + i, covered < n
               PROVE  Current(Seat(n))' = buf'[i]
    BY <1>2 DEF Own, Current, Seat
  <2>1. n \in Nat \ {0} /\ n <= c.anchor /\ buf'[i] = Current(Seat(n))
    BY <1>5
  <2> QED
    BY <1>13, <2>1
<1>15. Gapless'
  <2> SUFFICES ASSUME NEW x \in Slots, NEW n \in covered + 1 .. Current(x)'[1] - 1 PROVE Here(n)'
    BY <1>2 DEF Gapless, Seq0
  <2>1. CASE Current(x)' = None
    <3>1. Current(x)'[1] = 0
      BY <2>1 DEF None
    <3> QED
      BY <1>3, <3>1
  <2>2. CASE Current(x)' = Current(x) /\ x \notin c.fragments
    <3> DEFINE m == Seq0(x)
    <3>1. m \in Nat /\ m <= c.anchor /\ n \in covered + 1 .. m - 1
      BY <1>1, <1>7, <2>2
    <3> HIDE DEF m
    <3>2. n \in Nat /\ covered < n /\ n <= c.anchor
      BY <1>1, <1>3, <3>1
    <3> QED
      BY <1>6, <3>2
  <2> QED
    BY <1>1, <2>1, <2>2
<1>16. Anchored'
  <2> SUFFICES ASSUME NEW n, n = covered, promised = n, n > 0
               PROVE  \/ Kept(n)' /\ \A i \in 1 .. Len(buf') : seq_next' - 1 - Len(buf') + i = n => buf'[i][1] = n
                      \/ Kept(n + 1)'
    BY <1>2 DEF Anchored, Kept, Seat
  <2>0. n \in Nat \ {0} /\ n + 1 \in Nat \ {0}
    BY <1>3
  <2>1. CASE UNCHANGED platter
    <3>1. Kept(n) \/ Kept(n + 1)
      BY <1>2 DEF Stored, Anchored
    <3>2. CASE Kept(n + 1)
      BY <2>1, <3>2 DEF Kept, Seat
    <3>3. CASE Kept(n)
      <4>1. Here(n)
        BY <1>3, <2>0, <3>3, KeptHere
      <4>2. ASSUME NEW i \in 1 .. Len(buf'), seq_next' - 1 - Len(buf') + i = n PROVE buf'[i][1] = n
        <5>1. buf'[i] = Current(Seat(n))
          BY <1>5, <4>2
        <5> QED
          BY <4>1, <5>1 DEF Here, Seq0
      <4> QED
        BY <2>1, <3>3, <4>2 DEF Kept, Seat
    <3> QED
      BY <3>1, <3>2, <3>3
  <2>2. CASE c.fragments # {} /\ c.fragments \subseteq Live
    <3>1. PICK x \in c.fragments : x \in Live
      BY <2>2
    <3>2. x \in Slots /\ covered < Seq0(x)
      BY <3>1 DEF Live, Valid
    <3>3. c.anchor = covered + c.replayed /\ c.replayed \in Nat \ {0}
      BY <1>1, <1>3, <3>1, RunSeats, AcceptedWalk
    <3>4. \A y \in c.run : Seq0(y) <= c.anchor
      BY <1>1, <1>3, RunSeats, AcceptedWalk
    <3>5. c.anchor < Seq0(x)
      <4>1. x \notin c.run
        <5>1. c.fragments = c.live \ c.run
          BY <1>1 DEF Survey
        <5> QED
          BY <5>1
      <4>2. \A y \in Slots : covered < Seq0(y) /\ Seq0(y) <= c.anchor => y \in c.run
        BY <1>1, <1>3, RunSeats, AcceptedWalk
      <4> QED
        BY <1>1, <1>7, <3>2, <4>1, <4>2
    <3>6. ~ Gapless
      <4> SUFFICES ASSUME Gapless PROVE FALSE
        OBVIOUS
      <4>1. c.anchor + 1 \in covered + 1 .. Seq0(x) - 1
        BY <1>1, <1>3, <1>7, <3>2, <3>5
      <4>2. Here(c.anchor + 1)
        BY <3>2, <4>1 DEF Gapless
      <4>3. Seat(c.anchor + 1) \in Slots
        BY <1>1, Seats
      <4> QED
        BY <1>1, <4>2, <4>3 DEF Here
    <3>7. covered < n + 1 /\ n + 1 <= c.anchor
      BY <1>3, <3>3
    <3> QED
      BY <1>6, <2>0, <3>6, <3>7
  <2> QED
    BY <1>1, <2>1, <2>2
<1>17. ASSUME faults' = 0 PROVE Holes'
  <2>0. Holes
    BY <1>2, <1>4, <1>17
  <2> SUFFICES ASSUME NEW x \in Slots, NEW i \in 1 .. Len(platter'[x]), NEW n \in covered + 1 .. platter'[x][i][1] - 1
               PROVE  \/ Kept(n)' \/ Near(n, platter'[x][i][1])
                      \/ /\ 0 < history'[n] /\ history'[n] < platter'[x][i][2]
                         /\ (i = Len(platter'[x]) \/ Here(n)')
    BY <1>2 DEF Holes, Near, Older, Seat
  <2> DEFINE m == platter'[x][i][1]
             l == platter'[x][i][2]
  <2>1. i \in 1 .. Len(platter[x]) /\ platter'[x][i] = platter[x][i]
    <3> SUFFICES ASSUME platter'[x][i] = None PROVE FALSE
      BY <1>1
    <3>1. platter'[x][i][1] = 0
      BY DEF None
    <3> QED
      BY <1>3, <3>1
  <2>2. m \in Nat /\ l \in Nat /\ n \in Nat /\ covered < n /\ n < m /\ m <= MaxSeq
    <3>1. m \in Nat /\ l \in Nat /\ n \in covered + 1 .. m - 1 /\ m <= MaxSeq
      BY <1>7, <2>1
    <3> HIDE DEF m, l
    <3>2. n \in Nat /\ covered < n /\ n < m
      BY <1>3, <3>1
    <3> QED
      BY <3>1, <3>2
  <2>3. CASE n <= c.anchor
    <3>1. \/ Kept(n) \/ Near(n, m)
          \/ Older(n, l) /\ (i = Len(platter[x]) \/ Here(n))
      BY <2>0, <2>1 DEF Holes
    <3>2. /\ Here(n)' /\ (Kept(n) => Kept(n)') /\ history'[n] = Current(Seat(n))[2] /\ Seat(n) \in Slots
          /\ Current(Seat(n))[1] = n
          /\ Kept(n) \/ (Latest /\ Gapless)
      BY <1>6, <2>2, <2>3
    <3>3. Latest => history'[n] = history[n]
      BY <2>2, <3>2 DEF Latest, Seq0
    <3>4. Latest /\ Older(n, l) => 0 < history'[n] /\ history'[n] < l
      BY <3>3 DEF Older
    <3>5. Older(n, l) => ~ Latest \/ (0 < history'[n] /\ history'[n] < l)
      BY <3>4
    <3> HIDE DEF m, l
    <3> QED
      BY <3>1, <3>2, <3>5, <3>4 DEF m, l
  <2>4. CASE c.anchor < n
    <3> DEFINE k == c.anchor + 1
    <3>1. k \in Nat \ {0} /\ k <= n /\ k < m /\ covered < k /\ k \in covered + 1 .. m - 1
      <4>1. c.anchor \in Nat /\ covered <= c.anchor /\ covered \in Nat
        BY <1>1, <1>3
      <4> HIDE DEF m
      <4>2. k \in Nat \ {0} /\ k <= n /\ covered < k
        BY <2>2, <2>4, <4>1
      <4>3. k < m
        BY <2>2, <4>2
      <4> QED
        BY <2>2, <4>1, <4>2, <4>3
    <3>2. Near(k, m)
      <4>1. ~ Here(k)
        <5>1. Seat(k) \in Slots
          BY <3>1, Seats
        <5> QED
          BY <1>1, <5>1 DEF Here
      <4>2. CASE i = Len(platter[x])
        <5>1. Seq0(x) = m
          BY <1>7, <2>1, <4>2
        <5>2. c.anchor < Seq0(x) /\ x \in Live
          <6>1. c.anchor < m /\ covered < m /\ m # 0
            <7> HIDE DEF m
            <7> QED
              BY <1>1, <1>3, <2>2, <2>4
          <6> QED
            BY <5>1, <6>1 DEF Live, Valid
        <5>3. x \in c.fragments
          BY <1>1, <5>2
        <5>4. Tolerated(c, x)
          BY <1>1, <5>3 DEF Acceptable
        <5>5. Near(c.anchor + 1, Seq0(x))
          BY <1>1, <1>3, <5>2, <5>4, TolerableNear, AcceptedWalk
        <5> QED
          BY <5>1, <5>5
      <4>3. CASE i # Len(platter[x])
        <5>1. \/ Kept(k) \/ Near(k, m)
              \/ Older(k, l) /\ (i = Len(platter[x]) \/ Here(k))
          BY <2>0, <2>1, <3>1 DEF Holes
        <5>2. ~ Kept(k)
          BY <1>3, <3>1, <4>1, KeptHere
        <5> QED
          BY <4>1, <4>3, <5>1, <5>2
      <4> QED
        BY <4>2, <4>3
    <3> HIDE DEF k, m
    <3>3. Near(n, m)
      BY <2>2, <3>1, <3>2, NearOn
    <3> QED
      BY <3>3 DEF m
  <2> QED
    BY <1>1, <2>2, <2>3, <2>4
<1>18. Fresh'
  <2> SUFFICES ASSUME NEW n \in covered + 1 .. seq_next' - 1 - Len(buf') PROVE Kept(n)' \/ Older(n, life)'
    BY <1>2 DEF Fresh
  <2>1. n \in Nat /\ covered < n /\ n <= c.anchor
    BY <1>1, <1>3
  <2>2. /\ Seat(n) \in Slots /\ (Kept(n) => Kept(n)') /\ history'[n] = Current(Seat(n))[2]
        /\ Current(Seat(n))[1] = n /\ n # 0
    BY <1>6, <2>1
  <2>3. Older(n, life)'
    <3> DEFINE l == Current(Seat(n))[2]
    <3>1. l \in Nat /\ l <= life - 1 /\ l > 0 /\ history'[n] = l
      BY <1>7, <2>2
    <3> HIDE DEF l
    <3>2. 0 < history'[n] /\ history'[n] < life
      BY <1>3, <3>1
    <3> QED
      BY <1>2, <3>2 DEF Older
  <2> QED
    BY <2>3
<1>19. Len(buf') < BlockFrames
    BY <1>1, <1>3
<1> QED
    BY <1>2, <1>10, <1>11, <1>12, <1>14, <1>15, <1>16, <1>17, <1>18, <1>19 DEF Stored, Open

\* The failures that are counted.
LEMMA Counting ==
    ASSUME Typed, NEW made \in BOOLEAN, NEW ok \in Outcomes(made), Count(ok)
    PROVE  /\ ok \in BOOLEAN /\ (~ made => ok)
           /\ ok => faults' = faults
           /\ ~ ok => faults' # 0
<1>1. faults \in Nat /\ MaxFaults \in Nat
    BY BoundAssumption DEF Typed
<1>2. ok \in BOOLEAN /\ (~ made => ok)
  <2>1. CASE made /\ faults < MaxFaults
    BY <2>1 DEF Outcomes
  <2>2. CASE ~ (made /\ faults < MaxFaults)
    <3>1. ok \in {TRUE}
      BY <2>2, Zenon DEF Outcomes
    <3> QED
      BY <3>1
  <2> QED
    BY <2>1, <2>2
<1>3. ok => faults' = faults
    BY DEF Count
<1>4. ~ ok => faults' # 0
  <2> SUFFICES ASSUME ~ ok PROVE faults' # 0
    OBVIOUS
  <2>1. faults' = faults + 1
    BY DEF Count
  <2> QED
    BY <1>1, <2>1
<1> QED
    BY <1>2, <1>3, <1>4

\* Where a step is at the head.
LEMMA AtHead ==
    ASSUME Inside, Rescue, Queue, NEW s, At(s)
    PROVE  /\ mode = "up" /\ Open /\ todo \in Seq(Steps) /\ todo # <<>> /\ todo[1] = s
           /\ Len(todo) \in Nat \ {0} /\ 1 \in 1 .. Len(todo) /\ local.dirty \in BOOLEAN /\ local.wrote \in BOOLEAN
           /\ s \notin Batching => ~ local.wrote /\ ~ local.dirty /\ \A i \in 1 .. Len(todo) : todo[i] \notin Batching
           /\ s \notin {"admit", "tail"} => ~ local.dirty
           /\ Tail(todo) \in Seq(Steps) /\ Len(Tail(todo)) = Len(todo) - 1
           /\ \A i \in 1 .. Len(Tail(todo)) : i + 1 \in 1 .. Len(todo) /\ Tail(todo)[i] = todo[i + 1]
<1>1. mode = "up" /\ Open /\ todo \in Seq(Steps) /\ todo # <<>> /\ Len(todo) >= 1 /\ todo[1] = s
    BY AtBatch
<1>2. Len(todo) \in Nat \ {0} /\ 1 \in 1 .. Len(todo)
    BY <1>1, LenProperties
<1>3. s \notin Batching => ~ local.wrote /\ ~ local.dirty /\ \A i \in 1 .. Len(todo) : todo[i] \notin Batching
    BY <1>1, <1>2, AtBatch DEF Queue
<1>4. s \notin {"admit", "tail"} => ~ local.dirty
    BY <1>1 DEF Queue
<1>5. /\ Tail(todo) \in Seq(Steps) /\ Len(Tail(todo)) = Len(todo) - 1
      /\ \A i \in 1 .. Len(Tail(todo)) : i + 1 \in 1 .. Len(todo) /\ Tail(todo)[i] = todo[i + 1]
    BY <1>1, <1>2
<1>6. local.dirty \in BOOLEAN /\ local.wrote \in BOOLEAN
    BY DEF Rescue, LocalTyped
<1> QED
    BY <1>1, <1>2, <1>3, <1>4, <1>5, <1>6

\* Lists that hold none of the steps it speaks of.
LEMMA PlainAlone ==
    ASSUME \A i \in 1 .. Len(todo') : todo'[i] \notin {"admit", "tail", "write", "sync", "batch"},
           ~ local'.wrote, ~ local'.dirty
    PROVE  Alone'
  BY DEF Alone

\* A call that returns.
LEMMA ReturnAlone ==
    ASSUME NEW o, Return(o)
    PROVE  Alone' /\ ~ local'.wrote /\ ~ local'.dirty /\ todo' = <<>>
<1>1. todo' = <<>> /\ ~ local'.wrote /\ ~ local'.dirty
    BY DEF Return, Idle
<1>2. Len(todo') = 0
    BY <1>1
<1> QED
    BY <1>1, <1>2, PlainAlone

\* A call that goes on.
LEMMA ContinueAlone ==
    ASSUME Inside, Rescue, Queue, Alone, NEW s, At(s), ~ local.dirty, Continue,
           level' = level \/ Len(todo) = 1, local.wrote => Len(todo) # 1
    PROVE  /\ Alone' /\ local'.wrote = local.wrote /\ ~ local'.dirty
           /\ todo' = <<"sync">> => s \in {"flush", "flush_sync"}
<1>1. /\ todo \in Seq(Steps) /\ todo # <<>> /\ todo[1] = s /\ Len(todo) \in Nat \ {0}
      /\ Tail(todo) \in Seq(Steps) /\ Len(Tail(todo)) = Len(todo) - 1
      /\ \A i \in 1 .. Len(Tail(todo)) : i + 1 \in 1 .. Len(todo) /\ Tail(todo)[i] = todo[i + 1]
      /\ local.wrote \in BOOLEAN
    BY AtHead
<1>2. CASE Len(todo) = 1
  <2>1. Alone' /\ ~ local'.wrote /\ ~ local'.dirty /\ todo' = <<>>
    BY <1>2, ReturnAlone DEF Continue
  <2>2. local'.wrote = FALSE
    BY <1>2 DEF Continue, Return, Idle
  <2>3. <<>> # <<"sync">>
    OBVIOUS
  <2> QED
    BY <1>1, <1>2, <2>1, <2>2, <2>3
<1>3. CASE Len(todo) # 1
  <2>1. todo' = Tail(todo) /\ local' = local /\ level' = level
    BY <1>3 DEF Continue
  <2>2. ASSUME NEW i \in 1 .. Len(todo')
        PROVE  /\ todo'[i] # "admit" /\ todo'[i] # "batch"
               /\ todo'[i] = "tail" => i < Len(todo')
               /\ todo'[i] = "write" => level' = "batch"
               /\ todo'[i] = "sync" => i = Len(todo') /\ i = 1 /\ s \in {"flush", "flush_sync"}
    <3>1. i + 1 \in 1 .. Len(todo) /\ todo'[i] = todo[i + 1] /\ Len(todo') = Len(todo) - 1 /\ i \in Nat /\ i + 1 # 1
      BY <1>1, <2>1
    <3>2. /\ todo[i + 1] # "admit" /\ todo[i + 1] # "batch"
          /\ todo[i + 1] = "tail" => i + 1 < Len(todo)
          /\ todo[i + 1] = "write" => level = "batch"
          /\ todo[i + 1] = "sync" => i + 1 = Len(todo) /\ i + 1 = 2 /\ todo[1] \in {"flush", "flush_sync"}
      BY <3>1 DEF Alone
    <3> DEFINE l == Len(todo)
               k == Len(todo')
    <3>3. /\ i + 1 < l => i < k
          /\ i + 1 = l => i = k
          /\ i + 1 = 2 => i = 1
      <4>1. l \in Nat /\ k = l - 1 /\ i \in Nat
        BY <1>1, <3>1
      <4> HIDE DEF l, k
      <4> QED
        BY <4>1
    <3> QED
      BY <1>1, <2>1, <3>1, <3>2, <3>3
  <2>3. todo' # <<>>
    <3>1. Len(todo') # 0
      BY <1>1, <1>3, <2>1
    <3>2. Len(<<>>) = 0
      OBVIOUS
    <3> QED
      BY <3>1, <3>2
  <2>4. Alone'
    BY <2>1, <2>2, <2>3 DEF Alone
  <2>5. ASSUME todo' = <<"sync">> PROVE s \in {"flush", "flush_sync"}
    <3>1. 1 \in 1 .. Len(todo') /\ todo'[1] = "sync"
      BY <2>5
    <3> QED
      BY <2>2, <3>1
  <2> QED
    BY <2>1, <2>4, <2>5
<1> QED
    BY <1>2, <1>3

\* A call that fails.
LEMMA FailAlone ==
    ASSUME Inside, Rescue, Queue, NEW s, At(s), Fail, mode' = mode
    PROVE  Alone' /\ ~ local'.wrote /\ ~ local'.dirty
<1>1. CASE todo[Len(todo)] = "close"
  <2>1. todo' = <<"close">> /\ local' = local
    BY <1>1 DEF Fail
  <2>2. Queue' /\ ~ local.wrote
    BY <2>1, FailQueue
  <2>3. todo'[1] = "close" /\ \A i \in 1 .. Len(todo') : todo'[i] = "close"
    BY <2>1
  <2>4. ~ local'.dirty
    BY <2>2, <2>3 DEF Queue
  <2> QED
    BY <2>1, <2>2, <2>3, <2>4, PlainAlone
<1>2. CASE todo[Len(todo)] # "close"
    BY <1>2, ReturnAlone DEF Fail
<1> QED
    BY <1>1, <1>2

\* A call that met a full ring.
LEMMA FullAlone ==
    ASSUME Full
    PROVE  Alone' /\ ~ local'.wrote /\ ~ local'.dirty /\ todo' # <<"sync">>
<1>1. CASE todo' = <<"flush", "snapshot", "retry">> /\ local' = [Idle EXCEPT !.attempt = 2]
  <2>1. ~ local'.wrote /\ ~ local'.dirty
    BY <1>1 DEF Idle
  <2>2. \A i \in 1 .. Len(todo') : todo'[i] \in {"flush", "snapshot", "retry"}
    BY <1>1
  <2>3. todo'[1] = "flush"
    BY <1>1
  <2> QED
    BY <2>1, <2>2, <2>3, PlainAlone
<1>2. CASE Return("full")
  <2>1. <<>> # <<"sync">>
    OBVIOUS
  <2> QED
    BY <1>2, <2>1, ReturnAlone
<1> QED
    BY <1>1, <1>2 DEF Full

\* A step that leaves device and buffer as they are.
LEMMA QuietWorking ==
    ASSUME Inside, Working, mode = "up", mode' = "up", Alone',
           UNCHANGED <<platter, buf, seq_next, history, life>>,
           covered' = covered \/ covered' = seq_next - 1, Written' => Written,
           faults' = 0 =>
               /\ faults = 0 /\ ~ local.dirty /\ (local.wrote => local'.wrote)
               /\ level' = "sync" \/ todo' = <<"sync">> => level = "sync" \/ todo = <<"sync">> \/ buf = <<>>
    PROVE  Working'
<1>1. Open /\ Open' /\ covered < seq_next /\ covered \in Nat /\ seq_next \in Nat /\ Len(buf) \in Nat
  <2>1. Open /\ Open'
    BY DEF Open
  <2> QED
    BY <2>1, BoundAssumption, LenProperties DEF Inside, Located, Typed, BufRight, BufferRight
<1>2. Written' => Shown'
    BY <1>1 DEF Working, Shown, Here, Seq0, Current, Seat
<1>3. ASSUME faults' = 0 PROVE (local'.wrote \/ Fresh') /\ Short'
  <2>1. (local.wrote \/ Fresh) /\ Short
    BY <1>1, <1>3 DEF Working
  <2>2. ASSUME Fresh PROVE Fresh'
    <3> SUFFICES ASSUME NEW n \in covered' + 1 .. seq_next - 1 - Len(buf) PROVE Kept(n) \/ Older(n, life)
      BY DEF Fresh, Kept, Older, Seat
    <3>1. n \in covered + 1 .. seq_next - 1 - Len(buf)
      BY <1>1
    <3> QED
      BY <2>2, <3>1 DEF Fresh
  <2>3. Short'
    <3>1. buf = <<>> => Len(buf) < BlockFrames
      BY Sizes
    <3> QED
      BY <1>3, <2>1, <3>1 DEF Short
  <2> QED
    BY <1>3, <2>1, <2>2, <2>3
<1> QED
    BY <1>2, <1>3 DEF Working

\* A step that failed.
LEMMA FailedWorking ==
    ASSUME Inside, Rescue, Queue, NEW s, At(s), Fail, mode' = mode, faults' # 0
    PROVE  Working'
<1>1. Alone'
    BY FailAlone
<1>2. ~ Written'
    BY NotWritten
<1> QED
    BY <1>1, <1>2 DEF Working

\* A write that failed.
LEMMA FailedStored ==
    ASSUME Promised, Inside', Traced, Stored, mode = "up", mode' = "up", WriteWindowSpan \/ UNCHANGED platter,
           UNCHANGED <<buf, seq_next, covered, history, life, promised>>, faults' # 0
    PROVE  Stored'
<1>1. CASE WriteWindowSpan
  <2>1. buf' = buf /\ (faults' = 0 => faults = 0 /\ Fresh)
    OBVIOUS
  <2> QED
    BY <1>1, <2>1, WrittenStored DEF Promised
<1>2. CASE UNCHANGED platter
    BY <1>2, QuietStored DEF Promised, Durable
<1> QED
    BY <1>1, <1>2

\* A number that is given out changes nothing for those before it.
LEMMA AppendFresh ==
    ASSUME Inside, Traced, Fresh, AppendEntry, UNCHANGED <<platter, covered, life>>
    PROVE  Fresh' /\ buf' # <<>>
<1>1. /\ covered \in Nat /\ seq_next \in Nat \ {0} /\ Len(buf) \in Nat /\ seq_next' = seq_next + 1
      /\ Len(buf') = Len(buf) + 1 /\ seq_next <= MaxSeq /\ MaxSeq \in Nat /\ history \in [1 .. MaxSeq -> Int]
  <2>1. buf \in Seq(Frames) /\ Len(buf) \in Nat
    BY LenProperties DEF Inside, BufRight, BufferRight
  <2>2. Len(buf') = Len(buf) + 1 /\ seq_next' = seq_next + 1 /\ seq_next <= MaxSeq
    BY <2>1 DEF AppendEntry
  <2>3. covered \in Nat /\ seq_next \in Nat \ {0} /\ MaxSeq \in Nat /\ history \in [1 .. MaxSeq -> Int]
    BY BoundAssumption DEF Inside, Typed, Traced
  <2> QED
    BY <2>1, <2>2, <2>3
<1>2. ASSUME NEW n \in covered' + 1 .. seq_next' - 1 - Len(buf') PROVE Kept(n)' \/ Older(n, life)'
  <2>1. n \in covered + 1 .. seq_next - 1 - Len(buf) /\ n \in 1 .. MaxSeq /\ n # seq_next
    BY <1>1
  <2>2. history'[n] = history[n]
    BY <1>1, <2>1 DEF AppendEntry
  <2>3. Kept(n) \/ Older(n, life)
    BY <2>1 DEF Fresh
  <2> QED
    BY <2>2, <2>3 DEF Kept, Older, Seat
<1>3. buf' # <<>>
    BY <1>1
<1> QED
    BY <1>2, <1>3 DEF Fresh

\* A synchronised device keeps whatever is on it.
LEMMA SyncFresh ==
    ASSUME Inside, Inside', Sync, UNCHANGED <<seq_next, covered, history, life>>,
           (Left /\ buf' = buf) \/ AllHere \/ (Fresh /\ buf' = buf)
    PROVE  Fresh'
<1>1. covered \in Nat /\ seq_next \in Nat /\ DeviceRight /\ Len(buf') \in Nat
    BY BoundAssumption, LenProperties DEF Inside, Typed, BufRight, BufferRight
<1>2. SUFFICES ASSUME NEW n \in covered + 1 .. seq_next - 1 - Len(buf') PROVE Kept(n)' \/ Older(n, life)
    BY DEF Fresh, Older
<1>3. n \in Nat \ {0} /\ n \in Nat /\ covered < n /\ n < seq_next /\ n <= seq_next - 1 - Len(buf')
    BY <1>1
<1>4. Here(n) \/ Kept(n) \/ Older(n, life)
    BY <1>3 DEF Left, AllHere, Fresh
<1> QED
    BY <1>1, <1>3, <1>4, SyncHere

\* Calls that begin, and steps that only look.
LEMMA CallsRefusing ==
    ASSUME Promised, Inside', Traced, Stored, Working, MaxBatch = 1,
           WriteWal \/ Snapshot \/ Close \/ (\E l \in Levels : SetWalLevel(l)) \/ Retry \/ AdmitReopen \/ SwitchLevel
    PROVE  Stored' /\ Working'
<1>0. Inside /\ Rescue /\ Queue /\ Durable /\ Alone
    BY DEF Promised, Working
<1>1. /\ mode = "up" /\ mode' = "up"
      /\ UNCHANGED <<platter, buf, seq_next, history, life, promised, covered, faults>>
  <2>1. \A steps, size : Call(steps, size) => /\ mode = "up" /\ mode' = mode
                                              /\ UNCHANGED <<platter, buf, seq_next, history, life, promised, covered, faults>>
    BY DEF Call, device, ring, ghost, past
  <2>2. Retry \/ AdmitReopen \/ SwitchLevel =>
            /\ mode = "up" /\ mode' = mode
            /\ UNCHANGED <<platter, buf, seq_next, history, life, promised, covered, faults>>
    BY DEF Retry, AdmitReopen, SwitchLevel, At, device, ring, ghost, past
  <2> QED
    BY <2>1, <2>2 DEF WriteWal, Snapshot, Close, SetWalLevel
<1>2. Stored'
    BY <1>0, <1>1, QuietStored DEF Durable
<1>3. /\ WriteSteps(1) \in {<<"admit", "tail", "batch_sync">>, <<"write">>}
      /\ \A i \in 1 .. Len(WriteSteps(1)) :
             /\ WriteSteps(1)[i] = "admit" => i = 1 /\ level = "sync"
             /\ WriteSteps(1)[i] = "tail" => i < Len(WriteSteps(1))
             /\ WriteSteps(1)[i] = "write" => level = "batch"
             /\ WriteSteps(1)[i] \notin {"sync", "batch"}
  <2>1. level \in {"sync", "batch"}
    BY <1>0, LevelAssumption DEF Inside, Typed
  <2>2. CASE level = "sync"
    <3>1. WriteSteps(1) = <<"admit", "tail", "batch_sync">>
      <4>1. WriteSteps(1) # <<"write">>
        <5>1. WriteSteps(1) = [i \in 1 .. 1 |-> "admit"] \o <<"tail", "batch_sync">>
          BY <2>2 DEF WriteSteps
        <5>2. WriteSteps(1)[1] = "admit"
          BY <5>1
        <5> QED
          BY <5>2
      <4> QED
        BY <4>1, SingleWrite
    <3> QED
      BY <2>2, <3>1
  <2>3. CASE level = "batch"
    <3>1. WriteSteps(1) = <<"write">>
      BY <2>3 DEF WriteSteps
    <3> QED
      BY <2>3, <3>1
  <2> QED
    BY <2>1, <2>2, <2>3
<1>4. ASSUME ~ local.wrote, ~ local.dirty, ~ local'.wrote, ~ local'.dirty, level' = level,
             \/ todo' = WriteSteps(1)
             \/ todo' \in {<<"flush", "snapshot">>, <<"flush", "close">>, <<"flush", "sync">>, <<"batch">>}
      PROVE  Working'
  <2>1. /\ \A i \in 1 .. Len(todo') :
               /\ todo'[i] = "admit" => i = 1 /\ level = "sync"
               /\ todo'[i] = "tail" => i < Len(todo')
               /\ todo'[i] = "write" => level = "batch"
               /\ todo'[i] = "sync" => i = Len(todo') /\ i = 2 /\ todo'[1] = "flush"
               /\ todo'[i] = "batch" => i = 1 /\ Len(todo') = 1
        /\ todo'[1] # "flush_sync" /\ todo' # <<"sync">>
    <3>1. CASE todo' = WriteSteps(1)
      <4>1. WriteSteps(1)[1] # "flush_sync" /\ WriteSteps(1) # <<"sync">>
        BY <1>3
      <4> QED
        BY <1>3, <3>1, <4>1
    <3>2. CASE todo' = <<"flush", "snapshot">>
      BY <3>2
    <3>3. CASE todo' = <<"flush", "close">>
      BY <3>3
    <3>4. CASE todo' = <<"flush", "sync">>
      BY <3>4
    <3>5. CASE todo' = <<"batch">>
      BY <3>5
    <3> QED
      BY <1>4, <3>1, <3>2, <3>3, <3>4, <3>5
  <2>2. Alone'
    BY <1>4, <2>1 DEF Alone
  <2>3. ~ Written'
    BY <1>4, <2>1 DEF Written
  <2> QED
    BY <1>0, <1>1, <1>4, <2>1, <2>2, <2>3, QuietWorking
<1>5. ASSUME NEW steps, NEW size, Call(steps, size),
             \/ steps = WriteSteps(1)
             \/ steps \in {<<"flush", "snapshot">>, <<"flush", "close">>, <<"flush", "sync">>, <<"batch">>}
      PROVE  Working'
  <2>1. todo = <<>> /\ todo' = steps /\ local' = [Idle EXCEPT !.size = size] /\ level' = level
    BY <1>5 DEF Call
  <2>2. ~ local.wrote /\ ~ local.dirty
    BY <1>0, <2>1 DEF Alone, Queue
  <2>3. ~ local'.wrote /\ ~ local'.dirty
    BY <2>1 DEF Idle
  <2> QED
    BY <1>4, <1>5, <2>1, <2>2, <2>3
<1>6. ASSUME WriteWal PROVE Working'
  <2>1. PICK size \in 1 .. IF level = "sync" THEN MaxBatch ELSE 1 : Call(WriteSteps(size), size)
    BY <1>6 DEF WriteWal
  <2>2. size = 1
    OBVIOUS
  <2> QED
    BY <1>5, <2>1, <2>2
<1>7. ASSUME Snapshot \/ Close PROVE Working'
    BY <1>5, <1>7 DEF Snapshot, Close
<1>8. ASSUME NEW l \in Levels, SetWalLevel(l) PROVE Working'
  <2>1. l \in {"sync", "batch"}
    BY LevelAssumption
  <2> QED
    BY <1>5, <1>8, <2>1 DEF SetWalLevel
<1>9. ASSUME Retry PROVE Working'
  <2>1. At("retry") /\ todo' = WriteSteps(1) /\ local' = local /\ level' = level
    BY <1>9 DEF Retry
  <2>2. ~ local.wrote /\ ~ local.dirty
    BY <1>0, <2>1, AtHead DEF Batching
  <2> QED
    BY <1>4, <2>1, <2>2
<1>10. ASSUME AdmitReopen PROVE Working'
  <2>1. At("admit") /\ level' = level
        /\ \/ todo' = <<"tail", "batch_sync">> /\ local' = [local EXCEPT !.full = TRUE]
           \/ UNCHANGED <<todo, local>>
    BY <1>10 DEF AdmitReopen
  <2>2. todo[1] = "admit" /\ 1 \in 1 .. Len(todo) /\ todo # <<>>
    BY <1>0, <2>1, AtHead
  <2>3. ~ local.dirty
    BY <1>0, <2>2 DEF Alone
  <2>4. local'.wrote = local.wrote /\ local'.dirty = local.dirty
    BY <1>0, <2>1 DEF Rescue, LocalTyped
  <2>5. CASE todo' = <<"tail", "batch_sync">>
    <3>1. Alone'
      BY <2>3, <2>4, <2>5 DEF Alone
    <3>2. (Written' => Written) /\ todo' # <<"sync">>
      BY <2>4, <2>5 DEF Written
    <3> QED
      BY <1>0, <1>1, <2>1, <2>3, <2>4, <3>1, <3>2, QuietWorking
  <2>6. CASE UNCHANGED <<todo, local>>
    <3>1. Alone'
      BY <1>0, <1>1, <2>1, <2>6 DEF Alone
    <3>2. Written' => Written
      BY <2>6 DEF Written
    <3> QED
      BY <1>0, <1>1, <2>1, <2>3, <2>4, <2>6, <3>1, <3>2, QuietWorking
  <2> QED
    BY <2>1, <2>5, <2>6
<1>11. ASSUME SwitchLevel PROVE Working'
  <2>1. PICK l \in Levels : At(l) /\ level' = l /\ Continue
    BY <1>11 DEF SwitchLevel
  <2>2. l \in {"sync", "batch"} /\ l \notin Batching
    BY LevelAssumption DEF Batching
  <2>3. todo[1] = l /\ 1 \in 1 .. Len(todo) /\ ~ local.wrote /\ ~ local.dirty /\ Len(todo) \in Nat /\ todo \in Seq(Steps)
    BY <1>0, <2>1, <2>2, AtHead
  <2>4. Len(todo) = 1
    BY <1>0, <2>2, <2>3 DEF Alone
  <2>5. Return("ok")
    BY <2>1, <2>4 DEF Continue
  <2>6. Alone' /\ todo' = <<>> /\ ~ local'.wrote /\ ~ local'.dirty
    BY <2>5, ReturnAlone
  <2>7. ~ Written'
    BY <2>6 DEF Written
  <2>8. l = "sync" => todo = <<"sync">>
    BY <2>3, <2>4
  <2>9. todo' # <<"sync">>
    <3>1. <<>> # <<"sync">>
      OBVIOUS
    <3> QED
      BY <2>6, <3>1
  <2> QED
    BY <1>0, <1>1, <2>1, <2>3, <2>6, <2>7, <2>8, <2>9, QuietWorking
<1> QED
    BY <1>2, <1>6, <1>7, <1>8, <1>9, <1>10, <1>11

\* One frame is admitted.
LEMMA AdmitRefusing ==
    ASSUME Promised, Inside', Traced, Stored, Working, AdmitSegment \/ AdmitAppend
    PROVE  Stored' /\ Working'
<1>0. Inside /\ Rescue /\ Queue /\ Durable /\ Alone /\ LocalTyped
    BY DEF Promised, Working, Rescue
<1>1. /\ At("admit") /\ mode' = mode /\ UNCHANGED <<level, covered, life, promised>>
    BY DEF AdmitSegment, AdmitAppend, past
<1>2. /\ mode = "up" /\ mode' = "up" /\ Open /\ todo[1] = "admit" /\ 1 \in 1 .. Len(todo) /\ todo # <<>>
      /\ todo \in Seq(Steps) /\ Len(todo) \in Nat \ {0}
      /\ Tail(todo) \in Seq(Steps) /\ Len(Tail(todo)) = Len(todo) - 1
      /\ \A i \in 1 .. Len(Tail(todo)) : i + 1 \in 1 .. Len(todo) /\ Tail(todo)[i] = todo[i + 1]
    BY <1>0, <1>1, AtHead
<1>3. level = "sync" /\ ~ local.dirty /\ (faults = 0 => ~ local.wrote)
    BY <1>0, <1>2 DEF Alone
<1>4. ASSUME AdmitSegment PROVE Stored' /\ Working'
  <2>1. /\ window # 0 /\ WindowFull(window) /\ UNCHANGED <<seq_next, history>>
        /\ \E ok \in Outcomes(TRUE) :
             /\ Count(ok)
             /\ \/ /\ WriteWindowSpan /\ AdvanceAfterWrite
                   /\ local' = [local EXCEPT !.wrote = TRUE, !.dirty = FALSE, !.full = window' = 0]
                   /\ todo' = <<"tail", "batch_sync">> \/ todo' = todo
                \/ WriteFails /\ UNCHANGED buf
    BY <1>4 DEF AdmitSegment, past
  <2>2. faults # 0 /\ buf # <<>>
    <3> DEFINE k == Len(buf)
               w == window * BlockFrames
    <3>1. k >= w /\ window \in Nat \ {0}
      BY <1>0, <2>1, Sizes DEF WindowFull, Inside, Typed
    <3>2. w \in Nat /\ BlockFrames <= w
      <4>1. 1 * BlockFrames <= w /\ w \in Int /\ 1 * BlockFrames = BlockFrames
        BY <3>1, Sizes, Products
      <4> HIDE DEF w
      <4> QED
        BY <4>1, Sizes
    <3>3. k \in Nat
      BY <1>0, LenProperties DEF Inside, BufRight, BufferRight
    <3> HIDE DEF w
    <3>4. ~ (k < BlockFrames) /\ k # 0
      BY <3>1, <3>2, <3>3, Sizes
    <3>5. faults # 0
      BY <1>2, <1>3, <3>4 DEF Working, Short
    <3>6. Len(<<>>) = 0
      OBVIOUS
    <3> QED
      BY <3>4, <3>5, <3>6
  <2>3. PICK ok \in Outcomes(TRUE) :
             /\ Count(ok)
             /\ \/ /\ WriteWindowSpan /\ AdvanceAfterWrite
                   /\ local' = [local EXCEPT !.wrote = TRUE, !.dirty = FALSE, !.full = window' = 0]
                   /\ todo' = <<"tail", "batch_sync">> \/ todo' = todo
                \/ WriteFails /\ UNCHANGED buf
    BY <2>1
  <2>4. faults' # 0
    <3>1. (ok => faults' = faults) /\ (~ ok => faults' # 0)
      BY <1>0, <2>3, Counting DEF Inside
    <3> QED
      BY <2>2, <3>1
  <2>5. CASE /\ WriteWindowSpan /\ AdvanceAfterWrite
             /\ local' = [local EXCEPT !.wrote = TRUE, !.dirty = FALSE, !.full = window' = 0]
             /\ todo' = <<"tail", "batch_sync">> \/ todo' = todo
    <3>1. Stored' /\ Shown'
      BY <1>0, <1>1, <1>2, <2>1, <2>2, <2>4, <2>5, WrittenStored
    <3>2. local'.wrote /\ ~ local'.dirty
      BY <1>0, <2>5 DEF LocalTyped
    <3>3. /\ todo' # <<>>
          /\ \A i \in 1 .. Len(todo') :
                 /\ todo'[i] = "admit" => i = 1
                 /\ todo'[i] = "tail" => i < Len(todo')
                 /\ todo'[i] = "write" => level = "batch"
                 /\ todo'[i] = "sync" => i = Len(todo') /\ (i = 1 \/ (i = 2 /\ todo'[1] \in {"flush", "flush_sync"}))
                 /\ todo'[i] = "batch" => i = 1 /\ Len(todo') = 1
      <4>1. CASE todo' = <<"tail", "batch_sync">>
        BY <4>1
      <4>2. CASE todo' = todo
        BY <1>0, <1>2, <4>2 DEF Alone
      <4> QED
        BY <2>5, <4>1, <4>2
    <3>4. Alone'
      BY <1>1, <1>3, <2>4, <3>2, <3>3 DEF Alone
    <3> QED
      BY <2>4, <3>1, <3>4 DEF Working
  <2>6. CASE WriteFails /\ UNCHANGED buf
    <3>1. Fail /\ (WriteWindowSpan \/ UNCHANGED platter)
      BY <2>6 DEF WriteFails, device
    <3>2. Stored'
      BY <1>1, <1>2, <2>1, <2>4, <2>6, <3>1, FailedStored
    <3>3. Working'
      BY <1>0, <1>1, <2>4, <3>1, FailedWorking
    <3> QED
      BY <3>2, <3>3
  <2> QED
    BY <2>3, <2>5, <2>6
<1>5. ASSUME AdmitAppend PROVE Stored' /\ Working'
  <2>1. AppendEntry /\ todo' = Tail(todo) /\ local' = [local EXCEPT !.dirty = TRUE] /\ UNCHANGED <<platter, faults>>
    BY <1>5 DEF AdmitAppend, device
  <2>2. Stored'
    BY <1>0, <1>1, <1>2, <2>1, AppendStored
  <2>3. local'.dirty /\ local'.wrote = local.wrote
    BY <1>0, <2>1 DEF LocalTyped
  <2>4. buf' # <<>> /\ (Fresh => Fresh')
    <3>1. Fresh => Fresh' /\ buf' # <<>>
      BY <1>0, <1>1, <2>1, AppendFresh
    <3>2. buf' # <<>>
      <4>1. buf \in Seq(Frames)
        BY <1>0 DEF Inside, BufRight, BufferRight
      <4> QED
        BY <2>1, <4>1 DEF AppendEntry
    <3> QED
      BY <3>1, <3>2
  <2>5. 1 < Len(todo) /\ todo[2] \in {"admit", "tail"}
    <3>1. 1 < Len(todo) /\ todo[1 + 1] \in {"admit", "tail"}
      BY <1>0, <1>2 DEF Queue, Shaped
    <3> QED
      BY <3>1
  <2>6. todo' # <<>> /\ todo'[1] \in {"admit", "tail"}
    <3>1. Len(Tail(todo)) # 0 /\ 1 \in 1 .. Len(Tail(todo))
      BY <1>2, <2>5
    <3>2. todo'[1] = todo[2]
      BY <1>2, <2>1, <3>1
    <3>3. Len(<<>>) = 0
      OBVIOUS
    <3> QED
      BY <2>1, <2>5, <3>1, <3>2, <3>3
  <2>7. ASSUME NEW i \in 1 .. Len(todo')
        PROVE  /\ todo'[i] # "admit" /\ todo'[i] # "batch" /\ todo'[i] # "sync"
               /\ todo'[i] = "tail" => i < Len(todo')
               /\ todo'[i] = "write" => level = "batch"
    <3>1. i + 1 \in 1 .. Len(todo) /\ todo'[i] = todo[i + 1] /\ Len(todo') = Len(todo) - 1 /\ i \in Nat /\ i + 1 # 1
      BY <1>2, <2>1
    <3>2. /\ todo[i + 1] # "admit" /\ todo[i + 1] # "batch" /\ todo[i + 1] # "sync"
          /\ todo[i + 1] = "tail" => i + 1 < Len(todo)
          /\ todo[i + 1] = "write" => level = "batch"
      BY <1>0, <1>2, <3>1 DEF Alone
    <3> DEFINE l == Len(todo)
               k == Len(todo')
    <3>3. i + 1 < l => i < k
      <4>1. l \in Nat /\ k = l - 1 /\ i \in Nat
        BY <1>2, <3>1
      <4> HIDE DEF l, k
      <4> QED
        BY <4>1
    <3> QED
      BY <3>1, <3>2, <3>3
  <2>8. Alone'
    BY <1>1, <1>3, <2>1, <2>3, <2>4, <2>6, <2>7 DEF Alone
  <2>9. ~ Written'
    BY <2>3, <2>6 DEF Written
  <2>10. ~ local.wrote => (faults = 0 => Fresh)
    BY <1>2 DEF Working
  <2>11. Short'
    BY <2>3 DEF Short
  <2> QED
    BY <1>3, <2>1, <2>2, <2>4, <2>8, <2>9, <2>10, <2>11 DEF Working
<1> QED
    BY <1>4, <1>5

\* The last segment of a batch, and its synchronisation.
LEMMA BatchRefusing ==
    ASSUME Promised, Inside', Traced, Stored, Working, BatchTail \/ BatchSync
    PROVE  Stored' /\ Working'
<1>0. Inside /\ Rescue /\ Queue /\ Durable /\ Alone /\ LocalTyped
    BY DEF Promised, Working, Rescue
<1>1. ASSUME BatchTail PROVE Stored' /\ Working'
  <2>1. At("tail") /\ mode' = mode /\ UNCHANGED <<level, covered, life, promised, seq_next, history>>
    BY <1>1 DEF BatchTail, past
  <2>2. PICK ok \in Outcomes(local.dirty) :
             /\ Count(ok)
             /\ \/ ~ local.dirty /\ Continue /\ UNCHANGED <<platter, buf>>
                \/ /\ local.dirty /\ ok /\ WriteWindowSpan /\ AdvanceAfterWrite /\ todo' = Tail(todo)
                   /\ local' = [local EXCEPT !.wrote = TRUE, !.dirty = FALSE]
                \/ local.dirty /\ ~ ok /\ WriteFails /\ UNCHANGED buf
    BY <1>1 DEF BatchTail, device
  <2>3. /\ mode = "up" /\ mode' = "up" /\ Open /\ todo[1] = "tail" /\ 1 \in 1 .. Len(todo) /\ todo # <<>>
        /\ todo \in Seq(Steps) /\ Len(todo) \in Nat \ {0} /\ local.dirty \in BOOLEAN
        /\ Tail(todo) \in Seq(Steps) /\ Len(Tail(todo)) = Len(todo) - 1
        /\ \A i \in 1 .. Len(Tail(todo)) : i + 1 \in 1 .. Len(todo) /\ Tail(todo)[i] = todo[i + 1]
    BY <1>0, <2>1, AtHead
  <2>4. 1 < Len(todo)
    BY <1>0, <2>3 DEF Alone
  <2>5. ok \in BOOLEAN /\ (~ local.dirty => ok) /\ (ok => faults' = faults) /\ (~ ok => faults' # 0)
    BY <1>0, <2>2, <2>3, Counting DEF Inside
  <2>6. CASE ~ local.dirty /\ Continue /\ UNCHANGED <<platter, buf>>
    <3>1. faults' = faults
      BY <2>5, <2>6
    <3>2. Stored'
      BY <1>0, <2>1, <2>3, <2>6, <3>1, QuietStored DEF Durable
    <3>3. Alone' /\ local'.wrote = local.wrote /\ todo' # <<"sync">>
      BY <1>0, <2>1, <2>3, <2>4, <2>6, ContinueAlone
    <3>4. Written' => Written
      BY <1>0, <2>1, <2>6, NotWritten
    <3>5. Working'
      BY <1>0, <2>1, <2>3, <2>6, <3>1, <3>3, <3>4, QuietWorking
    <3> QED
      BY <3>2, <3>5
  <2>7. CASE /\ local.dirty /\ ok /\ WriteWindowSpan /\ AdvanceAfterWrite /\ todo' = Tail(todo)
             /\ local' = [local EXCEPT !.wrote = TRUE, !.dirty = FALSE]
    <3>1. faults' = faults /\ buf # <<>> /\ (faults = 0 => ~ local.wrote)
      BY <1>0, <2>5, <2>7 DEF Alone
    <3>2. faults = 0 => Fresh
      BY <2>3, <3>1 DEF Working
    <3>3. Stored' /\ Shown'
      BY <1>0, <2>1, <2>3, <2>7, <3>1, <3>2, WrittenStored
    <3>4. local'.wrote /\ ~ local'.dirty
      BY <1>0, <2>7 DEF LocalTyped
    <3>5. Len(buf') < BlockFrames
      BY <1>0, <2>7, AdvanceShift
    <3>6. todo' # <<>>
      <4>1. Len(Tail(todo)) # 0
        BY <2>3, <2>4
      <4>2. Len(<<>>) = 0
        OBVIOUS
      <4> QED
        BY <2>7, <4>1, <4>2
    <3>7. ASSUME NEW i \in 1 .. Len(todo')
          PROVE  /\ todo'[i] # "admit" /\ todo'[i] # "batch" /\ todo'[i] # "sync"
                 /\ todo'[i] = "tail" => i < Len(todo')
                 /\ todo'[i] = "write" => level = "batch"
      <4>1. i + 1 \in 1 .. Len(todo) /\ todo'[i] = todo[i + 1] /\ Len(todo') = Len(todo) - 1 /\ i \in Nat /\ i + 1 # 1
        BY <2>3, <2>7
      <4>2. /\ todo[i + 1] # "admit" /\ todo[i + 1] # "batch" /\ todo[i + 1] # "sync"
            /\ todo[i + 1] = "tail" => i + 1 < Len(todo)
            /\ todo[i + 1] = "write" => level = "batch"
        BY <1>0, <2>3, <4>1 DEF Alone
      <4> DEFINE l == Len(todo)
                 k == Len(todo')
      <4>3. i + 1 < l => i < k
        <5>1. l \in Nat /\ k = l - 1 /\ i \in Nat
          BY <2>3, <4>1
        <5> HIDE DEF l, k
        <5> QED
          BY <5>1
      <4> QED
        BY <4>1, <4>2, <4>3
    <3>8. Alone'
      BY <2>1, <3>4, <3>6, <3>7 DEF Alone
    <3>9. Short'
      BY <3>5 DEF Short
    <3> QED
      BY <3>3, <3>4, <3>8, <3>9 DEF Working
  <2>8. CASE local.dirty /\ ~ ok /\ WriteFails /\ UNCHANGED buf
    <3>1. Fail /\ (WriteWindowSpan \/ UNCHANGED platter) /\ faults' # 0
      BY <2>5, <2>8 DEF WriteFails, device
    <3>2. Stored'
      BY <2>1, <2>3, <2>8, <3>1, FailedStored
    <3>3. Working'
      BY <1>0, <2>1, <3>1, FailedWorking
    <3> QED
      BY <3>2, <3>3
  <2> QED
    BY <2>2, <2>6, <2>7, <2>8
<1>2. ASSUME BatchSync PROVE Stored' /\ Working'
  <2>1. At("batch_sync") /\ mode' = mode /\ UNCHANGED <<level, covered, life, seq_next, history, buf>>
    BY <1>2 DEF BatchSync, ring
  <2>2. PICK ok \in Outcomes(local.wrote) :
             /\ Count(ok)
             /\ \/ /\ ok /\ (Full \/ Return("ok"))
                   /\ \/ local.wrote /\ Sync /\ promised' = seq_next - 1
                      \/ ~ local.wrote /\ UNCHANGED <<platter, promised>>
                \/ ~ ok /\ Fail /\ UNCHANGED <<platter, promised>>
    BY <1>2 DEF BatchSync, device
  <2>3. /\ mode = "up" /\ mode' = "up" /\ Open /\ todo[1] = "batch_sync" /\ todo # <<>>
        /\ ~ local.dirty /\ local.wrote \in BOOLEAN
    BY <1>0, <2>1, AtHead
  <2>4. ok \in BOOLEAN /\ (ok => faults' = faults) /\ (~ ok => faults' # 0)
    BY <1>0, <2>2, <2>3, Counting DEF Inside
  <2>5. ASSUME Full \/ Return("ok")
        PROVE  Alone' /\ ~ local'.wrote /\ ~ local'.dirty /\ todo' # <<"sync">> /\ ~ Written'
    <3>1. ASSUME Return("ok") PROVE Alone' /\ ~ local'.wrote /\ ~ local'.dirty /\ todo' # <<"sync">>
      <4>1. <<>> # <<"sync">>
        OBVIOUS
      <4> QED
        BY <3>1, <4>1, ReturnAlone
    <3>2. ~ Written'
      BY <1>0, <2>1, <2>5, NotWritten
    <3> QED
      BY <2>5, <3>1, <3>2, FullAlone
  <2>6. CASE ok /\ (Full \/ Return("ok")) /\ local.wrote /\ Sync /\ promised' = seq_next - 1
    <3>1. Shown
      BY <2>3, <2>6 DEF Working, Written
    <3>2. Stored'
      BY <1>0, <2>1, <2>3, <2>4, <2>6, <3>1, SyncedStored
    <3>3. Fresh'
      BY <1>0, <2>1, <2>3, <2>6, SyncFresh DEF Durable
    <3>4. Alone' /\ todo' # <<"sync">> /\ ~ Written'
      BY <2>5, <2>6
    <3>5. faults' = 0 => Short'
      <4>1. faults = 0 => Short
        BY <2>3 DEF Working
      <4> QED
        BY <2>1, <2>3, <2>4, <2>6, <3>4, <4>1 DEF Short
    <3> QED
      BY <3>2, <3>3, <3>4, <3>5 DEF Working
  <2>7. CASE ok /\ (Full \/ Return("ok")) /\ ~ local.wrote /\ UNCHANGED <<platter, promised>>
    <3>1. Stored'
      BY <1>0, <2>1, <2>3, <2>4, <2>7, QuietStored DEF Durable
    <3>2. Alone' /\ todo' # <<"sync">> /\ ~ Written'
      BY <2>5, <2>7
    <3>3. Working'
      BY <1>0, <2>1, <2>3, <2>4, <2>7, <3>2, QuietWorking
    <3> QED
      BY <3>1, <3>3
  <2>8. CASE ~ ok /\ Fail /\ UNCHANGED <<platter, promised>>
    <3>1. Stored'
      BY <2>1, <2>3, <2>4, <2>8, FailedStored
    <3>2. Working'
      BY <1>0, <2>1, <2>4, <2>8, FailedWorking
    <3> QED
      BY <3>1, <3>2
  <2> QED
    BY <2>2, <2>6, <2>7, <2>8
<1> QED
    BY <1>1, <1>2

\* A write at a batched level.
LEMMA BatchedRefusing ==
    ASSUME Promised, Inside', Traced, Stored, Working, BatchedWrite
    PROVE  Stored' /\ Working'
<1>0. Inside /\ Rescue /\ Queue /\ Durable /\ Alone
    BY DEF Promised, Working
<1>1. /\ At("write") /\ mode' = mode /\ UNCHANGED <<platter, level, covered, life, promised, faults>>
      /\ \/ Full /\ UNCHANGED <<buf, seq_next, history>>
         \/ todo' = <<"flush">> \o todo /\ UNCHANGED <<local, buf, seq_next, history>>
         \/ AppendEntry /\ (Return("ok") \/ (todo' = <<"flush">> /\ local' = local))
    BY DEF BatchedWrite, ring, device
<1>2. /\ mode = "up" /\ mode' = "up" /\ Open /\ todo[1] = "write" /\ 1 \in 1 .. Len(todo) /\ todo # <<>>
      /\ todo \in Seq(Steps) /\ Len(todo) \in Nat \ {0} /\ ~ local.dirty /\ ~ local.wrote
      /\ \A i \in 1 .. Len(todo) : todo[i] \notin Batching
  <2>1. "write" \notin Batching
    BY DEF Batching
  <2> QED
    BY <1>0, <1>1, <2>1, AtHead
<1>3. level = "batch"
    BY <1>0, <1>2 DEF Alone
<1>4. CASE Full /\ UNCHANGED <<buf, seq_next, history>>
  <2>1. Stored'
    BY <1>0, <1>1, <1>2, <1>4, QuietStored DEF Durable
  <2>2. Alone' /\ todo' # <<"sync">>
    BY <1>4, FullAlone
  <2>3. ~ Written'
    BY <1>0, <1>1, <1>4, NotWritten
  <2>4. Working'
    BY <1>0, <1>1, <1>2, <1>4, <2>2, <2>3, QuietWorking
  <2> QED
    BY <2>1, <2>4
<1>5. CASE todo' = <<"flush">> \o todo /\ UNCHANGED <<local, buf, seq_next, history>>
  <2>1. Stored'
    BY <1>0, <1>1, <1>2, <1>5, QuietStored DEF Durable
  <2>2. todo'[1] = "flush"
    BY <1>2, <1>5
  <2>3. ASSUME NEW i \in 1 .. Len(todo')
        PROVE  /\ todo'[i] \notin {"admit", "tail", "sync", "batch"}
               /\ todo'[i] = "write" => level = "batch"
    <3>1. i = 1 \/ (i - 1 \in 1 .. Len(todo) /\ todo'[i] = todo[i - 1])
      BY <1>2, <1>5
    <3>2. ASSUME NEW j \in 1 .. Len(todo) PROVE todo[j] \notin {"admit", "tail", "sync", "batch"}
      <4>1. todo[j] # "admit" /\ todo[j] # "tail"
        BY <1>2 DEF Batching
      <4>2. todo[j] # "batch"
        BY <1>0, <1>2 DEF Alone
      <4>3. todo[j] # "sync"
        BY <1>0, <1>2 DEF Alone
      <4> QED
        BY <4>1, <4>2, <4>3
    <3> QED
      BY <1>3, <2>2, <3>1, <3>2
  <2>4. Alone'
    BY <1>1, <1>2, <1>5, <2>3 DEF Alone
  <2>5. ~ Written' /\ todo' # <<"sync">>
    <3>1. ~ Written'
      BY <1>2, <1>5, <2>2 DEF Written
    <3>2. <<"sync">>[1] = "sync"
      OBVIOUS
    <3> QED
      BY <2>2, <3>1, <3>2
  <2>6. Working'
    BY <1>0, <1>1, <1>2, <1>5, <2>4, <2>5, QuietWorking
  <2> QED
    BY <2>1, <2>6
<1>6. CASE AppendEntry /\ (Return("ok") \/ (todo' = <<"flush">> /\ local' = local))
  <2>1. Stored'
    BY <1>0, <1>1, <1>2, <1>6, AppendStored
  <2>2. Alone' /\ ~ Written' /\ todo' # <<"sync">>
    <3>1. CASE Return("ok")
      <4>1. Alone' /\ todo' = <<>>
        BY <3>1, ReturnAlone
      <4>2. ~ Written'
        BY <1>0, <1>1, <3>1, NotWritten
      <4>3. <<>> # <<"sync">>
        OBVIOUS
      <4> QED
        BY <4>1, <4>2, <4>3
    <3>2. CASE todo' = <<"flush">> /\ local' = local
      <4>1. todo'[1] = "flush" /\ \A i \in 1 .. Len(todo') : todo'[i] = "flush"
        BY <3>2
      <4>2. Alone'
        BY <1>2, <3>2, <4>1, PlainAlone
      <4>3. ~ Written'
        BY <1>2, <3>2, <4>1 DEF Written
      <4>4. <<"sync">>[1] = "sync"
        OBVIOUS
      <4> QED
        BY <4>1, <4>2, <4>3, <4>4
    <3> QED
      BY <1>6, <3>1, <3>2
  <2>3. faults = 0 => Fresh'
    <3>1. faults = 0 => Fresh
      BY <1>2 DEF Working
    <3> QED
      BY <1>0, <1>1, <1>6, <3>1, AppendFresh
  <2>4. Short'
    <3>1. level' # "sync"
      BY <1>1, <1>3
    <3> QED
      BY <2>2, <3>1 DEF Short
  <2> QED
    BY <1>1, <2>1, <2>2, <2>3, <2>4 DEF Working
<1> QED
    BY <1>1, <1>4, <1>5, <1>6

\* A Flush.
LEMMA FlushRefusing ==
    ASSUME Promised, Inside', Traced, Stored, Working, FlushWrite \/ FlushSync
    PROVE  Stored' /\ Working'
<1>0. Inside /\ Rescue /\ Queue /\ Durable /\ Alone
    BY DEF Promised, Working
<1>1. ASSUME FlushWrite PROVE Stored' /\ Working'
  <2>1. At("flush") /\ mode' = mode /\ UNCHANGED <<level, covered, life, promised, seq_next, history, buf>>
    BY <1>1 DEF FlushWrite, past, ring
  <2> DEFINE idle == level = "sync" \/ buf = <<>>
  <2>2. PICK ok \in Outcomes(~ idle) :
             /\ Count(ok)
             /\ \/ idle /\ Continue /\ UNCHANGED platter
                \/ /\ ~ idle /\ ok /\ WriteWindowSpan /\ todo' = <<"flush_sync">> \o Tail(todo)
                   /\ UNCHANGED <<local, last>>
                \/ ~ idle /\ ~ ok /\ WriteFails
    BY <1>1 DEF FlushWrite, device
  <2>3. /\ mode = "up" /\ mode' = "up" /\ Open /\ todo[1] = "flush" /\ 1 \in 1 .. Len(todo) /\ todo # <<>>
        /\ todo \in Seq(Steps) /\ Len(todo) \in Nat \ {0} /\ ~ local.dirty /\ ~ local.wrote
        /\ Tail(todo) \in Seq(Steps) /\ Len(Tail(todo)) = Len(todo) - 1
        /\ \A i \in 1 .. Len(Tail(todo)) : i + 1 \in 1 .. Len(todo) /\ Tail(todo)[i] = todo[i + 1]
    <3>1. "flush" \notin Batching
      BY DEF Batching
    <3> QED
      BY <1>0, <2>1, <3>1, AtHead
  <2>4. ok \in BOOLEAN /\ (idle => ok) /\ (ok => faults' = faults) /\ (~ ok => faults' # 0)
    <3>1. (~ idle) \in BOOLEAN
      OBVIOUS
    <3> HIDE DEF idle
    <3> QED
      BY <1>0, <2>2, <3>1, Counting DEF Inside
  <2>5. CASE idle /\ Continue /\ UNCHANGED platter
    <3>1. faults' = faults
      BY <2>4, <2>5
    <3>2. Stored'
      BY <1>0, <2>1, <2>3, <2>5, <3>1, QuietStored DEF Durable
    <3>3. Alone'
      BY <1>0, <2>1, <2>3, <2>5, ContinueAlone
    <3>4. Written' => Written
      BY <1>0, <2>1, <2>5, NotWritten
    <3>5. Working'
      BY <1>0, <2>1, <2>3, <2>5, <3>1, <3>3, <3>4, QuietWorking
    <3> QED
      BY <3>2, <3>5
  <2>6. CASE /\ ~ idle /\ ok /\ WriteWindowSpan /\ todo' = <<"flush_sync">> \o Tail(todo)
             /\ UNCHANGED <<local, last>>
    <3>1. faults' = faults /\ (faults = 0 => Fresh)
      BY <2>3, <2>4, <2>6 DEF Working
    <3>2. Stored' /\ Shown'
      BY <1>0, <2>1, <2>3, <2>6, <3>1, WrittenStored
    <3>3. faults = 0 => Fresh'
      <4> SUFFICES ASSUME Fresh, NEW n \in covered + 1 .. seq_next - 1 - Len(buf)
                   PROVE  Kept(n)' \/ Older(n, life)
        BY <2>1, <3>1 DEF Fresh, Older
      <4>1. covered \in Nat /\ seq_next \in Nat /\ Len(buf) \in Nat
        BY <1>0, BoundAssumption, LenProperties DEF Inside, Typed, BufRight, BufferRight
      <4>2. n \in Nat /\ covered < n /\ n < seq_next
        BY <4>1
      <4>3. Kept(n) => Kept(n)'
        BY <1>0, <2>3, <2>6, <4>2, SpanHere DEF Durable
      <4> QED
        BY <4>3 DEF Fresh
    <3>4. todo'[1] = "flush_sync" /\ Len(todo') = Len(todo)
      BY <2>3, <2>6
    <3>5. ASSUME NEW i \in 1 .. Len(todo'), i # 1 PROVE todo'[i] = todo[i] /\ i \in 1 .. Len(todo)
      <4>1. i \in 1 .. Len(todo)
        BY <3>4
      <4>2. i - 1 \in 1 .. Len(Tail(todo)) /\ (i - 1) + 1 = i
        BY <2>3, <3>5, <4>1
      <4>3. todo'[i] = Tail(todo)[i - 1]
        BY <2>3, <2>6, <3>5, <4>2
      <4> QED
        BY <2>3, <4>1, <4>2, <4>3
    <3>6. ASSUME NEW i \in 1 .. Len(todo')
          PROVE  /\ todo'[i] # "admit" /\ todo'[i] # "batch"
                 /\ todo'[i] = "tail" => i < Len(todo')
                 /\ todo'[i] = "write" => level = "batch"
                 /\ todo'[i] = "sync" => i = Len(todo') /\ i = 2
      <4>1. CASE i = 1
        BY <3>4, <4>1
      <4>2. CASE i # 1
        BY <1>0, <3>4, <3>5, <4>2 DEF Alone
      <4> QED
        BY <4>1, <4>2
    <3>7. Alone'
      BY <2>1, <2>3, <2>6, <3>4, <3>6 DEF Alone
    <3>8. Short'
      <4>1. level' # "sync"
        BY <2>1, <2>6
      <4>2. <<"sync">>[1] = "sync"
        OBVIOUS
      <4> QED
        BY <3>4, <4>1, <4>2 DEF Short
    <3> QED
      BY <3>1, <3>2, <3>3, <3>7, <3>8 DEF Working
  <2>7. CASE ~ idle /\ ~ ok /\ WriteFails
    <3>1. Fail /\ (WriteWindowSpan \/ UNCHANGED platter) /\ faults' # 0
      BY <2>4, <2>7 DEF WriteFails, device
    <3>2. Stored'
      BY <2>1, <2>3, <3>1, FailedStored
    <3>3. Working'
      BY <1>0, <2>1, <3>1, FailedWorking
    <3> QED
      BY <3>2, <3>3
  <2> HIDE DEF idle
  <2> QED
    BY <2>2, <2>5, <2>6, <2>7
<1>2. ASSUME FlushSync PROVE Stored' /\ Working'
  <2>1. At("flush_sync") /\ mode' = mode /\ UNCHANGED <<level, covered, life, seq_next, history>>
    BY <1>2 DEF FlushSync
  <2>2. PICK ok \in Outcomes(TRUE) :
             /\ Count(ok)
             /\ \/ ok /\ Sync /\ AdvanceAfterWrite /\ promised' = seq_next - 1 /\ Continue
                \/ ~ ok /\ Fail /\ UNCHANGED <<platter, buf, promised>>
    BY <1>2 DEF FlushSync, device
  <2>3. /\ mode = "up" /\ mode' = "up" /\ Open /\ todo[1] = "flush_sync" /\ todo # <<>>
        /\ ~ local.dirty /\ ~ local.wrote
    <3>1. "flush_sync" \notin Batching
      BY DEF Batching
    <3> QED
      BY <1>0, <2>1, <3>1, AtHead
  <2>4. (ok => faults' = faults) /\ (~ ok => faults' # 0)
    BY <1>0, <2>2, Counting DEF Inside
  <2>5. CASE ok /\ Sync /\ AdvanceAfterWrite /\ promised' = seq_next - 1 /\ Continue
    <3>1. Shown /\ AllHere
      BY <1>0, <2>3 DEF Working, Written, Durable
    <3>2. Stored'
      BY <1>0, <2>1, <2>3, <2>4, <2>5, <3>1, SyncedStored
    <3>3. Fresh'
      BY <1>0, <2>1, <2>5, <3>1, SyncFresh
    <3>4. Alone'
      BY <1>0, <2>1, <2>3, <2>5, ContinueAlone
    <3>5. ~ Written'
      BY <1>0, <2>1, <2>3, <2>5, NotWritten
    <3>6. Short'
      <4>1. Len(buf') < BlockFrames
        BY <1>0, <2>5, AdvanceShift
      <4> QED
        BY <4>1 DEF Short
    <3> QED
      BY <3>2, <3>3, <3>4, <3>5, <3>6 DEF Working
  <2>6. CASE ~ ok /\ Fail /\ UNCHANGED <<platter, buf, promised>>
    <3>1. Stored'
      BY <2>1, <2>3, <2>4, <2>6, FailedStored
    <3>2. Working'
      BY <1>0, <2>1, <2>4, <2>6, FailedWorking
    <3> QED
      BY <3>1, <3>2
  <2> QED
    BY <2>2, <2>5, <2>6
<1> QED
    BY <1>1, <1>2

\* A snapshot.
LEMMA SnapshotRefusing ==
    ASSUME Promised, Inside', Traced, Stored, Working, TakeSnapshot
    PROVE  Stored' /\ Working'
<1>0. Inside /\ Rescue /\ Queue /\ Durable /\ Alone
    BY DEF Promised, Working
<1>1. /\ At("snapshot") /\ mode' = mode /\ UNCHANGED <<platter, buf, seq_next, level, life, history, promised>>
      /\ covered' = covered \/ covered' = seq_next - 1
    BY DEF TakeSnapshot, device, past
<1>2. PICK ok \in Outcomes(TRUE) : Count(ok) /\ ((ok /\ Continue) \/ (~ ok /\ Fail))
    BY DEF TakeSnapshot
<1>3. /\ mode = "up" /\ mode' = "up" /\ ~ local.dirty /\ ~ local.wrote
  <2>1. "snapshot" \notin Batching
    BY DEF Batching
  <2> QED
    BY <1>0, <1>1, <2>1, AtHead
<1>4. (ok => faults' = faults) /\ (~ ok => faults' # 0)
    BY <1>0, <1>2, Counting DEF Inside
<1>5. faults' = 0 => faults = 0
    BY <1>2, <1>4
<1>6. Stored'
    BY <1>0, <1>1, <1>3, <1>5, QuietStored DEF Durable
<1>7. CASE ok /\ Continue
  <2>1. Alone' /\ todo' # <<"sync">>
    <3>1. Alone' /\ (todo' = <<"sync">> => "snapshot" \in {"flush", "flush_sync"})
      BY <1>0, <1>1, <1>3, <1>7, ContinueAlone
    <3> QED
      BY <3>1
  <2>2. Written' => Written
    BY <1>0, <1>1, <1>7, NotWritten
  <2>3. Working'
    BY <1>0, <1>1, <1>3, <1>5, <2>1, <2>2, QuietWorking
  <2> QED
    BY <1>6, <2>3
<1>8. CASE ~ ok /\ Fail
    BY <1>0, <1>1, <1>4, <1>6, <1>8, FailedWorking
<1> QED
    BY <1>2, <1>7, <1>8

\* A process that ends or starts, and a device that is refused.
LEMMA OtherRefusing ==
    ASSUME Promised, Inside', ErasesOnlyFragments', Traced, Stored, Working,
           CloseDevice \/ PowerFailure \/ Kill \/ Recover \/ FinishErase \/ Refuse \/ UNCHANGED vars
    PROVE  Stored' /\ Working'
<1>0. Inside /\ Rescue /\ Queue /\ Durable /\ Alone
    BY DEF Promised, Working
<1>1. ASSUME todo' = <<>>, local' = Idle
      PROVE  Alone' /\ ~ Written' /\ todo' # <<"sync">> /\ ~ local'.wrote /\ ~ local'.dirty
  <2>1. Return("ok") => Alone'
    BY ReturnAlone
  <2>2. Len(todo') = 0 /\ ~ local'.wrote /\ ~ local'.dirty /\ <<>> # <<"sync">>
    BY <1>1 DEF Idle
  <2>3. Alone'
    BY <2>2, PlainAlone
  <2> QED
    BY <1>1, <2>2, <2>3 DEF Written
<1>2. ASSUME CloseDevice \/ PowerFailure \/ Kill PROVE Stored' /\ Working'
  <2>1. todo' = <<>> /\ local' = Idle /\ mode' = "down"
    BY <1>2 DEF CloseDevice, PowerFailure, Kill, Forget
  <2>2. Stored'
    BY <1>0, <1>2, StopStored
  <2>3. Working'
    BY <1>1, <2>1 DEF Working, Open
  <2> QED
    BY <2>2, <2>3
<1>3. ASSUME Recover PROVE Stored' /\ Working'
  <2>1. Stored' /\ Fresh' /\ Len(buf') < BlockFrames
    BY <1>0, <1>3, RecoverStored
  <2>2. todo' = <<>> /\ local' = Idle
    BY <1>0, <1>3 DEF Recover, call, Queue, Rescue
  <2>3. Short'
    BY <2>1 DEF Short
  <2> QED
    BY <1>1, <2>1, <2>2, <2>3 DEF Working
<1>4. ASSUME FinishErase PROVE Stored' /\ Working'
  <2>1. /\ mode = "erasing" /\ mode' = "up" /\ Sync
        /\ UNCHANGED <<buf, seq_next, covered, history, life, promised, faults, level, todo, local>>
    BY <1>4 DEF FinishErase, ring, call
  <2>2. todo' = <<>> /\ local' = Idle /\ ~ local.wrote /\ ~ local.dirty /\ Open
    BY <1>0, <2>1 DEF Queue, Rescue, Idle, Open
  <2>3. Stored'
    BY <1>0, <2>1, <2>2, SyncedStored
  <2>4. faults = 0 => Fresh /\ Short
    BY <2>2 DEF Working
  <2>5. Fresh => Fresh'
    BY <1>0, <2>1, SyncFresh
  <2>6. Short => Short'
    BY <2>1 DEF Short
  <2> QED
    BY <1>1, <2>1, <2>2, <2>3, <2>4, <2>5, <2>6 DEF Working
<1>5. ASSUME Refuse PROVE Stored' /\ Working'
  <2>1. /\ mode = "down" /\ mode' = "refused"
        /\ UNCHANGED <<platter, buf, seq_next, covered, history, life, promised, faults, level, todo, local>>
    BY <1>5 DEF Refuse, device, ring, call, ghost, past
  <2>2. LivesTo(life)
    <3>1. LivesTo(life - 1) /\ life \in Nat /\ DeviceRight
      BY <1>0, <2>1, BoundAssumption DEF Stored, Inside, Typed
    <3>2. ASSUME NEW x \in Slots, NEW i \in 1 .. Len(platter[x])
          PROVE  platter[x][i][2] <= life /\ (platter[x][i][1] # 0 => platter[x][i][2] > 0)
      <4> DEFINE f == platter[x][i]
      <4>1. f[2] \in Nat /\ f[2] <= life - 1 /\ (f[1] # 0 => f[2] > 0)
        BY <3>1, Contents DEF LivesTo
      <4> HIDE DEF f
      <4>2. f[2] <= life
        BY <3>1, <4>1
      <4> QED
        BY <4>1, <4>2 DEF f
    <3> QED
      BY <3>1, <3>2 DEF LivesTo
  <2>3. LivesTo(IF mode = "down" THEN life - 1 ELSE life)'
    BY <2>1, <2>2 DEF LivesTo
  <2>4. Anchored'
    BY <2>1 DEF Stored, Anchored, Kept, Seat, Open
  <2>5. faults' = 0 => Holes'
    BY <2>1 DEF Stored, Holes, Kept, Near, Older, Here, Seq0, Current, Seat
  <2>6. Stored'
    BY <2>1, <2>3, <2>4, <2>5 DEF Stored, Open
  <2>7. todo' = <<>> /\ local' = Idle
    BY <1>0, <2>1 DEF Queue, Rescue
  <2>8. Working'
    BY <1>1, <2>1, <2>7 DEF Working, Open
  <2> QED
    BY <2>6, <2>8
<1>6. ASSUME UNCHANGED vars PROVE Stored' /\ Working'
  <2>1. UNCHANGED <<mode, platter, buf, seq_next, covered, history, life, promised, faults, level, todo, local>>
    BY <1>6 DEF vars, device, ring, call, ghost, past
  <2>2. LivesTo(IF mode = "down" THEN life - 1 ELSE life)'
    BY <2>1 DEF Stored, LivesTo
  <2>3. Open' => Ungiven' /\ Own' /\ Gapless' /\ Tip'
    BY <2>1 DEF Stored, Open, Ungiven, Own, Gapless, Tip, Here, Seq0, Current, Seat
  <2>4. mode' = "down" => Settled' \/ (Latest' /\ Gapless')
    BY <2>1 DEF Stored, Settled, Latest, Gapless, Here, Seq0, Current, Seat
  <2>5. Anchored'
    BY <2>1 DEF Stored, Anchored, Kept, Seat, Open
  <2>9. Holes => Holes'
    BY <2>1, SameHoles
  <2>6. faults' = 0 => Holes'
    BY <2>1, <2>9 DEF Stored
  <2>7. Stored'
    BY <2>2, <2>3, <2>4, <2>5, <2>6 DEF Stored
  <2>8. Working'
    BY <2>1 DEF Working, Alone, Open, Written, Shown, Fresh, Short, Kept, Older, Here, Seq0, Current, Seat
  <2> QED
    BY <2>7, <2>8
<1> QED
    BY <1>2, <1>3, <1>4, <1>5, <1>6

\* At first.
LEMMA RefusingInit == Init => Refusing
<1> SUFFICES ASSUME Init PROVE Refusing
    OBVIOUS
<1>1. /\ platter = [x \in Slots |-> <<None>>] /\ buf = <<>> /\ covered = 0 /\ mode = "up" /\ seq_next = 1
      /\ history = [s \in 1 .. MaxSeq |-> 0] /\ promised = 0 /\ life = 1 /\ todo = <<>> /\ local = Idle
    BY DEF Init
<1>2. Len(buf) = 0 /\ Len(todo) = 0
    BY <1>1
<1>3. \A x \in Slots : /\ Len(platter[x]) = 1 /\ platter[x][1] = None
                       /\ Current(x) = None
    BY <1>1 DEF Current
<1>4. \A x \in Slots : \A i \in 1 .. Len(platter[x]) : platter[x][i][1] = 0 /\ platter[x][i][2] = 0
  <2> SUFFICES ASSUME NEW x \in Slots, NEW i \in 1 .. Len(platter[x])
               PROVE  platter[x][i][1] = 0 /\ platter[x][i][2] = 0
    OBVIOUS
  <2>1. Len(platter[x]) = 1 /\ platter[x][1] = None
    BY <1>3
  <2>2. i = 1
    BY <2>1
  <2> QED
    BY <2>1, <2>2 DEF None
<1>5. LivesTo(IF mode = "down" THEN life - 1 ELSE life)
  <2>1. \A i \in 1 .. Len(buf) : FALSE
    BY <1>2
  <2> QED
    BY <1>1, <1>4, <2>1 DEF LivesTo
<1>6. Ungiven
    BY <1>1 DEF Ungiven
<1>7. Own /\ Tip
  <2>1. \A i \in 1 .. Len(buf) : FALSE
    BY <1>2
  <2> QED
    BY <1>1, <2>1 DEF Own, Tip
<1>8. Gapless
  <2>1. \A x \in Slots : Seq0(x) = 0
    BY <1>3 DEF Seq0, None
  <2> QED
    BY <1>1, <2>1 DEF Gapless
<1>9. Anchored
    BY <1>1 DEF Anchored
<1>10. Holes
  <2> SUFFICES ASSUME NEW x \in Slots, NEW i \in 1 .. Len(platter[x]),
                      NEW n \in covered + 1 .. platter[x][i][1] - 1
               PROVE  FALSE
    BY DEF Holes
  <2>1. platter[x][i][1] = 0
    BY <1>4
  <2> QED
    BY <1>1, <2>1
<1>11. Stored
    BY <1>1, <1>5, <1>6, <1>7, <1>8, <1>9, <1>10 DEF Stored
<1>12. ~ local.wrote /\ ~ local.dirty
    BY <1>1 DEF Idle
<1>13. Alone
  <2>1. \A i \in 1 .. Len(todo) : FALSE
    BY <1>2
  <2> QED
    BY <1>12, <2>1 DEF Alone
<1>14. ~ Written
    BY <1>1, <1>12 DEF Written
<1>15. Fresh
  <2>1. \A n \in covered + 1 .. seq_next - 1 - Len(buf) : FALSE
    BY <1>1, <1>2
  <2> QED
    BY <2>1 DEF Fresh
<1>16. Short
  <2>1. 0 < BlockFrames
    BY Sizes
  <2> QED
    BY <1>2, <2>1 DEF Short
<1>17. Working
    BY <1>13, <1>14, <1>15, <1>16 DEF Working
<1> QED
    BY <1>11, <1>17 DEF Refusing

\* Every step.
LEMMA RefusingNext ==
    ASSUME MaxBatch = 1
    PROVE  Promised /\ Traced /\ Refusing /\ [Next]_vars /\ ErasesOnlyFragments' => Refusing'
<1> SUFFICES ASSUME Promised, Traced, Stored, Working, [Next]_vars, ErasesOnlyFragments'
             PROVE  Stored' /\ Working'
    BY DEF Refusing
<1>1. Inside'
    BY PromisedNext DEF Promised
<1>2. CASE WriteWal \/ Snapshot \/ Close \/ (\E l \in Levels : SetWalLevel(l)) \/ Retry \/ AdmitReopen \/ SwitchLevel
    BY <1>1, <1>2, CallsRefusing
<1>3. CASE AdmitSegment \/ AdmitAppend
    BY <1>1, <1>3, AdmitRefusing
<1>4. CASE BatchTail \/ BatchSync
    BY <1>1, <1>4, BatchRefusing
<1>5. CASE BatchedWrite
    BY <1>1, <1>5, BatchedRefusing
<1>6. CASE FlushWrite \/ FlushSync
    BY <1>1, <1>6, FlushRefusing
<1>7. CASE TakeSnapshot
    BY <1>1, <1>7, SnapshotRefusing
<1>8. CASE CloseDevice \/ PowerFailure \/ Kill \/ Recover \/ FinishErase \/ Refuse \/ UNCHANGED vars
    BY <1>1, <1>8, OtherRefusing
<1>9. CASE Refused
    BY <1>1, <1>9, OtherRefusing DEF Refused
<1> QED
    BY <1>2, <1>3, <1>4, <1>5, <1>6, <1>7, <1>8, <1>9, Zenon DEF Next

\* At first nothing is refused.
LEMMA RefusedInit == Init => RefusesOnlyLostHead
<1> SUFFICES ASSUME Init PROVE mode # "refused"
    BY DEF RefusesOnlyLostHead
<1>1. mode = "up"
    BY DEF Init
<1> QED
    BY <1>1

\* A refusal is explained when it is made, and a refused device stays as it is.
LEMMA RefusedNext == Promised /\ Refusing /\ RefusesOnlyLostHead /\ [Next]_vars => RefusesOnlyLostHead'
<1> SUFFICES ASSUME Promised, Refusing, RefusesOnlyLostHead, [Next]_vars, mode' = "refused"
             PROVE  Explained'
    BY DEF RefusesOnlyLostHead, Explained
<1>1. CASE Refuse
  <2>1. ~ Acceptable(Survey)
    BY <1>1 DEF Refuse
  <2>2. Inside /\ Lasting /\ Anchored /\ (faults = 0 => Holes)
    BY DEF Promised, Durable, Refusing, Stored
  <2>3. Explained
    BY <2>1, <2>2, RefusalExplained
  <2>4. UNCHANGED <<platter, covered, history, promised, faults>>
    BY <1>1 DEF Refuse, device, ghost, past
  <2> QED
    BY <2>3, <2>4 DEF Explained, Live, Valid, Missing, Seq0, Current
<1>2. ASSUME UNCHANGED vars PROVE Explained'
  <2>1. UNCHANGED <<mode, platter, covered, history, promised, faults>>
    BY <1>2 DEF vars, device, ring, call, ghost, past
  <2>2. Explained
    BY <2>1 DEF RefusesOnlyLostHead, Explained
  <2> QED
    BY <2>1, <2>2 DEF Explained, Live, Valid, Missing, Seq0, Current
<1>3. CASE Refused
    BY <1>2, <1>3 DEF Refused
<1>4. CASE Next /\ ~ Refuse /\ ~ Refused
  <2>1. mode' # "refused"
    BY <1>4 DEF Next, WriteWal, Snapshot, Close, SetWalLevel, Call, Retry, AdmitReopen, AdmitSegment, AdmitAppend,
         BatchTail, BatchSync, BatchedWrite, FlushWrite, FlushSync, TakeSnapshot, SwitchLevel, CloseDevice,
         PowerFailure, Kill, Recover, FinishErase, At
  <2> QED
    BY <2>1
<1> QED
    BY <1>1, <1>2, <1>3, <1>4

\* With calls of one frame, and as long as recoveries erase no frame they have just replayed,
\* Recover refuses a device only where the first frame after the snapshot is lost, where a window of
\* an earlier life or a failed write has left a hole, or where the snapshot covers frames that were
\* never made durable; no promised frame is lost by it (Acceptable of Recover, src/wal/wal.cpp).
THEOREM RefusalsExplained ==
    ASSUME MaxBatch = 1
    PROVE  Spec /\ []ErasesOnlyFragments => []RefusesOnlyLostHead
<1>1. Init => Promised /\ Traced /\ Refusing /\ RefusesOnlyLostHead
    BY PromisedInit, TracedInit, RefusingInit, RefusedInit
<1>2. Promised /\ Traced /\ Refusing /\ RefusesOnlyLostHead /\ [Next]_vars /\ ErasesOnlyFragments'
        => Promised' /\ Traced' /\ Refusing' /\ RefusesOnlyLostHead'
    BY PromisedNext, TracedNext, RefusingNext, RefusedNext DEF Promised
<1> QED
    BY <1>1, <1>2, PTL DEF Spec

==============================================================================
