----------------------------- MODULE ReactorProofs -----------------------------
(***************************************************************************)
(* Proofs about Reactor, for any set of callers, any finite set of devices *)
(* and any number of operations.                                           *)
(***************************************************************************)
EXTENDS Reactor, SequenceTheorems, FiniteSetTheorems, TLAPS

USE OpsAssumption, DevicesAssumption, CallersAssumption

---------------------------------------------------------------------------
(* The inductive invariant.                                                *)

Nodes   == Callers \cup {Stop}
Waiting == {"notify", "test", "wait", "asleep"}

\* A caller between the node and its result has a reactor, nobody answers a node before it
\* is pushed, and the wake word a caller has read is not newer than the word; a reactor that
\* drains has finished its batch.
Settled ==
    /\ before \in [Callers -> SUBSET Callers]
    /\ \A c \in Callers : pc[c] \in Waiting \cup {"push"} => target[c] \in Devices
    /\ \A c \in Callers : pc[c] = "push" => result[c] = Pending
    /\ \A c \in Callers : seen[c] <= wake[c]
    /\ \A r \in Devices : run[r] \in {"drain", "sleep", "asleep", "ended"} => batch[r] = <<>>

Typed == TypeOK /\ Settled

\* What reactor r has in hand and has not answered.
Hand(r) == IF run[r] = "store" THEN {op[r]} ELSE {}

\* The nodes h in hand, b in the batch and q in the inbox of a reactor are those of the
\* callers U, each once; what came before a node is served before it.
Everyone(h, b, q, U) ==
    \A c \in Callers :
        c \in U <=> \/ c \in h
                    \/ \E i \in 1 .. Len(b) : b[i] = c
                    \/ \E i \in 1 .. Len(q) : q[i] = c
Once(h, b, q) ==
    /\ \A i \in 1 .. Len(b) : b[i] \notin h
    /\ \A i \in 1 .. Len(q) : q[i] \notin h
    /\ \A i \in 1 .. Len(b), j \in 1 .. Len(q) : b[i] = q[j] => b[i] = Stop
    /\ \A i, j \in 1 .. Len(b) : b[i] = b[j] /\ b[i] # Stop => i = j
    /\ \A i, j \in 1 .. Len(q) : q[i] = q[j] /\ q[i] # Stop => i = j
InOrder(h, b, q, bf) ==
    /\ \A c \in h : bf[c] = {}
    /\ \A i \in 1 .. Len(b) : b[i] # Stop =>
           \A d \in bf[b[i]] : d \in h \/ \E j \in 1 .. Len(b) : j < i /\ b[j] = d
    /\ \A i \in 1 .. Len(q) : q[i] # Stop =>
           \A d \in bf[q[i]] : \/ d \in h
                               \/ \E j \in 1 .. Len(b) : b[j] = d
                               \/ \E j \in 1 .. Len(q) : i < j /\ q[j] = d
Queue(h, b, q, U, bf) == Everyone(h, b, q, U) /\ Once(h, b, q) /\ InOrder(h, b, q, bf)

Queued == \A r \in Devices : Queue(Hand(r), batch[r], inbox[r], Unanswered(r), before)

\* A caller that is about to sleep, or sleeps, although its result is there: the bump is still
\* to come, or the word has moved on since the caller read it.
Bumps(r, c) == op[r] = c /\ target[c] = r /\ run[r] = "bump"
Wakes(r, c) == op[r] = c /\ target[c] = r /\ run[r] = "notify" /\ seen[c] < wake[c]
Roused ==
    \A c \in Callers : result[c] # Pending =>
        /\ pc[c] = "wait" => seen[c] < wake[c] \/ \E r \in Devices : Bumps(r, c)
        /\ pc[c] = "asleep" => \E r \in Devices : Bumps(r, c) \/ Wakes(r, c)

IInv == Typed /\ Queued /\ NoSleepingReactor /\ Roused

---------------------------------------------------------------------------
(* Stacks and batches.                                                     *)

\* A stack with one more node on top.
LEMMA Prepended ==
    ASSUME NEW q \in Seq(Nodes), NEW x \in Nodes
    PROVE  LET p == <<x>> \o q
           IN  /\ p \in Seq(Nodes) /\ Len(p) = Len(q) + 1 /\ p[1] = x /\ p # <<>>
               /\ \A i \in 1 .. Len(p) : i # 1 => i - 1 \in 1 .. Len(q) /\ p[i] = q[i - 1]
               /\ \A i \in 1 .. Len(q) : i + 1 \in 1 .. Len(p) /\ p[i + 1] = q[i]
  <1>1. <<x>> \in Seq(Nodes)
    OBVIOUS
  <1>2. <<x>> \o q \in Seq(Nodes)
    BY <1>1, ConcatProperties
  <1> QED BY <1>2

\* A batch without its first node.
LEMMA Tailed ==
    ASSUME NEW b \in Seq(Nodes), b # <<>>
    PROVE  /\ Tail(b) \in Seq(Nodes) /\ Len(Tail(b)) = Len(b) - 1 /\ Len(b) \in Nat \ {0}
           /\ Head(b) = b[1] /\ b[1] \in Nodes /\ 1 \in 1 .. Len(b)
           /\ \A i \in 1 .. Len(Tail(b)) : i + 1 \in 1 .. Len(b) /\ Tail(b)[i] = b[i + 1]
           /\ \A i \in 1 .. Len(b) : i # 1 =>
                  i - 1 \in 1 .. Len(Tail(b)) /\ Tail(b)[i - 1] = b[i]
  <1>1. /\ Tail(b) \in Seq(Nodes) /\ Len(Tail(b)) = Len(b) - 1 /\ Head(b) = b[1]
        /\ \A i \in 1 .. Len(Tail(b)) : Tail(b)[i] = b[i + 1]
    BY HeadTailProperties
  <1>2. Len(b) \in Nat \ {0}
    BY EmptySeq, LenProperties
  <1>3. \A i \in 1 .. Len(Tail(b)) : i + 1 \in 1 .. Len(b)
    BY <1>1, <1>2
  <1>4. 1 \in 1 .. Len(b) /\ b[1] \in Nodes
    BY <1>2, ElementOfSeq
  <1>5. ASSUME NEW i \in 1 .. Len(b), i # 1
        PROVE  i - 1 \in 1 .. Len(Tail(b)) /\ Tail(b)[i - 1] = b[i]
    <2>1. i - 1 \in 1 .. Len(Tail(b)) /\ i - 1 + 1 = i
      BY <1>1, <1>2, <1>5
    <2> QED BY <1>1, <2>1
  <1> QED BY <1>1, <1>2, <1>3, <1>4, <1>5

\* The stack in order of arrival.
LEMMA ReversedFacts ==
    ASSUME NEW q \in Seq(Nodes)
    PROVE  /\ Reversed(q) \in Seq(Nodes) /\ Len(Reversed(q)) = Len(q) /\ Len(q) \in Nat
           /\ \A i \in 1 .. Len(q) : /\ Len(q) - i + 1 \in 1 .. Len(q)
                                     /\ Reversed(q)[i] = q[Len(q) - i + 1]
                                     /\ Reversed(q)[Len(q) - i + 1] = q[i]
           /\ q = <<>> => Reversed(q) = <<>>
  <1> DEFINE n == Len(q)
             f == [i \in 1 .. n |-> q[(n - i) + 1]]
  <1>1. n \in Nat /\ \A i \in 1 .. n : q[i] \in Nodes
    BY LenProperties, ElementOfSeq
  <1>2. Reversed(q) = f
    BY DEF Reversed, Reverse
  <1> HIDE DEF n
  <1>3. \A i \in 1 .. n : (n - i) + 1 \in 1 .. n /\ n - ((n - i) + 1) + 1 = i
    BY <1>1
  <1>4. f \in Seq(Nodes) /\ Len(f) = n
    BY <1>1, <1>3
  <1>5. \A i \in 1 .. n : f[i] = q[(n - i) + 1] /\ f[(n - i) + 1] = q[i]
    BY <1>3
  <1>6. q = <<>> => f = <<>>
    <2>1. q = <<>> => n = 0
      BY DEF n
    <2> QED BY <1>4, <2>1, EmptySeq
  <1> QED BY <1>1, <1>2, <1>3, <1>4, <1>5, <1>6 DEF n

---------------------------------------------------------------------------
(* What becomes of the queue of a reactor.                                 *)

\* An answered operation is nobody's predecessor.
LEMMA QueueShrinks ==
    ASSUME NEW h \in SUBSET Callers, NEW b \in Seq(Nodes), NEW q \in Seq(Nodes),
           NEW U \in SUBSET Callers, NEW bf, NEW g, Queue(h, b, q, U, bf),
           \A c \in U : g[c] \subseteq bf[c]
    PROVE  Queue(h, b, q, U, g)
  <1>1. \A i \in 1 .. Len(b) : b[i] # Stop => b[i] \in U
    BY ElementOfSeq DEF Queue, Everyone, Nodes
  <1>2. \A i \in 1 .. Len(q) : q[i] # Stop => q[i] \in U
    BY ElementOfSeq DEF Queue, Everyone, Nodes
  <1>3. h \subseteq U
    BY DEF Queue, Everyone
  <1>4. InOrder(h, b, q, g)
    BY <1>1, <1>2, <1>3 DEF Queue, InOrder
  <1> QED BY <1>4 DEF Queue

\* Submit puts a new node on top; whoever is unanswered is in the queue already.
LEMMA QueuePushed ==
    ASSUME NEW h \in SUBSET Callers, NEW b \in Seq(Nodes), NEW q \in Seq(Nodes),
           NEW U \in SUBSET Callers, NEW bf, NEW g, Queue(h, b, q, U, bf),
           NEW c \in Callers, c \notin U, g[c] = U, \A d \in U : g[d] = bf[d]
    PROVE  Queue(h, b, <<c>> \o q, U \cup {c}, g)
  <1>a. c \in Nodes /\ c # Stop
    BY DEF Nodes
  <1>b. PICK p \in Seq(Nodes) : p = <<c>> \o q
    BY <1>a, Prepended
  <1>c. /\ Len(p) \in Nat /\ Len(q) \in Nat /\ 1 \in 1 .. Len(p) /\ p[1] = c
        /\ \A i \in 1 .. Len(p) : i = 1 \/ \E k \in 1 .. Len(q) : i = k + 1 /\ p[i] = q[k]
        /\ \A k \in 1 .. Len(q) : k + 1 \in 1 .. Len(p) /\ p[k + 1] = q[k]
    <2>1. /\ Len(p) = Len(q) + 1 /\ p[1] = c
          /\ \A i \in 1 .. Len(p) : i # 1 => i - 1 \in 1 .. Len(q) /\ p[i] = q[i - 1]
          /\ \A k \in 1 .. Len(q) : k + 1 \in 1 .. Len(p) /\ p[k + 1] = q[k]
      BY <1>a, <1>b, Prepended
    <2>2. Len(p) \in Nat /\ Len(q) \in Nat
      BY LenProperties
    <2>3. 1 \in 1 .. Len(p)
      BY <2>1, <2>2
    <2>4. ASSUME NEW i \in 1 .. Len(p), i # 1
          PROVE  \E k \in 1 .. Len(q) : i = k + 1 /\ p[i] = q[k]
      <3>1. i - 1 \in 1 .. Len(q) /\ i = (i - 1) + 1 /\ p[i] = q[i - 1]
        BY <2>1, <2>4
      <3> QED BY <3>1
    <2> QED BY <2>1, <2>2, <2>3, <2>4
  <1>d. Everyone(h, b, q, U) /\ Once(h, b, q)
    BY DEF Queue
  <1>e. InOrder(h, b, q, g)
    <2>1. Queue(h, b, q, U, g)
      BY QueueShrinks
    <2> QED BY <2>1 DEF Queue
  <1>f. (\A i \in 1 .. Len(b) : b[i] # c) /\ (\A i \in 1 .. Len(q) : q[i] # c) /\ c \notin h
    BY <1>d DEF Everyone
  <1>2. Everyone(h, b, p, U \cup {c})
    <2>0. \A i \in 1 .. Len(p) : p[i] = c \/ \E k \in 1 .. Len(q) : p[i] = q[k]
      BY <1>c
    <2>1. \A d : (\E i \in 1 .. Len(p) : p[i] = d) => d = c \/ \E i \in 1 .. Len(q) : q[i] = d
      BY <2>0
    <2>2. \A d : d = c \/ (\E i \in 1 .. Len(q) : q[i] = d) => \E i \in 1 .. Len(p) : p[i] = d
      BY <1>c
    <2> QED BY <1>d, <2>1, <2>2 DEF Everyone
  <1>3. Once(h, b, p)
    <2>1. \A i \in 1 .. Len(p) : p[i] = c \/ \E k \in 1 .. Len(q) : p[i] = q[k]
      BY <1>c
    <2>2. \A i \in 1 .. Len(p) : p[i] \notin h
      BY <1>d, <1>f, <2>1 DEF Once
    <2>3. \A i \in 1 .. Len(b), j \in 1 .. Len(p) : b[i] = p[j] => b[i] = Stop
      BY <1>d, <1>f, <2>1 DEF Once
    <2>4. ASSUME NEW i \in 1 .. Len(p), NEW j \in 1 .. Len(p), p[i] = p[j], p[i] # Stop
          PROVE  i = j
      <3>1. i = 1 \/ \E k \in 1 .. Len(q) : i = k + 1 /\ p[i] = q[k]
        BY <1>c
      <3>2. j = 1 \/ \E k \in 1 .. Len(q) : j = k + 1 /\ p[j] = q[k]
        BY <1>c
      <3>3. \A k, m \in 1 .. Len(q) : q[k] = q[m] /\ q[k] # Stop => k = m
        BY <1>d DEF Once
      <3> QED BY <1>c, <1>f, <2>4, <3>1, <3>2, <3>3
    <2> QED BY <1>d, <2>2, <2>3, <2>4 DEF Once
  <1>4. InOrder(h, b, p, g)
    <2> SUFFICES ASSUME NEW i \in 1 .. Len(p), p[i] # Stop, NEW d \in g[p[i]]
                 PROVE  \/ d \in h
                        \/ \E j \in 1 .. Len(b) : b[j] = d
                        \/ \E j \in 1 .. Len(p) : i < j /\ p[j] = d
      BY <1>e DEF InOrder
    <2>1. CASE i = 1
      <3>1. d \in U
        BY <1>c, <2>1
      <3>2. \A k \in 1 .. Len(q) : k + 1 \in 1 .. Len(p) /\ i < k + 1 /\ p[k + 1] = q[k]
        BY <1>c, <2>1
      <3>3. \/ d \in h
            \/ \E j \in 1 .. Len(b) : b[j] = d
            \/ \E k \in 1 .. Len(q) : q[k] = d
        BY <1>d, <3>1 DEF Everyone
      <3> QED BY <3>2, <3>3
    <2>2. CASE i # 1
      <3>1. PICK k \in 1 .. Len(q) : i = k + 1 /\ p[i] = q[k]
        BY <1>c, <2>2
      <3>2. \/ d \in h
            \/ \E j \in 1 .. Len(b) : b[j] = d
            \/ \E j \in 1 .. Len(q) : k < j /\ q[j] = d
        BY <1>e, <3>1 DEF InOrder
      <3>3. \A j \in 1 .. Len(q) : k < j => j + 1 \in 1 .. Len(p) /\ i < j + 1 /\ p[j + 1] = q[j]
        BY <1>c, <3>1
      <3> QED BY <3>2, <3>3
    <2> QED BY <2>1, <2>2
  <1> QED BY <1>b, <1>2, <1>3, <1>4 DEF Queue

\* So does Stop, with a node that is no caller's.
LEMMA QueueStopped ==
    ASSUME NEW h \in SUBSET Callers, NEW b \in Seq(Nodes), NEW q \in Seq(Nodes),
           NEW U \in SUBSET Callers, NEW bf, Queue(h, b, q, U, bf)
    PROVE  Queue(h, b, <<Stop>> \o q, U, bf)
  <1>a. Stop \in Nodes /\ Stop \notin Callers
    BY DEF Nodes
  <1>b. PICK p \in Seq(Nodes) : p = <<Stop>> \o q
    BY <1>a, Prepended
  <1>c. /\ Len(p) \in Nat /\ Len(q) \in Nat /\ 1 \in 1 .. Len(p) /\ p[1] = Stop
        /\ \A i \in 1 .. Len(p) : i = 1 \/ \E k \in 1 .. Len(q) : i = k + 1 /\ p[i] = q[k]
        /\ \A k \in 1 .. Len(q) : k + 1 \in 1 .. Len(p) /\ p[k + 1] = q[k]
    <2>1. /\ Len(p) = Len(q) + 1 /\ p[1] = Stop
          /\ \A i \in 1 .. Len(p) : i # 1 => i - 1 \in 1 .. Len(q) /\ p[i] = q[i - 1]
          /\ \A k \in 1 .. Len(q) : k + 1 \in 1 .. Len(p) /\ p[k + 1] = q[k]
      BY <1>a, <1>b, Prepended
    <2>2. Len(p) \in Nat /\ Len(q) \in Nat
      BY LenProperties
    <2>3. 1 \in 1 .. Len(p)
      BY <2>1, <2>2
    <2>4. ASSUME NEW i \in 1 .. Len(p), i # 1
          PROVE  \E k \in 1 .. Len(q) : i = k + 1 /\ p[i] = q[k]
      <3>1. i - 1 \in 1 .. Len(q) /\ i = (i - 1) + 1 /\ p[i] = q[i - 1]
        BY <2>1, <2>4
      <3> QED BY <3>1
    <2> QED BY <2>1, <2>2, <2>3, <2>4
  <1>d. Everyone(h, b, q, U) /\ Once(h, b, q) /\ InOrder(h, b, q, bf)
    BY DEF Queue
  <1>1. \A i \in 1 .. Len(p) : p[i] = Stop \/ \E k \in 1 .. Len(q) : p[i] = q[k]
    BY <1>c
  <1>2. Everyone(h, b, p, U)
    <2>1. \A d \in Callers : (\E i \in 1 .. Len(p) : p[i] = d) => \E i \in 1 .. Len(q) : q[i] = d
      BY <1>1, <1>a
    <2>2. \A d : (\E i \in 1 .. Len(q) : q[i] = d) => \E i \in 1 .. Len(p) : p[i] = d
      BY <1>c
    <2> QED BY <1>d, <2>1, <2>2 DEF Everyone
  <1>3. Once(h, b, p)
    <2>2. \A i \in 1 .. Len(p) : p[i] \notin h
      BY <1>1, <1>a, <1>d DEF Once
    <2>3. \A i \in 1 .. Len(b), j \in 1 .. Len(p) : b[i] = p[j] => b[i] = Stop
      BY <1>1, <1>d DEF Once
    <2>4. ASSUME NEW i \in 1 .. Len(p), NEW j \in 1 .. Len(p), p[i] = p[j], p[i] # Stop
          PROVE  i = j
      <3>1. PICK k \in 1 .. Len(q) : i = k + 1 /\ p[i] = q[k]
        BY <1>c, <2>4
      <3>2. PICK m \in 1 .. Len(q) : j = m + 1 /\ p[j] = q[m]
        BY <1>c, <2>4
      <3>3. k = m
        BY <1>d, <2>4, <3>1, <3>2 DEF Once
      <3> QED BY <3>1, <3>2, <3>3
    <2> QED BY <1>d, <2>2, <2>3, <2>4 DEF Once
  <1>4. InOrder(h, b, p, bf)
    <2> SUFFICES ASSUME NEW i \in 1 .. Len(p), p[i] # Stop, NEW d \in bf[p[i]]
                 PROVE  \/ d \in h
                        \/ \E j \in 1 .. Len(b) : b[j] = d
                        \/ \E j \in 1 .. Len(p) : i < j /\ p[j] = d
      BY <1>d DEF InOrder
    <2>1. PICK k \in 1 .. Len(q) : i = k + 1 /\ p[i] = q[k]
      BY <1>c
    <2>2. \/ d \in h
          \/ \E j \in 1 .. Len(b) : b[j] = d
          \/ \E j \in 1 .. Len(q) : k < j /\ q[j] = d
      BY <1>d, <2>1 DEF InOrder
    <2>3. \A j \in 1 .. Len(q) : k < j => j + 1 \in 1 .. Len(p) /\ i < j + 1 /\ p[j + 1] = q[j]
      BY <1>c, <2>1
    <2> QED BY <2>2, <2>3
  <1> QED BY <1>b, <1>2, <1>3, <1>4 DEF Queue

\* DrainAll takes the stack and turns it round.
LEMMA QueueDrained ==
    ASSUME NEW h \in SUBSET Callers, NEW q \in Seq(Nodes),
           NEW U \in SUBSET Callers, NEW bf, Queue(h, <<>>, q, U, bf)
    PROVE  Queue(h, Reversed(q), <<>>, U, bf)
  <1>a. PICK p \in Seq(Nodes) : p = Reversed(q)
    BY ReversedFacts
  <1>b. PICK n \in Nat : n = Len(q)
    BY LenProperties
  <1>c. /\ Len(p) = n
        /\ \A i \in 1 .. n : n - i + 1 \in 1 .. n /\ p[i] = q[n - i + 1] /\ p[n - i + 1] = q[i]
    BY <1>a, <1>b, ReversedFacts
  <1>d. Everyone(h, <<>>, q, U) /\ Once(h, <<>>, q) /\ InOrder(h, <<>>, q, bf)
    BY DEF Queue
  <1>e. \A x : (\E i \in 1 .. n : p[i] = x) <=> (\E i \in 1 .. n : q[i] = x)
    BY <1>c
  <1>z. Len(<<>>) = 0 /\ \A i \in 1 .. Len(<<>>) : FALSE
    OBVIOUS
  <1>1. Everyone(h, p, <<>>, U)
    BY <1>b, <1>c, <1>d, <1>e, <1>z DEF Everyone
  <1>2. Once(h, p, <<>>)
    <2>1. \A i \in 1 .. Len(p) : p[i] \notin h
      BY <1>b, <1>c, <1>d DEF Once
    <2>2. ASSUME NEW i \in 1 .. Len(p), NEW j \in 1 .. Len(p), p[i] = p[j], p[i] # Stop
          PROVE  i = j
      <3>1. n - i + 1 \in 1 .. n /\ n - j + 1 \in 1 .. n /\ p[i] = q[n - i + 1] /\ p[j] = q[n - j + 1]
        BY <1>c
      <3>2. n - i + 1 = n - j + 1
        BY <1>b, <1>d, <2>2, <3>1 DEF Once
      <3> QED BY <1>c, <3>2
    <2> QED BY <1>z, <2>1, <2>2 DEF Once
  <1>3. InOrder(h, p, <<>>, bf)
    <2>1. ASSUME NEW i \in 1 .. Len(p), p[i] # Stop, NEW d \in bf[p[i]]
          PROVE  d \in h \/ \E j \in 1 .. Len(p) : j < i /\ p[j] = d
      <3>1. PICK k \in 1 .. n : k = n - i + 1 /\ p[i] = q[k]
        BY <1>c
      <3>0. k \in 1 .. Len(q) /\ q[k] # Stop /\ d \in bf[q[k]]
        BY <1>b, <2>1, <3>1
      <3>4. \/ d \in h
            \/ \E j \in 1 .. Len(<<>>) : <<>>[j] = d
            \/ \E j \in 1 .. Len(q) : k < j /\ q[j] = d
        BY <1>d, <3>0 DEF InOrder
      <3>2. d \in h \/ \E j \in 1 .. n : k < j /\ q[j] = d
        BY <1>b, <1>z, <3>4
      <3>3. ASSUME NEW j \in 1 .. n, k < j, q[j] = d
            PROVE  \E m \in 1 .. Len(p) : m < i /\ p[m] = d
        <4>1. n - j + 1 \in 1 .. n /\ p[n - j + 1] = d
          BY <1>c, <3>3
        <4>2. n - j + 1 < i
          BY <1>c, <3>1, <3>3
        <4> QED BY <1>c, <4>1, <4>2
      <3> QED BY <3>2, <3>3
    <2>2. \A c \in h : bf[c] = {}
      BY <1>d DEF InOrder
    <2> QED BY <1>z, <2>1, <2>2 DEF InOrder
  <1> QED BY <1>a, <1>1, <1>2, <1>3 DEF Queue

\* Run takes the first node of the batch in hand.
LEMMA QueueTaken ==
    ASSUME NEW b \in Seq(Nodes), NEW q \in Seq(Nodes), NEW U \in SUBSET Callers, NEW bf,
           Queue({}, b, q, U, bf), b # <<>>, Head(b) # Stop
    PROVE  Queue({Head(b)}, Tail(b), q, U, bf)
  <1>a. PICK p \in Seq(Nodes) : p = Tail(b)
    BY Tailed
  <1>b. PICK c \in Callers : c = Head(b)
    BY Tailed DEF Nodes
  <1>c. /\ Len(p) \in Nat /\ Len(b) \in Nat /\ 1 \in 1 .. Len(b) /\ b[1] = c /\ c # Stop
        /\ \A i \in 1 .. Len(p) : i + 1 \in 1 .. Len(b) /\ p[i] = b[i + 1]
        /\ \A i \in 1 .. Len(b) : i = 1 \/ \E k \in 1 .. Len(p) : i = k + 1 /\ p[k] = b[i]
    <2>1. /\ Len(b) \in Nat \ {0} /\ Head(b) = b[1] /\ 1 \in 1 .. Len(b)
          /\ \A i \in 1 .. Len(p) : i + 1 \in 1 .. Len(b) /\ p[i] = b[i + 1]
          /\ \A i \in 1 .. Len(b) : i # 1 => i - 1 \in 1 .. Len(p) /\ p[i - 1] = b[i]
      BY <1>a, Tailed
    <2>2. Len(p) \in Nat
      BY LenProperties
    <2>3. ASSUME NEW i \in 1 .. Len(b), i # 1
          PROVE  \E k \in 1 .. Len(p) : i = k + 1 /\ p[k] = b[i]
      <3>1. i - 1 \in 1 .. Len(p) /\ i = (i - 1) + 1 /\ p[i - 1] = b[i]
        BY <2>1, <2>3
      <3> QED BY <3>1
    <2> QED BY <1>b, <2>1, <2>2, <2>3
  <1>d. Everyone({}, b, q, U) /\ Once({}, b, q) /\ InOrder({}, b, q, bf)
    BY DEF Queue
  <1>1. Everyone({c}, p, q, U)
    <2>1. \A i \in 1 .. Len(b) : b[i] = c \/ \E k \in 1 .. Len(p) : p[k] = b[i]
      BY <1>c
    <2>3. ASSUME NEW x, NEW i \in 1 .. Len(b), b[i] = x
          PROVE  x = c \/ \E k \in 1 .. Len(p) : p[k] = x
      BY <2>1, <2>3
    <2>4. ASSUME NEW x, NEW i \in 1 .. Len(p), p[i] = x
          PROVE  \E k \in 1 .. Len(b) : b[k] = x
      BY <1>c, <2>4
    <2>2. \A x : (\E i \in 1 .. Len(b) : b[i] = x) <=> x = c \/ (\E i \in 1 .. Len(p) : p[i] = x)
      BY <1>c, <2>3, <2>4
    <2> QED BY <1>d, <2>2 DEF Everyone
  <1>2. Once({c}, p, q)
    <2>1. \A i, j \in 1 .. Len(b) : b[i] = b[j] /\ b[i] # Stop => i = j
      BY <1>d DEF Once
    <2>2. \A i \in 1 .. Len(p) : p[i] # c
      <3> SUFFICES ASSUME NEW i \in 1 .. Len(p), p[i] = c PROVE FALSE
        OBVIOUS
      <3>1. i + 1 = 1
        BY <1>c, <2>1
      <3> QED BY <1>c, <3>1
    <2>3. \A j \in 1 .. Len(q) : q[j] # c
      BY <1>c, <1>d DEF Once
    <2>4. \A i \in 1 .. Len(p), j \in 1 .. Len(q) : p[i] = q[j] => p[i] = Stop
      BY <1>c, <1>d DEF Once
    <2>5. ASSUME NEW i \in 1 .. Len(p), NEW j \in 1 .. Len(p), p[i] = p[j], p[i] # Stop
          PROVE  i = j
      <3>0. /\ i + 1 \in 1 .. Len(b) /\ j + 1 \in 1 .. Len(b)
            /\ b[i + 1] = b[j + 1] /\ b[i + 1] # Stop
        BY <1>c, <2>5
      <3>1. i + 1 = j + 1
        BY <2>1, <3>0
      <3> QED BY <1>c, <3>1
    <2> QED BY <1>d, <2>2, <2>3, <2>4, <2>5 DEF Once
  <1>3. InOrder({c}, p, q, bf)
    <2>1. bf[c] = {}
      <3> SUFFICES ASSUME NEW d \in bf[c] PROVE FALSE
        OBVIOUS
      <3>1. \E j \in 1 .. Len(b) : j < 1 /\ b[j] = d
        BY <1>c, <1>d DEF InOrder
      <3> QED BY <1>c, <3>1
    <2>2. ASSUME NEW i \in 1 .. Len(p), p[i] # Stop, NEW d \in bf[p[i]]
          PROVE  d = c \/ \E j \in 1 .. Len(p) : j < i /\ p[j] = d
      <3>0. PICK m \in 1 .. Len(b) : m = i + 1 /\ b[m] # Stop /\ d \in bf[b[m]]
        BY <1>c, <2>2
      <3>1. PICK j \in 1 .. Len(b) : j < i + 1 /\ b[j] = d
        BY <1>d, <3>0 DEF InOrder
      <3>2. j = 1 \/ \E k \in 1 .. Len(p) : j = k + 1 /\ p[k] = b[j]
        BY <1>c
      <3> QED BY <1>c, <3>1, <3>2
    <2>3. \A i \in 1 .. Len(b) : b[i] = c \/ \E k \in 1 .. Len(p) : p[k] = b[i]
      BY <1>c
    <2>4. ASSUME NEW i \in 1 .. Len(q), q[i] # Stop, NEW d \in bf[q[i]]
          PROVE  \/ d = c
                 \/ \E j \in 1 .. Len(p) : p[j] = d
                 \/ \E j \in 1 .. Len(q) : i < j /\ q[j] = d
      <3>1. \/ \E j \in 1 .. Len(b) : b[j] = d
            \/ \E j \in 1 .. Len(q) : i < j /\ q[j] = d
        BY <1>d, <2>4 DEF InOrder
      <3> QED BY <2>3, <3>1
    <2> QED BY <2>1, <2>2, <2>4 DEF InOrder
  <1> QED BY <1>a, <1>b, <1>1, <1>2, <1>3 DEF Queue

\* Run passes over Stop.
LEMMA QueueTookStop ==
    ASSUME NEW b \in Seq(Nodes), NEW q \in Seq(Nodes), NEW U \in SUBSET Callers, NEW bf,
           bf \in [Callers -> SUBSET Callers],
           Queue({}, b, q, U, bf), b # <<>>, Head(b) = Stop
    PROVE  Queue({}, Tail(b), q, U, bf)
  <1>a. PICK p \in Seq(Nodes) : p = Tail(b)
    BY Tailed
  <1>c. /\ Len(p) \in Nat /\ Len(b) \in Nat /\ 1 \in 1 .. Len(b) /\ b[1] = Stop /\ Stop \notin Callers
        /\ \A i \in 1 .. Len(p) : i + 1 \in 1 .. Len(b) /\ p[i] = b[i + 1]
        /\ \A i \in 1 .. Len(b) : i = 1 \/ \E k \in 1 .. Len(p) : i = k + 1 /\ p[k] = b[i]
    <2>1. /\ Len(b) \in Nat \ {0} /\ Head(b) = b[1] /\ 1 \in 1 .. Len(b)
          /\ \A i \in 1 .. Len(p) : i + 1 \in 1 .. Len(b) /\ p[i] = b[i + 1]
          /\ \A i \in 1 .. Len(b) : i # 1 => i - 1 \in 1 .. Len(p) /\ p[i - 1] = b[i]
      BY <1>a, Tailed
    <2>2. Len(p) \in Nat
      BY LenProperties
    <2>3. ASSUME NEW i \in 1 .. Len(b), i # 1
          PROVE  \E k \in 1 .. Len(p) : i = k + 1 /\ p[k] = b[i]
      <3>1. i - 1 \in 1 .. Len(p) /\ i = (i - 1) + 1 /\ p[i - 1] = b[i]
        BY <2>1, <2>3
      <3> QED BY <3>1
    <2> QED BY <2>1, <2>2, <2>3
  <1>d. Everyone({}, b, q, U) /\ Once({}, b, q) /\ InOrder({}, b, q, bf)
    BY DEF Queue
  <1>e. \A i \in 1 .. Len(b) : b[i] = Stop \/ \E k \in 1 .. Len(p) : p[k] = b[i]
    BY <1>c
  <1>1. Everyone({}, p, q, U)
    <2>3. ASSUME NEW x \in Callers, NEW i \in 1 .. Len(b), b[i] = x
          PROVE  \E k \in 1 .. Len(p) : p[k] = x
      BY <1>c, <1>e, <2>3
    <2>4. ASSUME NEW x, NEW i \in 1 .. Len(p), p[i] = x
          PROVE  \E k \in 1 .. Len(b) : b[k] = x
      BY <1>c, <2>4
    <2>1. \A x \in Callers : (\E i \in 1 .. Len(b) : b[i] = x) <=> (\E i \in 1 .. Len(p) : p[i] = x)
      BY <2>3, <2>4
    <2> QED BY <1>d, <2>1 DEF Everyone
  <1>2. Once({}, p, q)
    <2>1. \A i, j \in 1 .. Len(b) : b[i] = b[j] /\ b[i] # Stop => i = j
      BY <1>d DEF Once
    <2>4. \A i \in 1 .. Len(p), j \in 1 .. Len(q) : p[i] = q[j] => p[i] = Stop
      BY <1>c, <1>d DEF Once
    <2>5. ASSUME NEW i \in 1 .. Len(p), NEW j \in 1 .. Len(p), p[i] = p[j], p[i] # Stop
          PROVE  i = j
      <3>0. /\ i + 1 \in 1 .. Len(b) /\ j + 1 \in 1 .. Len(b)
            /\ b[i + 1] = b[j + 1] /\ b[i + 1] # Stop
        BY <1>c, <2>5
      <3>1. i + 1 = j + 1
        BY <2>1, <3>0
      <3> QED BY <1>c, <3>1
    <2> QED BY <1>d, <2>4, <2>5 DEF Once
  <1>3. InOrder({}, p, q, bf)
    <2>1. \A i \in 1 .. Len(p) : p[i] # Stop => p[i] \in Callers
      BY ElementOfSeq DEF Nodes
    <2>2. ASSUME NEW i \in 1 .. Len(p), p[i] # Stop, NEW d \in bf[p[i]]
          PROVE  \E j \in 1 .. Len(p) : j < i /\ p[j] = d
      <3>0. PICK m \in 1 .. Len(b) : m = i + 1 /\ b[m] # Stop /\ d \in bf[b[m]]
        BY <1>c, <2>2
      <3>1. PICK j \in 1 .. Len(b) : j < i + 1 /\ b[j] = d
        BY <1>d, <3>0 DEF InOrder
      <3>2. d # Stop
        BY <1>c, <2>1, <2>2
      <3>3. j = 1 \/ \E k \in 1 .. Len(p) : j = k + 1 /\ p[k] = b[j]
        BY <1>c
      <3> QED BY <1>c, <3>1, <3>2, <3>3
    <2>3. \A i \in 1 .. Len(q) : q[i] # Stop => q[i] \in Callers
      BY ElementOfSeq DEF Nodes
    <2>4. ASSUME NEW i \in 1 .. Len(q), q[i] # Stop, NEW d \in bf[q[i]]
          PROVE  \/ \E j \in 1 .. Len(p) : p[j] = d
                 \/ \E j \in 1 .. Len(q) : i < j /\ q[j] = d
      <3>1. \/ \E j \in 1 .. Len(b) : b[j] = d
            \/ \E j \in 1 .. Len(q) : i < j /\ q[j] = d
        BY <1>d, <2>4 DEF InOrder
      <3>2. d # Stop
        BY <1>c, <2>3, <2>4
      <3> QED BY <1>e, <3>1, <3>2
    <2> QED BY <2>2, <2>4 DEF InOrder
  <1> QED BY <1>a, <1>1, <1>2, <1>3 DEF Queue

\* Store answers the operation in hand.
LEMMA QueueAnswered ==
    ASSUME NEW c \in Callers, NEW b \in Seq(Nodes), NEW q \in Seq(Nodes),
           NEW U \in SUBSET Callers, NEW bf, NEW g, Queue({c}, b, q, U, bf),
           \A d \in Callers : g[d] = bf[d] \ {c}
    PROVE  Queue({}, b, q, U \ {c}, g)
  <1>d. Everyone({c}, b, q, U) /\ Once({c}, b, q) /\ InOrder({c}, b, q, bf)
    BY DEF Queue
  <1>a. \A i \in 1 .. Len(b) : b[i] # c
    BY <1>d DEF Once
  <1>b. \A i \in 1 .. Len(q) : q[i] # c
    BY <1>d DEF Once
  <1>1. Everyone({}, b, q, U \ {c})
    BY <1>a, <1>b, <1>d DEF Everyone
  <1>2. Once({}, b, q)
    BY <1>d DEF Once
  <1>3. InOrder({}, b, q, g)
    <2>1. \A i \in 1 .. Len(b) : b[i] # Stop => b[i] \in Callers
      BY ElementOfSeq DEF Nodes
    <2>2. \A i \in 1 .. Len(q) : q[i] # Stop => q[i] \in Callers
      BY ElementOfSeq DEF Nodes
    <2>3. ASSUME NEW i \in 1 .. Len(b), b[i] # Stop, NEW d \in g[b[i]]
          PROVE  \E j \in 1 .. Len(b) : j < i /\ b[j] = d
      <3>1. d \in bf[b[i]] /\ d # c
        BY <2>1, <2>3
      <3> QED BY <1>d, <2>3, <3>1 DEF InOrder
    <2>4. ASSUME NEW i \in 1 .. Len(q), q[i] # Stop, NEW d \in g[q[i]]
          PROVE  \/ \E j \in 1 .. Len(b) : b[j] = d
                 \/ \E j \in 1 .. Len(q) : i < j /\ q[j] = d
      <3>1. d \in bf[q[i]] /\ d # c
        BY <2>2, <2>4
      <3> QED BY <1>d, <2>4, <3>1 DEF InOrder
    <2> QED BY <2>3, <2>4 DEF InOrder
  <1> QED BY <1>1, <1>2, <1>3 DEF Queue

---------------------------------------------------------------------------
(* The state of one reactor, read off the invariant.                       *)

\* What the parts of a reactor's queue are.
LEMMA Parts ==
    ASSUME Typed, Queued, NEW r \in Devices
    PROVE  /\ Hand(r) \in SUBSET Callers /\ Unanswered(r) \in SUBSET Callers
           /\ batch[r] \in Seq(Nodes) /\ inbox[r] \in Seq(Nodes)
           /\ Queue(Hand(r), batch[r], inbox[r], Unanswered(r), before)
  <1>1. Hand(r) \in SUBSET Callers
    BY DEF Typed, TypeOK, Hand
  <1>2. batch[r] \in Seq(Nodes) /\ inbox[r] \in Seq(Nodes)
    BY DEF Typed, TypeOK, Nodes
  <1>3. Unanswered(r) \in SUBSET Callers
    BY DEF Unanswered
  <1> QED BY <1>1, <1>2, <1>3 DEF Queued

\* The operation in hand is that of a call that waits for this reactor.
LEMMA InHand ==
    ASSUME Typed, Queued, NEW r \in Devices, run[r] = "store"
    PROVE  /\ op[r] \in Callers /\ Hand(r) = {op[r]} /\ op[r] \in Unanswered(r)
           /\ target[op[r]] = r /\ result[op[r]] = Pending /\ pc[op[r]] \in Waiting
  <1>1. op[r] \in Callers /\ Hand(r) = {op[r]}
    BY DEF Typed, TypeOK, Hand
  <1>2. op[r] \in Unanswered(r)
    BY <1>1, Parts DEF Queue, Everyone
  <1> QED BY <1>1, <1>2 DEF Unanswered, Waiting

\* A reactor that only others' steps touch keeps its queue.
LEMMA QueueKept ==
    ASSUME Typed, Queued, NEW r \in Devices,
           Hand(r)' = Hand(r), batch'[r] = batch[r], inbox'[r] = inbox[r],
           Unanswered(r)' = Unanswered(r),
           \A c \in Unanswered(r) : before'[c] \subseteq before[c]
    PROVE  Queue(Hand(r), batch[r], inbox[r], Unanswered(r), before)'
  <1>1. Queue(Hand(r), batch[r], inbox[r], Unanswered(r), before')
    BY Parts, QueueShrinks
  <1> QED BY <1>1 DEF Queue, Everyone, Once, InOrder

\* The two outcomes of the test: no result yet, or the end of the call or of its node.
LEMMA TestDoes ==
    ASSUME Typed, NEW c \in Callers, Test(c)
    PROVE  /\ pc[c] = "test" /\ UNCHANGED <<inbox, wake, rest, run, batch, op, stopping,
                                            opened, closing, joining, before, missed, ops>>
           /\ \E l \in {"wait", "out", "node"}, x \in {Pending, Ok},
                 t \in Devices \cup {Nobody}, v \in Nat :
                  /\ pc' = [pc EXCEPT ![c] = l] /\ result' = [result EXCEPT ![c] = x]
                  /\ target' = [target EXCEPT ![c] = t] /\ seen' = [seen EXCEPT ![c] = v]
                  /\ l = "wait" => x = Pending /\ result[c] = x /\ t = target[c] /\ v = seen[c]
                  /\ l # "wait" => result[c] # Pending /\ v = 0
  <1>1. pc[c] = "test" /\ UNCHANGED <<inbox, wake, rest, run, batch, op, stopping,
                                      opened, closing, joining, before, missed, ops>>
    BY DEF Test, reactors, engine, ghost
  <1>2. /\ result = [result EXCEPT ![c] = result[c]] /\ target = [target EXCEPT ![c] = target[c]]
        /\ seen = [seen EXCEPT ![c] = seen[c]]
        /\ target[c] \in Devices \cup {Nobody} /\ seen[c] \in Nat
    BY DEF Typed, TypeOK
  <1>3. CASE result[c] = Pending
    <2>1. pc' = [pc EXCEPT ![c] = "wait"] /\ UNCHANGED <<result, target, seen>>
      BY <1>3 DEF Test, Go
    <2> QED BY <1>1, <1>2, <1>3, <2>1
  <1>4. CASE result[c] # Pending
    <2>1. PICK l \in {"out", "node"} : l = IF rest[c] = {} THEN "out" ELSE "node"
      OBVIOUS
    <2>2. pc' = [pc EXCEPT ![c] = l]
      BY <1>4, <2>1 DEF Test, Go
    <2>3. /\ result' = [result EXCEPT ![c] = Ok]
          /\ target' = [target EXCEPT ![c] = Nobody]
          /\ seen' = [seen EXCEPT ![c] = 0]
      BY <1>4 DEF Test
    <2> QED BY <1>1, <1>4, <2>2, <2>3
  <1> QED BY <1>3, <1>4

\* The two outcomes of the wait: asleep, or another look.
LEMMA WaitDoes ==
    ASSUME Typed, NEW c \in Callers, Wait(c)
    PROVE  /\ pc[c] = "wait"
           /\ UNCHANGED <<inbox, result, wake, target, rest, run, batch, op, stopping,
                          opened, closing, joining, before, missed, ops>>
           /\ \E l \in {"asleep", "test"} :
                  /\ pc' = [pc EXCEPT ![c] = l] /\ seen' = [seen EXCEPT ![c] = wake[c]]
                  /\ l = "asleep" => seen[c] = wake[c]
  <1>1. /\ pc[c] = "wait"
        /\ UNCHANGED <<inbox, result, wake, target, rest, run, batch, op, stopping,
                       opened, closing, joining, before, missed, ops>>
    BY DEF Wait, reactors, engine, ghost
  <1>2. CASE wake[c] = seen[c]
    <2>1. pc' = [pc EXCEPT ![c] = "asleep"] /\ seen' = seen
      BY <1>2 DEF Wait, Go
    <2>2. seen = [seen EXCEPT ![c] = wake[c]]
      BY <1>2 DEF Typed, TypeOK
    <2> QED BY <1>1, <1>2, <2>1, <2>2
  <1>3. CASE wake[c] # seen[c]
    <2>1. pc' = [pc EXCEPT ![c] = "test"] /\ seen' = [seen EXCEPT ![c] = wake[c]]
      BY <1>3 DEF Wait, Go
    <2> QED BY <1>1, <2>1
  <1> QED BY <1>2, <1>3

---------------------------------------------------------------------------
(* Types.                                                                  *)

\* Each step keeps the types.
LEMMA TypedKept ==
    ASSUME Typed, Queued, [Next]_vars
    PROVE  Typed'
  <1> USE DEF Typed, Labels, RunLabels, Pending, Ok, NotOpen
  <1>1. ASSUME NEW c \in Callers, Call(c)
        PROVE  Typed'
    <2>1. PICK S \in {Devices} \cup {{r} : r \in Devices} :
              /\ ops + Cardinality(S) <= MaxOps /\ ops' = ops + Cardinality(S)
              /\ rest' = [rest EXCEPT ![c] = S]
      BY <1>1 DEF Call
    <2>2. S \in SUBSET Devices /\ IsFiniteSet(S)
      BY <2>1, FS_Subset
    <2>3. ops' \in 0 .. MaxOps
      BY <2>1, <2>2, FS_CardinalityType DEF TypeOK
    <2>4. TypeOK'
      BY <1>1, <2>1, <2>2, <2>3 DEF Call, Go, TypeOK, reactors, engine
    <2>5. Settled'
      BY <1>1 DEF Call, Go, Settled, TypeOK, reactors, engine, Waiting
    <2> QED BY <2>4, <2>5
  <1>2. ASSUME NEW c \in Callers, NewNode(c)
        PROVE  Typed'
    <2>1. TypeOK'
      BY <1>2 DEF NewNode, Go, TypeOK, reactors, engine, ghost
    <2>2. Settled'
      BY <1>2 DEF NewNode, Go, Settled, TypeOK, reactors, engine, ghost, Waiting
    <2> QED BY <2>1, <2>2
  <1>3. ASSUME NEW c \in Callers, Push(c)
        PROVE  Typed'
    <2>1. target[c] \in Devices
      BY <1>3 DEF Push, Settled
    <2>2. <<c>> \o inbox[target[c]] \in Seq(Callers \cup {Stop})
      BY <2>1, Prepended DEF TypeOK, Nodes
    <2>3. inbox' \in [Devices -> Seq(Callers \cup {Stop})]
      BY <1>3, <2>1, <2>2 DEF Push, TypeOK
    <2>4. TypeOK'
      BY <1>3, <2>3 DEF Push, Go, TypeOK, reactors, engine
    <2>5. before' \in [Callers -> SUBSET Callers]
      BY <1>3 DEF Push, Settled, Unanswered
    <2>6. Settled'
      BY <1>3, <2>1, <2>5 DEF Push, Go, Settled, TypeOK, reactors, engine, Waiting
    <2> QED BY <2>4, <2>6
  <1>4. ASSUME NEW c \in Callers, NotifyInbox(c)
        PROVE  Typed'
    <2>1. TypeOK'
      BY <1>4 DEF NotifyInbox, Go, Awaken, TypeOK, engine, ghost
    <2>2. Settled'
      BY <1>4 DEF NotifyInbox, Go, Awaken, Settled, TypeOK, engine, ghost, Waiting
    <2> QED BY <2>1, <2>2
  <1>5. ASSUME NEW c \in Callers, Test(c)
        PROVE  Typed'
    <2>a. /\ pc[c] = "test" /\ UNCHANGED <<inbox, wake, rest, run, batch, op, stopping,
                                           opened, closing, joining, before, missed, ops>>
      BY <1>5, TestDoes, Zenon
    <2>b. PICK l \in {"wait", "out", "node"}, x \in {Pending, Ok},
               t \in Devices \cup {Nobody}, v \in Nat :
             /\ pc' = [pc EXCEPT ![c] = l] /\ result' = [result EXCEPT ![c] = x]
             /\ target' = [target EXCEPT ![c] = t] /\ seen' = [seen EXCEPT ![c] = v]
             /\ l = "wait" => x = Pending /\ result[c] = x /\ t = target[c] /\ v = seen[c]
             /\ l # "wait" => result[c] # Pending /\ v = 0
      BY <1>5, TestDoes, Zenon
    <2>1. TypeOK'
      BY <2>a, <2>b DEF TypeOK
    <2>2. Settled'
      BY <2>a, <2>b DEF TypeOK, Settled, Waiting
    <2> QED BY <2>1, <2>2
  <1>6. ASSUME NEW c \in Callers, Wait(c)
        PROVE  Typed'
    <2>a. /\ pc[c] = "wait"
          /\ UNCHANGED <<inbox, result, wake, target, rest, run, batch, op, stopping,
                         opened, closing, joining, before, missed, ops>>
      BY <1>6, WaitDoes, Zenon
    <2>b. PICK l \in {"asleep", "test"} :
             /\ pc' = [pc EXCEPT ![c] = l] /\ seen' = [seen EXCEPT ![c] = wake[c]]
             /\ l = "asleep" => seen[c] = wake[c]
      BY <1>6, WaitDoes, Zenon
    <2>1. TypeOK'
      BY <2>a, <2>b DEF TypeOK
    <2>2. Settled'
      BY <2>a, <2>b DEF TypeOK, Settled, Waiting
    <2> QED BY <2>1, <2>2
  <1>7. ASSUME NEW r \in Devices, Drain(r)
        PROVE  Typed'
    <2>1. /\ Reversed(inbox[r]) \in Seq(Callers \cup {Stop})
          /\ inbox[r] = <<>> => Reversed(inbox[r]) = <<>>
      BY ReversedFacts DEF TypeOK, Nodes
    <2>2. PICK p \in Seq(Callers \cup {Stop}) : p = Reversed(inbox[r])
      BY <2>1
    <2>3. batch' = [batch EXCEPT ![r] = p]
      BY <1>7, <2>2 DEF Drain
    <2>4. TypeOK'
      BY <1>7, <2>3 DEF Drain, Run, TypeOK, calls, engine, ghost
    <2>5. Settled'
      BY <1>7, <2>1, <2>2, <2>3 DEF Drain, Run, Settled, TypeOK, calls, engine, ghost, Waiting
    <2> QED BY <2>4, <2>5
  <1>8. ASSUME NEW r \in Devices, Sleep(r)
        PROVE  Typed'
    <2>1. TypeOK'
      BY <1>8 DEF Sleep, Run, TypeOK, calls, engine, ghost
    <2>2. Settled'
      BY <1>8 DEF Sleep, Run, Settled, TypeOK, calls, engine, ghost, Waiting
    <2> QED BY <2>1, <2>2
  <1>9. ASSUME NEW r \in Devices, Take(r)
        PROVE  Typed'
    <2>1. Tail(batch[r]) \in Seq(Callers \cup {Stop}) /\ Head(batch[r]) \in Callers
      BY <1>9, Tailed DEF Take, TypeOK, Nodes
    <2>2. TypeOK'
      BY <1>9, <2>1 DEF Take, Run, TypeOK, calls, engine, ghost
    <2>3. Settled'
      BY <1>9 DEF Take, Run, Settled, TypeOK, calls, engine, ghost, Waiting
    <2> QED BY <2>2, <2>3
  <1>10. ASSUME NEW r \in Devices, TakeStop(r)
         PROVE  Typed'
    <2>1. Tail(batch[r]) \in Seq(Callers \cup {Stop})
      BY <1>10, Tailed DEF TakeStop, TypeOK, Nodes
    <2>2. TypeOK'
      BY <1>10, <2>1 DEF TakeStop, TypeOK, calls, engine, ghost
    <2>3. Settled'
      BY <1>10 DEF TakeStop, Settled, TypeOK, calls, engine, ghost, Waiting
    <2> QED BY <2>2, <2>3
  <1>11. ASSUME NEW r \in Devices, EndBatch(r)
         PROVE  Typed'
    <2>1. TypeOK'
      BY <1>11 DEF EndBatch, Run, TypeOK, calls, engine, ghost
    <2>2. Settled'
      BY <1>11 DEF EndBatch, Run, Settled, TypeOK, calls, engine, ghost, Waiting
    <2> QED BY <2>1, <2>2
  <1>12. ASSUME NEW r \in Devices, Store(r)
         PROVE  Typed'
    <2>1. op[r] \in Callers /\ pc[op[r]] # "push"
      BY <1>12, InHand DEF Store, Waiting
    <2>2. TypeOK'
      BY <1>12 DEF Store, Run, TypeOK, engine
    <2>3. before' \in [Callers -> SUBSET Callers]
      BY <1>12 DEF Store, Settled
    <2>4. Settled'
      BY <1>12, <2>1, <2>3 DEF Store, Run, Settled, TypeOK, engine, Waiting
    <2> QED BY <2>2, <2>4
  <1>13. ASSUME NEW r \in Devices, Bump(r)
         PROVE  Typed'
    <2>1. op[r] \in Callers
      BY <1>13 DEF Bump, TypeOK
    <2>2. TypeOK'
      BY <1>13, <2>1 DEF Bump, Run, TypeOK, engine, ghost
    <2>3. Settled'
      BY <1>13, <2>1 DEF Bump, Run, Settled, TypeOK, engine, ghost, Waiting
    <2> QED BY <2>2, <2>3
  <1>14. ASSUME NEW r \in Devices, Notify(r)
         PROVE  Typed'
    <2>1. op[r] \in Callers
      BY <1>14 DEF Notify, TypeOK
    <2>2. TypeOK'
      BY <1>14, <2>1 DEF Notify, Run, TypeOK, engine, ghost
    <2>3. Settled'
      BY <1>14, <2>1 DEF Notify, Run, Settled, TypeOK, engine, ghost, Waiting
    <2> QED BY <2>2, <2>3
  <1>15. ASSUME BeginClose
         PROVE  Typed'
    <2>1. TypeOK'
      BY <1>15 DEF BeginClose, TypeOK, calls, reactors, ghost
    <2>2. Settled'
      BY <1>15 DEF BeginClose, Settled, TypeOK, calls, reactors, ghost, Waiting
    <2> QED BY <2>1, <2>2
  <1>16. ASSUME NEW r \in Devices, SubmitStop(r)
         PROVE  Typed'
    <2>1. <<Stop>> \o inbox[r] \in Seq(Callers \cup {Stop})
      BY Prepended DEF TypeOK, Nodes
    <2>2. TypeOK'
      BY <1>16, <2>1 DEF SubmitStop, Awaken, TypeOK, calls, ghost
    <2>3. Settled'
      BY <1>16 DEF SubmitStop, Awaken, Settled, TypeOK, calls, ghost, Waiting
    <2> QED BY <2>2, <2>3
  <1>17. ASSUME NEW r \in Devices, Join(r)
         PROVE  Typed'
    <2>1. TypeOK'
      BY <1>17 DEF Join, TypeOK, calls, reactors, ghost
    <2>2. Settled'
      BY <1>17 DEF Join, Settled, TypeOK, calls, reactors, ghost, Waiting
    <2> QED BY <2>1, <2>2
  <1>18. ASSUME UNCHANGED vars
         PROVE  Typed'
    <2>1. TypeOK'
      BY <1>18 DEF vars, TypeOK, calls, reactors, engine, ghost
    <2>2. Settled'
      BY <1>18 DEF vars, Settled, TypeOK, calls, reactors, engine, ghost, Waiting
    <2> QED BY <2>1, <2>2
  <1> QED
    BY <1>1, <1>2, <1>3, <1>4, <1>5, <1>6, <1>7, <1>8, <1>9, <1>10, <1>11, <1>12, <1>13, <1>14,
       <1>15, <1>16, <1>17, <1>18 DEF Next, SubmitStep, ReactorStep, StopStep, Idle

---------------------------------------------------------------------------
(* The queues.                                                             *)

\* Each step keeps every reactor's nodes: those of the calls it has not answered, each once,
\* in the order of their arrival.
LEMMA QueuedKept ==
    ASSUME Typed, Queued, [Next]_vars
    PROVE  Queued'
  <1> DEFINE Q(r) == Queue(Hand(r), batch[r], inbox[r], Unanswered(r), before)
  <1> SUFFICES ASSUME NEW s \in Devices
               PROVE  Q(s)'
    BY DEF Queued
  <1>q. ASSUME Hand(s)' = Hand(s), batch'[s] = batch[s], inbox'[s] = inbox[s],
               Unanswered(s)' = Unanswered(s), before' = before
        PROVE  Q(s)'
    BY <1>q, QueueKept
  <1>p. /\ Hand(s) \in SUBSET Callers /\ Unanswered(s) \in SUBSET Callers
        /\ batch[s] \in Seq(Nodes) /\ inbox[s] \in Seq(Nodes) /\ Q(s)
    BY Parts
  <1> HIDE DEF Q
  <1>t. TypeOK /\ Settled
    BY DEF Typed
  <1>1. ASSUME NEW c \in Callers, Call(c)
        PROVE  Q(s)'
    <2>1. Unanswered(s)' = Unanswered(s)
      BY <1>1, <1>t DEF Call, Go, Unanswered, TypeOK
    <2>2. Hand(s)' = Hand(s) /\ batch'[s] = batch[s] /\ inbox'[s] = inbox[s] /\ before' = before
      BY <1>1 DEF Call, reactors, Hand
    <2> QED BY <1>q, <2>1, <2>2
  <1>2. ASSUME NEW c \in Callers, NewNode(c)
        PROVE  Q(s)'
    <2>1. Unanswered(s)' = Unanswered(s)
      BY <1>2, <1>t DEF NewNode, Go, Unanswered, TypeOK
    <2>2. Hand(s)' = Hand(s) /\ batch'[s] = batch[s] /\ inbox'[s] = inbox[s] /\ before' = before
      BY <1>2 DEF NewNode, reactors, ghost, Hand
    <2> QED BY <1>q, <2>1, <2>2
  <1>3. ASSUME NEW c \in Callers, Push(c)
        PROVE  Q(s)'
    <2>1. target[c] \in Devices /\ result[c] = Pending /\ pc[c] = "push"
      BY <1>3, <1>t DEF Push, Settled
    <2>2. Hand(s)' = Hand(s) /\ batch'[s] = batch[s]
      BY <1>3 DEF Push, reactors, Hand
    <2>3. /\ pc' = [pc EXCEPT ![c] = "notify"] /\ UNCHANGED <<target, result>>
          /\ before' = [before EXCEPT ![c] = Unanswered(target[c])]
          /\ inbox' = [inbox EXCEPT ![target[c]] = <<c>> \o @]
      BY <1>3 DEF Push, Go
    <2>4. c \notin Unanswered(s)
      BY <2>1 DEF Unanswered
    <2>5. before'[c] = Unanswered(target[c]) /\ \A d \in Callers : d # c => before'[d] = before[d]
      BY <2>3, <1>t DEF Settled
    <2>6. CASE s = target[c]
      <3>1. inbox'[s] = <<c>> \o inbox[s]
        BY <2>1, <2>3, <2>6, <1>t DEF TypeOK
      <3>2. Unanswered(s)' = Unanswered(s) \cup {c}
        BY <2>1, <2>3, <2>6, <1>t DEF Unanswered, TypeOK
      <3>3. before'[c] = Unanswered(s) /\ \A d \in Unanswered(s) : before'[d] = before[d]
        BY <1>p, <2>4, <2>5, <2>6
      <3>4. Queue(Hand(s), batch[s], <<c>> \o inbox[s], Unanswered(s) \cup {c}, before')
        BY <1>p, <2>4, <3>3, QueuePushed DEF Q
      <3> QED BY <2>2, <3>1, <3>2, <3>4 DEF Q
    <2>7. CASE s # target[c]
      <3>1. inbox'[s] = inbox[s]
        BY <2>1, <2>3, <2>7, <1>t DEF TypeOK
      <3>2. Unanswered(s)' = Unanswered(s)
        BY <2>1, <2>3, <2>7, <1>t DEF Unanswered, TypeOK
      <3>3. \A d \in Unanswered(s) : before'[d] \subseteq before[d]
        BY <1>p, <2>4, <2>5
      <3> QED BY <2>2, <3>1, <3>2, <3>3, QueueKept DEF Q
    <2> QED BY <2>6, <2>7
  <1>4. ASSUME NEW c \in Callers, NotifyInbox(c)
        PROVE  Q(s)'
    <2>1. Unanswered(s)' = Unanswered(s)
      BY <1>4, <1>t DEF NotifyInbox, Go, Unanswered, TypeOK
    <2>2. batch'[s] = batch[s] /\ inbox'[s] = inbox[s] /\ before' = before
      BY <1>4 DEF NotifyInbox, ghost
    <2>3. Hand(s)' = Hand(s)
      BY <1>4, <1>t DEF NotifyInbox, Awaken, Hand, TypeOK
    <2> QED BY <1>q, <2>1, <2>2, <2>3
  <1>5. ASSUME NEW c \in Callers, Test(c)
        PROVE  Q(s)'
    <2>a. /\ pc[c] = "test" /\ UNCHANGED <<inbox, wake, rest, run, batch, op, stopping,
                                           opened, closing, joining, before, missed, ops>>
      BY <1>5, TestDoes, Zenon
    <2>b. PICK l \in {"wait", "out", "node"}, x \in {Pending, Ok},
               t \in Devices \cup {Nobody}, v \in Nat :
             /\ pc' = [pc EXCEPT ![c] = l] /\ result' = [result EXCEPT ![c] = x]
             /\ target' = [target EXCEPT ![c] = t] /\ seen' = [seen EXCEPT ![c] = v]
             /\ l = "wait" => x = Pending /\ result[c] = x /\ t = target[c] /\ v = seen[c]
             /\ l # "wait" => result[c] # Pending /\ v = 0
      BY <1>5, TestDoes, Zenon
    <2>1. Unanswered(s)' = Unanswered(s)
      BY <2>a, <2>b, <1>t DEF Unanswered, TypeOK
    <2>2. Hand(s)' = Hand(s)
      BY <2>a DEF Hand
    <2> QED BY <1>q, <2>a, <2>1, <2>2
  <1>6. ASSUME NEW c \in Callers, Wait(c)
        PROVE  Q(s)'
    <2>a. /\ pc[c] = "wait"
          /\ UNCHANGED <<inbox, result, wake, target, rest, run, batch, op, stopping,
                         opened, closing, joining, before, missed, ops>>
      BY <1>6, WaitDoes, Zenon
    <2>b. PICK l \in {"asleep", "test"} :
             /\ pc' = [pc EXCEPT ![c] = l] /\ seen' = [seen EXCEPT ![c] = wake[c]]
             /\ l = "asleep" => seen[c] = wake[c]
      BY <1>6, WaitDoes, Zenon
    <2>1. Unanswered(s)' = Unanswered(s)
      BY <2>a, <2>b, <1>t DEF Unanswered, TypeOK
    <2>2. Hand(s)' = Hand(s)
      BY <2>a DEF Hand
    <2> QED BY <1>q, <2>a, <2>1, <2>2
  <1>7. ASSUME NEW r \in Devices, Drain(r)
        PROVE  Q(s)'
    <2>1. Unanswered(s)' = Unanswered(s) /\ before' = before
      BY <1>7 DEF Drain, calls, ghost, Unanswered
    <2>2. PICK l \in {"sleep", "take"} : run' = [run EXCEPT ![r] = l]
      BY <1>7 DEF Drain, Run
    <2>3. /\ run[r] = "drain" /\ op' = op
          /\ batch' = [batch EXCEPT ![r] = Reversed(inbox[r])]
          /\ inbox' = [inbox EXCEPT ![r] = <<>>]
      BY <1>7 DEF Drain
    <2>4. Hand(s)' = Hand(s)
      BY <2>2, <2>3, <1>t DEF Hand, TypeOK
    <2>5. CASE s = r
      <3>1. batch[s] = <<>>
        BY <2>3, <2>5, <1>t DEF Settled
      <3>2. batch'[s] = Reversed(inbox[s]) /\ inbox'[s] = <<>>
        BY <2>3, <2>5, <1>t DEF TypeOK
      <3>3. Queue(Hand(s), Reversed(inbox[s]), <<>>, Unanswered(s), before)
        BY <1>p, <3>1, QueueDrained DEF Q
      <3> QED BY <2>1, <2>4, <3>2, <3>3 DEF Q
    <2>6. CASE s # r
      <3>1. batch'[s] = batch[s] /\ inbox'[s] = inbox[s]
        BY <2>3, <2>6, <1>t DEF TypeOK
      <3> QED BY <1>q, <2>1, <2>4, <3>1
    <2> QED BY <2>5, <2>6
  <1>8. ASSUME NEW r \in Devices, Sleep(r)
        PROVE  Q(s)'
    <2>1. Unanswered(s)' = Unanswered(s)
      BY <1>8 DEF Sleep, calls, Unanswered
    <2>2. batch'[s] = batch[s] /\ inbox'[s] = inbox[s] /\ before' = before
      BY <1>8 DEF Sleep, ghost
    <2>3. Hand(s)' = Hand(s)
      BY <1>8, <1>t DEF Sleep, Run, Hand, TypeOK
    <2> QED BY <1>q, <2>1, <2>2, <2>3
  <1>9. ASSUME NEW r \in Devices, Take(r)
        PROVE  Q(s)'
    <2>1. Unanswered(s)' = Unanswered(s) /\ before' = before /\ inbox' = inbox
      BY <1>9 DEF Take, calls, ghost, Unanswered
    <2>2. /\ run[r] = "take" /\ batch[r] # <<>> /\ Head(batch[r]) # Stop
          /\ run' = [run EXCEPT ![r] = "store"]
          /\ op' = [op EXCEPT ![r] = Head(batch[r])]
          /\ batch' = [batch EXCEPT ![r] = Tail(@)]
      BY <1>9 DEF Take, Run
    <2>3. CASE s = r
      <3>1. Hand(s) = {} /\ Hand(s)' = {Head(batch[s])} /\ batch'[s] = Tail(batch[s])
        BY <2>2, <2>3, <1>t DEF Hand, TypeOK
      <3>2. Queue({Head(batch[s])}, Tail(batch[s]), inbox[s], Unanswered(s), before)
        BY <1>p, <2>2, <2>3, <3>1, QueueTaken DEF Q
      <3> QED BY <2>1, <3>1, <3>2 DEF Q
    <2>4. CASE s # r
      <3>1. Hand(s)' = Hand(s) /\ batch'[s] = batch[s]
        BY <2>2, <2>4, <1>t DEF Hand, TypeOK
      <3> QED BY <1>q, <2>1, <3>1
    <2> QED BY <2>3, <2>4
  <1>10. ASSUME NEW r \in Devices, TakeStop(r)
         PROVE  Q(s)'
    <2>1. /\ Unanswered(s)' = Unanswered(s) /\ before' = before /\ inbox' = inbox
          /\ Hand(s)' = Hand(s)
      BY <1>10 DEF TakeStop, calls, ghost, Unanswered, Hand
    <2>2. /\ run[r] = "take" /\ batch[r] # <<>> /\ Head(batch[r]) = Stop
          /\ batch' = [batch EXCEPT ![r] = Tail(@)]
      BY <1>10 DEF TakeStop
    <2>3. CASE s = r
      <3>1. Hand(s) = {} /\ batch'[s] = Tail(batch[s])
        BY <2>2, <2>3, <1>t DEF Hand, TypeOK
      <3>2. before \in [Callers -> SUBSET Callers]
        BY <1>t DEF Settled
      <3>3. Queue({}, Tail(batch[s]), inbox[s], Unanswered(s), before)
        BY <1>p, <2>2, <2>3, <3>1, <3>2, QueueTookStop DEF Q
      <3> QED BY <2>1, <3>1, <3>3 DEF Q
    <2>4. CASE s # r
      <3>1. batch'[s] = batch[s]
        BY <2>2, <2>4, <1>t DEF TypeOK
      <3> QED BY <1>q, <2>1, <3>1
    <2> QED BY <2>3, <2>4
  <1>11. ASSUME NEW r \in Devices, EndBatch(r)
         PROVE  Q(s)'
    <2>1. Unanswered(s)' = Unanswered(s)
      BY <1>11 DEF EndBatch, calls, Unanswered
    <2>2. batch'[s] = batch[s] /\ inbox'[s] = inbox[s] /\ before' = before
      BY <1>11 DEF EndBatch, ghost
    <2>3. Hand(s)' = Hand(s)
      BY <1>11, <1>t DEF EndBatch, Run, Hand, TypeOK
    <2> QED BY <1>q, <2>1, <2>2, <2>3
  <1>12. ASSUME NEW r \in Devices, Store(r)
         PROVE  Q(s)'
    <2>a. PICK c \in Callers : c = op[r]
      BY <1>12, InHand DEF Store
    <2>1. /\ Hand(r) = {c} /\ target[c] = r /\ c \in Unanswered(r)
      BY <1>12, <2>a, InHand DEF Store
    <2>2. PICK x \in {Ok, NotOpen} : result' = [result EXCEPT ![c] = x]
      BY <1>12, <2>a DEF Store
    <2>3. /\ run[r] = "store" /\ run' = [run EXCEPT ![r] = "bump"]
          /\ UNCHANGED <<inbox, pc, target, batch, op>>
          /\ before' = [d \in Callers |-> before[d] \ {c}]
      BY <1>12, <2>a DEF Store, Run
    <2>4. CASE s = r
      <3>1. Hand(s)' = {}
        BY <2>3, <2>4, <1>t DEF Hand, TypeOK
      <3>2. Unanswered(s)' = Unanswered(s) \ {c}
        BY <2>2, <2>3, <1>t DEF Unanswered, TypeOK, Pending, Ok, NotOpen
      <3>3. Queue({}, batch[s], inbox[s], Unanswered(s) \ {c}, before')
        BY <1>p, <2>1, <2>3, <2>4, QueueAnswered DEF Q
      <3> QED BY <2>3, <3>1, <3>2, <3>3 DEF Q
    <2>5. CASE s # r
      <3>1. Hand(s)' = Hand(s)
        BY <2>3, <2>5, <1>t DEF Hand, TypeOK
      <3>2. Unanswered(s)' = Unanswered(s)
        BY <2>1, <2>2, <2>3, <2>5, <1>t DEF Unanswered, TypeOK
      <3>3. \A d \in Unanswered(s) : before'[d] \subseteq before[d]
        BY <1>p, <2>3
      <3> QED BY <2>3, <3>1, <3>2, <3>3, QueueKept DEF Q
    <2> QED BY <2>4, <2>5
  <1>13. ASSUME NEW r \in Devices, Bump(r)
         PROVE  Q(s)'
    <2>1. Unanswered(s)' = Unanswered(s)
      BY <1>13 DEF Bump, Unanswered
    <2>2. batch'[s] = batch[s] /\ inbox'[s] = inbox[s] /\ before' = before
      BY <1>13 DEF Bump, ghost
    <2>3. Hand(s)' = Hand(s)
      BY <1>13, <1>t DEF Bump, Run, Hand, TypeOK
    <2> QED BY <1>q, <2>1, <2>2, <2>3
  <1>14. ASSUME NEW r \in Devices, Notify(r)
         PROVE  Q(s)'
    <2>1. Unanswered(s)' = Unanswered(s)
      BY <1>14, <1>t DEF Notify, Unanswered, TypeOK
    <2>2. batch'[s] = batch[s] /\ inbox'[s] = inbox[s] /\ before' = before
      BY <1>14 DEF Notify, ghost
    <2>3. Hand(s)' = Hand(s)
      BY <1>14, <1>t DEF Notify, Run, Hand, TypeOK
    <2> QED BY <1>q, <2>1, <2>2, <2>3
  <1>15. ASSUME BeginClose
         PROVE  Q(s)'
    <2>1. /\ Unanswered(s)' = Unanswered(s) /\ Hand(s)' = Hand(s)
          /\ batch'[s] = batch[s] /\ inbox'[s] = inbox[s] /\ before' = before
      BY <1>15 DEF BeginClose, calls, reactors, ghost, Unanswered, Hand
    <2> QED BY <1>q, <2>1
  <1>16. ASSUME NEW r \in Devices, SubmitStop(r)
         PROVE  Q(s)'
    <2>1. Unanswered(s)' = Unanswered(s) /\ before' = before /\ batch' = batch
      BY <1>16 DEF SubmitStop, calls, ghost, Unanswered
    <2>2. Hand(s)' = Hand(s)
      BY <1>16, <1>t DEF SubmitStop, Awaken, Hand, TypeOK
    <2>3. inbox' = [inbox EXCEPT ![r] = <<Stop>> \o @]
      BY <1>16 DEF SubmitStop
    <2>4. CASE s = r
      <3>1. inbox'[s] = <<Stop>> \o inbox[s]
        BY <2>3, <2>4, <1>t DEF TypeOK
      <3>2. Queue(Hand(s), batch[s], <<Stop>> \o inbox[s], Unanswered(s), before)
        BY <1>p, QueueStopped DEF Q
      <3> QED BY <2>1, <2>2, <3>1, <3>2 DEF Q
    <2>5. CASE s # r
      <3>1. inbox'[s] = inbox[s]
        BY <2>3, <2>5, <1>t DEF TypeOK
      <3> QED BY <1>q, <2>1, <2>2, <3>1
    <2> QED BY <2>4, <2>5
  <1>17. ASSUME NEW r \in Devices, Join(r)
         PROVE  Q(s)'
    <2>1. /\ Unanswered(s)' = Unanswered(s) /\ Hand(s)' = Hand(s)
          /\ batch'[s] = batch[s] /\ inbox'[s] = inbox[s] /\ before' = before
      BY <1>17 DEF Join, calls, reactors, ghost, Unanswered, Hand
    <2> QED BY <1>q, <2>1
  <1>18. ASSUME UNCHANGED vars
         PROVE  Q(s)'
    <2>1. /\ Unanswered(s)' = Unanswered(s) /\ Hand(s)' = Hand(s)
          /\ batch'[s] = batch[s] /\ inbox'[s] = inbox[s] /\ before' = before
      BY <1>18 DEF vars, calls, reactors, ghost, Unanswered, Hand
    <2> QED BY <1>q, <2>1
  <1> QED
    BY <1>1, <1>2, <1>3, <1>4, <1>5, <1>6, <1>7, <1>8, <1>9, <1>10, <1>11, <1>12, <1>13, <1>14,
       <1>15, <1>16, <1>17, <1>18 DEF Next, SubmitStep, ReactorStep, StopStep, Idle

---------------------------------------------------------------------------
(* The sleepers.                                                           *)

\* Each step keeps a reactor that sleeps over a non-empty inbox about to be notified.
LEMMA NoSleepingReactorKept ==
    ASSUME Typed, NoSleepingReactor, [Next]_vars
    PROVE  NoSleepingReactor'
  <1>t. TypeOK /\ Settled
    BY DEF Typed
  <1> SUFFICES ASSUME NEW s \in Devices, run'[s] = "asleep", inbox'[s] # <<>>
               PROVE  \E c \in Callers : pc'[c] = "notify" /\ target'[c] = s
    BY DEF NoSleepingReactor
  <1>h. run[s] = "asleep" /\ inbox[s] # <<>> => \E c \in Callers : pc[c] = "notify" /\ target[c] = s
    BY DEF NoSleepingReactor
  <1>1. CASE \E c \in Callers : Call(c)
    BY <1>1, <1>h, <1>t DEF Call, Go, TypeOK, reactors
  <1>2. CASE \E c \in Callers : NewNode(c)
    BY <1>2, <1>h, <1>t DEF NewNode, Go, TypeOK, reactors
  <1>3. CASE \E c \in Callers : Push(c)
    <2>1. PICK c \in Callers : Push(c)
      BY <1>3
    <2>2. /\ pc[c] = "push" /\ pc' = [pc EXCEPT ![c] = "notify"] /\ UNCHANGED <<target, run>>
          /\ inbox' = [inbox EXCEPT ![target[c]] = <<c>> \o @]
      BY <2>1 DEF Push, Go, reactors
    <2>3. CASE s = target[c]
      BY <2>2, <2>3, <1>t DEF TypeOK
    <2>4. CASE s # target[c]
      <3>1. inbox'[s] = inbox[s]
        BY <2>2, <2>4, <1>t DEF TypeOK
      <3> QED BY <1>h, <2>2, <3>1, <1>t DEF TypeOK
    <2> QED BY <2>3, <2>4
  <1>4. CASE \E c \in Callers : NotifyInbox(c)
    <2>1. PICK c \in Callers : NotifyInbox(c)
      BY <1>4
    <2>2. /\ pc[c] = "notify" /\ pc' = [pc EXCEPT ![c] = "test"] /\ UNCHANGED <<target, inbox>>
          /\ run' = [run EXCEPT ![target[c]] = IF @ = "asleep" THEN "drain" ELSE @]
      BY <2>1 DEF NotifyInbox, Go, Awaken
    <2>3. s # target[c] /\ run[s] = "asleep"
      BY <2>2, <1>t DEF TypeOK
    <2> QED BY <1>h, <2>2, <2>3, <1>t DEF TypeOK
  <1>5. ASSUME NEW c \in Callers, Test(c)
        PROVE  \E d \in Callers : pc'[d] = "notify" /\ target'[d] = s
    <2>a. /\ pc[c] = "test" /\ UNCHANGED <<inbox, wake, rest, run, batch, op, stopping,
                                           opened, closing, joining, before, missed, ops>>
      BY <1>5, TestDoes, Zenon
    <2>b. PICK l \in {"wait", "out", "node"}, x \in {Pending, Ok},
               t \in Devices \cup {Nobody}, v \in Nat :
             /\ pc' = [pc EXCEPT ![c] = l] /\ result' = [result EXCEPT ![c] = x]
             /\ target' = [target EXCEPT ![c] = t] /\ seen' = [seen EXCEPT ![c] = v]
             /\ l = "wait" => x = Pending /\ result[c] = x /\ t = target[c] /\ v = seen[c]
             /\ l # "wait" => result[c] # Pending /\ v = 0
      BY <1>5, TestDoes, Zenon
    <2>1. PICK d \in Callers : pc[d] = "notify" /\ target[d] = s
      BY <1>h, <2>a
    <2> QED BY <2>a, <2>b, <2>1, <1>t DEF TypeOK
  <1>6. ASSUME NEW c \in Callers, Wait(c)
        PROVE  \E d \in Callers : pc'[d] = "notify" /\ target'[d] = s
    <2>a. /\ pc[c] = "wait"
          /\ UNCHANGED <<inbox, result, wake, target, rest, run, batch, op, stopping,
                         opened, closing, joining, before, missed, ops>>
      BY <1>6, WaitDoes, Zenon
    <2>b. PICK l \in {"asleep", "test"} :
             /\ pc' = [pc EXCEPT ![c] = l] /\ seen' = [seen EXCEPT ![c] = wake[c]]
             /\ l = "asleep" => seen[c] = wake[c]
      BY <1>6, WaitDoes, Zenon
    <2>1. PICK d \in Callers : pc[d] = "notify" /\ target[d] = s
      BY <1>h, <2>a
    <2> QED BY <2>a, <2>b, <2>1, <1>t DEF TypeOK
  <1>7. CASE \E r \in Devices : Drain(r)
    <2>1. PICK r \in Devices : Drain(r)
      BY <1>7
    <2>2. PICK l \in {"sleep", "take"} : run' = [run EXCEPT ![r] = l]
      BY <2>1 DEF Drain, Run
    <2>3. /\ inbox' = [inbox EXCEPT ![r] = <<>>] /\ UNCHANGED <<pc, target>>
      BY <2>1 DEF Drain, calls
    <2>4. s # r
      BY <2>2, <1>t DEF TypeOK
    <2> QED BY <1>h, <2>2, <2>3, <2>4, <1>t DEF TypeOK
  <1>8. CASE \E r \in Devices : Sleep(r)
    BY <1>8, <1>h, <1>t DEF Sleep, Run, TypeOK, calls
  <1>9. CASE \E r \in Devices : Take(r)
    BY <1>9, <1>h, <1>t DEF Take, Run, TypeOK, calls
  <1>10. CASE \E r \in Devices : TakeStop(r)
    BY <1>10, <1>h DEF TakeStop, calls
  <1>11. CASE \E r \in Devices : EndBatch(r)
    BY <1>11, <1>h, <1>t DEF EndBatch, Run, TypeOK, calls
  <1>12. CASE \E r \in Devices : Store(r)
    BY <1>12, <1>h, <1>t DEF Store, Run, TypeOK
  <1>13. CASE \E r \in Devices : Bump(r)
    BY <1>13, <1>h, <1>t DEF Bump, Run, TypeOK
  <1>14. CASE \E r \in Devices : Notify(r)
    BY <1>14, <1>h, <1>t DEF Notify, Run, TypeOK
  <1>15. CASE BeginClose
    BY <1>15, <1>h DEF BeginClose, calls, reactors
  <1>16. CASE \E r \in Devices : SubmitStop(r)
    <2>1. PICK r \in Devices : SubmitStop(r)
      BY <1>16
    <2>2. /\ inbox' = [inbox EXCEPT ![r] = <<Stop>> \o @] /\ UNCHANGED <<pc, target>>
          /\ run' = [run EXCEPT ![r] = IF @ = "asleep" THEN "drain" ELSE @]
      BY <2>1 DEF SubmitStop, Awaken, calls
    <2>3. s # r /\ run[s] = "asleep"
      BY <2>2, <1>t DEF TypeOK
    <2> QED BY <1>h, <2>2, <2>3, <1>t DEF TypeOK
  <1>17. CASE \E r \in Devices : Join(r)
    BY <1>17, <1>h DEF Join, calls, reactors
  <1>18. CASE UNCHANGED vars
    BY <1>18, <1>h DEF vars, calls, reactors
  <1> QED
    BY <1>1, <1>2, <1>3, <1>4, <1>5, <1>6, <1>7, <1>8, <1>9, <1>10, <1>11, <1>12, <1>13, <1>14,
       <1>15, <1>16, <1>17, <1>18 DEF Next, SubmitStep, ReactorStep, StopStep, Idle

\* Each step keeps a caller that is about to sleep over its result, or does, sure of a wake.
LEMMA RousedKept ==
    ASSUME Typed, Queued, Roused, [Next]_vars
    PROVE  Roused'
  <1>t. TypeOK /\ Settled
    BY DEF Typed
  <1> SUFFICES ASSUME NEW d \in Callers, result'[d] # Pending
               PROVE  /\ pc'[d] = "wait" => seen'[d] < wake'[d] \/ \E r \in Devices : Bumps(r, d)'
                      /\ pc'[d] = "asleep" => \E r \in Devices : Bumps(r, d)' \/ Wakes(r, d)'
    BY DEF Roused
  <1>h. result[d] # Pending =>
            /\ pc[d] = "wait" => seen[d] < wake[d] \/ \E r \in Devices : Bumps(r, d)
            /\ pc[d] = "asleep" => \E r \in Devices : Bumps(r, d) \/ Wakes(r, d)
    BY DEF Roused
  <1> DEFINE Safe == /\ pc'[d] = "wait" => seen'[d] < wake'[d] \/ \E r \in Devices : Bumps(r, d)'
                     /\ pc'[d] = "asleep" => \E r \in Devices : Bumps(r, d)' \/ Wakes(r, d)'
  <1>k. ASSUME result'[d] = result[d], pc'[d] = pc[d], seen'[d] = seen[d], wake'[d] = wake[d],
               \A r \in Devices : Bumps(r, d) => Bumps(r, d)',
               \A r \in Devices : Wakes(r, d) => Wakes(r, d)'
        PROVE  Safe
    BY <1>h, <1>k
  <1> HIDE DEF Safe
  <1>1. ASSUME NEW c \in Callers, Call(c)
        PROVE  Safe
    <2>1. /\ UNCHANGED <<result, target, seen, wake, run, op>>
          /\ pc' = [pc EXCEPT ![c] = "node"]
      BY <1>1 DEF Call, Go, reactors
    <2>2. CASE d = c
      BY <2>1, <2>2, <1>t DEF TypeOK, Safe
    <2>3. CASE d # c
      BY <1>k, <2>1, <2>3, <1>t DEF TypeOK, Bumps, Wakes
    <2> QED BY <2>2, <2>3
  <1>2. ASSUME NEW c \in Callers, NewNode(c)
        PROVE  Safe
    <2>1. PICK t \in Devices : target' = [target EXCEPT ![c] = t]
      BY <1>2, <1>t DEF NewNode, TypeOK
    <2>2. /\ UNCHANGED <<wake, run, op>> /\ pc' = [pc EXCEPT ![c] = "push"]
          /\ result' = [result EXCEPT ![c] = Pending]
          /\ seen' = [seen EXCEPT ![c] = wake[c]]
      BY <1>2 DEF NewNode, Go, reactors
    <2>3. d # c
      BY <2>2, <1>t DEF TypeOK
    <2> QED BY <1>k, <2>1, <2>2, <2>3, <1>t DEF TypeOK, Bumps, Wakes
  <1>3. ASSUME NEW c \in Callers, Push(c)
        PROVE  Safe
    <2>1. /\ UNCHANGED <<result, target, seen, wake, run, op>>
          /\ pc' = [pc EXCEPT ![c] = "notify"]
      BY <1>3 DEF Push, Go, reactors
    <2>2. CASE d = c
      BY <2>1, <2>2, <1>t DEF TypeOK, Safe
    <2>3. CASE d # c
      BY <1>k, <2>1, <2>3, <1>t DEF TypeOK, Bumps, Wakes
    <2> QED BY <2>2, <2>3
  <1>4. ASSUME NEW c \in Callers, NotifyInbox(c)
        PROVE  Safe
    <2>1. /\ UNCHANGED <<result, target, seen, wake, op>>
          /\ pc' = [pc EXCEPT ![c] = "test"]
          /\ \A r \in Devices : run[r] \in {"bump", "notify"} => run'[r] = run[r]
      BY <1>4, <1>t DEF NotifyInbox, Go, Awaken, TypeOK
    <2>2. CASE d = c
      BY <2>1, <2>2, <1>t DEF TypeOK, Safe
    <2>3. CASE d # c
      BY <1>k, <2>1, <2>3, <1>t DEF TypeOK, Bumps, Wakes
    <2> QED BY <2>2, <2>3
  <1>5. ASSUME NEW c \in Callers, Test(c)
        PROVE  Safe
    <2>a. /\ pc[c] = "test" /\ UNCHANGED <<inbox, wake, rest, run, batch, op, stopping,
                                           opened, closing, joining, before, missed, ops>>
      BY <1>5, TestDoes, Zenon
    <2>b. PICK l \in {"wait", "out", "node"}, x \in {Pending, Ok},
               t \in Devices \cup {Nobody}, v \in Nat :
             /\ pc' = [pc EXCEPT ![c] = l] /\ result' = [result EXCEPT ![c] = x]
             /\ target' = [target EXCEPT ![c] = t] /\ seen' = [seen EXCEPT ![c] = v]
             /\ l = "wait" => x = Pending /\ result[c] = x /\ t = target[c] /\ v = seen[c]
             /\ l # "wait" => result[c] # Pending /\ v = 0
      BY <1>5, TestDoes, Zenon
    <2>1. CASE d = c
      BY <2>a, <2>b, <2>1, <1>t DEF TypeOK, Safe
    <2>2. CASE d # c
      BY <1>k, <2>a, <2>b, <2>2, <1>t DEF TypeOK, Bumps, Wakes
    <2> QED BY <2>1, <2>2
  <1>6. ASSUME NEW c \in Callers, Wait(c)
        PROVE  Safe
    <2>a. /\ pc[c] = "wait"
          /\ UNCHANGED <<inbox, result, wake, target, rest, run, batch, op, stopping,
                         opened, closing, joining, before, missed, ops>>
      BY <1>6, WaitDoes, Zenon
    <2>b. PICK l \in {"asleep", "test"} :
             /\ pc' = [pc EXCEPT ![c] = l] /\ seen' = [seen EXCEPT ![c] = wake[c]]
             /\ l = "asleep" => seen[c] = wake[c]
      BY <1>6, WaitDoes, Zenon
    <2>1. CASE d = c /\ l = "test"
      BY <2>a, <2>b, <2>1, <1>t DEF TypeOK, Safe
    <2>2. CASE d = c /\ l = "asleep"
      <3>1. ~ (seen[d] < wake[d]) /\ pc'[d] = "asleep" /\ pc[d] = "wait" /\ result[d] # Pending
        BY <2>a, <2>b, <2>2, <1>t DEF TypeOK
      <3>2. PICK r \in Devices : Bumps(r, d)
        BY <1>h, <3>1
      <3>3. Bumps(r, d)'
        BY <2>a, <3>2 DEF Bumps
      <3> QED BY <3>1, <3>3 DEF Safe
    <2>3. CASE d # c
      BY <1>k, <2>a, <2>b, <2>3, <1>t DEF TypeOK, Bumps, Wakes
    <2> QED BY <2>1, <2>2, <2>3
  <1>7. ASSUME NEW r \in Devices, Drain(r)
        PROVE  Safe
    <2>1. PICK l \in {"sleep", "take"} : run' = [run EXCEPT ![r] = l]
      BY <1>7 DEF Drain, Run
    <2>2. UNCHANGED <<result, target, pc, seen, wake, op>> /\ run[r] = "drain"
      BY <1>7 DEF Drain, calls
    <2> QED BY <1>k, <2>1, <2>2, <1>t DEF TypeOK, Bumps, Wakes
  <1>8. ASSUME NEW r \in Devices, Sleep(r)
        PROVE  Safe
    <2>1. PICK l \in {"drain", "asleep"} : run' = [run EXCEPT ![r] = l]
      BY <1>8 DEF Sleep, Run
    <2>2. UNCHANGED <<result, target, pc, seen, wake, op>> /\ run[r] = "sleep"
      BY <1>8 DEF Sleep, calls
    <2> QED BY <1>k, <2>1, <2>2, <1>t DEF TypeOK, Bumps, Wakes
  <1>9. ASSUME NEW r \in Devices, Take(r)
        PROVE  Safe
    <2>1. /\ UNCHANGED <<result, target, pc, seen, wake>> /\ run[r] = "take"
          /\ run' = [run EXCEPT ![r] = "store"] /\ \A s \in Devices : s # r => op'[s] = op[s]
      BY <1>9, <1>t DEF Take, Run, calls, TypeOK
    <2> QED BY <1>k, <2>1, <1>t DEF TypeOK, Bumps, Wakes
  <1>10. ASSUME NEW r \in Devices, TakeStop(r)
         PROVE  Safe
    <2>1. UNCHANGED <<result, target, pc, seen, wake, run, op>>
      BY <1>10 DEF TakeStop, calls
    <2> QED BY <1>k, <2>1 DEF Bumps, Wakes
  <1>11. ASSUME NEW r \in Devices, EndBatch(r)
         PROVE  Safe
    <2>1. PICK l \in {"ended", "drain"} : run' = [run EXCEPT ![r] = l]
      BY <1>11 DEF EndBatch, Run
    <2>2. UNCHANGED <<result, target, pc, seen, wake, op>> /\ run[r] = "take"
      BY <1>11 DEF EndBatch, calls
    <2> QED BY <1>k, <2>1, <2>2, <1>t DEF TypeOK, Bumps, Wakes
  <1>12. ASSUME NEW r \in Devices, Store(r)
         PROVE  Safe
    <2>1. op[r] \in Callers /\ target[op[r]] = r
      BY <1>12, InHand DEF Store
    <2>2. /\ UNCHANGED <<target, pc, seen, wake, op>> /\ run[r] = "store"
          /\ run' = [run EXCEPT ![r] = "bump"]
          /\ \A c \in Callers : c # op[r] => result'[c] = result[c]
      BY <1>12, <1>t DEF Store, Run, TypeOK
    <2>3. CASE d = op[r]
      <3>1. Bumps(r, d)'
        BY <2>1, <2>2, <2>3, <1>t DEF Bumps, TypeOK
      <3> QED BY <3>1 DEF Safe
    <2>4. CASE d # op[r]
      BY <1>k, <2>2, <2>4, <1>t DEF TypeOK, Bumps, Wakes
    <2> QED BY <2>3, <2>4
  <1>13. ASSUME NEW r \in Devices, Bump(r)
         PROVE  Safe
    <2>0. op[r] \in Callers
      BY <1>13, <1>t DEF Bump, TypeOK
    <2>1. /\ UNCHANGED <<result, target, pc, seen, op>> /\ run[r] = "bump"
          /\ run' = [run EXCEPT ![r] = "notify"] /\ wake' = [wake EXCEPT ![op[r]] = @ + 1]
      BY <1>13 DEF Bump, Run
    <2>2. seen[d] \in Nat /\ wake[d] \in Nat /\ seen[d] <= wake[d]
      BY <1>t DEF TypeOK, Settled
    <2>3. CASE d = op[r]
      <3>1. seen'[d] < wake'[d]
        BY <2>0, <2>1, <2>2, <2>3, <1>t DEF TypeOK
      <3>2. ASSUME pc'[d] = "asleep"
            PROVE  \E s \in Devices : Bumps(s, d)' \/ Wakes(s, d)'
        <4>1. PICK s \in Devices : Bumps(s, d) \/ Wakes(s, d)
          BY <1>h, <2>1, <3>2
        <4>2. CASE s = r
          BY <2>1, <3>1, <4>1, <4>2, <1>t DEF TypeOK, Bumps, Wakes
        <4>3. CASE s # r
          BY <2>1, <3>1, <4>1, <4>3, <1>t DEF TypeOK, Bumps, Wakes
        <4> QED BY <4>2, <4>3
      <3> QED BY <3>1, <3>2 DEF Safe
    <2>4. CASE d # op[r]
      BY <1>k, <2>1, <2>4, <1>t DEF TypeOK, Bumps, Wakes
    <2> QED BY <2>3, <2>4
  <1>14. ASSUME NEW r \in Devices, Notify(r)
         PROVE  Safe
    <2>0. op[r] \in Callers
      BY <1>14, <1>t DEF Notify, TypeOK
    <2>1. /\ UNCHANGED <<result, target, seen, wake>> /\ run[r] = "notify"
          /\ run' = [run EXCEPT ![r] = "take"] /\ op' = [op EXCEPT ![r] = Nobody]
          /\ pc' = [pc EXCEPT ![op[r]] = IF @ = "asleep" THEN "wait" ELSE @]
      BY <1>14 DEF Notify, Run
    <2>2. \A s \in Devices : Bumps(s, d) => Bumps(s, d)'
      BY <2>1, <1>t DEF TypeOK, Bumps
    <2>3. CASE d = op[r]
      <3>1. pc'[d] # "asleep"
        BY <2>0, <2>1, <2>3, <1>t DEF TypeOK
      <3>2. pc'[d] = "wait" => pc[d] \in {"wait", "asleep"}
        BY <2>0, <2>1, <2>3, <1>t DEF TypeOK
      <3>3. ASSUME pc[d] \in {"wait", "asleep"}
            PROVE  seen[d] < wake[d] \/ \E s \in Devices : Bumps(s, d)
        BY <1>h, <2>1, <3>3 DEF Wakes
      <3>4. pc'[d] = "wait" => seen'[d] < wake'[d] \/ \E s \in Devices : Bumps(s, d)'
        BY <2>1, <2>2, <3>2, <3>3
      <3> QED BY <3>1, <3>4 DEF Safe
    <2>4. CASE d # op[r]
      <3>1. pc'[d] = pc[d]
        BY <2>1, <2>4, <1>t DEF TypeOK
      <3>2. \A s \in Devices : Wakes(s, d) => Wakes(s, d)'
        BY <2>1, <2>4, <1>t DEF TypeOK, Wakes
      <3> QED BY <1>k, <2>1, <2>2, <3>1, <3>2
    <2> QED BY <2>3, <2>4
  <1>15. ASSUME BeginClose
         PROVE  Safe
    <2>1. UNCHANGED <<result, target, pc, seen, wake, run, op>>
      BY <1>15 DEF BeginClose, calls, reactors
    <2> QED BY <1>k, <2>1 DEF Bumps, Wakes
  <1>16. ASSUME NEW r \in Devices, SubmitStop(r)
         PROVE  Safe
    <2>1. /\ UNCHANGED <<result, target, pc, seen, wake, op>>
          /\ \A s \in Devices : run[s] \in {"bump", "notify"} => run'[s] = run[s]
      BY <1>16, <1>t DEF SubmitStop, Awaken, calls, TypeOK
    <2> QED BY <1>k, <2>1 DEF Bumps, Wakes
  <1>17. ASSUME NEW r \in Devices, Join(r)
         PROVE  Safe
    <2>1. UNCHANGED <<result, target, pc, seen, wake, run, op>>
      BY <1>17 DEF Join, calls, reactors
    <2> QED BY <1>k, <2>1 DEF Bumps, Wakes
  <1>18. ASSUME UNCHANGED vars
         PROVE  Safe
    <2>1. UNCHANGED <<result, target, pc, seen, wake, run, op>>
      BY <1>18 DEF vars, calls, reactors
    <2> QED BY <1>k, <2>1 DEF Bumps, Wakes
  <1>19. Safe
    BY <1>1, <1>2, <1>3, <1>4, <1>5, <1>6, <1>7, <1>8, <1>9, <1>10, <1>11, <1>12, <1>13, <1>14,
       <1>15, <1>16, <1>17, <1>18 DEF Next, SubmitStep, ReactorStep, StopStep, Idle
  <1> QED BY <1>19 DEF Safe

---------------------------------------------------------------------------
(* The results.                                                            *)

\* The first state: everybody is out and nothing is queued.
LEMMA InitHolds ==
    ASSUME Init
    PROVE  IInv
  <1>1. TypeOK
    BY DEF Init, TypeOK, Labels, RunLabels, Pending, Ok, NotOpen
  <1>2. Settled
    BY DEF Init, Settled, Waiting
  <1>3. ASSUME NEW r \in Devices
        PROVE  Queue(Hand(r), batch[r], inbox[r], Unanswered(r), before)
    <2>1. Hand(r) = {} /\ batch[r] = <<>> /\ inbox[r] = <<>> /\ Unanswered(r) = {}
      BY DEF Init, Hand, Unanswered
    <2>2. Queue({}, <<>>, <<>>, {}, before)
      BY DEF Queue, Everyone, Once, InOrder
    <2> QED BY <2>1, <2>2
  <1>4. NoSleepingReactor /\ Roused
    BY DEF Init, NoSleepingReactor, Roused
  <1> QED BY <1>1, <1>2, <1>3, <1>4 DEF IInv, Typed, Queued

\* The invariant holds in every state.
LEMMA Invariant == Spec => []IInv
  <1>1. Init => IInv
    BY InitHolds
  <1>2. IInv /\ [Next]_vars => IInv'
    BY TypedKept, QueuedKept, NoSleepingReactorKept, RousedKept, Zenon DEF IInv
  <1> QED BY <1>1, <1>2, PTL DEF Spec

\* Where a node of three sequences in a row is.
LEMMA Located ==
    ASSUME NEW h \in Seq(Nodes), NEW b \in Seq(Nodes), NEW q \in Seq(Nodes),
           NEW i \in 1 .. Len(h \o b \o q)
    PROVE  \/ \E k \in 1 .. Len(h) : i = k /\ (h \o b \o q)[i] = h[k]
           \/ \E k \in 1 .. Len(b) : i = Len(h) + k /\ (h \o b \o q)[i] = b[k]
           \/ \E k \in 1 .. Len(q) : i = Len(h) + Len(b) + k /\ (h \o b \o q)[i] = q[k]
  <1>1. PICK p \in Seq(Nodes) : p = h \o b
    BY ConcatProperties
  <1>2. PICK z \in Seq(Nodes) : z = p \o q
    BY ConcatProperties
  <1>3. PICK m \in Nat, n \in Nat, o \in Nat : m = Len(h) /\ n = Len(b) /\ o = Len(q)
    BY LenProperties
  <1>4. /\ Len(p) = m + n
        /\ \A j \in 1 .. m + n : p[j] = IF j <= m THEN h[j] ELSE b[j - m]
    BY <1>1, <1>3, ConcatProperties
  <1>5. /\ Len(z) = m + n + o
        /\ \A j \in 1 .. m + n + o : z[j] = IF j <= m + n THEN p[j] ELSE q[j - (m + n)]
    <2>1. /\ Len(z) = Len(p) + Len(q)
          /\ \A j \in 1 .. Len(p) + Len(q) : z[j] = IF j <= Len(p) THEN p[j] ELSE q[j - Len(p)]
      BY <1>2, ConcatProperties
    <2> QED BY <1>3, <1>4, <2>1
  <1>6. i \in 1 .. m + n + o
    BY <1>1, <1>2, <1>5
  <1>8. z = h \o b \o q
    BY <1>1, <1>2
  <1>7. \/ \E k \in 1 .. m : i = k /\ z[i] = h[k]
        \/ \E k \in 1 .. n : i = m + k /\ z[i] = b[k]
        \/ \E k \in 1 .. o : i = m + n + k /\ z[i] = q[k]
    <2>1. CASE i <= m
      <3>1. i \in 1 .. m /\ i \in 1 .. m + n /\ i <= m + n
        BY <1>6, <2>1
      <3>2. z[i] = p[i]
        BY <1>5, <1>6, <3>1, Zenon
      <3>3. p[i] = h[i]
        BY <1>4, <2>1, <3>1, Zenon
      <3> QED BY <3>1, <3>2, <3>3
    <2>2. CASE m < i /\ i <= m + n
      <3>1. i - m \in 1 .. n /\ i = m + (i - m) /\ i \in 1 .. m + n /\ ~ (i <= m)
        BY <1>6, <2>2
      <3>2. z[i] = p[i]
        BY <1>5, <1>6, <2>2, Zenon
      <3>3. p[i] = b[i - m]
        BY <1>4, <3>1, Zenon
      <3> QED BY <3>1, <3>2, <3>3
    <2>3. CASE m + n < i
      <3>1. i - (m + n) \in 1 .. o /\ i = m + n + (i - (m + n)) /\ ~ (i <= m + n)
        BY <1>6, <2>3
      <3>2. z[i] = q[i - (m + n)]
        BY <1>5, <1>6, <3>1, Zenon
      <3> QED BY <3>1, <3>2
    <2> QED BY <1>6, <2>1, <2>2, <2>3
  <1> QED BY <1>3, <1>7, <1>8, Zenon

\* A node a reactor can reach belongs to a call that waits for it and is reached once.
LEMMA NodesAliveFollows ==
    ASSUME IInv
    PROVE  NodesAlive
  <1>1. Typed /\ Queued /\ TypeOK
    BY DEF IInv, Typed
  <1> SUFFICES ASSUME NEW r \in Devices, NEW c \in Callers
               PROVE  LET held == (IF run[r] = "store" THEN <<op[r]>> ELSE <<>>) \o batch[r] \o inbox[r]
                      IN  Occurrences(held, c) # {} =>
                              /\ result[c] = Pending /\ target[c] = r
                              /\ pc[c] \in {"notify", "test", "wait", "asleep"}
                              /\ \A i, j \in Occurrences(held, c) : i = j
    BY <1>1 DEF NodesAlive
  <1>2. PICK h \in Seq(Nodes) : h = IF run[r] = "store" THEN <<op[r]>> ELSE <<>>
    <2>1. run[r] = "store" => op[r] \in Nodes
      BY <1>1, InHand DEF Nodes
    <2>2. CASE run[r] = "store"
      <3>1. <<op[r]>> \in Seq(Nodes)
        BY <2>1, <2>2
      <3> QED BY <2>2, <3>1
    <2>3. CASE run[r] # "store"
      <3>1. <<>> \in Seq(Nodes)
        OBVIOUS
      <3> QED BY <2>3, <3>1
    <2> QED BY <2>2, <2>3
  <1>3. PICK b \in Seq(Nodes), q \in Seq(Nodes) : b = batch[r] /\ q = inbox[r]
    BY <1>1, Parts
  <1>4. /\ Len(h) \in Nat /\ Len(b) \in Nat /\ Len(q) \in Nat
        /\ \A k \in 1 .. Len(h) : k = 1 /\ h[k] \in Hand(r)
    BY <1>2, LenProperties DEF Hand
  <1>5. Everyone(Hand(r), b, q, Unanswered(r)) /\ Once(Hand(r), b, q)
    BY <1>1, <1>3, Parts DEF Queue
  <1>6. c # Stop
    OBVIOUS
  <1> DEFINE held == h \o b \o q
  <1>7. ASSUME NEW i \in Occurrences(held, c)
        PROVE  \/ \E k \in 1 .. Len(h) : i = k /\ c = h[k]
               \/ \E k \in 1 .. Len(b) : i = Len(h) + k /\ c = b[k]
               \/ \E k \in 1 .. Len(q) : i = Len(h) + Len(b) + k /\ c = q[k]
    <2>1. i \in 1 .. Len(held) /\ held[i] = c
      BY <1>7 DEF Occurrences
    <2>2. \/ \E k \in 1 .. Len(h) : i = k /\ held[i] = h[k]
          \/ \E k \in 1 .. Len(b) : i = Len(h) + k /\ held[i] = b[k]
          \/ \E k \in 1 .. Len(q) : i = Len(h) + Len(b) + k /\ held[i] = q[k]
      BY <2>1, Located
    <2> HIDE DEF held
    <2> QED BY <2>1, <2>2
  <1> HIDE DEF held
  <1>8. ASSUME NEW i \in Occurrences(held, c)
        PROVE  c \in Unanswered(r)
    <2>1. \/ c \in Hand(r)
          \/ \E k \in 1 .. Len(b) : b[k] = c
          \/ \E k \in 1 .. Len(q) : q[k] = c
      BY <1>4, <1>7, <1>8
    <2> QED BY <1>5, <2>1 DEF Everyone
  <1>9. ASSUME NEW i \in Occurrences(held, c), NEW j \in Occurrences(held, c)
        PROVE  i = j
    <2>1. \/ c \in Hand(r) /\ i = 1 /\ Len(h) # 0
          \/ \E k \in 1 .. Len(b) : i = Len(h) + k /\ c = b[k]
          \/ \E k \in 1 .. Len(q) : i = Len(h) + Len(b) + k /\ c = q[k]
      BY <1>4, <1>7, <1>9
    <2>2. \/ c \in Hand(r) /\ j = 1 /\ Len(h) # 0
          \/ \E k \in 1 .. Len(b) : j = Len(h) + k /\ c = b[k]
          \/ \E k \in 1 .. Len(q) : j = Len(h) + Len(b) + k /\ c = q[k]
      BY <1>4, <1>7, <1>9
    <2>3. CASE c \in Hand(r)
      BY <1>5, <2>1, <2>2, <2>3 DEF Once
    <2>4. CASE \E k \in 1 .. Len(b) : i = Len(h) + k /\ c = b[k]
      BY <1>5, <1>6, <2>2, <2>4 DEF Once
    <2>5. CASE \E k \in 1 .. Len(q) : i = Len(h) + Len(b) + k /\ c = q[k]
      BY <1>5, <1>6, <2>2, <2>5 DEF Once
    <2> QED BY <2>1, <2>3, <2>4, <2>5
  <1>10. Occurrences(held, c) # {} =>
             /\ result[c] = Pending /\ target[c] = r
             /\ pc[c] \in {"notify", "test", "wait", "asleep"}
             /\ \A i, j \in Occurrences(held, c) : i = j
    BY <1>8, <1>9 DEF Unanswered
  <1>11. held = (IF run[r] = "store" THEN <<op[r]>> ELSE <<>>) \o batch[r] \o inbox[r]
    BY <1>2, <1>3, Zenon DEF held
  <1> QED BY <1>10, <1>11, Zenon

\* NodesAlive for any number of callers, devices and operations: Finalize and Run touch only
\* the nodes of calls in progress, and none twice.
THEOREM NodesAliveHolds == Spec => []NodesAlive
  BY Invariant, NodesAliveFollows, PTL

\* InArrivalOrder for any number of callers, devices and operations: DrainAll and the shutdown
\* serve operations in the order of their Submit.
THEOREM InArrivalOrderHolds == Spec => []InArrivalOrder
  <1>1. ASSUME IInv
        PROVE  InArrivalOrder
    <2> SUFFICES ASSUME NEW r \in Devices, run[r] = "store"
                 PROVE  before[op[r]] = {}
      BY DEF InArrivalOrder
    <2>1. Typed /\ Queued
      BY <1>1 DEF IInv
    <2>2. op[r] \in Hand(r) /\ InOrder(Hand(r), batch[r], inbox[r], before)
      BY <2>1, InHand, Parts DEF Queue
    <2> QED BY <2>2 DEF InOrder
  <1> QED BY <1>1, Invariant, PTL

\* NoSleepingReactor for any number of callers, devices and operations: no Submit and no Stop
\* is lost on a reactor that goes to sleep.
THEOREM NoSleepingReactorHolds == Spec => []NoSleepingReactor
  <1>1. IInv => NoSleepingReactor
    BY DEF IInv
  <1> QED BY <1>1, Invariant, PTL

\* NoSleepingCaller for any number of callers, devices and operations: no wake-up is lost
\* between Finalize and a caller that goes to sleep.
THEOREM NoSleepingCallerHolds == Spec => []NoSleepingCaller
  <1>1. ASSUME IInv
        PROVE  NoSleepingCaller
    BY <1>1 DEF IInv, Roused, Bumps, Wakes, NoSleepingCaller
  <1> QED BY <1>1, Invariant, PTL

==============================================================================
