----------------------------- MODULE IoUringProofs -----------------------------
(***************************************************************************)
(* Proofs about IoUring, for any number of blocks, slots, queue entries    *)
(* and failing system calls.                                               *)
(***************************************************************************)
EXTENDS IoUring, SequenceTheorems, TLAPS

USE SizesAssumption, BoundAssumption

---------------------------------------------------------------------------
(* The inductive invariant.                                                *)

\* Every entry of the three queues belongs to a call that has returned, but for the one
\* of a call between its preparation and its completion.
Accounted ==
    Len(sq) + Len(inflight) + Len(cq) = IF pc \in {"submit", "wait"} THEN lag + 1 ELSE lag

\* Entries that name no registered buffer in which the data is not.
Fit == {e \in Entry : ~ e.misfit}

\* The entries that stem from the call in progress, and the ones of them that fall short
\* only for a fault of this call.
Own     == {e \in Fit : e.mine /\ e.block = call.block}
OwnDone == {e \in Own : ~ e.full => fault}

\* A ring with no entries left behind shows a call nothing but its own entry.
OnlyOwn ==
    pc \in {"submit", "wait"} /\ lag = 0 =>
        sq \in Seq(Own) /\ inflight \in Seq(Own) /\ cq \in Seq(OwnDone)

\* What is synced has been carried out.
SyncOfFull ==
    pc = "sync" => took.full /\ (took.mine \/ (lag > 0 /\ took.block = call.block))

\* A call that fails has a fault of its own to show for it, or entries left before it.
FailuresExplained == pc = "idle" /\ result = "error" => fault \/ lag > 0

Queues == sq \in Seq(Fit) /\ inflight \in Seq(Fit) /\ cq \in Seq(Fit) /\ OnlyOwn

Outcomes == SyncOfFull /\ SuccessIsOwn /\ FailuresExplained

IInv == TypeOK /\ Accounted /\ Queues /\ Outcomes

---------------------------------------------------------------------------
(* The queues.                                                             *)

\* Taking an entry out of a queue leaves the others, in a queue one shorter (the kernel
\* completes what is in flight in any order).
LEMMA RemoveAtFact ==
    ASSUME NEW S, NEW s \in Seq(S), NEW i \in 1 .. Len(s)
    PROVE  RemoveAt(s, i) \in Seq(S) /\ Len(RemoveAt(s, i)) = Len(s) - 1
  <1> DEFINE a == SubSeq(s, 1, i - 1)
             b == SubSeq(s, i + 1, Len(s))
  <1>1. a \in Seq(S) /\ Len(a) = i - 1
    <2>1. \A j \in 1 .. i - 1 : s[j] \in S
      OBVIOUS
    <2> HIDE DEF a
    <2>2. a \in Seq(S) /\ Len(a) = IF 1 <= i - 1 THEN i - 1 - 1 + 1 ELSE 0
      BY <2>1, SubSeqProperties DEF a
    <2> QED BY <2>2
  <1>2. b \in Seq(S) /\ Len(b) = Len(s) - i
    <2>1. \A j \in i + 1 .. Len(s) : s[j] \in S
      OBVIOUS
    <2> HIDE DEF b
    <2>2. /\ b \in Seq(S)
          /\ Len(b) = IF i + 1 <= Len(s) THEN Len(s) - (i + 1) + 1 ELSE 0
      BY <2>1, SubSeqProperties DEF b
    <2> QED BY <2>2
  <1>3. RemoveAt(s, i) = a \o b
    BY DEF RemoveAt
  <1> HIDE DEF a, b
  <1>4. a \o b \in Seq(S) /\ Len(a \o b) = Len(a) + Len(b)
    BY <1>1, <1>2, ConcatProperties
  <1> QED BY <1>1, <1>2, <1>3, <1>4

\* Disowning the entries of earlier calls keeps their number and what they are.
LEMMA DisownedFact ==
    ASSUME NEW s, NEW S \in {Entry, Fit}, s \in Seq(S)
    PROVE  Disowned(s) \in Seq(S) /\ Len(Disowned(s)) = Len(s)
  <1> DEFINE d(i) == [s[i] EXCEPT !.mine = FALSE]
  <1>1. \A i \in 1 .. Len(s) : s[i] \in S
    OBVIOUS
  <1>2. ASSUME NEW e \in Entry
        PROVE  /\ [e EXCEPT !.mine = FALSE] \in Entry
               /\ [e EXCEPT !.mine = FALSE].misfit = e.misfit
    BY <1>2 DEF Entry
  <1>3. ASSUME NEW e \in S PROVE [e EXCEPT !.mine = FALSE] \in S
    <2>1. CASE S = Entry
      BY <1>2, <2>1, Zenon
    <2>2. CASE S = Fit
      BY <1>2, <2>2, Zenon DEF Fit
    <2> QED BY <2>1, <2>2
  <1>4. \A i \in 1 .. Len(s) : d(i) \in S
    BY <1>1, <1>3, Zenon
  <1>5. Disowned(s) = [i \in 1 .. Len(s) |-> d(i)]
    BY DEF Disowned
  <1> HIDE DEF d
  <1> QED BY <1>4, <1>5

\* Handing entries over to the kernel neither loses nor changes one.
LEMMA HandOverFact ==
    ASSUME NEW S, sq \in Seq(S), inflight \in Seq(S), NEW n \in 0 .. Len(sq), HandOver(n)
    PROVE  /\ sq' \in Seq(S) /\ inflight' \in Seq(S)
           /\ Len(sq') + Len(inflight') = Len(sq) + Len(inflight)
  <1> DEFINE a == SubSeq(sq, 1, n)
             b == SubSeq(sq, n + 1, Len(sq))
  <1>1. a \in Seq(S) /\ Len(a) = n
    <2>1. \A j \in 1 .. n : sq[j] \in S
      OBVIOUS
    <2> HIDE DEF a
    <2>2. a \in Seq(S) /\ Len(a) = IF 1 <= n THEN n - 1 + 1 ELSE 0
      BY <2>1, SubSeqProperties DEF a
    <2> QED BY <2>2
  <1>2. b \in Seq(S) /\ Len(b) = Len(sq) - n
    <2>1. \A j \in n + 1 .. Len(sq) : sq[j] \in S
      OBVIOUS
    <2> HIDE DEF b
    <2>2. /\ b \in Seq(S)
          /\ Len(b) = IF n + 1 <= Len(sq) THEN Len(sq) - (n + 1) + 1 ELSE 0
      BY <2>1, SubSeqProperties DEF b
    <2> QED BY <2>2
  <1>3. inflight' = inflight \o a /\ sq' = b
    BY DEF HandOver
  <1> HIDE DEF a, b
  <1>4. inflight \o a \in Seq(S) /\ Len(inflight \o a) = Len(inflight) + Len(a)
    BY <1>1, ConcatProperties
  <1>5. Len(sq) \in Nat /\ Len(inflight) \in Nat
    BY LenProperties
  <1>6. Len(sq') = Len(sq) - n /\ Len(inflight') = Len(inflight) + n
    BY <1>1, <1>2, <1>3, <1>4
  <1>7. Len(sq') + Len(inflight') = Len(sq) + Len(inflight)
    BY <1>5, <1>6
  <1> QED BY <1>1, <1>2, <1>3, <1>4, <1>7

---------------------------------------------------------------------------
(* Types and the number of entries.                                        *)

Calls == [block : 0 .. BlockCount - 1, fua : BOOLEAN]

\* The type invariant in two parts: the truth values, with the call's own records, and the
\* rest.
Flags ==
    /\ ring \in BOOLEAN /\ registered \in BOOLEAN /\ synced \in BOOLEAN /\ fault \in BOOLEAN
    /\ call \in Calls /\ took \in Entry
Rest ==
    /\ sq \in Seq(Entry) /\ inflight \in Seq(Entry) /\ cq \in Seq(Entry)
    /\ Len(sq) <= QueueDepth
    /\ pc \in {"idle", "submit", "wait", "sync"} /\ result \in {"none", "ok", "error"}
    /\ lag \in Nat /\ faults \in 0 .. MaxFaults

\* The two parts make up the type invariant.
LEMMA TypeParts == TypeOK <=> Flags /\ Rest
  BY Zenon DEF TypeOK, Flags, Rest, Calls

\* The records of a call that has not started are well typed.
LEMMA NothingType == NoEntry \in Entry /\ NoCall \in Calls
  BY DEF NoEntry, NoCall, Entry, Calls

\* Open starts from a well-typed ring.
LEMMA TypeInit == Init => TypeOK /\ Accounted
  <1> SUFFICES ASSUME Init PROVE TypeOK /\ Accounted
    OBVIOUS
  <1>1. Flags
    BY NothingType, Zenon DEF Init, Flags
  <1>2. Rest /\ Accounted
    BY DEF Init, Rest, Accounted
  <1> QED BY <1>1, <1>2, TypeParts

\* What Fail leaves of a call is well typed.
LEMMA FailType ==
    ASSUME NEW bad \in BOOLEAN, Fail(bad)
    PROVE  /\ pc' = "idle" /\ result' = "error" /\ fault' = bad /\ fault' \in BOOLEAN
           /\ call' \in Calls /\ took' \in Entry /\ synced' \in BOOLEAN
  BY NothingType, Zenon DEF Fail

\* The kernel's step, on the queues: one entry moves from the transfers in flight to the
\* completions, changed in no more than full.
LEMMA CompleteFact ==
    ASSUME TypeOK, NEW i \in 1 .. Len(inflight), Complete(i)
    PROVE  /\ inflight' \in Seq(Entry) /\ cq' \in Seq(Entry)
           /\ Len(inflight') = Len(inflight) - 1 /\ Len(cq') = Len(cq) + 1
           /\ \E full \in BOOLEAN :
                /\ cq' = Append(cq, [inflight[i] EXCEPT !.full = full])
                /\ IF full \/ inflight[i].misfit
                   THEN Sound /\ UNCHANGED fault
                   ELSE Faulty /\ fault' = (fault \/ inflight[i].mine)
           /\ fault' \in BOOLEAN /\ faults' \in 0 .. MaxFaults
  <1>1. inflight \in Seq(Entry) /\ inflight[i] \in Entry /\ cq \in Seq(Entry)
    BY DEF TypeOK
  <1>2. inflight[i].misfit \in BOOLEAN /\ inflight[i].mine \in BOOLEAN /\ fault \in BOOLEAN
    BY <1>1 DEF Entry, TypeOK
  <1>3. PICK full \in BOOLEAN :
          /\ cq' = Append(cq, [inflight[i] EXCEPT !.full = full])
          /\ IF full \/ inflight[i].misfit
             THEN Sound /\ UNCHANGED fault
             ELSE Faulty /\ fault' = (fault \/ inflight[i].mine)
    BY <1>2, Zenon DEF Complete
  <1>4. [inflight[i] EXCEPT !.full = full] \in Entry
    BY <1>1 DEF Entry
  <1>5. cq' \in Seq(Entry) /\ Len(cq') = Len(cq) + 1
    BY <1>1, <1>3, <1>4, AppendProperties
  <1>6. inflight' = RemoveAt(inflight, i)
    BY DEF Complete
  <1>7. inflight' \in Seq(Entry) /\ Len(inflight') = Len(inflight) - 1
    BY <1>1, <1>6, RemoveAtFact, Zenon
  <1>8. fault' \in BOOLEAN
    BY <1>2, <1>3, Zenon
  <1>9. faults' \in 0 .. MaxFaults
    BY <1>3 DEF Sound, Faulty, TypeOK
  <1> QED BY <1>3, <1>5, <1>7, <1>8, <1>9, Zenon

\* Every operation and every step of the kernel keeps the types, and the number of
\* entries that calls have left behind.
LEMMA TypeStep == TypeOK /\ Accounted /\ [Next]_vars => TypeOK' /\ Accounted'
  <1> SUFFICES ASSUME Flags, Rest, Accounted, [Next]_vars PROVE Flags' /\ Rest' /\ Accounted'
    BY Zenon DEF TypeOK, Flags, Rest, Calls
  <1>0. TypeOK
    BY TypeParts
  <1>1. CASE Open
    <2>1. Flags'
      BY <1>1, Zenon DEF Flags, Open, thread
    <2> QED BY <1>1, <2>1 DEF Rest, Accounted, Open, Sound, Faulty, queue, thread
  <1>2. CASE RegisterWriteBuffers
    <2>1. Flags'
      BY <1>2, Zenon DEF Flags, RegisterWriteBuffers, thread
    <2> QED BY <1>2, <2>1 DEF Rest, Accounted, RegisterWriteBuffers, Sound, Faulty, queue, thread
  <1>3. CASE Close
    <2>1. Flags'
      BY <1>3, NothingType, Zenon DEF Flags, Close
    <2> QED BY <1>3, <2>1 DEF Rest, Accounted, Close
  <1>4. ASSUME NEW b \in 0 .. BlockCount, NEW misfit \in BOOLEAN, NEW fua \in BOOLEAN,
               Prepare(b, misfit, fua)
        PROVE  Flags' /\ Rest' /\ Accounted'
    <2> DEFINE entry == [block |-> b, mine |-> TRUE, misfit |-> misfit, full |-> FALSE]
    <2>0. pc = "idle" /\ UNCHANGED <<ring, registered, lag, faults>>
      BY <1>4 DEF Prepare
    <2>1. /\ inflight' \in Seq(Entry) /\ Len(inflight') = Len(inflight)
          /\ cq' \in Seq(Entry) /\ Len(cq') = Len(cq)
          /\ Disowned(sq) \in Seq(Entry) /\ Len(Disowned(sq)) = Len(sq)
      BY <1>4, DisownedFact DEF Prepare, Rest
    <2>2. CASE b >= BlockCount \/ Len(sq) = QueueDepth
      <3>1. Fail(b >= BlockCount) /\ sq' = Disowned(sq)
        BY <1>4, <2>2, Zenon DEF Prepare
      <3>2. (b >= BlockCount) \in BOOLEAN
        OBVIOUS
      <3>3. /\ pc' = "idle" /\ result' = "error" /\ fault' \in BOOLEAN
            /\ call' \in Calls /\ took' \in Entry /\ synced' \in BOOLEAN
        BY <3>1, <3>2, FailType, Zenon
      <3>4. Flags'
        BY <2>0, <3>3, Zenon DEF Flags
      <3>5. sq' = Disowned(sq)
        BY <3>1, Zenon
      <3>6. pc' = "idle" /\ result' = "error"
        BY <3>3
      <3> QED BY <2>0, <2>1, <3>4, <3>5, <3>6 DEF Rest, Accounted
    <2>3. CASE ~ (b >= BlockCount \/ Len(sq) = QueueDepth)
      <3>1. entry \in Entry /\ [block |-> b, fua |-> fua] \in Calls
        BY <2>3 DEF Entry, Calls
      <3>2. /\ pc' = "submit" /\ result' = "none" /\ call' = [block |-> b, fua |-> fua]
            /\ sq' = Append(Disowned(sq), entry)
            /\ took' = NoEntry /\ synced' = FALSE /\ fault' = FALSE
        BY <1>4, <2>3, Zenon DEF Prepare
      <3>3. sq' \in Seq(Entry) /\ Len(sq') = Len(sq) + 1
        BY <2>1, <3>1, <3>2, AppendProperties
      <3>4. Flags'
        BY <2>0, <3>1, <3>2, NothingType, Zenon DEF Flags
      <3>5. pc' = "submit" /\ result' = "none"
        BY <3>2
      <3> QED BY <2>0, <2>1, <2>3, <3>3, <3>4, <3>5 DEF Rest, Accounted
    <2> QED BY <2>2, <2>3, Zenon
  <1>5. CASE Submit
    <2>0. pc = "submit" /\ UNCHANGED <<ring, registered, cq>>
      BY <1>5 DEF Submit
    <2>1. PICK n \in 0 .. Len(sq) :
             /\ HandOver(n)
             /\ IF n = 1
                THEN pc' = "wait" /\ UNCHANGED <<call, result, took, synced, fault, lag>>
                ELSE FailBehind(fault \/ n < Len(sq))
      BY <1>5, Zenon DEF Submit
    <2>2. /\ sq' \in Seq(Entry) /\ inflight' \in Seq(Entry)
          /\ Len(sq') + Len(inflight') = Len(sq) + Len(inflight)
      BY <2>1, HandOverFact DEF Rest
    <2>3. /\ Len(sq') <= QueueDepth
          /\ Len(sq') + Len(inflight') + Len(cq') = Len(sq) + Len(inflight) + Len(cq)
      <3>1. SubSeq(sq, 1, n) \in Seq(Entry)
        BY <2>1, SubSeqProperties DEF Rest
      <3>2. inflight' = inflight \o SubSeq(sq, 1, n)
        BY <2>1 DEF HandOver
      <3>3. Len(inflight') >= Len(inflight)
        BY <3>1, <3>2, ConcatProperties, LenProperties DEF Rest
      <3>4. /\ Len(sq) \in Nat /\ Len(inflight) \in Nat /\ Len(cq) \in Nat /\ Len(cq') = Len(cq)
            /\ Len(sq') \in Nat /\ Len(inflight') \in Nat /\ QueueDepth \in Nat
            /\ Len(sq) <= QueueDepth
        BY <2>0, <2>2, LenProperties DEF Rest
      <3>5. Len(sq') <= Len(sq)
        BY <2>2, <3>3, <3>4
      <3>6. Len(sq') <= QueueDepth
        BY <3>4, <3>5
      <3>7. Len(sq') + Len(inflight') + Len(cq') = Len(sq) + Len(inflight) + Len(cq)
        <4> DEFINE a == Len(sq)
                   b == Len(inflight)
                   x == Len(sq')
                   y == Len(inflight')
        <4>1. a \in Nat /\ b \in Nat /\ x \in Nat /\ y \in Nat /\ x + y = a + b
          BY <2>2, <3>4
        <4>2. Len(cq) \in Nat /\ Len(cq') = Len(cq)
          BY <3>4
        <4> HIDE DEF a, b, x, y
        <4>3. x + y + Len(cq') = a + b + Len(cq)
          BY <4>1, <4>2
        <4> QED BY <4>3 DEF a, b, x, y
      <3> QED BY <3>6, <3>7
    <2>4. faults' \in 0 .. MaxFaults
      BY <2>1 DEF HandOver, Sound, Faulty, Rest
    <2>5. CASE FailBehind(fault \/ n < Len(sq))
      <3>1. Flags' /\ pc' = "idle" /\ result' = "error" /\ lag' = lag + 1
        BY <2>0, <2>5, FailType, Zenon DEF FailBehind, Flags
      <3> QED BY <2>0, <2>2, <2>3, <2>4, <3>1 DEF Rest, Accounted
    <2>6. CASE pc' = "wait" /\ UNCHANGED <<call, result, took, synced, fault, lag>>
      <3>1. Flags'
        BY <2>0, <2>6, Zenon DEF Flags
      <3>2. pc' = "wait" /\ lag' = lag /\ result' = result
        BY <2>6
      <3>3. Rest'
        BY <2>0, <2>2, <2>3, <2>4, <3>2 DEF Rest
      <3>4. Accounted'
        BY <2>0, <2>3, <3>2 DEF Accounted
      <3> QED BY <3>1, <3>3, <3>4
    <2> QED BY <2>1, <2>5, <2>6
  <1>6. CASE Interrupt
    <2>1. Flags'
      BY <1>6, Zenon DEF Flags, Interrupt, thread
    <2> QED BY <1>6, <2>1 DEF Rest, Accounted, Interrupt, Faulty, queue, thread
  <1>7. CASE Wait
    <2>0. pc = "wait" /\ cq # <<>> /\ cq' = Tail(cq)
          /\ UNCHANGED <<ring, registered, sq, inflight, lag, faults>>
      BY <1>7 DEF Wait
    <2>1. /\ cq' \in Seq(Entry) /\ Len(cq') = Len(cq) - 1 /\ Head(cq) \in Entry
      BY <2>0, HeadTailProperties DEF Rest
    <2>2. CASE Accept(Head(cq))
      <3>1. Flags'
        BY <2>0, <2>1, <2>2, Zenon DEF Accept, Flags
      <3>2. \/ pc' = "sync" /\ result' = result
            \/ pc' = "idle" /\ result' = "ok"
        BY <2>2, Zenon DEF Accept, Succeed
      <3> QED BY <2>0, <2>1, <3>1, <3>2 DEF Rest, Accounted
    <2>3. CASE Fail(fault)
      <3>1. Flags' /\ pc' = "idle" /\ result' = "error"
        BY <2>0, <2>3, FailType, Zenon DEF Flags
      <3> QED BY <2>0, <2>1, <3>1 DEF Rest, Accounted
    <2> QED BY <1>7, <2>2, <2>3, Zenon DEF Wait
  <1>8. CASE WaitFails
    <2>1. Flags' /\ pc' = "idle" /\ result' = "error" /\ lag' = lag + 1
      BY <1>8, FailType, Zenon DEF WaitFails, FailBehind, Flags
    <2> QED BY <1>8, <2>1 DEF WaitFails, Faulty, queue, Rest, Accounted
  <1>9. CASE Sync
    <2>1. CASE Sound /\ Succeed /\ synced' = TRUE /\ UNCHANGED <<call, took, fault>>
      <3>1. Flags'
        BY <1>9, <2>1, Zenon DEF Sync, Flags
      <3>2. pc' = "idle" /\ result' = "ok" /\ faults' = faults
        BY <2>1, Zenon DEF Succeed, Sound
      <3> QED BY <1>9, <3>1, <3>2 DEF Sync, queue, Rest, Accounted
    <2>2. CASE Faulty /\ Fail(TRUE)
      <3>1. Flags' /\ pc' = "idle" /\ result' = "error"
        BY <1>9, <2>2, FailType, Zenon DEF Sync, Flags
      <3> QED BY <1>9, <2>2, <3>1 DEF Sync, Faulty, queue, Rest, Accounted
    <2> QED BY <1>9, <2>1, <2>2, Zenon DEF Sync
  <1>10. ASSUME NEW i \in 1 .. Len(inflight), Complete(i)
         PROVE  Flags' /\ Rest' /\ Accounted'
    <2>1. UNCHANGED <<ring, registered, sq, pc, call, result, took, synced, lag>>
      BY <1>10 DEF Complete
    <2>2. /\ inflight' \in Seq(Entry) /\ cq' \in Seq(Entry)
          /\ Len(inflight') = Len(inflight) - 1 /\ Len(cq') = Len(cq) + 1
          /\ fault' \in BOOLEAN /\ faults' \in 0 .. MaxFaults
      BY <1>0, <1>10, CompleteFact, Zenon
    <2>3. Flags'
      BY <2>1, <2>2, Zenon DEF Flags
    <2>4. /\ inflight' \in Seq(Entry) /\ cq' \in Seq(Entry)
          /\ Len(inflight') = Len(inflight) - 1 /\ Len(cq') = Len(cq) + 1
          /\ faults' \in 0 .. MaxFaults
      BY <2>2, Zenon
    <2>5. Len(sq) \in Nat /\ Len(inflight) \in Nat /\ Len(cq) \in Nat
      BY DEF Rest
    <2>6. Accounted'
      BY <2>1, <2>4, <2>5 DEF Accounted
    <2>7. Rest'
      BY <2>1, <2>4 DEF Rest
    <2> QED BY <2>3, <2>6, <2>7
  <1>11. CASE UNCHANGED vars
    <2>1. Flags'
      BY <1>11, Zenon DEF Flags, vars, thread
    <2> QED BY <1>11, <2>1 DEF vars, queue, thread, Rest, Accounted
  <1>12. ASSUME NEW b \in 0 .. BlockCount, NEW buf \in Buffers, NEW fua \in BOOLEAN,
                Write(b, buf, fua)
         PROVE  Flags' /\ Rest' /\ Accounted'
    <2>1. (UseFixedWriteBuffer(buf) /\ ~ buf.own) \in BOOLEAN
      OBVIOUS
    <2> QED BY <1>4, <1>12, <2>1, Zenon DEF Write
  <1>13. ASSUME NEW b \in 0 .. BlockCount, Read(b) PROVE Flags' /\ Rest' /\ Accounted'
    BY <1>4, <1>13, Zenon DEF Read
  <1> QED
    BY <1>1, <1>2, <1>3, <1>5, <1>6, <1>7, <1>8, <1>9, <1>10, <1>11, <1>12, <1>13, Zenon
    DEF Next, Caller, Kernel

---------------------------------------------------------------------------
(* Whose entries the queues hold.                                          *)

\* A ring opens empty.
LEMMA QueuesInit == Init => Queues /\ Outcomes
  <1> SUFFICES ASSUME Init PROVE Queues /\ Outcomes
    OBVIOUS
  <1>1. pc = "idle" /\ result = "none" /\ sq = <<>> /\ inflight = <<>> /\ cq = <<>>
    BY DEF Init
  <1>2. sq \in Seq(Fit) /\ inflight \in Seq(Fit) /\ cq \in Seq(Fit)
    BY <1>1, EmptySeq
  <1> QED BY <1>1, <1>2 DEF Queues, OnlyOwn, Outcomes, SyncOfFull, SuccessIsOwn, FailuresExplained

\* UseFixedWriteBuffer tells a buffer of the device's own pool from any other, and Read
\* uses none: no entry that Write and Read prepare is a misfit.
LEMMA PreparedFits ==
    ASSUME NEW b, NEW buf, NEW fua, Write(b, buf, fua) \/ Read(b)
    PROVE  \E f : Prepare(b, FALSE, f)
  <1>1. CASE Write(b, buf, fua)
    <2>1. (UseFixedWriteBuffer(buf) /\ ~ buf.own) = FALSE
      BY DEF UseFixedWriteBuffer
    <2> QED BY <1>1, <2>1, Zenon DEF Write
  <1>2. CASE Read(b)
    BY <1>2, Zenon DEF Read
  <1> QED BY <1>1, <1>2

\* Every step keeps the entries of a call apart from what earlier calls have left.
LEMMA QueuesStep ==
    TypeOK /\ Accounted /\ Queues /\ [Next]_vars => Queues'
  <1> SUFFICES ASSUME TypeOK, Accounted, Queues, [Next]_vars PROVE Queues'
    OBVIOUS
  <1> DEFINE Kept == sq' \in Seq(Fit) /\ inflight' \in Seq(Fit) /\ cq' \in Seq(Fit)
  <1>a. sq \in Seq(Fit) /\ inflight \in Seq(Fit) /\ cq \in Seq(Fit)
    BY DEF Queues
  <1>b. Fit' = Fit
    BY DEF Fit, Entry
  <1>c. ASSUME UNCHANGED queue PROVE Kept
    BY <1>a, <1>c, Zenon DEF queue
  <1>d. ASSUME Kept, pc' \notin {"submit", "wait"} PROVE Queues'
    BY <1>b, <1>d, Zenon DEF Queues, OnlyOwn
  <1>1. CASE UNCHANGED <<queue, thread, lag>>
    <2>1. OnlyOwn'
      <3>1. Own' = Own /\ OwnDone' = OwnDone
        BY <1>1, <1>b, Zenon DEF Own, OwnDone, thread
      <3> QED BY <1>1, <3>1, Zenon DEF Queues, OnlyOwn, queue, thread
    <2> QED BY <1>1, <1>b, <1>c, <2>1, Zenon DEF Queues
  <1>2. CASE Open \/ RegisterWriteBuffers \/ Interrupt
    BY <1>1, <1>2, Zenon DEF Open, RegisterWriteBuffers, Interrupt
  <1>3. CASE Close
    <2>1. Kept /\ pc' = "idle"
      BY <1>3, EmptySeq DEF Close
    <2> QED BY <1>d, <2>1
  <1>4. ASSUME NEW b \in 0 .. BlockCount, NEW fua, Prepare(b, FALSE, fua)
        PROVE  Queues'
    <2> DEFINE entry == [block |-> b, mine |-> TRUE, misfit |-> FALSE, full |-> FALSE]
    <2>0. pc = "idle" /\ lag' = lag /\ inflight' = Disowned(inflight) /\ cq' = Disowned(cq)
      BY <1>4 DEF Prepare
    <2>1. /\ inflight' \in Seq(Fit) /\ Len(inflight') = Len(inflight)
          /\ cq' \in Seq(Fit) /\ Len(cq') = Len(cq)
          /\ Disowned(sq) \in Seq(Fit) /\ Len(Disowned(sq)) = Len(sq)
      BY <1>a, <2>0, DisownedFact
    <2>2. CASE b >= BlockCount \/ Len(sq) = QueueDepth
      <3>1. pc' = "idle" /\ sq' = Disowned(sq)
        BY <1>4, <2>2, Zenon DEF Prepare, Fail
      <3> QED BY <1>d, <2>1, <3>1
    <2>3. CASE ~ (b >= BlockCount \/ Len(sq) = QueueDepth)
      <3>1. entry \in Fit
        BY <2>3 DEF Entry, Fit
      <3>2. /\ pc' = "submit" /\ call' = [block |-> b, fua |-> fua]
            /\ sq' = Append(Disowned(sq), entry)
        BY <1>4, <2>3, Zenon DEF Prepare
      <3>3. Kept
        BY <2>1, <3>1, <3>2, AppendProperties
      <3>4. ASSUME lag' = 0
            PROVE  sq' \in Seq(Own') /\ inflight' \in Seq(Own') /\ cq' \in Seq(OwnDone')
        <4>1. Len(sq) = 0 /\ Len(inflight) = 0 /\ Len(cq) = 0
          BY <2>0, <3>4 DEF Accounted, TypeOK
        <4>2. Len(Disowned(sq)) = 0 /\ Len(inflight') = 0 /\ Len(cq') = 0
          BY <2>1, <4>1
        <4>3. Disowned(sq) = <<>> /\ inflight' = <<>> /\ cq' = <<>>
          BY <2>1, <4>2, EmptySeq
        <4>4. call'.block = b
          BY <3>2
        <4>5. entry \in Own'
          BY <3>1, <4>4, <1>b DEF Own
        <4>6. sq' = Append(<<>>, entry)
          BY <3>2, <4>3
        <4> QED BY <4>3, <4>5, <4>6, EmptySeq, AppendProperties
      <3> QED BY <1>b, <3>3, <3>4, Zenon DEF Queues, OnlyOwn
    <2> QED BY <2>2, <2>3, Zenon
  <1>5. CASE Submit
    <2>0. pc = "submit" /\ cq' = cq
      BY <1>5 DEF Submit
    <2>1. PICK n \in 0 .. Len(sq) :
             /\ HandOver(n)
             /\ IF n = 1
                THEN pc' = "wait" /\ UNCHANGED <<call, result, took, synced, fault, lag>>
                ELSE FailBehind(fault \/ n < Len(sq))
      BY <1>5, Zenon DEF Submit
    <2>2. Kept
      BY <1>a, <2>0, <2>1, HandOverFact
    <2>3. CASE pc' = "idle"
      BY <1>d, <2>2, <2>3
    <2>4. CASE pc' = "wait" /\ UNCHANGED <<call, result, took, synced, fault, lag>>
      <3>1. Own' = Own /\ OwnDone' = OwnDone
        BY <2>4, <1>b, Zenon DEF Own, OwnDone
      <3>2. ASSUME lag' = 0
            PROVE  sq' \in Seq(Own') /\ inflight' \in Seq(Own') /\ cq' \in Seq(OwnDone')
        <4>1. sq \in Seq(Own) /\ inflight \in Seq(Own) /\ cq \in Seq(OwnDone)
          BY <2>0, <2>4, <3>2, Zenon DEF Queues, OnlyOwn
        <4>2. sq' \in Seq(Own) /\ inflight' \in Seq(Own)
          BY <2>1, <4>1, HandOverFact
        <4> QED BY <2>0, <3>1, <4>1, <4>2, Zenon
      <3> QED BY <1>b, <2>2, <3>2, Zenon DEF Queues, OnlyOwn
    <2> QED BY <2>1, <2>3, <2>4, Zenon DEF FailBehind, Fail
  <1>6. CASE Wait
    <2>1. cq # <<>> /\ cq' = Tail(cq) /\ sq' = sq /\ inflight' = inflight
      BY <1>6 DEF Wait
    <2>2. Kept
      BY <1>a, <2>1, HeadTailProperties
    <2>3. pc' = "idle" \/ pc' = "sync"
      BY <1>6, Zenon DEF Wait, Accept, Succeed, Fail
    <2> QED BY <1>d, <2>2, <2>3
  <1>7. CASE WaitFails \/ Sync
    <2>1. UNCHANGED queue /\ pc' = "idle"
      BY <1>7, Zenon DEF WaitFails, Sync, Succeed, FailBehind, Fail
    <2> QED BY <1>c, <1>d, <2>1
  <1>8. ASSUME NEW i \in 1 .. Len(inflight), Complete(i)
        PROVE  Queues'
    <2>0. inflight' = RemoveAt(inflight, i) /\ UNCHANGED <<sq, pc, call, lag>>
      BY <1>8 DEF Complete
    <2>1. inflight[i] \in Fit /\ inflight[i] \in Entry
      BY <1>a DEF Fit
    <2>2. PICK full \in BOOLEAN :
            /\ cq' = Append(cq, [inflight[i] EXCEPT !.full = full])
            /\ IF full \/ inflight[i].misfit
               THEN Sound /\ UNCHANGED fault
               ELSE Faulty /\ fault' = (fault \/ inflight[i].mine)
      BY <1>8, CompleteFact, Zenon
    <2> DEFINE e == inflight[i]
               done == [e EXCEPT !.full = full]
    <2>3. done \in Entry /\ done.mine = e.mine /\ done.block = e.block
          /\ done.misfit = e.misfit /\ done.full = full
      BY <2>1 DEF Entry
    <2> HIDE DEF done
    <2>4. done \in Fit
      BY <2>1, <2>3, Zenon DEF Fit
    <2>5. Kept
      <3>1. cq' \in Seq(Fit)
        BY <1>a, <2>2, <2>4, AppendProperties DEF done
      <3>2. inflight' \in Seq(Fit)
        BY <1>a, <2>0, RemoveAtFact
      <3> QED BY <1>a, <2>0, <3>1, <3>2
    <2>6. ASSUME pc \in {"submit", "wait"}, lag = 0
          PROVE  sq' \in Seq(Own') /\ inflight' \in Seq(Own') /\ cq' \in Seq(OwnDone')
      <3>1. sq \in Seq(Own) /\ inflight \in Seq(Own) /\ cq \in Seq(OwnDone)
        BY <2>6, Zenon DEF Queues, OnlyOwn
      <3>2. Own' = Own
        BY <2>0, <1>b, Zenon DEF Own
      <3>3. fault => fault'
        BY <2>2, Zenon
      <3>4. OwnDone \subseteq OwnDone'
        BY <3>2, <3>3, Zenon DEF OwnDone
      <3>5. e \in Own
        BY <3>1
      <3>6. done \in Own
        BY <2>3, <2>4, <3>5, Zenon DEF Own
      <3>7. ~ done.full => fault'
        BY <2>1, <2>2, <2>3, <3>5, Zenon DEF Own, Fit
      <3>8. done \in OwnDone'
        BY <3>2, <3>6, <3>7, Zenon DEF OwnDone
      <3>9. cq' \in Seq(OwnDone')
        <4>1. cq \in Seq(OwnDone')
          BY <3>1, <3>4, SeqMonotonic
        <4>2. cq' = Append(cq, done)
          BY <2>2 DEF done
        <4> QED BY <4>1, <4>2, <3>8, AppendProperties
      <3> QED BY <2>0, <3>1, <3>2, <3>9, RemoveAtFact
    <2> QED BY <1>b, <2>0, <2>5, <2>6, Zenon DEF Queues, OnlyOwn
  <1>9. ASSUME NEW b \in 0 .. BlockCount, NEW buf \in Buffers, NEW fua \in BOOLEAN,
               Write(b, buf, fua) \/ Read(b)
        PROVE  Queues'
    BY <1>4, <1>9, PreparedFits, Zenon
  <1>10. CASE UNCHANGED vars
    BY <1>1, <1>10, Zenon DEF vars
  <1>11. ASSUME NEW b \in 0 .. BlockCount, Read(b) PROVE Queues'
    BY <1>4, <1>11, Zenon DEF Read
  <1> QED
    BY <1>2, <1>3, <1>5, <1>6, <1>7, <1>8, <1>9, <1>10, <1>11, Zenon DEF Next, Caller, Kernel

---------------------------------------------------------------------------
(* What the calls report.                                                  *)

\* Every step of a call keeps what it reports true: the completion Wait takes in a ring
\* with nothing left behind is the call's own.
LEMMA OutcomesStep ==
    TypeOK /\ Accounted /\ Queues /\ Outcomes /\ [Next]_vars => Outcomes'
  <1> SUFFICES ASSUME TypeOK, Accounted, Queues, Outcomes, [Next]_vars PROVE Outcomes'
    OBVIOUS
  <1>a. SyncOfFull /\ SuccessIsOwn /\ FailuresExplained
    BY DEF Outcomes
  <1>b. ASSUME SyncOfFull', SuccessIsOwn', FailuresExplained' PROVE Outcomes'
    BY <1>b DEF Outcomes
  <1>c. ASSUME pc' = "idle", result' = "error", fault' \/ lag' > 0 PROVE Outcomes'
    BY <1>b, <1>c DEF SyncOfFull, SuccessIsOwn, FailuresExplained
  <1>d. ASSUME pc' \in {"submit", "wait"} PROVE Outcomes'
    BY <1>b, <1>d DEF SyncOfFull, SuccessIsOwn, FailuresExplained
  <1>e. ASSUME NEW bad, FailBehind(bad) PROVE Outcomes'
    <2>1. pc' = "idle" /\ result' = "error" /\ lag' = lag + 1
      BY <1>e, Zenon DEF FailBehind, Fail
    <2>2. lag' > 0
      BY <2>1 DEF TypeOK
    <2> QED BY <1>c, <2>1, <2>2
  <1>f. ASSUME Fail(TRUE) PROVE Outcomes'
    BY <1>c, <1>f, Zenon DEF Fail
  <1>1. CASE UNCHANGED <<thread, lag>>
    BY <1>a, <1>b, <1>1, Zenon DEF SyncOfFull, SuccessIsOwn, FailuresExplained, thread
  <1>2. CASE Open \/ RegisterWriteBuffers \/ Interrupt
    BY <1>1, <1>2, Zenon DEF Open, RegisterWriteBuffers, Interrupt
  <1>3. CASE Close
    <2>1. pc' = "idle" /\ result' = "none"
      BY <1>3 DEF Close
    <2> QED BY <1>b, <2>1 DEF SyncOfFull, SuccessIsOwn, FailuresExplained
  <1>4. ASSUME NEW b \in 0 .. BlockCount, NEW misfit, NEW fua, Prepare(b, misfit, fua)
        PROVE  Outcomes'
    <2>1. CASE b >= BlockCount
      <3>1. Fail(b >= BlockCount)
        BY <1>4, <2>1, Zenon DEF Prepare
      <3>2. (b >= BlockCount) = TRUE
        BY <2>1
      <3> QED BY <1>f, <3>1, <3>2, Zenon
    <2>2. CASE ~ (b >= BlockCount) /\ Len(sq) = QueueDepth
      <3>1. pc = "idle" /\ pc' = "idle" /\ result' = "error" /\ lag' = lag
        BY <1>4, <2>2, Zenon DEF Prepare, Fail
      <3>2. lag' > 0
        BY <2>2, <3>1 DEF Accounted, TypeOK
      <3> QED BY <1>c, <3>1, <3>2
    <2>3. CASE ~ (b >= BlockCount) /\ ~ (Len(sq) = QueueDepth)
      <3>1. pc' = "submit"
        BY <1>4, <2>3, Zenon DEF Prepare
      <3> QED BY <1>d, <3>1
    <2> QED BY <2>1, <2>2, <2>3, Zenon
  <1>5. CASE Submit
    <2>1. CASE pc' = "wait"
      BY <1>d, <2>1
    <2>2. CASE \E n \in 0 .. Len(sq) : FailBehind(fault \/ n < Len(sq))
      BY <1>e, <2>2
    <2> QED BY <1>5, <2>1, <2>2, Zenon DEF Submit
  <1>6. CASE Wait
    <2>0. pc = "wait" /\ cq # <<>> /\ lag' = lag
      BY <1>6 DEF Wait
    <2>1. Head(cq) = cq[1] /\ Len(cq) \in Nat \ {0} /\ Head(cq) \in Entry
      BY <2>0, EmptySeq, HeadTailProperties DEF TypeOK
    <2>2. lag \in Nat /\ fault \in BOOLEAN
      BY DEF TypeOK
    <2>3. lag = 0 => Head(cq) \in OwnDone
      <3>1. lag = 0 => cq \in Seq(OwnDone)
        BY <2>0, Zenon DEF Queues, OnlyOwn
      <3> QED BY <2>0, <3>1, HeadTailProperties
    <2>4. lag # 0 <=> lag > 0
      BY <2>2
    <2>5. CASE Head(cq).block = call.block /\ Head(cq).full
      <3>1. Accept(Head(cq))
        BY <1>6, <2>5, Zenon DEF Wait
      <3>2. took' = Head(cq) /\ call' = call
        BY <3>1, Zenon DEF Accept
      <3>3. took'.full /\ (took'.mine \/ (lag' > 0 /\ took'.block = call'.block))
        BY <2>0, <2>3, <2>4, <2>5, <3>2, Zenon DEF OwnDone, Own
      <3>4. CASE call.fua
        <4>1. pc' = "sync"
          BY <3>1, <3>4, Zenon DEF Accept
        <4> QED BY <1>b, <3>3, <4>1, Zenon DEF SyncOfFull, SuccessIsOwn, FailuresExplained
      <3>5. CASE ~ call.fua
        <4>1. pc' = "idle" /\ result' = "ok"
          BY <3>1, <3>5, Zenon DEF Accept, Succeed
        <4>2. "idle" # "sync" /\ "ok" # "error"
          OBVIOUS
        <4> QED
          BY <1>b, <3>2, <3>3, <3>5, <4>1, <4>2, Zenon
          DEF SyncOfFull, SuccessIsOwn, FailuresExplained
      <3> QED BY <3>4, <3>5
    <2>6. CASE ~ (Head(cq).block = call.block /\ Head(cq).full)
      <3>1. Fail(fault)
        BY <1>6, <2>6, Zenon DEF Wait
      <3>2. pc' = "idle" /\ result' = "error" /\ fault' = fault
        BY <3>1, Zenon DEF Fail
      <3>3. fault' \/ lag' > 0
        BY <2>0, <2>3, <2>4, <2>6, <3>2, Zenon DEF OwnDone, Own
      <3> QED BY <1>c, <3>2, <3>3, Zenon
    <2> QED BY <2>5, <2>6
  <1>7. CASE WaitFails
    BY <1>e, <1>7, Zenon DEF WaitFails
  <1>8. CASE Sync
    <2>1. CASE Succeed /\ synced' = TRUE /\ UNCHANGED <<call, took, fault>>
      <3>1. pc = "sync" /\ pc' = "idle" /\ result' = "ok" /\ lag' = lag
        BY <1>8, <2>1, Zenon DEF Sync, Succeed
      <3>2. "idle" # "sync" /\ "ok" # "error"
        OBVIOUS
      <3> QED
        BY <1>a, <1>b, <2>1, <3>1, <3>2, Zenon DEF SyncOfFull, SuccessIsOwn, FailuresExplained
    <2>2. CASE Fail(TRUE)
      BY <1>f, <2>2
    <2> QED BY <1>8, <2>1, <2>2, Zenon DEF Sync
  <1>9. ASSUME NEW i \in 1 .. Len(inflight), Complete(i)
        PROVE  Outcomes'
    <2>1. UNCHANGED <<pc, call, result, took, synced, lag>>
      BY <1>9 DEF Complete
    <2>2. fault => fault'
      BY <1>9, CompleteFact, Zenon
    <2> QED BY <1>a, <1>b, <2>1, <2>2, Zenon DEF SyncOfFull, SuccessIsOwn, FailuresExplained
  <1>10. CASE UNCHANGED vars
    BY <1>1, <1>10, Zenon DEF vars
  <1> QED
    BY <1>2, <1>3, <1>4, <1>5, <1>6, <1>7, <1>8, <1>9, <1>10, Zenon
    DEF Next, Caller, Kernel, Write, Read

---------------------------------------------------------------------------
(* The theorems.                                                           *)

\* The inductive invariant holds throughout.
LEMMA Invariance == Spec => []IInv
  <1>1. Init => IInv
    BY TypeInit, QueuesInit DEF IInv
  <1>2. IInv /\ [Next]_vars => IInv'
    BY TypeStep, QueuesStep, OutcomesStep DEF IInv
  <1> QED BY <1>1, <1>2, PTL DEF Spec

\* Write and Read report success only for their own transfer, carried out in full and
\* synced where the level asks for it; where an earlier system call has failed, at worst
\* for an earlier transfer of the same block (SubmitAndWait compares block numbers only).
THEOREM SuccessIsOwnHolds == Spec => []SuccessIsOwn
  <1>1. IInv => SuccessIsOwn
    BY DEF IInv, Outcomes
  <1> QED BY <1>1, Invariance, PTL

\* Between calls the ring holds no more than what failed system calls have left in it,
\* and a failure has a reason in its own call or in those.
THEOREM CleanBetweenCallsHolds == Spec => []CleanBetweenCalls
  <1>1. IInv => CleanBetweenCalls
    BY DEF IInv, Outcomes, FailuresExplained, Accounted, CleanBetweenCalls
  <1> QED BY <1>1, Invariance, PTL

==============================================================================
