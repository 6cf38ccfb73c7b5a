--------------------------- MODULE WalRingInvariants ---------------------------
(***************************************************************************)
(* The inductive invariants of module WalRing, which WalRingProofs shows   *)
(* of its first state and of every step: Inside (the window), Rescue,      *)
(* Promised, Traced (what Recover replays), Refusing (what it refuses).    *)
(***************************************************************************)
EXTENDS WalRing

---------------------------------------------------------------------------
(* The window.                                                             *)

\* Block v of the endless log lies at block p of the ring.
Lies(v, p) == p \in 0 .. RingBlocks - 1 /\ \E q \in Nat : v = q * RingBlocks + p

\* The slot of a number is always the same, whoever wrote the frame.
Home(n, x) == n = 0 \/ \E q \in Nat : n - 1 = q * RingBlocks * BlockFrames + x

\* A number lies before the block that precedes the first one a snapshot up to s leaves.
Within(n, s) == \E h \in Nat : h * BlockFrames <= s /\ n <= (h + RingBlocks - 1) * BlockFrames

\* The frames of a device, in their slots and before the head, after a snapshot up to s.
PlatterRight(d, s) ==
    /\ d \in [Slots -> Seq(Frames)]
    /\ \A x \in Slots : d[x] # <<>>
    /\ \A x \in Slots : \A i \in 1 .. Len(d[x]) : Home(d[x][i][1], x) /\ Within(d[x][i][1], s)

\* The frames of a buffer that belongs to block p.
BufferRight(f, p, s) ==
    /\ f \in Seq(Frames)
    /\ \A i \in 1 .. Len(f) : Home(f[i][1], p * BlockFrames + i - 1) /\ Within(f[i][1], s)

\* Tail and head are the blocks v and h of the log; what is buffered begins at v, ends with the
\* last number given out and fits in the window.
Placed(v, h) ==
    /\ Lies(v, cur) /\ Lies(h, head)
    /\ h <= v
    /\ h * BlockFrames <= covered
    /\ v * BlockFrames + Len(buf) = seq_next - 1
    /\ window <= RingBlocks - 1 - (v - h) /\ window <= RingBlocks - cur
    /\ Len(buf) <= window * BlockFrames

\* The state has its type.
Typed ==
    /\ cur \in 0 .. RingBlocks - 1 /\ head \in 0 .. RingBlocks - 1
    /\ window \in 0 .. BufBlocks
    /\ seq_next \in 1 .. MaxSeq + 1
    /\ level \in Levels /\ covered \in 0 .. MaxSeq
    /\ mode \in {"up", "down", "erasing", "refused"}
    /\ todo \in Seq(Steps)
    /\ last \in {"ok", "full", "failed", "no_rescue"}
    /\ life \in 1 .. MaxLives + 1 /\ promised \in 0 .. MaxSeq /\ faults \in 0 .. MaxFaults

Open == mode \in {"up", "erasing"}
DeviceRight == PlatterRight(platter, covered)
BufRight == BufferRight(buf, cur, covered)
Located ==
    /\ covered < seq_next
    /\ \E v, h \in Nat : Placed(v, h)

Inside == Typed /\ DeviceRight /\ BufRight /\ (Open => Located)

\* A device whose log the walk has found, whatever it thinks of the rest.
Walkable(c) ==
    /\ c.valid = {} => covered = 0
    /\ c.live # {} => c.replayed > 0
    /\ c.live = {} => c.anchor >= covered

---------------------------------------------------------------------------
(* What a call has still to do.                                            *)

\* What is left of a call, and its outcome.
CallTyped == todo \in Seq(Steps) /\ last \in {"ok", "full", "failed", "no_rescue"}

\* The steps of a batch.
Batching == {"admit", "tail", "batch_sync"}

LocalTyped ==
    local \in [size : 1 .. MaxBatch, attempt : {1, 2}, wrote : BOOLEAN, dirty : BOOLEAN, full : BOOLEAN]

\* What is left of a call whose write met a full ring once: from the rescuing snapshot on, the
\* window is shut and the buffer empty until the head has come up to the tail.
Second ==
    \/ todo \in {<<"flush", "snapshot", "retry">>, <<"snapshot", "retry">>} /\ window = 0
    \/ todo = <<"retry">> /\ window = 0 /\ head = cur
    \/ todo \in {<<"admit", "tail", "batch_sync">>, <<"write">>} /\ buf = <<>> /\ (window = 0 => head = cur)
    \/ todo \in {<<"tail", "batch_sync">>, <<"batch_sync">>, <<"flush">>, <<"flush_sync">>} /\ ~ local.full

\* A list of steps is a batch or has none of its steps.
Pure(steps) ==
    \/ \A i \in 1 .. Len(steps) : steps[i] \in Batching
    \/ \A i \in 1 .. Len(steps) : steps[i] \notin Batching

\* The inductive invariant of the rescue.
Rescue ==
    /\ LocalTyped
    /\ mode # "up" => local = Idle
    /\ Pure(todo)
    /\ local.dirty => window # 0 /\ \A i \in 1 .. Len(todo) : todo[i] \in Batching
    /\ local.full => window = 0 /\ ~ local.dirty /\ \A i \in 1 .. Len(todo) : todo[i] \in {"tail", "batch_sync"}
    /\ local.attempt = 2 => Second

\* A full ring is never the answer to a single write.
Answered == last' = "full" => last = "full" \/ local.size > 1

---------------------------------------------------------------------------
(* Promises.                                                               *)

\* The slot of a number.
Seat(n) == (n - 1) % (RingBlocks * BlockFrames)

\* A read finds the number; whatever a power failure leaves, it does.
Here(n) == Seq0(Seat(n)) = n
Kept(n) == \A i \in 1 .. Len(platter[Seat(n)]) : platter[Seat(n)][i][1] = n

\* What a call has still to do: a batch ends with its tail, a Flush that has written
\* synchronises next.
Shaped(steps) ==
    /\ \A i \in 1 .. Len(steps) : steps[i] = "admit" => i < Len(steps) /\ steps[i + 1] \in {"admit", "tail"}
    /\ \A i \in 1 .. Len(steps) : steps[i] = "flush_sync" => i = 1

Queue ==
    /\ Shaped(todo)
    /\ local.wrote => \A i \in 1 .. Len(todo) : todo[i] \in Batching
    /\ local.dirty => todo # <<>> /\ todo[1] \in {"admit", "tail"}
    /\ mode # "up" => todo = <<>>

\* The frames beyond the snapshot: those promised stay, those no longer buffered are on the
\* device, the others are in the buffer in their order.
Lasting == \A n \in Nat : covered < n /\ n <= promised => Kept(n)
Buffered == \A i \in 1 .. Len(buf) : covered < seq_next - 1 - Len(buf) + i => buf[i][1] = seq_next - 1 - Len(buf) + i
Left == \A n \in Nat : covered < n /\ n <= seq_next - 1 - Len(buf) => Here(n)
AllHere == \A n \in Nat : covered < n /\ n < seq_next => Here(n)

\* Everything given out has been written, and a synchronisation is about to follow.
Written == (local.wrote /\ ~ local.dirty) \/ (todo # <<>> /\ todo[1] = "flush_sync")

Durable ==
    /\ Lasting
    /\ Open => promised < seq_next /\ Buffered /\ Left
    /\ Open /\ Written => AllHere

\* A recovery erases no frame it has just replayed.
ErasesOnlyFragments == mode = "erasing" => \A n \in covered + 1 .. seq_next - 1 : ~ Missing(n)

\* Where the blocks a recovery may clear, a buffer from the tail on and no further than the
\* seam, do not reach the head.
RoomAhead == mode = "erasing" => head <= cur \/ cur + BufBlocks <= head

\* The invariant of the promises.
Promised == Inside /\ Rescue /\ Queue /\ Durable

---------------------------------------------------------------------------
(* Whose frames are replayed.                                              *)

\* A frame beyond the snapshot has been given out, in the life that its number is from.
Known(f) == covered < f[1] => f[1] < seq_next /\ f[2] = history[f[1]]

Newest == \A x \in Slots : Known(Current(x))
Noted == Buffered /\ \A i \in 1 .. Len(buf) : Known(buf[i])

\* What a power failure may bring back is covered by the snapshot.
Behind == \A x \in Slots : \A i \in 1 .. Len(platter[x]) - 1 : platter[x][i][1] <= covered

\* Whatever a power failure leaves, a walk ends at k or before it, and meets only frames
\* that were accepted.
Cut(k) == \A x \in Slots : \A i \in 1 .. Len(platter[x]) :
              covered < platter[x][i][1] =>
                  /\ platter[x][i][1] # k + 1
                  /\ platter[x][i][1] <= k => platter[x][i][2] = history[platter[x][i][1]]

Traced ==
    /\ faithful
    /\ history \in [1 .. MaxSeq -> Int]
    /\ Open => Noted /\ Newest
    /\ ~ half_erased =>
           /\ mode = "up" => Behind
           /\ mode = "erasing" => Cut(seq_next - 1)
           /\ mode = "down" => Behind /\ \E k \in Nat : covered <= k /\ Cut(k)

---------------------------------------------------------------------------
(* Why a device is refused.                                                *)

\* Number m lies after n in the ring, before the seam, and no further than a window reaches.
Near(n, m) ==
    /\ n < m /\ Seat(m) - Seat(n) = m - n
    /\ Block(Seat(m)) < Block(Seat(n)) + BufBlocks

\* Number n was given out before life l.
Older(n, l) == 0 < history[n] /\ history[n] < l

\* Without failures, a number before a frame beyond the snapshot cannot be missing alone: a power
\* failure spares it, or it belongs to the same window, or to an earlier life.
Holes ==
    \A x \in Slots : \A i \in 1 .. Len(platter[x]) :
        \A n \in covered + 1 .. platter[x][i][1] - 1 :
            \/ Kept(n) \/ Near(n, platter[x][i][1])
            \/ Older(n, platter[x][i][2]) /\ (i = Len(platter[x]) \/ Here(n))

\* What is no longer buffered is safe, or was replayed.
Fresh == \A n \in covered + 1 .. seq_next - 1 - Len(buf) : Kept(n) \/ Older(n, life)

\* A frame in the buffer is of this life or on the device.
Own == \A i \in 1 .. Len(buf) :
           covered < seq_next - 1 - Len(buf) + i =>
               buf[i][2] = life \/ Current(Seat(seq_next - 1 - Len(buf) + i)) = buf[i]

\* Frames are of lives up to l.
LivesTo(l) ==
    /\ \A x \in Slots : \A i \in 1 .. Len(platter[x]) :
           platter[x][i][2] <= l /\ (platter[x][i][1] # 0 => platter[x][i][2] > 0)
    /\ \A i \in 1 .. Len(buf) : buf[i][2] <= life /\ (buf[i][1] # 0 => buf[i][2] > 0)

\* What a process finds has no gaps beyond the snapshot.
Gapless == \A x \in Slots : \A n \in covered + 1 .. Seq0(x) - 1 : Here(n)

Settled == \A x \in Slots : Len(platter[x]) = 1
Latest == \A x \in Slots : covered < Seq0(x) => Current(x)[2] = history[Seq0(x)]

\* A promise that ends with the snapshot leaves its last frame, or the first after it.
Anchored ==
    promised = covered /\ covered > 0 =>
        \/ /\ Kept(covered)
           /\ Open => \A i \in 1 .. Len(buf) : seq_next - 1 - Len(buf) + i = covered => buf[i][1] = covered
        \/ Kept(covered + 1)

\* No number from seq_next on has been given out; the last frame in the buffer is the last one.
Ungiven == \A n \in seq_next .. MaxSeq : history[n] = 0
Tip == buf # <<>> => buf[Len(buf)][1] = seq_next - 1

\* The last number given out is on the device.
Shown == seq_next # 1 => Here(seq_next - 1)

\* Device and buffer.
Stored ==
    /\ LivesTo(IF mode = "down" THEN life - 1 ELSE life)
    /\ Open => Ungiven /\ Own /\ Gapless /\ Tip
    /\ mode = "down" => Settled \/ (Latest /\ Gapless)
    /\ Anchored
    /\ faults = 0 => Holes

\* A call of one frame, and what it has still to do.
Alone ==
    /\ \A i \in 1 .. Len(todo) :
           /\ todo[i] = "admit" => i = 1 /\ level = "sync" /\ ~ local.dirty /\ (faults = 0 => ~ local.wrote)
           /\ todo[i] = "tail" => i < Len(todo)
           /\ todo[i] = "write" => level = "batch"
           /\ todo[i] = "sync" => i = Len(todo) /\ (i = 1 \/ (i = 2 /\ todo[1] \in {"flush", "flush_sync"}))
           /\ todo[i] = "batch" => i = 1 /\ Len(todo) = 1
    /\ local.wrote => todo # <<>>
    /\ local.dirty => buf # <<>> /\ (faults = 0 => ~ local.wrote)

\* The buffer is short where a call begins.
Short == ~ local.dirty /\ (level = "sync" \/ todo = <<"sync">>) => Len(buf) < BlockFrames

Working ==
    /\ Alone
    /\ Open /\ Written => Shown
    /\ Open /\ faults = 0 => (local.wrote \/ Fresh) /\ Short

Refusing == Stored /\ Working

\* The reasons for a refusal.
Explained ==
    \/ Live # {} /\ Missing(covered + 1) /\ promised <= covered
    \/ \E x \in Live : \E n \in covered + 1 .. Seq0(x) - 1 :
           /\ Missing(n) /\ n > promised
           /\ history[n] < Current(x)[2] \/ faults > 0
    \/ promised < covered /\ \A x \in Slots : Seq0(x) < covered

================================================================================
