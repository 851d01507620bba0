--------------------------- MODULE SoundPathProofs ---------------------------
(***************************************************************************)
(* Proofs about the way of a sample from the emulation to the callback:    *)
(* first AudioAdapter, for every number of queues, every sample period and *)
(* every length of the run; then ReaderWriterQueue, the queue under each   *)
(* channel, for every size and number of blocks and every number of calls. *)
(***************************************************************************)
EXTENDS AudioAdapter, ReaderWriterQueue, FiniteSetTheorems, SequenceTheorems,
        WellFoundedInduction, TLAPS

(* While GetSample pops, the queues before channel have had their turn.    *)
Done(c) == getPc = "pop" /\ c < channel
Turn(c) == IF Done(c) THEN 1 ELSE 0

(* The frames popped from queue c: those that are neither in it nor lost.  *)
Pops(c) == NextFrame(c) - 1 - lost[c] - Len(queue[c])

(* Queue q holds frames up to frame n in increasing order; the younger     *)
(* ones leave room for it above each of them.                              *)
Increasing(q, n) ==
  /\ \A i \in 1 .. Len(q) : q[i] <= n - Len(q) + i
  /\ \A i \in 1 .. Len(q) - 1 : q[i] < q[i + 1]

QueueOrder ==
  /\ outputPc = 0 \/ outputPc \in Channel \/ outputPc = NumChannels + 1
  /\ \A c \in Channel : Increasing(queue[c], NextFrame(c) - 1)

(* Not counting the current round of pops, a queue was popped no more      *)
(* often than the frame any queue is at: a round takes one frame at most   *)
(* from a queue, and moves every queue on unless it is drained, which is   *)
(* as far as a queue can get.                                              *)
Skew == \A c, d \in Channel : Pops(c) - Turn(c) <= Position(d) - Turn(d)

(* A frame read is at the front of its queue until the call pops it.       *)
HeardFront ==
  /\ \A c \in Channel : heard[c] > 0 =>
       IF Done(c) \/ getPc = "idle"
       THEN removed[c] = heard[c]
       ELSE ~IsEmpty(c) /\ Head(queue[c]) = heard[c]
  /\ getPc \in {"peek", "read"} =>
       \A c \in Channel : c >= channel => heard[c] = 0
  /\ getPc = "read" => ~IsEmpty(channel)

IInv == TypeOK /\ QueueOrder /\ Skew /\ HeardFront /\ MixSpread

-----------------------------------------------------------------------------
(* What an enqueue that stores or fails, and a pop, do to the order.       *)
LEMMA IncreasingAppend ==
  ASSUME NEW q \in Seq(Nat), NEW n \in Nat, Increasing(q, n)
  PROVE  Increasing(Append(q, n + 1), n + 1)
<1> DEFINE r == Append(q, n + 1)
<1>1. /\ Len(q) \in Nat /\ Len(r) = Len(q) + 1
      /\ \A i \in 1 .. Len(q) : r[i] = q[i] /\ q[i] \in Nat
      /\ r[Len(q) + 1] = n + 1
  <2>1. n + 1 \in Nat
    OBVIOUS
  <2> QED
    BY <2>1, AppendProperties, ElementOfSeq, LenProperties
<1>2. ASSUME NEW i \in 1 .. Len(r) PROVE r[i] <= (n + 1) - Len(r) + i
  <2>1. CASE i = Len(q) + 1
    BY <1>1, <2>1
  <2>2. CASE i \in 1 .. Len(q)
    BY <1>1, <2>2 DEF Increasing
  <2> QED
    BY <1>1, <2>1, <2>2
<1>3. ASSUME NEW i \in 1 .. Len(r) - 1 PROVE r[i] < r[i + 1]
  <2>1. CASE i = Len(q)
    <3>1. i \in 1 .. Len(q)
      BY <1>1, <2>1
    <3>2. q[i] <= n - Len(q) + i
      BY <3>1 DEF Increasing
    <3>3. r[i] = q[i] /\ r[i + 1] = n + 1 /\ q[i] \in Nat
      BY <1>1, <2>1, <3>1
    <3> QED
      BY <1>1, <2>1, <3>2, <3>3
  <2>2. CASE i \in 1 .. Len(q) - 1
    <3>1. i \in 1 .. Len(q) /\ i + 1 \in 1 .. Len(q)
      BY <1>1, <2>2
    <3> QED
      BY <1>1, <2>2, <3>1 DEF Increasing
  <2> QED
    BY <1>1, <2>1, <2>2
<1> HIDE DEF r
<1> QED
  BY <1>2, <1>3 DEF Increasing, r

LEMMA IncreasingLoss ==
  ASSUME NEW q \in Seq(Nat), NEW n \in Nat, Increasing(q, n)
  PROVE  Increasing(q, n + 1)
<1>1. Len(q) \in Nat /\ \A i \in 1 .. Len(q) : q[i] \in Nat
  BY ElementOfSeq, LenProperties
<1> QED
  BY <1>1 DEF Increasing

LEMMA IncreasingTail ==
  ASSUME NEW q \in Seq(Nat), NEW n \in Nat, Increasing(q, n), q # <<>>
  PROVE  /\ Head(q) \in Nat /\ Head(q) <= n - Len(q) + 1
         /\ Tail(q) \in Seq(Nat) /\ Len(Tail(q)) = Len(q) - 1 /\ Len(q) \in Nat \ {0}
         /\ Increasing(Tail(q), n)
         /\ Tail(q) # <<>> => Head(q) < Head(Tail(q))
<1> DEFINE r == Tail(q)
<1>1. /\ Len(q) \in Nat /\ Len(q) > 0
      /\ \A i \in 1 .. Len(q) : q[i] \in Nat
      /\ Head(q) = q[1]
      /\ r \in Seq(Nat) /\ Len(r) = Len(q) - 1
      /\ \A i \in 1 .. Len(r) : r[i] = q[i + 1]
  BY HeadTailProperties, ElementOfSeq, LenProperties, EmptySeq
<1>2. Head(q) \in Nat /\ Head(q) <= n - Len(q) + 1
  BY <1>1 DEF Increasing
<1>3. ASSUME NEW i \in 1 .. Len(r) PROVE r[i] <= n - Len(r) + i
  <2>1. i + 1 \in 1 .. Len(q)
    BY <1>1
  <2>2. q[i + 1] <= n - Len(q) + (i + 1) /\ q[i + 1] \in Nat
    BY <1>1, <2>1 DEF Increasing
  <2> QED
    BY <1>1, <2>2
<1>4. ASSUME NEW i \in 1 .. Len(r) - 1 PROVE r[i] < r[i + 1]
  <2>1. i \in 1 .. Len(r) /\ i + 1 \in 1 .. Len(r) /\ i + 1 \in 1 .. Len(q) - 1
    BY <1>1
  <2>2. q[i + 1] < q[(i + 1) + 1]
    BY <2>1 DEF Increasing
  <2>3. r[i] = q[i + 1] /\ r[i + 1] = q[(i + 1) + 1]
    BY <1>1, <2>1
  <2> QED
    BY <2>2, <2>3
<1>5. r # <<>> => Head(q) < Head(r)
  <2> SUFFICES ASSUME r # <<>> PROVE Head(q) < Head(r)
    OBVIOUS
  <2>1. Len(r) \in Nat /\ Len(r) > 0 /\ Head(r) = r[1]
    BY <1>1, HeadTailProperties, LenProperties, EmptySeq
  <2>2. 1 \in 1 .. Len(r) /\ 1 \in 1 .. Len(q) - 1
    BY <1>1, <2>1
  <2> QED
    BY <1>1, <2>1, <2>2 DEF Increasing
<1>6. Increasing(r, n)
  <2> HIDE DEF r
  <2> QED
    BY <1>3, <1>4 DEF Increasing
<1> QED
  BY <1>1, <1>2, <1>5, <1>6

(* A queue is enqueued on no later, and at most one frame earlier, than    *)
(* the queues after it.                                                    *)
LEMMA EnqueueOrder ==
  ASSUME TypeOK, NEW c \in Channel, NEW d \in Channel
  PROVE  /\ NextFrame(c) \in Nat \ {0} /\ NextFrame(d) \in Nat \ {0}
         /\ NextFrame(c) <= NextFrame(d) + 1
         /\ c < d => NextFrame(d) <= NextFrame(c)
<1>1. outputPc \in Int /\ received \in Nat /\ c \in Int /\ d \in Int
  BY NumChannelsAssumption DEF TypeOK, Channel
<1> QED
  BY <1>1 DEF NextFrame

(* Where a queue is, from how often it was popped and what it lost.        *)
LEMMA PositionArithmetic ==
  ASSUME NEW f \in Nat \ {0}, NEW l \in Nat, NEW m \in Nat, NEW p \in Nat,
         IF m = 0 THEN p = f ELSE p <= (f - 1) - m + 1
  PROVE  /\ p <= (f - 1 - l - m) + 1 + l
         /\ p <= f
         /\ f - 1 - l - m <= f - 1
         /\ f - 1 - l - m \in Int
  OBVIOUS

LEMMA PopArithmetic ==
  ASSUME NEW f \in Nat, NEW l \in Nat, NEW m \in Nat, m > 0
  PROVE  /\ f - 1 - l - (m - 1) = (f - 1 - l - m) + 1
         /\ \A p \in Nat : p <= f - 1 - m + 1 => f >= p + 1
  OBVIOUS

LEMMA PositionFacts ==
  ASSUME TypeOK, QueueOrder, NEW c \in Channel
  PROVE  /\ lost[c] \in Nat /\ Len(queue[c]) \in Nat /\ NextFrame(c) \in Nat \ {0}
         /\ Pops(c) \in Int /\ Position(c) \in Nat
         /\ Position(c) <= Pops(c) + 1 + lost[c]
         /\ Position(c) <= NextFrame(c)
         /\ Pops(c) <= NextFrame(c) - 1
<1>1. /\ queue[c] \in Seq(Nat)
      /\ Increasing(queue[c], NextFrame(c) - 1)
  BY DEF TypeOK, QueueOrder
<1>2. lost[c] \in Nat /\ Len(queue[c]) \in Nat /\ NextFrame(c) \in Nat \ {0}
  BY <1>1, EnqueueOrder, LenProperties DEF TypeOK
<1>3. /\ Position(c) \in Nat
      /\ IF Len(queue[c]) = 0 THEN Position(c) = NextFrame(c)
         ELSE Position(c) <= (NextFrame(c) - 1) - Len(queue[c]) + 1
  <2>1. CASE queue[c] = <<>>
    BY <1>2, <2>1, EmptySeq DEF Position, IsEmpty
  <2>2. CASE queue[c] # <<>>
    <3>1. NextFrame(c) - 1 \in Nat
      BY <1>2
    <3>2. /\ Head(queue[c]) \in Nat /\ Len(queue[c]) # 0
          /\ Head(queue[c]) <= (NextFrame(c) - 1) - Len(queue[c]) + 1
      BY <1>1, <2>2, <3>1, IncreasingTail
    <3> QED
      BY <2>2, <3>2 DEF Position, IsEmpty
  <2> QED
    BY <2>1, <2>2
<1> QED
  BY <1>2, <1>3, PositionArithmetic DEF Pops

LEMMA SkewBounded ==
  ASSUME TypeOK, QueueOrder, Skew
  PROVE  SkewBound
<1> SUFFICES ASSUME getPc # "pop", NEW c \in Channel, NEW d \in Channel
             PROVE  Position(c) - Position(d) <= IF IsEmpty(d) THEN 1 ELSE 1 + lost[c]
  BY DEF SkewBound
<1>1. Pops(c) - 0 <= Position(d) - 0
  BY DEF Skew, Turn, Done
<1>2. IsEmpty(d) => Position(d) = NextFrame(d)
  BY DEF Position
<1>3. /\ Position(c) \in Nat /\ Position(d) \in Nat /\ Pops(c) \in Int /\ lost[c] \in Nat
      /\ Position(c) <= Pops(c) + 1 + lost[c] /\ Position(c) <= NextFrame(c)
  BY PositionFacts
<1>4. /\ NextFrame(c) \in Nat /\ NextFrame(d) \in Nat
      /\ NextFrame(c) <= NextFrame(d) + 1
  BY EnqueueOrder
<1>5. IsEmpty(d) => Position(c) - Position(d) <= 1
  BY <1>2, <1>3, <1>4
<1>6. Position(c) - Position(d) <= 1 + lost[c]
  BY <1>1, <1>3
<1> QED
  BY <1>5, <1>6

-----------------------------------------------------------------------------
(* A step that leaves the queues and the frames to come alone.             *)
LEMMA QueuesKept ==
  ASSUME QueueOrder, UNCHANGED <<queue, lost>>,
         \A c \in Channel : NextFrame(c)' = NextFrame(c),
         outputPc' \in {0, 1, outputPc}
  PROVE  /\ QueueOrder'
         /\ \A c \in Channel : Pops(c)' = Pops(c) /\ Position(c)' = Position(c)
<1>1. outputPc' = 0 \/ outputPc' \in Channel \/ outputPc' = NumChannels + 1
  BY NumChannelsAssumption DEF QueueOrder, Channel
<1>2. \A c \in Channel : Increasing(queue[c], NextFrame(c) - 1)'
  BY DEF QueueOrder, Increasing
<1>3. \A c \in Channel : Pops(c)' = Pops(c) /\ Position(c)' = Position(c)
  BY DEF Pops, Position, IsEmpty
<1> QED
  BY <1>1, <1>2, <1>3 DEF QueueOrder

LEMMA InitIInv == Init => IInv
<1> SUFFICES ASSUME Init PROVE IInv
  OBVIOUS
<1>1. TypeOK
  BY NumChannelsAssumption, CyclesPerSampleAssumption, EmptySeq
  DEF Init, TypeOK, Channel
<1>2. QueueOrder
  BY EmptySeq DEF Init, QueueOrder, Increasing
<1>3. \A c \in Channel : Pops(c) = 0 /\ Position(c) = 1 /\ Turn(c) = 0
  BY EmptySeq DEF Init, Pops, Position, IsEmpty, NextFrame, Turn, Done, Channel
<1>4. Skew
  BY <1>3 DEF Skew
<1>5. HeardFront /\ MixSpread
  BY DEF Init, HeardFront, MixSpread
<1> QED
  BY <1>1, <1>2, <1>4, <1>5 DEF IInv

(* An enqueue, stored or not: the queues are popped as often as before,    *)
(* none moves back, and no front changes.                                  *)
LEMMA EnqueueStep ==
  ASSUME IInv, Enqueue \/ EnqueueFails
  PROVE  IInv'
<1> PICK k \in Channel : k = outputPc
  BY DEF Enqueue, EnqueueFails
<1>1. /\ k \in Nat /\ k = outputPc /\ outputPc' = k + 1
      /\ UNCHANGED <<cycles_since_last_output_, received, callback, flags>>
      /\ received \in Nat /\ NumChannels \in Nat \ {0} /\ k <= NumChannels
  BY NumChannelsAssumption DEF Enqueue, EnqueueFails, Channel, IInv, TypeOK
<1>2. /\ queue[k] \in Seq(Nat) /\ lost[k] \in Nat
      /\ queue \in [Channel -> Seq(Nat)] /\ lost \in [Channel -> Nat]
  BY <1>1 DEF IInv, TypeOK
<1>3. /\ NextFrame(k) = received + 1 /\ NextFrame(k)' = received + 2
      /\ \A c \in Channel \ {k} : NextFrame(c)' = NextFrame(c)
  <2>1. received' = received
    BY <1>1
  <2>2. \A c \in Channel : c \in Nat
    BY <1>1 DEF Channel
  <2>3. \A c \in Channel \ {k} : c < k + 1 <=> c < k
    BY <1>1, <2>2
  <2> QED
    BY <1>1, <2>1, <2>3 DEF NextFrame
<1>4. Increasing(queue[k], received)
  <2>1. (received + 1) - 1 = received
    BY <1>1
  <2> QED
    BY <1>3, <2>1 DEF IInv, QueueOrder
<1>5. /\ \A c \in Channel \ {k} : queue'[c] = queue[c] /\ lost'[c] = lost[c]
      /\ \/ queue'[k] = Append(queue[k], received + 1) /\ lost'[k] = lost[k]
         \/ queue'[k] = queue[k] /\ lost'[k] = lost[k] + 1
  <2>1. CASE Enqueue
    BY <1>1, <1>2, <2>1 DEF Enqueue
  <2>2. CASE EnqueueFails
    BY <1>1, <1>2, <2>2 DEF EnqueueFails
  <2> QED
    BY <2>1, <2>2
<1>6. TypeOK'
  <2>1. queue' \in [Channel -> Seq(Nat)]
    <3>1. Append(queue[k], received + 1) \in Seq(Nat)
      BY <1>1, <1>2, AppendProperties
    <3> QED
      BY <1>2, <3>1 DEF Enqueue, EnqueueFails
  <2>2. lost' \in [Channel -> Nat]
    <3>1. lost[k] + 1 \in Nat
      BY <1>2
    <3> QED
      BY <1>1, <1>2, <3>1 DEF Enqueue, EnqueueFails
  <2>3. outputPc' \in 0 .. NumChannels + 1
    BY <1>1, NumChannelsAssumption DEF Channel
  <2> QED
    BY <1>1, <2>1, <2>2, <2>3 DEF IInv, TypeOK, callback, flags
<1>7. QueueOrder'
  <2>1. outputPc' \in Channel \/ outputPc' = NumChannels + 1
    BY <1>1, NumChannelsAssumption DEF Channel
  <2>2. Increasing(queue'[k], received + 1)
    BY <1>1, <1>2, <1>4, <1>5, IncreasingAppend, IncreasingLoss
  <2>3. (received + 2) - 1 = received + 1
    BY <1>1
  <2>4. ASSUME NEW c \in Channel PROVE Increasing(queue'[c], NextFrame(c)' - 1)
    <3>1. CASE c = k
      BY <1>3, <2>2, <2>3, <3>1
    <3>2. CASE c # k
      <4>1. NextFrame(c)' = NextFrame(c) /\ queue'[c] = queue[c]
        BY <1>3, <1>5, <3>2
      <4>2. Increasing(queue[c], NextFrame(c) - 1)
        BY DEF IInv, QueueOrder
      <4> QED
        BY <4>1, <4>2
    <3> QED
      BY <3>1, <3>2
  <2> QED
    BY <2>1, <2>4 DEF QueueOrder, Increasing
<1>8. ASSUME NEW c \in Channel
      PROVE  /\ Pops(c)' = Pops(c)
             /\ Position(c)' >= Position(c) /\ Position(c) \in Nat /\ Position(c)' \in Nat
             /\ ~IsEmpty(c) => ~IsEmpty(c)' /\ Head(queue'[c]) = Head(queue[c])
  <2>0. Position(c) \in Nat
    BY PositionFacts DEF IInv
  <2>1. CASE c # k
    <3>1. Pops(c)' = Pops(c) /\ Position(c)' = Position(c)
      BY <1>3, <1>5, <2>1 DEF Pops, Position, IsEmpty
    <3>2. ~IsEmpty(c) => ~IsEmpty(c)' /\ Head(queue'[c]) = Head(queue[c])
      BY <1>5, <2>1 DEF IsEmpty
    <3> QED
      BY <2>0, <3>1, <3>2
  <2>2. CASE c = k
    <3>1. Len(queue[k]) \in Nat
      BY <1>2, LenProperties
    <3>2. CASE queue'[k] = Append(queue[k], received + 1) /\ lost'[k] = lost[k]
      <4>1. /\ Len(queue'[k]) = Len(queue[k]) + 1 /\ queue'[k] # <<>>
            /\ queue'[k] \in Seq(Nat) /\ Head(queue'[k]) = queue'[k][1]
            /\ queue[k] # <<>> =>
                 Head(queue[k]) = queue[k][1] /\ queue'[k][1] = queue[k][1]
            /\ queue[k] = <<>> => queue'[k][1] = received + 1
        BY <1>1, <1>2, <3>1, <3>2, AppendProperties, HeadTailProperties,
           EmptySeq, LenProperties
      <4>2. Pops(k)' = Pops(k)
        BY <1>1, <1>2, <1>3, <3>1, <3>2, <4>1 DEF Pops
      <4>3. Position(k)' = Position(k)
        BY <1>1, <1>3, <4>1 DEF Position, IsEmpty
      <4> QED
        BY <2>0, <2>2, <4>1, <4>2, <4>3 DEF IsEmpty
    <3>3. CASE queue'[k] = queue[k] /\ lost'[k] = lost[k] + 1
      <4>1. Pops(k)' = Pops(k)
        BY <1>1, <1>2, <1>3, <3>1, <3>3 DEF Pops
      <4>2. Position(k)' = IF IsEmpty(k) THEN Position(k) + 1 ELSE Position(k)
        BY <1>1, <1>3, <3>3 DEF Position, IsEmpty
      <4> QED
        BY <2>0, <2>2, <3>3, <4>1, <4>2 DEF IsEmpty
    <3> QED
      BY <1>5, <3>2, <3>3
  <2> QED
    BY <2>1, <2>2
<1>9. Skew'
  <2>1. \A c \in Channel : Turn(c)' = Turn(c) /\ Turn(c) \in {0, 1}
    BY <1>1 DEF Turn, Done, callback
  <2> SUFFICES ASSUME NEW c \in Channel, NEW d \in Channel
               PROVE  Pops(c)' - Turn(c)' <= Position(d)' - Turn(d)'
    BY DEF Skew
  <2>2. Pops(c) - Turn(c) <= Position(d) - Turn(d) /\ Pops(c) \in Int
    BY PositionFacts DEF IInv, Skew
  <2> QED
    BY <1>8, <2>1, <2>2
<1>10. HeardFront'
  <2>1. channel \in Channel
    BY DEF IInv, TypeOK
  <2>2. \A c \in Channel : Done(c)' <=> Done(c)
    BY <1>1 DEF Done, callback
  <2>3. UNCHANGED <<getPc, channel, heard, removed>>
    BY <1>1 DEF callback
  <2> QED
    BY <1>8, <2>1, <2>2, <2>3 DEF IInv, HeardFront
<1>11. MixSpread'
  <2> SUFFICES ASSUME NEW c \in Channel, NEW d \in Channel, heard[c] > 0, heard[d] > 0
               PROVE  heard[c] - heard[d] <= 1 + lost'[c]
    BY <1>1 DEF MixSpread, callback
  <2>1. heard[c] - heard[d] <= 1 + lost[c] /\ heard[c] \in Nat /\ heard[d] \in Nat
    BY DEF IInv, MixSpread, TypeOK
  <2>2. lost'[c] >= lost[c] /\ lost[c] \in Nat /\ lost'[c] \in Nat
    <3>1. lost[c] \in Nat /\ (lost'[c] = lost[c] \/ lost'[c] = lost[c] + 1)
      BY <1>2, <1>5
    <3> QED
      BY <3>1
  <2> QED
    BY <2>1, <2>2
<1> QED
  BY <1>6, <1>7, <1>9, <1>10, <1>11 DEF IInv

(* The second peek: in this state no queue was popped yet, so that what is *)
(* read and what was read before are the positions of the queues.          *)
LEMMA PeekReadStep ==
  ASSUME IInv, PeekRead
  PROVE  IInv'
<1> PICK k \in Channel : k = channel
  BY DEF IInv, TypeOK
<1>1. /\ k = channel /\ getPc = "read" /\ queue[k] # <<>>
      /\ queue[k] \in Seq(Nat) /\ k \in Nat /\ NumChannels \in Nat \ {0}
      /\ UNCHANGED <<removed, emulation, flags, queue>>
  BY NumChannelsAssumption DEF PeekRead, IInv, TypeOK, HeardFront, IsEmpty, Channel
<1>2. Head(queue[k]) \in Nat
  BY <1>1, HeadTailProperties
<1>3. /\ heard' \in [Channel -> Nat] /\ heard'[k] = Head(queue[k])
      /\ \A c \in Channel \ {k} : heard'[c] = heard[c]
  BY <1>1, <1>2 DEF PeekRead, IInv, TypeOK
<1>4. /\ channel' \in Channel /\ getPc' \in {"peek", "pop"}
      /\ getPc' = "peek" => channel' = k + 1
      /\ getPc' = "pop" => channel' = 1
  BY <1>1 DEF PeekRead, Advance, Channel
<1>5. TypeOK'
  BY <1>1, <1>3, <1>4 DEF IInv, TypeOK, emulation, flags
<1>6. /\ QueueOrder'
      /\ \A c \in Channel : Pops(c)' = Pops(c) /\ Position(c)' = Position(c)
  <2>1. \A c \in Channel : NextFrame(c)' = NextFrame(c)
    BY <1>1 DEF NextFrame, emulation
  <2> QED
    BY <1>1, <2>1, QueuesKept DEF IInv, emulation
<1>7. \A c \in Channel : ~Done(c) /\ ~Done(c)'
  BY <1>1, <1>4 DEF Done, Channel
<1>8. Skew'
  BY <1>6, <1>7 DEF IInv, Skew, Turn
<1>9. ASSUME NEW c \in Channel, heard'[c] > 0
      PROVE  ~IsEmpty(c) /\ Head(queue[c]) = heard'[c]
  <2>1. CASE c = k
    BY <1>1, <1>3, <2>1 DEF IsEmpty
  <2>2. CASE c # k
    BY <1>1, <1>3, <1>7, <1>9, <2>2 DEF IInv, HeardFront
  <2> QED
    BY <2>1, <2>2
<1>10. HeardFront'
  <2>1. ASSUME NEW c \in Channel, heard'[c] > 0
        PROVE  ~IsEmpty(c)' /\ Head(queue'[c]) = heard'[c]
    BY <1>1, <1>9, <2>1 DEF IsEmpty
  <2>2. ASSUME getPc' = "peek", NEW c \in Channel, c >= channel'
        PROVE  heard'[c] = 0
    <3>1. c # k /\ c >= k
      BY <1>1, <1>4, <2>2 DEF Channel
    <3> QED
      BY <1>1, <1>3, <3>1 DEF IInv, HeardFront
  <2>3. getPc' # "idle" /\ getPc' # "read"
    BY <1>4
  <2> QED
    BY <1>7, <2>1, <2>2, <2>3 DEF HeardFront
<1>11. MixSpread'
  <2> SUFFICES ASSUME NEW c \in Channel, NEW d \in Channel, heard'[c] > 0, heard'[d] > 0
               PROVE  heard'[c] - heard'[d] <= 1 + lost[c]
    BY <1>1 DEF MixSpread, emulation
  <2>1. /\ heard'[c] = Position(c) /\ heard'[d] = Position(d) /\ ~IsEmpty(d)
    BY <1>9 DEF Position
  <2>2. SkewBound
    BY SkewBounded DEF IInv
  <2> QED
    BY <1>1, <2>1, <2>2 DEF SkewBound
<1> QED
  BY <1>5, <1>6, <1>8, <1>10, <1>11 DEF IInv

(* A pop: the queue moves on by a frame or more, unless it is drained.     *)
LEMMA PopStep ==
  ASSUME IInv, Pop
  PROVE  IInv'
<1> PICK k \in Channel : k = channel
  BY DEF IInv, TypeOK
<1>1. /\ k = channel /\ getPc = "pop" /\ k \in Nat /\ NumChannels \in Nat \ {0}
      /\ queue[k] \in Seq(Nat) /\ queue \in [Channel -> Seq(Nat)]
      /\ removed \in [Channel -> Nat]
      /\ UNCHANGED <<heard, emulation, flags>>
  BY NumChannelsAssumption DEF Pop, PopUnless, IInv, TypeOK, Channel
<1>2. \A c \in Channel \ {k} : queue'[c] = queue[c] /\ removed'[c] = removed[c]
  BY <1>1 DEF Pop, PopUnless
<1>3. IF queue[k] = <<>> THEN queue'[k] = <<>> /\ removed'[k] = removed[k]
      ELSE queue'[k] = Tail(queue[k]) /\ removed'[k] = Head(queue[k])
  BY <1>1 DEF Pop, PopUnless, IsEmpty
<1>4. /\ channel' \in Channel /\ getPc' \in {"pop", "idle"}
      /\ getPc' = "pop" => k < NumChannels /\ channel' = k + 1
      /\ getPc' = "idle" => k = NumChannels /\ channel' = 1
  BY <1>1 DEF Pop, PopUnless, Advance, Channel
<1>5. \A c \in Channel : NextFrame(c)' = NextFrame(c)
  BY <1>1 DEF NextFrame, emulation
<1>6. NextFrame(k) - 1 \in Nat /\ Increasing(queue[k], NextFrame(k) - 1)
  BY <1>1, EnqueueOrder DEF IInv, QueueOrder
<1>7. queue[k] # <<>> =>
        /\ Head(queue[k]) \in Nat /\ Head(queue[k]) <= NextFrame(k) - 1 - Len(queue[k]) + 1
        /\ Tail(queue[k]) \in Seq(Nat)
        /\ Len(Tail(queue[k])) = Len(queue[k]) - 1 /\ Len(queue[k]) \in Nat \ {0}
        /\ Increasing(Tail(queue[k]), NextFrame(k) - 1)
        /\ Tail(queue[k]) # <<>> => Head(queue[k]) < Head(Tail(queue[k]))
  BY <1>1, <1>6, IncreasingTail
<1>8. TypeOK'
  <2>1. queue' \in [Channel -> Seq(Nat)] /\ removed' \in [Channel -> Nat]
    BY <1>1, <1>7 DEF Pop, PopUnless, IsEmpty
  <2> QED
    BY <1>1, <1>4, <2>1 DEF IInv, TypeOK, emulation, flags
<1>9. QueueOrder'
  <2>1. ASSUME NEW c \in Channel PROVE Increasing(queue'[c], NextFrame(c) - 1)
    <3>1. CASE c = k
      BY <1>3, <1>6, <1>7, <3>1
    <3>2. CASE c # k
      BY <1>2, <3>2 DEF IInv, QueueOrder
    <3> QED
      BY <3>1, <3>2
  <2> QED
    BY <1>1, <1>5, <2>1 DEF IInv, QueueOrder, Increasing, emulation
<1>10. ASSUME NEW c \in Channel \ {k}
       PROVE  Pops(c)' = Pops(c) /\ Position(c)' = Position(c)
  BY <1>1, <1>2, <1>5 DEF Pops, Position, IsEmpty, emulation
<1>11. /\ Position(k) \in Nat /\ Position(k)' \in Nat
       /\ IF queue[k] = <<>>
          THEN Pops(k)' = Pops(k) /\ Position(k)' = Position(k) /\ Position(k) = NextFrame(k)
          ELSE Pops(k)' = Pops(k) + 1 /\ Position(k)' >= Position(k) + 1
  <2>1. CASE queue[k] = <<>>
    <3>1. queue'[k] = queue[k] /\ lost'[k] = lost[k] /\ NextFrame(k)' = NextFrame(k)
      BY <1>1, <1>3, <1>5, <2>1 DEF emulation
    <3> QED
      BY <1>1, <2>1, <3>1, PositionFacts DEF IInv, Pops, Position, IsEmpty
  <2>2. CASE queue[k] # <<>>
    <3>1. queue'[k] = Tail(queue[k]) /\ lost'[k] = lost[k] /\ NextFrame(k)' = NextFrame(k)
      BY <1>1, <1>3, <1>5, <2>2 DEF emulation
    <3>2. lost[k] \in Nat /\ NextFrame(k) \in Nat /\ Position(k) = Head(queue[k])
      BY <1>1, <2>2, PositionFacts DEF IInv, Position, IsEmpty
    <3>3. /\ Len(queue[k]) \in Nat \ {0} /\ Len(queue'[k]) = Len(queue[k]) - 1
          /\ Position(k) \in Nat
          /\ Position(k) <= NextFrame(k) - 1 - Len(queue[k]) + 1
          /\ Tail(queue[k]) # <<>> => Position(k) < Head(Tail(queue[k]))
      BY <1>7, <2>2, <3>1, <3>2
    <3>4. Pops(k)' = Pops(k) + 1
      BY <3>1, <3>2, <3>3, PopArithmetic DEF Pops
    <3>5. Position(k)' >= Position(k) + 1 /\ Position(k)' \in Nat
      <4>1. CASE Tail(queue[k]) = <<>>
        <5>1. Position(k)' = NextFrame(k)
          BY <3>1, <4>1 DEF Position, IsEmpty
        <5> QED
          BY <3>2, <3>3, <5>1, PopArithmetic
      <4>2. CASE Tail(queue[k]) # <<>>
        <5>1. Head(Tail(queue[k])) \in Nat
          BY <1>7, <2>2, <4>2, HeadTailProperties
        <5>2. Position(k)' = Head(Tail(queue[k]))
          BY <3>1, <4>2 DEF Position, IsEmpty
        <5> QED
          BY <3>3, <4>2, <5>1, <5>2
      <4> QED
        BY <4>1, <4>2
    <3> QED
      BY <2>2, <3>3, <3>4, <3>5
  <2> QED
    BY <2>1, <2>2
<1>12. Skew'
  <2> DEFINE s == IF getPc' = "idle" THEN 1 ELSE 0
  <2>1. \A c \in Channel :
          /\ Turn(c) = IF c < k THEN 1 ELSE 0
          /\ Turn(c)' = (IF c <= k THEN 1 ELSE 0) - s
    <3>1. CASE getPc' = "pop"
      BY <1>1, <1>4, <3>1 DEF Turn, Done, Channel
    <3>2. CASE getPc' = "idle"
      BY <1>1, <1>4, <3>2 DEF Turn, Done, Channel
    <3> QED
      BY <1>4, <3>1, <3>2
  <2>2. s \in {0, 1}
    OBVIOUS
  <2> HIDE DEF s
  <2> SUFFICES ASSUME NEW c \in Channel, NEW d \in Channel
               PROVE  Pops(c)' - Turn(c)' <= Position(d)' - Turn(d)'
    BY DEF Skew
  <2>3. /\ Pops(c) - Turn(c) <= Position(d) - Turn(d)
        /\ Pops(c) \in Int /\ Position(d) \in Nat /\ c \in Int /\ d \in Int
    BY PositionFacts DEF IInv, Skew, Channel
  <2>4. CASE d # k
    <3>1. Position(d)' = Position(d) /\ Turn(d)' = Turn(d) - s
      <4>1. d < k <=> d <= k
        BY <1>1, <2>3, <2>4
      <4> QED
        BY <1>10, <2>1, <2>4, <4>1
    <3>2. Pops(c)' - Turn(c)' <= Pops(c) - Turn(c) + s
      <4>1. CASE c = k
        BY <1>1, <1>11, <2>1, <2>2, <2>3, <4>1
      <4>2. CASE c # k
        BY <1>1, <1>10, <2>1, <2>2, <2>3, <4>2
      <4> QED
        BY <4>1, <4>2
    <3>3. Turn(c) \in Int /\ Turn(d) \in Int /\ Turn(c)' \in Int /\ Pops(c)' \in Int
      BY <1>10, <1>11, <2>1, <2>2, <2>3
    <3> QED
      BY <2>2, <2>3, <3>1, <3>2, <3>3
  <2>5. CASE d = k /\ queue[k] # <<>>
    <3>1. Position(d)' >= Position(d) + 1 /\ Position(d)' \in Nat
      BY <1>11, <2>5
    <3>2. Turn(d) = 0 /\ Turn(d)' = 1 - s
      BY <1>1, <2>1, <2>5
    <3>3. CASE c = k
      BY <1>1, <1>11, <2>1, <2>2, <2>3, <2>5, <3>1, <3>2, <3>3
    <3>4. CASE c # k
      <4>1. Pops(c)' = Pops(c) /\ Turn(c)' = Turn(c) - s /\ Turn(c) \in Int
        BY <1>1, <1>10, <2>1, <2>2, <2>3, <3>4
      <4> QED
        BY <2>2, <2>3, <3>1, <3>2, <4>1
    <3> QED
      BY <3>3, <3>4
  <2>6. CASE d = k /\ queue[k] = <<>>
    <3>1. Position(d)' = NextFrame(k) /\ Turn(d) = 0 /\ Turn(d)' = 1 - s
      BY <1>1, <1>11, <2>1, <2>6
    <3>2. CASE c = k
      <4>1. Pops(c)' = Pops(c) /\ Position(d)' = Position(d) /\ Turn(c)' = Turn(d)'
        BY <1>11, <2>6, <3>2
      <4>2. Pops(c) <= Position(d)
        BY <2>3, <2>6, <3>1, <3>2
      <4> QED
        BY <2>2, <2>3, <3>1, <4>1, <4>2
    <3>3. CASE c # k
      <4>1. /\ Pops(c)' = Pops(c) /\ Pops(c) <= NextFrame(c) - 1
            /\ NextFrame(c) \in Nat /\ NextFrame(k) \in Nat
            /\ NextFrame(c) <= NextFrame(k) + 1
            /\ k < c => NextFrame(c) <= NextFrame(k)
        BY <1>1, <1>10, <3>3, PositionFacts, EnqueueOrder DEF IInv
      <4>2. Turn(c)' = (IF c < k THEN 1 ELSE 0) - s
        BY <1>1, <2>1, <2>3, <3>3
      <4>3. CASE c < k
        BY <2>2, <2>3, <3>1, <4>1, <4>2, <4>3
      <4>4. CASE k < c
        BY <1>1, <2>2, <2>3, <3>1, <4>1, <4>2, <4>4
      <4> QED
        BY <1>1, <2>3, <3>3, <4>3, <4>4
    <3> QED
      BY <3>2, <3>3
  <2> QED
    BY <2>4, <2>5, <2>6
<1>13. HeardFront'
  <2>1. ASSUME NEW c \in Channel, heard[c] > 0
        PROVE  IF Done(c)' \/ getPc' = "idle"
               THEN removed'[c] = heard[c]
               ELSE ~IsEmpty(c)' /\ Head(queue'[c]) = heard[c]
    <3>1. c \in Nat
      BY DEF Channel
    <3>2. (Done(c)' \/ getPc' = "idle") <=> c <= k
      BY <1>1, <1>4, <3>1 DEF Done, Channel
    <3>3. IF c < k THEN removed[c] = heard[c]
          ELSE queue[c] # <<>> /\ Head(queue[c]) = heard[c]
      BY <1>1, <2>1 DEF IInv, HeardFront, Done, IsEmpty
    <3>4. CASE c = k
      BY <1>1, <1>3, <3>2, <3>3, <3>4
    <3>5. CASE c # k
      <4>1. removed'[c] = removed[c] /\ queue'[c] = queue[c] /\ (c < k <=> c <= k)
        BY <1>1, <1>2, <3>1, <3>5
      <4> QED
        BY <3>2, <3>3, <4>1 DEF IsEmpty
    <3> QED
      BY <3>4, <3>5
  <2> QED
    BY <1>1, <1>4, <2>1 DEF HeardFront
<1>14. MixSpread'
  BY <1>1 DEF IInv, MixSpread, emulation
<1> QED
  BY <1>8, <1>9, <1>12, <1>13, <1>14 DEF IInv

(* The steps that touch no queue.                                          *)
LEMMA OtherStep ==
  ASSUME IInv,
         \/ CountCycle \/ LatchSample \/ SignalReceived \/ BeginGetSample
         \/ PeekTest \/ UserInterface \/ UNCHANGED vars
  PROVE  IInv'
<1> USE NumChannelsAssumption, CyclesPerSampleAssumption
<1>1. /\ UNCHANGED <<queue, lost, removed>>
      /\ outputPc' \in {0, 1, outputPc}
  BY DEF CountCycle, LatchSample, SignalReceived, BeginGetSample, PeekTest, UserInterface,
         EnableFlip, ChannelEnableFlip, emulation, callback, flags, vars
<1>2. \A c \in Channel : NextFrame(c)' = NextFrame(c)
  <2>1. CASE SignalReceived
    BY <2>1 DEF SignalReceived, NextFrame, Channel, IInv, TypeOK
  <2>2. CASE LatchSample
    BY <2>2 DEF LatchSample, NextFrame, Channel
  <2>3. CASE UNCHANGED <<outputPc, received>>
    BY <2>3 DEF NextFrame
  <2> QED
    BY <2>1, <2>2, <2>3
    DEF CountCycle, BeginGetSample, PeekTest, UserInterface, EnableFlip,
        ChannelEnableFlip, emulation, flags, vars
<1>3. /\ QueueOrder'
      /\ \A c \in Channel : Pops(c)' = Pops(c) /\ Position(c)' = Position(c)
            /\ (IsEmpty(c)' <=> IsEmpty(c))
  BY <1>1, <1>2, QueuesKept DEF IInv, IsEmpty
<1>4. CASE UNCHANGED <<getPc, channel, heard>>
  <2>1. TypeOK'
    <3>1. CASE CountCycle
      BY <3>1 DEF CountCycle, callback, flags, IInv, TypeOK
    <3>2. CASE LatchSample
      BY <3>2 DEF LatchSample, callback, flags, IInv, TypeOK
    <3>3. CASE SignalReceived
      BY <3>3 DEF SignalReceived, callback, flags, IInv, TypeOK
    <3>4. CASE UserInterface
      BY <3>4 DEF UserInterface, EnableFlip, ChannelEnableFlip, emulation, callback,
                  IInv, TypeOK
    <3>5. CASE UNCHANGED vars
      BY <3>5 DEF vars, emulation, callback, flags, IInv, TypeOK
    <3>6. ~BeginGetSample
      BY <1>4 DEF BeginGetSample
    <3>7. ~PeekTest
      BY <1>4 DEF PeekTest, Advance, IInv, TypeOK, Channel
    <3> QED
      BY <3>1, <3>2, <3>3, <3>4, <3>5, <3>6, <3>7
  <2>2. \A c \in Channel : Turn(c)' = Turn(c) /\ (Done(c)' <=> Done(c))
    BY <1>4 DEF Turn, Done
  <2>3. Skew'
    BY <1>3, <2>2 DEF IInv, Skew
  <2>4. HeardFront'
    BY <1>1, <1>3, <1>4, <2>2 DEF IInv, TypeOK, HeardFront
  <2>5. MixSpread'
    BY <1>1, <1>4 DEF IInv, MixSpread
  <2> QED
    BY <1>3, <2>1, <2>3, <2>4, <2>5 DEF IInv
<1>5. CASE BeginGetSample
  <2>1. TypeOK' /\ HeardFront' /\ MixSpread'
    BY <1>5 DEF BeginGetSample, emulation, flags, IInv, TypeOK, HeardFront, MixSpread,
                Channel
  <2>2. \A c \in Channel : Turn(c)' = Turn(c)
    BY <1>5 DEF BeginGetSample, Turn, Done
  <2>3. Skew'
    BY <1>3, <2>2 DEF IInv, Skew
  <2> QED
    BY <1>3, <2>1, <2>3 DEF IInv
<1>6. CASE PeekTest
  <2>1. /\ getPc = "peek" /\ channel' \in Channel /\ getPc' \in {"peek", "read", "pop"}
        /\ getPc' = "pop" => channel' = 1
        /\ channel \in Channel
    <3>1. getPc = "peek" /\ channel \in Channel
      BY <1>6 DEF PeekTest, IInv, TypeOK
    <3>2. CASE channel' = channel /\ getPc' = "read"
      BY <3>1, <3>2
    <3>3. CASE channel < NumChannels /\ channel' = channel + 1 /\ getPc' = "peek"
      BY <3>1, <3>3 DEF Channel
    <3>4. CASE channel' = 1 /\ getPc' = "pop"
      BY <3>1, <3>4 DEF Channel
    <3> QED
      BY <1>6, <3>2, <3>3, <3>4 DEF PeekTest, Advance
  <2>2. TypeOK'
    BY <1>6, <2>1 DEF PeekTest, IInv, TypeOK, emulation, flags
  <2>3. \A c \in Channel : ~Done(c) /\ ~Done(c)'
    BY <2>1 DEF Done, Channel
  <2>4. Skew'
    BY <1>3, <2>3 DEF IInv, Skew, Turn
  <2>5. HeardFront'
    <3>1. \A c \in Channel : heard'[c] = heard[c] /\ queue'[c] = queue[c]
      BY <1>6 DEF PeekTest
    <3>2. getPc' \in {"peek", "read"} => channel' >= channel
      BY <1>6, <2>1 DEF PeekTest, Advance, Channel
    <3>3. getPc' = "read" => channel' = channel /\ ~IsEmpty(channel)
      BY <1>6 DEF PeekTest, Advance
    <3>4. \A c \in Channel : heard[c] > 0 => ~IsEmpty(c) /\ Head(queue[c]) = heard[c]
      BY <2>1, <2>3 DEF IInv, HeardFront
    <3>5. ASSUME getPc' \in {"peek", "read"}, NEW c \in Channel, c >= channel'
          PROVE  heard'[c] = 0
      <4>1. c >= channel
        BY <2>1, <3>2, <3>5 DEF Channel
      <4> QED
        BY <2>1, <3>1, <4>1 DEF IInv, HeardFront
    <3> QED
      BY <1>3, <2>1, <2>3, <3>1, <3>3, <3>4, <3>5 DEF HeardFront
  <2>6. MixSpread'
    BY <1>1, <1>6 DEF PeekTest, IInv, MixSpread
  <2> QED
    BY <1>3, <2>2, <2>4, <2>5, <2>6 DEF IInv
<1> QED
  BY <1>4, <1>5, <1>6 DEF CountCycle, LatchSample, SignalReceived, UserInterface,
       EnableFlip, ChannelEnableFlip, callback, vars

LEMMA NextIInv == IInv /\ [Next]_vars => IInv'
  BY EnqueueStep, PeekReadStep, PopStep, OtherStep DEF Next, RanCycles, GetSample

LEMMA SpecIInv == Spec => []IInv
  BY InitIInv, NextIInv, PTL DEF Spec

(* The variables of the hand-over keep their types, for every number of    *)
(* queues.                                                                 *)
THEOREM AdapterTypeCorrect == Spec => []TypeOK
<1>1. IInv => TypeOK
  BY DEF IInv
<1> QED
  BY <1>1, SpecIInv, PTL

(* The unlocked enqueues and pops put a queue at most one frame ahead of   *)
(* another, failed enqueues at most one frame each, however long the       *)
(* player runs and whichever enqueues fail; a drained queue is in step.    *)
THEOREM AdapterSkewBound == Spec => []SkewBound
<1>1. IInv => SkewBound
  BY SkewBounded DEF IInv
<1> QED
  BY <1>1, SpecIInv, PTL

(* One call of GetSample mixes frames that are no further apart than that. *)
THEOREM AdapterMixSpread == Spec => []MixSpread
<1>1. IInv => MixSpread
  BY DEF IInv
<1> QED
  BY <1>1, SpecIInv, PTL

(* The untested second peek always finds an element.                       *)
THEOREM AdapterNoNullDereference == Spec => []NoNullDereference
<1>1. IInv => NoNullDereference
  BY DEF IInv, HeardFront, NoNullDereference
<1> QED
  BY <1>1, SpecIInv, PTL

(* A frame mixed by a call is removed by that call.                        *)
THEOREM AdapterHeardIsRemoved == Spec => []HeardIsRemoved
<1>1. IInv => HeardIsRemoved
  BY DEF IInv, HeardFront, HeardIsRemoved
<1> QED
  BY <1>1, SpecIInv, PTL

-----------------------------------------------------------------------------
(* Below any number there are only finitely many numbers.                  *)
LEMMA LessIsWellFounded == IsWellFoundedOn({ss \in Nat \X Nat : ss[1] < ss[2]}, Nat)
<1>1. ASSUME NEW R, R = OpToRel(<, Nat)
      PROVE  IsWellFoundedOn(R, Nat) /\ R = {ss \in Nat \X Nat : ss[1] < ss[2]}
  <2>1. IsWellFoundedOn(R, Nat)
    BY <1>1, NatLessThanWellFounded
  <2>2. R = {ss \in Nat \X Nat : ss[1] < ss[2]}
    BY <1>1 DEF OpToRel
  <2> QED
    BY <2>1, <2>2
<1> QED
  BY <1>1

(* Induction over the naturals, without an operator as a parameter: a set  *)
(* that has 0 and with every number its successor has every number.        *)
LEMMA SetInduction ==
  ASSUME NEW S, 0 \in S, \A n \in Nat : n \in S => n + 1 \in S
  PROVE  Nat \subseteq S
<1> DEFINE T == Nat \ S
           R == {ss \in Nat \X Nat : ss[1] < ss[2]}
<1> SUFFICES ASSUME T # {} PROVE FALSE
  OBVIOUS
<1>1. IsWellFoundedOn(R, Nat)
  BY LessIsWellFounded
<1>2. \A y, z \in Nat : y < z => <<y, z>> \in R
  OBVIOUS
<1> HIDE DEF R
<1>3. PICK x \in T : \A y \in T : ~(<<y, x>> \in R)
  BY <1>1, WFMin
<1>4. x - 1 \in Nat /\ x - 1 < x /\ x - 1 + 1 = x
  OBVIOUS
<1>5. x - 1 \in S
  BY <1>2, <1>3, <1>4
<1>6. x \in S
  BY <1>4, <1>5
<1> QED
  BY <1>6

(* Steps(b, n) is where any sequence of blocks ends that starts in b and   *)
(* follows the links.                                                      *)
LEMMA StepsAlong ==
  ASSUME NEW b, NEW n \in Nat, NEW g,
         g = [k \in 0 .. n |-> IF k = 0 THEN b ELSE next[g[k - 1]]]
  PROVE  Steps(b, n) = g[n]
<1> DEFINE P(f) == f = [k \in 0 .. n |-> IF k = 0 THEN b ELSE next[f[k - 1]]]
           f == CHOOSE h : P(h)
           S == {k \in Nat : k <= n => f[k] = g[k]}
<1>1. Steps(b, n) = f[n]
  BY DEF Steps
<1>2. P(f)
  <2>1. P(g)
    OBVIOUS
  <2> QED
    BY <2>1
<1> HIDE DEF f
<1>3. \A k \in 0 .. n : /\ f[k] = IF k = 0 THEN b ELSE next[f[k - 1]]
                        /\ g[k] = IF k = 0 THEN b ELSE next[g[k - 1]]
  BY <1>2
<1>4. 0 \in S
  <2>1. 0 \in 0 .. n
    OBVIOUS
  <2> QED
    BY <2>1, <1>3
<1>5. ASSUME NEW k \in Nat, k \in S PROVE k + 1 \in S
  <2> SUFFICES ASSUME k + 1 <= n PROVE f[k + 1] = g[k + 1]
    OBVIOUS
  <2>1. k + 1 \in 0 .. n /\ k + 1 # 0 /\ k + 1 - 1 = k /\ f[k] = g[k]
    BY <1>5
  <2> QED
    BY <2>1, <1>3
<1>6. Nat \subseteq S
  <2> HIDE DEF S
  <2> QED
    BY <1>4, <1>5, SetInduction
<1> QED
  BY <1>1, <1>6

(* The concatenation of a single sequence is that sequence.                *)
LEMMA FlattenOne == ASSUME NEW s PROVE SE!FlattenSeq([n \in 1 .. 1 |-> s]) = s
<1> DEFINE u    == [n \in 1 .. 1 |-> s]
           P(f) == f = [i \in 1 .. Len(u) |-> IF i = 1 THEN u[i] ELSE f[i - 1] \o u[i]]
           f    == CHOOSE h : P(h)
<1>1. Len(u) = 1 /\ u[1] = s
  OBVIOUS
<1>2. SE!FlattenSeq(u) = f[Len(u)]
  BY <1>1 DEF SE!FlattenSeq
<1>3. P(f)
  <2>1. P([i \in 1 .. 1 |-> s])
    BY <1>1
  <2> QED
    BY <2>1
<1> HIDE DEF f
<1>4. f[1] = s
  BY <1>1, <1>3
<1> QED
  BY <1>1, <1>2, <1>4

-----------------------------------------------------------------------------
(* The blocks linked into the ring are the first N that were made.         *)
N == IF pPc = "link" THEN allocated - 1 ELSE allocated

(* In a circle of n slots: the slot after i, how far j is ahead of i, and  *)
(* j lies on the way from i to k.                                          *)
Step(n, i)          == IF i + 1 = n THEN 0 ELSE i + 1
Ahead(n, i, j)      == IF i <= j THEN j - i ELSE n + j - i
Between(n, i, j, k) == Ahead(n, i, j) + Ahead(n, j, k) = Ahead(n, i, k)

(* The elements block b holds, and whether it looks full to the producer.  *)
Used(b)      == Ahead(size[b], front[b], tail[b])
LooksFull(b) == Step(size[b], tail[b]) = localFront[b]

Full == {"full", "next", "writeNext", "alloc", "link", "advance"}

Typed ==
  /\ next \in [Block -> Nat] /\ size \in [Block -> Nat]
  /\ front \in [Block -> Nat] /\ tail \in [Block -> Nat]
  /\ localFront \in [Block -> Nat] /\ localTail \in [Block -> Nat]
  /\ allocated \in Block
  /\ largestBlockSize \in Nat /\ largestBlockSize > 1
  /\ pPc \in Full \cup {"idle", "front", "write", "publish"}
  /\ cPc \in {"idle", "slot", "tail", "tailBlock", "again", "next", "advance"}
  /\ cBlock \in Block
  /\ sent \in Nat
  /\ call \in {"none", "peek", "pop"}
  /\ emptyAtCall \in BOOLEAN

InOrder(b) ==
  /\ size[b] > 1
  /\ front[b] < size[b] /\ tail[b] < size[b]
  /\ localFront[b] < size[b] /\ localTail[b] < size[b]
  /\ Between(size[b], localFront[b], front[b], tail[b])
  /\ Between(size[b], front[b], localTail[b], tail[b])

Fresh(b) == front[b] = 0 /\ tail[b] = 0 /\ localFront[b] = 0 /\ localTail[b] = 0

Indices == \A b \in Block : IF b <= allocated THEN InOrder(b) ELSE Fresh(b)

Ring(at, t) ==
  /\ N \in Block /\ t \in 0 .. N - 1
  /\ at \in [0 .. N - 1 -> 1 .. N]
  /\ \A j, k \in 0 .. N - 1 : at[j] = at[k] => j = k
  /\ \A k \in 0 .. N - 1 : next[at[k]] = at[IF k = N - 1 THEN 0 ELSE k + 1]
  /\ at[0] = frontBlock /\ at[t] = tailBlock

Filled(at, t) ==
  \A k \in 1 .. N - 1 :
    /\ k < t => Used(at[k]) = size[at[k]] - 1
    /\ k = t => Used(at[k]) > 0
    /\ k > t => Used(at[k]) = IF pPc = "advance" /\ k = t + 1 THEN 1 ELSE 0

Producer(t) ==
  /\ pPc \in {"write", "publish"} => ~LooksFull(tailBlock)
  /\ pPc \in Full =>
       /\ LooksFull(tailBlock)
       /\ t > 0 => localFront[tailBlock] = front[tailBlock]
  /\ pPc \in {"next", "writeNext", "advance"} => t < N - 1
  /\ pPc = "writeNext" => localFront[next[tailBlock]] = front[next[tailBlock]]
  /\ pPc = "link" =>
       /\ next[allocated] = next[tailBlock]
       /\ front[allocated] = 0 /\ tail[allocated] = 1

Consumer(t) ==
  /\ cPc = "idle" <=> call = "none"
  /\ cPc = "slot" =>
       /\ front[cBlock] # tail[cBlock]
       /\ call = "pop" => cBlock = frontBlock /\ front[cBlock] # localTail[cBlock]
       /\ cBlock # frontBlock =>
            /\ t > 0 /\ cBlock = next[frontBlock]
            /\ front[frontBlock] = tail[frontBlock]
  /\ cPc \in {"tail", "tailBlock", "again", "next"} => cBlock = frontBlock
  /\ cPc \in {"again", "next", "advance"} => t > 0
  /\ cPc \in {"next", "advance"} => front[frontBlock] = tail[frontBlock]
  /\ cPc = "advance" =>
       call = "pop" /\ cBlock = next[frontBlock] /\ front[cBlock] # localTail[cBlock]
  /\ cPc = "tail" /\ ~emptyAtCall => t > 0 \/ front[frontBlock] # tail[frontBlock]
  /\ cPc = "tailBlock" /\ ~emptyAtCall => t > 0

Laid(at, t) == Ring(at, t) /\ Filled(at, t) /\ Producer(t) /\ Consumer(t)

QueueInv ==
  /\ Typed /\ Indices
  /\ \E at \in [0 .. N - 1 -> 1 .. N], t \in 0 .. N - 1 : Laid(at, t)

-----------------------------------------------------------------------------
(* What the assumptions on the constants come down to.                     *)
LEMMA Numbers ==
  /\ InitialSize \in Nat /\ InitialSize > 1 /\ MaxBlocks \in Nat /\ MaxBlocks > 0
  /\ MaxBlockSize \in Nat /\ MaxBlockSize >= InitialSize
BY InitialSizeAssumption, MaxBlockSizeAssumption, MaxBlocksAssumption

(* The remainder of a number below n, and of one between n and 2n.         *)
LEMMA ModSmall == ASSUME NEW n \in Nat, n > 0, NEW a \in 0 .. n - 1 PROVE a % n = a
OBVIOUS

LEMMA ModOnce == ASSUME NEW n \in Nat, n > 0, NEW a \in n .. n + n - 1 PROVE a % n = a - n
OBVIOUS

(* The index after i, computed with % in the model, is the next slot of    *)
(* the circle.                                                             *)
LEMMA AfterIs ==
  ASSUME NEW b, size[b] \in Nat, NEW i \in Nat, i < size[b]
  PROVE  After(b, i) = Step(size[b], i)
<1>1. CASE i + 1 = size[b]
  BY <1>1, ModOnce DEF After, Step
<1>2. CASE i + 1 # size[b]
  BY <1>2, ModSmall DEF After, Step
<1> QED
  BY <1>1, <1>2

(* Adding an element: as long as the tail does not run into the index x    *)
(* that lies behind the front f, it does not reach f either, the order x,  *)
(* f, tail is kept, and one more slot is used.                             *)
LEMMA TailMoves ==
  ASSUME NEW n \in Nat, NEW x \in Nat, NEW f \in Nat, NEW k \in Nat,
         n > 1, x < n, f < n, k < n, Between(n, x, f, k), Step(n, k) # x
  PROVE  /\ Between(n, x, f, Step(n, k)) /\ Step(n, k) # f
         /\ Ahead(n, f, Step(n, k)) = Ahead(n, f, k) + 1
         /\ Step(n, k) \in Nat /\ Step(n, k) < n
BY DEF Between, Ahead, Step

(* Taking an element: the front moves towards the tail, which leaves it    *)
(* ahead of x and uses one slot less.                                      *)
LEMMA FrontMoves ==
  ASSUME NEW n \in Nat, NEW x \in Nat, NEW f \in Nat, NEW k \in Nat,
         n > 1, x < n, f < n, k < n, Between(n, x, f, k), f # k
  PROVE  /\ Between(n, x, Step(n, f), k)
         /\ Ahead(n, Step(n, f), k) = Ahead(n, f, k) - 1
         /\ Step(n, f) \in Nat /\ Step(n, f) < n
BY DEF Between, Ahead, Step

(* A front that is not the shadow l of the tail keeps l between itself and *)
(* the tail when it moves on.                                              *)
LEMMA RearMoves ==
  ASSUME NEW n \in Nat, NEW f \in Nat, NEW l \in Nat, NEW k \in Nat,
         n > 1, f < n, l < n, k < n, Between(n, f, l, k), f # l
  PROVE  Between(n, Step(n, f), l, k)
BY DEF Between, Ahead, Step

(* Both ends of a stretch lie on it; it is empty when they are the same    *)
(* slot and holds all slots but one when the next one is the first again.  *)
LEMMA Ends ==
  ASSUME NEW n \in Nat, NEW f \in Nat, NEW k \in Nat, n > 1, f < n, k < n
  PROVE  /\ Between(n, f, f, k) /\ Between(n, f, k, k)
         /\ Ahead(n, f, k) \in 0 .. n - 1
         /\ Ahead(n, f, k) = 0 <=> f = k
         /\ Ahead(n, f, k) = n - 1 <=> Step(n, k) = f
         /\ Step(n, k) \in Nat /\ Step(n, k) < n /\ Step(n, k) # k
BY DEF Between, Ahead, Step

(* Where the blocks of the ring are: all of them are made, each place of   *)
(* the ring holds a block of its own, and what the links of the front and  *)
(* of the tail block lead to.                                              *)
LEMMA Where ==
  ASSUME Typed, NEW at, NEW t, Ring(at, t)
  PROVE  /\ N \in Block /\ N <= allocated /\ N \in Nat /\ t \in Nat /\ t <= N - 1
         /\ \A k \in 0 .. N - 1 : /\ at[k] \in Block /\ at[k] <= N
                                  /\ at[k] = frontBlock <=> k = 0
                                  /\ at[k] = tailBlock <=> k = t
         /\ frontBlock \in Block /\ frontBlock <= N /\ at[0] = frontBlock
         /\ tailBlock \in Block /\ tailBlock <= N /\ at[t] = tailBlock
         /\ next[tailBlock] = IF t = N - 1 THEN frontBlock ELSE at[t + 1]
         /\ next[frontBlock] = IF N = 1 THEN frontBlock ELSE at[1]
         /\ next[tailBlock] = frontBlock <=> t = N - 1
         /\ frontBlock = tailBlock <=> t = 0
         /\ next[tailBlock] \in Block /\ next[tailBlock] <= N
         /\ next[frontBlock] \in Block /\ next[frontBlock] <= N
         /\ frontBlock <= allocated /\ tailBlock <= allocated
         /\ next[tailBlock] <= allocated /\ next[frontBlock] <= allocated
<1>1. N \in Block /\ N <= allocated /\ N \in Nat /\ t \in Nat /\ t <= N - 1
  BY Numbers DEF Typed, Ring, N, Block
<1>2. 0 \in 0 .. N - 1 /\ t \in 0 .. N - 1
  BY <1>1
<1>3. \A k \in 0 .. N - 1 : at[k] \in Block /\ at[k] <= N
  BY <1>1, Numbers DEF Ring, Block
<1>4. at[0] = frontBlock /\ at[t] = tailBlock /\ (frontBlock = tailBlock <=> t = 0)
  BY <1>1, <1>2 DEF Ring
<1>5. next[tailBlock] = IF t = N - 1 THEN frontBlock ELSE at[t + 1]
  BY <1>1, <1>2 DEF Ring
<1>6. next[frontBlock] = IF N = 1 THEN frontBlock ELSE at[1]
  BY <1>1, <1>2 DEF Ring
<1>7. next[tailBlock] = frontBlock <=> t = N - 1
  <2>1. CASE t = N - 1
    BY <2>1, <1>5
  <2>2. CASE t # N - 1
    <3>1. t + 1 \in 0 .. N - 1 /\ t + 1 # 0
      BY <2>2, <1>1
    <3> QED
      BY <2>2, <3>1, <1>2, <1>5, <1>4 DEF Ring
  <2> QED
    BY <2>1, <2>2
<1>8. next[tailBlock] \in Block /\ next[tailBlock] <= N
  BY <1>1, <1>2, <1>3, <1>4, <1>5
<1>9. next[frontBlock] \in Block /\ next[frontBlock] <= N
  BY <1>1, <1>2, <1>3, <1>4, <1>6
<1>10. \A k \in 0 .. N - 1 : (at[k] = frontBlock <=> k = 0) /\ (at[k] = tailBlock <=> k = t)
  BY <1>2, <1>4 DEF Ring
<1>11. \A b \in Block : b <= N => b <= allocated
  BY <1>1, Numbers DEF Typed, Block
<1>12. frontBlock \in Block /\ frontBlock <= N /\ tailBlock \in Block /\ tailBlock <= N
  BY <1>1, <1>2, <1>3, <1>4
<1> QED
  BY <1>1, <1>2, <1>3, <1>4, <1>5, <1>6, <1>7, <1>8, <1>9, <1>10, <1>11, <1>12

(* The indices of a made block, their order and the number of elements     *)
(* between them.                                                           *)
LEMMA Slots ==
  ASSUME Typed, Indices, NEW b \in Block, b <= allocated
  PROVE  /\ size[b] \in Nat /\ size[b] > 1
         /\ front[b] \in Nat /\ front[b] < size[b]
         /\ tail[b] \in Nat /\ tail[b] < size[b]
         /\ localFront[b] \in Nat /\ localFront[b] < size[b]
         /\ localTail[b] \in Nat /\ localTail[b] < size[b]
         /\ Between(size[b], localFront[b], front[b], tail[b])
         /\ Between(size[b], front[b], localTail[b], tail[b])
         /\ NextTail(b) = Step(size[b], tail[b])
         /\ Step(size[b], tail[b]) \in Nat /\ Step(size[b], tail[b]) < size[b]
         /\ Used(b) \in Nat /\ Used(b) < size[b] /\ (Used(b) = 0 <=> front[b] = tail[b])
<1>1. /\ size[b] \in Nat /\ size[b] > 1
      /\ front[b] \in Nat /\ front[b] < size[b]
      /\ tail[b] \in Nat /\ tail[b] < size[b]
      /\ localFront[b] \in Nat /\ localFront[b] < size[b]
      /\ localTail[b] \in Nat /\ localTail[b] < size[b]
      /\ Between(size[b], localFront[b], front[b], tail[b])
      /\ Between(size[b], front[b], localTail[b], tail[b])
  BY DEF Typed, Indices, InOrder
<1>2. NextTail(b) = Step(size[b], tail[b])
  BY <1>1, AfterIs DEF NextTail
<1>3. Step(size[b], tail[b]) \in Nat /\ Step(size[b], tail[b]) < size[b]
  BY <1>1 DEF Step
<1>4. Used(b) \in Nat /\ Used(b) < size[b] /\ (Used(b) = 0 <=> front[b] = tail[b])
  BY <1>1 DEF Used, Ahead
<1> QED
  BY <1>1, <1>2, <1>3, <1>4

(* The consumer may trust its shadow of the tail: when the front is not    *)
(* there yet, the block has an element.                                    *)
LEMMA LocalTailBehind ==
  ASSUME Typed, Indices, NEW b \in Block, b <= allocated, front[b] # localTail[b]
  PROVE  front[b] # tail[b]
<1>1. /\ Between(size[b], front[b], localTail[b], tail[b])
      /\ size[b] \in Nat /\ front[b] \in Nat /\ localTail[b] \in Nat
      /\ localTail[b] < size[b] /\ front[b] < size[b]
  BY Slots
<1> QED
  BY <1>1 DEF Between, Ahead

(* A block none of whose indices changes stays as it was.                  *)
LEMMA SameBlock ==
  ASSUME NEW c, size'[c] = size[c], front'[c] = front[c], tail'[c] = tail[c],
         localFront'[c] = localFront[c], localTail'[c] = localTail[c]
  PROVE  (InOrder(c)' <=> InOrder(c)) /\ (Fresh(c)' <=> Fresh(c)) /\ Used(c)' = Used(c)
BY DEF InOrder, Fresh, Used, Between, Ahead

(* A step that moves indices of one block only leaves all blocks in order  *)
(* if it leaves that one in order.                                         *)
LEMMA OneBlockMoves ==
  ASSUME Indices, NEW b \in Block, b <= allocated, InOrder(b)', allocated' = allocated,
         size' = size,
         \A c \in Block \ {b} : /\ front'[c] = front[c] /\ tail'[c] = tail[c]
                               /\ localFront'[c] = localFront[c]
                               /\ localTail'[c] = localTail[c]
  PROVE  Indices' /\ \A c \in Block \ {b} : Used(c)' = Used(c)
<1>1. ASSUME NEW c \in Block \ {b}
      PROVE  (InOrder(c)' <=> InOrder(c)) /\ (Fresh(c)' <=> Fresh(c)) /\ Used(c)' = Used(c)
  BY SameBlock
<1>2. Indices'
  BY <1>1 DEF Indices
<1> QED
  BY <1>1, <1>2

(* When the tail block is not the front block, the block after the front   *)
(* block has an element.                                                   *)
LEMMA NextIsNotEmpty ==
  ASSUME Typed, Indices, NEW at, NEW t, Ring(at, t), Filled(at, t), t > 0
  PROVE  next[frontBlock] # frontBlock /\ front[next[frontBlock]] # tail[next[frontBlock]]
<1> DEFINE b == next[frontBlock]
<1>1. N > 1 /\ 1 \in 1 .. N - 1 /\ 1 \in 0 .. N - 1 /\ t \in Nat
  BY Where
<1>2. b \in Block /\ b <= allocated /\ b = at[1] /\ b # frontBlock
  BY <1>1, Where
<1>3. size[b] \in Nat /\ size[b] > 1
  BY <1>2, Slots
<1>4. CASE t = 1
  <2>1. Used(b) > 0
    BY <1>1, <1>2, <1>4 DEF Filled
  <2> QED
    BY <2>1, <1>2, Slots
<1>5. CASE t > 1
  <2>1. Used(b) = size[b] - 1
    BY <1>1, <1>2, <1>5 DEF Filled
  <2> QED
    BY <2>1, <1>2, <1>3, Slots
<1> QED
  BY <1>1, <1>4, <1>5

(* Following the links from the front block visits the blocks of the ring  *)
(* in the order of at.                                                     *)
LEMMA StepsAre ==
  ASSUME Typed, NEW at, NEW t, Ring(at, t), NEW n \in 0 .. N - 1
  PROVE  Steps(frontBlock, n) = at[n]
<1> DEFINE g == [k \in 0 .. n |-> at[k]]
<1>1. N \in Nat /\ at[0] = frontBlock /\ n \in Nat
  BY Where
<1>2. ASSUME NEW k \in 0 .. n
      PROVE  at[k] = IF k = 0 THEN frontBlock ELSE next[g[k - 1]]
  <2>1. CASE k = 0
    BY <2>1, <1>1
  <2>2. CASE k # 0
    <3>1. k - 1 \in 0 .. n /\ k - 1 \in 0 .. N - 1 /\ k - 1 # N - 1 /\ k - 1 + 1 = k
      BY <2>2, <1>1
    <3> QED
      BY <3>1, <2>2 DEF Ring
  <2> QED
    BY <2>1, <2>2
<1>3. g = [k \in 0 .. n |-> IF k = 0 THEN frontBlock ELSE next[g[k - 1]]]
  BY <1>2
<1>4. g[n] = at[n]
  BY <1>1
<1> HIDE DEF g
<1> QED
  BY <1>1, <1>3, <1>4, StepsAlong

(* The linked blocks are the first N, whatever the producer is doing.      *)
LEMMA LinkedAre ==
  ASSUME Typed, NEW at, NEW t, Ring(at, t)
  PROVE  Linked = 1 .. N /\ Cardinality(Linked) = N
<1>1. N \in Nat /\ N > 0
  BY Where DEF Block
<1>2. Linked = 1 .. N
  BY DEF Linked, Made, N, Typed, Block
<1> QED
  BY <1>1, <1>2, FS_Interval

(* The elements of the queue are those of the blocks at[0] to at[t], one   *)
(* after the other.                                                        *)
LEMMA ItemsAre ==
  ASSUME Typed, NEW at, NEW t, Ring(at, t)
  PROVE  Items = SE!FlattenSeq([n \in 1 .. t + 1 |-> Contents(at[n - 1])])
<1> DEFINE d == CHOOSE n \in 0 .. N - 1 : Steps(frontBlock, n) = tailBlock
<1>1. \A n \in 0 .. N - 1 : Steps(frontBlock, n) = at[n] /\ (at[n] = tailBlock <=> n = t)
  BY StepsAre, Where
<1>2. t \in 0 .. N - 1 /\ N \in Nat
  BY Where
<1>3. d = t
  BY <1>1, <1>2
<1>4. Items = SE!FlattenSeq([n \in 1 .. d + 1 |-> Contents(Steps(frontBlock, n - 1))])
  BY LinkedAre DEF Items
<1> HIDE DEF d
<1>5. [n \in 1 .. d + 1 |-> Contents(Steps(frontBlock, n - 1))]
        = [n \in 1 .. t + 1 |-> Contents(at[n - 1])]
  <2>1. \A n \in 1 .. t + 1 : n - 1 \in 0 .. N - 1
    BY <1>2
  <2>2. \A n \in 1 .. t + 1 : Steps(frontBlock, n - 1) = at[n - 1]
    BY <2>1, <1>1
  <2> QED
    BY <2>2, <1>3
<1> QED
  BY <1>4, <1>5

(* The number of elements, computed with % in the model, is the distance   *)
(* from the front to the tail.                                             *)
LEMMA CountIs ==
  ASSUME Typed, Indices, NEW b \in Block, b <= allocated
  PROVE  Count(b) = Used(b)
<1>1. /\ size[b] \in Nat /\ size[b] > 1 /\ front[b] \in Nat /\ front[b] < size[b]
      /\ tail[b] \in Nat /\ tail[b] < size[b]
  BY Slots
<1>2. CASE front[b] <= tail[b]
  <2>1. size[b] + tail[b] - front[b] \in size[b] .. size[b] + size[b] - 1
    BY <1>1, <1>2
  <2> QED
    BY <2>1, <1>1, <1>2, ModOnce DEF Count, Used, Ahead
<1>3. CASE front[b] > tail[b]
  <2>1. size[b] + tail[b] - front[b] \in 0 .. size[b] - 1
    BY <1>1, <1>3
  <2> QED
    BY <2>1, <1>1, <1>3, ModSmall DEF Count, Used, Ahead
<1> QED
  BY <1>1, <1>2, <1>3

-----------------------------------------------------------------------------
(* Each step of the producer keeps the invariant.  Here and in the next    *)
(* two the order of the ring stays as it is.                               *)
LEMMA BeginEnqueueKeeps == QueueInv /\ BeginEnqueue => QueueInv'
<1> SUFFICES ASSUME QueueInv, BeginEnqueue PROVE QueueInv'
  OBVIOUS
<1>1. PICK at \in [0 .. N - 1 -> 1 .. N], t \in 0 .. N - 1 : Laid(at, t)
  BY DEF QueueInv
<1> USE DEF BeginEnqueue, cVars, ring
<1>2. Typed /\ Indices /\ Ring(at, t) /\ Filled(at, t) /\ Producer(t) /\ Consumer(t)
  BY <1>1 DEF QueueInv, Laid
<1>3. N' = N
  BY DEF N
<1>4. IsFull(tailBlock, localFront[tailBlock]) <=> LooksFull(tailBlock)
  <2>1. tailBlock \in Block /\ tailBlock <= allocated
    BY <1>2, Where
  <2> QED
    BY <1>2, <2>1, Slots DEF IsFull, LooksFull
<1>5. Typed' /\ Indices'
  BY <1>2 DEF Typed, Indices, InOrder, Between, Ahead, Fresh
<1>6. Ring(at, t)' /\ Filled(at, t)' /\ Consumer(t)'
  BY <1>2, <1>3 DEF Ring, Filled, Used, Ahead, Consumer
<1>7. Producer(t)'
  BY <1>2, <1>3, <1>4 DEF Producer, LooksFull, Full, Step
<1> QED
  BY <1>3, <1>5, <1>6, <1>7 DEF QueueInv, Laid

LEMMA ReadFrontKeeps == QueueInv /\ ReadFront => QueueInv'
<1> SUFFICES ASSUME QueueInv, ReadFront PROVE QueueInv'
  OBVIOUS
<1>1. PICK at \in [0 .. N - 1 -> 1 .. N], t \in 0 .. N - 1 : Laid(at, t)
  BY DEF QueueInv
<1> USE DEF ReadFront, ReadFrontOr, cVars, ring
<1>2. Typed /\ Indices /\ Ring(at, t) /\ Filled(at, t) /\ Producer(t) /\ Consumer(t)
  BY <1>1 DEF QueueInv, Laid
<1>3. N' = N
  BY DEF N
<1>4. tailBlock \in Block /\ tailBlock <= allocated
  BY <1>2, Where
<1>5. InOrder(tailBlock) /\ localFront'[tailBlock] = front[tailBlock]
  BY <1>2, <1>4 DEF Typed, Indices
<1>6. IsFull(tailBlock, front[tailBlock])
        <=> Step(size[tailBlock], tail[tailBlock]) = front[tailBlock]
  BY <1>2, <1>4, Slots DEF IsFull
<1>7. Typed'
  BY <1>2 DEF Typed, Full
<1>8. InOrder(tailBlock)'
  <2>1. Between(size[tailBlock], front[tailBlock], front[tailBlock], tail[tailBlock])
    BY <1>2, <1>4, Slots, Ends
  <2> QED
    BY <2>1, <1>2, <1>4, <1>5 DEF Typed, InOrder, Between, Ahead
<1>9. Indices'
  BY <1>2, <1>8 DEF Typed, Indices, InOrder, Between, Ahead, Fresh
<1>10. Ring(at, t)' /\ Filled(at, t)' /\ Consumer(t)'
  BY <1>2, <1>3 DEF Ring, Filled, Used, Ahead, Consumer
<1>11. Producer(t)'
  BY <1>2, <1>3, <1>5, <1>6 DEF Producer, LooksFull, Full, Step
<1> QED
  BY <1>3, <1>7, <1>9, <1>10, <1>11 DEF QueueInv, Laid

LEMMA WriteKeeps == QueueInv /\ Write => QueueInv'
<1> SUFFICES ASSUME QueueInv, Write PROVE QueueInv'
  OBVIOUS
<1>1. PICK at \in [0 .. N - 1 -> 1 .. N], t \in 0 .. N - 1 : Laid(at, t)
  BY DEF QueueInv
<1> USE DEF Write, cVars, ring
<1>2. Typed /\ Indices /\ Ring(at, t) /\ Filled(at, t) /\ Producer(t) /\ Consumer(t)
  BY <1>1 DEF QueueInv, Laid
<1>3. N' = N
  BY DEF N
<1>4. Typed' /\ Indices'
  BY <1>2 DEF Typed, Indices, InOrder, Between, Ahead, Fresh
<1>5. Ring(at, t)' /\ Filled(at, t)' /\ Consumer(t)'
  BY <1>2, <1>3 DEF Ring, Filled, Used, Ahead, Consumer
<1>6. Producer(t)'
  BY <1>2, <1>3 DEF Producer, LooksFull, Full, Step
<1> QED
  BY <1>3, <1>4, <1>5, <1>6 DEF QueueInv, Laid

(* The tail may move on: localFront was found not to be the next slot, and *)
(* the front, which is ahead of localFront, is not there either.           *)
LEMMA PublishKeeps == QueueInv /\ Publish => QueueInv'
<1> SUFFICES ASSUME QueueInv, Publish PROVE QueueInv'
  OBVIOUS
<1>1. PICK at \in [0 .. N - 1 -> 1 .. N], t \in 0 .. N - 1 : Laid(at, t)
  BY DEF QueueInv
<1>2. Typed /\ Indices /\ Ring(at, t) /\ Filled(at, t) /\ Producer(t) /\ Consumer(t)
  BY <1>1 DEF QueueInv, Laid
<1> DEFINE b  == tailBlock
           to == Step(size[b], tail[b])
<1>3. b \in Block /\ b <= allocated
  BY <1>2, Where
<1>4. /\ pPc = "publish" /\ pPc' = "idle" /\ sent' = sent + 1
      /\ tail' = [tail EXCEPT ![b] = to]
      /\ UNCHANGED <<tailBlock, localFront, cVars, ring, localTail, data>>
  BY <1>2, <1>3, Slots DEF Publish
<1>5. to \in Nat /\ to < size[b]
  BY <1>2, <1>3, Slots
<1>6. to # localFront[b]
  BY <1>2, <1>4 DEF Producer, LooksFull
<1>7. /\ Between(size[b], localFront[b], front[b], to) /\ to # front[b]
      /\ Ahead(size[b], front[b], to) = Used(b) + 1
  BY <1>2, <1>3, <1>6, Slots, TailMoves DEF Used
<1>8. Between(size[b], front[b], localTail[b], to) /\ to # localTail[b]
  BY <1>2, <1>3, <1>7, Slots, TailMoves
<1> HIDE DEF to
<1> USE DEF cVars, ring
<1>9. N' = N
  BY <1>4 DEF N
<1>10. Typed'
  <2>1. tail' \in [Block -> Nat]
    BY <1>2, <1>4, <1>5 DEF Typed
  <2>2. sent' \in Nat
    BY <1>2, <1>4 DEF Typed
  <2>3. pPc' \in Full \cup {"idle", "front", "write", "publish"}
    BY <1>4
  <2> QED
    BY <2>1, <2>2, <2>3, <1>2, <1>4 DEF Typed
<1>11. InOrder(b)'
  BY <1>2, <1>3, <1>4, <1>5, <1>7, <1>8, Slots DEF InOrder, Between, Ahead, Typed
<1>12. Indices' /\ \A c \in Block \ {b} : Used(c)' = Used(c)
  BY <1>2, <1>3, <1>4, <1>11, OneBlockMoves DEF Typed
<1>13. Ring(at, t)'
  BY <1>2, <1>4, <1>9 DEF Ring
<1>14. Used(b)' = Used(b) + 1 /\ Used(b) \in Nat
  BY <1>2, <1>3, <1>4, <1>7, Slots DEF Typed, Used, Ahead
<1>16. Filled(at, t)'
  <2> SUFFICES ASSUME NEW k \in 1 .. N - 1
               PROVE  /\ k < t => Used(at[k])' = size[at[k]] - 1
                      /\ k = t => Used(at[k])' > 0
                      /\ k > t => Used(at[k])' = 0
    BY <1>4, <1>9 DEF Filled
  <2>1. at[k] \in Block /\ (at[k] = b <=> k = t)
    <3>1. k \in 0 .. N - 1
      BY <1>2, Where
    <3> QED
      BY <3>1, <1>2, Where
  <2> QED
    BY <2>1, <1>2, <1>4, <1>12, <1>14, Where DEF Filled
<1>17. Producer(t)'
  BY <1>4 DEF Producer, Full
<1>18. Consumer(t)'
  <2>1. tail'[b] = to /\ \A c \in Block \ {b} : tail'[c] = tail[c]
    BY <1>3, <1>4, <1>2 DEF Typed
  <2>2. t > 0 => tail'[frontBlock] = tail[frontBlock]
    BY <1>2, <2>1, Where
  <2>3. \A c \in Block : front[c] # tail[c] => front[c] # tail'[c]
    BY <1>7, <2>1
  <2>4. frontBlock = b \/ t > 0
    BY <1>2, Where
  <2>5. frontBlock \in Block /\ cBlock \in Block
    BY <1>2, Where DEF Typed
  <2> QED
    BY <2>2, <2>3, <2>4, <2>5, <1>2, <1>4 DEF Consumer
<1> QED
  BY <1>9, <1>10, <1>12, <1>13, <1>16, <1>17, <1>18 DEF QueueInv, Laid

LEMMA CheckNextKeeps == QueueInv /\ CheckNext => QueueInv'
<1> SUFFICES ASSUME QueueInv, CheckNext PROVE QueueInv'
  OBVIOUS
<1>1. PICK at \in [0 .. N - 1 -> 1 .. N], t \in 0 .. N - 1 : Laid(at, t)
  BY DEF QueueInv
<1>2. Typed /\ Indices /\ Ring(at, t) /\ Filled(at, t) /\ Producer(t) /\ Consumer(t)
  BY <1>1 DEF QueueInv, Laid
<1> USE DEF CheckNext, cVars, ring
<1>3. N' = N
  BY DEF N
<1>4. Typed' /\ Indices'
  BY <1>2 DEF Typed, Full, Indices, InOrder, Between, Ahead, Fresh
<1>5. Ring(at, t)' /\ Filled(at, t)' /\ Consumer(t)'
  BY <1>2, <1>3 DEF Ring, Filled, Used, Ahead, Consumer
<1>6. Producer(t)'
  BY <1>2, <1>3, Where DEF Producer, LooksFull, Full, Step
<1> QED
  BY <1>3, <1>4, <1>5, <1>6 DEF QueueInv, Laid

LEMMA AllocFailsKeeps == QueueInv /\ AllocFails => QueueInv'
<1> SUFFICES ASSUME QueueInv, AllocFails PROVE QueueInv'
  OBVIOUS
<1>1. PICK at \in [0 .. N - 1 -> 1 .. N], t \in 0 .. N - 1 : Laid(at, t)
  BY DEF QueueInv
<1>2. Typed /\ Indices /\ Ring(at, t) /\ Filled(at, t) /\ Producer(t) /\ Consumer(t)
  BY <1>1 DEF QueueInv, Laid
<1> USE DEF AllocFails, cVars, ring
<1>3. N' = N
  BY DEF N
<1>4. Typed' /\ Indices'
  BY <1>2 DEF Typed, Full, Indices, InOrder, Between, Ahead, Fresh
<1>5. Ring(at, t)' /\ Filled(at, t)' /\ Consumer(t)'
  BY <1>2, <1>3 DEF Ring, Filled, Used, Ahead, Consumer
<1>6. Producer(t)'
  BY <1>2, <1>3 DEF Producer, LooksFull, Full, Step
<1> QED
  BY <1>3, <1>4, <1>5, <1>6 DEF QueueInv, Laid

(* The block after the tail block is not the front block, so that it is    *)
(* empty and its front stays where it is.                                  *)
LEMMA ReadNextFrontKeeps == QueueInv /\ ReadNextFront => QueueInv'
<1> SUFFICES ASSUME QueueInv, ReadNextFront PROVE QueueInv'
  OBVIOUS
<1>1. PICK at \in [0 .. N - 1 -> 1 .. N], t \in 0 .. N - 1 : Laid(at, t)
  BY DEF QueueInv
<1>2. Typed /\ Indices /\ Ring(at, t) /\ Filled(at, t) /\ Producer(t) /\ Consumer(t)
  BY <1>1 DEF QueueInv, Laid
<1> DEFINE b == next[tailBlock]
<1> USE DEF ReadNextFront, cVars, ring
<1>3. N' = N
  BY DEF N
<1>4. b \in Block /\ b <= allocated /\ tailBlock \in Block
  BY <1>2, Where
<1>5. t < N - 1 /\ b # tailBlock /\ Used(b) = 0
  <2>1. t < N - 1
    BY <1>2 DEF Producer
  <2>2. t + 1 \in 1 .. N - 1 /\ t + 1 # t /\ t + 1 > t
    BY <1>2, <2>1, Where
  <2> QED
    BY <1>2, <2>1, <2>2, Where DEF Filled
<1>6. front[b] = tail[b]
  BY <1>2, <1>4, <1>5, Slots
<1>7. localFront'[b] = front[b] /\ \A c \in Block \ {b} : localFront'[c] = localFront[c]
  BY <1>2, <1>4 DEF Typed
<1>8. Typed'
  BY <1>2, <1>4 DEF Typed, Full
<1>9. InOrder(b)'
  <2>1. Between(size[b], front[b], front[b], tail[b])
    BY <1>2, <1>4, Slots, Ends
  <2> QED
    BY <2>1, <1>2, <1>4, <1>7 DEF Typed, Indices, InOrder, Between, Ahead
<1>10. Indices'
  BY <1>2, <1>4, <1>7, <1>9, OneBlockMoves
<1>11. Ring(at, t)' /\ Filled(at, t)' /\ Consumer(t)'
  BY <1>2, <1>3 DEF Ring, Filled, Used, Ahead, Consumer
<1>12. Producer(t)'
  BY <1>2, <1>3, <1>4, <1>5, <1>7 DEF Producer, LooksFull, Full, Step
<1> QED
  BY <1>3, <1>8, <1>10, <1>11, <1>12 DEF QueueInv, Laid

(* The consumer does not reach the block that gets the element: it lies    *)
(* behind the tail block in the ring.                                      *)
LEMMA WriteNextKeeps == QueueInv /\ WriteNext => QueueInv'
<1> SUFFICES ASSUME QueueInv, WriteNext PROVE QueueInv'
  OBVIOUS
<1>1. PICK at \in [0 .. N - 1 -> 1 .. N], t \in 0 .. N - 1 : Laid(at, t)
  BY DEF QueueInv
<1>2. Typed /\ Indices /\ Ring(at, t) /\ Filled(at, t) /\ Producer(t) /\ Consumer(t)
  BY <1>1 DEF QueueInv, Laid
<1> DEFINE b == next[tailBlock]
           to == Step(size[b], tail[b])
<1>3. b \in Block /\ b <= allocated /\ tailBlock \in Block
  BY <1>2, Where
<1>4. /\ pPc = "writeNext" /\ pPc' = "advance"
      /\ tail' = [tail EXCEPT ![b] = to]
      /\ UNCHANGED <<tailBlock, localFront, sent, cVars, ring, localTail>>
  BY <1>2, <1>3, Slots DEF WriteNext
<1>5. t < N - 1 /\ b # tailBlock /\ b # frontBlock /\ b = at[t + 1] /\ Used(b) = 0
  <2>1. t < N - 1
    BY <1>2, <1>4 DEF Producer
  <2>2. t + 1 \in 1 .. N - 1 /\ t + 1 # t /\ t + 1 > t
    BY <1>2, <2>1, Where
  <2> QED
    BY <1>2, <1>4, <2>1, <2>2, Where DEF Filled
<1>6. front[b] = tail[b] /\ localFront[b] = front[b] /\ to \in Nat /\ to < size[b]
  BY <1>2, <1>3, <1>4, <1>5, Slots DEF Producer
<1>7. to # front[b]
  BY <1>2, <1>3, <1>6, Slots DEF Step
<1>8. /\ Between(size[b], localFront[b], front[b], to)
      /\ Between(size[b], front[b], localTail[b], to)
      /\ Ahead(size[b], front[b], to) = 1
  BY <1>2, <1>3, <1>5, <1>6, <1>7, Slots, TailMoves DEF Used
<1> HIDE DEF to
<1> USE DEF cVars, ring
<1>9. N' = N
  BY <1>4 DEF N
<1>10. tail'[b] = to /\ \A c \in Block \ {b} : tail'[c] = tail[c]
  BY <1>2, <1>3, <1>4 DEF Typed
<1>11. Typed'
  <2>1. tail' \in [Block -> Nat]
    BY <1>2, <1>4, <1>6 DEF Typed
  <2>2. pPc' \in Full
    BY <1>4 DEF Full
  <2> QED
    BY <2>1, <2>2, <1>2, <1>4 DEF Typed
<1>12. InOrder(b)'
  BY <1>2, <1>3, <1>4, <1>6, <1>8, <1>10, Slots DEF InOrder, Between, Ahead
<1>13. Indices' /\ \A c \in Block \ {b} : Used(c)' = Used(c)
  BY <1>2, <1>3, <1>4, <1>10, <1>12, OneBlockMoves
<1>14. Used(b)' = 1
  BY <1>4, <1>8, <1>10 DEF Used, Ahead
<1>15. Ring(at, t)'
  BY <1>2, <1>4, <1>9 DEF Ring
<1>16. Filled(at, t)'
  <2> SUFFICES ASSUME NEW k \in 1 .. N - 1
               PROVE  /\ k < t => Used(at[k])' = size[at[k]] - 1
                      /\ k = t => Used(at[k])' > 0
                      /\ k > t => Used(at[k])' = IF k = t + 1 THEN 1 ELSE 0
    BY <1>4, <1>9 DEF Filled
  <2>1. at[k] \in Block /\ (at[k] = b <=> k = t + 1) /\ k \in Nat
    <3>1. k \in 0 .. N - 1 /\ t + 1 \in 0 .. N - 1
      BY <1>2, <1>5, Where
    <3>2. at[k] = b <=> k = t + 1
      BY <3>1, <1>2, <1>5 DEF Ring
    <3> QED
      BY <3>1, <3>2, <1>2, Where
  <2>2. t \in Nat
    BY <1>2, Where
  <2> QED
    BY <2>1, <2>2, <1>2, <1>4, <1>13, <1>14 DEF Filled
<1>17. Producer(t)'
  BY <1>2, <1>3, <1>4, <1>5, <1>9, <1>10 DEF Producer, LooksFull, Full, Step
<1>18. Consumer(t)'
  <2>1. tail'[frontBlock] = tail[frontBlock]
    BY <1>2, <1>5, <1>10, Where
  <2>2. \A c \in Block : front[c] # tail[c] => front[c] # tail'[c]
    BY <1>7, <1>10
  <2>3. frontBlock \in Block /\ cBlock \in Block
    BY <1>2, Where DEF Typed
  <2> QED
    BY <2>1, <2>2, <2>3, <1>2, <1>4 DEF Consumer
<1> QED
  BY <1>9, <1>11, <1>13, <1>15, <1>16, <1>17, <1>18 DEF QueueInv, Laid

(* The new block is not linked yet, so that nothing of the ring changes.   *)
LEMMA AllocKeeps == QueueInv /\ Alloc => QueueInv'
<1> SUFFICES ASSUME QueueInv, Alloc PROVE QueueInv'
  OBVIOUS
<1>1. PICK at \in [0 .. N - 1 -> 1 .. N], t \in 0 .. N - 1 : Laid(at, t)
  BY DEF QueueInv
<1>2. Typed /\ Indices /\ Ring(at, t) /\ Filled(at, t) /\ Producer(t) /\ Consumer(t)
  BY <1>1 DEF QueueInv, Laid
<1>b. PICK b \in Block : b = allocated + 1
  <2>1. allocated + 1 \in Block
    <3>1. allocated < MaxBlocks
      BY DEF Alloc
    <3>2. allocated \in 1 .. MaxBlocks
      BY <1>2 DEF Typed, Block
    <3> QED
      BY <3>1, <3>2, Numbers DEF Block
  <2> QED
    BY <2>1
<1> DEFINE newSize == IF largestBlockSize >= MaxBlockSize THEN largestBlockSize
                      ELSE largestBlockSize * 2
<1>3. b \in Block /\ tailBlock \in Block /\ tailBlock # b /\ frontBlock # b
  <2>1. b # allocated /\ b > allocated
    BY <1>2, <1>b DEF Typed, Block
  <2>2. \A c \in Block : c <= allocated => c # b
    BY <1>b, <1>2 DEF Typed, Block
  <2> QED
    BY <2>2, <1>2, Where
<1>4. /\ pPc = "alloc" /\ pPc' = "link" /\ allocated' = b
      /\ largestBlockSize' = newSize
      /\ size' = [size EXCEPT ![b] = newSize]
      /\ tail' = [tail EXCEPT ![b] = 1]
      /\ localTail' = [localTail EXCEPT ![b] = 1]
      /\ next' = [next EXCEPT ![b] = next[tailBlock]]
      /\ UNCHANGED <<tailBlock, localFront, sent, cVars>>
  BY <1>b DEF Alloc
<1>5. newSize \in Nat /\ newSize > 1
  BY <1>2, Numbers DEF Typed
<1> HIDE DEF newSize
<1> USE DEF cVars
<1>6. N' = N /\ N = allocated
  BY <1>2, <1>b, <1>4 DEF N, Typed, Block
<1>7. Typed'
  <2>1. size' \in [Block -> Nat] /\ tail' \in [Block -> Nat] /\ localTail' \in [Block -> Nat]
    BY <1>2, <1>4, <1>5 DEF Typed
  <2>2. next' \in [Block -> Nat]
    BY <1>2, <1>3, <1>4 DEF Typed
  <2>3. pPc' \in Full /\ allocated' \in Block /\ largestBlockSize' \in Nat /\ largestBlockSize' > 1
    BY <1>3, <1>4, <1>5 DEF Full
  <2> QED
    BY <2>1, <2>2, <2>3, <1>2, <1>4 DEF Typed
<1>8. /\ size'[b] = newSize /\ front'[b] = 0 /\ tail'[b] = 1
      /\ localFront'[b] = 0 /\ localTail'[b] = 1 /\ next'[b] = next[tailBlock]
  <2>1. ~(b <= allocated)
    BY <1>2, <1>b DEF Typed, Block
  <2>2. Fresh(b)
    BY <2>1, <1>2 DEF Indices
  <2> QED
    BY <2>2, <1>2, <1>4 DEF Typed, Fresh
<1>9. \A c \in Block \ {b} :
        /\ size'[c] = size[c] /\ front'[c] = front[c] /\ tail'[c] = tail[c]
        /\ localFront'[c] = localFront[c] /\ localTail'[c] = localTail[c]
        /\ next'[c] = next[c]
  BY <1>2, <1>3, <1>4 DEF Typed
<1>10. InOrder(b)'
  BY <1>5, <1>8 DEF InOrder, Between, Ahead
<1>11. \A c \in Block \ {b} :
         (InOrder(c)' <=> InOrder(c)) /\ (Fresh(c)' <=> Fresh(c)) /\ Used(c)' = Used(c)
  BY <1>9, SameBlock
<1>12. Indices'
  <2> SUFFICES ASSUME NEW c \in Block
               PROVE  IF c <= b THEN InOrder(c)' ELSE Fresh(c)'
    BY <1>4 DEF Indices
  <2>1. c # b => (c <= b <=> c <= allocated)
    BY <1>2, <1>b DEF Typed, Block
  <2>2. CASE c = b
    <3>1. InOrder(c)'
      BY <2>2, <1>10
    <3> QED
      BY <3>1, <2>2, <1>b, <1>2 DEF Typed, Block
  <2>3. CASE c # b
    BY <2>1, <2>3, <1>2, <1>11 DEF Indices
  <2> QED
    BY <2>2, <2>3
<1>13. \A k \in 0 .. N - 1 : at[k] \in Block \ {b}
  <2>1. \A c \in Block : c <= allocated => c # b
    BY <1>b, <1>2 DEF Typed, Block
  <2> QED
    BY <2>1, <1>2, <1>6, Where
<1>14. Ring(at, t)'
  BY <1>2, <1>4, <1>6, <1>9, <1>13 DEF Ring
<1>15. Filled(at, t)'
  <2> SUFFICES ASSUME NEW k \in 1 .. N - 1
               PROVE  /\ k < t => Used(at[k])' = size'[at[k]] - 1
                      /\ k = t => Used(at[k])' > 0
                      /\ k > t => Used(at[k])' = 0
    BY <1>4, <1>6 DEF Filled
  <2>1. k \in 0 .. N - 1
    BY <1>2, Where
  <2> QED
    BY <2>1, <1>2, <1>4, <1>9, <1>11, <1>13 DEF Filled
<1>16. Producer(t)'
  BY <1>2, <1>3, <1>4, <1>6, <1>8, <1>9 DEF Producer, LooksFull, Full, Step
<1>17. Consumer(t)'
  <2>1. /\ tail'[frontBlock] = tail[frontBlock] /\ next'[frontBlock] = next[frontBlock]
        /\ frontBlock \in Block
    BY <1>2, <1>3, <1>9, Where
  <2>2. cPc \in {"slot", "advance"} => cBlock # b
    <3>1. cPc \in {"slot", "advance"} => cBlock = frontBlock \/ cBlock = next[frontBlock]
      BY <1>2 DEF Consumer
    <3>2. next[frontBlock] \in Block /\ next[frontBlock] <= allocated
      BY <1>2, Where
    <3>3. \A c \in Block : c <= allocated => c # b
      BY <1>b, <1>2 DEF Typed, Block
    <3> QED
      BY <3>1, <3>2, <3>3, <1>3
  <2>3. cBlock # b => tail'[cBlock] = tail[cBlock] /\ localTail'[cBlock] = localTail[cBlock]
    BY <1>2, <1>9 DEF Typed
  <2> QED
    BY <2>1, <2>2, <2>3, <1>2, <1>4 DEF Consumer
<1> QED
  BY <1>6, <1>7, <1>12, <1>14, <1>15, <1>16, <1>17 DEF QueueInv, Laid

(* A new block comes into the ring at the place after the tail block:      *)
(* places up to t stay, those after it move one up.                        *)
LEMMA LinkRing ==
  ASSUME Typed, Link, NEW at, NEW t, Ring(at, t), Producer(t)
  PROVE  \E at2 \in [0 .. N -> 1 .. N + 1] :
           /\ \A k \in 0 .. N : k <= t => at2[k] = at[k]
           /\ at2[t + 1] = allocated
           /\ \A k \in 0 .. N : k > t + 1 => at2[k] = at[k - 1]
           /\ Ring(at2, t)'
<1> DEFINE b   == allocated
           to  == t + 1
<1>3. /\ pPc = "link" /\ pPc' = "advance" /\ next' = [next EXCEPT ![tailBlock] = b]
      /\ UNCHANGED <<tailBlock, tail, localFront, sent, cVars, size, allocated,
                     largestBlockSize, localTail>>
  BY DEF Link
<1> USE DEF cVars
<1>4. /\ N' = N + 1 /\ b = N + 1 /\ b \in Block /\ N \in Nat /\ N > 0
      /\ t \in Nat /\ t <= N - 1 /\ tailBlock \in Block
  <2>1. N' = allocated /\ N = allocated - 1 /\ b \in Block
    BY <1>3 DEF N, Typed
  <2>2. N \in Block /\ N \in Nat /\ t \in Nat /\ t <= N - 1 /\ tailBlock \in Block
    BY Where
  <2> QED
    BY <2>1, <2>2, Numbers DEF Block
<1>5. /\ next'[tailBlock] = b
      /\ \A c \in Block \ {tailBlock} : next'[c] = next[c]
  BY <1>4, <1>3 DEF Typed
<1>8. PICK at2 \in [0 .. N -> 1 .. N + 1] :
        /\ \A k \in 0 .. N : k <= t => at2[k] = at[k]
        /\ at2[to] = b
        /\ \A k \in 0 .. N : k > to => at2[k] = at[k - 1]
  <2> DEFINE new == [k \in 0 .. N |-> IF k <= t THEN at[k] ELSE IF k = to THEN b ELSE at[k - 1]]
  <2>1. \A k \in 0 .. N - 1 : at[k] \in 1 .. N
    BY DEF Ring
  <2>2. to \in 0 .. N
    BY <1>4
  <2>3. \A k \in 0 .. N : /\ k <= t => k \in 0 .. N - 1
                          /\ k > to => k - 1 \in 0 .. N - 1
    BY <1>4
  <2>4. \A k \in 0 .. N : new[k] \in 1 .. N + 1
    BY <2>1, <2>2, <2>3, <1>4
  <2>5. new \in [0 .. N -> 1 .. N + 1]
    BY <2>4
  <2>6. /\ \A k \in 0 .. N : k <= t => new[k] = at[k]
        /\ new[to] = b
        /\ \A k \in 0 .. N : k > to => new[k] = at[k - 1]
    BY <2>2, <1>4
  <2> QED
    BY <2>5, <2>6
<1>9. Ring(at2, t)'
  <2>1. N' \in Block /\ t \in 0 .. N' - 1 /\ at2 \in [0 .. N' - 1 -> 1 .. N']
    BY <1>4, <1>8
  <2>2. at2[0] = frontBlock' /\ at2[t] = tailBlock'
    <3>1. at[0] = frontBlock /\ at[t] = tailBlock
      BY Where
    <3>2. 0 \in 0 .. N /\ t \in 0 .. N /\ 0 <= t /\ t <= t
      BY <1>4
    <3>3. at2[0] = at[0] /\ at2[t] = at[t]
      BY <3>2, <1>8
    <3>4. frontBlock' = frontBlock /\ tailBlock' = tailBlock
      BY <1>3
    <3> QED
      BY <3>1, <3>3, <3>4
  <2>3. ASSUME NEW j \in 0 .. N, NEW k \in 0 .. N, at2[j] = at2[k] PROVE j = k
    <3>1. \A i \in 0 .. N - 1 : at[i] # b
      BY <1>4 DEF Ring
    <3>2. \A i \in 0 .. N : /\ i <= t => i \in 0 .. N - 1 /\ at2[i] = at[i]
                            /\ i > to => i - 1 \in 0 .. N - 1 /\ at2[i] = at[i - 1]
                            /\ i <= t \/ i = to \/ i > to
      BY <1>4, <1>8
    <3>3. \A i, l \in 0 .. N - 1 : at[i] = at[l] => i = l
      BY DEF Ring
    <3>4. CASE j = to \/ k = to
      BY <2>3, <3>1, <3>2, <3>4, <1>8
    <3>5. CASE j <= t /\ k <= t
      BY <2>3, <3>2, <3>3, <3>5
    <3>6. CASE j > to /\ k > to
      <4>1. j - 1 = k - 1
        BY <2>3, <3>2, <3>3, <3>6
      <4> QED
        BY <4>1
    <3>7. CASE (j <= t /\ k > to) \/ (j > to /\ k <= t)
      <4>1. (j <= t /\ j = k - 1) \/ (k <= t /\ k = j - 1)
        BY <2>3, <3>2, <3>3, <3>7
      <4> QED
        BY <4>1, <3>7, <1>4
    <3> QED
      BY <3>2, <3>4, <3>5, <3>6, <3>7
  <2>4. ASSUME NEW k \in 0 .. N PROVE next'[at2[k]] = at2[IF k = N THEN 0 ELSE k + 1]
    <3>1. CASE k < t
      <4>1. k \in 0 .. N - 1 /\ k + 1 \in 0 .. N /\ k # N - 1 /\ k + 1 <= t /\ k # N
        BY <3>1, <1>4
      <4>2. at[k] \in Block \ {tailBlock}
        BY <4>1, <3>1, <1>4, Where
      <4>3. next[at[k]] = at[k + 1]
        BY <4>1 DEF Ring
      <4>4. at2[k] = at[k] /\ at2[k + 1] = at[k + 1]
        BY <4>1, <3>1, <1>4, <1>8
      <4> QED
        BY <4>1, <4>2, <4>3, <4>4, <1>5
    <3>2. CASE k = t
      <4>1. k # N /\ at2[k] = tailBlock
        BY <3>2, <1>4, <1>8, Where
      <4> QED
        BY <4>1, <3>2, <1>5, <1>8
    <3>3. CASE k = to
      <4>1. next'[b] = next[tailBlock]
        BY <1>3, <1>4, <1>5, Where DEF Producer
      <4>2. CASE k = N
        BY <4>1, <4>2, <3>3, <1>4, <1>8, Where
      <4>3. CASE k # N
        <5>1. k + 1 \in 0 .. N /\ k + 1 > to /\ k + 1 - 1 = t + 1 /\ t # N - 1
          BY <4>3, <3>3, <1>4
        <5>2. next[tailBlock] = at[t + 1]
          BY <5>1, Where
        <5> QED
          BY <5>1, <5>2, <4>1, <4>3, <3>3, <1>8
      <4> QED
        BY <4>2, <4>3
    <3>4. CASE k > to
      <4>1. /\ k - 1 \in 0 .. N - 1 /\ k - 1 # t /\ (k - 1 = N - 1 <=> k = N)
            /\ at2[k] = at[k - 1] /\ k - 1 + 1 = k
        BY <3>4, <1>4, <1>8
      <4>2. at[k - 1] \in Block \ {tailBlock} /\ next[at[k - 1]] = at[IF k = N THEN 0 ELSE k]
        BY <4>1, Where DEF Ring
      <4>3. k # N => k + 1 \in 0 .. N /\ k + 1 > to /\ k + 1 - 1 = k
        BY <3>4, <1>4
      <4>4. at2[0] = at[0]
        BY <1>4, <1>8
      <4> QED
        BY <4>1, <4>2, <4>3, <4>4, <1>5, <1>8
    <3> QED
      BY <3>1, <3>2, <3>3, <3>4, <1>4
  <2>5. N' - 1 = N
    BY <1>4
  <2> QED
    BY <2>1, <2>2, <2>3, <2>4, <2>5 DEF Ring
<1> QED
  BY <1>8, <1>9

(* The places after the new block keep their elements, which are none.     *)
LEMMA LinkKeeps == QueueInv /\ Link => QueueInv'
<1> SUFFICES ASSUME QueueInv, Link PROVE QueueInv'
  OBVIOUS
<1>1. PICK at \in [0 .. N - 1 -> 1 .. N], t \in 0 .. N - 1 : Laid(at, t)
  BY DEF QueueInv
<1>2. Typed /\ Indices /\ Ring(at, t) /\ Filled(at, t) /\ Producer(t) /\ Consumer(t)
  BY <1>1 DEF QueueInv, Laid
<1> DEFINE b   == allocated
           to  == t + 1
<1>3. /\ pPc = "link" /\ pPc' = "advance" /\ next' = [next EXCEPT ![tailBlock] = b]
      /\ UNCHANGED <<tailBlock, tail, localFront, sent, cVars, size, allocated,
                     largestBlockSize, localTail>>
  BY DEF Link
<1> USE DEF cVars
<1>4. /\ N' = N + 1 /\ b = N + 1 /\ b \in Block /\ N \in Nat /\ N > 0
      /\ t \in Nat /\ t <= N - 1 /\ tailBlock \in Block
  <2>1. N' = allocated /\ N = allocated - 1 /\ b \in Block
    BY <1>2, <1>3 DEF N, Typed
  <2>2. N \in Block /\ N \in Nat /\ t \in Nat /\ t <= N - 1 /\ tailBlock \in Block
    BY <1>2, Where
  <2> QED
    BY <2>1, <2>2, Numbers DEF Block
<1>5. /\ next'[tailBlock] = b
      /\ \A c \in Block \ {tailBlock} : next'[c] = next[c]
  BY <1>2, <1>4, <1>3 DEF Typed
<1>6. Typed'
  <2>1. next' \in [Block -> Nat]
    BY <1>2, <1>3, <1>4 DEF Typed
  <2> QED
    BY <2>1, <1>2, <1>3 DEF Typed, Full
<1>7. Indices'
  BY <1>2, <1>3 DEF Indices, InOrder, Between, Ahead, Fresh
<1>8. PICK at2 \in [0 .. N -> 1 .. N + 1] :
        /\ \A k \in 0 .. N : k <= t => at2[k] = at[k]
        /\ at2[to] = b
        /\ \A k \in 0 .. N : k > to => at2[k] = at[k - 1]
        /\ Ring(at2, t)'
  BY <1>2, LinkRing
<1>9. Ring(at2, t)'
  BY <1>8
<1>10. \A c \in Block : Used(c)' = Used(c)
  BY <1>3 DEF Used, Ahead
<1>11. Used(b) = 1
  <2>1. front[b] = 0 /\ tail[b] = 1
    BY <1>2, <1>3 DEF Producer
  <2> QED
    BY <2>1 DEF Used, Ahead
<1>12. Filled(at2, t)'
  <2> SUFFICES ASSUME NEW k \in 1 .. N
               PROVE  /\ k < t => Used(at2[k])' = size[at2[k]] - 1
                      /\ k = t => Used(at2[k])' > 0
                      /\ k > t => Used(at2[k])' = IF k = t + 1 THEN 1 ELSE 0
    <3>1. N' - 1 = N
      BY <1>4
    <3> QED
      BY <3>1, <1>3 DEF Filled
  <2>1. at2[k] \in Block
    <3>1. k \in 0 .. N /\ 1 .. N + 1 \subseteq Block
      BY <1>4, Numbers DEF Block
    <3> QED
      BY <3>1, <1>8
  <2>2. k <= t => k \in 1 .. N - 1 /\ at2[k] = at[k]
    BY <1>4, <1>8
  <2>3. k > to => k - 1 \in 1 .. N - 1 /\ at2[k] = at[k - 1] /\ k - 1 > t
    BY <1>4, <1>8
  <2>4. Used(at2[k])' = Used(at2[k])
    BY <2>1, <1>10
  <2>5. CASE k <= t
    BY <2>2, <2>4, <2>5, <1>2, <1>4 DEF Filled
  <2>6. CASE k = to
    BY <2>4, <2>6, <1>4, <1>8, <1>11
  <2>7. CASE k > to
    BY <2>3, <2>4, <2>7, <1>2, <1>3, <1>4 DEF Filled
  <2> QED
    BY <2>5, <2>6, <2>7, <1>4
<1>13. Producer(t)'
  BY <1>2, <1>3, <1>4 DEF Producer, LooksFull, Full, Step
<1>14. Consumer(t)'
  <2>1. t > 0 => next'[frontBlock] = next[frontBlock]
    BY <1>2, <1>5, Where
  <2> QED
    BY <2>1, <1>2, <1>3 DEF Consumer
<1>15. at2 \in [0 .. N' - 1 -> 1 .. N'] /\ t \in 0 .. N' - 1
  BY <1>4, <1>8
<1> QED
  BY <1>6, <1>7, <1>9, <1>12, <1>13, <1>14, <1>15 DEF QueueInv, Laid

(* The block that the tail leaves is full: the producer found it full with *)
(* the front it had read, and no element has been taken since from a block *)
(* that is not the front block.                                            *)
LEMMA AdvanceTailKeeps == QueueInv /\ AdvanceTail => QueueInv'
<1> SUFFICES ASSUME QueueInv, AdvanceTail PROVE QueueInv'
  OBVIOUS
<1>1. PICK at \in [0 .. N - 1 -> 1 .. N], t \in 0 .. N - 1 : Laid(at, t)
  BY DEF QueueInv
<1>2. Typed /\ Indices /\ Ring(at, t) /\ Filled(at, t) /\ Producer(t) /\ Consumer(t)
  BY <1>1 DEF QueueInv, Laid
<1> DEFINE to == t + 1
<1>3. /\ pPc = "advance" /\ pPc' = "idle" /\ tailBlock' = next[tailBlock] /\ sent' = sent + 1
      /\ UNCHANGED <<tail, localFront, cVars, ring, localTail>>
  BY DEF AdvanceTail
<1> USE DEF cVars, ring
<1>4. N' = N /\ t < N - 1 /\ to \in 0 .. N - 1 /\ next[tailBlock] = at[to]
  <2>1. N' = N /\ t < N - 1
    BY <1>2, <1>3 DEF N, Producer
  <2> QED
    BY <2>1, <1>2, Where
<1>5. Typed' /\ Indices'
  <2>1. Typed'
    <3>1. sent' \in Nat /\ pPc' \in Full \cup {"idle", "front", "write", "publish"}
      BY <1>2, <1>3 DEF Typed
    <3> QED
      BY <3>1, <1>2, <1>3 DEF Typed
  <2>2. Indices'
    BY <1>2, <1>3 DEF Indices, InOrder, Between, Ahead, Fresh
  <2> QED
    BY <2>1, <2>2
<1>6. Ring(at, to)'
  BY <1>2, <1>3, <1>4 DEF Ring
<1>7. \A c \in Block : Used(c)' = Used(c)
  BY <1>3 DEF Used, Ahead
<1>8. t > 0 => Used(tailBlock) = size[tailBlock] - 1
  <2>1. tailBlock \in Block /\ tailBlock <= allocated
    BY <1>2, Where
  <2>2. t > 0 => Step(size[tailBlock], tail[tailBlock]) = front[tailBlock]
    BY <1>2, <1>3 DEF Producer, Full, LooksFull
  <2>3. t > 0 => Ahead(size[tailBlock], front[tailBlock], tail[tailBlock]) = size[tailBlock] - 1
    <3>1. /\ size[tailBlock] \in Nat /\ size[tailBlock] > 1
          /\ front[tailBlock] \in Nat /\ front[tailBlock] < size[tailBlock]
          /\ tail[tailBlock] \in Nat /\ tail[tailBlock] < size[tailBlock]
      BY <2>1, <1>2, Slots
    <3> QED
      BY <2>2, <3>1 DEF Ahead, Step
  <2> QED
    BY <2>3 DEF Used
<1>9. Filled(at, to)'
  <2> SUFFICES ASSUME NEW k \in 1 .. N - 1
               PROVE  /\ k < to => Used(at[k])' = size[at[k]] - 1
                      /\ k = to => Used(at[k])' > 0
                      /\ k > to => Used(at[k])' = 0
    BY <1>3, <1>4 DEF Filled
  <2>1. k \in 0 .. N - 1 /\ t \in Nat
    BY <1>2, Where
  <2>2. at[k] \in Block /\ (at[k] = tailBlock <=> k = t)
    BY <2>1, <1>2, Where
  <2> QED
    BY <2>1, <2>2, <1>2, <1>3, <1>7, <1>8 DEF Filled
<1>10. Producer(to)'
  BY <1>3 DEF Producer, Full
<1>11. Consumer(to)'
  <2>1. t \in Nat
    BY <1>2, Where
  <2> QED
    BY <2>1, <1>2, <1>3 DEF Consumer
<1> QED
  BY <1>4, <1>5, <1>6, <1>9, <1>10, <1>11 DEF QueueInv, Laid

(* Each step of the consumer keeps the invariant.                          *)
LEMMA ReadTailKeeps == QueueInv /\ ReadTail => QueueInv'
<1> SUFFICES ASSUME QueueInv, ReadTail PROVE QueueInv'
  OBVIOUS
<1>1. PICK at \in [0 .. N - 1 -> 1 .. N], t \in 0 .. N - 1 : Laid(at, t)
  BY DEF QueueInv
<1>2. Typed /\ Indices /\ Ring(at, t) /\ Filled(at, t) /\ Producer(t) /\ Consumer(t)
  BY <1>1 DEF QueueInv, Laid
<1> DEFINE b == frontBlock
<1> USE DEF ReadTail, ReadTailOr, pVars, ring
<1>3. N' = N
  BY DEF N
<1>4. b \in Block /\ b <= allocated
  BY <1>2, Where
<1>5. localTail'[b] = tail[b] /\ \A c \in Block \ {b} : localTail'[c] = localTail[c]
  BY <1>2, <1>4 DEF Typed
<1>6. Typed'
  <2>1. localTail' \in [Block -> Nat]
    BY <1>2, <1>4 DEF Typed
  <2> QED
    BY <2>1, <1>2 DEF Typed
<1>7. InOrder(b)'
  <2>1. Between(size[b], front[b], tail[b], tail[b])
    BY <1>2, <1>4, Slots, Ends
  <2> QED
    BY <2>1, <1>2, <1>4, <1>5 DEF Typed, Indices, InOrder, Between, Ahead
<1>8. Indices'
  BY <1>2, <1>4, <1>5, <1>7, OneBlockMoves
<1>9. Ring(at, t)' /\ Filled(at, t)' /\ Producer(t)'
  BY <1>2, <1>3 DEF Ring, Filled, Used, Ahead, Producer, LooksFull, Step, Full
<1>10. Consumer(t)'
  BY <1>2, <1>5 DEF Consumer
<1> QED
  BY <1>3, <1>6, <1>8, <1>9, <1>10 DEF QueueInv, Laid

LEMMA ReadTailAgainKeeps == QueueInv /\ ReadTailAgain => QueueInv'
<1> SUFFICES ASSUME QueueInv, ReadTailAgain PROVE QueueInv'
  OBVIOUS
<1>1. PICK at \in [0 .. N - 1 -> 1 .. N], t \in 0 .. N - 1 : Laid(at, t)
  BY DEF QueueInv
<1>2. Typed /\ Indices /\ Ring(at, t) /\ Filled(at, t) /\ Producer(t) /\ Consumer(t)
  BY <1>1 DEF QueueInv, Laid
<1> DEFINE b == frontBlock
<1> USE DEF ReadTailAgain, ReadTailOr, pVars, ring
<1>3. N' = N
  BY DEF N
<1>4. b \in Block /\ b <= allocated
  BY <1>2, Where
<1>5. localTail'[b] = tail[b] /\ \A c \in Block \ {b} : localTail'[c] = localTail[c]
  BY <1>2, <1>4 DEF Typed
<1>6. Typed'
  <2>1. localTail' \in [Block -> Nat]
    BY <1>2, <1>4 DEF Typed
  <2> QED
    BY <2>1, <1>2 DEF Typed
<1>7. InOrder(b)'
  <2>1. Between(size[b], front[b], tail[b], tail[b])
    BY <1>2, <1>4, Slots, Ends
  <2> QED
    BY <2>1, <1>2, <1>4, <1>5 DEF Typed, Indices, InOrder, Between, Ahead
<1>8. Indices'
  BY <1>2, <1>4, <1>5, <1>7, OneBlockMoves
<1>9. Ring(at, t)' /\ Filled(at, t)' /\ Producer(t)'
  BY <1>2, <1>3 DEF Ring, Filled, Used, Ahead, Producer, LooksFull, Step, Full
<1>10. Consumer(t)'
  BY <1>2, <1>5 DEF Consumer
<1> QED
  BY <1>3, <1>6, <1>8, <1>9, <1>10 DEF QueueInv, Laid

LEMMA ReadTailBlockKeeps == QueueInv /\ ReadTailBlock => QueueInv'
<1> SUFFICES ASSUME QueueInv, ReadTailBlock PROVE QueueInv'
  OBVIOUS
<1>1. PICK at \in [0 .. N - 1 -> 1 .. N], t \in 0 .. N - 1 : Laid(at, t)
  BY DEF QueueInv
<1>2. Typed /\ Indices /\ Ring(at, t) /\ Filled(at, t) /\ Producer(t) /\ Consumer(t)
  BY <1>1 DEF QueueInv, Laid
<1> USE DEF ReadTailBlock, ReadTailBlockOr, pVars, ring
<1>3. N' = N
  BY DEF N
<1>4. Typed'
  BY <1>2 DEF Typed
<1>5. Indices'
  BY <1>2 DEF Indices, InOrder, Between, Ahead, Fresh
<1>6. Ring(at, t)' /\ Filled(at, t)' /\ Producer(t)'
  BY <1>2, <1>3 DEF Ring, Filled, Used, Ahead, Producer, LooksFull, Step, Full
<1>7. Consumer(t)'
  BY <1>2, Where DEF Consumer
<1> QED
  BY <1>3, <1>4, <1>5, <1>6, <1>7 DEF QueueInv, Laid

(* The front block is empty and the queue goes on: the next block has an   *)
(* element that the consumer may use.                                      *)
LEMMA LookAtNextKeeps == QueueInv /\ LookAtNext => QueueInv'
<1> SUFFICES ASSUME QueueInv, LookAtNext PROVE QueueInv'
  OBVIOUS
<1>1. PICK at \in [0 .. N - 1 -> 1 .. N], t \in 0 .. N - 1 : Laid(at, t)
  BY DEF QueueInv
<1>2. Typed /\ Indices /\ Ring(at, t) /\ Filled(at, t) /\ Producer(t) /\ Consumer(t)
  BY <1>1 DEF QueueInv, Laid
<1> DEFINE b == next[frontBlock]
<1> USE DEF pVars, ring
<1>3. /\ cPc = "next" /\ cBlock' = b
      /\ IF call = "pop" THEN localTail' = [localTail EXCEPT ![b] = tail[b]] /\ cPc' = "advance"
         ELSE cPc' = "slot" /\ UNCHANGED localTail
      /\ UNCHANGED <<frontBlock, front, call, emptyAtCall, pVars, ring>>
  BY DEF LookAtNext
<1>4. N' = N
  BY <1>3 DEF N
<1>5. b \in Block /\ b <= allocated /\ b # frontBlock /\ front[b] # tail[b]
  BY <1>2, <1>3, Where, NextIsNotEmpty DEF Consumer
<1>6. /\ \A c \in Block \ {b} : localTail'[c] = localTail[c]
      /\ localTail'[b] \in {localTail[b], tail[b]}
      /\ call = "pop" => localTail'[b] = tail[b]
  BY <1>2, <1>3, <1>5 DEF Typed
<1>7. Typed'
  <2>1. localTail' \in [Block -> Nat]
    BY <1>2, <1>3, <1>5 DEF Typed
  <2> QED
    BY <2>1, <1>2, <1>3, <1>5 DEF Typed
<1>8. InOrder(b)'
  <2>1. Between(size[b], front[b], tail[b], tail[b]) /\ InOrder(b)
    BY <1>2, <1>5, Slots, Ends DEF Indices
  <2> QED
    BY <2>1, <1>3, <1>6 DEF InOrder, Between, Ahead
<1>9. Indices'
  BY <1>2, <1>3, <1>5, <1>6, <1>8, OneBlockMoves
<1>10. Ring(at, t)' /\ Filled(at, t)' /\ Producer(t)'
  BY <1>2, <1>3, <1>4 DEF Ring, Filled, Used, Ahead, Producer, LooksFull, Step, Full
<1>11. Consumer(t)'
  BY <1>2, <1>3, <1>5, <1>6 DEF Consumer
<1> QED
  BY <1>4, <1>7, <1>9, <1>10, <1>11 DEF QueueInv, Laid

(* Seen from the next block on, every block of the ring is one place       *)
(* nearer, and the front block left behind is the last one.                *)
LEMMA AdvanceFrontRing ==
  ASSUME Typed, AdvanceFront, NEW at, NEW t, Ring(at, t), Consumer(t)
  PROVE  /\ t > 0
         /\ \E at2 \in [0 .. N - 1 -> 1 .. N] :
              /\ \A k \in 0 .. N - 1 : k < N - 1 => at2[k] = at[k + 1]
              /\ at2[N - 1] = at[0]
              /\ Ring(at2, t - 1)'
<1> USE DEF pVars, ring
<1>3. /\ cPc = "advance" /\ cPc' = "slot" /\ frontBlock' = cBlock
      /\ UNCHANGED <<cBlock, front, call, emptyAtCall, pVars, ring, localTail>>
  BY DEF AdvanceFront
<1>4. N' = N
  BY <1>3 DEF N
<1>5. /\ t > 0 /\ N > 1 /\ N \in Nat /\ t \in Nat /\ t <= N - 1
      /\ cBlock = at[1] /\ call = "pop"
      /\ front[cBlock] # localTail[cBlock] /\ front[frontBlock] = tail[frontBlock]
  BY <1>3, Where DEF Consumer
<1>6. cBlock \in Block /\ cBlock <= allocated /\ frontBlock \in Block /\ frontBlock <= allocated
  BY <1>3, Where DEF Consumer
<1>9. PICK at2 \in [0 .. N - 1 -> 1 .. N] :
        /\ \A k \in 0 .. N - 1 : k < N - 1 => at2[k] = at[k + 1]
        /\ at2[N - 1] = at[0]
  <2> DEFINE new == [k \in 0 .. N - 1 |-> IF k < N - 1 THEN at[k + 1] ELSE at[0]]
  <2>1. \A k \in 0 .. N - 1 : k < N - 1 => k + 1 \in 0 .. N - 1
    BY <1>5
  <2>2. 0 \in 0 .. N - 1 /\ N - 1 \in 0 .. N - 1
    BY <1>5
  <2>3. new \in [0 .. N - 1 -> 1 .. N]
    BY <2>1, <2>2 DEF Ring
  <2>4. /\ \A k \in 0 .. N - 1 : k < N - 1 => new[k] = at[k + 1]
        /\ new[N - 1] = at[0]
    BY <2>2, <1>5
  <2> QED
    BY <2>3, <2>4
<1>10. \A k \in 0 .. N - 1 :
         IF k < N - 1 THEN at2[k] = at[k + 1] /\ k + 1 \in 1 .. N - 1
         ELSE at2[k] = at[0] /\ k = N - 1
  BY <1>5, <1>9
<1>11. Ring(at2, t - 1)'
  <2>1. t - 1 \in 0 .. N - 1 /\ at2[0] = cBlock /\ at2[t - 1] = tailBlock
    <3>1. /\ 0 \in 0 .. N - 1 /\ 0 < N - 1 /\ 0 + 1 = 1
          /\ t - 1 \in 0 .. N - 1 /\ t - 1 < N - 1 /\ t - 1 + 1 = t
      BY <1>5
    <3>2. at2[0] = at[1] /\ at2[t - 1] = at[t]
      BY <3>1, <1>9
    <3> QED
      BY <3>1, <3>2, <1>5, Where
  <2>2. ASSUME NEW j \in 0 .. N - 1, NEW k \in 0 .. N - 1, at2[j] = at2[k] PROVE j = k
    <3>1. \A i \in 1 .. N - 1 : at[i] # at[0]
      <4>1. \A i \in 1 .. N - 1 : i \in 0 .. N - 1 /\ i # 0
        BY <1>5
      <4> QED
        BY <4>1, Where
    <3>2. \A i, l \in 1 .. N - 1 : at[i] = at[l] => i = l
      BY <1>5 DEF Ring
    <3>3. CASE j < N - 1 /\ k < N - 1
      <4>1. j + 1 = k + 1
        BY <2>2, <3>2, <3>3, <1>10
      <4> QED
        BY <4>1
    <3>4. CASE ~(j < N - 1 /\ k < N - 1)
      BY <2>2, <3>1, <3>4, <1>10
    <3> QED
      BY <3>3, <3>4
  <2>3. ASSUME NEW k \in 0 .. N - 1 PROVE next[at2[k]] = at2[IF k = N - 1 THEN 0 ELSE k + 1]
    <3>1. CASE k = N - 1
      <4>1. at2[k] = at[0] /\ at2[0] = at[1] /\ next[at[0]] = at[1]
        <5>1. next[at[0]] = at[1]
          <6>1. at[0] = frontBlock /\ next[frontBlock] = IF N = 1 THEN frontBlock ELSE at[1]
            BY Where
          <6> QED
            BY <6>1, <1>5
        <5> QED
          BY <5>1, <3>1, <2>1, <1>5, <1>9
      <4> QED
        BY <4>1, <3>1
    <3>2. CASE k < N - 1
      <4>1. k + 1 \in 0 .. N - 1 /\ at2[k] = at[k + 1]
        BY <3>2, <1>5, <1>10
      <4>2. next[at[k + 1]] = at[IF k + 1 = N - 1 THEN 0 ELSE k + 2]
        BY <4>1 DEF Ring
      <4>3. CASE k + 1 = N - 1
        BY <4>1, <4>2, <4>3, <3>2, <1>9
      <4>4. CASE k + 1 < N - 1
        <5>1. at2[k + 1] = at[k + 2]
          BY <4>1, <4>4, <1>9
        <5> QED
          BY <5>1, <4>1, <4>2, <4>4, <3>2
      <4> QED
        BY <4>1, <4>3, <4>4, <1>5
    <3> QED
      BY <3>1, <3>2, <1>5
  <2> QED
    BY <2>1, <2>2, <2>3, <1>3, <1>4 DEF Ring
<1> QED
  BY <1>5, <1>9, <1>11

(* The emptied front block comes last, behind every block in use.          *)
LEMMA AdvanceFrontKeeps == QueueInv /\ AdvanceFront => QueueInv'
<1> SUFFICES ASSUME QueueInv, AdvanceFront PROVE QueueInv'
  OBVIOUS
<1>1. PICK at \in [0 .. N - 1 -> 1 .. N], t \in 0 .. N - 1 : Laid(at, t)
  BY DEF QueueInv
<1>2. Typed /\ Indices /\ Ring(at, t) /\ Filled(at, t) /\ Producer(t) /\ Consumer(t)
  BY <1>1 DEF QueueInv, Laid
<1> USE DEF pVars, ring
<1>3. /\ cPc = "advance" /\ cPc' = "slot" /\ frontBlock' = cBlock
      /\ UNCHANGED <<cBlock, front, call, emptyAtCall, pVars, ring, localTail>>
  BY DEF AdvanceFront
<1>4. N' = N
  BY <1>3 DEF N
<1>5. /\ t > 0 /\ N > 1 /\ N \in Nat /\ t \in Nat /\ t <= N - 1
      /\ cBlock = at[1] /\ call = "pop"
      /\ front[cBlock] # localTail[cBlock] /\ front[frontBlock] = tail[frontBlock]
  BY <1>2, <1>3, Where DEF Consumer
<1>6. cBlock \in Block /\ cBlock <= allocated /\ frontBlock \in Block /\ frontBlock <= allocated
  BY <1>2, <1>3, Where DEF Consumer
<1>7. Typed'
  BY <1>2, <1>3 DEF Typed
<1>8. Indices'
  BY <1>2, <1>3 DEF Indices, InOrder, Between, Ahead, Fresh
<1>9. PICK at2 \in [0 .. N - 1 -> 1 .. N] :
        /\ \A k \in 0 .. N - 1 : k < N - 1 => at2[k] = at[k + 1]
        /\ at2[N - 1] = at[0]
        /\ Ring(at2, t - 1)'
  BY <1>2, AdvanceFrontRing
<1>11. Ring(at2, t - 1)'
  BY <1>9
<1>12. Filled(at2, t - 1)'
  <2> SUFFICES ASSUME NEW k \in 1 .. N - 1
               PROVE  /\ k < t - 1 => Used(at2[k])' = size[at2[k]] - 1
                      /\ k = t - 1 => Used(at2[k])' > 0
                      /\ k > t - 1 => Used(at2[k])' = IF pPc = "advance" /\ k = t THEN 1 ELSE 0
    BY <1>3, <1>4, <1>5 DEF Filled
  <2>1. Used(at2[k])' = Used(at2[k])
    BY <1>3 DEF Used, Ahead
  <2>2. CASE k < N - 1
    <3>1. k \in 0 .. N - 1 /\ k + 1 \in 1 .. N - 1
      BY <2>2, <1>5
    <3>2. at2[k] = at[k + 1]
      BY <3>1, <2>2, <1>9
    <3>3. /\ k + 1 < t => Used(at[k + 1]) = size[at[k + 1]] - 1
          /\ k + 1 = t => Used(at[k + 1]) > 0
          /\ k + 1 > t => Used(at[k + 1]) = IF pPc = "advance" /\ k + 1 = t + 1 THEN 1 ELSE 0
      BY <3>1, <1>2 DEF Filled
    <3>4. (k + 1 < t <=> k < t - 1) /\ (k + 1 = t <=> k = t - 1) /\ (k + 1 > t <=> k > t - 1)
          /\ (k + 1 = t + 1 <=> k = t)
      <4>1. k \in Nat /\ t \in Nat
        BY <1>5
      <4> QED
        BY ONLY <4>1
    <3> QED
      BY <3>2, <3>3, <3>4, <2>1
  <2>3. CASE k = N - 1
    <3>1. k > t - 1 /\ ~(k < t - 1) /\ k # t - 1
      BY <2>3, <1>5
    <3>2. at2[k] = frontBlock
      BY <2>3, <1>2, <1>9, Where
    <3>3. Used(frontBlock) = 0
      BY <1>2, <1>5, <1>6, Slots
    <3>4. ~(pPc = "advance" /\ k = t)
      BY <2>3, <1>2 DEF Producer
    <3> QED
      BY <3>1, <3>2, <3>3, <3>4, <2>1
  <2> QED
    BY <2>2, <2>3, <1>5
<1>13. Producer(t - 1)'
  BY <1>2, <1>3, <1>4, <1>5 DEF Producer, LooksFull, Full, Step
<1>14. Consumer(t - 1)'
  <2>1. front[cBlock] # tail[cBlock]
    BY <1>2, <1>5, <1>6, LocalTailBehind
  <2> QED
    BY <2>1, <1>2, <1>3, <1>5 DEF Consumer
<1>15. at2 \in [0 .. N' - 1 -> 1 .. N'] /\ t - 1 \in 0 .. N' - 1
  BY <1>4, <1>5, <1>9
<1> QED
  BY <1>7, <1>8, <1>11, <1>12, <1>13, <1>14, <1>15 DEF QueueInv, Laid

(* The front of the block may move on; peek moves nothing.                 *)
LEMMA UseSlotKeeps == QueueInv /\ UseSlot => QueueInv'
<1> SUFFICES ASSUME QueueInv, UseSlot PROVE QueueInv'
  OBVIOUS
<1>1. PICK at \in [0 .. N - 1 -> 1 .. N], t \in 0 .. N - 1 : Laid(at, t)
  BY DEF QueueInv
<1>2. Typed /\ Indices /\ Ring(at, t) /\ Filled(at, t) /\ Producer(t) /\ Consumer(t)
  BY <1>1 DEF QueueInv, Laid
<1> DEFINE b  == cBlock
           to == Step(size[b], front[b])
<1> USE DEF pVars, ring
<1>3. /\ b \in Block /\ b <= allocated /\ front[b] # tail[b]
      /\ call = "pop" => b = frontBlock /\ front[b] # localTail[b]
  <2>1. /\ front[b] # tail[b]
        /\ call = "pop" => b = frontBlock /\ front[b] # localTail[b]
        /\ b = frontBlock \/ b = next[frontBlock]
    BY <1>2 DEF UseSlot, Consumer
  <2> QED
    BY <2>1, <1>2, Where
<1>4. /\ cPc = "slot" /\ cPc' = "idle" /\ call' = "none"
      /\ front' = IF call = "pop" THEN [front EXCEPT ![b] = to] ELSE front
      /\ UNCHANGED <<cBlock, frontBlock, emptyAtCall, pVars, ring, localTail>>
  BY <1>2, <1>3, Slots, AfterIs DEF UseSlot
<1>5. /\ Between(size[b], localFront[b], to, tail[b])
      /\ Ahead(size[b], to, tail[b]) = Used(b) - 1
      /\ to \in Nat /\ to < size[b]
  BY <1>2, <1>3, Slots, FrontMoves DEF Used
<1>6. call = "pop" => Between(size[b], to, localTail[b], tail[b])
  BY <1>2, <1>3, Slots, RearMoves
<1> HIDE DEF to
<1>7. N' = N
  BY <1>4 DEF N
<1>8. /\ front' \in [Block -> Nat]
      /\ front'[b] = IF call = "pop" THEN to ELSE front[b]
      /\ \A c \in Block \ {b} : front'[c] = front[c]
  BY <1>2, <1>3, <1>4, <1>5 DEF Typed
<1>9. Typed'
  BY <1>2, <1>4, <1>8 DEF Typed
<1>10. InOrder(b)'
  <2>1. InOrder(b)
    BY <1>2, <1>3 DEF Indices
  <2> QED
    BY <2>1, <1>4, <1>5, <1>6, <1>8 DEF InOrder, Between, Ahead
<1>11. Indices' /\ \A c \in Block \ {b} : Used(c)' = Used(c)
  BY <1>2, <1>3, <1>4, <1>8, <1>10, OneBlockMoves
<1>12. \A c \in Block \ {frontBlock} : front'[c] = front[c] /\ Used(c)' = Used(c)
  <2>1. CASE call = "pop"
    BY <2>1, <1>3, <1>8, <1>11
  <2>2. CASE call # "pop"
    BY <2>2, <1>4 DEF Used, Ahead
  <2> QED
    BY <2>1, <2>2
<1>13. Ring(at, t)'
  BY <1>2, <1>4, <1>7 DEF Ring
<1>14. Filled(at, t)'
  <2> SUFFICES ASSUME NEW k \in 1 .. N - 1
               PROVE  /\ k < t => Used(at[k])' = size[at[k]] - 1
                      /\ k = t => Used(at[k])' > 0
                      /\ k > t => Used(at[k])' = IF pPc = "advance" /\ k = t + 1 THEN 1 ELSE 0
    BY <1>4, <1>7 DEF Filled
  <2>1. at[k] \in Block \ {frontBlock}
    <3>1. k \in 0 .. N - 1 /\ k # 0
      BY <1>2, Where
    <3> QED
      BY <3>1, <1>2, Where
  <2> QED
    BY <2>1, <1>2, <1>12 DEF Filled
<1>15. Producer(t)'
  <2>1. t > 0 => front'[tailBlock] = front[tailBlock]
    BY <1>2, <1>12, Where
  <2>2. pPc = "writeNext" => front'[next[tailBlock]] = front[next[tailBlock]]
    <3>1. pPc = "writeNext" => t < N - 1
      BY <1>2 DEF Producer
    <3> QED
      BY <3>1, <1>2, <1>12, Where
  <2>3. pPc = "link" => allocated \in Block \ {frontBlock}
    <3>1. pPc = "link" => N # allocated /\ N \in Nat /\ N < allocated
      BY <1>2 DEF N, Typed, Block
    <3>2. frontBlock <= N /\ frontBlock \in Nat
      BY <1>2, Where DEF Block
    <3> QED
      BY <3>1, <3>2, <1>2 DEF Typed, Block
  <2>4. pPc = "link" => front'[allocated] = front[allocated]
    BY <2>3, <1>12
  <2> QED
    BY <2>1, <2>2, <2>4, <1>2, <1>4, <1>7 DEF Producer, LooksFull, Full, Step
<1>16. Consumer(t)'
  BY <1>4 DEF Consumer
<1> QED
  BY <1>7, <1>9, <1>11, <1>13, <1>14, <1>15, <1>16 DEF QueueInv, Laid

(* A queue whose only block in use is used up is empty.                    *)
LEMMA EmptyAtFront ==
  ASSUME Typed, Indices, NEW at, NEW t, Ring(at, t), t = 0, front[frontBlock] = tail[frontBlock]
  PROVE  Items = <<>>
<1>1. frontBlock \in Block /\ frontBlock <= allocated /\ at[0] = frontBlock
  BY Where
<1>2. Count(frontBlock) = 0
  BY <1>1, CountIs, Slots
<1>3. Contents(frontBlock) = <<>>
  BY <1>2 DEF Contents
<1>4. Items = SE!FlattenSeq([n \in 1 .. 1 |-> Contents(at[n - 1])])
  <2>1. t + 1 = 1
    OBVIOUS
  <2> QED
    BY <2>1, ItemsAre
<1>5. [n \in 1 .. 1 |-> Contents(at[n - 1])] = [n \in 1 .. 1 |-> Contents(frontBlock)]
  BY <1>1
<1> QED
  BY <1>3, <1>4, <1>5, FlattenOne

(* A call starts: unless the queue is empty there is an element in the     *)
(* front block or in one behind it.                                        *)
LEMMA BeginKeeps == ASSUME NEW op \in {"peek", "pop"}, QueueInv, Begin(op) PROVE QueueInv'
<1>1. PICK at \in [0 .. N - 1 -> 1 .. N], t \in 0 .. N - 1 : Laid(at, t)
  BY DEF QueueInv
<1>2. Typed /\ Indices /\ Ring(at, t) /\ Filled(at, t) /\ Producer(t) /\ Consumer(t)
  BY <1>1 DEF QueueInv, Laid
<1>3. /\ cPc = "idle" /\ call' = op /\ cBlock' = frontBlock
      /\ cPc' = IF front[frontBlock] # localTail[frontBlock] THEN "slot" ELSE "tail"
      /\ emptyAtCall' = (Items = <<>>)
      /\ UNCHANGED <<frontBlock, front, pVars, ring, localTail>>
  BY DEF Begin
<1>4. ~emptyAtCall' => t > 0 \/ front[frontBlock] # tail[frontBlock]
  <2>1. t = 0 /\ front[frontBlock] = tail[frontBlock] => Items = <<>>
    BY <1>2, EmptyAtFront
  <2>2. ~emptyAtCall' => Items # <<>>
    BY <1>3
  <2>3. t = 0 \/ t > 0
    BY <1>2, Where
  <2> QED
    BY <2>1, <2>2, <2>3
<1> USE DEF pVars, ring
<1>5. N' = N
  BY <1>3 DEF N
<1>6. frontBlock \in Block /\ frontBlock <= allocated
  BY <1>2, Where
<1>7. Typed'
  <2>1. emptyAtCall' \in BOOLEAN
    BY <1>3
  <2>2. call' \in {"none", "peek", "pop"} /\ cBlock' \in Block /\ cPc' \in {"slot", "tail"}
    BY <1>3, <1>6
  <2> QED
    BY <2>1, <2>2, <1>2, <1>3 DEF Typed
<1>8. Indices'
  BY <1>2, <1>3 DEF Indices, InOrder, Between, Ahead, Fresh
<1>9. Ring(at, t)' /\ Filled(at, t)' /\ Producer(t)'
  BY <1>2, <1>3, <1>5 DEF Ring, Filled, Used, Ahead, Producer, LooksFull, Step, Full
<1>10. Consumer(t)'
  <2>1. front[frontBlock] # localTail[frontBlock] => front[frontBlock] # tail[frontBlock]
    BY <1>2, <1>6, LocalTailBehind
  <2> QED
    BY <2>1, <1>3, <1>4 DEF Consumer
<1> QED
  BY <1>5, <1>7, <1>8, <1>9, <1>10 DEF QueueInv, Laid

(* One block, linked to itself.                                            *)
LEMMA InitQueueInv == QueueInit => QueueInv
<1> SUFFICES ASSUME QueueInit PROVE QueueInv
  OBVIOUS
<1> DEFINE at == [k \in 0 .. 0 |-> 1]
<1>1. N = 1 /\ 1 \in Block
  BY Numbers DEF QueueInit, N, Block
<1>2. Typed
  BY <1>1, Numbers DEF QueueInit, Typed, Full
<1>3. Indices
  BY <1>1, Numbers DEF QueueInit, Indices, InOrder, Fresh, Between, Used, Ahead, Block
<1>4. Ring(at, 0)
  BY <1>1 DEF QueueInit, Ring
<1>5. Filled(at, 0)
  BY <1>1 DEF Filled
<1>6. Producer(0) /\ Consumer(0)
  BY DEF QueueInit, Producer, Consumer, Full
<1>7. at \in [0 .. N - 1 -> 1 .. N] /\ 0 \in 0 .. N - 1
  BY <1>1
<1> QED
  BY <1>2, <1>3, <1>4, <1>5, <1>6, <1>7 DEF QueueInv, Laid

LEMMA UnchangedKeeps == QueueInv /\ UNCHANGED queueVars => QueueInv'
<1> SUFFICES ASSUME QueueInv, UNCHANGED queueVars PROVE QueueInv'
  OBVIOUS
<1>1. PICK at \in [0 .. N - 1 -> 1 .. N], t \in 0 .. N - 1 : Laid(at, t)
  BY DEF QueueInv
<1> USE DEF queueVars, pVars, cVars, ring
<1>2. N' = N
  BY DEF N
<1>3. Typed' /\ Indices'
  BY DEF QueueInv, Typed, Indices, InOrder, Between, Ahead, Fresh
<1>4. Laid(at, t)'
  BY <1>1, <1>2 DEF Laid, Ring, Filled, Used, Ahead, Producer, LooksFull, Step, Full, Consumer
<1> QED
  BY <1>2, <1>3, <1>4 DEF QueueInv

LEMMA NextQueueInv == QueueInv /\ [QueueNext]_queueVars => QueueInv'
<1>1. QueueInv /\ Produce => QueueInv'
  BY BeginEnqueueKeeps, ReadFrontKeeps, WriteKeeps, PublishKeeps, CheckNextKeeps,
     ReadNextFrontKeeps, WriteNextKeeps, AllocFailsKeeps, AllocKeeps, LinkKeeps,
     AdvanceTailKeeps DEF Produce
<1>2. QueueInv /\ Consume => QueueInv'
  BY BeginKeeps, ReadTailKeeps, ReadTailBlockKeeps, ReadTailAgainKeeps, LookAtNextKeeps,
     AdvanceFrontKeeps, UseSlotKeeps DEF Consume, Operate
<1> QED
  BY <1>1, <1>2, UnchangedKeeps DEF QueueNext

(* The invariant holds in every reachable state, for any sizes of the      *)
(* blocks, any number of them and any number of calls.                     *)
THEOREM QueueInvariant == QueueSpec => []QueueInv
BY InitQueueInv, NextQueueInv, PTL DEF QueueSpec

-----------------------------------------------------------------------------
(* The block ahead that the producer fills is empty, the block the         *)
(* consumer goes on to is not.                                             *)
LEMMA InvAssertionsHold == QueueInv => AssertionsHold
<1> SUFFICES ASSUME QueueInv PROVE AssertionsHold
  OBVIOUS
<1>1. PICK at \in [0 .. N - 1 -> 1 .. N], t \in 0 .. N - 1 : Laid(at, t)
  BY DEF QueueInv
<1>2. Typed /\ Indices /\ Ring(at, t) /\ Filled(at, t) /\ Producer(t) /\ Consumer(t)
  BY <1>1 DEF QueueInv, Laid
<1>3. ASSUME pPc = "writeNext" PROVE localFront[next[tailBlock]] = tail[next[tailBlock]]
  <2>1. t < N - 1 /\ localFront[next[tailBlock]] = front[next[tailBlock]]
    BY <1>2, <1>3 DEF Producer
  <2>2. t \in Nat /\ N \in Nat /\ next[tailBlock] = at[t + 1]
    <3>1. /\ t \in Nat /\ N \in Nat
          /\ next[tailBlock] = IF t = N - 1 THEN frontBlock ELSE at[t + 1]
      BY <1>2, Where
    <3> QED
      BY <2>1, <3>1
  <2>3. t + 1 \in 1 .. N - 1 /\ t + 1 > t
    BY <2>1, <2>2
  <2>4. Used(next[tailBlock]) = 0
    BY <2>2, <2>3, <1>2, <1>3 DEF Filled
  <2>5. front[next[tailBlock]] = tail[next[tailBlock]]
    BY <2>4, <1>2, Where, Slots
  <2> QED
    BY <2>1, <2>5
<1>4. ASSUME cPc = "next" PROVE front[next[frontBlock]] # tail[next[frontBlock]]
  BY <1>2, <1>4, NextIsNotEmpty DEF Consumer
<1> QED
  BY <1>3, <1>4 DEF AssertionsHold

(* The slot the consumer uses is taken, the one the producer writes is     *)
(* free.                                                                   *)
LEMMA InvNoSlotRace == QueueInv => NoSlotRace
<1> SUFFICES ASSUME QueueInv, pPc \in {"write", "writeNext"}, cPc = "slot"
             PROVE  LET b == IF pPc = "write" THEN tailBlock ELSE next[tailBlock]
                    IN  <<b, tail[b]>> # <<cBlock, front[cBlock]>>
  BY DEF NoSlotRace
<1>1. front[cBlock] # tail[cBlock]
  BY DEF QueueInv, Laid, Consumer
<1> QED
  BY <1>1

(* The blocks between front and tail block are full, those behind are      *)
(* empty.                                                                  *)
LEMMA InvBlocksUsedUp == QueueInv => BlocksUsedUp
<1> SUFFICES ASSUME QueueInv PROVE BlocksUsedUp
  OBVIOUS
<1>1. PICK at \in [0 .. N - 1 -> 1 .. N], t \in 0 .. N - 1 : Laid(at, t)
  BY DEF QueueInv
<1>2. Typed /\ Indices /\ Ring(at, t) /\ Filled(at, t) /\ Producer(t) /\ Consumer(t)
  BY <1>1 DEF QueueInv, Laid
<1> DEFINE d     == CHOOSE k \in 0 .. N - 1 : Steps(frontBlock, k) = tailBlock
           onWay == IF pPc = "advance" THEN {next[tailBlock]} ELSE {}
<1>3. \A k \in 0 .. N - 1 : /\ Steps(frontBlock, k) = at[k] /\ (at[k] = tailBlock <=> k = t)
                            /\ at[k] \in Block /\ at[k] <= allocated
  <2>1. \A k \in 0 .. N - 1 : Steps(frontBlock, k) = at[k]
    BY <1>2, StepsAre
  <2>2. \A c \in Block : c <= N => c <= allocated
    BY <1>2, Where DEF Block, Typed
  <2> QED
    BY <2>1, <2>2, <1>2, Where
<1>4. d = t
  BY <1>2, <1>3, Where
<1> HIDE DEF d
<1>5. ASSUME NEW k \in 1 .. N - 1
      PROVE  /\ k < t => Count(at[k]) = size[at[k]] - 1
             /\ k > t => Count(at[k]) = IF at[k] \in onWay THEN 1 ELSE 0
  <2>1. k \in 0 .. N - 1 /\ t \in Nat /\ t + 1 \in Nat
    BY <1>2, Where
  <2>2. Count(at[k]) = Used(at[k])
    BY <2>1, <1>2, <1>3, CountIs
  <2>3. at[k] \in onWay <=> pPc = "advance" /\ k = t + 1
    <3>1. CASE pPc = "advance"
      <4>1. t + 1 \in 0 .. N - 1 /\ next[tailBlock] = at[t + 1]
        <5>1. t < N - 1
          BY <3>1, <1>2 DEF Producer
        <5> QED
          BY <5>1, <1>2, Where
      <4>2. at[k] = at[t + 1] <=> k = t + 1
        BY <4>1, <2>1, <1>2 DEF Ring
      <4> QED
        BY <4>1, <4>2, <3>1
    <3>2. CASE pPc # "advance"
      BY <3>2
    <3> QED
      BY <3>1, <3>2
  <2> QED
    BY <2>2, <2>3, <1>2 DEF Filled
<1>6. Cardinality(Linked) = N
  BY <1>2, LinkedAre
<1>7. \A k \in 1 .. N - 1 : Steps(frontBlock, k) = at[k]
  BY <1>2, <1>3, Where
<1> HIDE DEF onWay
<1>8. \A k \in 1 .. N - 1 :
        LET b == Steps(frontBlock, k)
        IN  /\ k < d => Count(b) = size[b] - 1
            /\ k > d => Count(b) = IF b \in onWay THEN 1 ELSE 0
  BY <1>4, <1>5, <1>7
<1> QED
  BY <1>6, <1>8 DEF BlocksUsedUp, d, onWay

(* The assertions of the header hold whenever they are reached             *)
(* (readerwriterqueue.h:459, :317, :368).                                  *)
THEOREM QueueAssertionsHold == QueueSpec => []AssertionsHold
BY QueueInvariant, InvAssertionsHold, PTL

(* The producer and the consumer never touch the same slot at the same     *)
(* time: the synchronisation by front and tail alone is enough.            *)
THEOREM QueueNoSlotRace == QueueSpec => []NoSlotRace
BY QueueInvariant, InvNoSlotRace, PTL

(* The producer never leaves a block before it is full and never takes a   *)
(* new one while an empty one is in the ring.                              *)
THEOREM QueueBlocksUsedUp == QueueSpec => []BlocksUsedUp
BY QueueInvariant, InvBlocksUsedUp, PTL

-----------------------------------------------------------------------------
(* The concatenation of the first n sequences of g.                        *)
Cat(g, n) == SE!FlattenSeq([i \in 1 .. n |-> g[i]])

(* Concatenation is associative, for the sequences of numbers met here.    *)
LEMMA ConcatInAnyOrder == \A a, b, c \in Seq(Nat) : (a \o b) \o c = a \o (b \o c)
BY ConcatAssociative

(* Any function that appends the sequences one by one ends in their        *)
(* concatenation.                                                          *)
LEMMA CatIs ==
  ASSUME NEW g, NEW n \in Nat, n > 0, NEW h,
         h = [i \in 1 .. n |-> IF i = 1 THEN g[1] ELSE h[i - 1] \o g[i]]
  PROVE  Cat(g, n) = h[n]
<1> DEFINE u    == [i \in 1 .. n |-> g[i]]
           P(f) == f = [i \in 1 .. Len(u) |-> IF i = 1 THEN u[i] ELSE f[i - 1] \o u[i]]
           f    == CHOOSE x : P(x)
           S    == {k \in Nat : k + 1 <= n => f[k + 1] = h[k + 1]}
<1>1. Len(u) = n /\ \A i \in 1 .. n : u[i] = g[i]
  OBVIOUS
<1>2. Cat(g, n) = f[n]
  <2>1. Len(u) # 0
    BY <1>1
  <2>2. SE!FlattenSeq(u) = f[Len(u)]
    BY <2>1 DEF SE!FlattenSeq
  <2> QED
    BY <2>2, <1>1 DEF Cat
<1>3. P(f)
  <2>1. P(h)
    <3>1. [i \in 1 .. Len(u) |-> IF i = 1 THEN u[i] ELSE h[i - 1] \o u[i]]
            = [i \in 1 .. n |-> IF i = 1 THEN g[1] ELSE h[i - 1] \o g[i]]
      BY <1>1
    <3> QED
      BY <3>1
  <2> QED
    BY <2>1
<1> HIDE DEF f
<1>4. \A i \in 1 .. n : f[i] = IF i = 1 THEN g[1] ELSE f[i - 1] \o g[i]
  <2> HIDE DEF u
  <2>1. f = [i \in 1 .. n |-> IF i = 1 THEN u[i] ELSE f[i - 1] \o u[i]]
    BY <1>1, <1>3
  <2>2. \A i \in 1 .. n : f[i] = IF i = 1 THEN u[i] ELSE f[i - 1] \o u[i]
    BY <2>1
  <2> QED
    BY <2>2, <1>1
<1>5. \A i \in 1 .. n : h[i] = IF i = 1 THEN g[1] ELSE h[i - 1] \o g[i]
  OBVIOUS
<1>6. 0 \in S
  <2>1. 1 \in 1 .. n
    OBVIOUS
  <2>2. f[1] = h[1]
    BY <2>1, <1>4, <1>5
  <2> QED
    BY <2>2
<1>7. ASSUME NEW k \in Nat, k \in S PROVE k + 1 \in S
  <2> SUFFICES ASSUME k + 1 + 1 <= n PROVE f[k + 1 + 1] = h[k + 1 + 1]
    OBVIOUS
  <2>1. PICK m \in 1 .. n : m = k + 1 + 1 /\ m # 1 /\ m - 1 = k + 1
    OBVIOUS
  <2>2. f[m - 1] = h[m - 1]
    BY <2>1, <1>7
  <2>3. /\ f[m] = IF m = 1 THEN g[1] ELSE f[m - 1] \o g[m]
        /\ h[m] = IF m = 1 THEN g[1] ELSE h[m - 1] \o g[m]
    BY <1>4, <1>5
  <2>4. f[m] = h[m]
    BY <2>1, <2>2, <2>3, Zenon
  <2> QED
    BY <2>1, <2>4
<1>8. Nat \subseteq S
  <2>1. \A k \in Nat : k \in S => k + 1 \in S
    BY <1>7
  <2> HIDE DEF S
  <2> QED
    BY <1>6, <2>1, SetInduction
<1>9. n - 1 \in S /\ n - 1 + 1 = n
  <2>1. n - 1 \in Nat /\ n - 1 + 1 = n
    OBVIOUS
  <2> HIDE DEF S
  <2> QED
    BY <2>1, <1>8
<1> QED
  BY <1>2, <1>9

(* There is such a function.                                               *)
LEMMA CatExists ==
  ASSUME NEW g, NEW n \in Nat, n > 0
  PROVE  \E h : h = [i \in 1 .. n |-> IF i = 1 THEN g[1] ELSE h[i - 1] \o g[i]]
<1> DEFINE P(m, h) == h = [i \in 1 .. m |-> IF i = 1 THEN g[1] ELSE h[i - 1] \o g[i]]
           S       == {m \in Nat : \E h : P(m + 1, h)}
<1>1. 0 \in S
  <2>1. P(0 + 1, [i \in 1 .. 0 + 1 |-> g[1]])
    OBVIOUS
  <2> QED
    BY <2>1
<1>2. ASSUME NEW m \in Nat, m \in S PROVE m + 1 \in S
  <2>1. PICK h : P(m + 1, h)
    BY <1>2
  <2> DEFINE last == h[m + 1] \o g[m + 2]
             k    == [i \in 1 .. m + 2 |-> IF i < m + 2 THEN h[i] ELSE last]
  <2>2. \A i \in 1 .. m + 1 : h[i] = IF i = 1 THEN g[1] ELSE h[i - 1] \o g[i]
    BY <2>1
  <2>3. ASSUME NEW i \in 1 .. m + 2
        PROVE  k[i] = IF i = 1 THEN g[1] ELSE k[i - 1] \o g[i]
    <3>1. CASE i < m + 2
      <4>1. i \in 1 .. m + 1 /\ (i # 1 => i - 1 \in 1 .. m + 2 /\ i - 1 < m + 2)
        BY <3>1
      <4>2. k[i] = h[i] /\ (i # 1 => k[i - 1] = h[i - 1])
        BY <4>1, <3>1
      <4> QED
        BY <4>1, <4>2, <2>2
    <3>2. CASE i = m + 2
      <4>1. /\ m + 2 \in 1 .. m + 2 /\ m + 1 \in 1 .. m + 2 /\ m + 1 < m + 2
            /\ i - 1 = m + 1 /\ i # 1
        BY <3>2
      <4> HIDE DEF last
      <4>2. k[i] = last /\ k[m + 1] = h[m + 1]
        BY <4>1, <3>2
      <4> QED
        BY <4>1, <4>2, <3>2 DEF last
    <3> QED
      BY <3>1, <3>2
  <2>4. P(m + 1 + 1, k)
    <3> HIDE DEF last
    <3>1. k = [i \in 1 .. m + 2 |-> k[i]] /\ m + 1 + 1 = m + 2
      OBVIOUS
    <3> HIDE DEF k
    <3> QED
      BY <3>1, <2>3
  <2>5. m + 1 \in Nat
    OBVIOUS
  <2> HIDE DEF P
  <2> QED
    BY <2>4, <2>5, Zenon
<1>3. Nat \subseteq S
  <2>1. \A k \in Nat : k \in S => k + 1 \in S
    BY <1>2
  <2> HIDE DEF S
  <2> QED
    BY <1>1, <2>1, SetInduction
<1>4. n - 1 \in S /\ n - 1 + 1 = n
  <2>1. n - 1 \in Nat /\ n - 1 + 1 = n
    OBVIOUS
  <2> HIDE DEF S
  <2> QED
    BY <2>1, <1>3
<1> QED
  BY <1>4

(* The concatenation from its end: of one sequence, and of one more.       *)
LEMMA CatOne == ASSUME NEW g PROVE Cat(g, 1) = g[1]
<1>0. 1 \in Nat /\ 1 > 0 /\ 1 \in 1 .. 1
  OBVIOUS
<1>1. PICK h : h = [i \in 1 .. 1 |-> IF i = 1 THEN g[1] ELSE h[i - 1] \o g[i]]
  BY <1>0, CatExists
<1>2. h[1] = g[1]
  BY <1>1
<1> QED
  BY <1>0, <1>1, <1>2, CatIs

LEMMA CatNext ==
  ASSUME NEW g, NEW n \in Nat, n > 0
  PROVE  Cat(g, n + 1) = Cat(g, n) \o g[n + 1]
<1>6. n + 1 \in Nat /\ n + 1 > 0 /\ n + 1 \in 1 .. n + 1 /\ n + 1 # 1 /\ n + 1 - 1 = n
  OBVIOUS
<1>1. PICK h : h = [i \in 1 .. n + 1 |-> IF i = 1 THEN g[1] ELSE h[i - 1] \o g[i]]
  BY <1>6, CatExists
<1> DEFINE k == [i \in 1 .. n |-> h[i]]
<1>2. \A i \in 1 .. n + 1 : h[i] = IF i = 1 THEN g[1] ELSE h[i - 1] \o g[i]
  BY <1>1
<1>3. k = [i \in 1 .. n |-> IF i = 1 THEN g[1] ELSE k[i - 1] \o g[i]]
  <2> SUFFICES ASSUME NEW i \in 1 .. n
               PROVE  h[i] = IF i = 1 THEN g[1] ELSE k[i - 1] \o g[i]
    OBVIOUS
  <2>1. i \in 1 .. n + 1 /\ (i # 1 => i - 1 \in 1 .. n)
    OBVIOUS
  <2>2. i # 1 => k[i - 1] = h[i - 1]
    BY <2>1
  <2> HIDE DEF k
  <2> QED
    BY <2>1, <2>2, <1>2
<1>4. k[n] = h[n]
  OBVIOUS
<1> HIDE DEF k
<1>5. Cat(g, n) = h[n]
  BY <1>3, <1>4, CatIs
<1>7. Cat(g, n + 1) = h[n + 1]
  BY <1>1, <1>6, CatIs
<1>8. h[n + 1] = h[n] \o g[n + 1]
  <2>1. PICK m \in 1 .. n + 1 : m = n + 1 /\ m # 1 /\ m - 1 = n
    BY <1>6
  <2>2. h[m] = IF m = 1 THEN g[1] ELSE h[m - 1] \o g[m]
    BY <1>2
  <2> QED
    BY <2>1, <2>2
<1> QED
  BY <1>5, <1>7, <1>8

(* Sequences of numbers make a sequence of numbers.                        *)
LEMMA CatTyped ==
  ASSUME NEW n \in Nat, n > 0, NEW g, \A i \in 1 .. n : g[i] \in Seq(Nat)
  PROVE  Cat(g, n) \in Seq(Nat)
<1> DEFINE S == {k \in Nat : k + 1 <= n => Cat(g, k + 1) \in Seq(Nat)}
<1>1. 0 \in S
  <2>1. 1 \in 1 .. n /\ 0 + 1 = 1
    OBVIOUS
  <2> QED
    BY <2>1, CatOne
<1>2. ASSUME NEW k \in Nat, k \in S PROVE k + 1 \in S
  <2> SUFFICES ASSUME k + 1 + 1 <= n PROVE Cat(g, k + 1 + 1) \in Seq(Nat)
    OBVIOUS
  <2>1. k + 1 + 1 \in 1 .. n /\ k + 1 \in Nat /\ k + 1 > 0 /\ k + 1 <= n
    OBVIOUS
  <2>2. Cat(g, k + 1) \in Seq(Nat)
    BY <2>1, <1>2
  <2>3. Cat(g, k + 1 + 1) = Cat(g, k + 1) \o g[k + 1 + 1]
    BY <2>1, CatNext
  <2>4. g[k + 1 + 1] \in Seq(Nat)
    BY <2>1
  <2>5. Cat(g, k + 1) \o g[k + 1 + 1] \in Seq(Nat)
    BY <2>2, <2>4, ConcatProperties
  <2> QED
    BY <2>3, <2>5
<1>3. Nat \subseteq S
  <2>1. \A k \in Nat : k \in S => k + 1 \in S
    BY <1>2
  <2> HIDE DEF S
  <2> QED
    BY <1>1, <2>1, SetInduction
<1>4. n - 1 \in S /\ n - 1 + 1 = n
  <2>1. n - 1 \in Nat /\ n - 1 + 1 = n
    OBVIOUS
  <2> HIDE DEF S
  <2> QED
    BY <2>1, <1>3
<1> QED
  BY <1>4

(* The same sequences make the same concatenation.                         *)
LEMMA CatAlike ==
  ASSUME NEW n, NEW g, NEW h, \A i \in 1 .. n : g[i] = h[i]
  PROVE  Cat(g, n) = Cat(h, n)
<1>1. [i \in 1 .. n |-> g[i]] = [i \in 1 .. n |-> h[i]]
  OBVIOUS
<1> QED
  BY <1>1 DEF Cat

(* The concatenation from its beginning.                                   *)
LEMMA CatFirst ==
  ASSUME NEW n \in Nat, n > 0, NEW g, NEW h,
         \A i \in 1 .. n + 1 : g[i] \in Seq(Nat), \A i \in 1 .. n : h[i] = g[i + 1]
  PROVE  Cat(g, n + 1) = g[1] \o Cat(h, n)
<1> DEFINE S == {k \in Nat : k + 1 <= n => Cat(g, k + 2) = g[1] \o Cat(h, k + 1)}
<1>1. 0 \in S
  <2>1. 1 \in 1 .. n /\ 0 + 1 = 1 /\ 0 + 2 = 1 + 1
    OBVIOUS
  <2>2. Cat(g, 1 + 1) = Cat(g, 1) \o g[1 + 1]
    BY CatNext
  <2>3. Cat(g, 0 + 2) = g[1] \o Cat(h, 0 + 1)
    BY <2>1, <2>2, CatOne
  <2> QED
    BY <2>3
<1>2. ASSUME NEW k \in Nat, k \in S PROVE k + 1 \in S
  <2>0. k + 1 \in Nat
    OBVIOUS
  <2> SUFFICES ASSUME k + 1 + 1 <= n
               PROVE  Cat(g, k + 1 + 2) = g[1] \o Cat(h, k + 1 + 1)
    BY <2>0, Zenon
  <2>1. /\ k + 1 + 1 \in 1 .. n /\ k + 1 \in Nat /\ k + 1 > 0 /\ k + 1 <= n /\ 1 \in 1 .. n + 1
        /\ k + 2 \in Nat /\ k + 2 > 0 /\ k + 1 + 2 = k + 2 + 1 /\ k + 2 + 1 \in 1 .. n + 1
        /\ k + 1 + 1 + 1 = k + 2 + 1
    OBVIOUS
  <2>2. Cat(g, k + 2) = g[1] \o Cat(h, k + 1)
    BY <2>1, <1>2
  <2>3. Cat(g, k + 2 + 1) = Cat(g, k + 2) \o g[k + 2 + 1]
    BY <2>1, CatNext
  <2>4. Cat(h, k + 1 + 1) = Cat(h, k + 1) \o h[k + 1 + 1]
    BY <2>1, CatNext
  <2>5. h[k + 1 + 1] = g[k + 2 + 1]
    BY <2>1
  <2>6. g[1] \in Seq(Nat) /\ g[k + 2 + 1] \in Seq(Nat) /\ Cat(h, k + 1) \in Seq(Nat)
    <3>1. \A i \in 1 .. k + 1 : i \in 1 .. n /\ i + 1 \in 1 .. n + 1
      BY <2>1
    <3>2. \A i \in 1 .. k + 1 : h[i] \in Seq(Nat)
      BY <3>1
    <3> QED
      BY <3>2, <2>1, CatTyped
  <2>7. (g[1] \o Cat(h, k + 1)) \o g[k + 2 + 1] = g[1] \o (Cat(h, k + 1) \o g[k + 2 + 1])
    BY <2>6, ConcatInAnyOrder
  <2> QED
    BY <2>1, <2>2, <2>3, <2>4, <2>5, <2>7
<1>3. Nat \subseteq S
  <2>1. \A k \in Nat : k \in S => k + 1 \in S
    BY <1>2
  <2> HIDE DEF S
  <2> QED
    BY <1>1, <2>1, SetInduction
<1>4. n - 1 \in S /\ n - 1 + 1 = n /\ n - 1 + 2 = n + 1
  <2>1. n - 1 \in Nat /\ n - 1 + 1 = n /\ n - 1 + 2 = n + 1
    OBVIOUS
  <2> HIDE DEF S
  <2> QED
    BY <2>1, <1>3
<1> QED
  BY <1>4

(* The head and the tail of a concatenation are those of its first         *)
(* sequence, if that is not empty.                                         *)
LEMMA ConcatFirst ==
  ASSUME NEW s \in Seq(Nat), NEW r \in Seq(Nat), s # <<>>
  PROVE  s \o r # <<>> /\ Head(s \o r) = Head(s) /\ Tail(s \o r) = Tail(s) \o r
<1>1. Len(s) \in Nat /\ Len(r) \in Nat /\ Len(s) > 0
  BY EmptySeq, LenProperties
<1>2. /\ s \o r \in Seq(Nat) /\ Len(s \o r) = Len(s) + Len(r)
      /\ \A i \in 1 .. Len(s) + Len(r) :
           (s \o r)[i] = IF i <= Len(s) THEN s[i] ELSE r[i - Len(s)]
  BY ConcatProperties
<1>3. s \o r # <<>>
  BY <1>1, <1>2, EmptySeq
<1>4. Head(s \o r) = Head(s)
  <2>1. 1 \in 1 .. Len(s) + Len(r) /\ 1 <= Len(s)
    BY <1>1
  <2>2. (s \o r)[1] = s[1]
    BY <2>1, <1>2
  <2> QED
    BY <2>2
<1>5. /\ Tail(s) \in Seq(Nat) /\ Len(Tail(s)) = Len(s) - 1
      /\ \A i \in 1 .. Len(Tail(s)) : Tail(s)[i] = s[i + 1]
  BY HeadTailProperties
<1>6. /\ Tail(s \o r) \in Seq(Nat) /\ Len(Tail(s \o r)) = Len(s) + Len(r) - 1
      /\ \A i \in 1 .. Len(Tail(s \o r)) : Tail(s \o r)[i] = (s \o r)[i + 1]
  BY <1>2, <1>3, HeadTailProperties
<1>7. /\ Tail(s) \o r \in Seq(Nat) /\ Len(Tail(s) \o r) = Len(s) - 1 + Len(r)
      /\ \A i \in 1 .. Len(s) - 1 + Len(r) :
           (Tail(s) \o r)[i] = IF i <= Len(s) - 1 THEN Tail(s)[i] ELSE r[i - (Len(s) - 1)]
  BY <1>5, ConcatProperties
<1>8. ASSUME NEW i \in 1 .. Len(s) + Len(r) - 1
      PROVE  Tail(s \o r)[i] = (Tail(s) \o r)[i]
  <2>1. /\ i \in 1 .. Len(Tail(s \o r)) /\ i \in 1 .. Len(s) - 1 + Len(r)
        /\ i + 1 \in 1 .. Len(s) + Len(r) /\ (i + 1 <= Len(s) <=> i <= Len(s) - 1)
        /\ i + 1 - Len(s) = i - (Len(s) - 1)
    BY <1>1, <1>6
  <2>2. Tail(s \o r)[i] = IF i + 1 <= Len(s) THEN s[i + 1] ELSE r[i + 1 - Len(s)]
    BY <2>1, <1>2, <1>6
  <2>3. i <= Len(s) - 1 => Tail(s)[i] = s[i + 1]
    BY <2>1, <1>1, <1>5
  <2>4. (Tail(s) \o r)[i] = IF i <= Len(s) - 1 THEN Tail(s)[i] ELSE r[i - (Len(s) - 1)]
    BY <2>1, <1>7
  <2>5. i + 1 - Len(s) = i - (Len(s) - 1) => r[i + 1 - Len(s)] = r[i - (Len(s) - 1)]
    OBVIOUS
  <2> QED
    BY ONLY <2>1, <2>2, <2>3, <2>4, <2>5, Zenon
<1>9. Len(s) + Len(r) - 1 = Len(s) - 1 + Len(r)
  BY <1>1
<1>10. Tail(s \o r) = Tail(s) \o r
  BY <1>6, <1>7, <1>8, <1>9, SeqEqual
<1> QED
  BY <1>3, <1>4, <1>10

(* An element appended to the last sequence is appended to the whole.      *)
LEMMA CatGrows ==
  ASSUME NEW n \in Nat, n > 0, NEW g, NEW h, NEW x \in Nat,
         \A i \in 1 .. n : g[i] \in Seq(Nat),
         \A i \in 1 .. n - 1 : h[i] = g[i], h[n] = Append(g[n], x)
  PROVE  Cat(h, n) = Append(Cat(g, n), x)
<1>1. g[n] \in Seq(Nat) /\ h[n] = g[n] \o <<x>> /\ <<x>> \in Seq(Nat)
  <2>1. n \in 1 .. n
    OBVIOUS
  <2>2. g[n] \in Seq(Nat)
    BY <2>1
  <2> QED
    BY <2>2, AppendIsConcat
<1>2. CASE n = 1
  <2>1. Cat(h, n) = h[n] /\ Cat(g, n) = g[n]
    BY <1>2, CatOne
  <2> QED
    BY <2>1
<1>3. CASE n > 1
  <2>1. PICK m \in Nat : m > 0 /\ n = m + 1 /\ n - 1 = m
    <3>1. n - 1 \in Nat /\ n - 1 > 0 /\ n = n - 1 + 1
      BY <1>3
    <3> QED
      BY <3>1
  <2>2. Cat(h, n) = Cat(h, m) \o h[n] /\ Cat(g, n) = Cat(g, m) \o g[n]
    BY <2>1, CatNext
  <2>3. Cat(h, m) = Cat(g, m)
    BY <2>1, CatAlike
  <2>4. Cat(g, m) \in Seq(Nat)
    <3>1. \A i \in 1 .. m : g[i] \in Seq(Nat)
      <4>1. 1 .. m \subseteq 1 .. n
        BY <2>1
      <4> QED
        BY <4>1
    <3> QED
      BY <3>1, <2>1, CatTyped
  <2>5. Cat(h, n) = Cat(g, n) \o <<x>>
    <3>1. (Cat(g, m) \o g[n]) \o <<x>> = Cat(g, m) \o (g[n] \o <<x>>)
      BY <2>4, <1>1, ConcatInAnyOrder
    <3> QED
      BY <3>1, <2>2, <2>3, <1>1, Zenon
  <2>6. Cat(g, n) \in Seq(Nat)
    BY CatTyped
  <2> QED
    BY <2>5, <2>6, AppendIsConcat
<1> QED
  BY <1>2, <1>3

(* An element taken from the first sequence is taken from the whole.       *)
LEMMA CatTaken ==
  ASSUME NEW n \in Nat, n > 0, NEW g, NEW h,
         \A i \in 1 .. n : g[i] \in Seq(Nat), g[1] # <<>>,
         h[1] = Tail(g[1]), \A i \in 2 .. n : h[i] = g[i]
  PROVE  /\ Cat(g, n) # <<>> /\ Head(Cat(g, n)) = Head(g[1])
         /\ Cat(h, n) = Tail(Cat(g, n))
<1>1. g[1] \in Seq(Nat) /\ Tail(g[1]) \in Seq(Nat)
  <2>1. 1 \in 1 .. n
    OBVIOUS
  <2>2. g[1] \in Seq(Nat)
    BY <2>1
  <2> QED
    BY <2>2, HeadTailProperties
<1>2. CASE n = 1
  BY <1>2, CatOne
<1>3. CASE n > 1
  <2>1. PICK m \in Nat : m > 0 /\ n = m + 1
    <3>1. n - 1 \in Nat /\ n - 1 > 0 /\ n = n - 1 + 1
      BY <1>3
    <3> QED
      BY <3>1
  <2> DEFINE rest == [i \in 1 .. m |-> g[i + 1]]
  <2>2. \A i \in 1 .. m : rest[i] = g[i + 1] /\ i + 1 \in 2 .. n /\ i + 1 \in 1 .. n
    BY <2>1
  <2>3. \A i \in 1 .. m : rest[i] \in Seq(Nat) /\ rest[i] = h[i + 1]
    BY <2>2
  <2>4. \A i \in 1 .. m + 1 : h[i] \in Seq(Nat)
    <3>1. \A i \in 1 .. m + 1 : i = 1 \/ (i \in 2 .. n /\ i \in 1 .. n)
      BY <2>1
    <3> QED
      BY <3>1, <1>1
  <2> HIDE DEF rest
  <2>5. Cat(g, n) = g[1] \o Cat(rest, m)
    BY <2>1, <2>2, CatFirst
  <2>6. Cat(h, n) = h[1] \o Cat(rest, m)
    BY <2>1, <2>3, <2>4, CatFirst
  <2>7. Cat(rest, m) \in Seq(Nat)
    BY <2>1, <2>3, CatTyped
  <2> QED
    BY <2>5, <2>6, <2>7, <1>1, ConcatFirst
<1> QED
  BY <1>2, <1>3

(* An empty first sequence may as well be missing.                         *)
LEMMA CatSkips ==
  ASSUME NEW n \in Nat, n > 0, NEW g, NEW h,
         \A i \in 1 .. n + 1 : g[i] \in Seq(Nat), g[1] = <<>>,
         \A i \in 1 .. n : h[i] = g[i + 1]
  PROVE  Cat(g, n + 1) = Cat(h, n)
<1>1. Cat(g, n + 1) = g[1] \o Cat(h, n)
  BY CatFirst
<1>2. Cat(h, n) \in Seq(Nat)
  <2>1. \A i \in 1 .. n : i + 1 \in 1 .. n + 1
    OBVIOUS
  <2>2. \A i \in 1 .. n : h[i] \in Seq(Nat)
    BY <2>1
  <2> QED
    BY <2>2, CatTyped
<1> QED
  BY <1>1, <1>2, ConcatEmptySeq

-----------------------------------------------------------------------------
(* The elements from front f to tail k in the n slots d of a block.        *)
Held(d, n, f, k) == [i \in 1 .. Ahead(n, f, k) |-> d[(f + i - 1) % n]]

(* The slot i places after f in a circle of n.                             *)
LEMMA SlotIs ==
  ASSUME NEW n \in Nat, NEW f \in Nat, n > 1, f < n, NEW i \in Nat, i < n
  PROVE  /\ (f + i) % n = IF f + i < n THEN f + i ELSE f + i - n
         /\ (f + i) % n \in 0 .. n - 1
<1>1. CASE f + i < n
  BY <1>1, ModSmall
<1>2. CASE ~(f + i < n)
  BY <1>2, ModOnce
<1> QED
  BY <1>1, <1>2

(* The elements are numbers if the slots hold numbers, and there are as    *)
(* many as the indices are apart.                                          *)
LEMMA HeldTyped ==
  ASSUME NEW n \in Nat, NEW f \in Nat, NEW k \in Nat, n > 1, f < n, k < n,
         NEW d \in [0 .. n - 1 -> Nat]
  PROVE  Held(d, n, f, k) \in Seq(Nat) /\ Len(Held(d, n, f, k)) = Ahead(n, f, k)
<1>1. Ahead(n, f, k) \in 0 .. n - 1
  BY Ends
<1>2. ASSUME NEW i \in 1 .. Ahead(n, f, k) PROVE d[(f + i - 1) % n] \in Nat
  <2>1. i - 1 \in Nat /\ i - 1 < n /\ f + (i - 1) = f + i - 1
    BY <1>1
  <2>2. (f + (i - 1)) % n \in 0 .. n - 1
    BY <2>1, SlotIs
  <2> QED
    BY <2>1, <2>2
<1> DEFINE a == Ahead(n, f, k)
<1>3. Held(d, n, f, k) = [i \in 1 .. a |-> d[(f + i - 1) % n]]
  BY DEF Held
<1>4. a \in Nat /\ \A i \in 1 .. a : d[(f + i - 1) % n] \in Nat
  BY <1>1, <1>2
<1> HIDE DEF a
<1>5. [i \in 1 .. a |-> d[(f + i - 1) % n]] \in [1 .. a -> Nat]
  BY <1>4
<1>6. Held(d, n, f, k) \in Seq(Nat) /\ Len(Held(d, n, f, k)) = a
  BY <1>3, <1>4, <1>5
<1> QED
  BY <1>6 DEF a

(* Equal indices mean an empty block.                                      *)
LEMMA HeldNothing == ASSUME NEW d, NEW n, NEW f \in Nat PROVE Held(d, n, f, f) = <<>>
<1>1. Ahead(n, f, f) = 0
  BY DEF Ahead
<1> QED
  BY <1>1 DEF Held

(* What is in the slot of the tail is not an element yet.                  *)
LEMMA HeldAfterWrite ==
  ASSUME NEW n \in Nat, NEW f \in Nat, NEW k \in Nat, n > 1, f < n, k < n,
         NEW d, NEW e, \A i \in 0 .. n - 1 : i # k => e[i] = d[i]
  PROVE  Held(e, n, f, k) = Held(d, n, f, k)
<1>1. Ahead(n, f, k) \in 0 .. n - 1
  BY Ends
<1>2. ASSUME NEW i \in 1 .. Ahead(n, f, k) PROVE e[(f + i - 1) % n] = d[(f + i - 1) % n]
  <2>1. i - 1 \in Nat /\ i - 1 < n /\ f + (i - 1) = f + i - 1
    BY <1>1
  <2>2. (f + (i - 1)) % n \in 0 .. n - 1
    BY <2>1, SlotIs
  <2>3. (f + (i - 1)) % n = IF f + (i - 1) < n THEN f + (i - 1) ELSE f + (i - 1) - n
    BY <2>1, SlotIs
  <2>4. (f + (i - 1)) % n # k
    BY <2>3, <1>1 DEF Ahead
  <2> QED
    BY <2>1, <2>2, <2>4
<1> QED
  BY <1>2 DEF Held

(* A tail that moves on adds what is in its slot.                          *)
LEMMA HeldGrows ==
  ASSUME NEW n \in Nat, NEW f \in Nat, NEW k \in Nat, n > 1, f < n, k < n,
         NEW d \in [0 .. n - 1 -> Nat], Step(n, k) # f
  PROVE  Held(d, n, f, Step(n, k)) = Append(Held(d, n, f, k), d[k])
<1> DEFINE a == Ahead(n, f, k)
           s == Held(d, n, f, k)
           u == Held(d, n, f, Step(n, k))
<1>1. a \in Nat /\ a < n /\ Ahead(n, f, Step(n, k)) = a + 1
  BY DEF Ahead, Step
<1>2. (f + a) % n = k
  <2>1. (f + a) % n = IF f + a < n THEN f + a ELSE f + a - n
    BY <1>1, SlotIs
  <2> QED
    BY <2>1 DEF Ahead
<1>3. s \in Seq(Nat) /\ Len(s) = a
  BY HeldTyped
<1>4. Step(n, k) \in Nat /\ Step(n, k) < n
  BY DEF Step
<1>5. u \in Seq(Nat) /\ Len(u) = a + 1
  BY <1>1, <1>4, HeldTyped
<1>6. d[k] \in Nat
  OBVIOUS
<1>7. ASSUME NEW i \in 1 .. a + 1 PROVE u[i] = IF i <= a THEN s[i] ELSE d[k]
  <2>1. u[i] = d[(f + i - 1) % n]
    BY <1>1 DEF Held
  <2>2. i <= a => i \in 1 .. a /\ s[i] = d[(f + i - 1) % n]
    <3>1. i <= a => i \in 1 .. a
      BY <1>1
    <3> QED
      BY <3>1 DEF Held
  <2>3. ~(i <= a) => f + i - 1 = f + a
    <3> HIDE DEF a
    <3> QED
      BY <1>1
  <2> QED
    BY <2>1, <2>2, <2>3, <1>2
<1> HIDE DEF a, s, u
<1>8. /\ Append(s, d[k]) \in Seq(Nat) /\ Len(Append(s, d[k])) = a + 1
      /\ \A i \in 1 .. a : Append(s, d[k])[i] = s[i]
      /\ Append(s, d[k])[a + 1] = d[k]
  BY <1>3, <1>6, AppendProperties
<1>9. \A i \in 1 .. a + 1 : u[i] = Append(s, d[k])[i]
  <2> SUFFICES ASSUME NEW i \in 1 .. a + 1 PROVE u[i] = Append(s, d[k])[i]
    OBVIOUS
  <2>1. (i <= a /\ i \in 1 .. a) \/ (~(i <= a) /\ i = a + 1)
    BY <1>1
  <2> QED
    BY <2>1, <1>7, <1>8
<1>10. u = Append(s, d[k])
  BY <1>5, <1>8, <1>9, SeqEqual
<1> QED
  BY <1>10 DEF s, u

(* A front that moves on takes what is in its slot, the oldest element.    *)
LEMMA HeldTaken ==
  ASSUME NEW n \in Nat, NEW f \in Nat, NEW k \in Nat, n > 1, f < n, k < n,
         NEW d \in [0 .. n - 1 -> Nat], f # k
  PROVE  /\ Held(d, n, f, k) # <<>> /\ Head(Held(d, n, f, k)) = d[f]
         /\ Tail(Held(d, n, f, k)) = Held(d, n, Step(n, f), k)
<1> DEFINE a == Ahead(n, f, k)
           s == Held(d, n, f, k)
           u == Held(d, n, Step(n, f), k)
<1>1. a \in Nat /\ 0 < a /\ a < n /\ Ahead(n, Step(n, f), k) = a - 1
  BY DEF Ahead, Step
<1>2. s \in Seq(Nat) /\ Len(s) = a
  BY HeldTyped
<1>3. Step(n, f) \in Nat /\ Step(n, f) < n
  BY DEF Step
<1>4. u \in Seq(Nat) /\ Len(u) = a - 1
  BY <1>1, <1>3, HeldTyped
<1>5. \A i \in 1 .. a : s[i] = d[(f + i - 1) % n]
  BY DEF Held
<1>6. \A i \in 1 .. a - 1 : u[i] = d[(Step(n, f) + i - 1) % n]
  BY <1>1 DEF Held
<1>7. ASSUME NEW i \in 1 .. a - 1 PROVE u[i] = s[i + 1]
  <2>1. /\ i - 1 \in Nat /\ i - 1 < n /\ i \in Nat /\ i < n /\ i + 1 \in 1 .. a
        /\ f + (i + 1) - 1 = f + i /\ Step(n, f) + i - 1 = Step(n, f) + (i - 1)
    BY <1>1, <1>3
  <2>2. (f + i) % n = IF f + i < n THEN f + i ELSE f + i - n
    BY <2>1, SlotIs
  <2>3. (Step(n, f) + (i - 1)) % n
          = IF Step(n, f) + (i - 1) < n THEN Step(n, f) + (i - 1)
            ELSE Step(n, f) + (i - 1) - n
    BY <2>1, <1>3, SlotIs
  <2>4. (Step(n, f) + (i - 1)) % n = (f + i) % n
    BY <2>1, <2>2, <2>3 DEF Step
  <2>5. s[i + 1] = d[(f + i) % n]
    BY <2>1, <1>5
  <2>6. u[i] = d[(Step(n, f) + (i - 1)) % n]
    BY <2>1, <1>6
  <2> QED
    BY <2>4, <2>5, <2>6
<1>8. s[1] = d[f]
  <2>1. 1 \in 1 .. a /\ f + 1 - 1 = f /\ f % n = f
    BY <1>1, ModSmall
  <2> QED
    BY <2>1, <1>5
<1> HIDE DEF a, s, u
<1>9. s # <<>>
  BY <1>1, <1>2, EmptySeq
<1>10. Head(s) = d[f]
  BY <1>8, <1>9
<1>11. /\ Tail(s) \in Seq(Nat) /\ Len(Tail(s)) = a - 1
       /\ \A i \in 1 .. Len(Tail(s)) : Tail(s)[i] = s[i + 1]
  BY <1>2, <1>9, HeadTailProperties
<1>12. Tail(s) = u
  BY <1>4, <1>7, <1>11, SeqEqual
<1> QED
  BY <1>9, <1>10, <1>12 DEF s, u

-----------------------------------------------------------------------------
(* What the slots hold: numbers, and the element on its way in.            *)
OnItsWay(b, i) == data[b][i] = sent + 1

Stored ==
  /\ data = [b \in Block |-> data[b]]
  /\ \A b \in Block : b <= allocated => data[b] \in [0 .. size[b] - 1 -> Nat]
  /\ pPc = "publish" => OnItsWay(tailBlock, tail[tailBlock])
  /\ pPc = "link" => OnItsWay(allocated, front[allocated])
  /\ pPc = "advance" => OnItsWay(next[tailBlock], front[next[tailBlock]])

(* A block on its way into the ring, or waiting to become the tail block,  *)
(* is not where the consumer takes elements.                               *)
LEMMA AwayFromFront ==
  ASSUME QueueInv
  PROVE  /\ pPc = "link" => allocated # frontBlock
         /\ pPc = "advance" => next[tailBlock] # frontBlock
<1>1. PICK at \in [0 .. N - 1 -> 1 .. N], t \in 0 .. N - 1 : Laid(at, t)
  BY DEF QueueInv
<1>2. Typed /\ Ring(at, t) /\ Producer(t)
  BY <1>1 DEF QueueInv, Laid
<1>3. ASSUME pPc = "link" PROVE allocated # frontBlock
  <2>1. N = allocated - 1 /\ allocated \in Nat
    BY <1>2, <1>3 DEF N, Typed, Block
  <2>2. frontBlock \in Nat /\ frontBlock <= N
    BY <1>2, Where DEF Block
  <2> QED
    BY <2>1, <2>2
<1>4. ASSUME pPc = "advance" PROVE next[tailBlock] # frontBlock
  <2>1. t < N - 1
    BY <1>2, <1>4 DEF Producer
  <2>2. (next[tailBlock] = frontBlock <=> t = N - 1) /\ t \in Nat /\ N \in Nat
    BY <1>2, Where
  <2> QED
    BY <2>1, <2>2
<1> QED
  BY <1>3, <1>4

(* The block that the producer fills ahead of the tail block is empty and  *)
(* neither end of the queue.                                               *)
LEMMA NextIsEmpty ==
  ASSUME QueueInv, pPc = "writeNext"
  PROVE  LET b == next[tailBlock]
         IN  /\ b \in Block /\ b <= allocated /\ front[b] = tail[b]
             /\ b # tailBlock /\ b # frontBlock
<1>1. PICK at \in [0 .. N - 1 -> 1 .. N], t \in 0 .. N - 1 : Laid(at, t)
  BY DEF QueueInv
<1>2. Typed /\ Indices /\ Ring(at, t) /\ Filled(at, t) /\ Producer(t)
  BY <1>1 DEF QueueInv, Laid
<1>3. t < N - 1 /\ t \in Nat /\ N \in Nat
  BY <1>2, Where DEF Producer
<1>4. next[tailBlock] = at[t + 1] /\ t + 1 \in 1 .. N - 1 /\ t + 1 \in 0 .. N - 1 /\ t + 1 > t
  BY <1>2, <1>3, Where
<1>5. next[tailBlock] \in Block /\ next[tailBlock] <= allocated
  BY <1>2, Where
<1>6. next[tailBlock] # tailBlock /\ next[tailBlock] # frontBlock
  <2>1. t + 1 # t /\ t + 1 # 0
    BY <1>3
  <2> QED
    BY <2>1, <1>2, <1>4, Where
<1>7. front[next[tailBlock]] = tail[next[tailBlock]]
  <2>1. Used(next[tailBlock]) = 0
    BY <1>2, <1>4 DEF Filled
  <2> QED
    BY <2>1, <1>2, <1>5, Slots
<1> QED
  BY <1>5, <1>6, <1>7

(* At first no slot holds anything but 0.                                  *)
LEMMA InitStored == QueueInit => Stored
<1> SUFFICES ASSUME QueueInit PROVE Stored
  OBVIOUS
<1>1. data = [b \in Block |-> [i \in 0 .. size[b] - 1 |-> 0]]
  BY DEF QueueInit
<1>2. \A b \in Block : data[b] \in [0 .. size[b] - 1 -> Nat]
  BY <1>1
<1> QED
  BY <1>1, <1>2 DEF Stored, QueueInit

(* The steps that write a slot write the element on its way there.         *)
LEMMA WriteStored == QueueInv /\ Stored /\ Write => Stored'
<1> SUFFICES ASSUME QueueInv, Stored, Write PROVE Stored'
  OBVIOUS
<1>1. /\ pPc' = "publish" /\ data' = [data EXCEPT ![tailBlock][tail[tailBlock]] = sent + 1]
      /\ UNCHANGED <<tailBlock, tail, sent, size, allocated>>
  BY DEF Write, ring
<1>2. PICK at \in [0 .. N - 1 -> 1 .. N], t \in 0 .. N - 1 : Laid(at, t)
  BY DEF QueueInv
<1>3. /\ tailBlock \in Block /\ tailBlock <= allocated /\ sent + 1 \in Nat
      /\ size[tailBlock] \in Nat /\ tail[tailBlock] \in 0 .. size[tailBlock] - 1
  <2>1. Typed /\ Indices /\ Ring(at, t)
    BY <1>2 DEF QueueInv, Laid
  <2>2. tailBlock \in Block /\ tailBlock <= allocated
    BY <2>1, Where
  <2>3. size[tailBlock] \in Nat /\ tail[tailBlock] \in Nat /\ tail[tailBlock] < size[tailBlock]
    BY <2>1, <2>2, Slots
  <2>4. sent \in Nat
    BY <2>1 DEF Typed
  <2> QED
    BY <2>2, <2>3, <2>4
<1>4. /\ data' = [b \in Block |-> data'[b]]
      /\ data'[tailBlock] = [data[tailBlock] EXCEPT ![tail[tailBlock]] = sent + 1]
      /\ \A b \in Block \ {tailBlock} : data'[b] = data[b]
  <2>1. data = [b \in Block |-> data[b]]
    BY DEF Stored
  <2> QED
    BY <2>1, <1>1, <1>3
<1>5. \A b \in Block : b <= allocated => data'[b] \in [0 .. size[b] - 1 -> Nat]
  <2>1. \A b \in Block : b <= allocated => data[b] \in [0 .. size[b] - 1 -> Nat]
    BY DEF Stored
  <2>2. data'[tailBlock] \in [0 .. size[tailBlock] - 1 -> Nat]
    BY <2>1, <1>3, <1>4
  <2> QED
    BY <2>1, <2>2, <1>4
<1>6. data'[tailBlock][tail[tailBlock]] = sent + 1
  <2>1. data[tailBlock] \in [0 .. size[tailBlock] - 1 -> Nat]
    BY <1>3 DEF Stored
  <2> QED
    BY <2>1, <1>3, <1>4
<1> QED
  BY <1>1, <1>4, <1>5, <1>6 DEF Stored, OnItsWay

LEMMA WriteNextStored == QueueInv /\ Stored /\ WriteNext => Stored'
<1> SUFFICES ASSUME QueueInv, Stored, WriteNext PROVE Stored'
  OBVIOUS
<1> DEFINE c == next[tailBlock]
<1>1. /\ pPc = "writeNext" /\ pPc' = "advance"
      /\ data' = [data EXCEPT ![c][tail[c]] = sent + 1]
      /\ UNCHANGED <<tailBlock, front, next, sent, size, allocated>>
  BY DEF WriteNext, ring, cVars
<1>3. /\ c \in Block /\ c <= allocated /\ sent + 1 \in Nat /\ front[c] = tail[c]
      /\ size[c] \in Nat /\ tail[c] \in 0 .. size[c] - 1
  <2>1. Typed /\ Indices
    BY DEF QueueInv
  <2>2. c \in Block /\ c <= allocated /\ front[c] = tail[c]
    BY <1>1, NextIsEmpty
  <2>3. size[c] \in Nat /\ tail[c] \in Nat /\ tail[c] < size[c]
    BY <2>1, <2>2, Slots
  <2>4. sent \in Nat
    BY <2>1 DEF Typed
  <2> QED
    BY <2>2, <2>3, <2>4
<1>4. next'[tailBlock'] = c
  BY <1>1
<1> HIDE DEF c
<1>5. /\ data' = [b \in Block |-> data'[b]]
      /\ data'[c] = [data[c] EXCEPT ![tail[c]] = sent + 1]
      /\ \A b \in Block \ {c} : data'[b] = data[b]
  <2>1. data = [b \in Block |-> data[b]]
    BY DEF Stored
  <2> QED
    BY <2>1, <1>1, <1>3
<1>6. \A b \in Block : b <= allocated => data'[b] \in [0 .. size[b] - 1 -> Nat]
  <2>1. \A b \in Block : b <= allocated => data[b] \in [0 .. size[b] - 1 -> Nat]
    BY DEF Stored
  <2>2. data'[c] \in [0 .. size[c] - 1 -> Nat]
    BY <2>1, <1>3, <1>5
  <2> QED
    BY <2>1, <2>2, <1>5
<1>7. data'[c][front[c]] = sent + 1
  <2>1. data[c] \in [0 .. size[c] - 1 -> Nat]
    BY <1>3 DEF Stored
  <2> QED
    BY <2>1, <1>3, <1>5
<1> QED
  BY <1>1, <1>4, <1>5, <1>6, <1>7 DEF Stored, OnItsWay

LEMMA AllocStored == QueueInv /\ Stored /\ Alloc => Stored'
<1> SUFFICES ASSUME QueueInv, Stored, Alloc PROVE Stored'
  OBVIOUS
<1> DEFINE newSize == IF largestBlockSize >= MaxBlockSize THEN largestBlockSize
                      ELSE largestBlockSize * 2
           slots   == [i \in 0 .. newSize - 1 |-> IF i = 0 THEN sent + 1 ELSE 0]
<1>1. PICK b \in Block : b = allocated + 1
  <2>1. allocated \in 1 .. MaxBlocks /\ allocated < MaxBlocks
    BY DEF Alloc, QueueInv, Typed, Block
  <2>2. allocated + 1 \in Block
    BY <2>1, Numbers DEF Block
  <2> QED
    BY <2>2
<1>2. /\ pPc' = "link" /\ allocated' = b
      /\ size' = [size EXCEPT ![b] = newSize]
      /\ data' = [data EXCEPT ![b] = slots]
      /\ UNCHANGED <<sent, front>>
  BY <1>1 DEF Alloc, cVars
<1>3. newSize \in Nat /\ newSize > 1 /\ sent + 1 \in Nat
  BY Numbers DEF QueueInv, Typed
<1> HIDE DEF newSize
<1>4. slots \in [0 .. newSize - 1 -> Nat] /\ slots[0] = sent + 1
  <2>1. 0 \in 0 .. newSize - 1
    BY <1>3
  <2> QED
    BY <2>1, <1>3
<1> HIDE DEF slots
<1>5. /\ data' = [c \in Block |-> data'[c]]
      /\ data'[b] = slots
      /\ \A c \in Block \ {b} : data'[c] = data[c]
  <2>1. data = [c \in Block |-> data[c]]
    BY DEF Stored
  <2> QED
    BY <2>1, <1>2
<1>6. size'[b] = newSize /\ \A c \in Block \ {b} : size'[c] = size[c]
  BY <1>2 DEF QueueInv, Typed
<1>7. \A c \in Block : c <= b => data'[c] \in [0 .. size'[c] - 1 -> Nat]
  <2>1. \A c \in Block : c <= allocated => data[c] \in [0 .. size[c] - 1 -> Nat]
    BY DEF Stored
  <2>2. \A c \in Block \ {b} : c <= b => c <= allocated
    BY <1>1 DEF QueueInv, Typed, Block
  <2>3. data'[b] \in [0 .. size'[b] - 1 -> Nat]
    BY <1>4, <1>5, <1>6
  <2> QED
    BY <2>1, <2>2, <2>3, <1>5, <1>6
<1>8. front[b] = 0
  <2>1. ~(b <= allocated)
    BY <1>1 DEF QueueInv, Typed, Block
  <2> QED
    BY <2>1 DEF QueueInv, Indices, Fresh
<1>9. data'[b][front'[b]] = sent' + 1
  BY <1>2, <1>4, <1>5, <1>8
<1> QED
  BY <1>2, <1>5, <1>7, <1>9 DEF Stored, OnItsWay

(* The block made becomes the one after the tail block.                    *)
LEMMA LinkStored == QueueInv /\ Stored /\ Link => Stored'
<1> SUFFICES ASSUME QueueInv, Stored, Link PROVE Stored'
  OBVIOUS
<1>1. /\ pPc = "link" /\ pPc' = "advance" /\ next' = [next EXCEPT ![tailBlock] = allocated]
      /\ UNCHANGED <<data, tailBlock, front, sent, size, allocated>>
  BY DEF Link, cVars
<1>2. PICK at \in [0 .. N - 1 -> 1 .. N], t \in 0 .. N - 1 : Laid(at, t)
  BY DEF QueueInv
<1>3. tailBlock \in Block
  BY <1>2, Where DEF QueueInv, Laid
<1>4. next'[tailBlock'] = allocated
  BY <1>1, <1>3 DEF QueueInv, Typed
<1> QED
  BY <1>1, <1>4 DEF Stored, OnItsWay

(* The consumer moves the front of the front block only.                   *)
LEMMA UseSlotStored == QueueInv /\ Stored /\ UseSlot => Stored'
<1> SUFFICES ASSUME QueueInv, Stored, UseSlot PROVE Stored'
  OBVIOUS
<1>1. /\ UNCHANGED <<data, pPc, tailBlock, tail, next, sent, size, allocated>>
      /\ front' = IF call = "pop" THEN [front EXCEPT ![cBlock] = After(cBlock, front[cBlock])]
                  ELSE front
  BY DEF UseSlot, pVars, ring
<1>2. \A c \in Block : c # frontBlock => front'[c] = front[c]
  <2>1. call = "pop" => cBlock = frontBlock
    BY DEF UseSlot, QueueInv, Laid, Consumer
  <2> QED
    BY <2>1, <1>1 DEF QueueInv, Typed
<1>3. pPc = "link" => front'[allocated] = front[allocated]
  BY <1>2, AwayFromFront DEF QueueInv, Typed
<1>4. pPc = "advance" => front'[next[tailBlock]] = front[next[tailBlock]]
  <2>1. PICK at \in [0 .. N - 1 -> 1 .. N], t \in 0 .. N - 1 : Laid(at, t)
    BY DEF QueueInv
  <2>2. next[tailBlock] \in Block
    BY <2>1, Where DEF QueueInv, Laid
  <2> QED
    BY <2>2, <1>2, AwayFromFront
<1> QED
  BY <1>1, <1>3, <1>4 DEF Stored, OnItsWay

(* Every step keeps what the slots hold.                                   *)
LEMMA NextStored == QueueInv /\ Stored /\ [QueueNext]_queueVars => Stored'
<1> SUFFICES ASSUME QueueInv, Stored, [QueueNext]_queueVars PROVE Stored'
  OBVIOUS
<1>1. ASSUME UNCHANGED <<data, size, allocated>>, pPc' \notin {"publish", "link", "advance"}
      PROVE  Stored'
  BY <1>1 DEF Stored
<1>2. CASE Produce
  BY <1>1, <1>2, WriteStored, WriteNextStored, AllocStored, LinkStored
     DEF Produce, BeginEnqueue, ReadFront, ReadFrontOr, Publish, CheckNext, ReadNextFront,
         AllocFails, AdvanceTail, ring
<1>3. ASSUME UNCHANGED <<data, size, allocated, pPc, tailBlock, tail, next, front, sent>>
      PROVE  Stored'
  BY <1>3 DEF Stored, OnItsWay
<1>4. CASE Consume
  BY <1>3, <1>4, UseSlotStored
     DEF Consume, Operate, Begin, ReadTail, ReadTailOr, ReadTailBlock, ReadTailBlockOr,
         ReadTailAgain, LookAtNext, AdvanceFront, ring, pVars
<1>5. CASE UNCHANGED queueVars
  BY <1>3, <1>5 DEF queueVars, ring, pVars, cVars
<1> QED
  BY <1>2, <1>4, <1>5 DEF QueueNext

-----------------------------------------------------------------------------
(* What block b holds, and what the queue holds when its blocks lie at at. *)
Of(b)         == Held(data[b], size[b], front[b], tail[b])
Spread(at, t) == [i \in 1 .. t + 1 |-> Of(at[i - 1])]

View ==
  \A at, t : Typed /\ Indices /\ Ring(at, t) => Items = Cat(Spread(at, t), t + 1)

(* The elements of a block, computed with % in the model.                  *)
LEMMA ContentsAre ==
  ASSUME Typed, Indices, NEW b \in Block, b <= allocated
  PROVE  Contents(b) = Of(b)
<1>1. Count(b) = Used(b)
  BY CountIs
<1> QED
  BY <1>1 DEF Contents, Of, Held, Used

(* The elements of the queue are those of its blocks, one block after the  *)
(* other.                                                                  *)
LEMMA ViewHolds == View
<1> SUFFICES ASSUME NEW at, NEW t, Typed, Indices, Ring(at, t)
             PROVE  Items = Cat(Spread(at, t), t + 1)
  BY DEF View
<1>1. Items = SE!FlattenSeq([i \in 1 .. t + 1 |-> Contents(at[i - 1])])
  BY ItemsAre
<1>2. ASSUME NEW i \in 1 .. t + 1 PROVE Contents(at[i - 1]) = Of(at[i - 1])
  <2>1. i - 1 \in 0 .. N - 1
    BY Where
  <2>2. at[i - 1] \in Block /\ at[i - 1] <= allocated
    <3>1. at[i - 1] \in Block /\ at[i - 1] <= N /\ N <= allocated /\ N \in Nat
      BY <2>1, Where
    <3> QED
      BY <3>1 DEF Typed, Block
  <2> QED
    BY <2>2, ContentsAre
<1>3. [i \in 1 .. t + 1 |-> Contents(at[i - 1])] = [i \in 1 .. t + 1 |-> Spread(at, t)[i]]
  BY <1>2 DEF Spread
<1> QED
  BY <1>1, <1>3 DEF Cat

(* And so they are after a step.                                           *)
LEMMA ViewStays == View'
BY ViewHolds, PTL

(* The elements are numbers.                                               *)
LEMMA OfTyped ==
  ASSUME Typed, Indices, Stored, NEW b \in Block, b <= allocated
  PROVE  Of(b) \in Seq(Nat)
<1>1. data[b] \in [0 .. size[b] - 1 -> Nat]
  BY DEF Stored
<1> QED
  BY <1>1, Slots, HeldTyped DEF Of

LEMMA SpreadTyped ==
  ASSUME Typed, Indices, Stored, NEW at, NEW t, Ring(at, t)
  PROVE  \A i \in 1 .. t + 1 :
           /\ Spread(at, t)[i] = Of(at[i - 1]) /\ Spread(at, t)[i] \in Seq(Nat)
           /\ i - 1 \in 0 .. N - 1
           /\ at[i - 1] \in Block /\ at[i - 1] <= allocated
<1> SUFFICES ASSUME NEW i \in 1 .. t + 1
             PROVE  /\ Of(at[i - 1]) \in Seq(Nat) /\ i - 1 \in 0 .. N - 1
                    /\ at[i - 1] \in Block /\ at[i - 1] <= allocated
  BY DEF Spread
<1>1. i - 1 \in 0 .. N - 1
  BY Where
<1>2. at[i - 1] \in Block /\ at[i - 1] <= allocated
  <2>1. at[i - 1] \in Block /\ at[i - 1] <= N /\ N <= allocated /\ N \in Nat
    BY <1>1, Where
  <2> QED
    BY <2>1 DEF Typed, Block
<1> QED
  BY <1>1, <1>2, OfTyped

(* If the blocks up to the tail block hold after a step what they held     *)
(* before, in the same places of the ring, the queue has the same          *)
(* elements.                                                               *)
LEMMA SameItems ==
  ASSUME QueueInv, QueueInv', NEW at, NEW at2, NEW t, Ring(at, t), Ring(at2, t)',
         \A k \in 0 .. t : Of(at2[k])' = Of(at[k])
  PROVE  Items' = Items
<1>1. Items = Cat(Spread(at, t), t + 1)
  BY ViewHolds DEF View, QueueInv
<1>2. Items' = Cat(Spread(at2, t)', t + 1)
  BY ViewStays DEF View, QueueInv
<1>3. Spread(at2, t)' = Spread(at, t)
  <2>1. t \in Nat
    BY Where DEF QueueInv
  <2>2. \A i \in 1 .. t + 1 : i - 1 \in 0 .. t
    BY <2>1
  <2>3. Spread(at2, t)' = [i \in 1 .. t + 1 |-> Of(at2[i - 1])']
    BY DEF Spread
  <2> QED
    BY <2>2, <2>3 DEF Spread
<1> QED
  BY <1>1, <1>2, <1>3

(* Steps that move shadows and program counters leave the elements alone.  *)
LEMMA QuietItems ==
  ASSUME QueueInv, QueueInv', N' = N,
         UNCHANGED <<data, size, front, tail, next, frontBlock, tailBlock>>
  PROVE  Items' = Items
<1>1. PICK at \in [0 .. N - 1 -> 1 .. N], t \in 0 .. N - 1 : Laid(at, t)
  BY DEF QueueInv
<1>2. Ring(at, t) /\ Ring(at, t)'
  BY <1>1 DEF Laid, Ring
<1>3. \A k \in 0 .. t : Of(at[k])' = Of(at[k])
  BY DEF Of, Held, Ahead
<1> QED
  BY <1>2, <1>3, SameItems

(* The producer writes into a slot that is not in the queue yet: behind    *)
(* the tail, in the block ahead, or in a block of its own making.          *)
LEMMA WriteItems ==
  ASSUME QueueInv, QueueInv', Stored, Write
  PROVE  Items' = Items
<1>1. PICK at \in [0 .. N - 1 -> 1 .. N], t \in 0 .. N - 1 : Laid(at, t)
  BY DEF QueueInv
<1>2. Typed /\ Indices /\ Ring(at, t)
  BY <1>1 DEF QueueInv, Laid
<1>3. /\ pPc = "write" /\ pPc' = "publish"
      /\ data' = [data EXCEPT ![tailBlock][tail[tailBlock]] = sent + 1]
      /\ UNCHANGED <<size, front, tail, next, frontBlock, tailBlock, allocated>>
  BY DEF Write, ring, cVars
<1>4. Ring(at, t)'
  BY <1>2, <1>3 DEF Ring, N
<1>5. /\ tailBlock \in Block /\ tailBlock <= allocated
      /\ data[tailBlock] \in [0 .. size[tailBlock] - 1 -> Nat]
  BY <1>2, Where DEF Stored
<1>6. /\ data'[tailBlock] = [data[tailBlock] EXCEPT ![tail[tailBlock]] = sent + 1]
      /\ \A c \in Block \ {tailBlock} : data'[c] = data[c]
  <2>1. data = [b \in Block |-> data[b]]
    BY DEF Stored
  <2> QED
    BY <2>1, <1>3, <1>5
<1>7. Of(tailBlock)' = Of(tailBlock)
  <2>1. Of(tailBlock)' = Held(data'[tailBlock], size[tailBlock], front[tailBlock], tail[tailBlock])
    BY <1>3 DEF Of
  <2>2. /\ size[tailBlock] \in Nat /\ size[tailBlock] > 1
        /\ front[tailBlock] \in Nat /\ front[tailBlock] < size[tailBlock]
        /\ tail[tailBlock] \in Nat /\ tail[tailBlock] < size[tailBlock]
    BY <1>2, <1>5, Slots
  <2>3. data'[tailBlock] = [data[tailBlock] EXCEPT ![tail[tailBlock]] = sent + 1]
    BY <1>6
  <2>4. \A i \in 0 .. size[tailBlock] - 1 :
          i # tail[tailBlock] => data'[tailBlock][i] = data[tailBlock][i]
    BY <2>3, <1>5
  <2>5. PICK n, f, k, d, e : /\ n = size[tailBlock] /\ f = front[tailBlock] /\ k = tail[tailBlock]
                             /\ d = data[tailBlock] /\ e = data'[tailBlock]
    OBVIOUS
  <2>6. n \in Nat /\ f \in Nat /\ k \in Nat /\ n > 1 /\ f < n /\ k < n
    BY <2>2, <2>5
  <2>7. \A i \in 0 .. n - 1 : i # k => e[i] = d[i]
    BY <2>4, <2>5
  <2>8. Held(e, n, f, k) = Held(d, n, f, k)
    BY <2>6, <2>7, HeldAfterWrite
  <2> QED
    BY <2>1, <2>5, <2>8 DEF Of
<1>8. \A c \in Block : Of(c)' = Of(c)
  <2> SUFFICES ASSUME NEW c \in Block, c # tailBlock PROVE Of(c)' = Of(c)
    BY <1>3, <1>7
  <2> QED
    BY <1>3, <1>6 DEF Of, Held, Ahead
<1>9. \A k \in 0 .. t : at[k] \in Block
  <2>1. \A k \in 0 .. t : k \in 0 .. N - 1
    BY <1>2, Where
  <2> QED
    BY <2>1, <1>2, Where
<1> QED
  BY <1>2, <1>4, <1>8, <1>9, SameItems

LEMMA WriteNextItems ==
  ASSUME QueueInv, QueueInv', Stored, WriteNext
  PROVE  Items' = Items
<1>1. PICK at \in [0 .. N - 1 -> 1 .. N], t \in 0 .. N - 1 : Laid(at, t)
  BY DEF QueueInv
<1>2. Typed /\ Indices /\ Ring(at, t) /\ Producer(t)
  BY <1>1 DEF QueueInv, Laid
<1> DEFINE c == next[tailBlock]
<1>3. /\ pPc = "writeNext" /\ pPc' = "advance"
      /\ data' = [data EXCEPT ![c][tail[c]] = sent + 1]
      /\ tail' = [tail EXCEPT ![c] = NextTail(c)]
      /\ UNCHANGED <<size, front, next, frontBlock, tailBlock, allocated>>
  BY DEF WriteNext, ring, cVars
<1>4. Ring(at, t)'
  BY <1>2, <1>3 DEF Ring, N
<1>5. /\ t < N - 1 /\ t \in Nat /\ N \in Nat /\ c = at[t + 1] /\ t + 1 \in 0 .. N - 1
  <2>1. t < N - 1
    BY <1>2, <1>3 DEF Producer
  <2> QED
    BY <2>1, <1>2, Where
<1> HIDE DEF c
<1>6. /\ \A b \in Block \ {c} : data'[b] = data[b] /\ tail'[b] = tail[b]
  <2>1. data = [b \in Block |-> data[b]]
    BY DEF Stored
  <2> QED
    BY <2>1, <1>2, <1>3 DEF Typed
<1>7. ASSUME NEW k \in 0 .. t PROVE Of(at[k])' = Of(at[k])
  <2>1. k \in 0 .. N - 1 /\ k # t + 1
    BY <1>5
  <2>2. at[k] \in Block /\ at[k] # c
    BY <2>1, <1>2, <1>5, Where DEF Ring
  <2> QED
    BY <2>2, <1>3, <1>6 DEF Of, Held, Ahead
<1> QED
  BY <1>2, <1>4, <1>7, SameItems

LEMMA AllocItems ==
  ASSUME QueueInv, QueueInv', Stored, Alloc
  PROVE  Items' = Items
<1>1. PICK at \in [0 .. N - 1 -> 1 .. N], t \in 0 .. N - 1 : Laid(at, t)
  BY DEF QueueInv
<1>2. Typed /\ Indices /\ Ring(at, t)
  BY <1>1 DEF QueueInv, Laid
<1>3. /\ pPc = "alloc" /\ pPc' = "link" /\ allocated' = allocated + 1
      /\ UNCHANGED <<front, frontBlock, tailBlock>>
  BY DEF Alloc, cVars
<1>4. \A c \in Block : c # allocated + 1 =>
        data'[c] = data[c] /\ size'[c] = size[c] /\ tail'[c] = tail[c] /\ next'[c] = next[c]
  <2>1. data = [b \in Block |-> data[b]]
    BY DEF Stored
  <2> QED
    BY <2>1, <1>2 DEF Alloc, Typed
<1>5. N' = N
  BY <1>2, <1>3 DEF N, Typed, Block
<1>6. \A k \in 0 .. N - 1 : at[k] \in Block /\ at[k] # allocated + 1
  <2>1. \A c \in Block : c <= allocated => c # allocated + 1
    BY <1>2 DEF Typed, Block
  <2>2. N = allocated
    BY <1>3 DEF N
  <2> QED
    BY <2>1, <2>2, <1>2, Where
<1>7. Ring(at, t)'
  BY <1>2, <1>3, <1>4, <1>5, <1>6 DEF Ring
<1>8. ASSUME NEW k \in 0 .. t PROVE Of(at[k])' = Of(at[k])
  <2>1. k \in 0 .. N - 1
    BY <1>2, Where
  <2> QED
    BY <2>1, <1>3, <1>4, <1>6 DEF Of, Held, Ahead
<1> QED
  BY <1>2, <1>7, <1>8, SameItems

(* A block linked behind the tail block adds nothing.                      *)
LEMMA LinkItems ==
  ASSUME QueueInv, QueueInv', Link
  PROVE  Items' = Items
<1>1. PICK at \in [0 .. N - 1 -> 1 .. N], t \in 0 .. N - 1 : Laid(at, t)
  BY DEF QueueInv
<1>2. Typed /\ Ring(at, t) /\ Producer(t)
  BY <1>1 DEF QueueInv, Laid
<1>3. PICK at2 \in [0 .. N -> 1 .. N + 1] :
        (\A k \in 0 .. N : k <= t => at2[k] = at[k]) /\ Ring(at2, t)'
  BY <1>2, LinkRing
<1>4. UNCHANGED <<data, size, front, tail>>
  BY DEF Link, cVars
<1>5. ASSUME NEW k \in 0 .. t PROVE Of(at2[k])' = Of(at[k])
  <2>1. k \in 0 .. N /\ k <= t
    BY <1>2, Where
  <2> QED
    BY <2>1, <1>3, <1>4 DEF Of, Held, Ahead
<1> QED
  BY <1>2, <1>3, <1>5, SameItems

(* The front block that the consumer leaves is empty.                      *)
LEMMA AdvanceFrontItems ==
  ASSUME QueueInv, QueueInv', Stored, AdvanceFront
  PROVE  Items' = Items
<1>1. PICK at \in [0 .. N - 1 -> 1 .. N], t \in 0 .. N - 1 : Laid(at, t)
  BY DEF QueueInv
<1>2. Typed /\ Indices /\ Ring(at, t) /\ Consumer(t)
  BY <1>1 DEF QueueInv, Laid
<1>3. /\ cPc = "advance"
      /\ UNCHANGED <<data, size, front, tail>>
  BY DEF AdvanceFront, pVars, ring
<1>4. t > 0 /\ t \in Nat /\ t <= N - 1 /\ N \in Nat
  BY <1>2, Where, AdvanceFrontRing
<1>5. PICK at2 \in [0 .. N - 1 -> 1 .. N] :
        (\A k \in 0 .. N - 1 : k < N - 1 => at2[k] = at[k + 1]) /\ Ring(at2, t - 1)'
  BY <1>2, AdvanceFrontRing
<1>6. PICK m \in Nat : m > 0 /\ t = m /\ t - 1 + 1 = m /\ t + 1 = m + 1
  BY <1>4
<1> DEFINE g == Spread(at, t)
           h == Spread(at2, t - 1)'
<1>7. Items = Cat(g, m + 1)
  BY <1>2, <1>6, ViewHolds DEF View
<1>8. Items' = Cat(h, m)
  <2>1. Items' = Cat(h, t - 1 + 1)
    BY <1>5, ViewStays DEF View, QueueInv
  <2> QED
    BY <2>1, <1>6
<1>9. \A i \in 1 .. m + 1 : g[i] = Of(at[i - 1]) /\ g[i] \in Seq(Nat)
  BY <1>2, <1>6, SpreadTyped
<1>10. g[1] = <<>>
  <2>1. 1 \in 1 .. m + 1 /\ 1 - 1 = 0
    BY <1>6
  <2>2. g[1] = Of(frontBlock)
    BY <2>1, <1>2, <1>9, Where
  <2>3. front[frontBlock] = tail[frontBlock] /\ front[frontBlock] \in Nat
    BY <1>2, <1>3, Where DEF Consumer, Typed
  <2> QED
    BY <2>2, <2>3, HeldNothing DEF Of
<1>11. ASSUME NEW i \in 1 .. m PROVE h[i] = g[i + 1]
  <2>1. /\ i - 1 \in 0 .. N - 1 /\ i - 1 < N - 1 /\ i - 1 + 1 = i /\ i + 1 - 1 = i
        /\ i + 1 \in 1 .. m + 1
    BY <1>4, <1>6
  <2>2. g[i + 1] = Of(at[i])
    BY <2>1, <1>9
  <2>3. h[i] = Of(at2[i - 1])'
    BY <1>6 DEF Spread
  <2>4. at2[i - 1] = at[i]
    BY <2>1, <1>5
  <2> QED
    BY <2>2, <2>3, <2>4, <1>3 DEF Of, Held, Ahead
<1> HIDE DEF g, h
<1>12. Cat(g, m + 1) = Cat(h, m)
  BY <1>6, <1>9, <1>10, <1>11, CatSkips
<1> QED
  BY <1>7, <1>8, <1>12

(* A block with one element holds what is in the slot of its front.        *)
LEMMA HeldOne ==
  ASSUME NEW n \in Nat, NEW f \in Nat, NEW k \in Nat, n > 1, f < n, k < n,
         Ahead(n, f, k) = 1, NEW d
  PROVE  Held(d, n, f, k) = <<d[f]>>
<1>1. f % n = f
  BY ModSmall
<1>2. \A i \in 1 .. 1 : f + i - 1 = f
  OBVIOUS
<1>3. Held(d, n, f, k) = [i \in 1 .. 1 |-> d[(f + i - 1) % n]]
  BY DEF Held
<1>4. [i \in 1 .. 1 |-> d[(f + i - 1) % n]] = [i \in 1 .. 1 |-> d[f]]
  BY <1>1, <1>2
<1> QED
  BY <1>3, <1>4

(* The first element of the whole is that of the first sequence.           *)
LEMMA CatHead ==
  ASSUME NEW n \in Nat, n > 0, NEW g, \A i \in 1 .. n : g[i] \in Seq(Nat), g[1] # <<>>
  PROVE  Cat(g, n) # <<>> /\ Head(Cat(g, n)) = Head(g[1])
<1> DEFINE h == [i \in 1 .. n |-> IF i = 1 THEN Tail(g[1]) ELSE g[i]]
<1>1. h[1] = Tail(g[1]) /\ \A i \in 2 .. n : h[i] = g[i]
  OBVIOUS
<1> HIDE DEF h
<1> QED
  BY <1>1, CatTaken

(* The slot the consumer uses, in the front block or in the one after it,  *)
(* holds the oldest element of the queue.                                  *)
LEMMA SlotIsHead ==
  ASSUME QueueInv, Stored, cPc = "slot"
  PROVE  Items # <<>> /\ Head(Items) = data[cBlock][front[cBlock]]
<1>1. PICK at \in [0 .. N - 1 -> 1 .. N], t \in 0 .. N - 1 : Laid(at, t)
  BY DEF QueueInv
<1>2. Typed /\ Indices /\ Ring(at, t) /\ Consumer(t)
  BY <1>1 DEF QueueInv, Laid
<1>3. /\ front[cBlock] # tail[cBlock]
      /\ cBlock # frontBlock =>
           t > 0 /\ cBlock = next[frontBlock] /\ front[frontBlock] = tail[frontBlock]
  BY <1>2 DEF Consumer
<1>4. /\ t \in Nat /\ t <= N - 1 /\ N \in Nat /\ frontBlock \in Block /\ frontBlock <= allocated
      /\ next[frontBlock] \in Block /\ next[frontBlock] <= allocated
  BY <1>2, Where
<1>5. cBlock \in Block /\ cBlock <= allocated
  BY <1>3, <1>4
<1>6. Of(cBlock) # <<>> /\ Head(Of(cBlock)) = data[cBlock][front[cBlock]]
  <2>1. data[cBlock] \in [0 .. size[cBlock] - 1 -> Nat]
    BY <1>5 DEF Stored
  <2>2. /\ size[cBlock] \in Nat /\ size[cBlock] > 1
        /\ front[cBlock] \in Nat /\ front[cBlock] < size[cBlock]
        /\ tail[cBlock] \in Nat /\ tail[cBlock] < size[cBlock]
    BY <1>2, <1>5, Slots
  <2> QED
    BY <2>1, <2>2, <1>3, HeldTaken DEF Of
<1> DEFINE g == Spread(at, t)
<1>7. Items = Cat(g, t + 1)
  BY <1>2, ViewHolds DEF View
<1>8. \A i \in 1 .. t + 1 : g[i] = Of(at[i - 1]) /\ g[i] \in Seq(Nat)
  BY <1>2, SpreadTyped
<1>9. t + 1 \in Nat /\ t + 1 > 0 /\ 1 \in 1 .. t + 1 /\ 1 - 1 = 0
  BY <1>4
<1>10. g[1] = Of(frontBlock)
  <2>1. at[0] = frontBlock
    BY <1>2, Where
  <2> QED
    BY <2>1, <1>8, <1>9
<1> HIDE DEF g
<1>11. CASE cBlock = frontBlock
  BY <1>6, <1>7, <1>8, <1>9, <1>10, <1>11, CatHead
<1>12. CASE cBlock # frontBlock
  <2> DEFINE h == [i \in 1 .. t |-> g[i + 1]]
  <2>1. t > 0 /\ 1 \in 1 .. t /\ N # 1
    BY <1>3, <1>4, <1>12
  <2>2. \A i \in 1 .. t : h[i] = g[i + 1]
    OBVIOUS
  <2>3. \A i \in 1 .. t : h[i] \in Seq(Nat)
    <3>1. \A i \in 1 .. t : i + 1 \in 1 .. t + 1
      BY <1>4
    <3> QED
      BY <3>1, <2>2, <1>8
  <2>4. h[1] = Of(cBlock)
    <3>1. h[1] = g[1 + 1] /\ 1 + 1 \in 1 .. t + 1 /\ 1 + 1 - 1 = 1
      BY <2>1, <1>4
    <3>2. cBlock = at[1]
      BY <1>2, <1>3, <1>12, <2>1, Where
    <3> QED
      BY <3>1, <3>2, <1>8
  <2> HIDE DEF h
  <2>5. g[1] = <<>>
    <3>1. front[frontBlock] = tail[frontBlock] /\ front[frontBlock] \in Nat
      BY <1>2, <1>3, <1>4, <1>12 DEF Typed
    <3> QED
      BY <3>1, <1>10, HeldNothing DEF Of
  <2>6. Cat(g, t + 1) = Cat(h, t)
    BY <2>1, <2>2, <2>5, <1>4, <1>8, CatSkips
  <2>7. Cat(h, t) # <<>> /\ Head(Cat(h, t)) = Head(h[1])
    BY <2>1, <2>3, <2>4, <1>4, <1>6, CatHead
  <2> QED
    BY <2>4, <2>6, <2>7, <1>6, <1>7
<1> QED
  BY <1>11, <1>12

(* pop takes the oldest element, peek takes nothing.                       *)
LEMMA UseSlotItems ==
  ASSUME QueueInv, QueueInv', Stored, UseSlot
  PROVE  Items' = IF call = "pop" THEN Tail(Items) ELSE Items
<1>1. PICK at \in [0 .. N - 1 -> 1 .. N], t \in 0 .. N - 1 : Laid(at, t)
  BY DEF QueueInv
<1>2. Typed /\ Indices /\ Ring(at, t) /\ Consumer(t)
  BY <1>1 DEF QueueInv, Laid
<1>3. /\ cPc = "slot"
      /\ front' = IF call = "pop" THEN [front EXCEPT ![cBlock] = After(cBlock, front[cBlock])]
                  ELSE front
      /\ UNCHANGED <<data, size, tail, next, frontBlock, tailBlock, allocated, pPc>>
  BY DEF UseSlot, pVars, ring
<1>4. N' = N
  BY <1>3 DEF N
<1>5. CASE call # "pop"
  BY <1>3, <1>4, <1>5, QuietItems
<1>6. CASE call = "pop"
  <2> DEFINE b == frontBlock
             g == Spread(at, t)
             h == Spread(at, t)'
  <2>1. cBlock = b /\ front[b] # tail[b]
    BY <1>2, <1>3, <1>6 DEF Consumer
  <2>2. b \in Block /\ b <= allocated /\ at[0] = b /\ t \in Nat /\ N \in Nat /\ t <= N - 1
    BY <1>2, Where
  <2>3. /\ size[b] \in Nat /\ size[b] > 1
        /\ front[b] \in Nat /\ front[b] < size[b]
        /\ tail[b] \in Nat /\ tail[b] < size[b]
        /\ data[b] \in [0 .. size[b] - 1 -> Nat]
    BY <1>2, <2>2, Slots DEF Stored
  <2>4. front'[b] = Step(size[b], front[b]) /\ \A c \in Block \ {b} : front'[c] = front[c]
    <3>1. After(b, front[b]) = Step(size[b], front[b])
      BY <2>3, AfterIs
    <3> QED
      BY <3>1, <2>1, <2>2, <1>2, <1>3, <1>6 DEF Typed
  <2>5. Of(b)' = Tail(Of(b)) /\ Of(b) # <<>>
    <3>1. Of(b)' = Held(data[b], size[b], Step(size[b], front[b]), tail[b])
      BY <1>3, <2>4 DEF Of
    <3> QED
      BY <3>1, <2>1, <2>3, HeldTaken DEF Of
  <2>6. Items = Cat(g, t + 1)
    BY <1>2, ViewHolds DEF View
  <2>7. Ring(at, t)'
    BY <1>2, <1>3, <1>4 DEF Ring
  <2>8. Items' = Cat(h, t + 1)
    BY <2>7, ViewStays DEF View, QueueInv
  <2>9. \A i \in 1 .. t + 1 : g[i] = Of(at[i - 1]) /\ g[i] \in Seq(Nat)
                              /\ i - 1 \in 0 .. N - 1 /\ at[i - 1] \in Block
    BY <1>2, SpreadTyped
  <2>10. h = [i \in 1 .. t + 1 |-> Of(at[i - 1])']
    BY DEF Spread
  <2>11. t + 1 \in Nat /\ t + 1 > 0 /\ 1 \in 1 .. t + 1 /\ 1 - 1 = 0
    BY <2>2
  <2>12. g[1] = Of(b) /\ h[1] = Of(b)'
    <3>1. g[1] = Of(at[0]) /\ h[1] = Of(at[0])'
      BY <2>9, <2>10, <2>11
    <3>2. Of(at[0])' = Of(b)'
      BY <2>2, <1>3 DEF Of
    <3> QED
      BY <3>1, <3>2, <2>2
  <2>13. ASSUME NEW i \in 2 .. t + 1 PROVE h[i] = g[i]
    <3>1. i \in 1 .. t + 1 /\ i - 1 # 0
      BY <2>2
    <3>2. at[i - 1] \in Block \ {b}
      BY <3>1, <2>2, <2>9, <1>2, Where
    <3>3. Of(at[i - 1])' = Of(at[i - 1])
      BY <3>2, <1>3, <2>4 DEF Of, Held, Ahead
    <3> QED
      BY <3>1, <3>3, <2>9, <2>10
  <2> HIDE DEF g, h
  <2>14. Cat(h, t + 1) = Tail(Cat(g, t + 1))
    BY <2>5, <2>9, <2>11, <2>12, <2>13, CatTaken
  <2> QED
    BY <2>6, <2>8, <2>14, <1>6
<1> QED
  BY <1>5, <1>6

(* The element is in the queue as soon as the tail of the tail block has   *)
(* moved over it.                                                          *)
LEMMA PublishItems ==
  ASSUME QueueInv, QueueInv', Stored, Publish
  PROVE  Items' = Append(Items, sent + 1)
<1>1. PICK at \in [0 .. N - 1 -> 1 .. N], t \in 0 .. N - 1 : Laid(at, t)
  BY DEF QueueInv
<1>2. Typed /\ Indices /\ Ring(at, t) /\ Producer(t)
  BY <1>1 DEF QueueInv, Laid
<1>3. /\ pPc = "publish" /\ pPc' = "idle"
      /\ tail' = [tail EXCEPT ![tailBlock] = NextTail(tailBlock)]
      /\ UNCHANGED <<data, size, front, next, frontBlock, tailBlock, allocated>>
  BY DEF Publish, cVars, ring
<1>4. Ring(at, t)'
  BY <1>2, <1>3 DEF Ring, N
<1> DEFINE b == tailBlock
           g == Spread(at, t)
           h == Spread(at, t)'
<1>5. b \in Block /\ b <= allocated /\ t \in Nat /\ at[t] = b
  BY <1>2, Where
<1>6. /\ size[b] \in Nat /\ size[b] > 1
      /\ front[b] \in Nat /\ front[b] < size[b]
      /\ tail[b] \in Nat /\ tail[b] < size[b]
      /\ data[b] \in [0 .. size[b] - 1 -> Nat] /\ data[b][tail[b]] = sent + 1
  BY <1>2, <1>3, <1>5, Slots DEF Stored, OnItsWay
<1>7. Step(size[b], tail[b]) # front[b]
  <2>1. ~LooksFull(b)
    BY <1>2, <1>3 DEF Producer
  <2>2. /\ localFront[b] \in Nat /\ localFront[b] < size[b]
        /\ Between(size[b], localFront[b], front[b], tail[b])
    BY <1>2, <1>5, Slots
  <2> QED
    BY <2>1, <2>2, <1>6, TailMoves DEF LooksFull
<1>8. tail'[b] = Step(size[b], tail[b]) /\ \A c \in Block \ {b} : tail'[c] = tail[c]
  BY <1>2, <1>3, <1>5, Slots DEF Typed
<1>9. Of(b)' = Append(Of(b), sent + 1)
  <2>1. Of(b)' = Held(data[b], size[b], front[b], Step(size[b], tail[b]))
    BY <1>3, <1>8 DEF Of
  <2>2. PICK n, f, k, d : n = size[b] /\ f = front[b] /\ k = tail[b] /\ d = data[b]
    OBVIOUS
  <2>3. /\ n \in Nat /\ f \in Nat /\ k \in Nat /\ n > 1 /\ f < n /\ k < n
        /\ d \in [0 .. n - 1 -> Nat] /\ Step(n, k) # f
    BY <2>2, <1>6, <1>7
  <2>4. Held(d, n, f, Step(n, k)) = Append(Held(d, n, f, k), d[k])
    BY <2>3, HeldGrows
  <2>5. Of(b) = Held(d, n, f, k) /\ d[k] = sent + 1
    BY <2>2, <1>6 DEF Of
  <2> QED
    BY <2>1, <2>2, <2>4, <2>5
<1>10. Items = Cat(g, t + 1) /\ Items' = Cat(h, t + 1)
  BY <1>2, <1>4, ViewHolds, ViewStays DEF View, QueueInv
<1>11. \A i \in 1 .. t + 1 : g[i] = Of(at[i - 1]) /\ g[i] \in Seq(Nat)
                             /\ i - 1 \in 0 .. N - 1 /\ at[i - 1] \in Block
  BY <1>2, SpreadTyped
<1>12. h = [i \in 1 .. t + 1 |-> Of(at[i - 1])']
  BY DEF Spread
<1>13. PICK n \in Nat : n > 0 /\ n = t + 1 /\ n - 1 = t /\ n \in 1 .. t + 1
  BY <1>5
<1>14. h[n] = Append(g[n], sent + 1)
  <2>1. g[n] = Of(at[t]) /\ h[n] = Of(at[t])'
    BY <1>11, <1>12, <1>13
  <2>2. Of(at[t])' = Of(b)'
    BY <1>3, <1>5 DEF Of
  <2> QED
    BY <2>1, <2>2, <1>5, <1>9
<1>15. ASSUME NEW i \in 1 .. n - 1 PROVE h[i] = g[i]
  <2>1. i \in 1 .. t + 1 /\ i - 1 # t
    BY <1>5, <1>13
  <2>2. at[i - 1] \in Block \ {b}
    BY <2>1, <1>2, <1>11, Where
  <2>3. Of(at[i - 1])' = Of(at[i - 1])
    BY <2>2, <1>3, <1>8 DEF Of, Held, Ahead
  <2> QED
    BY <2>1, <2>3, <1>11, <1>12
<1> HIDE DEF g, h
<1>16. sent + 1 \in Nat
  BY <1>2 DEF Typed
<1>17. Cat(h, n) = Append(Cat(g, n), sent + 1)
  <2>1. \A i \in 1 .. n : g[i] \in Seq(Nat)
    BY <1>11, <1>13
  <2> QED
    BY <2>1, <1>13, <1>14, <1>15, <1>16, CatGrows
<1> QED
  BY <1>10, <1>13, <1>17

(* The element is in the queue as soon as its block is the tail block.     *)
LEMMA AdvanceTailItems ==
  ASSUME QueueInv, QueueInv', Stored, AdvanceTail
  PROVE  Items' = Append(Items, sent + 1)
<1>1. PICK at \in [0 .. N - 1 -> 1 .. N], t \in 0 .. N - 1 : Laid(at, t)
  BY DEF QueueInv
<1>2. Typed /\ Indices /\ Ring(at, t) /\ Filled(at, t) /\ Producer(t)
  BY <1>1 DEF QueueInv, Laid
<1>3. /\ pPc = "advance" /\ pPc' = "idle" /\ tailBlock' = next[tailBlock]
      /\ UNCHANGED <<data, size, front, tail, next, frontBlock, allocated>>
  BY DEF AdvanceTail, cVars, ring
<1> DEFINE b == next[tailBlock]
           g == Spread(at, t)
           h == Spread(at, t + 1)'
<1>4. /\ t < N - 1 /\ t \in Nat /\ N \in Nat /\ b = at[t + 1]
      /\ t + 1 \in 0 .. N - 1 /\ t + 1 \in 1 .. N - 1 /\ t + 1 > t
      /\ b \in Block /\ b <= allocated
  <2>1. t < N - 1
    BY <1>2, <1>3 DEF Producer
  <2>2. t \in Nat /\ N \in Nat /\ b \in Block /\ b <= allocated
    BY <1>2, Where
  <2>3. b = at[t + 1]
    BY <2>1, <1>2, Where
  <2> QED
    BY <2>1, <2>2, <2>3
<1>5. N' = N
  BY <1>3 DEF N
<1>6. Ring(at, t + 1)'
  BY <1>2, <1>3, <1>4, <1>5 DEF Ring
<1>7. /\ size[b] \in Nat /\ size[b] > 1
      /\ front[b] \in Nat /\ front[b] < size[b]
      /\ tail[b] \in Nat /\ tail[b] < size[b]
      /\ data[b][front[b]] = sent + 1
  BY <1>2, <1>3, <1>4, Slots DEF Stored, OnItsWay
<1>8. Of(at[t + 1]) = <<sent + 1>>
  <2>1. Used(b) = 1
    BY <1>2, <1>3, <1>4 DEF Filled
  <2> QED
    BY <2>1, <1>4, <1>7, HeldOne DEF Of, Used
<1> HIDE DEF b
<1>9. \A c : Of(c)' = Held(data'[c], size'[c], front'[c], tail'[c])
  BY DEF Of
<1>10. Of(at[t + 1])' = Of(at[t + 1])
  BY <1>3 DEF Of, Held, Ahead
<1>11. Items = Cat(g, t + 1) /\ Items' = Cat(h, t + 1 + 1)
  BY <1>2, <1>6, ViewHolds, ViewStays DEF View, QueueInv
<1>12. \A i \in 1 .. t + 1 : g[i] = Of(at[i - 1]) /\ g[i] \in Seq(Nat)
  BY <1>2, SpreadTyped
<1>13. h = [i \in 1 .. t + 1 + 1 |-> Of(at[i - 1])']
  BY DEF Spread
<1>14. PICK n \in Nat : n > 0 /\ n = t + 1 /\ n + 1 = t + 1 + 1 /\ n + 1 - 1 = t + 1
                        /\ n + 1 \in 1 .. t + 1 + 1
  BY <1>4
<1>15. h[n + 1] = <<sent + 1>>
  BY <1>8, <1>10, <1>13, <1>14
<1>16. ASSUME NEW i \in 1 .. n PROVE h[i] = g[i]
  <2>1. i \in 1 .. t + 1 /\ i \in 1 .. t + 1 + 1
    BY <1>4, <1>14
  <2>2. Of(at[i - 1])' = Of(at[i - 1])
    BY <1>3 DEF Of, Held, Ahead
  <2> QED
    BY <2>1, <2>2, <1>12, <1>13
<1> HIDE DEF g, h
<1>17. Cat(h, n + 1) = Cat(h, n) \o h[n + 1]
  BY <1>14, CatNext
<1>18. Cat(h, n) = Cat(g, n)
  BY <1>16, CatAlike
<1>19. Cat(g, n) \in Seq(Nat)
  BY <1>12, <1>14, CatTyped
<1>20. Cat(g, n) \o <<sent + 1>> = Append(Cat(g, n), sent + 1)
  <2>1. sent + 1 \in Nat
    BY <1>2 DEF Typed
  <2> QED
    BY <2>1, <1>19, AppendIsConcat
<1> QED
  BY <1>11, <1>14, <1>15, <1>17, <1>18, <1>20

-----------------------------------------------------------------------------

(* The queue is empty at first.                                            *)
LEMMA InitFifo == QueueInit => F!Init
<1> SUFFICES ASSUME QueueInit PROVE F!Init
  OBVIOUS
<1>1. QueueInv
  BY InitQueueInv
<1>2. PICK at \in [0 .. N - 1 -> 1 .. N], t \in 0 .. N - 1 : Laid(at, t)
  BY <1>1 DEF QueueInv
<1>3. t = 0 /\ front[frontBlock] = tail[frontBlock]
  <2>1. 1 \in Block
    BY Numbers DEF Block
  <2>2. front[frontBlock] = tail[frontBlock] /\ frontBlock = tailBlock
    BY <2>1 DEF QueueInit
  <2>3. frontBlock = tailBlock <=> t = 0
    BY <1>1, <1>2, Where DEF QueueInv, Laid
  <2> QED
    BY <2>2, <2>3
<1>4. Items = <<>>
  BY <1>1, <1>2, <1>3, EmptyAtFront DEF QueueInv, Laid
<1> QED
  BY <1>4 DEF QueueInit, F!Init

(* The producer: Publish and AdvanceTail enqueue, AllocFails is a failed   *)
(* enqueue, the other steps are not seen.                                  *)
LEMMA ProduceFifo ==
  ASSUME QueueInv, QueueInv', Stored, Produce
  PROVE  F!Next \/ UNCHANGED F!vars
<1>1. UNCHANGED <<call, emptyAtCall, result>>
  BY DEF Produce, BeginEnqueue, ReadFront, ReadFrontOr, Write, Publish, CheckNext,
         ReadNextFront, WriteNext, AllocFails, Alloc, Link, AdvanceTail, cVars
<1>2. CASE BeginEnqueue \/ ReadFront \/ CheckNext \/ ReadNextFront
  <2>1. /\ UNCHANGED <<data, size, front, tail, next, frontBlock, tailBlock, sent,
                        accepted, allocated>>
        /\ pPc # "link" /\ pPc' # "link"
    BY <1>2 DEF BeginEnqueue, ReadFront, ReadFrontOr, CheckNext, ReadNextFront, cVars, ring
  <2>2. N' = N
    BY <2>1 DEF N
  <2>3. Items' = Items
    BY <2>1, <2>2, QuietItems
  <2> QED
    BY <1>1, <2>1, <2>3 DEF F!vars
<1>3. CASE Write
  BY <1>1, <1>3, WriteItems DEF F!vars, Write
<1>4. CASE Publish
  BY <1>1, <1>4, PublishItems DEF F!Next, F!Enqueue, Publish
<1>5. CASE WriteNext
  BY <1>1, <1>5, WriteNextItems DEF F!vars, WriteNext
<1>6. CASE AllocFails
  <2>1. /\ UNCHANGED <<data, size, front, tail, next, frontBlock, tailBlock, allocated>>
        /\ pPc # "link" /\ pPc' # "link" /\ sent' = sent + 1
        /\ accepted' = FALSE
    BY <1>6 DEF AllocFails, cVars, ring
  <2>2. N' = N
    BY <2>1 DEF N
  <2>3. Items' = Items
    BY <2>1, <2>2, QuietItems
  <2> QED
    BY <1>1, <2>1, <2>3 DEF F!Next, F!EnqueueFails
<1>7. CASE Alloc
  BY <1>1, <1>7, AllocItems DEF F!vars, Alloc
<1>8. CASE Link
  BY <1>1, <1>8, LinkItems DEF F!vars, Link
<1>9. CASE AdvanceTail
  BY <1>1, <1>9, AdvanceTailItems DEF F!Next, F!Enqueue, AdvanceTail
<1> QED
  BY <1>2, <1>3, <1>4, <1>5, <1>6, <1>7, <1>8, <1>9 DEF Produce

(* The consumer: Begin is the call, UseSlot returns the front,             *)
(* ReadTailBlock returns empty if it finds the queue so, and then it was   *)
(* empty when the operation was called; the other steps are not seen.      *)
LEMMA ConsumeFifo ==
  ASSUME QueueInv, QueueInv', Stored, Consume
  PROVE  F!Next \/ UNCHANGED F!vars
<1>1. PICK at \in [0 .. N - 1 -> 1 .. N], t \in 0 .. N - 1 : Laid(at, t)
  BY DEF QueueInv
<1>2. Typed /\ Indices /\ Ring(at, t) /\ Consumer(t)
  BY <1>1 DEF QueueInv, Laid
<1>3. /\ UNCHANGED <<data, size, tail, next, tailBlock, allocated, pPc, sent, accepted>>
      /\ N' = N
  BY DEF Consume, Operate, Begin, ReadTail, ReadTailOr, ReadTailBlock, ReadTailBlockOr,
         ReadTailAgain, LookAtNext, AdvanceFront, UseSlot, pVars, ring, N
<1>4. UNCHANGED <<front, frontBlock>> => Items' = Items
  BY <1>3, QuietItems
<1>5. cPc # "idle" => call # "none"
  BY <1>2 DEF Consumer
<1>6. CASE \E op \in {"peek", "pop"} : Begin(op)
  <2>1. PICK op \in {"peek", "pop"} : Begin(op)
    BY <1>6
  <2>2. /\ call = "none" /\ call' = op /\ emptyAtCall' = (Items = <<>>)
        /\ UNCHANGED <<front, frontBlock, result>>
    BY <2>1, <1>2 DEF Begin, Consumer
  <2>3. F!Call(op)
    BY <2>2, <1>3, <1>4 DEF F!Call
  <2> QED
    BY <2>3 DEF F!Next
<1>7. CASE ReadTail \/ ReadTailAgain \/ LookAtNext
  <2>1. UNCHANGED <<front, frontBlock, call, emptyAtCall, result>>
    BY <1>7 DEF ReadTail, ReadTailAgain, ReadTailOr, LookAtNext
  <2> QED
    BY <2>1, <1>3, <1>4 DEF F!vars
<1>8. CASE ReadTailBlock
  <2>1. cPc = "tailBlock" /\ UNCHANGED <<front, frontBlock, emptyAtCall>>
    BY <1>8 DEF ReadTailBlock, ReadTailBlockOr
  <2>2. CASE frontBlock = tailBlock
    <3>1. emptyAtCall
      <4>1. t = 0 /\ ~(t > 0)
        BY <2>2, <1>2, Where
      <4> QED
        BY <4>1, <2>1, <1>2 DEF Consumer
    <3>2. call' = "none" /\ result' = 0
      BY <2>2, <1>8 DEF ReadTailBlock, ReadTailBlockOr
    <3>3. F!ReturnEmpty
      BY <3>1, <3>2, <2>1, <1>3, <1>4, <1>5 DEF F!ReturnEmpty
    <3> QED
      BY <3>3 DEF F!Next, F!Return
  <2>3. CASE frontBlock # tailBlock
    BY <2>1, <2>3, <1>3, <1>4, <1>8 DEF ReadTailBlock, ReadTailBlockOr, F!vars
  <2> QED
    BY <2>2, <2>3
<1>9. CASE AdvanceFront
  BY <1>3, <1>9, AdvanceFrontItems DEF AdvanceFront, F!vars
<1>10. CASE UseSlot
  <2>1. /\ cPc = "slot" /\ result' = data[cBlock][front[cBlock]] /\ call' = "none"
        /\ UNCHANGED emptyAtCall
    BY <1>10 DEF UseSlot
  <2>2. Items # <<>> /\ Head(Items) = data[cBlock][front[cBlock]]
    BY <2>1, SlotIsHead
  <2>3. Items' = IF call = "pop" THEN Tail(Items) ELSE Items
    BY <1>10, UseSlotItems
  <2>4. F!ReturnFront
    BY <2>1, <2>2, <2>3, <1>3, <1>5 DEF F!ReturnFront
  <2> QED
    BY <2>4 DEF F!Next, F!Return
<1> QED
  BY <1>6, <1>7, <1>8, <1>9, <1>10 DEF Consume, Operate

(* Every step of the queue is a step of the Fifo or leaves it as it is.    *)
LEMMA NextFifo ==
  QueueInv /\ QueueInv' /\ Stored /\ [QueueNext]_queueVars => [F!Next]_F!vars
<1> SUFFICES ASSUME QueueInv, QueueInv', Stored, [QueueNext]_queueVars
             PROVE  F!Next \/ UNCHANGED F!vars
  OBVIOUS
<1>1. CASE UNCHANGED queueVars
  <2>1. /\ UNCHANGED <<data, size, front, tail, next, frontBlock, tailBlock>> /\ N' = N
        /\ UNCHANGED <<sent, accepted, call, emptyAtCall, result>>
    BY <1>1 DEF queueVars, pVars, cVars, ring, N
  <2> QED
    BY <2>1, QuietItems DEF F!vars
<1> QED
  BY <1>1, ProduceFifo, ConsumeFifo DEF QueueNext

(* The lock-free queue is a first-in first-out queue whose operations take *)
(* effect in one instant: it loses, repeats and reorders nothing, pop and  *)
(* peek return the oldest element, and report an empty queue only if it    *)
(* was empty when they were called.  (That they always return is a matter  *)
(* of fairness and is checked by the run.)                                 *)
THEOREM QueueImplementsFifo == QueueSpec => F!Spec
<1>1. QueueInv /\ Stored /\ [QueueNext]_queueVars => QueueInv' /\ Stored'
  BY NextQueueInv, NextStored
<1>2. QueueInv /\ QueueInv' /\ Stored /\ [QueueNext]_queueVars => [F!Next]_F!vars
  BY NextFifo
<1>3. QueueInit => QueueInv /\ Stored /\ F!Init
  BY InitQueueInv, InitStored, InitFifo
<1> QED
  BY <1>1, <1>2, <1>3, PTL DEF QueueSpec, F!Spec
=============================================================================
