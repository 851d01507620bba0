------------------------------- MODULE ApuProofs -------------------------------
(***************************************************************************)
(* Proofs about the frame sequencer of Apu, for every position of its      *)
(* marks, every initial counter and every sequence of writes, and about    *)
(* the channel of Dmc, for every table of rates, every address window and  *)
(* every set of samples that fit into it.                                  *)
(***************************************************************************)
EXTENDS Apu, Dmc, TLAPS

(* Between two half clocks the history follows from the counter.           *)
InStep ==
  /\ sinceHalf = IF frame_counter_ < Half THEN frame_counter_
                 ELSE frame_counter_ - Half
  /\ quartersOnly = IF \/ frame_counter_ < Quarter
                       \/ Half <= frame_counter_ /\ frame_counter_ < ThreeQuarters
                    THEN 0 ELSE 1

(* The way of the counter to the next half clock.                          *)
ToHalf == IF frame_counter_ < Half THEN Half - frame_counter_
          ELSE IF frame_counter_ < Full THEN Full - frame_counter_
          ELSE WordSize - frame_counter_ + Half

(* A pending write is about to be answered by the end of the frame.        *)
Rhythm ==
  /\ written => /\ frame_counter_ \in Full - 4 .. Full - 1
                /\ Full - frame_counter_ <= todo
  /\ settled => frame_counter_ < Full
  /\ settled /\ ~written => InStep
  /\ ~settled /\ ~written => sinceHalf + ToHalf <= LongestWait
  /\ written => sinceHalf + (Full - frame_counter_) <= LongestWait + 3

(* How long the timers of the pulse and noise channels have waited.  Even  *)
(* values of the counter clock them, except for the 0 at the end of a      *)
(* frame, which stands for the odd Full.                                   *)
Waited ==
  /\ ~written /\ frame_counter_ % 2 = 0 /\ frame_counter_ # 0 => sinceTimer = 0
  /\ ~written /\ frame_counter_ = 0 => sinceTimer <= 1
  /\ ~written /\ frame_counter_ % 2 = 1 =>
       sinceTimer <= IF frame_counter_ = 1 THEN 2 ELSE 1
  /\ written /\ frame_counter_ = Full - 4 => sinceTimer <= 1
  /\ written /\ frame_counter_ = Full - 3 => sinceTimer <= 2
  /\ written /\ frame_counter_ = Full - 2 => sinceTimer <= 3
  /\ written /\ frame_counter_ = Full - 1 => sinceTimer = 0

IInv == TypeOK /\ Rhythm /\ Waited

-----------------------------------------------------------------------------
LEMMA Parity ==
  ASSUME NEW n \in Int
  PROVE  /\ n % 2 \in {0, 1}
         /\ (n + 1) % 2 = 1 - (n % 2)
  OBVIOUS

LEMMA FullNat == Full \in Nat /\ Full > 8
<1>1. /\ Full \in Nat /\ Quarter \in Nat /\ Half \in Nat /\ ThreeQuarters \in Nat
      /\ 1 < Quarter /\ Quarter < Half /\ Half < ThreeQuarters
      /\ ThreeQuarters < Full - 4
  BY MarksAssumption
<1> QED
  BY <1>1

(* Full is odd, and the parities of the last values of a frame.            *)
LEMMA EndOfFrame ==
  /\ Full \in Nat /\ Full % 2 = 1 /\ Full > 8
  /\ (Full - 1) % 2 = 0 /\ (Full - 2) % 2 = 1
  /\ (Full - 3) % 2 = 0 /\ (Full - 4) % 2 = 1
<1>1. Full \in Nat /\ Full % 2 = 1 /\ Full > 8
  BY FullNat, MarksAssumption
<1> QED
  BY <1>1

LEMMA CountedIs ==
  ASSUME frame_counter_ \in 0 .. WordSize - 1
  PROVE  Counted = IF frame_counter_ + 1 = WordSize THEN 0 ELSE frame_counter_ + 1
<1> DEFINE f == frame_counter_ + 1
<1>1. CASE f = WordSize
  <2>1. WordSize % WordSize = 0
    BY WordAssumption, MarksAssumption
  <2> QED
    BY <1>1, <2>1 DEF Counted
<1>2. CASE f < WordSize
  <2>1. f \in Nat /\ WordSize \in Nat /\ WordSize > 0
    BY WordAssumption, MarksAssumption
  <2> HIDE DEF f
  <2>2. f % WordSize = f
    BY <1>2, <2>1
  <2> QED
    BY <1>2, <2>2 DEF Counted, f
<1> QED
  BY <1>1, <1>2, WordAssumption

-----------------------------------------------------------------------------
LEMMA InitIInv == Init => IInv
<1> SUFFICES ASSUME Init PROVE IInv
  OBVIOUS
<1>1. TypeOK
  BY DEF Init, TypeOK
<1>2. Rhythm
  <2>1. frame_counter_ \in Nat /\ frame_counter_ < WordSize
    BY WordAssumption, MarksAssumption DEF Init
  <2>2. ToHalf <= LongerHalf + (WordSize - Full)
    BY <2>1, WordAssumption, MarksAssumption DEF ToHalf, LongerHalf
  <2>3. ToHalf \in Nat
    BY <2>1, WordAssumption, MarksAssumption DEF ToHalf
  <2> QED
    BY <2>2, <2>3 DEF Init, Rhythm, LongestWait
<1>3. Waited
  BY DEF Init, Waited
<1> QED
  BY <1>1, <1>2, <1>3 DEF IInv

LEMMA WriteStep ==
  ASSUME IInv, NEW k \in WriteCycles, WriteFrameCounter(k)
  PROVE  IInv'
<1>1. k \in Nat /\ k >= 4
  BY WriteCyclesAssumption
<1>2. ~written
  BY EndOfFrame DEF IInv, TypeOK, Rhythm, WriteFrameCounter
<1>3. /\ frame_counter_' = IF frame_counter_ % 2 = 0 THEN Full - 4 ELSE Full - 3
      /\ frame_counter_ % 2 \in {0, 1}
      /\ frame_counter_ \in Nat /\ frame_counter_ < WordSize
  BY Parity, WordAssumption, MarksAssumption DEF IInv, TypeOK, WriteFrameCounter, AfterWrite
<1>4. TypeOK'
  BY <1>1, <1>3, EndOfFrame, WordAssumption
  DEF IInv, TypeOK, WriteFrameCounter
<1>5. Rhythm'
  <2>1. written' /\ settled' = settled /\ sinceHalf' = sinceHalf /\ todo' = k
    BY DEF WriteFrameCounter
  <2>2. LongestWait \in Nat /\ sinceHalf \in Nat /\ LongestWait' = LongestWait
    BY <2>1, MarksAssumption, WordAssumption
    DEF LongerHalf, LongestWait, IInv, TypeOK
  <2>3. sinceHalf + 4 <= LongestWait + 3
    <3>1. CASE settled
      BY <1>2, <1>3, <3>1, MarksAssumption
      DEF IInv, TypeOK, Rhythm, InStep, LongerHalf, LongestWait
    <3>2. CASE ~settled
      <4>1. ToHalf \in Nat /\ ToHalf >= 1
        BY <1>3, WordAssumption, MarksAssumption DEF ToHalf
      <4> QED
        BY <1>2, <2>2, <3>2, <4>1 DEF IInv, Rhythm
    <3> QED
      BY <3>1, <3>2 DEF IInv, TypeOK
  <2>4. frame_counter_' \in {Full - 4, Full - 3}
    BY <1>3
  <2>5. frame_counter_' \in Full - 4 .. Full - 1 /\ Full - frame_counter_' <= todo'
    <3>1. CASE frame_counter_' = Full - 4
      BY <1>1, <2>1, <3>1, FullNat
    <3>2. CASE frame_counter_' = Full - 3
      BY <1>1, <2>1, <3>2, FullNat
    <3> QED
      BY <2>4, <3>1, <3>2
  <2>6. frame_counter_' < Full
    BY <2>5, FullNat
  <2>7. sinceHalf' + (Full - frame_counter_') <= LongestWait + 3
    <3>1. CASE frame_counter_' = Full - 4
      BY <2>1, <2>2, <2>3, <3>1, FullNat
    <3>2. CASE frame_counter_' = Full - 3
      BY <2>1, <2>2, <2>3, <3>2, FullNat
    <3> QED
      BY <2>4, <3>1, <3>2
  <2> QED
    BY <2>1, <2>2, <2>5, <2>6, <2>7 DEF Rhythm
<1>6. Waited'
  <2>1. written' /\ sinceTimer' = sinceTimer
    BY DEF WriteFrameCounter
  <2>2. frame_counter_ % 2 = 0 => sinceTimer <= 1
    BY <1>2 DEF IInv, TypeOK, Waited
  <2>3. frame_counter_ % 2 = 1 => sinceTimer <= 2
    BY <1>2 DEF IInv, TypeOK, Waited
  <2> QED
    BY <1>3, <2>1, <2>2, <2>3, EndOfFrame DEF Waited
<1> QED
  BY <1>4, <1>5, <1>6 DEF IInv

LEMMA ClockStep ==
  ASSUME IInv, ClockCycle
  PROVE  IInv'
<1>1. TypeOK'
  <2>1. Counted \in 0 .. WordSize - 1
    BY CountedIs, WordAssumption, MarksAssumption DEF IInv, TypeOK
  <2>2. frame_counter_' \in 0 .. WordSize - 1
    BY <2>1, WordAssumption, MarksAssumption DEF ClockCycle, AfterCycle
  <2>3. todo' \in Nat
    BY DEF IInv, TypeOK, ClockCycle
  <2>4. sinceTimer' \in Nat /\ settled' \in BOOLEAN
    BY DEF IInv, TypeOK, ClockCycle
  <2>5. sinceHalf' \in Nat /\ quartersOnly' \in Nat /\ written' \in BOOLEAN
    <3>1. sinceHalf \in Nat /\ quartersOnly \in Nat /\ written \in BOOLEAN
      BY DEF IInv, TypeOK
    <3>2. CASE HalfClock(Counted)
      <4>1. sinceHalf' = 0 /\ quartersOnly' = 0 /\ ~written' /\ written' = FALSE
        BY <3>2 DEF ClockCycle
      <4> QED
        BY <4>1
    <3>3. CASE ~HalfClock(Counted)
      <4>1. /\ sinceHalf' = sinceHalf + 1 /\ written' = written
            /\ quartersOnly' = IF QuarterClock(Counted) THEN quartersOnly + 1
                               ELSE quartersOnly
        BY <3>3 DEF ClockCycle
      <4>2. quartersOnly' \in Nat
        BY <3>1, <4>1
      <4> QED
        BY <3>1, <4>1, <4>2
    <3> QED
      BY <3>2, <3>3
  <2> QED
    BY <2>2, <2>3, <2>4, <2>5 DEF TypeOK
<1>2. frame_counter_ \in Nat /\ frame_counter_ < WordSize
  BY WordAssumption, MarksAssumption DEF IInv, TypeOK
<1>3. frame_counter_ < Full => Counted = frame_counter_ + 1
  BY CountedIs, WordAssumption, MarksAssumption DEF IInv, TypeOK
<1>4. Rhythm'
  <2>1. CASE Counted = Full
    <3>1. /\ frame_counter_' = 0 /\ sinceHalf' = 0 /\ quartersOnly' = 0 /\ ~written'
          /\ settled'
      BY <2>1 DEF ClockCycle, AfterCycle, HalfClock
    <3> QED
      BY <3>1, MarksAssumption DEF Rhythm, InStep
  <2>2. CASE Counted # Full
    <3>1. frame_counter_' = Counted /\ settled' = (settled \/ Counted = Half)
      BY <2>2, <1>1 DEF ClockCycle, AfterCycle, HalfClock, IInv, TypeOK
    <3>2. CASE written
      <4>1. /\ frame_counter_ < Full /\ frame_counter_ >= Full - 4
            /\ Full - frame_counter_ <= todo
        BY <3>2, EndOfFrame DEF IInv, Rhythm
      <4>2. /\ frame_counter_' = frame_counter_ + 1
            /\ Counted # Half /\ Counted > Half
        BY <1>2, <1>3, <3>1, <4>1, MarksAssumption
      <4>3. written' /\ sinceHalf' = sinceHalf + 1 /\ todo' = todo - 1
        BY <2>2, <3>2, <4>2 DEF ClockCycle, HalfClock
      <4>4. sinceHalf + (Full - frame_counter_) <= LongestWait + 3
        BY <3>2 DEF IInv, Rhythm
      <4>5. settled' = settled /\ LongestWait' = LongestWait
        BY <3>1, <4>2 DEF LongestWait, IInv, TypeOK
      <4>6. LongestWait \in Nat /\ sinceHalf \in Nat /\ todo \in Nat
        BY MarksAssumption, WordAssumption DEF LongerHalf, LongestWait, IInv, TypeOK
      <4>7. frame_counter_' < Full
        BY <1>2, <1>3, <2>2, <4>1, <4>2, EndOfFrame
      <4>8. /\ frame_counter_' \in Full - 4 .. Full - 1
            /\ Full - frame_counter_' <= todo'
        BY <1>2, <4>1, <4>2, <4>3, <4>6, <4>7, EndOfFrame
      <4>9. sinceHalf' + (Full - frame_counter_') <= LongestWait + 3
        BY <1>2, <4>2, <4>3, <4>4, <4>6, EndOfFrame
      <4> QED
        BY <4>3, <4>5, <4>7, <4>8, <4>9 DEF Rhythm
    <3>3. CASE ~written
      <4>1. ~written'
        BY <3>3 DEF ClockCycle
      <4>2. CASE Counted = Half
        <5>1. /\ sinceHalf' = 0 /\ quartersOnly' = 0 /\ frame_counter_' = Half
              /\ settled'
          BY <3>1, <4>2 DEF ClockCycle, HalfClock
        <5> QED
          BY <4>1, <5>1, MarksAssumption DEF Rhythm, InStep
      <4>3. ASSUME settled, Counted # Half
            PROVE  frame_counter_' < Full /\ InStep'
        <5>1. /\ frame_counter_' = frame_counter_ + 1 /\ frame_counter_' < Full
              /\ InStep
          BY <1>2, <1>3, <2>2, <3>1, <3>3, <4>3, EndOfFrame DEF IInv, Rhythm
        <5>2. /\ sinceHalf' = sinceHalf + 1
              /\ quartersOnly' = IF Counted \in {Quarter, ThreeQuarters}
                                 THEN quartersOnly + 1 ELSE quartersOnly
          BY <2>2, <4>3 DEF ClockCycle, HalfClock, QuarterClock
        <5>3. Counted = frame_counter_ + 1
          BY <3>1, <5>1
        <5> QED
          BY <1>2, <4>3, <5>1, <5>2, <5>3, MarksAssumption DEF InStep
      <4>4. ASSUME ~settled, Counted # Half
            PROVE  sinceHalf' + ToHalf' <= LongestWait'
        <5>1. sinceHalf' = sinceHalf + 1 /\ ~settled' /\ LongestWait' = LongestWait
          BY <2>2, <3>1, <4>4 DEF ClockCycle, HalfClock, LongestWait, IInv, TypeOK
        <5>2. ToHalf' = ToHalf - 1 /\ ToHalf \in Int
          <6>1. Counted = IF frame_counter_ + 1 = WordSize THEN 0 ELSE frame_counter_ + 1
            BY CountedIs DEF IInv, TypeOK
          <6> QED
            BY <1>2, <2>2, <3>1, <4>4, <6>1, WordAssumption, MarksAssumption DEF ToHalf
        <5>3. sinceHalf + ToHalf <= LongestWait /\ sinceHalf \in Nat /\ LongestWait \in Nat
          BY <3>3, <4>4, MarksAssumption, WordAssumption
          DEF IInv, TypeOK, Rhythm, LongestWait, LongerHalf
        <5> QED
          BY <5>1, <5>2, <5>3
      <4> QED
        BY <3>1, <4>1, <4>2, <4>3, <4>4 DEF Rhythm, IInv, TypeOK
    <3> QED
      BY <3>2, <3>3 DEF IInv, TypeOK
  <2> QED
    BY <2>1, <2>2
<1>5. Waited'
  <2>1. CASE Counted % 2 = 0
    <3>1. sinceTimer' = 0
      BY <2>1 DEF ClockCycle, ApuClock
    <3> QED
      BY <3>1 DEF Waited
  <2>2. CASE Counted % 2 = 1
    <3>1. sinceTimer' = sinceTimer + 1 /\ sinceTimer \in Nat
      BY <2>2 DEF ClockCycle, ApuClock, IInv, TypeOK
    <3>2. Counted = frame_counter_ + 1 /\ frame_counter_ % 2 = 0
      BY <2>2, CountedIs, <1>2, Parity DEF IInv, TypeOK
    <3>3. CASE written
      <4>1. frame_counter_ \in {Full - 3, Full - 1}
        BY <3>2, <3>3, EndOfFrame DEF IInv, Rhythm
      <4>2. CASE frame_counter_ = Full - 3
        <5>1. Counted = Full - 2 /\ Counted # Full /\ Counted # Half
          BY <3>2, <4>2, FullNat, MarksAssumption
        <5>2. frame_counter_' = Full - 2 /\ written'
          BY <3>3, <5>1 DEF ClockCycle, AfterCycle, HalfClock
        <5>3. sinceTimer <= 2
          BY <3>3, <4>2 DEF IInv, Waited
        <5> QED
          BY <3>1, <5>2, <5>3, FullNat, EndOfFrame DEF Waited
      <4>3. CASE frame_counter_ = Full - 1
        <5>1. frame_counter_' = 0 /\ ~written' /\ sinceTimer = 0
          BY <3>2, <3>3, <4>3, EndOfFrame
          DEF ClockCycle, AfterCycle, HalfClock, IInv, Waited
        <5> QED
          BY <3>1, <5>1 DEF Waited
      <4> QED
        BY <4>1, <4>2, <4>3
    <3>4. CASE ~written
      <4>1. ~written'
        BY <3>4 DEF ClockCycle
      <4>2. sinceTimer <= IF frame_counter_ = 0 THEN 1 ELSE 0
        BY <3>2, <3>4, <1>2 DEF IInv, TypeOK, Waited
      <4>3. frame_counter_' = 0 \/ frame_counter_' = frame_counter_ + 1
        BY <3>2 DEF ClockCycle, AfterCycle
      <4>4. CASE frame_counter_' = 0
        <5>1. frame_counter_ # 0
          BY <3>2, <4>4, EndOfFrame DEF ClockCycle, AfterCycle
        <5> QED
          BY <3>1, <4>1, <4>2, <4>4, <5>1 DEF Waited
      <4>5. CASE frame_counter_' = frame_counter_ + 1
        <5>1. frame_counter_' % 2 = 1
          BY <2>2, <3>2, <4>5
        <5> QED
          BY <1>2, <3>1, <4>1, <4>2, <4>5, <5>1 DEF Waited
      <4> QED
        BY <4>3, <4>4, <4>5
    <3> QED
      BY <3>3, <3>4 DEF IInv, TypeOK
  <2>3. Counted % 2 \in {0, 1}
    BY CountedIs, <1>2, Parity DEF IInv, TypeOK
  <2> QED
    BY <2>1, <2>2, <2>3
<1> QED
  BY <1>1, <1>4, <1>5 DEF IInv

LEMMA NextIInv == IInv /\ [Next]_vars => IInv'
<1> SUFFICES ASSUME IInv, [Next]_vars PROVE IInv'
  OBVIOUS
<1>1. CASE ClockCycle
  BY <1>1, ClockStep
<1>2. ASSUME NEW k \in WriteCycles, WriteFrameCounter(k) PROVE IInv'
  BY <1>2, WriteStep
<1>3. ASSUME NEW k \in Cycles, OtherCycles(k) PROVE IInv'
  <2>1. k \in Nat /\ UNCHANGED <<frame_counter_, history>> /\ todo' = k /\ todo = 0
    BY <1>3, CyclesAssumption DEF OtherCycles
  <2>2. ~written
    BY <2>1, EndOfFrame DEF IInv, TypeOK, Rhythm
  <2> QED
    BY <2>1, <2>2 DEF IInv, TypeOK, Rhythm, Waited, InStep, ToHalf, LongestWait, history
<1>4. CASE UNCHANGED vars
  BY <1>4 DEF vars, history, IInv, TypeOK, Rhythm, Waited, InStep, ToHalf, LongestWait
<1> QED
  BY <1>1, <1>2, <1>3, <1>4 DEF Next

LEMMA SpecIInv == Spec => []IInv
  BY InitIInv, NextIInv, PTL DEF Spec

-----------------------------------------------------------------------------
(* frame_counter_ stays a 16-bit number, whatever it was at the start.     *)
THEOREM ApuTypeCorrect == Spec => []TypeOK
<1>1. IInv => TypeOK
  BY DEF IInv
<1> QED
  BY <1>1, SpecIInv, PTL

(* The timers of the pulse and noise channels never wait longer than four  *)
(* cycles, in the frames ended early by writes too.                        *)
THEOREM ApuTimerGap == Spec => []TimerGap
<1>1. IInv => TimerGap
  <2> SUFFICES ASSUME IInv PROVE sinceTimer <= 3
    BY DEF TimerGap
  <2>1. frame_counter_ \in Nat /\ frame_counter_ % 2 \in {0, 1}
    BY Parity, WordAssumption, MarksAssumption DEF IInv, TypeOK
  <2>2. CASE written
    <3>1. frame_counter_ \in {Full - 4, Full - 3, Full - 2, Full - 1}
      BY <2>2, EndOfFrame DEF IInv, Rhythm
    <3> QED
      BY <2>2, <3>1 DEF IInv, TypeOK, Waited
  <2>3. CASE ~written
    BY <2>1, <2>3 DEF IInv, TypeOK, Waited
  <2> QED
    BY <2>2, <2>3 DEF IInv, TypeOK
<1> QED
  BY <1>1, SpecIInv, PTL

(* A write is answered before the next instruction can write again.        *)
THEOREM ApuWriteAnswered == Spec => []WriteAnswered
<1>1. IInv => WriteAnswered
  BY EndOfFrame DEF IInv, TypeOK, Rhythm, WriteAnswered
<1> QED
  BY <1>1, SpecIInv, PTL

(* Lengths and sweeps are clocked in time, for the first time after the    *)
(* counter has found its way back from wherever it started.                *)
THEOREM ApuHalfInTime == Spec => []HalfInTime
<1>1. IInv => HalfInTime
  <2> SUFFICES ASSUME IInv PROVE sinceHalf <= LongestWait + 2
    BY DEF HalfInTime
  <2>1. LongestWait \in Nat /\ frame_counter_ \in Nat /\ sinceHalf \in Nat
        /\ frame_counter_ < WordSize
    BY MarksAssumption, WordAssumption DEF LongerHalf, LongestWait, IInv, TypeOK
  <2>2. CASE written
    BY <2>1, <2>2, EndOfFrame DEF IInv, Rhythm
  <2>3. CASE ~written /\ settled
    BY <2>1, <2>3, MarksAssumption DEF IInv, Rhythm, InStep, LongerHalf, LongestWait
  <2>4. CASE ~written /\ ~settled
    <3>1. ToHalf \in Nat
      BY <2>1, MarksAssumption, WordAssumption DEF ToHalf
    <3> QED
      BY <2>1, <2>4, <3>1 DEF IInv, Rhythm
  <2> QED
    BY <2>2, <2>3, <2>4 DEF IInv, TypeOK
<1> QED
  BY <1>1, SpecIInv, PTL

(* Without writes the half clocks keep their rhythm.                       *)
THEOREM ApuEvenHalves == Spec => EvenHalves
<1> DEFINE Even == todo' < todo /\ sinceHalf' = 0 /\ settled /\ ~written =>
                     /\ quartersOnly = 1
                     /\ sinceHalf + 1 = IF frame_counter_' = 0 THEN Full - Half
                                        ELSE Half
<1>1. IInv /\ [Next]_vars => [Even]_vars
  <2> SUFFICES ASSUME IInv, [Next]_vars, todo' < todo, sinceHalf' = 0, settled,
                      ~written
               PROVE  /\ quartersOnly = 1
                      /\ sinceHalf + 1 = IF frame_counter_' = 0 THEN Full - Half
                                         ELSE Half
    OBVIOUS
  <2>1. sinceHalf \in Nat /\ InStep /\ frame_counter_ \in Nat /\ frame_counter_ < Full
    BY WordAssumption, MarksAssumption DEF IInv, TypeOK, Rhythm
  <2>2. ClockCycle
    <3>1. todo \in Nat /\ todo' # todo
      BY DEF IInv, TypeOK
    <3>2. ASSUME NEW n \in WriteCycles \union Cycles, todo = 0, todo' = n PROVE FALSE
      BY <3>2, WriteCyclesAssumption, CyclesAssumption
    <3> QED
      BY <3>1, <3>2 DEF Next, vars, WriteFrameCounter, OtherCycles
  <2>3. Counted = frame_counter_ + 1
    BY <2>1, CountedIs, WordAssumption, MarksAssumption DEF IInv, TypeOK
  <2>4. Counted \in {Half, Full}
    BY <2>1, <2>2 DEF ClockCycle, HalfClock
  <2>5. frame_counter_' = IF Counted = Full THEN 0 ELSE Counted
    BY <2>2 DEF ClockCycle, AfterCycle
  <2> QED
    BY <2>1, <2>3, <2>4, <2>5, MarksAssumption DEF InStep
<1> QED
  BY <1>1, SpecIInv, PTL DEF Spec, EvenHalves

-----------------------------------------------------------------------------
(* Dmc.                                                                    *)

(* The bytes of the pass come in order.                                    *)
InOrder ==
  /\ bytes_counter <= passLength
  /\ bytes_counter > 0 =>
       address_counter = Following(passAddress, passLength - bytes_counter)

IrqMeansLoop == irq_enabled_ => loop_flag_

DmcIInv ==
  /\ DmcTypeOK
  /\ InOrder
  /\ BitsAccounted
  /\ LastByteHeldBack
  /\ DisabledStops
  /\ IrqMeansLoop /\ NoIrq

-----------------------------------------------------------------------------
(* The window of addresses as a circle.                                    *)
LEMMA FollowingInBounds ==
  ASSUME NEW a \in FirstAddresses, NEW n \in 0 .. LastAddress - WrapAddress
  PROVE  Following(a, n) \in WrapAddress .. LastAddress
<1>1. /\ a \in Nat /\ WrapAddress <= a /\ a <= LastAddress
      /\ WrapAddress \in Nat /\ LastAddress \in Nat
  BY AddressAssumption
<1> QED
  BY <1>1 DEF Following

LEMMA FollowingNext ==
  ASSUME NEW a \in FirstAddresses, NEW n \in 0 .. LastAddress - WrapAddress - 1
  PROVE  Following(a, n + 1) = IF Following(a, n) + 1 > LastAddress THEN WrapAddress
                               ELSE Following(a, n) + 1
<1>1. /\ a \in Nat /\ WrapAddress <= a /\ a <= LastAddress
      /\ WrapAddress \in Nat /\ LastAddress \in Nat
      /\ n \in Nat /\ n < LastAddress - WrapAddress
  BY AddressAssumption
<1> QED
  BY <1>1 DEF Following

LEMMA ReloadTypes ==
  ASSUME DmcTypeOK
  PROVE  /\ bytes_reload \in Nat /\ 1 <= bytes_reload
         /\ bytes_reload <= LastAddress - WrapAddress
         /\ bytes_reload \in 0 .. LastAddress
         /\ address_reload \in Nat /\ WrapAddress <= address_reload
         /\ address_reload <= LastAddress
         /\ address_reload \in 0 .. LastAddress
         /\ WrapAddress \in Nat /\ LastAddress \in Nat
<1>1. bytes_reload \in 1 .. LastAddress - WrapAddress
  BY LengthAssumption DEF DmcTypeOK
<1>2. address_reload \in WrapAddress .. LastAddress
  BY AddressAssumption DEF DmcTypeOK
<1> QED
  BY <1>1, <1>2, AddressAssumption

LEMMA PassTypes ==
  ASSUME DmcTypeOK
  PROVE  passLength \in 0 .. LastAddress - WrapAddress
  BY LengthAssumption, AddressAssumption DEF DmcTypeOK

(* The first byte of a pass is at its address.                             *)
LEMMA FollowingNone ==
  ASSUME NEW a \in FirstAddresses
  PROVE  Following(a, 0) = a
<1>1. a \in Nat /\ a <= LastAddress /\ LastAddress \in Nat
  BY AddressAssumption
<1> QED
  BY <1>1 DEF Following

LEMMA ByteMore == \A b, n \in Int : b * (n + 1) = b * n + b
  OBVIOUS

LEMMA NoBytes == \A b \in Int : b * 0 = 0
  OBVIOUS

-----------------------------------------------------------------------------
LEMMA DmcInitIInv == DmcInit => DmcIInv
<1> SUFFICES ASSUME DmcInit PROVE DmcIInv
  OBVIOUS
<1>1. DmcTypeOK
  <2>1. LastAddress \in Nat /\ BitsPerByte \in Nat /\ MaxLevel \in Nat
    BY AddressAssumption, BitsAssumption, LevelAssumption
  <2>2. /\ enabled_ \in BOOLEAN /\ irq_enabled_ \in BOOLEAN
        /\ loop_flag_ \in BOOLEAN /\ irqs \in BOOLEAN
    BY DEF DmcInit
  <2>3. /\ timer_reload \in Rates /\ timer_counter \in Nat
        /\ address_reload \in FirstAddresses /\ address_counter \in 0 .. LastAddress
        /\ bytes_reload \in Lengths /\ bytes_counter \in 0 .. LastAddress
    BY <2>1 DEF DmcInit
  <2>4. /\ shift_register_bits_remaining_ \in 0 .. BitsPerByte
        /\ output_level_ \in 0 .. MaxLevel
        /\ passAddress \in FirstAddresses /\ passLength \in Lengths \cup {0}
        /\ leftover \in 0 .. BitsPerByte /\ played \in Nat
    BY <2>1 DEF DmcInit
  <2> QED
    BY <2>2, <2>3, <2>4 DEF DmcTypeOK
<1>2. InOrder /\ LastByteHeldBack /\ DisabledStops /\ IrqMeansLoop /\ NoIrq
  BY DEF DmcInit, InOrder, LastByteHeldBack, DisabledStops, IrqMeansLoop, NoIrq
<1>3. BitsAccounted
  BY NoBytes, BitsAssumption DEF DmcInit, BitsAccounted
<1> QED
  BY <1>1, <1>2, <1>3 DEF DmcIInv

(* A pass that starts with what is left in the shift register.             *)
LEMMA StartStep ==
  ASSUME DmcIInv, NEW bits \in 0 .. BitsPerByte, StartPass(bits)
  PROVE  /\ address_counter' \in 0 .. LastAddress
         /\ bytes_counter' \in 0 .. LastAddress /\ bytes_counter' > 0
         /\ passAddress' \in FirstAddresses /\ passLength' \in Lengths \cup {0}
         /\ leftover' \in 0 .. BitsPerByte /\ played' = 0
         /\ InOrder'
         /\ leftover' = bits /\ passLength' - bytes_counter' = 0
<1>1. DmcTypeOK
  BY DEF DmcIInv
<1>2. passLength' - bytes_counter' = 0 /\ bytes_counter' <= passLength'
  BY <1>1, ReloadTypes DEF StartPass
<1>3. InOrder'
  <2>1. address_counter' = Following(passAddress', 0)
    BY <1>1, FollowingNone DEF StartPass, DmcTypeOK
  <2> QED
    BY <1>2, <2>1 DEF InOrder, Following
<1> QED
  BY <1>1, <1>2, <1>3, ReloadTypes DEF StartPass, DmcTypeOK

LEMMA EnableStep ==
  ASSUME DmcIInv, Enable
  PROVE  DmcIInv'
<1>1. CASE bytes_counter = 0
  <2>1. StartPass(shift_register_bits_remaining_)
    BY <1>1 DEF Enable
  <2>2. shift_register_bits_remaining_ \in 0 .. BitsPerByte
    BY DEF DmcIInv, DmcTypeOK
  <2>3. /\ address_counter' \in 0 .. LastAddress
        /\ bytes_counter' \in 0 .. LastAddress /\ bytes_counter' > 0
        /\ passAddress' \in FirstAddresses /\ passLength' \in Lengths \cup {0}
        /\ leftover' \in 0 .. BitsPerByte /\ played' = 0
        /\ InOrder'
        /\ leftover' = shift_register_bits_remaining_
        /\ passLength' - bytes_counter' = 0
    BY <2>1, <2>2, StartStep
  <2>4. UNCHANGED <<registers, output, irqs>> /\ enabled_' = TRUE
    BY DEF Enable
  <2>5. DmcTypeOK'
    BY <2>3, <2>4 DEF DmcIInv, DmcTypeOK, registers, output
  <2>6. BitsAccounted'
    BY <2>2, <2>3, <2>4, NoBytes, BitsAssumption DEF BitsAccounted, output
  <2>7. bytes_counter' # 0
    BY <2>3
  <2>8. LastByteHeldBack' /\ DisabledStops' /\ IrqMeansLoop' /\ NoIrq'
    BY <2>4, <2>7
    DEF DmcIInv, LastByteHeldBack, DisabledStops, IrqMeansLoop, NoIrq, registers
  <2> QED
    BY <2>3, <2>5, <2>6, <2>8 DEF DmcIInv
<1>2. CASE bytes_counter # 0
  <2>1. UNCHANGED <<registers, output, irqs, address_counter, bytes_counter, pass>>
    BY <1>2 DEF Enable
  <2>2. enabled_' = TRUE
    BY DEF Enable
  <2> QED
    BY <2>1, <2>2
    DEF DmcIInv, DmcTypeOK, InOrder, Following, BitsAccounted, LastByteHeldBack,
        DisabledStops, IrqMeansLoop, NoIrq, registers, output, pass
<1> QED
  BY <1>1, <1>2

LEMMA DisableStep ==
  ASSUME DmcIInv, Disable
  PROVE  DmcIInv'
<1>1. /\ UNCHANGED <<registers, address_counter, output, irqs>>
      /\ enabled_' = FALSE /\ bytes_counter' = 0 /\ passAddress' = passAddress
  BY DEF Disable, pass
<1>2. DisabledStops' /\ IrqMeansLoop' /\ NoIrq'
  BY <1>1 DEF DmcIInv, DisabledStops, IrqMeansLoop, NoIrq, registers
<1>3. shift_register_bits_remaining_ \in 0 .. BitsPerByte /\ BitsPerByte \in Nat
  BY BitsAssumption DEF DmcIInv, DmcTypeOK
<1>4. LastAddress \in Nat
  BY AddressAssumption
<1>5. CASE bytes_counter = 0
  <2>1. UNCHANGED pass
    BY <1>5 DEF Disable
  <2> QED
    BY <1>1, <1>2, <1>5, <2>1
    DEF DmcIInv, DmcTypeOK, InOrder, BitsAccounted, LastByteHeldBack, registers, output,
        pass
<1>6. CASE bytes_counter # 0
  <2>1. /\ passLength' = 0 /\ leftover' = shift_register_bits_remaining_
        /\ played' = 0
    BY <1>6 DEF Disable
  <2>2. DmcTypeOK'
    <3>1. DmcTypeOK
      BY DEF DmcIInv
    <3>2. /\ passLength' \in Lengths \cup {0} /\ leftover' \in 0 .. BitsPerByte
          /\ played' \in Nat
      BY <1>3, <2>1
    <3>3. bytes_counter' \in 0 .. LastAddress
      BY <1>1, <1>4
    <3>4. enabled_' \in BOOLEAN
      BY <1>1
    <3> QED
      BY <1>1, <3>1, <3>2, <3>3, <3>4 DEF DmcTypeOK, registers, output
  <2>3. InOrder' /\ LastByteHeldBack'
    BY <1>1, <2>1 DEF InOrder, LastByteHeldBack
  <2>4. BitsAccounted'
    BY <1>1, <1>3, <2>1, NoBytes DEF BitsAccounted, output
  <2> QED
    BY <1>2, <2>2, <2>3, <2>4 DEF DmcIInv
<1> QED
  BY <1>5, <1>6

LEMMA DmcWriteStep ==
  ASSUME DmcIInv, Write
  PROVE  DmcIInv'
<1>1. ASSUME NEW irq \in BOOLEAN, NEW loop \in BOOLEAN, NEW rate \in Rates,
             WriteRate(irq, loop, rate)
      PROVE  DmcIInv'
  <2>1. /\ irq_enabled_' = irq /\ loop_flag_' = (irq \/ loop) /\ timer_reload' = rate
        /\ UNCHANGED <<enabled_, address_reload, bytes_reload, reader, output, pass>>
    BY <1>1 DEF WriteRate
  <2>2. IrqMeansLoop'
    BY <2>1 DEF IrqMeansLoop
  <2>3. irq_enabled_' \in BOOLEAN /\ loop_flag_' \in BOOLEAN
    BY <2>1
  <2>4. DmcTypeOK'
    <3>1. /\ UNCHANGED <<enabled_, address_reload, bytes_reload>>
          /\ UNCHANGED <<address_counter, bytes_counter, irqs>>
          /\ UNCHANGED <<timer_counter, shift_register_bits_remaining_, output_level_>>
          /\ UNCHANGED <<passAddress, passLength, leftover, played>>
      BY <2>1 DEF reader, output, pass
    <3>2. timer_reload' \in Rates
      BY <2>1
    <3>3. DmcTypeOK
      BY DEF DmcIInv
    <3>4. /\ enabled_' \in BOOLEAN /\ irqs' \in BOOLEAN
          /\ address_reload' \in FirstAddresses /\ bytes_reload' \in Lengths
          /\ address_counter' \in 0 .. LastAddress
          /\ bytes_counter' \in 0 .. LastAddress
      BY <3>1, <3>3 DEF DmcTypeOK
    <3>5. /\ timer_counter' \in Nat /\ output_level_' \in 0 .. MaxLevel
          /\ shift_register_bits_remaining_' \in 0 .. BitsPerByte
          /\ passAddress' \in FirstAddresses /\ passLength' \in Lengths \cup {0}
          /\ leftover' \in 0 .. BitsPerByte /\ played' \in Nat
      BY <3>1, <3>3 DEF DmcTypeOK
    <3> QED
      BY <2>3, <3>2, <3>4, <3>5 DEF DmcTypeOK
  <2> QED
    BY <2>1, <2>2, <2>4
    DEF DmcIInv, InOrder, BitsAccounted, LastByteHeldBack, DisabledStops, NoIrq,
        reader, output, pass
<1>2. ASSUME NEW level \in 0 .. MaxLevel, WriteLevel(level)
      PROVE  DmcIInv'
  BY <1>2
  DEF WriteLevel, DmcIInv, DmcTypeOK, InOrder, BitsAccounted, LastByteHeldBack,
      DisabledStops, IrqMeansLoop, NoIrq, registers, reader, pass
<1>3. ASSUME NEW address \in FirstAddresses, WriteAddress(address)
      PROVE  DmcIInv'
  BY <1>3
  DEF WriteAddress, DmcIInv, DmcTypeOK, InOrder, BitsAccounted, LastByteHeldBack,
      DisabledStops, IrqMeansLoop, NoIrq, output, reader, pass
<1>4. ASSUME NEW length \in Lengths, WriteLength(length)
      PROVE  DmcIInv'
  BY <1>4
  DEF WriteLength, DmcIInv, DmcTypeOK, InOrder, BitsAccounted, LastByteHeldBack,
      DisabledStops, IrqMeansLoop, NoIrq, output, reader, pass
<1> QED
  BY <1>1, <1>2, <1>3, <1>4 DEF Write

-----------------------------------------------------------------------------
(* TimerClock, by the end of a looped sample and all other clocks.         *)
LEMMA OutputTypes ==
  ASSUME DmcIInv, NEW add \in BOOLEAN, ShiftOut(add)
  PROVE  /\ timer_counter' \in Nat
         /\ shift_register_bits_remaining_' \in 0 .. BitsPerByte
         /\ output_level_' \in 0 .. MaxLevel
         /\ shift_register_bits_remaining_' = Bits - (IF Fires THEN 1 ELSE 0)
         /\ Bits \in 1 .. BitsPerByte
<1>1. Bits \in 1 .. BitsPerByte
  BY BitsAssumption DEF DmcIInv, DmcTypeOK, Bits, Fetches
<1>2. timer_counter' \in Nat
  BY RatesAssumption DEF DmcIInv, DmcTypeOK, ShiftOut, Fires
<1>3. /\ shift_register_bits_remaining_' = Bits - (IF Fires THEN 1 ELSE 0)
      /\ shift_register_bits_remaining_' \in 0 .. BitsPerByte
  <2>1. BitsPerByte \in Nat
    BY BitsAssumption
  <2>2. shift_register_bits_remaining_' = IF Fires THEN Bits - 1 ELSE Bits
    BY DEF ShiftOut
  <2> QED
    BY <1>1, <2>1, <2>2
<1>4. output_level_' \in 0 .. MaxLevel
  <2>1. output_level_ \in 0 .. MaxLevel /\ MaxLevel \in Nat
    BY LevelAssumption DEF DmcIInv, DmcTypeOK
  <2>2. Moved(output_level_, add) \in 0 .. MaxLevel
    BY <2>1 DEF Moved
  <2> QED
    BY <2>1, <2>2 DEF ShiftOut
<1> QED
  BY <1>1, <1>2, <1>3, <1>4

LEMMA DmcClockStep ==
  ASSUME DmcIInv, NEW add \in BOOLEAN, TimerClock(add)
  PROVE  DmcIInv'
<1>1. /\ bytes_counter > 0 /\ ReadByte /\ ShiftOut(add)
      /\ enabled_' = enabled_ /\ UNCHANGED registers
  BY DEF TimerClock
<1>2. /\ timer_counter' \in Nat
      /\ shift_register_bits_remaining_' \in 0 .. BitsPerByte
      /\ output_level_' \in 0 .. MaxLevel
      /\ shift_register_bits_remaining_' = Bits - (IF Fires THEN 1 ELSE 0)
      /\ Bits \in 1 .. BitsPerByte
  BY <1>1, OutputTypes
<1>3. /\ bytes_counter \in Nat /\ bytes_counter <= passLength
      /\ bytes_counter <= LastAddress
      /\ passLength \in 0 .. LastAddress - WrapAddress
      /\ address_counter \in 0 .. LastAddress
      /\ passAddress \in FirstAddresses
      /\ played \in Nat /\ BitsPerByte \in Nat /\ BitsPerByte >= 2
      /\ WrapAddress \in Nat /\ LastAddress \in Nat
  BY PassTypes, BitsAssumption, AddressAssumption DEF DmcIInv, DmcTypeOK, InOrder
<1>4. enabled_' /\ IrqMeansLoop'
  BY <1>1 DEF DmcIInv, DisabledStops, DmcTypeOK, IrqMeansLoop, registers
<1>5. CASE Ends /\ loop_flag_
  <2>1. /\ address_counter' = address_reload /\ bytes_counter' = bytes_reload
        /\ passAddress' = address_reload /\ passLength' = bytes_reload
        /\ leftover' = BitsPerByte /\ irqs' = irqs
    BY <1>1, <1>5 DEF ReadByte
  <2>2. played' = (IF Fires THEN 1 ELSE 0) /\ Bits = BitsPerByte
    BY <1>1, <1>5 DEF ShiftOut, Ends, Bits
  <2>3. DmcTypeOK
    BY DEF DmcIInv
  <2>4. DmcTypeOK'
    <3>1. /\ address_counter' \in 0 .. LastAddress
          /\ bytes_counter' \in 0 .. LastAddress
          /\ passAddress' \in FirstAddresses
          /\ passLength' \in Lengths \cup {0}
          /\ leftover' \in 0 .. BitsPerByte
          /\ played' \in Nat
      BY <1>3, <2>1, <2>2, <2>3, ReloadTypes DEF DmcTypeOK
    <3> QED
      BY <1>1, <1>2, <2>1, <2>3, <3>1 DEF DmcTypeOK, registers
  <2>5. InOrder'
    <3>1. passLength' - bytes_counter' = 0 /\ bytes_counter' <= passLength'
      BY <2>1, <2>3, ReloadTypes
    <3>2. address_counter' = Following(passAddress', 0)
      BY <2>1, <2>3, FollowingNone DEF DmcTypeOK
    <3> QED
      BY <3>1, <3>2 DEF InOrder, Following
  <2>6. BitsAccounted'
    <3>1. passLength' - bytes_counter' = 0
      BY <2>1, <2>3, ReloadTypes
    <3>2. BitsPerByte * (passLength' - bytes_counter') = 0
      BY <1>3, <3>1, NoBytes
    <3> QED
      BY <1>2, <1>3, <2>1, <2>2, <3>2 DEF BitsAccounted
  <2>7. bytes_counter' # 0
    BY <2>1, <2>3, ReloadTypes
  <2> QED
    BY <1>4, <2>1, <2>4, <2>5, <2>6, <2>7
    DEF DmcIInv, LastByteHeldBack, DisabledStops, NoIrq
<1>6. CASE ~(Ends /\ loop_flag_)
  <2>1. /\ address_counter' = IF Fetches THEN NextAddress ELSE address_counter
        /\ bytes_counter' = IF Fetches THEN bytes_counter - 1 ELSE bytes_counter
        /\ irqs' = (irqs \/ (Ends /\ irq_enabled_))
        /\ UNCHANGED <<passAddress, passLength, leftover>>
    BY <1>1, <1>6 DEF ReadByte
  <2>2. played' = played + (IF Fires THEN 1 ELSE 0)
    BY <1>1, <1>6 DEF ShiftOut
  <2>3. NoIrq'
    BY <1>6, <2>1 DEF DmcIInv, NoIrq, IrqMeansLoop
  <2>4. bytes_counter' \in 0 .. LastAddress /\ bytes_counter' <= passLength'
    BY <1>1, <1>3, <2>1
  <2>5. address_counter' \in 0 .. LastAddress
    BY <1>3, <2>1 DEF NextAddress
  <2>6. DmcTypeOK'
    <3>1. played' \in Nat
      BY <1>3, <2>2
    <3>2. irqs' \in BOOLEAN
      BY <2>1 DEF NoIrq, DmcIInv, DmcTypeOK
    <3> QED
      BY <1>1, <1>2, <2>1, <2>4, <2>5, <3>1, <3>2 DEF DmcIInv, DmcTypeOK, registers
  <2>7. InOrder'
    <3>1. address_counter = Following(passAddress, passLength - bytes_counter)
      BY <1>1 DEF DmcIInv, InOrder
    <3>2. CASE Fetches
      <4>1. bytes_counter' = bytes_counter - 1 /\ address_counter' = NextAddress
        BY <2>1, <3>2
      <4>2. ASSUME bytes_counter' > 0
            PROVE  address_counter'
                     = Following(passAddress, (passLength - bytes_counter) + 1)
        <5>1. passLength - bytes_counter \in 0 .. LastAddress - WrapAddress - 1
          BY <1>3, <4>1, <4>2
        <5> QED
          BY <1>3, <3>1, <4>1, <5>1, FollowingNext DEF NextAddress
      <4>3. passLength' - bytes_counter' = (passLength - bytes_counter) + 1
        BY <1>3, <2>1, <4>1
      <4> QED
        BY <2>1, <2>4, <4>2, <4>3 DEF InOrder, Following
    <3>3. CASE ~Fetches
      BY <2>1, <2>4, <3>1, <3>3 DEF InOrder, Following
    <3> QED
      BY <3>2, <3>3
  <2>8. BitsAccounted'
    <3>1. played = leftover + BitsPerByte * (passLength - bytes_counter)
                     - shift_register_bits_remaining_
      BY DEF DmcIInv, BitsAccounted
    <3>2. leftover \in Nat /\ shift_register_bits_remaining_ \in Nat
      BY <1>3 DEF DmcIInv, DmcTypeOK
    <3> DEFINE fetched == BitsPerByte * (passLength - bytes_counter)
               fetchedNext == BitsPerByte * (passLength' - bytes_counter')
    <3>3. fetched \in Int
      BY <1>3
    <3>4. Bits = shift_register_bits_remaining_ + (fetchedNext - fetched)
          /\ fetchedNext \in Int
      <4>1. CASE Fetches
        <5>1. passLength' - bytes_counter' = (passLength - bytes_counter) + 1
          BY <1>3, <2>1, <4>1
        <5>2. passLength - bytes_counter \in Int
          BY <1>3
        <5>3. fetchedNext = fetched + BitsPerByte
          BY <1>3, <5>1, <5>2, ByteMore
        <5>4. Bits = BitsPerByte /\ shift_register_bits_remaining_ = 0
          BY <4>1 DEF Bits, Fetches
        <5> QED
          BY <1>3, <3>3, <5>3, <5>4
      <4>2. CASE ~Fetches
        <5>1. fetchedNext = fetched
          BY <2>1, <4>2
        <5>2. Bits = shift_register_bits_remaining_
          BY <4>2 DEF Bits
        <5> QED
          BY <3>2, <3>3, <5>1, <5>2
      <4> QED
        BY <4>1, <4>2
    <3>5. played' = leftover' + fetchedNext - shift_register_bits_remaining_'
      <4>1. played = leftover + fetched - shift_register_bits_remaining_
        BY <3>1
      <4> HIDE DEF fetched, fetchedNext
      <4>2. Bits \in Int
        BY <1>2
      <4> QED
        BY <1>2, <1>3, <2>1, <2>2, <3>2, <3>3, <3>4, <4>1, <4>2
    <3> QED
      BY <3>5 DEF BitsAccounted
  <2>9. LastByteHeldBack'
    <3> SUFFICES ASSUME bytes_counter' = 0
                 PROVE  shift_register_bits_remaining_' >= BitsPerByte - 1
      BY DEF LastByteHeldBack
    <3>1. Fetches
      BY <1>1, <2>1
    <3>2. Bits = BitsPerByte
      BY <3>1 DEF Bits
    <3> QED
      BY <1>2, <1>3, <3>2
  <2> QED
    BY <1>4, <2>3, <2>6, <2>7, <2>8, <2>9 DEF DmcIInv, DisabledStops
<1> QED
  BY <1>5, <1>6

LEMMA DmcNextIInv == DmcIInv /\ [DmcNext]_dmcVars => DmcIInv'
<1> SUFFICES ASSUME DmcIInv, [DmcNext]_dmcVars PROVE DmcIInv'
  OBVIOUS
<1>1. CASE Clock
  BY <1>1, DmcClockStep DEF Clock
<1>2. CASE Write
  BY <1>2, DmcWriteStep
<1>3. CASE Enable
  BY <1>3, EnableStep
<1>4. CASE Disable
  BY <1>4, DisableStep
<1>5. CASE UNCHANGED dmcVars
  BY <1>5
  DEF dmcVars, registers, reader, output, pass, DmcIInv, DmcTypeOK, InOrder, Following,
      BitsAccounted, LastByteHeldBack, DisabledStops, IrqMeansLoop, NoIrq
<1> QED
  BY <1>1, <1>2, <1>3, <1>4, <1>5 DEF DmcNext

LEMMA DmcSpecIInv == DmcSpec => []DmcIInv
  BY DmcInitIInv, DmcNextIInv, PTL DEF DmcSpec

-----------------------------------------------------------------------------
(* The output level never leaves its seven bits, the shift register never  *)
(* counts below zero bits.                                                 *)
THEOREM DmcTypeCorrect == DmcSpec => []DmcTypeOK
<1>1. DmcIInv => DmcTypeOK
  BY DEF DmcIInv
<1> QED
  BY <1>1, DmcSpecIInv, PTL

(* A sample is fetched in order and from the window of addresses only.     *)
THEOREM DmcAddressFollowsLength == DmcSpec => []AddressFollowsLength
<1>1. DmcIInv => AddressFollowsLength
  <2> SUFFICES ASSUME DmcIInv, bytes_counter > 0 PROVE AddressFollowsLength
    BY DEF AddressFollowsLength
  <2>1. passLength \in 0 .. LastAddress - WrapAddress
    BY PassTypes DEF DmcIInv
  <2>2. passLength - bytes_counter \in 0 .. LastAddress - WrapAddress
    BY <2>1, AddressAssumption DEF DmcIInv, DmcTypeOK, InOrder
  <2> QED
    BY <2>2, FollowingInBounds DEF DmcIInv, DmcTypeOK, InOrder, AddressFollowsLength
<1> QED
  BY <1>1, DmcSpecIInv, PTL

(* Every bit fetched is played once.                                       *)
THEOREM DmcBitsAccounted == DmcSpec => []BitsAccounted
<1>1. DmcIInv => BitsAccounted
  BY DEF DmcIInv
<1> QED
  BY <1>1, DmcSpecIInv, PTL

(* The last byte of a sample is not played with it.                        *)
THEOREM DmcLastByteHeldBack == DmcSpec => []LastByteHeldBack
<1>1. DmcIInv => LastByteHeldBack
  BY DEF DmcIInv
<1> QED
  BY <1>1, DmcSpecIInv, PTL

(* A disabled channel plays nothing.                                       *)
THEOREM DmcDisabledStops == DmcSpec => []DisabledStops
<1>1. DmcIInv => DisabledStops
  BY DEF DmcIInv
<1> QED
  BY <1>1, DmcSpecIInv, PTL

(* IRQ is unreachable.                                                     *)
THEOREM DmcNoIrq == DmcSpec => []NoIrq
<1>1. DmcIInv => NoIrq
  BY DEF DmcIInv
<1> QED
  BY <1>1, DmcSpecIInv, PTL
=============================================================================
