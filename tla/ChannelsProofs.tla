------------------------------ MODULE ChannelsProofs ------------------------------
(***************************************************************************)
(* Proofs about Channels, for every size of the registers, every table of  *)
(* lengths that a byte has room for, every width of the shift register and *)
(* pair of taps, and every order of clocks and writes.                     *)
(***************************************************************************)
EXTENDS Channels, TLAPS

-----------------------------------------------------------------------------
(* The noise channel.                                                      *)

NoiseInv == NoiseTypeOK /\ NoiseAlive

LEMMA NoiseInitInv == ASSUME NoiseInit PROVE NoiseInv
<1>1. /\ Width \in Nat /\ 0 \in Bits /\ FirstPeriod \in Nat /\ VolumeMax \in Nat
      /\ 0 \in 0 .. ByteSize - 1
  BY NoiseAssumption, ChannelAssumption DEF Bits
<1>2. NoiseTypeOK
  BY <1>1 DEF NoiseInit, NoiseTypeOK
<1>3. noise_.shift_register[0]
  BY <1>1 DEF NoiseInit
<1> QED
  BY <1>1, <1>2, <1>3 DEF NoiseInv, NoiseAlive

(* A step of the register.  A bit other than the last one moves down.  If  *)
(* the last one is the only one that is set, the tap is clear and the      *)
(* feedback is set.                                                        *)
LEMMA ShiftKeepsAlive ==
  ASSUME NEW reg \in [Bits -> BOOLEAN], NEW tap \in 1 .. Width - 1,
         \E i \in Bits : reg[i]
  PROVE  LET next == [i \in Bits |-> IF i = Width - 1 THEN reg[0] # reg[tap] ELSE reg[i + 1]]
         IN  next \in [Bits -> BOOLEAN] /\ \E i \in Bits : next[i]
<1> DEFINE next == [i \in Bits |-> IF i = Width - 1 THEN reg[0] # reg[tap] ELSE reg[i + 1]]
<1>1. /\ Width \in Nat /\ 0 \in Bits /\ Width - 1 \in Bits /\ tap \in Bits
      /\ \A i \in Bits : i # Width - 1 => i + 1 \in Bits
  BY NoiseAssumption DEF Bits
<1>2. next \in [Bits -> BOOLEAN]
  BY <1>1
<1>3. \E i \in Bits : next[i]
  <2>1. CASE \E i \in Bits : i # 0 /\ reg[i]
    <3>1. PICK i \in Bits : i # 0 /\ reg[i]
      BY <2>1
    <3>2. i - 1 \in Bits /\ i - 1 # Width - 1 /\ (i - 1) + 1 = i
      BY <3>1, <1>1 DEF Bits
    <3>3. next[i - 1] = reg[i]
      BY <3>2
    <3> QED
      BY <3>1, <3>2, <3>3
  <2>2. CASE \A i \in Bits : reg[i] => i = 0
    <3>1. reg[0] /\ ~reg[tap]
      BY <2>2, <1>1
    <3>2. next[Width - 1] = (reg[0] # reg[tap])
      BY <1>1
    <3> QED
      BY <1>1, <3>1, <3>2
  <2> QED
    BY <2>1, <2>2
<1> QED
  BY <1>2, <1>3

NoiseStep == NoiseWrite \/ NoiseTimerClock \/ EnvelopeClock \/ NoiseLengthClock

LEMMA NoiseStepInv ==
  ASSUME NoiseInv, NoiseStep \/ UNCHANGED noise_ PROVE NoiseInv'
<1> USE DEF NoiseInv
<1>1. ASSUME NEW enabled \in BOOLEAN, NoiseSetEnabled(enabled) PROVE NoiseInv'
  <2>1. 0 \in 0 .. ByteSize - 1
    BY ChannelAssumption
  <2>2. noise_' = [noise_ EXCEPT !.enabled = enabled,
                                 !.length = IF enabled THEN noise_.length ELSE 0]
    BY <1>1 DEF NoiseSetEnabled
  <2>3. NoiseTypeOK'
    BY <2>1, <2>2 DEF NoiseTypeOK
  <2> QED
    BY <2>2, <2>3 DEF NoiseTypeOK, NoiseAlive
<1>2. ASSUME NEW control \in BOOLEAN, NEW constant \in BOOLEAN, NEW volume \in 0 .. VolumeMax,
             WriteVolume(control, constant, volume)
      PROVE  NoiseInv'
  BY <1>2 DEF WriteVolume, NoiseTypeOK, NoiseAlive
<1>3. ASSUME NEW mode \in BOOLEAN, NEW period \in Periods, WritePeriod(mode, period)
      PROVE  NoiseInv'
  BY <1>3, NoiseAssumption DEF WritePeriod, NoiseTypeOK, NoiseAlive
<1>4. ASSUME NEW length \in Lengths, WriteLength(length) PROVE NoiseInv'
  <2>1. length \in 0 .. ByteSize - 1
    BY ChannelAssumption
  <2> QED
    BY <1>4, <2>1 DEF WriteLength, NoiseTypeOK, NoiseAlive
<1>5. ASSUME NoiseTimerClock PROVE NoiseInv'
  <2>1. CASE noise_.timer_counter > 0
    BY <1>5, <2>1 DEF NoiseTimerClock, NoiseTypeOK, NoiseAlive
  <2>2. CASE ~(noise_.timer_counter > 0)
    <3> DEFINE reg  == noise_.shift_register
               next == [i \in Bits |-> IF i = Width - 1 THEN reg[0] # reg[Tap] ELSE reg[i + 1]]
    <3>1. Tap \in 1 .. Width - 1
      BY NoiseAssumption DEF Tap
    <3>2. reg \in [Bits -> BOOLEAN] /\ \E i \in Bits : reg[i]
      BY DEF NoiseTypeOK, NoiseAlive
    <3>3. next \in [Bits -> BOOLEAN] /\ \E i \in Bits : next[i]
      BY <3>1, <3>2, ShiftKeepsAlive
    <3>4. noise_' = [noise_ EXCEPT !.timer_counter = noise_.timer_reload,
                                   !.shift_register = next]
      BY <1>5, <2>2 DEF NoiseTimerClock, Feedback, NoiseTypeOK
    <3> HIDE DEF next
    <3>5. NoiseTypeOK'
      BY <3>3, <3>4 DEF NoiseTypeOK
    <3>6. noise_'.shift_register = next
      BY <3>4 DEF NoiseTypeOK
    <3> QED
      BY <3>3, <3>5, <3>6 DEF NoiseAlive
  <2> QED
    BY <2>1, <2>2
<1>6. ASSUME EnvelopeClock PROVE NoiseInv'
  <2>1. Decayed \in 0 .. VolumeMax /\ VolumeMax \in 0 .. VolumeMax
    BY NoiseAssumption DEF Decayed, NoiseTypeOK
  <2>2. CASE noise_.envelope_start_flag
    BY <1>6, <2>1, <2>2 DEF EnvelopeClock, NoiseTypeOK, NoiseAlive
  <2>3. CASE ~noise_.envelope_start_flag /\ noise_.envelope_counter > 0
    BY <1>6, <2>3, NoiseAssumption DEF EnvelopeClock, NoiseTypeOK, NoiseAlive
  <2>4. CASE ~noise_.envelope_start_flag /\ ~(noise_.envelope_counter > 0)
    BY <1>6, <2>1, <2>4 DEF EnvelopeClock, NoiseTypeOK, NoiseAlive
  <2> QED
    BY <2>2, <2>3, <2>4
<1>7. ASSUME NoiseLengthClock PROVE NoiseInv'
  <2>1. Counted(noise_.length, noise_.control_flag) \in 0 .. ByteSize - 1
    BY ChannelAssumption DEF Counted, NoiseTypeOK
  <2> QED
    BY <1>7, <2>1 DEF NoiseLengthClock, NoiseTypeOK, NoiseAlive
<1>8. ASSUME UNCHANGED noise_ PROVE NoiseInv'
  BY <1>8 DEF NoiseTypeOK, NoiseAlive
<1> QED
  BY <1>1, <1>2, <1>3, <1>4, <1>5, <1>6, <1>7, <1>8 DEF NoiseStep, NoiseWrite, NoiseStartNote

-----------------------------------------------------------------------------
(* The triangle.                                                           *)

(* A timer that has just stepped the sequencer has at least two clocks to  *)
(* go, and a clock that does not move it only makes the wait longer.       *)
InStep == triangle_.timer_counter + quiet >= MinGap - 1

TriangleInv == TriangleTypeOK /\ InStep

LEMMA TriangleInitInv == ASSUME TriangleInit PROVE TriangleInv
<1>1. /\ 0 \in 0 .. LinearSize - 1 /\ 0 \in 0 .. ByteSize - 1
      /\ 0 \in 0 .. kSequenceLength - 1 /\ MinGap - 1 \in 0 .. MinGap - 1
  BY TriangleAssumption, ChannelAssumption DEF kSequenceLength, MinGap
<1>2. TriangleTypeOK
  BY <1>1 DEF TriangleInit, TriangleTypeOK
<1>3. InStep
  BY DEF TriangleInit, InStep, MinGap
<1> QED
  BY <1>2, <1>3 DEF TriangleInv

LEMMA TriangleWriteInv == ASSUME TriangleInv, TriangleWrite PROVE TriangleInv' /\ triangle_'.sequencer = triangle_.sequencer
<1> USE DEF TriangleInv
<1>1. ASSUME NEW enabled \in BOOLEAN, TriangleSetEnabled(enabled)
      PROVE  TriangleInv' /\ triangle_'.sequencer = triangle_.sequencer
  <2>1. 0 \in 0 .. ByteSize - 1
    BY ChannelAssumption
  <2> QED
    BY <1>1, <2>1 DEF TriangleSetEnabled, TriangleTypeOK, InStep
<1>2. ASSUME NEW control \in BOOLEAN, NEW reload \in 0 .. LinearSize - 1,
             WriteLinear(control, reload)
      PROVE  TriangleInv' /\ triangle_'.sequencer = triangle_.sequencer
  BY <1>2 DEF WriteLinear, TriangleTypeOK, InStep
<1>3. ASSUME NEW low \in 0 .. LowSize - 1, WritePeriodLow(low)
      PROVE  TriangleInv' /\ triangle_'.sequencer = triangle_.sequencer
  <2>1. triangle_.timer_reload - (triangle_.timer_reload % LowSize) + low \in Nat
    <3>1. \A n \in Nat, k \in Nat \ {0} : n % k \in 0 .. n
      OBVIOUS
    <3> QED
      BY <3>1, TriangleAssumption DEF TriangleTypeOK
  <2> QED
    BY <1>3, <2>1 DEF WritePeriodLow, TriangleTypeOK, InStep
<1>4. ASSUME NEW high \in 0 .. HighSize - 1, NEW length \in Lengths,
             WritePeriodHigh(high, length)
      PROVE  TriangleInv' /\ triangle_'.sequencer = triangle_.sequencer
  <2>1. (triangle_.timer_reload % LowSize) + high * LowSize \in Nat
    <3>1. high * LowSize \in Nat
      BY TriangleAssumption
    <3>2. triangle_.timer_reload % LowSize \in Nat
      BY TriangleAssumption DEF TriangleTypeOK
    <3> QED
      BY <3>1, <3>2
  <2>2. (length + 1) % ByteSize \in 0 .. ByteSize - 1
    BY ChannelAssumption
  <2> QED
    BY <1>4, <2>1, <2>2 DEF WritePeriodHigh, TriangleTypeOK, InStep
<1> QED
  BY <1>1, <1>2, <1>3, <1>4 DEF TriangleWrite, TriangleStartNote

(* The one step that moves the sequencer.                                  *)
LEMMA TriangleTimerInv ==
  ASSUME TriangleInv, TriangleTimerClock
  PROVE  /\ TriangleInv'
         /\ triangle_'.sequencer # triangle_.sequencer =>
              /\ triangle_'.sequencer = Following(triangle_.sequencer)
              /\ triangle_.timer_counter = 0
<1> USE DEF TriangleInv
<1>1. Following(triangle_.sequencer) \in 0 .. kSequenceLength - 1
  BY TriangleAssumption DEF TriangleTypeOK, Following, kSequenceLength
<1>2. /\ Waited \in 0 .. MinGap - 1 /\ 0 \in 0 .. MinGap - 1
      /\ quiet = MinGap - 1 => Waited = MinGap - 1
      /\ quiet # MinGap - 1 => Waited = quiet + 1
  BY DEF Waited, MinGap, TriangleTypeOK
<1>3. CASE triangle_.timer_reload > 1 /\ triangle_.timer_counter = 0
  <2>1. quiet = MinGap - 1
    BY <1>3 DEF InStep, TriangleTypeOK, MinGap
  <2>2. TriangleTypeOK'
    BY <1>1, <1>2, <1>3 DEF TriangleTimerClock, TriangleTypeOK
  <2>3. triangle_'.timer_counter = triangle_.timer_reload
    BY <1>3 DEF TriangleTimerClock, TriangleTypeOK
  <2>5. triangle_.timer_reload \in Nat /\ quiet' \in 0 .. MinGap - 1
    BY <2>2 DEF TriangleTypeOK
  <2>4. InStep'
    BY <1>3, <2>3, <2>5 DEF InStep, MinGap
  <2> QED
    BY <1>3, <2>2, <2>4 DEF TriangleTimerClock, TriangleTypeOK
<1>4. CASE ~(triangle_.timer_reload > 1 /\ triangle_.timer_counter = 0)
  <2>1. /\ triangle_'.timer_counter = IF triangle_.timer_reload > 1
                                      THEN triangle_.timer_counter - 1
                                      ELSE triangle_.timer_counter
        /\ triangle_'.sequencer = triangle_.sequencer /\ quiet' = Waited
    BY <1>4 DEF TriangleTimerClock, TriangleTypeOK
  <2>2. triangle_.timer_reload > 1 => triangle_.timer_counter - 1 \in Nat
    BY <1>4 DEF TriangleTypeOK
  <2>3. TriangleTypeOK'
    BY <1>2, <1>4, <2>2 DEF TriangleTimerClock, TriangleTypeOK
  <2>4. /\ triangle_.timer_counter + quiet >= 2 /\ triangle_.timer_counter \in Nat
        /\ quiet \in 0 .. 2 /\ triangle_.timer_reload \in Nat
    BY DEF InStep, TriangleTypeOK, MinGap
  <2>5. triangle_'.timer_counter + quiet' >= 2
    <3>1. CASE triangle_.timer_reload > 1
      BY <1>2, <1>4, <2>1, <2>4, <3>1 DEF MinGap
    <3>2. CASE ~(triangle_.timer_reload > 1)
      BY <1>2, <2>1, <2>4, <3>2 DEF MinGap
    <3> QED
      BY <3>1, <3>2
  <2>6. InStep'
    BY <2>5 DEF InStep, MinGap
  <2> QED
    BY <2>1, <2>3, <2>6
<1> QED
  BY <1>3, <1>4

LEMMA TriangleOtherInv ==
  ASSUME TriangleInv, TriangleLengthClock \/ LinearClock \/ UNCHANGED triangle
  PROVE  TriangleInv' /\ triangle_'.sequencer = triangle_.sequencer
<1> USE DEF TriangleInv
<1>1. CASE TriangleLengthClock
  <2>1. Counted(triangle_.length, triangle_.control_flag) \in 0 .. ByteSize - 1
    BY ChannelAssumption DEF Counted, TriangleTypeOK
  <2> QED
    BY <1>1, <2>1 DEF TriangleLengthClock, TriangleTypeOK, InStep
<1>2. CASE LinearClock
  <2>1. (IF triangle_.linear_reload_flag THEN triangle_.linear_reload
         ELSE IF triangle_.linear_counter > 0 THEN triangle_.linear_counter - 1 ELSE 0)
           \in 0 .. LinearSize - 1
    BY TriangleAssumption DEF TriangleTypeOK
  <2>2. (triangle_.linear_reload_flag /\ triangle_.control_flag) \in BOOLEAN
    OBVIOUS
  <2> QED
    BY <1>2, <2>1, <2>2 DEF LinearClock, TriangleTypeOK, InStep
<1>3. CASE UNCHANGED triangle
  BY <1>3 DEF triangle, TriangleTypeOK, InStep
<1> QED
  BY <1>1, <1>2, <1>3

TriangleStep == TriangleWrite \/ TriangleTimerClock \/ TriangleLengthClock \/ LinearClock

LEMMA TriangleStepInv ==
  ASSUME TriangleInv, TriangleStep \/ UNCHANGED triangle PROVE TriangleInv'
  BY TriangleWriteInv, TriangleTimerInv, TriangleOtherInv DEF TriangleStep

(* Neighbours in the sequence differ by one at most, its ends included.    *)
LEMMA Neighbours ==
  ASSUME NEW i \in 0 .. kSequenceLength - 1
  PROVE  kSequence(Following(i)) - kSequence(i) \in -1 .. 1
  BY TriangleAssumption DEF kSequence, Following, kSequenceLength

-----------------------------------------------------------------------------
(* Both channels.                                                          *)

IInv == NoiseInv /\ TriangleInv

LEMMA InitIInv == ASSUME Init PROVE IInv
  BY NoiseInitInv, TriangleInitInv DEF Init, IInv

LEMMA Steps ==
  ASSUME [Next]_vars
  PROVE  /\ NoiseStep \/ UNCHANGED noise_
         /\ TriangleStep \/ UNCHANGED triangle
  BY DEF Next, TimerClock, QuarterClock, HalfClock, SetByte, OfTriangle, OfNoise,
     NoiseStep, TriangleStep, triangle, vars

LEMMA StepIInv == ASSUME IInv, [Next]_vars PROVE IInv'
  BY Steps, NoiseStepInv, TriangleStepInv DEF IInv

(* Every register keeps its type and its width, the length of the          *)
(* triangle, loaded with one more than the table holds, included.          *)
THEOREM ChannelsTypeCorrect == Spec => [](TriangleTypeOK /\ NoiseTypeOK)
<1>1. IInv => TriangleTypeOK /\ NoiseTypeOK
  BY DEF IInv, TriangleInv, NoiseInv
<1> QED
  BY InitIInv, StepIInv, <1>1, PTL DEF Spec

(* noise.cc:29: the shift register never becomes zero, whatever the taps.  *)
THEOREM ChannelsNoiseAlive == Spec => []NoiseAlive
<1>1. IInv => NoiseAlive
  BY DEF IInv, NoiseInv
<1> QED
  BY InitIInv, StepIInv, <1>1, PTL DEF Spec

(* triangle.cc:28: the output never jumps, whatever the height of the      *)
(* sequence and whatever is written.                                       *)
THEOREM ChannelsNoClick == Spec => NoClick
<1>1. ASSUME IInv, [Next]_vars
      PROVE  [TriangleGetCurrent' - TriangleGetCurrent \in -1 .. 1]_triangle
  <2> USE DEF IInv
  <2>1. CASE triangle_'.sequencer = triangle_.sequencer
    <3>1. kSequence(triangle_.sequencer) \in Int
      BY <1>1, TriangleAssumption
      DEF TriangleInv, TriangleTypeOK, kSequence, kSequenceLength
    <3>2. TriangleGetCurrent' = TriangleGetCurrent
      BY <2>1 DEF TriangleGetCurrent, kSequence
    <3> QED
      BY <3>1, <3>2 DEF TriangleGetCurrent
  <2>2. CASE triangle_'.sequencer # triangle_.sequencer
    <3>1. triangle_'.sequencer = Following(triangle_.sequencer)
      BY <1>1, <2>2, Steps, TriangleWriteInv, TriangleTimerInv, TriangleOtherInv
      DEF TriangleStep
    <3>2. TriangleGetCurrent' = kSequence(Following(triangle_.sequencer))
      BY <3>1 DEF TriangleGetCurrent, kSequence
    <3>3. triangle_.sequencer \in 0 .. kSequenceLength - 1
      BY <1>1 DEF TriangleInv, TriangleTypeOK
    <3> QED
      BY <3>2, <3>3, Neighbours DEF TriangleGetCurrent
  <2> QED
    BY <2>1, <2>2
<1> QED
  BY InitIInv, StepIInv, <1>1, PTL DEF Spec, NoClick

(* triangle.cc:29: two steps of the sequencer are three clocks apart at    *)
(* least, however the period is rewritten in between.                      *)
THEOREM ChannelsStepGap == Spec => StepGap
<1>1. ASSUME IInv, [Next]_vars
      PROVE  [triangle_'.sequencer # triangle_.sequencer => quiet + 1 >= MinGap]_triangle
  <2> SUFFICES ASSUME triangle_'.sequencer # triangle_.sequencer
               PROVE  quiet + 1 >= MinGap
    OBVIOUS
  <2>1. triangle_.timer_counter = 0
    BY <1>1, Steps, TriangleWriteInv, TriangleTimerInv, TriangleOtherInv
    DEF IInv, TriangleStep
  <2> QED
    BY <1>1, <2>1 DEF IInv, TriangleInv, InStep, TriangleTypeOK, MinGap
<1> QED
  BY InitIInv, StepIInv, <1>1, PTL DEF Spec, StepGap
=============================================================================
