------------------------------ MODULE PulseProofs ------------------------------
(***************************************************************************)
(* Proofs about Pulse, for every width of the period and every set of      *)
(* values that the registers are written with.                             *)
(***************************************************************************)
EXTENDS Pulse, TLAPS

DisabledHasNoLength == ~enabled_ => length_ = 0

IInv == TypeOK /\ PeriodInRange /\ DisabledHasNoLength

-----------------------------------------------------------------------------
(* Arithmetic of the period.                                               *)
LEMMA Remainder ==
  ASSUME NEW x \in Nat, NEW d \in Nat \ {0}
  PROVE  x % d \in 0 .. d - 1 /\ x \div d \in Nat
  OBVIOUS

LEMMA ProductIsNat == \A a, b \in Nat : a * b \in Nat
  OBVIOUS

LEMMA PeriodSizes ==
  /\ PeriodSize \in Nat \ {0} /\ WordSize \in Nat \ {0}
  /\ WordSize % 2 = 0 /\ 4 * PeriodSize <= WordSize
<1>1. LowSize * HighSize \in Nat /\ LowSize * HighSize # 0
  BY PeriodAssumption
<1> QED
  BY <1>1, PeriodAssumption DEF PeriodSize

(* Two parts of a period make a period.                                    *)
LEMMA TwoParts ==
  ASSUME NEW h \in 0 .. HighSize - 1, NEW b \in 0 .. LowSize - 1
  PROVE  b + h * LowSize \in 0 .. PeriodSize - 1
<1>1. h \in Nat /\ b \in Nat /\ LowSize \in Nat /\ HighSize - 1 - h \in Nat
      /\ b <= LowSize - 1
  BY PeriodAssumption
<1>2. h * LowSize \in Nat /\ (HighSize - 1 - h) * LowSize \in Nat
  BY <1>1, ProductIsNat
<1>3. (HighSize - 1 - h) * LowSize = HighSize * LowSize - LowSize - h * LowSize
  BY <1>1, PeriodAssumption
<1>4. HighSize * LowSize = LowSize * HighSize /\ LowSize * HighSize \in Nat
  BY PeriodAssumption
<1> QED
  BY <1>1, <1>2, <1>3, <1>4 DEF PeriodSize

LEMMA Shifted ==
  ASSUME NEW x \in Nat, NEW s \in 0 .. 7
  PROVE  /\ ShiftRight(x, s) \in Nat
         /\ ShiftRight(x, s) <= x
         /\ s = 0 => ShiftRight(x, s) = x
         /\ s # 0 => 2 * ShiftRight(x, s) <= x
<1>1. CASE s = 0
  BY <1>1 DEF ShiftRight, PowerOfTwo
<1>2. CASE s = 1
  BY <1>2 DEF ShiftRight, PowerOfTwo
<1>3. CASE s = 2
  BY <1>3 DEF ShiftRight, PowerOfTwo
<1>4. CASE s = 3
  BY <1>4 DEF ShiftRight, PowerOfTwo
<1>5. CASE s = 4
  BY <1>5 DEF ShiftRight, PowerOfTwo
<1>6. CASE s = 5
  BY <1>6 DEF ShiftRight, PowerOfTwo
<1>7. CASE s = 6
  BY <1>7 DEF ShiftRight, PowerOfTwo
<1>8. CASE s = 7
  BY <1>8 DEF ShiftRight, PowerOfTwo
<1> QED
  BY <1>1, <1>2, <1>3, <1>4, <1>5, <1>6, <1>7, <1>8

(* Where a sweep of a proper period leads.                                 *)
LEMMA TargetOfPeriod ==
  ASSUME TypeOK, timer_reload < PeriodSize
  PROVE  /\ SweepGetTarget \in Int
         /\ sweep_mode_ = 1 => SweepGetTarget >= timer_reload
         /\ sweep_mode_ = -1 => SweepGetTarget <= timer_reload
         /\ SweepGetTarget >= -1
         /\ SweepGetTarget = -1 => is_pulse_1_
<1> DEFINE x == ShiftRight(timer_reload, sweep_shift_)
<1>1. timer_reload \in Nat /\ sweep_shift_ \in 0 .. 7 /\ sweep_mode_ \in {-1, 1}
  BY PeriodSizes DEF TypeOK
<1>2. x \in Nat /\ x <= timer_reload
  BY <1>1, Shifted
<1>3. ~(x >= WordSize \div 2)
  BY <1>1, <1>2, PeriodSizes
<1>4. Signed(x) = x
  BY <1>3 DEF Signed
<1>5. ShiftResult = IF sweep_mode_ = -1 /\ is_pulse_1_ THEN sweep_mode_ * x - 1
                    ELSE sweep_mode_ * x
  BY <1>4 DEF ShiftResult
<1>6. CASE sweep_mode_ = 1
  <2>1. ShiftResult = x
    BY <1>2, <1>5, <1>6
  <2> QED
    BY <1>1, <1>2, <1>6, <2>1 DEF SweepGetTarget
<1>7. CASE sweep_mode_ = -1 /\ is_pulse_1_
  <2>1. ShiftResult = -x - 1
    BY <1>2, <1>5, <1>7
  <2> QED
    BY <1>1, <1>2, <1>7, <2>1 DEF SweepGetTarget
<1>8. CASE sweep_mode_ = -1 /\ ~is_pulse_1_
  <2>1. ShiftResult = -x
    BY <1>2, <1>5, <1>8
  <2> QED
    BY <1>1, <1>2, <1>8, <2>1 DEF SweepGetTarget
<1> QED
  BY <1>1, <1>6, <1>7, <1>8

(* From 0xFFFF every target is out of range.                               *)
LEMMA TargetOfUnderflow ==
  TypeOK /\ Underflown => SweepGetTarget \in Int /\ SweepGetTarget > PeriodSize - 1
<1> SUFFICES ASSUME TypeOK, Underflown
             PROVE  SweepGetTarget \in Int /\ SweepGetTarget > PeriodSize - 1
  OBVIOUS
<1> DEFINE x == ShiftRight(timer_reload, sweep_shift_)
<1>1. /\ timer_reload \in Nat /\ timer_reload = WordSize - 1
      /\ sweep_shift_ \in 0 .. 7 /\ sweep_mode_ \in {-1, 1}
  BY PeriodSizes DEF TypeOK, Underflown
<1>2. /\ x \in Nat
      /\ sweep_shift_ = 0 => x = WordSize - 1
      /\ sweep_shift_ # 0 => 2 * x <= WordSize - 1
  BY <1>1, Shifted
<1>3. Signed(x) \in Int /\ Signed(x) >= -1 /\ 2 * Signed(x) <= WordSize - 2
  <2>1. CASE sweep_shift_ = 0
    BY <1>2, <2>1, PeriodSizes DEF Signed
  <2>2. CASE sweep_shift_ # 0
    BY <1>2, <2>2, PeriodSizes DEF Signed
  <2> QED
    BY <2>1, <2>2
<1>4. \/ ShiftResult = Signed(x)
      \/ ShiftResult = -Signed(x)
      \/ ShiftResult = -Signed(x) - 1
  <2>1. CASE sweep_mode_ = 1
    BY <1>3, <2>1 DEF ShiftResult
  <2>2. CASE sweep_mode_ = -1
    BY <1>3, <2>2 DEF ShiftResult
  <2> QED
    BY <1>1, <2>1, <2>2
<1> QED
  BY <1>1, <1>3, <1>4, PeriodSizes DEF SweepGetTarget

(* A sweep that moves the period leaves it in range, or underflows.        *)
LEMMA MovedPeriod ==
  ASSUME TypeOK, PeriodInRange, Moves
  PROVE  /\ timer_reload < PeriodSize
         /\ SweepGetTarget % WordSize \in 0 .. WordSize - 1
         /\ \/ SweepGetTarget >= 0 /\ SweepGetTarget % WordSize = SweepGetTarget
            \/ is_pulse_1_ /\ SweepGetTarget % WordSize = WordSize - 1
<1>1. timer_reload \in Nat /\ PeriodSize \in Nat
  BY PeriodSizes DEF TypeOK
<1>2. timer_reload < PeriodSize
  <2>1. Underflown => SweepGetTarget \in Int /\ SweepGetTarget > PeriodSize - 1
    BY TargetOfUnderflow
  <2>2. Moves => SweepGetTarget <= PeriodSize - 1
    BY DEF Moves
  <2>3. ~Underflown
    BY <1>1, <2>1, <2>2
  <2> QED
    BY <2>3 DEF PeriodInRange
<1>3. SweepGetTarget \in Int /\ SweepGetTarget >= -1
      /\ (SweepGetTarget = -1 => is_pulse_1_)
  BY <1>2, TargetOfPeriod
<1>4. SweepGetTarget <= PeriodSize - 1
  BY DEF Moves
<1>5. CASE SweepGetTarget = -1
  BY <1>2, <1>3, <1>5, PeriodSizes
<1>6. CASE SweepGetTarget >= 0
  BY <1>2, <1>3, <1>4, <1>6, PeriodSizes
<1> QED
  BY <1>3, <1>5, <1>6
-----------------------------------------------------------------------------
LEMMA InitIInv == Init => IInv
<1> SUFFICES ASSUME Init PROVE IInv
  OBVIOUS
<1>1. TypeOK
  <2>1. MaxVolume \in Nat /\ WordSize \in Nat \ {0} /\ SequenceLength \in Nat \ {0}
    BY VolumeAssumption, PeriodSizes, SequenceAssumption
  <2>2. /\ timer_reload \in 0 .. WordSize - 1 /\ timer_counter \in 0 .. WordSize - 1
        /\ envelope_reload \in 0 .. MaxVolume /\ envelope_counter \in 0 .. MaxVolume
        /\ constant_volume_ \in 0 .. MaxVolume /\ envelope_volume_ \in 0 .. MaxVolume
        /\ sequencer_ \in 0 .. SequenceLength - 1
    BY <2>1 DEF Init
  <2>3. /\ sweep_reload \in 0 .. 7 /\ sweep_counter \in 0 .. 7 /\ length_ \in 0 .. 255
        /\ sweep_mode_ \in {-1, 1} /\ sweep_shift_ \in 0 .. 7 /\ duty_ \in Duties
    BY DEF Init
  <2>4. /\ is_pulse_1_ \in BOOLEAN /\ enabled_ \in BOOLEAN
        /\ control_flag_ \in BOOLEAN /\ constant_volume_flag_ \in BOOLEAN
        /\ envelope_start_flag_ \in BOOLEAN /\ sweep_enabled_ \in BOOLEAN
        /\ sweep_reload_flag_ \in BOOLEAN
    BY DEF Init
  <2> QED
    BY <2>2, <2>3, <2>4 DEF TypeOK
<1>2. PeriodInRange /\ DisabledHasNoLength
  BY PeriodSizes DEF Init, PeriodInRange, DisabledHasNoLength
<1> QED
  BY <1>1, <1>2 DEF IInv

(* The types that a step may disturb, in five groups.                      *)
TimerTypes == timer_reload \in 0 .. WordSize - 1 /\ timer_counter \in 0 .. WordSize - 1
              /\ duty_ \in Duties /\ sequencer_ \in 0 .. SequenceLength - 1
EnvelopeTypes ==
  /\ envelope_reload \in 0 .. MaxVolume /\ envelope_counter \in 0 .. MaxVolume
  /\ constant_volume_ \in 0 .. MaxVolume /\ envelope_volume_ \in 0 .. MaxVolume
SweepTypes == /\ sweep_reload \in 0 .. 7 /\ sweep_counter \in 0 .. 7
              /\ sweep_mode_ \in {-1, 1} /\ sweep_shift_ \in 0 .. 7
LengthTypes == length_ \in 0 .. 255
FlagTypes ==
  /\ is_pulse_1_ \in BOOLEAN /\ enabled_ \in BOOLEAN
  /\ control_flag_ \in BOOLEAN /\ constant_volume_flag_ \in BOOLEAN
  /\ envelope_start_flag_ \in BOOLEAN /\ sweep_enabled_ \in BOOLEAN
  /\ sweep_reload_flag_ \in BOOLEAN

LEMMA TypesInGroups ==
  TypeOK <=> TimerTypes /\ EnvelopeTypes /\ SweepTypes /\ LengthTypes /\ FlagTypes
  BY DEF TypeOK, TimerTypes, EnvelopeTypes, SweepTypes, LengthTypes, FlagTypes

-----------------------------------------------------------------------------
(* What a step of each action preserves.                                   *)
LEMMA WriteVolumeKeeps ==
  ASSUME IInv, NEW duty \in Duties, NEW control \in BOOLEAN, NEW constant \in BOOLEAN, NEW v \in Volumes,
         WriteVolume(duty, control, constant, v)
  PROVE  IInv'
<1>1. /\ TimerTypes /\ EnvelopeTypes /\ SweepTypes /\ LengthTypes /\ FlagTypes
      /\ PeriodInRange /\ DisabledHasNoLength
  BY TypesInGroups DEF IInv
<1>2. TimerTypes'
  BY <1>1, VolumeAssumption DEF WriteVolume, TimerTypes, timer, volume
<1>3. EnvelopeTypes'
  BY <1>1, VolumeAssumption DEF WriteVolume, EnvelopeTypes, envelope, volume
<1>4. SweepTypes'
  BY <1>1 DEF WriteVolume, SweepTypes, sweep, divider
<1>5. LengthTypes'
  BY <1>1 DEF WriteVolume, LengthTypes, length
<1>6. FlagTypes'
  BY <1>1, VolumeAssumption DEF WriteVolume, FlagTypes, length, volume, envelope, sweep, divider
<1>7. PeriodInRange'
  BY <1>1 DEF PeriodInRange, Underflown, WriteVolume, timer
<1>8. DisabledHasNoLength'
  BY <1>1 DEF DisabledHasNoLength, WriteVolume, length
<1> QED
  BY <1>2, <1>3, <1>4, <1>5, <1>6, <1>7, <1>8
  DEF IInv, TypeOK, TimerTypes, EnvelopeTypes, SweepTypes, LengthTypes, FlagTypes

LEMMA WriteSweepKeeps ==
  ASSUME IInv, NEW enabled \in BOOLEAN, NEW period \in SweepPeriods, NEW mode \in {-1, 1}, NEW shift \in Shifts,
         WriteSweep(enabled, period, mode, shift)
  PROVE  IInv'
<1>1. /\ TimerTypes /\ EnvelopeTypes /\ SweepTypes /\ LengthTypes /\ FlagTypes
      /\ PeriodInRange /\ DisabledHasNoLength
  BY TypesInGroups DEF IInv
<1>2. TimerTypes'
  BY <1>1 DEF WriteSweep, TimerTypes, timer, volume
<1>3. EnvelopeTypes'
  BY <1>1 DEF WriteSweep, EnvelopeTypes, envelope, volume
<1>4. SweepTypes'
  BY <1>1, SweepAssumption DEF WriteSweep, SweepTypes, sweep, divider
<1>5. LengthTypes'
  BY <1>1 DEF WriteSweep, LengthTypes, length
<1>6. FlagTypes'
  BY <1>1, SweepAssumption DEF WriteSweep, FlagTypes, length, volume, envelope, sweep, divider
<1>7. PeriodInRange'
  BY <1>1 DEF PeriodInRange, Underflown, WriteSweep, timer
<1>8. DisabledHasNoLength'
  BY <1>1 DEF DisabledHasNoLength, WriteSweep, length
<1> QED
  BY <1>2, <1>3, <1>4, <1>5, <1>6, <1>7, <1>8
  DEF IInv, TypeOK, TimerTypes, EnvelopeTypes, SweepTypes, LengthTypes, FlagTypes

LEMMA WritePeriodLowKeeps ==
  ASSUME IInv, NEW b \in LowBytes,
         WritePeriodLow(b)
  PROVE  IInv'
<1>1. /\ TimerTypes /\ EnvelopeTypes /\ SweepTypes /\ LengthTypes /\ FlagTypes
      /\ PeriodInRange /\ DisabledHasNoLength
  BY TypesInGroups DEF IInv
<1>p. timer_reload' \in 0 .. PeriodSize - 1
  <2>1. timer_reload \in Nat
    BY <1>1, PeriodSizes DEF TimerTypes
  <2>2. timer_reload \div LowSize \in Nat
    BY <2>1, PeriodAssumption, Remainder
  <2>3. (timer_reload \div LowSize) % HighSize \in 0 .. HighSize - 1
    BY <2>2, PeriodAssumption, Remainder
  <2>4. b + ((timer_reload \div LowSize) % HighSize) * LowSize \in 0 .. PeriodSize - 1
    BY <2>3, PeriodAssumption, TwoParts
  <2>5. timer_reload' = ((timer_reload \div LowSize) % HighSize) * LowSize + b
    BY DEF WritePeriodLow
  <2>6. ((timer_reload \div LowSize) % HighSize) * LowSize \in Int /\ b \in Int
    BY <2>3, PeriodAssumption
  <2> QED
    BY <2>4, <2>5, <2>6
<1>2. TimerTypes'
  <2>1. timer_counter' = timer_counter /\ sequencer_' = sequencer_ /\ duty_' = duty_
    BY DEF WritePeriodLow, volume
  <2> QED
    BY <1>1, <2>1, <1>p, PeriodSizes DEF TimerTypes
<1>3. EnvelopeTypes'
  BY <1>1 DEF WritePeriodLow, EnvelopeTypes, envelope, volume
<1>4. SweepTypes'
  BY <1>1 DEF WritePeriodLow, SweepTypes, sweep, divider
<1>5. LengthTypes'
  BY <1>1 DEF WritePeriodLow, LengthTypes, length
<1>6. FlagTypes'
  BY <1>1 DEF WritePeriodLow, FlagTypes, length, volume, envelope, sweep, divider
<1>7. PeriodInRange'
  BY <1>p, PeriodSizes DEF PeriodInRange
<1>8. DisabledHasNoLength'
  BY <1>1 DEF DisabledHasNoLength, WritePeriodLow, length
<1> QED
  BY <1>2, <1>3, <1>4, <1>5, <1>6, <1>7, <1>8
  DEF IInv, TypeOK, TimerTypes, EnvelopeTypes, SweepTypes, LengthTypes, FlagTypes

LEMMA WritePeriodHighKeeps ==
  ASSUME IInv, NEW h \in HighBits, NEW n \in LengthTable,
         WritePeriodHigh(h, n)
  PROVE  IInv'
<1>1. /\ TimerTypes /\ EnvelopeTypes /\ SweepTypes /\ LengthTypes /\ FlagTypes
      /\ PeriodInRange /\ DisabledHasNoLength
  BY TypesInGroups DEF IInv
<1>p. timer_reload' \in 0 .. PeriodSize - 1
  <2>1. timer_reload % LowSize \in 0 .. LowSize - 1
    BY <1>1, PeriodSizes, PeriodAssumption, Remainder DEF TimerTypes
  <2>2. (timer_reload % LowSize) + h * LowSize \in 0 .. PeriodSize - 1
    BY <2>1, PeriodAssumption, TwoParts
  <2> QED
    BY <2>2 DEF WritePeriodHigh
<1>2. TimerTypes'
  <2>1. timer_counter' = timer_counter /\ sequencer_' = 0 /\ duty_' = duty_
    BY DEF WritePeriodHigh, volume
  <2> QED
    BY <1>1, <2>1, <1>p, PeriodSizes, SequenceAssumption DEF TimerTypes
<1>3. EnvelopeTypes'
  BY <1>1 DEF WritePeriodHigh, EnvelopeTypes, envelope, volume
<1>4. SweepTypes'
  BY <1>1 DEF WritePeriodHigh, SweepTypes, sweep, divider
<1>5. LengthTypes'
  BY <1>1, LengthAssumption DEF WritePeriodHigh, LengthTypes, length
<1>6. FlagTypes'
  BY <1>1 DEF WritePeriodHigh, FlagTypes, length, volume, envelope, sweep, divider
<1>7. PeriodInRange'
  BY <1>p, PeriodSizes DEF PeriodInRange
<1>8. DisabledHasNoLength'
  BY <1>1 DEF DisabledHasNoLength, WritePeriodHigh
<1> QED
  BY <1>2, <1>3, <1>4, <1>5, <1>6, <1>7, <1>8
  DEF IInv, TypeOK, TimerTypes, EnvelopeTypes, SweepTypes, LengthTypes, FlagTypes

LEMMA SetEnabledKeeps ==
  ASSUME IInv, NEW enabled \in BOOLEAN,
         SetEnabled(enabled)
  PROVE  IInv'
<1>1. /\ TimerTypes /\ EnvelopeTypes /\ SweepTypes /\ LengthTypes /\ FlagTypes
      /\ PeriodInRange /\ DisabledHasNoLength
  BY TypesInGroups DEF IInv
<1>2. TimerTypes'
  BY <1>1 DEF SetEnabled, TimerTypes, timer, volume
<1>3. EnvelopeTypes'
  BY <1>1 DEF SetEnabled, EnvelopeTypes, envelope, volume
<1>4. SweepTypes'
  BY <1>1 DEF SetEnabled, SweepTypes, sweep, divider
<1>5. LengthTypes'
  BY <1>1 DEF SetEnabled, LengthTypes, length
<1>6. FlagTypes'
  BY <1>1 DEF SetEnabled, FlagTypes, length, volume, envelope, sweep, divider
<1>7. PeriodInRange'
  BY <1>1 DEF PeriodInRange, Underflown, SetEnabled, timer
<1>8. DisabledHasNoLength'
  BY <1>1 DEF DisabledHasNoLength, SetEnabled
<1> QED
  BY <1>2, <1>3, <1>4, <1>5, <1>6, <1>7, <1>8
  DEF IInv, TypeOK, TimerTypes, EnvelopeTypes, SweepTypes, LengthTypes, FlagTypes

LEMMA TimerClockKeeps ==
  ASSUME IInv, TimerClock
  PROVE  IInv'
<1>1. /\ TimerTypes /\ EnvelopeTypes /\ SweepTypes /\ LengthTypes /\ FlagTypes
      /\ PeriodInRange /\ DisabledHasNoLength
  BY TypesInGroups DEF IInv
<1>2. TimerTypes'
  BY <1>1, SequenceAssumption, PeriodSizes DEF TimerClock, TimerTypes, timer, volume, SequencerStep
<1>3. EnvelopeTypes'
  BY <1>1 DEF TimerClock, EnvelopeTypes, envelope, volume
<1>4. SweepTypes'
  BY <1>1 DEF TimerClock, SweepTypes, sweep, divider
<1>5. LengthTypes'
  BY <1>1 DEF TimerClock, LengthTypes, length
<1>6. FlagTypes'
  BY <1>1 DEF TimerClock, FlagTypes, length, volume, envelope, sweep, divider
<1>7. PeriodInRange'
  BY <1>1 DEF PeriodInRange, Underflown, TimerClock
<1>8. DisabledHasNoLength'
  BY <1>1 DEF DisabledHasNoLength, TimerClock, length
<1> QED
  BY <1>2, <1>3, <1>4, <1>5, <1>6, <1>7, <1>8
  DEF IInv, TypeOK, TimerTypes, EnvelopeTypes, SweepTypes, LengthTypes, FlagTypes

LEMMA EnvelopeClockKeeps ==
  ASSUME IInv, EnvelopeClock
  PROVE  IInv'
<1>1. /\ TimerTypes /\ EnvelopeTypes /\ SweepTypes /\ LengthTypes /\ FlagTypes
      /\ PeriodInRange /\ DisabledHasNoLength
  BY TypesInGroups DEF IInv
<1>2. TimerTypes'
  BY <1>1 DEF EnvelopeClock, TimerTypes, timer, volume
<1>3. EnvelopeTypes'
  BY <1>1, VolumeAssumption DEF EnvelopeClock, EnvelopeTypes, envelope, volume
<1>4. SweepTypes'
  BY <1>1 DEF EnvelopeClock, SweepTypes, sweep, divider
<1>5. LengthTypes'
  BY <1>1 DEF EnvelopeClock, LengthTypes, length
<1>6. FlagTypes'
  BY <1>1, VolumeAssumption DEF EnvelopeClock, FlagTypes, length, volume, envelope, sweep, divider
<1>7. PeriodInRange'
  BY <1>1 DEF PeriodInRange, Underflown, EnvelopeClock, timer
<1>8. DisabledHasNoLength'
  BY <1>1 DEF DisabledHasNoLength, EnvelopeClock, length
<1> QED
  BY <1>2, <1>3, <1>4, <1>5, <1>6, <1>7, <1>8
  DEF IInv, TypeOK, TimerTypes, EnvelopeTypes, SweepTypes, LengthTypes, FlagTypes

LEMMA LengthClockKeeps ==
  ASSUME IInv, LengthClock
  PROVE  IInv'
<1>1. /\ TimerTypes /\ EnvelopeTypes /\ SweepTypes /\ LengthTypes /\ FlagTypes
      /\ PeriodInRange /\ DisabledHasNoLength
  BY TypesInGroups DEF IInv
<1>2. TimerTypes'
  BY <1>1 DEF LengthClock, TimerTypes, timer, volume
<1>3. EnvelopeTypes'
  BY <1>1 DEF LengthClock, EnvelopeTypes, envelope, volume
<1>4. SweepTypes'
  BY <1>1 DEF LengthClock, SweepTypes, sweep, divider
<1>5. LengthTypes'
  BY <1>1 DEF LengthClock, LengthTypes, length
<1>6. FlagTypes'
  BY <1>1 DEF LengthClock, FlagTypes, length, volume, envelope, sweep, divider
<1>7. PeriodInRange'
  BY <1>1 DEF PeriodInRange, Underflown, LengthClock, timer
<1>8. DisabledHasNoLength'
  BY <1>1, LengthAssumption DEF DisabledHasNoLength, LengthClock, LengthTypes
<1> QED
  BY <1>2, <1>3, <1>4, <1>5, <1>6, <1>7, <1>8
  DEF IInv, TypeOK, TimerTypes, EnvelopeTypes, SweepTypes, LengthTypes, FlagTypes

LEMMA SweepClockKeeps ==
  ASSUME IInv, SweepClock
  PROVE  IInv'
<1>1. /\ TimerTypes /\ EnvelopeTypes /\ SweepTypes /\ LengthTypes /\ FlagTypes
      /\ PeriodInRange /\ DisabledHasNoLength
  BY TypesInGroups DEF IInv
<1>p. \/ timer_reload' = timer_reload
      \/ /\ timer_reload' \in 0 .. WordSize - 1
         /\ \/ timer_reload' < PeriodSize
            \/ is_pulse_1_ /\ timer_reload' = WordSize - 1
  <2>1. CASE Sweeps /\ Moves
    <3>1. timer_reload' = SweepGetTarget % WordSize
      BY <2>1 DEF SweepClock
    <3>2. TypeOK /\ PeriodInRange /\ Moves
      BY <2>1 DEF IInv
    <3>3. SweepGetTarget <= PeriodSize - 1 /\ PeriodSize \in Nat
      BY <2>1, PeriodSizes DEF Moves
    <3> QED
      BY <3>1, <3>2, <3>3, MovedPeriod
  <2>2. CASE ~(Sweeps /\ Moves)
    BY <2>2 DEF SweepClock
  <2> QED
    BY <2>1, <2>2
<1>2. TimerTypes'
  BY <1>1, <1>p DEF SweepClock, TimerTypes, timer, volume
<1>3. EnvelopeTypes'
  BY <1>1 DEF SweepClock, EnvelopeTypes, envelope, volume
<1>4. SweepTypes'
  BY <1>1 DEF SweepClock, SweepTypes, sweep, divider, CountedDown
<1>5. LengthTypes'
  BY <1>1 DEF SweepClock, LengthTypes, length
<1>6. FlagTypes'
  BY <1>1 DEF SweepClock, FlagTypes, length, volume, envelope, sweep, divider
<1>7. PeriodInRange'
  BY <1>1, <1>p DEF PeriodInRange, Underflown, SweepClock
<1>8. DisabledHasNoLength'
  BY <1>1 DEF DisabledHasNoLength, SweepClock, length
<1> QED
  BY <1>2, <1>3, <1>4, <1>5, <1>6, <1>7, <1>8
  DEF IInv, TypeOK, TimerTypes, EnvelopeTypes, SweepTypes, LengthTypes, FlagTypes

LEMMA StepIInv == IInv /\ [Next]_vars => IInv'
<1> SUFFICES ASSUME IInv, [Next]_vars PROVE IInv'
  OBVIOUS
<1>1. CASE Write
  <2>1. ASSUME NEW duty \in Duties, NEW control \in BOOLEAN, NEW constant \in BOOLEAN,
               NEW v \in Volumes, WriteVolume(duty, control, constant, v)
        PROVE  IInv'
    BY <2>1, WriteVolumeKeeps
  <2>2. ASSUME NEW enabled \in BOOLEAN, NEW period \in SweepPeriods,
               NEW mode \in {-1, 1}, NEW shift \in Shifts,
               WriteSweep(enabled, period, mode, shift)
        PROVE  IInv'
    BY <2>2, WriteSweepKeeps
  <2>3. ASSUME NEW b \in LowBytes, WritePeriodLow(b)
        PROVE  IInv'
    BY <2>3, WritePeriodLowKeeps
  <2>4. ASSUME NEW h \in HighBits, NEW n \in LengthTable, WritePeriodHigh(h, n)
        PROVE  IInv'
    BY <2>4, WritePeriodHighKeeps
  <2>5. ASSUME NEW enabled \in BOOLEAN, SetEnabled(enabled)
        PROVE  IInv'
    BY <2>5, SetEnabledKeeps
  <2> QED
    BY <1>1, <2>1, <2>2, <2>3, <2>4, <2>5 DEF Write
<1>2. CASE Clock
  BY <1>2, TimerClockKeeps, EnvelopeClockKeeps, LengthClockKeeps, SweepClockKeeps
  DEF Clock
<1>3. CASE UNCHANGED vars
  BY <1>3
  DEF IInv, TypeOK, PeriodInRange, Underflown, DisabledHasNoLength,
      vars, timer, envelope, volume, length, sweep, divider
<1> QED
  BY <1>1, <1>2, <1>3 DEF Next

LEMMA Inductive == Spec => []IInv
  BY InitIInv, StepIInv, PTL DEF Spec

-----------------------------------------------------------------------------
(* Every register and counter keeps its width, whatever is written between *)
(* any two clocks.                                                         *)
THEOREM PulseTypeCorrect == Spec => []TypeOK
<1>1. IInv => TypeOK
  BY DEF IInv
<1> QED
  BY <1>1, Inductive, PTL

(* No sweep and no write takes the period out of its eleven bits, but for  *)
(* the underflow of the first channel (SweepClock, WritePeriodLow).        *)
THEOREM PulsePeriodInRange == Spec => []PeriodInRange
<1>1. IInv => PeriodInRange
  BY DEF IInv
<1> QED
  BY <1>1, Inductive, PTL

(* GetCurrent is zero from the underflow on until the period is written,   *)
(* whatever the sweep is set to.                                           *)
THEOREM PulseUnderflowSilent == Spec => []UnderflowSilent
<1>1. IInv => UnderflowSilent
  <2> SUFFICES ASSUME IInv, Underflown PROVE GetCurrent = 0
    BY DEF UnderflowSilent
  <2>1. SweepGetTarget > PeriodSize - 1
    BY TargetOfUnderflow DEF IInv
  <2> QED
    BY <2>1 DEF GetCurrent, PeriodMutes
<1> QED
  BY <1>1, Inductive, PTL

(* SetEnabled(false) silences the channel at once, and nothing but an      *)
(* enabling and a new length brings it back.                               *)
THEOREM PulseDisabledIsSilent == Spec => []DisabledIsSilent
<1>1. IInv => DisabledIsSilent
  BY DEF IInv, DisabledHasNoLength, DisabledIsSilent, GetCurrent
<1> QED
  BY <1>1, Inductive, PTL

(* SweepClock downwards never brings back a channel that its period has    *)
(* muted.                                                                  *)
THEOREM PulseSweepDownKeepsSilent == Spec => SweepDownKeepsSilent
<1>1. IInv /\ IInv' /\ [Next]_vars
        => [SweepClock /\ sweep_mode_ = -1 /\ PeriodMutes => PeriodMutes']_vars
  <2> SUFFICES ASSUME IInv, IInv', SweepClock, sweep_mode_ = -1, PeriodMutes
               PROVE  PeriodMutes'
    OBVIOUS
  <2>1. CASE timer_reload' = timer_reload
    <3>1. SweepGetTarget' = SweepGetTarget
      BY <2>1 DEF SweepClock, SweepGetTarget, ShiftResult, sweep
    <3> QED
      BY <2>1, <3>1 DEF PeriodMutes
  <2>2. CASE Sweeps /\ Moves
    <3>1. TypeOK /\ PeriodInRange /\ timer_reload \in Nat
      BY PeriodSizes DEF IInv, TypeOK
    <3>2. timer_reload' = SweepGetTarget % WordSize
      BY <2>2 DEF SweepClock
    <3>3. timer_reload < PeriodSize
      BY <2>2, <3>1, MovedPeriod
    <3>4. SweepGetTarget \in Int /\ SweepGetTarget <= timer_reload
      BY <3>1, <3>3, TargetOfPeriod
    <3>5. ~(SweepGetTarget > PeriodSize - 1)
      BY <2>2, <3>4, PeriodSizes DEF Moves
    <3>6. timer_reload < MinPeriod
      BY <3>5 DEF PeriodMutes
    <3>7. CASE timer_reload' = SweepGetTarget
      <4>1. timer_reload' < MinPeriod
        BY <3>1, <3>4, <3>6, <3>7, PeriodAssumption
      <4> QED
        BY <4>1 DEF PeriodMutes
    <3>8. CASE timer_reload' = WordSize - 1
      <4>1. (TypeOK /\ Underflown
               => SweepGetTarget \in Int /\ SweepGetTarget > PeriodSize - 1)'
        BY TargetOfUnderflow, PTL
      <4>2. Underflown' /\ TypeOK'
        BY <3>8 DEF Underflown, IInv
      <4> QED
        BY <4>1, <4>2 DEF PeriodMutes
    <3> QED
      BY <2>2, <3>1, <3>2, <3>7, <3>8, MovedPeriod
  <2> QED
    BY <2>1, <2>2 DEF SweepClock
<1> QED
  BY <1>1, Inductive, PTL DEF Spec, SweepDownKeepsSilent
=============================================================================
