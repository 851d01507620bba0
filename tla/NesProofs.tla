------------------------------- MODULE NesProofs -------------------------------
(***************************************************************************)
(* Proofs about Nes, for every period (zero too), sample period, burst     *)
(* length, pause length and set of instruction times.                      *)
(***************************************************************************)
EXTENDS Nes, TLAPS

(* Where the clock stands, against the calls made and the cycles the       *)
(* period is ahead.                                                        *)
Schedule ==
  /\ runPc \in {"head", "sleep", "exited"} =>
       /\ todo = 0
       /\ clocked = calls * Period + cycles_since_last_period_
  /\ runPc = "fill" =>
       /\ cycles_since_last_period_ < Period
       /\ clocked + todo = calls * Period + Period
  /\ runPc = "cpu" =>
       clocked + todo = calls * Period + cycles_since_last_period_ + total_cycles
  /\ returnedAt <= clocked
  /\ runPc \in {"head", "sleep"} /\ cycles_since_last_period_ > Period =>
       returnedAt = clocked

(* What a pass of the loop that started below Burst may still add.         *)
PassLimit ==
  (Burst - 1) * CyclesPerSample + (CyclesPerSample - 1) + LongestPass

Pace ==
  LET sampled == number_of_samples_ * CyclesPerSample + cycles_since_last_output_
  IN  /\ runPc \in {"head", "sleep", "exited", "fill"} => sampled + todo <= PassLimit
      /\ runPc = "cpu" =>
           sampled + todo + (MaxCallCycles - total_cycles) <= PassLimit
      /\ total_cycles <= MaxCallCycles
      /\ runPc = "sleep" => number_of_samples_ >= Burst

(* The samples since Stop() belong to the burst in progress.               *)
Stopping ==
  destroy_ =>
    /\ signals - signalsAtStop <= number_of_samples_
    /\ runPc = "sleep" /\ slept = SleepTicks => signals = signalsAtStop

IInv == TypeOK /\ Schedule /\ SamplesExact /\ Pace /\ Stopping

-----------------------------------------------------------------------------
(* The laws of arithmetic the steps need.                                  *)
LEMMA TimesSucc == \A a, b \in Int : (a + 1) * b = a * b + b
  OBVIOUS

LEMMA TimesMinus == \A a, b, c \in Int : (a - b) * c = a * c - b * c
  OBVIOUS

LEMMA TimesNat == \A a, b \in Nat : a * b \in Nat
  OBVIOUS

LEMMA TimesMono == \A a, b, c \in Nat : a <= b => a * c <= b * c
<1> SUFFICES ASSUME NEW a \in Nat, NEW b \in Nat, NEW c \in Nat, a <= b
             PROVE  a * c <= b * c
  OBVIOUS
<1>1. (b - a) * c = b * c - a * c
  BY TimesMinus
<1>2. (b - a) * c \in Nat
  <2>1. b - a \in Nat
    OBVIOUS
  <2> QED
    BY <2>1, TimesNat
<1>3. a * c \in Nat /\ b * c \in Nat
  BY TimesNat
<1> QED
  BY <1>1, <1>2, <1>3

(* Division rounds down.                                                   *)
LEMMA DivBound ==
  ASSUME NEW x \in Nat, NEW y \in Nat, NEW z \in Nat, NEW c \in Nat \ {0},
         x * c <= y * c + z
  PROVE  x <= y + z \div c
<1> DEFINE q == z \div c
<1>1. q \in Nat /\ z < q * c + c
  <2>1. z = c * (z \div c) + (z % c) /\ z % c < c /\ z \div c \in Nat
    OBVIOUS
  <2>2. c * q = q * c
    BY <2>1
  <2> QED
    BY <2>1, <2>2
<1>2. SUFFICES ASSUME x > y + q PROVE FALSE
  BY <1>1
<1> HIDE DEF q
<1>3. (y + q + 1) * c <= x * c
  <2>1. y + q + 1 \in Nat /\ y + q + 1 <= x
    BY <1>1, <1>2
  <2> QED
    BY <2>1, TimesMono
<1>4. (y + q + 1) * c = y * c + q * c + c
  BY <1>1
<1>5. y * c \in Nat /\ q * c \in Nat /\ x * c \in Nat
  BY <1>1, TimesNat
<1> QED
  BY <1>1, <1>3, <1>4, <1>5

-----------------------------------------------------------------------------
LEMMA ConstantTypes ==
  /\ Period \in Nat /\ CyclesPerSample \in Nat \ {0} /\ Burst \in Nat \ {0}
  /\ SleepTicks \in Nat \ {0} /\ MaxCallCycles \in Nat
  /\ LongestPass \in Nat /\ Period <= LongestPass /\ MaxCallCycles <= LongestPass
  /\ (Burst - 1) * CyclesPerSample \in Nat
<1>1. Burst - 1 \in Nat
  BY BurstAssumption
<1>2. (Burst - 1) * CyclesPerSample \in Nat
  BY <1>1, CyclesPerSampleAssumption, TimesNat
<1> QED
  BY <1>2, PeriodAssumption, CyclesPerSampleAssumption, BurstAssumption,
     SleepTicksAssumption, MaxCallCyclesAssumption DEF LongestPass

LEMMA InitIInv == Init => IInv
<1> SUFFICES ASSUME Init PROVE IInv
  OBVIOUS
<1> USE DEF Init
<1>1. TypeOK
  <2>1. 0 \in 0 .. CyclesPerSample - 1 /\ 0 \in 0 .. SleepTicks
    BY ConstantTypes
  <2> QED
    BY <2>1 DEF TypeOK
<1>2. Schedule
  <2>1. 0 * Period = 0
    BY ConstantTypes
  <2> QED
    BY <2>1, ConstantTypes DEF Schedule
<1>3. SamplesExact /\ Pace
  <2>1. 0 * CyclesPerSample = 0
    BY ConstantTypes
  <2> QED
    BY <2>1, ConstantTypes DEF SamplesExact, Pace, PassLimit
<1>4. Stopping
  BY DEF Stopping
<1> QED
  BY <1>1, <1>2, <1>3, <1>4 DEF IInv

LEMMA NextIInv == IInv /\ [Next]_vars => IInv'
<1> SUFFICES ASSUME IInv, [Next]_vars PROVE IInv'
  OBVIOUS
<1>0. TypeOK /\ Schedule /\ SamplesExact /\ Pace /\ Stopping
  BY DEF IInv
<1>a. /\ calls * Period \in Nat /\ number_of_samples_ * CyclesPerSample \in Nat
      /\ signals * CyclesPerSample \in Nat /\ PassLimit \in Int
  BY <1>0, ConstantTypes, TimesNat DEF TypeOK, PassLimit
<1>1. CASE ClockCycle
  <2> USE <1>1 DEF ClockCycle, loop, stop, history
  <2>1. /\ todo' = todo - 1 /\ clocked' = clocked + 1
        /\ UNCHANGED <<runPc, total_cycles, cycles_since_last_period_, slept,
                       destroy_, signalsAtStop, calls, returnedAt>>
    OBVIOUS
  <2>2. /\ number_of_samples_' - number_of_samples_ = signals' - signals
        /\ number_of_samples_' \in Nat /\ signals' \in Nat
        /\ number_of_samples_' >= number_of_samples_
        /\ cycles_since_last_output_' \in 0 .. CyclesPerSample - 1
    BY <1>0, ConstantTypes DEF TypeOK
  <2>3. /\ number_of_samples_' * CyclesPerSample + cycles_since_last_output_'
             = number_of_samples_ * CyclesPerSample + cycles_since_last_output_ + 1
        /\ signals' * CyclesPerSample + cycles_since_last_output_'
             = signals * CyclesPerSample + cycles_since_last_output_ + 1
    <3>1. /\ (number_of_samples_ + 1) * CyclesPerSample
               = number_of_samples_ * CyclesPerSample + CyclesPerSample
          /\ (signals + 1) * CyclesPerSample
               = signals * CyclesPerSample + CyclesPerSample
      BY <1>0, ConstantTypes, TimesSucc DEF TypeOK
    <3> QED
      BY <1>0, <1>a, <3>1, ConstantTypes DEF TypeOK
  <2>4. todo > 0 /\ runPc \in {"cpu", "fill"}
    BY <1>0 DEF Schedule, TypeOK
  <2>5. TypeOK'
    BY <1>0, <2>1, <2>2, <2>4 DEF TypeOK
  <2>6. Schedule'
    BY <1>0, <1>a, <2>1, <2>4, ConstantTypes DEF Schedule, TypeOK
  <2>7. SamplesExact'
    BY <1>0, <1>a, <2>1, <2>3 DEF SamplesExact, TypeOK
  <2>8. Pace'
    <3>1. number_of_samples_' * CyclesPerSample \in Nat
      BY <2>2, ConstantTypes, TimesNat
    <3> DEFINE sampled == number_of_samples_ * CyclesPerSample
                            + cycles_since_last_output_
    <3>2. /\ sampled \in Int /\ sampled' = sampled + 1 /\ todo \in Nat
          /\ total_cycles \in Nat /\ MaxCallCycles \in Nat /\ PassLimit' = PassLimit
      BY <1>0, <1>a, <2>3, ConstantTypes DEF TypeOK, PassLimit
    <3>3. /\ runPc = "fill" => sampled + todo <= PassLimit
          /\ runPc = "cpu" =>
               sampled + todo + (MaxCallCycles - total_cycles) <= PassLimit
          /\ total_cycles <= MaxCallCycles
      BY <1>0 DEF Pace
    <3> HIDE DEF sampled
    <3>4. /\ runPc' = "fill" => sampled' + todo' <= PassLimit'
          /\ runPc' = "cpu" =>
               sampled' + todo' + (MaxCallCycles - total_cycles') <= PassLimit'
      BY <1>a, <2>1, <3>2, <3>3
    <3> QED
      BY <2>1, <2>4, <3>3, <3>4 DEF Pace, sampled
  <2>9. Stopping'
    <3>1. signals \in Int /\ signalsAtStop \in Int /\ number_of_samples_ \in Int
      BY <1>0 DEF TypeOK
    <3>2. signals - signalsAtStop <= number_of_samples_ =>
            signals' - signalsAtStop <= number_of_samples_'
      BY <3>1
    <3> QED
      BY <1>0, <2>1, <2>4, <3>2 DEF Stopping
  <2> QED
    BY <2>5, <2>6, <2>7, <2>8, <2>9 DEF IInv
<1>2. CASE CallCpu
  <2> USE <1>2 DEF CallCpu, output, stop
  <2>1. (calls + 1) * Period = calls * Period + Period
    BY <1>0, ConstantTypes, TimesSucc DEF TypeOK
  <2>2. TypeOK'
    BY <1>0, ConstantTypes DEF TypeOK
  <2>3. Schedule'
    BY <1>0, <1>a, <2>1, ConstantTypes DEF Schedule, TypeOK
  <2>4. SamplesExact'
    BY <1>0 DEF SamplesExact
  <2>5. Pace'
    <3>1. number_of_samples_ * CyclesPerSample <= (Burst - 1) * CyclesPerSample
      BY <1>0, ConstantTypes, TimesMono DEF BurstRunning, TypeOK
    <3>2. todo = 0
      BY <1>0 DEF Schedule
    <3> QED
      BY <1>0, <1>a, <3>1, <3>2, ConstantTypes DEF Pace, PassLimit, TypeOK
  <2>6. Stopping'
    BY <1>0 DEF Stopping
  <2> QED
    BY <2>2, <2>3, <2>4, <2>5, <2>6 DEF IInv
<1>3. ASSUME NEW k \in InstructionCycles, Instruction(k) PROVE IInv'
  <2> USE <1>3 DEF Instruction, output, stop, history
  <2>1. k \in Nat
    BY InstructionCyclesAssumption
  <2>2. TypeOK'
    BY <1>0, <2>1 DEF TypeOK
  <2>3. Schedule'
    BY <1>0, <1>a, <2>1, ConstantTypes DEF Schedule, TypeOK
  <2>4. SamplesExact'
    BY <1>0 DEF SamplesExact
  <2>5. Pace'
    BY <1>0, <1>a, <2>1, ConstantTypes DEF Pace, PassLimit, TypeOK
  <2>6. Stopping'
    BY <1>0 DEF Stopping
  <2> QED
    BY <2>2, <2>3, <2>4, <2>5, <2>6 DEF IInv
<1>4. CASE Stp
  <2> USE <1>4 DEF Stp, output, stop
  <2>1. TypeOK'
    BY <1>0 DEF TypeOK
  <2>2. Schedule'
    BY <1>0, <1>a, ConstantTypes DEF Schedule, TypeOK
  <2>3. SamplesExact' /\ Stopping'
    BY <1>0 DEF SamplesExact, Stopping
  <2>4. Pace'
    BY <1>0, <1>a, ConstantTypes DEF Pace, PassLimit, TypeOK
  <2> QED
    BY <2>1, <2>2, <2>3, <2>4 DEF IInv
<1>5. CASE Fill
  <2> USE <1>5 DEF Fill, output, stop, history
  <2>1. TypeOK'
    BY <1>0, ConstantTypes DEF TypeOK
  <2>2. Schedule'
    BY <1>0, <1>a, ConstantTypes DEF Schedule, TypeOK
  <2>3. SamplesExact' /\ Stopping'
    BY <1>0 DEF SamplesExact, Stopping
  <2>4. Pace'
    <3>1. number_of_samples_ * CyclesPerSample <= (Burst - 1) * CyclesPerSample
      BY <1>0, ConstantTypes, TimesMono DEF BurstRunning, TypeOK
    <3> QED
      BY <1>0, <1>a, <3>1, ConstantTypes DEF Pace, PassLimit, TypeOK
  <2> QED
    BY <2>1, <2>2, <2>3, <2>4 DEF IInv
<1>6. CASE Filled
  <2> USE <1>6 DEF Filled, output, stop, history
  <2>1. TypeOK'
    BY <1>0, ConstantTypes DEF TypeOK
  <2>2. Schedule'
    BY <1>0, <1>a, ConstantTypes DEF Schedule, TypeOK
  <2>3. SamplesExact' /\ Stopping' /\ Pace'
    BY <1>0 DEF SamplesExact, Stopping, Pace
  <2> QED
    BY <2>1, <2>2, <2>3 DEF IInv
<1>7. CASE EndBurst
  <2> USE <1>7 DEF EndBurst, BurstRunning, output, stop, history
  <2>1. TypeOK' /\ Schedule'
    BY <1>0, ConstantTypes DEF TypeOK, Schedule
  <2>2. SamplesExact' /\ Pace'
    BY <1>0, ConstantTypes DEF SamplesExact, Pace, TypeOK
  <2>3. Stopping'
    BY <1>0, ConstantTypes DEF Stopping
  <2> QED
    BY <2>1, <2>2, <2>3 DEF IInv
<1>8. CASE SleepTick
  <2> USE <1>8 DEF SleepTick, output, stop, history
  <2>1. TypeOK' /\ Schedule'
    BY <1>0, ConstantTypes DEF TypeOK, Schedule
  <2>2. SamplesExact' /\ Pace' /\ Stopping'
    BY <1>0 DEF SamplesExact, Pace, Stopping
  <2> QED
    BY <2>1, <2>2 DEF IInv
<1>9. CASE WakeUp
  <2> USE <1>9 DEF WakeUp, stop, history
  <2>1. number_of_samples_ >= Burst
    BY <1>0 DEF Pace
  <2>2. number_of_samples_ - Burst \in Nat /\ slept = SleepTicks
    BY <1>0, <2>1, ConstantTypes DEF TypeOK
  <2>3. TypeOK' /\ Schedule'
    BY <1>0, <2>2 DEF TypeOK, Schedule
  <2>4. SamplesExact' /\ Stopping'
    BY <1>0, <2>2 DEF SamplesExact, Stopping, TypeOK
  <2>5. Pace'
    <3>1. (number_of_samples_ - Burst) * CyclesPerSample
            <= number_of_samples_ * CyclesPerSample
      BY <1>0, <2>2, ConstantTypes, TimesMono DEF TypeOK
    <3>2. (number_of_samples_ - Burst) * CyclesPerSample \in Nat
      BY <2>2, ConstantTypes, TimesNat
    <3> QED
      BY <1>0, <1>a, <3>1, <3>2 DEF Pace, TypeOK, PassLimit
  <2> QED
    BY <2>3, <2>4, <2>5 DEF IInv
<1>10. CASE Stop
  <2> USE <1>10 DEF Stop, loop, output, history
  <2>1. TypeOK' /\ Schedule'
    BY <1>0 DEF TypeOK, Schedule
  <2>2. SamplesExact' /\ Pace'
    BY <1>0 DEF SamplesExact, Pace, PassLimit
  <2>3. Stopping'
    BY <1>0 DEF Stopping, TypeOK
  <2> QED
    BY <2>1, <2>2, <2>3 DEF IInv
<1>11. CASE UNCHANGED vars
  <2> USE <1>11 DEF vars, loop, output, stop, history
  <2>1. TypeOK' /\ Schedule' /\ SamplesExact' /\ Stopping'
    BY <1>0 DEF TypeOK, Schedule, SamplesExact, Stopping
  <2>2. Pace'
    BY <1>0 DEF Pace, PassLimit
  <2> QED
    BY <2>1, <2>2 DEF IInv
<1> QED
  BY <1>1, <1>2, <1>3, <1>4, <1>5, <1>6, <1>7, <1>8, <1>9, <1>10, <1>11
  DEF Next, Run, Exited

LEMMA SpecIInv == Spec => []IInv
  BY InitIInv, NextIInv, PTL DEF Spec

-----------------------------------------------------------------------------
(* The counters of the loop never run below zero: the pause subtracts      *)
(* Burst only from a number_of_samples_ that has reached it.               *)
THEOREM NesTypeCorrect == Spec => []TypeOK
<1>1. IInv => TypeOK
  BY DEF IInv
<1> QED
  BY <1>1, SpecIInv, PTL

(* One sample per CyclesPerSample cycles, for every mix of calls and       *)
(* fillings.                                                               *)
THEOREM NesSamplesExact == Spec => []SamplesExact
<1>1. IInv => SamplesExact
  BY DEF IInv
<1> QED
  BY <1>1, SpecIInv, PTL

LEMMA PaceFromIInv == IInv => PaceBound
<1> SUFFICES ASSUME IInv PROVE PaceBound
  OBVIOUS
<1>1. TypeOK /\ Pace
  BY DEF IInv
<1>2. number_of_samples_ * CyclesPerSample \in Nat
  BY <1>1, ConstantTypes, TimesNat DEF TypeOK
<1>3. number_of_samples_ * CyclesPerSample <= PassLimit
  BY <1>1, <1>2, ConstantTypes DEF Pace, TypeOK, PassLimit
<1>4. LongestPass + CyclesPerSample - 1 \in Nat /\ Burst - 1 \in Nat
  BY ConstantTypes
<1>5. number_of_samples_ * CyclesPerSample
        <= (Burst - 1) * CyclesPerSample + (LongestPass + CyclesPerSample - 1)
  BY <1>2, <1>3, ConstantTypes DEF PassLimit
<1>6. number_of_samples_ <= Burst - 1 + Overshoot
  BY <1>1, <1>4, <1>5, ConstantTypes, DivBound DEF TypeOK, Overshoot
<1> QED
  BY <1>6 DEF PaceBound

(* A burst overshoots by one pass of the loop, however many bursts went    *)
(* before.                                                                 *)
THEOREM NesPaceBound == Spec => []PaceBound
  BY PaceFromIInv, SpecIInv, PTL

(* After Stop() the thread produces one burst at most.                     *)
THEOREM NesStopLatency == Spec => []StopLatency
<1>1. ASSUME IInv PROVE StopLatency
  <2>1. PaceBound
    BY <1>1, PaceFromIInv
  <2>2. TypeOK /\ Stopping
    BY <1>1 DEF IInv
  <2>3. Overshoot \in Int
    BY ConstantTypes DEF Overshoot
  <2> QED
    BY <2>1, <2>2, <2>3, ConstantTypes DEF PaceBound, StopLatency, Stopping, TypeOK
<1> QED
  BY <1>1, SpecIInv, PTL

(* The schedule of the play routine never drifts.                          *)
THEOREM NesCallsOnSchedule == Spec => CallsOnSchedule
<1>1. ASSUME IInv, Next, calls' # calls
      PROVE  clocked = IF calls' * Period > returnedAt THEN calls' * Period
                       ELSE returnedAt
  <2>1. CallCpu
    BY <1>1 DEF Next, Run, ClockCycle, Instruction, Stp, Fill, Filled, EndBurst,
                SleepTick, WakeUp, Stop, Exited, vars, loop, output, stop, history
  <2>2. TypeOK /\ Schedule
    BY <1>1 DEF IInv
  <2>3. /\ calls' = calls + 1 /\ runPc = "head"
        /\ cycles_since_last_period_ >= Period
    BY <2>1 DEF CallCpu
  <2>4. /\ calls' * Period = calls * Period + Period
        /\ calls * Period \in Nat
    BY <2>2, <2>3, ConstantTypes, TimesSucc, TimesNat DEF TypeOK
  <2> QED
    BY <2>2, <2>3, <2>4, ConstantTypes DEF Schedule, TypeOK
<1>2. IInv /\ [Next]_vars =>
        [calls' # calls =>
           clocked = IF calls' * Period > returnedAt THEN calls' * Period
                     ELSE returnedAt]_vars
  BY <1>1
<1> QED
  BY <1>2, SpecIInv, PTL DEF Spec, CallsOnSchedule
=============================================================================
