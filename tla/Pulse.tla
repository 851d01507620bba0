--------------------------------- MODULE Pulse ---------------------------------
(***************************************************************************)
(* A pulse channel (src/src/nes/apu/pulse.cc): a sequencer stepped by the  *)
(* timer, an envelope or constant volume, a length counter, and a sweep    *)
(* unit that moves the timer's period up or down.  The two channels differ *)
(* in how the sweep moves down (is_pulse_1_).                              *)
(*                                                                         *)
(* The APU clocks the units; the CPU writes the registers in between.      *)
(***************************************************************************)
EXTENDS Integers, Sequences

CONSTANTS
  LowSize, HighSize,    \* 256 and 8: the bytes that a period is written in
  WordSize,             \* 65536: timer_.reload is a uint16_t
  LowBytes, HighBits,   \* the values that are written to them
  MinPeriod,            \* 8: shorter periods are silent
  MaxVolume,            \* 15
  Volumes,              \* volumes, also periods of the envelope, written
  LengthTable,          \* the values of kLengthTable
  SweepPeriods,         \* periods of the sweep, 0 .. 7
  Shifts,               \* shifts of the sweep, 0 .. 7
  Duties,               \* duty cycles
  SequenceLength,       \* 8
  kSequences            \* [Duties -> [0 .. SequenceLength - 1 -> {0, 1}]]

PeriodSize == LowSize * HighSize    \* 0x800

ASSUME PeriodAssumption ==
  /\ LowSize \in Nat \ {0} /\ HighSize \in Nat \ {0}
  /\ WordSize \in Nat /\ WordSize % 2 = 0 /\ WordSize >= 4 * PeriodSize
  /\ LowBytes \subseteq 0 .. LowSize - 1
  /\ HighBits \subseteq 0 .. HighSize - 1
  /\ MinPeriod \in 1 .. PeriodSize
ASSUME VolumeAssumption == MaxVolume \in Nat /\ Volumes \subseteq 0 .. MaxVolume
ASSUME LengthAssumption == LengthTable \subseteq 1 .. 255
ASSUME SweepAssumption == SweepPeriods \subseteq 0 .. 7 /\ Shifts \subseteq 0 .. 7
ASSUME SequenceAssumption ==
  /\ SequenceLength \in Nat \ {0}
  /\ kSequences \in [Duties -> [0 .. SequenceLength - 1 -> {0, 1}]]

VARIABLES
  is_pulse_1_,
  enabled_,
  timer_reload, timer_counter,         \* the Dividers timer_,
  envelope_reload, envelope_counter,   \* envelope_
  sweep_reload, sweep_counter,         \* and sweep_
  length_,
  control_flag_,                       \* halts the length, loops the envelope
  constant_volume_flag_, constant_volume_,
  envelope_volume_, envelope_start_flag_,
  sweep_enabled_, sweep_mode_, sweep_shift_, sweep_reload_flag_,
  duty_, sequencer_

timer    == <<timer_reload, timer_counter, sequencer_>>
envelope == <<envelope_counter, envelope_volume_, envelope_start_flag_>>
volume   == <<duty_, control_flag_, constant_volume_flag_, constant_volume_,
              envelope_reload>>
length   == <<enabled_, length_>>
sweep    == <<sweep_enabled_, sweep_mode_, sweep_shift_, sweep_reload>>
divider  == <<sweep_counter, sweep_reload_flag_>>
vars     == <<is_pulse_1_, timer, envelope, volume, length, sweep, divider>>

Init ==
  /\ is_pulse_1_ \in BOOLEAN
  /\ enabled_ = FALSE
  /\ timer_reload = 0 /\ timer_counter = 0
  /\ envelope_reload = 0 /\ envelope_counter = 0
  /\ sweep_reload = 0 /\ sweep_counter = 0
  /\ length_ = 0
  /\ control_flag_ = FALSE
  /\ constant_volume_flag_ = FALSE /\ constant_volume_ = 0
  /\ envelope_volume_ = 0 /\ envelope_start_flag_ = FALSE
  /\ sweep_enabled_ = FALSE /\ sweep_mode_ = 1 /\ sweep_shift_ = 0
  /\ sweep_reload_flag_ = FALSE
  /\ duty_ \in Duties /\ sequencer_ = 0

-----------------------------------------------------------------------------
(* SweepGetTarget and GetCurrent.                                          *)

PowerOfTwo == <<1, 2, 4, 8, 16, 32, 64, 128>>

ShiftRight(x, s) == x \div PowerOfTwo[s + 1]

(* The value of a 16-bit word read as an int16_t.                          *)
Signed(x) == IF x >= WordSize \div 2 THEN x - WordSize ELSE x

(* shift_result; an int16_t holds every value that comes up.               *)
ShiftResult ==
  LET shifted == sweep_mode_ * Signed(ShiftRight(timer_reload, sweep_shift_))
  IN  IF sweep_mode_ = -1 /\ is_pulse_1_ THEN shifted - 1 ELSE shifted

SweepGetTarget == timer_reload + ShiftResult

(* The test of the target against 0x7FF; it has no lower bound.  Mutant:   *)
(* the channel is muted by a short period only.                            *)
PeriodMutesShortOnly == timer_reload < MinPeriod

PeriodMutes == timer_reload < MinPeriod \/ SweepGetTarget > PeriodSize - 1

GetCurrent ==
  IF PeriodMutes \/ length_ = 0 THEN 0
  ELSE kSequences[duty_][sequencer_]
         * (IF constant_volume_flag_ THEN constant_volume_ ELSE envelope_volume_)

-----------------------------------------------------------------------------
(* SetByte and SetEnabled.                                                 *)

(* 0x4000, 0x4004                                                          *)
WriteVolume(duty, control, constant, v) ==
  /\ duty_' = duty
  /\ control_flag_' = control
  /\ constant_volume_flag_' = constant
  /\ constant_volume_' = v
  /\ envelope_reload' = v
  /\ UNCHANGED <<is_pulse_1_, timer, envelope, length, sweep, divider>>

(* 0x4001, 0x4005                                                          *)
WriteSweep(enabled, period, mode, shift) ==
  /\ sweep_enabled_' = enabled
  /\ sweep_mode_' = mode
  /\ sweep_reload' = period
  /\ sweep_shift_' = shift
  /\ sweep_reload_flag_' = TRUE
  /\ UNCHANGED <<is_pulse_1_, timer, envelope, volume, length, sweep_counter>>

(* 0x4002, 0x4006.  Mutant: the high bits are not masked.                  *)
WritePeriodLowUnmasked(b) ==
  /\ timer_reload' = (timer_reload \div LowSize) * LowSize + b
  /\ UNCHANGED <<is_pulse_1_, timer_counter, sequencer_, envelope, volume, length,
                 sweep, divider>>

WritePeriodLow(b) ==
  /\ timer_reload' = ((timer_reload \div LowSize) % HighSize) * LowSize + b
  /\ UNCHANGED <<is_pulse_1_, timer_counter, sequencer_, envelope, volume, length,
                 sweep, divider>>

(* 0x4003, 0x4007.                                                         *)
WritePeriodHigh(h, n) ==
  /\ timer_reload' = (timer_reload % LowSize) + h * LowSize
  /\ length_' = IF enabled_ THEN n ELSE length_
  /\ sequencer_' = 0
  /\ envelope_start_flag_' = TRUE
  /\ UNCHANGED <<is_pulse_1_, enabled_, timer_counter, envelope_counter,
                 envelope_volume_, volume, sweep, divider>>

(* 0x4015                                                                  *)
SetEnabled(enabled) ==
  /\ enabled_' = enabled
  /\ length_' = IF enabled THEN length_ ELSE 0
  /\ UNCHANGED <<is_pulse_1_, timer, envelope, volume, sweep, divider>>

-----------------------------------------------------------------------------
(* The clocks.                                                             *)

SequencerStep == IF sequencer_ + 1 = SequenceLength THEN 0 ELSE sequencer_ + 1

TimerClock ==
  /\ IF timer_counter = 0
     THEN timer_counter' = timer_reload /\ sequencer_' = SequencerStep
     ELSE timer_counter' = timer_counter - 1 /\ UNCHANGED sequencer_
  /\ UNCHANGED <<is_pulse_1_, timer_reload, envelope, volume, length, sweep, divider>>

EnvelopeClock ==
  /\ IF envelope_start_flag_
     THEN /\ envelope_volume_' = MaxVolume
          /\ envelope_counter' = envelope_reload
          /\ envelope_start_flag_' = FALSE
     ELSE /\ IF envelope_counter = 0
             THEN /\ envelope_volume_' =
                       IF envelope_volume_ > 0 THEN envelope_volume_ - 1
                       ELSE IF control_flag_ THEN MaxVolume ELSE 0
                  /\ envelope_counter' = envelope_reload
             ELSE /\ envelope_counter' = envelope_counter - 1
                  /\ UNCHANGED envelope_volume_
          /\ UNCHANGED envelope_start_flag_
  /\ UNCHANGED <<is_pulse_1_, timer, volume, length, sweep, divider>>

LengthClock ==
  /\ length_' = IF ~control_flag_ /\ length_ > 0 THEN length_ - 1 ELSE length_
  /\ UNCHANGED <<is_pulse_1_, enabled_, timer, envelope, volume, sweep, divider>>

(* The sweep's divider after its countdown, and whether it has run out.    *)
CountedDown ==
  IF ~sweep_reload_flag_ /\ sweep_counter > 0 THEN sweep_counter - 1 ELSE sweep_counter

Sweeps == sweep_enabled_ /\ CountedDown = 0

(* target <= 0x7FF && sweep_shift_: the period moves to the target.        *)
Moves == SweepGetTarget <= PeriodSize - 1 /\ sweep_shift_ # 0

SweepClock ==
  /\ timer_reload' = IF Sweeps /\ Moves THEN SweepGetTarget % WordSize
                     ELSE timer_reload
  /\ sweep_counter' = IF Sweeps \/ sweep_reload_flag_ THEN sweep_reload
                      ELSE CountedDown
  /\ sweep_reload_flag_' = FALSE
  /\ UNCHANGED <<is_pulse_1_, timer_counter, sequencer_, envelope, volume, length,
                 sweep>>

-----------------------------------------------------------------------------
Write ==
  \/ \E duty \in Duties, control, constant \in BOOLEAN, v \in Volumes :
       WriteVolume(duty, control, constant, v)
  \/ \E enabled \in BOOLEAN, period \in SweepPeriods, mode \in {-1, 1},
        shift \in Shifts : WriteSweep(enabled, period, mode, shift)
  \/ \E b \in LowBytes : WritePeriodLow(b)
  \/ \E h \in HighBits, n \in LengthTable : WritePeriodHigh(h, n)
  \/ \E enabled \in BOOLEAN : SetEnabled(enabled)

Clock == TimerClock \/ EnvelopeClock \/ LengthClock \/ SweepClock

Next == Write \/ Clock

Spec == Init /\ [][Next]_vars

-----------------------------------------------------------------------------
(* Properties.                                                             *)

(* What the sweep of the first channel leaves when it underflows: 0xFFFF.  *)
Underflown == timer_reload = WordSize - 1

TypeOK ==
  /\ is_pulse_1_ \in BOOLEAN /\ enabled_ \in BOOLEAN
  /\ timer_reload \in 0 .. WordSize - 1 /\ timer_counter \in 0 .. WordSize - 1
  /\ envelope_reload \in 0 .. MaxVolume /\ envelope_counter \in 0 .. MaxVolume
  /\ sweep_reload \in 0 .. 7 /\ sweep_counter \in 0 .. 7
  /\ length_ \in 0 .. 255
  /\ control_flag_ \in BOOLEAN /\ constant_volume_flag_ \in BOOLEAN
  /\ constant_volume_ \in 0 .. MaxVolume /\ envelope_volume_ \in 0 .. MaxVolume
  /\ envelope_start_flag_ \in BOOLEAN
  /\ sweep_enabled_ \in BOOLEAN /\ sweep_mode_ \in {-1, 1}
  /\ sweep_shift_ \in 0 .. 7 /\ sweep_reload_flag_ \in BOOLEAN
  /\ duty_ \in Duties /\ sequencer_ \in 0 .. SequenceLength - 1

(* Sweeps and writes in any order keep the period in its eleven bits, with *)
(* one exception: the first channel, which sweeps down by one more than    *)
(* the second, ends up at 0xFFFF when it sweeps down from 0.               *)
PeriodInRange == timer_reload < PeriodSize \/ (is_pulse_1_ /\ Underflown)

(* That period, though none of the shortest, is never heard: whatever the  *)
(* sweep registers are set to, the target stays above 0x7FF.               *)
UnderflowSilent == Underflown => GetCurrent = 0

(* Sweeping down does not bring back a channel that its period has muted,  *)
(* not even by wrapping round.                                             *)
SweepDownKeepsSilent ==
  [][SweepClock /\ sweep_mode_ = -1 /\ PeriodMutes => PeriodMutes']_vars

(* A disabled channel is silent, whatever is written to it, until it is    *)
(* enabled and given a length again.                                       *)
DisabledIsSilent == ~enabled_ => GetCurrent = 0
=============================================================================
