---------------------------------- MODULE Noise ----------------------------------
(***************************************************************************)
(* The noise channel (src/src/nes/apu/noise.cc).  The shift register is a  *)
(* function from its bits to BOOLEAN.  The clocks and the writes of the    *)
(* tune come in any order.                                                 *)
(***************************************************************************)
EXTENDS Channel

CONSTANTS
  Width,              \* 15 bits of shift_register_
  LongTap, ShortTap,  \* 1 and 6: the bits that feed back in the two modes
  VolumeMax,          \* 15
  Periods,            \* the values of kPeriodTable
  FirstPeriod         \* 4, the period before one is written

ASSUME NoiseAssumption ==
  /\ Width \in Nat /\ {LongTap, ShortTap} \subseteq 1 .. Width - 1
  /\ VolumeMax \in Nat /\ Periods \subseteq Nat /\ FirstPeriod \in Nat

VARIABLE noise_       \* the members of the channel

Bits == 0 .. Width - 1

NoiseInit ==
  noise_ = [enabled |-> FALSE, control_flag |-> FALSE, mode_flag |-> FALSE,
            timer_reload |-> FirstPeriod, timer_counter |-> 0,
            envelope_reload |-> 0, envelope_counter |-> 0,
            envelope_volume |-> 0, envelope_start_flag |-> FALSE,
            constant_volume |-> 0, constant_volume_flag |-> FALSE,
            length |-> 0, shift_register |-> [i \in Bits |-> i = 0]]

NoiseGetCurrent ==
  IF noise_.shift_register[0] /\ noise_.length > 0
  THEN IF noise_.constant_volume_flag THEN noise_.constant_volume
                                      ELSE noise_.envelope_volume
  ELSE 0

-----------------------------------------------------------------------------
(* Writes.                                                                 *)

NoiseSetEnabled(enabled) ==
  noise_' = [noise_ EXCEPT !.enabled = enabled, !.length = IF enabled THEN @ ELSE 0]

(* 0x400C *)
WriteVolume(control, constant, volume) ==
  noise_' = [noise_ EXCEPT !.control_flag = control, !.constant_volume_flag = constant,
                           !.constant_volume = volume, !.envelope_reload = volume]

(* 0x400E *)
WritePeriod(mode, period) ==
  noise_' = [noise_ EXCEPT !.mode_flag = mode, !.timer_reload = period]

(* 0x400F *)
WriteLength(length) ==
  noise_' = [noise_ EXCEPT !.length = IF noise_.enabled THEN length ELSE @,
                           !.envelope_start_flag = TRUE]

-----------------------------------------------------------------------------
(* Clocks.                                                                 *)

Tap == IF noise_.mode_flag THEN ShortTap ELSE LongTap

(* Mutant: the register is shifted before the bits are taken from it.      *)
FeedbackAfterShift ==
  noise_.shift_register[1] # (Tap + 1 \in Bits /\ noise_.shift_register[Tap + 1])

Feedback == noise_.shift_register[0] # noise_.shift_register[Tap]

NoiseTimerClock ==
  noise_' =
    IF noise_.timer_counter > 0 THEN [noise_ EXCEPT !.timer_counter = @ - 1]
    ELSE [noise_ EXCEPT
            !.timer_counter = noise_.timer_reload,
            !.shift_register = [i \in Bits |-> IF i = Width - 1 THEN Feedback ELSE @[i + 1]]]

Decayed == IF noise_.envelope_volume > 0 THEN noise_.envelope_volume - 1
           ELSE IF noise_.control_flag THEN VolumeMax ELSE 0

EnvelopeClock ==
  noise_' =
    IF noise_.envelope_start_flag
    THEN [noise_ EXCEPT !.envelope_volume = VolumeMax,
                        !.envelope_counter = noise_.envelope_reload,
                        !.envelope_start_flag = FALSE]
    ELSE IF noise_.envelope_counter > 0
    THEN [noise_ EXCEPT !.envelope_counter = @ - 1]
    ELSE [noise_ EXCEPT !.envelope_volume = Decayed,
                        !.envelope_counter = noise_.envelope_reload]

NoiseLengthClock ==
  noise_' = [noise_ EXCEPT !.length = Counted(@, noise_.control_flag)]

NoiseStartNote == \E length \in Lengths : WriteLength(length)

NoiseWrite ==
  \/ \E enabled \in BOOLEAN : NoiseSetEnabled(enabled)
  \/ \E control, constant \in BOOLEAN, volume \in 0 .. VolumeMax :
       WriteVolume(control, constant, volume)
  \/ \E mode \in BOOLEAN, period \in Periods : WritePeriod(mode, period)
  \/ NoiseStartNote

-----------------------------------------------------------------------------
(* Properties.                                                             *)

NoiseTypeOK ==
  noise_ \in [enabled : BOOLEAN, control_flag : BOOLEAN, mode_flag : BOOLEAN,
              timer_reload : Nat, timer_counter : Nat,
              envelope_reload : 0 .. VolumeMax, envelope_counter : 0 .. VolumeMax,
              envelope_volume : 0 .. VolumeMax, envelope_start_flag : BOOLEAN,
              constant_volume : 0 .. VolumeMax, constant_volume_flag : BOOLEAN,
              length : 0 .. ByteSize - 1, shift_register : [Bits -> BOOLEAN]]

(* The shift register never becomes zero, which it could not leave again   *)
(* and which would silence the channel for the rest of the song, however   *)
(* the modes are switched between its steps.                               *)
NoiseAlive == \E i \in Bits : noise_.shift_register[i]
=============================================================================
