-------------------------------- MODULE Triangle --------------------------------
(***************************************************************************)
(* The triangle channel (src/src/nes/apu/triangle.cc): its registers, the  *)
(* two counters that gate it and the sequencer that they gate.             *)
(*                                                                         *)
(* Module Apu has the rhythm of the clocks; here they and the writes of    *)
(* the tune come in any order.                                             *)
(***************************************************************************)
EXTENDS Channel

CONSTANTS
  Peak,                \* 15, the top of kSequence
  LowSize, HighSize,   \* 256 and 8: the two parts of the period
  LinearSize           \* 128

ASSUME TriangleAssumption ==
  {Peak, LowSize, HighSize, LinearSize} \subseteq Nat \ {0}

VARIABLES
  triangle_,   \* the members of the channel
  quiet        \* history: timer clocks since the sequencer stepped, capped at MinGap - 1

triangle == <<triangle_, quiet>>

(* A period of two is the shortest that moves the timer, which then steps  *)
(* on every third clock.                                                   *)
MinGap == 3

kSequenceLength == 2 * (Peak + 1)
kSequence(i) == IF i <= Peak THEN Peak - i ELSE i - Peak - 1

TriangleGetCurrent == kSequence(triangle_.sequencer)

TriangleInit ==
  /\ triangle_ = [enabled |-> FALSE, control_flag |-> FALSE,
                  timer_reload |-> 0, timer_counter |-> 0,
                  linear_reload |-> 0, linear_counter |-> 0, linear_reload_flag |-> FALSE,
                  length |-> 0, sequencer |-> 0]
  /\ quiet = MinGap - 1

-----------------------------------------------------------------------------
(* Writes.                                                                 *)

TriangleSetEnabled(enabled) ==
  /\ triangle_' = [triangle_ EXCEPT !.enabled = enabled,
                                    !.length = IF enabled THEN @ ELSE 0]
  /\ UNCHANGED quiet

(* 0x4008 *)
WriteLinear(control, reload) ==
  /\ triangle_' = [triangle_ EXCEPT !.control_flag = control, !.linear_reload = reload]
  /\ UNCHANGED quiet

(* 0x400A *)
WritePeriodLow(low) ==
  /\ triangle_' = [triangle_ EXCEPT !.timer_reload = @ - (@ % LowSize) + low]
  /\ UNCHANGED quiet

(* 0x400B.  Mutant: a note starts with the sequence, as it does in Pulse.  *)
WritePeriodHighRestarts(high, length) ==
  /\ triangle_' = [triangle_ EXCEPT
                     !.timer_reload = (@ % LowSize) + high * LowSize,
                     !.length = IF triangle_.enabled THEN (length + 1) % ByteSize ELSE @,
                     !.sequencer = 0,
                     !.linear_reload_flag = TRUE]
  /\ UNCHANGED quiet

WritePeriodHigh(high, length) ==
  /\ triangle_' = [triangle_ EXCEPT
                     !.timer_reload = (@ % LowSize) + high * LowSize,
                     !.length = IF triangle_.enabled THEN (length + 1) % ByteSize ELSE @,
                     !.linear_reload_flag = TRUE]
  /\ UNCHANGED quiet

-----------------------------------------------------------------------------
(* Clocks.                                                                 *)

Gated == triangle_.length > 0 /\ triangle_.linear_counter > 0

Following(i) == IF i + 1 = kSequenceLength THEN 0 ELSE i + 1

Waited == IF quiet < MinGap - 1 THEN quiet + 1 ELSE quiet

(* Mutant: the timer moves whatever the period is.                         *)
TimerClockUngated ==
  IF triangle_.timer_counter = 0
  THEN /\ triangle_' = [triangle_ EXCEPT
                          !.timer_counter = triangle_.timer_reload,
                          !.sequencer = IF Gated THEN Following(@) ELSE @]
       /\ quiet' = IF Gated THEN 0 ELSE Waited
  ELSE /\ triangle_' = [triangle_ EXCEPT !.timer_counter = @ - 1]
       /\ quiet' = Waited

TriangleTimerClock ==
  IF triangle_.timer_reload > 1 /\ triangle_.timer_counter = 0
  THEN /\ triangle_' = [triangle_ EXCEPT
                          !.timer_counter = triangle_.timer_reload,
                          !.sequencer = IF Gated THEN Following(@) ELSE @]
       /\ quiet' = IF Gated THEN 0 ELSE Waited
  ELSE /\ triangle_' = [triangle_ EXCEPT
                          !.timer_counter = IF triangle_.timer_reload > 1 THEN @ - 1 ELSE @]
       /\ quiet' = Waited

TriangleLengthClock ==
  /\ triangle_' = [triangle_ EXCEPT !.length = Counted(@, triangle_.control_flag)]
  /\ UNCHANGED quiet

LinearClock ==
  /\ triangle_' = [triangle_ EXCEPT
                     !.linear_counter = IF triangle_.linear_reload_flag
                                        THEN triangle_.linear_reload
                                        ELSE IF @ > 0 THEN @ - 1 ELSE 0,
                     !.linear_reload_flag = @ /\ triangle_.control_flag]
  /\ UNCHANGED quiet

TriangleStartNote ==
  \E high \in 0 .. HighSize - 1, length \in Lengths : WritePeriodHigh(high, length)

TriangleWrite ==
  \/ \E enabled \in BOOLEAN : TriangleSetEnabled(enabled)
  \/ \E control \in BOOLEAN, reload \in 0 .. LinearSize - 1 : WriteLinear(control, reload)
  \/ \E low \in 0 .. LowSize - 1 : WritePeriodLow(low)
  \/ TriangleStartNote

-----------------------------------------------------------------------------
(* Properties.                                                             *)

TriangleTypeOK ==
  /\ triangle_ \in [enabled : BOOLEAN, control_flag : BOOLEAN,
                    timer_reload : Nat, timer_counter : Nat,
                    linear_reload : 0 .. LinearSize - 1,
                    linear_counter : 0 .. LinearSize - 1,
                    linear_reload_flag : BOOLEAN,
                    length : 0 .. ByteSize - 1, sequencer : 0 .. kSequenceLength - 1]
  /\ quiet \in 0 .. MinGap - 1

(* Whatever is written and whenever, starting and ending a note included,  *)
(* the output of the channel moves by one at most: a note that ends holds  *)
(* its level, the next goes on from there, and nothing is heard as a click.*)
NoClick ==
  [][TriangleGetCurrent' - TriangleGetCurrent \in -1 .. 1]_triangle

(* The sequencer steps at most on every third clock of its timer, however  *)
(* the period is changed in between: a period below two, which would be    *)
(* beyond hearing, stops it instead.                                       *)
StepGap ==
  [][triangle_'.sequencer # triangle_.sequencer => quiet + 1 >= MinGap]_triangle
=============================================================================
