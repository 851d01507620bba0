-------------------------------- MODULE Channels --------------------------------
(***************************************************************************)
(* The triangle and the noise channel as the APU clocks them for ever.     *)
(*                                                                         *)
(* The channels share no state and none reads another, so a behaviour of   *)
(* both is one of each, and one at a time is enough to look at: "unit" is  *)
(* the channel that moves.                                                 *)
(***************************************************************************)
EXTENDS Triangle, Noise

VARIABLE unit

vars == <<unit, triangle_, quiet, noise_>>

Init == unit \in {"triangle", "noise"} /\ TriangleInit /\ NoiseInit

OfTriangle(Action) == unit = "triangle" /\ Action /\ UNCHANGED <<unit, noise_>>
OfNoise(Action)    == unit = "noise" /\ Action /\ UNCHANGED <<unit, triangle_, quiet>>

TimerClock == OfTriangle(TriangleTimerClock) \/ OfNoise(NoiseTimerClock)

(* QuarterClock: the envelopes, then the linear counter.                   *)
QuarterClock == OfTriangle(LinearClock) \/ OfNoise(EnvelopeClock)

(* HalfClock, which comes after a QuarterClock: the lengths.               *)
HalfClock == OfTriangle(TriangleLengthClock) \/ OfNoise(NoiseLengthClock)

SetByte == OfTriangle(TriangleWrite) \/ OfNoise(NoiseWrite)

Next == TimerClock \/ QuarterClock \/ HalfClock \/ SetByte

(* The frame sequencer goes on for as long as the machine runs.            *)
Spec == Init /\ [][Next]_vars /\ WF_vars(QuarterClock) /\ WF_vars(HalfClock)

-----------------------------------------------------------------------------
(* Properties.                                                             *)

TriangleEnds ==
  <>[]~triangle_.control_flag /\ <>[][~TriangleStartNote]_vars =>
    <>[](triangle_.length = 0 /\ triangle_.linear_counter = 0)

NoiseEnds ==
  <>[]~noise_.control_flag /\ <>[][~NoiseStartNote]_vars => <>[](NoiseGetCurrent = 0)

(* A note that the tune lets go ends: once the control flag, which halts   *)
(* the counters, is clear for good and no other note is started, both      *)
(* counters of the triangle reach zero and stay there, and the noise is    *)
(* silent for ever.                                                        *)
NotesEnd == TriangleEnds /\ NoiseEnds
=============================================================================
