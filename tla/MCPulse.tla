-------------------------------- MODULE MCPulse --------------------------------
(* Pulse with one duty cycle of two steps. *)
EXTENDS Pulse

TwoSteps == [d \in Duties |-> [i \in 0 .. SequenceLength - 1 |-> IF i = 1 THEN 1 ELSE 0]]
=============================================================================
