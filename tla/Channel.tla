--------------------------------- MODULE Channel ---------------------------------
(***************************************************************************)
(* What the channels of the APU share (src/src/nes/apu/channel.h): the     *)
(* table of lengths, and the length counter that Triangle and Noise load   *)
(* from it.                                                                *)
(***************************************************************************)
EXTENDS Integers

CONSTANTS
  Lengths,    \* the values of kLengthTable
  ByteSize    \* 256

(* The triangle loads one more than the table holds.                       *)
ASSUME ChannelAssumption == ByteSize \in Nat \ {0} /\ Lengths \subseteq 1 .. ByteSize - 2

(* A clock of the length counter.  Mutant: one at zero is decremented too. *)
CountedAtZero(length, control) == IF control THEN length ELSE (length - 1) % ByteSize

Counted(length, control) == IF ~control /\ length > 0 THEN length - 1 ELSE length
=============================================================================
