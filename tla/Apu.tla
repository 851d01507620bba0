---------------------------------- MODULE Apu ----------------------------------
(***************************************************************************)
(* The frame sequencer of the sound chip (src/src/nes/apu/apu.cc).         *)
(*                                                                         *)
(* Apu::ClockCycles runs the chip cycle by cycle.  frame_counter_ counts   *)
(* the cycles of a frame; its parity says whether the timers of the pulse  *)
(* and noise channels are clocked (those of the triangle and the DMC are   *)
(* clocked in every cycle) and four of its values clock the envelopes      *)
(* (QuarterClock), two of them the lengths and sweeps as well (HalfClock). *)
(* A write to 0x4017 sets the counter to just before the end of the frame. *)
(*                                                                         *)
(* The CPU executes an instruction, which may write 0x4017, and then has   *)
(* its cycles clocked.                                                     *)
(***************************************************************************)
EXTENDS Integers

CONSTANTS
  Quarter, Half, ThreeQuarters, Full,  \* 7457, 14913, 22371 and 29829
  WordSize,      \* 65536: frame_counter_ is a uint16_t
  Cycles,        \* the cycles an instruction may take
  WriteCycles    \* the cycles of an instruction that can write 0x4017: STA abs,
                 \* the shortest, takes 4

ASSUME MarksAssumption ==
  /\ {Quarter, Half, ThreeQuarters, Full} \subseteq Nat
  /\ 1 < Quarter /\ Quarter < Half /\ Half < ThreeQuarters
  /\ ThreeQuarters < Full - 4
  /\ Full % 2 = 1
ASSUME WordAssumption == WordSize \in Nat /\ WordSize > Full /\ WordSize % 2 = 0
ASSUME CyclesAssumption == Cycles \subseteq Nat \ {0}
ASSUME WriteCyclesAssumption == WriteCycles \subseteq {n \in Nat : n >= 4}

VARIABLES
  frame_counter_,
  todo,             \* cycles the current ClockCycles call has still to run
  \* History, read by no action of the program:
  sinceTimer,       \* cycles since the pulse and noise timers were clocked
  sinceHalf,        \* cycles since the last half clock
  quartersOnly,     \* quarter clocks since then, without a half clock
  written,          \* 0x4017 was written since then
  settled           \* there was a half clock since power-on

history == <<sinceTimer, sinceHalf, quartersOnly, written, settled>>
vars    == <<frame_counter_, todo, history>>

(* The constructor does not initialise frame_counter_.                     *)
Init ==
  /\ frame_counter_ \in 0 .. WordSize - 1
  /\ todo = 0
  /\ sinceTimer = 0
  /\ sinceHalf = 0
  /\ quartersOnly = 0
  /\ written = FALSE
  /\ settled = FALSE

-----------------------------------------------------------------------------
(* The value the counter is incremented to.                                *)
Counted == (frame_counter_ + 1) % WordSize

ApuClock(n)     == n % 2 = 0
QuarterClock(n) == n \in {Quarter, Half, ThreeQuarters, Full}

(* Mutant: the half clock in the middle of the frame is forgotten.         *)
HalfClockFullOnly(n) == n = Full

HalfClock(n) == n \in {Half, Full}

(* Mutant: the counter is not reset at the end of the frame.               *)
AfterCycleNoReset(n) == n

AfterCycle(n) == IF n = Full THEN 0 ELSE n

ClockCycle ==
  /\ todo > 0
  /\ todo' = todo - 1
  /\ frame_counter_' = AfterCycle(Counted)
  /\ sinceTimer' = IF ApuClock(Counted) THEN 0 ELSE sinceTimer + 1
  /\ settled' = (settled \/ HalfClock(Counted))
  /\ IF HalfClock(Counted)
     THEN sinceHalf' = 0 /\ quartersOnly' = 0 /\ written' = FALSE
     ELSE /\ sinceHalf' = sinceHalf + 1
          /\ quartersOnly' = IF QuarterClock(Counted) THEN quartersOnly + 1
                             ELSE quartersOnly
          /\ UNCHANGED written

(* Mutants: the counter is set to the end of the frame itself, and so      *)
(* misses it; a write in an odd cycle is answered two cycles too early.    *)
AfterWriteMissed(n) == Full
AfterWriteEarly(n)  == IF n % 2 = 0 THEN Full - 4 ELSE Full - 1

AfterWrite(n) == IF n % 2 = 0 THEN Full - 4 ELSE Full - 3

(* SetByte(0x4017, _) by an instruction of the given number of cycles.     *)
WriteFrameCounter(cycles) ==
  /\ todo = 0
  /\ todo' = cycles
  /\ frame_counter_' = AfterWrite(frame_counter_)
  /\ written' = TRUE
  /\ UNCHANGED <<sinceTimer, sinceHalf, quartersOnly, settled>>

(* Any other instruction, or the filling of a period.                      *)
OtherCycles(cycles) ==
  /\ todo = 0
  /\ todo' = cycles
  /\ UNCHANGED <<frame_counter_, history>>

Next ==
  \/ ClockCycle
  \/ \E k \in WriteCycles : WriteFrameCounter(k)
  \/ \E k \in Cycles : OtherCycles(k)

Spec == Init /\ [][Next]_vars

-----------------------------------------------------------------------------
(* Properties.                                                             *)

TypeOK ==
  /\ frame_counter_ \in 0 .. WordSize - 1
  /\ todo \in Nat
  /\ sinceTimer \in Nat
  /\ sinceHalf \in Nat
  /\ quartersOnly \in Nat
  /\ written \in BOOLEAN
  /\ settled \in BOOLEAN

(* The timers of the pulse and noise channels are clocked every other      *)
(* cycle but for the odd length of a frame and the jumps of the counter,   *)
(* and even with both at once they wait four cycles at most.               *)
TimerGap == sinceTimer <= 3

(* A write to 0x4017 is answered by a half clock while the cycles of the   *)
(* instruction that wrote are clocked, whatever the counter was: none is   *)
(* pending when the next instruction may write again.                      *)
WriteAnswered == todo = 0 => ~written

(* Lengths and sweeps never wait longer than half a frame, plus the two    *)
(* cycles that a write just before the end of the frame sets it back.      *)
(* Only the first wait may be longer: a counter that starts beyond the end *)
(* of the frame, as nothing initialises it, has to wrap before.            *)
LongerHalf  == IF Half >= Full - Half THEN Half ELSE Full - Half
LongestWait == IF settled THEN LongerHalf ELSE LongerHalf + (WordSize - Full)

HalfInTime == sinceHalf <= LongestWait + 2

(* Without writes the half clocks come in their rhythm from the second one *)
(* on, each after exactly one quarter clock of its own: a write before the *)
(* last half clock and a counter that started anywhere leave no trace, no  *)
(* clock is doubled or dropped.                                            *)
EvenHalves ==
  [][todo' < todo /\ sinceHalf' = 0 /\ settled /\ ~written =>
       /\ quartersOnly = 1
       /\ sinceHalf + 1 = IF frame_counter_' = 0 THEN Full - Half ELSE Half]_vars
=============================================================================
