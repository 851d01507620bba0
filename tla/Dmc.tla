---------------------------------- MODULE Dmc ----------------------------------
(***************************************************************************)
(* The delta modulation channel (src/src/nes/apu/dmc.cc): it fetches the   *)
(* bytes of a sample from memory, shifts them out bit by bit and moves     *)
(* output_level_ up or down with each bit.                                 *)
(*                                                                         *)
(* TimerClock runs in every CPU cycle, the registers are written between   *)
(* two cycles.  The bits of a byte are not kept: a fetched byte is any     *)
(* byte, so each bit is any bit when it is shifted out.                    *)
(***************************************************************************)
EXTENDS Integers

CONSTANTS
  Rates,                \* values of kRates
  FirstAddresses,       \* b << 6 | 0xC000
  Lengths,              \* (b << 4) + 1
  LastAddress,          \* 0xFFFF, and where the addresses go on after it:
  WrapAddress,          \* 0x8000
  BitsPerByte,          \* 8
  MaxLevel              \* 127: 0x4011 writes seven bits

ASSUME RatesAssumption == Rates \subseteq Nat \ {0} /\ Rates # {}
ASSUME AddressAssumption ==
  /\ LastAddress \in Nat /\ WrapAddress \in Nat
  /\ WrapAddress < LastAddress
  /\ FirstAddresses \subseteq WrapAddress .. LastAddress /\ FirstAddresses # {}
ASSUME LengthAssumption ==
  Lengths \subseteq 1 .. LastAddress - WrapAddress /\ Lengths # {}
ASSUME BitsAssumption == BitsPerByte \in Nat /\ BitsPerByte >= 2
ASSUME LevelAssumption == MaxLevel \in Nat /\ MaxLevel >= 2

VARIABLES
  enabled_, irq_enabled_, loop_flag_,
  timer_reload, timer_counter,             \* the Dividers timer_,
  address_reload, address_counter,         \* sample_address_
  bytes_reload, bytes_counter,             \* and bytes_remaining_
  shift_register_bits_remaining_,
  output_level_,
  irqs,            \* IRQ was signalled
  \* History, read by no action of the program.  A pass is one playing of the
  \* sample; a loop starts the next one.
  passAddress,     \* address of the first byte of the pass
  passLength,      \* its number of bytes, 0 if it was cut short
  leftover,        \* bits that were left in the shift register at its start
  played           \* bits shifted out since then

registers == <<irq_enabled_, loop_flag_, timer_reload, address_reload, bytes_reload>>
reader    == <<address_counter, bytes_counter, irqs>>
output    == <<timer_counter, shift_register_bits_remaining_, output_level_>>
pass      == <<passAddress, passLength, leftover, played>>
dmcVars   == <<enabled_, registers, reader, output, pass>>

(* After the constructor and Nes::InitSoundRegisters, which writes 0 to    *)
(* the four registers and disables the channel; which rate, address and    *)
(* length the zeros stand for makes no difference.                         *)
DmcInit ==
  /\ enabled_ = FALSE /\ irq_enabled_ = FALSE /\ loop_flag_ = FALSE
  /\ timer_reload \in Rates /\ timer_counter = 0
  /\ address_reload \in FirstAddresses /\ address_counter = 0
  /\ bytes_reload \in Lengths /\ bytes_counter = 0
  /\ shift_register_bits_remaining_ = 0
  /\ output_level_ = 0
  /\ irqs = FALSE
  /\ passAddress = address_reload /\ passLength = 0
  /\ leftover = 0 /\ played = 0

-----------------------------------------------------------------------------
(* SetByte.                                                                *)

(* Mutant: the write restarts the timer.                                   *)
WriteRateRestartsTimer(irq, loop, rate) ==
  /\ irq_enabled_' = irq
  /\ loop_flag_' = (irq \/ loop)
  /\ timer_reload' = rate
  /\ timer_counter' = rate
  /\ UNCHANGED <<enabled_, address_reload, bytes_reload, reader,
                 shift_register_bits_remaining_, output_level_, pass>>

(* loop_flag_ = b >> 6 is true for either of the two upper bits.           *)
WriteRate(irq, loop, rate) ==
  /\ irq_enabled_' = irq
  /\ loop_flag_' = (irq \/ loop)
  /\ timer_reload' = rate
  /\ UNCHANGED <<enabled_, address_reload, bytes_reload, reader, output, pass>>

WriteLevel(level) ==
  /\ output_level_' = level
  /\ UNCHANGED <<enabled_, registers, reader, timer_counter,
                 shift_register_bits_remaining_, pass>>

WriteAddress(address) ==
  /\ address_reload' = address
  /\ UNCHANGED <<enabled_, irq_enabled_, loop_flag_, timer_reload, bytes_reload,
                 reader, output, pass>>

WriteLength(length) ==
  /\ bytes_reload' = length
  /\ UNCHANGED <<enabled_, irq_enabled_, loop_flag_, timer_reload, address_reload,
                 reader, output, pass>>

-----------------------------------------------------------------------------
(* SetEnabled(_): a write to 0x4015.                                       *)

StartPass(bits) ==
  /\ address_counter' = address_reload
  /\ bytes_counter' = bytes_reload
  /\ passAddress' = address_reload
  /\ passLength' = bytes_reload
  /\ leftover' = bits
  /\ played' = 0

(* Mutant: the sample is restarted while it plays, but not its length.     *)
EnableRestarts ==
  /\ enabled_' = TRUE
  /\ IF bytes_counter = 0 THEN StartPass(shift_register_bits_remaining_)
     ELSE /\ address_counter' = address_reload
          /\ UNCHANGED <<bytes_counter, pass>>
  /\ UNCHANGED <<registers, output, irqs>>

Enable ==
  /\ enabled_' = TRUE
  /\ IF bytes_counter = 0 THEN StartPass(shift_register_bits_remaining_)
     ELSE UNCHANGED <<address_counter, bytes_counter, pass>>
  /\ UNCHANGED <<registers, output, irqs>>

Disable ==
  /\ enabled_' = FALSE
  /\ bytes_counter' = 0
  /\ IF bytes_counter = 0 THEN UNCHANGED pass
     ELSE /\ passLength' = 0
          /\ leftover' = shift_register_bits_remaining_
          /\ played' = 0
          /\ UNCHANGED passAddress
  /\ UNCHANGED <<registers, address_counter, output, irqs>>

-----------------------------------------------------------------------------
(* TimerClock: the next byte is fetched if the shift register is empty,    *)
(* then the timer may shift out a bit.                                     *)
NextAddress == IF address_counter + 1 > LastAddress THEN WrapAddress
               ELSE address_counter + 1

(* Mutant: a byte is fetched while the last bit is still to be shifted out.*)
FetchesEarly == shift_register_bits_remaining_ <= 1

Fetches == shift_register_bits_remaining_ = 0

Ends == Fetches /\ bytes_counter = 1

Bits == IF Fetches THEN BitsPerByte ELSE shift_register_bits_remaining_

Fires == timer_counter = 0

(* Mutant: one step too far up.                                            *)
MovedTooFar(level, add) ==
  IF add /\ level <= MaxLevel - 1 THEN level + 2
  ELSE IF ~add /\ level >= 2 THEN level - 2
  ELSE level

Moved(level, add) ==
  IF add /\ level <= MaxLevel - 2 THEN level + 2
  ELSE IF ~add /\ level >= 2 THEN level - 2
  ELSE level

(* Mutant: a byte is counted when it has been shifted out.                 *)
ReadByteCountedLate ==
  /\ address_counter' = IF Fetches THEN NextAddress ELSE address_counter
  /\ bytes_counter' = IF Fires /\ Bits = 1 THEN bytes_counter - 1 ELSE bytes_counter
  /\ UNCHANGED <<passAddress, passLength, leftover, irqs>>

(* The reader: address and bytes that remain, with the loop or the IRQ at  *)
(* the end of the sample.                                                  *)
ReadByte ==
  IF Ends /\ loop_flag_
  THEN /\ address_counter' = address_reload
       /\ bytes_counter' = bytes_reload
       /\ passAddress' = address_reload
       /\ passLength' = bytes_reload
       /\ leftover' = BitsPerByte
       /\ UNCHANGED irqs
  ELSE /\ address_counter' = IF Fetches THEN NextAddress ELSE address_counter
       /\ bytes_counter' = IF Fetches THEN bytes_counter - 1 ELSE bytes_counter
       /\ irqs' = (irqs \/ (Ends /\ irq_enabled_))
       /\ UNCHANGED <<passAddress, passLength, leftover>>

(* The output unit: one bit of the shift register when the timer is at 0.  *)
ShiftOut(add) ==
  /\ timer_counter' = IF Fires THEN timer_reload ELSE timer_counter - 1
  /\ shift_register_bits_remaining_' = IF Fires THEN Bits - 1 ELSE Bits
  /\ output_level_' = IF Fires THEN Moved(output_level_, add) ELSE output_level_
  /\ played' = (IF Ends /\ loop_flag_ THEN 0 ELSE played) + (IF Fires THEN 1 ELSE 0)

TimerClock(add) ==
  /\ bytes_counter > 0
  /\ ReadByte
  /\ ShiftOut(add)
  /\ UNCHANGED <<enabled_, registers>>

Clock == \E add \in BOOLEAN : TimerClock(add)

Write ==
  \/ \E irq, loop \in BOOLEAN, rate \in Rates : WriteRate(irq, loop, rate)
  \/ \E level \in 0 .. MaxLevel : WriteLevel(level)
  \/ \E address \in FirstAddresses : WriteAddress(address)
  \/ \E length \in Lengths : WriteLength(length)

DmcNext == Clock \/ Write \/ Enable \/ Disable

DmcSpec == DmcInit /\ [][DmcNext]_dmcVars

(* The APU clocks the channel in every cycle it is run for.                *)
DmcFairSpec == DmcSpec /\ WF_dmcVars(Clock)

-----------------------------------------------------------------------------
(* Properties.                                                             *)

DmcTypeOK ==
  /\ enabled_ \in BOOLEAN /\ irq_enabled_ \in BOOLEAN /\ loop_flag_ \in BOOLEAN
  /\ timer_reload \in Rates /\ timer_counter \in Nat
  /\ address_reload \in FirstAddresses /\ address_counter \in 0 .. LastAddress
  /\ bytes_reload \in Lengths /\ bytes_counter \in 0 .. LastAddress
  /\ shift_register_bits_remaining_ \in 0 .. BitsPerByte
  /\ output_level_ \in 0 .. MaxLevel
  /\ irqs \in BOOLEAN
  /\ passAddress \in FirstAddresses /\ passLength \in Lengths \cup {0}
  /\ leftover \in 0 .. BitsPerByte
  /\ played \in Nat

(* The address of the byte that follows n bytes from a.                    *)
Following(a, n) ==
  IF a + n <= LastAddress THEN a + n ELSE WrapAddress + (a + n - LastAddress - 1)

(* While a sample plays, the address and the number of bytes that remain   *)
(* advance together: every byte of the pass is fetched once and in order,  *)
(* across the wrap too, and none from outside WrapAddress .. LastAddress.  *)
AddressFollowsLength ==
  bytes_counter > 0 =>
    /\ bytes_counter <= passLength
    /\ address_counter = Following(passAddress, passLength - bytes_counter)
    /\ address_counter \in WrapAddress .. LastAddress

(* No bit is lost, repeated or invented by restarts, loops or disabling in *)
(* the middle of a byte: the bits played are those left over from before   *)
(* and those fetched, less those still in the shift register.              *)
BitsAccounted ==
  played = leftover + BitsPerByte * (passLength - bytes_counter)
             - shift_register_bits_remaining_

(* A sample that ran out stops with its last byte still in the shift       *)
(* register (but for one bit if the timer fired in the cycle of the        *)
(* fetch); it is heard at the start of the next sample, if ever.           *)
LastByteHeldBack ==
  bytes_counter = 0 /\ passLength > 0 =>
    shift_register_bits_remaining_ >= BitsPerByte - 1

(* A disabled channel has nothing left to play, even with the loop flag    *)
(* set, and stays so until it is enabled again.                            *)
DisabledStops == ~enabled_ => bytes_counter = 0

(* Bit 7 of 0x4010 sets the loop flag along with irq_enabled_, so a sample *)
(* that may signal IRQ at its end always loops instead: IRQ is unreachable *)
(* (and nothing in the program is connected to it).                        *)
NoIrq == ~irqs

(* A sample ends unless it is made to loop.                                *)
SampleEnds == bytes_counter > 0 ~> bytes_counter = 0 \/ loop_flag_
=============================================================================
