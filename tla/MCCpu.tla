--------------------------------- MODULE MCCpu ---------------------------------
(***************************************************************************)
(* Instances of Cpu, with the memory map of the machine: every opcode with *)
(* operands and registers at the boundaries, every routine of three        *)
(* instructions of a set, and a routine that pushes over its own return    *)
(* address.                                                                *)
(***************************************************************************)
EXTENDS Cpu, TLC

At(a, bytes) == [i \in a .. a + Len(bytes) - 1 |-> bytes[i - a + 1]]

(* Bank 1 holds two bytes; the other banks are zero.                       *)
MCBanks == [n \in 0 .. 255 |-> IF n = 1 THEN [o \in 0 .. 1 |-> 7] ELSE <<>>]

-----------------------------------------------------------------------------
(* One instruction.  In page zero are pointers to sound registers, to the  *)
(* ends of pages and to the end of the memory.                             *)
Operands ==
  {<<0, 64>>, <<16, 0>>, <<21, 64>>, <<128, 31>>, <<240, 128>>, <<255, 95>>, <<255, 255>>}

Registers == {<<0, 0, 0>>, <<127, 1, 16>>, <<128, 255, 255>>, <<255, 16, 128>>}

PageZero == At(0, <<248, 63>>) @@ At(16, <<255, 94>>) @@ At(21, <<255, 255>>)
              @@ At(127, <<4, 64, 2>>) @@ At(240, <<0, 64>>) @@ At(255, <<255, 64>>)

AllFlags(c, f) ==
  [c EXCEPT !.carry = f, !.zero = f, !.overflow = f, !.negative = f, !.decimal = f]

OneInstruction ==
  {[m |-> AllFlags(
            SetRegisters(PowerOn([a \in DOMAIN PageZero \cup {pc, pc + 1, Word(pc + 2)} |->
                                    IF a = pc THEN opcode
                                    ELSE IF a = pc + 1 THEN operand[1]
                                    ELSE IF a = pc + 2 THEN operand[2] ELSE PageZero[a]]),
                         r[1], r[2], r[3], 0, pc), f),
    steps |-> 1] :
     opcode \in 0 .. 255, operand \in Operands, r \in Registers, f \in BOOLEAN,
     pc \in {512, 65534}}

-----------------------------------------------------------------------------
(* The driver with an init routine at 0x8000 and a play routine at 0x8040, *)
(* a subroutine at 0x8080 and an interrupt handler at 0x80C0.              *)
Building ==
  {<<32, 128, 128>>, <<72>>, <<104>>, <<8>>, <<40>>, <<169, 128>>, <<56>>, <<0, 0>>,
   <<186>>, <<141, 255, 9>>}   \* JSR PHA PLA PHP PLP LDA# SEC BRK TSX STA $09FF

Program(init) ==
  At(20480, Driver(32768, 32832)) @@ At(32768, init \o <<96>>)
    @@ At(32832, <<8, 169, 0, 40, 96>>)          \* PHP LDA# PLP RTS
    @@ At(32896, <<72, 8, 24, 40, 104, 96>>)     \* PHA PHP CLC PLP PLA RTS
    @@ At(32960, <<216, 64>>)                    \* CLD RTI
    @@ At(65534, <<192, 128>>)

Routines ==
  {[m |-> SetRegisters(PowerOn(Program(one \o two \o three)), 1, 0, 0, s, 20480),
    steps |-> 24] : one, two, three \in Building, s \in {1, 255}}

(* 256 bytes are pushed, over the return address too, and popped again.    *)
Overrun ==
  {[m |-> SetRegisters(PowerOn(Program(<<162, 0, 72, 202, 208, 252,
                                         104, 202, 208, 252>>)), 5, 0, 0, 255, 20480),
    steps |-> 1600]}

MCStart == OneInstruction \cup Routines \cup Overrun
=============================================================================
