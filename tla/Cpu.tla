---------------------------------- MODULE Cpu ----------------------------------
(***************************************************************************)
(* The 6502 (src/src/nes/cpu/cpu.cc): the fetch loop of Cpu::Run, the      *)
(* opcode table, the addressing modes and every instruction.               *)
(*                                                                         *)
(* The state of the machine is a record m:                                 *)
(*   a, x, y, s, pc        the registers register_a_ ... register_pc_      *)
(*   carry, zero, interrupt, decimal, break, overflow, negative            *)
(*                         the flags                                       *)
(*   opcode, address       of the instruction being run                    *)
(*   extra                 what the instruction returns: its extra cycles  *)
(*   cycles                what RunInstruction returned last               *)
(*   mem                   the memory (module Memory)                      *)
(*   status, beyond        the answers of Apu::Get4015 and of a read past  *)
(*                         the end of memory_ during this instruction      *)
(* An addressing mode maps m to an m with the address set and the operand  *)
(* passed; an instruction maps m to the m it leaves.                       *)
(*                                                                         *)
(* The tracing that is compiled for DEBUG only is left out.                *)
(***************************************************************************)
EXTENDS Memory, Sequences

CONSTANTS
  Banks,        \* the banks of the song: [0 .. 255 -> banks]
  Start,        \* the machines to start from: [m, steps], where steps bounds
                \* the number of instructions that are run
  Status,       \* the answers of Apu::Get4015
  Beyond        \* the bytes behind the end of memory_

VARIABLES
  m,
  state,        \* "running" in Run, "stopped" after it, "crashed"
  steps,        \* bounds the run
  \* History, read by no action of the program:
  depth,        \* bytes pushed and not popped
  saved         \* what the instructions have saved on the stack and not yet
                \* restored

vars == <<m, state, steps, depth, saved>>

Byte(n) == n % 256
Word(n) == n % 65536
Signed(b) == IF b >= 128 THEN b - 256 ELSE b
Number(flag) == IF flag THEN 1 ELSE 0
Distance(p, q) == IF p >= q THEN p - q ELSE q - p

(* Bit i of a byte, and a byte from its bits.                              *)
Weight    == <<1, 2, 4, 8, 16, 32, 64, 128>>
Bit(b, i) == (b \div Weight[i + 1]) % 2 = 1
FromBits(bit) ==
  Number(bit[1]) + 2 * Number(bit[2]) + 4 * Number(bit[3]) + 8 * Number(bit[4])
    + 16 * Number(bit[5]) + 32 * Number(bit[6]) + 64 * Number(bit[7])
    + 128 * Number(bit[8])

Bytes == 0 .. 255
Words == {n \in Nat : n < 65536}

(* A memory, and a machine that has the memory mem.                        *)
IsMemory(mem) ==
  /\ mem = [a \in DOMAIN mem |-> mem[a]]
  /\ \A a \in DOMAIN mem : mem[a] \in Bytes

Machines(mem) ==
  [a : Bytes, x : Bytes, y : Bytes, s : Bytes, pc : Words,
   carry : BOOLEAN, zero : BOOLEAN, interrupt : BOOLEAN, decimal : BOOLEAN,
   break : BOOLEAN, overflow : BOOLEAN, negative : BOOLEAN,
   opcode : Bytes, address : Words, extra : Bytes, cycles : Bytes,
   mem : {mem}, status : Bytes, beyond : Bytes]

IsMachine(c) == c \in Machines(c.mem) /\ IsMemory(c.mem)

(* Pages 0 and 1 are in the RAM: operands and the stack.                   *)
ASSUME MachineAssumption ==
  /\ RamSize >= 512
  /\ Status \subseteq Bytes /\ Beyond \subseteq Bytes
  /\ \A n \in Bytes : IsMemory(Banks[n]) /\ DOMAIN Banks[n] \subseteq 0 .. BankSize - 1
  /\ \A s \in Start : IsMachine(s.m) /\ s.steps \in Nat

-----------------------------------------------------------------------------
(* Memory accesses, the stack and the status byte.                         *)

Read(c, a)     == BusGetByte(c.mem, a, c.status)
ReadWord(c, a) == GetWord(c.mem, a, c.beyond)
Write(c, a, b) == [c EXCEPT !.mem = BusSetByte(c.mem, Banks, a, b)]

(* The byte that the instruction works on.                                 *)
Value(c) == Read(c, c.address)

PushToStack(c, b) == [Write(c, 256 + c.s, b) EXCEPT !.s = Byte(c.s - 1)]

(* PopFromStack, and the byte that it returns.  Mutant: the stack does not *)
(* wrap at the end of its page.                                            *)
PopFromStack(c)  == [c EXCEPT !.s = Byte(c.s + 1)]
PoppedUnwrapped(c) == Read(c, 256 + c.s + 1)
Popped(c)        == Read(c, 256 + Byte(c.s + 1))

GetProcessorStatus(c) ==
  FromBits(<<c.carry, c.zero, c.interrupt, c.decimal, c.break, TRUE, c.overflow, c.negative>>)

SetProcessorStatus(c, b) ==
  [c EXCEPT !.carry = Bit(b, 0), !.zero = Bit(b, 1), !.interrupt = Bit(b, 2),
            !.decimal = Bit(b, 3), !.break = Bit(b, 4), !.overflow = Bit(b, 6),
            !.negative = Bit(b, 7)]

(* The flags that most instructions set from their result r.               *)
SetZN(c, r) == [c EXCEPT !.zero = r = 0, !.negative = Bit(r, 7)]
SetA(c, r)  == SetZN([c EXCEPT !.a = r], r)
SetX(c, r)  == SetZN([c EXCEPT !.x = r], r)
SetY(c, r)  == SetZN([c EXCEPT !.y = r], r)

-----------------------------------------------------------------------------
(* Addressing modes: n bytes of operand are passed, addr is its address.   *)

Operand(c, n, addr) == [c EXCEPT !.pc = Word(c.pc + n), !.address = addr]

AMImplied(c)         == Operand(c, 0, 0)
AMAccumulator(c)     == Operand(c, 0, 0)
AMImmediate(c)       == Operand(c, 1, c.pc)
AMZeroPage(c)        == Operand(c, 1, Read(c, c.pc))
AMZeroPageX(c)       == Operand(c, 1, Byte(Read(c, c.pc) + c.x))
AMZeroPageY(c)       == Operand(c, 1, Byte(Read(c, c.pc) + c.y))
AMRelative(c)        == Operand(c, 1, c.pc)
AMAbsolute(c)        == Operand(c, 2, ReadWord(c, c.pc))
AMAbsoluteX(c)       == Operand(c, 2, Word(ReadWord(c, c.pc) + c.x))
AMAbsoluteY(c)       == Operand(c, 2, Word(ReadWord(c, c.pc) + c.y))
AMIndirect(c)        == Operand(c, 2, ReadWord(c, ReadWord(c, c.pc)))
AMIndexedIndirect(c) == Operand(c, 1, ReadWord(c, Byte(Read(c, c.pc) + c.x)))
AMIndirectIndexed(c) == Operand(c, 1, Word(ReadWord(c, Read(c, c.pc)) + c.y))

-----------------------------------------------------------------------------
(* Instructions: loads, stores and transfers.                              *)

LDA(c) == SetA(c, Value(c))
LDX(c) == SetX(c, Value(c))
LDY(c) == SetY(c, Value(c))
STA(c) == Write(c, c.address, c.a)
STX(c) == Write(c, c.address, c.x)
STY(c) == Write(c, c.address, c.y)
TAX(c) == SetX(c, c.a)
TAY(c) == SetY(c, c.a)
TSX(c) == SetX(c, c.s)
TXA(c) == SetA(c, c.x)
TXS(c) == [c EXCEPT !.s = c.x]
TYA(c) == SetA(c, c.y)

(* Arithmetic.  The overflow of ADC is told from the signs: the result's   *)
(* differs from both operands'.  Mutant: from the first operand's alone.   *)
ADCFirstSign(c) ==
  LET sum == c.a + Value(c) + Number(c.carry)
  IN  [SetA(c, Byte(sum)) EXCEPT !.carry = sum > 255,
                                 !.overflow = Bit(c.a, 7) # Bit(Byte(sum), 7)]

ADC(c) ==
  LET sum == c.a + Value(c) + Number(c.carry)
  IN  [SetA(c, Byte(sum)) EXCEPT
         !.carry = sum > 255,
         !.overflow = /\ Bit(c.a, 7) # Bit(Byte(sum), 7)
                      /\ Bit(Value(c), 7) # Bit(Byte(sum), 7)]

SBC(c) ==
  LET borrow     == 1 - Number(c.carry)
      difference == Signed(c.a) - Signed(Value(c)) - borrow
  IN  [SetA(c, Byte(c.a - Value(c) - borrow)) EXCEPT
         !.carry = c.a >= Value(c) + borrow,
         !.overflow = difference > 127 \/ difference < -128]

Compare(c, r) ==
  [SetZN(c, Byte(r - Value(c))) EXCEPT !.carry = r >= Value(c)]

CMP(c) == Compare(c, c.a)
CPX(c) == Compare(c, c.x)
CPY(c) == Compare(c, c.y)

INC(c) == LET r == Byte(Value(c) + 1) IN SetZN(Write(c, c.address, r), r)
DEC(c) == LET r == Byte(Value(c) - 1) IN SetZN(Write(c, c.address, r), r)
INX(c) == SetX(c, Byte(c.x + 1))
INY(c) == SetY(c, Byte(c.y + 1))
DEX(c) == SetX(c, Byte(c.x - 1))
DEY(c) == SetY(c, Byte(c.y - 1))

(* Logic and shifts.  Each shift knows its accumulator form by its opcode. *)
AND(c) == SetA(c, FromBits([i \in 1 .. 8 |-> Bit(c.a, i - 1) /\ Bit(Value(c), i - 1)]))
ORA(c) == SetA(c, FromBits([i \in 1 .. 8 |-> Bit(c.a, i - 1) \/ Bit(Value(c), i - 1)]))
EOR(c) == SetA(c, FromBits([i \in 1 .. 8 |-> Bit(c.a, i - 1) # Bit(Value(c), i - 1)]))
BIT(c) == [c EXCEPT !.zero = \A i \in 0 .. 7 : ~(Bit(c.a, i) /\ Bit(Value(c), i)),
                    !.overflow = Bit(Value(c), 6), !.negative = Bit(Value(c), 7)]

Shifted(c, acc) == IF c.opcode = acc THEN c.a ELSE Value(c)

(* r is stored in the place that the shifted byte came from.               *)
Shift(c, acc, carry, r) ==
  [SetZN(IF c.opcode = acc THEN [c EXCEPT !.a = r] ELSE Write(c, c.address, r), r)
     EXCEPT !.carry = carry]

ASL(c) == LET v == Shifted(c, 10) IN Shift(c, 10, Bit(v, 7), Byte(2 * v))
LSR(c) == LET v == Shifted(c, 74) IN Shift(c, 74, Bit(v, 0), v \div 2)
ROL(c) == LET v == Shifted(c, 42)
          IN  Shift(c, 42, Bit(v, 7), Byte(2 * v) + Number(c.carry))

(* The zero flag comes from the accumulator, whatever was rotated.         *)
ROR(c) == LET v       == Shifted(c, 106)
              rotated == Shift(c, 106, Bit(v, 0), v \div 2 + 128 * Number(c.carry))
          IN  [rotated EXCEPT !.zero = rotated.a = 0]

(* Flags.                                                                  *)
CLC(c) == [c EXCEPT !.carry = FALSE]
CLD(c) == [c EXCEPT !.decimal = FALSE]
CLI(c) == [c EXCEPT !.interrupt = FALSE]
CLV(c) == [c EXCEPT !.overflow = FALSE]
SEC(c) == [c EXCEPT !.carry = TRUE]
SED(c) == [c EXCEPT !.decimal = TRUE]
SEI(c) == [c EXCEPT !.interrupt = TRUE]
NOP(c) == c

(* Branches.  The pages are bytes and their distance is returned as one: a *)
(* branch across the ends of the address space costs 1 + 255 = 0 cycles.   *)
Branch(c, taken) ==
  LET target == Word(c.pc + Signed(Value(c)))
  IN  IF taken
      THEN [c EXCEPT !.pc = target,
                     !.extra = Byte(1 + Distance(c.pc \div 256, target \div 256))]
      ELSE c

BCC(c) == Branch(c, ~c.carry)
BCS(c) == Branch(c, c.carry)
BEQ(c) == Branch(c, c.zero)
BMI(c) == Branch(c, c.negative)
BNE(c) == Branch(c, ~c.zero)
BPL(c) == Branch(c, ~c.negative)
BVC(c) == Branch(c, ~c.overflow)
BVS(c) == Branch(c, c.overflow)

(* Jumps, subroutines and the stack.                                       *)
PushWord(c, w) == PushToStack(PushToStack(c, w \div 256), Byte(w))
PopWord(c)     == PopFromStack(PopFromStack(c))
PoppedWord(c)  == Popped(c) + 256 * Popped(PopFromStack(c))

JMP(c) == [c EXCEPT !.pc = c.address]
JSR(c) == [PushWord(c, Word(c.pc - 1)) EXCEPT !.pc = c.address]
RTS(c) == [PopWord(c) EXCEPT !.pc = Word(PoppedWord(c) + 1)]
PHA(c) == PushToStack(c, c.a)
PHP(c) == PushToStack(c, GetProcessorStatus(c))
PLA(c) == SetA(PopFromStack(c), Popped(c))
PLP(c) == SetProcessorStatus(PopFromStack(c), Popped(c))
BRK(c) == LET pushed == PushToStack(PushWord(c, Word(c.pc + 1)), GetProcessorStatus(c))
          IN  [pushed EXCEPT !.pc = ReadWord(pushed, 65534), !.break = TRUE]
RTI(c) == LET flags == PLP(c) IN [PopWord(flags) EXCEPT !.pc = PoppedWord(flags)]

-----------------------------------------------------------------------------
(* The opcode table: operation, addressing mode, cycles and penalty.  The  *)
(* empty entries are null member pointers.                                 *)

Opcodes00 ==
  << <<"BRK","Imp",7,0>>, <<"ORA","IndX",6,0>>, <<>>, <<>>,
     <<"NOP","Zp",3,0>>, <<"ORA","Zp",3,0>>, <<"ASL","Zp",5,0>>, <<>>,
     <<"PHP","Imp",3,0>>, <<"ORA","Imm",2,0>>, <<"ASL","Acc",2,0>>, <<>>,
     <<"NOP","Abs",4,0>>, <<"ORA","Abs",4,0>>, <<"ASL","Abs",6,0>>, <<>> >>

Opcodes10 ==
  << <<"BPL","Rel",2,1>>, <<"ORA","IndY",5,1>>, <<>>, <<>>,
     <<"NOP","ZpX",4,0>>, <<"ORA","ZpX",4,0>>, <<"ASL","ZpX",6,0>>, <<>>,
     <<"CLC","Imp",2,0>>, <<"ORA","AbsY",4,1>>, <<"NOP","Imp",2,0>>, <<>>,
     <<"NOP","AbsX",4,1>>, <<"ORA","AbsX",4,1>>, <<"ASL","AbsX",7,0>>, <<>> >>

Opcodes20 ==
  << <<"JSR","Abs",6,0>>, <<"AND","IndX",6,0>>, <<>>, <<>>,
     <<"BIT","Zp",3,0>>, <<"AND","Zp",3,0>>, <<"ROL","Zp",5,0>>, <<>>,
     <<"PLP","Imp",4,0>>, <<"AND","Imm",2,0>>, <<"ROL","Acc",2,0>>, <<>>,
     <<"BIT","Abs",4,0>>, <<"AND","Abs",4,0>>, <<"ROL","Abs",6,0>>, <<>> >>

Opcodes30 ==
  << <<"BMI","Rel",2,1>>, <<"AND","IndY",5,1>>, <<>>, <<>>,
     <<"NOP","ZpX",4,0>>, <<"AND","ZpX",4,0>>, <<"ROL","ZpX",6,0>>, <<>>,
     <<"SEC","Imp",2,0>>, <<"AND","AbsY",4,1>>, <<"NOP","Imp",2,0>>, <<>>,
     <<"NOP","AbsX",4,1>>, <<"AND","AbsX",4,1>>, <<"ROL","AbsX",7,0>>, <<>> >>

Opcodes40 ==
  << <<"RTI","Imp",6,0>>, <<"EOR","IndX",6,0>>, <<>>, <<>>,
     <<"NOP","Zp",3,0>>, <<"EOR","Zp",3,0>>, <<"LSR","Zp",5,0>>, <<>>,
     <<"PHA","Imp",3,0>>, <<"EOR","Imm",2,0>>, <<"LSR","Acc",2,0>>, <<>>,
     <<"JMP","Abs",3,0>>, <<"EOR","Abs",4,0>>, <<"LSR","Abs",6,0>>, <<>> >>

Opcodes50 ==
  << <<"BVC","Rel",2,1>>, <<"EOR","IndY",5,1>>, <<>>, <<>>,
     <<"NOP","ZpX",4,0>>, <<"EOR","ZpX",4,0>>, <<"LSR","ZpX",6,0>>, <<>>,
     <<"CLI","Imp",2,0>>, <<"EOR","AbsY",4,1>>, <<"NOP","Imp",2,0>>, <<>>,
     <<"NOP","AbsX",4,1>>, <<"EOR","AbsX",4,1>>, <<"LSR","AbsX",7,0>>, <<>> >>

Opcodes60 ==
  << <<"RTS","Imp",6,0>>, <<"ADC","IndX",6,0>>, <<>>, <<>>,
     <<"NOP","Zp",3,0>>, <<"ADC","Zp",3,0>>, <<"ROR","Zp",5,0>>, <<>>,
     <<"PLA","Imp",4,0>>, <<"ADC","Imm",2,0>>, <<"ROR","Acc",2,0>>, <<>>,
     <<"JMP","Ind",5,0>>, <<"ADC","Abs",4,0>>, <<"ROR","Abs",6,0>>, <<>> >>

Opcodes70 ==
  << <<"BVS","Rel",2,1>>, <<"ADC","IndY",5,1>>, <<>>, <<>>,
     <<"NOP","ZpX",4,0>>, <<"ADC","ZpX",4,0>>, <<"ROR","ZpX",6,0>>, <<>>,
     <<"SEI","Imp",2,0>>, <<"ADC","AbsY",4,1>>, <<"NOP","Imp",2,0>>, <<>>,
     <<"NOP","AbsX",4,1>>, <<"ADC","AbsX",4,1>>, <<"ROR","AbsX",7,0>>, <<>> >>

Opcodes80 ==
  << <<"NOP","Imm",2,0>>, <<"STA","IndX",6,0>>, <<"NOP","Imm",2,0>>, <<>>,
     <<"STY","Zp",3,0>>, <<"STA","Zp",3,0>>, <<"STX","Zp",3,0>>, <<>>,
     <<"DEY","Imp",2,0>>, <<"NOP","Imm",2,0>>, <<"TXA","Imp",2,0>>, <<>>,
     <<"STY","Abs",4,0>>, <<"STA","Abs",4,0>>, <<"STX","Abs",4,0>>, <<>> >>

Opcodes90 ==
  << <<"BCC","Rel",2,1>>, <<"STA","IndY",6,0>>, <<>>, <<>>,
     <<"STY","ZpX",4,0>>, <<"STA","ZpX",4,0>>, <<"STX","ZpY",4,0>>, <<>>,
     <<"TYA","Imp",2,0>>, <<"STA","AbsY",5,0>>, <<"TXS","Imp",2,0>>, <<>>,
     <<>>, <<"STA","AbsX",5,0>>, <<>>, <<>> >>

OpcodesA0 ==
  << <<"LDY","Imm",2,0>>, <<"LDA","IndX",6,0>>, <<"LDX","Imm",2,0>>, <<>>,
     <<"LDY","Zp",3,0>>, <<"LDA","Zp",3,0>>, <<"LDX","Zp",3,0>>, <<>>,
     <<"TAY","Imp",2,0>>, <<"LDA","Imm",2,0>>, <<"TAX","Imp",2,0>>, <<>>,
     <<"LDY","Abs",4,0>>, <<"LDA","Abs",4,0>>, <<"LDX","Abs",4,0>>, <<>> >>

OpcodesB0 ==
  << <<"BCS","Rel",2,1>>, <<"LDA","IndY",5,1>>, <<>>, <<>>,
     <<"LDY","ZpX",4,0>>, <<"LDA","ZpX",4,0>>, <<"LDX","ZpY",4,0>>, <<>>,
     <<"CLV","Imp",2,0>>, <<"LDA","AbsY",4,1>>, <<"TSX","Imp",2,0>>, <<>>,
     <<"LDY","AbsX",4,1>>, <<"LDA","AbsX",4,1>>, <<"LDX","AbsY",4,1>>, <<>> >>

OpcodesC0 ==
  << <<"CPY","Imm",2,0>>, <<"CMP","IndX",6,0>>, <<"NOP","Imm",2,0>>, <<>>,
     <<"CPY","Zp",3,0>>, <<"CMP","Zp",3,0>>, <<"DEC","Zp",5,0>>, <<>>,
     <<"INY","Imp",2,0>>, <<"CMP","Imm",2,0>>, <<"DEX","Imp",2,0>>, <<>>,
     <<"CPY","Abs",4,0>>, <<"CMP","Abs",4,0>>, <<"DEC","Abs",6,0>>, <<>> >>

OpcodesD0 ==
  << <<"BNE","Rel",2,1>>, <<"CMP","IndY",5,1>>, <<>>, <<>>,
     <<"NOP","ZpX",4,0>>, <<"CMP","ZpX",4,0>>, <<"DEC","ZpX",6,0>>, <<>>,
     <<"CLD","Imp",2,0>>, <<"CMP","AbsY",4,1>>, <<"NOP","Imp",2,0>>, <<>>,
     <<"NOP","AbsX",4,1>>, <<"CMP","AbsX",4,1>>, <<"DEC","AbsX",7,0>>, <<>> >>

OpcodesE0 ==
  << <<"CPX","Imm",2,0>>, <<"SBC","IndX",6,0>>, <<"NOP","Imm",2,0>>, <<>>,
     <<"CPX","Zp",3,0>>, <<"SBC","Zp",3,0>>, <<"INC","Zp",5,0>>, <<>>,
     <<"INX","Imp",2,0>>, <<"SBC","Imm",2,0>>, <<"NOP","Imp",2,0>>, <<"SBC","Imm",2,0>>,
     <<"CPX","Abs",4,0>>, <<"SBC","Abs",4,0>>, <<"INC","Abs",6,0>>, <<>> >>

OpcodesF0 ==
  << <<"BEQ","Rel",2,1>>, <<"SBC","IndY",5,1>>, <<>>, <<>>,
     <<"NOP","ZpX",4,0>>, <<"SBC","ZpX",4,0>>, <<"INC","ZpX",6,0>>, <<>>,
     <<"SED","Imp",2,0>>, <<"SBC","AbsY",4,1>>, <<"NOP","Imp",2,0>>, <<>>,
     <<"NOP","AbsX",4,1>>, <<"SBC","AbsX",4,1>>, <<"INC","AbsX",7,0>>, <<>> >>

Opcodes ==
  <<Opcodes00, Opcodes10, Opcodes20, Opcodes30,
    Opcodes40, Opcodes50, Opcodes60, Opcodes70,
    Opcodes80, Opcodes90, OpcodesA0, OpcodesB0,
    OpcodesC0, OpcodesD0, OpcodesE0, OpcodesF0>>

opcodes == [opcode \in 0 .. 255 |-> Opcodes[(opcode \div 16) + 1][(opcode % 16) + 1]]

AddressingMode(mode, c) ==
  CASE mode = "Imp"  -> AMImplied(c)         [] mode = "Acc"  -> AMAccumulator(c)
    [] mode = "Imm"  -> AMImmediate(c)       [] mode = "Rel"  -> AMRelative(c)
    [] mode = "Zp"   -> AMZeroPage(c)        [] mode = "ZpX"  -> AMZeroPageX(c)
    [] mode = "ZpY"  -> AMZeroPageY(c)       [] mode = "Abs"  -> AMAbsolute(c)
    [] mode = "AbsX" -> AMAbsoluteX(c)       [] mode = "AbsY" -> AMAbsoluteY(c)
    [] mode = "Ind"  -> AMIndirect(c)        [] mode = "IndX" -> AMIndexedIndirect(c)
    [] mode = "IndY" -> AMIndirectIndexed(c)

Instruction(op, c) ==
  CASE op = "ADC" -> ADC(c) [] op = "AND" -> AND(c) [] op = "ASL" -> ASL(c)
    [] op = "BCC" -> BCC(c) [] op = "BCS" -> BCS(c) [] op = "BEQ" -> BEQ(c)
    [] op = "BIT" -> BIT(c) [] op = "BMI" -> BMI(c) [] op = "BNE" -> BNE(c)
    [] op = "BPL" -> BPL(c) [] op = "BRK" -> BRK(c) [] op = "BVC" -> BVC(c)
    [] op = "BVS" -> BVS(c) [] op = "CLC" -> CLC(c) [] op = "CLD" -> CLD(c)
    [] op = "CLI" -> CLI(c) [] op = "CLV" -> CLV(c) [] op = "CMP" -> CMP(c)
    [] op = "CPX" -> CPX(c) [] op = "CPY" -> CPY(c) [] op = "DEC" -> DEC(c)
    [] op = "DEX" -> DEX(c) [] op = "DEY" -> DEY(c) [] op = "EOR" -> EOR(c)
    [] op = "INC" -> INC(c) [] op = "INX" -> INX(c) [] op = "INY" -> INY(c)
    [] op = "JMP" -> JMP(c) [] op = "JSR" -> JSR(c) [] op = "LDA" -> LDA(c)
    [] op = "LDX" -> LDX(c) [] op = "LDY" -> LDY(c) [] op = "LSR" -> LSR(c)
    [] op = "NOP" -> NOP(c) [] op = "ORA" -> ORA(c) [] op = "PHA" -> PHA(c)
    [] op = "PHP" -> PHP(c) [] op = "PLA" -> PLA(c) [] op = "PLP" -> PLP(c)
    [] op = "ROL" -> ROL(c) [] op = "ROR" -> ROR(c) [] op = "RTI" -> RTI(c)
    [] op = "RTS" -> RTS(c) [] op = "SBC" -> SBC(c) [] op = "SEC" -> SEC(c)
    [] op = "SED" -> SED(c) [] op = "SEI" -> SEI(c) [] op = "STA" -> STA(c)
    [] op = "STX" -> STX(c) [] op = "STY" -> STY(c) [] op = "TAX" -> TAX(c)
    [] op = "TAY" -> TAY(c) [] op = "TSX" -> TSX(c) [] op = "TXA" -> TXA(c)
    [] op = "TXS" -> TXS(c) [] op = "TYA" -> TYA(c)

(* RunInstruction.  The penalty is taken when the address ends in 0xFF.     *)
(* Mutant: the instruction's own cycles are lost when it returns some.     *)
RunInstructionExtraOnly(c, opcode) ==
  LET row == opcodes[opcode]
      ran == Instruction(row[1], AddressingMode(row[2], [c EXCEPT !.opcode = opcode,
                                                                 !.extra = 0]))
      penalty == IF Byte(ran.address) = 255 THEN row[4] ELSE 0
  IN  [ran EXCEPT !.cycles = IF ran.extra > 0 THEN ran.extra ELSE row[3] + penalty]

RunInstruction(c, opcode) ==
  LET row == opcodes[opcode]
      ran == Instruction(row[1], AddressingMode(row[2], [c EXCEPT !.opcode = opcode,
                                                                 !.extra = 0]))
      penalty == IF Byte(ran.address) = 255 THEN row[4] ELSE 0
  IN  [ran EXCEPT !.cycles = Byte(row[3] + penalty + ran.extra)]

-----------------------------------------------------------------------------
(* The machine before and at the start of a song.                          *)

PowerOn(mem) ==
  [a |-> 0, x |-> 0, y |-> 0, s |-> 253, pc |-> 65532,
   carry |-> FALSE, zero |-> FALSE, interrupt |-> TRUE, decimal |-> FALSE,
   break |-> TRUE, overflow |-> FALSE, negative |-> FALSE,
   opcode |-> 0, address |-> 0, extra |-> 0, cycles |-> 0,
   mem |-> mem, status |-> 0, beyond |-> 0]

SetRegisters(c, a, x, y, s, pc) ==
  [c EXCEPT !.a = a, !.x = x, !.y = y, !.s = s, !.pc = pc]

(* The code that NSFReader::Cart puts at 0x5000: a call of the init        *)
(* routine, a stop, and a call of the play routine that jumps back to it.  *)
Driver(init, play) ==
  <<32, Byte(init), init \div 256, 242, 32, Byte(play), play \div 256, 76, 3, 80>>

Init ==
  /\ \E s \in Start : m = s.m /\ steps = s.steps
  /\ state = "running"
  /\ depth = 0
  /\ saved = {}

-----------------------------------------------------------------------------
(* The stack as the program being run sees it.                             *)

Pushes == [JSR |-> 2, PHA |-> 1, PHP |-> 1, BRK |-> 3]
Pops   == [RTS |-> 2, PLA |-> 1, PLP |-> 1, RTI |-> 3]
Undo   == [JSR |-> "RTS", PHA |-> "PLA", PHP |-> "PLP", BRK |-> "RTI"]

Flags(c) == <<c.carry, c.zero, c.interrupt, c.decimal, c.break, c.overflow, c.negative>>

Remember(op) ==
  [by |-> op, depth |-> depth, s |-> m.s, a |-> m.a, flags |-> Flags(m),
   pc |-> Word(m.pc + IF op = "JSR" THEN 3 ELSE 2)]

(* An entry is lost when its bytes are popped, when 256 more are pushed,   *)
(* and, with all others, when the stack is changed by other means.         *)
Kept(e, d) == e.depth + Pushes[e.by] <= d /\ d <= e.depth + 256

StackPage == 256 .. 511

StackChanged(mem) == \E a \in StackPage : Cell(mem, a) # Cell(m.mem, a)

Track(op, mem) ==
  /\ depth' = depth + (IF op \in DOMAIN Pushes THEN Pushes[op] ELSE 0)
                    - (IF op \in DOMAIN Pops THEN Pops[op] ELSE 0)
  /\ saved' =
       IF op = "TXS" \/ (op \notin DOMAIN Pushes /\ StackChanged(mem)) THEN {}
       ELSE {e \in saved \cup (IF op \in DOMAIN Pushes THEN {Remember(op)} ELSE {}) :
               Kept(e, depth')}

-----------------------------------------------------------------------------
(* Run.                                                                    *)

STP == 242

(* The byte at the program counter is fetched.                             *)
Fetch(c) == [c EXCEPT !.pc = Word(c.pc + 1)]

Step ==
  /\ state = "running" /\ steps > 0
  /\ steps' = steps - 1
  /\ \E status \in Status, beyond \in Beyond :
       LET c      == [m EXCEPT !.status = status, !.beyond = beyond]
           opcode == Read(c, c.pc)
       IN  /\ opcode # STP /\ opcodes[opcode] # <<>>
           /\ m' = RunInstruction(Fetch(c), opcode)
           /\ Track(opcodes[opcode][1], m'.mem)
  /\ UNCHANGED state

(* Run breaks out of its loop and returns.                                 *)
Stop ==
  /\ state = "running" /\ steps > 0
  /\ \E status \in Status : Read([m EXCEPT !.status = status], m.pc) = STP
  /\ m' = Fetch(m)
  /\ state' = "stopped"
  /\ UNCHANGED <<steps, depth, saved>>

(* A call through a null member pointer ends the program.                  *)
Crash ==
  /\ state = "running" /\ steps > 0
  /\ \E status \in Status :
       LET opcode == Read([m EXCEPT !.status = status], m.pc)
       IN  /\ opcode # STP /\ opcodes[opcode] = <<>>
           /\ m' = [Fetch(m) EXCEPT !.opcode = opcode]
  /\ state' = "crashed"
  /\ UNCHANGED <<steps, depth, saved>>

(* Nes::Run calls Run again, a period later.                               *)
CallAgain ==
  /\ state = "stopped" /\ steps > 0
  /\ state' = "running"
  /\ UNCHANGED <<m, steps, depth, saved>>

Next == Step \/ Stop \/ Crash \/ CallAgain

Spec == Init /\ [][Next]_vars

-----------------------------------------------------------------------------
(* Properties.                                                             *)

(* The step runs an instruction, and the row of the table it is run by.    *)
Ran    == steps' < steps
RanRow == opcodes[m'.opcode]
RanOn  == Read([m EXCEPT !.status = m'.status], m'.address)

Restored(e) ==
  /\ m'.s = e.s
  /\ e.by \in {"JSR", "BRK"} => m'.pc = e.pc
  /\ e.by \in {"PHP", "BRK"} => Flags(m') = e.flags
  /\ e.by = "PHA" => m'.a = e.a

(* Whatever ran in between, an instruction that undoes the latest save on  *)
(* the stack restores what was saved: a subroutine and an interrupt return *)
(* to the instruction after the one that called them, PLA and PLP bring    *)
(* back accumulator and flags, and the stack pointer is what it was before *)
(* the save, also when the stack wraps round the ends of its page.         *)
StackRestores ==
  [][Ran => \A e \in saved :
              RanRow[1] = Undo[e.by] /\ depth = e.depth + Pushes[e.by] => Restored(e)]_vars

(* ADC and SBC, the subtraction being the addition of the complement, are  *)
(* exact: carry and accumulator are the unsigned sum, and the overflow     *)
(* flag says that the signed sum is out of range.                          *)
ArithmeticExact ==
  [][Ran /\ RanRow[1] \in {"ADC", "SBC"} =>
       LET w == IF RanRow[1] = "ADC" THEN RanOn ELSE 255 - RanOn
           c == Number(m.carry)
       IN  /\ 256 * Number(m'.carry) + m'.a = m.a + w + c
           /\ m'.overflow = (Signed(m.a) + Signed(w) + c \notin -128 .. 127)]_vars

Stores == {"STA", "STX", "STY", "INC", "DEC", "ASL", "LSR", "ROL", "ROR"}

(* Every instruction takes two to seven cycles, with the penalty and the   *)
(* wrapping extra cycles of branches too, and one that writes a sound      *)
(* register takes four at least.  Module Apu relies on it.                 *)
CyclesSound ==
  [][Ran =>
       /\ m'.cycles \in 2 .. 7
       /\ (RanRow[1] \in Stores /\ RanRow[2] # "Acc" /\ IsSoundRegister(m'.address)
             => m'.cycles >= 4)]_vars

(* The comment of the opcode table calls the penalty one for crossing a    *)
(* page: an indexed access pays it if and only if the index moves the      *)
(* address to another page.                                                *)
Index == IF RanRow[2] = "AbsX" THEN m.x ELSE m.y

PenaltyIsForCrossing ==
  [][Ran /\ RanRow[2] \in {"AbsX", "AbsY", "IndY"} /\ RanRow[4] = 1 =>
       (m'.cycles > RanRow[3]
          <=> m'.address \div 256 # Word(m'.address - Index) \div 256)]_vars
=============================================================================
