-------------------------------- MODULE CpuProofs --------------------------------
(***************************************************************************)
(* Proofs about Cpu, for every program, every bank of the song, every      *)
(* memory map that keeps the stack in the RAM and every answer of the      *)
(* sound registers: what is saved on the stack is restored, the arithmetic *)
(* is exact, and the cycles are in the bounds that module Apu relies on.   *)
(***************************************************************************)
EXTENDS Cpu, TLAPS

-----------------------------------------------------------------------------
(* Bytes, words and bits.                                                  *)

(* The casts to a byte and to a word.                                      *)
LEMMA Wrapped ==
  ASSUME NEW n \in Int
  PROVE  Byte(n) \in Bytes /\ Word(n) \in Words
BY DEF Byte, Word, Bytes, Words

(* A register that is counted up or down stays a byte.                     *)
LEMMA Neighbours == \A n \in Bytes : Byte(n + 1) \in Bytes /\ Byte(n - 1) \in Bytes
BY DEF Byte, Bytes

(* The cast of a byte is the byte.                                         *)
LEMMA SmallByte == \A n \in Bytes : Byte(n) = n
BY DEF Byte, Bytes

(* A word is put together again from its two bytes.                        *)
LEMMA SmallWord ==
  ASSUME NEW n \in Words
  PROVE  Word(n) = n /\ n \div 256 \in Bytes /\ 256 * (n \div 256) + Byte(n) = n
BY DEF Byte, Word, Bytes, Words

(* Two bytes make a word.                                                  *)
LEMMA TwoBytes == \A h, l \in Bytes : 256 * h + l \in Words
BY DEF Bytes, Words

(* A flag counts as 0 or 1.                                                *)
LEMMA NumberIs == \A flag : Number(flag) \in 0 .. 1
BY DEF Number

(* Bit 7 of a byte says that it is 128 at least.                           *)
LEMMA SignIs ==
  ASSUME NEW b \in Bytes
  PROVE  Bit(b, 7) <=> b >= 128
<1>1. Weight[7 + 1] = 128
  BY DEF Weight
<1>2. Bit(b, 7) <=> (b \div 128) % 2 = 1
  BY <1>1 DEF Bit
<1> QED
  BY <1>2 DEF Bytes

(* A bit is a flag.                                                        *)
LEMMA BitTyped == \A b, i : Bit(b, i) \in BOOLEAN
BY DEF Bit

(* Eight bits make a byte.                                                 *)
LEMMA FromBitsTyped == \A bit : FromBits(bit) \in Bytes
<1> SUFFICES ASSUME NEW bit PROVE FromBits(bit) \in Bytes
  OBVIOUS
<1>1. \A i \in 1 .. 8 : Number(bit[i]) \in 0 .. 1
  BY NumberIs
<1> QED
  BY <1>1 DEF FromBits, Bytes

(* The flags f, and their byte.                                            *)
FlagSets    == [1 .. 7 -> BOOLEAN]
StatusOf(f) == FromBits(<<f[1], f[2], f[3], f[4], f[5], TRUE, f[6], f[7]>>)

(* The seven flags are read back from the bits of their byte.              *)
LEMMA BitsBack ==
  ASSUME NEW f \in FlagSets
  PROVE  /\ Bit(StatusOf(f), 0) <=> f[1]
         /\ Bit(StatusOf(f), 1) <=> f[2]
         /\ Bit(StatusOf(f), 2) <=> f[3]
         /\ Bit(StatusOf(f), 3) <=> f[4]
         /\ Bit(StatusOf(f), 4) <=> f[5]
         /\ Bit(StatusOf(f), 6) <=> f[6]
         /\ Bit(StatusOf(f), 7) <=> f[7]
<1> DEFINE b == StatusOf(f)
           n(k) == Number(f[k])
<1>1. b = n(1) + 2 * n(2) + 4 * n(3) + 8 * n(4) + 16 * n(5) + 32 + 64 * n(6) + 128 * n(7)
  BY DEF StatusOf, FromBits, Number
<1>2. /\ Bit(b, 0) <=> (b \div 1) % 2 = 1
      /\ Bit(b, 1) <=> (b \div 2) % 2 = 1
      /\ Bit(b, 2) <=> (b \div 4) % 2 = 1
      /\ Bit(b, 3) <=> (b \div 8) % 2 = 1
      /\ Bit(b, 4) <=> (b \div 16) % 2 = 1
      /\ Bit(b, 6) <=> (b \div 64) % 2 = 1
      /\ Bit(b, 7) <=> (b \div 128) % 2 = 1
  BY DEF Bit, Weight
<1> HIDE DEF b
<1>3. \A k \in 1 .. 7 : f[k] \in BOOLEAN
  BY DEF FlagSets
<1>4. ASSUME NEW p \in BOOLEAN PROVE Number(p) \in 0 .. 1 /\ (Number(p) = 1 <=> p)
  <2>1. CASE p
    BY <2>1 DEF Number
  <2>2. CASE ~p
    BY <2>2 DEF Number
  <2> QED
    BY <2>1, <2>2
<1>5. /\ n(1) \in 0 .. 1 /\ n(2) \in 0 .. 1 /\ n(3) \in 0 .. 1 /\ n(4) \in 0 .. 1
      /\ n(5) \in 0 .. 1 /\ n(6) \in 0 .. 1 /\ n(7) \in 0 .. 1
  BY <1>3, <1>4
<1>6. /\ n(1) = 1 <=> f[1]
      /\ n(2) = 1 <=> f[2]
      /\ n(3) = 1 <=> f[3]
      /\ n(4) = 1 <=> f[4]
      /\ n(5) = 1 <=> f[5]
      /\ n(6) = 1 <=> f[6]
      /\ n(7) = 1 <=> f[7]
  BY <1>3, <1>4
<1> HIDE DEF n
<1>7. Bit(b, 0) <=> f[1]
  <2>1. b \div 1 = n(1) + 2 * n(2) + 4 * n(3) + 8 * n(4) + 16 * n(5) + 32 + 64 * n(6) + 128 * n(7)
    BY <1>1, <1>5
  <2>2. (b \div 1) % 2 = n(1)
    BY <1>5, <2>1
  <2> QED
    BY <1>2, <1>6, <2>2
<1>8. Bit(b, 1) <=> f[2]
  <2>1. b \div 2 = n(2) + 2 * n(3) + 4 * n(4) + 8 * n(5) + 16 + 32 * n(6) + 64 * n(7)
    BY <1>1, <1>5
  <2>2. (b \div 2) % 2 = n(2)
    BY <1>5, <2>1
  <2> QED
    BY <1>2, <1>6, <2>2
<1>9. Bit(b, 2) <=> f[3]
  <2>1. b \div 4 = n(3) + 2 * n(4) + 4 * n(5) + 8 + 16 * n(6) + 32 * n(7)
    BY <1>1, <1>5
  <2>2. (b \div 4) % 2 = n(3)
    BY <1>5, <2>1
  <2> QED
    BY <1>2, <1>6, <2>2
<1>10. Bit(b, 3) <=> f[4]
  <2>1. b \div 8 = n(4) + 2 * n(5) + 4 + 8 * n(6) + 16 * n(7)
    BY <1>1, <1>5
  <2>2. (b \div 8) % 2 = n(4)
    BY <1>5, <2>1
  <2> QED
    BY <1>2, <1>6, <2>2
<1>11. Bit(b, 4) <=> f[5]
  <2>1. b \div 16 = n(5) + 2 + 4 * n(6) + 8 * n(7)
    BY <1>1, <1>5
  <2>2. (b \div 16) % 2 = n(5)
    BY <1>5, <2>1
  <2> QED
    BY <1>2, <1>6, <2>2
<1>12. Bit(b, 6) <=> f[6]
  <2>1. b \div 64 = n(6) + 2 * n(7)
    BY <1>1, <1>5
  <2>2. (b \div 64) % 2 = n(6)
    BY <1>5, <2>1
  <2> QED
    BY <1>2, <1>6, <2>2
<1>13. Bit(b, 7) <=> f[7]
  <2>1. b \div 128 = n(7)
    BY <1>1, <1>5
  <2>2. (b \div 128) % 2 = n(7)
    BY <1>5, <2>1
  <2> QED
    BY <1>2, <1>6, <2>2
<1> QED
  BY <1>7, <1>8, <1>9, <1>10, <1>11, <1>12, <1>13 DEF b

-----------------------------------------------------------------------------
(* The memory.                                                             *)

(* What the proofs use of the memory map.                                  *)
LEMMA Layout ==
  /\ RamSize \in Nat /\ RamSize >= 512 /\ RamEnd = 4 * RamSize
  /\ BankPort \in Nat /\ ApuFirst \in Nat /\ ApuLast \in Nat /\ ApuStatus \in Nat
  /\ RamEnd <= ApuFirst /\ ApuFirst <= ApuStatus /\ ApuLast < BankPort /\ ApuStatus <= ApuLast
  /\ BankSize \in Nat /\ WindowBase \in Nat
BY LayoutAssumption, MachineAssumption

(* A cell holds a byte, one that the memory does not hold too.             *)
LEMMA CellTyped == ASSUME NEW mem, IsMemory(mem), NEW a PROVE Cell(mem, a) \in Bytes
BY DEF Cell, IsMemory, Bytes

(* A memory into which bytes are put is one.                               *)
LEMMA PutTyped ==
  ASSUME NEW mem, IsMemory(mem), NEW cells, NEW b \in Bytes
  PROVE  IsMemory(Put(mem, cells, b))
BY DEF IsMemory, Put

(* A memory into which a bank of the song is copied is one.                *)
LEMMA BankSwitchTyped ==
  ASSUME NEW mem, IsMemory(mem), NEW spot \in Int, NEW n \in Bytes
  PROVE  IsMemory(BankSwitch(mem, spot, Banks[n]))
<1> DEFINE bank == Banks[n]
           first == WindowBase + spot * BankSize
           new == BankSwitch(mem, spot, bank)
<1>1. IsMemory(bank) /\ DOMAIN bank \subseteq 0 .. BankSize - 1
  BY MachineAssumption
<1>2. first \in Int /\ Window(spot) = first .. first + BankSize - 1
  BY Layout DEF Window
<1>3. \A a \in Int : a - WindowBase - spot * BankSize = a - first
  BY Layout
<1> HIDE DEF first, bank
<1>4. new = [a \in (DOMAIN mem \ Window(spot)) \cup {first + o : o \in DOMAIN bank} |->
               IF a \in Window(spot) THEN bank[a - WindowBase - spot * BankSize] ELSE mem[a]]
  BY DEF BankSwitch, first
<1> HIDE DEF new
<1>5. ASSUME NEW a \in DOMAIN new PROVE new[a] \in Bytes
  <2>1. CASE a \in Window(spot)
    <3>1. PICK o \in DOMAIN bank : a = first + o
      BY <1>4, <2>1
    <3>2. o \in Int /\ a \in Int
      BY <1>1, <1>2, <3>1, Layout
    <3>3. a - WindowBase - spot * BankSize = o
      BY <1>2, <1>3, <3>1, <3>2
    <3> QED
      BY <1>1, <1>4, <2>1, <3>3 DEF IsMemory
  <2>2. CASE a \notin Window(spot)
    <3>1. \A o \in DOMAIN bank : first + o \in Window(spot)
      BY <1>1, <1>2, Layout
    <3>2. a \in DOMAIN mem
      BY <1>4, <2>2, <3>1
    <3> QED
      BY <1>4, <2>2, <3>2 DEF IsMemory
  <2> QED
    BY <2>1, <2>2
<1>6. new = [a \in DOMAIN new |-> new[a]]
  BY <1>4
<1>7. IsMemory(new)
  BY <1>5, <1>6 DEF IsMemory
<1> QED
  BY <1>7 DEF new, bank

(* A write of any byte anywhere leaves a memory, and a read gives a byte.  *)
LEMMA BusTyped ==
  ASSUME NEW mem, IsMemory(mem), NEW a \in Words, NEW b \in Bytes
  PROVE  IsMemory(BusSetByte(mem, Banks, a, b)) /\ (\A s \in Bytes : BusGetByte(mem, a, s) \in Bytes)
<1>1. a - BankPort \in Int
  BY Layout DEF Words
<1> QED
  BY <1>1, BankSwitchTyped, PutTyped, CellTyped DEF BusSetByte, BusGetByte, SetByte

(* The word at any address is one, at the end of the memory too.           *)
LEMMA GetWordTyped ==
  ASSUME NEW mem, IsMemory(mem), NEW a, NEW b \in Bytes
  PROVE  GetWord(mem, a, b) \in Words
BY CellTyped, TwoBytes DEF GetWord

(* A byte written to the stack is there, and is all that changes there.    *)
LEMMA StackWrite ==
  ASSUME NEW mem, NEW a \in StackPage, NEW b
  PROVE  LET new == BusSetByte(mem, Banks, a, b)
         IN  /\ Cell(new, a) = b
             /\ \A k \in StackPage : k # a => Cell(new, k) = Cell(mem, k)
<1> DEFINE new == BusSetByte(mem, Banks, a, b)
<1>1. a \in Nat /\ a < RamSize /\ a < RamEnd /\ a < ApuFirst /\ a < BankPort
  BY Layout DEF StackPage
<1>2. ~IsBankPort(a) /\ ~IsSoundRegister(a)
  BY <1>1, Layout DEF IsBankPort, IsSoundRegister
<1>3. a % RamSize = a
  BY <1>1, Layout
<1>4. Mirrors(a) = {a + k * RamSize : k \in 0 .. 3}
  BY <1>1, <1>3 DEF Mirrors
<1>5. new = [c \in DOMAIN mem \cup Mirrors(a) |-> IF c \in Mirrors(a) THEN b ELSE mem[c]]
  BY <1>2 DEF BusSetByte, SetByte, Put
<1> HIDE DEF new
<1>6. a \in Mirrors(a)
  <2>1. a = a + 0 * RamSize
    BY <1>1, Layout
  <2> QED
    BY <1>4, <2>1
<1>7. ASSUME NEW k \in StackPage, k # a PROVE k \notin Mirrors(a)
  <2>1. k \in Nat /\ k < RamSize
    BY Layout DEF StackPage
  <2>2. k # a + 0 * RamSize /\ k # a + 1 * RamSize /\ k # a + 2 * RamSize /\ k # a + 3 * RamSize
    BY <1>1, <1>7, <2>1, Layout
  <2> QED
    BY <1>4, <2>2
<1>8. Cell(new, a) = b
  BY <1>5, <1>6 DEF Cell
<1>9. \A k \in StackPage : k # a => Cell(new, k) = Cell(mem, k)
  BY <1>5, <1>7 DEF Cell
<1> QED
  BY <1>8, <1>9 DEF new

(* The stack is read from the memory.                                      *)
LEMMA StackRead ==
  ASSUME NEW mem, NEW a \in StackPage, NEW s
  PROVE  BusGetByte(mem, a, s) = Cell(mem, a)
<1>1. a # ApuStatus
  BY Layout DEF StackPage
<1> QED
  BY <1>1 DEF BusGetByte

(* The stack pointer, whatever it is, points into the stack page.          *)
LEMMA InStackPage == \A n \in Bytes : 256 + n \in StackPage /\ 256 + n \in Words
BY DEF Bytes, StackPage, Words

-----------------------------------------------------------------------------
(* What the parts of an instruction leave as it was.                       *)

(* The instruction that is run, its operand and the answers it gets.       *)
Same(c, d) ==
  /\ IsMachine(d)
  /\ d.opcode = c.opcode /\ d.address = c.address
  /\ d.status = c.status /\ d.beyond = c.beyond

Keeps(c, d)  == Same(c, d) /\ d.extra = c.extra
Steady(c, d) == Keeps(c, d) /\ d.s = c.s

(* The types of the parts of a machine.                                    *)
LEMMA MachineIs ==
  ASSUME NEW c, IsMachine(c)
  PROVE  /\ c.a \in Bytes /\ c.x \in Bytes /\ c.y \in Bytes /\ c.s \in Bytes
         /\ c.pc \in Words /\ c.address \in Words /\ c.opcode \in Bytes
         /\ c.extra \in Bytes /\ c.cycles \in Bytes /\ c.status \in Bytes /\ c.beyond \in Bytes
         /\ c.carry \in BOOLEAN /\ c.zero \in BOOLEAN /\ c.interrupt \in BOOLEAN
         /\ c.decimal \in BOOLEAN /\ c.break \in BOOLEAN /\ c.overflow \in BOOLEAN
         /\ c.negative \in BOOLEAN
         /\ IsMemory(c.mem)
BY DEF IsMachine, Machines

(* A machine reads bytes and words.                                        *)
LEMMA ReadTyped ==
  ASSUME NEW c, IsMachine(c), NEW a \in Words
  PROVE  Read(c, a) \in Bytes /\ ReadWord(c, a) \in Words
BY MachineIs, BusTyped, GetWordTyped DEF Read, ReadWord, Bytes

(* The operand of an instruction is a byte.                                *)
LEMMA ValueTyped == ASSUME NEW c, IsMachine(c) PROVE Value(c) \in Bytes
BY MachineIs, ReadTyped DEF Value

(* Setting zero and negative changes nothing else.                         *)
LEMMA SetZNKeeps ==
  ASSUME NEW c, IsMachine(c), NEW r \in Bytes
  PROVE  Steady(c, SetZN(c, r)) /\ SetZN(c, r).mem = c.mem
<1>1. (r = 0) \in BOOLEAN /\ Bit(r, 7) \in BOOLEAN
  BY BitTyped
<1> QED
  BY <1>1 DEF SetZN, Steady, Keeps, Same, IsMachine, Machines

(* Loading a register changes that register and two flags only.            *)
LEMMA SetRegisterKeeps ==
  ASSUME NEW c, IsMachine(c), NEW r \in Bytes
  PROVE  /\ Steady(c, SetA(c, r)) /\ SetA(c, r).mem = c.mem /\ SetA(c, r).a = r
         /\ Steady(c, SetX(c, r)) /\ SetX(c, r).mem = c.mem
         /\ Steady(c, SetY(c, r)) /\ SetY(c, r).mem = c.mem
<1>1. Steady(c, [c EXCEPT !.a = r]) /\ [c EXCEPT !.a = r].mem = c.mem
  BY DEF Steady, Keeps, Same, IsMachine, Machines
<1>2. Steady(c, [c EXCEPT !.x = r]) /\ [c EXCEPT !.x = r].mem = c.mem
  BY DEF Steady, Keeps, Same, IsMachine, Machines
<1>3. Steady(c, [c EXCEPT !.y = r]) /\ [c EXCEPT !.y = r].mem = c.mem
  BY DEF Steady, Keeps, Same, IsMachine, Machines
<1>4. [c EXCEPT !.a = r].a = r
  BY DEF IsMachine, Machines
<1>5. ASSUME NEW d, IsMachine(d) PROVE SetZN(d, r).a = d.a
  BY <1>5 DEF SetZN, IsMachine, Machines
<1>6. SetA(c, r).a = r
  BY <1>1, <1>4, <1>5 DEF SetA, Steady, Keeps, Same
<1> QED
  BY <1>1, <1>2, <1>3, <1>6, SetZNKeeps DEF SetA, SetX, SetY, Steady, Keeps, Same

(* A store changes nothing but the memory.                                 *)
LEMMA WriteKeeps ==
  ASSUME NEW c, IsMachine(c), NEW a \in Words, NEW b \in Bytes
  PROVE  Steady(c, Write(c, a, b)) /\ Write(c, a, b).mem = BusSetByte(c.mem, Banks, a, b)
<1> DEFINE new == BusSetByte(c.mem, Banks, a, b)
<1>1. IsMemory(new)
  BY BusTyped, MachineIs
<1> HIDE DEF new
<1>2. [c EXCEPT !.mem = new] \in Machines(new)
  BY DEF IsMachine, Machines
<1>3. [c EXCEPT !.mem = new].mem = new
  BY DEF IsMachine, Machines
<1>4. Steady(c, [c EXCEPT !.mem = new])
  BY <1>1, <1>2, <1>3 DEF Steady, Keeps, Same, IsMachine, Machines
<1> QED
  BY <1>3, <1>4 DEF Write, new

(* A push writes one cell of the stack and moves the pointer one down.     *)
LEMMA PushKeeps ==
  ASSUME NEW c, IsMachine(c), NEW b \in Bytes
  PROVE  LET d == PushToStack(c, b)
         IN  /\ Keeps(c, d) /\ d.s = Byte(c.s - 1)
             /\ d.mem = BusSetByte(c.mem, Banks, 256 + c.s, b)
             /\ d.pc = c.pc
<1> DEFINE w == Write(c, 256 + c.s, b)
<1>1. 256 + c.s \in Words
  BY MachineIs, InStackPage
<1>2. Steady(c, w) /\ w.mem = BusSetByte(c.mem, Banks, 256 + c.s, b)
  BY <1>1, WriteKeeps
<1>3. w.pc = c.pc
  BY DEF IsMachine, Machines, Write
<1> HIDE DEF w
<1>4. Byte(c.s - 1) \in Bytes
  BY MachineIs, Neighbours
<1>5. LET d == [w EXCEPT !.s = Byte(c.s - 1)]
      IN  Keeps(c, d) /\ d.s = Byte(c.s - 1) /\ d.mem = w.mem /\ d.pc = w.pc
  BY <1>2, <1>4 DEF Steady, Keeps, Same, IsMachine, Machines
<1> QED
  BY <1>2, <1>3, <1>5 DEF PushToStack, w

(* A pop moves the pointer one up and reads the cell it then points to.    *)
LEMMA PopKeeps ==
  ASSUME NEW c, IsMachine(c)
  PROVE  /\ Keeps(c, PopFromStack(c)) /\ PopFromStack(c).s = Byte(c.s + 1)
         /\ PopFromStack(c).mem = c.mem
         /\ Popped(c) \in Bytes /\ Popped(c) = Cell(c.mem, 256 + Byte(c.s + 1))
<1>1. Byte(c.s + 1) \in Bytes
  BY MachineIs, Neighbours
<1>2. 256 + Byte(c.s + 1) \in Words /\ 256 + Byte(c.s + 1) \in StackPage
  BY <1>1, InStackPage
<1>3. Popped(c) \in Bytes
  BY <1>2, ReadTyped DEF Popped
<1>4. Popped(c) = Cell(c.mem, 256 + Byte(c.s + 1))
  BY <1>2, StackRead DEF Popped, Read
<1> QED
  BY <1>1, <1>3, <1>4 DEF PopFromStack, Keeps, Same, IsMachine, Machines

(* Setting a flag changes nothing else.                                    *)
LEMMA FlagKeeps ==
  ASSUME NEW c, NEW d, Steady(c, d), NEW f \in BOOLEAN
  PROVE  /\ Steady(c, [d EXCEPT !.carry = f]) /\ Steady(c, [d EXCEPT !.zero = f])
         /\ Steady(c, [d EXCEPT !.interrupt = f]) /\ Steady(c, [d EXCEPT !.decimal = f])
         /\ Steady(c, [d EXCEPT !.overflow = f]) /\ Steady(c, [d EXCEPT !.negative = f])
BY DEF Steady, Keeps, Same, IsMachine, Machines

(* Two steps that leave the stack pointer alone.                           *)
LEMMA SteadyTwice ==
  ASSUME NEW c, NEW d, NEW e, Steady(c, d), Steady(d, e) PROVE Steady(c, e)
BY DEF Steady, Keeps, Same

(* Two steps that leave opcode, operand and extra cycles alone.            *)
LEMMA KeepsTwice ==
  ASSUME NEW c, NEW d, NEW e, Keeps(c, d), Keeps(d, e) PROVE Keeps(c, e)
BY DEF Keeps, Same

(* Doing nothing.                                                          *)
LEMMA SteadySelf == ASSUME NEW c, IsMachine(c) PROVE Steady(c, c)
BY DEF Steady, Keeps, Same

-----------------------------------------------------------------------------
(* The instructions.                                                       *)

(* Loads and transfers.                                                    *)
LEMMA LoadsKeep ==
  ASSUME NEW c, IsMachine(c)
  PROVE  /\ Steady(c, LDA(c)) /\ Steady(c, LDX(c)) /\ Steady(c, LDY(c))
         /\ Steady(c, TAX(c)) /\ Steady(c, TAY(c)) /\ Steady(c, TSX(c))
         /\ Steady(c, TXA(c)) /\ Steady(c, TYA(c))
BY MachineIs, ValueTyped, SetRegisterKeeps DEF LDA, LDX, LDY, TAX, TAY, TSX, TXA, TYA

(* Increments and decrements of registers.                                 *)
LEMMA StepsKeep ==
  ASSUME NEW c, IsMachine(c)
  PROVE  /\ Steady(c, INX(c)) /\ Steady(c, INY(c)) /\ Steady(c, DEX(c)) /\ Steady(c, DEY(c))
<1>1. /\ Byte(c.x + 1) \in Bytes /\ Byte(c.x - 1) \in Bytes
      /\ Byte(c.y + 1) \in Bytes /\ Byte(c.y - 1) \in Bytes
  BY MachineIs, Neighbours
<1> QED
  BY <1>1, SetRegisterKeeps DEF INX, INY, DEX, DEY

(* The logical instructions.                                               *)
LEMMA LogicKeeps ==
  ASSUME NEW c, IsMachine(c)
  PROVE  Steady(c, AND(c)) /\ Steady(c, ORA(c)) /\ Steady(c, EOR(c))
BY FromBitsTyped, SetRegisterKeeps DEF AND, ORA, EOR

(* Stores, and the increments in memory.                                   *)
LEMMA StoresKeep ==
  ASSUME NEW c, IsMachine(c)
  PROVE  /\ Steady(c, STA(c)) /\ Steady(c, STX(c)) /\ Steady(c, STY(c))
         /\ Steady(c, INC(c)) /\ Steady(c, DEC(c))
<1>1. Steady(c, STA(c)) /\ Steady(c, STX(c)) /\ Steady(c, STY(c))
  BY MachineIs, WriteKeeps DEF STA, STX, STY
<1>2. ASSUME NEW r \in Bytes PROVE Steady(c, SetZN(Write(c, c.address, r), r))
  <2> DEFINE d == Write(c, c.address, r)
  <2>1. Steady(c, d)
    BY MachineIs, WriteKeeps
  <2> HIDE DEF d
  <2>2. Steady(d, SetZN(d, r))
    BY <2>1, SetZNKeeps DEF Steady, Keeps, Same
  <2>3. Steady(c, SetZN(d, r))
    BY <2>1, <2>2, SteadyTwice
  <2> QED
    BY <2>3 DEF d
<1>3. Byte(Value(c) + 1) \in Bytes /\ Byte(Value(c) - 1) \in Bytes
  BY ValueTyped, Neighbours
<1> QED
  BY <1>1, <1>2, <1>3 DEF INC, DEC

(* Addition and subtraction.                                               *)
LEMMA ArithmeticKeeps ==
  ASSUME NEW c, IsMachine(c)
  PROVE  Steady(c, ADC(c)) /\ Steady(c, SBC(c))
<1>1. /\ c.a \in Int /\ Value(c) \in Int
      /\ Number(c.carry) \in Int
  BY MachineIs, ValueTyped, NumberIs DEF Bytes
<1>2. ASSUME NEW r \in Bytes, NEW f \in BOOLEAN, NEW g \in BOOLEAN
      PROVE  Steady(c, [SetA(c, r) EXCEPT !.carry = f, !.overflow = g])
  BY SetRegisterKeeps, FlagKeeps
<1>3. Steady(c, ADC(c))
  <2> DEFINE sum == c.a + Value(c) + Number(c.carry)
  <2>1. Byte(sum) \in Bytes
    BY <1>1, Wrapped
  <2>2. (sum > 255) \in BOOLEAN
    OBVIOUS
  <2> QED
    BY <1>2, <2>1, <2>2 DEF ADC
<1>4. Steady(c, SBC(c))
  <2> DEFINE borrow     == 1 - Number(c.carry)
             difference == Signed(c.a) - Signed(Value(c)) - borrow
  <2>1. Byte(c.a - Value(c) - borrow) \in Bytes
    BY <1>1, Wrapped
  <2>2. (c.a >= Value(c) + borrow) \in BOOLEAN /\ (difference > 127 \/ difference < -128) \in BOOLEAN
    OBVIOUS
  <2> QED
    BY <1>2, <2>1, <2>2 DEF SBC
<1> QED
  BY <1>3, <1>4

(* Comparisons, and BIT.                                                   *)
LEMMA ComparesKeep ==
  ASSUME NEW c, IsMachine(c)
  PROVE  Steady(c, CMP(c)) /\ Steady(c, CPX(c)) /\ Steady(c, CPY(c)) /\ Steady(c, BIT(c))
<1>1. ASSUME NEW r \in Bytes PROVE Steady(c, Compare(c, r))
  <2>1. r - Value(c) \in Int
    BY ValueTyped DEF Bytes
  <2>2. Steady(c, SetZN(c, Byte(r - Value(c))))
    BY <2>1, Wrapped, SetZNKeeps
  <2>3. (r >= Value(c)) \in BOOLEAN
    OBVIOUS
  <2> QED
    BY <2>2, <2>3, FlagKeeps DEF Compare
<1>2. Steady(c, BIT(c))
  <2>1. /\ (\A i \in 0 .. 7 : ~(Bit(c.a, i) /\ Bit(Value(c), i))) \in BOOLEAN
        /\ Bit(Value(c), 6) \in BOOLEAN /\ Bit(Value(c), 7) \in BOOLEAN
    BY BitTyped
  <2> QED
    BY <2>1, SteadySelf, FlagKeeps DEF BIT
<1> QED
  BY <1>1, <1>2, MachineIs DEF CMP, CPX, CPY

(* Shifts and rotations, of the accumulator and of the memory.             *)
LEMMA ShiftsKeep ==
  ASSUME NEW c, IsMachine(c)
  PROVE  Steady(c, ASL(c)) /\ Steady(c, LSR(c)) /\ Steady(c, ROL(c)) /\ Steady(c, ROR(c))
<1>1. ASSUME NEW acc, NEW f \in BOOLEAN, NEW r \in Bytes PROVE Steady(c, Shift(c, acc, f, r))
  <2> DEFINE d == IF c.opcode = acc THEN [c EXCEPT !.a = r] ELSE Write(c, c.address, r)
  <2>1. Steady(c, [c EXCEPT !.a = r])
    BY DEF Steady, Keeps, Same, IsMachine, Machines
  <2>2. Steady(c, d)
    BY <2>1, MachineIs, WriteKeeps
  <2> HIDE DEF d
  <2>3. Steady(d, SetZN(d, r))
    BY <2>2, SetZNKeeps DEF Steady, Keeps, Same
  <2>4. Steady(c, [SetZN(d, r) EXCEPT !.carry = f])
    BY <2>2, <2>3, SteadyTwice, FlagKeeps
  <2> QED
    BY <2>4 DEF Shift, d
<1>2. \A acc : Shifted(c, acc) \in Bytes
  BY MachineIs, ValueTyped DEF Shifted
<1>3. ASSUME NEW v \in Bytes, NEW f
      PROVE  /\ Byte(2 * v) \in Bytes /\ v \div 2 \in Bytes
             /\ Byte(2 * v) + Number(f) \in Bytes /\ v \div 2 + 128 * Number(f) \in Bytes
  <2>1. v \in Nat /\ v < 256
    BY DEF Bytes
  <2>2. Byte(2 * v) = IF v < 128 THEN 2 * v ELSE 2 * v - 256
    BY <2>1 DEF Byte
  <2>3. v \div 2 \in Nat /\ v \div 2 < 128
    BY <2>1
  <2>4. Number(f) \in Nat /\ Number(f) <= 1
    BY NumberIs
  <2> QED
    BY <2>1, <2>2, <2>3, <2>4 DEF Bytes
<1>4. Steady(c, ASL(c)) /\ Steady(c, LSR(c)) /\ Steady(c, ROL(c))
  BY <1>1, <1>2, <1>3, BitTyped DEF ASL, LSR, ROL
<1>5. Steady(c, ROR(c))
  <2> DEFINE v       == Shifted(c, 106)
             rotated == Shift(c, 106, Bit(v, 0), v \div 2 + 128 * Number(c.carry))
  <2>1. Steady(c, rotated)
    BY <1>1, <1>2, <1>3, BitTyped
  <2> HIDE DEF rotated
  <2>2. Steady(c, [rotated EXCEPT !.zero = rotated.a = 0])
    <3>1. (rotated.a = 0) \in BOOLEAN
      OBVIOUS
    <3> QED
      BY <2>1, <3>1, FlagKeeps
  <2> QED
    BY <2>2 DEF ROR, rotated
<1> QED
  BY <1>4, <1>5

(* The instructions that set one flag, and NOP.                            *)
LEMMA FlagsKeep ==
  ASSUME NEW c, IsMachine(c)
  PROVE  /\ Steady(c, CLC(c)) /\ Steady(c, CLD(c)) /\ Steady(c, CLI(c)) /\ Steady(c, CLV(c))
         /\ Steady(c, SEC(c)) /\ Steady(c, SED(c)) /\ Steady(c, SEI(c)) /\ Steady(c, NOP(c))
BY SteadySelf, FlagKeeps DEF CLC, CLD, CLI, CLV, SEC, SED, SEI, NOP

(* A branch goes to the same page or to the next one, and the extra cycles *)
(* of one round the end of the memory wrap to none.                        *)
LEMMA PagesNear ==
  ASSUME NEW p \in Words, NEW k \in Int, -128 <= k, k <= 127
  PROVE  Byte(1 + Distance(p \div 256, Word(p + k) \div 256)) \in 0 .. 2
<1> DEFINE t == Word(p + k)
           u == p \div 256
           v == t \div 256
<1>1. p \in Nat /\ p < 65536
  BY DEF Words
<1>2. \/ t = p + k
      \/ t = p + k - 65536 /\ p + k >= 65536
      \/ t = p + k + 65536 /\ p + k < 0
  BY <1>1 DEF Word
<1>3. t \in Nat /\ t < 65536
  BY <1>1, Wrapped DEF Words
<1> HIDE DEF t
<1>4. u \in Nat /\ 256 * u <= p /\ p < 256 * u + 256
  BY <1>1
<1>5. v \in Nat /\ 256 * v <= t /\ t < 256 * v + 256
  BY <1>3
<1> HIDE DEF u, v
<1>6. \/ v - u \in {-1, 0, 1}
      \/ u - v = 255 \/ v - u = 255
  BY <1>1, <1>2, <1>3, <1>4, <1>5
<1>7. Distance(u, v) \in {0, 1, 255}
  BY <1>4, <1>5, <1>6 DEF Distance
<1>8. Byte(1 + 0) = 1 /\ Byte(1 + 1) = 2 /\ Byte(1 + 255) = 0
  BY DEF Byte
<1> QED
  BY <1>7, <1>8 DEF t, u, v

(* The offset of a branch.                                                 *)
LEMMA SignedIs == \A b \in Bytes : Signed(b) \in Int /\ -128 <= Signed(b) /\ Signed(b) <= 127
BY DEF Signed, Bytes

(* A branch, taken or not, changes the program counter only and returns    *)
(* two extra cycles at most.                                               *)
LEMMA BranchKeeps ==
  ASSUME NEW c, IsMachine(c), NEW taken \in BOOLEAN
  PROVE  LET d == Branch(c, taken)
         IN  Same(c, d) /\ d.s = c.s /\ (c.extra = 0 => d.extra \in 0 .. 2)
<1> DEFINE target == Word(c.pc + Signed(Value(c)))
           more == Byte(1 + Distance(c.pc \div 256, target \div 256))
           d == [c EXCEPT !.pc = target, !.extra = more]
<1>1. c.pc \in Words /\ Signed(Value(c)) \in Int /\ -128 <= Signed(Value(c)) /\ Signed(Value(c)) <= 127
  BY MachineIs, ValueTyped, SignedIs
<1>2. more \in 0 .. 2
  BY <1>1, PagesNear
<1>3. target \in Words
  BY <1>1, Wrapped DEF Words
<1> HIDE DEF more, target
<1>4. more \in Bytes
  BY <1>2 DEF Bytes
<1>5. Same(c, d) /\ d.s = c.s /\ d.extra = more
  BY <1>3, <1>4 DEF Same, IsMachine, Machines
<1>6. Same(c, c) /\ (c.extra = 0 => c.extra \in 0 .. 2)
  BY DEF Same
<1> QED
  BY <1>2, <1>5, <1>6 DEF Branch, target, more

Branches == {"BCC", "BCS", "BEQ", "BMI", "BNE", "BPL", "BVC", "BVS"}

(* The eight branches.                                                     *)
LEMMA BranchesKeep ==
  ASSUME NEW c, IsMachine(c), NEW op \in Branches
  PROVE  LET d == Instruction(op, c)
         IN  Same(c, d) /\ d.s = c.s /\ (c.extra = 0 => d.extra \in 0 .. 2)
<1>1. /\ c.carry \in BOOLEAN /\ (~c.carry) \in BOOLEAN /\ c.zero \in BOOLEAN /\ (~c.zero) \in BOOLEAN
      /\ c.negative \in BOOLEAN /\ (~c.negative) \in BOOLEAN
      /\ c.overflow \in BOOLEAN /\ (~c.overflow) \in BOOLEAN
  BY MachineIs
<1>2. Instruction(op, c) \in
        {BCC(c), BCS(c), BEQ(c), BMI(c), BNE(c), BPL(c), BVC(c), BVS(c)}
  BY DEF Instruction, Branches
<1>3. PICK taken \in BOOLEAN : Instruction(op, c) = Branch(c, taken)
  BY <1>1, <1>2 DEF BCC, BCS, BEQ, BMI, BNE, BPL, BVC, BVS
<1> QED
  BY <1>3, BranchKeeps

-----------------------------------------------------------------------------
(* The stack.                                                              *)

(* The k-th byte from the top of the stack, and the cell k bytes down from *)
(* the stack pointer, where the k-th byte is pushed.                       *)
Top(c, k)  == Cell(c.mem, 256 + Byte(c.s + k))
Down(s, k) == 256 + Byte(s - k)

(* Wrapping a byte twice is wrapping it once.                              *)
LEMMA ByteAgain ==
  ASSUME NEW n \in Int, NEW k \in Int
  PROVE  Byte(Byte(n) + k) = Byte(n + k) /\ Byte(Byte(n) - k) = Byte(n - k)
BY DEF Byte

(* The stack page is left by no number of pushes.                          *)
LEMMA DownIs ==
  ASSUME NEW s \in Bytes, NEW k \in Int PROVE Down(s, k) \in StackPage /\ Byte(s - k) \in Bytes
<1>1. Byte(s - k) \in Bytes
  BY Wrapped DEF Bytes
<1> QED
  BY <1>1, InStackPage DEF Down

(* n bytes have been pushed between c and d.                               *)
Pushed(c, d, bytes, n) ==
  /\ Keeps(c, d)
  /\ d.s = Byte(c.s - n)
  /\ \A k \in 0 .. n - 1 : Cell(d.mem, Down(c.s, k)) = bytes[k + 1]
  /\ \A a \in StackPage :
       (\A k \in 0 .. n - 1 : a # Down(c.s, k)) => Cell(d.mem, a) = Cell(c.mem, a)

(* Nothing pushed yet.                                                     *)
LEMMA PushedNone == ASSUME NEW c, IsMachine(c), NEW bytes PROVE Pushed(c, c, bytes, 0)
BY MachineIs, SmallByte DEF Pushed, Keeps, Same, Bytes

(* One more byte is pushed: the bytes before it stay where they are, for   *)
(* fewer than 256 of them.                                                 *)
LEMMA PushedNext ==
  ASSUME NEW c, IsMachine(c), NEW d, NEW bytes, NEW n \in 0 .. 2, Pushed(c, d, bytes, n),
         bytes[n + 1] \in Bytes
  PROVE  /\ Pushed(c, PushToStack(d, bytes[n + 1]), bytes, n + 1)
         /\ PushToStack(d, bytes[n + 1]).pc = d.pc
<1> DEFINE e == PushToStack(d, bytes[n + 1])
<1>1. IsMachine(d) /\ Keeps(c, d) /\ c.s \in Bytes
  BY MachineIs DEF Pushed, Keeps, Same
<1>2. /\ Keeps(d, e) /\ e.s = Byte(d.s - 1) /\ e.pc = d.pc
      /\ e.mem = BusSetByte(d.mem, Banks, 256 + d.s, bytes[n + 1])
  BY <1>1, PushKeeps
<1> HIDE DEF e
<1>3. c.s \in Int
  BY <1>1 DEF Bytes
<1>4. 256 + d.s = Down(c.s, n)
  BY DEF Pushed, Down
<1>5. e.s = Byte(c.s - (n + 1))
  <2>1. d.s = Byte(c.s - n)
    BY DEF Pushed
  <2>2. c.s - n \in Int /\ 1 \in Int /\ (c.s - n) - 1 = c.s - (n + 1)
    BY <1>3
  <2>3. Byte(Byte(c.s - n) - 1) = Byte((c.s - n) - 1)
    BY <2>2, ByteAgain
  <2> QED
    BY <1>2, <2>1, <2>2, <2>3
<1>6. /\ Cell(e.mem, Down(c.s, n)) = bytes[n + 1]
      /\ \A a \in StackPage : a # Down(c.s, n) => Cell(e.mem, a) = Cell(d.mem, a)
  BY <1>1, <1>2, <1>4, StackWrite, DownIs
<1>7. \A k \in 0 .. n - 1 : Down(c.s, k) # Down(c.s, n) /\ Down(c.s, k) \in StackPage
  <2> SUFFICES ASSUME NEW k \in 0 .. n - 1
               PROVE Down(c.s, k) # Down(c.s, n) /\ Down(c.s, k) \in StackPage
    OBVIOUS
  <2>1. Byte(c.s - k) # Byte(c.s - n)
    BY <1>1 DEF Byte, Bytes
  <2>2. k \in Int /\ n \in Int
    OBVIOUS
  <2>3. Byte(c.s - k) \in Bytes /\ Byte(c.s - n) \in Bytes /\ Down(c.s, k) \in StackPage
    BY <1>1, <2>2, DownIs
  <2>4. Byte(c.s - k) \in Int /\ Byte(c.s - n) \in Int
    BY <2>3 DEF Bytes
  <2> QED
    BY <2>1, <2>3, <2>4 DEF Down
<1>8. \A k \in 0 .. n : Cell(e.mem, Down(c.s, k)) = bytes[k + 1]
  <2> SUFFICES ASSUME NEW k \in 0 .. n PROVE Cell(e.mem, Down(c.s, k)) = bytes[k + 1]
    OBVIOUS
  <2>1. CASE k = n
    BY <2>1, <1>6
  <2>2. CASE k # n
    BY <2>2, <1>6, <1>7 DEF Pushed
  <2> QED
    BY <2>1, <2>2
<1>9. \A a \in StackPage :
        (\A k \in 0 .. n : a # Down(c.s, k)) => Cell(e.mem, a) = Cell(c.mem, a)
  BY <1>6 DEF Pushed
<1>10. Keeps(c, e)
  BY <1>1, <1>2, KeepsTwice
<1>11. (n + 1) - 1 = n
  OBVIOUS
<1>12. Pushed(c, e, bytes, n + 1)
  BY <1>5, <1>8, <1>9, <1>10, <1>11 DEF Pushed
<1> QED
  BY <1>2, <1>12 DEF e

(* A word is pushed high byte first.                                       *)
LEMMA PushWordIs ==
  ASSUME NEW c, IsMachine(c), NEW w \in Words, NEW bytes,
         bytes[1] = w \div 256, bytes[2] = Byte(w)
  PROVE  Pushed(c, PushWord(c, w), bytes, 2) /\ PushWord(c, w).pc = c.pc
<1> DEFINE d == PushToStack(c, bytes[1])
           e == PushToStack(d, bytes[2])
<1>1. bytes[1] \in Bytes /\ bytes[2] \in Bytes
  BY SmallWord, Wrapped DEF Words
<1>2. Pushed(c, c, bytes, 0)
  BY PushedNone
<1>3. 0 + 1 = 1 /\ 1 + 1 = 2 /\ 0 \in 0 .. 2 /\ 1 \in 0 .. 2
  OBVIOUS
<1>4. Pushed(c, d, bytes, 1) /\ d.pc = c.pc
  BY <1>1, <1>2, <1>3, PushedNext
<1> HIDE DEF d
<1>5. Pushed(c, e, bytes, 2) /\ e.pc = d.pc
  BY <1>1, <1>3, <1>4, PushedNext
<1> QED
  BY <1>4, <1>5 DEF PushWord, d, e

(* Two pops read the two bytes on top of the stack.                        *)
LEMMA PopTwice ==
  ASSUME NEW c, IsMachine(c)
  PROVE  LET d == PopFromStack(c)
             e == PopFromStack(d)
         IN  /\ Keeps(c, e) /\ e.s = Byte(c.s + 2) /\ e.mem = c.mem
             /\ Popped(c) = Top(c, 1) /\ Popped(d) = Top(c, 2)
             /\ Popped(c) \in Bytes /\ Popped(d) \in Bytes
<1> DEFINE d == PopFromStack(c)
           e == PopFromStack(d)
<1>1. /\ Keeps(c, d) /\ d.s = Byte(c.s + 1) /\ d.mem = c.mem
      /\ Popped(c) = Top(c, 1) /\ Popped(c) \in Bytes
  BY PopKeeps DEF Top
<1> HIDE DEF d
<1>2. IsMachine(d)
  BY <1>1 DEF Keeps, Same
<1>3. /\ Keeps(d, e) /\ e.s = Byte(d.s + 1) /\ e.mem = d.mem
      /\ Popped(d) = Top(d, 1) /\ Popped(d) \in Bytes
  BY <1>2, PopKeeps DEF Top
<1> HIDE DEF e
<1>4. Byte(d.s + 1) = Byte(c.s + 2)
  <2>1. c.s \in Int
    BY MachineIs DEF Bytes
  <2>2. c.s + 1 \in Int /\ 1 \in Int /\ (c.s + 1) + 1 = c.s + 2
    BY <2>1
  <2>3. Byte(Byte(c.s + 1) + 1) = Byte((c.s + 1) + 1)
    BY <2>2, ByteAgain
  <2> QED
    BY <1>1, <2>2, <2>3
<1>5. Keeps(c, e)
  BY <1>1, <1>3, KeepsTwice
<1>6. /\ Keeps(c, e) /\ e.s = Byte(c.s + 2) /\ e.mem = c.mem
      /\ Popped(c) = Top(c, 1) /\ Popped(d) = Top(c, 2)
      /\ Popped(c) \in Bytes /\ Popped(d) \in Bytes
  BY <1>1, <1>3, <1>4, <1>5 DEF Top
<1> QED
  BY <1>6 DEF d, e

(* A word is popped low byte first.                                        *)
LEMMA PopWordIs ==
  ASSUME NEW c, IsMachine(c)
  PROVE  /\ Keeps(c, PopWord(c)) /\ PopWord(c).s = Byte(c.s + 2) /\ PopWord(c).mem = c.mem
         /\ PoppedWord(c) = Top(c, 1) + 256 * Top(c, 2) /\ PoppedWord(c) \in Words
<1>1. \A h, l \in Bytes : l + 256 * h \in Words
  BY DEF Bytes, Words
<1> QED
  BY <1>1, PopTwice DEF PopWord, PoppedWord

(* The status byte is made of the flags.                                   *)
LEMMA StatusIs ==
  ASSUME NEW c, IsMachine(c)
  PROVE  Flags(c) \in FlagSets /\ GetProcessorStatus(c) = StatusOf(Flags(c))
         /\ StatusOf(Flags(c)) \in Bytes
BY MachineIs, FromBitsTyped DEF Flags, FlagSets, GetProcessorStatus, StatusOf

(* The flags come back from their byte.                                    *)
LEMMA StatusBack ==
  ASSUME NEW c, IsMachine(c), NEW b \in Bytes
  PROVE  /\ Steady(c, SetProcessorStatus(c, b)) /\ SetProcessorStatus(c, b).mem = c.mem
         /\ \A f \in FlagSets : b = StatusOf(f) => Flags(SetProcessorStatus(c, b)) = f
<1> DEFINE d == SetProcessorStatus(c, b)
<1>1. /\ Bit(b, 0) \in BOOLEAN /\ Bit(b, 1) \in BOOLEAN /\ Bit(b, 2) \in BOOLEAN
      /\ Bit(b, 3) \in BOOLEAN /\ Bit(b, 4) \in BOOLEAN /\ Bit(b, 6) \in BOOLEAN
      /\ Bit(b, 7) \in BOOLEAN
  BY BitTyped
<1>2. Steady(c, d) /\ d.mem = c.mem
  <2>1. d \in Machines(c.mem)
    BY <1>1 DEF SetProcessorStatus, IsMachine, Machines
  <2>2. /\ d.opcode = c.opcode /\ d.address = c.address /\ d.extra = c.extra
        /\ d.status = c.status /\ d.beyond = c.beyond /\ d.s = c.s /\ d.mem = c.mem
    BY DEF SetProcessorStatus, IsMachine, Machines
  <2> QED
    BY <2>1, <2>2 DEF Steady, Keeps, Same, IsMachine
<1>3. Flags(d) = <<Bit(b, 0), Bit(b, 1), Bit(b, 2), Bit(b, 3), Bit(b, 4), Bit(b, 6), Bit(b, 7)>>
  BY DEF SetProcessorStatus, Flags, IsMachine, Machines
<1> HIDE DEF d
<1>4. ASSUME NEW f \in FlagSets, b = StatusOf(f) PROVE Flags(d) = f
  <2>1. /\ f[1] \in BOOLEAN /\ f[2] \in BOOLEAN /\ f[3] \in BOOLEAN /\ f[4] \in BOOLEAN
        /\ f[5] \in BOOLEAN /\ f[6] \in BOOLEAN /\ f[7] \in BOOLEAN
    BY DEF FlagSets
  <2>2. /\ Bit(b, 0) <=> f[1]
        /\ Bit(b, 1) <=> f[2]
        /\ Bit(b, 2) <=> f[3]
        /\ Bit(b, 3) <=> f[4]
        /\ Bit(b, 4) <=> f[5]
        /\ Bit(b, 6) <=> f[6]
        /\ Bit(b, 7) <=> f[7]
    BY <1>4, BitsBack
  <2>3. \A p, q \in BOOLEAN : (p <=> q) => p = q
    OBVIOUS
  <2>4. /\ Bit(b, 0) = f[1] /\ Bit(b, 1) = f[2] /\ Bit(b, 2) = f[3] /\ Bit(b, 3) = f[4]
        /\ Bit(b, 4) = f[5] /\ Bit(b, 6) = f[6] /\ Bit(b, 7) = f[7]
    BY <1>1, <2>1, <2>2, <2>3, Zenon
  <2>5. f = <<f[1], f[2], f[3], f[4], f[5], f[6], f[7]>>
    BY DEF FlagSets
  <2> QED
    BY <1>3, <2>4, <2>5
<1> QED
  BY <1>2, <1>4 DEF d

(* PLA takes the accumulator, PLP the flags from the top of the stack.     *)
LEMMA PullsAre ==
  ASSUME NEW c, IsMachine(c)
  PROVE  /\ Keeps(c, PLA(c)) /\ PLA(c).s = Byte(c.s + 1) /\ PLA(c).mem = c.mem
         /\ PLA(c).a = Top(c, 1)
         /\ Keeps(c, PLP(c)) /\ PLP(c).s = Byte(c.s + 1) /\ PLP(c).mem = c.mem
         /\ \A f \in FlagSets : Top(c, 1) = StatusOf(f) => Flags(PLP(c)) = f
<1> DEFINE d == PopFromStack(c)
<1>1. /\ Keeps(c, d) /\ d.s = Byte(c.s + 1) /\ d.mem = c.mem
      /\ Popped(c) \in Bytes /\ Popped(c) = Top(c, 1)
  BY PopKeeps DEF Top
<1> HIDE DEF d
<1>2. IsMachine(d)
  BY <1>1 DEF Keeps, Same
<1>3. /\ Steady(d, SetA(d, Popped(c))) /\ SetA(d, Popped(c)).mem = d.mem
      /\ SetA(d, Popped(c)).a = Popped(c)
  BY <1>1, <1>2, SetRegisterKeeps
<1>4. /\ Keeps(c, PLA(c)) /\ PLA(c).s = Byte(c.s + 1) /\ PLA(c).mem = c.mem
      /\ PLA(c).a = Top(c, 1)
  BY <1>1, <1>3, KeepsTwice DEF PLA, Steady, d
<1>5. /\ Steady(d, SetProcessorStatus(d, Popped(c)))
      /\ SetProcessorStatus(d, Popped(c)).mem = d.mem
      /\ \A f \in FlagSets :
           Popped(c) = StatusOf(f) => Flags(SetProcessorStatus(d, Popped(c))) = f
  BY <1>1, <1>2, StatusBack
<1>6. /\ Keeps(c, PLP(c)) /\ PLP(c).s = Byte(c.s + 1) /\ PLP(c).mem = c.mem
      /\ \A f \in FlagSets : Top(c, 1) = StatusOf(f) => Flags(PLP(c)) = f
  BY <1>1, <1>5, KeepsTwice DEF PLP, Steady, d
<1> QED
  BY <1>4, <1>6

(* RTS and RTI take the program counter from the stack, RTI below the      *)
(* flags.                                                                  *)
LEMMA ReturnsAre ==
  ASSUME NEW c, IsMachine(c)
  PROVE  /\ Keeps(c, RTS(c)) /\ RTS(c).s = Byte(c.s + 2) /\ RTS(c).mem = c.mem
         /\ RTS(c).pc = Word(Top(c, 1) + 256 * Top(c, 2) + 1)
         /\ Keeps(c, RTI(c)) /\ RTI(c).s = Byte(c.s + 3) /\ RTI(c).mem = c.mem
         /\ RTI(c).pc = Top(c, 2) + 256 * Top(c, 3)
         /\ \A f \in FlagSets : Top(c, 1) = StatusOf(f) => Flags(RTI(c)) = f
<1>0. c.s \in Int
  BY MachineIs DEF Bytes
<1>1. /\ Keeps(c, PopWord(c)) /\ PopWord(c).s = Byte(c.s + 2) /\ PopWord(c).mem = c.mem
      /\ PoppedWord(c) = Top(c, 1) + 256 * Top(c, 2) /\ PoppedWord(c) \in Words
  BY PopWordIs
<1>2. Word(PoppedWord(c) + 1) \in Words
  BY <1>1, Wrapped DEF Words
<1>3. /\ Keeps(c, RTS(c)) /\ RTS(c).s = Byte(c.s + 2) /\ RTS(c).mem = c.mem
      /\ RTS(c).pc = Word(Top(c, 1) + 256 * Top(c, 2) + 1)
  <2> DEFINE p == PopWord(c)
             w == Word(PoppedWord(c) + 1)
  <2>1. RTS(c) = [p EXCEPT !.pc = w]
    BY DEF RTS
  <2>2. Keeps(c, p) /\ w \in Words
    BY <1>1, <1>2
  <2> HIDE DEF p, w
  <2>3. Keeps(c, RTS(c)) /\ RTS(c).s = p.s /\ RTS(c).mem = p.mem /\ RTS(c).pc = w
    BY <2>1, <2>2 DEF Keeps, Same, IsMachine, Machines, Flags
  <2> QED
    BY <1>1, <2>3 DEF p, w
<1> DEFINE d == PLP(c)
<1>4. /\ Keeps(c, d) /\ d.s = Byte(c.s + 1) /\ d.mem = c.mem
      /\ \A f \in FlagSets : Top(c, 1) = StatusOf(f) => Flags(d) = f
  BY PullsAre
<1> HIDE DEF d
<1>5. IsMachine(d)
  BY <1>4 DEF Keeps, Same
<1>6. /\ Keeps(d, PopWord(d)) /\ PopWord(d).s = Byte(d.s + 2) /\ PopWord(d).mem = d.mem
      /\ PoppedWord(d) = Top(d, 1) + 256 * Top(d, 2) /\ PoppedWord(d) \in Words
  BY <1>5, PopWordIs
<1>7. Flags(PopWord(d)) = Flags(d)
  BY <1>5 DEF PopWord, PopFromStack, Flags, IsMachine, Machines
<1>8. /\ Byte(d.s + 1) = Byte(c.s + 2) /\ Byte(d.s + 2) = Byte(c.s + 3)
  <2>1. /\ c.s + 1 \in Int /\ (c.s + 1) + 1 = c.s + 2 /\ (c.s + 1) + 2 = c.s + 3
        /\ 1 \in Int /\ 2 \in Int
    BY <1>0
  <2> QED
    BY <1>4, <2>1, ByteAgain
<1>9. Top(d, 1) = Top(c, 2) /\ Top(d, 2) = Top(c, 3)
  BY <1>4, <1>8 DEF Top
<1>10. Keeps(c, PopWord(d))
  BY <1>4, <1>6, KeepsTwice
<1>11. /\ Keeps(c, RTI(c)) /\ RTI(c).s = Byte(c.s + 3) /\ RTI(c).mem = c.mem
       /\ RTI(c).pc = Top(c, 2) + 256 * Top(c, 3)
       /\ Flags(RTI(c)) = Flags(d)
  <2> DEFINE p == PopWord(d)
             w == PoppedWord(d)
  <2>1. RTI(c) = [p EXCEPT !.pc = w]
    BY DEF RTI, d
  <2>2. Keeps(c, p) /\ w \in Words
    BY <1>6, <1>10
  <2> HIDE DEF p, w
  <2>3. /\ Keeps(c, RTI(c)) /\ RTI(c).s = p.s /\ RTI(c).mem = p.mem /\ RTI(c).pc = w
        /\ Flags(RTI(c)) = Flags(p)
    BY <2>1, <2>2 DEF Keeps, Same, IsMachine, Machines, Flags
  <2> QED
    BY <1>4, <1>6, <1>7, <1>8, <1>9, <2>3 DEF p, w
<1> QED
  BY <1>3, <1>4, <1>11

(* The jump of JSR and BRK that follows the pushes leaves the stack alone. *)
LEMMA PushedJump ==
  ASSUME NEW c, NEW d, NEW bytes, NEW n, Pushed(c, d, bytes, n), NEW w \in Words, NEW e,
         e = [d EXCEPT !.pc = w] \/ e = [d EXCEPT !.pc = w, !.break = TRUE]
  PROVE  Pushed(c, e, bytes, n)
<1>1. Keeps(c, d)
  BY DEF Pushed
<1>2. Keeps(c, e) /\ e.s = d.s /\ e.mem = d.mem
  <2>1. CASE e = [d EXCEPT !.pc = w]
    BY <1>1, <2>1 DEF Keeps, Same, IsMachine, Machines
  <2>2. CASE e = [d EXCEPT !.pc = w, !.break = TRUE]
    BY <1>1, <2>2 DEF Keeps, Same, IsMachine, Machines
  <2> QED
    BY <2>1, <2>2
<1> QED
  BY <1>2 DEF Pushed

(* What the four instructions that save something push.                    *)
LEMMA SavesAre ==
  ASSUME NEW c, IsMachine(c)
  PROVE  /\ Pushed(c, PHA(c), <<c.a>>, 1)
         /\ Pushed(c, PHP(c), <<StatusOf(Flags(c))>>, 1)
         /\ LET w == Word(c.pc - 1) IN Pushed(c, JSR(c), <<w \div 256, Byte(w)>>, 2)
         /\ LET w == Word(c.pc + 1)
            IN  Pushed(c, BRK(c), <<w \div 256, Byte(w), StatusOf(Flags(c))>>, 3)
<1>1. /\ c.a \in Bytes /\ c.address \in Words /\ c.beyond \in Bytes
      /\ Word(c.pc - 1) \in Words /\ Word(c.pc + 1) \in Words
  <2>1. c.pc - 1 \in Int /\ c.pc + 1 \in Int
    BY MachineIs DEF Words
  <2> QED
    BY <2>1, MachineIs, Wrapped
<1>2. ASSUME NEW b \in Bytes PROVE Pushed(c, PushToStack(c, b), <<b>>, 1)
  <2> DEFINE bytes == <<b>>
  <2>1. bytes[0 + 1] = b /\ 0 \in 0 .. 2 /\ 0 + 1 = 1
    OBVIOUS
  <2> HIDE DEF bytes
  <2>2. Pushed(c, c, bytes, 0)
    BY PushedNone
  <2>3. Pushed(c, PushToStack(c, bytes[0 + 1]), bytes, 0 + 1)
    BY <2>1, <2>2, PushedNext
  <2> QED
    BY <2>1, <2>3 DEF bytes
<1>3. /\ Pushed(c, PHA(c), <<c.a>>, 1)
      /\ Pushed(c, PHP(c), <<StatusOf(Flags(c))>>, 1)
  BY <1>1, <1>2, StatusIs DEF PHA, PHP
<1>4. LET w == Word(c.pc - 1) IN Pushed(c, JSR(c), <<w \div 256, Byte(w)>>, 2)
  <2> DEFINE w == Word(c.pc - 1)
             bytes == <<w \div 256, Byte(w)>>
             d == PushWord(c, w)
  <2>1. bytes[1] = w \div 256 /\ bytes[2] = Byte(w)
    OBVIOUS
  <2>2. w \in Words
    BY <1>1
  <2>3. JSR(c) = [d EXCEPT !.pc = c.address]
    BY DEF JSR
  <2> HIDE DEF bytes, w
  <2>4. Pushed(c, d, bytes, 2)
    BY <2>1, <2>2, PushWordIs
  <2> HIDE DEF d
  <2>5. Pushed(c, JSR(c), bytes, 2)
    BY <1>1, <2>3, <2>4, PushedJump
  <2> QED
    BY <2>5 DEF bytes, w
<1>5. LET w == Word(c.pc + 1)
      IN  Pushed(c, BRK(c), <<w \div 256, Byte(w), StatusOf(Flags(c))>>, 3)
  <2> DEFINE w == Word(c.pc + 1)
             status == GetProcessorStatus(c)
             bytes == <<w \div 256, Byte(w), status>>
             d == PushWord(c, w)
             e == PushToStack(d, status)
             to == ReadWord(e, 65534)
  <2>1. bytes[1] = w \div 256 /\ bytes[2] = Byte(w) /\ bytes[2 + 1] = status
    OBVIOUS
  <2>2. w \in Words
    BY <1>1
  <2>3. BRK(c) = [e EXCEPT !.pc = to, !.break = TRUE]
    BY DEF BRK
  <2>8. status = StatusOf(Flags(c)) /\ status \in Bytes
    BY StatusIs
  <2> HIDE DEF bytes, w, status
  <2>4. Pushed(c, d, bytes, 2)
    BY <2>1, <2>2, PushWordIs
  <2> HIDE DEF d
  <2>5. Pushed(c, e, bytes, 3)
    <3>1. bytes[2 + 1] \in Bytes /\ 2 \in 0 .. 2 /\ 2 + 1 = 3
      BY <2>1, <2>8
    <3>2. Pushed(c, PushToStack(d, bytes[2 + 1]), bytes, 2 + 1)
      BY <2>4, <3>1, PushedNext
    <3> QED
      BY <2>1, <3>1, <3>2
  <2>6. to \in Words
    <3>1. IsMachine(e) /\ 65534 \in Words
      BY <2>5 DEF Pushed, Keeps, Same, Words
    <3> QED
      BY <3>1, ReadTyped
  <2> HIDE DEF e, to
  <2>7. Pushed(c, BRK(c), bytes, 3)
    BY <2>3, <2>5, <2>6, PushedJump
  <2> QED
    BY <2>7, <2>8 DEF bytes, w
<1> QED
  BY <1>3, <1>4, <1>5

(* TXS and JMP.                                                            *)
LEMMA MovesKeep ==
  ASSUME NEW c, IsMachine(c)
  PROVE  Keeps(c, TXS(c)) /\ Steady(c, JMP(c))
BY DEF TXS, JMP, Steady, Keeps, Same, IsMachine, Machines

-----------------------------------------------------------------------------
(* The table of the opcodes.                                               *)

Ops ==
  {"ADC", "AND", "ASL", "BCC", "BCS", "BEQ", "BIT", "BMI", "BNE", "BPL", "BRK", "BVC",
   "BVS", "CLC", "CLD", "CLI", "CLV", "CMP", "CPX", "CPY", "DEC", "DEX", "DEY", "EOR",
   "INC", "INX", "INY", "JMP", "JSR", "LDA", "LDX", "LDY", "LSR", "NOP", "ORA", "PHA",
   "PHP", "PLA", "PLP", "ROL", "ROR", "RTI", "RTS", "SBC", "SEC", "SED", "SEI", "STA",
   "STX", "STY", "TAX", "TAY", "TSX", "TXA", "TXS", "TYA"}

Modes ==
  {"Imp", "Acc", "Imm", "Rel", "Zp", "ZpX", "ZpY", "Abs", "AbsX", "AbsY", "Ind", "IndX",
   "IndY"}

(* What the proofs need to know of a row.                                  *)
Sound(row) ==
  /\ row[1] \in Ops /\ row[2] \in Modes
  /\ row[3] \in 2 .. 7 /\ row[4] \in 0 .. 1 /\ row[3] + row[4] <= 7
  /\ row[1] \in Branches => row[3] + row[4] <= 5
  /\ row[1] \in Stores /\ row[2] # "Acc" => row[3] >= 4 \/ row[2] = "Zp"
  /\ row[1] = "JSR" => row[2] = "Abs"
  /\ row[1] = "BRK" => row[2] = "Imp"

(* Every entry of the table that is not empty is sound.                    *)
LEMMA Rows ==
  ASSUME NEW opcode \in Bytes, opcodes[opcode] # <<>>
  PROVE  Sound(opcodes[opcode])
<1> DEFINE k == (opcode \div 16) + 1
           i == (opcode % 16) + 1
           AllSound(rows) == \A n \in 1 .. 16 : rows[n] # <<>> => Sound(rows[n])
<1>1. k \in 1 .. 16 /\ i \in 1 .. 16
  BY DEF Bytes
<1>2. opcodes[opcode] = Opcodes[k][i]
  BY DEF opcodes, Bytes
<1> HIDE DEF k, i
<1>3. Opcodes[k] \in
        {Opcodes00, Opcodes10, Opcodes20, Opcodes30, Opcodes40, Opcodes50, Opcodes60,
         Opcodes70, Opcodes80, Opcodes90, OpcodesA0, OpcodesB0, OpcodesC0, OpcodesD0,
         OpcodesE0, OpcodesF0}
  BY <1>1 DEF Opcodes
<1>4. AllSound(Opcodes00)
  BY DEF Opcodes00, Sound, Ops, Modes, Branches, Stores
<1>5. AllSound(Opcodes10)
  BY DEF Opcodes10, Sound, Ops, Modes, Branches, Stores
<1>6. AllSound(Opcodes20)
  BY DEF Opcodes20, Sound, Ops, Modes, Branches, Stores
<1>7. AllSound(Opcodes30)
  BY DEF Opcodes30, Sound, Ops, Modes, Branches, Stores
<1>8. AllSound(Opcodes40)
  BY DEF Opcodes40, Sound, Ops, Modes, Branches, Stores
<1>9. AllSound(Opcodes50)
  BY DEF Opcodes50, Sound, Ops, Modes, Branches, Stores
<1>10. AllSound(Opcodes60)
  BY DEF Opcodes60, Sound, Ops, Modes, Branches, Stores
<1>11. AllSound(Opcodes70)
  BY DEF Opcodes70, Sound, Ops, Modes, Branches, Stores
<1>12. AllSound(Opcodes80)
  BY DEF Opcodes80, Sound, Ops, Modes, Branches, Stores
<1>13. AllSound(Opcodes90)
  BY DEF Opcodes90, Sound, Ops, Modes, Branches, Stores
<1>14. AllSound(OpcodesA0)
  BY DEF OpcodesA0, Sound, Ops, Modes, Branches, Stores
<1>15. AllSound(OpcodesB0)
  BY DEF OpcodesB0, Sound, Ops, Modes, Branches, Stores
<1>16. AllSound(OpcodesC0)
  BY DEF OpcodesC0, Sound, Ops, Modes, Branches, Stores
<1>17. AllSound(OpcodesD0)
  BY DEF OpcodesD0, Sound, Ops, Modes, Branches, Stores
<1>18. AllSound(OpcodesE0)
  BY DEF OpcodesE0, Sound, Ops, Modes, Branches, Stores
<1>19. AllSound(OpcodesF0)
  BY DEF OpcodesF0, Sound, Ops, Modes, Branches, Stores
<1>20. AllSound(Opcodes[k])
  BY <1>3, <1>4, <1>5, <1>6, <1>7, <1>8, <1>9, <1>10, <1>11, <1>12, <1>13, <1>14,
     <1>15, <1>16, <1>17, <1>18, <1>19
<1> QED
  BY <1>1, <1>2, <1>20

-----------------------------------------------------------------------------
(* Running an instruction.                                                 *)

(* An address in page zero.                                                *)
LEMMA BytesAreWords == \A n \in Bytes : n \in Words
BY DEF Bytes, Words

(* An index added to an address.                                           *)
LEMMA Moved == ASSUME NEW n \in Words, NEW k \in Bytes PROVE Word(n + k) \in Words
BY DEF Word, Words, Bytes

(* Every addressing mode passes two bytes at most and finds an address;    *)
(* that of the zero page is a byte.                                        *)
LEMMA OperandFrom ==
  ASSUME NEW c, IsMachine(c), NEW mode \in Modes
  PROVE  \E n \in 0 .. 2, addr \in Words :
           /\ AddressingMode(mode, c) = Operand(c, n, addr)
           /\ mode = "Abs" => n = 2
           /\ mode = "Imp" => n = 0
           /\ mode = "Zp" => addr \in Bytes
<1> DEFINE Found(n, addr) ==
             /\ n \in 0 .. 2 /\ addr \in Words
             /\ AddressingMode(mode, c) = Operand(c, n, addr)
             /\ mode = "Abs" => n = 2
             /\ mode = "Imp" => n = 0
             /\ mode = "Zp" => addr \in Bytes
<1>1. c.pc \in Words /\ c.x \in Bytes /\ c.y \in Bytes /\ Read(c, c.pc) \in Bytes
  BY MachineIs, ReadTyped
<1>2. /\ Byte(Read(c, c.pc) + c.x) \in Bytes /\ Byte(Read(c, c.pc) + c.y) \in Bytes
  <2>1. \A p, q \in Bytes : Byte(p + q) \in Bytes
    BY DEF Byte, Bytes
  <2> QED
    BY <1>1, <2>1
<1>3. \A a \in Words : ReadWord(c, a) \in Words
  BY ReadTyped
<1>4. /\ ReadWord(c, c.pc) \in Words
      /\ ReadWord(c, ReadWord(c, c.pc)) \in Words
      /\ ReadWord(c, Byte(Read(c, c.pc) + c.x)) \in Words
      /\ ReadWord(c, Read(c, c.pc)) \in Words
  BY <1>1, <1>2, <1>3, BytesAreWords
<1>5. /\ Word(ReadWord(c, c.pc) + c.x) \in Words /\ Word(ReadWord(c, c.pc) + c.y) \in Words
      /\ Word(ReadWord(c, Read(c, c.pc)) + c.y) \in Words
  BY <1>1, <1>4, Moved
<1>6. 0 \in Words /\ 0 \in 0 .. 2 /\ 1 \in 0 .. 2 /\ 2 \in 0 .. 2
  BY DEF Words
<1>7. CASE mode \in {"Imp", "Acc"}
  <2>1. Found(0, 0)
    BY <1>6, <1>7 DEF AddressingMode, AMImplied, AMAccumulator
  <2> QED
    BY <2>1
<1>8. CASE mode \in {"Imm", "Rel"}
  <2>1. Found(1, c.pc)
    BY <1>1, <1>6, <1>8 DEF AddressingMode, AMImmediate, AMRelative
  <2> QED
    BY <2>1
<1>9. CASE mode = "Zp"
  <2>1. Found(1, Read(c, c.pc))
    BY <1>1, <1>6, <1>9, BytesAreWords DEF AddressingMode, AMZeroPage
  <2> QED
    BY <2>1
<1>10. CASE mode = "ZpX"
  <2>1. Found(1, Byte(Read(c, c.pc) + c.x))
    BY <1>2, <1>6, <1>10, BytesAreWords DEF AddressingMode, AMZeroPageX
  <2> QED
    BY <2>1
<1>11. CASE mode = "ZpY"
  <2>1. Found(1, Byte(Read(c, c.pc) + c.y))
    BY <1>2, <1>6, <1>11, BytesAreWords DEF AddressingMode, AMZeroPageY
  <2> QED
    BY <2>1
<1>12. CASE mode = "Abs"
  <2>1. Found(2, ReadWord(c, c.pc))
    BY <1>4, <1>6, <1>12 DEF AddressingMode, AMAbsolute
  <2> QED
    BY <2>1
<1>13. CASE mode = "AbsX"
  <2>1. Found(2, Word(ReadWord(c, c.pc) + c.x))
    BY <1>5, <1>6, <1>13 DEF AddressingMode, AMAbsoluteX
  <2> QED
    BY <2>1
<1>14. CASE mode = "AbsY"
  <2>1. Found(2, Word(ReadWord(c, c.pc) + c.y))
    BY <1>5, <1>6, <1>14 DEF AddressingMode, AMAbsoluteY
  <2> QED
    BY <2>1
<1>15. CASE mode = "Ind"
  <2>1. Found(2, ReadWord(c, ReadWord(c, c.pc)))
    BY <1>4, <1>6, <1>15 DEF AddressingMode, AMIndirect
  <2> QED
    BY <2>1
<1>16. CASE mode = "IndX"
  <2>1. Found(1, ReadWord(c, Byte(Read(c, c.pc) + c.x)))
    BY <1>4, <1>6, <1>16 DEF AddressingMode, AMIndexedIndirect
  <2> QED
    BY <2>1
<1>17. CASE mode = "IndY"
  <2>1. Found(1, Word(ReadWord(c, Read(c, c.pc)) + c.y))
    BY <1>5, <1>6, <1>17 DEF AddressingMode, AMIndirectIndexed
  <2> QED
    BY <2>1
<1> QED
  BY <1>7, <1>8, <1>9, <1>10, <1>11, <1>12, <1>13, <1>14, <1>15, <1>16, <1>17 DEF Modes

(* An addressing mode changes the program counter and the address only.    *)
LEMMA OperandIs ==
  ASSUME NEW c, IsMachine(c), NEW n \in 0 .. 2, NEW addr \in Words
  PROVE  LET d == Operand(c, n, addr)
         IN  /\ IsMachine(d) /\ d.opcode = c.opcode /\ d.extra = c.extra
             /\ d.status = c.status /\ d.beyond = c.beyond
             /\ d.s = c.s /\ d.a = c.a /\ d.carry = c.carry /\ d.mem = c.mem
             /\ Flags(d) = Flags(c)
             /\ d.address = addr /\ d.pc = Word(c.pc + n)
<1>1. Word(c.pc + n) \in Words
  <2>1. n \in Bytes
    BY DEF Bytes
  <2> QED
    BY <2>1, MachineIs, Moved
<1> QED
  BY <1>1 DEF Operand, Flags, IsMachine, Machines

(* The instructions that move the stack pointer are those that push, those *)
(* that pop, and TXS.                                                      *)
Pushing == {"JSR", "PHA", "PHP", "BRK"}
Popping == {"RTS", "PLA", "PLP", "RTI"}
Others  == Ops \ (Branches \cup Pushing \cup Popping \cup {"TXS"})

(* The instructions that leave the stack pointer and the extra cycles      *)
(* alone.                                                                  *)
LEMMA OthersKeep ==
  ASSUME NEW c, IsMachine(c), NEW op \in Others
  PROVE  Steady(c, Instruction(op, c))
<1>1. CASE op \in {"LDA", "LDX", "LDY", "TAX", "TAY", "TSX", "TXA", "TYA"}
  <2>1. Instruction(op, c) \in {LDA(c), LDX(c), LDY(c), TAX(c), TAY(c), TSX(c), TXA(c), TYA(c)}
    BY <1>1 DEF Instruction
  <2> QED
    BY <2>1, LoadsKeep
<1>2. CASE op \in {"STA", "STX", "STY", "INC", "DEC"}
  <2>1. Instruction(op, c) \in {STA(c), STX(c), STY(c), INC(c), DEC(c)}
    BY <1>2 DEF Instruction
  <2> QED
    BY <2>1, StoresKeep
<1>3. CASE op \in {"ADC", "SBC", "AND", "ORA", "EOR"}
  <2>1. Instruction(op, c) \in {ADC(c), SBC(c), AND(c), ORA(c), EOR(c)}
    BY <1>3 DEF Instruction
  <2> QED
    BY <2>1, ArithmeticKeeps, LogicKeeps
<1>4. CASE op \in {"CMP", "CPX", "CPY", "BIT"}
  <2>1. Instruction(op, c) \in {CMP(c), CPX(c), CPY(c), BIT(c)}
    BY <1>4 DEF Instruction
  <2> QED
    BY <2>1, ComparesKeep
<1>5. CASE op \in {"INX", "INY", "DEX", "DEY"}
  <2>1. Instruction(op, c) \in {INX(c), INY(c), DEX(c), DEY(c)}
    BY <1>5 DEF Instruction
  <2> QED
    BY <2>1, StepsKeep
<1>6. CASE op \in {"ASL", "LSR", "ROL", "ROR"}
  <2>1. Instruction(op, c) \in {ASL(c), LSR(c), ROL(c), ROR(c)}
    BY <1>6 DEF Instruction
  <2> QED
    BY <2>1, ShiftsKeep
<1>7. CASE op \in {"CLC", "CLD", "CLI", "CLV", "SEC", "SED", "SEI", "NOP"}
  <2>1. Instruction(op, c) \in {CLC(c), CLD(c), CLI(c), CLV(c), SEC(c), SED(c), SEI(c), NOP(c)}
    BY <1>7 DEF Instruction
  <2> QED
    BY <2>1, FlagsKeep
<1>8. CASE op = "JMP"
  BY <1>8, MovesKeep DEF Instruction
<1> QED
  BY <1>1, <1>2, <1>3, <1>4, <1>5, <1>6, <1>7, <1>8
     DEF Others, Ops, Branches, Pushing, Popping

(* The instructions by their names in the table.                           *)
LEMMA SavesRun ==
  ASSUME NEW c
  PROVE  /\ Instruction("JSR", c) = JSR(c) /\ Instruction("BRK", c) = BRK(c)
         /\ Instruction("PHA", c) = PHA(c) /\ Instruction("PHP", c) = PHP(c)
         /\ Instruction("RTS", c) = RTS(c) /\ Instruction("RTI", c) = RTI(c)
         /\ Instruction("PLA", c) = PLA(c) /\ Instruction("PLP", c) = PLP(c)
         /\ Instruction("TXS", c) = TXS(c)
         /\ Instruction("ADC", c) = ADC(c) /\ Instruction("SBC", c) = SBC(c)
BY DEF Instruction

(* Only a branch returns extra cycles, two at most.                        *)
LEMMA InstructionKeeps ==
  ASSUME NEW c, IsMachine(c), c.extra = 0, NEW op \in Ops
  PROVE  /\ Same(c, Instruction(op, c))
         /\ Instruction(op, c).extra \in 0 .. 2
         /\ op \notin Branches => Instruction(op, c).extra = 0
<1>1. CASE op \in Branches
  BY <1>1, BranchesKeep
<1>2. CASE op \in Others
  <2>1. Steady(c, Instruction(op, c))
    BY <1>2, OthersKeep
  <2> QED
    BY <1>2, <2>1 DEF Steady, Keeps, Others
<1>3. CASE op \in Pushing \cup Popping \cup {"TXS"}
  <2>1. Keeps(c, Instruction(op, c))
    <3>1. /\ Keeps(c, JSR(c)) /\ Keeps(c, BRK(c)) /\ Keeps(c, PHA(c)) /\ Keeps(c, PHP(c))
      BY SavesAre DEF Pushed
    <3>2. /\ Keeps(c, RTS(c)) /\ Keeps(c, RTI(c)) /\ Keeps(c, PLA(c)) /\ Keeps(c, PLP(c))
          /\ Keeps(c, TXS(c))
      BY PullsAre, ReturnsAre, MovesKeep
    <3> QED
      BY <1>3, <3>1, <3>2, SavesRun DEF Pushing, Popping
  <2>2. op \notin Branches
    BY <1>3 DEF Pushing, Popping, Branches
  <2> QED
    BY <2>1, <2>2 DEF Keeps
<1> QED
  BY <1>1, <1>2, <1>3 DEF Others

(* The machine o is ready to run the row when c has fetched its opcode and *)
(* its operand; After is what it becomes.                                  *)
Ready(c, o, row) ==
  /\ IsMachine(o) /\ o.extra = 0
  /\ o.s = c.s /\ o.a = c.a /\ o.carry = c.carry /\ o.mem = c.mem /\ Flags(o) = Flags(c)
  /\ row = opcodes[o.opcode] /\ Sound(row)
  /\ row[2] = "Abs" => o.pc = Word(Word(c.pc + 1) + 2)
  /\ row[2] = "Imp" => o.pc = Word(c.pc + 1)
  /\ row[2] = "Zp" => o.address \in Bytes

After(o, row) ==
  LET ran     == Instruction(row[1], o)
      penalty == IF Byte(ran.address) = 255 THEN row[4] ELSE 0
  IN  [ran EXCEPT !.cycles = Byte(row[3] + penalty + ran.extra)]

(* RunInstruction finds the operand of the row and runs it.                *)
LEMMA RunIs ==
  ASSUME NEW c, IsMachine(c), NEW opcode \in Bytes, opcodes[opcode] # <<>>
  PROVE  \E o : /\ Ready(c, o, opcodes[opcode])
                /\ RunInstruction(Fetch(c), opcode) = After(o, opcodes[opcode])
<1> DEFINE row == opcodes[opcode]
           f == [Fetch(c) EXCEPT !.opcode = opcode, !.extra = 0]
<1>1. Sound(row)
  BY Rows
<1>2. /\ IsMachine(f) /\ f.opcode = opcode /\ f.extra = 0
      /\ f.status = c.status /\ f.beyond = c.beyond
      /\ f.s = c.s /\ f.a = c.a /\ f.carry = c.carry /\ f.mem = c.mem
      /\ Flags(f) = Flags(c) /\ f.pc = Word(c.pc + 1)
  <2>1. Word(c.pc + 1) \in Words
    <3>1. 1 \in Bytes
      BY DEF Bytes
    <3> QED
      BY <3>1, MachineIs, Moved
  <2>2. 0 \in Bytes
    BY DEF Bytes
  <2> QED
    BY <2>1, <2>2 DEF Fetch, Flags, IsMachine, Machines
<1>3. RunInstruction(Fetch(c), opcode) = After(AddressingMode(row[2], f), row)
  BY DEF RunInstruction, After
<1> HIDE DEF row, f
<1>4. PICK n \in 0 .. 2, addr \in Words :
        /\ AddressingMode(row[2], f) = Operand(f, n, addr)
        /\ row[2] = "Abs" => n = 2
        /\ row[2] = "Imp" => n = 0
        /\ row[2] = "Zp" => addr \in Bytes
  BY <1>1, <1>2, OperandFrom DEF Sound
<1> DEFINE o == Operand(f, n, addr)
<1>5. /\ IsMachine(o) /\ o.opcode = f.opcode /\ o.extra = f.extra
      /\ o.status = f.status /\ o.beyond = f.beyond
      /\ o.s = f.s /\ o.a = f.a /\ o.carry = f.carry /\ o.mem = f.mem
      /\ Flags(o) = Flags(f)
      /\ o.address = addr /\ o.pc = Word(f.pc + n)
  BY <1>2, OperandIs
<1> HIDE DEF o
<1>6. row[2] = "Imp" => o.pc = Word(c.pc + 1)
  <2>1. f.pc \in Words /\ f.pc + 0 = f.pc /\ Word(f.pc) = f.pc
    BY <1>2, MachineIs, SmallWord DEF Words
  <2> QED
    BY <1>2, <1>4, <1>5, <2>1
<1>7. Ready(c, o, row)
  BY <1>1, <1>2, <1>4, <1>5, <1>6 DEF Ready, row
<1>8. AddressingMode(row[2], f) = o
  BY <1>4 DEF o
<1> QED
  BY <1>3, <1>7, <1>8 DEF row

(* Every instruction takes two to seven cycles.                            *)
LEMMA AfterIs ==
  ASSUME NEW c, NEW o, NEW row, Ready(c, o, row)
  PROVE  LET ran == Instruction(row[1], o)
             d   == After(o, row)
         IN  /\ IsMachine(d) /\ d.opcode = o.opcode /\ d.address = o.address
             /\ d.status = o.status /\ d.beyond = o.beyond
             /\ d.s = ran.s /\ d.mem = ran.mem /\ d.pc = ran.pc /\ d.a = ran.a
             /\ d.carry = ran.carry /\ d.overflow = ran.overflow /\ Flags(d) = Flags(ran)
             /\ d.cycles \in 2 .. 7 /\ d.cycles >= row[3]
<1> DEFINE ran     == Instruction(row[1], o)
           penalty == IF Byte(ran.address) = 255 THEN row[4] ELSE 0
           cycles  == Byte(row[3] + penalty + ran.extra)
           d       == After(o, row)
<1>1. /\ IsMachine(o) /\ o.extra = 0 /\ row[1] \in Ops
      /\ row[3] \in 2 .. 7 /\ row[4] \in 0 .. 1 /\ row[3] + row[4] <= 7
      /\ row[1] \in Branches => row[3] + row[4] <= 5
  BY DEF Ready, Sound
<1>2. /\ Same(o, ran) /\ ran.extra \in 0 .. 2 /\ (row[1] \notin Branches => ran.extra = 0)
  BY <1>1, InstructionKeeps
<1>3. d = [ran EXCEPT !.cycles = cycles]
  BY DEF After
<1>4. cycles \in 2 .. 7 /\ cycles >= row[3]
  <2>1. penalty \in 0 .. row[4]
    BY <1>1
  <2> HIDE DEF ran, penalty
  <2>2. row[3] + penalty + ran.extra \in 2 .. 7 /\ row[3] + penalty + ran.extra >= row[3]
    BY <1>1, <1>2, <2>1 DEF ran
  <2> QED
    BY <2>2 DEF Byte
<1> HIDE DEF ran, cycles, d
<1>5. cycles \in Bytes
  BY <1>4 DEF Bytes
<1>6. /\ IsMachine(d) /\ d.opcode = ran.opcode /\ d.address = ran.address
      /\ d.status = ran.status /\ d.beyond = ran.beyond
      /\ d.s = ran.s /\ d.mem = ran.mem /\ d.pc = ran.pc /\ d.a = ran.a
      /\ d.carry = ran.carry /\ d.overflow = ran.overflow /\ Flags(d) = Flags(ran)
      /\ d.cycles = cycles
  BY <1>2, <1>3, <1>5 DEF Same, Flags, IsMachine, Machines
<1> QED
  BY <1>2, <1>4, <1>6 DEF Same, ran, d

(* A step runs a row of the table on the operand that it has fetched.      *)
LEMMA StepIs ==
  ASSUME IsMachine(m), Step
  PROVE  \E o, row : /\ Ready(m, o, row) /\ m' = After(o, row)
                     /\ RanRow = row /\ RanOn = Value(o)
                     /\ Track(row[1], m'.mem)
<1>1. PICK status \in Status, beyond \in Beyond :
        LET c      == [m EXCEPT !.status = status, !.beyond = beyond]
            opcode == Read(c, c.pc)
        IN  /\ opcodes[opcode] # <<>>
            /\ m' = RunInstruction(Fetch(c), opcode)
            /\ Track(opcodes[opcode][1], m'.mem)
  BY DEF Step
<1> DEFINE c      == [m EXCEPT !.status = status, !.beyond = beyond]
           opcode == Read(c, c.pc)
           row    == opcodes[opcode]
<1>2. /\ IsMachine(c) /\ c.s = m.s /\ c.a = m.a /\ c.carry = m.carry /\ c.mem = m.mem
      /\ Flags(c) = Flags(m) /\ c.pc = m.pc
  <2>1. status \in Bytes /\ beyond \in Bytes
    BY MachineAssumption
  <2> QED
    BY <2>1 DEF Flags, IsMachine, Machines
<1>3. row # <<>> /\ m' = RunInstruction(Fetch(c), opcode) /\ Track(row[1], m'.mem)
  BY <1>1
<1> HIDE DEF c
<1>4. opcode \in Bytes
  BY <1>2, MachineIs, ReadTyped
<1>5. PICK o : Ready(c, o, row) /\ RunInstruction(Fetch(c), opcode) = After(o, row)
  BY <1>2, <1>3, <1>4, RunIs
<1> HIDE DEF opcode
<1>6. Ready(m, o, row) /\ m' = After(o, row)
  BY <1>2, <1>3, <1>5 DEF Ready
<1>7. m'.opcode = o.opcode /\ m'.address = o.address /\ m'.status = o.status
  BY <1>6, AfterIs
<1>8. RanRow = row
  BY <1>6, <1>7 DEF RanRow, Ready
<1>9. RanOn = Value(o)
  <2>1. m'.status \in Bytes
    BY <1>6, <1>7, MachineIs DEF Ready
  <2>2. [m EXCEPT !.status = m'.status].status = o.status
    BY <1>7 DEF IsMachine, Machines
  <2>3. [m EXCEPT !.status = m'.status].mem = o.mem
    BY <1>6 DEF IsMachine, Machines, Ready
  <2> QED
    BY <1>7, <2>2, <2>3 DEF RanOn, Value, Read
<1> QED
  BY <1>3, <1>6, <1>8, <1>9

(* An instruction has run in no step but Step.                             *)
LEMMA RanIsStep == ASSUME steps \in Nat, Ran, [Next]_vars PROVE Step
BY DEF Ran, Next, Stop, Crash, CallAgain, vars

-----------------------------------------------------------------------------
(* The cycles.                                                             *)

(* The cycles of a step: only a store to the zero page takes less than     *)
(* four, and there are no sound registers.                                 *)
LEMMA CyclesStep ==
  ASSUME IsMachine(m), Step
  PROVE  /\ m'.cycles \in 2 .. 7
         /\ RanRow[1] \in Stores /\ RanRow[2] # "Acc" /\ IsSoundRegister(m'.address)
              => m'.cycles >= 4
<1>1. PICK o, row : Ready(m, o, row) /\ m' = After(o, row) /\ RanRow = row
  BY StepIs
<1>2. m'.address = o.address /\ m'.cycles \in 2 .. 7 /\ m'.cycles >= row[3]
  BY <1>1, AfterIs
<1>3. ASSUME row[2] = "Zp" PROVE ~IsSoundRegister(m'.address)
  BY <1>1, <1>2, <1>3, Layout DEF Ready, Bytes, IsSoundRegister
<1>4. row[1] \in Stores /\ row[2] # "Acc" => row[3] >= 4 \/ row[2] = "Zp"
  BY <1>1 DEF Ready, Sound
<1>5. row[3] \in Int
  BY <1>1 DEF Ready, Sound
<1> QED
  BY <1>1, <1>2, <1>3, <1>4, <1>5

-----------------------------------------------------------------------------
(* The arithmetic.                                                         *)

(* The sum of two bytes and a carry: its byte, its carry and, from the     *)
(* signs, whether the signed sum is out of range.                          *)
LEMMA SumIs ==
  ASSUME NEW a \in Bytes, NEW w \in Bytes, NEW c \in 0 .. 1
  PROVE  LET sum == a + w + c
         IN  /\ Byte(sum) \in Bytes
             /\ 256 * Number(sum > 255) + Byte(sum) = sum
             /\ Signed(a) + Signed(w) + c \notin -128 .. 127
                  <=> /\ Bit(a, 7) # Bit(Byte(sum), 7)
                      /\ Bit(w, 7) # Bit(Byte(sum), 7)
<1> DEFINE sum == a + w + c
           r == Byte(sum)
<1>1. a \in Nat /\ a < 256 /\ w \in Nat /\ w < 256
  BY DEF Bytes
<1>2. r = IF sum > 255 THEN sum - 256 ELSE sum
  BY <1>1 DEF Byte
<1>3. r \in Bytes
  BY <1>1, Wrapped
<1>4. 256 * Number(sum > 255) + r = sum
  BY <1>1, <1>2 DEF Number
<1> HIDE DEF r
<1>5. /\ Bit(a, 7) <=> a >= 128
      /\ Bit(w, 7) <=> w >= 128
      /\ Bit(r, 7) <=> r >= 128
  BY <1>3, SignIs
<1>6. /\ Signed(a) = IF a >= 128 THEN a - 256 ELSE a
      /\ Signed(w) = IF w >= 128 THEN w - 256 ELSE w
  BY DEF Signed
<1>7. Signed(a) + Signed(w) + c \notin -128 .. 127
        <=> ~(a >= 128 <=> r >= 128) /\ ~(w >= 128 <=> r >= 128)
  BY <1>1, <1>2, <1>6
<1>8. Bit(a, 7) \in BOOLEAN /\ Bit(w, 7) \in BOOLEAN /\ Bit(r, 7) \in BOOLEAN
  BY BitTyped
<1>9. /\ Bit(a, 7) # Bit(r, 7) <=> ~(a >= 128 <=> r >= 128)
      /\ Bit(w, 7) # Bit(r, 7) <=> ~(w >= 128 <=> r >= 128)
  BY <1>5, <1>8
<1> QED
  BY <1>3, <1>4, <1>7, <1>9 DEF r

(* ADC leaves the sum of accumulator, operand and carry.                   *)
LEMMA ADCIs ==
  ASSUME NEW c, IsMachine(c)
  PROVE  LET n == Number(c.carry)
             d == ADC(c)
         IN  /\ 256 * Number(d.carry) + d.a = c.a + Value(c) + n
             /\ d.overflow = (Signed(c.a) + Signed(Value(c)) + n \notin -128 .. 127)
<1> DEFINE n == Number(c.carry)
           a == c.a
           v == Value(c)
           sum == a + v + n
           r == Byte(sum)
           d == ADC(c)
           carry == sum > 255
           over == Bit(a, 7) # Bit(r, 7) /\ Bit(v, 7) # Bit(r, 7)
<1>1. a \in Bytes /\ v \in Bytes /\ n \in 0 .. 1
  BY MachineIs, ValueTyped, NumberIs
<1>2. d = [SetA(c, r) EXCEPT !.carry = carry, !.overflow = over]
  BY DEF ADC
<1> HIDE DEF n, a, v, d
<1>3. /\ r \in Bytes
      /\ 256 * Number(carry) + r = sum
      /\ Signed(a) + Signed(v) + n \notin -128 .. 127 <=> over
  BY <1>1, SumIs
<1>4. carry \in BOOLEAN /\ over \in BOOLEAN
  OBVIOUS
<1> HIDE DEF r, carry, over
<1>5. d.a = r /\ d.carry = carry /\ d.overflow = over
  <2>1. SetA(c, r).a = r /\ IsMachine(SetA(c, r))
    BY <1>3, SetRegisterKeeps DEF Steady, Keeps, Same
  <2> QED
    BY <1>2, <2>1 DEF IsMachine, Machines
<1>6. d.overflow = (Signed(a) + Signed(v) + n \notin -128 .. 127)
  BY <1>3, <1>4, <1>5
<1>7. 256 * Number(d.carry) + d.a = sum
  BY <1>3, <1>5
<1> QED
  BY <1>6, <1>7 DEF n, a, v, d

(* SBC leaves the sum of accumulator, complement of the operand and carry. *)
LEMMA SBCIs ==
  ASSUME NEW c, IsMachine(c)
  PROVE  LET n == Number(c.carry)
             w == 255 - Value(c)
             d == SBC(c)
         IN  /\ 256 * Number(d.carry) + d.a = c.a + w + n
             /\ d.overflow = (Signed(c.a) + Signed(w) + n \notin -128 .. 127)
<1> DEFINE n == Number(c.carry)
           a == c.a
           v == Value(c)
           w == 255 - v
           sum == a + w + n
           borrow     == 1 - n
           difference == Signed(a) - Signed(v) - borrow
           r == Byte(a - v - borrow)
           carry == a >= v + borrow
           over == difference > 127 \/ difference < -128
           d == SBC(c)
<1>1. a \in Bytes /\ v \in Bytes /\ n \in 0 .. 1
  BY MachineIs, ValueTyped, NumberIs
<1>2. d = [SetA(c, r) EXCEPT !.carry = carry, !.overflow = over]
  BY DEF SBC
<1> HIDE DEF n, a, v, d
<1>3. w \in Bytes /\ r = Byte(sum) /\ (carry <=> sum > 255)
  <2>1. a \in Nat /\ a < 256 /\ v \in Nat /\ v < 256
    BY <1>1 DEF Bytes
  <2>2. a - v - borrow = sum - 256
    BY <1>1, <2>1
  <2>3. Byte(sum - 256) = Byte(sum)
    BY <1>1, <2>1 DEF Byte
  <2> QED
    BY <1>1, <2>1, <2>2, <2>3 DEF Bytes
<1>4. difference = Signed(a) + Signed(w) + n /\ difference \in Int
  <2>1. Signed(w) = -1 - Signed(v) /\ Signed(a) \in Int /\ Signed(v) \in Int
    BY <1>1 DEF Signed, Bytes
  <2> QED
    BY <1>1, <2>1
<1> HIDE DEF w, difference, r, carry
<1>5. /\ r \in Bytes
      /\ 256 * Number(sum > 255) + r = sum
  BY <1>1, <1>3, SumIs
<1>6. over <=> Signed(a) + Signed(w) + n \notin -128 .. 127
  BY <1>4
<1>7. carry \in BOOLEAN /\ over \in BOOLEAN
  BY DEF carry
<1> HIDE DEF over
<1>8. d.a = r /\ d.carry = carry /\ d.overflow = over
  <2>1. SetA(c, r).a = r /\ IsMachine(SetA(c, r))
    BY <1>5, SetRegisterKeeps DEF Steady, Keeps, Same
  <2> QED
    BY <1>2, <2>1 DEF IsMachine, Machines
<1>9. d.overflow = (Signed(a) + Signed(w) + n \notin -128 .. 127)
  BY <1>6, <1>7, <1>8
<1>10. 256 * Number(d.carry) + d.a = sum
  <2>1. Number(d.carry) = Number(sum > 255)
    BY <1>3, <1>8 DEF Number
  <2> QED
    BY <1>5, <1>8, <2>1
<1> QED
  BY <1>9, <1>10 DEF n, a, v, w, d

(* A step that runs ADC or SBC.                                            *)
LEMMA ArithmeticStep ==
  ASSUME IsMachine(m), Step, RanRow[1] \in {"ADC", "SBC"}
  PROVE  LET w == IF RanRow[1] = "ADC" THEN RanOn ELSE 255 - RanOn
             c == Number(m.carry)
         IN  /\ 256 * Number(m'.carry) + m'.a = m.a + w + c
             /\ m'.overflow = (Signed(m.a) + Signed(w) + c \notin -128 .. 127)
<1>1. PICK o, row :
        Ready(m, o, row) /\ m' = After(o, row) /\ RanRow = row /\ RanOn = Value(o)
  BY StepIs
<1>2. /\ m'.a = Instruction(row[1], o).a /\ m'.carry = Instruction(row[1], o).carry
      /\ m'.overflow = Instruction(row[1], o).overflow
  BY <1>1, AfterIs
<1>3. IsMachine(o) /\ o.a = m.a /\ o.carry = m.carry
  BY <1>1 DEF Ready
<1>4. CASE row[1] = "ADC"
  BY <1>1, <1>2, <1>3, <1>4, ADCIs, SavesRun
<1>5. CASE row[1] = "SBC"
  BY <1>1, <1>2, <1>3, <1>5, SBCIs, SavesRun
<1> QED
  BY <1>1, <1>4, <1>5

-----------------------------------------------------------------------------
(* The inductive invariant: what every entry has saved is on the stack.    *)

(* The bytes that the instruction that made the entry pushed.              *)
SavedBytes(e) ==
  LET w == Word(e.pc - 1)
  IN  CASE e.by = "JSR" -> <<w \div 256, Byte(w)>>
        [] e.by = "PHA" -> <<e.a>>
        [] e.by = "PHP" -> <<StatusOf(e.flags)>>
        [] e.by = "BRK" -> <<e.pc \div 256, Byte(e.pc), StatusOf(e.flags)>>

IsEntry(e) ==
  /\ e.by \in Pushing /\ e.depth \in Int
  /\ e.s \in Bytes /\ e.a \in Bytes /\ e.flags \in FlagSets /\ e.pc \in Words

OnStack(e, mem) ==
  \A k \in 0 .. Pushes[e.by] - 1 : Cell(mem, Down(e.s, k)) = SavedBytes(e)[k + 1]

Standing(e, s, mem, d) ==
  /\ IsEntry(e) /\ Kept(e, d)
  /\ s = Byte(e.s - (d - e.depth))
  /\ OnStack(e, mem)

Typed ==
  /\ IsMachine(m) /\ steps \in Nat /\ depth \in Int
  /\ state \in {"running", "stopped", "crashed"}

IInv == Typed /\ \A e \in saved : Standing(e, m.s, m.mem, depth)

(* How many bytes each instruction pushes or pops, and what undoes what.   *)
LEMMA PushesAre ==
  /\ DOMAIN Pushes = Pushing /\ DOMAIN Pops = Popping /\ DOMAIN Undo = Pushing
  /\ Pushes["JSR"] = 2 /\ Pushes["PHA"] = 1 /\ Pushes["PHP"] = 1 /\ Pushes["BRK"] = 3
  /\ Pops["RTS"] = 2 /\ Pops["PLA"] = 1 /\ Pops["PLP"] = 1 /\ Pops["RTI"] = 3
  /\ Undo["JSR"] = "RTS" /\ Undo["PHA"] = "PLA" /\ Undo["PHP"] = "PLP" /\ Undo["BRK"] = "RTI"
  /\ \A op \in Pushing : Pushes[op] \in 1 .. 3
  /\ \A op \in Popping : Pops[op] \in 1 .. 3
BY DEF Pushes, Pops, Undo, Pushing, Popping

(* An entry stands while the stack pointer moves with the depth and its    *)
(* bytes are left alone.                                                   *)
LEMMA StandsOn ==
  ASSUME NEW e, NEW s, NEW mem, NEW d \in Int, Standing(e, s, mem, d),
         NEW n \in Int, NEW t, t = Byte(s - n), Kept(e, d + n),
         NEW new, OnStack(e, new)
  PROVE  Standing(e, t, new, d + n)
<1>1. e.s \in Int /\ e.depth \in Int /\ IsEntry(e)
  BY DEF Standing, IsEntry, Bytes
<1>2. s = Byte(e.s - (d - e.depth))
  BY DEF Standing
<1>3. /\ e.s - (d - e.depth) \in Int
      /\ (e.s - (d - e.depth)) - n = e.s - (d + n - e.depth)
  BY <1>1
<1>4. t = Byte(e.s - (d + n - e.depth))
  BY <1>2, <1>3, ByteAgain
<1> QED
  BY <1>1, <1>4 DEF Standing

(* What the stack page holds stays.                                        *)
LEMMA OnStackKept ==
  ASSUME NEW e, IsEntry(e), NEW mem, OnStack(e, mem), NEW new,
         \A a \in StackPage : Cell(new, a) = Cell(mem, a)
  PROVE  OnStack(e, new)
<1>1. \A k \in 0 .. Pushes[e.by] - 1 : Down(e.s, k) \in StackPage
  <2>1. \A k \in 0 .. Pushes[e.by] - 1 : k \in Int
    OBVIOUS
  <2> QED
    BY <2>1, DownIs DEF IsEntry
<1> QED
  BY <1>1 DEF OnStack

(* Pushing bytes does not touch those of an entry that is kept.            *)
LEMMA OnStackPushed ==
  ASSUME NEW c, NEW d, NEW bytes, NEW n \in 1 .. 3, Pushed(c, d, bytes, n),
         NEW e, NEW depth0 \in Int, Standing(e, c.s, c.mem, depth0), Kept(e, depth0 + n)
  PROVE  OnStack(e, d.mem)
<1>1. /\ e.s \in Int /\ e.s \in Bytes /\ e.depth \in Int /\ Pushes[e.by] \in 1 .. 3
      /\ e.by \in Pushing
  BY PushesAre DEF Standing, IsEntry, Bytes
<1> SUFFICES ASSUME NEW k \in 0 .. Pushes[e.by] - 1
             PROVE  Cell(d.mem, Down(e.s, k)) = SavedBytes(e)[k + 1]
  BY DEF OnStack
<1>2. Cell(c.mem, Down(e.s, k)) = SavedBytes(e)[k + 1]
  BY DEF Standing, OnStack
<1>3. k \in Int /\ Down(e.s, k) \in StackPage
  BY <1>1, DownIs
<1>4. ASSUME NEW j \in 0 .. n - 1 PROVE Down(e.s, k) # Down(c.s, j)
  <2> DEFINE i == depth0 - e.depth + j
  <2>1. i \in Int /\ k < i /\ i < 256 /\ j \in Int /\ k >= 0
    BY <1>1 DEF Standing, Kept
  <2>2. Byte(c.s - j) = Byte(e.s - i)
    <3>1. c.s = Byte(e.s - (depth0 - e.depth))
      BY DEF Standing
    <3>2. /\ e.s - (depth0 - e.depth) \in Int
          /\ (e.s - (depth0 - e.depth)) - j = e.s - i
      BY <1>1, <2>1
    <3> QED
      BY <2>1, <3>1, <3>2, ByteAgain
  <2> HIDE DEF i
  <2>3. Byte(e.s - k) # Byte(e.s - i)
    BY <1>1, <1>3, <2>1 DEF Byte, Bytes
  <2>4. Byte(e.s - k) \in Int /\ Byte(e.s - i) \in Int
    <3>1. e.s - k \in Int /\ e.s - i \in Int
      BY <1>1, <1>3, <2>1
    <3> QED
      BY <3>1, Wrapped DEF Bytes
  <2> QED
    BY <2>2, <2>3, <2>4 DEF Down
<1> QED
  BY <1>2, <1>3, <1>4 DEF Pushed

(* What an instruction that saves something pushes is what it remembers.   *)
LEMMA RememberedIs ==
  ASSUME IsMachine(m), depth \in Int, NEW o, NEW row, Ready(m, o, row), row[1] \in Pushing
  PROVE  LET e   == Remember(row[1])
             ran == Instruction(row[1], o)
         IN  /\ IsEntry(e) /\ e.by = row[1] /\ e.s = m.s /\ e.depth = depth
             /\ Pushed(o, ran, SavedBytes(e), Pushes[row[1]])
<1> DEFINE op  == row[1]
           e   == Remember(op)
           ran == Instruction(op, o)
<1>1. /\ IsMachine(o) /\ o.s = m.s /\ o.a = m.a /\ Flags(o) = Flags(m)
      /\ op = "JSR" => o.pc = Word(Word(m.pc + 1) + 2)
      /\ op = "BRK" => o.pc = Word(m.pc + 1)
  BY DEF Ready, Sound
<1>2. /\ m.pc \in Int /\ m.s \in Bytes /\ m.a \in Bytes /\ Flags(m) \in FlagSets
  BY MachineIs, StatusIs DEF Words
<1>3. /\ Word(m.pc + 3) \in Words /\ Word(m.pc + 2) \in Words
      /\ Word(Word(m.pc + 1) + 2) = Word(m.pc + 3)
      /\ Word(Word(m.pc + 1) + 1) = Word(m.pc + 2)
  <2>1. Word(m.pc + 3) \in Words /\ Word(m.pc + 2) \in Words
    <3>1. m.pc + 3 \in Int /\ m.pc + 2 \in Int
      BY <1>2
    <3> QED
      BY <3>1, Wrapped
  <2> QED
    BY <1>2, <2>1 DEF Word
<1>4. /\ e.by = op /\ e.s = m.s /\ e.depth = depth /\ e.a = m.a /\ e.flags = Flags(m)
      /\ e.pc = Word(m.pc + IF op = "JSR" THEN 3 ELSE 2)
  BY DEF Remember
<1> HIDE DEF e
<1>5. IsEntry(e)
  <2>1. e.pc \in Words
    BY <1>3, <1>4
  <2> QED
    BY <1>2, <1>4, <2>1 DEF IsEntry
<1>6. Pushed(o, ran, SavedBytes(e), Pushes[op])
  <2>1. CASE op = "JSR"
    <3>1. o.pc = e.pc
      BY <1>1, <1>3, <1>4, <2>1
    <3>2. SavedBytes(e) = <<Word(e.pc - 1) \div 256, Byte(Word(e.pc - 1))>>
      BY <1>4, <2>1 DEF SavedBytes
    <3> QED
      BY <1>1, <2>1, <3>1, <3>2, SavesAre, SavesRun, PushesAre
  <2>2. CASE op = "BRK"
    <3>1. Word(o.pc + 1) = e.pc
      BY <1>1, <1>3, <1>4, <2>2
    <3>2. SavedBytes(e) = <<e.pc \div 256, Byte(e.pc), StatusOf(e.flags)>>
      BY <1>4, <2>2 DEF SavedBytes
    <3> QED
      BY <1>1, <1>4, <2>2, <3>1, <3>2, SavesAre, SavesRun, PushesAre
  <2>3. CASE op = "PHA"
    <3>1. SavedBytes(e) = <<e.a>>
      BY <1>4, <2>3 DEF SavedBytes
    <3> QED
      BY <1>1, <1>4, <2>3, <3>1, SavesAre, SavesRun, PushesAre
  <2>4. CASE op = "PHP"
    <3>1. SavedBytes(e) = <<StatusOf(e.flags)>>
      BY <1>4, <2>4 DEF SavedBytes
    <3> QED
      BY <1>1, <1>4, <2>4, <3>1, SavesAre, SavesRun, PushesAre
  <2> QED
    BY <2>1, <2>2, <2>3, <2>4 DEF Pushing
<1> QED
  BY <1>4, <1>5, <1>6 DEF e

(* An instruction that pushes nothing moves the stack pointer by the bytes *)
(* it pops; TXS aside, which sets it.                                      *)
LEMMA PointerIs ==
  ASSUME NEW o, IsMachine(o), o.extra = 0, NEW op \in Ops \ (Pushing \cup {"TXS"})
  PROVE  LET n == IF op \in Popping THEN Pops[op] ELSE 0
         IN  Instruction(op, o).s = Byte(o.s + n)
<1>1. CASE op \in Popping
  <2>1. op \in {"RTS", "RTI", "PLA", "PLP"}
    BY <1>1 DEF Popping
  <2> QED
    BY <1>1, <2>1, PullsAre, ReturnsAre, SavesRun, PushesAre
<1>2. CASE op \notin Popping
  <2>1. Instruction(op, o).s = o.s
    <3>1. op \in Branches \/ op \in Others
      BY <1>2 DEF Others
    <3> QED
      BY <3>1, BranchesKeep, OthersKeep DEF Steady
  <2>2. o.s \in Bytes /\ o.s + 0 = o.s /\ Byte(o.s) = o.s
    BY MachineIs, SmallByte DEF Bytes
  <2> QED
    BY <1>2, <2>1, <2>2
<1> QED
  BY <1>1, <1>2

(* Every entry that is kept over an instruction stands after it.           *)
LEMMA StandingStep ==
  ASSUME IInv, Step
  PROVE  \A e \in saved' : Standing(e, m'.s, m'.mem, depth')
<1>1. IsMachine(m) /\ depth \in Int /\ \A e \in saved : Standing(e, m.s, m.mem, depth)
  BY DEF IInv, Typed
<1>2. PICK o, row : Ready(m, o, row) /\ m' = After(o, row) /\ Track(row[1], m'.mem)
  BY <1>1, StepIs
<1> DEFINE op  == row[1]
           ran == Instruction(op, o)
<1>3. /\ IsMachine(o) /\ o.extra = 0 /\ o.s = m.s /\ o.mem = m.mem /\ op \in Ops
  BY <1>2 DEF Ready, Sound
<1>4. m'.s = ran.s /\ m'.mem = ran.mem
  BY <1>2, AfterIs
<1> HIDE DEF op
<1>5. SUFFICES ASSUME NEW e \in saved' PROVE Standing(e, m'.s, m'.mem, depth')
  OBVIOUS
<1>6. CASE op = "TXS"
  BY <1>2, <1>6 DEF Track, op
<1>7. CASE op \in Pushing
  <2> DEFINE n == Pushes[op]
             entry == Remember(op)
  <2>1. n \in 1 .. 3 /\ depth' = depth + n
    <3>1. op \notin Popping
      BY <1>7 DEF Pushing, Popping
    <3>2. depth' = depth + n - 0
      BY <1>2, <1>7, <3>1, PushesAre DEF Track, op
    <3> QED
      BY <1>1, <1>7, <3>2, PushesAre
  <2>2. Kept(e, depth') /\ (e \in saved \/ e = entry)
    <3>1. op # "TXS"
      BY <1>7 DEF Pushing
    <3> QED
      BY <1>2, <1>7, <3>1, PushesAre DEF Track, op
  <2>3. /\ IsEntry(entry) /\ entry.by = op /\ entry.s = m.s /\ entry.depth = depth
        /\ Pushed(o, ran, SavedBytes(entry), n)
    BY <1>1, <1>2, <1>7, RememberedIs DEF op
  <2>4. m'.s = Byte(m.s - n)
    BY <1>3, <1>4, <2>3 DEF Pushed
  <2> HIDE DEF n, entry, ran
  <2>5. CASE e = entry
    <3>1. OnStack(e, m'.mem)
      BY <1>3, <1>4, <2>3, <2>5 DEF Pushed, OnStack, n
    <3>2. depth' - e.depth = n
      BY <1>1, <2>1, <2>3, <2>5
    <3>3. m'.s = Byte(e.s - (depth' - e.depth)) /\ IsEntry(e)
      BY <2>3, <2>4, <2>5, <3>2
    <3> QED
      BY <2>2, <3>1, <3>3 DEF Standing
  <2>6. CASE e \in saved
    <3>1. Standing(e, m.s, m.mem, depth) /\ Kept(e, depth + n)
      BY <1>1, <2>1, <2>2, <2>6
    <3>2. OnStack(e, m'.mem)
      BY <1>1, <1>3, <1>4, <2>1, <2>3, <3>1, OnStackPushed
    <3>3. n \in Int
      BY <2>1
    <3> QED
      BY <1>1, <2>1, <2>4, <3>1, <3>2, <3>3, StandsOn
  <2> QED
    BY <2>2, <2>5, <2>6
<1>8. CASE op \notin Pushing \cup {"TXS"}
  <2> DEFINE n == IF op \in Popping THEN Pops[op] ELSE 0
  <2>1. n \in 0 .. 3 /\ depth' = depth + (-n)
    <3>1. n \in 0 .. 3
      BY PushesAre
    <3>2. depth' = depth + 0 - n
      BY <1>2, <1>8, PushesAre DEF Track, op
    <3> HIDE DEF n
    <3> QED
      BY <1>1, <3>1, <3>2
  <2>2. e \in saved /\ Kept(e, depth') /\ ~StackChanged(m'.mem)
    BY <1>2, <1>8, PushesAre DEF Track, op
  <2>3. m'.s = Byte(m.s - (-n))
    <3>1. m'.s = Byte(m.s + n)
      BY <1>3, <1>4, <1>8, PointerIs
    <3>2. m.s + n = m.s - (-n)
      <4>1. m.s \in Int
        BY <1>1, MachineIs DEF Bytes
      <4> HIDE DEF n
      <4> QED
        BY <2>1, <4>1
    <3> QED
      BY <3>1, <3>2
  <2> HIDE DEF n
  <2>4. Standing(e, m.s, m.mem, depth)
    BY <1>1, <2>2
  <2>5. OnStack(e, m'.mem)
    BY <2>2, <2>4, OnStackKept DEF Standing, StackChanged
  <2>6. -n \in Int /\ Kept(e, depth + (-n))
    BY <2>1, <2>2
  <2> QED
    BY <1>1, <2>1, <2>3, <2>4, <2>5, <2>6, StandsOn
<1> QED
  BY <1>6, <1>7, <1>8

(* The instruction that undoes the latest entry restores it.               *)
LEMMA RestoredStep ==
  ASSUME IInv, Step, NEW e \in saved, RanRow[1] = Undo[e.by],
         depth = e.depth + Pushes[e.by]
  PROVE  Restored(e)
<1>1. IsMachine(m) /\ depth \in Int /\ Standing(e, m.s, m.mem, depth)
  BY DEF IInv, Typed
<1>2. PICK o, row : Ready(m, o, row) /\ m' = After(o, row) /\ RanRow = row
  BY <1>1, StepIs
<1> DEFINE op  == row[1]
           ran == Instruction(op, o)
           n   == Pushes[e.by]
<1>3. /\ IsMachine(o) /\ o.s = m.s /\ o.mem = m.mem
  BY <1>2 DEF Ready
<1>4. m'.s = ran.s /\ m'.pc = ran.pc /\ m'.a = ran.a /\ Flags(m') = Flags(ran)
  BY <1>2, AfterIs
<1>5. op = Undo[e.by]
  BY <1>2
<1> HIDE DEF ran
<1>6. /\ e.by \in Pushing /\ n \in 1 .. 3 /\ e.depth \in Int
      /\ e.s \in Bytes /\ e.s \in Int /\ e.pc \in Words /\ e.flags \in FlagSets
  BY <1>1, PushesAre DEF Standing, IsEntry, Bytes
<1> HIDE DEF op
<1>7. m.s = Byte(e.s - n)
  <2>1. depth - e.depth = n
    BY <1>6
  <2> QED
    BY <1>1, <2>1 DEF Standing
<1>8. ASSUME NEW k \in 1 .. n PROVE Top(o, k) = SavedBytes(e)[n - k + 1]
  <2>1. /\ e.s - n \in Int /\ k \in Int /\ (e.s - n) + k = e.s - (n - k)
        /\ n - k \in 0 .. n - 1
    BY <1>6
  <2>2. Byte(m.s + k) = Byte(e.s - (n - k))
    BY <1>7, <2>1, ByteAgain
  <2>3. Top(o, k) = Cell(m.mem, Down(e.s, n - k))
    BY <1>3, <2>2 DEF Top, Down
  <2> QED
    BY <1>1, <2>1, <2>3 DEF Standing, OnStack
<1>9. Byte(m.s + n) = e.s
  <2>1. e.s - n \in Int /\ n \in Int /\ (e.s - n) + n = e.s
    BY <1>6
  <2>2. Byte(Byte(e.s - n) + n) = Byte((e.s - n) + n)
    BY <2>1, ByteAgain
  <2>3. Byte(e.s) = e.s
    BY <1>6, SmallByte
  <2> QED
    BY <1>7, <2>1, <2>2, <2>3
<1>10. CASE e.by = "JSR"
  <2> DEFINE w == Word(e.pc - 1)
  <2>1. op = "RTS" /\ n = 2
    BY <1>5, <1>10, PushesAre
  <2>2. /\ ran = RTS(o)
    BY <2>1, SavesRun DEF ran
  <2>3. SavedBytes(e) = <<w \div 256, Byte(w)>>
    BY <1>10 DEF SavedBytes
  <2> HIDE DEF w
  <2>4. SavedBytes(e)[1] = w \div 256 /\ SavedBytes(e)[2] = Byte(w)
    BY <2>3
  <2>5. Top(o, 1) = Byte(w) /\ Top(o, 2) = w \div 256
    <3>1. 1 \in 1 .. n /\ 2 \in 1 .. n /\ n - 1 + 1 = 2 /\ n - 2 + 1 = 1
      BY <2>1
    <3> QED
      BY <1>8, <2>4, <3>1
  <2>6. w \in Words /\ Word(w + 1) = e.pc
    <3>1. e.pc \in Nat /\ e.pc < 65536
      BY <1>6 DEF Words
    <3>2. w = IF e.pc = 0 THEN 65535 ELSE e.pc - 1
      BY <3>1 DEF w, Word
    <3> QED
      BY <3>1, <3>2 DEF Word, Words
  <2>7. Byte(w) + 256 * (w \div 256) + 1 = w + 1
    <3>1. w \in Int /\ w \div 256 \in Int /\ Byte(w) \in Int
      BY <2>6 DEF Words, Byte
    <3> HIDE DEF w
    <3>2. 256 * (w \div 256) + Byte(w) = w
      BY <2>6, SmallWord
    <3> QED
      BY <3>1, <3>2
  <2>8. m'.pc = e.pc
    <3>1. ran.pc = Word(Top(o, 1) + 256 * Top(o, 2) + 1)
      BY <1>3, <2>2, ReturnsAre
    <3> QED
      BY <1>4, <2>5, <2>6, <2>7, <3>1
  <2>9. m'.s = e.s
    BY <1>3, <1>4, <1>9, <2>1, <2>2, ReturnsAre
  <2> QED
    BY <1>10, <2>8, <2>9 DEF Restored
<1>11. CASE e.by = "BRK"
  <2>1. op = "RTI" /\ n = 3
    BY <1>5, <1>11, PushesAre
  <2>2. /\ ran = RTI(o)
    BY <2>1, SavesRun DEF ran
  <2>3. SavedBytes(e) = <<e.pc \div 256, Byte(e.pc), StatusOf(e.flags)>>
    BY <1>11 DEF SavedBytes
  <2>4. /\ SavedBytes(e)[1] = e.pc \div 256 /\ SavedBytes(e)[2] = Byte(e.pc)
        /\ SavedBytes(e)[3] = StatusOf(e.flags)
    BY <2>3
  <2>5. Top(o, 1) = StatusOf(e.flags) /\ Top(o, 2) = Byte(e.pc) /\ Top(o, 3) = e.pc \div 256
    <3>1. /\ 1 \in 1 .. n /\ 2 \in 1 .. n /\ 3 \in 1 .. n
          /\ n - 1 + 1 = 3 /\ n - 2 + 1 = 2 /\ n - 3 + 1 = 1
      BY <2>1
    <3> QED
      BY <1>8, <2>4, <3>1
  <2>6. Byte(e.pc) + 256 * (e.pc \div 256) = e.pc
    <3>1. e.pc \in Int /\ e.pc \div 256 \in Int /\ Byte(e.pc) \in Int
      BY <1>6 DEF Words, Byte
    <3>2. 256 * (e.pc \div 256) + Byte(e.pc) = e.pc
      BY <1>6, SmallWord
    <3> QED
      BY <3>1, <3>2
  <2>7. m'.pc = e.pc
    BY <1>3, <1>4, <2>2, <2>5, <2>6, ReturnsAre
  <2>8. Flags(m') = e.flags
    BY <1>3, <1>4, <1>6, <2>2, <2>5, ReturnsAre
  <2>9. m'.s = e.s
    BY <1>3, <1>4, <1>9, <2>1, <2>2, ReturnsAre
  <2> QED
    BY <1>11, <2>7, <2>8, <2>9 DEF Restored
<1>12. CASE e.by \in {"PHA", "PHP"}
  <2>1. n = 1 /\ (e.by = "PHA" => op = "PLA") /\ (e.by = "PHP" => op = "PLP")
    BY <1>5, <1>12, PushesAre
  <2>2. /\ e.by = "PHA" => ran = PLA(o)
        /\ e.by = "PHP" => ran = PLP(o)
    BY <2>1, SavesRun DEF ran
  <2>3. /\ e.by = "PHA" => SavedBytes(e) = <<e.a>>
        /\ e.by = "PHP" => SavedBytes(e) = <<StatusOf(e.flags)>>
    BY DEF SavedBytes
  <2>4. Top(o, 1) = SavedBytes(e)[1]
    <3>1. 1 \in 1 .. n /\ n - 1 + 1 = 1
      BY <2>1
    <3> QED
      BY <1>8, <3>1
  <2>5. m'.s = e.s
    BY <1>3, <1>4, <1>9, <1>12, <2>1, <2>2, PullsAre
  <2>6. e.by = "PHA" => m'.a = e.a
    BY <1>3, <1>4, <2>2, <2>3, <2>4, PullsAre
  <2>7. e.by = "PHP" => Flags(m') = e.flags
    BY <1>3, <1>4, <1>6, <2>2, <2>3, <2>4, PullsAre
  <2> QED
    BY <1>12, <2>5, <2>6, <2>7 DEF Restored
<1> QED
  BY <1>6, <1>10, <1>11, <1>12 DEF Pushing

-----------------------------------------------------------------------------
(* The theorems.                                                           *)

(* Every step leaves a machine.                                            *)
LEMMA TypedStep == ASSUME Typed, [Next]_vars PROVE Typed'
<1>1. IsMachine(m) /\ steps \in Nat /\ depth \in Int
  BY DEF Typed
<1>2. Word(m.pc + 1) \in Words
  <2>1. 1 \in Bytes
    BY DEF Bytes
  <2> QED
    BY <1>1, <2>1, MachineIs, Moved
<1>3. CASE Step
  <2>1. PICK o, row : Ready(m, o, row) /\ m' = After(o, row) /\ Track(row[1], m'.mem)
    BY <1>1, <1>3, StepIs
  <2>2. IsMachine(m')
    BY <2>1, AfterIs
  <2>3. depth' \in Int
    <3>1. /\ (IF row[1] \in DOMAIN Pushes THEN Pushes[row[1]] ELSE 0) \in Int
          /\ (IF row[1] \in DOMAIN Pops THEN Pops[row[1]] ELSE 0) \in Int
      BY PushesAre
    <3> QED
      BY <1>1, <2>1, <3>1 DEF Track
  <2>4. steps' \in Nat /\ state' = state
    BY <1>1, <1>3 DEF Step
  <2> QED
    BY <2>2, <2>3, <2>4 DEF Typed
<1>4. CASE Stop
  <2>1. IsMachine(m')
    BY <1>1, <1>2, <1>4 DEF Stop, Fetch, IsMachine, Machines
  <2> QED
    BY <1>1, <1>4, <2>1 DEF Stop, Typed
<1>5. CASE Crash
  <2>1. PICK opcode \in Bytes : m' = [Fetch(m) EXCEPT !.opcode = opcode]
    <3>1. PICK status \in Status :
            LET opcode == Read([m EXCEPT !.status = status], m.pc)
            IN  m' = [Fetch(m) EXCEPT !.opcode = opcode]
      BY <1>5 DEF Crash
    <3> DEFINE c == [m EXCEPT !.status = status]
    <3>2. status \in Bytes
      BY MachineAssumption
    <3>3. IsMachine(c) /\ m.pc \in Words
      BY <1>1, <3>2, MachineIs DEF IsMachine, Machines
    <3> HIDE DEF c
    <3>4. Read(c, m.pc) \in Bytes
      BY <3>3, ReadTyped
    <3> QED
      BY <3>1, <3>4 DEF c
  <2>2. IsMachine(m')
    BY <1>1, <1>2, <2>1 DEF Fetch, IsMachine, Machines
  <2> QED
    BY <1>1, <1>5, <2>2 DEF Crash, Typed
<1>6. CASE CallAgain
  BY <1>1, <1>6 DEF CallAgain, Typed
<1>7. CASE UNCHANGED vars
  BY <1>7 DEF vars, Typed
<1> QED
  BY <1>3, <1>4, <1>5, <1>6, <1>7 DEF Next

(* The other steps leave stack, pointer and entries alone.                 *)
LEMMA StandingKept ==
  ASSUME IInv, Stop \/ Crash \/ CallAgain \/ UNCHANGED vars
  PROVE  \A e \in saved' : Standing(e, m'.s, m'.mem, depth')
<1>1. saved' = saved /\ depth' = depth
  BY DEF Stop, Crash, CallAgain, vars
<1>2. m'.s = m.s /\ m'.mem = m.mem
  <2>1. CASE Stop
    BY <2>1 DEF IInv, Typed, Stop, Fetch, IsMachine, Machines
  <2>2. CASE Crash
    BY <2>2 DEF IInv, Typed, Crash, Fetch, IsMachine, Machines
  <2>3. CASE CallAgain \/ UNCHANGED vars
    BY <2>3 DEF CallAgain, vars
  <2> QED
    BY <2>1, <2>2, <2>3
<1> QED
  BY <1>1, <1>2 DEF IInv

(* A song starts with nothing saved.                                       *)
LEMMA InitIInv == Init => IInv
BY MachineAssumption DEF Init, IInv, Typed

(* The invariant is inductive.                                             *)
LEMMA NextIInv == IInv /\ [Next]_vars => IInv'
<1> SUFFICES ASSUME IInv, [Next]_vars PROVE IInv'
  OBVIOUS
<1>1. Typed'
  BY TypedStep DEF IInv
<1>2. \A e \in saved' : Standing(e, m'.s, m'.mem, depth')
  BY StandingStep, StandingKept DEF Next
<1> QED
  BY <1>1, <1>2 DEF IInv

(* Every machine that is reached has registers, flags and cells of the     *)
(* widths of the code's types, and what the instructions have saved is on  *)
(* the stack, the stack pointer being as far below it as was pushed since. *)
THEOREM CpuInvariant == Spec => []IInv
BY InitIInv, NextIInv, PTL DEF Spec

(* Whatever runs in between, RTS, RTI, PLA and PLP bring back what JSR,    *)
(* BRK, PHA and PHP have saved last: the program counter, the flags, the   *)
(* accumulator and the stack pointer, for every program.                   *)
THEOREM CpuStackRestores == Spec => StackRestores
<1>1. IInv /\ [Next]_vars =>
        [Ran => \A e \in saved :
                  RanRow[1] = Undo[e.by] /\ depth = e.depth + Pushes[e.by] => Restored(e)]_vars
  BY RanIsStep, RestoredStep DEF IInv, Typed
<1> QED
  BY <1>1, CpuInvariant, PTL DEF Spec, StackRestores

(* ADC and SBC are exact for every operand, accumulator and carry.         *)
THEOREM CpuArithmeticExact == Spec => ArithmeticExact
<1> DEFINE Exact ==
      LET w == IF RanRow[1] = "ADC" THEN RanOn ELSE 255 - RanOn
          c == Number(m.carry)
      IN  /\ 256 * Number(m'.carry) + m'.a = m.a + w + c
          /\ m'.overflow = (Signed(m.a) + Signed(w) + c \notin -128 .. 127)
<1>1. IInv /\ [Next]_vars => [Ran /\ RanRow[1] \in {"ADC", "SBC"} => Exact]_vars
  BY RanIsStep, ArithmeticStep DEF IInv, Typed
<1> QED
  BY <1>1, CpuInvariant, PTL DEF Spec, ArithmeticExact

(* Every instruction takes two to seven cycles, and one that writes a      *)
(* sound register four at least, for every program.                        *)
THEOREM CpuCyclesSound == Spec => CyclesSound
<1>1. IInv /\ [Next]_vars =>
        [Ran => /\ m'.cycles \in 2 .. 7
                /\ (RanRow[1] \in Stores /\ RanRow[2] # "Acc" /\ IsSoundRegister(m'.address)
                      => m'.cycles >= 4)]_vars
  BY RanIsStep, CyclesStep DEF IInv, Typed
<1> QED
  BY <1>1, CpuInvariant, PTL DEF Spec, CyclesSound
================================================================================
