--------------------------------- MODULE Memory ---------------------------------
(***************************************************************************)
(* The memory of the machine (src/src/nes/memory/memory.cc) and the bus    *)
(* that routes the accesses of the CPU (Nes::SetByte, Nes::GetByte).       *)
(*                                                                         *)
(* A memory is a function from addresses to bytes.  It need not be total:  *)
(* an address that it does not hold reads as 0, which is what the calloc   *)
(* of the constructor leaves there.  A bank is a function from offsets to  *)
(* bytes in the same way.  The module has operators only; NSFReader and    *)
(* Cpu own the memories they work on.                                      *)
(***************************************************************************)
EXTENDS Integers

CONSTANTS
  MemSize,                  \* 0x10000
  RamSize, RamEnd,          \* 0x800 and 0x2000: the RAM and the end of its mirrors
  ApuFirst, ApuLast,        \* 0x4000 and 0x4017: the sound registers
  ApuStatus,                \* 0x4015, the one that can be read
  BankPort,                 \* 0x5FF8, the first of the bank switches
  WindowBase,               \* 0x8000, the first window
  BankSize                  \* 4096, the size of a bank and of a window

Spots == (MemSize - WindowBase) \div BankSize      \* 8

ASSUME LayoutAssumption ==
  /\ {MemSize, RamSize, RamEnd, ApuFirst, ApuLast, ApuStatus, BankPort,
      WindowBase, BankSize} \subseteq Nat
  /\ 0 < RamSize /\ RamEnd = 4 * RamSize /\ RamEnd <= ApuFirst
  /\ ApuStatus \in ApuFirst .. ApuLast /\ ApuLast < BankPort
  /\ 0 < BankSize /\ BankPort + Spots <= WindowBase /\ WindowBase < MemSize
  /\ WindowBase % BankSize = 0 /\ MemSize = WindowBase + Spots * BankSize

Addresses == 0 .. MemSize - 1

-----------------------------------------------------------------------------
(* What a memory, or a bank, holds at an address.                          *)
Cell(mem, a) == IF a \in DOMAIN mem THEN mem[a] ELSE 0

(* A memory in which the given cells hold b.                               *)
Put(mem, cells, b) ==
  [a \in DOMAIN mem \cup cells |-> IF a \in cells THEN b ELSE mem[a]]

(* The cells that a write to an address below 0x2000 reaches; those of an  *)
(* address above are the address.                                          *)
Mirrors(a) == IF a < RamEnd THEN {(a % RamSize) + k * RamSize : k \in 0 .. 3} ELSE {a}

SetByte(mem, a, b) == Put(mem, Mirrors(a), b)

(* The word at 0xFFFF has its high byte beyond the end of memory_: it is   *)
(* whatever the heap holds there.                                          *)
GetWord(mem, a, beyond) ==
  256 * (IF a + 1 = MemSize THEN beyond ELSE Cell(mem, a + 1)) + Cell(mem, a)

(* LoadCart: memcpy of a whole cart over the memory.                       *)
LoadCart(mem, cart, start, length) ==
  [a \in DOMAIN mem \cup (start .. start + length - 1) |->
     IF a \in start .. start + length - 1 THEN cart[a - start] ELSE mem[a]]

(* The addresses of a window.                                              *)
Window(spot) ==
  WindowBase + spot * BankSize .. WindowBase + (spot + 1) * BankSize - 1

(* BankSwitch copies the bank over the window.  Mutant: the last byte of   *)
(* the window is not copied.                                               *)
BankSwitchShort(mem, spot, bank) ==
  [a \in DOMAIN mem \cup Window(spot) |->
     IF a \in Window(spot) /\ a + 1 \in Window(spot)
     THEN Cell(bank, a - WindowBase - spot * BankSize) ELSE Cell(mem, a)]

BankSwitch(mem, spot, bank) ==
  [a \in (DOMAIN mem \ Window(spot))
           \cup {WindowBase + spot * BankSize + o : o \in DOMAIN bank} |->
     IF a \in Window(spot) THEN bank[a - WindowBase - spot * BankSize] ELSE mem[a]]

-----------------------------------------------------------------------------
(* The bus.  A write to a sound register does not reach the memory.        *)

IsBankPort(a) == a \in BankPort .. BankPort + Spots - 1
IsSoundRegister(a) == a \in ApuFirst .. ApuLast

BusSetByte(mem, banks, a, b) ==
  IF IsBankPort(a) THEN BankSwitch(mem, a - BankPort, banks[b])
  ELSE IF IsSoundRegister(a) THEN mem
  ELSE SetByte(mem, a, b)

(* status is what Apu::Get4015 answers.                                    *)
BusGetByte(mem, a, status) == IF a = ApuStatus THEN status ELSE Cell(mem, a)
=============================================================================
