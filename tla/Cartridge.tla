------------------------------- MODULE Cartridge -------------------------------
(***************************************************************************)
(* What a tune may rely on of the memory it is played in, whatever copies  *)
(* the program makes of the file to get there.                             *)
(*                                                                         *)
(* The data of a file without banks lies at its load address.  That of a   *)
(* file with banks is cut into banks, the first of which begins as far     *)
(* into its window as the load address does; a window shows a bank, from   *)
(* the start the one that the header names for it, then the one that was   *)
(* switched in, with what has been written to it since.  A write to the    *)
(* RAM is seen in all of its mirrors.  What the file does not fill is 0 in *)
(* the banks, and elsewhere anything.                                      *)
(***************************************************************************)
EXTENDS Memory

CONSTANTS
  NumBanks,        \* 256
  DriverCells,     \* 0x5000 .. 0x5009, where the code that calls the tune is
  FileByte(_)      \* the bytes of the data, from 0

VARIABLES
  load, length,    \* the load address and the number of bytes of the data
  initial,         \* the banks that the header names: [0 .. Spots - 1 -> banks]
  view             \* what the tune reads: [Addresses -> bytes], <<>> before

vars == <<load, length, initial, view>>

Banked == \E spot \in 0 .. Spots - 1 : initial[spot] # 0

(* The byte at an offset of a bank.                                        *)
BankByte(n, offset) ==
  LET k == (n * BankSize) + offset - (load % BankSize)
  IN  IF k \in 0 .. length - 1 THEN FileByte(k) ELSE 0

FlatByte(a) == IF a - load < length THEN FileByte(a - load) ELSE 0

Spot(a)   == (a - WindowBase) \div BankSize
Offset(a) == (a - WindowBase) % BankSize

(* The last byte of the memory is not loaded from a file without banks.    *)
Shows(image) ==
  /\ DOMAIN image = Addresses
  /\ IF Banked
     THEN \A a \in WindowBase .. MemSize - 1 :
            image[a] = BankByte(initial[Spot(a)], Offset(a))
     ELSE \A a \in (load .. MemSize - 2) \ DriverCells : image[a] = FlatByte(a)

Init == view = <<>>

Start ==
  /\ view = <<>>
  /\ Shows(view')
  /\ UNCHANGED <<load, length, initial>>

(* A write to a port shows another bank in the window.                     *)
Switch(spot, n) ==
  /\ view # <<>>
  /\ view' = [a \in Addresses |->
                IF a >= WindowBase /\ Spot(a) = spot
                THEN IF Banked THEN BankByte(n, Offset(a)) ELSE view'[a]
                ELSE view[a]]
  /\ UNCHANGED <<load, length, initial>>

SameCell(a, b) == a = b \/ (a < RamEnd /\ b < RamEnd /\ a % RamSize = b % RamSize)

Store(a, value) ==
  /\ view # <<>>
  /\ a \notin BankPort .. BankPort + Spots - 1
  /\ a \notin ApuFirst .. ApuLast
  /\ view' = [x \in Addresses |-> IF SameCell(x, a) THEN value ELSE view[x]]
  /\ UNCHANGED <<load, length, initial>>

Next ==
  \/ Start
  \/ \E spot \in 0 .. Spots - 1, n \in 0 .. NumBanks - 1 : Switch(spot, n)
  \/ \E a \in Addresses, value \in 0 .. NumBanks - 1 : Store(a, value)

Spec == Init /\ [][Next]_vars
=============================================================================
