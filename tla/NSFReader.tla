------------------------------- MODULE NSFReader -------------------------------
(***************************************************************************)
(* How a song gets into the memory: the constructor of NSFReader reads the *)
(* file, play_song has it build a cart and copies the cart and the banks   *)
(* into the machine's Memory, and the tune then writes to its memory and   *)
(* switches banks over the bus (src/src/nsf/nsf_reader.cc, nsf.cc,         *)
(* memory.cc and nes.cc).                                                  *)
(*                                                                         *)
(* A byte is a number: 0, the bytes 0 .. NumBanks - 1 that the tune        *)
(* writes, FileByte(k) for byte k of the file's data, and two more for     *)
(* what a malloc leaves and for the driver code of the cart.               *)
(***************************************************************************)
EXTENDS Memory, FiniteSets

CONSTANTS
  NumBanks,         \* 256, MAX_NUM_BANKS and the banks of Memory
  DriverCells,      \* 0x5000 .. 0x5009
  Headers,          \* [load, initial]: data_load_addr_ and bankswitch_init_
  Lengths,          \* the numbers of bytes of data that follow the header
  StoreAddresses    \* where the tune writes

ASSUME ReaderAssumption ==
  /\ NumBanks \in Nat \ {0}
  /\ DriverCells \subseteq 0 .. WindowBase - 1 /\ StoreAddresses \subseteq Addresses
  /\ Headers \subseteq [load : Addresses, initial : [0 .. Spots - 1 -> 0 .. NumBanks - 1]]
  /\ Lengths \subseteq Nat

FileByte(k) == NumBanks + k
Junk   == -1
Driver == -2

VARIABLES
  phase,      \* "read", "cart", "load", "running"; "crashed", "undefined"
  header,
  length,
  position,   \* bytes of the data that have been read
  reader,     \* NSFReader::banks_: a function on the banks that are not null
  cart,       \* the buffer of play_song
  memory_,
  banks_

file == <<header, length>>
vars == <<phase, file, position, reader, cart, memory_, banks_>>

Init ==
  /\ phase = "read"
  /\ header \in Headers
  /\ length \in Lengths
  /\ position = 0
  /\ reader = <<>>
  /\ cart = [a \in Addresses |-> Junk]
  /\ memory_ = <<>>
  /\ banks_ = [n \in 0 .. NumBanks - 1 |-> [o \in 0 .. BankSize - 1 |-> Junk]]

is_bank_switched == \E spot \in 0 .. Spots - 1 : header.initial[spot] # 0

-----------------------------------------------------------------------------
(* The constructor: reading the data.                                      *)

(* The bytes that are read next, n at most, put at an offset of a buffer.  *)
ReadAt(offset, n) ==
  [o \in 0 .. offset + n - 1 |->
     IF o >= offset /\ position + o - offset < length
     THEN FileByte(position + o - offset) ELSE 0]

(* One round of the loop: the end of the file is noticed by a read that    *)
(* wanted more than was left, so that a file that ends with a bank gets an *)
(* empty one after it.  Mutant: it is noticed as soon as it is reached.    *)
ReadBankToTheEnd ==
  LET bank    == Cardinality(DOMAIN reader)
      padding == IF bank = 0 THEN header.load % BankSize ELSE 0
      room    == BankSize - padding
  IN  /\ phase = "read" /\ is_bank_switched /\ bank < NumBanks
      /\ reader' = [n \in 0 .. bank |->
                      IF n = bank THEN ReadAt(padding, room) ELSE reader[n]]
      /\ position' = IF length - position < room THEN length ELSE position + room
      /\ phase' = IF length - position <= room THEN "cart" ELSE "read"
      /\ UNCHANGED <<file, cart, memory_, banks_>>

ReadBank ==
  LET bank    == Cardinality(DOMAIN reader)
      padding == IF bank = 0 THEN header.load % BankSize ELSE 0
      room    == BankSize - padding
  IN  /\ phase = "read" /\ is_bank_switched /\ bank < NumBanks
      /\ reader' = [n \in 0 .. bank |->
                      IF n = bank THEN ReadAt(padding, room) ELSE reader[n]]
      /\ position' = IF length - position < room THEN length ELSE position + room
      /\ phase' = IF length - position < room THEN "cart" ELSE "read"
      /\ UNCHANGED <<file, cart, memory_, banks_>>

(* The loop does not stop at the last entry of banks_.  What a write       *)
(* beyond the array does is not defined.                                   *)
ReadBeyond ==
  /\ phase = "read" /\ is_bank_switched /\ Cardinality(DOMAIN reader) = NumBanks
  /\ phase' = "undefined"
  /\ UNCHANGED <<file, position, reader, cart, memory_, banks_>>

(* Without banks, a buffer twice as large as the memory is read.           *)
ReadFlat ==
  /\ phase = "read" /\ ~is_bank_switched
  /\ reader' = [n \in {0} |-> ReadAt(0, 2 * MemSize)]
  /\ position' = IF length < 2 * MemSize THEN length ELSE 2 * MemSize
  /\ phase' = "cart"
  /\ UNCHANGED <<file, cart, memory_, banks_>>

-----------------------------------------------------------------------------
(* Cart, Banks and play_song.                                              *)

WithDriver(image) == [a \in Addresses |-> IF a \in DriverCells THEN Driver ELSE image[a]]

(* The copy of a bank that the file does not have reads from null.         *)
CartBanks ==
  /\ phase = "cart" /\ is_bank_switched
  /\ IF \A spot \in 0 .. Spots - 1 : header.initial[spot] \in DOMAIN reader
     THEN /\ cart' = WithDriver(
               [a \in Addresses |->
                  IF a < WindowBase THEN cart[a]
                  ELSE LET spot == (a - WindowBase) \div BankSize
                       IN  reader[header.initial[spot]][(a - WindowBase) % BankSize]])
          /\ phase' = "load"
     ELSE /\ phase' = "crashed"
          /\ UNCHANGED cart
  /\ UNCHANGED <<file, position, reader, memory_, banks_>>

(* 0xFFFF - data_load_addr_ bytes are copied, one less than there is room. *)
CartFlat ==
  /\ phase = "cart" /\ ~is_bank_switched
  /\ cart' = WithDriver(
       [a \in Addresses |-> IF a \in header.load .. MemSize - 2
                            THEN reader[0][a - header.load] ELSE cart[a]])
  /\ phase' = "load"
  /\ UNCHANGED <<file, position, reader, memory_, banks_>>

(* Banks copies the banks that are not null into buffers that are zero.    *)
(* Mutant: the others are left as they are.                                *)
BanksNotNullOnly(n) == IF n \in DOMAIN reader
                       THEN [o \in 0 .. BankSize - 1 |-> reader[n][o]] ELSE banks_[n]

Bank(n) == [o \in 0 .. BankSize - 1 |-> IF n \in DOMAIN reader THEN reader[n][o] ELSE 0]

(* The sound registers that are then initialised are not memory.           *)
Load ==
  /\ phase = "load"
  /\ memory_' = LoadCart(memory_, cart, 0, MemSize)
  /\ banks_' = [n \in 0 .. NumBanks - 1 |-> Bank(n)]
  /\ phase' = "running"
  /\ UNCHANGED <<file, position, reader, cart>>

(* An instruction of the tune writes b.                                    *)
Store(a, b) ==
  /\ phase = "running"
  /\ memory_' = BusSetByte(memory_, banks_, a, b)
  /\ UNCHANGED <<phase, file, position, reader, cart, banks_>>

Next ==
  \/ ReadBank \/ ReadBeyond \/ ReadFlat
  \/ CartBanks \/ CartFlat \/ Load
  \/ \E a \in StoreAddresses, b \in 0 .. NumBanks - 1 : Store(a, b)

Spec == Init /\ [][Next]_vars

-----------------------------------------------------------------------------
(* Properties.                                                             *)

(* Through the banks of the reader, the cart, the banks of the memory and  *)
(* the copies that a switch makes, the tune sees the data of the file as   *)
(* the format lays it out, with its own writes over it.                    *)
Promise == INSTANCE Cartridge WITH
             load <- header.load, initial <- header.initial,
             view <- IF phase = "running" THEN memory_ ELSE <<>>

ImplementsCartridge == Promise!Spec

(* What malloc left in the buffers of play_song and of Memory never shows  *)
(* in the windows of a banked song, and in another one from the load       *)
(* address on at most in the last byte of the memory, the high half of the *)
(* interrupt vector.                                                       *)
JunkConfined ==
  phase = "running" =>
    \A a \in Addresses :
      memory_[a] = Junk =>
        IF is_bank_switched THEN a < WindowBase ELSE a < header.load \/ a = MemSize - 1

(* A file loads if and only if the header names banks that exist: those    *)
(* that the data reaches into and, if it ends with a bank, the one after   *)
(* it; and there are not too many of them.                                 *)
BanksInFile == ((header.load % BankSize) + length) \div BankSize + 1

LoadsIfBanksExist ==
  /\ phase = "running" /\ is_bank_switched =>
       /\ BanksInFile <= NumBanks
       /\ \A spot \in 0 .. Spots - 1 : header.initial[spot] < BanksInFile
  /\ phase = "crashed" => \E spot \in 0 .. Spots - 1 : header.initial[spot] >= BanksInFile
  /\ phase = "undefined" => BanksInFile > NumBanks
=============================================================================
