----------------------------- MODULE NSFReaderProofs -----------------------------
(***************************************************************************)
(* Proofs about NSFReader, for every size of the memory, its windows and   *)
(* banks, every file and every order of writes and bank switches.          *)
(***************************************************************************)
EXTENDS NSFReader, FiniteSetTheorems, TLAPS

-----------------------------------------------------------------------------
(* Arithmetic of banks.                                                    *)

LEMMA Division ==
  ASSUME NEW x \in Nat, NEW k \in Nat \ {0}
  PROVE  /\ x \div k \in Nat /\ x % k \in 0 .. k - 1
         /\ x = (x \div k) * k + (x % k)
  OBVIOUS

LEMMA QuotientAbove ==
  ASSUME NEW x \in Nat, NEW k \in Nat \ {0}
  PROVE  x \div k \in Nat /\ x < (x \div k) * k + k
  BY Division

(* A quotient is the one number whose multiple lies within a divisor.      *)
LEMMA QuotientIs ==
  ASSUME NEW x \in Nat, NEW k \in Nat \ {0}, NEW n \in Nat, n * k <= x, x < n * k + k
  PROVE  x \div k = n /\ x % k = x - n * k
<1> DEFINE q == x \div k
           r == x % k
<1>1. q \in Nat /\ r \in 0 .. k - 1 /\ x = q * k + r
  BY Division
<1> HIDE DEF q, r
<1>2. (q - n) * k = q * k - n * k
  BY <1>1
<1>3. q - n < 1
  <2>1. q - n >= 1 => (q - n) * k >= k
    BY <1>1
  <2> QED
    BY <1>1, <1>2, <2>1
<1>4. q - n > -1
  <2>1. q - n <= -1 => (q - n) * k <= -k
    BY <1>1
  <2> QED
    BY <1>1, <1>2, <2>1
<1>5. q = n
  BY <1>1, <1>3, <1>4
<1> QED
  BY <1>1, <1>5 DEF q, r

LEMMA QuotientBelow ==
  ASSUME NEW x \in Nat, NEW k \in Nat \ {0}, NEW n \in Nat, x < n * k
  PROVE  x \div k \in 0 .. n - 1
<1> DEFINE q == x \div k
<1>1. q \in Nat /\ q * k <= x
  BY Division
<1> HIDE DEF q
<1>2. q >= n => q * k >= n * k
  <2>1. q >= n => (q - n) * k >= 0
    BY <1>1
  <2>2. (q - n) * k = q * k - n * k
    BY <1>1
  <2> QED
    BY <1>1, <2>1, <2>2
<1>3. q < n
  BY <1>1, <1>2
<1> QED
  BY <1>1, <1>3 DEF q

LEMMA QuotientFrom ==
  ASSUME NEW x \in Nat, NEW k \in Nat \ {0}, NEW n \in Nat, n * k <= x
  PROVE  x \div k >= n
<1> DEFINE q == x \div k
<1>1. q \in Nat /\ x < q * k + k
  BY Division
<1> HIDE DEF q
<1>2. q < n => (n - q) * k >= k
  BY <1>1
<1>3. (n - q) * k = n * k - q * k
  BY <1>1
<1>4. q >= n
  BY <1>1, <1>2, <1>3
<1> QED
  BY <1>4 DEF q

(* The layout of the memory.                                               *)
LEMMA Layout ==
  /\ MemSize \in Nat /\ RamSize \in Nat \ {0} /\ RamEnd = 4 * RamSize
  /\ BankSize \in Nat \ {0} /\ WindowBase \in Nat /\ Spots \in Nat /\ BankPort \in Nat
  /\ RamEnd <= BankPort /\ BankPort + Spots <= WindowBase
  /\ MemSize = WindowBase + Spots * BankSize /\ WindowBase <= MemSize
  /\ BankSize <= MemSize /\ ApuFirst \in Nat /\ ApuLast \in Nat
<1>1. /\ MemSize \in Nat /\ RamSize \in Nat \ {0} /\ RamEnd = 4 * RamSize
      /\ BankSize \in Nat \ {0} /\ WindowBase \in Nat /\ BankPort \in Nat
      /\ ApuFirst \in Nat /\ ApuLast \in Nat
      /\ RamEnd <= BankPort /\ BankPort + Spots <= WindowBase
      /\ MemSize = WindowBase + Spots * BankSize
  BY LayoutAssumption
<1>2. Spots \in Int
  BY <1>1 DEF Spots
<1>3. Spots > 0
  <2>1. Spots <= 0 => Spots * BankSize <= 0
    BY <1>1, <1>2
  <2>2. MemSize - WindowBase = Spots * BankSize
    BY <1>1, <1>2
  <2>3. WindowBase < MemSize
    BY LayoutAssumption
  <2> QED
    BY <1>1, <1>2, <2>1, <2>2, <2>3
<1>4. Spots * BankSize >= BankSize
  BY <1>1, <1>2, <1>3
<1> QED
  BY <1>1, <1>2, <1>3, <1>4

LEMMA WindowInside ==
  ASSUME NEW spot \in 0 .. Spots - 1
  PROVE  /\ spot * BankSize \in Nat /\ spot * BankSize + BankSize <= Spots * BankSize
         /\ Window(spot) = WindowBase + spot * BankSize .. WindowBase + spot * BankSize + BankSize - 1
         /\ Window(spot) \subseteq Addresses
<1>1. spot * BankSize \in Nat
  BY Layout
<1>2. (Spots - (spot + 1)) * BankSize >= 0
  BY Layout
<1>3. /\ (Spots - (spot + 1)) * BankSize = Spots * BankSize - (spot + 1) * BankSize
      /\ (spot + 1) * BankSize = spot * BankSize + BankSize
  BY Layout
<1>4. spot * BankSize + BankSize <= Spots * BankSize
  BY <1>1, <1>2, <1>3, Layout
<1>5. Window(spot) = WindowBase + spot * BankSize .. WindowBase + spot * BankSize + BankSize - 1
  BY <1>1, <1>3, Layout DEF Window
<1> QED
  BY <1>1, <1>4, <1>5, Layout DEF Addresses

-----------------------------------------------------------------------------
(* The invariant, a part per stage of the loading.                         *)

Padding == header.load % BankSize

(* A bank of the reader, or of the memory, has every byte and no junk.     *)
Clean(bank, size) == DOMAIN bank = 0 .. size - 1 /\ \A o \in 0 .. size - 1 : bank[o] \in Nat

(* k banks have been read and there was data for each of them.             *)
ReadSoFar(k) ==
  /\ DOMAIN reader = 0 .. k - 1
  /\ position = IF k = 0 THEN 0 ELSE k * BankSize - Padding
  /\ position <= length

Reading ==
  phase = "read" => IF is_bank_switched THEN \E k \in 0 .. NumBanks : ReadSoFar(k)
                                        ELSE position = 0

ReaderClean ==
  IF is_bank_switched THEN \A n \in DOMAIN reader : Clean(reader[n], BankSize)
  ELSE phase # "read" => DOMAIN reader = {0} /\ Clean(reader[0], 2 * MemSize)

ReaderComplete ==
  phase \notin {"read", "undefined"} /\ is_bank_switched =>
    DOMAIN reader = 0 .. BanksInFile - 1 /\ BanksInFile <= NumBanks

Confined(mem) ==
  \A a \in Addresses :
    mem[a] = Junk => IF is_bank_switched THEN a < WindowBase
                     ELSE a < header.load \/ a = MemSize - 1

MemoryLoaded ==
  /\ phase = "load" => Confined(cart)
  /\ phase # "running" => memory_ = <<>>
  /\ phase = "running" => /\ DOMAIN memory_ = Addresses
                          /\ Confined(memory_)
                          /\ \A n \in 0 .. NumBanks - 1 : Clean(banks_[n], BankSize)

BanksThere ==
  /\ phase \in {"load", "running"} /\ is_bank_switched =>
       \A spot \in 0 .. Spots - 1 : header.initial[spot] < BanksInFile
  /\ phase = "crashed" => \E spot \in 0 .. Spots - 1 : header.initial[spot] >= BanksInFile
  /\ phase = "undefined" => BanksInFile > NumBanks

Typed ==
  /\ phase \in {"read", "cart", "load", "running", "crashed", "undefined"}
  /\ header \in Headers /\ length \in Lengths
  /\ position \in Nat
  /\ DOMAIN cart = Addresses

IInv == Typed /\ Reading /\ ReaderClean /\ ReaderComplete /\ MemoryLoaded /\ BanksThere

LEMMA FileTypes ==
  ASSUME Typed
  PROVE  /\ header.load \in Addresses /\ header.load \in Nat /\ length \in Nat
         /\ \A spot \in 0 .. Spots - 1 : header.initial[spot] \in 0 .. NumBanks - 1
         /\ Padding \in 0 .. BankSize - 1 /\ NumBanks \in Nat \ {0}
         /\ BanksInFile \in Nat \ {0}
<1>1. /\ header.load \in Addresses /\ length \in Nat /\ NumBanks \in Nat \ {0}
      /\ \A spot \in 0 .. Spots - 1 : header.initial[spot] \in 0 .. NumBanks - 1
  BY ReaderAssumption DEF Typed
<1>2. header.load \in Nat
  BY <1>1, Layout DEF Addresses
<1>3. Padding \in 0 .. BankSize - 1
  BY <1>2, Layout, Division DEF Padding
<1>4. (Padding + length) \div BankSize \in Nat
  BY <1>1, <1>3, Layout, Division
<1>5. BanksInFile \in Nat \ {0}
  BY <1>4 DEF BanksInFile, Padding
<1> QED
  BY <1>1, <1>2, <1>3, <1>5

LEMMA InitInv == Init => IInv
<1> SUFFICES ASSUME Init PROVE IInv
  OBVIOUS
<1>1. Typed
  BY DEF Init, Typed
<1>2. DOMAIN reader = {} /\ DOMAIN reader = 0 .. 0 - 1
  BY DEF Init
<1>3. ReadSoFar(0)
  BY <1>1, <1>2, FileTypes DEF Init, ReadSoFar
<1>4. 0 \in 0 .. NumBanks
  BY <1>1, FileTypes
<1>5. Reading
  BY <1>3, <1>4 DEF Reading, Init
<1>6. ReaderClean /\ ReaderComplete /\ MemoryLoaded /\ BanksThere
  BY <1>2 DEF Init, ReaderClean, ReaderComplete, MemoryLoaded, BanksThere
<1> QED
  BY <1>1, <1>5, <1>6 DEF IInv

-----------------------------------------------------------------------------
(* Reading.                                                                *)

(* The number of banks read is the k of ReadSoFar.                         *)
LEMMA BanksRead ==
  ASSUME NEW k \in Nat, DOMAIN reader = 0 .. k - 1
  PROVE  Cardinality(DOMAIN reader) = k
<1>1. Cardinality(0 .. k - 1) = k - 1 - 0 + 1
  BY FS_Interval
<1> QED
  BY <1>1

LEMMA Read ==
  ASSUME Typed, NEW offset \in Nat, NEW n \in Nat
  PROVE  Clean(ReadAt(offset, n), offset + n)
<1>1. ASSUME NEW o \in 0 .. offset + n - 1 PROVE ReadAt(offset, n)[o] \in Nat
  <2>1. o >= offset => NumBanks + (position + o - offset) \in Nat
    BY FileTypes DEF Typed
  <2> QED
    BY <2>1 DEF ReadAt, FileByte
<1> QED
  BY <1>1 DEF Clean, ReadAt

(* The room that the first bank has is smaller by the padding.             *)
LEMMA ReadBankInv == IInv /\ ReadBank => IInv'
<1> SUFFICES ASSUME IInv, ReadBank PROVE IInv'
  OBVIOUS
<1> USE DEF IInv
<1>1. /\ phase = "read" /\ is_bank_switched
      /\ UNCHANGED <<header, length, cart, memory_, banks_>>
  BY DEF ReadBank, file
<1>2. is_bank_switched' = is_bank_switched
  BY <1>1 DEF is_bank_switched
<1>3. PICK k \in 0 .. NumBanks : ReadSoFar(k)
  BY <1>1 DEF Reading
<1>4. k \in Nat /\ Cardinality(DOMAIN reader) = k
  <2>1. k \in Nat
    BY FileTypes
  <2> QED
    BY <1>3, <2>1, BanksRead DEF ReadSoFar
<1> DEFINE padding == IF k = 0 THEN Padding ELSE 0
           room    == BankSize - padding
           data    == ReadAt(padding, room)
<1>5. /\ k < NumBanks
      /\ reader' = [n \in 0 .. k |-> IF n = k THEN data ELSE reader[n]]
      /\ position' = IF length - position < room THEN length ELSE position + room
      /\ phase' = IF length - position < room THEN "cart" ELSE "read"
  BY <1>4 DEF ReadBank, Padding
<1>6. /\ padding \in Nat /\ room \in Nat /\ padding + room = BankSize
      /\ length \in Nat /\ Padding \in Nat /\ NumBanks \in Nat
      /\ position \in Nat
  BY FileTypes, Layout DEF Typed
<1>7. (k + 1) * BankSize = k * BankSize + BankSize /\ k * BankSize \in Nat
  BY <1>4, Layout
<1>8. position + room = (k + 1) * BankSize - Padding
  <2>1. CASE k = 0
    BY <2>1, <1>3, <1>6, <1>7, Layout DEF ReadSoFar
  <2>2. CASE k # 0
    BY <2>2, <1>3, <1>6, <1>7, Layout DEF ReadSoFar
  <2> QED
    BY <2>1, <2>2
<1>9. Clean(data, BankSize)
  BY <1>6, Read
<1> HIDE DEF padding, room, data
<1>10. Typed'
  BY <1>1, <1>5, <1>6 DEF Typed
<1>11. DOMAIN reader' = 0 .. (k + 1) - 1
  BY <1>4, <1>5
<1>12. Reading'
  <2> SUFFICES ASSUME phase' = "read" PROVE \E m \in 0 .. NumBanks : ReadSoFar(m)'
    BY <1>1, <1>2 DEF Reading
  <2>1. position' = position + room /\ position' <= length
    BY <1>5, <1>6
  <2>2. ReadSoFar(k + 1)'
    BY <2>1, <1>1, <1>4, <1>8, <1>11 DEF ReadSoFar, Padding
  <2>3. k + 1 \in 0 .. NumBanks
    BY <1>4, <1>5, <1>6
  <2> QED
    BY <2>2, <2>3
<1>13. ReaderClean'
  <2>1. ASSUME NEW n \in 0 .. k PROVE Clean(reader'[n], BankSize)
    <3>1. n # k => n \in DOMAIN reader
      BY <1>3, <1>4 DEF ReadSoFar
    <3> QED
      BY <3>1, <1>1, <1>5, <1>9 DEF ReaderClean
  <2>2. DOMAIN reader' = 0 .. k
    BY <1>5
  <2> QED
    BY <2>1, <2>2, <1>1, <1>2 DEF ReaderClean
<1>14. ReaderComplete'
  <2> SUFFICES ASSUME phase' = "cart" PROVE BanksInFile' = k + 1
    BY <1>5, <1>6, <1>11 DEF ReaderComplete
  <2>1. Padding + length < (k + 1) * BankSize
    BY <1>5, <1>6, <1>7, <1>8, Layout
  <2>2. k * BankSize <= Padding + length
    BY <1>3, <1>6, <1>7, Layout DEF ReadSoFar
  <2>3. (Padding + length) \div BankSize = k
    BY <2>1, <2>2, <1>4, <1>6, <1>7, Layout, QuotientIs
  <2> QED
    BY <2>3, <1>1 DEF BanksInFile, Padding
<1>15. MemoryLoaded' /\ BanksThere'
  BY <1>1, <1>5 DEF MemoryLoaded, BanksThere
<1> QED
  BY <1>10, <1>12, <1>13, <1>14, <1>15

(* All banks are full, so the data reaches beyond them.                    *)
LEMMA ReadBeyondInv == IInv /\ ReadBeyond => IInv'
<1> SUFFICES ASSUME IInv, ReadBeyond PROVE IInv'
  OBVIOUS
<1> USE DEF IInv
<1>1. /\ phase = "read" /\ is_bank_switched /\ phase' = "undefined"
      /\ UNCHANGED <<header, length, position, reader, cart, memory_, banks_>>
  BY DEF ReadBeyond, file
<1>2. is_bank_switched' = is_bank_switched
  BY <1>1 DEF is_bank_switched
<1>3. PICK k \in 0 .. NumBanks : ReadSoFar(k)
  BY <1>1 DEF Reading
<1>4. k = NumBanks
  <2>1. k \in Nat
    BY FileTypes
  <2> QED
    BY <1>3, <2>1, BanksRead DEF ReadSoFar, ReadBeyond
<1>5. /\ Padding \in Nat /\ length \in Nat /\ NumBanks \in Nat \ {0} /\ position \in Nat
  BY FileTypes, Layout DEF Typed
<1>6. NumBanks * BankSize <= Padding + length
  BY <1>3, <1>4, <1>5, Layout DEF ReadSoFar
<1>7. (Padding + length) \div BankSize >= NumBanks
  BY <1>5, <1>6, Layout, QuotientFrom
<1>8. (Padding + length) \div BankSize \in Nat
  BY <1>5, Layout, Division
<1>9. BanksInFile > NumBanks
  BY <1>5, <1>7, <1>8 DEF BanksInFile, Padding
<1>10. Typed' /\ Reading' /\ MemoryLoaded'
  BY <1>1 DEF Typed, Reading, MemoryLoaded
<1>11. ReaderClean' /\ ReaderComplete'
  BY <1>1, <1>2 DEF ReaderClean, ReaderComplete, Clean
<1>12. BanksThere'
  BY <1>1, <1>9 DEF BanksThere, BanksInFile
<1> QED
  BY <1>10, <1>11, <1>12

LEMMA ReadFlatInv == IInv /\ ReadFlat => IInv'
<1> SUFFICES ASSUME IInv, ReadFlat PROVE IInv'
  OBVIOUS
<1> USE DEF IInv
<1>1. /\ phase = "read" /\ ~is_bank_switched /\ phase' = "cart"
      /\ UNCHANGED <<header, length, cart, memory_, banks_>>
      /\ reader' = [n \in {0} |-> ReadAt(0, 2 * MemSize)]
      /\ position' = IF length < 2 * MemSize THEN length ELSE 2 * MemSize
  BY DEF ReadFlat, file
<1>2. ~is_bank_switched'
  BY <1>1 DEF is_bank_switched
<1>3. 2 * MemSize \in Nat /\ length \in Nat /\ position' \in Nat
  BY <1>1, FileTypes, Layout
<1>4. Clean(ReadAt(0, 2 * MemSize), 2 * MemSize)
  <2>1. Clean(ReadAt(0, 2 * MemSize), 0 + 2 * MemSize)
    BY <1>3, Read
  <2> QED
    BY <2>1, <1>3
<1>5. ReaderClean'
  BY <1>1, <1>2, <1>4 DEF ReaderClean
<1>6. Typed' /\ Reading' /\ MemoryLoaded' /\ BanksThere'
  BY <1>1, <1>3 DEF Typed, Reading, MemoryLoaded, BanksThere
<1>7. ReaderComplete'
  BY <1>2 DEF ReaderComplete
<1> QED
  BY <1>5, <1>6, <1>7

-----------------------------------------------------------------------------
(* Loading.                                                                *)

LEMMA CartBanksInv == IInv /\ CartBanks => IInv'
<1> SUFFICES ASSUME IInv, CartBanks PROVE IInv'
  OBVIOUS
<1> USE DEF IInv
<1>1. /\ phase = "cart" /\ is_bank_switched
      /\ UNCHANGED <<header, length, position, reader, memory_, banks_>>
  BY DEF CartBanks, file
<1>2. is_bank_switched' = is_bank_switched
  BY <1>1 DEF is_bank_switched
<1>3. UNCHANGED BanksInFile
  BY <1>1 DEF BanksInFile
<1>4. DOMAIN reader = 0 .. BanksInFile - 1 /\ BanksInFile \in Nat
  BY <1>1, FileTypes DEF ReaderComplete
<1>5. ReaderClean' /\ Reading' /\ ReaderComplete'
  <2>1. phase' \in {"load", "crashed"}
    BY DEF CartBanks
  <2> QED
    BY <2>1, <1>1, <1>2, <1>3 DEF ReaderClean, Reading, ReaderComplete, Clean
<1> DEFINE there == \A spot \in 0 .. Spots - 1 : header.initial[spot] \in DOMAIN reader
<1>6. CASE there
  <2> DEFINE image == [a \in Addresses |->
                         IF a < WindowBase THEN cart[a]
                         ELSE LET spot == (a - WindowBase) \div BankSize
                              IN  reader[header.initial[spot]][(a - WindowBase) % BankSize]]
  <2>1. cart' = WithDriver(image) /\ phase' = "load"
    BY <1>6 DEF CartBanks
  <2>2. ASSUME NEW a \in Addresses, ~(a < WindowBase) PROVE image[a] \in Nat
    <3> DEFINE o == a - WindowBase
    <3>1. o \in Nat /\ o < Spots * BankSize
      BY <2>2, Layout DEF Addresses
    <3>2. o \div BankSize \in 0 .. Spots - 1
      BY <3>1, Layout, QuotientBelow
    <3>3. o % BankSize \in 0 .. BankSize - 1
      BY <3>1, Layout, Division
    <3>4. Clean(reader[header.initial[o \div BankSize]], BankSize)
      BY <3>2, <1>1, <1>6 DEF ReaderClean
    <3> QED
      BY <2>2, <3>3, <3>4 DEF Clean
  <2> HIDE DEF image
  <2>3. Confined(cart)'
    <3> SUFFICES ASSUME NEW a \in Addresses, cart'[a] = Junk PROVE a < WindowBase
      BY <1>1, <1>2 DEF Confined
    <3>1. a \notin DriverCells
      BY <2>1 DEF WithDriver, Junk, Driver
    <3>2. image[a] = Junk
      BY <2>1, <3>1 DEF WithDriver
    <3> QED
      BY <2>2, <3>2 DEF Junk
  <2>4. Typed'
    BY <1>1, <2>1 DEF Typed, WithDriver
  <2>5. MemoryLoaded'
    BY <1>1, <2>1, <2>3 DEF MemoryLoaded
  <2>6. BanksThere'
    <3>1. \A spot \in 0 .. Spots - 1 : header.initial[spot] < BanksInFile
      BY <1>4, <1>6
    <3> QED
      BY <1>1, <1>3, <2>1, <3>1 DEF BanksThere
  <2> QED
    BY <1>5, <2>4, <2>5, <2>6
<1>7. CASE ~there
  <2>1. phase' = "crashed" /\ cart' = cart
    BY <1>7 DEF CartBanks
  <2>2. \E spot \in 0 .. Spots - 1 : header.initial[spot] >= BanksInFile
    BY <1>4, <1>7, FileTypes
  <2>3. Typed' /\ MemoryLoaded' /\ BanksThere'
    BY <1>1, <1>3, <2>1, <2>2 DEF Typed, MemoryLoaded, BanksThere
  <2> QED
    BY <1>5, <2>3
<1> QED
  BY <1>6, <1>7

LEMMA CartFlatInv == IInv /\ CartFlat => IInv'
<1> SUFFICES ASSUME IInv, CartFlat PROVE IInv'
  OBVIOUS
<1> USE DEF IInv
<1> DEFINE image == [a \in Addresses |-> IF a \in header.load .. MemSize - 2
                                         THEN reader[0][a - header.load] ELSE cart[a]]
<1>1. /\ phase = "cart" /\ ~is_bank_switched
      /\ UNCHANGED <<header, length, position, reader, memory_, banks_>>
      /\ cart' = WithDriver(image) /\ phase' = "load"
  BY DEF CartFlat, file
<1>2. ~is_bank_switched'
  BY <1>1 DEF is_bank_switched
<1>3. header.load \in Nat /\ header.load < MemSize
  BY FileTypes, Layout DEF Addresses
<1>4. ASSUME NEW a \in header.load .. MemSize - 2 PROVE image[a] \in Nat
  <2>1. a \in Addresses /\ a - header.load \in 0 .. 2 * MemSize - 1
    BY <1>3, Layout DEF Addresses
  <2> QED
    BY <2>1, <1>1 DEF ReaderClean, Clean
<1> HIDE DEF image
<1>5. Confined(cart)'
  <2> SUFFICES ASSUME NEW a \in Addresses, cart'[a] = Junk
               PROVE  a < header.load \/ a = MemSize - 1
    BY <1>1, <1>2 DEF Confined
  <2>1. image[a] = Junk
    BY <1>1 DEF WithDriver, Junk, Driver
  <2>2. a \notin header.load .. MemSize - 2
    BY <1>4, <2>1 DEF Junk
  <2> QED
    BY <2>2, <1>3, Layout DEF Addresses
<1>6. Typed' /\ Reading' /\ MemoryLoaded'
  BY <1>1, <1>5 DEF Typed, WithDriver, Reading, MemoryLoaded
<1>7. ReaderClean' /\ ReaderComplete' /\ BanksThere'
  BY <1>1, <1>2 DEF ReaderClean, ReaderComplete, BanksThere
<1> QED
  BY <1>6, <1>7

LEMMA LoadInv == IInv /\ Load => IInv'
<1> SUFFICES ASSUME IInv, Load PROVE IInv'
  OBVIOUS
<1> USE DEF IInv
<1>1. /\ phase = "load" /\ phase' = "running"
      /\ UNCHANGED <<header, length, position, reader, cart>>
      /\ memory_' = LoadCart(memory_, cart, 0, MemSize)
      /\ banks_' = [n \in 0 .. NumBanks - 1 |-> Bank(n)]
  BY DEF Load, file
<1>2. is_bank_switched' = is_bank_switched /\ UNCHANGED BanksInFile
  BY <1>1 DEF is_bank_switched, BanksInFile
<1>3. DOMAIN memory_ = {}
  BY <1>1 DEF MemoryLoaded
<1>4. memory_' = [a \in Addresses |-> cart[a]]
  <2>1. 0 .. 0 + MemSize - 1 = Addresses
    BY Layout DEF Addresses
  <2>2. ASSUME NEW a \in Addresses PROVE a - 0 = a
    BY Layout DEF Addresses
  <2> QED
    BY <1>1, <1>3, <2>1, <2>2 DEF LoadCart
<1>5. Confined(memory_)'
  BY <1>1, <1>2, <1>4 DEF MemoryLoaded, Confined
<1>6. ASSUME NEW n \in 0 .. NumBanks - 1 PROVE Clean(Bank(n), BankSize)
  <2> SUFFICES ASSUME NEW o \in 0 .. BankSize - 1, n \in DOMAIN reader
               PROVE  reader[n][o] \in Nat
    BY DEF Clean, Bank
  <2>1. CASE is_bank_switched
    BY <2>1 DEF ReaderClean, Clean
  <2>2. CASE ~is_bank_switched
    <3>1. n = 0 /\ Clean(reader[0], 2 * MemSize)
      BY <1>1, <2>2 DEF ReaderClean
    <3>2. o \in 0 .. 2 * MemSize - 1
      BY Layout
    <3> QED
      BY <3>1, <3>2 DEF Clean
  <2> QED
    BY <2>1, <2>2
<1>7. MemoryLoaded'
  BY <1>1, <1>4, <1>5, <1>6 DEF MemoryLoaded
<1>8. Typed' /\ Reading'
  BY <1>1 DEF Typed, Reading
<1>9. ReaderClean' /\ ReaderComplete' /\ BanksThere'
  BY <1>1, <1>2 DEF ReaderClean, ReaderComplete, BanksThere, Clean
<1> QED
  BY <1>7, <1>8, <1>9

-----------------------------------------------------------------------------
(* Playing.                                                                *)

LEMMA MirrorsInside ==
  ASSUME NEW a \in Addresses PROVE Mirrors(a) \subseteq Addresses
<1>1. CASE a < RamEnd
  <2>1. a \in Nat /\ a % RamSize \in 0 .. RamSize - 1
    BY Layout, Division DEF Addresses
  <2>2. ASSUME NEW k \in 0 .. 3
        PROVE  k * RamSize \in Nat /\ k * RamSize <= 3 * RamSize
    BY Layout
  <2>3. RamEnd <= MemSize
    BY Layout
  <2> QED
    BY <1>1, <2>1, <2>2, <2>3, Layout DEF Mirrors, Addresses
<1>2. CASE ~(a < RamEnd)
  BY <1>2 DEF Mirrors
<1> QED
  BY <1>1, <1>2

(* A switch leaves no junk behind and changes nothing outside the window.  *)
LEMMA SwitchClean ==
  ASSUME NEW mem, NEW bank, NEW spot \in 0 .. Spots - 1,
         DOMAIN mem = Addresses, Clean(bank, BankSize)
  PROVE  /\ DOMAIN BankSwitch(mem, spot, bank) = Addresses
         /\ \A a \in Addresses :
              /\ a \in Window(spot) => BankSwitch(mem, spot, bank)[a] \in Nat
              /\ a \notin Window(spot) => BankSwitch(mem, spot, bank)[a] = mem[a]
<1> DEFINE base == WindowBase + spot * BankSize
<1>1. /\ base \in Nat /\ Window(spot) = base .. base + BankSize - 1
      /\ Window(spot) \subseteq Addresses
  BY WindowInside, Layout
<1>2. {base + o : o \in DOMAIN bank} = Window(spot)
  <2> HIDE DEF base
  <2>1. ASSUME NEW o \in 0 .. BankSize - 1 PROVE base + o \in Window(spot)
    BY <1>1, Layout
  <2>2. ASSUME NEW a \in Window(spot) PROVE a - base \in 0 .. BankSize - 1 /\ a = base + (a - base)
    BY <1>1, Layout
  <2> QED
    BY <2>1, <2>2 DEF Clean
<1>3. BankSwitch(mem, spot, bank) =
        [a \in Addresses |-> IF a \in Window(spot)
                             THEN bank[a - WindowBase - spot * BankSize] ELSE mem[a]]
  BY <1>1, <1>2 DEF BankSwitch
<1>4. ASSUME NEW a \in Window(spot)
      PROVE  a - WindowBase - spot * BankSize \in 0 .. BankSize - 1
  BY <1>1, WindowInside, Layout
<1> QED
  BY <1>3, <1>4 DEF Clean

LEMMA StoreInv ==
  ASSUME IInv, NEW a \in StoreAddresses, NEW b \in 0 .. NumBanks - 1, Store(a, b)
  PROVE  IInv'
<1> USE DEF IInv
<1>1. /\ phase = "running" /\ memory_' = BusSetByte(memory_, banks_, a, b)
      /\ UNCHANGED <<phase, header, length, position, reader, cart, banks_>>
  BY DEF Store, file
<1>2. is_bank_switched' = is_bank_switched /\ UNCHANGED BanksInFile
  BY <1>1 DEF is_bank_switched, BanksInFile
<1>3. /\ DOMAIN memory_ = Addresses /\ Confined(memory_)
      /\ \A n \in 0 .. NumBanks - 1 : Clean(banks_[n], BankSize)
  BY <1>1 DEF MemoryLoaded
<1>4. a \in Addresses /\ a \in Nat /\ b \in Nat
  BY ReaderAssumption, FileTypes, Layout DEF Addresses
<1>5. DOMAIN memory_' = Addresses /\ Confined(memory_)'
  <2>1. CASE IsBankPort(a)
    <3> DEFINE spot == a - BankPort
    <3>1. spot \in 0 .. Spots - 1
      BY <2>1, Layout DEF IsBankPort
    <3>2. memory_' = BankSwitch(memory_, spot, banks_[b])
      BY <1>1, <2>1 DEF BusSetByte
    <3> HIDE DEF spot
    <3>3. /\ DOMAIN memory_' = Addresses
          /\ \A x \in Addresses : /\ x \in Window(spot) => memory_'[x] \in Nat
                                  /\ x \notin Window(spot) => memory_'[x] = memory_[x]
      BY <1>3, <3>1, <3>2, SwitchClean
    <3>4. ASSUME NEW x \in Addresses, memory_'[x] = Junk PROVE memory_[x] = Junk
      BY <3>3, <3>4 DEF Junk
    <3> QED
      BY <1>1, <1>2, <1>3, <3>3, <3>4 DEF Confined
  <2>2. CASE ~IsBankPort(a) /\ IsSoundRegister(a)
    <3>1. memory_' = memory_
      BY <1>1, <2>2 DEF BusSetByte
    <3> QED
      BY <1>1, <1>2, <1>3, <3>1 DEF Confined
  <2>3. CASE ~IsBankPort(a) /\ ~IsSoundRegister(a)
    <3>1. memory_' = [x \in Addresses |-> IF x \in Mirrors(a) THEN b ELSE memory_[x]]
      BY <1>1, <1>3, <1>4, <2>3, MirrorsInside DEF BusSetByte, SetByte, Put
    <3>2. ASSUME NEW x \in Addresses, memory_'[x] = Junk PROVE memory_[x] = Junk
      BY <1>4, <3>1, <3>2 DEF Junk
    <3> QED
      BY <1>1, <1>2, <1>3, <3>1, <3>2 DEF Confined
  <2> QED
    BY <2>1, <2>2, <2>3
<1>6. Typed' /\ Reading' /\ MemoryLoaded'
  BY <1>1, <1>3, <1>5 DEF Typed, Reading, MemoryLoaded
<1>7. ReaderClean' /\ ReaderComplete' /\ BanksThere'
  BY <1>1, <1>2 DEF ReaderClean, ReaderComplete, BanksThere, Clean
<1> QED
  BY <1>6, <1>7

-----------------------------------------------------------------------------
THEOREM LoadInvariant == Spec => []IInv
<1>1. IInv /\ UNCHANGED vars => IInv'
  BY DEF vars, file, IInv, Typed, Reading, ReadSoFar, ReaderClean, ReaderComplete,
         MemoryLoaded, BanksThere, Padding, BanksInFile, Confined, Clean, is_bank_switched
<1>2. IInv /\ Next => IInv'
  BY ReadBankInv, ReadBeyondInv, ReadFlatInv, CartBanksInv, CartFlatInv, LoadInv, StoreInv
     DEF Next
<1>3. IInv /\ [Next]_vars => IInv'
  BY <1>1, <1>2
<1> QED
  BY InitInv, <1>3, PTL DEF Spec

(* Whatever the file, its header and the writes of the tune: a byte of the *)
(* malloc'ed cart that was never written shows only below the windows, or  *)
(* below the load address, or at the very end of the memory.               *)
THEOREM LoadJunkConfined == Spec => []JunkConfined
<1>1. IInv => JunkConfined
  BY DEF IInv, MemoryLoaded, Confined, JunkConfined
<1> QED
  BY <1>1, LoadInvariant, PTL

(* A file loads if and only if the header names banks that the loop of the *)
(* constructor allocates, for every size of the banks and every file.      *)
THEOREM LoadNeedsBanks == Spec => []LoadsIfBanksExist
<1>1. IInv => LoadsIfBanksExist
  BY DEF IInv, ReaderComplete, BanksThere, LoadsIfBanksExist
<1> QED
  BY <1>1, LoadInvariant, PTL

-----------------------------------------------------------------------------
(* NSFReader implements Cartridge.  Besides the invariant this takes that  *)
(* every buffer on the way holds the bytes that the format puts there.     *)

LEMMA SameLayout ==
  /\ Promise!Spots = Spots /\ Promise!Addresses = Addresses
  /\ Promise!Banked = is_bank_switched
  BY DEF Promise!Spots, Spots, Promise!Addresses, Addresses, Promise!Banked, is_bank_switched

Contents ==
  /\ is_bank_switched =>
       \A n \in DOMAIN reader, o \in 0 .. BankSize - 1 : reader[n][o] = Promise!BankByte(n, o)
  /\ phase = "cart" /\ ~is_bank_switched =>
       \A o \in 0 .. 2 * MemSize - 1 : reader[0][o] = IF o < length THEN FileByte(o) ELSE 0
  /\ phase = "load" => Promise!Shows(cart)
  /\ phase = "running" /\ is_bank_switched =>
       \A n \in 0 .. NumBanks - 1, o \in 0 .. BankSize - 1 :
         banks_[n][o] = Promise!BankByte(n, o)

LEMMA ReadBankContents == IInv /\ Contents /\ ReadBank => Contents'
<1> SUFFICES ASSUME IInv, Contents, ReadBank PROVE Contents'
  OBVIOUS
<1>1. /\ phase = "read" /\ is_bank_switched
      /\ UNCHANGED <<header, length, cart, memory_, banks_>>
  BY DEF ReadBank, file
<1>2. is_bank_switched' = is_bank_switched
  BY <1>1 DEF is_bank_switched
<1>3. PICK k \in 0 .. NumBanks : ReadSoFar(k)
  BY <1>1 DEF IInv, Reading
<1>4. /\ k \in Nat /\ Padding \in 0 .. BankSize - 1 /\ length \in Nat
      /\ position \in Nat /\ BankSize \in Nat
  BY FileTypes, Layout DEF IInv, Typed
<1>5. Cardinality(DOMAIN reader) = k
  BY <1>3, <1>4, BanksRead DEF ReadSoFar
<1> DEFINE padding == IF k = 0 THEN Padding ELSE 0
           data    == ReadAt(padding, BankSize - padding)
<1>6. /\ reader' = [n \in 0 .. k |-> IF n = k THEN data ELSE reader[n]]
      /\ phase' \in {"read", "cart"}
  BY <1>5 DEF ReadBank, Padding
<1>7. ASSUME NEW n \in Nat, NEW o \in 0 .. BankSize - 1
      PROVE  Promise!BankByte(n, o)' = Promise!BankByte(n, o)
  BY <1>1 DEF Promise!BankByte
<1>8. k * BankSize \in Nat
  BY <1>4
<1>9. ASSUME NEW o \in 0 .. BankSize - 1 PROVE data[o] = Promise!BankByte(k, o)
  <2> DEFINE b == (k * BankSize) + o - Padding
  <2>1. o \in 0 .. padding + (BankSize - padding) - 1
    BY <1>4
  <2>2. data[o] = IF o >= padding /\ position + o - padding < length
                  THEN FileByte(position + o - padding) ELSE 0
    BY <2>1 DEF ReadAt
  <2>3. Promise!BankByte(k, o) = IF b \in 0 .. length - 1 THEN FileByte(b) ELSE 0
    BY DEF Promise!BankByte, Padding
  <2>4. o >= padding => position + o - padding = b /\ b \in Nat
    <3>1. CASE k = 0
      BY <3>1, <1>3, <1>4 DEF ReadSoFar
    <3>2. CASE k # 0
      BY <3>2, <1>3, <1>4, <1>8 DEF ReadSoFar
    <3> QED
      BY <3>1, <3>2
  <2>5. ~(o >= padding) => b < 0
    BY <1>4, <1>8
  <2> HIDE DEF b, data
  <2> QED
    BY <2>2, <2>3, <2>4, <2>5, <1>4
<1> HIDE DEF data, padding
<1>10. ASSUME NEW n \in 0 .. k, NEW o \in 0 .. BankSize - 1
       PROVE  reader'[n][o] = Promise!BankByte(n, o)'
  <2>1. n # k => n \in DOMAIN reader
    BY <1>3, <1>4 DEF ReadSoFar
  <2> QED
    BY <2>1, <1>1, <1>4, <1>6, <1>7, <1>9 DEF Contents
<1>11. DOMAIN reader' = 0 .. k
  BY <1>6
<1> QED
  BY <1>1, <1>2, <1>6, <1>10, <1>11 DEF Contents

LEMMA ReadFlatContents == IInv /\ Contents /\ ReadFlat => Contents'
<1> SUFFICES ASSUME IInv, Contents, ReadFlat PROVE Contents'
  OBVIOUS
<1>1. /\ phase = "read" /\ ~is_bank_switched /\ phase' = "cart"
      /\ UNCHANGED <<header, length>>
      /\ reader' = [n \in {0} |-> ReadAt(0, 2 * MemSize)]
  BY DEF ReadFlat, file
<1>2. ~is_bank_switched'
  BY <1>1 DEF is_bank_switched
<1>3. position = 0 /\ MemSize \in Nat /\ length \in Nat
  BY <1>1, FileTypes, Layout DEF IInv, Reading
<1>4. ASSUME NEW o \in 0 .. 2 * MemSize - 1
      PROVE  ReadAt(0, 2 * MemSize)[o] = IF o < length THEN FileByte(o) ELSE 0
  <2>1. o \in 0 .. 0 + 2 * MemSize - 1 /\ o >= 0 /\ position + o - 0 = o
    BY <1>3
  <2> QED
    BY <2>1 DEF ReadAt
<1> QED
  BY <1>1, <1>2, <1>4 DEF Contents, FileByte

LEMMA CartBanksContents == IInv /\ Contents /\ CartBanks => Contents'
<1> SUFFICES ASSUME IInv, Contents, CartBanks, phase' = "load" PROVE Contents'
  <2>1. CartBanks => phase' \in {"load", "crashed"} /\ UNCHANGED <<header, length, reader>>
    BY DEF CartBanks, file
  <2> QED
    BY <2>1 DEF Contents, is_bank_switched, Promise!BankByte
<1>1. /\ phase = "cart" /\ is_bank_switched /\ UNCHANGED <<header, length, reader>>
      /\ \A spot \in 0 .. Spots - 1 : header.initial[spot] \in DOMAIN reader
      /\ cart' = WithDriver(
               [a \in Addresses |->
                  IF a < WindowBase THEN cart[a]
                  ELSE LET spot == (a - WindowBase) \div BankSize
                       IN  reader[header.initial[spot]][(a - WindowBase) % BankSize]])
  BY DEF CartBanks, file
<1>2. is_bank_switched'
  BY <1>1 DEF is_bank_switched
<1>3. ASSUME NEW a \in WindowBase .. MemSize - 1
      PROVE  cart'[a] = Promise!BankByte(header.initial[Promise!Spot(a)], Promise!Offset(a))
  <2> DEFINE o == a - WindowBase
  <2>1. a \in Addresses /\ ~(a < WindowBase) /\ o \in Nat /\ o < Spots * BankSize
    BY Layout DEF Addresses
  <2>2. a \notin DriverCells
    BY <2>1, ReaderAssumption, Layout
  <2>3. o \div BankSize \in 0 .. Spots - 1 /\ o % BankSize \in 0 .. BankSize - 1
    BY <2>1, Layout, QuotientBelow, Division
  <2>4. cart'[a] = reader[header.initial[o \div BankSize]][o % BankSize]
    BY <1>1, <2>1, <2>2 DEF WithDriver
  <2>5. cart'[a] = Promise!BankByte(header.initial[o \div BankSize], o % BankSize)
    BY <1>1, <2>3, <2>4 DEF Contents
  <2> QED
    BY <2>5 DEF Promise!Spot, Promise!Offset
<1>4. Promise!Shows(cart)'
  <2>1. DOMAIN cart' = Addresses
    BY <1>1 DEF WithDriver
  <2>2. ASSUME NEW a \in WindowBase .. MemSize - 1
        PROVE  cart'[a] = Promise!BankByte(header.initial[Promise!Spot(a)], Promise!Offset(a))'
    BY <1>1, <1>3 DEF Promise!BankByte, Promise!Spot, Promise!Offset
  <2>3. Promise!Banked'
    BY <1>2, SameLayout DEF Promise!Banked, is_bank_switched
  <2> QED
    BY <1>1, <2>1, <2>2, <2>3, SameLayout DEF Promise!Shows
<1>5. \A n \in DOMAIN reader', o \in 0 .. BankSize - 1 :
        reader'[n][o] = Promise!BankByte(n, o)'
  BY <1>1 DEF Contents, Promise!BankByte
<1> QED
  BY <1>2, <1>4, <1>5 DEF Contents

LEMMA CartFlatContents == IInv /\ Contents /\ CartFlat => Contents'
<1> SUFFICES ASSUME IInv, Contents, CartFlat PROVE Contents'
  OBVIOUS
<1>1. /\ phase = "cart" /\ ~is_bank_switched /\ phase' = "load"
      /\ UNCHANGED <<header, length, reader>>
      /\ cart' = WithDriver(
           [a \in Addresses |-> IF a \in header.load .. MemSize - 2
                                THEN reader[0][a - header.load] ELSE cart[a]])
  BY DEF CartFlat, file
<1>2. ~is_bank_switched'
  BY <1>1 DEF is_bank_switched
<1>3. header.load \in Nat /\ MemSize \in Nat
  BY FileTypes, Layout DEF IInv
<1>4. ASSUME NEW a \in (header.load .. MemSize - 2) \ DriverCells
      PROVE  cart'[a] = Promise!FlatByte(a)
  <2>1. a \in Addresses /\ a - header.load \in 0 .. 2 * MemSize - 1
    BY <1>3 DEF Addresses
  <2>2. cart'[a] = reader[0][a - header.load]
    BY <1>1, <2>1 DEF WithDriver
  <2> QED
    BY <1>1, <2>1, <2>2 DEF Contents, Promise!FlatByte
<1>5. Promise!Shows(cart)'
  <2>1. DOMAIN cart' = Addresses
    BY <1>1 DEF WithDriver
  <2>2. \A a \in (header.load .. MemSize - 2) \ DriverCells : cart'[a] = Promise!FlatByte(a)'
    BY <1>1, <1>4 DEF Promise!FlatByte
  <2>3. ~Promise!Banked'
    BY <1>2 DEF Promise!Banked, Promise!Spots, is_bank_switched, Spots
  <2> QED
    BY <1>1, <2>1, <2>2, <2>3, SameLayout DEF Promise!Shows
<1> QED
  BY <1>1, <1>2, <1>5 DEF Contents

LEMMA LoadContents == IInv /\ Contents /\ Load => Contents'
<1> SUFFICES ASSUME IInv, Contents, Load PROVE Contents'
  OBVIOUS
<1>1. /\ phase = "load" /\ phase' = "running" /\ UNCHANGED <<header, length, reader>>
      /\ banks_' = [n \in 0 .. NumBanks - 1 |-> Bank(n)]
  BY DEF Load, file
<1>2. is_bank_switched' = is_bank_switched
  BY <1>1 DEF is_bank_switched
<1>3. ASSUME is_bank_switched, NEW n \in 0 .. NumBanks - 1, NEW o \in 0 .. BankSize - 1
      PROVE  Bank(n)[o] = Promise!BankByte(n, o)
  <2>1. CASE n \in DOMAIN reader
    BY <1>3, <2>1 DEF Bank, Contents
  <2>2. CASE n \notin DOMAIN reader
    <3> DEFINE q == (Padding + length) \div BankSize
    <3>1. /\ n \in Nat /\ length \in Nat /\ Padding \in Nat
          /\ Padding + length \in Nat /\ BankSize \in Nat \ {0}
      BY FileTypes, Layout DEF IInv
    <3>2. q \in Nat /\ Padding + length < (q * BankSize) + BankSize
      BY <3>1, QuotientAbove
    <3>3. n >= q + 1
      BY <1>1, <1>3, <2>2, <3>1, <3>2 DEF IInv, ReaderComplete, BanksInFile, Padding
    <3> HIDE DEF q
    <3>4. (n - (q + 1)) * BankSize >= 0
      BY <3>1, <3>2, <3>3
    <3>5. /\ (n - (q + 1)) * BankSize = n * BankSize - (q + 1) * BankSize
          /\ (q + 1) * BankSize = (q * BankSize) + BankSize
          /\ n * BankSize \in Nat /\ q * BankSize \in Nat
      BY <3>1, <3>2
    <3>6. ((n * BankSize) + o) - Padding >= length
      BY <3>1, <3>2, <3>4, <3>5
    <3>7. Promise!BankByte(n, o) = 0
      BY <3>1, <3>5, <3>6 DEF Promise!BankByte, Padding
    <3> QED
      BY <2>2, <3>7 DEF Bank
  <2> QED
    BY <2>1, <2>2
<1>4. ASSUME is_bank_switched, NEW n \in 0 .. NumBanks - 1, NEW o \in 0 .. BankSize - 1
      PROVE  banks_'[n][o] = Promise!BankByte(n, o)'
  BY <1>1, <1>3, <1>4 DEF Promise!BankByte
<1>5. ASSUME is_bank_switched, NEW n \in DOMAIN reader, NEW o \in 0 .. BankSize - 1
      PROVE  reader'[n][o] = Promise!BankByte(n, o)'
  BY <1>1, <1>5 DEF Contents, Promise!BankByte
<1> QED
  BY <1>1, <1>2, <1>4, <1>5 DEF Contents

LEMMA OtherContents ==
  ASSUME Contents,
         \/ ReadBeyond
         \/ \E a \in StoreAddresses, b \in 0 .. NumBanks - 1 : Store(a, b)
         \/ UNCHANGED vars
  PROVE  Contents'
<1>1. CASE ReadBeyond
  BY <1>1 DEF ReadBeyond, file, Contents, is_bank_switched, Promise!BankByte
<1>2. CASE \E a \in StoreAddresses, b \in 0 .. NumBanks - 1 : Store(a, b)
  BY <1>2 DEF Store, file, Contents, is_bank_switched, Promise!BankByte
<1>3. CASE UNCHANGED vars
  BY <1>3 DEF vars, file, Contents, is_bank_switched, Promise!BankByte, Promise!Shows,
              Promise!Banked, Promise!FlatByte, Promise!Spot, Promise!Offset
<1> QED
  BY <1>1, <1>2, <1>3

LEMMA ContentsInvariant == Spec => []Contents
<1>1. Init => Contents
  <2>1. Init => DOMAIN reader = {} /\ phase = "read"
    BY DEF Init
  <2> QED
    BY <2>1 DEF Contents
<1>2. IInv /\ Contents /\ [Next]_vars => Contents'
  BY ReadBankContents, ReadFlatContents, CartBanksContents, CartFlatContents,
     LoadContents, OtherContents
     DEF Next
<1> QED
  BY <1>1, <1>2, LoadInvariant, PTL DEF Spec

-----------------------------------------------------------------------------
(* The steps.                                                              *)

LEMMA StartsWithCart == IInv /\ Contents /\ Load => Promise!Start
<1> SUFFICES ASSUME IInv, Contents, Load PROVE Promise!Start
  OBVIOUS
<1>1. /\ phase = "load" /\ phase' = "running" /\ UNCHANGED <<header, length, cart>>
      /\ memory_' = LoadCart(memory_, cart, 0, MemSize)
      /\ memory_ = <<>> /\ DOMAIN memory_ = {}
  BY DEF Load, file, IInv, MemoryLoaded
<1>2. 0 .. 0 + MemSize - 1 = Addresses /\ \A a \in Addresses : a - 0 = a
  BY Layout DEF Addresses
<1>3. memory_' = [a \in Addresses |-> cart[a]]
  BY <1>1, <1>2 DEF LoadCart
<1>4. Promise!Shows(cart) /\ header.load \in Nat
  BY <1>1, FileTypes DEF Contents, IInv
<1>5. Promise!Shows(memory_')
  <2>1. DOMAIN memory_' = Addresses
    BY <1>3
  <2>2. /\ WindowBase .. MemSize - 1 \subseteq Addresses
        /\ header.load .. MemSize - 2 \subseteq Addresses
    BY <1>4, Layout DEF Addresses
  <2> QED
    BY <1>3, <1>4, <2>1, <2>2, SameLayout DEF Promise!Shows
<1> QED
  BY <1>1, <1>5 DEF Promise!Start

LEMMA MirrorsAreSameCell ==
  ASSUME NEW a \in Addresses, NEW x \in Addresses
  PROVE  x \in Mirrors(a) <=> Promise!SameCell(x, a)
<1>1. /\ a \in Nat /\ x \in Nat /\ RamSize \in Nat \ {0} /\ RamEnd = 4 * RamSize
  BY Layout DEF Addresses
<1>2. CASE ~(a < RamEnd)
  BY <1>2 DEF Mirrors, Promise!SameCell
<1>3. CASE a < RamEnd
  <2> DEFINE r == a % RamSize
  <2>1. r \in 0 .. RamSize - 1
    BY <1>1, Division
  <2>2. ASSUME NEW k \in 0 .. 3, x = r + k * RamSize
        PROVE  x < RamEnd /\ x % RamSize = r
    <3>1. k * RamSize \in Nat /\ k * RamSize <= 3 * RamSize
      BY <1>1
    <3> HIDE DEF r
    <3>2. k \in Nat /\ x < RamEnd /\ k * RamSize <= x /\ x < k * RamSize + RamSize
      BY <1>1, <2>1, <2>2, <3>1
    <3>3. x % RamSize = x - k * RamSize
      BY <1>1, <3>2, QuotientIs
    <3> QED
      BY <2>1, <2>2, <3>1, <3>2, <3>3
  <2>3. ASSUME x < RamEnd, x % RamSize = r
        PROVE  \E k \in 0 .. 3 : x = r + k * RamSize
    <3> DEFINE k == x \div RamSize
    <3>1. k \in 0 .. 4 - 1
      BY <1>1, <2>3, QuotientBelow
    <3>2. x = k * RamSize + (x % RamSize)
      BY <1>1, Division
    <3> HIDE DEF k, r
    <3>3. x = r + k * RamSize
      BY <1>1, <2>1, <2>3, <3>1, <3>2
    <3> QED
      BY <3>1, <3>3
  <2>4. x \in Mirrors(a) <=> \E k \in 0 .. 3 : x = r + k * RamSize
    BY <1>3 DEF Mirrors
  <2>5. x = a => x < RamEnd /\ x % RamSize = r
    BY <1>3
  <2>6. Promise!SameCell(x, a) <=> x < RamEnd /\ x % RamSize = r
    BY <1>3, <2>5 DEF Promise!SameCell
  <2> QED
    BY <2>2, <2>3, <2>4, <2>6
<1> QED
  BY <1>2, <1>3

(* A window is the addresses with one quotient.                            *)
LEMMA WindowIsSpot ==
  ASSUME NEW spot \in 0 .. Spots - 1, NEW x \in Addresses
  PROVE  /\ x \in Window(spot) <=> x >= WindowBase /\ Promise!Spot(x) = spot
         /\ x \in Window(spot) => Promise!Offset(x) = x - WindowBase - spot * BankSize
<1> DEFINE y == x - WindowBase
<1>1. /\ spot * BankSize \in Nat /\ BankSize \in Nat \ {0} /\ WindowBase \in Nat /\ x \in Nat
      /\ Window(spot) = WindowBase + spot * BankSize .. WindowBase + spot * BankSize + BankSize - 1
  BY WindowInside, Layout DEF Addresses
<1>2. ASSUME x \in Window(spot)
      PROVE  x >= WindowBase /\ y \div BankSize = spot /\ y % BankSize = y - spot * BankSize
  <2>1. spot \in Nat /\ y \in Nat /\ spot * BankSize <= y /\ y < spot * BankSize + BankSize
    BY <1>1, <1>2
  <2> HIDE DEF y
  <2>2. y \div BankSize = spot /\ y % BankSize = y - spot * BankSize
    BY <1>1, <2>1, QuotientIs
  <2> USE DEF y
  <2> QED
    BY <1>1, <2>1, <2>2
<1>3. ASSUME x >= WindowBase, y \div BankSize = spot
      PROVE  x \in Window(spot)
  <2>1. y \in Nat
    BY <1>1, <1>3
  <2> HIDE DEF y
  <2>2. y = (y \div BankSize) * BankSize + (y % BankSize) /\ y % BankSize \in 0 .. BankSize - 1
    BY <1>1, <2>1, Division
  <2>3. y = spot * BankSize + (y % BankSize)
    BY <1>3, <2>2
  <2> DEFINE r == y % BankSize
  <2>4. r \in 0 .. BankSize - 1 /\ y = spot * BankSize + r
    BY <2>2, <2>3
  <2> HIDE DEF r
  <2>5. spot * BankSize <= y /\ y < spot * BankSize + BankSize
    BY <1>1, <2>1, <2>4
  <2> USE DEF y
  <2> QED
    BY <1>1, <2>5
<1> QED
  BY <1>1, <1>2, <1>3 DEF Promise!Spot, Promise!Offset

LEMMA StoreMaps ==
  ASSUME IInv, Contents, NEW a \in StoreAddresses, NEW b \in 0 .. NumBanks - 1, Store(a, b)
  PROVE  Promise!Next \/ UNCHANGED Promise!vars
<1>1. /\ phase = "running" /\ memory_' = BusSetByte(memory_, banks_, a, b)
      /\ UNCHANGED <<phase, header, length>>
      /\ DOMAIN memory_ = Addresses
      /\ \A n \in 0 .. NumBanks - 1 : Clean(banks_[n], BankSize)
  BY DEF Store, file, IInv, MemoryLoaded
<1>2. a \in Addresses /\ memory_ # <<>>
  <2>1. 0 \in Addresses /\ DOMAIN <<>> = {}
    BY Layout DEF Addresses
  <2> QED
    BY <1>1, <2>1, ReaderAssumption
<1>3. CASE IsBankPort(a)
  <2> DEFINE spot == a - BankPort
             view == BankSwitch(memory_, spot, banks_[b])
  <2>1. spot \in 0 .. Spots - 1
    BY <1>3, Layout DEF IsBankPort
  <2>2. memory_' = view
    BY <1>1, <1>3 DEF BusSetByte
  <2> HIDE DEF spot
  <2>3. /\ DOMAIN view = Addresses
        /\ \A x \in Addresses : x \notin Window(spot) => view[x] = memory_[x]
    BY <1>1, <2>1, SwitchClean
  <2>4. ASSUME NEW x \in Window(spot)
        PROVE  /\ x \in Addresses /\ Promise!Offset(x) \in 0 .. BankSize - 1
               /\ view[x] = banks_[b][Promise!Offset(x)]
    <3>1. x \in Addresses /\ Promise!Offset(x) = x - WindowBase - spot * BankSize
      BY <2>1, <2>4, WindowInside, WindowIsSpot
    <3>2. Promise!Offset(x) \in 0 .. BankSize - 1
      BY <2>1, <2>4, <3>1, WindowInside, Layout
    <3>3. view[x] = banks_[b][x - WindowBase - spot * BankSize]
      BY <2>1, <2>3, <2>4, <3>1 DEF BankSwitch
    <3> QED
      BY <3>1, <3>2, <3>3
  <2>5. view = [x \in Addresses |-> view[x]]
    BY <2>3 DEF BankSwitch
  <2> HIDE DEF view
  <2>6. ASSUME NEW x \in Addresses
        PROVE  view[x] = IF x >= WindowBase /\ Promise!Spot(x) = spot
                         THEN IF Promise!Banked THEN Promise!BankByte(b, Promise!Offset(x))
                                                ELSE memory_'[x]
                         ELSE memory_[x]
    <3>1. x \in Window(spot) <=> x >= WindowBase /\ Promise!Spot(x) = spot
      BY <2>1, WindowIsSpot
    <3>2. CASE x \in Window(spot) /\ is_bank_switched
      BY <1>1, <2>4, <3>1, <3>2, SameLayout DEF Contents
    <3>3. CASE x \in Window(spot) /\ ~is_bank_switched
      BY <2>2, <3>1, <3>3, SameLayout
    <3>4. CASE x \notin Window(spot)
      BY <2>3, <3>1, <3>4
    <3> QED
      BY <3>2, <3>3, <3>4
  <2>7. Promise!Switch(spot, b)
    <3>1. memory_' = [x \in Addresses |->
                        IF x >= WindowBase /\ Promise!Spot(x) = spot
                        THEN IF Promise!Banked THEN Promise!BankByte(b, Promise!Offset(x))
                                               ELSE memory_'[x]
                        ELSE memory_[x]]
      BY <2>2, <2>5, <2>6
    <3> QED
      BY <1>1, <1>2, <3>1, SameLayout DEF Promise!Switch
  <2> QED
    BY <2>1, <2>7, SameLayout DEF Promise!Next
<1>4. CASE ~IsBankPort(a) /\ IsSoundRegister(a)
  <2>1. memory_' = memory_
    BY <1>1, <1>4 DEF BusSetByte
  <2> QED
    BY <1>1, <2>1 DEF Promise!vars
<1>5. CASE ~IsBankPort(a) /\ ~IsSoundRegister(a)
  <2>1. memory_' = [x \in Addresses |-> IF x \in Mirrors(a) THEN b ELSE memory_[x]]
    BY <1>1, <1>2, <1>5, MirrorsInside DEF BusSetByte, SetByte, Put
  <2>2. memory_' = [x \in Addresses |-> IF Promise!SameCell(x, a) THEN b ELSE memory_[x]]
    BY <1>2, <2>1, MirrorsAreSameCell
  <2>3. Promise!Store(a, b)
    BY <1>1, <1>2, <1>5, <2>2, SameLayout
       DEF Promise!Store, Promise!Spots, Spots, IsBankPort, IsSoundRegister
  <2>4. \E x \in Promise!Addresses, value \in 0 .. NumBanks - 1 : Promise!Store(x, value)
    BY <1>2, <2>3, SameLayout
  <2> QED
    BY <2>4 DEF Promise!Next
<1> QED
  BY <1>3, <1>4, <1>5

(* Before the machine runs the tune sees nothing.                          *)
LEMMA LoadingMaps ==
  ASSUME ReadBank \/ ReadBeyond \/ ReadFlat \/ CartBanks \/ CartFlat
  PROVE  UNCHANGED Promise!vars
<1>1. phase # "running" /\ phase' # "running" /\ UNCHANGED <<header, length>>
  <2>1. CASE ReadBank
    BY <2>1 DEF ReadBank, file
  <2>2. CASE ReadBeyond \/ ReadFlat
    BY <2>2 DEF ReadBeyond, ReadFlat, file
  <2>3. CASE CartBanks
    BY <2>3 DEF CartBanks, file
  <2>4. CASE CartFlat
    BY <2>4 DEF CartFlat, file
  <2> QED
    BY <2>1, <2>2, <2>3, <2>4
<1> QED
  BY <1>1 DEF Promise!vars

(* Every file and every order of writes and bank switches: the tune sees   *)
(* the banks of the format with its own writes over them, through the      *)
(* reader, the cart, the banks of the memory and the copies of a switch.   *)
THEOREM LoadImplementsCartridge == Spec => ImplementsCartridge
<1>1. Init => Promise!Init
  BY DEF Init, Promise!Init
<1>2. IInv /\ Contents /\ Next => Promise!Next \/ UNCHANGED Promise!vars
  <2>1. IInv /\ Contents /\ Load => Promise!Next
    BY StartsWithCart DEF Promise!Next
  <2> QED
    BY <2>1, StoreMaps, LoadingMaps DEF Next
<1>3. UNCHANGED vars => UNCHANGED Promise!vars
  BY DEF vars, file, Promise!vars
<1>4. IInv /\ Contents /\ [Next]_vars => [Promise!Next]_(Promise!vars)
  BY <1>2, <1>3
<1> QED
  BY <1>1, <1>4, LoadInvariant, ContentsInvariant, PTL
     DEF Spec, ImplementsCartridge, Promise!Spec
=============================================================================
