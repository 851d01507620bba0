\* Two windows of three bytes, three banks; the rest is in MCNSFReader.
CONSTANTS
  MemSize = 21
  RamSize = 2
  RamEnd = 8
  ApuFirst = 8
  ApuLast = 9
  ApuStatus = 9
  BankPort = 12
  WindowBase = 15
  BankSize = 3
  NumBanks = 3
  DriverCells <- MCDriverCells
  Headers <- MCHeaders
  Lengths <- MCLengths
  StoreAddresses <- MCStoreAddresses
SPECIFICATION Spec
\* Loading ends in a crash for some files.
CHECK_DEADLOCK FALSE
INVARIANT JunkConfined
INVARIANT LoadsIfBanksExist
PROPERTY ImplementsCartridge
