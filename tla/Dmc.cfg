\* Samples of one, two and four bytes of three bits, two of them crossing the last
\* address, with every register written at every point.
SPECIFICATION DmcFairSpec
CONSTANTS
  Rates = {1, 2}
  FirstAddresses = {4, 6}
  Lengths = {1, 2, 4}
  LastAddress = 7
  WrapAddress = 3
  BitsPerByte = 3
  MaxLevel = 5
INVARIANTS
  DmcTypeOK
  AddressFollowsLength
  BitsAccounted
  LastByteHeldBack
PROPERTY
  SampleEnds
