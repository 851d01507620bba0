\* A ring that grows from one block of two slots (one usable) to blocks of four,
\* with every wrap and reuse of a block.
SPECIFICATION QueueFairSpec
CONSTANTS
  InitialSize = 2
  MaxBlockSize = 4
  MaxBlocks = 3
  MaxEnqueues = 8
INVARIANTS
  AssertionsHold
  NoSlotRace
  BlocksUsedUp
PROPERTY
  ImplementsWaitFreeFifo
