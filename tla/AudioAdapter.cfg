\* Two queues, every flag flipped freely, four frames of which two may miss an
\* enqueue: long enough for slips of several calls to add up if they could, and
\* for the failures of one queue to stand against none, one or two of the other.
SPECIFICATION FairSpec
CONSTANTS
  NumChannels = 2
  CyclesPerSample = 2
  MaxFrames = 4
  MaxLost = 2
INVARIANTS
  SkewBound
  NoNullDereference
  HeardIsRemoved
PROPERTY
  EveryFrameDrained
