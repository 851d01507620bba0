\* A frame of 23 cycles with its marks at odd cycles, as in the code; the counter
\* starts anywhere, beyond the end of the frame too.
SPECIFICATION Spec
CONSTANTS
  Quarter = 5
  Half = 11
  ThreeQuarters = 17
  Full = 23
  WordSize = 40
  Cycles = {1, 2, 7}
  WriteCycles = {4, 5, 6}
INVARIANTS
  TimerGap
  WriteAnswered
  HalfInTime
PROPERTY
  EvenHalves
