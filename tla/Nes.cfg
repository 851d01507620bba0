\* A period of 7 cycles, calls of up to 12 cycles (some overrun the period) and
\* several bursts of 4 samples of 3 cycles, with Stop() at any point.
\* The thread really stops, in "exited"; stopping anywhere else it violates
\* StopHonoured, for Stop() is always possible until then.
SPECIFICATION FairSpec
CHECK_DEADLOCK FALSE
CONSTANTS
  Period = 7
  CyclesPerSample = 3
  Burst = 4
  SleepTicks = 2
  InstructionCycles = {2, 5}
  MaxCallCycles = 12
  MaxCycles = 45
  MaxStopCycles = 60
INVARIANTS
  TypeOK
  SamplesExact
  PaceBound
  StopLatency
PROPERTIES
  CallsOnSchedule
  StopHonoured
