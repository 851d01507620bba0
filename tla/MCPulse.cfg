\* Periods of three bits, swept up and down by shifts of zero and one in a word of
\* five bits.
SPECIFICATION Spec
CONSTANTS
  LowSize = 4
  HighSize = 2
  WordSize = 32
  LowBytes = {0, 3}
  HighBits = {0, 1}
  MinPeriod = 2
  MaxVolume = 1
  Volumes = {1}
  LengthTable = {1}
  SweepPeriods = {1}
  Shifts = {0, 1}
  Duties = {0}
  SequenceLength = 2
  kSequences <- TwoSteps
INVARIANTS
  PeriodInRange
  UnderflowSilent
PROPERTY
  SweepDownKeepsSilent
