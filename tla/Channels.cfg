\* A triangle of three levels, a shift register of five bits.
CONSTANTS
  Peak = 2
  LowSize = 2
  HighSize = 2
  LinearSize = 3
  ByteSize = 5
  Width = 5
  LongTap = 1
  ShortTap = 3
  VolumeMax = 1
  Periods = {1, 2}
  FirstPeriod = 1
  Lengths = {1, 3}
SPECIFICATION Spec
INVARIANT NoiseAlive
PROPERTY NoClick
PROPERTY StepGap
PROPERTY NotesEnd
