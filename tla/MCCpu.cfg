\* The memory map of the machine; the programs are in MCCpu.
CONSTANTS
  MemSize = 65536
  RamSize = 2048
  RamEnd = 8192
  ApuFirst = 16384
  ApuLast = 16407
  ApuStatus = 16405
  BankPort = 24568
  WindowBase = 32768
  BankSize = 4096
  Banks <- MCBanks
  Start <- MCStart
  Status = {0, 31}
  Beyond = {255}
SPECIFICATION Spec
\* A crash ends the program, and the number of instructions is bounded.
CHECK_DEADLOCK FALSE
PROPERTY StackRestores
PROPERTY ArithmeticExact
PROPERTY CyclesSound
