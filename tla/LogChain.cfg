CONSTANTS
  MaxFileLines = 1
  MaxRotated = 2
  MaxLines = 4
  Old <- MCOld
SPECIFICATION LogSpec
INVARIANTS
  LogTypeOK
  ChainContinues
  NoFalseAlarm
