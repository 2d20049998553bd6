SPECIFICATION SemanFairSpec
CONSTANTS
  Registers <- MCRegisters
  Labels <- MCLabels
  Programs <- MCPrograms
  MaxLength = 4
INVARIANTS
  SemanTypeOK
  AcceptsOnlySound
  ExitsOnlyUnsound
PROPERTIES
  CheckEnds
CHECK_DEADLOCK FALSE
