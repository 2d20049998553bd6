SPECIFICATION Spec
CONSTANTS
  Registers <- MCRegisters
  Labels <- MCLabels
  Programs <- AdjacentLabels
  Garbage = {3, 7}
  U16Range = 65536
  MaxLength = 3
  MaxJumpLength = 5
INVARIANTS
  NoExit
CHECK_DEADLOCK FALSE
