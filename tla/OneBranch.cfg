SPECIFICATION Spec
CONSTANTS
  Registers <- MCRegisters
  Labels <- MCLabels
  Programs <- OneBranch
  Garbage = {3, 7}
  U16Range = 65536
  MaxLength = 3
  MaxJumpLength = 5
INVARIANTS
  NoUndefinedBehaviour
CHECK_DEADLOCK FALSE
