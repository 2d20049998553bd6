SPECIFICATION ExecutionSpec
CONSTANTS
  Registers <- MCRegisters
  Labels <- MCLabels
  Programs <- JumpIsLost
  Garbage = {3}
  U16Range = 65536
  LongRange = 16
  XRange = 16
  MaxLength = 4
  Alphabet <- Arithmetic
PROPERTIES
  ImplementsRv
CHECK_DEADLOCK FALSE
