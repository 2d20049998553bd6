SPECIFICATION VerifierSpec
CONSTANTS
  Registers <- MCRegisters
  Labels <- MCLabels
  Programs <- SharedTarget
  Garbage = {3, 7}
  U16Range = 65536
  MaxLength = 3
  MaxJumpLength = 5
  MaxBranching = 4
INVARIANTS
  NeverRejected
CHECK_DEADLOCK FALSE
