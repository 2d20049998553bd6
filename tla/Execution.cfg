SPECIFICATION ExecutionSpec
CONSTANTS
  Registers <- MCRegisters
  Labels <- MCLabels
  Programs <- MCPrograms
  Garbage = {3}
  U16Range = 65536
  LongRange = 16
  XRange = 8
  MaxLength = 4
  Alphabet <- Arithmetic
INVARIANTS
  TypeOK
  NeverStuck
  StackBalanced
PROPERTIES
  ImplementsRv
CHECK_DEADLOCK FALSE
