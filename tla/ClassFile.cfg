SPECIFICATION ClassFairSpec
CONSTANTS
  Registers <- MCRegisters
  Labels <- MCLabels
  Programs <- MCPrograms
  Garbage = {1, 7}
  U16Range = 612
  MaxLength = 2
  MaxShared = 3
  MainSizes <- MCMainSizes
INVARIANTS
  IndicesAgree
  EntriesResolve
  FixedIndices
  ImmediatesResolve
  ClassLoads
  ClinitVerifies
PROPERTIES
  ClassRead
CHECK_DEADLOCK FALSE
