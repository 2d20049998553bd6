SPECIFICATION VerifierFairSpec
CONSTANTS
  Registers <- MCRegisters
  Labels <- MCLabels
  Programs <- MCVerifierPrograms
  Garbage = {3, 7}
  U16Range = 65536
  MaxLength = 3
  MaxJumpLength = 5
  MaxBranching = 4
INVARIANTS
  CodeIsExact
  AcceptedIffLoadable
  BranchesLand
  FramesAreTargets
  ConstantsResolve
  CompilableNeverExits
PROPERTIES
  VerdictReached
  OnlyPlaceholdersRewritten
CHECK_DEADLOCK FALSE
