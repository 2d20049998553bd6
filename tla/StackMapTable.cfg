SPECIFICATION FairSpec
CONSTANTS
  TargetLists <- MCTargetLists
  ResSizes = {0, 3}
  U16Range = 65536
  Offsets = {0, 1, 2, 300, 65535}
  MaxFrames = 4
INVARIANTS
  TypeOK
  DecodesToTargets
  LengthIsExact
PROPERTIES
  ClassFileKept
  TableFinishes
CHECK_DEADLOCK FALSE
