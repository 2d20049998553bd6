SPECIFICATION FairSpec
CONSTANTS
  Keys = {k1, k2, k3, k4}
  Values = {v1, v2}
  NoValue = NoValue
  FirstCapacity = 2
  Hashes = {0, 3}
  HashFunctions <- MCHashFunctions
INVARIANTS
  TypeOK
  NeverFull
PROPERTIES
  CallsReturn
  ImplementsMap
CHECK_DEADLOCK FALSE
