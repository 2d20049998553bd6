SPECIFICATION FairSpec
CONSTANTS
  Registers <- MCRegisters
  Labels <- MCLabels
  CommandLines <- MCCommandLines
  Letters <- MCLetters
  Numerals <- MCNumerals
  Lower <- MCLower
INVARIANTS
  TypeOK
  TokensMatchSource
  ParsesExactly
  IrIsProgram
  ElementsMeanSource
  OldClassKept
PROPERTIES
  SuccessMeansWritten
  Ends
CHECK_DEADLOCK FALSE
