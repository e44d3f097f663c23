SPECIFICATION DataSpec
CONSTANTS
  IntBits = 4
  FracBits = 2
  ExpMax = 7
  Shift = 5
  ByteBits = 2
  OpCap = 4
  ExpWord = 6
  LibmResults <- MCLibmResults
  Names = {"a", "b"}
  ValTypes = {"V", "W"}
  RefTypes = {"R"}
  Implements = {"W"}
  Programs <- MCPrograms
  MaxLen = 2
  MaxParked = 2
  Squash <- MCSquash
  Literals <- MCLiterals
  MaxSteps = 1
INVARIANTS ResultsSound DivisionLaw OneOrder HeapSound KeysFound EqualIsContent
PROPERTY ImplementsStore
CHECK_DEADLOCK FALSE
