SPECIFICATION StringsSpec
CONSTANTS
  Bytes = {0, 1, 2}
  Strings <- SmallStrings
  CharSets <- SmallCharSets
  Indexes <- SmallIndexes
  Maps <- SmallMaps
  SDS_MAX_PREALLOC = 2
  MaxLen = 3
  ULLONG_MAX = 63
  Alphabet = {0, 10, 34, 48, 92, 110, 120, 200}
  MaxText = 4
  MaxNumber = 64
  InitialSlots = 1
  MinPerThread = 1
INVARIANTS
  HeaderIsTrue
  SplitIsInverseOfJoin
  ReprIsReadBack
  DecimalDenotesValue
  DividedWorkIsWhole
  PrimeTablesAgree
PROPERTIES
  ImplementsValue
CHECK_DEADLOCK FALSE
