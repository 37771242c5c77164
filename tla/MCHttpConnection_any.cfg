CONSTANTS
  Settings <- Any
  Refusing = TRUE
  MaxData = 1
SPECIFICATION FairSpec
INVARIANTS
  TypeOK
  EachByteOnce
  CutAtBoundaries
  NoneOverlooked
PROPERTIES
  OneAtATime
  AllAnswered
CHECK_DEADLOCK FALSE
