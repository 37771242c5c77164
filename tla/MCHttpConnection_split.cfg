CONSTANTS
  Settings <- Gets
  Refusing = FALSE
  MaxData = 1
SPECIFICATION Spec
INVARIANTS
  NoneOverlooked
CHECK_DEADLOCK FALSE
