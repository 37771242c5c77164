CONSTANTS
  None = None
  Workers = {w1}
  Sites <- Sites0
  Disk <- Documents0
  Volatile <- Volatile0
  Asked <- Asked0
  Paths <- Paths0
  MaxRequests = 1
  MaxChanges = 0
SPECIFICATION Spec
INVARIANTS
  SplitAsNamed
CHECK_DEADLOCK FALSE
