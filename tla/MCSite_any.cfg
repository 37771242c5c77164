CONSTANTS
  None = None
  Workers = {w1, w2}
  Sites <- Sites0
  Disk <- Documents0
  Volatile <- Volatile0
  Asked <- Asked0
  Paths <- Paths0
  MaxRequests = 2
  MaxChanges = 1
SPECIFICATION FairSpec
INVARIANTS
  TypeOK
  RightBody
  NotModifiedRight
  Framed
PROPERTIES
  CacheSpec
  Answered
CHECK_DEADLOCK FALSE
