CONSTANTS
  Conns = {c1}
  Acceptors = {a1}
  Workers = 1
  Running = {0}
  BatchSize = 2
  MaxSends = 1
  MaxReplies = 1
  Rejecting = FALSE
  None = None
SPECIFICATION Spec
INVARIANTS
  NoStaleEvent
CHECK_DEADLOCK FALSE
