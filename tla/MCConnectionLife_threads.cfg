CONSTANTS
  Conns = {c1, c2}
  Acceptors = {a1, a2}
  Workers = 2
  Running = {0}
  BatchSize = 2
  MaxSends = 1
  MaxReplies = 1
  Rejecting = TRUE
  None = None
SPECIFICATION FairSpec
INVARIANTS
  TypeOK
  OneWorker
  PendingAlive
  NoLostEdge
PROPERTIES
  Reclaimed
  BackendWatched
CHECK_DEADLOCK FALSE
