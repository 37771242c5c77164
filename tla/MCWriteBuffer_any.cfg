CONSTANTS
  MaxPushed = 8
  MaxEntry = 4
  SndBuf = 3
  MaxRecord = 2
SPECIFICATION FairSpec
INVARIANTS
  TypeOK
  InOrder
  NoGap
  Accounting
  NoLostWakeup
PROPERTIES
  ChannelSpec
  AllDelivered
  FailedIsClosed
CHECK_DEADLOCK FALSE
