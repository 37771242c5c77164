CONSTANTS
  None = None
  Taken = Taken
  Byte = 16
  Lower = {10, 11}
  Case = 2
  Dash = 12
  Underscore = 13
  Slash = 14
  Name <- Names
  Htdocs <- Root
  Requests <- AnyRequest
  HeadLen = 1
  BodyLen = 3
  MaxNoise = 1
  EarlyErr = TRUE
  SplitHead = TRUE
  Closing = TRUE
SPECIFICATION FairSpec
INVARIANTS
  TypeOK
  OneResponse
  NotTruncated
  RequestRead
PROPERTIES
  BodyUnbroken
  EndReleases
  EndIsSeen
CHECK_DEADLOCK FALSE
