CONSTANTS
  None = None
  Taken = Taken
  Byte = 16
  Lower = {10, 11}
  Case = 2
  Dash = 12
  Underscore = 13
  Slash = 14
  Name <- Names
  Htdocs <- Root
  Requests <- OneRequest
  HeadLen = 1
  BodyLen = 2
  MaxNoise = 1
  EarlyErr = FALSE
  SplitHead = FALSE
  Closing = TRUE
SPECIFICATION FairSpec
PROPERTIES
  FailureReleases
CHECK_DEADLOCK FALSE
