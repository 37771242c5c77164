CONSTANTS
  None = None
  Static <- MCStatic
  Headers <- MCHeaders
  EntrySize <- MCEntrySize
  NeverIndex <- MCNeverIndex
  Mask <- MCMask
  Group = 2
  Responses <- MCResponses
  Streams <- MCStreams
  MaxPost = 0
  TableSize = 2
  Profiles <- MCProfiles
SPECIFICATION Spec
CHECK_DEADLOCK FALSE
INVARIANT NeverRefused
