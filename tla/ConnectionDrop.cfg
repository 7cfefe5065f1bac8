SPECIFICATION FairSpec
CONSTANTS
  Requests <- MCRequests
  MaxBlocks = 2
PROPERTIES
  CallsReturn
CHECK_DEADLOCK FALSE
