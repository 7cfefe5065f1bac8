SPECIFICATION FairSpec
CONSTANTS
  Requests <- MCRequests
  MaxBlocks = 2
INVARIANTS
  TypeOK
  StreamFaithful
PROPERTIES
  CallsReturnIfRead
  StreamsEnd
CHECK_DEADLOCK FALSE
