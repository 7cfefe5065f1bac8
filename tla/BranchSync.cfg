SPECIFICATION Spec
CONSTANTS
  Commits = {1, 2, 3, 4}
  Graphs <- MCGraphs
  Details <- MCDetails
  Members <- MCMembers
  HeadSets <- MCHeadSets
  Unlucky = {2}
  MaxGaps = 1
  MaxChanges = 1
INVARIANTS
  TypeOK
  AcceptedWhole
  MissingNamed
  SyncMinimal
  SyncComplete
CHECK_DEADLOCK FALSE
