SPECIFICATION Spec
CONSTANTS
  ChunkSize = 1
  DepSize = 1
  Arity = 2
  MaxInline = 1
  None = None
  Units = {"x", "y"}
  MaxData = 2
  DepLists <- MCDepLists
  Expiries <- MCExpiries
  MaxRemovals = 2
INVARIANTS
  TypeOK
  LoadExact
  MissingExact
  RootMeansWhole
CHECK_DEADLOCK FALSE
