SPECIFICATION FairSpec
CONSTANTS
  Users = {u1, u2}
  Nonces = {n1, n2}
  None = None
  ForeignFrames <- MCForeignFrames
  MaxFrames = 4
INVARIANTS
  TypeOK
  ServedAsSigner
  RepliesInOrder
  Agreement
PROPERTIES
  OpenReturns
  ServerReleased
CHECK_DEADLOCK FALSE
