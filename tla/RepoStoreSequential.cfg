SPECIFICATION Spec
CONSTANTS
  t1 = t1
  t2 = t2
  Tasks = {t1}
  Blocks = {1, 2, 3}
  Expiry <- MCExpiry
  Size <- MCSize
  SyncTimes = {1, 2}
  EvictSizes = {1, 2}
  MaxTime = 3
  NoMeta = NoMeta
INVARIANTS
  LruExact
PROPERTIES
  PolicySpec
