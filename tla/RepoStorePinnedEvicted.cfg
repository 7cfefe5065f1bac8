SPECIFICATION Spec
CONSTANTS
  t1 = t1
  t2 = t2
  Tasks = {t1, t2}
  Blocks = {1, 2}
  Expiry <- MCExpiry
  Size <- MCSize
  SyncTimes = {1, 2}
  EvictSizes = {1, 2}
  MaxTime = 2
  NoMeta = NoMeta
PROPERTIES
  PinnedNotEvicted
