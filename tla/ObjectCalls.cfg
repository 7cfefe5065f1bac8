SPECIFICATION Spec
CONSTANTS
  l1 = l1
  l2 = l2
  r1 = r1
  r2 = r2
  d = d
  o1 = o1
  o2 = o2
  o3 = o3
  o4 = o4
  Tasks = {t1, t2}
  Objects = {o1, o2, o3, o4}
  Blocks = {l1, l2, r1, r2, d}
  Children <- MCChildren
  BlocksOf <- MCBlocksOf
  DepListRef <- MCDepListRef
  MaxCalls = 4
INVARIANTS
  TypeOK
  RootMeansWhole
  GetFaithful
  DeleteEffective
CHECK_DEADLOCK FALSE
