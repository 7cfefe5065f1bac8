SPECIFICATION FairSpec
CONSTANTS
  t1 = t1
  t2 = t2
  o1 = o1
  o2 = o2
  u1 = u1
  p1 = p1
  r1 = r1
  Modes = {"Local", "Core"}
  Overlays = {o1}
  RepoOf <- MCRepoOf
  Users = {u1}
  Peers = {p1}
  PeerLists <- MCPeerLists
  Keys = {1, 2}
  Tasks = {t1, t2}
  NoKey = NoKey
  Faults = {"panic", "restart", "io"}
INVARIANTS
  TypeOK
  NoDanglingReferences
  OpenStoresReadable
PROPERTIES
  LocalCallsReturn
  SettledAdvertsStay
