SPECIFICATION Spec
CONSTANTS
  t1 = t1
  t2 = t2
  o1 = o1
  o2 = o2
  u1 = u1
  p1 = p1
  r1 = r1
  Modes = {"Local"}
  Overlays = {o1, o2}
  RepoOf <- MCRepoOf
  Users = {u1}
  Peers = {p1}
  PeerLists <- MCPeerLists
  Keys = {1, 2}
  Tasks = {t1}
  NoKey = NoKey
  Faults = {"restart", "io"}
INVARIANTS
  KeyStable
