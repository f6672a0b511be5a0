SPECIFICATION FairSpec
CONSTANTS
  a = a
  b = b
  g = g
  u = u
  v = v
  w = w
  NoLeaf = NoLeaf
  Node <- MixedNode
  Needs <- MixedNeeds
  Sub = {u, v, w}
  Body = 2
  Gated <- MixedGated
  Timed <- MixedTimed
  MaxConc = 3
  Options = {"approve", "reject", "none", "auto"}
INVARIANT OneResultEach
PROPERTIES Refines Settles
