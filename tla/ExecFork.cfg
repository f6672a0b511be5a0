SPECIFICATION FairSpec
CONSTANTS
  NoLeaf = NoLeaf
  Branches = 3
  Inner <- MixedInner
  Sub <- MixedSub
  Body = 2
  Gated <- MixedGated
  MaxConc = 2
  Outcome = {"failed"}
  Options = {"approve", "reject", "none", "auto"}
PROPERTIES Refines Settles
