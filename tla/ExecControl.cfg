SPECIFICATION FairSpec
CONSTANTS
  Kinds <- AllKinds
  Limit <- Limits
  MaxIters = 2
  Gated = {2}
  Value = {0, 1, 2, 3}
  Stop = 2
INVARIANTS EffectOnce ReplayFaithful
PROPERTIES Terminates
