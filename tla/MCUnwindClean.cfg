SPECIFICATION Spec
CONSTANTS
  Profiles <- CleanProfiles
  Tags = {t1, t2}
  EvalMaxDepth = 8
  MaxNest = 5
  MaxCalls = 2
  MaxRaises = 2
INVARIANTS
  JumpTargetsKnown
  ExnCoherent
PROPERTIES
  SignalStopsAtItsReceiver
