SPECIFICATION Spec
CONSTANTS
  Profiles <- MixedProfiles
  Tags = {t1}
  EvalMaxDepth = 1
  MaxNest = 4
  MaxCalls = 2
  MaxRaises = 2
INVARIANTS
  TypeOK
 
  RescueContextInnermost
PROPERTIES
  EnsureExactlyOnce
