SPECIFICATION Spec
CONSTANTS
  Profiles <- RopeProfile
  Tags = {t1}
  EvalMaxDepth = 8
  MaxNest = 4
  MaxCalls = 2
  MaxRaises = 2
INVARIANT ExnCoherent
