SPECIFICATION Spec
CONSTANTS
  Main = Main
  Fibers = {f, g, h}
  v = v
  w = w
  Values = {v, w}
  EvalMaxDepth = 3
  MaxNest = 2
  Programs <- AllPrograms
INVARIANTS
  TypeOK
  CurrentIsRunning
  ResumersWait
  DepthIsTotal
  OwnRegistersWhenFlat
PROPERTIES
  ImplementsCoroutines
SYMMETRY Interchangeable
