SPECIFICATION Spec
CONSTANTS
  Main = Main
  Fibers = {f, g}
  v = v
  w = w
  Values = {v, w}
  EvalMaxDepth = 8
  MaxNest = 2
  Programs <- NestedPrograms
INVARIANT OwnRegisters
