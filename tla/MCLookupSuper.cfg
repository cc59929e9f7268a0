SPECIFICATION MCSpec
CONSTANTS
  A = A  B = B  M = M  N = N  f = f  g = g  Nil = Nil
  Classes <- MCClasses
  Modules <- MCModules
  Defined <- MCDefined
  Aliases <- MCAliases
  Superclass <- MCSuperclass
  Outer <- MCOuter
  ObjClass = B
  MaxBodies = 2
  MaxSize = 3
  MaxLinks = 2
SYMMETRY Alike
VIEW View
CHECK_DEADLOCK FALSE
INVARIANT SuperAdvances
