SPECIFICATION Spec
CONSTANTS
    Vals = {1, 2}
    Nil = Nil
    Arguments <- MCArguments
    MaxLen = 3
    Changes = 1
    Bounds <- MCBounds
VIEW View
PROPERTIES CursorsRight UndisturbedResult ContentKept
CHECK_DEADLOCK FALSE
