SPECIFICATION Spec
CONSTANTS
    Keys <- MCKeys
    Vals = {1}
    Nil = Nil
    Others <- MCOthers
    MaxRekeyed = 2
    MaxLen = 3
    Changes = 1
VIEW View
PROPERTIES OneEntryInOrder EnvFollows ResultsRight
CHECK_DEADLOCK FALSE
