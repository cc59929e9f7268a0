SPECIFICATION Spec
CONSTANTS
    Writer = "A"
    Reader = "B"
    Modes = {"rb", "r+", "w", "a+"}
    Contents <- MCContents
    Pieces <- MCPieces
    MaxBytes = 2
    MaxWithin = 1
VIEW View
INVARIANT NothingLost
PROPERTIES BlocksClose ReadsDeliver
