SPECIFICATION Spec
CONSTANTS
    Files <- MCFiles
    Broken <- MCBroken
    Main <- MCMain
    NoFile = NoFile
    Names = {"x", "y"}
    Vocabulary <- MCVocabulary
    Cwd = "top"
    LoadPath <- MCLoadPath
    MaxFile = 2
    MaxHelper = 1
    MaxStatements = 4
INVARIANTS CurrentFileHonest LoadedOnce HandlersLatestFirst
PROPERTIES RunsEnd
CHECK_DEADLOCK FALSE
