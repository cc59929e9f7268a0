SPECIFICATION Spec
CONSTANTS
    Nil = Nil
    Ints = {1, 2, 3}
    MaxLen = 4
    MaxArg = 6
    RangeEnds <- MCEnds
    MaxCount = 7
    Names = {"k", "l"}
    MaxArgs = 4
    Given = 5
    MaxElems = 4
    LocalNames = {"x"}
    MaxBody = 2
    MaxText = 3
    Places <- MCPlaces
    Top = 31
    SomeInts <- MCNumbers
    LeadBytes = {0, 127, 128, 193, 194, 223, 224, 225, 236, 237, 238, 239, 240, 241, 243, 244, 245}
    NextBytes = {65, 128, 143, 144, 159, 160, 191, 192}
    Points <- MCPoints
    Letters = {"r"}
    MaxPath = 6
    MaxStatements = 4
    MaxItems = 3
    BreakValue = BreakValue
INVARIANTS
    QueriesRight
    RangesAgree
    ArgumentsArrive
    CasesRight
    LocalsAgree
    StringsAgree
    NumbersAgree
    CodingExact
    PathsAgree
    ExpressionsAgree
    ConstantsAgree
    SignalsArrive
