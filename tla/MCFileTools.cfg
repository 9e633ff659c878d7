SPECIFICATION FairSpec
CONSTANTS
    a = a
    b = b
    x = x
    Names <- MCNames
    Contents = {empty, x}
    NoBytes = empty
    MaxDepth = 6
    InitTree <- MCTree
    Commands <- MCCommands
    MaxCommands = 2
CHECK_DEADLOCK FALSE
INVARIANTS
    TypeOK
    OthersUntouched
    SuccessIsTrue
    CopiesAreInPlace
PROPERTIES
    ToolsEnd
