SPECIFICATION Spec
CONSTANTS
    Bits = 5
    ExpBits = 3
    Builds = {"release", "debug"}
    Pieces <- MCPieces
    MaxPieces = 5
    Bindings <- MCBindings
INVARIANTS
    ArithIsRight
CHECK_DEADLOCK FALSE
