SPECIFICATION Spec
CONSTANTS
    a = a
    b = b
    Names <- MCNames
    Contents = {empty, x}
    NoBytes = empty
    MaxDepth = 2
    MountPoints <- MCNoMounts
    HostFiles <- MCHostFiles
    InitTree <- MCInitTree
INVARIANTS
    TreeShape
    ErrorsChangeNothing
    MkdirParentsIsLoop
    RenameMoves
