SPECIFICATION Spec
CONSTANTS
    a = a
    b = b
    Names <- MCChainNames
    Contents = {empty, x}
    NoBytes = empty
    MaxDepth = 3
    MountPoints <- MCChainMounts
    HostFiles <- MCChainHostFiles
    InitTree <- MCChainTree
INVARIANTS
    TypeOK
    MostSpecificMount
PROPERTIES
    WriteSticks
