SPECIFICATION Spec
CONSTANTS
    Execs = {e1, e2}
    Files = {f1}
    Inputs = {b1}
    Empty = empty
    NoCall = noCall
    MaxSteps = 2
    Traps = TRUE
    MountFails = TRUE
    Nesting = {"exec", "file"}
SYMMETRY Symmetry
INVARIANTS
    TypeOK
    ShellConserved
    ExpectNeverFires
    FsExclusive
    NoLostWakeup
    AvailableIsReliable
PROPERTIES
    AppendAtomic
    StdinGoesToNextExec
