SPECIFICATION FairSpec
CONSTANTS
    Execs = {e1, e2}
    Files = {f1}
    Inputs = {}
    Empty = empty
    NoCall = noCall
    MaxSteps = 1
    Traps = FALSE
    MountFails = TRUE
    Nesting = {"exec"}
PROPERTIES
    EveryCallSettles
