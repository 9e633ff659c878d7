SPECIFICATION Spec
CONSTANTS
    Alphabets <- MCAlphabets
    MaxQueue = 1
    Aborts = TRUE
INVARIANTS
    TreeReadsBack
    TreeFollowsGrammar
    BodiesReachTheirHeredocs
    PanicNeedsSubstInBody
PROPERTIES
    OnlyFailuresLeaveBodies
CHECK_DEADLOCK FALSE
