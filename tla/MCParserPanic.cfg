SPECIFICATION Spec
CONSTANTS
    Alphabets <- MCAlphabets
    MaxQueue = 1
    Aborts = FALSE
INVARIANT
    ParseAnswers
CHECK_DEADLOCK FALSE
