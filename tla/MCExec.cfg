SPECIFICATION FairSpec
CONSTANTS
    Cmds <- MCCmds
    Ast <- MCAst
    Scripts <- MCScripts
    Inputs <- MCInputs
    Parse <- MCParse
    Vars <- MCVars
    Unset = unset
    Programs <- MCPrograms
    Slashed <- MCSlashed
    Show <- MCShow
    Message = "msg"
    ReadOnly <- MCReadOnly
    Unreadable <- MCUnreadable
    Home = "home"
    MaxExecs = 2
CHECK_DEADLOCK FALSE
INVARIANTS
    TypeOK
    StatusIsLast
PROPERTIES
    SealedIsFinal
    FilesHold
    ScopedRestored
    EveryScriptEnds
