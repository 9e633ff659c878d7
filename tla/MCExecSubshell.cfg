SPECIFICATION Spec
CONSTANTS
    Cmds <- MCCmds
    Ast <- MCAst
    Scripts <- MCScripts
    Inputs <- MCInputs
    Parse <- MCParse
    Vars <- MCVars
    Unset = unset
    Programs <- MCPrograms
    Slashed <- MCSlashed
    Show <- MCShow
    Message = "msg"
    ReadOnly <- MCReadOnly
    Unreadable <- MCUnreadable
    Home = "home"
    MaxExecs = 1
CHECK_DEADLOCK FALSE
PROPERTIES
    SubshellIsolated
