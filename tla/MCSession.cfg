SPECIFICATION Spec
CONSTANTS
    Segments <- MCSegments
    Lines <- MCLines
    Texts <- MCTexts
    Values <- MCValues
    HostVars <- MCHostVars
    HostNames <- MCHostNames
    Dirs <- MCDirs
INVARIANTS
    TypeOK
    TypeIsRight
PROPERTIES
    CdThenName
    CommandsAreAtomic
