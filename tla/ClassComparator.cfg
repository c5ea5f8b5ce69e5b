SPECIFICATION Spec
CONSTANTS
    NONE = NONE
    A = A
    B = B
    C = C
    f1 = f1
    f2 = f2
    own = own
    other = other
    v0 = v0
    v9 = v9
    Names <- MCNames
    Ids <- MCIds
    Prints <- MCPrints
    Files <- MCFiles
    Versions <- MCVersions
    Inputs <- MCInputs
INVARIANTS
    TypeOK
    HierarchyClosed
    BlameJustified
    HierarchyExact
    ReportExact
PROPERTIES
    ResultKept
    Termination
CHECK_DEADLOCK FALSE
