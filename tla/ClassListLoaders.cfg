SPECIFICATION Spec
CONSTANTS
    NONE = NONE
    obj = obj
    A = A
    B = B
    r1 = r1
    r2 = r2
    r3 = r3
    app = app
    lib = lib
    nested = nested
    h1 = h1
    h2 = h2
    Names <- MCNames
    Object = obj
    RawIds <- MCRawIds
    Paths <- MCPaths
    Hashes <- MCHashes
    Lines <- LoaderLines
    MaxLines = 4
    StaticDiff = FALSE
INVARIANTS
    WrittenIdsIncrease
    InitiatingExact
    NotFoundExact
PROPERTIES
    Termination
CHECK_DEADLOCK FALSE
