SPECIFICATION Spec
CONSTANTS
    NONE = NONE
    obj = obj
    A = A
    B = B
    C = C
    bootC = bootC
    N = N
    r1 = r1
    r2 = r2
    r3 = r3
    plain = plain
    twin = twin
    app = app
    lib = lib
    classes = classes
    dummy = dummy
    h1 = h1
    old = old
    old9 = old9
    new = new
    base = base
    v9 = v9
    Dash = Dash
    NullText = NullText
    Object = obj
    ClassDummy = dummy
    NoVersion = base
    Names <- MCNames
    Prints <- MCPrints
    Jars <- MCJars
    Files <- MCFiles
    Versions <- MCVersions
    Applications <- MCApplications
    RawIds <- MCRawIds
    Paths <- MCPaths
    Hashes <- MCHashes
    Lines <- MCLines
    MaxLines = 4
    FileName <- MCFileName
    Fingerprint <- MCFingerprint
    Deployed <- MCDeployed
INVARIANTS
    TypeOK
    ScanExact
    DiffSound
    DiffQuiet
CHECK_DEADLOCK FALSE
