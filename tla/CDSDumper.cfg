SPECIFICATION Spec
CONSTANTS
    NONE = NONE
    app = app
    lib = lib
    boot = boot
    libs = libs
    classes = classes
    nested = nested
    other = other
    top = top
    klass = klass
    Mains <- MCMains
    Files <- MCFiles
    Dirs <- MCDirs
    Chain <- MCChain
    Entries <- MCEntries
    Inputs <- MCInputs
    KB = 2
    Modulus = 4096
    MaxGeneration = 1
    MaxRuns = 2
INVARIANTS
    TypeOK
    SourcesExact
    TempExact
    NoOopsForLargeHeap
PROPERTIES
    DecodesAsPipeline
CHECK_DEADLOCK FALSE
