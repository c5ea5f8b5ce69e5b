SPECIFICATION Spec
CONSTANTS
    NONE = NONE
    INVALID = INVALID
    web = web
    boot = boot
    name = name
    only = only
    jarPath = jarPath
    value = value
    l1 = l1
    l2 = l2
    l3 = l3
    Loaders = {l1, l3}
    ReadMayFail = FALSE
    AgentMayFail = FALSE
    Strings <- MCStrings
    Jars <- MCJars
    Values <- MCValues
    LoaderInfo <- MCLoaderInfo
    Documents <- MCDefaultDocument
INVARIANTS
    RegisteredAsConfigured
CHECK_DEADLOCK FALSE
