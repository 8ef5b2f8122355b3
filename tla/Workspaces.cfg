SPECIFICATION Spec
CONSTANTS
    i1 = i1
    i2 = i2
    a = a
    b = b
    l = l
    s1 = s1
    s2 = s2
    Ids <- MCIds
    Paths <- MCPaths
    Canonical <- MCCanonical
    Sessions <- MCSessions
    Configs <- MCConfigs
    None = None
    MaxRestarts = 2
INVARIANTS
    OneIdPerDirectory
    LookupsAgree
    SessionKeepsWorkspace
CHECK_DEADLOCK FALSE
