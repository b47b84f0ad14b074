SPECIFICATION Spec
CONSTANTS
    None = None
    Garbled = Garbled
    c = c
    d = d
    MaxPathEntries = 3
    MaxPathBytes = 8
    Environment <- MCEnvironment
    Commands = {c, d}
    Movable = {c}
    Places = {"tool", "extra"}
    Builtins <- MCBuiltins
    Paths <- MCPaths
    Registry <- MCRegistry
    Configs <- MCConfigs
    Prepends = {None, "extra"}
    MaxCacheCommands = 1
    LastSecond = 1
INVARIANTS NoIsLive YesWasSo PathOnlyIsRespected PathIsMerged
