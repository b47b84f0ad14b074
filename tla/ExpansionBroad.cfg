SPECIFICATION Spec
CONSTANTS
    c = c
    d = d
    k = k
    k2 = k2
    n = n
    Cmds = {c}
    Keys = {k, k2, n}
    Accepts <- MCAccepts
    Scans = {"expand"}
    Shells = {"bash", "pwsh", "clink"}
    Configs <- BroadConfigs
    Hints <- SomeHint
    None = None
INVARIANTS FirstRuleWins UnreachableIsHidden
CHECK_DEADLOCK FALSE
