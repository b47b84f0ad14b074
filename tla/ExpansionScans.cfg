SPECIFICATION Spec
CONSTANTS
    c = c
    d = d
    k = k
    k2 = k2
    n = n
    Cmds = {c, d}
    Keys = {k, k2, n}
    Accepts <- MCAccepts
    Scans = {"expand", "which", "bake"}
    Shells = {"bash"}
    Configs <- ScansConfigs
    Hints <- NoHint
    None = None
INVARIANTS SameOutcome TraceIsRight
CHECK_DEADLOCK FALSE
