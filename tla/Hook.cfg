SPECIFICATION Spec
CONSTANTS
    u = u
    w = w
    Letters = {u, w}
    Width <- MCWidth
    Expansions <- MCExpansions
    History <- MCHistory
    Shells = {"bash", "zsh", "pwsh", "nu", "clink", "gitbash"}
    MaxLine = 4
    MaxLineBytes = 8
    MaxClinkBytes = 6
    MaxKeys = 2
    None = None
INVARIANTS TypeOK BakeAgrees
PROPERTIES ImplementsTriggerKey MidPasteIsLiteral
