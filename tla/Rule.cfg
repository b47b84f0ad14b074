SPECIFICATION Spec
CONSTANTS
    None = None
    MaxNumeric = 12
    MaxDigits = 2
    MaxUnit = 2
    MaxRendered = 24
    Symbols <- MCSymbols
    MaxKey = 6
    MaxExpand = 9
    MaxCmd = 6
    MaxCmds = 2
    MaxRules = 2
    Nul = "nul"
    Controls = {"esc", "lf", "cr", "tab", "soh"}
    Deceptive = {"rlo"}
    Separators = {"/", ":"}
    Metachars = {"|"}
    Dropped = {"nul", "esc", "rlo", "ls", "lf", "cr", "tab", "soh"}
    Blanks = {" "}
    Written <- MCWritten
    Addable <- MCAddable
    Tokens <- MCTokens
    Code <- MCCode
    LineSeparators = {"ls"}
    Invisible = {"rlo"}
    Doubles = {"ldq"}
    Singles = {"rsq"}
    Variables <- MCVariables
    NonAscii = {"ls", "rlo", "ldq", "rsq"}
    MaxBin = 3
    MaxToken = 6
    TooLong = TooLong
    Homes <- MCHomes
    Shells = {"bash", "zsh", "pwsh", "nu", "clink"}
    Shown <- MCShown
    Rights <- MCRights
INVARIANTS CursorIsTheTemplates WhichIsTrue MatchIsRight QualityIsRight TakenAsMeant KeysAsConfigured PathsSurvive BakedAlike
PROPERTIES AddBreaksOnlyByBraces
CHECK_DEADLOCK FALSE
