SPECIFICATION Spec
CONSTANTS
    Order <- MCOrder
    Picky = {"bash"}
    Procs = {p1}
    MaxEdits = 1
    Discipline = "serial"
    None = None
    Part = Part
INVARIANTS SuccessIsCurrent CachesAreWhole ReadableRcOnce SourcedCacheIsThere
PROPERTIES ReloadIsStrict OnlyInitInstalls
