SPECIFICATION FairSpec
CONSTANTS
    Order <- MCOrder
    Picky = {"bash", "clink"}
    Places <- MCPlaces
    Bins = {"/a", "/b"}
    Configs <- MCConfigs
    StrictKnows = {"version", "keybind", "trigger"}
    First <- MCFirst
    MaxChanges = 1
    Link = Link
    Part = Part
    None = None
INVARIANTS RejectionsAreNamed ClinkInitIsSeen LuaIsWhole
PROPERTIES AdviceSettles
