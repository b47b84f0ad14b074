SPECIFICATION Spec
CONSTANTS
    PipeSize = 2
    Deadline = 2
    gst = gst
    gco = gco
    ls = ls
    long = long
    noise = noise
    a = a
    w = w
    bom = bom
    bad = bad
    Listings <- MCListings
    Noise = noise
    LongNames = {long}
    RuleKeys = {gst, gco}
    MaxOutput = 3
    MaxLines = 2
    Chunk = 2
    Platforms = {"unix", "windows"}
    Clips <- MCClips
    Chains <- MCChains
    NativeTexts <- MCNativeTexts
    WidthOf <- MCWidthOf
    Bom = bom
    Bad = bad
    MaxClip = 4
INVARIANTS AnswerIsWhole PasteIsWholeOnUnix
PROPERTIES ProbeReturns PasteReturns
CHECK_DEADLOCK FALSE
