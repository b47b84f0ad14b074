SPECIFICATION Spec
CONSTANTS
    Rules = {gst, r1, r2, r3}
    r0 = r0
    r1 = r1
    Twins = {r1, r2, r3}
    k = k
    kg = kg
    Keys = {k, kg}
    KeyOf <- MCKeyOf
    Cuts <- MCCuts
    Rejected = {}
    SeedRule = gst
    Rests = {0}
    MaxRules = 2
    MaxSize = 3
    Absent = Absent
    None = None
    Procs = {p1, p2}
    Inodes = {i1, i2}
    Discipline = "one_rewriter"
SYMMETRY Alike
INVARIANTS StaleTmpNeverBlocks OverrunIsBounded
PROPERTIES RewritePublishesWhole
