SPECIFICATION Spec
CONSTANTS
    Rules = {gst, r0, r1}
    r0 = r0
    r1 = r1
    Twins = {}
    k = k
    kg = kg
    Keys = {k, kg}
    KeyOf <- MCKeyOf
    Cuts <- MCCuts
    Rejected = {}
    SeedRule = gst
    Rests = {0, 2}
    MaxRules = 2
    MaxSize = 3
    Absent = Absent
    None = None
    Procs = {p1, p2}
    Inodes = {i1, i2, i3, i4}
    Discipline = "any"
SYMMETRY Alike
PROPERTIES RewritePublishesWhole
