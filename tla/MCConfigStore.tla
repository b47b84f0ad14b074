---------------------------- MODULE MCConfigStore ---------------------------
\* ConfigStore on small instances: the sample block has a key of its own, the
\* other rules share one.  A block of r1 cut behind its `expand = ..` loads as r0.
EXTENDS ConfigStore, TLC

CONSTANTS
    k, kg, r0, r1,
    Twins   \* rules that only their names tell apart

MCKeyOf == [r \in Rules |-> IF r = SeedRule THEN kg ELSE k]
MCCuts == [r \in Rules |-> IF r = r1 THEN {r0} \cap Rules ELSE {}]

Alike == Permutations(Procs) \cup Permutations(Inodes) \cup Permutations(Twins)
=============================================================================
