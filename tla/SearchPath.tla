----------------------------- MODULE SearchPath ------------------------------
(***************************************************************************)
(* Where a command is looked for: the entries of PATH, and on Windows the  *)
(* effective_search_path of infra/win_path.rs, which adds the Path values  *)
(* of two registry hives.                                                  *)
(*                                                                         *)
(* An entry names a directory, perhaps in capitals or by a %variable%; of  *)
(* its text the bytes are known and those of its last character.  A Path   *)
(* value is a sequence of entries with a semicolon between two of them.    *)
(***************************************************************************)
EXTENDS Integers, Sequences, FiniteSets

CONSTANTS
    MaxPathEntries,     \* MAX_PATH_ENTRIES
    MaxPathBytes,       \* MAX_REGISTRY_PATH_BYTES
    Environment,        \* what each variable names, or None when it is not set
    None

NoText == ""

\* An entry by a variable has the variable for its text.
Entry ==
    { e \in [dir : STRING, capitals : BOOLEAN, var : DOMAIN Environment \cup {None}, bytes : Nat, last : 0 .. 4] :
        e.var # None => e.dir # NoText }

ASSUME PathAssumption ==
    /\ MaxPathEntries \in Nat /\ MaxPathBytes \in Nat
    /\ Environment \in [DOMAIN Environment -> STRING \cup {None}]

\* Where the n-th entry of a value ends.
EndOf(value, n) ==
    LET end[i \in 0 .. n] == IF i = 0 THEN -1 ELSE end[i - 1] + 1 + value[i].bytes
    IN  end[n]
Size(value) == EndOf(value, Len(value))

WithinCharacter(value, n) ==
    \E i \in DOMAIN value : EndOf(value, i) - value[i].last < n /\ n < EndOf(value, i)

\* cap_registry_value: up to the last semicolon within the cap.  A slice that ends within
\* a character panics: None.
Capped(value) ==
    IF Size(value) <= MaxPathBytes THEN value
    ELSE IF WithinCharacter(value, MaxPathBytes) THEN None
    ELSE LET fits == { n \in 0 .. Len(value) - 1 : EndOf(value, n) + 1 <= MaxPathBytes }
         IN  SubSeq(value, 1, CHOOSE n \in fits : \A m \in fits : m <= n)

\* expand_env_vars
Expanded(e) ==
    IF e.var # None /\ Environment[e.var] # None
      THEN [e EXCEPT !.dir = Environment[e.var], !.var = None]
      ELSE e

\* Mutant: entries are compared letter for letter.
SameEntryExactly(e, f) == e.var = f.var /\ e.dir = f.dir /\ e.capitals = f.capitals

\* The key that push_dedup compares by.
SameEntry(e, f) == e.var = f.var /\ e.dir = f.dir

PushDedup(known, e) ==
    IF e.dir = NoText \/ \E i \in DOMAIN known : SameEntry(e, known[i]) THEN known ELSE Append(known, e)

\* split_path_env and the loop over its segments
AllOf(known, value) ==
    LET upTo[n \in 0 .. Len(value)] == IF n = 0 THEN known ELSE PushDedup(upTo[n - 1], value[n])
    IN  upTo[Len(value)]

\* absorb_registry_path_str
Absorb(known, value) ==
    AllOf(known, [i \in 1 .. (IF Len(value) > MaxPathEntries THEN MaxPathEntries ELSE Len(value)) |-> Expanded(value[i])])

\* effective_search_path: the entries, and how many of them each source gave
EffectiveSearchPath(process, user, system) ==
    IF None \in {Capped(user), Capped(system)} THEN None
    ELSE LET one == AllOf(<<>>, process)
             two == Absorb(one, Capped(user))
             all == Absorb(two, Capped(system))
         IN  [combined |-> all, from_process |-> Len(one),
              from_user |-> Len(two) - Len(one), from_system |-> Len(all) - Len(two)]

DirOf(e) == IF e.var = None THEN e.dir ELSE "nowhere"
Dirs(value) == { DirOf(value[i]) : i \in DOMAIN value }
=============================================================================
