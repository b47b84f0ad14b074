--------------------------- MODULE ConfigContents ---------------------------
(***************************************************************************)
(* The contents of runex's configuration file, as far as the commands that *)
(* edit it tell them apart: whether `version = 1` is there, whether a      *)
(* block is cut short, whether the rules are written as [[abbr]] blocks or *)
(* as one inline array, which of them are complete, and how long the file  *)
(* is.  A block counts one towards that length, and `rest` stands for the  *)
(* comments and the other settings.  The order of the blocks is that of    *)
(* the expansion's search, and not modelled here.                          *)
(***************************************************************************)
EXTENDS FiniteSets, Naturals

CONSTANTS
    Rules,      \* the abbreviation rules a configuration may hold
    Keys,       \* the keys of those rules
    KeyOf,      \* the key of each rule
    Cuts,       \* the rules that each block may load as when its end is cut off
    Rejected,   \* those that `add` takes and the next load rejects
    SeedRule,   \* the sample block of the file `runex init` writes
    Rests,      \* how long the rest of the file may be
    MaxRules,   \* MAX_ABBR_RULES
    MaxSize,    \* MAX_CONFIG_FILE_BYTES
    Absent      \* there is no configuration file

Content == [head : BOOLEAN, torn : BOOLEAN, inline : BOOLEAN,
            rest : Rests, rules : SUBSET Rules]

ASSUME ContentsAssumption ==
    /\ KeyOf \in [Rules -> Keys]
    /\ Cuts \in [Rules -> SUBSET Rules]
    /\ \A r \in Rules : \A cut \in Cuts[r] : KeyOf[cut] = KeyOf[r]
    /\ Rejected \subseteq Rules
    /\ SeedRule \in Rules \ Rejected
    /\ Rests \subseteq Nat /\ 0 \in Rests
    /\ MaxRules \in Nat \ {0}
    /\ MaxSize \in Nat \ {0}
    /\ IsFiniteSet(Rules)
    /\ Absent \notin Content

Empty == [head |-> FALSE, torn |-> FALSE, inline |-> FALSE, rest |-> 0, rules |-> {}]

\* default_config_content: the version, the trigger and one sample block.
Seed == [Empty EXCEPT !.head = TRUE, !.rules = {SeedRule}]

\* MAX_CONFIG_FILE_BYTES: read_config_source refuses a longer file.
Size(c) == c.rest + Cardinality(c.rules)
Readable(c) == Size(c) <= MaxSize

\* `add` refuses a file that has no room for one rule more.  It does not look
\* at the length that the file would have.
HasRoom(c) == Cardinality(c.rules) + 1 <= MaxRules

\* load_config accepts the file: it is not too long, its version is 1, every
\* rule parses and is valid, and there are not too many of them.
Loads(c) ==
    /\ Readable(c)
    /\ c.head /\ ~c.torn
    /\ c.rules \cap Rejected = {}
    /\ Cardinality(c.rules) <= MaxRules

\* An [[abbr]] block at the end.  Behind an inline `abbr = [..]` it is not TOML.
With(c, r) == [c EXCEPT !.rules = @ \cup {r}, !.torn = @ \/ c.inline]
Torn(c) == [c EXCEPT !.torn = TRUE]

\* What `add` leaves when its write is cut short: a block that does not load, or
\* one cut behind `expand = ..`, which does, without its when_command_exists.
CutShort(c, r) == {Torn(c)} \cup {With(c, cut) : cut \in Cuts[r]}

\* `remove` looks for [[abbr]] blocks: it finds nothing in an inline array.
Holds(c, k) == ~c.inline /\ \E r \in c.rules : KeyOf[r] = k
Without(c, k) == [c EXCEPT !.rules = { r \in @ : KeyOf[r] # k }]

\* The rules of d, some of c's other rules, and perhaps one more of them that is
\* cut and still loads.
CutsOf(rules) == UNION { Cuts[r] : r \in rules }
RulesBetween(d, c) ==
    UNION { {whole} \cup { whole \cup {cut} : cut \in CutsOf(c.rules \ whole) } :
            whole \in { rules \in SUBSET c.rules : d.rules \subseteq rules } }

(***************************************************************************)
(* What a file may hold once d is on it and c is being written: a part of  *)
(* c that includes d, with or without a last block cut short.  The version *)
(* line comes first in every file runex writes.                            *)
(***************************************************************************)
Between(d, c) ==
    IF d = c THEN {c}
    ELSE { e \in [head : { h \in BOOLEAN : (d.head => h) /\ (h => c.head) },
                  torn : { t \in BOOLEAN : d.torn /\ c.torn => t },
                  inline : {c.inline},
                  rest : { n \in Rests : d.rest <= n /\ n <= c.rest },
                  rules : RulesBetween(d, c)] :
             /\ e.rules # {} => e.head
             /\ (c.inline /\ e.rules # d.rules) => e.torn }
=============================================================================
