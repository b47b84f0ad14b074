----------------------------- MODULE RuleDoctor ------------------------------
(***************************************************************************)
(* `runex doctor --strict` calls a rule unreachable when an earlier rule   *)
(* with its key hides it (app/doctor.rs).  It decides that from the file   *)
(* alone; what the rules do is Expansion.                                  *)
(***************************************************************************)
EXTENDS Expansion

Values(table) == { table[sh] : sh \in DOMAIN table } \ {None}

\* blankness: a template that is never blank, whatever the token.  Long text is
\* short for a token of few characters, and not blank.
NeverBlankIgnored(r, template) == TRUE
NeverBlank(r, template) ==
    /\ template # "blank"
    /\ template = "token" => r.phase \notin {"glob", "regex"}

\* Glob and regex text differs from the token for sure if it has a space.
DiffersFromToken(r, template) ==
    IF r.phase \in {"exact", "number"} THEN template # "key"
                                       ELSE template \in {"words", "long"}

AlwaysFiresWhenMatched(r) ==
    \A v \in Values(r.expand) : DiffersFromToken(r, v) /\ NeverBlank(r, v)

\* Same `match`, same key: a brace in the key makes the phase of a rule.
SameIdentity(r, q) == r.key = q.key /\ r.phase = q.phase

Hides(j, i) ==
    /\ j < i /\ SameIdentity(config[j], config[i])
    /\ config[j].when = None /\ AlwaysFiresWhenMatched(config[j])
Unreachable == { i \in Indices : \E j \in Indices : Hides(j, i) }

\* A rule called unreachable fires only where every rule that hides it has no
\* entry for the shell, or renders to more than the cap.
UnreachableIsHidden ==
    \A s \in Scans : (doing[s] = "done" /\ at[s] \in Unreachable) =>
       \A j \in Indices : Hides(j, at[s]) =>
          Template(config[j]) = None \/ Rendered(config[j]) = "long"
=============================================================================
