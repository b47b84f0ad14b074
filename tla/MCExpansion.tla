----------------------------- MODULE MCExpansion -----------------------------
\* Expansion and RuleDoctor on small instances: configurations of two or three
\* rules.  The key k matches the token in every phase; the keys k2 and n are a
\* second pattern that matches it, and one that does not.
EXTENDS RuleDoctor

CONSTANTS k, k2, n, c, d

MCAccepts == [exact |-> {k}, number |-> {k, k2}, glob |-> {k, k2}, regex |-> {k, k2}]

Everywhere(x) == [bash |-> None, pwsh |-> None, default |-> x]
BashOnly(x) == [bash |-> x, pwsh |-> None, default |-> None]
PwshOnly(x) == [bash |-> None, pwsh |-> x, default |-> None]
BashElse(x, y) == [bash |-> x, pwsh |-> None, default |-> y]

RulesOf(phases, keys, expands, whens) ==
    { r \in [phase : phases, key : keys, expand : expands, when : whens] :
        \A sh \in DOMAIN r.expand : r.expand[sh] = "long" => MayBeLong(r) }

Pairs(rules) == { <<r, q>> : r, q \in rules }

\* One scan, every phase and every class of template.
BroadRules ==
    RulesOf(Phases, {k}, {Everywhere(x) : x \in Templates}
                             \cup {BashOnly("word"), BashElse("key", "words")},
            {None, Everywhere({c})})
        \cup RulesOf({"glob"}, {k2, n}, {Everywhere("words")}, {None, BashOnly({c})})
AskingRules == RulesOf({"exact", "glob"}, {k}, {Everywhere("words"), Everywhere("blank")},
                       {Everywhere({c})})
BroadConfigs == Pairs(BroadRules) \cup { <<r, q, t>> : r, q, t \in AskingRules }

\* All three scans, with conditions that overlap and entries that bash does not have.
ScansRules ==
    RulesOf({"exact", "glob"}, {k}, {Everywhere("word"), PwshOnly("word"), Everywhere("key"),
                                     Everywhere("token"), Everywhere("blank"), Everywhere("long")},
            {Everywhere({c})})
        \cup RulesOf({"number", "regex"}, {k}, {Everywhere("word"), Everywhere("long")}, {Everywhere({c})})
        \cup RulesOf({"exact", "number"}, {k}, {Everywhere("words")}, {None, PwshOnly({c})})
        \cup RulesOf({"glob"}, {k}, {Everywhere("words")}, {BashElse({}, {c})})
        \cup RulesOf({"glob"}, {k}, {BashOnly("word")}, {Everywhere({c, d})})
ScansConfigs == Pairs(ScansRules)

NoHint == {{}}
SomeHint == {{}, {c}}
=============================================================================
