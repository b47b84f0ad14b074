--------------------------- MODULE BakedMatching ----------------------------
(***************************************************************************)
(* What the bash that app/bash_static_dispatcher.rs generates for Git Bash *)
(* makes of one rule and one token: the rule as a line of one of the three *)
(* tables, and the lookup of that table in terms of bash's own matching    *)
(* and replacing.                                                          *)
(***************************************************************************)
EXTENDS Matching

CONSTANTS
    MaxDigits,      \* the digits that the pattern lookup looks at
    Dropped,        \* the symbols that bash_double_quote_for_assoc drops
    Blanks          \* the symbols that __runex_cyg_is_blank removes

-----------------------------------------------------------------------------
\* Whether a place is reached from another.
Reaches(goes, start, end) ==
    LET reached[x \in DOMAIN goes] == x = end \/ \E y \in goes[x] : reached[y]
    IN  reached[start]

\* bash: a pattern goes along a text.  Besides * and ?, brackets and a backslash count.
BashGoes(p, t, i, j) ==
    LET brackets == { k \in i + 2 .. Len(p) : p[i] = "[" /\ p[k] = "]" }
        end == CHOOSE k \in brackets : \A l \in brackets : k <= l
        Takes(fits, next) == IF j <= Len(t) /\ fits THEN {<<next, j + 1>>} ELSE {}
    IN  CASE i > Len(p) -> {}
          [] i <= Len(p) /\ p[i] = "*" -> {<<i + 1, j>>} \cup Takes(TRUE, i)
          [] i < Len(p) /\ p[i] = "\\" -> Takes(p[i + 1] = t[j], i + 2)
          [] brackets # {} -> Takes(Has(SubSeq(p, i + 1, end - 1), t[j]), end + 1)
          [] OTHER -> Takes(p[i] \in {"?", t[j]}, i + 1)
BashMatches(p, t) ==
    Reaches([x \in (1 .. Len(p) + 1) \X (1 .. Len(t) + 1) |-> BashGoes(p, t, x[1], x[2])],
            <<1, 1>>, <<Len(p) + 1, Len(t) + 1>>)

\* bash: ${t#p} and ${t%p} take off the shortest prefix or suffix that matches.
ChopPrefix(t, p) ==
    LET ends == { n \in 0 .. Len(t) : BashMatches(p, SubSeq(t, 1, n)) }
    IN  IF ends = {} THEN t ELSE From(t, 1 + CHOOSE n \in ends : \A o \in ends : n <= o)
ChopSuffix(t, p) ==
    LET begins == { n \in 1 .. Len(t) + 1 : BashMatches(p, From(t, n)) }
    IN  IF begins = {} THEN t ELSE Before(t, CHOOSE n \in begins : \A o \in begins : n >= o)

\* bash: ${t//"s"/"r"}, for an s of one or more symbols
Replaced(t, s, r) ==
    LET from[i \in 1 .. Len(t) + 1] ==
            IF i > Len(t) THEN <<>>
            ELSE IF IsPrefix(s, From(t, i)) THEN r \o from[i + Len(s)] ELSE <<t[i]>> \o from[i + 1]
    IN  from[1]

-----------------------------------------------------------------------------
Without(s, S) == FlattenSeq([i \in DOMAIN s |-> IF s[i] \in S THEN <<>> ELSE <<s[i]>>])

\* bash_double_quote_for_assoc, read back by bash
Baked(s) == Without(s, Dropped)

\* exact_table_lines, pattern_table_lines, glob_table_lines: the table of a rule, or None
Table(r) ==
    CASE r.kind = "glob" -> "globs"
      [] r.kind = None /\ ~HasBrace(r.key) -> "exact"
      [] r.kind = None /\ r.number # None /\ Has(r.key, "{number}") -> "patterns"
      [] OTHER -> None

\* bash_conditions: the commands joined, and what __runex_cyg_conds_met makes of them
Joined(cmds) ==
    FlattenSeq([i \in DOMAIN cmds |-> IF i = 1 THEN cmds[i] ELSE <<":">> \o cmds[i]])
SplitAt(s, x) ==
    LET Field(i, j) ==
            /\ i <= j + 1 /\ \A k \in i .. j : s[k] # x
            /\ (i = 1 \/ s[i - 1] = x) /\ (j = Len(s) \/ s[j + 1] = x)
    IN  { SubSeq(s, f[1], f[2]) : f \in { f \in (1 .. Len(s) + 1) \X (0 .. Len(s)) : Field(f[1], f[2]) } }
AskedBaked(r) == IF Joined(r.when) = <<>> THEN {} ELSE SplitAt(Joined(r.when), ":")
Asked(r) == { r.when[i] : i \in DOMAIN r.when }

\* __runex_cyg_is_blank
IsBlankBaked(t) == \A i \in DOMAIN t : t[i] \in Blanks

\* __runex_cyg_render
RenderBaked(t) ==
    LET i   == FirstCursor(t)
        out == IF i = None THEN t ELSE Before(t, i) \o From(t, i + 2)
    IN  IF IsBlankBaked(out) THEN None
        ELSE [text |-> out, cursor |-> IF i = None THEN None ELSE i - 1]

\* __runex_cyg_lookup
LookupExact(r, t) ==
    IF Baked(r.key) # t \/ Baked(r.expand) = Baked(r.key) THEN None ELSE RenderBaked(Baked(r.expand))

\* The digits without their leading zeros.
Significant(ds) ==
    LET nonzero == { i \in DOMAIN ds : ds[i] # "0" }
    IN  IF nonzero = {} THEN <<>> ELSE From(ds, CHOOSE i \in nonzero : \A j \in nonzero : i <= j)

\* __runex_cyg_pattern_lookup
LookupPattern(r, t) ==
    LET prefix == Baked(Before(r.key, First(r.key, "{number}")))
        suffix == Baked(From(r.key, First(r.key, "{number}") + 1))
        rest   == IF IsPrefix(prefix, t) THEN From(t, Len(prefix) + 1) ELSE t
        digits == IF IsSuffix(suffix, rest) THEN Before(rest, Len(rest) - Len(suffix) + 1) ELSE rest
        n      == NumberOf(Significant(digits))
        units  == Repeat(Baked(r.number), n)
        text   == Replaced(Baked(r.expand), <<"{number}">>, units)
    IN  IF \/ prefix # <<>> /\ rest = t
           \/ suffix # <<>> /\ digits = rest
           \/ ~AllDigits(digits)
           \/ Significant(digits) = <<>>
           \/ Len(Significant(digits)) > MaxDigits
           \/ n > MaxNumeric
          THEN None
          ELSE IF Len(units) > MaxRendered \/ Len(text) > MaxRendered THEN None ELSE RenderBaked(text)

\* __runex_cyg_glob_lookup
LookupGlob(r, t) ==
    LET key   == Baked(r.key)
        head  == IF Has(key, "*") THEN Before(key, First(key, "*")) ELSE key
        tail  == IF Has(key, "*") THEN From(key, First(key, "*") + 1) ELSE <<>>
        rest  == ChopSuffix(ChopPrefix(t, head), tail)
        Filled(s) == Replaced(s, <<"{", "*", "}">>, rest)
        text  == Baked(r.expand)
        i     == FirstCursor(text)
        left  == Filled(Before(text, i))
        out   == IF i = None THEN Filled(text) ELSE left \o Filled(From(text, i + 2))
    IN  IF ~BashMatches(key, t) \/ Len(out) > MaxRendered \/ IsBlankBaked(out) \/ out = t
          THEN None
          ELSE [text |-> out, cursor |-> IF i = None THEN None ELSE Len(left)]

\* Regex rules are in no table.
FiresBaked(r, t) ==
    CASE Table(r) = "exact" -> LookupExact(r, t)
      [] Table(r) = "patterns" -> LookupPattern(r, t)
      [] Table(r) = "globs" -> LookupGlob(r, t)
      [] OTHER -> None
=============================================================================
