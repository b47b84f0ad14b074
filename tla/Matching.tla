------------------------------ MODULE Matching ------------------------------
(***************************************************************************)
(* What one rule makes of one token, symbol by symbol: match_rule,         *)
(* render_with_cursor and the guards of try_expand_rule in                 *)
(* domain/expand.rs, and what it decides without a token, blankness.       *)
(*                                                                         *)
(* A text is a sequence of symbols, each of one byte.  "{number}" is one   *)
(* symbol: nothing else in a key or a template spells it.                  *)
(***************************************************************************)
EXTENDS Integers, Sequences, FiniteSets, SequencesExt

CONSTANTS
    MaxNumeric,     \* MAX_NUMERIC_REPEAT
    MaxRendered,    \* MAX_RENDERED_EXPAND_BYTES
    Symbols,        \* what texts are made of
    None

Digits == [d \in {"0", "1", "2", "9"} |-> CASE d = "0" -> 0 [] d = "1" -> 1 [] d = "2" -> 2 [] d = "9" -> 9]
Has(s, x) == \E i \in DOMAIN s : s[i] = x
HasBrace(s) == Has(s, "{") \/ Has(s, "{number}")
Before(s, i) == SubSeq(s, 1, i - 1)
From(s, i) == SubSeq(s, i, Len(s))
First(s, x) == CHOOSE i \in DOMAIN s : s[i] = x /\ \A j \in 1 .. i - 1 : s[j] # x

Text == Seq(Symbols)

\* AbbrRule: a text for all shells, or one for bash beside one for pwsh
AbbrRule ==
    [kind : {None, "glob", "regex"}, key : Text, expand : Text, pwsh : Text \cup {None},
     when : Seq(Text), number : Text \cup {None}]

\* Bindings, and what a rule renders
Bindings == [number : Nat \cup {None}, glob : Text \cup {None}, regex : Seq(Text) \cup {None}]
NoCapture == [number |-> None, glob |-> None, regex |-> None]
Rendering == [text : Text, cursor : Nat \cup {None}]

ASSUME MatchingAssumption ==
    /\ MaxNumeric \in Nat /\ MaxRendered \in Nat
    /\ {"{", "}"} \subseteq Symbols
    /\ None \notin {"glob", "regex"} /\ None \notin Nat /\ None \notin Text /\ None \notin Seq(Text) /\ None \notin BOOLEAN
    /\ None \notin Bindings /\ None \notin Rendering

Phase(r) == CASE r.kind # None -> r.kind
              [] r.kind = None /\ HasBrace(r.key) -> "number"
              [] OTHER -> "exact"

-----------------------------------------------------------------------------
\* The regex engine, for the keys that the instances use: how many groups a key has
\* (None when it does not compile), and what they capture of a token.
Groups(key) == CASE key = <<"(.)(.*)">> -> 2 [] key = <<"(.*)">> -> 1 [] OTHER -> None
Captured(key, t) == CASE key = <<"(.)(.*)">> -> IF t = <<>> THEN None ELSE <<SubSeq(t, 1, 1), Tail(t)>>
                      [] key = <<"(.*)">> -> <<t>>
                      [] OTHER -> None

-----------------------------------------------------------------------------
\* glob_fixed_part_matches
FixedPartMatches(p, t) == Len(p) = Len(t) /\ \A i \in DOMAIN p : p[i] \in {"?", t[i]}

\* Mutant: the head and the tail of the key may overlap in the token.
GlobCaptureOverlapping(key, t) ==
    IF ~Has(key, "*")
      THEN IF FixedPartMatches(key, t) THEN <<>> ELSE None
      ELSE LET head == Before(key, First(key, "*"))
               tail == From(key, First(key, "*") + 1)
               end  == Len(t) - Len(tail)
           IN  IF /\ Len(head) <= Len(t) /\ 0 <= end
                  /\ FixedPartMatches(head, SubSeq(t, 1, Len(head)))
                  /\ FixedPartMatches(tail, From(t, end + 1))
                 THEN SubSeq(t, Len(head) + 1, end)
                 ELSE None

\* match_glob_key: what the `*` takes, or None
GlobCapture(key, t) ==
    IF ~Has(key, "*")
      THEN IF FixedPartMatches(key, t) THEN <<>> ELSE None
      ELSE LET head == Before(key, First(key, "*"))
               tail == From(key, First(key, "*") + 1)
               end  == Len(t) - Len(tail)
           IN  IF /\ Len(head) <= end
                  /\ FixedPartMatches(head, SubSeq(t, 1, Len(head)))
                  /\ FixedPartMatches(tail, From(t, end + 1))
                 THEN SubSeq(t, Len(head) + 1, end)
                 ELSE None

\* A run of digits as a number, leading zeros and all.
NumberOf(ds) ==
    LET upto[i \in 0 .. Len(ds)] == IF i = 0 THEN 0 ELSE 10 * upto[i - 1] + Digits[ds[i]]
    IN  upto[Len(ds)]

AllDigits(s) == s # <<>> /\ \A i \in DOMAIN s : s[i] \in DOMAIN Digits

\* match_abbr_key with a placeholder: the number, or None
NumberCapture(key, t) ==
    LET prefix == Before(key, First(key, "{number}"))
        suffix == From(key, First(key, "{number}") + 1)
        rest   == SubSeq(t, Len(prefix) + 1, Len(t) - Len(suffix))
    IN  IF /\ Len(prefix) + Len(suffix) <= Len(t)
           /\ IsPrefix(prefix, t) /\ IsSuffix(suffix, t)
           /\ AllDigits(rest)
           /\ NumberOf(rest) \in 1 .. MaxNumeric
          THEN NumberOf(rest)
          ELSE None

\* split_once_number_placeholder finds one placeholder and no other brace.
SplitsOnce(key) ==
    /\ Has(key, "{number}")
    /\ ~HasBrace(Before(key, First(key, "{number}")))
    /\ ~HasBrace(From(key, First(key, "{number}") + 1))

\* match_rule
Match(r, t) ==
    CASE r.kind = "glob" /\ GlobCapture(r.key, t) # None -> [NoCapture EXCEPT !.glob = GlobCapture(r.key, t)]
      [] r.kind = "regex" /\ Captured(r.key, t) # None -> [NoCapture EXCEPT !.regex = Captured(r.key, t)]
      [] Phase(r) = "number" /\ SplitsOnce(r.key) /\ NumberCapture(r.key, t) # None ->
            [NoCapture EXCEPT !.number = NumberCapture(r.key, t)]
      [] r.kind = None /\ ~SplitsOnce(r.key) /\ r.key = t -> NoCapture
      [] OTHER -> None

-----------------------------------------------------------------------------
\* render_number: every {number} becomes n units
Repeat(unit, n) == FlattenSeq([i \in 1 .. n |-> unit])
RenderNumber(r, b) ==
    CASE b.number = None -> r.expand
      [] b.number # None /\ r.number = None -> None
      [] b.number # None /\ r.number # None ->
            LET units    == Repeat(r.number, b.number)
                rendered == FlattenSeq([i \in DOMAIN r.expand |->
                                IF r.expand[i] = "{number}" THEN units ELSE <<r.expand[i]>>])
            IN  IF Len(units) > MaxRendered \/ Len(rendered) > MaxRendered THEN None ELSE rendered

\* extract_cursor_placeholder: where the first `{}` is
CursorAt(t) == { i \in 1 .. Len(t) - 1 : t[i] = "{" /\ t[i + 1] = "}" }
FirstCursor(t) == IF CursorAt(t) = {} THEN None ELSE CHOOSE i \in CursorAt(t) : \A j \in CursorAt(t) : i <= j

\* resolve_capture for a placeholder {x} that begins at i
Resolved(t, i, b) ==
    IF ~(i + 2 <= Len(t) /\ t[i] = "{" /\ t[i + 2] = "}") THEN None
    ELSE CASE t[i + 1] = "*" -> b.glob
           [] t[i + 1] \in {"1", "2", "9"} /\ b.regex # None ->
                 IF Digits[t[i + 1]] \in DOMAIN b.regex THEN b.regex[Digits[t[i + 1]]] ELSE None
           [] OTHER -> None

\* for_each_rendered_piece: left to right, what was put in is not looked at again
Substituted(t, b) ==
    LET from[i \in 1 .. Len(t) + 1] ==
            IF i > Len(t) THEN <<>>
            ELSE IF Resolved(t, i, b) # None THEN Resolved(t, i, b) \o from[i + 3]
            ELSE <<t[i]>> \o from[i + 1]
    IN  from[1]

\* substitute_captures
WithCaptures(t, b) == IF Len(Substituted(t, b)) > MaxRendered THEN None ELSE Substituted(t, b)

\* Mutant: the placeholder is looked for after the captures are in.
RenderCursorLast(r, b) ==
    LET base == RenderNumber(r, b)
        text == IF base = None THEN None ELSE WithCaptures(base, b)
    IN  CASE text = None -> None
          [] text # None /\ FirstCursor(text) = None -> [text |-> text, cursor |-> None]
          [] text # None /\ FirstCursor(text) # None ->
                [text |-> Before(text, FirstCursor(text)) \o From(text, FirstCursor(text) + 2),
                 cursor |-> FirstCursor(text) - 1]

\* render_with_cursor: the text and the caret in it, or None
Render(r, b) ==
    LET base  == RenderNumber(r, b)
        i     == IF base = None THEN None ELSE FirstCursor(base)
        left  == WithCaptures(Before(base, i), b)
        right == WithCaptures(From(base, i + 2), b)
    IN  CASE base = None -> None
          [] base # None /\ i = None ->
                IF WithCaptures(base, b) = None THEN None
                ELSE [text |-> WithCaptures(base, b), cursor |-> None]
          [] base # None /\ i # None ->
                IF left = None \/ right = None \/ Len(left) + Len(right) > MaxRendered THEN None
                ELSE [text |-> left \o right, cursor |-> Len(left)]

IsBlank(t) == \A i \in DOMAIN t : t[i] = " "

\* try_expand_rule once its commands are there
Fires(r, t) ==
    LET b == Match(r, t)
        rendered == Render(r, b)
    IN  IF \/ b = None
           \/ Phase(r) = "exact" /\ r.key = r.expand
           \/ rendered = None
          THEN None
          ELSE IF IsBlank(rendered.text) \/ (Phase(r) \in {"glob", "regex"} /\ rendered.text = t)
                 THEN None
                 ELSE rendered

-----------------------------------------------------------------------------
\* Mutant: a unit with braces is taken for one without.
DecidableAlways(r) == r.number # None

\* Whether one repeat shows what all do: a unit with braces can form or break a `{}`.
Decidable(r) == r.number # None /\ ~Has(r.number, "{") /\ ~Has(r.number, "}")

\* empty_captures
EmptyCaptures(r) ==
    IF r.kind = "regex"
      THEN IF Groups(r.key) = None THEN None ELSE [NoCapture EXCEPT !.regex = [i \in 1 .. Groups(r.key) |-> <<>>]]
      ELSE [NoCapture EXCEPT !.glob = <<>>]

RendersBlank(r, b) == IF Render(r, b) = None THEN None ELSE IsBlank(Render(r, b).text)

Decided(blank) == CASE blank = None -> "DependsOnToken" [] blank = TRUE -> "Always" [] blank = FALSE -> "Never"

\* blankness
Blankness(r) ==
    CASE Phase(r) = "exact" -> Decided(RendersBlank(r, NoCapture))
      [] Phase(r) = "number" -> IF Decidable(r) THEN Decided(RendersBlank(r, [NoCapture EXCEPT !.number = 1]))
                                ELSE "DependsOnToken"
      [] Phase(r) \in {"glob", "regex"} ->
            LET empty == EmptyCaptures(r)
                blank == IF empty = None THEN None ELSE RendersBlank(r, empty)
            IN  CASE blank = None -> "DependsOnToken"
                  [] blank = FALSE -> "Never"
                  [] blank = TRUE /\ r.kind = "glob" /\ ~Has(r.key, "*") -> "Always"
                  [] OTHER -> IF RendersBlank(r, NoCapture) = TRUE THEN "Always" ELSE "DependsOnToken"

-----------------------------------------------------------------------------
\* What doctor says of a rule without a token.
\* rewrites_token_to_itself: every `{}` is taken out of the expand of a glob.
WithoutCursors(t) ==
    LET from[i \in 1 .. Len(t) + 1] ==
            IF i > Len(t) THEN <<>>
            ELSE IF i \in CursorAt(t) THEN from[i + 2]
            ELSE <<t[i]>> \o from[i + 1]
    IN  from[1]
RewritesTokenToItself(r) ==
    CASE r.kind = None -> r.expand = r.key
      [] r.kind = "glob" ->
            /\ ~Has(r.key, "?")
            /\ WithoutCursors(r.expand) =
                  IF Has(r.key, "*")
                    THEN Before(r.key, First(r.key, "*")) \o <<"{", "*", "}">> \o From(r.key, First(r.key, "*") + 1)
                    ELSE r.key
      [] r.kind = "regex" -> FALSE

\* always_fires_when_matched, for a rule with one expand
AlwaysFires(r) ==
    /\ IF r.kind = None THEN ~RewritesTokenToItself(r) ELSE Has(r.expand, " ")
    /\ Blankness(r) = "Never"
=============================================================================
