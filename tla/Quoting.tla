------------------------------ MODULE Quoting -------------------------------
(***************************************************************************)
(* Text that runex hands to a shell as code: the literals of               *)
(* domain/shell.rs and domain/integration.rs, and what the shells make of  *)
(* them.  A literal is a sequence of symbols like the text it stands for.  *)
(***************************************************************************)
EXTENDS Integers, Sequences, SequencesExt

CONSTANTS
    Code,           \* the ASCII control characters and their codes
    LineSeparators, \* is_unicode_line_separator
    Invisible,      \* is_deceptive_unicode
    Doubles,        \* what PowerShell takes for a double quote, besides the plain one
    Singles,        \* what it takes for a single quote, besides the plain one
    Variables       \* the names of cmd.exe's environment variables

Apostrophe == "'"
QuoteMark == "\""
Backslash == "\\"
Dollar == "$"
Circumflex == "^"
Percent == "%"

\* What the literals and their escapes are made of, all of it plain ASCII.
Decimal == <<"0", "1", "2", "3", "4", "5", "6", "7", "8", "9">>
Hexadecimal == <<"0", "1", "2", "3", "4", "5", "6", "7", "8", "9", "a", "b", "c", "d", "e", "f">>
Plain ==
    {Apostrophe, QuoteMark, Backslash, Dollar, "backtick", Circumflex, "n", "r", "t", "u", "x"} \cup { Hexadecimal[i] : i \in DOMAIN Hexadecimal }

Control == DOMAIN Code
Unsafe == Control \cup LineSeparators \cup Invisible

ASSUME QuotingAssumption ==
    /\ Code \in [Control -> 0 .. 127]
    /\ \A c, d \in Control : Code[c] = Code[d] => c = d
    /\ Plain \cap (Unsafe \cup Doubles \cup Singles) = {}
    /\ {"lf", "cr", "tab"} \subseteq Control
    /\ Control \cap (LineSeparators \cup Invisible \cup Doubles \cup Singles) = {}

Broken == "broken"      \* what a shell cannot read as one literal

Digit(base, n) == base[n + 1]
Value(base, d) == (CHOOSE i \in DOMAIN base : base[i] = d) - 1
IsDigit(base, d) == \E i \in DOMAIN base : base[i] = d
Character(n) == IF \E c \in Control : Code[c] = n THEN CHOOSE c \in Control : Code[c] = n ELSE Broken

\* A literal: an opening, what is written for each of the characters, a closing.
Literal(open, pieces, close) == open \o FlattenSeq(pieces) \o close

\* The letter of an escape of one letter.
Letter == [lf |-> "n", cr |-> "r", tab |-> "t"]

\* A text that is gone through from a place on: what comes of each place, and where it goes on,
\* until that is none of them.
Step(out, next) == [out |-> out, next |-> next]
Scan(steps, start) ==
    LET read[x \in DOMAIN steps] ==
            steps[x].out \o (IF steps[x].next \in DOMAIN steps THEN read[steps[x].next] ELSE <<>>)
    IN  read[start]

-----------------------------------------------------------------------------
\* bash_quote_string: for paths
BashEscape(c) ==
    CASE c = Apostrophe -> <<Apostrophe, Backslash, Apostrophe, Apostrophe>>
      [] c \in Control \cup LineSeparators -> <<>>
      [] OTHER -> <<c>>
BashQuoteString(text) == Literal(<<Apostrophe>>, [i \in DOMAIN text |-> BashEscape(text[i])], <<Apostrophe>>)

\* bash_quote_buffer: for the line, of which nothing may be lost
BashBufferEscape(c) ==
    CASE c = Apostrophe -> <<Apostrophe, Backslash, Apostrophe, Apostrophe>>
      [] c \in Control -> <<Apostrophe, Dollar, Apostrophe, Backslash, "x", Digit(Hexadecimal, Code[c] \div 16),
                            Digit(Hexadecimal, Code[c] % 16), Apostrophe, Apostrophe>>
      [] OTHER -> <<c>>
BashQuoteBuffer(text) == Literal(<<Apostrophe>>, [i \in DOMAIN text |-> BashBufferEscape(text[i])], <<Apostrophe>>)

PwshEscape(c) ==
    CASE c = Apostrophe -> <<Apostrophe, Apostrophe>>
      [] c \in Control \cup LineSeparators -> <<>>
      [] OTHER -> <<c>>
PwshQuoteString(text) == Literal(<<Apostrophe>>, [i \in DOMAIN text |-> PwshEscape(text[i])], <<Apostrophe>>)

PwshDoubleEscape(c) ==
    CASE c \in {"lf", "cr"} -> <<"backtick", Letter[c]>>
      [] c \in {"backtick", Dollar, QuoteMark} \cup Doubles -> <<"backtick", c>>
      [] OTHER -> <<c>>
PwshDoubleQuoteString(text) == Literal(<<QuoteMark>>, [i \in DOMAIN text |-> PwshDoubleEscape(text[i])], <<QuoteMark>>)

\* double_quote_escape, for Nu and Lua, and what else they escape or drop
DoubleQuoteEscape(c, else) ==
    CASE c \in {Backslash, QuoteMark} -> <<Backslash, c>>
      [] c \in DOMAIN Letter -> <<Backslash, Letter[c]>>
      [] OTHER -> else

NuEscape(c) == DoubleQuoteEscape(c, IF c = Dollar THEN <<Backslash, Dollar>> ELSE IF c \in Unsafe THEN <<>> ELSE <<c>>)
NuQuoteString(text) == Literal(<<Circumflex, QuoteMark>>, [i \in DOMAIN text |-> NuEscape(text[i])], <<QuoteMark>>)

\* Mutant: a quote keeps its one backslash.
NuEmbedOnce(text) ==
    LET inner == NuQuoteString(text)
        kept(i) == inner[i] = Backslash /\ i < Len(inner)
    IN  Scan([i \in DOMAIN inner |->
                CASE kept(i) -> Step(<<Backslash, inner[i + 1]>>, i + 2)
                  [] ~kept(i) /\ inner[i] = QuoteMark -> Step(<<Backslash, inner[i]>>, i + 1)
                  [] OTHER -> Step(<<inner[i]>>, i + 1)], 1)

\* nu_quote_string_embedded: within another double-quoted string
NuQuoteStringEmbedded(text) ==
    LET inner == NuQuoteString(text)
        dollar(i) == inner[i] = Backslash /\ i < Len(inner) /\ inner[i + 1] = Dollar
    IN  Scan([i \in DOMAIN inner |->
                CASE dollar(i) -> Step(<<Backslash, Dollar>>, i + 2)
                  [] ~dollar(i) /\ inner[i] \in {Backslash, QuoteMark} -> Step(<<Backslash, inner[i]>>, i + 1)
                  [] OTHER -> Step(<<inner[i]>>, i + 1)], 1)

\* Mutant: the code without zeros before it.
LuaEscapeUnpadded(c) ==
    DoubleQuoteEscape(c,
        CASE c \in Control /\ Code[c] < 10 -> <<Backslash, Digit(Decimal, Code[c])>>
          [] c \in Control /\ Code[c] >= 10 -> <<Backslash, Digit(Decimal, (Code[c] \div 10) % 10), Digit(Decimal, Code[c] % 10)>>
          [] c \in Unsafe \ Control -> <<Backslash, c>>
          [] OTHER -> <<c>>)

\* lua_quote_string: what is unsafe to show is written as the three digits of each of its
\* bytes.  The bytes of a character beyond ASCII, all of three digits, are one symbol here.
LuaEscape(c) ==
    DoubleQuoteEscape(c,
        CASE c \in Control -> <<Backslash, Digit(Decimal, Code[c] \div 100),
                                Digit(Decimal, (Code[c] \div 10) % 10), Digit(Decimal, Code[c] % 10)>>
          [] c \in Unsafe \ Control -> <<Backslash, c>>
          [] OTHER -> <<c>>)
LuaQuoteString(text) == Literal(<<QuoteMark>>, [i \in DOMAIN text |-> LuaEscape(text[i])], <<QuoteMark>>)

\* runex_shell_quote of clink.lua, for cmd.exe
CmdEscape(c) == IF c = QuoteMark THEN <<Backslash, QuoteMark>> ELSE <<c>>
CmdQuote(text) == Literal(<<QuoteMark>>, [i \in DOMAIN text |-> CmdEscape(text[i])], <<QuoteMark>>)

\* serde_json, for the reply to nu
JsonEscape(c) ==
    DoubleQuoteEscape(c,
        IF c \in Control /\ Code[c] < 32
          THEN <<Backslash, "u", Digit(Hexadecimal, Code[c] \div 16), Digit(Hexadecimal, Code[c] % 16)>>
          ELSE <<c>>)
JsonString(text) == Literal(<<QuoteMark>>, [i \in DOMAIN text |-> JsonEscape(text[i])], <<QuoteMark>>)

\* sanitize_nu_cache_path_literal, in the single quotes of integration_line
NuPathEscape(c) == IF c \in {Apostrophe} \cup Control \cup Invisible THEN <<>> ELSE <<c>>
NuCachePath(text) == Literal(<<Apostrophe>>, [i \in DOMAIN text |-> NuPathEscape(text[i])], <<Apostrophe>>)

-----------------------------------------------------------------------------
\* What the shells read.  An end before the end of the literal, or none, breaks it.
EndsAt(w, i) == Step(IF i = Len(w) THEN <<>> ELSE <<Broken>>, 0)

\* bash and zsh: a word of single quotes, $'...' and backslashes
BashStep(w, i, mode) ==
    CASE i > Len(w) -> Step(IF mode = "bare" THEN <<>> ELSE <<Broken>>, <<0, mode>>)
      [] i <= Len(w) /\ mode = "bare" ->
            CASE w[i] = Apostrophe -> Step(<<>>, <<i + 1, "quoted">>)
              [] w[i] = Backslash /\ i < Len(w) -> Step(<<w[i + 1]>>, <<i + 2, mode>>)
              [] w[i] = Dollar /\ i < Len(w) /\ w[i + 1] = Apostrophe -> Step(<<>>, <<i + 2, "ansi">>)
              [] OTHER -> Step(<<Broken>>, <<0, mode>>)
      [] i <= Len(w) /\ mode # "bare" ->
            CASE w[i] = Apostrophe -> Step(<<>>, <<i + 1, "bare">>)
              [] w[i] = Backslash /\ mode = "ansi" /\ i + 3 <= Len(w) /\ w[i + 1] = "x" ->
                    Step(<<Character(16 * Value(Hexadecimal, w[i + 2]) + Value(Hexadecimal, w[i + 3]))>>, <<i + 4, mode>>)
              [] OTHER -> Step(<<w[i]>>, <<i + 1, mode>>)
BashReads(w) ==
    Scan([x \in (1 .. Len(w) + 1) \X {"bare", "quoted", "ansi"} |-> BashStep(w, x[1], x[2])], <<1, "bare">>)

\* PowerShell, after it has taken the output apart at each line break and put "lf" in between
PwshLines(w) == [i \in DOMAIN w |-> IF w[i] = "cr" THEN "lf" ELSE w[i]]
PwshStep(w, i) ==
    LET double == w[1] = QuoteMark
        ends   == IF double THEN {QuoteMark} \cup Doubles ELSE {Apostrophe} \cup Singles
    IN  CASE i > Len(w) -> Step(<<Broken>>, 0)
          [] i <= Len(w) /\ w[i] \in ends ->
                IF i < Len(w) /\ w[i + 1] \in ends THEN Step(<<w[i]>>, i + 2) ELSE EndsAt(w, i)
          [] i < Len(w) /\ double /\ w[i] = "backtick" ->
                Step(CASE w[i + 1] = "n" -> <<"lf">> [] w[i + 1] = "r" -> <<"cr">> [] OTHER -> <<w[i + 1]>>, i + 2)
          [] i <= Len(w) /\ double /\ w[i] = Dollar -> Step(<<Broken>>, 0)
          [] OTHER -> Step(<<w[i]>>, i + 1)
PwshReads(w) == Scan([i \in 2 .. Len(w) + 1 |-> PwshStep(w, i)], 2)

\* Lua, Nu and JSON: double quotes and backslashes.  Lua takes up to three digits.
Named(e) == CASE e = "n" -> "lf" [] e = "r" -> "cr" [] e = "t" -> "tab" [] OTHER -> e
LuaDigits(w, i) ==
    LET digits == { n \in 0 .. 3 : i + n <= Len(w) /\ \A k \in 1 .. n : IsDigit(Decimal, w[i + k]) }
    IN  CHOOSE n \in digits : \A m \in digits : m <= n
LuaNumber(w, i, n) ==
    CASE n = 1 -> Value(Decimal, w[i + 1])
      [] n = 2 -> 10 * Value(Decimal, w[i + 1]) + Value(Decimal, w[i + 2])
      [] n = 3 -> 100 * Value(Decimal, w[i + 1]) + 10 * Value(Decimal, w[i + 2]) + Value(Decimal, w[i + 3])
DoubleStep(w, i, language) ==
    CASE i > Len(w) -> Step(<<Broken>>, 0)
      [] i <= Len(w) /\ w[i] = QuoteMark -> EndsAt(w, i)
      [] i <= Len(w) /\ w[i] = "lf" /\ language # "nu" -> Step(<<Broken>>, 0)
      [] i < Len(w) /\ w[i] = Backslash ->
            CASE language = "lua" /\ LuaDigits(w, i) > 0 ->
                    Step(<<Character(LuaNumber(w, i, LuaDigits(w, i)))>>, i + LuaDigits(w, i) + 1)
              [] language = "json" /\ w[i + 1] = "u" ->
                    Step(<<Character(16 * Value(Hexadecimal, w[i + 2]) + Value(Hexadecimal, w[i + 3]))>>, i + 4)
              [] OTHER -> Step(<<Named(w[i + 1])>>, i + 2)
      [] OTHER -> Step(<<w[i]>>, i + 1)
DoubleReads(w, language) == Scan([i \in 2 .. Len(w) + 1 |-> DoubleStep(w, i, language)], 2)

\* Nu: ^"..." runs what it reads, '...' has no escapes
NuRuns(w) == IF w[1] = Circumflex THEN DoubleReads(Tail(w), "nu") ELSE <<Broken>>
NuReadsPath(w) == IF \E i \in 2 .. Len(w) - 1 : w[i] = Apostrophe THEN <<Broken>> ELSE SubSeq(w, 2, Len(w) - 1)

\* cmd.exe, of what stands between two double quotes: to it a backslash is no escape, a
\* control character ends the command, and the name of a variable between two percent signs
\* is that variable's value.
NamesVariable(text) ==
    \E i, j \in DOMAIN text :
       i < j /\ text[i] = Percent /\ text[j] = Percent /\ SubSeq(text, i + 1, j - 1) \in Variables
CmdTakesApart(text) == (\E i \in DOMAIN text : text[i] \in {QuoteMark} \cup Control) \/ NamesVariable(text)
CmdRuns(w) ==
    LET inner == SubSeq(w, 2, Len(w) - 1)
    IN  IF CmdTakesApart(inner) THEN <<Broken>> ELSE inner

-----------------------------------------------------------------------------
\* integration_line: the path of the cache as the rc file's shell reads it
SourcesFrom(sh, path) ==
    CASE sh \in {"bash", "zsh"} -> BashReads(BashQuoteString(path))
      [] sh = "pwsh" -> PwshReads(PwshQuoteString(path))
      [] sh = "nu" -> NuReadsPath(NuCachePath(path))
      [] sh = "clink" -> path

\* export_script: the program that the key binding runs.  In nu it stands in a string, and
\* clink's Lua puts it on a command line of cmd.exe.
Runs(sh, bin) ==
    CASE sh \in {"bash", "zsh"} -> BashReads(BashQuoteString(bin))
      [] sh = "pwsh" -> PwshReads(PwshQuoteString(bin))
      [] sh = "nu" -> NuRuns(DoubleReads(<<QuoteMark>> \o NuQuoteStringEmbedded(bin) \o <<QuoteMark>>, "nu"))
      [] sh = "clink" -> CmdRuns(CmdQuote(DoubleReads(LuaQuoteString(bin), "lua")))

\* render_action: the line and the caret that the shell takes from the reply
Received(sh, line, caret) ==
    CASE sh = "bash" -> [line |-> BashReads(BashQuoteBuffer(line)), caret |-> caret]
      [] sh = "zsh" ->
            LET left  == BashReads(BashQuoteBuffer(SubSeq(line, 1, caret)))
                right == BashReads(BashQuoteBuffer(SubSeq(line, caret + 1, Len(line))))
            IN  [line |-> left \o right, caret |-> Len(left)]
      [] sh = "pwsh" -> [line |-> PwshReads(PwshLines(PwshDoubleQuoteString(line))), caret |-> caret]
      [] sh = "clink" -> [line |-> DoubleReads(LuaQuoteString(line), "lua"), caret |-> caret]
      [] sh = "nu" -> [line |-> DoubleReads(JsonString(line), "json"), caret |-> caret]
=============================================================================
