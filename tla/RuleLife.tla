------------------------------ MODULE RuleLife -------------------------------
(***************************************************************************)
(* The life of a rule: it gets into the configuration by `runex add` or by *)
(* an editor, a load accepts the configuration or refuses it, and at a key *)
(* press the rule makes something of the token, in runex and in the bash   *)
(* baked for Git Bash.  Every rule is looked at by itself; which of several*)
(* fires is the business of Expansion.                                     *)
(***************************************************************************)
EXTENDS BakedMatching, Bootstrap

CONSTANTS
    Written,        \* what an editor leaves in the file: at most one rule, and [keybind] tables
    Addable,        \* rules that `add` is called with: no kind, no unit, one expand
    Tokens,         \* what is typed
    Homes,          \* where runex and the caches are: what the paths have in common
    Shells,
    Shown,          \* the expands that are followed into a shell (a bound of the model)
    MaxToken,       \* MAX_TOKEN_BYTES
    TooLong,        \* that a token has more
    Rights          \* what stands on the line after the token

\* The [keybind] tables: for each label a key or None.
KeyTable == [{"default", "bash", "zsh", "pwsh", "nu"} -> Keys \cup {None}]
Keybind == [trigger : KeyTable, self_insert : KeyTable, paste : KeyTable]

ASSUME LifeAssumption ==
    /\ \A f \in Written : f.rules \in Seq(AbbrRule) /\ f.keybind \in Keybind
    /\ Addable \subseteq AbbrRule
    /\ \A r \in Addable : r.kind = None /\ r.number = None /\ r.pwsh = None
    /\ Tokens \subseteq Text
    /\ \A t \in Tokens : t # <<>> /\ ~Has(t, " ")
    /\ TooLong \notin Text /\ TooLong # None
    /\ Rights \subseteq Text /\ Homes \subseteq Text
    /\ \A right \in Rights : right # <<>> => Head(right) = " "
    /\ Shells \subseteq {"bash", "zsh", "pwsh", "nu", "clink"}
    /\ MaxToken = MaxKey

\* What a text that loads has none of.
Refused == {Nul} \cup Controls \cup Deceptive

\* Of the baked tables: they drop nothing else from what loads but line separators, no command
\* has a colon, of what counts as blank there is only the blank in texts and tokens, and a
\* number with more digits than are looked at is over the limit.
ASSUME BakedAssumption ==
    /\ Dropped \subseteq Refused \cup LineSeparators
    /\ ":" \in Separators
    /\ " " \in Blanks /\ Blanks \subseteq {" "} \cup Refused
    /\ \A t \in Tokens : ~OneOf(t, Blanks)
    /\ MaxDigits \in Nat /\ MaxNumeric < NumberOf(<<"1">> \o [i \in 1 .. MaxDigits |-> "0"])

VARIABLES
    rules,      \* the rules of the file
    keybind,    \* its key bindings
    stage,      \* "file", "loaded", "refused", "pressed" or "taken"; "panicked", "open"
    token,      \* what was typed
    runex,      \* what the rule makes of it, or None
    gitbash,    \* and in Git Bash
    which,      \* what `runex which` shows of it, or None, or TooLong
    shell,      \* a shell that has read its integration, or None
    buffer      \* the line a shell should have now, and the line it has, or None

vars == <<rules, keybind, stage, token, runex, gitbash, which, shell, buffer>>

NoKeys == [default |-> None, bash |-> None, zsh |-> None, pwsh |-> None, nu |-> None]
NoBinding == [trigger |-> NoKeys, self_insert |-> NoKeys, paste |-> NoKeys]

Init ==
    /\ rules = <<>>
    /\ keybind = NoBinding
    /\ stage = "file"
    /\ token = <<>>
    /\ runex = None
    /\ gitbash = None
    /\ which = None
    /\ shell = None
    /\ buffer = None

Edit(f) ==
    /\ stage = "file"
    /\ rules = <<>>
    /\ rules' = f.rules
    /\ keybind' = f.keybind
    /\ UNCHANGED <<stage, token, runex, gitbash, which, shell, buffer>>

Add(r) ==
    /\ stage = "file"
    /\ AddAccepts(r, rules, keybind)
    /\ rules' = Append(rules, r)
    /\ UNCHANGED <<keybind, stage, token, runex, gitbash, which, shell, buffer>>

Load ==
    /\ stage = "file"
    /\ stage' = IF Loads(rules, keybind) THEN "loaded" ELSE "refused"
    /\ UNCHANGED <<rules, keybind, token, runex, gitbash, which, shell, buffer>>

\* with_cursor_marker
WithCursorMarker(rendered) ==
    IF rendered.cursor = None THEN rendered.text
    ELSE SubSeq(rendered.text, 1, rendered.cursor) \o <<"{", "}">> \o From(rendered.text, rendered.cursor + 1)

\* `runex which` and `runex expand --dry-run`; a key press has no such limit.
Which(r, t) ==
    CASE Len(t) > MaxToken -> TooLong
      [] Len(t) <= MaxToken /\ Fires(r, t) # None -> WithCursorMarker(Fires(r, t))
      [] OTHER -> None

Press(t) ==
    /\ stage = "loaded"
    /\ Len(rules) = 1
    /\ stage' = "pressed"
    /\ token' = t
    /\ runex' = Fires(rules[1], t)
    /\ gitbash' = FiresBaked(rules[1], t)
    /\ which' = Which(rules[1], t)
    /\ UNCHANGED <<rules, keybind, shell, buffer>>

\* The reply of the hook, with the rest of the line, goes to a shell.
Take(sh, right) ==
    /\ stage = "pressed"
    /\ rules[1].expand \in Shown /\ runex # None
    /\ stage' = "taken"
    /\ LET line  == runex.text \o (IF runex.cursor = None THEN <<" ">> ELSE <<>>) \o right
           caret == IF runex.cursor = None THEN Len(runex.text) + 1 ELSE runex.cursor
       IN  buffer' = [meant |-> [line |-> line, caret |-> caret], got |-> Received(sh, line, caret)]
    /\ UNCHANGED <<rules, keybind, token, runex, gitbash, which, shell>>

\* A shell that reads what `init`, or `export` with a --bin, has written for it.
Open(sh, command, home) ==
    /\ stage = "loaded" /\ rules = <<>>
    /\ IF \/ command = "export" /\ ~ValidBin(home)
          \/ TriggerFor(sh, keybind) # None /\ ChordPanics(sh, TriggerFor(sh, keybind))
         THEN stage' = (IF command = "export" /\ ~ValidBin(home) THEN "refused" ELSE "panicked") /\ UNCHANGED shell
         ELSE /\ stage' = "open"
              /\ shell' = [name |-> sh, command |-> command, home |-> home, keys |-> Bound(sh, keybind),
                           runs |-> Runs(sh, home), sources |-> SourcesFrom(sh, home)]
    /\ UNCHANGED <<rules, keybind, token, runex, gitbash, which, buffer>>

Next ==
    \/ \E f \in Written : Edit(f)
    \/ \E r \in Addable : Add(r)
    \/ Load
    \/ \E t \in Tokens : Press(t)
    \/ \E sh \in Shells, right \in Rights : Take(sh, right)
    \/ \E sh \in Shells, command \in {"init", "export"}, home \in Homes : Open(sh, command, home)

Spec == Init /\ [][Next]_vars

-----------------------------------------------------------------------------
rule == rules[1]

\* Git Bash makes of a token what runex makes of it, text and caret, and asks for the same
\* commands: for every rule that loads, whatever brackets, braces, zeros and colons it has.
\* Regex rules have no table there, and the tables drop line separators, which may load.
BakedAlike ==
    stage = "pressed" /\ rule.kind # "regex"
    /\ (\A text \in {rule.key, rule.expand, rule.number} \ {None} : ~OneOf(text, LineSeparators)) =>
        gitbash = runex /\ AskedBaked(rule) = Asked(rule)

\* `which` shows where the caret goes: its first `{}`, unless the user typed one further
\* to the left.  It refuses a token that is too long for a key, and of those no rule fires
\* whose key is taken as it is.
WhichIsTrue ==
    stage = "pressed" =>
        CASE which = TooLong -> runex = None \/ Phase(rule) # "exact"
          [] which # TooLong /\ which # None ->
                LET i == FirstCursor(which) IN
                \/ i = None /\ runex = [text |-> which, cursor |-> None]
                \/ i # None /\ runex = [text |-> Before(which, i) \o From(which, i + 2), cursor |-> i - 1]
                \/ FirstCursor(runex.text) # None
          [] OTHER -> runex = None

\* A glob matches what its wildcards say: the token is the key with any text for the `*`
\* and any symbol for each `?`.  A number matches up to its limit, with leading zeros.
Instance(key, c) ==
    IF Has(key, "*") THEN Before(key, First(key, "*")) \o c \o From(key, First(key, "*") + 1) ELSE key
GlobFits(key, c, t) == FixedPartMatches(Instance(key, c), t)
NumberFits(key, ds, t) ==
    /\ AllDigits(ds) /\ NumberOf(ds) \in 1 .. MaxNumeric
    /\ t = Before(key, First(key, "{number}")) \o ds \o From(key, First(key, "{number}") + 1)
Parts(t) == { SubSeq(t, i, j) : i \in 1 .. Len(t) + 1, j \in 0 .. Len(t) }
MatchIsRight ==
    stage = "pressed" =>
        LET capture == GlobCapture(rule.key, token)
            matched == Match(rule, token)
        IN  /\ rule.kind = "glob" =>
                  IF capture = None THEN \A c \in Parts(token) : ~GlobFits(rule.key, c, token)
                  ELSE GlobFits(rule.key, capture, token)
            /\ Phase(rule) = "number" =>
                  IF matched = None THEN \A ds \in Parts(token) : ~NumberFits(rule.key, ds, token)
                  ELSE \E ds \in Parts(token) : NumberFits(rule.key, ds, token) /\ matched.number = NumberOf(ds)

\* The caret ends up where the `{}` of the template was, never at braces that the user
\* typed: what stands before it comes from what stands before the `{}`.
CursorIsTheTemplates ==
    stage = "pressed" /\ runex # None /\ rule.kind # None =>
        LET i == FirstCursor(rule.expand)
        IN  IF i = None THEN runex.cursor = None
            ELSE SubSeq(runex.text, 1, runex.cursor) = Substituted(Before(rule.expand, i), Match(rule, token))

\* One `{}` at most, and beside the `{*}` if the key has a star, not within it.
CutsCleanly(r) ==
    /\ Cardinality(CursorAt(r.expand)) < 2
    /\ r.kind = "glob" /\ Has(r.key, "*") => <<"{", "*", "}">> \in Parts(r.expand)

\* What doctor says of a rule without a token is so for every token: a rule that is always
\* blank or rewrites the token to itself never fires, and one that always fires when it
\* matches does.  Not so for an expand with two `{}`, of which only one is taken out, for a
\* `{}` within what only becomes the `{*}` without it, for a {number} rule with its key for an
\* expand, which fires, and for a rendering beyond the cap.
QualityIsRight ==
    stage = "pressed" /\ Match(rule, token) # None =>
        LET rendered == Render(rule, Match(rule, token)) IN
        /\ Blankness(rule) = "Always" => runex = None
        /\ RewritesTokenToItself(rule) /\ Phase(rule) # "number" /\ CutsCleanly(rule) => runex = None
        /\ AlwaysFires(rule) /\ rendered # None => runex # None

\* The reply reaches the shell's buffer as it was meant, every character of the line and the
\* caret, whatever the expand and the rest of the line are made of: through the quoting of
\* the reply, the way it is passed, and the shell's own reading of it.
TakenAsMeant == stage = "taken" => buffer.got = buffer.meant

\* A configuration that loads makes no key binding panic, but for shift-space, and a new
\* shell has its keys as configured: an entry for the shell counts before the default, a key
\* that inserts a space does so even if it is the trigger too, and no other key changes.
\* Of a shift-space that bash or zsh leaves alone doctor tells.
KeysAsConfigured ==
    LET own(table) == IF shell.name # "clink" /\ table[shell.name] # None THEN table[shell.name] ELSE table.default IN
    /\ stage = "panicked" => \E label \in DOMAIN NoKeys : keybind.trigger[label] = "shift-space"
    /\ stage = "open" =>
          \A key \in Keys :
             /\ shell.keys[key] = "insert" => key = own(keybind.self_insert)
             /\ key = own(keybind.self_insert) /\ key = "alt-space" /\ shell.name # "clink" => shell.keys[key] = "insert"
             /\ shell.keys[key] = "expand" => key = own(keybind.trigger)
             /\ key = own(keybind.trigger) => shell.keys[key] # "own" /\ (shell.keys[key] = "expand" \/ key = own(keybind.self_insert))
             /\ key = "shift-space" /\ key = own(keybind.self_insert) /\ shell.name \in {"bash", "zsh"} => CheckKeybind(keybind)
             /\ shell.keys[key] = "paste" <=> shell.name = "nu" /\ key = "ctrl-v" /\ keybind.paste.nu = "ctrl-v"

\* The program and the cache that a shell uses are those that were written into it: what
\* `export` accepts as --bin character for character, and of other paths nothing is lost but
\* what is unsafe to show (and of a cache for nu the single quotes).  A path never ends its
\* literal before its end.  Not so for the curly single quotes in PowerShell, nor for the
\* program of clink where cmd.exe does not read it as the one word that Lua meant: a quote, a
\* control character or the name of a variable, of which --bin takes the first and the last.
PathsSurvive ==
    LET LosesOnly(S, path) == path = Without(shell.home, { c \in S : ~Has(path, c) }) IN
    stage = "open" /\ ~(shell.name = "pwsh" /\ OneOf(shell.home, Singles)) =>
        /\ ~(shell.name = "clink" /\ CmdTakesApart(shell.home)) =>
              /\ shell.command = "export" => shell.runs = shell.home
              /\ LosesOnly(Unsafe, shell.runs)
        /\ LosesOnly(IF shell.name = "nu" THEN Unsafe \cup {"'"} ELSE Unsafe, shell.sources)

\* `add` never writes a configuration that the next load refuses, unless the key has a
\* brace: of that it asks nothing.
AddBreaksOnlyByBraces ==
    [][\A r \in Addable : Add(r) => Loads(rules', keybind) \/ HasBrace(r.key)]_vars

=============================================================================
