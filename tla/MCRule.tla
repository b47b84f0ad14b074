------------------------------- MODULE MCRule --------------------------------
\* RuleLife on small instances: families of rules that each vary one thing.
EXTENDS RuleLife

MCSymbols == STRING
MCCode == [esc |-> 27, lf |-> 10, cr |-> 13, tab |-> 9, soh |-> 1]

Strings(n, S) == UNION { [1 .. m -> S] : m \in 1 .. n }
Concats(n, S) == { FlattenSeq(s) : s \in Strings(n, S) }

Rule(kind, key, expand) ==
    [kind |-> kind, key |-> key, expand |-> expand, pwsh |-> None, when |-> <<>>, number |-> None]

x == <<"x">>
caret == <<"{", "}">>
star == <<"{", "*", "}">>
group(d) == <<"{", d, "}">>
number == <<"{number}">>

\* What globs match, what templates make of a capture, and of a number.
MCGlobKeys == { Rule("glob", key, e) : key \in Strings(3, {"a", "*", "?", "[", "\\"}), e \in {x, star} }
MCTemplates ==
    { Rule("glob", <<"*">>, e) :
        e \in Concats(3, {x, <<" ">>, caret, star, <<"{">>, <<"}">>})
                \cup {<<"{">> \o caret \o <<"*", "}">>, <<"{", "*">> \o caret \o <<"}">>} }
MCNumbers ==
    { [Rule(None, key, e) EXCEPT !.number = u] :
        key \in {number, <<"a">> \o number, number \o <<"a">>, <<"1">> \o number, number \o <<"0">>,
                 number \o number, <<"{">> \o number, <<"a">>},
        e \in {number, x \o number, number \o number, <<"{">> \o number, number \o <<"}">>, caret \o number, <<" ", " ">>},
        u \in {None, x, <<"x", "y">>, <<"{">>, <<"{", "}">>, <<" ">>, <<"x", "x", "x">>} }
MCRegexes ==
    { [Rule("regex", key, e) EXCEPT !.pwsh = p] :
        key \in {<<"(.)(.*)">>, <<"(.*)">>, <<"(">>},
        e \in {group("1"), group("2") \o caret \o group("1"), group("9"), star, <<"0">>},
        p \in {None, x, group("2")} }

\* What a text may not be: as a key, an expand, a command and a unit.
MCWrong == {<<>>, <<" ">>, <<"nul">>, <<"esc", "nul">>, <<"rlo">>, <<"x", "x", "x", "x", "x", "x", "x">>,
            <<"a", "/">>, <<"a", ":", "c">>, <<"a", "|">>}
MCOddities ==
    { Rule(None, t, x) : t \in MCWrong }
        \cup { Rule(None, <<"a">>, t) : t \in MCWrong \cup {<<"a">>} }
        \cup { [Rule(None, <<"a">>, x) EXCEPT !.pwsh = t] : t \in MCWrong }
        \cup { [Rule(None, <<"a">>, x) EXCEPT !.when = w] : w \in Strings(3, {<<"c">>, <<"d">>}) \cup Strings(2, MCWrong) }
        \cup { [Rule(None, number, number) EXCEPT !.number = t] : t \in MCWrong }


\* What must not end a literal or be lost on the way, and a control character before a digit.
MCSpecials == {"x", "'", "\"", "\\", "$", "backtick", "ls", "ldq", "rsq"}
MCLeading == {"'", "\"", "\\", "$", "backtick"}
MCShown ==
    { <<c>> : c \in MCSpecials } \cup { caret \o <<c>> : c \in MCSpecials } \cup { <<c>> \o caret \o <<"x">> : c \in MCSpecials }
        \cup { <<c, d>> : c, d \in MCLeading }
MCReplies == { Rule(None, <<"a">>, e) : e \in MCShown }
MCRights ==
    {<<>>} \cup { <<" ", c>> : c \in MCSpecials \cup {"rlo"} } \cup { <<" ", c, d>> : c \in DOMAIN Code, d \in {"0", "'", "lf"} }
\* For cmd.exe, the name of a variable that is there and of one that is not.
MCVariables == {<<"x">>}
MCHomes == {<<"%", "x", "%">>, <<"%", "$", "%">>, <<"x", "%">>} \cup Strings(2, MCLeading \cup {"x", "lf"}) \cup { <<c>> : c \in {"ls", "ldq", "rsq", "rlo", "esc", " "} } \cup {<<"x", "x", "x", "x">>}

MCRules == MCGlobKeys \cup MCTemplates \cup MCNumbers \cup MCRegexes \cup MCOddities \cup MCReplies
MCAddable ==
    { [Rule(None, key, x) EXCEPT !.when = w] :
        key \in {<<"a">>, <<"b">>, <<"*">>, <<"a", "{">>, <<"}">>, number, <<"nul">>},
        w \in {<<>>, <<<<"a", ":", "c">>>>} }

MCTokens ==
    Strings(2, {"a", "{", "}"}) \cup { <<c>> \o caret : c \in {"a", "{", "}"} } \cup { caret \o <<c>> : c \in {"a", "{", "}"} }
        \cup Strings(2, {"0", "1", "2"}) \cup {<<"a", "a", "a">>}
        \cup {<<"0", "0", "1">>, <<"1", "0", "0">>, <<"0", "0", "1", "2">>, <<"a", "1">>, <<"a", "0", "1">>, <<"1", "a">>, <<"1", "2", "a">>,
              <<"x", "x", "x", "x", "x", "x", "x">>, <<"*">>, <<"x">>, <<"[">>, <<"\\">>, <<"a", "*">>, <<"{", "1", "}">>, <<"{", "*", "}">>}

MCBindings ==
    {[NoBinding EXCEPT !.trigger.default = "space", !.paste.nu = "ctrl-v"],
     [NoBinding EXCEPT !.trigger.zsh = "ctrl-v"],
     [NoBinding EXCEPT !.self_insert.bash = "ctrl-v"],
     [NoBinding EXCEPT !.paste.default = "ctrl-v"],
     [NoBinding EXCEPT !.paste.nu = "space"]}
       \cup { [NoBinding EXCEPT !.trigger.default = k, !.trigger.bash = b, !.trigger.nu = n, !.self_insert.default = s] :
                k \in {None, "tab", "shift-space"}, b \in {None, "alt-space"}, n \in {None, "shift-space"},
                s \in {None, "alt-space", "shift-space"} }
MCWritten ==
    [rules : {<<>>}, keybind : MCBindings]
        \cup { [rules |-> <<r>>, keybind |-> [NoBinding EXCEPT !.trigger.default = "space"]] : r \in MCRules }
=============================================================================
