----------------------------- MODULE Validation ------------------------------
(***************************************************************************)
(* Which configurations load: the walk over the rules and the key bindings *)
(* in app/config.rs, in its order, and the fewer checks that `add` makes   *)
(* of the rule it appends.                                                 *)
(*                                                                         *)
(* A rule has a key, an expand (for all shells, or one for bash beside one *)
(* for pwsh), commands, a kind of match and a unit.                        *)
(***************************************************************************)
EXTENDS Matching

CONSTANTS
    MaxKey,         \* MAX_KEY_BYTES
    MaxExpand,      \* MAX_EXPAND_BYTES
    MaxCmd,         \* MAX_CMD_BYTES
    MaxCmds,        \* MAX_CMD_LIST_LEN
    MaxUnit,        \* MAX_NUMBER_UNIT_BYTES
    MaxRules,       \* MAX_ABBR_RULES
    Nul,            \* the NUL character
    Controls,       \* the other ASCII control characters
    Deceptive,      \* what is_deceptive_unicode names
    Separators,     \* / \ and :
    Metachars       \* METACHARS of check_cmd_entry

\* ValidationReason and KeybindError
Reasons ==
    {"Empty", "WhitespaceOnly", "TooLong", "ContainsNul", "ContainsControlChar", "ContainsDeceptiveUnicode",
     "PathSeparator", "Metacharacter", "TooManyCmds", "TooManyRules",
     "GlobKeyHasUnsupportedChar", "GlobKeyHasMultipleStars", "GlobKeyWithoutWildcard",
     "RegexKeyInvalid", "RegexExpandGroupOutOfRange", "KeyHasUnknownPlaceholder",
     "KeyHasMultipleNumberPlaceholders", "KeyHasNumberWithoutUnit", "NumberFieldWithoutKeyPlaceholder",
     "CtrlVAsTrigger", "CtrlVAsSelfInsert", "PasteInterceptUnsupportedShell", "PasteInterceptInvalidKey"}

ASSUME ReasonsAssumption == None \notin Reasons

\* The largest unit, repeated as often as may be, is an expansion, and so is any expand.
ASSUME LimitsFit ==
    /\ {MaxKey, MaxExpand, MaxCmd, MaxCmds, MaxUnit, MaxRules} \subseteq Nat
    /\ MaxUnit * MaxNumeric <= MaxRendered /\ MaxExpand <= MaxRendered

OneOf(s, S) == \E i \in DOMAIN s : s[i] \in S

-----------------------------------------------------------------------------
\* What is wrong with a text, the first thing that is, or None.
Unreadable(s) ==
    CASE Has(s, Nul) -> "ContainsNul"
      [] ~Has(s, Nul) /\ OneOf(s, Controls) -> "ContainsControlChar"
      [] ~OneOf(s, Controls \cup {Nul}) /\ OneOf(s, Deceptive) -> "ContainsDeceptiveUnicode"
      [] OTHER -> None

Trouble(s, max) ==
    CASE s = <<>> -> "Empty"
      [] s # <<>> /\ IsBlank(s) -> "WhitespaceOnly"
      [] ~IsBlank(s) /\ Len(s) > max -> "TooLong"
      [] OTHER -> Unreadable(s)

\* Mutant: a key may be of any length.
CheckAbbrKeyAnyLength(key) == Trouble(key, Len(key))

CheckAbbrKey(key) == Trouble(key, MaxKey)
CheckExpandValue(expand) == Trouble(expand, MaxExpand)

\* A unit may be blank.
CheckNumberUnit(unit) ==
    CASE unit = <<>> -> "Empty"
      [] Len(unit) > MaxUnit -> "TooLong"
      [] OTHER -> Unreadable(unit)

CheckCmdEntry(cmd) ==
    CASE Trouble(cmd, MaxCmd) # None -> Trouble(cmd, MaxCmd)
      [] Trouble(cmd, MaxCmd) = None /\ OneOf(cmd, Separators) -> "PathSeparator"
      [] Trouble(cmd, MaxCmd) = None /\ ~OneOf(cmd, Separators) /\ OneOf(cmd, Metachars) -> "Metacharacter"
      [] OTHER -> None

-----------------------------------------------------------------------------
\* ValidationIssue of a rule: where and why.  A list keeps the order of the walk.
Issue(field, reason) == IF reason = None THEN <<>> ELSE <<[field |-> field, reason |-> reason]>>
When(condition, reason) == IF condition THEN reason ELSE None

\* expand_values_with_paths
ExpandValues(r) ==
    IF r.pwsh = None THEN <<[field |-> "expand", text |-> r.expand]>>
    ELSE <<[field |-> "expand.bash", text |-> r.expand], [field |-> "expand.pwsh", text |-> r.pwsh]>>

WalkExpand(r) ==
    FlattenSeq([i \in DOMAIN ExpandValues(r) |->
        Issue(ExpandValues(r)[i].field, CheckExpandValue(ExpandValues(r)[i].text))])

\* An oversize list is not walked.
WalkCmds(r) ==
    IF Len(r.when) > MaxCmds THEN Issue("when_command_exists", "TooManyCmds")
    ELSE FlattenSeq([i \in DOMAIN r.when |-> Issue("when_command_exists", CheckCmdEntry(r.when[i]))])

ForbiddenInGlob == {"[", "]", "{", "}", "(", ")", "\\", "{number}"}

\* Mutant: a backslash is an ordinary character.
WalkGlobKeyNoBackslash(r) ==
    IF r.kind # "glob" THEN <<>>
    ELSE Issue("key", When(OneOf(r.key, ForbiddenInGlob \ {"\\"}), "GlobKeyHasUnsupportedChar"))
         \o Issue("key", When(Cardinality({ i \in DOMAIN r.key : r.key[i] = "*" }) > 1, "GlobKeyHasMultipleStars"))
         \o Issue("key", When(~OneOf(r.key, {"*", "?"}), "GlobKeyWithoutWildcard"))

WalkGlobKey(r) ==
    IF r.kind # "glob" THEN <<>>
    ELSE Issue("key", When(OneOf(r.key, ForbiddenInGlob), "GlobKeyHasUnsupportedChar"))
         \o Issue("key", When(Cardinality({ i \in DOMAIN r.key : r.key[i] = "*" }) > 1, "GlobKeyHasMultipleStars"))
         \o Issue("key", When(~OneOf(r.key, {"*", "?"}), "GlobKeyWithoutWildcard"))

\* refers_to_missing_regex_group
RefersToMissing(t, groups) ==
    \E i \in 1 .. Len(t) - 2 :
        t[i] = "{" /\ t[i + 2] = "}" /\ t[i + 1] \in {"1", "2", "9"} /\ Digits[t[i + 1]] > groups

WalkRegexKey(r) ==
    CASE r.kind # "regex" -> <<>>
      [] r.kind = "regex" /\ Groups(r.key) = None -> Issue("key", "RegexKeyInvalid")
      [] r.kind = "regex" /\ Groups(r.key) # None ->
            FlattenSeq([i \in DOMAIN ExpandValues(r) |->
                Issue(ExpandValues(r)[i].field,
                      When(RefersToMissing(ExpandValues(r)[i].text, Groups(r.key)), "RegexExpandGroupOutOfRange"))])

\* walk_number_placeholder_issues; the braces of a regex are its own.
WalkNumber(r) ==
    LET numbers == IF r.kind = "regex" THEN {} ELSE { i \in DOMAIN r.key : r.key[i] = "{number}" }
    IN  Issue("key", When(r.kind # "regex" /\ Has(r.key, "{"), "KeyHasUnknownPlaceholder"))
        \o Issue("key", When(Cardinality(numbers) > 1, "KeyHasMultipleNumberPlaceholders"))
        \o Issue("key", When(numbers # {} /\ r.number = None, "KeyHasNumberWithoutUnit"))
        \o Issue("number", When(numbers = {} /\ r.number # None, "NumberFieldWithoutKeyPlaceholder"))
        \o (IF r.number = None THEN <<>> ELSE Issue("number", CheckNumberUnit(r.number)))

RuleIssues(r) ==
    Issue("key", CheckAbbrKey(r.key)) \o WalkExpand(r) \o WalkCmds(r)
        \o WalkGlobKey(r) \o WalkRegexKey(r) \o WalkNumber(r)

\* collect_validation_issues
Issues(rules) ==
    IF Len(rules) > MaxRules THEN Issue("abbr", "TooManyRules")
    ELSE FlattenSeq([i \in DOMAIN rules |-> RuleIssues(rules[i])])

-----------------------------------------------------------------------------
\* The tables of [keybind]: for each label a key or None.
Labels == <<"default", "bash", "zsh", "pwsh", "nu">>

\* first_keybind_error
KeybindError(kb) ==
    CASE \E l \in DOMAIN kb.trigger : kb.trigger[l] = "ctrl-v" -> "CtrlVAsTrigger"
      [] \E l \in DOMAIN kb.self_insert : kb.self_insert[l] = "ctrl-v" -> "CtrlVAsSelfInsert"
      [] \E l \in DOMAIN kb.paste : l # "nu" /\ kb.paste[l] # None -> "PasteInterceptUnsupportedShell"
      [] kb.paste.nu \notin {None, "ctrl-v"} -> "PasteInterceptInvalidKey"
      [] OTHER -> None

\* first_validation_error: the first issue of the walk, which goes by the same name
FirstIssue(rules) == IF Issues(rules) = <<>> THEN None ELSE Issues(rules)[1].reason

\* parse_config after parse_config_lenient
Loads(rules, kb) == KeybindError(kb) = None /\ FirstIssue(rules) = None

\* Mutant: the commands of the new rule are not looked at.
AddAcceptsAnyCommand(r, rules, kb) ==
    /\ CheckAbbrKey(r.key) = None
    /\ CheckExpandValue(r.expand) = None
    /\ Loads(rules, kb)
    /\ Len(rules) + 1 <= MaxRules

\* append_abbr_to_file: what is checked of the new rule, and of the file
AddAccepts(r, rules, kb) ==
    /\ CheckAbbrKey(r.key) = None
    /\ CheckExpandValue(r.expand) = None
    /\ Len(r.when) <= MaxCmds
    /\ \A i \in DOMAIN r.when : CheckCmdEntry(r.when[i]) = None
    /\ Loads(rules, kb)
    /\ Len(rules) + 1 <= MaxRules
=============================================================================
