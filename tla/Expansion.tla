------------------------------ MODULE Expansion ------------------------------
(***************************************************************************)
(* Which rule a token fires: the scan of `expand` (the key press), the one *)
(* of `which_abbr` (`runex which`), both in domain/expand.rs, and the one  *)
(* of the bash that app/bash_static_dispatcher.rs bakes for Git Bash.      *)
(* The three are written three times and must agree.                       *)
(*                                                                         *)
(* A scan asks the machine whether a command exists, one command at a      *)
(* time, while commands are being installed and removed.                   *)
(*                                                                         *)
(* One token is looked up.  A rule's key is a member of Keys, and a        *)
(* template is the class of what it renders to; matching and rendering     *)
(* character by character are left out.                                    *)
(***************************************************************************)
EXTENDS Integers, Sequences

CONSTANTS
    Cmds,       \* the commands that conditions name
    Keys,       \* the keys of the rules
    Accepts,    \* of each phase, the keys whose rules match the token
    Scans,      \* the scans: a subset of {"expand", "which", "bake"}
    Configs,    \* the configurations the user may have
    Hints,      \* the sets of commands a precache may call present
    Shells,     \* the shells it is for
    None        \* no entry in a per-shell table, or no condition

Phases == {"exact", "number", "glob", "regex"}
Rank == [exact |-> 1, number |-> 2, glob |-> 3, regex |-> 4]

\* What an `expand` renders to: its rule's key text, other text without or with
\* a space, the token, nothing but blanks, or text over MAX_RENDERED_EXPAND_BYTES.
Templates == {"key", "word", "words", "token", "blank", "long"}

\* SkipReason
Reasons == {"no_shell_entry", "self_loop", "condition_failed", "blank_expansion"}

\* PerShellString and PerShellCmds; a value for all shells is the default.
PerShell(S) == [{"bash", "pwsh", "default"} -> {None} \cup S]

Rule == [phase : Phases, key : Keys, expand : PerShell(Templates),
         when : {None} \cup PerShell(SUBSET Cmds)]

\* The validator caps an `expand` at the size an exact rule may render to.
MayBeLong(r) == r.phase # "exact"

ASSUME ExpansionAssumption ==
    /\ Accepts \in [Phases -> SUBSET Keys]
    /\ Scans \subseteq {"expand", "which", "bake"}
    /\ \A rules \in Configs : rules \in Seq(Rule)
    /\ \A rules \in Configs : \A i \in DOMAIN rules :
          (\E sh \in DOMAIN rules[i].expand : rules[i].expand[sh] = "long") => MayBeLong(rules[i])
    /\ \A present \in Hints : present \subseteq Cmds
    /\ Shells \subseteq {"bash", "pwsh", "clink"}
    /\ None \notin Templates \cup Reasons

VARIABLES
    config,     \* the rules
    shell,      \* the shell the scans work for
    installed,  \* the commands that are there now
    hint,       \* the commands that the precache each scan loaded calls present
    doing,      \* what each scan does next: "next", "ask" or "done"
    at,         \* the rule each scan is at; 0 before the first, and when none fired
    todo,       \* the commands it has still to ask about for that rule
    answer,     \* what it was told of each command, for the rest of the run
    why         \* why `which` skipped each rule

scanVars == <<doing, at, todo, answer, why>>
expansionVars == <<config, shell, installed, hint, doing, at, todo, answer, why>>

Indices == 1 .. Len(config)

TypeOK ==
    /\ config \in Seq(Rule)
    /\ shell \in Shells
    /\ installed \subseteq Cmds
    /\ hint \in [Scans -> Hints]
    /\ doing \in [Scans -> {"next", "ask", "done"}]
    /\ at \in [Scans -> {0} \cup Indices]
    /\ todo \in [Scans -> SUBSET Cmds]
    /\ answer \in [Scans -> [Cmds -> {"unasked", "yes", "no"}]]
    /\ why \in [Indices -> Reasons \cup {None}]

Init ==
    /\ config \in Configs
    /\ shell \in Shells
    /\ ("bake" \in Scans) => shell = "bash"
    /\ installed \in SUBSET Cmds
    /\ hint \in [Scans -> Hints]
    /\ doing = [s \in Scans |-> "next"]
    /\ at = [s \in Scans |-> 0]
    /\ todo = [s \in Scans |-> {}]
    /\ answer = [s \in Scans |-> [c \in Cmds |-> "unasked"]]
    /\ why = [i \in Indices |-> None]

-----------------------------------------------------------------------------
\* for_shell: the shell's own entry, or the default; Clink has only the default.
ForShell(table, sh) ==
    IF sh # "clink" /\ table[sh] # None THEN table[sh] ELSE table["default"]

Template(r) == ForShell(r.expand, shell)
Conditions(r) == IF r.when = None THEN {} ELSE ForShell(r.when, shell)

Matches(r) == r.key \in Accepts[r.phase]

\* render_with_cursor, as far as the guards that follow it tell texts apart.
Rendered(r) ==
    CASE Template(r) = "key" -> IF r.phase = "exact" THEN "token" ELSE "word"
      [] Template(r) = "token" -> IF r.phase \in {"glob", "regex"} THEN "token" ELSE "word"
      [] OTHER -> Template(r)

IsExactSelfLoop(r) == r.phase = "exact" /\ Template(r) = "key"
IsPatternSelfLoop(r) == r.phase \in {"glob", "regex"} /\ Rendered(r) = "token"

\* The order of the scan: phase by phase, in each in the order of the file.
Before(i, j) ==
    \/ Rank[config[i].phase] < Rank[config[j].phase]
    \/ Rank[config[i].phase] = Rank[config[j].phase] /\ i < j

\* The rules a scan looks at: those that match, and of those the dispatcher only
\* the ones in its three tables, which have no place for a regex.
Baked(r) ==
    /\ r.phase # "regex"
    /\ Template(r) # None
    /\ r.when # None => ForShell(r.when, shell) # None
Looked(s) == { i \in Indices : Matches(config[i]) /\ (s = "bake" => Baked(config[i])) }
Ahead(s) == { i \in Looked(s) : at[s] # 0 => Before(at[s], i) }

-----------------------------------------------------------------------------
\* The guards before a rule's commands are asked about, as each scan has them.
\* The tables of the dispatcher leave out what Baked leaves out.
ExpandPasses(r) ==
    \/ Template(r) = None \/ IsExactSelfLoop(r)
    \/ r.when # None /\ ForShell(r.when, shell) = None

WhichPasses(r) ==
    IF Template(r) = None THEN "no_shell_entry"
    ELSE IF IsExactSelfLoop(r) THEN "self_loop"
    ELSE IF r.when # None /\ ForShell(r.when, shell) = None THEN "no_shell_entry"
    ELSE None

BakePasses(r) == r.phase = "exact" /\ Template(r) = "key"

Passes(s, r) == CASE s = "expand" -> ExpandPasses(r)
                  [] s = "which" -> WhichPasses(r) # None
                  [] s = "bake" -> BakePasses(r)

\* The guards on the text, once every command is there.
ExpandRefusesNoBlank(r) == Rendered(r) = "long" \/ IsPatternSelfLoop(r)
ExpandRefuses(r) == Rendered(r) \in {"long", "blank"} \/ IsPatternSelfLoop(r)

WhichRefusesLongAsBlank(r) ==
    CASE Rendered(r) \in {"long", "blank"} -> "blank_expansion"
      [] IsPatternSelfLoop(r) -> "self_loop"
      [] OTHER -> None
WhichRefuses(r) ==
    CASE Rendered(r) = "long" -> "self_loop"
      [] Rendered(r) = "blank" -> "blank_expansion"
      [] IsPatternSelfLoop(r) -> "self_loop"
      [] OTHER -> None

BakeRefuses(r) == CASE r.phase = "exact" -> Rendered(r) = "blank"
                    [] r.phase = "number" -> Rendered(r) \in {"long", "blank"}
                    [] r.phase = "glob" -> Rendered(r) \in {"long", "blank", "token"}

Refuses(s, r) == CASE s = "expand" -> ExpandRefuses(r)
                   [] s = "which" -> WhichRefuses(r) # None
                   [] s = "bake" -> BakeRefuses(r)

-----------------------------------------------------------------------------
\* The rule is passed over, for a reason that only `which` keeps.
Skip(s, i, reason) ==
    /\ doing' = [doing EXCEPT ![s] = "next"]
    /\ why' = IF s = "which" THEN [why EXCEPT ![i] = reason] ELSE why

WorldStays == UNCHANGED <<config, shell, installed, hint>>

\* No rule is left: PassThrough, NoMatch or AllSkipped.
NoRuleLeft(s) ==
    /\ doing[s] = "next" /\ Ahead(s) = {}
    /\ doing' = [doing EXCEPT ![s] = "done"]
    /\ at' = [at EXCEPT ![s] = 0]
    /\ UNCHANGED <<todo, answer, why>> /\ WorldStays

\* The next rule is passed over at once, or its commands are asked about.
TakeRule(s) ==
    /\ doing[s] = "next"
    /\ \E i \in Ahead(s) :
          /\ \A j \in Ahead(s) \ {i} : Before(i, j)
          /\ at' = [at EXCEPT ![s] = i]
          /\ IF Passes(s, config[i])
               THEN Skip(s, i, WhichPasses(config[i])) /\ UNCHANGED todo
               ELSE /\ doing' = [doing EXCEPT ![s] = "ask"]
                    /\ todo' = [todo EXCEPT ![s] = Conditions(config[i])]
                    /\ UNCHANGED why
    /\ UNCHANGED answer /\ WorldStays

\* What a command not asked about yet is looked up in: for `expand` and `which`
\* a precache that says yes, or else the disk; for the dispatcher `type -P`.
ToldAfresh(s, c) ==
    IF (s # "bake" /\ c \in hint[s]) \/ c \in installed THEN "yes" ELSE "no"

\* command_exists and __runex_cmd_seen: one run asks about a command once.
Told(s, c) ==
    IF answer[s][c] # "unasked" THEN answer[s][c] ELSE ToldAfresh(s, c)

\* `expand` stops at the first command that is not there; the others ask for all.
AskCommand(s) ==
    /\ doing[s] = "ask"
    /\ \E c \in todo[s] :
          /\ answer' = [answer EXCEPT ![s][c] = Told(s, c)]
          /\ IF s = "expand" /\ Told(s, c) = "no"
               THEN doing' = [doing EXCEPT ![s] = "next"] /\ todo' = [todo EXCEPT ![s] = {}]
               ELSE todo' = [todo EXCEPT ![s] = @ \ {c}] /\ UNCHANGED doing
    /\ UNCHANGED <<at, why>> /\ WorldStays

\* Every command was asked about: the rule fires if all are there and its text
\* is worth it.
TryRule(s) ==
    /\ doing[s] = "ask" /\ todo[s] = {}
    /\ LET r == config[at[s]] IN
       \/ /\ \E c \in Conditions(r) : answer[s][c] = "no"
          /\ Skip(s, at[s], "condition_failed")
       \/ /\ \A c \in Conditions(r) : answer[s][c] = "yes"
          /\ IF Refuses(s, r)
               THEN Skip(s, at[s], WhichRefuses(r))
               ELSE doing' = [doing EXCEPT ![s] = "done"] /\ UNCHANGED why
    /\ UNCHANGED <<at, todo, answer>> /\ WorldStays

\* Someone installs or removes a command.
Install(c) ==
    /\ installed' = installed \cup {c}
    /\ UNCHANGED <<config, shell, hint>> /\ UNCHANGED scanVars
Uninstall(c) ==
    /\ installed' = installed \ {c}
    /\ UNCHANGED <<config, shell, hint>> /\ UNCHANGED scanVars

Scan(s) == NoRuleLeft(s) \/ TakeRule(s) \/ AskCommand(s) \/ TryRule(s)
Next == (\E s \in Scans : Scan(s)) \/ (\E c \in Cmds : Install(c) \/ Uninstall(c))

Spec == Init /\ [][Next]_expansionVars

-----------------------------------------------------------------------------
\* What a rule does for the token when its commands answer as m says, and which
\* rule that makes the first: the promise of `expand`, without any scan.
HasText(r) == Template(r) # None /\ (r.when # None => ForShell(r.when, shell) # None)
IsWorthIt(r) ==
    /\ Rendered(r) \notin {"long", "blank"}
    /\ ~IsExactSelfLoop(r) /\ ~IsPatternSelfLoop(r)
Fires(r, m) ==
    Matches(r) /\ HasText(r) /\ IsWorthIt(r) /\ \A c \in Conditions(r) : m[c] = "yes"

IsFirst(i, rules, m) ==
    IF i = 0 THEN \A j \in rules : ~Fires(config[j], m)
    ELSE /\ i \in rules /\ Fires(config[i], m)
         /\ \A j \in rules : Before(j, i) => ~Fires(config[j], m)

NoRegex == { i \in Indices : config[i].phase # "regex" }
Scanned(s) == IF s = "bake" THEN NoRegex ELSE Indices

\* However the machine changes under a scan, its outcome is that of one set of
\* answers: the first rule, phases before file order, that fires under what this
\* run was told.
FirstRuleWins ==
    \A s \in Scans : doing[s] = "done" => IsFirst(at[s], Scanned(s), answer[s])

\* Two scans that were told nothing contradictory end with the same rule: `which`
\* "always agrees with the final outcome of `expand`", and Git Bash with the
\* other shells, but for the regex rules it does not have.
Contradict(s, t) == \E c \in Cmds : {answer[s][c], answer[t][c]} = {"yes", "no"}
SameOutcome ==
    \A s, t \in Scans :
       (doing[s] = "done" /\ doing[t] = "done" /\ ~Contradict(s, t)) =>
          \/ at[s] = at[t]
          \/ "bake" \in {s, t} /\ \E u \in {s, t} : at[u] # 0 /\ config[at[u]].phase = "regex"

\* The trace of `which` names every rule that matched and was passed over, and no
\* other, each with a reason that is so.
TraceIsRight ==
    ("which" \in Scans /\ doing["which"] = "done") =>
       \A i \in Indices :
          LET r == config[i]  fired == at["which"]  told == answer["which"] IN
          /\ why[i] # None <=> Matches(r) /\ (fired = 0 \/ Before(i, fired))
          /\ why[i] = "no_shell_entry" => ~HasText(r)
          /\ why[i] = "self_loop" =>
                IsExactSelfLoop(r) \/ ((IsPatternSelfLoop(r) \/ Rendered(r) = "long")
                                         /\ \A c \in Conditions(r) : told[c] = "yes")
          /\ why[i] = "condition_failed" => HasText(r) /\ \E c \in Conditions(r) : told[c] = "no"
          /\ why[i] = "blank_expansion" =>
                Rendered(r) = "blank" /\ \A c \in Conditions(r) : told[c] = "yes"

-----------------------------------------------------------------------------
\* Why the first rule wins: a rule the scan has gone past is blocked, and stays
\* so, since what this run was told of a command never changes.
Blocked(s, i) ==
    \/ Passes(s, config[i]) \/ Refuses(s, config[i])
    \/ \E c \in Conditions(config[i]) : answer[s][c] = "no"

AtARule(s) ==
    /\ at[s] \in Looked(s) /\ ~Passes(s, config[at[s]])
    /\ \A i \in Looked(s) : Before(i, at[s]) => Blocked(s, i)

ScanIsRight(s) ==
    /\ at[s] # 0 => at[s] \in Looked(s)
    /\ doing[s] = "next" => \A i \in Looked(s) \ Ahead(s) : Blocked(s, i)
    /\ doing[s] = "ask" =>
          /\ at[s] # 0 /\ AtARule(s)
          /\ todo[s] \subseteq Conditions(config[at[s]])
          /\ \A c \in Conditions(config[at[s]]) \ todo[s] : answer[s][c] # "unasked"
    /\ doing[s] = "done" /\ at[s] = 0 => \A i \in Looked(s) : Blocked(s, i)
    /\ doing[s] = "done" /\ at[s] # 0 =>
          /\ AtARule(s) /\ ~Refuses(s, config[at[s]])
          /\ \A c \in Conditions(config[at[s]]) : answer[s][c] = "yes"

ScanInv == \A s \in Scans : ScanIsRight(s)

\* Types, and that every rule a scan (expand, which_abbr, __runex_cyg_lookup) has gone
\* past is one it had to pass over: what makes FirstRuleWins inductive.
IInv == TypeOK /\ ScanInv
=============================================================================
