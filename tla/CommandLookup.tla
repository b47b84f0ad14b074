--------------------------- MODULE CommandLookup -----------------------------
(***************************************************************************)
(* Does a command exist?  make_command_exists in util/path.rs, for the     *)
(* processes that AppContext in main.rs assembles, and the hint before it: *)
(* app/precache.rs and cmd/precache.rs.                                    *)
(*                                                                         *)
(* The session of a shell has a PATH and, in RUNEX_CMD_CACHE_V1, the hint  *)
(* that a script of the user made; a shell started in it inherits both.    *)
(* Meanwhile programs come and go and the configuration is edited.  Every  *)
(* question is one process.                                                *)
(***************************************************************************)
EXTENDS SearchPath

CONSTANTS
    Commands,           \* what rules ask for
    Movable,            \* those of them that are installed and removed
    Places,             \* where to
    Builtins,           \* what each shell knows that is no program: aliases, functions
    Paths,              \* the values of PATH, each by a name
    Registry,           \* the user and the system Path of Windows, each pair by a name
    Configs,            \* [asks, path_only]: the commands of the rules, and [precache]
    Prepends,           \* what --path-prepend may name, or None
    MaxCacheCommands,   \* MAX_CACHE_COMMANDS
    Garbled,            \* a cache that does not parse
    LastSecond          \* bound of the model

ASSUME LookupAssumption ==
    /\ Movable \subseteq Commands
    /\ Paths \in [DOMAIN Paths -> Seq(Entry)]
    /\ \A p, q \in DOMAIN Paths : Paths[p] = Paths[q] => p = q
    /\ Registry \in [DOMAIN Registry -> [user : Seq(Entry), system : Seq(Entry)]]
    /\ None \notin DOMAIN Registry
    /\ \A g \in Configs : g.asks \subseteq Commands /\ g.path_only \in BOOLEAN
    /\ \A sh \in DOMAIN Builtins : Builtins[sh] \subseteq Commands

Shells == DOMAIN Builtins

VARIABLES
    disk,       \* the programs of each place
    registry,   \* the Path values, or None where there is no registry
    path,       \* PATH in the session
    shell,      \* its shell
    config,     \* the configuration
    mtime,      \* the second of its last edit
    now,
    hint,       \* RUNEX_CMD_CACHE_V1: None, Garbled or what precache wrote
    script,     \* what the script that calls precache has so far, or None
    last,       \* the last question and its answer, or None
    hasty       \* an edit came within the second of another, or while the script ran

world == <<disk, registry, path, shell>>
file == <<config, mtime, hasty>>
vars == <<world, file, now, hint, script, last>>

Init ==
    /\ disk \in [Places -> SUBSET Movable]
    /\ registry \in {None} \cup DOMAIN Registry
    /\ path \in DOMAIN Paths
    /\ shell \in Shells
    /\ config \in Configs
    /\ mtime = 0
    /\ now = 0
    /\ hint = None
    /\ script = None
    /\ last = None
    /\ hasty = FALSE

-----------------------------------------------------------------------------
\* What effective_search_path makes of each PATH beside each registry.
Merges ==
    [p \in DOMAIN Paths |->
        [r \in DOMAIN Registry |-> EffectiveSearchPath(Paths[p], Registry[r].user, Registry[r].system)]]
Merged == Merges[path][registry]

\* Where which::which looks; None when effective_search_path panics.
SearchDirs ==
    CASE registry = None -> Dirs(Paths[path])
      [] registry # None /\ Merged = None -> None
      [] registry # None /\ Merged # None -> Dirs(Merged.combined)

In(c, dirs) == \E p \in dirs \cap Places : c \in disk[p]
IsThere(prepend, c) == In(c, (IF SearchDirs = None THEN {} ELSE SearchDirs) \cup {prepend})

\* What the user's script, asking its shell, finds.
ShellKnows(c) == c \in Builtins[shell] \/ In(c, Dirs(Paths[path]))

\* Mutant: the hint of one shell is taken for that of another.
FingerprintOfAnyShell == [path |-> path, mtime |-> mtime, shell |-> "any"]

\* compute_precache_fingerprint
Fingerprint == [path |-> path, mtime |-> mtime, shell |-> shell]

\* load_cache
Loaded ==
    IF /\ hint \notin {None, Garbled}
       /\ hint.fingerprint = Fingerprint
       /\ Cardinality(DOMAIN hint.commands) <= MaxCacheCommands
      THEN hint.commands ELSE <<>>

\* Mutant: the hint is trusted when it says no.
HintedEither(hinted, prepend, c) ==
    IF c \in DOMAIN hinted THEN hinted[c] ELSE IsThere(prepend, c)

\* make_command_exists: the hint counts only when it says yes.
Exists(hinted, prepend, c) == (c \in DOMAIN hinted /\ hinted[c]) \/ IsThere(prepend, c)

\* Every process on Windows computes the search path first.  hook, which, expand and
\* timings consult the hint, doctor and precache do not.
Ask(by, prepend, c) ==
    /\ last = None
    /\ last' = [by |-> by, prepend |-> prepend, command |-> c,
                answer |-> CASE SearchDirs = None -> "panic"
                             [] SearchDirs # None /\ Exists(IF by = "hook" THEN Loaded ELSE <<>>, prepend, c) -> "yes"
                             [] OTHER -> "no"]
    /\ UNCHANGED <<world, file, now, hint, script>>

-----------------------------------------------------------------------------
\* What a shell makes of the statement that export_statement wrote.  For cmd.exe it is
\* JSON with a backslash before every quote, and cmd.exe keeps the backslashes.
\* The last two fields are not in the cache: they remember what was true then.
Exported(sh, found) ==
    IF sh = "clink" THEN Garbled
    ELSE [fingerprint |-> Fingerprint, commands |-> found, of |-> sh,
          on_path |-> { c \in DOMAIN found : IsThere(None, c) },
          known |-> { c \in DOMAIN found : IsThere(None, c) \/ ShellKnows(c) }
                        \cup (IF script.found = None THEN {} ELSE script.found)]

\* Mutant: path_only is not looked at.
ListCommandsAlways ==
    /\ script = None
    /\ script' = [listed |-> config.asks, found |-> None]
    /\ last' = None
    /\ UNCHANGED <<world, file, now, hint>>

\* precache --list-commands
ListCommands ==
    /\ script = None
    /\ script' = [listed |-> IF config.path_only THEN {} ELSE config.asks, found |-> None]
    /\ last' = None
    /\ UNCHANGED <<world, file, now, hint>>

ScriptResolves ==
    /\ script # None
    /\ script.found = None
    /\ script.listed # {}
    /\ script' = [script EXCEPT !.found = { c \in script.listed : ShellKnows(c) }]
    /\ last' = None
    /\ UNCHANGED <<world, file, now, hint>>

\* precache --resolved: a command the script did not resolve is a no.
PrecacheResolved ==
    /\ script # None
    /\ script.found # None
    /\ hint' = Exported(shell, [c \in config.asks |-> c \in script.found])
    /\ script' = None
    /\ last' = None
    /\ UNCHANGED <<world, file, now>>

\* precache, which the script falls back to when no command is listed
PrecacheLive ==
    /\ script # None
    /\ script.listed = {}
    /\ SearchDirs # None
    /\ hint' = Exported(shell, [c \in config.asks |-> IsThere(None, c)])
    /\ script' = None
    /\ last' = None
    /\ UNCHANGED <<world, file, now>>

-----------------------------------------------------------------------------
Install(p, c) ==
    /\ c \notin disk[p]
    /\ disk' = [disk EXCEPT ![p] = @ \cup {c}]
    /\ last' = None
    /\ UNCHANGED <<registry, path, shell, file, now, hint, script>>

Uninstall(p, c) ==
    /\ c \in disk[p]
    /\ disk' = [disk EXCEPT ![p] = @ \ {c}]
    /\ last' = None
    /\ UNCHANGED <<registry, path, shell, file, now, hint, script>>

SetPath(p) ==
    /\ p # path
    /\ script = None
    /\ path' = p
    /\ last' = None
    /\ UNCHANGED <<disk, registry, shell, file, now, hint, script>>

\* A shell in the session: it inherits PATH and the hint.
EnterShell(sh) ==
    /\ sh # shell
    /\ script = None
    /\ shell' = sh
    /\ last' = None
    /\ UNCHANGED <<disk, registry, path, file, now, hint, script>>

EditConfig(g) ==
    /\ g # config
    /\ config' = g
    /\ mtime' = now
    /\ hasty' = (hasty \/ mtime = now \/ script # None)
    /\ last' = None
    /\ UNCHANGED <<world, now, hint, script>>

Tick ==
    /\ now < LastSecond
    /\ now' = now + 1
    /\ last' = None
    /\ UNCHANGED <<world, file, hint, script>>

Next ==
    \/ \E by \in {"hook", "doctor"}, prepend \in Prepends, c \in Movable : Ask(by, prepend, c)
    \/ ListCommands
    \/ ScriptResolves
    \/ PrecacheResolved
    \/ PrecacheLive
    \/ \E p \in Places, c \in Movable : Install(p, c) \/ Uninstall(p, c)
    \/ \E p \in DOMAIN Paths : SetPath(p)
    \/ \E sh \in Shells : EnterShell(sh)
    \/ \E g \in Configs : EditConfig(g)
    \/ Tick

Spec == Init /\ [][Next]_vars

-----------------------------------------------------------------------------
Answered(a) == last # None /\ last.answer = a

\* A command that is there is never denied, however old the hint: a rule does not stay off
\* after its command was installed.
NoIsLive == Answered("no") => ~IsThere(last.prepend, last.command)

\* A yes is true now, or was when this kind of shell made the hint with this PATH: a hint
\* that a shell inherits from another, or that was made for another PATH, says nothing.
\* doctor looks for itself.
YesWasSo ==
    Answered("yes") =>
        \/ IsThere(last.prepend, last.command)
        \/ /\ last.by = "hook"
           /\ hint.of = shell
           /\ hint.fingerprint.path = path
           /\ last.command \in hint.known

\* With path_only a yes means a program, now or when the hint was made, and not an alias of
\* the shell: unless the configuration changed twice in a second or under the script.
PathOnlyIsRespected ==
    Answered("yes") /\ config.path_only /\ ~hasty =>
        IsThere(last.prepend, last.command) \/ last.command \in hint.on_path

\* Windows, as doctor shows it: the merged path has every directory of PATH and, within the caps, of both
\* hives; none twice, PATH first; and the three counts that doctor shows add up to it.
PathIsMerged ==
    registry # None /\ last # None /\ last.by = "doctor" /\ last.answer # "panic" =>
        LET e == Merged
            n == e.from_process
            within(value) == Size(value) <= MaxPathBytes /\ Len(value) <= MaxPathEntries
        IN  /\ Cardinality({ [x EXCEPT !.capitals = FALSE, !.bytes = 0, !.last = 0] :
                                x \in { e.combined[i] : i \in DOMAIN e.combined } }) = Len(e.combined)
            /\ Dirs(SubSeq(e.combined, 1, n)) = Dirs(Paths[path]) \ {NoText}
            /\ \A v \in {Registry[registry].user, Registry[registry].system} :
                  within(v) => Dirs([i \in DOMAIN v |-> Expanded(v[i])]) \ {NoText} \subseteq SearchDirs
            /\ e.from_process + e.from_user + e.from_system = Len(e.combined)
=============================================================================
