------------------------------- MODULE Doctor --------------------------------
(***************************************************************************)
(* `runex doctor` (cmd/doctor.rs, app/doctor.rs), what it reads of the     *)
(* shell integration (infra/integration_check.rs), and the two installers  *)
(* that its advice names: `runex init <shell>` and `runex init clink`      *)
(* (cmd/init.rs).                                                          *)
(*                                                                         *)
(* One user runs doctor and does what its rows say, one after the other,   *)
(* until a report has no advice left, and then looks again.  Meanwhile the *)
(* configuration is edited, runex is upgraded, or a process is killed.     *)
(* That refreshes and inits race is the business of Integration.           *)
(***************************************************************************)
EXTENDS Naturals, Sequences, FiniteSetsExt

CONSTANTS
    Order,          \* the shells that have an rc file and a cache, as doctor visits them
    Picky,          \* those that cannot bind Shift+Space, "clink" perhaps among them
    Places,         \* where a clink file may be, as they are tried
    Bins,           \* where runex may be installed
    Configs,        \* what the user writes
    StrictKnows,    \* the fields that --strict knows
    First,          \* the integrations there may be at first: [rc, cache, lua, set]
    MaxChanges,     \* bound of the model
    Link,           \* what is there is a symbolic link
    Part,           \* a clink file not written to its end
    None

Shells == { Order[i] : i \in DOMAIN Order }

\* A configuration: whether it is TOML of this version, the rules that validation refuses,
\* whether the key bindings are allowed, the default trigger, and fields it has.
ConfigType == [parses : BOOLEAN, rejected : SUBSET {"1", "2", "3"}, bound : BOOLEAN,
               trigger : {"space", "tab", "shift-space"}, fields : SUBSET STRING]

\* default_config_content
Seed == [parses |-> TRUE, rejected |-> {}, bound |-> TRUE, trigger |-> "space", fields |-> {}]

\* An rc file: "big" is beyond what init reads, "huge" beyond what doctor reads, and a
\* link neither opens.  Of its lines those that doctor looks for: the marker, the source
\* line, an old line that runs `runex export`, such a line in a comment, and another that
\* has the same words (`export bash_theme=...`).
Kinds == {"plain", "big", "huge", "link"}
Lines == {"marker", "source", "legacy", "commented", "lookalike"}
RcFile == [kind : Kinds, lines : SUBSET Lines]

\* The header of a cache; a cache that is a link is not read.
Versions == {"none", "old", "current"}
Cache == [version : Versions, exe : Bins \cup {"runex"}]

\* What runex.lua is made from.
Lua(exe, c) == [exe |-> exe, trigger |-> IF c = None THEN None ELSE c.trigger]
LuaType == [exe : Bins, trigger : {"space", "tab", "shift-space", None}]

ASSUME DoctorAssumption ==
    /\ Places \in Seq(STRING)
    /\ Configs \subseteq ConfigType
    /\ \A f \in First :
          f \in [rc : [Shells -> RcFile \cup {None}], cache : [Shells -> Cache \cup {None, Link}],
                 lua : [{ Places[i] : i \in DOMAIN Places } -> LuaType \cup {None, Link}],
                 set : SUBSET { Places[i] : i \in DOMAIN Places }]
    /\ Part \notin LuaType \cup {None, Link}
    /\ LuaType \cap {None, Link} = {}
    /\ MaxChanges \in Nat

VARIABLES
    config,     \* the configuration, or None
    rc,         \* the rc file of each shell, or None
    cache,      \* the cache of each shell, None or Link
    lua,        \* the file at each place, None or Link
    set,        \* the places whose environment variable is set
    tmp,        \* the temporary file of a clink install, or None
    exe,        \* the runex that runs
    bins,       \* those that are installed
    pc,         \* what the process does next
    at,         \* the shell it is at
    got,        \* the configuration it loaded
    made,       \* the clink file it would write
    marked,     \* init: whether it saw the marker
    rows,       \* what doctor has reported and the user has not yet done
    calm,       \* nothing was changed since the process began
    changes     \* how much was

disk == <<config, rc, cache, lua, set, tmp, exe, bins>>
vars == <<disk, pc, at, got, made, marked, rows, calm, changes>>

Init ==
    /\ config \in Configs \cup {None}
    /\ \E f \in First : rc = f.rc /\ cache = f.cache /\ lua = f.lua /\ set = f.set
    /\ tmp = None
    /\ exe \in Bins /\ bins = {exe}
    /\ pc = "idle" /\ at = 1 /\ got = None /\ made = None /\ marked = FALSE
    /\ rows = {} /\ calm = TRUE /\ changes = 0

-----------------------------------------------------------------------------
Loads(c) == c # None /\ c.parses /\ c.rejected = {} /\ c.bound
Loaded == IF Loads(config) THEN config ELSE None
Panics(c, sh) == c # None /\ c.trigger = "shift-space" /\ sh \in Picky

\* Mutant: a comment counts as an old line.
MarkerSaysInComments(sh) ==
    CASE rc[sh] = None -> "skipped"
      [] rc[sh] # None /\ (rc[sh].kind \in {"huge", "link"} \/ "marker" \notin rc[sh].lines) -> "missing"
      [] rc[sh] # None /\ rc[sh].kind \in {"plain", "big"} /\ "marker" \in rc[sh].lines ->
            IF rc[sh].lines \cap {"legacy", "commented", "lookalike"} = {} THEN "ok"
            ELSE IF "source" \in rc[sh].lines THEN "delete" ELSE "replace"

\* check_rcfile_marker and classify_rcfile_content
MarkerSays(sh) ==
    CASE rc[sh] = None -> "skipped"
      [] rc[sh] # None /\ (rc[sh].kind \in {"huge", "link"} \/ "marker" \notin rc[sh].lines) -> "missing"
      [] rc[sh] # None /\ rc[sh].kind \in {"plain", "big"} /\ "marker" \in rc[sh].lines ->
            IF rc[sh].lines \cap {"legacy", "lookalike"} = {} THEN "ok"
            ELSE IF "source" \in rc[sh].lines THEN "delete" ELSE "replace"

\* check_cache_freshness: a bare `runex` is not looked for.
CacheSays(sh) ==
    CASE cache[sh] = None -> "skipped"
      [] cache[sh] = Link -> "missing"
      [] cache[sh] \notin {None, Link} ->
            IF cache[sh].version # "current" \/ cache[sh].exe \notin bins \cup {"runex"} THEN "outdated" ELSE "ok"

\* default_clink_lua_paths_with
Candidates == { i \in DOMAIN Places : Places[i] \in set }
Readable(p) == lua[p] \notin {None, Link}

\* check_clink_lua_freshness: the first that can be read decides.
ClinkSays(fresh) ==
    LET read == { i \in Candidates : Readable(Places[i]) }
    IN  IF read = {} THEN "skipped" ELSE IF lua[Places[Min(read)]] = fresh THEN "ok" ELSE "outdated"

\* Mutant: the install goes where the last candidate is.
InstallPlaceLast == Places[Max(Candidates)]

\* clink_lua_install_path_with_resolver, where there is a candidate
InstallPlace == Places[Min(Candidates)]

-----------------------------------------------------------------------------
Goto(step) == pc' = step
Leave(where) == pc' = where /\ at' = 1 /\ got' = None /\ made' = None /\ marked' = FALSE
End == Leave("prompt")
Row(kind, of, says) == [row |-> kind, of |-> of, says |-> says]

StartDoctor ==
    /\ pc = "idle"
    /\ got' = Loaded
    /\ calm' = TRUE
    /\ Goto("env")
    /\ UNCHANGED <<disk, at, made, marked, rows, changes>>

\* build_doctor_env_info renders what clink should have, and may panic.
BuildEnvInfo ==
    /\ pc = "env"
    /\ IF Panics(got, "clink") THEN End
       ELSE Goto("config") /\ made' = Lua(exe, got) /\ UNCHANGED <<at, got, marked>>
    /\ UNCHANGED <<disk, rows, calm, changes>>

\* check_config_file asks the disk once more, check_config_parse does not.
CheckConfig ==
    /\ pc = "config"
    /\ rows' = {Row("config_file", "", IF config = None THEN "error" ELSE "ok"),
                Row("config_parse", "", IF got = None THEN "error" ELSE "ok")}
    /\ Goto("markers")
    /\ UNCHANGED <<disk, at, got, made, marked, calm, changes>>

\* integration_marker_checks and integration_cache_checks, shell by shell
CheckShell(step, kind, says, next) ==
    /\ pc = step
    /\ rows' = rows \cup {Row(kind, Order[at], says)}
    /\ IF at < Len(Order) THEN at' = at + 1 /\ UNCHANGED pc ELSE at' = 1 /\ Goto(next)
    /\ UNCHANGED <<disk, got, made, marked, calm, changes>>

CheckMarker == CheckShell("markers", "integration", MarkerSays(Order[at]), "caches")
CheckCache == CheckShell("caches", "cache", CacheSays(Order[at]), "clink")

CheckClink ==
    /\ pc = "clink"
    /\ rows' = rows \cup {Row("integration", "clink", ClinkSays(made))}
    /\ Goto("source")
    /\ UNCHANGED <<disk, at, got, made, marked, calm, changes>>

\* check_rejected_rules, and with --strict check_unknown_fields
RejectedRows == IF config = None \/ ~config.parses THEN {} ELSE { Row("rejected", r, "warn") : r \in config.rejected }
Unknown(c) == c.fields \ StrictKnows
StrictRows == IF config = None \/ ~config.parses THEN {} ELSE { Row("unknown_field", f, "warn") : f \in Unknown(config) }

\* Mutant: the rules are taken from the configuration that loaded.
ReadSourceOfLoaded ==
    /\ pc = "source"
    /\ \E strict \in BOOLEAN :
          rows' = rows \cup (IF got = None THEN {} ELSE RejectedRows) \cup (IF strict THEN StrictRows ELSE {})
    /\ Leave("report")
    /\ UNCHANGED <<disk, calm, changes>>

\* The file is read once more; it may be another one.
ReadSource ==
    /\ pc = "source"
    /\ \E strict \in BOOLEAN : rows' = rows \cup RejectedRows \cup (IF strict THEN StrictRows ELSE {})
    /\ Leave("report")
    /\ UNCHANGED <<disk, calm, changes>>

-----------------------------------------------------------------------------
\* runex init <shell>
StartInit(sh) ==
    /\ \E i \in DOMAIN Order : Order[i] = sh /\ at' = i
    /\ calm' = TRUE
    /\ Goto("seed")
    /\ UNCHANGED <<got, made, marked>>

SeedConfig ==
    /\ pc = "seed"
    /\ config' = IF config = None THEN Seed ELSE config
    /\ marked' = (rc[Order[at]] # None /\ rc[Order[at]].kind = "plain" /\ "marker" \in rc[Order[at]].lines)
    /\ Goto("write")
    /\ UNCHANGED <<rc, cache, lua, set, tmp, exe, bins, at, got, made, rows, calm, changes>>

\* Its steps are those of Integration.
WriteCache ==
    /\ pc = "write"
    /\ IF Panics(Loaded, Order[at]) \/ cache[Order[at]] = Link THEN End /\ UNCHANGED cache
       ELSE /\ cache' = [cache EXCEPT ![Order[at]] = [version |-> "current", exe |-> exe]]
            /\ Goto("append")
            /\ UNCHANGED <<at, got, made, marked>>
    /\ UNCHANGED <<config, rc, lua, set, tmp, exe, bins, rows, calm, changes>>

\* The file is opened without following a link.
AppendBlock ==
    /\ pc = "append"
    /\ rc' = CASE marked -> rc
               [] ~marked /\ rc[Order[at]] = None ->
                     [rc EXCEPT ![Order[at]] = [kind |-> "plain", lines |-> {"marker", "source"}]]
               [] ~marked /\ rc[Order[at]] # None ->
                     IF rc[Order[at]].kind = "link" THEN rc
                     ELSE [rc EXCEPT ![Order[at]].lines = @ \cup {"marker", "source"}]
    /\ End
    /\ UNCHANGED <<config, cache, lua, set, tmp, exe, bins, rows, calm, changes>>

-----------------------------------------------------------------------------
\* runex init clink
StartInitClink ==
    /\ calm' = TRUE
    /\ Goto("render")
    /\ UNCHANGED <<at, got, made, marked>>

RenderLua ==
    /\ pc = "render"
    /\ IF Panics(Loaded, "clink") THEN End
       ELSE Goto("probe") /\ made' = Lua(exe, Loaded) /\ UNCHANGED <<at, got, marked>>
    /\ UNCHANGED <<disk, rows, calm, changes>>

\* Up to date, or the user agrees to the prompt; a link is not written through, and with
\* no candidate the path is a bare file name, which is refused.
Probe ==
    /\ pc = "probe"
    /\ IF ClinkSays(made) = "ok" THEN Goto("installed")
       ELSE IF Candidates = {} \/ lua[InstallPlace] = Link THEN Goto("prompt") ELSE Goto("create")
    /\ UNCHANGED <<disk, at, got, made, marked, rows, calm, changes>>

\* Mutant: the file is written where it is.
CreateLuaInPlace ==
    /\ pc = "create"
    /\ lua' = [lua EXCEPT ![InstallPlace] = Part]
    /\ tmp' = Part
    /\ Goto("fill")
    /\ UNCHANGED <<config, rc, cache, set, exe, bins, at, got, made, marked, rows, calm, changes>>

\* write_clink_lua_safely
CreateLua ==
    /\ pc = "create"
    /\ tmp' = Part
    /\ Goto("fill")
    /\ UNCHANGED <<config, rc, cache, lua, set, exe, bins, at, got, made, marked, rows, calm, changes>>

FillLua ==
    /\ pc = "fill"
    /\ tmp' = made
    /\ Goto("rename")
    /\ UNCHANGED <<config, rc, cache, lua, set, exe, bins, at, got, made, marked, rows, calm, changes>>

RenameLua ==
    /\ pc = "rename"
    /\ lua' = [lua EXCEPT ![InstallPlace] = tmp]
    /\ tmp' = None
    /\ Goto("installed")
    /\ UNCHANGED <<config, rc, cache, set, exe, bins, at, got, made, marked, rows, calm, changes>>

Installed ==
    /\ pc = "installed"
    /\ End
    /\ UNCHANGED <<disk, rows, calm, changes>>

-----------------------------------------------------------------------------
\* The user does what a row says.
AtPrompt == pc \in {"report", "prompt"}
Advice == { r \in rows : r.row \in {"integration", "cache", "config_file", "config_parse"} /\ r.says \notin {"ok", "skipped"} }

DeleteLegacy(sh) == rc' = [rc EXCEPT ![sh].lines = @ \ {"legacy"}]

Heed(r) ==
    /\ AtPrompt
    /\ r \in Advice
    /\ rows' = rows \ {r}
    /\ \/ r.row = "integration" /\ r.of = "clink" /\ StartInitClink /\ UNCHANGED disk
       \/ r.row = "integration" /\ r.says = "missing" /\ StartInit(r.of) /\ UNCHANGED disk
       \/ /\ r.row = "integration" /\ r.says = "replace"
          /\ StartInit(r.of) /\ DeleteLegacy(r.of)
          /\ UNCHANGED <<config, cache, lua, set, tmp, exe, bins>>
       \/ /\ r.row = "integration" /\ r.says = "delete"
          /\ DeleteLegacy(r.of) /\ calm' = FALSE
          /\ UNCHANGED <<config, cache, lua, set, tmp, exe, bins, pc, at, got, made, marked>>
       \/ r.row = "cache" /\ StartInit(r.of) /\ UNCHANGED disk
       \/ /\ r.row \in {"config_file", "config_parse"}
          /\ \E c \in Configs : Loads(c) /\ c.trigger # "shift-space" /\ config' = c
          /\ calm' = FALSE
          /\ UNCHANGED <<rc, cache, lua, set, tmp, exe, bins, pc, at, got, made, marked>>
    /\ UNCHANGED changes

LookAgain ==
    /\ AtPrompt
    /\ Advice = {}
    /\ Goto("idle")
    /\ rows' = {}
    /\ UNCHANGED <<disk, at, got, made, marked, calm, changes>>

-----------------------------------------------------------------------------
\* What else happens, a bounded number of times.
Change == changes < MaxChanges /\ changes' = changes + 1 /\ calm' = FALSE

EditConfig(c) ==
    /\ Change
    /\ c # config
    /\ config' = c
    /\ UNCHANGED <<rc, cache, lua, set, tmp, exe, bins, pc, at, got, made, marked, rows>>

\* A new runex, beside the old one or in its stead.  A process that runs keeps its own.
Upgrade(b) ==
    /\ Change
    /\ pc = "idle" \/ AtPrompt
    /\ b # exe
    /\ exe' = b
    /\ bins' \in {{b}, bins \cup {b}}
    /\ UNCHANGED <<config, rc, cache, lua, set, tmp, pc, at, got, made, marked, rows>>

\* A kill; one in the append may leave the marker alone.
Kill ==
    /\ Change
    /\ ~(pc = "idle" \/ AtPrompt)
    /\ \/ UNCHANGED rc
       \/ /\ pc = "append" /\ ~marked /\ rc[Order[at]] # None
          /\ rc[Order[at]].kind # "link"
          /\ rc' = [rc EXCEPT ![Order[at]].lines = @ \cup {"marker"}]
    /\ End
    /\ rows' = {}
    /\ UNCHANGED <<config, cache, lua, set, tmp, exe, bins>>

Doctor == StartDoctor \/ BuildEnvInfo \/ CheckConfig \/ CheckMarker \/ CheckCache \/ CheckClink \/ ReadSource
InitShell == SeedConfig \/ WriteCache \/ AppendBlock
InitClink == RenderLua \/ Probe \/ CreateLua \/ FillLua \/ RenameLua \/ Installed
Run == Doctor \/ InitShell \/ InitClink \/ LookAgain \/ \E r \in rows : Heed(r)

Next ==
    \/ Run
    \/ \E c \in Configs : EditConfig(c)
    \/ \E b \in Bins : Upgrade(b)
    \/ Kill

Spec == Init /\ [][Next]_vars

\* The user keeps at it, and a process that was started goes on.
FairSpec == Spec /\ WF_vars(Run)

-----------------------------------------------------------------------------
\* "`doctor` always also lists every rejected rule": when the file was left alone during
\* the run, the report names each rule that validation refuses, of a file that does not load
\* too, and none of a file that loads.
RejectionsAreNamed ==
    pc = "report" /\ calm /\ config # None /\ Row("config_file", "", "ok") \in rows =>
        { r.of : r \in { x \in rows : x.row = "rejected" } } = (IF config.parses THEN config.rejected ELSE {})

\* An `init clink` that ends well, while nothing else changes, leaves what doctor calls up
\* to date, whichever of the places have an old file: it writes where doctor looks first.
ClinkInitIsSeen == pc = "installed" /\ calm => ClinkSays(Lua(exe, Loaded)) = "ok"

\* cmd.exe never loads half a file, wherever an install was killed.
LuaIsWhole == \A i \in DOMAIN Places : lua[Places[i]] # Part

\* Doing what doctor says comes to an end: once nothing else changes there is no advice left,
\* through upgrades, edits and kills in the midst of it.  Not so for an rc file, a cache or a
\* clink file that is a link or beyond the cap, for a line with the words of the old one, and
\* for the trigger shift-space.
Quiet ==
    /\ Loads(config)
    /\ \A sh \in Shells : MarkerSays(sh) \in {"ok", "skipped"} /\ CacheSays(sh) \in {"ok", "skipped"}
    /\ ClinkSays(Lua(exe, Loaded)) \in {"ok", "skipped"}

Heedable ==
    /\ \A sh \in Shells : /\ cache[sh] # Link
                          /\ rc[sh] # None => rc[sh].kind \in {"plain", "big"} /\ "lookalike" \notin rc[sh].lines
    /\ Candidates # {} => lua[InstallPlace] # Link

AdviceSettles == Heedable /\ <>[](config = None \/ config.trigger # "shift-space") => <>[]Quiet
=============================================================================
