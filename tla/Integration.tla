----------------------------- MODULE Integration ------------------------------
(***************************************************************************)
(* The shell integration: the cache that each shell sources, baked from    *)
(* the configuration, and the rc file that names it.  `runex init` writes  *)
(* a shell's cache and adds a block to its rc file; `add`, `remove` and    *)
(* `config reload` rewrite the caches that are there (cmd/init.rs,         *)
(* cmd/add_remove.rs, cmd/config.rs, infra/integration_cache.rs).          *)
(*                                                                         *)
(* One step per call that another process, the user or a crash can come    *)
(* between.  How `add`, `remove` and `init` write the configuration is     *)
(* ConfigStore; here each of them changes it in one step.                  *)
(***************************************************************************)
EXTENDS Naturals, Sequences

CONSTANTS
    Order,      \* the shells that have a cache, in the order they are refreshed
    Picky,      \* the shells that cannot bind Shift+Space
    Procs,      \* the runex processes
    MaxEdits,   \* how often the configuration changes (a bound of the model)
    Discipline, \* "serial": one command at a time, no edits meanwhile; or "any"
    None,       \* no file, no configuration
    Part        \* a file that is not written to its end

Shells == { Order[i] : i \in DOMAIN Order }

\* A configuration: which edit of it this is, whether it loads, and whether its
\* trigger for all shells is shift-space.
Config == [edit : 0 .. MaxEdits, loads : BOOLEAN, shift : BOOLEAN]

\* What a cache is baked from: a configuration, or None, which has no rules.
Bodies == Config \cup {None, Part}

\* A cache or its temporary file, and the process that has it open.
File == [by : Procs \cup {None}, body : Bodies]

\* An rc file: whether it has the line `# runex-init`, whether a line runs
\* `runex export`, how many blocks source the cache, and whether read_rc_content
\* reads it (UTF-8, a regular file, up to 1 MB).
MaxBlocks == 2
RcFile == [marker : BOOLEAN, legacy : BOOLEAN, blocks : 0 .. MaxBlocks, readable : BOOLEAN]

ASSUME IntegrationAssumption ==
    /\ Order \in Seq(Shells)
    /\ \A i, j \in DOMAIN Order : Order[i] = Order[j] => i = j
    /\ Picky \subseteq Shells
    /\ MaxEdits \in Nat
    /\ Discipline \in {"any", "serial"}
    /\ None \notin Config \cup Procs \cup File /\ Part \notin Config \cup {None}

VARIABLES
    config,     \* the configuration file, or None
    rc,         \* the rc file of each shell
    cache,      \* the cache of each shell, or None
    tmp,        \* its temporary file, or None
    cmd,        \* the command each process runs
    pc,         \* what it does next
    at,         \* the place in Order of the shell it is at
    got,        \* the configuration it loaded
    marked,     \* `init`: whether it saw the marker
    report,     \* what it will say of each shell
    exit        \* the status it ends with

files == <<config, rc, cache, tmp>>
integrationVars == <<config, rc, cache, tmp, cmd, pc, at, got, marked, report, exit>>

Commands == {"none", "add", "remove", "reload", "init"}
WriteSteps == {"unlink", "create", "fill", "rename"}
Steps == {"idle", "read_rc", "ask", "load", "stat", "append", "done"} \cup WriteSteps
Outcomes == {"none", "refreshed", "not_installed", "failed"}

TypeOK ==
    /\ config \in Config \cup {None}
    /\ rc \in [Shells -> RcFile]
    /\ cache \in [Shells -> File \cup {None}]
    /\ tmp \in [Shells -> File \cup {None}]
    /\ cmd \in [Procs -> Commands]
    /\ pc \in [Procs -> Steps]
    /\ at \in [Procs -> 1 .. Len(Order) + 1]
    /\ got \in [Procs -> Config \cup {None}]
    /\ marked \in [Procs -> BOOLEAN]
    /\ report \in [Procs -> [Shells -> Outcomes]]
    /\ exit \in [Procs -> {"none", "ok", "error", "panic"}]

\* No configuration yet or one of the user's, and rc files that a release before
\* the caches may have written to.
NewRc == [marker |-> FALSE, legacy |-> FALSE, blocks |-> 0, readable |-> TRUE]
Init ==
    /\ config \in { c \in Config : c.edit = 0 } \cup {None}
    /\ rc \in [Shells -> {NewRc, [NewRc EXCEPT !.readable = FALSE],
                          [NewRc EXCEPT !.marker = TRUE, !.legacy = TRUE]}]
    /\ cache = [sh \in Shells |-> None]
    /\ tmp = [sh \in Shells |-> None]
    /\ cmd = [p \in Procs |-> "none"]
    /\ pc = [p \in Procs |-> "idle"]
    /\ at = [p \in Procs |-> 1]
    /\ got = [p \in Procs |-> None]
    /\ marked = [p \in Procs |-> FALSE]
    /\ report = [p \in Procs |-> [sh \in Shells |-> "none"]]
    /\ exit = [p \in Procs |-> "none"]

-----------------------------------------------------------------------------
Idle == \A p \in Procs : pc[p] = "idle"
MayStart(p) == pc[p] = "idle" /\ (Discipline = "serial" => Idle)
UserMayEdit == Discipline = "serial" => Idle

Sh(p) == Order[at[p]]
Goto(p, step) == pc' = [pc EXCEPT ![p] = step]

\* The configuration a command works from, when a load that fails is no error.
Loaded == IF config # None /\ config.loads THEN config ELSE None
Changed == [config EXCEPT !.edit = @ + 1]
MayChange == config # None => config.edit < MaxEdits

\* A process ends with a status, which its user reads; a killed one has none.
\* The file it had open is closed.
Closed(f, p) ==
    [sh \in Shells |-> IF f[sh] # None /\ f[sh].by = p THEN [f[sh] EXCEPT !.by = None] ELSE f[sh]]
Exit(p, status) == Goto(p, "done") /\ exit' = [exit EXCEPT ![p] = status]

\* `runex add` and `runex remove`, from a configuration that loads.  `add` takes
\* some keys that the next load rejects (`x{number}` for a rule that has no
\* `number`); `remove` without a rule to remove changes nothing and is left out.
StartAdd(p) ==
    /\ MayStart(p) /\ Loaded # None /\ MayChange
    /\ \E loads \in BOOLEAN : config' = [Changed EXCEPT !.loads = loads]
    /\ cmd' = [cmd EXCEPT ![p] = "add"] /\ Goto(p, "load")
    /\ UNCHANGED <<rc, cache, tmp, at, got, marked, report, exit>>

StartRemove(p) ==
    /\ MayStart(p) /\ Loaded # None /\ MayChange
    /\ config' = Changed
    /\ cmd' = [cmd EXCEPT ![p] = "remove"] /\ Goto(p, "load")
    /\ UNCHANGED <<rc, cache, tmp, at, got, marked, report, exit>>

StartReload(p) ==
    /\ MayStart(p)
    /\ cmd' = [cmd EXCEPT ![p] = "reload"] /\ Goto(p, "load")
    /\ UNCHANGED files /\ UNCHANGED <<at, got, marked, report, exit>>

\* `runex init <shell>` makes a configuration if there is none and the user agrees.
StartInit(p) ==
    /\ MayStart(p)
    /\ \E i \in DOMAIN Order : at' = [at EXCEPT ![p] = i]
    /\ \/ UNCHANGED config
       \/ config = None /\ config' = [edit |-> 0, loads |-> TRUE, shift |-> FALSE]
    /\ cmd' = [cmd EXCEPT ![p] = "init"] /\ Goto(p, "read_rc")
    /\ UNCHANGED <<rc, cache, tmp, got, marked, report, exit>>

ReadRcAlwaysUnmarked(p) ==
    /\ pc[p] = "read_rc"
    /\ marked' = [marked EXCEPT ![p] = FALSE]
    /\ Goto(p, "ask")
    /\ UNCHANGED files /\ UNCHANGED <<cmd, at, got, report, exit>>
ReadRc(p) ==
    /\ pc[p] = "read_rc"
    /\ marked' = [marked EXCEPT ![p] = rc[Sh(p)].readable /\ rc[Sh(p)].marker]
    /\ Goto(p, "ask")
    /\ UNCHANGED files /\ UNCHANGED <<cmd, at, got, report, exit>>

\* The user answers the prompt, in their own time; `--yes` answers it at once.
Agree(p) ==
    /\ pc[p] = "ask" /\ Goto(p, "load")
    /\ UNCHANGED files /\ UNCHANGED <<cmd, at, got, marked, report, exit>>

\* A load that fails ends `config reload`; the others bake a cache with no rules.
LoadLeniently(p) ==
    /\ pc[p] = "load"
    /\ got' = [got EXCEPT ![p] = Loaded]
    /\ Goto(p, "stat") /\ UNCHANGED exit
    /\ UNCHANGED files /\ UNCHANGED <<cmd, at, marked, report>>
Load(p) ==
    /\ pc[p] = "load"
    /\ got' = [got EXCEPT ![p] = Loaded]
    /\ IF cmd[p] = "reload" /\ Loaded = None
         THEN Exit(p, "error")
         ELSE Goto(p, "stat") /\ UNCHANGED exit
    /\ UNCHANGED files /\ UNCHANGED <<cmd, at, marked, report>>

-----------------------------------------------------------------------------
\* The refresh goes from shell to shell; what fails for one does not stop it.
NextShell(p, outcome) ==
    /\ report' = [report EXCEPT ![p][Sh(p)] = outcome]
    /\ at' = [at EXCEPT ![p] = @ + 1]
    /\ Goto(p, "stat")

AtAShell(p) == pc[p] = "stat" /\ at[p] <= Len(Order)

\* Only a cache that is there is refreshed: no file is not_installed, any other
\* answer but a regular file is failed.  `init` does not ask.
SkipShellFolded(p) ==
    /\ AtAShell(p) /\ cmd[p] # "init"
    /\ NextShell(p, "not_installed")
    /\ UNCHANGED files /\ UNCHANGED <<cmd, got, marked, exit>>
SkipShell(p) ==
    /\ AtAShell(p) /\ cmd[p] # "init"
    /\ \/ cache[Sh(p)] = None /\ NextShell(p, "not_installed")
       \/ NextShell(p, "failed")
    /\ UNCHANGED files /\ UNCHANGED <<cmd, got, marked, exit>>

\* export_script: no chord for shift-space in most shells, and that is a panic.
Panics(c, sh) == c # None /\ c.shift /\ sh \in Picky
BakeUnasked(p) ==
    /\ AtAShell(p)
    /\ IF Panics(got[p], Sh(p)) THEN Exit(p, "panic") ELSE Goto(p, "unlink") /\ UNCHANGED exit
    /\ UNCHANGED files /\ UNCHANGED <<cmd, at, got, marked, report>>
Bake(p) ==
    /\ AtAShell(p)
    /\ cmd[p] # "init" => cache[Sh(p)] # None
    /\ IF Panics(got[p], Sh(p)) THEN Exit(p, "panic") ELSE Goto(p, "unlink") /\ UNCHANGED exit
    /\ UNCHANGED files /\ UNCHANGED <<cmd, at, got, marked, report>>

\* write_cache_file: a temporary file of an earlier crash is removed ...
UnlinkTmp(p) ==
    /\ pc[p] = "unlink"
    /\ tmp' = [tmp EXCEPT ![Sh(p)] = None]
    /\ Goto(p, "create")
    /\ UNCHANGED <<config, rc, cache, cmd, at, got, marked, report, exit>>

\* ... one is made with create_new ...
CreateInPlace(p) ==
    /\ pc[p] = "create" /\ UNCHANGED tmp
    /\ cache' = [cache EXCEPT ![Sh(p)] = [by |-> p, body |-> Part]]
    /\ Goto(p, "fill")
    /\ UNCHANGED <<config, rc, cmd, at, got, marked, report, exit>>
CreateTmp(p) ==
    /\ pc[p] = "create" /\ tmp[Sh(p)] = None
    /\ tmp' = [tmp EXCEPT ![Sh(p)] = [by |-> p, body |-> Part]]
    /\ Goto(p, "fill")
    /\ UNCHANGED <<config, rc, cache, cmd, at, got, marked, report, exit>>

\* ... written and synced, wherever another process may have put it meanwhile ...
Written(f, p) ==
    [sh \in Shells |-> IF f[sh] # None /\ f[sh].by = p THEN [by |-> None, body |-> got[p]] ELSE f[sh]]
Fill(p) ==
    /\ pc[p] = "fill"
    /\ tmp' = Written(tmp, p) /\ cache' = Written(cache, p)
    /\ Goto(p, "rename")
    /\ UNCHANGED <<config, rc, cmd, at, got, marked, report, exit>>

\* ... and whatever has its name is renamed over the cache.
AfterWrite(p) ==
    IF cmd[p] = "init" THEN Goto(p, "append") /\ UNCHANGED <<at, report>>
                       ELSE NextShell(p, "refreshed")
RenameTmp(p) ==
    /\ pc[p] = "rename" /\ tmp[Sh(p)] # None
    /\ cache' = [cache EXCEPT ![Sh(p)] = tmp[Sh(p)]]
    /\ tmp' = [tmp EXCEPT ![Sh(p)] = None]
    /\ AfterWrite(p)
    /\ UNCHANGED <<config, rc, cmd, got, marked, exit>>

\* A call fails (create_new on a file that is there, a rename of one that is not,
\* any other I/O error): `init` ends, a refresh goes on.  A failed rename removes
\* the temporary file.
WriteFailsUnnoticed(p) ==
    /\ pc[p] \in WriteSteps
    /\ cache' = Closed(cache, p) /\ tmp' = Closed(tmp, p)
    /\ AfterWrite(p)
    /\ UNCHANGED <<config, rc, cmd, got, marked, exit>>
WriteFails(p) ==
    /\ pc[p] \in WriteSteps
    /\ cache' = Closed(cache, p)
    /\ tmp' = IF pc[p] = "rename" THEN [tmp EXCEPT ![Sh(p)] = None] ELSE Closed(tmp, p)
    /\ IF cmd[p] = "init" THEN Exit(p, "error") /\ UNCHANGED <<at, report>>
                          ELSE NextShell(p, "failed") /\ UNCHANGED exit
    /\ UNCHANGED <<config, rc, cmd, got, marked>>

\* All shells were visited.  Only `config reload` fails with one of them.
Finish(p) ==
    /\ pc[p] = "stat" /\ at[p] > Len(Order)
    /\ Exit(p, IF cmd[p] = "reload" /\ \E sh \in Shells : report[p][sh] = "failed"
                 THEN "error" ELSE "ok")
    /\ UNCHANGED files /\ UNCHANGED <<cmd, at, got, marked, report>>

\* `init` adds the marker and the source line, unless it saw a marker.
AppendUnlessMarked(p) ==
    /\ pc[p] = "append"
    /\ IF marked[p] THEN UNCHANGED rc
         ELSE /\ rc[Sh(p)].blocks < MaxBlocks
              /\ rc' = [rc EXCEPT ![Sh(p)].marker = TRUE, ![Sh(p)].blocks = @ + 1]
    /\ Exit(p, "ok")
    /\ UNCHANGED <<config, cache, tmp, cmd, at, got, marked, report>>

\* The write is cut short, before the marker or after it.
AppendCutShort(p) ==
    /\ pc[p] = "append" /\ ~marked[p]
    /\ \/ UNCHANGED rc
       \/ rc' = [rc EXCEPT ![Sh(p)].marker = TRUE]
    /\ Exit(p, "error")
    /\ UNCHANGED <<config, cache, tmp, cmd, at, got, marked, report>>

\* The process is gone: its user has read the status, has declined the prompt of
\* `init`, or a signal has killed it.
Gone(p) ==
    /\ pc[p] # "idle"
    /\ Goto(p, "idle")
    /\ cmd' = [cmd EXCEPT ![p] = "none"]
    /\ at' = [at EXCEPT ![p] = 1]
    /\ got' = [got EXCEPT ![p] = None]
    /\ marked' = [marked EXCEPT ![p] = FALSE]
    /\ report' = [report EXCEPT ![p] = [sh \in Shells |-> "none"]]
    /\ exit' = [exit EXCEPT ![p] = "none"]
    /\ cache' = Closed(cache, p) /\ tmp' = Closed(tmp, p)
    /\ UNCHANGED <<config, rc>>

-----------------------------------------------------------------------------
\* The user edits the configuration with an editor, ...
procVars == <<cmd, pc, at, got, marked, report, exit>>
HandEdit ==
    /\ UserMayEdit /\ config # None /\ MayChange
    /\ \E c \in Config : c.edit = config.edit + 1 /\ config' = c
    /\ UNCHANGED <<rc, cache, tmp>> /\ UNCHANGED procVars

\* ... deletes the old line as `runex doctor` says, or the whole block from the rc
\* file, and, once no block is left and no command runs, the cache.
DeleteLegacyLine(sh) ==
    /\ UserMayEdit /\ rc[sh].legacy
    /\ rc' = [rc EXCEPT ![sh].legacy = FALSE]
    /\ UNCHANGED <<config, cache, tmp>> /\ UNCHANGED procVars

DeleteBlocks(sh) ==
    /\ UserMayEdit /\ rc[sh].marker
    /\ rc' = [rc EXCEPT ![sh].marker = FALSE, ![sh].legacy = FALSE, ![sh].blocks = 0]
    /\ UNCHANGED <<config, cache, tmp>> /\ UNCHANGED procVars

DeleteCache(sh) ==
    /\ Idle /\ rc[sh].blocks = 0
    /\ cache' = [cache EXCEPT ![sh] = None]
    /\ UNCHANGED <<config, rc, tmp>> /\ UNCHANGED procVars

User == HandEdit \/ \E sh \in Shells : DeleteLegacyLine(sh) \/ DeleteBlocks(sh) \/ DeleteCache(sh)

Step(p) ==
    \/ StartAdd(p) \/ StartRemove(p) \/ StartReload(p) \/ StartInit(p)
    \/ ReadRc(p) \/ Agree(p) \/ Load(p)
    \/ SkipShell(p) \/ Bake(p)
    \/ UnlinkTmp(p) \/ CreateTmp(p) \/ Fill(p) \/ RenameTmp(p) \/ WriteFails(p)
    \/ Finish(p) \/ AppendUnlessMarked(p) \/ AppendCutShort(p)
    \/ Gone(p)

Next == (\E p \in Procs : Step(p)) \/ User

Spec == Init /\ [][Next]_integrationVars

-----------------------------------------------------------------------------
\* When the user runs one command at a time, an `add`, `remove` or `reload` that
\* ends without a complaint leaves every cache baked from the configuration there
\* is, and made none ("regenerate every installed shell integration cache").
BodyIs(sh, c) == cache[sh] # None /\ cache[sh].body = c
SuccessIsCurrent ==
    \A p \in Procs : (exit[p] = "ok" /\ cmd[p] # "init") =>
       \A sh \in Shells :
          \/ report[p][sh] = "refreshed" /\ BodyIs(sh, Loaded)
          \/ report[p][sh] = "not_installed" /\ cache[sh] = None
          \/ report[p][sh] = "failed" /\ cmd[p] # "reload"

\* When the user runs one command at a time, no shell ever sources a cache that
\* is half written, even if the command that wrote it was killed.
CachesAreWhole == \A sh \in Shells : ~BodyIs(sh, Part)

\* When the user runs one command at a time, a `config reload` takes no rules
\* away: the cache it writes has those of a configuration that loaded.
ReloadIsStrict ==
    [][\A sh \in Shells : (cache[sh] # cache'[sh] /\ cache'[sh] # None) =>
          ~\E p \in Procs : pc[p] = "rename" /\ cmd[p] = "reload" /\ cache'[sh].body = None]_integrationVars

\* Whatever runs at once, and wherever it is killed: a block in an rc file sources
\* a cache that is there, because `init` writes the cache first.
SourcedCacheIsThere == \A sh \in Shells : rc[sh].blocks > 0 => cache[sh] # None

\* Only `init` opts a shell in: whatever runs at once, a refresh makes no cache
\* that was not there.
OnlyInitInstalls ==
    [][\A sh \in Shells : (cache[sh] = None /\ cache'[sh] # None) =>
          \E p \in Procs : cmd[p] = "init" /\ Sh(p) = sh]_integrationVars

\* "It never appends twice": so when one command runs at a time and runex can read
\* the rc file.
ReadableRcOnce == \A sh \in Shells : rc[sh].readable => rc[sh].blocks <= 1

\* An `init` that ends well leaves an rc file that gives a new shell the
\* integration, also after the advice of `runex doctor` for an old line, "delete the
\* old line and re-run `runex init`".
InitInstalls ==
    \A p \in Procs : (cmd[p] = "init" /\ exit[p] = "ok") =>
       rc[Sh(p)].blocks > 0 \/ rc[Sh(p)].legacy

-----------------------------------------------------------------------------
\* Why: a process that writes a cache is at a shell, one that refreshes it found it
\* there, one that appends to an rc file has written it, and nothing but the user
\* takes a cache away.
AtItsShell ==
    \A p \in Procs :
       /\ cmd[p] = "init" \/ pc[p] \in WriteSteps => at[p] <= Len(Order)
       /\ pc[p] \in {"read_rc", "ask", "append"} => cmd[p] = "init"

CacheIsKept ==
    \A p \in Procs :
       pc[p] = "append" \/ (pc[p] \in WriteSteps /\ cmd[p] # "init") => cache[Sh(p)] # None

\* Whatever runs at once: `init` appends to an rc file only once write_cache_file has
\* put the cache there, and a refresh writes only where one was.
InstallInv == TypeOK /\ AtItsShell /\ CacheIsKept /\ SourcedCacheIsThere
=============================================================================
