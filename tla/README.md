# A verification development for runex

runex turns a short token on a shell's command line into a longer text when the
trigger key is pressed. It is a Rust program (`src/runex`) that every shell starts
anew: there is no daemon. What lasts between runs is on disk, and what runs at the
same time are processes that share files and take no locks. These TLA+ modules
model the parts of it that decide something or change something, TLC checks them
on small instances, and TLAPS proves the most important facts for all instances.

All paths below are relative to `src/runex/src` unless they start with `docs/`.
`PROJECT.json` has the line by line correspondence (`map`), the runs, the hazards
and the list of theorems.

## The system

| Component | State it keeps | Operations | Hard parts |
|---|---|---|---|
| Configuration file store: `infra/config_store.rs`, `app/config.rs`, `cmd/add_remove.rs`, `cmd/init.rs` | `config.toml`, `.config.toml.runex.tmp` | `add` (append in place), `remove` (temporary file, sync, rename), `init` (create, then write) | no locks; kills and I/O errors between calls; power loss; read, then edit |
| Rule lookup: `domain/expand.rs`, `domain/model.rs`, `app/expand.rs` | none between runs; one memo of command existence per run | `expand`, `which` | the guards are written twice, with other reasons and in another order; commands come and go; four kinds of match, placeholders in user text |
| Git Bash dispatcher: `app/bash_static_dispatcher.rs` | tables in the cache of bash | lookup and edit of the line, in generated bash | a third copy of the lookup and a second one of the edit, in another language |
| Command existence, precache, search path: `util/path.rs`, `app/precache.rs`, `cmd/precache.rs`, `infra/win_path.rs` | a hint in the environment of the shell, the memo | `make_command_exists`, `precache`, `effective_search_path` | hints that are out of date or inherited; made in two passes; caps in bytes |
| Validation: `app/config.rs` | none | load, the gate of `add` | `add` checks less than a load does |
| Integration caches and rc files: `cmd/init.rs`, `cmd/config.rs`, `infra/integration_cache.rs`, `util/prompt.rs`, `app/shell_export.rs` | a cache per shell, its temporary file, a block in an rc file | `init <shell>`, `config reload`, the refresh that ends `add` and `remove` | several files per command; one shell of four fails; the user edits the same files |
| Clink file: `cmd/init.rs`, `app/init.rs` | `runex.lua` at one of several places | `init clink` | written where cmd.exe loads it; the place is worked out twice |
| Doctor: `app/doctor.rs`, `infra/integration_check.rs`, `cmd/doctor.rs` | none | rows about rules, files, aliases, with advice | decides without a token and a shell; reads the same files at several moments |
| Keystroke hook: `cmd/hook.rs`, `app/hook.rs`, `domain/hook.rs`, and `domain/templates` | the shell's buffer and cursor | one press of the trigger | five shells, three units for a cursor, pastes, failures |
| Quoting, bindings: `domain/shell.rs`, `domain/sanitize.rs`, `app/shell_export.rs` | the text of a shell's integration | quoting per language, `export_script` | one to three layers of quoting; keys bound in an order |
| Alias probe: `infra/shell_alias.rs`; clipboard: `infra/clipboard.rs` | a child process and its pipe | `run_with_timeout`, `try_provider` | deadline, end of output and exit race; a full pipe |
| Spinner, command line, output, environment | none | drawing, parsing, formatting, reads | none of control |

How they interact: `add`, `remove` and `init` change the configuration and then
bake the caches from it; a shell sources its cache, which binds the trigger key to
a handler; the handler starts `runex hook`, which loads the configuration, finds
the token, asks the rule lookup what it expands to and prints an edit that the
shell applies. In Git Bash the handler does all of that itself, from the tables
in its cache. Doctor reads all of it, asks shells for their aliases, and tells the
user what to run next. Everything goes through files, pipes and command lines: the
interleavings that matter are between system calls of processes, between a process
and its child, its user's editor and its shell, and between a scan and a machine
that changes under it.

### What makes each component correct

- Store: the configuration changes by whole edits of its *present* contents; no
  reader and no power loss finds a part of a rewrite; a leftover of a crash that can
  be unlinked never stops a later command; an `add` that succeeded leaves a file that
  loads, with three exceptions, and several at once pass the rule limit by little.
- Lookup: phases before file order, the first rule that fires wins, under *one*
  set of answers about commands; the three copies agree; the trace of `which` is
  right. A match is what the wildcards say, a caret is the template's.
- Command existence: a command that is there is never denied; a yes has a reason
  that fits this shell, this PATH and this configuration.
- Validation: what loads never goes wrong at a key press; `add` writes what loads.
- Integration: a source line always finds its cache, a cache is never half
  written, only `init` opts a shell in, a reload without complaint leaves every
  cache current, an rc file gets one block.
- Doctor: what it says without a token is so for every token; it names every
  rejected rule; doing what it says comes to an end; aliases are all or nothing.
- Hook and quoting: a press is a space at the caret or one whole expansion, in
  every shell, unit and failure, through every layer of quoting; Git Bash makes
  the same edit; no expansion inside a paste where the shell shows its queue.
- Child processes: the caller gets all of the output or none, and gets on.

## The modules

| Module | What it is |
|---|---|
| `ConfigContents`, `ConfigFile` | what a configuration holds; the abstract promise of the store: a file as one value that whole edits change |
| `ConfigStore` | the detailed store, one step per system call; implements `ConfigFile` when one command runs at a time |
| `Expansion` | the three scans, side by side, while commands come and go |
| `RuleDoctor` | doctor's unreachable rules, on top of `Expansion` |
| `Matching`, `BakedMatching` | what one rule makes of one token, in runex and in generated bash |
| `Validation` | every reason to refuse a rule or a key binding, and the gate of `add` |
| `Quoting`, `Bootstrap` | the quoting functions beside the readings of the shells; the keys and paths of an integration |
| `RuleLife` | composes these five: a rule from `add` or an editor through a load to a key press and into a shell |
| `SearchPath`, `CommandLookup` | the merged path of Windows; command existence with its hint, from the script that makes it to the question |
| `Integration` | caches and rc files, one step per call that something can come between |
| `Doctor` | doctor's rows, the user who follows them, `init <shell>` and `init clink` |
| `LineText`, `TriggerKey`, `Hook` | the text of a line; the abstract promise of the trigger key; a press in six shells (Git Bash is one of its own), which implements `TriggerKey` |
| `ChildProcess`, `AliasProbe`, `Clipboard` | a child and its pipe, and the two callers that read one |
| `ConfigStoreProofs`, `ExpansionProofs` (with `RuleDoctor`), `TextProofs`, `RuleProofs` (on top of it), `IntegrationProofs`, `DoctorProofs`, `HookProofs`, `OutsideProofs` (`CommandLookup`, `AliasProbe` and `Clipboard`) | the theorems |
| `MC...` | the small instances |

### ConfigStore

A path names an inode, an inode has `data` (what a reader gets) and `disk` (what
a power loss cannot take), a process holds at most one file open. `StartAdd`,
`AddLoad`, `OpenAppend`, `AppendBlock` are `append_abbr_to_file` and
`append_abbr_block`; `StartRemove` to `RenameTmp` are `remove_abbr_from_file`,
`remove_abbr_block` and `atomically_write_config`, which reads the file twice and
ignores a failure to unlink a leftover (`UnlinkFails`); `StartInit`, `MakeConfig`,
`SeedConfig` are the first half of `init`. `Abort` is a kill at any call, or an error
that `?` returns. `Discipline` says which commands the user starts at the same time:
the code takes no lock, so what is promised depends on it, and each property says
under which it is meant.

The code syncs a temporary file and never the directory, so what the paths name on
disk (`dir`) is what they named at the last `WriteBack`, which is the kernel's and
comes when it likes. `PowerLoss` goes back to those names: of a file they lead to
there is what was synced, and perhaps more of what was written (`Between`). The model
has the directory reach the disk whole and in order, as a journaling file system has
it; a `rename` of which only one half is kept is not modelled.

A block is a model value and a file a set of them: the order of the blocks is
`Expansion`'s business, and which blocks a load refuses (`Rejected`) is
`Validation`'s. A block that an append cut short leaves half of makes the file
unreadable, or loads as another rule (`Cuts`): a block that is cut behind its
`expand` line is a rule without its `when_command_exists`. Rules in an inline array
(`inline`) load, but a block appended behind one is no longer TOML, and `remove`
does not see them. `Size` counts a block as one and everything else in the file as
`rest`; the load refuses a file over `MaxSize` (10 MB in the code), and `add` does not
look at it. Symbolic links and permission checks are left out: they end a command
before it changes anything.

### Expansion and RuleDoctor

One token is looked up. A rule is a phase, a key, a table of templates and a
table of conditions; a template is the *class* of what it renders to (the key's
text, the token, blanks, text over 4096 bytes, other text with or without a
space), which is all that the guards tell apart. Each scan (`expand`, `which`,
`bake`) has the guards of its own source: `ExpandPasses`, `WhichPasses`,
`BakePasses` before the commands are asked about, `ExpandRefuses`, `WhichRefuses`,
`BakeRefuses` after. `AskCommand` asks about one command: `expand` stops at the
first that is missing, `which` and the dispatcher ask for all. `Told` is the memo
(`CommandExistsCache`, `__runex_cmd_seen`) with the precache's positive hints
before the disk; which hints there may be is `CommandLookup`. `Install` and
`Uninstall` are the rest of the world, at any time.

### RuleLife: Matching, BakedMatching, Validation, Quoting, Bootstrap

A text is a sequence of characters, and a rule is looked at by itself. `Edit` is
what an editor leaves in the file, `Add` is `append_abbr_to_file` with its gate,
`Load` is `parse_config`: it refuses what `Validation` finds an issue in. `Press`
gives the token to `Fires` (runex), `FiresBaked` (the three lookups of the
dispatcher, by bash's patterns, `${t#p}` and arithmetic) and `Which`. `Take` sends
the reply through the quoting of one shell and that shell's reading of it
(`Received`); `Open` is a shell that reads its integration: the keys it has then
(`Bound`, in the order of the lines of the script), the program it runs (`Runs`)
and the cache it sources (`SourcesFrom`). For clink the program goes through Lua's
reading of its literal, `runex_shell_quote` and the reading of cmd.exe (`CmdRuns`), which
takes a path apart at a quote, at a control character and at the name of a variable
between percent signs; `!VAR!`, which only delayed expansion expands, is not modelled.

The model has the characters that any function tells apart, one of each class:
quotes, backslash, dollar, backtick, braces, wildcards, brackets, digits, a
blank, control characters with their codes, a line separator, a deceptive
character and two curly quotes. `{number}` is one character, since nothing
else in a key spells it. Of the regex engine the model has a table of the keys
that the instance uses, with their groups.

### CommandLookup and SearchPath

A session has a shell, a PATH, a registry (or none) and a hint; `EnterShell`
inherits the hint. The user's script is three steps: `ListCommands`,
`ScriptResolves`, `PrecacheResolved`, or `PrecacheLive` when nothing was listed. A
hint keeps its fingerprint, and for the properties what was true when it was made
(`known`, `on_path`). `Ask` is one process with one question. `EditConfig`,
`Tick`, `SetPath`, `Install`, `Uninstall` are the world. `SearchPath` has entries
with a number of bytes, so that the caps can fall on a semicolon, within an entry
or within a character (then the code panics, which is an answer of its own).

### Integration

`init` reads the rc file, asks, loads, writes the cache, and appends to the rc
file what it decided *before* the prompt. A refresh goes from shell to shell:
`SkipShell` (not installed, or a stat that fails), `Bake` (`export_script`, which
panics for a shift-space trigger in a shell that cannot bind it), then the four
calls of `write_cache_file`. A temporary file belongs to the process that has it
open; what another process does to its name meanwhile is in `Fill` and
`RenameTmp`. The user may edit the configuration, delete an old rc line as doctor
says, delete a block, or a cache no block names. How the configuration itself is
written is `ConfigStore`; here it is one step.

### Doctor

A report is a set of rows, made step by step while the disk may change:
`StartDoctor` loads, `CheckConfig`, `CheckMarker`, `CheckCache`, `CheckClink` look
at the files, `ReadSource` reads the configuration once more for the rules that
validation refuses. The user heeds one row after the other (`Heed`): runs `init`,
deletes the old line, edits the configuration. `init clink` renders, compares,
and writes beside the place and renames; which place is `InstallPlace` for the
installer and `Candidates` for doctor. An rc file has a kind (over init's cap,
over doctor's, a link) and the lines that doctor's classifier tells apart.

### Hook

The shell has a line and a caret in characters. `Press` sends the caret in the
shell's unit, `Answer` is `cmd::hook::handle`: convert to bytes, refuse an
oversized line or a pending paste, find the token, make the edit in bytes,
convert back; `Apply` is what the shell's handler does with it. `Fail` is a hook
that prints nothing; `PressUnsent` is clink, which does not start the hook for an
empty or too long line; `PressBaked` is Git Bash. What `expand` makes of a token
is any of the token's `Expansions`, or nothing. In the two shells of `ByKeys` a paste is a
queue of keys, and keys typed while the hook runs wait in it too. pwsh can look at
the queue (`probe`) and tells the hook. nu cannot: it runs the binding in the middle
of a paste, so the hook expands there, and the `executehostcommand` of the binding
drops the keys behind it, as the head of `nu.nu` says. In bash, zsh and clink a paste
does not reach the trigger (`docs/config-reference.md:103`): it is text that appears on
the line, as `Recall` has it. The workarounds that `nu.nu` lists, a key that inserts the clipboard and a
trigger other than space, are not in this model. The word `sudo` and each operator
are one symbol each.

### ChildProcess, AliasProbe, Clipboard

A child writes units into a pipe that holds `PipeSize` of them, may stop for ever,
end well or badly, and leave a descendant behind that keeps the pipe open. The
probe polls and drains until a deadline on Unix and reads to the end on Windows;
a unit is one line of an alias listing. A read that fails looks to it like the end
of the output (`DrainFails`, `ReadFails`), and a call on the child may fail as well
(`WaitFails`, `WaitErrs`); none of these has fairness. The clipboard tries one provider after
the other, waits for its end without reading, kills it at the deadline, and reads
then; a unit is a character of one to three bytes.

## The runs

| Run | Instance | What it shows |
|---|---|---|
| `config_store_serial` | 2 processes, one at a time; 5 blocks, 2 keys, room for 2; a file of up to 3 units, of which 0 or 2 are no blocks; 3 inodes | `ConfigStore` implements `ConfigFile` (`ImplementsConfigFile`). `AddKeepsLoading`: an append that completed loads, but for blocks `add` does not check, a block behind an inline array, and a file at the size cap |
| `config_store_one_rewriter` | 2 processes at once, one `remove` at most; 4 blocks, 2 keys, room for 2; 2 inodes | `StaleTmpNeverBlocks`, `RewritePublishesWhole`: the temporary file is that command's alone and complete and on disk at the rename. `OverrunIsBounded`: `add`s at once pass the rule limit by one for each but one |
| `config_store_any` | 2 processes, anything; 3 blocks, 2 keys; 4 inodes | violation of `RewritePublishesWhole` by two `remove`s (finding 1) |
| `expansion_broad` | pairs of rules over all phases and template classes, and triples that ask; bash, pwsh, clink; with and without a hint | `FirstRuleWins`, `UnreachableIsHidden` |
| `expansion_scans` | `expand`, `which` and the dispatcher side by side, 2 commands that overlap, entries that bash does not have | `SameOutcome`: the three name the same rule unless they were told otherwise; `TraceIsRight` |
| `rule` | families of rules that vary one thing each: globs of up to 3 characters, templates of up to 3 pieces, numbers with units, regexes, wrong texts, texts of special characters; key bindings; paths of up to 2 special characters | `BakedAlike`, `WhichIsTrue`, `MatchIsRight`, `CursorIsTheTemplates`, `QualityIsRight`, `TakenAsMeant`, `KeysAsConfigured`, `PathsSurvive`, and of `add` `AddBreaksOnlyByBraces` |
| `lookup` | 2 commands, two directories where one of them comes and goes, one only searched by `--path-prepend`, 2 values of PATH, 3 registries or none, 3 configurations, 3 shells, 2 seconds | `NoIsLive`, `YesWasSo`, `PathOnlyIsRespected`, `PathIsMerged` |
| `integration_serial` | 2 shells (one that cannot bind shift-space), one command at a time, one edit | `SuccessIsCurrent`, `CachesAreWhole`, `ReadableRcOnce`, `ReloadIsStrict`, `SourcedCacheIsThere`, `OnlyInitInstalls` |
| `integration_advice` | 2 shells, one command | violation of `InitInstalls` (finding 2) |
| `doctor` | 1 shell and the clink file at 2 places, every state of the one while the other is fresh; 6 configurations, 2 places of runex, one change | `RejectionsAreNamed`, `ClinkInitIsSeen`, `LuaIsWhole`, and with fairness `AdviceSettles` |
| `hook` | 6 shells; letters of 2 and 4 bytes, blanks, an operator, `sudo`; lines of 4 typed symbols and 3 longer ones brought back; queues of 2 keys | `ImplementsTriggerKey`, `BakeAgrees`, `MidPasteIsLiteral`, `TypeOK` |
| `child` | a pipe of 2 units, listings of up to 4 lines, clipboards of up to 6 units, both platforms, 4 chains of providers | `AnswerIsWhole`, `PasteIsWholeOnUnix`, and with fairness `ProbeReturns`, `PasteReturns` |

Each property has a mutant in `PROJECT.json`: a definition of the model changed as
a plausible bug would change the code, for which the run fails.

### Bounds, and why they are enough

- Two processes: every conflict in the code is over one name or one file, between
  one that has read or opened it and one that changes it.
- Inodes: the configuration, a temporary file, and one that was renamed over and is
  still open, or still what the directory on disk names; one more where two rewriters
  run. `config_store_one_rewriter` has two, so that there a new temporary file waits
  until the file it was renamed over is closed and forgotten on disk; the theorems
  about that run's properties have any number.
- `MaxRules` 2 and `MaxSize` 3: full by two blocks, or by one block in a file with
  `rest` 2, so that an `add` can meet either cap first.
- Two or three rules: a scan compares a rule with those before it; two show an
  order, three a rule between two others. All phases and template classes occur.
- `rule`: matching and quoting look at a character and its neighbours: three
  characters show a head, a wildcard and a tail, or a character between two; the
  control characters are followed by a digit, which is where a decimal escape can
  go wrong. `MaxNumeric` 12 and `MaxDigits` 2 let a number be over the limit, or too
  long only by leading zeros. `MaxKey`, `MaxExpand`, `MaxCmd`, `MaxCmds`, `MaxRules` are
  small enough to be exceeded; `MaxUnit * MaxNumeric <= MaxRendered`, as in the code,
  is an assumption that TLC checks.
- `lookup`: `MaxPathEntries` 3 and `MaxPathBytes` 8 are exceeded by a registry
  value, the second after a semicolon, before one, within an entry and within a
  character, and one cut leaves an entry too many;
  `MaxCacheCommands` 1 by a configuration that asks for two. `LastSecond` 1: two
  edits in one second, or in two.
- `MaxEdits` 1, `MaxChanges` 1: what was read or made is current or one step behind.
- `MaxLine` 4: a token with a word before it, an operator, and text after the
  caret. `MaxLineBytes` and `MaxClinkBytes` are small enough that lines exceed
  them. The lines brought back (`History`) add `sudo` after an operator and after
  a word, which needs five symbols. `MaxKeys` 2: a trigger with a key behind it.
- `MaxBlocks` 2 in an rc file: one, and one too many.
- `child`: a pipe of 2 that outputs of 3 and 4 overfill, chunks of 2 that end
  within and at the end of an output, caps of 3 and 4 units that are exceeded, 2
  ticks of time.

Processes and inodes are symmetric sets in the store's runs; no run with a liveness
property uses symmetry. Deadlock is checked but where a run ends for good: a scan,
a child's caller, and the life of a rule.

### Fairness

- `ProbeReturns`, `PasteReturns`: weak fairness of the caller's steps, which are
  sequential code, and of `TimePasses`. The child and its descendants have
  none: they may hang for ever. `PasteReturns` excepts a descendant that keeps the
  pipe open, for which `wait_with_output` does wait; `ProbeReturns` is about Unix,
  since Windows reads and waits without a deadline.
- `AdviceSettles`: weak fairness of `Run`, a started process that goes on and a user
  who does what doctor says, as the property is about. Which row the user takes
  first is free, and edits, upgrades and kills have no fairness.

## What is proved

TLAPS checks these for every value of the constants that the named assumptions
allow: any number of processes, inodes, blocks, rules, commands and shells, any
sizes and caps.

- `ConfigStoreProofs`. `TypeCorrect` under any discipline. For one `remove` at a
  time, `RewriteInvariant` (`RewriteInv`), and from it `StaleTmpHarmless` and
  `RewriteIsWhole`. That the published file is whole is not inductive: it needs
  that the temporary file is named by nobody else (`TmpIsPrivate`), that its
  contents grow towards `buf` and reach it before `sync` (`TmpIsWritten`), and
  that no second rewriter is there (`RewritersAlone`). For one command at a time
  `SerialInvariant` (`SerialInv` adds that what was read is still current),
  `SerialEdits`: every step is a whole edit of `ConfigFile` or leaves it alone,
  power losses included, where a power loss leaves what the name on disk leads to
  (`Remains`) and a write makes the file `Grows`; and `AddsKeepLoading`, where the
  cardinality of a set with one block more is what makes the room check enough.
  `OverrunIsOnePerAdd` needs `CountInv`: the blocks of each file that a name leads to,
  here or on disk, and the `add`s that found room and have yet to append to it
  (`Owing`), are together fewer than the limit and the processes (`RoomIsShared`), and a
  rewrite only takes blocks away (`RewriteShrinks`).
- `ExpansionProofs`. `ScanInvariant` (`IInv`): a rule that a scan has gone past is
  blocked by its guards or by an answer, and answers never change. `FirstRule`
  follows from it with the lemma that the three sets of guards come to the same
  predicate (`GuardsAgree`), and `ScansAgree` because two scans that end at
  different rules must contradict each other about a command.
  Of `RuleDoctor`, `UnreachableRules`: a rule that hides another comes first and
  fires when the other would (`HiderFires`), so by `ScanInv` no scan gets past it.
  `TraceOfWhich` by `TraceInv`: the rules with a reason are those behind the scan,
  and each reason is so. It needs where the scan is (`Behind`) in each of its
  states, and that a reason stays true as more answers come in (`ReasonStays`).
- `RuleProofs`, for any rule, token and key table. The invariant `RuleInv` is
  small: what is past the load loads, and what was made of a press is what the
  operators make of that rule and token. The theorems are about the operators.
  `MatchesWhatTheKeySays`: a glob matches exactly what its wildcards allow
  (`GlobIs`), a number rule exactly what has a number up to the limit (`NumberIs`,
  for which the load must have refused a second placeholder: `NumberKeySplits`).
  `CaretsAreTheTemplates`: the template is cut at its first `{}` before the
  captures are put in. `WhichTellsTheTruth` needs that a rendering has its caret
  inside (`RenderTyped`), and where the first `{}` of a text is after a `{}` was put
  into it (`MarkerIs`). `AddedRulesLoad`: what a load asks, issue by issue
  (`RuleIssuesIs`, `LoadsIs`), against what `add` asks; `ShellKeysAreConfigured`: the
  same for the key tables (`LoadsBinding`).
  `DoctorJudgesRules` is the longest. What doctor renders with nothing captured is
  blank or not as with anything captured (`BlankWithNothing`), because what is blank
  or not in a template comes out of it (`BlankStays`, `BlankComesOut`). A glob whose
  template without its `{}` is the key, with `{*}` for its star, gives each token
  back (`GlobRewrites`): taking out every `{}` is a recursive function
  (`WithoutCursorsIs`), and since the rule cuts cleanly its first `{}` lies beside the
  star (`CutBesideStar`) or in a piece without it (`StarPutInPieces`). One repeat shows
  what all do (`RepeatsAlike`).
  `RepliesArriveAsMeant` and `PathsComeThrough` are `TextProofs` applied to what
  `Take` sends and to what `Open` reads; a program that cmd.exe does not take apart has
  no quote for `runex_shell_quote` to escape (`CmdRead`).
  `GitBashDoesTheSame` goes through the three kinds of rule that have a table there,
  in `FiresAlike`. What a rule that loads has in its texts survives `Baked`
  (`BakedIs`), which is what the load's check for control characters is worth here.
  A glob key that loads has no bracket, no backslash and one star (`GlobKeyIs`), so
  bash captures what runex captures (`GlobFires`). Of a number bash drops the zeros
  in front and then looks at its length, before its arithmetic could overflow:
  what is longer than `MaxDigits` is over the limit anyway (`DigitsAgree`). And since
  no command has a colon, the joined list comes apart into the commands that were
  joined (`AskedAlike`).
- `TextProofs`, for any text. First of literals: what a shell reads of the literal
  that was written for it is the text, or the text without what the literal drops. A
  quoting function is an escape for each symbol, a reading is a `Scan`: one step for each place of the
  literal, which says what comes of it and where the next step is. What a scan has
  read from a place on is what the step puts out before what was read from the next
  (`ScanIs`), so if each escape takes the shell from the place where it begins to the
  place where the next one begins (`LiteralPlaces`), and puts out its symbol, the
  whole is the text (`RightIsFlat`). That is what is proved of each shell's escapes:
  `BashPasses` with three modes, `PwshPasses` with doubled quotes and backticks,
  `DoublePasses` for Nu, Lua and JSON, where the three digits of Lua make sure that a
  digit behind them is not read with them, and `NuEmbeddedIs` for the literal within
  a string. zsh gets the line in two parts (`SplitsAtCaret`).
  Then of templates, with what is filled in as a sequence put together from the right
  (`SubstitutedSteps`). Then of bash: where a pattern goes on a text is a graph, and a
  match a way through it (`Reaches`); the place grows with each step, so a way comes to
  an end (`GoesDown`), and for a pattern without brackets each place has the ways that
  its symbol says (`SimpleGoesIs`). `PlainMatches` and `WholeIs` give from that what
  `Matching` says of the parts of a key, `ChopsHead` and `ChopsTail` what is left of a
  token without them, and `FillsAlike` that replacing each `{*}` from left to right is
  what runex fills in. `UnitsAlike` is the same for `{number}`, `SplitsAfter` for the
  list of commands.
- `IntegrationProofs`. `InstallInvariant` (`InstallInv`): a process that appends to
  an rc file has written the cache, one that refreshes found it, and no step of
  a command takes a cache away; hence `SourcedCache` and `RefreshMakesNone`, for
  any number of commands at once.
  For one command at a time, `SerialInv` adds to
  `InstallInv` that at most one process is not idle (`Alone`), and for that one
  that what it loaded is still the configuration (`Current`), that the temporary
  file is its own (`Owns`), that each shell behind it is as its report says
  (`Visiting`), and that the marker it saw is there (`Saw`). From these
  `RefreshesAreCurrent`, `WholeCaches`, `OneBlock` and `StrictReload`.
- `OutsideProofs`, what runex learns from outside. Of `AliasProbe` and `Clipboard`:
  the counters follow each other through the text and a child that
  ended well has sent all of it (`PipeInv`), so a reader that has got what was
  sent has the text: `AnswersAreWhole` and `PastesAreWhole`, which holds on Unix
  (the Windows clipboard is cut at half the cap).
  Of `CommandLookup`: `NoComesFromTheDisk` is the form of `Exists`. `YesHadAReason` and
  `PathOnlyHolds` need `HintInv`, what a hint says about the time it was made, and for
  that `ScriptInv` (what the script listed belongs to the present configuration
  unless it was edited meanwhile) and `TimeInv` (no edit lies in the future).
  `SearchPathIsMerged` is about the merge as a fold: along the entries of a value the
  path grows by what is not in it yet, up to letters' case, and the cap cuts nothing
  off a value that is within it; `MergeInv` only says which merge it is.
- `DoctorProofs`. `LuaStaysWhole` by `LuaInv`: the temporary file is whole when it is
  renamed, through upgrades and kills. `RejectedRulesAreNamed` by `ReportInv`.
  `ClinkInstallIsSeen` by `SeenInv`: what is about to be installed is what doctor
  would compare with, and the place is the first of those that doctor looks at,
  which the installer and doctor work out differently.
- `HookProofs`. `HookInv` adds to `TypeOK` that only the shells of `ByKeys` have a
  queue (`QueueInv`), that what the hook was told of it is so (`Told`), that what was
  asked belongs to the line the shell still shows, and that an answer is one of the two
  edits of it; the keys that arrive meanwhile wait, so it is inductive. The lemmas are
  about positions: an offset in bytes or UTF-16 units grows along a line (`OffsetGrows`), so a
  position comes back from it (`CharAtOffset`, `CharFromOffset`), and the offsets in a
  line with a piece put in are those of its pieces (`SpliceOffset`, `ExpandedOffset`).
  From these `HookImplementsTriggerKey` (each step is an edit of `TriggerKey` or leaves
  the line alone), `BakeMakesTheHooksEdit` (two ways to count, one edit),
  `PasteStaysLiteral` and `HookTyped`.

Sums over a line, renderings and merges are recursive functions. The library's
induction theorems cannot be used for them, since they take an operator; each
proof module that needs it has `Least`, that a set of numbers which is not empty
has a least element (from `WFMin` and `NatLessThanWellFounded`), and argues from the
first place where a statement about a position would fail.

The assumptions are the `ASSUME`s of the modules, which TLC evaluates in every run:
- model values are distinct from data, sets of blocks and of processes are finite, a
  block that is cut keeps its key, texts are
  sequences of symbols, sizes and caps are numbers (`ContentsAssumption`,
  `StoreAssumption`, `LookupAssumption`, `IntegrationAssumption`, `ReasonsAssumption`,
  `ChildAssumption`, `ProbeAssumption`, `ClipAssumption`, `PathAssumption`,
  `KeysAssumption`, `LifeAssumption`, `DoctorAssumption`);
- a table of keys per phase, and classes of templates that are what they say
  (`ExpansionAssumption`);
- what the literals are made of is ASCII, apart from what is unsafe to show and from
  the curly quotes, and no two control characters have one code (`QuotingAssumption`);
- every symbol has a width in each unit, and a blank is one byte (`HookAssumption`);
  tokens have letters only and a caret lies in its expansion (`TextAssumption`);
- braces are symbols (`MatchingAssumption`), and a unit repeated as often as may be,
  like any expand, is within the cap of a rendering (`LimitsFit`, as the constants of
  the code have it);
- of the tables for Git Bash (`BakedAssumption`): what they drop is refused by the load
  or is a line separator, a colon is among the separators that no command may have, a
  number with more than `MaxDigits` digits is over the limit, and the one blank of the
  model stands for all white space (`__runex_cyg_is_blank` names the characters that
  Rust's `trim` takes for it); a token, which ends at a blank, has none.

Only model-checked: the liveness properties `ProbeReturns`, `PasteReturns`
and `AdviceSettles`, since liveness under fairness is out of this prover's reach. Every
invariant and every action property that a passing run checks is proved.

The theorems of `RuleProofs` take the regex engine as the model has it, a table of
two forms of key (`Captured`); none says anything of other regexes.

## Findings

1. Two `runex remove` at once share one temporary name, and one can publish what
   the other is still writing (`infra/config_store.rs:168`; the comment at 128
   says "Atomically replace a config file"). Run `config_store_any`.
2. Following doctor's advice for an old rc line ("delete the old line and re-run
   `runex init`") leaves the shell without the integration, since the marker above
   the line is still there (`cmd/init.rs:173`). Run `integration_advice`. `AdviceSettles`
   says that doctor is content then: it takes the marker for the whole block.

### Noted while modelling

What follows is in the models, as an exception that a property names, or in a
definition of its own; none has a run.

Rules and lookup:
- The comment on `check_unreachable_duplicates` (`app/doctor.rs:530`) says that the
  earlier rule "will always match first, making all later such rules dead code";
  not where it has no entry for the shell or renders over the cap.
- `MAX_TOKEN_BYTES` (`main.rs`, "Tokens longer than any possible abbr key"): `expand`
  and `which` refuse a long token that a glob, number or regex rule expands at a
  key press.
- The comment on `append_abbr_to_file` (`app/config.rs:862`) says that `add` never
  extends a file that the next load rejects. It does so for `add 'g{x}' foo`, for a
  file whose rules are an inline array, for a file that is at the 10 MB cap, and for
  two `add`s at once with room for one. The exceptions are those of
  `AddKeepsLoading`; `OverrunIsBounded` is about the last.
- Doctor's self-loop row is wrong for a `{number}` rule whose expand is its key, for
  an expand with two `{}`, and for one whose `{}` stands in what is a `{*}` only without
  it: a glob `*` with the expand `{{}*}` is "always skipped" in the report, and
  makes `{*}` of every token.
- A line separator (U+2028, U+2029, NEL) in a key, an expand or a unit loads, and the
  Git Bash table drops it. `export_script` fills its placeholders one after the other, so a rule
  whose text contains one of them is changed in that table.

Keys and quoting:
- `self_insert = "space"` or `"tab"` has no effect in any shell, and doctor warns only
  of shift-space in bash and zsh. With trigger and self-insert on one key the
  self-insert wins without a word.
- A shift-space trigger for all shells loads, and then panics (`unreachable!` in
  `app/shell_export.rs`): in the refresh after an `add` that has edited the file
  (`docs/design.md` says a failure there never changes the exit status), in
  pwsh (`docs/config-reference.md` has it as allowed there), and in doctor itself.
- `clink.lua:9` says that a quote has no escape in cmd.exe, and `runex_shell_quote` in
  the same file writes `\"`; `--bin` accepts a quote and a percent sign. `PathsSurvive`
  leaves those programs out.
- In nu a paste that contains the trigger key expands in the middle and loses what is
  behind it; `nu.nu:3` says so itself.
- `pwsh_quote_string` doubles only the ASCII quote; PowerShell also ends a literal
  at the curly ones, so a path with one breaks the line in the profile.
- `docs/config-reference.md:149` calls the hook's `--cursor` a byte offset, and the
  shells send characters or UTF-16 units, which is what the hook expects. In clink
  an expansion whose text is its token (it only moves the caret) is taken for no
  answer: a space is typed (`clink.lua:77`).

Command existence:
- `docs/config-reference.md:22` and `:135` say that precache has no run-time effect;
  the hook, `which`, `expand` and `timings` still consult it.
- `cap_registry_value` slices by bytes, and panics when the cap falls within a
  character. The fingerprint has no configuration path, and a time in whole seconds.
  The clink statement escapes quotes so that the cache never parses.

Children, doctor, integration:
- bash without rc files never lists an alias, so that the bash probe finds none; on
  Windows a probe has no deadline. A read error of a probe is dropped
  (`infra/shell_alias.rs:211`), so that a part of the aliases may pass for all.
  `wl-paste` that ends with 1 gives an empty text and hides the other providers.
- A marker alone makes doctor's rc row OK, which `docs/config-reference.md` describes
  as "carries the marker and sources the integration cache". The old line is found
  by a substring (`export bash_theme=` is one). For a link, or an rc file between
  the caps of `init` and doctor, `init` cannot do what doctor asks, or does it each
  time again.
- The strict check warns of the valid `keybind.paste_intercept` and misses unknown
  keys inside an `expand` table; its row counts rules from 0 where the text counts
  from 1.

Two commands at once, besides finding 1: a `remove` may lose a block that an `add`
appended meanwhile, an older refresh may write last, two `init`s may append two
blocks, and two refreshes of one shell share a temporary name, so that one may rename
what the other still writes. `docs/setup.md:92` says of `init` that it "never appends
twice" and `:94` that it "never leaves a half-written cache": both hold for one command
at a time, which is what `ReadableRcOnce` and `CachesAreWhole` are stated, checked and
proved for, and neither sentence has that condition.

## Not modelled, and why

- Parsing of the command line, formatting, the messages, the spinner, `list`,
  `version` and `timings`: no state of their own and no control that something
  else depends on.
- The environment: where the configuration, the caches and the rc files are.
- The regex engine, serde's TOML and JSON, clink, PSReadLine and readline: external;
  what the code relies on of them is marked so in the map.
- The guards at the top of each shell template, and the hex transport of clink.
- What a shell does between two calls that are one step here: a delete of a cache
  between the stat and the rename of a refresh (`cmd/init.rs:433`), and an edit between
  the load of the configuration and the stat that dates the hint
  (`cmd/precache.rs:39`).
- A directory that reaches the disk in part, after a power loss.
- Two processes at once in `Doctor`: races of refreshes and inits are
  `Integration`'s.

## What is left

- A second process beside `init clink`, which shares a temporary name with it.
- A shell that presses the trigger while an integration is installed: `Hook` and
  `Integration` side by side.
- More characters at once in `rule`: two special ones in an expand with a caret.
