---------------------------- MODULE ConfigStore -----------------------------
(***************************************************************************)
(* How runex processes edit the configuration file: one step per system    *)
(* call of `runex add`, `runex remove` and `runex init`                    *)
(* (app/config.rs, infra/config_store.rs, cmd/init.rs), any number of them *)
(* at once, each of them able to die or to get an I/O error at every call. *)
(*                                                                         *)
(* A path names an inode, a process holds at most one open file, and an    *)
(* inode stays what it is for whoever has it open after its path moved.    *)
(* No step waits for a lock: the code takes none.  It does not sync the    *)
(* directory either: what a path names on disk is what it named when the   *)
(* kernel last wrote the directory, which it does whole and when it likes. *)
(***************************************************************************)
EXTENDS ConfigContents

CONSTANTS
    Procs,      \* the runex processes
    Inodes,     \* the files of the configuration's directory
    None,       \* no file
    Discipline  \* which commands the user runs at the same time

ASSUME StoreAssumption ==
    /\ Procs # {} /\ IsFiniteSet(Procs)
    /\ None \notin Inodes
    /\ Discipline \in {"any", "one_rewriter", "serial"}

VARIABLES
    path,       \* the inode each path names
    dir,        \* the inode each path names on disk
    data,       \* what the next reader of each inode gets
    disk,       \* the part of it a power loss cannot take
    pc,         \* what each process does next
    fd,         \* the file each process has open for writing
    rule,       \* the block `add` appends
    key,        \* the key `remove` drops
    buf         \* the contents `remove` writes

storeVars == <<path, dir, data, disk, pc, fd, rule, key, buf>>

Paths == {"config", "tmp"}      \* config.toml and .config.toml.runex.tmp
AddSteps == {"add_load", "open_append", "append"}
RewriteSteps == {"remove_load", "reread", "unlink", "create", "create_over",
                 "fill", "sync", "rename"}
InitSteps == {"make", "seed"}
Steps == {"idle"} \cup AddSteps \cup RewriteSteps \cup InitSteps

TypeOK ==
    /\ path \in [Paths -> Inodes \cup {None}]
    /\ dir \in [Paths -> Inodes \cup {None}]
    /\ data \in [Inodes -> Content]
    /\ disk \in [Inodes -> Content]
    /\ pc \in [Procs -> Steps]
    /\ fd \in [Procs -> Inodes \cup {None}]
    /\ rule \in [Procs -> Rules]
    /\ key \in [Procs -> Keys]
    /\ buf \in [Procs -> Content]

\* What the variables of a process hold when it does not use them.
NoKey == KeyOf[SeedRule]

\* No file yet, or one the user wrote that loads.
Init ==
    /\ \/ /\ path = [n \in Paths |-> None]
          /\ data = [i \in Inodes |-> Empty]
       \/ \E i \in Inodes, c \in Content :
             /\ Loads(c)
             /\ path = [n \in Paths |-> IF n = "config" THEN i ELSE None]
             /\ data = [j \in Inodes |-> IF j = i THEN c ELSE Empty]
    /\ dir = path /\ disk = data
    /\ pc = [p \in Procs |-> "idle"]
    /\ fd = [p \in Procs |-> None]
    /\ rule = [p \in Procs |-> SeedRule]
    /\ key = [p \in Procs |-> NoKey]
    /\ buf = [p \in Procs |-> Empty]

-----------------------------------------------------------------------------
\* What read_config_source returns now (Absent: its open fails), and how much
\* of that is on disk.  Reading one open file is one step: a rename meanwhile
\* does not change the file that is open.
Published == IF path["config"] = None THEN Absent ELSE data[path["config"]]
Durable == IF path["config"] = None THEN Absent ELSE disk[path["config"]]

\* What a power loss may leave of the configuration: what the name on disk leads
\* to, with at least the part of it that is on disk.
Remains ==
    IF dir["config"] = None THEN {Absent}
    ELSE Between(disk[dir["config"]], data[dir["config"]])

\* A file no path names, here or on disk, and no process holds: what a creating
\* open gets.
Held(i) == i \in {fd[p] : p \in Procs}
Free(i) == i \notin {path[n] : n \in Paths} /\ i \notin {dir[n] : n \in Paths} /\ ~Held(i)

NewFile(n, i) ==
    /\ Free(i)
    /\ path' = [path EXCEPT ![n] = i]
    /\ data' = [data EXCEPT ![i] = Empty]
    /\ disk' = [disk EXCEPT ![i] = Empty]
    /\ UNCHANGED dir

\* The files go that no path names any more and no process holds.
Forget(gone) ==
    /\ data' = [i \in Inodes |-> IF i \in gone THEN Empty ELSE data[i]]
    /\ disk' = [i \in Inodes |-> IF i \in gone THEN Empty ELSE disk[i]]

\* A path lost the file i.
Unnamed(i) ==
    /\ Forget({j \in {i} : i \notin {dir[n] : n \in Paths} /\ ~Held(i)})
    /\ UNCHANGED dir

Goto(p, step) == pc' = [pc EXCEPT ![p] = step]
Close(p) == fd' = [fd EXCEPT ![p] = None]

\* The process goes on to a step, or it ends and its memory goes with it.
FilesStay == UNCHANGED <<path, dir, data, disk>>
ArgsStay == UNCHANGED <<rule, key, buf>>
Continue(p, step) == Goto(p, step) /\ FilesStay /\ UNCHANGED fd /\ ArgsStay
End(p) ==
    /\ Goto(p, "idle") /\ Close(p)
    /\ rule' = [rule EXCEPT ![p] = SeedRule]
    /\ key' = [key EXCEPT ![p] = NoKey]
    /\ buf' = [buf EXCEPT ![p] = Empty]

Rewriting(p) == pc[p] \in RewriteSteps

\* Whether the user starts one more command now, and whether that may be `remove`.
MayStart == Discipline = "serial" => \A q \in Procs : pc[q] = "idle"
MayRewrite == Discipline = "one_rewriter" => \A q \in Procs : ~Rewriting(q)

-----------------------------------------------------------------------------
\* A block that is nowhere yet: two equal blocks in a file count as two, so
\* every `add` brings a block of its own, that may be cut to a rule of its own.
Fresh(r) ==
    /\ r # SeedRule /\ \A q \in Rules : r \notin Cuts[q]
    /\ \A i \in Inodes : data[i].rules \cap ({r} \cup Cuts[r]) = {}
    /\ \A q \in Procs : r # rule[q] /\ buf[q].rules \cap ({r} \cup Cuts[r]) = {}

\* `runex add`: append_abbr_to_file.  It checks a key less than a load does: a key
\* with braces, say, passes.
StartAdd(p) ==
    /\ pc[p] = "idle" /\ MayStart
    /\ \E r \in Rules : Fresh(r) /\ rule' = [rule EXCEPT ![p] = r]
    /\ Goto(p, "add_load")
    /\ FilesStay /\ UNCHANGED <<fd, key, buf>>

\* The file must load and have room, or add ends with an error.
AddLoadWithoutRoom(p) ==
    /\ pc[p] = "add_load"
    /\ IF Published # Absent /\ Loads(Published)
         THEN Continue(p, "open_append")
         ELSE End(p) /\ FilesStay
AddLoad(p) ==
    /\ pc[p] = "add_load"
    /\ IF Published # Absent /\ Loads(Published) /\ HasRoom(Published)
         THEN Continue(p, "open_append")
         ELSE End(p) /\ FilesStay

\* O_APPEND | O_CREAT on the resolved path.  Nothing in runex unlinks the file,
\* so after a load it is still there and O_CREAT makes nothing.
OpenAppend(p) ==
    /\ pc[p] = "open_append"
    /\ path["config"] # None
    /\ fd' = [fd EXCEPT ![p] = path["config"]]
    /\ Goto(p, "append")
    /\ FilesStay /\ ArgsStay

\* write_all of the block: whole, and `Added` is printed, or cut short.  The
\* file is not synced.
AppendBlock(p) ==
    /\ pc[p] = "append"
    /\ data' = [data EXCEPT ![fd[p]] = With(@, rule[p])]
    /\ UNCHANGED <<path, dir, disk>>
    /\ End(p)

AppendCutShort(p) ==
    /\ pc[p] = "append"
    /\ \E left \in CutShort(data[fd[p]], rule[p]) : data' = [data EXCEPT ![fd[p]] = left]
    /\ UNCHANGED <<path, dir, disk>>
    /\ End(p)

-----------------------------------------------------------------------------
\* `runex remove`: remove_abbr_from_file loads the file, and remove_abbr_block
\* reads it a second time and edits what it reads then.
StartRemove(p) ==
    /\ pc[p] = "idle" /\ MayStart /\ MayRewrite
    /\ \E k \in Keys : key' = [key EXCEPT ![p] = k]
    /\ Goto(p, "remove_load")
    /\ FilesStay /\ UNCHANGED <<fd, rule, buf>>

RemoveLoad(p) ==
    /\ pc[p] = "remove_load"
    /\ IF Published # Absent /\ Loads(Published)
         THEN Continue(p, "reread")
         ELSE End(p) /\ FilesStay

\* The file must not be too long.  A block cut short may or may not still be TOML;
\* nothing to remove ends the command with `No rule found`.
RereadFound(p) ==
    /\ pc[p] = "reread"
    /\ Published # Absent /\ Readable(Published) /\ Holds(Published, key[p])
    /\ buf' = [buf EXCEPT ![p] = Without(Published, key[p])]
    /\ Goto(p, "unlink")
    /\ FilesStay /\ UNCHANGED <<fd, rule, key>>

RereadNothing(p) ==
    /\ pc[p] = "reread"
    /\ \/ Published = Absent
       \/ /\ Published # Absent
          /\ Published.torn \/ ~Readable(Published) \/ ~Holds(Published, key[p])
    /\ End(p) /\ FilesStay

\* The best-effort removal of a temporary file that a crash left behind.
UnlinkTmpSkipped(p) == pc[p] = "unlink" /\ Continue(p, "create")
UnlinkTmp(p) ==
    /\ pc[p] = "unlink"
    /\ path' = [path EXCEPT !["tmp"] = None]
    /\ Unnamed(path["tmp"])
    /\ Goto(p, "create")
    /\ UNCHANGED fd /\ ArgsStay

\* ... whose own failure is ignored.
UnlinkFails(p) ==
    /\ pc[p] = "unlink"
    /\ path["tmp"] # None
    /\ Continue(p, "create_over")

\* create_new: an existing temporary file is an error.
CreateTmp(p) ==
    /\ pc[p] \in {"create", "create_over"}
    /\ IF path["tmp"] = None
         THEN /\ \E i \in Inodes : NewFile("tmp", i) /\ fd' = [fd EXCEPT ![p] = i]
              /\ Goto(p, "fill") /\ ArgsStay
         ELSE End(p) /\ FilesStay

\* write_all: a part of the contents, or all that is left of them.  What someone
\* else put into the file is overwritten, or stays behind them.
FillPart(p) ==
    /\ pc[p] = "fill"
    /\ \E part \in Between(data[fd[p]], buf[p]) : data' = [data EXCEPT ![fd[p]] = part]
    /\ UNCHANGED <<path, dir, disk, pc, fd>> /\ ArgsStay

Written(c) == c.rules \cup CutsOf(c.rules)
FillRest(p) ==
    /\ pc[p] = "fill"
    /\ \E others \in SUBSET (data[fd[p]].rules \ Written(buf[p])) :
          data' = [data EXCEPT ![fd[p]] = [buf[p] EXCEPT !.rules = @ \cup others]]
    /\ Goto(p, "sync")
    /\ UNCHANGED <<path, dir, disk, fd>> /\ ArgsStay

\* sync_all, and the drop that closes the file.
SyncSkipped(p) ==
    /\ pc[p] = "sync"
    /\ Goto(p, "rename") /\ Close(p)
    /\ FilesStay /\ ArgsStay
Sync(p) ==
    /\ pc[p] = "sync"
    /\ disk' = [disk EXCEPT ![fd[p]] = data[fd[p]]]
    /\ Goto(p, "rename") /\ Close(p)
    /\ UNCHANGED <<path, dir, data>> /\ ArgsStay

\* rename publishes whatever file the temporary path names now.
RenameTmp(p) ==
    /\ pc[p] = "rename"
    /\ IF path["tmp"] = None
         THEN FilesStay
         ELSE /\ path' = [path EXCEPT !["config"] = path["tmp"], !["tmp"] = None]
              /\ Unnamed(path["config"])
    /\ End(p)

\* A failed rename removes the temporary file and leaves the configuration.
RenameFails(p) ==
    /\ pc[p] = "rename"
    /\ path' = [path EXCEPT !["tmp"] = None]
    /\ Unnamed(path["tmp"])
    /\ End(p)

-----------------------------------------------------------------------------
\* `runex init`: the file is made with create_new and then written; a file that
\* is there is left alone, whatever it holds.
StartInit(p) ==
    /\ pc[p] = "idle" /\ MayStart
    /\ Continue(p, "make")

MakeConfig(p) ==
    /\ pc[p] = "make"
    /\ IF path["config"] = None
         THEN /\ \E i \in Inodes : NewFile("config", i) /\ fd' = [fd EXCEPT ![p] = i]
              /\ Goto(p, "seed") /\ ArgsStay
         ELSE End(p) /\ FilesStay

SeedConfig(p) ==
    /\ pc[p] = "seed"
    /\ \E part \in Between(data[fd[p]], Seed) : data' = [data EXCEPT ![fd[p]] = part]
    /\ UNCHANGED <<path, dir, disk>>
    /\ End(p)

-----------------------------------------------------------------------------
\* A process is killed, or a call fails and `?` returns its error: the file is
\* closed, and a temporary file stays where it is.
Abort(p) ==
    /\ pc[p] # "idle"
    /\ End(p) /\ FilesStay

\* The kernel writes the directory to disk.
WriteBack ==
    /\ dir # path
    /\ dir' = path
    /\ Forget({i \in Inodes : i \notin {path[n] : n \in Paths} /\ ~Held(i)})
    /\ UNCHANGED <<path, pc, fd, rule, key, buf>>

\* The machine stops: every process is gone, the paths name what they named on
\* disk, and of each file there is at least what was synced.
PowerLoss ==
    /\ LET named == {dir[n] : n \in Paths} \ {None}
       IN \E left \in [named -> UNION {Between(disk[i], data[i]) : i \in named}] :
             /\ \A i \in named : left[i] \in Between(disk[i], data[i])
             /\ data' = [i \in Inodes |-> IF i \in named THEN left[i] ELSE Empty]
    /\ disk' = data'
    /\ path' = dir
    /\ pc' = [p \in Procs |-> "idle"]
    /\ fd' = [p \in Procs |-> None]
    /\ rule' = [p \in Procs |-> SeedRule]
    /\ key' = [p \in Procs |-> NoKey]
    /\ buf' = [p \in Procs |-> Empty]
    /\ UNCHANGED dir

Step(p) ==
    \/ StartAdd(p) \/ AddLoad(p) \/ OpenAppend(p) \/ AppendBlock(p) \/ AppendCutShort(p)
    \/ StartRemove(p) \/ RemoveLoad(p) \/ RereadFound(p) \/ RereadNothing(p)
    \/ UnlinkTmp(p) \/ UnlinkFails(p) \/ CreateTmp(p) \/ FillPart(p) \/ FillRest(p) \/ Sync(p)
    \/ RenameTmp(p) \/ RenameFails(p)
    \/ StartInit(p) \/ MakeConfig(p) \/ SeedConfig(p)
    \/ Abort(p)

Next == (\E p \in Procs : Step(p)) \/ WriteBack \/ PowerLoss

Spec == Init /\ [][Next]_storeVars

-----------------------------------------------------------------------------
\* When the user runs one command at a time, every step of these processes, the
\* ones a crash or a power loss cuts short included, leaves the file as it is or
\* makes one whole edit of its present contents; and a power loss leaves a file
\* that an edit has published, or part of one that was not on disk yet.
Edits == INSTANCE ConfigFile WITH config <- Published, floor <- Durable, after <- Remains
ImplementsConfigFile == Edits!Spec

\* When the user runs one command at a time, an `add` leaves no file that "the
\* next load rejects": what an append completed loads.  Three additions it makes
\* do not: a rule that `add` takes and no load does, a block behind an inline
\* array, and the byte too many of a file that was as long as it may be.
AddKeepsLoading ==
    [][\A p \in Procs :
          (/\ pc[p] = "append" /\ pc'[p] = "idle"
           /\ Published' = With(Published, rule[p])
           /\ rule[p] \notin Rejected /\ ~Published.inline /\ Size(Published) < MaxSize)
             => Loads(Published')]_storeVars

\* Each of several `add`s at once looks for room before the others have written,
\* so together they may pass MAX_ABBR_RULES: by no more than one rule for each
\* command but one, whatever else runs, is killed or loses power.
OverrunIsBounded ==
    Published # Absent =>
       Cardinality(Published.rules) + 1 <= MaxRules + Cardinality(Procs)

\* When one `remove` runs at a time (and any number of `add` and `init` with it),
\* the configuration is only ever replaced by a file that a `remove` has written
\* to the end and that is on disk, and a power loss leads back to what the name was
\* for an earlier file: no reader, and no power loss, finds a part of a rewrite.
RewritePublishesWhole ==
    [][path["config"] \notin {None, path'["config"]}
          => \/ path' = dir
             \/ \E p \in Procs : /\ pc[p] = "rename"
                                 /\ data[path'["config"]] = buf[p]
                                 /\ disk[path'["config"]] = buf[p]]_storeVars

\* A temporary file that a killed `remove` left never stops a later one.
StaleTmpNeverBlocks == \A p \in Procs : pc[p] = "create" => path["tmp"] = None

-----------------------------------------------------------------------------
\* Why the rewrite is whole when one `remove` runs at a time: the temporary file
\* is that one's alone until it is renamed.
RewritersAlone == \A p, q \in Procs : Rewriting(p) /\ Rewriting(q) => p = q

FilesOpen == \A p \in Procs : pc[p] \in {"append", "seed", "fill", "sync"} => fd[p] \in Inodes

TmpIsPrivate ==
    /\ path["tmp"] # None => path["tmp"] \notin {path["config"], dir["config"]}
    /\ dir["tmp"] # None => dir["tmp"] # dir["config"]
    /\ \A p \in Procs : pc[p] \in {"fill", "sync"} => fd[p] = path["tmp"]
    /\ \A p \in Procs : pc[p] \in {"append", "seed"} => fd[p] # path["tmp"]

TmpIsWritten ==
    \A p \in Procs :
       /\ pc[p] = "fill" => data[fd[p]].rules \subseteq Written(buf[p])
       /\ pc[p] = "sync" => data[fd[p]] = buf[p]
       /\ pc[p] = "rename" => /\ path["tmp"] \in Inodes
                              /\ data[path["tmp"]] = buf[p]
                              /\ disk[path["tmp"]] = buf[p]

\* With one `remove` at a time, atomically_write_config has its temporary file to
\* itself from create_new to rename, and knows what is on it.
RewriteInv ==
    TypeOK /\ RewritersAlone /\ FilesOpen /\ TmpIsPrivate /\ TmpIsWritten /\ StaleTmpNeverBlocks

\* Why several `add`s at once overrun the cap by so little: the blocks of the file a
\* name leads to, and those that the `add`s which found room have yet to append to it.
Owing(i) == { q \in Procs : \/ pc[q] = "append" /\ fd[q] = i
                            \/ pc[q] = "open_append" /\ path["config"] = i }
Fits(rules, adds) ==
    Cardinality(rules) + Cardinality(adds) + 1 <= MaxRules + Cardinality(Procs)

RoomIsShared ==
    \A i \in {path["config"], dir["config"]} \ {None} : Fits(data[i].rules, Owing(i))

\* What a `remove` writes is part of the file it replaces, whatever the `add`s did.
RewriteShrinks ==
    \A p \in Procs :
       pc[p] \in {"unlink", "create", "create_over", "fill", "sync", "rename"} =>
          path["config"] # None /\ buf[p].rules \subseteq data[path["config"]].rules

CountInv == RewriteInv /\ RewriteShrinks /\ RoomIsShared

\* Why every step is an edit of the present contents when one command runs at a
\* time: what the command read is still what the file holds.
CommandsAlone == \A p, q \in Procs : pc[p] # "idle" /\ pc[q] # "idle" => p = q

ReadIsCurrent ==
    \A p \in Procs :
       /\ pc[p] \in {"open_append", "append"} =>
             Published # Absent /\ Loads(Published) /\ HasRoom(Published)
       /\ pc[p] = "append" => fd[p] = path["config"]
       /\ pc[p] \in {"unlink", "create", "create_over", "fill", "sync", "rename"} =>
             /\ Published # Absent /\ Loads(Published) /\ Holds(Published, key[p])
             /\ buf[p] = Without(Published, key[p])
       /\ pc[p] = "reread" => Published # Absent /\ Loads(Published)
       /\ pc[p] = "seed" => fd[p] = path["config"]

\* With one command at a time, what append_abbr_to_file and remove_abbr_block read is
\* what the file holds until they change it.
SerialInv == RewriteInv /\ CommandsAlone /\ ReadIsCurrent
=============================================================================
