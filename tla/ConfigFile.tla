----------------------------- MODULE ConfigFile -----------------------------
(***************************************************************************)
(* What `runex add`, `runex remove` and `runex init` promise about the     *)
(* configuration file: it changes by whole edits of its present contents,  *)
(* an edit keeps every block it does not name, and a power loss leaves     *)
(* either what the file is now, down to the part of it that is on disk, or *)
(* what the directory on disk still names: an earlier file, or none.  The  *)
(* file is a value here; how the commands write it, call by call, is       *)
(* ConfigStore.                                                            *)
(***************************************************************************)
EXTENDS ConfigContents

VARIABLES
    config,     \* the contents of the file, or Absent
    floor,      \* the part of the file that is on disk
    after       \* what a power loss may leave of the configuration

fileVars == <<config, floor, after>>

\* What a power loss may leave of a file whose name is on disk.
Left(d, c) == IF c = Absent THEN {Absent} ELSE Between(d, c)

Init ==
    /\ config = Absent \/ (config \in Content /\ Loads(config))
    /\ floor = config
    /\ after = {config}

\* The present file grows: on disk its name may still lead to an earlier one.
Grows == floor' = floor /\ after' \in {after, Left(floor, config')}

\* `runex init` makes the file with nothing in it, and then fills it.
Create ==
    /\ config = Absent
    /\ config' = Empty /\ floor' = Empty
    /\ UNCHANGED after

FillSeed ==
    /\ config # Absent
    /\ config' \in Between(config, Seed)
    /\ Grows

\* `runex add`: one block more, in a file that loads and has room for it ...
Add(r) ==
    /\ config # Absent /\ Loads(config) /\ HasRoom(config)
    /\ config' = With(config, r)
    /\ Grows

\* ... or a part of the block, when the write fails half way.
AddFails(r) ==
    /\ config # Absent /\ Loads(config) /\ HasRoom(config)
    /\ config' \in CutShort(config, r)
    /\ Grows

\* `runex remove`: the present blocks but those of one key, all of them on disk.
Remove(k) ==
    /\ config # Absent /\ Loads(config) /\ Holds(config, k)
    /\ config' = Without(config, k)
    /\ floor' = config'
    /\ UNCHANGED after

\* The kernel writes the directory: from now on the present file is what a power
\* loss leaves, and no earlier one.
WriteBack ==
    /\ after' = Left(floor, config)
    /\ UNCHANGED <<config, floor>>

PowerLoss ==
    /\ config' \in after
    /\ floor' = config' /\ after' = {config'}

Next ==
    \/ WriteBack \/ PowerLoss
    \/ Create \/ FillSeed
    \/ \E r \in Rules : Add(r) \/ AddFails(r)
    \/ \E k \in Keys : Remove(k)

Spec == Init /\ [][Next]_fileVars
=============================================================================
