---------------------------- MODULE ChildProcess ----------------------------
(***************************************************************************)
(* A command that runex starts with its standard output in a pipe: what    *)
(* infra/shell_alias.rs and infra/clipboard.rs find on the other side.     *)
(*                                                                         *)
(* The output is a sequence of units, written and read in order, so that   *)
(* two counters tell where they are: the pipe holds what was sent and has  *)
(* not been got yet.  A child that stops taking steps is one that hangs.   *)
(***************************************************************************)
EXTENDS Naturals, Sequences

CONSTANTS
    PipeSize,   \* the units a pipe holds
    Deadline    \* the ticks a caller means to wait

ASSUME ChildAssumption ==
    /\ PipeSize \in Nat \ {0}
    /\ Deadline \in Nat

\* What a child prints is a sequence of units.
IsText(t) == t \in Seq({ t[i] : i \in DOMAIN t })

VARIABLES
    child,      \* "none", "running", or how it ended
    text,       \* what it prints before it ends
    sent,       \* the units it has written
    got,        \* the units its caller has read
    holder,     \* a descendant keeps the pipe open after the child's end
    clock       \* the ticks since the caller took the time

childVars == <<child, text, sent, got, holder, clock>>

ChildStates == {"none", "running", "ok", "failed", "killed"}

NoChild ==
    /\ child = "none"
    /\ text = <<>>
    /\ sent = 0
    /\ got = 0
    /\ holder = FALSE
    /\ clock = 0

Exited == child \in {"ok", "failed"}

\* The read side sees data, or the end of it.
Readable == got < sent \/ (child # "running" /\ ~holder)

Spawned(t) ==
    /\ child' = "running"
    /\ text' = t
    /\ sent' = 0
    /\ got' = 0
    /\ holder' = FALSE
    /\ clock' = 0

ChildWrites ==
    /\ child = "running"
    /\ sent < Len(text)
    /\ sent - got < PipeSize
    /\ sent' = sent + 1
    /\ UNCHANGED <<child, text, got, holder, clock>>

\* It has written all that it will, and may leave a descendant behind.
ChildExits ==
    /\ child = "running"
    /\ sent = Len(text)
    /\ child' \in {"ok", "failed"}
    /\ holder' \in BOOLEAN
    /\ UNCHANGED <<text, sent, got, clock>>

HolderLetsGo ==
    /\ holder
    /\ holder' = FALSE
    /\ UNCHANGED <<child, text, sent, got, clock>>

TimePasses ==
    /\ clock < Deadline
    /\ clock' = clock + 1
    /\ UNCHANGED <<child, text, sent, got, holder>>

World == ChildWrites \/ ChildExits \/ HolderLetsGo \/ TimePasses
=============================================================================
