----------------------------- MODULE AliasProbe -----------------------------
(***************************************************************************)
(* doctor asks a shell for its aliases (infra/shell_alias.rs) and names    *)
(* the rules whose keys are aliases (app/shell_alias_conflicts.rs).  The   *)
(* shell is a child process that is not to be waited for for long: on      *)
(* Unix the pipe is polled until a deadline and the group killed then, on  *)
(* Windows the child is read to its end and waited for.                    *)
(*                                                                         *)
(* A unit of the child's output is one line: the name of the alias that it *)
(* defines, or Noise.                                                      *)
(***************************************************************************)
EXTENDS ChildProcess

CONSTANTS
    Listings,       \* what a shell may print: sequences of lines
    Noise,          \* a line that defines no alias
    LongNames,      \* the names over MAX_ALIAS_KEY_BYTES
    RuleKeys,       \* the keys of the rules of the configuration
    MaxOutput,      \* MAX_SUBPROCESS_OUTPUT_BYTES, in units
    MaxLines,       \* MAX_ALIAS_LINES
    Chunk,          \* the units that one read gets at most
    Platforms       \* a subset of {"unix", "windows"}

\* MAX_KEY_BYTES of a rule is MAX_ALIAS_KEY_BYTES.
ASSUME ProbeAssumption ==
    /\ \A t \in Listings : IsText(t)
    /\ MaxOutput \in Nat /\ MaxLines \in Nat /\ Chunk \in Nat \ {0}
    /\ RuleKeys \cap LongNames = {}
    /\ Noise \notin RuleKeys

VARIABLES
    platform,   \* which run_with_timeout was compiled
    at,         \* what run_with_timeout does next, "off" when it is not called
    answer,     \* its result: "some" bytes or "none"
    rows,       \* the rules that doctor warns about
    cut         \* the last read failed, which counts as the end of the output

probeVars == <<platform, at, answer, rows, cut>>

ProbeIdle == platform = "unix" /\ at = "off" /\ answer = "none" /\ rows = {} /\ cut = FALSE

ProbeInit ==
    /\ NoChild
    /\ platform \in Platforms
    /\ at = "which"
    /\ answer = "none"
    /\ rows = {}
    /\ cut = FALSE

-----------------------------------------------------------------------------
\* parse_bash_alias_lines and parse_pwsh_alias_lines
Parsed(lines) ==
    { lines[i] : i \in { j \in DOMAIN lines : j <= MaxLines } } \ ({Noise} \cup LongNames)

\* add_shell_alias_conflicts, for one shell
Conflicts(lines) == RuleKeys \cap Parsed(lines)

End ==
    /\ at' = "done"
    /\ UNCHANGED platform

NoAnswer == End /\ answer' = "none" /\ rows' = {} /\ UNCHANGED cut

Answer(lines) == End /\ answer' = "some" /\ rows' = Conflicts(lines)

Goto(step) == at' = step /\ UNCHANGED <<platform, answer, rows, cut>>

\* kill_process_group, without a wait
KillGroup ==
    /\ child' = IF child = "running" THEN "killed" ELSE child
    /\ holder' = FALSE
    /\ UNCHANGED <<text, sent, clock>>

\* What has been got after one more read, of a chunk or of all that is there.
AfterRead == IF got + Chunk < sent THEN got + Chunk ELSE sent

-----------------------------------------------------------------------------
\* which_in finds no shell, or it cannot be started.
ShellMissing ==
    /\ at = "which"
    /\ NoAnswer
    /\ UNCHANGED childVars

SpawnShell(t) ==
    /\ at = "which"
    /\ Spawned(t)
    /\ Goto(IF platform = "unix" THEN "check" ELSE "read")

\* Mutant: the time that remains may be none.
TimeRemainsOrNot ==
    /\ at = "check"
    /\ clock <= Deadline
    /\ Goto("poll")
    /\ UNCHANGED childVars

\* The head of the loop: what remains until the deadline.
TimeRemains ==
    /\ at = "check"
    /\ clock < Deadline
    /\ Goto("poll")
    /\ UNCHANGED childVars

OutOfTime ==
    /\ at = "check"
    /\ clock = Deadline
    /\ KillGroup
    /\ NoAnswer
    /\ UNCHANGED got

\* poll waits for data, for the end of the output or for the rest of the time.
PollReady ==
    /\ at = "poll"
    /\ Readable
    /\ Goto("drain")
    /\ UNCHANGED childVars

PollTimesOut ==
    /\ at = "poll"
    /\ ~Readable
    /\ clock = Deadline
    /\ Goto("wait")
    /\ UNCHANGED childVars

\* drain_readable reads until there is nothing now.
DrainChunk ==
    /\ at = "drain"
    /\ got < sent
    /\ AfterRead <= MaxOutput
    /\ got' = AfterRead
    /\ Goto("drain")
    /\ UNCHANGED <<child, text, sent, holder, clock>>

Drained ==
    /\ at = "drain"
    /\ got = sent
    /\ Goto("wait")
    /\ UNCHANGED childVars

\* A read that fails looks like nothing more to read.
DrainFails ==
    /\ at = "drain"
    /\ got < sent
    /\ Goto("wait")
    /\ UNCHANGED childVars

\* More output than is taken: the group is killed.
Overflow ==
    /\ at = "drain"
    /\ AfterRead > MaxOutput
    /\ got' = AfterRead
    /\ KillGroup
    /\ NoAnswer

\* try_wait
StillRunning ==
    /\ at = "wait"
    /\ child = "running"
    /\ Goto("check")
    /\ UNCHANGED childVars

\* Mutant: without the last read.
CollectWithoutRead ==
    /\ at = "wait"
    /\ Exited
    /\ IF got <= MaxOutput /\ child = "ok" THEN Answer(SubSeq(text, 1, got)) /\ UNCHANGED cut ELSE NoAnswer
    /\ UNCHANGED childVars

\* The child is gone; what it wrote since the last read is taken before the verdict, or as
\* much of it as there is before a read that fails.
Collect ==
    /\ at = "wait"
    /\ Exited
    /\ got' \in got .. sent
    /\ IF got' <= MaxOutput /\ child = "ok" THEN Answer(SubSeq(text, 1, got')) /\ cut' = (got' < sent) ELSE NoAnswer
    /\ UNCHANGED <<child, text, sent, holder, clock>>

WaitFails ==
    /\ at = "wait"
    /\ NoAnswer
    /\ UNCHANGED childVars

-----------------------------------------------------------------------------
\* Windows: read_to_end of one unit more than is taken, then wait.
ReadBlocking ==
    /\ at = "read"
    /\ got < sent
    /\ got <= MaxOutput
    /\ got' = got + 1
    /\ Goto("read")
    /\ UNCHANGED <<child, text, sent, holder, clock>>

ReadEnds ==
    /\ at = "read"
    /\ got > MaxOutput \/ (got = sent /\ Readable)
    /\ Goto("exit")
    /\ UNCHANGED childVars

\* The error of read_to_end is dropped.
ReadFails ==
    /\ at = "read"
    /\ at' = "exit" /\ cut' = TRUE
    /\ UNCHANGED <<childVars, platform, answer, rows>>

\* The read end is closed: a child that still writes fails, and wait returns.
BrokenPipe ==
    /\ at = "exit"
    /\ child = "running"
    /\ sent < Len(text)
    /\ child' = "failed"
    /\ UNCHANGED <<text, sent, got, holder, clock, probeVars>>

Waited ==
    /\ at = "exit"
    /\ Exited
    /\ IF got <= MaxOutput /\ child = "ok" THEN Answer(SubSeq(text, 1, got)) /\ UNCHANGED cut ELSE NoAnswer
    /\ UNCHANGED childVars

-----------------------------------------------------------------------------
ProbeStep ==
    \/ ShellMissing
    \/ \E t \in Listings : SpawnShell(t)
    \/ TimeRemains
    \/ OutOfTime
    \/ PollReady
    \/ PollTimesOut
    \/ DrainChunk
    \/ Drained
    \/ Overflow
    \/ StillRunning
    \/ Collect
    \/ ReadBlocking
    \/ ReadEnds
    \/ Waited

\* What the system may refuse, and need not.
ProbeFails == DrainFails \/ WaitFails \/ ReadFails

ProbeNext == ProbeStep \/ ProbeFails \/ BrokenPipe \/ (World /\ UNCHANGED probeVars)

-----------------------------------------------------------------------------
\* What doctor says of aliases is right or nothing: an answer is the whole output of
\* a shell that succeeded, and none of it is lost between the last read and the exit.
\* A read that fails is not told from the end of the output.
AnswerIsWhole ==
    at = "done" /\ answer = "some" =>
        child = "ok" /\ (cut \/ (Len(text) <= MaxOutput /\ rows = Conflicts(text)))

\* On Unix doctor gets on, whatever the shell and its descendants do or leave undone.
ProbeReturns == (at # "off" /\ platform = "unix") ~> at = "done"
=============================================================================
