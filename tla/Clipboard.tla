------------------------------ MODULE Clipboard ------------------------------
(***************************************************************************)
(* `runex paste-clipboard`: the text of the clipboard, which nu inserts    *)
(* for Ctrl+V (infra/clipboard.rs, cmd/paste_clipboard.rs).  On Unix a     *)
(* chain of commands is tried; each is waited for until its end or the     *)
(* deadline, and its output is read only then.  Windows has a call for it. *)
(*                                                                         *)
(* A unit of text is a character; WidthOf gives the bytes it takes.        *)
(***************************************************************************)
EXTENDS ChildProcess, FiniteSets, SequencesExt

CONSTANTS
    Clips,          \* what a provider may print: sequences of units
    Chains,         \* the chains of providers: Linux, WSL, macOS
    NativeTexts,    \* what the clipboard of Windows may hold
    WidthOf,        \* of each unit, its bytes in UTF-8
    Bom,            \* the byte order mark
    Bad,            \* a unit that is not valid
    MaxClip         \* MAX_CLIPBOARD_BYTES

ASSUME ClipAssumption ==
    /\ \A t \in Clips : IsText(t)
    /\ Cardinality({Bom, Bad}) = 2
    /\ MaxClip \in Nat

VARIABLES
    doing,      \* what the reader does next, "off" when there is none
    chain,      \* its providers
    nth,        \* the one it is at
    lastErr,    \* last_err of read_raw
    pasted,     \* the text it gives
    error       \* or why it gives none, "" when it does

pasteVars == <<doing, chain, nth, lastErr, pasted, error>>

PasteIdle ==
    doing = "off" /\ chain = <<>> /\ nth = 1 /\ lastErr = "NoProvider" /\ pasted = <<>> /\ error = ""

\* An empty chain is Windows, which reads its clipboard itself.
PasteInit ==
    /\ NoChild
    /\ doing = "next"
    /\ chain \in Chains
    /\ nth = 1
    /\ lastErr = "NoProvider"
    /\ pasted = <<>>
    /\ error = ""

Provider == chain[nth]

-----------------------------------------------------------------------------
Bytes(t) == FoldLeft(LAMBDA n, u : n + WidthOf[u], 0, t)

\* read_clipboard_text
Give(t) ==
    /\ doing' = "done"
    /\ pasted' = IF Bytes(t) > MaxClip THEN <<>> ELSE t
    /\ error' = IF Bytes(t) > MaxClip THEN "TooLarge" ELSE ""
    /\ UNCHANGED <<chain, nth, lastErr>>

GiveUp(why) ==
    /\ doing' = "done"
    /\ error' = why
    /\ UNCHANGED <<chain, nth, lastErr, pasted>>

\* NoProvider is not remembered, any other error is.
TryNext(why) ==
    /\ doing' = "next"
    /\ nth' = nth + 1
    /\ lastErr' = IF why = "NoProvider" THEN lastErr ELSE why
    /\ UNCHANGED <<chain, pasted, error>>

Decodes(t) == \A i \in DOMAIN t : t[i] # Bad

\* strip_bom, and the mark that decode takes off UTF-16
WithoutBom(t) == IF t # <<>> /\ Head(t) = Bom THEN Tail(t) ELSE t

-----------------------------------------------------------------------------
ProviderMissing ==
    /\ doing = "next"
    /\ nth <= Len(chain)
    /\ \E why \in {"NoProvider", "Io"} : TryNext(why)
    /\ UNCHANGED childVars

StartProvider(t) ==
    /\ doing = "next"
    /\ nth <= Len(chain)
    /\ Spawned(t)
    /\ doing' = "wait"
    /\ UNCHANGED <<chain, nth, lastErr, pasted, error>>

NoProviderLeft ==
    /\ doing = "next"
    /\ chain # <<>>
    /\ nth > Len(chain)
    /\ GiveUp(lastErr)
    /\ UNCHANGED childVars

\* Mutant: what the provider has said by then is taken.
KillProviderTakeRest ==
    /\ doing = "wait"
    /\ child = "running"
    /\ clock = Deadline
    /\ child' = "killed"
    /\ Give(SubSeq(text, 1, sent))
    /\ UNCHANGED <<text, sent, got, holder, clock>>

\* Mutant: no deadline.
KillProviderNever ==
    /\ doing = "wait"
    /\ clock > Deadline
    /\ TryNext("Timeout")
    /\ UNCHANGED childVars

\* try_wait finds it running past the deadline; before it, the loop sleeps.
KillProvider ==
    /\ doing = "wait"
    /\ child = "running"
    /\ clock = Deadline
    /\ child' = "killed"
    /\ TryNext("Timeout")
    /\ UNCHANGED <<text, sent, got, holder, clock>>

ProviderExited ==
    /\ doing = "wait"
    /\ Exited
    /\ doing' = "read"
    /\ UNCHANGED <<childVars, chain, nth, lastErr, pasted, error>>

\* try_wait, or wait_with_output, fails.
WaitErrs ==
    /\ doing \in {"wait", "read"}
    /\ TryNext("Io")
    /\ UNCHANGED childVars

\* wait_with_output reads to the end of the output, then the status and the text count.
ReadOutput ==
    /\ doing = "read"
    /\ ~holder
    /\ got' = sent
    /\ \/ child = "failed" /\ Provider = "wl-paste" /\ Give(<<>>)
       \/ child = "failed" /\ Provider # "wl-paste" /\ TryNext("Io")
       \/ child = "ok" /\ ~Decodes(text) /\ TryNext("Decode")
       \/ child = "ok" /\ Decodes(text) /\ Give(WithoutBom(SubSeq(text, 1, got')))
    /\ UNCHANGED <<child, text, sent, holder, clock>>

-----------------------------------------------------------------------------
\* OpenClipboard or GlobalLock fails, or there is no text.
NativeRefuses ==
    /\ doing = "next"
    /\ chain = <<>>
    /\ GiveUp("NoProvider") \/ GiveUp("Io") \/ Give(<<>>)
    /\ UNCHANGED childVars

\* The walk stops at the terminator or at half the cap; a unit takes two bytes there.
NativeText(t) ==
    /\ doing = "next"
    /\ chain = <<>>
    /\ LET walked == SubSeq(t, 1, IF Len(t) < MaxClip \div 2 THEN Len(t) ELSE MaxClip \div 2)
       IN  IF Decodes(walked) THEN Give(walked) ELSE GiveUp("Decode")
    /\ text' = t
    /\ UNCHANGED <<child, sent, got, holder, clock>>

-----------------------------------------------------------------------------
PasteStep ==
    \/ ProviderMissing
    \/ \E t \in Clips : StartProvider(t)
    \/ NoProviderLeft
    \/ KillProvider
    \/ ProviderExited
    \/ ReadOutput
    \/ NativeRefuses
    \/ \E t \in NativeTexts : NativeText(t)

PasteNext == PasteStep \/ WaitErrs \/ (World /\ UNCHANGED pasteVars)

\* cmd::paste_clipboard::handle
ExitCode == IF error = "" THEN 0 ELSE 1

-----------------------------------------------------------------------------
\* What nu inserts is the clipboard: all of what it holds, but for a byte order mark, or
\* nothing.  A half of it on the command line would be run as if it were the whole.
PasteIsWhole == doing = "done" /\ pasted # <<>> => pasted = WithoutBom(text)

\* On Unix it is.
PasteIsWholeOnUnix == chain # <<>> => PasteIsWhole

\* Ctrl+V comes back, although a provider that has more to say than its pipe holds is
\* never read while it runs: unless what a provider has left behind keeps the pipe open.
PasteReturns == []<>(doing \in {"off", "done"} \/ holder)

=============================================================================
