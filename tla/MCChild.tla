------------------------------- MODULE MCChild -------------------------------
\* The two readers of a child's output, AliasProbe and Clipboard, on small instances.
\* A run is one of the two: runex starts either in a process of its own.
EXTENDS AliasProbe, Clipboard

CONSTANTS gst, gco, ls, long, noise, a, w, bom, bad

UpTo(n, S) == UNION { [1..m -> S] : m \in 0..n }

\* Up to four lines of one, two or three names, one of them over the cap.
MCListings == UpTo(3, {gst, gco, ls, long, noise}) \cup UpTo(4, {gst, noise})

\* One byte, three bytes, the mark and a unit that does not decode.
MCClips == UpTo(2, {a, w, bom, bad}) \cup UpTo(4, {a})
MCNativeTexts == UpTo(3, {a, bad}) \cup UpTo(6, {a})
MCWidthOf == a :> 1 @@ w :> 3 @@ bom :> 3 @@ bad :> 1

MCChains == {<<"pbpaste">>, <<"wl-paste", "xclip">>, <<"xclip", "powershell.exe">>, <<>>}

vars == <<childVars, probeVars, pasteVars>>

Init == (ProbeInit /\ PasteIdle) \/ (PasteInit /\ ProbeIdle)

Next ==
    \/ at # "off" /\ ProbeNext /\ UNCHANGED pasteVars
    \/ doing # "off" /\ PasteNext /\ UNCHANGED probeVars

Fairness ==
    /\ WF_vars(ProbeStep /\ UNCHANGED pasteVars)
    /\ WF_vars(PasteStep /\ UNCHANGED probeVars)
    /\ WF_vars(TimePasses /\ UNCHANGED <<probeVars, pasteVars>>)

Spec == Init /\ [][Next]_vars /\ Fairness
=============================================================================
