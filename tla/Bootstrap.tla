------------------------------ MODULE Bootstrap ------------------------------
(***************************************************************************)
(* What a shell has once it has read the integration: its key bindings, as *)
(* app/shell_export.rs writes them into the templates, and the two paths   *)
(* that are quoted into it.                                                *)
(***************************************************************************)
EXTENDS Validation, Quoting

CONSTANTS
    MaxBin,         \* MAX_BIN_LEN
    NonAscii        \* the characters beyond ASCII

Keys == {"space", "tab", "alt-space", "shift-space", "ctrl-v"}

ASSUME KeysAssumption == None \notin Keys

-----------------------------------------------------------------------------
\* trigger_for, self_insert_for, paste_intercept_for
Own(table, sh) == IF sh # "clink" /\ table[sh] # None THEN table[sh] ELSE table.default
TriggerFor(sh, kb) == Own(kb.trigger, sh)
SelfInsertFor(sh, kb) == IF sh = "clink" THEN None ELSE Own(kb.self_insert, sh)
PasteInterceptFor(sh, kb) == IF sh = "nu" THEN kb.paste.nu ELSE None

\* The chords that a template has no words for: unreachable!
ChordPanics(sh, key) == key = "ctrl-v" \/ (key = "shift-space" /\ sh # "nu")

\* bash_self_insert_lines, zsh_, pwsh_ and nu_self_insert_lines
CanSelfInsert(sh) == CASE sh \in {"bash", "zsh"} -> {"alt-space"}
                       [] sh \in {"pwsh", "nu"} -> {"alt-space", "shift-space"}
                       [] sh = "clink" -> {}

\* Mutant: the trigger is bound last.
BoundTriggerLast(sh, kb) ==
    [key \in Keys |->
        IF key = TriggerFor(sh, kb) THEN "expand"
        ELSE IF key = SelfInsertFor(sh, kb) /\ key \in CanSelfInsert(sh) THEN "insert"
        ELSE IF key = PasteInterceptFor(sh, kb) THEN "paste"
        ELSE "own"]

\* export_script: the keys are bound in this order, and a later binding of a key counts.
Bound(sh, kb) ==
    [key \in Keys |->
        IF key = SelfInsertFor(sh, kb) /\ key \in CanSelfInsert(sh) THEN "insert"
        ELSE IF key = TriggerFor(sh, kb) THEN "expand"
        ELSE IF key = PasteInterceptFor(sh, kb) THEN "paste"
        ELSE "own"]

\* doctor's check_keybind: a key that its shell leaves alone
CheckKeybind(kb) == \E sh \in {"bash", "zsh"} : Own(kb.self_insert, sh) = "shift-space"

\* validate_bin
ValidBin(bin) ==
    /\ \E i \in DOMAIN bin : bin[i] # " "
    /\ Len(bin) <= MaxBin
    /\ \A i \in DOMAIN bin : bin[i] \notin Unsafe \cup NonAscii
=============================================================================
