------------------------------ MODULE TriggerKey ------------------------------
(***************************************************************************)
(* What the trigger key promises, in any shell: it inserts one space at    *)
(* the caret, or it puts an expansion where the token before the caret     *)
(* was and the caret where the expansion wants it; all other text stays.   *)
(***************************************************************************)
EXTENDS LineText

VARIABLES
    line,       \* the command line
    caret       \* where the caret is in it

lineVars == <<line, caret>>

Init == line = <<>> /\ caret = 0

\* Keys other than the trigger.
Type(c) == line' = Splice(line, caret, <<c>>) /\ caret' = caret + 1
Move == caret' \in 0 .. Len(line) /\ UNCHANGED line
Recall == line' \in History /\ caret' = Len(line')

\* The trigger: one space ...
Space == Type(" ")

\* ... or an expansion of the word that ends at the caret and that a command may be,
\* with a space after it unless its `{}` says where the caret goes.
Expand ==
    LET start == WordStart(UpTo(line, caret))
        token == From(UpTo(line, caret), start)
    IN /\ caret < Len(line) => line[caret + 1] = " "
       /\ IsCommandPosition(UpTo(line, start))
       /\ \E e \in Outcomes(token) \ {None} :
             LET after == IF e.mark = None THEN <<" ">> ELSE <<>> IN
             /\ line' = UpTo(line, start) \o e.text \o after \o From(line, caret)
             /\ caret' = start + IF e.mark = None THEN Len(e.text) + 1 ELSE e.mark

Next == (\E c \in Symbols : Type(c)) \/ Move \/ Recall \/ Space \/ Expand

Spec == Init /\ [][Next]_lineVars
=============================================================================
