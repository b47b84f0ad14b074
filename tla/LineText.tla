------------------------------- MODULE LineText -------------------------------
(***************************************************************************)
(* The text of a command line, as the trigger key looks at it: words,      *)
(* spaces, the operators after which a command begins, and `sudo`.  A      *)
(* position is a number of characters from the start; the word `sudo` is   *)
(* one character here, and so is each operator.                            *)
(***************************************************************************)
EXTENDS Integers, Sequences, SequencesExt

CONSTANTS
    Letters,    \* the characters words are made of
    Expansions, \* of each token that rules match, what they expand it to
    History,    \* the lines a user can bring back, an empty one with them
    MaxLine,    \* how long a line is typed (a bound of the model)
    None        \* no `{}` in an expansion, or no expansion

Symbols == Letters \cup {" ", "|", "sudo"}

\* An expansion is a text, and the place of its `{}` if it has one.
Expansion == [text : Seq(Symbols), mark : Nat \cup {None}]

ASSUME TextAssumption ==
    /\ Letters \cap {" ", "|", "sudo"} = {}
    /\ \A token \in DOMAIN Expansions :
          /\ token \in Seq(Letters) \ {<<>>}
          /\ Expansions[token] \subseteq Expansion
          /\ \A e \in Expansions[token] : e.mark # None => e.mark <= Len(e.text)
    /\ History \subseteq Seq(Symbols)
    /\ MaxLine \in Nat
    /\ None \notin Nat

From(text, i) == SubSeq(text, i + 1, Len(text))
UpTo(text, i) == SubSeq(text, 1, i)
Splice(text, i, piece) == UpTo(text, i) \o piece \o From(text, i)

\* Where the last word of a text starts, and the text without the blanks after it.
WordStart(text) == Max({0} \cup { i \in DOMAIN text : text[i] = " " })
Trim(text) == UpTo(text, Max({0} \cup { i \in DOMAIN text : text[i] # " " }))

\* is_command_position: at the start, after an operator, or after a `sudo` that is
\* itself at one of these places.
StartsCommand(text) == text = <<>> \/ Last(text) = "|"
IsCommandPosition(prefix) ==
    LET before == Trim(prefix)
        start == WordStart(before)
    IN \/ StartsCommand(before)
       \/ From(before, start) = <<"sudo">> /\ StartsCommand(Trim(UpTo(before, start)))

\* What the rules for a token may make of it; None when no rule fires.
Outcomes(token) == IF token \in DOMAIN Expansions THEN Expansions[token] \cup {None} ELSE {None}
=============================================================================
