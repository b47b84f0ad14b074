-------------------------------- MODULE MCHook --------------------------------
\* Hook with a letter of two bytes and one outside the BMP (four bytes, two UTF-16
\* units): a token with two rules, one that expands to more characters and bytes and
\* one with its `{}` at the end; one with the `{}` inside; and one that keeps its
\* token's text and only moves the caret.
EXTENDS Hook

CONSTANTS u, w

MCWidth == [char |-> [c \in Symbols |-> IF c = "sudo" THEN 4 ELSE 1],
            byte |-> [c \in Symbols |-> CASE c = u -> 2 [] c \in {w, "sudo"} -> 4 [] OTHER -> 1],
            utf16 |-> [c \in Symbols |-> CASE c = w -> 2 [] c = "sudo" -> 4 [] OTHER -> 1]]

MCExpansions ==
    (<<u>> :> {[text |-> <<w, " ", u>>, mark |-> None], [text |-> <<w>>, mark |-> 1]})
      @@ (<<w>> :> {[text |-> <<w, u, u>>, mark |-> 2]})
      @@ (<<u, w>> :> {[text |-> <<u, w>>, mark |-> 1]})

MCHistory ==
    {<<>>, <<"|", " ", "sudo", " ", u>>, <<u, " ", "sudo", " ", w>>, <<w, "|", " ", u, w>>}
=============================================================================
