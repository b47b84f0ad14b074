------------------------------ MODULE MCLookup -------------------------------
\* CommandLookup on small instances, with and without a registry.
EXTENDS CommandLookup, TLC

CONSTANTS c, d

E(dir, bytes) == [dir |-> dir, capitals |-> FALSE, var |-> None, bytes |-> bytes, last |-> 1]
bin == E("bin", 2)
Bin == [bin EXCEPT !.capitals = TRUE]
tool == [E("tool", 4) EXCEPT !.last = 3]
byName == [E("%T%", 2) EXCEPT !.var = "T"]
unset == [E("%U%", 1) EXCEPT !.var = "U"]
empty == [E("", 0) EXCEPT !.last = 0]

MCEnvironment == "T" :> "tool" @@ "U" :> None
MCPaths == "short" :> <<bin>> @@ "long" :> <<bin, empty, Bin, tool>>

\* Too many bytes, with the cap within an entry, and of what is left an entry too many,
\* beside a value within the caps; the cap after a semicolon and before one; the cap within
\* a character of three bytes.
MCRegistry ==
    "capped" :> [user |-> <<bin, empty, empty, unset, tool>>, system |-> <<Bin, byName, unset>>]
        @@ "edge" :> [user |-> <<tool, bin, byName>>, system |-> <<tool, empty, bin, unset>>]
        @@ "split" :> [user |-> <<byName>>, system |-> <<bin, bin, tool>>]

MCBuiltins == "bash" :> {} @@ "pwsh" :> {c} @@ "clink" :> {c}
MCConfigs == {[asks |-> {c}, path_only |-> FALSE], [asks |-> {c}, path_only |-> TRUE],
              [asks |-> {c, d}, path_only |-> FALSE]}
=============================================================================
