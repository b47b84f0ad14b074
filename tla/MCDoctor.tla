------------------------------ MODULE MCDoctor -------------------------------
\* Doctor on small instances: one shell and the clink file at two places, each in every
\* state of its own while the other is as a fresh install leaves it.
EXTENDS Doctor

Fields == {"abr", "paste_intercept"}
MCConfigs ==
    {Seed, [Seed EXCEPT !.trigger = "tab"], [Seed EXCEPT !.trigger = "shift-space"],
     [Seed EXCEPT !.rejected = {"1", "3"}, !.fields = Fields], [Seed EXCEPT !.bound = FALSE, !.rejected = {"2"}],
     [Seed EXCEPT !.parses = FALSE]}

MCOrder == <<"bash">>
MCPlaces == <<"override", "local">>

Rcs == {None} \cup [kind : {"plain"}, lines : {{}, {"marker"}, {"marker", "source"}, {"marker", "legacy"}, {"marker", "source", "legacy"}, {"commented"}, {"marker", "lookalike"}}]
              \cup [kind : {"big", "huge", "link"}, lines : {{"marker", "source"}}]
Caches == {None, Link} \cup [version : {"none", "old"}, exe : {"/a"}] \cup [version : {"current"}, exe : {"/a", "runex", "/b"}]
Luas == {None, Link, [exe |-> "/a", trigger |-> "space"], [exe |-> "/b", trigger |-> "tab"]}

At(rc1, cache1, over, local, vars_) ==
    [rc |-> [sh \in Shells |-> rc1], cache |-> [sh \in Shells |-> cache1],
     lua |-> [p \in {"override", "local"} |-> IF p = "override" THEN over ELSE local], set |-> vars_]
Fresh == [version |-> "current", exe |-> "/a"]
Wired == [kind |-> "plain", lines |-> {"marker", "source"}]
MCFirst ==
    { At(r, c, None, None, {"local"}) : r \in Rcs, c \in Caches }
        \cup { At(Wired, Fresh, over, local, s) : over, local \in Luas, s \in {{}, {"local"}, {"override", "local"}} }
=============================================================================
