---------------------------- MODULE DoctorProofs -----------------------------
(***************************************************************************)
(* Theorems about doctor and the installers, for any shells, places,       *)
(* configurations and upgrades: what doctor reports of the rules, and what *)
(* cmd.exe finds where clink looks.                                        *)
(***************************************************************************)
EXTENDS Doctor, WellFoundedInduction, TLAPS

\* The file of a clink install is whole before it is moved, and so is every one in place.
LuaInv ==
    /\ exe \in Bins
    /\ config \in Configs \cup {Seed, None}
    /\ got \in Configs \cup {Seed, None}
    /\ made \in LuaType \cup {None}
    /\ pc = "rename" => tmp \in LuaType \cup {None}
    /\ lua \in [{ Places[i] : i \in DOMAIN Places } -> LuaType \cup {None, Link}]

\* What is rendered is rendered from a configuration.
LEMMA LuaTyped ==
    ASSUME NEW b \in Bins, NEW c \in Configs \cup {Seed, None}
    PROVE  Lua(b, c) \in LuaType
BY DoctorAssumption DEF Lua, LuaType, ConfigType, Seed

\* What a load sees of the configuration.
LEMMA LoadedTyped == LuaInv => Loaded \in Configs \cup {Seed, None}
BY DEF LuaInv, Loaded

\* At first no clink file is half written.
LEMMA LuaInvInit == Init => LuaInv
BY DoctorAssumption DEF Init, LuaInv

\* And no step leaves one.
LEMMA LuaInvNext == LuaInv /\ [Next]_vars => LuaInv'
<1> SUFFICES ASSUME LuaInv, [Next]_vars PROVE LuaInv'
    OBVIOUS
<1> USE DEF LuaInv, disk, Goto, Leave, End
<1>1. CASE StartDoctor \/ BuildEnvInfo
    BY <1>1, LuaTyped, LoadedTyped DEF StartDoctor, BuildEnvInfo
<1>2. CASE CheckConfig \/ CheckMarker \/ CheckCache \/ CheckClink \/ ReadSource
    BY <1>2 DEF CheckConfig, CheckMarker, CheckCache, CheckShell, CheckClink, ReadSource
<1>3. CASE InitShell
    BY <1>3 DEF InitShell, SeedConfig, WriteCache, AppendBlock
<1>4. CASE RenderLua \/ Probe
    BY <1>4, LuaTyped, LoadedTyped DEF RenderLua, Probe
<1>5. CASE CreateLua \/ FillLua \/ Installed
    BY <1>5 DEF CreateLua, FillLua, Installed
<1>6. CASE RenameLua
    BY <1>6 DEF RenameLua
<1>7. CASE LookAgain
    BY <1>7 DEF LookAgain
<1>8. ASSUME NEW r \in rows, Heed(r) PROVE LuaInv'
    BY <1>8 DEF Heed, AtPrompt, StartInit, StartInitClink, DeleteLegacy
<1>9. ASSUME NEW c \in Configs, EditConfig(c) PROVE LuaInv'
    BY <1>9 DEF EditConfig
<1>10. ASSUME NEW b \in Bins, Upgrade(b) PROVE LuaInv'
    BY <1>10 DEF Upgrade
<1>11. CASE Kill
    BY <1>11 DEF Kill
<1>12. CASE UNCHANGED vars
    BY <1>12 DEF vars
<1> QED
    BY <1>1, <1>2, <1>3, <1>4, <1>5, <1>6, <1>7, <1>8, <1>9, <1>10, <1>11, <1>12
       DEF Next, Run, Doctor, InitClink

\* Wherever an `init clink` was killed, and whatever it installs, cmd.exe loads the old file,
\* the new one or none, and never a part of one.
THEOREM LuaStaysWhole == Spec => []LuaIsWhole
<1>1. LuaInv => LuaIsWhole
    BY DoctorAssumption DEF LuaInv, LuaIsWhole
<1> QED
    BY <1>1, LuaInvInit, LuaInvNext, PTL DEF Spec

-----------------------------------------------------------------------------
Rejected == { r.of : r \in { x \in rows : x.row = "rejected" } }

\* No row names a rule until the source has been read; then they name what it rejects, as
\* long as nothing was changed.
ReportInv ==
    /\ pc \in {"markers", "caches", "clink", "source"} => Rejected = {}
    /\ pc = "report" /\ calm /\ config # None =>
          Rejected = (IF config.parses THEN config.rejected ELSE {})

\* The rows of the source are the last, and those of the rules are told by their kind.
LEMMA SourceNames ==
    ASSUME Rejected = {}, ReadSource, config # None
    PROVE  Rejected' = (IF config.parses THEN config.rejected ELSE {})
<1>1. PICK strict \in BOOLEAN : rows' = rows \cup RejectedRows \cup (IF strict THEN StrictRows ELSE {})
    BY DEF ReadSource
<1>2. \A x \in StrictRows : x.row # "rejected"
    BY DEF StrictRows, Row
<1>3. \A x \in rows : x.row # "rejected"
    BY DEF Rejected
<1>4. RejectedRows = IF config.parses THEN { Row("rejected", r, "warn") : r \in config.rejected } ELSE {}
    BY DEF RejectedRows
<1>5. { x \in rows' : x.row = "rejected" } = RejectedRows
    BY <1>1, <1>2, <1>3, <1>4 DEF Row
<1>6. Rejected' = { r.of : r \in RejectedRows }
    BY <1>5 DEF Rejected
<1>7. CASE config.parses
    <2>1. RejectedRows = { Row("rejected", r, "warn") : r \in config.rejected }
        BY <1>4, <1>7
    <2>2. \A r : Row("rejected", r, "warn").of = r
        BY DEF Row
    <2>3. \A r \in config.rejected : \E x \in RejectedRows : x.of = r
        BY <2>1, <2>2
    <2>4. \A x \in RejectedRows : x.of \in config.rejected
        BY <2>1, <2>2
    <2>5. { r.of : r \in RejectedRows } = config.rejected
        BY <2>3, <2>4
    <2> QED
        BY <1>6, <1>7, <2>5
<1>8. CASE ~config.parses
    BY <1>4, <1>6, <1>8
<1> QED
    BY <1>7, <1>8

\* A step keeps what the rows name.
LEMMA ReportInvNext == LuaInv /\ ReportInv /\ [Next]_vars => ReportInv'
<1> SUFFICES ASSUME LuaInv, ReportInv, [Next]_vars PROVE ReportInv'
    OBVIOUS
<1> USE DEF ReportInv, disk, Goto, Leave, End
<1>1. CASE StartDoctor \/ BuildEnvInfo
    BY <1>1 DEF StartDoctor, BuildEnvInfo
<1>2. CASE CheckConfig
    <2> DEFINE file == Row("config_file", "", IF config = None THEN "error" ELSE "ok")
               parse == Row("config_parse", "", IF got = None THEN "error" ELSE "ok")
    <2>0. file.row # "rejected" /\ parse.row # "rejected"
        BY DEF Row
    <2>1. pc' = "markers" /\ \A x \in rows' : x.row # "rejected"
        <3>1. pc' = "markers" /\ rows' = {file, parse}
            BY <1>2 DEF CheckConfig
        <3> HIDE DEF file, parse
        <3> QED
            BY <2>0, <3>1
    <2> QED
        BY <2>1 DEF Rejected
<1>3. CASE CheckMarker \/ CheckCache \/ CheckClink
    <2>1. Rejected = {} /\ pc' # "report"
        BY <1>3 DEF CheckMarker, CheckCache, CheckShell, CheckClink
    <2>2. \E kind \in {"integration", "cache"} : \E of, says : rows' = rows \cup {Row(kind, of, says)}
        BY <1>3 DEF CheckMarker, CheckCache, CheckShell, CheckClink
    <2>3. Rejected' = {}
        BY <2>1, <2>2 DEF Rejected, Row
    <2> QED
        BY <2>1, <2>3
<1>4. CASE ReadSource
    <2>1. Rejected = {} /\ pc' = "report" /\ config' = config
        BY <1>4 DEF ReadSource
    <2> QED
        BY <1>4, <2>1, SourceNames
<1>5. CASE InitShell \/ InitClink \/ LookAgain
    BY <1>5 DEF InitShell, SeedConfig, WriteCache, AppendBlock, InitClink, RenderLua, Probe, CreateLua, FillLua,
                RenameLua, Installed, LookAgain
<1>6. ASSUME NEW r \in rows, Heed(r) PROVE ReportInv'
    <2>1. pc' = pc => calm' = FALSE
        BY <1>6 DEF Heed, AtPrompt, StartInit, StartInitClink
    <2>2. pc' \in {pc, "seed", "render"} /\ pc \in {"report", "prompt"}
        BY <1>6 DEF Heed, AtPrompt, StartInit, StartInitClink
    <2> QED
        BY <2>1, <2>2
<1>7. ASSUME NEW c \in Configs, EditConfig(c) PROVE ReportInv'
    BY <1>7 DEF EditConfig, Change, Rejected
<1>8. ASSUME NEW b \in Bins, Upgrade(b) PROVE ReportInv'
    BY <1>8 DEF Upgrade, Change, Rejected
<1>9. CASE Kill
    BY <1>9 DEF Kill, Change
<1>10. CASE UNCHANGED vars
    BY <1>10 DEF vars, Rejected
<1> QED
    BY <1>1, <1>2, <1>3, <1>4, <1>5, <1>6, <1>7, <1>8, <1>9, <1>10 DEF Next, Run, Doctor

\* A report on a file that was left alone names the rules that validation refuses, all of
\* them and no other, whether the file loads or not, with --strict or without.
THEOREM RejectedRulesAreNamed == Spec => []RejectionsAreNamed
<1>1. Init => ReportInv
    BY DEF Init, ReportInv
<1>2. ReportInv => RejectionsAreNamed
    BY DEF ReportInv, RejectionsAreNamed, Rejected
<1> QED
    BY <1>1, <1>2, LuaInvInit, LuaInvNext, ReportInvNext, PTL DEF Spec
-----------------------------------------------------------------------------
\* While nothing else changes, an install writes what doctor would compare with, and
\* where it looks first.
Installing == {"probe", "create", "fill", "rename"}
SeenInv ==
    /\ pc \in Installing /\ calm => made = Lua(exe, Loaded)
    /\ pc \in {"create", "fill", "rename"} => Candidates # {}
    /\ pc = "rename" => tmp = made
    /\ ClinkInitIsSeen

\* A set of natural numbers that is not empty has a least element.
LEMMA Least ==
    ASSUME NEW T, T \subseteq Nat, T # {}
    PROVE  \E x \in T : \A y \in T : x <= y
<1> DEFINE R == {ss \in Nat \X Nat : ss[1] < ss[2]}
<1>1. IsWellFoundedOn(R, Nat)
  <2>1. IsWellFoundedOn(OpToRel(<, Nat), Nat)
    BY NatLessThanWellFounded
  <2>2. R = OpToRel(<, Nat)
    BY Zenon DEF OpToRel
  <2>3. QED
    BY <2>1, <2>2
<1>2. \E x \in T : \A y \in T : ~ (<<y, x>> \in R)
  <2> HIDE DEF R
  <2> QED BY <1>1, WFMin
<1>3. ASSUME NEW x \in T, NEW y \in T, ~ (<<y, x>> \in R) PROVE x <= y
  <2>1. x \in Nat /\ y \in Nat /\ (<<y, x>> \in R <=> y < x)
    OBVIOUS
  <2>2. QED
    BY <1>3, <2>1
<1>4. QED
  BY <1>2, <1>3

\* The first of the candidates.
LEMMA FirstCandidate ==
    ASSUME NEW S, S \subseteq DOMAIN Places, S # {}
    PROVE  Min(S) \in S /\ \A i \in S : Min(S) <= i
<1>1. S \subseteq Nat
    BY DoctorAssumption
<1>2. QED
    BY <1>1, Least DEF Min

\* The file that an install has put in its place is the first that doctor can read.
LEMMA InstalledIsSeen ==
    ASSUME NEW S, S \subseteq DOMAIN Places, S # {}, NEW T, T \subseteq S, Min(S) \in T
    PROVE  Min(T) = Min(S)
<1>1. Min(T) \in T /\ \A i \in T : Min(T) <= i
    BY FirstCandidate
<1>2. Min(S) \in S /\ \A i \in S : Min(S) <= i
    BY FirstCandidate
<1>3. Min(T) \in Nat /\ Min(S) \in Nat
    BY <1>1, <1>2, DoctorAssumption
<1>4. QED
    BY <1>1, <1>2, <1>3

\* A file renamed into the place that init chose is the one that doctor finds.
LEMMA RenamedIsSeen ==
    ASSUME LuaInv, Candidates # {}, NEW fresh \in LuaType,
           lua' = [lua EXCEPT ![InstallPlace] = fresh], UNCHANGED set
    PROVE  ClinkSays(fresh)' = "ok"
<1> DEFINE read == { i \in Candidates : lua'[Places[i]] \notin {None, Link} }
<1>1. Candidates \subseteq DOMAIN Places
    BY DEF Candidates
<1>2. Min(Candidates) \in Candidates
    BY <1>1, FirstCandidate
<1>3. lua'[InstallPlace] = fresh
    BY <1>1, <1>2 DEF LuaInv, InstallPlace
<1>4. Min(Candidates) \in read
    BY <1>2, <1>3, DoctorAssumption DEF InstallPlace
<1>5. Min(read) = Min(Candidates)
  <2>1. read \subseteq Candidates
    OBVIOUS
  <2> HIDE DEF read
  <2>2. QED
    BY <1>1, <1>4, <2>1, InstalledIsSeen
<1>6. lua'[Places[Min(read)]] = fresh /\ read # {}
    BY <1>3, <1>4, <1>5 DEF InstallPlace
<1>7. Candidates' = Candidates
    BY DEF Candidates
<1>8. QED
    BY <1>6, <1>7, Zenon DEF ClinkSays, Readable

\* At first nothing was installed.
LEMMA SeenInvInit == Init => SeenInv
BY DEF Init, SeenInv, Installing, ClinkInitIsSeen

\* Each step keeps that an install writes what doctor compares with.
LEMMA SeenInvNext == LuaInv /\ SeenInv /\ [Next]_vars => SeenInv'
<1> SUFFICES ASSUME LuaInv, SeenInv, [Next]_vars PROVE SeenInv'
    OBVIOUS
<1> DEFINE elsewhere == pc' \notin Installing \cup {"installed"}
<1>1. ASSUME elsewhere PROVE SeenInv'
    BY <1>1 DEF SeenInv, Installing, ClinkInitIsSeen
<1>2. CASE StartDoctor \/ BuildEnvInfo \/ CheckConfig \/ CheckMarker \/ CheckCache \/ CheckClink \/ ReadSource
    BY <1>1, <1>2 DEF StartDoctor, BuildEnvInfo, CheckConfig, CheckMarker, CheckCache, CheckShell, CheckClink, ReadSource,
                      Goto, Leave, End, Installing
<1>3. CASE InitShell \/ LookAgain \/ Installed \/ Kill
    BY <1>1, <1>3 DEF InitShell, SeedConfig, WriteCache, AppendBlock, LookAgain, Installed, Kill,
                      Goto, Leave, End, Installing
<1>4. CASE RenderLua
  <2>1. pc' = "probe" => made' = Lua(exe, Loaded)' /\ pc' \notin {"create", "fill", "rename"}
    BY <1>4 DEF RenderLua, Goto, End, Leave, disk, Lua, Loaded, Loads
  <2>2. pc' \in {"probe", "prompt"}
    BY <1>4 DEF RenderLua, Goto, End, Leave
  <2>3. QED
    BY <2>1, <2>2 DEF SeenInv, Installing, ClinkInitIsSeen
<1>5. CASE Probe
  <2>1. pc = "probe" /\ UNCHANGED <<disk, made, calm>>
    BY <1>5 DEF Probe
  <2>2. Lua(exe, Loaded)' = Lua(exe, Loaded) /\ Candidates' = Candidates
        /\ \A fresh : ClinkSays(fresh)' = ClinkSays(fresh)
    BY <2>1, Zenon DEF disk, Lua, Loaded, Loads, Candidates, ClinkSays, Readable
  <2>3. CASE pc' = "installed"
    <3>1. ClinkSays(made) = "ok"
      BY <1>5, <2>3 DEF Probe, Goto
    <3>2. calm => made = Lua(exe, Loaded)
      BY <2>1 DEF SeenInv, Installing
    <3>3. QED
      BY <2>1, <2>2, <2>3, <3>1, <3>2 DEF SeenInv, Installing, ClinkInitIsSeen
  <2>4. CASE pc' = "create"
    <3>1. Candidates # {}
      BY <1>5, <2>4 DEF Probe, Goto
    <3>2. QED
      BY <2>1, <2>2, <2>4, <3>1 DEF SeenInv, Installing, ClinkInitIsSeen
  <2>5. CASE pc' = "prompt"
    BY <1>1, <2>5 DEF Installing
  <2>6. QED
    BY <1>5, <2>3, <2>4, <2>5 DEF Probe, Goto
<1>6. CASE CreateLua \/ FillLua
  <2>1. /\ UNCHANGED <<config, lua, set, exe, made, calm>> /\ pc' \in {"fill", "rename"} /\ pc \in {"create", "fill"}
        /\ pc' = "rename" => tmp' = made
    BY <1>6 DEF CreateLua, FillLua, Goto
  <2>2. Lua(exe, Loaded)' = Lua(exe, Loaded) /\ Candidates' = Candidates
    BY <2>1 DEF Lua, Loaded, Loads, Candidates
  <2>3. QED
    BY <2>1, <2>2 DEF SeenInv, Installing, ClinkInitIsSeen
<1>7. CASE RenameLua
  <2>1. /\ pc = "rename" /\ pc' = "installed" /\ UNCHANGED <<config, set, exe, calm>>
        /\ lua' = [lua EXCEPT ![InstallPlace] = tmp]
    BY <1>7 DEF RenameLua, Goto
  <2>2. Lua(exe, Loaded)' = Lua(exe, Loaded)
    BY <2>1 DEF Lua, Loaded, Loads
  <2>3. ASSUME calm PROVE ClinkSays(Lua(exe, Loaded))' = "ok"
    <3>1. tmp = Lua(exe, Loaded) /\ Candidates # {}
      BY <2>1, <2>3 DEF SeenInv, Installing
    <3>2. Lua(exe, Loaded) \in LuaType
      BY LuaTyped, LoadedTyped DEF LuaInv
    <3>3. \A fresh \in LuaType : fresh = tmp => ClinkSays(fresh)' = "ok"
      BY <2>1, <3>1, RenamedIsSeen
    <3>4. QED
      BY <2>2, <3>1, <3>2, <3>3
  <2>4. QED
    BY <2>1, <2>3 DEF SeenInv, Installing, ClinkInitIsSeen
<1>8. ASSUME NEW r \in rows, Heed(r) PROVE SeenInv'
    BY <1>1, <1>8 DEF Heed, AtPrompt, StartInit, StartInitClink, Goto, Installing
<1>9. ASSUME NEW c \in Configs, EditConfig(c) PROVE SeenInv'
  <2>1. UNCHANGED <<lua, set, tmp, pc, made>> /\ calm' = FALSE
    BY <1>9 DEF EditConfig, Change
  <2>2. QED
    BY <2>1 DEF SeenInv, ClinkInitIsSeen, Candidates
<1>10. ASSUME NEW b \in Bins, Upgrade(b) PROVE SeenInv'
    BY <1>1, <1>10 DEF Upgrade, AtPrompt, Installing
<1>11. CASE UNCHANGED vars
  <2>1. UNCHANGED <<config, lua, set, exe, tmp, pc, made, calm>>
    BY <1>11 DEF vars, disk
  <2>2. Lua(exe, Loaded)' = Lua(exe, Loaded) /\ Candidates' = Candidates
        /\ ClinkSays(Lua(exe, Loaded))' = ClinkSays(Lua(exe, Loaded))
    BY <2>1, Zenon DEF Lua, Loaded, Loads, Candidates, ClinkSays, Readable
  <2>3. QED
    BY <2>1, <2>2 DEF SeenInv, ClinkInitIsSeen
<1> QED
    BY <1>2, <1>3, <1>4, <1>5, <1>6, <1>7, <1>8, <1>9, <1>10, <1>11 DEF Next, Run, Doctor, InitClink

\* An `init clink` that ends well leaves what doctor calls up to date, for any places and
\* whatever old files are at them.
THEOREM ClinkInstallIsSeen == Spec => []ClinkInitIsSeen
<1>1. SeenInv => ClinkInitIsSeen
    BY DEF SeenInv
<1> QED
    BY <1>1, LuaInvInit, LuaInvNext, SeenInvInit, SeenInvNext, PTL DEF Spec
=============================================================================
