-------------------------- MODULE IntegrationProofs ---------------------------
(***************************************************************************)
(* Theorems about Integration for any shells, any number of processes and  *)
(* any number of edits; in the second half, what holds when the user runs  *)
(* one command at a time and edits nothing meanwhile.                      *)
(***************************************************************************)
EXTENDS Integration, TLAPS

\* The shells of Order.
LEMMA ShellsTyped ==
    /\ Len(Order) \in Nat /\ DOMAIN Order = 1 .. Len(Order)
    /\ \A i \in 1 .. Len(Order) : Order[i] \in Shells
BY IntegrationAssumption DEF Shells

\* A process that has not gone past the last shell is at a shell.
LEMMA ShTyped ==
    ASSUME TypeOK, NEW p \in Procs, at[p] <= Len(Order)
    PROVE  Sh(p) \in Shells /\ at[p] \in 1 .. Len(Order) /\ at[p] + 1 \in 1 .. Len(Order) + 1
BY ShellsTyped DEF TypeOK, Sh

\* What a load returns is a configuration or nothing.
LEMMA LoadedTyped ==
    ASSUME TypeOK
    PROVE  Loaded \in Config \cup {None}
BY DEF TypeOK, Loaded

\* A changed configuration is one edit further.
LEMMA ChangedTyped ==
    ASSUME TypeOK, Loaded # None, MayChange
    PROVE  Changed \in Config /\ \A b \in BOOLEAN : [Changed EXCEPT !.loads = b] \in Config
<1>1. config \in Config /\ config.edit < MaxEdits
  BY DEF TypeOK, Loaded, MayChange
<1>2. config.edit + 1 \in 0 .. MaxEdits
  BY <1>1, IntegrationAssumption DEF Config
<1>3. QED
  BY <1>1, <1>2 DEF Changed, Config

\* Closing or writing the file a process has open keeps the file where it is.
LEMMA ClosedTyped ==
    ASSUME NEW f \in [Shells -> File \cup {None}], NEW p \in Procs
    PROVE  /\ Closed(f, p) \in [Shells -> File \cup {None}]
           /\ \A sh \in Shells : Closed(f, p)[sh] = None <=> f[sh] = None
<1>1. \A g \in File : [g EXCEPT !.by = None] \in File
  BY DEF File
<1>2. None \notin File
  BY IntegrationAssumption
<1>3. QED
  BY <1>1, <1>2 DEF Closed

\* A cache that is written in full stays a cache, and no other appears or goes.
LEMMA WrittenTyped ==
    ASSUME TypeOK, NEW f \in [Shells -> File \cup {None}], NEW p \in Procs
    PROVE  /\ Written(f, p) \in [Shells -> File \cup {None}]
           /\ \A sh \in Shells : Written(f, p)[sh] = None <=> f[sh] = None
<1>1. [by |-> None, body |-> got[p]] \in File
  BY DEF TypeOK, File, Bodies
<1>2. None \notin File
  BY IntegrationAssumption
<1>3. QED
  BY <1>1, <1>2 DEF Written

-----------------------------------------------------------------------------
\* The commands a user starts keep the types.
LEMMA CommandTypes ==
    ASSUME TypeOK, NEW p \in Procs,
           StartAdd(p) \/ StartRemove(p) \/ StartReload(p) \/ StartInit(p)
    PROVE  TypeOK'
<1>1. CASE StartAdd(p)
  <2>1. config' \in Config
    BY <1>1, ChangedTyped DEF StartAdd
  <2>2. QED
    BY <1>1, <2>1 DEF StartAdd, TypeOK, Goto, Commands, Steps
<1>2. CASE StartRemove(p)
  <2>1. config' \in Config
    BY <1>2, ChangedTyped DEF StartRemove
  <2>2. QED
    BY <1>2, <2>1 DEF StartRemove, TypeOK, Goto, Commands, Steps
<1>3. CASE StartReload(p)
  BY <1>3 DEF StartReload, files, TypeOK, Goto, Commands, Steps
<1>4. CASE StartInit(p)
  <2>1. config' \in Config \cup {None}
    <3>1. [edit |-> 0, loads |-> TRUE, shift |-> FALSE] \in Config
      BY IntegrationAssumption DEF Config
    <3>2. config' = config \/ config' = [edit |-> 0, loads |-> TRUE, shift |-> FALSE]
      BY <1>4 DEF StartInit
    <3>3. QED
      BY <3>1, <3>2 DEF TypeOK
  <2>2. at' \in [Procs -> 1 .. Len(Order) + 1]
    BY <1>4, ShellsTyped DEF StartInit, TypeOK
  <2>3. QED
    BY <1>4, <2>1, <2>2 DEF StartInit, TypeOK, Goto, Commands, Steps
<1>5. QED
  BY <1>1, <1>2, <1>3, <1>4

\* Reading the rc file, the prompt and the load keep the types.
LEMMA ReadingTypes ==
    ASSUME TypeOK, NEW p \in Procs, ReadRc(p) \/ Agree(p) \/ Load(p)
    PROVE  TypeOK'
<1>1. CASE ReadRc(p)
  <2>1. (rc[Sh(p)].readable /\ rc[Sh(p)].marker) \in BOOLEAN
    OBVIOUS
  <2>2. marked' \in [Procs -> BOOLEAN]
    BY <1>1, <2>1 DEF ReadRc, TypeOK
  <2>3. QED
    BY <1>1, <2>2 DEF ReadRc, files, TypeOK, Goto, Steps
<1>2. CASE Agree(p)
  BY <1>2 DEF Agree, files, TypeOK, Goto, Steps
<1>3. CASE Load(p)
  <2>1. got' \in [Procs -> Config \cup {None}]
    BY <1>3, LoadedTyped DEF Load, TypeOK
  <2>2. QED
    BY <1>3, <2>1 DEF Load, files, TypeOK, Goto, Exit, Steps
<1>4. QED
  BY <1>1, <1>2, <1>3

\* Going to the next shell records an outcome for this one.
LEMMA NextShellTypes ==
    ASSUME TypeOK, NEW p \in Procs, at[p] <= Len(Order),
           NEW o \in Outcomes, NextShell(p, o)
    PROVE  /\ report' \in [Procs -> [Shells -> Outcomes]]
           /\ at' \in [Procs -> 1 .. Len(Order) + 1]
           /\ pc' \in [Procs -> Steps]
BY ShTyped DEF NextShell, TypeOK, Goto, Steps

\* Leaving a shell out, making its script and ending the refresh keep the types.
LEMMA RefreshTypes ==
    ASSUME TypeOK, NEW p \in Procs, SkipShell(p) \/ Bake(p) \/ Finish(p)
    PROVE  TypeOK'
<1>1. CASE SkipShell(p)
  <2>1. /\ report' \in [Procs -> [Shells -> Outcomes]]
        /\ at' \in [Procs -> 1 .. Len(Order) + 1]
        /\ pc' \in [Procs -> Steps]
    BY <1>1, NextShellTypes DEF SkipShell, AtAShell, Outcomes
  <2>2. QED
    BY <1>1, <2>1 DEF SkipShell, files, TypeOK
<1>2. CASE Bake(p)
  BY <1>2 DEF Bake, files, TypeOK, Goto, Exit, Steps, WriteSteps
<1>3. CASE Finish(p)
  BY <1>3 DEF Finish, files, TypeOK, Goto, Exit, Steps
<1>4. QED
  BY <1>1, <1>2, <1>3

\* After a cache a refresh goes to the next shell and init to the rc file.
LEMMA AfterWriteTypes ==
    ASSUME TypeOK, NEW p \in Procs, at[p] <= Len(Order), AfterWrite(p)
    PROVE  /\ report' \in [Procs -> [Shells -> Outcomes]]
           /\ at' \in [Procs -> 1 .. Len(Order) + 1]
           /\ pc' \in [Procs -> Steps]
<1>1. CASE cmd[p] = "init"
  BY <1>1 DEF AfterWrite, TypeOK, Goto, Steps
<1>2. CASE cmd[p] # "init"
  BY <1>2, NextShellTypes DEF AfterWrite, Outcomes
<1>3. QED
  BY <1>1, <1>2

\* The calls of write_cache_file keep the types.
LEMMA WriteTypes ==
    ASSUME TypeOK, AtItsShell, NEW p \in Procs,
           UnlinkTmp(p) \/ CreateTmp(p) \/ Fill(p) \/ RenameTmp(p) \/ WriteFails(p)
    PROVE  TypeOK'
<1>1. pc[p] \in WriteSteps /\ at[p] <= Len(Order) /\ Sh(p) \in Shells
  BY ShTyped DEF AtItsShell, UnlinkTmp, CreateTmp, Fill, RenameTmp, WriteFails, WriteSteps
<1>2. CASE UnlinkTmp(p)
  BY <1>2 DEF UnlinkTmp, TypeOK, Goto, Steps, WriteSteps
<1>3. CASE CreateTmp(p)
  <2>1. [by |-> p, body |-> Part] \in File
    BY DEF File, Bodies
  <2>2. QED
    BY <1>3, <2>1 DEF CreateTmp, TypeOK, Goto, Steps, WriteSteps
<1>4. CASE Fill(p)
  <2>1. /\ tmp' \in [Shells -> File \cup {None}]
        /\ cache' \in [Shells -> File \cup {None}]
    BY <1>4, WrittenTyped DEF Fill, TypeOK
  <2>2. QED
    BY <1>4, <2>1 DEF Fill, TypeOK, Goto, Steps, WriteSteps
<1>5. CASE RenameTmp(p)
  <2>1. /\ tmp' \in [Shells -> File \cup {None}]
        /\ cache' \in [Shells -> File \cup {None}]
    BY <1>1, <1>5 DEF RenameTmp, TypeOK
  <2>2. QED
    BY <1>1, <1>5, <2>1, AfterWriteTypes DEF RenameTmp, TypeOK
<1>6. CASE WriteFails(p)
  <2>1. /\ tmp' \in [Shells -> File \cup {None}]
        /\ cache' \in [Shells -> File \cup {None}]
    BY <1>1, <1>6, ClosedTyped DEF WriteFails, TypeOK
  <2>2. /\ report' \in [Procs -> [Shells -> Outcomes]]
        /\ at' \in [Procs -> 1 .. Len(Order) + 1]
        /\ pc' \in [Procs -> Steps]
        /\ exit' \in [Procs -> {"none", "ok", "error", "panic"}]
    <3>1. CASE cmd[p] = "init"
      BY <1>6, <3>1 DEF WriteFails, Exit, Goto, TypeOK, Steps
    <3>2. CASE cmd[p] # "init"
      BY <1>1, <1>6, <3>2, NextShellTypes DEF WriteFails, TypeOK, Outcomes
    <3>3. QED
      BY <3>1, <3>2
  <2>3. QED
    BY <1>6, <2>1, <2>2 DEF WriteFails, TypeOK
<1>7. QED
  BY <1>2, <1>3, <1>4, <1>5, <1>6

\* Appending to the rc file, in full or cut short, keeps the types.
LEMMA AppendTypes ==
    ASSUME TypeOK, AtItsShell, NEW p \in Procs, AppendUnlessMarked(p) \/ AppendCutShort(p)
    PROVE  TypeOK'
<1>1. Sh(p) \in Shells
  BY ShTyped DEF AtItsShell, AppendUnlessMarked, AppendCutShort
<1>2. rc[Sh(p)] \in RcFile
  BY <1>1 DEF TypeOK
<1>3. CASE AppendUnlessMarked(p)
  <2>1. CASE marked[p]
    BY <1>3, <2>1 DEF AppendUnlessMarked, TypeOK, Exit, Goto, Steps
  <2>2. CASE ~marked[p]
    <3>1. rc[Sh(p)].blocks + 1 \in 0 .. MaxBlocks
      BY <1>2, <1>3, <2>2 DEF AppendUnlessMarked, RcFile, MaxBlocks
    <3>2. [rc[Sh(p)] EXCEPT !.marker = TRUE, !.blocks = rc[Sh(p)].blocks + 1] \in RcFile
      BY <1>2, <3>1 DEF RcFile
    <3>3. rc' = [rc EXCEPT ![Sh(p)] =
                    [rc[Sh(p)] EXCEPT !.marker = TRUE, !.blocks = rc[Sh(p)].blocks + 1]]
      BY <1>1, <1>2, <1>3, <2>2 DEF AppendUnlessMarked, TypeOK
    <3>4. rc' \in [Shells -> RcFile]
      BY <3>2, <3>3 DEF TypeOK
    <3>5. QED
      BY <1>3, <3>4 DEF AppendUnlessMarked, TypeOK, Exit, Goto, Steps
  <2>3. QED
    BY <2>1, <2>2
<1>4. CASE AppendCutShort(p)
  <2>1. [rc[Sh(p)] EXCEPT !.marker = TRUE] \in RcFile
    BY <1>2 DEF RcFile
  <2>2. rc' = rc \/ rc' = [rc EXCEPT ![Sh(p)] = [rc[Sh(p)] EXCEPT !.marker = TRUE]]
    BY <1>1, <1>4 DEF AppendCutShort, TypeOK
  <2>3. rc' \in [Shells -> RcFile]
    BY <2>1, <2>2 DEF TypeOK
  <2>4. QED
    BY <1>4, <2>3 DEF AppendCutShort, TypeOK, Exit, Goto, Steps
<1>5. QED
  BY <1>3, <1>4

\* A command that is killed keeps the types.
LEMMA GoneTypes ==
    ASSUME TypeOK, NEW p \in Procs, Gone(p)
    PROVE  TypeOK'
<1>1. /\ tmp' \in [Shells -> File \cup {None}]
      /\ cache' \in [Shells -> File \cup {None}]
  BY ClosedTyped DEF Gone, TypeOK
<1>2. 1 \in 1 .. Len(Order) + 1
  BY ShellsTyped
<1>3. QED
  BY <1>1, <1>2 DEF Gone, TypeOK, Goto, Steps, Commands, Outcomes

\* The user's edits of the configuration, the rc files and the caches keep the types.
LEMMA UserTypes ==
    ASSUME TypeOK, User
    PROVE  TypeOK'
<1>1. CASE HandEdit
  BY <1>1 DEF HandEdit, TypeOK, procVars
<1>2. ASSUME NEW sh \in Shells, DeleteLegacyLine(sh) PROVE TypeOK'
  <2>0. rc[sh] \in RcFile
    BY DEF TypeOK
  <2>1. [rc[sh] EXCEPT !.legacy = FALSE] \in RcFile
    BY <2>0 DEF RcFile
  <2>2. rc' = [rc EXCEPT ![sh] = [rc[sh] EXCEPT !.legacy = FALSE]]
    BY <1>2 DEF DeleteLegacyLine, TypeOK
  <2>3. QED
    BY <1>2, <2>1, <2>2 DEF DeleteLegacyLine, TypeOK, procVars
<1>3. ASSUME NEW sh \in Shells, DeleteBlocks(sh) PROVE TypeOK'
  <2>0. rc[sh] \in RcFile /\ 0 \in 0 .. MaxBlocks
    BY DEF TypeOK, MaxBlocks
  <2>1. [rc[sh] EXCEPT !.marker = FALSE, !.legacy = FALSE, !.blocks = 0] \in RcFile
    BY <2>0 DEF RcFile
  <2>2. rc' = [rc EXCEPT ![sh] = [rc[sh] EXCEPT !.marker = FALSE, !.legacy = FALSE, !.blocks = 0]]
    BY <1>3 DEF DeleteBlocks, TypeOK
  <2>3. QED
    BY <1>3, <2>1, <2>2 DEF DeleteBlocks, TypeOK, procVars
<1>4. ASSUME NEW sh \in Shells, DeleteCache(sh) PROVE TypeOK'
  BY <1>4 DEF DeleteCache, TypeOK, procVars
<1>5. QED
  BY <1>1, <1>2, <1>3, <1>4 DEF User

\* Every step keeps the types.
LEMMA NextTypes ==
    ASSUME TypeOK, AtItsShell, [Next]_integrationVars
    PROVE  TypeOK'
<1>1. ASSUME NEW p \in Procs, Step(p) PROVE TypeOK'
  BY <1>1, CommandTypes, ReadingTypes, RefreshTypes, WriteTypes, AppendTypes, GoneTypes DEF Step
<1>2. CASE UNCHANGED integrationVars
  BY <1>2 DEF TypeOK, integrationVars
<1>3. QED
  BY <1>1, <1>2, UserTypes DEF Next

-----------------------------------------------------------------------------
\* A process that takes no step stays where it is.
Stays(q) == pc'[q] = pc[q] /\ cmd'[q] = cmd[q] /\ at'[q] = at[q]

\* A step of one process leaves where another is alone.
LEMMA OthersStay ==
    ASSUME TypeOK, NEW p \in Procs, Step(p), NEW q \in Procs, q # p
    PROVE  Stays(q)
BY DEF Step, Stays, TypeOK, Goto, Exit, NextShell, AfterWrite, files, StartAdd, StartRemove,
       StartReload, StartInit, ReadRc, Agree, Load, SkipShell, Bake, UnlinkTmp, CreateTmp,
       Fill, RenameTmp, WriteFails, Finish, AppendUnlessMarked, AppendCutShort, Gone

\* The user moves no process.
LEMMA UserStays ==
    ASSUME User \/ UNCHANGED integrationVars, NEW q \in Procs
    PROVE  Stays(q)
BY DEF User, HandEdit, DeleteLegacyLine, DeleteBlocks, DeleteCache, procVars, integrationVars, Stays

\* Where a process is after a step of its own.
LEMMA StepAtItsShell ==
    ASSUME TypeOK, AtItsShell, NEW p \in Procs, Step(p)
    PROVE  /\ cmd'[p] = "init" \/ pc'[p] \in WriteSteps => at'[p] <= Len(Order)
           /\ pc'[p] \in {"read_rc", "ask", "append"} => cmd'[p] = "init"
           /\ pc'[p] = "append" => pc[p] = "append" \/ RenameTmp(p)
           /\ (pc'[p] \in WriteSteps /\ cmd'[p] # "init") =>
                 \/ pc[p] \in WriteSteps /\ cmd[p] # "init" /\ at'[p] = at[p]
                 \/ Bake(p) /\ cmd[p] # "init" /\ at'[p] = at[p]
<1> USE DEF TypeOK, Goto, Exit, WriteSteps
<1>1. CASE StartAdd(p) \/ StartRemove(p) \/ StartReload(p)
  BY <1>1 DEF StartAdd, StartRemove, StartReload
<1>2. CASE StartInit(p)
  BY <1>2, ShellsTyped DEF StartInit
<1>3. CASE ReadRc(p) \/ Agree(p) \/ Load(p)
  BY <1>3 DEF ReadRc, Agree, Load, AtItsShell
<1>4. CASE SkipShell(p) \/ Bake(p) \/ Finish(p)
  BY <1>4 DEF SkipShell, Bake, Finish, AtItsShell, AtAShell, NextShell
<1>5. CASE UnlinkTmp(p) \/ CreateTmp(p) \/ Fill(p)
  BY <1>5 DEF UnlinkTmp, CreateTmp, Fill, AtItsShell
<1>6. CASE RenameTmp(p)
  BY <1>6 DEF RenameTmp, AfterWrite, NextShell, AtItsShell
<1>7. CASE WriteFails(p)
  BY <1>7 DEF WriteFails, NextShell, AtItsShell
<1>8. CASE AppendUnlessMarked(p) \/ AppendCutShort(p)
  BY <1>8 DEF AppendUnlessMarked, AppendCutShort, AtItsShell
<1>9. CASE Gone(p)
  BY <1>9 DEF Gone
<1>10. QED
  BY <1>1, <1>2, <1>3, <1>4, <1>5, <1>6, <1>7, <1>8, <1>9 DEF Step

\* Every step keeps each process at the shell its command is for.
LEMMA NextAtItsShell ==
    ASSUME TypeOK, AtItsShell, [Next]_integrationVars
    PROVE  AtItsShell'
<1>1. ASSUME NEW p \in Procs, Step(p) PROVE AtItsShell'
  BY <1>1, StepAtItsShell, OthersStay DEF AtItsShell, Stays
<1>2. CASE User \/ UNCHANGED integrationVars
  BY <1>2, UserStays DEF AtItsShell, Stays
<1>3. QED
  BY <1>1, <1>2 DEF Next

\* No command takes a cache away.
LEMMA CachesStay ==
    ASSUME TypeOK, AtItsShell, NEW p \in Procs, Step(p), NEW sh \in Shells, cache[sh] # None
    PROVE  cache'[sh] # None
<1>1. CASE cache' = cache
  BY <1>1
<1>2. CASE Fill(p)
  BY <1>2, WrittenTyped DEF Fill, TypeOK
<1>3. CASE RenameTmp(p)
  BY <1>3 DEF RenameTmp, TypeOK
<1>4. CASE WriteFails(p) \/ Gone(p)
  BY <1>4, ClosedTyped, SMTT(60) DEF WriteFails, Gone, TypeOK
<1>5. QED
  BY <1>1, <1>2, <1>3, <1>4
     DEF Step, files, StartAdd, StartRemove, StartReload, StartInit, ReadRc, Agree, Load,
         SkipShell, Bake, UnlinkTmp, CreateTmp, Finish, AppendUnlessMarked, AppendCutShort

\* A cache is there once it was renamed into place.
LEMMA RenamePlaces ==
    ASSUME TypeOK, AtItsShell, NEW p \in Procs, RenameTmp(p)
    PROVE  cache'[Sh(p)] # None
<1>1. Sh(p) \in Shells
  BY ShTyped DEF AtItsShell, RenameTmp, WriteSteps
<1>2. QED
  BY <1>1 DEF RenameTmp, TypeOK

\* Every step keeps a cache there for the process that is to name it or refresh it.
LEMMA NextCacheIsKept ==
    ASSUME InstallInv, [Next]_integrationVars
    PROVE  CacheIsKept'
<1> USE DEF InstallInv
<1>1. ASSUME NEW p \in Procs, Step(p) PROVE CacheIsKept'
  <2> SUFFICES ASSUME NEW q \in Procs,
                      pc'[q] = "append" \/ (pc'[q] \in WriteSteps /\ cmd'[q] # "init")
               PROVE  cache'[Order[at'[q]]] # None
    BY DEF CacheIsKept, Sh
  <2>1. CASE q # p
    <3>1. Stays(q)
      BY <1>1, <2>1, OthersStay
    <3>2. cache[Sh(q)] # None /\ Sh(q) \in Shells
      BY <3>1, ShTyped DEF CacheIsKept, AtItsShell, Stays
    <3>3. QED
      BY <1>1, <3>1, <3>2, CachesStay DEF Stays, Sh
  <2>2. CASE q = p /\ RenameTmp(p) /\ pc'[q] = "append"
    <3>1. at' = at
      BY <2>2 DEF RenameTmp, AfterWrite, NextShell, Goto, TypeOK
    <3>2. QED
      BY <2>2, <3>1, RenamePlaces DEF Sh
  <2>3. CASE q = p /\ pc[p] = "append" /\ pc'[q] = "append"
    BY <1>1, <2>3 DEF Step, TypeOK, Goto, Exit, NextShell, AfterWrite, StartAdd, StartRemove,
       StartReload, StartInit, MayStart, ReadRc, Agree, Load, SkipShell, AtAShell, Bake, UnlinkTmp,
       CreateTmp, Fill, RenameTmp, WriteFails, WriteSteps, Finish, AppendUnlessMarked,
       AppendCutShort, Gone
  <2>4. CASE q = p /\ pc'[q] \in WriteSteps /\ cmd'[q] # "init"
    <3>1. at'[p] = at[p] /\ cache[Sh(p)] # None /\ Sh(p) \in Shells
      BY <1>1, <2>4, StepAtItsShell, ShTyped DEF CacheIsKept, AtItsShell, Bake, AtAShell
    <3>2. QED
      BY <1>1, <2>4, <3>1, CachesStay DEF Sh
  <2>5. QED
    BY <1>1, <2>1, <2>2, <2>3, <2>4, StepAtItsShell
<1>2. CASE UNCHANGED integrationVars
  BY <1>2 DEF CacheIsKept, Sh, integrationVars
<1>3. CASE HandEdit \/ \E sh \in Shells : DeleteLegacyLine(sh) \/ DeleteBlocks(sh)
  BY <1>3 DEF HandEdit, DeleteLegacyLine, DeleteBlocks, procVars, CacheIsKept, Sh
<1>4. CASE \E sh \in Shells : DeleteCache(sh)
  BY <1>4 DEF DeleteCache, Idle, procVars, CacheIsKept, WriteSteps
<1>5. QED
  BY <1>1, <1>2, <1>3, <1>4 DEF Next, User

\* Every step keeps a cache behind each block that sources one.
LEMMA NextSourced ==
    ASSUME InstallInv, [Next]_integrationVars
    PROVE  SourcedCacheIsThere'
<1> USE DEF InstallInv
<1> SUFFICES ASSUME NEW sh \in Shells, rc'[sh].blocks > 0 PROVE cache'[sh] # None
  BY DEF SourcedCacheIsThere
<1>0. rc[sh] \in RcFile
  BY DEF TypeOK
<1>1. ASSUME NEW p \in Procs, Step(p) PROVE cache'[sh] # None
  <2>1. CASE rc'[sh].blocks = rc[sh].blocks
    BY <1>1, <2>1, CachesStay DEF SourcedCacheIsThere
  <2>2. CASE AppendUnlessMarked(p) /\ Sh(p) = sh
    BY <2>2 DEF AppendUnlessMarked, CacheIsKept
  <2>3. CASE AppendUnlessMarked(p) /\ Sh(p) # sh
    <3>1. rc'[sh] = rc[sh]
      BY <2>3 DEF AppendUnlessMarked, TypeOK
    <3>2. QED
      BY <2>1, <3>1
  <2>4. CASE AppendCutShort(p)
    <3>1. [rc[sh] EXCEPT !.marker = TRUE].blocks = rc[sh].blocks
      BY <1>0 DEF RcFile
    <3>2. rc'[sh] = rc[sh] \/ rc'[sh] = [rc[sh] EXCEPT !.marker = TRUE]
      BY <2>4 DEF AppendCutShort, TypeOK
    <3>3. QED
      BY <2>1, <3>1, <3>2
  <2>5. CASE rc' = rc
    BY <2>1, <2>5
  <2>6. QED
    BY <1>1, <2>2, <2>3, <2>4, <2>5
       DEF Step, files, StartAdd, StartRemove, StartReload, StartInit, ReadRc, Agree, Load,
           SkipShell, Bake, UnlinkTmp, CreateTmp, Fill, RenameTmp, WriteFails, Finish, Gone
<1>2. CASE UNCHANGED integrationVars
  BY <1>2 DEF SourcedCacheIsThere, integrationVars
<1>3. CASE HandEdit
  BY <1>3 DEF HandEdit, SourcedCacheIsThere
<1>4. ASSUME NEW s \in Shells, DeleteLegacyLine(s) \/ DeleteBlocks(s) PROVE cache'[sh] # None
  <2>0. /\ [rc[sh] EXCEPT !.legacy = FALSE].blocks = rc[sh].blocks
        /\ [rc[sh] EXCEPT !.marker = FALSE, !.legacy = FALSE, !.blocks = 0].blocks = 0
    BY <1>0 DEF RcFile
  <2>1. rc'[sh].blocks = rc[sh].blocks \/ rc'[sh].blocks = 0
    <3>1. CASE DeleteLegacyLine(s)
      BY <2>0, <3>1 DEF DeleteLegacyLine, TypeOK
    <3>2. CASE DeleteBlocks(s)
      <4>1. \/ rc'[sh] = rc[sh]
            \/ rc'[sh] = [rc[sh] EXCEPT !.marker = FALSE, !.legacy = FALSE, !.blocks = 0]
        BY <3>2 DEF DeleteBlocks, TypeOK
      <4>2. QED
        BY <2>0, <4>1
    <3>3. QED
      BY <1>4, <3>1, <3>2
  <2>2. rc[sh].blocks > 0 /\ cache' = cache
    BY <1>4, <2>1 DEF DeleteLegacyLine, DeleteBlocks
  <2>3. QED
    BY <2>2 DEF SourcedCacheIsThere
<1>5. ASSUME NEW s \in Shells, DeleteCache(s) PROVE cache'[sh] # None
  BY <1>0, <1>5 DEF DeleteCache, SourcedCacheIsThere, TypeOK, RcFile
<1>6. QED
  BY <1>1, <1>2, <1>3, <1>4, <1>5 DEF Next, User

\* At the start no command runs and no rc file sources a cache.
LEMMA InitInstallInv == Init => InstallInv
<1> SUFFICES ASSUME Init PROVE InstallInv
  OBVIOUS
<1>1. TypeOK
  <2>1. NewRc \in RcFile
    BY DEF NewRc, RcFile, MaxBlocks
  <2>2. /\ [NewRc EXCEPT !.readable = FALSE] \in RcFile
        /\ [NewRc EXCEPT !.marker = TRUE, !.legacy = TRUE] \in RcFile
    BY <2>1 DEF RcFile
  <2>3. rc \in [Shells -> RcFile]
    BY <2>1, <2>2 DEF Init
  <2>4. 1 \in 1 .. Len(Order) + 1
    BY ShellsTyped
  <2>5. QED
    BY <2>3, <2>4 DEF Init, TypeOK, Commands, Steps, Outcomes
<1>2. AtItsShell /\ CacheIsKept
  BY DEF Init, AtItsShell, CacheIsKept, WriteSteps
<1>3. SourcedCacheIsThere
  <2>1. /\ NewRc.blocks = 0
        /\ [NewRc EXCEPT !.readable = FALSE].blocks = 0
        /\ [NewRc EXCEPT !.marker = TRUE, !.legacy = TRUE].blocks = 0
    BY DEF NewRc
  <2>2. \A sh \in Shells : rc[sh].blocks = 0
    BY <2>1 DEF Init
  <2>3. QED
    BY <2>2 DEF SourcedCacheIsThere
<1>4. QED
  BY <1>1, <1>2, <1>3 DEF InstallInv

\* The types, and where the caches are that a process or an rc file relies on,
\* whatever runs at once and wherever it is killed.
THEOREM InstallInvariant == Spec => []InstallInv
<1>1. InstallInv /\ [Next]_integrationVars => InstallInv'
  BY NextTypes, NextAtItsShell, NextCacheIsKept, NextSourced DEF InstallInv
<1>2. QED
  BY <1>1, InitInstallInv, PTL DEF Spec

\* A block that `init` added to an rc file sources a cache that is there.
THEOREM SourcedCache == Spec => []SourcedCacheIsThere
<1>1. InstallInv => SourcedCacheIsThere
  BY DEF InstallInv
<1>2. QED
  BY <1>1, InstallInvariant, PTL

\* Only `runex init` makes a cache where there was none.
THEOREM RefreshMakesNone == Spec => OnlyInitInstalls
<1>1. InstallInv /\ [Next]_integrationVars =>
         [\A sh \in Shells : (cache[sh] = None /\ cache'[sh] # None) =>
             \E p \in Procs : cmd[p] = "init" /\ Sh(p) = sh]_integrationVars
  <2> SUFFICES ASSUME InstallInv, Next, NEW sh \in Shells, cache[sh] = None, cache'[sh] # None
               PROVE  \E p \in Procs : cmd[p] = "init" /\ Sh(p) = sh
    OBVIOUS
  <2> USE DEF InstallInv
  <2>1. ~User
    BY DEF User, HandEdit, DeleteLegacyLine, DeleteBlocks, DeleteCache, TypeOK
  <2>2. PICK p \in Procs : Step(p)
    BY <2>1 DEF Next
  <2>3. ~Fill(p) /\ ~WriteFails(p) /\ ~Gone(p)
    <3>1. cache \in [Shells -> File \cup {None}]
      BY DEF TypeOK
    <3>2. Written(cache, p)[sh] = None /\ Closed(cache, p)[sh] = None
      BY <3>1, WrittenTyped, ClosedTyped
    <3>3. QED
      BY <3>2 DEF Fill, WriteFails, Gone
  <2>4. RenameTmp(p)
    BY <2>2, <2>3
       DEF Step, files, StartAdd, StartRemove, StartReload, StartInit, ReadRc, Agree, Load,
           SkipShell, Bake, UnlinkTmp, CreateTmp, Finish, AppendUnlessMarked, AppendCutShort
  <2>5. Sh(p) = sh /\ pc[p] = "rename"
    BY <2>4 DEF RenameTmp, TypeOK
  <2>6. cmd[p] = "init"
    BY <2>5 DEF CacheIsKept, WriteSteps
  <2>7. QED
    BY <2>5, <2>6
<1>2. QED
  BY <1>1, InstallInvariant, PTL DEF Spec, OnlyInitInstalls

-----------------------------------------------------------------------------
\* One command at a time: at most one process is not idle.  So what it loaded stays the
\* configuration there is, the temporary file it writes stays its own, and what it saw in
\* the rc file stays true until it appends.  Without the discipline each of the three
\* fails, as TLC shows.

Alone == \A p, q \in Procs : pc[p] # "idle" /\ pc[q] # "idle" => p = q

\* A cache is never open, nor half written.
Whole == \A sh \in Shells : cache[sh] # None => cache[sh].by = None /\ cache[sh].body # Part

\* A block that runex can see is behind a marker, and it is the only one.
RcOnce ==
    \A sh \in Shells :
        rc[sh].readable => rc[sh].blocks <= 1 /\ (rc[sh].marker \/ rc[sh].blocks = 0)

Refreshing == {"stat"} \cup WriteSteps

\* Where a process begins and ends.
Bounded(p) ==
    /\ pc[p] = "idle" \/ (pc[p] = "load" /\ cmd[p] # "init") => at[p] = 1
    /\ exit[p] # "none" => pc[p] = "done"

\* What it loaded is still what there is.
Current(p) ==
    pc[p] \in Refreshing => got[p] = Loaded /\ (cmd[p] = "reload" => Loaded # None)

\* The temporary file is its own.
Owns(p) ==
    /\ pc[p] = "fill" => tmp[Sh(p)] = [by |-> p, body |-> Part]
    /\ pc[p] = "rename" => tmp[Sh(p)] = [by |-> None, body |-> got[p]]

\* Each shell behind it is as its report says.
Told(p, sh) ==
    \/ report[p][sh] = "refreshed" /\ BodyIs(sh, Loaded)
    \/ report[p][sh] = "not_installed" /\ cache[sh] = None
    \/ report[p][sh] = "failed"
Visiting(p) ==
    cmd[p] # "init" =>
        /\ pc[p] \in Refreshing \/ exit[p] = "ok" => \A i \in 1 .. at[p] - 1 : Told(p, Order[i])
        /\ exit[p] = "ok" => at[p] > Len(Order)
        /\ exit[p] = "ok" /\ cmd[p] = "reload" => \A sh \in Shells : report[p][sh] # "failed"

\* What `init` saw in the rc file is still there.
Saw(p) ==
    cmd[p] = "init" /\ pc[p] \in Refreshing \cup {"ask", "load", "append"} =>
        (rc[Sh(p)].readable /\ rc[Sh(p)].marker => marked[p])

AtWork(p) == Bounded(p) /\ Current(p) /\ Owns(p) /\ Visiting(p) /\ Saw(p)

SerialInv == InstallInv /\ Alone /\ Whole /\ RcOnce /\ \A p \in Procs : AtWork(p)

-----------------------------------------------------------------------------
\* A process that takes a step is the only one that is not idle, if not the first.
LEMMA OthersIdle ==
    ASSUME Discipline = "serial", SerialInv, NEW p \in Procs, Step(p), NEW q \in Procs, q # p
    PROVE  pc[q] = "idle" /\ pc'[q] = "idle"
<1>1. pc'[q] = pc[q]
  BY OthersStay DEF SerialInv, InstallInv, Stays
<1>2. CASE pc[p] = "idle"
  BY <1>1, <1>2 DEF Step, StartAdd, StartRemove, StartReload, StartInit, MayStart, Idle, ReadRc, Agree,
     Load, SkipShell, AtAShell, Bake, UnlinkTmp, CreateTmp, Fill, RenameTmp, WriteFails, WriteSteps,
     Finish, AppendUnlessMarked, AppendCutShort, Gone
<1>3. CASE pc[p] # "idle"
  BY <1>1, <1>3 DEF SerialInv, Alone
<1>4. QED
  BY <1>2, <1>3

\* The user edits only between two commands.
LEMMA UserIsAlone ==
    ASSUME Discipline = "serial", User
    PROVE  (\A p \in Procs : pc[p] = "idle") /\ UNCHANGED procVars
BY DEF User, HandEdit, DeleteLegacyLine, DeleteBlocks, DeleteCache, UserMayEdit, Idle, procVars

\* The ends of a process of its own step do not touch a file that is closed.
LEMMA CachesAreClosed ==
    ASSUME TypeOK, Whole, NEW p \in Procs
    PROVE  Closed(cache, p) = cache /\ Written(cache, p) = cache
<1>1. \A sh \in Shells : cache[sh] # None => cache[sh].by # p
  BY IntegrationAssumption DEF Whole
<1>2. cache \in [Shells -> File \cup {None}]
  BY DEF TypeOK
<1>3. QED
  BY <1>1, <1>2 DEF Closed, Written

\* One step of the refresh changes the cache of its shell, and no other.
LEMMA CacheChanges ==
    ASSUME SerialInv, NEW p \in Procs, Step(p)
    PROVE  \/ cache' = cache
           \/ /\ RenameTmp(p) /\ Sh(p) \in Shells
              /\ cache' = [cache EXCEPT ![Sh(p)] = [by |-> None, body |-> got[p]]]
<1>1. CASE RenameTmp(p)
  BY <1>1, ShTyped DEF RenameTmp, SerialInv, InstallInv, AtItsShell, WriteSteps, AtWork, Owns
<1>2. CASE Fill(p) \/ WriteFails(p) \/ Gone(p)
  BY <1>2, CachesAreClosed DEF Fill, WriteFails, Gone, SerialInv, InstallInv
<1>3. QED
  BY <1>1, <1>2
     DEF Step, files, StartAdd, StartRemove, StartReload, StartInit, ReadRc, Agree, Load,
         SkipShell, Bake, UnlinkTmp, CreateTmp, Finish, AppendUnlessMarked, AppendCutShort

\* Only a command that starts changes the configuration.
LEMMA ConfigStays ==
    ASSUME NEW p \in Procs, Step(p), pc[p] # "idle"
    PROVE  config' = config /\ Loaded' = Loaded
BY DEF Step, files, StartAdd, StartRemove, StartReload, StartInit, MayStart, ReadRc, Agree, Load, SkipShell,
       Bake, UnlinkTmp, CreateTmp, Fill, RenameTmp, WriteFails, Finish, AppendUnlessMarked, AppendCutShort,
       Gone, Loaded

-----------------------------------------------------------------------------
\* A step of its own keeps each part of what a process relies on.
LEMMA StepBounded ==
    ASSUME SerialInv, NEW p \in Procs, Step(p)
    PROVE  Bounded(p)'
<1> USE DEF SerialInv, InstallInv, TypeOK, AtWork, Bounded, Goto, Exit
<1>1. CASE StartAdd(p) \/ StartRemove(p) \/ StartReload(p) \/ StartInit(p)
  BY <1>1 DEF StartAdd, StartRemove, StartReload, StartInit, MayStart
<1>2. CASE ReadRc(p) \/ Agree(p) \/ Load(p)
  BY <1>2 DEF ReadRc, Agree, Load, AtItsShell
<1>3. CASE SkipShell(p) \/ Bake(p) \/ Finish(p)
  BY <1>3 DEF SkipShell, Bake, Finish, AtAShell, NextShell
<1>4. CASE UnlinkTmp(p) \/ CreateTmp(p) \/ Fill(p) \/ RenameTmp(p) \/ WriteFails(p)
  BY <1>4 DEF UnlinkTmp, CreateTmp, Fill, RenameTmp, AfterWrite, WriteFails, WriteSteps, NextShell
<1>5. CASE AppendUnlessMarked(p) \/ AppendCutShort(p) \/ Gone(p)
  BY <1>5 DEF AppendUnlessMarked, AppendCutShort, Gone
<1>6. QED
  BY <1>1, <1>2, <1>3, <1>4, <1>5 DEF Step

\* A step keeps: what a command has loaded is what there is.
LEMMA StepCurrent ==
    ASSUME SerialInv, NEW p \in Procs, Step(p)
    PROVE  Current(p)'
<1> USE DEF SerialInv, InstallInv, TypeOK, AtWork, Current, Refreshing, WriteSteps, Goto, Exit
<1>1. CASE StartAdd(p) \/ StartRemove(p) \/ StartReload(p) \/ StartInit(p)
  BY <1>1 DEF StartAdd, StartRemove, StartReload, StartInit
<1>2. CASE Load(p)
  BY <1>2, ConfigStays DEF Load
<1>3. CASE ReadRc(p) \/ Agree(p) \/ Finish(p) \/ AppendUnlessMarked(p) \/ AppendCutShort(p) \/ Gone(p)
  BY <1>3 DEF ReadRc, Agree, Finish, AppendUnlessMarked, AppendCutShort, Gone
<1>4. CASE SkipShell(p) \/ Bake(p)
  BY <1>4, ConfigStays DEF SkipShell, Bake, AtAShell, NextShell
<1>5. CASE UnlinkTmp(p) \/ CreateTmp(p) \/ Fill(p) \/ RenameTmp(p) \/ WriteFails(p)
  BY <1>5, ConfigStays DEF UnlinkTmp, CreateTmp, Fill, RenameTmp, AfterWrite, WriteFails, NextShell
<1>6. QED
  BY <1>1, <1>2, <1>3, <1>4, <1>5 DEF Step

\* A step keeps: the temporary file that a command fills is its own.
LEMMA StepOwns ==
    ASSUME SerialInv, NEW p \in Procs, Step(p)
    PROVE  Owns(p)'
<1> USE DEF SerialInv, InstallInv, TypeOK, AtWork, Owns, Goto, Exit
<1>1. CASE CreateTmp(p)
  <2>1. Sh(p) \in Shells /\ Sh(p)' = Sh(p)
    BY <1>1, ShTyped DEF CreateTmp, AtItsShell, WriteSteps, Sh
  <2>2. QED
    BY <1>1, <2>1 DEF CreateTmp
<1>2. CASE Fill(p)
  <2>1. Sh(p) \in Shells /\ Sh(p)' = Sh(p)
    BY <1>2, ShTyped DEF Fill, AtItsShell, WriteSteps, Sh
  <2>2. tmp[Sh(p)] # None /\ tmp[Sh(p)].by = p
    <3>1. [by |-> p, body |-> Part] \in File
      BY DEF File, Bodies
    <3>2. tmp[Sh(p)] = [by |-> p, body |-> Part]
      BY <1>2 DEF Fill
    <3>3. QED
      BY <3>1, <3>2, IntegrationAssumption
  <2>3. tmp'[Sh(p)] = [by |-> None, body |-> got[p]]
    BY <1>2, <2>1, <2>2 DEF Fill, Written
  <2>4. QED
    BY <1>2, <2>1, <2>3 DEF Fill
<1>3. CASE pc'[p] \notin {"fill", "rename"}
  BY <1>3
<1>4. QED
  BY <1>1, <1>2, <1>3
     DEF Step, StartAdd, StartRemove, StartReload, StartInit, ReadRc, Agree, Load, SkipShell, Bake,
         NextShell, UnlinkTmp, RenameTmp, AfterWrite, WriteFails, Finish, AppendUnlessMarked,
         AppendCutShort, Gone

\* A step keeps: each shell behind a command is as its report says.
LEMMA StepVisiting ==
    ASSUME SerialInv, NEW p \in Procs, Step(p)
    PROVE  Visiting(p)'
<1> USE DEF SerialInv, InstallInv, TypeOK, AtWork, Refreshing, WriteSteps, Goto, Exit
<1>1. CASE StartAdd(p) \/ StartRemove(p) \/ StartReload(p) \/ StartInit(p) \/ ReadRc(p) \/ Agree(p)
  BY <1>1 DEF StartAdd, StartRemove, StartReload, StartInit, MayStart, ReadRc, Agree, Bounded, Visiting
<1>2. CASE Load(p)
  BY <1>2 DEF Load, Bounded, Visiting
<1>3. CASE AppendUnlessMarked(p) \/ AppendCutShort(p) \/ Gone(p)
  BY <1>3 DEF AppendUnlessMarked, AppendCutShort, Gone, AtItsShell, Visiting
<1>4. CASE Finish(p)
  BY <1>4, ShellsTyped DEF Finish, files, Visiting, Told, BodyIs, Loaded
<1>5. CASE Bake(p) \/ UnlinkTmp(p) \/ CreateTmp(p) \/ Fill(p)
  <2>1. UNCHANGED <<cache, cmd, at, report, config>> /\ pc[p] \in Refreshing
        /\ (exit'[p] = exit[p] \/ exit'[p] = "panic")
    BY <1>5, CachesAreClosed DEF Bake, AtAShell, files, UnlinkTmp, CreateTmp, Fill
  <2>2. QED
    BY <2>1, ZenonT(60) DEF Visiting, Told, BodyIs, Loaded, Bounded
<1>6. ASSUME cmd[p] # "init", NEW o \in Outcomes, NEW here \in Shells, at[p] <= Len(Order), here = Sh(p),
             pc[p] \in Refreshing, NextShell(p, o), UNCHANGED <<cmd, exit>>, Loaded' = Loaded,
             Told(p, here)', \A sh \in Shells : sh # here => cache'[sh] = cache[sh]
      PROVE  Visiting(p)'
  <2>1. at'[p] = at[p] + 1 /\ at[p] \in 1 .. Len(Order) /\ here = Order[at[p]]
    BY <1>6, ShTyped DEF NextShell, Sh
  <2>2. \A sh \in Shells : sh # here => report'[p][sh] = report[p][sh]
    BY <1>6 DEF NextShell
  <2>3. ASSUME NEW i \in 1 .. at[p] - 1 PROVE Order[i] \in Shells /\ Order[i] # here
    <3>1. i \in DOMAIN Order /\ at[p] \in DOMAIN Order /\ i # at[p]
      BY <2>1, ShellsTyped
    <3>2. QED
      BY <2>1, <3>1, ShellsTyped, IntegrationAssumption
  <2>4. exit'[p] # "ok"
    BY <1>6 DEF Bounded
  <2>5. \A i \in 1 .. at[p] - 1 : Told(p, Order[i])'
    BY <1>6, <2>2, <2>3 DEF Visiting, Told, BodyIs
  <2>6. \A i \in 1 .. at'[p] - 1 : i \in 1 .. at[p] - 1 \/ i = at[p]
    BY <2>1
  <2>7. \A i \in 1 .. at'[p] - 1 : Told(p, Order[i])'
    BY <1>6, <2>1, <2>5, <2>6
  <2>8. QED
    BY <2>4, <2>7 DEF Visiting
<1>7. CASE SkipShell(p)
  <2>1. Sh(p) \in Shells
    BY <1>7, ShTyped DEF SkipShell, AtAShell
  <2>2. PICK o \in Outcomes : NextShell(p, o) /\ (o = "failed" \/ (o = "not_installed" /\ cache[Sh(p)] = None))
    BY <1>7 DEF SkipShell, Outcomes
  <2>3. report'[p][Sh(p)] = o /\ cache' = cache
    BY <1>7, <2>1, <2>2 DEF SkipShell, NextShell, files
  <2>4. Loaded' = Loaded
    BY <1>7, ConfigStays DEF SkipShell, AtAShell
  <2>5. QED
    BY <1>6, <1>7, <2>1, <2>2, <2>3, <2>4 DEF SkipShell, AtAShell, Told
<1>8. CASE (RenameTmp(p) \/ WriteFails(p)) /\ cmd[p] # "init"
  <2>1. pc[p] \in WriteSteps /\ Sh(p) \in Shells /\ at[p] <= Len(Order)
    BY <1>8, ShTyped DEF RenameTmp, WriteFails, AtItsShell
  <2>2. Loaded' = Loaded
    BY <2>1, ConfigStays
  <2>3. CASE RenameTmp(p)
    <3>1. NextShell(p, "refreshed") /\ report'[p][Sh(p)] = "refreshed" /\ UNCHANGED <<cmd, exit>>
      BY <1>8, <2>1, <2>3 DEF RenameTmp, AfterWrite, NextShell
    <3>2. cache' = [cache EXCEPT ![Sh(p)] = [by |-> None, body |-> got[p]]]
      BY <2>1, <2>3 DEF RenameTmp, Owns
    <3>3. got[p] = Loaded
      BY <2>1 DEF Current
    <3>4. cache'[Sh(p)] = [by |-> None, body |-> Loaded] /\ cache'[Sh(p)] \in File
      BY <2>1, <3>2, <3>3 DEF File, Bodies
    <3>5. ASSUME NEW here \in Shells, here = Sh(p) PROVE Told(p, here)'
      BY <2>2, <3>1, <3>4, <3>5, IntegrationAssumption DEF Told, BodyIs
    <3>6. QED
      BY <1>6, <1>8, <2>1, <2>2, <3>1, <3>2, <3>5 DEF Outcomes
  <2>4. CASE WriteFails(p)
    <3>1. NextShell(p, "failed") /\ report'[p][Sh(p)] = "failed" /\ UNCHANGED <<cache, cmd, exit>>
      BY <1>8, <2>1, <2>4, CachesAreClosed DEF WriteFails, NextShell
    <3>2. ASSUME NEW here \in Shells, here = Sh(p) PROVE Told(p, here)'
      BY <3>1, <3>2 DEF Told
    <3>3. QED
      BY <1>6, <1>8, <2>1, <2>2, <3>1, <3>2 DEF Outcomes
  <2>5. QED
    BY <1>8, <2>3, <2>4
<1>9. CASE (RenameTmp(p) \/ WriteFails(p)) /\ cmd[p] = "init"
  BY <1>9 DEF RenameTmp, WriteFails, Visiting
<1>10. QED
  BY <1>1, <1>2, <1>3, <1>4, <1>5, <1>7, <1>8, <1>9 DEF Step

\* A step keeps: what `init` saw in the rc file is still there.
LEMMA StepSaw ==
    ASSUME SerialInv, NEW p \in Procs, Step(p)
    PROVE  Saw(p)'
<1> USE DEF SerialInv, InstallInv, TypeOK, AtWork, Saw, Refreshing, WriteSteps, Goto, Exit
<1>1. CASE StartAdd(p) \/ StartRemove(p) \/ StartReload(p) \/ StartInit(p)
  BY <1>1 DEF StartAdd, StartRemove, StartReload, StartInit
<1>2. CASE ReadRc(p)
  BY <1>2 DEF ReadRc, files, Sh
<1>3. CASE Agree(p) \/ Load(p) \/ Bake(p)
  BY <1>3 DEF Agree, Load, Bake, AtAShell, files, Sh
<1>4. CASE UnlinkTmp(p) \/ CreateTmp(p) \/ Fill(p)
  BY <1>4 DEF UnlinkTmp, CreateTmp, Fill, Sh
<1>5. CASE RenameTmp(p)
  BY <1>5 DEF RenameTmp, AfterWrite, Sh
<1>6. CASE SkipShell(p) \/ WriteFails(p) \/ Finish(p) \/ AppendUnlessMarked(p) \/ AppendCutShort(p) \/ Gone(p)
  BY <1>6 DEF SkipShell, WriteFails, Finish, AppendUnlessMarked, AppendCutShort, Gone, AtItsShell
<1>7. QED
  BY <1>1, <1>2, <1>3, <1>4, <1>5, <1>6 DEF Step

-----------------------------------------------------------------------------
\* Every step keeps a cache whole, ...
LEMMA StepWhole ==
    ASSUME SerialInv, NEW p \in Procs, Step(p)
    PROVE  Whole'
<1>1. got[p] # Part
  BY IntegrationAssumption DEF SerialInv, InstallInv, TypeOK
<1>2. CASE cache' = cache
  BY <1>2 DEF SerialInv, Whole
<1>3. CASE cache' = [cache EXCEPT ![Sh(p)] = [by |-> None, body |-> got[p]]]
  BY <1>1, <1>3 DEF SerialInv, InstallInv, TypeOK, Whole
<1>4. QED
  BY <1>2, <1>3, CacheChanges

\* ... and an rc file that can be read with one block.
LEMMA StepRcOnce ==
    ASSUME SerialInv, NEW p \in Procs, Step(p)
    PROVE  RcOnce'
<1> USE DEF SerialInv, InstallInv
<1>0. \A sh \in Shells : rc[sh] \in RcFile
  BY DEF TypeOK
<1>1. CASE AppendUnlessMarked(p) /\ ~marked[p]
  <2>1. Sh(p) \in Shells
    BY <1>1, ShTyped DEF AtItsShell, AppendUnlessMarked
  <2>2. rc' = [rc EXCEPT ![Sh(p)] = [rc[Sh(p)] EXCEPT !.marker = TRUE, !.blocks = @ + 1]]
    BY <1>1, <2>1 DEF AppendUnlessMarked, TypeOK
  <2>3. rc[Sh(p)].readable => rc[Sh(p)].blocks = 0
    BY <1>1, <2>1 DEF AppendUnlessMarked, AtItsShell, AtWork, Saw, RcOnce
  <2>4. \A sh \in Shells : sh # Sh(p) => rc'[sh] = rc[sh]
    BY <2>2 DEF TypeOK
  <2>5. rc'[Sh(p)] = [rc[Sh(p)] EXCEPT !.marker = TRUE, !.blocks = @ + 1]
    BY <2>1, <2>2 DEF TypeOK
  <2>6. rc'[Sh(p)].readable = rc[Sh(p)].readable /\ rc'[Sh(p)].marker = TRUE
        /\ rc'[Sh(p)].blocks = rc[Sh(p)].blocks + 1
    BY <1>0, <2>1, <2>5 DEF RcFile
  <2>7. ASSUME NEW sh \in Shells, rc'[sh].readable
        PROVE  rc'[sh].blocks <= 1 /\ (rc'[sh].marker \/ rc'[sh].blocks = 0)
    <3>1. CASE sh = Sh(p)
      BY <2>3, <2>6, <2>7, <3>1
    <3>2. CASE sh # Sh(p)
      BY <2>4, <2>7, <3>2 DEF RcOnce
    <3>3. QED
      BY <3>1, <3>2
  <2>8. QED
    BY <2>7 DEF RcOnce
<1>2. CASE AppendCutShort(p)
  <2>1. Sh(p) \in Shells
    BY <1>2, ShTyped DEF AtItsShell, AppendCutShort
  <2>2. \A sh \in Shells : rc'[sh] = rc[sh] \/ rc'[sh] = [rc[sh] EXCEPT !.marker = TRUE]
    BY <1>2, <2>1 DEF AppendCutShort, TypeOK
  <2>3. \A sh \in Shells : rc'[sh].readable = rc[sh].readable /\ rc'[sh].blocks = rc[sh].blocks
                           /\ (rc[sh].marker => rc'[sh].marker)
    BY <1>0, <2>2 DEF RcFile
  <2>4. QED
    BY <2>3 DEF RcOnce
<1>3. CASE rc' = rc
  BY <1>3 DEF RcOnce
<1>4. QED
  BY <1>1, <1>2, <1>3
     DEF Step, files, StartAdd, StartRemove, StartReload, StartInit, ReadRc, Agree, Load, AppendUnlessMarked,
         SkipShell, Bake, UnlinkTmp, CreateTmp, Fill, RenameTmp, WriteFails, Finish, Gone

\* A process that is idle and stays so relies on nothing.
LEMMA IdleAtWork ==
    ASSUME SerialInv, NEW p \in Procs, Step(p), NEW q \in Procs, q # p, pc[q] = "idle", pc'[q] = "idle"
    PROVE  AtWork(q)'
<1>1. Stays(q) /\ exit'[q] = exit[q]
  <2>1. exit'[q] = exit[q]
    BY DEF SerialInv, InstallInv, TypeOK, Step, Goto, Exit, NextShell, AfterWrite, files, StartAdd,
       StartRemove, StartReload, StartInit, ReadRc, Agree, Load, SkipShell, Bake, UnlinkTmp, CreateTmp,
       Fill, RenameTmp, WriteFails, Finish, AppendUnlessMarked, AppendCutShort, Gone
  <2>2. QED
    BY <2>1, OthersStay DEF SerialInv, InstallInv
<1>2. exit[q] = "none" /\ at[q] = 1
  BY DEF SerialInv, InstallInv, TypeOK, AtWork, Bounded
<1>3. QED
  BY <1>1, <1>2 DEF Stays, AtWork, Bounded, Current, Owns, Visiting, Saw, Refreshing, WriteSteps

\* What the user edits between two commands, no process relies on.
LEMMA UserSerial ==
    ASSUME Discipline = "serial", SerialInv, User
    PROVE  Alone' /\ Whole' /\ RcOnce' /\ \A p \in Procs : AtWork(p)'
<1> USE DEF SerialInv, InstallInv
<1>1. \A p \in Procs : pc[p] = "idle" /\ pc'[p] = "idle" /\ at'[p] = at[p] /\ exit'[p] = exit[p] /\ exit[p] = "none"
  BY UserIsAlone DEF procVars, AtWork, Bounded
<1>2. Alone' /\ \A p \in Procs : AtWork(p)'
  BY <1>1, ZenonT(60) DEF Alone, AtWork, Bounded, Current, Owns, Visiting, Saw, Refreshing, WriteSteps
<1>3. Whole'
  <2>1. \A sh \in Shells : cache'[sh] = cache[sh] \/ cache'[sh] = None
    BY DEF User, HandEdit, DeleteLegacyLine, DeleteBlocks, DeleteCache, TypeOK
  <2>2. QED
    BY <2>1 DEF Whole
<1>4. RcOnce'
  <2>0. \A sh \in Shells : rc[sh] \in RcFile
    BY DEF TypeOK
  <2> DEFINE Edited == \A sh \in Shells :
                         \/ rc'[sh] = rc[sh]
                         \/ rc'[sh] = [rc[sh] EXCEPT !.legacy = FALSE]
                         \/ rc'[sh] = [rc[sh] EXCEPT !.marker = FALSE, !.legacy = FALSE, !.blocks = 0]
  <2>1. Edited
    <3>1. CASE HandEdit \/ \E sh \in Shells : DeleteCache(sh)
      BY <3>1 DEF HandEdit, DeleteCache
    <3>2. ASSUME NEW sh \in Shells, DeleteLegacyLine(sh) PROVE Edited
      BY <3>2 DEF DeleteLegacyLine, TypeOK
    <3>3. ASSUME NEW sh \in Shells, DeleteBlocks(sh) PROVE Edited
      BY <3>3 DEF DeleteBlocks, TypeOK
    <3>4. QED
      BY <3>1, <3>2, <3>3 DEF User
  <2>2. \A sh \in Shells : \/ rc'[sh].readable = rc[sh].readable /\ rc'[sh].blocks = rc[sh].blocks
                              /\ rc'[sh].marker = rc[sh].marker
                           \/ rc'[sh].blocks = 0
    BY <2>0, <2>1 DEF RcFile
  <2>3. QED
    BY <2>2 DEF RcOnce
<1>5. QED
  BY <1>2, <1>3, <1>4

\* The invariant of one command at a time, at first.
LEMMA InitSerialInv == Init => SerialInv
<1> SUFFICES ASSUME Init PROVE SerialInv
  OBVIOUS
<1>1. Alone /\ Whole /\ \A p \in Procs : AtWork(p)
  BY DEF Init, Alone, Whole, AtWork, Bounded, Current, Owns, Visiting, Saw, Refreshing, WriteSteps
<1>2. RcOnce
  <2>1. NewRc.blocks = 0 /\ [NewRc EXCEPT !.readable = FALSE].blocks = 0
        /\ [NewRc EXCEPT !.marker = TRUE, !.legacy = TRUE].blocks = 0
    BY DEF NewRc
  <2>2. \A sh \in Shells : rc[sh].blocks = 0
    BY <2>1 DEF Init
  <2>3. QED
    BY <2>2 DEF RcOnce
<1>3. QED
  BY <1>1, <1>2, InitInstallInv DEF SerialInv

\* And after every step.
LEMMA NextSerialInv ==
    ASSUME Discipline = "serial", SerialInv, [Next]_integrationVars
    PROVE  SerialInv'
<1>1. InstallInv'
  BY NextTypes, NextAtItsShell, NextCacheIsKept, NextSourced DEF SerialInv, InstallInv
<1>2. ASSUME NEW p \in Procs, Step(p) PROVE SerialInv'
  <2>1. \A q \in Procs : q # p => pc[q] = "idle" /\ pc'[q] = "idle"
    BY <1>2, OthersIdle
  <2>2. Alone'
    BY <2>1 DEF Alone
  <2>3. AtWork(p)'
    BY <1>2, StepBounded, StepCurrent, StepOwns, StepVisiting, StepSaw DEF AtWork
  <2>4. \A q \in Procs : q # p => AtWork(q)'
    BY <1>2, <2>1, IdleAtWork
  <2>5. QED
    BY <1>1, <1>2, <2>2, <2>3, <2>4, StepWhole, StepRcOnce DEF SerialInv
<1>3. CASE User
  BY <1>1, <1>3, UserSerial DEF SerialInv
<1>4. CASE UNCHANGED integrationVars
  BY <1>1, <1>4 DEF integrationVars, SerialInv, Alone, Whole, RcOnce, AtWork, Bounded, Current, Owns,
                    Visiting, Told, Saw, Sh, Loaded, BodyIs
<1>5. QED
  BY <1>2, <1>3, <1>4 DEF Next

\* So always.
LEMMA SerialInvariant ==
    ASSUME Discipline = "serial" PROVE Spec => []SerialInv
<1>1. SerialInv /\ [Next]_integrationVars => SerialInv'
  BY NextSerialInv
<1>2. QED
  BY <1>1, InitSerialInv, PTL DEF Spec

-----------------------------------------------------------------------------
\* An `add`, `remove` or `config reload` that ends without a complaint has left every cache
\* that is there baked from the configuration that is there; one that a cache failed says
\* so, and `config reload` ends with an error then.
THEOREM RefreshesAreCurrent ==
    ASSUME Discipline = "serial" PROVE Spec => []SuccessIsCurrent
<1>1. SerialInv => SuccessIsCurrent
  <2> SUFFICES ASSUME SerialInv, NEW p \in Procs, exit[p] = "ok", cmd[p] # "init", NEW sh \in Shells
               PROVE  Told(p, sh) /\ (cmd[p] = "reload" => report[p][sh] # "failed")
    BY DEF SuccessIsCurrent, Told
  <2>1. PICK i \in DOMAIN Order : Order[i] = sh
    BY DEF Shells
  <2>2. at[p] > Len(Order) /\ at[p] \in Nat
    BY ShellsTyped DEF SerialInv, AtWork, Visiting, InstallInv, TypeOK
  <2>3. i \in 1 .. at[p] - 1
    BY <2>1, <2>2, ShellsTyped
  <2>4. QED
    BY <2>1, <2>3 DEF SerialInv, AtWork, Visiting
<1>2. QED
  BY <1>1, SerialInvariant, PTL

\* No shell sources a half-written cache, wherever the command that wrote it was killed.
THEOREM WholeCaches ==
    ASSUME Discipline = "serial" PROVE Spec => []CachesAreWhole
<1>1. SerialInv => CachesAreWhole
  BY DEF SerialInv, Whole, CachesAreWhole, BodyIs
<1>2. QED
  BY <1>1, SerialInvariant, PTL

\* `init` never appends a second block to an rc file that it can read, whatever was killed,
\* declined or deleted before.
THEOREM OneBlock ==
    ASSUME Discipline = "serial" PROVE Spec => []ReadableRcOnce
<1>1. SerialInv => ReadableRcOnce
  BY DEF SerialInv, RcOnce, ReadableRcOnce
<1>2. QED
  BY <1>1, SerialInvariant, PTL

\* A `config reload` bakes no cache without the rules.
THEOREM StrictReload ==
    ASSUME Discipline = "serial" PROVE Spec => ReloadIsStrict
<1>1. SerialInv /\ [Next]_integrationVars =>
        [\A sh \in Shells : (cache[sh] # cache'[sh] /\ cache'[sh] # None) =>
           ~\E p \in Procs : pc[p] = "rename" /\ cmd[p] = "reload" /\ cache'[sh].body = None]_integrationVars
  <2> SUFFICES ASSUME SerialInv, Next, NEW sh \in Shells, cache[sh] # cache'[sh], cache'[sh] # None,
                      NEW p \in Procs, pc[p] = "rename", cmd[p] = "reload"
               PROVE  cache'[sh].body # None
    BY DEF integrationVars
  <2>1. got[p] # None
    BY DEF SerialInv, AtWork, Current, Refreshing, WriteSteps
  <2>2. CASE User
    BY <2>2 DEF User, HandEdit, DeleteLegacyLine, DeleteBlocks, DeleteCache, Idle, SerialInv, InstallInv, TypeOK
  <2>3. ASSUME NEW q \in Procs, Step(q) PROVE cache'[sh].body # None
    <3>1. RenameTmp(q) /\ cache' = [cache EXCEPT ![Sh(q)] = [by |-> None, body |-> got[q]]]
      BY <2>3, CacheChanges
    <3>2. q = p
      BY <3>1 DEF RenameTmp, SerialInv, Alone
    <3>3. cache'[sh] = [by |-> None, body |-> got[p]]
      BY <3>1, <3>2 DEF SerialInv, InstallInv, TypeOK
    <3>4. QED
      BY <2>1, <3>3
  <2>4. QED
    BY <2>2, <2>3 DEF Next
<1>2. QED
  BY <1>1, SerialInvariant, PTL DEF Spec, ReloadIsStrict
=============================================================================
