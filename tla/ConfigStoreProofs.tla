------------------------- MODULE ConfigStoreProofs --------------------------
(***************************************************************************)
(* Theorems about ConfigStore for any set of processes, blocks, keys and   *)
(* files.                                                                  *)
(***************************************************************************)
EXTENDS ConfigStore, FiniteSetTheorems, TLAPS

\* What a half-written file holds of a content is part of it, or one of its rules
\* cut short.
LEMMA RulesBetweenFacts ==
    ASSUME NEW d, NEW c \in Content, NEW s \in RulesBetween(d, c)
    PROVE  s \subseteq Written(c) /\ s \subseteq Rules
<1>1. c.rules \subseteq Rules
  BY DEF Content
<1>2. CutsOf(c.rules) \subseteq Rules
  BY <1>1, ContentsAssumption DEF CutsOf
<1>3. PICK whole \in SUBSET c.rules :
         s = whole \/ \E cut \in CutsOf(c.rules \ whole) : s = whole \cup {cut}
  <2> DEFINE Of(rules) == {rules} \cup { rules \cup {cut} : cut \in CutsOf(c.rules \ rules) }
             Kept == { rules \in SUBSET c.rules : d.rules \subseteq rules }
  <2>1. s \in UNION { Of(rules) : rules \in Kept }
    BY DEF RulesBetween
  <2>2. PICK rules \in Kept : s \in Of(rules)
    BY <2>1
  <2>3. QED
    BY <2>2
<1>4. CutsOf(c.rules \ whole) \subseteq CutsOf(c.rules)
  BY DEF CutsOf
<1>5. s \subseteq c.rules \cup CutsOf(c.rules)
  BY <1>3, <1>4
<1>6. QED
  BY <1>1, <1>2, <1>5 DEF Written

\* A part of a content is a content, with no rule but its own and their cuts.
LEMMA BetweenFacts ==
    ASSUME NEW d \in Content, NEW c \in Content, NEW e \in Between(d, c)
    PROVE  e \in Content /\ e.rules \subseteq Written(c)
<1>1. CASE d = c
  BY <1>1 DEF Between, Written
<1>2. CASE d # c
  <2>1. /\ e \in [head : BOOLEAN, torn : BOOLEAN, inline : {c.inline}, rest : Rests,
                  rules : RulesBetween(d, c)]
    BY <1>2 DEF Between
  <2>2. e.rules \in RulesBetween(d, c)
    BY <2>1
  <2>3. e.rules \subseteq Written(c) /\ e.rules \in SUBSET Rules
    BY <2>2, RulesBetweenFacts
  <2>4. c.inline \in BOOLEAN
    BY DEF Content
  <2>5. e \in Content
    BY <2>1, <2>3, <2>4 DEF Content
  <2>6. QED
    BY <2>3, <2>5
<1>3. QED
  BY <1>1, <1>2

\* What the edits make of a file's contents are again contents.
LEMMA ContentFacts ==
    /\ Empty \in Content /\ Seed \in Content
    /\ \A c \in Content, r \in Rules : With(c, r) \in Content
    /\ \A c \in Content, r \in Rules : CutShort(c, r) \subseteq Content
    /\ \A c \in Content, k \in Keys : Without(c, k) \in Content
<1>1. Empty \in Content /\ Seed \in Content
  BY ContentsAssumption DEF Content, Empty, Seed
<1>2. \A c \in Content, r \in Rules : With(c, r) \in Content
  BY DEF Content, With
<1>3. \A c \in Content : Torn(c) \in Content
  BY DEF Content, Torn
<1>4. \A c \in Content, r \in Rules : CutShort(c, r) \subseteq Content
  BY <1>2, <1>3, ContentsAssumption DEF CutShort
<1>5. \A c \in Content, k \in Keys : Without(c, k) \in Content
  BY DEF Content, Without
<1>6. QED
  BY <1>1, <1>2, <1>4, <1>5

\* Ending a process keeps the type of what is local to it.
LEMMA EndTypes ==
    ASSUME TypeOK, NEW p \in Procs, End(p)
    PROVE  /\ pc' \in [Procs -> Steps]
           /\ fd' \in [Procs -> Inodes \cup {None}]
           /\ rule' \in [Procs -> Rules]
           /\ key' \in [Procs -> Keys]
           /\ buf' \in [Procs -> Content]
  BY ContentFacts, ContentsAssumption
  DEF TypeOK, End, Goto, Close, Steps, NoKey

\* So does going on to another step.
LEMMA ContinueTypes ==
    ASSUME TypeOK, NEW p \in Procs, NEW step \in Steps, Continue(p, step)
    PROVE  TypeOK'
  BY DEF TypeOK, Continue, Goto, FilesStay, ArgsStay

\* A new file keeps the types of the files, and changes no other one.
LEMMA NewFileTypes ==
    ASSUME TypeOK, NEW n \in Paths, NEW i \in Inodes, NewFile(n, i)
    PROVE  /\ path' \in [Paths -> Inodes \cup {None}] /\ dir' = dir
           /\ data' \in [Inodes -> Content]
           /\ disk' \in [Inodes -> Content]
           /\ \A j \in Inodes : j # i => data'[j] = data[j] /\ disk'[j] = disk[j]
           /\ path'[n] = i /\ \A m \in Paths : m # n => path'[m] = path[m]
           /\ data'[i] = Empty /\ disk'[i] = Empty
           /\ \A m \in Paths : path[m] # i /\ dir[m] # i
           /\ \A q \in Procs : fd[q] # i
<1>1. Empty \in Content
  BY ContentFacts
<1>2. QED
  BY <1>1 DEF TypeOK, NewFile, Free, Held

\* Forgetting files keeps the types, and the other files.
LEMMA ForgetTypes ==
    ASSUME TypeOK, NEW gone, Forget(gone)
    PROVE  /\ data' \in [Inodes -> Content]
           /\ disk' \in [Inodes -> Content]
           /\ \A j \in Inodes : j \notin gone => data'[j] = data[j] /\ disk'[j] = disk[j]
<1>1. Empty \in Content
  BY ContentFacts
<1>2. QED
  BY <1>1 DEF TypeOK, Forget

\* So does a file that loses its last name; one that the disk still names stays.
LEMMA UnnamedTypes ==
    ASSUME TypeOK, NEW i, Unnamed(i)
    PROVE  /\ data' \in [Inodes -> Content] /\ dir' = dir
           /\ disk' \in [Inodes -> Content]
           /\ \A j \in Inodes : j # i => data'[j] = data[j] /\ disk'[j] = disk[j]
           /\ \A j \in Inodes : j \in {dir[n] : n \in Paths}
                 => data'[j] = data[j] /\ disk'[j] = disk[j]
           /\ \A j \in Inodes : Held(j) => data'[j] = data[j] /\ disk'[j] = disk[j]
<1> DEFINE gone == {j \in {i} : i \notin {dir[n] : n \in Paths} /\ ~Held(i)}
<1>1. Forget(gone) /\ dir' = dir
  BY DEF Unnamed
<1>2. /\ data' \in [Inodes -> Content] /\ disk' \in [Inodes -> Content]
      /\ \A j \in Inodes : j \notin gone => data'[j] = data[j] /\ disk'[j] = disk[j]
  BY <1>1, ForgetTypes
<1>3. QED
  BY <1>1, <1>2

-----------------------------------------------------------------------------
\* The types hold in every reachable state, whatever the user runs at once.
LEMMA StepTypes ==
    ASSUME TypeOK, FilesOpen, NEW p \in Procs, Step(p)
    PROVE  TypeOK'
<1> USE DEF Steps, AddSteps, RewriteSteps, InitSteps
<1>1. CASE StartAdd(p)
  BY <1>1 DEF StartAdd, TypeOK, Goto, FilesStay
<1>2. CASE AddLoad(p)
  BY <1>2, ContinueTypes, EndTypes DEF AddLoad, TypeOK, FilesStay
<1>3. CASE OpenAppend(p)
  BY <1>3 DEF OpenAppend, TypeOK, Goto, FilesStay, ArgsStay, Paths
<1>4. CASE AppendBlock(p)
  <2>1. fd[p] \in Inodes /\ rule[p] \in Rules
    BY <1>4 DEF AppendBlock, FilesOpen, TypeOK
  <2>2. With(data[fd[p]], rule[p]) \in Content
    BY <2>1, ContentFacts DEF TypeOK
  <2>3. data' \in [Inodes -> Content]
    BY <1>4, <2>1, <2>2 DEF AppendBlock, TypeOK
  <2>4. QED
    BY <1>4, <2>3, EndTypes DEF AppendBlock, TypeOK
<1>5. CASE AppendCutShort(p)
  <2>1. PICK left \in CutShort(data[fd[p]], rule[p]) : data' = [data EXCEPT ![fd[p]] = left]
    BY <1>5 DEF AppendCutShort
  <2>2. left \in Content
    BY <1>5, <2>1, ContentFacts DEF AppendCutShort, FilesOpen, TypeOK
  <2>3. data' \in [Inodes -> Content]
    BY <2>1, <2>2 DEF TypeOK
  <2>4. QED
    BY <1>5, <2>3, EndTypes DEF AppendCutShort, TypeOK
<1>6. CASE StartRemove(p)
  BY <1>6 DEF StartRemove, TypeOK, Goto, FilesStay
<1>7. CASE RemoveLoad(p)
  BY <1>7, ContinueTypes, EndTypes DEF RemoveLoad, TypeOK, FilesStay
<1>8. CASE RereadFound(p)
  <2>1. Published \in Content
    BY <1>8, ContentsAssumption DEF RereadFound, Published, TypeOK, Paths
  <2>2. Without(Published, key[p]) \in Content
    BY <2>1, ContentFacts DEF TypeOK
  <2>3. QED
    BY <1>8, <2>2 DEF RereadFound, TypeOK, Goto, FilesStay
<1>9. CASE RereadNothing(p)
  BY <1>9, EndTypes DEF RereadNothing, TypeOK, FilesStay
<1>10. CASE UnlinkTmp(p)
  <2>1. path["tmp"] \in Inodes \cup {None} /\ Unnamed(path["tmp"])
    BY <1>10 DEF UnlinkTmp, TypeOK, Paths
  <2>2. data' \in [Inodes -> Content] /\ disk' \in [Inodes -> Content] /\ dir' = dir
    BY <2>1, UnnamedTypes
  <2>3. QED
    BY <1>10, <2>2 DEF UnlinkTmp, TypeOK, Goto, ArgsStay
<1>22. CASE UnlinkFails(p)
  BY <1>22, ContinueTypes DEF UnlinkFails
<1>11. CASE CreateTmp(p)
  <2>1. CASE path["tmp"] = None
    <3>1. PICK i \in Inodes : NewFile("tmp", i) /\ fd' = [fd EXCEPT ![p] = i]
      BY <1>11, <2>1 DEF CreateTmp
    <3>2. /\ path' \in [Paths -> Inodes \cup {None}]
          /\ data' \in [Inodes -> Content] /\ disk' \in [Inodes -> Content] /\ dir' = dir
      BY <3>1, NewFileTypes DEF Paths
    <3>3. QED
      BY <1>11, <2>1, <3>1, <3>2 DEF CreateTmp, TypeOK, Goto, ArgsStay
  <2>2. CASE path["tmp"] # None
    BY <1>11, <2>2, EndTypes DEF CreateTmp, TypeOK, FilesStay
  <2>3. QED
    BY <2>1, <2>2
<1>12. CASE FillPart(p)
  <2>1. PICK part \in Between(data[fd[p]], buf[p]) : data' = [data EXCEPT ![fd[p]] = part]
    BY <1>12 DEF FillPart
  <2>2. part \in Content
    BY <1>12, <2>1, BetweenFacts DEF FillPart, FilesOpen, TypeOK
  <2>3. QED
    BY <1>12, <2>1, <2>2 DEF FillPart, TypeOK, ArgsStay
<1>13. CASE FillRest(p)
  <2>1. PICK others \in SUBSET (data[fd[p]].rules \ Written(buf[p])) :
           data' = [data EXCEPT ![fd[p]] = [buf[p] EXCEPT !.rules = @ \cup others]]
    BY <1>13 DEF FillRest
  <2>2. fd[p] \in Inodes
    BY <1>13 DEF FillRest, FilesOpen
  <2>3. others \subseteq Rules
    BY <2>1, <2>2 DEF TypeOK, Content
  <2>4. [buf[p] EXCEPT !.rules = @ \cup others] \in Content
    BY <2>3 DEF TypeOK, Content
  <2>5. QED
    BY <1>13, <2>1, <2>4 DEF FillRest, TypeOK, ArgsStay, Goto
<1>14. CASE Sync(p)
  <2>1. fd[p] \in Inodes
    BY <1>14 DEF Sync, FilesOpen
  <2>2. QED
    BY <1>14, <2>1 DEF Sync, TypeOK, ArgsStay, Goto, Close
<1>15. CASE RenameTmp(p)
  <2>1. CASE path["tmp"] = None
    BY <1>15, <2>1, EndTypes DEF RenameTmp, TypeOK, FilesStay
  <2>2. CASE path["tmp"] # None
    <3>1. path["config"] \in Inodes \cup {None} /\ Unnamed(path["config"])
      BY <1>15, <2>2 DEF RenameTmp, TypeOK, Paths
    <3>2. data' \in [Inodes -> Content] /\ disk' \in [Inodes -> Content] /\ dir' = dir
      BY <3>1, UnnamedTypes
    <3>3. path' \in [Paths -> Inodes \cup {None}]
      BY <1>15, <2>2 DEF RenameTmp, TypeOK, Paths
    <3>4. QED
      BY <1>15, <3>2, <3>3, EndTypes DEF RenameTmp, TypeOK
  <2>3. QED
    BY <2>1, <2>2
<1>16. CASE RenameFails(p)
  <2>1. path["tmp"] \in Inodes \cup {None} /\ Unnamed(path["tmp"])
    BY <1>16 DEF RenameFails, TypeOK, Paths
  <2>2. data' \in [Inodes -> Content] /\ disk' \in [Inodes -> Content] /\ dir' = dir
    BY <2>1, UnnamedTypes
  <2>3. path' \in [Paths -> Inodes \cup {None}]
    BY <1>16 DEF RenameFails, TypeOK
  <2>4. QED
    BY <1>16, <2>2, <2>3, EndTypes DEF RenameFails, TypeOK
<1>17. CASE StartInit(p)
  BY <1>17, ContinueTypes DEF StartInit
<1>18. CASE MakeConfig(p)
  <2>1. CASE path["config"] = None
    <3>1. PICK i \in Inodes : NewFile("config", i) /\ fd' = [fd EXCEPT ![p] = i]
      BY <1>18, <2>1 DEF MakeConfig
    <3>2. /\ path' \in [Paths -> Inodes \cup {None}]
          /\ data' \in [Inodes -> Content] /\ disk' \in [Inodes -> Content] /\ dir' = dir
      BY <3>1, NewFileTypes DEF Paths
    <3>3. QED
      BY <1>18, <2>1, <3>1, <3>2 DEF MakeConfig, TypeOK, Goto, ArgsStay
  <2>2. CASE path["config"] # None
    BY <1>18, <2>2, EndTypes DEF MakeConfig, TypeOK, FilesStay
  <2>3. QED
    BY <2>1, <2>2
<1>19. CASE SeedConfig(p)
  <2>1. PICK part \in Between(data[fd[p]], Seed) : data' = [data EXCEPT ![fd[p]] = part]
    BY <1>19 DEF SeedConfig
  <2>2. part \in Content
    BY <1>19, <2>1, BetweenFacts, ContentFacts DEF SeedConfig, FilesOpen, TypeOK
  <2>3. data' \in [Inodes -> Content]
    BY <2>1, <2>2 DEF TypeOK
  <2>4. QED
    BY <1>19, <2>3, EndTypes DEF SeedConfig, TypeOK
<1>20. CASE Abort(p)
  BY <1>20, EndTypes DEF Abort, TypeOK, FilesStay
<1>21. QED
  BY <1>1, <1>2, <1>3, <1>4, <1>5, <1>6, <1>7, <1>8, <1>9, <1>10, <1>11, <1>12, <1>13,
     <1>14, <1>15, <1>16, <1>17, <1>18, <1>19, <1>20, <1>22 DEF Step

\* The writing of the directory keeps the types, and every file that has a name or
\* is held.
LEMMA WriteBackTypes ==
    ASSUME TypeOK, WriteBack
    PROVE  /\ TypeOK'
           /\ \A j \in Inodes : j \in {path[n] : n \in Paths} \/ Held(j)
                 => data'[j] = data[j] /\ disk'[j] = disk[j]
<1> DEFINE gone == {i \in Inodes : i \notin {path[n] : n \in Paths} /\ ~Held(i)}
<1>1. Forget(gone)
  BY DEF WriteBack
<1>2. /\ data' \in [Inodes -> Content] /\ disk' \in [Inodes -> Content]
      /\ \A j \in Inodes : j \notin gone => data'[j] = data[j] /\ disk'[j] = disk[j]
  BY <1>1, ForgetTypes
<1>3. TypeOK'
  BY <1>2 DEF WriteBack, TypeOK
<1>4. QED
  BY <1>2, <1>3

\* A power loss keeps the types: what a file holds afterwards is a content again.
LEMMA PowerLossTypes ==
    ASSUME TypeOK, PowerLoss
    PROVE  TypeOK'
<1> DEFINE named == {dir[n] : n \in Paths} \ {None}
<1>1. PICK left \in [named -> UNION {Between(disk[i], data[i]) : i \in named}] :
         data' = [i \in Inodes |-> IF i \in named THEN left[i] ELSE Empty]
  BY DEF PowerLoss
<1>2. \A i \in named : i \in Inodes
  BY DEF TypeOK
<1>3. \A i \in named : Between(disk[i], data[i]) \subseteq Content
  BY <1>2, BetweenFacts DEF TypeOK
<1>4. \A i \in named : left[i] \in Content
  BY <1>1, <1>3
<1>5. data' \in [Inodes -> Content]
  BY <1>1, <1>4, ContentFacts
<1>6. /\ pc' \in [Procs -> Steps] /\ fd' \in [Procs -> Inodes \cup {None}]
      /\ rule' \in [Procs -> Rules] /\ key' \in [Procs -> Keys]
      /\ buf' \in [Procs -> Content]
  BY ContentFacts, ContentsAssumption DEF PowerLoss, Steps, NoKey
<1>7. QED
  BY <1>5, <1>6 DEF PowerLoss, TypeOK

\* A process that is about to write has a file open.
LEMMA StepFilesOpen ==
    ASSUME TypeOK, FilesOpen, NEW p \in Procs, Step(p)
    PROVE  FilesOpen'
<1> USE DEF TypeOK, FilesOpen, Goto, Close, ArgsStay, FilesStay, End, Continue
<1>1. CASE StartAdd(p) \/ StartRemove(p) \/ StartInit(p)
  BY <1>1 DEF StartAdd, StartRemove, StartInit
<1>2. CASE AddLoad(p) \/ RemoveLoad(p)
  BY <1>2 DEF AddLoad, RemoveLoad
<1>3. CASE OpenAppend(p)
  BY <1>3 DEF OpenAppend, Paths
<1>4. CASE AppendBlock(p) \/ AppendCutShort(p) \/ SeedConfig(p) \/ Abort(p)
  BY <1>4 DEF AppendBlock, AppendCutShort, SeedConfig, Abort
<1>5. CASE RereadFound(p) \/ RereadNothing(p)
  BY <1>5 DEF RereadFound, RereadNothing
<1>6. CASE UnlinkTmp(p) \/ UnlinkFails(p)
  BY <1>6 DEF UnlinkTmp, UnlinkFails
<1>7. CASE CreateTmp(p)
  BY <1>7 DEF CreateTmp
<1>8. CASE MakeConfig(p)
  BY <1>8 DEF MakeConfig
<1>9. CASE FillPart(p) \/ FillRest(p) \/ Sync(p)
  BY <1>9 DEF FillPart, FillRest, Sync
<1>10. CASE RenameTmp(p) \/ RenameFails(p)
  BY <1>10 DEF RenameTmp, RenameFails
<1>11. QED
  BY <1>1, <1>2, <1>3, <1>4, <1>5, <1>6, <1>7, <1>8, <1>9, <1>10 DEF Step

\* The type invariant, with the files a writing process has open: it holds for
\* any number of commands at once and across crashes and power losses.
THEOREM TypeCorrect == Spec => [](TypeOK /\ FilesOpen)
<1>1. Init => TypeOK /\ FilesOpen
  <2> SUFFICES ASSUME Init PROVE TypeOK /\ FilesOpen
    OBVIOUS
  <2>1. data \in [Inodes -> Content] /\ path \in [Paths -> Inodes \cup {None}]
    BY ContentFacts DEF Init
  <2>2. QED
    BY <2>1, ContentFacts, ContentsAssumption DEF Init, TypeOK, FilesOpen, Steps, NoKey
<1>2. TypeOK /\ FilesOpen /\ [Next]_storeVars => (TypeOK /\ FilesOpen)'
  <2> SUFFICES ASSUME TypeOK, FilesOpen, [Next]_storeVars PROVE (TypeOK /\ FilesOpen)'
    OBVIOUS
  <2>1. CASE \E p \in Procs : Step(p)
    BY <2>1, StepTypes, StepFilesOpen
  <2>2. CASE PowerLoss
    <3>1. FilesOpen'
      BY <2>2 DEF PowerLoss, FilesOpen
    <3>2. QED
      BY <2>2, <3>1, PowerLossTypes
  <2>3. CASE WriteBack
    <3>1. FilesOpen'
      BY <2>3 DEF WriteBack, FilesOpen
    <3>2. QED
      BY <2>3, <3>1, WriteBackTypes
  <2>4. CASE UNCHANGED storeVars
    BY <2>4 DEF storeVars, TypeOK, FilesOpen
  <2>5. QED
    BY <2>1, <2>2, <2>3, <2>4 DEF Next
<1>3. QED
  BY <1>1, <1>2, PTL DEF Spec

-----------------------------------------------------------------------------
\* Only a command that starts can add a rewriter, and it starts alone.
LEMMA StepRewritersAlone ==
    ASSUME RewriteInv, Discipline # "any", NEW p \in Procs, Step(p)
    PROVE  RewritersAlone'
<1> USE DEF RewriteInv, TypeOK, RewritersAlone, Rewriting, RewriteSteps, Goto, End, Continue
<1>1. CASE StartRemove(p)
  BY <1>1, StoreAssumption DEF StartRemove, MayStart, MayRewrite
<1>2. CASE StartAdd(p) \/ StartInit(p) \/ OpenAppend(p)
  BY <1>2 DEF StartAdd, StartInit, OpenAppend
<1>8. CASE AddLoad(p)
  BY <1>8 DEF AddLoad
<1>9. CASE MakeConfig(p)
  BY <1>9 DEF MakeConfig
<1>3. CASE AppendBlock(p) \/ AppendCutShort(p) \/ SeedConfig(p) \/ Abort(p)
  BY <1>3 DEF AppendBlock, AppendCutShort, SeedConfig, Abort
<1>4. CASE RemoveLoad(p) \/ RereadFound(p) \/ RereadNothing(p) \/ UnlinkTmp(p) \/ UnlinkFails(p)
  BY <1>4 DEF RemoveLoad, RereadFound, RereadNothing, UnlinkTmp, UnlinkFails
<1>5. CASE CreateTmp(p) \/ FillPart(p) \/ FillRest(p) \/ Sync(p)
  BY <1>5 DEF CreateTmp, FillPart, FillRest, Sync
<1>6. CASE RenameTmp(p) \/ RenameFails(p)
  BY <1>6 DEF RenameTmp, RenameFails
<1>7. QED
  BY <1>1, <1>2, <1>3, <1>4, <1>5, <1>6, <1>8, <1>9 DEF Step

\* A step that leaves the files alone, and neither opens one nor goes on with a
\* rewrite, keeps what is said of the temporary file.
LEMMA QuietStep ==
    ASSUME RewriteInv, NEW p \in Procs, FilesStay,
           pc' = [pc EXCEPT ![p] = pc'[p]],
           \A q \in Procs : q # p => fd'[q] = fd[q] /\ buf'[q] = buf[q],
           pc'[p] \notin {"append", "seed", "fill", "sync", "rename", "create"}
    PROVE  TmpIsPrivate' /\ TmpIsWritten' /\ StaleTmpNeverBlocks'
<1>1. \A q \in Procs : q # p => pc'[q] = pc[q]
  BY DEF RewriteInv, TypeOK
<1>2. QED
  BY <1>1 DEF RewriteInv, TmpIsPrivate, TmpIsWritten, StaleTmpNeverBlocks, FilesStay

\* A process that ends leaves the others as they were.
LEMMA EndIsQuiet ==
    ASSUME TypeOK, NEW p \in Procs, End(p)
    PROVE  /\ pc' = [pc EXCEPT ![p] = pc'[p]] /\ pc'[p] = "idle"
           /\ \A q \in Procs : q # p => pc'[q] = pc[q] /\ fd'[q] = fd[q] /\ buf'[q] = buf[q]
  BY DEF TypeOK, End, Goto, Close

\* Writing another file than the temporary one does not disturb it.
LEMMA WriteElsewhere ==
    ASSUME RewriteInv, NEW p \in Procs, pc[p] \in {"append", "seed"}, End(p),
           NEW c, data' = [data EXCEPT ![fd[p]] = c], UNCHANGED <<path, dir, disk>>
    PROVE  TmpIsPrivate' /\ TmpIsWritten' /\ StaleTmpNeverBlocks'
<1>1. \A q \in Procs : q # p => pc'[q] = pc[q] /\ fd'[q] = fd[q] /\ buf'[q] = buf[q]
  BY EndIsQuiet DEF RewriteInv
<1>2. pc'[p] = "idle"
  BY EndIsQuiet DEF RewriteInv
<1>3. fd[p] # path["tmp"] /\ fd[p] \in Inodes
  BY DEF RewriteInv, TmpIsPrivate, FilesOpen
<1>4. \A i \in Inodes : i # fd[p] => data'[i] = data[i]
  BY DEF RewriteInv, TypeOK
<1>5. TmpIsPrivate' /\ StaleTmpNeverBlocks'
  BY <1>1, <1>2 DEF RewriteInv, TmpIsPrivate, StaleTmpNeverBlocks
<1>6. TmpIsWritten'
  <2> SUFFICES ASSUME NEW q \in Procs, q # p
               PROVE  /\ pc'[q] = "fill" => data'[fd'[q]].rules \subseteq Written(buf'[q])
                      /\ pc'[q] = "sync" => data'[fd'[q]] = buf'[q]
                      /\ pc'[q] = "rename" => /\ path'["tmp"] \in Inodes
                                              /\ data'[path'["tmp"]] = buf'[q]
                                              /\ disk'[path'["tmp"]] = buf'[q]
    BY <1>2 DEF TmpIsWritten
  <2>1. pc[q] \in {"fill", "sync"} => fd[q] = path["tmp"] /\ fd[q] \in Inodes
    BY DEF RewriteInv, TmpIsPrivate, FilesOpen
  <2>2. QED
    BY <1>1, <1>3, <1>4, <2>1 DEF RewriteInv, TmpIsWritten
<1>7. QED
  BY <1>5, <1>6

\* Every step of a process keeps the temporary file private and what was
\* written to it complete, when there is one rewriter at a time.
LEMMA StepKeepsTmp ==
    ASSUME RewriteInv, NEW p \in Procs, Step(p)
    PROVE  TmpIsPrivate' /\ TmpIsWritten' /\ StaleTmpNeverBlocks'
<1>0. /\ TypeOK /\ FilesOpen /\ RewritersAlone
      /\ TmpIsPrivate /\ TmpIsWritten /\ StaleTmpNeverBlocks
  BY DEF RewriteInv
<1>1. CASE StartAdd(p) \/ StartRemove(p) \/ StartInit(p)
  BY <1>0, <1>1, QuietStep DEF StartAdd, StartRemove, StartInit, Goto, Continue, TypeOK, ArgsStay
<1>2. CASE AddLoad(p) \/ RemoveLoad(p)
  <2>1. CASE End(p) /\ FilesStay
    BY <1>0, <2>1, QuietStep, EndIsQuiet
  <2>2. CASE Continue(p, "open_append") \/ Continue(p, "reread")
    BY <1>0, <2>2, QuietStep DEF Continue, Goto, TypeOK, ArgsStay
  <2>3. QED
    BY <1>2, <2>1, <2>2 DEF AddLoad, RemoveLoad
<1>3. CASE OpenAppend(p)
  <2>1. \A q \in Procs : q # p => pc'[q] = pc[q] /\ fd'[q] = fd[q] /\ buf'[q] = buf[q]
    BY <1>0, <1>3 DEF OpenAppend, TypeOK, Goto, ArgsStay
  <2>2. pc'[p] = "append" /\ fd'[p] = path["config"] /\ path["config"] # None
    BY <1>0, <1>3 DEF OpenAppend, TypeOK, Goto
  <2>3. fd'[p] # path["tmp"]
    BY <1>0, <2>2 DEF TmpIsPrivate
  <2>4. UNCHANGED <<path, dir, data, disk>>
    BY <1>3 DEF OpenAppend, FilesStay
  <2>5. QED
    BY <1>0, <2>1, <2>2, <2>3, <2>4 DEF TmpIsPrivate, TmpIsWritten, StaleTmpNeverBlocks
<1>4. CASE AppendBlock(p)
  BY <1>4, WriteElsewhere DEF AppendBlock
<1>5. CASE AppendCutShort(p)
  BY <1>5, WriteElsewhere DEF AppendCutShort
<1>6. CASE RereadFound(p)
  <2>1. \A q \in Procs : q # p => fd'[q] = fd[q] /\ buf'[q] = buf[q]
    BY <1>0, <1>6 DEF RereadFound, TypeOK
  <2>2. QED
    BY <1>0, <1>6, <2>1, QuietStep DEF RereadFound, Goto, TypeOK
<1>7. CASE RereadNothing(p) \/ Abort(p)
  BY <1>0, <1>7, QuietStep, EndIsQuiet DEF RereadNothing, Abort
<1>17. CASE UnlinkFails(p)
  BY <1>0, <1>17, QuietStep DEF UnlinkFails, Continue, Goto, TypeOK, ArgsStay
<1>8. CASE UnlinkTmp(p)
  <2>0. dir' = dir
    BY <1>0, <1>8, UnnamedTypes DEF UnlinkTmp
  <2>1. \A q \in Procs : q # p => pc'[q] = pc[q] /\ fd'[q] = fd[q] /\ buf'[q] = buf[q]
    BY <1>0, <1>8 DEF UnlinkTmp, TypeOK, Goto, ArgsStay
  <2>2. pc'[p] = "create" /\ path'["tmp"] = None
    BY <1>0, <1>8 DEF UnlinkTmp, TypeOK, Goto, Paths
  <2>3. \A q \in Procs : q # p => pc[q] \notin {"create", "fill", "sync", "rename"}
    BY <1>0, <1>8 DEF UnlinkTmp, RewritersAlone, Rewriting, RewriteSteps
  <2>4. \A q \in Procs : pc'[q] \in {"append", "seed"} => fd'[q] # None
    BY <1>0, <2>1, <2>2, StoreAssumption DEF FilesOpen
  <2>5. QED
    BY <1>0, <2>0, <2>1, <2>2, <2>3, <2>4 DEF TmpIsPrivate, TmpIsWritten, StaleTmpNeverBlocks
<1>9. CASE CreateTmp(p)
  <2>1. CASE path["tmp"] = None
    <3>1. PICK i \in Inodes : NewFile("tmp", i) /\ fd' = [fd EXCEPT ![p] = i]
      BY <1>9, <2>1 DEF CreateTmp
    <3>2. \A q \in Procs : q # p => pc'[q] = pc[q] /\ fd'[q] = fd[q] /\ buf'[q] = buf[q]
      BY <1>0, <1>9, <2>1, <3>1 DEF CreateTmp, TypeOK, Goto, ArgsStay
    <3>3. pc'[p] = "fill" /\ fd'[p] = i /\ buf'[p] = buf[p]
      BY <1>0, <1>9, <2>1, <3>1 DEF CreateTmp, TypeOK, Goto, ArgsStay
    <3>4. /\ path'["tmp"] = i /\ path'["config"] = path["config"] /\ data'[i] = Empty
          /\ path["config"] # i /\ dir["config"] # i /\ \A q \in Procs : fd[q] # i
          /\ dir' = dir
      BY <1>0, <3>1, NewFileTypes DEF Paths
    <3>5. \A q \in Procs : q # p => pc[q] \notin {"create", "fill", "sync", "rename"}
      BY <1>0, <1>9 DEF CreateTmp, RewritersAlone, Rewriting, RewriteSteps
    <3>6. data'[i].rules \subseteq Written(buf'[p])
      BY <3>4 DEF Empty
    <3>7. QED
      BY <1>0, <3>2, <3>3, <3>4, <3>5, <3>6 DEF TmpIsPrivate, TmpIsWritten, StaleTmpNeverBlocks
  <2>2. CASE path["tmp"] # None
    BY <1>0, <1>9, <2>2, QuietStep, EndIsQuiet DEF CreateTmp
  <2>3. QED
    BY <2>1, <2>2
<1>10. CASE FillPart(p)
  <2>1. PICK part \in Between(data[fd[p]], buf[p]) : data' = [data EXCEPT ![fd[p]] = part]
    BY <1>10 DEF FillPart
  <2>2. UNCHANGED <<path, dir, disk, pc, fd, buf>>
    BY <1>10 DEF FillPart, ArgsStay
  <2>3. part.rules \subseteq Written(buf[p])
    BY <1>0, <1>10, <2>1, BetweenFacts DEF FillPart, FilesOpen, TypeOK
  <2>4. pc[p] = "fill" /\ fd[p] \in Inodes
    BY <1>0, <1>10 DEF FillPart, FilesOpen
  <2>5. data'[fd[p]] = part
    BY <1>0, <2>1, <2>4 DEF TypeOK
  <2>6. \A q \in Procs : q # p => pc[q] \notin {"create", "fill", "sync", "rename"}
    BY <1>0, <2>4 DEF RewritersAlone, Rewriting, RewriteSteps
  <2>7. TmpIsPrivate' /\ StaleTmpNeverBlocks'
    BY <1>0, <2>2 DEF TmpIsPrivate, StaleTmpNeverBlocks
  <2>8. TmpIsWritten'
    BY <2>2, <2>3, <2>4, <2>5, <2>6 DEF TmpIsWritten
  <2>9. QED
    BY <2>7, <2>8
<1>11. CASE FillRest(p)
  <2>1. PICK others \in SUBSET (data[fd[p]].rules \ Written(buf[p])) :
           data' = [data EXCEPT ![fd[p]] = [buf[p] EXCEPT !.rules = @ \cup others]]
    BY <1>11 DEF FillRest
  <2>2. pc[p] = "fill" /\ fd[p] \in Inodes /\ fd[p] = path["tmp"]
    BY <1>0, <1>11 DEF FillRest, FilesOpen, TmpIsPrivate
  <2>3. others = {}
    BY <1>0, <2>1, <2>2 DEF TmpIsWritten
  <2>4. [buf[p] EXCEPT !.rules = @ \cup others] = buf[p]
    BY <1>0, <2>3 DEF TypeOK, Content
  <2>5. data'[fd[p]] = buf[p]
    BY <1>0, <2>1, <2>2, <2>4 DEF TypeOK
  <2>6. \A q \in Procs : q # p => pc[q] \notin {"create", "fill", "sync", "rename"}
    BY <1>0, <2>2 DEF RewritersAlone, Rewriting, RewriteSteps
  <2>7. UNCHANGED <<path, dir, disk, fd, buf>> /\ pc' = [pc EXCEPT ![p] = "sync"]
    BY <1>11 DEF FillRest, ArgsStay, Goto
  <2>8. \A q \in Procs : q # p => pc'[q] = pc[q]
    BY <1>0, <2>7 DEF TypeOK
  <2>9. pc'[p] = "sync"
    BY <1>0, <2>7 DEF TypeOK
  <2>10. QED
    BY <1>0, <2>2, <2>5, <2>6, <2>7, <2>8, <2>9
    DEF TmpIsPrivate, TmpIsWritten, StaleTmpNeverBlocks
<1>12. CASE Sync(p)
  <2>1. pc[p] = "sync" /\ fd[p] \in Inodes /\ fd[p] = path["tmp"] /\ data[fd[p]] = buf[p]
    BY <1>0, <1>12 DEF Sync, FilesOpen, TmpIsPrivate, TmpIsWritten
  <2>2. /\ UNCHANGED <<path, dir, data, buf>> /\ pc'[p] = "rename" /\ disk'[fd[p]] = data[fd[p]]
        /\ \A q \in Procs : q # p => pc'[q] = pc[q] /\ fd'[q] = fd[q]
    BY <1>0, <1>12, <2>1 DEF Sync, ArgsStay, Goto, Close, TypeOK
  <2>3. \A q \in Procs : q # p => pc[q] \notin {"create", "fill", "sync", "rename"}
    BY <1>0, <2>1 DEF RewritersAlone, Rewriting, RewriteSteps
  <2>4. QED
    BY <1>0, <2>1, <2>2, <2>3 DEF TmpIsPrivate, TmpIsWritten, StaleTmpNeverBlocks
<1>13. CASE RenameTmp(p) \/ RenameFails(p)
  <2>1. /\ \A q \in Procs : q # p => pc'[q] = pc[q] /\ fd'[q] = fd[q] /\ buf'[q] = buf[q]
        /\ pc'[p] = "idle"
    BY <1>0, <1>13, EndIsQuiet DEF RenameTmp, RenameFails
  <2>2. path["tmp"] \in Inodes
    BY <1>0, <1>13 DEF RenameTmp, RenameFails, TmpIsWritten
  <2>3. path'["tmp"] = None
    BY <1>0, <1>13, <2>2, StoreAssumption DEF RenameTmp, RenameFails, TypeOK, Paths
  <2>4. \A q \in Procs : q # p => pc[q] \notin {"create", "fill", "sync", "rename"}
    BY <1>0, <1>13 DEF RenameTmp, RenameFails, RewritersAlone, Rewriting, RewriteSteps
  <2>5. \A q \in Procs : pc'[q] \in {"append", "seed"} => fd'[q] # None
    BY <1>0, <2>1, StoreAssumption DEF FilesOpen
  <2>6. dir' = dir
    BY <1>0, <1>13, <2>2, StoreAssumption, UnnamedTypes DEF RenameTmp, RenameFails
  <2>7. QED
    BY <1>0, <2>1, <2>3, <2>4, <2>5, <2>6 DEF TmpIsPrivate, TmpIsWritten, StaleTmpNeverBlocks
<1>14. CASE MakeConfig(p)
  <2>1. CASE path["config"] = None
    <3>1. PICK i \in Inodes : NewFile("config", i) /\ fd' = [fd EXCEPT ![p] = i]
      BY <1>14, <2>1 DEF MakeConfig
    <3>2. \A q \in Procs : q # p => pc'[q] = pc[q] /\ fd'[q] = fd[q] /\ buf'[q] = buf[q]
      BY <1>0, <1>14, <2>1, <3>1 DEF MakeConfig, TypeOK, Goto, ArgsStay
    <3>3. pc'[p] = "seed" /\ fd'[p] = i
      BY <1>0, <1>14, <2>1, <3>1 DEF MakeConfig, TypeOK, Goto
    <3>4. /\ path'["tmp"] = path["tmp"] /\ path'["config"] = i /\ path["tmp"] # i
          /\ \A q \in Procs : fd[q] # i
          /\ dir' = dir
      BY <1>0, <3>1, NewFileTypes DEF Paths
    <3>5. \A j \in Inodes : j # i => data'[j] = data[j] /\ disk'[j] = disk[j]
      BY <1>0, <3>1, NewFileTypes DEF Paths
    <3>6. TmpIsPrivate' /\ StaleTmpNeverBlocks'
      BY <1>0, <3>2, <3>3, <3>4 DEF TmpIsPrivate, StaleTmpNeverBlocks
    <3>7. \A q \in Procs : pc[q] \in {"fill", "sync"} => fd[q] \in Inodes
      BY <1>0 DEF FilesOpen
    <3>8. TmpIsWritten'
      BY <1>0, <3>2, <3>3, <3>4, <3>5, <3>7 DEF TmpIsWritten
    <3>9. QED
      BY <3>6, <3>8
  <2>2. CASE path["config"] # None
    BY <1>0, <1>14, <2>2, QuietStep, EndIsQuiet DEF MakeConfig
  <2>3. QED
    BY <2>1, <2>2
<1>15. CASE SeedConfig(p)
  <2>1. PICK part \in Between(data[fd[p]], Seed) : data' = [data EXCEPT ![fd[p]] = part]
    BY <1>15 DEF SeedConfig
  <2>2. QED
    BY <1>15, <2>1, WriteElsewhere DEF SeedConfig
<1>16. QED
  BY <1>1, <1>2, <1>3, <1>4, <1>5, <1>6, <1>7, <1>8, <1>9, <1>10, <1>11, <1>12, <1>13,
     <1>14, <1>15, <1>17 DEF Step

\* No process runs at the start, so no temporary file is there to be shared.
LEMMA InitRewriteInv == Init => RewriteInv
<1> SUFFICES ASSUME Init PROVE RewriteInv
  OBVIOUS
<1>1. data \in [Inodes -> Content] /\ path \in [Paths -> Inodes \cup {None}]
  BY ContentFacts DEF Init
<1>2. TypeOK
  BY <1>1, ContentFacts, ContentsAssumption DEF Init, TypeOK, Steps, NoKey
<1>3. path["tmp"] = None
  BY DEF Init, Paths
<1>4. QED
  BY <1>2, <1>3 DEF Init, RewriteInv, RewritersAlone, Rewriting, RewriteSteps, FilesOpen,
     TmpIsPrivate, TmpIsWritten, StaleTmpNeverBlocks

\* Every step keeps the invariant of the rewrites: a call of a process, or a power loss.
LEMMA NextRewriteInv ==
    ASSUME Discipline # "any", RewriteInv, [Next]_storeVars
    PROVE  RewriteInv'
<1>1. CASE \E p \in Procs : Step(p)
  <2>1. PICK p \in Procs : Step(p)
    BY <1>1
  <2>2. TypeOK /\ FilesOpen
    BY DEF RewriteInv
  <2>3. QED
    BY <2>1, <2>2, StepTypes, StepFilesOpen, StepRewritersAlone, StepKeepsTmp DEF RewriteInv
<1>2. CASE PowerLoss
  <2>1. TypeOK'
    BY <1>2, PowerLossTypes DEF RewriteInv
  <2>2. path' = dir /\ dir' = dir /\ pc' = [p \in Procs |-> "idle"]
    BY <1>2 DEF PowerLoss
  <2>3. QED
    BY <2>1, <2>2 DEF RewriteInv, RewritersAlone, Rewriting, RewriteSteps, FilesOpen,
       TmpIsPrivate, TmpIsWritten, StaleTmpNeverBlocks
<1>5. CASE WriteBack
  <2>1. TypeOK' /\ UNCHANGED <<path, pc, fd, buf>> /\ dir' = path
    BY <1>5, WriteBackTypes DEF WriteBack, RewriteInv
  <2>2. RewritersAlone' /\ FilesOpen' /\ TmpIsPrivate' /\ StaleTmpNeverBlocks'
    BY <2>1 DEF RewriteInv, RewritersAlone, Rewriting, FilesOpen, TmpIsPrivate, StaleTmpNeverBlocks
  <2>3. \A j \in Inodes : j \in {path[n] : n \in Paths} \/ Held(j)
           => data'[j] = data[j] /\ disk'[j] = disk[j]
    BY <1>5, WriteBackTypes DEF RewriteInv
  <2>4. \A q \in Procs : pc[q] \in {"fill", "sync"} => fd[q] \in Inodes /\ Held(fd[q])
    BY DEF RewriteInv, FilesOpen, Held
  <2>5. path["tmp"] \in {path[n] : n \in Paths}
    BY DEF Paths
  <2>6. TmpIsWritten'
    BY <2>1, <2>3, <2>4, <2>5 DEF RewriteInv, TmpIsWritten
  <2>7. QED
    BY <2>1, <2>2, <2>6 DEF RewriteInv
<1>3. CASE UNCHANGED storeVars
  BY <1>3 DEF storeVars, RewriteInv, TypeOK, RewritersAlone, Rewriting, FilesOpen,
     TmpIsPrivate, TmpIsWritten, StaleTmpNeverBlocks
<1>4. QED
  BY <1>1, <1>2, <1>3, <1>5 DEF Next

\* When one `remove` runs at a time, whatever else runs, dies or is cut off, the
\* temporary file is that command's alone and complete when it is renamed; and a
\* leftover one is gone when the command makes its own.
THEOREM RewriteInvariant == Discipline # "any" /\ Spec => []RewriteInv
<1> SUFFICES ASSUME Discipline # "any" PROVE Spec => []RewriteInv
  OBVIOUS
<1>1. RewriteInv /\ [Next]_storeVars => RewriteInv'
  BY NextRewriteInv
<1>2. QED
  BY <1>1, InitRewriteInv, PTL DEF Spec

\* A temporary file that a killed `remove` left behind never makes a later one's
\* create_new fail: the unlink before it has taken it away.
THEOREM StaleTmpHarmless == Discipline # "any" /\ Spec => []StaleTmpNeverBlocks
<1>1. RewriteInv => StaleTmpNeverBlocks
  BY DEF RewriteInv
<1>2. QED
  BY <1>1, RewriteInvariant, PTL

\* ... so the configuration is only ever replaced by a complete file that is on
\* disk, or by what its name led to on disk when the power went.
THEOREM RewriteIsWhole == Discipline # "any" /\ Spec => RewritePublishesWhole
<1> SUFFICES ASSUME Discipline # "any" PROVE Spec => RewritePublishesWhole
  OBVIOUS
<1> DEFINE Whole ==
      path["config"] \notin {None, path'["config"]}
         => \/ path' = dir
            \/ \E p \in Procs : /\ pc[p] = "rename"
                                /\ data[path'["config"]] = buf[p]
                                /\ disk[path'["config"]] = buf[p]
<1>1. RewriteInv /\ [Next]_storeVars => [Whole]_storeVars
  <2> SUFFICES ASSUME RewriteInv, Next, path["config"] \notin {None, path'["config"]},
                      path' # dir
               PROVE  \E p \in Procs : /\ pc[p] = "rename"
                                       /\ data[path'["config"]] = buf[p]
                                       /\ disk[path'["config"]] = buf[p]
    OBVIOUS
  <2>0. TypeOK
    BY DEF RewriteInv
  <2>1. PICK p \in Procs : Step(p)
    BY DEF Next, PowerLoss, WriteBack
  <2>2. ASSUME ~RenameTmp(p) PROVE FALSE
    <3>1. CASE UnlinkTmp(p) \/ RenameFails(p)
      BY <2>0, <3>1 DEF UnlinkTmp, RenameFails, TypeOK, Paths
    <3>2. CASE CreateTmp(p)
      BY <2>0, <3>2 DEF CreateTmp, NewFile, FilesStay, TypeOK, Paths
    <3>3. CASE MakeConfig(p)
      BY <2>0, <3>3 DEF MakeConfig, NewFile, FilesStay, TypeOK, Paths
    <3>4. CASE path' = path
      BY <3>4
    <3>5. QED
      BY <2>1, <2>2, <3>1, <3>2, <3>3, <3>4
      DEF Step, StartAdd, AddLoad, OpenAppend, AppendBlock, AppendCutShort, StartRemove,
          RemoveLoad, RereadFound, RereadNothing, UnlinkFails, FillPart, FillRest, Sync,
          StartInit, SeedConfig, Abort, FilesStay, Continue
  <2>3. pc[p] = "rename" /\ path'["config"] = path["tmp"]
    BY <2>0, <2>2 DEF RenameTmp, FilesStay, TypeOK, Paths
  <2>4. QED
    BY <2>3 DEF RewriteInv, TmpIsWritten
<1>2. QED
  BY <1>1, RewriteInvariant, PTL DEF Spec, RewritePublishesWhole

-----------------------------------------------------------------------------
\* One command at a time.  What the file holds, and what a power loss leaves of it,
\* is a matter of the inodes that the configuration's name leads to, here and on
\* disk: a step that leaves them and the name alone leaves all of that as it is.
LEMMA SameFile ==
    ASSUME TypeOK, path'["config"] = path["config"], dir' = dir,
           \A j \in Inodes \cap {path["config"], dir["config"]} :
              data'[j] = data[j] /\ disk'[j] = disk[j]
    PROVE  UNCHANGED <<Published, Durable, Remains>>
<1>1. path["config"] # None => path["config"] \in Inodes
  BY DEF TypeOK, Paths
<1>2. dir["config"] # None => dir["config"] \in Inodes
  BY DEF TypeOK, Paths
<1>3. UNCHANGED <<Published, Durable>>
  BY <1>1 DEF Published, Durable
<1>4. UNCHANGED Remains
  BY <1>2 DEF Remains
<1>5. QED
  BY <1>3, <1>4

\* The steps that take the temporary file away leave the configuration.
LEMMA UnlinkKeepsFile ==
    ASSUME TypeOK, TmpIsPrivate, path'["config"] = path["config"], Unnamed(path["tmp"])
    PROVE  UNCHANGED <<Published, Durable, Remains>>
<1>1. dir["config"] \in {dir[n] : n \in Paths} /\ dir' = dir
  BY UnnamedTypes DEF Paths
<1>2. \A j \in Inodes : j # path["tmp"] => data'[j] = data[j] /\ disk'[j] = disk[j]
  BY UnnamedTypes
<1>3. path["config"] \in Inodes => path["config"] # path["tmp"]
  BY StoreAssumption DEF TmpIsPrivate
<1>4. dir["config"] \in Inodes => dir["config"] # path["tmp"]
  BY StoreAssumption DEF TmpIsPrivate
<1>5. QED
  BY <1>1, <1>2, <1>3, <1>4, SameFile

\* So do those that make it.
LEMMA CreateKeepsFile ==
    ASSUME TypeOK, NEW i \in Inodes, NewFile("tmp", i)
    PROVE  UNCHANGED <<Published, Durable, Remains>>
<1>1. path'["config"] = path["config"] /\ dir' = dir /\ path["config"] # i /\ dir["config"] # i
  BY NewFileTypes DEF Paths
<1>2. \A j \in Inodes : j # i => data'[j] = data[j] /\ disk'[j] = disk[j]
  BY NewFileTypes DEF Paths
<1>3. QED
  BY <1>1, <1>2, SameFile

\* And those that write to it.
LEMMA FillKeepsFile ==
    ASSUME TypeOK, FilesOpen, TmpIsPrivate, NEW p \in Procs,
           FillPart(p) \/ FillRest(p) \/ Sync(p)
    PROVE  UNCHANGED <<Published, Durable, Remains>>
<1>1. pc[p] \in {"fill", "sync"} /\ path' = path /\ dir' = dir
  BY DEF FillPart, FillRest, Sync
<1>2. fd[p] \in Inodes /\ fd[p] # path["config"] /\ fd[p] # dir["config"]
  BY <1>1, StoreAssumption DEF FilesOpen, TmpIsPrivate
<1>3. \A j \in Inodes : j # fd[p] => data'[j] = data[j] /\ disk'[j] = disk[j]
  BY DEF FillPart, FillRest, Sync, TypeOK
<1>4. QED
  BY <1>1, <1>2, <1>3, SameFile

\* When one command runs at a time, a step leaves the others idle.
LEMMA StepCommandsAlone ==
    ASSUME SerialInv, Discipline = "serial", NEW p \in Procs, Step(p)
    PROVE  CommandsAlone' /\ \A q \in Procs : q # p => pc[q] = "idle" /\ pc'[q] = "idle"
<1>0. TypeOK /\ CommandsAlone
  BY DEF SerialInv, RewriteInv
<1>1. \A q \in Procs : q # p => pc'[q] = pc[q]
  BY <1>0 DEF TypeOK, Step, StartAdd, AddLoad, OpenAppend, AppendBlock, AppendCutShort,
     StartRemove, RemoveLoad, RereadFound, RereadNothing, UnlinkTmp, UnlinkFails,
     CreateTmp, FillPart, FillRest, Sync, RenameTmp, RenameFails, StartInit, MakeConfig, SeedConfig, Abort,
     Continue, End, Goto
<1>2. \A q \in Procs : q # p => pc[q] = "idle"
  <2>1. CASE pc[p] # "idle"
    BY <1>0, <2>1 DEF CommandsAlone
  <2>2. CASE pc[p] = "idle"
    BY <2>2 DEF Step, StartAdd, AddLoad, OpenAppend, AppendBlock, AppendCutShort,
       StartRemove, RemoveLoad, RereadFound, RereadNothing, UnlinkTmp, UnlinkFails,
       CreateTmp, FillPart, FillRest, Sync, RenameTmp, RenameFails, StartInit, MakeConfig, SeedConfig, Abort,
       MayStart
  <2>3. QED
    BY <2>1, <2>2
<1>3. QED
  BY <1>1, <1>2 DEF CommandsAlone

\* The command that runs alone has read what the file holds now.
LEMMA StepReadIsCurrent ==
    ASSUME SerialInv, Discipline = "serial", NEW p \in Procs, Step(p)
    PROVE  ReadIsCurrent'
<1>0. /\ TypeOK /\ FilesOpen /\ TmpIsPrivate /\ TmpIsWritten /\ ReadIsCurrent
      /\ \A q \in Procs : q # p => pc'[q] = "idle"
  BY StepCommandsAlone DEF SerialInv, RewriteInv
<1>1. ASSUME pc'[p] \in {"idle", "add_load", "remove_load", "make"} PROVE ReadIsCurrent'
  BY <1>0, <1>1 DEF ReadIsCurrent
<1>2. CASE StartAdd(p) \/ StartRemove(p) \/ StartInit(p)
  BY <1>0, <1>1, <1>2 DEF StartAdd, StartRemove, StartInit, Continue, Goto, TypeOK
<1>3. ASSUME End(p) PROVE ReadIsCurrent'
  BY <1>0, <1>1, <1>3, EndIsQuiet
<1>4. CASE AppendBlock(p) \/ AppendCutShort(p) \/ RereadNothing(p) \/ RenameTmp(p)
           \/ RenameFails(p) \/ SeedConfig(p) \/ Abort(p)
  BY <1>3, <1>4 DEF AppendBlock, AppendCutShort, RereadNothing, RenameTmp, RenameFails,
     SeedConfig, Abort
<1>5. CASE AddLoad(p)
  <2>1. CASE Published # Absent /\ Loads(Published) /\ HasRoom(Published)
    <3>1. Continue(p, "open_append")
      BY <1>5, <2>1 DEF AddLoad
    <3>2. pc'[p] = "open_append" /\ UNCHANGED <<path, data>>
      BY <1>0, <3>1 DEF Continue, Goto, FilesStay, TypeOK
    <3>3. Published' = Published
      BY <3>2 DEF Published
    <3>4. QED
      BY <1>0, <2>1, <3>2, <3>3 DEF ReadIsCurrent
  <2>2. CASE ~(Published # Absent /\ Loads(Published) /\ HasRoom(Published))
    BY <1>3, <1>5, <2>2 DEF AddLoad
  <2>3. QED
    BY <2>1, <2>2
<1>6. CASE OpenAppend(p)
  <2>1. /\ pc[p] = "open_append" /\ pc'[p] = "append" /\ fd'[p] = path["config"]
        /\ UNCHANGED <<path, data>>
    BY <1>0, <1>6 DEF OpenAppend, Goto, FilesStay, TypeOK
  <2>2. Published' = Published
    BY <2>1 DEF Published
  <2>3. QED
    BY <1>0, <2>1, <2>2 DEF ReadIsCurrent
<1>7. CASE RemoveLoad(p)
  <2>1. CASE Published # Absent /\ Loads(Published)
    <3>1. Continue(p, "reread")
      BY <1>7, <2>1 DEF RemoveLoad
    <3>2. pc'[p] = "reread" /\ UNCHANGED <<path, data>>
      BY <1>0, <3>1 DEF Continue, Goto, FilesStay, TypeOK
    <3>3. Published' = Published
      BY <3>2 DEF Published
    <3>4. QED
      BY <1>0, <2>1, <3>2, <3>3 DEF ReadIsCurrent
  <2>2. CASE ~(Published # Absent /\ Loads(Published))
    BY <1>3, <1>7, <2>2 DEF RemoveLoad
  <2>3. QED
    BY <2>1, <2>2
<1>8. CASE RereadFound(p)
  <2>1. /\ pc[p] = "reread" /\ pc'[p] = "unlink" /\ UNCHANGED <<path, data, key>>
        /\ buf'[p] = Without(Published, key[p]) /\ Holds(Published, key[p])
    BY <1>0, <1>8 DEF RereadFound, Goto, FilesStay, TypeOK
  <2>2. Published' = Published
    BY <2>1 DEF Published
  <2>3. QED
    BY <1>0, <2>1, <2>2 DEF ReadIsCurrent
<1>9. ASSUME UNCHANGED Published, UNCHANGED <<key, buf>>,
             pc[p] \in {"unlink", "create", "create_over", "fill", "sync"},
             pc'[p] \in {"create", "create_over", "fill", "sync", "rename"}
      PROVE  ReadIsCurrent'
  BY <1>0, <1>9 DEF ReadIsCurrent
<1>10. CASE UnlinkTmp(p) \/ UnlinkFails(p)
  <2>1. CASE UnlinkTmp(p)
    <3>1. /\ pc[p] = "unlink" /\ pc'[p] = "create" /\ UNCHANGED <<key, buf>>
          /\ path'["config"] = path["config"] /\ Unnamed(path["tmp"])
      BY <1>0, <2>1 DEF UnlinkTmp, Goto, ArgsStay, TypeOK, Paths
    <3>2. UNCHANGED Published
      BY <1>0, <3>1, UnlinkKeepsFile
    <3>3. QED
      BY <1>9, <3>1, <3>2
  <2>2. CASE UnlinkFails(p)
    <3>1. /\ pc[p] = "unlink" /\ pc'[p] = "create_over" /\ UNCHANGED <<key, buf, path, data>>
      BY <1>0, <2>2 DEF UnlinkFails, Continue, Goto, ArgsStay, FilesStay, TypeOK
    <3>2. UNCHANGED Published
      BY <3>1 DEF Published
    <3>3. QED
      BY <1>9, <3>1, <3>2
  <2>3. QED
    BY <1>10, <2>1, <2>2
<1>11. CASE CreateTmp(p)
  <2>1. CASE path["tmp"] = None
    <3>1. PICK i \in Inodes : NewFile("tmp", i)
      BY <1>11, <2>1 DEF CreateTmp
    <3>2. /\ pc[p] \in {"create", "create_over"} /\ pc'[p] = "fill" /\ UNCHANGED <<key, buf>>
      BY <1>0, <1>11, <2>1 DEF CreateTmp, Goto, ArgsStay, TypeOK
    <3>3. UNCHANGED Published
      BY <1>0, <3>1, CreateKeepsFile
    <3>4. QED
      BY <1>9, <3>2, <3>3
  <2>2. CASE path["tmp"] # None
    BY <1>3, <1>11, <2>2 DEF CreateTmp
  <2>3. QED
    BY <2>1, <2>2
<1>12. CASE FillPart(p) \/ FillRest(p) \/ Sync(p)
  <2>1. /\ pc[p] \in {"fill", "sync"} /\ pc'[p] \in {"fill", "sync", "rename"}
        /\ UNCHANGED <<key, buf>>
    BY <1>0, <1>12 DEF FillPart, FillRest, Sync, Goto, ArgsStay, TypeOK
  <2>2. UNCHANGED Published
    BY <1>0, <1>12, FillKeepsFile
  <2>3. QED
    BY <1>9, <2>1, <2>2
<1>13. CASE MakeConfig(p)
  <2>1. CASE path["config"] = None
    <3>1. PICK i \in Inodes : NewFile("config", i) /\ fd' = [fd EXCEPT ![p] = i]
      BY <1>13, <2>1 DEF MakeConfig
    <3>2. pc'[p] = "seed" /\ fd'[p] = path'["config"]
      BY <1>0, <1>13, <2>1, <3>1 DEF MakeConfig, NewFile, Goto, TypeOK, Paths
    <3>3. QED
      BY <1>0, <3>2 DEF ReadIsCurrent
  <2>2. CASE path["config"] # None
    BY <1>3, <1>13, <2>2 DEF MakeConfig
  <2>3. QED
    BY <2>1, <2>2
<1>14. QED
  BY <1>2, <1>4, <1>5, <1>6, <1>7, <1>8, <1>10, <1>11, <1>12, <1>13 DEF Step

\* The two modules mean the same by a part of a file, and by an edit of one.
LEMMA SameWords ==
    /\ Edits!Content = Content /\ Edits!Empty = Empty /\ Edits!Seed = Seed
    /\ \A c : /\ Edits!Loads(c) = Loads(c) /\ Edits!HasRoom(c) = HasRoom(c)
    /\ \A c, r : Edits!With(c, r) = With(c, r) /\ Edits!CutShort(c, r) = CutShort(c, r)
    /\ \A c, k : Edits!Holds(c, k) = Holds(c, k) /\ Edits!Without(c, k) = Without(c, k)
    /\ \A d, c : Edits!Between(d, c) = Between(d, c)
<1>1. Edits!Content = Content /\ Edits!Empty = Empty /\ Edits!Seed = Seed
  BY DEF Edits!Content, Content, Edits!Empty, Empty, Edits!Seed, Seed
<1>2. \A c : Edits!Loads(c) = Loads(c) /\ Edits!HasRoom(c) = HasRoom(c)
  BY DEF Edits!Loads, Loads, Edits!HasRoom, HasRoom, Edits!Readable, Readable, Edits!Size,
     Size, Edits!Cardinality, Cardinality
<1>3. \A c, r : Edits!With(c, r) = With(c, r) /\ Edits!CutShort(c, r) = CutShort(c, r)
  BY DEF Edits!With, With, Edits!CutShort, CutShort, Edits!Torn, Torn
<1>4. \A c, k : Edits!Holds(c, k) = Holds(c, k) /\ Edits!Without(c, k) = Without(c, k)
  BY DEF Edits!Holds, Holds, Edits!Without, Without
<1>5. \A d, c : Edits!Between(d, c) = Between(d, c)
  BY DEF Edits!Between, Between, Edits!RulesBetween, RulesBetween, Edits!CutsOf, CutsOf
<1>6. QED
  BY <1>1, <1>2, <1>3, <1>4, <1>5

\* What may be left of a content is a part of it.
LEMMA LeftOfContent ==
    ASSUME NEW d, NEW c \in Content
    PROVE  c # Absent /\ Edits!Left(d, c) = Between(d, c)
<1>1. c # Absent
  BY ContentsAssumption
<1>2. QED
  BY <1>1, SameWords DEF Edits!Left

\* A write to the file the configuration names makes it grow; on disk its name leads
\* to it or still to an earlier file.
LEMMA WriteGrows ==
    ASSUME TypeOK, TypeOK', path["config"] # None, NEW c,
           UNCHANGED <<path, dir, disk>>, data' = [data EXCEPT ![path["config"]] = c]
    PROVE  Published' = c /\ Edits!Grows
<1>1. path["config"] \in Inodes /\ path'["config"] # None
  BY DEF TypeOK, Paths
<1>2. Published' = c /\ Durable' = Durable
  BY <1>1 DEF Published, Durable, TypeOK
<1>3. Edits!Left(Durable', Published') = Between(disk'[path'["config"]], data'[path'["config"]])
  <2>1. data'[path'["config"]] \in Content
    BY <1>1 DEF TypeOK
  <2>2. Published' = data'[path'["config"]] /\ Durable' = disk'[path'["config"]]
    BY <1>1 DEF Published, Durable
  <2>3. QED
    BY <2>1, <2>2, LeftOfContent
<1>4. CASE dir["config"] = path["config"]
  <2>1. Remains' = Between(disk'[path'["config"]], data'[path'["config"]])
    BY <1>1, <1>4 DEF Remains
  <2>2. QED
    BY <1>2, <1>3, <2>1 DEF Edits!Grows
<1>5. CASE dir["config"] # path["config"]
  <2>1. dir["config"] # None => data'[dir["config"]] = data[dir["config"]]
    BY <1>5 DEF TypeOK, Paths
  <2>2. Remains' = Remains
    BY <2>1 DEF Remains
  <2>3. QED
    BY <1>2, <2>2 DEF Edits!Grows
<1>6. QED
  BY <1>4, <1>5

\* The writing of the directory is that of ConfigFile.
LEMMA WriteBackIsEdit ==
    ASSUME TypeOK, WriteBack
    PROVE  UNCHANGED <<Published, Durable>> /\ Edits!WriteBack
<1>1. path["config"] \in {path[n] : n \in Paths}
  BY DEF Paths
<1>2. path["config"] # None =>
         /\ path["config"] \in Inodes
         /\ data'[path["config"]] = data[path["config"]]
         /\ disk'[path["config"]] = disk[path["config"]]
  BY <1>1, WriteBackTypes DEF TypeOK, Paths
<1>3. path' = path /\ dir' = path
  BY DEF WriteBack
<1>4. UNCHANGED <<Published, Durable>>
  BY <1>2, <1>3 DEF Published, Durable
<1>5. Remains' = Edits!Left(Durable, Published)
  <2>1. CASE path["config"] = None
    BY <1>3, <2>1 DEF Remains, Published, Edits!Left
  <2>2. CASE path["config"] # None
    <3>1. data[path["config"]] \in Content
      BY <1>2, <2>2 DEF TypeOK
    <3>2. Edits!Left(Durable, Published) = Between(disk[path["config"]], data[path["config"]])
      BY <2>2, <3>1, LeftOfContent DEF Published, Durable
    <3>3. QED
      BY <1>2, <1>3, <2>2, <3>2 DEF Remains
  <2>3. QED
    BY <2>1, <2>2
<1>6. QED
  BY <1>4, <1>5 DEF Edits!WriteBack

\* At the start nothing has been read, so nothing that was read is out of date.
LEMMA InitSerialInv == Init => SerialInv
<1>1. Init => CommandsAlone /\ ReadIsCurrent
  BY DEF Init, CommandsAlone, ReadIsCurrent
<1>2. QED
  BY <1>1, InitRewriteInv DEF SerialInv

\* Every step keeps the invariant of commands that run one at a time.
LEMMA NextSerialInv ==
    ASSUME Discipline = "serial", SerialInv, [Next]_storeVars
    PROVE  SerialInv'
<1>1. RewriteInv'
  BY NextRewriteInv DEF SerialInv
<1>2. CASE \E p \in Procs : Step(p)
  BY <1>1, <1>2, StepCommandsAlone, StepReadIsCurrent DEF SerialInv
<1>3. CASE PowerLoss
  BY <1>1, <1>3 DEF PowerLoss, SerialInv, CommandsAlone, ReadIsCurrent
<1>4. CASE WriteBack
  <2>1. UNCHANGED <<path, pc, fd, key, buf, Published>>
    BY <1>4, WriteBackIsEdit DEF WriteBack, SerialInv, RewriteInv
  <2>2. QED
    BY <1>1, <2>1 DEF SerialInv, CommandsAlone, ReadIsCurrent
<1>5. CASE UNCHANGED storeVars
  <2>1. Published' = Published
    BY <1>5 DEF storeVars, Published
  <2>2. QED
    BY <1>1, <1>5, <2>1 DEF storeVars, SerialInv, CommandsAlone, ReadIsCurrent
<1>6. QED
  BY <1>2, <1>3, <1>4, <1>5 DEF Next

\* The steps that change the file are edits of it, and the others leave it.
LEMMA StepIsEdit ==
    ASSUME SerialInv, NEW p \in Procs, Step(p)
    PROVE  Edits!Next \/ UNCHANGED <<Published, Durable, Remains>>
<1>0. /\ TypeOK /\ FilesOpen /\ TmpIsPrivate /\ TmpIsWritten /\ ReadIsCurrent /\ TypeOK'
  BY StepTypes DEF SerialInv, RewriteInv
<1>1. CASE UNCHANGED <<path, dir, data, disk>>
  BY <1>1 DEF Published, Durable, Remains
<1>2. CASE AppendBlock(p)
  <2>1. /\ pc[p] = "append" /\ fd[p] \in Inodes /\ fd[p] = path["config"]
        /\ Published # Absent /\ Loads(Published) /\ HasRoom(Published)
    BY <1>0, <1>2 DEF AppendBlock, FilesOpen, ReadIsCurrent
  <2>2. /\ UNCHANGED <<path, dir, disk>> /\ path["config"] # None
        /\ data' = [data EXCEPT ![path["config"]] = With(Published, rule[p])]
    BY <1>0, <1>2, <2>1, StoreAssumption DEF AppendBlock, TypeOK, Published
  <2>3. Published' = With(Published, rule[p]) /\ Edits!Grows
    BY <1>0, <2>2, WriteGrows
  <2>4. rule[p] \in Rules
    BY <1>0 DEF TypeOK
  <2>5. Edits!Add(rule[p])
    BY <2>1, <2>3, SameWords DEF Edits!Add
  <2>6. QED
    BY <2>4, <2>5 DEF Edits!Next
<1>3. CASE AppendCutShort(p)
  <2>1. /\ pc[p] = "append" /\ fd[p] \in Inodes /\ fd[p] = path["config"]
        /\ Published # Absent /\ Loads(Published) /\ HasRoom(Published)
    BY <1>0, <1>3 DEF AppendCutShort, FilesOpen, ReadIsCurrent
  <2>2. PICK left \in CutShort(Published, rule[p]) : data' = [data EXCEPT ![path["config"]] = left]
    BY <1>3, <2>1, StoreAssumption DEF AppendCutShort, Published
  <2>3. UNCHANGED <<path, dir, disk>> /\ path["config"] # None
    BY <1>3, <2>1, StoreAssumption DEF AppendCutShort
  <2>4. Published' = left /\ Edits!Grows
    BY <1>0, <2>2, <2>3, WriteGrows
  <2>5. rule[p] \in Rules
    BY <1>0 DEF TypeOK
  <2>6. Edits!AddFails(rule[p])
    BY <2>1, <2>2, <2>4, SameWords DEF Edits!AddFails
  <2>7. QED
    BY <2>5, <2>6 DEF Edits!Next
<1>4. CASE UnlinkTmp(p) \/ RenameFails(p)
  <2>1. /\ path'["config"] = path["config"] /\ Unnamed(path["tmp"])
    BY <1>0, <1>4 DEF UnlinkTmp, RenameFails, TypeOK, Paths
  <2>2. QED
    BY <1>0, <2>1, UnlinkKeepsFile
<1>5. CASE CreateTmp(p)
  <2>1. CASE path["tmp"] = None
    <3>1. PICK i \in Inodes : NewFile("tmp", i)
      BY <1>5, <2>1 DEF CreateTmp
    <3>2. QED
      BY <1>0, <3>1, CreateKeepsFile
  <2>2. CASE path["tmp"] # None
    BY <1>1, <1>5, <2>2 DEF CreateTmp, FilesStay
  <2>3. QED
    BY <2>1, <2>2
<1>6. CASE FillPart(p) \/ FillRest(p) \/ Sync(p)
  BY <1>0, <1>6, FillKeepsFile
<1>7. CASE RenameTmp(p)
  <2>1. /\ pc[p] = "rename" /\ Published # Absent /\ Loads(Published)
        /\ Holds(Published, key[p]) /\ buf[p] = Without(Published, key[p])
        /\ path["tmp"] \in Inodes /\ data[path["tmp"]] = buf[p] /\ disk[path["tmp"]] = buf[p]
    BY <1>0, <1>7 DEF RenameTmp, ReadIsCurrent, TmpIsWritten
  <2>2. /\ path'["config"] = path["tmp"] /\ Unnamed(path["config"])
        /\ path["tmp"] # path["config"]
    BY <1>0, <1>7, <2>1, StoreAssumption DEF RenameTmp, TypeOK, Paths, TmpIsPrivate
  <2>3. data'[path["tmp"]] = buf[p] /\ disk'[path["tmp"]] = buf[p]
    BY <1>0, <2>1, <2>2, UnnamedTypes
  <2>4. Published' = Without(Published, key[p]) /\ Durable' = Published'
    BY <2>1, <2>2, <2>3, StoreAssumption DEF Published, Durable
  <2>5. UNCHANGED Remains
    <3>1. dir' = dir /\ dir["config"] \in {dir[n] : n \in Paths}
      BY <1>0, <2>2, UnnamedTypes DEF Paths
    <3>2. dir["config"] # None => /\ data'[dir["config"]] = data[dir["config"]]
                                 /\ disk'[dir["config"]] = disk[dir["config"]]
      BY <1>0, <2>2, <3>1, UnnamedTypes DEF TypeOK, Paths
    <3>3. QED
      BY <3>1, <3>2 DEF Remains
  <2>6. Edits!Remove(key[p])
    BY <2>1, <2>4, <2>5, SameWords DEF Edits!Remove
  <2>7. key[p] \in Keys
    BY <1>0 DEF TypeOK
  <2>8. QED
    BY <2>6, <2>7 DEF Edits!Next
<1>8. CASE MakeConfig(p)
  <2>1. CASE path["config"] = None
    <3>1. PICK i \in Inodes : NewFile("config", i)
      BY <1>8, <2>1 DEF MakeConfig
    <3>2. /\ path'["config"] = i /\ data'[i] = Empty /\ disk'[i] = Empty
          /\ dir' = dir /\ dir["config"] # i
          /\ \A j \in Inodes : j # i => data'[j] = data[j] /\ disk'[j] = disk[j]
      BY <1>0, <3>1, NewFileTypes DEF Paths
    <3>3. Published = Absent /\ Published' = Empty /\ Durable' = Empty
      BY <2>1, <3>2, StoreAssumption DEF Published, Durable
    <3>4. dir["config"] # None => dir["config"] \in Inodes
      BY <1>0 DEF TypeOK, Paths
    <3>5. UNCHANGED Remains
      BY <3>2, <3>4 DEF Remains
    <3>6. QED
      BY <3>3, <3>5, SameWords DEF Edits!Next, Edits!Create
  <2>2. CASE path["config"] # None
    BY <1>1, <1>8, <2>2 DEF MakeConfig, FilesStay
  <2>3. QED
    BY <2>1, <2>2
<1>9. CASE SeedConfig(p)
  <2>1. PICK part \in Between(data[fd[p]], Seed) : data' = [data EXCEPT ![fd[p]] = part]
    BY <1>9 DEF SeedConfig
  <2>2. fd[p] = path["config"] /\ fd[p] \in Inodes /\ UNCHANGED <<path, dir, disk>>
    BY <1>0, <1>9 DEF SeedConfig, ReadIsCurrent, FilesOpen
  <2>3. Published = data[fd[p]] /\ Published \in Content /\ Published # Absent
    BY <1>0, <2>2, StoreAssumption, ContentsAssumption DEF Published, TypeOK
  <2>4. Published' = part /\ Edits!Grows
    BY <1>0, <2>1, <2>2, StoreAssumption, WriteGrows
  <2>5. Edits!FillSeed
    BY <2>1, <2>3, <2>4, SameWords DEF Edits!FillSeed
  <2>6. QED
    BY <2>5 DEF Edits!Next
<1>10. QED
  BY <1>1, <1>2, <1>3, <1>4, <1>5, <1>6, <1>7, <1>8, <1>9
  DEF Step, StartAdd, AddLoad, OpenAppend, StartRemove, RemoveLoad, RereadFound,
      RereadNothing, UnlinkFails, StartInit, Abort, FilesStay, Continue

\* A power loss is the power loss of ConfigFile.
LEMMA PowerLossIsEdit ==
    ASSUME TypeOK, PowerLoss
    PROVE  Edits!Next
<1> DEFINE named == {dir[n] : n \in Paths} \ {None}
<1>1. PICK left \in [named -> UNION {Between(disk[i], data[i]) : i \in named}] :
         /\ \A i \in named : left[i] \in Between(disk[i], data[i])
         /\ data' = [i \in Inodes |-> IF i \in named THEN left[i] ELSE Empty]
  BY DEF PowerLoss
<1>2. path' = dir /\ dir' = dir /\ disk' = data'
  BY DEF PowerLoss
<1>3. CASE dir["config"] = None
  <2>1. Published' = Absent /\ Durable' = Absent /\ Remains = {Absent} /\ Remains' = {Absent}
    BY <1>2, <1>3 DEF Published, Durable, Remains
  <2>2. QED
    BY <2>1 DEF Edits!Next, Edits!PowerLoss
<1>4. CASE dir["config"] # None
  <2>1. dir["config"] \in Inodes /\ dir["config"] \in named
    BY <1>4 DEF TypeOK, Paths
  <2>2. data'[dir["config"]] \in Between(disk[dir["config"]], data[dir["config"]])
    BY <1>1, <2>1
  <2>3. Published' \in Remains /\ Durable' = Published'
    BY <1>2, <1>4, <2>2 DEF Published, Durable, Remains
  <2>4. Remains' = {Published'}
    BY <1>2, <1>4 DEF Published, Remains, Between
  <2>5. QED
    BY <2>3, <2>4 DEF Edits!Next, Edits!PowerLoss
<1>5. QED
  BY <1>3, <1>4

\* When the user runs one command at a time, the processes implement the whole
\* edits of ConfigFile, whatever is killed and whenever the power goes; and what
\* a power loss then leaves is a part of the present file that includes all that
\* is on disk of it, or what the directory on disk still names.
THEOREM SerialEdits == Discipline = "serial" /\ Spec => ImplementsConfigFile
<1> SUFFICES ASSUME Discipline = "serial" PROVE Spec => ImplementsConfigFile
  OBVIOUS
<1>1. Init => Edits!Init
  <2> SUFFICES ASSUME Init PROVE Edits!Init
    OBVIOUS
  <2>1. Published = Absent \/ (Published \in Content /\ Loads(Published))
    BY StoreAssumption, ContentFacts DEF Init, Published, Paths
  <2>2. Durable = Published
    BY DEF Init, Published, Durable
  <2>3. Remains = {Published}
    BY DEF Init, Published, Remains, Between
  <2>4. QED
    BY <2>1, <2>2, <2>3, SameWords DEF Edits!Init
<1>2. SerialInv /\ [Next]_storeVars => SerialInv'
  BY NextSerialInv
<1>3. SerialInv /\ [Next]_storeVars => [Edits!Next]_Edits!fileVars
  <2> SUFFICES ASSUME SerialInv, [Next]_storeVars
               PROVE  Edits!Next \/ UNCHANGED <<Published, Durable, Remains>>
    BY DEF Edits!fileVars
  <2>1. TypeOK
    BY DEF SerialInv, RewriteInv
  <2>2. CASE Next
    BY <2>1, <2>2, StepIsEdit, WriteBackIsEdit, PowerLossIsEdit DEF Next, Edits!Next
  <2>3. CASE UNCHANGED storeVars
    BY <2>3 DEF storeVars, Published, Durable, Remains
  <2>4. QED
    BY <2>2, <2>3
<1>4. QED
  BY <1>1, <1>2, <1>3, InitSerialInv, PTL DEF Spec, ImplementsConfigFile, Edits!Spec

\* When the user runs one command at a time, what a command read is what the
\* file holds until the command changes it.
THEOREM SerialInvariant == Discipline = "serial" /\ Spec => []SerialInv
<1> SUFFICES ASSUME Discipline = "serial" PROVE Spec => []SerialInv
  OBVIOUS
<1>1. SerialInv /\ [Next]_storeVars => SerialInv'
  BY NextSerialInv
<1>2. QED
  BY <1>1, InitSerialInv, PTL DEF Spec

\* One valid block more in a file that loads, is written in blocks, has room for it
\* and is not as long as it may be: the file loads.
LEMMA RoomForOne ==
    ASSUME NEW c \in Content, NEW r \in Rules \ Rejected, Loads(c), HasRoom(c),
           ~c.inline, Size(c) < MaxSize
    PROVE  Loads(With(c, r))
<1>1. IsFiniteSet(c.rules)
  BY FS_Subset, ContentsAssumption DEF Content
<1>2. /\ Cardinality(c.rules) \in Nat
      /\ \/ Cardinality(c.rules \cup {r}) = Cardinality(c.rules)
         \/ Cardinality(c.rules \cup {r}) = Cardinality(c.rules) + 1
  BY <1>1, FS_AddElement, FS_CardinalityType
<1>3. /\ With(c, r).head = c.head /\ With(c, r).torn = (c.torn \/ c.inline)
      /\ With(c, r).rules = c.rules \cup {r} /\ With(c, r).rest = c.rest
  BY DEF With, Content
<1>4. MaxRules \in Nat /\ MaxSize \in Nat /\ c.rest \in Nat
  BY ContentsAssumption DEF Content
<1>5. Cardinality(c.rules) + 1 <= MaxRules /\ c.rest + Cardinality(c.rules) < MaxSize
  BY DEF HasRoom, Size
<1>6. Cardinality(With(c, r).rules) <= MaxRules
  BY <1>2, <1>3, <1>4, <1>5
<1>7. With(c, r).rest + Cardinality(With(c, r).rules) <= MaxSize
  BY <1>2, <1>3, <1>4, <1>5
<1>8. QED
  BY <1>3, <1>6, <1>7 DEF Loads, Readable, Size

\* When the user runs one command at a time, an append that completes leaves a
\* file that the next command loads: of a rule that the load takes too, in a file
\* of blocks that is not as long as a file may be.
THEOREM AddsKeepLoading == Discipline = "serial" /\ Spec => AddKeepsLoading
<1> SUFFICES ASSUME Discipline = "serial" PROVE Spec => AddKeepsLoading
  OBVIOUS
<1> DEFINE Kept == \A p \in Procs :
                     (/\ pc[p] = "append" /\ pc'[p] = "idle"
                      /\ Published' = With(Published, rule[p])
                      /\ rule[p] \notin Rejected /\ ~Published.inline /\ Size(Published) < MaxSize)
                        => Loads(Published')
<1>1. SerialInv => Kept
  <2> SUFFICES ASSUME SerialInv, NEW p \in Procs, pc[p] = "append",
                      Published' = With(Published, rule[p]), rule[p] \notin Rejected,
                      ~Published.inline, Size(Published) < MaxSize
               PROVE  Loads(Published')
    OBVIOUS
  <2>1. Published # Absent /\ Loads(Published) /\ HasRoom(Published)
    BY DEF SerialInv, ReadIsCurrent
  <2>2. Published \in Content /\ rule[p] \in Rules
    BY <2>1 DEF SerialInv, RewriteInv, TypeOK, Published, Paths
  <2>3. QED
    BY <2>1, <2>2, RoomForOne
<1>2. QED
  BY <1>1, SerialInvariant, PTL DEF Spec, AddKeepsLoading

-----------------------------------------------------------------------------
\* A part of the blocks, and fewer `add`s that owe one, fit where all of them do.
LEMMA FewerFit ==
    ASSUME NEW R \in SUBSET Rules, NEW S \in SUBSET R,
           NEW O \in SUBSET Procs, NEW P \in SUBSET O, Fits(R, O)
    PROVE  Fits(S, P)
<1>1. IsFiniteSet(R) /\ IsFiniteSet(O)
  BY FS_Subset, ContentsAssumption, StoreAssumption
<1>2. /\ Cardinality(S) \in Nat /\ Cardinality(R) \in Nat /\ Cardinality(S) <= Cardinality(R)
      /\ Cardinality(P) \in Nat /\ Cardinality(O) \in Nat /\ Cardinality(P) <= Cardinality(O)
  BY <1>1, FS_Subset, FS_CardinalityType
<1>3. MaxRules \in Nat /\ Cardinality(Procs) \in Nat
  BY ContentsAssumption, StoreAssumption, FS_CardinalityType
<1>4. QED
  BY <1>2, <1>3 DEF Fits

\* An `add` that appends its block owes it no longer.
LEMMA OneMoreFits ==
    ASSUME NEW R \in SUBSET Rules, NEW r \in Rules, NEW S \in SUBSET (R \cup {r}),
           NEW O \in SUBSET Procs, NEW p \in O, NEW P \in SUBSET (O \ {p}), Fits(R, O)
    PROVE  Fits(S, P)
<1>1. IsFiniteSet(R) /\ IsFiniteSet(O)
  BY FS_Subset, ContentsAssumption, StoreAssumption
<1>2. /\ Cardinality(R) \in Nat /\ IsFiniteSet(R \cup {r})
      /\ \/ Cardinality(R \cup {r}) = Cardinality(R)
         \/ Cardinality(R \cup {r}) = Cardinality(R) + 1
  BY <1>1, FS_AddElement, FS_CardinalityType
<1>3. Cardinality(S) \in Nat /\ Cardinality(S) <= Cardinality(R \cup {r})
  BY <1>2, FS_Subset, FS_CardinalityType
<1>4. /\ Cardinality(O) \in Nat /\ IsFiniteSet(O \ {p})
      /\ Cardinality(O \ {p}) = Cardinality(O) - 1
  BY <1>1, FS_RemoveElement, FS_CardinalityType
<1>5. Cardinality(P) \in Nat /\ Cardinality(P) <= Cardinality(O \ {p})
  BY <1>4, FS_Subset, FS_CardinalityType
<1>6. MaxRules \in Nat /\ Cardinality(Procs) \in Nat
  BY ContentsAssumption, StoreAssumption, FS_CardinalityType
<1>7. QED
  BY <1>2, <1>3, <1>4, <1>5, <1>6 DEF Fits

\* A file that has room for one rule has it for as many `add`s as there are.
LEMMA RoomFits ==
    ASSUME NEW R \in SUBSET Rules, Cardinality(R) + 1 <= MaxRules, NEW O \in SUBSET Procs
    PROVE  Fits(R, O)
<1>1. Cardinality(R) \in Nat
  BY FS_Subset, FS_CardinalityType, ContentsAssumption
<1>2. Cardinality(O) \in Nat /\ Cardinality(O) <= Cardinality(Procs)
  BY FS_Subset, FS_CardinalityType, StoreAssumption
<1>3. MaxRules \in Nat /\ Cardinality(Procs) \in Nat
  BY ContentsAssumption, StoreAssumption, FS_CardinalityType
<1>4. QED
  BY <1>1, <1>2, <1>3 DEF Fits

\* A file that loads fits when some process owes it nothing.
LEMMA LoadsFits ==
    ASSUME NEW R \in SUBSET Rules, Cardinality(R) <= MaxRules,
           NEW p \in Procs, NEW O \in SUBSET (Procs \ {p})
    PROVE  Fits(R, O)
<1>1. Cardinality(R) \in Nat
  BY FS_Subset, FS_CardinalityType, ContentsAssumption
<1>2. /\ Cardinality(Procs) \in Nat /\ IsFiniteSet(Procs \ {p})
      /\ Cardinality(Procs \ {p}) = Cardinality(Procs) - 1
  BY StoreAssumption, FS_RemoveElement, FS_CardinalityType
<1>3. Cardinality(O) \in Nat /\ Cardinality(O) <= Cardinality(Procs \ {p})
  BY <1>2, FS_Subset, FS_CardinalityType
<1>4. MaxRules \in Nat
  BY ContentsAssumption
<1>5. QED
  BY <1>1, <1>2, <1>3, <1>4 DEF Fits

\* What a half-written file holds of a content includes what is on disk of it, and is
\* no more rules: one that is cut stands for a whole one that is missing.
LEMMA BetweenCounts ==
    ASSUME NEW d \in Content, NEW c \in Content, NEW e \in Between(d, c)
    PROVE  d.rules \subseteq e.rules /\ Cardinality(e.rules) <= Cardinality(c.rules)
<1>1. IsFiniteSet(c.rules) /\ Cardinality(c.rules) \in Nat
  BY FS_Subset, FS_CardinalityType, ContentsAssumption DEF Content
<1>2. CASE d = c
  BY <1>1, <1>2 DEF Between
<1>3. CASE d # c
  <2>1. e.rules \in RulesBetween(d, c)
    BY <1>3 DEF Between
  <2>2. PICK whole \in SUBSET c.rules :
           /\ d.rules \subseteq whole
           /\ e.rules = whole \/ \E cut \in CutsOf(c.rules \ whole) : e.rules = whole \cup {cut}
    <3> DEFINE Of(rules) == {rules} \cup { rules \cup {cut} : cut \in CutsOf(c.rules \ rules) }
               Kept == { rules \in SUBSET c.rules : d.rules \subseteq rules }
    <3>1. e.rules \in UNION { Of(rules) : rules \in Kept }
      BY <2>1 DEF RulesBetween
    <3>2. PICK rules \in Kept : e.rules \in Of(rules)
      BY <3>1
    <3>3. QED
      BY <3>2
  <2>3. IsFiniteSet(whole) /\ Cardinality(whole) \in Nat /\ Cardinality(whole) <= Cardinality(c.rules)
    BY <1>1, FS_Subset, FS_CardinalityType
  <2>4. CASE e.rules = whole
    BY <2>2, <2>3, <2>4
  <2>5. CASE \E cut \in CutsOf(c.rules \ whole) : e.rules = whole \cup {cut}
    <3>1. PICK cut \in CutsOf(c.rules \ whole) : e.rules = whole \cup {cut}
      BY <2>5
    <3>2. PICK r \in c.rules \ whole : cut \in Cuts[r]
      BY DEF CutsOf
    <3>3. /\ Cardinality(whole \cup {r}) = Cardinality(whole) + 1
          /\ whole \cup {r} \subseteq c.rules
      BY <2>2, <2>3, <3>2, FS_AddElement
    <3>4. Cardinality(whole \cup {r}) <= Cardinality(c.rules)
      BY <1>1, <3>3, FS_Subset
    <3>5. /\ \/ Cardinality(e.rules) = Cardinality(whole)
             \/ Cardinality(e.rules) = Cardinality(whole) + 1
          /\ d.rules \subseteq e.rules
      BY <2>2, <2>3, <3>1, FS_AddElement
    <3>6. QED
      BY <1>1, <2>3, <3>3, <3>4, <3>5
  <2>6. QED
    BY <2>2, <2>4, <2>5
<1>4. QED
  BY <1>2, <1>3

\* A step of a process leaves what the others do, and have open, and hold.
LEMMA OthersStay ==
    ASSUME TypeOK, NEW p \in Procs, Step(p)
    PROVE  \A q \in Procs : q # p => pc'[q] = pc[q] /\ fd'[q] = fd[q] /\ buf'[q] = buf[q]
<1>1. CASE End(p)
  BY <1>1, EndIsQuiet
<1>2. CASE ~End(p)
  BY <1>2 DEF TypeOK, Step, StartAdd, AddLoad, OpenAppend, AppendBlock, AppendCutShort,
     StartRemove, RemoveLoad, RereadFound, RereadNothing, UnlinkTmp, UnlinkFails, CreateTmp,
     FillPart, FillRest, Sync, RenameTmp, RenameFails, StartInit, MakeConfig, SeedConfig,
     Abort, Continue, Goto, Close, FilesStay, ArgsStay
<1>3. QED
  BY <1>1, <1>2

\* While the configuration keeps its file, that file loses no block.
LEMMA ConfigGrows ==
    ASSUME RewriteInv, NEW p \in Procs, Step(p),
           path["config"] # None, path'["config"] = path["config"]
    PROVE  data[path["config"]].rules \subseteq data'[path["config"]].rules
<1>0. /\ TypeOK /\ FilesOpen /\ TmpIsPrivate /\ path["config"] \in Inodes
      /\ data[path["config"]] \in Content
  BY DEF RewriteInv, TypeOK, Paths
<1>1. CASE data' = data
  BY <1>1
<1>2. CASE AppendBlock(p)
  BY <1>0, <1>2 DEF AppendBlock, FilesOpen, TypeOK, With, Content
<1>3. CASE AppendCutShort(p)
  <2>1. PICK left \in CutShort(data[fd[p]], rule[p]) : data' = [data EXCEPT ![fd[p]] = left]
    BY <1>3 DEF AppendCutShort
  <2>2. fd[p] \in Inodes /\ data[fd[p]] \in Content
    BY <1>0, <1>3 DEF AppendCutShort, FilesOpen, TypeOK
  <2>3. data[fd[p]].rules \subseteq left.rules
    BY <2>2 DEF CutShort, Torn, With, Content
  <2>4. QED
    BY <1>0, <2>1, <2>2, <2>3 DEF TypeOK
<1>4. CASE UnlinkTmp(p) \/ RenameFails(p)
  <2>1. Unnamed(path["tmp"]) /\ path["tmp"] # path["config"]
    BY <1>0, <1>4, StoreAssumption DEF UnlinkTmp, RenameFails, TmpIsPrivate
  <2>2. QED
    BY <1>0, <2>1, UnnamedTypes
<1>5. CASE CreateTmp(p)
  <2>1. CASE path["tmp"] = None
    <3>1. PICK i \in Inodes : NewFile("tmp", i)
      BY <1>5, <2>1 DEF CreateTmp
    <3>2. QED
      BY <1>0, <3>1, NewFileTypes DEF Paths
  <2>2. QED
    BY <1>1, <1>5, <2>1 DEF CreateTmp, FilesStay
<1>6. CASE FillPart(p) \/ FillRest(p)
  <2>1. fd[p] = path["tmp"] /\ fd[p] \in Inodes /\ path["tmp"] # path["config"]
    BY <1>0, <1>6, StoreAssumption DEF FillPart, FillRest, FilesOpen, TmpIsPrivate
  <2>2. QED
    BY <1>0, <1>6, <2>1 DEF FillPart, FillRest, TypeOK
<1>7. CASE RenameTmp(p)
  BY <1>0, <1>1, <1>7, StoreAssumption DEF RenameTmp, FilesStay, TmpIsPrivate, TypeOK, Paths
<1>8. CASE MakeConfig(p)
  BY <1>1, <1>8 DEF MakeConfig, FilesStay
<1>9. CASE SeedConfig(p)
  <2>1. PICK part \in Between(data[fd[p]], Seed) : data' = [data EXCEPT ![fd[p]] = part]
    BY <1>9 DEF SeedConfig
  <2>2. fd[p] \in Inodes /\ data[fd[p]] \in Content
    BY <1>0, <1>9 DEF SeedConfig, FilesOpen, TypeOK
  <2>3. data[fd[p]].rules \subseteq part.rules
    BY <2>2, BetweenCounts, ContentFacts
  <2>4. QED
    BY <1>0, <2>1, <2>2, <2>3 DEF TypeOK
<1>10. QED
  BY <1>1, <1>2, <1>3, <1>4, <1>5, <1>6, <1>7, <1>8, <1>9
  DEF Step, StartAdd, AddLoad, OpenAppend, StartRemove, RemoveLoad, RereadFound,
      RereadNothing, UnlinkFails, Sync, StartInit, Abort, FilesStay, Continue

\* So what a `remove` is about to write stays part of it.
LEMMA StepRewriteShrinks ==
    ASSUME Discipline # "any", RewriteInv, RewriteShrinks, NEW p \in Procs, Step(p)
    PROVE  RewriteShrinks'
<1> DEFINE Late == {"unlink", "create", "create_over", "fill", "sync", "rename"}
<1>0. TypeOK /\ RewritersAlone /\ TmpIsWritten
  BY DEF RewriteInv
<1>1. SUFFICES ASSUME NEW q \in Procs, pc'[q] \in Late
               PROVE  /\ path'["config"] # None
                      /\ buf'[q].rules \subseteq data'[path'["config"]].rules
  BY DEF RewriteShrinks
<1>2. CASE RereadFound(p) /\ q = p
  <2>1. path["config"] \in Inodes /\ Published = data[path["config"]] /\ Published \in Content
    BY <1>0, <1>2 DEF RereadFound, Published, TypeOK, Paths
  <2>2. buf'[p] = Without(Published, key[p]) /\ UNCHANGED <<path, data>>
    BY <1>0, <1>2 DEF RereadFound, FilesStay, TypeOK
  <2>3. QED
    BY <1>2, <2>1, <2>2, StoreAssumption DEF Without, Content
<1>3. CASE ~(RereadFound(p) /\ q = p)
  <2>1. pc[q] \in Late /\ buf'[q] = buf[q]
    <3>1. CASE q # p
      BY <1>0, <1>1, <3>1, OthersStay
    <3>2. CASE q = p
      <4>1. CASE End(p)
        BY <1>0, <1>1, <3>2, <4>1, EndIsQuiet
      <4>2. CASE ~End(p)
        BY <1>0, <1>1, <1>3, <3>2, <4>2 DEF TypeOK, Step, StartAdd, AddLoad, OpenAppend,
           AppendBlock, AppendCutShort, StartRemove, RemoveLoad, RereadNothing, UnlinkTmp,
           UnlinkFails, CreateTmp, FillPart, FillRest, Sync, RenameTmp, RenameFails, StartInit,
           MakeConfig, SeedConfig, Abort, Continue, Goto, ArgsStay
      <4>3. QED
        BY <4>1, <4>2
    <3>3. QED
      BY <3>1, <3>2
  <2>2. path["config"] # None /\ buf[q].rules \subseteq data[path["config"]].rules
    BY <2>1 DEF RewriteShrinks
  <2>3. ~RenameTmp(p)
    <3>1. SUFFICES ASSUME RenameTmp(p) PROVE FALSE
      OBVIOUS
    <3>2. pc[p] = "rename" /\ End(p)
      BY <3>1 DEF RenameTmp
    <3>3. q = p
      BY <1>0, <2>1, <3>2 DEF RewritersAlone, Rewriting, RewriteSteps
    <3>4. QED
      BY <1>0, <1>1, <3>2, <3>3, EndIsQuiet
  <2>4. path'["config"] = path["config"]
    BY <1>0, <2>2, <2>3 DEF TypeOK, Paths, Step, StartAdd, AddLoad, OpenAppend, AppendBlock,
       AppendCutShort, StartRemove, RemoveLoad, RereadFound, RereadNothing, UnlinkTmp,
       UnlinkFails, CreateTmp, NewFile, FillPart, FillRest, Sync, RenameFails, StartInit,
       MakeConfig, SeedConfig, Abort, Continue, FilesStay
  <2>5. data[path["config"]].rules \subseteq data'[path["config"]].rules
    BY <2>2, <2>4, ConfigGrows
  <2>6. QED
    BY <2>1, <2>2, <2>4, <2>5
<1>4. QED
  BY <1>2, <1>3

\* The files that have a name are the ones that had one, or hold no more, and no
\* `add` more owes them a block: all still fits.
LEMMA RoomKept ==
    ASSUME TypeOK, TypeOK', RoomIsShared,
           \A i \in {path'["config"], dir'["config"]} \ {None} :
              \E j \in {path["config"], dir["config"]} \ {None} :
                 data'[i].rules \subseteq data[j].rules /\ Owing(i)' \subseteq Owing(j)
    PROVE  RoomIsShared'
<1>1. SUFFICES ASSUME NEW i \in {path'["config"], dir'["config"]} \ {None}
               PROVE  Fits(data'[i].rules, Owing(i)')
  BY DEF RoomIsShared, Fits
<1>2. PICK j \in {path["config"], dir["config"]} \ {None} :
         data'[i].rules \subseteq data[j].rules /\ Owing(i)' \subseteq Owing(j)
  BY <1>1
<1>3. data[j].rules \in SUBSET Rules /\ Owing(j) \in SUBSET Procs
  BY DEF TypeOK, Paths, Content, Owing
<1>4. Fits(data[j].rules, Owing(j))
  BY DEF RoomIsShared
<1>5. QED
  BY <1>2, <1>3, <1>4, FewerFit

\* A process that is not in an append after its step owes no block.
LEMMA OwesLess ==
    ASSUME TypeOK, NEW p \in Procs, Step(p), NEW i, path'["config"] = path["config"],
           pc'[p] \notin {"open_append", "append"}
    PROVE  Owing(i)' \subseteq Owing(i) \ {p}
  BY OthersStay DEF Owing

\* Both files that a name leads to stay within their room at every step.
LEMMA StepRoomIsShared ==
    ASSUME Discipline # "any", CountInv, NEW p \in Procs, Step(p), TypeOK'
    PROVE  RoomIsShared'
<1> DEFINE Named == {path["config"], dir["config"]} \ {None}
           Quiet == /\ path'["config"] = path["config"] /\ dir'["config"] = dir["config"]
                    /\ \A i \in Named : data'[i].rules \subseteq data[i].rules
<1>0. /\ TypeOK /\ FilesOpen /\ TmpIsPrivate /\ TmpIsWritten /\ RewriteInv
      /\ RoomIsShared /\ RewriteShrinks
      /\ Named \subseteq Inodes
      /\ \A i \in Named : data[i] \in Content /\ Owing(i) \in SUBSET Procs
  BY DEF CountInv, RewriteInv, TypeOK, Paths, Owing
<1>1. ASSUME Quiet, pc'[p] \notin {"open_append", "append"} PROVE RoomIsShared'
  <2>1. \A i \in Named : Owing(i)' \subseteq Owing(i)
    BY <1>0, <1>1, OwesLess
  <2>2. QED
    BY <1>0, <1>1, <2>1, RoomKept
<1>2. CASE StartAdd(p) \/ StartRemove(p) \/ StartInit(p)
  <2>1. Quiet /\ pc'[p] \notin {"open_append", "append"}
    BY <1>0, <1>2 DEF StartAdd, StartRemove, StartInit, Continue, Goto, FilesStay, TypeOK
  <2>2. QED
    BY <1>1, <2>1
<1>3. CASE AddLoad(p)
  <2>1. CASE End(p) /\ FilesStay
    <3>1. Quiet /\ pc'[p] \notin {"open_append", "append"}
      BY <1>0, <2>1, EndIsQuiet DEF FilesStay
    <3>2. QED
      BY <1>1, <3>1
  <2>2. CASE Continue(p, "open_append") /\ Published # Absent /\ HasRoom(Published)
    <3>1. UNCHANGED <<path, dir, data, fd>> /\ pc' = [pc EXCEPT ![p] = "open_append"]
      BY <2>2 DEF Continue, Goto, FilesStay
    <3>2. SUFFICES ASSUME NEW i \in Named PROVE Fits(data[i].rules, Owing(i)')
      BY <3>1 DEF RoomIsShared, Fits
    <3>3. Owing(i)' \in SUBSET Procs /\ data[i].rules \in SUBSET Rules
      BY <1>0 DEF Owing, Content
    <3>4. CASE i = path["config"]
      <4>1. Cardinality(data[i].rules) + 1 <= MaxRules
        BY <2>2, <3>4, StoreAssumption DEF HasRoom, Published
      <4>2. QED
        BY <3>3, <4>1, RoomFits
    <3>5. CASE i # path["config"]
      <4>1. Owing(i)' \subseteq Owing(i)
        BY <1>0, <3>1, <3>5 DEF Owing, TypeOK
      <4>2. Fits(data[i].rules, Owing(i))
        BY <1>0 DEF RoomIsShared
      <4>3. QED
        BY <1>0, <3>3, <4>1, <4>2, FewerFit
    <3>6. QED
      BY <3>4, <3>5
  <2>3. QED
    BY <1>3, <2>1, <2>2 DEF AddLoad
<1>4. CASE OpenAppend(p)
  <2>1. /\ pc[p] = "open_append" /\ pc' = [pc EXCEPT ![p] = "append"]
        /\ fd' = [fd EXCEPT ![p] = path["config"]] /\ UNCHANGED <<path, dir, data>>
    BY <1>4 DEF OpenAppend, Goto, FilesStay
  <2>2. \A i \in Named : Owing(i)' \subseteq Owing(i)
    BY <1>0, <2>1 DEF Owing, TypeOK
  <2>3. QED
    BY <1>0, <2>1, <2>2, RoomKept
<1>5. CASE AppendBlock(p) \/ AppendCutShort(p)
  <2>1. /\ pc[p] = "append" /\ fd[p] \in Inodes /\ data[fd[p]] \in Content
        /\ UNCHANGED <<path, dir>> /\ End(p) /\ pc'[p] = "idle"
    BY <1>0, <1>5, EndIsQuiet DEF AppendBlock, AppendCutShort, FilesOpen, TypeOK
  <2>2. PICK c : /\ data' = [data EXCEPT ![fd[p]] = c]
                 /\ \E r \in Rules : c.rules \subseteq data[fd[p]].rules \cup {r}
    <3>1. rule[p] \in Rules /\ Cuts[rule[p]] \subseteq Rules
      BY <1>0, ContentsAssumption DEF TypeOK
    <3>2. CASE AppendBlock(p)
      <4>1. data' = [data EXCEPT ![fd[p]] = With(data[fd[p]], rule[p])]
        BY <3>2 DEF AppendBlock
      <4>2. With(data[fd[p]], rule[p]).rules = data[fd[p]].rules \cup {rule[p]}
        BY <2>1 DEF With, Content
      <4>3. QED
        BY <3>1, <4>1, <4>2
    <3>3. CASE AppendCutShort(p)
      <4>1. PICK left \in CutShort(data[fd[p]], rule[p]) : data' = [data EXCEPT ![fd[p]] = left]
        BY <3>3 DEF AppendCutShort
      <4>2. \E r \in Rules : left.rules \subseteq data[fd[p]].rules \cup {r}
        BY <2>1, <3>1, <4>1 DEF CutShort, Torn, With, Content
      <4>3. QED
        BY <4>1, <4>2
    <3>4. QED
      BY <1>5, <3>2, <3>3
  <2>3. PICK r \in Rules : c.rules \subseteq data[fd[p]].rules \cup {r}
    BY <2>2
  <2>4. SUFFICES ASSUME NEW i \in Named PROVE Fits(data'[i].rules, Owing(i)')
    BY <2>1 DEF RoomIsShared, Fits
  <2>5. Fits(data[i].rules, Owing(i)) /\ Owing(i)' \subseteq Owing(i) \ {p}
    BY <1>0, <2>1, OwesLess DEF RoomIsShared
  <2>6. CASE i = fd[p]
    <3>1. p \in Owing(i) /\ data'[i].rules \subseteq data[i].rules \cup {r}
      BY <1>0, <2>1, <2>2, <2>3, <2>6 DEF Owing, TypeOK
    <3>2. data[i].rules \in SUBSET Rules
      BY <1>0 DEF Content
    <3>3. QED
      BY <1>0, <2>5, <3>1, <3>2, OneMoreFits
  <2>7. CASE i # fd[p]
    <3>1. data'[i] = data[i] /\ data[i].rules \in SUBSET Rules
      BY <1>0, <2>2, <2>7 DEF TypeOK, Content
    <3>2. Owing(i)' \subseteq Owing(i)
      BY <2>5
    <3>3. QED
      BY <1>0, <2>5, <3>1, <3>2, FewerFit
  <2>8. QED
    BY <2>6, <2>7
<1>6. CASE RemoveLoad(p) \/ RereadFound(p) \/ RereadNothing(p) \/ Abort(p)
  <2>1. FilesStay
    BY <1>6 DEF RemoveLoad, RereadFound, RereadNothing, Abort, Continue
  <2>2. pc'[p] \notin {"open_append", "append"}
    BY <1>0, <1>6, EndIsQuiet
    DEF RemoveLoad, RereadFound, RereadNothing, Abort, Continue, Goto, TypeOK
  <2>3. QED
    BY <1>1, <2>1, <2>2 DEF FilesStay
<1>7. CASE UnlinkTmp(p) \/ UnlinkFails(p) \/ RenameFails(p)
  <2>1. pc'[p] \notin {"open_append", "append"}
    BY <1>0, <1>7, EndIsQuiet DEF UnlinkTmp, UnlinkFails, RenameFails, Continue, Goto, TypeOK
  <2>2. CASE UnlinkFails(p)
    BY <1>1, <2>1, <2>2 DEF UnlinkFails, Continue, FilesStay
  <2>3. CASE UnlinkTmp(p) \/ RenameFails(p)
    <3>1. Unnamed(path["tmp"]) /\ path'["config"] = path["config"]
      BY <1>0, <2>3 DEF UnlinkTmp, RenameFails, TypeOK, Paths
    <3>2. /\ \A j \in Inodes : j # path["tmp"] => data'[j] = data[j]
          /\ \A j \in Inodes : j \in {dir[n] : n \in Paths} => data'[j] = data[j]
          /\ dir' = dir
      BY <1>0, <3>1, UnnamedTypes
    <3>3. \A i \in Named : i # path["tmp"] \/ i \in {dir[n] : n \in Paths}
      BY <1>0, StoreAssumption DEF TmpIsPrivate, Paths
    <3>4. QED
      BY <1>0, <1>1, <2>1, <3>1, <3>2, <3>3
  <2>4. QED
    BY <1>7, <2>2, <2>3
<1>8. CASE CreateTmp(p)
  <2>1. pc'[p] \notin {"open_append", "append"}
    BY <1>0, <1>8, EndIsQuiet DEF CreateTmp, Goto, TypeOK
  <2>2. CASE path["tmp"] = None
    <3>1. PICK n \in Inodes : NewFile("tmp", n)
      BY <1>8, <2>2 DEF CreateTmp
    <3>2. /\ path'["config"] = path["config"] /\ dir' = dir
          /\ \A j \in Inodes : j # n => data'[j] = data[j]
          /\ path["config"] # n /\ dir["config"] # n
      BY <1>0, <3>1, NewFileTypes DEF Paths
    <3>3. QED
      BY <1>0, <1>1, <2>1, <3>2
  <2>3. CASE path["tmp"] # None
    BY <1>1, <1>8, <2>1, <2>3 DEF CreateTmp, FilesStay
  <2>4. QED
    BY <2>2, <2>3
<1>9. CASE FillPart(p) \/ FillRest(p) \/ Sync(p)
  <2>1. pc'[p] \notin {"open_append", "append"} /\ UNCHANGED <<path, dir>>
    BY <1>0, <1>9 DEF FillPart, FillRest, Sync, Goto, TypeOK
  <2>2. fd[p] = path["tmp"] /\ fd[p] \in Inodes
    BY <1>0, <1>9 DEF FillPart, FillRest, Sync, FilesOpen, TmpIsPrivate
  <2>3. \A i \in Named : i # fd[p]
    BY <1>0, <2>2, StoreAssumption DEF TmpIsPrivate
  <2>4. \A i \in Named : data'[i] = data[i]
    BY <1>0, <1>9, <2>3 DEF FillPart, FillRest, Sync, TypeOK
  <2>5. QED
    BY <1>1, <2>1, <2>4
<1>10. CASE RenameTmp(p)
  <2>1. /\ pc[p] = "rename" /\ pc'[p] = "idle" /\ path["tmp"] \in Inodes
        /\ data[path["tmp"]] = buf[p]
    BY <1>0, <1>10, EndIsQuiet DEF RenameTmp, TmpIsWritten
  <2>2. /\ path'["config"] = path["tmp"] /\ Unnamed(path["config"])
        /\ path["config"] # None /\ buf[p].rules \subseteq data[path["config"]].rules
        /\ path["tmp"] # path["config"] /\ path["tmp"] # dir["config"]
    BY <1>0, <1>10, <2>1, StoreAssumption
    DEF RenameTmp, TypeOK, Paths, TmpIsPrivate, RewriteShrinks
  <2>3. dir' = dir /\ data'[path["tmp"]] = data[path["tmp"]]
    BY <1>0, <2>1, <2>2, UnnamedTypes
  <2>4. dir["config"] # None => data'[dir["config"]] = data[dir["config"]]
    BY <1>0, <2>2, UnnamedTypes DEF Paths
  <2>5. ASSUME NEW i, i = path["tmp"]
        PROVE  data'[i].rules \subseteq data[path["config"]].rules
               /\ Owing(i)' \subseteq Owing(path["config"])
    <3>1. \A q \in Procs : q # p => pc'[q] = pc[q] /\ fd'[q] = fd[q]
      BY <1>0, OthersStay
    <3>2. \A q \in Procs : pc[q] = "append" => fd[q] # i
      BY <1>0, <2>5 DEF TmpIsPrivate
    <3>3. Owing(i)' \subseteq Owing(path["config"])
      BY <2>1, <3>1, <3>2 DEF Owing
    <3>4. QED
      BY <2>1, <2>2, <2>3, <2>5, <3>3
  <2>6. ASSUME NEW i, i = dir["config"], i # None
        PROVE  data'[i].rules \subseteq data[i].rules /\ Owing(i)' \subseteq Owing(i)
    <3>1. \A q \in Procs : q # p => pc'[q] = pc[q] /\ fd'[q] = fd[q]
      BY <1>0, OthersStay
    <3>2. Owing(i)' \subseteq Owing(i)
      BY <2>1, <2>2, <2>6, <3>1 DEF Owing
    <3>3. QED
      BY <2>4, <2>6, <3>2
  <2>7. path["config"] \in Named /\ path'["config"] = path["tmp"]
    BY <2>2
  <2>8. \A i \in {path'["config"], dir'["config"]} \ {None} :
           \E j \in Named : data'[i].rules \subseteq data[j].rules /\ Owing(i)' \subseteq Owing(j)
    BY <2>3, <2>5, <2>6, <2>7
  <2>9. QED
    BY <1>0, <2>8, RoomKept
<1>11. CASE MakeConfig(p)
  <2>1. pc'[p] \notin {"open_append", "append"}
    BY <1>0, <1>11, EndIsQuiet DEF MakeConfig, Goto, TypeOK
  <2>2. CASE path["config"] = None
    <3>1. PICK n \in Inodes : NewFile("config", n)
      BY <1>11, <2>2 DEF MakeConfig
    <3>2. /\ path'["config"] = n /\ dir' = dir /\ data'[n] = Empty /\ dir["config"] # n
          /\ \A j \in Inodes : j # n => data'[j] = data[j]
      BY <1>0, <3>1, NewFileTypes DEF Paths
    <3>3. SUFFICES ASSUME NEW i \in {n, dir["config"]} \ {None}
                   PROVE  Fits(data'[i].rules, Owing(i)')
      BY <3>2 DEF RoomIsShared, Fits
    <3>4. Owing(i)' \in SUBSET (Procs \ {p})
      BY <2>1 DEF Owing
    <3>5. CASE i = n
      <4>1. data'[i].rules = {} /\ Cardinality({}) = 0 /\ MaxRules \in Nat
        BY <3>2, <3>5, FS_EmptySet, ContentsAssumption DEF Empty
      <4>2. Cardinality({}) <= MaxRules
        BY <4>1
      <4>3. QED
        BY <3>4, <4>1, <4>2, LoadsFits
    <3>6. CASE i # n
      <4>1. i \in Named /\ data'[i] = data[i] /\ data[i].rules \in SUBSET Rules
        BY <1>0, <3>2, <3>3, <3>6 DEF Content
      <4>2. Owing(i)' \subseteq Owing(i)
        BY <1>0, <2>1, <3>2, <3>6, OthersStay DEF Owing
      <4>3. Fits(data[i].rules, Owing(i))
        BY <1>0, <4>1 DEF RoomIsShared
      <4>4. QED
        BY <1>0, <4>1, <4>2, <4>3, FewerFit
    <3>7. QED
      BY <3>5, <3>6
  <2>3. CASE path["config"] # None
    BY <1>1, <1>11, <2>1, <2>3 DEF MakeConfig, FilesStay
  <2>4. QED
    BY <2>2, <2>3
<1>12. CASE SeedConfig(p)
  <2>1. PICK part \in Between(data[fd[p]], Seed) : data' = [data EXCEPT ![fd[p]] = part]
    BY <1>12 DEF SeedConfig
  <2>2. /\ UNCHANGED <<path, dir>> /\ pc'[p] = "idle" /\ fd[p] \in Inodes
        /\ data[fd[p]] \in Content
    BY <1>0, <1>12, EndIsQuiet DEF SeedConfig, FilesOpen, TypeOK
  <2>3. part.rules \in SUBSET Rules /\ Cardinality(part.rules) <= MaxRules
    <3>1. part \in Content /\ Cardinality(part.rules) <= Cardinality(Seed.rules)
      BY <2>1, <2>2, BetweenFacts, BetweenCounts, ContentFacts
    <3>2. Seed.rules = {SeedRule}
      BY DEF Seed, Empty
    <3>3. Cardinality({SeedRule}) = 1
      BY FS_Singleton
    <3>4. Cardinality(part.rules) \in Nat /\ part.rules \in SUBSET Rules
      BY <3>1, FS_Subset, FS_CardinalityType, ContentsAssumption DEF Content
    <3>5. QED
      BY <3>1, <3>2, <3>3, <3>4, ContentsAssumption
  <2>4. SUFFICES ASSUME NEW i \in Named PROVE Fits(data'[i].rules, Owing(i)')
    BY <2>2 DEF RoomIsShared, Fits
  <2>5. Fits(data[i].rules, Owing(i)) /\ Owing(i)' \subseteq Owing(i) \ {p}
    BY <1>0, <2>2, OwesLess DEF RoomIsShared
  <2>6. CASE i = fd[p]
    <3>1. data'[i].rules = part.rules /\ Owing(i)' \in SUBSET (Procs \ {p})
      BY <1>0, <2>1, <2>2, <2>5, <2>6 DEF TypeOK
    <3>2. QED
      BY <2>3, <3>1, LoadsFits
  <2>7. CASE i # fd[p]
    <3>1. data'[i] = data[i] /\ data[i].rules \in SUBSET Rules
      BY <1>0, <2>1, <2>7 DEF TypeOK, Content
    <3>2. QED
      BY <1>0, <2>5, <3>1, FewerFit
  <2>8. QED
    BY <2>6, <2>7
<1>13. QED
  BY <1>2, <1>3, <1>4, <1>5, <1>6, <1>7, <1>8, <1>9, <1>10, <1>11, <1>12 DEF Step

\* The blocks of a file that loads at the start fit.
LEMMA InitCountInv == Init => CountInv
<1> SUFFICES ASSUME Init PROVE CountInv
  OBVIOUS
<1>1. RewriteInv /\ TypeOK
  BY InitRewriteInv DEF RewriteInv
<1>2. RewriteShrinks
  BY DEF Init, RewriteShrinks
<1>3. RoomIsShared
  <2>1. SUFFICES ASSUME NEW i \in {path["config"], dir["config"]} \ {None}
                 PROVE  Fits(data[i].rules, Owing(i))
    BY DEF RoomIsShared
  <2>2. i = path["config"] /\ Owing(i) = {}
    BY DEF Init, Owing
  <2>3. Loads(data[i]) /\ data[i].rules \in SUBSET Rules
    BY <2>1, <2>2, StoreAssumption DEF Init, Paths, Content
  <2>4. PICK p \in Procs : TRUE
    BY StoreAssumption
  <2>5. QED
    BY <2>2, <2>3, <2>4, LoadsFits DEF Loads
<1>4. QED
  BY <1>1, <1>2, <1>3 DEF CountInv

\* A power loss leads back to a file that fits, and nobody is left to append to it.
LEMMA PowerLossRoomIsShared ==
    ASSUME CountInv, PowerLoss
    PROVE  RoomIsShared'
<1> DEFINE named == {dir[n] : n \in Paths} \ {None}
<1>0. TypeOK /\ RoomIsShared
  BY DEF CountInv, RewriteInv
<1>1. PICK left \in [named -> UNION {Between(disk[i], data[i]) : i \in named}] :
         /\ \A i \in named : left[i] \in Between(disk[i], data[i])
         /\ data' = [i \in Inodes |-> IF i \in named THEN left[i] ELSE Empty]
  BY DEF PowerLoss
<1>2. path' = dir /\ dir' = dir /\ \A q \in Procs : pc'[q] = "idle"
  BY DEF PowerLoss
<1>3. SUFFICES ASSUME dir["config"] # None
               PROVE  Fits(data'[dir["config"]].rules, Owing(dir["config"])')
  BY <1>2 DEF RoomIsShared, Fits
<1> DEFINE i == dir["config"]
<1>4. i \in Inodes /\ i \in named /\ data[i] \in Content /\ disk[i] \in Content
  BY <1>0, <1>3 DEF TypeOK, Paths
<1>5. data'[i] \in Between(disk[i], data[i])
  BY <1>1, <1>4
<1>6. data'[i] \in Content /\ Cardinality(data'[i].rules) <= Cardinality(data[i].rules)
  BY <1>4, <1>5, BetweenFacts, BetweenCounts
<1>7. Owing(i)' = {} /\ Owing(i) \in SUBSET Procs /\ data[i].rules \in SUBSET Rules
  BY <1>2, <1>4 DEF Owing, Content
<1>8. Fits(data[i].rules, {})
  <2>1. Fits(data[i].rules, Owing(i))
    BY <1>0, <1>3 DEF RoomIsShared
  <2>2. QED
    BY <1>7, <2>1, FewerFit
<1>9. /\ Cardinality(data'[i].rules) \in Nat /\ Cardinality(data[i].rules) \in Nat
      /\ MaxRules \in Nat /\ Cardinality(Procs) \in Nat /\ Cardinality({}) = 0
  BY <1>6, <1>7, FS_Subset, FS_CardinalityType, FS_EmptySet, ContentsAssumption, StoreAssumption
  DEF Content
<1>10. QED
  BY <1>6, <1>7, <1>8, <1>9 DEF Fits

\* Every step keeps what the `add`s were promised within one block each.
LEMMA NextCountInv ==
    ASSUME Discipline # "any", CountInv, [Next]_storeVars
    PROVE  CountInv'
<1>1. RewriteInv /\ RewriteInv' /\ TypeOK /\ TypeOK' /\ RoomIsShared /\ RewriteShrinks
  BY NextRewriteInv DEF CountInv, RewriteInv
<1>2. CASE \E p \in Procs : Step(p)
  BY <1>1, <1>2, StepRoomIsShared, StepRewriteShrinks DEF CountInv
<1>3. CASE PowerLoss
  BY <1>1, <1>3, PowerLossRoomIsShared DEF CountInv, PowerLoss, RewriteShrinks
<1>4. CASE WriteBack
  <2>1. UNCHANGED <<path, pc, fd, buf>> /\ dir' = path
    BY <1>4 DEF WriteBack
  <2>2. path["config"] # None => data'[path["config"]] = data[path["config"]]
    BY <1>1, <1>4, WriteBackTypes DEF TypeOK, Paths
  <2>3. RoomIsShared'
    BY <1>1, <2>1, <2>2, RoomKept DEF Owing
  <2>4. QED
    BY <1>1, <2>1, <2>2, <2>3 DEF CountInv, RewriteShrinks
<1>5. CASE UNCHANGED storeVars
  BY <1>1, <1>5 DEF storeVars, CountInv, RewriteShrinks, RoomIsShared, Fits, Owing
<1>6. QED
  BY <1>2, <1>3, <1>4, <1>5 DEF Next

\* With one `remove` at a time and any number of `add`s, the configuration passes
\* MAX_ABBR_RULES by fewer rules than there are processes.
THEOREM OverrunIsOnePerAdd == Discipline # "any" /\ Spec => []OverrunIsBounded
<1> SUFFICES ASSUME Discipline # "any" PROVE Spec => []OverrunIsBounded
  OBVIOUS
<1>1. CountInv /\ [Next]_storeVars => CountInv'
  BY NextCountInv
<1>2. CountInv => OverrunIsBounded
  <2> SUFFICES ASSUME CountInv, Published # Absent
               PROVE  Cardinality(Published.rules) + 1 <= MaxRules + Cardinality(Procs)
    BY DEF OverrunIsBounded
  <2> DEFINE i == path["config"]
  <2>1. i \in Inodes /\ i # None /\ Published = data[i]
    BY StoreAssumption DEF CountInv, RewriteInv, TypeOK, Paths, Published
  <2>2. data[i].rules \in SUBSET Rules /\ Owing(i) \in SUBSET Procs
    BY <2>1 DEF CountInv, RewriteInv, TypeOK, Content, Owing
  <2>3. Fits(data[i].rules, Owing(i))
    BY <2>1 DEF CountInv, RoomIsShared
  <2>4. Fits(data[i].rules, {})
    BY <2>2, <2>3, FewerFit
  <2>5. /\ Cardinality(data[i].rules) \in Nat /\ MaxRules \in Nat
        /\ Cardinality(Procs) \in Nat /\ Cardinality({}) = 0
    BY <2>2, FS_Subset, FS_CardinalityType, FS_EmptySet, ContentsAssumption, StoreAssumption
  <2>6. QED
    BY <2>1, <2>4, <2>5 DEF Fits
<1>3. QED
  BY <1>1, <1>2, InitCountInv, PTL DEF Spec

=============================================================================
