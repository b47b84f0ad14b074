---------------------------- MODULE OutsideProofs ----------------------------
(***************************************************************************)
(* What runex learns from outside: which commands there are, and what a    *)
(* child process writes.                                                   *)
(*                                                                         *)
(* Of commands, for every set of commands, directories, values of PATH and *)
(* configurations, however old the hint is.  A no is never the hint's.  A  *)
(* yes of the hint goes back to the script that made it: it was of this    *)
(* shell and had this PATH.  And a hint that has the time of the           *)
(* configuration was made from the configuration, as long as no two edits  *)
(* share a second and none came under the script.  The merged search path  *)
(* of Windows is right for any PATH and registry: each entry that is       *)
(* pushed keeps the properties of a merged list.                           *)
(*                                                                         *)
(* Of a child process, doctor and Ctrl+V get its whole output or nothing:  *)
(* for every size of the pipe, every cap, every deadline and every output. *)
(* Both arguments are the same: a child that ended well has written all of *)
(* its text, so a reader that has got all that was sent has the text.  The *)
(* polling reader reads once more after it has seen the end; the others    *)
(* read to the end of the pipe.                                            *)
(***************************************************************************)
EXTENDS CommandLookup, AliasProbe, Clipboard, FiniteSetTheorems, WellFoundedInduction, SequenceTheorems, TLAPS

\* The script listed what the configuration has it ask, and found something only of that.
ScriptInv ==
    script # None =>
        /\ script = [listed |-> script.listed, found |-> script.found]
        /\ script.found # None => script.listed # {}
        /\ ~hasty => script.listed = IF config.path_only THEN {} ELSE config.asks

TimeInv == mtime \in Nat /\ now \in Nat /\ mtime <= now

Yes(h) == { c \in DOMAIN h.commands : h.commands[c] }

\* A hint says yes of what was known when it was made, is no younger than its configuration,
\* and one that is as old as a path_only configuration was made from it.
HintInv ==
    hint \notin {None, Garbled} =>
        /\ hint.of = hint.fingerprint.shell
        /\ Yes(hint) \subseteq hint.known
        /\ hint.fingerprint.mtime \in Nat
        /\ hint.fingerprint.mtime <= mtime
        /\ ~hasty /\ hint.fingerprint.mtime = mtime /\ config.path_only => Yes(hint) \subseteq hint.on_path

LookupInv == ScriptInv /\ TimeInv /\ HintInv

\* At first there is no answer to account for.
LEMMA InitHasIt == Init => LookupInv
BY DEF Init, LookupInv, ScriptInv, TimeInv, HintInv

\* The configuration changes only here.
LEMMA EditKeeps ==
    ASSUME LookupInv, NEW g \in Configs, EditConfig(g)
    PROVE  LookupInv'
<1>0. ~hasty' => ~hasty /\ mtime # now /\ script = None
    BY Zenon DEF EditConfig
<1> USE <1>0 DEF LookupInv, TimeInv, EditConfig
<1>1. ScriptInv' /\ TimeInv'
    BY DEF ScriptInv
<1>2. HintInv'
    BY DEF HintInv, Yes
<1> QED
    BY <1>1, <1>2

\* What is exported is of this shell and this time, and each yes of it has its reason.
LEMMA ExportedIsSo ==
    ASSUME TimeInv, NEW found, Exported(shell, found) \notin {None, Garbled}
    PROVE  LET h == Exported(shell, found)
           IN  /\ h.of = h.fingerprint.shell
               /\ h.fingerprint.mtime = mtime
               /\ h.commands = found
               /\ h.on_path = { c \in DOMAIN found : IsThere(None, c) }
               /\ h.on_path \subseteq h.known
               /\ script.found # None => script.found \subseteq h.known
BY DEF Exported, Fingerprint

\* The hint changes only here.
LEMMA PrecacheKeeps ==
    ASSUME LookupInv, PrecacheResolved \/ PrecacheLive
    PROVE  LookupInv'
<1>1. ScriptInv' /\ TimeInv'
    BY DEF LookupInv, PrecacheResolved, PrecacheLive, file, ScriptInv, TimeInv
<1>2. CASE PrecacheResolved
    <2> DEFINE found == [c \in config.asks |-> c \in script.found]
    <2>1. SUFFICES ASSUME hint' \notin {None, Garbled} PROVE HintInv'
        BY <1>1 DEF LookupInv, HintInv
    <2>2. hint' = Exported(shell, found)
        BY <1>2 DEF PrecacheResolved
    <2>3. hint'.commands = found /\ hint'.of = hint'.fingerprint.shell /\ hint'.fingerprint.mtime = mtime
          /\ script.found \subseteq hint'.known
        BY <1>2, <2>1, <2>2, ExportedIsSo DEF LookupInv, PrecacheResolved
    <2>4. Yes(hint') \subseteq hint'.known
        BY <2>3 DEF Yes
    <2>5. ~hasty => ~config.path_only
        BY <1>2 DEF LookupInv, ScriptInv, PrecacheResolved
    <2> QED
        BY <1>2, <2>3, <2>4, <2>5 DEF LookupInv, TimeInv, HintInv, Yes, PrecacheResolved, file
<1>3. CASE PrecacheLive
    <2> DEFINE found == [c \in config.asks |-> IsThere(None, c)]
    <2>1. SUFFICES ASSUME hint' \notin {None, Garbled} PROVE HintInv'
        BY <1>1 DEF LookupInv, HintInv
    <2>2. hint' = Exported(shell, found)
        BY <1>3 DEF PrecacheLive
    <2>3. /\ hint'.commands = found /\ hint'.of = hint'.fingerprint.shell /\ hint'.fingerprint.mtime = mtime
          /\ hint'.on_path = { c \in DOMAIN found : IsThere(None, c) } /\ hint'.on_path \subseteq hint'.known
        BY <1>3, <2>1, <2>2, ExportedIsSo DEF LookupInv
    <2>4. Yes(hint') \subseteq hint'.on_path
        BY <2>3 DEF Yes
    <2> QED
        BY <1>3, <2>3, <2>4 DEF LookupInv, TimeInv, HintInv, Yes, PrecacheLive, file
<1> QED
    BY <1>1, <1>2, <1>3 DEF LookupInv

\* The script, the programs, the session and the clock leave the hint alone.
LEMMA OthersKeep ==
    ASSUME LookupInv,
           \/ \E by \in {"hook", "doctor"}, prepend \in Prepends, c \in Movable : Ask(by, prepend, c)
           \/ ListCommands \/ ScriptResolves \/ Tick
           \/ \E p \in Places, c \in Movable : Install(p, c) \/ Uninstall(p, c)
           \/ \E p \in DOMAIN Paths : SetPath(p)
           \/ \E sh \in Shells : EnterShell(sh)
           \/ UNCHANGED vars
    PROVE  LookupInv'
<1>1. UNCHANGED <<file, hint>>
    BY DEF Ask, ListCommands, ScriptResolves, Tick, Install, Uninstall, SetPath, EnterShell, vars
<1>2. HintInv'
    BY <1>1 DEF LookupInv, HintInv, Yes, file
<1>3. TimeInv'
    BY <1>1 DEF LookupInv, TimeInv, file, Ask, ListCommands, ScriptResolves, Tick, Install, Uninstall,
                SetPath, EnterShell, vars
<1> SUFFICES ScriptInv'
    BY <1>2, <1>3 DEF LookupInv
<1>4. config' = config /\ (hasty' <=> hasty)
    <2>1. config' = config /\ hasty' = hasty
        BY <1>1 DEF file
    <2> QED
        BY <2>1, Zenon
<1>5. CASE ListCommands
    BY <1>4, <1>5 DEF ScriptInv, ListCommands
<1>6. CASE ScriptResolves
    <2>1. script' = [listed |-> script.listed, found |-> script'.found] /\ script.listed # {}
        BY <1>6 DEF LookupInv, ScriptInv, ScriptResolves
    <2>2. script'.listed = script.listed
        BY <2>1
    <2>3. script # None
        BY <1>6 DEF ScriptResolves
    <2> QED
        BY <1>4, <2>1, <2>2, <2>3 DEF LookupInv, ScriptInv
<1>7. CASE UNCHANGED script
    BY <1>4, <1>7 DEF LookupInv, ScriptInv
<1> QED
    BY <1>5, <1>6, <1>7 DEF Ask, Tick, Install, Uninstall, SetPath, EnterShell, vars

-----------------------------------------------------------------------------
\* All three say something only right after a question.
Answers == NoIsLive /\ YesWasSo /\ PathOnlyIsRespected

\* What is there after a question was there before it.
LEMMA AskLooks ==
    ASSUME NEW by, NEW prepend, NEW c, Ask(by, prepend, c)
    PROVE  \A x, d : IsThere(x, d)' <=> IsThere(x, d)
BY DEF Ask, world, IsThere, In, SearchDirs, Merged

\* Each answer is the disk's, or that of a hint with its reason.
LEMMA AskAnswers ==
    ASSUME LookupInv, NEW by \in {"hook", "doctor"}, NEW prepend, NEW c, Ask(by, prepend, c)
    PROVE  Answers'
<1> DEFINE hinted == IF by = "hook" THEN Loaded ELSE <<>>
<1>1. /\ last' = [by |-> by, prepend |-> prepend, command |-> c, answer |-> last'.answer]
      /\ last'.answer = "yes" => Exists(hinted, prepend, c)
      /\ last'.answer = "no" => SearchDirs # None /\ ~Exists(hinted, prepend, c)
    BY DEF Ask
<1>2. UNCHANGED <<path, shell, config, hint, hasty>>
    BY DEF Ask, world, file
<1>3. last'.command = c /\ last'.prepend = prepend /\ last'.by = by
    BY <1>1
<1>4. NoIsLive'
    BY <1>1, <1>3, AskLooks DEF NoIsLive, Answered, Exists
<1>5. ASSUME last'.answer = "yes", ~IsThere(prepend, c)
      PROVE  /\ by = "hook"
             /\ hint \notin {None, Garbled}
             /\ hint.fingerprint = Fingerprint
             /\ c \in Yes(hint)
    BY <1>1, <1>5 DEF Exists, Loaded, Yes
<1>6. YesWasSo'
    BY <1>1, <1>2, <1>3, <1>5, AskLooks DEF YesWasSo, Answered, LookupInv, HintInv, Fingerprint
<1>7. PathOnlyIsRespected'
    BY <1>1, <1>2, <1>3, <1>5, AskLooks DEF PathOnlyIsRespected, Answered, LookupInv, HintInv, Fingerprint
<1> QED
    BY <1>4, <1>6, <1>7 DEF Answers

\* Any other step forgets the question.
LEMMA NothingAsked == last' = None => Answers'
BY DEF Answers, NoIsLive, YesWasSo, PathOnlyIsRespected, Answered

\* Each step keeps the invariant.
LEMMA NextAnswers == LookupInv /\ Answers /\ [Next]_vars => LookupInv' /\ Answers'
<1> SUFFICES ASSUME LookupInv, Answers, [Next]_vars PROVE LookupInv' /\ Answers'
    OBVIOUS
<1>1. CASE \E by \in {"hook", "doctor"}, prepend \in Prepends, c \in Movable : Ask(by, prepend, c)
    BY <1>1, AskAnswers, OthersKeep
<1>2. CASE PrecacheResolved \/ PrecacheLive
    BY <1>2, PrecacheKeeps, NothingAsked DEF PrecacheResolved, PrecacheLive
<1>3. ASSUME NEW g \in Configs, EditConfig(g) PROVE LookupInv' /\ Answers'
    BY <1>3, EditKeeps, NothingAsked DEF EditConfig
<1>4. CASE UNCHANGED vars
    <2>1. Answers'
        BY <1>4 DEF vars, world, file, Answers, NoIsLive, YesWasSo, PathOnlyIsRespected, Answered,
                    IsThere, In, SearchDirs, Merged
    <2> QED
        BY <1>4, <2>1, OthersKeep
<1>5. CASE ListCommands \/ ScriptResolves \/ Tick
           \/ (\E p \in Places, c \in Movable : Install(p, c) \/ Uninstall(p, c))
           \/ (\E p \in DOMAIN Paths : SetPath(p)) \/ (\E sh \in Shells : EnterShell(sh))
    <2>1. last' = None
        BY <1>5 DEF ListCommands, ScriptResolves, Tick, Install, Uninstall, SetPath, EnterShell
    <2> QED
        BY <1>5, <2>1, OthersKeep, NothingAsked
<1> QED
    BY <1>1, <1>2, <1>3, <1>4, <1>5 DEF Next

\* So it holds always.
LEMMA AlwaysAnswers == Spec => [](LookupInv /\ Answers)
<1>1. Init => LookupInv /\ Answers
    BY InitHasIt DEF Init, Answers, NoIsLive, YesWasSo, PathOnlyIsRespected, Answered
<1> QED
    BY <1>1, NextAnswers, PTL DEF Spec

-----------------------------------------------------------------------------
\* However old the hint, whatever it says and whatever was installed since: a command that
\* is there is never denied.
THEOREM NoComesFromTheDisk == Spec => []NoIsLive
BY AlwaysAnswers, PTL DEF Answers

\* A yes is the disk's, or that of a hint of the same shell and PATH which had its reason.
THEOREM YesHadAReason == Spec => []YesWasSo
BY AlwaysAnswers, PTL DEF Answers

\* With path_only an alias of the shell never makes a rule fire, as long as the configuration
\* is not edited twice in a second or while the script runs.
THEOREM PathOnlyHolds == Spec => []PathOnlyIsRespected
BY AlwaysAnswers, PTL DEF Answers

-----------------------------------------------------------------------------
\* A set of natural numbers that is not empty has a least element.
LEMMA Least ==
    ASSUME NEW T, T \subseteq Nat, T # {}
    PROVE  \E x \in T : \A y \in T : x <= y
<1> DEFINE R == {ss \in Nat \X Nat : ss[1] < ss[2]}
<1>1. IsWellFoundedOn(R, Nat)
  <2>1. IsWellFoundedOn(OpToRel(<, Nat), Nat)
    BY NatLessThanWellFounded
  <2>2. R = OpToRel(<, Nat)
    BY Zenon DEF OpToRel
  <2>3. QED
    BY <2>1, <2>2
<1>2. \E x \in T : \A y \in T : ~ (<<y, x>> \in R)
  <2> HIDE DEF R
  <2> QED BY <1>1, WFMin
<1>3. ASSUME NEW x \in T, NEW y \in T, ~ (<<y, x>> \in R) PROVE x <= y
  <2>1. x \in Nat /\ y \in Nat /\ (<<y, x>> \in R <=> y < x)
    OBVIOUS
  <2>2. QED
    BY <1>3, <2>1
<1>4. QED
  BY <1>2, <1>3

\* So what holds of 0 and passes from each number to the next holds of all.
LEMMA Induction ==
    ASSUME NEW T, 0 \in T, \A n \in Nat : n \in T => n + 1 \in T
    PROVE  Nat \subseteq T
<1>1. SUFFICES ASSUME Nat \ T # {} PROVE FALSE
  OBVIOUS
<1>2. PICK x \in Nat \ T : \A y \in Nat \ T : x <= y
  BY <1>1, Least, Nat \ T \subseteq Nat
<1>3. x - 1 \in Nat /\ x - 1 \notin Nat \ T
  BY <1>2
<1>4. QED
  BY <1>2, <1>3

\* A merged list: no directory twice, in capitals or not, and no empty one.
MergedList(known) ==
    /\ known \in Seq(Entry)
    /\ \A i, j \in 1 .. Len(known) : SameEntry(known[i], known[j]) => i = j
    /\ \A i \in 1 .. Len(known) : known[i].dir # NoText

Extends(longer, known) ==
    /\ Len(known) <= Len(longer)
    /\ \A i \in 1 .. Len(known) : longer[i] = known[i]

\* The parts of an entry, and the entry with its variable expanded.
LEMMA EntryTyped ==
    ASSUME NEW e \in Entry
    PROVE  /\ e = [dir |-> e.dir, capitals |-> e.capitals, var |-> e.var, bytes |-> e.bytes, last |-> e.last]
           /\ DirOf(e) = NoText <=> e.dir = NoText
           /\ Expanded(e) \in Entry
<1>1. /\ e \in [dir : STRING, capitals : BOOLEAN, var : DOMAIN Environment \cup {None}, bytes : Nat, last : 0 .. 4]
      /\ e.var # None => e.dir # NoText
    BY DEF Entry
<1>2. DirOf(e) = NoText <=> e.dir = NoText
  <2>1. NoText # "nowhere"
    BY Zenon DEF NoText
  <2> QED
    BY <1>1, <2>1 DEF DirOf
<1>3. ASSUME e.var # None, Environment[e.var] # None
      PROVE  [e EXCEPT !.dir = Environment[e.var], !.var = None] \in Entry
  <2>1. Environment[e.var] \in STRING
    BY <1>1, <1>3, PathAssumption
  <2>2. [e EXCEPT !.dir = Environment[e.var], !.var = None]
          \in [dir : STRING, capitals : BOOLEAN, var : DOMAIN Environment \cup {None}, bytes : Nat, last : 0 .. 4]
    BY <1>1, <2>1
  <2>3. [e EXCEPT !.dir = Environment[e.var], !.var = None].var = None
    BY <1>1
  <2>4. QED
    BY <2>2, <2>3 DEF Entry
<1>4. Expanded(e) \in Entry
    BY <1>3 DEF Expanded
<1> QED
    BY <1>1, <1>2, <1>4

\* One entry is pushed.
LEMMA PushKeeps ==
    ASSUME NEW known, MergedList(known), NEW e \in Entry
    PROVE  LET pushed == PushDedup(known, e) IN
           /\ MergedList(pushed)
           /\ Extends(pushed, known)
           /\ Dirs(pushed) = Dirs(known) \cup ({DirOf(e)} \ {NoText})
<1>0. /\ known \in Seq(Entry) /\ Len(known) \in Nat /\ DOMAIN known = 1 .. Len(known)
      /\ \A i, j \in 1 .. Len(known) : SameEntry(known[i], known[j]) => i = j
      /\ \A i \in 1 .. Len(known) : known[i].dir # NoText
  <2>1. /\ known \in Seq(Entry)
        /\ \A i, j \in 1 .. Len(known) : SameEntry(known[i], known[j]) => i = j
        /\ \A i \in 1 .. Len(known) : known[i].dir # NoText
    BY Zenon DEF MergedList
  <2>2. Len(known) \in Nat /\ DOMAIN known = 1 .. Len(known)
    BY <2>1, LenProperties
  <2> QED
    BY <2>1, <2>2, Zenon
<1>1. CASE e.dir = NoText
  <2>1. PushDedup(known, e) = known /\ DirOf(e) = NoText
    BY <1>1, EntryTyped DEF PushDedup
  <2> QED
    BY <1>0, <2>1 DEF Extends
<1>2. CASE e.dir # NoText /\ \E i \in DOMAIN known : SameEntry(e, known[i])
  <2>1. PushDedup(known, e) = known
    BY <1>2 DEF PushDedup
  <2>2. PICK i \in DOMAIN known : SameEntry(e, known[i])
    BY <1>2
  <2>3. DirOf(e) = DirOf(known[i])
    BY <2>2 DEF SameEntry, DirOf
  <2>4. DirOf(e) \in Dirs(known)
    BY <2>2, <2>3 DEF Dirs
  <2> QED
    BY <1>0, <2>1, <2>4 DEF Extends
<1>3. CASE e.dir # NoText /\ ~\E i \in DOMAIN known : SameEntry(e, known[i])
  <2> DEFINE pushed == Append(known, e)
             n == Len(known)
  <2>1. PushDedup(known, e) = pushed
    BY <1>3 DEF PushDedup
  <2>2. /\ pushed \in Seq(Entry) /\ Len(pushed) = n + 1 /\ DOMAIN pushed = 1 .. n + 1
        /\ pushed[n + 1] = e /\ \A i \in 1 .. n : pushed[i] = known[i]
    BY <1>0
  <2> HIDE DEF pushed
  <2>3. ASSUME NEW i \in 1 .. n + 1, NEW j \in 1 .. n + 1, SameEntry(pushed[i], pushed[j]) PROVE i = j
    <3>1. CASE i \in 1 .. n /\ j \in 1 .. n
      BY <1>0, <2>2, <2>3, <3>1
    <3>2. CASE i = n + 1 /\ j \in 1 .. n
      BY <1>0, <1>3, <2>2, <2>3, <3>2
    <3>3. CASE j = n + 1 /\ i \in 1 .. n
      <4>1. SameEntry(e, known[i])
        BY <2>2, <2>3, <3>3 DEF SameEntry
      <4> QED
        BY <1>0, <1>3, <3>3, <4>1
    <3>4. CASE i = n + 1 /\ j = n + 1
      BY <3>4
    <3> QED
      BY <1>0, <3>1, <3>2, <3>3, <3>4
  <2>4. \A i \in 1 .. n + 1 : pushed[i].dir # NoText
    <3>1. ASSUME NEW i \in 1 .. n + 1 PROVE pushed[i].dir # NoText
      <4>1. i \in 1 .. n \/ i = n + 1
        BY <1>0
      <4> QED
        BY <1>0, <1>3, <2>2, <4>1
    <3> QED
      BY <3>1
  <2>5. MergedList(pushed)
    BY <2>2, <2>3, <2>4 DEF MergedList
  <2>6. Extends(pushed, known)
    BY <1>0, <2>2 DEF Extends
  <2>7. DirOf(e) # NoText
    BY <1>3, EntryTyped
  <2>8. Dirs(pushed) = Dirs(known) \cup {DirOf(e)}
    <3>1. Dirs(pushed) = { DirOf(pushed[i]) : i \in 1 .. n + 1 } /\ Dirs(known) = { DirOf(known[i]) : i \in 1 .. n }
      BY <1>0, <2>2 DEF Dirs
    <3>2. \A i \in 1 .. n : i \in 1 .. n + 1
      BY <1>0
    <3>3. n + 1 \in 1 .. n + 1 /\ \A i \in 1 .. n + 1 : i \in 1 .. n \/ i = n + 1
      BY <1>0
    <3> QED
      BY <2>2, <3>1, <3>2, <3>3
  <2> QED
    BY <2>1, <2>5, <2>6, <2>7, <2>8
<1> QED
    BY <1>1, <1>2, <1>3

\* A list of entries stays one.
LEMMA PushTyped ==
    ASSUME NEW known \in Seq(Entry), NEW e \in Entry
    PROVE  PushDedup(known, e) \in Seq(Entry)
<1> HIDE DEF Entry
<1>1. Append(known, e) \in Seq(Entry)
    OBVIOUS
<1> QED
    BY <1>1, Zenon DEF PushDedup

\* The loop over the segments of a value is what it is after each of them.
LEMMA LoopSteps ==
    ASSUME NEW known \in Seq(Entry), NEW value \in Seq(Entry)
    PROVE  \E f \in [0 .. Len(value) -> Seq(Entry)] :
              /\ f[0] = known
              /\ \A i \in 1 .. Len(value) : f[i] = PushDedup(f[i - 1], value[i])
              /\ AllOf(known, value) = f[Len(value)]
<1> DEFINE n == Len(value)
           Steps(g, k) == g[0] = known /\ \A i \in 1 .. k : g[i] = PushDedup(g[i - 1], value[i])
           Has(k) == \E g \in [0 .. k -> Seq(Entry)] : Steps(g, k)
           T == { k \in Nat : k <= n => Has(k) }
<1>0. n \in Nat /\ \A i \in 1 .. n : value[i] \in Entry
    OBVIOUS
<1>1. 0 \in T
    <2> DEFINE g == [i \in 0 .. 0 |-> known]
    <2>1. g \in [0 .. 0 -> Seq(Entry)] /\ Steps(g, 0)
        OBVIOUS
    <2> QED
        BY <2>1
<1>2. ASSUME NEW k \in Nat, k \in T PROVE k + 1 \in T
    <2>1. SUFFICES ASSUME k + 1 <= n PROVE Has(k + 1)
        <3> HIDE DEF Has
        <3> QED OBVIOUS
    <2>2. PICK g \in [0 .. k -> Seq(Entry)] : Steps(g, k)
        BY <1>0, <1>2, <2>1
    <2> DEFINE pushed == PushDedup(g[k], value[k + 1])
               h == [i \in 0 .. k + 1 |-> IF i <= k THEN g[i] ELSE pushed]
    <2>3. pushed \in Seq(Entry)
        <3>1. g[k] \in Seq(Entry) /\ value[k + 1] \in Entry
            BY <1>0, <2>1, <2>2
        <3> QED
            BY <3>1, PushTyped
    <2>4. h \in [0 .. k + 1 -> Seq(Entry)]
        <3> HIDE DEF pushed
        <3> QED BY <2>2, <2>3
    <2>5. Steps(h, k + 1)
        <3>1. h[0] = known /\ h[k + 1] = pushed /\ h[k] = g[k] /\ \A i \in 0 .. k : h[i] = g[i]
            <4> HIDE DEF pushed
            <4> QED BY <2>2
        <3>2. ASSUME NEW i \in 1 .. k + 1 PROVE h[i] = PushDedup(h[i - 1], value[i])
            <4>1. CASE i = k + 1
                <5>1. i - 1 = k
                    BY <4>1
                <5> HIDE DEF h
                <5> QED BY <3>1, <4>1, <5>1, Zenon
            <4>2. CASE i \in 1 .. k
                <5>1. i - 1 \in 0 .. k /\ i \in 0 .. k
                    BY <4>2
                <5>2. h[i] = g[i] /\ h[i - 1] = g[i - 1] /\ g[i] = PushDedup(g[i - 1], value[i])
                    <6> HIDE DEF h
                    <6> QED BY <2>2, <3>1, <4>2, <5>1, Zenon
                <5> HIDE DEF h
                <5> QED BY <5>2, Zenon
            <4> QED
                BY <4>1, <4>2
        <3> HIDE DEF h
        <3> QED BY <3>1, <3>2, Zenon
    <2> HIDE DEF h, Steps
    <2> QED
        BY <2>4, <2>5
<1>3. Nat \subseteq T
    <2> HIDE DEF T
    <2> QED BY <1>1, <1>2, Induction
<1>4. Has(n)
    <2> HIDE DEF Has
    <2> QED BY <1>0, <1>3
<1>5. PICK g \in [0 .. n -> Seq(Entry)] : Steps(g, n)
    BY <1>4
<1> DEFINE Unfolds(f) == f = [i \in 0 .. Len(value) |-> IF i = 0 THEN known ELSE PushDedup(f[i - 1], value[i])]
           f0 == CHOOSE f : Unfolds(f)
<1>6. Unfolds(g)
    <2>1. g = [i \in 0 .. n |-> g[i]]
        BY <1>5
    <2>2. ASSUME NEW i \in 0 .. n PROVE g[i] = IF i = 0 THEN known ELSE PushDedup(g[i - 1], value[i])
        <3>1. i = 0 \/ i \in 1 .. n
            BY <1>0
        <3> QED
            BY <1>5, <3>1
    <2>3. [i \in 0 .. n |-> g[i]] = [i \in 0 .. n |-> IF i = 0 THEN known ELSE PushDedup(g[i - 1], value[i])]
        BY <2>2, Zenon
    <2> QED
        BY <2>1, <2>3, Zenon
<1>7. Unfolds(f0)
    <2> HIDE DEF Unfolds
    <2> QED BY <1>6, Zenon
<1>8. AllOf(known, value) = f0[n]
    BY Zenon DEF AllOf
<1>9. f0[0] = known /\ \A i \in 1 .. n : f0[i] = PushDedup(f0[i - 1], value[i])
    <2>1. 0 \in 0 .. n /\ \A i \in 1 .. n : i \in 0 .. n /\ i # 0
        BY <1>0
    <2>2. \A i \in 0 .. n : f0[i] = IF i = 0 THEN known ELSE PushDedup(f0[i - 1], value[i])
        <3> HIDE DEF f0
        <3>1. f0 = [i \in 0 .. Len(value) |-> IF i = 0 THEN known ELSE PushDedup(f0[i - 1], value[i])]
            BY <1>7, Zenon
        <3> DEFINE other == [i \in 0 .. Len(value) |-> IF i = 0 THEN known ELSE PushDedup(f0[i - 1], value[i])]
        <3>2. \A i \in 0 .. n : other[i] = IF i = 0 THEN known ELSE PushDedup(f0[i - 1], value[i])
            BY Zenon
        <3> HIDE DEF other
        <3>3. f0 = other
            BY <3>1, Zenon DEF other
        <3> QED BY <3>2, <3>3, Zenon
    <2> HIDE DEF f0
    <2> QED BY <2>1, <2>2
<1>10. f0 \in [0 .. n -> Seq(Entry)]
    <2> DEFINE D == { k \in Nat : k <= n => f0[k] \in Seq(Entry) }
    <2> HIDE DEF f0
    <2>1. 0 \in D
        BY <1>9
    <2>2. ASSUME NEW k \in Nat, k \in D PROVE k + 1 \in D
        <3>1. SUFFICES ASSUME k + 1 <= n PROVE f0[k + 1] \in Seq(Entry)
            OBVIOUS
        <3>2. f0[k] \in Seq(Entry) /\ value[k + 1] \in Entry /\ k + 1 \in 1 .. n /\ (k + 1) - 1 = k
            BY <1>0, <2>2, <3>1
        <3>3. f0[k + 1] = PushDedup(f0[(k + 1) - 1], value[k + 1])
            BY <1>9, <3>2
        <3> QED
            BY <3>2, <3>3, PushTyped
    <2>3. Nat \subseteq D
        <3> HIDE DEF D
        <3> QED BY <2>1, <2>2, Induction
    <2>4. \A i \in 0 .. n : f0[i] \in Seq(Entry)
        BY <1>0, <2>3
    <2>5. f0 = [i \in 0 .. n |-> f0[i]]
        <3> DEFINE other == [i \in 0 .. Len(value) |-> IF i = 0 THEN known ELSE PushDedup(f0[i - 1], value[i])]
        <3>1. f0 = other
            BY <1>7, Zenon
        <3>2. other = [i \in 0 .. n |-> other[i]]
            BY Zenon
        <3> HIDE DEF other
        <3> QED BY <3>1, <3>2, Zenon
    <2> HIDE DEF n
    <2> QED
        BY <2>4, <2>5
<1> HIDE DEF f0
<1> QED
    BY <1>8, <1>9, <1>10, Zenon

\* A list that extends one that extends another extends that.
LEMMA ExtendsChains ==
    ASSUME NEW a \in Seq(Entry), NEW b \in Seq(Entry), NEW c \in Seq(Entry), Extends(a, b), Extends(b, c)
    PROVE  Extends(a, c)
<1> HIDE DEF Entry
<1>1. Len(a) \in Nat /\ Len(b) \in Nat /\ Len(c) \in Nat
    OBVIOUS
<1> QED
    BY <1>1 DEF Extends

\* A whole value is pushed: nothing of what was known is lost or moved, every directory of the
\* value is there, and the list is a merged one.
LEMMA LoopKeeps ==
    ASSUME NEW known, MergedList(known), NEW value \in Seq(Entry)
    PROVE  LET all == AllOf(known, value) IN
           /\ MergedList(all)
           /\ Extends(all, known)
           /\ Dirs(all) = Dirs(known) \cup (Dirs(value) \ {NoText})
<1> DEFINE n == Len(value)
           upTo(k) == { DirOf(value[i]) : i \in 1 .. k }
           Kept(k, all) ==
               /\ MergedList(all)
               /\ Extends(all, known)
               /\ Dirs(all) = Dirs(known) \cup (upTo(k) \ {NoText})
<1>0. n \in Nat /\ DOMAIN value = 1 .. n /\ (\A i \in 1 .. n : value[i] \in Entry) /\ known \in Seq(Entry)
    BY DEF MergedList
<1>1. PICK f \in [0 .. n -> Seq(Entry)] :
              /\ f[0] = known
              /\ \A i \in 1 .. n : f[i] = PushDedup(f[i - 1], value[i])
              /\ AllOf(known, value) = f[n]
    BY <1>0, LoopSteps
<1> DEFINE T == { k \in Nat : k <= n => Kept(k, f[k]) }
<1>2. 0 \in T
    <2>1. upTo(0) = {}
        OBVIOUS
    <2>2. Extends(known, known)
        <3>1. Len(known) \in Nat
            BY <1>0
        <3> QED
            BY <3>1 DEF Extends
    <2>3. Kept(0, known)
        <3> HIDE DEF upTo
        <3> QED BY <2>1, <2>2
    <2> HIDE DEF Kept
    <2> QED
        BY <1>1, <2>3
<1>3. ASSUME NEW k \in Nat, k \in T PROVE k + 1 \in T
    <2>1. SUFFICES ASSUME k + 1 <= n PROVE Kept(k + 1, f[k + 1])
        <3> HIDE DEF Kept
        <3> QED OBVIOUS
    <2>2. k + 1 \in 1 .. n /\ (k + 1) - 1 = k /\ k \in 0 .. n /\ k + 1 \in 0 .. n
        BY <1>0, <2>1
    <2>3. f[k + 1] = PushDedup(f[k], value[k + 1]) /\ value[k + 1] \in Entry
          /\ f[k] \in Seq(Entry) /\ f[k + 1] \in Seq(Entry)
        <3>1. f[k + 1] = PushDedup(f[(k + 1) - 1], value[k + 1])
            BY <1>1, <2>2, Zenon
        <3> QED
            BY <1>0, <1>1, <2>2, <3>1
    <2>4. Kept(k, f[k])
        <3> HIDE DEF Kept
        <3> QED BY <1>0, <1>3, <2>1
    <2>5. /\ MergedList(f[k + 1])
          /\ Extends(f[k + 1], f[k])
          /\ Dirs(f[k + 1]) = Dirs(f[k]) \cup ({DirOf(value[k + 1])} \ {NoText})
        <3>1. value[k + 1] \in Entry /\ MergedList(f[k])
            BY <2>3, <2>4
        <3>2. /\ MergedList(PushDedup(f[k], value[k + 1]))
              /\ Extends(PushDedup(f[k], value[k + 1]), f[k])
              /\ Dirs(PushDedup(f[k], value[k + 1])) = Dirs(f[k]) \cup ({DirOf(value[k + 1])} \ {NoText})
            <4> HIDE DEF upTo, Kept, T
            <4> QED BY <3>1, PushKeeps
        <3> QED
            BY <2>3, <3>2, Zenon
    <2>6. Extends(f[k + 1], known)
        BY <1>0, <2>3, <2>4, <2>5, ExtendsChains
    <2>7. upTo(k + 1) = upTo(k) \cup {DirOf(value[k + 1])}
        <3>1. 1 .. k + 1 = (1 .. k) \cup {k + 1}
            OBVIOUS
        <3> QED
            BY <3>1, Zenon
    <2> HIDE DEF upTo
    <2> QED
        BY <2>4, <2>5, <2>6, <2>7
<1>4. Nat \subseteq T
    <2> HIDE DEF T
    <2> QED BY <1>2, <1>3, Induction
<1>5. Kept(n, f[n])
    <2> HIDE DEF Kept
    <2> QED BY <1>0, <1>4
<1>6. upTo(n) = Dirs(value)
    BY <1>0, Zenon DEF Dirs
<1> HIDE DEF upTo
<1> QED
    BY <1>1, <1>5, <1>6

\* A set of numbers up to a bound that is not empty has a greatest element.
LEMMA Greatest ==
    ASSUME NEW m \in Nat, NEW T, T \subseteq 0 .. m, T # {}
    PROVE  \E x \in T : \A y \in T : y <= x
<1> DEFINE R == { m - x : x \in T }
<1>1. R \subseteq Nat /\ R # {}
    <2>1. \A x \in T : m - x \in Nat
        OBVIOUS
    <2> QED
        BY <2>1, Zenon
<1>2. PICK r \in R : \A y \in R : r <= y
    <2> HIDE DEF R
    <2> QED BY <1>1, Least
<1>3. PICK x \in T : r = m - x
    OBVIOUS
<1>4. ASSUME NEW y \in T PROVE y <= x
    <2>1. m - y \in R
        OBVIOUS
    <2>2. m - x <= m - y
        BY <1>2, <1>3, <2>1
    <2>3. x \in 0 .. m /\ y \in 0 .. m
        OBVIOUS
    <2> HIDE DEF R
    <2> QED
        BY <2>2, <2>3
<1> QED
    BY <1>4

\* A value of the registry is cut between two entries, if the code does not panic.
LEMMA CappedTyped ==
    ASSUME NEW value \in Seq(Entry), Capped(value) # None
    PROVE  /\ Capped(value) \in Seq(Entry)
           /\ Size(value) <= MaxPathBytes => Capped(value) = value
<1>1. CASE Size(value) <= MaxPathBytes
    BY <1>1, Zenon DEF Capped
<1>2. CASE ~(Size(value) <= MaxPathBytes)
    <2> DEFINE fits == { n \in 0 .. Len(value) - 1 : EndOf(value, n) + 1 <= MaxPathBytes }
               shorter == CHOOSE n \in fits : \A m \in fits : m <= n
    <2>1. Capped(value) = SubSeq(value, 1, shorter)
        BY <1>2, Zenon DEF Capped
    <2>2. EndOf(value, 0) = -1
        <3> DEFINE Unfolds(f) == f = [i \in 0 .. 0 |-> IF i = 0 THEN -1 ELSE f[i - 1] + 1 + value[i].bytes]
                   f0 == CHOOSE f : Unfolds(f)
                   g == [i \in 0 .. 0 |-> -1]
        <3>1. Unfolds(g)
            OBVIOUS
        <3>2. Unfolds(f0)
            <4> HIDE DEF Unfolds
            <4> QED BY <3>1, Zenon
        <3>3. EndOf(value, 0) = f0[0]
            BY Zenon DEF EndOf
        <3>4. f0[0] = -1
            <4> HIDE DEF f0
            <4> QED BY <3>2
        <3> QED
            BY <3>3, <3>4
    <2>3. Len(value) \in Nat
        BY Zenon, LenProperties
    <2>4. Len(value) # 0
        <3>1. SUFFICES ASSUME Len(value) = 0 PROVE FALSE
            OBVIOUS
        <3>2. Size(value) = -1
            BY <2>2, <3>1, Zenon DEF Size
        <3>3. MaxPathBytes \in Nat
            BY PathAssumption, Zenon
        <3> QED
            BY <1>2, <3>2, <3>3
    <2>5. fits \subseteq 0 .. Len(value) - 1 /\ 0 \in fits /\ Len(value) - 1 \in Nat
        <3>1. MaxPathBytes \in Nat
            BY PathAssumption, Zenon
        <3>2. EndOf(value, 0) + 1 <= MaxPathBytes
            BY <2>2, <3>1
        <3>3. 0 \in 0 .. Len(value) - 1 /\ Len(value) - 1 \in Nat
            BY <2>3, <2>4
        <3> QED
            BY <3>2, <3>3, Zenon
    <2>6. \E n \in fits : \A m \in fits : m <= n
        <3> HIDE DEF fits
        <3> QED BY <2>5, Greatest
    <2>7. shorter \in fits
        <3> HIDE DEF fits
        <3> QED BY <2>6, Zenon
    <2>8. shorter \in 0 .. Len(value)
        <3>1. shorter \in 0 .. Len(value) - 1
            BY <2>5, <2>7, Zenon
        <3> HIDE DEF shorter
        <3> QED
            BY <2>3, <3>1
    <2>9. SubSeq(value, 1, shorter) \in Seq(Entry)
        <3> HIDE DEF shorter
        <3> HIDE DEF Entry
        <3> QED
            BY <2>3, <2>8
    <2> QED
        BY <1>2, <2>1, <2>9, Zenon
<1> QED
    BY <1>1, <1>2

\* What is absorbed of a value: its first entries with their variables expanded, and all of
\* them when it has not too many.
LEMMA AbsorbIsLoop ==
    ASSUME NEW known, NEW value \in Seq(Entry)
    PROVE  \E w \in Seq(Entry) :
              /\ Absorb(known, value) = AllOf(known, w)
              /\ Len(value) <= MaxPathEntries => w = [i \in DOMAIN value |-> Expanded(value[i])]
<1> DEFINE m == IF Len(value) > MaxPathEntries THEN MaxPathEntries ELSE Len(value)
           w == [i \in 1 .. m |-> Expanded(value[i])]
<1>1. Len(value) \in Nat /\ MaxPathEntries \in Nat /\ DOMAIN value = 1 .. Len(value)
    BY Zenon, LenProperties, PathAssumption
<1>2. m \in 0 .. Len(value) /\ m \in Nat
    BY <1>1
<1>3. \A i \in 1 .. m : Expanded(value[i]) \in Entry
    <2>1. \A i \in 1 .. m : i \in 1 .. Len(value)
        <3> HIDE DEF m
        <3> QED BY <1>1, <1>2
    <2>2. \A i \in 1 .. Len(value) : value[i] \in Entry
        <3> HIDE DEF Entry
        <3> QED OBVIOUS
    <2> HIDE DEF m
    <2> QED
        BY <2>1, <2>2, EntryTyped
<1>4. w \in Seq(Entry)
    <2> HIDE DEF m
    <2> QED BY <1>2, <1>3
<1>5. Absorb(known, value) = AllOf(known, w)
    BY Zenon DEF Absorb
<1>6. Len(value) <= MaxPathEntries => w = [i \in DOMAIN value |-> Expanded(value[i])]
    <2>1. Len(value) <= MaxPathEntries => ~(Len(value) > MaxPathEntries)
        BY <1>1
    <2>2. Len(value) <= MaxPathEntries => m = Len(value)
        BY <2>1, Zenon
    <2> HIDE DEF m
    <2> QED
        BY <1>1, <2>2, Zenon
<1> QED
    BY <1>4, <1>5, <1>6, Zenon

\* A merged list has as many directories as entries.
LEMMA MergedCount ==
    ASSUME NEW all, MergedList(all)
    PROVE  Cardinality({ [x EXCEPT !.capitals = FALSE, !.bytes = 0, !.last = 0] :
                            x \in { all[i] : i \in DOMAIN all } }) = Len(all)
<1> DEFINE n == Len(all)
           key(x) == [x EXCEPT !.capitals = FALSE, !.bytes = 0, !.last = 0]
           S == { key(x) : x \in { all[i] : i \in DOMAIN all } }
           f == [i \in 1 .. n |-> key(all[i])]
<1>1. all \in Seq(Entry) /\ \A i, j \in 1 .. n : SameEntry(all[i], all[j]) => i = j
    BY Zenon DEF MergedList
<1>2. n \in Nat /\ DOMAIN all = 1 .. n /\ \A i \in 1 .. n : all[i] \in Entry
    <2> HIDE DEF Entry
    <2> QED BY <1>1
<1>3. ASSUME NEW x \in Entry PROVE key(x).dir = x.dir /\ key(x).var = x.var
    <2>1. x = [dir |-> x.dir, capitals |-> x.capitals, var |-> x.var, bytes |-> x.bytes, last |-> x.last]
        BY EntryTyped
    <2> QED
        BY <2>1
<1>4. \A i, j \in 1 .. n : key(all[i]) = key(all[j]) => i = j
    <2>1. SUFFICES ASSUME NEW i \in 1 .. n, NEW j \in 1 .. n, key(all[i]) = key(all[j]) PROVE i = j
        OBVIOUS
    <2>2. /\ key(all[i]).dir = all[i].dir /\ key(all[i]).var = all[i].var
          /\ key(all[j]).dir = all[j].dir /\ key(all[j]).var = all[j].var
        <3> HIDE DEF key
        <3> QED BY <1>2, <1>3
    <2>3. SameEntry(all[i], all[j])
        <3> HIDE DEF key
        <3> QED BY <2>1, <2>2, Zenon DEF SameEntry
    <2> QED
        BY <1>1, <2>3
<1>5. S = { key(all[i]) : i \in 1 .. n }
    <2> HIDE DEF key
    <2> QED BY <1>2
<1>6. f \in Bijection(1 .. n, S)
    <2> HIDE DEF key
    <2>1. f \in [1 .. n -> S]
        <3> HIDE DEF S
        <3> QED BY <1>5
    <2>2. \A i \in 1 .. n : f[i] = key(all[i])
        OBVIOUS
    <2>3. DOMAIN f = 1 .. n
        OBVIOUS
    <2> HIDE DEF f, S
    <2>4. IsInjective(f)
        BY <1>4, <2>2, <2>3 DEF IsInjective
    <2>5. \A t \in S : \E i \in 1 .. n : f[i] = t
        BY <1>5, <2>2
    <2> QED
        BY <2>1, <2>4, <2>5 DEF Bijection, Injection, Surjection
<1>7. Cardinality(S) = n
    <2> HIDE DEF f, S
    <2> QED BY <1>2, <1>6, FS_CountingElements DEF ExistsBijection
<1> QED
    BY <1>7

\* PATH and two values of the registry are merged.
LEMMA MergedIsRight ==
    ASSUME NEW process \in Seq(Entry), NEW user \in Seq(Entry), NEW system \in Seq(Entry),
           Capped(user) # None, Capped(system) # None
    PROVE  LET e == EffectiveSearchPath(process, user, system)
               within(value) == Size(value) <= MaxPathBytes /\ Len(value) <= MaxPathEntries
           IN  /\ MergedList(e.combined)
               /\ Dirs(SubSeq(e.combined, 1, e.from_process)) = Dirs(process) \ {NoText}
               /\ \A v \in {user, system} :
                     within(v) => Dirs([i \in DOMAIN v |-> Expanded(v[i])]) \ {NoText} \subseteq Dirs(e.combined)
               /\ e.from_process + e.from_user + e.from_system = Len(e.combined)
<1> HIDE DEF Entry
<1> DEFINE one == AllOf(<<>>, process)
           two == Absorb(one, Capped(user))
           all == Absorb(two, Capped(system))
           within(value) == Size(value) <= MaxPathBytes /\ Len(value) <= MaxPathEntries
           e == EffectiveSearchPath(process, user, system)
<1>1. e = [combined |-> all, from_process |-> Len(one),
           from_user |-> Len(two) - Len(one), from_system |-> Len(all) - Len(two)]
    BY Zenon DEF EffectiveSearchPath
<1>2. MergedList(<<>>) /\ Dirs(<<>>) = {}
    <2>1. <<>> \in Seq(Entry) /\ Len(<<>>) = 0 /\ DOMAIN <<>> = {}
        OBVIOUS
    <2>2. MergedList(<<>>)
        BY <2>1 DEF MergedList
    <2>3. Dirs(<<>>) = {}
        BY <2>1, Zenon DEF Dirs
    <2> QED
        BY <2>2, <2>3
<1>3. MergedList(one) /\ Dirs(one) = Dirs(process) \ {NoText}
    <2>1. MergedList(one) /\ Dirs(one) = Dirs(<<>>) \cup (Dirs(process) \ {NoText})
        BY <1>2, LoopKeeps, Zenon
    <2> QED
        BY <1>2, <2>1
<1>4. ASSUME NEW known, MergedList(known), NEW v \in Seq(Entry), Capped(v) # None
      PROVE  LET more == Absorb(known, Capped(v)) IN
             /\ MergedList(more)
             /\ Extends(more, known)
             /\ Dirs(known) \subseteq Dirs(more)
             /\ within(v) => Dirs([i \in DOMAIN v |-> Expanded(v[i])]) \ {NoText} \subseteq Dirs(more)
    <2>1. Capped(v) \in Seq(Entry) /\ (within(v) => Capped(v) = v)
        BY <1>4, CappedTyped
    <2>2. PICK w \in Seq(Entry) :
              /\ Absorb(known, Capped(v)) = AllOf(known, w)
              /\ Len(Capped(v)) <= MaxPathEntries => w = [i \in DOMAIN Capped(v) |-> Expanded(Capped(v)[i])]
        BY <2>1, AbsorbIsLoop, Zenon
    <2> DEFINE more == Absorb(known, Capped(v))
    <2>3. MergedList(more) /\ Extends(more, known) /\ Dirs(more) = Dirs(known) \cup (Dirs(w) \ {NoText})
        <3>1. /\ MergedList(AllOf(known, w)) /\ Extends(AllOf(known, w), known)
              /\ Dirs(AllOf(known, w)) = Dirs(known) \cup (Dirs(w) \ {NoText})
            BY <1>4, LoopKeeps, Zenon
        <3> QED
            BY <2>2, <3>1, Zenon
    <2>4. within(v) => w = [i \in DOMAIN v |-> Expanded(v[i])]
        BY <2>1, <2>2, Zenon
    <2> HIDE DEF within
    <2> QED
        BY <2>3, <2>4, Zenon
<1>5. /\ MergedList(two) /\ Extends(two, one) /\ Dirs(one) \subseteq Dirs(two)
      /\ within(user) => Dirs([i \in DOMAIN user |-> Expanded(user[i])]) \ {NoText} \subseteq Dirs(two)
    <2> HIDE DEF one, within
    <2> QED BY <1>3, <1>4, Zenon
<1>6. /\ MergedList(all) /\ Extends(all, two) /\ Dirs(two) \subseteq Dirs(all)
      /\ within(system) => Dirs([i \in DOMAIN system |-> Expanded(system[i])]) \ {NoText} \subseteq Dirs(all)
    <2> HIDE DEF two, within
    <2> QED BY <1>4, <1>5, Zenon
<1>7. /\ one \in Seq(Entry) /\ two \in Seq(Entry) /\ all \in Seq(Entry)
      /\ Len(one) \in Nat /\ Len(two) \in Nat /\ Len(all) \in Nat
    <2> HIDE DEF one, two, all
    <2>1. one \in Seq(Entry) /\ two \in Seq(Entry) /\ all \in Seq(Entry)
        BY <1>3, <1>5, <1>6, Zenon DEF MergedList
    <2> QED
        BY <2>1
<1>8. Dirs(SubSeq(all, 1, Len(one))) = Dirs(one)
    <2> HIDE DEF one, two, all
    <2>1. Extends(all, one)
        BY <1>5, <1>6, <1>7, ExtendsChains
    <2>2. /\ DOMAIN SubSeq(all, 1, Len(one)) = 1 .. Len(one) /\ DOMAIN one = 1 .. Len(one)
          /\ \A i \in 1 .. Len(one) : SubSeq(all, 1, Len(one))[i] = one[i]
        BY <1>7, <2>1 DEF Extends
    <2> QED
        BY <2>2 DEF Dirs
<1>9. /\ e.combined = all /\ e.from_process = Len(one)
      /\ e.from_user = Len(two) - Len(one) /\ e.from_system = Len(all) - Len(two)
    <2> HIDE DEF one, two, all, e
    <2> QED BY <1>1
<1> HIDE DEF one, two, all, e, within
<1>10. e.from_process + e.from_user + e.from_system = Len(e.combined)
    BY <1>7, <1>9
<1>11. Dirs(SubSeq(e.combined, 1, e.from_process)) = Dirs(process) \ {NoText}
    BY <1>3, <1>8, <1>9, Zenon
<1>12. ASSUME NEW v \in {user, system}, within(v)
       PROVE  Dirs([i \in DOMAIN v |-> Expanded(v[i])]) \ {NoText} \subseteq Dirs(e.combined)
    BY <1>5, <1>6, <1>9, <1>12, Zenon
<1> QED
    BY <1>6, <1>9, <1>10, <1>11, <1>12, Zenon DEF e, within

-----------------------------------------------------------------------------
\* PATH is a value of PATH, and a process that answered did not panic over the registry.
MergeInv ==
    /\ path \in DOMAIN Paths
    /\ registry \in {None} \cup DOMAIN Registry
    /\ last # None /\ registry # None /\ last.answer # "panic" => Merged # None

\* The merged paths that are kept, by PATH and registry.
LEMMA MergesAt ==
    ASSUME NEW p \in DOMAIN Paths, NEW r \in DOMAIN Registry
    PROVE  /\ Merges[p][r] = EffectiveSearchPath(Paths[p], Registry[r].user, Registry[r].system)
           /\ Paths[p] \in Seq(Entry)
           /\ Registry[r].user \in Seq(Entry) /\ Registry[r].system \in Seq(Entry)
<1>1. Merges[p][r] = EffectiveSearchPath(Paths[p], Registry[r].user, Registry[r].system)
    BY Zenon DEF Merges
<1>2. Paths \in [DOMAIN Paths -> Seq(Entry)]
      /\ Registry \in [DOMAIN Registry -> [user : Seq(Entry), system : Seq(Entry)]]
    BY LookupAssumption, Zenon
<1> HIDE DEF Entry
<1> QED
    BY <1>1, <1>2

\* A process that got an answer had merged a path.
LEMMA AskMerges ==
    ASSUME MergeInv, NEW by, NEW prepend, NEW c, Ask(by, prepend, c)
    PROVE  MergeInv'
<1>1. UNCHANGED <<path, registry>>
    BY Zenon DEF Ask, world
<1>2. Merged' = Merged
    BY <1>1, Zenon DEF Merged
<1>3. SearchDirs = None => last'.answer = "panic"
    BY DEF Ask
<1>4. registry # None /\ Merged = None => SearchDirs = None
    BY DEF SearchDirs
<1> QED
    BY <1>1, <1>2, <1>3, <1>4, Zenon DEF MergeInv

\* Each step keeps that.
LEMMA NextMerges == MergeInv /\ [Next]_vars => MergeInv'
<1> SUFFICES ASSUME MergeInv, [Next]_vars PROVE MergeInv'
    OBVIOUS
<1>1. CASE \E by \in {"hook", "doctor"}, prepend \in Prepends, c \in Movable : Ask(by, prepend, c)
    BY <1>1, AskMerges
<1>2. ASSUME NEW p \in DOMAIN Paths, SetPath(p) PROVE MergeInv'
    BY <1>2, Zenon DEF SetPath, MergeInv
<1>3. CASE UNCHANGED vars
    <2>1. UNCHANGED <<path, registry, last>>
        BY <1>3, Zenon DEF vars, world
    <2> QED
        BY <2>1, Zenon DEF MergeInv, Merged
<1>4. CASE ListCommands \/ ScriptResolves \/ PrecacheResolved \/ PrecacheLive \/ Tick
           \/ (\E p \in Places, c \in Movable : Install(p, c) \/ Uninstall(p, c))
           \/ (\E sh \in Shells : EnterShell(sh)) \/ (\E g \in Configs : EditConfig(g))
    <2>1. last' = None /\ UNCHANGED <<path, registry>>
        BY <1>4 DEF ListCommands, ScriptResolves, PrecacheResolved, PrecacheLive, Tick, Install, Uninstall,
                    EnterShell, EditConfig, world
    <2> QED
        BY <2>1, Zenon DEF MergeInv
<1> QED
    BY <1>1, <1>2, <1>3, <1>4, Zenon DEF Next

\* So the merged path is as the property has it.
LEMMA MergedIsSo == MergeInv => PathIsMerged
<1> SUFFICES ASSUME MergeInv, registry # None, last # None, last.answer # "panic"
             PROVE  PathIsMerged
    BY Zenon DEF PathIsMerged
<1> DEFINE user == Registry[registry].user
           system == Registry[registry].system
           e == EffectiveSearchPath(Paths[path], user, system)
           within(value) == Size(value) <= MaxPathBytes /\ Len(value) <= MaxPathEntries
<1>1. registry \in DOMAIN Registry /\ path \in DOMAIN Paths /\ Merged # None
    BY Zenon DEF MergeInv
<1>2. Merged = e /\ Paths[path] \in Seq(Entry) /\ user \in Seq(Entry) /\ system \in Seq(Entry)
    BY <1>1, MergesAt, Zenon DEF Merged
<1>3. Capped(user) # None /\ Capped(system) # None
    <2>1. e # None
        BY <1>1, <1>2, Zenon
    <2> HIDE DEF user, system
    <2> QED
        BY <2>1, Zenon DEF EffectiveSearchPath
<1>4. /\ MergedList(e.combined)
      /\ Dirs(SubSeq(e.combined, 1, e.from_process)) = Dirs(Paths[path]) \ {NoText}
      /\ \A v \in {user, system} :
            within(v) => Dirs([i \in DOMAIN v |-> Expanded(v[i])]) \ {NoText} \subseteq Dirs(e.combined)
      /\ e.from_process + e.from_user + e.from_system = Len(e.combined)
    <2> HIDE DEF user, system
    <2> QED BY <1>2, <1>3, MergedIsRight
<1>5. SearchDirs = Dirs(Merged.combined)
    BY <1>1 DEF SearchDirs
<1>6. Cardinality({ [x EXCEPT !.capitals = FALSE, !.bytes = 0, !.last = 0] :
                       x \in { e.combined[i] : i \in DOMAIN e.combined } }) = Len(e.combined)
    <2> HIDE DEF e
    <2> QED BY <1>4, MergedCount
<1> HIDE DEF e
<1> QED
    BY <1>2, <1>4, <1>5, <1>6, Zenon DEF PathIsMerged

\* The search path of Windows, for every PATH and every registry: no directory of PATH or of
\* a hive within the caps is lost, none is there twice, PATH comes first, and the counts that
\* doctor shows are right.
THEOREM SearchPathIsMerged == Spec => []PathIsMerged
<1>1. Init => MergeInv
    BY Zenon DEF Init, MergeInv
<1>2. Spec => []MergeInv
    BY <1>1, NextMerges, PTL DEF Spec
<1> QED
    BY <1>2, MergedIsSo, PTL

-----------------------------------------------------------------------------
ProbeSpec == ProbeInit /\ [][ProbeNext]_<<childVars, probeVars>>
PasteSpec == PasteInit /\ [][PasteNext]_<<childVars, pasteVars>>

-----------------------------------------------------------------------------
\* The two counters follow each other through the text, and a child that succeeds has
\* written all of it.
PipeInv ==
    /\ IsText(text)
    /\ sent \in Nat
    /\ got \in Nat
    /\ got <= sent
    /\ sent <= Len(text)
    /\ child = "ok" => sent = Len(text)

\* A text is its own prefix of full length.
LEMMA WholePrefix ==
    ASSUME NEW t, IsText(t)
    PROVE  SubSeq(t, 1, Len(t)) = t /\ Len(t) \in Nat
BY DEF IsText

\* A process that was never started has nothing in its pipe.
LEMMA NoChildHasPipe == NoChild => PipeInv
BY DEF NoChild, PipeInv, IsText

\* The child's side of the pipe keeps the counters in order.
LEMMA WorldKeepsPipe == PipeInv /\ World => PipeInv'
<1> SUFFICES ASSUME PipeInv, World PROVE PipeInv'
    OBVIOUS
<1>len. Len(text) \in Nat
    BY WholePrefix DEF PipeInv
<1> USE DEF PipeInv
<1>1. CASE ChildWrites
    BY <1>len, <1>1 DEF ChildWrites
<1>2. CASE ChildExits
    BY <1>2 DEF ChildExits
<1>3. CASE HolderLetsGo
    BY <1>3 DEF HolderLetsGo
<1>4. CASE TimePasses
    BY <1>4 DEF TimePasses
<1> QED
    BY <1>1, <1>2, <1>3, <1>4 DEF World

\* A new child has written nothing.
LEMMA SpawnedKeepsPipe ==
    ASSUME NEW t, IsText(t), Spawned(t)
    PROVE  PipeInv'
BY WholePrefix DEF PipeInv, Spawned

-----------------------------------------------------------------------------
\* Where the blocking reader has stopped: past the cap, at the end of the pipe, or where a
\* read failed.
ReadInv == at = "exit" => cut \/ got > MaxOutput \/ (child # "running" /\ got = sent)

ProbeInv == PipeInv /\ ReadInv /\ AnswerIsWhole

\* The caller's steps keep the counters in order.
LEMMA ProbeKeepsPipe == PipeInv /\ (ProbeStep \/ ProbeFails \/ BrokenPipe) => PipeInv'
<1> SUFFICES ASSUME PipeInv, ProbeStep \/ ProbeFails \/ BrokenPipe PROVE PipeInv'
    OBVIOUS
<1> USE DEF PipeInv, childVars, KillGroup, AfterRead
<1>1. ASSUME NEW t \in Listings, SpawnShell(t) PROVE PipeInv'
    BY <1>1, SpawnedKeepsPipe, ProbeAssumption DEF SpawnShell
<1>2. CASE DrainChunk \/ Overflow
    BY <1>2, ProbeAssumption DEF DrainChunk, Overflow
<1>3. CASE ReadBlocking \/ Collect
    BY <1>3 DEF ReadBlocking, Collect
<1>4. CASE OutOfTime
    BY <1>4 DEF OutOfTime
<1>5. CASE BrokenPipe
    BY <1>5 DEF BrokenPipe
<1>6. CASE ShellMissing \/ TimeRemains \/ PollReady \/ PollTimesOut \/ Drained \/ StillRunning
             \/ ProbeFails \/ ReadEnds \/ Waited
    BY <1>6 DEF ShellMissing, TimeRemains, PollReady, PollTimesOut, Drained, StillRunning,
                ProbeFails, DrainFails, WaitFails, ReadFails, ReadEnds, Waited
<1> QED
    BY <1>1, <1>2, <1>3, <1>4, <1>5, <1>6 DEF ProbeStep

\* The world leaves the caller alone, and a reader at the end of the pipe finds no more.
LEMMA WorldKeepsReader == ProbeInv /\ World /\ UNCHANGED probeVars => ReadInv' /\ AnswerIsWhole'
<1> SUFFICES ASSUME ProbeInv, World, UNCHANGED probeVars PROVE ReadInv' /\ AnswerIsWhole'
    OBVIOUS
<1> USE DEF ProbeInv, ReadInv, AnswerIsWhole, Conflicts, Parsed, probeVars
<1>1. CASE ChildWrites
    BY <1>1 DEF ChildWrites
<1>2. CASE ChildExits
    BY <1>2 DEF ChildExits
<1>3. CASE HolderLetsGo \/ TimePasses
    BY <1>3 DEF HolderLetsGo, TimePasses
<1> QED
    BY <1>1, <1>2, <1>3 DEF World

\* An answer is given only where the whole text has been got, or a read failed.
LEMMA ProbeKeepsAnswer ==
    ProbeInv /\ (ProbeStep \/ ProbeFails \/ BrokenPipe) => ReadInv' /\ AnswerIsWhole'
<1> SUFFICES ASSUME ProbeInv, ProbeStep \/ ProbeFails \/ BrokenPipe PROVE ReadInv' /\ AnswerIsWhole'
    OBVIOUS
<1>len. SubSeq(text, 1, Len(text)) = text /\ Len(text) \in Nat
    BY WholePrefix DEF ProbeInv, PipeInv
<1> USE DEF ReadInv, AnswerIsWhole, Goto, NoAnswer, End, childVars
<1>1. ASSUME NEW t \in Listings, SpawnShell(t) PROVE ReadInv' /\ AnswerIsWhole'
    BY <1>1 DEF SpawnShell
<1>2. CASE ShellMissing \/ OutOfTime \/ Overflow \/ WaitFails
    BY <1>2 DEF ShellMissing, OutOfTime, Overflow, WaitFails
<1>3. CASE TimeRemains \/ PollReady \/ PollTimesOut \/ DrainChunk \/ Drained \/ StillRunning
             \/ ReadBlocking \/ DrainFails \/ ReadFails
    BY <1>3 DEF TimeRemains, PollReady, PollTimesOut, DrainChunk, Drained, StillRunning,
                ReadBlocking, DrainFails, ReadFails
<1>4. CASE Collect
    <2>1. CASE got' <= MaxOutput /\ child = "ok" /\ got' = sent
        <3>1. sent = Len(text) /\ got' = Len(text) /\ Answer(text) /\ UNCHANGED <<child, text>>
            BY <1>len, <1>4, <2>1 DEF Collect, ProbeInv, PipeInv
        <3> QED
            BY <2>1, <3>1 DEF Answer, Conflicts, Parsed
    <2>2. CASE got' <= MaxOutput /\ child = "ok" /\ got' # sent
        <3>1. got' \in got .. sent /\ cut' = (got' < sent) /\ child' = "ok" /\ at' = "done"
            BY <1>4, <2>2 DEF Collect, Answer
        <3>2. got' < sent
            BY <2>2, <3>1 DEF ProbeInv, PipeInv
        <3> QED
            BY <3>1, <3>2
    <2>3. CASE ~(got' <= MaxOutput /\ child = "ok")
        BY <1>4, <2>3 DEF Collect
    <2> QED
        BY <2>1, <2>2, <2>3
<1>5. CASE ReadEnds
    BY <1>5, ProbeAssumption DEF ReadEnds, Readable, ProbeInv, PipeInv
<1>6. CASE BrokenPipe
    BY <1>6 DEF BrokenPipe, probeVars, ProbeInv
<1>7. CASE Waited
    <2>1. CASE got <= MaxOutput /\ child = "ok" /\ ~cut
        <3>0. got = Len(text)
            BY <1>len, <1>7, <2>1, ProbeAssumption DEF Waited, ProbeInv, PipeInv
        <3>1. Answer(text) /\ UNCHANGED <<child, text>>
            BY <1>len, <1>7, <2>1, <3>0 DEF Waited
        <3>2. Len(text) <= MaxOutput
            BY <2>1, <3>0
        <3> QED
            BY <2>1, <3>1, <3>2 DEF Answer, Conflicts, Parsed
    <2>2. CASE got <= MaxOutput /\ child = "ok" /\ cut
        BY <1>7, <2>2 DEF Waited, Answer
    <2>3. CASE ~(got <= MaxOutput /\ child = "ok")
        BY <1>7, <2>3 DEF Waited
    <2> QED
        BY <2>1, <2>2, <2>3
<1> QED
    BY <1>1, <1>2, <1>3, <1>4, <1>5, <1>6, <1>7 DEF ProbeStep, ProbeFails

\* The aliases that doctor compares the rules with are all that the shell listed: no line is
\* lost between the last read and the exit, none is taken from a shell that failed or was
\* killed, and no output over the cap is cut.  After a read that failed, which the code does
\* not tell from the end, it is only said that the shell succeeded.
THEOREM AnswersAreWhole == ProbeSpec => []AnswerIsWhole
<1>1. ProbeInit => ProbeInv
    BY NoChildHasPipe DEF ProbeInit, ProbeInv, ReadInv, AnswerIsWhole
<1>2. ProbeInv /\ [ProbeNext]_<<childVars, probeVars>> => ProbeInv'
    <2> SUFFICES ASSUME ProbeInv, [ProbeNext]_<<childVars, probeVars>> PROVE ProbeInv'
        OBVIOUS
    <2>1. CASE ProbeStep \/ ProbeFails \/ BrokenPipe
        BY <2>1, ProbeKeepsPipe, ProbeKeepsAnswer DEF ProbeInv
    <2>2. CASE World /\ UNCHANGED probeVars
        BY <2>2, WorldKeepsPipe, WorldKeepsReader DEF ProbeInv
    <2>3. CASE UNCHANGED <<childVars, probeVars>>
        BY <2>3 DEF childVars, probeVars, ProbeInv, PipeInv, IsText, ReadInv, AnswerIsWhole,
                    Conflicts, Parsed
    <2> QED
        BY <2>1, <2>2, <2>3 DEF ProbeNext
<1>3. ProbeInv => AnswerIsWhole
    BY DEF ProbeInv
<1> QED
    BY <1>1, <1>2, <1>3, PTL DEF ProbeSpec

-----------------------------------------------------------------------------
\* On Unix a provider that is read has ended, and there is no text before the reader is
\* done.  Windows starts no child.
PasteInv ==
    chain # <<>> =>
        /\ PipeInv
        /\ doing = "read" => child \in {"ok", "failed"}
        /\ doing # "done" => pasted = <<>>
        /\ PasteIsWhole

\* On Unix the reader's steps keep the counters in order, and it gives the whole text.
LEMMA PasteKeeps ==
    ASSUME chain # <<>>, PasteInv, PasteStep \/ WaitErrs
    PROVE  PasteInv'
<1> USE DEF PasteInv, PasteIsWhole, TryNext, GiveUp, childVars
<1>1. ASSUME NEW t \in Clips, StartProvider(t) PROVE PasteInv'
    BY <1>1, SpawnedKeepsPipe, ClipAssumption DEF StartProvider
<1>2. CASE ProviderMissing \/ NoProviderLeft \/ ProviderExited \/ WaitErrs
    BY <1>2 DEF ProviderMissing, NoProviderLeft, ProviderExited, WaitErrs, Exited, PipeInv, IsText
<1>3. CASE KillProvider
    BY <1>3 DEF KillProvider, PipeInv, IsText
<1>4. CASE ReadOutput
    <2>1. PipeInv'
        BY <1>4 DEF ReadOutput, PipeInv, IsText
    <2>2. child \in {"ok", "failed"} /\ UNCHANGED <<child, text, chain>>
        BY <1>4 DEF ReadOutput, Give
    <2>3. CASE child = "failed" /\ Provider = "wl-paste"
        BY <1>4, <2>1, <2>2, <2>3 DEF ReadOutput, Give
    <2>4. CASE child = "failed" /\ Provider # "wl-paste"
        BY <1>4, <2>1, <2>2, <2>4 DEF ReadOutput
    <2>5. CASE child = "ok" /\ ~Decodes(text)
        BY <1>4, <2>1, <2>2, <2>5 DEF ReadOutput
    <2>6. CASE child = "ok" /\ Decodes(text)
        <3>1. got' = Len(text)
            BY <1>4, <2>6 DEF ReadOutput, PipeInv
        <3>2. Give(WithoutBom(text))
            BY <1>4, <2>6, <3>1, WholePrefix DEF ReadOutput, PipeInv
        <3> QED
            BY <2>1, <2>2, <3>2 DEF Give, WithoutBom
    <2> QED
        BY <2>2, <2>3, <2>4, <2>5, <2>6
<1>5. ~NativeRefuses /\ \A t \in NativeTexts : ~NativeText(t)
    BY DEF NativeRefuses, NativeText
<1> QED
    BY <1>1, <1>2, <1>3, <1>4, <1>5 DEF PasteStep

\* A provider that has ended prints no more, whatever it leaves behind.
LEMMA WorldKeepsPaste == PasteInv /\ World /\ UNCHANGED pasteVars => PasteInv'
<1> SUFFICES ASSUME PasteInv, World, UNCHANGED pasteVars, chain # <<>> PROVE PasteInv'
    BY DEF PasteInv, pasteVars
<1>1. PipeInv'
    BY WorldKeepsPipe DEF PasteInv
<1>2. text' = text /\ (child \in {"ok", "failed"} => child' = child)
    BY DEF World, ChildWrites, ChildExits, HolderLetsGo, TimePasses
<1> QED
    BY <1>1, <1>2 DEF PasteInv, PasteIsWhole, WithoutBom, pasteVars

\* On Unix Ctrl+V inserts all that the provider printed, but for a byte order mark, or
\* nothing: no provider is read before it has ended, and none that was killed is.
THEOREM PastesAreWhole == PasteSpec => []PasteIsWholeOnUnix
<1>1. PasteInit => PasteInv
    BY NoChildHasPipe DEF PasteInit, PasteInv, PasteIsWhole
<1>2. PasteInv /\ [PasteNext]_<<childVars, pasteVars>> => PasteInv'
    <2> SUFFICES ASSUME PasteInv, [PasteNext]_<<childVars, pasteVars>> PROVE PasteInv'
        OBVIOUS
    <2>1. CASE (PasteStep \/ WaitErrs) /\ chain # <<>>
        BY <2>1, PasteKeeps
    <2>2. CASE (PasteStep \/ WaitErrs) /\ chain = <<>>
        BY <2>2 DEF PasteInv, PasteStep, WaitErrs, ProviderMissing, StartProvider, NoProviderLeft, KillProvider,
                    ProviderExited, ReadOutput, NativeRefuses, NativeText, TryNext, Give, GiveUp
    <2>3. CASE World /\ UNCHANGED pasteVars
        BY <2>3, WorldKeepsPaste
    <2>4. CASE UNCHANGED <<childVars, pasteVars>>
        BY <2>4 DEF childVars, pasteVars, PasteInv, PipeInv, IsText, PasteIsWhole, WithoutBom
    <2> QED
        BY <2>1, <2>2, <2>3, <2>4 DEF PasteNext
<1>3. PasteInv => PasteIsWholeOnUnix
    BY DEF PasteInv, PasteIsWholeOnUnix
<1> QED
    BY <1>1, <1>2, <1>3, PTL DEF PasteSpec
=============================================================================
