--------------------------- MODULE ExpansionProofs ---------------------------
(***************************************************************************)
(* Theorems about Expansion and RuleDoctor for any configurations,         *)
(* commands and hints.                                                     *)
(***************************************************************************)
EXTENDS RuleDoctor, TLAPS

\* The rules of a configuration.
LEMMA RulesTyped ==
    ASSUME TypeOK
    PROVE  /\ Len(config) \in Nat
           /\ \A i \in Indices : config[i] \in Rule
           /\ \A i \in Indices : Rank[config[i].phase] \in 1..4
<1>1. config \in Seq(Rule)
  BY DEF TypeOK
<1>2. Len(config) \in Nat /\ \A i \in Indices : config[i] \in Rule
  BY <1>1 DEF Indices
<1>3. ASSUME NEW i \in Indices PROVE Rank[config[i].phase] \in 1..4
  <2>1. config[i].phase \in Phases
    BY <1>2 DEF Rule
  <2>2. \A ph \in Phases : Rank[ph] \in 1..4
    BY DEF Phases, Rank
  <2>3. QED
    BY <2>1, <2>2
<1>4. QED
  BY <1>2, <1>3

\* The order of the scan is total.
LEMMA OrderOfScan ==
    ASSUME TypeOK
    PROVE  /\ \A i, j \in Indices : Before(i, j) \/ i = j \/ Before(j, i)
           /\ \A i, j \in Indices : ~(Before(i, j) /\ Before(j, i))
           /\ \A i \in Indices : ~Before(i, i)
           /\ \A i, j, l \in Indices : Before(i, j) /\ Before(j, l) => Before(i, l)
<1>1. /\ \A i \in Indices : i \in Int
      /\ \A i \in Indices : Rank[config[i].phase] \in Int
  BY RulesTyped DEF Indices
<1>2. QED
  BY <1>1 DEF Before

\* The commands of a rule's condition.
LEMMA ConditionsTyped ==
    ASSUME TypeOK, NEW i \in Indices,
           Template(config[i]) # None,
           config[i].when # None => ForShell(config[i].when, shell) # None
    PROVE  Conditions(config[i]) \subseteq Cmds
<1>1. config[i] \in Rule /\ shell \in {"bash", "pwsh", "clink"}
  BY RulesTyped, ExpansionAssumption DEF TypeOK
<1>2. CASE config[i].when = None
  BY <1>2 DEF Conditions
<1>3. CASE config[i].when # None
  <2>1. config[i].when \in PerShell(SUBSET Cmds)
    BY <1>1, <1>3 DEF Rule
  <2>2. ForShell(config[i].when, shell) \in {None} \cup SUBSET Cmds
    BY <1>1, <2>1 DEF ForShell, PerShell
  <2>3. QED
    BY <1>3, <2>2 DEF Conditions
<1>4. QED
  BY <1>2, <1>3

\* A scan looks at rules of the configuration only.
LEMMA LookedTyped ==
    ASSUME NEW s
    PROVE  Looked(s) \subseteq Indices /\ Ahead(s) \subseteq Looked(s)
  BY DEF Looked, Ahead

\* A rule no scan passes over has its commands in Cmds.
LEMMA AskedTyped ==
    ASSUME TypeOK, NEW s \in Scans, NEW i \in Looked(s), ~Passes(s, config[i])
    PROVE  Conditions(config[i]) \subseteq Cmds
<1>1. i \in Indices /\ s \in {"expand", "which", "bake"}
  BY LookedTyped, ExpansionAssumption
<1>2. None \notin Reasons
  BY ExpansionAssumption
<1>3. /\ Template(config[i]) # None
      /\ config[i].when # None => ForShell(config[i].when, shell) # None
  <2>1. CASE s = "expand"
    BY <2>1 DEF Passes, ExpandPasses
  <2>2. CASE s = "which"
    BY <1>2, <2>2 DEF Passes, WhichPasses, Reasons
  <2>3. CASE s = "bake"
    BY <2>3 DEF Looked, Baked
  <2>4. QED
    BY <1>1, <2>1, <2>2, <2>3
<1>4. QED
  BY <1>1, <1>3, ConditionsTyped

\* What `which` reports has its type.
LEMMA ReasonsTyped ==
    ASSUME NEW r, NEW w \in [Indices -> Reasons \cup {None}], NEW i \in Indices
    PROVE  /\ [w EXCEPT ![i] = WhichPasses(r)] \in [Indices -> Reasons \cup {None}]
           /\ [w EXCEPT ![i] = WhichRefuses(r)] \in [Indices -> Reasons \cup {None}]
           /\ [w EXCEPT ![i] = "condition_failed"] \in [Indices -> Reasons \cup {None}]
<1>1. WhichPasses(r) \in Reasons \cup {None}
  BY DEF WhichPasses, Reasons
<1>2. WhichRefuses(r) \in Reasons \cup {None}
  BY DEF WhichRefuses, Reasons
<1>3. "condition_failed" \in Reasons
  BY DEF Reasons
<1>4. QED
  BY <1>1, <1>2, <1>3

\* What a scan is told is an answer, and the one it had if it had one.
LEMMA ToldTyped ==
    ASSUME TypeOK, NEW s \in Scans, NEW c \in Cmds
    PROVE  /\ Told(s, c) \in {"yes", "no"}
           /\ answer[s][c] # "unasked" => Told(s, c) = answer[s][c]
<1>1. answer[s][c] \in {"unasked", "yes", "no"}
  BY DEF TypeOK
<1>2. ToldAfresh(s, c) \in {"yes", "no"}
  BY DEF ToldAfresh
<1>3. QED
  BY <1>1, <1>2 DEF Told

\* Every step keeps the types.
LEMMA ScanTypes ==
    ASSUME TypeOK, ScanInv, NEW s \in Scans, Scan(s)
    PROVE  TypeOK'
<1>1. CASE NoRuleLeft(s)
  BY <1>1 DEF NoRuleLeft, WorldStays, TypeOK, Indices
<1>2. CASE TakeRule(s)
  <2>1. PICK i \in Ahead(s) :
           /\ at' = [at EXCEPT ![s] = i]
           /\ IF Passes(s, config[i])
                THEN Skip(s, i, WhichPasses(config[i])) /\ UNCHANGED todo
                ELSE /\ doing' = [doing EXCEPT ![s] = "ask"]
                     /\ todo' = [todo EXCEPT ![s] = Conditions(config[i])]
                     /\ UNCHANGED why
    BY <1>2 DEF TakeRule
  <2>2. i \in Looked(s) /\ i \in Indices
    BY LookedTyped
  <2>3. UNCHANGED answer /\ WorldStays
    BY <1>2 DEF TakeRule
  <2>4. at' \in [Scans -> {0} \cup Indices]
    BY <2>1, <2>2 DEF TypeOK
  <2>5. CASE Passes(s, config[i])
    <3>1. doing' = [doing EXCEPT ![s] = "next"] /\ UNCHANGED todo
      BY <2>1, <2>5 DEF Skip
    <3>2. why' \in [Indices -> Reasons \cup {None}]
      BY <2>1, <2>2, <2>5, ReasonsTyped DEF Skip, TypeOK
    <3>3. doing' \in [Scans -> {"next", "ask", "done"}]
      BY <3>1 DEF TypeOK
    <3>4. UNCHANGED todo
      BY <3>1
    <3>5. QED
      BY <2>3, <2>4, <3>2, <3>3, <3>4 DEF TypeOK, WorldStays, Indices
  <2>6. CASE ~Passes(s, config[i])
    <3>1. Conditions(config[i]) \subseteq Cmds
      BY <2>2, <2>6, AskedTyped
    <3>2. /\ doing' = [doing EXCEPT ![s] = "ask"]
          /\ todo' = [todo EXCEPT ![s] = Conditions(config[i])]
          /\ UNCHANGED why
      BY <2>1, <2>6
    <3>3. doing' \in [Scans -> {"next", "ask", "done"}] /\ todo' \in [Scans -> SUBSET Cmds]
      BY <3>1, <3>2 DEF TypeOK
    <3>4. UNCHANGED why
      BY <3>2
    <3>5. QED
      BY <2>3, <2>4, <3>3, <3>4 DEF TypeOK, WorldStays, Indices
  <2>7. QED
    BY <2>5, <2>6
<1>3. CASE AskCommand(s)
  <2>1. PICK c \in todo[s] :
           /\ answer' = [answer EXCEPT ![s][c] = Told(s, c)]
           /\ IF s = "expand" /\ Told(s, c) = "no"
                THEN /\ doing' = [doing EXCEPT ![s] = "next"]
                     /\ todo' = [todo EXCEPT ![s] = {}]
                ELSE todo' = [todo EXCEPT ![s] = @ \ {c}] /\ UNCHANGED doing
    BY <1>3 DEF AskCommand
  <2>2. c \in Cmds
    BY DEF TypeOK
  <2>3. answer' \in [Scans -> [Cmds -> {"unasked", "yes", "no"}]]
    BY <2>1, <2>2, ToldTyped DEF TypeOK
  <2>4. doing' \in [Scans -> {"next", "ask", "done"}] /\ todo' \in [Scans -> SUBSET Cmds]
    BY <2>1, ZenonT(60) DEF TypeOK
  <2>5. QED
    BY <1>3, <2>3, <2>4 DEF AskCommand, WorldStays, TypeOK, Indices
<1>4. CASE TryRule(s)
  <2>1. at[s] \in Indices /\ doing[s] = "ask"
    BY <1>4, LookedTyped DEF TryRule, ScanInv, ScanIsRight
  <2>2. why' \in [Indices -> Reasons \cup {None}]
    <3>1. \/ why' = why
          \/ why' = [why EXCEPT ![at[s]] = "condition_failed"]
          \/ why' = [why EXCEPT ![at[s]] = WhichRefuses(config[at[s]])]
      BY <1>4 DEF TryRule, Skip
    <3>2. why \in [Indices -> Reasons \cup {None}]
      BY DEF TypeOK
    <3>3. QED
      BY <2>1, <3>1, <3>2, ReasonsTyped
  <2>3. doing' \in [Scans -> {"next", "ask", "done"}]
    BY <1>4 DEF TryRule, Skip, TypeOK
  <2>4. QED
    BY <1>4, <2>2, <2>3 DEF TryRule, WorldStays, TypeOK, Indices
<1>5. QED
  BY <1>1, <1>2, <1>3, <1>4 DEF Scan

\* Every step of a scan, and every command that comes or goes, keeps the types.
LEMMA NextTypes ==
    ASSUME TypeOK, ScanInv, [Next]_expansionVars
    PROVE  TypeOK'
<1>1. CASE \E s \in Scans : Scan(s)
  BY <1>1, ScanTypes
<1>2. CASE \E c \in Cmds : Install(c) \/ Uninstall(c)
  BY <1>2 DEF Install, Uninstall, scanVars, TypeOK, Indices
<1>3. CASE UNCHANGED expansionVars
  BY <1>3 DEF expansionVars, TypeOK, Indices
<1>4. QED
  BY <1>1, <1>2, <1>3 DEF Next

\* The rules, the shell and what follows from them never change.
LEMMA RulesStay ==
    ASSUME [Next]_expansionVars
    PROVE  /\ config' = config /\ shell' = shell
           /\ \A s : Looked(s)' = Looked(s)
           /\ \A i, j : Before(i, j)' = Before(i, j)
           /\ \A r : Conditions(r)' = Conditions(r)
           /\ \A s, r : Passes(s, r)' = Passes(s, r)
           /\ \A s, r : Refuses(s, r)' = Refuses(s, r)
<1>1. config' = config /\ shell' = shell
  BY DEF Next, Scan, NoRuleLeft, TakeRule, AskCommand, TryRule, Install, Uninstall,
         WorldStays, expansionVars
<1>2. /\ \A r : Template(r)' = Template(r) /\ Conditions(r)' = Conditions(r)
      /\ \A i, j : Before(i, j)' = Before(i, j)
  BY <1>1 DEF Template, Conditions, ForShell, Before
<1>3. \A r : Rendered(r)' = Rendered(r)
  BY <1>2 DEF Rendered
<1>4. /\ \A r : IsExactSelfLoop(r)' = IsExactSelfLoop(r)
      /\ \A r : IsPatternSelfLoop(r)' = IsPatternSelfLoop(r)
  BY <1>2, <1>3 DEF IsExactSelfLoop, IsPatternSelfLoop
<1>5. \A s : Looked(s)' = Looked(s)
  <2>1. \A r : Baked(r)' = Baked(r)
    BY <1>1, <1>2 DEF Baked, ForShell
  <2>2. QED
    BY <1>1, <2>1 DEF Looked, Indices, Matches
<1>6. \A s, r : Passes(s, r)' = Passes(s, r)
  BY <1>1, <1>2, <1>4, ZenonT(60) DEF Passes, ExpandPasses, WhichPasses, BakePasses, ForShell
<1>7. \A s, r : Refuses(s, r)' = Refuses(s, r)
  BY <1>3, <1>4 DEF Refuses, ExpandRefuses, WhichRefuses, BakeRefuses
<1>8. QED
  BY <1>1, <1>2, <1>5, <1>6, <1>7

\* A step of another scan, or of the machine, does not concern this one.
LEMMA QuietScan ==
    ASSUME NEW s \in Scans, ScanIsRight(s), [Next]_expansionVars,
           at'[s] = at[s], doing'[s] = doing[s], todo'[s] = todo[s], answer'[s] = answer[s]
    PROVE  ScanIsRight(s)'
<1>1. /\ config' = config /\ Looked(s)' = Looked(s)
      /\ \A i, j : Before(i, j)' = Before(i, j)
      /\ \A r : Conditions(r)' = Conditions(r)
      /\ \A r : Passes(s, r)' = Passes(s, r) /\ Refuses(s, r)' = Refuses(s, r)
  BY RulesStay
<1>2. Ahead(s)' = Ahead(s)
  BY <1>1 DEF Ahead
<1>3. \A i : Blocked(s, i)' = Blocked(s, i)
  BY <1>1 DEF Blocked
<1>4. AtARule(s)' = AtARule(s)
  BY <1>1, <1>3 DEF AtARule
<1>5. QED
  BY <1>1, <1>2, <1>3, <1>4 DEF ScanIsRight

\* A rule that is blocked stays blocked when the scan is told more.
LEMMA StillBlocked ==
    ASSUME TypeOK, NEW s \in Scans, NEW i, Blocked(s, i), [Next]_expansionVars,
           \A c \in Cmds : answer[s][c] # "unasked" => answer'[s][c] = answer[s][c],
           i \in Looked(s)
    PROVE  Blocked(s, i)'
<1>1. /\ config' = config
      /\ \A r : Conditions(r)' = Conditions(r)
      /\ \A r : Passes(s, r)' = Passes(s, r) /\ Refuses(s, r)' = Refuses(s, r)
  BY RulesStay
<1>2. CASE Passes(s, config[i]) \/ Refuses(s, config[i])
  BY <1>1, <1>2 DEF Blocked
<1>3. CASE ~Passes(s, config[i]) /\ ~Refuses(s, config[i])
  <2>1. PICK c \in Conditions(config[i]) : answer[s][c] = "no"
    BY <1>3 DEF Blocked
  <2>2. c \in Cmds
    BY <1>3, <2>1, AskedTyped
  <2>3. answer'[s][c] = "no"
    BY <2>1, <2>2
  <2>4. QED
    BY <1>1, <2>1, <2>3 DEF Blocked
<1>4. QED
  BY <1>2, <1>3

\* Going past a rule that is blocked.
LEMMA PastARule ==
    ASSUME TypeOK, NEW s \in Scans, NEW i \in Looked(s), [Next]_expansionVars,
           at'[s] = i, doing'[s] = "next",
           Blocked(s, i)',
           \A j \in Looked(s) : Before(j, i) => Blocked(s, j)'
    PROVE  ScanIsRight(s)'
<1>1. /\ Looked(s)' = Looked(s) /\ Looked(s) \subseteq Indices
      /\ \A j, l : Before(j, l)' = Before(j, l)
  BY RulesStay, LookedTyped
<1>2. i # 0
  BY <1>1, RulesTyped DEF Indices
<1>3. ASSUME NEW j \in Looked(s) \ Ahead(s)' PROVE Blocked(s, j)'
  <2>1. ~Before(i, j)
    BY <1>1, <1>2, <1>3 DEF Ahead
  <2>2. j = i \/ Before(j, i)
    BY <1>1, <2>1, OrderOfScan
  <2>3. QED
    BY <2>2
<1>4. QED
  BY <1>1, <1>2, <1>3 DEF ScanIsRight

\* Each step of a scan keeps what the scan relies on.
LEMMA ScanStep ==
    ASSUME TypeOK, NEW s \in Scans, ScanIsRight(s), Scan(s)
    PROVE  ScanIsRight(s)'
<1>0. [Next]_expansionVars
  BY DEF Next
<1>1. /\ config' = config /\ Looked(s)' = Looked(s) /\ Looked(s) \subseteq Indices
      /\ \A i, j : Before(i, j)' = Before(i, j)
      /\ \A r : Conditions(r)' = Conditions(r)
      /\ \A r : Passes(s, r)' = Passes(s, r) /\ Refuses(s, r)' = Refuses(s, r)
      /\ 0 \notin Indices
  BY <1>0, RulesStay, LookedTyped, RulesTyped DEF Indices
<1>2. CASE NoRuleLeft(s)
  <2>1. doing[s] = "next" /\ Ahead(s) = {} /\ at'[s] = 0 /\ doing'[s] = "done" /\ answer' = answer
    BY <1>2 DEF NoRuleLeft, TypeOK
  <2>2. \A i \in Looked(s) : Blocked(s, i)
    BY <2>1 DEF ScanIsRight
  <2>3. \A i \in Looked(s) : Blocked(s, i)'
    BY <1>0, <2>1, <2>2, StillBlocked
  <2>4. QED
    BY <1>1, <2>1, <2>3 DEF ScanIsRight
<1>3. CASE TakeRule(s)
  <2>1. PICK i \in Ahead(s) :
           /\ \A j \in Ahead(s) \ {i} : Before(i, j)
           /\ at' = [at EXCEPT ![s] = i]
           /\ IF Passes(s, config[i])
                THEN Skip(s, i, WhichPasses(config[i])) /\ UNCHANGED todo
                ELSE /\ doing' = [doing EXCEPT ![s] = "ask"]
                     /\ todo' = [todo EXCEPT ![s] = Conditions(config[i])]
                     /\ UNCHANGED why
    BY <1>3 DEF TakeRule
  <2>2. i \in Looked(s) /\ at'[s] = i /\ i # 0 /\ answer' = answer /\ doing[s] = "next"
    BY <1>1, <1>3, <2>1, LookedTyped DEF TypeOK, TakeRule
  <2>3. ASSUME NEW j \in Looked(s), Before(j, i) PROVE Blocked(s, j)'
    <3>1. j \notin Ahead(s)
      BY <1>1, <2>1, <2>2, <2>3, OrderOfScan
    <3>2. Blocked(s, j)
      BY <2>2, <3>1 DEF ScanIsRight
    <3>3. QED
      BY <1>0, <2>2, <3>2, StillBlocked
  <2>4. CASE Passes(s, config[i])
    <3>1. doing'[s] = "next"
      BY <2>1, <2>4 DEF Skip, TypeOK
    <3>2. Blocked(s, i)'
      BY <1>1, <2>4 DEF Blocked
    <3>3. QED
      BY <1>0, <2>2, <2>3, <3>1, <3>2, PastARule
  <2>5. CASE ~Passes(s, config[i])
    <3>1. doing'[s] = "ask" /\ todo'[s] = Conditions(config[i])
      BY <2>1, <2>5 DEF TypeOK
    <3>2. AtARule(s)'
      BY <1>1, <2>2, <2>3, <2>5 DEF AtARule
    <3>3. QED
      BY <1>1, <2>2, <3>1, <3>2 DEF ScanIsRight
  <2>6. QED
    BY <2>4, <2>5
<1>4. CASE AskCommand(s)
  <2>1. PICK c \in todo[s] :
           /\ answer' = [answer EXCEPT ![s][c] = Told(s, c)]
           /\ IF s = "expand" /\ Told(s, c) = "no"
                THEN /\ doing' = [doing EXCEPT ![s] = "next"]
                     /\ todo' = [todo EXCEPT ![s] = {}]
                ELSE todo' = [todo EXCEPT ![s] = @ \ {c}] /\ UNCHANGED doing
    BY <1>4 DEF AskCommand
  <2>2. doing[s] = "ask" /\ at' = at /\ at[s] # 0 /\ at[s] \in Looked(s) /\ AtARule(s)
    BY <1>4 DEF AskCommand, ScanIsRight
  <2>3. c \in Cmds /\ answer'[s][c] = Told(s, c)
    BY <2>1 DEF TypeOK
  <2>4. \A e \in Cmds : answer[s][e] # "unasked" => answer'[s][e] = answer[s][e]
    BY <2>1, <2>3, ToldTyped DEF TypeOK
  <2>5. \A j \in Looked(s) : Before(j, at[s]) => Blocked(s, j)'
    BY <1>0, <2>2, <2>4, StillBlocked DEF AtARule
  <2>6. AtARule(s)'
    BY <1>1, <2>2, <2>5 DEF AtARule
  <2>7. Conditions(config[at[s]]) \subseteq Cmds
    BY <2>2, AskedTyped DEF AtARule
  <2>8. CASE s = "expand" /\ Told(s, c) = "no"
    <3>1. doing'[s] = "next"
      BY <2>1, <2>8 DEF TypeOK
    <3>2. c \in Conditions(config[at[s]])
      BY <2>1, <2>2 DEF ScanIsRight
    <3>3. Blocked(s, at[s])'
      BY <1>1, <2>3, <2>8, <3>2, <2>2 DEF Blocked
    <3>4. QED
      BY <1>0, <2>2, <2>5, <3>1, <3>3, PastARule
  <2>9. CASE ~(s = "expand" /\ Told(s, c) = "no")
    <3>1. todo'[s] = todo[s] \ {c} /\ doing'[s] = "ask"
      BY <2>1, <2>2, <2>9 DEF TypeOK
    <3>2. ASSUME NEW e \in Conditions(config[at[s]]) \ todo'[s] PROVE answer'[s][e] # "unasked"
      <4>1. CASE e = c
        BY <2>3, <4>1, ToldTyped
      <4>2. CASE e # c
        BY <2>2, <2>4, <2>7, <3>1, <3>2, <4>2 DEF ScanIsRight
      <4>3. QED
        BY <4>1, <4>2
    <3>3. QED
      BY <1>1, <2>2, <2>6, <3>1, <3>2 DEF ScanIsRight
  <2>10. QED
    BY <2>8, <2>9
<1>5. CASE TryRule(s)
  <2>1. /\ doing[s] = "ask" /\ todo[s] = {} /\ at' = at /\ at[s] # 0 /\ at[s] \in Looked(s)
        /\ AtARule(s) /\ answer' = answer
    BY <1>5 DEF TryRule, ScanIsRight
  <2>2. \A j \in Looked(s) : Before(j, at[s]) => Blocked(s, j)'
    BY <1>0, <2>1, StillBlocked DEF AtARule
  <2>3. CASE \E c \in Conditions(config[at[s]]) : answer[s][c] = "no"
    <3>1. Blocked(s, at[s])'
      BY <1>1, <2>1, <2>3 DEF Blocked
    <3>2. doing'[s] = "next"
      BY <1>5, <2>3 DEF TryRule, Skip, TypeOK
    <3>3. QED
      BY <1>0, <2>1, <2>2, <3>1, <3>2, PastARule
  <2>4. CASE /\ \A c \in Conditions(config[at[s]]) : answer[s][c] = "yes"
             /\ Refuses(s, config[at[s]])
    <3>1. Blocked(s, at[s])'
      BY <1>1, <2>1, <2>4 DEF Blocked
    <3>2. doing'[s] = "next"
      BY <1>5, <2>4 DEF TryRule, Skip, TypeOK
    <3>3. QED
      BY <1>0, <2>1, <2>2, <3>1, <3>2, PastARule
  <2>5. CASE /\ ~\E c \in Conditions(config[at[s]]) : answer[s][c] = "no"
             /\ ~Refuses(s, config[at[s]])
    <3>1. doing'[s] = "done" /\ \A c \in Conditions(config[at[s]]) : answer[s][c] = "yes"
      BY <1>5, <2>5 DEF TryRule, TypeOK
    <3>2. AtARule(s)'
      BY <1>1, <2>1, <2>2 DEF AtARule
    <3>3. QED
      BY <1>1, <2>1, <2>5, <3>1, <3>2 DEF ScanIsRight
  <2>6. QED
    BY <1>5, <2>3, <2>4, <2>5 DEF TryRule
<1>6. QED
  BY <1>2, <1>3, <1>4, <1>5 DEF Scan

\* Every step keeps what each scan has found: the scan that moves, and the others.
LEMMA NextScanInv ==
    ASSUME TypeOK, ScanInv, [Next]_expansionVars
    PROVE  ScanInv'
<1> SUFFICES ASSUME NEW t \in Scans PROVE ScanIsRight(t)'
  BY DEF ScanInv
<1>1. ScanIsRight(t)
  BY DEF ScanInv
<1>2. CASE \E s \in Scans : Scan(s)
  <2>1. PICK s \in Scans : Scan(s)
    BY <1>2
  <2>2. CASE s = t
    BY <1>1, <2>1, <2>2, ScanStep
  <2>3. CASE s # t
    <3>1. at'[t] = at[t] /\ doing'[t] = doing[t] /\ todo'[t] = todo[t] /\ answer'[t] = answer[t]
      BY <2>1, <2>3 DEF Scan, NoRuleLeft, TakeRule, AskCommand, TryRule, Skip, TypeOK
    <3>2. QED
      BY <1>1, <3>1, QuietScan
  <2>4. QED
    BY <2>2, <2>3
<1>3. CASE \E c \in Cmds : Install(c) \/ Uninstall(c)
  BY <1>1, <1>3, QuietScan DEF Install, Uninstall, scanVars
<1>4. CASE UNCHANGED expansionVars
  BY <1>1, <1>4, QuietScan DEF expansionVars
<1>5. QED
  BY <1>2, <1>3, <1>4 DEF Next

\* At the start no scan has gone past a rule.
LEMMA InitScanInv == Init => IInv
<1> SUFFICES ASSUME Init PROVE IInv
  OBVIOUS
<1>1. TypeOK
  BY ExpansionAssumption DEF Init, TypeOK, Indices
<1>2. ScanInv
  BY DEF Init, ScanInv, ScanIsRight, Ahead
<1>3. QED
  BY <1>1, <1>2 DEF IInv

\* The types, and that a scan has gone past no rule that would fire.
THEOREM ScanInvariant == Spec => []IInv
<1>1. IInv /\ [Next]_expansionVars => IInv'
  BY NextTypes, NextScanInv DEF IInv
<1>2. QED
  BY <1>1, InitScanInv, PTL DEF Spec

-----------------------------------------------------------------------------
\* The three lists of guards, each written in its own way, let the same rules
\* through.
LEMMA GuardsAgree ==
    ASSUME TypeOK, config \in Configs, NEW s \in Scans, NEW i \in Looked(s)
    PROVE  (Passes(s, config[i]) \/ Refuses(s, config[i]))
              <=> ~(HasText(config[i]) /\ IsWorthIt(config[i]))
<1> DEFINE r == config[i]
<1>1. s \in {"expand", "which", "bake"} /\ i \in Indices /\ r \in Rule
  BY LookedTyped, RulesTyped, ExpansionAssumption
<1>2. r.phase \in Phases
  BY <1>1 DEF Rule
<1>3. CASE s = "expand"
  BY <1>3 DEF Passes, Refuses, ExpandPasses, ExpandRefuses, HasText, IsWorthIt
<1>4. CASE s = "which"
  <2>1. None \notin Reasons
    BY ExpansionAssumption
  <2>2. WhichPasses(r) # None <=> ExpandPasses(r)
    BY <2>1 DEF WhichPasses, ExpandPasses, Reasons
  <2>3. WhichRefuses(r) # None <=> ExpandRefuses(r)
    BY <2>1 DEF WhichRefuses, ExpandRefuses, Reasons
  <2>4. QED
    BY <1>4, <2>2, <2>3 DEF Passes, Refuses, ExpandPasses, ExpandRefuses, HasText, IsWorthIt
<1>5. CASE s = "bake"
  <2>1. HasText(r) /\ r.phase # "regex"
    BY <1>5 DEF Looked, Baked, HasText
  <2>2. Passes(s, r) <=> IsExactSelfLoop(r)
    BY <1>5 DEF Passes, BakePasses, IsExactSelfLoop
  <2>3. CASE r.phase = "exact"
    <3>1. Template(r) # "long"
      <4>1. ~\E sh \in DOMAIN r.expand : r.expand[sh] = "long"
        BY <1>1, <2>3, ExpansionAssumption DEF MayBeLong, Indices, TypeOK
      <4>2. r.expand \in PerShell(Templates) /\ shell \in {"bash", "pwsh", "clink"}
        BY <1>1, ExpansionAssumption DEF Rule, TypeOK
      <4>3. QED
        BY <4>1, <4>2 DEF Template, ForShell, PerShell
    <3>2. Rendered(r) # "long"
      BY <3>1 DEF Rendered
    <3>3. Refuses(s, r) <=> Rendered(r) = "blank"
      BY <1>5, <2>3 DEF Refuses, BakeRefuses
    <3>4. QED
      BY <2>1, <2>2, <2>3, <3>2, <3>3 DEF IsWorthIt, IsPatternSelfLoop
  <2>4. CASE r.phase = "number"
    <3>1. Refuses(s, r) <=> Rendered(r) \in {"long", "blank"}
      BY <1>5, <2>4 DEF Refuses, BakeRefuses
    <3>2. QED
      BY <2>1, <2>2, <2>4, <3>1 DEF IsWorthIt, IsPatternSelfLoop
  <2>5. CASE r.phase = "glob"
    <3>1. Refuses(s, r) <=> Rendered(r) \in {"long", "blank", "token"}
      BY <1>5, <2>5 DEF Refuses, BakeRefuses
    <3>2. QED
      BY <2>1, <2>2, <2>5, <3>1 DEF IsWorthIt, IsPatternSelfLoop
  <2>6. QED
    BY <1>2, <2>1, <2>3, <2>4, <2>5 DEF Phases
<1>6. QED
  BY <1>1, <1>3, <1>4, <1>5

\* A rule that is blocked does not fire, and one the scan does not look at does
\* not either.
LEMMA BlockedIsStill ==
    ASSUME TypeOK, config \in Configs, NEW s \in Scans, NEW i \in Scanned(s),
           i \in Looked(s) => Blocked(s, i)
    PROVE  ~Fires(config[i], answer[s])
<1>1. i \in Indices
  BY DEF Scanned, NoRegex
<1>2. CASE i \in Looked(s)
  BY <1>2, GuardsAgree DEF Blocked, Fires
<1>3. CASE i \notin Looked(s)
  <2>1. ~Matches(config[i]) \/ (s = "bake" /\ ~Baked(config[i]))
    BY <1>1, <1>3 DEF Looked
  <2>2. s = "bake" => config[i].phase # "regex"
    BY DEF Scanned, NoRegex
  <2>3. QED
    BY <2>1, <2>2 DEF Baked, Fires, HasText
<1>4. QED
  BY <1>2, <1>3

\* The rule a scan ends at fires.
LEMMA EndFires ==
    ASSUME TypeOK, config \in Configs, NEW s \in Scans, ScanIsRight(s),
           doing[s] = "done", at[s] # 0
    PROVE  /\ at[s] \in Looked(s) /\ at[s] \in Scanned(s)
           /\ Fires(config[at[s]], answer[s])
<1>1. /\ at[s] \in Looked(s) /\ ~Passes(s, config[at[s]]) /\ ~Refuses(s, config[at[s]])
      /\ \A c \in Conditions(config[at[s]]) : answer[s][c] = "yes"
  BY DEF ScanIsRight, AtARule
<1>2. HasText(config[at[s]]) /\ IsWorthIt(config[at[s]])
  BY <1>1, GuardsAgree
<1>3. at[s] \in Indices /\ Matches(config[at[s]])
  BY <1>1 DEF Looked
<1>4. at[s] \in Scanned(s)
  BY <1>1, <1>3 DEF Looked, Baked, Scanned, NoRegex
<1>5. QED
  BY <1>1, <1>2, <1>3, <1>4 DEF Fires

\* Where a scan ends is the first rule that fires under the answers it was given.
LEMMA EndIsFirst ==
    ASSUME TypeOK, config \in Configs, NEW s \in Scans, ScanIsRight(s), doing[s] = "done"
    PROVE  IsFirst(at[s], Scanned(s), answer[s])
<1>1. CASE at[s] = 0
  <2>1. \A i \in Looked(s) : Blocked(s, i)
    BY <1>1 DEF ScanIsRight
  <2>2. \A i \in Scanned(s) : ~Fires(config[i], answer[s])
    BY <2>1, BlockedIsStill
  <2>3. QED
    BY <1>1, <2>2 DEF IsFirst
<1>2. CASE at[s] # 0
  <2>1. at[s] \in Scanned(s) /\ Fires(config[at[s]], answer[s])
    BY <1>2, EndFires
  <2>2. \A i \in Looked(s) : Before(i, at[s]) => Blocked(s, i)
    BY <1>2 DEF ScanIsRight, AtARule
  <2>3. \A i \in Scanned(s) : Before(i, at[s]) => ~Fires(config[i], answer[s])
    BY <2>2, BlockedIsStill
  <2>4. QED
    BY <1>2, <2>1, <2>3 DEF IsFirst
<1>3. QED
  BY <1>1, <1>2

\* The configuration of a run is one of the valid ones, and stays it.
LEMMA ConfigStays == Spec => [](config \in Configs)
<1>1. Init => config \in Configs
  BY DEF Init
<1>2. config \in Configs /\ [Next]_expansionVars => (config \in Configs)'
  BY RulesStay
<1>3. QED
  BY <1>1, <1>2, PTL DEF Spec

\* Every scan ends at the first rule that fires under one set of answers.
THEOREM FirstRule == Spec => []FirstRuleWins
<1>1. IInv /\ config \in Configs => FirstRuleWins
  BY EndIsFirst DEF IInv, ScanInv, FirstRuleWins
<1>2. QED
  BY <1>1, ScanInvariant, ConfigStays, PTL

\* What one scan was stopped by and the other was not is a contradiction.
LEMMA BlockedAgainst ==
    ASSUME TypeOK, config \in Configs, NEW s \in Scans, NEW t \in Scans, NEW i \in Looked(s),
           Blocked(s, i), Fires(config[i], answer[t])
    PROVE  Contradict(s, t)
<1>1. ~Passes(s, config[i]) /\ ~Refuses(s, config[i])
  BY GuardsAgree DEF Fires
<1>2. PICK c \in Conditions(config[i]) : answer[s][c] = "no"
  BY <1>1 DEF Blocked
<1>3. c \in Cmds /\ answer[t][c] = "yes"
  BY <1>1, <1>2, AskedTyped DEF Fires
<1>4. QED
  BY <1>2, <1>3 DEF Contradict

\* A scan looks at a rule that fires unless it is a regex and the scan the
\* dispatcher's.
LEMMA LooksAt ==
    ASSUME NEW s \in Scans, NEW i \in Indices, NEW m, Fires(config[i], m),
           s = "bake" => config[i].phase # "regex"
    PROVE  i \in Looked(s)
  BY DEF Fires, HasText, Looked, Baked

\* Two scans that were told nothing contradictory end at the same rule, but for regex
\* rules that the dispatcher does not have.
LEMMA EndsAgree ==
    ASSUME TypeOK, config \in Configs, NEW s \in Scans, NEW t \in Scans,
           ScanIsRight(s), ScanIsRight(t), doing[s] = "done", doing[t] = "done",
           ~Contradict(s, t),
           at[s] # 0 => (t = "bake" => config[at[s]].phase # "regex"),
           at[t] # 0 => (s = "bake" => config[at[t]].phase # "regex")
    PROVE  at[s] = at[t]
<1>1. at[s] # 0 => /\ at[s] \in Looked(s) /\ at[s] \in Indices
                   /\ Fires(config[at[s]], answer[s]) /\ at[s] \in Looked(t)
  BY EndFires, LookedTyped, LooksAt
<1>2. at[t] # 0 => /\ at[t] \in Looked(t) /\ at[t] \in Indices
                   /\ Fires(config[at[t]], answer[t]) /\ at[t] \in Looked(s)
  BY EndFires, LookedTyped, LooksAt
<1>3. ~Contradict(t, s)
  BY DEF Contradict
<1>4. CASE at[s] = 0 /\ at[t] # 0
  <2>1. Blocked(s, at[t])
    BY <1>2, <1>4 DEF ScanIsRight
  <2>2. QED
    BY <1>2, <1>4, <2>1, BlockedAgainst
<1>5. CASE at[s] # 0 /\ at[t] = 0
  <2>1. Blocked(t, at[s])
    BY <1>1, <1>5 DEF ScanIsRight
  <2>2. QED
    BY <1>1, <1>3, <1>5, <2>1, BlockedAgainst
<1>6. CASE at[s] # 0 /\ at[t] # 0
  <2>1. /\ \A i \in Looked(s) : Before(i, at[s]) => Blocked(s, i)
        /\ \A i \in Looked(t) : Before(i, at[t]) => Blocked(t, i)
    BY <1>6 DEF ScanIsRight, AtARule
  <2>2. ~Before(at[t], at[s])
    BY <1>2, <1>6, <2>1, BlockedAgainst
  <2>3. ~Before(at[s], at[t])
    BY <1>1, <1>3, <1>6, <2>1, BlockedAgainst
  <2>4. QED
    BY <1>1, <1>2, <1>6, <2>2, <2>3, OrderOfScan
<1>7. QED
  BY <1>4, <1>5, <1>6

\* `which` agrees with the key press, and Git Bash with both but for regex rules,
\* whenever the machine gave them answers that can be true together.
THEOREM ScansAgree == Spec => []SameOutcome
<1>1. IInv /\ config \in Configs => SameOutcome
  <2> SUFFICES ASSUME TypeOK, ScanInv, config \in Configs, NEW s \in Scans, NEW t \in Scans,
                      doing[s] = "done", doing[t] = "done", ~Contradict(s, t),
                      ~("bake" \in {s, t} /\ \E u \in {s, t} : at[u] # 0 /\ config[at[u]].phase = "regex")
               PROVE  at[s] = at[t]
    BY DEF SameOutcome, IInv
  <2>1. /\ at[s] # 0 => (t = "bake" => config[at[s]].phase # "regex")
        /\ at[t] # 0 => (s = "bake" => config[at[t]].phase # "regex")
    OBVIOUS
  <2>2. QED
    BY <2>1, EndsAgree DEF ScanInv
<1>2. QED
  BY <1>1, ScanInvariant, ConfigStays, PTL

-----------------------------------------------------------------------------
\* What the two diagnoses say of the rules: the trace of `runex which`, and the rules that
\* `runex doctor --strict` calls unreachable.

\* A rule that hides another is looked at before it, matches when it does and asks for no
\* command, so that it fires unless it has no text for the shell or too much.
LEMMA HiderFires ==
    ASSUME TypeOK, NEW m, NEW i \in Indices, NEW j \in Indices, Hides(j, i), Fires(config[i], m),
           Template(config[j]) # None, Rendered(config[j]) # "long"
    PROVE  Before(j, i) /\ Fires(config[j], m)
<1> DEFINE r == config[j]
<1>1. Before(j, i) /\ Matches(r) /\ Conditions(r) = {} /\ r.when = None
  BY DEF Hides, SameIdentity, Before, Fires, Matches, Conditions
<1>2. r \in Rule /\ r.phase \in Phases /\ shell \in {"bash", "pwsh", "clink"}
  BY RulesTyped, ExpansionAssumption DEF Rule, TypeOK
<1>3. Template(r) \in Values(r.expand) /\ Template(r) \in Templates
  BY <1>2 DEF Template, ForShell, Values, PerShell, Rule
<1>4. DiffersFromToken(r, Template(r)) /\ NeverBlank(r, Template(r))
  BY <1>3 DEF Hides, AlwaysFiresWhenMatched
<1>5. ~IsExactSelfLoop(r) /\ ~IsPatternSelfLoop(r) /\ Rendered(r) # "blank"
  BY <1>2, <1>3, <1>4 DEF DiffersFromToken, NeverBlank, IsExactSelfLoop, IsPatternSelfLoop, Rendered,
                          Templates, Phases
<1>6. HasText(r) /\ IsWorthIt(r)
  BY <1>1, <1>5 DEF HasText, IsWorthIt
<1>7. QED
  BY <1>1, <1>6 DEF Fires

\* doctor calls no rule unreachable that can fire, but where the rule that hides it has no
\* entry for the shell or renders to more than the cap.
THEOREM UnreachableRules == Spec => []UnreachableIsHidden
<1>1. IInv /\ config \in Configs => UnreachableIsHidden
  <2> SUFFICES ASSUME TypeOK, ScanInv, config \in Configs, NEW s \in Scans, doing[s] = "done",
                      at[s] \in Indices, NEW j \in Indices, Hides(j, at[s]),
                      Template(config[j]) # None, Rendered(config[j]) # "long"
               PROVE  FALSE
    BY DEF UnreachableIsHidden, Unreachable, IInv
  <2>1. at[s] # 0
    BY RulesTyped DEF Indices
  <2>2. IsFirst(at[s], Scanned(s), answer[s]) /\ at[s] \in Scanned(s)
    BY <2>1, EndIsFirst, EndFires DEF ScanInv
  <2>3. j \in Scanned(s)
    BY <2>2 DEF Scanned, NoRegex, Hides, SameIdentity
  <2>4. Fires(config[at[s]], answer[s])
    BY <2>1, <2>2 DEF IsFirst
  <2>5. QED
    BY <2>1, <2>2, <2>3, <2>4, HiderFires DEF IsFirst
<1>2. QED
  BY <1>1, ScanInvariant, ConfigStays, PTL

-----------------------------------------------------------------------------
\* The rules that `which` has passed over so far, ...
Behind(i) ==
    CASE doing["which"] = "next" -> i \notin Ahead("which")
      [] doing["which"] = "ask" -> Before(i, at["which"])
      [] doing["which"] = "done" -> at["which"] = 0 \/ Before(i, at["which"])
Passed == { i \in Looked("which") : Behind(i) }

\* ... and what its reason says of one.
AllThere(r) == HasText(r) /\ \A c \in Conditions(r) : answer["which"][c] = "yes"
Reason(i) ==
    LET r == config[i] IN
    /\ why[i] = "no_shell_entry" => ~HasText(r)
    /\ why[i] = "self_loop" =>
          IsExactSelfLoop(r) \/ ((IsPatternSelfLoop(r) \/ Rendered(r) = "long") /\ AllThere(r))
    /\ why[i] = "condition_failed" => HasText(r) /\ \E c \in Conditions(r) : answer["which"][c] = "no"
    /\ why[i] = "blank_expansion" => Rendered(r) = "blank" /\ AllThere(r)

TraceInv == \A i \in Indices : (why[i] # None <=> i \in Passed) /\ Reason(i)

\* What a rule has and renders to never changes.
LEMMA TextsStay ==
    ASSUME [Next]_expansionVars
    PROVE  \A r : /\ HasText(r)' = HasText(r) /\ Rendered(r)' = Rendered(r) /\ Matches(r)' = Matches(r)
                  /\ IsExactSelfLoop(r)' = IsExactSelfLoop(r) /\ IsPatternSelfLoop(r)' = IsPatternSelfLoop(r)
<1>1. config' = config /\ shell' = shell
  BY RulesStay
<1>2. QED
  BY <1>1 DEF HasText, Rendered, Matches, IsExactSelfLoop, IsPatternSelfLoop, Template, ForShell

\* A reason that is so stays so when `which` is told more.
LEMMA ReasonStays ==
    ASSUME TypeOK, "which" \in Scans, NEW i \in Indices, Reason(i), [Next]_expansionVars, why'[i] = why[i],
           \A c \in Cmds : answer["which"][c] # "unasked" => answer'["which"][c] = answer["which"][c]
    PROVE  Reason(i)'
<1>1. /\ config' = config
      /\ \A r : HasText(r)' = HasText(r) /\ Rendered(r)' = Rendered(r) /\ Conditions(r)' = Conditions(r)
      /\ \A r : IsExactSelfLoop(r)' = IsExactSelfLoop(r) /\ IsPatternSelfLoop(r)' = IsPatternSelfLoop(r)
  BY RulesStay, TextsStay
<1>2. HasText(config[i]) => Conditions(config[i]) \subseteq Cmds
  BY ConditionsTyped DEF HasText
<1>3. AllThere(config[i]) => AllThere(config[i])'
  BY <1>1, <1>2 DEF AllThere
<1>4. QED
  BY <1>1, <1>2, <1>3 DEF Reason

\* The rules behind the scan, as the next one is taken.
LEMMA NextInOrder ==
    ASSUME TypeOK, "which" \in Scans, NEW i \in Ahead("which"), \A j \in Ahead("which") \ {i} : Before(i, j)
    PROVE  \A j \in Looked("which") : j \notin Ahead("which") <=> Before(j, i)
<1>1. Looked("which") \subseteq Indices /\ i \in Looked("which") /\ 0 \notin Indices
  BY LookedTyped, RulesTyped DEF Indices
<1>2. at["which"] \in {0} \cup Indices
  BY DEF TypeOK
<1>3. QED
  BY <1>1, <1>2, OrderOfScan DEF Ahead

\* A step of `which` passes the rule it is at over, with its reason, or none.
LEMMA TraceStep ==
    ASSUME TypeOK, "which" \in Scans, ScanIsRight("which"), TraceInv, Scan("which")
    PROVE  TraceInv'
<1> DEFINE s == "which"
<1>0. [Next]_expansionVars
  BY DEF Next
<1>1. /\ config' = config /\ Looked(s)' = Looked(s) /\ Looked(s) \subseteq Indices
      /\ \A i, j : Before(i, j)' = Before(i, j)
      /\ 0 \notin Indices /\ Indices' = Indices /\ None \notin Reasons
  BY <1>0, RulesStay, LookedTyped, RulesTyped, ExpansionAssumption DEF Indices
<1>2. CASE NoRuleLeft(s)
  <2>1. doing[s] = "next" /\ Ahead(s) = {} /\ at'[s] = 0 /\ doing'[s] = "done" /\ answer' = answer /\ why' = why
    BY <1>2 DEF NoRuleLeft, TypeOK
  <2>2. Passed' = Passed
    BY <1>1, <2>1 DEF Passed, Behind
  <2>3. QED
    BY <1>0, <1>1, <2>1, <2>2, ReasonStays DEF TraceInv
<1>3. CASE TakeRule(s)
  <2>1. PICK i \in Ahead(s) :
           /\ \A j \in Ahead(s) \ {i} : Before(i, j)
           /\ at' = [at EXCEPT ![s] = i]
           /\ IF Passes(s, config[i])
                THEN Skip(s, i, WhichPasses(config[i])) /\ UNCHANGED todo
                ELSE /\ doing' = [doing EXCEPT ![s] = "ask"]
                     /\ todo' = [todo EXCEPT ![s] = Conditions(config[i])]
                     /\ UNCHANGED why
    BY <1>3 DEF TakeRule
  <2>2. i \in Looked(s) /\ i \in Indices /\ at'[s] = i /\ answer' = answer /\ doing[s] = "next" /\ i # 0
    BY <1>1, <1>3, <2>1, LookedTyped DEF TypeOK, TakeRule
  <2>3. \A j \in Looked(s) : j \in Passed <=> Before(j, i)
    BY <2>1, <2>2, NextInOrder DEF Passed, Behind
  <2>4. CASE Passes(s, config[i])
    <3>1. doing'[s] = "next" /\ why' = [why EXCEPT ![i] = WhichPasses(config[i])]
      BY <2>1, <2>4 DEF Skip, TypeOK
    <3>2. \A j \in Looked(s) : j \in Passed' <=> (j = i \/ j \in Passed)
      BY <1>1, <2>2, <2>3, <3>1, OrderOfScan DEF Passed, Behind, Ahead
    <3>3. why'[i] = WhichPasses(config[i]) /\ WhichPasses(config[i]) \in {"no_shell_entry", "self_loop"}
      BY <2>2, <2>4, <3>1 DEF Passes, WhichPasses, TypeOK
    <3>4. Reason(i)
      BY <2>2 DEF TraceInv
    <3>5. Reason(i)'
      <4>1. why'[i] = "no_shell_entry" => ~HasText(config[i])
        BY <1>1, <3>3 DEF WhichPasses, HasText, Reasons
      <4>2. why'[i] = "self_loop" => IsExactSelfLoop(config[i])
        BY <1>1, <3>3 DEF WhichPasses, Reasons
      <4>3. QED
        BY <1>0, <1>1, <3>3, <4>1, <4>2, TextsStay DEF Reason
    <3>6. \A j \in Indices : j # i => why'[j] = why[j]
      BY <3>1 DEF TypeOK
    <3>7. \A j \in Indices : Reason(j)'
      BY <1>0, <2>2, <3>5, <3>6, ReasonStays DEF TraceInv
    <3>8. \A j \in Indices : why'[j] # None <=> j \in Passed'
      <4>1. why'[i] # None
        BY <1>1, <3>3 DEF Reasons
      <4>2. \A j \in Indices \ Looked(s) : j \notin Passed /\ j \notin Passed'
        BY <1>1 DEF Passed
      <4>3. QED
        BY <2>2, <3>2, <3>6, <4>1, <4>2 DEF TraceInv
    <3>9. QED
      BY <1>1, <3>7, <3>8 DEF TraceInv
  <2>5. CASE ~Passes(s, config[i])
    <3>1. doing'[s] = "ask" /\ why' = why
      BY <2>1, <2>5 DEF TypeOK
    <3>2. Passed' = Passed
      BY <1>1, <2>2, <2>3, <3>1 DEF Passed, Behind
    <3>3. QED
      BY <1>0, <1>1, <2>2, <3>1, <3>2, ReasonStays DEF TraceInv
  <2>6. QED
    BY <2>4, <2>5
<1>4. CASE AskCommand(s)
  <2>1. PICK c \in todo[s] :
           /\ answer' = [answer EXCEPT ![s][c] = Told(s, c)]
           /\ UNCHANGED doing
    BY <1>4 DEF AskCommand
  <2>2. doing[s] = "ask" /\ at' = at /\ why' = why /\ c \in Cmds
    BY <1>4, <2>1 DEF AskCommand, TypeOK
  <2>3. \A e \in Cmds : answer[s][e] # "unasked" => answer'[s][e] = answer[s][e]
    BY <2>1, <2>2, ToldTyped DEF TypeOK
  <2>4. Passed' = Passed
    BY <1>1, <2>1, <2>2 DEF Passed, Behind
  <2>5. QED
    BY <1>0, <1>1, <2>2, <2>3, <2>4, ReasonStays DEF TraceInv
<1>5. CASE TryRule(s)
  <2> DEFINE i == at[s]
             r == config[i]
  <2>1. /\ doing[s] = "ask" /\ todo[s] = {} /\ at' = at /\ i # 0 /\ i \in Looked(s) /\ i \in Indices
        /\ ~Passes(s, r) /\ answer' = answer
    BY <1>1, <1>5 DEF TryRule, ScanIsRight, AtARule
  <2>2. HasText(r) /\ Conditions(r) \subseteq Cmds
    BY <1>1, <2>1, AskedTyped DEF Passes, WhichPasses, HasText, Reasons
  <2>3. ASSUME NEW reason \in Reasons, doing'[s] = "next", why' = [why EXCEPT ![i] = reason],
               \/ reason = "condition_failed" /\ \E c \in Conditions(r) : answer[s][c] = "no"
               \/ reason = "self_loop" /\ (IsPatternSelfLoop(r) \/ Rendered(r) = "long") /\ AllThere(r)
               \/ reason = "blank_expansion" /\ Rendered(r) = "blank" /\ AllThere(r)
        PROVE  TraceInv'
    <3>1. why'[i] = reason /\ \A j \in Indices : j # i => why'[j] = why[j]
      BY <2>1, <2>3 DEF TypeOK
    <3>2. \A j \in Looked(s) : j \in Passed' <=> (j = i \/ j \in Passed)
      BY <1>1, <2>1, <2>3, OrderOfScan DEF Passed, Behind, Ahead
    <3>3. AllThere(r) => AllThere(r)'
      BY <1>0, <2>1, RulesStay, TextsStay DEF AllThere
    <3>4. Reason(i)'
      BY <1>0, <1>1, <2>1, <2>2, <2>3, <3>1, <3>3, RulesStay, TextsStay DEF Reason
    <3>5. \A j \in Indices : Reason(j)'
      BY <1>0, <2>1, <3>1, <3>4, ReasonStays DEF TraceInv
    <3>6. \A j \in Indices \ Looked(s) : j \notin Passed /\ j \notin Passed'
      BY <1>1 DEF Passed
    <3>7. \A j \in Indices : why'[j] # None <=> j \in Passed'
      BY <1>1, <2>1, <2>3, <3>1, <3>2, <3>6 DEF TraceInv
    <3>8. QED
      BY <1>1, <3>5, <3>7 DEF TraceInv
  <2>4. CASE \E c \in Conditions(r) : answer[s][c] = "no"
    <3>1. Skip(s, i, "condition_failed")
      BY <1>5, <2>4 DEF TryRule
    <3>2. QED
      BY <2>3, <2>4, <3>1 DEF Skip, Reasons, TypeOK
  <2>5. CASE (\A c \in Conditions(r) : answer[s][c] = "yes") /\ Refuses(s, r) /\ ~\E c \in Conditions(r) : answer[s][c] = "no"
    <3>1. Skip(s, i, WhichRefuses(r)) /\ AllThere(r)
      BY <1>5, <2>2, <2>5 DEF TryRule, AllThere
    <3>2. \/ WhichRefuses(r) = "self_loop" /\ (IsPatternSelfLoop(r) \/ Rendered(r) = "long")
          \/ WhichRefuses(r) = "blank_expansion" /\ Rendered(r) = "blank"
      BY <2>5 DEF Refuses, WhichRefuses
    <3>3. WhichRefuses(r) \in Reasons /\ doing'[s] = "next" /\ why' = [why EXCEPT ![i] = WhichRefuses(r)]
      BY <3>1, <3>2 DEF Skip, Reasons, TypeOK
    <3>4. QED
      BY <2>3, <3>1, <3>2, <3>3
  <2>6. CASE ~Refuses(s, r) /\ ~\E c \in Conditions(r) : answer[s][c] = "no"
    <3>1. doing'[s] = "done" /\ why' = why
      BY <1>5, <2>6 DEF TryRule, TypeOK
    <3>2. Passed' = Passed
      BY <1>1, <2>1, <3>1 DEF Passed, Behind
    <3>3. QED
      BY <1>0, <1>1, <2>1, <3>1, <3>2, ReasonStays DEF TraceInv
  <2>7. QED
    BY <1>5, <2>4, <2>5, <2>6 DEF TryRule
<1>6. QED
  BY <1>2, <1>3, <1>4, <1>5 DEF Scan

\* A step of another scan, or of the machine, tells `which` nothing.
LEMMA QuietTrace ==
    ASSUME TypeOK, "which" \in Scans, TraceInv, [Next]_expansionVars, UNCHANGED why,
           at'["which"] = at["which"], doing'["which"] = doing["which"], answer'["which"] = answer["which"]
    PROVE  TraceInv'
<1>1. /\ config' = config /\ Looked("which")' = Looked("which") /\ Indices' = Indices
      /\ \A i, j : Before(i, j)' = Before(i, j)
  BY RulesStay DEF Indices
<1>2. Passed' = Passed
  BY <1>1 DEF Passed, Behind, Ahead
<1>3. QED
  BY <1>1, <1>2, ReasonStays DEF TraceInv

\* A step keeps the reasons that `which` has given.
LEMMA NextTrace ==
    ASSUME TypeOK, ScanInv, "which" \in Scans, TraceInv, [Next]_expansionVars
    PROVE  TraceInv'
<1>1. CASE Scan("which")
  BY <1>1, TraceStep DEF ScanInv
<1>2. ASSUME NEW s \in Scans, s # "which", Scan(s) PROVE TraceInv'
  <2>1. /\ at'["which"] = at["which"] /\ doing'["which"] = doing["which"]
        /\ answer'["which"] = answer["which"] /\ why' = why
    BY <1>2 DEF Scan, NoRuleLeft, TakeRule, AskCommand, TryRule, Skip, TypeOK
  <2>2. QED
    BY <2>1, QuietTrace
<1>3. CASE \E c \in Cmds : Install(c) \/ Uninstall(c)
  BY <1>3, QuietTrace DEF Install, Uninstall, scanVars
<1>4. CASE UNCHANGED expansionVars
  BY <1>4, QuietTrace DEF expansionVars
<1>5. QED
  BY <1>1, <1>2, <1>3, <1>4 DEF Next

\* The trace of `runex which` names every rule that matched before the one that fires and
\* no other, each with a reason that was so, however commands come and go meanwhile.
THEOREM TraceOfWhich == Spec => []TraceIsRight
<1> DEFINE Traced == "which" \in Scans => TraceInv
<1>1. Init => Traced
  <2>1. ASSUME Init, "which" \in Scans PROVE TraceInv
    <3>1. Passed = {}
      BY <2>1 DEF Init, Passed, Behind, Ahead
    <3>2. None \notin Reasons
      BY ExpansionAssumption
    <3>3. QED
      BY <2>1, <3>1, <3>2 DEF Init, TraceInv, Reason, Reasons
  <2>2. QED
    BY <2>1
<1>2. IInv /\ Traced /\ [Next]_expansionVars => Traced'
  BY NextTrace DEF IInv
<1>3. IInv /\ Traced => TraceIsRight
  <2> SUFFICES ASSUME IInv, TraceInv, "which" \in Scans, doing["which"] = "done", NEW i \in Indices
               PROVE  /\ why[i] # None <=> Matches(config[i]) /\ (at["which"] = 0 \/ Before(i, at["which"]))
                      /\ Reason(i)
    BY DEF TraceIsRight, Reason, AllThere
  <2>1. i \in Passed <=> Matches(config[i]) /\ (at["which"] = 0 \/ Before(i, at["which"]))
    BY DEF Passed, Behind, Looked
  <2>2. QED
    BY <2>1 DEF TraceInv
<1>4. QED
  BY <1>1, <1>2, <1>3, ScanInvariant, PTL DEF Spec
=============================================================================
