------------------------------ MODULE RuleProofs ------------------------------
(***************************************************************************)
(* What holds of every rule that loads and of every token, whatever the    *)
(* keys, templates and key bindings in the file are made of.               *)
(*                                                                         *)
(* The invariant says where the state comes from: what runex makes of a    *)
(* token is Fires of a rule that loaded, and a shell's keys are Bound of   *)
(* bindings that did.  The rest is about those operators.  Those that are  *)
(* about texts only are in TextProofs.                                     *)
(***************************************************************************)
EXTENDS RuleLife, TextProofs

Final == {"loaded", "pressed", "taken", "panicked", "open"}

\* A shell that has read its integration, and the line that one has taken.
ShellHas(s) ==
    /\ s.name \in Shells /\ s.home \in Homes
    /\ s.runs = Runs(s.name, s.home) /\ s.sources = SourcesFrom(s.name, s.home)
    /\ s.command = "export" => ValidBin(s.home)
Reply(sh, rendered, right) ==
    LET line  == rendered.text \o (IF rendered.cursor = None THEN <<" ">> ELSE <<>>) \o right
        caret == IF rendered.cursor = None THEN Len(rendered.text) + 1 ELSE rendered.cursor
    IN  [meant |-> [line |-> line, caret |-> caret], got |-> Received(sh, line, caret)]
LineTaken(rendered, b) == rendered # None /\ \E sh \in Shells, right \in Rights : b = Reply(sh, rendered, right)

\* A configuration that got past the load loads, and each later stage has what it has from it.
RuleInv ==
    /\ rules \in Seq(AbbrRule)
    /\ keybind \in Keybind
    /\ stage \in {"file", "refused"} \cup Final
    /\ stage \in Final => Loads(rules, keybind)
    /\ stage = "panicked" => \E sh \in Shells : TriggerFor(sh, keybind) # None /\ ChordPanics(sh, TriggerFor(sh, keybind))
    /\ stage = "open" => shell.keys = Bound(shell.name, keybind) /\ ShellHas(shell)
    /\ stage = "taken" => LineTaken(runex, buffer)
    /\ stage \in {"pressed", "taken"} =>
          /\ Len(rules) = 1
          /\ token \in Tokens
          /\ runex = Fires(rules[1], token)
          /\ gitbash = FiresBaked(rules[1], token)
          /\ which = Which(rules[1], token)

\* At first there is no rule.
LEMMA InitHasIt == Init => RuleInv
<1>1. <<>> \in Seq(AbbrRule)
  OBVIOUS
<1>2. NoBinding \in Keybind
  <2>1. NoKeys \in KeyTable
    BY DEF NoKeys, KeyTable
  <2> QED
    BY <2>1 DEF NoBinding, Keybind
<1> QED
  BY <1>1, <1>2 DEF Init, RuleInv, Final

\* Each step keeps the invariant.
LEMMA NextKeeps == RuleInv /\ [Next]_vars => RuleInv'
<1> SUFFICES ASSUME RuleInv, [Next]_vars PROVE RuleInv'
  OBVIOUS
<1> USE DEF RuleInv, Final
<1>1. ASSUME NEW f \in Written, Edit(f) PROVE RuleInv'
  <2>1. f.rules \in Seq(AbbrRule) /\ f.keybind \in Keybind
    BY LifeAssumption, Zenon
  <2> QED
    BY <1>1, <2>1 DEF Edit
<1>2. ASSUME NEW r \in Addable, Add(r) PROVE RuleInv'
  <2>1. r \in AbbrRule
    BY LifeAssumption, Zenon
  <2>2. Append(rules, r) \in Seq(AbbrRule)
    BY <2>1
  <2> QED
    BY <1>2, <2>2 DEF Add
<1>3. CASE Load
  BY <1>3 DEF Load
<1>4. ASSUME NEW t \in Tokens, Press(t) PROVE RuleInv'
  BY <1>4 DEF Press
<1>5. ASSUME NEW sh \in Shells, NEW right \in Rights, Take(sh, right) PROVE RuleInv'
  <2>1. runex # None /\ buffer' = Reply(sh, runex, right)
    BY <1>5, Zenon DEF Take, Reply
  <2>2. LineTaken(runex, buffer')
    BY <2>1, Zenon DEF LineTaken
  <2> QED
    BY <1>5, <2>2, Zenon DEF Take
<1>6. ASSUME NEW sh \in Shells, NEW command \in {"init", "export"}, NEW home \in Homes, Open(sh, command, home)
      PROVE  RuleInv'
  <2>1. CASE stage' = "open"
    <3>1. shell' = [name |-> sh, command |-> command, home |-> home, keys |-> Bound(sh, keybind),
                    runs |-> Runs(sh, home), sources |-> SourcesFrom(sh, home)]
          /\ (command = "export" => ValidBin(home))
      BY <1>6, <2>1 DEF Open
    <3>2. ShellHas(shell')
      BY <3>1 DEF ShellHas
    <3> QED
      BY <1>6, <2>1, <3>1, <3>2 DEF Open
  <2>2. CASE stage' # "open"
    BY <1>6, <2>2 DEF Open
  <2> QED
    BY <2>1, <2>2
<1>7. CASE UNCHANGED vars
  BY <1>7 DEF vars
<1> QED
  BY <1>1, <1>2, <1>3, <1>4, <1>5, <1>6, <1>7 DEF Next

\* The invariant of every rule's life.
LEMMA AlwaysRuleInv == Spec => []RuleInv
BY InitHasIt, NextKeeps, PTL DEF Spec

-----------------------------------------------------------------------------
\* What the load asks of the key bindings.
LEMMA LoadsBinding ==
    ASSUME NEW rs, NEW kb \in Keybind, Loads(rs, kb)
    PROVE  /\ \A l \in DOMAIN kb.trigger : kb.trigger[l] # "ctrl-v"
           /\ \A l \in DOMAIN kb.self_insert : kb.self_insert[l] # "ctrl-v"
           /\ kb.paste.nu \in {None, "ctrl-v"}
<1>1. KeybindError(kb) = None
  BY Zenon DEF Loads
<1>2. /\ None # "CtrlVAsTrigger" /\ None # "CtrlVAsSelfInsert"
      /\ None # "PasteInterceptUnsupportedShell" /\ None # "PasteInterceptInvalidKey"
  BY ReasonsAssumption DEF Reasons
<1>3. ~\E l \in DOMAIN kb.trigger : kb.trigger[l] = "ctrl-v"
  BY <1>1, <1>2 DEF KeybindError
<1>4. ~\E l \in DOMAIN kb.self_insert : kb.self_insert[l] = "ctrl-v"
  BY <1>1, <1>2 DEF KeybindError
<1>5. kb.paste.nu \in {None, "ctrl-v"}
  BY <1>1, <1>2 DEF KeybindError
<1> QED
  BY <1>3, <1>4, <1>5

\* Which key a table gives a shell.
LEMMA OwnIsEntry ==
    ASSUME NEW table \in KeyTable, NEW sh \in Shells
    PROVE  \E l \in DOMAIN table : Own(table, sh) = table[l]
<1>1. DOMAIN table = {"default", "bash", "zsh", "pwsh", "nu"}
  BY DEF KeyTable
<1>2. sh # "clink" => sh \in DOMAIN table
  BY <1>1, LifeAssumption, Zenon
<1>3. table.default = table["default"]
  OBVIOUS
<1> QED
  BY <1>1, <1>2, <1>3 DEF Own

\* A shell's keys are those of the tables, entry before default.
LEMMA KeysAreConfigured == RuleInv => KeysAsConfigured
<1> SUFFICES ASSUME RuleInv PROVE KeysAsConfigured
  OBVIOUS
<1>1. keybind \in Keybind /\ (stage \in {"panicked", "open"} => Loads(rules, keybind))
  BY DEF RuleInv, Final
<1>2. /\ keybind.trigger \in KeyTable /\ keybind.self_insert \in KeyTable
      /\ keybind.trigger = keybind.trigger
  BY <1>1 DEF Keybind
<1>3. ASSUME stage = "panicked" PROVE \E label \in DOMAIN NoKeys : keybind.trigger[label] = "shift-space"
  <2>1. PICK sh \in Shells : ChordPanics(sh, TriggerFor(sh, keybind))
    BY <1>3 DEF RuleInv, Final
  <2>2. PICK l \in DOMAIN keybind.trigger : TriggerFor(sh, keybind) = keybind.trigger[l]
    BY <1>2, OwnIsEntry DEF TriggerFor
  <2>3. keybind.trigger[l] # "ctrl-v"
    BY <1>1, <1>3, LoadsBinding
  <2>4. keybind.trigger[l] = "shift-space"
    BY <2>1, <2>2, <2>3 DEF ChordPanics
  <2>5. DOMAIN keybind.trigger = DOMAIN NoKeys
    BY <1>2 DEF KeyTable, NoKeys
  <2> QED
    BY <2>4, <2>5
<1>4. ASSUME stage = "open", NEW key \in Keys
      PROVE  LET own(table) == IF shell.name # "clink" /\ table[shell.name] # None THEN table[shell.name] ELSE table.default
             IN  /\ shell.keys[key] = "insert" => key = own(keybind.self_insert)
                 /\ key = own(keybind.self_insert) /\ key = "alt-space" /\ shell.name # "clink" => shell.keys[key] = "insert"
                 /\ shell.keys[key] = "expand" => key = own(keybind.trigger)
                 /\ key = own(keybind.trigger) => shell.keys[key] # "own" /\ (shell.keys[key] = "expand" \/ key = own(keybind.self_insert))
                 /\ key = "shift-space" /\ key = own(keybind.self_insert) /\ shell.name \in {"bash", "zsh"} => CheckKeybind(keybind)
                 /\ shell.keys[key] = "paste" <=> shell.name = "nu" /\ key = "ctrl-v" /\ keybind.paste.nu = "ctrl-v"
  <2> DEFINE sh == shell.name
             insert == SelfInsertFor(sh, keybind)
             trigger == TriggerFor(sh, keybind)
             paste == PasteInterceptFor(sh, keybind)
             typed == Own(keybind.self_insert, sh)
  <2>1. /\ sh \in Shells /\ shell.keys = Bound(sh, keybind)
        /\ sh \in {"bash", "zsh", "pwsh", "nu", "clink"}
    BY <1>4, LifeAssumption, Zenon DEF RuleInv, ShellHas
  <2>2. shell.keys[key] =
          IF key = insert /\ key \in CanSelfInsert(sh) THEN "insert"
          ELSE IF key = trigger THEN "expand"
          ELSE IF key = paste THEN "paste"
          ELSE "own"
    BY <2>1, Zenon DEF Bound
  <2>3. key # None
    BY KeysAssumption, Zenon
  <2>4. trigger # "ctrl-v" /\ typed # "ctrl-v"
    <3>1. PICK l \in DOMAIN keybind.trigger : trigger = keybind.trigger[l]
      BY <1>2, <2>1, OwnIsEntry DEF TriggerFor
    <3>2. PICK l2 \in DOMAIN keybind.self_insert : typed = keybind.self_insert[l2]
      BY <1>2, <2>1, OwnIsEntry
    <3> QED
      BY <1>1, <1>4, <3>1, <3>2, LoadsBinding
  <2>5. /\ sh = "clink" => insert = None
        /\ sh # "clink" => insert = typed
        /\ sh = "nu" => paste = keybind.paste.nu
        /\ sh # "nu" => paste = None
        /\ keybind.paste.nu \in {None, "ctrl-v"}
    BY <1>1, <1>4, LoadsBinding DEF SelfInsertFor, PasteInterceptFor
  <2>6. sh # "clink" => "alt-space" \in CanSelfInsert(sh)
    BY <2>1 DEF CanSelfInsert
  <2>7. /\ sh = "clink" => CanSelfInsert(sh) = {}
        /\ key = "shift-space" /\ key = typed /\ sh \in {"bash", "zsh"} => CheckKeybind(keybind)
    BY Zenon DEF CanSelfInsert, CheckKeybind
  <2>8. /\ trigger = IF sh # "clink" /\ keybind.trigger[sh] # None THEN keybind.trigger[sh] ELSE keybind.trigger.default
        /\ typed = IF sh # "clink" /\ keybind.self_insert[sh] # None THEN keybind.self_insert[sh] ELSE keybind.self_insert.default
    BY Zenon DEF Own, TriggerFor
  <2> HIDE DEF insert, trigger, paste, typed, sh
  <2>9. CASE key = insert /\ key \in CanSelfInsert(sh)
    <3>1. shell.keys[key] = "insert"
      BY <2>2, <2>9
    <3>2. key = typed /\ key # "ctrl-v"
      BY <2>3, <2>4, <2>5, <2>9
    <3> QED
      BY <2>7, <2>8, <3>1, <3>2 DEF sh
  <2>10. CASE ~(key = insert /\ key \in CanSelfInsert(sh)) /\ key = trigger
    <3>1. shell.keys[key] = "expand"
      BY <2>2, <2>10
    <3>2. key # "ctrl-v" /\ ~(sh # "clink" /\ key = typed /\ key = "alt-space")
      BY <2>4, <2>5, <2>6, <2>10
    <3> QED
      BY <2>7, <2>8, <2>10, <3>1, <3>2 DEF sh
  <2>11. CASE ~(key = insert /\ key \in CanSelfInsert(sh)) /\ key # trigger
    <3>1. /\ key = paste => shell.keys[key] = "paste"
          /\ key # paste => shell.keys[key] = "own"
      BY <2>2, <2>11
    <3>2. ~(sh # "clink" /\ key = typed /\ key = "alt-space")
      BY <2>5, <2>6, <2>11
    <3>3. key = paste <=> sh = "nu" /\ key = "ctrl-v" /\ keybind.paste.nu = "ctrl-v"
      BY <2>3, <2>5
    <3> QED
      BY <2>7, <2>8, <2>11, <3>1, <3>2, <3>3 DEF sh
  <2> QED
    BY <2>9, <2>10, <2>11
<1> QED
  BY <1>3, <1>4 DEF KeysAsConfigured

\* Whatever the [keybind] tables say: if they load, only a shift-space can make the export
\* panic, and each shell's keys are what the tables say, entry before default.
THEOREM ShellKeysAreConfigured == Spec => []KeysAsConfigured
BY AlwaysRuleInv, KeysAreConfigured, PTL

-----------------------------------------------------------------------------
\* A pair of texts is a sequence of texts.
LEMMA PairTyped == ASSUME NEW S, NEW a \in S, NEW b \in S PROVE <<a, b>> \in Seq(S)
OBVIOUS

-----------------------------------------------------------------------------
\* The fields of what was captured.
LEMMA CaptureFields ==
    ASSUME NEW x
    PROVE  /\ [NoCapture EXCEPT !.glob = x] = [number |-> None, glob |-> x, regex |-> None]
           /\ [NoCapture EXCEPT !.regex = x] = [number |-> None, glob |-> None, regex |-> x]
           /\ [NoCapture EXCEPT !.number = x] = [number |-> x, glob |-> None, regex |-> None]
BY DEF NoCapture

\* What a star takes is a text.
LEMMA GlobCaptureTyped ==
    ASSUME NEW key \in Text, NEW t \in Text, GlobCapture(key, t) # None
    PROVE  GlobCapture(key, t) \in Text
<1>1. CASE ~Has(key, "*")
  <2>1. GlobCapture(key, t) = <<>>
    BY <1>1, Zenon DEF GlobCapture
  <2>2. <<>> \in Text
    BY DEF Text
  <2> QED
    BY <2>1, <2>2
<1>2. CASE Has(key, "*")
  <2> DEFINE head == Before(key, First(key, "*"))
             tail == From(key, First(key, "*") + 1)
             end == Len(t) - Len(tail)
  <2>1. Len(head) <= end /\ GlobCapture(key, t) = SubSeq(t, Len(head) + 1, end)
    BY <1>2, Zenon DEF GlobCapture
  <2>2. First(key, "*") \in 1 .. Len(key) /\ Len(key) \in Nat /\ Len(t) \in Nat
    BY <1>2, FirstIs DEF Text
  <2>3. Len(head) \in Nat /\ Len(tail) \in Nat
    <3>1. First(key, "*") \in 1 .. Len(key) + 1 /\ First(key, "*") + 1 \in 1 .. Len(key) + 1
      BY <2>2
    <3>2. head \in Text /\ tail \in Text
      BY <3>1, SidesTyped
    <3> HIDE DEF head, tail
    <3> QED
      BY <3>2 DEF Text
  <2> HIDE DEF head, tail
  <2>4. Len(head) + 1 \in 1 .. Len(t) + 1 /\ end \in 0 .. Len(t)
    BY <2>1, <2>2, <2>3
  <2> HIDE DEF end
  <2>5. SubSeq(t, Len(head) + 1, end) \in Text
    BY <2>4, PartTyped DEF Text
  <2> QED
    BY <2>1, <2>5
<1> QED
  BY <1>1, <1>2

\* The engine's captures.
LEMMA CapturedTyped ==
    ASSUME NEW key, NEW t \in Text, Captured(key, t) # None
    PROVE  Captured(key, t) \in Seq(Text)
<1>1. \/ t # <<>> /\ Captured(key, t) = <<SubSeq(t, 1, 1), Tail(t)>>
      \/ Captured(key, t) = <<t>>
  <2> DEFINE A == key = <<"(.)(.*)">>
             B == key = <<"(.*)">>
  <2>0. ~(A /\ B)
    BY "(.)(.*)" # "(.*)"
  <2>1. A => Captured(key, t) = IF t = <<>> THEN None ELSE <<SubSeq(t, 1, 1), Tail(t)>>
    BY <2>0, Zenon DEF Captured
  <2>2. B => Captured(key, t) = <<t>>
    BY <2>0, Zenon DEF Captured
  <2>3. ~A /\ ~B => Captured(key, t) = None
    BY Zenon DEF Captured
  <2> HIDE DEF A, B
  <2> QED
    BY <2>1, <2>2, <2>3, Zenon
<1>2. CASE t # <<>> /\ Captured(key, t) = <<SubSeq(t, 1, 1), Tail(t)>>
  <2>1. SubSeq(t, 1, 1) \in Text /\ Tail(t) \in Text
    <3>1. t \in Seq(Symbols) /\ Len(t) \in Nat /\ Len(t) >= 1
      BY <1>2 DEF Text
    <3>2. SubSeq(t, 1, 1) \in Seq(Symbols)
      BY <3>1
    <3>3. Tail(t) \in Seq(Symbols)
      BY <1>2, <3>1
    <3> QED
      BY <3>2, <3>3 DEF Text
  <2> QED
    BY <1>2, <2>1, PairTyped
<1>3. CASE Captured(key, t) = <<t>>
  BY <1>3, SingleTyped
<1> QED
  BY <1>1, <1>2, <1>3

\* The phases: each kind is its own.
LEMMA PhaseIs ==
    ASSUME NEW r \in AbbrRule
    PROVE  /\ Phase(r) = "glob" <=> r.kind = "glob"
           /\ Phase(r) = "regex" <=> r.kind = "regex"
           /\ Phase(r) = "number" <=> r.kind = None /\ HasBrace(r.key)
           /\ Phase(r) = "exact" <=> r.kind = None /\ ~HasBrace(r.key)
<1>1. r.kind \in {None, "glob", "regex"}
  BY DEF AbbrRule
<1>2. None \notin {"glob", "regex"}
  BY MatchingAssumption, Zenon
<1>3. /\ r.kind # None => Phase(r) = r.kind
      /\ r.kind = None /\ HasBrace(r.key) => Phase(r) = "number"
      /\ r.kind = None /\ ~HasBrace(r.key) => Phase(r) = "exact"
  BY Zenon DEF Phase
<1> HIDE DEF Phase, HasBrace
<1>4. CASE r.kind = None /\ HasBrace(r.key)
  <2>1. Phase(r) = "number" /\ r.kind # "glob" /\ r.kind # "regex"
    BY <1>2, <1>3, <1>4
  <2> QED
    BY <1>4, <2>1
<1>5. CASE r.kind = None /\ ~HasBrace(r.key)
  <2>1. Phase(r) = "exact" /\ r.kind # "glob" /\ r.kind # "regex"
    BY <1>2, <1>3, <1>5
  <2> QED
    BY <1>5, <2>1
<1>6. CASE r.kind # None
  <2>1. Phase(r) = r.kind /\ r.kind \in {"glob", "regex"}
    BY <1>1, <1>3, <1>6
  <2> QED
    BY <1>6, <2>1
<1> QED
  BY <1>4, <1>5, <1>6

\* How a rule matches, each kind in its own way.
LEMMA MatchCases ==
    ASSUME NEW r \in AbbrRule, NEW t
    PROVE  LET glob == GlobCapture(r.key, t)
               regex == Captured(r.key, t)
               number == NumberCapture(r.key, t)
           IN  /\ r.kind = "glob" =>
                     Match(r, t) = IF glob # None THEN [number |-> None, glob |-> glob, regex |-> None] ELSE None
               /\ r.kind = "regex" =>
                     Match(r, t) = IF regex # None THEN [number |-> None, glob |-> None, regex |-> regex] ELSE None
               /\ r.kind = None /\ SplitsOnce(r.key) =>
                     Match(r, t) = IF number # None THEN [number |-> number, glob |-> None, regex |-> None] ELSE None
               /\ r.kind = None /\ ~SplitsOnce(r.key) =>
                     Match(r, t) = IF r.key = t THEN NoCapture ELSE None
<1> DEFINE glob == GlobCapture(r.key, t)
           regex == Captured(r.key, t)
           number == NumberCapture(r.key, t)
           A == r.kind = "glob" /\ glob # None
           B == r.kind = "regex" /\ regex # None
           C == Phase(r) = "number" /\ SplitsOnce(r.key) /\ number # None
           D == r.kind = None /\ ~SplitsOnce(r.key) /\ r.key = t
<1>1. None \notin {"glob", "regex"}
  BY MatchingAssumption, Zenon
<1>2. r.kind = None /\ SplitsOnce(r.key) => Phase(r) = "number"
  <2>1. SplitsOnce(r.key) => HasBrace(r.key)
    BY Zenon DEF SplitsOnce, HasBrace
  <2> QED
    BY <2>1, PhaseIs
<1>3. Phase(r) = "number" => r.kind = None
  BY PhaseIs
<1>4. CASE r.kind = "glob"
  <2>1. ~B /\ ~C /\ ~D
    <3> HIDE DEF glob, regex, number
    <3> QED BY <1>1, <1>3, <1>4
  <2>2. A => Match(r, t) = [NoCapture EXCEPT !.glob = glob]
    BY <2>1, Zenon DEF Match
  <2>3. ~A => Match(r, t) = None
    BY <2>1, Zenon DEF Match
  <2>4. r.kind # "regex" /\ r.kind # None
    BY <1>1, <1>4
  <2> QED
    BY <1>4, <2>2, <2>3, <2>4, CaptureFields, Zenon
<1>5. CASE r.kind = "regex"
  <2>1. ~A /\ ~C /\ ~D
    <3> HIDE DEF glob, regex, number
    <3> QED BY <1>1, <1>3, <1>5
  <2>2. B => Match(r, t) = [NoCapture EXCEPT !.regex = regex]
    BY <2>1, Zenon DEF Match
  <2>3. ~B => Match(r, t) = None
    BY <2>1, Zenon DEF Match
  <2>4. r.kind # "glob" /\ r.kind # None
    BY <1>1, <1>5
  <2> QED
    BY <1>5, <2>2, <2>3, <2>4, CaptureFields, Zenon
<1>6. CASE r.kind = None
  <2>1. ~A /\ ~B /\ r.kind # "glob" /\ r.kind # "regex"
    <3> HIDE DEF glob, regex, number
    <3> QED BY <1>1, <1>6
  <2>2. C => Match(r, t) = [NoCapture EXCEPT !.number = number]
    BY <2>1, Zenon DEF Match
  <2>3. D => Match(r, t) = NoCapture
    BY <2>1, Zenon DEF Match
  <2>4. ~C /\ ~D => Match(r, t) = None
    BY <2>1, Zenon DEF Match
  <2> QED
    BY <1>2, <1>6, <2>1, <2>2, <2>3, <2>4, CaptureFields, Zenon
<1>7. r.kind \in {None, "glob", "regex"}
  BY DEF AbbrRule
<1> HIDE DEF glob, regex, number, A, B, C, D
<1> QED
  BY <1>4, <1>5, <1>6, <1>7 DEF glob, regex, number

\* So a match is of one of four forms.
LEMMA MatchIs ==
    ASSUME NEW r \in AbbrRule, NEW t, Match(r, t) # None
    PROVE  \/ r.kind = "glob" /\ GlobCapture(r.key, t) # None
              /\ Match(r, t) = [number |-> None, glob |-> GlobCapture(r.key, t), regex |-> None]
           \/ r.kind = "regex" /\ Captured(r.key, t) # None
              /\ Match(r, t) = [number |-> None, glob |-> None, regex |-> Captured(r.key, t)]
           \/ r.kind = None /\ SplitsOnce(r.key) /\ NumberCapture(r.key, t) # None
              /\ Match(r, t) = [number |-> NumberCapture(r.key, t), glob |-> None, regex |-> None]
           \/ r.kind = None /\ ~SplitsOnce(r.key) /\ r.key = t /\ Match(r, t) = NoCapture
<1>1. r.kind \in {None, "glob", "regex"}
  BY DEF AbbrRule
<1> QED
  BY <1>1, MatchCases, Zenon

\* A number that matches is within the limit.
LEMMA NumberCaptureTyped ==
    ASSUME NEW key, NEW t, NumberCapture(key, t) # None
    PROVE  NumberCapture(key, t) \in 1 .. MaxNumeric
BY Zenon DEF NumberCapture

\* A match is a binding, and only a number rule binds a number.
LEMMA MatchTyped ==
    ASSUME NEW r \in AbbrRule, NEW t \in Text, Match(r, t) # None
    PROVE  /\ Match(r, t) \in Bindings
           /\ Match(r, t).number = None \/ Match(r, t).number \in 1 .. MaxNumeric
           /\ r.kind # None => Match(r, t).number = None
<1>0. r.key \in Text
  BY DEF AbbrRule
<1>1. CASE r.kind = "glob" /\ GlobCapture(r.key, t) # None
           /\ Match(r, t) = [number |-> None, glob |-> GlobCapture(r.key, t), regex |-> None]
  BY <1>0, <1>1, GlobCaptureTyped DEF Bindings
<1>2. CASE r.kind = "regex" /\ Captured(r.key, t) # None
           /\ Match(r, t) = [number |-> None, glob |-> None, regex |-> Captured(r.key, t)]
  BY <1>2, CapturedTyped DEF Bindings
<1>3. CASE r.kind = None /\ SplitsOnce(r.key) /\ NumberCapture(r.key, t) # None
           /\ Match(r, t) = [number |-> NumberCapture(r.key, t), glob |-> None, regex |-> None]
  <2>1. NumberCapture(r.key, t) \in 1 .. MaxNumeric /\ r.kind = None
    BY <1>3, NumberCaptureTyped
  <2>2. NumberCapture(r.key, t) \in Nat
    BY <2>1
  <2> QED
    BY <1>3, <2>1, <2>2 DEF Bindings
<1>4. CASE r.kind = None /\ Match(r, t) = NoCapture
  BY <1>4 DEF NoCapture, Bindings
<1> QED
  BY <1>1, <1>2, <1>3, <1>4, MatchIs

-----------------------------------------------------------------------------
\* Nothing comes of nothing, and only of that.
LEMMA FlattenEmpty ==
    ASSUME NEW S, NEW seqs \in Seq(Seq(S))
    PROVE  FlattenSeq(seqs) = <<>> <=> \A i \in 1 .. Len(seqs) : seqs[i] = <<>>
<1>1. CASE seqs = <<>>
  <2>1. Len(seqs) = 0 /\ \A i \in 1 .. Len(seqs) : FALSE
    BY <1>1
  <2>2. FlattenSeq(seqs) = seqs
    BY <2>1, Zenon DEF FlattenSeq
  <2> QED
    BY <1>1, <2>1, <2>2, Zenon
<1>2. CASE seqs # <<>>
  <2> DEFINE n == Len(seqs)
  <2>1. PICK f : IsFlattening(f, S, seqs)
    BY <1>2, FlattenSteps, Zenon
  <2>2. /\ f \in [1 .. n -> Seq(S)]
        /\ f[1] = seqs[1]
        /\ \A i \in 2 .. n : f[i] = f[i - 1] \o seqs[i]
        /\ FlattenSeq(seqs) = f[n]
    BY <2>1, Zenon DEF IsFlattening
  <2>3. n \in Nat /\ n # 0 /\ \A i \in 1 .. n : seqs[i] \in Seq(S) /\ f[i] \in Seq(S)
    BY <1>2, <2>2
  <2> DEFINE T == { k \in Nat : k + 1 <= n => (f[k + 1] = <<>> <=> \A i \in 1 .. k + 1 : seqs[i] = <<>>) }
  <2>4. 0 \in T
    <3>1. \A i \in 1 .. 0 + 1 : i = 1
      OBVIOUS
    <3> QED
      BY <2>2, <3>1
  <2>5. ASSUME NEW k \in Nat, k \in T PROVE k + 1 \in T
    <3>1. SUFFICES ASSUME (k + 1) + 1 <= n
                   PROVE  f[(k + 1) + 1] = <<>> <=> \A i \in 1 .. (k + 1) + 1 : seqs[i] = <<>>
      OBVIOUS
    <3> DEFINE m == k + 1
    <3>2. m \in 1 .. n /\ m + 1 \in 1 .. n /\ m + 1 \in 2 .. n /\ (m + 1) - 1 = m
          /\ (f[m] = <<>> <=> \A i \in 1 .. m : seqs[i] = <<>>)
      BY <2>3, <2>5, <3>1
    <3> HIDE DEF m
    <3>3. f[m + 1] = f[m] \o seqs[m + 1] /\ f[m] \in Seq(S) /\ seqs[m + 1] \in Seq(S)
      <4>1. f[m + 1] = f[(m + 1) - 1] \o seqs[m + 1]
        BY <2>2, <3>2, Zenon
      <4> QED
        BY <2>3, <3>2, <4>1, Zenon
    <3>4. f[m] \o seqs[m + 1] = <<>> <=> f[m] = <<>> /\ seqs[m + 1] = <<>>
      BY <3>3
    <3>5. \A i \in 1 .. m + 1 : i \in 1 .. m \/ i = m + 1
      BY <3>2
    <3>6. m + 1 \in 1 .. m + 1 /\ \A i \in 1 .. m : i \in 1 .. m + 1
      BY <3>2
    <3>7. f[m + 1] = <<>> <=> \A i \in 1 .. m + 1 : seqs[i] = <<>>
      BY <3>2, <3>3, <3>4, <3>5, <3>6, Zenon
    <3> QED
      BY <3>7 DEF m
  <2>6. Nat \subseteq T
    <3> HIDE DEF T
    <3> QED BY <2>4, <2>5, Induction, Zenon
  <2>7. n - 1 \in Nat /\ (n - 1) + 1 = n /\ n <= n
    BY <2>3
  <2>8. n - 1 \in T
    <3> HIDE DEF T
    <3> QED BY <2>6, <2>7
  <2> QED
    BY <2>2, <2>7, <2>8, Zenon
<1> QED
  BY <1>1, <1>2

-----------------------------------------------------------------------------
\* A number that cannot be rendered renders nothing.
LEMMA RenderNone == ASSUME NEW r, NEW b, RenderNumber(r, b) = None PROVE Render(r, b) = None
BY Zenon DEF Render

\* Without a number the template stays, and without a unit there is none.
LEMMA RenderNumberCases ==
    ASSUME NEW r, NEW b
    PROVE  /\ b.number = None => RenderNumber(r, b) = r.expand
           /\ b.number # None /\ r.number = None => RenderNumber(r, b) = None
BY Zenon DEF RenderNumber

\* What fires is what is rendered.
LEMMA FiresIs ==
    ASSUME NEW r, NEW t, Fires(r, t) # None
    PROVE  /\ Match(r, t) # None
           /\ Render(r, Match(r, t)) # None
           /\ Fires(r, t) = Render(r, Match(r, t))
           /\ ~(Phase(r) = "exact" /\ r.key = r.expand)
           /\ ~IsBlank(Fires(r, t).text)
           /\ ~(Phase(r) \in {"glob", "regex"} /\ Fires(r, t).text = t)
BY Zenon DEF Fires

\* What comes first of two texts.
LEMMA LeftOf ==
    ASSUME NEW left \in Text, NEW right \in Text
    PROVE  SubSeq(left \o right, 1, Len(left)) = left
<1>1. left \in Seq(Symbols) /\ right \in Seq(Symbols) /\ Len(left) \in Nat /\ Len(right) \in Nat
  BY DEF Text
<1> DEFINE both == left \o right
           part == SubSeq(both, 1, Len(left))
<1>2. both \in Seq(Symbols) /\ Len(both) = Len(left) + Len(right) /\ \A k \in 1 .. Len(left) : both[k] = left[k]
  BY <1>1
<1> HIDE DEF both
<1>3. 1 \in 1 .. Len(both) + 1 /\ Len(left) \in 0 .. Len(both)
  BY <1>1, <1>2
<1>4. /\ part \in Seq(Symbols)
      /\ Len(part) = IF 1 <= Len(left) THEN Len(left) - 1 + 1 ELSE 0
      /\ \A k \in 1 .. Len(part) : part[k] = both[1 + k - 1]
  BY <1>2, <1>3, PartTyped
<1> HIDE DEF part
<1>5. Len(part) = Len(left)
  BY <1>1, <1>4
<1>6. \A k \in 1 .. Len(left) : part[k] = left[k]
  BY <1>1, <1>2, <1>4, <1>5
<1>7. part = left
  BY <1>1, <1>4, <1>5, <1>6, SeqEqual
<1> QED
  BY <1>7 DEF part, both

\* The caret comes from the template.
LEMMA CursorsAreTheTemplates == RuleInv => CursorIsTheTemplates
<1> SUFFICES ASSUME RuleInv, stage = "pressed", runex # None, rule.kind # None
             PROVE  LET i == FirstCursor(rule.expand)
                    IN  IF i = None THEN runex.cursor = None
                        ELSE SubSeq(runex.text, 1, runex.cursor) = Substituted(Before(rule.expand, i), Match(rule, token))
  BY DEF CursorIsTheTemplates
<1> DEFINE b == Match(rule, token)
           i == FirstCursor(rule.expand)
           left == WithCaptures(Before(rule.expand, i), b)
           right == WithCaptures(From(rule.expand, i + 2), b)
<1>1. rule \in AbbrRule /\ token \in Text /\ runex = Fires(rule, token)
  <2>1. rules \in Seq(AbbrRule) /\ Len(rules) = 1 /\ token \in Tokens /\ runex = Fires(rules[1], token)
    BY DEF RuleInv
  <2>2. rules[1] \in AbbrRule
    BY <2>1
  <2>3. Tokens \subseteq Text
    BY LifeAssumption, Zenon
  <2> QED
    BY <2>1, <2>2, <2>3 DEF rule
<1>2. b # None /\ runex = Render(rule, b) /\ rule.expand \in Text /\ None \notin Text
  <2>1. None \notin Text
    BY MatchingAssumption, Zenon
  <2> QED
    BY <1>1, <2>1, FiresIs DEF AbbrRule
<1>3. b \in Bindings /\ b.number = None
  BY <1>1, <1>2, MatchTyped
<1> HIDE DEF b
<1>4. RenderNumber(rule, b) = rule.expand /\ rule.expand # None
  BY <1>2, <1>3, RenderNumberCases
<1>5. CASE i = None
  <2>1. runex = [text |-> WithCaptures(rule.expand, b), cursor |-> None]
    BY <1>2, <1>4, <1>5, RenderCases, Zenon
  <2> QED
    BY <1>5, <2>1
<1>6. CASE i # None
  <2>1. runex = [text |-> left \o right, cursor |-> Len(left)] /\ left # None /\ right # None
    BY <1>2, <1>4, <1>6, RenderCases, Zenon
  <2>2. i \in 1 .. Len(rule.expand) + 1 /\ i + 2 \in 1 .. Len(rule.expand) + 1
    <3>1. i \in 1 .. Len(rule.expand) - 1 /\ Len(rule.expand) \in Nat
      BY <1>2, <1>6, FirstCursorIs DEF Text
    <3> HIDE DEF i
    <3> QED
      BY <3>1
  <2>3. Before(rule.expand, i) \in Text /\ From(rule.expand, i + 2) \in Text
    BY <1>2, <2>2, SidesTyped
  <2>4. left \in Text /\ left = Substituted(Before(rule.expand, i), b) /\ right \in Text
    BY <1>3, <2>1, <2>3, WithCapturesTyped
  <2> HIDE DEF left, right, i
  <2>5. runex.text = left \o right /\ runex.cursor = Len(left)
    BY <2>1
  <2> QED
    BY <1>6, <2>4, <2>5, LeftOf DEF i, b
<1> QED
  BY <1>5, <1>6 DEF b

\* Whatever the template and the token: the caret of a glob or regex rule is behind what the
\* part of the template before its `{}` became, wherever the token has braces of its own.
THEOREM CaretsAreTheTemplates == Spec => []CursorIsTheTemplates
BY AlwaysRuleInv, CursorsAreTheTemplates, PTL

-----------------------------------------------------------------------------
\* What a rule renders is a text, and a caret in it.
LEMMA RepeatTyped ==
    ASSUME NEW unit \in Text, NEW n \in Nat
    PROVE  Repeat(unit, n) \in Text
<1> DEFINE units == [i \in 1 .. n |-> unit]
<1>1. units \in Seq(Seq(Symbols))
  BY DEF Text
<1> HIDE DEF units
<1>2. FlattenSeq(units) \in Seq(Symbols)
  BY <1>1, FlattenTyped
<1> QED
  BY <1>2 DEF units, Repeat, Text

\* A template with its units is a text.
LEMMA RenderNumberTyped ==
    ASSUME NEW r \in AbbrRule, NEW b \in Bindings, RenderNumber(r, b) # None
    PROVE  RenderNumber(r, b) \in Text
<1>1. r.expand \in Text /\ r.number \in Text \cup {None} /\ b.number \in Nat \cup {None}
  BY DEF AbbrRule, Bindings
<1>2. CASE b.number = None
  BY <1>1, <1>2, RenderNumberCases
<1>3. CASE b.number # None /\ r.number = None
  BY <1>3, RenderNumberCases
<1>4. CASE b.number # None /\ r.number # None
  <2> DEFINE units == Repeat(r.number, b.number)
             pieces == [i \in DOMAIN r.expand |-> IF r.expand[i] = "{number}" THEN units ELSE <<r.expand[i]>>]
  <2>1. units \in Seq(Symbols)
    BY <1>1, <1>4, RepeatTyped, Zenon DEF Text
  <2> HIDE DEF units
  <2>2. Len(r.expand) \in Nat /\ DOMAIN r.expand = 1 .. Len(r.expand) /\ \A i \in DOMAIN r.expand : r.expand[i] \in Symbols
    BY <1>1 DEF Text
  <2>3. \A i \in DOMAIN r.expand : <<r.expand[i]>> \in Seq(Symbols)
    BY <2>2, SingleTyped
  <2>4. pieces \in [1 .. Len(r.expand) -> Seq(Symbols)]
    BY <2>1, <2>2, <2>3, Zenon
  <2>5. pieces \in Seq(Seq(Symbols))
    <3> HIDE DEF pieces
    <3> QED BY <2>2, <2>4
  <2> HIDE DEF pieces
  <2>6. FlattenSeq(pieces) \in Text
    BY <2>5, FlattenTyped DEF Text
  <2>7. RenderNumber(r, b) = IF Len(units) > MaxRendered \/ Len(FlattenSeq(pieces)) > MaxRendered THEN None
                             ELSE FlattenSeq(pieces)
    BY <1>4, Zenon DEF RenderNumber, units, pieces
  <2> QED
    BY <2>6, <2>7
<1> QED
  BY <1>2, <1>3, <1>4

\* So is what is rendered, with a caret in it or none.
LEMMA RenderTyped ==
    ASSUME NEW r \in AbbrRule, NEW b \in Bindings, Render(r, b) # None
    PROVE  \E text \in Text : \E cursor \in (0 .. Len(text)) \cup {None} :
               Render(r, b) = [text |-> text, cursor |-> cursor]
<1> DEFINE base == RenderNumber(r, b)
           i == FirstCursor(base)
           left == WithCaptures(Before(base, i), b)
           right == WithCaptures(From(base, i + 2), b)
<1>1. base # None
  BY RenderNone
<1>2. base \in Text
  BY <1>1, RenderNumberTyped
<1>3. CASE i = None
  <2>1. WithCaptures(base, b) # None /\ Render(r, b) = [text |-> WithCaptures(base, b), cursor |-> None]
    BY <1>1, <1>3, RenderCases, Zenon
  <2>2. WithCaptures(base, b) \in Text
    BY <1>2, <2>1, WithCapturesTyped
  <2> HIDE DEF base
  <2> QED
    BY <2>1, <2>2, Zenon
<1>4. CASE i # None
  <2>1. Render(r, b) = [text |-> left \o right, cursor |-> Len(left)] /\ left # None /\ right # None
    BY <1>1, <1>4, RenderCases, Zenon
  <2> HIDE DEF base
  <2>2. i \in 1 .. Len(base) + 1 /\ i + 2 \in 1 .. Len(base) + 1
    <3>1. i \in 1 .. Len(base) - 1 /\ Len(base) \in Nat
      BY <1>2, <1>4, FirstCursorIs DEF Text
    <3> HIDE DEF i
    <3> QED
      BY <3>1
  <2>3. Before(base, i) \in Text /\ From(base, i + 2) \in Text
    BY <1>2, <2>2, SidesTyped
  <2>4. left \in Text /\ right \in Text
    BY <2>1, <2>3, WithCapturesTyped
  <2> HIDE DEF left, right, i
  <2>5. left \o right \in Text /\ Len(left) \in 0 .. Len(left \o right)
    BY <2>4 DEF Text
  <2> QED
    BY <2>1, <2>5, Zenon
<1> QED
  BY <1>3, <1>4

-----------------------------------------------------------------------------
\* What the load asks of the rules.  Each issue is of a field and has a reason.
Fields == {"key", "expand", "expand.bash", "expand.pwsh", "when_command_exists", "number", "abbr"}
IssueSet == [field : Fields, reason : Reasons]

\* An issue is there if and only if it has a reason.
LEMMA IssueIs ==
    ASSUME NEW field \in Fields, NEW reason \in Reasons \cup {None}
    PROVE  Issue(field, reason) \in Seq(IssueSet) /\ (Issue(field, reason) = <<>> <=> reason = None)
<1>1. None \notin Reasons
  BY ReasonsAssumption, Zenon
<1>2. CASE reason = None
  BY <1>2 DEF Issue
<1>3. CASE reason # None
  <2>1. Issue(field, reason) = <<[field |-> field, reason |-> reason]>>
    BY <1>3, Zenon DEF Issue
  <2>2. [field |-> field, reason |-> reason] \in IssueSet
    BY <1>3 DEF IssueSet
  <2>3. <<[field |-> field, reason |-> reason]>> \in Seq(IssueSet)
    BY <2>2, SingleTyped
  <2>4. <<[field |-> field, reason |-> reason]>> # <<>>
    OBVIOUS
  <2> QED
    BY <1>3, <2>1, <2>3, <2>4
<1> QED
  BY <1>2, <1>3

\* A reason under a condition.
LEMMA WhenIs ==
    ASSUME NEW condition, condition \in BOOLEAN, NEW reason \in Reasons
    PROVE  When(condition, reason) \in Reasons \cup {None} /\ (When(condition, reason) = None <=> ~condition)
<1>1. None \notin Reasons
  BY ReasonsAssumption, Zenon
<1> QED
  BY <1>1 DEF When

\* What makes a text unreadable is a reason.
LEMMA UnreadableTyped == ASSUME NEW s PROVE Unreadable(s) \in Reasons \cup {None}
<1> DEFINE A == Has(s, Nul)
           B == ~Has(s, Nul) /\ OneOf(s, Controls)
           C == ~OneOf(s, Controls \cup {Nul}) /\ OneOf(s, Deceptive)
<1>1. A => ~B /\ ~C
  BY Zenon DEF Has, OneOf
<1>2. B => ~A /\ ~C
  BY Zenon DEF Has, OneOf
<1>3. A => Unreadable(s) = "ContainsNul"
  BY <1>1, Zenon DEF Unreadable
<1>4. B => Unreadable(s) = "ContainsControlChar"
  BY <1>2, Zenon DEF Unreadable
<1>5. ~A /\ ~B /\ C => Unreadable(s) = "ContainsDeceptiveUnicode"
  BY Zenon DEF Unreadable
<1>6. ~A /\ ~B /\ ~C => Unreadable(s) = None
  BY Zenon DEF Unreadable
<1> HIDE DEF A, B, C
<1> QED
  BY <1>3, <1>4, <1>5, <1>6 DEF Reasons

\* A text that passes is one that can be read, and not too long.
LEMMA TroubleIs ==
    ASSUME NEW s, NEW max
    PROVE  /\ Trouble(s, max) \in Reasons \cup {None}
           /\ Trouble(s, max) = None => ~IsBlank(s) /\ ~(Len(s) > max)
<1> DEFINE A == s = <<>>
           B == s # <<>> /\ IsBlank(s)
           C == ~IsBlank(s) /\ Len(s) > max
<1>0. s = <<>> => IsBlank(s)
  <2>1. DOMAIN <<>> = {}
    OBVIOUS
  <2> QED
    BY <2>1, Zenon DEF IsBlank
<1>1. A => Trouble(s, max) = "Empty"
  BY <1>0, Zenon DEF Trouble
<1>2. B => Trouble(s, max) = "WhitespaceOnly"
  BY Zenon DEF Trouble
<1>3. C => Trouble(s, max) = "TooLong"
  BY <1>0, Zenon DEF Trouble
<1>4. ~A /\ ~B /\ ~C => Trouble(s, max) = Unreadable(s)
  BY Zenon DEF Trouble
<1>5. {"Empty", "WhitespaceOnly", "TooLong"} \subseteq Reasons
  BY DEF Reasons
<1>6. None \notin Reasons
  BY ReasonsAssumption, Zenon
<1>7. Unreadable(s) \in Reasons \cup {None}
  BY UnreadableTyped
<1>8. ~A /\ ~B => ~IsBlank(s)
  BY Zenon
<1>9. A \/ B => IsBlank(s)
  BY <1>0, Zenon
<1>10. ~IsBlank(s) /\ ~C => ~(Len(s) > max)
  BY Zenon
<1>11. (~A /\ ~B /\ ~C) \/ A \/ B \/ C
  BY Zenon
<1> HIDE DEF A, B, C
<1> QED
  BY <1>1, <1>2, <1>3, <1>4, <1>5, <1>6, <1>7, <1>8, <1>9, <1>10, <1>11

\* What is wrong with a unit is a reason.
LEMMA UnitTyped == ASSUME NEW unit \in Text PROVE CheckNumberUnit(unit) \in Reasons \cup {None}
<1>1. MaxUnit \in Nat /\ Len(<<>>) = 0
  BY LimitsFit
<1>2. unit = <<>> => ~(Len(unit) > MaxUnit)
  BY <1>1
<1>3. unit = <<>> => CheckNumberUnit(unit) = "Empty"
  BY <1>2, Zenon DEF CheckNumberUnit
<1>4. Len(unit) > MaxUnit => CheckNumberUnit(unit) = "TooLong"
  BY <1>2, Zenon DEF CheckNumberUnit
<1>5. unit # <<>> /\ ~(Len(unit) > MaxUnit) => CheckNumberUnit(unit) = Unreadable(unit)
  BY Zenon DEF CheckNumberUnit
<1>6. {"Empty", "TooLong"} \subseteq Reasons
  BY DEF Reasons
<1> DEFINE long == Len(unit) > MaxUnit
<1> HIDE DEF long
<1> QED
  BY <1>3, <1>4, <1>5, <1>6, UnreadableTyped DEF long

\* What is wrong with a command is a reason.
LEMMA CmdTyped == ASSUME NEW cmd PROVE CheckCmdEntry(cmd) \in Reasons \cup {None}
<1> DEFINE A == Trouble(cmd, MaxCmd) # None
           B == OneOf(cmd, Separators)
           C == OneOf(cmd, Metachars)
<1>1. A => CheckCmdEntry(cmd) = Trouble(cmd, MaxCmd)
  BY Zenon DEF CheckCmdEntry
<1>2. ~A /\ B => CheckCmdEntry(cmd) = "PathSeparator"
  BY Zenon DEF CheckCmdEntry
<1>3. ~A /\ ~B /\ C => CheckCmdEntry(cmd) = "Metacharacter"
  BY Zenon DEF CheckCmdEntry
<1>4. ~A /\ ~B /\ ~C => CheckCmdEntry(cmd) = None
  BY Zenon DEF CheckCmdEntry
<1>5. {"PathSeparator", "Metacharacter"} \subseteq Reasons
  BY DEF Reasons
<1>6. Trouble(cmd, MaxCmd) \in Reasons \cup {None}
  BY TroubleIs
<1> HIDE DEF A, B, C
<1> QED
  BY <1>1, <1>2, <1>3, <1>4, <1>5, <1>6

\* A rule has one text to expand to, or two.
LEMMA ExpandValuesIs ==
    ASSUME NEW r \in AbbrRule
    PROVE  /\ DOMAIN ExpandValues(r) \in {1 .. 1, 1 .. 2}
           /\ \A i \in DOMAIN ExpandValues(r) : ExpandValues(r)[i].field \in Fields
           /\ ExpandValues(r)[1].text = r.expand
           /\ r.pwsh = None => DOMAIN ExpandValues(r) = 1 .. 1
<1>1. CASE r.pwsh = None
  <2>1. ExpandValues(r) = <<[field |-> "expand", text |-> r.expand]>>
    BY <1>1, Zenon DEF ExpandValues
  <2>2. /\ DOMAIN <<[field |-> "expand", text |-> r.expand]>> = 1 .. 1
        /\ <<[field |-> "expand", text |-> r.expand]>>[1].field = "expand"
        /\ <<[field |-> "expand", text |-> r.expand]>>[1].text = r.expand
        /\ \A i \in 1 .. 1 : i = 1
    OBVIOUS
  <2> QED
    BY <1>1, <2>1, <2>2 DEF Fields
<1>2. CASE r.pwsh # None
  <2> DEFINE two == <<[field |-> "expand.bash", text |-> r.expand], [field |-> "expand.pwsh", text |-> r.pwsh]>>
  <2>1. ExpandValues(r) = two
    BY <1>2, Zenon DEF ExpandValues
  <2>2. DOMAIN two = 1 .. 2 /\ two[1].field = "expand.bash" /\ two[2].field = "expand.pwsh"
        /\ two[1].text = r.expand
        /\ \A i \in 1 .. 2 : i = 1 \/ i = 2
    OBVIOUS
  <2> HIDE DEF two
  <2> QED
    BY <1>2, <2>1, <2>2 DEF Fields
<1> QED
  BY <1>1, <1>2

\* Many issues one after the other.
LEMMA FlatIssues ==
    ASSUME NEW n \in Nat, NEW seqs, DOMAIN seqs = 1 .. n, seqs = [i \in 1 .. n |-> seqs[i]],
           \A i \in 1 .. n : seqs[i] \in Seq(IssueSet)
    PROVE  /\ FlattenSeq(seqs) \in Seq(IssueSet)
           /\ FlattenSeq(seqs) = <<>> <=> \A i \in 1 .. n : seqs[i] = <<>>
<1>1. seqs \in Seq(Seq(IssueSet)) /\ Len(seqs) = n
  OBVIOUS
<1> QED
  BY <1>1, FlattenTyped, FlattenEmpty

\* The walk over them finds nothing in one that is in order.
LEMMA WalkExpandIs ==
    ASSUME NEW r \in AbbrRule
    PROVE  /\ WalkExpand(r) \in Seq(IssueSet)
           /\ r.pwsh = None /\ CheckExpandValue(r.expand) = None => WalkExpand(r) = <<>>
           /\ WalkExpand(r) = <<>> => CheckExpandValue(r.expand) = None
<1> DEFINE D == DOMAIN ExpandValues(r)
           seqs == [i \in D |-> Issue(ExpandValues(r)[i].field, CheckExpandValue(ExpandValues(r)[i].text))]
<1>1. PICK n \in Nat : D = 1 .. n
  BY ExpandValuesIs, Zenon
<1>2. ASSUME NEW i \in D
      PROVE  /\ seqs[i] = Issue(ExpandValues(r)[i].field, CheckExpandValue(ExpandValues(r)[i].text))
             /\ seqs[i] \in Seq(IssueSet)
             /\ CheckExpandValue(ExpandValues(r)[i].text) = None <=> seqs[i] = <<>>
  <2>1. ExpandValues(r)[i].field \in Fields
    BY ExpandValuesIs
  <2>2. CheckExpandValue(ExpandValues(r)[i].text) \in Reasons \cup {None}
    BY TroubleIs DEF CheckExpandValue
  <2> DEFINE one == Issue(ExpandValues(r)[i].field, CheckExpandValue(ExpandValues(r)[i].text))
  <2>3. one \in Seq(IssueSet) /\ (CheckExpandValue(ExpandValues(r)[i].text) = None <=> one = <<>>)
    BY <2>1, <2>2, IssueIs, Zenon
  <2>4. seqs[i] = one
    BY Zenon
  <2> HIDE DEF seqs, D, one
  <2> QED
    BY <2>3, <2>4 DEF one
<1>3. DOMAIN seqs = 1 .. n /\ seqs = [i \in 1 .. n |-> seqs[i]]
  BY <1>1, Zenon
<1>4. WalkExpand(r) = FlattenSeq(seqs)
  BY Zenon DEF WalkExpand
<1> HIDE DEF seqs
<1>5. /\ FlattenSeq(seqs) \in Seq(IssueSet)
      /\ FlattenSeq(seqs) = <<>> <=> \A i \in 1 .. n : seqs[i] = <<>>
  <2>1. \A i \in 1 .. n : seqs[i] \in Seq(IssueSet)
    BY <1>1, <1>2, Zenon
  <2> QED
    BY <1>3, <2>1, FlatIssues
<1>6. ASSUME r.pwsh = None, CheckExpandValue(r.expand) = None PROVE WalkExpand(r) = <<>>
  <2>1. D = 1 .. 1 /\ ExpandValues(r)[1].text = r.expand
    BY <1>6, ExpandValuesIs
  <2>2. 1 \in D /\ \A i \in D : i = 1
    <3> HIDE DEF D
    <3> QED BY <2>1
  <2>3. seqs[1] = <<>>
    BY <1>2, <1>6, <2>1, <2>2, Zenon
  <2>4. \A i \in 1 .. n : seqs[i] = <<>>
    BY <1>1, <2>2, <2>3, Zenon
  <2> QED
    BY <1>4, <1>5, <2>4, Zenon
<1>7. ASSUME WalkExpand(r) = <<>> PROVE CheckExpandValue(r.expand) = None
  <2>1. 1 \in D /\ ExpandValues(r)[1].text = r.expand
    <3>1. 1 \in 1 .. 1 /\ 1 \in 1 .. 2
      OBVIOUS
    <3> QED
      BY <3>1, ExpandValuesIs, Zenon
  <2>2. seqs[1] = <<>>
    BY <1>1, <1>4, <1>5, <1>7, <2>1, Zenon
  <2> QED
    BY <1>2, <2>1, <2>2, Zenon
<1> QED
  BY <1>4, <1>5, <1>6, <1>7

\* The walk over the commands finds nothing in a list that is in order.
LEMMA WalkCmdsIs ==
    ASSUME NEW r \in AbbrRule
    PROVE  /\ WalkCmds(r) \in Seq(IssueSet)
           /\ WalkCmds(r) = <<>> <=> Len(r.when) <= MaxCmds /\ \A i \in DOMAIN r.when : CheckCmdEntry(r.when[i]) = None
<1> DEFINE n == Len(r.when)
           seqs == [i \in DOMAIN r.when |-> Issue("when_command_exists", CheckCmdEntry(r.when[i]))]
<1>1. n \in Nat /\ DOMAIN r.when = 1 .. n
  BY DEF AbbrRule
<1>2. "when_command_exists" \in Fields
  BY DEF Fields
<1>3. ASSUME NEW i \in DOMAIN r.when
      PROVE  seqs[i] \in Seq(IssueSet) /\ (CheckCmdEntry(r.when[i]) = None <=> seqs[i] = <<>>)
  <2>1. CheckCmdEntry(r.when[i]) \in Reasons \cup {None}
    BY CmdTyped
  <2>2. seqs[i] = Issue("when_command_exists", CheckCmdEntry(r.when[i]))
    BY Zenon
  <2> HIDE DEF seqs
  <2> QED
    BY <1>2, <2>1, <2>2, IssueIs
<1>4. DOMAIN seqs = 1 .. n /\ seqs = [i \in 1 .. n |-> seqs[i]]
  BY <1>1, Zenon
<1> HIDE DEF seqs
<1>5. /\ FlattenSeq(seqs) \in Seq(IssueSet)
      /\ FlattenSeq(seqs) = <<>> <=> \A i \in 1 .. n : seqs[i] = <<>>
  <2>1. \A i \in 1 .. n : seqs[i] \in Seq(IssueSet)
    BY <1>1, <1>3, Zenon
  <2> HIDE DEF n
  <2> QED
    BY <1>1, <1>4, <2>1, FlatIssues
<1>6. CASE n > MaxCmds
  <2>1. WalkCmds(r) = Issue("when_command_exists", "TooManyCmds")
    BY <1>6, Zenon DEF WalkCmds
  <2>2. "TooManyCmds" \in Reasons
    BY DEF Reasons
  <2>3. ~(n <= MaxCmds)
    BY <1>1, <1>6, LimitsFit
  <2> QED
    <3>1. Issue("when_command_exists", "TooManyCmds") \in Seq(IssueSet) /\ Issue("when_command_exists", "TooManyCmds") # <<>>
      <4>1. None \notin Reasons
        BY ReasonsAssumption, Zenon
      <4> QED
        BY <1>2, <2>2, <4>1, IssueIs
    <3> QED
      BY <2>1, <2>3, <3>1, Zenon
<1>7. CASE ~(n > MaxCmds)
  <2>1. WalkCmds(r) = FlattenSeq(seqs)
    BY <1>7, Zenon DEF WalkCmds, seqs
  <2>2. (\A i \in DOMAIN r.when : CheckCmdEntry(r.when[i]) = None) <=> FlattenSeq(seqs) = <<>>
    BY <1>1, <1>3, <1>5, Zenon
  <2>3. n <= MaxCmds
    BY <1>1, <1>7, LimitsFit
  <2> QED
    BY <1>5, <2>1, <2>2, <2>3, Zenon
<1> QED
  BY <1>6, <1>7

\* Three issues at most, one after the other, and none for a rule of another kind.
LEMMA WalkGlobIs ==
    ASSUME NEW r \in AbbrRule
    PROVE  /\ WalkGlobKey(r) \in Seq(IssueSet) /\ (r.kind # "glob" => WalkGlobKey(r) = <<>>)
           /\ r.kind = "glob" /\ WalkGlobKey(r) = <<>> =>
                 /\ ~OneOf(r.key, ForbiddenInGlob)
                 /\ ~(Cardinality({ i \in DOMAIN r.key : r.key[i] = "*" }) > 1)
<1>1. CASE r.kind # "glob"
  <2>1. WalkGlobKey(r) = <<>> /\ <<>> \in Seq(IssueSet)
    BY <1>1 DEF WalkGlobKey
  <2> QED
    BY <1>1, <2>1, Zenon
<1>2. CASE r.kind = "glob"
  <2> DEFINE a == Issue("key", When(OneOf(r.key, ForbiddenInGlob), "GlobKeyHasUnsupportedChar"))
             b == Issue("key", When(Cardinality({ i \in DOMAIN r.key : r.key[i] = "*" }) > 1, "GlobKeyHasMultipleStars"))
             c == Issue("key", When(~OneOf(r.key, {"*", "?"}), "GlobKeyWithoutWildcard"))
  <2>1. WalkGlobKey(r) = a \o b \o c
    BY <1>2, Zenon DEF WalkGlobKey
  <2>2. /\ "key" \in Fields
        /\ {"GlobKeyHasUnsupportedChar", "GlobKeyHasMultipleStars", "GlobKeyWithoutWildcard"} \subseteq Reasons
    BY DEF Fields, Reasons
  <2>3. /\ OneOf(r.key, ForbiddenInGlob) \in BOOLEAN
        /\ (Cardinality({ i \in DOMAIN r.key : r.key[i] = "*" }) > 1) \in BOOLEAN
        /\ (~OneOf(r.key, {"*", "?"})) \in BOOLEAN
    <3>1. OneOf(r.key, ForbiddenInGlob) \in BOOLEAN
      BY Zenon DEF OneOf
    <3>2. (Cardinality({ i \in DOMAIN r.key : r.key[i] = "*" }) > 1) \in BOOLEAN
      OBVIOUS
    <3>3. OneOf(r.key, {"*", "?"}) \in BOOLEAN
      BY Zenon DEF OneOf
    <3>4. (~OneOf(r.key, {"*", "?"})) \in BOOLEAN
      BY <3>3
    <3> QED
      BY <3>1, <3>2, <3>4, Zenon
  <2>4. a \in Seq(IssueSet) /\ (a = <<>> => ~OneOf(r.key, ForbiddenInGlob))
    BY <2>2, <2>3, WhenIs, IssueIs, Zenon
  <2>5. b \in Seq(IssueSet) /\ (b = <<>> => ~(Cardinality({ i \in DOMAIN r.key : r.key[i] = "*" }) > 1))
    BY <2>2, <2>3, WhenIs, IssueIs, Zenon
  <2>6. c \in Seq(IssueSet)
    BY <2>2, <2>3, WhenIs, IssueIs, Zenon
  <2> HIDE DEF a, b, c
  <2>7. a \o b \o c \in Seq(IssueSet) /\ (a \o b \o c = <<>> => a = <<>> /\ b = <<>>)
    BY <2>4, <2>5, <2>6
  <2> QED
    BY <1>2, <2>1, <2>4, <2>5, <2>7, Zenon
<1> QED
  BY <1>1, <1>2

\* The walk over a regex key finds nothing in a rule of another kind.
LEMMA WalkRegexIs ==
    ASSUME NEW r \in AbbrRule
    PROVE  WalkRegexKey(r) \in Seq(IssueSet) /\ (r.kind # "regex" => WalkRegexKey(r) = <<>>)
<1> DEFINE D == DOMAIN ExpandValues(r)
           missing(i) == RefersToMissing(ExpandValues(r)[i].text, Groups(r.key))
           seqs == [i \in D |-> Issue(ExpandValues(r)[i].field, When(missing(i), "RegexExpandGroupOutOfRange"))]
<1>1. PICK n \in Nat : D = 1 .. n
  BY ExpandValuesIs, Zenon
<1>2. ASSUME NEW i \in D PROVE seqs[i] \in Seq(IssueSet)
  <2>1. ExpandValues(r)[i].field \in Fields
    BY ExpandValuesIs
  <2>2. "RegexExpandGroupOutOfRange" \in Reasons
    BY DEF Reasons
  <2>3. missing(i) \in BOOLEAN
    BY Zenon DEF RefersToMissing
  <2>4. seqs[i] = Issue(ExpandValues(r)[i].field, When(missing(i), "RegexExpandGroupOutOfRange"))
    BY Zenon
  <2> HIDE DEF seqs, missing, D
  <2>5. When(missing(i), "RegexExpandGroupOutOfRange") \in Reasons \cup {None}
    BY <2>2, <2>3, WhenIs, Zenon
  <2>6. Issue(ExpandValues(r)[i].field, When(missing(i), "RegexExpandGroupOutOfRange")) \in Seq(IssueSet)
    BY <2>1, <2>5, IssueIs, Zenon
  <2> QED
    BY <2>4, <2>6
<1>3. DOMAIN seqs = 1 .. n /\ seqs = [i \in 1 .. n |-> seqs[i]]
  BY <1>1, Zenon
<1>4. r.kind = "regex" /\ Groups(r.key) # None => WalkRegexKey(r) = FlattenSeq(seqs)
  BY Zenon DEF WalkRegexKey
<1> HIDE DEF seqs
<1>5. FlattenSeq(seqs) \in Seq(IssueSet)
  <2>1. \A i \in 1 .. n : seqs[i] \in Seq(IssueSet)
    BY <1>1, <1>2, Zenon
  <2> QED
    BY <1>3, <2>1, FlatIssues
<1>6. r.kind # "regex" => WalkRegexKey(r) = <<>>
  BY Zenon DEF WalkRegexKey
<1>7. r.kind = "regex" /\ Groups(r.key) = None => WalkRegexKey(r) = Issue("key", "RegexKeyInvalid")
  BY Zenon DEF WalkRegexKey
<1>8. Issue("key", "RegexKeyInvalid") \in Seq(IssueSet)
  <2>1. "key" \in Fields /\ "RegexKeyInvalid" \in Reasons
    BY DEF Fields, Reasons
  <2> QED
    BY <2>1, IssueIs
<1>9. <<>> \in Seq(IssueSet)
  OBVIOUS
<1> QED
  BY <1>4, <1>5, <1>6, <1>7, <1>8, <1>9, Zenon

\* The number of a key that is not a regular expression: at most one placeholder, and no other
\* brace that opens.
LEMMA WalkNumberIs ==
    ASSUME NEW r \in AbbrRule
    PROVE  /\ WalkNumber(r) \in Seq(IssueSet)
           /\ WalkNumber(r) = <<>> /\ r.kind # "regex" =>
                 ~Has(r.key, "{") /\ ~(Cardinality({ i \in DOMAIN r.key : r.key[i] = "{number}" }) > 1)
           /\ WalkNumber(r) = <<>> /\ r.number # None => CheckNumberUnit(r.number) = None
           /\ WalkNumber(r) = <<>> /\ r.kind # "regex" => (r.number # None <=> Has(r.key, "{number}"))
           /\ r.kind = None /\ ~HasBrace(r.key) /\ r.number = None => WalkNumber(r) = <<>>
<1> DEFINE numbers == IF r.kind = "regex" THEN {} ELSE { i \in DOMAIN r.key : r.key[i] = "{number}" }
           A == r.kind # "regex" /\ Has(r.key, "{")
           B == Cardinality(numbers) > 1
           C == numbers # {} /\ r.number = None
           D == numbers = {} /\ r.number # None
           a == Issue("key", When(A, "KeyHasUnknownPlaceholder"))
           b == Issue("key", When(B, "KeyHasMultipleNumberPlaceholders"))
           c == Issue("key", When(C, "KeyHasNumberWithoutUnit"))
           d == Issue("number", When(D, "NumberFieldWithoutKeyPlaceholder"))
           e == IF r.number = None THEN <<>> ELSE Issue("number", CheckNumberUnit(r.number))
<1>1. WalkNumber(r) = a \o b \o c \o d \o e
  BY Zenon DEF WalkNumber
<1>2. /\ {"key", "number"} \subseteq Fields
      /\ {"KeyHasUnknownPlaceholder", "KeyHasMultipleNumberPlaceholders",
          "KeyHasNumberWithoutUnit", "NumberFieldWithoutKeyPlaceholder"} \subseteq Reasons
  BY DEF Fields, Reasons
<1>3. A \in BOOLEAN /\ B \in BOOLEAN /\ C \in BOOLEAN /\ D \in BOOLEAN
  <2> HIDE DEF numbers
  <2> QED OBVIOUS
<1>4. /\ numbers = {} => ~B
      /\ r.kind # "regex" /\ ~B => ~(Cardinality({ i \in DOMAIN r.key : r.key[i] = "{number}" }) > 1)
      /\ r.kind # "regex" /\ ~A => ~Has(r.key, "{")
      /\ r.kind = None /\ ~HasBrace(r.key) => ~A /\ numbers = {}
  <2>1. ~(Cardinality({}) > 1)
    BY FS_EmptySet
  <2>2. numbers = {} => ~B
    BY <2>1, Zenon
  <2>3. r.kind # "regex" => numbers = { i \in DOMAIN r.key : r.key[i] = "{number}" }
    BY Zenon
  <2>4. r.kind = None /\ ~HasBrace(r.key) => ~A /\ numbers = {}
    BY Zenon DEF HasBrace, Has
  <2> QED
    BY <2>2, <2>3, <2>4, Zenon
<1>5. r.number = None => ~D
  BY Zenon
<1>6. numbers = {} => ~C
  BY Zenon
<1>6a. r.kind # "regex" /\ ~C /\ ~D => (r.number # None <=> Has(r.key, "{number}"))
  BY Zenon DEF Has
<1> HIDE DEF numbers, A, B, C, D
<1>7. a \in Seq(IssueSet) /\ (a = <<>> <=> ~A)
  <2>1. When(A, "KeyHasUnknownPlaceholder") \in Reasons \cup {None} /\ (When(A, "KeyHasUnknownPlaceholder") = None <=> ~A)
    BY <1>2, <1>3, WhenIs
  <2> QED
    BY <1>2, <2>1, IssueIs
<1>8. b \in Seq(IssueSet) /\ (b = <<>> <=> ~B)
  <2>1. /\ When(B, "KeyHasMultipleNumberPlaceholders") \in Reasons \cup {None}
        /\ When(B, "KeyHasMultipleNumberPlaceholders") = None <=> ~B
    BY <1>2, <1>3, WhenIs
  <2> QED
    BY <1>2, <2>1, IssueIs
<1>9. c \in Seq(IssueSet) /\ (c = <<>> <=> ~C)
  <2>1. When(C, "KeyHasNumberWithoutUnit") \in Reasons \cup {None} /\ (When(C, "KeyHasNumberWithoutUnit") = None <=> ~C)
    BY <1>2, <1>3, WhenIs
  <2> QED
    BY <1>2, <2>1, IssueIs
<1>10. d \in Seq(IssueSet) /\ (d = <<>> <=> ~D)
  <2>1. /\ When(D, "NumberFieldWithoutKeyPlaceholder") \in Reasons \cup {None}
        /\ When(D, "NumberFieldWithoutKeyPlaceholder") = None <=> ~D
    BY <1>2, <1>3, WhenIs
  <2> QED
    BY <1>2, <2>1, IssueIs
<1>11. e \in Seq(IssueSet) /\ (r.number = None => e = <<>>) /\ (r.number # None /\ e = <<>> => CheckNumberUnit(r.number) = None)
  <2>1. CASE r.number = None
    BY <2>1
  <2>2. CASE r.number # None
    <3>1. r.number \in Text
      BY <2>2 DEF AbbrRule
    <3>2. CheckNumberUnit(r.number) \in Reasons \cup {None}
      BY <3>1, UnitTyped
    <3> QED
      BY <1>2, <2>2, <3>2, IssueIs
  <2> QED
    BY <2>1, <2>2
<1> HIDE DEF a, b, c, d, e
<1>12. a \o b \o c \o d \o e \in Seq(IssueSet)
  BY <1>7, <1>8, <1>9, <1>10, <1>11
<1>13. a \o b \o c \o d \o e = <<>> <=> a = <<>> /\ b = <<>> /\ c = <<>> /\ d = <<>> /\ e = <<>>
  BY <1>7, <1>8, <1>9, <1>10, <1>11
<1> QED
  BY <1>1, <1>4, <1>5, <1>6, <1>6a, <1>7, <1>8, <1>9, <1>10, <1>11, <1>12, <1>13, Zenon

\* What a rule without issues has, and what a plain rule needs to have none.
LEMMA RuleIssuesIs ==
    ASSUME NEW r \in AbbrRule
    PROVE  /\ RuleIssues(r) \in Seq(IssueSet)
           /\ RuleIssues(r) = <<>> => CheckAbbrKey(r.key) = None /\ WalkNumber(r) = <<>>
           /\ RuleIssues(r) = <<>> => WalkExpand(r) = <<>> /\ WalkCmds(r) = <<>> /\ WalkGlobKey(r) = <<>>
           /\ /\ CheckAbbrKey(r.key) = None
              /\ r.kind = None /\ r.number = None /\ r.pwsh = None /\ ~HasBrace(r.key)
              /\ CheckExpandValue(r.expand) = None
              /\ Len(r.when) <= MaxCmds
              /\ \A i \in DOMAIN r.when : CheckCmdEntry(r.when[i]) = None
              => RuleIssues(r) = <<>>
<1> DEFINE a == Issue("key", CheckAbbrKey(r.key))
           b == WalkExpand(r)
           c == WalkCmds(r)
           d == WalkGlobKey(r)
           e == WalkRegexKey(r)
           f == WalkNumber(r)
<1>1. RuleIssues(r) = a \o b \o c \o d \o e \o f
  BY Zenon DEF RuleIssues
<1>2. a \in Seq(IssueSet) /\ (a = <<>> <=> CheckAbbrKey(r.key) = None)
  <2>1. CheckAbbrKey(r.key) \in Reasons \cup {None} /\ "key" \in Fields
    BY TroubleIs DEF CheckAbbrKey, Fields
  <2> QED
    BY <2>1, IssueIs
<1>3. b \in Seq(IssueSet) /\ c \in Seq(IssueSet) /\ d \in Seq(IssueSet) /\ e \in Seq(IssueSet) /\ f \in Seq(IssueSet)
  BY WalkExpandIs, WalkCmdsIs, WalkGlobIs, WalkRegexIs, WalkNumberIs, Zenon
<1>4. None \notin {"glob", "regex"}
  BY MatchingAssumption, Zenon
<1>5. ASSUME r.kind = None, r.number = None, r.pwsh = None, ~HasBrace(r.key),
             CheckExpandValue(r.expand) = None, Len(r.when) <= MaxCmds,
             \A i \in DOMAIN r.when : CheckCmdEntry(r.when[i]) = None
      PROVE  b = <<>> /\ c = <<>> /\ d = <<>> /\ e = <<>> /\ f = <<>>
  <2>1. r.kind # "glob" /\ r.kind # "regex"
    BY <1>4, <1>5
  <2> QED
    BY <1>5, <2>1, WalkExpandIs, WalkCmdsIs, WalkGlobIs, WalkRegexIs, WalkNumberIs, Zenon
<1>5a. b = WalkExpand(r) /\ c = WalkCmds(r) /\ d = WalkGlobKey(r)
  OBVIOUS
<1> HIDE DEF a, b, c, d, e
<1>6. a \o b \o c \o d \o e \o f \in Seq(IssueSet)
  BY <1>2, <1>3
<1>7. a \o b \o c \o d \o e \o f = <<>> <=> a = <<>> /\ b = <<>> /\ c = <<>> /\ d = <<>> /\ e = <<>> /\ f = <<>>
  BY <1>2, <1>3
<1>8. RuleIssues(r) \in Seq(IssueSet)
  BY <1>1, <1>6, Zenon
<1>9. RuleIssues(r) = <<>> => CheckAbbrKey(r.key) = None /\ WalkNumber(r) = <<>>
  BY <1>1, <1>2, <1>7, Zenon
<1>9a. RuleIssues(r) = <<>> => WalkExpand(r) = <<>> /\ WalkCmds(r) = <<>> /\ WalkGlobKey(r) = <<>>
  BY <1>1, <1>5a, <1>7, Zenon
<1>10. CheckAbbrKey(r.key) = None /\ b = <<>> /\ c = <<>> /\ d = <<>> /\ e = <<>> /\ f = <<>> => RuleIssues(r) = <<>>
  BY <1>1, <1>2, <1>7, Zenon
<1> QED
  BY <1>5, <1>8, <1>9, <1>9a, <1>10, Zenon

\* A configuration loads if and only if its bindings do and no rule has an issue, and there are
\* not too many of them.
LEMMA LoadsIs ==
    ASSUME NEW rs \in Seq(AbbrRule), NEW kb
    PROVE  Loads(rs, kb) <=> /\ KeybindError(kb) = None
                             /\ Len(rs) <= MaxRules
                             /\ \A i \in 1 .. Len(rs) : RuleIssues(rs[i]) = <<>>
<1> DEFINE n == Len(rs)
           seqs == [i \in DOMAIN rs |-> RuleIssues(rs[i])]
<1>1. n \in Nat /\ DOMAIN rs = 1 .. n /\ MaxRules \in Nat
  BY LimitsFit
<1>2. ASSUME NEW i \in 1 .. n PROVE seqs[i] = RuleIssues(rs[i]) /\ seqs[i] \in Seq(IssueSet)
  <2>1. rs[i] \in AbbrRule /\ i \in DOMAIN rs
    BY <1>1, <1>2
  <2>2. RuleIssues(rs[i]) \in Seq(IssueSet)
    BY <2>1, RuleIssuesIs
  <2>3. seqs[i] = RuleIssues(rs[i])
    BY <2>1, Zenon
  <2> QED
    BY <2>2, <2>3, Zenon
<1>3. DOMAIN seqs = 1 .. n /\ seqs = [i \in 1 .. n |-> seqs[i]]
  BY <1>1, Zenon
<1>4. ~(n > MaxRules) => Issues(rs) = FlattenSeq(seqs)
  BY Zenon DEF Issues
<1> HIDE DEF seqs
<1>5. FlattenSeq(seqs) \in Seq(IssueSet) /\ (FlattenSeq(seqs) = <<>> <=> \A i \in 1 .. n : seqs[i] = <<>>)
  <2>1. \A i \in 1 .. n : seqs[i] \in Seq(IssueSet)
    BY <1>2, Zenon
  <2> HIDE DEF n
  <2> QED
    BY <1>1, <1>3, <2>1, FlatIssues
<1>6. n > MaxRules => Issues(rs) \in Seq(IssueSet) /\ Issues(rs) # <<>>
  <2>1. n > MaxRules => Issues(rs) = Issue("abbr", "TooManyRules")
    BY Zenon DEF Issues
  <2>2. "abbr" \in Fields /\ "TooManyRules" \in Reasons /\ None \notin Reasons
    BY ReasonsAssumption DEF Fields, Reasons
  <2>3. Issue("abbr", "TooManyRules") \in Seq(IssueSet) /\ Issue("abbr", "TooManyRules") # <<>>
    BY <2>2, IssueIs
  <2> QED
    BY <2>1, <2>3, Zenon
<1>7. Issues(rs) \in Seq(IssueSet)
  BY <1>4, <1>5, <1>6, Zenon
<1>8. FirstIssue(rs) = None <=> Issues(rs) = <<>>
  <2>1. CASE Issues(rs) = <<>>
    BY <2>1, Zenon DEF FirstIssue
  <2>2. CASE Issues(rs) # <<>>
    <3>1. FirstIssue(rs) = Issues(rs)[1].reason
      BY <2>2, Zenon DEF FirstIssue
    <3>2. Issues(rs)[1] \in IssueSet
      BY <1>7, <2>2
    <3>3. Issues(rs)[1].reason \in Reasons
      BY <3>2 DEF IssueSet
    <3>4. None \notin Reasons
      BY ReasonsAssumption, Zenon
    <3> QED
      BY <2>2, <3>1, <3>3, <3>4, Zenon
  <2> QED
    BY <2>1, <2>2
<1>9. Issues(rs) = <<>> <=> ~(n > MaxRules) /\ \A i \in 1 .. n : RuleIssues(rs[i]) = <<>>
  BY <1>2, <1>4, <1>5, <1>6, Zenon
<1>10. n <= MaxRules <=> ~(n > MaxRules)
  BY <1>1
<1> QED
  BY <1>8, <1>9, <1>10, Zenon DEF Loads

\* What `add` asks of a rule is what the load asks, but for the braces of its key.
LEMMA AddKeepsLoading ==
    ASSUME RuleInv, NEW r \in Addable, Add(r)
    PROVE  Loads(rules', keybind) \/ HasBrace(r.key)
<1> SUFFICES ASSUME ~HasBrace(r.key) PROVE Loads(rules', keybind)
  OBVIOUS
<1>1. rules \in Seq(AbbrRule) /\ rules' = Append(rules, r)
  BY Zenon DEF RuleInv, Add
<1>2. r \in AbbrRule /\ r.kind = None /\ r.number = None /\ r.pwsh = None
  BY LifeAssumption, Zenon
<1>3. /\ CheckAbbrKey(r.key) = None
      /\ CheckExpandValue(r.expand) = None
      /\ Len(r.when) <= MaxCmds
      /\ \A i \in DOMAIN r.when : CheckCmdEntry(r.when[i]) = None
      /\ Loads(rules, keybind)
      /\ Len(rules) + 1 <= MaxRules
  BY Zenon DEF Add, AddAccepts
<1>4. KeybindError(keybind) = None /\ \A i \in 1 .. Len(rules) : RuleIssues(rules[i]) = <<>>
  BY <1>1, <1>3, LoadsIs
<1>5. RuleIssues(r) = <<>>
  BY <1>2, <1>3, RuleIssuesIs, Zenon
<1> DEFINE new == Append(rules, r)
           n == Len(rules)
<1>6. /\ new \in Seq(AbbrRule) /\ Len(new) = n + 1 /\ n \in Nat
      /\ new[n + 1] = r
      /\ \A i \in 1 .. n : new[i] = rules[i]
      /\ \A i \in 1 .. n + 1 : i \in 1 .. n \/ i = n + 1
  BY <1>1, <1>2
<1> HIDE DEF new, n
<1>7. \A i \in 1 .. Len(new) : RuleIssues(new[i]) = <<>>
  BY <1>4, <1>5, <1>6, Zenon DEF n
<1>8. Len(new) <= MaxRules
  BY <1>3, <1>6 DEF n
<1>9. Loads(new, keybind)
  BY <1>4, <1>6, <1>7, <1>8, LoadsIs, Zenon
<1> QED
  BY <1>1, <1>9, Zenon DEF new

\* Whatever rule `add` is called with, and whatever it found in the file: what it writes loads,
\* but for a key with a brace.
THEOREM AddedRulesLoad == Spec => AddBreaksOnlyByBraces
<1>1. RuleInv /\ [Next]_vars => [\A r \in Addable : Add(r) => Loads(rules', keybind) \/ HasBrace(r.key)]_vars
  BY AddKeepsLoading
<1> QED
  BY <1>1, AlwaysRuleInv, PTL DEF Spec, AddBreaksOnlyByBraces

-----------------------------------------------------------------------------
Marked(w, text, c) == w = SubSeq(text, 1, c) \o <<"{", "}">> \o From(text, c + 1)

\* A text with the marker put in at a caret: the marker is a `{}` of it, and what is first of
\* all is that one, or it was there.
LEMMA MarkerIs ==
    ASSUME NEW text \in Text, NEW c \in 0 .. Len(text), NEW w, Marked(w, text, c)
    PROVE  /\ w \in Text
           /\ FirstCursor(w) # None
           /\ \/ FirstCursor(text) # None
              \/ FirstCursor(w) = c + 1 /\ text = Before(w, c + 1) \o From(w, c + 3)
<1> DEFINE n == Len(text)
           left == SubSeq(text, 1, c)
           right == From(text, c + 1)
           marker == <<"{", "}">>
           i == FirstCursor(w)
<1>0. "{" \in Symbols /\ "}" \in Symbols
  BY MatchingAssumption, Zenon
<1>1. n \in Nat /\ c \in Nat /\ c <= n
  <2>1. n \in Nat
    BY DEF Text
  <2> QED
    BY <2>1
<1>2. left = Before(text, c + 1)
  <2>1. (c + 1) - 1 = c
    BY <1>1
  <2> QED
    BY <2>1, Zenon DEF Before
<1>3. /\ left \in Seq(Symbols) /\ Len(left) = c /\ \A k \in 1 .. c : left[k] = text[k]
      /\ right \in Seq(Symbols) /\ Len(right) = n - c /\ \A k \in 1 .. n - c : right[k] = text[c + k]
  <2>1. c + 1 \in 1 .. n + 1 /\ (c + 1) - 1 = c /\ n - (c + 1) + 1 = n - c
        /\ \A k \in 1 .. n - c : (c + 1) + k - 1 = c + k
    <3> HIDE DEF n
    <3> QED BY <1>1
  <2>2. /\ left \in Text /\ Len(left) = c /\ \A k \in 1 .. c : left[k] = text[k]
    <3> HIDE DEF left
    <3> QED BY <1>2, <2>1, SidesTyped, ZenonT(60)
  <2>3. /\ right \in Text /\ Len(right) = n - c /\ \A k \in 1 .. n - c : right[k] = text[(c + 1) + k - 1]
    BY <2>1, SidesTyped, ZenonT(60)
  <2> HIDE DEF left, right
  <2> QED
    BY <2>1, <2>2, <2>3 DEF Text
<1>4. marker \in Seq(Symbols) /\ Len(marker) = 2 /\ marker[1] = "{" /\ marker[2] = "}"
  BY <1>0, PairTyped, Zenon
<1>5. w = (left \o marker) \o right
  BY Zenon DEF Marked
<1> HIDE DEF left, right, marker, n
<1> DEFINE two == left \o marker
<1>6. /\ two \in Seq(Symbols) /\ Len(two) = c + 2
      /\ \A k \in 1 .. c : two[k] = text[k]
      /\ two[c + 1] = "{" /\ two[c + 2] = "}"
  <2>1. /\ two \in Seq(Symbols) /\ Len(two) = c + 2
        /\ \A k \in 1 .. c : two[k] = left[k]
        /\ \A k \in 1 .. 2 : two[c + k] = marker[k]
    <3>1. /\ two \in Seq(Symbols) /\ Len(two) = Len(left) + Len(marker)
          /\ \A k \in 1 .. Len(left) : two[k] = left[k]
          /\ \A k \in 1 .. Len(marker) : two[Len(left) + k] = marker[k]
      <4>1. left \in Seq(Symbols) /\ marker \in Seq(Symbols)
        BY <1>3, <1>4, Zenon
      <4> QED
        BY <4>1, JoinIs
    <3> HIDE DEF two
    <3> QED
      BY <1>3, <1>4, <3>1, Zenon
  <2> HIDE DEF two
  <2>2. 1 \in 1 .. 2 /\ 2 \in 1 .. 2
    OBVIOUS
  <2> QED
    BY <1>3, <1>4, <2>1, <2>2, Zenon
<1>7. w = two \o right
  BY <1>5, Zenon
<1> HIDE DEF two
<1>8. /\ w \in Seq(Symbols) /\ Len(w) = n + 2
      /\ \A k \in 1 .. c : w[k] = text[k]
      /\ w[c + 1] = "{" /\ w[c + 2] = "}"
      /\ \A k \in 1 .. n - c : w[c + 2 + k] = text[c + k]
  <2>1. /\ w \in Seq(Symbols) /\ Len(w) = Len(two) + Len(right)
        /\ \A k \in 1 .. Len(two) : w[k] = two[k]
        /\ \A k \in 1 .. Len(right) : w[Len(two) + k] = right[k]
    <3>1. two \in Seq(Symbols) /\ right \in Seq(Symbols)
      BY <1>3, <1>6, Zenon
    <3>2. /\ two \o right \in Seq(Symbols) /\ Len(two \o right) = Len(two) + Len(right)
          /\ \A k \in 1 .. Len(two) : (two \o right)[k] = two[k]
          /\ \A k \in 1 .. Len(right) : (two \o right)[Len(two) + k] = right[k]
      BY <3>1, JoinIs
    <3> QED
      BY <1>7, <3>2, Zenon
  <2>2. Len(w) = n + 2
    <3>1. Len(w) = (c + 2) + (n - c)
      BY <1>3, <1>6, <2>1, Zenon
    <3> QED
      BY <1>1, <3>1
  <2>3. /\ \A k \in 1 .. c + 2 : w[k] = two[k]
        /\ \A k \in 1 .. n - c : w[c + 2 + k] = text[c + k]
    <3>1. /\ Len(two) = c + 2 /\ Len(right) = n - c
          /\ \A k \in 1 .. n - c : right[k] = text[c + k]
      BY <1>3, <1>6, Zenon
    <3>2. \A k \in 1 .. c + 2 : w[k] = two[k]
      BY <2>1, <3>1, Zenon
    <3>3. \A k \in 1 .. n - c : w[c + 2 + k] = right[k]
      BY <2>1, <3>1
    <3> QED
      BY <3>1, <3>2, <3>3, Zenon
  <2>4. c + 1 \in 1 .. c + 2 /\ c + 2 \in 1 .. c + 2 /\ \A k \in 1 .. c : k \in 1 .. c + 2
    BY <1>1
  <2> QED
    BY <1>6, <2>1, <2>2, <2>3, <2>4, Zenon
<1>9. w \in Text
  BY <1>8, Zenon DEF Text
<1>10. c + 1 \in CursorAt(w)
  <2>0. Len(w) = n + 2
    BY <1>8, Zenon
  <2>1. c + 1 \in 1 .. Len(w) - 1 /\ (c + 1) + 1 = c + 2
    BY <1>1, <2>0
  <2>2. w[c + 1] = "{" /\ w[(c + 1) + 1] = "}"
    BY <1>8, <2>1, Zenon
  <2> QED
    BY <2>1, <2>2, Zenon DEF CursorAt
<1>11. i # None /\ i \in CursorAt(w) /\ i <= c + 1 /\ i \in 1 .. Len(w) - 1
  BY <1>9, <1>10, FirstCursorIs
<1>12. w[i] = "{" /\ w[i + 1] = "}"
  BY <1>11, Zenon DEF CursorAt
<1> HIDE DEF i
<1>13. ASSUME i # c + 1 PROVE FirstCursor(text) # None
  <2>1. i \in 1 .. c /\ i + 1 \in 1 .. c + 1
    BY <1>1, <1>11, <1>13
  <2>2. i # c
    BY <1>8, <1>12, "{" # "}", Zenon
  <2>3. i + 1 \in 1 .. c /\ i \in 1 .. n - 1
    BY <1>1, <2>1, <2>2
  <2>4. text[i] = "{" /\ text[i + 1] = "}"
    BY <1>8, <1>12, <2>1, <2>3, Zenon
  <2>5. i \in CursorAt(text)
    <3>1. i \in 1 .. Len(text) - 1
      BY <2>3 DEF n
    <3> QED
      BY <2>4, <3>1, Zenon DEF CursorAt
  <2> QED
    BY <2>5, FirstCursorIs
<1>14. text = Before(w, c + 1) \o From(w, c + 3)
  <2> DEFINE p == Before(w, c + 1)
             q == From(w, c + 3)
  <2>0. Len(w) = n + 2
    BY <1>8, Zenon
  <2>1. c + 1 \in 1 .. Len(w) + 1 /\ c + 3 \in 1 .. Len(w) + 1 /\ (c + 1) - 1 = c /\ Len(w) - (c + 3) + 1 = n - c
        /\ \A k \in 1 .. n - c : (c + 3) + k - 1 = c + 2 + k
    BY <1>1, <2>0
  <2>2. p \in Text /\ Len(p) = c /\ \A k \in 1 .. c : p[k] = w[k]
    BY <1>9, <2>1, SidesTyped
  <2>3. q \in Text /\ Len(q) = n - c /\ \A k \in 1 .. n - c : q[k] = w[(c + 3) + k - 1]
    BY <1>9, <2>1, SidesTyped
  <2> HIDE DEF p, q
  <2>4. \A k \in 1 .. c : p[k] = text[k]
    BY <1>8, <2>2, Zenon
  <2>5. \A k \in 1 .. n - c : q[k] = text[c + k]
    BY <1>8, <2>1, <2>3, Zenon
  <2> DEFINE pq == p \o q
  <2>6. /\ pq \in Seq(Symbols) /\ Len(pq) = n
        /\ \A k \in 1 .. c : pq[k] = p[k]
        /\ \A k \in 1 .. n - c : pq[c + k] = q[k]
    <3>1. /\ pq \in Seq(Symbols) /\ Len(pq) = Len(p) + Len(q)
          /\ \A k \in 1 .. Len(p) : pq[k] = p[k]
          /\ \A k \in 1 .. Len(q) : pq[Len(p) + k] = q[k]
      <4>1. p \in Seq(Symbols) /\ q \in Seq(Symbols)
        BY <2>2, <2>3 DEF Text
      <4> QED
        BY <4>1, JoinIs
    <3> HIDE DEF pq
    <3>2. Len(pq) = n
      BY <1>1, <2>2, <2>3, <3>1
    <3> QED
      BY <2>2, <2>3, <3>1, <3>2, Zenon
  <2> HIDE DEF pq
  <2>7. ASSUME NEW k \in 1 .. n PROVE pq[k] = text[k]
    <3>1. CASE k <= c
      <4>1. k \in 1 .. c
        BY <1>1, <3>1
      <4> QED
        BY <2>4, <2>6, <4>1
    <3>2. CASE c < k
      <4>1. k - c \in 1 .. n - c /\ c + (k - c) = k
        BY <1>1, <3>2
      <4>2. pq[c + (k - c)] = text[c + (k - c)]
        BY <2>5, <2>6, <4>1, Zenon
      <4> QED
        BY <4>1, <4>2
    <3>3. k \in Int /\ c \in Int
      BY <1>1
    <3> QED
      BY <3>1, <3>2, <3>3
  <2>8. text \in Seq(Symbols)
    BY DEF Text
  <2>9. pq = text
    <3>1. Len(text) = n
      BY DEF n
    <3> QED
      BY <2>6, <2>7, <2>8, <3>1, SeqEqual
  <2> QED
    BY <2>9 DEF pq, p, q
<1> QED
  BY <1>9, <1>11, <1>13, <1>14 DEF i

\* What is known of a press: a rule that loads, a token, and what was made of it.
LEMMA PressedIs ==
    ASSUME RuleInv, stage = "pressed"
    PROVE  /\ rule \in AbbrRule /\ token \in Text
           /\ runex = Fires(rule, token) /\ which = Which(rule, token)
           /\ RuleIssues(rule) = <<>>
<1>1. /\ rules \in Seq(AbbrRule) /\ Len(rules) = 1 /\ token \in Tokens /\ Loads(rules, keybind)
      /\ runex = Fires(rules[1], token) /\ which = Which(rules[1], token)
  BY DEF RuleInv, Final
<1>2. rules[1] \in AbbrRule /\ 1 \in 1 .. Len(rules)
  BY <1>1
<1>3. Tokens \subseteq Text
  BY LifeAssumption, Zenon
<1>4. RuleIssues(rules[1]) = <<>>
  BY <1>1, <1>2, LoadsIs, Zenon
<1> QED
  BY <1>1, <1>2, <1>3, <1>4, Zenon DEF rule

\* A rule whose key is taken as it is has no answer for a token that is too long.
LEMMA TooLongIsNoKey ==
    ASSUME NEW r \in AbbrRule, RuleIssues(r) = <<>>, NEW t \in Text, Len(t) > MaxToken, Phase(r) = "exact"
    PROVE  Fires(r, t) = None
<1>1. CheckAbbrKey(r.key) = None
  BY RuleIssuesIs
<1>2. ~(Len(r.key) > MaxKey)
  BY <1>1, TroubleIs, Zenon DEF CheckAbbrKey
<1>3. r.key # t
  <2>1. MaxToken = MaxKey
    BY LifeAssumption, Zenon
  <2> QED
    BY <1>2, <2>1
<1>4. r.kind = None /\ ~HasBrace(r.key)
  BY PhaseIs
<1>5. ~SplitsOnce(r.key)
  BY <1>4, Zenon DEF SplitsOnce, HasBrace
<1>6. Match(r, t) = None
  BY <1>3, <1>4, <1>5, MatchCases, Zenon
<1> QED
  BY <1>6, Zenon DEF Fires

\* The three answers of `which`.
LEMMA WhichCases ==
    ASSUME NEW r, NEW t \in Text
    PROVE  /\ Len(t) > MaxToken => Which(r, t) = TooLong
           /\ Len(t) <= MaxToken /\ Fires(r, t) # None => Which(r, t) = WithCursorMarker(Fires(r, t))
           /\ Len(t) <= MaxToken /\ Fires(r, t) = None => Which(r, t) = None
           /\ Len(t) > MaxToken \/ Len(t) <= MaxToken
<1>1. Len(t) \in Nat /\ MaxToken \in Nat
  <2>1. MaxToken = MaxKey
    BY LifeAssumption, Zenon
  <2>2. MaxKey \in Nat
    BY LimitsFit
  <2> QED
    BY <2>1, <2>2 DEF Text
<1>2. Len(t) > MaxToken <=> ~(Len(t) <= MaxToken)
  BY <1>1
<1> QED
  BY <1>2, Zenon DEF Which

\* What `which` shows is what the key makes of the token.
LEMMA WhichTells == RuleInv => WhichIsTrue
<1> SUFFICES ASSUME RuleInv, stage = "pressed"
             PROVE  CASE which = TooLong -> runex = None \/ Phase(rule) # "exact"
                      [] which # TooLong /\ which # None ->
                            LET i == FirstCursor(which) IN
                            \/ i = None /\ runex = [text |-> which, cursor |-> None]
                            \/ i # None /\ runex = [text |-> Before(which, i) \o From(which, i + 2), cursor |-> i - 1]
                            \/ FirstCursor(runex.text) # None
                      [] OTHER -> runex = None
  BY DEF WhichIsTrue
<1>1. /\ rule \in AbbrRule /\ token \in Text
      /\ runex = Fires(rule, token) /\ which = Which(rule, token)
      /\ RuleIssues(rule) = <<>>
  BY PressedIs
<1>2. TooLong # None /\ TooLong \notin Text /\ None \notin Text
  BY LifeAssumption, MatchingAssumption, Zenon
<1>3. CASE Len(token) > MaxToken
  <2>1. which = TooLong
    BY <1>1, <1>3, WhichCases
  <2>2. runex = None \/ Phase(rule) # "exact"
    BY <1>1, <1>3, TooLongIsNoKey
  <2> QED
    BY <2>1, <2>2, Zenon
<1>4. CASE Len(token) <= MaxToken /\ runex = None
  <2>1. which = None /\ which # TooLong
    BY <1>1, <1>2, <1>4, WhichCases, Zenon
  <2> QED
    BY <1>4, <2>1, Zenon
<1>5. CASE Len(token) <= MaxToken /\ runex # None
  <2>1. which = WithCursorMarker(runex)
    BY <1>1, <1>5, WhichCases, Zenon
  <2>2a. PICK text \in Text : \E cursor \in (0 .. Len(text)) \cup {None} : runex = [text |-> text, cursor |-> cursor]
    <3>1. Fires(rule, token) # None
      BY <1>1, <1>5
    <3>2. Match(rule, token) # None /\ Render(rule, Match(rule, token)) # None /\ runex = Render(rule, Match(rule, token))
      BY <1>1, <3>1, FiresIs, Zenon
    <3>3. Match(rule, token) \in Bindings
      BY <1>1, <3>2, MatchTyped
    <3> QED
      BY <1>1, <3>2, <3>3, RenderTyped, SMTT(60)
  <2>2. PICK cursor \in (0 .. Len(text)) \cup {None} : runex = [text |-> text, cursor |-> cursor]
    BY <2>2a, Zenon
  <2>3. runex.text = text /\ runex.cursor = cursor
    BY <2>2
  <2>4. CASE cursor = None
    <3>1. which = text
      BY <2>1, <2>3, <2>4, Zenon DEF WithCursorMarker
    <3>2. which # TooLong /\ which # None
      BY <1>2, <3>1
    <3>3. runex = [text |-> which, cursor |-> None]
      BY <2>2, <2>4, <3>1
    <3>4. FirstCursor(which) = None \/ FirstCursor(runex.text) # None
      BY <2>3, <3>1
    <3> QED
      BY <3>2, <3>3, <3>4, Zenon
  <2>5. CASE cursor # None
    <3>1. which = SubSeq(text, 1, cursor) \o <<"{", "}">> \o From(text, cursor + 1)
      BY <2>1, <2>3, <2>5, Zenon DEF WithCursorMarker
    <3>2. cursor \in 0 .. Len(text)
      BY <2>5
    <3>3. /\ which \in Text
          /\ FirstCursor(which) # None
          /\ \/ FirstCursor(text) # None
             \/ FirstCursor(which) = cursor + 1 /\ text = Before(which, cursor + 1) \o From(which, cursor + 3)
      <4>1. Marked(which, text, cursor)
        BY <3>1, Zenon DEF Marked
      <4> QED
        BY <3>2, <4>1, MarkerIs
    <3>4. which # TooLong /\ which # None
      BY <1>2, <3>3
    <3>5. CASE FirstCursor(text) # None
      BY <2>3, <3>4, <3>5, Zenon
    <3>6. CASE FirstCursor(which) = cursor + 1 /\ text = Before(which, cursor + 1) \o From(which, cursor + 3)
      <4>1. (cursor + 1) + 2 = cursor + 3 /\ (cursor + 1) - 1 = cursor
        BY <3>2
      <4>2. runex = [text |-> Before(which, cursor + 1) \o From(which, (cursor + 1) + 2), cursor |-> (cursor + 1) - 1]
        BY <2>2, <3>6, <4>1, Zenon
      <4>3. FirstCursor(which) = cursor + 1
        BY <3>6
      <4> QED
        BY <3>3, <3>4, <4>2, <4>3, Zenon
    <3> QED
      BY <3>3, <3>5, <3>6
  <2> QED
    BY <2>4, <2>5
<1>6. Len(token) > MaxToken \/ Len(token) <= MaxToken
  BY <1>1, WhichCases
<1> QED
  BY <1>3, <1>4, <1>5, <1>6, Zenon

\* Whatever the rule and the token: what `which` shows is what the key makes of it, caret and all.
THEOREM WhichTellsTheTruth == Spec => []WhichIsTrue
BY AlwaysRuleInv, WhichTells, PTL

-----------------------------------------------------------------------------
\* A text of three parts is put together of them.
LEMMA SamePartsIs ==
    ASSUME NEW a \in Text, NEW b \in Text, NEW c \in Text, NEW t \in Text, SameParts(a, b, c, t)
    PROVE  t = a \o b \o c
<1> DEFINE u == a \o b \o c
<1>1. u \in Text /\ SameParts(a, b, c, u)
  BY ThreeParts
<1> HIDE DEF u
<1>2. Len(a) \in Nat /\ Len(b) \in Nat /\ Len(c) \in Nat /\ Len(t) \in Nat /\ Len(u) \in Nat
  BY <1>1 DEF Text
<1>3. /\ Len(a) + Len(b) + Len(c) = Len(t) /\ Len(a) + Len(b) + Len(c) = Len(u)
      /\ \A k \in 1 .. Len(a) : t[k] = u[k]
      /\ \A k \in 1 .. Len(b) : t[Len(a) + k] = u[Len(a) + k]
      /\ \A k \in 1 .. Len(c) : t[Len(a) + Len(b) + k] = u[Len(a) + Len(b) + k]
  BY <1>1, Zenon DEF SameParts
<1>4. Len(t) = Len(u)
  BY <1>2, <1>3
<1>5. ASSUME NEW k \in 1 .. Len(t) PROVE t[k] = u[k]
  <2>1. CASE k <= Len(a)
    BY <1>2, <1>3, <2>1
  <2>2. CASE Len(a) < k /\ k <= Len(a) + Len(b)
    <3>1. k - Len(a) \in 1 .. Len(b) /\ Len(a) + (k - Len(a)) = k
      BY <1>2, <2>2
    <3>2. t[Len(a) + (k - Len(a))] = u[Len(a) + (k - Len(a))]
      BY <1>3, <3>1, Zenon
    <3> QED
      BY <3>1, <3>2
  <2>3. CASE Len(a) + Len(b) < k
    <3>1. k - (Len(a) + Len(b)) \in 1 .. Len(c) /\ Len(a) + Len(b) + (k - (Len(a) + Len(b))) = k
      BY <1>2, <1>3, <2>3
    <3>2. t[Len(a) + Len(b) + (k - (Len(a) + Len(b)))] = u[Len(a) + Len(b) + (k - (Len(a) + Len(b)))]
      BY <1>3, <3>1, Zenon
    <3> QED
      BY <3>1, <3>2
  <2>4. k \in Int /\ (k <= Len(a) \/ (Len(a) < k /\ k <= Len(a) + Len(b)) \/ Len(a) + Len(b) < k)
    BY <1>2
  <2> QED
    BY <2>1, <2>2, <2>3, <2>4
<1>6. t = u
  <2>1. t \in Seq(Symbols) /\ u \in Seq(Symbols)
    BY <1>1 DEF Text
  <2> QED
    BY <1>4, <1>5, <2>1, SeqEqual
<1> QED
  BY <1>6 DEF u

\* A key of three parts matches if each part fits.
LEMMA FixedParts ==
    ASSUME NEW a \in Text, NEW b \in Text, NEW c \in Text, NEW t \in Text, Len(a) + Len(b) + Len(c) = Len(t)
    PROVE  FixedPartMatches(a \o b \o c, t) <=>
              /\ FixedPartMatches(a, SubSeq(t, 1, Len(a)))
              /\ FitsAt(b, t, Len(a))
              /\ FixedPartMatches(c, From(t, (Len(t) - Len(c)) + 1))
<1> DEFINE u == a \o b \o c
           x == SubSeq(t, 1, Len(a))
           y == From(t, (Len(t) - Len(c)) + 1)
<1>1. u \in Text /\ SameParts(a, b, c, u)
  BY ThreeParts
<1> HIDE DEF u
<1>2. Len(a) \in Nat /\ Len(b) \in Nat /\ Len(c) \in Nat /\ Len(t) \in Nat /\ Len(u) \in Nat
  BY <1>1 DEF Text
<1>3. FixedPartMatches(u, t) <=> FitsAt(u, t, 0)
  <2>1. Len(t) = Len(u)
    BY <1>1, <1>2, Zenon DEF SameParts
  <2>2. \A k \in 1 .. Len(u) : t[k] = t[0 + k]
    BY <1>2
  <2> QED
    BY <1>1, <2>1, <2>2, FixedIs
<1>4. FixedPartMatches(a, x) <=> FitsAt(a, t, 0)
  <2>1. x \in Text /\ Len(x) = Len(a) /\ \A k \in 1 .. Len(a) : x[k] = t[0 + k]
    <3> DEFINE m == Len(a)
               part == SubSeq(t, 1, m)
    <3>1. 1 \in 1 .. Len(t) + 1 /\ m \in 0 .. Len(t) /\ \A k \in 1 .. m : 1 + k - 1 = 0 + k
      BY <1>2
    <3>2. t \in Seq(Symbols)
      BY DEF Text
    <3>3. x = part
      BY Zenon
    <3> HIDE DEF m, x
    <3>4. part \in Seq(Symbols) /\ Len(part) = (IF 1 <= m THEN m - 1 + 1 ELSE 0)
          /\ \A k \in 1 .. Len(part) : part[k] = t[1 + k - 1]
      BY <3>1, <3>2, PartTyped
    <3> HIDE DEF part
    <3>5. Len(part) = m
      BY <3>1, <3>4
    <3>6. \A k \in 1 .. m : part[k] = t[0 + k]
      BY <3>1, <3>4, <3>5
    <3> QED
      BY <3>3, <3>4, <3>5, <3>6, Zenon DEF Text, m
  <2> HIDE DEF x
  <2> QED
    BY <2>1, FixedIs
<1>5. FixedPartMatches(c, y) <=> FitsAt(c, t, Len(a) + Len(b))
  <2>1. y \in Text /\ Len(y) = Len(c) /\ \A k \in 1 .. Len(c) : y[k] = t[(Len(a) + Len(b)) + k]
    <3> DEFINE i == (Len(t) - Len(c)) + 1
    <3>1. i \in 1 .. Len(t) + 1 /\ Len(t) - i + 1 = Len(c) /\ \A k \in 1 .. Len(c) : i + k - 1 = (Len(a) + Len(b)) + k
      BY <1>2
    <3> HIDE DEF i
    <3>2. From(t, i) \in Text /\ Len(From(t, i)) = Len(t) - i + 1 /\ \A k \in 1 .. Len(t) - i + 1 : From(t, i)[k] = t[i + k - 1]
      BY <3>1, SidesTyped, Zenon
    <3>3. y = From(t, i)
      BY DEF i
    <3> HIDE DEF y
    <3> QED
      BY <3>1, <3>2, <3>3, Zenon
  <2> HIDE DEF y
  <2> QED
    BY <2>1, FixedIs
<1>6. FitsAt(u, t, 0) <=> FitsAt(a, t, 0) /\ FitsAt(b, t, Len(a)) /\ FitsAt(c, t, Len(a) + Len(b))
  <2>1. /\ Len(a) + Len(b) + Len(c) = Len(u)
        /\ \A k \in 1 .. Len(a) : a[k] = u[k]
        /\ \A k \in 1 .. Len(b) : b[k] = u[Len(a) + k]
        /\ \A k \in 1 .. Len(c) : c[k] = u[Len(a) + Len(b) + k]
    BY <1>1, Zenon DEF SameParts
  <2>2. ASSUME FitsAt(u, t, 0) PROVE FitsAt(a, t, 0) /\ FitsAt(b, t, Len(a)) /\ FitsAt(c, t, Len(a) + Len(b))
    <3>1. \A k \in 1 .. Len(u) : u[k] = "?" \/ u[k] = t[k]
      BY <1>2, <2>2 DEF FitsAt
    <3>2. ASSUME NEW k \in 1 .. Len(a) PROVE a[k] = "?" \/ a[k] = t[0 + k]
      <4>1. k \in 1 .. Len(u) /\ 0 + k = k
        BY <1>2, <2>1
      <4> QED
        BY <2>1, <3>1, <4>1
    <3>3. ASSUME NEW k \in 1 .. Len(b) PROVE b[k] = "?" \/ b[k] = t[Len(a) + k]
      <4>1. Len(a) + k \in 1 .. Len(u)
        BY <1>2, <2>1
      <4> QED
        BY <2>1, <3>1, <4>1
    <3>4. ASSUME NEW k \in 1 .. Len(c) PROVE c[k] = "?" \/ c[k] = t[(Len(a) + Len(b)) + k]
      <4>1. (Len(a) + Len(b)) + k \in 1 .. Len(u)
        BY <1>2, <2>1
      <4> QED
        BY <2>1, <3>1, <4>1, Zenon
    <3> QED
      BY <3>2, <3>3, <3>4, Zenon DEF FitsAt
  <2>3. ASSUME FitsAt(a, t, 0), FitsAt(b, t, Len(a)), FitsAt(c, t, Len(a) + Len(b)) PROVE FitsAt(u, t, 0)
    <3>1. ASSUME NEW k \in 1 .. Len(u) PROVE u[k] = "?" \/ u[k] = t[0 + k]
      <4>1. CASE k <= Len(a)
        <5>1. k \in 1 .. Len(a)
          BY <1>2, <4>1
        <5> QED
          BY <2>1, <2>3, <5>1, Zenon DEF FitsAt
      <4>2. CASE Len(a) < k /\ k <= Len(a) + Len(b)
        <5>1. k - Len(a) \in 1 .. Len(b) /\ Len(a) + (k - Len(a)) = k /\ 0 + k = k
          BY <1>2, <4>2
        <5>2. b[k - Len(a)] = "?" \/ b[k - Len(a)] = t[Len(a) + (k - Len(a))]
          BY <2>3, <5>1, Zenon DEF FitsAt
        <5>3. b[k - Len(a)] = u[Len(a) + (k - Len(a))]
          BY <2>1, <5>1, Zenon
        <5> QED
          BY <5>1, <5>2, <5>3
      <4>3. CASE Len(a) + Len(b) < k
        <5> DEFINE j == k - (Len(a) + Len(b))
        <5>1. j \in 1 .. Len(c) /\ (Len(a) + Len(b)) + j = k /\ 0 + k = k
          BY <1>2, <2>1, <4>3
        <5> HIDE DEF j
        <5>2. c[j] = "?" \/ c[j] = t[(Len(a) + Len(b)) + j]
          BY <2>3, <5>1, Zenon DEF FitsAt
        <5>3. c[j] = u[Len(a) + Len(b) + j]
          BY <2>1, <5>1, Zenon
        <5> QED
          BY <5>1, <5>2, <5>3
      <4>4. k \in Int /\ (k <= Len(a) \/ (Len(a) < k /\ k <= Len(a) + Len(b)) \/ Len(a) + Len(b) < k)
        BY <1>2
      <4> QED
        BY <4>1, <4>2, <4>3, <4>4
    <3> QED
      BY <3>1, Zenon DEF FitsAt
  <2> QED
    BY <2>2, <2>3
<1> QED
  BY <1>3, <1>4, <1>5, <1>6, Zenon DEF u

\* A glob key matches a token if and only if it becomes the token with some text for its star.
LEMMA GlobIs ==
    ASSUME NEW key \in Text, NEW t \in Text
    PROVE  /\ GlobCapture(key, t) # None => FixedPartMatches(Instance(key, GlobCapture(key, t)), t)
           /\ \A c \in Text : FixedPartMatches(Instance(key, c), t) => GlobCapture(key, t) # None
<1>0. None \notin Text
  BY MatchingAssumption, Zenon
<1>1. CASE ~Has(key, "*")
  <2>1. GlobCapture(key, t) = IF FixedPartMatches(key, t) THEN <<>> ELSE None
    BY <1>1, Zenon DEF GlobCapture
  <2>2. \A c : Instance(key, c) = key
    BY <1>1, Zenon DEF Instance
  <2>3. <<>> # None
    <3>1. <<>> \in Text
      BY DEF Text
    <3> QED
      BY <1>0, <3>1
  <2> QED
    BY <2>1, <2>2, <2>3, Zenon
<1>2. CASE Has(key, "*")
  <2> DEFINE head == Before(key, First(key, "*"))
             tail == From(key, First(key, "*") + 1)
             end == Len(t) - Len(tail)
             cond == /\ Len(head) <= end
                     /\ FixedPartMatches(head, SubSeq(t, 1, Len(head)))
                     /\ FixedPartMatches(tail, From(t, end + 1))
             mid == SubSeq(t, Len(head) + 1, end)
  <2>1. GlobCapture(key, t) = IF cond THEN mid ELSE None
    BY <1>2, Zenon DEF GlobCapture
  <2>2. \A c : Instance(key, c) = head \o c \o tail
    BY <1>2, Zenon DEF Instance
  <2>3. head \in Text /\ tail \in Text
    <3>1. First(key, "*") \in 1 .. Len(key) /\ Len(key) \in Nat
      BY <1>2, FirstIs DEF Text
    <3>2. First(key, "*") \in 1 .. Len(key) + 1 /\ First(key, "*") + 1 \in 1 .. Len(key) + 1
      BY <3>1
    <3> QED
      BY <3>2, SidesTyped
  <2> HIDE DEF head, tail
  <2>4. Len(head) \in Nat /\ Len(tail) \in Nat /\ Len(t) \in Nat
    BY <2>3 DEF Text
  <2>5. ASSUME cond
        PROVE  mid \in Text /\ FixedPartMatches(head \o mid \o tail, t)
    <3>1. Len(head) <= end
      BY <2>5
    <3>2. Len(head) + 1 \in 1 .. Len(t) + 1 /\ end \in 0 .. Len(t)
      BY <2>4, <3>1
    <3>3. /\ mid \in Seq(Symbols)
          /\ Len(mid) = IF Len(head) + 1 <= end THEN end - (Len(head) + 1) + 1 ELSE 0
          /\ \A k \in 1 .. Len(mid) : mid[k] = t[(Len(head) + 1) + k - 1]
      <4>1. t \in Seq(Symbols)
        BY DEF Text
      <4> HIDE DEF end
      <4> QED
        BY <3>2, <4>1, PartTyped
    <3> HIDE DEF mid
    <3>4. Len(head) + Len(mid) + Len(tail) = Len(t)
      BY <2>4, <3>1, <3>3
    <3>5. FitsAt(mid, t, Len(head))
      <4>1. \A k \in 1 .. Len(mid) : (Len(head) + 1) + k - 1 = Len(head) + k
        BY <2>4
      <4> QED
        BY <3>3, <4>1, Zenon DEF FitsAt
    <3>6. mid \in Text
      BY <3>3 DEF Text
    <3> QED
      BY <2>3, <2>5, <3>4, <3>5, <3>6, FixedParts, Zenon
  <2>6. ASSUME NEW c \in Text, FixedPartMatches(head \o c \o tail, t) PROVE cond
    <3>1. Len(c) \in Nat
      BY DEF Text
    <3>2. Len(head) + Len(c) + Len(tail) = Len(t)
      <4>1. Len(head \o c \o tail) = Len(t)
        BY <2>6, Zenon DEF FixedPartMatches
      <4>2. Len(head) + Len(c) + Len(tail) = Len(head \o c \o tail)
        BY <2>3, ThreeParts, ZenonT(60) DEF SameParts
      <4> QED
        BY <4>1, <4>2, Zenon
    <3>3. Len(head) <= end
      BY <2>4, <3>1, <3>2
    <3> QED
      BY <2>3, <2>6, <3>2, <3>3, FixedParts, Zenon
  <2> HIDE DEF cond, mid
  <2> QED
    BY <1>0, <2>1, <2>2, <2>5, <2>6, Zenon
<1> QED
  BY <1>1, <1>2

HasNumber(key) == Has(key, "{number}")

\* A key with a number matches a token if and only if it becomes the token with some digits, of
\* a number up to the limit, for its placeholder.
LEMMA NumberIs ==
    ASSUME NEW key \in Text, NEW t \in Text, HasNumber(key)
    PROVE  /\ NumberCapture(key, t) # None =>
                 \E i \in 1 .. Len(t), j \in 1 .. Len(t) :
                     NumberFits(key, SubSeq(t, i, j), t) /\ NumberCapture(key, t) = NumberOf(SubSeq(t, i, j))
           /\ \A ds \in Text : NumberFits(key, ds, t) => NumberCapture(key, t) # None
<1> DEFINE prefix == Before(key, First(key, "{number}"))
           suffix == From(key, First(key, "{number}") + 1)
           m == Len(prefix)
           e == Len(t) - Len(suffix)
           rest == SubSeq(t, m + 1, e)
           cond == /\ Len(prefix) + Len(suffix) <= Len(t)
                   /\ IsPrefix(prefix, t) /\ IsSuffix(suffix, t)
                   /\ AllDigits(rest)
                   /\ NumberOf(rest) \in 1 .. MaxNumeric
<1>0. None \notin Nat /\ MaxNumeric \in Nat
  BY MatchingAssumption, Zenon
<1>1. NumberCapture(key, t) = IF cond THEN NumberOf(rest) ELSE None
  BY Zenon DEF NumberCapture
<1>2. prefix \in Text /\ suffix \in Text
  BY AroundTyped, Zenon DEF HasNumber
<1>3. \A ds : NumberFits(key, ds, t) <=>
                 AllDigits(ds) /\ NumberOf(ds) \in 1 .. MaxNumeric /\ t = prefix \o ds \o suffix
  BY Zenon DEF NumberFits
<1> HIDE DEF prefix, suffix
<1>4. Len(prefix) \in Nat /\ Len(suffix) \in Nat /\ Len(t) \in Nat
  BY <1>2 DEF Text
<1>5. /\ IsPrefix(prefix, t) <=> Len(prefix) <= Len(t) /\ \A k \in 1 .. Len(prefix) : prefix[k] = t[k]
      /\ IsSuffix(suffix, t) <=> Len(suffix) <= Len(t) /\ \A k \in 1 .. Len(suffix) : suffix[k] = t[(Len(t) - Len(suffix)) + k]
  <2>1. prefix \in Seq(Symbols) /\ t \in Seq(Symbols)
    BY <1>2 DEF Text
  <2>2. IsPrefix(prefix, t) <=> Len(prefix) <= Len(t) /\ \A k \in 1 .. Len(prefix) : prefix[k] = t[k]
    BY <2>1, PrefixIs
  <2> QED
    BY <1>2, <2>2, SuffixIs
<1>6. ASSUME Len(prefix) + Len(suffix) <= Len(t)
      PROVE  /\ rest \in Text /\ Len(rest) = e - m /\ \A k \in 1 .. e - m : rest[k] = t[m + k]
             /\ m + (e - m) + Len(suffix) = Len(t) /\ e - m \in Nat
  <2>1. m + 1 \in 1 .. Len(t) + 1 /\ e \in 0 .. Len(t) /\ m \in Nat /\ e \in Nat /\ m <= e
        /\ m + (e - m) + Len(suffix) = Len(t) /\ \A k \in 1 .. e - m : (m + 1) + k - 1 = m + k
    BY <1>4, <1>6
  <2> HIDE DEF m, e
  <2>2. t \in Seq(Symbols)
    BY DEF Text
  <2>3. rest \in Seq(Symbols) /\ Len(rest) = (IF m + 1 <= e THEN e - (m + 1) + 1 ELSE 0)
        /\ \A k \in 1 .. Len(rest) : rest[k] = t[(m + 1) + k - 1]
    BY <2>1, <2>2, PartTyped, SMTT(60)
  <2> HIDE DEF rest
  <2>4. Len(rest) = e - m
    BY <2>1, <2>3
  <2>5. \A k \in 1 .. e - m : rest[k] = t[m + k]
    BY <2>1, <2>3, <2>4
  <2> QED
    BY <2>1, <2>3, <2>4, <2>5 DEF Text
<1>7. ASSUME cond
      PROVE  /\ m + 1 \in 1 .. Len(t) /\ e \in 1 .. Len(t)
             /\ t = prefix \o rest \o suffix
  <2>1. /\ rest \in Text /\ Len(rest) = e - m /\ \A k \in 1 .. e - m : rest[k] = t[m + k]
        /\ m + (e - m) + Len(suffix) = Len(t) /\ e - m \in Nat
    BY <1>6, <1>7
  <2>2. rest # <<>>
    BY <1>7 DEF AllDigits
  <2> HIDE DEF rest
  <2>3. Len(rest) # 0
    BY <2>1, <2>2 DEF Text
  <2>4. m + 1 \in 1 .. Len(t) /\ e \in 1 .. Len(t)
    BY <1>4, <2>1, <2>3
  <2>5. SameParts(prefix, rest, suffix, t)
    <3>1. Len(prefix) + Len(rest) + Len(suffix) = Len(t)
      BY <2>1
    <3>2. \A k \in 1 .. Len(prefix) : prefix[k] = t[k]
      BY <1>5, <1>7
    <3>3. \A k \in 1 .. Len(rest) : rest[k] = t[Len(prefix) + k]
      BY <2>1
    <3>4. \A k \in 1 .. Len(suffix) : suffix[k] = t[Len(prefix) + Len(rest) + k]
      <4>1. \A k \in 1 .. Len(suffix) : suffix[k] = t[(Len(t) - Len(suffix)) + k]
        BY <1>5, <1>7
      <4>2. Len(t) - Len(suffix) = Len(prefix) + Len(rest)
        BY <1>4, <2>1
      <4> QED
        BY <4>1, <4>2, Zenon
    <3> QED
      BY <3>1, <3>2, <3>3, <3>4, Zenon DEF SameParts
  <2> QED
    BY <1>2, <2>1, <2>4, <2>5, SamePartsIs, Zenon
<1>8. ASSUME NEW ds \in Text, AllDigits(ds), NumberOf(ds) \in 1 .. MaxNumeric, t = prefix \o ds \o suffix
      PROVE  cond
  <2>1. SameParts(prefix, ds, suffix, t)
    BY <1>2, <1>8, ThreeParts, Zenon
  <2>2. /\ Len(prefix) + Len(ds) + Len(suffix) = Len(t)
        /\ \A k \in 1 .. Len(prefix) : prefix[k] = t[k]
        /\ \A k \in 1 .. Len(ds) : ds[k] = t[Len(prefix) + k]
        /\ \A k \in 1 .. Len(suffix) : suffix[k] = t[Len(prefix) + Len(ds) + k]
    BY <2>1, Zenon DEF SameParts
  <2>3. Len(ds) \in Nat /\ ds \in Seq(Symbols)
    BY DEF Text
  <2>4. Len(prefix) + Len(suffix) <= Len(t) /\ Len(prefix) <= Len(t) /\ Len(suffix) <= Len(t)
        /\ Len(t) - Len(suffix) = Len(prefix) + Len(ds) /\ e - m = Len(ds)
    BY <1>4, <2>2, <2>3
  <2>5. IsPrefix(prefix, t) /\ IsSuffix(suffix, t)
    <3>1. \A k \in 1 .. Len(suffix) : suffix[k] = t[(Len(t) - Len(suffix)) + k]
      BY <2>2, <2>4, Zenon
    <3> QED
      BY <1>5, <2>2, <2>4, <3>1, Zenon
  <2>6. rest = ds
    <3>1. rest \in Text /\ Len(rest) = e - m /\ \A k \in 1 .. e - m : rest[k] = t[m + k]
      BY <1>6, <2>4, Zenon
    <3> HIDE DEF rest
    <3>2. Len(rest) = Len(ds) /\ rest \in Seq(Symbols)
      BY <2>4, <3>1 DEF Text
    <3>3. \A k \in 1 .. Len(ds) : rest[k] = ds[k]
      BY <2>2, <2>4, <3>1
    <3> QED
      BY <2>3, <3>2, <3>3, SeqEqual
  <2> QED
    BY <1>8, <2>4, <2>5, <2>6, Zenon
<1>9. NumberOf(rest) \in 1 .. MaxNumeric => NumberOf(rest) # None
  BY <1>0
<1>10. ASSUME NumberCapture(key, t) # None
       PROVE  \E i \in 1 .. Len(t), j \in 1 .. Len(t) :
                  NumberFits(key, SubSeq(t, i, j), t) /\ NumberCapture(key, t) = NumberOf(SubSeq(t, i, j))
  <2>1. cond /\ NumberCapture(key, t) = NumberOf(rest)
    BY <1>1, <1>10, Zenon
  <2>2. m + 1 \in 1 .. Len(t) /\ e \in 1 .. Len(t) /\ t = prefix \o rest \o suffix
    BY <1>7, <2>1, Zenon
  <2>3. NumberFits(key, rest, t)
    BY <1>3, <2>1, <2>2, Zenon
  <2> QED
    BY <2>1, <2>2, <2>3, Zenon
<1>11. ASSUME NEW ds \in Text, NumberFits(key, ds, t) PROVE NumberCapture(key, t) # None
  <2>1. cond
    BY <1>3, <1>8, <1>11, Zenon
  <2> QED
    BY <1>1, <1>9, <2>1, Zenon
<1> QED
  BY <1>10, <1>11, Zenon

\* A symbol that is there once is at one place.
LEMMA OnlyOnce ==
    ASSUME NEW t \in Text, NEW x, ~(Cardinality({ i \in DOMAIN t : t[i] = x }) > 1),
           NEW i \in 1 .. Len(t), NEW j \in 1 .. Len(t), t[i] = x, t[j] = x
    PROVE  i = j
<1> DEFINE S == { k \in DOMAIN t : t[k] = x }
<1>1. Len(t) \in Nat /\ DOMAIN t = 1 .. Len(t)
  BY DEF Text
<1>2. IsFiniteSet(S)
  <2>1. IsFiniteSet(1 .. Len(t))
    BY <1>1, FS_Interval
  <2>2. S \in SUBSET (1 .. Len(t))
    BY <1>1
  <2> QED
    BY <2>1, <2>2, FS_Subset
<1>3. i \in S /\ j \in S
  BY <1>1
<1> HIDE DEF S
<1>4. SUFFICES ASSUME i # j PROVE FALSE
  OBVIOUS
<1>5. IsFiniteSet({i}) /\ Cardinality({i}) = 1
  BY FS_Singleton, Zenon
<1>6. Cardinality({i} \cup {j}) = 2
  <2>1. j \notin {i}
    BY <1>4
  <2>2. Cardinality({i} \cup {j}) = Cardinality({i}) + 1
    BY <1>5, <2>1, FS_AddElement, Zenon
  <2>3. Cardinality({i}) = 1
    BY <1>5
  <2>4. 1 + 1 = 2
    OBVIOUS
  <2> QED
    BY <2>2, <2>3, <2>4, Zenon
<1>7. {i} \cup {j} \in SUBSET S
  BY <1>3
<1>8. Cardinality({i} \cup {j}) <= Cardinality(S) /\ Cardinality(S) \in Nat
  BY <1>2, <1>7, FS_Subset, FS_CardinalityType
<1>9. Cardinality(S) > 1
  <2> DEFINE two == Cardinality({i} \cup {j})
             all == Cardinality(S)
  <2>1. two = 2 /\ two <= all /\ all \in Nat
    BY <1>6, <1>8, Zenon
  <2> HIDE DEF two, all
  <2>2. all > 1
    BY <2>1
  <2> QED
    BY <2>2 DEF all
<1> QED
  BY <1>9 DEF S

\* So a text that has one symbol once and another not at all has neither on its sides.
LEMMA OnceSplits ==
    ASSUME NEW t \in Text, NEW x, Has(t, x), ~(Cardinality({ i \in DOMAIN t : t[i] = x }) > 1),
           NEW y, ~Has(t, y)
    PROVE  /\ ~Has(Before(t, First(t, x)), x) /\ ~Has(Before(t, First(t, x)), y)
           /\ ~Has(From(t, First(t, x) + 1), x) /\ ~Has(From(t, First(t, x) + 1), y)
<1> DEFINE a == Before(t, First(t, x))
           b == From(t, First(t, x) + 1)
<1>1. DOMAIN t = 1 .. Len(t)
  BY DEF Text
<1>2. First(t, x) \in 1 .. Len(t) /\ t[First(t, x)] = x
  BY FirstIs
<1>3. ASSUME Has(a, y) \/ Has(b, y) PROVE FALSE
  <2>1. \E i \in 1 .. Len(t) : i # First(t, x) /\ t[i] = y
    BY <1>3, SidesHave
  <2> QED
    BY <1>1, <2>1, Zenon DEF Has
<1>4. ASSUME Has(a, x) \/ Has(b, x) PROVE FALSE
  <2>1. PICK i \in 1 .. Len(t) : i # First(t, x) /\ t[i] = x
    BY <1>4, SidesHave
  <2> QED
    BY <1>2, <2>1, OnlyOnce, Zenon
<1> QED
  BY <1>3, <1>4, Zenon

\* The key of a number rule that loads has its placeholder once, and no other brace that opens.
LEMMA NumberKeySplits ==
    ASSUME NEW r \in AbbrRule, RuleIssues(r) = <<>>, Phase(r) = "number"
    PROVE  SplitsOnce(r.key) /\ HasNumber(r.key) /\ r.kind = None
<1>1. r.kind = None /\ HasBrace(r.key) /\ r.kind # "regex"
  <2>1. None # "regex"
    BY MatchingAssumption, Zenon
  <2> QED
    BY <2>1, PhaseIs
<1>2. ~Has(r.key, "{") /\ ~(Cardinality({ i \in DOMAIN r.key : r.key[i] = "{number}" }) > 1)
  BY <1>1, RuleIssuesIs, WalkNumberIs, Zenon
<1>3. Has(r.key, "{number}")
  BY <1>1, <1>2, Zenon DEF HasBrace
<1>4. r.key \in Text
  BY Zenon DEF AbbrRule
<1> QED
  BY <1>1, <1>2, <1>3, <1>4, OnceSplits, Zenon DEF SplitsOnce, HasBrace, HasNumber

\* The parts of a text are texts.
LEMMA PartsTyped == ASSUME NEW t \in Text PROVE Parts(t) \subseteq Text
<1>1. t \in Seq(Symbols)
  BY DEF Text
<1>2. \A i \in 1 .. Len(t) + 1, j \in 0 .. Len(t) : SubSeq(t, i, j) \in Seq(Symbols)
  BY <1>1, PartTyped
<1>3. ASSUME NEW c \in Parts(t) PROVE c \in Seq(Symbols)
  <2>1. PICK i \in 1 .. Len(t) + 1, j \in 0 .. Len(t) : c = SubSeq(t, i, j)
    BY <1>3 DEF Parts
  <2> QED
    BY <1>2, <2>1, Zenon
<1> QED
  BY <1>3, Zenon DEF Text

\* A match is what the key says.
LEMMA MatchesAreRight == RuleInv => MatchIsRight
<1> SUFFICES ASSUME RuleInv, stage = "pressed"
             PROVE  /\ rule.kind = "glob" =>
                          IF GlobCapture(rule.key, token) = None
                            THEN \A c \in Parts(token) : ~GlobFits(rule.key, c, token)
                            ELSE GlobFits(rule.key, GlobCapture(rule.key, token), token)
                    /\ Phase(rule) = "number" =>
                          IF Match(rule, token) = None
                            THEN \A ds \in Parts(token) : ~NumberFits(rule.key, ds, token)
                            ELSE \E ds \in Parts(token) : NumberFits(rule.key, ds, token)
                                                             /\ Match(rule, token).number = NumberOf(ds)
  BY Zenon DEF MatchIsRight
<1> DEFINE r == rule
           t == token
           number == NumberCapture(r.key, t)
<1>1. r \in AbbrRule /\ t \in Text /\ RuleIssues(r) = <<>>
  BY PressedIs
<1> HIDE DEF r, t
<1>2. r.key \in Text
  BY <1>1, Zenon DEF AbbrRule
<1>3. Parts(t) \subseteq Text
  BY <1>1, PartsTyped
<1>4. ASSUME r.kind = "glob"
      PROVE  IF GlobCapture(r.key, t) = None
               THEN \A c \in Parts(t) : ~GlobFits(r.key, c, t)
               ELSE GlobFits(r.key, GlobCapture(r.key, t), t)
  <2>1. CASE GlobCapture(r.key, t) = None
    <3>1. \A c \in Text : ~GlobFits(r.key, c, t)
      BY <1>1, <1>2, <2>1, GlobIs, Zenon DEF GlobFits
    <3> QED
      BY <1>3, <2>1, <3>1, Zenon
  <2>2. CASE GlobCapture(r.key, t) # None
    BY <1>1, <1>2, <2>2, GlobIs, Zenon DEF GlobFits
  <2> QED
    BY <2>1, <2>2
<1>5. ASSUME Phase(r) = "number"
      PROVE  IF Match(r, t) = None
               THEN \A ds \in Parts(t) : ~NumberFits(r.key, ds, t)
               ELSE \E ds \in Parts(t) : NumberFits(r.key, ds, t) /\ Match(r, t).number = NumberOf(ds)
  <2>1. SplitsOnce(r.key) /\ HasNumber(r.key) /\ r.kind = None
    BY <1>1, <1>5, NumberKeySplits, Zenon
  <2>2. Match(r, t) = IF number # None THEN [number |-> number, glob |-> None, regex |-> None] ELSE None
    BY <1>1, <2>1, MatchCases, Zenon
  <2>3. CASE number = None
    <3>1. Match(r, t) = None
      BY <2>2, <2>3, Zenon
    <3>2. \A ds \in Text : ~NumberFits(r.key, ds, t)
      BY <1>1, <1>2, <2>1, <2>3, NumberIs, Zenon
    <3> QED
      BY <1>3, <3>1, <3>2, Zenon
  <2>4. CASE number # None
    <3>1. PICK i \in 1 .. Len(t), j \in 1 .. Len(t) :
              NumberFits(r.key, SubSeq(t, i, j), t) /\ number = NumberOf(SubSeq(t, i, j))
      BY <1>1, <1>2, <2>1, <2>4, NumberIs, Zenon
    <3>2. SubSeq(t, i, j) \in Parts(t)
      <4>1. i \in 1 .. Len(t) + 1 /\ j \in 0 .. Len(t)
        <5>1. Len(t) \in Nat
          BY <1>1 DEF Text
        <5> QED
          BY <5>1
      <4> QED
        BY <4>1 DEF Parts
    <3>3. number \in Nat
      <4>1. number \in 1 .. MaxNumeric
        BY <2>4, NumberCaptureTyped
      <4> QED
        BY <4>1
    <3> HIDE DEF number
    <3>4. Match(r, t) = [number |-> number, glob |-> None, regex |-> None]
      BY <2>2, <2>4, Zenon
    <3>5. Match(r, t) \in Bindings /\ Match(r, t).number = number
      BY <3>3, <3>4 DEF Bindings
    <3>6. Match(r, t) # None
      BY <3>5, MatchingAssumption, Zenon
    <3> QED
      BY <3>1, <3>2, <3>5, <3>6, Zenon
  <2> QED
    BY <2>3, <2>4
<1> QED
  BY <1>4, <1>5, Zenon DEF r, t

\* Whatever the key and the token: a glob matches what its wildcards say, a number what its
\* digits say up to the limit, and neither anything else.
THEOREM MatchesWhatTheKeySays == Spec => []MatchIsRight
BY AlwaysRuleInv, MatchesAreRight, PTL

-----------------------------------------------------------------------------
\* One symbol is all there is in a text of one.
LEMMA SingleHas == ASSUME NEW x, NEW y PROVE Has(<<x>>, y) <=> x = y
BY DEF Has

\* A text is blank if it has nothing but blanks.
LEMMA BlankHas == ASSUME NEW t PROVE IsBlank(t) <=> \A x : Has(t, x) => x = " "
<1>1. IsBlank(t) => \A x : Has(t, x) => x = " "
  BY Zenon DEF IsBlank, Has
<1>2. (\A x : Has(t, x) => x = " ") => IsBlank(t)
  BY Zenon DEF IsBlank, Has
<1> QED
  BY <1>1, <1>2, Zenon

\* Nothing is blank.
LEMMA NothingIsBlank == IsBlank(<<>>)
<1>1. \A i \in DOMAIN <<>> : FALSE
  OBVIOUS
<1> QED
  BY <1>1, Zenon DEF IsBlank

\* Two texts are blank together if both are.
LEMMA BlankJoined ==
    ASSUME NEW a \in Text, NEW b \in Text
    PROVE  IsBlank(a \o b) <=> IsBlank(a) /\ IsBlank(b)
BY HasJoined, BlankHas, Zenon

\* Where one capture puts in nothing, the other puts in something.
Empties(t, e, b) ==
    \A i \in 1 .. Len(t) : /\ Resolved(t, i, e) = None <=> Resolved(t, i, b) = None
                           /\ Resolved(t, i, e) # None => Resolved(t, i, e) = <<>>

\* What is blank with the captures is so without what they capture.
LEMMA BlankWithNothing ==
    ASSUME NEW t \in Text, NEW e \in Bindings, NEW b \in Bindings, Empties(t, e, b),
           IsBlank(Substituted(t, b))
    PROVE  IsBlank(Substituted(t, e))
<1>1. PICK f : IsSubstitution(f, t, e)
  BY SubstitutedSteps, Zenon
<1>2. PICK g : IsSubstitution(g, t, b)
  BY SubstitutedSteps, Zenon
<1> DEFINE n == Len(t)
           T == { i \in 1 .. n + 1 : IsBlank(g[i]) => IsBlank(f[i]) }
<1>3. n \in Nat /\ \A i \in 1 .. n : t[i] \in Symbols
  BY DEF Text
<1>4. /\ f \in [1 .. n + 1 -> Text] /\ g \in [1 .. n + 1 -> Text]
      /\ f[n + 1] = <<>>
      /\ Substituted(t, e) = f[1] /\ Substituted(t, b) = g[1]
      /\ \A i \in 1 .. n :
            f[i] = IF Resolved(t, i, e) # None THEN Resolved(t, i, e) \o f[i + 3] ELSE <<t[i]>> \o f[i + 1]
      /\ \A i \in 1 .. n :
            g[i] = IF Resolved(t, i, b) # None THEN Resolved(t, i, b) \o g[i + 3] ELSE <<t[i]>> \o g[i + 1]
  BY <1>1, <1>2, Zenon DEF IsSubstitution
<1> HIDE DEF n
<1>5. n + 1 \in T
  <2>1. n + 1 \in 1 .. n + 1
    BY <1>3
  <2>2. IsBlank(f[n + 1])
    BY <1>4, NothingIsBlank, Zenon
  <2> QED
    BY <2>1, <2>2, Zenon
<1>6. ASSUME NEW i \in 1 .. n, \A j \in i + 1 .. n + 1 : j \in T PROVE i \in T
  <2>0. i \in 1 .. n + 1 /\ i \in 1 .. Len(t)
    BY <1>3 DEF n
  <2>1. CASE Resolved(t, i, b) = None
    <3>1. Resolved(t, i, e) = None
      BY <2>0, <2>1, Zenon DEF Empties
    <3>2. f[i] = <<t[i]>> \o f[i + 1] /\ g[i] = <<t[i]>> \o g[i + 1]
      BY <1>4, <2>1, <3>1, Zenon
    <3>3. i + 1 \in i + 1 .. n + 1 /\ i + 1 \in 1 .. n + 1
      BY <1>3
    <3>4. <<t[i]>> \in Text /\ f[i + 1] \in Text /\ g[i + 1] \in Text
      <4>1. <<t[i]>> \in Text
        BY <1>3, SingleTyped DEF Text
      <4> QED
        BY <1>4, <3>3, <4>1
    <3>5. IsBlank(g[i + 1]) => IsBlank(f[i + 1])
      BY <1>6, <3>3, Zenon
    <3>6. IsBlank(g[i]) => IsBlank(f[i])
      <4>1. IsBlank(<<t[i]>> \o g[i + 1]) <=> IsBlank(<<t[i]>>) /\ IsBlank(g[i + 1])
        BY <3>4, BlankJoined
      <4>2. IsBlank(<<t[i]>> \o f[i + 1]) <=> IsBlank(<<t[i]>>) /\ IsBlank(f[i + 1])
        BY <3>4, BlankJoined
      <4> QED
        BY <3>2, <3>5, <4>1, <4>2, Zenon
    <3> QED
      BY <2>0, <3>6, Zenon
  <2>2. CASE Resolved(t, i, b) # None
    <3>1. Resolved(t, i, e) # None /\ Resolved(t, i, e) = <<>>
      BY <2>0, <2>2, Zenon DEF Empties
    <3>2. f[i] = Resolved(t, i, e) \o f[i + 3] /\ g[i] = Resolved(t, i, b) \o g[i + 3]
      BY <1>4, <2>2, <3>1, Zenon
    <3>3. i + 2 <= n /\ Resolved(t, i, b) \in Text /\ Resolved(t, i, e) \in Text
      BY <2>0, <2>2, <3>1, ResolvedTyped, Zenon DEF n
    <3>4. i + 3 \in i + 1 .. n + 1 /\ i + 3 \in 1 .. n + 1
      BY <1>3, <3>3
    <3>5. f[i + 3] \in Text /\ g[i + 3] \in Text
      BY <1>4, <3>4
    <3>6. IsBlank(g[i + 3]) => IsBlank(f[i + 3])
      BY <1>6, <3>4, Zenon
    <3>7. IsBlank(Resolved(t, i, e))
      BY <3>1, NothingIsBlank, Zenon
    <3>8. IsBlank(g[i]) => IsBlank(f[i])
      <4>1. IsBlank(Resolved(t, i, b) \o g[i + 3]) <=> IsBlank(Resolved(t, i, b)) /\ IsBlank(g[i + 3])
        BY <3>3, <3>5, BlankJoined
      <4>2. IsBlank(Resolved(t, i, e) \o f[i + 3]) <=> IsBlank(Resolved(t, i, e)) /\ IsBlank(f[i + 3])
        BY <3>3, <3>5, BlankJoined
      <4> QED
        BY <3>2, <3>6, <3>7, <4>1, <4>2, Zenon
    <3> QED
      BY <2>0, <3>8, Zenon
  <2> QED
    BY <2>1, <2>2
<1>7. \A i \in 1 .. n + 1 : i \in T
  <2> HIDE DEF T
  <2> QED BY <1>3, <1>5, <1>6, InductionDown
<1>8. 1 \in 1 .. n + 1
  BY <1>3
<1> QED
  BY <1>4, <1>7, <1>8, Zenon

Blank(x) == x = " "
HasBlank(t) == Has(t, " ")

\* A text with a blank stays one, whatever comes with it.
LEMMA BlankJoins ==
    ASSUME NEW a \in Text, NEW b \in Text, HasBlank(a) \/ HasBlank(b)
    PROVE  HasBlank(a \o b)
BY HasJoined, Zenon DEF HasBlank

\* No symbol of a placeholder is a blank.
LEMMA NoBlankInBraces == \A x \in {"{", "}", "*", "1", "2", "9"} : ~Blank(x)
BY Zenon DEF Blank

\* A blank is in no placeholder, so it stays.
LEMMA BlankStays ==
    ASSUME NEW t \in Text, NEW b \in Bindings, HasBlank(t)
    PROVE  HasBlank(Substituted(t, b))
<1>1. PICK g : IsSubstitution(g, t, b)
  BY SubstitutedSteps, Zenon
<1> DEFINE n == Len(t)
           T == { i \in 1 .. n + 1 : \A k \in i .. n : Blank(t[k]) => HasBlank(g[i]) }
<1>2. n \in Nat /\ \A i \in 1 .. n : t[i] \in Symbols
  BY DEF Text
<1>10. DOMAIN t = 1 .. n
  BY DEF Text
<1>3. /\ g \in [1 .. n + 1 -> Text]
      /\ Substituted(t, b) = g[1]
      /\ \A i \in 1 .. n :
            g[i] = IF Resolved(t, i, b) # None THEN Resolved(t, i, b) \o g[i + 3] ELSE <<t[i]>> \o g[i + 1]
  BY <1>1, Zenon DEF IsSubstitution
<1> HIDE DEF n
<1>4. n + 1 \in T
  BY <1>2
<1>5. ASSUME NEW i \in 1 .. n, \A j \in i + 1 .. n + 1 : j \in T PROVE i \in T
  <2>0. i \in 1 .. n + 1 /\ i \in 1 .. Len(t)
    BY <1>2 DEF n
  <2>1. ASSUME NEW k \in i .. n, Blank(t[k]) PROVE HasBlank(g[i])
    <3>1. CASE Resolved(t, i, b) = None
      <4>1. g[i] = <<t[i]>> \o g[i + 1]
        BY <1>3, <3>1, Zenon
      <4>2. i + 1 \in i + 1 .. n + 1 /\ i + 1 \in 1 .. n + 1 /\ (k # i => k \in i + 1 .. n)
        BY <1>2
      <4>3. <<t[i]>> \in Text /\ g[i + 1] \in Text
        <5>1. <<t[i]>> \in Text
          BY <1>2, SingleTyped DEF Text
        <5> QED
          BY <1>3, <4>2, <5>1
      <4>4. CASE k = i
        <5>1. HasBlank(<<t[i]>>)
          BY <2>1, <4>4, SingleHas, Zenon DEF Blank, HasBlank
        <5> QED
          BY <4>1, <4>3, <5>1, BlankJoins, Zenon
      <4>5. CASE k # i
        <5>1. HasBlank(g[i + 1])
          BY <1>5, <2>1, <4>2, <4>5, Zenon
        <5> QED
          BY <4>1, <4>3, <5>1, BlankJoins, Zenon
      <4> QED
        BY <4>4, <4>5
    <3>2. CASE Resolved(t, i, b) # None
      <4>1. g[i] = Resolved(t, i, b) \o g[i + 3]
        BY <1>3, <3>2, Zenon
      <4>2. i + 2 <= n /\ Resolved(t, i, b) \in Text /\ t[i] = "{" /\ t[i + 2] = "}"
        BY <2>0, <3>2, ResolvedTyped, Zenon DEF n
      <4>3. t[i + 1] = "*" \/ t[i + 1] \in {"1", "2", "9"}
        BY <3>2, Zenon DEF Resolved
      <4>4. k # i /\ k # i + 1 /\ k # i + 2
        BY <2>1, <4>2, <4>3, NoBlankInBraces, Zenon
      <4>5. i + 3 \in i + 1 .. n + 1 /\ i + 3 \in 1 .. n + 1 /\ k \in i + 3 .. n
        <5>0. i + 2 <= n
          BY <4>2, Zenon
        <5>1. n \in Nat /\ i \in Nat /\ i >= 1 /\ k \in Nat /\ i <= k /\ k <= n
          BY <1>2
        <5>2. i + 3 \in i + 1 .. n + 1 /\ i + 3 \in 1 .. n + 1
          BY <5>0, <5>1
        <5>3. k >= i + 3
          BY <4>4, <5>1
        <5> QED
          BY <5>1, <5>2, <5>3
      <4>6. g[i + 3] \in Text
        BY <1>3, <4>5
      <4>7. HasBlank(g[i + 3])
        BY <1>5, <2>1, <4>5, Zenon
      <4>8. HasBlank(Resolved(t, i, b) \o g[i + 3])
        BY <4>2, <4>6, <4>7, BlankJoins, Zenon
      <4> QED
        BY <4>1, <4>8, Zenon
    <3> QED
      BY <3>1, <3>2
  <2> QED
    BY <2>0, <2>1, Zenon
<1>6. \A i \in 1 .. n + 1 : i \in T
  <2> HIDE DEF T
  <2> QED BY <1>2, <1>4, <1>5, InductionDown
<1>7. 1 \in 1 .. n + 1
  BY <1>2
<1>8. 1 \in T
  BY <1>6, <1>7, Zenon
<1>9. PICK k \in 1 .. n : Blank(t[k])
  BY <1>10, Zenon DEF Has, HasBlank, Blank
<1> QED
  BY <1>3, <1>8, <1>9, Zenon

-----------------------------------------------------------------------------
\* A blank text stays as it is.
LEMMA BlankPutsNothing ==
    ASSUME NEW t \in Text, NEW b \in Bindings, IsBlank(t)
    PROVE  Substituted(t, b) = t
<1>1. DOMAIN t = 1 .. Len(t)
  BY DEF Text
<1>2. "{" # " "
  BY Zenon
<1>3. \A i \in 1 .. Len(t) : t[i] # "{"
  BY <1>1, <1>2, Zenon DEF IsBlank
<1>4. PutsNothing(t, 1, Len(t), b)
  BY <1>3, NoBracePutsNothing, Zenon
<1> QED
  BY <1>4, NothingPut

\* The bindings without a number: no capture, the star's, or the groups of a regex.
LEMMA BindingsAre ==
    /\ NoCapture \in Bindings /\ NoCapture.number = None /\ NoCapture.glob = None /\ NoCapture.regex = None
    /\ \A c \in Text : LET b == [number |-> None, glob |-> c, regex |-> None]
                       IN  b \in Bindings /\ b.number = None /\ b.glob = c /\ b.regex = None
    /\ \A c \in Seq(Text) : LET b == [number |-> None, glob |-> None, regex |-> c]
                            IN  b \in Bindings /\ b.number = None /\ b.glob = None /\ b.regex = c
<1>1. NoCapture \in Bindings /\ NoCapture.number = None /\ NoCapture.glob = None /\ NoCapture.regex = None
  BY DEF NoCapture, Bindings
<1>2. ASSUME NEW c \in Text
      PROVE  LET b == [number |-> None, glob |-> c, regex |-> None]
             IN  b \in Bindings /\ b.number = None /\ b.glob = c /\ b.regex = None
  BY DEF Bindings
<1>3. ASSUME NEW c \in Seq(Text)
      PROVE  LET b == [number |-> None, glob |-> None, regex |-> c]
             IN  b \in Bindings /\ b.number = None /\ b.glob = None /\ b.regex = c
  BY DEF Bindings
<1> QED
  BY <1>1, <1>2, <1>3, Zenon

\* What is blank without any capture, the placeholders as they are written, is so with all.
LEMMA BlankAsWritten ==
    ASSUME NEW r \in AbbrRule, NEW b \in Bindings, b.number = None,
           Render(r, NoCapture) # None, IsBlank(Render(r, NoCapture).text), Render(r, b) # None
    PROVE  IsBlank(Render(r, b).text)
<1> DEFINE base == r.expand
           i == FirstCursor(base)
<1>1. /\ base \in Text /\ NoCapture \in Bindings
      /\ RenderNumber(r, b) = base /\ RenderNumber(r, NoCapture) = base
  <2>1. base \in Text
    BY DEF AbbrRule
  <2> QED
    BY <2>1, BindingsAre, RenderNumberCases, Zenon
<1>2. ASSUME NEW t \in Text PROVE Substituted(t, NoCapture) = t
  <2>1. PutsNothing(t, 1, Len(t), NoCapture)
    BY BindingsAre, NoCapturePutsNothing
  <2> QED
    BY <2>1, BindingsAre, NothingPut
<1> HIDE DEF base
<1>3. CASE i = None
  <2>1. Render(r, b).text = Substituted(base, b) /\ Render(r, NoCapture).text = Substituted(base, NoCapture)
    BY <1>1, <1>3, RenderedIs, Zenon
  <2>2. IsBlank(base)
    BY <1>1, <1>2, <2>1, Zenon
  <2>3. Substituted(base, b) = base
    BY <1>1, <2>2, BlankPutsNothing
  <2> QED
    BY <2>1, <2>2, <2>3, Zenon
<1>4. CASE i # None
  <2> DEFINE left == Before(base, i)
             right == From(base, i + 2)
  <2>1. left \in Text /\ right \in Text
        /\ Render(r, b).text = Substituted(left, b) \o Substituted(right, b)
        /\ Render(r, NoCapture).text = Substituted(left, NoCapture) \o Substituted(right, NoCapture)
    BY <1>1, <1>4, RenderedIs, Zenon
  <2> HIDE DEF left, right
  <2>2. Substituted(left, NoCapture) = left /\ Substituted(right, NoCapture) = right
    BY <1>2, <2>1, Zenon
  <2>3. IsBlank(left \o right)
    BY <2>1, <2>2, Zenon
  <2>4. IsBlank(left) /\ IsBlank(right)
    BY <2>1, <2>3, BlankJoined, Zenon
  <2>5. Substituted(left, b) = left
    BY <2>1, <2>4, BlankPutsNothing
  <2>6. Substituted(right, b) = right
    BY <2>1, <2>4, BlankPutsNothing
  <2> QED
    BY <2>1, <2>3, <2>5, <2>6, Zenon
<1> QED
  BY <1>3, <1>4

\* What is blank with the captures is so with empty ones.
LEMMA BlankWithEmpty ==
    ASSUME NEW r \in AbbrRule, NEW e \in Bindings, NEW b \in Bindings, e.number = None, b.number = None,
           \A t \in Text : Empties(t, e, b),
           Render(r, e) # None, Render(r, b) # None, IsBlank(Render(r, b).text)
    PROVE  IsBlank(Render(r, e).text)
<1> DEFINE base == r.expand
           i == FirstCursor(base)
<1>1. base \in Text /\ RenderNumber(r, b) = base /\ RenderNumber(r, e) = base
  <2>1. base \in Text
    BY DEF AbbrRule
  <2> QED
    BY <2>1, RenderNumberCases, Zenon
<1>2. ASSUME NEW t \in Text, IsBlank(Substituted(t, b)) PROVE IsBlank(Substituted(t, e))
  <2>1. Empties(t, e, b)
    OBVIOUS
  <2> QED
    BY <1>2, <2>1, BlankWithNothing
<1> HIDE DEF base
<1>3. CASE i = None
  <2>1. Render(r, b).text = Substituted(base, b) /\ Render(r, e).text = Substituted(base, e)
    BY <1>1, <1>3, RenderedIs, Zenon
  <2> QED
    BY <1>1, <1>2, <2>1, Zenon
<1>4. CASE i # None
  <2> DEFINE left == Before(base, i)
             right == From(base, i + 2)
  <2>1. left \in Text /\ right \in Text
        /\ Render(r, b).text = Substituted(left, b) \o Substituted(right, b)
        /\ Render(r, e).text = Substituted(left, e) \o Substituted(right, e)
    BY <1>1, <1>4, RenderedIs, Zenon
  <2> HIDE DEF left, right
  <2>2. /\ Substituted(left, b) \in Text /\ Substituted(right, b) \in Text
        /\ Substituted(left, e) \in Text /\ Substituted(right, e) \in Text
    BY <2>1, SubstitutedTyped, Zenon
  <2>3. IsBlank(Substituted(left, b) \o Substituted(right, b))
    BY <2>1, Zenon
  <2>4. IsBlank(Substituted(left, b)) /\ IsBlank(Substituted(right, b))
    BY <2>2, <2>3, BlankJoined, Zenon
  <2>5. IsBlank(Substituted(left, e)) /\ IsBlank(Substituted(right, e))
    BY <1>2, <2>1, <2>4, Zenon
  <2>6. IsBlank(Substituted(left, e) \o Substituted(right, e))
    BY <2>2, <2>5, BlankJoined, Zenon
  <2> QED
    BY <2>1, <2>6, Zenon
<1> QED
  BY <1>3, <1>4

\* A blank of the template comes out.
LEMMA BlankComesOut ==
    ASSUME NEW r \in AbbrRule, NEW b \in Bindings, b.number = None, Render(r, b) # None
    PROVE  HasBlank(r.expand) => HasBlank(Render(r, b).text)
<1> DEFINE base == r.expand
           i == FirstCursor(base)
<1>1. base \in Text /\ RenderNumber(r, b) = base
  <2>1. base \in Text
    BY DEF AbbrRule
  <2> QED
    BY <2>1, RenderNumberCases, Zenon
<1>2. i = None => Render(r, b).text = Substituted(base, b)
  BY <1>1, RenderedIs, SMTT(60)
<1>3. i # None => /\ Before(base, i) \in Text /\ From(base, i + 2) \in Text
                  /\ Render(r, b).text = Substituted(Before(base, i), b) \o Substituted(From(base, i + 2), b)
  BY <1>1, RenderedIs, Zenon
<1> SUFFICES ASSUME HasBlank(base) PROVE HasBlank(Render(r, b).text)
  OBVIOUS
<1>0. HasBlank(base)
  OBVIOUS
<1> HIDE DEF base
<1>4. CASE i = None
  <2>1. Render(r, b).text = Substituted(base, b)
    BY <1>2, <1>4, Zenon
  <2>2. HasBlank(Substituted(base, b))
    BY <1>0, <1>1, BlankStays
  <2> QED
    BY <2>1, <2>2, Zenon
<1>5. CASE i # None
  <2>0. i \in CursorAt(base) /\ i \in 1 .. Len(base) - 1
    BY <1>1, <1>5, FirstCursorIs
  <2> DEFINE left == Before(base, i)
             right == From(base, i + 2)
  <2>1. left \in Text /\ right \in Text
        /\ Render(r, b).text = Substituted(left, b) \o Substituted(right, b)
    BY <1>3, <1>5, Zenon
  <2>2. HasBlank(left) \/ HasBlank(right)
    <3>1. PICK k \in DOMAIN base : Blank(base[k])
      BY <1>0, Zenon DEF HasBlank, Has, Blank
    <3>2. base[i] = "{" /\ base[i + 1] = "}"
      BY <2>0, Zenon DEF CursorAt
    <3>3. k # i /\ k # i + 1
      BY <3>1, <3>2, NoBlankInBraces, Zenon
    <3> HIDE DEF i, left, right
    <3>4. Len(base) \in Nat
      BY <1>1 DEF Text
    <3>5. k \in 1 .. Len(base)
      BY <1>1, <3>1 DEF Text
    <3>6. CASE k < i
      <4>1. i \in 1 .. Len(base) + 1 /\ k \in 1 .. i - 1
        BY <2>0, <3>4, <3>5, <3>6
      <4>2. Before(base, i)[k] = base[k] /\ Len(Before(base, i)) = i - 1
        BY <1>1, <4>1, SidesTyped, Zenon
      <4>3. k \in DOMAIN left /\ left[k] = base[k]
        <5>1. DOMAIN left = 1 .. Len(left)
          BY <2>1 DEF Text
        <5> QED
          BY <4>1, <4>2, <5>1, Zenon DEF left
      <4> QED
        BY <3>1, <4>3, Zenon DEF HasBlank, Has, Blank
    <3>7. CASE ~(k < i)
      <4> DEFINE q == i + 2
                 m == k - q + 1
      <4>1. q \in 1 .. Len(base) + 1 /\ m \in 1 .. Len(base) - q + 1 /\ q + m - 1 = k
        BY <2>0, <3>3, <3>4, <3>5, <3>7
      <4> HIDE DEF q, m
      <4>2. From(base, q)[m] = base[q + m - 1] /\ Len(From(base, q)) = Len(base) - q + 1
        BY <1>1, <4>1, SidesTyped
      <4>3. right = From(base, q)
        BY DEF right, q
      <4>4. m \in DOMAIN right /\ right[m] = base[k]
        <5>1. DOMAIN right = 1 .. Len(right)
          BY <2>1 DEF Text
        <5> QED
          BY <4>1, <4>2, <4>3, <5>1, Zenon
      <4> QED
        BY <3>1, <4>4, Zenon DEF HasBlank, Has, Blank
    <3> QED
      BY <3>6, <3>7
  <2> HIDE DEF left, right, i
  <2>3. Substituted(left, b) \in Text /\ Substituted(right, b) \in Text
    BY <2>1, SubstitutedTyped, Zenon
  <2>4. HasBlank(Substituted(left, b)) \/ HasBlank(Substituted(right, b))
    <3>1. HasBlank(left) => HasBlank(Substituted(left, b))
      BY <2>1, BlankStays
    <3>2. HasBlank(right) => HasBlank(Substituted(right, b))
      BY <2>1, BlankStays
    <3> QED
      BY <2>2, <3>1, <3>2, Zenon
  <2>5. HasBlank(Substituted(left, b) \o Substituted(right, b))
    BY <2>3, <2>4, BlankJoins
  <2> QED
    BY <2>1, <2>5, Zenon
<1> QED
  BY <1>4, <1>5

-----------------------------------------------------------------------------
\* Whether a rendering is blank: yes, no, or there is none.
LEMMA RendersBlankIs ==
    ASSUME NEW r, NEW b
    PROVE  /\ RendersBlank(r, b) \in BOOLEAN \cup {None}
           /\ RendersBlank(r, b) = TRUE => Render(r, b) # None /\ IsBlank(Render(r, b).text)
           /\ RendersBlank(r, b) = FALSE => Render(r, b) # None /\ ~IsBlank(Render(r, b).text)
<1>1. None \notin BOOLEAN
  BY MatchingAssumption, Zenon
<1>2. CASE Render(r, b) = None
  <2>1. RendersBlank(r, b) = None
    BY <1>2, Zenon DEF RendersBlank
  <2> QED
    BY <1>1, <2>1, Zenon
<1>3. CASE Render(r, b) # None
  <2>1. RendersBlank(r, b) = IsBlank(Render(r, b).text)
    BY <1>3, Zenon DEF RendersBlank
  <2>2. IsBlank(Render(r, b).text) \in BOOLEAN
    BY Zenon DEF IsBlank
  <2> HIDE DEF RendersBlank
  <2> QED
    BY <1>3, <2>1, <2>2
<1> QED
  BY <1>2, <1>3, Zenon

\* And what it is said to be.
LEMMA DecidedIs ==
    ASSUME NEW x \in BOOLEAN \cup {None}
    PROVE  (Decided(x) = "Always" <=> x = TRUE) /\ (Decided(x) = "Never" <=> x = FALSE)
<1>0. None \notin BOOLEAN
  BY MatchingAssumption, Zenon
<1>1. CASE x = None
  <2>0. x # TRUE /\ x # FALSE
    BY <1>0, <1>1, Zenon
  <2>1. Decided(x) = "DependsOnToken"
    BY <1>1, <2>0, Zenon DEF Decided
  <2> QED
    BY <2>0, <2>1, Zenon
<1>2. CASE x = TRUE
  <2>1. x # None /\ x # FALSE
    BY <1>0, <1>2, Zenon
  <2>2. Decided(x) = "Always"
    BY <1>2, <2>1, Zenon DEF Decided
  <2> QED
    BY <1>2, <2>1, <2>2
<1>3. CASE x = FALSE
  <2>1. x # None /\ x # TRUE
    BY <1>0, <1>3, Zenon
  <2>2. Decided(x) = "Never"
    BY <1>3, <2>1, Zenon DEF Decided
  <2> QED
    BY <1>3, <2>1, <2>2
<1> QED
  BY <1>1, <1>2, <1>3, Zenon

\* The star's capture is at the same places as an empty one.
LEMMA GlobEmpties ==
    ASSUME NEW c \in Text, NEW t
    PROVE  Empties(t, [number |-> None, glob |-> <<>>, regex |-> None], [number |-> None, glob |-> c, regex |-> None])
<1> DEFINE e == [number |-> None, glob |-> <<>>, regex |-> None]
           b == [number |-> None, glob |-> c, regex |-> None]
<1>1. <<>> \in Text /\ None \notin Text
  <2>1. <<>> \in Text
    BY DEF Text
  <2> QED
    BY <2>1, MatchingAssumption, Zenon
<1>2. e.glob = <<>> /\ e.regex = None /\ b.glob = c /\ b.regex = None
  BY <1>1, BindingsAre, Zenon
<1>3. e.glob # None /\ b.glob # None
  BY <1>1, <1>2, Zenon
<1> HIDE DEF e, b
<1>4. ASSUME NEW i PROVE /\ Resolved(t, i, e) = None <=> Resolved(t, i, b) = None
                         /\ Resolved(t, i, e) # None => Resolved(t, i, e) = <<>>
  <2>1. CASE ~(i + 2 <= Len(t) /\ t[i] = "{" /\ t[i + 2] = "}")
    <3>1. Resolved(t, i, e) = None /\ Resolved(t, i, b) = None
      BY <2>1, Zenon DEF Resolved
    <3> QED
      BY <3>1
  <2>2. CASE (i + 2 <= Len(t) /\ t[i] = "{" /\ t[i + 2] = "}") /\ t[i + 1] = "*"
    <3>1. Resolved(t, i, e) = e.glob /\ Resolved(t, i, b) = b.glob
      BY <1>2, <2>2, Zenon DEF Resolved
    <3> QED
      BY <1>2, <1>3, <3>1, Zenon
  <2>3. CASE (i + 2 <= Len(t) /\ t[i] = "{" /\ t[i + 2] = "}") /\ t[i + 1] # "*"
    <3>1. Resolved(t, i, e) = None /\ Resolved(t, i, b) = None
      BY <1>2, <2>3, Zenon DEF Resolved
    <3> QED
      BY <3>1
  <2> QED
    BY <2>1, <2>2, <2>3, Zenon
<1>5. Empties(t, e, b)
  BY <1>4, Zenon DEF Empties
<1> QED
  BY <1>5, Zenon DEF e, b

\* And so are the groups of a regex.
LEMMA RegexEmpties ==
    ASSUME NEW e \in Seq(Text), NEW c \in Seq(Text), DOMAIN e = DOMAIN c, \A d \in DOMAIN e : e[d] = <<>>, NEW t
    PROVE  Empties(t, [number |-> None, glob |-> None, regex |-> e], [number |-> None, glob |-> None, regex |-> c])
<1> DEFINE x == [number |-> None, glob |-> None, regex |-> e]
           b == [number |-> None, glob |-> None, regex |-> c]
<1>1. <<>> \in Text /\ None \notin Text
  <2>1. <<>> \in Text
    BY DEF Text
  <2> QED
    BY <2>1, MatchingAssumption, Zenon
<1>2. x.glob = None /\ x.regex = e /\ b.glob = None /\ b.regex = c
  BY BindingsAre, Zenon
<1>3. \A d \in DOMAIN e : e[d] = <<>> /\ e[d] # None /\ c[d] # None
  <2>1. ASSUME NEW d \in DOMAIN e PROVE c[d] \in Text
    <3>1. d \in DOMAIN c
      BY Zenon
    <3> QED
      BY <3>1
  <2> QED
    BY <1>1, <2>1, Zenon
<1> HIDE DEF x, b
<1>4. ASSUME NEW i PROVE /\ Resolved(t, i, x) = None <=> Resolved(t, i, b) = None
                         /\ Resolved(t, i, x) # None => Resolved(t, i, x) = <<>>
  <2> DEFINE braces == i + 2 <= Len(t) /\ t[i] = "{" /\ t[i + 2] = "}"
             d == Digits[t[i + 1]]
             refers == t[i + 1] # "*" /\ t[i + 1] \in {"1", "2", "9"}
  <2>1. CASE ~braces
    <3>1. Resolved(t, i, x) = None /\ Resolved(t, i, b) = None
      BY <2>1, Zenon DEF Resolved
    <3> QED
      BY <3>1
  <2>2. CASE braces /\ t[i + 1] = "*"
    <3>1. Resolved(t, i, x) = None /\ Resolved(t, i, b) = None
      <4>0. "*" \notin {"1", "2", "9"}
        BY Zenon
      <4> QED
        BY <1>2, <2>2, <4>0, Zenon DEF Resolved
    <3> QED
      BY <3>1
  <2>3. CASE braces /\ refers
    <3>1. Resolved(t, i, x) = IF x.regex # None /\ d \in DOMAIN x.regex THEN x.regex[d] ELSE None
      BY <2>3, Zenon DEF Resolved
    <3>2. Resolved(t, i, b) = IF b.regex # None /\ d \in DOMAIN b.regex THEN b.regex[d] ELSE None
      BY <2>3, Zenon DEF Resolved
    <3>3. e # None /\ c # None
      BY MatchingAssumption, Zenon
    <3>4. Resolved(t, i, x) = IF d \in DOMAIN e THEN e[d] ELSE None
      BY <1>2, <3>1, <3>3, Zenon
    <3>5. Resolved(t, i, b) = IF d \in DOMAIN e THEN c[d] ELSE None
      BY <1>2, <3>2, <3>3, Zenon
    <3> QED
      BY <1>3, <3>4, <3>5, Zenon
  <2>4. CASE braces /\ t[i + 1] # "*" /\ t[i + 1] \notin {"1", "2", "9"}
    <3>1. Resolved(t, i, x) = None /\ Resolved(t, i, b) = None
      BY <2>4, Zenon DEF Resolved
    <3> QED
      BY <3>1
  <2> HIDE DEF braces
  <2> QED
    BY <2>1, <2>2, <2>3, <2>4, Zenon
<1>5. Empties(t, x, b)
  BY <1>4, Zenon DEF Empties
<1> QED
  BY <1>5, Zenon DEF x, b

\* As many groups as the engine says are captured.
LEMMA GroupsAreCaptured ==
    ASSUME NEW key, NEW t \in Text, Captured(key, t) # None
    PROVE  /\ Groups(key) # None
           /\ Captured(key, t) \in Seq(Text)
           /\ DOMAIN Captured(key, t) = 1 .. Groups(key)
           /\ [i \in 1 .. Groups(key) |-> <<>>] \in Seq(Text)
<1> DEFINE A == key = <<"(.)(.*)">>
           B == key = <<"(.*)">>
<1>0. ~(A /\ B)
  BY "(.)(.*)" # "(.*)"
<1>1. Captured(key, t) \in Seq(Text)
  BY CapturedTyped
<1>2. 1 # None /\ 2 # None
  <2>1. 1 \in Nat /\ 2 \in Nat
    OBVIOUS
  <2> QED
    BY <2>1, MatchingAssumption, Zenon
<1>3. <<>> \in Text
  BY DEF Text
<1>4. CASE A
  <2>1. Captured(key, t) = (IF t = <<>> THEN None ELSE <<SubSeq(t, 1, 1), Tail(t)>>) /\ Groups(key) = 2
    BY <1>0, <1>4, Zenon DEF Captured, Groups
  <2>2. Captured(key, t) = <<SubSeq(t, 1, 1), Tail(t)>>
    BY <2>1, Zenon
  <2> DEFINE x == SubSeq(t, 1, 1)
             y == Tail(t)
  <2> HIDE DEF x, y, A, B
  <2>3. Captured(key, t) = <<x, y>>
    BY <2>2 DEF x, y
  <2>4. DOMAIN <<x, y>> = 1 .. 2
    OBVIOUS
  <2>5. [i \in 1 .. 2 |-> <<>>] \in Seq(Text)
    BY <1>3
  <2> QED
    BY <1>1, <1>2, <2>1, <2>3, <2>4, <2>5, Zenon
<1>5. CASE B
  <2>1. Captured(key, t) = <<t>> /\ Groups(key) = 1
    BY <1>0, <1>5, Zenon DEF Captured, Groups
  <2> HIDE DEF A, B
  <2>2. DOMAIN <<t>> = 1 .. 1
    OBVIOUS
  <2>3. [i \in 1 .. 1 |-> <<>>] \in Seq(Text)
    BY <1>3
  <2> QED
    BY <1>1, <1>2, <2>1, <2>2, <2>3, Zenon
<1>6. CASE ~A /\ ~B
  <2>1. Captured(key, t) = None
    BY <1>6, Zenon DEF Captured
  <2> QED
    BY <2>1
<1> HIDE DEF A, B
<1> QED
  BY <1>4, <1>5, <1>6

\* What blankness comes to for the rules that are matched by a pattern.
LEMMA BlanknessIs ==
    ASSUME NEW r \in AbbrRule, r.kind \in {"glob", "regex"}
    PROVE  LET empty == EmptyCaptures(r) IN
           /\ Blankness(r) = "Always" =>
                 /\ empty # None /\ RendersBlank(r, empty) = TRUE
                 /\ (r.kind = "glob" /\ ~Has(r.key, "*")) \/ RendersBlank(r, NoCapture) = TRUE
           /\ Blankness(r) = "Never" => empty # None /\ RendersBlank(r, empty) = FALSE
<1> DEFINE empty == EmptyCaptures(r)
           blank == IF empty = None THEN None ELSE RendersBlank(r, empty)
           starless == r.kind = "glob" /\ ~Has(r.key, "*")
<1>0. None \notin BOOLEAN
  BY MatchingAssumption, Zenon
<1>1. None \notin {"glob", "regex"}
  BY MatchingAssumption, Zenon
<1>2. Phase(r) = r.kind /\ Phase(r) \in {"glob", "regex"} /\ Phase(r) # "exact" /\ Phase(r) # "number"
  <2>1. Phase(r) = r.kind
    BY <1>1, Zenon DEF Phase
  <2> QED
    BY <2>1
<1>3. Blankness(r) = CASE blank = None -> "DependsOnToken"
                       [] blank = FALSE -> "Never"
                       [] blank = TRUE /\ r.kind = "glob" /\ ~Has(r.key, "*") -> "Always"
                       [] OTHER -> IF RendersBlank(r, NoCapture) = TRUE THEN "Always" ELSE "DependsOnToken"
  BY <1>2, Zenon DEF Blankness
<1>4. blank \in BOOLEAN \cup {None} /\ (blank # None => empty # None /\ blank = RendersBlank(r, empty))
  BY RendersBlankIs, Zenon
<1>5. "DependsOnToken" # "Always" /\ "DependsOnToken" # "Never" /\ "Always" # "Never"
  OBVIOUS
<1> HIDE DEF blank, empty
<1>6. CASE blank = None
  <2>1. blank # TRUE /\ blank # FALSE
    BY <1>0, <1>6, Zenon
  <2>2. Blankness(r) = "DependsOnToken"
    BY <1>3, <1>6, <2>1, Zenon
  <2> QED
    BY <1>5, <2>2, Zenon
<1>7. CASE blank = FALSE
  <2>1. blank # TRUE /\ blank # None
    BY <1>0, <1>7, Zenon
  <2>2. Blankness(r) = "Never"
    BY <1>3, <1>7, <2>1, Zenon
  <2> QED
    BY <1>4, <1>5, <1>7, <2>1, <2>2, Zenon DEF empty
<1>8. CASE blank = TRUE
  <2>1. blank # FALSE /\ blank # None
    BY <1>0, <1>8, Zenon
  <2>2. starless => Blankness(r) = "Always"
    BY <1>3, <1>8, <2>1, Zenon
  <2>3. ~starless => Blankness(r) = IF RendersBlank(r, NoCapture) = TRUE THEN "Always" ELSE "DependsOnToken"
    BY <1>3, <1>8, <2>1, Zenon
  <2> QED
    BY <1>4, <1>5, <1>8, <2>1, <2>2, <2>3, Zenon DEF empty
<1> QED
  BY <1>4, <1>6, <1>7, <1>8, Zenon

\* What doctor says of blanks is so for every rule with a pattern.
LEMMA PatternBlanks ==
    ASSUME NEW r \in AbbrRule, r.kind \in {"glob", "regex"}, NEW t \in Text, Match(r, t) # None,
           Render(r, Match(r, t)) # None
    PROVE  /\ Blankness(r) = "Always" => IsBlank(Render(r, Match(r, t)).text)
           /\ Blankness(r) = "Never" => ~IsBlank(Render(r, Match(r, t)).text)
<1> DEFINE b == Match(r, t)
           e == EmptyCaptures(r)
<1>1. b \in Bindings /\ b.number = None
  <2>1. r.kind # None
    BY MatchingAssumption, Zenon
  <2> QED
    BY <2>1, MatchTyped, Zenon
<1>2. e # None => /\ e \in Bindings /\ e.number = None
                  /\ \A x \in Text : Empties(x, e, b)
                  /\ r.kind = "glob" /\ ~Has(r.key, "*") => b = e
  <2>1. CASE r.kind = "glob"
    <3>1. GlobCapture(r.key, t) # None /\ b = [number |-> None, glob |-> GlobCapture(r.key, t), regex |-> None]
      BY <2>1, MatchCases, Zenon
    <3>2. r.key \in Text
      BY DEF AbbrRule
    <3>3. GlobCapture(r.key, t) \in Text
      BY <3>1, <3>2, GlobCaptureTyped
    <3>4. r.kind # "regex"
      BY <2>1
    <3>5. e = [number |-> None, glob |-> <<>>, regex |-> None]
      BY <3>4, CaptureFields, Zenon DEF EmptyCaptures
    <3>6. <<>> \in Text
      BY DEF Text
    <3>7. e \in Bindings /\ e.number = None
      BY <3>5, <3>6, BindingsAre, Zenon
    <3>8. \A x \in Text : Empties(x, e, b)
      BY <3>1, <3>3, <3>5, GlobEmpties, Zenon
    <3>9. ~Has(r.key, "*") => b = e
      <4>1. ~Has(r.key, "*") => GlobCapture(r.key, t) = <<>>
        BY <3>1, Zenon DEF GlobCapture
      <4> QED
        BY <3>1, <3>5, <4>1, Zenon
    <3> QED
      BY <3>7, <3>8, <3>9, Zenon
  <2>2. CASE r.kind = "regex"
    <3> DEFINE c == Captured(r.key, t)
               n == [i \in 1 .. Groups(r.key) |-> <<>>]
    <3>1. c # None /\ b = [number |-> None, glob |-> None, regex |-> c]
      BY <2>2, MatchCases, Zenon
    <3>2. Groups(r.key) # None /\ c \in Seq(Text) /\ DOMAIN c = 1 .. Groups(r.key) /\ n \in Seq(Text)
      BY <3>1, GroupsAreCaptured, Zenon
    <3>3. e = [number |-> None, glob |-> None, regex |-> n]
      BY <2>2, <3>2, CaptureFields, Zenon DEF EmptyCaptures
    <3>4. DOMAIN n = DOMAIN c /\ \A d \in DOMAIN n : n[d] = <<>>
      BY <3>2, Zenon
    <3> HIDE DEF c, n
    <3>5. e \in Bindings /\ e.number = None
      BY <3>2, <3>3, BindingsAre, Zenon
    <3>6. \A x \in Text : Empties(x, e, b)
      BY <3>1, <3>2, <3>3, <3>4, RegexEmpties, Zenon
    <3>7. r.kind # "glob"
      BY <2>2
    <3> QED
      BY <3>5, <3>6, <3>7, Zenon
  <2> QED
    BY <2>1, <2>2
<1>3. ASSUME Blankness(r) = "Always" PROVE IsBlank(Render(r, b).text)
  <2>1. e # None /\ RendersBlank(r, e) = TRUE
    BY <1>3, BlanknessIs, Zenon
  <2>2. CASE r.kind = "glob" /\ ~Has(r.key, "*")
    BY <1>2, <2>1, <2>2, RendersBlankIs, Zenon
  <2>3. CASE RendersBlank(r, NoCapture) = TRUE
    <3>1. Render(r, NoCapture) # None /\ IsBlank(Render(r, NoCapture).text)
      BY <2>3, RendersBlankIs, Zenon
    <3> QED
      BY <1>1, <3>1, BlankAsWritten, Zenon
  <2> QED
    BY <1>3, <2>2, <2>3, BlanknessIs, Zenon
<1>4. ASSUME Blankness(r) = "Never" PROVE ~IsBlank(Render(r, b).text)
  <2>1. e # None /\ RendersBlank(r, e) = FALSE
    BY <1>4, BlanknessIs, Zenon
  <2>2. Render(r, e) # None /\ ~IsBlank(Render(r, e).text)
    BY <2>1, RendersBlankIs, Zenon
  <2>3. e \in Bindings /\ e.number = None /\ \A x \in Text : Empties(x, e, b)
    BY <1>2, <2>1, Zenon
  <2> HIDE DEF e, b
  <2>4. IsBlank(Render(r, b).text) => IsBlank(Render(r, e).text)
    <3>1. Render(r, b) # None
      BY DEF b
    <3> QED
      BY <1>1, <2>2, <2>3, <3>1, BlankWithEmpty, Zenon
  <2> QED
    BY <2>2, <2>4 DEF b
<1> QED
  BY <1>3, <1>4, Zenon

-----------------------------------------------------------------------------
\* Without `?` a part of a key matches itself only.
LEMMA FixedExact ==
    ASSUME NEW p \in Text, NEW x \in Text, ~Has(p, "?"), FixedPartMatches(p, x)
    PROVE  p = x
<1>1. DOMAIN p = 1 .. Len(p) /\ p \in Seq(Symbols) /\ x \in Seq(Symbols)
  BY DEF Text
<1>2. Len(p) = Len(x) /\ \A i \in 1 .. Len(p) : p[i] \in {"?", x[i]}
  BY <1>1, Zenon DEF FixedPartMatches
<1>3. \A i \in 1 .. Len(p) : p[i] = x[i]
  BY <1>1, <1>2, Zenon DEF Has
<1> QED
  BY <1>1, <1>2, <1>3, SeqEqual

\* So a key without `?` becomes the token with what its star takes.
LEMMA GlobExact ==
    ASSUME NEW key \in Text, NEW t \in Text, ~Has(key, "?"), GlobCapture(key, t) # None
    PROVE  Instance(key, GlobCapture(key, t)) = t
<1>1. CASE ~Has(key, "*")
  <2>1. FixedPartMatches(key, t)
    BY <1>1, Zenon DEF GlobCapture
  <2>2. key = t
    BY <2>1, FixedExact
  <2> QED
    BY <1>1, <2>2, Zenon DEF Instance
<1>2. CASE Has(key, "*")
  <2> DEFINE head == Before(key, First(key, "*"))
             tail == From(key, First(key, "*") + 1)
             h == Len(head)
             end == Len(t) - Len(tail)
             cond == /\ Len(head) <= end
                     /\ FixedPartMatches(head, SubSeq(t, 1, Len(head)))
                     /\ FixedPartMatches(tail, From(t, end + 1))
             mid == SubSeq(t, Len(head) + 1, end)
  <2>1. cond /\ GlobCapture(key, t) = mid
    BY <1>2, Zenon DEF GlobCapture
  <2>2. Instance(key, mid) = head \o mid \o tail
    BY <1>2, Zenon DEF Instance
  <2>3. head \in Text /\ tail \in Text
    BY <1>2, AroundTyped
  <2>4. ~Has(head, "?") /\ ~Has(tail, "?")
    <3>1. DOMAIN key = 1 .. Len(key)
      BY DEF Text
    <3>2. ASSUME Has(head, "?") \/ Has(tail, "?") PROVE FALSE
      <4>1. \E i \in 1 .. Len(key) : i # First(key, "*") /\ key[i] = "?"
        BY <1>2, <3>2, SidesHave
      <4> QED
        BY <3>1, <4>1, Zenon DEF Has
    <3> QED
      BY <3>2, Zenon
  <2> HIDE DEF head, tail
  <2>5. h \in Nat /\ Len(tail) \in Nat /\ Len(t) \in Nat /\ t \in Seq(Symbols)
    BY <2>3 DEF Text
  <2>6. h <= end /\ FixedPartMatches(head, SubSeq(t, 1, h)) /\ FixedPartMatches(tail, From(t, end + 1))
    BY <2>1
  <2> HIDE DEF h, cond, mid
  <2>7. /\ 1 \in 1 .. Len(t) + 1 /\ h \in 0 .. Len(t) /\ end + 1 \in 1 .. Len(t) + 1
        /\ end \in h .. Len(t) /\ end \in 0 .. Len(t) /\ Len(t) \in end .. Len(t) /\ h \in 1 - 1 .. Len(t)
    BY <2>5, <2>6
  <2> HIDE DEF end
  <2>8. head = SubSeq(t, 1, h)
    <3>1. SubSeq(t, 1, h) \in Text
      BY <2>5, <2>7, PartTyped DEF Text
    <3> QED
      BY <2>3, <2>4, <2>6, <3>1, FixedExact, Zenon
  <2>9. tail = SubSeq(t, end + 1, Len(t))
    <3> DEFINE e == end + 1
    <3>0. e \in 1 .. Len(t) + 1 /\ FixedPartMatches(tail, From(t, e))
      BY <2>6, <2>7
    <3> HIDE DEF e
    <3>1. From(t, e) \in Text
      BY <3>0, SidesTyped
    <3>2. tail = From(t, e)
      BY <2>3, <2>4, <3>0, <3>1, FixedExact
    <3> QED
      BY <3>2 DEF From, e
  <2>10. SubSeq(t, 1, h) \o SubSeq(t, h + 1, end) = SubSeq(t, 1, end)
    BY <2>5, <2>7, ConcatAdjacentSubSeq
  <2>11. SubSeq(t, 1, end) \o SubSeq(t, end + 1, Len(t)) = SubSeq(t, 1, Len(t))
    <3>1. 1 \in 1 .. Len(t) + 1 /\ end \in 1 - 1 .. Len(t) /\ Len(t) \in end .. Len(t)
      BY <2>7
    <3> QED
      BY <2>5, <3>1, ConcatAdjacentSubSeq, Zenon
  <2>12. SubSeq(t, 1, Len(t)) = t
    BY <2>5, SubSeqFull
  <2>13. mid = SubSeq(t, h + 1, end)
    BY DEF mid, h
  <2> QED
    BY <2>1, <2>2, <2>8, <2>9, <2>10, <2>11, <2>12, <2>13, Zenon
<1> QED
  BY <1>1, <1>2

-----------------------------------------------------------------------------
\* Where a `{*}` is in a template.
LEMMA StarIn ==
    ASSUME NEW t \in Text, Star \in Parts(t)
    PROVE  \E i \in 1 .. Len(t) : i + 2 <= Len(t) /\ StarAt(t, i)
<1> DEFINE s == Star
<1>1. PICK i \in 1 .. Len(t) + 1, j \in 0 .. Len(t) : s = SubSeq(t, i, j)
  BY DEF Parts
<1>2. Len(s) = 3
  BY Zenon DEF Star
<1>3. IsStar(s[2]) /\ Opens(s[1]) /\ Closes(s[3])
  <2>1. \A x, y, z : <<x, y, z>>[1] = x /\ <<x, y, z>>[2] = y /\ <<x, y, z>>[3] = z
    OBVIOUS
  <2> QED
    BY <2>1, Zenon DEF Star, IsStar, Opens, Closes
<1> HIDE DEF s
<1>4. Len(t) \in Nat /\ t \in Seq(Symbols)
  BY DEF Text
<1>5. i <= j /\ j = i + 2 /\ s[1] = t[i] /\ s[2] = t[i + 1] /\ s[3] = t[i + 2]
  <2>1. Len(SubSeq(t, i, j)) = (IF i <= j THEN j - i + 1 ELSE 0) /\ \A k \in 1 .. j - i + 1 : SubSeq(t, i, j)[k] = t[i + k - 1]
    BY <1>4
  <2>2. i <= j /\ j = i + 2
    BY <1>1, <1>2, <1>4, <2>1
  <2>3. \A k \in 1 .. 3 : s[k] = t[i + k - 1]
    BY <1>1, <2>1, <2>2
  <2>4. s[1] = t[i] /\ s[2] = t[i + 1] /\ s[3] = t[i + 2]
    BY <2>3
  <2> QED
    BY <2>2, <2>4
<1>6. i \in 1 .. Len(t) /\ i + 2 <= Len(t)
  BY <1>4, <1>5
<1>7. StarAt(t, i)
  BY <1>3, <1>5, Zenon DEF StarAt
<1> QED
  BY <1>6, <1>7

\* A `{}` beside the `{*}` is on one side of it.
LEMMA CutBesideStar ==
    ASSUME NEW e \in Text, NEW c \in 1 .. Len(e) - 1, c \in CursorAt(e), Star \in Parts(e),
           NEW h \in Text, NEW t \in Text, Star \in Text, ~HasOpening(h), ~HasOpening(t),
           Before(e, c) \o From(e, c + 2) = h \o Star \o t
    PROVE  Len(h) + 3 <= Len(Before(e, c)) \/ Len(Before(e, c)) <= Len(h)
<1> DEFINE x == Before(e, c)
           q == c + 2
           y == From(e, q)
           w == h \o Star \o t
<1>0. Len(e) \in Nat /\ Len(h) \in Nat
  BY DEF Text
<1>1. q \in 1 .. Len(e) + 1 /\ q = c + 2 /\ c \in 1 .. Len(e) + 1
  BY <1>0
<1>2. x \in Text /\ Len(x) = c - 1 /\ \A k \in 1 .. c - 1 : x[k] = e[k]
  BY <1>1, SidesTyped
<1> HIDE DEF x, q
<1>3. y \in Text /\ Len(y) = Len(e) - q + 1 /\ \A k \in 1 .. Len(e) - q + 1 : y[k] = e[q + k - 1]
  BY <1>1, SidesTyped, Zenon
<1>4. x \o y = w
  BY <1>1, Zenon DEF x, q
<1> HIDE DEF y
<1>5. /\ Len(w) = Len(x) + Len(y)
      /\ \A k \in 1 .. Len(x) : w[k] = x[k]
      /\ \A k \in 1 .. Len(y) : w[Len(x) + k] = y[k]
  <2> DEFINE xy == x \o y
  <2>1. x \in Seq(Symbols) /\ y \in Seq(Symbols)
    BY <1>2, <1>3 DEF Text
  <2>2. /\ Len(xy) = Len(x) + Len(y)
        /\ \A k \in 1 .. Len(x) : xy[k] = x[k]
        /\ \A k \in 1 .. Len(y) : xy[Len(x) + k] = y[k]
    BY <2>1, JoinIs
  <2>3. xy = w
    BY <1>4, Zenon
  <2> HIDE DEF xy, w
  <2> QED
    BY <2>2, <2>3, Zenon
<1>6. \A k \in 1 .. Len(w) : Opens(w[k]) => k = Len(h) + 1
  BY StarParts, Zenon
<1> HIDE DEF w
<1>7. Opens(e[c]) /\ Closes(e[c + 1])
  BY Zenon DEF CursorAt, Opens, Closes
<1>8. PICK i \in 1 .. Len(e) : i + 2 <= Len(e) /\ StarAt(e, i)
  BY StarIn
<1>9. Opens(e[i]) /\ IsStar(e[i + 1]) /\ Closes(e[i + 2])
  BY <1>8, Zenon DEF StarAt
<1>10. c # i /\ c # i + 1 /\ c # i + 2 /\ c + 1 # i
  <2>1. c # i
    BY <1>7, <1>9, BracesDiffer, Zenon
  <2>2. c # i + 1
    BY <1>7, <1>9, BracesDiffer, Zenon
  <2>3. c # i + 2
    BY <1>7, <1>9, BracesDiffer, Zenon
  <2>4. c + 1 # i
    BY <1>7, <1>9, BracesDiffer, Zenon
  <2> QED
    BY <2>1, <2>2, <2>3, <2>4
<1>11. CASE i + 2 < c
  <2>1. i \in 1 .. c - 1 /\ i \in 1 .. Len(x) /\ i \in 1 .. Len(w)
    BY <1>0, <1>1, <1>2, <1>3, <1>5, <1>11
  <2>2. w[i] = e[i]
    BY <1>2, <1>5, <2>1, Zenon
  <2>3. i = Len(h) + 1
    BY <1>6, <1>9, <2>1, <2>2, Zenon
  <2>4. Len(h) + 3 <= Len(x)
    BY <1>0, <1>2, <1>11, <2>3
  <2> QED
    BY <2>4 DEF x
<1>12. CASE q <= i
  <2> DEFINE k == i - q + 1
             m == i - 2
  <2>1. k \in 1 .. Len(e) - q + 1 /\ k \in 1 .. Len(y) /\ m \in 1 .. Len(w) /\ Len(x) + k = m /\ q + k - 1 = i
    BY <1>0, <1>1, <1>2, <1>3, <1>5, <1>8, <1>12
  <2> HIDE DEF k, m
  <2>2. w[m] = e[i]
    BY <1>3, <1>5, <2>1, Zenon
  <2>3. m = Len(h) + 1
    BY <1>6, <1>9, <2>1, <2>2, Zenon
  <2>4. Len(x) <= Len(h)
    BY <1>0, <1>1, <1>2, <1>12, <2>3 DEF m
  <2> QED
    BY <2>4 DEF x
<1>13. i + 2 < c \/ q <= i
  BY <1>0, <1>1, <1>10
<1> QED
  BY <1>11, <1>12, <1>13

-----------------------------------------------------------------------------
RendersWithStar(r, b, e, h, t) ==
    /\ Cardinality(CursorAt(e)) < 2 /\ Star \in Parts(e) /\ WithoutCursors(e) = h \o Star \o t
    /\ RenderNumber(r, b) = e /\ Render(r, b) # None

\* With a `{*}` in it that is what the key becomes with its capture.
LEMMA StarRendered ==
    ASSUME NEW e \in Text, NEW h \in Text, NEW t \in Text, NEW b \in Bindings, NEW r, Star \in Text,
           ~Opened(h, t), HasGlob(b), RendersWithStar(r, b, e, h, t)
    PROVE  Render(r, b).text = h \o b.glob \o t
<1>3. ~HasOpening(h) /\ ~HasOpening(t) /\ b.glob # None
  BY Zenon DEF Opened, HasGlob
<1>4. /\ Cardinality(CursorAt(e)) < 2 /\ Star \in Parts(e) /\ WithoutCursors(e) = h \o Star \o t
      /\ RenderNumber(r, b) = e /\ Render(r, b) # None
  BY Zenon DEF RendersWithStar
<1>1. CASE WithoutCursors(e) = e /\ Render(r, b).text = Substituted(e, b)
  <2>1. e = h \o Star \o t
    BY <1>1, <1>4, Zenon
  <2>2. Substituted(h \o Star \o t, b) = h \o b.glob \o t
    BY <1>3, StarPut
  <2> QED
    BY <1>1, <2>1, <2>2, Zenon
<1>2. ASSUME NEW c \in 1 .. Len(e) - 1, c \in CursorAt(e),
             Before(e, c) \in Text, From(e, c + 2) \in Text,
             WithoutCursors(e) = Before(e, c) \o From(e, c + 2),
             Render(r, b).text = Substituted(Before(e, c), b) \o Substituted(From(e, c + 2), b)
      PROVE  Render(r, b).text = h \o b.glob \o t
  <2> DEFINE x == Before(e, c)
             y == From(e, c + 2)
  <2>1. x \o y = h \o Star \o t
    BY <1>2, <1>4, Zenon
  <2>2. Len(h) + 3 <= Len(x) \/ Len(x) <= Len(h)
    BY <1>2, <1>3, <1>4, <2>1, CutBesideStar, Zenon
  <2>3. x \in Text
    BY <1>2, Zenon
  <2>4. y \in Text
    BY <1>2, Zenon
  <2>5. Render(r, b).text = Substituted(x, b) \o Substituted(y, b)
    BY <1>2, Zenon
  <2> HIDE DEF x, y
  <2>7. Beside(x, y, h, t) /\ ~Opened(h, t) /\ HasGlob(b)
    BY <2>1, <2>2, Zenon DEF Beside, Opened, HasGlob
  <2>8. Together(x, y, h, t, b)
    BY <2>3, <2>4, <2>7, StarPutInPieces
  <2>6. Substituted(x, b) \o Substituted(y, b) = h \o b.glob \o t
    BY <2>8, Zenon DEF Together
  <2> QED
    BY <2>5, <2>6, Zenon
<1> QED
  BY <1>1, <1>2, <1>4, RenderedWithoutCursor, ZenonT(60)

\* What doctor says of a glob that rewrites the token to itself is so for every token.
LEMMA GlobRewrites ==
    ASSUME NEW r \in AbbrRule, r.kind = "glob", RuleIssues(r) = <<>>, NEW t \in Text, Match(r, t) # None,
           Render(r, Match(r, t)) # None, RewritesTokenToItself(r), CutsCleanly(r)
    PROVE  Render(r, Match(r, t)).text = t
<1> DEFINE b == Match(r, t)
           g == GlobCapture(r.key, t)
           h == Before(r.key, First(r.key, "*"))
           z == From(r.key, First(r.key, "*") + 1)
<1>0. r.kind # None /\ r.kind # "regex"
  <2>1. r.kind # None
    BY MatchingAssumption, Zenon
  <2> QED
    BY <2>1
<1>1. r.key \in Text /\ r.expand \in Text
  BY DEF AbbrRule
<1>2. g # None /\ b = [number |-> None, glob |-> g, regex |-> None]
  BY MatchCases, Zenon
<1>3. g \in Text
  BY <1>1, <1>2, GlobCaptureTyped
<1>4. b \in Bindings /\ b.number = None /\ b.glob = g
  BY <1>2, <1>3, BindingsAre, Zenon
<1>5. RenderNumber(r, b) = r.expand
  BY <1>4, RenderNumberCases, Zenon
<1>6. ~Has(r.key, "?") /\ WithoutCursors(r.expand) = IF Has(r.key, "*") THEN h \o Star \o z ELSE r.key
  BY <1>0, Zenon DEF RewritesTokenToItself, Star
<1>7. ~HasOpening(r.key)
  BY <1>0, RuleIssuesIs, WalkNumberIs, Zenon DEF HasOpening
<1>8. Instance(r.key, g) = t
  BY <1>1, <1>2, <1>6, GlobExact
<1>9. Cardinality(CursorAt(r.expand)) < 2 /\ (Has(r.key, "*") => Star \in Parts(r.expand))
  BY Zenon DEF CutsCleanly, Star
<1>10. Render(r, b) # None
  BY Zenon
<1> HIDE DEF b, g
<1>11. CASE Has(r.key, "*")
  <2>1. h \in Text /\ z \in Text
    BY <1>1, <1>11, AroundTyped
  <2>2. ~HasOpening(h) /\ ~HasOpening(z)
    BY <1>1, <1>7, <1>11, NowhereAround, Zenon DEF HasOpening
  <2>3. Star \in Text
    BY <1>1, <1>11, StarTyped
  <2>4. Star \in Parts(r.expand) /\ WithoutCursors(r.expand) = h \o Star \o z
    BY <1>6, <1>9, <1>11, Zenon
  <2>5. Instance(r.key, g) = h \o g \o z
    BY <1>11, Zenon DEF Instance
  <2> HIDE DEF h, z
  <2>6. HasGlob(b) /\ ~Opened(h, z)
    BY <1>2, <1>4, <2>2, Zenon DEF b, HasGlob, Opened
  <2>8. RendersWithStar(r, b, r.expand, h, z)
    BY <1>5, <1>9, <1>10, <2>4, Zenon DEF RendersWithStar
  <2>9. b \in Bindings
    BY <1>4, Zenon
  <2>10. r.expand \in Text
    BY <1>1, Zenon
  <2>11. h \in Text
    BY <2>1, Zenon
  <2>12. z \in Text
    BY <2>1, Zenon
  <2>7. Render(r, b).text = h \o b.glob \o z
    BY <2>3, <2>6, <2>8, <2>9, <2>10, <2>11, <2>12, StarRendered
  <2> QED
    BY <1>4, <1>8, <2>5, <2>7, Zenon DEF b
<1>12. CASE ~Has(r.key, "*")
  <2>1. WithoutCursors(r.expand) = r.key /\ Instance(r.key, g) = r.key
    BY <1>6, <1>12, Zenon DEF Instance
  <2>2. Render(r, b).text = r.key
    BY <1>1, <1>4, <1>5, <1>7, <1>9, <1>10, <2>1, PlainRendered
  <2> QED
    BY <1>8, <2>1, <2>2, Zenon DEF b
<1> QED
  BY <1>11, <1>12

-----------------------------------------------------------------------------
\* A unit repeated has what the unit has.
LEMMA RepeatHas ==
    ASSUME NEW unit \in Text, NEW n \in Nat, n >= 1
    PROVE  Repeat(unit, n) \in Text /\ \A x : Has(Repeat(unit, n), x) <=> Has(unit, x)
<1> DEFINE units == [i \in 1 .. n |-> unit]
<1>1. units \in Seq(Text) /\ Len(units) = n /\ 1 \in 1 .. n
  OBVIOUS
<1>2. \A i \in 1 .. n : units[i] = unit
  BY Zenon
<1>3. Repeat(unit, n) = FlattenSeq(units)
  BY Zenon DEF Repeat
<1> HIDE DEF units
<1>4. FlattenSeq(units) \in Text /\ \A x : Has(FlattenSeq(units), x) <=> \E i \in 1 .. Len(units) : Has(units[i], x)
  BY <1>1, FlattenHas
<1> QED
  BY <1>1, <1>2, <1>3, <1>4, Zenon

NoCursor(t) == \A i \in 1 .. Len(t) - 1 : ~(Opens(t[i]) /\ Closes(t[i + 1]))
EndsOpen(t) == Len(t) >= 1 /\ Opens(t[Len(t)])
BeginsClosed(t) == Len(t) >= 1 /\ Closes(t[1])

\* No `{}` is no opening brace before a closing one.
LEMMA NoCursorIs == ASSUME NEW t PROVE CursorAt(t) = {} <=> NoCursor(t)
BY Zenon DEF CursorAt, NoCursor, Opens, Closes

\* Two texts without one have none together if they do not meet in one.
LEMMA NoCursorJoined ==
    ASSUME NEW a \in Text, NEW b \in Text, NoCursor(a), NoCursor(b), ~(EndsOpen(a) /\ BeginsClosed(b))
    PROVE  NoCursor(a \o b)
<1> DEFINE w == a \o b
<1>1. a \in Seq(Symbols) /\ b \in Seq(Symbols)
  BY DEF Text
<1>2. /\ Len(a) \in Nat /\ Len(b) \in Nat /\ Len(w) = Len(a) + Len(b)
      /\ \A k \in 1 .. Len(a) : w[k] = a[k]
      /\ \A k \in 1 .. Len(b) : w[Len(a) + k] = b[k]
  BY <1>1, JoinIs
<1> HIDE DEF w
<1>3. ASSUME NEW i \in 1 .. Len(w) - 1, Opens(w[i]), Closes(w[i + 1]) PROVE FALSE
  <2>1. CASE i + 1 <= Len(a)
    <3>1. i \in 1 .. Len(a) - 1 /\ i \in 1 .. Len(a) /\ i + 1 \in 1 .. Len(a)
      BY <1>2, <2>1
    <3>2. w[i] = a[i] /\ w[i + 1] = a[i + 1]
      BY <1>2, <3>1
    <3> QED
      BY <1>3, <3>1, <3>2, Zenon DEF NoCursor
  <2>2. CASE i = Len(a)
    <3>1. Len(a) \in 1 .. Len(a) /\ 1 \in 1 .. Len(b) /\ Len(a) >= 1 /\ Len(b) >= 1
      BY <1>2, <2>2
    <3>2. w[i] = a[Len(a)] /\ w[i + 1] = b[1]
      BY <1>2, <2>2, <3>1
    <3> QED
      BY <1>3, <3>1, <3>2, Zenon DEF EndsOpen, BeginsClosed
  <2>3. CASE i > Len(a)
    <3> DEFINE k == i - Len(a)
    <3>1. k \in 1 .. Len(b) - 1 /\ k \in 1 .. Len(b) /\ k + 1 \in 1 .. Len(b) /\ Len(a) + k = i /\ Len(a) + (k + 1) = i + 1
      BY <1>2, <2>3
    <3> HIDE DEF k
    <3>2. w[i] = b[k] /\ w[i + 1] = b[k + 1]
      BY <1>2, <3>1
    <3> QED
      BY <1>3, <3>1, <3>2, Zenon DEF NoCursor
  <2>4. i + 1 <= Len(a) \/ i = Len(a) \/ i > Len(a)
    BY <1>2
  <2> QED
    BY <2>1, <2>2, <2>3, <2>4
<1> QED
  BY <1>3, Zenon DEF NoCursor, w

\* They end as the second does.
LEMMA EndsJoined ==
    ASSUME NEW a \in Text, NEW b \in Text, Len(b) >= 1
    PROVE  EndsOpen(a \o b) <=> EndsOpen(b)
<1> DEFINE w == a \o b
<1>1. a \in Seq(Symbols) /\ b \in Seq(Symbols)
  BY DEF Text
<1>2. /\ Len(a) \in Nat /\ Len(b) \in Nat /\ Len(w) = Len(a) + Len(b)
      /\ \A k \in 1 .. Len(b) : w[Len(a) + k] = b[k]
  BY <1>1, JoinIs
<1> HIDE DEF w
<1>3. w[Len(w)] = b[Len(b)] /\ Len(w) >= 1
  <2>1. Len(b) \in 1 .. Len(b)
    BY <1>2
  <2>2. w[Len(a) + Len(b)] = b[Len(b)]
    BY <1>2, <2>1
  <2> QED
    BY <1>2, <2>2
<1> QED
  BY <1>3, Zenon DEF EndsOpen, w

BraceFree(u) == ~Has(u, "{") /\ ~Has(u, "}")

\* Nothing opens or closes in a text without braces.
LEMMA BraceFreeIs ==
    ASSUME NEW u \in Text, BraceFree(u)
    PROVE  NoCursor(u) /\ ~EndsOpen(u) /\ ~BeginsClosed(u)
<1>1. Len(u) \in Nat /\ DOMAIN u = 1 .. Len(u)
  BY DEF Text
<1>2. \A i \in 1 .. Len(u) : ~Opens(u[i]) /\ ~Closes(u[i])
  BY <1>1, Zenon DEF BraceFree, Has, Opens, Closes
<1>3. NoCursor(u)
  <2>1. \A i \in 1 .. Len(u) - 1 : i \in 1 .. Len(u)
    BY <1>1
  <2> QED
    BY <1>2, <2>1, Zenon DEF NoCursor
<1>4. Len(u) >= 1 => Len(u) \in 1 .. Len(u) /\ 1 \in 1 .. Len(u)
  BY <1>1
<1> QED
  BY <1>2, <1>3, <1>4, Zenon DEF EndsOpen, BeginsClosed

\* Units without braces form no `{}` in a template that has none.
LEMMA UnitsFormNone ==
    ASSUME NEW t \in Text, NoCursor(t), NEW u \in Text, Len(u) >= 1, BraceFree(u)
    PROVE  NoCursor(FlattenSeq(Pieces(t, u)))
<1> DEFINE s == Pieces(t, u)
           n == Len(t)
<1>1. /\ s \in Seq(Text) /\ Len(s) = n
      /\ \A i \in 1 .. n : s[i] = IF IsUnit(t[i]) THEN u ELSE <<t[i]>>
  BY PiecesAre, Zenon
<1> HIDE DEF s
<1>2. PICK g : Running(g, s)
  BY <1>1, FlattenRuns
<1>3. /\ g \in [0 .. n -> Text] /\ g[0] = <<>> /\ FlattenSeq(s) = g[n]
      /\ \A i \in 1 .. n : g[i] = g[i - 1] \o s[i]
  BY <1>1, <1>2, Zenon DEF Running
<1>4. n \in Nat
  BY DEF Text
<1> DEFINE T == { i \in Nat : i <= n => NoCursor(g[i]) /\ (EndsOpen(g[i]) => i >= 1 /\ Opens(t[i])) }
<1>5. 0 \in T
  <2>1. NoCursor(<<>>) /\ ~EndsOpen(<<>>)
    BY DEF NoCursor, EndsOpen
  <2>2. 0 \in Nat
    OBVIOUS
  <2> QED
    BY <1>3, <2>1, <2>2, Zenon
<1>6. ASSUME NEW k \in Nat, k \in T PROVE k + 1 \in T
  <2> DEFINE i == k + 1
             p == s[i]
  <2>1. ASSUME i <= n PROVE NoCursor(g[i]) /\ (EndsOpen(g[i]) => i >= 1 /\ Opens(t[i]))
    <3>1. k <= n /\ k \in 0 .. n /\ i \in 1 .. n /\ i - 1 = k /\ i >= 1
      BY <1>4, <2>1
    <3>2. NoCursor(g[k]) /\ (EndsOpen(g[k]) => k >= 1 /\ Opens(t[k]))
      BY <1>6, <3>1, Zenon
    <3>9. k >= 1 => k \in 1 .. Len(t) - 1
      BY <1>4, <2>1
    <3>10. k >= 1 => ~(Opens(t[k]) /\ Closes(t[i]))
      BY <3>9, Zenon DEF NoCursor
    <3> HIDE DEF i
    <3>3. g[i] = g[k] \o p
      BY <1>3, <3>1, Zenon
    <3>4. g[k] \in Text /\ p \in Text
      BY <1>1, <1>3, <3>1
    <3>5. p = IF IsUnit(t[i]) THEN u ELSE <<t[i]>>
      BY <1>1, <3>1, Zenon
    <3> HIDE DEF p
    <3>6. Len(p) >= 1 /\ NoCursor(p) /\ (EndsOpen(p) => Opens(t[i])) /\ (BeginsClosed(p) => Closes(t[i]))
      <4>1. CASE IsUnit(t[i])
        <5>1. p = u
          BY <3>5, <4>1, Zenon
        <5> QED
          BY <5>1, BraceFreeIs, Zenon
      <4>2. CASE ~IsUnit(t[i])
        <5>1. p = <<t[i]>>
          BY <3>5, <4>2, Zenon
        <5>2. Len(p) = 1 /\ p[1] = t[i]
          BY <5>1
        <5>3. 1 >= 1 /\ \A j \in 1 .. 1 - 1 : FALSE
          OBVIOUS
        <5> QED
          BY <5>2, <5>3, Zenon DEF NoCursor, EndsOpen, BeginsClosed
      <4> QED
        BY <4>1, <4>2
    <3>7. NoCursor(g[k] \o p)
      <4>1. ~(EndsOpen(g[k]) /\ BeginsClosed(p))
        BY <3>2, <3>6, <3>10, Zenon
      <4> QED
        BY <3>2, <3>4, <3>6, <4>1, NoCursorJoined
    <3>8. EndsOpen(g[k] \o p) <=> EndsOpen(p)
      BY <3>4, <3>6, EndsJoined
    <3> QED
      BY <3>1, <3>3, <3>6, <3>7, <3>8, Zenon
  <2>2. k + 1 \in Nat
    OBVIOUS
  <2> QED
    BY <2>1, <2>2, Zenon
<1>7. Nat \subseteq T
  <2> HIDE DEF T
  <2> QED BY <1>5, <1>6, Induction
<1>8. n <= n /\ n \in T
  <2> HIDE DEF T
  <2> QED BY <1>4, <1>7
<1>9. NoCursor(g[n])
  BY <1>8, Zenon
<1> QED
  BY <1>3, <1>9, Zenon DEF s

-----------------------------------------------------------------------------
Pair == <<"{", "}">>

\* The `{}` is a text, and neither of its braces is blank.
LEMMA PairIs ==
    /\ Pair \in Text /\ Len(Pair) = 2 /\ Opens(Pair[1]) /\ Closes(Pair[2])
    /\ \A x : ~(Opens(x) /\ Blank(x)) /\ ~(Closes(x) /\ Blank(x)) /\ ~(Opens(x) /\ Closes(x))
<1>1. "{" \in Symbols /\ "}" \in Symbols
  BY MatchingAssumption, Zenon
<1>2. \A a, b \in Symbols : <<a, b>> \in Seq(Symbols)
  OBVIOUS
<1>3. \A a, b : Len(<<a, b>>) = 2 /\ <<a, b>>[1] = a /\ <<a, b>>[2] = b
  OBVIOUS
<1>4. Pair \in Text
  BY <1>1, <1>2, Zenon DEF Pair, Text
<1>5. Len(Pair) = 2 /\ Opens(Pair[1]) /\ Closes(Pair[2])
  BY <1>3, Zenon DEF Pair, Opens, Closes
<1>6. \A x : ~(Opens(x) /\ Blank(x)) /\ ~(Closes(x) /\ Blank(x)) /\ ~(Opens(x) /\ Closes(x))
  BY Zenon DEF Opens, Closes, Blank
<1> QED
  BY <1>4, <1>5, <1>6

\* A blank text, symbol by symbol.
LEMMA BlankText == ASSUME NEW t \in Text PROVE IsBlank(t) <=> \A k \in 1 .. Len(t) : Blank(t[k])
<1>1. DOMAIN t = 1 .. Len(t)
  BY DEF Text
<1> QED
  BY <1>1, Zenon DEF IsBlank, Blank

\* A text without its first `{}`.
Bare(t) ==
    IF FirstCursor(t) = None THEN t
    ELSE Before(t, FirstCursor(t)) \o From(t, FirstCursor(t) + 2)

\* A text with a `{}` is blank without the first if it is blank around this one, for else
\* another brace stays.
LEMMA BareBlank ==
    ASSUME NEW x \in Text, NEW y \in Text, NEW w \in Text, SameParts(x, Pair, y, w)
    PROVE  IsBlank(Bare(w)) <=> IsBlank(x) /\ IsBlank(y)
<1> DEFINE n == Len(x)
           j == n + 1
           i == FirstCursor(w)
<1>1. n \in Nat /\ Len(y) \in Nat /\ Len(w) \in Nat
  BY DEF Text
<1>2. /\ n + 2 + Len(y) = Len(w)
      /\ \A k \in 1 .. n : x[k] = w[k]
      /\ \A k \in 1 .. 2 : Pair[k] = w[n + k]
      /\ \A k \in 1 .. Len(y) : y[k] = w[n + 2 + k]
  BY PairIs, Zenon DEF SameParts
<1>20. n + 2 + Len(y) = Len(w)
  BY <1>2, Zenon
<1>3. Opens(w[j]) /\ Closes(w[j + 1]) /\ j \in 1 .. Len(w) - 1
  <2>1. 1 \in 1 .. 2 /\ 2 \in 1 .. 2 /\ n + 1 = j /\ n + 2 = j + 1 /\ j \in 1 .. Len(w) - 1
    BY <1>1, <1>20
  <2> HIDE DEF n, j
  <2>2. w[j] = Pair[1] /\ w[j + 1] = Pair[2]
    BY <1>2, <2>1, Zenon
  <2> QED
    BY <2>1, <2>2, PairIs, Zenon
<1>4. i # None /\ i <= j /\ i \in 1 .. Len(w) - 1 /\ Opens(w[i]) /\ Closes(w[i + 1])
  <2>1. j \in CursorAt(w)
    BY <1>3, Zenon DEF CursorAt, Opens, Closes
  <2> HIDE DEF j
  <2>2. i # None /\ i \in CursorAt(w) /\ i <= j
    BY <2>1, FirstCursorIs, Zenon
  <2>3. i \in 1 .. Len(w) - 1 /\ Opens(w[i]) /\ Closes(w[i + 1])
    BY <2>2, Zenon DEF CursorAt, Opens, Closes
  <2> QED
    BY <2>2, <2>3, Zenon
<1> DEFINE q == i + 2
           l == Before(w, i)
           r == From(w, q)
<1>5. Bare(w) = l \o r
  BY <1>4, Zenon DEF Bare
<1> HIDE DEF i
<1>21. i <= j /\ i \in 1 .. Len(w) - 1
  BY <1>4, Zenon
<1>6. q \in 1 .. Len(w) + 1 /\ q = i + 2 /\ i \in 1 .. Len(w) + 1
  BY <1>1, <1>21
<1>7. l \in Text /\ Len(l) = i - 1 /\ \A k \in 1 .. i - 1 : l[k] = w[k]
  BY <1>6, SidesTyped
<1> HIDE DEF l, q
<1>8. r \in Text /\ Len(r) = Len(w) - q + 1 /\ \A k \in 1 .. Len(w) - q + 1 : r[k] = w[q + k - 1]
  BY <1>6, SidesTyped, Zenon
<1> HIDE DEF r
<1>9. IsBlank(Bare(w)) <=> IsBlank(l) /\ IsBlank(r)
  BY <1>5, <1>7, <1>8, BlankJoined, SMTT(60)
<1>10. ASSUME IsBlank(x), IsBlank(y) PROVE IsBlank(l) /\ IsBlank(r)
  <2>1. (\A k \in 1 .. Len(x) : Blank(x[k])) /\ \A k \in 1 .. Len(y) : Blank(y[k])
    BY <1>10, BlankText, Zenon
  <2>2. i = j
    <3>1. ASSUME i < j PROVE FALSE
      <4>1. i \in 1 .. n
        BY <1>1, <1>21, <3>1
      <4>2. Blank(w[i])
        BY <1>2, <2>1, <4>1, Zenon
      <4> QED
        BY <1>4, <4>2, PairIs, Zenon
    <3> QED
      BY <1>1, <1>21, <3>1
  <2>3. ASSUME NEW k \in 1 .. Len(l) PROVE Blank(l[k])
    <3>1. k \in 1 .. n /\ k \in 1 .. i - 1
      BY <1>1, <1>7, <2>2
    <3>2. l[k] = w[k]
      BY <1>7, <3>1
    <3> QED
      BY <1>2, <2>1, <3>1, <3>2, Zenon
  <2>4. ASSUME NEW k \in 1 .. Len(r) PROVE Blank(r[k])
    <3>1. k \in 1 .. Len(w) - q + 1 /\ k \in 1 .. Len(y) /\ q + k - 1 = n + 2 + k
      BY <1>1, <1>6, <1>8, <1>20, <2>2
    <3>2. r[k] = w[n + 2 + k]
      BY <1>8, <3>1
    <3> QED
      BY <1>2, <2>1, <3>1, <3>2, Zenon
  <2> QED
    BY <1>7, <1>8, <2>3, <2>4, BlankText, Zenon
<1>11. ASSUME IsBlank(l), IsBlank(r) PROVE IsBlank(x) /\ IsBlank(y)
  <2>1. (\A k \in 1 .. Len(l) : Blank(l[k])) /\ \A k \in 1 .. Len(r) : Blank(r[k])
    BY <1>7, <1>8, <1>11, BlankText, Zenon
  <2>2. i = j
    <3>1. ASSUME i < j PROVE FALSE
      <4>1. i + 1 # j
        BY <1>3, <1>4, PairIs, Zenon
      <4> DEFINE k == j - q + 1
      <4>2. k \in 1 .. Len(r) /\ k \in 1 .. Len(w) - q + 1 /\ q + k - 1 = j
        <5>1. j \in 1 .. Len(w) - 1
          BY <1>3, Zenon
        <5> QED
          BY <1>1, <1>6, <1>8, <3>1, <4>1, <5>1
      <4> HIDE DEF k, j
      <4>3. r[k] = w[j]
        BY <1>8, <4>2
      <4>4. Blank(w[j])
        BY <2>1, <4>2, <4>3, Zenon
      <4> QED
        BY <1>3, <4>4, PairIs, Zenon
    <3> QED
      BY <1>1, <1>21, <3>1
  <2>3. ASSUME NEW k \in 1 .. Len(x) PROVE Blank(x[k])
    <3>1. k \in 1 .. n /\ k \in 1 .. i - 1 /\ k \in 1 .. Len(l)
      BY <1>1, <1>7, <2>2
    <3>2. l[k] = w[k]
      BY <1>7, <3>1
    <3> QED
      BY <1>2, <2>1, <3>1, <3>2, Zenon
  <2>4. ASSUME NEW k \in 1 .. Len(y) PROVE Blank(y[k])
    <3>1. k \in 1 .. Len(w) - q + 1 /\ k \in 1 .. Len(r) /\ q + k - 1 = n + 2 + k
      BY <1>1, <1>6, <1>8, <1>20, <2>2
    <3>2. r[k] = w[n + 2 + k]
      BY <1>8, <3>1
    <3> QED
      BY <1>2, <2>1, <3>1, <3>2, Zenon
  <2> QED
    BY <2>3, <2>4, BlankText, Zenon
<1> QED
  BY <1>9, <1>10, <1>11

\* The pieces that are kept when the first `{}` is taken out.
Kept(t) == { i \in 1 .. Len(t) : FirstCursor(t) # None => i # FirstCursor(t) /\ i # FirstCursor(t) + 1 }

BlankAll(s, p, q) == \A i \in p .. q : IsBlank(s[i])

\* What is gathered is blank if each part is.
LEMMA GathersBlank ==
    ASSUME NEW seqs, NEW y, NEW p, NEW q, \A x : Has(y, x) <=> \E i \in p .. q : Has(seqs[i], x)
    PROVE  IsBlank(y) <=> BlankAll(seqs, p, q)
<1>1. IsBlank(y) => BlankAll(seqs, p, q)
  BY BlankHas, Zenon DEF BlankAll
<1>2. BlankAll(seqs, p, q) => IsBlank(y)
  BY BlankHas, Zenon DEF BlankAll
<1> QED
  BY <1>1, <1>2

\* Two symbols make a text of two.
LEMMA SinglesJoined ==
    ASSUME NEW S, NEW a \in S, NEW b \in S
    PROVE  <<a>> \o <<b>> = <<a, b>>
<1> DEFINE x == <<a>>
           y == <<b>>
           z == <<a, b>>
           w == x \o y
<1>1. x \in Seq(S) /\ y \in Seq(S) /\ z \in Seq(S)
  OBVIOUS
<1>2. Len(x) = 1 /\ Len(y) = 1 /\ Len(z) = 2 /\ x[1] = a /\ y[1] = b /\ z[1] = a /\ z[2] = b
  OBVIOUS
<1> HIDE DEF x, y, z
<1>3. /\ w \in Seq(S) /\ Len(w) = Len(x) + Len(y)
      /\ \A k \in 1 .. Len(x) : w[k] = x[k]
      /\ \A k \in 1 .. Len(y) : w[Len(x) + k] = y[k]
  BY <1>1, JoinIs
<1> HIDE DEF w
<1>4. Len(w) = Len(z) /\ w[1] = z[1] /\ w[2] = z[2]
  BY <1>2, <1>3
<1>5. \A i \in 1 .. Len(w) : w[i] = z[i]
  BY <1>2, <1>4
<1>6. w = z
  BY <1>1, <1>3, <1>4, <1>5, SeqEqual, Zenon
<1> QED
  BY <1>6 DEF w, x, y, z

\* A template with its units is blank, the first `{}` taken out, if what is kept of it is.
LEMMA SpreadBlank ==
    ASSUME NEW t \in Text, NEW u \in Text, Len(u) >= 1, BraceFree(u)
    PROVE  IsBlank(Bare(FlattenSeq(Pieces(t, u)))) <=> \A i \in Kept(t) : IsBlank(Pieces(t, u)[i])
<1> DEFINE s == Pieces(t, u)
           n == Len(t)
           c == FirstCursor(t)
           w == FlattenSeq(s)
<1>1. /\ s \in Seq(Text) /\ Len(s) = n
      /\ \A i \in 1 .. n : s[i] = IF IsUnit(t[i]) THEN u ELSE <<t[i]>>
  BY PiecesAre, Zenon
<1>2. n \in Nat /\ \A i \in 1 .. n : t[i] \in Symbols
  BY DEF Text
<1> HIDE DEF s
<1>3. CASE c = None
  <2>1. Kept(t) = 1 .. n
    BY <1>3, Zenon DEF Kept
  <2>2. CursorAt(t) = {}
    BY <1>3, FirstCursorIs, Zenon
  <2>3. NoCursor(t)
    BY <2>2, NoCursorIs
  <2>4. NoCursor(w)
    BY <2>3, UnitsFormNone, Zenon DEF s
  <2>5. w \in Text /\ \A x : Has(w, x) <=> \E i \in 1 .. n : Has(s[i], x)
    BY <1>1, FlattenHas, Zenon
  <2> HIDE DEF w, n
  <2>6. FirstCursor(w) = None
    <3>1. CursorAt(w) = {}
      BY <2>4, NoCursorIs
    <3> QED
      BY <2>5, <3>1, FirstCursorIs, Zenon
  <2>7. Bare(w) = w
    BY <2>6, Zenon DEF Bare
  <2>8. IsBlank(w) <=> BlankAll(s, 1, n)
    BY <2>5, GathersBlank
  <2> QED
    BY <2>1, <2>7, <2>8, Zenon DEF BlankAll, s, w
<1>4. CASE c # None
  <2>1. c \in CursorAt(t) /\ c \in 1 .. n - 1
    BY <1>4, FirstCursorIs, Zenon
  <2>2. Opens(t[c]) /\ Closes(t[c + 1]) /\ t[c] = "{" /\ t[c + 1] = "}"
    BY <2>1, Zenon DEF CursorAt, Opens, Closes
  <2>3. ~IsUnit(t[c]) /\ ~IsUnit(t[c + 1])
    BY <2>2, Zenon DEF IsUnit
  <2>4. Kept(t) = { i \in 1 .. n : i # c /\ i # c + 1 }
    BY <1>4, Zenon DEF Kept
  <2> HIDE DEF c
  <2> DEFINE m == c + 1
             p == c - 1
  <2>5. c \in 1 .. n /\ m \in 1 .. n /\ m - 1 = c /\ c - 1 = p /\ p \in 0 .. n /\ m \in 0 .. n /\ n \in m .. n /\ n \in 0 .. n
        /\ 0 \in 0 .. n /\ p \in 0 .. n /\ c \in 0 .. n
    BY <1>2, <2>1
  <2>6. { i \in 1 .. n : i # c /\ i # c + 1 } = (1 .. p) \cup (m + 1 .. n)
    BY <1>2, <2>1
  <2>7. s[c] = <<t[c]>> /\ s[m] = <<t[m]>>
    BY <1>1, <2>3, <2>5, Zenon
  <2>8. 0 + 1 = 1
    OBVIOUS
  <2> HIDE DEF m, p, n
  <2>9. PICK g : Running(g, s)
    BY <1>1, FlattenRuns
  <2>10. /\ g \in [0 .. n -> Text] /\ g[0] = <<>> /\ w = g[n]
         /\ \A i \in 1 .. n : g[i] = g[i - 1] \o s[i]
    BY <1>1, <2>9, Zenon DEF Running
  <2>11. PICK x \in Text : g[p] = g[0] \o x /\ \A z : Has(x, z) <=> \E i \in 1 .. p : Has(s[i], z)
    <3>1. Gathers(g, s, 0, p)
      BY <1>1, <2>5, <2>9, RunGathers
    <3> QED
      BY <2>8, <3>1, Zenon DEF Gathers
  <2>12. PICK y \in Text : g[n] = g[m] \o y /\ \A z : Has(y, z) <=> \E i \in m + 1 .. n : Has(s[i], z)
    <3>1. Gathers(g, s, m, n)
      BY <1>1, <2>5, <2>9, RunGathers
    <3> QED
      BY <3>1, Zenon DEF Gathers
  <2>13. g[p] = x
    <3>1. <<>> \o x = x
      BY ConcatEmptySeq DEF Text
    <3> QED
      BY <2>10, <2>11, <3>1, Zenon
  <2>14. g[m] = x \o Pair
    <3>1. g[c] = x \o <<t[c]>> /\ g[m] = g[c] \o <<t[m]>>
      BY <2>5, <2>7, <2>10, <2>13, Zenon
    <3> DEFINE a == t[c]
               b == t[m]
    <3>2. a \in Symbols /\ b \in Symbols
      BY <1>2, <2>5 DEF n
    <3>3. Pair = <<a, b>>
      BY <2>2, Zenon DEF Pair, m
    <3> HIDE DEF a, b
    <3>4. <<a>> \in Text /\ <<b>> \in Text
      BY <3>2, SingleTyped DEF Text
    <3>5. (x \o <<a>>) \o <<b>> = x \o (<<a>> \o <<b>>)
      BY <3>4, JoinAssociates, ZenonT(60)
    <3>6. <<a>> \o <<b>> = <<a, b>>
      BY <3>2, SinglesJoined, Zenon
    <3> QED
      BY <3>1, <3>3, <3>5, <3>6, Zenon DEF a, b
  <2>15. w = x \o Pair \o y
    BY <2>10, <2>12, <2>14, Zenon
  <2>16. w \in Text /\ SameParts(x, Pair, y, w)
    <3>1. Pair \in Text
      BY PairIs, Zenon
    <3>2. x \o Pair \o y \in Text /\ SameParts(x, Pair, y, x \o Pair \o y)
      BY <3>1, ThreeParts
    <3> HIDE DEF w
    <3> QED
      BY <2>15, <3>2, Zenon
  <2> HIDE DEF w
  <2>17. IsBlank(Bare(w)) <=> IsBlank(x) /\ IsBlank(y)
    BY <2>16, BareBlank
  <2>18. IsBlank(x) <=> BlankAll(s, 1, p)
    BY <2>11, GathersBlank
  <2>19. IsBlank(y) <=> BlankAll(s, m + 1, n)
    BY <2>12, GathersBlank
  <2>20. Kept(t) = (1 .. p) \cup (m + 1 .. n)
    BY <2>4, <2>6, Zenon
  <2>21. (\A i \in Kept(t) : IsBlank(s[i])) <=> BlankAll(s, 1, p) /\ BlankAll(s, m + 1, n)
    BY <2>20, Zenon DEF BlankAll
  <2> QED
    BY <2>17, <2>18, <2>19, <2>21, Zenon DEF s, w
<1> QED
  BY <1>3, <1>4

\* How often a unit is repeated does not change that.
LEMMA RepeatsAlike ==
    ASSUME NEW t \in Text, NEW unit \in Text, BraceFree(unit), NEW n \in Nat, n >= 1
    PROVE  IsBlank(Bare(FlattenSeq(Pieces(t, Repeat(unit, n)))))
              <=> IsBlank(Bare(FlattenSeq(Pieces(t, Repeat(unit, 1)))))
<1> DEFINE u == Repeat(unit, n)
           v == Repeat(unit, 1)
<1>1. u \in Text /\ \A x : Has(u, x) <=> Has(unit, x)
  BY RepeatHas
<1>2. v \in Text /\ \A x : Has(v, x) <=> Has(unit, x)
  <2>1. 1 \in Nat /\ 1 >= 1
    OBVIOUS
  <2> QED
    BY <2>1, RepeatHas
<1> HIDE DEF u, v
<1>3. Len(u) \in Nat /\ Len(v) \in Nat /\ DOMAIN u = 1 .. Len(u) /\ DOMAIN v = 1 .. Len(v)
      /\ u \in Seq(Symbols) /\ v \in Seq(Symbols)
  BY <1>1, <1>2 DEF Text
<1>4. ASSUME \A x : ~Has(unit, x) PROVE u = v
  <2>1. \A i \in 1 .. Len(u) : FALSE
    BY <1>1, <1>3, <1>4, Zenon DEF Has
  <2>2. \A i \in 1 .. Len(v) : FALSE
    BY <1>2, <1>3, <1>4, Zenon DEF Has
  <2>3. Len(u) = 0 /\ Len(v) = 0
    BY <1>3, <2>1, <2>2
  <2> QED
    BY <1>3, <2>3
<1>5. ASSUME NEW x, Has(unit, x)
      PROVE  IsBlank(Bare(FlattenSeq(Pieces(t, u)))) <=> IsBlank(Bare(FlattenSeq(Pieces(t, v))))
  <2>1. Len(u) >= 1 /\ Len(v) >= 1
    <3>1. \E i \in 1 .. Len(u) : TRUE
      BY <1>1, <1>3, <1>5, Zenon DEF Has
    <3>2. \E i \in 1 .. Len(v) : TRUE
      BY <1>2, <1>3, <1>5, Zenon DEF Has
    <3> QED
      BY <1>3, <3>1, <3>2
  <2>2. BraceFree(u) /\ BraceFree(v)
    BY <1>1, <1>2, Zenon DEF BraceFree
  <2>3. IsBlank(u) <=> IsBlank(v)
    BY <1>1, <1>2, BlankHas, Zenon
  <2>4. IsBlank(Bare(FlattenSeq(Pieces(t, u)))) <=> \A i \in Kept(t) : IsBlank(Pieces(t, u)[i])
    BY <1>1, <2>1, <2>2, SpreadBlank
  <2>5. IsBlank(Bare(FlattenSeq(Pieces(t, v)))) <=> \A i \in Kept(t) : IsBlank(Pieces(t, v)[i])
    BY <1>2, <2>1, <2>2, SpreadBlank
  <2>6. ASSUME NEW i \in Kept(t) PROVE IsBlank(Pieces(t, u)[i]) <=> IsBlank(Pieces(t, v)[i])
    <3>1. i \in 1 .. Len(t)
      BY Zenon DEF Kept
    <3>2. /\ Pieces(t, u)[i] = IF IsUnit(t[i]) THEN u ELSE <<t[i]>>
          /\ Pieces(t, v)[i] = IF IsUnit(t[i]) THEN v ELSE <<t[i]>>
      BY <1>1, <1>2, <3>1, PiecesAre, Zenon
    <3> QED
      BY <2>3, <3>2, Zenon
  <2> QED
    BY <2>4, <2>5, <2>6, Zenon
<1>6. IsBlank(Bare(FlattenSeq(Pieces(t, u)))) <=> IsBlank(Bare(FlattenSeq(Pieces(t, v))))
  BY <1>4, <1>5, Zenon
<1> QED
  BY <1>6, Zenon DEF u, v

-----------------------------------------------------------------------------
\* Without captures a rendering is its template without the first `{}`.
LEMMA RenderedBare ==
    ASSUME NEW r, NEW b \in Bindings, b.glob = None, b.regex = None, NEW base \in Text,
           RenderNumber(r, b) = base, Render(r, b) # None
    PROVE  Render(r, b).text = Bare(base)
<1> DEFINE i == FirstCursor(base)
<1>1. ASSUME NEW t \in Text PROVE Substituted(t, b) = t
  <2>1. PutsNothing(t, 1, Len(t), b)
    BY NoCapturePutsNothing
  <2> QED
    BY <2>1, NothingPut
<1>2. /\ i = None => Render(r, b).text = Substituted(base, b)
      /\ i # None =>
            /\ Before(base, i) \in Text /\ From(base, i + 2) \in Text
            /\ Render(r, b).text = Substituted(Before(base, i), b) \o Substituted(From(base, i + 2), b)
  <2>1. \A t \in Text : RenderNumber(r, b) = t /\ Render(r, b) # None =>
            LET k == FirstCursor(t) IN
            /\ k = None => Render(r, b).text = Substituted(t, b)
            /\ k # None =>
                  /\ Before(t, k) \in Text /\ From(t, k + 2) \in Text
                  /\ Render(r, b).text = Substituted(Before(t, k), b) \o Substituted(From(t, k + 2), b)
    BY RenderedIs, SMTT(60)
  <2> QED
    BY <2>1, Zenon
<1>3. CASE i = None
  BY <1>1, <1>2, <1>3, Zenon DEF Bare
<1>4. CASE i # None
  BY <1>1, <1>2, <1>4, Zenon DEF Bare
<1> QED
  BY <1>3, <1>4

\* What is rendered for a number.
LEMMA NumberRendered ==
    ASSUME NEW r \in AbbrRule, NEW n \in Nat, NEW b, b = [number |-> n, glob |-> None, regex |-> None],
           Render(r, b) # None
    PROVE  r.number \in Text /\ Render(r, b).text = Bare(FlattenSeq(Pieces(r.expand, Repeat(r.number, n))))
<1>1. b \in Bindings /\ b.number = n /\ b.glob = None /\ b.regex = None
  BY DEF Bindings
<1>2. n # None
  BY MatchingAssumption, Zenon
<1>3. RenderNumber(r, b) # None
  BY RenderNone
<1>4. r.number # None
  BY <1>1, <1>2, <1>3, RenderNumberCases, Zenon
<1>5. r.number \in Text
  BY <1>4 DEF AbbrRule
<1>6. RenderNumber(r, b) = FlattenSeq(Pieces(r.expand, Repeat(r.number, n)))
  <2> DEFINE units == Repeat(r.number, b.number)
             rendered == FlattenSeq([i \in DOMAIN r.expand |->
                             IF r.expand[i] = "{number}" THEN units ELSE <<r.expand[i]>>])
  <2>1. RenderNumber(r, b) = IF Len(units) > MaxRendered \/ Len(rendered) > MaxRendered THEN None ELSE rendered
    BY <1>1, <1>2, <1>4, Zenon DEF RenderNumber
  <2>2. RenderNumber(r, b) = rendered
    BY <1>3, <2>1, Zenon
  <2>3. rendered = FlattenSeq(Pieces(r.expand, units))
    BY Zenon DEF Pieces
  <2> HIDE DEF rendered
  <2> QED
    BY <1>1, <2>2, <2>3, Zenon
<1>7. RenderNumber(r, b) \in Text
  BY <1>1, <1>3, RenderNumberTyped
<1>8. Render(r, b).text = Bare(RenderNumber(r, b))
  BY <1>1, <1>7, RenderedBare
<1> QED
  BY <1>5, <1>6, <1>8, Zenon

\* What doctor says of blanks, from one repeat, is so for every number that matches.
LEMMA NumberBlanks ==
    ASSUME NEW r \in AbbrRule, RuleIssues(r) = <<>>, Phase(r) = "number", NEW t \in Text, Match(r, t) # None,
           Render(r, Match(r, t)) # None
    PROVE  /\ Blankness(r) = "Always" => IsBlank(Render(r, Match(r, t)).text)
           /\ Blankness(r) = "Never" => ~IsBlank(Render(r, Match(r, t)).text)
<1> DEFINE b == Match(r, t)
           n == NumberCapture(r.key, t)
           one == [NoCapture EXCEPT !.number = 1]
<1>1. SplitsOnce(r.key) /\ r.kind = None
  BY NumberKeySplits
<1>2. n # None /\ b = [number |-> n, glob |-> None, regex |-> None]
  BY <1>1, MatchCases, Zenon
<1>3. n \in Nat /\ n >= 1 /\ 1 \in Nat
  <2>1. n \in 1 .. MaxNumeric
    BY <1>2, NumberCaptureTyped
  <2> QED
    BY <2>1
<1>4. one = [number |-> 1, glob |-> None, regex |-> None]
  BY CaptureFields, Zenon
<1>5. Render(r, b) # None
  BY Zenon
<1> HIDE DEF b, n, one
<1>6. r.number \in Text /\ Render(r, b).text = Bare(FlattenSeq(Pieces(r.expand, Repeat(r.number, n))))
  BY <1>2, <1>3, <1>5, NumberRendered
<1>7. Blankness(r) = IF Decidable(r) THEN Decided(RendersBlank(r, one)) ELSE "DependsOnToken"
  <2>1. Phase(r) # "exact"
    OBVIOUS
  <2> QED
    BY <2>1, Zenon DEF Blankness, one
<1>8. ASSUME Blankness(r) = "Always" \/ Blankness(r) = "Never"
      PROVE  /\ Render(r, one) # None
             /\ Blankness(r) = "Always" <=> IsBlank(Render(r, one).text)
             /\ Blankness(r) = "Never" <=> ~IsBlank(Render(r, one).text)
             /\ IsBlank(Render(r, one).text) <=> IsBlank(Render(r, b).text)
  <2>1. "DependsOnToken" # "Always" /\ "DependsOnToken" # "Never"
    OBVIOUS
  <2>2. Decidable(r) /\ Blankness(r) = Decided(RendersBlank(r, one))
    BY <1>7, <1>8, <2>1, Zenon
  <2>3. /\ RendersBlank(r, one) \in BOOLEAN \cup {None}
        /\ RendersBlank(r, one) = TRUE => Render(r, one) # None /\ IsBlank(Render(r, one).text)
        /\ RendersBlank(r, one) = FALSE => Render(r, one) # None /\ ~IsBlank(Render(r, one).text)
    BY RendersBlankIs, Zenon
  <2>4. (Blankness(r) = "Always" <=> RendersBlank(r, one) = TRUE) /\ (Blankness(r) = "Never" <=> RendersBlank(r, one) = FALSE)
    BY <2>2, <2>3, DecidedIs, Zenon
  <2>5. Render(r, one) # None
    BY <1>8, <2>3, <2>4, Zenon
  <2>6. Render(r, one).text = Bare(FlattenSeq(Pieces(r.expand, Repeat(r.number, 1))))
    BY <1>3, <1>4, <2>5, NumberRendered, Zenon
  <2>7. BraceFree(r.number)
    BY <2>2, Zenon DEF Decidable, BraceFree
  <2>8. r.expand \in Text
    BY DEF AbbrRule
  <2>9. IsBlank(Bare(FlattenSeq(Pieces(r.expand, Repeat(r.number, n)))))
           <=> IsBlank(Bare(FlattenSeq(Pieces(r.expand, Repeat(r.number, 1)))))
    BY <1>3, <1>6, <2>7, <2>8, RepeatsAlike
  <2> QED
    BY <1>6, <1>8, <2>3, <2>4, <2>5, <2>6, <2>9, Zenon
<1> QED
  BY <1>8, Zenon DEF b

\* And for a rule whose key is taken as it is there is one rendering only.
LEMMA ExactBlanks ==
    ASSUME NEW r \in AbbrRule, Phase(r) = "exact", NEW t \in Text, Match(r, t) # None
    PROVE  /\ Blankness(r) = "Always" => IsBlank(Render(r, Match(r, t)).text)
           /\ Blankness(r) = "Never" => ~IsBlank(Render(r, Match(r, t)).text)
<1>1. r.kind = None /\ ~HasBrace(r.key)
  BY PhaseIs, Zenon
<1>2. ~SplitsOnce(r.key)
  BY <1>1, Zenon DEF SplitsOnce, HasBrace
<1>3. Match(r, t) = NoCapture
  BY <1>1, <1>2, MatchCases, Zenon
<1>4. Blankness(r) = Decided(RendersBlank(r, NoCapture))
  BY Zenon DEF Blankness
<1>5. /\ RendersBlank(r, NoCapture) \in BOOLEAN \cup {None}
      /\ RendersBlank(r, NoCapture) = TRUE => IsBlank(Render(r, NoCapture).text)
      /\ RendersBlank(r, NoCapture) = FALSE => ~IsBlank(Render(r, NoCapture).text)
  BY RendersBlankIs, Zenon
<1>6. /\ Decided(RendersBlank(r, NoCapture)) = "Always" <=> RendersBlank(r, NoCapture) = TRUE
      /\ Decided(RendersBlank(r, NoCapture)) = "Never" <=> RendersBlank(r, NoCapture) = FALSE
  BY <1>5, DecidedIs, Zenon
<1> QED
  BY <1>3, <1>4, <1>5, <1>6, Zenon

\* A rule fires when nothing keeps it from it.
LEMMA FiresWhen ==
    ASSUME NEW r, NEW t, Match(r, t) # None, Render(r, Match(r, t)) # None,
           ~(Phase(r) = "exact" /\ r.key = r.expand), ~IsBlank(Render(r, Match(r, t)).text),
           ~(Phase(r) \in {"glob", "regex"} /\ Render(r, Match(r, t)).text = t)
    PROVE  Fires(r, t) # None
BY Zenon DEF Fires

\* What doctor says of a rule is so for each token that it matches.
LEMMA QualityHolds == RuleInv => QualityIsRight
<1> SUFFICES ASSUME RuleInv, stage = "pressed", Match(rule, token) # None
             PROVE  /\ Blankness(rule) = "Always" => runex = None
                    /\ RewritesTokenToItself(rule) /\ Phase(rule) # "number" /\ CutsCleanly(rule) => runex = None
                    /\ AlwaysFires(rule) /\ Render(rule, Match(rule, token)) # None => runex # None
  BY Zenon DEF QualityIsRight
<1> DEFINE r == rule
           t == token
           b == Match(r, t)
<1>1. r \in AbbrRule /\ t \in Text /\ runex = Fires(r, t) /\ RuleIssues(r) = <<>> /\ b # None
  BY PressedIs
<1>2. ~HasBlank(t)
  <2>1. token \in Tokens
    BY Zenon DEF RuleInv
  <2> QED
    BY <2>1, LifeAssumption, Zenon DEF HasBlank
<1> HIDE DEF r, t
<1>3. r.kind \in {None, "glob", "regex"} /\ None \notin {"glob", "regex"}
  BY <1>1, MatchingAssumption, Zenon DEF AbbrRule
<1>4. /\ Phase(r) = "glob" <=> r.kind = "glob"
      /\ Phase(r) = "regex" <=> r.kind = "regex"
      /\ Phase(r) = "number" <=> r.kind = None /\ HasBrace(r.key)
      /\ Phase(r) = "exact" <=> r.kind = None /\ ~HasBrace(r.key)
  BY <1>1, PhaseIs
<1>5. ASSUME Render(r, b) # None
      PROVE  /\ Blankness(r) = "Always" => IsBlank(Render(r, b).text)
             /\ Blankness(r) = "Never" => ~IsBlank(Render(r, b).text)
  <2>1. CASE r.kind \in {"glob", "regex"}
    BY <1>1, <1>5, <2>1, PatternBlanks
  <2>2. CASE Phase(r) = "number"
    BY <1>1, <1>5, <2>2, NumberBlanks
  <2>3. CASE Phase(r) = "exact"
    BY <1>1, <2>3, ExactBlanks
  <2> QED
    BY <1>3, <1>4, <2>1, <2>2, <2>3, Zenon
<1>6. ASSUME Fires(r, t) # None
      PROVE  /\ Render(r, b) # None /\ ~(Phase(r) = "exact" /\ r.key = r.expand)
             /\ ~IsBlank(Render(r, b).text)
             /\ ~(Phase(r) \in {"glob", "regex"} /\ Render(r, b).text = t)
  BY <1>6, FiresIs, Zenon
<1>7. Blankness(r) = "Always" => Fires(r, t) = None
  BY <1>5, <1>6, Zenon
<1>8. ASSUME RewritesTokenToItself(r), Phase(r) # "number", CutsCleanly(r) PROVE Fires(r, t) = None
  <2>1. CASE r.kind = None
    <3>2. r.kind # "glob" /\ r.kind # "regex"
      BY <1>3, <2>1
    <3>1. r.expand = r.key
      BY <1>8, <2>1, <3>2, Zenon DEF RewritesTokenToItself
    <3> QED
      BY <1>4, <1>6, <1>8, <2>1, <3>1, Zenon
  <2>2. CASE r.kind = "glob"
    <3>1. ASSUME Render(r, b) # None PROVE Render(r, b).text = t
      BY <1>1, <1>8, <2>2, <3>1, GlobRewrites
    <3> QED
      BY <1>4, <1>6, <2>2, <3>1, Zenon
  <2>3. CASE r.kind = "regex"
    <3>1. r.kind # None /\ r.kind # "glob"
      BY <1>3, <2>3
    <3>2. ~RewritesTokenToItself(r)
      BY <2>3, <3>1, Zenon DEF RewritesTokenToItself
    <3> QED
      BY <1>8, <3>2
  <2> QED
    BY <1>3, <2>1, <2>2, <2>3, Zenon
<1>9. ASSUME AlwaysFires(r), Render(r, b) # None PROVE Fires(r, t) # None
  <2>1. Blankness(r) = "Never" /\ (IF r.kind = None THEN ~RewritesTokenToItself(r) ELSE Has(r.expand, " "))
    BY <1>9, Zenon DEF AlwaysFires
  <2>2. ~IsBlank(Render(r, b).text)
    BY <1>5, <1>9, <2>1, Zenon
  <2>3. CASE r.kind = None
    <3>3. r.kind # "glob" /\ r.kind # "regex"
      BY <1>3, <2>3
    <3>1. r.expand # r.key
      BY <2>1, <2>3, <3>3, Zenon DEF RewritesTokenToItself
    <3>2. Phase(r) \notin {"glob", "regex"}
      BY <1>3, <1>4, <2>3, Zenon
    <3> QED
      BY <1>1, <1>9, <2>2, <3>1, <3>2, FiresWhen, Zenon
  <2>4. CASE r.kind # None
    <3>1. HasBlank(r.expand)
      BY <2>1, <2>4, Zenon DEF HasBlank
    <3>2. b \in Bindings /\ b.number = None
      BY <1>1, <2>4, MatchTyped, Zenon
    <3>3. HasBlank(Render(r, b).text)
      BY <1>1, <1>9, <3>1, <3>2, BlankComesOut
    <3>4. Render(r, b).text # t
      BY <1>2, <3>3, Zenon DEF t
    <3>5. Phase(r) # "exact"
      BY <1>4, <2>4, Zenon
    <3> QED
      BY <1>1, <1>9, <2>2, <3>4, <3>5, FiresWhen, Zenon
  <2> QED
    BY <2>3, <2>4
<1> QED
  BY <1>1, <1>7, <1>8, <1>9, Zenon DEF r, t

\* `runex doctor` judges rules rightly: what it calls always blank or a rewriting of the token to
\* itself fires for no token, and what it says always fires does for every token that it matches.
THEOREM DoctorJudgesRules == Spec => []QualityIsRight
BY AlwaysRuleInv, QualityHolds, PTL

-----------------------------------------------------------------------------
\* What is left of a text without some of its symbols is the others.
LEMMA WithoutHas ==
    ASSUME NEW t \in Text, NEW D
    PROVE  \A c : Has(Without(t, D), c) <=> Has(t, c) /\ c \notin D
<1> DEFINE n == Len(t)
           pieces == [i \in DOMAIN t |-> Dropping(D, t[i])]
<1>1. n \in Nat /\ DOMAIN t = 1 .. n /\ \A i \in 1 .. n : t[i] \in Symbols
  BY DEF Text
<1>2. \A c \in Symbols : Dropping(D, c) \in Text
  <2>1. <<>> \in Seq(Symbols) /\ \A c \in Symbols : <<c>> \in Seq(Symbols)
    BY SingleTyped
  <2> QED
    BY <2>1, Zenon DEF Dropping, Text
<1>3. \A i \in 1 .. n : pieces[i] = Dropping(D, t[i])
  BY <1>1, Zenon
<1>4. pieces \in [1 .. n -> Text]
  BY <1>1, <1>2, Zenon
<1>5. Without(t, D) = FlattenSeq(pieces)
  BY Zenon DEF Without, Dropping
<1> HIDE DEF pieces
<1>6. pieces \in Seq(Text) /\ Len(pieces) = n
  BY <1>1, <1>4, SequenceIs, Zenon
<1>7. \A x : Has(FlattenSeq(pieces), x) <=> \E i \in 1 .. n : Has(pieces[i], x)
  BY <1>6, FlattenHas, Zenon
<1>8. \A x, c : Has(Dropping(D, x), c) <=> x = c /\ c \notin D
  <2>1. \A c : ~Has(<<>>, c)
    BY DEF Has
  <2> QED
    <3>1. ASSUME NEW x, NEW c, x \in D PROVE Has(Dropping(D, x), c) <=> x = c /\ c \notin D
      BY <2>1, <3>1, Zenon DEF Dropping
    <3>2. ASSUME NEW x, NEW c, x \notin D PROVE Has(Dropping(D, x), c) <=> x = c /\ c \notin D
      <4>1. Dropping(D, x) = <<x>>
        BY <3>2, Zenon DEF Dropping
      <4>2. Has(<<x>>, c) <=> x = c
        BY SingleHas
      <4> QED
        BY <3>2, <4>1, <4>2, Zenon
    <3> QED
      BY <3>1, <3>2, Zenon
<1>9. \A c : Has(t, c) <=> \E i \in 1 .. n : t[i] = c
  BY <1>1, Zenon DEF Has
<1>10. ASSUME NEW c PROVE Has(FlattenSeq(pieces), c) <=> Has(t, c) /\ c \notin D
  <2>1. Has(FlattenSeq(pieces), c) <=> \E i \in 1 .. n : t[i] = c /\ c \notin D
    <3>1. \A i \in 1 .. n : Has(pieces[i], c) <=> t[i] = c /\ c \notin D
      BY <1>3, <1>8, Zenon
    <3>2. Has(FlattenSeq(pieces), c) <=> \E i \in 1 .. n : Has(pieces[i], c)
      BY <1>7, Zenon
    <3> QED
      BY <3>1, <3>2, Zenon
  <2> QED
    BY <1>9, <2>1, Zenon
<1> QED
  BY <1>5, <1>10, Zenon

\* It is the text itself if it has none of them.
LEMMA WithoutNone ==
    ASSUME NEW S, NEW t \in Seq(S), NEW D, \A i \in DOMAIN t : t[i] \notin D
    PROVE  Without(t, D) = t
<1>1. [i \in DOMAIN t |-> IF t[i] \in D THEN <<>> ELSE <<t[i]>>] = [i \in DOMAIN t |-> <<t[i]>>]
  BY Zenon
<1>2. FlattenSeq([i \in DOMAIN t |-> <<t[i]>>]) = t
  BY FlatSingles
<1> QED
  BY <1>1, <1>2, Zenon DEF Without

\* Only the symbols that the text has matter.
LEMMA WithoutSame ==
    ASSUME NEW t, NEW D, NEW E, \A i \in DOMAIN t : t[i] \in D <=> t[i] \in E
    PROVE  Without(t, D) = Without(t, E)
<1>1. [i \in DOMAIN t |-> IF t[i] \in D THEN <<>> ELSE <<t[i]>>] = [i \in DOMAIN t |-> IF t[i] \in E THEN <<>> ELSE <<t[i]>>]
  BY Zenon
<1> QED
  BY <1>1, Zenon DEF Without

\* What a path loses is what it does not have any more.
LEMMA LosesWhatIsGone ==
    ASSUME NEW t \in Text, NEW S, NEW D, D \subseteq S
    PROVE  Without(t, D) = Without(t, { c \in S : ~Has(Without(t, D), c) })
<1> DEFINE gone == { c \in S : ~Has(Without(t, D), c) }
<1>1. \A c : Has(Without(t, D), c) <=> Has(t, c) /\ c \notin D
  BY WithoutHas
<1>2. \A i \in DOMAIN t : Has(t, t[i])
  BY Zenon DEF Has
<1>3. \A i \in DOMAIN t : t[i] \in D <=> t[i] \in gone
  BY <1>1, <1>2, Zenon
<1> HIDE DEF gone
<1>4. Without(t, D) = Without(t, gone)
  BY <1>3, WithoutSame
<1> QED
  BY <1>4, Zenon DEF gone

\* cmd.exe runs what Lua has quoted for it, unless it takes that apart.
LEMMA CmdRead ==
    ASSUME NEW X, NEW t \in Seq(X), ~CmdTakesApart(t)
    PROVE  CmdRuns(CmdQuote(t)) = t
<1> DEFINE w == CmdQuote(t)
<1>1. [i \in DOMAIN t |-> CmdEscape(t[i])] = [i \in DOMAIN t |-> <<t[i]>>]
  BY Zenon DEF CmdTakesApart, CmdEscape
<1>2. FlattenSeq([i \in DOMAIN t |-> <<t[i]>>]) = t
  BY FlatSingles
<1> DEFINE q == QuoteMark
<1>3. w = (<<q>> \o t) \o <<q>>
  BY <1>1, <1>2, Zenon DEF CmdQuote, Literal
<1> HIDE DEF w, q
<1>4. SubSeq(w, 2, Len(w) - 1) = t
  <2>1. Len(w) = Len(t) + 2 /\ \A i \in 2 .. Len(w) - 1 : w[i] = t[i - 1]
    BY <1>3
  <2> QED
    BY <1>3, <2>1
<1> QED
  BY <1>4, Zenon DEF CmdRuns, w

\* What a shell may lose of a path: of a program, and of a cache.
Losing(S, t, path) == \E D : D \subseteq S /\ path = Without(t, D)
CacheLoses(sh) == IF sh = "nu" THEN Unsafe \cup {Apostrophe} ELSE Unsafe

\* Every shell reads its paths but for what is unsafe to show, and clink its program if
\* cmd.exe does not take it apart.
LEMMA PathsAreRead ==
    ASSUME NEW t \in Text, NEW sh \in {"bash", "zsh", "pwsh", "nu", "clink"}, sh = "pwsh" => ~OneOf(t, Singles)
    PROVE  /\ ~(sh = "clink" /\ CmdTakesApart(t)) => Losing(Unsafe, t, Runs(sh, t))
           /\ Losing(CacheLoses(sh), t, SourcesFrom(sh, t))
<1>1. t \in Seq(Symbols)
  BY DEF Text
<1> DEFINE D == Control \cup LineSeparators
<1>2. D \subseteq Unsafe /\ NuDrops \subseteq Unsafe /\ {Apostrophe} \cup Control \cup Invisible \subseteq Unsafe \cup {Apostrophe}
  BY DEF Unsafe, NuDrops
<1>3. Without(t, {}) = t
  BY <1>1, WithoutNone
<1>4. CASE sh \in {"bash", "zsh"}
  <2>1. Runs(sh, t) = BashReads(BashQuoteString(t)) /\ SourcesFrom(sh, t) = BashReads(BashQuoteString(t)) /\ sh # "nu"
    BY <1>4 DEF Runs, SourcesFrom
  <2>2. BashReads(BashQuoteString(t)) = Without(t, D)
    BY <1>1, BashPathRead, Zenon
  <2> QED
    BY <1>2, <2>1, <2>2, Zenon DEF Losing, CacheLoses
<1>5. CASE sh = "pwsh"
  <2>1. Runs(sh, t) = PwshReads(PwshQuoteString(t)) /\ SourcesFrom(sh, t) = PwshReads(PwshQuoteString(t)) /\ sh # "nu"
    BY <1>5 DEF Runs, SourcesFrom
  <2>2. \A i \in 1 .. Len(t) : t[i] \notin Singles
    <3>1. DOMAIN t = 1 .. Len(t)
      BY <1>1
    <3> QED
      BY <1>5, <3>1, Zenon DEF OneOf
  <2>3. PwshReads(PwshQuoteString(t)) = Without(t, D)
    BY <1>1, <2>2, PwshPathRead, Zenon
  <2> QED
    BY <1>2, <2>1, <2>3, Zenon DEF Losing, CacheLoses
<1>6. CASE sh = "nu"
  <2>1. /\ Runs(sh, t) = NuRuns(DoubleReads(<<QuoteMark>> \o NuQuoteStringEmbedded(t) \o <<QuoteMark>>, "nu"))
        /\ SourcesFrom(sh, t) = NuReadsPath(NuCachePath(t))
    BY <1>6 DEF Runs, SourcesFrom
  <2>2. Runs(sh, t) = Without(t, NuDrops) /\ SourcesFrom(sh, t) = Without(t, {Apostrophe} \cup Control \cup Invisible)
    BY <1>1, <2>1, NuRead, NuPathRead, Zenon
  <2> QED
    BY <1>2, <1>6, <2>2, Zenon DEF Losing, CacheLoses
<1>7. CASE sh = "clink"
  <2>1. /\ Runs(sh, t) = CmdRuns(CmdQuote(DoubleReads(LuaQuoteString(t), "lua")))
        /\ SourcesFrom(sh, t) = t /\ sh # "nu"
    BY <1>7 DEF Runs, SourcesFrom
  <2>2. DoubleReads(LuaQuoteString(t), "lua") = t
    BY <1>1, LuaRead
  <2>3. {} \subseteq Unsafe
    OBVIOUS
  <2>4. ~CmdTakesApart(t) => Runs(sh, t) = t
    BY <1>1, <2>1, <2>2, CmdRead, Zenon
  <2> QED
    BY <1>3, <1>7, <2>1, <2>3, <2>4, Zenon DEF Losing, CacheLoses
<1> QED
  BY <1>4, <1>5, <1>6, <1>7

\* So the paths of a shell are those that were written into it.
LEMMA OpenedSurvives ==
    ASSUME NEW s, ShellHas(s), ~(s.name = "pwsh" /\ OneOf(s.home, Singles))
    PROVE  LET LosesOnly(S, path) == path = Without(s.home, { c \in S : ~Has(path, c) }) IN
           /\ ~(s.name = "clink" /\ CmdTakesApart(s.home)) =>
                 /\ s.command = "export" => s.runs = s.home
                 /\ LosesOnly(Unsafe, s.runs)
           /\ LosesOnly(IF s.name = "nu" THEN Unsafe \cup {"'"} ELSE Unsafe, s.sources)
<1> DEFINE home == s.home
           sh == s.name
           read == ~(s.name = "clink" /\ CmdTakesApart(s.home))
<1>1. home \in Text /\ sh \in {"bash", "zsh", "pwsh", "nu", "clink"}
  BY LifeAssumption, Zenon DEF ShellHas
<1>2. sh = "pwsh" => ~OneOf(home, Singles)
  BY Zenon
<1>3. /\ s.runs = Runs(sh, home) /\ s.sources = SourcesFrom(sh, home)
      /\ s.command = "export" => ValidBin(home)
      /\ read <=> ~(sh = "clink" /\ CmdTakesApart(home))
  BY Zenon DEF ShellHas
<1> HIDE DEF home, sh, read
<1>4. (read => Losing(Unsafe, home, s.runs)) /\ Losing(CacheLoses(sh), home, s.sources)
  BY <1>1, <1>2, <1>3, PathsAreRead, Zenon
<1>5. \A S, path : Losing(S, home, path) => path = Without(home, { c \in S : ~Has(path, c) })
  <2> SUFFICES ASSUME NEW S, NEW path, Losing(S, home, path) PROVE path = Without(home, { c \in S : ~Has(path, c) })
    BY Zenon
  <2>1. PICK D : D \subseteq S /\ path = Without(home, D)
    BY Zenon DEF Losing
  <2>2. Without(home, D) = Without(home, { c \in S : ~Has(Without(home, D), c) })
    BY <1>1, <2>1, LosesWhatIsGone
  <2> QED
    BY <2>1, <2>2, Zenon
<1>6. ASSUME s.command = "export", read PROVE s.runs = home
  <2>1. \A i \in DOMAIN home : home[i] \notin Unsafe
    BY <1>3, <1>6, Zenon DEF ValidBin
  <2>2. PICK D : D \subseteq Unsafe /\ s.runs = Without(home, D)
    BY <1>4, <1>6, Zenon DEF Losing
  <2>3. \A i \in DOMAIN home : home[i] \notin D
    BY <2>1, <2>2, Zenon
  <2>4. home \in Seq(Symbols)
    BY <1>1 DEF Text
  <2>5. Without(home, D) = home
    BY <2>3, <2>4, WithoutNone
  <2> QED
    BY <2>2, <2>5, Zenon
<1> QED
  BY <1>4, <1>5, <1>6, Zenon DEF CacheLoses, Apostrophe, home, sh, read

\* And the line of a shell that has taken the reply is the line that was meant.
LEMMA TakenIsMeant ==
    ASSUME NEW r \in AbbrRule, NEW b \in Bindings, Render(r, b) # None, NEW got, LineTaken(Render(r, b), got)
    PROVE  got.got = got.meant
<1>1. PICK text \in Text : \E cursor \in (0 .. Len(text)) \cup {None} : Render(r, b) = [text |-> text, cursor |-> cursor]
  BY RenderTyped, Zenon
<1>2. PICK cursor \in (0 .. Len(text)) \cup {None} : Render(r, b) = [text |-> text, cursor |-> cursor]
  BY <1>1, Zenon
<1> DEFINE rendered == Render(r, b)
<1>3. rendered.text = text /\ rendered.cursor = cursor
  BY <1>2
<1>4. PICK sh \in Shells, right \in Rights : got = Reply(sh, rendered, right)
  BY Zenon DEF LineTaken
<1> HIDE DEF rendered
<1> DEFINE blank == IF cursor = None THEN <<" ">> ELSE <<>>
           line == text \o blank \o right
           caret == IF cursor = None THEN Len(text) + 1 ELSE cursor
           X == Symbols \cup {" "}
<1>5. got = [meant |-> [line |-> line, caret |-> caret], got |-> Received(sh, line, caret)]
  BY <1>3, <1>4, Zenon DEF Reply
<1>6. text \in Seq(X) /\ right \in Seq(X) /\ blank \in Seq(X) /\ Len(blank) = (IF cursor = None THEN 1 ELSE 0) /\ Len(text) \in Nat
  <2>1. right \in Text
    BY LifeAssumption, Zenon
  <2>2. \A q \in Seq(Symbols) : q \in Seq(X)
    <3>1. Symbols \subseteq X
      BY Zenon
    <3> HIDE DEF X
    <3> QED
      BY <3>1
  <2>3. <<" ">> \in Seq(X) /\ <<>> \in Seq(X) /\ Len(<<" ">>) = 1 /\ Len(<<>>) = 0
    <3> DEFINE s == " "
    <3>1. s \in X
      OBVIOUS
    <3> HIDE DEF s, X
    <3>2. <<s>> \in Seq(X) /\ <<>> \in Seq(X) /\ Len(<<s>>) = 1 /\ Len(<<>>) = 0
      BY <3>1
    <3> QED
      BY <3>2, Zenon DEF s
  <2>4. text \in Seq(X) /\ right \in Seq(X) /\ Len(text) \in Nat
    <3>1. text \in Seq(X) /\ right \in Seq(X)
      BY <2>1, <2>2, Zenon DEF Text
    <3> HIDE DEF X
    <3> QED
      BY <3>1
  <2> HIDE DEF X
  <2>5. CASE cursor = None
    <3>1. blank = <<" ">> /\ (IF cursor = None THEN 1 ELSE 0) = 1
      BY <2>5, Zenon
    <3> HIDE DEF blank
    <3> QED
      BY <2>3, <2>4, <3>1, Zenon
  <2>6. CASE cursor # None
    <3>1. blank = <<>> /\ (IF cursor = None THEN 1 ELSE 0) = 0
      BY <2>6, Zenon
    <3> HIDE DEF blank
    <3> QED
      BY <2>3, <2>4, <3>1, Zenon
  <2> QED
    BY <2>5, <2>6, Zenon
<1> HIDE DEF X, blank
<1>7. line \in Seq(X) /\ caret \in 0 .. Len(line)
  <2>1. line \in Seq(X) /\ Len(line) = Len(text) + Len(blank) + Len(right) /\ Len(right) \in Nat
    <3> DEFINE left == text \o blank
    <3>0. Len(right) \in Nat /\ Len(blank) \in Nat
      BY <1>6
    <3>1. left \in Seq(X) /\ Len(left) = Len(text) + Len(blank)
      BY <1>6, ConcatProperties, Zenon
    <3> HIDE DEF left
    <3>2. left \o right \in Seq(X) /\ Len(left \o right) = Len(left) + Len(right)
      BY <1>6, <3>1, ConcatProperties, Zenon
    <3> QED
      BY <3>0, <3>1, <3>2, Zenon DEF left
  <2> HIDE DEF line
  <2>2. cursor # None => cursor \in 0 .. Len(text)
    BY Zenon
  <2> QED
    BY <1>6, <2>1, <2>2
<1>8. sh \in {"bash", "zsh", "pwsh", "clink", "nu"}
  BY LifeAssumption, Zenon
<1> HIDE DEF line, caret
<1>9. Received(sh, line, caret) = [line |-> line, caret |-> caret]
  BY <1>7, <1>8, ReceivedIs
<1>10. got.got = Received(sh, line, caret) /\ got.meant = [line |-> line, caret |-> caret]
  BY <1>5
<1> QED
  BY <1>9, <1>10, Zenon

\* Whatever is on the line and whatever the shell: it takes the line and the caret that were meant.
LEMMA LinesAreTaken == RuleInv => TakenAsMeant
<1> SUFFICES ASSUME RuleInv, stage = "taken" PROVE buffer.got = buffer.meant
  BY Zenon DEF TakenAsMeant
<1>1. /\ rules \in Seq(AbbrRule) /\ Len(rules) = 1 /\ token \in Tokens
      /\ runex = Fires(rules[1], token) /\ LineTaken(runex, buffer)
  BY DEF RuleInv
<1>2. rules[1] \in AbbrRule
  BY <1>1
<1> DEFINE r == rules[1]
           b == Match(r, token)
<1> HIDE DEF r
<1>3. r \in AbbrRule /\ token \in Text /\ runex = Fires(r, token) /\ runex # None
  BY <1>1, <1>2, LifeAssumption, Zenon DEF LineTaken, r
<1>4. b # None /\ Render(r, b) # None /\ runex = Render(r, b)
  BY <1>3, FiresIs, Zenon
<1>5. b \in Bindings
  BY <1>3, <1>4, MatchTyped
<1> HIDE DEF b
<1>6. LineTaken(Render(r, b), buffer)
  BY <1>1, <1>4, Zenon
<1> QED
  BY <1>3, <1>4, <1>5, <1>6, TakenIsMeant

\* The reply reaches the buffer of every shell as it was meant, whatever the symbols of the
\* expand and of the line: through the quoting, the way it is passed, and the shell's reading.
THEOREM RepliesArriveAsMeant == Spec => []TakenAsMeant
BY AlwaysRuleInv, LinesAreTaken, PTL

\* The invariant has of an open shell what the lemma on its paths asks.
LEMMA PathsAreThoseWritten == RuleInv => PathsSurvive
<1> SUFFICES ASSUME RuleInv, stage = "open", ~(shell.name = "pwsh" /\ OneOf(shell.home, Singles))
             PROVE  LET LosesOnly(S, path) == path = Without(shell.home, { c \in S : ~Has(path, c) }) IN
                    /\ ~(shell.name = "clink" /\ CmdTakesApart(shell.home)) =>
                          /\ shell.command = "export" => shell.runs = shell.home
                          /\ LosesOnly(Unsafe, shell.runs)
                    /\ LosesOnly(IF shell.name = "nu" THEN Unsafe \cup {"'"} ELSE Unsafe, shell.sources)
  BY Zenon DEF PathsSurvive
<1>1. ShellHas(shell)
  BY DEF RuleInv
<1> QED
  BY <1>1, OpenedSurvives

\* The program and the cache that a shell uses are those that were written into it, wherever
\* runex is installed: of a path nothing is lost but what is unsafe to show.  Left out are the
\* curly single quotes in PowerShell, and in clink a program whose path cmd.exe takes apart.
THEOREM PathsComeThrough == Spec => []PathsSurvive
BY AlwaysRuleInv, PathsAreThoseWritten, PTL

-----------------------------------------------------------------------------

\* A text that can be read.
Readable(s) == ~OneOf(s, Refused)

\* What nothing makes unreadable can be read.
LEMMA UnreadableIs == ASSUME NEW s, Unreadable(s) = None PROVE Readable(s)
<1> DEFINE A == Has(s, Nul)
           B == ~Has(s, Nul) /\ OneOf(s, Controls)
           C == ~OneOf(s, Controls \cup {Nul}) /\ OneOf(s, Deceptive)
<1>1. None \notin Reasons
  BY ReasonsAssumption, Zenon
<1>2. {"ContainsNul", "ContainsControlChar", "ContainsDeceptiveUnicode"} \subseteq Reasons
  BY DEF Reasons
<1>3. (A => ~B /\ ~C) /\ (B => ~A /\ ~C)
  BY Zenon DEF Has, OneOf
<1>4. A => Unreadable(s) = "ContainsNul"
  BY <1>3, Zenon DEF Unreadable
<1>5. B => Unreadable(s) = "ContainsControlChar"
  BY <1>3, Zenon DEF Unreadable
<1>6. ~A /\ ~B /\ C => Unreadable(s) = "ContainsDeceptiveUnicode"
  BY Zenon DEF Unreadable
<1>7. ~A /\ ~B /\ ~C
  BY <1>1, <1>2, <1>4, <1>5, <1>6, Zenon
<1> QED
  BY <1>7, Zenon DEF Readable, Refused, Has, OneOf

\* What has no trouble can be read, is not empty and not too long.
LEMMA TroubleFree ==
    ASSUME NEW s, NEW max, Trouble(s, max) = None PROVE Readable(s) /\ s # <<>> /\ ~(Len(s) > max)
<1>0. s = <<>> => IsBlank(s)
  <2>1. DOMAIN <<>> = {}
    OBVIOUS
  <2> QED
    BY <2>1, Zenon DEF IsBlank
<1>1. ~IsBlank(s) /\ ~(Len(s) > max)
  BY TroubleIs
<1>2. Trouble(s, max) = Unreadable(s)
  BY <1>0, <1>1, Zenon DEF Trouble
<1>3. Readable(s)
  BY <1>2, UnreadableIs
<1> QED
  BY <1>0, <1>1, <1>3, Zenon

\* The same of a unit that is accepted.
LEMMA UnitFree ==
    ASSUME NEW unit \in Text, CheckNumberUnit(unit) = None PROVE Readable(unit) /\ unit # <<>> /\ ~(Len(unit) > MaxUnit)
<1>1. MaxUnit \in Nat /\ Len(<<>>) = 0 /\ None \notin Reasons
  BY LimitsFit, ReasonsAssumption
<1>2. unit = <<>> => ~(Len(unit) > MaxUnit)
  BY <1>1
<1>3. unit = <<>> => CheckNumberUnit(unit) = "Empty"
  BY <1>2, Zenon DEF CheckNumberUnit
<1>4. Len(unit) > MaxUnit => CheckNumberUnit(unit) = "TooLong"
  BY <1>2, Zenon DEF CheckNumberUnit
<1>5. {"Empty", "TooLong"} \subseteq Reasons
  BY DEF Reasons
<1>6. unit # <<>> /\ ~(Len(unit) > MaxUnit)
  BY <1>1, <1>3, <1>4, <1>5, Zenon
<1>7. CheckNumberUnit(unit) = Unreadable(unit)
  BY <1>6, Zenon DEF CheckNumberUnit
<1> QED
  BY <1>6, <1>7, UnreadableIs

\* A command that is accepted is not empty and has no colon.
LEMMA CmdFree ==
    ASSUME NEW cmd, CheckCmdEntry(cmd) = None PROVE cmd # <<>> /\ ~Has(cmd, ":")
<1> DEFINE A == Trouble(cmd, MaxCmd) # None
           B == OneOf(cmd, Separators)
<1>1. A => CheckCmdEntry(cmd) = Trouble(cmd, MaxCmd)
  BY Zenon DEF CheckCmdEntry
<1>2. ~A /\ B => CheckCmdEntry(cmd) = "PathSeparator"
  BY Zenon DEF CheckCmdEntry
<1>3. "PathSeparator" \in Reasons /\ None \notin Reasons
  BY ReasonsAssumption DEF Reasons
<1>4. ~A /\ ~B
  BY <1>1, <1>2, <1>3, Zenon
<1>5. cmd # <<>>
  BY <1>4, TroubleFree
<1>6. ":" \in Separators
  BY BakedAssumption, Zenon
<1>7. ~Has(cmd, ":")
  BY <1>4, <1>6, Zenon DEF OneOf, Has
<1> QED
  BY <1>5, <1>7

\* A clean text is blank in bash if and only if it is in runex.
LEMMA CleanBlank ==
    ASSUME NEW s, Clean(s) PROVE IsBlankBaked(s) <=> IsBlank(s)
<1>1. \A i \in DOMAIN s : s[i] \in Visible
  BY DEF Clean
<1>2. " " \in Blanks
  BY BakedAssumption, Zenon
<1>3. \A i \in DOMAIN s : s[i] \in Blanks <=> s[i] = " "
  BY <1>1, <1>2, Zenon DEF Visible
<1> QED
  BY <1>3, Zenon DEF IsBlankBaked, IsBlank

\* A text is clean if it can be read or has nothing that counts as blank.
LEMMA CleanIs ==
    ASSUME NEW s \in Text, Readable(s) \/ ~OneOf(s, Blanks) PROVE Clean(s)
<1>1. Len(s) \in Nat /\ DOMAIN s = 1 .. Len(s) /\ \A i \in 1 .. Len(s) : s[i] \in Symbols
  BY DEF Text
<1>2. Blanks \subseteq {" "} \cup Refused
  BY BakedAssumption, Zenon
<1>3. \A i \in 1 .. Len(s) : s[i] \in Visible
  BY <1>1, <1>2, Zenon DEF Readable, OneOf, Visible
<1>4. s \in [1 .. Len(s) -> Visible]
  <2>1. s = [i \in 1 .. Len(s) |-> s[i]]
    BY DEF Text
  <2> QED
    BY <1>3, <2>1, Zenon
<1> QED
  BY <1>1, <1>4, SequenceIs DEF Clean

\* The tables keep what can be read and has no line separator.
LEMMA BakedIs ==
    ASSUME NEW s \in Text, Readable(s), ~OneOf(s, LineSeparators) PROVE Baked(s) = s
<1>1. Dropped \subseteq Refused \cup LineSeparators
  BY BakedAssumption, Zenon
<1>2. \A i \in DOMAIN s : s[i] \notin Dropped
  BY <1>1, Zenon DEF Readable, OneOf
<1>3. s \in Seq(Symbols)
  BY Zenon DEF Text
<1> QED
  BY <1>2, <1>3, WithoutNone, Zenon DEF Baked

\* What a text has none of its parts have none of.
LEMMA PartsReadable ==
    ASSUME NEW s \in Text, NEW S, ~OneOf(s, S), NEW i \in 1 .. Len(s) + 1
    PROVE  ~OneOf(Before(s, i), S) /\ ~OneOf(From(s, i), S)
<1>1. Len(s) \in Nat /\ DOMAIN s = 1 .. Len(s)
  BY DEF Text
<1>2. /\ Before(s, i) \in Text /\ Len(Before(s, i)) = i - 1
      /\ \A k \in 1 .. i - 1 : Before(s, i)[k] = s[k]
      /\ From(s, i) \in Text /\ Len(From(s, i)) = Len(s) - i + 1
      /\ \A k \in 1 .. Len(s) - i + 1 : From(s, i)[k] = s[i + k - 1]
  BY SidesTyped
<1>3. DOMAIN Before(s, i) = 1 .. i - 1 /\ DOMAIN From(s, i) = 1 .. Len(s) - i + 1
  BY <1>2 DEF Text
<1>4. \A k \in 1 .. i - 1 : k \in 1 .. Len(s)
  BY <1>1
<1>5. \A k \in 1 .. Len(s) - i + 1 : i + k - 1 \in 1 .. Len(s)
  BY <1>1
<1>6. ~OneOf(Before(s, i), S)
  BY <1>1, <1>2, <1>3, <1>4, Zenon DEF OneOf
<1>7. ~OneOf(From(s, i), S)
  BY <1>1, <1>2, <1>3, <1>5, Zenon DEF OneOf
<1> QED
  BY <1>6, <1>7

\* A glob key that loads has no bracket and no backslash, and one star at most.
LEMMA GlobKeyIs ==
    ASSUME NEW r \in AbbrRule, r.kind = "glob", RuleIssues(r) = <<>>
    PROVE  GlobKey(r.key)
<1>1. r.key \in Text
  BY Zenon DEF AbbrRule
<1>2. ~OneOf(r.key, ForbiddenInGlob) /\ ~(Cardinality({ i \in DOMAIN r.key : r.key[i] = "*" }) > 1)
  BY RuleIssuesIs, WalkGlobIs, Zenon
<1>3. DOMAIN r.key = 1 .. Len(r.key)
  BY <1>1 DEF Text
<1>4. "[" \in ForbiddenInGlob /\ "\\" \in ForbiddenInGlob
  BY DEF ForbiddenInGlob
<1>5. Simple(r.key)
  BY <1>2, <1>3, <1>4, Zenon DEF Simple, OneOf
<1>6. \A i \in 1 .. Len(r.key), j \in 1 .. Len(r.key) : r.key[i] = "*" /\ r.key[j] = "*" => i = j
  BY <1>1, <1>2, OnlyOnce, Zenon
<1>7. StarsOnce(r.key)
  BY <1>6, Zenon DEF StarsOnce, StarHere
<1> QED
  BY <1>5, <1>7, Zenon DEF GlobKey

\* What a rule that is baked has: texts that can be read, with no line separator.
Plainly(s) == Readable(s) /\ ~OneOf(s, LineSeparators)

\* For a glob rule and a token that it matches, bash renders what runex renders.
LEMMA GlobFires ==
    ASSUME NEW r \in AbbrRule, r.kind = "glob", RuleIssues(r) = <<>>, Plainly(r.key), Plainly(r.expand),
           NEW t \in Text, Clean(t)
    PROVE  LookupGlob(r, t) = Fires(r, t)
<1> DEFINE key == r.key
           e == r.expand
           c == GlobCapture(key, t)
           b == [number |-> None, glob |-> c, regex |-> None]
           i == FirstCursor(e)
           out == Filling(e, b).text
<1>1. key \in Text /\ e \in Text /\ None \notin Text
  BY MatchingAssumption, Zenon DEF AbbrRule
<1>2. Baked(key) = key /\ Baked(e) = e
  BY <1>1, BakedIs DEF Plainly
<1>3. GlobKey(key)
  BY GlobKeyIs
<1>4. /\ BashMatches(key, t) <=> c # None
      /\ c # None => BashRest(key, t) = c /\ c \in Text
  BY <1>1, <1>3, GlobAgrees, Zenon DEF Agree
<1>5. Match(r, t) = IF c # None THEN b ELSE None
  BY MatchCases
<1>6. Phase(r) = "glob" /\ "glob" # "exact"
  BY PhaseIs
<1>7. CASE c = None
  <2>1. LookupGlob(r, t) = None
    BY <1>2, <1>4, <1>7, Zenon DEF LookupGlob
  <2>2. Fires(r, t) = None
    BY <1>5, <1>7, Zenon DEF Fires
  <2> QED
    BY <2>1, <2>2
<1>8. CASE c # None
  <2>1. c \in Text /\ b \in Bindings /\ b.number = None /\ b.glob = c /\ b.regex = None
    BY <1>4, <1>8, BindingsAre
  <2> HIDE DEF c, b
  <2>2. RenderNumber(r, b) = e
    BY <2>1, RenderNumberCases
  <2>3. /\ out \in Text /\ Filling(e, b) # None
        /\ Render(r, b) = IF Len(out) > MaxRendered THEN None ELSE Filling(e, b)
        /\ i # None => Before(e, i) \in Text /\ From(e, i + 2) \in Text
    BY <1>1, <2>1, <2>2, FillingIs, Zenon
  <2>4. \A x \in Text : Replaced(x, Star, c) = Substituted(x, b)
    BY <1>1, <1>8, <2>1, FillsAlike, Zenon
  <2>5. Clean(c)
    <3>1. BashRest(key, t) = c
      BY <1>4, <1>8
    <3> QED
      BY <1>1, <1>8, <2>1, CaptureClean DEF c
  <2>6. Clean(out)
    <3>1. Clean(e)
      BY <1>1, CleanIs DEF Plainly
    <3> QED
      BY <1>1, <2>1, <2>2, <2>5, <3>1, FillingClean
  <2>7. IsBlankBaked(out) <=> IsBlank(out)
    BY <2>6, CleanBlank
  <2>8. LookupGlob(r, t) = IF Len(out) > MaxRendered \/ IsBlankBaked(out) \/ out = t THEN None ELSE Filling(e, b)
    <3> DEFINE head == IF Has(key, "*") THEN Before(key, First(key, "*")) ELSE key
               tail == IF Has(key, "*") THEN From(key, First(key, "*") + 1) ELSE <<>>
               rest == ChopSuffix(ChopPrefix(t, head), tail)
               Filled(s) == Replaced(s, <<"{", "*", "}">>, rest)
               left == Filled(Before(e, i))
               o == IF i = None THEN Filled(e) ELSE left \o Filled(From(e, i + 2))
    <3>1. rest = c
      BY <1>4, <1>8, Zenon DEF BashRest
    <3>2. \A x \in Text : Filled(x) = Substituted(x, b)
      <4> HIDE DEF rest
      <4> QED
        BY <2>4, <3>1, Zenon DEF Star
    <3>3. LookupGlob(r, t) = IF ~BashMatches(key, t) \/ Len(o) > MaxRendered \/ IsBlankBaked(o) \/ o = t
                               THEN None
                               ELSE [text |-> o, cursor |-> IF i = None THEN None ELSE Len(left)]
      BY <1>2, Zenon DEF LookupGlob
    <3> HIDE DEF rest, Filled
    <3>4. CASE i = None
      <4>1. o = Substituted(e, b)
        BY <1>1, <3>2, <3>4, Zenon
      <4>2. Filling(e, b) = [text |-> Substituted(e, b), cursor |-> None]
        BY <3>4, Zenon DEF Filling
      <4>3. out = Substituted(e, b)
        BY <4>2
      <4> HIDE DEF out, o
      <4> QED
        BY <1>4, <1>8, <3>3, <3>4, <4>1, <4>2, <4>3, Zenon
    <3>5. CASE i # None
      <4>1. left = Substituted(Before(e, i), b) /\ o = Substituted(Before(e, i), b) \o Substituted(From(e, i + 2), b)
        BY <2>3, <3>2, <3>5, Zenon
      <4>2. Filling(e, b) = [text |-> Substituted(Before(e, i), b) \o Substituted(From(e, i + 2), b),
                             cursor |-> Len(Substituted(Before(e, i), b))]
        BY <3>5, Zenon DEF Filling
      <4>3. out = o
        BY <4>1, <4>2
      <4> HIDE DEF out, o, left
      <4> QED
        BY <1>4, <1>8, <3>3, <3>5, <4>1, <4>2, <4>3, Zenon
    <3> QED
      BY <3>4, <3>5
  <2>9. Fires(r, t) = IF Len(out) > MaxRendered \/ IsBlank(out) \/ out = t THEN None ELSE Filling(e, b)
    <3>1. Match(r, t) = b /\ b # None
      <4>1. None \notin Bindings
        BY MatchingAssumption, Zenon
      <4> QED
        BY <1>5, <1>8, <2>1, <4>1 DEF b
    <3> HIDE DEF out
    <3>2. CASE Len(out) > MaxRendered
      <4>1. Render(r, b) = None
        BY <2>3, <3>2, Zenon
      <4> QED
        BY <3>1, <3>2, <4>1, Zenon DEF Fires
    <3>3. CASE ~(Len(out) > MaxRendered)
      <4>1. Render(r, b) = Filling(e, b) /\ Render(r, b) # None
        BY <2>3, <3>3, Zenon
      <4> QED
        BY <1>6, <3>1, <3>3, <4>1, Zenon DEF Fires, out
    <3> QED
      BY <3>2, <3>3
  <2> DEFINE long == Len(out) > MaxRendered
  <2> HIDE DEF out
  <2>10. CASE long \/ IsBlank(out) \/ out = t
    BY <2>7, <2>8, <2>9, <2>10, Zenon
  <2>11. CASE ~(long \/ IsBlank(out) \/ out = t)
    BY <2>7, <2>8, <2>9, <2>11, Zenon
  <2> QED
    BY <2>10, <2>11
<1> QED
  BY <1>7, <1>8

\* The number with more digits than bash looks at.
LEMMA OnesAre ==
    AreDigits(Ones) /\ Len(Ones) = MaxDigits + 1 /\ Ones[1] = "1" /\ \A i \in 2 .. Len(Ones) : Ones[i] = "0"
<1> DEFINE zeros == [i \in 1 .. MaxDigits |-> "0"]
<1>1. MaxDigits \in Nat
  BY BakedAssumption, Zenon
<1>2. zeros \in [1 .. MaxDigits -> {"0", "1"}] /\ \A i \in 1 .. MaxDigits : zeros[i] = "0"
  BY Zenon
<1> HIDE DEF zeros
<1>3. zeros \in Seq({"0", "1"}) /\ Len(zeros) = MaxDigits /\ "1" \in {"0", "1"}
  BY <1>1, <1>2, SequenceIs
<1>4. /\ Len(Ones) = MaxDigits + 1 /\ Ones[1] = "1"
      /\ \A i \in 2 .. MaxDigits + 1 : Ones[i] = zeros[i - 1]
  <2>1. Ones = <<"1">> \o zeros
    BY Zenon DEF Ones, zeros
  <2> DEFINE a == "1"
  <2> HIDE DEF a
  <2>2. a \in {"0", "1"}
    BY <1>3 DEF a
  <2>3. /\ Len(<<a>> \o zeros) = Len(zeros) + 1 /\ (<<a>> \o zeros)[1] = a
        /\ \A i \in 2 .. Len(zeros) + 1 : (<<a>> \o zeros)[i] = zeros[i - 1]
    BY <1>3, <2>2, OneBefore
  <2> QED
    BY <1>3, <2>1, <2>3, Zenon DEF a
<1>5. \A i \in 2 .. MaxDigits + 1 : i - 1 \in 1 .. MaxDigits
  BY <1>1
<1>6. \A i \in 2 .. Len(Ones) : Ones[i] = "0"
  BY <1>2, <1>4, <1>5, Zenon
<1>7. Len(Ones) \in Nat /\ \A i \in 1 .. Len(Ones) : i = 1 \/ i \in 2 .. Len(Ones)
  BY <1>1, <1>4
<1>8. "0" \in DOMAIN Digits /\ "1" \in DOMAIN Digits
  BY DigitsAre
<1>9. \A i \in 1 .. Len(Ones) : Ones[i] \in DOMAIN Digits
  BY <1>4, <1>6, <1>7, <1>8, Zenon
<1> QED
  BY <1>4, <1>6, <1>7, <1>9, Zenon DEF AreDigits

\* The digits that bash counts: it finds no number, or one over the limit, where runex does.
LEMMA DigitsAgree ==
    ASSUME NEW ds \in Text, AllDigits(ds)
    PROVE  LET s == Significant(ds) IN
           /\ NumberOf(s) = NumberOf(ds) /\ NumberOf(ds) \in Nat
           /\ s = <<>> \/ Len(s) > MaxDigits \/ NumberOf(s) > MaxNumeric <=> NumberOf(ds) \notin 1 .. MaxNumeric
<1> DEFINE n == Len(ds)
           s == Significant(ds)
           T == { i \in DOMAIN ds : ds[i] # "0" }
<1>1. AreDigits(ds) /\ n >= 1 /\ DOMAIN ds = 1 .. n /\ n \in Nat
  <2>1. AreDigits(ds) /\ n >= 1 /\ DOMAIN ds = 1 .. n
    BY AllDigitsAre
  <2> QED
    BY <2>1, Zenon DEF AreDigits
<1>2. MaxNumeric \in Nat /\ MaxDigits \in Nat /\ MaxNumeric < NumberOf(Ones)
  <2>1. MaxNumeric \in Nat
    BY MatchingAssumption, Zenon
  <2> QED
    BY <2>1, BakedAssumption, Zenon DEF Ones
<1>3. CASE T = {}
  <2>1. s = <<>>
    BY <1>3, Zenon DEF Significant
  <2>2. AreDigits(<<>>) /\ Len(<<>>) = 0
    BY DEF AreDigits
  <2>3. NumberOf(<<>>) = NumberOf(ds)
    <3>1. \A i \in 1 .. n : ds[i] = "0"
      BY <1>1, <1>3, Zenon
    <3> DEFINE z == <<>>
               cut == n + 1
    <3>2. cut \in 1 .. n + 1 /\ cut - 1 = n /\ Len(z) = n - cut + 1 /\ \A k \in 1 .. Len(z) : FALSE
      BY <1>1
    <3>3. AreDigits(z)
      BY <2>2
    <3> HIDE DEF cut, z
    <3>4. /\ \A i \in 1 .. cut - 1 : ds[i] = "0"
          /\ \A k \in 1 .. Len(z) : z[k] = ds[cut + k - 1]
      BY <3>1, <3>2, Zenon
    <3>5. NumberOf(z) = NumberOf(ds)
      BY <1>1, <3>2, <3>3, <3>4, NumberFrom
    <3> QED
      BY <3>5 DEF z
  <2>4. NumberOf(<<>>) = 0
    <3>1. PICK u : IsNumbering(u, <<>>) /\ NumberOf(<<>>) = u[Len(<<>>)]
      BY <2>2, NumberSteps
    <3> QED
      BY <2>2, <3>1 DEF IsNumbering
  <2>5. NumberOf(ds) = 0 /\ 0 \notin 1 .. MaxNumeric
    BY <1>2, <2>3, <2>4
  <2> QED
    BY <2>1, <2>3, <2>4, <2>5
<1>4. CASE T # {}
  <2>0. T \subseteq Nat
    BY <1>1
  <2>1. \E o \in T : \A j \in T : o <= j
    <3> HIDE DEF T
    <3> QED BY <1>4, <2>0, Least, Zenon
  <2> DEFINE cut == CHOOSE k \in T : \A j \in T : k <= j
  <2>2. cut \in T /\ \A j \in T : cut <= j
    <3> HIDE DEF T
    <3> QED BY <2>1, Zenon
  <2>3. s = From(ds, cut)
    BY <1>4, Zenon DEF Significant
  <2> HIDE DEF cut, s
  <2>4. cut \in 1 .. n /\ ds[cut] # "0" /\ cut \in 1 .. n + 1
    <3>1. cut \in 1 .. n /\ ds[cut] # "0"
      BY <1>1, <2>2
    <3> QED
      BY <1>1, <3>1
  <2>5. \A j \in 1 .. cut - 1 : ds[j] = "0"
    <3>1. \A j \in 1 .. cut - 1 : j \in 1 .. n /\ ~(cut <= j)
      BY <1>1, <2>4
    <3> QED
      BY <1>1, <2>2, <3>1, Zenon
  <2>6. /\ s \in Text /\ Len(s) = n - cut + 1
        /\ \A k \in 1 .. n - cut + 1 : s[k] = ds[cut + k - 1]
    BY <2>3, <2>4, SidesTyped, Zenon
  <2> DEFINE m == Len(s)
  <2>7. m \in Nat /\ m >= 1 /\ m = n - cut + 1 /\ cut + 1 - 1 = cut /\ 1 \in 1 .. n - cut + 1
    BY <1>1, <2>4, <2>6
  <2>8. \A k \in 1 .. m : cut + k - 1 \in 1 .. n
    BY <1>1, <2>4, <2>7
  <2>9. AreDigits(s)
    <3>1. \A k \in 1 .. m : s[k] \in DOMAIN Digits
      BY <1>1, <2>6, <2>7, <2>8, Zenon DEF AreDigits
    <3> QED
      BY <2>7, <3>1, Zenon DEF AreDigits
  <2>10. NumberOf(s) = NumberOf(ds)
    BY <1>1, <2>4, <2>5, <2>6, <2>9, NumberFrom, ZenonT(60)
  <2>11. s[1] # "0"
    BY <2>4, <2>6, <2>7, Zenon
  <2>12. NumberOf(s) \in Nat /\ NumberOf(s) >= 1
    <3> DEFINE one == <<"1">>
    <3>1. Len(one) = 1 /\ one[1] = "1" /\ \A i \in 2 .. Len(one) : FALSE
      OBVIOUS
    <3> HIDE DEF one
    <3>2. AreDigits(one)
      <4>1. \A i \in 1 .. Len(one) : i = 1
        BY <3>1
      <4>2. "1" \in DOMAIN Digits /\ Len(one) \in Nat
        BY <3>1, DigitsAre
      <4> QED
        BY <3>1, <4>1, <4>2, Zenon DEF AreDigits
    <3>3. NumberOf(one) = 1
      <4>1. PICK u : IsNumbering(u, one) /\ NumberOf(one) = u[1]
        <5>1. PICK u : IsNumbering(u, one) /\ NumberOf(one) = u[Len(one)]
          BY <3>2, NumberSteps
        <5> QED
          BY <3>1, <5>1, Zenon
      <4>2. Digits[one[1]] = 1
        BY <3>1, DigitsAre, Zenon
      <4>3. u[0] = 0 /\ 1 \in 1 .. Len(one) /\ 1 - 1 = 0
        <5>1. 1 \in 1 .. Len(one) /\ 1 - 1 = 0
          BY <3>1
        <5> QED
          BY <4>1, <5>1, Zenon DEF IsNumbering
      <4>4. u[1] = 10 * u[1 - 1] + Digits[one[1]]
        BY <4>1, <4>3, Zenon DEF IsNumbering
      <4>5. u[1] = 10 * 0 + 1
        BY <4>2, <4>3, <4>4, Zenon
      <4> QED
        BY <4>1, <4>5
    <3>4. 1 <= Len(one) /\ Len(one) <= m /\ Len(one) >= 1 /\ \A i \in 2 .. Len(one) : one[i] = "0"
      BY <2>7, <3>1
    <3>5. NumberOf(one) \in Nat /\ NumberOf(s) \in Nat /\ NumberOf(one) <= NumberOf(s)
      BY <2>9, <2>11, <3>1, <3>2, <3>4, NumberAtLeast, Zenon
    <3> QED
      BY <3>3, <3>5
  <2>13. m > MaxDigits => NumberOf(s) > MaxNumeric
    <3> SUFFICES ASSUME m > MaxDigits PROVE NumberOf(s) > MaxNumeric
      OBVIOUS
    <3>1. Len(Ones) >= 1 /\ Len(Ones) <= m
      BY <1>2, <2>7, OnesAre
    <3>2. NumberOf(Ones) \in Nat /\ NumberOf(Ones) <= NumberOf(s)
      BY <2>9, <2>11, <3>1, OnesAre, NumberAtLeast
    <3> QED
      BY <1>2, <2>12, <3>2
  <2>14. s # <<>>
    BY <2>7
  <2> DEFINE N == NumberOf(s)
             long == m > MaxDigits
  <2> HIDE DEF N
  <2>15. s = <<>> \/ long \/ N > MaxNumeric <=> N > MaxNumeric
    BY <2>13, <2>14, Zenon DEF N
  <2>16. N > MaxNumeric <=> N \notin 1 .. MaxNumeric
    BY <1>2, <2>12 DEF N
  <2> QED
    BY <2>10, <2>12, <2>15, <2>16, Zenon DEF N, s
<1> QED
  BY <1>3, <1>4

\* A template that both have and that is not too long renders alike, but if it comes out blank.
LEMMA RendersAlike ==
    ASSUME NEW r, NEW x \in Text, NEW b \in Bindings, b.glob = None, b.regex = None,
           RenderNumber(r, b) = x, ~(Len(x) > MaxRendered), Clean(x)
    PROVE  LET rendered == Render(r, b) IN
           /\ rendered # None
           /\ RenderBaked(x) = IF IsBlank(rendered.text) THEN None ELSE rendered
<1> DEFINE out == Filling(x, b).text
<1>1. /\ out \in Text /\ Filling(x, b) # None
      /\ Render(r, b) = IF Len(out) > MaxRendered THEN None ELSE Filling(x, b)
  BY FillingIs
<1>2. /\ RenderBaked(x) = IF IsBlankBaked(out) THEN None ELSE Filling(x, b)
      /\ Len(out) <= Len(x)
  BY BareFilling
<1>3. Clean(out)
  BY FillingClean
<1>4. IsBlankBaked(out) <=> IsBlank(out)
  BY <1>3, CleanBlank
<1>5. ~(Len(out) > MaxRendered)
  <2> DEFINE m == Len(x)
             k == Len(out)
  <2>1. m \in Nat /\ k \in Nat
    BY <1>1 DEF Text
  <2>2. MaxRendered \in Nat
    BY MatchingAssumption, Zenon
  <2> HIDE DEF m, k
  <2>3. k <= m /\ ~(m > MaxRendered)
    BY <1>2 DEF m, k
  <2>4. ~(k > MaxRendered)
    BY <2>1, <2>2, <2>3
  <2> QED
    BY <2>4 DEF k
<1>6. Render(r, b) = Filling(x, b)
  BY <1>1, <1>5, Zenon
<1> QED
  BY <1>1, <1>2, <1>4, <1>6, Zenon

\* An exact rule does the same in bash.
LEMMA ExactFires ==
    ASSUME NEW r \in AbbrRule, r.kind = None, ~HasBrace(r.key), RuleIssues(r) = <<>>, Plainly(r.key), Plainly(r.expand),
           NEW t
    PROVE  LookupExact(r, t) = Fires(r, t)
<1> DEFINE key == r.key
           e == r.expand
<1>1. key \in Text /\ e \in Text /\ None \notin Text /\ None \notin Bindings
  BY MatchingAssumption, Zenon DEF AbbrRule
<1>2. Baked(key) = key /\ Baked(e) = e
  BY <1>1, BakedIs DEF Plainly
<1>3. ~SplitsOnce(key)
  BY Zenon DEF SplitsOnce, HasBrace
<1>4. Match(r, t) = IF key = t THEN NoCapture ELSE None
  BY <1>3, MatchCases
<1>5. Phase(r) = "exact" /\ Phase(r) \notin {"glob", "regex"}
  BY PhaseIs
<1>6. /\ NoCapture \in Bindings /\ NoCapture # None
      /\ NoCapture.number = None /\ NoCapture.glob = None /\ NoCapture.regex = None
  BY <1>1, BindingsAre
<1>7. RenderNumber(r, NoCapture) = e
  BY <1>6, RenderNumberCases
<1>8. ~(Len(e) > MaxRendered)
  <2> DEFINE m == Len(e)
  <2>1. WalkExpand(r) = <<>>
    BY RuleIssuesIs
  <2>2. CheckExpandValue(e) = None
    BY <2>1, WalkExpandIs
  <2>3. ~(m > MaxExpand)
    BY <2>2, TroubleFree DEF CheckExpandValue
  <2>4. m \in Nat
    BY <1>1 DEF Text
  <2>5. MaxRendered \in Nat
    BY MatchingAssumption, Zenon
  <2> HIDE DEF m
  <2>6. ~(m > MaxRendered)
    BY <2>3, <2>4, <2>5, LimitsFit
  <2> QED
    BY <2>6 DEF m
<1>9. Clean(e)
  BY <1>1, CleanIs DEF Plainly
<1> DEFINE rendered == Render(r, NoCapture)
<1>10. /\ rendered # None
       /\ RenderBaked(e) = IF IsBlank(rendered.text) THEN None ELSE rendered
  BY <1>1, <1>6, <1>7, <1>8, <1>9, RendersAlike
<1>11. LookupExact(r, t) = IF key # t \/ e = key THEN None ELSE RenderBaked(e)
  BY <1>2, Zenon DEF LookupExact
<1>12. CASE key # t
  <2>1. Fires(r, t) = None
    BY <1>4, <1>12, Zenon DEF Fires
  <2> QED
    BY <1>11, <1>12, <2>1, Zenon
<1>13. CASE key = t
  <2>1. Match(r, t) = NoCapture
    BY <1>4, <1>13, Zenon
  <2>2. CASE key = e
    <3>1. Fires(r, t) = None
      BY <1>5, <2>2, Zenon DEF Fires
    <3> QED
      BY <1>11, <2>2, <3>1, Zenon
  <2>3. CASE key # e
    <3>1. Fires(r, t) = IF IsBlank(rendered.text) THEN None ELSE rendered
      <4>1. ~(NoCapture = None \/ (Phase(r) = "exact" /\ r.key = r.expand) \/ rendered = None)
        BY <1>6, <1>10, <2>3, Zenon
      <4>2. IsBlank(rendered.text) \/ (Phase(r) \in {"glob", "regex"} /\ rendered.text = t) <=> IsBlank(rendered.text)
        BY <1>5, Zenon
      <4>3. Fires(r, t) = IF IsBlank(rendered.text) \/ (Phase(r) \in {"glob", "regex"} /\ rendered.text = t) THEN None ELSE rendered
        BY <2>1, <4>1, Zenon DEF Fires
      <4> HIDE DEF rendered
      <4> QED
        BY <4>2, <4>3, Zenon
    <3> QED
      BY <1>10, <1>11, <1>13, <2>3, <3>1, Zenon
  <2> QED
    BY <2>2, <2>3
<1> QED
  BY <1>12, <1>13

\* The number that bash finds in a token, or none.
LEMMA NumberFound ==
    ASSUME NEW key \in Text, HasNumber(key), NEW t \in Text
    PROVE  LET prefix == Before(key, First(key, "{number}"))
               suffix == From(key, First(key, "{number}") + 1)
               rest   == PastPrefix(prefix, t)
               digits == BeforeSuffix(suffix, rest)
               n      == NumberOf(Significant(digits))
               none   == \/ prefix # <<>> /\ rest = t
                         \/ suffix # <<>> /\ digits = rest
                         \/ ~AllDigits(digits)
                         \/ Significant(digits) = <<>>
                         \/ Len(Significant(digits)) > MaxDigits
                         \/ n > MaxNumeric
           IN  /\ NumberCapture(key, t) = IF none THEN None ELSE n
               /\ ~none => n \in Nat
<1> DEFINE prefix == Before(key, First(key, "{number}"))
           suffix == From(key, First(key, "{number}") + 1)
           rest   == PastPrefix(prefix, t)
           digits == BeforeSuffix(suffix, rest)
           n      == NumberOf(Significant(digits))
           apart  == (prefix # <<>> /\ rest = t) \/ (suffix # <<>> /\ digits = rest)
           over   == Significant(digits) = <<>> \/ Len(Significant(digits)) > MaxDigits \/ n > MaxNumeric
           none   == \/ prefix # <<>> /\ rest = t
                     \/ suffix # <<>> /\ digits = rest
                     \/ ~AllDigits(digits)
                     \/ Significant(digits) = <<>>
                     \/ Len(Significant(digits)) > MaxDigits
                     \/ n > MaxNumeric
           mid    == Enclosed(prefix, suffix, t)
           ok     == Encloses(prefix, suffix, t) /\ AllDigits(mid) /\ NumberOf(mid) \in 1 .. MaxNumeric
<1>1. prefix \in Text /\ suffix \in Text
  BY AroundTyped, Zenon DEF HasNumber
<1>2. NumberCapture(key, t) = IF ok THEN NumberOf(mid) ELSE None
  BY Zenon DEF NumberCapture, Encloses, Enclosed
<1>3. none <=> apart \/ ~AllDigits(digits) \/ over
  <2> HIDE DEF n, digits, rest, prefix, suffix
  <2> QED
    BY Zenon
<1>4. /\ apart <=> ~Encloses(prefix, suffix, t)
      /\ Encloses(prefix, suffix, t) => digits = mid /\ digits \in Text
  <2> HIDE DEF prefix, suffix
  <2> QED
    BY <1>1, SidesAgree
<1> HIDE DEF prefix, suffix, rest, digits
<1>5. digits \in Text /\ AllDigits(digits) => /\ n = NumberOf(digits) /\ NumberOf(digits) \in Nat
                                              /\ over <=> NumberOf(digits) \notin 1 .. MaxNumeric
  BY DigitsAgree, Zenon
<1> HIDE DEF n, over, apart, mid, none
<1>6. none <=> ~ok
  BY <1>3, <1>4, <1>5, Zenon DEF ok
<1>7. ~none => n = NumberOf(mid) /\ n \in Nat
  BY <1>3, <1>4, <1>5, Zenon DEF ok
<1> HIDE DEF ok
<1>8. NumberCapture(key, t) = IF none THEN None ELSE n
  BY <1>2, <1>6, <1>7, Zenon
<1> QED
  BY <1>7, <1>8, Zenon DEF none, n, digits, rest, prefix, suffix

\* A number rule does the same in bash.
LEMMA NumberFires ==
    ASSUME NEW r \in AbbrRule, r.kind = None, HasBrace(r.key), RuleIssues(r) = <<>>,
           Plainly(r.key), Plainly(r.expand), r.number # None => ~OneOf(r.number, LineSeparators),
           NEW t \in Text, Clean(t)
    PROVE  /\ r.number # None /\ HasNumber(r.key)
           /\ LookupPattern(r, t) = Fires(r, t)
<1> DEFINE key == r.key
           e == r.expand
           prefix == Before(key, First(key, "{number}"))
           suffix == From(key, First(key, "{number}") + 1)
           rest   == PastPrefix(prefix, t)
           digits == BeforeSuffix(suffix, rest)
           n      == NumberOf(Significant(digits))
           none   == \/ prefix # <<>> /\ rest = t
                     \/ suffix # <<>> /\ digits = rest
                     \/ ~AllDigits(digits)
                     \/ Significant(digits) = <<>>
                     \/ Len(Significant(digits)) > MaxDigits
                     \/ n > MaxNumeric
           units  == Repeat(r.number, n)
           text   == FlattenSeq(Pieces(e, units))
           b      == [number |-> n, glob |-> None, regex |-> None]
<1>1. /\ key \in Text /\ e \in Text /\ r.number \in Text \cup {None} /\ r.kind # "regex"
      /\ None \notin Text /\ None \notin Bindings /\ None \notin Nat
  BY MatchingAssumption, Zenon DEF AbbrRule
<1>2. Phase(r) = "number" /\ Phase(r) # "exact" /\ Phase(r) \notin {"glob", "regex"}
  BY PhaseIs
<1>3. SplitsOnce(key) /\ HasNumber(key)
  BY <1>2, NumberKeySplits
<1>4. r.number # None /\ CheckNumberUnit(r.number) = None
  <2>1. WalkNumber(r) = <<>>
    BY RuleIssuesIs
  <2> QED
    BY <1>1, <1>3, <2>1, WalkNumberIs, Zenon DEF HasNumber
<1>5. r.number \in Text /\ Readable(r.number)
  <2>1. r.number \in Text
    BY <1>1, <1>4, Zenon
  <2> QED
    BY <1>4, <2>1, UnitFree
<1>6. Baked(r.number) = r.number /\ Clean(r.number) /\ Baked(e) = e /\ Clean(e)
  BY <1>1, <1>5, BakedIs, CleanIs DEF Plainly
<1>7. Baked(prefix) = prefix /\ Baked(suffix) = suffix
  <2> DEFINE i == First(key, "{number}")
             j == i + 1
  <2>1. Len(key) \in Nat /\ i \in 1 .. Len(key)
    <3>1. i \in 1 .. Len(key)
      BY <1>1, <1>3, FirstIs, Zenon DEF HasNumber
    <3>2. Len(key) \in Nat
      BY <1>1 DEF Text
    <3> QED
      BY <3>1, <3>2, Zenon
  <2> HIDE DEF i
  <2>2. i \in 1 .. Len(key) + 1 /\ j \in 1 .. Len(key) + 1
    BY <2>1
  <2> HIDE DEF j
  <2>3. Before(key, i) \in Text /\ From(key, j) \in Text
    BY <1>1, <2>2, SidesTyped
  <2>4. \A S : ~OneOf(key, S) => ~OneOf(Before(key, i), S) /\ ~OneOf(From(key, j), S)
    BY <1>1, <2>2, PartsReadable
  <2>5. Baked(Before(key, i)) = Before(key, i) /\ Baked(From(key, j)) = From(key, j)
    BY <2>3, <2>4, BakedIs DEF Plainly, Readable
  <2> QED
    BY <2>5, Zenon DEF i, j
<1>8. /\ NumberCapture(key, t) = IF none THEN None ELSE n
      /\ ~none => n \in Nat
  BY <1>1, <1>3, NumberFound, Zenon
<1>9. Match(r, t) = IF NumberCapture(key, t) # None THEN [number |-> NumberCapture(key, t), glob |-> None, regex |-> None] ELSE None
  BY <1>3, MatchCases
<1>10. LookupPattern(r, t) = IF none THEN None
                             ELSE IF Len(units) > MaxRendered \/ Len(Replaced(e, <<"{number}">>, units)) > MaxRendered THEN None
                             ELSE RenderBaked(Replaced(e, <<"{number}">>, units))
  <2>1. LookupPattern(r, t) = PatternLookup(Baked(prefix), Baked(suffix), Baked(r.number), Baked(e), t)
    BY Zenon DEF LookupPattern, PatternLookup, PastPrefix, BeforeSuffix
  <2>2. LookupPattern(r, t) = PatternLookup(prefix, suffix, r.number, e, t)
    <3> HIDE DEF prefix, suffix, e
    <3> QED BY <1>6, <1>7, <2>1, Zenon
  <2> QED
    BY <2>2, Zenon DEF PatternLookup
<1> HIDE DEF none, n
<1>11. CASE none
  <2>1. Match(r, t) = None
    BY <1>8, <1>9, <1>11, Zenon
  <2>2. Fires(r, t) = None
    BY <2>1, Zenon DEF Fires
  <2> QED
    BY <1>3, <1>4, <1>10, <1>11, <2>2, Zenon
<1>12. CASE ~none
  <2>1. n \in Nat /\ NumberCapture(key, t) = n /\ n # None
    BY <1>1, <1>8, <1>12, Zenon
  <2>2. Match(r, t) = b /\ b \in Bindings /\ b.glob = None /\ b.regex = None /\ b # None
    <3>1. Match(r, t) = b
      BY <1>9, <2>1, Zenon
    <3>2. b \in Bindings /\ b.glob = None /\ b.regex = None
      BY <2>1 DEF Bindings
    <3> QED
      BY <1>1, <3>1, <3>2
  <2>3. units \in Text /\ Clean(units)
    BY <1>5, <1>6, <2>1, RepeatTyped, RepeatClean
  <2>4. RenderNumber(r, b) = IF Len(units) > MaxRendered \/ Len(text) > MaxRendered THEN None ELSE text
    BY <1>4, <2>1, UnitsRendered
  <2> HIDE DEF units, b
  <2>5. Replaced(e, <<"{number}">>, units) = text
    BY <1>1, <2>3, UnitsAlike, Zenon
  <2>6. Clean(text) /\ text \in Text
    BY <1>1, <1>6, <2>3, PiecesClean, CleanText
  <2> HIDE DEF text
  <2> DEFINE long == Len(units) > MaxRendered \/ Len(text) > MaxRendered
             rendered == Render(r, b)
  <2>7. LookupPattern(r, t) = IF long THEN None ELSE RenderBaked(text)
    BY <1>10, <1>12, <2>5, Zenon
  <2>8. CASE long
    <3>1. RenderNumber(r, b) = None
      BY <2>4, <2>8, Zenon
    <3>2. Render(r, b) = None
      BY <3>1, RenderNone
    <3>3. Fires(r, t) = None
      BY <2>2, <3>2, Zenon DEF Fires
    <3> QED
      BY <1>3, <1>4, <2>7, <2>8, <3>3, Zenon
  <2>9. CASE ~long
    <3>1. RenderNumber(r, b) = text /\ ~(Len(text) > MaxRendered)
      BY <2>4, <2>9, Zenon
    <3>2. /\ rendered # None
          /\ RenderBaked(text) = IF IsBlank(rendered.text) THEN None ELSE rendered
      BY <2>2, <2>6, <3>1, RendersAlike
    <3>3. Fires(r, t) = IF IsBlank(rendered.text) THEN None ELSE rendered
      <4>1. ~(b = None \/ (Phase(r) = "exact" /\ r.key = r.expand) \/ rendered = None)
        BY <1>2, <2>2, <3>2, Zenon
      <4>2. IsBlank(rendered.text) \/ (Phase(r) \in {"glob", "regex"} /\ rendered.text = t) <=> IsBlank(rendered.text)
        BY <1>2, Zenon
      <4>3. Fires(r, t) = IF IsBlank(rendered.text) \/ (Phase(r) \in {"glob", "regex"} /\ rendered.text = t) THEN None ELSE rendered
        BY <2>2, <4>1, Zenon DEF Fires
      <4> HIDE DEF rendered
      <4> QED
        BY <4>2, <4>3, Zenon
    <3> HIDE DEF rendered, long
    <3> QED
      BY <1>3, <1>4, <2>7, <2>9, <3>2, <3>3, Zenon
  <2> QED
    BY <2>8, <2>9
<1> QED
  BY <1>11, <1>12

\* What Git Bash asks for: the commands that the rule has.
LEMMA AskedAlike ==
    ASSUME NEW r \in AbbrRule, RuleIssues(r) = <<>> PROVE AskedBaked(r) = Asked(r)
<1> DEFINE cmds == r.when
           n == Len(cmds)
           S == Symbols \cup {":"}
           x == ":"
           seqs == [i \in DOMAIN cmds |-> IF i = 1 THEN cmds[i] ELSE <<":">> \o cmds[i]]
<1>1. cmds \in Seq(Text) /\ n \in Nat /\ DOMAIN cmds = 1 .. n /\ \A i \in 1 .. n : cmds[i] \in Seq(Symbols)
  <2>1. cmds \in Seq(Text)
    BY Zenon DEF AbbrRule
  <2> QED
    BY <2>1 DEF Text
<1>2. \A i \in 1 .. n : cmds[i] # <<>> /\ ~Has(cmds[i], x)
  <2>1. WalkCmds(r) = <<>>
    BY RuleIssuesIs
  <2>2. \A i \in DOMAIN cmds : CheckCmdEntry(cmds[i]) = None
    BY <2>1, WalkCmdsIs
  <2> QED
    BY <1>1, <2>2, CmdFree, Zenon
<1>3. Symbols \subseteq S /\ x \in S
  BY Zenon
<1>4. \A i \in 1 .. n : seqs[i] = IF i = 1 THEN cmds[i] ELSE <<x>> \o cmds[i]
  BY <1>1, Zenon
<1>5. DOMAIN seqs = 1 .. n /\ seqs = [i \in 1 .. n |-> seqs[i]] /\ Joined(cmds) = FlattenSeq(seqs)
  BY <1>1, Zenon DEF Joined
<1> HIDE DEF S, x, seqs
<1>6. \A i \in 1 .. n : cmds[i] \in Seq(S)
  BY <1>1, <1>3
<1>7. <<x>> \in Seq(S)
  BY <1>3, SingleTyped
<1>8. ASSUME NEW i \in 1 .. n PROVE seqs[i] \in Seq(S)
  <2>1. cmds[i] \in Seq(S)
    BY <1>6
  <2>2. <<x>> \o cmds[i] \in Seq(S)
    BY <1>7, <2>1
  <2> QED
    BY <1>4, <2>1, <2>2, Zenon
<1>9. seqs \in Seq(Seq(S)) /\ Len(seqs) = n
  <2>1. seqs \in [1 .. n -> Seq(S)]
    BY <1>5, <1>8, Zenon
  <2> QED
    BY <1>1, <2>1, SequenceIs, Zenon
<1>10. CASE n = 0
  <2>1. \A i \in 1 .. n : FALSE
    BY <1>10
  <2>2. FlattenSeq(seqs) = <<>>
    BY <1>9, <2>1, FlattenEmpty
  <2>3. AskedBaked(r) = {}
    BY <1>5, <2>2, Zenon DEF AskedBaked
  <2>4. Asked(r) = {}
    BY <1>1, <2>1, Zenon DEF Asked
  <2> QED
    BY <2>3, <2>4
<1>11. CASE n # 0
  <2>1. 1 \in 1 .. n /\ n \in 1 .. n
    BY <1>1, <1>11
  <2>2. seqs # <<>>
    BY <1>9, <1>11
  <2>3. PICK f : IsFlattening(f, S, seqs)
    BY <1>9, <2>2, FlattenSteps, Zenon
  <2>4. /\ f \in [1 .. n -> Seq(S)] /\ f[1] = seqs[1] /\ FlattenSeq(seqs) = f[n]
        /\ \A i \in 2 .. n : f[i] = f[i - 1] \o seqs[i]
    BY <1>9, <2>3, Zenon DEF IsFlattening
  <2>5. Joined(cmds) # <<>>
    <3>1. seqs[1] # <<>>
      BY <1>2, <1>4, <2>1, Zenon
    <3>2. FlattenSeq(seqs) # <<>>
      BY <1>9, <2>1, <3>1, FlattenEmpty
    <3> QED
      BY <1>5, <3>2, Zenon
  <2> DEFINE Upto(k) == { cmds[i] : i \in 1 .. k }
             T == { k \in Nat : k + 1 <= n => SplitAt(f[k + 1], x) = Upto(k + 1) }
  <2>6. 0 \in T
    <3>1. f[1] = cmds[1]
      BY <1>4, <2>1, <2>4, Zenon
    <3>2. SplitAt(cmds[1], x) = {cmds[1]}
      BY <1>2, <1>6, <2>1, SplitsOne
    <3>3. \A i \in 1 .. 1 : i = 1
      OBVIOUS
    <3>4. 1 \in 1 .. 1 /\ 0 + 1 = 1
      OBVIOUS
    <3>5. Upto(1) = {cmds[1]}
      BY <3>3, <3>4, Zenon
    <3>6. SplitAt(f[0 + 1], x) = Upto(0 + 1)
      <4> HIDE DEF Upto
      <4> QED BY <3>1, <3>2, <3>4, <3>5, Zenon
    <3> HIDE DEF Upto
    <3> QED
      BY <3>6
  <2>7. ASSUME NEW k \in Nat, k \in T PROVE k + 1 \in T
    <3> SUFFICES ASSUME (k + 1) + 1 <= n PROVE SplitAt(f[(k + 1) + 1], x) = Upto((k + 1) + 1)
      <4> HIDE DEF Upto
      <4> QED OBVIOUS
    <3> DEFINE m == k + 1
               j == m + 1
    <3>1. m \in 1 .. n /\ j \in 2 .. n /\ j \in 1 .. n /\ j - 1 = m /\ j # 1 /\ m <= n
      BY <1>1
    <3>2. SplitAt(f[m], x) = Upto(m)
      <4> HIDE DEF Upto
      <4> QED BY <2>7, <3>1
    <3> HIDE DEF j
    <3>3. \A i : i \in 1 .. j <=> i \in 1 .. m \/ i = j
      BY <3>1 DEF j
    <3> HIDE DEF m, T
    <3>4. f[j] = f[m] \o (<<x>> \o cmds[j])
      BY <1>4, <2>4, <3>1, Zenon
    <3>5. f[m] \in Seq(S) /\ cmds[j] \in Seq(S) /\ ~Has(cmds[j], x)
      BY <1>2, <1>6, <2>4, <3>1, Zenon
    <3>6. SplitAt(f[j], x) = SplitAt(f[m], x) \cup {cmds[j]}
      BY <1>3, <3>4, <3>5, SplitsAfter
    <3>7. Upto(j) = Upto(m) \cup {cmds[j]}
      BY <3>3, Zenon
    <3>8. SplitAt(f[j], x) = Upto(j)
      BY <3>2, <3>6, <3>7, Zenon
    <3> QED
      BY <3>8, Zenon DEF j, m
  <2>8. Nat \subseteq T
    <3> HIDE DEF T
    <3> QED
      BY <2>6, <2>7, Induction
  <2>9. SplitAt(f[n], x) = Upto(n)
    <3>1. n - 1 \in Nat /\ (n - 1) + 1 = n /\ n <= n
      BY <1>1, <1>11
    <3>2. n - 1 \in T
      BY <2>8, <3>1, Zenon
    <3> HIDE DEF Upto
    <3> QED
      BY <3>1, <3>2
  <2>10. AskedBaked(r) = SplitAt(f[n], x)
    BY <1>5, <2>4, <2>5, Zenon DEF AskedBaked, x
  <2>11. Asked(r) = Upto(n)
    BY <1>1, Zenon DEF Asked
  <2> QED
    BY <2>9, <2>10, <2>11, Zenon
<1> QED
  BY <1>10, <1>11

\* A rule that loads does the same in Git Bash.
LEMMA FiresAlike ==
    ASSUME NEW r \in AbbrRule, RuleIssues(r) = <<>>, r.kind # "regex",
           \A text \in {r.key, r.expand, r.number} \ {None} : ~OneOf(text, LineSeparators),
           NEW t \in Text, Clean(t)
    PROVE  FiresBaked(r, t) = Fires(r, t)
<1>1. r.key \in Text /\ r.expand \in Text /\ None \notin Text /\ r.kind \in {None, "glob", "regex"} /\ None \notin {"glob", "regex"}
  BY MatchingAssumption, Zenon DEF AbbrRule
<1>2. Plainly(r.key) /\ Plainly(r.expand) /\ (r.number # None => ~OneOf(r.number, LineSeparators))
  <2>1. CheckAbbrKey(r.key) = None /\ WalkExpand(r) = <<>>
    BY RuleIssuesIs
  <2>2. CheckExpandValue(r.expand) = None
    BY <2>1, WalkExpandIs
  <2>3. Readable(r.key)
    BY <2>1, TroubleFree, Zenon DEF CheckAbbrKey
  <2>4. Readable(r.expand)
    BY <2>2, TroubleFree, Zenon DEF CheckExpandValue
  <2>5. r.key # None /\ r.expand # None
    BY <1>1, Zenon
  <2> QED
    BY <2>3, <2>4, <2>5, Zenon DEF Plainly
<1>3. CASE r.kind = "glob"
  <2>0. r.kind # None
    BY <1>1, <1>3, Zenon
  <2>1. Table(r) = "globs"
    BY <1>3, <2>0, Zenon DEF Table
  <2>2. "globs" # "exact" /\ "globs" # "patterns"
    OBVIOUS
  <2>3. FiresBaked(r, t) = LookupGlob(r, t)
    BY <2>1, <2>2, Zenon DEF FiresBaked
  <2> QED
    BY <1>2, <1>3, <2>3, GlobFires
<1>4. CASE r.kind = None /\ ~HasBrace(r.key)
  <2>1. r.kind # "glob"
    BY <1>1, <1>4, Zenon
  <2>0. ~Has(r.key, "{number}")
    BY <1>4, Zenon DEF HasBrace
  <2>2. Table(r) = "exact"
    BY <1>4, <2>0, <2>1, Zenon DEF Table
  <2>3. FiresBaked(r, t) = LookupExact(r, t)
    BY <2>2, Zenon DEF FiresBaked
  <2> QED
    BY <1>2, <1>4, <2>3, ExactFires
<1>5. CASE r.kind = None /\ HasBrace(r.key)
  <2>1. r.number # None /\ HasNumber(r.key) /\ LookupPattern(r, t) = Fires(r, t)
    BY <1>2, <1>5, NumberFires
  <2>2. r.kind # "glob"
    BY <1>1, <1>5, Zenon
  <2>3. Table(r) = "patterns"
    BY <1>5, <2>1, <2>2, Zenon DEF Table, HasNumber
  <2>4. "patterns" # "exact"
    OBVIOUS
  <2>5. FiresBaked(r, t) = LookupPattern(r, t)
    BY <2>3, <2>4, Zenon DEF FiresBaked
  <2> QED
    BY <2>1, <2>5
<1> QED
  BY <1>1, <1>3, <1>4, <1>5, Zenon
\* The invariant has of a token what the lemmas on the baked rule ask.
LEMMA BakedIsAlike == RuleInv => BakedAlike
<1> SUFFICES ASSUME RuleInv, stage = "pressed", rule.kind # "regex",
                    \A text \in {rule.key, rule.expand, rule.number} \ {None} : ~OneOf(text, LineSeparators)
             PROVE  gitbash = runex /\ AskedBaked(rule) = Asked(rule)
  BY Zenon DEF BakedAlike
<1>1. /\ rule \in AbbrRule /\ token \in Text
      /\ runex = Fires(rule, token) /\ RuleIssues(rule) = <<>>
  BY PressedIs
<1>2. gitbash = FiresBaked(rule, token) /\ token \in Tokens
  BY DEF RuleInv, rule
<1>3. Clean(token)
  <2>1. ~OneOf(token, Blanks)
    BY <1>2, BakedAssumption, Zenon
  <2> QED
    BY <1>1, <2>1, CleanIs
<1> DEFINE r == rule
<1> HIDE DEF r
<1>4. /\ r \in AbbrRule /\ RuleIssues(r) = <<>> /\ r.kind # "regex"
      /\ \A text \in {r.key, r.expand, r.number} \ {None} : ~OneOf(text, LineSeparators)
  BY <1>1, Zenon DEF r
<1>5. FiresBaked(r, token) = Fires(r, token)
  BY <1>1, <1>3, <1>4, FiresAlike
<1>6. AskedBaked(r) = Asked(r)
  BY <1>4, AskedAlike
<1> QED
  BY <1>1, <1>2, <1>5, <1>6, Zenon DEF r

\* Git Bash, which looks rules up in tables of its own, makes of every token what runex makes
\* of it, and asks for the same commands: for every rule that loads, whatever brackets, braces,
\* zeros and colons are in its key, its expand, its unit and its commands.
THEOREM GitBashDoesTheSame == Spec => []BakedAlike
BY AlwaysRuleInv, BakedIsAlike, PTL
=============================================================================
