--------------------------------- MODULE Hook ---------------------------------
(***************************************************************************)
(* A press of the trigger key: the shell sends its line and cursor to      *)
(* `runex hook`, in its own unit, and puts what comes back into its buffer *)
(* (cmd/hook.rs, app/hook.rs, domain/hook.rs, domain/templates).  Git Bash *)
(* edits the line itself (app/bash_static_dispatcher.rs).                  *)
(*                                                                         *)
(* A shell waits for the hook; keys that arrive meanwhile are queued, and  *)
(* nu drops them.                                                          *)
(***************************************************************************)
EXTENDS LineText

CONSTANTS
    Width,          \* of each character in "char"s, "byte"s and "utf16" units
    Shells,
    MaxLineBytes,   \* MAX_HOOK_LINE_BYTES
    MaxClinkBytes,  \* the longest line that fits clink's CMD_LINE_MAX
    MaxKeys         \* how many keys are queued (a bound of the model)

ASSUME HookAssumption ==
    /\ Width \in [{"char", "byte", "utf16"} -> [Symbols -> Nat \ {0}]]
    /\ Width["byte"][" "] = 1
    /\ Shells \subseteq {"bash", "zsh", "pwsh", "nu", "clink", "gitbash"}
    /\ MaxLineBytes \in Nat /\ MaxClinkBytes \in Nat /\ MaxKeys \in Nat

VARIABLES
    shell,      \* the shell the session is in
    probe,      \* whether pwsh can see its key queue
    line,       \* its buffer
    caret,      \* where the caret is in it, in characters
    keys,       \* the keys that wait to be read
    doing,      \* "edit", "ask" (the hook runs) or "reply" (it has ended)
    sent,       \* the cursor and the paste flag the hook was given, and whether keys waited
    reply       \* what it printed, or None

hookVars == <<shell, probe, line, caret, keys, doing, sent, reply>>

Cursors == [cursor : Nat, pending : BOOLEAN, behind : BOOLEAN]

\* Types; in every shell the caret stays inside the line, also after an edit that
\* makes the line shorter.
TypeOK ==
    /\ shell \in Shells /\ probe \in BOOLEAN
    /\ line \in Seq(Symbols) /\ caret \in 0 .. Len(line)
    /\ keys \in Seq(Symbols) /\ Len(keys) <= MaxKeys
    /\ doing \in {"edit", "ask", "reply"}
    /\ sent \in Cursors \cup {None}
    /\ reply \in [line : Seq(Symbols), cursor : Nat] \cup {None}

Init ==
    /\ shell \in Shells
    /\ probe \in (IF shell = "pwsh" THEN BOOLEAN ELSE {FALSE})
    /\ line = <<>> /\ caret = 0 /\ keys = <<>>
    /\ doing = "edit" /\ sent = None /\ reply = None

-----------------------------------------------------------------------------
\* The size of the first i characters; the last character that starts at or before a
\* size, and the first that starts at or after it.
Sizes(unit, text) ==
    LET size[i \in 0 .. Len(text)] == IF i = 0 THEN 0 ELSE size[i - 1] + Width[unit][text[i]]
    IN  size
Offset(unit, text, i) == Sizes(unit, text)[i]
Size(unit, text) == Offset(unit, text, Len(text))
CharAt(unit, text, n) == Max({ i \in 0 .. Len(text) : Offset(unit, text, i) <= n })
CharFrom(unit, text, n) == Min({Len(text)} \cup { i \in 0 .. Len(text) : Offset(unit, text, i) >= n })

\* What a shell counts its cursor in.
ShellUnit(sh) == IF sh = "pwsh" THEN "utf16" ELSE "char"

\* shell_cursor_to_byte: past the end is the end, inside a character its start.
FromShellAsChars(sh, text, n) == Offset("byte", text, CharAt("char", text, n))
FromShell(sh, text, n) ==
    IF sh = "pwsh" THEN Offset("byte", text, CharAt("utf16", text, n))
                   ELSE Offset("byte", text, CharAt("char", text, n))

\* app::hook::render; zsh gets the two parts of the line instead of a cursor.  Inside
\* a character, byte_cursor_to_char rounds down and byte_cursor_to_utf16 up.
ToShell(sh, text, b) ==
    CASE sh = "zsh" -> b
      [] sh = "pwsh" -> Offset("utf16", text, CharFrom("byte", text, b))
      [] OTHER -> Offset("char", text, CharAt("byte", text, b))

-----------------------------------------------------------------------------
\* What the hook answers, its cursor in bytes: a space at the cursor, ...
InsertSpace(text, b) ==
    [line |-> Splice(text, CharAt("byte", text, b), <<" ">>), cursor |-> b + 1]

\* ... or, for a token with a rule that fires, its expansion.
Replace(text, start, b, e) ==
    LET after == IF e.mark = None THEN <<" ">> ELSE <<>>
        from == Offset("byte", text, start)
    IN [line |-> UpTo(text, start) \o e.text \o after \o From(text, CharAt("byte", text, b)),
        cursor |-> from + IF e.mark = None THEN Size("byte", e.text) + 1
                                           ELSE Offset("byte", e.text, e.mark)]

\* domain::hook::hook: e is what expand makes of the token, None if no rule fires.
TokenStart(text, b) == WordStart(UpTo(text, CharAt("byte", text, b)))
Token(text, b) == From(UpTo(text, CharAt("byte", text, b)), TokenStart(text, b))
Expands(text, b) ==
    LET i == CharAt("byte", text, b) IN
    /\ i < Len(text) => text[i + 1] = " "
    /\ Token(text, b) \in DOMAIN Expansions
    /\ IsCommandPosition(UpTo(text, TokenStart(text, b)))
HookAction(text, b, e) ==
    IF Expands(text, b) /\ e # None THEN Replace(text, TokenStart(text, b), b, e)
                                    ELSE InsertSpace(text, b)

\* The same in the bash of Git Bash, which counts characters and has no process.
BakeForgetsSudo(prefix) == StartsCommand(Trim(prefix))
BakeIsCommandPosition(prefix) ==
    LET trimmed == Trim(prefix)
        lastWord == From(trimmed, WordStart(trimmed))
        beforeLast == Trim(UpTo(trimmed, Len(trimmed) - Len(lastWord)))
    IN \/ StartsCommand(trimmed)
       \/ lastWord = <<"sudo">> /\ StartsCommand(beforeLast)

BakeStepsPast(prefix, e, right) ==
    [line |-> prefix \o e.text \o (IF e.mark = None THEN <<" ">> ELSE <<>>) \o right,
     cursor |-> Len(prefix) + (IF e.mark = None THEN Len(e.text) ELSE e.mark) + 1]
BakeReplace(prefix, e, right) ==
    IF e.mark # None
      THEN [line |-> prefix \o e.text \o right, cursor |-> Len(prefix) + e.mark]
      ELSE [line |-> prefix \o e.text \o <<" ">> \o right, cursor |-> Len(prefix) + Len(e.text) + 1]

BakeEdit(text, point, e) ==
    LET left == UpTo(text, point)
        right == From(text, point)
        token == From(left, WordStart(left))
        prefix == UpTo(left, Len(left) - Len(token))
        looksUp == /\ right # <<>> => Head(right) = " "
                   /\ token # <<>>
                   /\ BakeIsCommandPosition(prefix)
    IN IF looksUp /\ e # None THEN BakeReplace(prefix, e, right)
       ELSE [line |-> left \o <<" ">> \o right, cursor |-> point + 1]

-----------------------------------------------------------------------------
SetLine(text, i) == line' = text /\ caret' = i
TypeSpace == SetLine(Splice(line, caret, <<" ">>), caret + 1)
Wait == UNCHANGED <<shell, probe>>

\* The user edits the line or takes another.  A paste arrives in pwsh and nu key by key, and
\* the trigger among them fires; the other shells take it as one piece of text, and the
\* trigger does not see it.
ByKeys == {"pwsh", "nu"}
Editing == doing = "edit" /\ keys = <<>>

TypeChar(c) ==
    /\ Editing /\ c # " " /\ Len(line) < MaxLine
    /\ SetLine(Splice(line, caret, <<c>>), caret + 1)
    /\ UNCHANGED <<keys, doing, sent, reply>> /\ Wait
MoveCaret ==
    /\ Editing /\ Len(line) <= MaxLine
    /\ \E i \in 0 .. Len(line) : SetLine(line, i)
    /\ UNCHANGED <<keys, doing, sent, reply>> /\ Wait
Recall ==
    /\ Editing /\ \E text \in History : SetLine(text, Len(text))
    /\ UNCHANGED <<keys, doing, sent, reply>> /\ Wait
Paste ==
    /\ Editing /\ shell \in ByKeys
    /\ \E text \in SeqOf(Symbols, MaxKeys) \ {<<>>} :
          /\ Len(line) + Len(text) <= MaxLine
          /\ keys' = text
    /\ UNCHANGED <<line, caret, doing, sent, reply>> /\ Wait

\* Keys typed while the hook runs wait in the same queue.  They do in the other
\* shells too, where nothing looks at it or drops it.
TypeAhead(c) ==
    /\ doing # "edit" /\ shell \in ByKeys
    /\ Len(keys) < MaxKeys /\ Len(line) + Len(keys) < MaxLine
    /\ keys' = Append(keys, c)
    /\ UNCHANGED <<line, caret, doing, sent, reply>> /\ Wait

\* The next key of the queue, if it is not the trigger.
ReadKey ==
    /\ doing = "edit" /\ keys # <<>> /\ Head(keys) # " "
    /\ SetLine(Splice(line, caret, <<Head(keys)>>), caret + 1)
    /\ keys' = Tail(keys)
    /\ UNCHANGED <<doing, sent, reply>> /\ Wait

\* The trigger, from the queue or typed.
Pressed ==
    /\ doing = "edit"
    /\ IF keys = <<>> THEN (Len(line) <= MaxLine \/ line \in History) /\ UNCHANGED keys
                      ELSE Head(keys) = " " /\ keys' = Tail(keys)

\* The hook is started, unless clink has nothing to send or cannot send that much.  Only
\* pwsh looks for waiting keys, and only if it can.
Sends == shell # "clink" \/ (line # <<>> /\ Size("byte", line) <= MaxClinkBytes)
Press ==
    /\ Pressed /\ shell # "gitbash" /\ Sends
    /\ sent' = [cursor |-> Offset(ShellUnit(shell), line, caret),
                pending |-> probe /\ keys' # <<>>, behind |-> keys' # <<>>]
    /\ doing' = "ask"
    /\ UNCHANGED <<line, caret, reply>> /\ Wait
PressUnsent ==
    /\ Pressed /\ ~Sends /\ TypeSpace
    /\ UNCHANGED <<doing, sent, reply>> /\ Wait
PressBaked ==
    /\ Pressed /\ shell = "gitbash"
    /\ LET left == UpTo(line, caret) IN
       \E e \in Outcomes(From(left, WordStart(left))) :
          LET edit == BakeEdit(line, caret, e) IN SetLine(edit.line, edit.cursor)
    /\ UNCHANGED <<doing, sent, reply>> /\ Wait

\* cmd::hook::handle: an oversized line or a pending paste is not looked at, and a
\* configuration that does not load has no rules.
AnswersPastes(b) ==
    IF Size("byte", line) > MaxLineBytes THEN {InsertSpace(line, b)}
      ELSE { HookAction(line, b, e) : e \in Outcomes(Token(line, b)) }
Answers(b) ==
    IF Size("byte", line) > MaxLineBytes \/ sent.pending
      THEN {InsertSpace(line, b)}
      ELSE { HookAction(line, b, e) : e \in Outcomes(Token(line, b)) }

Answer ==
    /\ doing = "ask" /\ doing' = "reply"
    /\ \E action \in Answers(FromShell(shell, line, sent.cursor)) :
          reply' = [action EXCEPT !.cursor = ToShell(shell, action.line, @)]
    /\ UNCHANGED <<line, caret, keys, sent>> /\ Wait

\* It is killed, prints nothing, or cannot be started.  (In nu, only the first two:
\* there a program that is not found is an error of the binding.)
Fail ==
    /\ doing = "ask" /\ doing' = "reply" /\ reply' = None
    /\ UNCHANGED <<line, caret, keys, sent>> /\ Wait

\* The shell takes the answer: zsh sets the two parts of its buffer, clink takes a
\* line that did not change for no answer, and without one all of them type a space.  The
\* `executehostcommand` of nu resets the command line, and the keys behind it are lost.
Taken(r) ==
    IF shell = "zsh" THEN SetLine(r.line, CharAt("byte", r.line, r.cursor))
                     ELSE SetLine(r.line, CharAt(ShellUnit(shell), r.line, r.cursor))
Apply ==
    /\ doing = "reply"
    /\ IF reply = None \/ (shell = "clink" /\ reply.line = line) THEN TypeSpace ELSE Taken(reply)
    /\ doing' = "edit" /\ sent' = None /\ reply' = None
    /\ keys' = (IF shell = "nu" THEN <<>> ELSE keys) /\ Wait

Next ==
    \/ \E c \in Symbols : TypeChar(c) \/ TypeAhead(c)
    \/ MoveCaret \/ Recall \/ Paste \/ ReadKey
    \/ Press \/ PressUnsent \/ PressBaked \/ Answer \/ Fail \/ Apply

Spec == Init /\ [][Next]_hookVars

-----------------------------------------------------------------------------
\* In every shell, whatever its unit and whatever fails, a press of the trigger is
\* one space at the caret or a whole expansion in place of the token, the caret is
\* where it belongs in either, and no other text changes.
Abstract == INSTANCE TriggerKey
ImplementsTriggerKey == Abstract!Spec

\* Git Bash makes of a line what `runex hook` makes of it: the command position, the
\* token and the caret are worked out twice, in two languages and two units.
BakeAgrees ==
    \A e \in Outcomes(Token(line, Offset("byte", line, caret))) :
       LET action == HookAction(line, Offset("byte", line, caret), e)
           edit == BakeEdit(line, caret, e)
       IN edit.line = action.line /\ edit.cursor = CharAt("byte", action.line, action.cursor)

\* "Pasted text is inserted without expanding mid-paste": a trigger with more keys behind it
\* is a space.  It is not in nu, whose binding sees no queue, nor in a pwsh that cannot see
\* its own.
MidPasteIsLiteral ==
    [][doing = "reply" /\ doing' = "edit" /\ sent.behind /\ shell # "nu" /\ (shell = "pwsh" => probe)
          => line' = Splice(line, caret, <<" ">>) /\ caret' = caret + 1]_hookVars
=============================================================================
