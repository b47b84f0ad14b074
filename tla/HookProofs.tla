------------------------------ MODULE HookProofs ------------------------------
(***************************************************************************)
(* Theorems about Hook for any letters and widths of them, any expansions, *)
(* lines and limits.                                                       *)
(*                                                                         *)
(* The shells, the hook and the dispatcher count the same line in four     *)
(* ways.  So most of this is about Offset, CharAt and CharFrom: a position *)
(* between two characters survives each conversion there and back.         *)
(***************************************************************************)
EXTENDS Hook, WellFoundedInduction, SequenceTheorems, TLAPS

\* A set of natural numbers that is not empty has a least element.
LEMMA Least ==
    ASSUME NEW T, T \subseteq Nat, T # {}
    PROVE  \E x \in T : \A y \in T : x <= y
<1> DEFINE R == {ss \in Nat \X Nat : ss[1] < ss[2]}
<1>1. IsWellFoundedOn(R, Nat)
  <2>1. IsWellFoundedOn(OpToRel(<, Nat), Nat)
    BY NatLessThanWellFounded
  <2>2. R = OpToRel(<, Nat)
    BY Zenon DEF OpToRel
  <2>3. QED
    BY <2>1, <2>2
<1>2. \E x \in T : \A y \in T : ~ (<<y, x>> \in R)
  <2> HIDE DEF R
  <2> QED BY <1>1, WFMin
<1>3. ASSUME NEW x \in T, NEW y \in T, ~ (<<y, x>> \in R) PROVE x <= y
  <2>1. x \in Nat /\ y \in Nat /\ (<<y, x>> \in R <=> y < x)
    OBVIOUS
  <2>2. QED
    BY <1>3, <2>1
<1>4. QED
  BY <1>2, <1>3

\* So what holds of 0 and passes from each number to the next holds of all.
LEMMA Induction ==
    ASSUME NEW T, 0 \in T, \A n \in Nat : n \in T => n + 1 \in T
    PROVE  Nat \subseteq T
<1>1. SUFFICES ASSUME Nat \ T # {} PROVE FALSE
  OBVIOUS
<1>2. PICK x \in Nat \ T : \A y \in Nat \ T : x <= y
  BY <1>1, Least, Nat \ T \subseteq Nat
<1>3. x - 1 \in Nat /\ x - 1 \notin Nat \ T
  BY <1>2
<1>4. QED
  BY <1>2, <1>3

\* What Max and Min choose.
LEMMA MaxIsGreatest ==
    ASSUME NEW n \in Nat, NEW S, S \subseteq 0 .. n, S # {}
    PROVE  Max(S) \in S /\ \A x \in S : x <= Max(S)
<1> DEFINE T == { n - x : x \in S }
<1>1. T \subseteq Nat /\ T # {}
  OBVIOUS
<1>2. PICK t \in T : \A y \in T : t <= y
  <2> HIDE DEF T
  <2> QED BY <1>1, Least
<1>3. PICK m \in S : t = n - m
  BY <1>2
<1>4. ASSUME NEW x \in S PROVE m >= x
  <2>1. n - x \in T /\ x \in 0 .. n /\ m \in 0 .. n
    OBVIOUS
  <2>2. QED
    BY <1>2, <1>3, <2>1
<1>5. \A x \in S : Max(S) \in S /\ Max(S) >= x
  BY <1>4 DEF Max
<1>6. QED
  BY <1>3, <1>5

\* The minimum of a set of numbers is its least one.
LEMMA MinIsLeast ==
    ASSUME NEW S, S \subseteq Nat, S # {}
    PROVE  Min(S) \in S /\ \A x \in S : Min(S) <= x
BY Least DEF Min

-----------------------------------------------------------------------------
Units == DOMAIN Width
Text == Seq(Symbols)

\* The units, and the width of a symbol in them.
LEMMA WidthTyped ==
    /\ Units = {"char", "byte", "utf16"}
    /\ \A unit \in Units, c \in Symbols : Width[unit][c] \in Nat \ {0}
    /\ Width["byte"][" "] = 1
BY HookAssumption DEF Units

\* The equation that defines the sizes has a solution, so that Sizes is one.
LEMMA SizesEquation ==
    ASSUME NEW unit \in Units, NEW text \in Text
    PROVE  Sizes(unit, text) =
             [i \in 0 .. Len(text) |-> IF i = 0 THEN 0 ELSE Sizes(unit, text)[i - 1] + Width[unit][text[i]]]
<1> DEFINE w(i) == Width[unit][text[i]]
           Adds(g, k) == g[0] = 0 /\ \A i \in 1 .. k : g[i] = g[i - 1] + w(i)
           Has(k) == \E g \in [0 .. k -> Nat] : Adds(g, k)
           T == { k \in Nat : k <= Len(text) => Has(k) }
<1>0. Len(text) \in Nat /\ \A i \in 1 .. Len(text) : w(i) \in Nat
  <2>1. \A i \in 1 .. Len(text) : text[i] \in Symbols
    BY DEF Text
  <2>2. \A c \in Symbols : Width[unit][c] \in Nat
    BY WidthTyped
  <2>3. Len(text) \in Nat
    BY DEF Text
  <2>4. QED
    BY <2>1, <2>2, <2>3
<1>1. 0 \in T
  <2>1. [i \in 0 .. 0 |-> 0] \in [0 .. 0 -> Nat] /\ Adds([i \in 0 .. 0 |-> 0], 0)
    OBVIOUS
  <2>2. QED
    BY <2>1
<1>2. ASSUME NEW k \in Nat, k \in T PROVE k + 1 \in T
  <2>1. SUFFICES ASSUME k + 1 <= Len(text) PROVE Has(k + 1)
    <3> HIDE DEF Has
    <3> QED OBVIOUS
  <2>2. PICK g \in [0 .. k -> Nat] : Adds(g, k)
    BY <1>0, <1>2, <2>1
  <2> DEFINE h == [i \in 0 .. k + 1 |-> IF i <= k THEN g[i] ELSE g[k] + w(k + 1)]
  <2>3. h \in [0 .. k + 1 -> Nat]
    <3>1. w(k + 1) \in Nat
      BY <1>0, <2>1
    <3> HIDE DEF w
    <3>2. QED
      BY <2>2, <3>1
  <2>4. Adds(h, k + 1)
    <3> HIDE DEF w
    <3> QED BY <2>2
  <2>5. QED
    BY <2>3, <2>4
<1>3. Nat \subseteq T
  <2> HIDE DEF T
  <2> QED BY <1>1, <1>2, Induction
<1>4. Has(Len(text))
  <2> HIDE DEF Has
  <2> QED BY <1>0, <1>3
<1>5. PICK g \in [0 .. Len(text) -> Nat] : Adds(g, Len(text))
  BY <1>4
<1>6. g = [i \in 0 .. Len(text) |-> IF i = 0 THEN 0 ELSE g[i - 1] + w(i)]
  <2> HIDE DEF w
  <2> QED BY <1>0, <1>5
<1>7. QED
  BY <1>6 DEF Sizes

\* The sizes of a text are numbers.
LEMMA SizesTyped ==
    ASSUME NEW unit \in Units, NEW text \in Text
    PROVE  \A i \in 0 .. Len(text) : Offset(unit, text, i) \in Nat
<1> DEFINE T == { k \in Nat : k <= Len(text) => Sizes(unit, text)[k] \in Nat }
<1>0. Len(text) \in Nat /\ \A i \in 1 .. Len(text) : text[i] \in Symbols /\ Width[unit][text[i]] \in Nat
  <2>1. Len(text) \in Nat /\ \A i \in 1 .. Len(text) : text[i] \in Symbols
    BY DEF Text
  <2>2. QED
    BY <2>1, WidthTyped
<1>1. 0 \in T
  BY <1>0, SizesEquation
<1>2. ASSUME NEW k \in Nat, k \in T PROVE k + 1 \in T
  BY <1>0, <1>2, SizesEquation
<1>3. Nat \subseteq T
  <2> HIDE DEF T
  <2> QED BY <1>1, <1>2, Induction
<1>4. QED
  BY <1>0, <1>3 DEF Offset

\* An offset is the offset before it and a character.
LEMMA OffsetStep ==
    ASSUME NEW unit \in Units, NEW text \in Text
    PROVE  /\ Offset(unit, text, 0) = 0
           /\ \A i \in 0 .. Len(text) - 1 :
                 /\ text[i + 1] \in Symbols
                 /\ Offset(unit, text, i + 1) = Offset(unit, text, i) + Width[unit][text[i + 1]]
                 /\ Offset(unit, text, i) < Offset(unit, text, i + 1)
<1>1. Len(text) \in Nat /\ \A i \in 1 .. Len(text) : text[i] \in Symbols
  BY DEF Text
<1>2. Offset(unit, text, 0) = 0
  BY <1>1, SizesEquation DEF Offset
<1>3. ASSUME NEW i \in 0 .. Len(text) - 1
      PROVE  Offset(unit, text, i + 1) = Offset(unit, text, i) + Width[unit][text[i + 1]]
  BY <1>1, SizesEquation DEF Offset
<1>4. ASSUME NEW i \in 0 .. Len(text) - 1
      PROVE  text[i + 1] \in Symbols /\ Offset(unit, text, i) < Offset(unit, text, i + 1)
  <2>1. text[i + 1] \in Symbols /\ Offset(unit, text, i) \in Nat
    BY <1>1, SizesTyped
  <2>2. Width[unit][text[i + 1]] \in Nat \ {0}
    BY <2>1, WidthTyped
  <2>3. QED
    BY <1>3, <2>1, <2>2
<1>5. QED
  BY <1>2, <1>3, <1>4

\* Of two positions the later one has the larger offset.
LEMMA OffsetGrows ==
    ASSUME NEW unit \in Units, NEW text \in Text,
           NEW i \in 0 .. Len(text), NEW j \in 0 .. Len(text), i < j
    PROVE  Offset(unit, text, i) < Offset(unit, text, j)
<1> DEFINE T == { k \in Nat : i + k + 1 <= Len(text) => Offset(unit, text, i) < Offset(unit, text, i + k + 1) }
<1>0. Len(text) \in Nat /\ \A n \in 0 .. Len(text) : Offset(unit, text, n) \in Nat
  BY SizesTyped DEF Text
<1>1. 0 \in T
  BY <1>0, OffsetStep
<1>2. ASSUME NEW k \in Nat, k \in T PROVE k + 1 \in T
  <2>1. SUFFICES ASSUME i + k + 2 <= Len(text) PROVE Offset(unit, text, i) < Offset(unit, text, i + k + 2)
    BY <1>0
  <2>2. Offset(unit, text, i + k + 1) < Offset(unit, text, (i + k + 1) + 1)
    <3>1. i + k + 1 \in 0 .. Len(text) - 1
      BY <1>0, <2>1
    <3>2. QED
      BY <3>1, OffsetStep
  <2>3. (i + k + 1) + 1 = i + k + 2 /\ Offset(unit, text, i) < Offset(unit, text, i + k + 1)
    BY <1>0, <1>2, <2>1
  <2>4. QED
    BY <1>0, <2>1, <2>2, <2>3
<1>3. Nat \subseteq T
  <2> HIDE DEF T
  <2> QED BY <1>1, <1>2, Induction
<1>4. j - i - 1 \in T
  <2>1. j - i - 1 \in Nat
    BY <1>0
  <2> HIDE DEF T
  <2> QED BY <1>3, <2>1
<1>5. i + (j - i - 1) + 1 = j /\ j <= Len(text)
  BY <1>0
<1>6. QED
  BY <1>4, <1>5

\* The offsets within a piece of a text are those of the piece, from where it begins.
LEMMA OffsetWithin ==
    ASSUME NEW unit \in Units, NEW text \in Text, NEW piece \in Text, NEW at \in Nat, NEW n \in Nat,
           n <= Len(piece), at + n <= Len(text),
           \A i \in 1 .. n : text[at + i] = piece[i]
    PROVE  Offset(unit, text, at + n) = Offset(unit, text, at) + Offset(unit, piece, n)
<1> DEFINE T == { k \in Nat : k <= n => Offset(unit, text, at + k) = Offset(unit, text, at) + Offset(unit, piece, k) }
<1>0. /\ Len(text) \in Nat /\ Len(piece) \in Nat
      /\ \A i \in 0 .. Len(text) : Offset(unit, text, i) \in Nat
      /\ \A i \in 0 .. Len(piece) : Offset(unit, piece, i) \in Nat
  BY SizesTyped DEF Text
<1>1. 0 \in T
  <2>1. Offset(unit, piece, 0) = 0 /\ Offset(unit, text, at) \in Nat /\ at + 0 = at
    BY <1>0, OffsetStep
  <2>2. QED
    BY <2>1
<1>2. ASSUME NEW k \in Nat, k \in T PROVE k + 1 \in T
  <2>1. SUFFICES ASSUME k + 1 <= n
                 PROVE  Offset(unit, text, at + (k + 1)) = Offset(unit, text, at) + Offset(unit, piece, k + 1)
    OBVIOUS
  <2>2. Offset(unit, text, (at + k) + 1) = Offset(unit, text, at + k) + Width[unit][text[(at + k) + 1]]
    <3>1. at + k \in 0 .. Len(text) - 1
      BY <1>0, <2>1
    <3>2. QED
      BY <3>1, OffsetStep
  <2>3. Offset(unit, piece, k + 1) = Offset(unit, piece, k) + Width[unit][piece[k + 1]] /\ piece[k + 1] \in Symbols
    <3>1. k \in 0 .. Len(piece) - 1
      BY <1>0, <2>1
    <3>2. piece[k + 1] \in Symbols
      BY <3>1 DEF Text
    <3>3. QED
      BY <3>1, <3>2, OffsetStep
  <2>4. (at + k) + 1 = at + (k + 1) /\ text[at + (k + 1)] = piece[k + 1]
    BY <2>1
  <2>5. Offset(unit, text, at + k) = Offset(unit, text, at) + Offset(unit, piece, k)
    BY <1>2, <2>1
  <2>6. /\ Offset(unit, text, at) \in Nat /\ Offset(unit, piece, k) \in Nat /\ Width[unit][piece[k + 1]] \in Nat
    <3>1. at \in 0 .. Len(text) /\ k \in 0 .. Len(piece)
      BY <1>0, <2>1
    <3>2. Width[unit][piece[k + 1]] \in Nat
      BY <2>3, WidthTyped, Zenon
    <3>3. QED
      BY <1>0, <3>1, <3>2
  <2>7. QED
    BY <2>2, <2>3, <2>4, <2>5, <2>6, SMTT(60)
<1>3. Nat \subseteq T
  <2> HIDE DEF T
  <2> QED BY <1>1, <1>2, Induction
<1>4. QED
  BY <1>3

\* The character at the offset of a position is that position again.
LEMMA CharAtOffset ==
    ASSUME NEW unit \in Units, NEW text \in Text, NEW i \in 0 .. Len(text)
    PROVE  CharAt(unit, text, Offset(unit, text, i)) = i
<1> DEFINE S == { j \in 0 .. Len(text) : Offset(unit, text, j) <= Offset(unit, text, i) }
<1>0. Len(text) \in Nat /\ \A n \in 0 .. Len(text) : Offset(unit, text, n) \in Nat
  BY SizesTyped DEF Text
<1>1. i \in S /\ S \subseteq 0 .. Len(text)
  BY <1>0
<1>2. \A j \in S : j <= i
  <2>1. SUFFICES ASSUME NEW j \in 0 .. Len(text), i < j PROVE Offset(unit, text, i) < Offset(unit, text, j)
    BY <1>0
  <2>2. QED
    BY <2>1, OffsetGrows
<1>3. Max(S) \in S /\ i <= Max(S)
  <2> HIDE DEF S
  <2> QED BY <1>0, <1>1, MaxIsGreatest
<1>4. Max(S) = i
  <2>1. Max(S) \in 0 .. Len(text) /\ Max(S) <= i
    <3> HIDE DEF S
    <3> QED BY <1>1, <1>2, <1>3
  <2>2. QED
    BY <1>0, <1>3, <2>1
<1>5. QED
  BY <1>4 DEF CharAt

\* A position written in units is read back as it was.
LEMMA CharFromOffset ==
    ASSUME NEW unit \in Units, NEW text \in Text, NEW i \in 0 .. Len(text)
    PROVE  CharFrom(unit, text, Offset(unit, text, i)) = i
<1> DEFINE S == {Len(text)} \cup { j \in 0 .. Len(text) : Offset(unit, text, j) >= Offset(unit, text, i) }
<1>0. Len(text) \in Nat /\ \A n \in 0 .. Len(text) : Offset(unit, text, n) \in Nat
  BY SizesTyped DEF Text
<1>1. i \in S /\ S \subseteq 0 .. Len(text)
  BY <1>0
<1>2. \A j \in S : i <= j
  <2>1. SUFFICES ASSUME NEW j \in 0 .. Len(text), j < i PROVE Offset(unit, text, j) < Offset(unit, text, i)
    BY <1>0
  <2>2. QED
    BY <2>1, OffsetGrows
<1>3. Min(S) \in S /\ Min(S) <= i
  <2> HIDE DEF S
  <2>1. S \subseteq Nat
    BY <1>0, <1>1
  <2> QED BY <1>1, <2>1, MinIsLeast
<1>4. Min(S) = i
  <2>1. Min(S) \in 0 .. Len(text) /\ i <= Min(S)
    <3> HIDE DEF S
    <3> QED BY <1>1, <1>2, <1>3
  <2>2. QED
    BY <1>0, <1>3, <2>1
<1>5. QED
  BY <1>4 DEF CharFrom

\* Whatever the cursor, the character at it is one of the line.
LEMMA CharAtTyped ==
    ASSUME NEW unit \in Units, NEW text \in Text, NEW n \in Nat
    PROVE  CharAt(unit, text, n) \in 0 .. Len(text)
<1> DEFINE S == { j \in 0 .. Len(text) : Offset(unit, text, j) <= n }
<1>0. Len(text) \in Nat
  BY DEF Text
<1>1. 0 \in S /\ S \subseteq 0 .. Len(text)
  BY <1>0, OffsetStep
<1>2. Max(S) \in S
  <2> HIDE DEF S
  <2> QED BY <1>0, <1>1, MaxIsGreatest
<1>3. QED
  BY <1>1, <1>2 DEF CharAt

-----------------------------------------------------------------------------
\* The two sides of a position, and a piece put in there.
LEMMA SidesTyped ==
    ASSUME NEW text \in Text, NEW i \in 0 .. Len(text)
    PROVE  /\ UpTo(text, i) \in Text /\ Len(UpTo(text, i)) = i
           /\ \A j \in 1 .. i : UpTo(text, i)[j] = text[j]
           /\ From(text, i) \in Text /\ Len(From(text, i)) = Len(text) - i
           /\ \A j \in 1 .. Len(text) - i : From(text, i)[j] = text[i + j]
<1>1. Len(text) \in Nat /\ \A j \in 1 .. Len(text) : text[j] \in Symbols
  BY DEF Text
<1>2. UpTo(text, i) \in Text /\ Len(UpTo(text, i)) = i /\ \A j \in 1 .. i : UpTo(text, i)[j] = text[j]
  BY <1>1, SubSeqProperties DEF UpTo, Text
<1>3. From(text, i) \in Text /\ Len(From(text, i)) = Len(text) - i
      /\ \A j \in 1 .. Len(text) - i : From(text, i)[j] = text[i + j]
  BY <1>1, SubSeqProperties DEF From, Text
<1>4. QED
  BY <1>2, <1>3

\* Two texts, one after the other.
LEMMA JoinTyped ==
    ASSUME NEW s \in Text, NEW t \in Text
    PROVE  /\ s \o t \in Text /\ Len(s \o t) = Len(s) + Len(t)
           /\ Len(s) \in Nat /\ Len(t) \in Nat
           /\ \A j \in 1 .. Len(s) : (s \o t)[j] = s[j]
           /\ \A j \in 1 .. Len(t) : (s \o t)[Len(s) + j] = t[j]
BY DEF Text

\* The offsets of two texts, one after the other.
LEMMA OffsetOfJoin ==
    ASSUME NEW unit \in Units, NEW s \in Text, NEW t \in Text
    PROVE  /\ \A n \in 0 .. Len(s) : Offset(unit, s \o t, n) = Offset(unit, s, n)
           /\ \A n \in 0 .. Len(t) : Offset(unit, s \o t, Len(s) + n) = Offset(unit, s, Len(s)) + Offset(unit, t, n)
<1>1. ASSUME NEW n \in 0 .. Len(s) PROVE Offset(unit, s \o t, n) = Offset(unit, s, n)
  <2>1. /\ n \in Nat /\ n <= Len(s) /\ 0 + n <= Len(s \o t) /\ s \o t \in Text
        /\ \A i \in 1 .. n : (s \o t)[0 + i] = s[i]
    <3>1. n \in Nat /\ n <= Len(s) /\ 0 + n <= Len(s \o t) /\ s \o t \in Text
      BY JoinTyped
    <3>2. ASSUME NEW i \in 1 .. n PROVE (s \o t)[0 + i] = s[i]
      <4>1. i \in 1 .. Len(s) /\ 0 + i = i
        BY <3>1, JoinTyped
      <4>2. QED
        BY <4>1, JoinTyped
    <3>3. QED
      BY <3>1, <3>2
  <2>2. Offset(unit, s \o t, 0 + n) = Offset(unit, s \o t, 0) + Offset(unit, s, n)
    BY <2>1, 0 \in Nat, OffsetWithin, ZenonT(60)
  <2>3. Offset(unit, s \o t, 0) = 0 /\ Offset(unit, s, n) \in Nat
    BY <2>1, OffsetStep, SizesTyped
  <2>4. QED
    BY <2>1, <2>2, <2>3
<1>2. ASSUME NEW n \in 0 .. Len(t)
      PROVE  Offset(unit, s \o t, Len(s) + n) = Offset(unit, s, Len(s)) + Offset(unit, t, n)
  <2>1. /\ n \in Nat /\ Len(s) \in Nat /\ n <= Len(t) /\ Len(s) + n <= Len(s \o t) /\ s \o t \in Text
        /\ \A i \in 1 .. n : (s \o t)[Len(s) + i] = t[i]
    <3>1. n \in Nat /\ Len(s) \in Nat /\ n <= Len(t) /\ Len(s) + n <= Len(s \o t) /\ s \o t \in Text
      BY JoinTyped
    <3>2. ASSUME NEW i \in 1 .. n PROVE (s \o t)[Len(s) + i] = t[i]
      <4>1. i \in 1 .. Len(t)
        BY <3>1, JoinTyped
      <4>2. QED
        BY <4>1, JoinTyped
    <3>3. QED
      BY <3>1, <3>2
  <2>2. Offset(unit, s \o t, Len(s) + n) = Offset(unit, s \o t, Len(s)) + Offset(unit, t, n)
    BY <2>1, OffsetWithin, ZenonT(60)
  <2>3. QED
    BY <1>1, <2>1, <2>2
<1>3. QED
  BY <1>1, <1>2

\* A part of a text has the offsets of the text.
LEMMA OffsetOfUpTo ==
    ASSUME NEW unit \in Units, NEW text \in Text, NEW i \in 0 .. Len(text)
    PROVE  Offset(unit, UpTo(text, i), i) = Offset(unit, text, i)
<1>1. /\ i \in Nat /\ UpTo(text, i) \in Text /\ Len(UpTo(text, i)) = i
      /\ \A j \in 1 .. i : UpTo(text, i)[0 + j] = text[j]
  BY SidesTyped
<1>2. i <= Len(text) /\ 0 + i <= Len(UpTo(text, i))
  BY <1>1 DEF Text
<1>3. Offset(unit, UpTo(text, i), 0 + i) = Offset(unit, UpTo(text, i), 0) + Offset(unit, text, i)
  BY <1>1, <1>2, OffsetWithin
<1>4. Offset(unit, UpTo(text, i), 0) = 0 /\ Offset(unit, text, i) \in Nat
  BY <1>1, OffsetStep, SizesTyped
<1>5. QED
  BY <1>1, <1>3, <1>4

\* The texts of no symbol and of one.
LEMMA PiecesTyped ==
    /\ " " \in Symbols /\ <<>> \in Text /\ Len(<<>>) = 0
    /\ \A c \in Symbols : <<c>> \in Text /\ Len(<<c>>) = 1 /\ <<c>>[1] = c
<1>1. " " \in Symbols
  BY DEF Symbols
<1>2. ASSUME NEW c \in Symbols PROVE <<c>> \in Text /\ Len(<<c>>) = 1 /\ <<c>>[1] = c
  BY DEF Text
<1>3. <<>> \in Text /\ Len(<<>>) = 0
  BY DEF Text
<1>4. QED
  BY <1>1, <1>2, <1>3

\* A line with a part of it replaced is a line.
LEMMA SpliceTyped ==
    ASSUME NEW text \in Text, NEW i \in 0 .. Len(text), NEW piece \in Text
    PROVE  /\ Splice(text, i, piece) \in Text /\ Len(Splice(text, i, piece)) = Len(text) + Len(piece)
           /\ i + Len(piece) \in 0 .. Len(Splice(text, i, piece))
<1>1. Len(text) \in Nat /\ Len(piece) \in Nat
  BY DEF Text
<1>2. UpTo(text, i) \in Text /\ Len(UpTo(text, i)) = i /\ From(text, i) \in Text /\ Len(From(text, i)) = Len(text) - i
  BY SidesTyped
<1>3. UpTo(text, i) \o piece \in Text /\ Len(UpTo(text, i) \o piece) = i + Len(piece)
  BY <1>2, JoinTyped, ZenonT(60)
<1>4. /\ (UpTo(text, i) \o piece) \o From(text, i) \in Text
      /\ Len((UpTo(text, i) \o piece) \o From(text, i)) = (i + Len(piece)) + (Len(text) - i)
  BY <1>2, <1>3, JoinTyped
<1>5. QED
  BY <1>1, <1>4 DEF Splice

\* The word before the caret begins in the line.
LEMMA WordStartTyped ==
    ASSUME NEW text \in Text
    PROVE  WordStart(text) \in 0 .. Len(text)
<1> DEFINE S == {0} \cup { i \in DOMAIN text : text[i] = " " }
<1>1. Len(text) \in Nat /\ S \subseteq 0 .. Len(text) /\ S # {}
  <2>1. Len(text) \in Nat /\ DOMAIN text = 1 .. Len(text)
    BY DEF Text
  <2>2. 0 \in 0 .. Len(text) /\ \A i \in DOMAIN text : i \in 0 .. Len(text)
    BY <2>1
  <2>3. 0 \in S /\ \A i \in S : i \in 0 .. Len(text)
    BY <2>2, Zenon
  <2> HIDE DEF S
  <2>4. QED
    BY <2>1, <2>3
<1>2. Max(S) \in S
  <2> HIDE DEF S
  <2> QED BY <1>1, MaxIsGreatest
<1>3. QED
  BY <1>1, <1>2 DEF WordStart

\* What is left of a line without the blanks around it is a line.
LEMMA TrimTyped ==
    ASSUME NEW text \in Text
    PROVE  Trim(text) \in Text
<1> DEFINE S == {0} \cup { i \in DOMAIN text : text[i] # " " }
<1>1. Len(text) \in Nat /\ S \subseteq 0 .. Len(text) /\ S # {}
  <2>1. Len(text) \in Nat /\ DOMAIN text = 1 .. Len(text)
    BY DEF Text
  <2>2. 0 \in 0 .. Len(text) /\ \A i \in DOMAIN text : i \in 0 .. Len(text)
    BY <2>1
  <2>3. 0 \in S /\ \A i \in S : i \in 0 .. Len(text)
    BY <2>2, Zenon
  <2> HIDE DEF S
  <2>4. QED
    BY <2>1, <2>3
<1>2. Max(S) \in S
  <2> HIDE DEF S
  <2> QED BY <1>1, MaxIsGreatest
<1>3. QED
  BY <1>1, <1>2, SidesTyped DEF Trim

\* What the rules may make of a token.
LEMMA OutcomesTyped ==
    ASSUME NEW token, NEW e \in Outcomes(token), e # None
    PROVE  /\ token \in DOMAIN Expansions /\ token # <<>>
           /\ e.text \in Text /\ Len(e.text) \in Nat
           /\ e.mark # None => e.mark \in 0 .. Len(e.text)
<1>1. token \in DOMAIN Expansions /\ e \in Expansions[token]
  BY DEF Outcomes
<1>2. e \in Expansion /\ (e.mark # None => e.mark <= Len(e.text)) /\ token # <<>>
  BY <1>1, TextAssumption
<1>3. e.text \in Text /\ Len(e.text) \in Nat /\ e.mark \in Nat \cup {None}
  BY <1>2 DEF Expansion, Text
<1>4. QED
  BY <1>1, <1>2, <1>3
-----------------------------------------------------------------------------
\* The two edits a press may make of a line l with the caret at c, as TriggerKey states
\* them: the new text, and where the caret is in it.
SpaceEdit(l, c, text, i) == text = Splice(l, c, <<" ">>) /\ i = c + 1
ExpansionEdit(l, c, text, i) ==
    LET start == WordStart(UpTo(l, c))
        token == From(UpTo(l, c), start)
    IN /\ c < Len(l) => l[c + 1] = " "
       /\ IsCommandPosition(UpTo(l, start))
       /\ \E e \in Outcomes(token) \ {None} :
             LET after == IF e.mark = None THEN <<" ">> ELSE <<>> IN
             /\ text = UpTo(l, start) \o e.text \o after \o From(l, c)
             /\ i = start + IF e.mark = None THEN Len(e.text) + 1 ELSE e.mark

\* The size of one character.
LEMMA OneOffset ==
    ASSUME NEW unit \in Units, NEW piece \in Text, Len(piece) = 1
    PROVE  piece[1] \in Symbols /\ Offset(unit, piece, 1) = Width[unit][piece[1]]
<1>1. piece[1] \in Symbols
  BY DEF Text
<1>2. 0 \in 0 .. Len(piece) - 1 /\ 0 + 1 = 1
  OBVIOUS
<1>3. Offset(unit, piece, 0) = 0 /\ Offset(unit, piece, 0 + 1) = Offset(unit, piece, 0) + Width[unit][piece[0 + 1]]
  BY <1>2, OffsetStep
<1>4. Width[unit][piece[1]] \in Nat
  BY <1>1, WidthTyped
<1>5. QED
  BY <1>1, <1>2, <1>3, <1>4

\* A blank is one byte.
LEMMA BlankOffset == <<" ">> \in Text /\ Len(<<" ">>) = 1 /\ Offset("byte", <<" ">>, 1) = 1
<1>1. <<" ">> \in Text /\ Len(<<" ">>) = 1 /\ <<" ">>[1] = " "
  BY PiecesTyped
<1>2. ASSUME NEW piece \in Text, Len(piece) = 1, piece[1] = " " PROVE Offset("byte", piece, 1) = 1
  BY <1>2, OneOffset, WidthTyped
<1>3. QED
  BY <1>1, <1>2

\* The offset after a piece that is put into a line.
LEMMA SpliceOffset ==
    ASSUME NEW unit \in Units, NEW text \in Text, NEW i \in 0 .. Len(text), NEW piece \in Text
    PROVE  Offset(unit, Splice(text, i, piece), i + Len(piece)) =
             Offset(unit, text, i) + Offset(unit, piece, Len(piece))
<1> DEFINE left == UpTo(text, i)
           right == From(text, i)
<1>1. left \in Text /\ right \in Text /\ Len(left) = i /\ Len(piece) \in Nat /\ i \in Nat
  BY SidesTyped, JoinTyped
<1>2. /\ left \o piece \in Text /\ Len(left \o piece) = i + Len(piece)
      /\ i + Len(piece) \in 0 .. Len(left \o piece) /\ Len(piece) \in 0 .. Len(piece)
  <2> HIDE DEF left, right
  <2>1. left \o piece \in Text /\ Len(left \o piece) = i + Len(piece)
    BY <1>1, JoinTyped
  <2>2. QED
    BY <1>1, <2>1
<1>3. Offset(unit, (left \o piece) \o right, i + Len(piece)) = Offset(unit, left \o piece, i + Len(piece))
  <2> HIDE DEF left, right
  <2> QED BY <1>1, <1>2, OffsetOfJoin, ZenonT(60)
<1>4. Offset(unit, left \o piece, i + Len(piece)) = Offset(unit, left, i) + Offset(unit, piece, Len(piece))
  <2> HIDE DEF left, right
  <2> QED BY <1>1, <1>2, OffsetOfJoin
<1>5. Offset(unit, left, i) = Offset(unit, text, i)
  BY OffsetOfUpTo
<1>6. QED
  BY <1>3, <1>4, <1>5 DEF Splice

\* An expansion and the blank after it between two texts: where its characters are.
LEMMA ExpandedOffset ==
    ASSUME NEW unit \in Units, NEW left \in Text, NEW mid \in Text, NEW after \in Text, NEW right \in Text
    PROVE  LET text == left \o mid \o after \o right IN
           /\ text \in Text /\ Len(text) = Len(left) + Len(mid) + Len(after) + Len(right)
           /\ \A n \in 0 .. Len(mid) :
                 Offset(unit, text, Len(left) + n) = Size(unit, left) + Offset(unit, mid, n)
           /\ Offset(unit, text, Len(left) + Len(mid) + Len(after)) =
                 Size(unit, left) + Size(unit, mid) + Size(unit, after)
<1>1. /\ Len(left) \in Nat /\ Len(mid) \in Nat /\ Len(after) \in Nat /\ Len(right) \in Nat
      /\ left \o mid \in Text /\ Len(left \o mid) = Len(left) + Len(mid)
  BY JoinTyped
<1>2. (left \o mid) \o after \in Text /\ Len((left \o mid) \o after) = Len(left) + Len(mid) + Len(after)
  BY <1>1, JoinTyped
<1>3. /\ ((left \o mid) \o after) \o right \in Text
      /\ Len(((left \o mid) \o after) \o right) = Len(left) + Len(mid) + Len(after) + Len(right)
  BY <1>2, JoinTyped
<1>4. ASSUME NEW n \in 0 .. Len(left) + Len(mid) + Len(after)
      PROVE  Offset(unit, ((left \o mid) \o after) \o right, n) = Offset(unit, (left \o mid) \o after, n)
  <2>1. n \in 0 .. Len((left \o mid) \o after)
    BY <1>2
  <2>2. QED
    BY <1>2, <2>1, OffsetOfJoin
<1>5. ASSUME NEW n \in 0 .. Len(left) + Len(mid)
      PROVE  Offset(unit, (left \o mid) \o after, n) = Offset(unit, left \o mid, n)
  <2>1. n \in 0 .. Len(left \o mid)
    BY <1>1
  <2>2. QED
    BY <1>1, <2>1, OffsetOfJoin
<1>6. \A n \in 0 .. Len(mid) :
         Offset(unit, left \o mid, Len(left) + n) = Offset(unit, left, Len(left)) + Offset(unit, mid, n)
  BY OffsetOfJoin
<1>7. ASSUME NEW n \in 0 .. Len(mid)
      PROVE  Offset(unit, ((left \o mid) \o after) \o right, Len(left) + n) = Size(unit, left) + Offset(unit, mid, n)
  <2>1. Len(left) + n \in 0 .. Len(left) + Len(mid) /\ Len(left) + n \in 0 .. Len(left) + Len(mid) + Len(after)
    BY <1>1
  <2>2. QED
    BY <2>1, <1>4, <1>5, <1>6 DEF Size
<1>8. Offset(unit, ((left \o mid) \o after) \o right, Len(left) + Len(mid) + Len(after)) =
         Size(unit, left) + Size(unit, mid) + Size(unit, after)
  <2>1. /\ Len(after) \in 0 .. Len(after) /\ Len(mid) \in 0 .. Len(mid)
        /\ Len(left) + Len(mid) + Len(after) \in 0 .. Len(left) + Len(mid) + Len(after)
    BY <1>1
  <2>2. Offset(unit, (left \o mid) \o after, Len(left \o mid) + Len(after)) =
           Offset(unit, left \o mid, Len(left \o mid)) + Offset(unit, after, Len(after))
    BY <1>1, <2>1, OffsetOfJoin
  <2>3. Offset(unit, left \o mid, Len(left) + Len(mid)) = Offset(unit, left, Len(left)) + Offset(unit, mid, Len(mid))
    BY <1>6, <2>1
  <2>4. QED
    BY <1>1, <1>4, <2>1, <2>2, <2>3 DEF Size
<1>9. QED
  BY <1>3, <1>7, <1>8
\* The two fields of an answer.
LEMMA AnswerFields ==
    \A text, n : [line |-> text, cursor |-> n].line = text /\ [line |-> text, cursor |-> n].cursor = n
OBVIOUS

\* What the hook answers when no rule fires, its cursor in bytes.
LEMMA SpaceAnswer ==
    ASSUME NEW l \in Text, NEW c \in 0 .. Len(l)
    PROVE  LET action == InsertSpace(l, Offset("byte", l, c)) IN
           /\ action = [line |-> Splice(l, c, <<" ">>), cursor |-> Offset("byte", l, c) + 1]
           /\ action.line \in Text /\ c + 1 \in 0 .. Len(action.line)
           /\ action.cursor = Offset("byte", action.line, c + 1)
<1>1. CharAt("byte", l, Offset("byte", l, c)) = c
  BY WidthTyped, CharAtOffset
<1>2. <<" ">> \in Text /\ Len(<<" ">>) = 1 /\ Offset("byte", <<" ">>, 1) = 1 /\ "byte" \in Units
  BY BlankOffset, WidthTyped
<1>3. ASSUME NEW piece \in Text, Len(piece) = 1, Offset("byte", piece, 1) = 1
      PROVE  /\ Splice(l, c, piece) \in Text /\ c + 1 \in 0 .. Len(Splice(l, c, piece))
             /\ Offset("byte", l, c) + 1 = Offset("byte", Splice(l, c, piece), c + 1)
  <2>1. Splice(l, c, piece) \in Text /\ c + 1 \in 0 .. Len(Splice(l, c, piece))
    BY <1>3, SpliceTyped
  <2>2. Offset("byte", Splice(l, c, piece), c + Len(piece)) = Offset("byte", l, c) + Offset("byte", piece, Len(piece))
    BY <1>2, SpliceOffset
  <2>3. QED
    BY <1>3, <2>1, <2>2
<1>4. /\ Splice(l, c, <<" ">>) \in Text /\ c + 1 \in 0 .. Len(Splice(l, c, <<" ">>))
      /\ Offset("byte", l, c) + 1 = Offset("byte", Splice(l, c, <<" ">>), c + 1)
  BY <1>2, <1>3
<1>5. InsertSpace(l, Offset("byte", l, c)) = [line |-> Splice(l, c, <<" ">>), cursor |-> Offset("byte", l, c) + 1]
  BY <1>1 DEF InsertSpace
<1>6. /\ InsertSpace(l, Offset("byte", l, c)).line = Splice(l, c, <<" ">>)
      /\ InsertSpace(l, Offset("byte", l, c)).cursor = Offset("byte", l, c) + 1
  BY <1>5, AnswerFields, Zenon
<1>7. QED
  BY <1>4, <1>5, <1>6, Zenon

\* ... and when one does.
LEMMA ExpansionAnswer ==
    ASSUME NEW l \in Text, NEW c \in 0 .. Len(l), NEW start \in 0 .. c, NEW e,
           e.text \in Text, e.mark # None => e.mark \in 0 .. Len(e.text)
    PROVE  LET action == Replace(l, start, Offset("byte", l, c), e)
               after == IF e.mark = None THEN <<" ">> ELSE <<>>
               i == start + IF e.mark = None THEN Len(e.text) + 1 ELSE e.mark
           IN /\ action.line = UpTo(l, start) \o e.text \o after \o From(l, c)
              /\ action.line \in Text /\ i \in 0 .. Len(action.line)
              /\ action.cursor = Offset("byte", action.line, i)
<1> DEFINE left == UpTo(l, start)
           right == From(l, c)
<1>1. CharAt("byte", l, Offset("byte", l, c)) = c /\ "byte" \in Units
  BY WidthTyped, CharAtOffset
<1>2. start \in 0 .. Len(l)
  BY JoinTyped
<1>3. left \in Text /\ right \in Text /\ Len(left) = start /\ Offset("byte", l, start) = Size("byte", left)
  BY <1>1, <1>2, SidesTyped, OffsetOfUpTo DEF Size
<1>4. Len(e.text) \in Nat /\ Len(right) \in Nat /\ start \in Nat
  BY <1>2, <1>3, JoinTyped
<1>5. CASE e.mark = None
  <2>1. Replace(l, start, Offset("byte", l, c), e) =
          [line |-> left \o e.text \o <<" ">> \o right,
           cursor |-> Offset("byte", l, start) + (Size("byte", e.text) + 1)]
    BY <1>1, <1>5 DEF Replace
  <2>2. <<" ">> \in Text /\ Len(<<" ">>) = 1 /\ Offset("byte", <<" ">>, 1) = 1
    BY BlankOffset
  <2> HIDE DEF left, right
  <2>3. ASSUME NEW after \in Text, Len(after) = 1, Offset("byte", after, 1) = 1
        PROVE  /\ left \o e.text \o after \o right \in Text
               /\ start + (Len(e.text) + 1) \in 0 .. Len(left \o e.text \o after \o right)
               /\ Offset("byte", l, start) + (Size("byte", e.text) + 1) =
                     Offset("byte", left \o e.text \o after \o right, start + (Len(e.text) + 1))
    <3>1. /\ left \o e.text \o after \o right \in Text
          /\ Len(left \o e.text \o after \o right) = Len(left) + Len(e.text) + Len(after) + Len(right)
          /\ Offset("byte", left \o e.text \o after \o right, Len(left) + Len(e.text) + Len(after)) =
                Size("byte", left) + Size("byte", e.text) + Size("byte", after)
      BY <1>1, <1>3, ExpandedOffset, SMTT(60)
    <3>2. Size("byte", after) = 1 /\ Len(left) + Len(e.text) + Len(after) = start + (Len(e.text) + 1)
      BY <1>3, <1>4, <2>3 DEF Size
    <3>3. Size("byte", left) \in Nat /\ Size("byte", e.text) \in Nat
      BY <1>1, <1>3, <1>4, SizesTyped DEF Size
    <3>4. QED
      BY <1>3, <1>4, <2>3, <3>1, <3>2, <3>3, SMTT(60)
  <2> DEFINE action == Replace(l, start, Offset("byte", l, c), e)
  <2>4. /\ action.line = left \o e.text \o <<" ">> \o right
        /\ action.cursor = Offset("byte", l, start) + (Size("byte", e.text) + 1)
    BY <2>1, AnswerFields, Zenon
  <2> HIDE DEF action
  <2>5. /\ action.line \in Text /\ start + (Len(e.text) + 1) \in 0 .. Len(action.line)
        /\ action.cursor = Offset("byte", action.line, start + (Len(e.text) + 1))
    BY <2>2, <2>3, <2>4, Zenon
  <2>6. QED
    BY <1>5, <2>4, <2>5, Zenon DEF left, right, action
<1>6. CASE e.mark # None
  <2>1. Replace(l, start, Offset("byte", l, c), e) =
          [line |-> left \o e.text \o <<>> \o right,
           cursor |-> Offset("byte", l, start) + Offset("byte", e.text, e.mark)]
    BY <1>1, <1>6 DEF Replace
  <2>2. <<>> \in Text /\ Len(<<>>) = 0
    BY PiecesTyped
  <2> HIDE DEF left, right
  <2>3. ASSUME NEW after \in Text, Len(after) = 0
        PROVE  /\ left \o e.text \o after \o right \in Text
               /\ start + e.mark \in 0 .. Len(left \o e.text \o after \o right)
               /\ Offset("byte", l, start) + Offset("byte", e.text, e.mark) =
                     Offset("byte", left \o e.text \o after \o right, start + e.mark)
    <3>0. e.mark \in 0 .. Len(e.text)
      BY <1>6
    <3>1. /\ left \o e.text \o after \o right \in Text
          /\ Len(left \o e.text \o after \o right) = Len(left) + Len(e.text) + Len(after) + Len(right)
          /\ Offset("byte", left \o e.text \o after \o right, Len(left) + e.mark) =
                Size("byte", left) + Offset("byte", e.text, e.mark)
      <4>1. left \in Text /\ right \in Text /\ e.text \in Text /\ "byte" \in Units
        BY <1>1, <1>3
      <4>2. QED
        BY <3>0, <4>1, ExpandedOffset
    <3>2. QED
      BY <1>3, <1>4, <2>3, <3>0, <3>1
  <2> DEFINE action == Replace(l, start, Offset("byte", l, c), e)
  <2>4. /\ action.line = left \o e.text \o <<>> \o right
        /\ action.cursor = Offset("byte", l, start) + Offset("byte", e.text, e.mark)
    BY <2>1
  <2> HIDE DEF action
  <2>5. /\ action.line \in Text /\ start + e.mark \in 0 .. Len(action.line)
        /\ action.cursor = Offset("byte", action.line, start + e.mark)
    BY <2>2, <2>3, <2>4, Zenon
  <2>6. QED
    BY <1>6, <2>4, <2>5, Zenon DEF left, right, action
<1>7. QED
  BY <1>5, <1>6

\* The token before the caret, and what the hook makes of a line.
LEMMA HookActionIsEdit ==
    ASSUME NEW l \in Text, NEW c \in 0 .. Len(l), NEW e \in Outcomes(Token(l, Offset("byte", l, c)))
    PROVE  LET action == HookAction(l, Offset("byte", l, c), e) IN
           /\ action.line \in Text
           /\ \E i \in 0 .. Len(action.line) :
                 /\ action.cursor = Offset("byte", action.line, i)
                 /\ SpaceEdit(l, c, action.line, i) \/ ExpansionEdit(l, c, action.line, i)
<1> DEFINE b == Offset("byte", l, c)
           start == WordStart(UpTo(l, c))
<1>1. CharAt("byte", l, b) = c
  BY WidthTyped, CharAtOffset
<1>2. TokenStart(l, b) = start /\ Token(l, b) = From(UpTo(l, c), start)
  BY <1>1 DEF TokenStart, Token
<1>3. CASE Expands(l, b) /\ e # None
  <2>1. HookAction(l, b, e) = Replace(l, start, b, e)
    BY <1>2, <1>3 DEF HookAction
  <2>2. c < Len(l) => l[c + 1] = " "
    BY <1>1, <1>3 DEF Expands
  <2>3. IsCommandPosition(UpTo(l, start))
    BY <1>2, <1>3 DEF Expands
  <2>4. e.text \in Text /\ (e.mark # None => e.mark \in 0 .. Len(e.text))
    BY <1>3, OutcomesTyped
  <2>5. start \in 0 .. c
    BY SidesTyped, WordStartTyped
  <2> DEFINE action == Replace(l, start, b, e)
             i == start + IF e.mark = None THEN Len(e.text) + 1 ELSE e.mark
  <2>6. /\ action.line = UpTo(l, start) \o e.text \o (IF e.mark = None THEN <<" ">> ELSE <<>>) \o From(l, c)
        /\ action.line \in Text /\ i \in 0 .. Len(action.line)
        /\ action.cursor = Offset("byte", action.line, i)
    <3> HIDE DEF start
    <3> QED BY <2>4, <2>5, ExpansionAnswer
  <2>7. e \in Outcomes(From(UpTo(l, c), start)) \ {None}
    BY <1>2, <1>3
  <2>8. ExpansionEdit(l, c, action.line, i)
    <3> HIDE DEF action
    <3> QED BY <2>2, <2>3, <2>6, <2>7 DEF ExpansionEdit
  <2>9. QED
    BY <2>1, <2>6, <2>8
<1>4. CASE ~(Expands(l, b) /\ e # None)
  <2>1. HookAction(l, b, e) = InsertSpace(l, b)
    BY <1>4 DEF HookAction
  <2>2. QED
    <3> DEFINE action == InsertSpace(l, b)
    <3>1. /\ action.line = Splice(l, c, <<" ">>) /\ action.line \in Text /\ c + 1 \in 0 .. Len(action.line)
          /\ action.cursor = Offset("byte", action.line, c + 1)
      <4>1. /\ action = [line |-> Splice(l, c, <<" ">>), cursor |-> b + 1]
            /\ action.line \in Text /\ c + 1 \in 0 .. Len(action.line)
            /\ action.cursor = Offset("byte", action.line, c + 1)
        BY SpaceAnswer
      <4>2. QED
        BY <4>1, AnswerFields, Zenon
    <3>2. SpaceEdit(l, c, action.line, c + 1)
      BY <3>1 DEF SpaceEdit
    <3>3. QED
      BY <2>1, <3>1, <3>2
<1>5. QED
  BY <1>3, <1>4
\* A position keeps its place from the shell to the hook ...
LEMMA HookSeesCaret ==
    ASSUME NEW sh, NEW l \in Text, NEW c \in 0 .. Len(l)
    PROVE  FromShell(sh, l, Offset(ShellUnit(sh), l, c)) = Offset("byte", l, c)
<1>1. "char" \in Units /\ "utf16" \in Units
  BY WidthTyped
<1>2. CharAt("char", l, Offset("char", l, c)) = c /\ CharAt("utf16", l, Offset("utf16", l, c)) = c
  BY <1>1, CharAtOffset
<1>3. QED
  BY <1>2 DEF FromShell, ShellUnit

\* ... and from the hook to the shell.
LEMMA ShellSeesCaret ==
    ASSUME NEW sh, NEW t \in Text, NEW i \in 0 .. Len(t)
    PROVE  CharAt(IF sh = "zsh" THEN "byte" ELSE ShellUnit(sh), t, ToShell(sh, t, Offset("byte", t, i))) = i
<1>1. "char" \in Units /\ "utf16" \in Units /\ "byte" \in Units
  BY WidthTyped
<1>2. \A unit \in Units : CharAt(unit, t, Offset(unit, t, i)) = i
  BY CharAtOffset
<1>3. CharFrom("byte", t, Offset("byte", t, i)) = i
  BY <1>1, CharFromOffset
<1>4. CASE sh = "zsh"
  BY <1>1, <1>2, <1>4 DEF ToShell
<1>5. CASE sh = "pwsh"
  BY <1>1, <1>2, <1>3, <1>5 DEF ToShell, ShellUnit
<1>6. CASE sh # "zsh" /\ sh # "pwsh"
  BY <1>1, <1>2, <1>6 DEF ToShell, ShellUnit
<1>7. QED
  BY <1>4, <1>5, <1>6

-----------------------------------------------------------------------------
\* What Git Bash makes of a line.
LEMMA UpToUpTo ==
    ASSUME NEW l \in Text, NEW c \in 0 .. Len(l), NEW start \in 0 .. c
    PROVE  UpTo(UpTo(l, c), start) = UpTo(l, start)
<1>1. c \in Nat /\ start \in 0 .. Len(l) /\ start \in Nat
  BY JoinTyped
<1>2. UpTo(l, c) \in Text /\ Len(UpTo(l, c)) = c /\ \A j \in 1 .. c : UpTo(l, c)[j] = l[j]
  BY SidesTyped
<1>3. UpTo(l, start) \in Text /\ Len(UpTo(l, start)) = start /\ \A j \in 1 .. start : UpTo(l, start)[j] = l[j]
  BY <1>1, SidesTyped
<1> DEFINE left == UpTo(l, c)
<1>4. UpTo(left, start) \in Text /\ Len(UpTo(left, start)) = start /\ \A j \in 1 .. start : UpTo(left, start)[j] = left[j]
  <2> HIDE DEF left
  <2>1. left \in Text /\ start \in 0 .. Len(left)
    BY <1>2 DEF left
  <2>2. QED
    BY <2>1, SidesTyped
<1>5. \A j \in 1 .. start : UpTo(left, start)[j] = UpTo(l, start)[j]
  <2>1. \A j \in 1 .. start : j \in 1 .. c
    BY <1>1
  <2>2. QED
    BY <1>2, <1>3, <1>4, <2>1
<1>6. QED
  BY <1>3, <1>4, <1>5, SeqEqual DEF Text

\* The baked script counts a caret as the hook does.
LEMMA BakedPositionAgrees ==
    ASSUME NEW prefix \in Text
    PROVE  BakeIsCommandPosition(prefix) <=> IsCommandPosition(prefix)
<1> DEFINE before == Trim(prefix)
           start == WordStart(before)
<1>1. before \in Text
  BY TrimTyped
<1>2. start \in 0 .. Len(before) /\ Len(before) \in Nat
  <2> HIDE DEF before
  <2> QED BY <1>1, WordStartTyped, JoinTyped
<1>3. Len(before) - Len(From(before, start)) = start
  <2> HIDE DEF before, start
  <2>1. Len(From(before, start)) = Len(before) - start
    BY <1>1, <1>2, SidesTyped
  <2>2. QED
    BY <1>2, <2>1
<1>4. QED
  BY <1>3 DEF BakeIsCommandPosition, IsCommandPosition

\* So what it makes of a line is what the hook makes of it.
LEMMA BakeMakesTheEdit ==
    ASSUME NEW l \in Text, NEW c \in 0 .. Len(l), NEW e \in Outcomes(Token(l, Offset("byte", l, c)))
    PROVE  LET action == HookAction(l, Offset("byte", l, c), e)
               edit == BakeEdit(l, c, e)
           IN edit.line = action.line /\ edit.cursor = CharAt("byte", action.line, action.cursor)
<1> DEFINE b == Offset("byte", l, c)
           left == UpTo(l, c)
           right == From(l, c)
           start == WordStart(left)
           token == From(left, start)
<1>0. "byte" \in Units
  BY WidthTyped
<1>1. CharAt("byte", l, b) = c
  BY <1>0, CharAtOffset
<1>2. TokenStart(l, b) = start /\ Token(l, b) = token
  BY <1>1 DEF TokenStart, Token
<1>3. left \in Text /\ Len(left) = c /\ right \in Text /\ Len(right) = Len(l) - c
      /\ \A j \in 1 .. Len(l) - c : right[j] = l[c + j]
  BY SidesTyped
<1>4. start \in 0 .. c /\ start \in Nat /\ start \in 0 .. Len(l) /\ c \in Nat /\ Len(l) \in Nat
  <2>1. start \in 0 .. c
    BY <1>3, WordStartTyped
  <2> HIDE DEF start
  <2>2. QED
    BY <2>1, JoinTyped
<1>5. Len(left) - Len(token) = start
  <2> HIDE DEF left, start
  <2>1. Len(token) = Len(left) - start
    BY <1>3, <1>4, SidesTyped
  <2>2. QED
    BY <1>3, <1>4, <2>1
<1>6. UpTo(left, start) = UpTo(l, start) /\ UpTo(l, start) \in Text /\ Len(UpTo(l, start)) = start
  <2> HIDE DEF start
  <2> QED BY <1>4, UpToUpTo, SidesTyped
<1>7. (right # <<>> => Head(right) = " ") <=> (c < Len(l) => l[c + 1] = " ")
  <2>1. right # <<>> <=> c < Len(l)
    BY <1>3, <1>4, EmptySeq DEF Text
  <2>2. ASSUME c < Len(l) PROVE Head(right) = l[c + 1]
    <3>1. Head(right) = right[1] /\ 1 \in 1 .. Len(l) - c
      <4> HIDE DEF right
      <4> QED BY <1>3, <1>4, <2>1, <2>2 DEF Text
    <3>2. QED
      BY <1>3, <3>1
  <2>3. QED
    BY <2>1, <2>2
<1>8. BakeIsCommandPosition(UpTo(l, start)) <=> IsCommandPosition(UpTo(l, start))
  BY <1>6, BakedPositionAgrees
<1> DEFINE looksUp == /\ right # <<>> => Head(right) = " "
                      /\ token # <<>>
                      /\ BakeIsCommandPosition(UpTo(l, start))
           edit == BakeEdit(l, c, e)
<1>9. (looksUp /\ e # None) <=> (Expands(l, b) /\ e # None)
  <2>1. e # None => token \in DOMAIN Expansions /\ token # <<>>
    BY <1>2, OutcomesTyped
  <2>2. Expands(l, b) <=> /\ c < Len(l) => l[c + 1] = " "
                          /\ token \in DOMAIN Expansions
                          /\ IsCommandPosition(UpTo(l, start))
    <3> HIDE DEF start, token
    <3> QED BY <1>1, <1>2 DEF Expands
  <2> HIDE DEF left, right, start, token
  <2>3. QED
    BY <1>7, <1>8, <2>1, <2>2
<1>10. edit = IF looksUp /\ e # None THEN BakeReplace(UpTo(l, start), e, right)
                                     ELSE [line |-> left \o <<" ">> \o right, cursor |-> c + 1]
  BY <1>5, <1>6, Zenon DEF BakeEdit
<1>11. CASE Expands(l, b) /\ e # None
  <2> DEFINE action == Replace(l, start, b, e)
             i == start + IF e.mark = None THEN Len(e.text) + 1 ELSE e.mark
  <2>1. HookAction(l, b, e) = action /\ edit = BakeReplace(UpTo(l, start), e, right)
    BY <1>2, <1>9, <1>10, <1>11 DEF HookAction
  <2>2. e.text \in Text /\ Len(e.text) \in Nat /\ (e.mark # None => e.mark \in 0 .. Len(e.text))
    BY <1>11, OutcomesTyped
  <2>3. /\ action.line = UpTo(l, start) \o e.text \o (IF e.mark = None THEN <<" ">> ELSE <<>>) \o right
        /\ action.line \in Text /\ i \in 0 .. Len(action.line)
        /\ action.cursor = Offset("byte", action.line, i)
    <3> HIDE DEF start
    <3> QED BY <1>4, <2>2, ExpansionAnswer
  <2>4. CharAt("byte", action.line, action.cursor) = i
    <3> HIDE DEF action, i
    <3> QED BY <1>0, <2>3, CharAtOffset
  <2>5. edit.line = action.line /\ edit.cursor = i
    <3>1. CASE e.mark = None
      <4>1. edit = [line |-> UpTo(l, start) \o e.text \o <<" ">> \o right, cursor |-> start + Len(e.text) + 1]
        BY <1>6, <2>1, <3>1 DEF BakeReplace
      <4>2. start + Len(e.text) + 1 = i
        <5> HIDE DEF start
        <5> QED BY <1>4, <2>2, <3>1
      <4>3. edit.line = UpTo(l, start) \o e.text \o <<" ">> \o right /\ edit.cursor = start + Len(e.text) + 1
        BY <4>1, AnswerFields, Zenon
      <4>4. QED
        BY <2>3, <3>1, <4>2, <4>3, Zenon
    <3>2. CASE e.mark # None
      <4>1. edit = [line |-> UpTo(l, start) \o e.text \o right, cursor |-> start + e.mark]
        BY <1>6, <2>1, <3>2 DEF BakeReplace
      <4>2. start + e.mark = i
        BY <3>2
      <4>3. edit.line = UpTo(l, start) \o e.text \o right /\ edit.cursor = start + e.mark
        BY <4>1, AnswerFields, Zenon
      <4>4. (UpTo(l, start) \o e.text) \o <<>> = UpTo(l, start) \o e.text
        <5>1. UpTo(l, start) \o e.text \in Text
          BY <1>6, <2>2, JoinTyped
        <5>2. QED
          BY <5>1, ConcatEmptySeq DEF Text
      <4>5. QED
        BY <2>3, <3>2, <4>2, <4>3, <4>4, Zenon
    <3>3. QED
      BY <3>1, <3>2
  <2>6. QED
    BY <2>1, <2>4, <2>5, Zenon
<1>12. CASE ~(Expands(l, b) /\ e # None)
  <2> DEFINE action == InsertSpace(l, b)
  <2>1. HookAction(l, b, e) = action
    BY <1>12 DEF HookAction
  <2>2. edit = [line |-> left \o <<" ">> \o right, cursor |-> c + 1]
    BY <1>9, <1>10, <1>12, Zenon
  <2>3. /\ action = [line |-> Splice(l, c, <<" ">>), cursor |-> b + 1]
        /\ action.line \in Text /\ c + 1 \in 0 .. Len(action.line)
        /\ action.cursor = Offset("byte", action.line, c + 1)
    BY SpaceAnswer
  <2>4. edit.line = action.line /\ edit.cursor = c + 1
    <3>1. edit.line = left \o <<" ">> \o right /\ edit.cursor = c + 1
      BY <2>2, AnswerFields, Zenon
    <3>2. action.line = Splice(l, c, <<" ">>)
      BY <2>3, AnswerFields, Zenon
    <3>3. Splice(l, c, <<" ">>) = left \o <<" ">> \o right
      BY DEF Splice
    <3>4. QED
      BY <3>1, <3>2, <3>3, Zenon
  <2>5. CharAt("byte", action.line, action.cursor) = c + 1
    <3> HIDE DEF action
    <3> QED BY <1>0, <2>3, CharAtOffset, ZenonT(60)
  <2>6. QED
    BY <2>1, <2>4, <2>5, Zenon
<1>13. QED
  BY <1>11, <1>12
\* What goes to a shell is a line.
LEMMA ToShellTyped ==
    ASSUME NEW sh, NEW t \in Text, NEW i \in 0 .. Len(t)
    PROVE  ToShell(sh, t, Offset("byte", t, i)) \in Nat
<1>1. "char" \in Units /\ "utf16" \in Units /\ "byte" \in Units
  BY WidthTyped
<1>2. \A unit \in Units : Offset(unit, t, i) \in Nat
  BY SizesTyped
<1>3. CharFrom("byte", t, Offset("byte", t, i)) = i /\ CharAt("byte", t, Offset("byte", t, i)) = i
  BY <1>1, CharAtOffset, CharFromOffset
<1>4. QED
  BY <1>1, <1>2, <1>3 DEF ToShell

-----------------------------------------------------------------------------
\* What the shell has sent is where its caret still is, and what has come back is,
\* in the shell's unit, one of the two edits of the line it still shows.
Fits(r) ==
    \E i \in 0 .. Len(r.line) :
       /\ r.cursor = ToShell(shell, r.line, Offset("byte", r.line, i))
       /\ SpaceEdit(line, caret, r.line, i) \/ (~sent.pending /\ ExpansionEdit(line, caret, r.line, i))
\* Keys wait only where a paste comes key by key; and but for nu, and a pwsh that cannot
\* look, the hook was told of those that did.
QueueInv == keys # <<>> => shell \in ByKeys
Told == sent.behind /\ shell # "nu" /\ (shell = "pwsh" => probe) => sent.pending

HookInv ==
    /\ TypeOK
    /\ QueueInv
    /\ doing = "ask" => sent \in Cursors /\ sent.cursor = Offset(ShellUnit(shell), line, caret) /\ Told
    /\ doing = "reply" => sent \in Cursors /\ (reply # None => Fits(reply)) /\ Told

\* Every answer to what was sent is one of the two edits, and to a paste a space.
LEMMA AnswersAreEdits ==
    ASSUME HookInv, doing = "ask", NEW action \in Answers(FromShell(shell, line, sent.cursor))
    PROVE  /\ action = [line |-> action.line, cursor |-> action.cursor]
           /\ action.line \in Text
           /\ \E i \in 0 .. Len(action.line) :
                 /\ action.cursor = Offset("byte", action.line, i)
                 /\ \/ SpaceEdit(line, caret, action.line, i)
                    \/ ~sent.pending /\ ExpansionEdit(line, caret, action.line, i)
<1> DEFINE b == Offset("byte", line, caret)
<1>1. line \in Text /\ caret \in 0 .. Len(line) /\ sent.cursor = Offset(ShellUnit(shell), line, caret)
  BY DEF HookInv, TypeOK, Text
<1>2. FromShell(shell, line, sent.cursor) = b
  BY <1>1, HookSeesCaret
<1>3. CASE Size("byte", line) > MaxLineBytes \/ sent.pending
  <2>1. action = InsertSpace(line, b)
    BY <1>2, <1>3 DEF Answers
  <2>2. /\ action = [line |-> Splice(line, caret, <<" ">>), cursor |-> b + 1]
        /\ action.line \in Text /\ caret + 1 \in 0 .. Len(action.line)
        /\ action.cursor = Offset("byte", action.line, caret + 1)
    BY <1>1, <2>1, SpaceAnswer
  <2>3. action.line = Splice(line, caret, <<" ">>) /\ action.cursor = b + 1
    BY <2>2, AnswerFields, Zenon
  <2>4. SpaceEdit(line, caret, action.line, caret + 1)
    BY <2>3, Zenon DEF SpaceEdit
  <2>5. action = [line |-> action.line, cursor |-> action.cursor]
    BY <2>2, <2>3, Zenon
  <2>6. QED
    BY <2>2, <2>4, <2>5, Zenon
<1>4. CASE ~(Size("byte", line) > MaxLineBytes \/ sent.pending)
  <2>1. PICK e \in Outcomes(Token(line, b)) : action = HookAction(line, b, e)
    BY <1>2, <1>4 DEF Answers
  <2>2. /\ action.line \in Text
        /\ \E i \in 0 .. Len(action.line) :
              /\ action.cursor = Offset("byte", action.line, i)
              /\ SpaceEdit(line, caret, action.line, i) \/ ExpansionEdit(line, caret, action.line, i)
    BY <1>1, <2>1, HookActionIsEdit
  <2>3. \E text, n : action = [line |-> text, cursor |-> n]
    BY <2>1, Zenon DEF HookAction, Replace, InsertSpace
  <2>4. action = [line |-> action.line, cursor |-> action.cursor]
    BY <2>3, AnswerFields, Zenon
  <2>5. QED
    BY <1>4, <2>2, <2>4, Zenon
<1>5. QED
  BY <1>3, <1>4

\* Taking the answer is one of the two edits of the line.
LEMMA ApplyIsEdit ==
    ASSUME HookInv, Apply
    PROVE  /\ line' \in Text /\ caret' \in 0 .. Len(line')
           /\ SpaceEdit(line, caret, line', caret') \/ (~sent.pending /\ ExpansionEdit(line, caret, line', caret'))
<1>1. line \in Text /\ caret \in 0 .. Len(line) /\ doing = "reply"
  BY DEF HookInv, TypeOK, Apply, Text
<1>2. CASE TypeSpace
  <2>1. SpaceEdit(line, caret, line', caret')
    BY <1>2 DEF TypeSpace, SetLine, SpaceEdit
  <2>2. line' \in Text /\ caret' \in 0 .. Len(line')
    <3>1. \A piece \in Text : Len(piece) = 1 =>
             Splice(line, caret, piece) \in Text /\ caret + 1 \in 0 .. Len(Splice(line, caret, piece))
      BY <1>1, SpliceTyped
    <3>2. QED
      BY <1>2, <3>1, BlankOffset, Zenon DEF TypeSpace, SetLine
  <2>3. QED
    BY <2>1, <2>2
<1>3. CASE ~TypeSpace
  <2>1. reply # None /\ Taken(reply)
    BY <1>3 DEF Apply
  <2>2. reply.line \in Text
    BY <2>1 DEF HookInv, TypeOK, Text
  <2>3. PICK i \in 0 .. Len(reply.line) :
          /\ reply.cursor = ToShell(shell, reply.line, Offset("byte", reply.line, i))
          /\ SpaceEdit(line, caret, reply.line, i) \/ (~sent.pending /\ ExpansionEdit(line, caret, reply.line, i))
    BY <1>1, <2>1 DEF HookInv, Fits
  <2>4. CharAt(IF shell = "zsh" THEN "byte" ELSE ShellUnit(shell), reply.line, reply.cursor) = i
    BY <2>2, <2>3, ShellSeesCaret
  <2>5. line' = reply.line /\ caret' = i
    BY <2>1, <2>4 DEF Taken, SetLine
  <2>6. QED
    BY <2>2, <2>3, <2>5
<1>4. QED
  BY <1>2, <1>3

\* So is what Git Bash does by itself.
LEMMA PressBakedIsEdit ==
    ASSUME HookInv, PressBaked
    PROVE  /\ line' \in Text /\ caret' \in 0 .. Len(line')
           /\ SpaceEdit(line, caret, line', caret') \/ ExpansionEdit(line, caret, line', caret')
<1> DEFINE b == Offset("byte", line, caret)
           left == UpTo(line, caret)
<1>1. line \in Text /\ caret \in 0 .. Len(line) /\ "byte" \in Units
  BY WidthTyped DEF HookInv, TypeOK, Text
<1>2. PICK e \in Outcomes(From(left, WordStart(left))) :
         line' = BakeEdit(line, caret, e).line /\ caret' = BakeEdit(line, caret, e).cursor
  BY DEF PressBaked, SetLine
<1>3. Token(line, b) = From(left, WordStart(left))
  <2>1. CharAt("byte", line, b) = caret
    BY <1>1, CharAtOffset
  <2>2. QED
    BY <2>1 DEF Token, TokenStart
<1> DEFINE action == HookAction(line, b, e)
<1>4. line' = action.line /\ caret' = CharAt("byte", action.line, action.cursor)
  BY <1>1, <1>2, <1>3, BakeMakesTheEdit
<1>5. PICK i \in 0 .. Len(action.line) :
         /\ action.line \in Text /\ action.cursor = Offset("byte", action.line, i)
         /\ SpaceEdit(line, caret, action.line, i) \/ ExpansionEdit(line, caret, action.line, i)
  BY <1>1, <1>3, HookActionIsEdit
<1>6. caret' = i
  <2> HIDE DEF action
  <2> QED BY <1>1, <1>4, <1>5, CharAtOffset
<1>7. QED
  BY <1>4, <1>5, <1>6
-----------------------------------------------------------------------------
\* The bounds, and the lines of the history.
LEMMA BoundsTyped == MaxKeys \in Nat /\ \A text \in History : text \in Text /\ Len(text) \in 0 .. Len(text)
<1>1. MaxKeys \in Nat
  BY HookAssumption, Zenon
<1>2. History \subseteq Text
  BY TextAssumption, Zenon DEF Text
<1>3. \A text \in Text : Len(text) \in 0 .. Len(text)
  BY DEF Text
<1>4. QED
  BY <1>1, <1>2, <1>3, Zenon

\* The hook starts with an empty line and an empty queue.
LEMMA InitHookInv == Init => HookInv
<1> SUFFICES ASSUME Init PROVE HookInv
  OBVIOUS
<1>1. <<>> \in Seq(Symbols) /\ Len(<<>>) = 0
  BY PiecesTyped DEF Text
<1>2. TypeOK
  <2>1. line \in Seq(Symbols) /\ caret \in 0 .. Len(line)
    BY <1>1 DEF Init
  <2>2. keys \in Seq(Symbols) /\ Len(keys) <= MaxKeys
    BY <1>1, BoundsTyped DEF Init
  <2>3. shell \in Shells /\ probe \in BOOLEAN
    BY DEF Init
  <2>4. QED
    BY <2>1, <2>2, <2>3 DEF Init, TypeOK
<1>3. QED
  BY <1>2 DEF Init, HookInv, QueueInv

\* A character at the caret.
LEMMA KeyTyped ==
    ASSUME NEW l \in Text, NEW i \in 0 .. Len(l), NEW c \in Symbols
    PROVE  Splice(l, i, <<c>>) \in Text /\ i + 1 \in 0 .. Len(Splice(l, i, <<c>>))
<1>1. \A piece \in Text : Len(piece) = 1 =>
         Splice(l, i, piece) \in Text /\ i + 1 \in 0 .. Len(Splice(l, i, piece))
  BY SpliceTyped
<1>2. QED
  BY <1>1, PiecesTyped, Zenon

\* The queue without its first key, and with one more.
LEMMA QueueTyped ==
    ASSUME TypeOK
    PROVE  /\ keys # <<>> => Head(keys) \in Symbols /\ Tail(keys) \in Text /\ Len(Tail(keys)) <= MaxKeys
           /\ \A c \in Symbols : Len(keys) < MaxKeys => Append(keys, c) \in Text /\ Len(Append(keys, c)) <= MaxKeys
<1>1. keys \in Seq(Symbols) /\ Len(keys) <= MaxKeys /\ MaxKeys \in Nat /\ Len(keys) \in Nat
  BY BoundsTyped DEF TypeOK
<1>2. ASSUME keys # <<>> PROVE Head(keys) \in Symbols /\ Tail(keys) \in Text /\ Len(Tail(keys)) <= MaxKeys
  BY <1>1, <1>2, HeadTailProperties DEF Text
<1>3. ASSUME NEW c \in Symbols, Len(keys) < MaxKeys PROVE Append(keys, c) \in Text /\ Len(Append(keys, c)) <= MaxKeys
  BY <1>1, <1>3, AppendProperties DEF Text
<1>4. QED
  BY <1>2, <1>3

\* A trigger that is read leaves the queue shorter.
LEMMA PressedTyped ==
    ASSUME TypeOK, Pressed
    PROVE  doing = "edit" /\ keys' \in Seq(Symbols) /\ Len(keys') <= MaxKeys /\ (keys' # <<>> => keys # <<>>)
BY QueueTyped DEF TypeOK, Pressed, Text

\* Each step keeps the invariant.
LEMMA NextHookInv == HookInv /\ [Next]_hookVars => HookInv'
<1> SUFFICES ASSUME HookInv, [Next]_hookVars PROVE HookInv'
  OBVIOUS
<1>0. TypeOK /\ QueueInv /\ line \in Text /\ caret \in 0 .. Len(line)
  BY DEF HookInv, TypeOK, Text
<1>1. ASSUME NEW c \in Symbols, TypeChar(c) PROVE HookInv'
  <2>1. line' \in Text /\ caret' \in 0 .. Len(line')
    BY <1>0, <1>1, KeyTyped DEF TypeChar, SetLine
  <2>2. doing' = "edit" /\ UNCHANGED <<shell, probe, keys, doing, sent, reply>>
    BY <1>1 DEF TypeChar, Editing, Wait
  <2>3. QED
    BY <1>0, <2>1, <2>2 DEF HookInv, QueueInv, TypeOK, Text
<1>2. ASSUME NEW c \in Symbols, TypeAhead(c) PROVE HookInv'
  <2>1. keys' \in Text /\ Len(keys') <= MaxKeys
    BY <1>0, <1>2, QueueTyped DEF TypeAhead
  <2>2. UNCHANGED <<shell, probe, line, caret, doing, sent, reply>>
    BY <1>2 DEF TypeAhead, Wait
  <2>3. TypeOK'
    BY <1>0, <2>1, <2>2 DEF TypeOK, Text
  <2>4. reply # None => (Fits(reply) <=> Fits(reply)')
    BY <2>2 DEF Fits
  <2>5. QueueInv' /\ (doing # "edit" => (Told <=> Told'))
    BY <1>2, <2>2 DEF TypeAhead, QueueInv, Told
  <2>6. QED
    BY <1>2, <2>2, <2>3, <2>4, <2>5 DEF TypeAhead, HookInv
<1>3. CASE MoveCaret
  <2>1. /\ line' = line /\ caret' \in 0 .. Len(line')
        /\ doing' = "edit" /\ UNCHANGED <<shell, probe, keys, doing, sent, reply>>
    BY <1>3 DEF MoveCaret, SetLine, Editing, Wait
  <2>2. QED
    BY <1>0, <2>1 DEF HookInv, QueueInv, TypeOK
<1>4. CASE Recall
  <2>1. PICK text \in History : line' = text /\ caret' = Len(text)
    BY <1>4 DEF Recall, SetLine
  <2>2. line' \in Seq(Symbols) /\ caret' \in 0 .. Len(line')
    BY <2>1, BoundsTyped DEF Text
  <2>3. doing' = "edit" /\ UNCHANGED <<shell, probe, keys, doing, sent, reply>>
    BY <1>4 DEF Recall, Editing, Wait
  <2>4. QED
    BY <1>0, <2>2, <2>3 DEF HookInv, QueueInv, TypeOK
<1>5. CASE Paste
  <2>1. PICK text \in SeqOf(Symbols, MaxKeys) : keys' = text
    BY <1>5 DEF Paste
  <2>2. PICK n \in 0 .. MaxKeys : text \in [1 .. n -> Symbols]
    BY <2>1 DEF SeqOf
  <2>3. text \in Seq(Symbols) /\ Len(text) = n
    <3>1. n \in Nat /\ DOMAIN text = 1 .. n /\ \A i \in 1 .. n : text[i] \in Symbols
      BY <2>2, BoundsTyped
    <3>2. text \in Seq(Symbols)
      BY <2>2, <3>1
    <3>3. QED
      BY <3>1, <3>2, LenProperties
  <2>4. keys' \in Seq(Symbols) /\ Len(keys') <= MaxKeys
    BY <2>1, <2>2, <2>3, BoundsTyped
  <2>5. doing' = "edit" /\ UNCHANGED <<shell, probe, line, caret, doing, sent, reply>>
    BY <1>5 DEF Paste, Editing, Wait
  <2>6. shell \in ByKeys
    BY <1>5 DEF Paste
  <2>7. QED
    BY <1>0, <2>4, <2>5, <2>6 DEF HookInv, QueueInv, TypeOK
<1>6. CASE ReadKey
  <2>1. Head(keys) \in Symbols /\ keys' \in Text /\ Len(keys') <= MaxKeys
    BY <1>0, <1>6, QueueTyped DEF ReadKey
  <2>2. line' \in Text /\ caret' \in 0 .. Len(line')
    BY <1>0, <1>6, <2>1, KeyTyped DEF ReadKey, SetLine
  <2>3. doing' = "edit" /\ keys # <<>> /\ UNCHANGED <<shell, probe, doing, sent, reply>>
    BY <1>6 DEF ReadKey, Wait
  <2>4. QED
    BY <1>0, <2>1, <2>2, <2>3 DEF HookInv, QueueInv, TypeOK, Text
<1>7. CASE Press
  <2>1. keys' \in Seq(Symbols) /\ Len(keys') <= MaxKeys /\ (keys' # <<>> => keys # <<>>)
    BY <1>0, <1>7, PressedTyped DEF Press
  <2>2. /\ UNCHANGED <<shell, probe, line, caret, reply>> /\ doing' = "ask"
        /\ sent' = [cursor |-> Offset(ShellUnit(shell), line, caret), pending |-> probe /\ keys' # <<>>, behind |-> keys' # <<>>]
    BY <1>7 DEF Press, Wait
  <2>3. Offset(ShellUnit(shell), line, caret) \in Nat
    BY <1>0, SizesTyped, WidthTyped DEF ShellUnit
  <2>4. (probe /\ keys' # <<>>) \in BOOLEAN /\ (keys' # <<>>) \in BOOLEAN
    OBVIOUS
  <2>5. sent' \in Cursors /\ sent'.cursor = Offset(ShellUnit(shell), line, caret)
    BY <2>2, <2>3, <2>4 DEF Cursors
  <2>6. TypeOK'
    BY <1>0, <2>1, <2>2, <2>5 DEF TypeOK
  <2>7. /\ sent'.pending <=> (probe /\ keys' # <<>>)
        /\ sent'.behind <=> keys' # <<>>
    BY <2>2
  <2>8. QueueInv' /\ Told'
    BY <1>0, <2>1, <2>2, <2>7 DEF QueueInv, Told, ByKeys
  <2>9. QED
    BY <2>2, <2>5, <2>6, <2>8 DEF HookInv
<1>8. CASE PressUnsent
  <2>1. doing = "edit" /\ keys' \in Seq(Symbols) /\ Len(keys') <= MaxKeys /\ (keys' # <<>> => keys # <<>>)
    BY <1>0, <1>8, PressedTyped DEF PressUnsent
  <2>2. line' \in Text /\ caret' \in 0 .. Len(line')
    BY <1>0, <1>8, KeyTyped, PiecesTyped DEF PressUnsent, TypeSpace, SetLine
  <2>3. UNCHANGED <<shell, probe, doing, sent, reply>>
    BY <1>8 DEF PressUnsent, Wait
  <2>4. QED
    BY <1>0, <2>1, <2>2, <2>3 DEF HookInv, QueueInv, TypeOK, Text
<1>9. CASE PressBaked
  <2>1. doing = "edit" /\ keys' \in Seq(Symbols) /\ Len(keys') <= MaxKeys /\ (keys' # <<>> => keys # <<>>)
    BY <1>0, <1>9, PressedTyped DEF PressBaked
  <2>2. line' \in Text /\ caret' \in 0 .. Len(line')
    BY <1>9, PressBakedIsEdit
  <2>3. UNCHANGED <<shell, probe, doing, sent, reply>>
    BY <1>9 DEF PressBaked, Wait
  <2>4. QED
    BY <1>0, <2>1, <2>2, <2>3 DEF HookInv, QueueInv, TypeOK, Text
<1>10. CASE Answer
  <2>1. doing = "ask" /\ doing' = "reply" /\ UNCHANGED <<shell, probe, line, caret, keys, sent>>
    BY <1>10 DEF Answer, Wait
  <2>2. PICK action \in Answers(FromShell(shell, line, sent.cursor)) :
          reply' = [action EXCEPT !.cursor = ToShell(shell, action.line, action.cursor)]
    BY <1>10 DEF Answer
  <2>3. action = [line |-> action.line, cursor |-> action.cursor] /\ action.line \in Text
    BY <2>1, AnswersAreEdits
  <2>4. PICK i \in 0 .. Len(action.line) :
          /\ action.cursor = Offset("byte", action.line, i)
          /\ \/ SpaceEdit(line, caret, action.line, i)
             \/ ~sent.pending /\ ExpansionEdit(line, caret, action.line, i)
    BY <2>1, AnswersAreEdits
  <2>5. reply' = [line |-> action.line, cursor |-> ToShell(shell, action.line, action.cursor)]
    BY <2>2, <2>3
  <2>6. reply'.line = action.line /\ reply'.cursor = ToShell(shell, action.line, action.cursor)
    BY <2>5, AnswerFields, Zenon
  <2>7. reply' \in [line : Seq(Symbols), cursor : Nat]
    <3>1. ToShell(shell, action.line, action.cursor) \in Nat
      BY <2>3, <2>4, ToShellTyped
    <3>2. QED
      BY <2>3, <2>5, <3>1 DEF Text
  <2>8. Fits(reply)'
    BY <2>1, <2>4, <2>6 DEF Fits
  <2>9. TypeOK' /\ sent' \in Cursors
    BY <2>1, <2>7 DEF HookInv, TypeOK
  <2>10. QueueInv' /\ Told'
    BY <1>0, <2>1 DEF HookInv, QueueInv, Told
  <2>11. QED
    BY <2>1, <2>8, <2>9, <2>10 DEF HookInv
<1>11. CASE Fail
  <2>1. doing = "ask" /\ doing' = "reply" /\ reply' = None /\ UNCHANGED <<shell, probe, line, caret, keys, sent>>
    BY <1>11 DEF Fail, Wait
  <2>2. QueueInv' /\ Told'
    BY <1>0, <2>1 DEF HookInv, QueueInv, Told
  <2>3. QED
    BY <2>1, <2>2 DEF HookInv, TypeOK
<1>12. CASE Apply
  <2>1. line' \in Text /\ caret' \in 0 .. Len(line')
    BY <1>12, ApplyIsEdit
  <2>2. doing' = "edit" /\ sent' = None /\ reply' = None /\ keys' \in {<<>>, keys} /\ UNCHANGED <<shell, probe>>
    BY <1>12 DEF Apply, Wait
  <2>3. <<>> \in Seq(Symbols) /\ Len(<<>>) = 0 /\ MaxKeys \in Nat
    <3>1. <<>> \in Seq(Symbols) /\ Len(<<>>) = 0
      BY PiecesTyped DEF Text
    <3>2. QED
      BY <3>1, BoundsTyped, Zenon
  <2>4. keys' \in Seq(Symbols) /\ Len(keys') <= MaxKeys /\ (keys' # <<>> => keys # <<>>)
    <3>1. CASE keys' = <<>>
      <4>1. Len(keys') = 0
        BY <2>3, <3>1, Zenon
      <4>2. QED
        BY <2>3, <3>1, <4>1
    <3>2. CASE keys' = keys
      BY <1>0, <3>2, Zenon DEF TypeOK
    <3>3. QED
      BY <2>2, <3>1, <3>2
  <2>5. QED
    BY <1>0, <2>1, <2>2, <2>4 DEF HookInv, QueueInv, TypeOK, Text
<1>13. CASE UNCHANGED hookVars
  <2>1. TypeOK'
    BY <1>0, <1>13 DEF TypeOK, hookVars
  <2>2. reply # None => (Fits(reply) <=> Fits(reply)')
    BY <1>13 DEF Fits, hookVars
  <2>3. QueueInv' /\ (Told <=> Told')
    BY <1>0, <1>13 DEF QueueInv, Told, hookVars
  <2>4. QED
    BY <1>13, <2>1, <2>2, <2>3 DEF HookInv, hookVars
<1>14. QED
  BY <1>1, <1>2, <1>3, <1>4, <1>5, <1>6, <1>7, <1>8, <1>9, <1>10, <1>11, <1>12, <1>13 DEF Next

\* HookInv is an inductive invariant: what was asked and what was answered always
\* belong to the line the shell still shows.
THEOREM HookInvariant == Spec => []HookInv
BY InitHookInv, NextHookInv, PTL DEF Spec

\* TypeOK: in every shell the caret stays inside the line, whatever the widths of the
\* letters, the expansions and what fails.
THEOREM HookTyped == Spec => []TypeOK
<1>1. HookInv => TypeOK
  BY DEF HookInv
<1>2. QED
  BY <1>1, HookInvariant, PTL

\* BakeAgrees: Git Bash makes of every line, wherever its caret is, what `runex hook`
\* makes of it, and puts its caret, counted in characters, where the hook puts its
\* cursor, counted in bytes.
THEOREM BakeMakesTheHooksEdit == Spec => []BakeAgrees
<1>1. HookInv => BakeAgrees
  <2> SUFFICES ASSUME HookInv, NEW e \in Outcomes(Token(line, Offset("byte", line, caret)))
               PROVE  LET action == HookAction(line, Offset("byte", line, caret), e)
                          edit == BakeEdit(line, caret, e)
                      IN edit.line = action.line /\ edit.cursor = CharAt("byte", action.line, action.cursor)
    BY DEF BakeAgrees
  <2>1. line \in Text /\ caret \in 0 .. Len(line)
    BY DEF HookInv, TypeOK, Text
  <2>2. QED
    BY <2>1, BakeMakesTheEdit
<1>2. QED
  BY <1>1, HookInvariant, PTL

\* MidPasteIsLiteral: in pwsh, as far as it can look at its queue, a trigger with keys of a
\* paste behind it is a space, whatever the hook that was asked answers and also when it
\* fails; bash, zsh, clink and Git Bash never have keys behind a trigger, and nu, which
\* asks for the expansion in the middle of a paste and loses the rest, is left out.
THEOREM PasteStaysLiteral == Spec => MidPasteIsLiteral
<1>1. HookInv /\ [Next]_hookVars
        => [doing = "reply" /\ doing' = "edit" /\ sent.behind /\ shell # "nu" /\ (shell = "pwsh" => probe)
              => line' = Splice(line, caret, <<" ">>) /\ caret' = caret + 1]_hookVars
  <2> SUFFICES ASSUME HookInv, Next, doing = "reply", doing' = "edit",
                      sent.behind, shell # "nu", shell = "pwsh" => probe
               PROVE  line' = Splice(line, caret, <<" ">>) /\ caret' = caret + 1
    OBVIOUS
  <2>1. Apply
    BY DEF Next, TypeChar, TypeAhead, MoveCaret, Recall, Paste, ReadKey, Press, PressUnsent, PressBaked,
           Pressed, Answer, Fail, Editing
  <2>2. sent.pending
    BY DEF HookInv, Told
  <2>3. QED
    BY <2>1, <2>2, ApplyIsEdit DEF SpaceEdit
<1>2. QED
  BY <1>1, HookInvariant, PTL DEF Spec, MidPasteIsLiteral
-----------------------------------------------------------------------------
\* TriggerKey looks at a line with the same operators.
LEMMA AbstractText ==
    /\ Abstract!Symbols = Symbols
    /\ \A text, i : Abstract!UpTo(text, i) = UpTo(text, i) /\ Abstract!From(text, i) = From(text, i)
    /\ \A text, i, piece : Abstract!Splice(text, i, piece) = Splice(text, i, piece)
    /\ \A text : Abstract!WordStart(text) = WordStart(text) /\ Abstract!Trim(text) = Trim(text)
    /\ \A text : Abstract!IsCommandPosition(text) <=> IsCommandPosition(text)
    /\ \A token : Abstract!Outcomes(token) = Outcomes(token)
<1>1. Abstract!Symbols = Symbols
  BY DEF Symbols, Abstract!Symbols
<1>2. \A text, i : Abstract!UpTo(text, i) = UpTo(text, i) /\ Abstract!From(text, i) = From(text, i)
  BY DEF UpTo, From, Abstract!UpTo, Abstract!From
<1>3. \A text, i, piece : Abstract!Splice(text, i, piece) = Splice(text, i, piece)
  BY <1>2 DEF Splice, Abstract!Splice
<1>4. \A S : Abstract!Max(S) = Max(S)
  BY Zenon DEF Max, Abstract!Max
<1>5. \A text : Abstract!WordStart(text) = WordStart(text) /\ Abstract!Trim(text) = Trim(text)
  BY <1>2, <1>4, Zenon DEF WordStart, Trim, Abstract!WordStart, Abstract!Trim
<1>6. \A text : Abstract!StartsCommand(text) <=> StartsCommand(text)
  BY Zenon DEF StartsCommand, Abstract!StartsCommand, Last, Abstract!Last
<1>7. \A text : Abstract!IsCommandPosition(text) <=> IsCommandPosition(text)
  BY <1>2, <1>5, <1>6, Zenon DEF IsCommandPosition, Abstract!IsCommandPosition
<1>8. \A token : Abstract!Outcomes(token) = Outcomes(token)
  BY Zenon DEF Outcomes, Abstract!Outcomes
<1>9. QED
  BY <1>1, <1>2, <1>3, <1>5, <1>7, <1>8

\* A key, and the two edits, are steps of it.
LEMMA KeyIsStep ==
    ASSUME NEW c \in Symbols, line' = Splice(line, caret, <<c>>), caret' = caret + 1
    PROVE  Abstract!Next
BY AbstractText DEF Abstract!Next, Abstract!Type

\* An edit of the hook is a step of the key as TriggerKey has it.
LEMMA EditIsStep ==
    ASSUME SpaceEdit(line, caret, line', caret') \/ ExpansionEdit(line, caret, line', caret')
    PROVE  Abstract!Next
<1>1. CASE SpaceEdit(line, caret, line', caret')
  BY <1>1, AbstractText, Zenon DEF SpaceEdit, Abstract!Next, Abstract!Space, Abstract!Type
<1>2. CASE ExpansionEdit(line, caret, line', caret')
  <2>1. Abstract!Expand
    BY <1>2, AbstractText, Zenon DEF ExpansionEdit, Abstract!Expand
  <2>2. QED
    BY <2>1 DEF Abstract!Next
<1>3. QED
  BY <1>1, <1>2

\* ImplementsTriggerKey: in every shell, a press of the trigger is one space at the
\* caret or a whole expansion in place of the token, with the caret where it belongs,
\* whatever the letters, their widths, the rules and the failures.
THEOREM HookImplementsTriggerKey == Spec => ImplementsTriggerKey
<1>1. Init => Abstract!Init
  BY DEF Init, Abstract!Init
<1>2. HookInv /\ [Next]_hookVars => [Abstract!Next]_Abstract!lineVars
  <2> SUFFICES ASSUME HookInv, [Next]_hookVars PROVE Abstract!Next \/ UNCHANGED <<line, caret>>
    BY DEF Abstract!lineVars
  <2>1. ASSUME NEW c \in Symbols, TypeChar(c) PROVE Abstract!Next
    BY <2>1, KeyIsStep DEF TypeChar, SetLine
  <2>2. CASE MoveCaret
    BY <2>2 DEF MoveCaret, SetLine, Abstract!Next, Abstract!Move
  <2>3. CASE Recall
    BY <2>3 DEF Recall, SetLine, Abstract!Next, Abstract!Recall
  <2>4. CASE ReadKey
    <3>1. Head(keys) \in Symbols
      BY <2>4, QueueTyped DEF ReadKey, HookInv
    <3>2. QED
      BY <2>4, <3>1, KeyIsStep DEF ReadKey, SetLine
  <2>5. CASE PressUnsent
    BY <2>5, PiecesTyped, KeyIsStep DEF PressUnsent, TypeSpace, SetLine
  <2>6. CASE PressBaked
    BY <2>6, PressBakedIsEdit, EditIsStep
  <2>7. CASE Apply
    BY <2>7, ApplyIsEdit, EditIsStep
  <2>8. ASSUME NEW c \in Symbols, TypeAhead(c) PROVE UNCHANGED <<line, caret>>
    BY <2>8 DEF TypeAhead
  <2>9. CASE Paste \/ Press \/ Answer \/ Fail \/ UNCHANGED hookVars
    BY <2>9 DEF Paste, Press, Answer, Fail, hookVars
  <2>10. QED
    BY <2>1, <2>2, <2>3, <2>4, <2>5, <2>6, <2>7, <2>8, <2>9 DEF Next
<1>3. QED
  BY <1>1, <1>2, HookInvariant, PTL DEF Spec, ImplementsTriggerKey, Abstract!Spec
=============================================================================
