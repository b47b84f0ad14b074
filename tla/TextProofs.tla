----------------------------- MODULE TextProofs ------------------------------
(***************************************************************************)
(* What comes of a text that runex hands on, for every text and whatever   *)
(* the symbols are: what a shell makes of the literal that was written for *)
(* it, what is filled in a template, and what bash makes of a key, a       *)
(* template and a number as patterns and texts of its own.                 *)
(*                                                                         *)
(* A literal is read as the text, or as the text without what it drops.    *)
(* The argument is the same for every shell.  A shell goes through its     *)
(* literal from left to right (ForwardIs), so what it reads from a place   *)
(* on is what comes of the place and what it reads from the next.  Each    *)
(* piece that an escape writes has its place in the literal (LiteralPlaces)*)
(* and takes the shell to the place of the next piece with the symbol that *)
(* the piece stands for (BashPasses, PwshPasses, DoublePasses).  What is   *)
(* put together like that from the right is the symbols one after the      *)
(* other (RightIsFlat).  In nu the program is a literal within a string:   *)
(* what the string leaves of it is again a literal (BareIs).               *)
(*                                                                         *)
(* What comes of a template is again put together from the right (Chained),*)
(* so that a stretch without placeholders stays as it is (SubstitutedRun). *)
(* A glob key has no bracket and no backslash: as a bash pattern it leads  *)
(* forward one place at a time (SimpleGoes), but at its star, and so       *)
(* matches what runex matches (WholeIs, GlobAgrees).  What bash takes off  *)
(* a token before and behind the star is then the star's capture           *)
(* (StarCaptures), and what it fills in for `{*}`, what runex does         *)
(* (FillsAlike).  For numbers the same is said of the digits that bash     *)
(* counts (NumberAtLeast) and of the unit that it repeats (UnitsAlike).    *)
(***************************************************************************)
EXTENDS Quoting, BakedMatching, FiniteSetTheorems, WellFoundedInduction, SequenceTheorems, TLAPS

\* A set of natural numbers that is not empty has a least element.
LEMMA Least ==
    ASSUME NEW T, T \subseteq Nat, T # {}
    PROVE  \E x \in T : \A y \in T : x <= y
<1> DEFINE R == {ss \in Nat \X Nat : ss[1] < ss[2]}
<1>1. IsWellFoundedOn(R, Nat)
  <2>1. IsWellFoundedOn(OpToRel(<, Nat), Nat)
    BY NatLessThanWellFounded, Zenon
  <2>2. R = OpToRel(<, Nat)
    BY Zenon DEF OpToRel
  <2>3. QED
    BY <2>1, <2>2, Zenon
<1>2. \E x \in T : \A y \in T : ~ (<<y, x>> \in R)
  <2> HIDE DEF R
  <2> QED BY <1>1, WFMin, Zenon
<1>3. ASSUME NEW x \in T, NEW y \in T, ~ (<<y, x>> \in R) PROVE x <= y
  <2>1. x \in Nat /\ y \in Nat /\ (<<y, x>> \in R <=> y < x)
    OBVIOUS
  <2>2. QED
    BY <1>3, <2>1
<1>4. QED
  BY <1>2, <1>3, Zenon

\* So what holds of 0 and passes from each number to the next holds of all.
LEMMA Induction ==
    ASSUME NEW T, 0 \in T, \A n \in Nat : n \in T => n + 1 \in T
    PROVE  Nat \subseteq T
<1>1. SUFFICES ASSUME Nat \ T # {} PROVE FALSE
  OBVIOUS
<1>2. PICK x \in Nat \ T : \A y \in Nat \ T : x <= y
  BY <1>1, Least, Nat \ T \subseteq Nat, Zenon
<1>3. x - 1 \in Nat /\ x - 1 \notin Nat \ T
  BY <1>2
<1>4. QED
  BY <1>2, <1>3

\* The same downwards from n + 1, for what is defined from the right.
LEMMA InductionDown ==
    ASSUME NEW n \in Nat, NEW T, n + 1 \in T,
           \A i \in 1 .. n : (\A j \in i + 1 .. n + 1 : j \in T) => i \in T
    PROVE  \A i \in 1 .. n + 1 : i \in T
<1> DEFINE D == { k \in Nat : k <= n => \A j \in n + 1 - k .. n + 1 : j \in T }
<1>1. 0 \in D
  OBVIOUS
<1>2. ASSUME NEW k \in Nat, k \in D PROVE k + 1 \in D
  <2>1. SUFFICES ASSUME k + 1 <= n PROVE \A j \in n + 1 - (k + 1) .. n + 1 : j \in T
    OBVIOUS
  <2>2. \A j \in n + 1 - k .. n + 1 : j \in T
    BY <1>2, <2>1
  <2>3. n - k \in 1 .. n /\ (n - k) + 1 = n + 1 - k
    BY <2>1
  <2>4. n - k \in T
    BY <2>2, <2>3
  <2>5. ASSUME NEW j \in n + 1 - (k + 1) .. n + 1 PROVE j = n - k \/ j \in n + 1 - k .. n + 1
    OBVIOUS
  <2> QED
    BY <2>2, <2>4, <2>5
<1>3. Nat \subseteq D
  <2> HIDE DEF D
  <2> QED BY <1>1, <1>2, Induction
<1>4. n \in D
  <2> HIDE DEF D
  <2> QED BY <1>3
<1> QED
  BY <1>4

\* And one text is.
LEMMA SingleTyped == ASSUME NEW S, NEW a \in S PROVE <<a>> \in Seq(S)
OBVIOUS

\* A part of a sequence, its length and its members.
LEMMA PartTyped ==
    ASSUME NEW S, NEW t \in Seq(S), NEW i \in 1 .. Len(t) + 1, NEW j \in 0 .. Len(t)
    PROVE  /\ SubSeq(t, i, j) \in Seq(S)
           /\ Len(SubSeq(t, i, j)) = IF i <= j THEN j - i + 1 ELSE 0
           /\ \A k \in 1 .. Len(SubSeq(t, i, j)) : SubSeq(t, i, j)[k] = t[i + k - 1]
<1>1. Len(t) \in Nat
  OBVIOUS
<1>2. SubSeq(t, i, j) \in Seq(S)
  BY <1>1
<1>3. Len(SubSeq(t, i, j)) = IF i <= j THEN j - i + 1 ELSE 0
  BY <1>1
<1>4. ASSUME NEW k \in 1 .. Len(SubSeq(t, i, j)) PROVE SubSeq(t, i, j)[k] = t[i + k - 1]
  BY <1>1, <1>3
<1> QED
  BY <1>2, <1>3, <1>4

\* FlattenSeq, from the left: what it has after each of the sequences.
IsFlattening(f, S, seqs) ==
    /\ f \in [1 .. Len(seqs) -> Seq(S)]
    /\ f[1] = seqs[1]
    /\ \A i \in 2 .. Len(seqs) : f[i] = f[i - 1] \o seqs[i]
    /\ FlattenSeq(seqs) = f[Len(seqs)]

\* The recursive function of FlattenSeq is such a one.
LEMMA FlattenSteps ==
    ASSUME NEW S, NEW seqs \in Seq(Seq(S)), seqs # <<>>
    PROVE  \E f : IsFlattening(f, S, seqs)
<1> DEFINE n == Len(seqs)
           Steps(g, k) == g[1] = seqs[1] /\ \A i \in 2 .. k : g[i] = g[i - 1] \o seqs[i]
           Good(k) == \E g \in [1 .. n -> Seq(S)] : Steps(g, k)
           T == { k \in Nat : k + 1 <= n => Good(k + 1) }
           Unfolds(f) == f = [i \in 1 .. Len(seqs) |-> IF i = 1 THEN seqs[i] ELSE f[i - 1] \o seqs[i]]
           f0 == CHOOSE f : Unfolds(f)
<1>0. n \in Nat /\ n # 0 /\ \A i \in 1 .. n : seqs[i] \in Seq(S)
  OBVIOUS
<1>1. 0 \in T
  <2> DEFINE g == [i \in 1 .. n |-> seqs[1]]
  <2>1. 1 \in 1 .. n /\ seqs[1] \in Seq(S) /\ \A i \in 2 .. 0 + 1 : FALSE
    BY <1>0
  <2>2. g \in [1 .. n -> Seq(S)] /\ g[1] = seqs[1]
    BY <2>1, Zenon
  <2> HIDE DEF g
  <2>3. Steps(g, 0 + 1)
    BY <2>1, <2>2, Zenon
  <2> HIDE DEF Steps
  <2> QED
    BY <2>2, <2>3
<1>2. ASSUME NEW k \in Nat, k \in T PROVE k + 1 \in T
  <2>1. SUFFICES ASSUME (k + 1) + 1 <= n PROVE Good((k + 1) + 1)
    <3> HIDE DEF Good
    <3> QED OBVIOUS
  <2>2. PICK g \in [1 .. n -> Seq(S)] : Steps(g, k + 1)
    <3>1. Good(k + 1)
      <4>1. k + 1 <= n
        BY <1>0, <2>1
      <4> HIDE DEF Good
      <4> QED BY <1>2, <4>1
    <3> HIDE DEF Steps
    <3> QED
      BY <3>1
  <2> DEFINE m == k + 1
             new == g[m] \o seqs[m + 1]
             h == [g EXCEPT ![m + 1] = new]
  <2>3. m \in 1 .. n /\ m + 1 \in 1 .. n /\ m + 1 # 1 /\ 1 \in 1 .. n
    BY <1>0, <2>1
  <2> HIDE DEF m
  <2>4. new \in Seq(S)
    <3>1. g[m] \in Seq(S) /\ seqs[m + 1] \in Seq(S)
      BY <1>0, <2>3, Zenon
    <3> QED
      BY <3>1
  <2>5. h \in [1 .. n -> Seq(S)] /\ h[m + 1] = new /\ \A i \in 1 .. n : i # m + 1 => h[i] = g[i]
    <3> HIDE DEF new
    <3> QED BY <2>3, <2>4, Zenon
  <2>6. h[1] = seqs[1]
    <3>1. g[1] = seqs[1]
      BY <2>2
    <3> HIDE DEF h
    <3> QED
      BY <2>3, <2>5, <3>1
  <2>7. ASSUME NEW i \in 2 .. m + 1 PROVE h[i] = h[i - 1] \o seqs[i]
    <3>1. i \in 1 .. n /\ i - 1 \in 1 .. n /\ i - 1 # m + 1
      BY <2>3
    <3>2. h[i - 1] = g[i - 1]
      <4> HIDE DEF h
      <4> QED BY <2>5, <3>1
    <3>3. CASE i = m + 1
      <4>1. i - 1 = m
        BY <2>3, <3>3
      <4> HIDE DEF h
      <4> QED BY <2>5, <3>2, <3>3, <4>1, Zenon DEF new
    <3>4. CASE i # m + 1
      <4>1. i \in 2 .. m
        BY <2>3, <3>4
      <4>2. g[i] = g[i - 1] \o seqs[i]
        BY <2>2, <4>1, Zenon DEF m
      <4>3. h[i] = g[i]
        <5> HIDE DEF h
        <5> QED BY <2>5, <3>1, <3>4
      <4> HIDE DEF h
      <4> QED
        BY <3>2, <4>2, <4>3, Zenon
    <3> QED
      BY <3>3, <3>4, Zenon
  <2> HIDE DEF h
  <2>8. Steps(h, (k + 1) + 1)
    BY <2>6, <2>7, Zenon DEF m
  <2> HIDE DEF Steps
  <2> QED
    BY <2>5, <2>8
<1>3. Nat \subseteq T
  <2> HIDE DEF T
  <2> QED BY <1>1, <1>2, Induction, Zenon
<1>4. PICK g \in [1 .. n -> Seq(S)] : Steps(g, n)
  <2>1. n - 1 \in Nat /\ (n - 1) + 1 = n /\ n <= n
    BY <1>0
  <2>2. n - 1 \in T
    <3> HIDE DEF T
    <3> QED BY <1>3, <2>1
  <2> HIDE DEF Good, Steps
  <2>3. Good(n)
    BY <2>1, <2>2
  <2> QED
    BY <2>3 DEF Good
<1>5. Unfolds(g)
  <2>1. ASSUME NEW i \in 1 .. n PROVE g[i] = IF i = 1 THEN seqs[i] ELSE g[i - 1] \o seqs[i]
    <3>1. i # 1 => i \in 2 .. n
      BY <1>0
    <3> QED
      BY <1>4, <3>1, Zenon
  <2>2. g = [i \in 1 .. n |-> g[i]]
    BY <1>4, Zenon
  <2>3. [i \in 1 .. n |-> g[i]] = [i \in 1 .. Len(seqs) |-> IF i = 1 THEN seqs[i] ELSE g[i - 1] \o seqs[i]]
    BY <2>1, Zenon
  <2> QED
    BY <2>2, <2>3, Zenon
<1>6. Unfolds(f0)
  <2> HIDE DEF Unfolds
  <2> QED BY <1>5, Zenon
<1>7. FlattenSeq(seqs) = f0[n]
  BY <1>0, Zenon DEF FlattenSeq
<1> DEFINE other == [i \in 1 .. Len(seqs) |-> IF i = 1 THEN seqs[i] ELSE f0[i - 1] \o seqs[i]]
<1>8. f0 = other /\ other = [i \in 1 .. n |-> other[i]]
      /\ \A i \in 1 .. n : other[i] = IF i = 1 THEN seqs[i] ELSE f0[i - 1] \o seqs[i]
  <2> HIDE DEF f0
  <2> QED BY <1>6, Zenon
<1> HIDE DEF f0, other
<1>9. f0[1] = seqs[1] /\ \A i \in 2 .. n : f0[i] = f0[i - 1] \o seqs[i]
  <2>1. 1 \in 1 .. n /\ \A i \in 2 .. n : i \in 1 .. n /\ i # 1
    BY <1>0
  <2> QED
    BY <1>8, <2>1, Zenon
<1>10. f0 \in [1 .. n -> Seq(S)]
  <2> DEFINE D == { k \in Nat : k + 1 <= n => f0[k + 1] \in Seq(S) }
  <2>1. 0 \in D
    BY <1>0, <1>9
  <2>2. ASSUME NEW k \in Nat, k \in D PROVE k + 1 \in D
    <3>1. SUFFICES ASSUME (k + 1) + 1 <= n PROVE f0[(k + 1) + 1] \in Seq(S)
      OBVIOUS
    <3>2. f0[k + 1] \in Seq(S) /\ (k + 1) + 1 \in 2 .. n /\ ((k + 1) + 1) - 1 = k + 1 /\ (k + 1) + 1 \in 1 .. n
      BY <1>0, <2>2, <3>1
    <3>3. f0[(k + 1) + 1] = f0[k + 1] \o seqs[(k + 1) + 1] /\ seqs[(k + 1) + 1] \in Seq(S)
      <4>1. f0[(k + 1) + 1] = f0[((k + 1) + 1) - 1] \o seqs[(k + 1) + 1]
        BY <1>9, <3>2, Zenon
      <4> QED
        BY <1>0, <3>2, <4>1
    <3>4. f0[k + 1] \o seqs[(k + 1) + 1] \in Seq(S)
      BY <3>2, <3>3
    <3> QED
      BY <3>3, <3>4
  <2>3. Nat \subseteq D
    <3> HIDE DEF D
    <3> QED BY <2>1, <2>2, Induction, Zenon
  <2>4. ASSUME NEW i \in 1 .. n PROVE f0[i] \in Seq(S)
    <3>1. i - 1 \in Nat /\ (i - 1) + 1 = i /\ i <= n
      BY <1>0
    <3>2. i - 1 \in D
      <4> HIDE DEF D
      <4> QED BY <2>3, <3>1
    <3> QED
      BY <3>1, <3>2
  <2>5. f0 = [i \in 1 .. n |-> f0[i]]
    BY <1>8, Zenon
  <2> HIDE DEF n
  <2> QED
    BY <2>4, <2>5
<1> QED
  BY <1>7, <1>9, <1>10, Zenon DEF IsFlattening

\* Sequences over a set, put together, are one.
LEMMA FlattenTyped ==
    ASSUME NEW S, NEW seqs \in Seq(Seq(S))
    PROVE  FlattenSeq(seqs) \in Seq(S)
<1>1. CASE seqs = <<>>
  <2>1. Len(seqs) = 0
    BY <1>1
  <2>2. FlattenSeq(seqs) = seqs
    BY <2>1, Zenon DEF FlattenSeq
  <2>3. <<>> \in Seq(S)
    OBVIOUS
  <2> QED
    BY <1>1, <2>2, <2>3, Zenon
<1>2. CASE seqs # <<>>
  <2>1. PICK f : IsFlattening(f, S, seqs)
    BY <1>2, FlattenSteps, Zenon
  <2>2. Len(seqs) \in 1 .. Len(seqs)
    BY <1>2
  <2> QED
    BY <2>1, <2>2, Zenon DEF IsFlattening
<1> QED
  BY <1>1, <1>2

\* Two texts, one after the other.
LEMMA JoinIs ==
    ASSUME NEW S, NEW a \in Seq(S), NEW b \in Seq(S)
    PROVE  /\ a \o b \in Seq(S)
           /\ Len(a) \in Nat /\ Len(b) \in Nat /\ Len(a \o b) = Len(a) + Len(b)
           /\ \A k \in 1 .. Len(a) : (a \o b)[k] = a[k]
           /\ \A k \in 1 .. Len(b) : (a \o b)[Len(a) + k] = b[k]
<1>1. Len(a) \in Nat /\ Len(b) \in Nat /\ a \o b \in Seq(S) /\ Len(a \o b) = Len(a) + Len(b)
  OBVIOUS
<1>2. \A k \in 1 .. Len(a) : (a \o b)[k] = a[k]
  OBVIOUS
<1>3. ASSUME NEW k \in 1 .. Len(b) PROVE (a \o b)[Len(a) + k] = b[k]
  BY <1>1
<1> QED
  BY <1>1, <1>2, <1>3

-----------------------------------------------------------------------------

\* A walk comes to an end if each place goes on to one of a lower rank.
Descends(steps, rank, m) ==
    /\ m \in Nat
    /\ rank \in [DOMAIN steps -> 0 .. m]
    /\ \A x \in DOMAIN steps : steps[x].next \in DOMAIN steps => rank[steps[x].next] < rank[x]

\* Then what comes of a place is its own and what comes of the next.
LEMMA ScanIs ==
    ASSUME NEW steps, NEW rank, NEW m, Descends(steps, rank, m)
    PROVE  \A x \in DOMAIN steps :
              Scan(steps, x) = steps[x].out \o (IF steps[x].next \in DOMAIN steps THEN Scan(steps, steps[x].next) ELSE <<>>)
<1> DEFINE D == DOMAIN steps
           body(x, f) == steps[x].out \o (IF steps[x].next \in DOMAIN steps THEN f[steps[x].next] ELSE <<>>)
           next(x) == steps[x].next
           Good(k) == \E f : \A x \in D : rank[x] < k => f[x] = body(x, f)
           T == { k \in Nat : Good(k) }
           Unfolds(f) == f = [x \in DOMAIN steps |->
                                 steps[x].out \o (IF steps[x].next \in DOMAIN steps THEN f[steps[x].next] ELSE <<>>)]
           f0 == CHOOSE f : Unfolds(f)
<1>1. m \in Nat /\ rank \in [D -> 0 .. m] /\ \A x \in D : next(x) \in D => rank[next(x)] < rank[x]
  BY DEF Descends
<1>2. \A x \in D : Scan(steps, x) = f0[x]
  BY Zenon DEF Scan
<1>3. \A f : Unfolds(f) <=> f = [x \in D |-> body(x, f)]
  BY Zenon
<1>4. \A x, f, g : (next(x) \in D => f[next(x)] = g[next(x)]) => body(x, f) = body(x, g)
  BY Zenon
<1>5. \A f, x : body(x, f) = steps[x].out \o (IF next(x) \in D THEN f[next(x)] ELSE <<>>)
  BY Zenon
<1>6. 0 \in T
  <2>1. \A x \in D : ~(rank[x] < 0)
    BY <1>1
  <2> QED
    BY <2>1, Zenon
<1>7. ASSUME NEW k \in Nat, k \in T PROVE k + 1 \in T
  <2>1. PICK f : \A x \in D : rank[x] < k => f[x] = body(x, f)
    BY <1>7, Zenon
  <2> DEFINE g == [x \in D |-> IF rank[x] = k THEN body(x, f) ELSE f[x]]
  <2>2. ASSUME NEW x \in D, rank[x] < k + 1 PROVE g[x] = body(x, g)
    <3>1. next(x) \in D => rank[next(x)] < k
      BY <1>1, <2>2
    <3>2. next(x) \in D => g[next(x)] = f[next(x)]
      <4> HIDE DEF body, next
      <4>1. next(x) \in D => rank[next(x)] # k
        BY <3>1, <1>1
      <4> QED
        BY <4>1, Zenon
    <3>3. body(x, f) = body(x, g)
      BY <3>2, <1>4, Zenon
    <3>4. g[x] = body(x, f)
      <4>1. rank[x] # k => rank[x] < k
        BY <1>1, <2>2
      <4> HIDE DEF body, next
      <4> QED
        BY <4>1, <2>1, <2>2, Zenon
    <3> QED
      BY <3>3, <3>4, Zenon
  <2>3. k + 1 \in Nat
    OBVIOUS
  <2> HIDE DEF g, body, D
  <2> QED
    BY <2>2, <2>3, Zenon
<1>8. m + 1 \in T
  <2> HIDE DEF T
  <2> QED
    BY <1>1, <1>6, <1>7, Induction
<1>9. PICK f : \A x \in D : rank[x] < m + 1 => f[x] = body(x, f)
  BY <1>8, Zenon
<1>10. \A x \in D : rank[x] < m + 1
  BY <1>1
<1>11. Unfolds([x \in D |-> body(x, f)])
  <2> DEFINE g == [x \in D |-> body(x, f)]
  <2>1. ASSUME NEW x \in D PROVE body(x, g) = body(x, f)
    <3>1. next(x) \in D => g[next(x)] = f[next(x)]
      <4> HIDE DEF body, next
      <4> QED
        BY <1>9, <1>10, Zenon
    <3> QED
      BY <3>1, <1>4, Zenon
  <2>2. g = [x \in D |-> body(x, g)]
    <3> HIDE DEF body
    <3> QED
      BY <2>1, Zenon
  <2> HIDE DEF g
  <2>3. Unfolds(g)
    BY <2>2, <1>3, Zenon
  <2> QED
    BY <2>3, Zenon DEF g
<1>12. Unfolds(f0)
  <2> HIDE DEF Unfolds
  <2> QED
    BY <1>11, Zenon
<1>13. f0 = [x \in D |-> body(x, f0)]
  <2> HIDE DEF f0
  <2> QED
    BY <1>12, <1>3, Zenon
<1> SUFFICES ASSUME NEW x \in D PROVE Scan(steps, x) = steps[x].out \o (IF next(x) \in D THEN Scan(steps, next(x)) ELSE <<>>)
  BY Zenon
<1>14. f0[x] = steps[x].out \o (IF next(x) \in D THEN f0[next(x)] ELSE <<>>)
  <2>1. f0[x] = body(x, f0)
    <3> HIDE DEF f0, body
    <3> QED
      BY <1>13
  <2> HIDE DEF f0, body
  <2> QED
    BY <2>1, <1>5, Zenon
<1> HIDE DEF f0
<1>15. CASE next(x) \in D
  BY <1>14, <1>15, <1>2, Zenon
<1>16. CASE next(x) \notin D
  BY <1>14, <1>16, <1>2, Zenon
<1> QED
  BY <1>15, <1>16, Zenon

\* What is put together from the right: of each place its piece and what is at the next.
FromTheRight(v, S, pieces, z) ==
    /\ v[Len(pieces) + 1] = z
    /\ \A k \in 1 .. Len(pieces) : v[k + 1] \in Seq(S) => v[k] = pieces[k] \o v[k + 1]

\* It is the pieces one after the other, and what was there at the end.
LEMMA RightIsFlat ==
    ASSUME NEW S, NEW pieces \in Seq(Seq(S)), NEW z \in Seq(S), NEW v, FromTheRight(v, S, pieces, z)
    PROVE  v[1] = FlattenSeq(pieces) \o z
<1> DEFINE n == Len(pieces)
<1>1. /\ n \in Nat /\ v[n + 1] = z
      /\ \A k \in 1 .. n : pieces[k] \in Seq(S)
      /\ \A k \in 1 .. n : v[k + 1] \in Seq(S) => v[k] = pieces[k] \o v[k + 1]
  <2>1. n \in Nat /\ \A k \in 1 .. n : pieces[k] \in Seq(S)
    OBVIOUS
  <2> QED
    BY <2>1, Zenon DEF FromTheRight
<1>2. CASE pieces = <<>>
  <2>1. FlattenSeq(pieces) = <<>>
    <3>1. Len(pieces) = 0
      BY <1>2
    <3> QED
      BY <3>1, <1>2, Zenon DEF FlattenSeq
  <2>2. v[1] = z
    BY <1>1, <1>2
  <2> QED
    BY <2>1, <2>2, ConcatEmptySeq
<1>3. CASE pieces # <<>>
  <2>1. \A k \in 1 .. n + 1 : v[k] \in Seq(S)
    <3> DEFINE T == { k \in 1 .. n + 1 : v[k] \in Seq(S) }
    <3>1. n + 1 \in T
      BY <1>1
    <3>2. ASSUME NEW i \in 1 .. n, \A j \in i + 1 .. n + 1 : j \in T PROVE i \in T
      <4>1. i + 1 \in T
        BY <3>2, <1>1
      <4>2. v[i] = pieces[i] \o v[i + 1] /\ v[i + 1] \in Seq(S) /\ pieces[i] \in Seq(S)
        BY <4>1, <1>1, Zenon
      <4>3. v[i] \in Seq(S)
        BY <4>2, JoinIs, ZenonT(60)
      <4>4. i \in 1 .. n + 1
        BY <1>1
      <4> QED
        BY <4>3, <4>4
    <3>3. \A i \in 1 .. n + 1 : i \in T
      <4> HIDE DEF T
      <4> QED
        BY <1>1, <3>1, <3>2, InductionDown, Zenon
    <3> QED
      BY <3>3
  <2>2. PICK f : IsFlattening(f, S, pieces)
    BY <1>3, FlattenSteps
  <2>3. /\ f \in [1 .. n -> Seq(S)] /\ f[1] = pieces[1]
        /\ \A i \in 2 .. n : f[i] = f[i - 1] \o pieces[i]
        /\ FlattenSeq(pieces) = f[n]
    BY <2>2, Zenon DEF IsFlattening
  <2>4. n >= 1
    BY <1>3, <1>1
  <2> DEFINE T == { k \in Nat : k + 1 <= n => v[1] = f[k + 1] \o v[k + 2] }
  <2>5. 0 \in T
    <3>1. 1 \in 1 .. n /\ 1 + 1 = 2 /\ 0 + 1 = 1 /\ 0 + 2 = 2 /\ 0 \in Nat /\ 2 \in 1 .. n + 1
      BY <2>4, <1>1
    <3>2. v[1] = pieces[1] \o v[2]
      BY <3>1, <2>1, <1>1, Zenon
    <3> QED
      BY <3>1, <3>2, <2>3, Zenon
  <2>6. ASSUME NEW k \in Nat, k \in T PROVE k + 1 \in T
    <3>1. CASE k + 2 <= n
      <4>1. /\ k + 2 \in 2 .. n /\ k + 2 \in 1 .. n /\ k + 1 \in 1 .. n /\ k + 3 \in 1 .. n + 1
            /\ (k + 2) - 1 = k + 1 /\ (k + 2) + 1 = k + 3
        BY <3>1, <1>1
      <4>2. v[1] = f[k + 1] \o v[k + 2]
        <5>1. k + 1 <= n
          BY <3>1, <1>1
        <5> QED
          BY <5>1, <2>6, Zenon
      <4>3. v[k + 2] = pieces[k + 2] \o v[k + 3]
        BY <4>1, <2>1, <1>1, Zenon
      <4>4. f[k + 2] = f[k + 1] \o pieces[k + 2]
        BY <4>1, <2>3, Zenon
      <4>5. f[k + 1] \in Seq(S) /\ pieces[k + 2] \in Seq(S) /\ v[k + 3] \in Seq(S)
        BY <4>1, <2>1, <2>3, <1>1, Zenon
      <4>6. f[k + 1] \o (pieces[k + 2] \o v[k + 3]) = (f[k + 1] \o pieces[k + 2]) \o v[k + 3]
        <5> DEFINE x == f[k + 1]
                   y == pieces[k + 2]
                   w == v[k + 3]
        <5>1. x \in Seq(S) /\ y \in Seq(S) /\ w \in Seq(S)
          BY <4>5
        <5> HIDE DEF x, y, w
        <5>2. x \o (y \o w) = (x \o y) \o w
          BY <5>1, SMTT(60)
        <5> QED
          BY <5>2 DEF x, y, w
      <4>7. v[1] = f[k + 2] \o v[k + 3]
        BY <4>2, <4>3, <4>4, <4>6, Zenon
      <4>8. (k + 1) + 1 = k + 2 /\ (k + 1) + 2 = k + 3 /\ k + 1 \in Nat
        OBVIOUS
      <4> QED
        BY <4>7, <4>8, Zenon
    <3>2. CASE ~(k + 2 <= n)
      <4>1. k + 1 \in Nat /\ ~((k + 1) + 1 <= n)
        BY <3>2, <1>1
      <4> QED
        BY <4>1, Zenon
    <3> QED
      BY <3>1, <3>2, Zenon
  <2>7. Nat \subseteq T
    <3> HIDE DEF T
    <3> QED
      BY <2>5, <2>6, Induction, Zenon
  <2>8. n - 1 \in T /\ (n - 1) + 1 = n /\ (n - 1) + 2 = n + 1 /\ n <= n
    <3> HIDE DEF T
    <3> QED
      BY <2>7, <2>4, <1>1
  <2>9. v[1] = f[n] \o v[n + 1]
    BY <2>8, Zenon
  <2> QED
    BY <2>9, <2>3, <1>1, Zenon
<1> QED
  BY <1>2, <1>3, Zenon

\* A text is its symbols one after the other.
LEMMA FlatSingles ==
    ASSUME NEW S, NEW t \in Seq(S)
    PROVE  FlattenSeq([i \in DOMAIN t |-> <<t[i]>>]) = t
<1> DEFINE n == Len(t)
           pieces == [i \in DOMAIN t |-> <<t[i]>>]
           v == [k \in 1 .. n + 1 |-> SubSeq(t, k, n)]
<1>1. n \in Nat /\ DOMAIN t = 1 .. n /\ \A i \in 1 .. n : t[i] \in S
  OBVIOUS
<1>2. pieces \in Seq(Seq(S)) /\ Len(pieces) = n
  <2>1. pieces \in [1 .. n -> Seq(S)]
    BY <1>1, SingleTyped
  <2> QED
    BY <2>1, <1>1
<1>3. v[n + 1] = <<>>
  BY <1>1
<1>4. ASSUME NEW k \in 1 .. n PROVE v[k] = pieces[k] \o v[k + 1]
  <2>1. v[k] = SubSeq(t, k, n) /\ v[k + 1] = SubSeq(t, k + 1, n) /\ pieces[k] = <<t[k]>>
    BY <1>1
  <2>2. SubSeq(t, k, n) = <<t[k]>> \o SubSeq(t, k + 1, n)
    BY <1>1
  <2> QED
    BY <2>1, <2>2, Zenon
<1>5. FromTheRight(v, S, pieces, <<>>)
  <2> HIDE DEF v, pieces
  <2> QED
    BY <1>2, <1>3, <1>4, Zenon DEF FromTheRight
<1>6. v[1] = FlattenSeq(pieces) \o <<>>
  <2> HIDE DEF v, pieces
  <2>1. <<>> \in Seq(S)
    OBVIOUS
  <2> QED
    BY <2>1, <1>2, <1>5, RightIsFlat, Zenon
<1>7. v[1] = t
  BY <1>1
<1>8. FlattenSeq(pieces) \in Seq(S)
  <2> HIDE DEF pieces
  <2> QED
    BY <1>2, FlattenTyped
<1>9. FlattenSeq(pieces) \o <<>> = FlattenSeq(pieces)
  <2> HIDE DEF pieces
  <2> QED
    BY <1>8, ConcatEmptySeq
<1> QED
  BY <1>6, <1>7, <1>9, Zenon

\* Where each of the pieces is.
Cuts(cut, pieces, flat) ==
    /\ cut \in [1 .. Len(pieces) + 1 -> Nat]
    /\ cut[1] = 0 /\ cut[Len(pieces) + 1] = Len(flat)
    /\ \A k \in 1 .. Len(pieces) : cut[k + 1] = cut[k] + Len(pieces[k])
    /\ \A k \in 1 .. Len(pieces) : \A j \in 1 .. Len(pieces[k]) : flat[cut[k] + j] = pieces[k][j]
    /\ \A k \in 1 .. Len(pieces) + 1 : cut[k] <= Len(flat)

\* Pieces that are put together each are somewhere.
LEMMA FlatCuts ==
    ASSUME NEW S, NEW pieces \in Seq(Seq(S))
    PROVE  \E cut : Cuts(cut, pieces, FlattenSeq(pieces))
<1> DEFINE n == Len(pieces)
<1>1. n \in Nat /\ \A k \in 1 .. n : pieces[k] \in Seq(S) /\ Len(pieces[k]) \in Nat
  OBVIOUS
<1>2. CASE pieces = <<>>
  <2>1. n = 0 /\ 1 .. n = {}
    BY <1>2
  <2>2. FlattenSeq(pieces) = <<>> /\ Len(<<>>) = 0
    BY <2>1, <1>2, Zenon DEF FlattenSeq
  <2> DEFINE cut == [k \in 1 .. n + 1 |-> 0]
  <2>3. cut \in [1 .. n + 1 -> Nat] /\ cut[1] = 0 /\ cut[n + 1] = 0 /\ \A k \in 1 .. n + 1 : cut[k] <= 0
    BY <2>1
  <2> HIDE DEF cut
  <2> QED
    BY <2>1, <2>2, <2>3 DEF Cuts
<1>3. CASE pieces # <<>>
  <2>1. n >= 1
    BY <1>3, <1>1
  <2>2. PICK f : IsFlattening(f, S, pieces)
    BY <1>3, FlattenSteps, Zenon
  <2>3. /\ f \in [1 .. n -> Seq(S)] /\ f[1] = pieces[1]
        /\ \A i \in 2 .. n : f[i] = f[i - 1] \o pieces[i]
        /\ FlattenSeq(pieces) = f[n]
    BY <2>2, Zenon DEF IsFlattening
  <2> DEFINE cut == [k \in 1 .. n + 1 |-> IF k = 1 THEN 0 ELSE Len(f[k - 1])]
             At(m) == \A k \in 1 .. m : \A j \in 1 .. Len(pieces[k]) : f[m][cut[k] + j] = pieces[k][j]
             Ends(m) == \A k \in 1 .. m + 1 : cut[k] <= Len(f[m])
             T == { m \in Nat : m + 1 <= n => At(m + 1) /\ Ends(m + 1) }
  <2>4. /\ cut \in [1 .. n + 1 -> Nat] /\ cut[1] = 0
        /\ \A k \in 1 .. n : cut[k + 1] = Len(f[k])
    <3>1. ASSUME NEW k \in 1 .. n + 1 PROVE (IF k = 1 THEN 0 ELSE Len(f[k - 1])) \in Nat
      <4>1. k # 1 => k - 1 \in 1 .. n
        BY <1>1
      <4> QED
        BY <4>1, <2>3
    <3>2. ASSUME NEW k \in 1 .. n PROVE cut[k + 1] = Len(f[k])
      <4>1. k + 1 \in 1 .. n + 1 /\ k + 1 # 1 /\ (k + 1) - 1 = k
        BY <1>1
      <4> QED
        BY <4>1
    <3>3. 1 \in 1 .. n + 1
      BY <1>1
    <3> QED
      BY <3>1, <3>2, <3>3
  <2> HIDE DEF cut
  <2>5. ASSUME NEW k \in 2 .. n
        PROVE  /\ Len(f[k]) = Len(f[k - 1]) + Len(pieces[k])
               /\ \A j \in 1 .. Len(f[k - 1]) : f[k][j] = f[k - 1][j]
               /\ \A j \in 1 .. Len(pieces[k]) : f[k][Len(f[k - 1]) + j] = pieces[k][j]
    <3>1. k - 1 \in 1 .. n /\ k \in 1 .. n
      BY <1>1
    <3>2. f[k - 1] \in Seq(S) /\ pieces[k] \in Seq(S) /\ f[k] = f[k - 1] \o pieces[k]
      BY <3>1, <2>3, <1>1, Zenon
    <3> DEFINE a == f[k - 1]
               b == pieces[k]
    <3>3. /\ Len(a \o b) = Len(a) + Len(b)
          /\ \A j \in 1 .. Len(a) : (a \o b)[j] = a[j]
          /\ \A j \in 1 .. Len(b) : (a \o b)[Len(a) + j] = b[j]
      <4>1. a \in Seq(S) /\ b \in Seq(S)
        BY <3>2
      <4> HIDE DEF a, b
      <4> QED
        BY <4>1, JoinIs
    <3> QED
      BY <3>2, <3>3, Zenon
  <2>6. ASSUME NEW k \in 1 .. n PROVE cut[k + 1] = cut[k] + Len(pieces[k])
    <3>1. CASE k = 1
      <4>1. 1 \in 1 .. n
        BY <2>1, <1>1
      <4>2. cut[1] = 0 /\ cut[1 + 1] = Len(f[1]) /\ f[1] = pieces[1] /\ Len(pieces[1]) \in Nat
        BY <4>1, <2>3, <2>4, <1>1, Zenon
      <4>3. cut[1 + 1] = cut[1] + Len(pieces[1])
        BY <4>2
      <4> QED
        BY <4>3, <3>1
    <3>2. CASE k # 1
      <4>1. k \in 2 .. n /\ k - 1 \in 1 .. n /\ (k - 1) + 1 = k
        BY <3>2, <1>1
      <4>2. cut[k] = Len(f[k - 1]) /\ cut[k + 1] = Len(f[k])
        BY <4>1, <2>4, Zenon
      <4> QED
        BY <4>1, <4>2, <2>5, Zenon
    <3> QED
      BY <3>1, <3>2
  <2>7. 0 \in T
    <3>1. ASSUME NEW k \in 1 .. 1, NEW j \in 1 .. Len(pieces[k]) PROVE f[1][cut[k] + j] = pieces[k][j]
      <4>1. k = 1 /\ 1 \in 1 .. n
        BY <2>1, <1>1
      <4>2. Len(pieces[1]) \in Nat /\ j \in 1 .. Len(pieces[1]) /\ cut[1] = 0
        BY <4>1, <1>1, <2>4
      <4>3. cut[1] + j = j
        BY <4>2
      <4> QED
        BY <4>1, <4>3, <2>3
    <3>2. ASSUME NEW k \in 1 .. 1 + 1 PROVE cut[k] <= Len(f[1])
      <4>1. 1 \in 1 .. n /\ (k = 1 \/ k = 1 + 1)
        BY <2>1, <1>1
      <4>2. cut[1] = 0 /\ cut[1 + 1] = Len(f[1]) /\ f[1] \in Seq(S)
        BY <4>1, <2>3, <2>4
      <4>3. Len(f[1]) \in Nat
        BY <4>2
      <4> QED
        BY <4>1, <4>2, <4>3
    <3>3. 0 + 1 = 1 /\ 0 \in Nat
      OBVIOUS
    <3> QED
      BY <3>1, <3>2, <3>3, Zenon
  <2>8. ASSUME NEW m \in Nat, m \in T PROVE m + 1 \in T
    <3>0. SUFFICES ASSUME m + 2 <= n PROVE At(m + 2) /\ Ends(m + 2)
      <4>1. m + 1 \in Nat /\ (m + 1) + 1 = m + 2
        OBVIOUS
      <4> QED
        BY <4>1, Zenon
    <3>1. /\ m + 1 <= n /\ m + 2 \in 2 .. n /\ m + 1 \in 1 .. n /\ (m + 2) - 1 = m + 1 /\ m + 2 \in 1 .. n
          /\ (m + 1) + 1 = m + 2 /\ (m + 2) + 1 = m + 3
      BY <3>0, <1>1
    <3>2. At(m + 1) /\ Ends(m + 1)
      BY <3>1, <2>8, Zenon
    <3>3. /\ Len(f[m + 2]) = Len(f[m + 1]) + Len(pieces[m + 2])
          /\ \A j \in 1 .. Len(f[m + 1]) : f[m + 2][j] = f[m + 1][j]
          /\ \A j \in 1 .. Len(pieces[m + 2]) : f[m + 2][Len(f[m + 1]) + j] = pieces[m + 2][j]
          /\ Len(f[m + 1]) \in Nat /\ Len(pieces[m + 2]) \in Nat
          /\ cut[m + 2] = Len(f[m + 1]) /\ cut[m + 3] = Len(f[m + 2])
      <4>1. f[m + 1] \in Seq(S)
        BY <3>1, <2>3, Zenon
      <4>2. Len(f[m + 1]) \in Nat
        BY <4>1
      <4>3. cut[m + 2] = Len(f[m + 1]) /\ cut[m + 3] = Len(f[m + 2])
        BY <3>1, <2>4, Zenon
      <4>4. /\ Len(f[m + 2]) = Len(f[m + 1]) + Len(pieces[m + 2])
            /\ \A j \in 1 .. Len(f[m + 1]) : f[m + 2][j] = f[m + 1][j]
            /\ \A j \in 1 .. Len(pieces[m + 2]) : f[m + 2][Len(f[m + 1]) + j] = pieces[m + 2][j]
        <5> DEFINE x == m + 2
                   y == m + 1
        <5>1. x \in 2 .. n /\ x - 1 = y
          BY <3>1
        <5> HIDE DEF x, y
        <5>2. /\ Len(f[x]) = Len(f[x - 1]) + Len(pieces[x])
              /\ \A j \in 1 .. Len(f[x - 1]) : f[x][j] = f[x - 1][j]
              /\ \A j \in 1 .. Len(pieces[x]) : f[x][Len(f[x - 1]) + j] = pieces[x][j]
          BY <5>1, <2>5, Zenon
        <5>3. /\ Len(f[x]) = Len(f[y]) + Len(pieces[x])
              /\ \A j \in 1 .. Len(f[y]) : f[x][j] = f[y][j]
              /\ \A j \in 1 .. Len(pieces[x]) : f[x][Len(f[y]) + j] = pieces[x][j]
          BY <5>1, <5>2, Zenon
        <5> QED
          BY <5>3, Zenon DEF x, y
      <4> QED
        BY <4>2, <4>3, <4>4, <3>1, <1>1, Zenon
    <3>4. ASSUME NEW k \in 1 .. m + 2, NEW j \in 1 .. Len(pieces[k]) PROVE f[m + 2][cut[k] + j] = pieces[k][j]
      <4>1. CASE k = m + 2
        BY <4>1, <3>3
      <4>2. CASE k # m + 2
        <5>1. k \in 1 .. m + 1 /\ k + 1 \in 1 .. (m + 1) + 1 /\ k \in 1 .. n /\ k \in 1 .. n + 1
          BY <4>2, <3>1, <1>1
        <5>2. f[m + 1][cut[k] + j] = pieces[k][j]
          BY <5>1, <3>2, Zenon
        <5>3. cut[k + 1] = cut[k] + Len(pieces[k]) /\ cut[k + 1] <= Len(f[m + 1]) /\ cut[k] \in Nat /\ Len(pieces[k]) \in Nat
          BY <5>1, <3>2, <2>4, <2>6, <1>1, Zenon
        <5>4. cut[k] + j \in 1 .. Len(f[m + 1])
          <6> DEFINE c == cut[k]
                     l == Len(pieces[k])
                     e == Len(f[m + 1])
          <6>1. c + l <= e /\ c \in Nat /\ l \in Nat /\ e \in Nat /\ j \in 1 .. l
            BY <5>3, <3>3, Zenon
          <6> HIDE DEF c, l, e
          <6>2. c + j \in 1 .. e
            BY <6>1
          <6> QED
            BY <6>2 DEF c, e
        <5> QED
          BY <5>2, <5>4, <3>3, Zenon
      <4> QED
        BY <4>1, <4>2
    <3>5. ASSUME NEW k \in 1 .. m + 3 PROVE cut[k] <= Len(f[m + 2])
      <4>1. CASE k = m + 3
        BY <4>1, <3>3
      <4>2. CASE k # m + 3
        <5>1. k \in 1 .. (m + 1) + 1 /\ k \in 1 .. n + 1
          BY <4>2, <3>1, <1>1
        <5>2. cut[k] <= Len(f[m + 1]) /\ cut[k] \in Nat
          BY <5>1, <3>2, <2>4, Zenon
        <5> DEFINE c == cut[k]
                   e == Len(f[m + 1])
                   l == Len(pieces[m + 2])
                   h == Len(f[m + 2])
        <5>3. c <= e /\ c \in Nat /\ e \in Nat /\ l \in Nat /\ h = e + l
          BY <5>2, <3>3, Zenon
        <5> HIDE DEF c, e, l, h
        <5>4. c <= h
          BY <5>3
        <5> QED
          BY <5>4 DEF c, h
      <4> QED
        BY <4>1, <4>2
    <3> QED
      BY <3>1, <3>4, <3>5, Zenon
  <2>9. n - 1 \in T /\ (n - 1) + 1 = n /\ n <= n
    <3>1. Nat \subseteq T
      <4> HIDE DEF T
      <4> QED
        BY <2>7, <2>8, Induction, Zenon
    <3> HIDE DEF T
    <3> QED
      BY <3>1, <2>1, <1>1
  <2>10. At(n) /\ Ends(n)
    BY <2>9, Zenon
  <2>11. n \in 1 .. n /\ cut[n + 1] = Len(f[n])
    <3>1. n \in 1 .. n
      BY <2>1, <1>1
    <3> QED
      BY <2>4, <3>1, Zenon
  <2>12. Cuts(cut, pieces, f[n])
    BY <2>4, <2>6, <2>10, <2>11, Zenon DEF Cuts
  <2> QED
    BY <2>3, <2>12, Zenon
<1> QED
  BY <1>2, <1>3

\* Where in a literal the pieces are, and its opening and closing.
Spread(at, S, w, open, pieces, close) ==
    LET n == Len(pieces) IN
    /\ w \in Seq(S)
    /\ at \in [1 .. n + 1 -> Nat]
    /\ at[1] = Len(open) + 1 /\ at[n + 1] + Len(close) = Len(w) + 1
    /\ \A k \in 1 .. n : at[k + 1] = at[k] + Len(pieces[k])
    /\ \A k \in 1 .. n : \A j \in 1 .. Len(pieces[k]) : w[at[k] + j - 1] = pieces[k][j]
    /\ \A k \in 1 .. n + 1 : Len(open) < at[k] /\ at[k] <= at[n + 1]
    /\ \A j \in 1 .. Len(open) : w[j] = open[j]
    /\ \A j \in 1 .. Len(close) : w[at[n + 1] + j - 1] = close[j]

\* Each is somewhere.
LEMMA LiteralSpread ==
    ASSUME NEW S, NEW open \in Seq(S), NEW pieces \in Seq(Seq(S)), NEW close \in Seq(S)
    PROVE  \E at : Spread(at, S, Literal(open, pieces, close), open, pieces, close)
<1> DEFINE n == Len(pieces)
           o == Len(open)
           flat == FlattenSeq(pieces)
           left == open \o flat
           w == left \o close
<1>1. n \in Nat /\ o \in Nat /\ Len(close) \in Nat /\ \A k \in 1 .. n : Len(pieces[k]) \in Nat
  OBVIOUS
<1>2. flat \in Seq(S)
  BY FlattenTyped
<1>3. w = Literal(open, pieces, close)
  BY Zenon DEF Literal
<1>4. PICK cut : Cuts(cut, pieces, flat)
  BY FlatCuts
<1>5. /\ cut \in [1 .. n + 1 -> Nat] /\ cut[1] = 0 /\ cut[n + 1] = Len(flat)
      /\ \A k \in 1 .. n : cut[k + 1] = cut[k] + Len(pieces[k])
      /\ \A k \in 1 .. n : \A j \in 1 .. Len(pieces[k]) : flat[cut[k] + j] = pieces[k][j]
      /\ \A k \in 1 .. n + 1 : cut[k] <= Len(flat)
  BY <1>4, Zenon DEF Cuts
<1> HIDE DEF flat
<1>6. /\ left \in Seq(S) /\ Len(left) = o + Len(flat) /\ Len(flat) \in Nat
      /\ \A k \in 1 .. o : left[k] = open[k]
      /\ \A k \in 1 .. Len(flat) : left[o + k] = flat[k]
  BY <1>2, JoinIs
<1> HIDE DEF left
<1>7. /\ w \in Seq(S) /\ Len(w) = Len(left) + Len(close)
      /\ \A k \in 1 .. Len(left) : w[k] = left[k]
      /\ \A k \in 1 .. Len(close) : w[Len(left) + k] = close[k]
  <2>1. left \in Seq(S)
    BY <1>6
  <2> QED
    BY <2>1, JoinIs
<1> HIDE DEF w
<1> DEFINE at == [k \in 1 .. n + 1 |-> (cut[k] + o) + 1]
           l == Len(close)
           g == Len(flat)
           h == Len(left)
           u == Len(w)
<1>8. \A k \in 1 .. n + 1 : at[k] = (cut[k] + o) + 1 /\ cut[k] \in Nat /\ at[k] \in Nat
  <2> SUFFICES ASSUME NEW k \in 1 .. n + 1 PROVE at[k] = (cut[k] + o) + 1 /\ cut[k] \in Nat /\ at[k] \in Nat
    BY Zenon
  <2>1. cut[k] \in Nat /\ at[k] = (cut[k] + o) + 1
    BY <1>5, Zenon
  <2> DEFINE c == cut[k]
  <2>2. c \in Nat /\ o \in Nat
    BY <2>1, <1>1
  <2> HIDE DEF c, o
  <2>3. (c + o) + 1 \in Nat
    BY <2>2
  <2> QED
    BY <2>1, <2>3 DEF c
<1>9. at \in [1 .. n + 1 -> Nat]
  BY <1>8
<1> HIDE DEF at
<1>10. 1 \in 1 .. n + 1 /\ n + 1 \in 1 .. n + 1 /\ \A k \in 1 .. n : k \in 1 .. n + 1 /\ k + 1 \in 1 .. n + 1
  BY <1>1
<1>11. at[1] = o + 1 /\ at[n + 1] + Len(close) = Len(w) + 1
  <2>1. at[1] = (0 + o) + 1 /\ at[n + 1] = (g + o) + 1 /\ u = h + l /\ h = o + g
    BY <1>5, <1>6, <1>7, <1>8, <1>10, Zenon
  <2>2. o \in Nat /\ g \in Nat /\ l \in Nat
    BY <1>1, <1>6
  <2> HIDE DEF o, g, l, h, u
  <2>3. at[1] = o + 1 /\ at[n + 1] + l = u + 1
    BY <2>1, <2>2
  <2> QED
    BY <2>3 DEF l, u
<1>12. ASSUME NEW k \in 1 .. n PROVE at[k + 1] = at[k] + Len(pieces[k])
  <2>1. at[k] = (cut[k] + o) + 1 /\ at[k + 1] = (cut[k + 1] + o) + 1 /\ cut[k + 1] = cut[k] + Len(pieces[k]) /\ cut[k] \in Nat
    BY <1>5, <1>8, <1>10, Zenon
  <2> QED
    BY <2>1, <1>1
<1>13. ASSUME NEW k \in 1 .. n, NEW j \in 1 .. Len(pieces[k]) PROVE w[at[k] + j - 1] = pieces[k][j]
  <2>1. at[k] = (cut[k] + o) + 1 /\ cut[k + 1] = cut[k] + Len(pieces[k]) /\ cut[k] \in Nat /\ cut[k + 1] <= Len(flat)
    BY <1>5, <1>8, <1>10, Zenon
  <2>2. flat[cut[k] + j] = pieces[k][j]
    BY <1>5, Zenon
  <2>3. cut[k] + j \in 1 .. Len(flat) /\ o + (cut[k] + j) \in 1 .. Len(left) /\ at[k] + j - 1 = o + (cut[k] + j)
    <3> DEFINE c == cut[k]
               p == Len(pieces[k])
               a == at[k]
    <3>1. a = (c + o) + 1 /\ c \in Nat /\ p \in Nat /\ j \in 1 .. p /\ c + p <= g /\ h = o + g
      BY <2>1, <1>1, <1>6, Zenon
    <3>2. o \in Nat /\ g \in Nat
      BY <1>1, <1>6
    <3> HIDE DEF c, p, a, o, g, h
    <3>3. c + j \in 1 .. g /\ o + (c + j) \in 1 .. h /\ a + j - 1 = o + (c + j)
      BY <3>1, <3>2
    <3> QED
      BY <3>3 DEF c, a, o, g, h
  <2> QED
    BY <2>2, <2>3, <1>6, <1>7, Zenon
<1>14. ASSUME NEW k \in 1 .. n + 1 PROVE o < at[k] /\ at[k] <= at[n + 1]
  <2>1. at[k] = (cut[k] + o) + 1 /\ cut[k] \in Nat /\ cut[k] <= Len(flat) /\ at[n + 1] = (Len(flat) + o) + 1
    BY <1>5, <1>8, <1>10, Zenon
  <2> QED
    BY <2>1, <1>1, <1>6
<1>15. ASSUME NEW j \in 1 .. o PROVE w[j] = open[j]
  <2>1. j \in 1 .. Len(left)
    BY <1>1, <1>6
  <2> QED
    BY <2>1, <1>6, <1>7, Zenon
<1>16. ASSUME NEW j \in 1 .. Len(close) PROVE w[at[n + 1] + j - 1] = close[j]
  <2>1. at[n + 1] + j - 1 = Len(left) + j
    <3> DEFINE a == at[n + 1]
    <3>1. a = (g + o) + 1 /\ h = o + g /\ o \in Nat /\ g \in Nat /\ l \in Nat /\ j \in 1 .. l
      BY <1>1, <1>5, <1>6, <1>8, <1>10, Zenon
    <3> HIDE DEF a, o, g, h, l
    <3>2. a + j - 1 = h + j
      BY <3>1
    <3> QED
      BY <3>2 DEF a, h
  <2> QED
    BY <2>1, <1>7, Zenon
<1>17. Spread(at, S, w, open, pieces, close)
  BY <1>7, <1>9, <1>11, <1>12, <1>13, <1>14, <1>15, <1>16, Zenon DEF Spread
<1> QED
  BY <1>3, <1>17, Zenon

-----------------------------------------------------------------------------
\* The symbols of the literals differ from each other.
LEMMA SymbolsDiffer ==
    /\ Apostrophe # QuoteMark /\ Apostrophe # Backslash /\ Apostrophe # Dollar /\ Apostrophe # Circumflex
    /\ QuoteMark # Backslash /\ QuoteMark # Dollar /\ QuoteMark # Circumflex
    /\ Backslash # Dollar /\ Backslash # Circumflex /\ Dollar # Circumflex
    /\ \A c \in {Apostrophe, QuoteMark, Backslash, Dollar, Circumflex} :
          c \notin {"backtick", "n", "r", "t", "u", "x", "lf", "cr", "tab"} /\ ~IsDigit(Decimal, c)
<1>1. \A i \in DOMAIN Decimal : Decimal[i] \in {"0", "1", "2", "3", "4", "5", "6", "7", "8", "9"}
  BY DEF Decimal
<1>2. \A c \in {Apostrophe, QuoteMark, Backslash, Dollar, Circumflex} :
         c \notin {"0", "1", "2", "3", "4", "5", "6", "7", "8", "9"}
  BY Zenon DEF Apostrophe, QuoteMark, Backslash, Dollar, Circumflex
<1>3. \A c \in {Apostrophe, QuoteMark, Backslash, Dollar, Circumflex} : ~IsDigit(Decimal, c)
  BY <1>1, <1>2, Zenon DEF IsDigit
<1>4. \A c \in {Apostrophe, QuoteMark, Backslash, Dollar, Circumflex} :
         c \notin {"backtick", "n", "r", "t", "u", "x", "lf", "cr", "tab"}
  BY Zenon DEF Apostrophe, QuoteMark, Backslash, Dollar, Circumflex
<1> QED
  BY <1>3, <1>4, Zenon DEF Apostrophe, QuoteMark, Backslash, Dollar, Circumflex

\* What is no letter, digit or mark is none of those.
LEMMA NotPlain ==
    ASSUME NEW c \in Unsafe \cup Doubles \cup Singles
    PROVE  /\ c \notin {Apostrophe, QuoteMark, Backslash, Dollar, Circumflex, "backtick", "n", "r", "t", "u", "x"}
           /\ ~IsDigit(Decimal, c)
<1>1. c \notin Plain
  BY QuotingAssumption, Zenon
<1>2. c \notin { Hexadecimal[i] : i \in DOMAIN Hexadecimal }
  BY <1>1, Zenon DEF Plain
<1>3. ~IsDigit(Decimal, c)
  <2>1. DOMAIN Decimal \subseteq DOMAIN Hexadecimal /\ \A i \in DOMAIN Decimal : Decimal[i] = Hexadecimal[i]
    BY DEF Decimal, Hexadecimal
  <2> QED
    BY <1>2, <2>1, Zenon DEF IsDigit
<1> QED
  BY <1>1, <1>3, Zenon DEF Plain

\* A digit has its value.
LEMMA DecimalIs ==
    ASSUME NEW n \in 0 .. 9
    PROVE  Value(Decimal, Digit(Decimal, n)) = n /\ IsDigit(Decimal, Digit(Decimal, n))
<1>1. DOMAIN Decimal = 1 .. 10 /\ \A i, j \in 1 .. 10 : Decimal[i] = Decimal[j] => i = j
  BY DEF Decimal
<1>2. n + 1 \in 1 .. 10 /\ (n + 1) - 1 = n
  OBVIOUS
<1>3. (CHOOSE i \in DOMAIN Decimal : Decimal[i] = Decimal[n + 1]) = n + 1
  BY <1>1, <1>2, Zenon
<1> QED
  BY <1>1, <1>2, <1>3, Zenon DEF Value, Digit, IsDigit

\* So is what a hexadecimal digit stands for.
LEMMA HexadecimalIs ==
    ASSUME NEW n \in 0 .. 15
    PROVE  Value(Hexadecimal, Digit(Hexadecimal, n)) = n
<1>1. DOMAIN Hexadecimal = 1 .. 16 /\ \A i, j \in 1 .. 16 : Hexadecimal[i] = Hexadecimal[j] => i = j
  BY DEF Hexadecimal
<1>2. n + 1 \in 1 .. 16 /\ (n + 1) - 1 = n
  OBVIOUS
<1>3. (CHOOSE i \in DOMAIN Hexadecimal : Hexadecimal[i] = Hexadecimal[n + 1]) = n + 1
  BY <1>1, <1>2, Zenon
<1> QED
  BY <1>1, <1>2, <1>3, Zenon DEF Value, Digit

\* The code of a character is no other's.
LEMMA CharacterIs ==
    ASSUME NEW c \in Control
    PROVE  Character(Code[c]) = c
BY QuotingAssumption, Zenon DEF Character

-----------------------------------------------------------------------------
\* What bash does at each place of a word.
BashSteps(w, i, mode) ==
    LET hex == w[i] = Backslash /\ mode = "ansi" /\ i + 3 <= Len(w) /\ w[i + 1] = "x" IN
    /\ i > Len(w) => BashStep(w, i, mode) = Step(IF mode = "bare" THEN <<>> ELSE <<Broken>>, <<0, mode>>)
    /\ i <= Len(w) /\ mode = "bare" /\ w[i] = Apostrophe => BashStep(w, i, mode) = Step(<<>>, <<i + 1, "quoted">>)
    /\ i < Len(w) /\ mode = "bare" /\ w[i] = Backslash => BashStep(w, i, mode) = Step(<<w[i + 1]>>, <<i + 2, mode>>)
    /\ i < Len(w) /\ mode = "bare" /\ w[i] = Dollar /\ w[i + 1] = Apostrophe =>
          BashStep(w, i, mode) = Step(<<>>, <<i + 2, "ansi">>)
    /\ i <= Len(w) /\ mode = "bare" /\ w[i] # Apostrophe /\ ~(w[i] = Backslash /\ i < Len(w))
          /\ ~(w[i] = Dollar /\ i < Len(w) /\ w[i + 1] = Apostrophe) =>
          BashStep(w, i, mode) = Step(<<Broken>>, <<0, mode>>)
    /\ i <= Len(w) /\ mode # "bare" /\ w[i] = Apostrophe => BashStep(w, i, mode) = Step(<<>>, <<i + 1, "bare">>)
    /\ i <= Len(w) /\ mode # "bare" /\ hex =>
          BashStep(w, i, mode) =
             Step(<<Character(16 * Value(Hexadecimal, w[i + 2]) + Value(Hexadecimal, w[i + 3]))>>, <<i + 4, mode>>)
    /\ i <= Len(w) /\ mode # "bare" /\ w[i] # Apostrophe /\ ~hex =>
          BashStep(w, i, mode) = Step(<<w[i]>>, <<i + 1, mode>>)

\* These are its steps, whatever the place.
LEMMA BashStepIs == ASSUME NEW w, Len(w) \in Nat, NEW i \in Nat, NEW mode PROVE BashSteps(w, i, mode)
<1> DEFINE B == BashStep(w, i, mode)
           hex == w[i] = Backslash /\ mode = "ansi" /\ i + 3 <= Len(w) /\ w[i + 1] = "x"
           number == Character(16 * Value(Hexadecimal, w[i + 2]) + Value(Hexadecimal, w[i + 3]))
           bare == IF w[i] = Apostrophe THEN Step(<<>>, <<i + 1, "quoted">>)
                   ELSE IF w[i] = Backslash /\ i < Len(w) THEN Step(<<w[i + 1]>>, <<i + 2, mode>>)
                   ELSE IF w[i] = Dollar /\ i < Len(w) /\ w[i + 1] = Apostrophe THEN Step(<<>>, <<i + 2, "ansi">>)
                   ELSE Step(<<Broken>>, <<0, mode>>)
           within == IF w[i] = Apostrophe THEN Step(<<>>, <<i + 1, "bare">>)
                     ELSE IF hex THEN Step(<<number>>, <<i + 4, mode>>)
                     ELSE Step(<<w[i]>>, <<i + 1, mode>>)
<1>1. i > Len(w) <=> ~(i <= Len(w))
  OBVIOUS
<1>2. i < Len(w) => i <= Len(w)
  OBVIOUS
<1>3. i > Len(w) => B = Step(IF mode = "bare" THEN <<>> ELSE <<Broken>>, <<0, mode>>)
  BY <1>1, Zenon DEF BashStep
<1>4. Apostrophe # Backslash /\ Apostrophe # Dollar /\ Backslash # Dollar
  BY SymbolsDiffer, Zenon
<1>5. i <= Len(w) /\ mode = "bare" => B = bare
  BY <1>1, <1>4, Zenon DEF BashStep
<1>6. i <= Len(w) /\ mode # "bare" => B = within
  BY <1>1, <1>4, Zenon DEF BashStep
<1> HIDE DEF B, hex, number
<1> QED
  BY <1>2, <1>3, <1>4, <1>5, <1>6, Zenon DEF B, hex, number, BashSteps

Modes == {"bare", "quoted", "ansi"}
BashPlaces(w) == (1 .. Len(w) + 1) \X Modes
BashFrom(w, i, mode) == Scan([x \in BashPlaces(w) |-> BashStep(w, x[1], x[2])], <<i, mode>>)

\* bash goes on to a place further to the right, or ends.
BashGoesRight(w) ==
    \A i \in 1 .. Len(w) + 1, mode \in Modes :
        \E out, j, m : /\ BashStep(w, i, mode) = Step(out, <<j, m>>)
                       /\ j \in Nat /\ m \in Modes /\ (j = 0 \/ i < j)

\* So it does at every place of every word.
LEMMA BashGoesOn == ASSUME NEW w, Len(w) \in Nat PROVE BashGoesRight(w)
<1> SUFFICES ASSUME NEW i \in 1 .. Len(w) + 1, NEW mode \in Modes
             PROVE  \E out, j, m : /\ BashStep(w, i, mode) = Step(out, <<j, m>>)
                                   /\ j \in Nat /\ m \in Modes /\ (j = 0 \/ i < j)
  BY Zenon DEF BashGoesRight
<1>0. BashSteps(w, i, mode)
  <2>1. i \in Nat
    OBVIOUS
  <2> QED
    BY <2>1, BashStepIs
<1> DEFINE B == BashStep(w, i, mode)
           goes(j, m) == \E out : B = Step(out, <<j, m>>)
           hex == w[i] = Backslash /\ mode = "ansi" /\ i + 3 <= Len(w) /\ w[i + 1] = "x"
<1>1. /\ i > Len(w) => goes(0, mode)
      /\ i <= Len(w) /\ mode = "bare" => \/ goes(i + 1, "quoted") \/ goes(i + 2, mode) \/ goes(i + 2, "ansi") \/ goes(0, mode)
      /\ i <= Len(w) /\ mode # "bare" => \/ goes(i + 1, "bare") \/ goes(i + 4, mode) \/ goes(i + 1, mode)
  <2>1. i < Len(w) => i <= Len(w)
    OBVIOUS
  <2>2. i > Len(w) => goes(0, mode)
    <3>1. i > Len(w) => B = Step(IF mode = "bare" THEN <<>> ELSE <<Broken>>, <<0, mode>>)
      BY <1>0 DEF BashSteps
    <3> QED
      BY <3>1, Zenon
  <2>3. ASSUME i <= Len(w), mode = "bare"
        PROVE \/ goes(i + 1, "quoted") \/ goes(i + 2, mode) \/ goes(i + 2, "ansi") \/ goes(0, mode)
    <3>1. CASE w[i] = Apostrophe
      BY <1>0, <2>3, <3>1, Zenon DEF BashSteps
    <3>2. CASE w[i] = Backslash /\ i < Len(w)
      <4>1. B = Step(<<w[i + 1]>>, <<i + 2, mode>>)
        BY <1>0, <2>3, <3>2 DEF BashSteps
      <4> QED
        BY <4>1, Zenon
    <3>3. CASE w[i] = Dollar /\ i < Len(w) /\ w[i + 1] = Apostrophe
      BY <1>0, <2>3, <3>3, Zenon DEF BashSteps
    <3>4. CASE w[i] # Apostrophe /\ ~(w[i] = Backslash /\ i < Len(w)) /\ ~(w[i] = Dollar /\ i < Len(w) /\ w[i + 1] = Apostrophe)
      BY <1>0, <2>3, <3>4, Zenon DEF BashSteps
    <3> HIDE DEF goes
    <3> QED
      BY <3>1, <3>2, <3>3, <3>4, Zenon
  <2>4. ASSUME i <= Len(w), mode # "bare"
        PROVE \/ goes(i + 1, "bare") \/ goes(i + 4, mode) \/ goes(i + 1, mode)
    <3>1. CASE hex
      <4>1. B = Step(<<Character(16 * Value(Hexadecimal, w[i + 2]) + Value(Hexadecimal, w[i + 3]))>>, <<i + 4, mode>>)
        BY <1>0, <2>4, <3>1 DEF BashSteps
      <4> QED
        BY <4>1, Zenon
    <3>2. CASE w[i] = Apostrophe
      BY <1>0, <2>4, <3>2, Zenon DEF BashSteps
    <3>3. CASE ~hex /\ w[i] # Apostrophe
      <4>1. B = Step(<<w[i]>>, <<i + 1, mode>>)
        <5>1. i <= Len(w) /\ mode # "bare" /\ w[i] # Apostrophe /\ ~hex => B = Step(<<w[i]>>, <<i + 1, mode>>)
          BY <1>0, Zenon DEF BashSteps
        <5> QED
          BY <5>1, <2>4, <3>3, Zenon
      <4> QED
        BY <4>1, Zenon
    <3> HIDE DEF goes, hex
    <3> QED
      BY <3>1, <3>2, <3>3, Zenon
  <2> HIDE DEF goes
  <2> QED
    BY <2>2, <2>3, <2>4, Zenon
<1>2. i > Len(w) \/ i <= Len(w)
  OBVIOUS
<1>3. PICK j, m : goes(j, m) /\ j \in {0, i + 1, i + 2, i + 4} /\ m \in {"quoted", "bare", "ansi", mode}
  <2> HIDE DEF goes
  <2> QED
    BY <1>1, <1>2, Zenon
<1>4. j \in Nat /\ (j = 0 \/ i < j)
  BY <1>3
<1>5. m \in Modes
  BY <1>3 DEF Modes
<1> QED
  BY <1>3, <1>4, <1>5, Zenon

\* What bash reads from a place on is what it makes of it and what it reads where it goes on.
BashFollows(w, i, mode, out, j, m) ==
    /\ j \in 1 .. Len(w) + 1 => BashFrom(w, i, mode) = out \o BashFrom(w, j, m)
    /\ j = 0 => BashFrom(w, i, mode) = out \o <<>>

\* What comes of a place is its own and what comes of the place it goes on to.
LEMMA BashFromIs ==
    ASSUME NEW w, Len(w) \in Nat, NEW i \in 1 .. Len(w) + 1, NEW mode \in Modes, NEW out, NEW j, NEW m \in Modes,
           BashStep(w, i, mode) = Step(out, <<j, m>>)
    PROVE  BashFollows(w, i, mode, out, j, m)
<1> DEFINE steps == [x \in BashPlaces(w) |-> BashStep(w, x[1], x[2])]
           n == Len(w) + 1
           rank == [x \in BashPlaces(w) |-> n - x[1]]
<1>1. n \in Nat /\ DOMAIN steps = BashPlaces(w)
  OBVIOUS
<1>2. \A x \in BashPlaces(w) : x[1] \in 1 .. n /\ x[2] \in Modes /\ x = <<x[1], x[2]>>
  BY DEF BashPlaces
<1>3. \A a \in 1 .. n, k \in Modes :
         <<a, k>> \in BashPlaces(w) /\ steps[<<a, k>>] = BashStep(w, a, k) /\ rank[<<a, k>>] = n - a
  BY DEF BashPlaces
<1>4. \A a, k : <<a, k>> \in BashPlaces(w) => a \in 1 .. n
  BY DEF BashPlaces
<1>5. rank \in [DOMAIN steps -> 0 .. n]
  <2>1. \A x \in BashPlaces(w) : n - x[1] \in 0 .. n
    <3> SUFFICES ASSUME NEW x \in BashPlaces(w) PROVE n - x[1] \in 0 .. n
      OBVIOUS
    <3>1. x[1] \in 1 .. n
      BY <1>2
    <3> HIDE DEF n
    <3> QED
      BY <1>1, <3>1
  <2> QED
    BY <2>1
<1> HIDE DEF steps, rank, n
<1>6. ASSUME NEW x \in DOMAIN steps, steps[x].next \in DOMAIN steps PROVE rank[steps[x].next] < rank[x]
  <2>1. PICK a \in 1 .. n, k \in Modes : x = <<a, k>>
    BY <1>1, <1>2, Zenon
  <2>2. PICK o, b, l : BashStep(w, a, k) = Step(o, <<b, l>>) /\ b \in Nat /\ l \in Modes /\ (b = 0 \/ a < b)
    <3>1. a \in 1 .. Len(w) + 1
      BY <2>1 DEF n
    <3>2. BashGoesRight(w)
      BY BashGoesOn
    <3>3. \E out_, j_, m_ : /\ BashStep(w, a, k) = Step(out_, <<j_, m_>>)
                            /\ j_ \in Nat /\ m_ \in Modes /\ (j_ = 0 \/ a < j_)
      BY <3>1, <3>2, Zenon DEF BashGoesRight
    <3> QED
      BY <3>3, Zenon
  <2>3. steps[x] = Step(o, <<b, l>>)
    BY <1>3, <2>1, <2>2, Zenon
  <2>4. steps[x].next = <<b, l>>
    BY <2>3 DEF Step
  <2>5. b \in 1 .. n
    BY <1>1, <1>4, <1>6, <2>4
  <2>6. rank[x] = n - a /\ rank[steps[x].next] = n - b
    BY <1>3, <2>1, <2>2, <2>4, <2>5, Zenon
  <2> QED
    BY <1>1, <2>2, <2>5, <2>6
<1>7. Descends(steps, rank, n)
  BY <1>1, <1>5, <1>6, Zenon DEF Descends
<1>8. <<i, mode>> \in DOMAIN steps /\ steps[<<i, mode>>] = Step(out, <<j, m>>)
  BY <1>1, <1>3, Zenon DEF n
<1>9. steps[<<i, mode>>].out = out /\ steps[<<i, mode>>].next = <<j, m>>
  BY <1>8 DEF Step
<1>10. Scan(steps, <<i, mode>>) = out \o (IF <<j, m>> \in DOMAIN steps THEN Scan(steps, <<j, m>>) ELSE <<>>)
  <2>1. Scan(steps, <<i, mode>>) = steps[<<i, mode>>].out
           \o (IF steps[<<i, mode>>].next \in DOMAIN steps THEN Scan(steps, steps[<<i, mode>>].next) ELSE <<>>)
    BY <1>7, <1>8, ScanIs, Zenon
  <2> QED
    BY <2>1, <1>9, Zenon
<1>11. j \in 1 .. n => BashFrom(w, i, mode) = out \o BashFrom(w, j, m)
  BY <1>1, <1>3, <1>10, Zenon DEF BashFrom, steps
<1>12. j = 0 => BashFrom(w, i, mode) = out \o <<>>
  <2>1. 0 \notin 1 .. n
    BY <1>1
  <2>2. j = 0 => <<j, m>> \notin DOMAIN steps
    BY <2>1, <1>1, <1>4, Zenon
  <2> QED
    BY <2>2, <1>10, Zenon DEF BashFrom, steps
<1> QED
  BY <1>11, <1>12, Zenon DEF n, BashFollows

\* What of a literal stands for what, within its quotes.
BashStands(piece, got) ==
    \/ piece = <<>> /\ got = <<>>
    \/ \E c : c # Apostrophe /\ piece = <<c>> /\ got = <<c>>
    \/ piece = <<Apostrophe, Backslash, Apostrophe, Apostrophe>> /\ got = <<Apostrophe>>
    \/ \E c \in Control :
          /\ piece = <<Apostrophe, Dollar, Apostrophe, Backslash, "x", Digit(Hexadecimal, Code[c] \div 16),
                       Digit(Hexadecimal, Code[c] % 16), Apostrophe, Apostrophe>>
          /\ got = <<c>>

\* The symbols of a piece where it is in a text.
Stands(w, i, piece) ==
    /\ i \in Nat /\ i >= 2
    /\ Len(piece) \in Nat /\ i + Len(piece) <= Len(w)
    /\ \A j \in 1 .. Len(piece) : w[i + j - 1] = piece[j]

\* A place and what bash makes of it.
BashHop(w, i, mode, out, j, m) ==
    /\ i \in 1 .. Len(w) /\ mode \in Modes /\ j \in 1 .. Len(w) + 1 /\ m \in Modes
    /\ BashStep(w, i, mode) = Step(out, <<j, m>>)

BashHopping(w) == \A i, mode, out, j, m : BashHop(w, i, mode, out, j, m) => BashFollows(w, i, mode, out, j, m)

\* That is so from each place to the next.
LEMMA BashHops == ASSUME NEW w, Len(w) \in Nat PROVE BashHopping(w)
<1> SUFFICES ASSUME NEW i, NEW mode, NEW out, NEW j, NEW m, BashHop(w, i, mode, out, j, m)
             PROVE  BashFollows(w, i, mode, out, j, m)
  BY Zenon DEF BashHopping
<1>1. /\ mode \in Modes /\ j \in 1 .. Len(w) + 1 /\ m \in Modes
      /\ BashStep(w, i, mode) = Step(out, <<j, m>>)
  BY Zenon DEF BashHop
<1>2. i \in 1 .. Len(w) + 1
  <2>1. i \in 1 .. Len(w)
    BY Zenon DEF BashHop
  <2> QED
    BY <2>1
<1> QED
  BY <1>1, <1>2, BashFromIs

\* A character of a code below 128 has two hexadecimal digits that are its code.
LEMMA TwoDigits ==
    ASSUME NEW c \in Control
    PROVE  Character(16 * Value(Hexadecimal, Digit(Hexadecimal, Code[c] \div 16)) + Value(Hexadecimal, Digit(Hexadecimal, Code[c] % 16))) = c
<1> DEFINE n == Code[c]
           h == n \div 16
           l == n % 16
<1>1. n \in 0 .. 127
  BY QuotingAssumption
<1>2. h \in 0 .. 15 /\ l \in 0 .. 15 /\ 16 * h + l = n
  BY <1>1
<1>3. Value(Hexadecimal, Digit(Hexadecimal, h)) = h /\ Value(Hexadecimal, Digit(Hexadecimal, l)) = l
  BY <1>2, HexadecimalIs
<1>4. Character(n) = c
  BY CharacterIs
<1> QED
  BY <1>2, <1>3, <1>4, Zenon

\* From a piece, bash gets to the next, and what it reads is what the piece stands for.
LEMMA BashPasses ==
    ASSUME NEW S, NEW w, Len(w) \in Nat, NEW i, NEW piece, NEW got, Stands(w, i, piece), BashStands(piece, got),
           BashFrom(w, i + Len(piece), "quoted") \in Seq(S)
    PROVE  BashFrom(w, i, "quoted") = got \o BashFrom(w, i + Len(piece), "quoted")
<1> DEFINE rest == BashFrom(w, i + Len(piece), "quoted")
<1>1. /\ i \in Nat /\ i >= 2
      /\ Len(piece) \in Nat /\ i + Len(piece) <= Len(w)
      /\ \A j \in 1 .. Len(piece) : w[i + j - 1] = piece[j]
  BY Zenon DEF Stands
<1>m. "bare" \in Modes /\ "quoted" \in Modes /\ "ansi" \in Modes /\ "quoted" # "bare" /\ "ansi" # "bare" /\ "quoted" # "ansi"
  BY DEF Modes
<1>h. BashHopping(w)
  BY BashHops
<1>r. rest \in Seq(S)
  OBVIOUS
<1>e. <<>> \o rest = rest
  <2> HIDE DEF rest
  <2> QED
    BY <1>r, ConcatEmptySeq
<1>s. Apostrophe # Backslash /\ Apostrophe # Dollar /\ Backslash # Dollar
  BY SymbolsDiffer, Zenon
<1>2. CASE piece = <<>> /\ got = <<>>
  <2>1. i + Len(piece) = i
    BY <1>1, <1>2
  <2> QED
    BY <2>1, <1>2, <1>e, Zenon
<1>3. ASSUME NEW c, c # Apostrophe, piece = <<c>>, got = <<c>>
      PROVE  BashFrom(w, i, "quoted") = got \o rest
  <2>1. Len(piece) = 1 /\ piece[1] = c
    BY <1>3
  <2>2. w[i] = c /\ i \in 1 .. Len(w) /\ i <= Len(w) /\ i + 1 \in 1 .. Len(w) + 1
    BY <1>1, <2>1
  <2>3. BashSteps(w, i, "quoted")
    BY <1>1, BashStepIs
  <2>4. BashStep(w, i, "quoted") = Step(<<w[i]>>, <<i + 1, "quoted">>)
    BY <1>3, <2>2, <2>3, <1>m, Zenon DEF BashSteps
  <2>5. BashHop(w, i, "quoted", <<w[i]>>, i + 1, "quoted")
    BY <2>2, <2>4, <1>m, Zenon DEF BashHop
  <2>6. BashFrom(w, i, "quoted") = <<w[i]>> \o BashFrom(w, i + 1, "quoted")
    <3>1. BashFollows(w, i, "quoted", <<w[i]>>, i + 1, "quoted")
      BY <2>5, <1>h, Zenon DEF BashHopping
    <3> QED
      BY <3>1, <2>2, Zenon DEF BashFollows
  <2> QED
    BY <2>1, <2>2, <2>6, <1>3, Zenon
<1>4. CASE piece = <<Apostrophe, Backslash, Apostrophe, Apostrophe>> /\ got = <<Apostrophe>>
  <2>1. Len(piece) = 4 /\ piece[1] = Apostrophe /\ piece[2] = Backslash /\ piece[3] = Apostrophe /\ piece[4] = Apostrophe
    BY <1>4
  <2>2. /\ w[i] = Apostrophe /\ w[i + 1] = Backslash /\ w[(i + 1) + 1] = Apostrophe /\ w[i + 3] = Apostrophe
        /\ i + 4 <= Len(w) /\ i + Len(piece) = i + 4
    BY <1>1, <2>1
  <2>3. /\ i \in 1 .. Len(w) /\ i <= Len(w) /\ i + 1 \in 1 .. Len(w) /\ i + 1 < Len(w) /\ i + 3 \in 1 .. Len(w) /\ i + 3 <= Len(w)
        /\ i + 4 \in 1 .. Len(w) /\ i + 1 \in Nat /\ i + 3 \in Nat /\ (i + 1) + 2 = i + 3 /\ (i + 3) + 1 = i + 4
        /\ i + 1 \in 1 .. Len(w) + 1 /\ i + 3 \in 1 .. Len(w) + 1 /\ i + 4 \in 1 .. Len(w) + 1
    BY <1>1, <2>2
  <2>4. BashSteps(w, i, "quoted") /\ BashSteps(w, i + 1, "bare") /\ BashSteps(w, i + 3, "bare")
    BY <1>1, <2>3, BashStepIs
  <2>5. BashStep(w, i, "quoted") = Step(<<>>, <<i + 1, "bare">>)
    BY <2>2, <2>3, <2>4, <1>m, Zenon DEF BashSteps
  <2>6. BashStep(w, i + 1, "bare") = Step(<<Apostrophe>>, <<i + 3, "bare">>)
    <3>1. BashStep(w, i + 1, "bare") = Step(<<w[(i + 1) + 1]>>, <<(i + 1) + 2, "bare">>)
      BY <2>2, <2>3, <2>4, Zenon DEF BashSteps
    <3> QED
      BY <3>1, <2>2, <2>3, Zenon
  <2>7. BashStep(w, i + 3, "bare") = Step(<<>>, <<i + 4, "quoted">>)
    BY <2>2, <2>3, <2>4, Zenon DEF BashSteps
  <2>8. /\ BashHop(w, i, "quoted", <<>>, i + 1, "bare")
        /\ BashHop(w, i + 1, "bare", <<Apostrophe>>, i + 3, "bare")
        /\ BashHop(w, i + 3, "bare", <<>>, i + 4, "quoted")
    BY <2>3, <2>5, <2>6, <2>7, <1>m, Zenon DEF BashHop
  <2>9. /\ BashFrom(w, i, "quoted") = <<>> \o BashFrom(w, i + 1, "bare")
        /\ BashFrom(w, i + 1, "bare") = <<Apostrophe>> \o BashFrom(w, i + 3, "bare")
        /\ BashFrom(w, i + 3, "bare") = <<>> \o BashFrom(w, i + 4, "quoted")
    <3>1. /\ BashFollows(w, i, "quoted", <<>>, i + 1, "bare")
          /\ BashFollows(w, i + 1, "bare", <<Apostrophe>>, i + 3, "bare")
          /\ BashFollows(w, i + 3, "bare", <<>>, i + 4, "quoted")
      BY <2>8, <1>h, Zenon DEF BashHopping
    <3> QED
      BY <3>1, <2>3, Zenon DEF BashFollows
  <2>10. BashFrom(w, i + 3, "bare") = rest
    BY <2>2, <2>9, <1>e, Zenon
  <2>11. BashFrom(w, i, "quoted") = <<>> \o (got \o rest)
    BY <2>9, <2>10, <1>4, Zenon
  <2>12. <<>> \o (got \o rest) = got \o rest
    <3>1. \A x, y : x \in Seq(S \cup {Apostrophe}) /\ y \in Seq(S \cup {Apostrophe}) => <<>> \o (x \o y) = x \o y
      BY ConcatEmptySeq
    <3>2. got \in Seq(S \cup {Apostrophe})
      BY <1>4
    <3>3. rest \in Seq(S \cup {Apostrophe})
      <4> HIDE DEF rest
      <4> QED
        BY <1>r
    <3> QED
      BY <3>1, <3>2, <3>3, Zenon
  <2> QED
    BY <2>11, <2>12, Zenon
<1>5. ASSUME NEW c \in Control,
             piece = <<Apostrophe, Dollar, Apostrophe, Backslash, "x", Digit(Hexadecimal, Code[c] \div 16),
                       Digit(Hexadecimal, Code[c] % 16), Apostrophe, Apostrophe>>,
             got = <<c>>
      PROVE  BashFrom(w, i, "quoted") = got \o rest
  <2> DEFINE h == Digit(Hexadecimal, Code[c] \div 16)
             l == Digit(Hexadecimal, Code[c] % 16)
             number(x, y) == Character(16 * Value(Hexadecimal, x) + Value(Hexadecimal, y))
  <2>1. number(h, l) = c
    BY TwoDigits
  <2>2. piece = <<Apostrophe, Dollar, Apostrophe, Backslash, "x", h, l, Apostrophe, Apostrophe>>
    BY <1>5
  <2> HIDE DEF h, l, number
  <2>3. /\ Len(piece) = 9 /\ piece[1] = Apostrophe /\ piece[2] = Dollar /\ piece[3] = Apostrophe /\ piece[4] = Backslash
        /\ piece[5] = "x" /\ piece[6] = h /\ piece[7] = l /\ piece[8] = Apostrophe /\ piece[9] = Apostrophe
    BY <2>2
  <2>4. /\ w[i] = Apostrophe /\ w[i + 1] = Dollar /\ w[(i + 1) + 1] = Apostrophe /\ w[i + 3] = Backslash
        /\ w[(i + 3) + 1] = "x" /\ w[(i + 3) + 2] = h /\ w[(i + 3) + 3] = l
        /\ w[i + 7] = Apostrophe /\ w[i + 8] = Apostrophe
        /\ i + 9 <= Len(w) /\ i + Len(piece) = i + 9
    BY <1>1, <2>3
  <2>5. /\ i \in 1 .. Len(w) /\ i <= Len(w)
        /\ i + 1 \in Nat /\ i + 1 \in 1 .. Len(w) /\ i + 1 < Len(w) /\ i + 1 \in 1 .. Len(w) + 1
        /\ i + 3 \in Nat /\ i + 3 \in 1 .. Len(w) /\ i + 3 <= Len(w) /\ (i + 3) + 3 <= Len(w) /\ i + 3 \in 1 .. Len(w) + 1
        /\ i + 7 \in Nat /\ i + 7 \in 1 .. Len(w) /\ i + 7 <= Len(w) /\ i + 7 \in 1 .. Len(w) + 1
        /\ i + 8 \in Nat /\ i + 8 \in 1 .. Len(w) /\ i + 8 <= Len(w) /\ i + 8 \in 1 .. Len(w) + 1
        /\ i + 9 \in 1 .. Len(w) + 1
        /\ (i + 1) + 2 = i + 3 /\ (i + 3) + 4 = i + 7 /\ (i + 7) + 1 = i + 8 /\ (i + 8) + 1 = i + 9
    <3> DEFINE n == Len(w)
    <3>1. i + 9 <= n /\ i \in Nat /\ i >= 2 /\ n \in Nat
      BY <1>1, <2>4
    <3> HIDE DEF n
    <3> QED
      BY <3>1 DEF n
  <2>6. /\ BashSteps(w, i, "quoted") /\ BashSteps(w, i + 1, "bare") /\ BashSteps(w, i + 3, "ansi")
        /\ BashSteps(w, i + 7, "ansi") /\ BashSteps(w, i + 8, "bare")
    BY <1>1, <2>5, BashStepIs, Zenon
  <2>7. BashStep(w, i, "quoted") = Step(<<>>, <<i + 1, "bare">>)
    BY <2>4, <2>5, <2>6, <1>m, Zenon DEF BashSteps
  <2>8. BashStep(w, i + 1, "bare") = Step(<<>>, <<i + 3, "ansi">>)
    <3>1. BashStep(w, i + 1, "bare") = Step(<<>>, <<(i + 1) + 2, "ansi">>)
      BY <2>4, <2>5, <2>6, Zenon DEF BashSteps
    <3> QED
      BY <3>1, <2>5, Zenon
  <2>9. BashStep(w, i + 3, "ansi") = Step(<<c>>, <<i + 7, "ansi">>)
    <3>1. BashStep(w, i + 3, "ansi") = Step(<<number(w[(i + 3) + 2], w[(i + 3) + 3])>>, <<(i + 3) + 4, "ansi">>)
      BY <2>4, <2>5, <2>6, <1>m, Zenon DEF BashSteps, number
    <3> QED
      BY <3>1, <2>1, <2>4, <2>5, Zenon
  <2>10. BashStep(w, i + 7, "ansi") = Step(<<>>, <<i + 8, "bare">>)
    <3>1. BashStep(w, i + 7, "ansi") = Step(<<>>, <<(i + 7) + 1, "bare">>)
      BY <2>4, <2>5, <2>6, <1>m, Zenon DEF BashSteps
    <3> QED
      BY <3>1, <2>5, Zenon
  <2>11. BashStep(w, i + 8, "bare") = Step(<<>>, <<i + 9, "quoted">>)
    <3>1. BashStep(w, i + 8, "bare") = Step(<<>>, <<(i + 8) + 1, "quoted">>)
      BY <2>4, <2>5, <2>6, <1>m, Zenon DEF BashSteps
    <3> QED
      BY <3>1, <2>5, Zenon
  <2>12. /\ BashHop(w, i, "quoted", <<>>, i + 1, "bare")
         /\ BashHop(w, i + 1, "bare", <<>>, i + 3, "ansi")
         /\ BashHop(w, i + 3, "ansi", <<c>>, i + 7, "ansi")
         /\ BashHop(w, i + 7, "ansi", <<>>, i + 8, "bare")
         /\ BashHop(w, i + 8, "bare", <<>>, i + 9, "quoted")
    BY <2>5, <2>7, <2>8, <2>9, <2>10, <2>11, <1>m, Zenon DEF BashHop
  <2>13. /\ BashFrom(w, i, "quoted") = <<>> \o BashFrom(w, i + 1, "bare")
         /\ BashFrom(w, i + 1, "bare") = <<>> \o BashFrom(w, i + 3, "ansi")
         /\ BashFrom(w, i + 3, "ansi") = <<c>> \o BashFrom(w, i + 7, "ansi")
         /\ BashFrom(w, i + 7, "ansi") = <<>> \o BashFrom(w, i + 8, "bare")
         /\ BashFrom(w, i + 8, "bare") = <<>> \o BashFrom(w, i + 9, "quoted")
    <3>1. /\ BashFollows(w, i, "quoted", <<>>, i + 1, "bare")
          /\ BashFollows(w, i + 1, "bare", <<>>, i + 3, "ansi")
          /\ BashFollows(w, i + 3, "ansi", <<c>>, i + 7, "ansi")
          /\ BashFollows(w, i + 7, "ansi", <<>>, i + 8, "bare")
          /\ BashFollows(w, i + 8, "bare", <<>>, i + 9, "quoted")
      BY <2>12, <1>h, Zenon DEF BashHopping
    <3> QED
      BY <3>1, <2>5, Zenon DEF BashFollows
  <2>14. BashFrom(w, i + 7, "ansi") = rest
    <3>1. BashFrom(w, i + 8, "bare") = rest
      BY <2>4, <2>13, <1>e, Zenon
    <3> QED
      BY <3>1, <2>13, <1>e, Zenon
  <2>15. BashFrom(w, i, "quoted") = <<>> \o (<<>> \o (got \o rest))
    BY <2>13, <2>14, <1>5, Zenon
  <2>16. <<>> \o (got \o rest) = got \o rest
    <3>1. \A x, y : x \in Seq(S \cup {c}) /\ y \in Seq(S \cup {c}) => <<>> \o (x \o y) = x \o y
      BY ConcatEmptySeq
    <3>2. got \in Seq(S \cup {c})
      BY <1>5
    <3>3. rest \in Seq(S \cup {c})
      <4> HIDE DEF rest
      <4> QED
        BY <1>r
    <3> QED
      BY <3>1, <3>2, <3>3, Zenon
  <2> QED
    BY <2>15, <2>16, Zenon
<1> HIDE DEF rest
<1> QED
  BY <1>2, <1>3, <1>4, <1>5, Zenon DEF BashStands, rest

\* What each piece of a literal stands for.
AllStand(pieces, gots, Stand(_, _)) == Len(gots) = Len(pieces) /\ \A k \in 1 .. Len(pieces) : Stand(pieces[k], gots[k])

\* A piece of a literal is somewhere in it, with the next after it and the closing at the end.
Placed(at, w, pieces, close) ==
    LET n == Len(pieces) IN
    /\ at[1] \in Nat
    /\ \A k \in 1 .. n : Stands(w, at[k], pieces[k]) /\ at[k + 1] = at[k] + Len(pieces[k])
    /\ at[n + 1] \in Nat /\ at[n + 1] >= 2 /\ Len(w) \in Nat
    /\ at[n + 1] + Len(close) = Len(w) + 1
    /\ \A j \in 1 .. Len(close) : w[at[n + 1] + j - 1] = close[j]

\* The pieces of a literal each have their place in it.
LEMMA LiteralPlaces ==
    ASSUME NEW S, NEW open \in Seq(S), NEW pieces \in Seq(Seq(S)), NEW close \in Seq(S), open # <<>>, close # <<>>
    PROVE  LET w == Literal(open, pieces, close)
           IN  /\ w \in Seq(S) /\ \A j \in 1 .. Len(open) : w[j] = open[j]
               /\ \E at : Placed(at, w, pieces, close) /\ at[1] = Len(open) + 1
<1> DEFINE w == Literal(open, pieces, close)
           n == Len(pieces)
<1>1. PICK at : Spread(at, S, w, open, pieces, close)
  BY LiteralSpread
<1> HIDE DEF w
<1>2. /\ w \in Seq(S)
      /\ at \in [1 .. n + 1 -> Nat]
      /\ at[1] = Len(open) + 1 /\ at[n + 1] + Len(close) = Len(w) + 1
      /\ \A k \in 1 .. n : at[k + 1] = at[k] + Len(pieces[k])
      /\ \A k \in 1 .. n : \A j \in 1 .. Len(pieces[k]) : w[at[k] + j - 1] = pieces[k][j]
      /\ \A k \in 1 .. n + 1 : Len(open) < at[k] /\ at[k] <= at[n + 1]
      /\ \A j \in 1 .. Len(open) : w[j] = open[j]
      /\ \A j \in 1 .. Len(close) : w[at[n + 1] + j - 1] = close[j]
  BY <1>1, Zenon DEF Spread
<1>3. /\ n \in Nat /\ Len(open) \in Nat /\ Len(open) >= 1 /\ Len(close) \in Nat /\ Len(close) >= 1
      /\ \A k \in 1 .. n : Len(pieces[k]) \in Nat
  OBVIOUS
<1>4. n + 1 \in 1 .. n + 1 /\ 1 \in 1 .. n + 1 /\ \A k \in 1 .. n : k \in 1 .. n + 1 /\ k + 1 \in 1 .. n + 1
  BY <1>3
<1>5. at[1] \in Nat /\ at[n + 1] \in Nat /\ Len(w) \in Nat
  <2>1. w \in Seq(S)
    BY <1>2
  <2>2. at \in [1 .. n + 1 -> Nat]
    BY <1>2
  <2> QED
    BY <2>1, <2>2, <1>4
<1>6. at[n + 1] >= 2
  <2>1. Len(open) < at[n + 1]
    BY <1>2, <1>4, Zenon
  <2> QED
    BY <2>1, <1>3, <1>5
<1>7. ASSUME NEW k \in 1 .. n PROVE Stands(w, at[k], pieces[k])
  <2> DEFINE a == at[k]
             b == at[k + 1]
             e == at[n + 1]
             l == Len(pieces[k])
             c == Len(close)
             o == Len(open)
  <2>1. a \in Nat /\ b \in Nat /\ o < a /\ b <= e /\ b = a + l /\ e + c = Len(w) + 1
    BY <1>2, <1>4, Zenon
  <2>2. l \in Nat /\ o \in Nat /\ o >= 1 /\ c \in Nat /\ c >= 1 /\ e \in Nat /\ Len(w) \in Nat
    BY <1>3, <1>5
  <2>3. a >= 2 /\ a + l <= Len(w)
    <3> HIDE DEF a, b, e, l, c, o
    <3> QED
      BY <2>1, <2>2
  <2> QED
    BY <2>1, <2>2, <2>3, <1>2, Zenon DEF Stands
<1>8. Placed(at, w, pieces, close)
  BY <1>2, <1>5, <1>6, <1>7, Zenon DEF Placed
<1> QED
  BY <1>2, <1>8, Zenon DEF w

\* bash reads of a literal what its pieces stand for.
LEMMA BashReadsIt ==
    ASSUME NEW S, NEW pieces \in Seq(Seq(S)), NEW gots \in Seq(Seq(S)), Apostrophe \in S, AllStand(pieces, gots, BashStands)
    PROVE  BashReads(Literal(<<Apostrophe>>, pieces, <<Apostrophe>>)) = FlattenSeq(gots)
<1> DEFINE one == <<Apostrophe>>
           w == Literal(one, pieces, one)
           n == Len(pieces)
<1>1. one \in Seq(S) /\ one # <<>> /\ Len(one) = 1 /\ one[1] = Apostrophe
  OBVIOUS
<1>2. /\ w \in Seq(S) /\ \A j \in 1 .. Len(one) : w[j] = one[j]
      /\ \E at : Placed(at, w, pieces, one) /\ at[1] = Len(one) + 1
  BY <1>1, LiteralPlaces, ZenonT(60)
<1> HIDE DEF w
<1>3. PICK at : Placed(at, w, pieces, one) /\ at[1] = 2
  BY <1>1, <1>2
<1>4. /\ \A k \in 1 .. n : Stands(w, at[k], pieces[k]) /\ at[k + 1] = at[k] + Len(pieces[k])
      /\ at[n + 1] \in Nat /\ at[n + 1] >= 2 /\ Len(w) \in Nat
      /\ at[n + 1] + Len(one) = Len(w) + 1
      /\ \A j \in 1 .. Len(one) : w[at[n + 1] + j - 1] = one[j]
  BY <1>3, Zenon DEF Placed
<1>5. Len(gots) = n /\ \A k \in 1 .. n : BashStands(pieces[k], gots[k])
  BY Zenon DEF AllStand
<1>m. "bare" \in Modes /\ "quoted" \in Modes /\ "quoted" # "bare"
  BY DEF Modes
<1> DEFINE end == Len(w)
<1>6. at[n + 1] = end /\ w[end] = Apostrophe /\ w[1] = Apostrophe /\ end >= 2
  BY <1>1, <1>2, <1>4
<1>7. /\ end \in 1 .. Len(w) /\ end <= Len(w) /\ end \in Nat /\ end + 1 \in 1 .. Len(w) + 1 /\ end + 1 > Len(w) /\ end + 1 \in Nat
      /\ 1 \in 1 .. Len(w) /\ 1 <= Len(w) /\ 1 + 1 = 2 /\ 2 \in 1 .. Len(w) + 1 /\ 1 \in Nat /\ end \in 1 .. Len(w) + 1
  BY <1>4, <1>6
<1>8. BashSteps(w, 1, "bare") /\ BashSteps(w, end, "quoted") /\ BashSteps(w, end + 1, "bare")
  BY <1>4, <1>7, BashStepIs
<1> HIDE DEF end
<1>9. BashFrom(w, end + 1, "bare") = <<>> \o <<>>
  <2>1. BashStep(w, end + 1, "bare") = Step(<<>>, <<0, "bare">>)
    BY <1>7, <1>8, Zenon DEF BashSteps
  <2>2. BashFollows(w, end + 1, "bare", <<>>, 0, "bare")
    BY <1>4, <1>7, <1>m, <2>1, BashFromIs, Zenon
  <2> QED
    BY <2>2, Zenon DEF BashFollows
<1>10. BashFrom(w, end, "quoted") = <<>> \o BashFrom(w, end + 1, "bare")
  <2>1. BashStep(w, end, "quoted") = Step(<<>>, <<end + 1, "bare">>)
    BY <1>6, <1>7, <1>8, <1>m, Zenon DEF BashSteps
  <2>2. BashFollows(w, end, "quoted", <<>>, end + 1, "bare")
    BY <1>4, <1>7, <1>m, <2>1, BashFromIs
  <2> QED
    BY <2>2, <1>7, Zenon DEF BashFollows
<1>11. BashFrom(w, 1, "bare") = <<>> \o BashFrom(w, 2, "quoted")
  <2>1. BashStep(w, 1, "bare") = Step(<<>>, <<1 + 1, "quoted">>)
    BY <1>6, <1>7, <1>8, <1>m, Zenon DEF BashSteps
  <2>2. BashStep(w, 1, "bare") = Step(<<>>, <<2, "quoted">>)
    BY <2>1, <1>7, Zenon
  <2>3. BashFollows(w, 1, "bare", <<>>, 2, "quoted")
    <3>1. 1 \in 1 .. Len(w) + 1
      BY <1>4
    <3> QED
      BY <1>4, <1>7, <1>m, <2>2, <3>1, BashFromIs
  <2> QED
    BY <2>3, <1>7, Zenon DEF BashFollows
<1>e. <<>> \o <<>> = <<>> /\ <<>> \in Seq(S)
  OBVIOUS
<1> DEFINE v == [k \in 1 .. n + 1 |-> BashFrom(w, at[k], "quoted")]
<1>12. n \in Nat /\ 1 \in 1 .. n + 1 /\ n + 1 \in 1 .. n + 1 /\ \A k \in 1 .. n : k \in 1 .. n + 1 /\ k + 1 \in 1 .. n + 1
  OBVIOUS
<1>13. \A k \in 1 .. n + 1 : v[k] = BashFrom(w, at[k], "quoted")
  BY Zenon
<1> HIDE DEF v
<1>14. v[n + 1] = <<>>
  BY <1>6, <1>9, <1>10, <1>12, <1>13, <1>e, Zenon
<1>15. ASSUME NEW k \in 1 .. n, v[k + 1] \in Seq(S) PROVE v[k] = gots[k] \o v[k + 1]
  <2> DEFINE a == at[k]
             piece == pieces[k]
             got == gots[k]
  <2>1. Stands(w, a, piece) /\ BashStands(piece, got) /\ at[k + 1] = a + Len(piece)
    BY <1>4, <1>5, Zenon
  <2>2. v[k + 1] = BashFrom(w, a + Len(piece), "quoted") /\ v[k] = BashFrom(w, a, "quoted")
    BY <2>1, <1>12, <1>13, Zenon
  <2>3. BashFrom(w, a + Len(piece), "quoted") \in Seq(S)
    BY <2>2, <1>15, Zenon
  <2> HIDE DEF a, piece, got
  <2>4. BashFrom(w, a, "quoted") = got \o BashFrom(w, a + Len(piece), "quoted")
    BY <2>1, <2>3, <1>4, BashPasses, SMTT(60)
  <2> QED
    BY <2>2, <2>4, Zenon DEF got
<1>16. FromTheRight(v, S, gots, <<>>)
  BY <1>5, <1>14, <1>15, Zenon DEF FromTheRight
<1>17. v[1] = FlattenSeq(gots) \o <<>>
  BY <1>16, <1>e, RightIsFlat, Zenon
<1>18. FlattenSeq(gots) \o <<>> = FlattenSeq(gots) /\ <<>> \o FlattenSeq(gots) = FlattenSeq(gots)
  <2>1. FlattenSeq(gots) \in Seq(S)
    BY FlattenTyped
  <2> QED
    BY <2>1, ConcatEmptySeq
<1>19. v[1] = BashFrom(w, 2, "quoted")
  BY <1>3, <1>12, <1>13, Zenon
<1>20. BashReads(w) = BashFrom(w, 1, "bare")
  BY Zenon DEF BashReads, BashFrom, BashPlaces, Modes
<1> QED
  BY <1>11, <1>17, <1>18, <1>19, <1>20, Zenon DEF w

-----------------------------------------------------------------------------
\* A function on 1 .. n is a sequence.
LEMMA SequenceIs ==
    ASSUME NEW S, NEW n \in Nat, NEW f \in [1 .. n -> S]
    PROVE  f \in Seq(S) /\ Len(f) = n
OBVIOUS

\* What the literals of a text are made of.
Alphabet(X) == X \cup Plain \cup Control \cup {Broken}

\* The marks, the letters and the digits of the escapes are plain.
LEMMA PlainHas ==
    /\ {Apostrophe, QuoteMark, Backslash, Dollar, Circumflex, "backtick", "n", "r", "t", "u", "x"} \subseteq Plain
    /\ \A n \in 0 .. 15 : Digit(Hexadecimal, n) \in Plain
    /\ \A n \in 0 .. 9 : Digit(Decimal, n) \in Plain
<1>1. DOMAIN Hexadecimal = 1 .. 16 /\ \A i \in 1 .. 10 : Decimal[i] = Hexadecimal[i]
  BY DEF Decimal, Hexadecimal
<1>2. \A i \in 1 .. 16 : Hexadecimal[i] \in Plain
  BY <1>1, Zenon DEF Plain
<1>3. \A n \in 0 .. 15 : n + 1 \in 1 .. 16
  OBVIOUS
<1>4. \A n \in 0 .. 9 : n + 1 \in 1 .. 10 /\ n + 1 \in 1 .. 16
  OBVIOUS
<1>5. \A n \in 0 .. 15 : Digit(Hexadecimal, n) \in Plain
  BY <1>2, <1>3, Zenon DEF Digit
<1>6. \A n \in 0 .. 9 : Digit(Decimal, n) \in Plain
  BY <1>1, <1>2, <1>4, Zenon DEF Digit
<1> QED
  BY <1>5, <1>6, Zenon DEF Plain

\* The two digits of a code below 128, and its three decimal ones.
LEMMA CodeDigits ==
    ASSUME NEW c \in Control
    PROVE  /\ Code[c] \in 0 .. 127
           /\ Code[c] \div 16 \in 0 .. 15 /\ Code[c] % 16 \in 0 .. 15
           /\ Code[c] \div 100 \in 0 .. 9 /\ (Code[c] \div 10) % 10 \in 0 .. 9 /\ Code[c] % 10 \in 0 .. 9
<1>1. Code[c] \in 0 .. 127
  BY QuotingAssumption
<1> QED
  BY <1>1

\* Each character of the line stands in bash's literal as itself.
LEMMA BashBufferStands ==
    ASSUME NEW X, NEW c \in X
    PROVE  BashBufferEscape(c) \in Seq(Alphabet(X)) /\ BashStands(BashBufferEscape(c), <<c>>)
<1> DEFINE S == Alphabet(X)
           h == Digit(Hexadecimal, Code[c] \div 16)
           l == Digit(Hexadecimal, Code[c] % 16)
<1>1. Plain \subseteq S /\ c \in S
  BY DEF Alphabet
<1>2. Apostrophe \in S /\ Backslash \in S /\ Dollar \in S /\ "x" \in S
  BY <1>1, PlainHas, Zenon
<1>3. CASE c = Apostrophe
  <2>1. BashBufferEscape(c) = <<Apostrophe, Backslash, Apostrophe, Apostrophe>>
    BY <1>3, NotPlain, Zenon DEF BashBufferEscape, Unsafe
  <2>2. <<Apostrophe, Backslash, Apostrophe, Apostrophe>> \in Seq(S)
    <3> HIDE DEF S
    <3> QED
      BY <1>2
  <2> QED
    BY <1>3, <2>1, <2>2, Zenon DEF BashStands
<1>4. CASE c \in Control
  <2>1. c # Apostrophe
    BY <1>4, NotPlain, Zenon DEF Unsafe
  <2>2. BashBufferEscape(c) = <<Apostrophe, Dollar, Apostrophe, Backslash, "x", h, l, Apostrophe, Apostrophe>>
    BY <1>4, <2>1, Zenon DEF BashBufferEscape
  <2>3. h \in S /\ l \in S
    <3>1. Code[c] \div 16 \in 0 .. 15 /\ Code[c] % 16 \in 0 .. 15
      BY <1>4, CodeDigits
    <3> QED
      BY <3>1, <1>1, PlainHas, Zenon
  <2>4. <<Apostrophe, Dollar, Apostrophe, Backslash, "x", h, l, Apostrophe, Apostrophe>> \in Seq(S)
    <3> HIDE DEF S, h, l
    <3> QED
      BY <1>2, <2>3
  <2>5. BashBufferEscape(c) \in Seq(S)
    BY <2>2, <2>4, Zenon
  <2>6. BashStands(BashBufferEscape(c), <<c>>)
    BY <1>4, <2>2, Zenon DEF BashStands
  <2> QED
    BY <2>5, <2>6, Zenon
<1>5. CASE c # Apostrophe /\ c \notin Control
  <2>1. BashBufferEscape(c) = <<c>>
    BY <1>5, Zenon DEF BashBufferEscape
  <2>2. <<c>> \in Seq(S)
    BY <1>1, SingleTyped
  <2>3. BashStands(<<c>>, <<c>>)
    BY <1>5, Zenon DEF BashStands
  <2> QED
    BY <2>1, <2>2, <2>3, Zenon
<1> QED
  BY <1>3, <1>4, <1>5, Zenon

\* bash and zsh read the line that was quoted for them.
LEMMA BashBufferRead ==
    ASSUME NEW X, NEW t \in Seq(X)
    PROVE  BashReads(BashQuoteBuffer(t)) = t
<1> DEFINE S == Alphabet(X)
           pieces == [i \in DOMAIN t |-> BashBufferEscape(t[i])]
           gots == [i \in DOMAIN t |-> <<t[i]>>]
           n == Len(t)
<1>1. n \in Nat /\ DOMAIN t = 1 .. n /\ \A i \in 1 .. n : t[i] \in X
  OBVIOUS
<1>2. \A c \in X : BashBufferEscape(c) \in Seq(S) /\ BashStands(BashBufferEscape(c), <<c>>) /\ <<c>> \in Seq(S)
  <2>1. \A c \in X : c \in S
    BY DEF Alphabet
  <2>2. \A c \in X : <<c>> \in Seq(S)
    <3> HIDE DEF S
    <3> QED
      BY <2>1, SingleTyped
  <2> QED
    BY <2>2, BashBufferStands, Zenon
<1>3. /\ pieces \in [1 .. n -> Seq(S)] /\ gots \in [1 .. n -> Seq(S)]
      /\ \A i \in 1 .. n : BashStands(pieces[i], gots[i])
  <2> HIDE DEF S
  <2> QED
    BY <1>1, <1>2, Zenon
<1>4. BashQuoteBuffer(t) = Literal(<<Apostrophe>>, pieces, <<Apostrophe>>)
  BY Zenon DEF BashQuoteBuffer
<1>5. Apostrophe \in S
  BY PlainHas, Zenon DEF Alphabet
<1>6. FlattenSeq(gots) = t
  BY FlatSingles
<1> HIDE DEF pieces, gots, S
<1>7. pieces \in Seq(Seq(S)) /\ gots \in Seq(Seq(S)) /\ Len(pieces) = n /\ Len(gots) = n
  BY <1>1, <1>3, SequenceIs, Zenon
<1>8. AllStand(pieces, gots, BashStands)
  BY <1>3, <1>7, Zenon DEF AllStand
<1>9. BashReads(Literal(<<Apostrophe>>, pieces, <<Apostrophe>>)) = FlattenSeq(gots)
  BY <1>5, <1>7, <1>8, BashReadsIt
<1> QED
  BY <1>4, <1>6, <1>9, Zenon

\* bash and zsh read of a path what is not dropped from it.
LEMMA BashPathRead ==
    ASSUME NEW X, NEW t \in Seq(X)
    PROVE  BashReads(BashQuoteString(t)) = Without(t, Control \cup LineSeparators)
<1> DEFINE S == Alphabet(X)
           D == Control \cup LineSeparators
           pieces == [i \in DOMAIN t |-> BashEscape(t[i])]
           gots == [i \in DOMAIN t |-> IF t[i] \in D THEN <<>> ELSE <<t[i]>>]
           got(c) == IF c \in D THEN <<>> ELSE <<c>>
           n == Len(t)
<1>1. n \in Nat /\ DOMAIN t = 1 .. n /\ \A i \in 1 .. n : t[i] \in X
  OBVIOUS
<1>5. Apostrophe \in S /\ Backslash \in S /\ \A c \in X : c \in S
  BY PlainHas, Zenon DEF Alphabet
<1>6. <<>> \in Seq(S) /\ <<Apostrophe, Backslash, Apostrophe, Apostrophe>> \in Seq(S) /\ \A c \in X : <<c>> \in Seq(S)
  <2> HIDE DEF S
  <2> QED
    BY <1>5
<1>2. ASSUME NEW c \in X PROVE BashEscape(c) \in Seq(S) /\ BashStands(BashEscape(c), got(c)) /\ got(c) \in Seq(S)
  <2>1. c \in D => c # Apostrophe
    BY NotPlain, Zenon DEF Unsafe
  <2>2. CASE c \in D
    <3>1. BashEscape(c) = <<>> /\ got(c) = <<>>
      BY <2>1, <2>2, Zenon DEF BashEscape
    <3> QED
      BY <3>1, <1>6, Zenon DEF BashStands
  <2>3. CASE c = Apostrophe
    <3>1. BashEscape(c) = <<Apostrophe, Backslash, Apostrophe, Apostrophe>> /\ got(c) = <<Apostrophe>>
      BY <2>1, <2>3, Zenon DEF BashEscape
    <3>2. BashStands(<<Apostrophe, Backslash, Apostrophe, Apostrophe>>, <<Apostrophe>>)
      BY Zenon DEF BashStands
    <3> QED
      BY <3>1, <3>2, <2>3, <1>6, Zenon
  <2>4. CASE c # Apostrophe /\ c \notin D
    <3>1. BashEscape(c) = <<c>> /\ got(c) = <<c>>
      BY <2>4, Zenon DEF BashEscape
    <3>2. BashStands(<<c>>, <<c>>)
      BY <2>4, Zenon DEF BashStands
    <3> QED
      BY <3>1, <3>2, <1>6, Zenon
  <2> QED
    BY <2>2, <2>3, <2>4, Zenon
<1>3. /\ pieces \in [1 .. n -> Seq(S)] /\ gots \in [1 .. n -> Seq(S)]
      /\ \A i \in 1 .. n : BashStands(pieces[i], gots[i])
  <2> HIDE DEF S
  <2>1. \A i \in 1 .. n : pieces[i] = BashEscape(t[i]) /\ gots[i] = got(t[i])
    BY <1>1
  <2> HIDE DEF got
  <2>2. \A i \in 1 .. n : pieces[i] \in Seq(S) /\ gots[i] \in Seq(S) /\ BashStands(pieces[i], gots[i])
    BY <1>1, <1>2, <2>1, Zenon
  <2> QED
    BY <1>1, <2>2, Zenon
<1>4. BashQuoteString(t) = Literal(<<Apostrophe>>, pieces, <<Apostrophe>>)
  BY Zenon DEF BashQuoteString
<1>7. FlattenSeq(gots) = Without(t, D)
  BY Zenon DEF Without
<1> HIDE DEF pieces, gots, S
<1>8. pieces \in Seq(Seq(S)) /\ gots \in Seq(Seq(S)) /\ Len(pieces) = n /\ Len(gots) = n
  BY <1>1, <1>3, SequenceIs, Zenon
<1>9. AllStand(pieces, gots, BashStands)
  BY <1>3, <1>8, Zenon DEF AllStand
<1>10. BashReads(Literal(<<Apostrophe>>, pieces, <<Apostrophe>>)) = FlattenSeq(gots)
  BY <1>5, <1>8, <1>9, BashReadsIt
<1> QED
  BY <1>4, <1>7, <1>10, Zenon

-----------------------------------------------------------------------------
\* A text that is gone through from left to right.
GoesRight(steps, a, b) ==
    /\ a \in Nat /\ b \in Nat /\ DOMAIN steps = a .. b
    /\ \A i \in a .. b : steps[i].next \in Nat /\ (steps[i].next = 0 \/ i < steps[i].next)

Follows(steps, i, out, j) ==
    /\ j \in DOMAIN steps => Scan(steps, i) = out \o Scan(steps, j)
    /\ j \notin DOMAIN steps => Scan(steps, i) = out \o <<>>

Following(steps) == \A i, out, j : i \in DOMAIN steps /\ steps[i] = Step(out, j) => Follows(steps, i, out, j)

\* What comes of a place is its own and what comes of the place it goes on to.
LEMMA ForwardIs ==
    ASSUME NEW steps, NEW a, NEW b, GoesRight(steps, a, b), a > 0
    PROVE  Following(steps)
<1>1. /\ a \in Nat /\ b \in Nat /\ DOMAIN steps = a .. b
      /\ \A i \in a .. b : steps[i].next \in Nat /\ (steps[i].next = 0 \/ i < steps[i].next)
  BY Zenon DEF GoesRight
<1> DEFINE rank == [i \in a .. b |-> b - i]
<1>2. \A i \in a .. b : i \in Nat /\ i > 0 /\ b - i \in 0 .. b
  BY <1>1
<1>3. rank \in [DOMAIN steps -> 0 .. b]
  BY <1>1, <1>2
<1>4. ASSUME NEW i \in DOMAIN steps, steps[i].next \in DOMAIN steps PROVE rank[steps[i].next] < rank[i]
  <2> DEFINE j == steps[i].next
  <2>1. i \in a .. b /\ j \in a .. b /\ (j = 0 \/ i < j)
    BY <1>1, <1>4, Zenon
  <2>2. rank[i] = b - i /\ rank[j] = b - j
    BY <2>1
  <2> HIDE DEF j, rank
  <2>3. rank[j] < rank[i]
    BY <1>1, <1>2, <2>1, <2>2
  <2> QED
    BY <2>3 DEF j
<1> HIDE DEF rank
<1>5. Descends(steps, rank, b)
  BY <1>1, <1>3, <1>4, Zenon DEF Descends
<1>6. \A x \in DOMAIN steps :
         Scan(steps, x) = steps[x].out \o (IF steps[x].next \in DOMAIN steps THEN Scan(steps, steps[x].next) ELSE <<>>)
  BY <1>5, ScanIs, Zenon
<1> SUFFICES ASSUME NEW i, NEW out, NEW j, i \in DOMAIN steps, steps[i] = Step(out, j) PROVE Follows(steps, i, out, j)
  BY Zenon DEF Following
<1>7. steps[i].out = out /\ steps[i].next = j
  BY DEF Step
<1> QED
  BY <1>6, <1>7, Zenon DEF Follows

\* How many digits come after a backslash.
LEMMA LuaDigitsAre ==
    ASSUME NEW w, Len(w) \in Nat, NEW i \in 1 .. Len(w)
    PROVE  LET digits == { n \in 0 .. 3 : i + n <= Len(w) /\ \A k \in 1 .. n : IsDigit(Decimal, w[i + k]) }
           IN  LuaDigits(w, i) \in digits /\ \A m \in digits : m <= LuaDigits(w, i)
<1> DEFINE Good(n) == i + n <= Len(w) /\ \A k \in 1 .. n : IsDigit(Decimal, w[i + k])
           digits == { n \in 0 .. 3 : Good(n) }
<1>1. 0 \in digits
  <2>1. i + 0 <= Len(w) /\ \A k \in 1 .. 0 : FALSE
    OBVIOUS
  <2>2. Good(0)
    BY <2>1, Zenon
  <2> HIDE DEF Good
  <2> QED
    BY <2>2
<1>2. \E n \in digits : \A m \in digits : m <= n
  <2> HIDE DEF Good
  <2>1. CASE Good(3)
    BY <2>1
  <2>2. CASE ~Good(3) /\ Good(2)
    <3>1. \A m \in digits : m <= 2
      BY <2>2
    <3> QED
      BY <2>2, <3>1
  <2>3. CASE ~Good(3) /\ ~Good(2) /\ Good(1)
    <3>1. \A m \in digits : m <= 1
      BY <2>3
    <3> QED
      BY <2>3, <3>1
  <2>4. CASE ~Good(3) /\ ~Good(2) /\ ~Good(1)
    <3>1. \A m \in digits : m <= 0
      BY <2>4
    <3> QED
      BY <1>1, <3>1
  <2> QED
    BY <2>1, <2>2, <2>3, <2>4
<1>3. LuaDigits(w, i) = CHOOSE n \in digits : \A m \in digits : m <= n
  BY Zenon DEF LuaDigits
<1> HIDE DEF digits
<1>4. LuaDigits(w, i) \in digits /\ \A m \in digits : m <= LuaDigits(w, i)
  BY <1>2, <1>3, Zenon
<1> QED
  BY <1>4 DEF digits

\* What Lua, nu and JSON do at each place of a double-quoted text.
DoubleSteps(w, i, language) ==
    LET coded  == language = "lua" /\ LuaDigits(w, i) > 0
        hex    == language = "json" /\ w[i + 1] = "u"
        breaks == w[i] = "lf" /\ language # "nu"
    IN  /\ i > Len(w) => DoubleStep(w, i, language) = Step(<<Broken>>, 0)
        /\ i <= Len(w) /\ w[i] = QuoteMark => DoubleStep(w, i, language) = EndsAt(w, i)
        /\ i <= Len(w) /\ breaks => DoubleStep(w, i, language) = Step(<<Broken>>, 0)
        /\ i < Len(w) /\ w[i] = Backslash /\ coded =>
              DoubleStep(w, i, language) =
                 Step(<<Character(LuaNumber(w, i, LuaDigits(w, i)))>>, i + LuaDigits(w, i) + 1)
        /\ i < Len(w) /\ w[i] = Backslash /\ hex =>
              DoubleStep(w, i, language) =
                 Step(<<Character(16 * Value(Hexadecimal, w[i + 2]) + Value(Hexadecimal, w[i + 3]))>>, i + 4)
        /\ i < Len(w) /\ w[i] = Backslash /\ ~coded /\ ~hex => DoubleStep(w, i, language) = Step(<<Named(w[i + 1])>>, i + 2)
        /\ i <= Len(w) /\ w[i] # QuoteMark /\ ~breaks /\ ~(i < Len(w) /\ w[i] = Backslash) =>
              DoubleStep(w, i, language) = Step(<<w[i]>>, i + 1)

\* These are the steps, whatever the place.
LEMMA DoubleStepIs == ASSUME NEW w, Len(w) \in Nat, NEW i \in Nat, NEW language PROVE DoubleSteps(w, i, language)
<1> DEFINE D == DoubleStep(w, i, language)
           coded == language = "lua" /\ LuaDigits(w, i) > 0
           hex == language = "json" /\ w[i + 1] = "u"
           breaks == w[i] = "lf" /\ language # "nu"
           lua == Step(<<Character(LuaNumber(w, i, LuaDigits(w, i)))>>, i + LuaDigits(w, i) + 1)
           json == Step(<<Character(16 * Value(Hexadecimal, w[i + 2]) + Value(Hexadecimal, w[i + 3]))>>, i + 4)
           escaped == IF coded THEN lua ELSE IF hex THEN json ELSE Step(<<Named(w[i + 1])>>, i + 2)
           within == IF w[i] = QuoteMark THEN EndsAt(w, i)
                     ELSE IF breaks THEN Step(<<Broken>>, 0)
                     ELSE IF i < Len(w) /\ w[i] = Backslash THEN escaped
                     ELSE Step(<<w[i]>>, i + 1)
<1>1. (i > Len(w) <=> ~(i <= Len(w))) /\ (i < Len(w) => i <= Len(w))
  OBVIOUS
<1>2. QuoteMark # Backslash /\ QuoteMark # "lf" /\ Backslash # "lf" /\ ~(coded /\ hex)
  <2>1. "lua" # "json"
    OBVIOUS
  <2> QED
    BY <2>1, SymbolsDiffer, Zenon
<1>3. i > Len(w) => D = Step(<<Broken>>, 0)
  BY <1>1, Zenon DEF DoubleStep
<1>4. i < Len(w) /\ w[i] = Backslash => D = escaped
  BY <1>1, <1>2, Zenon DEF DoubleStep
<1>5. i <= Len(w) /\ ~(i < Len(w) /\ w[i] = Backslash) => D = within
  <2> HIDE DEF escaped
  <2> QED
    BY <1>1, <1>2, Zenon DEF DoubleStep
<1> HIDE DEF D, coded, hex, breaks, lua, json
<1> QED
  BY <1>1, <1>2, <1>3, <1>4, <1>5, Zenon DEF D, coded, hex, breaks, lua, json, DoubleSteps

DoubleFrom(w, language, i) == Scan([k \in 2 .. Len(w) + 1 |-> DoubleStep(w, k, language)], i)
DoubleFollows(w, language, i, out, j) ==
    /\ j \in 2 .. Len(w) + 1 => DoubleFrom(w, language, i) = out \o DoubleFrom(w, language, j)
    /\ j = 0 => DoubleFrom(w, language, i) = out \o <<>>
DoubleFollowing(w, language) ==
    \A i, out, j : i \in 2 .. Len(w) + 1 /\ DoubleStep(w, i, language) = Step(out, j) => DoubleFollows(w, language, i, out, j)

\* It goes through the text from left to right.
LEMMA DoubleFromIs == ASSUME NEW w, Len(w) \in Nat, NEW language PROVE DoubleFollowing(w, language)
<1> DEFINE steps == [k \in 2 .. Len(w) + 1 |-> DoubleStep(w, k, language)]
           e == Len(w) + 1
<1>1. DOMAIN steps = 2 .. e /\ \A i \in 2 .. e : steps[i] = DoubleStep(w, i, language)
  OBVIOUS
<1>2. e \in Nat /\ 2 \in Nat /\ 2 > 0
  OBVIOUS
<1>3. ASSUME NEW i \in 2 .. e PROVE steps[i].next \in Nat /\ (steps[i].next = 0 \/ i < steps[i].next)
  <2> DEFINE D == DoubleStep(w, i, language)
             goes(j) == \E out : D = Step(out, j)
             coded == language = "lua" /\ LuaDigits(w, i) > 0
             hex == language = "json" /\ w[i + 1] = "u"
             breaks == w[i] = "lf" /\ language # "nu"
             far == i + LuaDigits(w, i) + 1
  <2>1. i \in Nat /\ (i > Len(w) \/ i <= Len(w)) /\ (i <= Len(w) => i \in 1 .. Len(w)) /\ (i < Len(w) => i <= Len(w))
    BY <1>2
  <2>2. DoubleSteps(w, i, language)
    BY <2>1, DoubleStepIs
  <2>3. CASE i > Len(w)
    <3>1. D = Step(<<Broken>>, 0)
      BY <2>2, <2>3, Zenon DEF DoubleSteps
    <3> QED
      BY <3>1, <1>1 DEF Step
  <2>4. CASE i <= Len(w) /\ w[i] = QuoteMark
    <3>1. D = EndsAt(w, i)
      BY <2>2, <2>4, Zenon DEF DoubleSteps
    <3> QED
      BY <3>1, <1>1 DEF Step, EndsAt
  <2>5. CASE i <= Len(w) /\ breaks
    <3>1. D = Step(<<Broken>>, 0)
      BY <2>2, <2>5, Zenon DEF DoubleSteps
    <3> QED
      BY <3>1, <1>1 DEF Step
  <2>6. CASE i < Len(w) /\ w[i] = Backslash /\ coded
    <3>1. D = Step(<<Character(LuaNumber(w, i, LuaDigits(w, i)))>>, far)
      BY <2>2, <2>6, Zenon DEF DoubleSteps
    <3>2. LuaDigits(w, i) \in Nat
      <4>1. LuaDigits(w, i) \in { n \in 0 .. 3 : i + n <= Len(w) /\ \A k \in 1 .. n : IsDigit(Decimal, w[i + k]) }
        BY <2>1, <2>6, LuaDigitsAre
      <4> QED
        BY <4>1
    <3>3. far \in Nat /\ i < far
      BY <3>2, <2>1
    <3>4. D.next = far
      BY <3>1 DEF Step
    <3> QED
      BY <3>3, <3>4, <1>1, Zenon
  <2>7. CASE i < Len(w) /\ w[i] = Backslash /\ hex
    <3>1. D = Step(<<Character(16 * Value(Hexadecimal, w[i + 2]) + Value(Hexadecimal, w[i + 3]))>>, i + 4)
      BY <2>2, <2>7, Zenon DEF DoubleSteps
    <3>2. D.next = i + 4
      BY <3>1 DEF Step
    <3> QED
      BY <3>2, <1>1, <2>1
  <2>8. CASE i < Len(w) /\ w[i] = Backslash /\ ~coded /\ ~hex
    <3>1. D = Step(<<Named(w[i + 1])>>, i + 2)
      BY <2>2, <2>8, Zenon DEF DoubleSteps
    <3>2. D.next = i + 2
      BY <3>1 DEF Step
    <3> QED
      BY <3>2, <1>1, <2>1
  <2>9. CASE i <= Len(w) /\ w[i] # QuoteMark /\ ~breaks /\ ~(i < Len(w) /\ w[i] = Backslash)
    <3>1. D = Step(<<w[i]>>, i + 1)
      BY <2>2, <2>9, Zenon DEF DoubleSteps
    <3>2. D.next = i + 1
      BY <3>1 DEF Step
    <3> QED
      BY <3>2, <1>1, <2>1
  <2> HIDE DEF coded, hex, breaks
  <2> QED
    BY <2>1, <2>3, <2>4, <2>5, <2>6, <2>7, <2>8, <2>9, Zenon
<1> HIDE DEF steps, e
<1>4. GoesRight(steps, 2, e)
  BY <1>1, <1>2, <1>3, Zenon DEF GoesRight
<1>5. Following(steps)
  BY <1>2, <1>4, ForwardIs
<1>6. 0 \notin 2 .. e
  OBVIOUS
<1> SUFFICES ASSUME NEW i, NEW out, NEW j, i \in 2 .. e, DoubleStep(w, i, language) = Step(out, j)
             PROVE  DoubleFollows(w, language, i, out, j)
  BY Zenon DEF DoubleFollowing, e
<1>7. Follows(steps, i, out, j)
  BY <1>1, <1>5, Zenon DEF Following
<1> QED
  BY <1>1, <1>6, <1>7, Zenon DEF Follows, DoubleFollows, DoubleFrom, steps, e

\* What of a literal stands for what, within its quotes.
DoubleStands(piece, got, language) ==
    \/ piece = <<>> /\ got = <<>>
    \/ \E c : /\ c # QuoteMark /\ c # Backslash /\ (c = "lf" => language = "nu")
              /\ piece = <<c>> /\ got = <<c>>
    \/ \E c : /\ (language = "lua" => ~IsDigit(Decimal, c)) /\ (language = "json" => c # "u")
              /\ piece = <<Backslash, c>> /\ got = <<Named(c)>>
    \/ \E c \in Control :
          /\ language = "lua" /\ got = <<c>>
          /\ piece = <<Backslash, Digit(Decimal, Code[c] \div 100), Digit(Decimal, (Code[c] \div 10) % 10), Digit(Decimal, Code[c] % 10)>>
    \/ \E c \in Control :
          /\ language = "json" /\ got = <<c>>
          /\ piece = <<Backslash, "u", Digit(Hexadecimal, Code[c] \div 16), Digit(Hexadecimal, Code[c] % 16)>>

\* The three decimal digits of a code are its code.
LEMMA ThreeDigits ==
    ASSUME NEW c \in Control
    PROVE  Character(100 * Value(Decimal, Digit(Decimal, Code[c] \div 100)) + 10 * Value(Decimal, Digit(Decimal, (Code[c] \div 10) % 10))
                        + Value(Decimal, Digit(Decimal, Code[c] % 10))) = c
<1> DEFINE n == Code[c]
           h == n \div 100
           t == (n \div 10) % 10
           u == n % 10
<1>1. n \in 0 .. 127
  BY QuotingAssumption
<1>2. h \in 0 .. 9 /\ t \in 0 .. 9 /\ u \in 0 .. 9 /\ 100 * h + 10 * t + u = n
  <2> HIDE DEF n
  <2> QED
    BY <1>1
<1>3. Value(Decimal, Digit(Decimal, h)) = h /\ Value(Decimal, Digit(Decimal, t)) = t /\ Value(Decimal, Digit(Decimal, u)) = u
  BY <1>2, DecimalIs
<1>4. Character(n) = c
  BY CharacterIs
<1> QED
  BY <1>2, <1>3, <1>4, Zenon

\* From a piece the reader gets to the next, and what it reads is what the piece stands for.
DoublePast(w, language, i, piece, got) == DoubleFrom(w, language, i) = got \o DoubleFrom(w, language, i + Len(piece))

\* From a piece a shell gets to the next, and what it reads is what the piece stands for.
LEMMA DoublePasses ==
    ASSUME NEW S, NEW w, Len(w) \in Nat, NEW i, NEW piece, NEW got, NEW language,
           Stands(w, i, piece), DoubleStands(piece, got, language),
           DoubleFrom(w, language, i + Len(piece)) \in Seq(S)
    PROVE  DoublePast(w, language, i, piece, got)
<1> DEFINE rest == DoubleFrom(w, language, i + Len(piece))
<1>1. /\ i \in Nat /\ i >= 2
      /\ Len(piece) \in Nat /\ i + Len(piece) <= Len(w)
      /\ \A j \in 1 .. Len(piece) : w[i + j - 1] = piece[j]
  BY Zenon DEF Stands
<1>h. DoubleFollowing(w, language)
  BY DoubleFromIs
<1>s. DoubleSteps(w, i, language)
  BY <1>1, DoubleStepIs
<1>d. Backslash # QuoteMark /\ Backslash # "lf"
  BY SymbolsDiffer, Zenon
<1>f. ASSUME NEW out, NEW j, j = i + Len(piece), Len(piece) > 0, DoubleStep(w, i, language) = Step(out, j)
      PROVE  DoubleFrom(w, language, i) = out \o rest
  <2>1. i \in 2 .. Len(w) + 1 /\ j \in 2 .. Len(w) + 1
    BY <1>1, <1>f
  <2>2. DoubleFollows(w, language, i, out, j)
    BY <2>1, <1>f, <1>h, Zenon DEF DoubleFollowing
  <2> QED
    BY <2>1, <2>2, <1>f, Zenon DEF DoubleFollows
<1> SUFFICES DoubleFrom(w, language, i) = got \o rest
  BY Zenon DEF DoublePast
<1>2. CASE piece = <<>> /\ got = <<>>
  <2>1. i + Len(piece) = i
    BY <1>1, <1>2
  <2>2. <<>> \o rest = rest
    <3>1. rest \in Seq(S)
      OBVIOUS
    <3> HIDE DEF rest
    <3> QED
      BY <3>1, ConcatEmptySeq
  <2> QED
    BY <2>1, <2>2, <1>2, Zenon
<1> HIDE DEF rest
<1>3. ASSUME NEW c, c # QuoteMark, c # Backslash, c = "lf" => language = "nu", piece = <<c>>, got = <<c>>
      PROVE  DoubleFrom(w, language, i) = got \o rest
  <2>1. Len(piece) = 1 /\ piece[1] = c
    BY <1>3
  <2>2. w[i] = c /\ i <= Len(w) /\ i + 1 = i + Len(piece) /\ Len(piece) > 0
    BY <1>1, <2>1
  <2>3. DoubleStep(w, i, language) = Step(<<w[i]>>, i + 1)
    BY <1>3, <1>s, <2>2, Zenon DEF DoubleSteps
  <2> QED
    BY <2>2, <2>3, <1>3, <1>f, Zenon
<1>4. ASSUME NEW c, language = "lua" => ~IsDigit(Decimal, c), language = "json" => c # "u", piece = <<Backslash, c>>, got = <<Named(c)>>
      PROVE  DoubleFrom(w, language, i) = got \o rest
  <2>1. Len(piece) = 2 /\ piece[1] = Backslash /\ piece[2] = c
    BY <1>4
  <2>2. w[i] = Backslash /\ w[i + 1] = c /\ i < Len(w) /\ i + 2 = i + Len(piece) /\ Len(piece) > 0 /\ i \in 1 .. Len(w)
    BY <1>1, <2>1
  <2>3. language = "lua" => ~(LuaDigits(w, i) > 0)
    <3> SUFFICES ASSUME language = "lua", LuaDigits(w, i) > 0 PROVE FALSE
      OBVIOUS
    <3> DEFINE d == LuaDigits(w, i)
    <3>1. d \in 0 .. 3 /\ \A k \in 1 .. d : IsDigit(Decimal, w[i + k])
      <4>1. d \in { n \in 0 .. 3 : i + n <= Len(w) /\ \A k \in 1 .. n : IsDigit(Decimal, w[i + k]) }
        BY <2>2, LuaDigitsAre
      <4> QED
        BY <4>1, Zenon
    <3> HIDE DEF d
    <3>2. d > 0
      BY DEF d
    <3>3. 1 \in 1 .. d
      BY <3>1, <3>2
    <3> QED
      BY <3>1, <3>3, <2>2, <1>4, Zenon
  <2>4. DoubleStep(w, i, language) = Step(<<Named(w[i + 1])>>, i + 2)
    BY <1>4, <1>s, <2>2, <2>3, Zenon DEF DoubleSteps
  <2> QED
    BY <2>2, <2>4, <1>4, <1>f, Zenon
<1>5. ASSUME NEW c \in Control, language = "lua", got = <<c>>,
             piece = <<Backslash, Digit(Decimal, Code[c] \div 100), Digit(Decimal, (Code[c] \div 10) % 10), Digit(Decimal, Code[c] % 10)>>
      PROVE  DoubleFrom(w, language, i) = got \o rest
  <2> DEFINE h == Digit(Decimal, Code[c] \div 100)
             t == Digit(Decimal, (Code[c] \div 10) % 10)
             u == Digit(Decimal, Code[c] % 10)
             d == LuaDigits(w, i)
  <2>1. Character(100 * Value(Decimal, h) + 10 * Value(Decimal, t) + Value(Decimal, u)) = c
    BY ThreeDigits
  <2>2. IsDigit(Decimal, h) /\ IsDigit(Decimal, t) /\ IsDigit(Decimal, u)
    BY CodeDigits, DecimalIs, Zenon
  <2>3. piece = <<Backslash, h, t, u>>
    BY <1>5
  <2> HIDE DEF h, t, u
  <2>4. Len(piece) = 4 /\ piece[1] = Backslash /\ piece[2] = h /\ piece[3] = t /\ piece[4] = u
    BY <2>3
  <2>5. /\ w[i] = Backslash /\ w[i + 1] = h /\ w[i + 2] = t /\ w[i + 3] = u
        /\ i < Len(w) /\ i + 4 = i + Len(piece) /\ Len(piece) > 0 /\ i \in 1 .. Len(w) /\ i + 3 <= Len(w)
    BY <1>1, <2>4
  <2>6. d = 3
    <3> DEFINE digits == { n \in 0 .. 3 : i + n <= Len(w) /\ \A k \in 1 .. n : IsDigit(Decimal, w[i + k]) }
    <3>1. d \in digits /\ \A m \in digits : m <= d
      BY <2>5, LuaDigitsAre, Zenon
    <3>2. 3 \in digits
      <4>1. \A k \in 1 .. 3 : k = 1 \/ k = 2 \/ k = 3
        OBVIOUS
      <4>2. \A k \in 1 .. 3 : IsDigit(Decimal, w[i + k])
        BY <4>1, <2>2, <2>5, Zenon
      <4> QED
        BY <4>2, <2>5
    <3>3. d \in 0 .. 3 /\ 3 <= d
      BY <3>1, <3>2
    <3> QED
      BY <3>3
  <2>7. DoubleStep(w, i, language) = Step(<<Character(LuaNumber(w, i, d))>>, i + d + 1)
    <3>1. d > 0
      BY <2>6
    <3> QED
      BY <1>5, <1>s, <2>5, <3>1, Zenon DEF DoubleSteps
  <2>8. LuaNumber(w, i, 3) = 100 * Value(Decimal, h) + 10 * Value(Decimal, t) + Value(Decimal, u)
    <3>1. 3 # 1 /\ 3 # 2
      OBVIOUS
    <3> QED
      BY <3>1, <2>5, Zenon DEF LuaNumber
  <2>9. i + 3 + 1 = i + Len(piece)
    BY <1>1, <2>5
  <2>10. DoubleStep(w, i, language) = Step(<<c>>, i + Len(piece))
    BY <2>1, <2>6, <2>7, <2>8, <2>9, Zenon
  <2> QED
    BY <2>5, <2>10, <1>5, <1>f, Zenon
<1>6. ASSUME NEW c \in Control, language = "json", got = <<c>>,
             piece = <<Backslash, "u", Digit(Hexadecimal, Code[c] \div 16), Digit(Hexadecimal, Code[c] % 16)>>
      PROVE  DoubleFrom(w, language, i) = got \o rest
  <2> DEFINE h == Digit(Hexadecimal, Code[c] \div 16)
             l == Digit(Hexadecimal, Code[c] % 16)
  <2>1. Character(16 * Value(Hexadecimal, h) + Value(Hexadecimal, l)) = c
    BY TwoDigits
  <2>3. piece = <<Backslash, "u", h, l>>
    BY <1>6
  <2> HIDE DEF h, l
  <2>4. Len(piece) = 4 /\ piece[1] = Backslash /\ piece[2] = "u" /\ piece[3] = h /\ piece[4] = l
    BY <2>3
  <2>5. /\ w[i] = Backslash /\ w[i + 1] = "u" /\ w[i + 2] = h /\ w[i + 3] = l
        /\ i < Len(w) /\ i + 4 = i + Len(piece) /\ Len(piece) > 0
    BY <1>1, <2>4
  <2>6. DoubleStep(w, i, language) = Step(<<Character(16 * Value(Hexadecimal, w[i + 2]) + Value(Hexadecimal, w[i + 3]))>>, i + 4)
    BY <1>6, <1>s, <2>5, Zenon DEF DoubleSteps
  <2>7. DoubleStep(w, i, language) = Step(<<c>>, i + Len(piece))
    BY <2>1, <2>5, <2>6, Zenon
  <2> QED
    BY <2>5, <2>7, <1>6, <1>f, Zenon
<1> QED
  BY <1>2, <1>3, <1>4, <1>5, <1>6, Zenon DEF DoubleStands

AllDouble(pieces, gots, language) ==
    Len(gots) = Len(pieces) /\ \A k \in 1 .. Len(pieces) : DoubleStands(pieces[k], gots[k], language)

DoubleThrough(w, language, at, pieces, gots) ==
    DoubleFrom(w, language, at[1]) = FlattenSeq(gots) \o DoubleFrom(w, language, at[Len(pieces) + 1])

\* What is read of several pieces is what they stand for.
LEMMA DoubleBetween ==
    ASSUME NEW S, NEW pieces \in Seq(Seq(S)), NEW gots \in Seq(Seq(S)), NEW w, NEW close, NEW at, NEW language,
           AllDouble(pieces, gots, language), Placed(at, w, pieces, close),
           DoubleFrom(w, language, at[Len(pieces) + 1]) \in Seq(S)
    PROVE  DoubleThrough(w, language, at, pieces, gots)
<1> DEFINE n == Len(pieces)
           z == DoubleFrom(w, language, at[n + 1])
           v == [k \in 1 .. n + 1 |-> DoubleFrom(w, language, at[k])]
<1>1. /\ \A k \in 1 .. n : Stands(w, at[k], pieces[k]) /\ at[k + 1] = at[k] + Len(pieces[k])
      /\ Len(w) \in Nat
  BY Zenon DEF Placed
<1>2. Len(gots) = n /\ \A k \in 1 .. n : DoubleStands(pieces[k], gots[k], language)
  BY Zenon DEF AllDouble
<1>3. n \in Nat /\ 1 \in 1 .. n + 1 /\ n + 1 \in 1 .. n + 1 /\ \A k \in 1 .. n : k \in 1 .. n + 1 /\ k + 1 \in 1 .. n + 1
  OBVIOUS
<1>4. \A k \in 1 .. n + 1 : v[k] = DoubleFrom(w, language, at[k])
  BY Zenon
<1> HIDE DEF v
<1>5. v[n + 1] = z
  BY <1>3, <1>4, Zenon
<1>6. ASSUME NEW k \in 1 .. n, v[k + 1] \in Seq(S) PROVE v[k] = gots[k] \o v[k + 1]
  <2> DEFINE a == at[k]
             piece == pieces[k]
             got == gots[k]
  <2>1. Stands(w, a, piece) /\ DoubleStands(piece, got, language) /\ at[k + 1] = a + Len(piece)
    BY <1>1, <1>2, Zenon
  <2>2. v[k + 1] = DoubleFrom(w, language, a + Len(piece)) /\ v[k] = DoubleFrom(w, language, a)
    BY <2>1, <1>3, <1>4, Zenon
  <2>3. DoubleFrom(w, language, a + Len(piece)) \in Seq(S)
    BY <2>2, <1>6, Zenon
  <2> HIDE DEF a, piece, got
  <2>4. DoublePast(w, language, a, piece, got)
    BY <2>1, <2>3, <1>1, DoublePasses
  <2> QED
    BY <2>2, <2>4, Zenon DEF got, DoublePast
<1>7. FromTheRight(v, S, gots, z)
  BY <1>2, <1>5, <1>6, Zenon DEF FromTheRight
<1>8. z \in Seq(S)
  OBVIOUS
<1> HIDE DEF z
<1>9. v[1] = FlattenSeq(gots) \o z
  BY <1>7, <1>8, RightIsFlat, Zenon
<1> QED
  BY <1>3, <1>4, <1>9, Zenon DEF z, DoubleThrough

\* The closing quote ends it.
LEMMA DoubleEnds ==
    ASSUME NEW w, Len(w) \in Nat, Len(w) >= 2, w[Len(w)] = QuoteMark, NEW language
    PROVE  DoubleFrom(w, language, Len(w)) = <<>>
<1> DEFINE i == Len(w)
<1>1. i \in Nat /\ i <= Len(w) /\ i \in 2 .. Len(w) + 1
  OBVIOUS
<1>2. DoubleSteps(w, i, language)
  BY <1>1, DoubleStepIs
<1>3. DoubleStep(w, i, language) = EndsAt(w, i)
  BY <1>1, <1>2, Zenon DEF DoubleSteps
<1>4. DoubleStep(w, i, language) = Step(<<>>, 0)
  BY <1>3, Zenon DEF EndsAt
<1>5. DoubleFollowing(w, language)
  BY DoubleFromIs
<1> HIDE DEF i
<1>6. DoubleFollows(w, language, i, <<>>, 0)
  BY <1>1, <1>4, <1>5, Zenon DEF DoubleFollowing
<1>7. <<>> \o <<>> = <<>>
  OBVIOUS
<1>8. DoubleFrom(w, language, i) = <<>>
  BY <1>6, <1>7, Zenon DEF DoubleFollows
<1> QED
  BY <1>8 DEF i

\* A double-quoted literal is read as what its pieces stand for.
LEMMA DoubleReadsIt ==
    ASSUME NEW S, NEW pieces \in Seq(Seq(S)), NEW gots \in Seq(Seq(S)), QuoteMark \in S, NEW language,
           AllDouble(pieces, gots, language)
    PROVE  DoubleReads(Literal(<<QuoteMark>>, pieces, <<QuoteMark>>), language) = FlattenSeq(gots)
<1> DEFINE one == <<QuoteMark>>
           w == Literal(one, pieces, one)
           n == Len(pieces)
<1>1. one \in Seq(S) /\ one # <<>> /\ Len(one) = 1 /\ one[1] = QuoteMark
  OBVIOUS
<1>2. /\ w \in Seq(S) /\ \A j \in 1 .. Len(one) : w[j] = one[j]
      /\ \E at : Placed(at, w, pieces, one) /\ at[1] = Len(one) + 1
  BY <1>1, LiteralPlaces, ZenonT(60)
<1> HIDE DEF w
<1>3. PICK at : Placed(at, w, pieces, one) /\ at[1] = 2
  BY <1>1, <1>2
<1>4. /\ at[n + 1] \in Nat /\ at[n + 1] >= 2 /\ Len(w) \in Nat
      /\ at[n + 1] + Len(one) = Len(w) + 1
      /\ \A j \in 1 .. Len(one) : w[at[n + 1] + j - 1] = one[j]
  BY <1>3, Zenon DEF Placed
<1>5. at[n + 1] = Len(w) /\ Len(w) >= 2 /\ w[Len(w)] = QuoteMark
  BY <1>1, <1>4
<1>6. DoubleFrom(w, language, at[n + 1]) = <<>>
  BY <1>4, <1>5, DoubleEnds
<1>7. <<>> \in Seq(S)
  OBVIOUS
<1>8. DoubleFrom(w, language, at[1]) = FlattenSeq(gots) \o DoubleFrom(w, language, at[n + 1])
  <2>1. DoubleFrom(w, language, at[n + 1]) \in Seq(S)
    BY <1>6, <1>7, Zenon
  <2>2. Placed(at, w, pieces, one)
    BY <1>3
  <2> HIDE DEF one
  <2>3. DoubleThrough(w, language, at, pieces, gots)
    BY <2>1, <2>2, DoubleBetween
  <2> QED
    BY <2>3, Zenon DEF DoubleThrough
<1>9. FlattenSeq(gots) \o <<>> = FlattenSeq(gots)
  <2>1. FlattenSeq(gots) \in Seq(S)
    BY FlattenTyped
  <2> QED
    BY <2>1, ConcatEmptySeq
<1>10. DoubleReads(w, language) = DoubleFrom(w, language, 2)
  BY Zenon DEF DoubleReads, DoubleFrom
<1> QED
  BY <1>3, <1>6, <1>8, <1>9, <1>10, Zenon DEF w
-----------------------------------------------------------------------------

\* The escapes of one letter are read back.
LEMMA LettersRead ==
    /\ DOMAIN Letter = {"lf", "cr", "tab"}
    /\ \A c \in DOMAIN Letter : /\ Named(Letter[c]) = c /\ Letter[c] \in {"n", "r", "t"}
                                /\ c \notin {Apostrophe, QuoteMark, Backslash, Dollar, Circumflex}
    /\ \A c : c \notin {"n", "r", "t"} => Named(c) = c
    /\ \A c \in {"n", "r", "t"} : ~IsDigit(Decimal, c) /\ c # "u" /\ c \in Plain
<1>1. DOMAIN Letter = {"lf", "cr", "tab"} /\ Letter["lf"] = "n" /\ Letter["cr"] = "r" /\ Letter["tab"] = "t"
  BY DEF Letter
<1>2. Named("n") = "lf" /\ Named("r") = "cr" /\ Named("t") = "tab"
  BY DEF Named
<1>3. \A c : c \notin {"n", "r", "t"} => Named(c) = c
  BY Zenon DEF Named
<1>4. \A c \in {"n", "r", "t"} : ~IsDigit(Decimal, c)
  <2>1. \A i \in DOMAIN Decimal : Decimal[i] \in {"0", "1", "2", "3", "4", "5", "6", "7", "8", "9"}
    BY DEF Decimal
  <2>2. \A c \in {"n", "r", "t"} : c \notin {"0", "1", "2", "3", "4", "5", "6", "7", "8", "9"}
    OBVIOUS
  <2> QED
    BY <2>1, <2>2, Zenon DEF IsDigit
<1>5. \A c \in {"n", "r", "t"} : c # "u"
  OBVIOUS
<1>6. \A c \in {"n", "r", "t"} : c \in Plain
  BY PlainHas, Zenon
<1>7. \A c \in {"lf", "cr", "tab"} : c \notin {Apostrophe, QuoteMark, Backslash, Dollar, Circumflex}
  BY SymbolsDiffer, Zenon
<1> QED
  BY <1>1, <1>2, <1>3, <1>4, <1>5, <1>6, <1>7, Zenon

\* What the double quotes of Nu and Lua and of JSON have in common stands for itself.
LEMMA DoubleEscapeStands ==
    ASSUME NEW X, NEW c \in X, NEW else, NEW got, NEW language,
           c \notin {Backslash, QuoteMark} \cup DOMAIN Letter =>
              else \in Seq(Alphabet(X)) /\ DoubleStands(else, got, language),
           c \in {Backslash, QuoteMark} \cup DOMAIN Letter => got = <<c>>
    PROVE  DoubleQuoteEscape(c, else) \in Seq(Alphabet(X)) /\ DoubleStands(DoubleQuoteEscape(c, else), got, language)
<1> DEFINE S == Alphabet(X)
<1>1. Plain \subseteq S /\ c \in S
  BY DEF Alphabet
<1>2. Backslash \in S /\ QuoteMark \in S
  BY <1>1, PlainHas, Zenon
<1>3. CASE c \in {Backslash, QuoteMark}
  <2>1. DoubleQuoteEscape(c, else) = <<Backslash, c>>
    BY <1>3, LettersRead, Zenon DEF DoubleQuoteEscape
  <2>2. <<Backslash, c>> \in Seq(S)
    <3> HIDE DEF S
    <3> QED
      BY <1>1, <1>2
  <2>3. Named(c) = c /\ ~IsDigit(Decimal, c) /\ c # "u"
    <3>1. c \notin {"n", "r", "t", "u"} /\ ~IsDigit(Decimal, c)
      BY <1>3, SymbolsDiffer, Zenon
    <3> QED
      BY <3>1, LettersRead, Zenon
  <2>4. DoubleStands(<<Backslash, c>>, <<c>>, language)
    BY <2>3, Zenon DEF DoubleStands
  <2> QED
    BY <1>3, <2>1, <2>2, <2>4, Zenon
<1>4. CASE c \in DOMAIN Letter
  <2>1. /\ Named(Letter[c]) = c /\ Letter[c] \in {"n", "r", "t"}
        /\ c \notin {Apostrophe, QuoteMark, Backslash, Dollar, Circumflex}
    BY <1>4, LettersRead, Zenon
  <2>2. DoubleQuoteEscape(c, else) = <<Backslash, Letter[c]>>
    BY <1>4, <2>1, Zenon DEF DoubleQuoteEscape
  <2>3. ~IsDigit(Decimal, Letter[c]) /\ Letter[c] # "u" /\ Letter[c] \in S
    BY <1>1, <2>1, LettersRead, Zenon
  <2>4. <<Backslash, Letter[c]>> \in Seq(S)
    <3> HIDE DEF S
    <3> QED
      BY <1>2, <2>3
  <2>5. DoubleStands(<<Backslash, Letter[c]>>, <<c>>, language)
    BY <2>1, <2>3, Zenon DEF DoubleStands
  <2> QED
    BY <1>4, <2>2, <2>4, <2>5, Zenon
<1>5. CASE c \notin {Backslash, QuoteMark} \cup DOMAIN Letter
  <2>1. DoubleQuoteEscape(c, else) = else
    BY <1>5, Zenon DEF DoubleQuoteEscape
  <2> QED
    BY <1>5, <2>1, Zenon
<1> QED
  BY <1>3, <1>4, <1>5, Zenon

\* A symbol that is no quote, backslash or line break stands for itself.
LEMMA SelfStands ==
    ASSUME NEW X, NEW c \in X, c \notin {Backslash, QuoteMark}, NEW language, c = "lf" => language = "nu"
    PROVE  <<c>> \in Seq(Alphabet(X)) /\ DoubleStands(<<c>>, <<c>>, language)
<1>1. c \in Alphabet(X)
  BY DEF Alphabet
<1>2. <<c>> \in Seq(Alphabet(X))
  BY <1>1, SingleTyped
<1>3. DoubleStands(<<c>>, <<c>>, language)
  BY Zenon DEF DoubleStands
<1> QED
  BY <1>2, <1>3

\* Each character of the line stands in Lua's literal as itself.
LEMMA LuaStands ==
    ASSUME NEW X, NEW c \in X
    PROVE  LuaEscape(c) \in Seq(Alphabet(X)) /\ DoubleStands(LuaEscape(c), <<c>>, "lua")
<1> DEFINE S == Alphabet(X)
           h == Digit(Decimal, Code[c] \div 100)
           t == Digit(Decimal, (Code[c] \div 10) % 10)
           u == Digit(Decimal, Code[c] % 10)
           else == CASE c \in Control -> <<Backslash, h, t, u>>
                     [] c \in Unsafe \ Control -> <<Backslash, c>>
                     [] OTHER -> <<c>>
<1>1. Plain \subseteq S /\ c \in S
  BY DEF Alphabet
<1>2. Backslash \in S
  BY <1>1, PlainHas, Zenon
<1>3. ASSUME c \notin {Backslash, QuoteMark} \cup DOMAIN Letter PROVE else \in Seq(S) /\ DoubleStands(else, <<c>>, "lua")
  <2>1. CASE c \in Control
    <3>1. else = <<Backslash, h, t, u>>
      BY <2>1, Zenon
    <3>2. h \in S /\ t \in S /\ u \in S
      <4>1. Code[c] \div 100 \in 0 .. 9 /\ (Code[c] \div 10) % 10 \in 0 .. 9 /\ Code[c] % 10 \in 0 .. 9
        BY <2>1, CodeDigits
      <4> QED
        BY <1>1, <4>1, PlainHas, Zenon
    <3>3. DoubleStands(<<Backslash, h, t, u>>, <<c>>, "lua")
      BY <2>1, Zenon DEF DoubleStands
    <3> HIDE DEF h, t, u, S
    <3>4. <<Backslash, h, t, u>> \in Seq(S)
      BY <1>2, <3>2
    <3> QED
      BY <3>1, <3>3, <3>4, Zenon
  <2>2. CASE c \in Unsafe \ Control
    <3>1. else = <<Backslash, c>>
      BY <2>2, Zenon
    <3>2. Named(c) = c /\ ~IsDigit(Decimal, c)
      <4>1. c \notin {"n", "r", "t"} /\ ~IsDigit(Decimal, c)
        BY <2>2, NotPlain, Zenon
      <4> QED
        BY <4>1, LettersRead, Zenon
    <3>3. DoubleStands(<<Backslash, c>>, <<c>>, "lua")
      <4>1. "lua" # "json"
        OBVIOUS
      <4> QED
        BY <3>2, <4>1, Zenon DEF DoubleStands
    <3> HIDE DEF S
    <3>4. <<Backslash, c>> \in Seq(S)
      BY <1>1, <1>2
    <3> QED
      BY <3>1, <3>3, <3>4, Zenon
  <2>3. CASE c \notin Unsafe
    <3>1. else = <<c>>
      BY <2>3, Zenon DEF Unsafe
    <3>2. c # "lf"
      BY <1>3, LettersRead, Zenon
    <3>3. <<c>> \in Seq(S) /\ DoubleStands(<<c>>, <<c>>, "lua")
      BY <1>3, <3>2, SelfStands
    <3> QED
      BY <3>1, <3>3, Zenon
  <2> HIDE DEF else
  <2> QED
    BY <2>1, <2>2, <2>3, Zenon
<1>4. LuaEscape(c) = DoubleQuoteEscape(c, else)
  BY Zenon DEF LuaEscape
<1> HIDE DEF else
<1>5. DoubleQuoteEscape(c, else) \in Seq(Alphabet(X)) /\ DoubleStands(DoubleQuoteEscape(c, else), <<c>>, "lua")
  BY <1>3, DoubleEscapeStands
<1> QED
  BY <1>4, <1>5, Zenon

\* clink reads the line that was quoted for it.
LEMMA LuaRead ==
    ASSUME NEW X, NEW t \in Seq(X)
    PROVE  DoubleReads(LuaQuoteString(t), "lua") = t
<1> DEFINE S == Alphabet(X)
           pieces == [i \in DOMAIN t |-> LuaEscape(t[i])]
           gots == [i \in DOMAIN t |-> <<t[i]>>]
           n == Len(t)
<1>1. n \in Nat /\ DOMAIN t = 1 .. n /\ \A i \in 1 .. n : t[i] \in X
  OBVIOUS
<1>2. \A c \in X : LuaEscape(c) \in Seq(S) /\ DoubleStands(LuaEscape(c), <<c>>, "lua") /\ <<c>> \in Seq(S)
  <2>1. \A c \in X : c \in S
    BY DEF Alphabet
  <2>2. \A c \in X : <<c>> \in Seq(S)
    <3> HIDE DEF S
    <3> QED
      BY <2>1, SingleTyped
  <2> QED
    BY <2>2, LuaStands, Zenon
<1>3. /\ pieces \in [1 .. n -> Seq(S)] /\ gots \in [1 .. n -> Seq(S)]
      /\ \A i \in 1 .. n : DoubleStands(pieces[i], gots[i], "lua")
  <2> HIDE DEF S
  <2> QED
    BY <1>1, <1>2, Zenon
<1>4. LuaQuoteString(t) = Literal(<<QuoteMark>>, pieces, <<QuoteMark>>)
  BY Zenon DEF LuaQuoteString
<1>5. QuoteMark \in S
  BY PlainHas, Zenon DEF Alphabet
<1>6. FlattenSeq(gots) = t
  BY FlatSingles
<1> HIDE DEF pieces, gots, S
<1>7. pieces \in Seq(Seq(S)) /\ gots \in Seq(Seq(S)) /\ Len(pieces) = n /\ Len(gots) = n
  BY <1>1, <1>3, SequenceIs, Zenon
<1>8. AllDouble(pieces, gots, "lua")
  BY <1>3, <1>7, Zenon DEF AllDouble
<1>9. DoubleReads(Literal(<<QuoteMark>>, pieces, <<QuoteMark>>), "lua") = FlattenSeq(gots)
  BY <1>5, <1>7, <1>8, DoubleReadsIt, Zenon
<1> QED
  BY <1>4, <1>6, <1>9, Zenon

\* Each character of the line stands in the JSON of the reply as itself.
LEMMA JsonStands ==
    ASSUME NEW X, NEW c \in X
    PROVE  JsonEscape(c) \in Seq(Alphabet(X)) /\ DoubleStands(JsonEscape(c), <<c>>, "json")
<1> DEFINE S == Alphabet(X)
           h == Digit(Hexadecimal, Code[c] \div 16)
           l == Digit(Hexadecimal, Code[c] % 16)
           else == IF c \in Control /\ Code[c] < 32 THEN <<Backslash, "u", h, l>> ELSE <<c>>
<1>1. Plain \subseteq S /\ c \in S
  BY DEF Alphabet
<1>2. Backslash \in S /\ "u" \in S
  BY <1>1, PlainHas, Zenon
<1>3. ASSUME c \notin {Backslash, QuoteMark} \cup DOMAIN Letter PROVE else \in Seq(S) /\ DoubleStands(else, <<c>>, "json")
  <2>1. CASE c \in Control /\ Code[c] < 32
    <3>1. else = <<Backslash, "u", h, l>>
      BY <2>1, Zenon
    <3>2. h \in S /\ l \in S
      <4>1. Code[c] \div 16 \in 0 .. 15 /\ Code[c] % 16 \in 0 .. 15
        BY <2>1, CodeDigits
      <4> QED
        BY <1>1, <4>1, PlainHas, Zenon
    <3>3. DoubleStands(<<Backslash, "u", h, l>>, <<c>>, "json")
      BY <2>1, Zenon DEF DoubleStands
    <3> HIDE DEF h, l, S
    <3>4. <<Backslash, "u", h, l>> \in Seq(S)
      BY <1>2, <3>2
    <3> QED
      BY <3>1, <3>3, <3>4, Zenon
  <2>2. CASE ~(c \in Control /\ Code[c] < 32)
    <3>1. else = <<c>>
      BY <2>2, Zenon
    <3>2. c # "lf"
      BY <1>3, LettersRead, Zenon
    <3>3. <<c>> \in Seq(S) /\ DoubleStands(<<c>>, <<c>>, "json")
      BY <1>3, <3>2, SelfStands
    <3> QED
      BY <3>1, <3>3, Zenon
  <2> HIDE DEF else
  <2> QED
    BY <2>1, <2>2, Zenon
<1>4. JsonEscape(c) = DoubleQuoteEscape(c, else)
  BY Zenon DEF JsonEscape
<1> HIDE DEF else
<1>5. DoubleQuoteEscape(c, else) \in Seq(Alphabet(X)) /\ DoubleStands(DoubleQuoteEscape(c, else), <<c>>, "json")
  BY <1>3, DoubleEscapeStands
<1> QED
  BY <1>4, <1>5, Zenon

\* nu reads from the reply the line that was put there.
LEMMA JsonRead ==
    ASSUME NEW X, NEW t \in Seq(X)
    PROVE  DoubleReads(JsonString(t), "json") = t
<1> DEFINE S == Alphabet(X)
           pieces == [i \in DOMAIN t |-> JsonEscape(t[i])]
           gots == [i \in DOMAIN t |-> <<t[i]>>]
           n == Len(t)
<1>1. n \in Nat /\ DOMAIN t = 1 .. n /\ \A i \in 1 .. n : t[i] \in X
  OBVIOUS
<1>2. \A c \in X : JsonEscape(c) \in Seq(S) /\ DoubleStands(JsonEscape(c), <<c>>, "json") /\ <<c>> \in Seq(S)
  <2>1. \A c \in X : c \in S
    BY DEF Alphabet
  <2>2. \A c \in X : <<c>> \in Seq(S)
    <3> HIDE DEF S
    <3> QED
      BY <2>1, SingleTyped
  <2> QED
    BY <2>2, JsonStands, Zenon
<1>3. /\ pieces \in [1 .. n -> Seq(S)] /\ gots \in [1 .. n -> Seq(S)]
      /\ \A i \in 1 .. n : DoubleStands(pieces[i], gots[i], "json")
  <2> HIDE DEF S
  <2> QED
    BY <1>1, <1>2, Zenon
<1>4. JsonString(t) = Literal(<<QuoteMark>>, pieces, <<QuoteMark>>)
  BY Zenon DEF JsonString
<1>5. QuoteMark \in S
  BY PlainHas, Zenon DEF Alphabet
<1>6. FlattenSeq(gots) = t
  BY FlatSingles
<1> HIDE DEF pieces, gots, S
<1>7. pieces \in Seq(Seq(S)) /\ gots \in Seq(Seq(S)) /\ Len(pieces) = n /\ Len(gots) = n
  BY <1>1, <1>3, SequenceIs, Zenon
<1>8. AllDouble(pieces, gots, "json")
  BY <1>3, <1>7, Zenon DEF AllDouble
<1>9. DoubleReads(Literal(<<QuoteMark>>, pieces, <<QuoteMark>>), "json") = FlattenSeq(gots)
  BY <1>5, <1>7, <1>8, DoubleReadsIt, Zenon
<1> QED
  BY <1>4, <1>6, <1>9, Zenon

-----------------------------------------------------------------------------
\* What ends a literal in PowerShell, and what it does at each place of one.
PwshEnds(w) == IF w[1] = QuoteMark THEN {QuoteMark} \cup Doubles ELSE {Apostrophe} \cup Singles
PwshNamed(c) == CASE c = "n" -> "lf" [] c = "r" -> "cr" [] OTHER -> c
PwshSteps(w, i) ==
    LET double  == w[1] = QuoteMark
        doubled == i < Len(w) /\ w[i + 1] \in PwshEnds(w)
        escape  == i < Len(w) /\ double /\ w[i] = "backtick"
    IN  /\ i > Len(w) => PwshStep(w, i) = Step(<<Broken>>, 0)
        /\ i <= Len(w) /\ w[i] \in PwshEnds(w) /\ doubled => PwshStep(w, i) = Step(<<w[i]>>, i + 2)
        /\ i <= Len(w) /\ w[i] \in PwshEnds(w) /\ ~doubled => PwshStep(w, i) = EndsAt(w, i)
        /\ escape => PwshStep(w, i) = Step(<<PwshNamed(w[i + 1])>>, i + 2)
        /\ i <= Len(w) /\ double /\ w[i] = Dollar => PwshStep(w, i) = Step(<<Broken>>, 0)
        /\ i <= Len(w) /\ w[i] \notin PwshEnds(w) /\ ~escape /\ ~(double /\ w[i] = Dollar) =>
              PwshStep(w, i) = Step(<<w[i]>>, i + 1)

\* The marks of PowerShell's double quotes do not end them.
LEMMA PwshMarks ==
    /\ "backtick" \notin {QuoteMark} \cup Doubles /\ Dollar \notin {QuoteMark} \cup Doubles
    /\ "backtick" # Dollar
<1>1. "backtick" \notin Doubles /\ Dollar \notin Doubles
  BY NotPlain, Zenon
<1> QED
  BY <1>1, SymbolsDiffer, Zenon

\* These are its steps.
LEMMA PwshStepIs == ASSUME NEW w, Len(w) \in Nat, NEW i \in Nat PROVE PwshSteps(w, i)
<1> DEFINE P == PwshStep(w, i)
           double == w[1] = QuoteMark
           ends == IF double THEN {QuoteMark} \cup Doubles ELSE {Apostrophe} \cup Singles
           doubled == i < Len(w) /\ w[i + 1] \in ends
           escape == i < Len(w) /\ double /\ w[i] = "backtick"
           escaped == Step(CASE w[i + 1] = "n" -> <<"lf">> [] w[i + 1] = "r" -> <<"cr">> [] OTHER -> <<w[i + 1]>>, i + 2)
           closes == IF doubled THEN Step(<<w[i]>>, i + 2) ELSE EndsAt(w, i)
           within == IF w[i] \in ends THEN closes
                     ELSE IF escape THEN escaped
                     ELSE IF double /\ w[i] = Dollar THEN Step(<<Broken>>, 0)
                     ELSE Step(<<w[i]>>, i + 1)
<1>1. (i > Len(w) <=> ~(i <= Len(w))) /\ (i < Len(w) => i <= Len(w))
  OBVIOUS
<1>2. double => "backtick" \notin ends /\ Dollar \notin ends
  BY PwshMarks, Zenon
<1>3. "backtick" # Dollar
  BY PwshMarks
<1>4. i > Len(w) => P = Step(<<Broken>>, 0)
  BY <1>1, Zenon DEF PwshStep
<1>5. i <= Len(w) => P = within
  <2> HIDE DEF escaped, closes, ends
  <2>1. i <= Len(w) /\ w[i] \in ends => P = closes
    BY <1>1, <1>2, <1>3, Zenon DEF PwshStep, ends, closes
  <2>2. i <= Len(w) /\ w[i] \notin ends /\ escape => P = escaped
    BY <1>1, <1>2, <1>3, Zenon DEF PwshStep, ends, escaped
  <2>3. i <= Len(w) /\ w[i] \notin ends /\ ~escape /\ double /\ w[i] = Dollar => P = Step(<<Broken>>, 0)
    BY <1>1, <1>2, <1>3, Zenon DEF PwshStep, ends
  <2>4. i <= Len(w) /\ w[i] \notin ends /\ ~escape /\ ~(double /\ w[i] = Dollar) => P = Step(<<w[i]>>, i + 1)
    BY <1>1, <1>2, <1>3, Zenon DEF PwshStep, ends
  <2> HIDE DEF P
  <2> QED
    BY <2>1, <2>2, <2>3, <2>4, Zenon
<1>6. ends = PwshEnds(w)
  BY Zenon DEF PwshEnds
<1>7. escaped = Step(<<PwshNamed(w[i + 1])>>, i + 2)
  <2>1. (CASE w[i + 1] = "n" -> <<"lf">> [] w[i + 1] = "r" -> <<"cr">> [] OTHER -> <<w[i + 1]>>) = <<PwshNamed(w[i + 1])>>
    <3>1. "n" # "r"
      OBVIOUS
    <3> QED
      BY <3>1, Zenon DEF PwshNamed
  <2> QED
    BY <2>1, Zenon
<1> HIDE DEF P, ends, escaped
<1> QED
  BY <1>1, <1>2, <1>3, <1>4, <1>5, <1>6, <1>7, Zenon DEF P, PwshSteps

PwshFrom(w, i) == Scan([k \in 2 .. Len(w) + 1 |-> PwshStep(w, k)], i)
PwshFollows(w, i, out, j) ==
    /\ j \in 2 .. Len(w) + 1 => PwshFrom(w, i) = out \o PwshFrom(w, j)
    /\ j = 0 => PwshFrom(w, i) = out \o <<>>
PwshFollowing(w) == \A i, out, j : i \in 2 .. Len(w) + 1 /\ PwshStep(w, i) = Step(out, j) => PwshFollows(w, i, out, j)

\* It goes through the literal from left to right.
LEMMA PwshFromIs == ASSUME NEW w, Len(w) \in Nat PROVE PwshFollowing(w)
<1> DEFINE steps == [k \in 2 .. Len(w) + 1 |-> PwshStep(w, k)]
           e == Len(w) + 1
<1>1. DOMAIN steps = 2 .. e /\ \A i \in 2 .. e : steps[i] = PwshStep(w, i)
  OBVIOUS
<1>2. e \in Nat /\ 2 \in Nat /\ 2 > 0
  OBVIOUS
<1>3. ASSUME NEW i \in 2 .. e PROVE steps[i].next \in Nat /\ (steps[i].next = 0 \/ i < steps[i].next)
  <2> DEFINE P == PwshStep(w, i)
             double == w[1] = QuoteMark
             doubled == i < Len(w) /\ w[i + 1] \in PwshEnds(w)
             escape == i < Len(w) /\ double /\ w[i] = "backtick"
  <2>1. i \in Nat /\ (i > Len(w) \/ i <= Len(w))
    BY <1>2
  <2>2. PwshSteps(w, i)
    BY <2>1, PwshStepIs
  <2>3. \/ \E out : P = Step(out, 0)
        \/ \E out : P = Step(out, i + 1)
        \/ \E out : P = Step(out, i + 2)
        \/ P = EndsAt(w, i)
    <3> HIDE DEF P
    <3>1. CASE i > Len(w)
      BY <2>2, <3>1, Zenon DEF PwshSteps, P
    <3>2. CASE i <= Len(w) /\ w[i] \in PwshEnds(w) /\ doubled
      <4>1. P = Step(<<w[i]>>, i + 2)
        BY <2>2, <3>2, Zenon DEF PwshSteps, P
      <4> QED
        BY <4>1, Zenon
    <3>3. CASE i <= Len(w) /\ w[i] \in PwshEnds(w) /\ ~doubled
      <4>1. P = EndsAt(w, i)
        BY <2>2, <3>3, Zenon DEF PwshSteps, P
      <4> QED
        BY <4>1, Zenon
    <3>4. CASE escape
      <4>1. P = Step(<<PwshNamed(w[i + 1])>>, i + 2)
        BY <2>2, <3>4, Zenon DEF PwshSteps, P
      <4> QED
        BY <4>1, Zenon
    <3>5. CASE i <= Len(w) /\ double /\ w[i] = Dollar
      <4>1. P = Step(<<Broken>>, 0)
        BY <2>2, <3>5, Zenon DEF PwshSteps, P
      <4> QED
        BY <4>1, Zenon
    <3>6. CASE i <= Len(w) /\ w[i] \notin PwshEnds(w) /\ ~escape /\ ~(double /\ w[i] = Dollar)
      <4>1. P = Step(<<w[i]>>, i + 1)
        BY <2>2, <3>6, Zenon DEF PwshSteps, P
      <4> QED
        BY <4>1, Zenon
    <3> HIDE DEF escape, doubled, double
    <3> QED
      BY <2>1, <3>1, <3>2, <3>3, <3>4, <3>5, <3>6, Zenon
  <2>4. P.next \in {0, i + 1, i + 2}
    BY <2>3 DEF Step, EndsAt
  <2> HIDE DEF P
  <2>5. P.next \in Nat /\ (P.next = 0 \/ i < P.next)
    BY <2>1, <2>4
  <2> QED
    BY <1>1, <2>5, Zenon DEF P
<1> HIDE DEF steps, e
<1>4. GoesRight(steps, 2, e)
  BY <1>1, <1>2, <1>3, Zenon DEF GoesRight
<1>5. Following(steps)
  BY <1>2, <1>4, ForwardIs
<1>6. 0 \notin 2 .. e
  OBVIOUS
<1> SUFFICES ASSUME NEW i, NEW out, NEW j, i \in 2 .. e, PwshStep(w, i) = Step(out, j)
             PROVE  PwshFollows(w, i, out, j)
  BY Zenon DEF PwshFollowing, e
<1>7. Follows(steps, i, out, j)
  BY <1>1, <1>5, Zenon DEF Following
<1> QED
  BY <1>1, <1>6, <1>7, Zenon DEF Follows, PwshFollows, PwshFrom, steps, e

PwshStands(piece, got) ==
    \/ piece = <<>> /\ got = <<>>
    \/ \E c : c \notin {Apostrophe} \cup Singles /\ piece = <<c>> /\ got = <<c>>
    \/ piece = <<Apostrophe, Apostrophe>> /\ got = <<Apostrophe>>
PwshDoubleStands(piece, got) ==
    \/ \E c : c \notin {QuoteMark, "backtick", Dollar} \cup Doubles /\ piece = <<c>> /\ got = <<c>>
    \/ \E c : piece = <<"backtick", c>> /\ got = <<PwshNamed(c)>>

PwshPast(w, i, piece, got) == PwshFrom(w, i) = got \o PwshFrom(w, i + Len(piece))

\* From a piece PowerShell gets to the next, and what it reads is what the piece stands for.
LEMMA PwshPasses ==
    ASSUME NEW S, NEW w, Len(w) \in Nat, NEW i, NEW piece, NEW got, Stands(w, i, piece),
           \/ w[1] # QuoteMark /\ PwshStands(piece, got)
           \/ w[1] = QuoteMark /\ PwshDoubleStands(piece, got),
           PwshFrom(w, i + Len(piece)) \in Seq(S)
    PROVE  PwshPast(w, i, piece, got)
<1> DEFINE rest == PwshFrom(w, i + Len(piece))
<1>1. /\ i \in Nat /\ i >= 2
      /\ Len(piece) \in Nat /\ i + Len(piece) <= Len(w)
      /\ \A j \in 1 .. Len(piece) : w[i + j - 1] = piece[j]
  BY Zenon DEF Stands
<1>h. PwshFollowing(w)
  BY PwshFromIs
<1>s. PwshSteps(w, i)
  BY <1>1, PwshStepIs
<1>f. ASSUME NEW out, NEW j, j = i + Len(piece), Len(piece) > 0, PwshStep(w, i) = Step(out, j)
      PROVE  PwshFrom(w, i) = out \o rest
  <2>1. i \in 2 .. Len(w) + 1 /\ j \in 2 .. Len(w) + 1
    BY <1>1, <1>f
  <2>2. PwshFollows(w, i, out, j)
    BY <2>1, <1>f, <1>h, Zenon DEF PwshFollowing
  <2> QED
    BY <2>1, <2>2, <1>f, Zenon DEF PwshFollows
<1> SUFFICES PwshFrom(w, i) = got \o rest
  BY Zenon DEF PwshPast
<1>2. CASE piece = <<>> /\ got = <<>>
  <2>1. i + Len(piece) = i
    BY <1>1, <1>2
  <2>2. <<>> \o rest = rest
    <3>1. rest \in Seq(S)
      OBVIOUS
    <3> HIDE DEF rest
    <3> QED
      BY <3>1, ConcatEmptySeq
  <2> QED
    BY <2>1, <2>2, <1>2, Zenon
<1> HIDE DEF rest
<1>3. ASSUME NEW c, c \notin PwshEnds(w), w[1] = QuoteMark => c \notin {"backtick", Dollar}, piece = <<c>>, got = <<c>>
      PROVE  PwshFrom(w, i) = got \o rest
  <2>1. Len(piece) = 1 /\ piece[1] = c
    BY <1>3
  <2>2. w[i] = c /\ i <= Len(w) /\ i + 1 = i + Len(piece) /\ Len(piece) > 0
    BY <1>1, <2>1
  <2>3. PwshStep(w, i) = Step(<<w[i]>>, i + 1)
    BY <1>3, <1>s, <2>2, Zenon DEF PwshSteps
  <2> QED
    BY <2>2, <2>3, <1>3, <1>f, Zenon
<1>4. ASSUME w[1] # QuoteMark, piece = <<Apostrophe, Apostrophe>>, got = <<Apostrophe>>
      PROVE  PwshFrom(w, i) = got \o rest
  <2>1. Len(piece) = 2 /\ piece[1] = Apostrophe /\ piece[2] = Apostrophe
    BY <1>4
  <2>2. w[i] = Apostrophe /\ w[i + 1] = Apostrophe /\ i <= Len(w) /\ i < Len(w) /\ i + 2 = i + Len(piece) /\ Len(piece) > 0
    BY <1>1, <2>1
  <2>3. Apostrophe \in PwshEnds(w)
    BY <1>4, Zenon DEF PwshEnds
  <2>4. PwshStep(w, i) = Step(<<w[i]>>, i + 2)
    BY <1>s, <2>2, <2>3, Zenon DEF PwshSteps
  <2> QED
    BY <2>2, <2>4, <1>4, <1>f, Zenon
<1>5. ASSUME w[1] = QuoteMark, NEW c, piece = <<"backtick", c>>, got = <<PwshNamed(c)>>
      PROVE  PwshFrom(w, i) = got \o rest
  <2>1. Len(piece) = 2 /\ piece[1] = "backtick" /\ piece[2] = c
    BY <1>5
  <2>2. w[i] = "backtick" /\ w[i + 1] = c /\ i < Len(w) /\ i + 2 = i + Len(piece) /\ Len(piece) > 0
    BY <1>1, <2>1
  <2>3. PwshStep(w, i) = Step(<<PwshNamed(w[i + 1])>>, i + 2)
    BY <1>5, <1>s, <2>2, Zenon DEF PwshSteps
  <2> QED
    BY <2>2, <2>3, <1>5, <1>f, Zenon
<1>6. CASE w[1] # QuoteMark /\ PwshStands(piece, got)
  <2>1. PwshEnds(w) = {Apostrophe} \cup Singles
    BY <1>6, Zenon DEF PwshEnds
  <2> QED
    BY <1>2, <1>3, <1>4, <1>6, <2>1, Zenon DEF PwshStands
<1>7. CASE w[1] = QuoteMark /\ PwshDoubleStands(piece, got)
  <2>1. PwshEnds(w) = {QuoteMark} \cup Doubles
    BY <1>7, Zenon DEF PwshEnds
  <2> QED
    BY <1>3, <1>5, <1>7, <2>1, Zenon DEF PwshDoubleStands
<1> QED
  BY <1>6, <1>7

\* The closing quote ends it.
LEMMA PwshCloses ==
    ASSUME NEW w, Len(w) \in Nat, Len(w) >= 2, w[Len(w)] \in PwshEnds(w)
    PROVE  PwshFrom(w, Len(w)) = <<>>
<1> DEFINE i == Len(w)
<1>1. i \in Nat /\ i <= Len(w) /\ ~(i < Len(w)) /\ i \in 2 .. Len(w) + 1
  OBVIOUS
<1>2. PwshSteps(w, i)
  BY <1>1, PwshStepIs
<1>3. PwshStep(w, i) = EndsAt(w, i)
  BY <1>1, <1>2, Zenon DEF PwshSteps
<1>4. PwshStep(w, i) = Step(<<>>, 0)
  BY <1>3, Zenon DEF EndsAt
<1>5. PwshFollowing(w)
  BY PwshFromIs
<1> HIDE DEF i
<1>6. PwshFollows(w, i, <<>>, 0)
  BY <1>1, <1>4, <1>5, Zenon DEF PwshFollowing
<1>7. <<>> \o <<>> = <<>>
  OBVIOUS
<1>8. PwshFrom(w, i) = <<>>
  BY <1>6, <1>7, Zenon DEF PwshFollows
<1> QED
  BY <1>8 DEF i

\* What the pieces of a literal for PowerShell stand for, of the one kind or the other.
AllPwsh(double, pieces, gots) ==
    /\ Len(gots) = Len(pieces)
    /\ \A k \in 1 .. Len(pieces) :
          IF double THEN PwshDoubleStands(pieces[k], gots[k]) ELSE PwshStands(pieces[k], gots[k])

\* A literal is read as what its pieces stand for.
LEMMA PwshReadsIt ==
    ASSUME NEW S, NEW pieces \in Seq(Seq(S)), NEW gots \in Seq(Seq(S)), NEW w, NEW at, NEW quote,
           quote \in {Apostrophe, QuoteMark}, Placed(at, w, pieces, <<quote>>), at[1] = 2, w[1] = quote,
           AllPwsh(quote = QuoteMark, pieces, gots)
    PROVE  PwshReads(w) = FlattenSeq(gots)
<1> DEFINE n == Len(pieces)
           one == <<quote>>
           v == [k \in 1 .. n + 1 |-> PwshFrom(w, at[k])]
<1>1. /\ \A k \in 1 .. n : Stands(w, at[k], pieces[k]) /\ at[k + 1] = at[k] + Len(pieces[k])
      /\ at[n + 1] \in Nat /\ at[n + 1] >= 2 /\ Len(w) \in Nat
      /\ at[n + 1] + Len(one) = Len(w) + 1
      /\ \A j \in 1 .. Len(one) : w[at[n + 1] + j - 1] = one[j]
  BY Zenon DEF Placed
<1>2. Len(one) = 1 /\ one[1] = quote
  OBVIOUS
<1>3. at[n + 1] = Len(w) /\ Len(w) >= 2 /\ w[Len(w)] = quote
  BY <1>1, <1>2
<1>4. /\ Len(gots) = n
      /\ \A k \in 1 .. n : \/ w[1] # QuoteMark /\ PwshStands(pieces[k], gots[k])
                           \/ w[1] = QuoteMark /\ PwshDoubleStands(pieces[k], gots[k])
  BY Zenon DEF AllPwsh
<1>5. quote \in PwshEnds(w)
  BY Zenon DEF PwshEnds
<1>6. PwshFrom(w, at[n + 1]) = <<>>
  BY <1>1, <1>3, <1>5, PwshCloses
<1>7. n \in Nat /\ 1 \in 1 .. n + 1 /\ n + 1 \in 1 .. n + 1 /\ \A k \in 1 .. n : k \in 1 .. n + 1 /\ k + 1 \in 1 .. n + 1
  OBVIOUS
<1>8. \A k \in 1 .. n + 1 : v[k] = PwshFrom(w, at[k])
  BY Zenon
<1> HIDE DEF v
<1>9. v[n + 1] = <<>>
  BY <1>6, <1>7, <1>8, Zenon
<1>10. ASSUME NEW k \in 1 .. n, v[k + 1] \in Seq(S) PROVE v[k] = gots[k] \o v[k + 1]
  <2> DEFINE a == at[k]
             piece == pieces[k]
             got == gots[k]
  <2>1. /\ Stands(w, a, piece) /\ at[k + 1] = a + Len(piece)
        /\ \/ w[1] # QuoteMark /\ PwshStands(piece, got)
           \/ w[1] = QuoteMark /\ PwshDoubleStands(piece, got)
    BY <1>1, <1>4, Zenon
  <2>2. v[k + 1] = PwshFrom(w, a + Len(piece)) /\ v[k] = PwshFrom(w, a)
    BY <2>1, <1>7, <1>8, Zenon
  <2>3. PwshFrom(w, a + Len(piece)) \in Seq(S)
    BY <2>2, <1>10, Zenon
  <2> HIDE DEF a, piece, got
  <2>4. PwshPast(w, a, piece, got)
    BY <2>1, <2>3, <1>1, PwshPasses, Zenon
  <2> QED
    BY <2>2, <2>4, Zenon DEF got, PwshPast
<1>11. <<>> \in Seq(S)
  OBVIOUS
<1>12. FromTheRight(v, S, gots, <<>>)
  BY <1>4, <1>9, <1>10, Zenon DEF FromTheRight
<1>13. v[1] = FlattenSeq(gots) \o <<>>
  <2>1. gots \in Seq(Seq(S))
    OBVIOUS
  <2> DEFINE z == <<>>
  <2>2. z \in Seq(S) /\ FromTheRight(v, S, gots, z)
    BY <1>11, <1>12, Zenon
  <2> HIDE DEF z
  <2>3. v[1] = FlattenSeq(gots) \o z
    BY <2>1, <2>2, RightIsFlat
  <2> QED
    BY <2>3 DEF z
<1>14. FlattenSeq(gots) \o <<>> = FlattenSeq(gots)
  <2>1. FlattenSeq(gots) \in Seq(S)
    BY FlattenTyped
  <2> QED
    BY <2>1, ConcatEmptySeq
<1>15. PwshReads(w) = PwshFrom(w, 2)
  BY Zenon DEF PwshReads, PwshFrom
<1> QED
  BY <1>7, <1>8, <1>13, <1>14, <1>15, Zenon

\* The output that is taken apart at line breaks has the same pieces, as no "cr" is in them.
LEMMA LinesPlaced ==
    ASSUME NEW S, NEW w \in Seq(S), NEW pieces, NEW close, NEW at, Placed(at, w, pieces, close),
           Len(close) \in Nat,
           \A k \in 1 .. Len(pieces) : \A j \in 1 .. Len(pieces[k]) : pieces[k][j] # "cr",
           \A j \in 1 .. Len(close) : close[j] # "cr"
    PROVE  Placed(at, PwshLines(w), pieces, close)
<1> DEFINE u == PwshLines(w)
           n == Len(pieces)
           e == at[n + 1]
           m == Len(w)
           l == Len(close)
<1>1. DOMAIN w = 1 .. m /\ m \in Nat
  OBVIOUS
<1>2. u = [i \in 1 .. m |-> IF w[i] = "cr" THEN "lf" ELSE w[i]]
  BY <1>1, Zenon DEF PwshLines
<1>3. Len(u) = m /\ \A i \in 1 .. m : w[i] # "cr" => u[i] = w[i]
  BY <1>1, <1>2
<1> HIDE DEF u
<1>4. /\ at[1] \in Nat
      /\ \A k \in 1 .. n : Stands(w, at[k], pieces[k]) /\ at[k + 1] = at[k] + Len(pieces[k])
      /\ e \in Nat /\ e >= 2 /\ e + l = m + 1
      /\ \A j \in 1 .. l : w[e + j - 1] = close[j]
  BY Zenon DEF Placed
<1>5. ASSUME NEW k \in 1 .. n PROVE Stands(u, at[k], pieces[k])
  <2> DEFINE i == at[k]
             piece == pieces[k]
             p == Len(piece)
  <2>1. /\ i \in Nat /\ i >= 2 /\ p \in Nat /\ i + p <= m
        /\ \A j \in 1 .. p : w[i + j - 1] = piece[j]
    BY <1>4, Zenon DEF Stands
  <2>2. \A j \in 1 .. p : piece[j] # "cr"
    BY Zenon
  <2> HIDE DEF i, piece, p, m
  <2>3. \A j \in 1 .. p : i + j - 1 \in 1 .. m
    BY <1>1, <2>1
  <2>4. \A j \in 1 .. p : u[i + j - 1] = piece[j]
    BY <1>3, <2>1, <2>2, <2>3, Zenon
  <2> QED
    BY <1>3, <2>1, <2>4, Zenon DEF Stands, i, piece, p
<1>6. ASSUME NEW j \in 1 .. l PROVE u[e + j - 1] = close[j]
  <2>1. e + j - 1 \in 1 .. m
    <3>1. l \in Nat
      OBVIOUS
    <3> HIDE DEF e, l, m
    <3> QED
      BY <1>1, <1>4, <3>1
  <2> QED
    BY <2>1, <1>3, <1>4, Zenon
<1>7. Placed(at, u, pieces, close)
  BY <1>1, <1>3, <1>4, <1>5, <1>6, Zenon DEF Placed
<1> QED
  BY <1>7 DEF u

\* Each character of the line stands in PowerShell's literal as itself.
LEMMA PwshDoubleStand ==
    ASSUME NEW X, NEW c \in X
    PROVE  /\ PwshDoubleEscape(c) \in Seq(Alphabet(X)) /\ PwshDoubleStands(PwshDoubleEscape(c), <<c>>)
           /\ \A j \in 1 .. Len(PwshDoubleEscape(c)) : PwshDoubleEscape(c)[j] # "cr"
<1> DEFINE S == Alphabet(X)
           marks == {"backtick", Dollar, QuoteMark} \cup Doubles
<1>1. Plain \subseteq S /\ c \in S
  BY DEF Alphabet
<1>2. "backtick" \in S /\ "n" \in S /\ "r" \in S
  BY <1>1, PlainHas, Zenon
<1>3. {"lf", "cr"} \cap marks = {} /\ "backtick" # "cr"
  <2>1. "lf" \notin Doubles /\ "cr" \notin Doubles
    BY QuotingAssumption
  <2>2. \A x \in {"lf", "cr"} : x # "backtick"
    OBVIOUS
  <2>3. \A x \in {"lf", "cr"} : x # Dollar /\ x # QuoteMark
    BY SymbolsDiffer, Zenon
  <2> QED
    BY <2>1, <2>2, <2>3, Zenon
<1>4. \A x, y : x # "cr" /\ y # "cr" => \A j \in 1 .. Len(<<x, y>>) : <<x, y>>[j] # "cr"
  OBVIOUS
<1>5. \A x : x # "cr" => \A j \in 1 .. Len(<<x>>) : <<x>>[j] # "cr"
  OBVIOUS
<1>6. CASE c \in {"lf", "cr"}
  <2>1. PwshDoubleEscape(c) = <<"backtick", Letter[c]>>
    BY <1>3, <1>6, Zenon DEF PwshDoubleEscape
  <2>2. Letter[c] \in {"n", "r"} /\ PwshNamed(Letter[c]) = c
    BY <1>6 DEF Letter, PwshNamed
  <2>3. Letter[c] \in S /\ Letter[c] # "cr"
    BY <2>2, <1>2
  <2>4. <<"backtick", Letter[c]>> \in Seq(S)
    <3> HIDE DEF S
    <3> QED
      BY <1>2, <2>3
  <2>5. PwshDoubleStands(<<"backtick", Letter[c]>>, <<c>>)
    BY <2>2, Zenon DEF PwshDoubleStands
  <2> QED
    BY <1>3, <1>4, <2>1, <2>3, <2>4, <2>5, Zenon
<1>7. CASE c \in marks
  <2>1. PwshDoubleEscape(c) = <<"backtick", c>>
    BY <1>3, <1>7, Zenon DEF PwshDoubleEscape
  <2>2. PwshNamed(c) = c
    <3>1. c \notin {"n", "r"}
      BY <1>7, NotPlain, SymbolsDiffer, Zenon
    <3> QED
      BY <3>1, Zenon DEF PwshNamed
  <2>3. <<"backtick", c>> \in Seq(S)
    <3> HIDE DEF S
    <3> QED
      BY <1>1, <1>2
  <2>4. PwshDoubleStands(<<"backtick", c>>, <<c>>)
    BY <2>2, Zenon DEF PwshDoubleStands
  <2>5. c # "cr"
    BY <1>3, <1>7, Zenon
  <2> QED
    BY <1>3, <1>4, <2>1, <2>3, <2>4, <2>5, Zenon
<1>8. CASE c \notin {"lf", "cr"} \cup marks
  <2>1. PwshDoubleEscape(c) = <<c>>
    BY <1>8, Zenon DEF PwshDoubleEscape
  <2>2. <<c>> \in Seq(S)
    BY <1>1, SingleTyped
  <2>3. PwshDoubleStands(<<c>>, <<c>>)
    BY <1>8, Zenon DEF PwshDoubleStands
  <2>4. c # "cr"
    BY <1>8, Zenon
  <2> QED
    BY <1>5, <2>1, <2>2, <2>3, <2>4, Zenon
<1> QED
  BY <1>6, <1>7, <1>8, Zenon

\* PowerShell reads the line that was quoted for it, through its own taking apart of it.
LEMMA PwshLineRead ==
    ASSUME NEW X, NEW t \in Seq(X)
    PROVE  PwshReads(PwshLines(PwshDoubleQuoteString(t))) = t
<1> DEFINE S == Alphabet(X)
           pieces == [i \in DOMAIN t |-> PwshDoubleEscape(t[i])]
           gots == [i \in DOMAIN t |-> <<t[i]>>]
           one == <<QuoteMark>>
           n == Len(t)
           u == PwshLines(Literal(one, pieces, one))
           even(p) == \A j \in 1 .. Len(p) : p[j] # "cr"
<1>1. n \in Nat /\ DOMAIN t = 1 .. n /\ \A i \in 1 .. n : t[i] \in X
  OBVIOUS
<1>2. \A c \in X : /\ PwshDoubleEscape(c) \in Seq(S) /\ PwshDoubleStands(PwshDoubleEscape(c), <<c>>)
                   /\ even(PwshDoubleEscape(c)) /\ <<c>> \in Seq(S)
  <2>1. \A c \in X : c \in S
    BY DEF Alphabet
  <2>2. \A c \in X : <<c>> \in Seq(S)
    <3> HIDE DEF S
    <3> QED
      BY <2>1, SingleTyped
  <2> QED
    BY <2>2, PwshDoubleStand, Zenon
<1>3. /\ pieces \in [1 .. n -> Seq(S)] /\ gots \in [1 .. n -> Seq(S)]
      /\ \A i \in 1 .. n : PwshDoubleStands(pieces[i], gots[i]) /\ even(pieces[i])
  <2> HIDE DEF S, even
  <2> QED
    BY <1>1, <1>2, Zenon
<1>4. PwshDoubleQuoteString(t) = Literal(one, pieces, one)
  BY Zenon DEF PwshDoubleQuoteString
<1>5. QuoteMark \in S
  BY PlainHas, Zenon DEF Alphabet
<1>6. FlattenSeq(gots) = t
  BY FlatSingles
<1>7. one # <<>> /\ Len(one) = 1 /\ Len(one) + 1 = 2 /\ one[1] = QuoteMark
  OBVIOUS
<1>8. one \in Seq(S)
  BY <1>5, SingleTyped
<1> HIDE DEF pieces, gots, S, even, one
<1>9. pieces \in Seq(Seq(S)) /\ gots \in Seq(Seq(S)) /\ Len(pieces) = n /\ Len(gots) = n
  BY <1>1, <1>3, SequenceIs, Zenon
<1>10. /\ Literal(one, pieces, one) \in Seq(S) /\ \A j \in 1 .. Len(one) : Literal(one, pieces, one)[j] = one[j]
       /\ \E at : Placed(at, Literal(one, pieces, one), pieces, one) /\ at[1] = Len(one) + 1
  BY <1>7, <1>8, <1>9, LiteralPlaces, ZenonT(60)
<1>11. PICK at : Placed(at, Literal(one, pieces, one), pieces, one) /\ at[1] = 2
  BY <1>7, <1>10, Zenon
<1>12. QuoteMark # "cr"
  BY SymbolsDiffer, Zenon
<1>13. Placed(at, u, pieces, one)
  <2> DEFINE w == Literal(one, pieces, one)
  <2>1. w \in Seq(S) /\ Placed(at, w, pieces, one)
    BY <1>10, <1>11, Zenon
  <2>2. \A k \in 1 .. Len(pieces) : \A j \in 1 .. Len(pieces[k]) : pieces[k][j] # "cr"
    BY <1>3, <1>9, Zenon DEF even
  <2>3. Len(one) \in Nat /\ \A j \in 1 .. Len(one) : one[j] # "cr"
    BY <1>7, <1>12
  <2> HIDE DEF w
  <2>4. Placed(at, PwshLines(w), pieces, one)
    BY <2>1, <2>2, <2>3, LinesPlaced, Zenon
  <2> QED
    BY <2>4 DEF w
<1>14. u[1] = QuoteMark
  <2> DEFINE w == Literal(one, pieces, one)
  <2>1. w \in Seq(S) /\ w[1] = QuoteMark
    BY <1>7, <1>10
  <2>2. 1 \in DOMAIN w
    <3>1. Len(w) >= 1
      <4>1. at[Len(pieces) + 1] >= 2 /\ at[Len(pieces) + 1] \in Nat /\ at[Len(pieces) + 1] + Len(one) = Len(w) + 1 /\ Len(w) \in Nat
        BY <1>11, Zenon DEF Placed
      <4> QED
        BY <4>1, <1>7
    <3> HIDE DEF w
    <3> QED
      BY <2>1, <3>1
  <2> HIDE DEF w
  <2>3. PwshLines(w)[1] = w[1]
    BY <1>12, <2>1, <2>2, Zenon DEF PwshLines
  <2> QED
    BY <2>1, <2>3, Zenon DEF w
<1>15. AllPwsh(QuoteMark = QuoteMark, pieces, gots)
  BY <1>3, <1>9, Zenon DEF AllPwsh
<1> HIDE DEF u
<1>16. PwshReads(u) = FlattenSeq(gots)
  <2>1. Placed(at, u, pieces, <<QuoteMark>>)
    BY <1>13, Zenon DEF one
  <2>2. QuoteMark \in {Apostrophe, QuoteMark}
    OBVIOUS
  <2> QED
    BY <1>9, <1>11, <1>14, <1>15, <2>1, <2>2, PwshReadsIt
<1> QED
  BY <1>4, <1>6, <1>16, Zenon DEF u

\* PowerShell reads of a path what is not dropped from it, if it has none of the quotes that
\* only PowerShell takes for one.
LEMMA PwshPathRead ==
    ASSUME NEW X, NEW t \in Seq(X), \A i \in 1 .. Len(t) : t[i] \notin Singles
    PROVE  PwshReads(PwshQuoteString(t)) = Without(t, Control \cup LineSeparators)
<1> DEFINE S == Alphabet(X)
           D == Control \cup LineSeparators
           got(c) == IF c \in D THEN <<>> ELSE <<c>>
           pieces == [i \in DOMAIN t |-> PwshEscape(t[i])]
           gots == [i \in DOMAIN t |-> got(t[i])]
           one == <<Apostrophe>>
           n == Len(t)
           u == Literal(one, pieces, one)
<1>1. n \in Nat /\ DOMAIN t = 1 .. n /\ \A i \in 1 .. n : t[i] \in X /\ t[i] \notin Singles
  OBVIOUS
<1>5. Apostrophe \in S /\ \A c \in X : c \in S
  BY PlainHas, Zenon DEF Alphabet
<1>6. <<>> \in Seq(S) /\ <<Apostrophe, Apostrophe>> \in Seq(S) /\ \A c \in X : <<c>> \in Seq(S)
  <2> HIDE DEF S
  <2> QED
    BY <1>5
<1>2. ASSUME NEW c \in X, c \notin Singles PROVE PwshEscape(c) \in Seq(S) /\ PwshStands(PwshEscape(c), got(c)) /\ got(c) \in Seq(S)
  <2>1. c \in D => c # Apostrophe
    BY NotPlain, Zenon DEF Unsafe
  <2>2. CASE c \in D
    <3>1. PwshEscape(c) = <<>> /\ got(c) = <<>>
      BY <2>1, <2>2, Zenon DEF PwshEscape
    <3> QED
      BY <3>1, <1>6, Zenon DEF PwshStands
  <2>3. CASE c = Apostrophe
    <3>1. PwshEscape(c) = <<Apostrophe, Apostrophe>> /\ got(c) = <<Apostrophe>>
      BY <2>1, <2>3, Zenon DEF PwshEscape
    <3>2. PwshStands(<<Apostrophe, Apostrophe>>, <<Apostrophe>>)
      BY Zenon DEF PwshStands
    <3> QED
      BY <3>1, <3>2, <2>3, <1>6, Zenon
  <2>4. CASE c # Apostrophe /\ c \notin D
    <3>1. PwshEscape(c) = <<c>> /\ got(c) = <<c>>
      BY <2>4, Zenon DEF PwshEscape
    <3>2. PwshStands(<<c>>, <<c>>)
      BY <1>2, <2>4, Zenon DEF PwshStands
    <3> QED
      BY <3>1, <3>2, <1>6, Zenon
  <2> QED
    BY <2>2, <2>3, <2>4, Zenon
<1>7. FlattenSeq(gots) = Without(t, D)
  BY Zenon DEF Without
<1>3. /\ pieces \in [1 .. n -> Seq(S)] /\ gots \in [1 .. n -> Seq(S)]
      /\ \A i \in 1 .. n : PwshStands(pieces[i], gots[i])
  <2> HIDE DEF S
  <2>1. \A i \in 1 .. n : pieces[i] = PwshEscape(t[i]) /\ gots[i] = got(t[i])
    BY <1>1
  <2> HIDE DEF got
  <2>2. \A i \in 1 .. n : pieces[i] \in Seq(S) /\ gots[i] \in Seq(S) /\ PwshStands(pieces[i], gots[i])
    BY <1>1, <1>2, <2>1, Zenon
  <2> QED
    BY <1>1, <2>2, Zenon
<1>4. PwshQuoteString(t) = u
  BY Zenon DEF PwshQuoteString
<1>8. one # <<>> /\ Len(one) = 1 /\ Len(one) + 1 = 2 /\ one[1] = Apostrophe
  OBVIOUS
<1>9. one \in Seq(S)
  BY <1>5, SingleTyped
<1> HIDE DEF pieces, gots, S, one, got
<1>10. pieces \in Seq(Seq(S)) /\ gots \in Seq(Seq(S)) /\ Len(pieces) = n /\ Len(gots) = n
  BY <1>1, <1>3, SequenceIs, Zenon
<1>11. /\ u \in Seq(S) /\ \A j \in 1 .. Len(one) : u[j] = one[j]
       /\ \E at : Placed(at, u, pieces, one) /\ at[1] = Len(one) + 1
  <2>1. one # <<>> /\ one \in Seq(S) /\ pieces \in Seq(Seq(S))
    BY <1>8, <1>9, <1>10
  <2>2. /\ Literal(one, pieces, one) \in Seq(S) /\ \A j \in 1 .. Len(one) : Literal(one, pieces, one)[j] = one[j]
        /\ \E at : Placed(at, Literal(one, pieces, one), pieces, one) /\ at[1] = Len(one) + 1
    BY <2>1, LiteralPlaces, ZenonT(60)
  <2> QED
    BY <2>2, Zenon
<1> HIDE DEF u
<1>12. PICK at : Placed(at, u, pieces, one) /\ at[1] = 2
  BY <1>8, <1>11, Zenon
<1>13. u[1] = Apostrophe
  BY <1>8, <1>11
<1>14. AllPwsh(Apostrophe = QuoteMark, pieces, gots)
  BY <1>3, <1>10, SymbolsDiffer, Zenon DEF AllPwsh
<1>15. PwshReads(u) = FlattenSeq(gots)
  <2>1. Placed(at, u, pieces, <<Apostrophe>>)
    BY <1>12, Zenon DEF one
  <2>2. Apostrophe \in {Apostrophe, QuoteMark}
    OBVIOUS
  <2> QED
    BY <1>10, <1>12, <1>13, <1>14, <2>1, <2>2, PwshReadsIt
<1> QED
  BY <1>4, <1>7, <1>15, Zenon

-----------------------------------------------------------------------------
\* Two functions that agree everywhere are the same.
LEMMA SameFunctions ==
    ASSUME NEW D, NEW X, NEW f \in [D -> X], NEW g \in [D -> X], \A x \in D : f[x] = g[x]
    PROVE  f = g
OBVIOUS

\* A line is what is before the caret and what is after it.
LEMMA SplitsAtCaret ==
    ASSUME NEW X, NEW line \in Seq(X), NEW caret \in 0 .. Len(line)
    PROVE  LET left  == SubSeq(line, 1, caret)
               right == SubSeq(line, caret + 1, Len(line))
           IN  left \in Seq(X) /\ right \in Seq(X) /\ left \o right = line /\ Len(left) = caret
<1> DEFINE n == Len(line)
           left == SubSeq(line, 1, caret)
           right == SubSeq(line, caret + 1, n)
<1>1. n \in Nat /\ caret \in Nat /\ caret <= n /\ line \in [1 .. n -> X]
  OBVIOUS
<1>2. left \in Seq(X) /\ Len(left) = caret /\ \A k \in 1 .. caret : left[k] = line[k]
  BY <1>1
<1>3. right \in Seq(X) /\ Len(right) = n - caret /\ \A k \in 1 .. n - caret : right[k] = line[caret + k]
  <2> DEFINE i == caret + 1
  <2>1. i \in 1 .. n + 1 /\ n \in 0 .. n
    BY <1>1
  <2> HIDE DEF i
  <2>2. /\ SubSeq(line, i, n) \in Seq(X)
        /\ Len(SubSeq(line, i, n)) = IF i <= n THEN n - i + 1 ELSE 0
        /\ \A k \in 1 .. Len(SubSeq(line, i, n)) : SubSeq(line, i, n)[k] = line[i + k - 1]
    BY <2>1, PartTyped
  <2>3. (IF i <= n THEN n - i + 1 ELSE 0) = n - caret
    <3> HIDE DEF n
    <3> QED
      BY <1>1 DEF i
  <2>4. \A k \in 1 .. n - caret : i + k - 1 = caret + k
    BY <1>1 DEF i
  <2> QED
    BY <2>2, <2>3, <2>4, Zenon DEF i
<1> HIDE DEF left, right
<1>4. /\ left \o right \in Seq(X) /\ Len(left \o right) = caret + (n - caret)
      /\ \A k \in 1 .. caret : (left \o right)[k] = left[k]
      /\ \A k \in 1 .. n - caret : (left \o right)[caret + k] = right[k]
  <2>1. /\ left \o right \in Seq(X) /\ Len(left \o right) = Len(left) + Len(right)
        /\ \A k \in 1 .. Len(left) : (left \o right)[k] = left[k]
        /\ \A k \in 1 .. Len(right) : (left \o right)[Len(left) + k] = right[k]
    BY <1>2, <1>3, JoinIs
  <2> QED
    BY <1>2, <1>3, <2>1, Zenon
<1> DEFINE both == left \o right
<1> HIDE DEF both, n
<1>5. both \in Seq(X) /\ Len(both) = n
  BY <1>1, <1>4 DEF both
<1>6. ASSUME NEW k \in 1 .. n PROVE both[k] = line[k]
  <2>1. CASE k <= caret
    <3>1. k \in 1 .. caret
      BY <2>1, <1>1
    <3> QED
      BY <3>1, <1>2, <1>4, Zenon DEF both
  <2>2. CASE k > caret
    <3> DEFINE j == k - caret
    <3>1. j \in 1 .. n - caret /\ caret + j = k
      BY <2>2, <1>1
    <3> HIDE DEF j
    <3> QED
      BY <3>1, <1>3, <1>4, Zenon DEF both
  <2> QED
    BY <2>1, <2>2, <1>1
<1>7. both = line
  <2>1. both \in [1 .. n -> X]
    BY <1>5
  <2>2. line \in [1 .. n -> X]
    BY <1>1
  <2> QED
    <3> DEFINE D == 1 .. n
    <3>1. both \in [D -> X] /\ line \in [D -> X] /\ \A k \in D : both[k] = line[k]
      BY <1>6, <2>1, <2>2, Zenon
    <3> HIDE DEF D
    <3> QED
      BY <3>1, SameFunctions
<1> QED
  BY <1>2, <1>3, <1>7, Zenon DEF both, n, left, right

\* Whatever the line and wherever the caret: each shell has both as they were meant.
LEMMA ReceivedIs ==
    ASSUME NEW X, NEW line \in Seq(X), NEW caret \in 0 .. Len(line), NEW sh \in {"bash", "zsh", "pwsh", "clink", "nu"}
    PROVE  Received(sh, line, caret) = [line |-> line, caret |-> caret]
<1> DEFINE left == SubSeq(line, 1, caret)
           right == SubSeq(line, caret + 1, Len(line))
<1>1. left \in Seq(X) /\ right \in Seq(X) /\ left \o right = line /\ Len(left) = caret
  BY SplitsAtCaret, Zenon
<1> HIDE DEF left, right
<1>2. /\ BashReads(BashQuoteBuffer(line)) = line
      /\ BashReads(BashQuoteBuffer(left)) = left
      /\ BashReads(BashQuoteBuffer(right)) = right
  BY <1>1, BashBufferRead
<1>3. PwshReads(PwshLines(PwshDoubleQuoteString(line))) = line
  BY PwshLineRead
<1>4. DoubleReads(LuaQuoteString(line), "lua") = line
  BY LuaRead
<1>5. DoubleReads(JsonString(line), "json") = line
  BY JsonRead
<1>6. \A a, b \in {"bash", "zsh", "pwsh", "clink", "nu"} : a = b \/ a # b
  OBVIOUS
<1>7. /\ "bash" \notin {"zsh", "pwsh", "clink", "nu"} /\ "zsh" \notin {"pwsh", "clink", "nu"}
      /\ "pwsh" \notin {"clink", "nu"} /\ "clink" # "nu"
  OBVIOUS
<1>8. CASE sh = "bash"
  BY <1>2, <1>7, <1>8, Zenon DEF Received
<1>9. CASE sh = "zsh"
  <2>1. Received(sh, line, caret) = [line |-> left \o right, caret |-> Len(left)]
    BY <1>2, <1>7, <1>9, Zenon DEF Received, left, right
  <2> QED
    BY <1>1, <2>1, Zenon
<1>10. CASE sh = "pwsh"
  BY <1>3, <1>7, <1>10, Zenon DEF Received
<1>11. CASE sh = "clink"
  BY <1>4, <1>7, <1>11, Zenon DEF Received
<1>12. CASE sh = "nu"
  BY <1>5, <1>7, <1>12, Zenon DEF Received
<1> QED
  BY <1>8, <1>9, <1>10, <1>11, <1>12, Zenon

-----------------------------------------------------------------------------
\* nu: the backslash of a dollar sign is not doubled within a string.
Dollared(w, i) == w[i] = Backslash /\ i < Len(w) /\ w[i + 1] = Dollar
EmbedStep(w, i) ==
    CASE Dollared(w, i) -> Step(<<Backslash, Dollar>>, i + 2)
      [] ~Dollared(w, i) /\ w[i] \in {Backslash, QuoteMark} -> Step(<<Backslash, w[i]>>, i + 1)
      [] OTHER -> Step(<<w[i]>>, i + 1)
EmbedSteps(w) == [i \in DOMAIN w |-> EmbedStep(w, i)]
EmbedFrom(w, i) == IF i \in DOMAIN w THEN Scan(EmbedSteps(w), i) ELSE <<>>

\* What comes of each symbol, and what nu reads there from within the string.
AfterIts(w, j) == j > 1 /\ Dollared(w, j - 1)
Embedded(w) == [j \in 1 .. Len(w) |-> IF Dollared(w, j) THEN <<>>
                                      ELSE IF w[j] \in {Backslash, QuoteMark} \/ AfterIts(w, j) THEN <<Backslash, w[j]>>
                                      ELSE <<w[j]>>]
Bared(w) == [j \in 1 .. Len(w) |-> IF Dollared(w, j) THEN <<>> ELSE <<w[j]>>]

EmbedFollows(w, i, out, j) == EmbedFrom(w, i) = out \o EmbedFrom(w, j)
EmbedFollowing(w) == \A i, out, j : i \in DOMAIN w /\ EmbedStep(w, i) = Step(out, j) => EmbedFollows(w, i, out, j)

\* It goes through the literal from left to right.
LEMMA EmbedFromIs == ASSUME NEW S, NEW w \in Seq(S) PROVE EmbedFollowing(w)
<1> DEFINE steps == EmbedSteps(w)
           n == Len(w)
<1>1. n \in Nat /\ DOMAIN w = 1 .. n
  OBVIOUS
<1>2. DOMAIN steps = 1 .. n /\ \A i \in 1 .. n : steps[i] = EmbedStep(w, i)
  BY <1>1, Zenon DEF EmbedSteps
<1> HIDE DEF steps, n
<1>3. ASSUME NEW i \in 1 .. n PROVE steps[i].next \in Nat /\ (steps[i].next = 0 \/ i < steps[i].next)
  <2>1. (\E out : steps[i] = Step(out, i + 1)) \/ (\E out : steps[i] = Step(out, i + 2))
    BY <1>2, Zenon DEF EmbedStep
  <2>2. \A out, j : Step(out, j).next = j
    BY DEF Step
  <2>3. steps[i].next \in {i + 1, i + 2}
    BY <2>1, <2>2, ZenonT(60)
  <2> QED
    BY <1>1, <2>3
<1>4. 1 \in Nat /\ 1 > 0
  OBVIOUS
<1>5. GoesRight(steps, 1, n)
  BY <1>1, <1>2, <1>3, <1>4, Zenon DEF GoesRight
<1>6. Following(steps)
  BY <1>4, <1>5, ForwardIs
<1> SUFFICES ASSUME NEW i, NEW out, NEW j, i \in DOMAIN w, EmbedStep(w, i) = Step(out, j)
             PROVE  EmbedFollows(w, i, out, j)
  BY Zenon DEF EmbedFollowing
<1>7. Follows(steps, i, out, j)
  BY <1>1, <1>2, <1>6, Zenon DEF Following
<1> QED
  BY <1>1, <1>2, <1>7, Zenon DEF Follows, EmbedFollows, EmbedFrom, steps

\* What comes of all is what comes of each.
LEMMA EmbeddedIs ==
    ASSUME NEW S, NEW w \in Seq(S), {Backslash, Dollar} \subseteq S
    PROVE  Embedded(w) \in Seq(Seq(S)) /\ Len(Embedded(w)) = Len(w) /\ EmbedFrom(w, 1) = FlattenSeq(Embedded(w))
<1> DEFINE n == Len(w)
           pieces == Embedded(w)
           v == [j \in 1 .. n + 1 |-> IF AfterIts(w, j) THEN <<Backslash, Dollar>> \o EmbedFrom(w, j + 1) ELSE EmbedFrom(w, j)]
<1>1. n \in Nat /\ DOMAIN w = 1 .. n /\ \A i \in 1 .. n : w[i] \in S
  OBVIOUS
<1>2. \A j \in 1 .. n : pieces[j] = IF Dollared(w, j) THEN <<>>
                                    ELSE IF w[j] \in {Backslash, QuoteMark} \/ AfterIts(w, j) THEN <<Backslash, w[j]>>
                                    ELSE <<w[j]>>
  BY Zenon DEF Embedded
<1>3. \A j \in 1 .. n : <<>> \in Seq(S) /\ <<Backslash, w[j]>> \in Seq(S) /\ <<w[j]>> \in Seq(S)
  BY <1>1
<1>4. pieces \in Seq(Seq(S)) /\ Len(pieces) = n
  <2>1. pieces \in [1 .. n -> Seq(S)]
    BY <1>2, <1>3, Zenon DEF Embedded
  <2> QED
    BY <1>1, <2>1, SequenceIs, Zenon
<1>5. EmbedFollowing(w)
  BY EmbedFromIs
<1>6. \A j \in 1 .. n + 1 : v[j] = IF AfterIts(w, j) THEN <<Backslash, Dollar>> \o EmbedFrom(w, j + 1) ELSE EmbedFrom(w, j)
  BY Zenon
<1>7. Backslash # Dollar /\ QuoteMark # Dollar
  BY SymbolsDiffer, Zenon
<1>8. \A j \in 1 .. n : j + 1 > 1 /\ (j + 1) - 1 = j /\ j \in 1 .. n + 1 /\ j + 1 \in 1 .. n + 1 /\ j + 2 = (j + 1) + 1 /\ (j - 1) + 1 = j
  BY <1>1
<1>9. \A j \in 1 .. n : (AfterIts(w, j + 1) <=> Dollared(w, j)) /\ (AfterIts(w, j) => w[j] = Dollar) /\ (AfterIts(w, j) => ~Dollared(w, j))
  BY <1>7, <1>8, Zenon DEF AfterIts, Dollared
<1> HIDE DEF pieces, v, n
<1>10. v[n + 1] = <<>>
  <2>1. n + 1 \in 1 .. n + 1 /\ n + 1 \notin 1 .. n /\ ~(n < n) /\ (n + 1) - 1 = n
    BY <1>1
  <2>2. ~AfterIts(w, n + 1)
    BY <2>1, Zenon DEF AfterIts, Dollared, n
  <2> QED
    BY <1>1, <1>6, <2>1, <2>2, Zenon DEF EmbedFrom
<1>11. ASSUME NEW j \in 1 .. n, v[j + 1] \in Seq(S) PROVE v[j] = pieces[j] \o v[j + 1]
  <2>1. j \in DOMAIN w
    BY <1>1
  <2>2. CASE Dollared(w, j)
    <3>1. EmbedStep(w, j) = Step(<<Backslash, Dollar>>, j + 2)
      BY <2>2, Zenon DEF EmbedStep
    <3>2. EmbedFollows(w, j, <<Backslash, Dollar>>, j + 2)
      BY <1>5, <2>1, <3>1, Zenon DEF EmbedFollowing
    <3>3. v[j + 1] = <<Backslash, Dollar>> \o EmbedFrom(w, j + 2)
      BY <1>6, <1>8, <1>9, <2>2, ZenonT(60)
    <3>4. v[j] = EmbedFrom(w, j)
      BY <1>6, <1>8, <1>9, <2>2, Zenon
    <3>5. v[j] = v[j + 1] /\ pieces[j] = <<>>
      BY <1>2, <2>2, <3>2, <3>3, <3>4, Zenon DEF EmbedFollows
    <3>6. <<>> \o v[j + 1] = v[j + 1]
      BY <1>11, ConcatEmptySeq, Zenon
    <3> QED
      BY <3>5, <3>6, Zenon
  <2>3. CASE AfterIts(w, j)
    <3>1. w[j] = Dollar /\ ~Dollared(w, j)
      BY <1>9, <2>3, Zenon
    <3>2. pieces[j] = <<Backslash, Dollar>>
      BY <1>2, <2>3, <3>1, Zenon
    <3>3. v[j + 1] = EmbedFrom(w, j + 1)
      BY <1>6, <1>8, <1>9, <3>1, Zenon
    <3>4. v[j] = <<Backslash, Dollar>> \o EmbedFrom(w, j + 1)
      BY <1>6, <1>8, <2>3, Zenon
    <3> QED
      BY <3>2, <3>3, <3>4, Zenon
  <2>4. CASE ~Dollared(w, j) /\ ~AfterIts(w, j)
    <3>1. EmbedStep(w, j) = Step(pieces[j], j + 1)
      <4>1. CASE w[j] \in {Backslash, QuoteMark}
        BY <1>2, <2>4, <4>1, Zenon DEF EmbedStep
      <4>2. CASE w[j] \notin {Backslash, QuoteMark}
        BY <1>2, <2>4, <4>2, Zenon DEF EmbedStep
      <4> QED
        BY <4>1, <4>2
    <3>2. EmbedFollows(w, j, pieces[j], j + 1)
      BY <1>5, <2>1, <3>1, Zenon DEF EmbedFollowing
    <3>3. v[j + 1] = EmbedFrom(w, j + 1) /\ v[j] = EmbedFrom(w, j)
      BY <1>6, <1>8, <1>9, <2>4, Zenon
    <3> QED
      BY <3>2, <3>3, Zenon DEF EmbedFollows
  <2> QED
    BY <2>2, <2>3, <2>4, Zenon
<1>12. <<>> \in Seq(S)
  OBVIOUS
<1>13. FromTheRight(v, S, pieces, <<>>)
  BY <1>4, <1>10, <1>11, Zenon DEF FromTheRight
<1>14. v[1] = FlattenSeq(pieces) \o <<>>
  <2> DEFINE z == <<>>
  <2>1. z \in Seq(S) /\ FromTheRight(v, S, pieces, z)
    BY <1>12, <1>13, Zenon
  <2> HIDE DEF z
  <2>2. v[1] = FlattenSeq(pieces) \o z
    BY <1>4, <2>1, RightIsFlat
  <2> QED
    BY <2>2 DEF z
<1>15. FlattenSeq(pieces) \o <<>> = FlattenSeq(pieces)
  <2>1. FlattenSeq(pieces) \in Seq(S)
    BY <1>4, FlattenTyped
  <2> QED
    BY <2>1, ConcatEmptySeq
<1>16. v[1] = EmbedFrom(w, 1)
  <2>1. 1 \in 1 .. n + 1 /\ ~(1 > 1)
    BY <1>1
  <2> QED
    BY <1>6, <2>1, Zenon DEF AfterIts
<1> QED
  BY <1>4, <1>14, <1>15, <1>16, Zenon DEF pieces, n

\* Within the string nu reads the literal, but for the backslashes of its dollar signs.
LEMMA EmbeddedReads ==
    ASSUME NEW S, NEW w \in Seq(S), {Backslash, Dollar, QuoteMark} \subseteq S
    PROVE  /\ Bared(w) \in Seq(Seq(S))
           /\ DoubleReads(<<QuoteMark>> \o EmbedFrom(w, 1) \o <<QuoteMark>>, "nu") = FlattenSeq(Bared(w))
<1> DEFINE n == Len(w)
           pieces == Embedded(w)
           gots == Bared(w)
<1>1. n \in Nat /\ \A i \in 1 .. n : w[i] \in S
  OBVIOUS
<1>2. pieces \in Seq(Seq(S)) /\ Len(pieces) = n /\ EmbedFrom(w, 1) = FlattenSeq(pieces)
  BY EmbeddedIs
<1>3. /\ \A j \in 1 .. n : pieces[j] = IF Dollared(w, j) THEN <<>>
                                       ELSE IF w[j] \in {Backslash, QuoteMark} \/ AfterIts(w, j) THEN <<Backslash, w[j]>>
                                       ELSE <<w[j]>>
      /\ \A j \in 1 .. n : gots[j] = IF Dollared(w, j) THEN <<>> ELSE <<w[j]>>
  BY Zenon DEF Embedded, Bared
<1>4. Len(pieces) = n
  BY <1>2
<1>5. gots \in Seq(Seq(S)) /\ Len(gots) = n
  <2>1. \A j \in 1 .. n : <<>> \in Seq(S) /\ <<w[j]>> \in Seq(S)
    BY <1>1
  <2>2. gots \in [1 .. n -> Seq(S)]
    BY <1>3, <2>1, Zenon DEF Bared
  <2> QED
    BY <1>1, <2>2, SequenceIs, Zenon
<1>6. Backslash # Dollar /\ QuoteMark # Dollar /\ \A c \in {Backslash, QuoteMark, Dollar} : Named(c) = c
  <2>1. \A c \in {Backslash, QuoteMark, Dollar} : c \notin {"n", "r", "t"}
    BY SymbolsDiffer, Zenon
  <2> QED
    BY <2>1, SymbolsDiffer, LettersRead, Zenon
<1>7. "nu" # "lua" /\ "nu" # "json"
  OBVIOUS
<1>8. \A j \in 1 .. n : AfterIts(w, j) => w[j] = Dollar
  <2>1. \A j \in 1 .. n : (j - 1) + 1 = j
    OBVIOUS
  <2> QED
    BY <2>1, Zenon DEF AfterIts, Dollared
<1> HIDE DEF pieces, gots, n
<1>9. ASSUME NEW j \in 1 .. n PROVE DoubleStands(pieces[j], gots[j], "nu")
  <2>1. CASE Dollared(w, j)
    BY <1>3, <2>1, Zenon DEF DoubleStands
  <2>2. CASE ~Dollared(w, j) /\ (w[j] \in {Backslash, QuoteMark} \/ AfterIts(w, j))
    <3>1. pieces[j] = <<Backslash, w[j]>> /\ gots[j] = <<w[j]>>
      BY <1>3, <2>2, Zenon
    <3>2. Named(w[j]) = w[j]
      BY <1>6, <1>8, <2>2, Zenon
    <3>3. DoubleStands(<<Backslash, w[j]>>, <<Named(w[j])>>, "nu")
      BY <1>7, Zenon DEF DoubleStands
    <3> QED
      BY <3>1, <3>2, <3>3, Zenon
  <2>3. CASE ~Dollared(w, j) /\ w[j] \notin {Backslash, QuoteMark} /\ ~AfterIts(w, j)
    <3>1. pieces[j] = <<w[j]>> /\ gots[j] = <<w[j]>>
      BY <1>3, <2>3, Zenon
    <3>2. DoubleStands(<<w[j]>>, <<w[j]>>, "nu")
      BY <2>3, Zenon DEF DoubleStands
    <3> QED
      BY <3>1, <3>2, Zenon
  <2> QED
    BY <2>1, <2>2, <2>3, Zenon
<1>10. AllDouble(pieces, gots, "nu")
  BY <1>4, <1>5, <1>9, Zenon DEF AllDouble
<1>11. DoubleReads(Literal(<<QuoteMark>>, pieces, <<QuoteMark>>), "nu") = FlattenSeq(gots)
  <2>1. QuoteMark \in S
    OBVIOUS
  <2> QED
    BY <1>2, <1>5, <1>10, <2>1, DoubleReadsIt
<1> QED
  BY <1>2, <1>5, <1>11, Zenon DEF Literal, gots
-----------------------------------------------------------------------------

\* From each piece on, what is put together of it and of those after it.
RestOf(v, S, pieces) ==
    /\ v[1] = FlattenSeq(pieces) /\ v[Len(pieces) + 1] = <<>>
    /\ \A k \in 1 .. Len(pieces) : v[k] = pieces[k] \o v[k + 1]
    /\ \A k \in 1 .. Len(pieces) + 1 : v[k] \in Seq(S)

\* There is such a rest from each piece on.
LEMMA FlatRight ==
    ASSUME NEW S, NEW pieces \in Seq(Seq(S))
    PROVE  \E v : RestOf(v, S, pieces)
<1> DEFINE n == Len(pieces)
           z == <<>>
           steps == [j \in 1 .. n |-> Step(pieces[j], j + 1)]
           v == [j \in 1 .. n + 1 |-> IF j \in 1 .. n THEN Scan(steps, j) ELSE z]
<1>1. n \in Nat /\ \A j \in 1 .. n : pieces[j] \in Seq(S)
  OBVIOUS
<1>2. z \in Seq(S)
  OBVIOUS
<1>3. DOMAIN steps = 1 .. n /\ \A j \in 1 .. n : steps[j] = Step(pieces[j], j + 1)
  BY Zenon
<1>4. \A out, j : Step(out, j).next = j
  BY DEF Step
<1>5. \A j \in 1 .. n : j + 1 \in Nat /\ j < j + 1 /\ j \in 1 .. n + 1 /\ j + 1 \in 1 .. n + 1 /\ (j + 1 \notin 1 .. n => j + 1 = n + 1)
  BY <1>1
<1>6. n + 1 \in 1 .. n + 1 /\ n + 1 \notin 1 .. n /\ 1 \in Nat /\ 1 > 0 /\ 1 \in 1 .. n + 1
  BY <1>1
<1>7. \A j \in 1 .. n + 1 : v[j] = IF j \in 1 .. n THEN Scan(steps, j) ELSE z
  BY Zenon
<1> HIDE DEF n, steps, v, z
<1>8. GoesRight(steps, 1, n)
  <2>1. \A j \in 1 .. n : steps[j].next = j + 1
    BY <1>3, <1>4, Zenon
  <2>2. \A j \in 1 .. n : steps[j].next \in Nat /\ (steps[j].next = 0 \/ j < steps[j].next)
    BY <1>5, <2>1, Zenon
  <2> QED
    BY <1>1, <1>3, <1>6, <2>2, Zenon DEF GoesRight
<1>9. Following(steps)
  BY <1>6, <1>8, ForwardIs
<1>10. v[n + 1] = z
  BY <1>6, <1>7, Zenon
<1>11. ASSUME NEW k \in 1 .. n PROVE v[k] = pieces[k] \o v[k + 1]
  <2>1. Follows(steps, k, pieces[k], k + 1)
    BY <1>3, <1>9, Zenon DEF Following
  <2>2. v[k] = Scan(steps, k)
    BY <1>5, <1>7, Zenon
  <2>3. CASE k + 1 \in 1 .. n
    BY <2>1, <2>2, <2>3, <1>3, <1>5, <1>7, Zenon DEF Follows
  <2>4. CASE k + 1 \notin 1 .. n
    <3>1. v[k + 1] = z
      BY <2>4, <1>5, <1>7, Zenon
    <3>2. Scan(steps, k) = pieces[k] \o <<>>
      BY <2>1, <2>4, <1>3, Zenon DEF Follows
    <3> QED
      BY <2>2, <3>1, <3>2, Zenon DEF z
  <2> QED
    BY <2>3, <2>4, Zenon
<1>12. \A k \in 1 .. n + 1 : v[k] \in Seq(S)
  <2> DEFINE T == { k \in 1 .. n + 1 : v[k] \in Seq(S) }
  <2>1. n + 1 \in T
    BY <1>2, <1>6, <1>10, Zenon
  <2>2. ASSUME NEW i \in 1 .. n, \A j \in i + 1 .. n + 1 : j \in T PROVE i \in T
    <3>1. i + 1 \in i + 1 .. n + 1
      BY <1>1
    <3>2. v[i + 1] \in Seq(S)
      BY <2>2, <3>1, Zenon
    <3>3. pieces[i] \o v[i + 1] \in Seq(S)
      BY <1>1, <3>2, ConcatProperties
    <3> QED
      BY <1>5, <1>11, <3>3, Zenon
  <2> HIDE DEF T
  <2>3. \A i \in 1 .. n + 1 : i \in T
    BY <1>1, <2>1, <2>2, InductionDown, Zenon
  <2> QED
    BY <2>3, Zenon DEF T
<1>13. FromTheRight(v, S, pieces, z)
  BY <1>10, <1>11, Zenon DEF FromTheRight, n
<1>14. v[1] = FlattenSeq(pieces) \o z
  BY <1>2, <1>13, RightIsFlat
<1>15. FlattenSeq(pieces) \o z = FlattenSeq(pieces)
  <2>1. FlattenSeq(pieces) \in Seq(S)
    BY FlattenTyped
  <2> QED
    BY <2>1, ConcatEmptySeq, Zenon DEF z
<1> QED
  BY <1>10, <1>11, <1>12, <1>14, <1>15, Zenon DEF RestOf, n, z

-----------------------------------------------------------------------------
\* What nu's literal writes for a symbol, and what of it the string around it leaves.
BareStands(piece, bare) ==
    \/ piece = <<>> /\ bare = <<>>
    \/ \E c : c # Backslash /\ c # Dollar /\ piece = <<c>> /\ bare = <<c>>
    \/ \E c : c # Dollar /\ piece = <<Backslash, c>> /\ bare = <<Backslash, c>>
    \/ piece = <<Backslash, Dollar>> /\ bare = <<Dollar>>
AllBare(pieces, bares) ==
    Len(bares) = Len(pieces) /\ \A k \in 1 .. Len(pieces) : BareStands(pieces[k], bares[k])

\* Two symbols one after the other.
LEMMA TwoSymbols == ASSUME NEW a, NEW b PROVE <<a>> \o <<b>> = <<a, b>>
<1>1. Append(<<a>>, b) = <<a>> \o <<b>>
  <2> DEFINE S == {a, b}
  <2>1. <<a>> \in Seq(S) /\ b \in S
    BY SingleTyped
  <2> HIDE DEF S
  <2> QED
    BY <2>1, AppendIsConcat
<1>2. Append(<<a>>, b) = <<a, b>>
  <2> DEFINE S == {a, b}
             u == Append(<<a>>, b)
             v == <<a, b>>
             D == 1 .. 2
  <2>1. u \in Seq(S) /\ Len(u) = 2 /\ u[1] = a /\ u[2] = b
    <3>1. <<a>> \in Seq(S) /\ Len(<<a>>) = 1 /\ <<a>>[1] = a /\ b \in S /\ 1 \in 1 .. 1 /\ 1 + 1 = 2
      BY SingleTyped
    <3> DEFINE l == <<a>>
    <3> HIDE DEF l, S
    <3>2. Append(l, b) \in Seq(S) /\ Len(Append(l, b)) = 2 /\ Append(l, b)[1] = a /\ Append(l, b)[2] = b
      BY <3>1 DEF l
    <3> QED
      BY <3>2 DEF l
  <2>2. v \in Seq(S) /\ Len(v) = 2 /\ v[1] = a /\ v[2] = b
    OBVIOUS
  <2> HIDE DEF S, u, v
  <2>3. u \in [1 .. 2 -> S] /\ v \in [1 .. 2 -> S]
    <3>1. \A q \in Seq(S) : q \in [1 .. Len(q) -> S]
      OBVIOUS
    <3> QED
      BY <2>1, <2>2, <3>1, Zenon
  <2>4. \A i \in D : i = 1 \/ i = 2
    OBVIOUS
  <2>5. \A i \in D : u[i] = v[i]
    BY <2>1, <2>2, <2>4, Zenon
  <2> HIDE DEF D
  <2>6. u \in [D -> S] /\ v \in [D -> S]
    BY <2>3, Zenon DEF D
  <2>7. u = v
    BY <2>5, <2>6, SameFunctions
  <2> QED
    BY <2>7, Zenon DEF u, v
<1> QED
  BY <1>1, <1>2, Zenon

\* Two symbols of a text, and where they end.
PairAt(w, a, b, c, d) ==
    /\ b = (a + 1) + 1 /\ w[a] = c /\ w[a + 1] = d
    /\ a \in 1 .. Len(w) /\ a + 1 \in 1 .. Len(w) /\ a < Len(w)

\* What is left of the literal is a literal without the backslashes of its dollar signs.
LEMMA BareIs ==
    ASSUME NEW S, NEW w \in Seq(S), NEW pieces \in Seq(Seq(S)), NEW bares \in Seq(Seq(S)), NEW at,
           Placed(at, w, pieces, <<QuoteMark>>), at[1] = 3, w[1] = Circumflex, w[2] = QuoteMark, AllBare(pieces, bares)
    PROVE  FlattenSeq(Bared(w)) = <<Circumflex>> \o (<<QuoteMark>> \o (FlattenSeq(bares) \o <<QuoteMark>>))
<1> DEFINE n == Len(pieces)
           e == at[n + 1]
           one == <<QuoteMark>>
           B == Bared(w)
<1>1. one # <<>> /\ Len(one) = 1 /\ one[1] = QuoteMark /\ n \in Nat
  OBVIOUS
<1>2. /\ \A k \in 1 .. n : Stands(w, at[k], pieces[k]) /\ at[k + 1] = at[k] + Len(pieces[k])
      /\ e \in Nat /\ e >= 2 /\ Len(w) \in Nat
      /\ e + Len(one) = Len(w) + 1
      /\ \A j \in 1 .. Len(one) : w[e + j - 1] = one[j]
  BY Zenon DEF Placed
<1> HIDE DEF e
<1>3. e = Len(w) /\ w[e] = QuoteMark
  BY <1>1, <1>2
<1>4. Backslash # Dollar /\ QuoteMark # Dollar /\ QuoteMark # Backslash /\ Circumflex # Backslash
  BY SymbolsDiffer, Zenon
<1>5. Len(bares) = n /\ \A k \in 1 .. n : BareStands(pieces[k], bares[k])
  BY Zenon DEF AllBare
<1>6. \A j \in 1 .. Len(w) : w[j] \in S /\ B[j] = IF Dollared(w, j) THEN <<>> ELSE <<w[j]>>
  <2>1. \A j \in 1 .. Len(w) : w[j] \in S
    OBVIOUS
  <2> QED
    BY <2>1, Zenon DEF Bared
<1>7. B \in Seq(Seq(S)) /\ Len(B) = Len(w)
  <2>1. \A j \in 1 .. Len(w) : <<>> \in Seq(S) /\ <<w[j]>> \in Seq(S)
    OBVIOUS
  <2>2. B \in [1 .. Len(w) -> Seq(S)]
    BY <2>1, Zenon DEF Bared
  <2> QED
    BY <1>2, <2>2, SequenceIs, Zenon
<1> HIDE DEF B, n, one
<1>8. PICK r : RestOf(r, S, B)
  BY <1>7, FlatRight
<1>9. /\ r[1] = FlattenSeq(B) /\ r[Len(w) + 1] = <<>>
      /\ \A j \in 1 .. Len(w) : r[j] = B[j] \o r[j + 1]
      /\ \A j \in 1 .. Len(w) + 1 : r[j] \in Seq(S)
  BY <1>7, <1>8, Zenon DEF RestOf
\* A symbol that stands for itself, and one that goes.
<1>10. ASSUME NEW j \in 1 .. Len(w), ~Dollared(w, j) PROVE r[j] = <<w[j]>> \o r[j + 1]
  BY <1>6, <1>9, <1>10, Zenon
<1>11. ASSUME NEW j \in 1 .. Len(w), Dollared(w, j) PROVE r[j] = r[j + 1]
  <2>1. r[j] = <<>> \o r[j + 1]
    BY <1>6, <1>9, <1>11, Zenon
  <2>2. r[j + 1] \in Seq(S)
    <3>1. j + 1 \in 1 .. Len(w) + 1
      BY <1>2
    <3> QED
      BY <1>9, <3>1, Zenon
  <2> QED
    BY <2>1, <2>2, ConcatEmptySeq, Zenon
<1>12. ASSUME NEW j, w[j] # Backslash PROVE ~Dollared(w, j)
  BY <1>12, Zenon DEF Dollared
\* The symbols of a piece where it is.
<1>13. ASSUME NEW k \in 1 .. n
       PROVE  /\ pieces[k] = <<>> => at[k + 1] = at[k]
              /\ \A c : pieces[k] = <<c>> => at[k + 1] = at[k] + 1 /\ w[at[k]] = c /\ at[k] \in 1 .. Len(w)
              /\ \A c, d : pieces[k] = <<c, d>> => PairAt(w, at[k], at[k + 1], c, d)
  <2> DEFINE a == at[k]
             p == pieces[k]
             m == Len(w)
  <2>1. /\ a \in Nat /\ a >= 2 /\ Len(p) \in Nat /\ a + Len(p) <= m /\ \A j \in 1 .. Len(p) : w[a + j - 1] = p[j]
        /\ at[k + 1] = a + Len(p) /\ m \in Nat
    BY <1>2, Zenon DEF Stands
  <2> HIDE DEF a, p, m
  <2>2. p = <<>> => at[k + 1] = a
    BY <2>1
  <2>3. ASSUME NEW c, p = <<c>> PROVE at[k + 1] = a + 1 /\ w[a] = c /\ a \in 1 .. m
    <3>1. Len(p) = 1 /\ p[1] = c
      BY <2>3
    <3> QED
      BY <2>1, <3>1
  <2>4. ASSUME NEW c, NEW d, p = <<c, d>>
        PROVE  /\ at[k + 1] = (a + 1) + 1 /\ w[a] = c /\ w[a + 1] = d
               /\ a \in 1 .. m /\ a + 1 \in 1 .. m /\ a < m
    <3>1. Len(p) = 2 /\ p[1] = c /\ p[2] = d
      BY <2>4
    <3>2. 1 \in 1 .. Len(p) /\ 2 \in 1 .. Len(p) /\ a + 1 - 1 = a /\ a + 2 - 1 = a + 1
      BY <2>1, <3>1
    <3>3. w[a] = c /\ w[a + 1] = d
      BY <2>1, <3>1, <3>2, Zenon
    <3>4. at[k + 1] = (a + 1) + 1 /\ a \in 1 .. m /\ a + 1 \in 1 .. m /\ a < m
      BY <2>1, <3>1
    <3> QED
      BY <3>3, <3>4
  <2> QED
    BY <2>2, <2>3, <2>4, Zenon DEF a, p, m, PairAt
\* No piece begins with a dollar sign.
<1>14. \A k \in 1 .. n + 1 : w[at[k]] # Dollar
  <2> DEFINE T == { k \in 1 .. n + 1 : w[at[k]] # Dollar }
  <2>1. n + 1 \in T
    <3>1. n + 1 \in 1 .. n + 1
      BY <1>1
    <3> QED
      BY <1>3, <1>4, <3>1, Zenon DEF e
  <2>2. ASSUME NEW i \in 1 .. n, \A j \in i + 1 .. n + 1 : j \in T PROVE i \in T
    <3>1. i + 1 \in i + 1 .. n + 1 /\ i \in 1 .. n + 1
      BY <1>1
    <3>2. w[at[i + 1]] # Dollar
      BY <2>2, <3>1, Zenon
    <3>3. BareStands(pieces[i], bares[i])
      BY <1>5, Zenon
    <3>4. CASE pieces[i] = <<>>
      BY <1>13, <3>1, <3>2, <3>4, Zenon
    <3>5. CASE \E c : c # Dollar /\ pieces[i] = <<c>>
      BY <1>13, <3>1, <3>5, Zenon
    <3>6. CASE \E c : pieces[i] = <<Backslash, c>>
      BY <1>4, <1>13, <3>1, <3>6, ZenonT(60) DEF PairAt
    <3> QED
      BY <3>3, <3>4, <3>5, <3>6, Zenon DEF BareStands
  <2> HIDE DEF T
  <2>3. \A i \in 1 .. n + 1 : i \in T
    BY <1>1, <2>1, <2>2, InductionDown, Zenon
  <2> QED
    BY <2>3, Zenon DEF T
<1>15. ASSUME NEW k \in 1 .. n PROVE r[at[k]] = bares[k] \o r[at[k + 1]]
  <2> DEFINE a == at[k]
  <2>1. k + 1 \in 1 .. n + 1 /\ BareStands(pieces[k], bares[k])
    <3>1. k + 1 \in 1 .. n + 1
      BY <1>1
    <3> QED
      BY <3>1, <1>5, Zenon
  <2>2. w[at[k + 1]] # Dollar
    BY <1>14, <2>1, Zenon
  <2>3. r[at[k + 1]] \in Seq(S)
    <3>1. at[k + 1] \in 1 .. Len(w) + 1
      <4>1. at[k] \in Nat /\ at[k] >= 2 /\ Len(pieces[k]) \in Nat /\ at[k] + Len(pieces[k]) <= Len(w)
            /\ at[k + 1] = at[k] + Len(pieces[k]) /\ Len(w) \in Nat
        BY <1>2, Zenon DEF Stands
      <4> DEFINE b == at[k + 1]
                 x == at[k]
                 l == Len(pieces[k])
                 m == Len(w)
      <4> HIDE DEF b, x, l, m
      <4>2. b \in 1 .. m + 1
        BY <4>1, SMTT(60) DEF b, x, l, m
      <4> QED
        BY <4>2 DEF b, m
    <3> QED
      BY <1>9, <3>1, Zenon
  <2>4. CASE pieces[k] = <<>> /\ bares[k] = <<>>
    <3>1. at[k + 1] = a
      BY <1>13, <2>4, Zenon
    <3>2. <<>> \o r[at[k + 1]] = r[at[k + 1]]
      BY <2>3, ConcatEmptySeq
    <3> QED
      BY <2>4, <3>1, <3>2, Zenon
  <2>5. CASE \E c : c # Backslash /\ c # Dollar /\ pieces[k] = <<c>> /\ bares[k] = <<c>>
    <3>1. PICK c : c # Backslash /\ pieces[k] = <<c>> /\ bares[k] = <<c>>
      BY <2>5, Zenon
    <3>2. at[k + 1] = a + 1 /\ w[a] = c /\ a \in 1 .. Len(w)
      BY <1>13, <3>1, Zenon
    <3>3. r[a] = <<w[a]>> \o r[a + 1]
      BY <1>10, <1>12, <3>1, <3>2, Zenon
    <3> QED
      BY <3>1, <3>2, <3>3, Zenon
  <2>6. CASE \E c : c # Dollar /\ pieces[k] = <<Backslash, c>> /\ bares[k] = <<Backslash, c>>
    <3>1. PICK c : c # Dollar /\ pieces[k] = <<Backslash, c>> /\ bares[k] = <<Backslash, c>>
      BY <2>6, Zenon
    <3> DEFINE b == a + 1
    <3>2. at[k + 1] = b + 1 /\ w[a] = Backslash /\ w[b] = c /\ a \in 1 .. Len(w) /\ b \in 1 .. Len(w)
      <4>1. PairAt(w, at[k], at[k + 1], Backslash, c)
        BY <1>13, <3>1, Zenon
      <4> QED
        BY <4>1, Zenon DEF PairAt
    <3>3. ~Dollared(w, a) /\ ~Dollared(w, b)
      BY <2>2, <3>1, <3>2, Zenon DEF Dollared
    <3>4. r[a] = <<w[a]>> \o r[a + 1] /\ r[b] = <<w[b]>> \o r[b + 1]
      BY <1>10, <3>2, <3>3, Zenon
    <3>5. r[a] = <<Backslash>> \o (<<c>> \o r[at[k + 1]])
      BY <3>2, <3>4, Zenon
    <3>6. w[a] \in S /\ w[b] \in S
      BY <1>6, <3>2, Zenon
    <3>7. Backslash \in S /\ c \in S
      BY <3>2, <3>6, Zenon
    <3> DEFINE u == r[at[k + 1]]
    <3> HIDE DEF u
    <3>8. <<Backslash>> \o (<<c>> \o u) = <<Backslash, c>> \o u
      <4>1. u \in Seq(S)
        BY <2>3, Zenon DEF u
      <4>2. <<Backslash>> \in Seq(S) /\ <<c>> \in Seq(S) /\ <<Backslash>> \o <<c>> = <<Backslash, c>>
        BY <3>7, SingleTyped, TwoSymbols, Zenon
      <4>3. (<<Backslash>> \o <<c>>) \o u = <<Backslash>> \o (<<c>> \o u)
        BY <4>1, <4>2, ConcatAssociative, SMTT(60)
      <4> QED
        BY <4>2, <4>3, Zenon
    <3> QED
      BY <3>1, <3>5, <3>8, Zenon DEF u
  <2>7. CASE pieces[k] = <<Backslash, Dollar>> /\ bares[k] = <<Dollar>>
    <3> DEFINE b == a + 1
    <3>1. at[k + 1] = b + 1 /\ w[a] = Backslash /\ w[b] = Dollar /\ a \in 1 .. Len(w) /\ b \in 1 .. Len(w) /\ a < Len(w)
      <4>1. PairAt(w, at[k], at[k + 1], Backslash, Dollar)
        BY <1>13, <2>7, Zenon
      <4> QED
        BY <4>1, Zenon DEF PairAt
    <3>2. Dollared(w, a) /\ ~Dollared(w, b)
      BY <1>4, <3>1, Zenon DEF Dollared
    <3>3. r[a] = r[a + 1] /\ r[b] = <<w[b]>> \o r[b + 1]
      BY <1>10, <1>11, <3>1, <3>2, Zenon
    <3> QED
      BY <2>7, <3>1, <3>3, Zenon
  <2> QED
    BY <2>1, <2>4, <2>5, <2>6, <2>7, Zenon DEF BareStands
<1>16. r[e] = one
  <2>1. e \in 1 .. Len(w)
    BY <1>2, <1>3
  <2>2. r[e] = <<w[e]>> \o r[e + 1]
    BY <1>3, <1>4, <1>10, <1>12, <2>1, Zenon
  <2>3. r[e + 1] = <<>>
    BY <1>3, <1>9, Zenon
  <2>4. <<QuoteMark>> \o <<>> = <<QuoteMark>>
    OBVIOUS
  <2> QED
    BY <1>3, <2>2, <2>3, <2>4, Zenon DEF one
<1>17. one \in Seq(S)
  <2>1. QuoteMark \in S
    <3>1. e \in 1 .. Len(w)
      BY <1>2, <1>3
    <3> QED
      BY <1>3, <1>6, <3>1, Zenon
  <2> QED
    BY <2>1, SingleTyped DEF one
<1>18. r[3] = FlattenSeq(bares) \o one
  <2> DEFINE u == [k \in 1 .. n + 1 |-> r[at[k]]]
  <2>1. n + 1 \in 1 .. n + 1 /\ 1 \in 1 .. n + 1 /\ \A k \in 1 .. n : k \in 1 .. n + 1 /\ k + 1 \in 1 .. n + 1
    BY <1>1
  <2>2. \A k \in 1 .. n + 1 : u[k] = r[at[k]]
    BY Zenon
  <2> HIDE DEF u
  <2>3. FromTheRight(u, S, bares, one)
    BY <1>5, <1>15, <1>16, <2>1, <2>2, ZenonT(60) DEF FromTheRight, e
  <2>4. u[1] = FlattenSeq(bares) \o one
    BY <1>17, <2>3, RightIsFlat, Zenon
  <2> QED
    BY <2>1, <2>2, <2>4, Zenon
<1>19. r[1] = <<w[1]>> \o (<<w[2]>> \o r[3])
  <2>1. 1 \in 1 .. Len(w) /\ 2 \in 1 .. Len(w) /\ 1 + 1 = 2 /\ 2 + 1 = 3
    BY <1>2, <1>3
  <2>2. ~Dollared(w, 1) /\ ~Dollared(w, 2)
    BY <1>4, <1>12, Zenon
  <2> QED
    BY <1>10, <2>1, <2>2, Zenon
<1> QED
  BY <1>9, <1>18, <1>19, Zenon DEF B, one
-----------------------------------------------------------------------------

\* nu: of a symbol the literal, what the string leaves of it, and what nu runs.
NuBare(c) == IF c = Dollar THEN <<Dollar>> ELSE NuEscape(c)
Dropping(S, c) == IF c \in S THEN <<>> ELSE <<c>>
NuDrops == Unsafe \ {"lf", "cr", "tab"}

\* These stand for each other.
LEMMA NuStands ==
    ASSUME NEW X, NEW c \in X
    PROVE  /\ NuEscape(c) \in Seq(Alphabet(X)) /\ NuBare(c) \in Seq(Alphabet(X)) /\ Dropping(NuDrops, c) \in Seq(Alphabet(X))
           /\ BareStands(NuEscape(c), NuBare(c)) /\ DoubleStands(NuBare(c), Dropping(NuDrops, c), "nu")
<1> DEFINE S == Alphabet(X)
           D == NuDrops
           else == IF c = Dollar THEN <<Backslash, Dollar>> ELSE IF c \in Unsafe THEN <<>> ELSE <<c>>
<1>1. Plain \subseteq S /\ c \in S
  BY DEF Alphabet
<1>2. Backslash \in S /\ QuoteMark \in S /\ Dollar \in S
  BY <1>1, PlainHas, Zenon
<1>3. \A d \in S : <<d>> \in Seq(S) /\ <<Backslash, d>> \in Seq(S)
  <2> HIDE DEF S
  <2> QED
    BY <1>2
<1>4. <<>> \in Seq(S)
  OBVIOUS
<1>5. NuEscape(c) = DoubleQuoteEscape(c, else)
  BY Zenon DEF NuEscape
<1>6. Backslash # Dollar /\ QuoteMark # Dollar /\ QuoteMark # Backslash
  BY SymbolsDiffer, Zenon
<1>7. DOMAIN Letter = {"lf", "cr", "tab"}
  BY LettersRead, Zenon
<1>8. \A d \in {Backslash, QuoteMark, Dollar} : d \notin {"n", "r", "t"} /\ d \notin {"lf", "cr", "tab"} /\ d \notin Unsafe
  BY SymbolsDiffer, NotPlain, Zenon
<1>9. "nu" # "lua" /\ "nu" # "json"
  OBVIOUS
<1> HIDE DEF S
<1>10. CASE c \in {Backslash, QuoteMark}
  <2>1. DoubleQuoteEscape(c, else) = <<Backslash, c>> /\ c # Dollar
    BY <1>6, <1>7, <1>8, <1>10, Zenon DEF DoubleQuoteEscape
  <2>2. NuEscape(c) = <<Backslash, c>> /\ NuBare(c) = <<Backslash, c>> /\ Dropping(D, c) = <<c>>
    BY <1>5, <1>8, <1>10, <2>1, Zenon DEF NuBare, Dropping, NuDrops
  <2>3. Named(c) = c
    BY <1>8, <1>10, LettersRead, Zenon
  <2>4. BareStands(<<Backslash, c>>, <<Backslash, c>>) /\ DoubleStands(<<Backslash, c>>, <<c>>, "nu")
    BY <1>9, <2>1, <2>3, Zenon DEF BareStands, DoubleStands
  <2> QED
    BY <1>1, <1>3, <2>2, <2>4, Zenon DEF S
<1>11. CASE c \in {"lf", "cr", "tab"}
  <2> DEFINE l == Letter[c]
  <2>1. Named(l) = c /\ l \in {"n", "r", "t"} /\ l \in S /\ c \notin {Backslash, QuoteMark, Dollar}
    BY <1>1, <1>7, <1>11, LettersRead, ZenonT(60)
  <2>2. l # Dollar
    BY <1>8, <2>1, Zenon
  <2>3. DoubleQuoteEscape(c, else) = <<Backslash, l>>
    BY <1>7, <1>11, <2>1, Zenon DEF DoubleQuoteEscape
  <2>4. NuEscape(c) = <<Backslash, l>> /\ NuBare(c) = <<Backslash, l>> /\ Dropping(D, c) = <<c>>
    <3> HIDE DEF else, l
    <3>1. NuEscape(c) = <<Backslash, l>>
      BY <1>5, <2>3, Zenon
    <3>2. c # Dollar
      BY <2>1, Zenon
    <3>3. NuBare(c) = NuEscape(c)
      BY <3>2, Zenon DEF NuBare
    <3>4. c \notin NuDrops
      BY <1>11, Zenon DEF NuDrops
    <3>5. Dropping(D, c) = <<c>>
      BY <3>4, Zenon DEF Dropping
    <3> QED
      BY <3>1, <3>3, <3>5, Zenon
  <2>5. BareStands(<<Backslash, l>>, <<Backslash, l>>) /\ DoubleStands(<<Backslash, l>>, <<c>>, "nu")
    BY <1>9, <2>1, <2>2, Zenon DEF BareStands, DoubleStands
  <2> QED
    BY <1>1, <1>3, <2>1, <2>4, <2>5, Zenon DEF S
<1>12. CASE c = Dollar
  <2>1. DoubleQuoteEscape(c, else) = <<Backslash, Dollar>>
    BY <1>6, <1>7, <1>8, <1>12, Zenon DEF DoubleQuoteEscape
  <2>2. NuEscape(c) = <<Backslash, Dollar>> /\ NuBare(c) = <<Dollar>> /\ Dropping(D, c) = <<Dollar>>
    BY <1>5, <1>8, <1>12, <2>1, Zenon DEF NuBare, Dropping, NuDrops
  <2>3. BareStands(<<Backslash, Dollar>>, <<Dollar>>) /\ DoubleStands(<<Dollar>>, <<Dollar>>, "nu")
    BY <1>6, <1>8, Zenon DEF BareStands, DoubleStands
  <2> QED
    BY <1>2, <1>3, <2>2, <2>3, Zenon DEF S
<1>13. CASE c \in Unsafe /\ c \notin {"lf", "cr", "tab"}
  <2>1. c \notin {Backslash, QuoteMark, Dollar}
    BY <1>8, <1>13, Zenon
  <2>2. DoubleQuoteEscape(c, else) = <<>>
    BY <1>7, <1>13, <2>1, Zenon DEF DoubleQuoteEscape
  <2>3. NuEscape(c) = <<>> /\ NuBare(c) = <<>> /\ Dropping(D, c) = <<>>
    BY <1>5, <1>13, <2>1, <2>2, Zenon DEF NuBare, Dropping, NuDrops
  <2>4. BareStands(<<>>, <<>>) /\ DoubleStands(<<>>, <<>>, "nu")
    BY Zenon DEF BareStands, DoubleStands
  <2> QED
    BY <1>4, <2>3, <2>4, Zenon DEF S
<1>14. CASE c \notin Unsafe /\ c \notin {Backslash, QuoteMark, Dollar} /\ c \notin {"lf", "cr", "tab"}
  <2>1. DoubleQuoteEscape(c, else) = <<c>>
    BY <1>7, <1>14, Zenon DEF DoubleQuoteEscape
  <2>2. NuEscape(c) = <<c>> /\ NuBare(c) = <<c>> /\ Dropping(D, c) = <<c>>
    BY <1>5, <1>14, <2>1, Zenon DEF NuBare, Dropping, NuDrops
  <2>3. BareStands(<<c>>, <<c>>) /\ DoubleStands(<<c>>, <<c>>, "nu")
    BY <1>14, Zenon DEF BareStands, DoubleStands
  <2> QED
    BY <1>1, <1>3, <2>2, <2>3, Zenon DEF S
<1> QED
  BY <1>10, <1>11, <1>12, <1>13, <1>14, Zenon

\* A literal of two symbols before the rest.
LEMMA LiteralIs ==
    ASSUME NEW S, NEW open \in Seq(S), NEW pieces \in Seq(Seq(S)), NEW close \in Seq(S)
    PROVE  Literal(open, pieces, close) = open \o (FlattenSeq(pieces) \o close)
<1>1. FlattenSeq(pieces) \in Seq(S)
  BY FlattenTyped
<1>2. (open \o FlattenSeq(pieces)) \o close = open \o (FlattenSeq(pieces) \o close)
  BY <1>1, ConcatAssociative
<1> QED
  BY <1>2, Zenon DEF Literal

\* The string around nu's literal hides from nu what the escapes of runex write.
LEMMA NuEmbeddedIs ==
    ASSUME NEW text, 1 \in DOMAIN NuQuoteString(text)
    PROVE  NuQuoteStringEmbedded(text) = EmbedFrom(NuQuoteString(text), 1)
BY Zenon DEF NuQuoteStringEmbedded, EmbedFrom, EmbedSteps, EmbedStep, Dollared

\* The program of nu's key binding is the one that was written into it, but for what is dropped.
LEMMA NuRead ==
    ASSUME NEW X, NEW t \in Seq(X)
    PROVE  NuRuns(DoubleReads(<<QuoteMark>> \o NuQuoteStringEmbedded(t) \o <<QuoteMark>>, "nu")) = Without(t, NuDrops)
<1> DEFINE S == Alphabet(X) \cup {Circumflex}
           open == <<Circumflex, QuoteMark>>
           one == <<QuoteMark>>
           pieces == [i \in DOMAIN t |-> NuEscape(t[i])]
           bares == [i \in DOMAIN t |-> NuBare(t[i])]
           gots == [i \in DOMAIN t |-> Dropping(NuDrops, t[i])]
           n == Len(t)
           w == NuQuoteString(t)
<1>1. n \in Nat /\ DOMAIN t = 1 .. n /\ \A i \in 1 .. n : t[i] \in X
  OBVIOUS
<1>2. /\ pieces \in [1 .. n -> Seq(S)] /\ bares \in [1 .. n -> Seq(S)] /\ gots \in [1 .. n -> Seq(S)]
      /\ \A i \in 1 .. n : BareStands(pieces[i], bares[i]) /\ DoubleStands(bares[i], gots[i], "nu")
  <2>1. Seq(Alphabet(X)) \subseteq Seq(S)
    OBVIOUS
  <2>2. \A c \in X : /\ NuEscape(c) \in Seq(S) /\ NuBare(c) \in Seq(S) /\ Dropping(NuDrops, c) \in Seq(S)
                     /\ BareStands(NuEscape(c), NuBare(c)) /\ DoubleStands(NuBare(c), Dropping(NuDrops, c), "nu")
    <3> HIDE DEF S
    <3> QED
      BY <2>1, NuStands, Zenon
  <2> HIDE DEF S
  <2> QED
    BY <1>1, <2>2, Zenon
<1>3. w = Literal(open, pieces, one)
  BY Zenon DEF NuQuoteString
<1>4. FlattenSeq(gots) = Without(t, NuDrops)
  BY Zenon DEF Without, Dropping
<1>5. {Backslash, Dollar, QuoteMark} \subseteq S /\ Circumflex \in S /\ QuoteMark \in S
  BY PlainHas, Zenon DEF Alphabet
<1> HIDE DEF pieces, bares, gots, S, w
<1>6. /\ pieces \in Seq(Seq(S)) /\ bares \in Seq(Seq(S)) /\ gots \in Seq(Seq(S))
      /\ Len(pieces) = n /\ Len(bares) = n /\ Len(gots) = n
  BY <1>1, <1>2, SequenceIs, Zenon
<1>7. AllBare(pieces, bares) /\ AllDouble(bares, gots, "nu")
  BY <1>2, <1>6, Zenon DEF AllBare, AllDouble
<1>8. /\ open \in Seq(S) /\ one \in Seq(S) /\ open # <<>> /\ one # <<>> /\ Len(open) = 2 /\ open[1] = Circumflex /\ open[2] = QuoteMark
  BY <1>5
<1> HIDE DEF open, one
<1>9. /\ w \in Seq(S) /\ \A j \in 1 .. Len(open) : w[j] = open[j]
      /\ \E at : Placed(at, w, pieces, one) /\ at[1] = Len(open) + 1
  <2>1. LET x == Literal(open, pieces, one)
        IN  /\ x \in Seq(S) /\ \A j \in 1 .. Len(open) : x[j] = open[j]
            /\ \E at : Placed(at, x, pieces, one) /\ at[1] = Len(open) + 1
    <3>1. open \in Seq(S) /\ pieces \in Seq(Seq(S)) /\ one \in Seq(S) /\ open # <<>> /\ one # <<>>
      BY <1>6, <1>8, Zenon
    <3> QED
      BY <3>1, LiteralPlaces
  <2> QED
    BY <1>3, <2>1, Zenon
<1>10. w[1] = Circumflex /\ w[2] = QuoteMark /\ Len(open) + 1 = 3
  <2>1. 1 \in 1 .. Len(open) /\ 2 \in 1 .. Len(open) /\ Len(open) + 1 = 3
    BY <1>8
  <2> QED
    BY <1>8, <1>9, <2>1, Zenon
<1>11. PICK at : Placed(at, w, pieces, one) /\ at[1] = 3
  BY <1>9, <1>10, Zenon
<1>12. FlattenSeq(Bared(w)) = <<Circumflex>> \o (<<QuoteMark>> \o (FlattenSeq(bares) \o <<QuoteMark>>))
  <2>1. Placed(at, w, pieces, <<QuoteMark>>)
    BY <1>11, Zenon DEF one
  <2> QED
    BY <1>6, <1>7, <1>9, <1>10, <1>11, <2>1, BareIs, ZenonT(60)
<1>13. DoubleReads(<<QuoteMark>> \o EmbedFrom(w, 1) \o <<QuoteMark>>, "nu") = FlattenSeq(Bared(w))
  BY <1>5, <1>9, EmbeddedReads, Zenon
<1>14. NuQuoteStringEmbedded(t) = EmbedFrom(w, 1)
  <2>1. at[Len(pieces) + 1] \in Nat /\ at[Len(pieces) + 1] >= 2 /\ Len(w) \in Nat /\ at[Len(pieces) + 1] + Len(one) = Len(w) + 1
    BY <1>11, Zenon DEF Placed
  <2>2. Len(one) = 1
    BY DEF one
  <2> DEFINE e == at[Len(pieces) + 1]
  <2> HIDE DEF e
  <2>3. 1 \in 1 .. Len(w)
    BY <2>1, <2>2 DEF e
  <2>4. 1 \in DOMAIN w
    BY <1>9, <2>3
  <2> QED
    BY <2>4, NuEmbeddedIs, Zenon DEF w
<1> DEFINE rest == <<QuoteMark>> \o (FlattenSeq(bares) \o <<QuoteMark>>)
           u == <<Circumflex>> \o rest
<1>15. Literal(one, bares, one) = rest
  <2>1. Literal(one, bares, one) = one \o (FlattenSeq(bares) \o one)
    <3>1. bares \in Seq(Seq(S)) /\ one \in Seq(S)
      BY <1>6, <1>8, Zenon
    <3> QED
      BY <3>1, LiteralIs
  <2> QED
    BY <2>1, Zenon DEF one
<1>16. DoubleReads(rest, "nu") = FlattenSeq(gots)
  <2>1. DoubleReads(Literal(<<QuoteMark>>, bares, <<QuoteMark>>), "nu") = FlattenSeq(gots)
    BY <1>5, <1>6, <1>7, DoubleReadsIt
  <2> QED
    BY <1>15, <2>1, Zenon DEF one
<1>17. u[1] = Circumflex /\ Tail(u) = rest
  <2>1. rest \in Seq(S)
    <3>1. FlattenSeq(bares) \in Seq(S)
      BY <1>6, FlattenTyped
    <3>2. FlattenSeq(bares) \o one \in Seq(S)
      BY <1>8, <3>1, ConcatProperties
    <3>3. one \o (FlattenSeq(bares) \o one) \in Seq(S)
      BY <1>8, <3>2, ConcatProperties
    <3> QED
      BY <3>3, Zenon DEF one
  <2> DEFINE c == Circumflex
  <2> HIDE DEF rest, c
  <2>2. c \in S
    BY <1>5, Zenon DEF c
  <2>3. (<<c>> \o rest)[1] = c /\ Tail(<<c>> \o rest) = rest
    BY <2>1, <2>2
  <2> QED
    BY <2>3, Zenon DEF c
<1> HIDE DEF rest
<1>18. NuRuns(u) = DoubleReads(rest, "nu")
  <2> HIDE DEF u
  <2> QED
    BY <1>17, Zenon DEF NuRuns
<1> QED
  BY <1>4, <1>12, <1>13, <1>14, <1>16, <1>18, Zenon DEF rest

\* nu's path for the cache: single quotes without escapes.
LEMMA NuPathRead ==
    ASSUME NEW X, NEW t \in Seq(X)
    PROVE  NuReadsPath(NuCachePath(t)) = Without(t, {Apostrophe} \cup Control \cup Invisible)
<1> DEFINE D == {Apostrophe} \cup Control \cup Invisible
           Y == X \ D
           pieces == [i \in DOMAIN t |-> NuPathEscape(t[i])]
           flat == FlattenSeq(pieces)
           n == Len(t)
           w == NuCachePath(t)
<1>1. n \in Nat /\ DOMAIN t = 1 .. n /\ \A i \in 1 .. n : t[i] \in X
  OBVIOUS
<1>2. pieces \in [1 .. n -> Seq(Y)]
  <2>1. \A c \in X : NuPathEscape(c) = IF c \in D THEN <<>> ELSE <<c>>
    BY Zenon DEF NuPathEscape
  <2>2. <<>> \in Seq(Y) /\ \A c \in Y : <<c>> \in Seq(Y)
    <3> HIDE DEF Y
    <3> QED
      OBVIOUS
  <2> HIDE DEF D
  <2>3. \A c \in X : NuPathEscape(c) \in Seq(Y)
    BY <2>1, <2>2, Zenon
  <2> HIDE DEF Y
  <2> QED
    BY <1>1, <2>3, Zenon
<1>3. flat = Without(t, D)
  BY Zenon DEF Without, NuPathEscape
<1>4. Apostrophe \notin Y
  OBVIOUS
<1>5. w = (<<Apostrophe>> \o flat) \o <<Apostrophe>>
  BY Zenon DEF NuCachePath, Literal
<1> HIDE DEF pieces, Y, w, D
<1>6. pieces \in Seq(Seq(Y))
  BY <1>1, <1>2, SequenceIs, Zenon
<1>7. flat \in Seq(Y)
  BY <1>6, FlattenTyped
<1> HIDE DEF flat
<1> DEFINE a == Apostrophe
<1>8. w = (<<a>> \o flat) \o <<a>> /\ a \notin Y
  BY <1>4, <1>5, Zenon
<1> HIDE DEF a
<1>9. Len(w) = Len(flat) + 2 /\ \A i \in 2 .. Len(w) - 1 : w[i] = flat[i - 1] /\ w[i] # a
  BY <1>7, <1>8
<1>10. SubSeq(w, 2, Len(w) - 1) = flat
  BY <1>7, <1>8, <1>9
<1> QED
  <2>1. ~\E i \in 2 .. Len(w) - 1 : w[i] = Apostrophe
    BY <1>9, Zenon DEF a
  <2>2. NuReadsPath(w) = SubSeq(w, 2, Len(w) - 1)
    BY <2>1, Zenon DEF NuReadsPath
  <2> QED
    BY <1>3, <1>10, <2>2, Zenon DEF w, D

-----------------------------------------------------------------------------

\* A sequence that is put together from the right, piece by piece: at i a piece, and then what
\* is at a later index.
ChainParts(S, n, piece, next) ==
    /\ n \in Nat
    /\ piece \in [1 .. n -> Seq(S)]
    /\ next \in [1 .. n -> 2 .. n + 1]
    /\ \A i \in 1 .. n : i < next[i]

IsChain(f, S, n, piece, next) ==
    /\ f \in [1 .. n + 1 -> Seq(S)]
    /\ f[n + 1] = <<>>
    /\ \A i \in 1 .. n : f[i] = piece[i] \o f[next[i]]

\* There is such a sequence, so that a recursive function like it is one.
LEMMA Chained ==
    ASSUME NEW S, NEW n, NEW piece, NEW next, ChainParts(S, n, piece, next)
    PROVE  \E f : IsChain(f, S, n, piece, next)
<1>0. /\ n \in Nat
      /\ piece \in [1 .. n -> Seq(S)]
      /\ next \in [1 .. n -> 2 .. n + 1]
      /\ \A i \in 1 .. n : i < next[i]
  BY Zenon DEF ChainParts
<1> USE <1>0
<1> DEFINE Holds(f, k) == f[n + 1] = <<>> /\ \A i \in n + 1 - k .. n : f[i] = piece[i] \o f[next[i]]
           Good(k) == \E f \in [1 .. n + 1 -> Seq(S)] : Holds(f, k)
           T == { k \in Nat : k <= n => Good(k) }
<1>1. 0 \in T
  <2> DEFINE f == [i \in 1 .. n + 1 |-> <<>>]
  <2>1. f \in [1 .. n + 1 -> Seq(S)] /\ Holds(f, 0)
    <3>1. <<>> \in Seq(S) /\ n + 1 \in 1 .. n + 1 /\ \A i \in n + 1 - 0 .. n : FALSE
      OBVIOUS
    <3>2. f \in [1 .. n + 1 -> Seq(S)] /\ f[n + 1] = <<>>
      BY <3>1, Zenon
    <3> HIDE DEF f
    <3> QED
      BY <3>1, <3>2, Zenon
  <2> QED
    BY <2>1, Zenon
<1>2. ASSUME NEW k \in Nat, k \in T PROVE k + 1 \in T
  <2>1. SUFFICES ASSUME k + 1 <= n PROVE Good(k + 1)
    <3> HIDE DEF Good
    <3> QED OBVIOUS
  <2>2. PICK f \in [1 .. n + 1 -> Seq(S)] : Holds(f, k)
    <3>1. Good(k)
      <4>1. k <= n
        BY <2>1
      <4> HIDE DEF Good
      <4> QED BY <1>2, <4>1
    <3> HIDE DEF Holds
    <3> QED
      BY <3>1
  <2> DEFINE m == n - k
             new == piece[m] \o f[next[m]]
             g == [f EXCEPT ![m] = new]
  <2>3. m \in 1 .. n /\ n + 1 - (k + 1) = m /\ n + 1 - k = m + 1 /\ next[m] \in 1 .. n + 1 /\ m < next[m]
    BY <2>1
  <2>4. new \in Seq(S)
    <3>1. piece[m] \in Seq(S) /\ f[next[m]] \in Seq(S)
      BY <2>2, <2>3
    <3> QED
      BY <3>1
  <2> HIDE DEF m
  <2>5. g \in [1 .. n + 1 -> Seq(S)] /\ g[m] = new /\ \A i \in m + 1 .. n + 1 : g[i] = f[i]
    <3>1. m \in 1 .. n + 1 /\ \A i \in m + 1 .. n + 1 : i \in 1 .. n + 1 /\ i # m
      BY <2>3
    <3> HIDE DEF new
    <3> QED BY <2>4, <3>1
  <2>6. g[n + 1] = <<>>
    BY <2>2, <2>3, <2>5
  <2>7. ASSUME NEW i \in m .. n PROVE g[i] = piece[i] \o g[next[i]]
    <3>1. i \in 1 .. n /\ next[i] \in m + 1 .. n + 1
      <4>1. i \in 1 .. n
        BY <2>3
      <4>2. next[i] \in 2 .. n + 1 /\ i < next[i]
        BY <4>1
      <4> QED
        BY <2>3, <4>1, <4>2
    <3>2. g[next[i]] = f[next[i]]
      <4> HIDE DEF g
      <4> QED BY <2>5, <3>1, Zenon
    <3>3. CASE i = m
      <4> HIDE DEF g
      <4> QED BY <2>5, <3>2, <3>3, Zenon DEF new
    <3>4. CASE i \in m + 1 .. n
      <4>1. f[i] = piece[i] \o f[next[i]]
        BY <2>2, <2>3, <3>4, Zenon
      <4>2. g[i] = f[i]
        <5>1. i \in m + 1 .. n + 1
          BY <2>3, <3>4
        <5> HIDE DEF g
        <5> QED BY <2>5, <5>1
      <4> HIDE DEF g
      <4> QED BY <3>2, <4>1, <4>2, Zenon
    <3>5. i = m \/ i \in m + 1 .. n
      BY <2>3
    <3> HIDE DEF g, new
    <3> QED
      BY <3>3, <3>4, <3>5, Zenon
  <2> HIDE DEF g
  <2>8. Holds(g, k + 1)
    BY <2>3, <2>6, <2>7, Zenon
  <2> QED
    BY <2>5, <2>8, Zenon
<1>3. Nat \subseteq T
  <2> HIDE DEF T
  <2> QED BY <1>1, <1>2, Induction, Zenon
<1>4. Good(n)
  <2> HIDE DEF Good
  <2> QED BY <1>3
<1>5. PICK f \in [1 .. n + 1 -> Seq(S)] : Holds(f, n)
  BY <1>4, Zenon
<1>6. n + 1 - n = 1
  OBVIOUS
<1>7. \A i \in 1 .. n : f[i] = piece[i] \o f[next[i]]
  BY <1>5, <1>6, Zenon
<1>8. IsChain(f, S, n, piece, next)
  BY <1>5, <1>7, Zenon DEF IsChain
<1> QED
  BY <1>8

\* Where a symbol is first.
LEMMA FirstIs ==
    ASSUME NEW t \in Text, NEW x, Has(t, x)
    PROVE  /\ First(t, x) \in 1 .. Len(t)
           /\ t[First(t, x)] = x
           /\ \A j \in 1 .. First(t, x) - 1 : t[j] # x
<1> DEFINE T == { i \in 1 .. Len(t) : t[i] = x }
<1>1. Len(t) \in Nat /\ DOMAIN t = 1 .. Len(t)
  BY DEF Text
<1>2. T \subseteq Nat /\ T # {}
  BY <1>1 DEF Has
<1>3. PICK i \in T : \A j \in T : i <= j
  <2> HIDE DEF T
  <2> QED BY <1>2, Least, Zenon
<1>4. i \in DOMAIN t /\ t[i] = x /\ \A j \in 1 .. i - 1 : t[j] # x
  <2>1. i \in 1 .. Len(t) /\ t[i] = x
    BY <1>3
  <2>2. ASSUME NEW j \in 1 .. i - 1 PROVE t[j] # x
    <3>1. j \in 1 .. Len(t) /\ ~(i <= j)
      BY <1>1, <2>1
    <3> QED
      BY <1>3, <3>1
  <2> QED
    BY <1>1, <2>1, <2>2
<1>5. First(t, x) \in DOMAIN t /\ t[First(t, x)] = x /\ \A j \in 1 .. First(t, x) - 1 : t[j] # x
  BY <1>4, Zenon DEF First
<1> QED
  BY <1>1, <1>5

\* What is before an index of a text and from it on.
LEMMA SidesTyped ==
    ASSUME NEW t \in Text, NEW i \in 1 .. Len(t) + 1
    PROVE  /\ Before(t, i) \in Text /\ Len(Before(t, i)) = i - 1
           /\ \A k \in 1 .. i - 1 : Before(t, i)[k] = t[k]
           /\ From(t, i) \in Text /\ Len(From(t, i)) = Len(t) - i + 1
           /\ \A k \in 1 .. Len(t) - i + 1 : From(t, i)[k] = t[i + k - 1]
<1>1. Len(t) \in Nat /\ t \in Seq(Symbols)
  BY DEF Text
<1>2. i - 1 \in 0 .. Len(t) /\ 1 \in 1 .. Len(t) + 1 /\ Len(t) \in 0 .. Len(t)
  BY <1>1
<1>3. /\ Before(t, i) \in Text
      /\ Len(Before(t, i)) = i - 1
      /\ \A k \in 1 .. i - 1 : Before(t, i)[k] = t[k]
  <2>1. /\ SubSeq(t, 1, i - 1) \in Seq(Symbols)
        /\ Len(SubSeq(t, 1, i - 1)) = IF 1 <= i - 1 THEN (i - 1) - 1 + 1 ELSE 0
        /\ \A k \in 1 .. Len(SubSeq(t, 1, i - 1)) : SubSeq(t, 1, i - 1)[k] = t[1 + k - 1]
    BY <1>1, <1>2, PartTyped
  <2>2. Len(SubSeq(t, 1, i - 1)) = i - 1
    BY <1>1, <2>1
  <2>3. \A k \in 1 .. i - 1 : 1 + k - 1 = k
    BY <1>1
  <2> QED
    BY <2>1, <2>2, <2>3 DEF Before, Text
<1>4. /\ From(t, i) \in Text
      /\ Len(From(t, i)) = Len(t) - i + 1
      /\ \A k \in 1 .. Len(t) - i + 1 : From(t, i)[k] = t[i + k - 1]
  <2>1. /\ SubSeq(t, i, Len(t)) \in Seq(Symbols)
        /\ Len(SubSeq(t, i, Len(t))) = IF i <= Len(t) THEN Len(t) - i + 1 ELSE 0
        /\ \A k \in 1 .. Len(SubSeq(t, i, Len(t))) : SubSeq(t, i, Len(t))[k] = t[i + k - 1]
    BY <1>1, <1>2, PartTyped
  <2>2. Len(SubSeq(t, i, Len(t))) = Len(t) - i + 1
    BY <1>1, <2>1
  <2> QED
    BY <2>1, <2>2 DEF From, Text
<1> QED
  BY <1>3, <1>4

\* A placeholder stands for what was captured.
LEMMA ResolvedTyped ==
    ASSUME NEW t \in Text, NEW i \in 1 .. Len(t), NEW b \in Bindings, Resolved(t, i, b) # None
    PROVE  i + 2 <= Len(t) /\ t[i] = "{" /\ t[i + 2] = "}" /\ Resolved(t, i, b) \in Text
<1>1. i + 2 <= Len(t) /\ t[i] = "{" /\ t[i + 2] = "}"
  BY Zenon DEF Resolved
<1>2. \/ Resolved(t, i, b) = b.glob
      \/ b.regex # None /\ Digits[t[i + 1]] \in DOMAIN b.regex /\ Resolved(t, i, b) = b.regex[Digits[t[i + 1]]]
  BY <1>1, Zenon DEF Resolved
<1>3. b.glob \in Text \cup {None} /\ b.regex \in Seq(Text) \cup {None}
  BY DEF Bindings
<1>4. CASE Resolved(t, i, b) = b.glob
  BY <1>1, <1>3, <1>4, Zenon
<1>5. ASSUME NEW d, b.regex # None, d \in DOMAIN b.regex, Resolved(t, i, b) = b.regex[d]
      PROVE  Resolved(t, i, b) \in Text
  <2>1. b.regex \in Seq(Text)
    BY <1>3, <1>5
  <2> QED
    BY <1>5, <2>1
<1> QED
  BY <1>1, <1>2, <1>4, <1>5, Zenon

\* What comes of a text from each index on.
IsSubstitution(f, t, b) ==
    /\ f \in [1 .. Len(t) + 1 -> Text]
    /\ f[Len(t) + 1] = <<>>
    /\ \A i \in 1 .. Len(t) :
          f[i] = IF Resolved(t, i, b) # None THEN Resolved(t, i, b) \o f[i + 3] ELSE <<t[i]>> \o f[i + 1]
    /\ Substituted(t, b) = f[1]

\* What is put in for a placeholder, and where it goes on.
LEMMA SubstitutedSteps ==
    ASSUME NEW t \in Text, NEW b \in Bindings
    PROVE  \E f : IsSubstitution(f, t, b)
<1> DEFINE n == Len(t)
           has(i) == Resolved(t, i, b) # None
           piece == [i \in 1 .. n |-> IF has(i) THEN Resolved(t, i, b) ELSE <<t[i]>>]
           next == [i \in 1 .. n |-> IF has(i) THEN i + 3 ELSE i + 1]
           Unfolds(f) == f = [i \in 1 .. Len(t) + 1 |->
                                 IF i > Len(t) THEN <<>>
                                 ELSE IF Resolved(t, i, b) # None THEN Resolved(t, i, b) \o f[i + 3]
                                 ELSE <<t[i]>> \o f[i + 1]]
           f0 == CHOOSE f : Unfolds(f)
<1>0. n \in Nat /\ \A i \in 1 .. n : t[i] \in Symbols
  BY DEF Text
<1>1. /\ piece \in [1 .. n -> Seq(Symbols)]
      /\ next \in [1 .. n -> 2 .. n + 1]
      /\ \A i \in 1 .. n : i < next[i]
  <2>1. ASSUME NEW i \in 1 .. n
        PROVE  /\ (IF has(i) THEN Resolved(t, i, b) ELSE <<t[i]>>) \in Seq(Symbols)
               /\ (IF has(i) THEN i + 3 ELSE i + 1) \in 2 .. n + 1
               /\ i < (IF has(i) THEN i + 3 ELSE i + 1)
    <3>1. CASE has(i)
      <4>1. i + 2 <= n /\ Resolved(t, i, b) \in Seq(Symbols)
        BY <3>1, ResolvedTyped, Zenon DEF Text
      <4> HIDE DEF has
      <4> QED BY <1>0, <3>1, <4>1
    <3>2. CASE ~has(i)
      <4>1. <<t[i]>> \in Seq(Symbols)
        BY <1>0, SingleTyped
      <4> HIDE DEF has
      <4> QED BY <1>0, <3>2, <4>1
    <3> QED
      BY <3>1, <3>2
  <2> HIDE DEF has
  <2> QED
    BY <2>1
<1>2. PICK g : IsChain(g, Symbols, n, piece, next)
  <2>1. ChainParts(Symbols, n, piece, next)
    <3> HIDE DEF piece, next, n
    <3> QED BY <1>0, <1>1, Zenon DEF ChainParts
  <2> HIDE DEF piece, next, n
  <2> QED
    BY <2>1, Chained, Zenon
<1> HIDE DEF piece, next
<1>2a. g \in [1 .. n + 1 -> Seq(Symbols)] /\ g[n + 1] = <<>> /\ \A i \in 1 .. n : g[i] = piece[i] \o g[next[i]]
  BY <1>2, Zenon DEF IsChain
<1> USE DEF piece, next
<1>3. Unfolds(g)
  <2>1. ASSUME NEW i \in 1 .. n + 1
        PROVE  g[i] = IF i > Len(t) THEN <<>>
                      ELSE IF Resolved(t, i, b) # None THEN Resolved(t, i, b) \o g[i + 3]
                      ELSE <<t[i]>> \o g[i + 1]
    <3>1. CASE i = n + 1
      <4>1. i > Len(t) /\ ~(i <= Len(t)) /\ g[i] = <<>>
        BY <1>0, <1>2a, <3>1
      <4> QED
        BY <4>1, Zenon
    <3>2. CASE i \in 1 .. n
      <4>1. ~(i > Len(t)) /\ i <= Len(t) /\ g[i] = piece[i] \o g[next[i]]
        <5>1. ~(i > Len(t)) /\ i <= Len(t)
          BY <1>0, <3>2
        <5> HIDE DEF piece, next
        <5> QED BY <1>2a, <3>2, <5>1, Zenon
      <4>2. /\ Resolved(t, i, b) # None => piece[i] = Resolved(t, i, b) /\ next[i] = i + 3
            /\ Resolved(t, i, b) = None => piece[i] = <<t[i]>> /\ next[i] = i + 1
        BY <3>2, Zenon
      <4> HIDE DEF piece, next
      <4> QED
        BY <4>1, <4>2, Zenon
    <3>3. i = n + 1 \/ i \in 1 .. n
      BY <1>0
    <3> QED
      BY <3>1, <3>2, <3>3
  <2>2. g = [i \in 1 .. n + 1 |-> g[i]]
    BY <1>2a, Zenon
  <2>3. [i \in 1 .. n + 1 |-> g[i]] =
            [i \in 1 .. Len(t) + 1 |->
                IF i > Len(t) THEN <<>>
                ELSE IF Resolved(t, i, b) # None THEN Resolved(t, i, b) \o g[i + 3]
                ELSE <<t[i]>> \o g[i + 1]]
    BY <2>1, Zenon
  <2> QED
    BY <2>2, <2>3, Zenon
<1>4. Unfolds(f0)
  <2> HIDE DEF Unfolds
  <2> QED BY <1>3, Zenon
<1>5. Substituted(t, b) = f0[1]
  BY Zenon DEF Substituted
<1>6. \A i \in 1 .. n + 1 : f0[i] =
          IF i > Len(t) THEN <<>>
          ELSE IF Resolved(t, i, b) # None THEN Resolved(t, i, b) \o f0[i + 3]
          ELSE <<t[i]>> \o f0[i + 1]
  <2> DEFINE other == [i \in 1 .. Len(t) + 1 |->
                          IF i > Len(t) THEN <<>>
                          ELSE IF Resolved(t, i, b) # None THEN Resolved(t, i, b) \o f0[i + 3]
                          ELSE <<t[i]>> \o f0[i + 1]]
  <2> HIDE DEF f0
  <2>1. f0 = other
    BY <1>4, Zenon
  <2>2. \A i \in 1 .. n + 1 : other[i] =
          IF i > Len(t) THEN <<>>
          ELSE IF Resolved(t, i, b) # None THEN Resolved(t, i, b) \o f0[i + 3]
          ELSE <<t[i]>> \o f0[i + 1]
    BY Zenon
  <2> HIDE DEF other
  <2> QED
    BY <2>1, <2>2, Zenon
<1> HIDE DEF f0
<1>7. ASSUME NEW i \in 1 .. n, \A j \in i + 1 .. n + 1 : f0[j] \in Text PROVE f0[i] \in Text
  <2>1. ~(i > Len(t)) /\ i <= Len(t) /\ i \in 1 .. n + 1
    BY <1>0
  <2>2. \/ has(i) /\ f0[i] = Resolved(t, i, b) \o f0[i + 3]
        \/ ~has(i) /\ f0[i] = <<t[i]>> \o f0[i + 1]
    BY <1>6, <2>1, Zenon
  <2>3. CASE has(i) /\ f0[i] = Resolved(t, i, b) \o f0[i + 3]
    <3>0. i + 2 <= n /\ Resolved(t, i, b) \in Text
      BY <2>3, ResolvedTyped, Zenon
    <3>1. i + 3 \in i + 1 .. n + 1 /\ Resolved(t, i, b) \in Text
      <4> HIDE DEF has
      <4> QED BY <1>0, <3>0
    <3>2. f0[i + 3] \in Text
      BY <1>7, <3>1
    <3>3. Resolved(t, i, b) \o f0[i + 3] \in Text
      BY <3>1, <3>2 DEF Text
    <3> QED
      BY <2>3, <3>3
  <2>4. CASE ~has(i) /\ f0[i] = <<t[i]>> \o f0[i + 1]
    <3>1. i + 1 \in i + 1 .. n + 1
      BY <1>0
    <3>2. f0[i + 1] \in Text /\ <<t[i]>> \in Text
      BY <1>0, <1>7, <3>1, SingleTyped DEF Text
    <3>3. <<t[i]>> \o f0[i + 1] \in Text
      BY <3>2 DEF Text
    <3> QED
      BY <2>4, <3>3
  <2> QED
    BY <2>2, <2>3, <2>4, Zenon
<1>8. f0[n + 1] \in Text
  <2>1. n + 1 > Len(t) /\ ~(n + 1 <= Len(t)) /\ n + 1 \in 1 .. n + 1 /\ <<>> \in Text
    BY <1>0 DEF Text
  <2>2. f0[n + 1] = <<>>
    BY <1>6, <2>1, Zenon
  <2> QED
    BY <2>1, <2>2
<1>9. \A i \in 1 .. n + 1 : f0[i] \in Text
  <2> DEFINE T == { i \in 1 .. n + 1 : f0[i] \in Text }
  <2>1. n + 1 \in T
    BY <1>0, <1>8
  <2>2. ASSUME NEW i \in 1 .. n, \A j \in i + 1 .. n + 1 : j \in T PROVE i \in T
    <3>1. i \in 1 .. n + 1
      BY <1>0
    <3> QED
      BY <1>7, <2>2, <3>1
  <2>3. \A i \in 1 .. n + 1 : i \in T
    <3> HIDE DEF T
    <3> QED BY <1>0, <2>1, <2>2, InductionDown, Zenon
  <2> QED
    BY <2>3
<1>10. f0 \in [1 .. n + 1 -> Text]
  <2>1. f0 = [i \in 1 .. n + 1 |-> f0[i]]
    <3> DEFINE other == [i \in 1 .. Len(t) + 1 |->
                            IF i > Len(t) THEN <<>>
                            ELSE IF Resolved(t, i, b) # None THEN Resolved(t, i, b) \o f0[i + 3]
                            ELSE <<t[i]>> \o f0[i + 1]]
    <3>1. f0 = other
      BY <1>4, Zenon
    <3>2. other = [i \in 1 .. n + 1 |-> other[i]]
      BY Zenon
    <3> HIDE DEF other
    <3> QED
      BY <3>1, <3>2, Zenon
  <2> HIDE DEF n
  <2> QED
    BY <1>9, <2>1
<1>11. f0[n + 1] = <<>>
  <2>1. n + 1 > Len(t) /\ n + 1 \in 1 .. n + 1
    BY <1>0
  <2> QED
    BY <1>6, <2>1, Zenon
<1>12. ASSUME NEW i \in 1 .. n
       PROVE  f0[i] = IF Resolved(t, i, b) # None THEN Resolved(t, i, b) \o f0[i + 3] ELSE <<t[i]>> \o f0[i + 1]
  <2>1. ~(i > Len(t)) /\ i \in 1 .. n + 1
    BY <1>0
  <2> QED
    BY <1>6, <2>1, Zenon
<1>13. IsSubstitution(f0, t, b)
  BY <1>5, <1>10, <1>11, <1>12, Zenon DEF IsSubstitution
<1> QED
  BY <1>13, Zenon

\* So it is a text.
LEMMA SubstitutedTyped ==
    ASSUME NEW t \in Text, NEW b \in Bindings
    PROVE  Substituted(t, b) \in Text
<1>1. PICK f : IsSubstitution(f, t, b)
  BY SubstitutedSteps, Zenon
<1>2. f \in [1 .. Len(t) + 1 -> Text] /\ Substituted(t, b) = f[1]
  BY <1>1, Zenon DEF IsSubstitution
<1>3. 1 \in 1 .. Len(t) + 1
  BY DEF Text
<1> QED
  BY <1>2, <1>3

\* How a rule is rendered: without a `{}` in its template, and with one.
LEMMA RenderCases ==
    ASSUME NEW r, NEW b, NEW base, RenderNumber(r, b) = base, base # None
    PROVE  LET i     == FirstCursor(base)
               left  == WithCaptures(Before(base, i), b)
               right == WithCaptures(From(base, i + 2), b)
           IN  /\ i = None => Render(r, b) = IF WithCaptures(base, b) = None THEN None
                                             ELSE [text |-> WithCaptures(base, b), cursor |-> None]
               /\ i # None => Render(r, b) =
                      IF left = None \/ right = None \/ Len(left) + Len(right) > MaxRendered THEN None
                      ELSE [text |-> left \o right, cursor |-> Len(left)]
BY Zenon DEF Render

\* The first `{}` of a text.
LEMMA FirstCursorIs ==
    ASSUME NEW t \in Text
    PROVE  /\ FirstCursor(t) = None <=> CursorAt(t) = {}
           /\ FirstCursor(t) # None =>
                 /\ FirstCursor(t) \in CursorAt(t)
                 /\ \A j \in CursorAt(t) : FirstCursor(t) <= j
                 /\ FirstCursor(t) \in 1 .. Len(t) - 1
<1>1. Len(t) \in Nat
  BY DEF Text
<1>2. CursorAt(t) \subseteq 1 .. Len(t) - 1 /\ CursorAt(t) \subseteq Nat
  <2>1. CursorAt(t) \subseteq 1 .. Len(t) - 1
    BY Zenon DEF CursorAt
  <2>2. 1 .. Len(t) - 1 \subseteq Nat
    BY <1>1
  <2> QED
    BY <2>1, <2>2
<1>3. CASE CursorAt(t) = {}
  BY <1>3 DEF FirstCursor
<1>4. CASE CursorAt(t) # {}
  <2>1. \E i \in CursorAt(t) : \A j \in CursorAt(t) : i <= j
    BY <1>2, <1>4, Least
  <2>2. FirstCursor(t) \in CursorAt(t) /\ \A j \in CursorAt(t) : FirstCursor(t) <= j
    BY <1>4, <2>1, Zenon DEF FirstCursor
  <2>3. None \notin Nat
    BY MatchingAssumption, Zenon
  <2> QED
    BY <1>2, <1>4, <2>2, <2>3
<1> QED
  BY <1>3, <1>4

\* A prefix, symbol by symbol.
LEMMA PrefixIs ==
    ASSUME NEW S, NEW s \in Seq(S), NEW t \in Seq(S)
    PROVE  IsPrefix(s, t) <=> Len(s) <= Len(t) /\ \A k \in 1 .. Len(s) : s[k] = t[k]
<1> SUFFICES ASSUME Len(s) <= Len(t)
             PROVE  SubSeq(s, 1, Len(s)) = SubSeq(t, 1, Len(s)) <=> \A k \in 1 .. Len(s) : s[k] = t[k]
  BY Zenon DEF IsPrefix
<1> DEFINE a == SubSeq(s, 1, Len(s))
           b == SubSeq(t, 1, Len(s))
<1>1. Len(s) \in Nat /\ Len(t) \in Nat
  OBVIOUS
<1>2. a \in Seq(S) /\ Len(a) = Len(s) /\ \A k \in 1 .. Len(s) : a[k] = s[k]
  BY <1>1
<1>3. b \in Seq(S) /\ Len(b) = Len(s) /\ \A k \in 1 .. Len(s) : b[k] = t[k]
  BY <1>1
<1> HIDE DEF a, b
<1>4. (\A k \in 1 .. Len(s) : s[k] = t[k]) => a = b
  BY <1>2, <1>3, SeqEqual
<1>5. a = b => \A k \in 1 .. Len(s) : s[k] = t[k]
  BY <1>2, <1>3
<1> QED
  BY <1>4, <1>5 DEF a, b

\* A suffix, symbol by symbol.
LEMMA SuffixIs ==
    ASSUME NEW s \in Text, NEW t \in Text
    PROVE  IsSuffix(s, t) <=> Len(s) <= Len(t) /\ \A k \in 1 .. Len(s) : s[k] = t[(Len(t) - Len(s)) + k]
<1> DEFINE m == Len(s)
           n == Len(t)
           a == Reverse(s)
           b == Reverse(t)
<1>1. m \in Nat /\ n \in Nat
  BY DEF Text
<1>2. s \in Seq(Symbols) /\ t \in Seq(Symbols)
  BY DEF Text
<1>3. a \in Seq(Symbols) /\ Len(a) = m /\ \A k \in 1 .. m : a[k] = s[(m - k) + 1]
  <2>1. \A k \in 1 .. m : s[(m - k) + 1] \in Symbols
    BY <1>1, <1>2
  <2>2. a = [k \in 1 .. m |-> s[(m - k) + 1]]
    BY Zenon DEF Reverse
  <2> HIDE DEF a
  <2> QED
    BY <1>1, <2>1, <2>2
<1>4. b \in Seq(Symbols) /\ Len(b) = n /\ \A k \in 1 .. n : b[k] = t[(n - k) + 1]
  <2>1. \A k \in 1 .. n : t[(n - k) + 1] \in Symbols
    BY <1>1, <1>2
  <2>2. b = [k \in 1 .. n |-> t[(n - k) + 1]]
    BY Zenon DEF Reverse
  <2> HIDE DEF b
  <2> QED
    BY <1>1, <2>1, <2>2
<1> HIDE DEF a, b, m, n
<1>5. IsPrefix(a, b) <=> m <= n /\ \A k \in 1 .. m : a[k] = b[k]
  <2>1. a \in Seq(Symbols) /\ b \in Seq(Symbols)
    BY <1>3, <1>4
  <2>2. IsPrefix(a, b) <=> Len(a) <= Len(b) /\ \A k \in 1 .. Len(a) : a[k] = b[k]
    BY <2>1, PrefixIs
  <2> QED
    BY <1>3, <1>4, <2>2, Zenon
<1>6. ASSUME m <= n PROVE (\A k \in 1 .. m : a[k] = b[k]) <=> \A k \in 1 .. m : s[k] = t[(n - m) + k]
  <2>1. ASSUME \A k \in 1 .. m : a[k] = b[k], NEW k \in 1 .. m PROVE s[k] = t[(n - m) + k]
    <3>1. (m - k) + 1 \in 1 .. m /\ (m - k) + 1 \in 1 .. n /\ (m - ((m - k) + 1)) + 1 = k /\ (n - ((m - k) + 1)) + 1 = (n - m) + k
      BY <1>1, <1>6
    <3>2. a[(m - k) + 1] = b[(m - k) + 1]
      BY <2>1, <3>1
    <3>3. a[(m - k) + 1] = s[k] /\ b[(m - k) + 1] = t[(n - m) + k]
      BY <1>3, <1>4, <3>1, Zenon
    <3> QED
      BY <3>2, <3>3, Zenon
  <2>2. ASSUME \A k \in 1 .. m : s[k] = t[(n - m) + k], NEW k \in 1 .. m PROVE a[k] = b[k]
    <3>1. (m - k) + 1 \in 1 .. m /\ k \in 1 .. n /\ (n - m) + ((m - k) + 1) = (n - k) + 1
      BY <1>1, <1>6
    <3>2. s[(m - k) + 1] = t[(n - m) + ((m - k) + 1)]
      BY <2>2, <3>1
    <3> QED
      BY <1>3, <1>4, <3>1, <3>2, Zenon
  <2> QED
    BY <2>1, <2>2
<1> QED
  BY <1>5, <1>6, Zenon DEF IsSuffix, a, b, m, n

\* A part of a key fits at an offset of a token.
FitsAt(p, t, d) == \A k \in 1 .. Len(p) : p[k] = "?" \/ p[k] = t[d + k]

\* A part of a key matches a part of a token if it fits where that is.
LEMMA FixedIs ==
    ASSUME NEW p \in Text, NEW x \in Text, NEW t, NEW d, Len(x) = Len(p), \A k \in 1 .. Len(p) : x[k] = t[d + k]
    PROVE  FixedPartMatches(p, x) <=> FitsAt(p, t, d)
<1>1. DOMAIN p = 1 .. Len(p)
  BY DEF Text
<1>2. FixedPartMatches(p, x) <=> \A k \in 1 .. Len(p) : p[k] \in {"?", x[k]}
  BY <1>1, Zenon DEF FixedPartMatches
<1> QED
  BY <1>2, Zenon DEF FitsAt

\* What is around a symbol of a text.
LEMMA AroundTyped ==
    ASSUME NEW t \in Text, NEW x, Has(t, x)
    PROVE  Before(t, First(t, x)) \in Text /\ From(t, First(t, x) + 1) \in Text
<1>1. First(t, x) \in 1 .. Len(t) /\ Len(t) \in Nat
  BY FirstIs DEF Text
<1>2. First(t, x) \in 1 .. Len(t) + 1 /\ First(t, x) + 1 \in 1 .. Len(t) + 1
  BY <1>1
<1> QED
  BY <1>2, SidesTyped

PutsNothing(t, p, m, b) == \A i \in p .. m : Resolved(t, i, b) = None

\* A stretch of a text without placeholders stays as it is.
LEMMA SubstitutedRun ==
    ASSUME NEW t \in Text, NEW b, NEW f, IsSubstitution(f, t, b),
           NEW p \in 1 .. Len(t) + 1, NEW m \in 0 .. Len(t), p <= m + 1, PutsNothing(t, p, m, b)
    PROVE  f[p] = SubSeq(t, p, m) \o f[m + 1]
<1> DEFINE rest == f[m + 1]
           T == { i \in 1 .. m + 1 : p <= i => f[i] = SubSeq(t, i, m) \o rest }
<1>0. /\ f \in [1 .. Len(t) + 1 -> Text]
      /\ \A i \in 1 .. Len(t) :
            f[i] = IF Resolved(t, i, b) # None THEN Resolved(t, i, b) \o f[i + 3] ELSE <<t[i]>> \o f[i + 1]
  BY Zenon DEF IsSubstitution
<1>1. Len(t) \in Nat /\ t \in Seq(Symbols) /\ \A i \in 1 .. Len(t) : t[i] \in Symbols
  BY DEF Text
<1>2. m \in Nat /\ m <= Len(t) /\ p \in 1 .. m + 1 /\ m + 1 \in 1 .. Len(t) + 1
  BY <1>1
<1>3. rest \in Seq(Symbols)
  BY <1>0, <1>2, Zenon DEF Text
<1>4. m + 1 \in T
  <2>1. SubSeq(t, m + 1, m) = <<>>
    BY <1>2, SubSeqEmpty
  <2>2. <<>> \o rest = rest
    <3> HIDE DEF rest
    <3> QED BY <1>3, ConcatEmptySeq
  <2>3. f[m + 1] = SubSeq(t, m + 1, m) \o rest
    BY <2>1, <2>2, Zenon
  <2>4. m + 1 \in 1 .. m + 1
    BY <1>2
  <2> QED
    BY <2>3, <2>4, Zenon
<1>5. ASSUME NEW i \in 1 .. m, \A j \in i + 1 .. m + 1 : j \in T PROVE i \in T
  <2>0. i \in 1 .. m + 1 /\ i + 1 \in i + 1 .. m + 1 /\ i + 1 \in 1 .. m + 1
    BY <1>2
  <2>1. ASSUME p <= i PROVE f[i] = SubSeq(t, i, m) \o rest
    <3>2. i \in 1 .. Len(t) /\ i \in p .. m /\ p <= i + 1
          /\ m \in i .. Len(t) /\ i + 1 \in 1 .. Len(t) + 1
      BY <1>1, <1>2, <2>1
    <3>3. f[i] = <<t[i]>> \o f[i + 1]
      BY <1>0, <3>2, Zenon DEF PutsNothing
    <3>4. f[i + 1] = SubSeq(t, i + 1, m) \o rest
      BY <1>5, <2>0, <3>2, Zenon
    <3>5. SubSeq(t, i, m) = <<t[i]>> \o SubSeq(t, i + 1, m)
      BY <1>1, <3>2, SubSeqRecursiveFirst
    <3>6. <<t[i]>> \in Seq(Symbols)
      BY <1>1, <3>2, SingleTyped
    <3>7. SubSeq(t, i + 1, m) \in Seq(Symbols)
      BY <1>1, <3>2, PartTyped
    <3>8. (<<t[i]>> \o SubSeq(t, i + 1, m)) \o rest = <<t[i]>> \o (SubSeq(t, i + 1, m) \o rest)
      <4> DEFINE one == <<t[i]>>
                 mid == SubSeq(t, i + 1, m)
      <4>1. one \in Seq(Symbols) /\ mid \in Seq(Symbols) /\ rest \in Seq(Symbols)
        BY <1>3, <3>6, <3>7, Zenon
      <4> HIDE DEF one, mid, rest
      <4>2. (one \o mid) \o rest = one \o (mid \o rest)
        BY <4>1, SMTT(60)
      <4> QED
        BY <4>2, Zenon DEF one, mid
    <3> QED
      BY <3>3, <3>4, <3>5, <3>8, Zenon
  <2> QED
    BY <2>0, <2>1, Zenon
<1>6. \A i \in 1 .. m + 1 : i \in T
  <2> HIDE DEF T
  <2> QED BY <1>2, <1>4, <1>5, InductionDown, Zenon
<1>7. p \in T /\ p <= p
  <2> HIDE DEF T
  <2> QED BY <1>2, <1>6
<1> QED
  BY <1>7, Zenon

\* A text without placeholders stays as it is.
LEMMA NothingPut ==
    ASSUME NEW t \in Text, NEW b \in Bindings, PutsNothing(t, 1, Len(t), b)
    PROVE  Substituted(t, b) = t
<1>1. PICK f : IsSubstitution(f, t, b)
  BY SubstitutedSteps, Zenon
<1>2. f[Len(t) + 1] = <<>> /\ Substituted(t, b) = f[1]
  BY <1>1, Zenon DEF IsSubstitution
<1>3. Len(t) \in Nat /\ t \in Seq(Symbols)
  BY DEF Text
<1>4. 1 \in 1 .. Len(t) + 1 /\ Len(t) \in 0 .. Len(t) /\ 1 <= Len(t) + 1
  BY <1>3
<1>5. f[1] = SubSeq(t, 1, Len(t)) \o f[Len(t) + 1]
  BY <1>1, <1>4, SubstitutedRun, ZenonT(60)
<1>6. SubSeq(t, 1, Len(t)) = t /\ t \o <<>> = t
  BY <1>3, SubSeqFull, ConcatEmptySeq
<1> QED
  BY <1>2, <1>5, <1>6, Zenon

\* Without captures nothing is put in.
LEMMA NoCapturePutsNothing ==
    ASSUME NEW t, NEW b, b.glob = None, b.regex = None, NEW p, NEW m
    PROVE  PutsNothing(t, p, m, b)
<1>1. ASSUME NEW i PROVE Resolved(t, i, b) = None
  BY Zenon DEF Resolved
<1> QED
  BY <1>1, Zenon DEF PutsNothing

Star == <<"{", "*", "}">>

IsUnit(x) == x = "{number}"

Pieces(t, u) == [i \in DOMAIN t |-> IF t[i] = "{number}" THEN u ELSE <<t[i]>>]

\* The pieces of a template: its symbols, and the units for each `{number}`.
LEMMA PiecesAre ==
    ASSUME NEW t \in Text, NEW u \in Text
    PROVE  /\ Pieces(t, u) \in Seq(Text) /\ Len(Pieces(t, u)) = Len(t)
           /\ \A i \in 1 .. Len(t) : Pieces(t, u)[i] = IF IsUnit(t[i]) THEN u ELSE <<t[i]>>
<1> DEFINE s == Pieces(t, u)
<1>1. Len(t) \in Nat /\ DOMAIN t = 1 .. Len(t) /\ \A i \in 1 .. Len(t) : t[i] \in Symbols
  BY DEF Text
<1>2. s = [i \in 1 .. Len(t) |-> IF IsUnit(t[i]) THEN u ELSE <<t[i]>>]
  BY <1>1, Zenon DEF Pieces, IsUnit
<1> HIDE DEF s
<1>3. ASSUME NEW i \in 1 .. Len(t) PROVE s[i] = (IF IsUnit(t[i]) THEN u ELSE <<t[i]>>) /\ s[i] \in Text
  <2>1. s[i] = IF IsUnit(t[i]) THEN u ELSE <<t[i]>>
    BY <1>2, Zenon
  <2>2. <<t[i]>> \in Text
    BY <1>1, SingleTyped DEF Text
  <2> QED
    BY <2>1, <2>2, Zenon
<1>4. s \in [1 .. Len(t) -> Text]
  BY <1>2, <1>3, Zenon
<1>5. s \in Seq(Text) /\ Len(s) = Len(t)
  BY <1>1, <1>4
<1> QED
  BY <1>3, <1>5, Zenon DEF s

-----------------------------------------------------------------------------

\* A text with its captures put in is a text.
LEMMA WithCapturesTyped ==
    ASSUME NEW t \in Text, NEW b \in Bindings, WithCaptures(t, b) # None
    PROVE  WithCaptures(t, b) \in Text /\ WithCaptures(t, b) = Substituted(t, b)
BY SubstitutedTyped, Zenon DEF WithCaptures

\* A text of three parts, by length and by symbol.
SameParts(a, b, c, t) ==
    /\ Len(a) + Len(b) + Len(c) = Len(t)
    /\ \A k \in 1 .. Len(a) : a[k] = t[k]
    /\ \A k \in 1 .. Len(b) : b[k] = t[Len(a) + k]
    /\ \A k \in 1 .. Len(c) : c[k] = t[Len(a) + Len(b) + k]

\* A text put together of three is of these parts.
LEMMA ThreeParts ==
    ASSUME NEW a \in Text, NEW b \in Text, NEW c \in Text
    PROVE  a \o b \o c \in Text /\ SameParts(a, b, c, a \o b \o c)
<1> DEFINE ab == a \o b
           abc == ab \o c
<1>1. a \in Seq(Symbols) /\ b \in Seq(Symbols) /\ c \in Seq(Symbols)
  BY DEF Text
<1>2. /\ ab \in Seq(Symbols)
      /\ Len(a) \in Nat /\ Len(b) \in Nat /\ Len(ab) = Len(a) + Len(b)
      /\ \A k \in 1 .. Len(a) : ab[k] = a[k]
      /\ \A k \in 1 .. Len(b) : ab[Len(a) + k] = b[k]
  BY <1>1, JoinIs
<1> HIDE DEF ab
<1>3. /\ abc \in Seq(Symbols)
      /\ Len(ab) \in Nat /\ Len(c) \in Nat /\ Len(abc) = Len(ab) + Len(c)
      /\ \A k \in 1 .. Len(ab) : abc[k] = ab[k]
      /\ \A k \in 1 .. Len(c) : abc[Len(ab) + k] = c[k]
  <2>1. ab \in Seq(Symbols) /\ c \in Seq(Symbols)
    BY <1>1, <1>2
  <2> QED
    BY <2>1, JoinIs
<1> HIDE DEF abc
<1>4. Len(a) + Len(b) + Len(c) = Len(abc)
  BY <1>2, <1>3
<1>5. ASSUME NEW k \in 1 .. Len(a) PROVE a[k] = abc[k]
  <2>1. k \in 1 .. Len(ab)
    BY <1>2
  <2> QED
    BY <1>2, <1>3, <2>1
<1>6. ASSUME NEW k \in 1 .. Len(b) PROVE b[k] = abc[Len(a) + k]
  <2>1. Len(a) + k \in 1 .. Len(ab)
    BY <1>2
  <2> QED
    BY <1>2, <1>3, <2>1
<1>7. ASSUME NEW k \in 1 .. Len(c) PROVE c[k] = abc[Len(a) + Len(b) + k]
  BY <1>2, <1>3
<1>8. abc \in Text /\ SameParts(a, b, c, abc)
  BY <1>3, <1>4, <1>5, <1>6, <1>7, Zenon DEF SameParts, Text
<1> QED
  BY <1>8 DEF abc, ab

\* A symbol that a text has only once is not on either side of where it is first, and what a
\* text has nowhere its sides have nowhere.
LEMMA SidesHave ==
    ASSUME NEW t \in Text, NEW x, Has(t, x), NEW y, Has(Before(t, First(t, x)), y) \/ Has(From(t, First(t, x) + 1), y)
    PROVE  \E i \in 1 .. Len(t) : i # First(t, x) /\ t[i] = y
<1> DEFINE f == First(t, x)
           a == Before(t, f)
           b == From(t, f + 1)
<1>1. f \in 1 .. Len(t) /\ Len(t) \in Nat
  BY FirstIs DEF Text
<1> HIDE DEF f
<1>2. f \in 1 .. Len(t) + 1 /\ f + 1 \in 1 .. Len(t) + 1
  BY <1>1
<1>3. a \in Text /\ Len(a) = f - 1 /\ \A k \in 1 .. f - 1 : a[k] = t[k]
  BY <1>2, SidesTyped
<1>4. b \in Text /\ Len(b) = Len(t) - (f + 1) + 1 /\ \A k \in 1 .. Len(t) - (f + 1) + 1 : b[k] = t[(f + 1) + k - 1]
  BY <1>2, SidesTyped, Zenon
<1> HIDE DEF a, b
<1>5. DOMAIN a = 1 .. Len(a) /\ DOMAIN b = 1 .. Len(b)
  BY <1>3, <1>4 DEF Text
<1>6. CASE Has(a, y)
  <2>1. PICK k \in 1 .. Len(a) : a[k] = y
    BY <1>5, <1>6, Zenon DEF Has
  <2>2. k \in 1 .. f - 1 /\ k \in 1 .. Len(t) /\ k # f
    BY <1>1, <1>3
  <2> QED
    BY <1>3, <2>1, <2>2 DEF f
<1>7. CASE Has(b, y)
  <2>1. PICK k \in 1 .. Len(b) : b[k] = y
    BY <1>5, <1>7, Zenon DEF Has
  <2>2. k \in 1 .. Len(t) - (f + 1) + 1 /\ (f + 1) + k - 1 \in 1 .. Len(t) /\ (f + 1) + k - 1 # f
    BY <1>1, <1>4
  <2>3. t[(f + 1) + k - 1] = y
    BY <1>4, <2>1, <2>2
  <2> QED
    BY <2>2, <2>3 DEF f
<1>8. Has(a, y) \/ Has(b, y)
  BY Zenon DEF a, b, f
<1> QED
  BY <1>6, <1>7, <1>8

\* One placeholder does not change what is around it.
LEMMA OnePut ==
    ASSUME NEW t \in Text, NEW b \in Bindings, NEW j \in 1 .. Len(t), Resolved(t, j, b) # None,
           PutsNothing(t, 1, j - 1, b), PutsNothing(t, j + 1, Len(t), b)
    PROVE  Substituted(t, b) = Before(t, j) \o (Resolved(t, j, b) \o From(t, j + 3))
<1>1. PICK f : IsSubstitution(f, t, b)
  BY SubstitutedSteps, Zenon
<1>2. f[Len(t) + 1] = <<>> /\ Substituted(t, b) = f[1]
      /\ f[j] = IF Resolved(t, j, b) # None THEN Resolved(t, j, b) \o f[j + 3] ELSE <<t[j]>> \o f[j + 1]
  BY <1>1, Zenon DEF IsSubstitution
<1>3. Len(t) \in Nat /\ t \in Seq(Symbols)
  BY DEF Text
<1>4. j + 2 <= Len(t)
  BY ResolvedTyped, Zenon
<1>5. /\ 1 \in 1 .. Len(t) + 1 /\ j - 1 \in 0 .. Len(t) /\ 1 <= (j - 1) + 1 /\ (j - 1) + 1 = j
      /\ j + 3 \in 1 .. Len(t) + 1 /\ j + 3 <= Len(t) + 1 /\ Len(t) \in 0 .. Len(t)
  BY <1>3, <1>4
<1>6. f[1] = SubSeq(t, 1, j - 1) \o f[j]
  <2> DEFINE k == j - 1
  <2>1. 1 \in 1 .. Len(t) + 1 /\ k \in 0 .. Len(t) /\ 1 <= k + 1 /\ PutsNothing(t, 1, k, b)
    BY <1>5
  <2>2. f[1] = SubSeq(t, 1, k) \o f[k + 1]
    <3> HIDE DEF k
    <3> QED BY <1>1, <2>1, SubstitutedRun, ZenonT(60)
  <2> QED
    BY <1>5, <2>2, Zenon
<1>7. f[j + 3] = SubSeq(t, j + 3, Len(t)) \o f[Len(t) + 1]
  <2>1. PutsNothing(t, j + 3, Len(t), b)
    <3>1. \A i \in j + 3 .. Len(t) : i \in j + 1 .. Len(t)
      BY <1>3
    <3> QED
      BY <3>1, Zenon DEF PutsNothing
  <2> DEFINE q == j + 3
  <2>2. q \in 1 .. Len(t) + 1 /\ Len(t) \in 0 .. Len(t) /\ q <= Len(t) + 1 /\ PutsNothing(t, q, Len(t), b)
    BY <1>5, <2>1
  <2> HIDE DEF q
  <2>3. f[q] = SubSeq(t, q, Len(t)) \o f[Len(t) + 1]
    BY <1>1, <2>2, SubstitutedRun, ZenonT(60)
  <2> QED
    BY <2>3 DEF q
<1>8. SubSeq(t, j + 3, Len(t)) \o <<>> = SubSeq(t, j + 3, Len(t))
  <2>1. SubSeq(t, j + 3, Len(t)) \in Seq(Symbols)
    BY <1>3, <1>5, PartTyped
  <2> QED
    BY <2>1, ConcatEmptySeq
<1> QED
  BY <1>2, <1>6, <1>7, <1>8, Zenon DEF Before, From

\* What is in two texts is in one of them, and both are blank if they are blank together.
LEMMA HasJoined ==
    ASSUME NEW a \in Text, NEW b \in Text, NEW x
    PROVE  a \o b \in Text /\ (Has(a \o b, x) <=> Has(a, x) \/ Has(b, x))
<1>1. /\ Len(a) \in Nat /\ Len(b) \in Nat /\ DOMAIN a = 1 .. Len(a) /\ DOMAIN b = 1 .. Len(b)
      /\ a \in Seq(Symbols) /\ b \in Seq(Symbols)
  BY DEF Text
<1>2. a \o b \in Seq(Symbols) /\ DOMAIN (a \o b) = 1 .. Len(a) + Len(b)
  BY <1>1
<1>3. \A i \in 1 .. Len(a) + Len(b) : (a \o b)[i] = IF i <= Len(a) THEN a[i] ELSE b[i - Len(a)]
  BY <1>1
<1>4. ASSUME NEW i \in 1 .. Len(a) + Len(b), (a \o b)[i] = x PROVE Has(a, x) \/ Has(b, x)
  <2>1. CASE i <= Len(a)
    <3>1. i \in DOMAIN a /\ a[i] = x
      BY <1>1, <1>3, <1>4, <2>1
    <3> QED
      BY <3>1, Zenon DEF Has
  <2>2. CASE ~(i <= Len(a))
    <3>1. i - Len(a) \in DOMAIN b /\ b[i - Len(a)] = x
      BY <1>1, <1>3, <1>4, <2>2
    <3> QED
      BY <3>1, Zenon DEF Has
  <2> QED
    BY <2>1, <2>2
<1>5. ASSUME NEW i \in 1 .. Len(a), a[i] = x PROVE Has(a \o b, x)
  <2>1. i \in DOMAIN (a \o b) /\ (a \o b)[i] = x
    BY <1>1, <1>2, <1>3, <1>5
  <2> QED
    BY <2>1, Zenon DEF Has
<1>6. ASSUME NEW i \in 1 .. Len(b), b[i] = x PROVE Has(a \o b, x)
  <2>1. i + Len(a) \in 1 .. Len(a) + Len(b) /\ ~(i + Len(a) <= Len(a)) /\ (i + Len(a)) - Len(a) = i
    BY <1>1
  <2>2. i + Len(a) \in DOMAIN (a \o b) /\ (a \o b)[i + Len(a)] = x
    BY <1>2, <1>3, <1>6, <2>1
  <2> QED
    BY <2>2, Zenon DEF Has
<1>7. Has(a \o b, x) => Has(a, x) \/ Has(b, x)
  BY <1>2, <1>4, Zenon DEF Has
<1>8. Has(a, x) => Has(a \o b, x)
  BY <1>1, <1>5, Zenon DEF Has
<1>9. Has(b, x) => Has(a \o b, x)
  BY <1>1, <1>6, Zenon DEF Has
<1> QED
  BY <1>2, <1>7, <1>8, <1>9 DEF Text

\* What a rendering has for its text.
LEMMA RenderedIs ==
    ASSUME NEW r, NEW b \in Bindings, NEW base \in Text, RenderNumber(r, b) = base, Render(r, b) # None
    PROVE  LET i == FirstCursor(base) IN
           /\ i = None => Render(r, b).text = Substituted(base, b)
           /\ i # None =>
                 /\ Before(base, i) \in Text /\ From(base, i + 2) \in Text
                 /\ Render(r, b).text = Substituted(Before(base, i), b) \o Substituted(From(base, i + 2), b)
<1> DEFINE i == FirstCursor(base)
           left == WithCaptures(Before(base, i), b)
           right == WithCaptures(From(base, i + 2), b)
<1>1. base # None
  BY MatchingAssumption, Zenon
<1>2. CASE i = None
  <2>1. WithCaptures(base, b) # None /\ Render(r, b) = [text |-> WithCaptures(base, b), cursor |-> None]
    BY <1>1, <1>2, RenderCases, Zenon
  <2>2. Render(r, b).text = WithCaptures(base, b)
    BY <2>1
  <2>3. WithCaptures(base, b) = Substituted(base, b)
    BY <2>1, WithCapturesTyped, Zenon
  <2> QED
    BY <1>2, <2>2, <2>3, Zenon
<1>3. CASE i # None
  <2>1. left # None /\ right # None /\ Render(r, b) = [text |-> left \o right, cursor |-> Len(left)]
    BY <1>1, <1>3, RenderCases, Zenon
  <2>2. Render(r, b).text = left \o right
    <3> HIDE DEF left, right
    <3> QED BY <2>1
  <2>3. i \in CursorAt(base) /\ i \in 1 .. Len(base) - 1
    BY <1>3, FirstCursorIs, Zenon
  <2> HIDE DEF i
  <2>4. i \in 1 .. Len(base) + 1 /\ i + 2 \in 1 .. Len(base) + 1
    <3>1. Len(base) \in Nat
      BY DEF Text
    <3> QED
      BY <2>3, <3>1
  <2>5. Before(base, i) \in Text /\ From(base, i + 2) \in Text
    <3> DEFINE k == i + 2
    <3>1. k \in 1 .. Len(base) + 1
      BY <2>4
    <3> HIDE DEF k
    <3>2. From(base, k) \in Text
      BY <3>1, SidesTyped
    <3>3. Before(base, i) \in Text
      BY <2>4, SidesTyped
    <3> QED
      BY <3>2, <3>3 DEF k
  <2>6. left = Substituted(Before(base, i), b) /\ right = Substituted(From(base, i + 2), b)
    BY <2>1, <2>5, WithCapturesTyped, Zenon
  <2> QED
    BY <1>3, <2>2, <2>3, <2>5, <2>6, Zenon DEF i
<1> QED
  BY <1>2, <1>3

\* Nothing is put in where no brace opens.
LEMMA NoBracePutsNothing ==
    ASSUME NEW t \in Text, NEW b \in Bindings, NEW p, NEW m, p .. m \subseteq 1 .. Len(t),
           \A i \in p .. m : t[i] # "{"
    PROVE  PutsNothing(t, p, m, b)
<1>1. ASSUME NEW i \in p .. m PROVE Resolved(t, i, b) = None
  BY <1>1, Zenon DEF Resolved
<1> QED
  BY <1>1, Zenon DEF PutsNothing

\* A template without its `{}`, from each index on.
CutsFrom(g, t) ==
    /\ g = [i \in 1 .. Len(t) + 1 |-> g[i]]
    /\ \A i \in 1 .. Len(t) + 1 :
          g[i] = IF i > Len(t) THEN <<>>
                 ELSE IF i \in CursorAt(t) THEN g[i + 2]
                 ELSE <<t[i]>> \o g[i + 1]

\* There is one such function at most.
LEMMA CutsOneWay ==
    ASSUME NEW t \in Text, NEW f, CutsFrom(f, t), NEW g, CutsFrom(g, t)
    PROVE  f[1] = g[1]
<1> DEFINE n == Len(t)
           T == { i \in 1 .. n + 1 : f[i] = g[i] }
<1>1. n \in Nat
  BY DEF Text
<1>2. /\ \A i \in 1 .. n + 1 : f[i] = IF i > Len(t) THEN <<>>
                                      ELSE IF i \in CursorAt(t) THEN f[i + 2]
                                      ELSE <<t[i]>> \o f[i + 1]
      /\ \A i \in 1 .. n + 1 : g[i] = IF i > Len(t) THEN <<>>
                                      ELSE IF i \in CursorAt(t) THEN g[i + 2]
                                      ELSE <<t[i]>> \o g[i + 1]
  BY Zenon DEF CutsFrom
<1>3. n + 1 \in T
  <2>1. n + 1 \in 1 .. n + 1 /\ n + 1 > Len(t)
    BY <1>1
  <2>2. f[n + 1] = <<>> /\ g[n + 1] = <<>>
    BY <1>2, <2>1, Zenon
  <2> QED
    BY <2>1, <2>2, Zenon
<1>4. ASSUME NEW i \in 1 .. n, \A j \in i + 1 .. n + 1 : j \in T PROVE i \in T
  <2>1. i \in 1 .. n + 1 /\ ~(i > Len(t))
    BY <1>1
  <2>2. CASE i \in CursorAt(t)
    <3>1. i \in 1 .. n - 1
      BY <2>2, Zenon DEF CursorAt
    <3>2. i + 2 \in i + 1 .. n + 1
      BY <1>1, <3>1
    <3>3. f[i + 2] = g[i + 2]
      BY <1>4, <3>2, Zenon
    <3>4. f[i] = g[i]
      BY <1>2, <2>1, <2>2, <3>3, Zenon
    <3> QED
      BY <2>1, <3>4, Zenon
  <2>3. CASE i \notin CursorAt(t)
    <3>1. i + 1 \in i + 1 .. n + 1
      BY <1>1
    <3>2. f[i + 1] = g[i + 1]
      BY <1>4, <3>1, Zenon
    <3>3. f[i] = g[i]
      BY <1>2, <2>1, <2>3, <3>2, Zenon
    <3> QED
      BY <2>1, <3>3, Zenon
  <2> QED
    BY <2>2, <2>3
<1>5. \A i \in 1 .. n + 1 : i \in T
  <2> HIDE DEF T, n
  <2> QED BY <1>1, <1>3, <1>4, InductionDown
<1>6. 1 \in 1 .. n + 1
  BY <1>1
<1> QED
  BY <1>5, <1>6, Zenon

\* So WithoutCursors is what any such function says.
LEMMA WithoutCursorsIs ==
    ASSUME NEW t \in Text, NEW g, CutsFrom(g, t)
    PROVE  WithoutCursors(t) = g[1]
<1> DEFINE rhs(f) == [i \in 1 .. Len(t) + 1 |-> IF i > Len(t) THEN <<>>
                                                ELSE IF i \in CursorAt(t) THEN f[i + 2]
                                                ELSE <<t[i]>> \o f[i + 1]]
           Unfolds(f) == f = [i \in 1 .. Len(t) + 1 |-> IF i > Len(t) THEN <<>>
                                                ELSE IF i \in CursorAt(t) THEN f[i + 2]
                                                ELSE <<t[i]>> \o f[i + 1]]
           f0 == CHOOSE f : Unfolds(f)
<1>1. Unfolds(g)
  <2>1. g = [i \in 1 .. Len(t) + 1 |-> g[i]]
    BY Zenon DEF CutsFrom
  <2>2. [i \in 1 .. Len(t) + 1 |-> g[i]] = rhs(g)
    <3>1. \A i \in 1 .. Len(t) + 1 : g[i] = IF i > Len(t) THEN <<>>
                                            ELSE IF i \in CursorAt(t) THEN g[i + 2]
                                            ELSE <<t[i]>> \o g[i + 1]
      BY Zenon DEF CutsFrom
    <3> QED
      BY <3>1, Zenon
  <2> QED
    BY <2>1, <2>2, Zenon
<1>2. Unfolds(f0)
  <2> HIDE DEF Unfolds
  <2> QED BY <1>1, Zenon
<1>3. WithoutCursors(t) = f0[1]
  BY Zenon DEF WithoutCursors
<1>4. CutsFrom(f0, t)
  <2> DEFINE other == rhs(f0)
  <2> HIDE DEF f0
  <2>1. f0 = other
    BY <1>2, Zenon
  <2>2. /\ other = [i \in 1 .. Len(t) + 1 |-> other[i]]
        /\ \A i \in 1 .. Len(t) + 1 : other[i] = IF i > Len(t) THEN <<>>
                                                 ELSE IF i \in CursorAt(t) THEN f0[i + 2]
                                                 ELSE <<t[i]>> \o f0[i + 1]
    BY Zenon
  <2> HIDE DEF other
  <2> QED
    BY <2>1, <2>2, Zenon DEF CutsFrom
<1> HIDE DEF f0
<1>5. f0[1] = g[1]
  BY <1>4, CutsOneWay
<1> QED
  BY <1>3, <1>5, Zenon

\* Without a `{}` nothing is cut out.
LEMMA NothingCut ==
    ASSUME NEW t \in Text, CursorAt(t) = {}
    PROVE  WithoutCursors(t) = t
<1> DEFINE n == Len(t)
           g == [i \in 1 .. Len(t) + 1 |-> SubSeq(t, i, Len(t))]
<1>1. n \in Nat /\ t \in Seq(Symbols)
  BY DEF Text
<1>2. ASSUME NEW i \in 1 .. Len(t) + 1
      PROVE  g[i] = IF i > Len(t) THEN <<>> ELSE IF i \in CursorAt(t) THEN g[i + 2] ELSE <<t[i]>> \o g[i + 1]
  <2>1. CASE i > Len(t)
    <3>1. SubSeq(t, i, Len(t)) = <<>>
      BY <1>1, <2>1, SubSeqEmpty
    <3> QED
      BY <2>1, <3>1, Zenon
  <2>2. CASE ~(i > Len(t))
    <3>1. i \in 1 .. Len(t) /\ Len(t) \in i .. Len(t) /\ i + 1 \in 1 .. Len(t) + 1
      BY <1>1, <2>2
    <3>2. SubSeq(t, i, Len(t)) = <<t[i]>> \o SubSeq(t, i + 1, Len(t))
      BY <1>1, <3>1, SubSeqRecursiveFirst
    <3>3. i \notin CursorAt(t)
      OBVIOUS
    <3>4. g[i] = SubSeq(t, i, Len(t)) /\ g[i + 1] = SubSeq(t, i + 1, Len(t))
      BY <3>1, Zenon
    <3> QED
      BY <2>2, <3>2, <3>3, <3>4, Zenon
  <2> QED
    BY <2>1, <2>2
<1>3. g = [i \in 1 .. Len(t) + 1 |-> g[i]]
  BY Zenon
<1>4. g[1] = t
  <2>1. 1 \in 1 .. Len(t) + 1
    BY <1>1
  <2>2. SubSeq(t, 1, Len(t)) = t
    BY <1>1, SubSeqFull
  <2> QED
    BY <2>1, <2>2, Zenon
<1> HIDE DEF g
<1>5. CutsFrom(g, t)
  BY <1>2, <1>3, Zenon DEF CutsFrom
<1> QED
  BY <1>4, <1>5, WithoutCursorsIs, Zenon

\* With one `{}` what is around it stays.
LEMMA OneCut ==
    ASSUME NEW t \in Text, NEW c \in 1 .. Len(t) - 1, CursorAt(t) = {c}
    PROVE  WithoutCursors(t) = Before(t, c) \o From(t, c + 2)
<1> DEFINE n == Len(t)
           rest == SubSeq(t, c + 2, Len(t))
           g == [i \in 1 .. Len(t) + 1 |-> IF i <= c THEN SubSeq(t, i, c - 1) \o rest ELSE SubSeq(t, i, Len(t))]
<1>1. n \in Nat /\ t \in Seq(Symbols) /\ c + 2 \in 1 .. n + 1 /\ c <= n /\ c >= 1 /\ c \in Nat
  BY DEF Text
<1>2. rest \in Seq(Symbols)
  <2> DEFINE q == c + 2
  <2>1. q \in 1 .. Len(t) + 1 /\ Len(t) \in 0 .. Len(t)
    BY <1>1
  <2> HIDE DEF q
  <2>2. SubSeq(t, q, Len(t)) \in Seq(Symbols)
    BY <1>1, <2>1, PartTyped
  <2> QED
    BY <2>2 DEF q
<1>3. ASSUME NEW i \in 1 .. Len(t) + 1
      PROVE  g[i] = IF i > Len(t) THEN <<>> ELSE IF i \in CursorAt(t) THEN g[i + 2] ELSE <<t[i]>> \o g[i + 1]
  <2>1. CASE i > Len(t)
    <3>1. ~(i <= c)
      BY <1>1, <2>1
    <3>2. SubSeq(t, i, Len(t)) = <<>>
      BY <1>1, <2>1, SubSeqEmpty
    <3> QED
      BY <2>1, <3>1, <3>2, Zenon
  <2>2. CASE c < i /\ ~(i > Len(t))
    <3>1. i \in 1 .. Len(t) /\ Len(t) \in i .. Len(t) /\ i + 1 \in 1 .. Len(t) + 1
          /\ ~(i <= c) /\ ~(i + 1 <= c) /\ i # c
      BY <1>1, <2>2
    <3>2. SubSeq(t, i, Len(t)) = <<t[i]>> \o SubSeq(t, i + 1, Len(t))
      BY <1>1, <3>1, SubSeqRecursiveFirst
    <3>3. i \notin CursorAt(t)
      BY <3>1, Zenon
    <3>4. g[i] = SubSeq(t, i, Len(t)) /\ g[i + 1] = SubSeq(t, i + 1, Len(t))
      BY <3>1, Zenon
    <3> QED
      BY <2>2, <3>2, <3>3, <3>4, Zenon
  <2>3. CASE i = c
    <3>1. i <= c /\ ~(i > Len(t)) /\ i + 2 \in 1 .. Len(t) + 1 /\ ~(i + 2 <= c)
      BY <1>1, <2>3
    <3>2. SubSeq(t, i, c - 1) = <<>>
      BY <1>1, <2>3, SubSeqEmpty
    <3>3. <<>> \o rest = rest
      <4> HIDE DEF rest
      <4> QED BY <1>2, ConcatEmptySeq
    <3>4. g[i] = SubSeq(t, i, c - 1) \o rest /\ g[i + 2] = SubSeq(t, i + 2, Len(t))
      BY <3>1, Zenon
    <3>5. i \in CursorAt(t)
      BY <2>3, Zenon
    <3> QED
      BY <2>3, <3>1, <3>2, <3>3, <3>4, <3>5, Zenon
  <2>4. CASE i < c
    <3> DEFINE m == c - 1
    <3>1. i \in 1 .. Len(t) /\ m \in i .. Len(t) /\ i + 1 \in 1 .. Len(t) + 1 /\ m \in 0 .. Len(t)
          /\ i <= c /\ i + 1 <= c /\ i # c /\ ~(i > Len(t))
      BY <1>1, <2>4
    <3>2. g[i] = SubSeq(t, i, m) \o rest /\ g[i + 1] = SubSeq(t, i + 1, m) \o rest
      BY <3>1, Zenon
    <3> HIDE DEF m, g, rest
    <3>3. SubSeq(t, i, m) = <<t[i]>> \o SubSeq(t, i + 1, m)
      BY <1>1, <3>1, SubSeqRecursiveFirst
    <3>4. i \notin CursorAt(t)
      BY <3>1, Zenon
    <3>5. (<<t[i]>> \o SubSeq(t, i + 1, m)) \o rest = <<t[i]>> \o (SubSeq(t, i + 1, m) \o rest)
      <4> DEFINE one == <<t[i]>>
                 mid == SubSeq(t, i + 1, m)
      <4>0. t[i] \in Symbols
        BY <1>1, <3>1
      <4>1. one \in Seq(Symbols)
        BY <4>0, SingleTyped
      <4>2. mid \in Seq(Symbols)
        BY <1>1, <3>1, PartTyped
      <4> HIDE DEF one, mid
      <4>3. (one \o mid) \o rest = one \o (mid \o rest)
        BY <1>2, <4>1, <4>2, SMTT(60)
      <4> QED
        BY <4>3, Zenon DEF one, mid
    <3> QED
      BY <3>1, <3>2, <3>3, <3>4, <3>5, Zenon
  <2>5. i > Len(t) \/ (c < i /\ ~(i > Len(t))) \/ i = c \/ i < c
    BY <1>1
  <2> QED
    BY <2>1, <2>2, <2>3, <2>4, <2>5, Zenon
<1>4. g = [i \in 1 .. Len(t) + 1 |-> g[i]]
  BY Zenon
<1>5. g[1] = SubSeq(t, 1, c - 1) \o rest
  <2>1. 1 \in 1 .. Len(t) + 1 /\ 1 <= c
    BY <1>1
  <2> QED
    BY <2>1, Zenon
<1> HIDE DEF g
<1>6. CutsFrom(g, t)
  BY <1>3, <1>4, Zenon DEF CutsFrom
<1> QED
  BY <1>5, <1>6, WithoutCursorsIs, Zenon DEF Before, From

\* A template with less than two `{}` has none, or just the first.
LEMMA CursorsAre ==
    ASSUME NEW t \in Text, Cardinality(CursorAt(t)) < 2
    PROVE  CursorAt(t) = {} \/ \E c \in 1 .. Len(t) - 1 : CursorAt(t) = {c} /\ FirstCursor(t) = c
<1> DEFINE S == CursorAt(t)
<1>1. Len(t) \in Nat
  BY DEF Text
<1>2. IsFiniteSet(S)
  <2>1. IsFiniteSet(1 .. Len(t) - 1)
    BY <1>1, FS_Interval
  <2>2. S \in SUBSET (1 .. Len(t) - 1)
    BY Zenon DEF CursorAt
  <2> QED
    BY <2>1, <2>2, FS_Subset
<1> HIDE DEF S
<1>3. Cardinality(S) \in Nat /\ Cardinality(S) < 2
  BY <1>2, FS_CardinalityType DEF S
<1>4. Cardinality(S) = 0 \/ Cardinality(S) = 1
  BY <1>3
<1>5. CASE Cardinality(S) = 0
  BY <1>2, <1>5, FS_EmptySet DEF S
<1>6. CASE Cardinality(S) = 1
  <2>1. PICK c : S = {c}
    BY <1>2, <1>6, FS_Singleton, Zenon
  <2>2. FirstCursor(t) # None /\ FirstCursor(t) \in CursorAt(t) /\ FirstCursor(t) \in 1 .. Len(t) - 1
    <3>1. CursorAt(t) # {}
      BY <2>1 DEF S
    <3> QED
      BY <3>1, FirstCursorIs
  <2>3. FirstCursor(t) = c
    BY <2>1, <2>2 DEF S
  <2> QED
    BY <2>1, <2>2, <2>3 DEF S
<1> QED
  BY <1>4, <1>5, <1>6

\* Three texts, grouped either way.
LEMMA JoinAssociates ==
    ASSUME NEW a \in Text, NEW b \in Text, NEW c \in Text
    PROVE  (a \o b) \o c = a \o (b \o c)
BY DEF Text

CutTwice(x, y, h, z) == x \o y = h \o z /\ Len(x) <= Len(h)

Between(x, y, h, z) == \E d \in Text : h = x \o d /\ y = d \o z

\* Texts that are put together of two in two ways differ by what is between the two cuts.
LEMMA TwoCuts ==
    ASSUME NEW x \in Text, NEW y \in Text, NEW h \in Text, NEW z \in Text, CutTwice(x, y, h, z)
    PROVE  Between(x, y, h, z)
<1> DEFINE w == x \o y
           d == From(h, Len(x) + 1)
           m == Len(x)
<1>1. /\ x \in Seq(Symbols) /\ y \in Seq(Symbols) /\ h \in Seq(Symbols) /\ z \in Seq(Symbols)
  BY DEF Text
<1>2. /\ Len(x) \in Nat /\ Len(y) \in Nat /\ Len(w) = Len(x) + Len(y)
      /\ \A k \in 1 .. Len(x) : w[k] = x[k]
      /\ \A k \in 1 .. Len(y) : w[Len(x) + k] = y[k]
  BY <1>1, JoinIs
<1>3. /\ Len(h) \in Nat /\ Len(z) \in Nat /\ Len(w) = Len(h) + Len(z)
      /\ \A k \in 1 .. Len(h) : w[k] = h[k]
      /\ \A k \in 1 .. Len(z) : w[Len(h) + k] = z[k]
  <2> DEFINE v == h \o z
  <2>1. /\ Len(h) \in Nat /\ Len(z) \in Nat /\ Len(v) = Len(h) + Len(z)
        /\ \A k \in 1 .. Len(h) : v[k] = h[k]
        /\ \A k \in 1 .. Len(z) : v[Len(h) + k] = z[k]
    BY <1>1, JoinIs
  <2>2. w = v
    BY Zenon DEF CutTwice
  <2> HIDE DEF w, v
  <2> QED
    BY <2>1, <2>2, Zenon
<1> HIDE DEF w
<1>4. m \in Nat /\ m <= Len(h) /\ m + 1 \in 1 .. Len(h) + 1
  <2>1. Len(x) <= Len(h)
    BY Zenon DEF CutTwice
  <2> QED
    BY <1>2, <1>3, <2>1
<1>5. d \in Text /\ Len(d) = Len(h) - m /\ \A k \in 1 .. Len(d) : d[k] = h[m + k]
  <2> DEFINE q == m + 1
  <2>1. q \in 1 .. Len(h) + 1 /\ q = m + 1
    BY <1>4
  <2> HIDE DEF q
  <2>2. /\ From(h, q) \in Text /\ Len(From(h, q)) = Len(h) - q + 1
        /\ \A k \in 1 .. Len(h) - q + 1 : From(h, q)[k] = h[q + k - 1]
    BY <2>1, SidesTyped, Zenon
  <2>3. d = From(h, q)
    BY <2>1
  <2> HIDE DEF d, m
  <2>4. Len(d) = Len(h) - m
    BY <1>3, <1>4, <2>1, <2>2, <2>3
  <2>5. ASSUME NEW k \in 1 .. Len(d) PROVE d[k] = h[m + k]
    <3>1. k \in 1 .. Len(h) - q + 1 /\ q + k - 1 = m + k
      BY <1>3, <1>4, <2>1, <2>4
    <3> QED
      BY <2>2, <2>3, <3>1
  <2> QED
    BY <2>2, <2>3, <2>4, <2>5
<1> HIDE DEF d
<1>6. h = x \o d
  <2> DEFINE u == x \o d
  <2>0. x \in Seq(Symbols) /\ d \in Seq(Symbols)
    BY <1>1, <1>5 DEF Text
  <2>1. /\ u \in Seq(Symbols) /\ Len(d) \in Nat /\ Len(u) = Len(x) + Len(d)
        /\ \A k \in 1 .. Len(x) : u[k] = x[k]
        /\ \A k \in 1 .. Len(d) : u[Len(x) + k] = d[k]
    BY <2>0, JoinIs
  <2> HIDE DEF u
  <2>2. Len(h) = Len(u)
    BY <1>3, <1>4, <1>5, <2>1
  <2>3. ASSUME NEW k \in 1 .. Len(h) PROVE h[k] = u[k]
    <3>1. CASE k <= Len(x)
      <4>1. k \in 1 .. Len(x)
        BY <1>2, <3>1
      <4> QED
        BY <1>2, <1>3, <2>1, <4>1
    <3>2. CASE ~(k <= Len(x))
      <4> DEFINE p == k - Len(x)
      <4>1. p \in 1 .. Len(d) /\ Len(x) + p = k /\ m + p = k
        BY <1>2, <1>3, <1>5, <3>2
      <4> HIDE DEF p, m
      <4> QED
        BY <1>5, <2>1, <4>1
    <3> QED
      BY <3>1, <3>2
  <2>4. h = u
    BY <1>1, <2>1, <2>2, <2>3, SeqEqual
  <2> QED
    BY <2>4 DEF u
<1>7. y = d \o z
  <2> DEFINE u == d \o z
  <2>0. d \in Seq(Symbols) /\ z \in Seq(Symbols)
    BY <1>1, <1>5 DEF Text
  <2>1. /\ u \in Seq(Symbols) /\ Len(d) \in Nat /\ Len(u) = Len(d) + Len(z)
        /\ \A k \in 1 .. Len(d) : u[k] = d[k]
        /\ \A k \in 1 .. Len(z) : u[Len(d) + k] = z[k]
    BY <2>0, JoinIs
  <2> HIDE DEF u
  <2>2. Len(y) = Len(u)
    BY <1>2, <1>3, <1>4, <1>5, <2>1
  <2>3. ASSUME NEW k \in 1 .. Len(y) PROVE y[k] = u[k]
    <3>0. y[k] = w[Len(x) + k]
      BY <1>2
    <3>1. CASE k <= Len(d)
      <4>1. k \in 1 .. Len(d) /\ m + k \in 1 .. Len(h)
        BY <1>2, <1>3, <1>5, <3>1
      <4>2. u[k] = d[k] /\ d[k] = h[m + k] /\ w[m + k] = h[m + k]
        BY <1>3, <1>5, <2>1, <4>1
      <4> QED
        BY <3>0, <4>2
    <3>2. CASE ~(k <= Len(d))
      <4> DEFINE p == k - Len(d)
      <4>1. p \in 1 .. Len(z) /\ Len(d) + p = k /\ Len(h) + p = Len(x) + k
        BY <1>2, <1>3, <1>5, <2>1, <2>2, <3>2
      <4> HIDE DEF p
      <4>2. u[k] = z[p] /\ w[Len(x) + k] = z[p]
        BY <1>3, <2>1, <4>1, Zenon
      <4> QED
        BY <3>0, <4>2
    <3> QED
      BY <3>1, <3>2
  <2>4. y = u
    BY <1>1, <2>1, <2>2, <2>3, SeqEqual
  <2> QED
    BY <2>4 DEF u
<1> QED
  BY <1>5, <1>6, <1>7, Zenon DEF Between

Opens(x) == x = "{"

HasOpening(t) == Has(t, "{")

\* The `{*}` is the only place with a brace that opens in a template without another.
LEMMA StarParts ==
    ASSUME NEW h \in Text, NEW t \in Text, Star \in Text, ~HasOpening(h), ~HasOpening(t)
    PROVE  LET w == h \o Star \o t
               j == Len(h) + 1
           IN  /\ w \in Text /\ j \in 1 .. Len(w) /\ j + 2 <= Len(w)
               /\ w[j] = "{" /\ w[j + 1] = "*" /\ w[j + 2] = "}"
               /\ \A k \in 1 .. Len(w) : Opens(w[k]) => k = j
               /\ Before(w, j) = h /\ From(w, j + 3) = t
<1> DEFINE w == h \o Star \o t
           n == Len(h)
           j == n + 1
<1>1. w \in Text /\ SameParts(h, Star, t, w)
  BY ThreeParts
<1> HIDE DEF w
<1>2. Len(Star) = 3
  BY Zenon DEF Star
<1>16. Star[1] = "{" /\ Star[2] = "*" /\ Star[3] = "}"
  <2>1. \A x, y, z : <<x, y, z>>[1] = x /\ <<x, y, z>>[2] = y /\ <<x, y, z>>[3] = z
    OBVIOUS
  <2> QED
    BY <2>1, Zenon DEF Star
<1>3. n \in Nat /\ Len(t) \in Nat /\ Len(w) \in Nat
  BY <1>1 DEF Text
<1>14. DOMAIN h = 1 .. n /\ DOMAIN t = 1 .. Len(t)
  BY DEF Text
<1>4. /\ Len(w) = n + 3 + Len(t)
      /\ \A k \in 1 .. n : h[k] = w[k]
      /\ \A k \in 1 .. 3 : Star[k] = w[n + k]
      /\ \A k \in 1 .. Len(t) : t[k] = w[n + 3 + k]
  <2>1. n + Len(Star) + Len(t) = Len(w)
    BY <1>1, Zenon DEF SameParts
  <2> QED
    BY <1>1, <1>2, <2>1, Zenon DEF SameParts
<1>15. Len(w) = n + 3 + Len(t)
  BY <1>4, Zenon
<1>5. w[j] = "{" /\ w[j + 1] = "*" /\ w[j + 2] = "}"
  <2>1. 1 \in 1 .. 3 /\ 2 \in 1 .. 3 /\ 3 \in 1 .. 3 /\ n + 1 = j /\ n + 2 = j + 1 /\ n + 3 = j + 2
    BY <1>3
  <2> HIDE DEF j, n
  <2> QED
    BY <1>16, <1>4, <2>1, Zenon
<1>6. j \in 1 .. Len(w) /\ j + 2 <= Len(w) /\ j \in 1 .. Len(w) + 1 /\ j + 3 \in 1 .. Len(w) + 1
  BY <1>3, <1>15
<1>7. \A k \in 1 .. n : ~Opens(w[k])
  BY <1>4, <1>14, Zenon DEF Has, HasOpening, Opens
<1>8. \A k \in 1 .. Len(t) : ~Opens(w[n + 3 + k])
  BY <1>4, <1>14, Zenon DEF Has, HasOpening, Opens
<1>9. ~Opens(w[j + 1]) /\ ~Opens(w[j + 2])
  BY <1>5, Zenon DEF Opens
<1>10. ASSUME NEW k \in 1 .. Len(w), k # j PROVE ~Opens(w[k])
  <2>1. CASE k <= n
    <3>1. k \in 1 .. n
      BY <1>3, <2>1
    <3> QED
      BY <1>7, <3>1
  <2>2. CASE k = j + 1 \/ k = j + 2
    BY <1>9, <2>2
  <2>3. CASE k > n + 3
    <3> DEFINE p == k - (n + 3)
    <3>1. p \in 1 .. Len(t) /\ n + 3 + p = k
      BY <1>3, <1>15, <2>3
    <3> HIDE DEF p
    <3> QED
      BY <1>8, <3>1
  <2>4. k <= n \/ k = j + 1 \/ k = j + 2 \/ k > n + 3
    BY <1>3, <1>10
  <2> QED
    BY <2>1, <2>2, <2>3, <2>4
<1>11. Before(w, j) = h
  <2>1. Before(w, j) \in Text /\ Len(Before(w, j)) = j - 1 /\ \A k \in 1 .. j - 1 : Before(w, j)[k] = w[k]
    BY <1>1, <1>6, SidesTyped, Zenon
  <2> DEFINE u == Before(w, j)
  <2> HIDE DEF u
  <2>2. u \in Seq(Symbols) /\ h \in Seq(Symbols) /\ Len(u) = Len(h) /\ \A k \in 1 .. Len(u) : u[k] = h[k]
    <3>1. u \in Seq(Symbols) /\ h \in Seq(Symbols)
      BY <2>1 DEF Text, u
    <3>2. Len(u) = n /\ j - 1 = n
      BY <1>3, <2>1 DEF u
    <3>3. \A k \in 1 .. n : u[k] = w[k]
      BY <2>1, <3>2 DEF u
    <3> QED
      BY <1>4, <3>1, <3>2, <3>3
  <2>3. u = h
    BY <2>2, SeqEqual
  <2> QED
    BY <2>3 DEF u
<1>12. From(w, j + 3) = t
  <2> DEFINE q == j + 3
             u == From(w, q)
  <2>0. q \in 1 .. Len(w) + 1 /\ q = n + 4
    BY <1>3, <1>6
  <2> HIDE DEF q, j, n
  <2>1. u \in Text /\ Len(u) = Len(w) - q + 1 /\ \A k \in 1 .. Len(w) - q + 1 : u[k] = w[q + k - 1]
    BY <1>1, <2>0, SidesTyped, Zenon
  <2> HIDE DEF u
  <2>2. Len(u) = Len(t)
    BY <1>3, <1>15, <2>0, <2>1
  <2>3. ASSUME NEW k \in 1 .. Len(u) PROVE u[k] = t[k]
    <3>1. k \in 1 .. Len(w) - q + 1 /\ k \in 1 .. Len(t) /\ q + k - 1 = n + 3 + k
      BY <1>3, <1>15, <2>0, <2>2
    <3> QED
      BY <1>4, <2>1, <3>1
  <2>4. u \in Seq(Symbols) /\ t \in Seq(Symbols)
    BY <2>1 DEF Text
  <2>5. u = t
    BY <2>2, <2>3, <2>4, SeqEqual
  <2> QED
    BY <2>5 DEF u, q
<1>13. \A k \in 1 .. Len(w) : Opens(w[k]) => k = j
  BY <1>10, Zenon
<1> QED
  BY <1>1, <1>5, <1>6, <1>11, <1>12, <1>13, Zenon DEF w

\* Where no brace opens nothing is put in.
LEMMA NoOpeningPuts ==
    ASSUME NEW t \in Text, NEW b \in Bindings, ~HasOpening(t)
    PROVE  Substituted(t, b) = t
<1>1. DOMAIN t = 1 .. Len(t)
  BY DEF Text
<1>2. \A i \in 1 .. Len(t) : t[i] # "{"
  BY <1>1, Zenon DEF HasOpening, Has
<1>3. PutsNothing(t, 1, Len(t), b)
  BY <1>2, NoBracePutsNothing, Zenon
<1> QED
  BY <1>3, NothingPut

\* With one `{*}` the star's capture is put in there.
LEMMA StarPut ==
    ASSUME NEW h \in Text, NEW t \in Text, Star \in Text, ~HasOpening(h), ~HasOpening(t),
           NEW b \in Bindings, b.glob # None
    PROVE  Substituted(h \o Star \o t, b) = h \o b.glob \o t
<1> DEFINE w == h \o Star \o t
           j == Len(h) + 1
<1>1. /\ w \in Text /\ j \in 1 .. Len(w) /\ j + 2 <= Len(w)
      /\ w[j] = "{" /\ w[j + 1] = "*" /\ w[j + 2] = "}"
      /\ \A k \in 1 .. Len(w) : Opens(w[k]) => k = j
      /\ Before(w, j) = h /\ From(w, j + 3) = t
  BY StarParts, Zenon
<1> HIDE DEF w, j
<1>2. Resolved(w, j, b) = b.glob
  BY <1>1, Zenon DEF Resolved
<1>3. Len(w) \in Nat /\ j \in 1 .. Len(w)
  <2>1. w \in Text /\ j \in 1 .. Len(w)
    BY <1>1, Zenon
  <2> QED
    BY <2>1 DEF Text
<1>4. \A k \in 1 .. Len(w) : k # j => w[k] # "{"
  BY <1>1, Zenon DEF Opens
<1>5. PutsNothing(w, 1, j - 1, b)
  <2>1. \A k \in 1 .. j - 1 : k \in 1 .. Len(w) /\ k # j
    BY <1>3
  <2>2. \A k \in 1 .. j - 1 : w[k] # "{"
    BY <1>4, <2>1, Zenon
  <2>3. ASSUME NEW k \in 1 .. j - 1 PROVE Resolved(w, k, b) = None
    BY <2>2, Zenon DEF Resolved
  <2> QED
    BY <2>3, Zenon DEF PutsNothing
<1>6. PutsNothing(w, j + 1, Len(w), b)
  <2>1. \A k \in j + 1 .. Len(w) : k \in 1 .. Len(w) /\ k # j
    BY <1>3
  <2>2. \A k \in j + 1 .. Len(w) : w[k] # "{"
    BY <1>4, <2>1, Zenon
  <2>3. ASSUME NEW k \in j + 1 .. Len(w) PROVE Resolved(w, k, b) = None
    BY <2>2, Zenon DEF Resolved
  <2> QED
    BY <2>3, Zenon DEF PutsNothing
<1>7. w \in Text /\ Before(w, j) = h /\ From(w, j + 3) = t
  BY <1>1, Zenon
<1>8. Substituted(w, b) = Before(w, j) \o (Resolved(w, j, b) \o From(w, j + 3))
  <2>1. Resolved(w, j, b) # None
    BY <1>2
  <2> QED
    BY <1>3, <1>5, <1>6, <1>7, <2>1, OnePut, Zenon
<1>9. b.glob \in Text
  BY DEF Bindings
<1>10. (h \o b.glob) \o t = h \o (b.glob \o t)
  BY <1>9, JoinAssociates, ZenonT(60)
<1>11. Substituted(w, b) = h \o b.glob \o t
  BY <1>2, <1>7, <1>8, <1>10, Zenon
<1> QED
  BY <1>11 DEF w

Beside(x, y, h, t) == x \o y = h \o Star \o t /\ (Len(h) + 3 <= Len(x) \/ Len(x) <= Len(h))

Together(x, y, h, t, b) == Substituted(x, b) \o Substituted(y, b) = h \o b.glob \o t

Opened(h, t) == HasOpening(h) \/ HasOpening(t)

HasGlob(b) == b.glob # None

\* And wherever such a template is cut, but within the `{*}`, the pieces come to the same.
LEMMA StarPutInPieces ==
    ASSUME NEW h \in Text, NEW t \in Text, Star \in Text, ~Opened(h, t),
           NEW b \in Bindings, HasGlob(b),
           NEW x \in Text, NEW y \in Text, Beside(x, y, h, t)
    PROVE  Together(x, y, h, t, b)
<1>6. ~HasOpening(h) /\ ~HasOpening(t) /\ b.glob # None /\ x \o y = h \o Star \o t
      /\ (Len(h) + 3 <= Len(x) \/ Len(x) <= Len(h))
  BY Zenon DEF Opened, HasGlob, Beside
<1> DEFINE g == b.glob
<1>0. g \in Text
  BY <1>6 DEF Bindings
<1> SUFFICES Substituted(x, b) \o Substituted(y, b) = h \o g \o t
  BY Zenon DEF Together
<1> HIDE DEF g
<1> DEFINE hs == h \o Star
           st == Star \o t
           hc == h \o g
           ct == g \o t
<1>1. hs \in Text /\ st \in Text /\ hc \in Text /\ ct \in Text
  BY <1>0, HasJoined
<1>5. /\ h \o Star \o t = h \o st /\ h \o Star \o t = hs \o t
      /\ h \o g \o t = h \o ct /\ h \o g \o t = hc \o t
  <2>2. (h \o Star) \o t = h \o (Star \o t)
    BY JoinAssociates
  <2>3. (h \o g) \o t = h \o (g \o t)
    BY <1>0, JoinAssociates, SMTT(60)
  <2> QED
    BY <2>2, <2>3, Zenon
<1>2. Len(hs) = Len(h) + 3 /\ Len(x) \in Nat /\ Len(h) \in Nat
  <2>1. Len(Star) = 3
    BY Zenon DEF Star
  <2>2. h \in Seq(Symbols) /\ Star \in Seq(Symbols) /\ x \in Seq(Symbols)
    BY DEF Text
  <2>3. Len(h \o Star) = Len(h) + Len(Star)
    BY <2>2, JoinIs
  <2>4. Len(x) \in Nat /\ Len(h) \in Nat
    BY <2>2
  <2> QED
    BY <2>1, <2>3, <2>4
<1> HIDE DEF hs, st, hc, ct
<1>3. CASE Len(h) + 3 <= Len(x)
  <2>1. CutTwice(hs, t, x, y)
    <3>1. hs \o t = x \o y
      BY <1>5, <1>6, Zenon
    <3>2. Len(hs) <= Len(x)
      BY <1>2, <1>3
    <3> QED
      BY <3>1, <3>2, Zenon DEF CutTwice
  <2>0. hs \in Text
    BY <1>1
  <2>12. Between(hs, t, x, y)
    BY <2>0, <2>1, TwoCuts
  <2>2. PICK d \in Text : x = hs \o d /\ t = d \o y
    BY <2>12, Zenon DEF Between
  <2>3. ~HasOpening(d) /\ ~HasOpening(y)
    BY <1>6, <2>2, HasJoined, Zenon DEF HasOpening
  <2>4. Substituted(y, b) = y
    BY <2>3, NoOpeningPuts
  <2>5. Substituted(x, b) = hc \o d
    <3>1. Substituted(h \o Star \o d, b) = h \o g \o d
      BY <1>6, <2>3, StarPut, Zenon DEF g
    <3> QED
      BY <2>2, <3>1, Zenon DEF hs, hc
  <2>7. hc \in Text
    BY <1>1
  <2>6. (hc \o d) \o y = hc \o (d \o y)
    BY <2>7, JoinAssociates, ZenonT(60)
  <2> QED
    BY <1>5, <2>2, <2>4, <2>5, <2>6, Zenon
<1>4. CASE Len(x) <= Len(h)
  <2>1. CutTwice(x, y, h, st)
    BY <1>4, <1>5, <1>6, Zenon DEF CutTwice
  <2>0. st \in Text
    BY <1>1
  <2>12. Between(x, y, h, st)
    BY <2>0, <2>1, TwoCuts
  <2>2. PICK d \in Text : h = x \o d /\ y = d \o st
    BY <2>12, Zenon DEF Between
  <2>3. ~HasOpening(x) /\ ~HasOpening(d)
    BY <1>6, <2>2, HasJoined, Zenon DEF HasOpening
  <2>4. Substituted(x, b) = x
    BY <2>3, NoOpeningPuts
  <2>5. y = d \o Star \o t
    <3>1. (d \o Star) \o t = d \o (Star \o t)
      BY JoinAssociates, ZenonT(60)
    <3> QED
      BY <2>2, <3>1, Zenon DEF st
  <2>6. Substituted(y, b) = d \o g \o t
    BY <1>6, <2>3, <2>5, StarPut, Zenon DEF g
  <2>7. (d \o g) \o t = d \o (g \o t)
    <3>1. \A p \in Text : (d \o p) \o t = d \o (p \o t)
      BY JoinAssociates, ZenonT(60)
    <3> QED
      BY <1>0, <3>1, Zenon
  <2>9. ct \in Text
    BY <1>1
  <2>8. (x \o d) \o ct = x \o (d \o ct)
    <3>1. \A p \in Text : (x \o d) \o p = x \o (d \o p)
      BY JoinAssociates, Zenon
    <3> QED
      BY <2>9, <3>1, Zenon
  <2> QED
    BY <1>5, <2>2, <2>4, <2>6, <2>7, <2>8, Zenon DEF ct
<1> QED
  BY <1>3, <1>4, <1>6, Zenon

Closes(x) == x = "}"

IsStar(x) == x = "*"

\* No symbol opens and closes, or is the star.
LEMMA BracesDiffer == \A x : ~(Opens(x) /\ Closes(x)) /\ ~(Opens(x) /\ IsStar(x)) /\ ~(Closes(x) /\ IsStar(x))
BY Zenon DEF Opens, Closes, IsStar

StarAt(t, i) == Opens(t[i]) /\ IsStar(t[i + 1]) /\ Closes(t[i + 2])

\* What is nowhere in a text is on neither side of a symbol.
LEMMA NowhereAround ==
    ASSUME NEW t \in Text, NEW x, Has(t, x), NEW y, ~Has(t, y)
    PROVE  ~Has(Before(t, First(t, x)), y) /\ ~Has(From(t, First(t, x) + 1), y)
<1>1. DOMAIN t = 1 .. Len(t)
  BY DEF Text
<1>2. ASSUME Has(Before(t, First(t, x)), y) \/ Has(From(t, First(t, x) + 1), y) PROVE FALSE
  <2>1. \E i \in 1 .. Len(t) : i # First(t, x) /\ t[i] = y
    BY <1>2, SidesHave
  <2> QED
    BY <1>1, <2>1, Zenon DEF Has
<1> QED
  BY <1>2, Zenon

\* The `{*}` is a text where a key has a star.
LEMMA StarTyped == ASSUME NEW key \in Text, Has(key, "*") PROVE Star \in Text
<1>1. {"{", "}"} \subseteq Symbols
  BY MatchingAssumption, Zenon
<1>2. "*" \in Symbols
  <2>1. DOMAIN key = 1 .. Len(key) /\ \A i \in 1 .. Len(key) : key[i] \in Symbols
    BY DEF Text
  <2> QED
    BY <2>1, Zenon DEF Has
<1>3. \A a, b, c \in Symbols : <<a, b, c>> \in Seq(Symbols)
  OBVIOUS
<1>4. "{" \in Symbols /\ "}" \in Symbols
  BY <1>1, Zenon
<1> QED
  BY <1>2, <1>3, <1>4, Zenon DEF Star, Text

\* A template with one `{}` at most is rendered from what is left without it.
LEMMA RenderedWithoutCursor ==
    ASSUME NEW e \in Text, Cardinality(CursorAt(e)) < 2,
           NEW b \in Bindings, NEW r, RenderNumber(r, b) = e, Render(r, b) # None
    PROVE  \/ WithoutCursors(e) = e /\ Render(r, b).text = Substituted(e, b)
           \/ \E c \in 1 .. Len(e) - 1 :
                 /\ c \in CursorAt(e)
                 /\ Before(e, c) \in Text /\ From(e, c + 2) \in Text
                 /\ WithoutCursors(e) = Before(e, c) \o From(e, c + 2)
                 /\ Render(r, b).text = Substituted(Before(e, c), b) \o Substituted(From(e, c + 2), b)
<1> DEFINE i == FirstCursor(e)
<1>1. /\ i = None => Render(r, b).text = Substituted(e, b)
      /\ i # None =>
            /\ Before(e, i) \in Text /\ From(e, i + 2) \in Text
            /\ Render(r, b).text = Substituted(Before(e, i), b) \o Substituted(From(e, i + 2), b)
  BY RenderedIs
<1> HIDE DEF i
<1>2. CASE CursorAt(e) = {}
  <2>1. WithoutCursors(e) = e
    BY <1>2, NothingCut, Zenon
  <2>2. i = None
    BY <1>2, FirstCursorIs, Zenon DEF i
  <2> QED
    BY <1>1, <2>1, <2>2, Zenon
<1>3. ASSUME NEW c \in 1 .. Len(e) - 1, CursorAt(e) = {c}, i = c
      PROVE  /\ c \in CursorAt(e)
             /\ Before(e, c) \in Text /\ From(e, c + 2) \in Text
             /\ WithoutCursors(e) = Before(e, c) \o From(e, c + 2)
             /\ Render(r, b).text = Substituted(Before(e, c), b) \o Substituted(From(e, c + 2), b)
  <2>1. c # None
    <3>1. c \in Nat
      BY <1>3
    <3> QED
      BY <3>1, MatchingAssumption, Zenon
  <2>2. WithoutCursors(e) = Before(e, c) \o From(e, c + 2)
    BY <1>3, OneCut, Zenon
  <2>3. c \in CursorAt(e)
    BY <1>3, Zenon
  <2> QED
    BY <1>1, <1>3, <2>1, <2>2, <2>3, Zenon
<1> QED
  BY <1>2, <1>3, CursorsAre, Zenon DEF i

\* And without anything that opens it is what is written.
LEMMA PlainRendered ==
    ASSUME NEW e \in Text, Cardinality(CursorAt(e)) < 2,
           NEW key \in Text, ~HasOpening(key), WithoutCursors(e) = key,
           NEW b \in Bindings, NEW r, RenderNumber(r, b) = e, Render(r, b) # None
    PROVE  Render(r, b).text = key
<1>1. CASE WithoutCursors(e) = e /\ Render(r, b).text = Substituted(e, b)
  <2>1. Substituted(key, b) = key
    BY NoOpeningPuts
  <2> QED
    BY <1>1, <2>1, Zenon
<1>2. ASSUME NEW c \in 1 .. Len(e) - 1, c \in CursorAt(e),
             Before(e, c) \in Text, From(e, c + 2) \in Text,
             WithoutCursors(e) = Before(e, c) \o From(e, c + 2),
             Render(r, b).text = Substituted(Before(e, c), b) \o Substituted(From(e, c + 2), b)
      PROVE  Render(r, b).text = key
  <2> DEFINE x == Before(e, c)
             y == From(e, c + 2)
  <2>1. x \in Text /\ y \in Text /\ x \o y = key /\ Render(r, b).text = Substituted(x, b) \o Substituted(y, b)
    BY <1>2, Zenon
  <2> HIDE DEF x, y
  <2>2. ~HasOpening(x) /\ ~HasOpening(y)
    BY <2>1, HasJoined, Zenon DEF HasOpening
  <2>3. Substituted(x, b) = x /\ Substituted(y, b) = y
    BY <2>1, <2>2, NoOpeningPuts, Zenon
  <2> QED
    BY <2>1, <2>3, Zenon
<1> QED
  BY <1>1, <1>2, RenderedWithoutCursor, Zenon

\* Texts put together, after each of them.
Running(g, seqs) ==
    /\ g \in [0 .. Len(seqs) -> Text]
    /\ g[0] = <<>>
    /\ \A i \in 1 .. Len(seqs) : g[i] = g[i - 1] \o seqs[i]
    /\ FlattenSeq(seqs) = g[Len(seqs)]

\* FlattenSeq gets there step by step.
LEMMA FlattenRuns == ASSUME NEW seqs \in Seq(Text) PROVE \E g : Running(g, seqs)
<1> DEFINE n == Len(seqs)
<1>1. n \in Nat /\ <<>> \in Text /\ \A i \in 1 .. n : seqs[i] \in Text
  BY DEF Text
<1>2. CASE seqs = <<>>
  <2> DEFINE g == [i \in 0 .. n |-> <<>>]
  <2>1. n = 0 /\ \A i \in 1 .. n : FALSE
    BY <1>2
  <2>2. FlattenSeq(seqs) = seqs
    BY <2>1, Zenon DEF FlattenSeq
  <2>3. 0 \in 0 .. n
    BY <1>1
  <2>4. g \in [0 .. n -> Text] /\ g[0] = <<>>
    BY <1>1, <2>3, Zenon
  <2> HIDE DEF g
  <2>5. Running(g, seqs)
    BY <1>2, <2>1, <2>2, <2>4, Zenon DEF Running
  <2> QED
    BY <2>5
<1>3. CASE seqs # <<>>
  <2>1. seqs \in Seq(Seq(Symbols))
    BY DEF Text
  <2>2. PICK f : IsFlattening(f, Symbols, seqs)
    BY <1>3, <2>1, FlattenSteps, Zenon
  <2>3. /\ f \in [1 .. n -> Text] /\ f[1] = seqs[1]
        /\ \A i \in 2 .. n : f[i] = f[i - 1] \o seqs[i]
        /\ FlattenSeq(seqs) = f[n]
    BY <2>2, Zenon DEF IsFlattening, Text
  <2> DEFINE g == [i \in 0 .. n |-> IF i = 0 THEN <<>> ELSE f[i]]
  <2>4. n # 0
    BY <1>3
  <2> HIDE DEF n
  <2>5. g \in [0 .. n -> Text]
    <3>1. \A i \in 0 .. n : i # 0 => i \in 1 .. n
      BY <1>1
    <3>2. \A i \in 1 .. n : f[i] \in Text
      BY <2>3
    <3> QED
      BY <1>1, <3>1, <3>2, Zenon
  <2>6. g[0] = <<>> /\ g[n] = f[n]
    <3>1. 0 \in 0 .. n /\ n \in 0 .. n
      BY <1>1
    <3> QED
      BY <2>4, <3>1, Zenon
  <2>7. ASSUME NEW i \in 1 .. n PROVE g[i] = g[i - 1] \o seqs[i]
    <3>1. i \in 0 .. n /\ i # 0 /\ i - 1 \in 0 .. n
      BY <1>1
    <3>2. g[i] = f[i]
      BY <3>1, Zenon
    <3>3. CASE i = 1
      <4>0. i - 1 = 0
        BY <3>3
      <4>1. g[i - 1] = <<>>
        BY <2>6, <4>0, Zenon
      <4>2. seqs[1] \in Seq(Symbols)
        BY <1>1, <2>4 DEF Text
      <4>3. <<>> \o seqs[1] = seqs[1]
        BY <4>2, ConcatEmptySeq
      <4> QED
        BY <2>3, <3>2, <3>3, <4>1, <4>3, Zenon
    <3>4. CASE i # 1
      <4>1. i \in 2 .. n /\ i - 1 # 0
        BY <1>1, <3>4
      <4>2. g[i - 1] = f[i - 1]
        BY <3>1, <4>1, Zenon
      <4> QED
        BY <2>3, <3>2, <4>1, <4>2, Zenon
    <3> QED
      BY <3>3, <3>4, Zenon
  <2> HIDE DEF g
  <2>8. Running(g, seqs)
    BY <2>3, <2>5, <2>6, <2>7, Zenon DEF Running, n
  <2> QED
    BY <2>8
<1> QED
  BY <1>2, <1>3

\* From one of these to a later one: what is in between has what the texts in between have.
Gathers(g, seqs, m, k) ==
    \E y \in Text : g[k] = g[m] \o y /\ \A x : Has(y, x) <=> \E i \in m + 1 .. k : Has(seqs[i], x)

\* It goes on like that from each.
LEMMA RunGathers ==
    ASSUME NEW seqs \in Seq(Text), NEW g, Running(g, seqs), NEW m \in 0 .. Len(seqs)
    PROVE  \A k \in m .. Len(seqs) : Gathers(g, seqs, m, k)
<1> DEFINE n == Len(seqs)
           T == { d \in Nat : m + d <= n => Gathers(g, seqs, m, m + d) }
<1>1. n \in Nat /\ m \in Nat /\ m <= n /\ \A i \in 1 .. n : seqs[i] \in Text
  OBVIOUS
<1>2. /\ g \in [0 .. n -> Text]
      /\ \A i \in 1 .. n : g[i] = g[i - 1] \o seqs[i]
  BY Zenon DEF Running
<1> HIDE DEF n
<1>3. 0 \in T
  <2>1. g[m] \in Text
    BY <1>1, <1>2
  <2>2. <<>> \in Text /\ g[m] \o <<>> = g[m]
    BY <2>1, ConcatEmptySeq DEF Text
  <2>3. \A x : ~Has(<<>>, x)
    BY DEF Has
  <2>4. \A i \in m + 1 .. m : FALSE
    BY <1>1
  <2>5. Gathers(g, seqs, m, m)
    BY <2>2, <2>3, <2>4, Zenon DEF Gathers
  <2>6. m + 0 = m
    BY <1>1
  <2> QED
    BY <2>5, <2>6, Zenon
<1>4. ASSUME NEW d \in Nat, d \in T PROVE d + 1 \in T
  <2> DEFINE k == m + d
             j == k + 1
  <2>1. ASSUME m + (d + 1) <= n PROVE Gathers(g, seqs, m, m + (d + 1))
    <3>1. m + d <= n /\ k \in 0 .. n /\ j \in 1 .. n /\ j - 1 = k /\ m + (d + 1) = j /\ j \in m + 1 .. j
          /\ \A i \in m + 1 .. j : i \in m + 1 .. k \/ i = j
      BY <1>1, <2>1
    <3>9. \A i \in m + 1 .. k : i \in m + 1 .. j
      BY <1>1
    <3>2. Gathers(g, seqs, m, k)
      BY <1>4, <3>1, Zenon
    <3> HIDE DEF k, j
    <3>3. PICK y \in Text : g[k] = g[m] \o y /\ \A x : Has(y, x) <=> \E i \in m + 1 .. k : Has(seqs[i], x)
      BY <3>2, Zenon DEF Gathers
    <3>4. g[j] = g[k] \o seqs[j]
      BY <1>2, <3>1, Zenon
    <3>5. seqs[j] \in Text /\ g[m] \in Text
      BY <1>1, <1>2, <3>1
    <3>6. (g[m] \o y) \o seqs[j] = g[m] \o (y \o seqs[j])
      BY <3>5, JoinAssociates, Zenon
    <3>7. y \o seqs[j] \in Text /\ \A x : Has(y \o seqs[j], x) <=> Has(y, x) \/ Has(seqs[j], x)
      BY <3>5, HasJoined, Zenon
    <3>8. \A x : Has(y \o seqs[j], x) <=> \E i \in m + 1 .. j : Has(seqs[i], x)
      BY <3>1, <3>3, <3>7, <3>9, Zenon
    <3>10. g[j] = g[m] \o (y \o seqs[j])
      BY <3>3, <3>4, <3>6, Zenon
    <3>11. Gathers(g, seqs, m, j)
      BY <3>7, <3>8, <3>10, Zenon DEF Gathers
    <3> QED
      BY <3>1, <3>11, Zenon
  <2>2. d + 1 \in Nat
    OBVIOUS
  <2> QED
    BY <2>1, <2>2, Zenon
<1>5. Nat \subseteq T
  <2> HIDE DEF T
  <2> QED BY <1>3, <1>4, Induction, Zenon
<1>6. ASSUME NEW k \in m .. n PROVE Gathers(g, seqs, m, k)
  <2> DEFINE d == k - m
  <2>1. d \in Nat /\ m + d = k /\ m + d <= n
    BY <1>1
  <2> HIDE DEF d
  <2>2. d \in T
    BY <1>5, <2>1, Zenon
  <2> QED
    BY <2>1, <2>2, Zenon
<1> QED
  BY <1>6 DEF n

\* So a text put together has what its parts have.
LEMMA FlattenHas ==
    ASSUME NEW seqs \in Seq(Text)
    PROVE  /\ FlattenSeq(seqs) \in Text
           /\ \A x : Has(FlattenSeq(seqs), x) <=> \E i \in 1 .. Len(seqs) : Has(seqs[i], x)
<1>1. PICK g : Running(g, seqs)
  BY FlattenRuns
<1> DEFINE n == Len(seqs)
<1>2. n \in Nat /\ 0 \in 0 .. n /\ n \in 0 .. n /\ 0 + 1 = 1
  OBVIOUS
<1>3. g[0] = <<>> /\ FlattenSeq(seqs) = g[n]
  BY <1>1, Zenon DEF Running
<1>4. Gathers(g, seqs, 0, n)
  BY <1>1, <1>2, RunGathers
<1>5. PICK y \in Text : g[n] = g[0] \o y /\ \A x : Has(y, x) <=> \E i \in 0 + 1 .. n : Has(seqs[i], x)
  BY <1>4, Zenon DEF Gathers
<1>6. <<>> \o y = y
  BY ConcatEmptySeq DEF Text
<1>7. FlattenSeq(seqs) = y
  BY <1>3, <1>5, <1>6, Zenon
<1> QED
  BY <1>2, <1>5, <1>7, Zenon

-----------------------------------------------------------------------------

\* A way comes to an end if each place leads to ones of a lower rank.
GoesDown(goes, rank, m) ==
    /\ m \in Nat
    /\ rank \in [DOMAIN goes -> 0 .. m]
    /\ \A x \in DOMAIN goes : \A y \in goes[x] : y \in DOMAIN goes /\ rank[y] < rank[x]

\* Then a place is reached from another if it is that, or from one where that leads.
LEMMA ReachesIs ==
    ASSUME NEW goes, NEW rank, NEW m, GoesDown(goes, rank, m), NEW end
    PROVE  \A x \in DOMAIN goes : Reaches(goes, x, end) <=> x = end \/ \E y \in goes[x] : Reaches(goes, y, end)
<1> DEFINE D == DOMAIN goes
           body(x, f) == x = end \/ \E y \in goes[x] : f[y]
           Good(k) == \E f : \A x \in D : rank[x] < k => f[x] = body(x, f)
           T == { k \in Nat : Good(k) }
           Unfolds(f) == f = [x \in DOMAIN goes |-> x = end \/ \E y \in goes[x] : f[y]]
           f0 == CHOOSE f : Unfolds(f)
<1>1. m \in Nat /\ rank \in [D -> 0 .. m] /\ \A x \in D : \A y \in goes[x] : y \in D /\ rank[y] < rank[x]
  BY DEF GoesDown
<1>2. \A x \in D : Reaches(goes, x, end) = f0[x]
  BY Zenon DEF Reaches
<1>3. \A f : Unfolds(f) <=> f = [x \in D |-> body(x, f)]
  BY Zenon
<1>4. ASSUME NEW x, NEW f, NEW g, \A y \in goes[x] : f[y] = g[y] PROVE body(x, f) = body(x, g)
  <2>1. (\E y \in goes[x] : f[y]) <=> \E y \in goes[x] : g[y]
    BY <1>4, Zenon
  <2>2. (x = end \/ \E y \in goes[x] : f[y]) <=> (x = end \/ \E y \in goes[x] : g[y])
    BY <2>1, Zenon
  <2> QED
    BY <2>2, Zenon
<1>6. 0 \in T
  <2>1. \A x \in D : ~(rank[x] < 0)
    BY <1>1
  <2> QED
    BY <2>1, Zenon
<1>7. ASSUME NEW k \in Nat, k \in T PROVE k + 1 \in T
  <2>1. PICK f : \A x \in D : rank[x] < k => f[x] = body(x, f)
    BY <1>7, Zenon
  <2> DEFINE g == [x \in D |-> IF rank[x] = k THEN body(x, f) ELSE f[x]]
  <2>2. ASSUME NEW x \in D, rank[x] < k + 1 PROVE g[x] = body(x, g)
    <3>1. \A y \in goes[x] : y \in D /\ rank[y] < k
      BY <1>1, <2>2
    <3>2. \A y \in goes[x] : f[y] = g[y]
      <4> HIDE DEF body
      <4>1. \A y \in goes[x] : rank[y] # k
        BY <3>1, <1>1
      <4> QED
        BY <3>1, <4>1, Zenon
    <3>3. body(x, f) = body(x, g)
      <4> HIDE DEF body, g
      <4> QED
        BY <3>2, <1>4
    <3>4. g[x] = body(x, f)
      <4>1. rank[x] # k => rank[x] < k
        BY <1>1, <2>2
      <4> HIDE DEF body
      <4> QED
        BY <4>1, <2>1, <2>2, Zenon
    <3> QED
      BY <3>3, <3>4, Zenon
  <2>3. k + 1 \in Nat
    OBVIOUS
  <2> HIDE DEF g, body, D
  <2> QED
    BY <2>2, <2>3, Zenon
<1>8. m + 1 \in T
  <2> HIDE DEF T
  <2> QED
    BY <1>1, <1>6, <1>7, Induction
<1>9. PICK f : \A x \in D : rank[x] < m + 1 => f[x] = body(x, f)
  BY <1>8, Zenon
<1>10. \A x \in D : rank[x] < m + 1
  BY <1>1
<1>11. Unfolds([x \in D |-> body(x, f)])
  <2> DEFINE g == [x \in D |-> body(x, f)]
  <2>1. ASSUME NEW x \in D PROVE body(x, g) = body(x, f)
    <3>1. \A y \in goes[x] : g[y] = f[y]
      <4>1. \A y \in goes[x] : y \in D
        BY <1>1, Zenon
      <4> HIDE DEF body
      <4> QED
        BY <4>1, <1>9, <1>10, Zenon
    <3> HIDE DEF body, g
    <3> QED
      BY <3>1, <1>4
  <2>2. g = [x \in D |-> body(x, g)]
    <3> HIDE DEF body
    <3> QED
      BY <2>1, Zenon
  <2> HIDE DEF g
  <2>3. Unfolds(g)
    BY <2>2, <1>3, Zenon
  <2> QED
    BY <2>3, Zenon DEF g
<1>12. Unfolds(f0)
  <2> HIDE DEF Unfolds
  <2> QED
    BY <1>11, Zenon
<1>13. f0 = [x \in D |-> body(x, f0)]
  <2> HIDE DEF f0
  <2> QED
    BY <1>12, <1>3, Zenon
<1> SUFFICES ASSUME NEW x \in D PROVE Reaches(goes, x, end) <=> x = end \/ \E y \in goes[x] : Reaches(goes, y, end)
  BY Zenon
<1>14. f0[x] = (x = end \/ \E y \in goes[x] : f0[y])
  <2>1. f0[x] = body(x, f0)
    <3> HIDE DEF f0, body
    <3> QED
      BY <1>13
  <2> HIDE DEF f0
  <2> QED
    BY <2>1, Zenon
<1> HIDE DEF f0
<1>15. \A y \in goes[x] : Reaches(goes, y, end) = f0[y]
  BY <1>1, <1>2, Zenon
<1>16. (\E y \in goes[x] : Reaches(goes, y, end)) <=> \E y \in goes[x] : f0[y]
  BY <1>15, Zenon
<1>17. Reaches(goes, x, end) = (x = end \/ \E y \in goes[x] : f0[y])
  BY <1>2, <1>14, Zenon
<1> QED
  BY <1>16, <1>17, Zenon

BashWays(p, t) == [x \in (1 .. Len(p) + 1) \X (1 .. Len(t) + 1) |-> BashGoes(p, t, x[1], x[2])]

\* What matches from a place of the pattern and one of the text on.
GlobFrom(p, t, i, j) == Reaches(BashWays(p, t), <<i, j>>, <<Len(p) + 1, Len(t) + 1>>)

\* Of a pattern without brackets and backslashes.
Simple(p) == \A i \in 1 .. Len(p) : p[i] # "[" /\ p[i] # "\\"

\* Where a simple pattern leads from a place.
SimpleGoes(p, t, i, j) ==
    /\ i = Len(p) + 1 => BashGoes(p, t, i, j) = {}
    /\ i <= Len(p) /\ p[i] = "*" => BashGoes(p, t, i, j) = {<<i + 1, j>>} \cup (IF j <= Len(t) THEN {<<i, j + 1>>} ELSE {})
    /\ i <= Len(p) /\ p[i] # "*" =>
          BashGoes(p, t, i, j) = IF j <= Len(t) /\ p[i] \in {"?", t[j]} THEN {<<i + 1, j + 1>>} ELSE {}

\* So says the definition.
LEMMA SimpleGoesIs ==
    ASSUME NEW p, NEW t, Len(p) \in Nat, Len(t) \in Nat, Simple(p), NEW i \in 1 .. Len(p) + 1, NEW j \in 1 .. Len(t) + 1
    PROVE  SimpleGoes(p, t, i, j)
<1>1. i = Len(p) + 1 => i > Len(p)
  OBVIOUS
<1>2. i <= Len(p) => ~(i > Len(p)) /\ p[i] # "[" /\ p[i] # "\\"
  <2>1. i <= Len(p) => ~(i > Len(p)) /\ i \in 1 .. Len(p)
    OBVIOUS
  <2> QED
    BY <2>1, Zenon DEF Simple
<1>3. i <= Len(p) => { k \in i + 2 .. Len(p) : p[i] = "[" /\ p[k] = "]" } = {}
  BY <1>2, Zenon
<1>4. i = Len(p) + 1 => ~(i <= Len(p)) /\ ~(i < Len(p))
  OBVIOUS
<1>5. CASE i = Len(p) + 1
  <2>1. { k \in i + 2 .. Len(p) : p[i] = "[" /\ p[k] = "]" } = {}
    <3>1. \A k \in i + 2 .. Len(p) : FALSE
      BY <1>5
    <3> QED
      BY <3>1, Zenon
  <2> QED
    BY <1>1, <1>4, <1>5, <2>1, Zenon DEF BashGoes, SimpleGoes
<1>6. CASE i <= Len(p) /\ p[i] = "*"
  <2>1. BashGoes(p, t, i, j) = {<<i + 1, j>>} \cup (IF j <= Len(t) /\ TRUE THEN {<<i, j + 1>>} ELSE {})
    BY <1>2, <1>3, <1>6, Zenon DEF BashGoes
  <2>2. i # Len(p) + 1
    BY <1>4, <1>6
  <2> QED
    BY <1>6, <2>1, <2>2, Zenon DEF SimpleGoes
<1>7. CASE i <= Len(p) /\ p[i] # "*"
  <2>1. BashGoes(p, t, i, j) = IF j <= Len(t) /\ p[i] \in {"?", t[j]} THEN {<<i + 1, j + 1>>} ELSE {}
    BY <1>2, <1>3, <1>7, Zenon DEF BashGoes
  <2>2. i # Len(p) + 1
    BY <1>4, <1>7
  <2> QED
    BY <1>7, <2>1, <2>2, Zenon DEF SimpleGoes
<1>8. i = Len(p) + 1 \/ i <= Len(p)
  OBVIOUS
<1> QED
  BY <1>5, <1>6, <1>7, <1>8

\* What matches from a place on, of a simple pattern.
SimpleFrom(p, t, i, j) ==
    /\ i = Len(p) + 1 => (GlobFrom(p, t, i, j) <=> j = Len(t) + 1)
    /\ i <= Len(p) /\ p[i] = "*" =>
          (GlobFrom(p, t, i, j) <=> GlobFrom(p, t, i + 1, j) \/ (j <= Len(t) /\ GlobFrom(p, t, i, j + 1)))
    /\ i <= Len(p) /\ p[i] # "*" =>
          (GlobFrom(p, t, i, j) <=> j <= Len(t) /\ p[i] \in {"?", t[j]} /\ GlobFrom(p, t, i + 1, j + 1))

\* Each place leads on, so a pattern comes to an end.
LEMMA SimpleFromIs ==
    ASSUME NEW p, NEW t, Len(p) \in Nat, Len(t) \in Nat, Simple(p), NEW i \in 1 .. Len(p) + 1, NEW j \in 1 .. Len(t) + 1
    PROVE  SimpleFrom(p, t, i, j)
<1> DEFINE n == Len(p)
           m == Len(t)
           places == (1 .. Len(p) + 1) \X (1 .. Len(t) + 1)
           ways == BashWays(p, t)
           rank == [x \in places |-> (n + 1 - x[1]) + (m + 1 - x[2])]
           end == <<Len(p) + 1, Len(t) + 1>>
<1>1. DOMAIN ways = places /\ \A x \in places : ways[x] = BashGoes(p, t, x[1], x[2])
  BY Zenon DEF BashWays
<1>2. \A a \in 1 .. n + 1, b \in 1 .. m + 1 :
         /\ <<a, b>> \in places
         /\ ways[<<a, b>>] = BashGoes(p, t, a, b)
         /\ rank[<<a, b>>] = (n + 1 - a) + (m + 1 - b)
  <2> SUFFICES ASSUME NEW a \in 1 .. n + 1, NEW b \in 1 .. m + 1
               PROVE /\ <<a, b>> \in places
                     /\ ways[<<a, b>>] = BashGoes(p, t, a, b)
                     /\ rank[<<a, b>>] = (n + 1 - a) + (m + 1 - b)
    BY Zenon
  <2> DEFINE x == <<a, b>>
  <2>1. x \in places /\ x[1] = a /\ x[2] = b
    OBVIOUS
  <2> HIDE DEF x
  <2>2. ways[x] = BashGoes(p, t, x[1], x[2]) /\ rank[x] = (n + 1 - x[1]) + (m + 1 - x[2])
    <3> HIDE DEF ways
    <3> QED BY <1>1, <2>1, Zenon
  <2> HIDE DEF ways, places, rank
  <2> QED
    BY <2>1, <2>2, Zenon DEF x
<1>3. \A x \in places : \E a \in 1 .. n + 1, b \in 1 .. m + 1 : x = <<a, b>>
  OBVIOUS
<1>4. rank \in [places -> 0 .. n + m]
  <2>1. ASSUME NEW x \in places PROVE (n + 1 - x[1]) + (m + 1 - x[2]) \in 0 .. n + m
    OBVIOUS
  <2> HIDE DEF places
  <2> QED
    BY <2>1, Zenon
<1> HIDE DEF ways, rank
<1>5. ASSUME NEW a \in 1 .. n + 1, NEW b \in 1 .. m + 1, NEW y \in BashGoes(p, t, a, b)
      PROVE  y \in places /\ rank[y] < rank[<<a, b>>]
  <2>1. SimpleGoes(p, t, a, b)
    BY SimpleGoesIs
  <2>2. \E c \in 1 .. n + 1, d \in 1 .. m + 1 : y = <<c, d>> /\ (n + 1 - c) + (m + 1 - d) < (n + 1 - a) + (m + 1 - b)
    <3>1. CASE a = n + 1
      BY <1>5, <2>1, <3>1 DEF SimpleGoes
    <3>2. CASE a <= n /\ p[a] = "*"
      <4>1. y = <<a + 1, b>> \/ (b <= m /\ y = <<a, b + 1>>)
        BY <1>5, <2>1, <3>2, Zenon DEF SimpleGoes
      <4>2. CASE y = <<a + 1, b>>
        <5>1. a + 1 \in 1 .. n + 1 /\ (n + 1 - (a + 1)) + (m + 1 - b) < (n + 1 - a) + (m + 1 - b)
          BY <3>2
        <5> QED
          BY <4>2, <5>1, Zenon
      <4>3. CASE b <= m /\ y = <<a, b + 1>>
        <5>1. b + 1 \in 1 .. m + 1 /\ (n + 1 - a) + (m + 1 - (b + 1)) < (n + 1 - a) + (m + 1 - b)
          BY <4>3
        <5> QED
          BY <4>3, <5>1, Zenon
      <4> QED
        BY <4>1, <4>2, <4>3
    <3>3. CASE a <= n /\ p[a] # "*"
      <4>1. b <= m /\ y = <<a + 1, b + 1>>
        <5>1. BashGoes(p, t, a, b) = IF b <= m /\ p[a] \in {"?", t[b]} THEN {<<a + 1, b + 1>>} ELSE {}
          BY <2>1, <3>3, Zenon DEF SimpleGoes
        <5> QED
          BY <1>5, <5>1, Zenon
      <4>2. a + 1 \in 1 .. n + 1 /\ b + 1 \in 1 .. m + 1
        BY <3>3, <4>1
      <4>3. (n + 1 - (a + 1)) + (m + 1 - (b + 1)) < (n + 1 - a) + (m + 1 - b)
        BY <4>2
      <4> QED
        BY <4>1, <4>2, <4>3, Zenon
    <3>4. a = n + 1 \/ a <= n
      OBVIOUS
    <3> QED
      BY <3>1, <3>2, <3>3, <3>4
  <2>3. PICK c \in 1 .. n + 1, d \in 1 .. m + 1 : y = <<c, d>> /\ (n + 1 - c) + (m + 1 - d) < (n + 1 - a) + (m + 1 - b)
    BY <2>2
  <2> HIDE DEF n, m, places
  <2> QED
    BY <1>2, <2>3, Zenon
<1>6. GoesDown(ways, rank, n + m)
  <2>1. n + m \in Nat
    OBVIOUS
  <2>2. ASSUME NEW x \in places, NEW y \in ways[x] PROVE y \in places /\ rank[y] < rank[x]
    <3>1. PICK a \in 1 .. n + 1, b \in 1 .. m + 1 : x = <<a, b>>
      BY <1>3, Zenon
    <3>2. y \in BashGoes(p, t, a, b)
      BY <1>2, <2>2, <3>1, Zenon
    <3> HIDE DEF n, m, places
    <3> QED
      BY <1>5, <3>1, <3>2, Zenon
  <2> HIDE DEF n, m, places
  <2> QED
    BY <1>1, <1>4, <2>1, <2>2, Zenon DEF GoesDown
<1>7. \A x \in places : Reaches(ways, x, end) <=> x = end \/ \E y \in ways[x] : Reaches(ways, y, end)
  <2>1. \A x \in DOMAIN ways : Reaches(ways, x, end) <=> x = end \/ \E y \in ways[x] : Reaches(ways, y, end)
    <3> HIDE DEF n, m, places, end
    <3> QED BY <1>6, ReachesIs
  <2> HIDE DEF n, m, places, end
  <2> QED
    BY <1>1, <2>1, Zenon
<1>8. GlobFrom(p, t, i, j) <=> <<i, j>> = end \/ \E y \in BashGoes(p, t, i, j) : Reaches(ways, y, end)
  <2>1. <<i, j>> \in places /\ ways[<<i, j>>] = BashGoes(p, t, i, j)
    BY <1>2, Zenon
  <2>2. GlobFrom(p, t, i, j) <=> Reaches(ways, <<i, j>>, end)
    BY Zenon DEF GlobFrom, ways
  <2> HIDE DEF places, end
  <2> QED
    BY <1>7, <2>1, <2>2, Zenon
<1>9. \A a, b : Reaches(ways, <<a, b>>, end) <=> GlobFrom(p, t, a, b)
  BY Zenon DEF GlobFrom, ways
<1>10. <<i, j>> = end <=> i = n + 1 /\ j = m + 1
  BY Zenon
<1> HIDE DEF end
<1>11. SimpleGoes(p, t, i, j)
  BY SimpleGoesIs
<1>12. CASE i = n + 1
  <2>1. BashGoes(p, t, i, j) = {} /\ ~(i <= n)
    BY <1>11, <1>12 DEF SimpleGoes
  <2>2. GlobFrom(p, t, i, j) <=> j = Len(t) + 1
    BY <1>8, <1>10, <1>12, <2>1, Zenon
  <2> QED
    BY <2>1, <2>2, Zenon DEF SimpleFrom
<1>13. CASE i <= n /\ p[i] = "*"
  <2>1. i # n + 1
    BY <1>13
  <2>2. BashGoes(p, t, i, j) = {<<i + 1, j>>} \cup (IF j <= Len(t) THEN {<<i, j + 1>>} ELSE {})
    BY <1>11, <1>13, Zenon DEF SimpleGoes
  <2>3. (\E y \in BashGoes(p, t, i, j) : Reaches(ways, y, end)) <=> Reaches(ways, <<i + 1, j>>, end) \/ (j <= Len(t) /\ Reaches(ways, <<i, j + 1>>, end))
    <3>1. CASE j <= Len(t)
      <4>1. BashGoes(p, t, i, j) = {<<i + 1, j>>, <<i, j + 1>>}
        BY <2>2, <3>1, Zenon
      <4> QED
        BY <3>1, <4>1, Zenon
    <3>2. CASE ~(j <= Len(t))
      <4>1. BashGoes(p, t, i, j) = {<<i + 1, j>>}
        BY <2>2, <3>2, Zenon
      <4> QED
        BY <3>2, <4>1, Zenon
    <3> QED
      BY <3>1, <3>2
  <2>4. GlobFrom(p, t, i, j) <=> GlobFrom(p, t, i + 1, j) \/ (j <= Len(t) /\ GlobFrom(p, t, i, j + 1))
    BY <1>8, <1>9, <1>10, <2>1, <2>3, Zenon
  <2> QED
    BY <1>13, <2>1, <2>4, Zenon DEF SimpleFrom
<1>14. CASE i <= n /\ p[i] # "*"
  <2>1. i # n + 1
    BY <1>14
  <2>2. BashGoes(p, t, i, j) = IF j <= Len(t) /\ p[i] \in {"?", t[j]} THEN {<<i + 1, j + 1>>} ELSE {}
    BY <1>11, <1>14, Zenon DEF SimpleGoes
  <2>3. (\E y \in BashGoes(p, t, i, j) : Reaches(ways, y, end)) <=> j <= Len(t) /\ p[i] \in {"?", t[j]} /\ Reaches(ways, <<i + 1, j + 1>>, end)
    BY <2>2, Zenon
  <2>4. GlobFrom(p, t, i, j) <=> j <= Len(t) /\ p[i] \in {"?", t[j]} /\ GlobFrom(p, t, i + 1, j + 1)
    BY <1>8, <1>9, <1>10, <2>1, <2>3, Zenon
  <2> QED
    BY <1>14, <2>1, <2>4, Zenon DEF SimpleFrom
<1>15. i = n + 1 \/ i <= n
  OBVIOUS
<1> QED
  BY <1>12, <1>13, <1>14, <1>15

SymbolFits(p, t, k, l) == p[k] = "?" \/ p[k] = t[l]

StarHere(p, k) == p[k] = "*"

\* The symbols up to a place of the pattern match one each, and what is there matches the rest.
Along(p, t, i, s, j) ==
    /\ j + (s - i) <= Len(t) + 1
    /\ \A k \in 0 .. (s - i) - 1 : SymbolFits(p, t, i + k, j + k)
    /\ GlobFrom(p, t, s, j + (s - i))

\* So it does as long as there is no star.
LEMMA HeadFrom ==
    ASSUME NEW p, NEW t, Len(p) \in Nat, Len(t) \in Nat, Simple(p),
           NEW s \in 1 .. Len(p) + 1, NEW h \in 1 .. s, \A k \in h .. s - 1 : ~StarHere(p, k)
    PROVE  \A i \in h .. s, j \in 1 .. Len(t) + 1 : GlobFrom(p, t, i, j) <=> Along(p, t, i, s, j)
<1> DEFINE n == Len(p)
           m == Len(t)
           T == { i \in 1 .. s : h <= i => \A j \in 1 .. m + 1 : GlobFrom(p, t, i, j) <=> Along(p, t, i, s, j) }
<1>1. \A i \in 1 .. n, j \in 1 .. m + 1 :
         ~StarHere(p, i) => (GlobFrom(p, t, i, j) <=> j <= m /\ SymbolFits(p, t, i, j) /\ GlobFrom(p, t, i + 1, j + 1))
  <2> SUFFICES ASSUME NEW i \in 1 .. n, NEW j \in 1 .. m + 1, ~StarHere(p, i)
               PROVE  GlobFrom(p, t, i, j) <=> j <= m /\ SymbolFits(p, t, i, j) /\ GlobFrom(p, t, i + 1, j + 1)
    OBVIOUS
  <2>1. i \in 1 .. n + 1 /\ i <= n
    OBVIOUS
  <2>2. SimpleFrom(p, t, i, j)
    BY <2>1, SimpleFromIs
  <2>3. p[i] \in {"?", t[j]} <=> SymbolFits(p, t, i, j)
    BY Zenon DEF SymbolFits
  <2> QED
    BY <2>1, <2>2, <2>3, Zenon DEF SimpleFrom, StarHere
<1>2. s \in T
  <2>1. ASSUME NEW j \in 1 .. m + 1 PROVE GlobFrom(p, t, s, j) <=> Along(p, t, s, s, j)
    <3>1. j + (s - s) = j /\ j <= m + 1 /\ \A k \in 0 .. (s - s) - 1 : FALSE
      OBVIOUS
    <3> QED
      BY <3>1, Zenon DEF Along
  <2>2. s \in 1 .. s
    OBVIOUS
  <2> HIDE DEF m
  <2> QED
    BY <2>1, <2>2, Zenon
<1>3. ASSUME NEW i \in 1 .. s - 1, \A o \in i + 1 .. (s - 1) + 1 : o \in T PROVE i \in T
  <2>1. SUFFICES ASSUME h <= i, NEW j \in 1 .. m + 1 PROVE GlobFrom(p, t, i, j) <=> Along(p, t, i, s, j)
    <3>1. i \in 1 .. s
      OBVIOUS
    <3> HIDE DEF m
    <3> QED BY <3>1
  <2>2. i \in 1 .. n /\ i \in h .. s - 1 /\ i + 1 \in i + 1 .. (s - 1) + 1 /\ h <= i + 1
    BY <2>1
  <2>3. GlobFrom(p, t, i, j) <=> j <= m /\ SymbolFits(p, t, i, j) /\ GlobFrom(p, t, i + 1, j + 1)
    <3>1. ~StarHere(p, i)
      BY <2>2
    <3> HIDE DEF n, m
    <3> QED BY <1>1, <2>2, <3>1, Zenon
  <2>4. j <= m => (GlobFrom(p, t, i + 1, j + 1) <=> Along(p, t, i + 1, s, j + 1))
    <3>1. i + 1 \in T
      <4> HIDE DEF T
      <4> QED BY <1>3, <2>2, Zenon
    <3>2. j <= m => j + 1 \in 1 .. m + 1
      OBVIOUS
    <3> HIDE DEF m
    <3> QED BY <2>2, <3>1, <3>2, Zenon
  <2>5. (j + 1) + (s - (i + 1)) = j + (s - i) /\ (s - (i + 1)) - 1 = (s - i) - 2
    OBVIOUS
  <2>6. (\A k \in 0 .. (s - i) - 1 : SymbolFits(p, t, i + k, j + k)) <=>
           SymbolFits(p, t, i, j) /\ \A k \in 0 .. (s - (i + 1)) - 1 : SymbolFits(p, t, (i + 1) + k, (j + 1) + k)
    <3>1. ASSUME \A k \in 0 .. (s - i) - 1 : SymbolFits(p, t, i + k, j + k) PROVE SymbolFits(p, t, i, j)
      <4>1. 0 \in 0 .. (s - i) - 1 /\ i + 0 = i /\ j + 0 = j
        OBVIOUS
      <4>2. SymbolFits(p, t, i + 0, j + 0)
        BY <3>1, <4>1, Zenon
      <4> QED
        BY <4>1, <4>2
    <3>2. ASSUME \A k \in 0 .. (s - i) - 1 : SymbolFits(p, t, i + k, j + k), NEW k \in 0 .. (s - (i + 1)) - 1
          PROVE  SymbolFits(p, t, (i + 1) + k, (j + 1) + k)
      <4>1. k + 1 \in 0 .. (s - i) - 1 /\ i + (k + 1) = (i + 1) + k /\ j + (k + 1) = (j + 1) + k
        OBVIOUS
      <4>2. SymbolFits(p, t, i + (k + 1), j + (k + 1))
        BY <3>2, <4>1, Zenon
      <4> QED
        BY <4>1, <4>2
    <3>3. ASSUME SymbolFits(p, t, i, j), \A k \in 0 .. (s - (i + 1)) - 1 : SymbolFits(p, t, (i + 1) + k, (j + 1) + k), NEW k \in 0 .. (s - i) - 1
          PROVE  SymbolFits(p, t, i + k, j + k)
      <4>1. CASE k = 0
        <5>1. i + k = i /\ j + k = j
          BY <4>1
        <5> QED
          BY <3>3, <5>1
      <4>2. CASE k # 0
        <5>1. k - 1 \in 0 .. (s - (i + 1)) - 1 /\ (i + 1) + (k - 1) = i + k /\ (j + 1) + (k - 1) = j + k
          BY <4>2
        <5>2. SymbolFits(p, t, (i + 1) + (k - 1), (j + 1) + (k - 1))
          BY <3>3, <5>1, Zenon
        <5> QED
          BY <5>1, <5>2
      <4> QED
        BY <4>1, <4>2
    <3> QED
      BY <3>1, <3>2, <3>3, Zenon
  <2>7. Along(p, t, i + 1, s, j + 1) <=>
           /\ j + (s - i) <= m + 1
           /\ \A k \in 0 .. (s - (i + 1)) - 1 : SymbolFits(p, t, (i + 1) + k, (j + 1) + k)
           /\ GlobFrom(p, t, s, j + (s - i))
    BY <2>5, Zenon DEF Along
  <2>8. j + (s - i) <= m + 1 => j <= m
    OBVIOUS
  <2>9. Along(p, t, i, s, j) <=>
           /\ j + (s - i) <= m + 1
           /\ \A k \in 0 .. (s - i) - 1 : SymbolFits(p, t, i + k, j + k)
           /\ GlobFrom(p, t, s, j + (s - i))
    BY Zenon DEF Along
  <2> HIDE DEF m
  <2> QED
    BY <2>3, <2>4, <2>6, <2>7, <2>8, <2>9, Zenon
<1>4. \A i \in 1 .. (s - 1) + 1 : i \in T
  <2>1. s - 1 \in Nat /\ (s - 1) + 1 = s
    OBVIOUS
  <2>2. (s - 1) + 1 \in T
    <3> HIDE DEF T
    <3> QED BY <1>2, <2>1
  <2> HIDE DEF T
  <2> QED
    BY <1>3, <2>1, <2>2, InductionDown, Zenon
<1>5. ASSUME NEW i \in h .. s PROVE \A j \in 1 .. m + 1 : GlobFrom(p, t, i, j) <=> Along(p, t, i, s, j)
  <2>1. i \in 1 .. (s - 1) + 1 /\ h <= i
    OBVIOUS
  <2>2. i \in T
    <3> HIDE DEF T
    <3> QED BY <1>4, <2>1
  <2> HIDE DEF m
  <2> QED
    BY <2>1, <2>2
<1> QED
  BY <1>5

\* A star takes as much as leaves a match of the rest.
LEMMA StarFrom ==
    ASSUME NEW p, NEW t, Len(p) \in Nat, Len(t) \in Nat, Simple(p), NEW s \in 1 .. Len(p), StarHere(p, s)
    PROVE  \A j \in 1 .. Len(t) + 1 : GlobFrom(p, t, s, j) <=> \E l \in j .. Len(t) + 1 : GlobFrom(p, t, s + 1, l)
<1> DEFINE m == Len(t)
           T == { j \in 1 .. m + 1 : GlobFrom(p, t, s, j) <=> \E l \in j .. m + 1 : GlobFrom(p, t, s + 1, l) }
<1>1. \A j \in 1 .. m + 1 : GlobFrom(p, t, s, j) <=> GlobFrom(p, t, s + 1, j) \/ (j <= m /\ GlobFrom(p, t, s, j + 1))
  <2> SUFFICES ASSUME NEW j \in 1 .. m + 1
               PROVE  GlobFrom(p, t, s, j) <=> GlobFrom(p, t, s + 1, j) \/ (j <= m /\ GlobFrom(p, t, s, j + 1))
    OBVIOUS
  <2>1. s \in 1 .. Len(p) + 1 /\ s <= Len(p)
    OBVIOUS
  <2>2. SimpleFrom(p, t, s, j)
    BY <2>1, SimpleFromIs
  <2> QED
    BY <2>1, <2>2, Zenon DEF SimpleFrom, StarHere
<1>2. m + 1 \in T
  <2>1. m + 1 \in 1 .. m + 1 /\ ~(m + 1 <= m) /\ \A l \in m + 1 .. m + 1 : l = m + 1
    OBVIOUS
  <2>2. m + 1 \in m + 1 .. m + 1
    OBVIOUS
  <2> HIDE DEF m
  <2> QED
    BY <1>1, <2>1, <2>2, Zenon
<1>3. ASSUME NEW j \in 1 .. m, \A o \in j + 1 .. m + 1 : o \in T PROVE j \in T
  <2>1. j + 1 \in j + 1 .. m + 1 /\ j \in 1 .. m + 1 /\ j <= m /\ j + 1 \in 1 .. m + 1
    OBVIOUS
  <2>2. GlobFrom(p, t, s, j + 1) <=> \E l \in j + 1 .. m + 1 : GlobFrom(p, t, s + 1, l)
    <3>1. j + 1 \in T
      <4> HIDE DEF T
      <4> QED BY <1>3, <2>1, Zenon
    <3> HIDE DEF m
    <3> QED BY <3>1
  <2>3. \A l : l \in j .. m + 1 <=> l = j \/ l \in j + 1 .. m + 1
    OBVIOUS
  <2>4. GlobFrom(p, t, s, j) <=> GlobFrom(p, t, s + 1, j) \/ GlobFrom(p, t, s, j + 1)
    BY <1>1, <2>1, Zenon
  <2>5. (\E l \in j .. m + 1 : GlobFrom(p, t, s + 1, l)) <=> GlobFrom(p, t, s + 1, j) \/ \E l \in j + 1 .. m + 1 : GlobFrom(p, t, s + 1, l)
    <3> HIDE DEF m
    <3> QED BY <2>3, Zenon
  <2> HIDE DEF m
  <2> QED
    BY <2>1, <2>2, <2>4, <2>5, Zenon
<1>4. \A j \in 1 .. m + 1 : j \in T
  <2>1. m \in Nat
    OBVIOUS
  <2> HIDE DEF T, m
  <2> QED
    BY <1>2, <1>3, <2>1, InductionDown, Zenon
<1> QED
  BY <1>4

-----------------------------------------------------------------------------

\* bash goes along a text from the beginning of both.
LEMMA WholeIs ==
    ASSUME NEW p, NEW t PROVE BashMatches(p, t) <=> GlobFrom(p, t, 1, 1)
BY Zenon DEF BashMatches, GlobFrom, BashWays

\* What a pattern with one star, at s, matches.
FitsAround(p, t, s) ==
    /\ Len(p) - 1 <= Len(t)
    /\ \A k \in 0 .. s - 2 : SymbolFits(p, t, 1 + k, 1 + k)
    /\ \A k \in 0 .. (Len(p) - s) - 1 : SymbolFits(p, t, (s + 1) + k, ((Len(t) + 1) - (Len(p) - s)) + k)

\* A simple pattern without a star matches symbol by symbol.
LEMMA PlainGoes ==
    ASSUME NEW p, NEW t, Len(p) \in Nat, Len(t) \in Nat, Simple(p), \A k \in 1 .. Len(p) : ~StarHere(p, k)
    PROVE  BashMatches(p, t) <=> Len(p) = Len(t) /\ \A k \in 1 .. Len(p) : SymbolFits(p, t, k, k)
<1> DEFINE n == Len(p)
           m == Len(t)
<1>1. GlobFrom(p, t, 1, 1) <=> Along(p, t, 1, n + 1, 1)
  <2>1. n + 1 \in 1 .. Len(p) + 1 /\ 1 \in 1 .. n + 1 /\ 1 \in 1 .. Len(t) + 1
    OBVIOUS
  <2>2. \A k \in 1 .. (n + 1) - 1 : ~StarHere(p, k)
    OBVIOUS
  <2> HIDE DEF n
  <2>3. \A i \in 1 .. n + 1, j \in 1 .. Len(t) + 1 : GlobFrom(p, t, i, j) <=> Along(p, t, i, n + 1, j)
    BY <2>1, <2>2, HeadFrom, Zenon
  <2> QED
    BY <2>1, <2>3
<1>2. n <= m => (GlobFrom(p, t, n + 1, 1 + n) <=> 1 + n = m + 1)
  <2>1. ASSUME n <= m PROVE SimpleFrom(p, t, n + 1, 1 + n)
    <3>1. n + 1 \in 1 .. Len(p) + 1 /\ 1 + n \in 1 .. Len(t) + 1
      BY <2>1
    <3> HIDE DEF n
    <3> QED
      BY <3>1, SimpleFromIs
  <2>2. n + 1 = Len(p) + 1
    OBVIOUS
  <2> HIDE DEF n
  <2> QED
    BY <2>1, <2>2, Zenon DEF SimpleFrom
<1>3. Along(p, t, 1, n + 1, 1) <=>
        /\ 1 + n <= m + 1
        /\ \A k \in 0 .. n - 1 : SymbolFits(p, t, 1 + k, 1 + k)
        /\ GlobFrom(p, t, n + 1, 1 + n)
  <2>1. (n + 1) - 1 = n /\ ((n + 1) - 1) - 1 = n - 1
    OBVIOUS
  <2> HIDE DEF n
  <2> QED
    BY <2>1, Zenon DEF Along
<1>4. (\A k \in 0 .. n - 1 : SymbolFits(p, t, 1 + k, 1 + k)) <=> \A k \in 1 .. n : SymbolFits(p, t, k, k)
  <2>1. ASSUME \A k \in 0 .. n - 1 : SymbolFits(p, t, 1 + k, 1 + k), NEW k \in 1 .. n PROVE SymbolFits(p, t, k, k)
    <3>1. k - 1 \in 0 .. n - 1 /\ 1 + (k - 1) = k
      OBVIOUS
    <3> QED BY <2>1, <3>1
  <2>2. ASSUME \A k \in 1 .. n : SymbolFits(p, t, k, k), NEW k \in 0 .. n - 1 PROVE SymbolFits(p, t, 1 + k, 1 + k)
    BY <2>2
  <2> QED BY <2>1, <2>2
<1>5. BashMatches(p, t) <=> GlobFrom(p, t, 1, 1)
  BY WholeIs
<1> HIDE DEF n, m
<1>6. n \in Nat /\ m \in Nat
  BY DEF n, m
<1>7. 1 + n <= m + 1 <=> n <= m
  BY <1>6
<1>8. 1 + n = m + 1 <=> n = m
  BY <1>6
<1>9. n = m => n <= m
  BY <1>6
<1> QED
  BY <1>1, <1>2, <1>3, <1>4, <1>5, <1>7, <1>8, <1>9, Zenon DEF n, m

\* One with a star takes anything for it.
LEMMA StarGoes ==
    ASSUME NEW p, NEW t, Len(p) \in Nat, Len(t) \in Nat, Simple(p),
           NEW s \in 1 .. Len(p), StarHere(p, s), \A k \in 1 .. Len(p) : k # s => ~StarHere(p, k)
    PROVE  BashMatches(p, t) <=> FitsAround(p, t, s)
<1> DEFINE n == Len(p)
           m == Len(t)
           Fore == \A k \in 0 .. s - 2 : SymbolFits(p, t, 1 + k, 1 + k)
           Rear(l) == \A k \in 0 .. (n - s) - 1 : SymbolFits(p, t, (s + 1) + k, l + k)
           last == (m + 1) - (n - s)
<1> HIDE DEF n, m
<1>0. n \in Nat /\ m \in Nat /\ s \in 1 .. n /\ n = Len(p) /\ m = Len(t)
  BY DEF n, m
<1>1. GlobFrom(p, t, 1, 1) <=> s <= m + 1 /\ Fore /\ GlobFrom(p, t, s, s)
  <2>1. s \in 1 .. Len(p) + 1 /\ 1 \in 1 .. s /\ 1 \in 1 .. Len(t) + 1
    BY <1>0
  <2>2. \A k \in 1 .. s - 1 : ~StarHere(p, k)
    BY <1>0
  <2>3. \A i \in 1 .. s, j \in 1 .. Len(t) + 1 : GlobFrom(p, t, i, j) <=> Along(p, t, i, s, j)
    BY <2>1, <2>2, HeadFrom, Zenon
  <2>4. GlobFrom(p, t, 1, 1) <=> Along(p, t, 1, s, 1)
    BY <2>1, <2>3
  <2>5. 1 + (s - 1) = s /\ (s - 1) - 1 = s - 2
    BY <1>0
  <2> QED
    BY <1>0, <2>4, <2>5, Zenon DEF Along
<1>2. s <= m + 1 => (GlobFrom(p, t, s, s) <=> \E l \in s .. m + 1 : GlobFrom(p, t, s + 1, l))
  <2>1. \A j \in 1 .. Len(t) + 1 : GlobFrom(p, t, s, j) <=> \E l \in j .. Len(t) + 1 : GlobFrom(p, t, s + 1, l)
    BY StarFrom
  <2> QED
    BY <1>0, <2>1
<1>3. \A l \in 1 .. m + 1 : GlobFrom(p, t, s + 1, l) <=> l = last /\ Rear(l)
  <2> SUFFICES ASSUME NEW l \in 1 .. m + 1 PROVE GlobFrom(p, t, s + 1, l) <=> l = last /\ Rear(l)
    OBVIOUS
  <2>1. n + 1 \in 1 .. Len(p) + 1 /\ s + 1 \in 1 .. n + 1 /\ l \in 1 .. Len(t) + 1 /\ s + 1 \in s + 1 .. n + 1
    BY <1>0
  <2>2. \A k \in s + 1 .. (n + 1) - 1 : ~StarHere(p, k)
    BY <1>0
  <2>3. \A i \in s + 1 .. n + 1, j \in 1 .. Len(t) + 1 : GlobFrom(p, t, i, j) <=> Along(p, t, i, n + 1, j)
    BY <2>1, <2>2, HeadFrom, Zenon
  <2>4. GlobFrom(p, t, s + 1, l) <=> Along(p, t, s + 1, n + 1, l)
    BY <2>1, <2>3
  <2>5. (n + 1) - (s + 1) = n - s
    BY <1>0
  <2>6. Along(p, t, s + 1, n + 1, l) <=> l + (n - s) <= m + 1 /\ Rear(l) /\ GlobFrom(p, t, n + 1, l + (n - s))
    BY <1>0, <2>5, Zenon DEF Along
  <2>7. l + (n - s) <= m + 1 => (GlobFrom(p, t, n + 1, l + (n - s)) <=> l + (n - s) = m + 1)
    <3>1. ASSUME l + (n - s) <= m + 1 PROVE SimpleFrom(p, t, n + 1, l + (n - s))
      <4>1. n + 1 \in 1 .. Len(p) + 1 /\ l + (n - s) \in 1 .. Len(t) + 1
        BY <1>0, <3>1
      <4> QED
        BY <4>1, SimpleFromIs
    <3>2. n + 1 = Len(p) + 1
      BY <1>0
    <3> QED
      BY <1>0, <3>1, <3>2, Zenon DEF SimpleFrom
  <2>8. l + (n - s) = m + 1 <=> l = last
    BY <1>0
  <2>9. l = last => l + (n - s) <= m + 1
    BY <1>0
  <2> HIDE DEF last, Rear
  <2> QED
    BY <2>4, <2>6, <2>7, <2>8, <2>9, Zenon
<1>4. s <= m + 1 /\ last \in s .. m + 1 <=> n - 1 <= m
  BY <1>0
<1>5. BashMatches(p, t) <=> GlobFrom(p, t, 1, 1)
  BY WholeIs
<1>6. FitsAround(p, t, s) <=> n - 1 <= m /\ Fore /\ Rear(last)
  BY <1>0, Zenon DEF FitsAround
<1>7. \A l \in s .. m + 1 : l \in 1 .. m + 1
  BY <1>0
<1> HIDE DEF last, Rear, Fore
<1>8. (\E l \in s .. m + 1 : GlobFrom(p, t, s + 1, l)) <=> last \in s .. m + 1 /\ Rear(last)
  BY <1>3, <1>7, Zenon
<1> QED
  BY <1>1, <1>2, <1>4, <1>5, <1>6, <1>8, Zenon

\* A plain pattern: each symbol stands for one.
PlainPattern(p) == Simple(p) /\ ~Has(p, "*")

\* bash matches it as runex matches the parts of a key.
LEMMA PlainMatches ==
    ASSUME NEW p \in Text, NEW t \in Text, PlainPattern(p)
    PROVE  BashMatches(p, t) <=> FixedPartMatches(p, t)
<1>1. Len(p) \in Nat /\ Len(t) \in Nat /\ DOMAIN p = 1 .. Len(p)
  BY DEF Text
<1>2. Simple(p) /\ \A k \in 1 .. Len(p) : ~StarHere(p, k)
  BY <1>1, Zenon DEF PlainPattern, Has, StarHere
<1>3. BashMatches(p, t) <=> Len(p) = Len(t) /\ \A k \in 1 .. Len(p) : SymbolFits(p, t, k, k)
  BY <1>1, <1>2, PlainGoes
<1>4. \A k : SymbolFits(p, t, k, k) <=> p[k] \in {"?", t[k]}
  BY Zenon DEF SymbolFits
<1> QED
  BY <1>1, <1>3, <1>4, Zenon DEF FixedPartMatches

\* What a plain pattern matches is taken off the front of a text,
LEMMA ChopsHead ==
    ASSUME NEW p \in Text, NEW t \in Text, PlainPattern(p), Len(p) <= Len(t), FixedPartMatches(p, SubSeq(t, 1, Len(p)))
    PROVE  ChopPrefix(t, p) = From(t, 1 + Len(p))
<1> DEFINE ends == { n \in 0 .. Len(t) : BashMatches(p, SubSeq(t, 1, n)) }
<1>1. Len(p) \in Nat /\ Len(t) \in Nat /\ t \in Seq(Symbols)
  BY DEF Text
<1>2. \A n \in 0 .. Len(t) : SubSeq(t, 1, n) \in Text /\ Len(SubSeq(t, 1, n)) = n
  <2> SUFFICES ASSUME NEW n \in 0 .. Len(t) PROVE SubSeq(t, 1, n) \in Text /\ Len(SubSeq(t, 1, n)) = n
    OBVIOUS
  <2>1. 1 \in 1 .. Len(t) + 1
    BY <1>1
  <2>2. SubSeq(t, 1, n) \in Seq(Symbols) /\ Len(SubSeq(t, 1, n)) = IF 1 <= n THEN n - 1 + 1 ELSE 0
    BY <1>1, <2>1, PartTyped
  <2>3. Len(SubSeq(t, 1, n)) = n
    BY <2>2
  <2> QED
    BY <2>2, <2>3 DEF Text
<1>3. \A n \in 0 .. Len(t) : BashMatches(p, SubSeq(t, 1, n)) <=> FixedPartMatches(p, SubSeq(t, 1, n))
  BY <1>2, PlainMatches
<1>4. Len(p) \in 0 .. Len(t)
  BY <1>1
<1>5. \A n \in 0 .. Len(t) : FixedPartMatches(p, SubSeq(t, 1, n)) => n = Len(p)
  BY <1>2, Zenon DEF FixedPartMatches
<1>6. ends = {Len(p)}
  BY <1>3, <1>4, <1>5, Zenon
<1>7. ends # {} /\ (CHOOSE n \in ends : \A o \in ends : n <= o) = Len(p)
  <2>1. Len(p) <= Len(p)
    BY <1>1
  <2> HIDE DEF ends
  <2> QED
    BY <1>6, <2>1, Zenon
<1>8. ChopPrefix(t, p) = IF ends = {} THEN t ELSE From(t, 1 + CHOOSE n \in ends : \A o \in ends : n <= o)
  BY Zenon DEF ChopPrefix
<1> HIDE DEF ends
<1> QED
  BY <1>7, <1>8, Zenon

\* and off its end.
LEMMA ChopsTail ==
    ASSUME NEW p \in Text, NEW t \in Text, PlainPattern(p), Len(p) <= Len(t),
           FixedPartMatches(p, From(t, (Len(t) - Len(p)) + 1))
    PROVE  ChopSuffix(t, p) = Before(t, (Len(t) - Len(p)) + 1)
<1> DEFINE begins == { n \in 1 .. Len(t) + 1 : BashMatches(p, From(t, n)) }
           at == (Len(t) - Len(p)) + 1
<1>1. Len(p) \in Nat /\ Len(t) \in Nat
  BY DEF Text
<1>2. \A n \in 1 .. Len(t) + 1 : From(t, n) \in Text /\ Len(From(t, n)) = Len(t) - n + 1
  BY SidesTyped
<1>3. \A n \in 1 .. Len(t) + 1 : BashMatches(p, From(t, n)) <=> FixedPartMatches(p, From(t, n))
  BY <1>2, PlainMatches
<1>4. at \in 1 .. Len(t) + 1
  BY <1>1
<1>5. \A n \in 1 .. Len(t) + 1 : FixedPartMatches(p, From(t, n)) => n = at
  <2>1. \A n \in 1 .. Len(t) + 1 : Len(t) - n + 1 = Len(p) => n = at
    BY <1>1
  <2> HIDE DEF at
  <2> QED
    BY <1>2, <2>1, Zenon DEF FixedPartMatches
<1>6. begins = {at}
  <2> HIDE DEF at
  <2> QED
    BY <1>3, <1>4, <1>5, Zenon DEF at
<1>7. begins # {} /\ (CHOOSE n \in begins : \A o \in begins : n >= o) = at
  <2>1. at >= at
    BY <1>1
  <2> HIDE DEF begins, at
  <2> QED
    BY <1>6, <2>1, Zenon
<1>8. ChopSuffix(t, p) = IF begins = {} THEN t ELSE Before(t, CHOOSE n \in begins : \A o \in begins : n >= o)
  BY Zenon DEF ChopSuffix
<1> HIDE DEF begins
<1> QED
  BY <1>7, <1>8, Zenon

\* A key with at most one star, and no bracket or backslash.
StarsOnce(p) == \A i \in 1 .. Len(p), j \in 1 .. Len(p) : StarHere(p, i) /\ StarHere(p, j) => i = j

GlobKey(p) == Simple(p) /\ StarsOnce(p)

\* What bash keeps of a token when it takes off what the parts of the key match.
BashRest(key, t) ==
    LET head == IF Has(key, "*") THEN Before(key, First(key, "*")) ELSE key
        tail == IF Has(key, "*") THEN From(key, First(key, "*") + 1) ELSE <<>>
    IN  ChopSuffix(ChopPrefix(t, head), tail)

Agree(key, t) ==
    /\ BashMatches(key, t) <=> GlobCapture(key, t) # None
    /\ GlobCapture(key, t) # None => BashRest(key, t) = GlobCapture(key, t) /\ GlobCapture(key, t) \in Text

\* The parts of a key around its star.
LEMMA PartsOfKey ==
    ASSUME NEW key \in Text, GlobKey(key), Has(key, "*")
    PROVE  LET s == First(key, "*") head == Before(key, s) tail == From(key, s + 1) IN
           /\ s \in 1 .. Len(key) /\ Len(key) \in Nat /\ StarHere(key, s)
           /\ \A k \in 1 .. Len(key) : k # s => ~StarHere(key, k)
           /\ head \in Text /\ Len(head) = s - 1 /\ \A k \in 1 .. s - 1 : head[k] = key[k]
           /\ tail \in Text /\ Len(tail) = Len(key) - s /\ \A k \in 1 .. Len(key) - s : tail[k] = key[s + k]
           /\ PlainPattern(head) /\ PlainPattern(tail)
<1> DEFINE s == First(key, "*")
           head == Before(key, s)
           tail == From(key, s + 1)
<1>1. s \in 1 .. Len(key) /\ key[s] = "*"
  BY FirstIs
<1> HIDE DEF s
<1>2. Len(key) \in Nat
  BY DEF Text
<1>3. s \in 1 .. Len(key) + 1 /\ s + 1 \in 1 .. Len(key) + 1
  BY <1>1, <1>2
<1>4. head \in Text /\ Len(head) = s - 1 /\ \A k \in 1 .. s - 1 : head[k] = key[k]
  BY <1>3, SidesTyped
<1>5. tail \in Text /\ Len(tail) = Len(key) - s /\ \A k \in 1 .. Len(key) - s : tail[k] = key[s + k]
  <2>1. tail \in Text /\ Len(tail) = Len(key) - (s + 1) + 1 /\ \A k \in 1 .. Len(key) - (s + 1) + 1 : tail[k] = key[(s + 1) + k - 1]
    BY <1>3, SidesTyped, Zenon
  <2>2. Len(key) - (s + 1) + 1 = Len(key) - s /\ \A k \in 1 .. Len(key) - s : (s + 1) + k - 1 = s + k
    BY <1>1, <1>2
  <2> HIDE DEF tail
  <2> QED
    BY <2>1, <2>2
<1>6. StarHere(key, s) /\ \A k \in 1 .. Len(key) : k # s => ~StarHere(key, k)
  BY <1>1, Zenon DEF GlobKey, StarsOnce, StarHere
<1> HIDE DEF head, tail
<1>7. DOMAIN head = 1 .. s - 1 /\ DOMAIN tail = 1 .. Len(key) - s
  BY <1>4, <1>5 DEF Text
<1>8. PlainPattern(head)
  <2>1. \A k \in 1 .. s - 1 : k \in 1 .. Len(key) /\ k # s
    BY <1>1, <1>2
  <2> QED
    BY <1>4, <1>6, <1>7, <2>1, Zenon DEF PlainPattern, Simple, Has, GlobKey, StarHere
<1>9. PlainPattern(tail)
  <2>1. \A k \in 1 .. Len(key) - s : s + k \in 1 .. Len(key) /\ s + k # s
    BY <1>1, <1>2
  <2> QED
    BY <1>5, <1>6, <1>7, <2>1, Zenon DEF PlainPattern, Simple, Has, GlobKey, StarHere
<1> QED
  BY <1>1, <1>2, <1>4, <1>5, <1>6, <1>8, <1>9 DEF s, head, tail

\* bash takes a token for a key with a star as runex does, and the same of it for the star.
LEMMA StarCaptures ==
    ASSUME NEW key \in Text, NEW t \in Text, GlobKey(key), Has(key, "*")
    PROVE  Agree(key, t)
<1> DEFINE s == First(key, "*")
           head == Before(key, s)
           tail == From(key, s + 1)
           m == Len(t)
           end == m - Len(tail)
           mid == SubSeq(t, Len(head) + 1, end)
           Cond == /\ Len(head) <= end
                   /\ FixedPartMatches(head, SubSeq(t, 1, Len(head)))
                   /\ FixedPartMatches(tail, From(t, end + 1))
<1>1. GlobCapture(key, t) = IF Cond THEN mid ELSE None
  BY Zenon DEF GlobCapture
<1>2. BashRest(key, t) = ChopSuffix(ChopPrefix(t, head), tail)
  BY Zenon DEF BashRest
<1>3. /\ s \in 1 .. Len(key) /\ Len(key) \in Nat /\ StarHere(key, s)
      /\ \A k \in 1 .. Len(key) : k # s => ~StarHere(key, k)
      /\ head \in Text /\ Len(head) = s - 1 /\ \A k \in 1 .. s - 1 : head[k] = key[k]
      /\ tail \in Text /\ Len(tail) = Len(key) - s /\ \A k \in 1 .. Len(key) - s : tail[k] = key[s + k]
      /\ PlainPattern(head) /\ PlainPattern(tail)
  BY PartsOfKey
<1> HIDE DEF s, head, tail
<1>4. Len(t) \in Nat /\ t \in Seq(Symbols) /\ None \notin Text
  <2>1. None \notin Text
    BY MatchingAssumption, Zenon
  <2> QED
    BY <2>1 DEF Text
<1>m. m \in Nat
  BY <1>4
<1>5. BashMatches(key, t) <=> FitsAround(key, t, s)
  BY <1>3, <1>4, StarGoes DEF GlobKey
<1>6. Len(head) <= end <=> Len(key) - 1 <= m
  BY <1>3, <1>m
<1>7. ASSUME Len(head) <= end
      PROVE  /\ SubSeq(t, 1, Len(head)) \in Text /\ From(t, end + 1) \in Text /\ mid \in Text
             /\ FixedPartMatches(head, SubSeq(t, 1, Len(head))) <=> \A k \in 0 .. s - 2 : SymbolFits(key, t, 1 + k, 1 + k)
             /\ FixedPartMatches(tail, From(t, end + 1)) <=>
                   \A k \in 0 .. (Len(key) - s) - 1 : SymbolFits(key, t, (s + 1) + k, ((m + 1) - (Len(key) - s)) + k)
  <2>1. Len(head) + 1 \in 1 .. m + 1 /\ end + 1 \in 1 .. m + 1 /\ end \in 0 .. m /\ Len(head) + 1 - 1 = Len(head)
    BY <1>3, <1>m, <1>7
  <2>2. mid \in Text
    <3> HIDE DEF end
    <3> QED
      BY <1>4, <2>1, PartTyped DEF Text
  <2> HIDE DEF end
  <2>3. /\ SubSeq(t, 1, Len(head)) \in Text /\ Len(SubSeq(t, 1, Len(head))) = Len(head)
        /\ \A k \in 1 .. Len(head) : SubSeq(t, 1, Len(head))[k] = t[0 + k]
    <3>1. SubSeq(t, 1, Len(head)) = Before(t, Len(head) + 1)
      BY <2>1 DEF Before
    <3>2. \A k \in 1 .. Len(head) : 0 + k = k
      OBVIOUS
    <3>3. /\ Before(t, Len(head) + 1) \in Text /\ Len(Before(t, Len(head) + 1)) = Len(head) + 1 - 1
          /\ \A k \in 1 .. Len(head) + 1 - 1 : Before(t, Len(head) + 1)[k] = t[k]
      <4> DEFINE b == Len(head) + 1
      <4>1. b \in 1 .. Len(t) + 1
        BY <2>1
      <4> HIDE DEF b
      <4>2. Before(t, b) \in Text /\ Len(Before(t, b)) = b - 1 /\ \A k \in 1 .. b - 1 : Before(t, b)[k] = t[k]
        BY <4>1, SidesTyped
      <4> QED
        BY <4>2 DEF b
    <3> QED
      BY <2>1, <3>1, <3>2, <3>3, Zenon
  <2>4. /\ From(t, end + 1) \in Text /\ Len(From(t, end + 1)) = Len(tail)
        /\ \A k \in 1 .. Len(tail) : From(t, end + 1)[k] = t[end + k]
    <3>1. /\ From(t, end + 1) \in Text /\ Len(From(t, end + 1)) = m - (end + 1) + 1
          /\ \A k \in 1 .. m - (end + 1) + 1 : From(t, end + 1)[k] = t[(end + 1) + k - 1]
      BY <2>1, SidesTyped, Zenon
    <3>2. m - (end + 1) + 1 = Len(tail) /\ \A k \in 1 .. Len(tail) : (end + 1) + k - 1 = end + k
      BY <1>3, <1>m DEF end
    <3> QED
      BY <3>1, <3>2
  <2>5. FixedPartMatches(head, SubSeq(t, 1, Len(head))) <=> FitsAt(head, t, 0)
    BY <1>3, <2>3, FixedIs, Zenon
  <2>6. FixedPartMatches(tail, From(t, end + 1)) <=> FitsAt(tail, t, end)
    BY <1>3, <2>4, FixedIs, Zenon
  <2>7. FitsAt(head, t, 0) <=> \A k \in 0 .. s - 2 : SymbolFits(key, t, 1 + k, 1 + k)
    <3>1. FitsAt(head, t, 0) <=> \A k \in 1 .. s - 1 : SymbolFits(key, t, k, 0 + k)
      BY <1>3, Zenon DEF FitsAt, SymbolFits
    <3>2. ASSUME \A k \in 1 .. s - 1 : SymbolFits(key, t, k, 0 + k), NEW k \in 0 .. s - 2 PROVE SymbolFits(key, t, 1 + k, 1 + k)
      <4>1. 1 + k \in 1 .. s - 1 /\ 0 + (1 + k) = 1 + k
        BY <1>3
      <4> QED BY <3>2, <4>1
    <3>3. ASSUME \A k \in 0 .. s - 2 : SymbolFits(key, t, 1 + k, 1 + k), NEW k \in 1 .. s - 1 PROVE SymbolFits(key, t, k, 0 + k)
      <4>1. k - 1 \in 0 .. s - 2 /\ 1 + (k - 1) = k /\ 0 + k = k
        BY <1>3
      <4> QED BY <3>3, <4>1
    <3> QED BY <3>1, <3>2, <3>3, Zenon
  <2>8. FitsAt(tail, t, end) <=>
           \A k \in 0 .. (Len(key) - s) - 1 : SymbolFits(key, t, (s + 1) + k, ((m + 1) - (Len(key) - s)) + k)
    <3> DEFINE n == Len(key) - s
    <3>0. n \in Nat /\ end \in Int /\ end = m - n /\ Len(tail) = n
      BY <1>3, <1>m DEF end
    <3>1. FitsAt(tail, t, end) <=> \A k \in 1 .. n : SymbolFits(key, t, s + k, end + k)
      BY <1>3, <3>0, Zenon DEF FitsAt, SymbolFits
    <3> HIDE DEF n
    <3>2. ASSUME \A k \in 1 .. n : SymbolFits(key, t, s + k, end + k), NEW k \in 0 .. n - 1
          PROVE  SymbolFits(key, t, (s + 1) + k, ((m + 1) - n) + k)
      <4>1. 1 + k \in 1 .. n /\ s + (1 + k) = (s + 1) + k /\ end + (1 + k) = ((m + 1) - n) + k
        BY <1>3, <1>m, <3>0
      <4> QED BY <3>2, <4>1
    <3>3. ASSUME \A k \in 0 .. n - 1 : SymbolFits(key, t, (s + 1) + k, ((m + 1) - n) + k), NEW k \in 1 .. n
          PROVE  SymbolFits(key, t, s + k, end + k)
      <4>1. k - 1 \in 0 .. n - 1 /\ (s + 1) + (k - 1) = s + k /\ ((m + 1) - n) + (k - 1) = end + k
        BY <1>3, <1>m, <3>0
      <4> QED BY <3>3, <4>1
    <3>4. FitsAt(tail, t, end) <=> \A k \in 0 .. n - 1 : SymbolFits(key, t, (s + 1) + k, ((m + 1) - n) + k)
      BY <3>1, <3>2, <3>3, Zenon
    <3> QED BY <3>4 DEF n
  <2> HIDE DEF mid
  <2> QED
    BY <2>2, <2>3, <2>4, <2>5, <2>6, <2>7, <2>8, Zenon
<1>8. Cond <=> FitsAround(key, t, s)
  <2> HIDE DEF end
  <2> QED
    BY <1>6, <1>7, Zenon DEF FitsAround
<1>9. ASSUME Cond PROVE ChopSuffix(ChopPrefix(t, head), tail) = mid
  <2> DEFINE x == From(t, 1 + Len(head))
  <2>1. Len(head) \in Nat /\ Len(tail) \in Nat /\ Len(head) <= end /\ Len(head) <= Len(t) /\ 1 + Len(head) \in 1 .. m + 1
    BY <1>3, <1>m, <1>9
  <2>2. ChopPrefix(t, head) = x
    <3>1. FixedPartMatches(head, SubSeq(t, 1, Len(head)))
      BY <1>9
    <3> QED
      BY <1>3, <2>1, <3>1, ChopsHead
  <2>3. x \in Text /\ Len(x) = m - Len(head) /\ \A k \in 1 .. m - Len(head) : x[k] = t[Len(head) + k]
    <3>1. x \in Text /\ Len(x) = m - (1 + Len(head)) + 1 /\ \A k \in 1 .. m - (1 + Len(head)) + 1 : x[k] = t[(1 + Len(head)) + k - 1]
      BY <2>1, SidesTyped, Zenon
    <3>2. m - (1 + Len(head)) + 1 = m - Len(head) /\ \A k \in 1 .. m - Len(head) : (1 + Len(head)) + k - 1 = Len(head) + k
      BY <2>1, <1>m
    <3> HIDE DEF x
    <3> QED
      BY <3>1, <3>2
  <2> HIDE DEF x
  <2> DEFINE at == (Len(x) - Len(tail)) + 1
             y == From(x, at)
             z == From(t, end + 1)
  <2>4. at \in 1 .. Len(x) + 1 /\ end + 1 \in 1 .. m + 1 /\ at = (end + 1) - Len(head)
    BY <1>m, <2>1, <2>3
  <2>5. y \in Text /\ Len(y) = Len(tail) /\ \A k \in 1 .. Len(tail) : y[k] = x[at + k - 1]
    <3>1. y \in Text /\ Len(y) = Len(x) - at + 1 /\ \A k \in 1 .. Len(x) - at + 1 : y[k] = x[at + k - 1]
      <4> HIDE DEF at
      <4> QED BY <2>3, <2>4, SidesTyped, Zenon
    <3>2. Len(x) - at + 1 = Len(tail)
      BY <1>m, <2>1, <2>3
    <3> HIDE DEF y, at
    <3> QED BY <3>1, <3>2
  <2>6. z \in Text /\ Len(z) = Len(tail) /\ \A k \in 1 .. Len(tail) : z[k] = t[(end + 1) + k - 1]
    <3>1. z \in Text /\ Len(z) = m - (end + 1) + 1 /\ \A k \in 1 .. m - (end + 1) + 1 : z[k] = t[(end + 1) + k - 1]
      <4> HIDE DEF end
      <4> QED BY <2>4, SidesTyped, Zenon
    <3>2. m - (end + 1) + 1 = Len(tail)
      BY <1>m, <2>1
    <3> HIDE DEF z, end
    <3> QED BY <3>1, <3>2
  <2>7. y = z
    <3>1. \A k \in 1 .. Len(tail) : at + k - 1 \in 1 .. m - Len(head) /\ Len(head) + (at + k - 1) = (end + 1) + k - 1
      BY <1>m, <2>1, <2>3
    <3>2. \A k \in 1 .. Len(tail) : y[k] = z[k]
      <4> HIDE DEF y, z, at, end
      <4> QED BY <2>3, <2>5, <2>6, <3>1, Zenon
    <3> HIDE DEF y, z
    <3> QED BY <2>5, <2>6, <3>2 DEF Text
  <2>8. ChopSuffix(x, tail) = Before(x, at)
    <3>1. FixedPartMatches(tail, y)
      BY <1>9, <2>7
    <3>2. Len(tail) <= Len(x)
      BY <1>m, <2>1, <2>3
    <3> QED
      BY <1>3, <2>3, <3>1, <3>2, ChopsTail
  <2>9. Before(x, at) = mid
    <3>1. Before(x, at) \in Text /\ Len(Before(x, at)) = at - 1 /\ \A k \in 1 .. at - 1 : Before(x, at)[k] = x[k]
      <4> HIDE DEF at
      <4> QED BY <2>3, <2>4, SidesTyped, Zenon
    <3>2. /\ mid \in Seq(Symbols)
          /\ Len(mid) = IF Len(head) + 1 <= end THEN end - (Len(head) + 1) + 1 ELSE 0
          /\ \A k \in 1 .. Len(mid) : mid[k] = t[(Len(head) + 1) + k - 1]
      <4>1. Len(head) + 1 \in 1 .. Len(t) + 1 /\ end \in 0 .. Len(t)
        BY <1>m, <2>1
      <4> HIDE DEF end
      <4> QED BY <1>4, <4>1, PartTyped
    <3> HIDE DEF mid
    <3>3. Len(mid) = at - 1
      <4>1. Len(head) <= end => Len(mid) = end - Len(head)
        <5>1. \A a \in Int, b \in Int : a <= b => (IF a + 1 <= b THEN b - (a + 1) + 1 ELSE 0) = b - a
          OBVIOUS
        <5>2. Len(head) \in Int /\ end \in Int
          BY <1>m, <2>1
        <5> HIDE DEF end
        <5> QED
          BY <3>2, <5>1, <5>2
      <4>2. at - 1 = end - Len(head)
        BY <1>m, <2>1, <2>3
      <4> HIDE DEF at, end
      <4> QED
        BY <2>1, <4>1, <4>2
    <3>4. \A k \in 1 .. at - 1 : k \in 1 .. m - Len(head) /\ Len(head) + k = (Len(head) + 1) + k - 1
      BY <1>m, <2>1, <2>3
    <3>5. \A k \in 1 .. at - 1 : Before(x, at)[k] = mid[k]
      <4> HIDE DEF at
      <4> QED BY <2>3, <3>1, <3>2, <3>3, <3>4, Zenon
    <3> HIDE DEF at
    <3> QED BY <3>1, <3>2, <3>3, <3>5 DEF Text
  <2> QED
    BY <2>2, <2>8, <2>9
<1>10. Cond => mid \in Text
  BY <1>7
<1> HIDE DEF Cond, mid
<1> QED
  BY <1>1, <1>2, <1>4, <1>5, <1>8, <1>9, <1>10, Zenon DEF Agree

\* A text of no length is the empty one.
LEMMA NoLength == ASSUME NEW x \in Text, Len(x) = 0 PROVE x = <<>>
BY DEF Text

\* So it is for a key without a star, which leaves nothing.
LEMMA GlobAgrees ==
    ASSUME NEW key \in Text, NEW t \in Text, GlobKey(key)
    PROVE  Agree(key, t)
<1>1. CASE Has(key, "*")
  BY <1>1, StarCaptures
<1>2. CASE ~Has(key, "*")
  <2>1. GlobCapture(key, t) = IF FixedPartMatches(key, t) THEN <<>> ELSE None
    BY <1>2, Zenon DEF GlobCapture
  <2>2. PlainPattern(key)
    BY <1>2, Zenon DEF PlainPattern, GlobKey
  <2>3. BashMatches(key, t) <=> FixedPartMatches(key, t)
    BY <2>2, PlainMatches
  <2>4. BashRest(key, t) = ChopSuffix(ChopPrefix(t, key), <<>>)
    BY <1>2, Zenon DEF BashRest
  <2>5. <<>> \in Text /\ None \notin Text /\ <<>> # None
    <3>1. None \notin Text
      BY MatchingAssumption, Zenon
    <3>2. <<>> \in Text
      BY DEF Text
    <3> QED
      BY <3>1, <3>2
  <2>6. Len(key) \in Nat /\ Len(t) \in Nat
    BY DEF Text
  <2>7. ASSUME FixedPartMatches(key, t) PROVE ChopSuffix(ChopPrefix(t, key), <<>>) = <<>>
    <3>1. Len(key) = Len(t)
      BY <2>7, Zenon DEF FixedPartMatches
    <3>2. SubSeq(t, 1, Len(key)) = t
      BY <2>6, <3>1 DEF Text
    <3>3. ChopPrefix(t, key) = From(t, 1 + Len(key))
      <4>1. Len(key) <= Len(t) /\ FixedPartMatches(key, SubSeq(t, 1, Len(key)))
        <5>1. Len(key) <= Len(t)
          BY <2>6, <3>1
        <5> QED
          BY <2>7, <3>2, <5>1, Zenon
      <4> QED
        BY <2>2, <4>1, ChopsHead
    <3>4. From(t, 1 + Len(key)) = <<>>
      <4>1. 1 + Len(key) \in 1 .. Len(t) + 1 /\ Len(t) - (1 + Len(key)) + 1 = 0
        BY <2>6, <3>1
      <4>2. From(t, 1 + Len(key)) \in Text /\ Len(From(t, 1 + Len(key))) = 0
        <5> DEFINE i == 1 + Len(key)
        <5> HIDE DEF i
        <5>1. i \in 1 .. Len(t) + 1 /\ Len(t) - i + 1 = 0
          BY <4>1 DEF i
        <5>2. From(t, i) \in Text /\ Len(From(t, i)) = 0
          BY <5>1, SidesTyped
        <5> QED
          BY <5>2 DEF i
      <4> QED
        BY <4>2, NoLength
    <3>5. PlainPattern(<<>>)
      BY DEF PlainPattern, Simple, Has
    <3>6. Len(<<>>) = 0 /\ 0 <= 0 /\ (0 - 0) + 1 = 1 /\ 1 \in 1 .. 0 + 1
      OBVIOUS
    <3>7. From(<<>>, 1) = <<>> /\ Before(<<>>, 1) = <<>>
      BY DEF From, Before
    <3>8. FixedPartMatches(<<>>, <<>>)
      BY DEF FixedPartMatches
    <3>9. ChopSuffix(<<>>, <<>>) = Before(<<>>, (Len(<<>>) - Len(<<>>)) + 1)
      <4>1. FixedPartMatches(<<>>, From(<<>>, (Len(<<>>) - Len(<<>>)) + 1))
        BY <3>6, <3>7, <3>8
      <4>2. Len(<<>>) <= Len(<<>>)
        BY <3>6
      <4> QED
        BY <2>5, <3>5, <4>1, <4>2, ChopsTail
    <3> QED
      BY <3>3, <3>4, <3>6, <3>7, <3>9
  <2> QED
    BY <2>1, <2>3, <2>4, <2>5, <2>7, Zenon DEF Agree
<1> QED
  BY <1>1, <1>2

\* What is put in for each occurrence of a text, from left to right.
IsReplacing(f, t, s, r) ==
    /\ f \in [1 .. Len(t) + 1 -> Text]
    /\ f[Len(t) + 1] = <<>>
    /\ \A i \in 1 .. Len(t) :
          f[i] = IF IsPrefix(s, From(t, i)) THEN r \o f[i + Len(s)] ELSE <<t[i]>> \o f[i + 1]
    /\ Replaced(t, s, r) = f[1]

\* An occurrence ends within the text.
LEMMA PrefixFits ==
    ASSUME NEW S, Symbols \subseteq S, NEW t \in Text, NEW s \in Seq(S), NEW i \in 1 .. Len(t), IsPrefix(s, From(t, i))
    PROVE  (i - 1) + Len(s) <= Len(t)
<1>1. Len(t) \in Nat /\ Len(s) \in Nat /\ i \in 1 .. Len(t) + 1
  BY DEF Text
<1>2. From(t, i) \in Text /\ Len(From(t, i)) = Len(t) - i + 1
  BY <1>1, SidesTyped
<1>3. Len(s) <= Len(From(t, i))
  <2>1. From(t, i) \in Seq(S)
    BY <1>2 DEF Text
  <2> QED
    BY <2>1, PrefixIs
<1> QED
  BY <1>1, <1>2, <1>3

\* So replacing is such a function.
LEMMA ReplacedSteps ==
    ASSUME NEW S, Symbols \subseteq S, NEW t \in Text, NEW s \in Seq(S), Len(s) >= 1, NEW r \in Text
    PROVE  \E f : IsReplacing(f, t, s, r)
<1> DEFINE n == Len(t)
           has(i) == IsPrefix(s, From(t, i))
           piece == [i \in 1 .. n |-> IF has(i) THEN r ELSE <<t[i]>>]
           next == [i \in 1 .. n |-> IF has(i) THEN i + Len(s) ELSE i + 1]
           Unfolds(f) == f = [i \in 1 .. Len(t) + 1 |->
                                 IF i > Len(t) THEN <<>>
                                 ELSE IF IsPrefix(s, From(t, i)) THEN r \o f[i + Len(s)]
                                 ELSE <<t[i]>> \o f[i + 1]]
           f0 == CHOOSE f : Unfolds(f)
<1>0. n \in Nat /\ Len(s) \in Nat /\ Len(s) >= 1 /\ \A i \in 1 .. n : t[i] \in Symbols
  BY DEF Text
<1>1. /\ piece \in [1 .. n -> Seq(Symbols)]
      /\ next \in [1 .. n -> 2 .. n + 1]
      /\ \A i \in 1 .. n : i < next[i]
  <2>1. ASSUME NEW i \in 1 .. n
        PROVE  /\ (IF has(i) THEN r ELSE <<t[i]>>) \in Seq(Symbols)
               /\ (IF has(i) THEN i + Len(s) ELSE i + 1) \in 2 .. n + 1
               /\ i < (IF has(i) THEN i + Len(s) ELSE i + 1)
    <3>1. CASE has(i)
      <4>1. (i - 1) + Len(s) <= n /\ r \in Seq(Symbols)
        BY <3>1, PrefixFits DEF Text
      <4> HIDE DEF has
      <4> QED BY <1>0, <3>1, <4>1
    <3>2. CASE ~has(i)
      <4>1. <<t[i]>> \in Seq(Symbols)
        BY <1>0, SingleTyped
      <4> HIDE DEF has
      <4> QED BY <1>0, <3>2, <4>1
    <3> QED
      BY <3>1, <3>2
  <2> HIDE DEF has
  <2> QED
    BY <2>1
<1>2. PICK g : IsChain(g, Symbols, n, piece, next)
  <2>1. ChainParts(Symbols, n, piece, next)
    <3> HIDE DEF piece, next, n
    <3> QED BY <1>0, <1>1, Zenon DEF ChainParts
  <2> HIDE DEF piece, next, n
  <2> QED
    BY <2>1, Chained, Zenon
<1> HIDE DEF piece, next
<1>2a. g \in [1 .. n + 1 -> Seq(Symbols)] /\ g[n + 1] = <<>> /\ \A i \in 1 .. n : g[i] = piece[i] \o g[next[i]]
  BY <1>2, Zenon DEF IsChain
<1> USE DEF piece, next
<1>3. Unfolds(g)
  <2>1. ASSUME NEW i \in 1 .. n + 1
        PROVE  g[i] = IF i > Len(t) THEN <<>>
                      ELSE IF IsPrefix(s, From(t, i)) THEN r \o g[i + Len(s)]
                      ELSE <<t[i]>> \o g[i + 1]
    <3>1. CASE i = n + 1
      <4>1. i > Len(t) /\ ~(i <= Len(t)) /\ g[i] = <<>>
        BY <1>0, <1>2a, <3>1
      <4> QED
        BY <4>1, Zenon
    <3>2. CASE i \in 1 .. n
      <4>1. ~(i > Len(t)) /\ i <= Len(t) /\ g[i] = piece[i] \o g[next[i]]
        <5>1. ~(i > Len(t)) /\ i <= Len(t)
          BY <1>0, <3>2
        <5> HIDE DEF piece, next
        <5> QED BY <1>2a, <3>2, <5>1, Zenon
      <4>2. /\ IsPrefix(s, From(t, i)) => piece[i] = r /\ next[i] = i + Len(s)
            /\ ~IsPrefix(s, From(t, i)) => piece[i] = <<t[i]>> /\ next[i] = i + 1
        BY <3>2, Zenon
      <4> HIDE DEF piece, next
      <4> QED
        BY <4>1, <4>2, Zenon
    <3>3. i = n + 1 \/ i \in 1 .. n
      BY <1>0
    <3> QED
      BY <3>1, <3>2, <3>3
  <2>2. g = [i \in 1 .. n + 1 |-> g[i]]
    BY <1>2a, Zenon
  <2>3. [i \in 1 .. n + 1 |-> g[i]] =
            [i \in 1 .. Len(t) + 1 |->
                IF i > Len(t) THEN <<>>
                ELSE IF IsPrefix(s, From(t, i)) THEN r \o g[i + Len(s)]
                ELSE <<t[i]>> \o g[i + 1]]
    BY <2>1, Zenon
  <2> QED
    BY <2>2, <2>3, Zenon
<1>4. Unfolds(f0)
  <2> HIDE DEF Unfolds
  <2> QED BY <1>3, Zenon
<1>5. Replaced(t, s, r) = f0[1]
  BY Zenon DEF Replaced
<1>6. \A i \in 1 .. n + 1 : f0[i] =
          IF i > Len(t) THEN <<>>
          ELSE IF IsPrefix(s, From(t, i)) THEN r \o f0[i + Len(s)]
          ELSE <<t[i]>> \o f0[i + 1]
  <2> DEFINE other == [i \in 1 .. Len(t) + 1 |->
                          IF i > Len(t) THEN <<>>
                          ELSE IF IsPrefix(s, From(t, i)) THEN r \o f0[i + Len(s)]
                          ELSE <<t[i]>> \o f0[i + 1]]
  <2> HIDE DEF f0
  <2>1. f0 = other
    BY <1>4, Zenon
  <2>2. \A i \in 1 .. n + 1 : other[i] =
          IF i > Len(t) THEN <<>>
          ELSE IF IsPrefix(s, From(t, i)) THEN r \o f0[i + Len(s)]
          ELSE <<t[i]>> \o f0[i + 1]
    BY Zenon
  <2> HIDE DEF other
  <2> QED
    BY <2>1, <2>2, Zenon
<1> HIDE DEF f0
<1>7. ASSUME NEW i \in 1 .. n, \A j \in i + 1 .. n + 1 : f0[j] \in Text PROVE f0[i] \in Text
  <2>1. ~(i > Len(t)) /\ i <= Len(t) /\ i \in 1 .. n + 1
    BY <1>0
  <2>2. \/ has(i) /\ f0[i] = r \o f0[i + Len(s)]
        \/ ~has(i) /\ f0[i] = <<t[i]>> \o f0[i + 1]
    BY <1>6, <2>1, Zenon
  <2>3. CASE has(i) /\ f0[i] = r \o f0[i + Len(s)]
    <3>0. (i - 1) + Len(s) <= n /\ r \in Text
      BY <2>3, PrefixFits
    <3>1. i + Len(s) \in i + 1 .. n + 1 /\ r \in Text
      <4> HIDE DEF has
      <4> QED BY <1>0, <3>0
    <3>2. f0[i + Len(s)] \in Text
      BY <1>7, <3>1
    <3>3. r \o f0[i + Len(s)] \in Text
      BY <3>1, <3>2 DEF Text
    <3> QED
      BY <2>3, <3>3
  <2>4. CASE ~has(i) /\ f0[i] = <<t[i]>> \o f0[i + 1]
    <3>1. i + 1 \in i + 1 .. n + 1
      BY <1>0
    <3>2. f0[i + 1] \in Text /\ <<t[i]>> \in Text
      BY <1>0, <1>7, <3>1, SingleTyped DEF Text
    <3>3. <<t[i]>> \o f0[i + 1] \in Text
      BY <3>2 DEF Text
    <3> QED
      BY <2>4, <3>3
  <2> QED
    BY <2>2, <2>3, <2>4, Zenon
<1>8. f0[n + 1] \in Text
  <2>1. n + 1 > Len(t) /\ ~(n + 1 <= Len(t)) /\ n + 1 \in 1 .. n + 1 /\ <<>> \in Text
    BY <1>0 DEF Text
  <2>2. f0[n + 1] = <<>>
    BY <1>6, <2>1, Zenon
  <2> QED
    BY <2>1, <2>2
<1>9. \A i \in 1 .. n + 1 : f0[i] \in Text
  <2> DEFINE T == { i \in 1 .. n + 1 : f0[i] \in Text }
  <2>1. n + 1 \in T
    BY <1>0, <1>8
  <2>2. ASSUME NEW i \in 1 .. n, \A j \in i + 1 .. n + 1 : j \in T PROVE i \in T
    <3>1. i \in 1 .. n + 1
      BY <1>0
    <3> QED
      BY <1>7, <2>2, <3>1
  <2>3. \A i \in 1 .. n + 1 : i \in T
    <3> HIDE DEF T
    <3> QED BY <1>0, <2>1, <2>2, InductionDown, Zenon
  <2> QED
    BY <2>3
<1>10. f0 \in [1 .. n + 1 -> Text]
  <2>1. f0 = [i \in 1 .. n + 1 |-> f0[i]]
    <3> DEFINE other == [i \in 1 .. Len(t) + 1 |->
                            IF i > Len(t) THEN <<>>
                            ELSE IF IsPrefix(s, From(t, i)) THEN r \o f0[i + Len(s)]
                            ELSE <<t[i]>> \o f0[i + 1]]
    <3>1. f0 = other
      BY <1>4, Zenon
    <3>2. other = [i \in 1 .. n + 1 |-> other[i]]
      BY Zenon
    <3> HIDE DEF other
    <3> QED
      BY <3>1, <3>2, Zenon
  <2> HIDE DEF n
  <2> QED
    BY <1>9, <2>1
<1>11. f0[n + 1] = <<>>
  <2>1. n + 1 > Len(t) /\ n + 1 \in 1 .. n + 1
    BY <1>0
  <2> QED
    BY <1>6, <2>1, Zenon
<1>12. ASSUME NEW i \in 1 .. n
       PROVE  f0[i] = IF IsPrefix(s, From(t, i)) THEN r \o f0[i + Len(s)] ELSE <<t[i]>> \o f0[i + 1]
  <2>1. ~(i > Len(t)) /\ i \in 1 .. n + 1
    BY <1>0
  <2> QED
    BY <1>6, <2>1, Zenon
<1>13. IsReplacing(f0, t, s, r)
  BY <1>5, <1>10, <1>11, <1>12, Zenon DEF IsReplacing
<1> QED
  BY <1>13, Zenon

\* Where bash finds a `{*}`, runex resolves one.
LEMMA StarResolves ==
    ASSUME NEW t \in Text, NEW i \in 1 .. Len(t), NEW b, b.glob # None, b.regex = None
    PROVE  /\ IsPrefix(Star, From(t, i)) <=> Resolved(t, i, b) # None
           /\ Resolved(t, i, b) # None => Resolved(t, i, b) = b.glob /\ i + 2 <= Len(t)
<1> DEFINE S == Symbols \cup {"{", "*", "}"}
           y == From(t, i)
<1>1. Len(t) \in Nat /\ i \in 1 .. Len(t) + 1
  BY DEF Text
<1>2. y \in Text /\ Len(y) = Len(t) - i + 1 /\ \A k \in 1 .. Len(t) - i + 1 : y[k] = t[i + k - 1]
  BY <1>1, SidesTyped
<1> HIDE DEF y
<1>3. Star \in Seq(S) /\ Len(Star) = 3 /\ Star[1] = "{" /\ Star[2] = "*" /\ Star[3] = "}"
  BY DEF Star
<1>4. y \in Seq(S)
  <2>1. Symbols \subseteq S
    BY Zenon
  <2> HIDE DEF S
  <2> QED
    BY <1>2, <2>1 DEF Text
<1> HIDE DEF S
<1>5. IsPrefix(Star, y) <=> Len(Star) <= Len(y) /\ \A k \in 1 .. Len(Star) : Star[k] = y[k]
  <2>1. Star \in Seq(S)
    BY <1>3, Zenon
  <2> QED
    BY <1>4, <2>1, PrefixIs
<1>6. Len(Star) <= Len(y) <=> i + 2 <= Len(t)
  <2>1. Len(Star) = 3
    BY <1>3, Zenon
  <2> QED
    BY <1>1, <1>2, <2>1
<1>7. (\A k \in 1 .. Len(Star) : Star[k] = y[k]) <=> "{" = y[1] /\ "*" = y[2] /\ "}" = y[3]
  <2>1. 1 .. 3 = {1, 2, 3}
    OBVIOUS
  <2>2. (\A k \in {1, 2, 3} : Star[k] = y[k]) <=> "{" = y[1] /\ "*" = y[2] /\ "}" = y[3]
    BY <1>3, Zenon
  <2>3. 1 .. Len(Star) = {1, 2, 3}
    BY <1>3, <2>1, Zenon
  <2> QED
    BY <2>2, <2>3, Zenon
<1>8. i + 2 <= Len(t) => y[1] = t[i] /\ y[2] = t[i + 1] /\ y[3] = t[i + 2]
  <2>1. ASSUME i + 2 <= Len(t)
        PROVE  /\ 1 \in 1 .. Len(t) - i + 1 /\ 2 \in 1 .. Len(t) - i + 1 /\ 3 \in 1 .. Len(t) - i + 1
               /\ i + 1 - 1 = i /\ i + 2 - 1 = i + 1 /\ i + 3 - 1 = i + 2
    BY <1>1, <2>1
  <2>2. ASSUME i + 2 <= Len(t) PROVE y[1] = t[i] /\ y[2] = t[i + 1] /\ y[3] = t[i + 2]
    <3>1. /\ 1 \in 1 .. Len(t) - i + 1 /\ 2 \in 1 .. Len(t) - i + 1 /\ 3 \in 1 .. Len(t) - i + 1
          /\ i + 1 - 1 = i /\ i + 2 - 1 = i + 1 /\ i + 3 - 1 = i + 2
      BY <2>1, <2>2
    <3>2. y[1] = t[i + 1 - 1] /\ y[2] = t[i + 2 - 1] /\ y[3] = t[i + 3 - 1]
      BY <1>2, <3>1, Zenon
    <3> QED
      BY <3>1, <3>2
  <2> QED
    BY <2>2
<1>9. IsPrefix(Star, y) <=> i + 2 <= Len(t) /\ t[i] = "{" /\ t[i + 1] = "*" /\ t[i + 2] = "}"
  BY <1>5, <1>6, <1>7, <1>8, Zenon
<1>10. Resolved(t, i, b) # None <=> i + 2 <= Len(t) /\ t[i] = "{" /\ t[i + 1] = "*" /\ t[i + 2] = "}"
  BY Zenon DEF Resolved
<1>11. Resolved(t, i, b) # None => Resolved(t, i, b) = b.glob
  BY <1>10, Zenon DEF Resolved
<1> QED
  BY <1>9, <1>10, <1>11, Zenon DEF y

\* So bash fills in what a glob captured as runex does.
LEMMA FillsAlike ==
    ASSUME NEW t \in Text, NEW b \in Bindings, b.glob # None, b.regex = None
    PROVE  Replaced(t, Star, b.glob) = Substituted(t, b)
<1> DEFINE S == Symbols \cup {"{", "*", "}"}
           n == Len(t)
<1>1. n \in Nat
  BY DEF Text
<1>2. Symbols \subseteq S /\ Star \in Seq(S) /\ Len(Star) = 3 /\ Len(Star) >= 1
  <2>1. Symbols \subseteq S
    BY Zenon
  <2>2. Star \in Seq(S) /\ Len(Star) = 3
    BY DEF Star
  <2>3. Len(Star) = 3 => Len(Star) >= 1
    OBVIOUS
  <2> QED
    BY <2>1, <2>2, <2>3, Zenon
<1>3. b.glob \in Text
  BY DEF Bindings
<1> HIDE DEF S
<1>4. PICK f : IsReplacing(f, t, Star, b.glob)
  BY <1>2, <1>3, ReplacedSteps, Zenon
<1>5. PICK g : IsSubstitution(g, t, b)
  BY SubstitutedSteps, Zenon
<1> DEFINE T == { i \in 1 .. n + 1 : f[i] = g[i] }
<1>6. /\ f[n + 1] = <<>> /\ Replaced(t, Star, b.glob) = f[1]
      /\ \A i \in 1 .. n : f[i] = IF IsPrefix(Star, From(t, i)) THEN b.glob \o f[i + 3] ELSE <<t[i]>> \o f[i + 1]
  BY <1>2, <1>4, Zenon DEF IsReplacing
<1>7. /\ g[n + 1] = <<>> /\ Substituted(t, b) = g[1]
      /\ \A i \in 1 .. n : g[i] = IF Resolved(t, i, b) # None THEN Resolved(t, i, b) \o g[i + 3] ELSE <<t[i]>> \o g[i + 1]
  BY <1>5, Zenon DEF IsSubstitution
<1>8. n + 1 \in T
  <2>1. n + 1 \in 1 .. n + 1
    BY <1>1
  <2> QED
    BY <1>6, <1>7, <2>1, Zenon
<1>9. ASSUME NEW i \in 1 .. n, \A j \in i + 1 .. n + 1 : j \in T PROVE i \in T
  <2>1. /\ IsPrefix(Star, From(t, i)) <=> Resolved(t, i, b) # None
        /\ Resolved(t, i, b) # None => Resolved(t, i, b) = b.glob /\ i + 2 <= n
    BY StarResolves
  <2>2. i \in 1 .. n + 1 /\ i + 1 \in i + 1 .. n + 1 /\ (i + 2 <= n => i + 3 \in i + 1 .. n + 1)
    BY <1>1
  <2>3. f[i + 1] = g[i + 1] /\ (i + 2 <= n => f[i + 3] = g[i + 3])
    BY <1>9, <2>2, Zenon
  <2>4. f[i] = g[i]
    BY <1>6, <1>7, <2>1, <2>3, Zenon
  <2> QED
    BY <2>2, <2>4
<1>10. \A i \in 1 .. n + 1 : i \in T
  <2> HIDE DEF T
  <2> QED
    BY <1>1, <1>8, <1>9, InductionDown, Zenon
<1>11. 1 \in 1 .. n + 1
  BY <1>1
<1>12. f[1] = g[1]
  BY <1>10, <1>11, Zenon
<1> QED
  BY <1>6, <1>7, <1>12, Zenon

-----------------------------------------------------------------------------

\* The digits: each has a value, and only the zero that of zero.
LEMMA DigitsAre ==
    /\ \A x \in DOMAIN Digits : Digits[x] \in 0 .. 9 /\ (Digits[x] = 0 <=> x = "0")
    /\ DOMAIN Digits = {"0", "1", "2", "9"} /\ Digits["0"] = 0 /\ Digits["1"] = 1
<1>1. DOMAIN Digits = {"0", "1", "2", "9"} /\ Digits["0"] = 0 /\ Digits["1"] = 1 /\ Digits["2"] = 2 /\ Digits["9"] = 9
  BY DEF Digits
<1> QED
  BY <1>1

\* What the digits up to each place say.
IsNumbering(u, ds) ==
    /\ u \in [0 .. Len(ds) -> Nat]
    /\ u[0] = 0
    /\ \A i \in 1 .. Len(ds) : u[i] = 10 * u[i - 1] + Digits[ds[i]]

\* Of some symbols each is a digit.
AreDigits(ds) == Len(ds) \in Nat /\ \A i \in 1 .. Len(ds) : ds[i] \in DOMAIN Digits

\* There is such a function, and the number is what it says at the end.
LEMMA NumberSteps ==
    ASSUME NEW ds, AreDigits(ds)
    PROVE  \E u : IsNumbering(u, ds) /\ NumberOf(ds) = u[Len(ds)]
<1> DEFINE n == Len(ds)
           d(i) == Digits[ds[i]]
           Good(k) == \E u \in [0 .. n -> Nat] : u[0] = 0 /\ \A i \in 1 .. k : u[i] = 10 * u[i - 1] + d(i)
           T == { k \in Nat : k <= n => Good(k) }
           Unfolds(u) == u = [i \in 0 .. Len(ds) |-> IF i = 0 THEN 0 ELSE 10 * u[i - 1] + Digits[ds[i]]]
           u0 == CHOOSE u : Unfolds(u)
<1>0. n \in Nat /\ \A i \in 1 .. n : d(i) \in Nat
  <2>1. n \in Nat /\ \A i \in 1 .. n : ds[i] \in DOMAIN Digits
    BY Zenon DEF AreDigits
  <2>2. \A x \in DOMAIN Digits : Digits[x] \in Nat
    BY DigitsAre
  <2> QED
    BY <2>1, <2>2, Zenon
<1> HIDE DEF d
<1>1. 0 \in T
  <2>1. [i \in 0 .. n |-> 0] \in [0 .. n -> Nat] /\ [i \in 0 .. n |-> 0][0] = 0 /\ \A i \in 1 .. 0 : FALSE
    BY <1>0
  <2>2. Good(0)
    BY <2>1, Zenon
  <2> HIDE DEF Good
  <2> QED
    BY <2>2
<1>2. ASSUME NEW k \in Nat, k \in T PROVE k + 1 \in T
  <2> SUFFICES ASSUME k + 1 <= n PROVE Good(k + 1)
    <3> HIDE DEF Good
    <3> QED OBVIOUS
  <2>1. PICK u \in [0 .. n -> Nat] : u[0] = 0 /\ \A i \in 1 .. k : u[i] = 10 * u[i - 1] + d(i)
    <3>1. k <= n
      BY <1>0
    <3>2. Good(k)
      <4> HIDE DEF Good
      <4> QED BY <1>2, <3>1
    <3> QED BY <3>2, Zenon
  <2> DEFINE new == 10 * u[k] + d(k + 1)
             v == [u EXCEPT ![k + 1] = new]
  <2>2. k \in 0 .. n /\ k + 1 \in 1 .. n /\ k + 1 \in 0 .. n /\ k + 1 # 0 /\ 0 \in 0 .. n
    BY <1>0
  <2>3. new \in Nat
    <3>1. u[k] \in Nat /\ d(k + 1) \in Nat
      BY <1>0, <2>2
    <3> QED BY <3>1
  <2> HIDE DEF new
  <2>4. v \in [0 .. n -> Nat] /\ v[k + 1] = new /\ \A j \in 0 .. n : j # k + 1 => v[j] = u[j]
    BY <2>2, <2>3
  <2> HIDE DEF v
  <2>5. ASSUME NEW i \in 1 .. k + 1 PROVE v[i] = 10 * v[i - 1] + d(i)
    <3>1. i - 1 \in 0 .. n /\ i - 1 # k + 1
      BY <1>0, <2>2
    <3>2. v[i - 1] = u[i - 1]
      BY <2>4, <3>1
    <3>3. CASE i = k + 1
      <4>1. i - 1 = k
        BY <3>3
      <4> QED BY <2>4, <3>2, <3>3, <4>1 DEF new
    <3>4. CASE i # k + 1
      <4>1. i \in 1 .. k /\ i \in 0 .. n
        BY <3>4, <2>2, <1>0
      <4> QED BY <2>1, <2>4, <3>2, <3>4, <4>1
    <3> QED BY <3>3, <3>4
  <2>6. v[0] = 0
    BY <2>1, <2>2, <2>4
  <2> QED
    BY <2>4, <2>5, <2>6, Zenon
<1>3. n \in T
  <2> HIDE DEF T
  <2>1. Nat \subseteq T
    BY <1>1, <1>2, Induction
  <2> QED
    BY <1>0, <2>1
<1>4. PICK u \in [0 .. n -> Nat] : u[0] = 0 /\ \A i \in 1 .. n : u[i] = 10 * u[i - 1] + d(i)
  <2>1. n <= n
    BY <1>0
  <2>2. Good(n)
    <3> HIDE DEF Good
    <3> QED BY <1>3, <2>1
  <2> QED
    BY <2>2, Zenon
<1>5. Unfolds(u)
  <2>1. \A i \in 0 .. n : u[i] = IF i = 0 THEN 0 ELSE 10 * u[i - 1] + Digits[ds[i]]
    <3>1. \A i \in 0 .. n : i # 0 => i \in 1 .. n
      BY <1>0
    <3> QED
      BY <1>4, <3>1, Zenon DEF d
  <2>2. u = [i \in 0 .. n |-> u[i]]
    BY <1>4, Zenon
  <2>3. [i \in 0 .. n |-> u[i]] = [i \in 0 .. Len(ds) |-> IF i = 0 THEN 0 ELSE 10 * u[i - 1] + Digits[ds[i]]]
    BY <2>1, Zenon
  <2> QED
    BY <2>2, <2>3, Zenon
<1>6. Unfolds(u0)
  <2> HIDE DEF Unfolds
  <2> QED BY <1>5, Zenon
<1>7. NumberOf(ds) = u0[Len(ds)]
  BY Zenon DEF NumberOf
<1> HIDE DEF u0
<1>8. /\ DOMAIN u0 = 0 .. n
      /\ \A i \in 0 .. n : u0[i] = IF i = 0 THEN 0 ELSE 10 * u0[i - 1] + Digits[ds[i]]
      /\ u0 = [i \in 0 .. n |-> u0[i]]
  <2> DEFINE other == [i \in 0 .. Len(ds) |-> IF i = 0 THEN 0 ELSE 10 * u0[i - 1] + Digits[ds[i]]]
  <2>1. u0 = other
    BY <1>6, Zenon
  <2>2. /\ DOMAIN other = 0 .. n /\ other = [i \in 0 .. n |-> other[i]]
        /\ \A i \in 0 .. n : other[i] = IF i = 0 THEN 0 ELSE 10 * u0[i - 1] + Digits[ds[i]]
    BY Zenon
  <2> HIDE DEF other
  <2> QED
    BY <2>1, <2>2, Zenon
<1>9. u0[0] = 0 /\ \A i \in 1 .. n : u0[i] = 10 * u0[i - 1] + Digits[ds[i]]
  <2>1. 0 \in 0 .. n /\ \A i \in 1 .. n : i \in 0 .. n /\ i # 0
    BY <1>0
  <2> QED
    BY <1>8, <2>1, Zenon
<1> DEFINE R == { k \in Nat : k <= n => u0[k] \in Nat }
<1>10. Nat \subseteq R
  <2>1. 0 \in R
    BY <1>9
  <2>2. ASSUME NEW k \in Nat, k \in R PROVE k + 1 \in R
    <3>1. ASSUME k + 1 <= n PROVE u0[k + 1] \in Nat
      <4>1. k + 1 \in 1 .. n /\ (k + 1) - 1 = k /\ k <= n
        BY <1>0, <3>1
      <4>2. u0[k + 1] = 10 * u0[k] + d(k + 1)
        BY <1>9, <4>1 DEF d
      <4>3. u0[k] \in Nat /\ d(k + 1) \in Nat
        BY <1>0, <2>2, <4>1
      <4> QED
        BY <4>2, <4>3
    <3> QED
      BY <3>1
  <2> HIDE DEF R
  <2> QED
    BY <2>1, <2>2, Induction
<1>11. \A i \in 0 .. n : u0[i] \in Nat
  BY <1>0, <1>10
<1>12. IsNumbering(u0, ds)
  BY <1>8, <1>9, <1>11, Zenon DEF IsNumbering
<1> QED
  BY <1>7, <1>12, Zenon

-----------------------------------------------------------------------------

\* The symbols of texts and tokens: of those that count as blank only the blank.
Visible == { x \in Symbols : x \in Blanks => x = " " }

Clean(s) == s \in Seq(Visible)

\* A clean text is a text.
LEMMA CleanText == ASSUME NEW s, Clean(s) PROVE s \in Text
<1>1. Visible \subseteq Symbols
  BY Zenon DEF Visible
<1> QED
  BY <1>1 DEF Clean, Text

\* What is filled in a clean text is clean.
LEMMA SubstitutedClean ==
    ASSUME NEW t \in Text, Clean(t), NEW b \in Bindings, b.regex = None, b.glob # None => Clean(b.glob)
    PROVE  Clean(Substituted(t, b))
<1> DEFINE n == Len(t)
           V == Visible
<1>1. n \in Nat /\ \A i \in 1 .. n : t[i] \in V
  BY DEF Text, Clean
<1> HIDE DEF V
<1>2. PICK g : IsSubstitution(g, t, b)
  BY SubstitutedSteps, Zenon
<1>3. /\ g[n + 1] = <<>> /\ Substituted(t, b) = g[1]
      /\ \A i \in 1 .. n : g[i] = IF Resolved(t, i, b) # None THEN Resolved(t, i, b) \o g[i + 3] ELSE <<t[i]>> \o g[i + 1]
  BY <1>2, Zenon DEF IsSubstitution
<1> DEFINE T == { i \in 1 .. n + 1 : g[i] \in Seq(V) }
<1>4. n + 1 \in T
  <2>1. n + 1 \in 1 .. n + 1 /\ <<>> \in Seq(V)
    BY <1>1
  <2> QED
    BY <1>3, <2>1, Zenon
<1>5. ASSUME NEW i \in 1 .. n, \A j \in i + 1 .. n + 1 : j \in T PROVE i \in T
  <2>1. i \in 1 .. n + 1 /\ i + 1 \in i + 1 .. n + 1 /\ (i + 2 <= n => i + 3 \in i + 1 .. n + 1)
    BY <1>1
  <2>2. CASE Resolved(t, i, b) # None
    <3>1. i + 2 <= n
      BY <2>2, ResolvedTyped, Zenon
    <3>2. Resolved(t, i, b) = b.glob
      BY <2>2, Zenon DEF Resolved
    <3>3. b.glob \in Seq(V)
      BY <2>2, <3>2, Zenon DEF Clean, V
    <3>4. g[i] = b.glob \o g[i + 3] /\ g[i + 3] \in Seq(V)
      BY <1>3, <1>5, <2>1, <2>2, <3>1, <3>2, Zenon
    <3>5. g[i] \in Seq(V)
      BY <3>3, <3>4
    <3> QED
      BY <2>1, <3>5
  <2>3. CASE Resolved(t, i, b) = None
    <3>1. g[i] = <<t[i]>> \o g[i + 1] /\ g[i + 1] \in Seq(V)
      BY <1>3, <1>5, <2>1, <2>3, Zenon
    <3>2. <<t[i]>> \in Seq(V)
      BY <1>1, SingleTyped
    <3>3. g[i] \in Seq(V)
      BY <3>1, <3>2
    <3> QED
      BY <2>1, <3>3
  <2> QED
    BY <2>2, <2>3
<1>6. \A i \in 1 .. n + 1 : i \in T
  <2> HIDE DEF T
  <2> QED
    BY <1>1, <1>4, <1>5, InductionDown, Zenon
<1>7. 1 \in 1 .. n + 1
  BY <1>1
<1> QED
  BY <1>3, <1>6, <1>7, Zenon DEF Clean, V

\* The parts of a clean text are clean.
LEMMA PartsClean ==
    ASSUME NEW s, Clean(s), NEW i \in 1 .. Len(s) + 1 PROVE Clean(Before(s, i)) /\ Clean(From(s, i))
<1>1. s \in Seq(Visible) /\ Len(s) \in Nat
  BY DEF Clean
<1>2. 1 \in 1 .. Len(s) + 1 /\ i - 1 \in 0 .. Len(s) /\ Len(s) \in 0 .. Len(s)
  BY <1>1
<1>3. SubSeq(s, 1, i - 1) \in Seq(Visible) /\ SubSeq(s, i, Len(s)) \in Seq(Visible)
  BY <1>1, <1>2, PartTyped
<1> QED
  BY <1>3, Zenon DEF Clean, Before, From

\* One clean text after another is clean.
LEMMA JoinClean == ASSUME NEW a, NEW b, Clean(a), Clean(b) PROVE Clean(a \o b)
BY DEF Clean

\* What runex makes of a match: the filled-in template, or nothing if it is too long.
Filling(e, b) ==
    LET i == FirstCursor(e) IN
    IF i = None THEN [text |-> Substituted(e, b), cursor |-> None]
    ELSE [text |-> Substituted(Before(e, i), b) \o Substituted(From(e, i + 2), b),
          cursor |-> Len(Substituted(Before(e, i), b))]

\* That is what Render makes of it, and the two sides of its cursor are texts.
LEMMA FillingIs ==
    ASSUME NEW e \in Text, NEW b \in Bindings, NEW r, RenderNumber(r, b) = e
    PROVE  /\ Filling(e, b).text \in Text
           /\ Filling(e, b) # None
           /\ Render(r, b) = IF Len(Filling(e, b).text) > MaxRendered THEN None ELSE Filling(e, b)
           /\ FirstCursor(e) # None =>
                 /\ Before(e, FirstCursor(e)) \in Text /\ From(e, FirstCursor(e) + 2) \in Text
                 /\ FirstCursor(e) \in 1 .. Len(e) + 1 /\ FirstCursor(e) + 2 \in 1 .. Len(e) + 1
<1> DEFINE i == FirstCursor(e)
           x == Before(e, i)
           y == From(e, i + 2)
           fx == Substituted(x, b)
           fy == Substituted(y, b)
<1>0. e # None /\ None \notin Text /\ None \notin Rendering
  BY MatchingAssumption, Zenon
<1>1. Len(e) \in Nat /\ MaxRendered \in Nat
  <2>1. MaxRendered \in Nat
    BY MatchingAssumption, Zenon
  <2> QED
    BY <2>1 DEF Text
<1>2. CASE i = None
  <2>1. Filling(e, b) = [text |-> Substituted(e, b), cursor |-> None]
    BY <1>2, Zenon DEF Filling
  <2>2. Substituted(e, b) \in Text
    BY SubstitutedTyped
  <2>3. Render(r, b) = IF WithCaptures(e, b) = None THEN None ELSE [text |-> WithCaptures(e, b), cursor |-> None]
    BY <1>0, <1>2, RenderCases
  <2>4. WithCaptures(e, b) = IF Len(Substituted(e, b)) > MaxRendered THEN None ELSE Substituted(e, b)
    BY Zenon DEF WithCaptures
  <2>5. Substituted(e, b) # None
    BY <1>0, <2>2, Zenon
  <2>6. Filling(e, b).text = Substituted(e, b)
    BY <2>1
  <2>7. Filling(e, b) \in Rendering
    BY <2>1, <2>2 DEF Rendering
  <2> QED
    BY <1>0, <1>2, <2>1, <2>2, <2>3, <2>4, <2>5, <2>6, <2>7, Zenon
<1>3. CASE i # None
  <2>1. i \in 1 .. Len(e) - 1
    BY <1>3, FirstCursorIs
  <2>2. i \in 1 .. Len(e) + 1 /\ i + 2 \in 1 .. Len(e) + 1
    BY <1>1, <2>1
  <2>3. x \in Text /\ y \in Text
    BY <2>2, SidesTyped
  <2>4. fx \in Text /\ fy \in Text
    BY <2>3, SubstitutedTyped
  <2>5. Filling(e, b) = [text |-> fx \o fy, cursor |-> Len(fx)]
    BY <1>3, Zenon DEF Filling
  <2>6. Render(r, b) = IF WithCaptures(x, b) = None \/ WithCaptures(y, b) = None \/ Len(WithCaptures(x, b)) + Len(WithCaptures(y, b)) > MaxRendered
                         THEN None
                         ELSE [text |-> WithCaptures(x, b) \o WithCaptures(y, b), cursor |-> Len(WithCaptures(x, b))]
    BY <1>0, <1>3, RenderCases, Zenon
  <2>7. /\ WithCaptures(x, b) = IF Len(fx) > MaxRendered THEN None ELSE fx
        /\ WithCaptures(y, b) = IF Len(fy) > MaxRendered THEN None ELSE fy
    BY Zenon DEF WithCaptures
  <2> HIDE DEF fx, fy, x, y, i
  <2>8. Len(fx) \in Nat /\ Len(fy) \in Nat /\ Len(fx \o fy) = Len(fx) + Len(fy) /\ fx \o fy \in Text
    BY <2>4, JoinIs DEF Text
  <2>9. fx # None /\ fy # None
    BY <1>0, <2>4, Zenon
  <2>10. Filling(e, b).text = fx \o fy /\ Filling(e, b).cursor = Len(fx)
    BY <2>5
  <2>11. Filling(e, b) \in Rendering
    BY <2>5, <2>8 DEF Rendering
  <2>12. Len(fx) > MaxRendered \/ Len(fy) > MaxRendered => Len(fx) + Len(fy) > MaxRendered
    BY <1>1, <2>8
  <2>13. Render(r, b) = IF Len(fx) + Len(fy) > MaxRendered THEN None ELSE [text |-> fx \o fy, cursor |-> Len(fx)]
    BY <2>6, <2>7, <2>9, <2>12, Zenon
  <2> QED
    BY <1>0, <2>2, <2>3, <2>5, <2>8, <2>10, <2>11, <2>13, Zenon DEF x, y, i
<1> QED
  BY <1>2, <1>3

\* It is clean if the template and what was captured are.
LEMMA FillingClean ==
    ASSUME NEW e \in Text, Clean(e), NEW b \in Bindings, b.regex = None, b.glob # None => Clean(b.glob), NEW r, RenderNumber(r, b) = e
    PROVE  Clean(Filling(e, b).text)
<1> DEFINE i == FirstCursor(e)
<1>1. CASE i = None
  <2>1. Filling(e, b).text = Substituted(e, b)
    BY <1>1 DEF Filling
  <2> QED
    BY <2>1, SubstitutedClean
<1>2. CASE i # None
  <2>1. Before(e, i) \in Text /\ From(e, i + 2) \in Text /\ i \in 1 .. Len(e) + 1 /\ i + 2 \in 1 .. Len(e) + 1
    BY <1>2, FillingIs
  <2>2. Clean(Before(e, i)) /\ Clean(From(e, i + 2))
    BY <2>1, PartsClean
  <2>3. Clean(Substituted(Before(e, i), b)) /\ Clean(Substituted(From(e, i + 2), b))
    BY <2>1, <2>2, SubstitutedClean
  <2>4. Filling(e, b).text = Substituted(Before(e, i), b) \o Substituted(From(e, i + 2), b)
    BY <1>2 DEF Filling
  <2> QED
    BY <2>3, <2>4, JoinClean
<1> QED
  BY <1>1, <1>2

\* What a glob captures of a clean token is clean.
LEMMA CaptureClean ==
    ASSUME NEW key, NEW t, Clean(t), GlobCapture(key, t) # None, key \in Text PROVE Clean(GlobCapture(key, t))
<1>1. CASE ~Has(key, "*")
  <2>1. GlobCapture(key, t) = <<>>
    BY <1>1, Zenon DEF GlobCapture
  <2> QED
    BY <2>1 DEF Clean
<1>2. CASE Has(key, "*")
  <2> DEFINE head == Before(key, First(key, "*"))
             tail == From(key, First(key, "*") + 1)
             end == Len(t) - Len(tail)
  <2>1. GlobCapture(key, t) = SubSeq(t, Len(head) + 1, end) /\ Len(head) <= end
    BY <1>2, Zenon DEF GlobCapture
  <2>2. head \in Text /\ tail \in Text
    BY <1>2, AroundTyped
  <2> HIDE DEF head, tail
  <2>3. Len(head) \in Nat /\ Len(tail) \in Nat /\ Len(t) \in Nat
    BY <2>2 DEF Text, Clean
  <2>4. Len(head) + 1 \in 1 .. Len(t) + 1 /\ end \in 0 .. Len(t)
    BY <2>1, <2>3
  <2> HIDE DEF end
  <2> QED
    BY <2>1, <2>4, PartTyped DEF Clean
<1> QED
  BY <1>1, <1>2

-----------------------------------------------------------------------------

\* Zeros in front do not count.
LEMMA NumberFrom ==
    ASSUME NEW ds, AreDigits(ds), NEW cut \in 1 .. Len(ds) + 1, \A i \in 1 .. cut - 1 : ds[i] = "0",
           NEW rest, AreDigits(rest), Len(rest) = Len(ds) - cut + 1,
           \A k \in 1 .. Len(rest) : rest[k] = ds[cut + k - 1]
    PROVE  NumberOf(rest) = NumberOf(ds)
<1> DEFINE n == Len(ds)
           m == Len(rest)
           d(i) == Digits[ds[i]]
<1>0. n \in Nat /\ m \in Nat /\ m = n - cut + 1 /\ cut \in 1 .. n + 1
  BY Zenon DEF AreDigits
<1>1. PICK u : IsNumbering(u, ds) /\ NumberOf(ds) = u[n]
  BY NumberSteps
<1>2. PICK v : IsNumbering(v, rest) /\ NumberOf(rest) = v[m]
  BY NumberSteps
<1>3. u \in [0 .. n -> Nat] /\ u[0] = 0 /\ \A i \in 1 .. n : u[i] = 10 * u[i - 1] + d(i)
  BY <1>1, Zenon DEF IsNumbering
<1>4. v \in [0 .. m -> Nat] /\ v[0] = 0 /\ \A k \in 1 .. m : v[k] = 10 * v[k - 1] + d(cut + k - 1)
  BY <1>2, Zenon DEF IsNumbering
<1>5. \A i \in 1 .. cut - 1 : d(i) = 0
  BY DigitsAre, Zenon
<1>6. \A i \in 1 .. n : d(i) \in Nat
  <2>1. \A i \in 1 .. n : ds[i] \in DOMAIN Digits
    BY Zenon DEF AreDigits
  <2>2. \A x \in DOMAIN Digits : Digits[x] \in Nat
    BY DigitsAre
  <2> QED
    BY <2>1, <2>2, Zenon
<1> HIDE DEF d, n, m
<1> DEFINE T == { i \in Nat : i <= cut - 1 => u[i] = 0 }
<1>7. Nat \subseteq T
  <2>1. 0 \in T
    BY <1>3
  <2>2. ASSUME NEW i \in Nat, i \in T PROVE i + 1 \in T
    <3> SUFFICES ASSUME i + 1 <= cut - 1 PROVE u[i + 1] = 0
      OBVIOUS
    <3>1. i + 1 \in 1 .. n /\ (i + 1) - 1 = i /\ i + 1 \in 1 .. cut - 1 /\ u[i] = 0
      BY <1>0, <2>2
    <3>2. u[i + 1] = 10 * u[i] + d(i + 1) /\ d(i + 1) = 0
      BY <1>3, <1>5, <3>1
    <3> QED
      BY <3>1, <3>2
  <2> HIDE DEF T
  <2> QED
    BY <2>1, <2>2, Induction, Zenon
<1> DEFINE R == { k \in Nat : k <= m => v[k] = u[cut - 1 + k] }
<1>8. Nat \subseteq R
  <2>1. 0 \in R
    <3>1. cut - 1 \in Nat /\ cut - 1 + 0 = cut - 1
      BY <1>0
    <3>2. u[cut - 1] = 0
      BY <1>7, <3>1
    <3> QED
      BY <1>4, <3>1, <3>2
  <2>2. ASSUME NEW k \in Nat, k \in R PROVE k + 1 \in R
    <3> SUFFICES ASSUME k + 1 <= m PROVE v[k + 1] = u[cut - 1 + (k + 1)]
      OBVIOUS
    <3>1. /\ k + 1 \in 1 .. m /\ (k + 1) - 1 = k /\ cut - 1 + (k + 1) = cut + k
          /\ cut + (k + 1) - 1 = cut + k /\ cut + k \in 1 .. n /\ (cut + k) - 1 = cut - 1 + k
      BY <1>0
    <3>4. v[k] = u[cut - 1 + k]
      <4>1. k <= m
        BY <1>0
      <4> QED
        BY <2>2, <4>1
    <3>2. v[k + 1] = 10 * v[k] + d(cut + k)
      BY <1>4, <3>1
    <3>3. u[cut + k] = 10 * u[cut - 1 + k] + d(cut + k)
      BY <1>3, <3>1
    <3> QED
      BY <3>1, <3>2, <3>3, <3>4
  <2> HIDE DEF R
  <2> QED
    BY <2>1, <2>2, Induction, Zenon
<1>9. m \in R /\ cut - 1 + m = n
  BY <1>0, <1>8
<1>10. v[m] = u[n]
  BY <1>0, <1>9
<1> QED
  BY <1>1, <1>2, <1>10 DEF m, n

\* A number that begins with another digit is not less than a shorter one of a one and zeros.
LEMMA NumberAtLeast ==
    ASSUME NEW a, AreDigits(a), Len(a) >= 1, a[1] = "1", \A i \in 2 .. Len(a) : a[i] = "0",
           NEW b, AreDigits(b), Len(a) <= Len(b), b[1] # "0"
    PROVE  NumberOf(a) \in Nat /\ NumberOf(b) \in Nat /\ NumberOf(a) <= NumberOf(b)
<1> DEFINE n == Len(a)
           m == Len(b)
           d(i) == Digits[a[i]]
           e(i) == Digits[b[i]]
<1>0. n \in Nat /\ m \in Nat /\ 1 <= n /\ n <= m
  BY DEF AreDigits
<1>1. PICK u : IsNumbering(u, a) /\ NumberOf(a) = u[n]
  BY NumberSteps
<1>2. PICK v : IsNumbering(v, b) /\ NumberOf(b) = v[m]
  BY NumberSteps
<1>3. u \in [0 .. n -> Nat] /\ u[0] = 0 /\ \A i \in 1 .. n : u[i] = 10 * u[i - 1] + d(i)
  BY <1>1, Zenon DEF IsNumbering
<1>4. v \in [0 .. m -> Nat] /\ v[0] = 0 /\ \A i \in 1 .. m : v[i] = 10 * v[i - 1] + e(i)
  BY <1>2, Zenon DEF IsNumbering
<1>5. d(1) = 1 /\ \A i \in 2 .. n : d(i) = 0
  BY DigitsAre, Zenon
<1>6. \A i \in 1 .. m : e(i) \in Nat
  <2>1. \A i \in 1 .. m : b[i] \in DOMAIN Digits
    BY Zenon DEF AreDigits
  <2>2. \A x \in DOMAIN Digits : Digits[x] \in Nat
    BY DigitsAre
  <2> QED
    BY <2>1, <2>2, Zenon
<1>7. e(1) >= 1
  <2>1. 1 \in 1 .. m
    BY <1>0
  <2>2. b[1] \in DOMAIN Digits
    BY <2>1, Zenon DEF AreDigits
  <2>3. e(1) # 0
    BY <2>2, DigitsAre, Zenon
  <2> HIDE DEF e
  <2> QED
    BY <1>6, <2>1, <2>3
<1> HIDE DEF d, e, n, m
<1> DEFINE T == { k \in Nat : 1 <= k /\ k <= m => v[k] >= 1 /\ (k <= n => u[k] <= v[k]) /\ (n < k => v[k - 1] <= v[k]) }
<1>8. Nat \subseteq T
  <2>1. 0 \in T
    OBVIOUS
  <2>2. ASSUME NEW k \in Nat, k \in T PROVE k + 1 \in T
    <3> SUFFICES ASSUME k + 1 <= m
                 PROVE  v[k + 1] >= 1 /\ (k + 1 <= n => u[k + 1] <= v[k + 1]) /\ (n < k + 1 => v[k] <= v[k + 1])
      OBVIOUS
    <3>1. k + 1 \in 1 .. m /\ (k + 1) - 1 = k /\ k \in 0 .. m
      BY <1>0
    <3>2. v[k + 1] = 10 * v[k] + e(k + 1) /\ e(k + 1) \in Nat /\ v[k] \in Nat
      BY <1>4, <1>6, <3>1
    <3>3. k + 1 <= n => u[k + 1] = 10 * u[k] + d(k + 1) /\ u[k] \in Nat
      <4> SUFFICES ASSUME k + 1 <= n PROVE u[k + 1] = 10 * u[k] + d(k + 1) /\ u[k] \in Nat
        OBVIOUS
      <4>1. k + 1 \in 1 .. n /\ k \in 0 .. n
        BY <1>0
      <4> QED
        BY <1>3, <3>1, <4>1
    <3>4. CASE k = 0
      BY <1>0, <1>3, <1>4, <1>5, <1>7, <3>2, <3>3, <3>4
    <3>5. CASE k # 0
      <4>1. 1 <= k /\ k <= m
        BY <3>1, <3>5
      <4>2. v[k] >= 1 /\ (k <= n => u[k] <= v[k])
        BY <2>2, <4>1
      <4>3. k + 1 <= n => d(k + 1) = 0
        BY <1>0, <1>5, <3>5
      <4> QED
        BY <1>0, <3>2, <3>3, <4>2, <4>3
    <3> QED
      BY <3>4, <3>5
  <2> HIDE DEF T
  <2> QED
    BY <2>1, <2>2, Induction, Zenon
<1> DEFINE R == { k \in Nat : n <= k /\ k <= m => u[n] <= v[k] }
<1>9. Nat \subseteq R
  <2>1. 0 \in R
    BY <1>0
  <2>2. ASSUME NEW k \in Nat, k \in R PROVE k + 1 \in R
    <3> SUFFICES ASSUME n <= k + 1, k + 1 <= m PROVE u[n] <= v[k + 1]
      OBVIOUS
    <3>1. k + 1 \in T
      BY <1>8
    <3>2. (k + 1) - 1 = k
      OBVIOUS
    <3>3. (k + 1 <= n => u[k + 1] <= v[k + 1]) /\ (n < k + 1 => v[k] <= v[k + 1])
      BY <1>0, <3>1, <3>2
    <3>4. CASE n = k + 1
      BY <3>3, <3>4
    <3>5. CASE n # k + 1
      <4>1. n < k + 1 /\ n <= k /\ k <= m
        BY <1>0, <3>5
      <4>2. u[n] <= v[k]
        BY <2>2, <4>1
      <4>3. u[n] \in Nat /\ v[k] \in Nat /\ v[k + 1] \in Nat
        <5>1. n \in 0 .. n /\ k \in 0 .. m /\ k + 1 \in 0 .. m
          BY <1>0, <4>1
        <5> QED
          BY <1>3, <1>4, <5>1, Zenon
      <4> QED
        BY <3>3, <4>1, <4>2, <4>3
    <3> QED
      BY <3>4, <3>5
  <2> HIDE DEF R
  <2> QED
    BY <2>1, <2>2, Induction, Zenon
<1>10. m \in R /\ u[n] \in Nat /\ v[m] \in Nat
  BY <1>0, <1>3, <1>4, <1>9
<1>11. u[n] <= v[m]
  BY <1>0, <1>10
<1> QED
  BY <1>1, <1>2, <1>10, <1>11 DEF m, n

\* Of the digits of a number all have a value.
LEMMA AllDigitsAre ==
    ASSUME NEW ds \in Text, AllDigits(ds) PROVE AreDigits(ds) /\ Len(ds) >= 1 /\ DOMAIN ds = 1 .. Len(ds)
<1>1. Len(ds) \in Nat /\ DOMAIN ds = 1 .. Len(ds)
  BY DEF Text
<1>2. ds # <<>> /\ \A i \in DOMAIN ds : ds[i] \in DOMAIN Digits
  BY Zenon DEF AllDigits
<1>3. Len(ds) # 0
  <2>1. ds \in Seq(Symbols) /\ ds # <<>>
    BY <1>2, Zenon DEF Text
  <2> QED
    BY <2>1
<1>4. AreDigits(ds)
  BY <1>1, <1>2, Zenon DEF AreDigits
<1> QED
  BY <1>1, <1>3, <1>4

\* One symbol before others.
LEMMA OneBefore ==
    ASSUME NEW S, NEW a \in S, NEW s \in Seq(S)
    PROVE  /\ Len(<<a>> \o s) = Len(s) + 1 /\ (<<a>> \o s)[1] = a
           /\ \A i \in 2 .. Len(s) + 1 : (<<a>> \o s)[i] = s[i - 1]
<1>1. <<a>> \in Seq(S) /\ Len(<<a>>) = 1 /\ <<a>>[1] = a
  OBVIOUS
<1> DEFINE one == <<a>>
<1> HIDE DEF one
<1>2. one \in Seq(S) /\ Len(one) = 1 /\ one[1] = a
  BY <1>1 DEF one
<1>3. /\ Len(s) \in Nat /\ Len(one \o s) = Len(one) + Len(s)
      /\ \A k \in 1 .. Len(one) : (one \o s)[k] = one[k]
      /\ \A k \in 1 .. Len(s) : (one \o s)[Len(one) + k] = s[k]
  <2>1. one \in Seq(S)
    BY <1>2
  <2>2. Len(s) \in Nat /\ Len(one \o s) = Len(one) + Len(s)
    BY <2>1, JoinIs
  <2>3. \A k \in 1 .. Len(one) : (one \o s)[k] = one[k]
    BY <2>1, JoinIs
  <2>4. \A k \in 1 .. Len(s) : (one \o s)[Len(one) + k] = s[k]
    BY <2>1, JoinIs
  <2> QED
    BY <2>2, <2>3, <2>4, Zenon
<1> DEFINE both == one \o s
<1> HIDE DEF both
<1>4. Len(both) = Len(s) + 1 /\ both[1] = a
  <2>1. 1 \in 1 .. Len(one)
    BY <1>2
  <2> QED
    BY <1>2, <1>3, <2>1 DEF both
<1>5. \A k \in 1 .. Len(s) : both[1 + k] = s[k]
  BY <1>2, <1>3, Zenon DEF both
<1>6. ASSUME NEW i \in 2 .. Len(s) + 1 PROVE both[i] = s[i - 1]
  <2>1. i - 1 \in 1 .. Len(s) /\ 1 + (i - 1) = i
    BY <1>3
  <2> QED
    BY <1>5, <2>1, Zenon
<1> QED
  BY <1>4, <1>6, Zenon DEF both, one

\* A one and zeros.
Ones == <<"1">> \o [i \in 1 .. MaxDigits |-> "0"]

-----------------------------------------------------------------------------

\* A symbol is found where it is.
LEMMA OneOccurs ==
    ASSUME NEW t \in Text, NEW i \in 1 .. Len(t), NEW x
    PROVE  IsPrefix(<<x>>, From(t, i)) <=> t[i] = x
<1> DEFINE S == Symbols \cup {x}
           y == From(t, i)
           one == <<x>>
<1>1. Len(t) \in Nat /\ i \in 1 .. Len(t) + 1
  BY DEF Text
<1>2. y \in Text /\ Len(y) = Len(t) - i + 1 /\ \A k \in 1 .. Len(t) - i + 1 : y[k] = t[i + k - 1]
  BY <1>1, SidesTyped
<1>3. one \in Seq(S) /\ Len(one) = 1 /\ one[1] = x
  OBVIOUS
<1>4. y \in Seq(S)
  BY <1>2 DEF Text
<1> HIDE DEF S, y, one
<1>5. IsPrefix(one, y) <=> Len(one) <= Len(y) /\ \A k \in 1 .. Len(one) : one[k] = y[k]
  <2>1. one \in Seq(S)
    BY <1>3
  <2> QED
    BY <1>4, <2>1, PrefixIs
<1>6. Len(one) <= Len(y) /\ 1 \in 1 .. Len(t) - i + 1 /\ i + 1 - 1 = i
  BY <1>1, <1>2, <1>3
<1>7. \A k : k \in 1 .. Len(one) <=> k = 1
  BY <1>3
<1>8. y[1] = t[i]
  BY <1>2, <1>6, Zenon
<1>9. IsPrefix(one, y) <=> t[i] = x
  BY <1>3, <1>5, <1>6, <1>7, <1>8, Zenon
<1> QED
  BY <1>9, Zenon DEF one, y

\* So bash repeats a unit where runex does.
LEMMA UnitsAlike ==
    ASSUME NEW t \in Text, NEW u \in Text
    PROVE  Replaced(t, <<"{number}">>, u) = FlattenSeq(Pieces(t, u))
<1> DEFINE S == Symbols \cup {"{number}"}
           n == Len(t)
           one == <<"{number}">>
           s == Pieces(t, u)
<1>1. n \in Nat
  BY DEF Text
<1>2. Symbols \subseteq S /\ one \in Seq(S) /\ Len(one) = 1 /\ Len(one) >= 1
  <2>1. Symbols \subseteq S
    BY Zenon
  <2>2. one \in Seq(S) /\ Len(one) = 1
    OBVIOUS
  <2>3. Len(one) = 1 => Len(one) >= 1
    OBVIOUS
  <2> QED
    BY <2>1, <2>2, <2>3, Zenon
<1>3. /\ s \in Seq(Text) /\ Len(s) = n
      /\ \A i \in 1 .. n : s[i] = IF IsUnit(t[i]) THEN u ELSE <<t[i]>>
  BY PiecesAre, Zenon
<1>4. \A i \in 1 .. n : IsPrefix(one, From(t, i)) <=> IsUnit(t[i])
  BY OneOccurs, Zenon DEF IsUnit
<1> HIDE DEF S, one, s
<1>5. PICK f : IsReplacing(f, t, one, u)
  BY <1>2, ReplacedSteps, Zenon
<1>6. /\ f[n + 1] = <<>> /\ Replaced(t, one, u) = f[1] /\ f \in [1 .. n + 1 -> Text]
      /\ \A i \in 1 .. n : f[i] = IF IsPrefix(one, From(t, i)) THEN u \o f[i + 1] ELSE <<t[i]>> \o f[i + 1]
  BY <1>2, <1>5, Zenon DEF IsReplacing
<1>7. \A i \in 1 .. n : f[i] = s[i] \o f[i + 1]
  BY <1>3, <1>4, <1>6, Zenon
<1>8. s \in Seq(Seq(Symbols)) /\ <<>> \in Seq(Symbols)
  BY <1>3 DEF Text
<1>9. FromTheRight(f, Symbols, s, <<>>)
  BY <1>3, <1>6, <1>7, Zenon DEF FromTheRight
<1>10. f[1] = FlattenSeq(s) \o <<>>
  BY <1>8, <1>9, RightIsFlat, Zenon
<1>11. FlattenSeq(s) \in Seq(Symbols)
  BY <1>8, FlattenTyped
<1>12. FlattenSeq(s) \o <<>> = FlattenSeq(s)
  BY <1>11, ConcatEmptySeq
<1> QED
  BY <1>6, <1>10, <1>12, Zenon DEF one, s

\* What bash leaves of a token without the prefix, and of that without the suffix.
PastPrefix(prefix, t) == IF IsPrefix(prefix, t) THEN From(t, Len(prefix) + 1) ELSE t

BeforeSuffix(suffix, rest) == IF IsSuffix(suffix, rest) THEN Before(rest, Len(rest) - Len(suffix) + 1) ELSE rest

\* Whether there is a number between the two, and which.
Encloses(prefix, suffix, t) ==
    Len(prefix) + Len(suffix) <= Len(t) /\ IsPrefix(prefix, t) /\ IsSuffix(suffix, t)

Enclosed(prefix, suffix, t) == SubSeq(t, Len(prefix) + 1, Len(t) - Len(suffix))

\* Bash finds what is between where runex does.
LEMMA SidesAgree ==
    ASSUME NEW prefix \in Text, NEW suffix \in Text, NEW t \in Text
    PROVE  LET rest == PastPrefix(prefix, t)
               digits == BeforeSuffix(suffix, rest)
           IN  /\ (prefix # <<>> /\ rest = t) \/ (suffix # <<>> /\ digits = rest) <=> ~Encloses(prefix, suffix, t)
               /\ Encloses(prefix, suffix, t) => digits = Enclosed(prefix, suffix, t) /\ digits \in Text
<1> DEFINE rest == PastPrefix(prefix, t)
           digits == BeforeSuffix(suffix, rest)
           p == Len(prefix)
           q == Len(suffix)
           n == Len(t)
           mid == Enclosed(prefix, suffix, t)
<1>1. /\ p \in Nat /\ q \in Nat /\ n \in Nat
      /\ prefix \in Seq(Symbols) /\ t \in Seq(Symbols) /\ suffix \in Seq(Symbols)
  BY DEF Text
<1>2. IsPrefix(prefix, t) <=> p <= n /\ \A k \in 1 .. p : prefix[k] = t[k]
  BY <1>1, PrefixIs
<1>3. IsSuffix(suffix, t) <=> q <= n /\ \A k \in 1 .. q : suffix[k] = t[(n - q) + k]
  BY SuffixIs
<1>4. /\ prefix = <<>> => p = 0 /\ \A k \in 1 .. p : FALSE
      /\ suffix = <<>> => q = 0 /\ \A k \in 1 .. q : FALSE
      /\ prefix # <<>> => p # 0
      /\ suffix # <<>> => q # 0
  BY <1>1
<1>5. CASE ~IsPrefix(prefix, t)
  <2>1. rest = t
    BY <1>5, Zenon DEF PastPrefix
  <2>2. prefix # <<>>
    <3> SUFFICES ASSUME prefix = <<>> PROVE FALSE
      OBVIOUS
    <3>1. p <= n
      BY <1>1, <1>4
    <3> QED
      BY <1>2, <1>4, <1>5, <3>1
  <2> HIDE DEF rest, digits
  <2> QED
    BY <1>5, <2>1, <2>2, Zenon DEF Encloses, rest, digits
<1>6. CASE IsPrefix(prefix, t)
  <2>1. p <= n
    BY <1>2, <1>6
  <2> DEFINE b == p + 1
  <2>2. b \in 1 .. n + 1 /\ n - b + 1 = n - p
    BY <1>1, <2>1
  <2>3. rest = From(t, b)
    BY <1>6, Zenon DEF PastPrefix
  <2> HIDE DEF rest, b
  <2>4. /\ rest \in Text /\ Len(rest) = n - p
        /\ \A k \in 1 .. n - p : rest[k] = t[b + k - 1]
    <3>1. /\ rest \in Text /\ Len(rest) = n - b + 1
          /\ \A k \in 1 .. n - b + 1 : rest[k] = t[b + k - 1]
      BY <2>2, <2>3, SidesTyped, Zenon
    <3> QED
      BY <2>2, <3>1, Zenon
  <2>5. ~(prefix # <<>> /\ rest = t)
    BY <1>1, <1>4, <2>4
  <2> DEFINE m == Len(rest)
  <2>6. m \in Nat /\ m = n - p
    BY <1>1, <2>1, <2>4
  <2> HIDE DEF m
  <2>7. IsSuffix(suffix, rest) <=> q <= m /\ \A k \in 1 .. q : suffix[k] = rest[(m - q) + k]
    BY <2>4, SuffixIs, Zenon DEF m
  <2>8. ASSUME q <= m, NEW k \in 1 .. q PROVE rest[(m - q) + k] = t[(n - q) + k]
    <3>1. (m - q) + k \in 1 .. n - p /\ b + ((m - q) + k) - 1 = (n - q) + k
      BY <1>1, <2>6, <2>8 DEF b
    <3> QED
      BY <2>4, <3>1, Zenon
  <2>9. Encloses(prefix, suffix, t) <=> IsSuffix(suffix, rest)
    <3>1. p + q <= n <=> q <= m
      BY <1>1, <2>6
    <3>2. q <= m => q <= n
      BY <1>1, <2>6
    <3>3. Encloses(prefix, suffix, t) <=> q <= m /\ IsSuffix(suffix, t)
      BY <1>6, <3>1, Zenon DEF Encloses
    <3> HIDE DEF p, q, n
    <3> QED
      BY <1>3, <2>7, <2>8, <3>2, <3>3, Zenon
  <2>10. CASE ~IsSuffix(suffix, rest)
    <3>1. digits = rest
      BY <2>10, Zenon DEF BeforeSuffix
    <3>2. suffix # <<>>
      <4> SUFFICES ASSUME suffix = <<>> PROVE FALSE
        OBVIOUS
      <4>1. q <= m
        BY <1>1, <1>4, <2>6
      <4> QED
        BY <1>4, <2>7, <2>10, <4>1
    <3> HIDE DEF digits
    <3> QED
      BY <2>9, <2>10, <3>1, <3>2, Zenon DEF rest, digits
  <2>11. CASE IsSuffix(suffix, rest)
    <3> DEFINE c == m - q + 1
    <3>1. q <= m
      BY <2>7, <2>11
    <3>2. c \in 1 .. m + 1 /\ c - 1 = m - q /\ p + 1 \in 1 .. n + 1 /\ n - q \in 0 .. n
      BY <1>1, <2>1, <2>6, <3>1
    <3>3. digits = Before(rest, c)
      BY <2>11, Zenon DEF BeforeSuffix, m
    <3> HIDE DEF c, digits
    <3>4. /\ digits \in Text /\ Len(digits) = m - q
          /\ \A k \in 1 .. m - q : digits[k] = rest[k]
      <4>1. /\ digits \in Text /\ Len(digits) = c - 1
            /\ \A k \in 1 .. c - 1 : digits[k] = rest[k]
        BY <2>4, <3>2, <3>3, SidesTyped, Zenon DEF m
      <4> QED
        BY <3>2, <4>1, Zenon
    <3>5. ~(suffix # <<>> /\ digits = rest)
      BY <1>1, <1>4, <2>6, <3>4 DEF m
    <3>6. /\ mid \in Seq(Symbols) /\ Len(mid) = IF p + 1 <= n - q THEN (n - q) - (p + 1) + 1 ELSE 0
          /\ \A k \in 1 .. Len(mid) : mid[k] = t[p + 1 + k - 1]
      BY <1>1, <3>2, PartTyped, Zenon DEF Enclosed
    <3> HIDE DEF mid
    <3>7. Len(mid) = m - q
      <4>1. (IF p + 1 <= n - q THEN (n - q) - (p + 1) + 1 ELSE 0) = m - q
        BY <1>1, <2>6, <3>1
      <4> QED
        BY <3>6, <4>1
    <3>8. ASSUME NEW k \in 1 .. m - q PROVE digits[k] = mid[k]
      <4>1. k \in 1 .. n - p /\ b + k - 1 = p + 1 + k - 1
        BY <1>1, <2>6 DEF b
      <4>2. digits[k] = rest[k] /\ rest[k] = t[b + k - 1]
        BY <2>4, <3>4, <4>1
      <4>3. mid[k] = t[p + 1 + k - 1]
        BY <3>6, <3>7, Zenon
      <4> QED
        BY <4>1, <4>2, <4>3
    <3>9. digits = mid
      <4>1. digits \in Seq(Symbols)
        BY <3>4 DEF Text
      <4>2. Len(digits) = Len(mid) /\ \A k \in 1 .. Len(digits) : digits[k] = mid[k]
        BY <3>4, <3>7, <3>8, Zenon
      <4> QED
        BY <3>6, <4>1, <4>2, SeqEqual, Zenon
    <3> QED
      BY <2>5, <2>9, <2>11, <3>4, <3>5, <3>9, Zenon DEF mid, rest, digits
  <2> QED
    <3> DEFINE A == prefix # <<>> /\ rest = t
    <3> HIDE DEF A
    <3>1. ~A
      BY <2>5 DEF A
    <3> QED
      BY <2>5, <2>10, <2>11, Zenon
<1> QED
  BY <1>5, <1>6

-----------------------------------------------------------------------------

\* Without captures bash renders what runex does.
LEMMA BareFilling ==
    ASSUME NEW x \in Text, NEW b \in Bindings, b.glob = None, b.regex = None
    PROVE  /\ RenderBaked(x) = IF IsBlankBaked(Filling(x, b).text) THEN None ELSE Filling(x, b)
           /\ Len(Filling(x, b).text) <= Len(x)
<1> DEFINE i == FirstCursor(x)
<1>1. Len(x) \in Nat /\ x \in Seq(Symbols)
  BY DEF Text
<1>2. ASSUME NEW t \in Text PROVE Substituted(t, b) = t
  <2>1. PutsNothing(t, 1, Len(t), b)
    BY NoCapturePutsNothing
  <2> QED
    BY <2>1, NothingPut
<1>3. CASE i = None
  <2>1. Substituted(x, b) = x
    BY <1>2
  <2>2. Filling(x, b) = [text |-> x, cursor |-> None]
    BY <1>3, <2>1, Zenon DEF Filling
  <2>3. Filling(x, b).text = x
    BY <2>2
  <2>4. RenderBaked(x) = IF IsBlankBaked(x) THEN None ELSE [text |-> x, cursor |-> None]
    BY <1>3, Zenon DEF RenderBaked
  <2>5. Len(x) <= Len(x)
    BY <1>1
  <2> QED
    BY <2>2, <2>3, <2>4, <2>5, Zenon
<1>4. CASE i # None
  <2> DEFINE y == Before(x, i)
             j == i + 2
             z == From(x, j)
  <2>1. i \in 1 .. Len(x) - 1
    BY <1>4, FirstCursorIs
  <2>2. i \in 1 .. Len(x) + 1 /\ j \in 1 .. Len(x) + 1
    BY <1>1, <2>1
  <2> HIDE DEF i, j
  <2>3. y \in Text /\ z \in Text /\ Len(y) = i - 1 /\ Len(z) = Len(x) - j + 1
    BY <2>2, SidesTyped, Zenon
  <2>4. Substituted(y, b) = y /\ Substituted(z, b) = z
    BY <1>2, <2>3
  <2>5. Filling(x, b) = [text |-> y \o z, cursor |-> i - 1]
    <3>1. Filling(x, b) = [text |-> Substituted(y, b) \o Substituted(z, b), cursor |-> Len(Substituted(y, b))]
      BY <1>4, Zenon DEF Filling, i, j
    <3> QED
      BY <2>3, <2>4, <3>1, Zenon
  <2>6. Filling(x, b).text = y \o z
    BY <2>5
  <2>7. RenderBaked(x) = IF IsBlankBaked(y \o z) THEN None ELSE [text |-> y \o z, cursor |-> i - 1]
    BY <1>4, Zenon DEF RenderBaked, i, j
  <2> HIDE DEF y, z
  <2>8. Len(y \o z) <= Len(x)
    <3>1. y \in Seq(Symbols) /\ z \in Seq(Symbols)
      BY <2>3 DEF Text
    <3>2. Len(y \o z) = Len(y) + Len(z)
      BY <3>1
    <3> QED
      BY <1>1, <2>1, <2>3, <3>2 DEF j
  <2> QED
    BY <2>5, <2>6, <2>7, <2>8, Zenon
<1> QED
  BY <1>3, <1>4

\* A clean unit is clean repeated, and so is a clean template with it.
LEMMA RepeatClean ==
    ASSUME NEW unit, Clean(unit), NEW n \in Nat PROVE Clean(Repeat(unit, n))
<1> DEFINE units == [i \in 1 .. n |-> unit]
<1>1. units \in [1 .. n -> Seq(Visible)]
  BY DEF Clean
<1> HIDE DEF units
<1>2. units \in Seq(Seq(Visible))
  BY <1>1, SequenceIs
<1>3. FlattenSeq(units) \in Seq(Visible)
  BY <1>2, FlattenTyped
<1> QED
  BY <1>3, Zenon DEF Clean, Repeat, units

\* A clean template with a clean text for each {number} is clean.
LEMMA PiecesClean ==
    ASSUME NEW t \in Text, Clean(t), NEW u \in Text, Clean(u) PROVE Clean(FlattenSeq(Pieces(t, u)))
<1> DEFINE s == Pieces(t, u)
           n == Len(t)
<1>1. n \in Nat /\ \A i \in 1 .. n : t[i] \in Visible
  BY DEF Text, Clean
<1>2. /\ s \in Seq(Text) /\ Len(s) = n
      /\ \A i \in 1 .. n : s[i] = IF IsUnit(t[i]) THEN u ELSE <<t[i]>>
  BY PiecesAre, Zenon
<1> HIDE DEF s
<1>3. ASSUME NEW i \in 1 .. n PROVE s[i] \in Seq(Visible)
  <2>1. <<t[i]>> \in Seq(Visible)
    BY <1>1, SingleTyped
  <2> QED
    BY <1>2, <2>1, Zenon DEF Clean
<1>4. s = [i \in 1 .. n |-> s[i]]
  BY <1>2
<1>5. s \in [1 .. n -> Seq(Visible)]
  BY <1>3, <1>4, Zenon
<1>6. s \in Seq(Seq(Visible))
  BY <1>1, <1>5, SequenceIs
<1>7. FlattenSeq(s) \in Seq(Visible)
  BY <1>6, FlattenTyped
<1> QED
  BY <1>7, Zenon DEF Clean, s

\* What a number rule renders first: the template with its units, if these are not too long.
LEMMA UnitsRendered ==
    ASSUME NEW r \in AbbrRule, NEW n \in Nat, r.number # None, NEW b, b = [number |-> n, glob |-> None, regex |-> None]
    PROVE  LET units == Repeat(r.number, n)
               text == FlattenSeq(Pieces(r.expand, units))
           IN  RenderNumber(r, b) = IF Len(units) > MaxRendered \/ Len(text) > MaxRendered THEN None ELSE text
<1> DEFINE units == Repeat(r.number, b.number)
           rendered == FlattenSeq([i \in DOMAIN r.expand |->
                           IF r.expand[i] = "{number}" THEN units ELSE <<r.expand[i]>>])
<1>1. b.number = n /\ n # None
  BY MatchingAssumption, Zenon
<1>2. RenderNumber(r, b) = IF Len(units) > MaxRendered \/ Len(rendered) > MaxRendered THEN None ELSE rendered
  BY <1>1, Zenon DEF RenderNumber
<1>3. rendered = FlattenSeq(Pieces(r.expand, units))
  BY Zenon DEF Pieces
<1> HIDE DEF rendered
<1> QED
  BY <1>1, <1>2, <1>3, Zenon

\* What bash looks up, of what the table has.
PatternLookup(prefix, suffix, unit, e, t) ==
    LET rest   == PastPrefix(prefix, t)
        digits == BeforeSuffix(suffix, rest)
        n      == NumberOf(Significant(digits))
        units  == Repeat(unit, n)
        text   == Replaced(e, <<"{number}">>, units)
    IN  IF \/ prefix # <<>> /\ rest = t
           \/ suffix # <<>> /\ digits = rest
           \/ ~AllDigits(digits)
           \/ Significant(digits) = <<>>
           \/ Len(Significant(digits)) > MaxDigits
           \/ n > MaxNumeric
          THEN None
          ELSE IF Len(units) > MaxRendered \/ Len(text) > MaxRendered THEN None ELSE RenderBaked(text)

-----------------------------------------------------------------------------

\* Where a separator is, and what is between two or at an end.
IsSeparator(s, x, k) == s[k] = x

IsField(s, x, i, j) ==
    /\ i <= j + 1
    /\ \A k \in i .. j : ~IsSeparator(s, x, k)
    /\ i = 1 \/ IsSeparator(s, x, i - 1)
    /\ j = Len(s) \/ IsSeparator(s, x, j + 1)

\* They are what a text is split into.
LEMMA SplitIs ==
    ASSUME NEW s, NEW x, NEW y
    PROVE  y \in SplitAt(s, x) <=>
               \E i \in 1 .. Len(s) + 1, j \in 0 .. Len(s) : IsField(s, x, i, j) /\ y = SubSeq(s, i, j)
<1> DEFINE A == 1 .. Len(s) + 1
           B == 0 .. Len(s)
           Field(i, j) ==
               /\ i <= j + 1 /\ \A k \in i .. j : s[k] # x
               /\ (i = 1 \/ s[i - 1] = x) /\ (j = Len(s) \/ s[j + 1] = x)
<1>1. \A i, j : Field(i, j) <=> IsField(s, x, i, j)
  BY Zenon DEF IsField, IsSeparator
<1>2. SplitAt(s, x) = { SubSeq(s, f[1], f[2]) : f \in { f \in A \X B : Field(f[1], f[2]) } }
  BY Zenon DEF SplitAt
<1> HIDE DEF A, B, Field
<1>3. \A f \in A \X B : f[1] \in A /\ f[2] \in B
  OBVIOUS
<1>4. \A i \in A, j \in B : <<i, j>> \in A \X B /\ <<i, j>>[1] = i /\ <<i, j>>[2] = j
  OBVIOUS
<1>5. ASSUME y \in SplitAt(s, x) PROVE \E i \in A, j \in B : Field(i, j) /\ y = SubSeq(s, i, j)
  BY <1>2, <1>3, <1>5, Zenon
<1>6. ASSUME NEW i \in A, NEW j \in B, Field(i, j), y = SubSeq(s, i, j) PROVE y \in SplitAt(s, x)
  <2> DEFINE f == <<i, j>>
  <2>1. f \in A \X B /\ f[1] = i /\ f[2] = j
    BY <1>4
  <2> HIDE DEF f
  <2>2. Field(f[1], f[2]) /\ y = SubSeq(s, f[1], f[2])
    BY <1>6, <2>1, Zenon
  <2>3. f \in { g \in A \X B : Field(g[1], g[2]) }
    BY <2>1, <2>2, Zenon
  <2> QED
    BY <1>2, <2>2, <2>3, Zenon
<1> QED
  BY <1>1, <1>5, <1>6, Zenon DEF A, B

\* After one more separator and a text without it, there is that text besides.
LEMMA FieldsAfter ==
    ASSUME NEW a \in Nat, NEW d \in Nat, NEW u, NEW s, NEW x, Len(u) = a, Len(s) = a + 1 + d,
           \A k \in 1 .. a : IsSeparator(s, x, k) <=> IsSeparator(u, x, k),
           IsSeparator(s, x, a + 1), \A k \in a + 2 .. a + 1 + d : ~IsSeparator(s, x, k),
           NEW i \in 1 .. Len(s) + 1, NEW j \in 0 .. Len(s)
    PROVE  IsField(s, x, i, j) <=>
               \/ i = a + 2 /\ j = a + 1 + d
               \/ i \in 1 .. a + 1 /\ j \in 0 .. a /\ IsField(u, x, i, j)
<1> DEFINE n == a + 1 + d
<1>1. ASSUME i = a + 2, j = n PROVE IsField(s, x, i, j)
  BY <1>1 DEF IsField
<1>2. ASSUME i \in 1 .. a + 1, j \in 0 .. a PROVE IsField(s, x, i, j) <=> IsField(u, x, i, j)
  <2>1. \A k \in i .. j : k \in 1 .. a
    BY <1>2
  <2>2. i = 1 \/ i - 1 \in 1 .. a
    BY <1>2
  <2>3. j = a \/ j + 1 \in 1 .. a
    BY <1>2
  <2>4. j # Len(s) /\ (j = a => j + 1 = a + 1)
    BY <1>2
  <2>5. (\A k \in i .. j : ~IsSeparator(s, x, k)) <=> (\A k \in i .. j : ~IsSeparator(u, x, k))
    BY <2>1, Zenon
  <2>6. i = 1 \/ IsSeparator(s, x, i - 1) <=> i = 1 \/ IsSeparator(u, x, i - 1)
    BY <2>2, Zenon
  <2>7. j = Len(s) \/ IsSeparator(s, x, j + 1) <=> j = Len(u) \/ IsSeparator(u, x, j + 1)
    BY <2>3, <2>4, Zenon
  <2> QED
    BY <2>5, <2>6, <2>7, Zenon DEF IsField
<1>3. ASSUME IsField(s, x, i, j), j = n PROVE i = a + 2
  <2>1. ~(a + 1 \in i .. j)
    BY <1>3 DEF IsField
  <2>2. i >= a + 2
    BY <1>3, <2>1
  <2>3. IsSeparator(s, x, i - 1)
    BY <1>3, <2>2 DEF IsField
  <2>4. i # a + 2 => i - 1 \in a + 2 .. a + 1 + d
    BY <2>2
  <2> QED
    BY <2>3, <2>4
<1>4. ASSUME IsField(s, x, i, j), j # n PROVE i \in 1 .. a + 1 /\ j \in 0 .. a
  <2>1. IsSeparator(s, x, j + 1) /\ i <= j + 1
    BY <1>4 DEF IsField
  <2>2. ~(j + 1 \in a + 2 .. a + 1 + d)
    BY <2>1
  <2> QED
    BY <1>4, <2>1, <2>2
<1> HIDE DEF n
<1> QED
  BY <1>1, <1>2, <1>3, <1>4, Zenon DEF n

\* A separator and a part that has none come after a text: one part more.
LEMMA SplitsAfter ==
    ASSUME NEW S, NEW u \in Seq(S), NEW x \in S, NEW c \in Seq(S), ~Has(c, x)
    PROVE  SplitAt(u \o (<<x>> \o c), x) = SplitAt(u, x) \cup {c}
<1> DEFINE w == <<x>> \o c
           s == u \o w
           a == Len(u)
           d == Len(c)
           n == a + 1 + d
<1>1. a \in Nat /\ d \in Nat /\ \A k \in 1 .. d : c[k] # x
  BY DEF Has
<1>2. w \in Seq(S) /\ Len(w) = d + 1 /\ w[1] = x /\ \A k \in 2 .. d + 1 : w[k] = c[k - 1]
  <2>1. Len(w) = d + 1 /\ w[1] = x /\ \A k \in 2 .. d + 1 : w[k] = c[k - 1]
    BY OneBefore
  <2>2. <<x>> \in Seq(S)
    BY SingleTyped
  <2> QED
    BY <2>1, <2>2
<1> HIDE DEF w
<1>3. s \in Seq(S) /\ Len(s) = a + Len(w) /\ \A k \in 1 .. a : s[k] = u[k]
  BY <1>2, JoinIs, ZenonT(60)
<1>4. \A k \in 1 .. Len(w) : s[a + k] = w[k]
  BY <1>2, JoinIs
<1> HIDE DEF s
<1>5. Len(s) = n
  BY <1>1, <1>2, <1>3
<1>6. s[a + 1] = x
  <2>1. 1 \in 1 .. Len(w)
    BY <1>1, <1>2
  <2> QED
    BY <1>2, <1>4, <2>1, Zenon
<1>7. ASSUME NEW k \in a + 2 .. n PROVE s[k] = c[k - (a + 1)] /\ k - (a + 1) \in 1 .. d
  <2>1. k - a \in 1 .. Len(w) /\ k - a \in 2 .. d + 1 /\ a + (k - a) = k /\ (k - a) - 1 = k - (a + 1) /\ k - (a + 1) \in 1 .. d
    BY <1>1, <1>2
  <2>2. s[k] = w[k - a] /\ w[k - a] = c[k - (a + 1)]
    BY <1>2, <1>4, <2>1, Zenon
  <2> QED
    BY <2>1, <2>2
<1>8. /\ \A k \in 1 .. a : IsSeparator(s, x, k) <=> IsSeparator(u, x, k)
      /\ IsSeparator(s, x, a + 1)
      /\ \A k \in a + 2 .. a + 1 + d : ~IsSeparator(s, x, k)
  BY <1>1, <1>3, <1>6, <1>7, Zenon DEF IsSeparator
<1>9. ASSUME NEW i \in 1 .. Len(s) + 1, NEW j \in 0 .. Len(s)
      PROVE  IsField(s, x, i, j) <=>
                \/ (i = a + 2 /\ j = n)
                \/ i \in 1 .. a + 1 /\ j \in 0 .. a /\ IsField(u, x, i, j)
  BY <1>1, <1>5, <1>8, FieldsAfter, Zenon
<1>10. SubSeq(s, a + 2, n) = c
  <2> DEFINE p == SubSeq(s, a + 2, n)
  <2>1. a + 2 \in 1 .. Len(s) + 1 /\ n \in 0 .. Len(s)
    BY <1>1, <1>5
  <2>2. /\ p \in Seq(S) /\ Len(p) = IF a + 2 <= n THEN n - (a + 2) + 1 ELSE 0
        /\ \A k \in 1 .. Len(p) : p[k] = s[a + 2 + k - 1]
    BY <1>3, <2>1, PartTyped
  <2> HIDE DEF p
  <2>3. (IF a + 2 <= n THEN n - (a + 2) + 1 ELSE 0) = d
    BY <1>1
  <2>4. Len(p) = d
    BY <2>2, <2>3
  <2>5. ASSUME NEW k \in 1 .. d PROVE p[k] = c[k]
    <3>1. a + 2 + k - 1 \in a + 2 .. n /\ (a + 2 + k - 1) - (a + 1) = k
      BY <1>1
    <3>2. p[k] = s[a + 2 + k - 1]
      BY <2>2, <2>4
    <3>3. s[a + 2 + k - 1] = c[(a + 2 + k - 1) - (a + 1)]
      BY <1>7, <3>1
    <3> QED
      BY <3>1, <3>2, <3>3
  <2>6. p = c
    BY <2>2, <2>4, <2>5, SeqEqual
  <2> QED
    BY <2>6 DEF p
<1>11. ASSUME NEW i \in 1 .. a + 1, NEW j \in 0 .. a PROVE SubSeq(s, i, j) = SubSeq(u, i, j)
  <2> DEFINE p == SubSeq(s, i, j)
             q == SubSeq(u, i, j)
  <2>1. i \in 1 .. Len(s) + 1 /\ j \in 0 .. Len(s) /\ i \in 1 .. Len(u) + 1 /\ j \in 0 .. Len(u)
    BY <1>1, <1>5
  <2>2. /\ p \in Seq(S) /\ Len(p) = IF i <= j THEN j - i + 1 ELSE 0
        /\ \A k \in 1 .. Len(p) : p[k] = s[i + k - 1]
    BY <1>3, <2>1, PartTyped
  <2>3. /\ q \in Seq(S) /\ Len(q) = IF i <= j THEN j - i + 1 ELSE 0
        /\ \A k \in 1 .. Len(q) : q[k] = u[i + k - 1]
    BY <2>1, PartTyped, Zenon
  <2> HIDE DEF p, q
  <2>4. Len(p) = Len(q)
    BY <2>2, <2>3
  <2>5. ASSUME NEW k \in 1 .. Len(p) PROVE p[k] = q[k]
    <3>1. i + k - 1 \in 1 .. a
      BY <1>1, <2>2
    <3>2. p[k] = s[i + k - 1] /\ q[k] = u[i + k - 1]
      BY <2>2, <2>3, <2>4
    <3> QED
      BY <1>3, <3>1, <3>2, Zenon
  <2>6. p = q
    BY <2>2, <2>3, <2>4, <2>5, SeqEqual, Zenon
  <2> QED
    BY <2>6 DEF p, q
<1>12. a + 2 \in 1 .. Len(s) + 1 /\ n \in 0 .. Len(s)
  BY <1>1, <1>5
<1>13. \A i \in 1 .. a + 1, j \in 0 .. a : i \in 1 .. Len(s) + 1 /\ j \in 0 .. Len(s)
  BY <1>1, <1>5
<1> HIDE DEF a, d, n
<1>14. ASSUME NEW y PROVE y \in SplitAt(s, x) <=> y \in SplitAt(u, x) \cup {c}
  <2>1. y \in SplitAt(s, x) <=>
            \E i \in 1 .. Len(s) + 1, j \in 0 .. Len(s) : IsField(s, x, i, j) /\ y = SubSeq(s, i, j)
    BY SplitIs
  <2>2. y \in SplitAt(u, x) <=>
            \E i \in 1 .. a + 1, j \in 0 .. a : IsField(u, x, i, j) /\ y = SubSeq(u, i, j)
    BY SplitIs DEF a
  <2>3. ASSUME y \in SplitAt(s, x) PROVE y \in SplitAt(u, x) \/ y = c
    <3>1. PICK i \in 1 .. Len(s) + 1, j \in 0 .. Len(s) : IsField(s, x, i, j) /\ y = SubSeq(s, i, j)
      BY <2>1, <2>3, Zenon
    <3>2. CASE i = a + 2 /\ j = n
      BY <1>10, <3>1, <3>2, Zenon
    <3>3. CASE i \in 1 .. a + 1 /\ j \in 0 .. a /\ IsField(u, x, i, j)
      BY <1>11, <2>2, <3>1, <3>3, Zenon
    <3> QED
      BY <1>9, <3>1, <3>2, <3>3, Zenon
  <2>4. ASSUME y \in SplitAt(u, x) PROVE y \in SplitAt(s, x)
    <3>1. PICK i \in 1 .. a + 1, j \in 0 .. a : IsField(u, x, i, j) /\ y = SubSeq(u, i, j)
      BY <2>2, <2>4, Zenon
    <3>2. i \in 1 .. Len(s) + 1 /\ j \in 0 .. Len(s)
      BY <1>13, Zenon
    <3>3. IsField(s, x, i, j)
      BY <1>9, <3>1, <3>2, Zenon
    <3>4. y = SubSeq(s, i, j)
      BY <1>11, <3>1, Zenon
    <3> QED
      BY <2>1, <3>2, <3>3, <3>4, Zenon
  <2>5. ASSUME y = c PROVE y \in SplitAt(s, x)
    <3>1. IsField(s, x, a + 2, n)
      BY <1>9, <1>12, Zenon
    <3> QED
      BY <1>10, <1>12, <2>1, <2>5, <3>1, Zenon
  <2> QED
    BY <2>3, <2>4, <2>5, Zenon
<1>15. SplitAt(s, x) = SplitAt(u, x) \cup {c}
  BY <1>14, Zenon
<1> QED
  BY <1>15, Zenon DEF s, w

\* Without a separator there is one text.
LEMMA SplitsOne ==
    ASSUME NEW S, NEW c \in Seq(S), NEW x, ~Has(c, x) PROVE SplitAt(c, x) = {c}
<1> DEFINE n == Len(c)
<1>1. n \in Nat /\ \A k \in 1 .. n : ~IsSeparator(c, x, k)
  BY DEF Has, IsSeparator
<1>2. SubSeq(c, 1, n) = c
  BY SubSeqFull
<1>3. 1 \in 1 .. n + 1 /\ n \in 0 .. n /\ IsField(c, x, 1, n)
  BY <1>1 DEF IsField
<1>4. ASSUME NEW i \in 1 .. n + 1, NEW j \in 0 .. n, IsField(c, x, i, j) PROVE i = 1 /\ j = n
  <2>1. i = 1 \/ ~(i - 1 \in 1 .. n)
    BY <1>1, <1>4 DEF IsField
  <2>2. j = n \/ ~(j + 1 \in 1 .. n)
    BY <1>1, <1>4 DEF IsField
  <2> QED
    BY <1>1, <2>1, <2>2
<1>5. ASSUME NEW y PROVE y \in SplitAt(c, x) <=> y = c
  <2>1. y \in SplitAt(c, x) <=> \E i \in 1 .. n + 1, j \in 0 .. n : IsField(c, x, i, j) /\ y = SubSeq(c, i, j)
    BY SplitIs
  <2> HIDE DEF n
  <2> QED
    BY <1>2, <1>3, <1>4, <2>1, Zenon
<1> QED
  BY <1>5, Zenon
=============================================================================
