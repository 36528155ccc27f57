------------------------------ MODULE SeqFolds ------------------------------
(***************************************************************************)
(* Facts about FoldLeft of the community modules, for any operator: the    *)
(* loops of the code that take the elements of a sequence one by one       *)
(* (commands, ports, packets) are such folds in the models. FoldLeft is    *)
(* defined through a CHOOSE of a function on sets of indices; that there   *)
(* is such a function, and what it gives on a longer sequence, is proved   *)
(* by induction on the number of elements. Modules instantiate Op.         *)
(***************************************************************************)
EXTENDS SequencesExt, SequenceTheorems, WellFoundedInduction, TLAPS
CONSTANT Op(_,_)   \* what one turn of the loop makes of a result and an element

(* Induction over the natural numbers, for a set. *)
LEMMA NatInduct ==
  ASSUME NEW S, 0 \in S, \A n \in Nat : n \in S => n + 1 \in S
  PROVE  \A n \in Nat : n \in S
<1>. DEFINE R == {ss \in Nat \X Nat : ss[1] < ss[2]}
            T == {n \in Nat : n \notin S}
<1>1. IsWellFoundedOn(R, Nat)
  BY NatLessThanWellFounded DEF OpToRel
<1>2. ASSUME T # {} PROVE FALSE
  <2>1. PICK x \in T : \A y \in T : ~(<<y, x>> \in R)
     BY <1>1, <1>2, WFMin
  <2>2. \A y \in T : ~(y < x)
     BY <2>1
  <2>3. x - 1 \in Nat /\ x - 1 \in S
     BY <2>1, <2>2
  <2>. QED  BY <2>1, <2>3
<1>. QED  BY <1>2

(* What the function that the fold chooses is at a set of indices. *)
Body(g, base, seq, s) ==
  IF s = {} THEN base ELSE Op(g[s \ {Max(s)}], seq[Max(s)])

(* The last index of a part of a sequence that holds the last one. *)
LEMMA MaxInterval ==
  ASSUME NEW k \in Nat, NEW s \in SUBSET (1..k + 1), k + 1 \in s
  PROVE  Max(s) = k + 1
<1>1. \A y \in s : k + 1 >= y
  OBVIOUS
<1>2. \A x \in s : (\A y \in s : x >= y) => x = k + 1
  OBVIOUS
<1>. QED  BY <1>1, <1>2 DEF Max

(* A function that is as it should be on the first k indices. *)
Defines(g, base, seq, D, k) ==
  \A s \in D : s \subseteq 1..k => g[s] = Body(g, base, seq, s)

(* Without its last index, indices up to k + 1 are indices up to k. *)
LEMMA WithoutMax ==
  ASSUME NEW k \in Nat, NEW s \in SUBSET (1..k + 1), s # {}
  PROVE  s \ {Max(s)} \subseteq 1..k
<1>1. CASE k + 1 \in s
  <2>1. Max(s) = k + 1
    BY <1>1, MaxInterval
  <2>. QED  BY <2>1
<1>2. CASE k + 1 \notin s
  <2>1. s \subseteq 1..k
    BY <1>2
  <2>. QED  BY <2>1
<1>. QED  BY <1>1, <1>2

(* The function that the fold chooses exists. *)
LEMMA IterExists ==
  ASSUME NEW base, NEW seq, NEW n \in Nat
  PROVE  \E g : g = [s \in SUBSET (1..n) |-> Body(g, base, seq, s)]
<1>. DEFINE D == SUBSET (1..n)
            P == {k \in Nat : \E g : Defines(g, base, seq, D, k)}
<1>1. 0 \in P
  <2>1. Defines([s \in D |-> base], base, seq, D, 0)
    BY DEF Body, Defines
  <2>. QED  BY <2>1
<1>2. ASSUME NEW k \in Nat, k \in P PROVE k + 1 \in P
  <2>1. PICK f : Defines(f, base, seq, D, k)
    BY <1>2
  <2>. DEFINE g == [s \in D |-> IF s \subseteq 1..k THEN f[s] ELSE Body(f, base, seq, s)]
  <2>2. ASSUME NEW s \in D, s \subseteq 1..k + 1 PROVE g[s] = Body(g, base, seq, s)
    <3>1. g[s] = Body(f, base, seq, s)
      BY <2>1 DEF Defines
    <3>2. CASE s = {}
      BY <3>1, <3>2 DEF Body
    <3>3. CASE s # {}
      <4>1. s \ {Max(s)} \subseteq 1..k /\ s \ {Max(s)} \in D
        BY <2>2, <3>3, WithoutMax
      <4>2. g[s \ {Max(s)}] = f[s \ {Max(s)}]
        BY <4>1
      <4>. QED  BY <3>1, <4>2 DEF Body
    <3>. QED  BY <3>2, <3>3
  <2>3. Defines(g, base, seq, D, k + 1)
    <3>. HIDE DEF g
    <3>. QED  BY <2>2 DEF Defines
  <2>. HIDE DEF g
  <2>. QED  BY <2>3
<1>3. n \in P
  <2>. HIDE DEF P
  <2>. QED  BY <1>1, <1>2, NatInduct
<1>4. PICK f : Defines(f, base, seq, D, n)
  BY <1>3
<1>. DEFINE g == [s \in D |-> f[s]]
<1>5. ASSUME NEW s \in D PROVE g[s] = Body(g, base, seq, s)
  <2>1. f[s] = Body(f, base, seq, s)
    BY <1>4 DEF Defines
  <2>2. s \ {Max(s)} \in D
    OBVIOUS
  <2>. QED  BY <2>1, <2>2 DEF Body
<1>6. g = [s \in D |-> Body(g, base, seq, s)]
  BY <1>5
<1>. HIDE DEF g
<1>. QED  BY <1>6

-----------------------------------------------------------------------------
Fold(base, seq) == FoldLeft(Op, base, seq)

(* The results of the fold on longer and longer parts of a sequence. *)
Unfolds(h, base, seq, n) ==
  h[0] = base /\ \A k \in 0..n - 1 : h[k + 1] = Op(h[k], seq[k + 1])

(* A fold is the last of the results of its parts. *)
LEMMA FoldUnfold ==
  ASSUME NEW base, NEW seq, NEW n \in Nat, DOMAIN seq = 1..n
  PROVE  \E h : Unfolds(h, base, seq, n) /\ Fold(base, seq) = h[n]
<1>. DEFINE D == SUBSET (1..n)
            iter == CHOOSE g : g = [s \in D |-> Body(g, base, seq, s)]
            h == [k \in 0..n |-> iter[1..k]]
<1>1. iter = [s \in D |-> Body(iter, base, seq, s)]
  BY IterExists
<1>2. Fold(base, seq) = iter[1..n]
  BY DEF Fold, FoldLeft, MapThenFoldSet, Body
<1>. HIDE DEF iter
<1>3. h[0] = base
  <2>1. 1..0 = {} /\ {} \in D
    OBVIOUS
  <2>. QED  BY <1>1, <2>1 DEF Body
<1>4. ASSUME NEW k \in 0..n - 1 PROVE h[k + 1] = Op(h[k], seq[k + 1])
  <2>1. 1..k + 1 # {} /\ 1..k + 1 \in D /\ k + 1 \in 0..n /\ k \in 0..n
    OBVIOUS
  <2>2. Max(1..k + 1) = k + 1
    BY MaxInterval
  <2>3. (1..k + 1) \ {k + 1} = 1..k
    OBVIOUS
  <2>4. iter[1..k + 1] = Body(iter, base, seq, 1..k + 1)
    BY <1>1, <2>1
  <2>5. iter[1..k + 1] = Op(iter[1..k], seq[k + 1])
    BY <2>1, <2>2, <2>3, <2>4 DEF Body
  <2>. QED  BY <2>1, <2>5
<1>5. h[n] = iter[1..n] /\ Unfolds(h, base, seq, n)
  BY <1>3, <1>4 DEF Unfolds
<1>. HIDE DEF h
<1>. QED  BY <1>2, <1>5

(* Whatever is built one element after the other is the fold. *)
LEMMA FoldIs ==
  ASSUME NEW base, NEW seq, NEW n \in Nat, DOMAIN seq = 1..n,
         NEW g, Unfolds(g, base, seq, n)
  PROVE  Fold(base, seq) = g[n]
<1>1. PICK h : /\ Unfolds(h, base, seq, n)
               /\ Fold(base, seq) = h[n]
  BY FoldUnfold
<1>. DEFINE P == {k \in Nat : k <= n => g[k] = h[k]}
<1>2. 0 \in P
  BY <1>1 DEF Unfolds
<1>3. ASSUME NEW k \in Nat, k \in P PROVE k + 1 \in P
  <2>. SUFFICES ASSUME k + 1 <= n PROVE g[k + 1] = h[k + 1]
    OBVIOUS
  <2>1. k \in 0..n - 1 /\ g[k] = h[k]
    BY <1>3
  <2>. QED  BY <1>1, <2>1 DEF Unfolds
<1>4. n \in P
  <2>. HIDE DEF P
  <2>. QED  BY <1>2, <1>3, NatInduct
<1>. QED  BY <1>1, <1>4

(* A loop over nothing changes nothing. *)
THEOREM FoldEmpty ==
  ASSUME NEW base
  PROVE  Fold(base, <<>>) = base
<1>1. DOMAIN <<>> = 1..0
  OBVIOUS
<1>2. PICK h : Unfolds(h, base, <<>>, 0) /\ Fold(base, <<>>) = h[0]
  BY <1>1, FoldUnfold
<1>. QED  BY <1>2 DEF Unfolds

(* A loop over two sequences, one after the other, is two loops. *)
THEOREM FoldConcat ==
  ASSUME NEW S, NEW s \in Seq(S), NEW t \in Seq(S), NEW base
  PROVE  Fold(base, s \o t) = Fold(Fold(base, s), t)
<1>. DEFINE m == Len(s)
            n == Len(t)
            u == s \o t
<1>1. /\ m \in Nat /\ n \in Nat
      /\ DOMAIN s = 1..m /\ DOMAIN t = 1..n
      /\ DOMAIN u = 1..m + n
      /\ \A i \in 1..m + n : u[i] = IF i <= m THEN s[i] ELSE t[i - m]
  BY LenProperties, ConcatProperties
<1>. HIDE DEF m, n, u
<1>2. PICK g : /\ Unfolds(g, base, s, m)
               /\ Fold(base, s) = g[m]
  BY <1>1, FoldUnfold
<1>3. PICK h : /\ Unfolds(h, g[m], t, n)
               /\ Fold(g[m], t) = h[n]
  BY <1>1, FoldUnfold
<1>. DEFINE f == [k \in 0..m + n |-> IF k <= m THEN g[k] ELSE h[k - m]]
<1>4. f[0] = base /\ f[m + n] = h[n]
  BY <1>1, <1>2, <1>3 DEF Unfolds
<1>5. ASSUME NEW k \in 0..m + n - 1 PROVE f[k + 1] = Op(f[k], u[k + 1])
  <2>1. CASE k + 1 <= m
    <3>1. k \in 0..m - 1 /\ f[k + 1] = g[k + 1] /\ f[k] = g[k] /\ u[k + 1] = s[k + 1]
      BY <1>1, <2>1
    <3>. QED  BY <1>2, <3>1 DEF Unfolds
  <2>2. CASE k = m
    BY <1>1, <1>3, <2>2 DEF Unfolds
  <2>3. CASE k > m
    <3>1. k - m \in 0..n - 1 /\ k + 1 - m = k - m + 1
      BY <1>1, <2>3
    <3>2. h[k - m + 1] = Op(h[k - m], t[k - m + 1])
      BY <1>3, <3>1 DEF Unfolds
    <3>3. u[k + 1] = t[k - m + 1]
      BY <1>1, <2>3, <3>1
    <3>4. f[k] = h[k - m] /\ f[k + 1] = h[k - m + 1]
      BY <1>1, <2>3, <3>1
    <3>. QED  BY <3>2, <3>3, <3>4
  <2>. QED  BY <1>1, <2>1, <2>2, <2>3
<1>6. Unfolds(f, base, u, m + n) /\ m + n \in Nat
  <2>. HIDE DEF f
  <2>. QED  BY <1>1, <1>4, <1>5 DEF Unfolds
<1>. HIDE DEF f
<1>7. Fold(base, u) = f[m + n]
  BY <1>1, <1>6, FoldIs
<1>8. Fold(Fold(base, s), t) = f[m + n]
  BY <1>2, <1>3, <1>4
<1>. QED  BY <1>7, <1>8 DEF u

(* A loop over one element is one turn. *)
THEOREM FoldSingle ==
  ASSUME NEW base, NEW e
  PROVE  Fold(base, <<e>>) = Op(base, e)
<1>1. DOMAIN <<e>> = 1..1 /\ <<e>>[1] = e
  OBVIOUS
<1>2. PICK h : /\ Unfolds(h, base, <<e>>, 1)
               /\ Fold(base, <<e>>) = h[1]
  BY <1>1, FoldUnfold
<1>3. 0 \in 0..1 - 1 /\ 0 + 1 = 1
  OBVIOUS
<1>4. h[0] = base /\ h[0 + 1] = Op(h[0], <<e>>[0 + 1])
  BY <1>2, <1>3 DEF Unfolds
<1>. QED  BY <1>1, <1>2, <1>3, <1>4

(* The last element takes the last turn. *)
THEOREM FoldAppend ==
  ASSUME NEW S, NEW s \in Seq(S), NEW e \in S, NEW base
  PROVE  Fold(base, Append(s, e)) = Op(Fold(base, s), e)
<1>1. Append(s, e) = s \o <<e>> /\ <<e>> \in Seq(S)
  BY AppendIsConcat
<1>2. Fold(base, s \o <<e>>) = Fold(Fold(base, s), <<e>>)
  BY <1>1, FoldConcat
<1>. QED  BY <1>1, <1>2, FoldSingle

(* The first element takes the first turn. *)
THEOREM FoldTail ==
  ASSUME NEW S, NEW s \in Seq(S), s # <<>>, NEW base
  PROVE  Fold(base, s) = Fold(Op(base, Head(s)), Tail(s))
<1>1. s = <<Head(s)>> \o Tail(s) /\ <<Head(s)>> \in Seq(S) /\ Tail(s) \in Seq(S)
  BY HeadTailProperties
<1>2. Fold(base, <<Head(s)>> \o Tail(s))
        = Fold(Fold(base, <<Head(s)>>), Tail(s))
  BY <1>1, FoldConcat
<1>. QED  BY <1>1, <1>2, FoldSingle

(* What every turn preserves holds of the result. *)
THEOREM FoldClosed ==
  ASSUME NEW S, NEW s \in Seq(S), NEW T, NEW base \in T,
         \A x \in T, e \in S : Op(x, e) \in T
  PROVE  Fold(base, s) \in T
<1>1. Len(s) \in Nat /\ DOMAIN s = 1..Len(s) /\ \A i \in 1..Len(s) : s[i] \in S
  BY LenProperties, ElementOfSeq
<1>2. PICK h : /\ Unfolds(h, base, s, Len(s))
               /\ Fold(base, s) = h[Len(s)]
  BY <1>1, FoldUnfold
<1>. DEFINE P == {k \in Nat : k <= Len(s) => h[k] \in T}
<1>3. 0 \in P
  BY <1>2 DEF Unfolds
<1>4. ASSUME NEW k \in Nat, k \in P PROVE k + 1 \in P
  <2>. SUFFICES ASSUME k + 1 <= Len(s) PROVE h[k + 1] \in T
    OBVIOUS
  <2>1. k \in 0..Len(s) - 1 /\ h[k] \in T /\ s[k + 1] \in S
    BY <1>1, <1>4
  <2>. QED  BY <1>2, <2>1 DEF Unfolds
<1>5. Len(s) \in P
  <2>. HIDE DEF P
  <2>. QED  BY <1>1, <1>3, <1>4, NatInduct
<1>. QED  BY <1>1, <1>2, <1>5

(* Two loops over the same elements stay related as every turn leaves them. *)
THEOREM FoldRelates ==
  ASSUME NEW S, NEW s \in Seq(S), NEW R, NEW a, NEW b, <<a, b>> \in R,
         \A x, y : \A e \in S : <<x, y>> \in R => <<Op(x, e), Op(y, e)>> \in R
  PROVE  <<Fold(a, s), Fold(b, s)>> \in R
<1>1. Len(s) \in Nat /\ DOMAIN s = 1..Len(s) /\ \A i \in 1..Len(s) : s[i] \in S
  BY LenProperties, ElementOfSeq
<1>2. PICK g : Unfolds(g, a, s, Len(s)) /\ Fold(a, s) = g[Len(s)]
  BY <1>1, FoldUnfold
<1>3. PICK h : Unfolds(h, b, s, Len(s)) /\ Fold(b, s) = h[Len(s)]
  BY <1>1, FoldUnfold
<1>. DEFINE P == {k \in Nat : k <= Len(s) => <<g[k], h[k]>> \in R}
<1>4. 0 \in P
  BY <1>2, <1>3 DEF Unfolds
<1>5. ASSUME NEW k \in Nat, k \in P PROVE k + 1 \in P
  <2>. SUFFICES ASSUME k + 1 <= Len(s) PROVE <<g[k + 1], h[k + 1]>> \in R
    OBVIOUS
  <2>1. k \in 0..Len(s) - 1 /\ <<g[k], h[k]>> \in R /\ s[k + 1] \in S
    BY <1>1, <1>5
  <2>2. <<Op(g[k], s[k + 1]), Op(h[k], s[k + 1])>> \in R
    BY <2>1
  <2>. QED  BY <1>2, <1>3, <2>1, <2>2 DEF Unfolds
<1>6. Len(s) \in P
  <2>. HIDE DEF P
  <2>. QED  BY <1>1, <1>4, <1>5, NatInduct
<1>. QED  BY <1>1, <1>2, <1>3, <1>6
=============================================================================
