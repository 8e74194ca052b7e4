--------------------------- MODULE SequenceFacts ---------------------------
(***************************************************************************)
(* Facts about numbers and sequences that several proofs need.  What is    *)
(* defined by recursion is reasoned about by induction over a set of       *)
(* numbers: the set of those for which a statement holds.                  *)
(***************************************************************************)
EXTENDS Integers, Sequences, SequencesExt, TLAPS, WellFoundedInduction

\* Some numbers have a least one.
LEMMA Least ==
    ASSUME NEW S \in SUBSET Nat, S # {}
    PROVE  \E m \in S : \A k \in S : m <= k
<1> DEFINE R == {ss \in Nat \X Nat : ss[1] < ss[2]}
<1>1. R = OpToRel(<, Nat)
  BY DEF OpToRel
<1>2. IsWellFoundedOn(R, Nat)
  BY <1>1, NatLessThanWellFounded
<1>3. PICK m \in S : \A k \in S : ~(<<k, m>> \in R)
  BY <1>2, WFMin
<1>4. ASSUME NEW k \in S PROVE m <= k
  <2>1. <<k, m>> \in Nat \X Nat /\ <<k, m>>[1] = k /\ <<k, m>>[2] = m
    OBVIOUS
  <2>2. ~(k < m)
    BY <1>3, <2>1
  <2> QED
    BY <2>2
<1> QED
  BY <1>4

\* What holds of zero and of the successor of whatever it holds of, holds of
\* every natural number.
LEMMA Inductive ==
    ASSUME NEW P \in SUBSET Nat, 0 \in P, \A n \in P : n + 1 \in P
    PROVE  P = Nat
<1> SUFFICES ASSUME Nat \ P # {} PROVE FALSE
  OBVIOUS
<1>1. PICK m \in Nat \ P : \A k \in Nat \ P : m <= k
  BY Least
<1>2. m # 0 /\ m - 1 \in Nat /\ ~(m <= m - 1)
  BY <1>1
<1>3. m - 1 \in P
  BY <1>1, <1>2
<1>4. (m - 1) + 1 = m
  BY <1>1
<1> QED
  BY <1>1, <1>3, <1>4

\* The greatest and the least of some numbers up to n.
LEMMA MaxIs ==
    ASSUME NEW n \in Nat, NEW S, S \subseteq 1..n, S # {}
    PROVE  Max(S) \in S /\ \A y \in S : Max(S) >= y
<1> DEFINE U == {k \in Nat : \A x \in S : x <= k}
<1>1. n \in U
  OBVIOUS
<1>2. PICK m \in U : \A k \in U : m <= k
  BY <1>1, Least
<1>3. m \in S
  <2>1. SUFFICES ASSUME m \notin S PROVE FALSE
    OBVIOUS
  <2>2. \A x \in S : x <= m - 1 /\ x \in Nat
    BY <1>2, <2>1
  <2>3. m - 1 \in U
    <3>1. m - 1 \in Nat
      <4>1. PICK x : x \in S
        OBVIOUS
      <4> QED
        BY <1>2, <2>2, <4>1
    <3> QED
      BY <2>2, <3>1
  <2> QED
    BY <1>2, <2>3
<1>4. \E x \in S : \A y \in S : x >= y
  BY <1>2, <1>3
<1> QED
  BY <1>4 DEF Max

LEMMA MinIs ==
    ASSUME NEW S \in SUBSET Nat, S # {}
    PROVE  Min(S) \in S /\ \A y \in S : Min(S) <= y
<1>1. \E x \in S : \A y \in S : x <= y
  BY Least
<1> QED
  BY <1>1 DEF Min

-----------------------------------------------------------------------------
(***************************************************************************)
(* Flattening                                                              *)
(***************************************************************************)
\* The first i sequences of seqs, one behind the other.
Flattens(g, seqs) == g = [i \in 1..Len(seqs) |-> IF i = 1 THEN seqs[i] ELSE g[i - 1] \o seqs[i]]

LEMMA FlatIs ==
    ASSUME NEW seqs, Len(seqs) # 0
    PROVE  \E g : FlattenSeq(seqs) = g[Len(seqs)] /\ ((\E h : Flattens(h, seqs)) => Flattens(g, seqs))
<1> DEFINE g == CHOOSE h : h = [i \in 1..Len(seqs) |-> IF i = 1 THEN seqs[i] ELSE h[i - 1] \o seqs[i]]
<1>1. FlattenSeq(seqs) = g[Len(seqs)]
  BY DEF FlattenSeq
<1>2. ASSUME NEW h, Flattens(h, seqs) PROVE Flattens(g, seqs)
  BY <1>2 DEF Flattens
<1> QED
  BY <1>1, <1>2

\* The first n values of such a function.
FlattensTo(g, n, seqs) == \A i \in 1..n : g[i] = IF i = 1 THEN seqs[i] ELSE g[i - 1] \o seqs[i]

LEMMA FlatNext ==
    ASSUME NEW T, NEW seqs \in Seq(Seq(T)), NEW n \in Nat, n + 1 <= Len(seqs),
           NEW g \in [1..n -> Seq(T)], FlattensTo(g, n, seqs)
    PROVE  \E h \in [1..(n + 1) -> Seq(T)] : FlattensTo(h, n + 1, seqs)
<1> DEFINE next == IF n = 0 THEN seqs[1] ELSE g[n] \o seqs[n + 1]
           h == [i \in 1..(n + 1) |-> IF i = n + 1 THEN next ELSE g[i]]
<1>1. seqs[n + 1] \in Seq(T) /\ (n = 0 => seqs[1] \in Seq(T))
  <2>1. n + 1 \in 1..Len(seqs)
    OBVIOUS
  <2> QED
    BY <2>1
<1>2. next \in Seq(T)
  BY <1>1
<1> HIDE DEF next
<1>3. h \in [1..(n + 1) -> Seq(T)]
  BY <1>2
<1>4. ASSUME NEW i \in 1..(n + 1)
      PROVE  h[i] = IF i = 1 THEN seqs[i] ELSE h[i - 1] \o seqs[i]
  <2>1. CASE i = n + 1
    <3>1. h[i] = next
      BY <2>1
    <3>2. i # 1 => h[i - 1] = g[n] /\ n # 0
      BY <2>1
    <3> QED
      BY <2>1, <3>1, <3>2 DEF next
  <2>2. CASE i # n + 1
    <3>1. i \in 1..n /\ h[i] = g[i] /\ (i # 1 => h[i - 1] = g[i - 1])
      BY <2>2
    <3> QED
      BY <3>1 DEF FlattensTo
  <2> QED
    BY <2>1, <2>2
<1> HIDE DEF h
<1> QED
  BY <1>3, <1>4 DEF FlattensTo

LEMMA FlatExists ==
    ASSUME NEW T, NEW seqs \in Seq(Seq(T))
    PROVE  \E g \in [1..Len(seqs) -> Seq(T)] : Flattens(g, seqs)
<1> DEFINE P == {n \in Nat : n <= Len(seqs) => \E g \in [1..n -> Seq(T)] : FlattensTo(g, n, seqs)}
<1>0. Len(seqs) \in Nat
  OBVIOUS
<1>1. 0 \in P
  <2>1. [i \in 1..0 |-> <<>>] \in [1..0 -> Seq(T)] /\ FlattensTo([i \in 1..0 |-> <<>>], 0, seqs)
    BY DEF FlattensTo
  <2> QED
    BY <2>1
<1>2. ASSUME NEW n \in P PROVE n + 1 \in P
  <2>1. n \in Nat /\ n + 1 \in Nat
    OBVIOUS
  <2>2. ASSUME n + 1 <= Len(seqs)
        PROVE  \E h \in [1..(n + 1) -> Seq(T)] : FlattensTo(h, n + 1, seqs)
    <3>1. n <= Len(seqs)
      BY <1>0, <2>1, <2>2
    <3>2. PICK g \in [1..n -> Seq(T)] : FlattensTo(g, n, seqs)
      BY <3>1
    <3> QED
      BY <2>1, <2>2, <3>2, FlatNext
  <2> QED
    BY <2>1, <2>2
<1>3. P = Nat
  <2>1. P \subseteq Nat
    OBVIOUS
  <2> HIDE DEF P
  <2> QED
    BY <1>1, <1>2, <2>1, Inductive
<1>4. Len(seqs) \in P
  BY <1>0, <1>3
<1>5. PICK g \in [1..Len(seqs) -> Seq(T)] : FlattensTo(g, Len(seqs), seqs)
  BY <1>0, <1>4
<1>6. g = [i \in 1..Len(seqs) |-> g[i]]
  OBVIOUS
<1>7. [i \in 1..Len(seqs) |-> g[i]] = [i \in 1..Len(seqs) |-> IF i = 1 THEN seqs[i] ELSE g[i - 1] \o seqs[i]]
  BY <1>5 DEF FlattensTo
<1> QED
  BY <1>6, <1>7 DEF Flattens

LEMMA FlatOnce ==
    ASSUME NEW T, NEW seqs \in Seq(Seq(T)), NEW g, Flattens(g, seqs), NEW h, Flattens(h, seqs)
    PROVE  g = h
<1> DEFINE P == {n \in Nat : n \in 1..Len(seqs) => g[n] = h[n]}
<1>0. \A i \in 1..Len(seqs) : /\ g[i] = IF i = 1 THEN seqs[i] ELSE g[i - 1] \o seqs[i]
                              /\ h[i] = IF i = 1 THEN seqs[i] ELSE h[i - 1] \o seqs[i]
  BY DEF Flattens
<1>1. 0 \in P
  OBVIOUS
<1>2. ASSUME NEW n \in P PROVE n + 1 \in P
  <2>1. n \in Nat /\ n + 1 \in Nat /\ (n + 1) - 1 = n /\ Len(seqs) \in Nat
    OBVIOUS
  <2>2. ASSUME n + 1 \in 1..Len(seqs) PROVE g[n + 1] = h[n + 1]
    <3>1. CASE n = 0
      BY <1>0, <2>2, <3>1
    <3>2. CASE n # 0
      <4>1. n \in 1..Len(seqs)
        BY <2>1, <2>2, <3>2
      <4>2. g[n] = h[n]
        BY <4>1
      <4> HIDE DEF P
      <4>3. n + 1 # 1
        BY <2>1, <3>2
      <4> QED
        BY <1>0, <2>1, <2>2, <4>2, <4>3
    <3> QED
      BY <3>1, <3>2
  <2> QED
    BY <2>1, <2>2
<1>3. P = Nat
  <2>1. P \subseteq Nat
    OBVIOUS
  <2> HIDE DEF P
  <2> QED
    BY <1>1, <1>2, <2>1, Inductive
<1>4. ASSUME NEW n \in 1..Len(seqs) PROVE g[n] = h[n]
  <2>1. n \in P
    BY <1>3
  <2> QED
    BY <2>1
<1>5. g = [i \in 1..Len(seqs) |-> g[i]] /\ h = [i \in 1..Len(seqs) |-> h[i]]
  BY DEF Flattens
<1> HIDE DEF P
<1> QED
  BY <1>4, <1>5

\* FlattenSeq returns a sequence, and is told by the function that flattens.
LEMMA FlatFunction ==
    ASSUME NEW T, NEW seqs \in Seq(Seq(T)), seqs # <<>>
    PROVE  \E g \in [1..Len(seqs) -> Seq(T)] : Flattens(g, seqs) /\ FlattenSeq(seqs) = g[Len(seqs)]
<1>1. PICK h : Flattens(h, seqs) /\ h \in [1..Len(seqs) -> Seq(T)]
  BY FlatExists
<1>2. Len(seqs) # 0
  OBVIOUS
<1>3. PICK g : FlattenSeq(seqs) = g[Len(seqs)] /\ Flattens(g, seqs)
  BY <1>1, <1>2, FlatIs
<1>4. g = h
  BY <1>1, <1>3, FlatOnce
<1> QED
  BY <1>1, <1>3, <1>4

LEMMA FlatEmpty == FlattenSeq(<<>>) = <<>>
  BY DEF FlattenSeq

LEMMA FlatType ==
    ASSUME NEW T, NEW seqs \in Seq(Seq(T))
    PROVE  FlattenSeq(seqs) \in Seq(T)
<1>1. CASE seqs = <<>>
  <2>1. <<>> \in Seq(T)
    OBVIOUS
  <2> QED
    BY <1>1, <2>1, FlatEmpty
<1>2. CASE seqs # <<>>
  <2>1. PICK g \in [1..Len(seqs) -> Seq(T)] : FlattenSeq(seqs) = g[Len(seqs)]
    BY <1>2, FlatFunction
  <2>2. Len(seqs) \in 1..Len(seqs)
    BY <1>2
  <2> QED
    BY <2>1, <2>2
<1> QED
  BY <1>1, <1>2

\* One more sequence goes behind the others.
LEMMA FlatAppend ==
    ASSUME NEW T, NEW seqs \in Seq(Seq(T)), NEW s \in Seq(T)
    PROVE  FlattenSeq(Append(seqs, s)) = FlattenSeq(seqs) \o s
<1> DEFINE more == Append(seqs, s)
<1>1. more \in Seq(Seq(T)) /\ more # <<>> /\ Len(more) = Len(seqs) + 1 /\ Len(seqs) \in Nat
      /\ more[Len(seqs) + 1] = s /\ \A i \in 1..Len(seqs) : more[i] = seqs[i]
  <2> DEFINE S == Seq(T)
  <2>1. seqs \in Seq(S) /\ s \in S
    OBVIOUS
  <2> HIDE DEF S
  <2>2. more \in Seq(S) /\ more # <<>> /\ Len(more) = Len(seqs) + 1 /\ Len(seqs) \in Nat
        /\ more[Len(seqs) + 1] = s /\ \A i \in 1..Len(seqs) : more[i] = seqs[i]
    BY <2>1
  <2> QED
    BY <2>2 DEF S
<1> HIDE DEF more
<1>2. PICK g \in [1..Len(more) -> Seq(T)] : Flattens(g, more) /\ FlattenSeq(more) = g[Len(more)]
  BY <1>1, FlatFunction
<1>3. CASE seqs = <<>>
  <2>1. Len(more) = 1 /\ g[1] = s
    BY <1>1, <1>2, <1>3 DEF Flattens
  <2>2. <<>> \o s = s
    OBVIOUS
  <2> QED
    BY <1>2, <1>3, <2>1, <2>2, FlatEmpty DEF more
<1>4. CASE seqs # <<>>
  <2>1. PICK h \in [1..Len(seqs) -> Seq(T)] : Flattens(h, seqs) /\ FlattenSeq(seqs) = h[Len(seqs)]
    BY <1>4, FlatFunction
  <2> DEFINE k == [i \in 1..Len(seqs) |-> g[i]]
  <2>0. \A i \in 1..Len(more) : g[i] = IF i = 1 THEN more[i] ELSE g[i - 1] \o more[i]
    BY <1>2 DEF Flattens
  <2>2. Flattens(k, seqs)
    <3>1. ASSUME NEW i \in 1..Len(seqs)
          PROVE  k[i] = IF i = 1 THEN seqs[i] ELSE k[i - 1] \o seqs[i]
      <4>1. i \in 1..Len(more) /\ k[i] = g[i] /\ (i # 1 => k[i - 1] = g[i - 1])
        BY <1>1
      <4> HIDE DEF k
      <4> QED
        BY <1>1, <2>0, <4>1
    <3>2. k = [i \in 1..Len(seqs) |-> k[i]]
      OBVIOUS
    <3> HIDE DEF k
    <3> QED
      BY <3>1, <3>2 DEF Flattens
  <2>3. k = h
    BY <2>1, <2>2, FlatOnce
  <2>4. Len(seqs) \in 1..Len(seqs)
    BY <1>4
  <2>5. g[Len(more)] = g[Len(seqs)] \o s
    <3>1. Len(more) \in 1..Len(more) /\ Len(more) # 1 /\ Len(more) - 1 = Len(seqs)
      BY <1>1, <2>4
    <3> QED
      BY <1>1, <2>0, <3>1
  <2> QED
    BY <1>2, <2>1, <2>3, <2>4, <2>5 DEF more
<1> QED
  BY <1>3, <1>4

\* The first element more of a sequence.
LEMMA OneMore ==
    ASSUME NEW S, NEW b \in Seq(S), NEW n \in Nat, n + 1 <= Len(b)
    PROVE  /\ SubSeq(b, 1, n) \in Seq(S) /\ b[n + 1] \in S
           /\ SubSeq(b, 1, n + 1) = Append(SubSeq(b, 1, n), b[n + 1])
<1>1. Len(b) \in Nat /\ n + 1 \in 1..Len(b)
  OBVIOUS
<1>2. b[n + 1] \in S /\ SubSeq(b, 1, n) \in Seq(S) /\ SubSeq(b, 1, n + 1) \in Seq(S)
  BY <1>1
<1>3. Len(SubSeq(b, 1, n)) = n /\ Len(SubSeq(b, 1, n + 1)) = n + 1
  BY <1>1
<1>4. \A i \in 1..(n + 1) : SubSeq(b, 1, n + 1)[i] = Append(SubSeq(b, 1, n), b[n + 1])[i]
  BY <1>1, <1>2, <1>3
<1> QED
  BY <1>2, <1>3, <1>4

LEMMA CatAppend ==
    ASSUME NEW S, NEW a \in Seq(S), NEW c \in Seq(S), NEW e \in S
    PROVE  a \o c \in Seq(S) /\ a \o Append(c, e) = Append(a \o c, e)
  OBVIOUS

LEMMA SubSeqAll == ASSUME NEW S, NEW b \in Seq(S) PROVE SubSeq(b, 1, Len(b)) = b
  OBVIOUS

\* What is flattened in two parts.
LEMMA FlatCat ==
    ASSUME NEW T, NEW a \in Seq(Seq(T)), NEW b \in Seq(Seq(T))
    PROVE  FlattenSeq(a \o b) = FlattenSeq(a) \o FlattenSeq(b)
<1> DEFINE S == Seq(T)
           Start(n) == SubSeq(b, 1, n)
           P == {n \in Nat : n <= Len(b) => FlattenSeq(a \o Start(n)) = FlattenSeq(a) \o FlattenSeq(Start(n))}
<1>1. a \in Seq(S) /\ b \in Seq(S) /\ Len(b) \in Nat
  OBVIOUS
<1>2. FlattenSeq(a) \in Seq(T)
  BY FlatType
<1>3. 0 \in P
  <2>1. Start(0) = <<>> /\ a \o Start(0) = a
    OBVIOUS
  <2>2. FlattenSeq(a) \o <<>> = FlattenSeq(a)
    BY <1>2
  <2> QED
    BY <2>1, <2>2, FlatEmpty
<1>4. ASSUME NEW n \in P PROVE n + 1 \in P
  <2>1. n \in Nat /\ n + 1 \in Nat
    OBVIOUS
  <2>2. ASSUME n + 1 <= Len(b)
        PROVE  FlattenSeq(a \o Start(n + 1)) = FlattenSeq(a) \o FlattenSeq(Start(n + 1))
    <3> DEFINE last == b[n + 1]
    <3>1. Start(n) \in Seq(S) /\ last \in S /\ Start(n + 1) = Append(Start(n), last)
      <4> HIDE DEF S
      <4> QED
        BY <1>1, <2>1, <2>2, OneMore
    <3>2. FlattenSeq(a \o Start(n)) = FlattenSeq(a) \o FlattenSeq(Start(n))
      BY <1>1, <2>1, <2>2
    <3> HIDE DEF last, Start
    <3>3. a \o Start(n + 1) = Append(a \o Start(n), last) /\ a \o Start(n) \in Seq(S)
      <4>1. PICK x, y : x = Start(n) /\ y = Start(n + 1)
        OBVIOUS
      <4> HIDE DEF S, P
      <4>2. x \in Seq(S) /\ last \in S /\ y = Append(x, last)
        BY <3>1, <4>1
      <4>3. a \o y = Append(a \o x, last) /\ a \o x \in Seq(S)
        BY <1>1, <4>2, CatAppend
      <4> QED
        BY <4>1, <4>3
    <3>4. FlattenSeq(a \o Start(n + 1)) = FlattenSeq(a \o Start(n)) \o last
      BY <3>1, <3>3, FlatAppend
    <3>5. FlattenSeq(Start(n + 1)) = FlattenSeq(Start(n)) \o last
      BY <3>1, FlatAppend
    <3>6. FlattenSeq(Start(n)) \in Seq(T) /\ last \in Seq(T)
      BY <3>1, FlatType
    <3>7. (FlattenSeq(a) \o FlattenSeq(Start(n))) \o last = FlattenSeq(a) \o (FlattenSeq(Start(n)) \o last)
      BY <1>2, <3>6
    <3> QED
      BY <3>2, <3>4, <3>5, <3>7
  <2> QED
    BY <2>1, <2>2
<1>5. P = Nat
  <2>1. P \subseteq Nat
    OBVIOUS
  <2> HIDE DEF P
  <2> QED
    BY <1>3, <1>4, <2>1, Inductive
<1>6. Len(b) \in P
  BY <1>1, <1>5
<1>7. FlattenSeq(a \o Start(Len(b))) = FlattenSeq(a) \o FlattenSeq(Start(Len(b)))
  BY <1>1, <1>6
<1>8. Start(Len(b)) = b
  <2> HIDE DEF S
  <2> QED
    BY <1>1, SubSeqAll
<1> QED
  BY <1>7, <1>8

\* Flattening what has no elements, and what has one each.
LEMMA FlatNone ==
    ASSUME NEW T, NEW seqs \in Seq(Seq(T)), \A i \in 1..Len(seqs) : seqs[i] = <<>>
    PROVE  FlattenSeq(seqs) = <<>>
<1>1. CASE seqs = <<>>
  BY <1>1, FlatEmpty
<1>2. CASE seqs # <<>>
  <2> DEFINE g == [i \in 1..Len(seqs) |-> <<>>]
  <2>1. PICK h : Flattens(h, seqs) /\ FlattenSeq(seqs) = h[Len(seqs)]
    BY <1>2, FlatFunction
  <2>2. <<>> \o <<>> = <<>>
    OBVIOUS
  <2>3. Flattens(g, seqs)
    <3>1. ASSUME NEW i \in 1..Len(seqs) PROVE g[i] = IF i = 1 THEN seqs[i] ELSE g[i - 1] \o seqs[i]
      <4>1. g[i] = <<>> /\ seqs[i] = <<>> /\ (i # 1 => g[i - 1] = <<>>)
        OBVIOUS
      <4> HIDE DEF g
      <4> QED
        BY <2>2, <4>1
    <3> QED
      BY <3>1 DEF Flattens
  <2>4. g = h
    <3> HIDE DEF g
    <3> QED
      BY <2>1, <2>3, FlatOnce
  <2>5. Len(seqs) \in 1..Len(seqs)
    BY <1>2
  <2> QED
    BY <2>1, <2>4, <2>5
<1> QED
  BY <1>1, <1>2

LEMMA FlatSingles ==
    ASSUME NEW T, NEW s \in Seq(T)
    PROVE  FlattenSeq([i \in DOMAIN s |-> <<s[i]>>]) = s
<1> DEFINE seqs == [i \in DOMAIN s |-> <<s[i]>>]
           P == {n \in Nat : n <= Len(s) => FlattenSeq(SubSeq(seqs, 1, n)) = SubSeq(s, 1, n)}
           S == Seq(T)
<1>1. seqs \in Seq(S) /\ Len(seqs) = Len(s) /\ Len(s) \in Nat /\ \A i \in 1..Len(s) : seqs[i] = <<s[i]>>
  <2>1. DOMAIN s = 1..Len(s) /\ Len(s) \in Nat
    OBVIOUS
  <2>2. \A i \in 1..Len(s) : <<s[i]>> \in S
    OBVIOUS
  <2> HIDE DEF S
  <2>3. seqs \in [1..Len(s) -> S]
    BY <2>1, <2>2
  <2>4. \A i \in 1..Len(s) : seqs[i] = <<s[i]>>
    BY <2>1
  <2> HIDE DEF seqs
  <2>5. seqs \in Seq(S) /\ Len(seqs) = Len(s)
    BY <2>1, <2>3
  <2> QED
    BY <2>1, <2>4, <2>5
<1> HIDE DEF seqs
<1>2. 0 \in P
  <2>1. SubSeq(seqs, 1, 0) = <<>> /\ SubSeq(s, 1, 0) = <<>>
    BY <1>1
  <2> QED
    BY <2>1, FlatEmpty
<1>3. ASSUME NEW n \in P PROVE n + 1 \in P
  <2>1. n \in Nat /\ n + 1 \in Nat
    OBVIOUS
  <2>2. ASSUME n + 1 <= Len(s) PROVE FlattenSeq(SubSeq(seqs, 1, n + 1)) = SubSeq(s, 1, n + 1)
    <3>1. FlattenSeq(SubSeq(seqs, 1, n)) = SubSeq(s, 1, n)
      BY <1>1, <2>1, <2>2
    <3>2. SubSeq(s, 1, n + 1) = Append(SubSeq(s, 1, n), s[n + 1]) /\ SubSeq(s, 1, n) \in Seq(T) /\ s[n + 1] \in T
      BY <2>1, <2>2, OneMore
    <3>3. SubSeq(seqs, 1, n + 1) = Append(SubSeq(seqs, 1, n), seqs[n + 1]) /\ SubSeq(seqs, 1, n) \in Seq(S)
      <4> HIDE DEF S
      <4> QED
        BY <1>1, <2>1, <2>2, OneMore
    <3>4. seqs[n + 1] = <<s[n + 1]>> /\ seqs[n + 1] \in Seq(T)
      BY <1>1, <2>1, <2>2, <3>2
    <3>5. FlattenSeq(SubSeq(seqs, 1, n + 1)) = FlattenSeq(SubSeq(seqs, 1, n)) \o seqs[n + 1]
      BY <3>3, <3>4, FlatAppend
    <3>6. SubSeq(s, 1, n) \o <<s[n + 1]>> = Append(SubSeq(s, 1, n), s[n + 1])
      BY <3>2
    <3> QED
      BY <3>1, <3>2, <3>4, <3>5, <3>6
  <2> QED
    BY <2>1, <2>2
<1>4. P = Nat
  <2>1. P \subseteq Nat
    OBVIOUS
  <2> HIDE DEF P
  <2> QED
    BY <1>2, <1>3, <2>1, Inductive
<1>5. Len(s) \in P
  BY <1>1, <1>4
<1>6. FlattenSeq(SubSeq(seqs, 1, Len(s))) = SubSeq(s, 1, Len(s))
  BY <1>1, <1>5
<1>7. SubSeq(seqs, 1, Len(s)) = seqs
  <2> HIDE DEF S
  <2> QED
    BY <1>1, SubSeqAll
<1> QED
  BY <1>6, <1>7, SubSeqAll DEF seqs
=============================================================================
