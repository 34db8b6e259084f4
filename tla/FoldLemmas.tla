----------------------------- MODULE FoldLemmas -----------------------------
(***************************************************************************)
(* What FoldLeft computes: the equations of the recursive function it is   *)
(* defined by, and what follows from them by induction.  The operator that *)
(* is folded is a parameter: a module with a fold of its own takes the     *)
(* lemmas by INSTANCE, with that operator for Op.  INSTANCE takes along    *)
(* what a module extends, so this one extends no more than it needs: it    *)
(* has induction of its own, and spells FoldLeft out.                      *)
(***************************************************************************)
EXTENDS Integers, Sequences, Folds, SequenceTheorems, WellFoundedInduction, TLAPS

CONSTANT Op(_, _)

\* The last of a set of places.
Last(S) == CHOOSE x \in S : \A y \in S : x >= y

\* FoldLeft(Op, base, q)
Fold(base, q) ==
    MapThenFoldSet(LAMBDA x, y : Op(y, x), base, LAMBDA i : q[i], Last, DOMAIN q)

-----------------------------------------------------------------------------
(* Induction.                                                              *)

\* What holds of 0, and of n + 1 when of n, holds of every natural number.
LEMMA NatInductionInSet ==
    ASSUME NEW T, 0 \in T, \A n \in Nat : n \in T => n + 1 \in T
    PROVE  Nat \subseteq T
<1> DEFINE Bad == Nat \ T
           Less == OpToRel(<, Nat)
<1> SUFFICES ASSUME Bad # {} PROVE FALSE
  OBVIOUS
<1>1. PICK x \in Bad : \A y \in Bad : << y, x >> \notin Less
  <2>1. IsWellFoundedOn(Less, Nat)
    BY NatLessThanWellFounded
  <2>2. Bad \subseteq Nat
    OBVIOUS
  <2> HIDE DEF Bad, Less
  <2> QED
    BY <2>1, <2>2, WFMin
<1>2. x \in Nat /\ x - 1 \in Nat /\ x = (x - 1) + 1
  OBVIOUS
<1>3. x - 1 \in Bad
  BY <1>2
<1>4. << x - 1, x >> \in Less
  BY <1>2 DEF OpToRel
<1> QED
  BY <1>1, <1>3, <1>4

-----------------------------------------------------------------------------
(* The recursive function behind a fold, on the sets of the first places.  *)

Iterates(g, base, q, n) ==
    g = [s \in SUBSET (1..n) |-> IF s = { } THEN base ELSE Op(g[s \ { Last(s) }], q[Last(s)])]

\* A set of places has a last one.
LEMMA LastPlace ==
    ASSUME NEW n \in Nat, NEW s \in SUBSET (1..n), s # { }
    PROVE  Last(s) \in s /\ \A i \in s : i <= Last(s)
<1> DEFINE T == { m \in Nat : \A t \in SUBSET (1..m) :
                                 t # { } => \E x \in t : \A y \in t : x >= y }
<1>1. 0 \in T
  <2>1. \A t \in SUBSET (1..0) : t = { }
    OBVIOUS
  <2> QED
    BY <2>1
<1>2. ASSUME NEW m \in Nat, m \in T PROVE m + 1 \in T
  <2> SUFFICES ASSUME NEW t \in SUBSET (1..(m + 1)), t # { }
               PROVE  \E x \in t : \A y \in t : x >= y
    OBVIOUS
  <2>1. CASE m + 1 \in t
    BY <2>1
  <2>2. CASE m + 1 \notin t
    <3>1. t \in SUBSET (1..m)
      BY <2>2
    <3> QED
      BY <1>2, <3>1
  <2> QED
    BY <2>1, <2>2
<1>3. Nat \subseteq T
  <2> HIDE DEF T
  <2> QED
    BY <1>1, <1>2, NatInductionInSet
<1>4. \E x \in s : \A y \in s : x >= y
  BY <1>3
<1>5. Last(s) \in s /\ \A y \in s : Last(s) >= y
  BY <1>4 DEF Last
<1>6. \A i \in s : i \in Int
  OBVIOUS
<1> QED
  BY <1>5, <1>6

\* There is such a function.
LEMMA IterateExists ==
    ASSUME NEW base, NEW q, NEW n \in Nat
    PROVE  \E g : Iterates(g, base, q, n)
<1> DEFINE T == { m \in Nat : \E g : Iterates(g, base, q, m) }
<1>1. 0 \in T
  <2> DEFINE g == [s \in SUBSET (1..0) |-> base]
  <2>1. Iterates(g, base, q, 0)
    <3>1. \A s \in SUBSET (1..0) : s = { }
      OBVIOUS
    <3> QED
      BY <3>1 DEF Iterates
  <2> HIDE DEF g
  <2> QED
    BY <2>1
<1>2. ASSUME NEW m \in Nat, m \in T PROVE m + 1 \in T
  <2>1. PICK g : Iterates(g, base, q, m)
    BY <1>2
  <2> DEFINE M == SUBSET (1..(m + 1))
             h == [s \in M |-> IF m + 1 \in s THEN Op(g[s \ { m + 1 }], q[m + 1]) ELSE g[s]]
             k == [s \in M |-> IF s = { } THEN base ELSE Op(h[s \ { Last(s) }], q[Last(s)])]
  <2>2. ASSUME NEW s \in M PROVE h[s] = k[s]
    <3>1. CASE s = { }
      BY <2>1, <3>1 DEF Iterates
    <3>2. CASE m + 1 \in s
      <4>1. Last(s) = m + 1
        <5>1. m + 1 \in Nat /\ s \in SUBSET (1..(m + 1)) /\ s # { }
          BY <3>2
        <5>2. Last(s) \in s /\ \A i \in s : i <= Last(s)
          BY <5>1, LastPlace
        <5>3. Last(s) \in 1..(m + 1) /\ m + 1 <= Last(s)
          BY <3>2, <5>1, <5>2
        <5> HIDE DEF h, k
        <5> QED
          BY <5>3
      <4>2. s \ { m + 1 } \in M /\ m + 1 \notin s \ { m + 1 }
        OBVIOUS
      <4>3. h[s \ { m + 1 }] = g[s \ { m + 1 }]
        BY <4>2
      <4>4. h[s] = Op(g[s \ { m + 1 }], q[m + 1])
        BY <3>2
      <4>5. k[s] = Op(h[s \ { Last(s) }], q[Last(s)])
        BY <3>2
      <4> HIDE DEF h, k
      <4> QED
        BY <4>1, <4>3, <4>4, <4>5
    <3>3. CASE s # { } /\ m + 1 \notin s
      <4>1. s \in SUBSET (1..m) /\ m + 1 \notin s \ { Last(s) } /\ s \ { Last(s) } \in M
        <5>1. \A i \in 1..(m + 1) : i # m + 1 => i \in 1..m
          OBVIOUS
        <5>2. s \subseteq 1..m
          BY <3>3, <5>1
        <5> QED
          BY <3>3, <5>2
      <4>2. h[s] = g[s] /\ h[s \ { Last(s) }] = g[s \ { Last(s) }]
        BY <3>3, <4>1
      <4>3. g[s] = Op(g[s \ { Last(s) }], q[Last(s)])
        <5>1. g = [t \in SUBSET (1..m) |->
                      IF t = { } THEN base ELSE Op(g[t \ { Last(t) }], q[Last(t)])]
          BY <2>1 DEF Iterates
        <5> QED
          BY <3>3, <4>1, <5>1
      <4>4. k[s] = Op(h[s \ { Last(s) }], q[Last(s)])
        BY <3>3
      <4> HIDE DEF h, k
      <4> QED
        BY <4>2, <4>3, <4>4
    <3> QED
      BY <3>1, <3>2, <3>3
  <2>3. h = k
    <3>1. /\ h = [s \in M |-> h[s]]
          /\ k = [s \in M |-> k[s]]
      OBVIOUS
    <3> HIDE DEF h, k
    <3> QED
      BY <2>2, <3>1
  <2>4. Iterates(h, base, q, m + 1)
    <3>1. h = [s \in M |-> IF s = { } THEN base ELSE Op(h[s \ { Last(s) }], q[Last(s)])]
      <4> HIDE DEF h
      <4> QED
        BY <2>3 DEF k
    <3> HIDE DEF h
    <3> QED
      BY <3>1 DEF Iterates
  <2> HIDE DEF h
  <2> QED
    BY <2>4
<1>3. Nat \subseteq T
  <2> HIDE DEF T
  <2> QED
    BY <1>1, <1>2, NatInductionInSet
<1> QED
  BY <1>3

\* And only one: it depends on the elements it has gone over alone.
LEMMA IterateUnique ==
    ASSUME NEW base, NEW q, NEW r, NEW n \in Nat, NEW m \in Nat,
           NEW g, Iterates(g, base, q, n), NEW h, Iterates(h, base, r, m),
           NEW k \in Nat, k <= n, k <= m, \A i \in 1..k : q[i] = r[i]
    PROVE  g[1..k] = h[1..k]
<1> DEFINE T == { j \in Nat : j <= k => g[1..j] = h[1..j] }
<1>0. /\ g = [s \in SUBSET (1..n) |-> IF s = { } THEN base ELSE Op(g[s \ { Last(s) }], q[Last(s)])]
      /\ h = [s \in SUBSET (1..m) |-> IF s = { } THEN base ELSE Op(h[s \ { Last(s) }], r[Last(s)])]
  BY DEF Iterates
<1>1. 0 \in T
  <2>1. 1..0 = { } /\ { } \in SUBSET (1..n) /\ { } \in SUBSET (1..m)
    OBVIOUS
  <2>2. g[{ }] = base /\ h[{ }] = base
    BY <1>0, <2>1
  <2> QED
    BY <2>1, <2>2
<1>2. ASSUME NEW j \in Nat, j \in T PROVE j + 1 \in T
  <2> SUFFICES ASSUME j + 1 <= k PROVE g[1..(j + 1)] = h[1..(j + 1)]
    OBVIOUS
  <2> DEFINE s == 1..(j + 1)
  <2>1. /\ s \in SUBSET (1..n) /\ s \in SUBSET (1..m) /\ s # { }
        /\ j + 1 \in s /\ s \ { j + 1 } = 1..j
    <3>1. \A i \in s : i \in 1..n /\ i \in 1..m
      OBVIOUS
    <3>2. j + 1 \in s
      OBVIOUS
    <3>3. s \ { j + 1 } = 1..j
      OBVIOUS
    <3> QED
      BY <3>1, <3>2, <3>3
  <2>2. Last(s) = j + 1
    <3>1. Last(s) \in s /\ \A i \in s : i <= Last(s)
      BY <2>1, LastPlace
    <3> QED
      BY <2>1, <3>1
  <2>3. /\ g[s] = Op(g[s \ { Last(s) }], q[Last(s)])
        /\ h[s] = Op(h[s \ { Last(s) }], r[Last(s)])
    <3> HIDE DEF s
    <3> QED
      BY <1>0, <2>1
  <2>4. g[1..j] = h[1..j] /\ q[j + 1] = r[j + 1]
    BY <1>2
  <2> HIDE DEF s
  <2>5. g[s] = h[s]
    BY <2>1, <2>2, <2>3, <2>4
  <2> QED
    BY <2>5 DEF s
<1>3. Nat \subseteq T
  <2> HIDE DEF T
  <2> QED
    BY <1>1, <1>2, NatInductionInSet
<1> QED
  BY <1>3

\* A fold is the value of that function at all places.
LEMMA FoldIsIterate ==
    ASSUME NEW S, NEW q \in Seq(S), NEW base
    PROVE  \E g : Iterates(g, base, q, Len(q)) /\ Fold(base, q) = g[1..Len(q)]
<1> DEFINE g == CHOOSE g : Iterates(g, base, q, Len(q))
<1>1. Len(q) \in Nat /\ DOMAIN q = 1..Len(q)
  BY LenProperties
<1>2. Iterates(g, base, q, Len(q))
  BY <1>1, IterateExists
<1>3. Fold(base, q) = g[1..Len(q)]
  BY <1>1 DEF Fold, MapThenFoldSet, Iterates
<1> HIDE DEF g
<1> QED
  BY <1>2, <1>3

-----------------------------------------------------------------------------
(* The equations of a fold.                                                *)

\* Over nothing.
LEMMA FoldEmpty ==
    ASSUME NEW base
    PROVE  Fold(base, << >>) = base
<1>1. << >> \in Seq({ }) /\ Len(<< >>) = 0 /\ 1..0 = { }
  BY EmptySeq
<1>2. PICK g : Iterates(g, base, << >>, 0) /\ Fold(base, << >>) = g[{ }]
  BY <1>1, FoldIsIterate
<1>3. { } \in SUBSET (1..0)
  OBVIOUS
<1> QED
  BY <1>2, <1>3 DEF Iterates

\* Over one more element.
LEMMA FoldAppend ==
    ASSUME NEW S, NEW q \in Seq(S), NEW x \in S, NEW base
    PROVE  Fold(base, Append(q, x)) = Op(Fold(base, q), x)
<1> DEFINE n == Len(q)
           r == Append(q, x)
           s == 1..(n + 1)
<1>1. /\ n \in Nat /\ r \in Seq(S) /\ Len(r) = n + 1
      /\ \A i \in 1..n : r[i] = q[i]
      /\ r[n + 1] = x
  BY LenProperties, AppendProperties
<1>2. PICK g : Iterates(g, base, q, n) /\ Fold(base, q) = g[1..n]
  BY FoldIsIterate
<1> HIDE DEF r
<1>3. PICK h : Iterates(h, base, r, n + 1) /\ Fold(base, r) = h[s]
  BY <1>1, FoldIsIterate
<1> HIDE DEF n
<1>4. g[1..n] = h[1..n]
  BY <1>1, <1>2, <1>3, IterateUnique
<1>5. s \in SUBSET (1..(n + 1)) /\ s # { } /\ n + 1 \in s /\ s \ { n + 1 } = 1..n
  BY <1>1
<1>6. Last(s) = n + 1
  <2>1. Last(s) \in s /\ \A i \in s : i <= Last(s)
    <3>1. n + 1 \in Nat
      BY <1>1
    <3> HIDE DEF s
    <3> QED
      BY <1>5, <3>1, LastPlace
  <2> QED
    BY <1>1, <1>5, <2>1
<1>7. h[s] = Op(h[s \ { Last(s) }], r[Last(s)])
  <2>1. h = [t \in SUBSET (1..(n + 1)) |->
                IF t = { } THEN base ELSE Op(h[t \ { Last(t) }], r[Last(t)])]
    BY <1>3 DEF Iterates
  <2> HIDE DEF s
  <2> QED
    BY <1>5, <2>1
<1> HIDE DEF s
<1> QED
  BY <1>1, <1>2, <1>3, <1>4, <1>5, <1>6, <1>7 DEF r

\* Over one element.
LEMMA FoldOne ==
    ASSUME NEW base, NEW x
    PROVE  Fold(base, << x >>) = Op(base, x)
<1>1. << >> \in Seq({ x }) /\ x \in { x }
  BY EmptySeq
<1>2. Fold(base, Append(<< >>, x)) = Op(Fold(base, << >>), x)
  BY <1>1, FoldAppend
<1>3. Append(<< >>, x) = << x >>
  <2>1. Append(<< >>, x) = << >> \o << x >>
    BY <1>1, AppendIsConcat
  <2>2. << x >> \in Seq({ x })
    OBVIOUS
  <2> QED
    BY <2>1, <2>2, ConcatEmptySeq
<1> QED
  BY <1>2, <1>3, FoldEmpty

\* What every element keeps, the fold keeps.
LEMMA FoldType ==
    ASSUME NEW A, NEW S, \A a \in A, x \in S : Op(a, x) \in A,
           NEW base \in A, NEW q \in Seq(S)
    PROVE  Fold(base, q) \in A
<1> DEFINE T == { n \in Nat : \A p \in Seq(S) : Len(p) = n => Fold(base, p) \in A }
<1>1. 0 \in T
  BY EmptySeq, FoldEmpty
<1>2. ASSUME NEW n \in Nat, n \in T PROVE n + 1 \in T
  <2>1. ASSUME NEW r \in Seq(S), Len(r) = n + 1 PROVE Fold(base, r) \in A
    <3>1. PICK p \in Seq(S), x \in S : r = Append(p, x)
      BY <2>1, EmptySeq, SequenceEmptyOrAppend
    <3>2. Len(p) = n
      BY <2>1, <3>1, AppendProperties, LenProperties
    <3>3. Fold(base, Append(p, x)) = Op(Fold(base, p), x)
      BY FoldAppend
    <3>4. Fold(base, p) \in A
      BY <1>2, <3>2
    <3> QED
      BY <3>1, <3>3, <3>4
  <2> QED
    BY <2>1
<1>3. Nat \subseteq T
  <2> HIDE DEF T
  <2> QED
    BY <1>1, <1>2, NatInductionInSet
<1> QED
  BY <1>3, LenProperties

\* Over two sequences, one after the other.
LEMMA FoldConcat ==
    ASSUME NEW S, NEW a \in Seq(S), NEW b \in Seq(S), NEW base
    PROVE  Fold(base, a \o b) = Fold(Fold(base, a), b)
<1> DEFINE Joined(p) == a \o p
           T == { n \in Nat : \A p \in Seq(S) : Len(p) = n =>
                                Fold(base, Joined(p)) = Fold(Fold(base, a), p) }
<1>1. 0 \in T
  <2>1. Joined(<< >>) = a
    BY ConcatEmptySeq
  <2> HIDE DEF Joined
  <2> QED
    BY <2>1, EmptySeq, FoldEmpty
<1>2. ASSUME NEW n \in Nat, n \in T PROVE n + 1 \in T
  <2>1. ASSUME NEW r \in Seq(S), Len(r) = n + 1
        PROVE  Fold(base, Joined(r)) = Fold(Fold(base, a), r)
    <3>1. PICK p \in Seq(S), x \in S : r = Append(p, x)
      <4> HIDE DEF Joined, T
      <4>1. r # << >>
        BY <2>1, EmptySeq
      <4> QED
        BY <4>1, SequenceEmptyOrAppend
    <3>2. Len(p) = n
      BY <2>1, <3>1, AppendProperties, LenProperties
    <3>3. Joined(p) \in Seq(S) /\ Joined(Append(p, x)) = Append(Joined(p), x)
      <4> DEFINE e == << x >>
      <4>1. e \in Seq(S)
        OBVIOUS
      <4>2. Joined(p) \in Seq(S)
        BY ConcatProperties
      <4>3. Append(p, x) = p \o e /\ Append(Joined(p), x) = Joined(p) \o e
        <5> HIDE DEF Joined
        <5> QED
          BY <4>2, AppendIsConcat
      <4> HIDE DEF e
      <4>4. (a \o p) \o e = a \o (p \o e)
        BY <4>1, ConcatAssociative
      <4>5. Joined(Append(p, x)) = (a \o p) \o e
        BY <4>3, <4>4, Zenon
      <4> QED
        BY <4>2, <4>3, <4>5, Zenon
    <3> HIDE DEF Joined
    <3>4. Fold(base, Append(Joined(p), x)) = Op(Fold(base, Joined(p)), x)
      BY <3>3, FoldAppend
    <3>5. Fold(Fold(base, a), Append(p, x)) = Op(Fold(Fold(base, a), p), x)
      BY FoldAppend
    <3>6. Fold(base, Joined(p)) = Fold(Fold(base, a), p)
      BY <1>2, <3>2
    <3> QED
      BY <3>1, <3>3, <3>4, <3>5, <3>6
  <2> QED
    BY <2>1
<1>3. Nat \subseteq T
  <2> HIDE DEF T
  <2> QED
    BY <1>1, <1>2, NatInductionInSet
<1>4. Fold(base, Joined(b)) = Fold(Fold(base, a), b)
  <2> HIDE DEF Joined
  <2> QED
    BY <1>3, LenProperties
<1> QED
  BY <1>4, Zenon DEF Joined
=============================================================================
