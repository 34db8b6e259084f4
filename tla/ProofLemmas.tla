---------------------------- MODULE ProofLemmas ----------------------------
(***************************************************************************)
(* Facts about induction, division, and cutting and joining sequences that *)
(* the proofs of several modules rest on.                                  *)
(***************************************************************************)
EXTENDS Integers, Sequences, SequencesExt, SequenceTheorems, WellFoundedInduction, TLAPS

-----------------------------------------------------------------------------
(* Induction, stated of the set of what has the property: an induction     *)
(* theorem about an operator cannot be instantiated by the provers.        *)

\* What holds of 0, and of n + 1 when of n, holds of every natural number.
LEMMA NatInductionInSet ==
    ASSUME NEW T, 0 \in T, \A n \in Nat : n \in T => n + 1 \in T
    PROVE  Nat \subseteq T
<1> DEFINE Bad == Nat \ T
           Less == OpToRel(<, Nat)
<1> SUFFICES ASSUME Bad # {} PROVE FALSE
  OBVIOUS
<1>1. PICK x \in Bad : \A y \in Bad : << y, x >> \notin Less
  <2>1. IsWellFoundedOn(Less, Nat)
    BY NatLessThanWellFounded
  <2>2. Bad \subseteq Nat
    OBVIOUS
  <2> HIDE DEF Bad, Less
  <2> QED
    BY <2>1, <2>2, WFMin
<1>2. x \in Nat /\ x - 1 \in Nat /\ x = (x - 1) + 1
  OBVIOUS
<1>3. x - 1 \in Bad
  BY <1>2
<1>4. << x - 1, x >> \in Less
  BY <1>2 DEF OpToRel
<1> QED
  BY <1>1, <1>3, <1>4

\* What holds of the empty sequence, and of every sequence to which an element is appended
\* when it held before, holds of every sequence.
LEMMA SeqInductionInSet ==
    ASSUME NEW S, NEW T, << >> \in T,
           \A q \in Seq(S), x \in S : q \in T => Append(q, x) \in T
    PROVE  Seq(S) \subseteq T
<1> DEFINE Lengths == { n \in Nat : \A q \in Seq(S) : Len(q) = n => q \in T }
<1>1. 0 \in Lengths
  BY EmptySeq
<1>2. ASSUME NEW n \in Nat, n \in Lengths PROVE n + 1 \in Lengths
  <2>1. ASSUME NEW q \in Seq(S), Len(q) = n + 1 PROVE q \in T
    <3>1. q # << >>
      BY <2>1, EmptySeq
    <3>2. PICK p \in Seq(S), x \in S : q = Append(p, x)
      BY <3>1, SequenceEmptyOrAppend
    <3>3. Len(p) = n
      BY <2>1, <3>2, AppendProperties, LenProperties
    <3>4. p \in T
      BY <1>2, <3>3
    <3> QED
      BY <3>2, <3>4
  <2> QED
    BY <2>1
<1>3. Nat \subseteq Lengths
  <2> HIDE DEF Lengths
  <2> QED
    BY <1>1, <1>2, NatInductionInSet
<1>4. ASSUME NEW q \in Seq(S) PROVE q \in T
  <2>1. Len(q) \in Lengths
    BY <1>3, LenProperties
  <2> QED
    BY <2>1
<1> QED
  BY <1>4

\* A set of numbers has a least one.
LEMMA LeastOf ==
    ASSUME NEW S, S \subseteq Nat, S # {}
    PROVE  \E i \in S : \A j \in S : i <= j
<1> DEFINE R == { p \in Nat \X Nat : p[1] < p[2] }
<1>1. IsWellFoundedOn(R, Nat)
  BY NatLessThanWellFounded DEF OpToRel
<1>2. \A a, b \in Nat : a < b => << a, b >> \in R
  OBVIOUS
<1> HIDE DEF R
<1>3. PICK i \in S : \A j \in S : ~ (<< j, i >> \in R)
  BY <1>1, WFMin
<1>4. ASSUME NEW j \in S PROVE i <= j
  <2>1. i \in Nat /\ j \in Nat /\ ~ (j < i)
    BY <1>2, <1>3
  <2> QED
    BY <2>1
<1> QED
  BY <1>4

-----------------------------------------------------------------------------
(* Remainders.                                                             *)

\* Division with remainder.
LEMMA DivMod ==
    ASSUME NEW d \in Nat \ {0}, NEW n \in Nat
    PROVE  /\ n % d \in 0..(d - 1)
           /\ n \div d \in Nat
           /\ n = d * (n \div d) + (n % d)
OBVIOUS

\* The remainder is the only one there is.
LEMMA ModUnique ==
    ASSUME NEW d \in Nat \ {0}, NEW q \in Nat, NEW r \in 0..(d - 1)
    PROVE  (d * q + r) % d = r
<1> DEFINE n == d * q + r
<1>1. n \in Nat
  OBVIOUS
<1>2. n % d \in 0..(d - 1) /\ n \div d \in Nat /\ n = d * (n \div d) + (n % d)
  BY <1>1, DivMod
<1>3. d * (q - (n \div d)) = (n % d) - r
  BY <1>2
<1>4. q = n \div d
  BY <1>2, <1>3, Z3
<1> QED
  BY <1>2, <1>4

LEMMA ModZero ==
    ASSUME NEW d \in Nat \ {0}, NEW q \in Nat
    PROVE  (d * q) % d = 0
<1>1. (d * q + 0) % d = 0
  BY ModUnique
<1>2. d * q + 0 = d * q
  OBVIOUS
<1> QED
  BY <1>1, <1>2

\* Cutting the remainder off leaves a multiple.
LEMMA ModSub ==
    ASSUME NEW d \in Nat \ {0}, NEW n \in Nat
    PROVE  /\ n - (n % d) \in Nat
           /\ (n - (n % d)) % d = 0
<1>1. n - (n % d) = d * (n \div d) /\ n \div d \in Nat /\ n - (n % d) \in Nat
  BY DivMod
<1>2. (d * (n \div d)) % d = 0
  BY <1>1, ModZero
<1> QED
  BY <1>1, <1>2

\* Adding a multiple does not change the remainder.
LEMMA ModAdd ==
    ASSUME NEW d \in Nat \ {0}, NEW a \in Nat, NEW b \in Nat, b % d = 0
    PROVE  (a + b) % d = a % d
<1>1. a % d \in 0..(d - 1) /\ a \div d \in Nat /\ a = d * (a \div d) + (a % d)
  BY DivMod
<1>2. b \div d \in Nat /\ b = d * (b \div d)
  BY DivMod
<1>3. a + b = d * ((a \div d) + (b \div d)) + (a % d)
  BY <1>1, <1>2
<1>4. (d * ((a \div d) + (b \div d)) + (a % d)) % d = a % d
  <2>1. (a \div d) + (b \div d) \in Nat
    BY <1>1, <1>2
  <2> QED
    BY <1>1, <2>1, ModUnique
<1> QED
  BY <1>3, <1>4

\* A number below the divisor is its own remainder, and the divisor has none.
LEMMA ModSmall ==
    ASSUME NEW d \in Nat \ {0}
    PROVE  /\ d % d = 0
           /\ 0 % d = 0
           /\ \A r \in 0..(d - 1) : r % d = r
<1>1. \A r \in 0..(d - 1) : (d * 0 + r) % d = r
  BY ModUnique
<1>2. \A r \in 0..(d - 1) : d * 0 + r = r
  OBVIOUS
<1>3. (d * 1) % d = 0 /\ d * 1 = d
  BY ModZero
<1>4. 0 \in 0..(d - 1)
  OBVIOUS
<1> QED
  BY <1>1, <1>2, <1>3, <1>4

\* A remainder by a multiple of the divisor keeps the remainder by the divisor.
LEMMA ModOfMod ==
    ASSUME NEW d \in Nat \ {0}, NEW m \in Nat \ {0}, m % d = 0, NEW n \in Nat
    PROVE  (n % m) % d = n % d
<1>1. n % m \in Nat /\ n \div m \in Nat /\ n = m * (n \div m) + (n % m)
  BY DivMod
<1>2. m \div d \in Nat /\ m = d * (m \div d)
  BY DivMod
<1>3. m * (n \div m) = d * ((m \div d) * (n \div m))
  BY <1>1, <1>2
<1>4. (m \div d) * (n \div m) \in Nat
  BY <1>1, <1>2
<1>5. (m * (n \div m)) % d = 0 /\ m * (n \div m) \in Nat
  BY <1>1, <1>3, <1>4, ModZero, SMTT(30)
<1>6. ((n % m) + m * (n \div m)) % d = (n % m) % d
  BY <1>1, <1>5, ModAdd
<1>7. (n % m) + m * (n \div m) = n
  BY <1>1
<1> QED
  BY <1>6, <1>7

\* Two multiples are a whole divisor apart.
LEMMA MultiplesApart ==
    ASSUME NEW d \in Nat \ {0}, NEW a \in Nat, NEW b \in Nat,
           a % d = 0, b % d = 0, a < b
    PROVE  a + d <= b
<1>1. a = d * (a \div d) /\ b = d * (b \div d) /\ a \div d \in Nat /\ b \div d \in Nat
  BY DivMod
<1> DEFINE p == a \div d
           q == b \div d
<1>2. a = d * p /\ b = d * q /\ p \in Nat /\ q \in Nat
  BY <1>1
<1> HIDE DEF p, q
<1>3. p + 1 <= q
  <2> SUFFICES ASSUME q <= p PROVE FALSE
    BY <1>2
  <2>1. d * q <= d * p
    BY <1>2, Z3
  <2> QED
    BY <1>2, <2>1
<1>4. d * (p + 1) <= d * q
  BY <1>2, <1>3, Z3
<1> QED
  BY <1>2, <1>4

-----------------------------------------------------------------------------
(* Cutting and joining.                                                    *)

\* A sequence is cut into two at any place.
LEMMA CutInTwo ==
    ASSUME NEW S, NEW s \in Seq(S), NEW n \in 0..Len(s)
    PROVE  /\ SubSeq(s, 1, n) \in Seq(S) /\ Len(SubSeq(s, 1, n)) = n
           /\ SubSeq(s, n + 1, Len(s)) \in Seq(S)
           /\ Len(SubSeq(s, n + 1, Len(s))) = Len(s) - n
           /\ s = SubSeq(s, 1, n) \o SubSeq(s, n + 1, Len(s))
<1>1. Len(s) \in Nat /\ \A i \in 1..Len(s) : s[i] \in S
  BY LenProperties, ElementOfSeq
<1>2. SubSeq(s, 1, n) \in Seq(S) /\ Len(SubSeq(s, 1, n)) = n
  BY <1>1, SubSeqProperties
<1>3. SubSeq(s, n + 1, Len(s)) \in Seq(S) /\ Len(SubSeq(s, n + 1, Len(s))) = Len(s) - n
  BY <1>1, SubSeqProperties
<1>4. SubSeq(s, 1, n) \o SubSeq(s, n + 1, Len(s)) = SubSeq(s, 1, Len(s))
  <2>1. 1 \in 1..(Len(s) + 1) /\ n \in (1 - 1)..Len(s) /\ Len(s) \in n..Len(s)
    BY <1>1
  <2> QED
    BY <2>1, ConcatAdjacentSubSeq
<1> QED
  BY <1>2, <1>3, <1>4, SubSeqFull

\* Cutting a joined sequence where it was joined gives the two parts.
LEMMA CutAtJoint ==
    ASSUME NEW S, NEW s \in Seq(S), NEW t \in Seq(S)
    PROVE  /\ SubSeq(s \o t, 1, Len(s)) = s
           /\ SubSeq(s \o t, Len(s) + 1, Len(s \o t)) = t
<1> DEFINE u == s \o t
           a == SubSeq(u, 1, Len(s))
           b == SubSeq(u, Len(s) + 1, Len(u))
<1>1. /\ u \in Seq(S) /\ Len(u) = Len(s) + Len(t) /\ Len(s) \in Nat /\ Len(t) \in Nat
      /\ \A i \in 1..Len(u) : u[i] = IF i <= Len(s) THEN s[i] ELSE t[i - Len(s)]
  BY ConcatProperties, LenProperties
<1>2. \A i \in 1..Len(u) : u[i] \in S
  BY <1>1, ElementOfSeq
<1>3. a \in Seq(S) /\ Len(a) = Len(s) /\ \A i \in 1..Len(s) : a[i] = u[i]
  <2>1. /\ a \in Seq(S)
        /\ Len(a) = IF 1 <= Len(s) THEN Len(s) - 1 + 1 ELSE 0
        /\ \A i \in 1..(Len(s) - 1 + 1) : a[i] = u[1 + i - 1]
    <3>1. \A i \in 1..Len(s) : u[i] \in S
      BY <1>1, <1>2
    <3> HIDE DEF u
    <3> QED
      BY <1>1, <3>1, SubSeqProperties
  <2>2. \A i \in 1..Len(s) : 1 + i - 1 = i
    BY <1>1
  <2> HIDE DEF a, u
  <2> QED
    BY <1>1, <2>1, <2>2
<1>4. b \in Seq(S) /\ Len(b) = Len(t) /\ \A i \in 1..Len(t) : b[i] = u[Len(s) + i]
  <2>1. /\ b \in Seq(S)
        /\ Len(b) = IF Len(s) + 1 <= Len(u) THEN Len(u) - (Len(s) + 1) + 1 ELSE 0
        /\ \A i \in 1..(Len(u) - (Len(s) + 1) + 1) : b[i] = u[(Len(s) + 1) + i - 1]
    <3>1. \A i \in (Len(s) + 1)..Len(u) : u[i] \in S
      BY <1>1, <1>2
    <3> HIDE DEF u
    <3> QED
      BY <1>1, <3>1, SubSeqProperties
  <2>2. \A i \in 1..Len(t) : (Len(s) + 1) + i - 1 = Len(s) + i
    BY <1>1
  <2>3. Len(u) - (Len(s) + 1) + 1 = Len(t)
    BY <1>1
  <2> HIDE DEF b, u
  <2>4. Len(b) = Len(t)
    BY <1>1, <2>1
  <2>5. \A i \in 1..Len(t) : b[i] = u[(Len(s) + 1) + i - 1]
    BY <2>1, <2>3
  <2> QED
    BY <2>1, <2>2, <2>4, <2>5
<1>5. \A i \in 1..Len(s) : a[i] = s[i]
  BY <1>1, <1>3
<1>6. \A i \in 1..Len(t) : b[i] = t[i]
  BY <1>1, <1>4
<1>7. a = s
  <2> HIDE DEF a
  <2> QED
    BY <1>3, <1>5, SeqEqual
<1>8. b = t
  <2> HIDE DEF b
  <2> QED
    BY <1>4, <1>6, SeqEqual
<1> QED
  BY <1>7, <1>8

\* A sequence is a prefix of everything it is extended to.
LEMMA PrefixOfJoin ==
    ASSUME NEW S, NEW s \in Seq(S), NEW t \in Seq(S)
    PROVE  IsPrefix(s, s \o t)
<1>1. Len(s \o t) = Len(s) + Len(t) /\ Len(s) \in Nat /\ Len(t) \in Nat
  BY ConcatProperties, LenProperties
<1>2. SubSeq(s \o t, 1, Len(s)) = s /\ SubSeq(s, 1, Len(s)) = s
  BY CutAtJoint, SubSeqFull
<1> QED
  BY <1>1, <1>2 DEF IsPrefix

\* And of itself.
LEMMA PrefixOfItself ==
    ASSUME NEW S, NEW s \in Seq(S)
    PROVE  IsPrefix(s, s)
BY SubSeqFull, LenProperties DEF IsPrefix

\* What extends a prefix extends it by the rest.
LEMMA PrefixAndRest ==
    ASSUME NEW S, NEW s \in Seq(S), NEW t \in Seq(S), IsPrefix(s, t)
    PROVE  t = s \o SubSeq(t, Len(s) + 1, Len(t))
<1>1. Len(s) \in 0..Len(t)
  BY LenProperties DEF IsPrefix
<1>2. t = SubSeq(t, 1, Len(s)) \o SubSeq(t, Len(s) + 1, Len(t))
  BY <1>1, CutInTwo
<1>3. SubSeq(t, 1, Len(s)) = s
  BY SubSeqFull DEF IsPrefix
<1> QED
  BY <1>2, <1>3

\* Joining, as an operator of its own: the provers take an equality between two joined
\* sequences apart into their elements, which hides it from the steps that need it.
Cat(a, b) == a \o b

LEMMA CatType ==
    ASSUME NEW S, NEW a \in Seq(S), NEW b \in Seq(S)
    PROVE  Cat(a, b) \in Seq(S) /\ Len(Cat(a, b)) = Len(a) + Len(b)
BY ConcatProperties DEF Cat

LEMMA CatEmpty ==
    ASSUME NEW S, NEW a \in Seq(S)
    PROVE  Cat(a, << >>) = a /\ Cat(<< >>, a) = a
BY ConcatEmptySeq DEF Cat

LEMMA CatAssoc ==
    ASSUME NEW S, NEW a \in Seq(S), NEW b \in Seq(S), NEW c \in Seq(S)
    PROVE  Cat(Cat(a, b), c) = Cat(a, Cat(b, c))
BY ConcatAssociative DEF Cat

\* Joining and appending.
LEMMA CatAppend ==
    ASSUME NEW S, NEW a \in Seq(S), NEW b \in Seq(S), NEW x \in S
    PROVE  Cat(a, Append(b, x)) = Append(Cat(a, b), x)
<1> DEFINE e == << x >>
<1>1. e \in Seq(S)
  BY AppendIsConcat, AppendProperties, EmptySeq
<1>2. Append(b, x) = Cat(b, e) /\ Append(Cat(a, b), x) = Cat(Cat(a, b), e)
  BY CatType, AppendIsConcat DEF Cat
<1> HIDE DEF e
<1> QED
  BY <1>1, <1>2, CatAssoc

\* A prefix of a prefix, and of a joined sequence.
LEMMA PrefixOfPrefix ==
    ASSUME NEW S, NEW s \in Seq(S), NEW n \in 0..Len(s), NEW i \in 0..n
    PROVE  SubSeq(SubSeq(s, 1, n), 1, i) = SubSeq(s, 1, i)
<1> DEFINE a == SubSeq(s, 1, n)
           b == SubSeq(a, 1, i)
           c == SubSeq(s, 1, i)
<1>0. Len(s) \in Nat /\ n \in Nat /\ i \in Nat /\ i \in 0..Len(s)
  BY LenProperties
<1>1. a \in Seq(S) /\ Len(a) = n
  BY CutInTwo
<1>2. c \in Seq(S) /\ Len(c) = i
  BY <1>0, CutInTwo
<1>3. b \in Seq(S) /\ Len(b) = i
  <2> HIDE DEF a
  <2> QED
    BY <1>1, CutInTwo
<1>4. \A j \in 1..n : a[j] = s[j]
  <2> SUFFICES ASSUME NEW j \in 1..n PROVE a[j] = s[1 + j - 1]
    OBVIOUS
  <2> QED
    BY <1>0, <1>1, SubSeqProperties, ElementOfSeq
<1>5. \A j \in 1..i : c[j] = s[j]
  <2> SUFFICES ASSUME NEW j \in 1..i PROVE c[j] = s[1 + j - 1]
    OBVIOUS
  <2> QED
    BY <1>0, <1>2, SubSeqProperties, ElementOfSeq
<1>6. \A j \in 1..i : b[j] = a[j]
  <2> HIDE DEF a
  <2> SUFFICES ASSUME NEW j \in 1..i PROVE b[j] = a[1 + j - 1]
    OBVIOUS
  <2> QED
    BY <1>0, <1>1, <1>3, SubSeqProperties, ElementOfSeq
<1>7. \A j \in 1..i : b[j] = c[j]
  BY <1>0, <1>4, <1>5, <1>6
<1> HIDE DEF a, b, c
<1> QED
  BY <1>2, <1>3, <1>7, SeqEqual DEF a, b, c

LEMMA PrefixOfLeft ==
    ASSUME NEW S, NEW s \in Seq(S), NEW t \in Seq(S), NEW n \in 0..Len(s)
    PROVE  SubSeq(Cat(s, t), 1, n) = SubSeq(s, 1, n)
<1>1. /\ Cat(s, t) \in Seq(S) /\ Len(Cat(s, t)) = Len(s) + Len(t)
      /\ SubSeq(Cat(s, t), 1, Len(s)) = s
  BY CatType, CutAtJoint DEF Cat
<1>2. Len(s) \in 0..Len(Cat(s, t))
  BY <1>1, LenProperties
<1> DEFINE u == Cat(s, t)
<1> HIDE DEF u
<1>3. SubSeq(SubSeq(u, 1, Len(s)), 1, n) = SubSeq(u, 1, n)
  BY <1>1, <1>2, PrefixOfPrefix DEF u
<1> QED
  BY <1>1, <1>3 DEF u

\* A sequence is cut into three at any two places.
LEMMA CutInThree ==
    ASSUME NEW S, NEW s \in Seq(S), NEW a \in Nat, NEW b \in a..Len(s)
    PROVE  /\ SubSeq(s, 1, a) \in Seq(S) /\ Len(SubSeq(s, 1, a)) = a
           /\ SubSeq(s, a + 1, b) \in Seq(S) /\ Len(SubSeq(s, a + 1, b)) = b - a
           /\ SubSeq(s, b + 1, Len(s)) \in Seq(S)
           /\ Len(SubSeq(s, b + 1, Len(s))) = Len(s) - b
           /\ s = Cat(Cat(SubSeq(s, 1, a), SubSeq(s, a + 1, b)), SubSeq(s, b + 1, Len(s)))
<1>1. Len(s) \in Nat /\ a \in 0..Len(s) /\ b \in 0..Len(s)
  BY LenProperties
<1>2. /\ SubSeq(s, 1, a) \in Seq(S) /\ Len(SubSeq(s, 1, a)) = a
      /\ SubSeq(s, b + 1, Len(s)) \in Seq(S) /\ Len(SubSeq(s, b + 1, Len(s))) = Len(s) - b
      /\ s = SubSeq(s, 1, b) \o SubSeq(s, b + 1, Len(s))
  <2>1. SubSeq(s, 1, a) \in Seq(S) /\ Len(SubSeq(s, 1, a)) = a
    BY <1>1, CutInTwo
  <2>2. /\ SubSeq(s, b + 1, Len(s)) \in Seq(S) /\ Len(SubSeq(s, b + 1, Len(s))) = Len(s) - b
        /\ s = SubSeq(s, 1, b) \o SubSeq(s, b + 1, Len(s))
    BY <1>1, CutInTwo
  <2> QED
    BY <2>1, <2>2
<1>3. SubSeq(s, 1, a) \o SubSeq(s, a + 1, b) = SubSeq(s, 1, b)
  <2>1. 1 \in 1..(Len(s) + 1) /\ a \in (1 - 1)..Len(s) /\ b \in a..Len(s)
    BY <1>1
  <2> QED
    BY <2>1, ConcatAdjacentSubSeq
<1>4. SubSeq(s, a + 1, b) \in Seq(S) /\ Len(SubSeq(s, a + 1, b)) = b - a
  <2>1. \A i \in (a + 1)..b : s[i] \in S
    BY <1>1, ElementOfSeq
  <2>2. /\ SubSeq(s, a + 1, b) \in Seq(S)
        /\ Len(SubSeq(s, a + 1, b)) = IF a + 1 <= b THEN b - (a + 1) + 1 ELSE 0
    BY <1>1, <2>1, SubSeqProperties
  <2> QED
    BY <1>1, <2>2
<1> QED
  BY <1>2, <1>3, <1>4 DEF Cat

\* Joining four sequences from the left, or the first one last.
LEMMA CatFour ==
    ASSUME NEW S, NEW a \in Seq(S), NEW b \in Seq(S), NEW c \in Seq(S), NEW d \in Seq(S)
    PROVE  Cat(Cat(Cat(a, b), c), d) = Cat(a, Cat(Cat(b, c), d))
<1>1. Cat(b, c) \in Seq(S)
  BY CatType
<1>2. Cat(Cat(a, b), c) = Cat(a, Cat(b, c))
  BY CatAssoc
<1>3. Cat(Cat(a, Cat(b, c)), d) = Cat(a, Cat(Cat(b, c), d))
  BY <1>1, CatAssoc
<1> QED
  BY <1>2, <1>3

-----------------------------------------------------------------------------
(* FlattenSeq joins the sequences in a sequence.                           *)

Flattens(g, q, n) == g = [i \in 1..n |-> IF i = 1 THEN q[i] ELSE g[i - 1] \o q[i]]

LEMMA FlattensExists ==
    ASSUME NEW q, NEW n \in Nat
    PROVE  \E g : Flattens(g, q, n)
<1> DEFINE T == { m \in Nat : \E g : Flattens(g, q, m) }
<1>1. 0 \in T
  <2> DEFINE g == [i \in 1..0 |-> q]
  <2>1. Flattens(g, q, 0)
    <3>1. \A i \in 1..0 : FALSE
      OBVIOUS
    <3> QED
      BY <3>1 DEF Flattens
  <2> HIDE DEF g
  <2> QED
    BY <2>1
<1>2. ASSUME NEW m \in Nat, m \in T PROVE m + 1 \in T
  <2>1. PICK g : Flattens(g, q, m)
    BY <1>2
  <2>2. g = [i \in 1..m |-> IF i = 1 THEN q[i] ELSE g[i - 1] \o q[i]]
    BY <2>1 DEF Flattens
  <2> DEFINE M == 1..(m + 1)
             h == [i \in M |-> IF i = m + 1
                               THEN IF m = 0 THEN q[1] ELSE g[m] \o q[m + 1]
                               ELSE g[i]]
             k == [i \in M |-> IF i = 1 THEN q[i] ELSE h[i - 1] \o q[i]]
  <2>3. ASSUME NEW i \in M PROVE h[i] = k[i]
    <3>1. CASE i = m + 1 /\ m = 0
      BY <3>1
    <3>2. CASE i = m + 1 /\ m # 0
      <4>1. m \in M /\ m # m + 1 /\ i - 1 = m /\ i # 1
        BY <3>2
      <4>2. h[m] = g[m] /\ h[i] = g[m] \o q[m + 1]
        BY <3>2, <4>1
      <4>3. k[i] = h[i - 1] \o q[i]
        BY <4>1
      <4> HIDE DEF h, k
      <4> QED
        BY <3>2, <4>1, <4>2, <4>3
    <3>3. CASE i # m + 1
      <4>1. i \in 1..m /\ (i # 1 => i - 1 \in M /\ i - 1 # m + 1)
        BY <3>3
      <4>2. h[i] = g[i] /\ (i # 1 => h[i - 1] = g[i - 1])
        BY <3>3, <4>1
      <4>3. g[i] = IF i = 1 THEN q[i] ELSE g[i - 1] \o q[i]
        BY <2>2, <4>1
      <4>4. k[i] = IF i = 1 THEN q[i] ELSE h[i - 1] \o q[i]
        OBVIOUS
      <4> HIDE DEF h, k
      <4> QED
        BY <4>2, <4>3, <4>4
    <3> QED
      BY <3>1, <3>2, <3>3
  <2>4. h = k
    <3>1. h = [i \in M |-> h[i]] /\ k = [i \in M |-> k[i]]
      OBVIOUS
    <3> HIDE DEF h, k
    <3> QED
      BY <2>3, <3>1
  <2>5. Flattens(h, q, m + 1)
    <3>1. h = [i \in M |-> IF i = 1 THEN q[i] ELSE h[i - 1] \o q[i]]
      <4> HIDE DEF h
      <4> QED
        BY <2>4 DEF k
    <3> HIDE DEF h
    <3> QED
      BY <3>1 DEF Flattens
  <2> HIDE DEF h
  <2> QED
    BY <2>5
<1>3. Nat \subseteq T
  <2> HIDE DEF T
  <2> QED
    BY <1>1, <1>2, NatInductionInSet
<1> QED
  BY <1>3

LEMMA FlattensUnique ==
    ASSUME NEW q, NEW r, NEW n \in Nat, NEW m \in Nat,
           NEW g, Flattens(g, q, n), NEW h, Flattens(h, r, m),
           NEW k \in Nat, k <= n, k <= m, k >= 1, \A i \in 1..k : q[i] = r[i]
    PROVE  g[k] = h[k]
<1> DEFINE T == { j \in Nat : j >= 1 /\ j <= k => g[j] = h[j] }
<1>0. /\ g = [i \in 1..n |-> IF i = 1 THEN q[i] ELSE g[i - 1] \o q[i]]
      /\ h = [i \in 1..m |-> IF i = 1 THEN r[i] ELSE h[i - 1] \o r[i]]
  BY DEF Flattens
<1>1. 0 \in T
  OBVIOUS
<1>2. ASSUME NEW j \in Nat, j \in T PROVE j + 1 \in T
  <2> SUFFICES ASSUME j + 1 <= k PROVE g[j + 1] = h[j + 1]
    OBVIOUS
  <2> DEFINE i == j + 1
  <2>1. i \in 1..n /\ i \in 1..m /\ i \in 1..k /\ i - 1 = j
    OBVIOUS
  <2>2. i # 1 => g[i - 1] = h[i - 1]
    BY <1>2
  <2> HIDE DEF i
  <2>3. /\ g[i] = IF i = 1 THEN q[i] ELSE g[i - 1] \o q[i]
        /\ h[i] = IF i = 1 THEN r[i] ELSE h[i - 1] \o r[i]
    BY <1>0, <2>1
  <2>4. g[i] = h[i]
    BY <2>1, <2>2, <2>3
  <2> QED
    BY <2>4 DEF i
<1>3. Nat \subseteq T
  <2> HIDE DEF T
  <2> QED
    BY <1>1, <1>2, NatInductionInSet
<1> QED
  BY <1>3

LEMMA FlattenIs ==
    ASSUME NEW S, NEW q \in Seq(S), q # << >>
    PROVE  \E g : Flattens(g, q, Len(q)) /\ FlattenSeq(q) = g[Len(q)]
<1> DEFINE g == CHOOSE g : Flattens(g, q, Len(q))
<1>1. Len(q) \in Nat /\ Len(q) # 0
  BY EmptySeq
<1>2. Flattens(g, q, Len(q))
  BY <1>1, FlattensExists
<1>3. FlattenSeq(q) = g[Len(q)]
  BY <1>1 DEF FlattenSeq, Flattens
<1> HIDE DEF g
<1> QED
  BY <1>2, <1>3

\* Nothing joined is nothing.
LEMMA FlattenEmpty == FlattenSeq(<< >>) = << >>
<1>1. Len(<< >>) = 0
  BY EmptySeq
<1> QED
  BY <1>1 DEF FlattenSeq

\* One more sequence is joined at the end.
LEMMA FlattenAppend ==
    ASSUME NEW S, NEW q \in Seq(Seq(S)), NEW x \in Seq(S), FlattenSeq(q) \in Seq(S)
    PROVE  FlattenSeq(Append(q, x)) = Cat(FlattenSeq(q), x)
<1> DEFINE n == Len(q)
           r == Append(q, x)
<1>1. /\ n \in Nat /\ r \in Seq(Seq(S)) /\ r # << >> /\ Len(r) = n + 1
      /\ \A i \in 1..n : r[i] = q[i]
      /\ r[n + 1] = x
  BY LenProperties, AppendProperties
<1> HIDE DEF r
<1>2. PICK h : Flattens(h, r, n + 1) /\ FlattenSeq(r) = h[n + 1]
  BY <1>1, FlattenIs
<1>3. h[n + 1] = IF n + 1 = 1 THEN r[n + 1] ELSE h[(n + 1) - 1] \o r[n + 1]
  <2>1. h = [i \in 1..(n + 1) |-> IF i = 1 THEN r[i] ELSE h[i - 1] \o r[i]]
    BY <1>2 DEF Flattens
  <2>2. n + 1 \in 1..(n + 1)
    BY <1>1
  <2> HIDE DEF n
  <2> QED
    BY <2>1, <2>2
<1>4. CASE q = << >>
  <2>1. n = 0
    BY <1>4, EmptySeq
  <2>2. FlattenSeq(r) = x
    BY <1>1, <1>2, <1>3, <2>1
  <2>3. FlattenSeq(q) = << >>
    BY <1>4, FlattenEmpty
  <2> QED
    BY <2>2, <2>3, CatEmpty DEF r
<1>5. CASE q # << >>
  <2>1. PICK g : Flattens(g, q, n) /\ FlattenSeq(q) = g[n]
    BY <1>5, FlattenIs
  <2>2. n >= 1 /\ n <= n + 1 /\ n + 1 \in Nat /\ (n + 1) - 1 = n /\ n + 1 # 1
    BY <1>1, <1>5, EmptySeq
  <2> HIDE DEF n
  <2>3. g[n] = h[n]
    BY <1>1, <1>2, <2>1, <2>2, FlattensUnique, SMTT(30)
  <2> QED
    BY <1>1, <1>2, <1>3, <2>1, <2>2, <2>3 DEF r, Cat
<1> QED
  BY <1>4, <1>5

\* What is joined has the elements of what it is joined of.
LEMMA FlattenType ==
    ASSUME NEW S, NEW q \in Seq(Seq(S))
    PROVE  FlattenSeq(q) \in Seq(S)
<1> DEFINE T == { p \in Seq(Seq(S)) : FlattenSeq(p) \in Seq(S) }
<1>1. << >> \in T
  BY EmptySeq, FlattenEmpty
<1>2. ASSUME NEW p \in Seq(Seq(S)), NEW x \in Seq(S), p \in T PROVE Append(p, x) \in T
  <2>1. FlattenSeq(p) \in Seq(S)
    BY <1>2
  <2>2. Append(p, x) \in Seq(Seq(S))
    BY AppendProperties
  <2>3. FlattenSeq(Append(p, x)) = Cat(FlattenSeq(p), x)
    BY <2>1, FlattenAppend
  <2>4. Cat(FlattenSeq(p), x) \in Seq(S)
    BY <2>1, CatType
  <2> QED
    BY <2>2, <2>3, <2>4
<1>3. Seq(Seq(S)) \subseteq T
  <2> DEFINE X == Seq(S)
  <2> HIDE DEF T, X
  <2>1. \A p \in Seq(X), x \in X : p \in T => Append(p, x) \in T
    BY <1>2 DEF X
  <2>2. Seq(X) \subseteq T
    BY <1>1, <2>1, SeqInductionInSet
  <2> QED
    BY <2>2 DEF X
<1> QED
  BY <1>3

\* Two sequences of sequences are joined one after the other.
LEMMA FlattenConcat ==
    ASSUME NEW S, NEW a \in Seq(Seq(S)), NEW b \in Seq(Seq(S))
    PROVE  FlattenSeq(Cat(a, b)) = Cat(FlattenSeq(a), FlattenSeq(b))
<1> DEFINE X == Seq(S)
           T == { p \in Seq(X) : FlattenSeq(Cat(a, p)) = Cat(FlattenSeq(a), FlattenSeq(p)) }
<1>0. a \in Seq(X) /\ b \in Seq(X) /\ FlattenSeq(a) \in X
  BY FlattenType
<1>1. << >> \in T
  <2>1. << >> \in Seq(X)
    BY EmptySeq
  <2>2. Cat(a, << >>) = a
    BY <1>0, CatEmpty
  <2>3. Cat(FlattenSeq(a), << >>) = FlattenSeq(a)
    BY <1>0, CatEmpty
  <2> HIDE DEF X
  <2> QED
    BY <2>1, <2>2, <2>3, FlattenEmpty
<1>2. ASSUME NEW p \in Seq(X), NEW x \in X, p \in T PROVE Append(p, x) \in T
  <2> DEFINE e == << x >>
             ap == Cat(a, p)
  <2>1. Append(p, x) \in Seq(X) /\ Append(p, x) = Cat(p, e) /\ e \in Seq(X)
    <3> HIDE DEF X
    <3> QED
      BY AppendProperties, AppendIsConcat DEF Cat
  <2>2. ap \in Seq(X) /\ Append(ap, x) = Cat(ap, e)
    <3> HIDE DEF X
    <3>1. ap \in Seq(X)
      BY <1>0, CatType
    <3> HIDE DEF ap
    <3> QED
      BY <3>1, AppendIsConcat DEF Cat
  <2>3. Cat(a, Append(p, x)) = Append(ap, x)
    <3> HIDE DEF X, e
    <3>1. Cat(Cat(a, p), e) = Cat(a, Cat(p, e))
      BY <1>0, <2>1, CatAssoc
    <3> QED
      BY <2>1, <2>2, <3>1
  <2>4. FlattenSeq(ap) = Cat(FlattenSeq(a), FlattenSeq(p)) /\ FlattenSeq(p) \in X
    <3>1. FlattenSeq(ap) = Cat(FlattenSeq(a), FlattenSeq(p))
      BY <1>2
    <3>2. FlattenSeq(p) \in Seq(S)
      BY FlattenType
    <3> QED
      BY <3>1, <3>2
  <2>5. FlattenSeq(Append(ap, x)) = Cat(FlattenSeq(ap), x)
    <3>1. ap \in Seq(Seq(S)) /\ x \in Seq(S)
      BY <2>2
    <3> HIDE DEF ap
    <3>2. FlattenSeq(ap) \in Seq(S)
      BY <3>1, FlattenType
    <3> QED
      BY <3>1, <3>2, FlattenAppend
  <2>6. FlattenSeq(Append(p, x)) = Cat(FlattenSeq(p), x)
    BY <2>4, FlattenAppend
  <2>7. Cat(Cat(FlattenSeq(a), FlattenSeq(p)), x) = Cat(FlattenSeq(a), Cat(FlattenSeq(p), x))
    BY <1>0, <2>4, CatAssoc
  <2> HIDE DEF X, e, ap
  <2>8. FlattenSeq(Cat(a, Append(p, x))) = Cat(FlattenSeq(a), FlattenSeq(Append(p, x)))
    BY <2>3, <2>4, <2>5, <2>6, <2>7
  <2> QED
    BY <2>1, <2>8
<1>3. Seq(X) \subseteq T
  <2> HIDE DEF T, X
  <2> QED
    BY <1>1, <1>2, SeqInductionInSet
<1> QED
  BY <1>3
=============================================================================
