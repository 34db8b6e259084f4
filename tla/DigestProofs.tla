---------------------------- MODULE DigestProofs ----------------------------
(***************************************************************************)
(* Proofs about Digest for every block size, word and set of messages: the *)
(* buffering loses nothing, and the two words count the bytes.             *)
(***************************************************************************)
EXTENDS Digest, ProofLemmas

-----------------------------------------------------------------------------
(* The two update functions.                                               *)

\* What both update functions keep: whole blocks are processed, the bytes that wait are in
\* buffer, and their number is right.
Buffered(c) ==
    /\ c.processed \in Seq(Bytes)
    /\ (Len(c.processed) % BlockSize) = 0
    /\ Left(c) \in 0..(BlockSize - 1)
    /\ Waiting(c) \in Seq(Bytes)
    /\ Len(Waiting(c)) = Left(c)

\* What an update has to do: append the input to what has been processed and what waits.
Takes(c, input, r) ==
    /\ Buffered(r)
    /\ Cat(r.processed, Waiting(r)) = Cat(Cat(c.processed, Waiting(c)), input)

\* The constants, as the provers need them.
LEMMA Constants ==
    /\ BlockSize \in Nat \ {0} /\ BlockSize \in Nat /\ BlockSize > 0
    /\ Word \in Nat \ {0} /\ Word \in Nat /\ Word > 0
    /\ (Word % BlockSize) = 0
BY DigestConstants

\* What waits is no longer than buffer was written, and starts it.
LEMMA WaitingPrefix ==
    ASSUME NEW c, Left(c) \in 0..(BlockSize - 1),
           NEW w \in Seq(Bytes), Len(w) = Left(c), c.buffer = w
    PROVE  Waiting(c) = w
BY SubSeqFull DEF Waiting

\* Nothing waits if left is zero.
LEMMA NothingWaits ==
    ASSUME NEW c, Left(c) = 0
    PROVE  Waiting(c) = << >>
<1>1. SubSeq(c.buffer, 1, 0) = << >>
  BY SubSeqEmpty
<1> QED
  BY <1>1 DEF Waiting

\* What follows the first b bytes, and what is processed up to there behind p, when w waits and
\* the first a bytes complete its block.
Rest(x, b) == SubSeq(x, b + 1, Len(x))

Through(p, w, x, a, b) == Cat(Cat(p, Cat(w, SubSeq(x, 1, a))), SubSeq(x, a + 1, b))

\* The pieces of an update that processes the bytes that wait and the beginning of the input,
\* and keeps the end of the input.
LEMMA Pieces ==
    ASSUME NEW p \in Seq(Bytes), NEW w \in Seq(Bytes), NEW x \in Seq(Bytes),
           NEW a \in Nat, NEW b \in a..Len(x),
           (Len(p) % BlockSize) = 0,
           ((Len(w) + a) % BlockSize) = 0,
           ((b - a) % BlockSize) = 0
    PROVE  /\ Through(p, w, x, a, b) \in Seq(Bytes)
           /\ (Len(Through(p, w, x, a, b)) % BlockSize) = 0
           /\ Rest(x, b) \in Seq(Bytes) /\ Len(Rest(x, b)) = Len(x) - b
           /\ Cat(Through(p, w, x, a, b), Rest(x, b)) = Cat(Cat(p, w), x)
<1> DEFINE u == SubSeq(x, 1, a)
           v == SubSeq(x, a + 1, b)
           t == SubSeq(x, b + 1, Len(x))
           full == Cat(w, u)
           q == Cat(Cat(p, full), v)
<1>1. /\ u \in Seq(Bytes) /\ Len(u) = a
      /\ v \in Seq(Bytes) /\ Len(v) = b - a
      /\ t \in Seq(Bytes) /\ Len(t) = Len(x) - b
      /\ x = Cat(Cat(u, v), t)
  BY CutInThree
<1>2. Len(p) \in Nat /\ Len(w) \in Nat /\ Len(x) \in Nat /\ b - a \in Nat
  BY LenProperties
<1> HIDE DEF u, v, t
<1>3. full \in Seq(Bytes) /\ Len(full) = Len(w) + a
  BY <1>1, CatType
<1> HIDE DEF full
<1>4. Cat(p, full) \in Seq(Bytes) /\ Len(Cat(p, full)) = Len(p) + (Len(w) + a)
  BY <1>3, CatType
<1> DEFINE pf == Cat(p, full)
<1>5. q \in Seq(Bytes) /\ Len(q) = (Len(p) + (Len(w) + a)) + (b - a)
  <2>1. pf \in Seq(Bytes) /\ Len(pf) = Len(p) + (Len(w) + a) /\ q = Cat(pf, v)
    BY <1>4
  <2> HIDE DEF pf, q
  <2>2. Cat(pf, v) \in Seq(Bytes) /\ Len(Cat(pf, v)) = Len(pf) + Len(v)
    BY <1>1, <2>1, CatType
  <2> QED
    BY <1>1, <2>1, <2>2
<1> DEFINE m == Len(w) + a
           n == Len(p)
           k == b - a
<1>6. n \in Nat /\ m \in Nat /\ k \in Nat /\ n + m \in Nat
  BY <1>2
<1>7. (((n + m) + k) % BlockSize) = 0
  <2>1. (n % BlockSize) = 0 /\ (m % BlockSize) = 0 /\ (k % BlockSize) = 0
    OBVIOUS
  <2> HIDE DEF m, n, k
  <2>2. (n + m) % BlockSize = n % BlockSize
    BY <1>6, <2>1, Constants, ModAdd
  <2>3. ((n + m) + k) % BlockSize = (n + m) % BlockSize
    BY <1>6, <2>1, Constants, ModAdd
  <2> QED
    BY <2>1, <2>2, <2>3
<1>8. Cat(q, t) = Cat(Cat(p, w), x)
  <2>1. Cat(Cat(p, w), x) = Cat(p, Cat(w, x))
    BY CatAssoc
  <2>2. Cat(w, x) = Cat(Cat(Cat(w, u), v), t)
    BY <1>1, CatFour
  <2>3. Cat(q, t) = Cat(p, Cat(Cat(full, v), t))
    BY <1>1, <1>3, CatFour
  <2> QED
    BY <2>1, <2>2, <2>3 DEF full
<1>9. Through(p, w, x, a, b) = q /\ Rest(x, b) = t
  BY DEF Through, Rest, u, v, t, full
<1> HIDE DEF q
<1> QED
  BY <1>1, <1>5, <1>7, <1>8, <1>9

\* sha1_update appends its input, whatever the state of the object it is called on.
LEMMA ShaUpdateTakes ==
    ASSUME NEW c, Buffered(c), c.lo \in Nat, md_info = "sha", NEW x \in Seq(Bytes)
    PROVE  Takes(c, x, ShaUpdate(c, x))
<1> DEFINE L == Left(c)
           X == Len(x)
           w == Waiting(c)
           p == c.processed
           head == L # 0 /\ X >= BlockSize - L
           from == IF head THEN BlockSize - L ELSE 0
           full == IF head THEN w \o SubSeq(x, 1, from) ELSE << >>
           rest == (X - from) % BlockSize
           buf == IF head THEN full ELSE c.buffer
           tail == SubSeq(x, X - rest + 1, X)
           behind == IF head THEN 0 ELSE L
           r == ShaUpdate(c, x)
<1>1. /\ L \in 0..(BlockSize - 1) /\ X \in Nat /\ p \in Seq(Bytes) /\ w \in Seq(Bytes)
      /\ Len(w) = L /\ (Len(p) % BlockSize) = 0
  BY LenProperties DEF Buffered
<1>2. /\ r.processed = p \o full \o SubSeq(x, from + 1, X - rest)
      /\ r.buffer = IF rest = 0 THEN buf ELSE SubSeq(buf, 1, behind) \o tail
      /\ r.lo = (c.lo + X) % Word
  BY DEF ShaUpdate, Fill, Behind
<1>3. L = c.lo % BlockSize /\ Left(r) = (c.lo + X) % BlockSize
  <2> DEFINE n == c.lo + X
  <2>1. (n % Word) % BlockSize = n % BlockSize
    <3>1. n \in Nat
      BY <1>1
    <3> HIDE DEF n
    <3> QED
      BY <3>1, Constants, ModOfMod
  <2> HIDE DEF r
  <2> QED
    BY <1>2, <2>1 DEF Left
<1>4. c.lo - L \in Nat /\ ((c.lo - L) % BlockSize) = 0
  <2>1. c.lo - (c.lo % BlockSize) \in Nat /\ ((c.lo - (c.lo % BlockSize)) % BlockSize) = 0
    BY Constants, ModSub
  <2> QED
    BY <1>3, <2>1
<1>5. from \in Nat /\ from <= X /\ (head => from = BlockSize - L) /\ (~head => from = 0)
  BY <1>1, Constants
<1>6. /\ rest \in 0..(BlockSize - 1) /\ X - from - rest \in Nat
      /\ ((X - from - rest) % BlockSize) = 0
  <2>1. X - from \in Nat
    BY <1>1, <1>5
  <2> HIDE DEF from
  <2> QED
    BY <2>1, Constants, DivMod, ModSub
<1> HIDE DEF r
<1>7. ASSUME head \/ L = 0 PROVE Takes(c, x, r)
  <2>1. (L + from) \in Nat /\ ((L + from) % BlockSize) = 0
    <3>1. L + from = BlockSize \/ L + from = 0
      BY <1>1, <1>5, <1>7, Constants
    <3> QED
      BY <3>1, Constants, ModSmall
  <2>2. Left(r) = rest
    <3>1. c.lo + X = (X - from) + ((c.lo - L) + (L + from)) /\ X - from \in Nat
      BY <1>1, <1>4, <1>5
    <3>2. ((c.lo - L) + (L + from)) \in Nat /\ ((c.lo - L) + (L + from)) % BlockSize = 0
      <4> DEFINE m == c.lo - L
                 n == L + from
      <4>1. m \in Nat /\ (m % BlockSize) = 0 /\ n \in Nat /\ (n % BlockSize) = 0
        BY <1>4, <2>1
      <4> HIDE DEF m, n
      <4>2. m + n \in Nat
        BY <4>1
      <4>3. (m + n) % BlockSize = m % BlockSize
        BY <4>1, Constants, ModAdd
      <4>4. m + n \in Nat /\ (m + n) % BlockSize = 0
        BY <4>1, <4>2, <4>3
      <4> QED
        BY <4>4 DEF m, n
    <3>3. ((X - from) + ((c.lo - L) + (L + from))) % BlockSize = (X - from) % BlockSize
      <4> HIDE DEF from, L
      <4> QED
        BY <3>1, <3>2, Constants, ModAdd
    <3> QED
      BY <1>3, <3>1, <3>3
  <2>3. X - rest \in from..X /\ ((X - rest) - from) % BlockSize = 0
    <3>1. (X - rest) - from = X - from - rest
      BY <1>1, <1>5, <1>6
    <3> HIDE DEF from, rest
    <3> QED
      BY <1>1, <1>5, <1>6, <3>1
  <2>4. full = Cat(w, SubSeq(x, 1, from))
    <3>1. CASE head
      BY <3>1 DEF Cat
    <3>2. CASE ~head
      <4>1. full = << >> /\ from = 0 /\ w = << >>
        BY <1>1, <1>7, <3>2, NothingWaits
      <4>2. SubSeq(x, 1, 0) = << >>
        BY SubSeqEmpty
      <4>3. Cat(<< >>, << >>) = << >>
        BY EmptySeq, CatEmpty
      <4> QED
        BY <4>1, <4>2, <4>3
    <3> QED
      BY <3>1, <3>2
  <2>5. /\ r.processed \in Seq(Bytes) /\ (Len(r.processed) % BlockSize) = 0
        /\ tail \in Seq(Bytes) /\ Len(tail) = X - (X - rest)
        /\ Cat(r.processed, tail) = Cat(Cat(p, w), x)
    <3> DEFINE y == X - rest
    <3>1. r.processed = Through(p, w, x, from, y) /\ tail = Rest(x, y)
      BY <1>2, <2>4 DEF Cat, Through, Rest
    <3>2. y \in from..Len(x) /\ ((y - from) % BlockSize) = 0
      BY <2>3
    <3>3. ((Len(w) + from) % BlockSize) = 0
      <4>1. Len(w) + from = L + from
        BY <1>1
      <4> HIDE DEF from, w, L
      <4> QED
        BY <2>1, <4>1
    <3>4. p \in Seq(Bytes) /\ w \in Seq(Bytes) /\ (Len(p) % BlockSize) = 0 /\ from \in Nat
      BY <1>1, <1>5
    <3> HIDE DEF y, from, rest, w, p, L, tail
    <3>5. /\ Through(p, w, x, from, y) \in Seq(Bytes)
          /\ (Len(Through(p, w, x, from, y)) % BlockSize) = 0
          /\ Rest(x, y) \in Seq(Bytes) /\ Len(Rest(x, y)) = Len(x) - y
          /\ Cat(Through(p, w, x, from, y), Rest(x, y)) = Cat(Cat(p, w), x)
      BY <3>2, <3>3, <3>4, Pieces
    <3> QED
      BY <3>1, <3>5 DEF y
  <2>6. Len(tail) = rest
    BY <1>1, <1>6, <2>5
  <2>7. Waiting(r) = tail
    <3>1. CASE rest = 0
      <4>1. Waiting(r) = << >>
        BY <2>2, <3>1, NothingWaits
      <4>2. tail = << >>
        <5> HIDE DEF tail, rest
        <5> QED
          BY <2>5, <2>6, <3>1, EmptySeq
      <4> QED
        BY <4>1, <4>2
    <3>2. CASE rest # 0
      <4>1. behind = 0
        BY <1>7
      <4>2. SubSeq(buf, 1, 0) = << >>
        BY SubSeqEmpty
      <4>3. r.buffer = << >> \o tail
        BY <1>2, <3>2, <4>1, <4>2
      <4>4. << >> \o tail = tail
        BY <2>5, ConcatEmptySeq
      <4> HIDE DEF tail, rest
      <4> QED
        BY <1>6, <2>2, <2>5, <2>6, <4>3, <4>4, WaitingPrefix
    <3> QED
      BY <3>1, <3>2
  <2>8. Buffered(r)
    <3> HIDE DEF tail, rest
    <3> QED
      BY <1>6, <2>2, <2>5, <2>6, <2>7 DEF Buffered
  <2>9. Cat(r.processed, Waiting(r)) = Cat(Cat(c.processed, Waiting(c)), x)
    <3> HIDE DEF tail
    <3> QED
      BY <2>5, <2>7
  <2> QED
    BY <2>8, <2>9 DEF Takes
<1>8. ASSUME ~head, L # 0 PROVE Takes(c, x, r)
  <2>1. from = 0 /\ X < BlockSize - L /\ full = << >> /\ behind = L /\ buf = c.buffer
    BY <1>1, <1>8, Constants
  <2>2. rest = X
    <3>1. X \in 0..(BlockSize - 1) /\ X - from = X
      BY <1>1, <2>1, Constants
    <3>2. (X % BlockSize) = X
      BY <3>1, Constants, ModSmall
    <3> QED
      BY <3>1, <3>2
  <2>3. r.processed = p
    <3>1. SubSeq(x, 1, 0) = << >> /\ p \o << >> = p
      BY <1>1, SubSeqEmpty, ConcatEmptySeq
    <3>2. from + 1 = 1 /\ X - rest = 0
      BY <1>1, <2>1, <2>2
    <3> QED
      BY <1>2, <2>1, <3>1, <3>2
  <2>4. Left(r) = L + X /\ L + X \in 0..(BlockSize - 1)
    <3>1. L + X \in 0..(BlockSize - 1) /\ L + X \in Nat /\ c.lo + X = (L + X) + (c.lo - L)
      BY <1>1, <2>1, Constants
    <3>2. ((L + X) + (c.lo - L)) % BlockSize = (L + X) % BlockSize
      BY <1>4, <3>1, Constants, ModAdd
    <3>3. (L + X) % BlockSize = L + X
      BY <3>1, Constants, ModSmall
    <3> QED
      BY <1>3, <3>1, <3>2, <3>3
  <2>5. Cat(w, x) \in Seq(Bytes) /\ Len(Cat(w, x)) = L + X
    BY <1>1, CatType
  <2>6. Waiting(r) = Cat(w, x)
    <3>1. CASE X = 0
      <4>1. r.buffer = c.buffer /\ Left(r) = L
        BY <1>1, <1>2, <2>1, <2>2, <2>4, <3>1
      <4>2. Waiting(r) = w
        BY <4>1 DEF Waiting
      <4>3. x = << >>
        BY <3>1, EmptySeq
      <4> QED
        BY <1>1, <4>2, <4>3, CatEmpty
    <3>2. CASE X # 0
      <4>1. tail = x
        <5>1. X - rest + 1 = 1
          BY <1>1, <2>2
        <5> QED
          BY <5>1, SubSeqFull
      <4>2. SubSeq(c.buffer, 1, L) = w
        BY SMTT(30) DEF Waiting
      <4>3. r.buffer = Cat(w, x)
        BY <1>2, <2>1, <2>2, <3>2, <4>1, <4>2 DEF Cat
      <4> QED
        BY <2>4, <2>5, <4>3, WaitingPrefix
    <3> QED
      BY <3>1, <3>2
  <2>7. Cat(p, Cat(w, x)) = Cat(Cat(p, w), x)
    BY <1>1, CatAssoc
  <2>8. Buffered(r)
    BY <1>1, <2>3, <2>4, <2>5, <2>6 DEF Buffered
  <2>9. Cat(r.processed, Waiting(r)) = Cat(Cat(c.processed, Waiting(c)), x)
    BY <2>3, <2>6, <2>7
  <2> QED
    BY <2>8, <2>9 DEF Takes
<1>9. Takes(c, x, r)
  BY <1>7, <1>8
<1> QED
  BY <1>9 DEF r

\* md2_update appends its input to the state of the object.
LEMMA Md2UpdateTakes ==
    ASSUME Buffered(Context), md_info = "md2", NEW x \in Seq(Bytes)
    PROVE  Takes(Context, x, Md2Update(Context, x))
<1> DEFINE L == Left(Context)
           w == Waiting(Context)
           p == processed
           all == Cat(w, x)
           n == Len(all)
           rest == n % BlockSize
           done == n - rest
           whole == SubSeq(all, 1, done)
           tail == SubSeq(all, done + 1, n)
           r == Md2Update(Context, x)
<1>1. /\ L \in 0..(BlockSize - 1) /\ p \in Seq(Bytes) /\ w \in Seq(Bytes)
      /\ Len(w) = L /\ (Len(p) % BlockSize) = 0
  BY DEF Buffered, Context
<1>2. all \in Seq(Bytes) /\ n \in Nat /\ n = L + Len(x) /\ Len(x) \in Nat
  <2>1. all \in Seq(Bytes) /\ Len(all) = Len(w) + Len(x)
    BY <1>1, CatType
  <2> QED
    BY <1>1, <2>1, LenProperties
<1>3. rest \in 0..(BlockSize - 1) /\ done \in Nat /\ (done % BlockSize) = 0 /\ done \in 0..n
  <2> HIDE DEF n
  <2>1. rest \in 0..(BlockSize - 1) /\ done \in Nat /\ (done % BlockSize) = 0
    BY <1>2, Constants, DivMod, ModSub
  <2> QED
    BY <1>2, <2>1
<1>4. /\ r.left = rest
      /\ r.processed = p \o whole
      /\ r.buffer = IF rest = 0 /\ done > 0 THEN SubSeq(all, done - BlockSize + 1, done)
                    ELSE IF x = << >> THEN buffer ELSE tail
  BY DEF Md2Update, Context, Cat
<1> HIDE DEF r
<1>5. Left(r) = rest
  BY <1>4 DEF Left
<1>6. /\ whole \in Seq(Bytes) /\ Len(whole) = done
      /\ tail \in Seq(Bytes) /\ Len(tail) = n - done
      /\ all = Cat(whole, tail)
  <2> HIDE DEF all, done
  <2>1. PICK k \in Nat : k = done /\ k \in 0..Len(all)
    BY <1>2, <1>3
  <2>2. /\ SubSeq(all, 1, k) \in Seq(Bytes) /\ Len(SubSeq(all, 1, k)) = k
        /\ SubSeq(all, k + 1, Len(all)) \in Seq(Bytes)
        /\ Len(SubSeq(all, k + 1, Len(all))) = Len(all) - k
    BY <1>2, <2>1, CutInTwo
  <2>3. all = SubSeq(all, 1, k) \o SubSeq(all, k + 1, Len(all))
    BY <1>2, <2>1, CutInTwo
  <2> QED
    BY <1>2, <2>1, <2>2, <2>3, Zenon DEF Cat
<1>7. n - done = rest
  BY <1>2, <1>3
<1>8. Waiting(r) = tail
  <2>1. CASE rest = 0
    <3>1. Waiting(r) = << >>
      BY <1>5, <2>1, NothingWaits
    <3>2. tail = << >>
      <4> HIDE DEF tail, rest, n
      <4> QED
        BY <1>6, <1>7, <2>1, EmptySeq
    <3> QED
      BY <3>1, <3>2
  <2>2. CASE rest # 0 /\ x = << >>
    <3>1. all = w /\ n = L
      BY <1>1, <2>2, CatEmpty
    <3>2. (L % BlockSize) = L
      BY <1>1, Constants, ModSmall
    <3>3. rest = L /\ done = 0
      BY <1>1, <3>1, <3>2
    <3>4. tail = w
      <4>1. tail = SubSeq(w, 1, Len(w))
        <5>1. done + 1 = 1
          BY <3>3
        <5> QED
          BY <3>1, <5>1
      <4> QED
        BY <1>1, <4>1, SubSeqFull
    <3>5. Waiting(r) = w
      <4>1. r.buffer = buffer
        BY <1>4, <2>2
      <4>2. Context.buffer = buffer
        BY DEF Context
      <4> QED
        BY <1>5, <3>3, <4>1, <4>2 DEF Waiting
    <3> QED
      BY <3>4, <3>5
  <2>3. CASE rest # 0 /\ x # << >>
    <3>1. r.buffer = tail
      BY <1>4, <2>3
    <3> HIDE DEF tail, rest, n
    <3> QED
      BY <1>3, <1>5, <1>6, <1>7, <3>1, WaitingPrefix
  <2> QED
    BY <2>1, <2>2, <2>3
<1>9. r.processed \in Seq(Bytes) /\ (Len(r.processed) % BlockSize) = 0
  <2>1. r.processed = Cat(p, whole)
    BY <1>4 DEF Cat
  <2> HIDE DEF whole, done, p
  <2>2. Cat(p, whole) \in Seq(Bytes) /\ Len(Cat(p, whole)) = Len(p) + done
    BY <1>1, <1>6, CatType
  <2>3. Len(p) \in Nat
    BY <1>1, LenProperties
  <2>4. (Len(p) + done) % BlockSize = Len(p) % BlockSize
    BY <1>3, <2>3, Constants, ModAdd
  <2> QED
    BY <1>1, <2>1, <2>2, <2>4
<1>10. Cat(r.processed, tail) = Cat(Cat(p, w), x)
  <2>1. r.processed = Cat(p, whole)
    BY <1>4 DEF Cat
  <2>2. Cat(Cat(p, w), x) = Cat(p, all)
    BY <1>1, CatAssoc
  <2> HIDE DEF whole, tail, p, all
  <2>3. Cat(Cat(p, whole), tail) = Cat(p, Cat(whole, tail))
    BY <1>1, <1>6, CatAssoc
  <2> QED
    BY <1>6, <2>1, <2>2, <2>3
<1>11. Buffered(r)
  <2> HIDE DEF tail, rest, n
  <2> QED
    BY <1>3, <1>5, <1>6, <1>7, <1>8, <1>9 DEF Buffered
<1>12. Cat(r.processed, Waiting(r)) = Cat(Cat(Context.processed, Waiting(Context)), x)
  <2>1. Context.processed = p
    BY DEF Context
  <2> HIDE DEF tail
  <2> QED
    BY <1>8, <1>10, <2>1
<1>13. Takes(Context, x, r)
  BY <1>11, <1>12 DEF Takes
<1> QED
  BY <1>13 DEF r

-----------------------------------------------------------------------------
(* The invariant.                                                          *)

\* A context between sha1_starts (or memset) and the first update.
Fresh == lo = 0 /\ hi = 0 /\ left = 0 /\ processed = << >> /\ fed = << >>

\* While a message is fed, what has been processed and what waits are that message.
OpenIsBuffered ==
    stage = "open" =>
        /\ fed \in Seq(Bytes) /\ lo \in Nat
        /\ Buffered(Context)
        /\ Cat(processed, Waiting(Context)) = fed

IInv ==
    /\ md_info \in { "md2", "sha" }
    /\ ~exists => stage = "stale" /\ Fresh
    /\ OpenIsBuffered

\* An empty context has nothing in buffer, whatever is written there.
LEMMA FreshIsBuffered == md_info \in { "md2", "sha" } /\ Fresh => OpenIsBuffered
<1> SUFFICES ASSUME md_info \in { "md2", "sha" }, Fresh PROVE OpenIsBuffered
  OBVIOUS
<1>1. (0 % BlockSize) = 0 /\ 0 \in 0..(BlockSize - 1)
  BY Constants, ModSmall
<1>2. Context.lo = 0 /\ Context.left = 0 /\ Context.processed = << >>
  BY DEF Fresh, Context
<1>3. Left(Context) = 0
  BY <1>1, <1>2 DEF Left
<1>4. Waiting(Context) = << >>
  BY <1>3, NothingWaits
<1>5. << >> \in Seq(Bytes) /\ Len(<< >>) = 0
  BY EmptySeq
<1>6. Cat(<< >>, << >>) = << >>
  BY <1>5, CatEmpty
<1>7. Buffered(Context)
  BY <1>1, <1>2, <1>3, <1>4, <1>5 DEF Buffered
<1> QED
  BY <1>4, <1>5, <1>6, <1>7 DEF Fresh, OpenIsBuffered

\* A chunk is a sequence of bytes no longer than MaxChunk.
LEMMA ChunkType ==
    ASSUME NEW chunk \in NextChunks, stage = "open", fed \in Seq(Bytes)
    PROVE  chunk \in Seq(Bytes) /\ Len(chunk) \in Nat /\ Len(chunk) <= MaxChunk
<1>1. PICK m \in Messages, n \in Int :
        /\ n \in Len(fed)..Len(m) /\ n - Len(fed) <= MaxChunk
        /\ chunk = SubSeq(m, Len(fed) + 1, n)
  BY DEF NextChunks
<1>2. m \in Seq(Bytes) /\ MaxChunk \in Nat
  BY DigestConstants
<1>3. Len(m) \in Nat /\ Len(fed) \in Nat
  BY <1>2, LenProperties
<1>4. \A i \in (Len(fed) + 1)..n : m[i] \in Bytes
  BY <1>1, <1>2, <1>3, ElementOfSeq
<1>5. /\ SubSeq(m, Len(fed) + 1, n) \in Seq(Bytes)
      /\ Len(SubSeq(m, Len(fed) + 1, n))
           = IF Len(fed) + 1 <= n THEN n - (Len(fed) + 1) + 1 ELSE 0
  BY <1>3, <1>4, SubSeqProperties
<1>6. (IF Len(fed) + 1 <= n THEN n - (Len(fed) + 1) + 1 ELSE 0) = n - Len(fed)
  BY <1>1, <1>3
<1>7. n - Len(fed) \in Nat
  BY <1>1, <1>3
<1> QED
  BY <1>1, <1>5, <1>6, <1>7

\* An update in the middle of a message.
LEMMA UpdateKeeps ==
    ASSUME IInv, stage = "open", NEW chunk \in Seq(Bytes), Update(chunk)
    PROVE  OpenIsBuffered'
<1> DEFINE r == IF md_info = "md2" THEN Md2Update(Context, chunk) ELSE ShaUpdate(Context, chunk)
<1>1. /\ md_info \in { "md2", "sha" } /\ fed \in Seq(Bytes) /\ lo \in Nat /\ Context.lo = lo
      /\ Buffered(Context) /\ Cat(processed, Waiting(Context)) = fed
      /\ Context.processed = processed
  BY DEF IInv, OpenIsBuffered, Context
<1>2. Takes(Context, chunk, r)
  <2>1. CASE md_info = "md2"
    BY <1>1, <2>1, Md2UpdateTakes
  <2>2. CASE md_info = "sha"
    BY <1>1, <2>2, ShaUpdateTakes
  <2> QED
    BY <1>1, <2>1, <2>2
<1>3. r.lo \in Nat
  <2>1. CASE md_info = "md2"
    BY <1>1, <2>1 DEF Md2Update, Context
  <2>2. CASE md_info = "sha"
    <3>1. r.lo = (lo + Len(chunk)) % Word
      BY <1>1, <2>2 DEF ShaUpdate
    <3>2. lo + Len(chunk) \in Nat
      BY <1>1, LenProperties
    <3>3. (lo + Len(chunk)) % Word \in 0..(Word - 1)
      <4> DEFINE n == lo + Len(chunk)
      <4> HIDE DEF n
      <4>1. n \in Nat => n % Word \in 0..(Word - 1)
        BY Constants, DivMod
      <4> QED
        BY <3>2, <4>1 DEF n
    <3> QED
      BY <3>1, <3>3, Constants
  <2> QED
    BY <1>1, <2>1, <2>2
<1>4. Becomes(r) /\ md_info' = md_info /\ stage' = "open" /\ fed' = Cat(fed, chunk)
  BY DEF Update, Cat
<1> HIDE DEF r
<1>5. /\ lo' = r.lo /\ left' = r.left /\ processed' = r.processed /\ buffer' = r.buffer
      /\ Context.lo' = r.lo /\ Context.left' = r.left /\ Context.buffer' = r.buffer
      /\ Context.processed' = r.processed
  BY <1>4 DEF Becomes, Context
<1>6. Left(Context)' = Left(r)
  BY <1>4, <1>5 DEF Left
<1>7. Waiting(Context)' = Waiting(r)
  BY <1>5, <1>6 DEF Waiting
<1>8. Buffered(Context)'
  BY <1>2, <1>5, <1>6, <1>7 DEF Takes, Buffered
<1>9. Cat(processed', Waiting(Context)') = fed'
  BY <1>1, <1>2, <1>4, <1>5, <1>7 DEF Takes
<1>10. Cat(fed, chunk) \in Seq(Bytes)
  BY <1>1, CatType
<1> QED
  BY <1>3, <1>4, <1>5, <1>8, <1>9, <1>10 DEF OpenIsBuffered

LEMMA InitIInv == Init => IInv
BY DEF Init, IInv, Fresh, OpenIsBuffered

LEMMA NextIInv == IInv /\ [Next]_vars => IInv'
<1> SUFFICES ASSUME IInv, [Next]_vars PROVE IInv'
  OBVIOUS
<1>1. CASE Create
  <2>1. md_info' = md_info /\ exists' = TRUE /\ Fresh'
    BY <1>1 DEF Create, IInv, Fresh, ctx
  <2>2. md_info' \in { "md2", "sha" }
    BY <2>1 DEF IInv
  <2>3. OpenIsBuffered'
    <3>1. (md_info \in { "md2", "sha" } /\ Fresh => OpenIsBuffered)'
      BY FreshIsBuffered, PTL
    <3> QED
      BY <2>1, <2>2, <3>1
  <2> QED
    BY <2>1, <2>2, <2>3 DEF IInv
<1>2. CASE Reset
  <2>1. md_info' = md_info /\ exists' = TRUE /\ Fresh'
    BY <1>2 DEF Reset, Becomes, Starts, Context, Fresh
  <2>2. md_info' \in { "md2", "sha" }
    BY <2>1 DEF IInv
  <2>3. OpenIsBuffered'
    <3>1. (md_info \in { "md2", "sha" } /\ Fresh => OpenIsBuffered)'
      BY FreshIsBuffered, PTL
    <3> QED
      BY <2>1, <2>2, <3>1
  <2> QED
    BY <2>1, <2>2, <2>3 DEF IInv
<1>3. ASSUME NEW chunk \in NextChunks, Update(chunk) PROVE IInv'
  <2>1. md_info' = md_info /\ exists' = TRUE
    BY <1>3 DEF Update
  <2>2. OpenIsBuffered'
    <3>1. CASE stage = "open"
      <4>1. chunk \in Seq(Bytes)
        BY <3>1, ChunkType DEF IInv, OpenIsBuffered
      <4> QED
        BY <1>3, <3>1, <4>1, UpdateKeeps
    <3>2. CASE stage # "open"
      BY <1>3, <3>2 DEF Update, OpenIsBuffered
    <3> QED
      BY <3>1, <3>2
  <2> QED
    BY <2>1, <2>2 DEF IInv
<1>4. CASE Finish
  <2>1. md_info' = md_info /\ exists' = TRUE /\ stage' # "open"
    BY <1>4 DEF Finish
  <2> QED
    BY <2>1 DEF IInv, OpenIsBuffered
<1>5. CASE UNCHANGED vars
  <2>1. /\ md_info' = md_info /\ exists' = exists /\ stage' = stage /\ fed' = fed
        /\ lo' = lo /\ hi' = hi /\ left' = left /\ processed' = processed /\ buffer' = buffer
    BY <1>5 DEF vars, ctx
  <2> QED
    BY <2>1 DEF IInv, Fresh, OpenIsBuffered, Buffered, Waiting, Left, Context
<1> QED
  BY <1>1, <1>2, <1>3, <1>4, <1>5 DEF Next

\* The invariant, of every behaviour.
LEMMA Invariant == Spec => []IInv
BY InitIInv, NextIInv, PTL DEF Spec

\* However a message is cut into chunks, what sha1_update and md2_update have processed and
\* what they keep in buffer are that message, in whole blocks and a rest of less than one.
THEOREM BufferingLosesNothing == Spec => []StateHoldsInput
<1>1. IInv => StateHoldsInput
  BY DEF IInv, OpenIsBuffered, Buffered, StateHoldsInput, Context, Cat
<1> QED
  BY <1>1, Invariant, PTL

-----------------------------------------------------------------------------
(* The length in two words.                                                *)

\* The words l and h count t.
Counts(l, h, t) ==
    /\ l \in 0..(Word - 1) /\ h \in 0..(Word - 1)
    /\ l + Word * h = t % (Word * Word)

\* Two words count n more, if n fits one word: the low one wraps if and only if it is then
\* less than n.
LEMMA TwoWords ==
    ASSUME NEW l, NEW h, NEW t \in Nat, Counts(l, h, t),
           NEW n \in 0..(Word - 1),
           NEW l2, l2 = (l + n) % Word,
           NEW h2, h2 = IF l2 < n THEN (h + 1) % Word ELSE h
    PROVE  Counts(l2, h2, t + n)
<1> DEFINE w == Word
           d == w * w
           q == t \div d
<1>0. /\ w \in Nat \ {0} /\ l \in 0..(w - 1) /\ h \in 0..(w - 1) /\ n \in 0..(w - 1)
      /\ l + w * h = t % (w * w)
      /\ l2 = (l + n) % w
      /\ h2 = IF l2 < n THEN (h + 1) % w ELSE h
  BY Constants DEF Counts
<1> SUFFICES l2 \in 0..(w - 1) /\ h2 \in 0..(w - 1) /\ l2 + w * h2 = (t + n) % (w * w)
  BY DEF Counts
<1> HIDE DEF w
<1> USE <1>0
<1>1. d \in Nat \ {0} /\ w > 0
  OBVIOUS
<1>2. q \in Nat /\ t = d * q + (l + w * h)
  <2>1. t \div d \in Nat /\ t = d * (t \div d) + (t % d)
    <3> HIDE DEF d
    <3> QED
      BY <1>1, DivMod
  <2> QED
    BY <2>1
<1>3. CASE l + n < w
  <2>1. l2 = l + n
    <3>1. l + n \in 0..(w - 1)
      BY <1>3
    <3> QED
      BY <3>1, ModSmall
  <2>2. h2 = h
    BY <2>1
  <2>3. (l2 + w * h) \in 0..(d - 1)
    <3>1. h + 1 <= w /\ l2 + 1 <= w /\ l2 \in Nat
      BY <1>3, <2>1
    <3>2. w * (h + 1) <= w * w
      BY <3>1
    <3> QED
      BY <3>1, <3>2
  <2>4. t + n = d * q + (l2 + w * h)
    BY <1>2, <2>1
  <2>5. (d * q + (l2 + w * h)) % d = l2 + w * h
    <3> DEFINE r == l2 + w * h
    <3>1. r \in 0..(d - 1)
      BY <2>3
    <3> HIDE DEF r, d, q
    <3>2. (d * q + r) % d = r
      BY <1>1, <1>2, <3>1, ModUnique
    <3> QED
      BY <3>2 DEF r
  <2>6. (t + n) % d = l2 + w * h2
    BY <2>2, <2>4, <2>5
  <2>7. l2 \in 0..(w - 1)
    BY <1>3, <2>1
  <2> QED
    BY <2>2, <2>6, <2>7
<1>4. CASE l + n >= w
  <2>1. l2 = l + n - w /\ l2 < n /\ l2 \in 0..(w - 1)
    <3> DEFINE r == l + n - w
    <3>1. r \in 0..(w - 1) /\ r < n /\ w * 1 + r = l + n
      BY <1>4
    <3> HIDE DEF r
    <3>2. (w * 1 + r) % w = r
      BY <3>1, ModUnique
    <3> QED
      BY <3>1, <3>2 DEF r
  <2>2. h2 = (h + 1) % w
    BY <2>1
  <2>3. CASE h + 1 < w
    <3>1. h2 = h + 1 /\ h2 \in 0..(w - 1)
      <4>1. h + 1 \in 0..(w - 1)
        BY <2>3
      <4> QED
        BY <2>2, <4>1, ModSmall
    <3>2. (l2 + w * h2) \in 0..(d - 1)
      <4>1. h2 + 1 <= w /\ l2 + 1 <= w /\ l2 \in Nat /\ h2 \in Nat
        BY <2>1, <3>1
      <4>2. w * (h2 + 1) <= w * w
        BY <4>1
      <4> QED
        BY <4>1, <4>2
    <3>3. t + n = d * q + (l2 + w * h2)
      <4>1. w * h2 = w * h + w
        BY <3>1
      <4> DEFINE a == w * h
                 b == w * h2
                 e == d * q
      <4>2. a \in Nat /\ e \in Nat /\ b = a + w /\ t = e + (l + a)
        BY <1>1, <1>2, <4>1
      <4> HIDE DEF a, b, e
      <4>3. t + n = e + (l2 + b)
        BY <2>1, <4>2
      <4> QED
        BY <4>3 DEF b, e
    <3>4. (d * q + (l2 + w * h2)) % d = l2 + w * h2
      <4> DEFINE r == l2 + w * h2
      <4>1. r \in 0..(d - 1)
        BY <3>2
      <4> HIDE DEF r, d, q
      <4>2. (d * q + r) % d = r
        BY <1>1, <1>2, <4>1, ModUnique
      <4> QED
        BY <4>2 DEF r
    <3> QED
      BY <2>1, <3>1, <3>3, <3>4
  <2>4. CASE h + 1 = w
    <3>1. h2 = 0
      BY <2>2, <2>4, ModSmall
    <3>2. t + n = d * (q + 1) + l2
      <4>1. w * h + w = d
        <5>1. w * (h + 1) = w * h + w
          OBVIOUS
        <5> QED
          BY <2>4, <5>1
      <4>2. d * (q + 1) = d * q + d
        <5>1. d \in Nat /\ q \in Nat
          BY <1>2
        <5> HIDE DEF d, q
        <5> QED
          BY <5>1
      <4> DEFINE a == w * h
                 e == d * q
                 f == d * (q + 1)
      <4>3. /\ a \in Nat /\ e \in Nat /\ d \in Nat /\ a + w = d /\ t = e + (l + a)
            /\ f = e + d
        <5>1. d \in Nat /\ q \in Nat /\ d * q \in Nat /\ w * h \in Nat
          BY <1>2
        <5> HIDE DEF d, q
        <5> QED
          BY <1>2, <4>1, <4>2, <5>1
      <4> HIDE DEF a, e, f, d
      <4>4. t + n = f + l2
        BY <2>1, <4>3
      <4> QED
        BY <4>4 DEF f
    <3>3. l2 \in 0..(d - 1)
      <4>1. w <= w * w
        OBVIOUS
      <4> QED
        BY <2>1, <4>1
    <3>4. (d * (q + 1) + l2) % d = l2
      <4>1. q + 1 \in Nat
        BY <1>2
      <4> HIDE DEF d, q
      <4> QED
        BY <1>1, <3>3, <4>1, ModUnique
    <3> QED
      BY <2>1, <3>1, <3>2, <3>4
  <2> QED
    BY <2>3, <2>4
<1> QED
  BY <1>3, <1>4

\* The two words are words, and count what has been fed.
WordsCount ==
    stage = "open" /\ md_info = "sha" => Counts(lo, hi, Len(fed))

LEMMA FreshCounts == Fresh => WordsCount
<1> SUFFICES ASSUME Fresh PROVE WordsCount
  OBVIOUS
<1>1. 0 \in 0..(Word - 1) /\ Word * 0 = 0 /\ Len(<< >>) = 0
  BY Constants
<1>2. (0 % (Word * Word)) = 0
  <2> DEFINE d == Word * Word
  <2>1. d \in Nat \ {0}
    BY Constants
  <2> HIDE DEF d
  <2>2. (0 % d) = 0
    BY <2>1, ModSmall
  <2> QED
    BY <2>2 DEF d
<1> QED
  BY <1>1, <1>2 DEF Fresh, WordsCount, Counts

LEMMA NextCounts ==
    ASSUME MaxChunk < Word
    PROVE  IInv /\ WordsCount /\ [Next]_vars => WordsCount'
<1> SUFFICES ASSUME IInv, WordsCount, [Next]_vars PROVE WordsCount'
  OBVIOUS
<1>1. CASE Create
  <2>1. Fresh'
    BY <1>1 DEF Create, IInv, Fresh, ctx
  <2>2. (Fresh => WordsCount)'
    BY FreshCounts, PTL
  <2> QED
    BY <2>1, <2>2
<1>2. CASE Reset
  <2>1. Fresh'
    BY <1>2 DEF Reset, Becomes, Starts, Context, Fresh
  <2>2. (Fresh => WordsCount)'
    BY FreshCounts, PTL
  <2> QED
    BY <2>1, <2>2
<1>3. ASSUME NEW chunk \in NextChunks, Update(chunk) PROVE WordsCount'
  <2>1. CASE stage = "open" /\ md_info = "sha"
    <3>1. fed \in Seq(Bytes)
      BY <2>1 DEF IInv, OpenIsBuffered
    <3>2. chunk \in Seq(Bytes) /\ Len(chunk) \in 0..(Word - 1)
      <4>1. chunk \in Seq(Bytes) /\ Len(chunk) \in Nat /\ Len(chunk) <= MaxChunk
        BY <2>1, <3>1, ChunkType
      <4> QED
        BY <4>1, DigestConstants
    <3>3. Counts(lo, hi, Len(fed))
      BY <2>1, SMTT(30) DEF WordsCount
    <3>4. /\ lo' = (lo + Len(chunk)) % Word
          /\ hi' = IF (lo + Len(chunk)) % Word < Len(chunk) % Word
                   THEN (hi + 1) % Word ELSE hi
      BY <1>3, <2>1 DEF Update, Becomes, ShaUpdate, Carry, Context
    <3>5. Len(chunk) % Word = Len(chunk)
      BY <3>2, Constants, ModSmall
    <3>6. hi' = IF lo' < Len(chunk) THEN (hi + 1) % Word ELSE hi
      BY <3>4, <3>5
    <3>7. /\ fed' = fed \o chunk /\ md_info' = md_info
      BY <1>3, <2>1 DEF Update
    <3>8. Len(fed') = Len(fed) + Len(chunk) /\ Len(fed) \in Nat
      BY <3>1, <3>2, <3>7, ConcatProperties, LenProperties
    <3>9. Counts(lo', hi', Len(fed) + Len(chunk))
      BY <3>2, <3>3, <3>4, <3>6, <3>8, TwoWords
    <3> QED
      BY <3>8, <3>9 DEF WordsCount
  <2>2. CASE ~(stage = "open" /\ md_info = "sha")
    BY <1>3, <2>2 DEF Update, WordsCount
  <2> QED
    BY <2>1, <2>2
<1>4. CASE Finish
  BY <1>4 DEF Finish, WordsCount
<1>5. CASE UNCHANGED vars
  BY <1>5 DEF vars, ctx, WordsCount
<1> QED
  BY <1>1, <1>2, <1>3, <1>4, <1>5 DEF Next

\* If every chunk is shorter than a word counts (4 GiB for words of 32 bits), total is the
\* length of the message, modulo what two words hold.
THEOREM LengthIsCounted ==
    ASSUME MaxChunk < Word
    PROVE  Spec => []LengthCounted
<1>1. Init => WordsCount
  BY DEF Init, WordsCount
<1>2. IInv /\ WordsCount /\ [Next]_vars => WordsCount'
  BY NextCounts
<1>3. WordsCount => LengthCounted
  BY DEF WordsCount, Counts, LengthCounted
<1> QED
  BY <1>1, <1>2, <1>3, Invariant, PTL DEF Spec

-----------------------------------------------------------------------------
(* The contract.                                                           *)

\* The quotient is unique as well.
LEMMA DivUnique ==
    ASSUME NEW d \in Nat \ {0}, NEW q \in Nat, NEW r \in 0..(d - 1)
    PROVE  (d * q + r) \div d = q
<1> DEFINE n == d * q + r
<1>1. n \in Nat
  OBVIOUS
<1>2. n \div d \in Nat /\ n = d * (n \div d) + (n % d)
  BY <1>1, DivMod
<1>3. n % d = r
  BY ModUnique
<1> DEFINE e == n \div d
<1>4. e \in Nat /\ d * q = d * e
  BY <1>2, <1>3
<1> HIDE DEF e
<1>5. q = e
  <2>1. CASE q < e
    <3>1. d * (q + 1) <= d * e
      BY <1>4, <2>1
    <3>2. d * (q + 1) = d * q + d
      OBVIOUS
    <3> QED
      BY <1>4, <3>1, <3>2
  <2>2. CASE e < q
    <3>1. d * (e + 1) <= d * q
      BY <1>4, <2>2
    <3>2. d * (e + 1) = d * e + d
      BY <1>4
    <3> QED
      BY <1>4, <3>1, <3>2
  <2> QED
    BY <1>4, <2>1, <2>2
<1> QED
  BY <1>5 DEF e

\* The length in bits, as sha1_finish computes its two words from those of the length in
\* bytes.
High(l, h) == (l \div (Word \div 8)) + ((h * 8) % Word)

Low(l) == (l * 8) % Word

\* These two words are the length in bits modulo what two words hold: the low three bits that
\* the shift of the high word makes free take the three bits that the low word loses.
LEMMA LengthInBits ==
    ASSUME NEW l, NEW h, NEW t \in Nat, Counts(l, h, t)
    PROVE  /\ High(l, h) \in 0..(Word - 1) /\ Low(l) \in 0..(Word - 1)
           /\ High(l, h) = ((8 * t) \div Word) % Word
           /\ Low(l) = (8 * t) % Word
<1> DEFINE W == Word
           w == W \div 8
           a == l \div w
           r == l % w
           c == (h * 8) \div W
           d == (h * 8) % W
           q == t \div (W * W)
<1>1. /\ W \in Nat \ {0} /\ w \in Nat \ {0} /\ W = 8 * w
      /\ l \in 0..(W - 1) /\ h \in 0..(W - 1)
      /\ l + W * h = t % (W * W)
  BY DigestConstants DEF Counts
<1>2. a \in Nat /\ r \in 0..(w - 1) /\ l = w * a + r
  <2>1. l \in Nat /\ w \in Nat \ {0}
    BY <1>1
  <2> HIDE DEF w
  <2> QED
    BY <2>1, DivMod
<1>3. c \in Nat /\ d \in 0..(W - 1) /\ 8 * h = W * c + d
  <2>1. h * 8 \in Nat /\ W \in Nat \ {0} /\ h * 8 = 8 * h
    BY <1>1
  <2> DEFINE n == h * 8
  <2> HIDE DEF W, n
  <2>2. n \div W \in Nat /\ n % W \in 0..(W - 1) /\ n = W * (n \div W) + (n % W)
    BY <2>1, DivMod DEF n
  <2> QED
    BY <2>1, <2>2 DEF n
<1>4. q \in Nat /\ t = (W * W) * q + (l + W * h)
  <2> DEFINE m == W * W
  <2>1. m \in Nat \ {0}
    BY <1>1
  <2> HIDE DEF m
  <2>2. t \div m \in Nat /\ t = m * (t \div m) + (t % m)
    BY <2>1, DivMod
  <2> QED
    BY <1>1, <2>2 DEF m
<1>6. High(l, h) = a + d /\ Low(l) = (l * 8) % W
  BY DEF High, Low
<1> HIDE DEF a, r, c, d, q, w, W
<1>7. a <= 7
  <2>1. w * a < w * 8
    BY <1>1, <1>2
  <2>2. CASE a >= 8
    <3>1. w * a >= w * 8
      BY <1>1, <1>2, <2>2
    <3> QED
      BY <1>1, <1>2, <2>1, <3>1
  <2> QED
    BY <1>2, <2>2
<1>8. d + 8 <= W
  <2>1. d = 8 * (h - w * c)
    <3>1. W * c = 8 * (w * c)
      BY <1>1, <1>3
    <3> QED
      BY <1>1, <1>3, <3>1
  <2> DEFINE e == h - w * c
  <2>2. e \in Int /\ d = 8 * e
    BY <1>1, <1>3, <2>1
  <2> HIDE DEF e
  <2> QED
    BY <1>1, <1>3, <2>2
<1>9. 8 * r \in 0..(W - 1)
  BY <1>1, <1>2
<1>10. Low(l) = 8 * r
  <2>1. l * 8 = W * a + 8 * r
    BY <1>1, <1>2
  <2>2. (W * a + 8 * r) % W = 8 * r
    BY <1>1, <1>2, <1>9, ModUnique
  <2> QED
    BY <1>6, <2>1, <2>2
<1> DEFINE k == 8 * q + c
           u == W * k + (a + d)
<1>11. k \in Nat /\ a + d \in 0..(W - 1) /\ u \in Nat
  BY <1>1, <1>2, <1>3, <1>4, <1>7, <1>8
<1>12. 8 * t = W * u + 8 * r
  <2>1. 8 * ((W * W) * q) = W * (W * (8 * q))
    BY <1>1, <1>4
  <2>2. 8 * (W * h) = W * (W * c + d)
    BY <1>1, <1>3
  <2>3. 8 * l = W * a + 8 * r
    BY <1>1, <1>2
  <2>4. W * u = W * (W * (8 * q)) + W * (W * c + d) + W * a
    BY <1>1, <1>2, <1>3, <1>4
  <2> DEFINE x == W * u
             y == W * (W * (8 * q))
             z == W * (W * c + d)
             v == W * a
             f == W * h
             g == (W * W) * q
  <2>5. /\ x \in Nat /\ y \in Nat /\ z \in Nat /\ v \in Nat /\ f \in Nat /\ g \in Nat
    BY <1>1, <1>2, <1>3, <1>4, <1>11
  <2>6. 8 * g = y /\ 8 * f = z /\ 8 * l = v + 8 * r /\ x = y + z + v /\ t = g + (l + f)
    BY <1>4, <2>1, <2>2, <2>3, <2>4
  <2>7. l \in Nat /\ r \in Nat
    BY <1>1, <1>2
  <2> HIDE DEF x, y, z, v, f, g
  <2>8. 8 * t = x + 8 * r
    BY <2>5, <2>6, <2>7
  <2> QED
    BY <2>8 DEF x
<1> HIDE DEF u
<1>13. (8 * t) % W = 8 * r /\ (8 * t) \div W = u
  <2> DEFINE s == 8 * r
  <2>1. s \in 0..(W - 1) /\ 8 * t = W * u + s
    BY <1>9, <1>12
  <2> HIDE DEF s
  <2>2. (W * u + s) % W = s /\ (W * u + s) \div W = u
    BY <1>1, <1>11, <2>1, ModUnique, DivUnique
  <2> QED
    BY <2>1, <2>2 DEF s
<1>14. u % W = a + d
  <2> DEFINE s == a + d
  <2>1. s \in 0..(W - 1) /\ u = W * k + s
    BY <1>11 DEF u
  <2> HIDE DEF s, k
  <2>2. (W * k + s) % W = s
    BY <1>1, <1>11, <2>1, ModUnique
  <2> QED
    BY <2>1, <2>2 DEF s
<1> QED
  BY <1>6, <1>9, <1>10, <1>11, <1>13, <1>14 DEF W

\* One byte 128 and z bytes zero.
Padding(z) == Cat(<< 128 >>, [n \in 1..z |-> 0])

\* What sha1_finish pads with: one byte 128 and zeros.
LEMMA PaddingIsOneAndZeros ==
    ASSUME NEW z \in 0..(BlockSize - 1)
    PROVE  /\ Padding(z) \in Seq(Bytes) /\ Len(Padding(z)) = z + 1
           /\ SubSeq(sha1_padding, 1, z + 1) = Padding(z)
           /\ << 128 >> \in Seq(Bytes) /\ [n \in 1..z |-> 0] \in Seq(Bytes)
<1> DEFINE one == << 128 >>
           zero == [n \in 1..z |-> 0]
           pad == SubSeq(sha1_padding, 1, z + 1)
<1>1. z \in Nat /\ z + 1 \in 1..BlockSize /\ BlockSize \in Nat /\ 0 \in Bytes /\ 128 \in Bytes
  BY DigestConstants
<1>2. zero \in Seq(Bytes) /\ Len(zero) = z /\ \A n \in 1..z : zero[n] = 0
  BY <1>1
<1>3. one \in Seq(Bytes) /\ Len(one) = 1 /\ one[1] = 128
  BY <1>1
<1>4. /\ sha1_padding \in Seq(Bytes) /\ Len(sha1_padding) = BlockSize
      /\ \A i \in 1..BlockSize : sha1_padding[i] = IF i = 1 THEN 128 ELSE 0
  BY <1>1 DEF sha1_padding
<1> HIDE DEF zero, one
<1>5. /\ pad \in Seq(Bytes) /\ Len(pad) = z + 1
      /\ \A i \in 1..(z + 1) : pad[i] = IF i = 1 THEN 128 ELSE 0
  <2> HIDE DEF sha1_padding
  <2> QED
    BY <1>1, <1>4
<1>6. /\ Cat(one, zero) \in Seq(Bytes) /\ Len(Cat(one, zero)) = z + 1
      /\ \A i \in 1..(z + 1) : Cat(one, zero)[i] = IF i = 1 THEN 128 ELSE 0
  <2>0. one \in Seq(Bytes) /\ zero \in Seq(Bytes) /\ Len(one) = 1 /\ Len(zero) = z
    BY <1>2, <1>3
  <2>1. Cat(one, zero) \in Seq(Bytes) /\ Len(Cat(one, zero)) = Len(one) + Len(zero)
    BY <2>0, CatType
  <2>2. \A i \in 1..(z + 1) : Cat(one, zero)[i] = IF i = 1 THEN one[i] ELSE zero[i - 1]
    <3>1. \A i \in 1..(Len(one) + Len(zero)) :
             Cat(one, zero)[i] = IF i <= Len(one) THEN one[i] ELSE zero[i - Len(one)]
      BY <2>0, ConcatProperties DEF Cat
    <3> QED
      BY <1>1, <2>0, <3>1
  <2>3. \A i \in 1..(z + 1) : i = 1 \/ i - 1 \in 1..z
    BY <1>1
  <2> QED
    BY <1>1, <1>2, <1>3, <2>1, <2>2, <2>3
<1> HIDE DEF pad
<1>7. pad = Cat(one, zero)
  <2> DEFINE p == Cat(one, zero)
  <2>1. p \in Seq(Bytes) /\ Len(p) = z + 1 /\ \A i \in 1..(z + 1) : p[i] = pad[i]
    BY <1>5, <1>6
  <2> HIDE DEF p
  <2>2. pad = p
    BY <1>5, <2>1, SeqEqual
  <2> QED
    BY <2>2 DEF p
<1> QED
  BY <1>2, <1>3, <1>6, <1>7 DEF Padding, one, zero, pad

\* How many zeros make message, padding and length a number of whole blocks: there is just
\* one such number less than a block, and padn in sha1_finish is that number and one.
LEMMA ZerosAreUnique ==
    ASSUME NEW n \in Nat, NEW b \in 0..(BlockSize - 1), ((n - b) % BlockSize) = 0, n - b \in Nat
    PROVE  LET z == PadLen(b) - 1
           IN  /\ z \in 0..(BlockSize - 1)
               /\ ((n + 1 + z + LenSize) % BlockSize) = 0
               /\ z = CHOOSE y \in 0..(BlockSize - 1) : ((n + 1 + y + LenSize) % BlockSize) = 0
<1> DEFINE z == PadLen(b) - 1
           Whole(y) == ((n + 1 + y + LenSize) % BlockSize) = 0
<1>1. BlockSize \in Nat \ {0} /\ LenSize \in 1..(BlockSize - 1)
  BY DigestConstants
<1>2. /\ z \in 0..(BlockSize - 1)
      /\ b + 1 + z + LenSize = BlockSize \/ b + 1 + z + LenSize = 2 * BlockSize
  BY <1>1 DEF PadLen
<1> HIDE DEF z
<1>3. Whole(z)
  <2> DEFINE m == n - b
             k == b + 1 + z + LenSize
  <2>1. k \in Nat /\ m \in Nat /\ n + 1 + z + LenSize = k + m /\ (m % BlockSize) = 0
    BY <1>1, <1>2
  <2>2. (k % BlockSize) = 0
    <3>1. (BlockSize * 1) % BlockSize = 0 /\ (BlockSize * 2) % BlockSize = 0
      BY <1>1, ModZero
    <3>2. k = BlockSize * 1 \/ k = BlockSize * 2
      BY <1>1, <1>2
    <3> HIDE DEF k
    <3> QED
      BY <3>1, <3>2
  <2> HIDE DEF m, k
  <2>3. (k + m) % BlockSize = 0
    BY <1>1, <2>1, <2>2, ModAdd
  <2> QED
    BY <2>1, <2>3
<1>4. ASSUME NEW y \in 0..(BlockSize - 1), Whole(y) PROVE y = z
  <2> DEFINE a == n + 1 + y + LenSize
             c == n + 1 + z + LenSize
  <2>1. a \in Nat /\ c \in Nat /\ (a % BlockSize) = 0 /\ (c % BlockSize) = 0
    BY <1>1, <1>2, <1>3, <1>4
  <2>2. a - c = y - z /\ y - z < BlockSize /\ z - y < BlockSize
    BY <1>1, <1>2
  <2>3. y \in Int /\ z \in Int /\ BlockSize \in Nat
    BY <1>1, <1>2
  <2> HIDE DEF a, c
  <2>4. a < c => a + BlockSize <= c
    BY <1>1, <2>1, MultiplesApart
  <2>5. c < a => c + BlockSize <= a
    BY <1>1, <2>1, MultiplesApart
  <2> QED
    BY <2>1, <2>2, <2>3, <2>4, <2>5
<1>5. z = CHOOSE y \in 0..(BlockSize - 1) : Whole(y)
  <2>1. \E y \in 0..(BlockSize - 1) : Whole(y)
    BY <1>2, <1>3
  <2> HIDE DEF Whole
  <2>2. (CHOOSE y \in 0..(BlockSize - 1) : Whole(y)) \in 0..(BlockSize - 1)
        /\ Whole(CHOOSE y \in 0..(BlockSize - 1) : Whole(y))
    BY <2>1, Zenon
  <2> QED
    BY <1>4, <2>2
<1> QED
  BY <1>2, <1>3, <1>5 DEF z

\* sha1_finish and its like process the message, the padding and the length, in whole blocks.
LEMMA ShaFinishPads ==
    ASSUME Buffered(Context), md_info = "sha", NEW i \in Seq(Bytes),
           Cat(processed, Waiting(Context)) = i, Counts(lo, hi, Len(i))
    PROVE  ShaFinish(Context).processed = ShaPadded(i)
<1> DEFINE c == Context
           b == Left(c)
           n == Len(i)
           z == PadLen(b) - 1
           zero == [k \in 1..z |-> 0]
           pad == Padding(z)
           high == High(lo, hi)
           low == Low(lo)
           len == MsgLen(high, low)
           p == ShaUpdate(c, pad)
           r == ShaUpdate(p, len)
<1>1. /\ c.lo = lo /\ c.hi = hi /\ c.processed = processed
      /\ lo \in Nat /\ n \in Nat
  <2>1. lo \in 0..(Word - 1)
    BY DEF Counts
  <2> QED
    BY <2>1, Constants, LenProperties DEF Context
<1>2. b \in 0..(BlockSize - 1) /\ n - b \in Nat /\ ((n - b) % BlockSize) = 0
  <2>1. /\ processed \in Seq(Bytes) /\ (Len(processed) % BlockSize) = 0
        /\ b \in 0..(BlockSize - 1) /\ Waiting(c) \in Seq(Bytes) /\ Len(Waiting(c)) = b
    BY <1>1 DEF Buffered
  <2>2. n = Len(processed) + b /\ Len(processed) \in Nat
    BY <2>1, CatType, LenProperties
  <2>3. n - b = Len(processed)
    BY <2>1, <2>2
  <2> QED
    BY <2>1, <2>2, <2>3
<1>3. /\ z \in 0..(BlockSize - 1)
      /\ ((n + 1 + z + LenSize) % BlockSize) = 0
      /\ z = CHOOSE y \in 0..(BlockSize - 1) : ((n + 1 + y + LenSize) % BlockSize) = 0
  <2> HIDE DEF b, n
  <2> QED
    BY <1>1, <1>2, ZerosAreUnique
<1>4. /\ pad \in Seq(Bytes) /\ Len(pad) = z + 1
      /\ SubSeq(sha1_padding, 1, z + 1) = pad
      /\ << 128 >> \in Seq(Bytes) /\ zero \in Seq(Bytes)
  <2> HIDE DEF z
  <2> QED
    BY <1>3, PaddingIsOneAndZeros
<1>5. /\ high = ((8 * n) \div Word) % Word /\ low = (8 * n) % Word
      /\ high \in 0..(Word - 1) /\ low \in 0..(Word - 1)
  BY <1>1, LengthInBits
<1>6. len \in Seq(Bytes) /\ Len(len) = LenSize
  BY <1>5, LengthBytes
<1>7. ShaFinish(c) = r
  <2>1. z + 1 = PadLen(b)
    <3>1. PadLen(b) \in Int
      BY <1>2, DigestConstants DEF PadLen
    <3> QED
      BY <3>1
  <2>2. SubSeq(sha1_padding, 1, PadLen(Left(c))) = pad
    BY <1>4, <2>1
  <2> QED
    BY <1>1, <2>2, Zenon DEF ShaFinish, High, Low
<1> HIDE DEF pad, len, z, b, c
<1>8. Takes(c, pad, p)
  BY <1>1, <1>4, ShaUpdateTakes DEF c
<1>9. p.lo \in Nat
  <2>1. p.lo = (c.lo + Len(pad)) % Word
    BY DEF ShaUpdate
  <2> DEFINE m == c.lo + Len(pad)
  <2>2. m \in Nat
    BY <1>1, <1>4, LenProperties
  <2> HIDE DEF m, p
  <2>3. m % Word \in 0..(Word - 1)
    BY <2>2, Constants, DivMod
  <2> QED
    BY <2>1, <2>3, Constants DEF m
<1> HIDE DEF p
<1>10. Takes(p, len, r)
  BY <1>6, <1>8, <1>9, ShaUpdateTakes DEF Takes
<1> HIDE DEF r
<1>11. Cat(r.processed, Waiting(r)) = Cat(Cat(i, pad), len)
  BY <1>1, <1>8, <1>10 DEF Takes, c
<1>12. /\ r.processed \in Seq(Bytes) /\ (Len(r.processed) % BlockSize) = 0
       /\ Waiting(r) \in Seq(Bytes) /\ Len(Waiting(r)) = Left(r)
       /\ Left(r) \in 0..(BlockSize - 1)
  BY <1>10 DEF Takes, Buffered
<1>13. Waiting(r) = << >>
  <2>1. Len(r.processed) + Left(r) = n + (z + 1) + LenSize
    <3>1. Len(Cat(r.processed, Waiting(r))) = Len(r.processed) + Left(r)
      BY <1>12, CatType
    <3>2. Cat(i, pad) \in Seq(Bytes) /\ Len(Cat(i, pad)) = n + (z + 1)
      <4>1. i \in Seq(Bytes) /\ pad \in Seq(Bytes) /\ Len(i) = n /\ Len(pad) = z + 1
        BY <1>1, <1>4
      <4>2. Cat(i, pad) \in Seq(Bytes) /\ Len(Cat(i, pad)) = Len(i) + Len(pad)
        BY <4>1, CatType
      <4> QED
        BY <4>1, <4>2
    <3>3. Len(Cat(Cat(i, pad), len)) = n + (z + 1) + LenSize
      <4>1. PICK ip \in Seq(Bytes) : ip = Cat(i, pad)
        BY <3>2
      <4>2. Len(Cat(ip, len)) = Len(ip) + Len(len)
        BY <1>6, CatType
      <4> QED
        BY <1>6, <3>2, <4>1, <4>2
    <3> QED
      BY <1>11, <3>1, <3>3
  <2> DEFINE a == Len(r.processed)
             k == Left(r)
  <2>2. a \in Nat /\ k \in Nat /\ (a % BlockSize) = 0
    BY <1>12, LenProperties
  <2>3. ((a + k) % BlockSize) = 0
    <3>1. n + 1 + z + LenSize = a + k
      BY <1>1, <1>3, <2>1, DigestConstants
    <3> QED
      BY <1>3, <3>1
  <2>4. (k + a) % BlockSize = k % BlockSize /\ k % BlockSize = k /\ k + a = a + k
    <3>1. k \in 0..(BlockSize - 1)
      BY <1>12
    <3>2. BlockSize \in Nat \ {0}
      BY Constants
    <3> HIDE DEF a, k
    <3>3. (k + a) % BlockSize = k % BlockSize
      BY <2>2, <3>2, ModAdd
    <3>4. k % BlockSize = k
      BY <3>1, <3>2, ModSmall
    <3>5. k + a = a + k
      BY <2>2
    <3> QED
      BY <3>3, <3>4, <3>5
  <2>5. k = 0
    <3> HIDE DEF a, k
    <3> QED
      BY <2>3, <2>4
  <2> QED
    BY <2>5, NothingWaits
<1>14. r.processed = Cat(Cat(i, pad), len)
  BY <1>11, <1>12, <1>13, CatEmpty
<1>15. Cat(i, pad) = Cat(Cat(i, << 128 >>), zero)
  <2> DEFINE one == << 128 >>
  <2>1. one \in Seq(Bytes) /\ pad = Cat(one, zero)
    BY <1>4 DEF pad, Padding
  <2> HIDE DEF one, zero
  <2>2. Cat(Cat(i, one), zero) = Cat(i, Cat(one, zero))
    BY <1>4, <2>1, CatAssoc
  <2> QED
    BY <2>1, <2>2 DEF one
<1>16. ShaPadded(i) = Cat(Cat(Cat(i, << 128 >>), zero), len)
  BY <1>3, <1>5, Zenon DEF ShaPadded, Cat, len
<1> QED
  BY <1>7, <1>14, <1>15, <1>16 DEF c

\* md2_finish processes the message, the padding and the checksum of both.
LEMMA Md2FinishPads ==
    ASSUME Buffered(Context), md_info = "md2", NEW i \in Seq(Bytes),
           Cat(processed, Waiting(Context)) = i
    PROVE  Md2Finish(Context).processed = Md2Padded(i)
<1> DEFINE b == Left(Context)
           text == i \o [k \in 1..(BlockSize - b) |-> BlockSize - b]
<1>1. Len(i) % BlockSize = b
  <2>1. /\ processed \in Seq(Bytes) /\ (Len(processed) % BlockSize) = 0
        /\ b \in 0..(BlockSize - 1)
        /\ Waiting(Context) \in Seq(Bytes) /\ Len(Waiting(Context)) = b
    BY DEF Buffered, Context
  <2>2. Len(i) = Len(processed) + b /\ Len(processed) \in Nat
    BY <2>1, CatType, LenProperties
  <2> DEFINE a == Len(processed)
  <2> HIDE DEF a, b
  <2>3. b \in Nat /\ a + b = b + a /\ a \in Nat
    BY <2>1, <2>2 DEF a
  <2>4. (b + a) % BlockSize = b % BlockSize /\ b % BlockSize = b
    BY <2>1, <2>3, Constants, ModAdd, ModSmall DEF a
  <2> QED
    BY <2>2, <2>3, <2>4 DEF a
<1>2. Md2Padded(i) = text \o Checksum(text)
  BY <1>1, Zenon DEF Md2Padded
<1>3. Context.processed = processed /\ processed \o Waiting(Context) = i
  BY DEF Context, Cat
<1>4. Md2Finish(Context).processed = text \o Checksum(text)
  <2> DEFINE pad == [k \in 1..Fill(Context) |-> Fill(Context)]
             t == Context.processed \o Waiting(Context) \o pad
  <2>1. t = text
    BY <1>3 DEF Fill
  <2> HIDE DEF text
  <2>2. Md2Finish(Context) = [Context EXCEPT !.processed = t \o Checksum(t), !.buffer = Checksum(t)]
    BY DEF Md2Finish
  <2> HIDE DEF t
  <2>3. Md2Finish(Context).processed = t \o Checksum(t)
    BY <2>2 DEF Context
  <2> QED
    BY <2>1, <2>3
<1> QED
  BY <1>2, <1>4

\* Nothing is out between the start of a message and its digest.
NothingOut == ~exists \/ stage = "open" => out = << >>

\* What the refinement rests on.
CInv == IInv /\ WordsCount /\ NothingOut

\* The digest of the message that has been fed.
LEMMA FinishIsComplete ==
    ASSUME CInv, stage = "open", Finish, stage' = "finished"
    PROVE  Contract!Finish
<1> DEFINE c == IF md_info = "md2" THEN Md2Finish(Context) ELSE ShaFinish(Context)
<1>1. /\ md_info \in { "md2", "sha" } /\ fed \in Seq(Bytes) /\ Buffered(Context)
      /\ Cat(processed, Waiting(Context)) = fed /\ out = << >>
      /\ md_info = "sha" => Counts(lo, hi, Len(fed))
  BY DEF CInv, IInv, OpenIsBuffered, WordsCount, NothingOut
<1>2. c.processed = IF md_info = "md2" THEN Md2Padded(fed) ELSE ShaPadded(fed)
  <2>1. CASE md_info = "md2"
    BY <1>1, <2>1, Md2FinishPads
  <2>2. CASE md_info = "sha"
    BY <1>1, <2>2, ShaFinishPads
  <2> QED
    BY <1>1, <2>1, <2>2
<1>3. out' = Append(out, c.processed) /\ fed' = fed /\ md_info' = md_info
  BY DEF Finish
<1> HIDE DEF c
<1>4. out' = << c.processed >>
  <2> DEFINE x == c.processed
  <2> HIDE DEF x
  <2>1. Append(<< >>, x) = << x >>
    OBVIOUS
  <2> QED
    BY <1>1, <1>3, <2>1 DEF x
<1>5. Complete(md_info, fed, out')
  BY <1>2, <1>4, Zenon DEF Complete
<1>6. IsPrefix(out, out')
  <2> DEFINE x == c.processed
  <2> HIDE DEF x
  <2>1. << x >> \in Seq({ x }) /\ << >> \in Seq({ x })
    OBVIOUS
  <2>2. << >> \o << x >> = << x >>
    BY <2>1, ConcatEmptySeq
  <2>3. IsPrefix(<< >>, << >> \o << x >>)
    BY <2>1, PrefixOfJoin
  <2> QED
    BY <1>1, <1>4, <2>2, <2>3 DEF x
<1> QED
  <2>1. stage = "open" /\ stage' = "finished" /\ md_info' = md_info /\ fed' = fed
    BY <1>3
  <2> QED
    BY <1>5, <1>6, <2>1 DEF Contract!Finish, Contract!IsPrefix, IsPrefix

\* Every step is a step of the contract, or none.
LEMMA NextContract ==
    CInv /\ [Next]_vars => [Contract!FNext]_(Contract!contract)
<1> SUFFICES ASSUME CInv, [Next]_vars PROVE Contract!FNext \/ UNCHANGED Contract!contract
  OBVIOUS
<1>1. CASE Create
  BY <1>1 DEF Create, CInv, IInv, NothingOut, Fresh, Contract!FNext, Contract!Begin
<1>2. CASE Reset
  BY <1>2 DEF Reset, Contract!FNext, Contract!Begin
<1>3. ASSUME NEW chunk \in NextChunks, Update(chunk) PROVE Contract!FNext
  <2>1. CASE stage = "open"
    <3>1. fed \in Seq(Bytes) /\ out = << >>
      BY <2>1 DEF CInv, IInv, OpenIsBuffered, NothingOut
    <3>2. chunk \in Seq(Bytes)
      BY <2>1, <3>1, ChunkType
    <3>3. fed' = fed \o chunk /\ out' = out
      BY <1>3, <2>1 DEF Update
    <3>6. md_info' = md_info /\ stage' = "open"
      BY <1>3, <2>1 DEF Update
    <3>4. IsPrefix(fed, fed')
      BY <3>1, <3>2, <3>3, PrefixOfJoin
    <3>5. IsPrefix(out, out')
      <4>1. << >> \in Seq(Bytes)
        OBVIOUS
      <4> QED
        BY <3>1, <3>3, <4>1, PrefixOfItself
    <3> QED
      BY <2>1, <3>4, <3>5, <3>6 DEF Contract!FNext, Contract!Update, Contract!IsPrefix, IsPrefix
  <2>2. CASE stage # "open"
    BY <1>3, <2>2 DEF Update, Contract!FNext, Contract!Outside
  <2> QED
    BY <2>1, <2>2
<1>4. CASE Finish
  <2>1. CASE stage = "open" /\ stage' = "finished"
    BY <1>4, <2>1, FinishIsComplete DEF Contract!FNext
  <2>2. CASE stage = "open" /\ stage' # "finished"
    BY <1>4, <2>2 DEF Finish, Contract!FNext, Contract!Abandon
  <2>3. CASE stage # "open"
    BY <1>4, <2>3 DEF Finish, Contract!FNext, Contract!Outside
  <2> QED
    BY <2>1, <2>2, <2>3
<1>5. CASE UNCHANGED vars
  BY <1>5 DEF vars, ctx, Contract!contract
<1> QED
  BY <1>1, <1>2, <1>3, <1>4, <1>5 DEF Next

\* A digest object keeps the contract of all filters, with the padding of the RFCs as what
\* finish has to return: however the message is cut, the bytes that went through the
\* compression function are the message, its padding and its length (for MD2, its padding and
\* the checksum), and after reset() the object is as good as new.
THEOREM DigestKeepsContract ==
    ASSUME MaxChunk < Word
    PROVE  Spec => FilterContract
<1>1. Init => CInv /\ Contract!FInit
  BY InitIInv DEF Init, CInv, WordsCount, NothingOut, Contract!FInit
<1>2. CInv /\ [Next]_vars => CInv'
  <2>1. IInv /\ WordsCount /\ [Next]_vars => WordsCount'
    BY NextCounts
  <2>2. NothingOut /\ [Next]_vars => NothingOut'
    BY DEF NothingOut, Next, Create, Reset, Update, Finish, vars
  <2> QED
    BY <2>1, <2>2, NextIInv DEF CInv
<1>3. CInv /\ [Next]_vars => [Contract!FNext]_(Contract!contract)
  BY NextContract
<1> QED
  BY <1>1, <1>2, <1>3, PTL DEF Spec, FilterContract, Contract!FSpec
=============================================================================
