---------------------------- MODULE DeflateProofs ----------------------------
(***************************************************************************)
(* Proofs about Deflate for every size of window, hash table, symbol       *)
(* buffer and output buffer.  In three parts, each on top of the one       *)
(* before: the assertions of deflate.c never fail; every hash chain links  *)
(* positions of the window with the chain's key; and the blocks and        *)
(* symbols say the text, so that the filter keeps its contract.            *)
(***************************************************************************)
EXTENDS Deflate, ProofLemmas

-----------------------------------------------------------------------------
(* Constants and types.                                                    *)

\* The constants, as the provers need them.
LEMMA Sizes ==
    /\ WSize \in Nat /\ MaxMatch \in Nat /\ MaxMatch > 3 /\ MIN_MATCH = 3
    /\ MIN_LOOKAHEAD = MaxMatch + 4
    /\ WSize > MaxMatch + 4 /\ MAX_DIST = WSize - (MaxMatch + 4)
    /\ WindowSize = 2 * WSize
    /\ HashShift \in Nat /\ HashSize \in Nat \ {0}
    /\ LitBufSize \in Nat /\ LitBufSize > 2 /\ MaxStored \in Nat /\ MaxStored > 1
    /\ BufSize \in Nat \ {0} /\ TooFar \in Nat
BY DeflateConstants DEF MIN_MATCH, MIN_LOOKAHEAD, MAX_DIST, WindowSize

\* A line of the configuration table.
LEMMA Configured ==
    ASSUME NEW l \in Levels
    PROVE  /\ Config[l].func \in { "stored", "fast", "slow" }
           /\ Config[l].good \in Nat /\ Config[l].lazy \in Nat
           /\ Config[l].nice \in Nat /\ Config[l].chain \in Nat
BY DeflateConstants

\* The items that a deflate stream is made of.
Kinds == { "zlib", "stored", "codes", "raw", "lit", "eob", "len", "dist", "check" }
Items == [k : Kinds, n : Int, last : BOOLEAN, sum : Seq(Nat)]

Heads == [0..(HashSize - 1) -> Nat]
Prevs == [0..(WSize - 1) -> Nat]
Windows == [0..(WindowSize - 1) -> Nat]

\* The values of deflate_state.
DState ==
    [level : Levels, status : { "INIT", "BUSY", "FINISH" },
     last_flush : { "NONE", "NO_FLUSH", "FINISH" }, wrap : BOOLEAN,
     window : Windows, head : Heads, prev : Prevs,
     ins_h : 0..(HashSize - 1), strstart : Nat, block_start : Int, lookahead : Nat,
     match_length : Nat, match_start : Int,
     prev_length : Nat, prev_match : Int, match_available : BOOLEAN,
     sym : Seq(Seq(Items)), bits : Seq(Items), pending : Seq(Seq(Items)), adler : Seq(Nat)]

\* The types of its fields.
LEMMA Fields ==
    ASSUME NEW t \in DState
    PROVE  /\ t.level \in Levels /\ t.status \in { "INIT", "BUSY", "FINISH" }
           /\ t.last_flush \in { "NONE", "NO_FLUSH", "FINISH" } /\ t.wrap \in BOOLEAN
           /\ t.window \in Windows /\ t.head \in Heads /\ t.prev \in Prevs
           /\ t.ins_h \in 0..(HashSize - 1) /\ t.strstart \in Nat
           /\ t.block_start \in Int /\ t.lookahead \in Nat
           /\ t.match_length \in Nat /\ t.match_start \in Int
           /\ t.prev_length \in Nat /\ t.prev_match \in Int /\ t.match_available \in BOOLEAN
           /\ t.sym \in Seq(Seq(Items)) /\ t.bits \in Seq(Items)
           /\ t.pending \in Seq(Seq(Items)) /\ t.adler \in Seq(Nat)
BY DEF DState

\* No head or link of a chain is behind position p.
Below(t, p) ==
    /\ \A h \in 0..(HashSize - 1) : t.head[h] <= p
    /\ \A i \in 0..(WSize - 1) : t.prev[i] <= p

\* The limits of the fields, at every step.
Shape(t) ==
    /\ t \in DState
    /\ t.strstart + t.lookahead <= WindowSize
    /\ t.block_start <= t.strstart
    /\ Below(t, t.strstart)
    /\ t.match_length <= MaxMatch /\ t.prev_length <= MaxMatch
    /\ Len(t.sym) < LitBufSize /\ Len(t.bits) < 2
    /\ t.match_available => t.strstart >= 1 /\ t.block_start < t.strstart

\* u differs from t only in the hash value and the chains.
Rehashed(u, t) ==
    /\ u.level = t.level /\ u.status = t.status /\ u.last_flush = t.last_flush
    /\ u.wrap = t.wrap /\ u.window = t.window
    /\ u.strstart = t.strstart /\ u.block_start = t.block_start /\ u.lookahead = t.lookahead
    /\ u.match_length = t.match_length /\ u.match_start = t.match_start
    /\ u.prev_length = t.prev_length /\ u.prev_match = t.prev_match
    /\ u.match_available = t.match_available
    /\ u.sym = t.sym /\ u.bits = t.bits /\ u.pending = t.pending /\ u.adler = t.adler

\* u differs from t only in what has been put out.
Written(u, t) ==
    /\ u.level = t.level /\ u.window = t.window
    /\ u.head = t.head /\ u.prev = t.prev /\ u.ins_h = t.ins_h
    /\ u.strstart = t.strstart /\ u.lookahead = t.lookahead
    /\ u.match_length = t.match_length /\ u.match_start = t.match_start
    /\ u.prev_length = t.prev_length /\ u.prev_match = t.prev_match
    /\ u.match_available = t.match_available
    /\ u.adler = t.adler

-----------------------------------------------------------------------------
(* The operations.                                                         *)

LEMMA HashType ==
    ASSUME NEW h \in Nat, NEW c \in Nat
    PROVE  UpdateHash(h, c) \in 0..(HashSize - 1)
<1> DEFINE n == h * HashShift
<1>1. n \in Nat
  BY Sizes
<1> HIDE DEF n
<1>2. n % HashSize \in 0..(HashSize - 1) /\ c % HashSize \in 0..(HashSize - 1)
  BY <1>1, Sizes, DivMod
<1>3. Xor(n % HashSize, c % HashSize) \in 0..(HashSize - 1)
  BY <1>2, XorType
<1> QED
  BY <1>3 DEF UpdateHash, n

\* INSERT_STRING puts str at the head of the chain of its hash value.
LEMMA InsertStringIs ==
    ASSUME NEW t \in DState, NEW str \in Nat, str + 2 < WindowSize
    PROVE  LET u == InsertString(t, str)
               h == UpdateHash(t.ins_h, t.window[str + 2])
           IN  /\ u \in DState /\ Rehashed(u, t)
               /\ h \in 0..(HashSize - 1) /\ u.ins_h = h
               /\ u.head = [t.head EXCEPT ![h] = str]
               /\ u.prev = [t.prev EXCEPT ![str % WSize] = t.head[h]]
<1> DEFINE h == UpdateHash(t.ins_h, t.window[str + 2])
           u == InsertString(t, str)
           hd == [t.head EXCEPT ![h] = str]
           pv == [t.prev EXCEPT ![str % WSize] = t.head[h]]
<1>1. h \in 0..(HashSize - 1)
  <2>1. t.window[str + 2] \in Nat /\ t.ins_h \in Nat
    BY Fields, Sizes DEF Windows
  <2> QED
    BY <2>1, HashType
<1>2. hd \in Heads /\ pv \in Prevs
  <2>1. t.head \in Heads /\ t.prev \in Prevs
    BY Fields
  <2> HIDE DEF h
  <2>2. t.head[h] \in Nat
    BY <1>1, <2>1 DEF Heads
  <2> QED
    BY <1>1, <2>1, <2>2 DEF Heads, Prevs
<1>3. u = [t EXCEPT !.ins_h = h, !.prev = pv, !.head = hd]
  <2>1. str + MIN_MATCH - 1 = str + 2
    BY Sizes
  <2>2. t = [t EXCEPT !.ins_h = t.ins_h]
    BY DEF DState
  <2> QED
    BY <2>1, Zenon DEF InsertString
<1> HIDE DEF h, hd, pv
<1>4. [t EXCEPT !.ins_h = h, !.prev = pv, !.head = hd] \in DState
  BY <1>1, <1>2 DEF DState
<1>5. /\ [t EXCEPT !.ins_h = h, !.prev = pv, !.head = hd].ins_h = h
      /\ [t EXCEPT !.ins_h = h, !.prev = pv, !.head = hd].prev = pv
      /\ [t EXCEPT !.ins_h = h, !.prev = pv, !.head = hd].head = hd
  BY <1>1, <1>2 DEF DState
<1>6. Rehashed([t EXCEPT !.ins_h = h, !.prev = pv, !.head = hd], t)
  BY DEF Rehashed
<1> HIDE DEF u
<1> QED
  BY <1>1, <1>3, <1>4, <1>5, <1>6 DEF u, h, hd, pv

\* The fold of INSERT_STRING over strings.
Inserter == INSTANCE FoldLemmas WITH Op <- InsertString

\* The strings from..to one after the other: none, or to behind all the others.
LEMMA InsertAllSteps ==
    ASSUME NEW t, NEW from \in Nat
    PROVE  /\ \A to \in Int : to < from => InsertAll(t, from, to) = t
           /\ \A to \in Nat : to + 1 >= from =>
                InsertAll(t, from, to + 1) = InsertString(InsertAll(t, from, to), to + 1)
<1> DEFINE q(to) == [i \in 1..(to + 1 - from) |-> from + i - 1]
<1>1. \A to : InsertAll(t, from, to) = Inserter!Fold(t, q(to))
  BY DEF InsertAll, FoldLeft, MapThenFoldSet, Max,
         Inserter!Fold, Inserter!MapThenFoldSet, Inserter!Last
<1>2. ASSUME NEW to \in Int, to < from PROVE InsertAll(t, from, to) = t
  <2>1. q(to) = << >>
    BY <1>2
  <2>2. Inserter!Fold(t, << >>) = t
    BY Inserter!FoldEmpty
  <2> QED
    BY <1>1, <2>1, <2>2
<1>3. ASSUME NEW to \in Nat, to + 1 >= from
      PROVE  InsertAll(t, from, to + 1) = InsertString(InsertAll(t, from, to), to + 1)
  <2> DEFINE a == q(to)
             b == q(to + 1)
             n == to + 1 - from
  <2>1. n \in Nat
    BY <1>3
  <2>2. a \in Seq(Nat) /\ Len(a) = n /\ \A i \in 1..n : a[i] = from + i - 1
    BY <2>1
  <2>3. /\ b \in Seq(Nat) /\ Len(b) = n + 1 /\ \A i \in 1..n : b[i] = from + i - 1
        /\ b[n + 1] = to + 1
    BY <2>1
  <2> HIDE DEF a, b, n
  <2>4. b = Append(a, to + 1)
    <3> DEFINE c == Append(a, to + 1)
    <3>1. /\ c \in Seq(Nat) /\ Len(c) = n + 1 /\ c[n + 1] = to + 1
          /\ \A i \in 1..n : c[i] = a[i]
      BY <2>2, AppendProperties
    <3> HIDE DEF c
    <3>2. \A i \in 1..Len(b) : b[i] = c[i]
      BY <2>1, <2>2, <2>3, <3>1
    <3>3. b = c
      BY <2>3, <3>1, <3>2, SeqEqual
    <3> QED
      BY <3>3 DEF c
  <2>5. Inserter!Fold(t, Append(a, to + 1)) = InsertString(Inserter!Fold(t, a), to + 1)
    BY <2>2, Inserter!FoldAppend
  <2> QED
    BY <1>1, <2>4, <2>5 DEF a, b
<1> QED
  BY <1>2, <1>3

\* They change only the hash value and the chains, which do not go beyond the last one.
LEMMA InsertAllShape ==
    ASSUME NEW t \in DState, NEW from \in Nat \ {0}, NEW to \in Int, NEW m \in Nat,
           Below(t, m), to <= m, to + 2 < WindowSize
    PROVE  /\ InsertAll(t, from, to) \in DState
           /\ Rehashed(InsertAll(t, from, to), t)
           /\ Below(InsertAll(t, from, to), m)
<1> DEFINE u(k) == InsertAll(t, from, k)
           Good(k) == u(k) \in DState /\ Rehashed(u(k), t) /\ Below(u(k), m)
           T == { k \in Nat : k <= to => Good(k) }
<1>0. Rehashed(t, t) /\ \A k \in Int : k < from => u(k) = t
  BY InsertAllSteps DEF Rehashed
<1>1. \A k \in Int : k < from => Good(k)
  BY <1>0
<1>2. ASSUME NEW k \in Nat, k + 1 >= from, k + 1 <= to, Good(k) PROVE Good(k + 1)
  <2> DEFINE v == u(k)
             str == k + 1
             h == UpdateHash(v.ins_h, v.window[str + 2])
             w == InsertString(v, str)
  <2>1. u(k + 1) = w
    BY <1>2, InsertAllSteps
  <2>2. v \in DState /\ Rehashed(v, t) /\ Below(v, m)
    BY <1>2
  <2>3. str \in Nat /\ str + 2 < WindowSize /\ str <= m
    BY <1>2, Sizes
  <2> HIDE DEF v, str, w
  <2>4. /\ w \in DState /\ Rehashed(w, v) /\ h \in 0..(HashSize - 1)
        /\ w.head = [v.head EXCEPT ![h] = str]
        /\ w.prev = [v.prev EXCEPT ![str % WSize] = v.head[h]]
    BY <2>2, <2>3, InsertStringIs DEF w
  <2> HIDE DEF h
  <2>5. Rehashed(w, t)
    BY <2>2, <2>4 DEF Rehashed
  <2>6. v.head \in Heads /\ v.prev \in Prevs /\ w.head \in Heads /\ w.prev \in Prevs
    BY <2>2, <2>4, Fields
  <2>7. Below(w, m)
    <3>1. \A i \in 0..(HashSize - 1) : w.head[i] <= m
      BY <2>2, <2>3, <2>4, <2>6 DEF Below, Heads
    <3>2. v.head[h] <= m
      BY <2>2, <2>4 DEF Below
    <3>3. \A i \in 0..(WSize - 1) : w.prev[i] <= m
      BY <2>2, <2>4, <2>6, <3>2 DEF Below, Prevs
    <3> QED
      BY <3>1, <3>3 DEF Below
  <2> QED
    BY <2>1, <2>4, <2>5, <2>7
<1> HIDE DEF Good
<1>3. 0 \in T
  BY <1>1
<1>4. ASSUME NEW k \in Nat, k \in T PROVE k + 1 \in T
  <2>1. CASE k + 1 < from
    BY <1>1, <2>1
  <2>2. CASE k + 1 >= from /\ k + 1 <= to
    BY <1>2, <1>4, <2>2
  <2>3. CASE ~(k + 1 <= to)
    BY <2>3
  <2> QED
    BY <2>1, <2>2, <2>3
<1>5. Nat \subseteq T
  <2> HIDE DEF T
  <2> QED
    BY <1>3, <1>4, NatInductionInSet
<1>6. Good(to)
  <2>1. CASE to < from
    BY <1>1, <2>1
  <2>2. CASE to >= from
    BY <1>5, <2>2
  <2> QED
    BY <2>1, <2>2
<1> QED
  BY <1>6 DEF Good

\* INSERT_STRING at strstart, if three bytes are there.
LEMMA InsertHereShape ==
    ASSUME NEW t, Shape(t), t.lookahead > 0
    PROVE  /\ InsertHere(t) \in DState /\ Rehashed(InsertHere(t), t)
           /\ Below(InsertHere(t), t.strstart)
<1>1. t \in DState /\ t.strstart \in Nat /\ t.lookahead \in Nat /\ Below(t, t.strstart)
  BY Fields DEF Shape
<1>2. CASE t.lookahead < 3
  BY <1>1, <1>2, Sizes DEF InsertHere, Rehashed
<1>3. CASE t.lookahead >= 3
  <2> DEFINE str == t.strstart
             h == UpdateHash(t.ins_h, t.window[str + 2])
             w == InsertString(t, str)
  <2>1. str \in Nat /\ str + 2 < WindowSize
    BY <1>1, <1>3, Sizes DEF Shape
  <2>2. InsertHere(t) = w
    BY <1>3, Sizes DEF InsertHere
  <2> HIDE DEF str, w
  <2>3. /\ w \in DState /\ Rehashed(w, t) /\ h \in 0..(HashSize - 1)
        /\ w.head = [t.head EXCEPT ![h] = str]
        /\ w.prev = [t.prev EXCEPT ![str % WSize] = t.head[h]]
    BY <1>1, <2>1, InsertStringIs DEF w
  <2> HIDE DEF h
  <2>4. t.head \in Heads /\ t.prev \in Prevs
    BY <1>1, Fields
  <2>5. Below(t, str)
    BY <1>1 DEF str
  <2>6. \A i \in 0..(HashSize - 1) : w.head[i] <= str
    BY <2>1, <2>3, <2>4, <2>5 DEF Below, Heads
  <2>7. t.head[h] <= str
    BY <2>3, <2>5 DEF Below
  <2>8. \A i \in 0..(WSize - 1) : w.prev[i] <= str
    BY <2>3, <2>4, <2>5, <2>7 DEF Below, Prevs
  <2> QED
    BY <2>2, <2>3, <2>6, <2>8 DEF Below, str
<1> QED
  BY <1>1, <1>2, <1>3

\* When the window slides.
LEMMA SlideIs ==
    ASSUME NEW t \in DState, t.strstart >= WSize
    PROVE  LET u == Slide(t)
           IN  /\ u \in DState
               /\ u.window = [i \in 0..(WindowSize - 1) |->
                                 IF i < WSize THEN t.window[i + WSize] ELSE t.window[i]]
               /\ u.match_start = t.match_start - WSize
               /\ u.strstart = t.strstart - WSize /\ u.block_start = t.block_start - WSize
               /\ u.head = [h \in 0..(HashSize - 1) |->
                               IF t.head[h] >= WSize THEN t.head[h] - WSize ELSE 0]
               /\ u.prev = [i \in 0..(WSize - 1) |->
                               IF t.prev[i] >= WSize THEN t.prev[i] - WSize ELSE 0]
<1> DEFINE u == Slide(t)
           wi == [i \in 0..(WindowSize - 1) |->
                     IF i < WSize THEN t.window[i + WSize] ELSE t.window[i]]
           ms == t.match_start - WSize
           st == t.strstart - WSize
           bs == t.block_start - WSize
           hd == [h \in 0..(HashSize - 1) |-> IF t.head[h] >= WSize THEN t.head[h] - WSize ELSE 0]
           pv == [i \in 0..(WSize - 1) |-> IF t.prev[i] >= WSize THEN t.prev[i] - WSize ELSE 0]
           r == [t EXCEPT !.window = wi, !.match_start = ms, !.strstart = st,
                          !.block_start = bs, !.head = hd, !.prev = pv]
<1>1. u = r
  BY Zenon DEF Slide
<1>2. ms \in Int /\ st \in Nat /\ bs \in Int
  BY Fields, Sizes
<1>3. wi \in Windows
  <2>1. t.window \in [0..(WindowSize - 1) -> Nat] /\ WSize \in Nat /\ WindowSize = 2 * WSize
    BY Fields, Sizes DEF Windows
  <2> QED
    BY <2>1 DEF Windows
<1>4. hd \in Heads /\ pv \in Prevs
  <2>1. t.head \in [0..(HashSize - 1) -> Nat] /\ t.prev \in [0..(WSize - 1) -> Nat]
        /\ WSize \in Nat
    BY Fields, Sizes DEF Heads, Prevs
  <2>2. \A n \in Nat : (IF n >= WSize THEN n - WSize ELSE 0) \in Nat
    BY <2>1
  <2>3. hd \in Heads
    BY <2>1, <2>2 DEF Heads
  <2>4. pv \in Prevs
    BY <2>1, <2>2 DEF Prevs
  <2> QED
    BY <2>3, <2>4
<1> HIDE DEF wi, ms, st, bs, hd, pv
<1>5. r \in DState
  BY <1>2, <1>3, <1>4 DEF DState
<1>6. /\ r.window = wi /\ r.match_start = ms /\ r.strstart = st /\ r.block_start = bs
      /\ r.head = hd /\ r.prev = pv
  BY <1>2, <1>3, <1>4 DEF DState
<1> HIDE DEF u, r
<1> QED
  BY <1>1, <1>5, <1>6 DEF u, wi, ms, st, bs, hd, pv

\* The fields that a slide leaves alone.
LEMMA SlideKeeps ==
    ASSUME NEW t
    PROVE  LET u == Slide(t)
           IN  /\ u.level = t.level /\ u.status = t.status /\ u.last_flush = t.last_flush
               /\ u.wrap = t.wrap /\ u.ins_h = t.ins_h /\ u.lookahead = t.lookahead
               /\ u.match_length = t.match_length /\ u.prev_length = t.prev_length
               /\ u.prev_match = t.prev_match /\ u.match_available = t.match_available
               /\ u.sym = t.sym /\ u.bits = t.bits /\ u.pending = t.pending
               /\ u.adler = t.adler
BY DEF Slide

LEMMA SlideShape ==
    ASSUME NEW t, Shape(t)
    PROVE  Shape(SlideIfNeeded(t))
<1>1. CASE ~(t.strstart >= WSize + MAX_DIST)
  BY <1>1 DEF SlideIfNeeded
<1>2. CASE t.strstart >= WSize + MAX_DIST
  <2> DEFINE u == Slide(t)
  <2>1. SlideIfNeeded(t) = u /\ t \in DState /\ t.strstart >= WSize /\ t.strstart \in Nat
    BY <1>2, Fields, Sizes DEF SlideIfNeeded, Shape
  <2> HIDE DEF u
  <2>2. /\ u \in DState /\ u.strstart = t.strstart - WSize
        /\ u.block_start = t.block_start - WSize
        /\ u.head = [h \in 0..(HashSize - 1) |->
                        IF t.head[h] >= WSize THEN t.head[h] - WSize ELSE 0]
        /\ u.prev = [i \in 0..(WSize - 1) |->
                        IF t.prev[i] >= WSize THEN t.prev[i] - WSize ELSE 0]
        /\ u.lookahead = t.lookahead
        /\ u.match_length = t.match_length /\ u.prev_length = t.prev_length
        /\ u.match_available = t.match_available /\ u.sym = t.sym /\ u.bits = t.bits
    BY <2>1, SlideIs, SlideKeeps DEF u
  <2>3. Below(u, u.strstart)
    <3>1. t.head \in Heads /\ t.prev \in Prevs /\ Below(t, t.strstart)
      BY <2>1, Fields DEF Shape
    <3> DEFINE m == t.strstart - WSize
               Moved(n) == IF n >= WSize THEN n - WSize ELSE 0
    <3>2. \A n \in Nat : n <= t.strstart => Moved(n) <= m
      BY <2>1, Sizes
    <3>3. /\ \A h \in 0..(HashSize - 1) : u.head[h] = Moved(t.head[h])
          /\ \A i \in 0..(WSize - 1) : u.prev[i] = Moved(t.prev[i])
      BY <2>2
    <3> HIDE DEF m, Moved
    <3>4. \A h \in 0..(HashSize - 1) : u.head[h] <= m
      BY <3>1, <3>2, <3>3 DEF Below, Heads
    <3>5. \A i \in 0..(WSize - 1) : u.prev[i] <= m
      BY <3>1, <3>2, <3>3 DEF Below, Prevs
    <3> QED
      BY <2>2, <3>4, <3>5 DEF Below, m
  <2>4. /\ u.strstart >= 1 /\ u.strstart + u.lookahead <= WindowSize
        /\ u.block_start <= u.strstart
        /\ t.match_available => u.block_start < u.strstart
    <3>1. /\ t.strstart + t.lookahead <= WindowSize /\ t.block_start <= t.strstart
          /\ t.match_available => t.block_start < t.strstart
          /\ t.lookahead \in Nat /\ t.block_start \in Int
      BY <2>1, Fields DEF Shape
    <3> QED
      BY <1>2, <2>1, <2>2, <3>1, Sizes
  <2>5. /\ t.match_length <= MaxMatch /\ t.prev_length <= MaxMatch
        /\ Len(t.sym) < LitBufSize /\ Len(t.bits) < 2
    BY DEF Shape
  <2>6. /\ u.match_length <= MaxMatch /\ u.prev_length <= MaxMatch
        /\ Len(u.sym) < LitBufSize /\ Len(u.bits) < 2
    BY <2>2, <2>5, Zenon
  <2>7. u.match_available => u.strstart >= 1 /\ u.block_start < u.strstart
    BY <2>2, <2>4, Zenon
  <2>8. Shape(u)
    BY <2>2, <2>3, <2>4, <2>6, <2>7, Zenon DEF Shape
  <2> QED
    BY <2>1, <2>8
<1> QED
  BY <1>1, <1>2

\* read_buf behind the lookahead.
LEMMA ReadBufIs ==
    ASSUME NEW t \in DState, NEW data \in Seq(Nat),
           t.strstart + t.lookahead + Len(data) <= WindowSize
    PROVE  LET u == ReadBuf(t, data)
               end == t.strstart + t.lookahead
           IN  /\ u \in DState
               /\ u.window = [i \in 0..(WindowSize - 1) |->
                                 IF i >= end /\ i < end + Len(data)
                                 THEN data[i - end + 1] ELSE t.window[i]]
               /\ u.lookahead = t.lookahead + Len(data)
               /\ u.adler = Cat(t.adler, data)
               /\ u.lookahead >= 3 =>
                    u.ins_h = UpdateHash(u.window[t.strstart], u.window[t.strstart + 1])
<1> DEFINE end == t.strstart + t.lookahead
           wi == [i \in 0..(WindowSize - 1) |->
                     IF i >= end /\ i < end + Len(data)
                     THEN data[i - end + 1] ELSE t.window[i]]
           la == t.lookahead + Len(data)
           ad == Cat(t.adler, data)
           r == [t EXCEPT !.window = wi, !.lookahead = la, !.adler = ad]
           h == UpdateHash(wi[t.strstart], wi[t.strstart + 1])
           u == ReadBuf(t, data)
<1>1. t.strstart \in Nat /\ t.lookahead \in Nat /\ Len(data) \in Nat /\ la \in Nat /\ end \in Nat
  BY Fields, LenProperties
<1>2. wi \in Windows
  <2>1. t.window \in [0..(WindowSize - 1) -> Nat]
    BY Fields DEF Windows
  <2>2. \A i \in 0..(WindowSize - 1) :
          i >= end /\ i < end + Len(data) => data[i - end + 1] \in Nat
    <3> TAKE i \in 0..(WindowSize - 1)
    <3> HAVE i >= end /\ i < end + Len(data)
    <3>1. i - end + 1 \in 1..Len(data)
      <4> HIDE DEF end
      <4> QED
        BY <1>1
    <3> QED
      BY <3>1, ElementOfSeq
  <2> HIDE DEF end
  <2> QED
    BY <2>1, <2>2 DEF Windows
<1>3. ad \in Seq(Nat)
  BY Fields, CatType
<1>4. u = InitKey(r)
  BY Zenon DEF ReadBuf, Cat
<1> HIDE DEF wi, la, ad
<1>5. r \in DState
  BY <1>1, <1>2, <1>3 DEF DState
<1>6. r.window = wi /\ r.lookahead = la /\ r.adler = ad /\ r.strstart = t.strstart
  BY <1>1, <1>2, <1>3 DEF DState
<1> HIDE DEF r
<1>7. CASE la < 3
  <2>1. u = r
    BY <1>1, <1>4, <1>6, <1>7, Sizes DEF InitKey
  <2> QED
    BY <1>1, <1>5, <1>6, <1>7, <2>1 DEF wi, la, ad
<1>8. CASE la >= 3
  <2>1. h \in 0..(HashSize - 1)
    <3>1. wi[t.strstart] \in Nat /\ wi[t.strstart + 1] \in Nat
      <4>1. t.strstart + 1 < WindowSize
        BY <1>1, <1>8, Sizes DEF la
      <4> QED
        BY <1>1, <1>2, <4>1, Sizes, SMTT(30) DEF Windows
    <3> QED
      BY <3>1, HashType
  <2>2. u = [r EXCEPT !.ins_h = h]
    BY <1>1, <1>4, <1>6, <1>8, Sizes DEF InitKey
  <2> HIDE DEF h
  <2>3. [r EXCEPT !.ins_h = h] \in DState /\ [r EXCEPT !.ins_h = h].ins_h = h
    BY <1>5, <2>1 DEF DState
  <2>4. /\ [r EXCEPT !.ins_h = h].window = r.window
        /\ [r EXCEPT !.ins_h = h].lookahead = r.lookahead
        /\ [r EXCEPT !.ins_h = h].adler = r.adler
    OBVIOUS
  <2> HIDE DEF u
  <2> QED
    BY <1>6, <2>2, <2>3, <2>4 DEF u, h, wi, la, ad
<1> QED
  BY <1>1, <1>7, <1>8

\* The fields that read_buf leaves alone.
Unread(u, t) ==
    /\ u.level = t.level /\ u.status = t.status /\ u.last_flush = t.last_flush
    /\ u.wrap = t.wrap /\ u.head = t.head /\ u.prev = t.prev
    /\ u.strstart = t.strstart /\ u.block_start = t.block_start
    /\ u.match_length = t.match_length /\ u.match_start = t.match_start
    /\ u.prev_length = t.prev_length /\ u.prev_match = t.prev_match
    /\ u.match_available = t.match_available
    /\ u.sym = t.sym /\ u.bits = t.bits /\ u.pending = t.pending

LEMMA ReadBufKeeps ==
    ASSUME NEW t, NEW data
    PROVE  Unread(ReadBuf(t, data), t)
<1> DEFINE end == t.strstart + t.lookahead
           wi == [i \in 0..(WindowSize - 1) |->
                     IF i >= end /\ i < end + Len(data)
                     THEN data[i - end + 1] ELSE t.window[i]]
           la == t.lookahead + Len(data)
           ad == t.adler \o data
           r == [t EXCEPT !.window = wi, !.lookahead = la, !.adler = ad]
           h == UpdateHash(r.window[r.strstart], r.window[r.strstart + 1])
           u == ReadBuf(t, data)
<1>1. u = r \/ u = [r EXCEPT !.ins_h = h]
  BY Zenon DEF ReadBuf, InitKey
<1> HIDE DEF wi, la, ad
<1>2. Unread(r, t)
  BY DEF Unread
<1> HIDE DEF r, h
<1>3. Unread([r EXCEPT !.ins_h = h], r)
  BY DEF Unread
<1> HIDE DEF u
<1>4. CASE u = r
  BY <1>2, <1>4 DEF Unread, u
<1>5. CASE u = [r EXCEPT !.ins_h = h]
  <2>1. Unread(u, t)
    BY <1>2, <1>3, <1>5, Zenon DEF Unread
  <2> QED
    BY <2>1 DEF Unread, u
<1> QED
  BY <1>1, <1>4, <1>5 DEF u

\* Where a position goes in prev.
LEMMA InPrev ==
    ASSUME NEW p \in Nat
    PROVE  p % WSize \in 0..(WSize - 1)
<1>1. WSize \in Nat \ {0}
  BY Sizes
<1> QED
  BY <1>1, DivMod

\* The positions of a chain are defined one after the other.
LEMMA LinksExist ==
    ASSUME NEW t \in DState, NEW p \in Nat, NEW n \in Nat
    PROVE  \E f \in [1..n -> Nat] :
              f = [k \in 1..n |-> IF k = 1 THEN p ELSE t.prev[f[k - 1] % WSize]]
<1> DEFINE Good(f, m) ==
               /\ f \in [1..m -> Nat]
               /\ \A k \in 1..m : f[k] = IF k = 1 THEN p ELSE t.prev[f[k - 1] % WSize]
           T == { m \in Nat : \E f : Good(f, m) }
<1>1. 0 \in T
  <2> DEFINE f == [k \in 1..0 |-> p]
  <2>1. Good(f, 0)
    OBVIOUS
  <2> HIDE DEF f, Good
  <2> QED
    BY <2>1
<1>2. ASSUME NEW m \in Nat, m \in T PROVE m + 1 \in T
  <2>1. PICK f : Good(f, m)
    BY <1>2
  <2> DEFINE x == IF m = 0 THEN p ELSE t.prev[f[m] % WSize]
             g == [k \in 1..(m + 1) |-> IF k <= m THEN f[k] ELSE x]
  <2>2. x \in Nat
    <3>1. CASE m = 0
      BY <3>1
    <3>2. CASE m # 0
      <4>1. f[m] \in Nat
        BY <2>1, <3>2
      <4>2. f[m] % WSize \in 0..(WSize - 1)
        BY <4>1, InPrev
      <4>3. t.prev \in [0..(WSize - 1) -> Nat]
        BY Fields DEF Prevs
      <4> DEFINE i == f[m] % WSize
      <4> HIDE DEF i
      <4>4. t.prev[i] \in Nat
        BY <4>2, <4>3 DEF i
      <4> QED
        BY <3>2, <4>4 DEF i
    <3> QED
      BY <3>1, <3>2
  <2>3. Good(g, m + 1)
    <3>1. g \in [1..(m + 1) -> Nat]
      <4> HIDE DEF x
      <4> QED
        BY <2>1, <2>2
    <3>2. \A k \in 1..m : g[k] = f[k]
      OBVIOUS
    <3>3. g[m + 1] = x
      OBVIOUS
    <3> HIDE DEF g
    <3>4. ASSUME NEW k \in 1..(m + 1)
          PROVE  g[k] = IF k = 1 THEN p ELSE t.prev[g[k - 1] % WSize]
      <4>1. CASE k \in 1..m
        <5>1. f[k] = IF k = 1 THEN p ELSE t.prev[f[k - 1] % WSize]
          BY <2>1, <4>1
        <5>2. k # 1 => g[k - 1] = f[k - 1]
          BY <3>2, <4>1
        <5> QED
          BY <3>2, <4>1, <5>1, <5>2
      <4>2. CASE k = m + 1
        <5>1. m # 0 => k - 1 = m /\ k # 1 /\ g[m] = f[m]
          BY <3>2, <4>2
        <5> QED
          BY <3>3, <4>2, <5>1
      <4> QED
        BY <4>1, <4>2
    <3> QED
      BY <3>1, <3>4
  <2> HIDE DEF g, Good
  <2> QED
    BY <2>3
<1>3. n \in T
  <2> HIDE DEF T
  <2> QED
    BY <1>1, <1>2, NatInductionInSet
<1>4. PICK f : Good(f, n)
  BY <1>3
<1>5. f = [k \in 1..n |-> IF k = 1 THEN p ELSE t.prev[f[k - 1] % WSize]]
  BY <1>4
<1>6. f \in [1..n -> Nat]
  BY <1>4
<1> QED
  BY <1>5, <1>6

LEMMA LinksAre ==
    ASSUME NEW t \in DState, NEW p \in Nat, NEW n \in Nat
    PROVE  LET cur == Links(t, p, n)
           IN  /\ \A k \in 1..n : cur[k] \in Nat
               /\ \A k \in 1..n : cur[k] = IF k = 1 THEN p ELSE t.prev[cur[k - 1] % WSize]
<1> DEFINE Is(f) == f = [k \in 1..n |-> IF k = 1 THEN p ELSE t.prev[f[k - 1] % WSize]]
           cur == Links(t, p, n)
<1>1. PICK f \in [1..n -> Nat] : Is(f)
  BY LinksExist
<1>2. cur = CHOOSE g : Is(g)
  BY DEF Links
<1>3. Is(cur)
  <2> HIDE DEF Is, cur
  <2> QED
    BY <1>1, <1>2
<1>4. \A k \in 1..n : cur[k] = IF k = 1 THEN p ELSE t.prev[cur[k - 1] % WSize]
  <2> HIDE DEF cur
  <2> QED
    BY <1>3
<1>5. \A k \in 1..n : cur[k] \in Nat
  <2> HIDE DEF cur, Is
  <2> DEFINE T == { k \in Nat : k >= 1 /\ k <= n => cur[k] \in Nat }
  <2>1. 0 \in T
    OBVIOUS
  <2>2. ASSUME NEW k \in Nat, k \in T PROVE k + 1 \in T
    <3>1. CASE k + 1 > n
      BY <3>1
    <3>2. CASE k + 1 <= n /\ k = 0
      BY <1>4, <3>2
    <3>3. CASE k + 1 <= n /\ k # 0
      <4>1. cur[k] \in Nat /\ cur[k + 1] = t.prev[cur[k] % WSize]
        BY <1>4, <2>2, <3>3
      <4> DEFINE i == cur[k] % WSize
      <4>2. i \in 0..(WSize - 1)
        BY <4>1, InPrev
      <4>3. t.prev \in [0..(WSize - 1) -> Nat]
        BY Fields DEF Prevs
      <4> HIDE DEF i
      <4>4. t.prev[i] \in Nat
        BY <4>2, <4>3
      <4> QED
        BY <4>1, <4>4 DEF i
    <3> QED
      BY <3>1, <3>2, <3>3
  <2>3. Nat \subseteq T
    <3> HIDE DEF T
    <3> QED
      BY <2>1, <2>2, NatInductionInSet
  <2> QED
    BY <2>3
<1> QED
  BY <1>4, <1>5

\* The length of a match: the bytes before it are equal, but for the third.
LEMMA CommonLengthIs ==
    ASSUME NEW t, NEW cur
    PROVE  LET n == CommonLength(t, cur)
           IN  /\ n \in 0..MaxMatch
               /\ \A i \in 0..(n - 1) : i # 2 => t.window[cur + i] = t.window[t.strstart + i]
<1> DEFINE Differ(i) == t.window[cur + i] # t.window[t.strstart + i]
           at == { i \in 0..(MaxMatch - 1) \ { 2 } : Differ(i) }
           n == CommonLength(t, cur)
<1>1. CASE at = { }
  <2>1. n = MaxMatch
    BY <1>1 DEF CommonLength
  <2> HIDE DEF n
  <2> QED
    BY <1>1, <2>1, Sizes DEF n
<1>2. CASE at # { }
  <2>1. n = CHOOSE i \in at : \A j \in at : i <= j
    BY <1>2 DEF CommonLength
  <2>2. at \subseteq Nat
    BY Sizes
  <2>3. \E i \in at : \A j \in at : i <= j
    <3> HIDE DEF at
    <3> QED
      BY <1>2, <2>2, LeastOf
  <2>4. n \in at /\ \A j \in at : n <= j
    <3> HIDE DEF at, n
    <3> QED
      BY <2>1, <2>3
  <2> HIDE DEF n
  <2>5. n \in 0..MaxMatch
    BY <2>4, Sizes
  <2>6. ASSUME NEW i \in 0..(n - 1), i # 2, Differ(i) PROVE FALSE
    <3>1. i \in at
      BY <2>5, <2>6, Sizes
    <3> HIDE DEF at, n, Differ
    <3>2. n <= i
      BY <2>4, <3>1, Zenon
    <3> QED
      BY <2>5, <2>6, <3>2
  <2> QED
    BY <2>5, <2>6 DEF n
<1> QED
  BY <1>1, <1>2
\* The search returns what it started from, or a position of the chain that is near enough with
\* a longer match.
LEMMA LongestMatchIs ==
    ASSUME NEW t \in DState, NEW p \in Nat
    PROVE  LET r == LongestMatch(t, p)
               chain == IF t.prev_length >= Config[t.level].good
                        THEN Config[t.level].chain \div 4 ELSE Config[t.level].chain
               limit == IF t.strstart > MAX_DIST THEN t.strstart - MAX_DIST ELSE 0
               cur == Links(t, p, chain)
           IN  /\ chain \in Nat
               /\ \/ r = [len |-> Smaller(t.prev_length, t.lookahead), start |-> t.match_start]
                  \/ \E k \in 1..chain :
                        /\ \A j \in 2..k : cur[j] > limit
                        /\ CommonLength(t, cur[k]) > t.prev_length
                        /\ r = [len |-> Smaller(CommonLength(t, cur[k]), t.lookahead),
                                start |-> cur[k]]
<1> DEFINE r == LongestMatch(t, p)
           config == Config[t.level]
           chain == IF t.prev_length >= config.good THEN config.chain \div 4 ELSE config.chain
           limit == IF t.strstart > MAX_DIST THEN t.strstart - MAX_DIST ELSE 0
           nice   == Smaller(config.nice, t.lookahead)
           cur == Links(t, p, chain)
           near   == { k \in 1..chain : \A j \in 2..k : cur[j] > limit }
           len    == [k \in near |-> CommonLength(t, cur[k])]
           tried  == { k \in near : \A j \in 1..(k - 1) : len[j] <= t.prev_length \/ len[j] < nice }
           better == { k \in tried : len[k] > t.prev_length /\ \A j \in tried : len[j] <= len[k] }
           none   == [len |-> Smaller(t.prev_length, t.lookahead), start |-> t.match_start]
           best   == CHOOSE k \in better : \A j \in better : k <= j
           some(k) == [len |-> Smaller(len[k], t.lookahead), start |-> cur[k]]
<1>1. r = IF better = { } THEN none ELSE some(best)
  BY Zenon DEF LongestMatch
<1>2. chain \in Nat
  <2>1. config.chain \in Nat
    BY Fields, Configured
  <2> DEFINE n == config.chain
  <2> HIDE DEF n
  <2>2. n \in Nat => n \div 4 \in Nat
    BY DivMod
  <2> QED
    BY <2>1, <2>2 DEF n
<1>3. CASE better = { }
  <2> HIDE DEF better, some, best, r, none
  <2>1. r = none
    BY <1>1, <1>3, Zenon
  <2> QED
    BY <1>2, <2>1, Zenon DEF r, none, chain, config
<1>4. CASE better # { }
  <2>0. better \subseteq near /\ near \subseteq 1..chain
    <3> HIDE DEF len, cur
    <3> QED
      OBVIOUS
  <2>1. best \in better
    <3>1. better \subseteq Nat
      <4>1. 1..chain \subseteq Nat
        OBVIOUS
      <4> HIDE DEF better, near, chain
      <4> QED
        BY <2>0, <4>1
    <3> HIDE DEF better
    <3>2. \E k \in better : \A j \in better : k <= j
      BY <1>4, <3>1, LeastOf
    <3> QED
      BY <3>2, Zenon
  <2> HIDE DEF best
  <2>2. best \in near /\ len[best] > t.prev_length
    <3> HIDE DEF len, cur, near
    <3> QED
      BY <2>1
  <2>3. len[best] = CommonLength(t, cur[best])
    <3> HIDE DEF cur, near
    <3> QED
      BY <2>2
  <2>4. r = some(best)
    <3> HIDE DEF better, some, r, none
    <3> QED
      BY <1>1, <1>4, Zenon DEF best
  <2>5. \A j \in 2..best : cur[j] > limit
    <3> HIDE DEF cur, limit
    <3> QED
      BY <2>2
  <2> HIDE DEF len, cur, near, limit, r
  <2>6. /\ CommonLength(t, cur[best]) > t.prev_length
        /\ r = [len |-> Smaller(CommonLength(t, cur[best]), t.lookahead), start |-> cur[best]]
    BY <2>2, <2>3, <2>4
  <2>7. best \in 1..chain
    BY <2>0, <2>2
  <2> HIDE DEF chain
  <2> QED
    BY <1>2, <2>5, <2>6, <2>7, Zenon DEF cur, limit, r, chain, config
<1> QED
  BY <1>3, <1>4, Zenon

\* The match found is no longer than MAX_MATCH and the lookahead.
LEMMA LongestMatchType ==
    ASSUME NEW t, Shape(t), NEW p \in Nat
    PROVE  LET r == LongestMatch(t, p)
           IN  r.len \in Nat /\ r.len <= MaxMatch /\ r.len <= t.lookahead /\ r.start \in Int
<1> DEFINE r == LongestMatch(t, p)
           chain == IF t.prev_length >= Config[t.level].good
                    THEN Config[t.level].chain \div 4 ELSE Config[t.level].chain
           cur == Links(t, p, chain)
<1>1. /\ t \in DState /\ t.prev_length \in Nat /\ t.prev_length <= MaxMatch
      /\ t.lookahead \in Nat /\ t.match_start \in Int
  BY Fields DEF Shape
<1>2. /\ chain \in Nat
      /\ \/ r = [len |-> Smaller(t.prev_length, t.lookahead), start |-> t.match_start]
         \/ \E k \in 1..chain :
               r = [len |-> Smaller(CommonLength(t, cur[k]), t.lookahead), start |-> cur[k]]
  BY <1>1, LongestMatchIs
<1> HIDE DEF r, chain
<1>3. CASE r = [len |-> Smaller(t.prev_length, t.lookahead), start |-> t.match_start]
  BY <1>1, <1>3, Sizes DEF Smaller, r
<1>4. ASSUME NEW k \in 1..chain,
             r = [len |-> Smaller(CommonLength(t, cur[k]), t.lookahead), start |-> cur[k]]
      PROVE  r.len \in Nat /\ r.len <= MaxMatch /\ r.len <= t.lookahead /\ r.start \in Int
  <2> DEFINE c == cur[k]
             n == CommonLength(t, c)
  <2>1. c \in Nat
    BY <1>1, <1>2, LinksAre
  <2>2. n \in 0..MaxMatch
    BY CommonLengthIs
  <2> HIDE DEF n, c
  <2>3. r = [len |-> Smaller(n, t.lookahead), start |-> c]
    BY <1>4 DEF n, c
  <2> QED
    BY <1>1, <2>1, <2>2, <2>3, Sizes DEF Smaller
<1> QED
  BY <1>2, <1>3, <1>4 DEF r

-----------------------------------------------------------------------------
(* Output.                                                                 *)

\* What is put out: a byte is the sequence of the items it completes.
Bytes == Seq(Items)

\* u differs from t only in its bits and in what is pending.
Sent(u, t) ==
    /\ u.status = t.status /\ u.last_flush = t.last_flush /\ u.wrap = t.wrap
    /\ u.block_start = t.block_start /\ u.sym = t.sym
    /\ Written(u, t)

LEMMA ItemTypes ==
    /\ Simple("zlib") \in Items /\ Simple("eob") \in Items
    /\ \A c \in Nat : Lit(c) \in Items /\ RawByte(c) \in Items
    /\ \A b \in BOOLEAN : Codes(b) \in Items
    /\ \A n \in Nat, b \in BOOLEAN : Stored(n, b) \in Items
    /\ \A n \in Int : MatchLen(n) \in Items /\ MatchDist(n) \in Items
    /\ \A sum \in Seq(Nat) : Check(sum) \in Items
<1>1. ASSUME NEW k \in Kinds, NEW n \in Int, NEW b \in BOOLEAN, NEW sum \in Seq(Nat)
      PROVE  Item(k, n, b, sum) \in Items
  BY Zenon DEF Item, Items
<1>2. << >> \in Seq(Nat) /\ 0 \in Int /\ FALSE \in BOOLEAN
  BY EmptySeq
<1>0. /\ "zlib" \in Kinds /\ "stored" \in Kinds /\ "codes" \in Kinds /\ "raw" \in Kinds
      /\ "lit" \in Kinds /\ "eob" \in Kinds /\ "len" \in Kinds /\ "dist" \in Kinds
      /\ "check" \in Kinds
  BY DEF Kinds
<1>3. Simple("zlib") \in Items /\ Simple("eob") \in Items
  BY <1>0, <1>1, <1>2, Zenon DEF Simple
<1>4. \A c \in Int : Lit(c) \in Items /\ RawByte(c) \in Items /\ MatchLen(c) \in Items
                      /\ MatchDist(c) \in Items
  BY <1>0, <1>1, <1>2, Zenon DEF Lit, RawByte, MatchLen, MatchDist
<1>5. \A b \in BOOLEAN : Codes(b) \in Items
  BY <1>0, <1>1, <1>2, Zenon DEF Codes
<1>6. \A n \in Int, b \in BOOLEAN : Stored(n, b) \in Items
  BY <1>0, <1>1, <1>2, Zenon DEF Stored
<1>7. \A sum \in Seq(Nat) : Check(sum) \in Items
  BY <1>0, <1>1, <1>2, Zenon DEF Check
<1>8. Nat \subseteq Int
  OBVIOUS
<1> QED
  BY <1>3, <1>4, <1>5, <1>6, <1>7, <1>8, Zenon

\* The pairs of items that make a byte each.
Pairs(all, n) == [i \in 1..n |-> << all[2 * i - 1], all[2 * i] >>]

LEMMA PairsType ==
    ASSUME NEW all \in Seq(Items), NEW n \in Nat, 2 * n <= Len(all)
    PROVE  Pairs(all, n) \in Seq(Bytes)
<1> DEFINE X == Items
<1> HIDE DEF X
<1>1. all \in Seq(X)
  BY DEF X
<1>2. ASSUME NEW i \in 1..n PROVE << all[2 * i - 1], all[2 * i] >> \in Seq(X)
  <2>1. 2 * i - 1 \in 1..Len(all) /\ 2 * i \in 1..Len(all)
    BY <1>1
  <2>2. all[2 * i - 1] \in X /\ all[2 * i] \in X
    BY <1>1, <2>1, ElementOfSeq
  <2> DEFINE x == all[2 * i - 1]
             y == all[2 * i]
  <2> HIDE DEF x, y
  <2>3. x \in X /\ y \in X
    BY <2>2 DEF x, y
  <2>4. << x, y >> \in Seq(X)
    BY <2>3
  <2> QED
    BY <2>4 DEF x, y
<1> DEFINE B == Seq(X)
           f(i) == << all[2 * i - 1], all[2 * i] >>
<1>3. \A i \in 1..n : f(i) \in B
  BY <1>2
<1> HIDE DEF B, f
<1>4. [i \in 1..n |-> f(i)] \in Seq(B)
  BY <1>3
<1> QED
  BY <1>4 DEF Pairs, Bytes, B, f, X

\* send_bits
LEMMA SendBitsIs ==
    ASSUME NEW t \in DState, NEW items \in Seq(Items)
    PROVE  LET u == SendBits(t, items)
               all == Cat(t.bits, items)
               n == Len(all) \div 2
           IN  /\ u \in DState /\ Len(u.bits) < 2 /\ Sent(u, t)
               /\ all \in Seq(Items) /\ n \in Nat /\ 2 * n <= Len(all)
               /\ Pairs(all, n) \in Seq(Bytes)
               /\ u.pending = Cat(t.pending, Pairs(all, n))
               /\ u.bits = SubSeq(all, 2 * n + 1, Len(all))
<1> DEFINE all == Cat(t.bits, items)
           n == Len(all) \div 2
           pe == Cat(t.pending, Pairs(all, n))
           bi == SubSeq(all, 2 * n + 1, Len(all))
           u == SendBits(t, items)
           r == [t EXCEPT !.pending = pe, !.bits = bi]
<1>1. u = r
  BY Zenon DEF SendBits, Cat, Pairs
<1>2. all \in Seq(Items) /\ Len(all) \in Nat
  BY Fields, CatType, LenProperties
<1> HIDE DEF all
<1>3. n \in Nat /\ 2 * n <= Len(all) /\ Len(all) < 2 * n + 2
  <2> DEFINE m == Len(all)
  <2>1. m \in Nat
    BY <1>2
  <2> HIDE DEF m
  <2>2. m % 2 \in 0..1 /\ m \div 2 \in Nat /\ m = 2 * (m \div 2) + (m % 2)
    BY <2>1, DivMod
  <2> QED
    BY <2>1, <2>2 DEF m
<1> HIDE DEF n
<1>4. Pairs(all, n) \in Seq(Bytes)
  BY <1>2, <1>3, PairsType
<1>5. pe \in Seq(Bytes)
  <2>1. t.pending \in Seq(Bytes)
    BY Fields DEF Bytes
  <2> HIDE DEF pe
  <2> QED
    BY <1>4, <2>1, CatType DEF pe
<1>6. bi \in Seq(Items) /\ Len(bi) = Len(all) - 2 * n
  <2>1. 2 * n \in 0..Len(all)
    BY <1>2, <1>3
  <2> QED
    BY <1>2, <2>1, CutInTwo
<1> HIDE DEF pe, bi
<1>7. r \in DState
  BY <1>5, <1>6 DEF DState, Bytes
<1>8. r.pending = pe /\ r.bits = bi
  BY <1>5, <1>6 DEF DState
<1>9. Sent(r, t)
  BY DEF Sent, Written
<1>10. Len(bi) < 2
  BY <1>2, <1>3, <1>6
<1> HIDE DEF u, r
<1> QED
  BY <1>1, <1>2, <1>3, <1>4, <1>7, <1>8, <1>9, <1>10 DEF u, pe, bi, all, n

\* bi_windup
LEMMA WindUpIs ==
    ASSUME NEW t \in DState
    PROVE  LET u == WindUp(t)
           IN  /\ u \in DState /\ u.bits = << >> /\ Sent(u, t)
               /\ u.pending = IF t.bits = << >> THEN t.pending ELSE Append(t.pending, t.bits)
<1> DEFINE pe == Append(t.pending, t.bits)
           e == << >>
           r == [t EXCEPT !.pending = pe, !.bits = e]
           u == WindUp(t)
<1>1. CASE t.bits = << >>
  <2>1. u = t
    BY <1>1, Zenon DEF WindUp
  <2>2. Sent(t, t)
    BY DEF Sent, Written
  <2> HIDE DEF u
  <2> QED
    BY <1>1, <2>1, <2>2 DEF u
<1>2. CASE t.bits # << >>
  <2>1. u = r
    BY <1>2, Zenon DEF WindUp
  <2>2. pe \in Seq(Seq(Items)) /\ e \in Seq(Items)
    BY Fields, AppendProperties, EmptySeq
  <2> HIDE DEF pe, e
  <2>3. r \in DState
    BY <2>2 DEF DState
  <2>4. r.pending = pe /\ r.bits = e
    BY <2>2 DEF DState
  <2>5. Sent(r, t)
    BY DEF Sent, Written
  <2> HIDE DEF u, r
  <2> QED
    BY <1>2, <2>1, <2>3, <2>4, <2>5 DEF u, pe, e
<1> QED
  BY <1>1, <1>2

\* The bytes of a stored block.
Raws(t, n) == [i \in 1..n |-> << RawByte(t.window[t.block_start + i - 1]) >>]

LEMMA RawsType ==
    ASSUME NEW t \in DState, NEW n \in Nat, t.block_start >= 0, t.block_start + n <= WindowSize
    PROVE  Raws(t, n) \in Seq(Bytes)
<1> DEFINE f(i) == << RawByte(t.window[t.block_start + i - 1]) >>
<1>1. ASSUME NEW i \in 1..n PROVE f(i) \in Bytes
  <2>1. t.block_start \in Int /\ t.window \in [0..(WindowSize - 1) -> Nat] /\ WindowSize \in Nat
    BY Fields, Sizes DEF Windows
  <2>2. t.block_start + i - 1 \in 0..(WindowSize - 1)
    BY <2>1
  <2> DEFINE c == t.window[t.block_start + i - 1]
             x == RawByte(c)
  <2>3. c \in Nat
    BY <2>1, <2>2
  <2> HIDE DEF c
  <2>4. x \in Items
    BY <2>3, ItemTypes
  <2> HIDE DEF x
  <2>5. << x >> \in Seq(Items)
    BY <2>4
  <2> QED
    BY <2>5 DEF x, c, Bytes
<1> HIDE DEF f
<1> DEFINE B == Bytes
<1>2. \A i \in 1..n : f(i) \in B
  BY <1>1
<1> HIDE DEF B
<1>3. [i \in 1..n |-> f(i)] \in Seq(B)
  BY <1>2
<1> QED
  BY <1>3 DEF Raws, f, B

\* _tr_stored_block
LEMMA StoredBlockIs ==
    ASSUME NEW t \in DState, NEW n \in Nat, NEW last \in BOOLEAN,
           t.block_start >= 0, t.block_start + n <= WindowSize
    PROVE  LET u == StoredBlock(t, n, last)
           IN  /\ u \in DState /\ u.bits = << >> /\ Sent(u, t)
               /\ u.pending = Cat(Append(t.pending, Append(t.bits, Stored(n, last))), Raws(t, n))
<1> DEFINE b == Append(t.bits, Stored(n, last))
           header == [t EXCEPT !.bits = b]
           w == WindUp(header)
           pe == Cat(w.pending, Raws(t, n))
           r == [w EXCEPT !.pending = pe]
           u == StoredBlock(t, n, last)
<1>1. u = r
  BY Zenon DEF StoredBlock, Cat, Raws
<1>2. b \in Seq(Items) /\ b # << >>
  <2>1. Stored(n, last) \in Items /\ t.bits \in Seq(Items)
    BY Fields, ItemTypes
  <2> QED
    BY <2>1, AppendProperties
<1> HIDE DEF b
<1>3. /\ header \in DState /\ header.bits = b /\ header.pending = t.pending
      /\ Sent(header, t)
  <2>1. header \in DState
    BY <1>2 DEF DState
  <2>2. header.bits = b /\ header.pending = t.pending
    BY <1>2 DEF DState
  <2>3. Sent(header, t)
    BY DEF Sent, Written
  <2> QED
    BY <2>1, <2>2, <2>3
<1> HIDE DEF header
<1>4. /\ w \in DState /\ w.bits = << >> /\ Sent(w, header)
      /\ w.pending = Append(t.pending, b)
  BY <1>2, <1>3, WindUpIs
<1> HIDE DEF w
<1>5. pe \in Seq(Seq(Items))
  <2>1. w.pending \in Seq(Bytes) /\ Raws(t, n) \in Seq(Bytes)
    BY <1>4, Fields, RawsType DEF Bytes
  <2>2. pe \in Seq(Bytes)
    BY <2>1, CatType
  <2> QED
    BY <2>2 DEF Bytes
<1> HIDE DEF pe
<1>6. r \in DState
  BY <1>4, <1>5 DEF DState
<1>7. r.pending = pe /\ r.bits = w.bits
  BY <1>4, <1>5 DEF DState
<1>8. Sent(r, w)
  BY DEF Sent, Written
<1> HIDE DEF r, u
<1>9. Sent(r, t)
  BY <1>3, <1>4, <1>8, Zenon DEF Sent, Written
<1>10. pe = Cat(Append(t.pending, b), Raws(t, n))
  BY <1>4 DEF pe
<1> QED
  BY <1>1, <1>4, <1>6, <1>7, <1>9, <1>10 DEF u, b

\* The items of a coded block.
Coded(t, last) == Cat(Cat(<< Codes(last) >>, FlattenSeq(t.sym)), << Simple("eob") >>)

LEMMA CodedType ==
    ASSUME NEW t \in DState, NEW last \in BOOLEAN
    PROVE  Coded(t, last) \in Seq(Items)
<1>1. FlattenSeq(t.sym) \in Seq(Items)
  BY Fields, FlattenType
<1>2. Codes(last) \in Items /\ Simple("eob") \in Items
  BY ItemTypes, Zenon
<1> DEFINE a == Codes(last)
           c == Simple("eob")
<1>3. << a >> \in Seq(Items) /\ << c >> \in Seq(Items)
  <2> HIDE DEF a, c
  <2>1. a \in Items /\ c \in Items
    BY <1>2 DEF a, c
  <2> QED
    BY <2>1
<1> DEFINE p == << a >>
           q == << c >>
<1> HIDE DEF p, q
<1>4. p \in Seq(Items) /\ q \in Seq(Items)
  BY <1>3 DEF p, q
<1>5. Cat(Cat(p, FlattenSeq(t.sym)), q) \in Seq(Items)
  BY <1>1, <1>4, CatType
<1> QED
  BY <1>5 DEF Coded, p, q

LEMMA CodedBlockIs ==
    ASSUME NEW t \in DState, NEW last \in BOOLEAN
    PROVE  CodedBlock(t, last) = SendBits(t, Coded(t, last))
BY Zenon DEF CodedBlock, Coded, Cat

\* Only its bits, what is pending, its symbols and the start of the block are new in u.
Flushed(u, t) ==
    /\ u.status = t.status /\ u.last_flush = t.last_flush /\ u.wrap = t.wrap
    /\ Written(u, t)

\* FLUSH_BLOCK_ONLY
LEMMA FlushBlockIs ==
    ASSUME NEW t \in DState, NEW to \in Nat, to <= WindowSize, NEW last \in BOOLEAN,
           NEW stored \in Storable(t), t.block_start <= to
    PROVE  LET u == FlushBlock(t, to, last, stored)
               made == IF stored THEN StoredBlock(t, to - t.block_start, last)
                                 ELSE CodedBlock(t, last)
           IN  /\ u \in DState /\ Flushed(u, t)
               /\ Len(u.bits) < 2 /\ u.sym = << >> /\ u.block_start = to
               /\ made \in DState /\ Len(made.bits) < 2 /\ Sent(made, t)
               /\ u.bits = IF last THEN << >> ELSE made.bits
               /\ u.pending = IF last /\ made.bits # << >> THEN Append(made.pending, made.bits)
                                                          ELSE made.pending
<1> DEFINE made == IF stored THEN StoredBlock(t, to - t.block_start, last)
                             ELSE CodedBlock(t, last)
           end == IF last THEN WindUp(made) ELSE made
           e == << >>
           r == [end EXCEPT !.sym = e, !.block_start = to]
           u == FlushBlock(t, to, last, stored)
<1>1. u = r
  BY Zenon DEF FlushBlock
<1>2. made \in DState /\ Len(made.bits) < 2 /\ Sent(made, t)
  <2>1. CASE stored
    <3>1. t.block_start >= 0
      <4>1. ~(t.block_start < 0)
        BY <2>1, Zenon DEF Storable
      <4>2. t.block_start \in Int
        BY Fields
      <4> QED
        BY <4>1, <4>2
    <3> DEFINE n == to - t.block_start
    <3>2. n \in Nat /\ t.block_start + n <= WindowSize
      BY <3>1, Fields
    <3> HIDE DEF n
    <3> DEFINE m == StoredBlock(t, n, last)
    <3>3. m \in DState /\ m.bits = << >> /\ Sent(m, t)
      BY <3>1, <3>2, StoredBlockIs
    <3>4. made = m
      BY <2>1 DEF n
    <3> HIDE DEF m, made
    <3>5. Len(<< >>) = 0
      BY EmptySeq
    <3> QED
      BY <3>3, <3>4, <3>5
  <2>2. CASE ~stored
    <3> DEFINE c == Coded(t, last)
               m == SendBits(t, c)
    <3>1. c \in Seq(Items)
      BY CodedType
    <3> HIDE DEF c
    <3>2. m \in DState /\ Len(m.bits) < 2 /\ Sent(m, t)
      BY <3>1, SendBitsIs
    <3>3. made = m
      BY <2>2, CodedBlockIs DEF c
    <3> HIDE DEF m, made
    <3> QED
      BY <3>2, <3>3
  <2> QED
    BY <2>1, <2>2
<1> HIDE DEF made
<1>3. /\ end \in DState /\ Len(end.bits) < 2 /\ Sent(end, t)
      /\ end.bits = IF last THEN << >> ELSE made.bits
      /\ end.pending = IF last /\ made.bits # << >> THEN Append(made.pending, made.bits)
                                                    ELSE made.pending
  <2>1. CASE last
    <3> DEFINE w == WindUp(made)
    <3>1. /\ w \in DState /\ w.bits = << >> /\ Sent(w, made)
          /\ w.pending = IF made.bits = << >> THEN made.pending
                                              ELSE Append(made.pending, made.bits)
      BY <1>2, WindUpIs
    <3>2. end = w
      BY <2>1
    <3> HIDE DEF w, end
    <3>3. Sent(w, t)
      BY <1>2, <3>1, Zenon DEF Sent, Written
    <3>4. Len(<< >>) = 0
      BY EmptySeq
    <3> QED
      BY <2>1, <3>1, <3>2, <3>3, <3>4
  <2>2. CASE ~last
    BY <1>2, <2>2
  <2> QED
    BY <2>1, <2>2
<1> HIDE DEF end
<1>4. e \in Seq(Seq(Items))
  BY EmptySeq
<1> HIDE DEF e
<1>5. r \in DState
  <2>1. end \in DState /\ to \in Int
    BY <1>3
  <2> QED
    BY <1>4, <2>1 DEF DState
<1>6. r.sym = e /\ r.block_start = to
  <2>1. end \in DState /\ to \in Int
    BY <1>3
  <2> QED
    BY <1>4, <2>1 DEF DState
<1>7. r.bits = end.bits /\ r.pending = end.pending
  OBVIOUS
<1>8. Flushed(r, end)
  BY DEF Flushed, Written
<1> HIDE DEF r, u
<1>9. Flushed(r, t)
  BY <1>3, <1>8, Zenon DEF Flushed, Sent, Written
<1> QED
  BY <1>1, <1>2, <1>3, <1>5, <1>6, <1>7, <1>9 DEF u, made, e

-----------------------------------------------------------------------------
(* The inductive invariant of the sizes and the types.                     *)

FuncOf(t) == Config[t.level].func

Turning(p) == p \in { "search", "decide" }

\* deflate_stored: what is collected for the next block still fits in.
StoredMode(t, p) ==
    /\ ~t.match_available /\ ~Turning(p) /\ t.block_start >= 0 /\ t.sym = << >>
    /\ p # "flush" => /\ t.strstart < t.block_start + MaxStored
                      /\ t.strstart - t.block_start < MAX_DIST

\* deflate_fast: a match is within the lookahead, and taken in the turn that found it.
FastMode(t, p) ==
    /\ ~t.match_available /\ t.prev_length = 2
    /\ t.match_length >= 3 => p = "decide" /\ t.match_length <= t.lookahead

\* deflate_slow: the match at the byte before, which is still to be decided, is within that
\* byte and the lookahead.
SlowMode(t, p) ==
    /\ ~Turning(p) /\ t.match_length >= 3 =>
           t.match_available /\ t.match_length <= t.lookahead + 1
    /\ Turning(p) /\ t.prev_length >= 3 =>
           t.match_available /\ t.prev_length <= t.lookahead + 1
    /\ p = "search" => t.match_length = 2
    /\ p = "decide" /\ t.match_length >= 3 => t.match_length <= t.lookahead

\* Where the call is.
TurnMode(t, p) ==
    /\ Turning(p) => t.lookahead > 0 /\ t.strstart <= WindowSize - MIN_LOOKAHEAD
    /\ p # "flush" => Len(t.sym) < LitBufSize - 1
    /\ p = "fill" => t.lookahead < MIN_LOOKAHEAD
    /\ p = "filled" => t.strstart <= WindowSize - MIN_LOOKAHEAD

SInv(t, p) ==
    /\ Shape(t)
    /\ FuncOf(t) = "stored" => StoredMode(t, p)
    /\ FuncOf(t) = "fast" => FastMode(t, p)
    /\ FuncOf(t) = "slow" => SlowMode(t, p)
    /\ TurnMode(t, p)

Pcs == { "none", "idle", "loop", "top", "fill", "filled", "search", "decide", "flush",
         "need_more", "tail", "called" }

\* The rest of the state.
IoTypes ==
    /\ pc \in Pcs /\ flush \in { "NO_FLUSH", "FINISH" }
    /\ ret \in { "OK", "STREAM_END", "STREAM_ERROR", "BUF_ERROR" }
    /\ input \in Seq(Nat) /\ fed \in Seq(Nat)
    /\ buf \in Seq(Bytes) /\ luabuf \in Seq(Bytes) /\ out \in Seq(Bytes)
    /\ Len(buf) <= BufSize
    /\ stage \in { "open", "finished", "refused", "stale" }

IInv == IoTypes /\ SInv(s, pc)

LEMMA FuncIs == Func = FuncOf(s)
BY DEF Func, FuncOf

LEMMA FuncType ==
    ASSUME NEW t \in DState
    PROVE  FuncOf(t) \in { "stored", "fast", "slow" }
BY Fields, Configured DEF FuncOf

\* The room in buf.
LEMMA LeftType ==
    ASSUME IoTypes
    PROVE  Left \in 0..BufSize /\ Len(buf) = BufSize - Left
BY Sizes, LenProperties DEF IoTypes, Left

\* The assertions follow from it.
LEMMA InvAssertions == IInv => AssertionsHold
<1> SUFFICES ASSUME IInv PROVE AssertionsHold
  OBVIOUS
<1>1. s \in DState /\ Shape(s) /\ IoTypes /\ TurnMode(s, pc)
  BY DEF IInv, SInv, Shape
<1>2. /\ s.level \in Levels /\ s.status \in { "INIT", "BUSY", "FINISH" }
      /\ s.last_flush \in { "NONE", "NO_FLUSH", "FINISH" } /\ s.wrap \in BOOLEAN
      /\ s.head \in Heads /\ s.prev \in Prevs
      /\ s.strstart \in Nat /\ s.block_start \in Int /\ s.lookahead \in Nat
      /\ s.match_length \in Nat /\ s.prev_length \in Nat
  BY <1>1, Fields
<1>3. /\ s.strstart + s.lookahead <= WindowSize /\ s.block_start <= s.strstart
      /\ Below(s, s.strstart) /\ s.match_length <= MaxMatch /\ s.prev_length <= MaxMatch
      /\ Len(s.sym) < LitBufSize /\ Len(s.bits) < 2
  BY <1>1 DEF Shape
<1> DEFINE hd == s.head
           pv == s.prev
           st == s.strstart
<1>0. \A n \in Nat : n <= st => n \in 0..st
  BY <1>2
<1>4. \A h \in DOMAIN s.head : s.head[h] \in 0..s.strstart
  <2>1. hd \in [0..(HashSize - 1) -> Nat] /\ \A h \in 0..(HashSize - 1) : hd[h] <= st
    BY <1>2, <1>3 DEF Heads, Below
  <2> HIDE DEF hd, st
  <2>2. \A h \in DOMAIN hd : hd[h] \in 0..st
    BY <1>0, <2>1
  <2> QED
    BY <2>2 DEF hd, st
<1>5. \A i \in DOMAIN s.prev : s.prev[i] \in 0..s.strstart
  <2>1. pv \in [0..(WSize - 1) -> Nat] /\ \A i \in 0..(WSize - 1) : pv[i] <= st
    BY <1>2, <1>3 DEF Prevs, Below
  <2> HIDE DEF pv, st
  <2>2. \A i \in DOMAIN pv : pv[i] \in 0..st
    BY <1>0, <2>1
  <2> QED
    BY <2>2 DEF pv, st
<1>6. TypeOK
  <2>1. /\ s.strstart \in 0..WindowSize /\ s.lookahead \in 0..(WindowSize - s.strstart)
        /\ s.match_length \in 0..MaxMatch /\ s.prev_length \in 0..MaxMatch
    BY <1>2, <1>3, Sizes
  <2>2. /\ pc \in { "none", "idle", "loop", "top", "fill", "filled", "search", "decide", "flush",
                    "need_more", "tail", "called" }
        /\ flush \in { "NO_FLUSH", "FINISH" }
        /\ ret \in { "OK", "STREAM_END", "STREAM_ERROR", "BUF_ERROR" }
        /\ stage \in { "open", "finished", "refused", "stale" }
    BY <1>1 DEF IoTypes, Pcs
  <2>3. Left \in 0..BufSize
    BY <1>1, LeftType
  <2> QED
    BY <1>2, <1>3, <1>4, <1>5, <2>1, <2>2, <2>3, Zenon DEF TypeOK
<1>7. pc = "fill" => s.lookahead < MIN_LOOKAHEAD /\ More(SlideIfNeeded(s)) >= 2
  <2> SUFFICES ASSUME pc = "fill" PROVE s.lookahead < MIN_LOOKAHEAD /\ More(SlideIfNeeded(s)) >= 2
    OBVIOUS
  <2>1. s.lookahead < MIN_LOOKAHEAD
    BY <1>1 DEF TurnMode
  <2> DEFINE u == SlideIfNeeded(s)
  <2>2. /\ u.lookahead = s.lookahead
        /\ u.strstart = IF s.strstart >= WSize + MAX_DIST THEN s.strstart - WSize ELSE s.strstart
    <3>1. CASE s.strstart >= WSize + MAX_DIST
      <4>1. u = Slide(s)
        BY <3>1 DEF SlideIfNeeded
      <4>2. s.strstart >= WSize
        BY <3>1, <1>2, Sizes
      <4> HIDE DEF u
      <4> QED
        BY <1>1, <3>1, <4>1, <4>2, SlideIs, SlideKeeps
    <3>2. CASE ~(s.strstart >= WSize + MAX_DIST)
      BY <3>2 DEF SlideIfNeeded
    <3> QED
      BY <3>1, <3>2
  <2> HIDE DEF u
  <2>3. WindowSize - u.lookahead - u.strstart >= 2
    <3> DEFINE a == u.lookahead
               b == u.strstart
               c == s.strstart
               d == s.lookahead
    <3>1. /\ c \in Nat /\ d \in Nat /\ c + d <= WindowSize /\ a = d /\ d < MIN_LOOKAHEAD
          /\ b = IF c >= WSize + MAX_DIST THEN c - WSize ELSE c
      BY <1>2, <1>3, <2>1, <2>2
    <3> HIDE DEF a, b, c, d
    <3>2. WindowSize - a - b >= 2
      <4>1. CASE c >= WSize + MAX_DIST
        BY <3>1, <4>1, Sizes
      <4>2. CASE ~(c >= WSize + MAX_DIST)
        BY <3>1, <4>2, Sizes
      <4> QED
        BY <4>1, <4>2
    <3> QED
      BY <3>2 DEF a, b
  <2> QED
    BY <2>1, <2>3 DEF u, More
<1>8. pc = "filled" => s.strstart <= WindowSize - MIN_LOOKAHEAD
  BY <1>1 DEF TurnMode
<1>9. Func = "stored" =>
        /\ pc = "top" /\ ~Enough => s.strstart < WSize + MAX_DIST \/ s.block_start >= WSize
        /\ s.block_start >= 0
  <2> SUFFICES ASSUME Func = "stored"
               PROVE  /\ pc = "top" => s.strstart < WSize + MAX_DIST \/ s.block_start >= WSize
                      /\ s.block_start >= 0
    OBVIOUS
  <2>1. StoredMode(s, pc)
    BY FuncIs DEF IInv, SInv
  <2> QED
    BY <1>2, <2>1, Sizes DEF StoredMode
<1> QED
  BY <1>6, <1>7, <1>8, <1>9, Zenon DEF AssertionsHold

-----------------------------------------------------------------------------
(* Changes that do not matter to it.                                       *)

\* u has what the invariant speaks about from t.
Alike(u, t) ==
    /\ u \in DState /\ Len(u.bits) < 2
    /\ u.level = t.level /\ u.head = t.head /\ u.prev = t.prev
    /\ u.strstart = t.strstart /\ u.block_start = t.block_start /\ u.lookahead = t.lookahead
    /\ u.match_length = t.match_length /\ u.prev_length = t.prev_length
    /\ u.match_available = t.match_available /\ u.sym = t.sym

LEMMA AlikeKeeps ==
    ASSUME NEW t, NEW u, NEW p, SInv(t, p), Alike(u, t)
    PROVE  SInv(u, p)
<1>1. Shape(u)
  BY DEF SInv, Shape, Alike, Below
<1>2. FuncOf(u) = FuncOf(t)
  BY DEF FuncOf, Alike
<1>3. StoredMode(t, p) => StoredMode(u, p)
  BY DEF StoredMode, Alike
<1>4. FastMode(t, p) => FastMode(u, p)
  BY DEF FastMode, Alike
<1>5. SlowMode(t, p) => SlowMode(u, p)
  BY DEF SlowMode, Alike
<1>6. TurnMode(t, p) => TurnMode(u, p)
  BY DEF TurnMode, Alike
<1> QED
  BY <1>1, <1>2, <1>3, <1>4, <1>5, <1>6, Zenon DEF SInv

\* The places of a call where the invariant says the least.
Plain == { "none", "idle", "loop", "top", "need_more", "tail", "called" }

LEMMA PlainKeeps ==
    ASSUME NEW t, NEW p, p \notin { "search", "decide", "flush" }, SInv(t, p), NEW q \in Plain
    PROVE  SInv(t, q)
<1>0. q \notin { "search", "decide", "flush", "fill", "filled" }
  BY DEF Plain
<1>1. StoredMode(t, p) => StoredMode(t, q)
  BY <1>0 DEF StoredMode, Turning
<1>2. FastMode(t, p) => FastMode(t, q)
  BY <1>0 DEF FastMode
<1>3. SlowMode(t, p) => SlowMode(t, q)
  BY <1>0 DEF SlowMode, Turning
<1>4. TurnMode(t, p) => TurnMode(t, q)
  BY <1>0 DEF TurnMode, Turning
<1> QED
  BY <1>1, <1>2, <1>3, <1>4, Zenon DEF SInv

\* From the end of one block on, whatever the function.

-----------------------------------------------------------------------------
(* The steps: the calls.                                                   *)

\* deflateInit
LEMMA StateInit ==
    ASSUME NEW level \in Levels
    PROVE  SInv(State(level), "none") /\ State(level).adler = << >>
<1> DEFINE e == << >>
           wi == [i \in 0..(WindowSize - 1) |-> 0]
           hd == [h \in 0..(HashSize - 1) |-> 0]
           pv == [i \in 0..(WSize - 1) |-> 0]
           r == [level |-> level, status |-> "INIT", last_flush |-> "NO_FLUSH", wrap |-> TRUE,
                 window |-> wi, head |-> hd, prev |-> pv,
                 ins_h |-> 0, strstart |-> 0, block_start |-> 0, lookahead |-> 0,
                 match_length |-> 2, match_start |-> 0,
                 prev_length |-> 2, prev_match |-> 0, match_available |-> FALSE,
                 sym |-> e, bits |-> e, pending |-> e, adler |-> e]
           u == State(level)
<1>0. MIN_MATCH - 1 = 2
  BY Sizes
<1>1. u = r
  BY <1>0, Zenon DEF State
<1>2. wi \in Windows /\ hd \in Heads /\ pv \in Prevs
  BY DEF Windows, Heads, Prevs
<1>3. /\ e \in Seq(Seq(Items)) /\ e \in Seq(Items) /\ e \in Seq(Nat) /\ Len(e) = 0
  BY EmptySeq
<1>4. Below(r, 0)
  BY DEF Below
<1> DEFINE LI == Seq(Items)
           LB == Seq(LI)
           LN == Seq(Nat)
           Zero == 0..(HashSize - 1)
<1>5. e \in LB /\ e \in LI /\ e \in LN /\ 0 \in Zero
  BY <1>3, Sizes
<1> HIDE DEF wi, hd, pv, LI, LB, LN, Zero, e
<1>6. r \in [level : Levels, status : { "INIT", "BUSY", "FINISH" },
             last_flush : { "NONE", "NO_FLUSH", "FINISH" }, wrap : BOOLEAN,
             window : Windows, head : Heads, prev : Prevs,
             ins_h : Zero, strstart : Nat, block_start : Int, lookahead : Nat,
             match_length : Nat, match_start : Int,
             prev_length : Nat, prev_match : Int, match_available : BOOLEAN,
             sym : LB, bits : LI, pending : LB, adler : LN]
  BY <1>2, <1>5
<1>7. r \in DState
  BY <1>6, Zenon DEF DState, LI, LB, LN, Zero
<1>8. /\ r.strstart = 0 /\ r.lookahead = 0 /\ r.block_start = 0
      /\ r.match_length = 2 /\ r.prev_length = 2 /\ ~r.match_available
      /\ r.sym = e /\ r.bits = e /\ r.adler = e
  OBVIOUS
<1> HIDE DEF u, r
<1>9. Shape(r)
  BY <1>3, <1>4, <1>7, <1>8, Sizes DEF Shape
<1>10. /\ StoredMode(r, "none") /\ FastMode(r, "none") /\ SlowMode(r, "none")
       /\ TurnMode(r, "none")
  <2>1. StoredMode(r, "none")
    BY <1>8, Sizes DEF StoredMode, Turning, e
  <2>2. FastMode(r, "none")
    BY <1>8 DEF FastMode
  <2>3. SlowMode(r, "none")
    BY <1>8 DEF SlowMode
  <2>4. TurnMode(r, "none")
    BY <1>3, <1>8, Sizes DEF TurnMode, Turning
  <2> QED
    BY <2>1, <2>2, <2>3, <2>4
<1> QED
  BY <1>1, <1>8, <1>9, <1>10 DEF SInv, u, e

LEMMA InitInv == Init => IInv
<1> SUFFICES ASSUME Init PROVE IInv
  OBVIOUS
<1>1. PICK level \in Levels : s = State(level)
  BY DEF Init
<1>2. SInv(s, "none")
  BY <1>1, StateInit
<1>3. /\ pc = "none" /\ flush = "NO_FLUSH" /\ ret = "OK" /\ stage = "stale"
      /\ input = << >> /\ buf = << >> /\ luabuf = << >> /\ fed = << >> /\ out = << >>
  BY DEF Init
<1>4. << >> \in Seq(Nat) /\ << >> \in Seq(Bytes) /\ Len(<< >>) = 0
  BY EmptySeq
<1>5. IoTypes
  BY <1>3, <1>4, Sizes DEF IoTypes, Pcs
<1> QED
  BY <1>2, <1>3, <1>5 DEF IInv

\* A part of a sequence is one.
LEMMA PartType ==
    ASSUME NEW S, NEW q \in Seq(S), NEW m \in Nat, NEW n \in Int, m >= 1, n <= Len(q)
    PROVE  SubSeq(q, m, n) \in Seq(S)
<1>1. \A i \in m..n : q[i] \in S
  BY LenProperties, ElementOfSeq
<1> QED
  BY <1>1, SubSeqProperties

\* What a caller may give.
LEMMA ChunkType ==
    ASSUME IoTypes, NEW chunk \in Chunks
    PROVE  chunk \in Seq(Nat)
<1>0. fed \in Seq(Nat) /\ Len(fed) \in Nat
  BY LenProperties DEF IoTypes
<1>1. CASE stage = "open"
  <2>1. PICK t \in { x \in Texts : IsPrefix(fed, x) }, n \in ChunkSizes :
           chunk = SubSeq(t, Len(fed) + 1, Smaller(Len(t), Len(fed) + n))
    BY <1>1 DEF Chunks
  <2>2. t \in Seq(Nat) /\ n \in Nat
    BY DeflateConstants
  <2>3. Len(t) \in Nat
    BY <2>2, LenProperties
  <2>4. Smaller(Len(t), Len(fed) + n) \in Int /\ Smaller(Len(t), Len(fed) + n) <= Len(t)
    BY <1>0, <2>2, <2>3 DEF Smaller
  <2>5. Len(fed) + 1 \in Nat /\ Len(fed) + 1 >= 1
    BY <1>0
  <2> QED
    BY <2>1, <2>2, <2>4, <2>5, PartType
<1>2. CASE stage # "open"
  <2>1. chunk = << >> \/ \E t \in Texts : chunk \in { << t[i] >> : i \in 1..Len(t) }
    BY <1>2 DEF Chunks
  <2>2. CASE chunk = << >>
    BY <2>2, EmptySeq
  <2>3. ASSUME NEW t \in Texts, chunk \in { << t[i] >> : i \in 1..Len(t) }
        PROVE  chunk \in Seq(Nat)
    <3>1. PICK i \in 1..Len(t) : chunk = << t[i] >>
      BY <2>3
    <3>2. t \in Seq(Nat)
      BY DeflateConstants
    <3>3. t[i] \in Nat
      BY <3>2, ElementOfSeq
    <3> DEFINE x == t[i]
    <3> HIDE DEF x
    <3>4. << x >> \in Seq(Nat)
      BY <3>3 DEF x
    <3> QED
      BY <3>1, <3>4 DEF x
  <2> QED
    BY <2>1, <2>2, <2>3
<1> QED
  BY <1>1, <1>2

\* Where s stays as it is.
LEMMA SStays ==
    ASSUME SInv(s, pc), s' = s, pc \notin { "search", "decide", "flush" }, pc' \in Plain
    PROVE  SInv(s, pc)'
BY PlainKeeps

\* The end of a call.
LEMMA ReturnTypes ==
    ASSUME IoTypes, NEW result \in Seq(Bytes), NEW next \in { "open", "finished" },
           Return(result, next), UNCHANGED << flush, ret >>
    PROVE  IoTypes' /\ pc' = "idle"
<1>1. << >> \in Seq(Nat) /\ << >> \in Seq(Bytes) /\ Len(<< >>) = 0
  BY EmptySeq
<1>2. /\ pc' = "idle" /\ input' = << >> /\ buf' = << >> /\ luabuf' = << >>
      /\ flush' = flush /\ ret' = ret
  BY DEF Return
<1>3. /\ stage' \in { "open", "finished", "refused", "stale" }
      /\ fed' \in Seq(Nat) /\ out' \in Seq(Bytes)
  <2>1. CASE stage = "open"
    <3>1. stage' = next /\ out' = Cat(out, result) /\ fed' = fed
      BY <2>1 DEF Return, Cat
    <3>2. out \in Seq(Bytes) /\ fed \in Seq(Nat)
      BY DEF IoTypes
    <3> QED
      BY <3>1, <3>2, CatType
  <2>2. CASE stage # "open"
    BY <1>1, <2>2 DEF Return
  <2> QED
    BY <2>1, <2>2
<1> QED
  BY <1>1, <1>2, <1>3, Sizes DEF IoTypes, Pcs

LEMMA RaiseTypes ==
    ASSUME IoTypes, NEW next, Raise(next), UNCHANGED << flush, ret >>
    PROVE  IoTypes' /\ pc' = "idle"
<1>1. << >> \in Seq(Nat) /\ << >> \in Seq(Bytes) /\ Len(<< >>) = 0
  BY EmptySeq
<1>2. /\ pc' = "idle" /\ input' = << >> /\ buf' = << >> /\ luabuf' = << >>
      /\ flush' = flush /\ ret' = ret
  BY DEF Raise
<1>3. /\ stage' \in { "open", "finished", "refused", "stale" }
      /\ fed' \in Seq(Nat) /\ out' \in Seq(Bytes)
  BY <1>1 DEF Raise, IoTypes
<1> QED
  BY <1>1, <1>2, <1>3, Sizes DEF IoTypes, Pcs

LEMMA CallerKeeps == IInv /\ Caller => IInv'
<1> SUFFICES ASSUME IInv, Caller PROVE IInv'
  OBVIOUS
<1>0. IoTypes /\ SInv(s, pc)
  BY DEF IInv
<1>1. CASE Create
  <2>1. IoTypes'
    BY <1>0, <1>1 DEF Create, IoTypes, Pcs
  <2>2. SInv(s, pc)'
    <3>1. pc = "none" /\ pc' = "idle" /\ s' = s
      BY <1>1 DEF Create
    <3> QED
      BY <1>0, <3>1, SStays DEF Plain
  <2> QED
    BY <2>1, <2>2 DEF IInv
<1>2. ASSUME NEW chunk \in Chunks, Update(chunk) PROVE IInv'
  <2>0. pc = "idle" /\ s' = s /\ ret' = ret
    BY <1>2 DEF Update
  <2>1. CASE chunk # << >> /\ pc' = "loop"
    <3>1. chunk \in Seq(Nat)
      BY <1>0, ChunkType
    <3>2. fed' \in Seq(Nat)
      <4>1. fed \in Seq(Nat) /\ Cat(fed, chunk) \in Seq(Nat) /\ << >> \in Seq(Nat)
        BY <1>0, <3>1, CatType, EmptySeq DEF IoTypes
      <4>2. fed' = IF stage = "open" THEN Cat(fed, chunk) ELSE << >>
        BY <1>2, <2>1 DEF Update, Return, Cat
      <4> QED
        BY <4>1, <4>2
    <3>3. /\ flush' = "NO_FLUSH" /\ input' = chunk
          /\ buf' = buf /\ luabuf' = luabuf /\ out' = out /\ stage' = stage
      BY <1>2, <2>1 DEF Update, Return
    <3>4. IoTypes'
      BY <1>0, <2>0, <2>1, <3>1, <3>2, <3>3 DEF IoTypes, Pcs
    <3>5. SInv(s, pc)'
      BY <1>0, <2>0, <2>1, SStays DEF Plain
    <3> QED
      BY <3>4, <3>5 DEF IInv
  <2>2. CASE Return(<< >>, "open") /\ flush' = flush
    <3>1. << >> \in Seq(Bytes)
      BY EmptySeq
    <3>2. IoTypes' /\ pc' = "idle"
      <4> DEFINE e == << >>
      <4>1. e \in Seq(Bytes) /\ Return(e, "open")
        BY <2>2, <3>1
      <4> HIDE DEF e
      <4> QED
        BY <1>0, <2>0, <2>2, <4>1, ReturnTypes
    <3>3. SInv(s, pc)'
      BY <1>0, <2>0, <3>2, SStays DEF Plain
    <3> QED
      BY <3>2, <3>3 DEF IInv
  <2> QED
    BY <1>2, <2>1, <2>2 DEF Update
<1>3. CASE Finish
  <2>1. << >> \in Seq(Nat)
    BY EmptySeq
  <2>2. IoTypes'
    BY <1>0, <1>3, <2>1 DEF Finish, IoTypes, Pcs, history
  <2>3. SInv(s, pc)'
    <3>1. pc = "idle" /\ pc' = "loop" /\ s' = s
      BY <1>3 DEF Finish
    <3> QED
      BY <1>0, <3>1, SStays DEF Plain
  <2> QED
    BY <2>2, <2>3 DEF IInv
<1> QED
  BY <1>1, <1>2, <1>3 DEF Caller

\* update() behind the end of a stream, and what follows a call of deflate.
LEMMA BackKeeps ==
    ASSUME IInv, OutOfSequence \/ ZlibError \/ GoOn \/ CallReturns
    PROVE  IInv'
<1>0. IoTypes /\ SInv(s, pc)
  BY DEF IInv
<1>1. pc \in { "loop", "called" } /\ s' = s /\ flush' = flush
  BY DEF OutOfSequence, ZlibError, GoOn, CallReturns, Leave
<1>2. SUFFICES IoTypes' /\ pc' \in Plain
  BY <1>0, <1>1, SStays DEF IInv
<1>3. CASE OutOfSequence
  <2>1. << >> \in Seq(Bytes) /\ Len(<< >>) = 0
    BY EmptySeq
  <2>2. /\ pc' = "called" /\ ret' = "STREAM_ERROR" /\ buf' = << >>
        /\ flush' = flush /\ input' = input /\ luabuf' = luabuf
        /\ fed' = fed /\ out' = out /\ stage' = stage
    BY <1>3 DEF OutOfSequence, Leave, history
  <2> QED
    BY <1>0, <2>1, <2>2, Sizes DEF IoTypes, Pcs, Plain
<1>4. CASE ZlibError
  <2>1. Raise("refused") /\ UNCHANGED << flush, ret >>
    BY <1>4 DEF ZlibError
  <2>2. IoTypes' /\ pc' = "idle"
    BY <1>0, <2>1, RaiseTypes
  <2> QED
    BY <2>2 DEF Plain
<1>5. CASE Raise("stale") /\ UNCHANGED << flush, ret >>
  <2>2. IoTypes' /\ pc' = "idle"
    BY <1>0, <1>5, RaiseTypes
  <2> QED
    BY <2>2 DEF Plain
<1>6. CASE GoOn /\ ~Raise("stale")
  <2>1. /\ pc' = "loop" /\ luabuf' = Cat(luabuf, buf) /\ buf' = << >> /\ input' = input
        /\ fed' = fed /\ out' = out /\ stage' = stage /\ flush' = flush /\ ret' = ret
    BY <1>6 DEF GoOn, history, Cat
  <2>2. Cat(luabuf, buf) \in Seq(Bytes)
    BY <1>0, CatType DEF IoTypes
  <2>3. << >> \in Seq(Bytes) /\ Len(<< >>) = 0
    BY EmptySeq
  <2> QED
    BY <1>0, <2>1, <2>2, <2>3, Sizes DEF IoTypes, Pcs, Plain
<1>7. CASE CallReturns /\ ~Raise("stale")
  <2> DEFINE result == Cat(luabuf, buf)
             next == IF flush = "FINISH" THEN "finished" ELSE "open"
  <2>1. Return(result, next) /\ UNCHANGED << flush, ret >>
    BY <1>7, Zenon DEF CallReturns, Cat
  <2>2. result \in Seq(Bytes) /\ next \in { "open", "finished" }
    BY <1>0, CatType DEF IoTypes
  <2> HIDE DEF result, next
  <2>3. IoTypes' /\ pc' = "idle"
    BY <1>0, <2>1, <2>2, ReturnTypes
  <2> QED
    BY <2>3 DEF Plain
<1>8. (GoOn \/ CallReturns) => UNCHANGED << flush, ret >>
  BY DEF GoOn, CallReturns
<1> QED
  BY <1>3, <1>4, <1>5, <1>6, <1>7, <1>8, Zenon

-----------------------------------------------------------------------------
(* The steps: deflate().                                                   *)

\* Where nothing but s and the place in the call changes.
LEMMA IoStays ==
    ASSUME IoTypes, UNCHANGED << flush, ret, io, history >>, pc' \in Pcs
    PROVE  IoTypes'
BY DEF IoTypes, io, history

\* The first n bytes of what is pending are taken.
LEMMA PendingRest ==
    ASSUME NEW t \in DState, NEW n \in 0..Len(t.pending)
    PROVE  LET u == [t EXCEPT !.pending = SubSeq(@, n + 1, Len(@))]
           IN  /\ u \in DState /\ Sent(u, t) /\ u.bits = t.bits
               /\ u.pending = SubSeq(t.pending, n + 1, Len(t.pending))
               /\ SubSeq(t.pending, 1, n) \in Seq(Bytes)
               /\ Len(SubSeq(t.pending, 1, n)) = n
               /\ t.pending = Cat(SubSeq(t.pending, 1, n), u.pending)
<1> DEFINE pe == SubSeq(t.pending, n + 1, Len(t.pending))
           u == [t EXCEPT !.pending = pe]
<1>1. t.pending \in Seq(Bytes)
  BY Fields DEF Bytes
<1>2. /\ SubSeq(t.pending, 1, n) \in Seq(Bytes) /\ Len(SubSeq(t.pending, 1, n)) = n
      /\ pe \in Seq(Bytes) /\ t.pending = Cat(SubSeq(t.pending, 1, n), pe)
  <2>1. PICK p \in Seq(Bytes) : p = t.pending
    BY <1>1
  <2>2. n \in 0..Len(p)
    BY <2>1
  <2>3. /\ SubSeq(p, 1, n) \in Seq(Bytes) /\ Len(SubSeq(p, 1, n)) = n
        /\ SubSeq(p, n + 1, Len(p)) \in Seq(Bytes)
    BY <2>2, CutInTwo
  <2>4. p = SubSeq(p, 1, n) \o SubSeq(p, n + 1, Len(p))
    BY <2>2, CutInTwo
  <2> QED
    BY <2>1, <2>3, <2>4, Zenon DEF Cat
<1> HIDE DEF pe
<1>3. u \in DState
  BY <1>2 DEF DState, Bytes
<1>4. u.pending = pe
  BY <1>2 DEF DState
<1>5. Sent(u, t) /\ u.bits = t.bits
  BY DEF Sent, Written
<1> HIDE DEF u
<1> QED
  BY <1>2, <1>3, <1>4, <1>5 DEF u, pe

\* flush_pending
LEMMA FlushPendingIs ==
    ASSUME IoTypes, NEW t \in DState, FlushPending(t)
    PROVE  /\ s' \in DState /\ Sent(s', t) /\ s'.bits = t.bits
           /\ \E q \in Seq(Bytes) : buf' = Cat(buf, q) /\ t.pending = Cat(q, s'.pending)
                                    /\ Len(q) = Smaller(Len(t.pending), Left)
           /\ buf' \in Seq(Bytes) /\ Len(buf') <= BufSize
<1> DEFINE n == Smaller(Len(t.pending), Left)
           q == SubSeq(t.pending, 1, n)
           u == [t EXCEPT !.pending = SubSeq(@, n + 1, Len(@))]
<1>1. s' = u /\ buf' = Cat(buf, q)
  BY Zenon DEF FlushPending, Cat
<1>2. Len(t.pending) \in Nat
  BY Fields, LenProperties
<1>3. Left \in 0..BufSize /\ Len(buf) = BufSize - Left
  BY LeftType
<1>4. n \in 0..Len(t.pending) /\ n <= Left
  BY <1>2, <1>3, Sizes DEF Smaller
<1> HIDE DEF n
<1>5. /\ u \in DState /\ Sent(u, t) /\ u.bits = t.bits /\ q \in Seq(Bytes) /\ Len(q) = n
      /\ t.pending = Cat(q, u.pending)
  BY <1>4, PendingRest
<1> HIDE DEF u, q
<1>6. buf \in Seq(Bytes)
  BY DEF IoTypes
<1>7. Cat(buf, q) \in Seq(Bytes) /\ Len(Cat(buf, q)) = Len(buf) + Len(q)
  BY <1>5, <1>6, CatType
<1>8. Len(Cat(buf, q)) <= BufSize
  BY <1>3, <1>4, <1>5, <1>7, Sizes
<1> QED
  BY <1>1, <1>5, <1>7, <1>8 DEF n

\* The header, and what is pending.
LEMMA CallDeflateKeeps == ASSUME IInv, CallDeflate PROVE IInv'
<1> DEFINE pe == Append(s.pending, << Simple("zlib") >>)
           header == [s EXCEPT !.pending = pe, !.status = "BUSY"]
           begun  == IF s.status = "INIT" THEN header ELSE s
           t      == [begun EXCEPT !.last_flush = flush]
           n      == Smaller(Len(t.pending), BufSize)
           full   == [t EXCEPT !.pending = SubSeq(@, n + 1, Len(@)), !.last_flush = "NONE"]
           e      == << >>
           empty  == [t EXCEPT !.pending = e]
<1>0. IoTypes /\ SInv(s, pc) /\ s \in DState /\ Len(s.bits) < 2
  BY DEF IInv, SInv, Shape
<1>1. /\ pc = "loop" /\ buf' = SubSeq(t.pending, 1, n)
      /\ \/ s' = full /\ pc' = "called" /\ ret' = "OK"
         \/ /\ s' = empty /\ pc' \in { "called", "top", "tail" }
            /\ ret' = ret \/ ret' = "BUF_ERROR"
      /\ flush' = flush /\ input' = input /\ luabuf' = luabuf
      /\ fed' = fed /\ out' = out /\ stage' = stage
  BY Zenon DEF CallDeflate, Leave, history
<1>2. pe \in Seq(Bytes)
  <2> DEFINE x == Simple("zlib")
             h == << x >>
  <2>1. x \in Items
    BY ItemTypes, Zenon
  <2> HIDE DEF x
  <2>2. h \in Seq(Items)
    BY <2>1
  <2> HIDE DEF h
  <2>3. h \in Bytes /\ s.pending \in Seq(Bytes)
    BY <1>0, <2>2, Fields DEF Bytes
  <2>4. Append(s.pending, h) \in Seq(Bytes)
    BY <2>3, AppendProperties
  <2> QED
    BY <2>4 DEF h, x
<1> HIDE DEF pe
<1>3. begun \in DState /\ Alike(begun, s)
  <2>1. header \in DState
    BY <1>0, <1>2 DEF DState, Bytes
  <2>2. Alike(header, s)
    BY <1>0, <2>1 DEF Alike
  <2>3. Alike(s, s)
    BY <1>0 DEF Alike
  <2> QED
    BY <1>0, <2>1, <2>2, <2>3
<1> HIDE DEF begun
<1>4. t \in DState /\ Alike(t, begun)
  <2>1. flush \in { "NO_FLUSH", "FINISH" }
    BY <1>0 DEF IoTypes
  <2>2. t \in DState
    BY <1>3, <2>1 DEF DState
  <2>3. Alike(t, begun)
    BY <1>3, <2>2 DEF Alike
  <2> QED
    BY <2>2, <2>3
<1> HIDE DEF t
<1>5. Len(t.pending) \in Nat
  BY <1>4, Fields, LenProperties
<1>6. n \in 0..Len(t.pending) /\ n <= BufSize
  BY <1>5, Sizes DEF Smaller
<1> HIDE DEF n
<1>7. full \in DState /\ Alike(full, t)
  <2> DEFINE u == [t EXCEPT !.pending = SubSeq(@, n + 1, Len(@))]
  <2>1. u \in DState /\ Sent(u, t) /\ u.bits = t.bits
    BY <1>4, <1>6, PendingRest
  <2>2. full = [u EXCEPT !.last_flush = "NONE"]
    BY Zenon
  <2> HIDE DEF u, full
  <2>3. full \in DState
    BY <2>1, <2>2 DEF DState
  <2>4. Alike(u, t)
    BY <1>4, <2>1 DEF Alike, Sent, Written
  <2>5. Alike(full, u)
    BY <2>2, <2>3, <2>4 DEF Alike
  <2>6. Alike(full, t)
    BY <2>4, <2>5, Zenon DEF Alike
  <2> QED
    BY <2>3, <2>6
<1>8. empty \in DState /\ Alike(empty, t)
  <2>1. e \in Seq(Seq(Items))
    BY EmptySeq
  <2> HIDE DEF e
  <2>2. empty \in DState
    BY <1>4, <2>1 DEF DState
  <2>3. Alike(empty, t)
    BY <1>4, <2>2 DEF Alike
  <2> QED
    BY <2>2, <2>3
<1>9. s' = full \/ s' = empty
  BY <1>1
<1> HIDE DEF full, empty
<1>10. Alike(s', s)
  <2>1. Alike(s', t)
    BY <1>7, <1>8, <1>9
  <2> QED
    BY <1>3, <1>4, <2>1, Zenon DEF Alike
<1>11. SInv(s, pc)'
  <2>1. pc' \in Plain /\ pc = "loop"
    BY <1>1 DEF Plain
  <2>2. SInv(s, pc')
    BY <1>0, <2>1, PlainKeeps
  <2> QED
    BY <1>10, <2>2, AlikeKeeps
<1>12. buf' \in Seq(Bytes) /\ Len(buf') <= BufSize
  <2>1. SubSeq(t.pending, 1, n) \in Seq(Bytes) /\ Len(SubSeq(t.pending, 1, n)) = n
    BY <1>4, <1>6, PendingRest
  <2> QED
    BY <1>1, <1>6, <2>1
<1>13. IoTypes'
  <2>1. pc' \in Pcs /\ ret' \in { "OK", "STREAM_END", "STREAM_ERROR", "BUF_ERROR" }
    BY <1>0, <1>1 DEF Pcs, IoTypes
  <2> QED
    BY <1>0, <1>1, <1>12, <2>1 DEF IoTypes
<1> QED
  BY <1>11, <1>13 DEF IInv

LEMMA WaitKeeps == ASSUME IInv, WaitForInput PROVE IInv'
<1>1. /\ IoTypes /\ SInv(s, pc) /\ pc = "filled" /\ pc' = "need_more" /\ s' = s
      /\ UNCHANGED << flush, ret, io, history >>
  BY DEF IInv, WaitForInput, NeedMore, io
<1>2. IoTypes'
  BY <1>1, IoStays DEF Pcs
<1>3. SInv(s, pc)'
  BY <1>1, SStays DEF Plain
<1> QED
  BY <1>2, <1>3 DEF IInv

\* fill_window
LEMMA FillKeeps == ASSUME IInv, FillWindow PROVE IInv'
<1> DEFINE t == SlideIfNeeded(s)
           n == Smaller(Len(input), More(t))
           data == SubSeq(input, 1, n)
<1>0. /\ IoTypes /\ SInv(s, pc) /\ s \in DState /\ Shape(s) /\ input \in Seq(Nat)
      /\ s.strstart \in Nat /\ s.lookahead \in Nat /\ s.block_start \in Int
      /\ s.strstart + s.lookahead <= WindowSize /\ s.block_start <= s.strstart
  BY Fields DEF IInv, SInv, Shape, IoTypes
<1>1. /\ pc = "fill" \/ pc = "top"
      /\ s' = IF n = 0 THEN t ELSE ReadBuf(t, data)
      /\ input' = SubSeq(input, n + 1, Len(input))
      /\ pc' = IF s'.lookahead < MIN_LOOKAHEAD /\ input' # << >> THEN "fill" ELSE "filled"
      /\ flush' = flush /\ ret' = ret /\ buf' = buf /\ luabuf' = luabuf
      /\ fed' = fed /\ out' = out /\ stage' = stage
  BY DEF FillWindow, history
<1>2. /\ Shape(t) /\ t \in DState
      /\ t.lookahead = s.lookahead /\ t.level = s.level
      /\ t.match_length = s.match_length /\ t.prev_length = s.prev_length
      /\ t.match_available = s.match_available /\ t.sym = s.sym
      /\ \/ t.strstart = s.strstart /\ t.block_start = s.block_start
         \/ /\ t.strstart = s.strstart - WSize /\ t.block_start = s.block_start - WSize
            /\ s.strstart >= WSize + MAX_DIST
      /\ t.strstart <= WindowSize - MIN_LOOKAHEAD
  <2>1. Shape(t) /\ t \in DState
    BY <1>0, SlideShape DEF Shape
  <2>2. CASE s.strstart >= WSize + MAX_DIST
    <3>1. t = Slide(s) /\ s.strstart >= WSize
      BY <1>0, <2>2, Sizes DEF SlideIfNeeded
    <3> HIDE DEF t
    <3>2. t.strstart = s.strstart - WSize /\ t.block_start = s.block_start - WSize
      BY <1>0, <3>1, SlideIs
    <3>3. /\ t.lookahead = s.lookahead /\ t.level = s.level
          /\ t.match_length = s.match_length /\ t.prev_length = s.prev_length
          /\ t.match_available = s.match_available /\ t.sym = s.sym
      BY <3>1, SlideKeeps
    <3>4. t.strstart <= WindowSize - MIN_LOOKAHEAD
      BY <1>0, <3>2, Sizes
    <3> QED
      BY <2>1, <2>2, <3>2, <3>3, <3>4 DEF t
  <2>3. CASE ~(s.strstart >= WSize + MAX_DIST)
    <3>1. t = s
      BY <2>3 DEF SlideIfNeeded
    <3>2. s.strstart <= WindowSize - MIN_LOOKAHEAD
      BY <1>0, <2>3, Sizes
    <3> HIDE DEF t
    <3> QED
      BY <1>0, <3>1, <3>2 DEF t
  <2> QED
    BY <2>2, <2>3
<1> HIDE DEF t
<1>3. /\ t.strstart \in Nat /\ t.lookahead \in Nat /\ t.strstart + t.lookahead <= WindowSize
      /\ t.block_start \in Int
  BY <1>2, Fields DEF Shape
<1>4. n \in 0..Len(input) /\ n <= WindowSize - t.lookahead - t.strstart
  <2>1. More(t) \in Nat /\ More(t) = WindowSize - t.lookahead - t.strstart
    BY <1>3, Sizes DEF More
  <2>2. Len(input) \in Nat
    BY <1>0, LenProperties
  <2> QED
    BY <2>1, <2>2 DEF Smaller
<1> HIDE DEF n
<1>5. /\ data \in Seq(Nat) /\ Len(data) = n /\ input' \in Seq(Nat)
  <2>1. data = SubSeq(input, 1, n) /\ input' = SubSeq(input, n + 1, Len(input))
    BY <1>1, Zenon
  <2>2. /\ SubSeq(input, 1, n) \in Seq(Nat) /\ Len(SubSeq(input, 1, n)) = n
        /\ SubSeq(input, n + 1, Len(input)) \in Seq(Nat)
    <3>1. PICK c \in Seq(Nat) : c = input
      BY <1>0
    <3>2. n \in 0..Len(c)
      BY <1>4, <3>1
    <3> QED
      BY <3>1, <3>2, CutInTwo
  <2> QED
    BY <2>1, <2>2, Zenon
<1> HIDE DEF data
<1>6. /\ s' \in DState /\ Unread(s', t) /\ s'.lookahead >= t.lookahead
      /\ t.strstart + s'.lookahead <= WindowSize /\ s'.lookahead \in Nat
  <2>1. CASE n = 0
    BY <1>1, <1>2, <1>3, <2>1 DEF Unread
  <2>2. CASE n # 0
    <3>1. s' = ReadBuf(t, data)
      BY <1>1, <2>2
    <3>2. t.strstart + t.lookahead + Len(data) <= WindowSize
      BY <1>3, <1>4, <1>5, Sizes
    <3>3. s' \in DState /\ s'.lookahead = t.lookahead + Len(data)
      BY <1>2, <1>5, <3>1, <3>2, ReadBufIs
    <3>4. Unread(s', t)
      BY <3>1, ReadBufKeeps
    <3> QED
      BY <1>3, <1>4, <1>5, <3>2, <3>3, <3>4
  <2> QED
    BY <2>1, <2>2
<1>7. Shape(s')
  BY <1>2, <1>6, Zenon DEF Shape, Unread, Below
<1>8. /\ s'.level = s.level /\ s'.match_available = s.match_available /\ s'.sym = s.sym
      /\ s'.match_length = s.match_length /\ s'.prev_length = s.prev_length
      /\ s'.strstart = t.strstart /\ s'.block_start = t.block_start
      /\ s'.lookahead >= s.lookahead
      /\ pc' \in { "fill", "filled" } /\ pc \in { "fill", "top" }
  BY <1>1, <1>2, <1>6 DEF Unread
<1>9. SInv(s', pc')
  <2>0. FuncOf(s') = FuncOf(s)
    BY <1>8 DEF FuncOf
  <2>1. StoredMode(s, pc) => StoredMode(s', pc')
    <3> SUFFICES ASSUME StoredMode(s, pc) PROVE StoredMode(s', pc')
      OBVIOUS
    <3>1. /\ ~s.match_available /\ s.block_start >= 0 /\ s.sym = << >>
          /\ s.strstart < s.block_start + MaxStored /\ s.strstart - s.block_start < MAX_DIST
      BY <1>8 DEF StoredMode
    <3>2. /\ t.strstart < t.block_start + MaxStored /\ t.strstart - t.block_start < MAX_DIST
          /\ t.block_start >= 0
      <4>1. s.strstart \in Nat /\ s.block_start \in Int
        BY <1>0
      <4>2. CASE t.strstart = s.strstart /\ t.block_start = s.block_start
        BY <3>1, <4>1, <4>2, Sizes
      <4>3. CASE /\ t.strstart = s.strstart - WSize /\ t.block_start = s.block_start - WSize
                 /\ s.strstart >= WSize + MAX_DIST
        BY <3>1, <4>1, <4>3, Sizes
      <4> QED
        BY <1>2, <4>2, <4>3
    <3> QED
      BY <1>8, <3>1, <3>2 DEF StoredMode, Turning
  <2>2. FastMode(s, pc) => FastMode(s', pc')
    BY <1>8 DEF FastMode
  <2>3. SlowMode(s, pc) => SlowMode(s', pc')
    <3>1. s.match_length \in Nat
      BY <1>0, Fields
    <3> QED
      BY <1>0, <1>6, <1>8, <3>1 DEF SlowMode, Turning
  <2>4. TurnMode(s', pc')
    <3>1. Len(s.sym) < LitBufSize - 1
      BY <1>0, <1>8 DEF SInv, TurnMode
    <3>2. pc' = "fill" => s'.lookahead < MIN_LOOKAHEAD
      BY <1>1
    <3>3. s'.strstart <= WindowSize - MIN_LOOKAHEAD
      BY <1>2, <1>8
    <3> QED
      BY <1>8, <3>1, <3>2, <3>3 DEF TurnMode, Turning
  <2> QED
    BY <1>0, <1>7, <2>0, <2>1, <2>2, <2>3, <2>4, Zenon DEF SInv
<1>10. IoTypes'
  BY <1>0, <1>1, <1>5, <1>8 DEF IoTypes, Pcs
<1> QED
  BY <1>9, <1>10 DEF IInv

\* u differs from t only in the symbols.
Tallied(u, t) ==
    /\ u.level = t.level /\ u.status = t.status /\ u.last_flush = t.last_flush
    /\ u.wrap = t.wrap /\ u.window = t.window
    /\ u.head = t.head /\ u.prev = t.prev /\ u.ins_h = t.ins_h
    /\ u.strstart = t.strstart /\ u.block_start = t.block_start /\ u.lookahead = t.lookahead
    /\ u.match_length = t.match_length /\ u.match_start = t.match_start
    /\ u.prev_length = t.prev_length /\ u.prev_match = t.prev_match
    /\ u.match_available = t.match_available
    /\ u.bits = t.bits /\ u.pending = t.pending /\ u.adler = t.adler

LEMMA SymAppend ==
    ASSUME NEW t \in DState, NEW y \in Seq(Items)
    PROVE  LET u == [t EXCEPT !.sym = Append(@, y)]
           IN  /\ u \in DState /\ Tallied(u, t) /\ u.sym = Append(t.sym, y)
               /\ Len(u.sym) = Len(t.sym) + 1 /\ Len(t.sym) \in Nat
<1> DEFINE sy == Append(t.sym, y)
           u == [t EXCEPT !.sym = sy]
<1>1. sy \in Seq(Seq(Items)) /\ Len(sy) = Len(t.sym) + 1 /\ Len(t.sym) \in Nat
  BY Fields, AppendProperties, LenProperties
<1> HIDE DEF sy
<1>2. u \in DState
  BY <1>1 DEF DState
<1>3. u.sym = sy
  BY <1>1 DEF DState
<1>4. Tallied(u, t)
  BY DEF Tallied
<1> HIDE DEF u
<1> QED
  BY <1>1, <1>2, <1>3, <1>4 DEF u, sy

\* _tr_tally_lit
LEMMA TallyLitIs ==
    ASSUME NEW t \in DState, NEW c \in Nat
    PROVE  LET u == TallyLit(t, c)
           IN  /\ u \in DState /\ Tallied(u, t) /\ u.sym = Append(t.sym, << Lit(c) >>)
               /\ << Lit(c) >> \in Seq(Items)
               /\ Len(u.sym) = Len(t.sym) + 1 /\ Len(t.sym) \in Nat
<1> DEFINE x == Lit(c)
           y == << x >>
<1>1. x \in Items
  BY ItemTypes
<1> HIDE DEF x
<1>2. y \in Seq(Items)
  BY <1>1
<1>3. TallyLit(t, c) = [t EXCEPT !.sym = Append(@, y)]
  BY Zenon DEF TallyLit, x
<1> HIDE DEF y
<1> QED
  BY <1>2, <1>3, SymAppend, Zenon DEF y, x

\* _tr_tally_dist
LEMMA TallyDistIs ==
    ASSUME NEW t \in DState, NEW d \in Int, NEW n \in Nat
    PROVE  LET u == TallyDist(t, d, n)
           IN  /\ u \in DState /\ Tallied(u, t)
               /\ u.sym = Append(t.sym, << MatchLen(n), MatchDist(d) >>)
               /\ << MatchLen(n), MatchDist(d) >> \in Seq(Items)
               /\ Len(u.sym) = Len(t.sym) + 1 /\ Len(t.sym) \in Nat
<1> DEFINE x == MatchLen(n)
           z == MatchDist(d)
           y == << x, z >>
<1>1. x \in Items /\ z \in Items
  BY ItemTypes
<1> HIDE DEF x, z
<1>2. y \in Seq(Items)
  BY <1>1
<1>3. TallyDist(t, d, n) = [t EXCEPT !.sym = Append(@, y)]
  BY Zenon DEF TallyDist, x, z
<1> HIDE DEF y
<1> QED
  BY <1>2, <1>3, SymAppend, Zenon DEF y, x, z

\* The hash value and the chains only.
LEMMA RehashedShape ==
    ASSUME NEW t, NEW u \in DState, Shape(t), Rehashed(u, t), Below(u, t.strstart)
    PROVE  Shape(u)
BY Zenon DEF Shape, Rehashed

LEMMA BelowMore ==
    ASSUME NEW t \in DState, NEW m \in Nat, NEW n \in Nat, m <= n, Below(t, m)
    PROVE  Below(t, n)
<1>1. t.head \in Heads /\ t.prev \in Prevs
  BY Fields
<1>2. \A k \in Nat : k <= m => k <= n
  OBVIOUS
<1> DEFINE hd == t.head
           pv == t.prev
<1>3. \A h \in 0..(HashSize - 1) : hd[h] \in Nat /\ hd[h] <= m
  BY <1>1 DEF Below, Heads
<1>4. \A i \in 0..(WSize - 1) : pv[i] \in Nat /\ pv[i] <= m
  BY <1>1 DEF Below, Prevs
<1> HIDE DEF hd, pv
<1> QED
  BY <1>2, <1>3, <1>4 DEF Below, hd, pv

\* A turn of the loops begins with something to look at.
LEMMA TurnBegins ==
    ASSUME IInv, Turn
    PROVE  /\ s.lookahead > 0 /\ pc \in { "top", "filled" }
           /\ Func # "stored" => s.strstart <= WindowSize - MIN_LOOKAHEAD
<1>1. /\ s \in DState /\ TurnMode(s, pc) /\ s.strstart + s.lookahead <= WindowSize
      /\ s.strstart \in Nat /\ s.lookahead \in Nat
  BY Fields DEF IInv, SInv, Shape
<1>2. CASE pc = "top" /\ Enough
  <2>1. Func = "stored" => s.lookahead > 1
    BY <1>2 DEF Enough
  <2>2. Func # "stored" => s.lookahead >= MIN_LOOKAHEAD
    BY <1>2 DEF Enough
  <2> QED
    BY <1>1, <1>2, <2>1, <2>2, Sizes
<1>3. CASE pc = "filled" /\ s.lookahead > 0
  BY <1>1, <1>3 DEF TurnMode
<1> QED
  BY <1>2, <1>3 DEF Turn

\* deflate_stored
LEMMA TurnStoredKeeps == ASSUME IInv, TurnStored PROVE IInv'
<1> DEFINE read == s.strstart + s.lookahead
           to   == Smaller(read, s.block_start + MaxStored)
           la   == read - to
           t    == [s EXCEPT !.strstart = to, !.lookahead = la]
           full == StoredFull(s.block_start, read)
<1>0. /\ IoTypes /\ SInv(s, pc) /\ s \in DState /\ Shape(s)
      /\ s.strstart \in Nat /\ s.lookahead \in Nat /\ s.block_start \in Int
      /\ s.strstart + s.lookahead <= WindowSize /\ s.block_start <= s.strstart
  BY Fields DEF IInv, SInv, Shape
<1>1. /\ s' = t /\ pc' = IF full THEN "flush" ELSE "top"
      /\ UNCHANGED << flush, ret, io, history >> /\ Turn /\ Func = "stored"
  BY Zenon DEF TurnStored, EndTurn
<1>2. s.lookahead > 0 /\ pc \in { "top", "filled" }
  BY <1>1, TurnBegins
<1>3. /\ StoredMode(s, pc) /\ FuncOf(s) = "stored"
      /\ s.strstart < s.block_start + MaxStored /\ s.strstart - s.block_start < MAX_DIST
      /\ ~s.match_available /\ s.block_start >= 0 /\ s.sym = << >>
  BY <1>0, <1>1, <1>2, FuncIs DEF SInv, StoredMode
<1>4. /\ to \in Nat /\ to >= s.strstart /\ to <= read /\ la \in Nat /\ to + la = read
      /\ ~full => to = read /\ read < s.block_start + MaxStored
                            /\ read - s.block_start < MAX_DIST
  <2>1. read \in Nat /\ MaxStored \in Nat /\ read >= s.strstart
    BY <1>0, Sizes
  <2>2. to = IF read < s.block_start + MaxStored THEN read ELSE s.block_start + MaxStored
    BY DEF Smaller
  <2>3. ~full => read < s.block_start + MaxStored /\ read - s.block_start < MAX_DIST
    <3>1. MAX_DIST \in Int /\ s.block_start \in Int
      BY <1>0, Sizes
    <3> HIDE DEF read
    <3> QED
      BY <2>1, <3>1 DEF StoredFull
  <2>4. s.strstart \in Nat /\ s.block_start \in Int /\ s.strstart < s.block_start + MaxStored
    BY <1>0, <1>3
  <2> HIDE DEF read, to, full
  <2>5. to \in Nat /\ to >= s.strstart /\ to <= read
    BY <2>1, <2>2, <2>4
  <2>6. ~full => to = read
    BY <2>1, <2>2, <2>3, <2>4
  <2> QED
    BY <2>1, <2>3, <2>5, <2>6
<1> HIDE DEF to, la
<1>5. t \in DState
  BY <1>0, <1>4 DEF DState
<1>6. t.strstart = to /\ t.lookahead = la
  BY <1>0, <1>4 DEF DState
<1>7. /\ t.level = s.level /\ t.head = s.head /\ t.prev = s.prev
      /\ t.block_start = s.block_start /\ t.match_length = s.match_length
      /\ t.prev_length = s.prev_length /\ t.match_available = s.match_available
      /\ t.sym = s.sym /\ t.bits = s.bits
  OBVIOUS
<1> HIDE DEF t
<1>8. Shape(t)
  <2>1. Below(s, s.strstart)
    BY <1>0 DEF Shape
  <2>2. Below(s, to)
    BY <1>0, <1>4, <2>1, BelowMore
  <2>3. Below(t, to)
    BY <1>7, <2>2 DEF Below
  <2>4. /\ s.match_length <= MaxMatch /\ s.prev_length <= MaxMatch
        /\ Len(s.sym) < LitBufSize /\ Len(s.bits) < 2
    BY <1>0 DEF Shape
  <2>5. to + la <= WindowSize /\ s.block_start <= to
    BY <1>0, <1>4
  <2> QED
    BY <1>3, <1>5, <1>6, <1>7, <2>3, <2>4, <2>5 DEF Shape
<1>9. SInv(s, pc)'
  <2>1. FuncOf(t) = "stored"
    BY <1>3, <1>7 DEF FuncOf
  <2>2. StoredMode(t, pc')
    <3>1. pc' # "flush" => to < s.block_start + MaxStored /\ to - s.block_start < MAX_DIST
      BY <1>1, <1>4
    <3> QED
      BY <1>1, <1>3, <1>6, <1>7, <3>1 DEF StoredMode, Turning
  <2>3. TurnMode(t, pc')
    <3>1. Len(s.sym) < LitBufSize - 1
      BY <1>0, <1>2 DEF SInv, TurnMode
    <3> QED
      BY <1>1, <1>7, <3>1 DEF TurnMode, Turning
  <2> QED
    BY <1>1, <1>8, <2>1, <2>2, <2>3 DEF SInv
<1>10. IoTypes'
  BY <1>0, <1>1, IoStays DEF Pcs
<1> QED
  BY <1>9, <1>10 DEF IInv

\* deflate_fast, deflate_slow: INSERT_STRING
LEMMA InsertKeeps == ASSUME IInv, Insert PROVE IInv'
<1> DEFINE t == InsertHere(s)
           ml == s.match_length
           ms == s.match_start
           u == [t EXCEPT !.prev_length = ml, !.prev_match = ms, !.match_length = 2]
<1>0. /\ IoTypes /\ SInv(s, pc) /\ s \in DState /\ Shape(s)
      /\ s.match_length \in Nat /\ s.match_start \in Int /\ s.match_length <= MaxMatch
  BY Fields DEF IInv, SInv, Shape
<1>1. /\ s' = IF Func = "fast" THEN t ELSE u
      /\ pc' = "search" /\ UNCHANGED << flush, ret, io, history >> /\ Turn /\ Func # "stored"
  <2>1. MIN_MATCH - 1 = 2
    BY Sizes
  <2> QED
    BY <2>1, Zenon DEF Insert
<1>2. s.lookahead > 0 /\ pc \in { "top", "filled" } /\ s.strstart <= WindowSize - MIN_LOOKAHEAD
  BY <1>1, TurnBegins
<1>3. t \in DState /\ Rehashed(t, s) /\ Shape(t)
  BY <1>0, <1>2, InsertHereShape, RehashedShape
<1> HIDE DEF t, ml, ms
<1>4. /\ u \in DState /\ u.prev_length = ml /\ u.prev_match = ms /\ u.match_length = 2
  <2>1. ml \in Nat /\ ms \in Int
    BY <1>0 DEF ml, ms
  <2>2. u \in DState
    BY <1>3, <2>1 DEF DState
  <2>3. u.prev_length = ml /\ u.prev_match = ms /\ u.match_length = 2
    BY <1>3, <2>1 DEF DState
  <2> QED
    BY <2>2, <2>3
<1>5. /\ u.level = t.level /\ u.head = t.head /\ u.prev = t.prev
      /\ u.strstart = t.strstart /\ u.block_start = t.block_start
      /\ u.lookahead = t.lookahead /\ u.match_available = t.match_available
      /\ u.sym = t.sym /\ u.bits = t.bits
  OBVIOUS
<1> HIDE DEF u
<1>6. Shape(u)
  <2>1. Below(u, u.strstart)
    <3>1. Below(t, t.strstart)
      BY <1>3 DEF Shape
    <3> QED
      BY <1>5, <3>1 DEF Below
  <2>2. ml <= MaxMatch /\ 2 <= MaxMatch
    BY <1>0, Sizes DEF ml
  <2> QED
    BY <1>3, <1>4, <1>5, <2>1, <2>2, Zenon DEF Shape
<1>7. TurnMode(s', "search")
  <2>1. /\ s'.lookahead = s.lookahead /\ s'.strstart = s.strstart /\ s'.sym = s.sym
    BY <1>1, <1>3, <1>5 DEF Rehashed
  <2>2. Len(s.sym) < LitBufSize - 1
    BY <1>0, <1>2 DEF SInv, TurnMode
  <2> QED
    BY <1>2, <2>1, <2>2 DEF TurnMode
<1>8. FuncOf(s') = Func /\ Func \in { "fast", "slow" } /\ FuncOf(s) = Func
  <2>1. s'.level = s.level
    BY <1>1, <1>3, <1>5 DEF Rehashed
  <2>2. FuncOf(s) = Func /\ FuncOf(s) \in { "stored", "fast", "slow" }
    BY <1>0, FuncIs, FuncType
  <2> QED
    BY <1>1, <2>1, <2>2 DEF FuncOf
<1>9. CASE Func = "fast"
  <2>1. FastMode(s, pc) /\ s' = t
    BY <1>0, <1>1, <1>8, <1>9 DEF SInv
  <2>2. FastMode(t, "search")
    BY <1>2, <1>3, <2>1 DEF FastMode, Rehashed
  <2>3. SInv(s', "search")
    BY <1>3, <1>7, <1>8, <1>9, <2>1, <2>2, Zenon DEF SInv
  <2>4. IoTypes'
    BY <1>0, <1>1, IoStays DEF Pcs
  <2> QED
    BY <1>1, <2>3, <2>4 DEF IInv
<1>10. CASE Func = "slow"
  <2>1. SlowMode(s, pc) /\ s' = u
    BY <1>0, <1>1, <1>8, <1>10 DEF SInv
  <2>2. SlowMode(u, "search")
    BY <1>2, <1>3, <1>4, <1>5, <2>1 DEF SlowMode, Rehashed, Turning, ml
  <2>3. SInv(s', "search")
    BY <1>6, <1>7, <1>8, <1>10, <2>1, <2>2, Zenon DEF SInv
  <2>4. IoTypes'
    BY <1>0, <1>1, IoStays DEF Pcs
  <2> QED
    BY <1>1, <2>3, <2>4 DEF IInv
<1> QED
  BY <1>8, <1>9, <1>10

\* longest_match
LEMMA SearchKeeps == ASSUME IInv, Search PROVE IInv'
<1> DEFINE found  == LongestMatch(s, HashHead)
           tooFar == Func = "slow" /\ found.len = MIN_MATCH /\ s.strstart - found.start > TooFar
           ml == IF tooFar THEN MIN_MATCH - 1 ELSE found.len
           ms == found.start
           u == [s EXCEPT !.match_length = ml, !.match_start = ms]
<1>0. /\ IoTypes /\ SInv(s, pc) /\ s \in DState /\ Shape(s)
      /\ s.match_length \in Nat /\ s.lookahead \in Nat /\ s.strstart \in Nat
  BY Fields DEF IInv, SInv, Shape
<1>1. /\ s' = (IF Searchable THEN u ELSE s) /\ pc = "search"
      /\ pc' = "decide" /\ UNCHANGED << flush, ret, io, history >>
  BY Zenon DEF Search
<1>2. s.lookahead > 0 /\ Len(s.sym) < LitBufSize - 1 /\ s.strstart <= WindowSize - MIN_LOOKAHEAD
  BY <1>0, <1>1 DEF SInv, TurnMode, Turning
<1>3. HashHead \in Nat
  <2>1. s.prev \in [0..(WSize - 1) -> Nat] /\ s.strstart % WSize \in 0..(WSize - 1)
    BY <1>0, Fields, InPrev DEF Prevs
  <2> DEFINE i == s.strstart % WSize
  <2> HIDE DEF i
  <2>2. s.prev[i] \in Nat
    BY <2>1 DEF i
  <2> QED
    BY <2>2 DEF HashHead, i
<1>4. found.len \in Nat /\ found.len <= MaxMatch /\ found.len <= s.lookahead /\ ms \in Int
  BY <1>0, <1>3, LongestMatchType
<1> HIDE DEF found
<1>5. ml \in Nat /\ ml <= MaxMatch /\ (ml >= 3 => ml <= s.lookahead) /\ ms \in Int
  BY <1>4, Sizes
<1> HIDE DEF ml, ms
<1>6. u \in DState /\ u.match_length = ml
  <2>1. u \in DState
    BY <1>0, <1>5 DEF DState
  <2>2. u.match_length = ml
    BY <1>0, <1>5 DEF DState
  <2> QED
    BY <2>1, <2>2
<1>7. /\ u.level = s.level /\ u.head = s.head /\ u.prev = s.prev
      /\ u.strstart = s.strstart /\ u.block_start = s.block_start
      /\ u.lookahead = s.lookahead /\ u.match_available = s.match_available
      /\ u.prev_length = s.prev_length
      /\ u.sym = s.sym /\ u.bits = s.bits
  OBVIOUS
<1> HIDE DEF u
<1>8. Shape(u)
  <2>1. Below(u, u.strstart)
    <3>1. Below(s, s.strstart)
      BY <1>0 DEF Shape
    <3> QED
      BY <1>7, <3>1 DEF Below
  <2> QED
    BY <1>0, <1>5, <1>6, <1>7, <2>1, Zenon DEF Shape
<1>9. FuncOf(u) = FuncOf(s)
  BY <1>7 DEF FuncOf
<1>10. FuncOf(s) # "stored"
  BY <1>0, <1>1 DEF SInv, StoredMode, Turning
<1>11. SInv(u, "decide")
  <2>1. FastMode(s, "search") => FastMode(u, "decide")
    BY <1>0, <1>5, <1>6, <1>7 DEF FastMode
  <2>2. SlowMode(s, "search") => SlowMode(u, "decide")
    BY <1>0, <1>5, <1>6, <1>7 DEF SlowMode, Turning
  <2>3. TurnMode(u, "decide")
    BY <1>2, <1>7 DEF TurnMode
  <2> QED
    BY <1>0, <1>1, <1>8, <1>9, <1>10, <2>1, <2>2, <2>3, Zenon DEF SInv
<1>12. SInv(s, "decide")
  <2>1. FastMode(s, "search") => FastMode(s, "decide")
    BY <1>0 DEF FastMode
  <2>2. SlowMode(s, "search") => SlowMode(s, "decide")
    BY <1>0 DEF SlowMode, Turning
  <2>3. TurnMode(s, "decide")
    BY <1>2 DEF TurnMode
  <2> QED
    BY <1>0, <1>1, <1>10, <2>1, <2>2, <2>3, Zenon DEF SInv
<1>13. IoTypes'
  BY <1>0, <1>1, IoStays DEF Pcs
<1> QED
  BY <1>1, <1>11, <1>12, <1>13 DEF IInv

\* At the end of a turn of deflate_fast or deflate_slow.
LEMMA TurnEnds ==
    ASSUME NEW t, Shape(t), FuncOf(t) \in { "fast", "slow" },
           FuncOf(t) = "fast" => FastMode(t, "top"),
           FuncOf(t) = "slow" => SlowMode(t, "top"),
           NEW p \in { "top", "flush" }, p = "top" => Len(t.sym) # LitBufSize - 1
    PROVE  SInv(t, p)
<1>1. FuncOf(t) = "fast" => FastMode(t, p)
  BY DEF FastMode
<1>2. FuncOf(t) = "slow" => SlowMode(t, p)
  BY DEF SlowMode, Turning
<1>3. TurnMode(t, p)
  <2>1. Len(t.sym) < LitBufSize /\ t \in DState
    BY DEF Shape
  <2>2. Len(t.sym) \in Nat
    BY <2>1, Fields, LenProperties
  <2>3. p # "flush" => Len(t.sym) < LitBufSize - 1
    BY <2>1, <2>2, Sizes
  <2> QED
    BY <2>3 DEF TurnMode, Turning
<1> QED
  BY <1>1, <1>2, <1>3 DEF SInv

\* INSERT_STRING for the strings in a match that is taken whole.
LEMMA MatchInserted ==
    ASSUME NEW t, Shape(t), NEW end \in Nat, end <= t.strstart + t.lookahead,
           end >= t.strstart, NEW to \in Int, to <= end, to + 2 < WindowSize
    PROVE  LET u == InsertAll(t, t.strstart + 1, to)
           IN  u \in DState /\ Rehashed(u, t) /\ Below(u, end)
<1>1. t \in DState /\ t.strstart \in Nat /\ Below(t, t.strstart)
  BY Fields DEF Shape
<1>2. Below(t, end)
  BY <1>1, BelowMore
<1>3. t.strstart + 1 \in Nat \ {0}
  BY <1>1
<1> QED
  BY <1>1, <1>2, <1>3, InsertAllShape

\* u goes on behind a match, at end, with the tables and the symbols of v.
TakenIn(u, v, end, rest) ==
    /\ u \in DState /\ u.strstart = end /\ u.lookahead = rest /\ u.level = v.level
    /\ u.head = v.head /\ u.prev = v.prev /\ u.block_start = v.block_start
    /\ u.match_length <= MaxMatch /\ u.prev_length <= MaxMatch
    /\ ~u.match_available /\ u.sym = v.sym /\ u.bits = v.bits

\* A match is taken: it becomes a symbol, and the string behind it is the next one.
LEMMA MatchTaken ==
    ASSUME NEW t, Shape(t), NEW i \in DState, Rehashed(i, t), Len(t.sym) < LitBufSize - 1,
           NEW d \in Int, NEW n \in Nat, NEW end \in Nat, NEW rest \in Nat, Below(i, end),
           t.strstart <= end, end + rest <= WindowSize,
           NEW u, TakenIn(u, TallyDist(i, d, n), end, rest)
    PROVE  Shape(u) /\ FuncOf(u) = FuncOf(t)
<1> DEFINE v == TallyDist(i, d, n)
<1>1. v \in DState /\ Tallied(v, i) /\ Len(v.sym) = Len(i.sym) + 1 /\ Len(i.sym) \in Nat
  BY TallyDistIs
<1>0. TakenIn(u, v, end, rest)
  OBVIOUS
<1> HIDE DEF v
<1>2. /\ u.level = t.level /\ u.head = i.head /\ u.prev = i.prev
      /\ u.block_start = t.block_start /\ u.bits = t.bits
      /\ u \in DState /\ u.strstart = end /\ u.lookahead = rest
      /\ u.match_length <= MaxMatch /\ u.prev_length <= MaxMatch /\ ~u.match_available
  BY <1>0, <1>1, Zenon DEF Tallied, Rehashed, TakenIn
<1>3. Len(u.sym) = Len(t.sym) + 1 /\ Len(t.sym) \in Nat
  BY <1>0, <1>1 DEF Rehashed, TakenIn
<1>4. Below(u, end)
  BY <1>2 DEF Below
<1>5. t \in DState /\ t.block_start <= t.strstart /\ Len(t.bits) < 2
  BY DEF Shape
<1>6. t.strstart \in Nat /\ t.block_start \in Int
  BY <1>5, Fields
<1>7. u.block_start <= u.strstart
  BY <1>2, <1>5, <1>6
<1>8. Len(u.sym) < LitBufSize
  BY <1>3, Sizes
<1>9. Shape(u)
  BY <1>2, <1>4, <1>5, <1>7, <1>8 DEF Shape
<1> QED
  BY <1>2, <1>9 DEF FuncOf

\* deflate_fast: a match
LEMMA TakeMatchKeeps == ASSUME IInv, TakeMatch PROVE IInv'
<1> DEFINE n    == s.match_length
           rest == s.lookahead - n
           end  == s.strstart + n
           i == IF n <= Config[s.level].lazy /\ rest >= MIN_MATCH
                THEN InsertAll(s, s.strstart + 1, end - 1)
                ELSE [s EXCEPT !.ins_h = UpdateHash(s.window[end], s.window[end + 1])]
           d == s.strstart - s.match_start
           v == TallyDist(i, d, n)
           t == [v EXCEPT !.strstart = end, !.lookahead = rest, !.match_length = 0]
<1>0. /\ IoTypes /\ SInv(s, pc) /\ s \in DState /\ Shape(s)
      /\ s.strstart \in Nat /\ s.lookahead \in Nat /\ s.match_length \in Nat
      /\ s.match_start \in Int /\ s.strstart + s.lookahead <= WindowSize
      /\ s.match_length <= MaxMatch
  BY Fields DEF IInv, SInv, Shape
<1>1. /\ s' = t /\ pc' = (IF BlockFull(t) THEN "flush" ELSE "top")
      /\ UNCHANGED << flush, ret, io, history >>
      /\ pc = "decide" /\ Func = "fast" /\ n >= 3
  BY Sizes, Zenon DEF TakeMatch, EndTurn
<1>2. /\ FastMode(s, pc) /\ FuncOf(s) = "fast" /\ TurnMode(s, pc)
  BY <1>0, <1>1, FuncIs DEF SInv
<1>3. /\ n <= s.lookahead /\ s.prev_length = 2 /\ ~s.match_available
      /\ Len(s.sym) < LitBufSize - 1 /\ s.strstart <= WindowSize - MIN_LOOKAHEAD
  BY <1>1, <1>2 DEF FastMode, TurnMode, Turning
<1>4. n \in Nat /\ rest \in Nat /\ end \in Nat /\ d \in Int /\ end + rest <= WindowSize
      /\ s.strstart <= end /\ end <= s.strstart + s.lookahead
  BY <1>0, <1>3
<1>5. i \in DState /\ Rehashed(i, s) /\ Below(i, end)
  <2>1. CASE n <= Config[s.level].lazy /\ rest >= MIN_MATCH
    <3> DEFINE to == end - 1
    <3>1. to \in Int /\ to <= end /\ to + 2 < WindowSize
      <4>1. end + 3 <= WindowSize
        BY <1>4, <2>1, Sizes
      <4> HIDE DEF end, rest
      <4> QED
        BY <1>4, <4>1, Sizes
    <3> HIDE DEF to
    <3>2. i = InsertAll(s, s.strstart + 1, to)
      BY <2>1 DEF to
    <3> HIDE DEF i, end, rest
    <3> QED
      BY <1>0, <1>4, <3>1, <3>2, MatchInserted
  <2>2. CASE ~(n <= Config[s.level].lazy /\ rest >= MIN_MATCH)
    <3> DEFINE h == UpdateHash(s.window[end], s.window[end + 1])
               w == [s EXCEPT !.ins_h = h]
    <3>1. h \in 0..(HashSize - 1)
      <4>1. s.window \in [0..(WindowSize - 1) -> Nat]
        BY <1>0, Fields DEF Windows
      <4>2. end \in Nat /\ end + 1 < WindowSize
        <5>1. /\ s.strstart \in Nat /\ n \in Nat /\ n <= MaxMatch
              /\ s.strstart <= WindowSize - MIN_LOOKAHEAD
          BY <1>0, <1>3
        <5> HIDE DEF n
        <5> QED
          BY <5>1, Sizes
      <4> HIDE DEF end
      <4>4. end \in 0..(WindowSize - 1) /\ end + 1 \in 0..(WindowSize - 1)
        BY <4>2, Sizes
      <4>3. s.window[end] \in Nat /\ s.window[end + 1] \in Nat
        BY <4>1, <4>4
      <4> QED
        BY <4>3, HashType
    <3>2. i = w
      BY <2>2
    <3> HIDE DEF h
    <3>3. w \in DState
      BY <1>0, <3>1 DEF DState
    <3>4. Rehashed(w, s) /\ w.head = s.head /\ w.prev = s.prev
      BY DEF Rehashed
    <3> HIDE DEF w
    <3>5. Below(s, end)
      <4>1. Below(s, s.strstart)
        BY <1>0 DEF Shape
      <4> HIDE DEF end
      <4> QED
        BY <1>0, <1>4, <4>1, BelowMore
    <3>6. Below(w, end)
      BY <3>4, <3>5 DEF Below
    <3> QED
      BY <3>2, <3>3, <3>4, <3>6
  <2> QED
    BY <2>1, <2>2
<1> HIDE DEF i, rest, end, d
<1>6. v \in DState /\ Tallied(v, i)
  BY <1>4, <1>5, TallyDistIs
<1> HIDE DEF v
<1>7. t \in DState
  BY <1>4, <1>6 DEF DState
<1>8. t.strstart = end /\ t.lookahead = rest /\ t.match_length = 0
  BY <1>4, <1>6 DEF DState
<1>9. /\ t.level = v.level /\ t.head = v.head /\ t.prev = v.prev
      /\ t.block_start = v.block_start /\ t.match_available = v.match_available
      /\ t.prev_length = v.prev_length /\ t.sym = v.sym /\ t.bits = v.bits
  OBVIOUS
<1> HIDE DEF t
<1>10. t.prev_length = 2 /\ ~t.match_available
  BY <1>3, <1>5, <1>6, <1>9, Zenon DEF Tallied, Rehashed
<1>11. Shape(t) /\ FuncOf(t) = FuncOf(s)
  <2>1. t.match_length <= MaxMatch /\ t.prev_length <= MaxMatch
    BY <1>8, <1>10, Sizes
  <2>2. TakenIn(t, v, end, rest)
    BY <1>7, <1>8, <1>9, <1>10, <2>1, Zenon DEF TakenIn
  <2>3. TakenIn(t, TallyDist(i, d, n), end, rest)
    BY <2>2 DEF v
  <2> HIDE DEF n
  <2> QED
    BY <1>0, <1>3, <1>4, <1>5, <2>3, MatchTaken
<1>12. SInv(s, pc)'
  <2>1. FastMode(t, "top")
    BY <1>8, <1>10 DEF FastMode
  <2>2. pc' \in { "top", "flush" } /\ (pc' = "top" => Len(t.sym) # LitBufSize - 1)
    BY <1>1 DEF BlockFull
  <2> QED
    BY <1>1, <1>2, <1>11, <2>1, <2>2, TurnEnds
<1>13. IoTypes'
  BY <1>0, <1>1, IoStays DEF Pcs
<1> QED
  BY <1>12, <1>13 DEF IInv

\* deflate_slow: the match at the byte before
LEMMA TakePreviousMatchKeeps == ASSUME IInv, TakePreviousMatch PROVE IInv'
<1> DEFINE max_insert == s.strstart + s.lookahead - MIN_MATCH
           n    == s.prev_length
           end  == s.strstart - 1 + n
           to   == Smaller(end - 1, max_insert)
           i    == InsertAll(s, s.strstart + 1, to)
           d    == s.strstart - 1 - s.prev_match
           v    == TallyDist(i, d, n)
           rest == s.lookahead - (n - 1)
           t    == [v EXCEPT !.strstart = end, !.lookahead = rest,
                             !.prev_length = 0, !.match_available = FALSE, !.match_length = 2]
<1>0. /\ IoTypes /\ SInv(s, pc) /\ s \in DState /\ Shape(s)
      /\ s.strstart \in Nat /\ s.lookahead \in Nat /\ s.prev_length \in Nat
      /\ s.prev_match \in Int /\ s.strstart + s.lookahead <= WindowSize
      /\ s.prev_length <= MaxMatch
  BY Fields DEF IInv, SInv, Shape
<1>2. /\ pc = "decide" /\ Func = "slow" /\ n >= 3
      /\ UNCHANGED << flush, ret, io, history >>
  BY Sizes, Zenon DEF TakePreviousMatch, PreviousWins
<1>3. /\ SlowMode(s, pc) /\ FuncOf(s) = "slow" /\ TurnMode(s, pc)
  BY <1>0, <1>2, FuncIs DEF SInv
<1>4. /\ n <= s.lookahead + 1 /\ Len(s.sym) < LitBufSize - 1
  BY <1>2, <1>3 DEF SlowMode, TurnMode, Turning
<1>5. /\ n \in Nat /\ rest \in Nat /\ end \in Nat /\ d \in Int /\ end + rest <= WindowSize
      /\ s.strstart <= end /\ end <= s.strstart + s.lookahead
  <2>1. /\ s.strstart \in Nat /\ s.lookahead \in Nat /\ n \in Nat /\ s.prev_match \in Int
        /\ s.strstart + s.lookahead <= WindowSize
    BY <1>0
  <2>2. n >= 3 /\ n <= s.lookahead + 1
    BY <1>2, <1>4
  <2> DEFINE st == s.strstart
             la == s.lookahead
  <2>3. d \in Int
    BY <2>1
  <2>4. st \in Nat /\ la \in Nat /\ n \in Nat /\ st + la <= WindowSize /\ n >= 3 /\ n <= la + 1
    BY <2>1, <2>2
  <2>5. rest = la - (n - 1) /\ end = st - 1 + n
    OBVIOUS
  <2> HIDE DEF n, st, la, rest, end, d
  <2>6. /\ rest \in Nat /\ end \in Nat /\ end + rest <= WindowSize
        /\ st <= end /\ end <= st + la
    BY <2>4, <2>5, Sizes
  <2> QED
    BY <2>3, <2>4, <2>6 DEF st, la
<1>6. to \in Int /\ to <= end /\ to + 2 < WindowSize
  <2>1. max_insert = s.strstart + s.lookahead - 3
    BY Sizes
  <2> HIDE DEF max_insert, end
  <2>2. max_insert \in Int /\ max_insert + 2 < WindowSize
    BY <1>0, <2>1, Sizes
  <2> QED
    BY <1>5, <2>2, Sizes DEF Smaller
<1>7. i \in DState /\ Rehashed(i, s) /\ Below(i, end)
  <2> HIDE DEF end, to
  <2> QED
    BY <1>0, <1>5, <1>6, MatchInserted
<1>8. v \in DState /\ Tallied(v, i)
  <2> HIDE DEF i, d
  <2> QED
    BY <1>5, <1>7, TallyDistIs
<1>1. s' = t /\ pc' = (IF BlockFull(t) THEN "flush" ELSE "top")
  <2> DEFINE r == [v EXCEPT !.strstart = end, !.lookahead = @ - (n - 1),
                            !.prev_length = 0, !.match_available = FALSE, !.match_length = 2]
  <2>1. MIN_MATCH - 1 = 2
    BY Sizes
  <2>2. s' = r /\ pc' = (IF BlockFull(r) THEN "flush" ELSE "top")
    BY <2>1, Zenon DEF TakePreviousMatch, EndTurn
  <2>3. v.lookahead = s.lookahead
    <3> HIDE DEF v, i
    <3> QED
      BY <1>7, <1>8, Zenon DEF Tallied, Rehashed
  <2>4. r = [v EXCEPT !.strstart = end, !.lookahead = v.lookahead - (n - 1),
                      !.prev_length = 0, !.match_available = FALSE, !.match_length = 2]
    <3> HIDE DEF v, end
    <3> QED
      BY Zenon
  <2>5. r = t
    <3> HIDE DEF v, end, r
    <3> QED
      BY <2>3, <2>4, Zenon
  <2> HIDE DEF r, t
  <2> QED
    BY <2>2, <2>5
<1> HIDE DEF i, rest, end, d, to, v
<1>9. t \in DState
  BY <1>5, <1>8 DEF DState
<1>10. /\ t.strstart = end /\ t.lookahead = rest /\ t.match_length = 2 /\ t.prev_length = 0
       /\ ~t.match_available
  BY <1>5, <1>8 DEF DState
<1>11. /\ t.level = v.level /\ t.head = v.head /\ t.prev = v.prev
       /\ t.block_start = v.block_start /\ t.sym = v.sym /\ t.bits = v.bits
  OBVIOUS
<1> HIDE DEF t
<1>12. Shape(t) /\ FuncOf(t) = FuncOf(s)
  <2>1. t.match_length <= MaxMatch /\ t.prev_length <= MaxMatch
    BY <1>10, Sizes
  <2>2. TakenIn(t, v, end, rest)
    BY <1>9, <1>10, <1>11, <2>1, Zenon DEF TakenIn
  <2>3. TakenIn(t, TallyDist(i, d, n), end, rest)
    BY <2>2 DEF v
  <2> HIDE DEF n
  <2> QED
    BY <1>0, <1>4, <1>5, <1>7, <2>3, MatchTaken
<1>13. SInv(s, pc)'
  <2>1. SlowMode(t, "top")
    BY <1>10 DEF SlowMode, Turning
  <2>2. pc' \in { "top", "flush" } /\ (pc' = "top" => Len(t.sym) # LitBufSize - 1)
    BY <1>1 DEF BlockFull
  <2> QED
    BY <1>1, <1>3, <1>12, <2>1, <2>2, TurnEnds
<1>14. IoTypes'
  BY <1>0, <1>1, <1>2, IoStays DEF Pcs
<1> QED
  BY <1>13, <1>14 DEF IInv

\* u is one byte on from t.
OneOn(u, t) ==
    /\ u.level = t.level /\ u.status = t.status /\ u.last_flush = t.last_flush
    /\ u.wrap = t.wrap /\ u.window = t.window
    /\ u.head = t.head /\ u.prev = t.prev /\ u.ins_h = t.ins_h
    /\ u.strstart = t.strstart + 1 /\ u.block_start = t.block_start
    /\ u.lookahead = t.lookahead - 1
    /\ u.match_length = t.match_length /\ u.match_start = t.match_start
    /\ u.prev_length = t.prev_length /\ u.prev_match = t.prev_match
    /\ u.match_available = t.match_available
    /\ u.sym = t.sym /\ u.bits = t.bits /\ u.pending = t.pending /\ u.adler = t.adler

LEMMA AdvanceIs ==
    ASSUME NEW t \in DState, t.lookahead > 0
    PROVE  Advance(t) \in DState /\ OneOn(Advance(t), t)
<1> DEFINE st == t.strstart + 1
           la == t.lookahead - 1
           u == [t EXCEPT !.strstart = st, !.lookahead = la]
<1>1. st \in Nat /\ la \in Nat
  BY Fields
<1>2. Advance(t) = u
  BY Zenon DEF Advance
<1> HIDE DEF st, la
<1>3. u \in DState
  BY <1>1 DEF DState
<1>4. u.strstart = st /\ u.lookahead = la
  BY <1>1 DEF DState
<1>5. /\ u.level = t.level /\ u.status = t.status /\ u.last_flush = t.last_flush
      /\ u.wrap = t.wrap /\ u.window = t.window
      /\ u.head = t.head /\ u.prev = t.prev /\ u.ins_h = t.ins_h
      /\ u.block_start = t.block_start
      /\ u.match_length = t.match_length /\ u.match_start = t.match_start
      /\ u.prev_length = t.prev_length /\ u.prev_match = t.prev_match
      /\ u.match_available = t.match_available
      /\ u.sym = t.sym /\ u.bits = t.bits /\ u.pending = t.pending /\ u.adler = t.adler
  OBVIOUS
<1> HIDE DEF u
<1> QED
  BY <1>2, <1>3, <1>4, <1>5, Zenon DEF OneOn, st, la

\* Its limits: u is one byte on from v, which has the sizes of t and at most one symbol more.
LEMMA OneOnShape ==
    ASSUME NEW t, Shape(t), t.lookahead > 0, Len(t.sym) < LitBufSize - 1,
           NEW v \in DState, NEW u \in DState, OneOn(u, v),
           v.head = t.head, v.prev = t.prev,
           v.strstart = t.strstart, v.lookahead = t.lookahead, v.block_start = t.block_start,
           v.match_length = t.match_length, v.prev_length = t.prev_length,
           v.bits = t.bits, Len(v.sym) \in { Len(t.sym), Len(t.sym) + 1 }
    PROVE  Shape(u)
<1>1. /\ t \in DState /\ t.strstart \in Nat /\ t.lookahead \in Nat /\ t.block_start \in Int
      /\ t.strstart + t.lookahead <= WindowSize /\ t.block_start <= t.strstart
      /\ Below(t, t.strstart) /\ Len(t.bits) < 2
      /\ t.match_length <= MaxMatch /\ t.prev_length <= MaxMatch
  BY Fields DEF Shape
<1>2. Len(t.sym) \in Nat
  BY <1>1, Fields, LenProperties
<1>3. Below(t, t.strstart + 1)
  BY <1>1, BelowMore
<1>4. /\ u.strstart = t.strstart + 1 /\ u.block_start = t.block_start
      /\ u.lookahead = t.lookahead - 1 /\ u.match_length = t.match_length
      /\ u.prev_length = t.prev_length /\ u.bits = t.bits /\ u.sym = v.sym
      /\ u.head = t.head /\ u.prev = t.prev
  BY DEF OneOn
<1>5. Below(u, t.strstart + 1)
  BY <1>3, <1>4 DEF Below
<1>6. Len(u.sym) < LitBufSize
  <2> DEFINE n == Len(t.sym)
             k == Len(v.sym)
  <2>1. n \in Nat /\ n < LitBufSize - 1 /\ k \in { n, n + 1 }
    BY <1>2
  <2>2. Len(u.sym) = k
    BY <1>4
  <2> HIDE DEF n, k
  <2>3. k < LitBufSize
    BY <2>1, Sizes
  <2> QED
    BY <2>2, <2>3
<1>7. /\ u.strstart + u.lookahead <= WindowSize /\ u.block_start <= u.strstart
      /\ u.strstart >= 1 /\ u.block_start < u.strstart
  <2> DEFINE n == t.strstart
             k == t.lookahead
             l == t.block_start
  <2> HIDE DEF n, k, l
  <2>1. n \in Nat /\ k \in Nat /\ l \in Int /\ n + k <= WindowSize /\ l <= n /\ WindowSize \in Nat
    BY <1>1, Sizes DEF n, k, l
  <2>2. u.strstart = n + 1 /\ u.block_start = l /\ u.lookahead = k - 1
    BY <1>4 DEF n, k, l
  <2> QED
    BY <2>1, <2>2
<1> QED
  BY <1>1, <1>4, <1>5, <1>6, <1>7, Zenon DEF Shape

\* The byte at a position of the window.
LEMMA WindowByte ==
    ASSUME NEW t \in DState, NEW p \in Nat, p < WindowSize
    PROVE  t.window[p] \in Nat
<1>1. t.window \in [0..(WindowSize - 1) -> Nat]
  BY Fields DEF Windows
<1>2. p \in 0..(WindowSize - 1)
  BY Sizes
<1> QED
  BY <1>1, <1>2

\* deflate_fast: a literal
LEMMA TakeLiteralKeeps == ASSUME IInv, TakeLiteral PROVE IInv'
<1> DEFINE v == TallyLit(s, s.window[s.strstart])
           t == Advance(v)
<1>0. /\ IoTypes /\ SInv(s, pc) /\ s \in DState /\ Shape(s)
      /\ s.strstart \in Nat /\ s.lookahead \in Nat /\ s.match_length \in Nat
  BY Fields DEF IInv, SInv, Shape
<1>1. /\ s' = t /\ pc' = (IF BlockFull(t) THEN "flush" ELSE "top")
      /\ UNCHANGED << flush, ret, io, history >>
      /\ pc = "decide" /\ Func = "fast" /\ s.match_length < 3
  BY Sizes, Zenon DEF TakeLiteral, EndTurn
<1>2. FastMode(s, pc) /\ FuncOf(s) = "fast" /\ TurnMode(s, pc)
  BY <1>0, <1>1, FuncIs DEF SInv
<1>3. /\ s.lookahead > 0 /\ s.strstart <= WindowSize - MIN_LOOKAHEAD
      /\ Len(s.sym) < LitBufSize - 1
  BY <1>1, <1>2 DEF TurnMode, Turning
<1>4. v \in DState /\ Tallied(v, s) /\ Len(v.sym) = Len(s.sym) + 1
  <2>1. s.strstart < WindowSize
    BY <1>0, <1>3, Sizes
  <2>2. s.window[s.strstart] \in Nat
    BY <1>0, <2>1, WindowByte
  <2> QED
    BY <1>0, <2>2, TallyLitIs
<1> HIDE DEF v
<1>5. t \in DState /\ OneOn(t, v)
  BY <1>3, <1>4, AdvanceIs DEF Tallied
<1> HIDE DEF t
<1>6. Shape(t)
  BY <1>0, <1>3, <1>4, <1>5, OneOnShape DEF Tallied
<1>7. FastMode(t, "top") /\ FuncOf(t) = "fast"
  <2>1. /\ t.level = s.level /\ t.match_available = s.match_available
        /\ t.prev_length = s.prev_length /\ t.match_length = s.match_length
    BY <1>4, <1>5, Zenon DEF Tallied, OneOn
  <2> QED
    BY <1>0, <1>1, <1>2, <2>1 DEF FastMode, FuncOf
<1>8. pc' \in { "top", "flush" } /\ (pc' = "top" => Len(t.sym) # LitBufSize - 1)
  BY <1>1 DEF BlockFull
<1>9. SInv(s, pc)'
  BY <1>1, <1>6, <1>7, <1>8, TurnEnds
<1>10. IoTypes'
  BY <1>0, <1>1, IoStays DEF Pcs
<1> QED
  BY <1>9, <1>10 DEF IInv

\* deflate_slow: the byte before becomes a literal.
LEMMA TallyPreviousIs ==
    ASSUME NEW t \in DState, t.strstart >= 1, t.strstart <= WindowSize
    PROVE  LET u == TallyPrevious(t)
               c == t.window[t.strstart - 1]
           IN  /\ c \in Nat /\ u \in DState /\ Tallied(u, t)
               /\ u.sym = Append(t.sym, << Lit(c) >>) /\ << Lit(c) >> \in Seq(Items)
               /\ Len(u.sym) = Len(t.sym) + 1 /\ Len(t.sym) \in Nat
<1>1. t.strstart - 1 \in Nat /\ t.strstart - 1 < WindowSize
  BY Fields, Sizes
<1>2. t.window[t.strstart - 1] \in Nat
  BY <1>1, WindowByte
<1> QED
  BY <1>2, TallyLitIs DEF TallyPrevious

LEMMA TakePreviousLiteralKeeps == ASSUME IInv, TakePreviousLiteral PROVE IInv'
<1> DEFINE v == TallyPrevious(s)
           w == [s EXCEPT !.match_available = TRUE]
           a == Advance(v)
           b == Advance(w)
<1>0. /\ IoTypes /\ SInv(s, pc) /\ s \in DState /\ Shape(s)
      /\ s.strstart \in Nat /\ s.lookahead \in Nat /\ s.match_length \in Nat
      /\ s.strstart + s.lookahead <= WindowSize
  BY Fields DEF IInv, SInv, Shape
<1>1. /\ \/ s.match_available /\ s' = a /\ pc' = (IF BlockFull(v) THEN "flush" ELSE "top")
         \/ ~s.match_available /\ s' = b /\ pc' = "top"
      /\ UNCHANGED << flush, ret, io, history >>
      /\ pc = "decide" /\ Func = "slow"
  BY Zenon DEF TakePreviousLiteral, EndTurn
<1>2. SlowMode(s, pc) /\ FuncOf(s) = "slow" /\ TurnMode(s, pc)
  BY <1>0, <1>1, FuncIs DEF SInv
<1>3. s.lookahead > 0 /\ Len(s.sym) < LitBufSize - 1
      /\ (s.match_length >= 3 => s.match_length <= s.lookahead)
  BY <1>1, <1>2 DEF TurnMode, SlowMode, Turning
<1>4. Len(s.sym) \in Nat
  BY <1>0, Fields, LenProperties
<1>5. IoTypes'
  BY <1>0, <1>1, IoStays DEF Pcs
<1>6. CASE s.match_available
  <2>1. s.strstart >= 1 /\ s.strstart <= WindowSize
    BY <1>0, <1>6, Sizes DEF Shape
  <2>2. v \in DState /\ Tallied(v, s) /\ Len(v.sym) = Len(s.sym) + 1
    BY <1>0, <2>1, TallyPreviousIs
  <2> HIDE DEF v
  <2>3. a \in DState /\ OneOn(a, v)
    BY <1>3, <2>2, AdvanceIs DEF Tallied
  <2> HIDE DEF a
  <2>4. Shape(a)
    BY <1>0, <1>3, <2>2, <2>3, OneOnShape DEF Tallied
  <2>5. SlowMode(a, "top") /\ FuncOf(a) = "slow"
    <3>1. /\ a.level = s.level /\ a.match_available = s.match_available
          /\ a.lookahead = s.lookahead - 1 /\ a.match_length = s.match_length
      BY <2>2, <2>3, Zenon DEF Tallied, OneOn
    <3> QED
      BY <1>0, <1>2, <1>3, <1>6, <3>1 DEF SlowMode, FuncOf, Turning
  <2>6. s' = a /\ pc' \in { "top", "flush" } /\ (pc' = "top" => Len(a.sym) # LitBufSize - 1)
    BY <1>1, <1>6, <2>3 DEF BlockFull, OneOn
  <2>7. SInv(s, pc)'
    BY <2>4, <2>5, <2>6, TurnEnds
  <2> QED
    BY <1>5, <2>7 DEF IInv
<1>7. CASE ~s.match_available
  <2>1. w \in DState
    BY <1>0 DEF DState
  <2>2. w.match_available
    BY <1>0 DEF DState
  <2>3. /\ w.level = s.level /\ w.head = s.head /\ w.prev = s.prev
        /\ w.strstart = s.strstart /\ w.lookahead = s.lookahead
        /\ w.block_start = s.block_start /\ w.match_length = s.match_length
        /\ w.prev_length = s.prev_length /\ w.bits = s.bits /\ w.sym = s.sym
    OBVIOUS
  <2> HIDE DEF w
  <2>4. b \in DState /\ OneOn(b, w)
    BY <1>3, <2>1, <2>3, AdvanceIs
  <2> HIDE DEF b
  <2>5. Shape(b)
    BY <1>0, <1>3, <2>1, <2>3, <2>4, OneOnShape
  <2>6. SlowMode(b, "top") /\ FuncOf(b) = "slow"
    <3>1. /\ b.level = s.level /\ b.match_available
          /\ b.lookahead = s.lookahead - 1 /\ b.match_length = s.match_length
      BY <2>2, <2>3, <2>4, Zenon DEF OneOn
    <3> QED
      BY <1>0, <1>2, <1>3, <3>1 DEF SlowMode, FuncOf, Turning
  <2>7. s' = b /\ pc' = "top" /\ Len(b.sym) # LitBufSize - 1
    BY <1>1, <1>3, <1>4, <1>7, <2>3, <2>4, Sizes DEF OneOn
  <2>8. SInv(s, pc)'
    BY <2>5, <2>6, <2>7, TurnEnds
  <2> QED
    BY <1>5, <2>8 DEF IInv
<1> QED
  BY <1>6, <1>7

\* A block has been made.
LEMMA FlushKeeps ==
    ASSUME NEW t, SInv(t, "flush"), NEW to \in Nat, to <= t.strstart,
           FuncOf(t) = "stored" => to = t.strstart,
           t.match_available => to < t.strstart,
           NEW u \in DState, Flushed(u, t), Len(u.bits) < 2, u.sym = << >>, u.block_start = to,
           NEW q \in Plain
    PROVE  SInv(u, q)
<1>0. q \notin { "search", "decide", "flush", "fill", "filled" }
  BY DEF Plain
<1>1. /\ u.level = t.level /\ u.head = t.head /\ u.prev = t.prev
      /\ u.strstart = t.strstart /\ u.lookahead = t.lookahead
      /\ u.match_length = t.match_length /\ u.prev_length = t.prev_length
      /\ u.match_available = t.match_available
  BY DEF Flushed, Written
<1>2. Len(u.sym) = 0 /\ 0 < LitBufSize - 1
  BY Sizes, EmptySeq
<1>3. Shape(t)
  BY DEF SInv
<1>4. Shape(u)
  <2>1. Below(u, u.strstart)
    BY <1>1, <1>3 DEF Below, Shape
  <2>2. Len(u.sym) < LitBufSize
    BY <1>2, Sizes
  <2> QED
    BY <1>1, <1>3, <2>1, <2>2, Zenon DEF Shape
<1>5. FuncOf(u) = FuncOf(t)
  BY <1>1 DEF FuncOf
<1>6. FuncOf(t) = "stored" => StoredMode(u, q)
  <2> SUFFICES ASSUME FuncOf(t) = "stored" PROVE StoredMode(u, q)
    OBVIOUS
  <2>1. StoredMode(t, "flush")
    BY DEF SInv
  <2>2. u.block_start = u.strstart /\ u.strstart \in Nat
    BY <1>1, Fields
  <2> QED
    BY <1>0, <1>1, <2>1, <2>2, Sizes DEF StoredMode, Turning
<1>7. FuncOf(t) = "fast" => FastMode(u, q)
  BY <1>0, <1>1 DEF FastMode, SInv
<1>8. FuncOf(t) = "slow" => SlowMode(u, q)
  BY <1>0, <1>1 DEF SlowMode, SInv, Turning
<1>9. TurnMode(u, q)
  BY <1>0, <1>2 DEF TurnMode, Turning
<1> QED
  BY <1>4, <1>5, <1>6, <1>7, <1>8, <1>9, Zenon DEF SInv

\* FLUSH_BLOCK
LEMMA FlushFullKeeps == ASSUME IInv, FlushFull PROVE IInv'
<1> DEFINE to == s.strstart - Undecided
           f(x) == FlushBlock(s, to, FALSE, x)
<1>0. /\ IoTypes /\ SInv(s, pc) /\ s \in DState /\ Shape(s)
      /\ s.strstart \in Nat /\ s.lookahead \in Nat /\ s.block_start \in Int
      /\ s.strstart + s.lookahead <= WindowSize /\ s.block_start <= s.strstart
      /\ s.match_available => s.strstart >= 1 /\ s.block_start < s.strstart
  BY Fields DEF IInv, SInv, Shape
<1>1. PICK stored \in Storable(s) :
        /\ pc = "flush" /\ FlushPending(f(stored)) /\ pc' \in { "need_more", "top" }
        /\ UNCHANGED << flush, ret, input, luabuf, history >>
  BY DEF FlushFull, NeedMore
<1>2. /\ to \in Nat /\ to <= s.strstart /\ s.block_start <= to /\ to <= WindowSize
      /\ s.match_available => to < s.strstart
      /\ ~s.match_available => to = s.strstart
  <2>1. Undecided = IF s.match_available THEN 1 ELSE 0
    BY DEF Undecided
  <2> QED
    BY <1>0, <2>1, Sizes
<1> HIDE DEF to
<1> DEFINE u == f(stored)
<1>3. u \in DState /\ Flushed(u, s) /\ Len(u.bits) < 2 /\ u.sym = << >> /\ u.block_start = to
  BY <1>0, <1>2, FlushBlockIs
<1>4. FuncOf(s) = "stored" => to = s.strstart
  BY <1>0, <1>2 DEF SInv, StoredMode
<1>5. FlushPending(u)
  BY <1>1
<1> HIDE DEF u, f
<1>6. /\ s' \in DState /\ Sent(s', u) /\ s'.bits = u.bits
      /\ buf' \in Seq(Bytes) /\ Len(buf') <= BufSize
  BY <1>0, <1>3, <1>5, FlushPendingIs
<1>7. Flushed(s', s) /\ s'.sym = << >> /\ s'.block_start = to /\ Len(s'.bits) < 2
  BY <1>3, <1>6, Zenon DEF Flushed, Sent, Written
<1>8. SInv(s, pc)'
  <2>1. pc' \in Plain /\ SInv(s, "flush")
    BY <1>0, <1>1 DEF Plain
  <2> QED
    BY <1>2, <1>4, <1>6, <1>7, <2>1, FlushKeeps
<1>9. IoTypes'
  <2>1. pc' \in Pcs
    BY <1>1 DEF Pcs
  <2> QED
    BY <1>0, <1>1, <1>6, <2>1 DEF IoTypes, history
<1> QED
  BY <1>8, <1>9 DEF IInv

\* The end of the input in finish()
LEMMA LastBlockKeeps == ASSUME IInv, LastBlock PROVE IInv'
<1> DEFINE v == TallyPrevious(s)
           w == [v EXCEPT !.match_available = FALSE]
           t == IF s.match_available THEN w ELSE s
           f(x) == FlushBlock(t, t.strstart, TRUE, x)
           g(x) == [f(x) EXCEPT !.status = "FINISH"]
<1>0. /\ IoTypes /\ SInv(s, pc) /\ s \in DState /\ Shape(s)
      /\ s.strstart \in Nat /\ s.lookahead \in Nat /\ s.block_start \in Int
      /\ s.strstart + s.lookahead <= WindowSize /\ s.block_start <= s.strstart
      /\ s.match_available => s.strstart >= 1 /\ s.block_start < s.strstart
  BY Fields DEF IInv, SInv, Shape
<1>1. PICK stored \in Storable(t) :
        /\ pc = "filled" /\ s.lookahead = 0
        /\ FlushPending(g(stored)) /\ pc' \in { "need_more", "tail" }
        /\ UNCHANGED << flush, ret, input, luabuf, history >>
  BY DEF LastBlock
<1>2. /\ t \in DState /\ t.level = s.level /\ t.head = s.head /\ t.prev = s.prev
      /\ t.strstart = s.strstart /\ t.lookahead = s.lookahead
      /\ t.block_start = s.block_start /\ t.match_length = s.match_length
      /\ t.prev_length = s.prev_length /\ t.bits = s.bits /\ ~t.match_available
      /\ Len(t.sym) < LitBufSize
      /\ ~s.match_available => t.sym = s.sym
  <2>0. Len(s.sym) < LitBufSize - 1 /\ Len(s.sym) \in Nat
    BY <1>0, <1>1, Fields, LenProperties DEF SInv, TurnMode
  <2>1. CASE s.match_available
    <3>1. s.strstart >= 1 /\ s.strstart <= WindowSize
      BY <1>0, <2>1, Sizes
    <3>2. v \in DState /\ Tallied(v, s) /\ Len(v.sym) = Len(s.sym) + 1
      BY <1>0, <3>1, TallyPreviousIs
    <3> HIDE DEF v
    <3>3. w \in DState
      BY <3>2 DEF DState
    <3>4. ~w.match_available
      BY <3>2 DEF DState
    <3>5. /\ w.level = v.level /\ w.head = v.head /\ w.prev = v.prev
          /\ w.strstart = v.strstart /\ w.lookahead = v.lookahead
          /\ w.block_start = v.block_start /\ w.match_length = v.match_length
          /\ w.prev_length = v.prev_length /\ w.bits = v.bits /\ w.sym = v.sym
      OBVIOUS
    <3>6. t = w
      BY <2>1
    <3> HIDE DEF w, t
    <3>7. Len(w.sym) < LitBufSize
      BY <2>0, <3>2, <3>5, Sizes
    <3> QED
      BY <2>1, <3>2, <3>3, <3>4, <3>5, <3>6, <3>7, Zenon DEF Tallied
  <2>2. CASE ~s.match_available
    <3>1. t = s
      BY <2>2
    <3> HIDE DEF t
    <3>2. Len(s.sym) < LitBufSize
      BY <2>0, Sizes
    <3> QED
      BY <1>0, <2>2, <3>1, <3>2
  <2> QED
    BY <2>1, <2>2
<1> HIDE DEF t
<1>3. SInv(t, "flush")
  <2>1. Shape(t)
    <3>1. Below(t, t.strstart)
      BY <1>0, <1>2 DEF Below, Shape
    <3> QED
      BY <1>0, <1>2, <3>1, Zenon DEF Shape
  <2>2. FuncOf(t) = FuncOf(s)
    BY <1>2 DEF FuncOf
  <2>3. StoredMode(s, pc) => StoredMode(t, "flush")
    BY <1>2 DEF StoredMode, Turning
  <2>4. FastMode(s, pc) => FastMode(t, "flush")
    BY <1>1, <1>2 DEF FastMode
  <2>5. SlowMode(s, pc) => SlowMode(t, "flush")
    <3>1. s.match_length \in Nat
      BY <1>0, Fields
    <3> QED
      BY <1>1, <1>2, <3>1 DEF SlowMode, Turning
  <2>6. TurnMode(t, "flush")
    BY DEF TurnMode, Turning
  <2> QED
    BY <1>0, <2>1, <2>2, <2>3, <2>4, <2>5, <2>6, Zenon DEF SInv
<1> DEFINE u == f(stored)
           x == g(stored)
<1>4. u \in DState /\ Flushed(u, t) /\ Len(u.bits) < 2 /\ u.sym = << >>
      /\ u.block_start = t.strstart
  <2>1. t.strstart \in Nat /\ t.strstart <= WindowSize /\ t.block_start <= t.strstart
    BY <1>0, <1>2, Sizes
  <2> QED
    BY <1>1, <1>2, <2>1, FlushBlockIs
<1>5. SInv(u, "tail")
  <2>1. t.strstart \in Nat /\ "tail" \in Plain /\ t.strstart <= t.strstart
    BY <1>0, <1>2 DEF Plain
  <2> QED
    BY <1>2, <1>3, <1>4, <2>1, FlushKeeps
<1>6. FlushPending(x)
  BY <1>1
<1> HIDE DEF f
<1>7. x = [u EXCEPT !.status = "FINISH"]
  OBVIOUS
<1> HIDE DEF u, x, g
<1>8. x \in DState /\ Alike(x, u)
  <2>1. x \in DState
    BY <1>4, <1>7 DEF DState
  <2>2. Alike(x, u)
    BY <1>4, <1>7, <2>1 DEF Alike
  <2> QED
    BY <2>1, <2>2
<1>9. /\ s' \in DState /\ Sent(s', x) /\ s'.bits = x.bits
      /\ buf' \in Seq(Bytes) /\ Len(buf') <= BufSize
  BY <1>0, <1>6, <1>8, FlushPendingIs
<1>10. Alike(s', u)
  BY <1>8, <1>9, Zenon DEF Alike, Sent, Written
<1>11. SInv(s', "tail")
  BY <1>5, <1>10, AlikeKeeps
<1>12. SInv(s, pc)'
  <2>1. pc' \in Plain
    BY <1>1 DEF Plain
  <2> QED
    BY <1>11, <2>1, PlainKeeps
<1>13. IoTypes'
  <2>1. pc' \in Pcs
    BY <1>1 DEF Pcs
  <2> QED
    BY <1>0, <1>1, <1>9, <2>1 DEF IoTypes, history
<1> QED
  BY <1>12, <1>13 DEF IInv

\* need_more and finish_started
LEMMA BlockNotDoneKeeps == ASSUME IInv, BlockNotDone PROVE IInv'
<1> DEFINE lf == AvoidBufError
           u == [s EXCEPT !.last_flush = lf]
<1>0. /\ IoTypes /\ SInv(s, pc) /\ s \in DState /\ Len(s.bits) < 2
  BY DEF IInv, SInv, Shape
<1>1. /\ s' = u /\ pc = "need_more" /\ pc' = "called" /\ ret' = "OK"
      /\ UNCHANGED << flush, input, buf, luabuf, history >>
  BY DEF BlockNotDone, Leave
<1>2. lf \in { "NONE", "NO_FLUSH", "FINISH" }
  BY <1>0, Fields DEF AvoidBufError
<1> HIDE DEF lf
<1>3. u \in DState
  BY <1>0, <1>2 DEF DState
<1>4. Alike(u, s)
  BY <1>0, <1>3 DEF Alike
<1>5. SInv(s, pc)'
  <2>1. SInv(s, pc')
    BY <1>0, <1>1, PlainKeeps DEF Plain
  <2> QED
    BY <1>1, <1>4, <2>1, AlikeKeeps
<1>6. IoTypes'
  BY <1>0, <1>1 DEF IoTypes, Pcs, history
<1> QED
  BY <1>5, <1>6 DEF IInv

\* The trailer
LEMMA TrailerKeeps == ASSUME IInv, Trailer PROVE IInv'
<1> DEFINE bi == << Check(s.adler) >>
           v == [s EXCEPT !.bits = bi]
           w == WindUp(v)
           t == [w EXCEPT !.wrap = FALSE]
<1>0. /\ IoTypes /\ SInv(s, pc) /\ s \in DState /\ Len(s.bits) < 2
  BY DEF IInv, SInv, Shape
<1>1. /\ pc = "tail" /\ pc' = "called" /\ ret' \in { "OK", "STREAM_END" }
      /\ UNCHANGED << flush, input, luabuf, history >>
      /\ (buf' = buf /\ s' = s) \/ FlushPending(t)
  BY DEF Trailer, Leave
<1>2. bi \in Seq(Items)
  <2> DEFINE c == Check(s.adler)
  <2>1. c \in Items
    BY <1>0, Fields, ItemTypes
  <2> HIDE DEF c
  <2>2. << c >> \in Seq(Items)
    BY <2>1
  <2> QED
    BY <2>2 DEF c
<1> HIDE DEF bi
<1>3. v \in DState
  BY <1>0, <1>2 DEF DState
<1>4. /\ v.level = s.level /\ v.head = s.head /\ v.prev = s.prev
      /\ v.strstart = s.strstart /\ v.block_start = s.block_start
      /\ v.lookahead = s.lookahead /\ v.match_length = s.match_length
      /\ v.prev_length = s.prev_length /\ v.match_available = s.match_available
      /\ v.sym = s.sym
  OBVIOUS
<1> HIDE DEF v
<1>5. w \in DState /\ w.bits = << >> /\ Sent(w, v)
  BY <1>3, WindUpIs
<1> HIDE DEF w
<1>6. t \in DState
  BY <1>5 DEF DState
<1>7. /\ t.level = w.level /\ t.head = w.head /\ t.prev = w.prev
      /\ t.strstart = w.strstart /\ t.block_start = w.block_start
      /\ t.lookahead = w.lookahead /\ t.match_length = w.match_length
      /\ t.prev_length = w.prev_length /\ t.match_available = w.match_available
      /\ t.sym = w.sym /\ t.bits = w.bits
  OBVIOUS
<1> HIDE DEF t
<1>8. Alike(t, s)
  <2>1. Len(t.bits) < 2
    BY <1>5, <1>7, EmptySeq
  <2> QED
    BY <1>4, <1>5, <1>6, <1>7, <2>1, Zenon DEF Alike, Sent, Written
<1>9. SInv(s, pc')
  BY <1>0, <1>1, PlainKeeps DEF Plain
<1>10. CASE buf' = buf /\ s' = s
  BY <1>0, <1>1, <1>9, <1>10 DEF IInv, IoTypes, Pcs, history
<1>11. CASE FlushPending(t)
  <2>1. /\ s' \in DState /\ Sent(s', t) /\ s'.bits = t.bits
        /\ buf' \in Seq(Bytes) /\ Len(buf') <= BufSize
    BY <1>0, <1>6, <1>11, FlushPendingIs
  <2>2. Alike(s', s)
    BY <1>8, <2>1, Zenon DEF Alike, Sent, Written
  <2>3. SInv(s, pc)'
    BY <1>9, <2>2, AlikeKeeps
  <2>4. IoTypes'
    BY <1>0, <1>1, <2>1 DEF IoTypes, Pcs, history
  <2> QED
    BY <2>3, <2>4 DEF IInv
<1> QED
  BY <1>1, <1>10, <1>11

LEMMA NextInv == IInv /\ [Next]_vars => IInv'
<1> SUFFICES ASSUME IInv, [Next]_vars PROVE IInv'
  OBVIOUS
<1>1. CASE Caller
  BY <1>1, CallerKeeps
<1>2. CASE OutOfSequence \/ ZlibError \/ GoOn \/ CallReturns
  BY <1>2, BackKeeps
<1>3. CASE CallDeflate
  BY <1>3, CallDeflateKeeps
<1>4. CASE FillWindow
  BY <1>4, FillKeeps
<1>5. CASE WaitForInput
  BY <1>5, WaitKeeps
<1>6. CASE TurnStored
  BY <1>6, TurnStoredKeeps
<1>7. CASE FlushFull
  BY <1>7, FlushFullKeeps
<1>8. CASE Insert
  BY <1>8, InsertKeeps
<1>9. CASE Search
  BY <1>9, SearchKeeps
<1>10. CASE TakeMatch
  BY <1>10, TakeMatchKeeps
<1>11. CASE TakeLiteral
  BY <1>11, TakeLiteralKeeps
<1>12. CASE TakePreviousMatch
  BY <1>12, TakePreviousMatchKeeps
<1>13. CASE TakePreviousLiteral
  BY <1>13, TakePreviousLiteralKeeps
<1>14. CASE LastBlock
  BY <1>14, LastBlockKeeps
<1>15. CASE BlockNotDone
  BY <1>15, BlockNotDoneKeeps
<1>16. CASE Trailer
  BY <1>16, TrailerKeeps
<1>17. CASE UNCHANGED vars
  BY <1>17 DEF vars, io, history, IInv, IoTypes
<1> QED
  BY <1>1, <1>2, <1>3, <1>4, <1>5, <1>6, <1>7, <1>8, <1>9, <1>10, <1>11, <1>12, <1>13,
     <1>14, <1>15, <1>16, <1>17, Zenon DEF Next, System

\* The assertions of deflate.c never fail, whatever the sizes of the window, the symbol buffer
\* and the output buffer: the window slides in time, there is room to read and to look for a
\* match, no index is out of its range, and a block that can only be stored is in the window.
THEOREM AssertionsNeverFail == Spec => []AssertionsHold
<1>1. Spec => []IInv
  BY InitInv, NextInv, PTL DEF Spec
<1> QED
  BY <1>1, InvAssertions, PTL

-----------------------------------------------------------------------------
(* The hash value.                                                         *)

\* A multiple of a multiple is one.
LEMMA ModTimes ==
    ASSUME NEW d \in Nat \ {0}, NEW x \in Nat, x % d = 0, NEW c \in Nat
    PROVE  x * c \in Nat /\ (x * c) % d = 0
<1>1. PICK q \in Nat : x = d * q
  <2>1. x = d * (x \div d) + (x % d) /\ x \div d \in Nat
    BY DivMod
  <2> QED
    BY <2>1
<1>2. q * c \in Nat /\ x * c = d * (q * c)
  <2>1. (d * q) * c = d * (q * c) /\ q * c \in Nat
    OBVIOUS
  <2> QED
    BY <1>1, <2>1
<1>3. PICK k \in Nat : k = q * c
  BY <1>2
<1>4. (d * k) % d = 0 /\ d * k \in Nat
  BY <1>3, ModZero
<1> QED
  BY <1>2, <1>3, <1>4

LEMMA ModMul ==
    ASSUME NEW d \in Nat \ {0}, NEW x \in Nat, NEW c \in Nat
    PROVE  ((x % d) * c) % d = (x * c) % d
<1>1. PICK r \in 0..(d - 1) : r = x % d
  BY DivMod
<1>2. PICK a \in Nat : a = x - r /\ a % d = 0
  BY <1>1, ModSub
<1>3. a * c \in Nat /\ (a * c) % d = 0
  BY <1>2, ModTimes
<1>4. x * c = r * c + a * c /\ r * c \in Nat
  <2>1. x = r + a
    BY <1>1, <1>2
  <2>2. (r + a) * c = r * c + a * c /\ r * c \in Nat
    BY <1>1
  <2> QED
    BY <2>1, <2>2
<1>5. PICK k \in Nat, m \in Nat : k = a * c /\ m = r * c
  BY <1>3, <1>4
<1>6. (m + k) % d = m % d
  BY <1>3, <1>5, ModAdd
<1> QED
  BY <1>1, <1>4, <1>5, <1>6

\* The hash key of three bytes.
KeyOf(a, b, c) == UpdateHash(UpdateHash(a, b), c)

\* g hashes as if only the bytes a and b had gone into it.
HashedFrom(g, a, b) == \A c \in 0..(HashSize - 1) : UpdateHash(g, c) = KeyOf(a, b, c)

LEMMA HashNat ==
    ASSUME NEW a \in Nat, NEW b \in Nat
    PROVE  UpdateHash(a, b) \in Nat /\ UpdateHash(a, b) \in 0..(HashSize - 1)
<1>1. UpdateHash(a, b) \in 0..(HashSize - 1)
  BY HashType
<1> QED
  BY <1>1, Sizes

\* What is hashed for a number: its remainder.
Bits(n) == n % HashSize

LEMMA BitsType ==
    ASSUME NEW n \in Nat
    PROVE  Bits(n) \in 0..(HashSize - 1) /\ Bits(n) \in Nat
<1>1. PICK d \in Nat \ {0} : d = HashSize
  BY Sizes
<1>2. n % d \in 0..(d - 1)
  BY DivMod
<1> QED
  BY <1>1, <1>2 DEF Bits

LEMMA BitsSmall ==
    ASSUME NEW n \in 0..(HashSize - 1)
    PROVE  Bits(n) = n
<1>1. PICK d \in Nat \ {0} : d = HashSize
  BY Sizes
<1>2. n % d = n
  BY <1>1
<1> QED
  BY <1>1, <1>2 DEF Bits

LEMMA HashBits ==
    ASSUME NEW a \in Nat, NEW b \in Nat
    PROVE  UpdateHash(a, b) = UpdateHash(Bits(a), Bits(b)) /\ UpdateHash(a, b) = UpdateHash(a, Bits(b))
<1>1. PICK d \in Nat \ {0}, f \in Nat : d = HashSize /\ f = HashShift
  BY Sizes
<1>2. ((a % d) * f) % d = (a * f) % d
  BY ModMul
<1>3. (Bits(a) * HashShift) % HashSize = (a * HashShift) % HashSize
  BY <1>1, <1>2 DEF Bits
<1>4. Bits(b) % HashSize = Bits(b)
  <2>1. Bits(Bits(b)) = Bits(b)
    BY BitsType, BitsSmall
  <2> QED
    BY <2>1 DEF Bits
<1> QED
  BY <1>3, <1>4, Zenon DEF UpdateHash, Bits

LEMMA KeyBits ==
    ASSUME NEW a \in Nat, NEW b \in Nat, NEW c \in Nat
    PROVE  /\ KeyOf(a, b, c) = KeyOf(Bits(a), Bits(b), Bits(c))
           /\ KeyOf(a, b, c) = KeyOf(a, b, Bits(c))
<1>1. UpdateHash(a, b) = UpdateHash(Bits(a), Bits(b)) /\ UpdateHash(a, b) \in Nat
  BY HashBits, HashNat
<1>2. \A g \in Nat : UpdateHash(g, c) = UpdateHash(g, Bits(c))
  BY HashBits
<1> QED
  BY <1>1, <1>2, Zenon DEF KeyOf

\* One byte more gives the key of the last three.
LEMMA RollsToKey ==
    ASSUME NEW g \in Nat, NEW a \in Nat, NEW b \in Nat, HashedFrom(g, a, b), NEW c \in Nat
    PROVE  UpdateHash(g, c) = KeyOf(a, b, c)
<1>1. UpdateHash(g, c) = UpdateHash(g, Bits(c))
  BY HashBits
<1>2. UpdateHash(g, Bits(c)) = KeyOf(a, b, Bits(c))
  BY BitsType DEF HashedFrom
<1>3. KeyOf(a, b, Bits(c)) = KeyOf(a, b, c)
  BY KeyBits
<1> QED
  BY <1>1, <1>2, <1>3

\* And the first of the three has left it.
LEMMA KeyRolls ==
    ASSUME NEW a \in Nat, NEW b \in Nat, NEW c \in Nat
    PROVE  HashedFrom(KeyOf(a, b, c), b, c)
<1> SUFFICES ASSUME NEW e \in 0..(HashSize - 1)
             PROVE  UpdateHash(KeyOf(a, b, c), e) = KeyOf(b, c, e)
  BY DEF HashedFrom
<1> DEFINE x == Bits(a)
           y == Bits(b)
           z == Bits(c)
<1>1. /\ x \in 0..(HashSize - 1) /\ y \in 0..(HashSize - 1) /\ z \in 0..(HashSize - 1)
  BY BitsType
<1>2. KeyOf(a, b, c) = KeyOf(x, y, z)
  BY KeyBits
<1>3. KeyOf(b, c, e) = KeyOf(y, z, e)
  <2>1. e \in Nat /\ Bits(e) = e
    BY BitsSmall
  <2> QED
    BY <2>1, KeyBits
<1> HIDE DEF x, y, z
<1>4. UpdateHash(UpdateHash(UpdateHash(x, y), z), e) = UpdateHash(UpdateHash(y, z), e)
  BY <1>1, HashRolls
<1> QED
  BY <1>2, <1>3, <1>4, Zenon DEF KeyOf

\* Where the first two bytes are equal, equal keys mean equal strings.
LEMMA KeyTells ==
    ASSUME NEW a \in Nat, NEW b \in Nat, NEW c \in 0..(HashSize - 1), NEW e \in 0..(HashSize - 1),
           KeyOf(a, b, c) = KeyOf(a, b, e)
    PROVE  c = e
<1>1. UpdateHash(a, b) \in 0..(HashSize - 1)
  BY HashNat
<1> QED
  BY <1>1, HashRolls DEF KeyOf

-----------------------------------------------------------------------------
(* The hash chains.                                                        *)

\* Where prev keeps what follows position p on its chain.
Slot(p) == p % WSize

LEMMA SlotType ==
    ASSUME NEW p \in Nat
    PROVE  Slot(p) \in 0..(WSize - 1)
BY InPrev DEF Slot

\* Positions less than a window apart do not share it.
LEMMA SlotApart ==
    ASSUME NEW a \in Nat, NEW b \in Nat, a < b, b - a < WSize
    PROVE  Slot(a) # Slot(b)
<1> SUFFICES ASSUME Slot(a) = Slot(b) PROVE FALSE
  OBVIOUS
<1>1. PICK d \in Nat \ {0} : d = WSize
  BY Sizes
<1>2. PICK r \in 0..(d - 1) : r = a % d /\ r = b % d
  <2>1. a % d = b % d
    BY <1>1 DEF Slot
  <2>2. a % d \in 0..(d - 1)
    BY DivMod
  <2> QED
    BY <2>1, <2>2
<1>3. /\ a - (a % d) \in Nat /\ (a - (a % d)) % d = 0
      /\ b - (b % d) \in Nat /\ (b - (b % d)) % d = 0
  BY ModSub
<1> DEFINE p == a - r
           q == b - r
<1>4. p \in Nat /\ q \in Nat /\ p % d = 0 /\ q % d = 0 /\ p < q
  BY <1>2, <1>3
<1> HIDE DEF p, q
<1>5. p + d <= q
  BY <1>4, MultiplesApart
<1> QED
  BY <1>1, <1>2, <1>5 DEF p, q

\* Positions a window apart do.
LEMMA SlotSlides ==
    ASSUME NEW p \in Nat
    PROVE  Slot(p + WSize) = Slot(p)
<1>1. PICK d \in Nat \ {0} : d = WSize
  BY Sizes
<1>2. d % d = 0
  BY ModSmall
<1>3. d \in Nat
  BY <1>1
<1>4. (p + d) % d = p % d
  BY <1>2, <1>3, ModAdd
<1> QED
  BY <1>1, <1>4 DEF Slot

\* The hash key of the string at p.
KeyAt(w, p) == KeyOf(w[p], w[p + 1], w[p + 2])

\* A position that a chain may be followed to.
Near(p, low) == p >= 1 /\ p >= low

\* T are the positions that can be reached on the chains.  They are whole strings behind low and
\* in front of top, and each was put there before the one that leads to it, with the same key.
LinkedBy(w, hd, pv, T, low, top, end) ==
    /\ T \subseteq Nat
    /\ \A p \in T : Near(p, low) /\ p < top /\ p + 2 < end
    /\ \A p \in T : pv[Slot(p)] < p
    /\ \A p \in T : Near(pv[Slot(p)], low) =>
                        pv[Slot(p)] \in T /\ KeyAt(w, pv[Slot(p)]) = KeyAt(w, p)
    /\ \A h \in 0..(HashSize - 1) : Near(hd[h], low) => hd[h] \in T /\ KeyAt(w, hd[h]) = h

Linked(w, hd, pv, low, top, end) == \E T : LinkedBy(w, hd, pv, T, low, top, end)

\* Reading more changes none of the strings.
LEMMA LinkedMore ==
    ASSUME NEW w, NEW w2, NEW hd \in Heads, NEW pv \in Prevs, NEW low \in Int, NEW top \in Int,
           NEW end \in Nat, NEW end2 \in Nat, end <= end2,
           \A i \in 0..(end - 1) : w2[i] = w[i], Linked(w, hd, pv, low, top, end)
    PROVE  Linked(w2, hd, pv, low, top, end2)
<1> PICK T : LinkedBy(w, hd, pv, T, low, top, end)
  BY DEF Linked
<1>1. T \subseteq Nat /\ \A p \in T : Near(p, low) /\ p < top /\ p + 2 < end
  BY DEF LinkedBy
<1>2. ASSUME NEW p \in T PROVE KeyAt(w2, p) = KeyAt(w, p)
  <2>1. p \in 0..(end - 1) /\ p + 1 \in 0..(end - 1) /\ p + 2 \in 0..(end - 1)
    BY <1>1
  <2> QED
    BY <2>1 DEF KeyAt
<1>3. \A p \in T : p + 2 < end2
  BY <1>1
<1>4. \A p \in T : Near(pv[Slot(p)], low) =>
                       pv[Slot(p)] \in T /\ KeyAt(w2, pv[Slot(p)]) = KeyAt(w2, p)
  BY <1>2 DEF LinkedBy
<1>5. \A h \in 0..(HashSize - 1) : Near(hd[h], low) => hd[h] \in T /\ KeyAt(w2, hd[h]) = h
  BY <1>2 DEF LinkedBy
<1>6. \A p \in T : pv[Slot(p)] < p
  BY DEF LinkedBy
<1>7. LinkedBy(w2, hd, pv, T, low, top, end2)
  BY <1>1, <1>3, <1>4, <1>5, <1>6, Zenon DEF LinkedBy
<1> QED
  BY <1>7 DEF Linked

\* What is too old is left out.
LEMMA LinkedLater ==
    ASSUME NEW w, NEW hd \in Heads, NEW pv \in Prevs, NEW low \in Int, NEW top \in Int,
           NEW low2 \in Int, NEW top2 \in Int, low <= low2, top <= top2, NEW end,
           Linked(w, hd, pv, low, top, end)
    PROVE  Linked(w, hd, pv, low2, top2, end)
<1> PICK T : LinkedBy(w, hd, pv, T, low, top, end)
  BY DEF Linked
<1>1. T \subseteq Nat /\ \A p \in T : Near(p, low) /\ p < top /\ p + 2 < end
  BY DEF LinkedBy
<1> DEFINE T2 == { p \in T : p >= low2 }
<1>2. T2 \subseteq Nat /\ T2 \subseteq T
  BY <1>1
<1>3. \A p \in T : Near(p, low2) <=> p \in T2
  BY <1>1 DEF Near
<1>4. \A p \in T2 : Near(p, low2) /\ p < top2 /\ p + 2 < end
  <2> SUFFICES ASSUME NEW p \in T2 PROVE Near(p, low2) /\ p < top2 /\ p + 2 < end
    OBVIOUS
  <2>1. p \in Nat /\ p < top /\ p + 2 < end /\ Near(p, low2)
    BY <1>1, <1>3
  <2> QED
    BY <2>1
<1>5. \A n \in Nat : Near(n, low2) => Near(n, low)
  BY DEF Near
<1>6. \A p \in T2 : pv[Slot(p)] < p
  BY DEF LinkedBy
<1>7. \A p \in T2 : Near(pv[Slot(p)], low2) =>
                        pv[Slot(p)] \in T2 /\ KeyAt(w, pv[Slot(p)]) = KeyAt(w, p)
  <2> SUFFICES ASSUME NEW p \in T2, Near(pv[Slot(p)], low2)
               PROVE  pv[Slot(p)] \in T2 /\ KeyAt(w, pv[Slot(p)]) = KeyAt(w, p)
    OBVIOUS
  <2>1. Slot(p) \in 0..(WSize - 1)
    BY <1>2, SlotType
  <2>2. pv[Slot(p)] \in Nat
    BY <2>1 DEF Prevs
  <2>3. pv[Slot(p)] \in T /\ KeyAt(w, pv[Slot(p)]) = KeyAt(w, p)
    BY <1>2, <1>5, <2>2 DEF LinkedBy
  <2> QED
    BY <1>3, <2>3
<1>8. \A h \in 0..(HashSize - 1) : Near(hd[h], low2) => hd[h] \in T2 /\ KeyAt(w, hd[h]) = h
  <2> SUFFICES ASSUME NEW h \in 0..(HashSize - 1), Near(hd[h], low2)
               PROVE  hd[h] \in T2 /\ KeyAt(w, hd[h]) = h
    OBVIOUS
  <2>1. hd[h] \in Nat
    BY DEF Heads
  <2>2. hd[h] \in T /\ KeyAt(w, hd[h]) = h
    BY <1>5, <2>1 DEF LinkedBy
  <2> QED
    BY <1>3, <2>2
<1> HIDE DEF T2
<1>9. LinkedBy(w, hd, pv, T2, low2, top2, end)
  BY <1>2, <1>4, <1>6, <1>7, <1>8, Zenon DEF LinkedBy
<1> QED
  BY <1>9 DEF Linked

\* INSERT_STRING at the top: a chain gets a new head.
LEMMA LinkedInsert ==
    ASSUME NEW w, NEW hd \in Heads, NEW pv \in Prevs, NEW low \in Int, NEW c \in Nat,
           NEW end \in Nat, low <= c, c - low < WSize, c + 2 < end,
           Linked(w, hd, pv, low, c, end),
           NEW h \in 0..(HashSize - 1), h = KeyAt(w, c)
    PROVE  Linked(w, [hd EXCEPT ![h] = c], [pv EXCEPT ![Slot(c)] = hd[h]], low, c + 1, end)
<1> PICK T : LinkedBy(w, hd, pv, T, low, c, end)
  BY DEF Linked
<1>1. T \subseteq Nat /\ \A p \in T : Near(p, low) /\ p < c /\ p + 2 < end
  BY DEF LinkedBy
<1> DEFINE hd2 == [hd EXCEPT ![h] = c]
           pv2 == [pv EXCEPT ![Slot(c)] = hd[h]]
           T2 == T \cup { p \in { c } : c >= 1 }
<1>2. /\ hd2[h] = c /\ \A g \in 0..(HashSize - 1) : g # h => hd2[g] = hd[g]
  BY DEF Heads
<1>3. Slot(c) \in 0..(WSize - 1)
  BY SlotType
<1>4. /\ pv2[Slot(c)] = hd[h]
      /\ \A i \in 0..(WSize - 1) : i # Slot(c) => pv2[i] = pv[i]
  BY <1>3 DEF Prevs
<1> HIDE DEF hd2, pv2
<1>5. ASSUME NEW p \in T PROVE pv2[Slot(p)] = pv[Slot(p)]
  <2>1. p \in Nat /\ p < c /\ p >= low
    BY <1>1 DEF Near
  <2>2. Slot(p) # Slot(c)
    <3>1. c - p < WSize
      BY <2>1, Sizes
    <3> QED
      BY <2>1, <3>1, SlotApart
  <2>3. Slot(p) \in 0..(WSize - 1)
    BY <2>1, SlotType
  <2> QED
    BY <1>4, <2>2, <2>3
<1>6. T2 \subseteq Nat /\ T \subseteq T2 /\ \A p \in T2 : p \in T \/ (p = c /\ c >= 1)
  BY <1>1
<1>7. c >= 1 => c \in T2
  OBVIOUS
<1> HIDE DEF T2
<1>8. \A p \in T2 : Near(p, low) /\ p < c + 1 /\ p + 2 < end
  <2> SUFFICES ASSUME NEW p \in T2 PROVE Near(p, low) /\ p < c + 1 /\ p + 2 < end
    OBVIOUS
  <2>1. p \in Nat
    BY <1>6
  <2>2. CASE p \in T
    BY <1>1, <2>1, <2>2
  <2>3. CASE p = c /\ c >= 1
    BY <2>3 DEF Near
  <2> QED
    BY <1>6, <2>2, <2>3
<1>9. hd[h] \in Nat
  BY DEF Heads
<1>10. Near(hd[h], low) => hd[h] \in T /\ KeyAt(w, hd[h]) = h
  BY DEF LinkedBy
<1>11. c >= 1 => hd[h] < c
  <2>1. CASE Near(hd[h], low)
    BY <1>1, <1>10, <2>1
  <2>2. CASE ~Near(hd[h], low)
    BY <1>9, <2>2 DEF Near
  <2> QED
    BY <2>1, <2>2
<1>12. \A p \in T2 : pv2[Slot(p)] < p
  <2> SUFFICES ASSUME NEW p \in T2 PROVE pv2[Slot(p)] < p
    OBVIOUS
  <2>1. CASE p \in T
    <3>1. pv[Slot(p)] < p
      BY <2>1 DEF LinkedBy
    <3> QED
      BY <1>5, <2>1, <3>1
  <2>2. CASE p = c /\ c >= 1
    BY <1>4, <1>11, <2>2
  <2> QED
    BY <1>6, <2>1, <2>2
<1>13. \A p \in T2 : Near(pv2[Slot(p)], low) =>
                         pv2[Slot(p)] \in T2 /\ KeyAt(w, pv2[Slot(p)]) = KeyAt(w, p)
  <2> SUFFICES ASSUME NEW p \in T2, Near(pv2[Slot(p)], low)
               PROVE  pv2[Slot(p)] \in T2 /\ KeyAt(w, pv2[Slot(p)]) = KeyAt(w, p)
    OBVIOUS
  <2>1. CASE p \in T
    <3>1. Near(pv[Slot(p)], low)
      BY <1>5, <2>1
    <3>2. pv[Slot(p)] \in T /\ KeyAt(w, pv[Slot(p)]) = KeyAt(w, p)
      BY <2>1, <3>1 DEF LinkedBy
    <3> QED
      BY <1>5, <1>6, <2>1, <3>2
  <2>2. CASE p = c /\ c >= 1
    <3>1. Near(hd[h], low)
      BY <1>4, <2>2
    <3> QED
      BY <1>4, <1>6, <1>10, <2>2, <3>1
  <2> QED
    BY <1>6, <2>1, <2>2
<1>14. \A g \in 0..(HashSize - 1) : Near(hd2[g], low) => hd2[g] \in T2 /\ KeyAt(w, hd2[g]) = g
  <2> SUFFICES ASSUME NEW g \in 0..(HashSize - 1), Near(hd2[g], low)
               PROVE  hd2[g] \in T2 /\ KeyAt(w, hd2[g]) = g
    OBVIOUS
  <2>1. CASE g = h
    <3>1. hd2[g] = c /\ c >= 1
      BY <1>2, <2>1 DEF Near
    <3> QED
      BY <1>7, <2>1, <3>1
  <2>2. CASE g # h
    <3>1. hd2[g] = hd[g]
      BY <1>2, <2>2
    <3>2. hd[g] \in T /\ KeyAt(w, hd[g]) = g
      BY <3>1 DEF LinkedBy
    <3> QED
      BY <1>6, <3>1, <3>2
  <2> QED
    BY <2>1, <2>2
<1>15. LinkedBy(w, hd2, pv2, T2, low, c + 1, end)
  BY <1>6, <1>8, <1>12, <1>13, <1>14, Zenon DEF LinkedBy
<1> QED
  BY <1>15, Zenon DEF Linked, hd2, pv2

\* A position after the window has slid.
Slid(p) == IF p >= WSize THEN p - WSize ELSE 0

\* The window slides: what was in its upper half goes on with it.
LEMMA LinkedSlide ==
    ASSUME NEW w, NEW hd \in Heads, NEW pv \in Prevs, NEW low \in Int, NEW top \in Int,
           NEW end \in Nat, low >= WSize, end <= WindowSize, Linked(w, hd, pv, low, top, end),
           NEW w2, \A i \in 0..(WSize - 1) : w2[i] = w[i + WSize]
    PROVE  Linked(w2, [h \in 0..(HashSize - 1) |-> Slid(hd[h])],
                  [i \in 0..(WSize - 1) |-> Slid(pv[i])],
                  low - WSize, top - WSize, end - WSize)
<1> PICK T : LinkedBy(w, hd, pv, T, low, top, end)
  BY DEF Linked
<1>0. WSize \in Nat \ {0} /\ WindowSize = 2 * WSize
  BY Sizes
<1>1. T \subseteq Nat /\ \A p \in T : Near(p, low) /\ p < top /\ p + 2 < end
  BY DEF LinkedBy
<1> DEFINE hd2 == [h \in 0..(HashSize - 1) |-> Slid(hd[h])]
           pv2 == [i \in 0..(WSize - 1) |-> Slid(pv[i])]
           T2 == { p \in Nat : p >= 1 /\ p + WSize \in T }
<1>2. \A h \in 0..(HashSize - 1) : hd2[h] = Slid(hd[h])
  OBVIOUS
<1>3. \A i \in 0..(WSize - 1) : pv2[i] = Slid(pv[i])
  OBVIOUS
<1>4. T2 \subseteq Nat /\ \A p \in Nat : p \in T2 <=> p >= 1 /\ p + WSize \in T
  OBVIOUS
<1> HIDE DEF hd2, pv2, T2
<1>5. ASSUME NEW p \in T2
      PROVE  /\ p \in Nat /\ p >= 1 /\ p + WSize \in T /\ p + 2 < WSize
             /\ Near(p, low - WSize) /\ p < top - WSize /\ p + 2 < end - WSize
             /\ Slot(p) = Slot(p + WSize) /\ KeyAt(w2, p) = KeyAt(w, p + WSize)
             /\ Slot(p) \in 0..(WSize - 1)
  <2>1. p \in Nat /\ p >= 1 /\ p + WSize \in T
    BY <1>4
  <2>2. p + WSize >= low /\ p + WSize < top /\ (p + WSize) + 2 < end
    BY <1>1, <2>1 DEF Near
  <2>3. p + 2 < WSize /\ Near(p, low - WSize) /\ p < top - WSize /\ p + 2 < end - WSize
    BY <1>0, <2>1, <2>2 DEF Near
  <2>4. Slot(p) = Slot(p + WSize) /\ Slot(p) \in 0..(WSize - 1)
    BY <2>1, SlotSlides, SlotType
  <2>5. KeyAt(w2, p) = KeyAt(w, p + WSize)
    <3>1. /\ p \in 0..(WSize - 1) /\ p + 1 \in 0..(WSize - 1) /\ p + 2 \in 0..(WSize - 1)
          /\ (p + 1) + WSize = (p + WSize) + 1 /\ (p + 2) + WSize = (p + WSize) + 2
      BY <1>0, <2>1, <2>3
    <3>2. w2[p] = w[p + WSize] /\ w2[p + 1] = w[(p + WSize) + 1] /\ w2[p + 2] = w[(p + WSize) + 2]
      BY <3>1
    <3> QED
      BY <3>2 DEF KeyAt
  <2> QED
    BY <2>1, <2>3, <2>4, <2>5
<1>6. ASSUME NEW n \in Nat, Near(Slid(n), low - WSize)
      PROVE  Near(n, low) /\ Slid(n) \in Nat /\ n = Slid(n) + WSize /\ Slid(n) >= 1
  <2>1. CASE n >= WSize
    <3>1. Slid(n) = n - WSize
      BY <2>1 DEF Slid
    <3>2. n - WSize >= 1 /\ n - WSize >= low - WSize
      BY <1>6, <3>1 DEF Near
    <3> QED
      BY <1>0, <2>1, <3>1, <3>2 DEF Near
  <2>2. CASE ~(n >= WSize)
    <3>1. Slid(n) = 0
      BY <2>2 DEF Slid
    <3> QED
      BY <1>6, <3>1 DEF Near
  <2> QED
    BY <2>1, <2>2
<1>7. \A p \in T2 : pv2[Slot(p)] < p
  <2> SUFFICES ASSUME NEW p \in T2 PROVE pv2[Slot(p)] < p
    OBVIOUS
  <2>1. pv[Slot(p + WSize)] < p + WSize
    BY <1>5 DEF LinkedBy
  <2>2. pv[Slot(p)] \in Nat /\ pv2[Slot(p)] = Slid(pv[Slot(p)])
    BY <1>3, <1>5 DEF Prevs
  <2>3. PICK n \in Nat : n = pv[Slot(p)] /\ n < p + WSize
    BY <1>5, <2>1, <2>2
  <2>4. Slid(n) < p
    BY <1>0, <1>5, <2>3 DEF Slid
  <2> QED
    BY <2>2, <2>3, <2>4
<1>8. \A p \in T2 : Near(pv2[Slot(p)], low - WSize) =>
                        pv2[Slot(p)] \in T2 /\ KeyAt(w2, pv2[Slot(p)]) = KeyAt(w2, p)
  <2> SUFFICES ASSUME NEW p \in T2, Near(pv2[Slot(p)], low - WSize)
               PROVE  pv2[Slot(p)] \in T2 /\ KeyAt(w2, pv2[Slot(p)]) = KeyAt(w2, p)
    OBVIOUS
  <2>1. pv[Slot(p)] \in Nat /\ pv2[Slot(p)] = Slid(pv[Slot(p)])
    BY <1>3, <1>5 DEF Prevs
  <2>2. PICK n \in Nat : n = pv[Slot(p)]
    BY <2>1
  <2>3. Near(n, low) /\ Slid(n) \in Nat /\ n = Slid(n) + WSize /\ Slid(n) >= 1
    BY <1>6, <2>1, <2>2
  <2>4. n \in T /\ KeyAt(w, n) = KeyAt(w, p + WSize)
    BY <1>5, <2>2, <2>3 DEF LinkedBy
  <2>5. Slid(n) \in T2
    BY <1>4, <2>3, <2>4
  <2>6. KeyAt(w2, Slid(n)) = KeyAt(w, n)
    BY <1>5, <2>3, <2>5
  <2> QED
    BY <1>5, <2>1, <2>2, <2>4, <2>5, <2>6
<1>9. \A h \in 0..(HashSize - 1) :
         Near(hd2[h], low - WSize) => hd2[h] \in T2 /\ KeyAt(w2, hd2[h]) = h
  <2> SUFFICES ASSUME NEW h \in 0..(HashSize - 1), Near(hd2[h], low - WSize)
               PROVE  hd2[h] \in T2 /\ KeyAt(w2, hd2[h]) = h
    OBVIOUS
  <2>1. hd[h] \in Nat /\ hd2[h] = Slid(hd[h])
    BY <1>2 DEF Heads
  <2>2. PICK n \in Nat : n = hd[h]
    BY <2>1
  <2>3. Near(n, low) /\ Slid(n) \in Nat /\ n = Slid(n) + WSize /\ Slid(n) >= 1
    BY <1>6, <2>1, <2>2
  <2>4. n \in T /\ KeyAt(w, n) = h
    BY <2>2, <2>3 DEF LinkedBy
  <2>5. Slid(n) \in T2
    BY <1>4, <2>3, <2>4
  <2>6. KeyAt(w2, Slid(n)) = KeyAt(w, n)
    BY <1>5, <2>3, <2>5
  <2> QED
    BY <2>1, <2>2, <2>4, <2>5, <2>6
<1>10. \A p \in T2 : Near(p, low - WSize) /\ p < top - WSize /\ p + 2 < end - WSize
  BY <1>5
<1>11. LinkedBy(w2, hd2, pv2, T2, low - WSize, top - WSize, end - WSize)
  BY <1>4, <1>7, <1>8, <1>9, <1>10, Zenon DEF LinkedBy
<1> QED
  BY <1>11, Zenon DEF Linked, hd2, pv2

\* The first m positions of a chain are near.
NearAll(cur, m, low) == \A j \in 1..m : Near(cur[j], low)

\* x is a position in T, no further than p, with the same key.
Followed(T, w, p, x) == x \in T /\ x <= p /\ KeyAt(w, x) = KeyAt(w, p)

\* Following a chain from a position that can be reached: as long as it is near, it has the key.
LEMMA ChainFollows ==
    ASSUME NEW t \in DState, NEW T, NEW low \in Int, NEW top, NEW end,
           LinkedBy(t.window, t.head, t.prev, T, low, top, end),
           NEW p \in Nat, p \in T, NEW n \in Nat, NEW m \in 1..n,
           NEW cur, cur = Links(t, p, n), NearAll(cur, m, low)
    PROVE  Followed(T, t.window, p, cur[m])
<1>1. /\ \A k \in 1..n : cur[k] \in Nat
      /\ \A k \in 1..n : cur[k] = IF k = 1 THEN p ELSE t.prev[Slot(cur[k - 1])]
  BY LinksAre DEF Slot
<1>2. \A j \in 1..m : Near(cur[j], low)
  BY DEF NearAll
<1> DEFINE S == { j \in Nat : j + 1 <= m => /\ cur[j + 1] \in T /\ cur[j + 1] <= p
                                            /\ KeyAt(t.window, cur[j + 1]) = KeyAt(t.window, p) }
<1>3. 0 \in S
  <2>1. 1 \in 1..n
    OBVIOUS
  <2>2. cur[1] = p
    BY <1>1, <2>1
  <2> QED
    BY <2>2
<1>4. ASSUME NEW j \in Nat, j \in S PROVE j + 1 \in S
  <2> SUFFICES ASSUME (j + 1) + 1 <= m
               PROVE  /\ cur[(j + 1) + 1] \in T /\ cur[(j + 1) + 1] <= p
                      /\ KeyAt(t.window, cur[(j + 1) + 1]) = KeyAt(t.window, p)
    OBVIOUS
  <2>1. /\ j + 1 \in 1..n /\ (j + 1) + 1 \in 1..n /\ (j + 1) + 1 \in 1..m
        /\ (j + 1) + 1 # 1 /\ ((j + 1) + 1) - 1 = j + 1
    OBVIOUS
  <2>2. cur[j + 1] \in T /\ cur[j + 1] <= p /\ KeyAt(t.window, cur[j + 1]) = KeyAt(t.window, p)
    BY <1>4
  <2>3. PICK x \in Nat, y \in Nat : x = cur[j + 1] /\ y = cur[(j + 1) + 1]
    BY <1>1, <2>1
  <2>4. y = t.prev[Slot(x)]
    BY <1>1, <2>1, <2>3
  <2>5. Near(y, low)
    BY <1>2, <2>1, <2>3
  <2>6. y < x /\ y \in T /\ KeyAt(t.window, y) = KeyAt(t.window, x)
    BY <2>2, <2>3, <2>4, <2>5 DEF LinkedBy
  <2> QED
    BY <2>2, <2>3, <2>6
<1>5. Nat \subseteq S
  <2> HIDE DEF S
  <2> QED
    BY <1>3, <1>4, NatInductionInSet
<1>6. m - 1 \in Nat /\ (m - 1) + 1 = m /\ (m - 1) + 1 <= m
  OBVIOUS
<1> QED
  BY <1>5, <1>6 DEF Followed

\* One byte in the window is a number.
LEMMA WindowBytes ==
    ASSUME NEW t \in DState, NEW p \in Nat, p + 2 < WindowSize
    PROVE  t.window[p] \in Nat /\ t.window[p + 1] \in Nat /\ t.window[p + 2] \in Nat
<1>1. p < WindowSize /\ p + 1 < WindowSize /\ p + 1 \in Nat /\ p + 2 \in Nat
  BY Sizes
<1> QED
  BY <1>1, WindowByte

\* INSERT_STRING at the next position: its string is on the chain of its key.
LEMMA InsertLinks ==
    ASSUME NEW t \in DState, NEW low \in Int, NEW c \in Nat, NEW end \in Nat,
           low <= c, c - low < WSize, c + 2 < end, end <= WindowSize,
           Linked(t.window, t.head, t.prev, low, c, end),
           HashedFrom(t.ins_h, t.window[c], t.window[c + 1])
    PROVE  LET u == InsertString(t, c)
           IN  /\ Linked(u.window, u.head, u.prev, low, c + 1, end)
               /\ HashedFrom(u.ins_h, u.window[c + 1], u.window[c + 2])
               /\ u.head[KeyAt(u.window, c)] = c
<1> DEFINE u == InsertString(t, c)
<1>1. c + 2 < WindowSize
  BY Sizes
<1>2. PICK x \in Nat, y \in Nat, z \in Nat :
          x = t.window[c] /\ y = t.window[c + 1] /\ z = t.window[c + 2]
  BY <1>1, WindowBytes
<1>3. t.ins_h \in Nat
  BY Fields
<1>4. UpdateHash(t.ins_h, t.window[c + 2]) = KeyOf(x, y, z)
  BY <1>2, <1>3, RollsToKey
<1>5. PICK h \in 0..(HashSize - 1) : h = KeyAt(t.window, c) /\ h = KeyOf(x, y, z)
  <2>1. KeyOf(x, y, z) \in 0..(HashSize - 1)
    BY <1>2, HashNat DEF KeyOf
  <2> QED
    BY <1>2, <2>1 DEF KeyAt
<1>6. /\ Rehashed(u, t) /\ u.ins_h = h
      /\ u.head = [t.head EXCEPT ![h] = c]
      /\ u.prev = [t.prev EXCEPT ![c % WSize] = t.head[h]]
  <2> DEFINE g == UpdateHash(t.ins_h, t.window[c + 2])
  <2>1. /\ Rehashed(u, t) /\ u.ins_h = g
        /\ u.head = [t.head EXCEPT ![g] = c]
        /\ u.prev = [t.prev EXCEPT ![c % WSize] = t.head[g]]
    <3>1. LET uu == InsertString(t, c)
              k == UpdateHash(t.ins_h, t.window[c + 2])
          IN  /\ uu \in DState /\ Rehashed(uu, t)
              /\ k \in 0..(HashSize - 1) /\ uu.ins_h = k
              /\ uu.head = [t.head EXCEPT ![k] = c]
              /\ uu.prev = [t.prev EXCEPT ![c % WSize] = t.head[k]]
      <4>1. c \in Nat
        OBVIOUS
      <4> HIDE DEF u, g
      <4> QED
        BY <1>1, <4>1, InsertStringIs, Zenon
    <3> QED
      BY <3>1, Zenon
  <2>2. g = h
    BY <1>4, <1>5
  <2> HIDE DEF g, u
  <2> QED
    BY <2>1, <2>2, Zenon
<1>7. t.head \in Heads /\ t.prev \in Prevs
  BY Fields
<1>8. Linked(t.window, [t.head EXCEPT ![h] = c], [t.prev EXCEPT ![Slot(c)] = t.head[h]],
             low, c + 1, end)
  BY <1>5, <1>7, LinkedInsert
<1>9. u.window = t.window
  BY <1>6 DEF Rehashed
<1> HIDE DEF u
<1>10. Linked(u.window, u.head, u.prev, low, c + 1, end)
  BY <1>6, <1>8, <1>9, Zenon DEF Slot
<1>11. HashedFrom(u.ins_h, u.window[c + 1], u.window[c + 2])
  BY <1>2, <1>5, <1>6, <1>9, KeyRolls
<1>12. u.head[KeyAt(u.window, c)] = c
  <2>1. [t.head EXCEPT ![h] = c][h] = c
    BY <1>7 DEF Heads
  <2> QED
    BY <1>5, <1>6, <1>9, <2>1
<1> QED
  BY <1>10, <1>11, <1>12 DEF u

\* So it is for all strings of a match.
LEMMA InsertAllLinks ==
    ASSUME NEW t \in DState, NEW low \in Int, NEW from \in Nat \ {0}, NEW to \in Nat,
           NEW end \in Nat, NEW m \in Nat, Below(t, m), to <= m, to + 1 >= from,
           low <= from, to - low < WSize, to + 2 < end, end <= WindowSize,
           Linked(t.window, t.head, t.prev, low, from, end),
           HashedFrom(t.ins_h, t.window[from], t.window[from + 1])
    PROVE  LET u == InsertAll(t, from, to)
           IN  /\ Linked(u.window, u.head, u.prev, low, to + 1, end)
               /\ HashedFrom(u.ins_h, u.window[to + 1], u.window[to + 2])
<1> DEFINE Good(u, j) == /\ Linked(u.window, u.head, u.prev, low, j + 1, end)
                         /\ HashedFrom(u.ins_h, u.window[j + 1], u.window[j + 2])
           I(j) == InsertAll(t, from, j)
           S == { k \in Nat : from - 1 + k <= to => Good(I(from - 1 + k), from - 1 + k) }
<1>1. 0 \in S
  <2>1. from - 1 \in Int /\ from - 1 < from /\ from - 1 + 0 = from - 1
        /\ (from - 1) + 1 = from /\ (from - 1) + 2 = from + 1
    OBVIOUS
  <2>2. I(from - 1) = t
    <3>1. from \in Nat
      OBVIOUS
    <3> HIDE DEF Good, S
    <3>2. \A j \in Int : j < from => InsertAll(t, from, j) = t
      BY <3>1, InsertAllSteps, Zenon
    <3> QED
      BY <2>1, <3>2
  <2>3. Good(t, from - 1)
    BY <2>1
  <2> QED
    BY <2>1, <2>2, <2>3
<1>2. ASSUME NEW k \in Nat, k \in S PROVE k + 1 \in S
  <2> SUFFICES ASSUME from - 1 + (k + 1) <= to PROVE Good(I(from - 1 + (k + 1)), from - 1 + (k + 1))
    OBVIOUS
  <2>1. PICK j \in Nat : j = from - 1 + k
    OBVIOUS
  <2>2. /\ from - 1 + (k + 1) = j + 1 /\ j + 1 <= to /\ j + 1 >= from /\ j <= to
        /\ from \in Nat /\ j \in Int
    BY <2>1
  <2>3. Good(I(j), j)
    BY <1>2, <2>1, <2>2
  <2>4. I(j + 1) = InsertString(I(j), j + 1)
    BY <2>2, InsertAllSteps
  <2>5. I(j) \in DState
    <3>1. j <= m /\ j + 2 < WindowSize
      BY <2>2, Sizes
    <3> QED
      BY <2>2, <3>1, InsertAllShape
  <2> HIDE DEF I
  <2>6. PICK v \in DState : v = I(j)
    BY <2>5
  <2>7. /\ Linked(v.window, v.head, v.prev, low, j + 1, end)
        /\ HashedFrom(v.ins_h, v.window[j + 1], v.window[j + 2])
    BY <2>3, <2>6
  <2>8. PICK c \in Nat : c = j + 1
    OBVIOUS
  <2>9. low <= c /\ c - low < WSize /\ c + 2 < end /\ c + 1 = j + 2
    BY <2>2, <2>8, Sizes
  <2>10. /\ Linked(v.window, v.head, v.prev, low, c, end)
         /\ HashedFrom(v.ins_h, v.window[c], v.window[c + 1])
    BY <2>7, <2>8, <2>9
  <2>11. Good(InsertString(v, c), c)
    BY <2>9, <2>10, InsertLinks
  <2> QED
    BY <2>2, <2>4, <2>6, <2>8, <2>11
<1>3. Nat \subseteq S
  <2> HIDE DEF S
  <2> QED
    BY <1>1, <1>2, NatInductionInSet
<1>4. PICK k \in Nat : from - 1 + k = to
  <2>1. to + 1 - from \in Nat /\ from - 1 + (to + 1 - from) = to
    OBVIOUS
  <2> QED
    BY <2>1
<1>5. Good(I(to), to)
  BY <1>3, <1>4
<1> QED
  BY <1>5

-----------------------------------------------------------------------------
(* The invariant of the hash chains.                                       *)

\* Where the next string is inserted.
Here(t, p) == IF Turning(p) THEN t.strstart + 1 ELSE t.strstart

\* What is on the chains and can still be reached is a string with the key of the chain, and
\* the hash value is ready for the next string.
ChainInv(t, p) ==
    /\ Linked(t.window, t.head, t.prev, t.strstart - MAX_DIST, Here(t, p), t.strstart + t.lookahead)
    /\ FuncOf(t) # "stored" /\ t.lookahead >= 3 =>
           HashedFrom(t.ins_h, t.window[Here(t, p)], t.window[Here(t, p) + 1])
    /\ p = "search" /\ t.lookahead >= 3 => t.head[KeyAt(t.window, t.strstart)] = t.strstart

\* u has the window and the chains of t.
Chained(u, t) ==
    /\ u.level = t.level /\ u.window = t.window
    /\ u.head = t.head /\ u.prev = t.prev /\ u.ins_h = t.ins_h
    /\ u.strstart = t.strstart /\ u.lookahead = t.lookahead

LEMMA ChainAlike ==
    ASSUME NEW t, NEW u, NEW p, NEW q, ChainInv(t, p), Here(t, q) = Here(t, p), q # "search",
           Chained(u, t)
    PROVE  ChainInv(u, q)
<1>1. Here(u, q) = Here(t, p) /\ FuncOf(u) = FuncOf(t)
  BY DEF Here, FuncOf, Chained
<1> QED
  BY <1>1, Zenon DEF ChainInv, Chained

\* No chain at all.
LEMMA NoChain ==
    ASSUME NEW w, NEW low, NEW top, NEW end
    PROVE  Linked(w, [h \in 0..(HashSize - 1) |-> 0], [i \in 0..(WSize - 1) |-> 0], low, top, end)
<1> DEFINE hd == [h \in 0..(HashSize - 1) |-> 0]
           pv == [i \in 0..(WSize - 1) |-> 0]
<1>1. \A h \in 0..(HashSize - 1) : hd[h] = 0
  OBVIOUS
<1> HIDE DEF hd, pv
<1>2. \A h \in 0..(HashSize - 1) : ~Near(hd[h], low)
  BY <1>1 DEF Near
<1>3. LinkedBy(w, hd, pv, { }, low, top, end)
  BY <1>2 DEF LinkedBy
<1>4. Linked(w, hd, pv, low, top, end)
  BY <1>3 DEF Linked
<1> QED
  BY <1>4 DEF hd, pv

\* Putting out changes neither the window nor the chains.
LEMMA BlockChains ==
    ASSUME NEW t, NEW to, NEW last, NEW stored
    PROVE  Chained(FlushBlock(t, to, last, stored), t)
<1> DEFINE made == IF stored THEN StoredBlock(t, to - t.block_start, last) ELSE CodedBlock(t, last)
           end == IF last THEN WindUp(made) ELSE made
           u == [end EXCEPT !.sym = << >>, !.block_start = to]
<1>1. ASSUME NEW x PROVE Chained(WindUp(x), x)
  BY DEF WindUp, Chained
<1>2. Chained(made, t)
  <2>1. Chained(StoredBlock(t, to - t.block_start, last), t)
    <3> DEFINE h == [t EXCEPT !.bits = Append(@, Stored(to - t.block_start, last))]
               w == WindUp(h)
    <3>1. Chained(h, t)
      BY DEF Chained
    <3>2. Chained(w, h)
      BY <1>1
    <3>3. StoredBlock(t, to - t.block_start, last) =
            [w EXCEPT !.pending = @ \o [i \in 1..(to - t.block_start) |->
                                           << RawByte(t.window[t.block_start + i - 1]) >>]]
      BY Zenon DEF StoredBlock
    <3> HIDE DEF w
    <3> DEFINE x == StoredBlock(t, to - t.block_start, last)
    <3>5. PICK q : x = [w EXCEPT !.pending = q]
      BY <3>3, Zenon
    <3> HIDE DEF x
    <3>4. Chained(x, w)
      BY <3>5 DEF Chained
    <3> HIDE DEF h
    <3> QED
      BY <3>1, <3>2, <3>4, Zenon DEF Chained, x
  <2>2. Chained(CodedBlock(t, last), t)
    BY DEF CodedBlock, SendBits, Chained
  <2> QED
    BY <2>1, <2>2
<1> HIDE DEF made
<1>3. Chained(end, made)
  <2>1. Chained(made, made)
    BY DEF Chained
  <2> QED
    BY <1>1, <2>1
<1> HIDE DEF end
<1>4. Chained(u, end)
  BY DEF Chained
<1>5. FlushBlock(t, to, last, stored) = u
  BY Zenon DEF FlushBlock, made, end
<1> HIDE DEF u
<1> QED
  BY <1>2, <1>3, <1>4, <1>5, Zenon DEF Chained

LEMMA PendingChains ==
    ASSUME NEW t, FlushPending(t)
    PROVE  Chained(s', t)
BY DEF FlushPending, Chained

\* Nor do all the steps outside of the loops.
Outside == Caller \/ OutOfSequence \/ ZlibError \/ GoOn \/ CallReturns \/ CallDeflate
           \/ WaitForInput \/ FlushFull \/ LastBlock \/ BlockNotDone \/ Trailer

LEMMA OutsideChains ==
    ASSUME Outside
    PROVE  Chained(s', s) /\ ~Turning(pc) /\ ~Turning(pc')
<1>1. CASE Caller
  BY <1>1 DEF Caller, Create, Update, Finish, Return, Chained, Turning
<1>2. CASE OutOfSequence \/ ZlibError \/ GoOn \/ CallReturns
  BY <1>2 DEF OutOfSequence, ZlibError, GoOn, CallReturns, Return, Raise, Leave, Chained, Turning
<1>3. CASE CallDeflate
  <2> DEFINE header == [s EXCEPT !.pending = Append(@, << Simple("zlib") >>), !.status = "BUSY"]
             begun == IF s.status = "INIT" THEN header ELSE s
             t == [begun EXCEPT !.last_flush = flush]
             n == Smaller(Len(t.pending), BufSize)
             a == [t EXCEPT !.pending = SubSeq(@, n + 1, Len(@)), !.last_flush = "NONE"]
             b == [t EXCEPT !.pending = << >>]
  <2>1. (s' = a \/ s' = b) /\ pc = "loop" /\ pc' \in { "called", "top", "tail" }
    BY <1>3, Zenon DEF CallDeflate, Leave
  <2>2. Chained(begun, s)
    BY DEF Chained
  <2> HIDE DEF begun
  <2>3. Chained(t, begun)
    BY DEF Chained
  <2> HIDE DEF t, n
  <2>4. Chained(a, t) /\ Chained(b, t)
    BY DEF Chained
  <2> HIDE DEF a, b
  <2>5. Chained(s', s)
    BY <2>1, <2>2, <2>3, <2>4, Zenon DEF Chained
  <2> QED
    BY <2>1, <2>5 DEF Turning
<1>4. CASE WaitForInput
  BY <1>4 DEF WaitForInput, NeedMore, Chained, Turning
<1>5. CASE FlushFull
  <2>1. PICK stored : /\ FlushPending(FlushBlock(s, s.strstart - Undecided, FALSE, stored))
                      /\ pc = "flush" /\ pc' \in { "need_more", "top" }
    BY <1>5 DEF FlushFull, NeedMore
  <2> DEFINE f == FlushBlock(s, s.strstart - Undecided, FALSE, stored)
  <2>2. Chained(f, s)
    BY BlockChains
  <2> HIDE DEF f
  <2>3. Chained(s', f)
    BY <2>1, PendingChains DEF f
  <2> QED
    BY <2>1, <2>2, <2>3 DEF Chained, Turning
<1>6. CASE LastBlock
  <2> DEFINE v == TallyPrevious(s)
             t == IF s.match_available THEN [v EXCEPT !.match_available = FALSE] ELSE s
             f(x) == FlushBlock(t, t.strstart, TRUE, x)
             g(x) == [f(x) EXCEPT !.status = "FINISH"]
  <2>1. PICK stored : FlushPending(g(stored)) /\ pc = "filled" /\ pc' \in { "need_more", "tail" }
    BY <1>6 DEF LastBlock
  <2>2. Chained(t, s)
    <3>1. Chained(v, s)
      BY DEF TallyPrevious, TallyLit, Chained
    <3> HIDE DEF v
    <3>2. Chained([v EXCEPT !.match_available = FALSE], v) /\ Chained(s, s)
      BY DEF Chained
    <3> HIDE DEF t
    <3> QED
      BY <3>1, <3>2 DEF t, Chained
  <2> HIDE DEF t
  <2>3. Chained(f(stored), t)
    BY BlockChains
  <2> DEFINE x == f(stored)
             y == g(stored)
  <2>4. y = [x EXCEPT !.status = "FINISH"] /\ FlushPending(y)
    BY <2>1
  <2>5. Chained(x, t)
    BY <2>3
  <2> HIDE DEF x, y, f, g
  <2>6. Chained(y, x)
    BY <2>4 DEF Chained
  <2>7. Chained(s', y)
    BY <2>4, PendingChains
  <2>8. Chained(s', s)
    BY <2>2, <2>5, <2>6, <2>7, Zenon DEF Chained
  <2> QED
    BY <2>1, <2>8 DEF Turning
<1>7. CASE BlockNotDone
  BY <1>7 DEF BlockNotDone, Leave, Chained, Turning
<1>8. CASE Trailer
  <2> DEFINE v == [s EXCEPT !.bits = << Check(s.adler) >>]
             w == WindUp(v)
             t == [w EXCEPT !.wrap = FALSE]
  <2>1. (s' = s \/ FlushPending(t)) /\ pc = "tail" /\ pc' = "called"
    BY <1>8 DEF Trailer, Leave
  <2>2. Chained(v, s)
    BY DEF Chained
  <2> HIDE DEF v
  <2>3. Chained(w, v)
    BY DEF WindUp, Chained
  <2> HIDE DEF w
  <2>4. Chained(t, w)
    BY DEF Chained
  <2> HIDE DEF t
  <2>5. CASE s' = s
    BY <2>1, <2>5 DEF Chained, Turning
  <2>6. CASE FlushPending(t)
    <3>1. Chained(s', t)
      BY <2>6, PendingChains
    <3>2. Chained(s', s)
      BY <2>2, <2>3, <2>4, <3>1, Zenon DEF Chained
    <3> QED
      BY <2>1, <3>2 DEF Turning
  <2> QED
    BY <2>1, <2>5, <2>6
<1> QED
  BY <1>1, <1>2, <1>3, <1>4, <1>5, <1>6, <1>7, <1>8 DEF Outside

LEMMA OutsideKeepsChains ==
    ASSUME ChainInv(s, pc), Outside
    PROVE  ChainInv(s', pc')
<1>1. Chained(s', s) /\ ~Turning(pc) /\ ~Turning(pc')
  BY OutsideChains
<1>2. Here(s, pc') = Here(s, pc) /\ pc' # "search"
  BY <1>1 DEF Here, Turning
<1> QED
  BY <1>1, <1>2, ChainAlike

LEMMA InitChains ==
    ASSUME NEW level \in Levels
    PROVE  ChainInv(State(level), "none")
<1> DEFINE t == State(level)
<1>1. /\ t.head = [h \in 0..(HashSize - 1) |-> 0] /\ t.prev = [i \in 0..(WSize - 1) |-> 0]
      /\ t.lookahead = 0
  BY DEF State
<1> DEFINE hd == [h \in 0..(HashSize - 1) |-> 0]
           pv == [i \in 0..(WSize - 1) |-> 0]
           low == t.strstart - MAX_DIST
           top == Here(t, "none")
           end == t.strstart + t.lookahead
<1> HIDE DEF t
<1>2. Linked(t.window, t.head, t.prev, low, top, end)
  <2>1. Linked(t.window, hd, pv, low, top, end)
    BY NoChain
  <2> HIDE DEF hd, pv, low, top, end
  <2> QED
    BY <1>1, <2>1, Zenon DEF hd, pv
<1>3. ~(t.lookahead >= 3)
  BY <1>1
<1>4. ChainInv(t, "none")
  BY <1>2, <1>3, Zenon DEF ChainInv
<1> QED
  BY <1>4 DEF t

\* longest_match changes neither.
LEMMA SearchKeepsChains ==
    ASSUME ChainInv(s, pc), Search
    PROVE  ChainInv(s', pc')
<1>1. pc = "search" /\ pc' = "decide"
  BY DEF Search
<1>2. Chained(s', s)
  BY DEF Search, Chained
<1>3. Here(s, pc') = Here(s, pc) /\ pc' # "search"
  BY <1>1 DEF Here, Turning
<1> QED
  BY <1>2, <1>3, ChainAlike

\* The window slides: so do the chains.
LEMMA SlideChains ==
    ASSUME NEW t, Shape(t), NEW p, ~Turning(p), ChainInv(t, p)
    PROVE  ChainInv(SlideIfNeeded(t), p)
<1>1. CASE ~(t.strstart >= WSize + MAX_DIST)
  BY <1>1 DEF SlideIfNeeded
<1>2. CASE t.strstart >= WSize + MAX_DIST
  <2> DEFINE u == Slide(t)
  <2>0. /\ t \in DState /\ t.strstart \in Nat /\ t.lookahead \in Nat
        /\ t.strstart + t.lookahead <= WindowSize
        /\ t.head \in Heads /\ t.prev \in Prevs
    BY Fields DEF Shape
  <2>1. SlideIfNeeded(t) = u /\ t.strstart >= WSize
    BY <1>2, <2>0, Sizes DEF SlideIfNeeded
  <2>2. /\ u.window = [i \in 0..(WindowSize - 1) |->
                          IF i < WSize THEN t.window[i + WSize] ELSE t.window[i]]
        /\ u.strstart = t.strstart - WSize /\ u.lookahead = t.lookahead
        /\ u.level = t.level /\ u.ins_h = t.ins_h
        /\ u.head = [h \in 0..(HashSize - 1) |-> Slid(t.head[h])]
        /\ u.prev = [i \in 0..(WSize - 1) |-> Slid(t.prev[i])]
    BY <2>0, <2>1, SlideIs, SlideKeeps DEF Slid
  <2> HIDE DEF u
  <2>3. \A i \in 0..(WSize - 1) : u.window[i] = t.window[i + WSize]
    <3> SUFFICES ASSUME NEW i \in 0..(WSize - 1) PROVE u.window[i] = t.window[i + WSize]
      OBVIOUS
    <3>1. i \in 0..(WindowSize - 1) /\ i < WSize
      BY Sizes
    <3> QED
      BY <2>2, <3>1
  <2>4. Here(t, p) = t.strstart /\ Here(u, p) = u.strstart /\ p # "search"
    BY DEF Here, Turning
  <2> DEFINE low == t.strstart - MAX_DIST
             top == t.strstart
             end == t.strstart + t.lookahead
  <2>5. low \in Int /\ top \in Int /\ end \in Nat /\ low >= WSize /\ end <= WindowSize
    BY <1>2, <2>0, Sizes
  <2>6. Linked(t.window, t.head, t.prev, low, top, end)
    BY <2>4 DEF ChainInv
  <2>7. /\ low - WSize = u.strstart - MAX_DIST /\ top - WSize = u.strstart
        /\ end - WSize = u.strstart + u.lookahead
    BY <2>0, <2>2, Sizes
  <2> HIDE DEF low, top, end
  <2>8. Linked(u.window, u.head, u.prev, low - WSize, top - WSize, end - WSize)
    <3> DEFINE hd == [h \in 0..(HashSize - 1) |-> Slid(t.head[h])]
               pv == [i \in 0..(WSize - 1) |-> Slid(t.prev[i])]
    <3>1. Linked(u.window, hd, pv, low - WSize, top - WSize, end - WSize)
      BY <2>0, <2>3, <2>5, <2>6, LinkedSlide
    <3>2. u.head = hd /\ u.prev = pv
      BY <2>2, Zenon
    <3> HIDE DEF hd, pv
    <3> QED
      BY <3>1, <3>2, Zenon
  <2>9. t.lookahead >= 3 => /\ u.window[u.strstart] = t.window[t.strstart]
                            /\ u.window[u.strstart + 1] = t.window[t.strstart + 1]
    <3> SUFFICES ASSUME t.lookahead >= 3
                 PROVE  /\ u.window[u.strstart] = t.window[t.strstart]
                        /\ u.window[u.strstart + 1] = t.window[t.strstart + 1]
      OBVIOUS
    <3>1. /\ u.strstart \in 0..(WSize - 1) /\ u.strstart + 1 \in 0..(WSize - 1)
          /\ u.strstart + WSize = t.strstart /\ (u.strstart + 1) + WSize = t.strstart + 1
      <4> DEFINE a == u.strstart
                 b == t.strstart
                 la == t.lookahead
      <4>1. a = b - WSize /\ b \in Nat /\ la \in Nat /\ b >= WSize /\ b + la <= WindowSize /\ la >= 3
        BY <2>0, <2>1, <2>2
      <4> HIDE DEF a, b, la
      <4>2. a \in 0..(WSize - 1) /\ a + 1 \in 0..(WSize - 1) /\ a + WSize = b /\ (a + 1) + WSize = b + 1
        BY <4>1, Sizes
      <4> QED
        BY <4>2 DEF a, b
    <3>2. /\ u.window[u.strstart] = t.window[u.strstart + WSize]
          /\ u.window[u.strstart + 1] = t.window[(u.strstart + 1) + WSize]
      BY <2>3, <3>1
    <3> QED
      BY <3>1, <3>2
  <2>10. FuncOf(u) = FuncOf(t)
    BY <2>2 DEF FuncOf
  <2>11. ChainInv(u, p)
    <3>1. Linked(u.window, u.head, u.prev, u.strstart - MAX_DIST, Here(u, p),
                 u.strstart + u.lookahead)
      BY <2>4, <2>7, <2>8
    <3>2. FuncOf(u) # "stored" /\ u.lookahead >= 3 =>
             HashedFrom(u.ins_h, u.window[Here(u, p)], u.window[Here(u, p) + 1])
      BY <2>2, <2>4, <2>9, <2>10 DEF ChainInv
    <3> QED
      BY <2>4, <3>1, <3>2 DEF ChainInv
  <2> QED
    BY <2>1, <2>11
<1> QED
  BY <1>1, <1>2

\* So do they when more is read.
LEMMA ReadChains ==
    ASSUME NEW t \in DState, NEW data \in Seq(Nat),
           t.strstart + t.lookahead + Len(data) <= WindowSize,
           NEW p, ~Turning(p), ChainInv(t, p), NEW q, ~Turning(q)
    PROVE  ChainInv(ReadBuf(t, data), q)
<1> DEFINE u == ReadBuf(t, data)
           end == t.strstart + t.lookahead
           n == Len(data)
<1>1. /\ t.strstart \in Nat /\ t.lookahead \in Nat /\ n \in Nat
      /\ t.head \in Heads /\ t.prev \in Prevs
  BY Fields, LenProperties
<1>2. /\ u.window = [i \in 0..(WindowSize - 1) |->
                        IF i >= end /\ i < end + n THEN data[i - end + 1] ELSE t.window[i]]
      /\ u.lookahead = t.lookahead + n
      /\ u.lookahead >= 3 => u.ins_h = UpdateHash(u.window[t.strstart], u.window[t.strstart + 1])
  BY ReadBufIs
<1>3. u.level = t.level /\ u.head = t.head /\ u.prev = t.prev /\ u.strstart = t.strstart
  BY ReadBufKeeps DEF Unread
<1>4. end + n <= WindowSize /\ end \in Nat
  BY <1>1
<1> HIDE DEF u
<1>5. \A i \in 0..(end - 1) : u.window[i] = t.window[i]
  <2> SUFFICES ASSUME NEW i \in 0..(end - 1) PROVE u.window[i] = t.window[i]
    OBVIOUS
  <2>1. i \in 0..(WindowSize - 1) /\ ~(i >= end)
    BY <1>1, <1>4, Sizes
  <2> QED
    BY <1>2, <2>1
<1>6. Here(t, p) = t.strstart /\ Here(u, q) = u.strstart /\ q # "search"
  BY DEF Here, Turning
<1> DEFINE low == t.strstart - MAX_DIST
           top == t.strstart
<1>7. low \in Int /\ top \in Int /\ end + n \in Nat /\ end <= end + n
  BY <1>1, <1>4, Sizes
<1>8. Linked(t.window, t.head, t.prev, low, top, end)
  BY <1>6 DEF ChainInv
<1>9. low = u.strstart - MAX_DIST /\ top = u.strstart /\ end + n = u.strstart + u.lookahead
  <2>1. t.strstart + t.lookahead + n = t.strstart + (t.lookahead + n)
    BY <1>1
  <2> QED
    BY <1>2, <1>3, <2>1
<1> HIDE DEF low, top, end, n
<1>10. Linked(u.window, t.head, t.prev, low, top, end + n)
  BY <1>1, <1>4, <1>5, <1>7, <1>8, LinkedMore
<1>11. Linked(u.window, u.head, u.prev, u.strstart - MAX_DIST, Here(u, q),
              u.strstart + u.lookahead)
  BY <1>3, <1>6, <1>9, <1>10
<1>12. u.lookahead >= 3 => HashedFrom(u.ins_h, u.window[Here(u, q)], u.window[Here(u, q) + 1])
  BY <1>2, <1>3, <1>6 DEF HashedFrom, KeyOf
<1>13. ChainInv(u, q)
  BY <1>6, <1>11, <1>12 DEF ChainInv
<1> QED
  BY <1>13 DEF u

LEMMA FillKeepsChains == ASSUME IInv, ChainInv(s, pc), FillWindow PROVE ChainInv(s', pc')
<1> DEFINE t == SlideIfNeeded(s)
           n == Smaller(Len(input), More(t))
           data == SubSeq(input, 1, n)
<1>0. Shape(s) /\ input \in Seq(Nat)
  BY DEF IInv, SInv, IoTypes
<1>1. /\ pc \in { "fill", "top" } /\ pc' \in { "fill", "filled" }
      /\ s' = IF n = 0 THEN t ELSE ReadBuf(t, data)
  BY DEF FillWindow
<1>2. ~Turning(pc) /\ ~Turning(pc')
  BY <1>1 DEF Turning
<1>3. Shape(t) /\ ChainInv(t, pc)
  BY <1>0, <1>2, SlideShape, SlideChains
<1> HIDE DEF t
<1>4. t \in DState /\ t.strstart \in Nat /\ t.lookahead \in Nat
      /\ t.strstart + t.lookahead <= WindowSize
  BY <1>3, Fields DEF Shape
<1>5. n \in 0..Len(input) /\ n <= WindowSize - t.lookahead - t.strstart
  <2>1. More(t) \in Nat /\ More(t) = WindowSize - t.lookahead - t.strstart
    BY <1>4, Sizes DEF More
  <2>2. Len(input) \in Nat
    BY <1>0, LenProperties
  <2> QED
    BY <2>1, <2>2 DEF Smaller
<1> HIDE DEF n
<1>6. data \in Seq(Nat) /\ Len(data) = n
  BY <1>0, <1>5, CutInTwo
<1> HIDE DEF data
<1>7. CASE n = 0
  <2>1. Chained(t, t)
    BY DEF Chained
  <2>2. Here(t, pc') = Here(t, pc) /\ pc' # "search"
    BY <1>2 DEF Here, Turning
  <2>3. ChainInv(t, pc')
    BY <1>3, <2>1, <2>2, ChainAlike
  <2> QED
    BY <1>1, <1>7, <2>3
<1>8. CASE n # 0
  <2>1. t.strstart + t.lookahead + Len(data) <= WindowSize
    BY <1>4, <1>5, <1>6, Sizes
  <2>2. ChainInv(ReadBuf(t, data), pc')
    BY <1>2, <1>3, <1>4, <1>6, <2>1, ReadChains
  <2> QED
    BY <1>1, <1>8, <2>2
<1> QED
  BY <1>7, <1>8

\* Going on in the window, with the chains as they are or longer.
LEMMA GoOnChains ==
    ASSUME NEW t \in DState, NEW u, NEW low \in Int, NEW top \in Int, NEW end,
           Linked(t.window, t.head, t.prev, low, top, end),
           u.window = t.window, u.head = t.head, u.prev = t.prev,
           NEW q, q # "search", Here(u, q) \in Int, u.strstart \in Nat,
           low <= u.strstart - MAX_DIST, top <= Here(u, q),
           end = u.strstart + u.lookahead,
           FuncOf(u) # "stored" /\ u.lookahead >= 3 =>
               HashedFrom(u.ins_h, u.window[Here(u, q)], u.window[Here(u, q) + 1])
    PROVE  ChainInv(u, q)
<1> DEFINE low2 == u.strstart - MAX_DIST
           top2 == Here(u, q)
<1>1. low2 \in Int /\ top2 \in Int /\ low <= low2 /\ top <= top2
  BY Sizes
<1>2. t.head \in Heads /\ t.prev \in Prevs
  BY Fields
<1> HIDE DEF low2, top2
<1>3. Linked(t.window, t.head, t.prev, low2, top2, end)
  BY <1>1, <1>2, LinkedLater
<1>4. Linked(u.window, u.head, u.prev, u.strstart - MAX_DIST, Here(u, q), u.strstart + u.lookahead)
  BY <1>3, Zenon DEF low2, top2
<1> QED
  BY <1>4, Zenon DEF ChainInv

\* deflate_stored
LEMMA TurnStoredKeepsChains == ASSUME IInv, ChainInv(s, pc), TurnStored PROVE ChainInv(s', pc')
<1> DEFINE read == s.strstart + s.lookahead
           to == Smaller(read, s.block_start + MaxStored)
           rest == read - to
           t == [s EXCEPT !.strstart = to, !.lookahead = rest]
<1>0. /\ s \in DState /\ s.strstart \in Nat /\ s.lookahead \in Nat /\ s.block_start \in Int
      /\ SInv(s, pc)
  BY Fields DEF IInv, SInv, Shape
<1>1. s' = t /\ pc' \in { "flush", "top" } /\ Turn /\ Func = "stored"
  BY DEF TurnStored, EndTurn
<1>2. pc \in { "top", "filled" }
  BY <1>1, TurnBegins
<1>3. FuncOf(s) = "stored" /\ s.strstart < s.block_start + MaxStored
  <2>1. FuncOf(s) = "stored"
    BY <1>1, FuncIs
  <2> QED
    BY <1>0, <1>2, <2>1 DEF SInv, StoredMode
<1>4. to \in Nat /\ rest \in Nat /\ to >= s.strstart /\ to + rest = s.strstart + s.lookahead
  BY <1>0, <1>3, Sizes DEF Smaller
<1> HIDE DEF to, rest
<1>5. t.strstart = to /\ t.lookahead = rest
  BY <1>0, <1>4 DEF DState
<1>6. t.level = s.level /\ t.window = s.window /\ t.head = s.head /\ t.prev = s.prev
  OBVIOUS
<1> HIDE DEF t
<1>7. FuncOf(t) = "stored"
  BY <1>3, <1>6 DEF FuncOf
<1>8. Here(t, pc') = to /\ Here(s, pc) = s.strstart /\ pc' # "search"
  BY <1>1, <1>2, <1>5 DEF Here, Turning
<1> DEFINE low == s.strstart - MAX_DIST
           end == s.strstart + s.lookahead
<1>9. Linked(s.window, s.head, s.prev, low, s.strstart, end)
  BY <1>8 DEF ChainInv
<1>10. low \in Int /\ low <= t.strstart - MAX_DIST /\ end = t.strstart + t.lookahead
  BY <1>0, <1>4, <1>5, Sizes
<1> HIDE DEF low, end
<1>11. ChainInv(t, pc')
  <2>1. s.strstart \in Int /\ Here(t, pc') \in Int /\ t.strstart \in Nat /\ s.strstart <= Here(t, pc')
    BY <1>0, <1>4, <1>5, <1>8
  <2>2. Linked(t.window, t.head, t.prev, low, s.strstart, end)
    BY <1>6, <1>9, Zenon
  <2>3. t \in DState
    BY <1>0, <1>1, <1>4 DEF DState, t
  <2> QED
    BY <1>7, <1>8, <1>10, <2>1, <2>2, <2>3, GoOnChains
<1> QED
  BY <1>1, <1>11

\* deflate_fast, deflate_slow: the string here goes on its chain.
LEMMA InsertKeepsChains == ASSUME IInv, ChainInv(s, pc), Insert PROVE ChainInv(s', pc')
<1> DEFINE t == InsertHere(s)
           u == [t EXCEPT !.prev_length = s.match_length, !.prev_match = s.match_start,
                          !.match_length = MIN_MATCH - 1]
           low == s.strstart - MAX_DIST
           c == s.strstart
           end == s.strstart + s.lookahead
<1>0. /\ s \in DState /\ s.strstart \in Nat /\ s.lookahead \in Nat /\ Shape(s)
      /\ s.strstart + s.lookahead <= WindowSize /\ s.head \in Heads /\ s.prev \in Prevs
  BY Fields DEF IInv, SInv, Shape
<1>1. /\ s' = (IF Func = "fast" THEN t ELSE u)
      /\ pc' = "search" /\ Turn /\ Func # "stored"
  BY Zenon DEF Insert
<1>2. pc \in { "top", "filled" } /\ s.lookahead > 0
  BY <1>1, TurnBegins
<1>3. FuncOf(s) # "stored"
  BY <1>1, FuncIs
<1>4. /\ Here(s, pc) = s.strstart
      /\ Linked(s.window, s.head, s.prev, low, c, end)
      /\ s.lookahead >= 3 => HashedFrom(s.ins_h, s.window[c], s.window[c + 1])
  BY <1>2, <1>3 DEF ChainInv, Here, Turning
<1>5. Rehashed(t, s)
  BY <1>0, <1>2, InsertHereShape
<1>6. /\ Linked(t.window, t.head, t.prev, low, c + 1, end)
      /\ s.lookahead >= 3 => /\ HashedFrom(t.ins_h, t.window[c + 1], t.window[c + 2])
                             /\ t.head[KeyAt(t.window, c)] = c
  <2>1. CASE s.lookahead >= 3
    <3>1. t = InsertString(s, c)
      BY <2>1, Sizes DEF InsertHere
    <3>2. /\ low \in Int /\ low <= c /\ c - low < WSize /\ c + 2 < end /\ end <= WindowSize
          /\ c \in Nat /\ end \in Nat
      BY <1>0, <2>1, Sizes
    <3> HIDE DEF low, c, end, t
    <3> QED
      BY <1>0, <1>4, <2>1, <3>1, <3>2, InsertLinks DEF c
  <2>2. CASE ~(s.lookahead >= 3)
    <3>1. t = s
      BY <2>2, Sizes DEF InsertHere
    <3>2. /\ low \in Int /\ c \in Int /\ c + 1 \in Int /\ low <= low /\ c <= c + 1
      BY <1>0, Sizes
    <3> HIDE DEF low, c, end, t
    <3>3. Linked(s.window, s.head, s.prev, low, c + 1, end)
      BY <1>0, <1>4, <3>2, LinkedLater
    <3> QED
      BY <2>2, <3>1, <3>3
  <2> QED
    BY <2>1, <2>2
<1> HIDE DEF t
<1>7. /\ u.level = t.level /\ u.window = t.window /\ u.head = t.head /\ u.prev = t.prev
      /\ u.ins_h = t.ins_h /\ u.strstart = t.strstart /\ u.lookahead = t.lookahead
  OBVIOUS
<1> HIDE DEF u
<1>8. Chained(s', t)
  BY <1>1, <1>7 DEF Chained
<1>9. ChainInv(t, "search")
  <2>1. t.strstart = s.strstart /\ t.lookahead = s.lookahead
    BY <1>5 DEF Rehashed
  <2>2. Here(t, "search") = c + 1
    BY <2>1 DEF Here, Turning
  <2>3. (c + 1) + 1 = c + 2
    BY <1>0
  <2> QED
    BY <1>6, <2>1, <2>2, <2>3 DEF ChainInv
<1>10. Here(s', "search") = Here(t, "search") /\ FuncOf(s') = FuncOf(t)
  BY <1>8 DEF Here, FuncOf, Chained
<1>11. ChainInv(s', "search")
  BY <1>8, <1>9, <1>10, Zenon DEF ChainInv, Chained
<1> QED
  BY <1>1, <1>11

\* A match that ends at end is taken, and the strings up to "to" have gone on the chains: all
\* of those in it, unless the input ends there.
LEMMA TakenChains ==
    ASSUME NEW t, Shape(t), FuncOf(t) # "stored", ChainInv(t, "decide"),
           NEW end \in Nat, t.strstart + 1 <= end, end <= t.strstart + MaxMatch,
           end <= t.strstart + t.lookahead,
           NEW to \in Int, to <= end - 1, to + 2 < t.strstart + t.lookahead,
           t.lookahead >= 3 => to >= t.strstart,
           t.strstart + t.lookahead - end >= 3 => to = end - 1,
           NEW i, i = InsertAll(t, t.strstart + 1, to),
           NEW u, u.level = t.level, u.window = i.window, u.head = i.head, u.prev = i.prev,
           u.ins_h = i.ins_h, u.strstart = end, u.lookahead = t.strstart + t.lookahead - end,
           NEW q \in { "top", "flush" }
    PROVE  ChainInv(u, q)
<1> DEFINE low == t.strstart - MAX_DIST
           c == t.strstart
           from == t.strstart + 1
           fin == t.strstart + t.lookahead
<1>0. /\ t \in DState /\ c \in Nat /\ t.lookahead \in Nat /\ fin <= WindowSize
      /\ Below(t, c) /\ low \in Int /\ fin \in Nat /\ from \in Nat \ {0}
  <2>1. /\ t \in DState /\ c \in Nat /\ t.lookahead \in Nat /\ fin <= WindowSize /\ Below(t, c)
    BY Fields DEF Shape
  <2>2. low \in Int /\ fin \in Nat /\ from \in Nat \ {0}
    BY <2>1, Sizes
  <2> QED
    BY <2>1, <2>2
<1>1. /\ Linked(t.window, t.head, t.prev, low, from, fin)
      /\ t.lookahead >= 3 => HashedFrom(t.ins_h, t.window[from], t.window[from + 1])
  BY DEF ChainInv, Here, Turning
<1>2. FuncOf(u) = FuncOf(t) /\ Here(u, q) = end /\ q # "search"
  BY DEF FuncOf, Here, Turning
<1>3. low <= end - MAX_DIST /\ end + (fin - end) = fin /\ low <= from
  BY <1>0, Sizes
<1>4. CASE t.lookahead >= 3
  <2>1. to \in Nat /\ from <= to + 1 /\ to <= end /\ to - low < WSize /\ to + 2 < fin
    <3>1. c \in Nat /\ to >= c /\ to <= end - 1 /\ end <= c + MaxMatch
      BY <1>0, <1>4
    <3>2. low = c - (WSize - (MaxMatch + 4)) /\ from = c + 1
      BY Sizes
    <3> HIDE DEF c, low, from
    <3> QED
      BY <3>1, <3>2, Sizes DEF c
  <2>2. Below(t, end)
    <3>1. c \in Nat /\ c <= end
      BY <1>0
    <3> QED
      BY <1>0, <3>1, BelowMore
  <2> HIDE DEF low, from, fin
  <2>3. i = InsertAll(t, from, to)
    BY DEF from
  <2>4. /\ Linked(i.window, i.head, i.prev, low, to + 1, fin)
        /\ HashedFrom(i.ins_h, i.window[to + 1], i.window[to + 2])
    BY <1>0, <1>1, <1>3, <1>4, <2>1, <2>2, <2>3, InsertAllLinks
  <2>5. i \in DState
    <3>1. to + 2 < WindowSize
      BY <1>0, <2>1, Sizes
    <3> QED
      BY <1>0, <2>1, <2>2, <2>3, <3>1, InsertAllShape
  <2>6. u.lookahead >= 3 => HashedFrom(u.ins_h, u.window[end], u.window[end + 1])
    <3> SUFFICES ASSUME u.lookahead >= 3 PROVE HashedFrom(u.ins_h, u.window[end], u.window[end + 1])
      OBVIOUS
    <3>1. to = end - 1
      OBVIOUS
    <3>2. to + 1 = end /\ to + 2 = end + 1
      BY <3>1
    <3> QED
      BY <2>4, <3>2
  <2>7. to + 1 \in Int /\ to + 1 <= Here(u, q) /\ Here(u, q) \in Int /\ u.strstart \in Nat
        /\ low <= u.strstart - MAX_DIST /\ fin = u.strstart + u.lookahead
    <3>1. u.lookahead = fin - end
      BY <1>0 DEF fin
    <3>2. fin = u.strstart + u.lookahead
      BY <1>3, <3>1, Zenon
    <3>3. to + 1 \in Int /\ to + 1 <= end /\ end \in Int
      OBVIOUS
    <3> QED
      BY <1>2, <1>3, <3>2, <3>3, Zenon
  <2> QED
    BY <1>0, <1>2, <2>4, <2>5, <2>6, <2>7, GoOnChains
<1>5. CASE ~(t.lookahead >= 3)
  <2>1. i = t
    <3>1. to < from
      BY <1>0, <1>5
    <3> QED
      BY <1>0, <3>1, InsertAllSteps
  <2>2. ~(u.lookahead >= 3)
    BY <1>0, <1>5
  <2>3. /\ from \in Int /\ from <= Here(u, q) /\ Here(u, q) \in Int /\ u.strstart \in Nat
        /\ low <= u.strstart - MAX_DIST /\ fin = u.strstart + u.lookahead
    BY <1>0, <1>2, <1>3
  <2> HIDE DEF low, from, fin
  <2> QED
    BY <1>0, <1>1, <1>2, <2>1, <2>2, <2>3, GoOnChains
<1> QED
  BY <1>4, <1>5

\* deflate_fast: a match
LEMMA TakeMatchKeepsChains == ASSUME IInv, ChainInv(s, pc), TakeMatch PROVE ChainInv(s', pc')
<1> DEFINE n    == s.match_length
           rest == s.lookahead - n
           end  == s.strstart + n
           all  == n <= Config[s.level].lazy /\ rest >= MIN_MATCH
           a    == InsertAll(s, s.strstart + 1, end - 1)
           b    == [s EXCEPT !.ins_h = UpdateHash(s.window[end], s.window[end + 1])]
           i    == IF all THEN a ELSE b
           d    == s.strstart - s.match_start
           v    == TallyDist(i, d, n)
           t    == [v EXCEPT !.strstart = end, !.lookahead = rest, !.match_length = 0]
<1>0. /\ SInv(s, pc) /\ s \in DState /\ Shape(s)
      /\ s.strstart \in Nat /\ s.lookahead \in Nat /\ n \in Nat
      /\ s.match_start \in Int /\ s.strstart + s.lookahead <= WindowSize
      /\ n <= MaxMatch
  BY Fields DEF IInv, SInv, Shape
<1>1. /\ s' = t /\ pc' = (IF BlockFull(t) THEN "flush" ELSE "top")
      /\ pc = "decide" /\ Func = "fast" /\ n >= 3
  BY Sizes, Zenon DEF TakeMatch, EndTurn
<1>2. /\ FastMode(s, pc) /\ FuncOf(s) = "fast"
  BY <1>0, <1>1, FuncIs DEF SInv
<1>3. n <= s.lookahead
  BY <1>1, <1>2 DEF FastMode
<1>4. /\ rest \in Nat /\ end \in Nat /\ s.strstart + 1 <= end /\ end <= s.strstart + MaxMatch
      /\ end <= s.strstart + s.lookahead /\ rest = s.strstart + s.lookahead - end /\ d \in Int
  BY <1>0, <1>1, <1>3, Sizes
<1>5. (a \in DState /\ Rehashed(a, s)) \/ ~all
  <2> SUFFICES ASSUME all PROVE a \in DState /\ Rehashed(a, s)
    OBVIOUS
  <2> DEFINE to == end - 1
  <2>1. to \in Int /\ to <= end /\ to + 2 < WindowSize /\ s.strstart <= end
    <3>1. end + 3 <= WindowSize
      BY <1>0, <1>4, Sizes
    <3> HIDE DEF end, rest
    <3> QED
      BY <1>0, <1>4, <3>1, Sizes
  <2> HIDE DEF to
  <2>2. a = InsertAll(s, s.strstart + 1, to)
    BY DEF to
  <2> HIDE DEF a, end, rest
  <2> QED
    BY <1>0, <1>4, <2>1, <2>2, MatchInserted
<1>6. /\ b.level = s.level /\ b.window = s.window /\ b.head = s.head /\ b.prev = s.prev
  OBVIOUS
<1>7. b.ins_h = UpdateHash(s.window[end], s.window[end + 1])
  BY <1>0 DEF DState
<1> HIDE DEF a, b, end, rest, d
<1>8. /\ t.level = i.level /\ t.window = i.window /\ t.head = i.head /\ t.prev = i.prev
      /\ t.ins_h = i.ins_h
  <2> HIDE DEF i
  <2>1. /\ v.level = i.level /\ v.window = i.window /\ v.head = i.head /\ v.prev = i.prev
        /\ v.ins_h = i.ins_h
    BY DEF TallyDist
  <2> HIDE DEF v
  <2> QED
    BY <2>1
<1>9. t.strstart = end /\ t.lookahead = rest
  <2>1. \E y : v = [i EXCEPT !.sym = y]
    <3> HIDE DEF i
    <3> QED
      BY Zenon DEF TallyDist
  <2>2. i \in DState
    <3>1. UpdateHash(s.window[end], s.window[end + 1]) \in 0..(HashSize - 1) \/ all
      <4> SUFFICES ASSUME ~all PROVE UpdateHash(s.window[end], s.window[end + 1]) \in 0..(HashSize - 1)
        OBVIOUS
      <4>1. s.strstart <= WindowSize - MIN_LOOKAHEAD
        BY <1>0, <1>1 DEF SInv, TurnMode, Turning
      <4>2. end \in Nat /\ end + 2 < WindowSize
        BY <1>0, <1>4, <4>1, Sizes
      <4>3. s.window[end] \in Nat /\ s.window[end + 1] \in Nat
        BY <1>0, <4>2, WindowBytes
      <4> QED
        BY <4>3, HashType
    <3>2. b \in DState \/ all
      BY <1>0, <3>1 DEF b, DState
    <3> QED
      BY <1>5, <3>2
  <2>3. v \in DState
    BY <1>0, <1>4, <2>2, TallyDistIs
  <2> HIDE DEF v
  <2> QED
    BY <1>4, <2>3 DEF DState
<1> HIDE DEF t, v
<1>10. pc' \in { "top", "flush" }
  BY <1>1
<1>11. CASE all
  <2> DEFINE to == end - 1
  <2>1. /\ to \in Int /\ to <= end - 1 /\ to + 2 < s.strstart + s.lookahead
        /\ s.lookahead >= 3 => to >= s.strstart
        /\ s.strstart + s.lookahead - end >= 3 => to = end - 1
    <3>1. rest >= 3
      BY <1>11, Sizes
    <3> HIDE DEF n
    <3> QED
      BY <1>0, <1>4, <3>1
  <2>2. i = InsertAll(s, s.strstart + 1, to)
    BY <1>11 DEF a
  <2> HIDE DEF to
  <2>3. /\ t.level = s.level /\ t.window = i.window /\ t.head = i.head /\ t.prev = i.prev
        /\ t.ins_h = i.ins_h /\ t.strstart = end /\ t.lookahead = s.strstart + s.lookahead - end
    <3>1. i.level = s.level
      BY <1>5, <1>11 DEF Rehashed
    <3> HIDE DEF i
    <3> QED
      BY <1>4, <1>8, <1>9, <3>1
  <2> HIDE DEF i, n
  <2>4. ChainInv(s, "decide") /\ FuncOf(s) # "stored"
    BY <1>1, <1>2
  <2>5. ChainInv(t, pc')
    BY <1>0, <1>4, <1>10, <2>1, <2>2, <2>3, <2>4, TakenChains
  <2> QED
    BY <1>1, <2>5
<1>12. CASE ~all
  <2>1. i = b
    BY <1>12
  <2>2. /\ t.level = s.level /\ t.window = s.window /\ t.head = s.head /\ t.prev = s.prev
        /\ t.ins_h = UpdateHash(s.window[end], s.window[end + 1])
    <3> HIDE DEF i
    <3> QED
      BY <1>6, <1>7, <1>8, <2>1
  <2> DEFINE low == s.strstart - MAX_DIST
             top == s.strstart + 1
             fin == s.strstart + s.lookahead
  <2>3. Linked(s.window, s.head, s.prev, low, top, fin)
    BY <1>1 DEF ChainInv, Here, Turning
  <2>4. Here(t, pc') = end /\ pc' # "search"
    BY <1>9, <1>10 DEF Here, Turning
  <2>5. HashedFrom(t.ins_h, t.window[Here(t, pc')], t.window[Here(t, pc') + 1])
    BY <2>2, <2>4 DEF HashedFrom, KeyOf
  <2>6. /\ low \in Int /\ top \in Int /\ Here(t, pc') \in Int /\ t.strstart \in Nat
        /\ low <= t.strstart - MAX_DIST /\ top <= Here(t, pc') /\ fin = t.strstart + t.lookahead
    BY <1>0, <1>4, <1>9, <2>4, Sizes
  <2> HIDE DEF low, top, fin
  <2>7. ChainInv(t, pc')
    BY <1>0, <2>2, <2>3, <2>4, <2>5, <2>6, GoOnChains
  <2> QED
    BY <1>1, <2>7
<1> QED
  BY <1>11, <1>12

\* deflate_slow: the match at the byte before
LEMMA TakePreviousMatchKeepsChains ==
    ASSUME IInv, ChainInv(s, pc), TakePreviousMatch
    PROVE  ChainInv(s', pc')
<1> DEFINE max_insert == s.strstart + s.lookahead - MIN_MATCH
           n    == s.prev_length
           end  == s.strstart - 1 + n
           to   == Smaller(end - 1, max_insert)
           i    == InsertAll(s, s.strstart + 1, to)
           d    == s.strstart - 1 - s.prev_match
           v    == TallyDist(i, d, n)
           rest == s.lookahead - (n - 1)
           t    == [v EXCEPT !.strstart = end, !.lookahead = @ - (n - 1),
                             !.prev_length = 0, !.match_available = FALSE,
                             !.match_length = MIN_MATCH - 1]
<1>0. /\ SInv(s, pc) /\ s \in DState /\ Shape(s)
      /\ s.strstart \in Nat /\ s.lookahead \in Nat /\ n \in Nat
      /\ s.prev_match \in Int /\ s.strstart + s.lookahead <= WindowSize
      /\ n <= MaxMatch
  BY Fields DEF IInv, SInv, Shape
<1>1. /\ s' = t /\ pc' = (IF BlockFull(t) THEN "flush" ELSE "top")
      /\ pc = "decide" /\ Func = "slow" /\ n >= 3
  BY Sizes, Zenon DEF TakePreviousMatch, EndTurn, PreviousWins
<1>2. /\ SlowMode(s, pc) /\ FuncOf(s) = "slow"
  BY <1>0, <1>1, FuncIs DEF SInv
<1>3. n <= s.lookahead + 1
  BY <1>1, <1>2 DEF SlowMode, Turning
<1>4. /\ rest \in Nat /\ end \in Nat /\ s.strstart + 1 <= end /\ end <= s.strstart + MaxMatch
      /\ end <= s.strstart + s.lookahead /\ d \in Int /\ end + rest = s.strstart + s.lookahead
  <2> DEFINE st == s.strstart
             la == s.lookahead
  <2>1. /\ st \in Nat /\ la \in Nat /\ n \in Nat /\ n >= 3 /\ n <= la + 1 /\ n <= MaxMatch
        /\ d \in Int
    BY <1>0, <1>1, <1>3
  <2>2. rest = la - (n - 1) /\ end = st - 1 + n
    OBVIOUS
  <2> HIDE DEF n, st, la, rest, end, d
  <2>3. /\ rest \in Nat /\ end \in Nat /\ st + 1 <= end /\ end <= st + MaxMatch
        /\ end <= st + la /\ end + rest = st + la
    BY <2>1, <2>2, Sizes
  <2> QED
    BY <2>1, <2>3 DEF st, la
<1>5. /\ to \in Int /\ to <= end - 1 /\ to + 2 < s.strstart + s.lookahead
      /\ s.lookahead >= 3 => to >= s.strstart
      /\ rest >= 3 => to = end - 1
  <2> DEFINE st == s.strstart
             la == s.lookahead
  <2>1. max_insert = st + la - 3
    BY Sizes
  <2>2. st \in Nat /\ la \in Nat
    BY <1>0
  <2>3. /\ rest \in Nat /\ end \in Nat /\ st + 1 <= end /\ end + rest = st + la
    BY <1>4
  <2> HIDE DEF max_insert, end, rest, st, la
  <2>4. /\ to \in Int /\ to <= end - 1 /\ to + 2 < st + la
        /\ la >= 3 => to >= st
        /\ rest >= 3 => to = end - 1
    BY <2>1, <2>2, <2>3 DEF Smaller
  <2> HIDE DEF to
  <2> QED
    BY <2>4 DEF st, la
<1>6. i \in DState /\ Rehashed(i, s)
  <2>1. to <= end /\ to + 2 < WindowSize /\ s.strstart <= end
    <3> HIDE DEF end, to
    <3> QED
      BY <1>0, <1>4, <1>5, Sizes
  <2> HIDE DEF end, to
  <2> QED
    BY <1>0, <1>4, <1>5, <2>1, MatchInserted
<1>7. v \in DState /\ Tallied(v, i)
  <2> HIDE DEF i, d
  <2> QED
    BY <1>0, <1>4, <1>6, TallyDistIs
<1>8. /\ t.level = v.level /\ t.window = v.window /\ t.head = v.head /\ t.prev = v.prev
      /\ t.ins_h = v.ins_h
  <2> HIDE DEF v
  <2> QED
    OBVIOUS
<1>9. t.strstart = end /\ t.lookahead = rest
  <2>1. v.lookahead = s.lookahead
    <3> HIDE DEF v, i
    <3> QED
      BY <1>6, <1>7 DEF Tallied, Rehashed
  <2> HIDE DEF v, end
  <2>2. t.strstart = end /\ t.lookahead = v.lookahead - (n - 1)
    BY <1>7 DEF DState
  <2> QED
    BY <2>1, <2>2
<1> HIDE DEF t
<1>10. /\ t.level = s.level /\ t.window = i.window /\ t.head = i.head /\ t.prev = i.prev
       /\ t.ins_h = i.ins_h /\ t.strstart = end /\ t.lookahead = s.strstart + s.lookahead - end
  <2>1. rest = s.strstart + s.lookahead - end
    <3> HIDE DEF end, rest
    <3> QED
      BY <1>0, <1>4
  <2> HIDE DEF v, i, end, rest
  <2> QED
    BY <1>6, <1>7, <1>8, <1>9, <2>1 DEF Tallied, Rehashed
<1>11. pc' \in { "top", "flush" } /\ ChainInv(s, "decide") /\ FuncOf(s) # "stored"
  BY <1>1, <1>2
<1>12. s.strstart + s.lookahead - end >= 3 => to = end - 1
  <2> HIDE DEF end, rest, to
  <2> QED
    BY <1>0, <1>4, <1>5
<1>13. i = InsertAll(s, s.strstart + 1, to)
  OBVIOUS
<1> HIDE DEF i, end, rest, to, n
<1>14. ChainInv(t, pc')
  BY <1>0, <1>4, <1>5, <1>10, <1>11, <1>12, <1>13, TakenChains
<1> QED
  BY <1>1, <1>14

\* One byte on: the string here is on its chain.
LEMMA OneOnChains ==
    ASSUME NEW t, Shape(t), t.lookahead > 0, ChainInv(t, "decide"),
           NEW u, u.level = t.level, u.window = t.window, u.head = t.head, u.prev = t.prev,
           u.ins_h = t.ins_h, u.strstart = t.strstart + 1, u.lookahead = t.lookahead - 1,
           NEW q \in { "top", "flush" }
    PROVE  ChainInv(u, q)
<1> DEFINE low == t.strstart - MAX_DIST
           top == t.strstart + 1
           fin == t.strstart + t.lookahead
<1>1. t \in DState /\ t.strstart \in Nat /\ t.lookahead \in Nat
  BY Fields DEF Shape
<1>2. Linked(t.window, t.head, t.prev, low, top, fin)
  BY DEF ChainInv, Here, Turning
<1>3. Here(u, q) = top /\ Here(t, "decide") = top /\ FuncOf(u) = FuncOf(t) /\ q # "search"
  BY DEF Here, Turning, FuncOf
<1>4. /\ low \in Int /\ top \in Int /\ Here(u, q) \in Int /\ u.strstart \in Nat
      /\ low <= u.strstart - MAX_DIST /\ top <= Here(u, q) /\ fin = u.strstart + u.lookahead
  BY <1>1, <1>3, Sizes
<1>5. FuncOf(u) # "stored" /\ u.lookahead >= 3 =>
         HashedFrom(u.ins_h, u.window[Here(u, q)], u.window[Here(u, q) + 1])
  BY <1>1, <1>3 DEF ChainInv
<1> HIDE DEF low, top, fin
<1> QED
  BY <1>1, <1>2, <1>3, <1>4, <1>5, GoOnChains

\* deflate_fast: a literal
LEMMA TakeLiteralKeepsChains == ASSUME IInv, ChainInv(s, pc), TakeLiteral PROVE ChainInv(s', pc')
<1> DEFINE v == TallyLit(s, s.window[s.strstart])
           t == Advance(v)
<1>1. s' = t /\ pc' \in { "flush", "top" } /\ pc = "decide"
  BY Zenon DEF TakeLiteral, EndTurn
<1>2. Shape(s) /\ s \in DState /\ s.lookahead > 0 /\ s.strstart < WindowSize /\ s.strstart \in Nat
  <2>1. SInv(s, pc) /\ s.strstart \in Nat /\ s.lookahead \in Nat
    BY Fields DEF IInv, SInv, Shape
  <2> QED
    BY <1>1, <2>1, Sizes DEF SInv, TurnMode, Turning, Shape
<1>3. v \in DState /\ Tallied(v, s)
  BY <1>2, WindowByte, TallyLitIs
<1> HIDE DEF v
<1>4. OneOn(t, v)
  BY <1>2, <1>3, AdvanceIs DEF Tallied
<1> HIDE DEF t
<1>5. /\ t.level = s.level /\ t.window = s.window /\ t.head = s.head /\ t.prev = s.prev
      /\ t.ins_h = s.ins_h /\ t.strstart = s.strstart + 1 /\ t.lookahead = s.lookahead - 1
  BY <1>3, <1>4 DEF OneOn, Tallied
<1>6. ChainInv(t, pc')
  BY <1>1, <1>2, <1>5, OneOnChains
<1> QED
  BY <1>1, <1>6

\* deflate_slow: the byte before becomes a literal.
LEMMA TakePreviousLiteralKeepsChains ==
    ASSUME IInv, ChainInv(s, pc), TakePreviousLiteral
    PROVE  ChainInv(s', pc')
<1> DEFINE v == TallyPrevious(s)
           w == [s EXCEPT !.match_available = TRUE]
           a == Advance(v)
           b == Advance(w)
<1>1. /\ (s.match_available /\ s' = a) \/ s' = b
      /\ pc' \in { "flush", "top" } /\ pc = "decide"
  BY Zenon DEF TakePreviousLiteral, EndTurn
<1>2. /\ Shape(s) /\ s \in DState /\ s.lookahead > 0
      /\ s.match_available => s.strstart >= 1 /\ s.strstart <= WindowSize
  <2>1. SInv(s, pc) /\ s.strstart \in Nat /\ s.lookahead \in Nat
    BY Fields DEF IInv, SInv, Shape
  <2> QED
    <3>1. Shape(s) /\ s \in DState
      BY <2>1 DEF SInv, Shape
    <3>2. s.lookahead > 0
      BY <1>1, <2>1 DEF SInv, TurnMode, Turning
    <3>3. s.match_available => s.strstart >= 1
        BY <2>1 DEF SInv, Shape
    <3>4. s.strstart <= WindowSize
      BY <2>1, <3>1, Sizes DEF Shape
    <3> QED
      BY <3>1, <3>2, <3>3, <3>4
<1>3. CASE s.match_available /\ s' = a
  <2>1. v \in DState /\ Tallied(v, s)
    BY <1>2, <1>3, TallyPreviousIs
  <2> HIDE DEF v
  <2>2. OneOn(a, v)
    BY <1>2, <2>1, AdvanceIs DEF Tallied
  <2> HIDE DEF a
  <2>3. /\ a.level = s.level /\ a.window = s.window /\ a.head = s.head /\ a.prev = s.prev
        /\ a.ins_h = s.ins_h /\ a.strstart = s.strstart + 1 /\ a.lookahead = s.lookahead - 1
    BY <2>1, <2>2 DEF OneOn, Tallied
  <2>4. ChainInv(a, pc')
    BY <1>1, <1>2, <2>3, OneOnChains
  <2> QED
    BY <1>3, <2>4
<1>4. CASE s' = b
  <2>1. w \in DState
    BY <1>2 DEF DState
  <2>2. /\ w.level = s.level /\ w.window = s.window /\ w.head = s.head /\ w.prev = s.prev
        /\ w.ins_h = s.ins_h /\ w.strstart = s.strstart /\ w.lookahead = s.lookahead
    OBVIOUS
  <2> HIDE DEF w
  <2>3. OneOn(b, w)
    BY <1>2, <2>1, <2>2, AdvanceIs
  <2> HIDE DEF b
  <2>4. /\ b.level = s.level /\ b.window = s.window /\ b.head = s.head /\ b.prev = s.prev
        /\ b.ins_h = s.ins_h /\ b.strstart = s.strstart + 1 /\ b.lookahead = s.lookahead - 1
    BY <2>2, <2>3 DEF OneOn
  <2>5. ChainInv(b, pc')
    BY <1>1, <1>2, <2>4, OneOnChains
  <2> QED
    BY <1>4, <2>5
<1> QED
  BY <1>1, <1>3, <1>4

-----------------------------------------------------------------------------
\* At every step.
LEMMA NextChains == IInv /\ ChainInv(s, pc) /\ [Next]_vars => ChainInv(s, pc)'
<1> SUFFICES ASSUME IInv, ChainInv(s, pc), [Next]_vars PROVE ChainInv(s', pc')
  OBVIOUS
<1>1. CASE Outside
  BY <1>1, OutsideKeepsChains
<1>2. CASE FillWindow
  BY <1>2, FillKeepsChains
<1>3. CASE TurnStored
  BY <1>3, TurnStoredKeepsChains
<1>4. CASE Insert
  BY <1>4, InsertKeepsChains
<1>5. CASE Search
  BY <1>5, SearchKeepsChains
<1>6. CASE TakeMatch
  BY <1>6, TakeMatchKeepsChains
<1>7. CASE TakeLiteral
  BY <1>7, TakeLiteralKeepsChains
<1>8. CASE TakePreviousMatch
  BY <1>8, TakePreviousMatchKeepsChains
<1>9. CASE TakePreviousLiteral
  BY <1>9, TakePreviousLiteralKeepsChains
<1>10. CASE UNCHANGED vars
  BY <1>10 DEF vars
<1> QED
  BY <1>1, <1>2, <1>3, <1>4, <1>5, <1>6, <1>7, <1>8, <1>9, <1>10, Zenon DEF Next, System, Outside

\* What is near enough on a chain has its key.
LEMMA ChainsHold == IInv /\ ChainInv(s, pc) => ChainsShareKey
<1> SUFFICES ASSUME IInv, ChainInv(s, pc), NEW h \in DOMAIN s.head, NEW p \in Chain(h)
             PROVE  Key(p) = h /\ p <= s.strstart /\ s.prev[p % WSize] < p
  BY DEF ChainsShareKey
<1> DEFINE limit == IF s.strstart > MAX_DIST THEN s.strstart - MAX_DIST ELSE 0
           cur == Links(s, s.head[h], WSize)
           low == s.strstart - MAX_DIST
           top == Here(s, pc)
           end == s.strstart + s.lookahead
<1>1. s \in DState /\ s.strstart \in Nat /\ s.head \in Heads /\ s.lookahead \in Nat
  BY Fields DEF IInv, SInv, Shape
<1>2. h \in 0..(HashSize - 1) /\ s.head[h] \in Nat
  BY <1>1 DEF Heads
<1>3. PICK n \in 1..WSize : p = cur[n] /\ \A j \in 1..n : cur[j] > limit
  BY DEF Chain
<1>4. WSize \in Nat /\ low \in Int /\ limit \in Nat /\ limit >= low
  BY <1>1, Sizes
<1>5. PICK T : LinkedBy(s.window, s.head, s.prev, T, low, top, end)
  BY DEF ChainInv, Linked
<1> HIDE DEF limit, low, top, end
<1>6. \A k \in 1..WSize : cur[k] \in Nat
  BY <1>1, <1>2, <1>4, LinksAre
<1>7. \A k \in Nat : k > limit => Near(k, low)
  BY <1>4 DEF Near
<1>8. \A j \in 1..n : Near(cur[j], low)
  <2> HIDE DEF cur
  <2> SUFFICES ASSUME NEW j \in 1..n PROVE Near(cur[j], low)
    OBVIOUS
  <2>1. j \in 1..WSize
    BY <1>4
  <2> QED
    BY <1>3, <1>6, <1>7, <2>1
<1>9. cur[1] = s.head[h]
  <2>1. 1 \in 1..WSize
    BY <1>4
  <2> QED
    BY <1>1, <1>2, <1>4, <2>1, LinksAre
<1>10. s.head[h] \in T /\ KeyAt(s.window, s.head[h]) = h
  <2>1. 1 \in 1..n
    OBVIOUS
  <2>2. Near(s.head[h], low)
    BY <1>8, <1>9, <2>1, Zenon
  <2> QED
    BY <1>2, <1>5, <2>2 DEF LinkedBy
<1>11. cur[n] \in T /\ KeyAt(s.window, cur[n]) = KeyAt(s.window, s.head[h])
  <2>1. PICK q \in Nat, w \in Nat : q = s.head[h] /\ w = WSize
    BY <1>2, <1>4
  <2>2. cur = Links(s, q, w)
    BY <2>1
  <2>3. NearAll(cur, n, low)
    BY <1>8 DEF NearAll
  <2> HIDE DEF cur
  <2>4. n \in 1..w /\ q \in T
    BY <1>10, <2>1
  <2>5. cur[n] \in T /\ KeyAt(s.window, cur[n]) = KeyAt(s.window, q)
    <3>1. s \in DState /\ low \in Int /\ q \in Nat /\ w \in Nat
      BY <1>1, <1>4, <2>1
    <3>2. PICK lo \in Int : lo = low
      BY <3>1
    <3>3. /\ LinkedBy(s.window, s.head, s.prev, T, lo, top, end)
          /\ NearAll(cur, n, lo)
      BY <1>5, <2>3, <3>2, Zenon
    <3>4. PICK m \in 1..w : m = n
      BY <2>4
    <3>5. NearAll(cur, m, lo) /\ q \in T
      BY <2>4, <3>3, <3>4, Zenon
    <3>6. Followed(T, s.window, q, cur[m])
      BY <2>2, <3>1, <3>2, <3>3, <3>4, <3>5, ChainFollows, Zenon
    <3> QED
      BY <3>4, <3>6, Zenon DEF Followed
  <2> QED
    BY <2>1, <2>5
<1> HIDE DEF cur
<1>12. p \in T /\ Key(p) = h
  BY <1>3, <1>10, <1>11 DEF Key, KeyAt, KeyOf
<1>13. p \in Nat /\ p < top /\ s.prev[p % WSize] < p
  BY <1>5, <1>12 DEF LinkedBy, Slot
<1>14. p <= s.strstart
  <2>1. top \in { s.strstart, s.strstart + 1 }
    BY DEF top, Here
  <2> QED
    BY <1>1, <1>13, <2>1
<1> QED
  BY <1>12, <1>13, <1>14

\* The hash chains always lead to strings with the key of the chain, back in the window,
\* however often the window has slid and wherever the input ended: for every text, window
\* size and hash function that rolls.
THEOREM ChainsAreSound == Spec => []ChainsShareKey
<1>1. Init => ChainInv(s, pc)
  BY InitChains DEF Init
<1>2. Spec => [](IInv /\ ChainInv(s, pc))
  BY <1>1, InitInv, NextInv, NextChains, PTL DEF Spec
<1>3. Spec => []ChainsShareKey
  BY <1>2, ChainsHold, PTL
<1> QED
  BY <1>3

-----------------------------------------------------------------------------
(* Matches.                                                                *)

\* Behind the first pos bytes of q come the n bytes that come behind the first from.
Matches(q, pos, from, n) ==
    /\ 0 <= from /\ from < pos /\ pos + n <= Len(q)
    /\ \A i \in 1..n : q[pos + i] = q[from + i]

\* Which of the d bytes before a match its i-th byte repeats.
Which(d, i) == (i - 1) % d

LEMMA WhichType ==
    ASSUME NEW d \in Nat \ {0}, NEW i \in Nat \ {0}
    PROVE  Which(d, i) \in 0..(d - 1)
<1>1. i - 1 \in Nat
  OBVIOUS
<1> QED
  BY <1>1, DivMod DEF Which

LEMMA WhichFirst ==
    ASSUME NEW d \in Nat \ {0}, NEW i \in 1..d
    PROVE  Which(d, i) = i - 1
<1>1. i - 1 \in 0..(d - 1)
  OBVIOUS
<1> QED
  BY <1>1, ModSmall DEF Which

LEMMA WhichRound ==
    ASSUME NEW d \in Nat \ {0}, NEW i \in Nat \ {0}
    PROVE  Which(d, i + d) = Which(d, i)
<1>1. i - 1 \in Nat /\ d \in Nat /\ (i + d) - 1 = (i - 1) + d
  OBVIOUS
<1>2. d % d = 0
  BY ModSmall
<1>3. ((i - 1) + d) % d = (i - 1) % d
  BY <1>1, <1>2, ModAdd
<1> QED
  BY <1>1, <1>3 DEF Which

\* The n bytes behind pos go round in the d bytes behind from.
Round(q, pos, from, d, n) == \A i \in 1..n : q[pos + i] = q[from + 1 + Which(d, i)]

\* What is the same n bytes long goes round in the d bytes before it.
LEMMA MatchGoesRound ==
    ASSUME NEW q, NEW pos \in Nat, NEW from \in Nat, NEW d \in Nat \ {0}, pos = from + d,
           NEW n \in Nat, Matches(q, pos, from, n)
    PROVE  Round(q, pos, from, d, n)
<1>0. \A i \in 1..n : q[pos + i] = q[from + i]
  BY DEF Matches
<1> DEFINE T == { k \in Nat : \A i \in 1..n : i <= k => q[pos + i] = q[from + 1 + Which(d, i)] }
<1>1. 0 \in T
  OBVIOUS
<1>2. ASSUME NEW k \in Nat, k \in T PROVE k + 1 \in T
  <2> SUFFICES ASSUME k + 1 \in 1..n
               PROVE  q[pos + (k + 1)] = q[from + 1 + Which(d, k + 1)]
    <3>1. \A i \in 1..n : i <= k + 1 => i <= k \/ i = k + 1
      OBVIOUS
    <3> QED
      BY <1>2, <3>1
  <2>1. q[pos + (k + 1)] = q[from + (k + 1)]
    BY <1>0
  <2>2. CASE k + 1 <= d
    <3>1. k + 1 \in 1..d
      BY <2>2
    <3>2. Which(d, k + 1) = (k + 1) - 1
      BY <3>1, WhichFirst
    <3>3. from + 1 + ((k + 1) - 1) = from + (k + 1)
      OBVIOUS
    <3> QED
      BY <2>1, <3>2, <3>3
  <2>3. CASE k + 1 > d
    <3>1. PICK j \in Nat \ {0} : j = k + 1 - d
      BY <2>3
    <3>2. j \in 1..n /\ j <= k /\ k + 1 = j + d
      BY <3>1
    <3>3. q[pos + j] = q[from + 1 + Which(d, j)]
      BY <1>2, <3>2
    <3>4. Which(d, j + d) = Which(d, j)
      BY <3>1, WhichRound
    <3>5. from + (k + 1) = pos + j
      BY <3>1
    <3> QED
      BY <2>1, <3>2, <3>3, <3>4, <3>5
  <2> QED
    BY <2>2, <2>3
<1> HIDE DEF T
<1>3. Nat \subseteq T
  BY <1>1, <1>2, NatInductionInSet
<1>4. n \in T
  BY <1>3
<1> QED
  BY <1>4 DEF T, Round

\* The first n bytes.
Prefix(q, n) == SubSeq(q, 1, n)

LEMMA PrefixIs ==
    ASSUME NEW S, NEW q \in Seq(S), NEW n \in 0..Len(q)
    PROVE  /\ Prefix(q, n) \in Seq(S) /\ Len(Prefix(q, n)) = n
           /\ \A i \in 1..n : Prefix(q, n)[i] = q[i]
<1>1. SubSeq(q, 1, n) \in Seq(S) /\ Len(SubSeq(q, 1, n)) = n
  BY CutInTwo
<1>2. \A i \in 1..n : SubSeq(q, 1, n)[i] = q[i]
  <2>1. Len(q) \in Nat
    BY LenProperties
  <2> QED
    BY <2>1
<1> QED
  BY <1>1, <1>2 DEF Prefix

LEMMA PrefixNone ==
    ASSUME NEW S, NEW q \in Seq(S)
    PROVE  Prefix(q, 0) = << >> /\ Prefix(q, Len(q)) = q
<1>1. 0 \in 0..Len(q) /\ Len(q) \in 0..Len(q)
  BY LenProperties
<1>2. Len(Prefix(q, 0)) = 0 /\ Prefix(q, 0) \in Seq(S)
  BY <1>1, PrefixIs
<1>3. SubSeq(q, 1, Len(q)) = q
  OBVIOUS
<1> QED
  BY <1>2, <1>3, EmptySeq DEF Prefix

\* One byte more.
LEMMA PrefixMore ==
    ASSUME NEW S, NEW q \in Seq(S), NEW n \in Nat, n + 1 <= Len(q)
    PROVE  Prefix(q, n + 1) = Append(Prefix(q, n), q[n + 1]) /\ q[n + 1] \in S
<1>1. /\ n \in 0..Len(q) /\ n + 1 \in 0..Len(q) /\ n + 1 \in 1..Len(q) /\ Len(q) \in Nat
  BY LenProperties
<1> DEFINE a == Prefix(q, n)
           b == Prefix(q, n + 1)
<1>2. /\ a \in Seq(S) /\ Len(a) = n /\ \A i \in 1..n : a[i] = q[i]
      /\ b \in Seq(S) /\ Len(b) = n + 1 /\ \A i \in 1..(n + 1) : b[i] = q[i]
  BY <1>1, PrefixIs
<1>3. q[n + 1] \in S
  BY <1>1, ElementOfSeq
<1> HIDE DEF a, b
<1>4. b = Append(a, q[n + 1])
  BY <1>1, <1>2, <1>3
<1> QED
  BY <1>3, <1>4 DEF a, b

\* Several bytes more.
LEMMA PrefixCat ==
    ASSUME NEW S, NEW q \in Seq(S), NEW n \in Nat, NEW r \in Seq(S), n + Len(r) <= Len(q),
           \A i \in 1..Len(r) : q[n + i] = r[i]
    PROVE  Prefix(q, n + Len(r)) = Cat(Prefix(q, n), r)
<1> PICK m \in Nat : m = Len(r)
  BY LenProperties
<1>1. /\ n \in 0..Len(q) /\ n + m \in 0..Len(q) /\ Len(q) \in Nat
  BY LenProperties
<1> DEFINE a == Prefix(q, n)
           b == Prefix(q, n + m)
<1>2. /\ a \in Seq(S) /\ Len(a) = n /\ \A i \in 1..n : a[i] = q[i]
      /\ b \in Seq(S) /\ Len(b) = n + m /\ \A i \in 1..(n + m) : b[i] = q[i]
  BY <1>1, PrefixIs
<1> HIDE DEF a, b
<1> DEFINE c == Cat(a, r)
<1>3. /\ c \in Seq(S) /\ Len(c) = n + m
      /\ \A i \in 1..n : c[i] = a[i]
      /\ \A i \in 1..m : c[n + i] = r[i]
  <2>1. c = a \o r
    BY DEF Cat
  <2> HIDE DEF c
  <2>2. c \in Seq(S) /\ Len(c) = n + m
    BY <1>2, <2>1
  <2>3. \A i \in 1..n : c[i] = a[i]
    BY <1>2, <2>1, ConcatProperties, LenProperties, SMTT(30)
  <2>4. \A i \in 1..m : c[n + i] = r[i]
    BY <1>2, <2>1, ConcatProperties, LenProperties, SMTT(30)
  <2> QED
    BY <2>2, <2>3, <2>4
<1> HIDE DEF c
<1>4. \A i \in 1..(n + m) : b[i] = c[i]
  <2> SUFFICES ASSUME NEW i \in 1..(n + m) PROVE b[i] = c[i]
    OBVIOUS
  <2>1. CASE i <= n
    <3>1. i \in 1..n
      BY <2>1
    <3> QED
      BY <1>2, <1>3, <3>1, Zenon
  <2>2. CASE i > n
    <3>1. PICK j \in 1..m : i = n + j /\ i - n = j
      BY <2>2
    <3>2. q[n + j] = r[j]
      BY <3>1
    <3> QED
      BY <1>2, <1>3, <2>2, <3>1, <3>2
  <2> QED
    BY <2>1, <2>2
<1>5. b = c
  BY <1>2, <1>3, <1>4
<1> QED
  BY <1>5 DEF a, b, c

\* A longer sequence begins with the same bytes.
LEMMA PrefixOfCat ==
    ASSUME NEW S, NEW q \in Seq(S), NEW r \in Seq(S), NEW n \in 0..Len(q)
    PROVE  Prefix(Cat(q, r), n) = Prefix(q, n)
<1> DEFINE c == Cat(q, r)
<1>1. /\ c \in Seq(S) /\ Len(c) = Len(q) + Len(r) /\ Len(q) \in Nat /\ Len(r) \in Nat
      /\ \A i \in 1..Len(q) : c[i] = q[i]
  <2>1. c = q \o r
    BY DEF Cat
  <2> QED
    BY <2>1
<1> HIDE DEF c
<1>2. n \in 0..Len(c) /\ n \in Nat
  BY <1>1
<1> DEFINE a == Prefix(q, n)
           b == Prefix(c, n)
<1>3. /\ a \in Seq(S) /\ Len(a) = n /\ \A i \in 1..n : a[i] = q[i]
      /\ b \in Seq(S) /\ Len(b) = n /\ \A i \in 1..n : b[i] = c[i]
  <2>1. a \in Seq(S) /\ Len(a) = n /\ \A i \in 1..n : a[i] = q[i]
    BY PrefixIs
  <2>2. b \in Seq(S) /\ Len(b) = n /\ \A i \in 1..n : b[i] = c[i]
    BY <1>1, <1>2, PrefixIs
  <2> QED
    BY <2>1, <2>2
<1> HIDE DEF a, b
<1>4. \A i \in 1..n : a[i] = b[i]
  BY <1>1, <1>3
<1>5. a = b
  BY <1>3, <1>4
<1> QED
  BY <1>5 DEF a, b, c

\* To repeat a match gives the text behind it.
LEMMA MatchRepeats ==
    ASSUME NEW q \in Seq(Nat), NEW pos \in Nat, NEW from \in Int, NEW n \in Nat,
           Matches(q, pos, from, n)
    PROVE  /\ pos - from \in 1..pos
           /\ Prefix(q, pos + n) = Cat(Prefix(q, pos), Repeat(Prefix(q, pos), n, pos - from))
<1>0. /\ from \in Nat /\ from < pos /\ pos + n <= Len(q) /\ Len(q) \in Nat
      /\ \A i \in 1..n : q[pos + i] = q[from + i]
  BY LenProperties DEF Matches
<1>1. PICK d \in Nat \ {0} : d = pos - from /\ pos = from + d
  BY <1>0
<1>2. \A i \in 1..n : q[pos + i] = q[from + 1 + Which(d, i)]
  <2>1. PICK f \in Nat : f = from
    BY <1>0
  <2>2. pos = f + d /\ Matches(q, pos, f, n)
    BY <1>1, <2>1
  <2>3. Round(q, pos, f, d, n)
    BY <1>1, <2>1, <2>2, MatchGoesRound, Zenon
  <2> QED
    BY <2>1, <2>3 DEF Round
<1> DEFINE t == Prefix(q, pos)
<1>3. t \in Seq(Nat) /\ Len(t) = pos /\ \A i \in 1..pos : t[i] = q[i]
  <2>1. pos \in 0..Len(q)
    BY <1>0
  <2> QED
    BY <2>1, PrefixIs
<1> HIDE DEF t
<1> DEFINE r == Repeat(t, n, d)
<1>4. r = [i \in 1..n |-> t[Len(t) - d + 1 + Which(d, i)]]
  BY Zenon DEF Repeat, Which
<1>5. \A i \in 1..n : t[Len(t) - d + 1 + Which(d, i)] = q[pos + i] /\ q[pos + i] \in Nat
  <2> SUFFICES ASSUME NEW i \in 1..n
               PROVE  t[Len(t) - d + 1 + Which(d, i)] = q[pos + i] /\ q[pos + i] \in Nat
    OBVIOUS
  <2>1. PICK w \in 0..(d - 1) : w = Which(d, i)
    BY <1>1, WhichType, SMTT(30)
  <2>2. pos - d + 1 + w = from + 1 + w /\ from + 1 + w \in 1..pos /\ pos + i \in 1..Len(q)
    BY <1>0, <1>1
  <2>3. q[pos + i] = q[from + 1 + w]
    BY <1>2, <2>1
  <2>4. q[pos + i] \in Nat
    BY <2>2, ElementOfSeq
  <2> QED
    BY <1>3, <2>1, <2>2, <2>3, <2>4
<1> HIDE DEF r
<1>6. r \in Seq(Nat) /\ Len(r) = n /\ \A i \in 1..n : q[pos + i] = r[i]
  <2>1. \A i \in 1..n : r[i] = q[pos + i]
    BY <1>4, <1>5
  <2>2. r \in [1..n -> Nat]
    BY <1>4, <1>5
  <2> QED
    BY <2>1, <2>2
<1>7. Prefix(q, pos + n) = Cat(t, r)
  BY <1>0, <1>6, PrefixCat DEF t
<1> QED
  BY <1>0, <1>1, <1>7 DEF t, r

-----------------------------------------------------------------------------
(* What the items of a stream say.                                         *)

\* A state of the parser in a zlib stream.
At(at, text, n, last) == [at |-> at, text |-> text, n |-> n, last |-> last, gzip |-> FALSE]

\* What it does with the items deflate makes.
LEMMA ParseHead == ParseItem(Start, Simple("zlib")) = At("block", << >>, 0, FALSE)
BY DEF ParseItem, Start, Simple, Item, At

LEMMA ParseCodes ==
    ASSUME NEW text, NEW n, NEW last, NEW l
    PROVE  ParseItem(At("block", text, n, last), Codes(l)) = At("code", text, n, l)
BY DEF ParseItem, Codes, Item, At

LEMMA ParseStored ==
    ASSUME NEW text, NEW n, NEW last, NEW k, NEW l
    PROVE  ParseItem(At("block", text, n, last), Stored(k, l))
               = At(IF k > 0 THEN "raw" ELSE BlockEnd(l), text, k, l)
BY DEF ParseItem, Stored, Item, At

LEMMA ParseRaw ==
    ASSUME NEW text, NEW n, NEW last, NEW c
    PROVE  ParseItem(At("raw", text, n, last), RawByte(c))
               = At(IF n > 1 THEN "raw" ELSE BlockEnd(last), Append(text, c), n - 1, last)
BY DEF ParseItem, RawByte, Item, At

LEMMA ParseLit ==
    ASSUME NEW text, NEW n, NEW last, NEW c
    PROVE  ParseItem(At("code", text, n, last), Lit(c)) = At("code", Append(text, c), n, last)
BY DEF ParseItem, Lit, Item, At

LEMMA ParseLen ==
    ASSUME NEW text, NEW n, NEW last, NEW k
    PROVE  ParseItem(At("code", text, n, last), MatchLen(k)) = At("dist", text, k, last)
BY DEF ParseItem, MatchLen, Item, At

LEMMA ParseEob ==
    ASSUME NEW text, NEW n, NEW last
    PROVE  ParseItem(At("code", text, n, last), Simple("eob")) = At(BlockEnd(last), text, n, last)
BY DEF ParseItem, Simple, Item, At

LEMMA ParseDist ==
    ASSUME NEW text, NEW n, NEW last, NEW d, d <= Len(text)
    PROVE  ParseItem(At("dist", text, n, last), MatchDist(d))
               = At("code", Cat(text, Repeat(text, n, d)), n, last)
BY DEF ParseItem, MatchDist, Item, At, Cat

LEMMA ParseCheck ==
    ASSUME NEW text, NEW n, NEW last
    PROVE  ParseItem(At("check", text, n, last), Check(text)) = At("end", text, n, last)
BY DEF ParseItem, Check, Item, At

-----------------------------------------------------------------------------
(* Reading several items.                                                  *)

Parser == INSTANCE FoldLemmas WITH Op <- ParseItem

\* Where the parser is behind the items of e.
Run(p, e) == Parser!Fold(p, e)

LEMMA ParseIsRun ==
    ASSUME NEW e
    PROVE  Parse(e) = Run(Start, e)
BY DEF Parse, FoldLeft, MapThenFoldSet, Max, Run,
       Parser!Fold, Parser!MapThenFoldSet, Parser!Last

LEMMA RunNone ==
    ASSUME NEW p
    PROVE  Run(p, << >>) = p
BY Parser!FoldEmpty DEF Run

LEMMA RunOne ==
    ASSUME NEW p, NEW x
    PROVE  Run(p, << x >>) = ParseItem(p, x)
BY Parser!FoldOne DEF Run

LEMMA RunAppend ==
    ASSUME NEW p, NEW e \in Seq(Items), NEW x \in Items
    PROVE  Run(p, Append(e, x)) = ParseItem(Run(p, e), x)
BY Parser!FoldAppend DEF Run

LEMMA RunCat ==
    ASSUME NEW p, NEW e \in Seq(Items), NEW f \in Seq(Items)
    PROVE  Run(p, Cat(e, f)) = Run(Run(p, e), f)
BY Parser!FoldConcat DEF Run, Cat

\* Behind e the text is there, and at is what comes next.
Says(e, at, text) ==
    \E n \in Int, last \in BOOLEAN : Run(Start, e) = At(at, text, n, last)

\* In a coded block, the symbols say what the first b bytes of q have and the first a have not.
SymbolsSay(q, sym, a, b) ==
    \A n \in Int, last \in BOOLEAN : \E m \in Int :
        Run(At("code", Prefix(q, a), n, last), FlattenSeq(sym)) = At("code", Prefix(q, b), m, last)

\* No symbol says nothing.
LEMMA SymbolsNone ==
    ASSUME NEW q, NEW a
    PROVE  SymbolsSay(q, << >>, a, a)
BY FlattenEmpty, RunNone DEF SymbolsSay

\* More text does not change that.
LEMMA SymbolsStay ==
    ASSUME NEW S, NEW q \in Seq(S), NEW r \in Seq(S), NEW sym, NEW a \in 0..Len(q), NEW b \in 0..Len(q),
           SymbolsSay(q, sym, a, b)
    PROVE  SymbolsSay(Cat(q, r), sym, a, b)
<1>1. Prefix(Cat(q, r), a) = Prefix(q, a)
  BY PrefixOfCat
<1>2. Prefix(Cat(q, r), b) = Prefix(q, b)
  BY PrefixOfCat
<1> QED
  BY <1>1, <1>2, Zenon DEF SymbolsSay

\* A literal says the next byte.
LEMMA SymbolsLit ==
    ASSUME NEW q \in Seq(Nat), NEW sym \in Seq(Seq(Items)), NEW a, NEW b \in Nat,
           SymbolsSay(q, sym, a, b), b + 1 <= Len(q)
    PROVE  SymbolsSay(q, Append(sym, << Lit(q[b + 1]) >>), a, b + 1)
<1> DEFINE c == q[b + 1]
           x == Lit(c)
           f == FlattenSeq(sym)
<1>1. Prefix(q, b + 1) = Append(Prefix(q, b), c) /\ c \in Nat
  BY PrefixMore
<1>2. x \in Items
  BY <1>1, ItemTypes, Zenon
<1>3. f \in Seq(Items)
  BY FlattenType
<1> HIDE DEF c, x, f
<1>4. FlattenSeq(Append(sym, << x >>)) = Append(f, x)
  <2>1. << x >> \in Seq(Items)
    BY <1>2
  <2>2. FlattenSeq(Append(sym, << x >>)) = Cat(f, << x >>)
    BY <1>3, <2>1, FlattenAppend DEF f
  <2>3. Cat(f, << x >>) = Append(f, x)
    BY <1>2, <1>3 DEF Cat
  <2> QED
    BY <2>2, <2>3
<1> SUFFICES SymbolsSay(q, Append(sym, << x >>), a, b + 1)
  BY Zenon DEF c, x
<1> SUFFICES ASSUME NEW n \in Int, NEW last \in BOOLEAN
             PROVE  \E m \in Int : Run(At("code", Prefix(q, a), n, last),
                                       FlattenSeq(Append(sym, << x >>)))
                                     = At("code", Prefix(q, b + 1), m, last)
  BY Zenon DEF SymbolsSay
<1> SUFFICES \E m \in Int : Run(At("code", Prefix(q, a), n, last), Append(f, x))
                              = At("code", Prefix(q, b + 1), m, last)
  BY <1>4, Zenon
<1>5. PICK m \in Int : Run(At("code", Prefix(q, a), n, last), f) = At("code", Prefix(q, b), m, last)
  BY Zenon DEF SymbolsSay, f
<1>6. Run(At("code", Prefix(q, a), n, last), Append(f, x)) = ParseItem(At("code", Prefix(q, b), m, last), x)
  BY <1>2, <1>3, <1>5, RunAppend, Zenon
<1>7. ParseItem(At("code", Prefix(q, b), m, last), x) = At("code", Prefix(q, b + 1), m, last)
  <2>1. ParseItem(At("code", Prefix(q, b), m, last), Lit(c))
            = At("code", Append(Prefix(q, b), c), m, last)
    BY ParseLit
  <2> QED
    BY <1>1, <2>1, Zenon DEF x
<1> QED
  BY <1>5, <1>6, <1>7, Zenon

\* A match says len bytes.
LEMMA SymbolsMatch ==
    ASSUME NEW q \in Seq(Nat), NEW sym \in Seq(Seq(Items)), NEW a, NEW b \in Nat, NEW len \in Nat,
           NEW from \in Int, SymbolsSay(q, sym, a, b), Matches(q, b, from, len)
    PROVE  SymbolsSay(q, Append(sym, << MatchLen(len), MatchDist(b - from) >>), a, b + len)
<1> DEFINE d == b - from
           x == MatchLen(len)
           y == MatchDist(d)
           f == FlattenSeq(sym)
           t == Prefix(q, b)
<1>1. d \in 1..b /\ Prefix(q, b + len) = Cat(t, Repeat(t, len, d))
  BY MatchRepeats
<1>2. d <= Len(t)
  <2>1. b \in 0..Len(q)
    BY LenProperties DEF Matches
  <2>2. Len(t) = b
    BY <2>1, PrefixIs
  <2> QED
    BY <1>1, <2>2
<1>3. x \in Items /\ y \in Items
  BY <1>1, ItemTypes
<1>4. f \in Seq(Items)
  BY FlattenType
<1> HIDE DEF d, x, y, f, t
<1>5. FlattenSeq(Append(sym, << x, y >>)) = Append(Append(f, x), y)
  <2>1. << x, y >> \in Seq(Items)
    BY <1>3
  <2>2. FlattenSeq(Append(sym, << x, y >>)) = Cat(f, << x, y >>)
    BY <1>4, <2>1, FlattenAppend DEF f
  <2>3. Cat(f, << x, y >>) = Append(Append(f, x), y)
    BY <1>3, <1>4 DEF Cat
  <2> QED
    BY <2>2, <2>3
<1>6. ASSUME NEW n \in Int, NEW last \in BOOLEAN
      PROVE  \E m \in Int : Run(At("code", Prefix(q, a), n, last), Append(Append(f, x), y))
                               = At("code", Prefix(q, b + len), m, last)
  <2>1. PICK m \in Int : Run(At("code", Prefix(q, a), n, last), f) = At("code", t, m, last)
    BY Zenon DEF SymbolsSay, f, t
  <2>2. Run(At("code", Prefix(q, a), n, last), Append(f, x)) = At("dist", t, len, last)
    <3>1. Run(At("code", Prefix(q, a), n, last), Append(f, x)) = ParseItem(At("code", t, m, last), x)
      BY <1>3, <1>4, <2>1, RunAppend, Zenon
    <3>2. ParseItem(At("code", t, m, last), x) = At("dist", t, len, last)
      BY ParseLen, Zenon DEF x
    <3> QED
      BY <3>1, <3>2
  <2>3. Append(f, x) \in Seq(Items)
    BY <1>3, <1>4, AppendProperties
  <2>4. Run(At("code", Prefix(q, a), n, last), Append(Append(f, x), y)) = At("code", Prefix(q, b + len), len, last)
    <3>1. Run(At("code", Prefix(q, a), n, last), Append(Append(f, x), y))
              = ParseItem(At("dist", t, len, last), y)
      BY <1>3, <2>2, <2>3, RunAppend, Zenon
    <3>2. ParseItem(At("dist", t, len, last), y) = At("code", Cat(t, Repeat(t, len, d)), len, last)
      <4>1. y = MatchDist(d)
        BY DEF y
      <4> QED
        BY <1>2, <4>1, ParseDist
    <3> QED
      BY <1>1, <3>1, <3>2, Zenon
  <2>5. len \in Int
    OBVIOUS
  <2> QED
    BY <2>4, <2>5, Zenon
<1> DEFINE w == Append(sym, << MatchLen(len), MatchDist(b - from) >>)
<1>7. FlattenSeq(w) = Append(Append(f, x), y)
  <2>1. w = Append(sym, << x, y >>)
    BY DEF d, x, y
  <2> HIDE DEF w
  <2> QED
    BY <1>5, <2>1
<1> HIDE DEF w
<1>8. SymbolsSay(q, w, a, b + len)
  BY <1>6, <1>7 DEF SymbolsSay
<1> QED
  BY <1>8 DEF w

\* A coded block says what its symbols say.
LEMMA CodedSays ==
    ASSUME NEW e \in Seq(Items), NEW q \in Seq(Nat), NEW t \in DState, NEW a, NEW b, NEW last \in BOOLEAN,
           Says(e, "block", Prefix(q, a)), SymbolsSay(q, t.sym, a, b)
    PROVE  Says(Cat(e, Coded(t, last)), BlockEnd(last), Prefix(q, b))
<1> DEFINE f == FlattenSeq(t.sym)
           h == << Codes(last) >>
           z == << Simple("eob") >>
<1>1. PICK n \in Int, l \in BOOLEAN : Run(Start, e) = At("block", Prefix(q, a), n, l)
  BY Zenon DEF Says
<1>2. f \in Seq(Items) /\ Codes(last) \in Items /\ Simple("eob") \in Items
  BY Fields, FlattenType, ItemTypes
<1>3. h \in Seq(Items) /\ z \in Seq(Items)
  <2> DEFINE x == Codes(last)
             y == Simple("eob")
  <2>1. x \in Items /\ y \in Items
    BY <1>2
  <2> HIDE DEF x, y
  <2>2. << x >> \in Seq(Items) /\ << y >> \in Seq(Items)
    BY <2>1
  <2> QED
    BY <2>2 DEF x, y
<1>4. PICK m \in Int : Run(At("code", Prefix(q, a), n, last), f) = At("code", Prefix(q, b), m, last)
  BY Zenon DEF SymbolsSay
<1>5. Run(At("block", Prefix(q, a), n, l), h) = At("code", Prefix(q, a), n, last)
  <2>1. Run(At("block", Prefix(q, a), n, l), h)
            = ParseItem(At("block", Prefix(q, a), n, l), Codes(last))
    BY RunOne, Zenon
  <2>2. ParseItem(At("block", Prefix(q, a), n, l), Codes(last)) = At("code", Prefix(q, a), n, last)
    BY ParseCodes, Zenon
  <2> QED
    BY <2>1, <2>2, Zenon
<1>6. Run(At("code", Prefix(q, b), m, last), z) = At(BlockEnd(last), Prefix(q, b), m, last)
  BY RunOne, ParseEob, Zenon DEF z
<1> HIDE DEF f, h, z
<1>7. Cat(h, f) \in Seq(Items) /\ Cat(Cat(h, f), z) \in Seq(Items)
  BY <1>2, <1>3, CatType
<1>8. Run(Start, Cat(e, Cat(Cat(h, f), z)))
        = Run(Run(Run(At("block", Prefix(q, a), n, l), h), f), z)
  <2>1. Run(Start, Cat(e, Cat(Cat(h, f), z))) = Run(Run(Start, e), Cat(Cat(h, f), z))
    BY <1>7, RunCat, Zenon
  <2>2. \A p : Run(p, Cat(Cat(h, f), z)) = Run(Run(p, Cat(h, f)), z)
    BY <1>3, <1>7, RunCat, Zenon
  <2>3. \A p : Run(p, Cat(h, f)) = Run(Run(p, h), f)
    BY <1>2, <1>3, RunCat, Zenon
  <2> QED
    BY <1>1, <2>1, <2>2, <2>3, Zenon
<1>9. Run(Start, Cat(e, Cat(Cat(h, f), z))) = At(BlockEnd(last), Prefix(q, b), m, last)
  BY <1>4, <1>5, <1>6, <1>8, Zenon
<1> QED
  BY <1>9, Zenon DEF Says, Coded, f, h, z

-----------------------------------------------------------------------------
(* Stored blocks.                                                          *)

\* The n bytes from the start of the block on are those of q behind the first a.
Stands(t, q, a, n) ==
    /\ a \in Nat /\ a + n <= Len(q) /\ t.block_start >= 0 /\ t.block_start + n <= WindowSize
    /\ \A i \in 1..n : t.window[t.block_start + i - 1] = q[a + i]

LEMMA RawsStep ==
    ASSUME NEW t \in DState, NEW k \in Nat, t.block_start >= 0, t.block_start + (k + 1) <= WindowSize
    PROVE  /\ Raws(t, k) \in Seq(Bytes)
           /\ Raws(t, k + 1) = Append(Raws(t, k), << RawByte(t.window[t.block_start + k]) >>)
<1> DEFINE r == Raws(t, k)
           u == Raws(t, k + 1)
           f(i) == << RawByte(t.window[t.block_start + i - 1]) >>
           x == << RawByte(t.window[t.block_start + k]) >>
<1>0. t.block_start \in Int /\ WindowSize \in Nat /\ t.block_start + k <= WindowSize
  BY Fields, Sizes
<1>1. r \in Seq(Bytes) /\ u \in Seq(Bytes)
  BY <1>0, RawsType
<1>2. r = [i \in 1..k |-> f(i)] /\ u = [i \in 1..(k + 1) |-> f(i)]
  BY Zenon DEF Raws
<1>3. x = f(k + 1)
  <2>1. t.block_start + (k + 1) - 1 = t.block_start + k
    BY <1>0
  <2> QED
    BY <2>1
<1> HIDE DEF r, u, f, x
<1> DEFINE B == Bytes
<1>4. r \in Seq(B) /\ u \in Seq(B)
  BY <1>1
<1> HIDE DEF B
<1>5. Len(r) = k /\ Len(u) = k + 1
  BY <1>2
<1>6. u[k + 1] \in B
  BY <1>4, <1>5, ElementOfSeq
<1>7. u = Append(r, u[k + 1])
  BY <1>2, <1>4, <1>5, <1>6
<1>8. u[k + 1] = x
  BY <1>2, <1>3
<1> QED
  BY <1>1, <1>7, <1>8 DEF r, u, x

\* Its bytes one after the other say those of the text.
LEMMA RawsSay ==
    ASSUME NEW t \in DState, NEW q \in Seq(Nat), NEW a \in Nat, NEW n \in Nat \ {0},
           Stands(t, q, a, n), NEW last \in BOOLEAN, NEW k \in 0..n
    PROVE  Run(At("raw", Prefix(q, a), n, last), FlattenSeq(Raws(t, k)))
               = At(IF k < n THEN "raw" ELSE BlockEnd(last), Prefix(q, a + k), n - k, last)
<1> DEFINE p == At("raw", Prefix(q, a), n, last)
           at(j) == IF j < n THEN "raw" ELSE BlockEnd(last)
           T == { j \in Nat : j <= n => Run(p, FlattenSeq(Raws(t, j)))
                                            = At(at(j), Prefix(q, a + j), n - j, last) }
<1>0. /\ t.block_start \in Int /\ WindowSize \in Nat /\ t.block_start >= 0
      /\ t.block_start + n <= WindowSize /\ a + n <= Len(q) /\ Len(q) \in Nat
      /\ \A i \in 1..n : t.window[t.block_start + i - 1] = q[a + i]
  BY Fields, Sizes, LenProperties DEF Stands
<1>1. 0 \in T
  <2>1. Raws(t, 0) = << >>
    BY DEF Raws
  <2>2. Run(p, FlattenSeq(Raws(t, 0))) = p
    BY <2>1, FlattenEmpty, RunNone
  <2>3. p = At("raw", Prefix(q, a + 0), n - 0, last) /\ at(0) = "raw"
    OBVIOUS
  <2> HIDE DEF p, at
  <2> QED
    BY <2>2, <2>3
<1>2. ASSUME NEW j \in Nat, j \in T PROVE j + 1 \in T
  <2> SUFFICES ASSUME j + 1 <= n
               PROVE  Run(p, FlattenSeq(Raws(t, j + 1)))
                          = At(at(j + 1), Prefix(q, a + (j + 1)), n - (j + 1), last)
    OBVIOUS
  <2> DEFINE c == t.window[t.block_start + j]
             x == RawByte(c)
             r == Raws(t, j)
             f == FlattenSeq(r)
  <2>1. Run(p, f) = At("raw", Prefix(q, a + j), n - j, last)
    <3>1. j <= n /\ j < n
      OBVIOUS
    <3> QED
      BY <1>2, <3>1
  <2>2. c = q[(a + j) + 1]
    <3>1. j + 1 \in 1..n /\ t.block_start + (j + 1) - 1 = t.block_start + j
          /\ a + (j + 1) = (a + j) + 1
      BY <1>0
    <3> QED
      BY <1>0, <3>1
  <2>3. Prefix(q, (a + j) + 1) = Append(Prefix(q, a + j), q[(a + j) + 1]) /\ q[(a + j) + 1] \in Nat
    <3>1. a + j \in Nat /\ (a + j) + 1 <= Len(q)
      BY <1>0
    <3> QED
      BY <3>1, PrefixMore
  <2>4. x \in Items
    BY <2>2, <2>3, ItemTypes
  <2>5. r \in Seq(Bytes) /\ Raws(t, j + 1) = Append(r, << x >>)
    <3>1. t.block_start + (j + 1) <= WindowSize
      <4> DEFINE z == t.block_start
      <4>1. z \in Int /\ WindowSize \in Nat /\ z + n <= WindowSize
        BY <1>0
      <4> HIDE DEF z
      <4>2. z + (j + 1) <= WindowSize
        BY <4>1
      <4> QED
        BY <4>2 DEF z
    <3> QED
      BY <1>0, <3>1, RawsStep
  <2> HIDE DEF p, at, T, c, x, r, f
  <2>6. FlattenSeq(Raws(t, j + 1)) = Append(f, x) /\ f \in Seq(Items)
    <3>1. r \in Seq(Seq(Items))
      BY <2>5 DEF Bytes
    <3>2. f \in Seq(Items)
      BY <3>1, FlattenType DEF f
    <3>3. << x >> \in Seq(Items)
      BY <2>4
    <3>4. FlattenSeq(Append(r, << x >>)) = Cat(f, << x >>)
      BY <3>1, <3>2, <3>3, FlattenAppend DEF f
    <3>5. Cat(f, << x >>) = Append(f, x)
      BY <2>4, <3>2 DEF Cat
    <3> QED
      BY <2>5, <3>2, <3>4, <3>5
  <2>7. Run(p, Append(f, x)) = ParseItem(At("raw", Prefix(q, a + j), n - j, last), x)
    BY <2>1, <2>4, <2>6, RunAppend, Zenon
  <2>8. ParseItem(At("raw", Prefix(q, a + j), n - j, last), x)
          = At(IF n - j > 1 THEN "raw" ELSE BlockEnd(last),
               Append(Prefix(q, a + j), c), (n - j) - 1, last)
    BY ParseRaw DEF x
  <2>9. (IF n - j > 1 THEN "raw" ELSE BlockEnd(last)) = at(j + 1)
        /\ (n - j) - 1 = n - (j + 1) /\ a + (j + 1) = (a + j) + 1
    BY DEF at
  <2> QED
    BY <2>2, <2>3, <2>6, <2>7, <2>8, <2>9
<1> HIDE DEF T
<1>3. Nat \subseteq T
  BY <1>1, <1>2, NatInductionInSet
<1>4. k \in T /\ k <= n
  BY <1>3
<1> QED
  BY <1>4 DEF T

\* A stored block says what stands in the window.
LEMMA StoredSays ==
    ASSUME NEW e \in Seq(Items), NEW q \in Seq(Nat), NEW t \in DState, NEW a \in Nat, NEW n \in Nat,
           NEW last \in BOOLEAN, Says(e, "block", Prefix(q, a)), Stands(t, q, a, n)
    PROVE  Says(Cat(Append(e, Stored(n, last)), FlattenSeq(Raws(t, n))),
                BlockEnd(last), Prefix(q, a + n))
<1> DEFINE x == Stored(n, last)
           r == FlattenSeq(Raws(t, n))
<1>1. PICK k \in Int, l \in BOOLEAN : Run(Start, e) = At("block", Prefix(q, a), k, l)
  BY Zenon DEF Says
<1>2. x \in Items /\ r \in Seq(Items)
  <2>1. x \in Items
    BY ItemTypes
  <2>2. Raws(t, n) \in Seq(Seq(Items))
    BY RawsType DEF Stands, Bytes
  <2> QED
    BY <2>1, <2>2, FlattenType
<1>3. ParseItem(At("block", Prefix(q, a), k, l), x)
          = At(IF n > 0 THEN "raw" ELSE BlockEnd(last), Prefix(q, a), n, last)
  BY ParseStored
<1> DEFINE p == ParseItem(At("block", Prefix(q, a), k, l), x)
<1>4. Run(Start, Cat(Append(e, x), r)) = Run(p, r)
  <2> HIDE DEF x, r, p
  <2>1. Append(e, x) \in Seq(Items)
    BY <1>2, AppendProperties
  <2>2. Run(Start, Append(e, x)) = p
    BY <1>1, <1>2, RunAppend, Zenon DEF p
  <2> QED
    BY <1>2, <2>1, <2>2, RunCat, Zenon
<1>5. \E m \in Int : Run(p, r) = At(BlockEnd(last), Prefix(q, a + n), m, last)
  <2>1. CASE n = 0
    <3>1. r = << >>
      <4>1. Raws(t, 0) = << >>
        BY DEF Raws
      <4> QED
        BY <2>1, <4>1, FlattenEmpty
    <3>2. Run(p, r) = p
      BY <3>1, RunNone
    <3>3. p = At(BlockEnd(last), Prefix(q, a), 0, last)
      BY <1>3, <2>1
    <3>4. a + n = a /\ 0 \in Int
      BY <2>1
    <3> HIDE DEF p, r
    <3> QED
      BY <3>2, <3>3, <3>4
  <2>2. CASE n # 0
    <3>1. n \in Nat \ {0} /\ n \in 0..n /\ n > 0 /\ n - n = 0 /\ ~(n < n)
      BY <2>2
    <3>2. p = At("raw", Prefix(q, a), n, last)
      BY <1>3, <3>1
    <3>3. Run(At("raw", Prefix(q, a), n, last), r) = At(BlockEnd(last), Prefix(q, a + n), 0, last)
      BY <3>1, RawsSay
    <3> HIDE DEF p, r
    <3> QED
      BY <3>2, <3>3
  <2> QED
    BY <2>1, <2>2
<1> HIDE DEF x, r, p
<1>6. PICK m \in Int : Run(Start, Cat(Append(e, x), r)) = At(BlockEnd(last), Prefix(q, a + n), m, last)
  BY <1>4, <1>5
<1> QED
  BY <1>6, Zenon DEF Says, x, r

-----------------------------------------------------------------------------
(* The items that have been made, of which front has been put out.         *)

Put(front, t) == Cat(FlattenSeq(Cat(front, t.pending)), t.bits)

LEMMA PutType ==
    ASSUME NEW front \in Seq(Bytes), NEW t \in DState
    PROVE  /\ Put(front, t) \in Seq(Items) /\ Cat(front, t.pending) \in Seq(Bytes)
           /\ FlattenSeq(Cat(front, t.pending)) \in Seq(Items)
<1>1. t.pending \in Seq(Bytes) /\ t.bits \in Seq(Items)
  BY Fields DEF Bytes
<1>2. Cat(front, t.pending) \in Seq(Bytes)
  BY <1>1, CatType
<1>3. FlattenSeq(Cat(front, t.pending)) \in Seq(Items)
  BY <1>2, FlattenType DEF Bytes
<1>4. Put(front, t) \in Seq(Items)
  BY <1>1, <1>3, CatType DEF Put
<1> QED
  BY <1>2, <1>3, <1>4

\* Bytes that are added behind the others add their items.
LEMMA FlattenMore ==
    ASSUME NEW front \in Seq(Bytes), NEW pe \in Seq(Bytes), NEW more \in Seq(Bytes)
    PROVE  FlattenSeq(Cat(front, Cat(pe, more))) = Cat(FlattenSeq(Cat(front, pe)), FlattenSeq(more))
<1>1. Cat(front, Cat(pe, more)) = Cat(Cat(front, pe), more)
  BY CatAssoc
<1>2. Cat(front, pe) \in Seq(Bytes)
  BY CatType
<1>3. FlattenSeq(Cat(Cat(front, pe), more)) = Cat(FlattenSeq(Cat(front, pe)), FlattenSeq(more))
  BY <1>2, FlattenConcat DEF Bytes
<1> QED
  BY <1>1, <1>3

LEMMA FlattenByte ==
    ASSUME NEW front \in Seq(Bytes), NEW pe \in Seq(Bytes), NEW b \in Bytes
    PROVE  FlattenSeq(Cat(front, Append(pe, b))) = Cat(FlattenSeq(Cat(front, pe)), b)
<1>1. Cat(front, Append(pe, b)) = Append(Cat(front, pe), b)
  BY CatAppend
<1>2. Cat(front, pe) \in Seq(Bytes)
  BY CatType
<1>3. FlattenSeq(Cat(front, pe)) \in Seq(Items)
  BY <1>2, FlattenType DEF Bytes
<1>4. FlattenSeq(Append(Cat(front, pe), b)) = Cat(FlattenSeq(Cat(front, pe)), b)
  BY <1>2, <1>3, FlattenAppend DEF Bytes
<1> QED
  BY <1>1, <1>4

LEMMA PairsStep ==
    ASSUME NEW all \in Seq(Items), NEW k \in Nat, 2 * (k + 1) <= Len(all)
    PROVE  Pairs(all, k + 1) = Append(Pairs(all, k), << all[2 * k + 1], all[2 * k + 2] >>)
<1> DEFINE r == Pairs(all, k)
           u == Pairs(all, k + 1)
           f(i) == << all[2 * i - 1], all[2 * i] >>
           x == << all[2 * k + 1], all[2 * k + 2] >>
<1>1. r \in Seq(Bytes) /\ u \in Seq(Bytes)
  <2>1. 2 * k <= Len(all)
    BY LenProperties
  <2> QED
    BY <2>1, PairsType
<1>2. r = [i \in 1..k |-> f(i)] /\ u = [i \in 1..(k + 1) |-> f(i)]
  BY Zenon DEF Pairs
<1>3. x = f(k + 1)
  <2>1. 2 * (k + 1) - 1 = 2 * k + 1 /\ 2 * (k + 1) = 2 * k + 2
    OBVIOUS
  <2> QED
    BY <2>1
<1> HIDE DEF r, u, f, x
<1> DEFINE B == Bytes
<1>4. r \in Seq(B) /\ u \in Seq(B)
  BY <1>1
<1> HIDE DEF B
<1>5. Len(r) = k /\ Len(u) = k + 1
  BY <1>2
<1>6. u[k + 1] \in B
  BY <1>4, <1>5, ElementOfSeq
<1>7. u = Append(r, u[k + 1])
  BY <1>2, <1>4, <1>5, <1>6
<1>8. u[k + 1] = x
  BY <1>2, <1>3
<1> QED
  BY <1>7, <1>8 DEF r, u, x

\* The bytes that send_bits completes are its items, but for the last if it is one too many.
LEMMA PairsAre ==
    ASSUME NEW all \in Seq(Items), NEW n \in Nat, 2 * n <= Len(all)
    PROVE  FlattenSeq(Pairs(all, n)) = SubSeq(all, 1, 2 * n)
<1> DEFINE T == { k \in Nat : k <= n => FlattenSeq(Pairs(all, k)) = Prefix(all, 2 * k) }
<1>0. Len(all) \in Nat
  BY LenProperties
<1>1. 0 \in T
  <2>1. Pairs(all, 0) = << >> /\ 2 * 0 = 0
    BY DEF Pairs
  <2>2. Prefix(all, 0) = << >>
    BY PrefixNone
  <2>3. FlattenSeq(<< >>) = << >>
    BY FlattenEmpty
  <2> QED
    BY <2>1, <2>2, <2>3
<1>2. ASSUME NEW k \in Nat, k \in T PROVE k + 1 \in T
  <2> SUFFICES ASSUME k + 1 <= n
               PROVE  FlattenSeq(Pairs(all, k + 1)) = Prefix(all, 2 * (k + 1))
    OBVIOUS
  <2> DEFINE r == Pairs(all, k)
             a == 2 * k
             x == all[a + 1]
             y == all[a + 2]
  <2>1. a \in Nat /\ a + 2 <= Len(all) /\ 2 * (k + 1) = a + 2 /\ a <= Len(all) /\ k <= n
    BY <1>0
  <2>2. FlattenSeq(r) = Prefix(all, a)
    BY <1>2, <2>1
  <2>3. Pairs(all, k + 1) = Append(r, << x, y >>)
    BY <2>1, PairsStep
  <2>4. r \in Seq(Bytes)
    BY <2>1, PairsType
  <2> HIDE DEF T, r, a, x, y
  <2>5. Prefix(all, a + 1) = Append(Prefix(all, a), x) /\ x \in Items
    BY <1>0, <2>1, PrefixMore DEF x
  <2>6. Prefix(all, a + 2) = Append(Prefix(all, a + 1), y) /\ y \in Items
    <3>1. PICK c \in Nat : c = a + 1 /\ c + 1 <= Len(all) /\ c + 1 = a + 2
      BY <1>0, <2>1
    <3>2. Prefix(all, c + 1) = Append(Prefix(all, c), all[c + 1]) /\ all[c + 1] \in Items
      BY <3>1, PrefixMore
    <3> QED
      BY <3>1, <3>2 DEF y
  <2>7. Prefix(all, a) \in Seq(Items)
    <3>1. a \in 0..Len(all)
      BY <1>0, <2>1
    <3> QED
      BY <3>1, PrefixIs
  <2>8. << x, y >> \in Seq(Items)
    BY <2>5, <2>6
  <2>9. FlattenSeq(Append(r, << x, y >>)) = Cat(FlattenSeq(r), << x, y >>)
    <3>1. r \in Seq(Seq(Items)) /\ FlattenSeq(r) \in Seq(Items)
      BY <2>2, <2>4, <2>7 DEF Bytes
    <3> QED
      BY <2>8, <3>1, FlattenAppend
  <2> DEFINE p == Prefix(all, a)
  <2> HIDE DEF p
  <2>10. Cat(p, << x, y >>) = Append(Append(p, x), y)
    <3>1. p \in Seq(Items)
      BY <2>7 DEF p
    <3> QED
      BY <2>5, <2>6, <3>1 DEF Cat
  <2> QED
    BY <2>1, <2>2, <2>3, <2>5, <2>6, <2>9, <2>10 DEF p
<1> HIDE DEF T
<1>3. Nat \subseteq T
  BY <1>1, <1>2, NatInductionInSet
<1>4. n \in T
  BY <1>3
<1> QED
  BY <1>4 DEF T, Prefix

\* send_bits puts its items behind the others.
LEMMA SendBitsPuts ==
    ASSUME NEW front \in Seq(Bytes), NEW t \in DState, NEW items \in Seq(Items)
    PROVE  Put(front, SendBits(t, items)) = Cat(Put(front, t), items)
<1> DEFINE all == Cat(t.bits, items)
           n == Len(all) \div 2
           u == SendBits(t, items)
           ps == Pairs(all, n)
           rest == SubSeq(all, 2 * n + 1, Len(all))
           a == FlattenSeq(Cat(front, t.pending))
<1>1. /\ all \in Seq(Items) /\ n \in Nat /\ 2 * n <= Len(all) /\ ps \in Seq(Bytes)
      /\ u.pending = Cat(t.pending, ps) /\ u.bits = rest
  BY SendBitsIs
<1>2. t.pending \in Seq(Bytes) /\ t.bits \in Seq(Items) /\ a \in Seq(Items)
  BY Fields, PutType DEF Bytes
<1> HIDE DEF u, n
<1>3. FlattenSeq(ps) = SubSeq(all, 1, 2 * n)
  BY <1>1, PairsAre
<1>4. /\ SubSeq(all, 1, 2 * n) \in Seq(Items) /\ rest \in Seq(Items)
      /\ all = Cat(SubSeq(all, 1, 2 * n), rest)
  <2> HIDE DEF all
  <2>1. PICK k \in Nat : k = 2 * n /\ k \in 0..Len(all)
    BY <1>1, LenProperties
  <2>2. /\ SubSeq(all, 1, k) \in Seq(Items) /\ SubSeq(all, k + 1, Len(all)) \in Seq(Items)
    BY <1>1, <2>1, CutInTwo
  <2>3. all = SubSeq(all, 1, k) \o SubSeq(all, k + 1, Len(all))
    BY <1>1, <2>1, CutInTwo
  <2> QED
    BY <2>1, <2>2, <2>3, Zenon DEF Cat
<1> DEFINE b == SubSeq(all, 1, 2 * n)
<1> HIDE DEF ps, rest, b, a
<1>5. FlattenSeq(Cat(front, u.pending)) = Cat(a, b)
  <2>1. FlattenSeq(Cat(front, Cat(t.pending, ps)))
            = Cat(FlattenSeq(Cat(front, t.pending)), FlattenSeq(ps))
    BY <1>1, <1>2, FlattenMore
  <2>2. FlattenSeq(ps) = b
    BY <1>3 DEF b
  <2>3. u.pending = Cat(t.pending, ps)
    BY <1>1
  <2> QED
    BY <2>1, <2>2, <2>3, Zenon DEF a
<1>6. Put(front, u) = Cat(Cat(a, b), rest)
  BY <1>1, <1>5 DEF Put
<1>7. Cat(Cat(a, b), rest) = Cat(a, Cat(b, rest))
  <2>1. b \in Seq(Items)
    BY <1>4 DEF b
  <2>2. a \in Seq(Items) /\ rest \in Seq(Items)
    BY <1>2, <1>4
  <2> QED
    BY <2>1, <2>2, CatAssoc
<1>8. Cat(a, Cat(t.bits, items)) = Cat(Cat(a, t.bits), items)
  BY <1>2, CatAssoc
<1>9. Cat(b, rest) = Cat(t.bits, items)
  BY <1>4 DEF b
<1> QED
  BY <1>6, <1>7, <1>8, <1>9 DEF Put, u, a

\* bi_windup puts nothing.
LEMMA WindUpPuts ==
    ASSUME NEW front \in Seq(Bytes), NEW t \in DState
    PROVE  Put(front, WindUp(t)) = Put(front, t)
<1> DEFINE u == WindUp(t)
<1>1. /\ u.bits = << >>
      /\ u.pending = IF t.bits = << >> THEN t.pending ELSE Append(t.pending, t.bits)
  BY WindUpIs
<1>2. t.pending \in Seq(Bytes) /\ t.bits \in Bytes
  BY Fields DEF Bytes
<1> HIDE DEF u
<1>3. CASE t.bits = << >>
  BY <1>1, <1>3 DEF Put, u
<1>4. CASE t.bits # << >>
  <2>1. FlattenSeq(Cat(front, u.pending)) = Cat(FlattenSeq(Cat(front, t.pending)), t.bits)
    BY <1>1, <1>2, <1>4, FlattenByte
  <2>2. Put(front, u) = Cat(Put(front, t), << >>)
    BY <1>1, <2>1 DEF Put
  <2>3. Cat(Put(front, t), << >>) = Put(front, t)
    BY PutType, CatEmpty
  <2> QED
    BY <2>2, <2>3 DEF u
<1> QED
  BY <1>3, <1>4

\* _tr_stored_block puts the header and the bytes of the block.
LEMMA StoredBlockPuts ==
    ASSUME NEW front \in Seq(Bytes), NEW t \in DState, NEW n \in Nat, NEW last \in BOOLEAN,
           t.block_start >= 0, t.block_start + n <= WindowSize
    PROVE  Put(front, StoredBlock(t, n, last))
               = Cat(Append(Put(front, t), Stored(n, last)), FlattenSeq(Raws(t, n)))
<1> DEFINE u == StoredBlock(t, n, last)
           x == Stored(n, last)
           b == Append(t.bits, x)
           r == Raws(t, n)
           pe == Append(t.pending, b)
           a == FlattenSeq(Cat(front, t.pending))
<1>1. u.bits = << >> /\ u.pending = Cat(pe, r)
  BY StoredBlockIs
<1>2. /\ t.pending \in Seq(Bytes) /\ t.bits \in Seq(Items) /\ x \in Items
      /\ r \in Seq(Bytes) /\ a \in Seq(Items)
  <2>1. x \in Items
    BY ItemTypes
  <2>2. r \in Seq(Bytes)
    BY RawsType
  <2> QED
    BY <2>1, <2>2, Fields, PutType DEF Bytes
<1>3. b \in Bytes
  BY <1>2, AppendProperties DEF Bytes
<1>4. pe \in Seq(Bytes)
  BY <1>2, <1>3, AppendProperties
<1> HIDE DEF u, x, r
<1>5. FlattenSeq(Cat(front, pe)) = Cat(a, b)
  BY <1>2, <1>3, FlattenByte
<1>6. Cat(a, b) = Append(Put(front, t), x)
  <2>1. Cat(a, Append(t.bits, x)) = Append(Cat(a, t.bits), x)
    BY <1>2, CatAppend
  <2> QED
    BY <2>1 DEF Put
<1> HIDE DEF pe, b, a
<1>7. FlattenSeq(Cat(front, u.pending)) = Cat(Append(Put(front, t), x), FlattenSeq(r))
  <2>1. FlattenSeq(Cat(front, Cat(pe, r))) = Cat(FlattenSeq(Cat(front, pe)), FlattenSeq(r))
    BY <1>2, <1>4, FlattenMore
  <2>2. u.pending = Cat(pe, r)
    BY <1>1
  <2> QED
    BY <1>5, <1>6, <2>1, <2>2, Zenon
<1>8. Put(front, u) = Cat(FlattenSeq(Cat(front, u.pending)), << >>)
  BY <1>1 DEF Put
<1>9. Cat(FlattenSeq(Cat(front, u.pending)), << >>) = FlattenSeq(Cat(front, u.pending))
  <2>1. FlattenSeq(Cat(front, u.pending)) \in Seq(Items)
    <3>1. u.pending \in Seq(Bytes)
      BY <1>1, <1>2, <1>4, CatType
    <3>2. Cat(front, u.pending) \in Seq(Bytes)
      BY <3>1, CatType
    <3> QED
      BY <3>2, FlattenType DEF Bytes
  <2> QED
    BY <2>1, CatEmpty
<1> QED
  BY <1>7, <1>8, <1>9 DEF u, x, r

-----------------------------------------------------------------------------
(* The invariant of the text: what the window, the match and the symbols   *)
(* say of the text read so far.                                            *)

\* Bytes, as far as the hash function tells them apart.
Hashable(q) == \A i \in 1..Len(q) : q[i] \in 0..(HashSize - 1)

\* How much of the text has left the window.
Off(t) == Len(t.adler) - (t.strstart + t.lookahead)

Und(t) == IF t.match_available THEN 1 ELSE 0

\* The window holds the end of the text.
WindowText(t) ==
    /\ Off(t) >= 0 /\ Off(t) + t.block_start >= 0
    /\ \A i \in 0..((t.strstart + t.lookahead) - 1) : t.window[i] = t.adler[Off(t) + i + 1]

\* If n bytes at p are a match, they are those at start.
MatchAt(t, p, start, n) == n >= 3 => Matches(t.adler, Off(t) + p, Off(t) + start, n)

\* The match at the byte before is taken.
Decided(t) == t.prev_length >= 3 /\ t.match_length <= t.prev_length

\* The matches that are remembered are in the text.
MatchText(t, p) ==
    /\ FuncOf(t) = "slow" =>
           /\ t.match_length >= 2
           /\ p = "search" => t.prev_length >= 2
           /\ ~Turning(p) => MatchAt(t, t.strstart - 1, t.match_start, t.match_length)
           /\ Turning(p) => MatchAt(t, t.strstart - 1, t.prev_match, t.prev_length)
    /\ p = "decide" /\ ~Decided(t) => MatchAt(t, t.strstart, t.match_start, t.match_length)

\* The symbols say what comes behind the last block.
SymText(t) ==
    FuncOf(t) # "stored" =>
        SymbolsSay(t.adler, t.sym, Off(t) + t.block_start, Off(t) + t.strstart - Und(t))

TextInv(t, p) == Hashable(t.adler) /\ WindowText(t) /\ MatchText(t, p) /\ SymText(t)

\* u has the text and the symbols of t.
TextAlike(u, t) ==
    /\ u.level = t.level /\ u.window = t.window
    /\ u.strstart = t.strstart /\ u.block_start = t.block_start /\ u.lookahead = t.lookahead
    /\ u.match_length = t.match_length /\ u.match_start = t.match_start
    /\ u.prev_length = t.prev_length /\ u.prev_match = t.prev_match
    /\ u.match_available = t.match_available
    /\ u.sym = t.sym /\ u.adler = t.adler

LEMMA TextAlikeKeeps ==
    ASSUME NEW t, NEW u, NEW p, TextInv(t, p), TextAlike(u, t)
    PROVE  TextInv(u, p)
<1>1. Off(u) = Off(t) /\ Und(u) = Und(t) /\ FuncOf(u) = FuncOf(t) /\ (Decided(u) <=> Decided(t))
  BY DEF TextAlike, Off, Und, FuncOf, Decided
<1>2. Hashable(u.adler) /\ WindowText(u)
  BY <1>1 DEF TextInv, TextAlike, WindowText
<1>3. MatchText(u, p)
  BY <1>1, Zenon DEF TextInv, TextAlike, MatchText, MatchAt
<1>4. SymText(u)
  BY <1>1, Zenon DEF TextInv, TextAlike, SymText
<1> QED
  BY <1>2, <1>3, <1>4 DEF TextInv

\* The types of what it speaks of.
LEMMA TextTypes ==
    ASSUME NEW t, Shape(t), WindowText(t)
    PROVE  /\ t \in DState /\ t.adler \in Seq(Nat) /\ Len(t.adler) \in Nat
           /\ t.strstart \in Nat /\ t.lookahead \in Nat /\ t.block_start \in Int
           /\ t.match_start \in Int /\ t.prev_match \in Int
           /\ t.match_length \in Nat /\ t.prev_length \in Nat
           /\ t.strstart + t.lookahead <= WindowSize /\ t.block_start <= t.strstart
           /\ Off(t) \in Nat /\ Off(t) + t.block_start \in Nat
           /\ Off(t) + t.strstart + t.lookahead = Len(t.adler)
<1>1. /\ t \in DState /\ t.adler \in Seq(Nat)
      /\ t.strstart \in Nat /\ t.lookahead \in Nat /\ t.block_start \in Int
      /\ t.match_start \in Int /\ t.prev_match \in Int
      /\ t.match_length \in Nat /\ t.prev_length \in Nat
      /\ t.strstart + t.lookahead <= WindowSize /\ t.block_start <= t.strstart
  BY Fields DEF Shape
<1>2. Len(t.adler) \in Nat
  BY <1>1, LenProperties
<1>3. Off(t) >= 0 /\ Off(t) + t.block_start >= 0
  BY DEF WindowText
<1>4. Off(t) \in Int /\ Off(t) + t.strstart + t.lookahead = Len(t.adler)
  BY <1>1, <1>2 DEF Off
<1>5. Off(t) \in Nat /\ Off(t) + t.block_start \in Nat
  BY <1>1, <1>3, <1>4
<1> QED
  BY <1>1, <1>2, <1>4, <1>5

\* A byte of the window that has been read.
LEMMA TextByte ==
    ASSUME NEW t, Shape(t), WindowText(t), Hashable(t.adler),
           NEW i \in Nat, i < t.strstart + t.lookahead
    PROVE  /\ t.window[i] = t.adler[Off(t) + i + 1]
           /\ t.window[i] \in 0..(HashSize - 1) /\ t.window[i] \in Nat
<1>1. /\ t.strstart \in Nat /\ t.lookahead \in Nat /\ Off(t) \in Nat
      /\ Off(t) + t.strstart + t.lookahead = Len(t.adler) /\ Len(t.adler) \in Nat
  BY TextTypes
<1>2. i \in 0..((t.strstart + t.lookahead) - 1) /\ Off(t) + i + 1 \in 1..Len(t.adler)
  <2> DEFINE k == t.strstart
             l == t.lookahead
             o == Off(t)
             n == Len(t.adler)
  <2>1. k \in Nat /\ l \in Nat /\ o \in Nat /\ o + k + l = n /\ n \in Nat /\ i < k + l
    BY <1>1
  <2> HIDE DEF k, l, o, n
  <2>2. i \in 0..((k + l) - 1) /\ o + i + 1 \in 1..n
    BY <2>1
  <2> QED
    BY <2>2 DEF k, l, o, n
<1>3. t.window[i] = t.adler[Off(t) + i + 1]
  BY <1>2 DEF WindowText
<1>4. t.adler[Off(t) + i + 1] \in 0..(HashSize - 1)
  BY <1>2 DEF Hashable
<1> QED
  BY <1>3, <1>4, Sizes

\* More text does not undo a match.
LEMMA MatchesStay ==
    ASSUME NEW S, NEW q \in Seq(S), NEW r \in Seq(S), NEW pos \in Int, NEW from \in Int,
           NEW n \in Nat, Matches(q, pos, from, n)
    PROVE  Matches(Cat(q, r), pos, from, n)
<1>1. /\ 0 <= from /\ from < pos /\ pos + n <= Len(q)
      /\ \A i \in 1..n : q[pos + i] = q[from + i]
  BY DEF Matches
<1>2. Len(q) \in Nat /\ Len(r) \in Nat /\ Len(Cat(q, r)) = Len(q) + Len(r)
  BY LenProperties, CatType
<1>3. \A i \in 1..Len(q) : Cat(q, r)[i] = q[i]
  BY ConcatProperties DEF Cat
<1>4. \A i \in 1..n : Cat(q, r)[pos + i] = Cat(q, r)[from + i]
  <2> SUFFICES ASSUME NEW i \in 1..n PROVE Cat(q, r)[pos + i] = Cat(q, r)[from + i]
    OBVIOUS
  <2>1. pos + i \in 1..Len(q) /\ from + i \in 1..Len(q)
    BY <1>1, <1>2
  <2> QED
    BY <1>1, <1>3, <2>1
<1> QED
  BY <1>1, <1>2, <1>4 DEF Matches

-----------------------------------------------------------------------------
(* The steps of fill_window.                                               *)

\* The window slides: the same text is where it was.
LEMMA SlideText ==
    ASSUME NEW t, Shape(t), NEW p, ~Turning(p), TextInv(t, p)
    PROVE  /\ TextInv(SlideIfNeeded(t), p)
           /\ Off(SlideIfNeeded(t)) + SlideIfNeeded(t).block_start = Off(t) + t.block_start
           /\ SlideIfNeeded(t).adler = t.adler
<1>0. WindowText(t) /\ Hashable(t.adler)
  BY DEF TextInv
<1>1. CASE ~(t.strstart >= WSize + MAX_DIST)
  BY <1>1 DEF SlideIfNeeded
<1>2. CASE t.strstart >= WSize + MAX_DIST
  <2> DEFINE u == Slide(t)
  <2>0. /\ t \in DState /\ t.strstart \in Nat /\ t.lookahead \in Nat /\ t.block_start \in Int
        /\ t.match_start \in Int /\ Off(t) \in Nat /\ Off(t) + t.block_start \in Nat
        /\ t.strstart + t.lookahead <= WindowSize /\ Len(t.adler) \in Nat
    BY <1>0, TextTypes
  <2>1. SlideIfNeeded(t) = u /\ t.strstart >= WSize
    BY <1>2, <2>0, Sizes DEF SlideIfNeeded
  <2>2. /\ u.window = [i \in 0..(WindowSize - 1) |->
                          IF i < WSize THEN t.window[i + WSize] ELSE t.window[i]]
        /\ u.strstart = t.strstart - WSize /\ u.lookahead = t.lookahead
        /\ u.block_start = t.block_start - WSize /\ u.match_start = t.match_start - WSize
    BY <2>0, <2>1, SlideIs, SlideKeeps
  <2>3. /\ u.level = t.level /\ u.match_length = t.match_length
        /\ u.match_available = t.match_available /\ u.sym = t.sym /\ u.adler = t.adler
    BY SlideKeeps
  <2> HIDE DEF u
  <2>4. /\ Off(u) = Off(t) + WSize /\ Off(u) + u.block_start = Off(t) + t.block_start
        /\ Off(u) + u.match_start = Off(t) + t.match_start
        /\ Off(u) + (u.strstart - 1) = Off(t) + (t.strstart - 1)
        /\ Off(u) + u.strstart - Und(u) = Off(t) + t.strstart - Und(t)
    <3>1. Und(u) = Und(t) /\ Und(t) \in Nat
      BY <2>3 DEF Und
    <3>2. Off(u) = Len(t.adler) - ((t.strstart - WSize) + t.lookahead)
      BY <2>2, <2>3 DEF Off
    <3>3. Off(t) = Len(t.adler) - (t.strstart + t.lookahead)
      BY DEF Off
    <3> DEFINE n == Len(t.adler)
               a == t.strstart
               la == t.lookahead
               b == t.block_start
               m == t.match_start
               o == Off(t)
               v == Off(u)
               d == Und(t)
    <3>4. /\ n \in Nat /\ a \in Nat /\ la \in Nat /\ b \in Int /\ m \in Int /\ d \in Nat
          /\ o = n - (a + la) /\ v = n - ((a - WSize) + la)
      BY <2>0, <3>1, <3>2, <3>3
    <3>5. /\ u.strstart = a - WSize /\ u.block_start = b - WSize /\ u.match_start = m - WSize
          /\ Und(u) = d
      BY <2>2, <3>1
    <3> HIDE DEF n, a, la, b, m, o, v, d
    <3>6. v = o + WSize
      BY <3>4, Sizes
    <3>7. /\ v + (b - WSize) = o + b /\ v + (m - WSize) = o + m
          /\ v + ((a - WSize) - 1) = o + (a - 1) /\ v + (a - WSize) - d = o + a - d
      BY <3>4, <3>6, Sizes
    <3> QED
      BY <3>5, <3>6, <3>7 DEF a, b, m, o, v, d
  <2>5. WindowText(u)
    <3>1. Off(u) >= 0 /\ Off(u) + u.block_start >= 0
      BY <2>0, <2>4, Sizes
    <3>2. ASSUME NEW i \in 0..((u.strstart + u.lookahead) - 1)
          PROVE  u.window[i] = u.adler[Off(u) + i + 1]
      <4>1. /\ i \in 0..(WindowSize - 1) /\ i < WSize
            /\ i + WSize \in 0..((t.strstart + t.lookahead) - 1)
        <5> DEFINE a == t.strstart
                   la == t.lookahead
        <5>1. /\ a \in Nat /\ la \in Nat /\ a + la <= WindowSize /\ i \in 0..(((a - WSize) + la) - 1)
          BY <2>0, <2>2, <3>2
        <5> HIDE DEF a, la
        <5>2. /\ i \in 0..(WindowSize - 1) /\ i < WSize /\ i + WSize \in 0..((a + la) - 1)
          BY <5>1, Sizes
        <5> QED
          BY <5>2 DEF a, la
      <4>2. u.window[i] = t.window[i + WSize]
        BY <2>2, <4>1
      <4>3. t.window[i + WSize] = t.adler[Off(t) + (i + WSize) + 1]
        BY <1>0, <4>1 DEF WindowText
      <4>4. Off(t) + (i + WSize) + 1 = Off(u) + i + 1
        BY <2>0, <2>4, <4>1, Sizes
      <4> QED
        BY <2>3, <4>2, <4>3, <4>4
    <3> QED
      BY <3>1, <3>2 DEF WindowText
  <2>6. FuncOf(u) = FuncOf(t)
    BY <2>3 DEF FuncOf
  <2>7. MatchText(u, p)
    <3>1. p # "decide" /\ p # "search"
      BY DEF Turning
    <3>2. FuncOf(t) = "slow" =>
             t.match_length >= 2 /\ MatchAt(t, t.strstart - 1, t.match_start, t.match_length)
      BY DEF TextInv, MatchText
    <3>3. FuncOf(t) = "slow" => MatchAt(u, u.strstart - 1, u.match_start, u.match_length)
      BY <2>3, <2>4, <3>2, Zenon DEF MatchAt
    <3> QED
      BY <2>3, <2>6, <3>1, <3>2, <3>3 DEF MatchText
  <2>8. SymText(u)
    BY <2>3, <2>4, <2>6, Zenon DEF TextInv, SymText
  <2>9. TextInv(u, p)
    BY <1>0, <2>3, <2>5, <2>7, <2>8 DEF TextInv
  <2> QED
    BY <2>1, <2>3, <2>4, <2>9
<1> QED
  BY <1>1, <1>2

\* More is read: the text gets longer.
LEMMA ReadText ==
    ASSUME NEW t, Shape(t), NEW data \in Seq(Nat), Hashable(data),
           t.strstart + t.lookahead + Len(data) <= WindowSize,
           NEW p, ~Turning(p), TextInv(t, p), NEW q, ~Turning(q)
    PROVE  /\ TextInv(ReadBuf(t, data), q)
           /\ Off(ReadBuf(t, data)) = Off(t)
           /\ ReadBuf(t, data).adler = Cat(t.adler, data)
<1> DEFINE u == ReadBuf(t, data)
           end == t.strstart + t.lookahead
           n == Len(data)
           k == Len(t.adler)
<1>0. WindowText(t) /\ Hashable(t.adler)
  BY DEF TextInv
<1>1. /\ t \in DState /\ t.adler \in Seq(Nat) /\ k \in Nat
      /\ t.strstart \in Nat /\ t.lookahead \in Nat /\ t.block_start \in Int
      /\ t.match_start \in Int /\ t.match_length \in Nat
      /\ t.strstart + t.lookahead <= WindowSize /\ t.block_start <= t.strstart
      /\ Off(t) \in Nat /\ Off(t) + t.block_start \in Nat
      /\ Off(t) + t.strstart + t.lookahead = k
  BY <1>0, TextTypes
<1>2. /\ u.window = [i \in 0..(WindowSize - 1) |->
                        IF i >= end /\ i < end + n THEN data[i - end + 1] ELSE t.window[i]]
      /\ u.lookahead = t.lookahead + n /\ u.adler = Cat(t.adler, data)
  BY <1>1, ReadBufIs
<1>3. /\ u.level = t.level /\ u.strstart = t.strstart /\ u.block_start = t.block_start
      /\ u.match_length = t.match_length /\ u.match_start = t.match_start
      /\ u.match_available = t.match_available /\ u.sym = t.sym
  BY ReadBufKeeps DEF Unread
<1> HIDE DEF u
<1>4. n \in Nat /\ Len(Cat(t.adler, data)) = k + n
  BY <1>1, LenProperties, CatType
<1>5. Off(u) = Off(t)
  <2> DEFINE a == t.strstart
             la == t.lookahead
  <2>1. Off(u) = (k + n) - (a + (la + n)) /\ Off(t) = k - (a + la)
    BY <1>2, <1>3, <1>4 DEF Off
  <2>2. a \in Nat /\ la \in Nat
    BY <1>1
  <2> HIDE DEF a, la, k, n
  <2>3. k \in Nat /\ n \in Nat
    BY <1>1, <1>4
  <2> QED
    BY <2>1, <2>2, <2>3
<1>6. \A i \in 1..(k + n) : /\ i <= k => u.adler[i] = t.adler[i]
                            /\ i > k => u.adler[i] = data[i - k]
  <2> SUFFICES ASSUME NEW i \in 1..(k + n)
               PROVE  /\ i <= k => u.adler[i] = t.adler[i]
                      /\ i > k => u.adler[i] = data[i - k]
    OBVIOUS
  <2>1. Cat(t.adler, data)[i] = IF i <= Len(t.adler) THEN t.adler[i] ELSE data[i - Len(t.adler)]
    BY <1>1, <1>4, ConcatProperties DEF Cat
  <2> QED
    BY <1>1, <1>2, <1>4, <2>1
<1>7. Hashable(u.adler)
  <2> SUFFICES ASSUME NEW i \in 1..(k + n) PROVE u.adler[i] \in 0..(HashSize - 1)
    BY <1>2, <1>4 DEF Hashable
  <2>1. CASE i <= k
    <3>1. i \in 1..Len(t.adler)
      BY <1>1, <2>1
    <3>2. t.adler[i] \in 0..(HashSize - 1)
      BY <1>0, <3>1 DEF Hashable
    <3> QED
      BY <1>6, <2>1, <3>2
  <2>2. CASE i > k
    <3>1. i - k \in 1..n
      BY <1>1, <1>4, <2>2
    <3> QED
      BY <1>6, <2>2, <3>1 DEF Hashable
  <2> QED
    BY <1>1, <1>4, <2>1, <2>2
<1>8. WindowText(u)
  <2> SUFFICES ASSUME NEW i \in 0..((u.strstart + u.lookahead) - 1)
               PROVE  u.window[i] = u.adler[Off(t) + i + 1]
    BY <1>1, <1>3, <1>5 DEF WindowText
  <2> DEFINE a == t.strstart
             la == t.lookahead
             o == Off(t)
  <2>0. /\ a \in Nat /\ la \in Nat /\ o \in Nat /\ o + a + la = k /\ end = a + la
        /\ a + la + n <= WindowSize /\ i \in 0..((a + (la + n)) - 1)
    BY <1>1, <1>2, <1>3
  <2>1. u.window[i] = IF i >= end /\ i < end + n THEN data[i - end + 1] ELSE t.window[i]
    <3>1. i \in 0..(WindowSize - 1)
      <4> HIDE DEF a, la, o, n
      <4> QED
        BY <1>4, <2>0, Sizes
    <3> QED
      BY <1>2, <3>1
  <2>2. CASE i < end
    <3>0. i \in 0..((t.strstart + t.lookahead) - 1)
      BY <2>0, <2>2
    <3>1. t.window[i] = t.adler[o + i + 1]
      BY <1>0, <3>0 DEF WindowText
    <3>2. o + i + 1 \in 1..(k + n) /\ o + i + 1 <= k
      <4> HIDE DEF a, la, o, n, k
      <4> QED
        BY <1>4, <2>0, <2>2
    <3>3. u.adler[o + i + 1] = t.adler[o + i + 1]
      BY <1>6, <3>2
    <3>4. ~(i >= end)
      BY <2>0, <2>2
    <3> QED
      BY <2>1, <3>1, <3>3, <3>4
  <2>3. CASE i >= end
    <3>1. o + i + 1 \in 1..(k + n) /\ o + i + 1 > k /\ (o + i + 1) - k = i - end + 1 /\ i < end + n
      <4>1. k \in Nat
        BY <1>1
      <4> HIDE DEF a, la, o, n, k, end
      <4> QED
        BY <1>4, <2>0, <2>3, <4>1
    <3> QED
      BY <1>6, <2>1, <2>3, <3>1
  <2> QED
    BY <2>0, <2>2, <2>3
<1>9. FuncOf(u) = FuncOf(t) /\ Und(u) = Und(t)
  BY <1>3 DEF FuncOf, Und
<1>10. MatchText(u, q)
  <2>1. q # "decide" /\ q # "search"
    BY DEF Turning
  <2>2. FuncOf(t) = "slow" =>
           t.match_length >= 2 /\ MatchAt(t, t.strstart - 1, t.match_start, t.match_length)
    BY DEF TextInv, MatchText
  <2>3. MatchAt(t, t.strstart - 1, t.match_start, t.match_length) =>
            MatchAt(u, u.strstart - 1, u.match_start, u.match_length)
    <3> SUFFICES ASSUME t.match_length >= 3,
                        Matches(t.adler, Off(t) + (t.strstart - 1), Off(t) + t.match_start,
                                t.match_length)
                 PROVE  Matches(Cat(t.adler, data), Off(t) + (t.strstart - 1),
                                Off(t) + t.match_start, t.match_length)
      BY <1>2, <1>3, <1>5 DEF MatchAt
    <3>1. Off(t) + (t.strstart - 1) \in Int /\ Off(t) + t.match_start \in Int
      <4> DEFINE o == Off(t)
                 x == t.strstart
                 y == t.match_start
      <4>1. o \in Nat /\ x \in Nat /\ y \in Int
        BY <1>1
      <4> HIDE DEF o, x, y
      <4>2. o + (x - 1) \in Int /\ o + y \in Int
        BY <4>1
      <4> QED
        BY <4>2 DEF o, x, y
    <3> QED
      BY <1>1, <3>1, MatchesStay
  <2> QED
    BY <1>3, <1>9, <2>1, <2>2, <2>3 DEF MatchText
<1>11. SymText(u)
  <2> DEFINE a == Off(t) + t.block_start
             b == Off(t) + t.strstart - Und(t)
  <2>1. FuncOf(t) # "stored" => SymbolsSay(t.adler, t.sym, a, b)
    BY DEF TextInv, SymText
  <2>2. a \in 0..Len(t.adler) /\ b \in 0..Len(t.adler)
    <3>1. t.match_available => t.strstart >= 1 /\ t.block_start < t.strstart
      BY DEF Shape
    <3>2. Und(t) \in { 0, 1 } /\ (Und(t) = 1 => t.strstart >= 1)
      BY <3>1 DEF Und
    <3> DEFINE x == t.strstart
               y == t.lookahead
               z == t.block_start
               o == Off(t)
               d == Und(t)
    <3>3. /\ x \in Nat /\ y \in Nat /\ z \in Int /\ o \in Nat /\ o + z \in Nat /\ z <= x
          /\ o + x + y = k /\ d \in { 0, 1 } /\ (d = 1 => x >= 1)
      BY <1>1, <3>2
    <3> HIDE DEF x, y, z, o, d
    <3>4. o + z \in 0..k /\ o + x - d \in 0..k
      BY <3>3
    <3> QED
      BY <3>4 DEF o, x, z, d
  <2> HIDE DEF a, b
  <2>3. FuncOf(t) # "stored" => SymbolsSay(Cat(t.adler, data), t.sym, a, b)
    BY <1>1, <2>1, <2>2, SymbolsStay
  <2> QED
    BY <1>2, <1>3, <1>5, <1>9, <2>3, Zenon DEF SymText, a, b
<1> QED
  BY <1>2, <1>5, <1>7, <1>8, <1>10, <1>11 DEF TextInv, u

-----------------------------------------------------------------------------
(* The search: what it finds is a match, the third byte included.          *)

\* Equal keys, and a common length of at least three bytes.
LEMMA KeysMatch ==
    ASSUME NEW t, Shape(t), WindowText(t), Hashable(t.adler), t.lookahead >= 3,
           NEW c \in Nat, c < t.strstart, KeyAt(t.window, c) = KeyAt(t.window, t.strstart),
           CommonLength(t, c) >= 3,
           NEW m \in Nat, m <= CommonLength(t, c), m <= t.lookahead
    PROVE  Matches(t.adler, Off(t) + t.strstart, Off(t) + c, m)
<1> DEFINE n == CommonLength(t, c)
           st == t.strstart
           la == t.lookahead
           o == Off(t)
           w == t.window
<1>1. /\ st \in Nat /\ la \in Nat /\ o \in Nat /\ o + st + la = Len(t.adler)
      /\ Len(t.adler) \in Nat /\ la >= 3
  BY TextTypes
<1>2. n \in Nat /\ \A i \in 0..(n - 1) : i # 2 => w[c + i] = w[st + i]
  BY CommonLengthIs, Sizes
<1>3. ASSUME NEW i \in Nat, i < st + la
      PROVE  w[i] = t.adler[o + i + 1] /\ w[i] \in 0..(HashSize - 1) /\ w[i] \in Nat
  BY <1>3, TextByte
<1>4. n >= 3 /\ m <= n /\ m <= la /\ c < st
  OBVIOUS
<1>5. KeyAt(w, c) = KeyAt(w, st)
  OBVIOUS
<1> HIDE DEF n, st, la, o, w
<1>6. w[c] = w[st] /\ w[c + 1] = w[st + 1]
  <2>1. 0 \in 0..(n - 1) /\ 1 \in 0..(n - 1) /\ c + 0 = c /\ st + 0 = st
    BY <1>1, <1>2, <1>4
  <2>2. w[c + 0] = w[st + 0] /\ w[c + 1] = w[st + 1]
    BY <1>2, <2>1
  <2> QED
    BY <2>1, <2>2
<1>7. w[c + 2] = w[st + 2]
  <2>1. /\ c \in Nat /\ c < st + la /\ c + 1 \in Nat /\ c + 1 < st + la
        /\ c + 2 \in Nat /\ c + 2 < st + la /\ st + 2 \in Nat /\ st + 2 < st + la
    BY <1>1, <1>4
  <2>2. /\ w[c] \in Nat /\ w[c + 1] \in Nat
        /\ w[c + 2] \in 0..(HashSize - 1) /\ w[st + 2] \in 0..(HashSize - 1)
    BY <1>3, <2>1
  <2>3. KeyOf(w[c], w[c + 1], w[c + 2]) = KeyOf(w[c], w[c + 1], w[st + 2])
    BY <1>5, <1>6 DEF KeyAt
  <2> QED
    BY <2>2, <2>3, KeyTells
<1>8. \A i \in 1..m : t.adler[(o + st) + i] = t.adler[(o + c) + i]
  <2> SUFFICES ASSUME NEW i \in 1..m PROVE t.adler[(o + st) + i] = t.adler[(o + c) + i]
    OBVIOUS
  <2> DEFINE j == i - 1
             x == c + j
             y == st + j
  <2>1. /\ j \in 0..(n - 1) /\ x \in Nat /\ x < st + la /\ y \in Nat /\ y < st + la
        /\ o + x + 1 = (o + c) + i /\ o + y + 1 = (o + st) + i
    BY <1>1, <1>2, <1>4
  <2>2. w[x] = w[y]
    <3> HIDE DEF j
    <3>1. CASE j = 2
      BY <1>7, <3>1
    <3>2. CASE j # 2
      BY <1>2, <2>1, <3>2
    <3> QED
      BY <3>1, <3>2
  <2> HIDE DEF x, y
  <2>3. w[x] = t.adler[o + x + 1] /\ w[y] = t.adler[o + y + 1]
    BY <1>3, <2>1
  <2> QED
    BY <2>1, <2>2, <2>3
<1>9. 0 <= o + c /\ o + c < o + st /\ (o + st) + m <= Len(t.adler)
  BY <1>1, <1>4
<1>10. Matches(t.adler, o + st, o + c, m)
  BY <1>8, <1>9 DEF Matches
<1> QED
  BY <1>10 DEF o, st

\* What longest_match finds on the chain is in the text, where it says.
LEMMA FoundMatch ==
    ASSUME IInv, ChainInv(s, pc), TextInv(s, pc), pc = "search", Searchable, s.prev_length >= 2
    PROVE  /\ s.lookahead >= 3
           /\ LET found == LongestMatch(s, HashHead)
              IN  \/ found = [len |-> Smaller(s.prev_length, s.lookahead), start |-> s.match_start]
                  \/ /\ MatchAt(s, s.strstart, found.start, found.len)
                     /\ found.len >= 3
<1> DEFINE st == s.strstart
           la == s.lookahead
           low == st - MAX_DIST
           hh == HashHead
           chain == IF s.prev_length >= Config[s.level].good
                    THEN Config[s.level].chain \div 4 ELSE Config[s.level].chain
           limit == IF st > MAX_DIST THEN st - MAX_DIST ELSE 0
           cur == Links(s, hh, chain)
           found == LongestMatch(s, hh)
           end == st + la
           w == s.window
<1>1. Shape(s) /\ s \in DState /\ WindowText(s) /\ Hashable(s.adler) /\ TurnMode(s, pc)
  BY DEF IInv, SInv, Shape, TextInv
<1>2. /\ st \in Nat /\ la \in Nat /\ s.prev_length \in Nat /\ s.prev \in Prevs
      /\ s.head \in Heads /\ Below(s, st)
  BY <1>1, Fields DEF Shape
<1>3. hh # 0 /\ st - hh <= MAX_DIST
  BY DEF Searchable
<1>4. la >= 3 /\ hh = s.prev[Slot(st)]
  BY <1>2, <1>3, Sizes DEF HashHead, Slot
<1>5. hh \in Nat /\ hh <= st
  <2>1. Slot(st) \in 0..(WSize - 1)
    BY <1>2, SlotType
  <2>2. s.prev[Slot(st)] \in Nat /\ s.prev[Slot(st)] <= st
    BY <1>2, <2>1 DEF Prevs, Below
  <2> QED
    BY <1>4, <2>2
<1> HIDE DEF hh
<1>6. low \in Int /\ st >= 1 /\ Near(st, low) /\ Near(hh, low)
  <2> HIDE DEF st
  <2>1. st >= 1 /\ hh >= 1 /\ st - MAX_DIST <= hh /\ st - MAX_DIST <= st
    BY <1>2, <1>3, <1>5, Sizes
  <2> QED
    BY <1>2, <2>1, Sizes DEF Near
<1>7. PICK T : LinkedBy(w, s.head, s.prev, T, low, st + 1, end)
  <2>1. Linked(w, s.head, s.prev, s.strstart - MAX_DIST, Here(s, pc), s.strstart + s.lookahead)
    BY DEF ChainInv
  <2>2. Here(s, pc) = st + 1
    BY DEF Here, Turning
  <2> QED
    BY <2>1, <2>2, Zenon DEF Linked
<1> DEFINE h == KeyAt(w, st)
<1>8. h \in 0..(HashSize - 1) /\ s.head[h] = st
  <2>1. s.head[h] = st
    BY <1>2, <1>4 DEF ChainInv
  <2>2. st + 2 < WindowSize
    <3> HIDE DEF st
    <3>1. st <= WindowSize - MIN_LOOKAHEAD
      BY <1>1 DEF TurnMode, Turning, st
    <3> QED
      BY <1>2, <3>1, Sizes
  <2>3. w[st] \in Nat /\ w[st + 1] \in Nat /\ w[st + 2] \in Nat
    BY <1>1, <1>2, <2>2, WindowBytes
  <2>4. h \in 0..(HashSize - 1)
    <3>1. UpdateHash(w[st], w[st + 1]) \in Nat
      BY <2>3, HashNat
    <3> QED
      BY <2>3, <3>1, HashNat DEF KeyAt, KeyOf
  <2> QED
    BY <2>1, <2>4
<1> HIDE DEF h, w, st
<1>9. st \in T
  BY <1>6, <1>7, <1>8 DEF LinkedBy
<1>10. hh \in T /\ KeyAt(w, hh) = KeyAt(w, st) /\ hh < st
  BY <1>4, <1>6, <1>7, <1>9 DEF LinkedBy
<1>11. /\ chain \in Nat
       /\ \/ found = [len |-> Smaller(s.prev_length, s.lookahead), start |-> s.match_start]
          \/ \E k \in 1..chain :
                /\ \A j \in 2..k : cur[j] > limit
                /\ CommonLength(s, cur[k]) > s.prev_length
                /\ found = [len |-> Smaller(CommonLength(s, cur[k]), s.lookahead),
                            start |-> cur[k]]
  BY <1>1, <1>5, LongestMatchIs DEF st
<1> HIDE DEF chain
<1>12. /\ \A k \in 1..chain : cur[k] \in Nat
       /\ chain >= 1 => cur[1] = hh
  BY <1>1, <1>5, <1>11, LinksAre
<1>13. ASSUME NEW k \in 1..chain,
              \A j \in 2..k : cur[j] > limit,
              CommonLength(s, cur[k]) > s.prev_length,
              found = [len |-> Smaller(CommonLength(s, cur[k]), s.lookahead), start |-> cur[k]]
       PROVE  MatchAt(s, s.strstart, found.start, found.len) /\ found.len >= 3
  <2> DEFINE c == cur[k]
             n == CommonLength(s, c)
             m == Smaller(n, la)
  <2>1. NearAll(cur, k, low)
    <3> SUFFICES ASSUME NEW j \in 1..k PROVE Near(cur[j], low)
      BY DEF NearAll
    <3> DEFINE x == cur[j]
    <3>0. x \in Nat
      BY <1>11, <1>12, <1>13
    <3>1. CASE j = 1
      BY <1>6, <1>11, <1>12, <1>13, <3>1
    <3>2. CASE j # 1
      <4>1. j \in 2..k
        BY <1>13, <1>11, <3>2
      <4>2. x > limit
        BY <1>13, <4>1
      <4> HIDE DEF x, cur
      <4>3. x >= 1 /\ x >= low
        BY <1>2, <3>0, <4>2, Sizes
      <4> QED
        BY <4>3 DEF Near, x
    <3> QED
      BY <3>1, <3>2
  <2>2. Followed(T, w, hh, c)
    <3> DEFINE lk == cur
    <3>0. lk = Links(s, hh, chain)
      OBVIOUS
    <3> HIDE DEF cur
    <3>1. LinkedBy(s.window, s.head, s.prev, T, low, st + 1, end)
      BY <1>7 DEF w
    <3>2. Followed(T, s.window, hh, lk[k])
      BY <1>1, <1>5, <1>6, <1>10, <1>11, <1>13, <2>1, <3>0, <3>1, ChainFollows DEF lk
    <3> QED
      BY <3>2 DEF w, lk
  <2>3. c \in Nat /\ c < st /\ KeyAt(w, c) = KeyAt(w, st)
    <3>1. c \in Nat
      BY <1>12, <1>13
    <3>2. c <= hh /\ KeyAt(w, c) = KeyAt(w, hh)
      BY <2>2 DEF Followed
    <3> HIDE DEF c
    <3> QED
      BY <1>2, <1>5, <1>10, <3>1, <3>2
  <2>4. n \in Nat /\ n >= 3
    <3>1. n \in Nat
      BY CommonLengthIs
    <3>2. n > s.prev_length
      BY <1>13
    <3> HIDE DEF n
    <3> QED
      BY <1>2, <3>1, <3>2
  <2> HIDE DEF c, n
  <2>5. m \in Nat /\ m <= n /\ m <= la /\ m >= 3
    BY <1>2, <1>4, <2>4 DEF Smaller
  <2> HIDE DEF m
  <2>6. Matches(s.adler, Off(s) + s.strstart, Off(s) + c, m)
    BY <1>1, <1>4, <2>3, <2>4, <2>5, KeysMatch DEF n, w, st
  <2>7. found = [len |-> m, start |-> c]
    BY <1>13 DEF m, n, c
  <2> HIDE DEF found
  <2>8. found.len = m /\ found.start = c
    BY <2>7
  <2> QED
    BY <2>5, <2>6, <2>8 DEF MatchAt
<1>14. \/ found = [len |-> Smaller(s.prev_length, s.lookahead), start |-> s.match_start]
       \/ MatchAt(s, s.strstart, found.start, found.len) /\ found.len >= 3
  BY <1>11, <1>13
<1> QED
  BY <1>4, <1>14 DEF hh

-----------------------------------------------------------------------------
(* The turns of the loops.                                                 *)

\* How much of the text is in blocks.
Ended(t) == Off(t) + t.block_start

\* A turn leaves the text, the blocks and what has been put out as they are.
Turned(u, t) ==
    /\ u.level = t.level /\ u.status = t.status /\ u.last_flush = t.last_flush
    /\ u.wrap = t.wrap /\ u.window = t.window /\ u.adler = t.adler
    /\ u.block_start = t.block_start
    /\ u.strstart + u.lookahead = t.strstart + t.lookahead
    /\ u.bits = t.bits /\ u.pending = t.pending

LEMMA TurnedText ==
    ASSUME NEW t, NEW u, Turned(u, t)
    PROVE  /\ Off(u) = Off(t) /\ FuncOf(u) = FuncOf(t) /\ Ended(u) = Ended(t)
           /\ Hashable(t.adler) => Hashable(u.adler)
           /\ WindowText(t) => WindowText(u)
<1>1. Off(u) = Off(t) /\ FuncOf(u) = FuncOf(t)
  BY DEF Off, FuncOf, Turned
<1>2. Ended(u) = Ended(t)
  BY <1>1 DEF Ended, Turned
<1>3. Hashable(t.adler) => Hashable(u.adler)
  BY DEF Turned
<1>4. WindowText(t) => WindowText(u)
  <2>1. /\ u.window = t.window /\ u.adler = t.adler /\ u.block_start = t.block_start
        /\ u.strstart + u.lookahead = t.strstart + t.lookahead
    BY DEF Turned
  <2> QED
    BY <1>1, <2>1, Zenon DEF WindowText
<1> QED
  BY <1>1, <1>2, <1>3, <1>4

\* fill_window
LEMMA FillText ==
    ASSUME IInv, TextInv(s, pc), Hashable(input), FillWindow
    PROVE  /\ TextInv(s', pc') /\ Hashable(input')
           /\ Ended(s') = Ended(s)
           /\ \E data \in Seq(Nat) : s'.adler = Cat(s.adler, data) /\ input = Cat(data, input')
           /\ input' \in Seq(Nat)
<1> DEFINE t == SlideIfNeeded(s)
           n == Smaller(Len(input), More(t))
           data == SubSeq(input, 1, n)
           rest == SubSeq(input, n + 1, Len(input))
<1>0. Shape(s) /\ input \in Seq(Nat) /\ s.adler \in Seq(Nat)
  BY Fields DEF IInv, SInv, IoTypes, Shape
<1>1. /\ pc \in { "fill", "top" } /\ pc' \in { "fill", "filled" }
      /\ s' = (IF n = 0 THEN t ELSE ReadBuf(t, data)) /\ input' = rest
  BY DEF FillWindow
<1>2. ~Turning(pc) /\ ~Turning(pc')
  BY <1>1 DEF Turning
<1>3. Shape(t) /\ TextInv(t, pc) /\ Ended(t) = Ended(s) /\ t.adler = s.adler
  BY <1>0, <1>2, SlideShape, SlideText DEF Ended
<1> HIDE DEF t
<1>4. t \in DState /\ t.strstart \in Nat /\ t.lookahead \in Nat
      /\ t.strstart + t.lookahead <= WindowSize
  BY <1>3, Fields DEF Shape
<1>5. n \in 0..Len(input) /\ n <= WindowSize - t.lookahead - t.strstart
  <2>1. More(t) \in Nat /\ More(t) = WindowSize - t.lookahead - t.strstart
    BY <1>4, Sizes DEF More
  <2>2. Len(input) \in Nat
    BY <1>0, LenProperties
  <2> QED
    BY <2>1, <2>2 DEF Smaller
<1> HIDE DEF n
<1>6. data \in Seq(Nat) /\ Len(data) = n /\ rest \in Seq(Nat)
  BY <1>0, <1>5, CutInTwo
<1>7. input = Cat(data, rest)
  <2>1. input = data \o rest
    BY <1>0, <1>5, CutInTwo
  <2> HIDE DEF data, rest
  <2> QED
    BY <2>1, Zenon DEF Cat
<1>8. Hashable(data) /\ Hashable(rest)
  <2>1. Len(input) \in Nat /\ n \in Nat
    BY <1>0, <1>5, LenProperties
  <2>2. \A i \in 1..n : data[i] = input[i]
    BY <1>0, <1>5, PrefixIs DEF Prefix
  <2>3. Hashable(data)
    <3> HIDE DEF data
    <3> QED
      BY <1>5, <1>6, <2>1, <2>2 DEF Hashable
  <2>4. Len(rest) = Len(input) - n
    BY <1>0, <1>5, CutInTwo
  <2>5. \A i \in 1..Len(rest) : rest[i] = input[n + i]
    BY <1>0, <2>1, <2>4, SubSeqProperties
  <2>6. Hashable(rest)
    <3> SUFFICES ASSUME NEW i \in 1..Len(rest) PROVE rest[i] \in 0..(HashSize - 1)
      BY DEF Hashable
    <3>1. n + i \in 1..Len(input)
      BY <1>5, <2>1, <2>4
    <3> QED
      BY <2>5, <3>1 DEF Hashable
  <2> QED
    BY <2>3, <2>6
<1> HIDE DEF data, rest
<1>9. CASE n = 0
  <2>1. TextInv(t, pc')
    <3>1. pc # "decide" /\ pc # "search" /\ pc' # "decide" /\ pc' # "search"
      BY <1>1
    <3> QED
      BY <1>2, <1>3, <3>1 DEF TextInv, MatchText
  <2>2. data = << >>
    BY <1>6, <1>9, EmptySeq
  <2>3. s.adler = Cat(s.adler, data)
    BY <1>0, <2>2, CatEmpty
  <2> QED
    BY <1>1, <1>3, <1>6, <1>7, <1>8, <1>9, <2>1, <2>3
<1>10. CASE n # 0
  <2>1. t.strstart + t.lookahead + Len(data) <= WindowSize
    BY <1>4, <1>5, <1>6, Sizes
  <2>2. /\ TextInv(ReadBuf(t, data), pc') /\ Off(ReadBuf(t, data)) = Off(t)
        /\ ReadBuf(t, data).adler = Cat(t.adler, data)
    BY <1>2, <1>3, <1>6, <1>8, <2>1, ReadText
  <2>3. ReadBuf(t, data).block_start = t.block_start
    BY ReadBufKeeps DEF Unread
  <2>4. Ended(ReadBuf(t, data)) = Ended(t)
    BY <2>2, <2>3 DEF Ended
  <2> QED
    BY <1>1, <1>3, <1>6, <1>7, <1>8, <1>10, <2>2, <2>4
<1> QED
  BY <1>9, <1>10

\* deflate_stored
LEMMA TurnStoredText ==
    ASSUME IInv, TextInv(s, pc), TurnStored
    PROVE  TextInv(s', pc') /\ Turned(s', s)
<1> DEFINE read == s.strstart + s.lookahead
           to == Smaller(read, s.block_start + MaxStored)
           rest == read - to
           t == [s EXCEPT !.strstart = to, !.lookahead = rest]
<1>0. /\ s \in DState /\ s.strstart \in Nat /\ s.lookahead \in Nat /\ s.block_start \in Int
  BY Fields DEF IInv, SInv, Shape
<1>1. s' = t /\ pc' \in { "flush", "top" } /\ Turn /\ Func = "stored"
  BY DEF TurnStored, EndTurn
<1>2. to \in Int /\ rest \in Int /\ to + rest = s.strstart + s.lookahead
  BY <1>0, Sizes DEF Smaller
<1> HIDE DEF to, rest
<1>3. t.strstart = to /\ t.lookahead = rest
  BY <1>0, <1>2 DEF DState
<1>4. /\ t.level = s.level /\ t.status = s.status /\ t.last_flush = s.last_flush
      /\ t.wrap = s.wrap /\ t.window = s.window /\ t.adler = s.adler
      /\ t.block_start = s.block_start /\ t.bits = s.bits /\ t.pending = s.pending
  OBVIOUS
<1> HIDE DEF t
<1>5. Turned(t, s)
  BY <1>2, <1>3, <1>4 DEF Turned
<1>6. FuncOf(t) = "stored" /\ Hashable(t.adler) /\ WindowText(t)
  BY <1>1, <1>5, FuncIs, TurnedText DEF TextInv
<1>7. pc' # "decide"
  BY <1>1
<1>8. TextInv(t, pc')
  BY <1>6, <1>7 DEF TextInv, MatchText, SymText
<1> QED
  BY <1>1, <1>5, <1>8

\* INSERT_STRING
LEMMA InsertText ==
    ASSUME IInv, TextInv(s, pc), Insert
    PROVE  TextInv(s', pc') /\ Turned(s', s)
<1> DEFINE t == InsertHere(s)
           ml == MIN_MATCH - 1
           u == [t EXCEPT !.prev_length = s.match_length, !.prev_match = s.match_start,
                          !.match_length = ml]
<1>0. /\ s \in DState /\ Shape(s)
  BY DEF IInv, SInv, Shape
<1>1. /\ s' = (IF Func = "fast" THEN t ELSE u)
      /\ pc' = "search" /\ Turn /\ Func # "stored"
  BY Zenon DEF Insert
<1>2. pc \in { "top", "filled" } /\ s.lookahead > 0
  BY <1>1, TurnBegins
<1>3. t \in DState /\ Rehashed(t, s)
  BY <1>0, <1>2, InsertHereShape
<1>4. ml = 2
  BY Sizes
<1> HIDE DEF t, ml
<1>5. /\ u.level = t.level /\ u.status = t.status /\ u.last_flush = t.last_flush
      /\ u.wrap = t.wrap /\ u.window = t.window /\ u.adler = t.adler
      /\ u.strstart = t.strstart /\ u.block_start = t.block_start /\ u.lookahead = t.lookahead
      /\ u.match_available = t.match_available
      /\ u.sym = t.sym /\ u.bits = t.bits /\ u.pending = t.pending
  OBVIOUS
<1>6. u.prev_length = s.match_length /\ u.prev_match = s.match_start /\ u.match_length = ml
  BY <1>3 DEF DState
<1> HIDE DEF u
<1>7. /\ ~Turning(pc) /\ pc # "decide" /\ Turning("search")
  BY <1>2 DEF Turning
<1>8. Turned(t, s) /\ Turned(u, s)
  BY <1>3, <1>5 DEF Turned, Rehashed
<1>9. TextInv(t, pc)
  BY <1>3, TextAlikeKeeps DEF Rehashed, TextAlike
<1>10. CASE Func = "fast"
  <2>1. FuncOf(t) = "fast"
    BY <1>8, <1>10, FuncIs, TurnedText
  <2>2. TextInv(t, "search")
    BY <1>9, <2>1 DEF TextInv, MatchText
  <2> QED
    BY <1>1, <1>8, <1>10, <2>2
<1>11. CASE Func # "fast"
  <2>1. FuncOf(s) = "slow"
    BY <1>0, <1>1, <1>11, FuncIs, FuncType
  <2>2. s.match_length >= 2 /\ MatchAt(s, s.strstart - 1, s.match_start, s.match_length)
    BY <1>7, <2>1 DEF TextInv, MatchText
  <2>3. Off(u) = Off(s) /\ FuncOf(u) = "slow" /\ Hashable(u.adler) /\ WindowText(u)
    BY <1>8, <2>1, TurnedText DEF TextInv
  <2>4. u.adler = s.adler /\ u.strstart = s.strstart
    BY <1>3, <1>5 DEF Rehashed
  <2>5. MatchAt(u, u.strstart - 1, u.prev_match, u.prev_length)
    BY <1>6, <2>2, <2>3, <2>4, Zenon DEF MatchAt
  <2>6. MatchText(u, "search")
    BY <1>4, <1>6, <1>7, <2>2, <2>3, <2>5 DEF MatchText
  <2>7. SymText(u)
    <3>1. u.block_start = s.block_start /\ u.sym = s.sym /\ Und(u) = Und(s)
      BY <1>3, <1>5 DEF Rehashed, Und
    <3>2. SymText(s) /\ FuncOf(s) = FuncOf(u)
      BY <2>1, <2>3 DEF TextInv
    <3> QED
      BY <2>3, <2>4, <3>1, <3>2, Zenon DEF SymText
  <2>8. TextInv(u, "search")
    BY <2>3, <2>6, <2>7 DEF TextInv
  <2> QED
    BY <1>1, <1>8, <1>11, <2>8
<1> QED
  BY <1>10, <1>11

\* longest_match
LEMMA SearchText ==
    ASSUME IInv, ChainInv(s, pc), TextInv(s, pc), Search
    PROVE  TextInv(s', pc') /\ Turned(s', s)
<1> DEFINE found  == LongestMatch(s, HashHead)
           tooFar == Func = "slow" /\ found.len = MIN_MATCH /\ s.strstart - found.start > TooFar
           ml == IF tooFar THEN MIN_MATCH - 1 ELSE found.len
           ms == found.start
           u == [s EXCEPT !.match_length = ml, !.match_start = ms]
<1>0. /\ SInv(s, pc) /\ s \in DState /\ Shape(s)
      /\ s.match_length \in Nat /\ s.lookahead \in Nat /\ s.prev_length \in Nat
  BY Fields DEF IInv, SInv, Shape
<1>1. s' = (IF Searchable THEN u ELSE s) /\ pc = "search" /\ pc' = "decide"
  BY Zenon DEF Search
<1>2. FuncOf(s) \in { "fast", "slow" }
  BY <1>0, <1>1, FuncType DEF SInv, StoredMode, Turning
<1>3. /\ s.prev_length >= 2
      /\ FuncOf(s) = "fast" => s.prev_length = 2 /\ s.match_length < 3
      /\ FuncOf(s) = "slow" => s.match_length = 2
  <2>1. FuncOf(s) = "fast" => s.prev_length = 2 /\ s.match_length < 3
    BY <1>0, <1>1 DEF SInv, FastMode
  <2>2. FuncOf(s) = "slow" => s.match_length = 2 /\ s.prev_length >= 2
    BY <1>0, <1>1 DEF SInv, SlowMode, TextInv, MatchText
  <2> QED
    BY <1>0, <1>2, <2>1, <2>2
<1>4. CASE ~Searchable
  <2>1. MatchAt(s, s.strstart, s.match_start, s.match_length)
    BY <1>0, <1>2, <1>3 DEF MatchAt
  <2>2. MatchText(s, "decide")
    BY <1>1, <1>3, <2>1 DEF TextInv, MatchText, Turning
  <2>3. TextInv(s, "decide") /\ Turned(s, s)
    BY <2>2 DEF TextInv, Turned
  <2> QED
    BY <1>1, <1>4, <2>3
<1>5. CASE Searchable
  <2>1. /\ s.lookahead >= 3
        /\ \/ found = [len |-> Smaller(s.prev_length, s.lookahead), start |-> s.match_start]
           \/ MatchAt(s, s.strstart, ms, found.len) /\ found.len >= 3
    BY <1>1, <1>3, <1>5, FoundMatch
  <2>2. ms \in Int /\ ml \in Nat
    <3>1. HashHead \in Nat
      <4>1. s.prev \in Prevs /\ s.strstart \in Nat
        BY <1>0, Fields
      <4>2. Slot(s.strstart) \in 0..(WSize - 1)
        BY <4>1, SlotType
      <4>3. s.prev[Slot(s.strstart)] \in Nat
        BY <4>1, <4>2 DEF Prevs
      <4> QED
        BY <4>3 DEF HashHead, Slot
    <3>2. found.len \in Nat /\ ms \in Int
      BY <1>0, <3>1, LongestMatchType
    <3> HIDE DEF found
    <3> QED
      BY <3>2, Sizes
  <2>3. u.match_length = ml /\ u.match_start = ms
    <3> HIDE DEF ml, ms
    <3> QED
      BY <1>0, <2>2 DEF DState
  <2>4. /\ u.level = s.level /\ u.status = s.status /\ u.last_flush = s.last_flush
        /\ u.wrap = s.wrap /\ u.window = s.window /\ u.adler = s.adler
        /\ u.strstart = s.strstart /\ u.block_start = s.block_start /\ u.lookahead = s.lookahead
        /\ u.match_available = s.match_available
        /\ u.prev_length = s.prev_length /\ u.prev_match = s.prev_match
        /\ u.sym = s.sym /\ u.bits = s.bits /\ u.pending = s.pending
    <3> HIDE DEF ml, ms
    <3> QED
      OBVIOUS
  <2> HIDE DEF u
  <2>5. Turned(u, s)
    BY <2>4 DEF Turned
  <2>6. Off(u) = Off(s) /\ FuncOf(u) = FuncOf(s) /\ Hashable(u.adler) /\ WindowText(u)
    BY <2>5, TurnedText DEF TextInv
  <2>7. /\ ml >= 2
        /\ ~Decided(u) => MatchAt(s, s.strstart, ms, ml)
    <3>1. CASE found = [len |-> Smaller(s.prev_length, s.lookahead), start |-> s.match_start]
      <4>1. found.len = Smaller(s.prev_length, s.lookahead)
        BY <3>1
      <4> HIDE DEF found
      <4>2. found.len >= 2 /\ found.len <= s.prev_length
        BY <1>0, <1>3, <2>1, <4>1 DEF Smaller
      <4>3. ml >= 2 /\ ml <= s.prev_length
        BY <1>0, <1>3, <4>2, Sizes
      <4> HIDE DEF ml, ms
      <4>4. ~Decided(u) => ml < 3
        BY <1>0, <2>2, <2>3, <2>4, <4>3 DEF Decided
      <4> QED
        BY <2>2, <4>3, <4>4 DEF MatchAt
    <3>2. CASE MatchAt(s, s.strstart, ms, found.len) /\ found.len >= 3
      <4>1. ml = 2 \/ ml = found.len
        BY Sizes
      <4> HIDE DEF found
      <4>2. CASE ml = 2
        <5> HIDE DEF ml, ms
        <5> QED
          BY <4>2 DEF MatchAt
      <4>3. CASE ml = found.len
        <5>1. found.len \in Nat
          BY <2>2, <4>3
        <5> HIDE DEF ml, ms
        <5> QED
          BY <3>2, <4>3, <5>1
      <4> QED
        BY <4>1, <4>2, <4>3
    <3> QED
      BY <2>1, <3>1, <3>2
  <2> HIDE DEF ml, ms
  <2>8. MatchText(u, "decide")
    <3>1. FuncOf(s) = "slow" => MatchAt(s, s.strstart - 1, s.prev_match, s.prev_length)
      BY <1>1 DEF TextInv, MatchText, Turning
    <3>2. FuncOf(s) = "slow" => MatchAt(u, u.strstart - 1, u.prev_match, u.prev_length)
      BY <2>4, <2>6, <3>1, Zenon DEF MatchAt
    <3>3. ~Decided(u) => MatchAt(u, u.strstart, u.match_start, u.match_length)
      BY <2>3, <2>4, <2>6, <2>7, Zenon DEF MatchAt
    <3>4. Turning("decide")
      BY DEF Turning
    <3> QED
      BY <2>3, <2>6, <2>7, <3>2, <3>3, <3>4 DEF MatchText
  <2>9. SymText(u)
    <3>1. Und(u) = Und(s)
      BY <2>4 DEF Und
    <3> QED
      BY <2>4, <2>6, <3>1, Zenon DEF TextInv, SymText
  <2>10. TextInv(u, "decide")
    BY <2>6, <2>8, <2>9 DEF TextInv
  <2> QED
    BY <1>1, <1>5, <2>5, <2>10
<1> QED
  BY <1>4, <1>5

\* Where the bytes begin that are not in a symbol yet.
Done(t) == t.strstart - Und(t)

LEMMA DoneType ==
    ASSUME NEW t, Shape(t), WindowText(t)
    PROVE  /\ Done(t) \in Nat /\ Und(t) \in { 0, 1 }
           /\ Off(t) \in Nat /\ Off(t) + Done(t) \in Nat
           /\ Off(t) + Done(t) <= Len(t.adler)
           /\ Done(t) + Und(t) = t.strstart
<1>1. /\ t.strstart \in Nat /\ t.lookahead \in Nat /\ Off(t) \in Nat
      /\ Off(t) + t.strstart + t.lookahead = Len(t.adler)
  BY TextTypes
<1>2. t.match_available => t.strstart >= 1
  BY DEF Shape
<1>3. Und(t) \in { 0, 1 } /\ (Und(t) = 1 => t.strstart >= 1) /\ Done(t) = t.strstart - Und(t)
  BY <1>2 DEF Und, Done
<1> DEFINE a == t.strstart
           b == t.lookahead
           o == Off(t)
           d == Und(t)
           e == Done(t)
<1>4. /\ a \in Nat /\ b \in Nat /\ o \in Nat /\ o + a + b = Len(t.adler)
      /\ d \in { 0, 1 } /\ (d = 1 => a >= 1) /\ e = a - d
  BY <1>1, <1>3
<1> HIDE DEF a, b, o, d, e
<1>5. e \in Nat /\ o + e \in Nat /\ o + e <= Len(t.adler) /\ e + d = a
  BY <1>4
<1> QED
  BY <1>4, <1>5 DEF a, o, d, e

\* A literal: the next byte.
LEMMA LitText ==
    ASSUME NEW t, Shape(t), WindowText(t), Hashable(t.adler), SymText(t), FuncOf(t) # "stored",
           Done(t) < t.strstart + t.lookahead,
           NEW u, Turned(u, t), u.sym = Append(t.sym, << Lit(t.window[Done(t)]) >>),
           Done(u) = Done(t) + 1
    PROVE  SymText(u)
<1> DEFINE b == Off(t) + Done(t)
           a == Off(t) + t.block_start
           q == t.adler
<1>1. /\ Done(t) \in Nat /\ b \in Nat /\ t \in DState /\ q \in Seq(Nat) /\ Len(q) \in Nat
      /\ Off(t) \in Nat /\ t.strstart \in Nat /\ t.lookahead \in Nat
      /\ Off(t) + t.strstart + t.lookahead = Len(q)
  BY DoneType, TextTypes
<1>2. t.window[Done(t)] = q[Off(t) + Done(t) + 1]
  BY <1>1, TextByte
<1>3. b + 1 <= Len(q)
  <2> DEFINE x == Done(t)
             o == Off(t)
             y == t.strstart
             z == t.lookahead
  <2>1. x \in Nat /\ o \in Nat /\ y \in Nat /\ z \in Nat /\ x < y + z /\ o + y + z = Len(q)
    BY <1>1
  <2> HIDE DEF x, o, y, z
  <2>2. (o + x) + 1 <= Len(q)
    BY <1>1, <2>1
  <2> QED
    BY <2>2 DEF o, x
<1>4. SymbolsSay(q, t.sym, a, b) /\ t.sym \in Seq(Seq(Items))
  <2>1. t.sym \in Seq(Seq(Items))
    BY <1>1, Fields
  <2>2. SymbolsSay(t.adler, t.sym, Off(t) + t.block_start, Off(t) + (t.strstart - Und(t)))
    BY Zenon DEF SymText
  <2> QED
    BY <2>1, <2>2, Zenon DEF Done
<1>5. Off(u) = Off(t) /\ FuncOf(u) = FuncOf(t) /\ u.adler = q /\ u.block_start = t.block_start
  BY TurnedText DEF Turned
<1>6. b + 1 = Off(u) + Done(u)
  BY <1>1, <1>5
<1> DEFINE c == q[b + 1]
<1>7. t.window[Done(t)] = c
  BY <1>2
<1> HIDE DEF a, b, q
<1>8. SymbolsSay(q, Append(t.sym, << Lit(c) >>), a, b + 1)
  BY <1>1, <1>3, <1>4, SymbolsLit
<1>9. u.sym = Append(t.sym, << Lit(c) >>)
  BY <1>7
<1> HIDE DEF c
<1>10. SymbolsSay(u.adler, u.sym, Off(u) + u.block_start, Off(u) + Done(u))
  <2>1. Off(u) + u.block_start = a
    BY <1>5 DEF a
  <2> QED
    BY <1>5, <1>6, <1>8, <1>9, <2>1, Zenon
<1> QED
  BY <1>10 DEF SymText, Done

\* A match: the next n bytes.
LEMMA DistText ==
    ASSUME NEW t, Shape(t), WindowText(t), Hashable(t.adler), SymText(t), FuncOf(t) # "stored",
           NEW start \in Int, NEW n \in Nat, n >= 3, MatchAt(t, Done(t), start, n),
           NEW u, Turned(u, t),
           u.sym = Append(t.sym, << MatchLen(n), MatchDist(Done(t) - start) >>),
           Done(u) = Done(t) + n
    PROVE  SymText(u)
<1> DEFINE b == Off(t) + Done(t)
           a == Off(t) + t.block_start
           q == t.adler
           from == Off(t) + start
<1>1. /\ Done(t) \in Nat /\ b \in Nat /\ t \in DState /\ q \in Seq(Nat) /\ Off(t) \in Nat
  BY DoneType, TextTypes
<1>2. Matches(q, b, from, n) /\ from \in Int /\ b - from = Done(t) - start
  <2>1. Matches(q, b, from, n)
    BY DEF MatchAt
  <2> DEFINE x == Done(t)
             o == Off(t)
  <2>2. x \in Nat /\ o \in Nat
    BY <1>1
  <2> HIDE DEF x, o
  <2>3. o + start \in Int /\ (o + x) - (o + start) = x - start
    BY <2>2
  <2> QED
    BY <2>1, <2>3 DEF x, o
<1>3. SymbolsSay(q, t.sym, a, b) /\ t.sym \in Seq(Seq(Items))
  <2>1. t.sym \in Seq(Seq(Items))
    BY <1>1, Fields
  <2>2. SymbolsSay(t.adler, t.sym, Off(t) + t.block_start, Off(t) + (t.strstart - Und(t)))
    BY Zenon DEF SymText
  <2> QED
    BY <2>1, <2>2, Zenon DEF Done
<1>4. Off(u) = Off(t) /\ FuncOf(u) = FuncOf(t) /\ u.adler = q /\ u.block_start = t.block_start
  BY TurnedText DEF Turned
<1>5. b + n = Off(u) + Done(u)
  BY <1>1, <1>4
<1> DEFINE d == b - from
<1>6. u.sym = Append(t.sym, << MatchLen(n), MatchDist(d) >>)
  BY <1>2
<1>7. Off(u) + u.block_start = a
  BY <1>4
<1> HIDE DEF a, b, q, from
<1>8. SymbolsSay(q, Append(t.sym, << MatchLen(n), MatchDist(d) >>), a, b + n)
  BY <1>1, <1>2, <1>3, SymbolsMatch
<1> HIDE DEF d
<1>9. SymbolsSay(u.adler, u.sym, Off(u) + u.block_start, Off(u) + Done(u))
  BY <1>4, <1>5, <1>6, <1>7, <1>8, Zenon
<1> QED
  BY <1>9 DEF SymText, Done

\* deflate_fast: a literal
LEMMA TakeLiteralText ==
    ASSUME IInv, TextInv(s, pc), TakeLiteral
    PROVE  TextInv(s', pc') /\ Turned(s', s)
<1> DEFINE v == TallyLit(s, s.window[s.strstart])
           t == Advance(v)
<1>0. /\ SInv(s, pc) /\ s \in DState /\ Shape(s)
      /\ s.strstart \in Nat /\ s.lookahead \in Nat
  BY Fields DEF IInv, SInv, Shape
<1>1. /\ s' = t /\ pc' \in { "flush", "top" } /\ pc = "decide" /\ Func = "fast"
  BY Zenon DEF TakeLiteral, EndTurn
<1>2. FastMode(s, pc) /\ FuncOf(s) = "fast" /\ TurnMode(s, pc)
  BY <1>0, <1>1, FuncIs DEF SInv
<1>3. s.lookahead > 0 /\ s.strstart <= WindowSize - MIN_LOOKAHEAD /\ ~s.match_available
  BY <1>1, <1>2 DEF TurnMode, Turning, FastMode
<1>4. /\ v \in DState /\ Tallied(v, s)
      /\ v.sym = Append(s.sym, << Lit(s.window[s.strstart]) >>)
  <2>1. s.strstart < WindowSize
    BY <1>0, <1>3, Sizes
  <2>2. s.window[s.strstart] \in Nat
    BY <1>0, <2>1, WindowByte
  <2> QED
    BY <1>0, <2>2, TallyLitIs
<1> HIDE DEF v
<1>5. t \in DState /\ OneOn(t, v)
  BY <1>3, <1>4, AdvanceIs DEF Tallied
<1> HIDE DEF t
<1>6. /\ t.strstart = s.strstart + 1 /\ t.lookahead = s.lookahead - 1
      /\ t.match_available = s.match_available /\ t.sym = v.sym
  BY <1>4, <1>5, Zenon DEF Tallied, OneOn
<1>7. Turned(t, s)
  <2>1. t.strstart + t.lookahead = s.strstart + s.lookahead
    BY <1>0, <1>6
  <2> QED
    BY <1>4, <1>5, <2>1, Zenon DEF Tallied, OneOn, Turned
<1>8. Done(s) = s.strstart /\ Done(t) = Done(s) + 1
  BY <1>0, <1>3, <1>6 DEF Done, Und
<1>9. SymText(t)
  <2>1. Done(s) < s.strstart + s.lookahead
    BY <1>0, <1>3, <1>8
  <2>2. t.sym = Append(s.sym, << Lit(s.window[Done(s)]) >>)
    BY <1>4, <1>6, <1>8
  <2>3. WindowText(s) /\ Hashable(s.adler) /\ SymText(s) /\ FuncOf(s) # "stored"
    BY <1>2 DEF TextInv
  <2> QED
    BY <1>0, <1>7, <1>8, <2>1, <2>2, <2>3, LitText
<1>10. FuncOf(t) = "fast" /\ Hashable(t.adler) /\ WindowText(t)
  BY <1>2, <1>7, TurnedText DEF TextInv
<1>11. TextInv(t, pc')
  BY <1>1, <1>9, <1>10 DEF TextInv, MatchText
<1> QED
  BY <1>1, <1>7, <1>11

\* deflate_slow: the byte before becomes a literal.
LEMMA TakePreviousLiteralText ==
    ASSUME IInv, TextInv(s, pc), TakePreviousLiteral
    PROVE  TextInv(s', pc') /\ Turned(s', s)
<1> DEFINE v == TallyPrevious(s)
           w == [s EXCEPT !.match_available = TRUE]
           a == Advance(v)
           b == Advance(w)
<1>0. /\ SInv(s, pc) /\ s \in DState /\ Shape(s)
      /\ s.strstart \in Nat /\ s.lookahead \in Nat
      /\ s.strstart + s.lookahead <= WindowSize
  BY Fields DEF IInv, SInv, Shape
<1>1. /\ \/ s.match_available /\ s' = a
         \/ ~s.match_available /\ s' = b
      /\ pc = "decide" /\ Func = "slow" /\ pc' \in { "flush", "top" } /\ ~PreviousWins
  BY Zenon DEF TakePreviousLiteral, EndTurn
<1>2. FuncOf(s) = "slow" /\ TurnMode(s, pc)
  BY <1>0, <1>1, FuncIs DEF SInv
<1>3. s.lookahead > 0
  BY <1>1, <1>2 DEF TurnMode, Turning
<1>4. s.match_length >= 2 /\ MatchAt(s, s.strstart, s.match_start, s.match_length)
  <2>1. ~Decided(s)
    BY <1>1, Sizes DEF Decided, PreviousWins
  <2> QED
    BY <1>1, <1>2, <2>1 DEF TextInv, MatchText
<1>5. ASSUME NEW x, NEW y \in DState, OneOn(x, y), y.level = s.level, y.status = s.status,
             y.last_flush = s.last_flush, y.wrap = s.wrap, y.window = s.window,
             y.strstart = s.strstart, y.block_start = s.block_start, y.lookahead = s.lookahead,
             y.match_length = s.match_length, y.match_start = s.match_start,
             y.bits = s.bits, y.pending = s.pending, y.adler = s.adler, SymText(x)
      PROVE  TextInv(x, pc') /\ Turned(x, s)
  <2>1. /\ x.strstart = s.strstart + 1 /\ x.lookahead = s.lookahead - 1
        /\ x.match_length = s.match_length /\ x.match_start = s.match_start
        /\ x.adler = s.adler
    BY <1>5, Zenon DEF OneOn
  <2>2. x.strstart + x.lookahead = s.strstart + s.lookahead /\ x.strstart - 1 = s.strstart
    BY <1>0, <2>1
  <2>3. Turned(x, s)
    BY <1>5, <2>2, Zenon DEF OneOn, Turned
  <2>4. Off(x) = Off(s) /\ FuncOf(x) = FuncOf(s) /\ Hashable(x.adler) /\ WindowText(x)
    BY <2>3, TurnedText DEF TextInv
  <2>5. MatchAt(x, x.strstart - 1, x.match_start, x.match_length)
    BY <1>4, <2>1, <2>2, <2>4, Zenon DEF MatchAt
  <2>6. MatchText(x, pc')
    BY <1>1, <1>4, <2>1, <2>5 DEF MatchText, Turning
  <2> QED
    BY <1>5, <2>3, <2>4, <2>6 DEF TextInv
<1>6. CASE s.match_available
  <2>1. s.strstart >= 1 /\ s.strstart <= WindowSize
    BY <1>0, <1>6, Sizes DEF Shape
  <2>2. /\ v \in DState /\ Tallied(v, s)
        /\ v.sym = Append(s.sym, << Lit(s.window[s.strstart - 1]) >>)
    BY <1>0, <2>1, TallyPreviousIs
  <2> HIDE DEF v
  <2>3. a \in DState /\ OneOn(a, v)
    BY <1>3, <2>2, AdvanceIs DEF Tallied
  <2> HIDE DEF a
  <2>4. /\ a.strstart = s.strstart + 1 /\ a.lookahead = s.lookahead - 1
        /\ a.match_available = s.match_available /\ a.sym = v.sym
    BY <2>2, <2>3, Zenon DEF Tallied, OneOn
  <2>5. Turned(a, s)
    <3>1. a.strstart + a.lookahead = s.strstart + s.lookahead
      BY <1>0, <2>4
    <3> QED
      BY <2>2, <2>3, <3>1, Zenon DEF Tallied, OneOn, Turned
  <2>6. Done(s) = s.strstart - 1 /\ Done(a) = Done(s) + 1
    BY <1>0, <1>6, <2>4 DEF Done, Und
  <2>7. SymText(a)
    <3>1. Done(s) < s.strstart + s.lookahead
      BY <1>0, <1>3, <2>6
    <3>2. a.sym = Append(s.sym, << Lit(s.window[Done(s)]) >>)
      BY <2>2, <2>4, <2>6
    <3>3. WindowText(s) /\ Hashable(s.adler) /\ SymText(s) /\ FuncOf(s) # "stored"
      BY <1>2 DEF TextInv
    <3> QED
      BY <1>0, <2>5, <2>6, <3>1, <3>2, <3>3, LitText
  <2>8. TextInv(a, pc') /\ Turned(a, s)
    BY <1>5, <2>2, <2>3, <2>7, Zenon DEF Tallied
  <2> QED
    BY <1>1, <1>6, <2>8
<1>7. CASE ~s.match_available
  <2>1. w \in DState /\ w.match_available
    BY <1>0 DEF DState
  <2>3. /\ w.level = s.level /\ w.status = s.status /\ w.last_flush = s.last_flush
        /\ w.wrap = s.wrap /\ w.window = s.window
        /\ w.strstart = s.strstart /\ w.lookahead = s.lookahead
        /\ w.block_start = s.block_start /\ w.match_length = s.match_length
        /\ w.match_start = s.match_start
        /\ w.bits = s.bits /\ w.pending = s.pending /\ w.adler = s.adler /\ w.sym = s.sym
    OBVIOUS
  <2> HIDE DEF w
  <2>4. b \in DState /\ OneOn(b, w)
    BY <1>3, <2>1, <2>3, AdvanceIs
  <2> HIDE DEF b
  <2>5. /\ b.strstart = s.strstart + 1 /\ b.match_available /\ b.sym = s.sym
        /\ b.adler = s.adler /\ b.block_start = s.block_start /\ b.level = s.level
        /\ b.lookahead = s.lookahead - 1
    BY <2>1, <2>3, <2>4, Zenon DEF OneOn
  <2>6. Off(b) = Off(s) /\ b.strstart - Und(b) = s.strstart - Und(s)
    <3>1. Und(b) = 1 /\ Und(s) = 0
      BY <1>7, <2>5 DEF Und
    <3>2. b.strstart + b.lookahead = s.strstart + s.lookahead
      BY <1>0, <2>5
    <3> QED
      BY <1>0, <2>5, <3>1, <3>2 DEF Off
  <2>7. SymText(b)
    BY <2>5, <2>6, Zenon DEF TextInv, SymText, FuncOf
  <2>8. TextInv(b, pc') /\ Turned(b, s)
    BY <1>5, <2>1, <2>3, <2>4, <2>7, Zenon
  <2> QED
    BY <1>1, <1>7, <2>8
<1> QED
  BY <1>1, <1>6, <1>7

\* u goes on behind a match of n bytes, as t would.
LEMMA MatchTakenText ==
    ASSUME NEW t, Shape(t), WindowText(t), Hashable(t.adler), SymText(t), FuncOf(t) # "stored",
           NEW start \in Int, NEW n \in Nat, n >= 3, MatchAt(t, Done(t), start, n),
           NEW i \in DState, Rehashed(i, t), NEW v, v = TallyDist(i, Done(t) - start, n),
           NEW u, ~u.match_available, u.strstart = Done(t) + n,
           u.strstart + u.lookahead = t.strstart + t.lookahead,
           u.level = v.level, u.status = v.status, u.last_flush = v.last_flush, u.wrap = v.wrap,
           u.window = v.window, u.adler = v.adler, u.block_start = v.block_start,
           u.bits = v.bits, u.pending = v.pending, u.sym = v.sym
    PROVE  Turned(u, t) /\ SymText(u) /\ FuncOf(u) = FuncOf(t) /\ Hashable(u.adler) /\ WindowText(u)
<1> DEFINE d == Done(t) - start
<1>1. d \in Int /\ Done(t) \in Nat
  BY DoneType
<1>2. v = TallyDist(i, d, n)
  OBVIOUS
<1> HIDE DEF d
<1>3. Tallied(v, i) /\ v.sym = Append(i.sym, << MatchLen(n), MatchDist(d) >>)
  BY <1>1, <1>2, TallyDistIs, SMTT(30)
<1>4. Turned(u, t)
  BY <1>3, Zenon DEF Tallied, Rehashed, Turned
<1>5. u.sym = Append(t.sym, << MatchLen(n), MatchDist(Done(t) - start) >>)
  BY <1>3, Zenon DEF Rehashed, d
<1>6. Done(u) = Done(t) + n
  BY <1>1 DEF Done, Und
<1>7. SymText(u)
  BY <1>4, <1>5, <1>6, DistText
<1> QED
  BY <1>4, <1>7, TurnedText

\* deflate_fast: a match
LEMMA TakeMatchText ==
    ASSUME IInv, TextInv(s, pc), TakeMatch
    PROVE  TextInv(s', pc') /\ Turned(s', s)
<1> DEFINE n    == s.match_length
           rest == s.lookahead - n
           end  == s.strstart + n
           x == InsertAll(s, s.strstart + 1, end - 1)
           h == UpdateHash(s.window[end], s.window[end + 1])
           w == [s EXCEPT !.ins_h = h]
           i == IF n <= Config[s.level].lazy /\ rest >= MIN_MATCH THEN x ELSE w
           d == s.strstart - s.match_start
           v == TallyDist(i, d, n)
           t == [v EXCEPT !.strstart = end, !.lookahead = rest, !.match_length = 0]
<1>0. /\ IoTypes /\ SInv(s, pc) /\ s \in DState /\ Shape(s)
      /\ s.strstart \in Nat /\ s.lookahead \in Nat /\ s.match_length \in Nat
      /\ s.match_start \in Int /\ s.strstart + s.lookahead <= WindowSize
      /\ s.match_length <= MaxMatch
  BY Fields DEF IInv, SInv, Shape
<1>1. /\ s' = t /\ pc' = (IF BlockFull(t) THEN "flush" ELSE "top")
      /\ pc = "decide" /\ Func = "fast" /\ n >= 3
  BY Sizes, Zenon DEF TakeMatch, EndTurn
<1>2. /\ FastMode(s, pc) /\ FuncOf(s) = "fast" /\ TurnMode(s, pc)
  BY <1>0, <1>1, FuncIs DEF SInv
<1>3. /\ n <= s.lookahead /\ s.prev_length = 2 /\ ~s.match_available
      /\ s.strstart <= WindowSize - MIN_LOOKAHEAD
  BY <1>1, <1>2 DEF FastMode, TurnMode, Turning
<1>4. n \in Nat /\ rest \in Nat /\ end \in Nat /\ d \in Int /\ end + rest <= WindowSize
      /\ s.strstart <= end /\ end <= s.strstart + s.lookahead
      /\ end + rest = s.strstart + s.lookahead
  BY <1>0, <1>3
<1>5. i \in DState /\ Rehashed(i, s)
  <2>1. CASE n <= Config[s.level].lazy /\ rest >= MIN_MATCH
    <3> DEFINE to == end - 1
    <3>1. to \in Int /\ to <= end /\ to + 2 < WindowSize
      <4>1. end + 3 <= WindowSize
        BY <1>4, <2>1, Sizes
      <4> HIDE DEF end, rest
      <4> QED
        BY <1>4, <4>1, Sizes
    <3> HIDE DEF to
    <3>2. i = InsertAll(s, s.strstart + 1, to)
      BY <2>1 DEF to
    <3> HIDE DEF i, end, rest
    <3> QED
      BY <1>0, <1>4, <3>1, <3>2, MatchInserted
  <2>2. CASE ~(n <= Config[s.level].lazy /\ rest >= MIN_MATCH)
    <3>1. h \in 0..(HashSize - 1)
      <4>1. s.window \in [0..(WindowSize - 1) -> Nat]
        BY <1>0, Fields DEF Windows
      <4>2. end \in Nat /\ end + 1 < WindowSize
        <5>1. /\ s.strstart \in Nat /\ n \in Nat /\ n <= MaxMatch
              /\ s.strstart <= WindowSize - MIN_LOOKAHEAD
          BY <1>0, <1>3
        <5> HIDE DEF n
        <5> QED
          BY <5>1, Sizes
      <4> HIDE DEF end
      <4>4. end \in 0..(WindowSize - 1) /\ end + 1 \in 0..(WindowSize - 1)
        BY <4>2, Sizes
      <4>3. s.window[end] \in Nat /\ s.window[end + 1] \in Nat
        BY <4>1, <4>4
      <4> QED
        BY <4>3, HashType
    <3>2. i = w
      BY <2>2
    <3> HIDE DEF h
    <3>3. w \in DState
      BY <1>0, <3>1 DEF DState
    <3>4. Rehashed(w, s)
      BY DEF Rehashed
    <3> QED
      BY <3>2, <3>3, <3>4
  <2> QED
    BY <2>1, <2>2
<1> HIDE DEF i, rest, end, d
<1>6. v \in DState
  BY <1>4, <1>5, TallyDistIs
<1>7. Done(s) = s.strstart
  BY <1>0, <1>3 DEF Done, Und
<1>8. v = TallyDist(i, Done(s) - s.match_start, n)
  BY <1>7 DEF d
<1> HIDE DEF v
<1>9. t \in DState /\ t.strstart = end /\ t.lookahead = rest /\ t.match_length = 0
  BY <1>4, <1>6 DEF DState
<1>10. /\ t.level = v.level /\ t.status = v.status /\ t.last_flush = v.last_flush
       /\ t.wrap = v.wrap /\ t.window = v.window /\ t.adler = v.adler
       /\ t.block_start = v.block_start /\ t.match_available = v.match_available
       /\ t.bits = v.bits /\ t.pending = v.pending /\ t.sym = v.sym
  OBVIOUS
<1> HIDE DEF t
<1>11. ~t.match_available
  <2>1. Tallied(v, i)
    BY <1>4, <1>5, TallyDistIs DEF v
  <2> QED
    BY <1>3, <1>5, <1>10, <2>1, Zenon DEF Tallied, Rehashed
<1>12. MatchAt(s, Done(s), s.match_start, n) /\ FuncOf(s) # "stored"
  <2>1. ~Decided(s)
    BY <1>3 DEF Decided
  <2> QED
    BY <1>1, <1>2, <1>7, <2>1 DEF TextInv, MatchText
<1>13. t.strstart = Done(s) + n /\ t.strstart + t.lookahead = s.strstart + s.lookahead
  BY <1>4, <1>7, <1>9 DEF end
<1>14. WindowText(s) /\ Hashable(s.adler) /\ SymText(s)
  BY DEF TextInv
<1> HIDE DEF n
<1>15. Turned(t, s) /\ SymText(t) /\ FuncOf(t) = "fast" /\ Hashable(t.adler) /\ WindowText(t)
  BY <1>0, <1>1, <1>2, <1>4, <1>5, <1>8, <1>10, <1>11, <1>12, <1>13, <1>14, MatchTakenText
<1>16. TextInv(t, pc')
  BY <1>1, <1>15 DEF TextInv, MatchText
<1> QED
  BY <1>1, <1>15, <1>16

\* deflate_slow: the match at the byte before
LEMMA TakePreviousMatchText ==
    ASSUME IInv, TextInv(s, pc), TakePreviousMatch
    PROVE  TextInv(s', pc') /\ Turned(s', s)
<1> DEFINE max_insert == s.strstart + s.lookahead - MIN_MATCH
           n    == s.prev_length
           end  == s.strstart - 1 + n
           to   == Smaller(end - 1, max_insert)
           i    == InsertAll(s, s.strstart + 1, to)
           d    == s.strstart - 1 - s.prev_match
           v    == TallyDist(i, d, n)
           rest == s.lookahead - (n - 1)
           t    == [v EXCEPT !.strstart = end, !.lookahead = rest,
                             !.prev_length = 0, !.match_available = FALSE, !.match_length = 2]
<1>0. /\ IoTypes /\ SInv(s, pc) /\ s \in DState /\ Shape(s)
      /\ s.strstart \in Nat /\ s.lookahead \in Nat /\ s.prev_length \in Nat
      /\ s.prev_match \in Int /\ s.strstart + s.lookahead <= WindowSize
      /\ s.prev_length <= MaxMatch
  BY Fields DEF IInv, SInv, Shape
<1>2. /\ pc = "decide" /\ Func = "slow" /\ n >= 3
  BY Sizes, Zenon DEF TakePreviousMatch, PreviousWins
<1>3. /\ SlowMode(s, pc) /\ FuncOf(s) = "slow" /\ TurnMode(s, pc)
  BY <1>0, <1>2, FuncIs DEF SInv
<1>4. /\ n <= s.lookahead + 1 /\ s.match_available
  BY <1>2, <1>3 DEF SlowMode, TurnMode, Turning
<1>5. /\ n \in Nat /\ rest \in Nat /\ end \in Nat /\ d \in Int /\ end + rest <= WindowSize
      /\ s.strstart <= end /\ end <= s.strstart + s.lookahead
      /\ end + rest = s.strstart + s.lookahead
  <2>1. /\ s.strstart \in Nat /\ s.lookahead \in Nat /\ n \in Nat /\ s.prev_match \in Int
        /\ s.strstart + s.lookahead <= WindowSize
    BY <1>0
  <2>2. n >= 3 /\ n <= s.lookahead + 1
    BY <1>2, <1>4
  <2> DEFINE st == s.strstart
             la == s.lookahead
  <2>3. d \in Int
    BY <2>1
  <2>4. st \in Nat /\ la \in Nat /\ n \in Nat /\ st + la <= WindowSize /\ n >= 3 /\ n <= la + 1
    BY <2>1, <2>2
  <2>5. rest = la - (n - 1) /\ end = st - 1 + n
    OBVIOUS
  <2> HIDE DEF n, st, la, rest, end, d
  <2>6. /\ rest \in Nat /\ end \in Nat /\ end + rest <= WindowSize
        /\ st <= end /\ end <= st + la /\ end + rest = st + la
    BY <2>4, <2>5, Sizes
  <2> QED
    BY <2>3, <2>4, <2>6 DEF st, la
<1>6. to \in Int /\ to <= end /\ to + 2 < WindowSize
  <2>1. max_insert = s.strstart + s.lookahead - 3
    BY Sizes
  <2> HIDE DEF max_insert, end
  <2>2. max_insert \in Int /\ max_insert + 2 < WindowSize
    BY <1>0, <2>1, Sizes
  <2> QED
    BY <1>5, <2>2, Sizes DEF Smaller
<1>7. i \in DState /\ Rehashed(i, s)
  <2> HIDE DEF end, to
  <2> QED
    BY <1>0, <1>5, <1>6, MatchInserted
<1>8. v \in DState /\ Tallied(v, i)
  <2> HIDE DEF i, d
  <2> QED
    BY <1>5, <1>7, TallyDistIs
<1>1. s' = t /\ pc' = (IF BlockFull(t) THEN "flush" ELSE "top")
  <2> DEFINE r == [v EXCEPT !.strstart = end, !.lookahead = @ - (n - 1),
                            !.prev_length = 0, !.match_available = FALSE, !.match_length = 2]
  <2>1. MIN_MATCH - 1 = 2
    BY Sizes
  <2>2. s' = r /\ pc' = (IF BlockFull(r) THEN "flush" ELSE "top")
    BY <2>1, Zenon DEF TakePreviousMatch, EndTurn
  <2>3. v.lookahead = s.lookahead
    <3> HIDE DEF v, i
    <3> QED
      BY <1>7, <1>8, Zenon DEF Tallied, Rehashed
  <2>4. r = [v EXCEPT !.strstart = end, !.lookahead = v.lookahead - (n - 1),
                      !.prev_length = 0, !.match_available = FALSE, !.match_length = 2]
    <3> HIDE DEF v, end
    <3> QED
      BY Zenon
  <2>5. r = t
    <3> HIDE DEF v, end, r
    <3> QED
      BY <2>3, <2>4, Zenon
  <2> HIDE DEF r, t
  <2> QED
    BY <2>2, <2>5
<1>9. Done(s) = s.strstart - 1
  BY <1>0, <1>4 DEF Done, Und
<1>10. v = TallyDist(i, Done(s) - s.prev_match, n) /\ end = Done(s) + n
  BY <1>9
<1> HIDE DEF i, rest, end, d, to, v
<1>11. /\ t \in DState /\ t.strstart = end /\ t.lookahead = rest /\ t.match_length = 2
       /\ ~t.match_available
  BY <1>5, <1>8 DEF DState
<1>12. /\ t.level = v.level /\ t.status = v.status /\ t.last_flush = v.last_flush
       /\ t.wrap = v.wrap /\ t.window = v.window /\ t.adler = v.adler
       /\ t.block_start = v.block_start /\ t.bits = v.bits /\ t.pending = v.pending
       /\ t.sym = v.sym
  OBVIOUS
<1> HIDE DEF t
<1>13. MatchAt(s, Done(s), s.prev_match, n) /\ FuncOf(s) # "stored"
  <2>1. Turning(pc)
    BY <1>2 DEF Turning
  <2> QED
    BY <1>3, <1>9, <2>1 DEF TextInv, MatchText
<1>14. WindowText(s) /\ Hashable(s.adler) /\ SymText(s)
  BY DEF TextInv
<1>15. t.strstart = Done(s) + n /\ t.strstart + t.lookahead = s.strstart + s.lookahead
  BY <1>5, <1>10, <1>11
<1> HIDE DEF n
<1>16. Turned(t, s) /\ SymText(t) /\ FuncOf(t) = "slow" /\ Hashable(t.adler) /\ WindowText(t)
  BY <1>0, <1>2, <1>3, <1>5, <1>7, <1>10, <1>11, <1>12, <1>13, <1>14, <1>15, MatchTakenText
<1>17. TextInv(t, pc')
  BY <1>1, <1>11, <1>16 DEF TextInv, MatchText, MatchAt, Turning
<1> QED
  BY <1>1, <1>16, <1>17

-----------------------------------------------------------------------------
(* The blocks.                                                             *)

\* The bytes of a block that begins in the window.
LEMMA BlockStands ==
    ASSUME NEW t, Shape(t), WindowText(t), t.block_start >= 0,
           NEW to \in Nat, t.block_start <= to, to <= t.strstart
    PROVE  /\ Stands(t, t.adler, Ended(t), to - t.block_start)
           /\ to - t.block_start \in Nat /\ Ended(t) + (to - t.block_start) = Off(t) + to
<1>1. /\ t.strstart \in Nat /\ t.lookahead \in Nat /\ t.block_start \in Int
      /\ Off(t) \in Nat /\ Len(t.adler) \in Nat
      /\ Off(t) + t.strstart + t.lookahead = Len(t.adler)
      /\ t.strstart + t.lookahead <= WindowSize
  BY TextTypes
<1> DEFINE o == Off(t)
           x == t.strstart
           y == t.lookahead
           z == t.block_start
           l == Len(t.adler)
           n == to - z
           a == o + z
<1>2. /\ x \in Nat /\ y \in Nat /\ z \in Nat /\ o \in Nat /\ l \in Nat
      /\ o + x + y = l /\ x + y <= WindowSize /\ z <= to /\ to <= x
  BY <1>1
<1>3. \A i \in 0..((x + y) - 1) : t.window[i] = t.adler[o + i + 1]
  BY Zenon DEF WindowText
<1>4. Ended(t) = a
  BY DEF Ended
<1> HIDE DEF o, x, y, l
<1>5. n \in Nat /\ a \in Nat /\ a + n = o + to
  BY <1>2
<1>6. a + n <= l /\ z + n <= WindowSize
  BY <1>2, Sizes
<1>7. ASSUME NEW i \in 1..n PROVE t.window[z + i - 1] = t.adler[a + i]
  <2> DEFINE k == z + i - 1
  <2>1. k \in 0..((x + y) - 1) /\ o + k + 1 = a + i
    BY <1>2
  <2> HIDE DEF k, a
  <2>2. t.window[k] = t.adler[o + k + 1]
    BY <1>3, <2>1, Zenon
  <2> QED
    BY <2>1, <2>2 DEF k
<1>8. z >= 0
  BY <1>2
<1> HIDE DEF a, n
<1>9. Stands(t, t.adler, a, n)
  BY <1>5, <1>6, <1>7, <1>8, Zenon DEF Stands, z, l
<1> QED
  BY <1>4, <1>5, <1>9 DEF n, o, z

\* FLUSH_BLOCK_ONLY: the block says the text up to "to".
LEMMA FlushBlockSays ==
    ASSUME NEW t, Shape(t), WindowText(t), NEW to \in Nat, t.block_start <= to, to <= t.strstart,
           FuncOf(t) # "stored" => SymbolsSay(t.adler, t.sym, Ended(t), Off(t) + to),
           FuncOf(t) = "stored" => t.block_start >= 0,
           NEW stored \in Storable(t), NEW last \in BOOLEAN, NEW front \in Seq(Bytes),
           Says(Put(front, t), "block", Prefix(t.adler, Ended(t)))
    PROVE  Says(Put(front, FlushBlock(t, to, last, stored)), BlockEnd(last),
                Prefix(t.adler, Off(t) + to))
<1> DEFINE made == IF stored THEN StoredBlock(t, to - t.block_start, last)
                             ELSE CodedBlock(t, last)
           end == IF last THEN WindUp(made) ELSE made
           r == [end EXCEPT !.sym = << >>, !.block_start = to]
           u == FlushBlock(t, to, last, stored)
           e == Put(front, t)
           says == Prefix(t.adler, Off(t) + to)
<1>1. u = r
  BY Zenon DEF FlushBlock
<1>2. /\ t \in DState /\ t.adler \in Seq(Nat) /\ t.block_start \in Int
      /\ t.strstart <= WindowSize /\ to <= WindowSize /\ t.level \in Levels
  <2>1. /\ t \in DState /\ t.adler \in Seq(Nat) /\ t.block_start \in Int
        /\ t.strstart \in Nat /\ t.lookahead \in Nat /\ t.strstart + t.lookahead <= WindowSize
    BY TextTypes
  <2> QED
    BY <2>1, Fields, Sizes
<1>3. e \in Seq(Items)
  BY <1>2, PutType
<1>4. made \in DState /\ Says(Put(front, made), BlockEnd(last), says)
  <2>1. CASE stored
    <3>1. t.block_start >= 0
      <4>1. ~(t.block_start < 0)
        BY <2>1, Zenon DEF Storable
      <4> QED
        BY <1>2, <4>1
    <3> DEFINE n == to - t.block_start
               m == StoredBlock(t, n, last)
               a == Ended(t)
    <3>2. Stands(t, t.adler, a, n) /\ n \in Nat /\ a + n = Off(t) + to
      BY <3>1, BlockStands
    <3>3. t.block_start + n <= WindowSize /\ a \in Nat
      BY <3>2 DEF Stands
    <3>4. made = m
      BY <2>1
    <3> HIDE DEF n, made
    <3>5. m \in DState
      BY <1>2, <3>1, <3>2, <3>3, StoredBlockIs
    <3>6. Put(front, m) = Cat(Append(e, Stored(n, last)), FlattenSeq(Raws(t, n)))
      BY <1>2, <3>1, <3>2, <3>3, StoredBlockPuts
    <3> HIDE DEF m, e, a
    <3>7. Says(e, "block", Prefix(t.adler, a))
      BY DEF e, a
    <3>8. Says(Cat(Append(e, Stored(n, last)), FlattenSeq(Raws(t, n))), BlockEnd(last),
               Prefix(t.adler, a + n))
      BY <1>2, <1>3, <3>2, <3>3, <3>7, StoredSays
    <3> QED
      BY <3>2, <3>4, <3>5, <3>6, <3>8
  <2>2. CASE ~stored
    <3> DEFINE c == Coded(t, last)
               m == SendBits(t, c)
               a == Ended(t)
               b == Off(t) + to
    <3>1. c \in Seq(Items)
      BY <1>2, CodedType
    <3>2. made = m
      BY <1>2, <2>2, CodedBlockIs
    <3>3. FuncOf(t) # "stored"
      <4> SUFFICES ASSUME FuncOf(t) = "stored" PROVE FALSE
        OBVIOUS
      <4>1. t.level = 0 /\ t.block_start >= 0
        BY <1>2, DeflateConstants DEF FuncOf
      <4>2. ~(t.block_start < 0)
        BY <1>2, <4>1
      <4> QED
        BY <2>2, <4>1, <4>2, Zenon DEF Storable
    <3> HIDE DEF c, made
    <3>4. m \in DState
      BY <1>2, <3>1, SendBitsIs
    <3>5. Put(front, m) = Cat(e, c)
      BY <1>2, <3>1, SendBitsPuts
    <3>6. SymbolsSay(t.adler, t.sym, a, b) /\ Says(e, "block", Prefix(t.adler, a))
      BY <3>3
    <3> HIDE DEF e, a, b, m
    <3>7. Says(Cat(e, Coded(t, last)), BlockEnd(last), Prefix(t.adler, b))
      BY <1>2, <1>3, <3>6, CodedSays
    <3> QED
      BY <3>2, <3>4, <3>5, <3>7 DEF c, b
  <2> QED
    BY <2>1, <2>2
<1> HIDE DEF made, says
<1>5. Put(front, end) = Put(front, made)
  BY <1>4, WindUpPuts
<1> HIDE DEF end
<1>6. r.pending = end.pending /\ r.bits = end.bits
  OBVIOUS
<1> HIDE DEF r
<1>7. Put(front, r) = Put(front, end)
  BY <1>6, Zenon DEF Put
<1> QED
  BY <1>1, <1>4, <1>5, <1>7 DEF says

\* What has left the filter or waits in its buffers.
Ahead == Cat(Cat(out, luabuf), buf)

LEMMA AheadType ==
    ASSUME IoTypes
    PROVE  Ahead \in Seq(Bytes)
<1> DEFINE B == Bytes
<1>1. out \in Seq(B) /\ luabuf \in Seq(B) /\ buf \in Seq(B)
  BY DEF IoTypes
<1> HIDE DEF B
<1> DEFINE a == Cat(out, luabuf)
<1>2. a \in Seq(B)
  BY <1>1, CatType
<1> HIDE DEF a
<1>3. Cat(a, buf) \in Seq(B)
  BY <1>1, <1>2, CatType
<1> QED
  BY <1>3 DEF Ahead, a, B

\* flush_pending moves bytes from one buffer to another.
LEMMA FlushPendingPuts ==
    ASSUME IoTypes, NEW t \in DState, FlushPending(t), UNCHANGED << out, luabuf >>
    PROVE  Put(Ahead', s') = Put(Ahead, t)
<1>1. PICK q \in Seq(Bytes) : buf' = Cat(buf, q) /\ t.pending = Cat(q, s'.pending)
  BY FlushPendingIs
<1>2. s' \in DState /\ s'.bits = t.bits
  BY FlushPendingIs
<1> DEFINE B == Bytes
           pe == s'.pending
           f == Ahead
           a == Cat(out, luabuf)
<1>3. pe \in Seq(B) /\ q \in Seq(B) /\ f \in Seq(B) /\ buf \in Seq(B)
  BY <1>1, <1>2, Fields, AheadType DEF Bytes, IoTypes
<1>4. a \in Seq(B)
  <2>1. out \in Seq(B) /\ luabuf \in Seq(B)
    BY DEF IoTypes
  <2> HIDE DEF B
  <2> QED
    BY <2>1, CatType
<1>5. Ahead' = Cat(a, Cat(buf, q)) /\ f = Cat(a, buf)
  BY <1>1 DEF Ahead
<1>6. Cat(a, Cat(buf, q)) = Cat(Cat(a, buf), q)
  <2> HIDE DEF a, B
  <2> QED
    BY <1>3, <1>4, CatAssoc
<1>7. Cat(Cat(f, q), pe) = Cat(f, Cat(q, pe))
  <2> HIDE DEF f, B, pe
  <2> QED
    BY <1>3, CatAssoc
<1>8. Ahead' = Cat(f, q)
  BY <1>5, <1>6
<1>9. Cat(Ahead', s'.pending) = Cat(Ahead, t.pending)
  BY <1>1, <1>7, <1>8
<1> QED
  BY <1>2, <1>9, Zenon DEF Put

\* What flush_pending leaves: no room, or nothing pending.
LEMMA FlushPendingRoom ==
    ASSUME IoTypes, NEW t \in DState, FlushPending(t)
    PROVE  /\ Len(t.pending) >= Left => Left' = 0
           /\ Len(t.pending) <= Left => s'.pending = << >>
<1>1. PICK q \in Seq(Bytes) : /\ buf' = Cat(buf, q) /\ t.pending = Cat(q, s'.pending)
                              /\ Len(q) = Smaller(Len(t.pending), Left)
  BY FlushPendingIs
<1>2. Left \in 0..BufSize /\ Len(buf) = BufSize - Left /\ Len(t.pending) \in Nat
  BY LeftType, Fields, LenProperties
<1> DEFINE B == Bytes
           pe == s'.pending
<1>3. buf \in Seq(B) /\ q \in Seq(B) /\ pe \in Seq(B)
  <2>1. s' \in DState
    BY FlushPendingIs
  <2> QED
    BY <1>1, <2>1, Fields DEF IoTypes, Bytes
<1> HIDE DEF B
<1>4. Len(buf') = Len(buf) + Len(q) /\ Len(t.pending) = Len(q) + Len(pe) /\ Len(pe) \in Nat
  BY <1>1, <1>3, CatType, LenProperties
<1>5. ASSUME Len(t.pending) >= Left PROVE Left' = 0
  <2>1. Len(q) = Left
    BY <1>1, <1>2, <1>5 DEF Smaller
  <2>2. Len(buf') = BufSize
    BY <1>2, <1>4, <2>1, Sizes
  <2>3. Left' = BufSize - Len(buf')
    BY DEF Left
  <2> QED
    BY <2>2, <2>3, Sizes
<1>6. ASSUME Len(t.pending) <= Left PROVE pe = << >>
  <2>1. Len(q) = Len(t.pending)
    BY <1>1, <1>2, <1>6 DEF Smaller
  <2>2. Len(pe) = 0
    BY <1>2, <1>4, <2>1
  <2> QED
    BY <1>3, <2>2, EmptySeq
<1> QED
  BY <1>5, <1>6

\* The blocks that have been made say the text up to where the next one begins.
InBlocks(front, t) == Says(Put(front, t), "block", Prefix(t.adler, Ended(t)))

\* Behind a block, the next one begins with no symbols.
LEMMA NewBlockText ==
    ASSUME NEW t, NEW p, NEW q, Shape(t), TextInv(t, p), ~Turning(p), ~Turning(q),
           NEW u, Written(u, t), u.sym = << >>, u.block_start = Done(t)
    PROVE  TextInv(u, q) /\ Ended(u) = Off(t) + Done(t)
<1>1. Done(t) \in Nat /\ Off(t) \in Nat
  BY DoneType DEF TextInv
<1>2. /\ Off(u) = Off(t) /\ FuncOf(u) = FuncOf(t) /\ u.adler = t.adler
      /\ Done(u) = Done(t) /\ Und(u) = Und(t) /\ Ended(u) = Off(t) + Done(t)
  BY Zenon DEF Written, Off, FuncOf, Done, Und, Ended
<1>3. Hashable(u.adler)
  BY <1>2 DEF TextInv
<1>4. WindowText(u)
  <2>1. \A i \in 0..((u.strstart + u.lookahead) - 1) : u.window[i] = u.adler[Off(u) + i + 1]
    BY <1>2, Zenon DEF TextInv, WindowText, Written
  <2>2. Off(u) >= 0 /\ Off(u) + u.block_start >= 0
    BY <1>1, <1>2
  <2> QED
    BY <2>1, <2>2, Zenon DEF WindowText
<1>5. MatchText(u, q)
  <2>1. q # "decide" /\ q # "search"
    BY DEF Turning
  <2>2. FuncOf(u) = "slow" => u.match_length >= 2
    BY <1>2, Zenon DEF TextInv, MatchText, Written
  <2>3. FuncOf(u) = "slow" => MatchAt(u, u.strstart - 1, u.match_start, u.match_length)
    BY <1>2, Zenon DEF TextInv, MatchText, Written, MatchAt
  <2> QED
    BY <2>1, <2>2, <2>3, Zenon DEF MatchText
<1>6. SymText(u)
  <2>1. SymbolsSay(u.adler, u.sym, Off(u) + Done(t), Off(u) + Done(t))
    BY SymbolsNone
  <2> QED
    BY <1>2, <2>1, Zenon DEF SymText, Done
<1> QED
  BY <1>2, <1>3, <1>4, <1>5, <1>6 DEF TextInv

\* What a block says, in the invariant's words.
LEMMA BlockSays ==
    ASSUME NEW t, NEW p, Shape(t), TextInv(t, p), NEW front \in Seq(Bytes), InBlocks(front, t),
           FuncOf(t) = "stored" => t.block_start >= 0,
           NEW stored \in Storable(t), NEW last \in BOOLEAN
    PROVE  Says(Put(front, FlushBlock(t, Done(t), last, stored)), BlockEnd(last),
                Prefix(t.adler, Off(t) + Done(t)))
<1> DEFINE to == Done(t)
<1>1. to \in Nat /\ to <= t.strstart /\ t.block_start <= to
  <2>1. to \in Nat /\ to + Und(t) = t.strstart /\ Und(t) \in { 0, 1 }
    BY DoneType DEF TextInv
  <2>2. /\ t.block_start <= t.strstart /\ t.block_start \in Int /\ t.strstart \in Nat
        /\ t.match_available => t.block_start < t.strstart
    BY Fields DEF Shape
  <2>3. Und(t) = 1 => t.match_available
    BY DEF Und
  <2> HIDE DEF to
  <2> DEFINE x == t.strstart
             z == t.block_start
             d == Und(t)
  <2>4. /\ to \in Nat /\ to + d = x /\ d \in { 0, 1 } /\ z <= x /\ z \in Int /\ x \in Nat
        /\ d = 1 => z < x
    BY <2>1, <2>2, <2>3
  <2> HIDE DEF x, z, d
  <2>5. to <= x /\ z <= to
    BY <2>4
  <2> QED
    BY <2>1, <2>5 DEF x, z
<1>2. WindowText(t)
  BY DEF TextInv
<1>3. FuncOf(t) # "stored" => SymbolsSay(t.adler, t.sym, Ended(t), Off(t) + to)
  BY Zenon DEF TextInv, SymText, Ended, Done
<1>4. Says(Put(front, t), "block", Prefix(t.adler, Ended(t)))
  BY DEF InBlocks
<1> HIDE DEF to
<1>5. Says(Put(front, FlushBlock(t, to, last, stored)), BlockEnd(last), Prefix(t.adler, Off(t) + to))
  BY <1>1, <1>2, <1>3, <1>4, FlushBlockSays
<1> QED
  BY <1>5 DEF to

\* FLUSH_BLOCK
LEMMA FlushFullText ==
    ASSUME IInv, TextInv(s, pc), FlushFull
    PROVE  /\ TextInv(s', pc')
           /\ s'.status = s.status /\ s'.wrap = s.wrap /\ s'.last_flush = s.last_flush
           /\ s'.adler = s.adler
           /\ InBlocks(Ahead, s) => InBlocks(Ahead', s')
           /\ pc' \in { "need_more", "top" } /\ (pc' = "need_more" => Left' = 0)
<1> DEFINE to == s.strstart - Undecided
           f(x) == FlushBlock(s, to, FALSE, x)
<1>0. /\ IoTypes /\ SInv(s, pc) /\ s \in DState /\ Shape(s)
      /\ s.strstart \in Nat /\ s.lookahead \in Nat /\ s.block_start \in Int
      /\ s.strstart + s.lookahead <= WindowSize /\ s.block_start <= s.strstart
      /\ s.match_available => s.strstart >= 1 /\ s.block_start < s.strstart
  BY Fields DEF IInv, SInv, Shape
<1>1. PICK stored \in Storable(s) :
        /\ pc = "flush" /\ FlushPending(f(stored)) /\ pc' \in { "need_more", "top" }
        /\ pc' = "need_more" => NoRoomAfter(f(stored))
        /\ UNCHANGED << flush, ret, input, luabuf, history >>
  BY DEF FlushFull, NeedMore
<1>2. to = Done(s)
  BY Zenon DEF Undecided, Done, Und
<1>3. /\ to \in Nat /\ to <= s.strstart /\ s.block_start <= to /\ to <= WindowSize
  <2>1. Undecided = IF s.match_available THEN 1 ELSE 0
    BY DEF Undecided
  <2> QED
    BY <1>0, <2>1, Sizes
<1> HIDE DEF to
<1> DEFINE u == f(stored)
<1>4. u \in DState /\ Flushed(u, s) /\ u.sym = << >> /\ u.block_start = to
  BY <1>0, <1>1, <1>3, FlushBlockIs
<1>5. FlushPending(u) /\ UNCHANGED << out, luabuf >>
  BY <1>1 DEF history
<1>6. FuncOf(s) = "stored" => s.block_start >= 0
  BY <1>0 DEF SInv, StoredMode
<1>7. InBlocks(Ahead, s) => Says(Put(Ahead, u), "block", Prefix(s.adler, Off(s) + to))
  <2> SUFFICES ASSUME InBlocks(Ahead, s)
               PROVE  Says(Put(Ahead, u), "block", Prefix(s.adler, Off(s) + to))
    OBVIOUS
  <2>1. Ahead \in Seq(Bytes)
    BY <1>0, AheadType
  <2> DEFINE w == FlushBlock(s, Done(s), FALSE, stored)
  <2>2. Says(Put(Ahead, w), BlockEnd(FALSE), Prefix(s.adler, Off(s) + Done(s)))
    BY <1>0, <1>1, <1>6, <2>1, BlockSays
  <2>3. u = w
    BY <1>2
  <2>4. BlockEnd(FALSE) = "block"
    BY DEF BlockEnd
  <2> HIDE DEF w, u
  <2> QED
    BY <1>2, <2>2, <2>3, <2>4
<1>13. pc' = "need_more" => Len(u.pending) >= Left
  BY <1>1 DEF NoRoomAfter
<1> HIDE DEF u, f
<1>14. pc' = "need_more" => Left' = 0
  BY <1>0, <1>4, <1>5, <1>13, FlushPendingRoom
<1>8. s' \in DState /\ Sent(s', u)
  BY <1>0, <1>4, <1>5, FlushPendingIs
<1>9. Put(Ahead', s') = Put(Ahead, u)
  BY <1>0, <1>4, <1>5, FlushPendingPuts
<1>10. Flushed(s', s) /\ s'.sym = << >> /\ s'.block_start = Done(s)
  BY <1>2, <1>4, <1>8, Zenon DEF Flushed, Sent, Written
<1>11. TextInv(s', pc') /\ Ended(s') = Off(s) + Done(s)
  <2>1. ~Turning(pc) /\ ~Turning(pc') /\ Written(s', s)
    BY <1>1, <1>10 DEF Turning, Flushed
  <2> QED
    BY <1>0, <1>10, <2>1, NewBlockText
<1>12. s'.adler = s.adler /\ s'.status = s.status /\ s'.wrap = s.wrap
       /\ s'.last_flush = s.last_flush
  BY <1>10 DEF Flushed, Written
<1> QED
  BY <1>1, <1>2, <1>7, <1>9, <1>11, <1>12, <1>14, Zenon DEF InBlocks

\* The end of the input in finish(): the last literal, and the last block.
LEMMA LastBlockText ==
    ASSUME IInv, TextInv(s, pc), LastBlock
    PROVE  /\ TextInv(s', pc')
           /\ s'.status = "FINISH" /\ s'.wrap = s.wrap /\ s'.last_flush = s.last_flush
           /\ s'.adler = s.adler /\ s'.bits = << >> /\ s'.lookahead = 0
           /\ InBlocks(Ahead, s) => Says(Put(Ahead', s'), "check", s'.adler)
           /\ pc' \in { "need_more", "tail" } /\ (pc' = "need_more" => Left' = 0)
           /\ pc' = "tail" => s'.pending = << >>
<1> DEFINE v == TallyPrevious(s)
           w == [v EXCEPT !.match_available = FALSE]
           t == IF s.match_available THEN w ELSE s
           f(x) == FlushBlock(t, t.strstart, TRUE, x)
           g(x) == [f(x) EXCEPT !.status = "FINISH"]
<1>0. /\ IoTypes /\ SInv(s, pc) /\ s \in DState /\ Shape(s)
      /\ s.strstart \in Nat /\ s.lookahead \in Nat /\ s.block_start \in Int
      /\ s.strstart + s.lookahead <= WindowSize /\ s.block_start <= s.strstart
      /\ s.match_available => s.strstart >= 1 /\ s.block_start < s.strstart
  BY Fields DEF IInv, SInv, Shape
<1>1. PICK stored \in Storable(t) :
        /\ pc = "filled" /\ s.lookahead = 0
        /\ FlushPending(g(stored)) /\ pc' \in { "need_more", "tail" }
        /\ pc' = "need_more" <=> NoRoomAfter(f(stored))
        /\ UNCHANGED << flush, ret, input, luabuf, history >>
  BY DEF LastBlock
<1>2. /\ Shape(t) /\ TextInv(t, "filled") /\ Turned(t, s) /\ ~t.match_available
      /\ t.strstart = s.strstart /\ t.lookahead = 0
  <2>0. Len(s.sym) < LitBufSize - 1 /\ Len(s.sym) \in Nat /\ TextInv(s, "filled")
    BY <1>0, <1>1, Fields, LenProperties DEF SInv, TurnMode
  <2>1. CASE s.match_available
    <3>1. s.strstart >= 1 /\ s.strstart <= WindowSize
      BY <1>0, <2>1, Sizes
    <3>2. /\ v \in DState /\ Tallied(v, s) /\ Len(v.sym) = Len(s.sym) + 1
          /\ v.sym = Append(s.sym, << Lit(s.window[s.strstart - 1]) >>)
      BY <1>0, <3>1, TallyPreviousIs
    <3> HIDE DEF v
    <3>3. w \in DState /\ ~w.match_available
      BY <3>2 DEF DState
    <3>5. /\ w.level = v.level /\ w.status = v.status /\ w.last_flush = v.last_flush
          /\ w.wrap = v.wrap /\ w.window = v.window /\ w.head = v.head /\ w.prev = v.prev
          /\ w.strstart = v.strstart /\ w.lookahead = v.lookahead
          /\ w.block_start = v.block_start /\ w.match_length = v.match_length
          /\ w.match_start = v.match_start /\ w.prev_length = v.prev_length
          /\ w.prev_match = v.prev_match /\ w.bits = v.bits /\ w.sym = v.sym
          /\ w.pending = v.pending /\ w.adler = v.adler
      OBVIOUS
    <3>6. t = w
      BY <2>1
    <3> HIDE DEF w, t
    <3>7. Len(w.sym) < LitBufSize
      BY <2>0, <3>2, <3>5, Sizes
    <3>8. /\ w.level = s.level /\ w.head = s.head /\ w.prev = s.prev
          /\ w.strstart = s.strstart /\ w.lookahead = s.lookahead
          /\ w.block_start = s.block_start /\ w.match_length = s.match_length
          /\ w.match_start = s.match_start
          /\ w.prev_length = s.prev_length /\ w.bits = s.bits /\ Turned(w, s)
      BY <3>2, <3>5, Zenon DEF Tallied, Turned
    <3>9. Shape(w)
      <4>1. Below(w, w.strstart)
        BY <1>0, <3>8 DEF Below, Shape
      <4> QED
        BY <1>0, <3>3, <3>7, <3>8, <4>1, Zenon DEF Shape
    <3>10. Done(s) = s.strstart - 1 /\ Done(w) = s.strstart /\ Done(w) = Done(s) + 1
      BY <1>0, <2>1, <3>3, <3>8 DEF Done, Und
    <3>11. SymText(w)
      <4>1. FuncOf(s) # "stored"
        BY <1>0, <2>1 DEF SInv, StoredMode
      <4>2. Done(s) < s.strstart + s.lookahead
        BY <1>0, <3>1, <3>10
      <4>3. w.sym = Append(s.sym, << Lit(s.window[Done(s)]) >>)
        BY <3>2, <3>5, <3>10
      <4>4. WindowText(s) /\ Hashable(s.adler) /\ SymText(s)
        BY DEF TextInv
      <4> QED
        BY <1>0, <3>8, <3>10, <4>1, <4>2, <4>3, <4>4, LitText
    <3>12. Hashable(w.adler) /\ WindowText(w) /\ FuncOf(w) = FuncOf(s) /\ Off(w) = Off(s)
           /\ w.adler = s.adler
      BY <3>8, TurnedText DEF TextInv, Turned
    <3>13. MatchText(w, "filled")
      <4>1. ~Turning("filled")
        BY DEF Turning
      <4>2. FuncOf(w) = "slow" => w.match_length >= 2
        BY <2>0, <3>8, <3>12, Zenon DEF TextInv, MatchText
      <4>3. FuncOf(w) = "slow" => MatchAt(w, w.strstart - 1, w.match_start, w.match_length)
        BY <2>0, <3>8, <3>12, <4>1, Zenon DEF TextInv, MatchText, MatchAt
      <4> QED
        BY <4>1, <4>2, <4>3 DEF MatchText
    <3> QED
      BY <1>1, <3>3, <3>6, <3>8, <3>9, <3>11, <3>12, <3>13 DEF TextInv
  <2>2. CASE ~s.match_available
    <3>1. t = s
      BY <2>2
    <3> HIDE DEF t
    <3> QED
      BY <1>0, <1>1, <2>0, <2>2, <3>1 DEF Turned
  <2> QED
    BY <2>1, <2>2
<1> HIDE DEF t
<1>3. t \in DState /\ t.strstart \in Nat /\ Done(t) = t.strstart /\ t.strstart <= WindowSize
      /\ t.block_start <= t.strstart
  <2>1. t \in DState /\ t.strstart \in Nat /\ t.block_start <= t.strstart
    BY <1>2, Fields DEF Shape
  <2> QED
    BY <1>0, <1>2, <2>1, Sizes DEF Done, Und
<1> DEFINE u == f(stored)
           x == g(stored)
<1>4. u \in DState /\ Flushed(u, t) /\ u.sym = << >> /\ u.block_start = t.strstart
      /\ u.bits = << >>
  BY <1>1, <1>3, FlushBlockIs
<1>5. FlushPending(x) /\ UNCHANGED << out, luabuf >>
  BY <1>1 DEF history
<1>6. FuncOf(t) = "stored" => t.block_start >= 0
  BY <1>0, <1>2, TurnedText DEF SInv, StoredMode, Turned
<1>7. Prefix(t.adler, Off(t) + t.strstart) = t.adler
  <2>1. /\ t.adler \in Seq(Nat) /\ Off(t) + t.strstart + t.lookahead = Len(t.adler)
        /\ Off(t) \in Nat
    BY <1>2, TextTypes DEF TextInv
  <2>2. Off(t) + t.strstart = Len(t.adler)
    BY <1>2, <1>3, <2>1
  <2> QED
    BY <2>1, <2>2, PrefixNone
<1>8. InBlocks(Ahead, t) => Says(Put(Ahead, u), "check", t.adler)
  <2> SUFFICES ASSUME InBlocks(Ahead, t) PROVE Says(Put(Ahead, u), "check", t.adler)
    OBVIOUS
  <2>1. Ahead \in Seq(Bytes)
    BY <1>0, AheadType
  <2> DEFINE y == FlushBlock(t, Done(t), TRUE, stored)
  <2>2. Says(Put(Ahead, y), BlockEnd(TRUE), Prefix(t.adler, Off(t) + Done(t)))
    BY <1>1, <1>2, <1>6, <2>1, BlockSays
  <2>3. u = y
    BY <1>3
  <2>4. BlockEnd(TRUE) = "check"
    BY DEF BlockEnd
  <2> HIDE DEF y, u
  <2> QED
    BY <1>3, <1>7, <2>2, <2>3, <2>4
<1>9. InBlocks(Ahead, s) => InBlocks(Ahead, t)
  <2>1. Ended(t) = Ended(s) /\ t.adler = s.adler /\ t.pending = s.pending /\ t.bits = s.bits
    BY <1>2, TurnedText DEF Turned
  <2> QED
    BY <2>1, Zenon DEF InBlocks, Put
<1>18. pc' = "need_more" <=> Len(u.pending) >= Left
  BY <1>1 DEF NoRoomAfter
<1> HIDE DEF f
<1>10. x = [u EXCEPT !.status = "FINISH"]
  OBVIOUS
<1> HIDE DEF u, x, g
<1>11. x \in DState /\ x.status = "FINISH"
  BY <1>4, <1>10 DEF DState
<1>12. /\ Written(x, u) /\ x.sym = u.sym /\ x.block_start = u.block_start /\ x.bits = u.bits
       /\ x.pending = u.pending /\ x.wrap = u.wrap /\ x.last_flush = u.last_flush
  BY <1>10 DEF Written
<1>13. s' \in DState /\ Sent(s', x) /\ s'.bits = x.bits
  BY <1>0, <1>5, <1>11, FlushPendingIs
<1>19. (pc' = "need_more" => Left' = 0) /\ (pc' = "tail" => s'.pending = << >>)
  <2>1. (Len(x.pending) >= Left => Left' = 0) /\ (Len(x.pending) <= Left => s'.pending = << >>)
    BY <1>0, <1>5, <1>11, FlushPendingRoom
  <2>2. Left \in Nat /\ Len(x.pending) \in Nat
    BY <1>0, <1>11, LeftType, Fields, LenProperties
  <2>3. Len(x.pending) = Len(u.pending)
    BY <1>12
  <2> HIDE DEF x, u
  <2> QED
    BY <1>1, <1>18, <2>1, <2>2, <2>3
<1>14. Put(Ahead', s') = Put(Ahead, u)
  <2>1. Put(Ahead', s') = Put(Ahead, x)
    BY <1>0, <1>5, <1>11, FlushPendingPuts
  <2> QED
    BY <1>12, <2>1, Zenon DEF Put
<1>15. /\ Written(s', t) /\ s'.sym = << >> /\ s'.block_start = Done(t) /\ s'.bits = << >>
       /\ s'.wrap = t.wrap /\ s'.last_flush = t.last_flush /\ s'.status = "FINISH"
  BY <1>3, <1>4, <1>11, <1>12, <1>13, Zenon DEF Flushed, Sent, Written
<1>16. TextInv(s', pc')
  <2>1. ~Turning("filled") /\ ~Turning(pc')
    BY <1>1 DEF Turning
  <2> QED
    BY <1>2, <1>15, <2>1, NewBlockText
<1>17. s'.adler = s.adler /\ s'.lookahead = 0 /\ t.adler = s.adler /\ t.wrap = s.wrap
       /\ t.last_flush = s.last_flush
  BY <1>2, <1>15 DEF Written, Turned
<1> QED
  BY <1>1, <1>8, <1>9, <1>14, <1>15, <1>16, <1>17, <1>19, Zenon

-----------------------------------------------------------------------------
(* The text at every step.                                                 *)

\* Where the state is the same, or differs in nothing the text is about.
LEMMA TextStays ==
    ASSUME NEW t, NEW u, NEW p, NEW q, TextInv(t, p), ~Turning(p), ~Turning(q), TextAlike(u, t)
    PROVE  TextInv(u, q)
<1>1. TextInv(t, q)
  <2>1. q # "decide" /\ q # "search" /\ p # "decide" /\ p # "search"
    BY DEF Turning
  <2> QED
    BY <2>1 DEF TextInv, MatchText
<1> QED
  BY <1>1, TextAlikeKeeps

LEMMA InitText == Init => TextInv(s, pc) /\ Hashable(input)
<1> SUFFICES ASSUME Init PROVE TextInv(s, pc) /\ Hashable(input)
  OBVIOUS
<1>1. PICK level \in Levels : s = State(level)
  BY DEF Init
<1>2. pc = "none" /\ input = << >>
  BY DEF Init
<1>3. /\ s.adler = << >> /\ s.strstart = 0 /\ s.lookahead = 0 /\ s.block_start = 0
      /\ s.match_length = 2 /\ s.match_start = 0 /\ ~s.match_available /\ s.sym = << >>
  BY <1>1, Sizes DEF State
<1>4. Len(<< >>) = 0
  BY EmptySeq
<1>5. Hashable(<< >>)
  BY <1>4 DEF Hashable
<1>6. WindowText(s)
  BY <1>3, <1>4 DEF WindowText, Off
<1>7. MatchText(s, pc)
  BY <1>2, <1>3 DEF MatchText, Turning, MatchAt
<1>8. SymText(s)
  <2>1. Off(s) + s.block_start = 0 /\ Off(s) + s.strstart - Und(s) = 0
    BY <1>3, <1>4 DEF Off, Und
  <2>2. SymbolsSay(s.adler, << >>, 0, 0)
    BY SymbolsNone
  <2> QED
    BY <1>3, <2>1, <2>2 DEF SymText
<1> QED
  BY <1>2, <1>3, <1>5, <1>6, <1>7, <1>8 DEF TextInv

\* The bytes a caller gives are those of texts.
LEMMA ChunkText ==
    ASSUME IoTypes, NEW chunk \in Chunks
    PROVE  Hashable(chunk)
<1>0. fed \in Seq(Nat) /\ Len(fed) \in Nat
  BY LenProperties DEF IoTypes
<1>1. ASSUME NEW t \in Texts, NEW i \in 1..Len(t) PROVE t[i] \in 0..(HashSize - 1)
  <2>1. t \in Seq(Nat)
    BY DeflateConstants
  <2>2. t[i] \in Nat
    BY <2>1, ElementOfSeq
  <2>3. t[i] < HashSize
    BY HashRolls
  <2> DEFINE x == t[i]
  <2> HIDE DEF x
  <2>4. x \in 0..(HashSize - 1)
    BY <2>2, <2>3, Sizes DEF x
  <2> QED
    BY <2>4 DEF x
<1>2. CASE stage = "open"
  <2>1. PICK t \in { x \in Texts : IsPrefix(fed, x) }, n \in ChunkSizes :
           chunk = SubSeq(t, Len(fed) + 1, Smaller(Len(t), Len(fed) + n))
    BY <1>2 DEF Chunks
  <2>2. t \in Seq(Nat) /\ n \in Nat /\ t \in Texts
    BY <2>1, DeflateConstants
  <2> DEFINE a == Len(fed) + 1
             b == Smaller(Len(t), Len(fed) + n)
  <2>3. Len(t) \in Nat
    BY <2>2, LenProperties
  <2>4. a \in Nat /\ a >= 1 /\ b \in Int /\ b <= Len(t)
    BY <1>0, <2>2, <2>3 DEF Smaller
  <2>5. chunk = SubSeq(t, a, b)
    BY <2>1
  <2> HIDE DEF a, b
  <2>6. \A i \in a..b : t[i] \in Nat
    BY <2>2, <2>3, <2>4, ElementOfSeq
  <2>7. /\ \A i \in 1..Len(chunk) : chunk[i] = t[a + i - 1] /\ a + i - 1 \in 1..Len(t)
    <3>1. CASE a <= b
      <4>1. Len(chunk) = b - a + 1 /\ \A i \in 1..(b - a + 1) : chunk[i] = t[a + i - 1]
        <5>1. a \in 1..Len(t) + 1 /\ b \in a - 1..Len(t) /\ a <= b
          BY <2>3, <2>4, <3>1
        <5> QED
          BY <2>2, <2>5, <5>1, SubSeqProperties
      <4> QED
        BY <2>3, <2>4, <3>1, <4>1
    <3>2. CASE a > b
      <4>1. Len(chunk) = 0
        BY <2>2, <2>4, <2>5, <3>2
      <4> QED
        BY <4>1
    <3> QED
      BY <2>4, <3>1, <3>2
  <2> QED
    BY <1>1, <2>2, <2>7 DEF Hashable
<1>3. CASE stage # "open"
  <2>1. chunk = << >> \/ \E t \in Texts : chunk \in { << t[i] >> : i \in 1..Len(t) }
    BY <1>3 DEF Chunks
  <2>2. CASE chunk = << >>
    BY <2>2, EmptySeq DEF Hashable
  <2>3. ASSUME NEW t \in Texts, chunk \in { << t[i] >> : i \in 1..Len(t) }
        PROVE  Hashable(chunk)
    <3>1. PICK i \in 1..Len(t) : chunk = << t[i] >>
      BY <2>3
    <3> DEFINE x == t[i]
    <3>2. x \in 0..(HashSize - 1)
      BY <1>1, <2>3, <3>1
    <3>3. chunk = << x >>
      BY <3>1
    <3> HIDE DEF x
    <3> QED
      BY <3>2, <3>3 DEF Hashable
  <2> QED
    BY <2>1, <2>2, <2>3
<1> QED
  BY <1>2, <1>3

\* The calls, and what follows a call of deflate.
LEMMA OutsideText ==
    ASSUME IInv, TextInv(s, pc), Hashable(input),
           Caller \/ OutOfSequence \/ ZlibError \/ GoOn \/ CallReturns \/ WaitForInput
    PROVE  TextInv(s', pc') /\ Hashable(input') /\ s' = s
<1>0. IoTypes
  BY DEF IInv
<1>1. Hashable(<< >>)
  BY EmptySeq DEF Hashable
<1>2. CASE Caller
  <2>1. CASE Create \/ Finish
    <3>1. s' = s /\ pc' \in { "idle", "loop" } /\ pc \in { "none", "idle" } /\ input' \in { input, << >> }
      BY <2>1 DEF Create, Finish
    <3> QED
      BY <1>1, <3>1, TextStays DEF Turning, TextAlike
  <2>2. ASSUME NEW chunk \in Chunks, Update(chunk)
        PROVE  TextInv(s', pc') /\ Hashable(input') /\ s' = s
    <3>1. s' = s /\ pc' \in { "idle", "loop" } /\ pc = "idle" /\ input' \in { chunk, << >> }
      BY <2>2 DEF Update, Return
    <3>2. Hashable(chunk)
      BY <1>0, <2>2, ChunkText
    <3> QED
      BY <1>1, <3>1, <3>2, TextStays DEF Turning, TextAlike
  <2> QED
    BY <1>2, <2>1, <2>2 DEF Caller
<1>3. CASE OutOfSequence \/ ZlibError \/ GoOn \/ CallReturns \/ WaitForInput
  <2>1. /\ s' = s /\ pc' \in { "idle", "loop", "called", "need_more" }
        /\ pc \in { "loop", "called", "filled" } /\ input' \in { input, << >> }
    BY <1>3 DEF OutOfSequence, ZlibError, GoOn, CallReturns, WaitForInput, Leave, NeedMore,
                Return, Raise
  <2> QED
    BY <1>1, <2>1, TextStays DEF Turning, TextAlike
<1> QED
  BY <1>2, <1>3

\* need_more and finish_started
LEMMA BlockNotDoneText ==
    ASSUME IInv, TextInv(s, pc), BlockNotDone
    PROVE  /\ TextInv(s', pc') /\ input' = input /\ TextAlike(s', s)
           /\ s'.status = s.status /\ s'.wrap = s.wrap /\ s'.bits = s.bits
           /\ s'.pending = s.pending /\ s'.last_flush = AvoidBufError
<1> DEFINE lf == AvoidBufError
           u == [s EXCEPT !.last_flush = lf]
<1>1. /\ s' = u /\ pc = "need_more" /\ pc' = "called" /\ input' = input
  BY DEF BlockNotDone, Leave
<1>2. s \in DState
  BY DEF IInv, SInv, Shape
<1> HIDE DEF lf
<1>3. u.last_flush = lf
  BY <1>2 DEF DState
<1>4. /\ TextAlike(u, s) /\ u.status = s.status /\ u.wrap = s.wrap /\ u.bits = s.bits
      /\ u.pending = s.pending
  BY DEF TextAlike
<1> HIDE DEF u
<1>5. TextInv(u, pc')
  BY <1>1, <1>4, TextStays DEF Turning
<1> QED
  BY <1>1, <1>3, <1>4, <1>5 DEF lf

\* The header, and what is pending.
LEMMA CallDeflateText ==
    ASSUME IInv, TextInv(s, pc), CallDeflate
    PROVE  /\ TextInv(s', pc') /\ TextAlike(s', s)
           /\ s'.wrap = s.wrap /\ s'.bits = s.bits
           /\ s'.status = IF s.status = "INIT" THEN "BUSY" ELSE s.status
           /\ Cat(buf', s'.pending) = IF s.status = "INIT"
                                      THEN Append(s.pending, << Simple("zlib") >>) ELSE s.pending
           /\ \/ Left' = 0 /\ pc' = "called" /\ ret' = "OK" /\ s'.last_flush = "NONE"
              \/ /\ Left' > 0 /\ s'.pending = << >> /\ s'.last_flush = flush
                 /\ \/ input = << >> /\ flush = "NO_FLUSH" /\ s.last_flush # "NONE"
                    \/ pc' = IF input # << >> \/ s.lookahead # 0
                                \/ (flush # "NO_FLUSH" /\ s.status # "FINISH")
                             THEN "top" ELSE "tail"
<1> DEFINE pe == Append(s.pending, << Simple("zlib") >>)
           header == [s EXCEPT !.pending = pe, !.status = "BUSY"]
           begun  == IF s.status = "INIT" THEN header ELSE s
           t      == [begun EXCEPT !.last_flush = flush]
           n      == Smaller(Len(t.pending), BufSize)
           rest   == SubSeq(t.pending, n + 1, Len(t.pending))
           full   == [t EXCEPT !.pending = rest, !.last_flush = "NONE"]
           e      == << >>
           empty  == [t EXCEPT !.pending = e]
           first  == SubSeq(t.pending, 1, n)
           on     == input = << >> /\ flush = "NO_FLUSH" /\ s.last_flush # "NONE"
           next   == IF input # << >> \/ s.lookahead # 0 \/ (flush # "NO_FLUSH" /\ s.status # "FINISH")
                     THEN "top" ELSE "tail"
<1>0. IoTypes /\ s \in DState
  BY DEF IInv, SInv, Shape
<1>1. /\ pc = "loop" /\ buf' = first
      /\ \/ n = BufSize /\ s' = full /\ pc' = "called" /\ ret' = "OK"
         \/ /\ n < BufSize /\ s' = empty
            /\ \/ on /\ pc' = "called"
               \/ pc' = next
      /\ UNCHANGED << flush, input, luabuf, history >>
  BY Zenon DEF CallDeflate, Leave
<1> HIDE DEF on, next
<1>2. pe \in Seq(Bytes)
  <2> DEFINE x == Simple("zlib")
             h == << x >>
  <2>1. x \in Items
    BY ItemTypes, Zenon
  <2> HIDE DEF x
  <2>2. h \in Seq(Items)
    BY <2>1
  <2> HIDE DEF h
  <2>3. h \in Bytes /\ s.pending \in Seq(Bytes)
    BY <1>0, <2>2, Fields DEF Bytes
  <2>4. Append(s.pending, h) \in Seq(Bytes)
    BY <2>3, AppendProperties
  <2> QED
    BY <2>4 DEF h, x
<1> DEFINE pp == IF s.status = "INIT" THEN pe ELSE s.pending
           st == IF s.status = "INIT" THEN "BUSY" ELSE s.status
<1> HIDE DEF pe
<1>3. /\ begun \in DState /\ TextAlike(begun, s) /\ begun.wrap = s.wrap /\ begun.bits = s.bits
      /\ begun.status = st /\ begun.pending = pp
  <2>1. CASE s.status = "INIT"
    <3>1. header \in DState /\ header.pending = pe /\ header.status = "BUSY"
      BY <1>0, <1>2 DEF DState, Bytes
    <3>2. TextAlike(header, s) /\ header.wrap = s.wrap /\ header.bits = s.bits
      BY DEF TextAlike
    <3>3. begun = header
      BY <2>1
    <3> HIDE DEF header, begun
    <3> QED
      BY <2>1, <3>1, <3>2, <3>3
  <2>2. CASE s.status # "INIT"
    BY <1>0, <2>2 DEF TextAlike
  <2> QED
    BY <2>1, <2>2
<1> HIDE DEF begun, pp, st
<1>4. /\ t \in DState /\ TextAlike(t, s) /\ t.wrap = s.wrap /\ t.bits = s.bits
      /\ t.status = st /\ t.pending = pp /\ t.last_flush = flush
  <2>1. flush \in { "NO_FLUSH", "FINISH" }
    BY <1>0 DEF IoTypes
  <2>2. t \in DState /\ t.last_flush = flush
    BY <1>3, <2>1 DEF DState
  <2>3. TextAlike(t, begun) /\ t.wrap = begun.wrap /\ t.bits = begun.bits
        /\ t.status = begun.status /\ t.pending = begun.pending
    BY DEF TextAlike
  <2> HIDE DEF t
  <2> QED
    BY <1>3, <2>2, <2>3, Zenon DEF TextAlike
<1> HIDE DEF t
<1>5. Len(t.pending) \in Nat /\ t.pending \in Seq(Bytes)
  BY <1>4, Fields, LenProperties DEF Bytes
<1>6. n \in 0..Len(t.pending) /\ n <= BufSize /\ (n < BufSize => n = Len(t.pending))
  BY <1>5, Sizes DEF Smaller
<1> HIDE DEF n
<1>7. /\ first \in Seq(Bytes) /\ Len(first) = n /\ rest \in Seq(Bytes)
      /\ Len(rest) = Len(t.pending) - n
  <2>1. PICK p \in Seq(Bytes) : p = t.pending
    BY <1>5
  <2>2. n \in 0..Len(p)
    BY <1>6, <2>1
  <2>3. /\ SubSeq(p, 1, n) \in Seq(Bytes) /\ Len(SubSeq(p, 1, n)) = n
        /\ SubSeq(p, n + 1, Len(p)) \in Seq(Bytes) /\ Len(SubSeq(p, n + 1, Len(p))) = Len(p) - n
    BY <2>2, CutInTwo
  <2> QED
    BY <2>1, <2>3
<1>8. Cat(first, rest) = t.pending
  <2>1. PICK p \in Seq(Bytes) : p = t.pending
    BY <1>5
  <2>2. n \in 0..Len(p)
    BY <1>6, <2>1
  <2>3. p = SubSeq(p, 1, n) \o SubSeq(p, n + 1, Len(p))
    BY <2>2, CutInTwo
  <2> QED
    BY <2>1, <2>3, Zenon DEF Cat
<1>9. n < BufSize => Cat(first, e) = t.pending
  <2> SUFFICES ASSUME n < BufSize PROVE Cat(first, e) = t.pending
    OBVIOUS
  <2>1. rest = << >>
    <3> HIDE DEF rest
    <3>1. Len(rest) = 0
      BY <1>5, <1>6, <1>7
    <3> QED
      BY <1>7, <3>1, EmptySeq
  <2> HIDE DEF rest, first
  <2> QED
    BY <1>8, <2>1
<1>10. Left' = BufSize - n
  BY <1>1, <1>7 DEF Left
<1> HIDE DEF first, rest
<1>11. /\ full.pending = rest /\ full.last_flush = "NONE"
       /\ TextAlike(full, t) /\ full.wrap = t.wrap /\ full.bits = t.bits /\ full.status = t.status
  <2>1. full.pending = rest /\ full.last_flush = "NONE"
    BY <1>4 DEF DState
  <2>2. TextAlike(full, t) /\ full.wrap = t.wrap /\ full.bits = t.bits /\ full.status = t.status
    BY DEF TextAlike
  <2> QED
    BY <2>1, <2>2
<1> HIDE DEF full
<1>12. /\ empty.pending = << >> /\ empty.last_flush = t.last_flush
       /\ TextAlike(empty, t) /\ empty.wrap = t.wrap /\ empty.bits = t.bits
       /\ empty.status = t.status
  <2>1. empty.pending = << >>
    BY <1>4 DEF DState
  <2>2. /\ empty.last_flush = t.last_flush
        /\ TextAlike(empty, t) /\ empty.wrap = t.wrap /\ empty.bits = t.bits
        /\ empty.status = t.status
    BY DEF TextAlike
  <2> QED
    BY <2>1, <2>2
<1> HIDE DEF empty
<1>13. /\ TextAlike(s', s) /\ s'.wrap = s.wrap /\ s'.bits = s.bits /\ s'.status = st
       /\ Cat(buf', s'.pending) = pp
  <2>1. CASE s' = full
    BY <1>1, <1>4, <1>8, <1>11, <2>1, Zenon DEF TextAlike
  <2>2. CASE s' = empty /\ n < BufSize
    BY <1>1, <1>4, <1>9, <1>12, <2>2, Zenon DEF TextAlike
  <2> QED
    BY <1>1, <2>1, <2>2
<1>14. \/ Left' = 0 /\ pc' = "called" /\ ret' = "OK" /\ s'.last_flush = "NONE"
       \/ Left' > 0 /\ s'.pending = << >> /\ s'.last_flush = flush /\ (on \/ pc' = next)
  <2>1. CASE n = BufSize /\ s' = full /\ pc' = "called" /\ ret' = "OK"
    BY <1>10, <1>11, <2>1, Sizes
  <2>2. CASE n < BufSize /\ s' = empty /\ (on \/ pc' = next)
    <3>1. BufSize - n > 0
      BY <1>6, <2>2, Sizes
    <3> QED
      BY <1>4, <1>10, <1>12, <2>2, <3>1
  <2> QED
    BY <1>1, <2>1, <2>2, Zenon
<1>15. TextInv(s', pc')
  <2>1. pc' \in { "called", "top", "tail" }
    BY <1>1 DEF next
  <2> QED
    BY <1>1, <1>13, <2>1, TextStays DEF Turning
<1> QED
  BY <1>13, <1>14, <1>15 DEF st, pp, pe, on, next

\* The trailer
LEMMA TrailerText ==
    ASSUME IInv, TextInv(s, pc), Trailer
    PROVE  /\ TextInv(s', pc') /\ TextAlike(s', s) /\ s'.status = s.status
           /\ \/ flush # "FINISH" /\ ret' = "OK" /\ buf' = buf /\ s' = s
              \/ flush = "FINISH" /\ ~s.wrap /\ ret' = "STREAM_END" /\ buf' = buf /\ s' = s
              \/ /\ flush = "FINISH" /\ s.wrap /\ ~s'.wrap /\ s'.bits = << >>
                 /\ \/ ret' = "OK" /\ Left' = 0
                    \/ ret' = "STREAM_END" /\ s'.pending = << >>
                 /\ s.bits = << >> =>
                        Put(Ahead', s') = Cat(Put(Ahead, s), << Check(s.adler) >>)
<1> DEFINE c == Check(s.adler)
           bi == << c >>
           v == [s EXCEPT !.bits = bi]
           w == WindUp(v)
           t == [w EXCEPT !.wrap = FALSE]
<1>0. /\ IoTypes /\ s \in DState
  BY DEF IInv, SInv, Shape
<1>1. /\ pc = "tail" /\ pc' = "called"
      /\ UNCHANGED << flush, input, luabuf, history >>
      /\ \/ flush # "FINISH" /\ ret' = "OK" /\ buf' = buf /\ s' = s
         \/ flush = "FINISH" /\ ~s.wrap /\ ret' = "STREAM_END" /\ buf' = buf /\ s' = s
         \/ /\ flush = "FINISH" /\ s.wrap /\ FlushPending(t)
            /\ ret' = IF Len(t.pending) > Left THEN "OK" ELSE "STREAM_END"
  BY DEF Trailer, Leave
<1>2. c \in Items /\ bi \in Seq(Items)
  <2>1. c \in Items
    BY <1>0, Fields, ItemTypes
  <2> HIDE DEF c
  <2>2. << c >> \in Seq(Items)
    BY <2>1
  <2> QED
    BY <2>1, <2>2 DEF c
<1> HIDE DEF bi, c
<1>3. v \in DState /\ v.bits = bi
  BY <1>0, <1>2 DEF DState
<1>4. /\ TextAlike(v, s) /\ v.status = s.status /\ v.wrap = s.wrap /\ v.pending = s.pending
  BY DEF TextAlike
<1> HIDE DEF v
<1>5. w \in DState /\ w.bits = << >> /\ Sent(w, v)
  BY <1>3, WindUpIs
<1>6. Put(Ahead, w) = Put(Ahead, v)
  BY <1>0, <1>3, AheadType, WindUpPuts
<1> HIDE DEF w
<1>7. t \in DState /\ ~t.wrap
  BY <1>5 DEF DState
<1>8. /\ TextAlike(t, w) /\ t.status = w.status /\ t.bits = w.bits /\ t.pending = w.pending
  BY DEF TextAlike
<1> HIDE DEF t
<1>9. CASE s' = s
  <2>1. TextInv(s', pc') /\ TextAlike(s', s)
    BY <1>1, <1>9, TextStays DEF Turning, TextAlike
  <2>2. ~FlushPending(t) \/ FlushPending(t)
    OBVIOUS
  <2>3. s'.status = s.status
    BY <1>9
  <2>4. CASE flush = "FINISH" /\ s.wrap /\ FlushPending(t)
    <3>1. Sent(s', t)
      BY <1>0, <1>7, <2>4, FlushPendingIs
    <3> QED
      BY <1>7, <1>9, <2>4, <3>1 DEF Sent
  <2> QED
    BY <1>1, <2>1, <2>3, <2>4
<1>10. CASE flush = "FINISH" /\ s.wrap /\ FlushPending(t)
  <2>1. s' \in DState /\ Sent(s', t) /\ s'.bits = t.bits
    BY <1>0, <1>7, <1>10, FlushPendingIs
  <2>2. TextAlike(s', s) /\ s'.status = s.status /\ ~s'.wrap /\ s'.bits = << >>
    <3>1. TextAlike(s', t) /\ s'.status = t.status /\ s'.wrap = t.wrap
      BY <2>1, Zenon DEF Sent, Written, TextAlike
    <3>2. TextAlike(w, v) /\ w.status = v.status
      BY <1>5, Zenon DEF Sent, Written, TextAlike
    <3>3. TextAlike(t, v)
      BY <1>8, <3>2, Zenon DEF TextAlike
    <3>4. TextAlike(s', v)
      BY <3>1, <3>3, Zenon DEF TextAlike
    <3>5. TextAlike(s', s)
      BY <1>4, <3>4, Zenon DEF TextAlike
    <3> QED
      BY <1>4, <1>5, <1>7, <1>8, <2>1, <3>1, <3>2, <3>5, Zenon
  <2>3. TextInv(s', pc')
    BY <1>1, <2>2, TextStays DEF Turning
  <2>4. Put(Ahead', s') = Put(Ahead, v)
    <3>1. Put(Ahead', s') = Put(Ahead, t)
      BY <1>0, <1>1, <1>7, <1>10, FlushPendingPuts DEF history
    <3>2. Put(Ahead, t) = Put(Ahead, w)
      BY <1>8, Zenon DEF Put
    <3> QED
      BY <1>6, <3>1, <3>2
  <2>5. s.bits = << >> => Put(Ahead, v) = Cat(Put(Ahead, s), << c >>)
    <3> SUFFICES ASSUME s.bits = << >> PROVE Put(Ahead, v) = Cat(Put(Ahead, s), << c >>)
      OBVIOUS
    <3> DEFINE f == FlattenSeq(Cat(Ahead, s.pending))
    <3>1. f \in Seq(Items)
      BY <1>0, AheadType, PutType
    <3>2. Put(Ahead, v) = Cat(f, << c >>)
      BY <1>3, <1>4, Zenon DEF Put, bi
    <3>3. Put(Ahead, s) = Cat(f, << >>)
      BY Zenon DEF Put
    <3> HIDE DEF f
    <3>4. Cat(f, << >>) = f
      BY <3>1, CatEmpty
    <3> QED
      BY <3>2, <3>3, <3>4
  <2>6. (ret' = "OK" /\ Left' = 0) \/ (ret' = "STREAM_END" /\ s'.pending = << >>)
    <3>1. (Len(t.pending) >= Left => Left' = 0) /\ (Len(t.pending) <= Left => s'.pending = << >>)
      BY <1>0, <1>7, <1>10, FlushPendingRoom
    <3>2. Left \in Nat /\ Len(t.pending) \in Nat
      BY <1>0, <1>7, LeftType, Fields, LenProperties
    <3>3. CASE Len(t.pending) > Left
      <4>1. Left' = 0
        BY <3>1, <3>2, <3>3
      <4>2. ret' = "OK"
        BY <1>1, <1>10, <3>3
      <4> QED
        BY <4>1, <4>2
    <3>4. CASE ~(Len(t.pending) > Left)
      <4>1. s'.pending = << >>
        BY <3>1, <3>2, <3>4
      <4>2. ret' = "STREAM_END"
        BY <1>1, <1>10, <3>4
      <4> QED
        BY <4>1, <4>2
    <3> QED
      BY <3>3, <3>4
  <2> QED
    BY <1>10, <2>2, <2>3, <2>4, <2>5, <2>6 DEF c
<1> QED
  BY <1>1, <1>9, <1>10

-----------------------------------------------------------------------------
(* A stream that is open.                                                  *)

\* What has been put out says of the text.
StreamInv ==
    /\ s.status = "INIT" =>
           /\ Ahead = << >> /\ s.pending = << >> /\ s.bits = << >> /\ s.adler = << >>
           /\ s.wrap
    /\ s.status = "BUSY" => InBlocks(Ahead, s) /\ s.wrap
    /\ s.status = "FINISH" =>
           /\ Says(Put(Ahead, s), IF s.wrap THEN "check" ELSE "end", s.adler)
           /\ s.bits = << >> /\ s.lookahead = 0 /\ input = << >>

\* What deflate may return, and how it leaves the buffers.
CalledInv ==
    /\ ret \in { "OK", "STREAM_END" }
    /\ Left = 0 /\ flush = "NO_FLUSH" => s.last_flush = "NONE"
    /\ ret = "OK" => Left = 0 \/ (flush = "NO_FLUSH" /\ input = << >>)
    /\ ret = "STREAM_END" =>
           flush = "FINISH" /\ s.status = "FINISH" /\ ~s.wrap /\ s.pending = << >>

\* The input and the room at the places of a call.
CallInv ==
    /\ pc # "none"
    /\ pc = "idle" => input = << >> /\ buf = << >> /\ luabuf = << >>
    /\ pc = "loop" =>
           /\ buf = << >>
           /\ flush = "NO_FLUSH" => input # << >> \/ s.last_flush = "NONE"
    /\ flush = "FINISH" /\ pc # "idle" => input = << >>
    /\ pc = "filled" => s.lookahead >= MIN_LOOKAHEAD \/ input = << >>
    /\ pc = "need_more" => Left = 0 \/ (flush = "NO_FLUSH" /\ input = << >>)
    /\ pc = "called" => CalledInv
    /\ pc = "tail" =>
           /\ input = << >> /\ s.pending = << >>
           /\ flush = "FINISH" => s.status = "FINISH"
           /\ flush = "NO_FLUSH" => Left > 0
    /\ s.status = "FINISH" => flush = "FINISH" /\ pc \in { "loop", "need_more", "tail", "called" }
    /\ s.status = "INIT" => pc \in { "idle", "loop" }

\* What was fed has been read or is still to be read.
OpenInv == fed = Cat(s.adler, input) /\ StreamInv /\ CallInv

\* The status in the middle of deflate.
LEMMA BusyIs ==
    ASSUME s \in DState, CallInv, pc \in { "top", "fill", "filled", "search", "decide", "flush" }
    PROVE  s.status = "BUSY"
<1>1. s.status \in { "INIT", "BUSY", "FINISH" }
  BY Fields
<1> QED
  BY <1>1 DEF CallInv

\* A turn of a loop.
LEMMA TurnedOpen ==
    ASSUME s \in DState, OpenInv, Turned(s', s), UNCHANGED << flush, ret, io, history >>,
           pc \in { "top", "filled", "search", "decide" },
           pc' \in { "top", "flush", "search", "decide" }
    PROVE  OpenInv'
<1>1. s.status = "BUSY" /\ s'.status = "BUSY" /\ s'.wrap = s.wrap /\ s'.adler = s.adler
      /\ s'.pending = s.pending /\ s'.bits = s.bits /\ s'.last_flush = s.last_flush
  BY BusyIs DEF OpenInv, Turned
<1>2. /\ flush' = flush /\ input' = input /\ buf' = buf /\ luabuf' = luabuf
      /\ fed' = fed /\ out' = out
  BY DEF io, history
<1>3. StreamInv'
  <2>1. Ended(s') = Ended(s)
    BY TurnedText
  <2>2. Ahead' = Ahead
    BY <1>2 DEF Ahead
  <2>3. InBlocks(Ahead, s) /\ s.wrap
    BY <1>1 DEF OpenInv, StreamInv
  <2>4. InBlocks(Ahead', s')
    BY <1>1, <2>1, <2>2, <2>3, Zenon DEF InBlocks, Put
  <2> QED
    BY <1>1, <2>3, <2>4 DEF StreamInv
<1>4. CallInv'
  BY <1>1, <1>2 DEF OpenInv, CallInv
<1>5. fed' = Cat(s'.adler, input')
  BY <1>1, <1>2 DEF OpenInv
<1> QED
  BY <1>3, <1>4, <1>5 DEF OpenInv

LEMMA TurnsOpen ==
    ASSUME IInv, ChainInv(s, pc), TextInv(s, pc), OpenInv,
           TurnStored \/ Insert \/ Search \/ TakeMatch \/ TakeLiteral
             \/ TakePreviousMatch \/ TakePreviousLiteral
    PROVE  OpenInv'
<1>1. Turned(s', s)
  BY TurnStoredText, InsertText, SearchText, TakeMatchText, TakeLiteralText,
     TakePreviousMatchText, TakePreviousLiteralText
<1>2. /\ UNCHANGED << flush, ret, io, history >>
      /\ pc \in { "top", "filled", "search", "decide" }
      /\ pc' \in { "top", "flush", "search", "decide" }
  BY DEF TurnStored, Insert, Search, TakeMatch, TakeLiteral, TakePreviousMatch,
         TakePreviousLiteral, Turn, EndTurn
<1>3. s \in DState
  BY DEF IInv, SInv, Shape
<1> QED
  BY <1>1, <1>2, <1>3, TurnedOpen

\* What fill_window leaves alone.
LEMMA FillKeepsPut ==
    ASSUME FillWindow
    PROVE  /\ s'.status = s.status /\ s'.last_flush = s.last_flush /\ s'.wrap = s.wrap
           /\ s'.bits = s.bits /\ s'.pending = s.pending
<1> DEFINE t == SlideIfNeeded(s)
           n == Smaller(Len(input), More(t))
           data == SubSeq(input, 1, n)
<1>1. s' = IF n = 0 THEN t ELSE ReadBuf(t, data)
  BY DEF FillWindow
<1>2. /\ t.status = s.status /\ t.last_flush = s.last_flush /\ t.wrap = s.wrap
      /\ t.bits = s.bits /\ t.pending = s.pending
  <2>1. t = Slide(s) \/ t = s
    BY DEF SlideIfNeeded
  <2> HIDE DEF t
  <2> QED
    BY <2>1, SlideKeeps
<1> HIDE DEF t, n, data
<1>3. Unread(ReadBuf(t, data), t)
  BY ReadBufKeeps
<1> QED
  BY <1>1, <1>2, <1>3 DEF Unread

\* fill_window
LEMMA FillOpen ==
    ASSUME IInv, TextInv(s, pc), Hashable(input), OpenInv, FillWindow
    PROVE  OpenInv'
<1>1. /\ pc \in { "fill", "top" }
      /\ pc' = IF s'.lookahead < MIN_LOOKAHEAD /\ input' # << >> THEN "fill" ELSE "filled"
      /\ UNCHANGED << flush, ret, buf, luabuf, history >>
  BY DEF FillWindow
<1>2. /\ s \in DState /\ s.status = "BUSY" /\ s'.status = "BUSY" /\ s'.wrap = s.wrap
      /\ s'.pending = s.pending /\ s'.bits = s.bits
  BY <1>1, FillKeepsPut, BusyIs DEF OpenInv, IInv, SInv, Shape
<1>3. PICK data \in Seq(Nat) : s'.adler = Cat(s.adler, data) /\ input = Cat(data, input')
  BY FillText
<1>4. Ended(s') = Ended(s) /\ input' \in Seq(Nat)
  BY FillText
<1>5. fed' = Cat(s'.adler, input')
  <2>1. s.adler \in Seq(Nat)
    BY <1>2, Fields
  <2>2. Cat(Cat(s.adler, data), input') = Cat(s.adler, Cat(data, input'))
    BY <1>4, <2>1, CatAssoc
  <2>3. fed' = fed /\ fed = Cat(s.adler, input)
    BY <1>1 DEF history, OpenInv
  <2> QED
    BY <1>3, <2>2, <2>3
<1>6. StreamInv'
  <2>1. Ahead' = Ahead
    BY <1>1 DEF Ahead, history
  <2>2. InBlocks(Ahead, s) /\ s.wrap
    BY <1>2 DEF OpenInv, StreamInv
  <2>3. Prefix(s'.adler, Ended(s')) = Prefix(s.adler, Ended(s))
    <3>1. Shape(s) /\ WindowText(s)
      BY DEF IInv, SInv, TextInv
    <3>2. /\ s.adler \in Seq(Nat) /\ Ended(s) \in Nat /\ Ended(s) <= Len(s.adler)
      <4>1. /\ s.adler \in Seq(Nat) /\ Len(s.adler) \in Nat
            /\ s.strstart \in Nat /\ s.lookahead \in Nat /\ s.block_start \in Int
            /\ s.block_start <= s.strstart
            /\ Off(s) \in Nat /\ Off(s) + s.block_start \in Nat
            /\ Off(s) + s.strstart + s.lookahead = Len(s.adler)
        BY <3>1, TextTypes
      <4> DEFINE a == s.strstart
                 b == s.lookahead
                 c == s.block_start
                 o == Off(s)
                 l == Len(s.adler)
      <4>2. /\ l \in Nat /\ a \in Nat /\ b \in Nat /\ c \in Int /\ c <= a /\ o \in Nat
            /\ o + c \in Nat /\ o + a + b = l
        BY <4>1
      <4> HIDE DEF a, b, c, o, l
      <4>3. o + c <= l
        BY <4>2
      <4>4. Ended(s) = o + c
        BY DEF Ended, o, c
      <4> QED
        BY <4>1, <4>2, <4>3, <4>4 DEF l
    <3>3. Ended(s) \in 0..Len(s.adler)
      BY <3>2, LenProperties
    <3>4. Prefix(Cat(s.adler, data), Ended(s)) = Prefix(s.adler, Ended(s))
      BY <3>2, <3>3, PrefixOfCat
    <3> QED
      BY <1>3, <1>4, <3>4
  <2>4. InBlocks(Ahead', s')
    BY <1>2, <2>1, <2>2, <2>3, Zenon DEF InBlocks, Put
  <2> QED
    BY <1>2, <2>2, <2>4 DEF StreamInv
<1>7. CallInv'
  <2>1. flush = "FINISH" => input' = << >>
    <3> SUFFICES ASSUME flush = "FINISH" PROVE input' = << >>
      OBVIOUS
    <3>1. input = << >>
      BY <1>1 DEF OpenInv, CallInv
    <3>2. input' = SubSeq(input, Smaller(Len(input), More(SlideIfNeeded(s))) + 1, Len(input))
      BY DEF FillWindow
    <3>3. Len(Cat(data, input')) = Len(data) + Len(input') /\ Len(data) \in Nat /\ Len(input') \in Nat
      BY <1>3, <1>4, CatType, LenProperties
    <3>4. Len(input') = 0
      BY <1>3, <3>1, <3>3, EmptySeq
    <3> QED
      BY <1>4, <3>4, EmptySeq
  <2>2. pc' \in { "fill", "filled" } /\ flush' = flush
    BY <1>1
  <2>3. pc' = "filled" => s'.lookahead >= MIN_LOOKAHEAD \/ input' = << >>
    <3>1. s'.lookahead \in Nat
      BY NextInv, Fields DEF IInv, SInv, Shape, Next, System
    <3> QED
      BY <1>1, <3>1, Sizes
  <2> QED
    BY <1>2, <2>1, <2>2, <2>3 DEF CallInv
<1> QED
  BY <1>5, <1>6, <1>7 DEF OpenInv

\* update() waits for more input.
LEMMA WaitOpen ==
    ASSUME IInv, OpenInv, WaitForInput
    PROVE  OpenInv'
<1>1. /\ pc = "filled" /\ Starved /\ flush = "NO_FLUSH" /\ pc' = "need_more"
      /\ UNCHANGED << flush, ret, input, buf, luabuf, s, fed, out >>
  BY DEF WaitForInput, NeedMore, history
<1>2. s \in DState /\ s.status = "BUSY"
  BY <1>1, BusyIs DEF OpenInv, IInv, SInv, Shape
<1>3. input = << >>
  <2>1. s.lookahead < MIN_LOOKAHEAD
    <3>1. CASE Func = "stored"
      BY <1>1, <3>1, Sizes DEF Starved
    <3>2. CASE Func # "stored"
      BY <1>1, <3>2 DEF Starved
    <3> QED
      BY <3>1, <3>2
  <2>2. s.lookahead \in Nat
    BY <1>2, Fields
  <2> QED
    BY <1>1, <2>1, <2>2, Sizes DEF OpenInv, CallInv
<1>4. StreamInv'
  <2>1. Ahead' = Ahead
    BY <1>1 DEF Ahead
  <2> QED
    BY <1>1, <2>1 DEF OpenInv, StreamInv
<1>5. CallInv'
  BY <1>1, <1>2, <1>3 DEF CallInv
<1> QED
  BY <1>1, <1>4, <1>5 DEF OpenInv

\* A block is flushed in the middle of the text.
LEMMA FlushFullOpen ==
    ASSUME IInv, TextInv(s, pc), OpenInv, FlushFull
    PROVE  OpenInv'
<1>1. pc = "flush" /\ UNCHANGED << flush, ret, input, luabuf, fed, out >>
  BY DEF FlushFull, history
<1>2. s \in DState /\ s.status = "BUSY"
  BY <1>1, BusyIs DEF OpenInv, IInv, SInv, Shape
<1>3. /\ s'.status = s.status /\ s'.wrap = s.wrap /\ s'.adler = s.adler
      /\ InBlocks(Ahead, s) => InBlocks(Ahead', s')
      /\ pc' \in { "need_more", "top" } /\ (pc' = "need_more" => Left' = 0)
  BY FlushFullText
<1>4. StreamInv'
  BY <1>2, <1>3 DEF OpenInv, StreamInv
<1>5. CallInv'
  BY <1>1, <1>2, <1>3 DEF OpenInv, CallInv
<1> QED
  BY <1>1, <1>3, <1>4, <1>5 DEF OpenInv

\* The last block ends the text.
LEMMA LastBlockOpen ==
    ASSUME IInv, TextInv(s, pc), OpenInv, LastBlock
    PROVE  OpenInv'
<1>1. pc = "filled" /\ flush = "FINISH" /\ UNCHANGED << flush, ret, input, luabuf, fed, out >>
  BY DEF LastBlock, history
<1>2. s \in DState /\ s.status = "BUSY" /\ input = << >> /\ InBlocks(Ahead, s) /\ s.wrap
  <2>1. s \in DState /\ s.status = "BUSY"
    BY <1>1, BusyIs DEF OpenInv, IInv, SInv, Shape
  <2> QED
    BY <1>1, <2>1 DEF OpenInv, CallInv, StreamInv
<1>3. /\ s'.status = "FINISH" /\ s'.wrap = s.wrap /\ s'.adler = s.adler
      /\ s'.bits = << >> /\ s'.lookahead = 0
      /\ InBlocks(Ahead, s) => Says(Put(Ahead', s'), "check", s'.adler)
      /\ pc' \in { "need_more", "tail" } /\ (pc' = "need_more" => Left' = 0)
      /\ pc' = "tail" => s'.pending = << >>
  BY LastBlockText
<1>4. StreamInv'
  BY <1>1, <1>2, <1>3 DEF StreamInv
<1>5. CallInv'
  BY <1>1, <1>2, <1>3 DEF OpenInv, CallInv
<1> QED
  BY <1>1, <1>3, <1>4, <1>5 DEF OpenInv

\* need_more and finish_started
LEMMA BlockNotDoneOpen ==
    ASSUME IInv, TextInv(s, pc), OpenInv, BlockNotDone
    PROVE  OpenInv'
<1>1. /\ pc = "need_more" /\ pc' = "called" /\ ret' = "OK"
      /\ UNCHANGED << flush, input, buf, luabuf, fed, out >>
  BY DEF BlockNotDone, Leave, history
<1>2. /\ TextAlike(s', s) /\ s'.status = s.status /\ s'.wrap = s.wrap /\ s'.bits = s.bits
      /\ s'.pending = s.pending /\ s'.last_flush = AvoidBufError
  BY BlockNotDoneText
<1>3. Ahead' = Ahead /\ Left' = Left
  BY <1>1 DEF Ahead, Left
<1>4. s'.adler = s.adler /\ s'.lookahead = s.lookahead /\ Ended(s') = Ended(s)
  BY <1>2 DEF TextAlike, Ended, Off
<1>5. Put(Ahead', s') = Put(Ahead, s) /\ (InBlocks(Ahead, s) => InBlocks(Ahead', s'))
  BY <1>2, <1>3, <1>4, Zenon DEF InBlocks, Put
<1>6. StreamInv'
  <2>1. input' = input
    BY <1>1
  <2>2. s.status = "FINISH" =>
           Says(Put(Ahead', s'), IF s'.wrap THEN "check" ELSE "end", s'.adler)
    BY <1>2, <1>4, <1>5 DEF OpenInv, StreamInv
  <2> QED
    BY <1>2, <1>3, <1>4, <1>5, <2>1, <2>2 DEF OpenInv, StreamInv
<1>7. CallInv'
  <2>1. CalledInv'
    BY <1>1, <1>2, <1>3 DEF OpenInv, CallInv, CalledInv, AvoidBufError
  <2> QED
    BY <1>1, <1>2, <2>1 DEF OpenInv, CallInv
<1> QED
  BY <1>1, <1>4, <1>6, <1>7 DEF OpenInv

\* The check value
LEMMA SaysCheck ==
    ASSUME NEW e \in Seq(Items), NEW text \in Seq(Nat), Says(e, "check", text)
    PROVE  Says(Cat(e, << Check(text) >>), "end", text)
<1> DEFINE x == Check(text)
           f == << x >>
<1>1. x \in Items
  BY ItemTypes
<1> HIDE DEF x
<1>2. f \in Seq(Items)
  BY <1>1
<1>3. PICK n \in Int, last \in BOOLEAN : Run(Start, e) = At("check", text, n, last)
  BY DEF Says
<1>4. Run(Start, Cat(e, f)) = Run(Run(Start, e), f)
  <2> HIDE DEF f
  <2> QED
    BY <1>2, RunCat
<1>5. Run(At("check", text, n, last), f) = ParseItem(At("check", text, n, last), x)
  BY RunOne
<1>6. ParseItem(At("check", text, n, last), x) = At("end", text, n, last)
  BY ParseCheck DEF x
<1> HIDE DEF f
<1>7. Run(Start, Cat(e, f)) = At("end", text, n, last)
  BY <1>3, <1>4, <1>5, <1>6
<1>8. Says(Cat(e, f), "end", text)
  BY <1>3, <1>7 DEF Says
<1> QED
  BY <1>8 DEF f, x

\* The trailer
LEMMA TrailerOpen ==
    ASSUME IInv, TextInv(s, pc), OpenInv, Trailer
    PROVE  OpenInv'
<1>1. /\ pc = "tail" /\ pc' = "called" /\ flush' = flush /\ input' = input /\ luabuf' = luabuf
      /\ fed' = fed /\ out' = out
  BY DEF Trailer, Leave, history
<1>2. /\ TextAlike(s', s) /\ s'.status = s.status
      /\ \/ flush # "FINISH" /\ ret' = "OK" /\ buf' = buf /\ s' = s
         \/ flush = "FINISH" /\ ~s.wrap /\ ret' = "STREAM_END" /\ buf' = buf /\ s' = s
         \/ /\ flush = "FINISH" /\ s.wrap /\ ~s'.wrap /\ s'.bits = << >>
            /\ \/ ret' = "OK" /\ Left' = 0
               \/ ret' = "STREAM_END" /\ s'.pending = << >>
            /\ s.bits = << >> =>
                   Put(Ahead', s') = Cat(Put(Ahead, s), << Check(s.adler) >>)
  BY TrailerText
<1>3. /\ input = << >> /\ s.pending = << >> /\ flush \in { "NO_FLUSH", "FINISH" }
      /\ flush = "FINISH" => s.status = "FINISH"
      /\ flush = "NO_FLUSH" => Left > 0
      /\ s \in DState
  BY <1>1 DEF OpenInv, CallInv, IInv, IoTypes, SInv, Shape
<1>4. s'.adler = s.adler /\ s'.lookahead = s.lookahead
  BY <1>2 DEF TextAlike
<1>5. CASE s' = s /\ buf' = buf
  <2>1. Ahead' = Ahead /\ Left' = Left
    BY <1>1, <1>5 DEF Ahead, Left
  <2>2. StreamInv'
    BY <1>1, <1>5, <2>1 DEF OpenInv, StreamInv
  <2>3. CalledInv'
    <3>1. CASE flush # "FINISH" /\ ret' = "OK"
      <4>1. Left \in Nat
        BY LeftType DEF IInv
      <4> QED
        BY <1>1, <1>3, <1>5, <2>1, <3>1, <4>1 DEF CalledInv
    <3>2. CASE flush = "FINISH" /\ ~s.wrap /\ ret' = "STREAM_END"
      BY <1>1, <1>3, <1>5, <2>1, <3>2 DEF CalledInv
    <3>3. CASE flush = "FINISH" /\ s.wrap /\ ~s'.wrap
      BY <1>5, <3>3
    <3> QED
      BY <1>2, <3>1, <3>2, <3>3
  <2>4. CallInv'
    BY <1>1, <1>3, <1>5, <2>3 DEF OpenInv, CallInv
  <2> QED
    BY <1>1, <1>5, <2>2, <2>4 DEF OpenInv
<1>6. CASE /\ flush = "FINISH" /\ s.wrap /\ ~s'.wrap /\ s'.bits = << >>
           /\ \/ ret' = "OK" /\ Left' = 0
              \/ ret' = "STREAM_END" /\ s'.pending = << >>
           /\ s.bits = << >> =>
                  Put(Ahead', s') = Cat(Put(Ahead, s), << Check(s.adler) >>)
  <2>1. /\ s.status = "FINISH" /\ Says(Put(Ahead, s), "check", s.adler)
        /\ s.bits = << >> /\ s.lookahead = 0
    BY <1>3, <1>6 DEF OpenInv, StreamInv
  <2>2. Put(Ahead, s) \in Seq(Items) /\ s.adler \in Seq(Nat)
    BY <1>3, AheadType, PutType, Fields DEF IInv
  <2>3. Says(Cat(Put(Ahead, s), << Check(s.adler) >>), "end", s.adler)
    BY <2>1, <2>2, SaysCheck
  <2>4. Says(Put(Ahead', s'), "end", s'.adler)
    BY <1>4, <1>6, <2>1, <2>3
  <2>5. s'.status = "FINISH" /\ s'.lookahead = 0
    BY <1>2, <1>4, <2>1
  <2>6. StreamInv'
    BY <1>1, <1>3, <1>6, <2>4, <2>5 DEF StreamInv
  <2>7. CalledInv'
    BY <1>1, <1>3, <1>6, <2>5 DEF CalledInv
  <2>8. CallInv'
    BY <1>1, <1>3, <1>6, <2>5, <2>7 DEF CallInv
  <2> QED
    BY <1>1, <1>4, <2>6, <2>8 DEF OpenInv
<1> QED
  BY <1>2, <1>5, <1>6

\* The header is all there is before the first block.
LEMMA SaysHead == Says(<< Simple("zlib") >>, "block", << >>)
<1>1. Run(Start, << Simple("zlib") >>) = At("block", << >>, 0, FALSE)
  BY RunOne, ParseHead
<1>2. 0 \in Int /\ FALSE \in BOOLEAN
  OBVIOUS
<1>3. \E n \in Int, last \in BOOLEAN :
         Run(Start, << Simple("zlib") >>) = At("block", << >>, n, last)
  BY <1>1, <1>2, Zenon
<1> QED
  BY <1>3, Zenon DEF Says

\* No text is read, and none is in a block.
LEMMA NoTextYet ==
    ASSUME NEW t, Shape(t), WindowText(t), t.adler = << >>
    PROVE  /\ t.strstart = 0 /\ t.block_start = 0 /\ t.lookahead = 0 /\ Ended(t) = 0
           /\ ~t.match_available
<1>1. /\ t.strstart \in Nat /\ t.lookahead \in Nat /\ t.block_start \in Int
      /\ t.block_start <= t.strstart
      /\ Off(t) \in Nat /\ Off(t) + t.block_start \in Nat
      /\ Off(t) + t.strstart + t.lookahead = Len(t.adler)
      /\ t.match_available => t.strstart >= 1
  BY TextTypes DEF Shape
<1>2. Len(t.adler) = 0
  BY EmptySeq
<1> DEFINE a == t.strstart
           b == t.lookahead
           c == t.block_start
           o == Off(t)
<1>3. /\ a \in Nat /\ b \in Nat /\ c \in Int /\ c <= a /\ o \in Nat /\ o + c \in Nat /\ o + a + b = 0
      /\ t.match_available => a >= 1
  BY <1>1, <1>2
<1>4. Ended(t) = o + c
  BY DEF Ended
<1> HIDE DEF a, b, c, o
<1>5. a = 0 /\ b = 0 /\ c = 0 /\ o + c = 0
  BY <1>3
<1> QED
  BY <1>3, <1>4, <1>5 DEF a, b, c

\* Bytes that are taken from what is pending are ahead of the rest.
LEMMA BufferedPuts ==
    ASSUME NEW front \in Seq(Bytes), NEW b \in Seq(Bytes), NEW t \in DState, NEW pe \in Seq(Bytes),
           Cat(b, t.pending) = pe
    PROVE  Put(Cat(front, b), t) = Cat(FlattenSeq(Cat(front, pe)), t.bits)
<1>1. t.pending \in Seq(Bytes)
  BY Fields DEF Bytes
<1>2. Cat(Cat(front, b), t.pending) = Cat(front, Cat(b, t.pending))
  BY <1>1, CatAssoc
<1> QED
  BY <1>2 DEF Put

\* The header, and what is pending.
LEMMA CallDeflateOpen ==
    ASSUME IInv, TextInv(s, pc), OpenInv, CallDeflate
    PROVE  OpenInv'
<1>1. /\ pc = "loop" /\ flush' = flush /\ input' = input /\ luabuf' = luabuf
      /\ fed' = fed /\ out' = out
      /\ s.status = "FINISH" => flush = "FINISH"
  BY DEF CallDeflate, history
<1>2. /\ TextAlike(s', s) /\ s'.wrap = s.wrap /\ s'.bits = s.bits
      /\ s'.status = IF s.status = "INIT" THEN "BUSY" ELSE s.status
      /\ Cat(buf', s'.pending) = IF s.status = "INIT"
                                 THEN Append(s.pending, << Simple("zlib") >>) ELSE s.pending
      /\ \/ Left' = 0 /\ pc' = "called" /\ ret' = "OK" /\ s'.last_flush = "NONE"
         \/ /\ Left' > 0 /\ s'.pending = << >> /\ s'.last_flush = flush
            /\ \/ input = << >> /\ flush = "NO_FLUSH" /\ s.last_flush # "NONE"
               \/ pc' = IF input # << >> \/ s.lookahead # 0
                           \/ (flush # "NO_FLUSH" /\ s.status # "FINISH")
                        THEN "top" ELSE "tail"
  BY CallDeflateText
<1>3. /\ s'.adler = s.adler /\ s'.lookahead = s.lookahead /\ Ended(s') = Ended(s)
  BY <1>2 DEF TextAlike, Ended, Off
<1>4. /\ s \in DState /\ s.status \in { "INIT", "BUSY", "FINISH" } /\ Shape(s) /\ IoTypes
      /\ flush \in { "NO_FLUSH", "FINISH" } /\ WindowText(s)
      /\ s.pending \in Seq(Bytes)
  BY Fields DEF IInv, IoTypes, SInv, Shape, TextInv, Bytes
<1>5. s' \in DState /\ IoTypes'
  BY NextInv DEF Next, System, IInv, SInv, Shape
<1>6. buf = << >> /\ (flush = "NO_FLUSH" => input # << >> \/ s.last_flush = "NONE")
  BY <1>1 DEF OpenInv, CallInv
<1>7. CallInv'
  <2>1. /\ flush = "FINISH" => input = << >>
        /\ s.status = "FINISH" => flush = "FINISH" /\ input = << >> /\ s.lookahead = 0
        /\ s.status = "INIT" => s'.status = "BUSY"
    BY <1>1, <1>2 DEF OpenInv, CallInv, StreamInv
  <2>2. CASE Left' = 0 /\ pc' = "called" /\ ret' = "OK" /\ s'.last_flush = "NONE"
    BY <1>1, <1>2, <1>4, <2>1, <2>2 DEF CallInv, CalledInv
  <2>3. CASE /\ Left' > 0 /\ s'.pending = << >> /\ s'.last_flush = flush
             /\ pc' = IF input # << >> \/ s.lookahead # 0
                         \/ (flush # "NO_FLUSH" /\ s.status # "FINISH")
                      THEN "top" ELSE "tail"
    <3>1. s'.status # "INIT" /\ (s'.status = "FINISH" => s.status = "FINISH")
      BY <1>2, <1>4
    <3>2. CASE pc' = "top"
      BY <1>1, <1>2, <1>4, <2>1, <2>3, <3>1, <3>2 DEF CallInv
    <3>3. CASE pc' = "tail"
      BY <1>1, <1>2, <1>4, <2>1, <2>3, <3>1, <3>3 DEF CallInv
    <3> QED
      BY <2>3, <3>2, <3>3
  <2> QED
    BY <1>2, <1>6, <2>2, <2>3
<1>8. StreamInv'
  <2> DEFINE front == Cat(out, luabuf)
  <2>1. /\ front \in Seq(Bytes) /\ buf' \in Seq(Bytes)
        /\ Ahead = front /\ Ahead' = Cat(front, buf')
    BY <1>1, <1>4, <1>5, <1>6, CatType, CatEmpty DEF IoTypes, Ahead
  <2> HIDE DEF front
  <2>2. CASE s.status = "INIT"
    <3> DEFINE b == << Simple("zlib") >>
    <3>1. /\ front = << >> /\ s.pending = << >> /\ s.bits = << >> /\ s.adler = << >> /\ s.wrap
      BY <2>1, <2>2 DEF OpenInv, StreamInv
    <3>2. b \in Seq(Items) /\ b \in Bytes /\ << >> \in Seq(Bytes) /\ << >> \in Seq(Items)
      BY ItemTypes DEF Bytes
    <3> HIDE DEF b
    <3>3. Append(s.pending, b) \in Seq(Bytes)
      BY <1>4, <3>2, AppendProperties
    <3>4. Put(Ahead', s') = Cat(FlattenSeq(Cat(front, Append(s.pending, b))), s'.bits)
      <4>1. Cat(buf', s'.pending) = Append(s.pending, b)
        BY <1>2, <2>2 DEF b
      <4> QED
        BY <1>5, <2>1, <3>3, <4>1, BufferedPuts
    <3>5. FlattenSeq(Cat(front, Append(s.pending, b))) = Cat(FlattenSeq(Cat(front, s.pending)), b)
      BY <1>4, <2>1, <3>2, FlattenByte
    <3>6. FlattenSeq(Cat(front, s.pending)) = << >>
      BY <3>1, <3>2, CatEmpty, FlattenEmpty
    <3>7. Put(Ahead', s') = b
      BY <1>2, <3>1, <3>2, <3>4, <3>5, <3>6, CatEmpty
    <3>8. Prefix(s'.adler, Ended(s')) = << >>
      <4>1. Ended(s') = 0 /\ s'.adler = << >>
        BY <1>3, <1>4, <3>1, NoTextYet
      <4> QED
        BY <4>1, PrefixNone, EmptySeq
    <3>9. InBlocks(Ahead', s')
      BY <3>7, <3>8, SaysHead, Zenon DEF InBlocks, b
    <3> QED
      BY <1>2, <2>2, <3>1, <3>9 DEF StreamInv
  <2>3. CASE s.status # "INIT"
    <3>1. Put(Ahead', s') = Put(Ahead, s)
      <4>1. Cat(buf', s'.pending) = s.pending
        BY <1>2, <2>3
      <4>2. Put(Ahead', s') = Cat(FlattenSeq(Cat(front, s.pending)), s'.bits)
        BY <1>4, <1>5, <2>1, <4>1, BufferedPuts
      <4> QED
        BY <1>2, <2>1, <4>2 DEF Put
    <3>2. InBlocks(Ahead, s) => InBlocks(Ahead', s')
      BY <1>3, <3>1, Zenon DEF InBlocks
    <3>3. /\ s'.status = s.status /\ s'.wrap = s.wrap /\ s'.bits = s.bits /\ input' = input
      BY <1>1, <1>2, <2>3
    <3>4. s.status = "FINISH" =>
             Says(Put(Ahead', s'), IF s'.wrap THEN "check" ELSE "end", s'.adler)
      BY <1>3, <3>1, <3>3 DEF OpenInv, StreamInv
    <3> QED
      BY <1>3, <2>3, <3>2, <3>3, <3>4 DEF OpenInv, StreamInv
  <2> QED
    BY <2>2, <2>3
<1>9. fed' = Cat(s'.adler, input')
  BY <1>1, <1>3 DEF OpenInv
<1> QED
  BY <1>7, <1>8, <1>9 DEF OpenInv

\* update() begins, or has nothing to do.
LEMMA UpdateOpen ==
    ASSUME IInv, OpenInv, stage = "open", NEW chunk \in Chunks, Update(chunk)
    PROVE  OpenInv'
<1>1. /\ pc = "idle" /\ input = << >> /\ buf = << >> /\ luabuf = << >>
      /\ s.status # "FINISH" /\ s' = s /\ ret' = ret
  BY DEF OpenInv, CallInv, Update
<1>2. /\ s.adler \in Seq(Nat) /\ out \in Seq(Bytes) /\ chunk \in Seq(Nat) /\ fed \in Seq(Nat)
  BY ChunkType, Fields DEF IInv, IoTypes, SInv, Shape
<1>3. fed = s.adler
  BY <1>1, <1>2, CatEmpty DEF OpenInv
<1>4. CASE /\ chunk # << >> /\ pc' = "loop" /\ flush' = "NO_FLUSH" /\ input' = chunk
           /\ fed' = fed \o chunk /\ UNCHANGED << buf, luabuf, out, stage >>
  <2>1. Ahead' = Ahead
    BY <1>4 DEF Ahead
  <2>2. StreamInv'
    BY <1>1, <2>1 DEF OpenInv, StreamInv
  <2>3. CallInv'
    BY <1>1, <1>4 DEF OpenInv, CallInv
  <2>4. fed' = Cat(s'.adler, input')
    BY <1>1, <1>3, <1>4, Zenon DEF Cat
  <2> QED
    BY <2>2, <2>3, <2>4 DEF OpenInv
<1>5. CASE Return(<< >>, "open") /\ flush' = flush
  <2>1. /\ pc' = "idle" /\ buf' = << >> /\ luabuf' = << >> /\ input' = << >>
        /\ fed' = fed /\ out' = Cat(out, << >>)
    BY <1>5, Zenon DEF Return, Cat
  <2>2. out' = out
    BY <1>2, <2>1, CatEmpty
  <2>3. Ahead' = Ahead
    BY <1>1, <2>1, <2>2 DEF Ahead
  <2>4. StreamInv'
    BY <1>1, <2>3 DEF OpenInv, StreamInv
  <2>5. CallInv'
    BY <1>1, <2>1 DEF OpenInv, CallInv
  <2> QED
    BY <1>1, <2>1, <2>4, <2>5 DEF OpenInv
<1> QED
  BY <1>4, <1>5 DEF Update

\* finish() begins.
LEMMA FinishOpen ==
    ASSUME IInv, OpenInv, Finish
    PROVE  OpenInv'
<1>1. /\ pc = "idle" /\ input = << >> /\ buf = << >> /\ luabuf = << >>
      /\ s.status # "FINISH" /\ s' = s /\ ret' = ret
      /\ pc' = "loop" /\ flush' = "FINISH" /\ input' = << >>
      /\ buf' = buf /\ luabuf' = luabuf /\ fed' = fed /\ out' = out
  BY DEF OpenInv, CallInv, Finish, history
<1>2. Ahead' = Ahead
  BY <1>1 DEF Ahead
<1>3. StreamInv'
  BY <1>1, <1>2 DEF OpenInv, StreamInv
<1>4. CallInv'
  BY <1>1 DEF OpenInv, CallInv
<1> QED
  BY <1>1, <1>3, <1>4 DEF OpenInv

\* No call in a stream fails, but for want of memory.
LEMMA NoErrorOpen ==
    ASSUME OpenInv
    PROVE  ~OutOfSequence /\ ~ZlibError
<1>1. ~OutOfSequence
  BY DEF OpenInv, CallInv, OutOfSequence
<1>2. ~ZlibError
  BY DEF OpenInv, CallInv, CalledInv, ZlibError, Error
<1> QED
  BY <1>1, <1>2

\* deflate is called again, with an empty buffer.
LEMMA GoOnOpen ==
    ASSUME IInv, OpenInv, GoOn, stage' = "open"
    PROVE  OpenInv'
<1>1. /\ pc = "called" /\ Left = 0
      /\ pc' = "loop" /\ luabuf' = Cat(luabuf, buf) /\ buf' = << >>
      /\ input' = input /\ fed' = fed /\ out' = out /\ flush' = flush /\ ret' = ret /\ s' = s
  <2>1. ~Raise("stale")
    BY DEF Raise
  <2> QED
    BY <2>1, Zenon DEF GoOn, Again, history, Cat
<1>2. /\ out \in Seq(Bytes) /\ luabuf \in Seq(Bytes) /\ buf \in Seq(Bytes)
  BY DEF IInv, IoTypes
<1>3. Ahead' = Ahead
  <2>1. Cat(luabuf, buf) \in Seq(Bytes)
    BY <1>2, CatType
  <2>2. Cat(out, Cat(luabuf, buf)) = Cat(Cat(out, luabuf), buf)
    BY <1>2, CatAssoc
  <2>3. Cat(out, Cat(luabuf, buf)) \in Seq(Bytes)
    BY <1>2, <2>1, CatType
  <2>4. Cat(Cat(out, Cat(luabuf, buf)), << >>) = Cat(out, Cat(luabuf, buf))
    BY <2>3, CatEmpty
  <2> QED
    BY <1>1, <2>2, <2>4 DEF Ahead
<1>4. StreamInv'
  BY <1>1, <1>3 DEF OpenInv, StreamInv
<1>5. CallInv'
  BY <1>1 DEF OpenInv, CallInv, CalledInv
<1> QED
  BY <1>1, <1>4, <1>5 DEF OpenInv

\* What a call that is over returned.
LEMMA ReturnsAhead ==
    ASSUME IInv, stage = "open", NEW next, Return(luabuf \o buf, next)
    PROVE  out' = Ahead /\ fed' = fed /\ stage' = next
<1>1. /\ out \in Seq(Bytes) /\ luabuf \in Seq(Bytes) /\ buf \in Seq(Bytes)
  BY DEF IInv, IoTypes
<1>2. out' = Cat(out, Cat(luabuf, buf)) /\ fed' = fed /\ stage' = next
  BY Zenon DEF Return, Cat
<1>3. Cat(out, Cat(luabuf, buf)) = Cat(Cat(out, luabuf), buf)
  BY <1>1, CatAssoc
<1> QED
  BY <1>2, <1>3 DEF Ahead

\* update() returns.
LEMMA CallReturnsOpen ==
    ASSUME IInv, OpenInv, CallReturns, stage = "open", stage' = "open"
    PROVE  OpenInv'
<1>1. /\ pc = "called" /\ ~Again /\ flush' = flush /\ ret' = ret /\ s' = s
      /\ flush # "FINISH"
      /\ Return(luabuf \o buf, "open")
  <2>1. ~Raise("stale")
    BY DEF Raise
  <2>2. Return(luabuf \o buf, IF flush = "FINISH" THEN "finished" ELSE "open")
    BY <2>1, Zenon DEF CallReturns
  <2>3. flush # "FINISH"
    BY <2>2 DEF Return
  <2> QED
    BY <2>2, <2>3, Zenon DEF CallReturns
<1>2. /\ out' = Ahead /\ fed' = fed /\ pc' = "idle"
      /\ buf' = << >> /\ luabuf' = << >> /\ input' = << >>
  BY <1>1, ReturnsAhead, Zenon DEF Return
<1>3. input = << >>
  <2>1. Left # 0
    BY <1>1 DEF Again
  <2> QED
    BY <1>1, <2>1 DEF OpenInv, CallInv, CalledInv
<1>4. Ahead' = Ahead
  <2>1. Ahead \in Seq(Bytes)
    BY AheadType DEF IInv
  <2>2. Cat(Cat(Ahead, << >>), << >>) = Ahead
    BY <2>1, CatEmpty
  <2>3. Ahead' = Cat(Cat(out', luabuf'), buf')
    BY DEF Ahead
  <2> QED
    BY <1>2, <2>2, <2>3
<1>5. StreamInv'
  BY <1>1, <1>2, <1>4 DEF OpenInv, StreamInv
<1>6. CallInv'
  BY <1>1, <1>2 DEF OpenInv, CallInv
<1> QED
  BY <1>1, <1>2, <1>3, <1>5, <1>6 DEF OpenInv

\* finish() returns: what it completes is one whole zlib stream that says what went in.
LEMMA FinishReturns ==
    ASSUME IInv, OpenInv, CallReturns, stage = "open", flush = "FINISH", stage' = "finished"
    PROVE  Complete(s.level, fed, out') /\ fed' = fed
<1>1. /\ pc = "called" /\ ~Again
      /\ Return(luabuf \o buf, "finished")
  <2>1. ~Raise("stale")
    BY DEF Raise
  <2> QED
    BY <2>1, Zenon DEF CallReturns
<1>2. out' = Ahead /\ fed' = fed
  BY <1>1, ReturnsAhead
<1>3. /\ s.status = "FINISH" /\ ~s.wrap /\ s.pending = << >> /\ input = << >>
  BY <1>1 DEF Again, OpenInv, CallInv, CalledInv
<1>4. /\ Says(Put(Ahead, s), "end", s.adler) /\ s.bits = << >>
  BY <1>3 DEF OpenInv, StreamInv
<1>5. /\ s \in DState /\ s.adler \in Seq(Nat) /\ Ahead \in Seq(Bytes) /\ IoTypes
  BY AheadType, Fields DEF IInv, SInv, Shape
<1>6. Put(Ahead, s) = FlattenSeq(Ahead)
  <2>1. Cat(Ahead, s.pending) = Ahead
    BY <1>3, <1>5, CatEmpty
  <2>2. FlattenSeq(Cat(Ahead, s.pending)) \in Seq(Items)
    BY <1>5, PutType
  <2>3. Cat(FlattenSeq(Cat(Ahead, s.pending)), << >>) = FlattenSeq(Cat(Ahead, s.pending))
    BY <2>2, CatEmpty
  <2> QED
    BY <1>4, <2>1, <2>3 DEF Put
<1>7. fed = s.adler
  BY <1>3, <1>5, CatEmpty DEF OpenInv
<1>8. PICK n \in Int, last \in BOOLEAN : Run(Start, Put(Ahead, s)) = At("end", s.adler, n, last)
  BY <1>4 DEF Says
<1>9. Parse(FlattenSeq(Ahead)) = At("end", fed, n, last)
  BY <1>6, <1>7, <1>8, ParseIsRun
<1>10. Whole(Ahead) /\ TextOf(Ahead) = fed
  BY <1>9 DEF Whole, TextOf, At
<1> QED
  BY <1>2, <1>10, Zenon DEF Complete

-----------------------------------------------------------------------------
(* What the symbols of the next block say.                                 *)

\* How much of the text is behind a block and behind a symbol.
Told(t) == IF FuncOf(t) = "stored" THEN Ended(t) ELSE Off(t) + t.strstart - Und(t)

\* The text that has been read and is neither in a block nor in a symbol is behind.
LEMMA BehindIs ==
    ASSUME Shape(s), WindowText(s), NEW l \in Nat, Len(s.adler) = l
    PROVE  /\ l - Behind = Told(s) /\ Told(s) \in 0..l
           /\ Ended(s) \in 0..l
<1>1. /\ s.strstart \in Nat /\ s.lookahead \in Nat /\ s.block_start \in Int
      /\ s.block_start <= s.strstart
      /\ Off(s) \in Nat /\ Off(s) + s.block_start \in Nat
      /\ Off(s) + s.strstart + s.lookahead = l
      /\ s.match_available => s.strstart >= 1
  BY TextTypes DEF Shape
<1> DEFINE a == s.strstart
           b == s.lookahead
           c == s.block_start
           o == Off(s)
           u == Und(s)
<1>2. /\ a \in Nat /\ b \in Nat /\ c \in Int /\ c <= a /\ o \in Nat /\ o + c \in Nat
      /\ o + a + b = l /\ u \in { 0, 1 } /\ u <= a
  BY <1>1 DEF Und
<1>3. Ended(s) = o + c
  BY DEF Ended
<1>4. Behind = b + IF FuncOf(s) = "stored" THEN a - c ELSE u
  BY FuncIs, Zenon DEF Behind, Undecided, Und
<1>5. Told(s) = IF FuncOf(s) = "stored" THEN Ended(s) ELSE o + a - u
  BY Zenon DEF Told
<1> HIDE DEF a, b, c, o, u
<1>6. CASE FuncOf(s) = "stored"
  <2>1. Behind = b + (a - c) /\ Told(s) = o + c
    BY <1>3, <1>4, <1>5, <1>6
  <2> QED
    BY <1>2, <1>3, <2>1
<1>7. CASE FuncOf(s) # "stored"
  <2>1. Behind = b + u /\ Told(s) = o + a - u
    BY <1>4, <1>5, <1>7
  <2> QED
    BY <1>2, <1>3, <2>1
<1> QED
  BY <1>6, <1>7

\* Behind the header of a block, its symbols say the rest.
LEMMA NextBlockSays ==
    ASSUME NEW t, Shape(t), SymText(t), FuncOf(t) = "stored" => t.sym = << >>,
           NEW e \in Seq(Items), Says(e, "block", Prefix(t.adler, Ended(t)))
    PROVE  Says(Cat(e, Cat(<< Codes(FALSE) >>, FlattenSeq(t.sym))), "code", Prefix(t.adler, Told(t)))
<1> DEFINE f == FlattenSeq(t.sym)
           x == Codes(FALSE)
           h == << x >>
           a == Prefix(t.adler, Ended(t))
           b == Prefix(t.adler, Told(t))
<1>1. PICK n \in Int, l \in BOOLEAN : Run(Start, e) = At("block", a, n, l)
  BY Zenon DEF Says
<1>2. f \in Seq(Items) /\ x \in Items
  BY Fields, FlattenType, ItemTypes DEF Shape
<1>3. h \in Seq(Items)
  <2> HIDE DEF x
  <2> QED
    BY <1>2
<1>4. Run(At("block", a, n, l), h) = At("code", a, n, FALSE)
  <2>1. Run(At("block", a, n, l), h) = ParseItem(At("block", a, n, l), x)
    BY RunOne, Zenon
  <2>2. ParseItem(At("block", a, n, l), x) = At("code", a, n, FALSE)
    BY ParseCodes, Zenon
  <2> QED
    BY <2>1, <2>2, Zenon
<1>5. \E m \in Int : Run(At("code", a, n, FALSE), f) = At("code", b, m, FALSE)
  <2>1. CASE FuncOf(t) = "stored"
    <3>1. f = << >> /\ a = b
      BY <2>1, FlattenEmpty, Zenon DEF Told
    <3>2. Run(At("code", a, n, FALSE), << >>) = At("code", a, n, FALSE)
      BY RunNone
    <3> QED
      BY <1>1, <3>1, <3>2, Zenon
  <2>2. CASE FuncOf(t) # "stored"
    <3>1. SymbolsSay(t.adler, t.sym, Ended(t), Told(t))
      BY <2>2, Zenon DEF SymText, Ended, Told
    <3>2. FALSE \in BOOLEAN
      OBVIOUS
    <3> QED
      BY <1>1, <3>1, <3>2, Zenon DEF SymbolsSay
  <2> QED
    BY <2>1, <2>2
<1>6. PICK m \in Int : Run(At("code", a, n, FALSE), f) = At("code", b, m, FALSE)
  BY <1>5
<1> HIDE DEF f, h, a, b
<1>7. Cat(h, f) \in Seq(Items)
  BY <1>2, <1>3, CatType
<1>8. Run(Start, Cat(e, Cat(h, f))) = Run(Run(Start, e), Cat(h, f))
  BY <1>7, RunCat, Zenon
<1>9. Run(At("block", a, n, l), Cat(h, f)) = Run(Run(At("block", a, n, l), h), f)
  BY <1>2, <1>3, RunCat, Zenon
<1>10. Run(Start, Cat(e, Cat(h, f))) = At("code", b, m, FALSE)
  BY <1>1, <1>4, <1>6, <1>8, <1>9, Zenon
<1>11. FALSE \in BOOLEAN /\ m \in Int
  OBVIOUS
<1> QED
  BY <1>10, <1>11, Zenon DEF Says, f, h, x, b

\* What has been emitted.
LEMMA EmittedIs == Emitted = Put(Ahead, s)
BY Zenon DEF Emitted, Put, Ahead, Cat

\* SymbolsAreText follows.
LEMMA OpenSymbols ==
    ASSUME IInv, TextInv(s, pc), stage = "open" => OpenInv
    PROVE  SymbolsAreText
<1> SUFFICES ASSUME stage = "open", s.status # "FINISH"
             PROVE  LET block == IF s.status = "INIT" THEN << >>
                                 ELSE << Codes(FALSE) >> \o FlattenSeq(s.sym)
                    IN  Parse(Emitted \o block).text = SubSeq(fed, 1, Len(fed) - Len(input) - Behind)
  BY Zenon DEF SymbolsAreText
<1>1. /\ OpenInv /\ Shape(s) /\ SInv(s, pc) /\ s \in DState /\ WindowText(s) /\ SymText(s) /\ IoTypes
      /\ s.adler \in Seq(Nat) /\ input \in Seq(Nat) /\ Ahead \in Seq(Bytes)
  BY AheadType, Fields DEF IInv, SInv, Shape, TextInv, IoTypes
<1>2. PICK l \in Nat : l = Len(s.adler)
  BY <1>1, LenProperties
<1>3. /\ l - Behind = Told(s) /\ Told(s) \in 0..l
      /\ Ended(s) \in 0..l
  BY <1>1, <1>2, BehindIs
<1>4. fed = Cat(s.adler, input) /\ Len(fed) - Len(input) = l
  <2>1. fed = Cat(s.adler, input)
    BY <1>1 DEF OpenInv
  <2>2. Len(Cat(s.adler, input)) = Len(s.adler) + Len(input) /\ Len(input) \in Nat
    BY <1>1, CatType, LenProperties
  <2> QED
    BY <1>2, <2>1, <2>2
<1>5. SubSeq(fed, 1, Len(fed) - Len(input) - Behind) = Prefix(s.adler, Told(s))
  <2>1. Prefix(Cat(s.adler, input), Told(s)) = Prefix(s.adler, Told(s))
    BY <1>1, <1>2, <1>3, PrefixOfCat
  <2>2. (Len(fed) - Len(input)) - Behind = Told(s)
    BY <1>3, <1>4, Zenon
  <2> QED
    BY <1>4, <2>1, <2>2, Zenon DEF Prefix
<1>6. Put(Ahead, s) \in Seq(Items)
  BY <1>1, PutType
<1>7. CASE s.status = "INIT"
  <2>1. Ahead = << >> /\ s.pending = << >> /\ s.bits = << >> /\ s.adler = << >>
    BY <1>1, <1>7 DEF OpenInv, StreamInv
  <2>2. Put(Ahead, s) = << >>
    <3>1. << >> \in Seq(Bytes) /\ << >> \in Seq(Items)
      BY EmptySeq
    <3>2. Cat(<< >>, << >>) = << >>
      BY <3>1, CatEmpty
    <3> QED
      BY <2>1, <3>2, FlattenEmpty, Zenon DEF Put
  <2>3. Emitted \o << >> = << >>
    BY <2>2, EmittedIs, EmptySeq
  <2>4. Parse(<< >>) = Start
    BY ParseIsRun, RunNone, Zenon
  <2>5. Start.text = << >>
    BY DEF Start
  <2>6. Prefix(s.adler, Told(s)) = << >>
    <3>1. Told(s) = 0
      BY <1>2, <1>3, <2>1, EmptySeq
    <3> QED
      BY <2>1, <3>1, PrefixNone, EmptySeq
  <2> QED
    BY <1>5, <1>7, <2>3, <2>4, <2>5, <2>6
<1>8. CASE s.status # "INIT"
  <2> DEFINE block == Cat(<< Codes(FALSE) >>, FlattenSeq(s.sym))
             z == Cat(Put(Ahead, s), block)
  <2>1. s.status = "BUSY"
    BY <1>1, <1>8, Fields
  <2>2. Says(Put(Ahead, s), "block", Prefix(s.adler, Ended(s)))
    BY <1>1, <2>1, Zenon DEF OpenInv, StreamInv, InBlocks
  <2>3. FuncOf(s) = "stored" => s.sym = << >>
    BY <1>1, Zenon DEF SInv, StoredMode
  <2>4. Says(z, "code", Prefix(s.adler, Told(s)))
    BY <1>1, <1>6, <2>2, <2>3, NextBlockSays
  <2> HIDE DEF z
  <2>5. PICK n \in Int, last \in BOOLEAN : Run(Start, z) = At("code", Prefix(s.adler, Told(s)), n, last)
    BY <2>4, Zenon DEF Says
  <2>6. Parse(z).text = Prefix(s.adler, Told(s))
    <3>1. Parse(z) = At("code", Prefix(s.adler, Told(s)), n, last)
      BY <2>5, ParseIsRun
    <3> HIDE DEF Prefix, Told
    <3> QED
      BY <3>1 DEF At
  <2>7. Emitted \o block = z
    BY EmittedIs, Zenon DEF z, Cat
  <2>8. block = << Codes(FALSE) >> \o FlattenSeq(s.sym)
    BY Zenon DEF Cat
  <2> HIDE DEF block
  <2> QED
    BY <1>5, <1>8, <2>6, <2>7, <2>8, Zenon
<1> QED
  BY <1>7, <1>8

-----------------------------------------------------------------------------
(* The whole invariant.                                                    *)

\* Before the object is made, there is nothing.
Nothing ==
    /\ \E level \in Levels : s = State(level)
    /\ input = << >> /\ buf = << >> /\ luabuf = << >> /\ fed = << >> /\ out = << >>
    /\ stage = "stale"

TextHolds ==
    /\ TextInv(s, pc) /\ Hashable(input)
    /\ stage = "open" => OpenInv
    /\ pc = "none" => Nothing

\* The object is made: a stream is open.
LEMMA CreateOpen ==
    ASSUME IInv, TextHolds, Create
    PROVE  OpenInv'
<1>1. /\ pc = "none" /\ pc' = "idle"
      /\ UNCHANGED << flush, ret, input, buf, luabuf, s, fed, out >>
  BY DEF Create
<1>2. Nothing
  BY <1>1 DEF TextHolds
<1>3. PICK level \in Levels : s = State(level)
  BY <1>2 DEF Nothing
<1>4. s.status = "INIT" /\ s.pending = << >> /\ s.bits = << >> /\ s.adler = << >> /\ s.wrap
  BY <1>3 DEF State
<1>5. /\ input' = << >> /\ buf' = << >> /\ luabuf' = << >> /\ fed' = << >> /\ out' = << >>
      /\ s' = s
  BY <1>1, <1>2 DEF Nothing
<1>6. Cat(<< >>, << >>) = << >>
  BY EmptySeq, CatEmpty
<1>7. Ahead' = << >>
  BY <1>5, <1>6 DEF Ahead
<1>8. StreamInv'
  BY <1>4, <1>5, <1>7 DEF StreamInv
<1>9. CallInv'
  BY <1>1, <1>4, <1>5 DEF CallInv
<1> QED
  BY <1>4, <1>5, <1>6, <1>8, <1>9 DEF OpenInv

\* The steps that leave the stream where it is.
Inner ==
    \/ CallDeflate \/ FillWindow \/ WaitForInput
    \/ TurnStored \/ FlushFull \/ Insert \/ Search \/ TakeMatch \/ TakeLiteral
    \/ TakePreviousMatch \/ TakePreviousLiteral
    \/ LastBlock \/ BlockNotDone \/ Trailer

LEMMA InnerIs ==
    ASSUME Inner
    PROVE  fed' = fed /\ out' = out /\ stage' = stage
BY DEF Inner, CallDeflate, FillWindow, WaitForInput, TurnStored, FlushFull, Insert, Search,
       TakeMatch, TakeLiteral, TakePreviousMatch, TakePreviousLiteral, LastBlock, BlockNotDone,
       Trailer, history

LEMMA InnerText ==
    ASSUME IInv, ChainInv(s, pc), TextInv(s, pc), Hashable(input), Inner
    PROVE  TextInv(s', pc') /\ Hashable(input')
<1>1. CASE FillWindow
  BY <1>1, FillText
<1>2. CASE WaitForInput
  BY <1>2, OutsideText
<1>3. CASE Inner /\ ~FillWindow /\ ~WaitForInput
  <2>1. TextInv(s', pc')
    BY <1>3, CallDeflateText, TurnStoredText, FlushFullText, InsertText, SearchText,
       TakeMatchText, TakeLiteralText, TakePreviousMatchText, TakePreviousLiteralText,
       LastBlockText, BlockNotDoneText, TrailerText DEF Inner
  <2>2. input' = input
    BY <1>3 DEF Inner, CallDeflate, TurnStored, FlushFull, Insert, Search, TakeMatch,
       TakeLiteral, TakePreviousMatch, TakePreviousLiteral, LastBlock, BlockNotDone, Trailer, io
  <2> QED
    BY <2>1, <2>2
<1> QED
  BY <1>1, <1>2, <1>3

LEMMA InnerOpen ==
    ASSUME IInv, ChainInv(s, pc), TextInv(s, pc), Hashable(input), OpenInv, Inner
    PROVE  OpenInv'
<1>1. CASE TurnStored \/ Insert \/ Search \/ TakeMatch \/ TakeLiteral
             \/ TakePreviousMatch \/ TakePreviousLiteral
  BY <1>1, TurnsOpen
<1>2. CASE CallDeflate \/ FillWindow \/ WaitForInput \/ FlushFull \/ LastBlock
             \/ BlockNotDone \/ Trailer
  BY <1>2, CallDeflateOpen, FillOpen, WaitOpen, FlushFullOpen, LastBlockOpen, BlockNotDoneOpen,
     TrailerOpen
<1> QED
  BY <1>1, <1>2 DEF Inner

\* No step goes back to before the object was made.
LEMMA MadeStays ==
    ASSUME Next
    PROVE  pc' # "none"
<1>1. CASE Caller
  BY <1>1 DEF Caller, Create, Update, Finish, Return
<1>2. CASE OutOfSequence \/ ZlibError \/ GoOn \/ CallReturns
  BY <1>2 DEF OutOfSequence, ZlibError, GoOn, CallReturns, Leave, Return, Raise
<1>3. CASE Inner
  BY <1>3 DEF Inner, CallDeflate, FillWindow, WaitForInput, TurnStored, FlushFull, Insert,
       Search, TakeMatch, TakeLiteral, TakePreviousMatch, TakePreviousLiteral, LastBlock,
       BlockNotDone, Trailer, Leave, NeedMore, EndTurn
<1> QED
  BY <1>1, <1>2, <1>3 DEF Next, System, Inner

LEMMA InitHolds == Init => TextHolds
<1> SUFFICES ASSUME Init PROVE TextHolds
  OBVIOUS
<1>1. TextInv(s, pc) /\ Hashable(input)
  BY InitText
<1>2. Nothing /\ stage # "open"
  BY DEF Init, Nothing
<1> QED
  BY <1>1, <1>2 DEF TextHolds

LEMMA NextHolds == IInv /\ ChainInv(s, pc) /\ TextHolds /\ [Next]_vars => TextHolds'
<1> SUFFICES ASSUME IInv, ChainInv(s, pc), TextHolds, [Next]_vars PROVE TextHolds'
  OBVIOUS
<1>0. TextInv(s, pc) /\ Hashable(input) /\ (stage = "open" => OpenInv)
  BY DEF TextHolds
<1>1. CASE Inner
  <2>1. TextInv(s', pc') /\ Hashable(input')
    BY <1>0, <1>1, InnerText
  <2>2. stage' = "open" => OpenInv'
    BY <1>0, <1>1, InnerOpen, InnerIs
  <2>3. pc' # "none"
    BY <1>1, MadeStays DEF Next, System, Inner
  <2> QED
    BY <2>1, <2>2, <2>3 DEF TextHolds
<1>2. CASE Caller
  <2>1. TextInv(s', pc') /\ Hashable(input')
    BY <1>0, <1>2, OutsideText
  <2>2. stage' = "open" => OpenInv'
    <3> SUFFICES ASSUME stage' = "open" PROVE OpenInv'
      OBVIOUS
    <3>1. CASE Create
      BY <3>1, CreateOpen
    <3>2. CASE \E chunk \in Chunks : Update(chunk)
      <4>1. PICK chunk \in Chunks : Update(chunk)
        BY <3>2
      <4>2. stage = "open"
        BY <4>1 DEF Update, Return
      <4> QED
        BY <1>0, <4>1, <4>2, UpdateOpen
    <3>3. CASE Finish
      BY <1>0, <3>3, FinishOpen DEF Finish, history
    <3> QED
      BY <1>2, <3>1, <3>2, <3>3 DEF Caller
  <2>3. pc' # "none"
    BY <1>2, MadeStays DEF Next
  <2> QED
    BY <2>1, <2>2, <2>3 DEF TextHolds
<1>3. CASE OutOfSequence \/ ZlibError \/ GoOn \/ CallReturns
  <2>1. TextInv(s', pc') /\ Hashable(input')
    BY <1>0, <1>3, OutsideText
  <2>2. stage' = "open" => OpenInv'
    <3> SUFFICES ASSUME stage' = "open" PROVE OpenInv'
      OBVIOUS
    <3>1. stage = "open"
      BY <1>3 DEF OutOfSequence, ZlibError, GoOn, CallReturns, Return, Raise, history
    <3>2. GoOn \/ CallReturns
      BY <1>0, <1>3, <3>1, NoErrorOpen
    <3> QED
      BY <1>0, <3>1, <3>2, GoOnOpen, CallReturnsOpen
  <2>3. pc' # "none"
    BY <1>3, MadeStays DEF Next, System
  <2> QED
    BY <2>1, <2>2, <2>3 DEF TextHolds
<1>4. CASE UNCHANGED vars
  <2>1. /\ pc' = pc /\ flush' = flush /\ ret' = ret /\ input' = input /\ buf' = buf
        /\ luabuf' = luabuf /\ s' = s /\ fed' = fed /\ out' = out /\ stage' = stage
    BY <1>4 DEF vars, io, history
  <2>2. TextInv(s', pc') /\ Hashable(input')
    BY <1>0, <2>1
  <2>3. Ahead' = Ahead /\ Left' = Left
    BY <2>1 DEF Ahead, Left
  <2>4. stage' = "open" => OpenInv'
    BY <1>0, <2>1, <2>3 DEF OpenInv, StreamInv, CallInv, CalledInv
  <2>5. pc' = "none" => Nothing'
    BY <2>1 DEF TextHolds, Nothing
  <2> QED
    BY <2>2, <2>4, <2>5 DEF TextHolds
<1> QED
  BY <1>1, <1>2, <1>3, <1>4 DEF Next, System, Inner

\* At every step of every call, what has been put out and the symbols collected for the next
\* block are exactly the text read so far, up to the byte that is being decided: however the
\* window slid, whatever longest_match took for a match without comparing the third byte, and
\* however the output was cut into buffers; for every text, level, window and buffer size.
THEOREM SymbolsSayTheText == Spec => []SymbolsAreText
<1>1. Init => ChainInv(s, pc)
  BY InitChains DEF Init
<1>2. Spec => [](IInv /\ ChainInv(s, pc) /\ TextHolds)
  BY <1>1, InitInv, NextInv, NextChains, InitHolds, NextHolds, PTL DEF Spec
<1>3. IInv /\ TextHolds => SymbolsAreText
  BY OpenSymbols DEF TextHolds
<1> QED
  BY <1>2, <1>3, PTL

-----------------------------------------------------------------------------
(* The contract of module Filter.                                          *)

\* The level stays.
LEMMA LevelStays ==
    ASSUME IInv, ChainInv(s, pc), TextInv(s, pc), Inner
    PROVE  s'.level = s.level
<1>1. CASE FillWindow
  <2> DEFINE t == SlideIfNeeded(s)
             n == Smaller(Len(input), More(t))
             data == SubSeq(input, 1, n)
  <2>1. s' = IF n = 0 THEN t ELSE ReadBuf(t, data)
    BY <1>1 DEF FillWindow
  <2>2. t.level = s.level
    <3>1. t = Slide(s) \/ t = s
      BY DEF SlideIfNeeded
    <3> HIDE DEF t
    <3> QED
      BY <3>1, SlideKeeps
  <2> HIDE DEF t, n, data
  <2>3. ReadBuf(t, data).level = t.level
    BY ReadBufKeeps DEF Unread
  <2> QED
    BY <2>1, <2>2, <2>3
<1>2. CASE TurnStored \/ Insert \/ Search \/ TakeMatch \/ TakeLiteral
             \/ TakePreviousMatch \/ TakePreviousLiteral
  <2>1. Turned(s', s)
    BY <1>2, TurnStoredText, InsertText, SearchText, TakeMatchText, TakeLiteralText,
       TakePreviousMatchText, TakePreviousLiteralText
  <2> QED
    BY <2>1 DEF Turned
<1>3. CASE CallDeflate \/ WaitForInput \/ FlushFull \/ LastBlock \/ BlockNotDone \/ Trailer
  <2>1. Chained(s', s)
    BY <1>3, OutsideChains DEF Outside
  <2> QED
    BY <2>1 DEF Chained
<1> QED
  BY <1>1, <1>2, <1>3 DEF Inner

\* A call that returns a string adds it to the output.
LEMMA Added ==
    ASSUME IInv, NEW r \in Seq(Bytes), stage = "open", stage' = "open",
           out' = Cat(out, r), fed' = fed, s' = s
    PROVE  Contract!Update
<1>1. IsPrefix(out, out')
  <2>1. out \in Seq(Bytes)
    BY DEF IInv, IoTypes
  <2>2. IsPrefix(out, Cat(out, r))
    BY <2>1, PrefixOfJoin DEF Cat
  <2> QED
    BY <2>2, Zenon
<1>2. IsPrefix(fed, fed')
  BY PrefixOfItself DEF IInv, IoTypes
<1>3. s'.level = s.level
  OBVIOUS
<1> QED
  BY <1>1, <1>2, <1>3, Zenon DEF Contract!Update, Contract!IsPrefix, IsPrefix

\* An error for want of memory gives the stream up.
LEMMA GivenUp == ASSUME Raise("stale") PROVE Contract!FNext
<1>1. stage' = "stale"
  BY DEF Raise
<1> QED
  BY <1>1 DEF Contract!FNext, Contract!Abandon, Contract!Outside

\* Outside of a stream no call opens one.
LEMMA StaysClosed ==
    ASSUME stage # "open", (\E chunk \in Chunks : Update(chunk)) \/ Finish \/ OutOfSequence \/ ZlibError
                             \/ GoOn \/ CallReturns
    PROVE  stage' # "open"
BY DEF Update, Finish, OutOfSequence, ZlibError, GoOn, CallReturns, Return, Raise, history

\* Every step of the filter is one of the contract, or none.
LEMMA ContractStep ==
    IInv /\ ChainInv(s, pc) /\ TextHolds /\ [Next]_vars => [Contract!FNext]_(Contract!contract)
<1> SUFFICES ASSUME IInv, ChainInv(s, pc), TextHolds, [Next]_vars
             PROVE  Contract!FNext \/ UNCHANGED Contract!contract
  OBVIOUS
<1>0. TextInv(s, pc) /\ (stage = "open" => OpenInv)
  BY DEF TextHolds
<1>1. CASE Inner
  <2>1. s'.level = s.level
    BY <1>0, <1>1, LevelStays
  <2>2. fed' = fed /\ out' = out /\ stage' = stage
    BY <1>1, InnerIs
  <2> QED
    BY <2>1, <2>2, Zenon DEF Contract!contract
<1>2. CASE Create
  <2>1. pc = "none" /\ stage' = "open" /\ fed' = fed /\ out' = out
    BY <1>2 DEF Create
  <2>2. fed' = << >> /\ out' = << >>
    BY <2>1 DEF TextHolds, Nothing
  <2> QED
    BY <2>1, <2>2 DEF Contract!FNext, Contract!Begin
<1>3. CASE stage # "open" /\ ((\E chunk \in Chunks : Update(chunk)) \/ Finish \/ OutOfSequence
                                \/ ZlibError \/ GoOn \/ CallReturns)
  <2>1. stage # "open" /\ stage' # "open"
    BY <1>3, StaysClosed
  <2> QED
    BY <2>1 DEF Contract!FNext, Contract!Outside
<1>4. CASE stage = "open" /\ \E chunk \in Chunks : Update(chunk)
  <2>1. PICK chunk \in Chunks : Update(chunk)
    BY <1>4
  <2>2. chunk \in Seq(Nat) /\ fed \in Seq(Nat) /\ out \in Seq(Bytes)
    BY ChunkType DEF IInv, IoTypes
  <2>3. s' = s
    BY <2>1 DEF Update
  <2>4. CASE fed' = fed \o chunk /\ UNCHANGED << out, stage >>
    <3>1. IsPrefix(fed, fed')
      BY <2>2, <2>4, PrefixOfJoin
    <3>2. IsPrefix(out, out')
      BY <2>2, <2>4, PrefixOfItself
    <3>3. stage' = "open" /\ s'.level = s.level
      BY <1>4, <2>3, <2>4
    <3>4. Contract!Update
      BY <1>4, <3>1, <3>2, <3>3, Zenon DEF Contract!Update, Contract!IsPrefix, IsPrefix
    <3> QED
      BY <3>4 DEF Contract!FNext
  <2>5. CASE Return(<< >>, "open")
    <3>1. PICK r \in Seq(Bytes) : r = << >>
      BY EmptySeq
    <3>2. stage' = "open" /\ out' = Cat(out, r) /\ fed' = fed
      BY <1>4, <2>5, <3>1, Zenon DEF Return, Cat
    <3>3. Contract!Update
      BY <1>4, <2>3, <3>2, Added
    <3> QED
      BY <3>3 DEF Contract!FNext
  <2> QED
    BY <1>4, <2>1, <2>4, <2>5, Zenon DEF Update
<1>5. CASE Finish
  BY <1>5, Zenon DEF Finish, history, Contract!contract
<1>6. CASE stage = "open" /\ (OutOfSequence \/ ZlibError)
  BY <1>0, <1>6, NoErrorOpen
<1>7. CASE GoOn
  <2>1. UNCHANGED << s, history >> \/ Raise("stale")
    BY <1>7, Zenon DEF GoOn
  <2> QED
    BY <2>1, GivenUp, Zenon DEF history, Contract!contract
<1>8. CASE stage = "open" /\ CallReturns
  <2> DEFINE next == IF flush = "FINISH" THEN "finished" ELSE "open"
  <2>1. Return(luabuf \o buf, next) \/ Raise("stale")
    BY <1>8, Zenon DEF CallReturns
  <2>2. s' = s
    BY <1>8 DEF CallReturns
  <2>3. CASE Return(luabuf \o buf, next)
    <3>1. /\ out \in Seq(Bytes) /\ luabuf \in Seq(Bytes) /\ buf \in Seq(Bytes)
      BY DEF IInv, IoTypes
    <3>2. PICK r \in Seq(Bytes) : r = Cat(luabuf, buf)
      BY <3>1, CatType
    <3>3. stage' = next /\ out' = Cat(out, r) /\ fed' = fed
      BY <1>8, <2>3, <3>2, Zenon DEF Return, Cat
    <3>4. CASE flush # "FINISH"
      <4>1. stage' = "open"
        BY <3>3, <3>4
      <4>2. Contract!Update
        BY <1>8, <2>2, <3>3, <4>1, Added
      <4> QED
        BY <4>2 DEF Contract!FNext
    <3>5. CASE flush = "FINISH"
      <4>1. stage' = "finished"
        BY <3>3, <3>5
      <4>2. Complete(s.level, fed, out')
        BY <1>0, <1>8, <3>5, <4>1, FinishReturns
      <4>3. IsPrefix(out, out')
        <5>1. IsPrefix(out, Cat(out, r))
          BY <3>1, PrefixOfJoin DEF Cat
        <5> QED
          BY <3>3, <5>1, Zenon
      <4>4. s'.level = s.level
        BY <2>2
      <4>5. Contract!Finish
        BY <1>8, <3>3, <4>1, <4>2, <4>3, <4>4, Zenon
           DEF Contract!Finish, Contract!IsPrefix, IsPrefix
      <4> QED
        BY <4>5 DEF Contract!FNext
    <3> QED
      BY <3>4, <3>5
  <2>4. CASE Raise("stale")
    BY <2>4, GivenUp
  <2> QED
    BY <2>1, <2>3, <2>4
<1>9. CASE UNCHANGED vars
  BY <1>9, Zenon DEF vars, history, Contract!contract
<1> QED
  BY <1>1, <1>2, <1>3, <1>4, <1>5, <1>6, <1>7, <1>8, <1>9, Zenon DEF Next, Caller, System, Inner

\* The compression filter keeps the contract of README.md lines 65-84: however the text is cut
\* into chunks, what the calls return concatenates to one whole zlib stream that says exactly
\* the text, with its check value, and no text is refused.
THEOREM DeflateKeepsContract == Spec => FilterContract
<1>1. Init => ChainInv(s, pc)
  BY InitChains DEF Init
<1>2. Spec => [](IInv /\ ChainInv(s, pc) /\ TextHolds)
  BY <1>1, InitInv, NextInv, NextChains, InitHolds, NextHolds, PTL DEF Spec
<1>3. Init => Contract!FInit
  BY Zenon DEF Init, Contract!FInit
<1> QED
  BY <1>2, <1>3, ContractStep, PTL DEF Spec, FilterContract, Contract!FSpec
=============================================================================
