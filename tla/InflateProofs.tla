---------------------------- MODULE InflateProofs ----------------------------
(***************************************************************************)
(* Proofs about Inflate for every set of streams and every size of window, *)
(* buffer and chunk: the output never overruns the buffer, the circular    *)
(* window holds the end of the output, which is what a distance refers to, *)
(* what comes out is at every step the text of what was read, and the      *)
(* filter keeps its contract.                                              *)
(***************************************************************************)
EXTENDS Inflate, ProofLemmas, WellFoundedInduction

-----------------------------------------------------------------------------
(* The inductive invariant.                                                *)

Items == [k : STRING, n : Nat, last : BOOLEAN, sum : Seq(Nat)]

\* The items of a stream: a match is no longer and goes no further back than its code can say.
GoodItems ==
    { x \in Items : /\ x.k = "len" => x.n \in 1..FastOut
                    /\ x.k = "dist" => x.n \in 1..WSize }

\* What TypeOK leaves open.
Types ==
    /\ TypeOK
    /\ hold \in Seq(GoodItems) /\ fed \in Seq(AllBytes)
    /\ buf \in Seq(Nat) /\ luabuf \in Seq(Nat) /\ out \in Seq(Nat)
    /\ window \in [0..(WSize - 1) -> Nat]
    /\ mode = "MATCH" => offset \in 1..WSize
    /\ pc \in { "inflate", "leave" } => Left <= out0

\* The circular window w with the write index n and h bytes in it holds the end of t.
HoldsEnd(w, n, h, t) ==
    /\ h = Smaller(WSize, Len(t))
    /\ \A d \in 1..h : w[(n + WSize - d) % WSize] = t[Len(t) - d + 1]

\* The modes in front of and in the blocks: whatever is put out there goes into the window.
Before == { "HEAD", "TYPE", "COPY", "LEN", "DIST", "MATCH", "LIT" }

\* The window follows the output once a call of inflate is left, and then it takes the whole
\* buffer: out0 has not been moved yet.
WindowFollows ==
    stage = "open" /\ mode \in Before =>
        /\ pc \in { "idle", "loop", "inflate", "leave" } =>
               HoldsEnd(window, wnext, whave, out \o luabuf)
        /\ pc = "called" => HoldsEnd(window, wnext, whave, (out \o luabuf) \o buf)
        /\ pc \in { "inflate", "leave" } => out0 = BufSize

\* Between two calls the buffers are empty, and so is the window in front of the first one.
Between ==
    /\ pc = "idle" => luabuf = << >>
    /\ pc = "none" => luabuf = << >> /\ out = << >> /\ whave = 0

Inv == Types /\ WindowFollows /\ Between

\* The constants, as the provers need them.
LEMMA Constants ==
    /\ BufSize \in Nat /\ BufSize >= 1 /\ WSize \in Nat /\ WSize >= 1
    /\ FastIn \in Nat /\ FastOut \in Nat /\ FastOut >= 1
BY InflateConstants

\* A byte of a stream is a sequence of such items.
LEMMA BytesAreItems == AllBytes \subseteq Seq(GoodItems)
<1> SUFFICES ASSUME NEW z \in Streams, NEW i \in 1..Len(z)
             PROVE  z[i] \in Seq(GoodItems)
  BY DEF AllBytes
<1>1. z \in Seq(Seq(Items))
  BY StreamBytes DEF Items
<1>2. z[i] \in Seq(Items)
  BY <1>1, ElementOfSeq
<1> DEFINE b == z[i]
<1>3. b \in [1..Len(b) -> Items] /\ Len(b) \in Nat
  BY <1>2, LenProperties
<1>4. \A j \in 1..Len(b) : b[j] \in GoodItems
  <2> SUFFICES ASSUME NEW j \in 1..Len(b) PROVE b[j] \in GoodItems
    OBVIOUS
  <2>1. b[j] \in Items
    BY <1>3
  <2>2. /\ b[j].k = "len" => b[j].n \in 1..FastOut
        /\ b[j].k = "dist" => b[j].n \in 1..WSize
    BY StreamItems
  <2> QED
    BY <2>1, <2>2 DEF GoodItems
<1> HIDE DEF b
<1>5. b \in [1..Len(b) -> GoodItems]
  BY <1>3, <1>4
<1>6. b \in Seq(GoodItems)
  BY <1>3, <1>5
<1> QED
  BY <1>6 DEF b

-----------------------------------------------------------------------------
(* The circular window.                                                    *)

\* The place d before the write index n; the write index and the fill after N bytes, k of
\* them behind n.
PlaceOf(n, d) == IF d <= n THEN n - d ELSE n + WSize - d
Moved(n, N, k) == IF N > k THEN N - k ELSE IF n + k = WSize THEN 0 ELSE n + k
Filled(h, N, k) == IF N > k THEN WSize ELSE IF h < WSize THEN h + k ELSE h

\* The place q, d before the new write index, is in the part copied last (d <= N), or it is
\* the place d - N before the old write index and has not been touched.
InPart(n, h, N, k, h2, d, q) ==
    /\ q \in 0..(WSize - 1)
    /\ d <= N => \/ q >= n /\ q < n + k /\ q - n + 1 = N - d + 1
                 \/ q < n /\ q < N - k /\ k + q + 1 = N - d + 1
    /\ d > N /\ d <= h2 =>
           /\ ~(q >= n /\ q < n + k) /\ ~(q < N - k)
           /\ d - N \in 1..h
           /\ q = PlaceOf(n, d - N)

\* The place d before the write index.
LEMMA Place ==
    ASSUME NEW n \in 0..(WSize - 1), NEW d \in 1..WSize
    PROVE  ((n + WSize - d) % WSize) = PlaceOf(n, d)
<1> USE Constants DEF PlaceOf
<1>1. CASE d <= n
  <2>1. n - d \in 0..(WSize - 1) /\ (WSize * 1 + (n - d)) = n + WSize - d
    BY <1>1
  <2>2. ((WSize * 1 + (n - d)) % WSize) = n - d
    BY <2>1, ModUnique
  <2> QED
    BY <1>1, <2>1, <2>2
<1>2. CASE ~(d <= n)
  <2>1. n + WSize - d \in 0..(WSize - 1) /\ (WSize * 0 + (n + WSize - d)) = n + WSize - d
    BY <1>2
  <2>2. ((WSize * 0 + (n + WSize - d)) % WSize) = n + WSize - d
    BY <2>1, ModUnique
  <2> QED
    BY <1>2, <2>1, <2>2
<1> QED
  BY <1>1, <1>2

\* The write index goes round at the end of the window.
LEMMA GoesRound ==
    ASSUME NEW n \in 0..WSize
    PROVE  (n % WSize) = IF n = WSize THEN 0 ELSE n
<1> USE Constants
<1>1. CASE n = WSize
  <2>1. ((WSize * 1 + 0) % WSize) = 0
    BY ModUnique
  <2> QED
    BY <1>1, <2>1
<1>2. CASE n # WSize
  <2>1. ((WSize * 0 + n) % WSize) = n
    BY <1>2, ModUnique
  <2> QED
    BY <1>2, <2>1
<1> QED
  BY <1>1, <1>2

\* The same in the terms of its elements, without a remainder.
LEMMA Elements ==
    ASSUME NEW w, NEW n \in 0..(WSize - 1), NEW h \in 0..WSize, NEW t
    PROVE  HoldsEnd(w, n, h, t) <=>
               /\ h = Smaller(WSize, Len(t))
               /\ \A d \in 1..h : w[PlaceOf(n, d)] = t[Len(t) - d + 1]
<1>1. \A d \in 1..h : ((n + WSize - d) % WSize) = PlaceOf(n, d)
  <2> SUFFICES ASSUME NEW d \in 1..h PROVE ((n + WSize - d) % WSize) = PlaceOf(n, d)
    OBVIOUS
  <2>1. d \in 1..WSize
    BY Constants
  <2> QED
    BY <2>1, Place
<1> QED
  BY <1>1 DEF HoldsEnd

\* updatewindow with copy bytes at the end of buf, in its two ways.
LEMMA UpdateCases ==
    ASSUME NEW copy \in Nat, copy = out0 - Left, UpdateWindow
    PROVE  /\ wsize' = WSize
           /\ copy >= WSize =>
                  /\ window' = [j \in 0..(WSize - 1) |-> buf[Len(buf) - WSize + 1 + j]]
                  /\ wnext' = 0 /\ whave' = WSize
           /\ copy < WSize =>
                  LET dist == Smaller(WSize - wnext, copy)
                  IN  /\ window' = [j \in 0..(WSize - 1) |->
                             IF j >= wnext /\ j < wnext + dist
                             THEN buf[Len(buf) - copy + (j - wnext + 1)]
                             ELSE IF j < copy - dist THEN buf[Len(buf) - copy + (dist + j + 1)]
                             ELSE window[j]]
                      /\ wnext' = WriteIndex(copy, dist) /\ whave' = Fill(copy, dist)
<1> USE DEF UpdateWindow
<1>1. CASE copy >= WSize
  <2>1. ~(copy < WSize)
    BY <1>1, Constants
  <2> QED
    BY <1>1, <2>1, Zenon
<1>2. CASE copy < WSize
  <2>1. ~(copy >= WSize)
    BY <1>2, Constants
  <2> QED
    BY <1>2, <2>1, Zenon
<1>3. copy >= WSize \/ copy < WSize
  BY Constants
<1> QED
  BY <1>1, <1>2, <1>3, Zenon

\* The arithmetic of updatewindow: the new write index and fill are those of a circular buffer.
LEMMA NewIndex ==
    ASSUME NEW n \in 0..(WSize - 1), NEW h \in 0..WSize, h \in { n, WSize },
           NEW N \in Nat, N < WSize, NEW k, k = Smaller(WSize - n, N),
           NEW n2, n2 = IF N > k THEN N - k ELSE (n + k) % WSize,
           NEW h2, h2 = IF N > k THEN WSize ELSE IF h < WSize THEN h + k ELSE h
    PROVE  /\ k \in Nat /\ k <= N
           /\ n2 = Moved(n, N, k) /\ h2 = Filled(h, N, k)
           /\ n2 \in 0..(WSize - 1)
           /\ h2 \in 0..WSize
           /\ h2 \in { n2, WSize }
<1> USE Constants DEF Moved, Filled
<1>1. k \in Nat /\ k <= N /\ k <= WSize - n /\ (k = N \/ k = WSize - n)
  BY DEF Smaller
<1>2. n2 = Moved(n, N, k)
  <2>1. n + k \in 0..WSize
    BY <1>1
  <2> QED
    BY <2>1, GoesRound
<1>3. n2 \in 0..(WSize - 1)
  BY <1>1, <1>2
<1>4. h2 \in 0..WSize
  BY <1>1
<1>5. h2 = n2 \/ h2 = WSize
  BY <1>1, <1>2
<1>6. h2 = Filled(h, N, k)
  OBVIOUS
<1> QED
  BY <1>1, <1>2, <1>3, <1>4, <1>5, <1>6

\* If the window held the end of a text of length L, the fill is again what it should be, and
\* every place is in one of the two parts.
LEMMA Places ==
    ASSUME NEW n \in 0..(WSize - 1), NEW h \in 0..WSize, h \in { n, WSize },
           NEW L \in Nat, h = Smaller(WSize, L),
           NEW N \in Nat, N < WSize, NEW k, k = Smaller(WSize - n, N),
           NEW n2, n2 = Moved(n, N, k), NEW h2, h2 = Filled(h, N, k),
           NEW d \in 1..WSize, NEW q, q = PlaceOf(n2, d)
    PROVE  /\ h2 = Smaller(WSize, L + N)
           /\ InPart(n, h, N, k, h2, d, q)
<1> USE Constants DEF PlaceOf, Moved, Filled, InPart
<1>1. k \in Nat /\ k <= N /\ k <= WSize - n /\ (k = N \/ k = WSize - n)
  BY DEF Smaller
<1>2. (L < WSize => h = L /\ h = n) /\ (L >= WSize => h = WSize) /\ L >= n
  BY DEF Smaller
<1>3. n2 \in 0..(WSize - 1)
  BY <1>1
<1>4. h2 = Smaller(WSize, L + N)
  BY <1>1, <1>2 DEF Smaller
<1>5. q \in 0..(WSize - 1)
  BY <1>3
<1>6. CASE N > k
  <2>1. k = WSize - n /\ n2 = N - k
    BY <1>1, <1>6
  <2>2. d <= N => \/ q >= n /\ q < n + k /\ q - n + 1 = N - d + 1
                  \/ q < n /\ q < N - k /\ k + q + 1 = N - d + 1
    BY <1>6, <2>1
  <2>3. d > N => q = n - (d - N) /\ d - N <= n /\ q >= N - k /\ q < n
    BY <1>6, <2>1
  <2>4. d > N /\ d <= h2 => d - N \in 1..h
    BY <1>2, <1>6, <2>1
  <2> QED
    BY <1>1, <1>4, <1>5, <2>1, <2>2, <2>3, <2>4
<1>7. CASE ~(N > k)
  <2>1. k = N /\ n2 = IF n + N = WSize THEN 0 ELSE n + N
    BY <1>1, <1>7
  <2>2. d <= N => q >= n /\ q < n + k /\ q - n + 1 = N - d + 1
    <3>1. d <= N => q = n + N - d
      <4>1. CASE n + N = WSize
        BY <2>1, <4>1
      <4>2. CASE n + N # WSize
        BY <1>1, <2>1, <4>2
      <4> QED
        BY <4>1, <4>2
    <3> QED
      BY <2>1, <3>1
  <2>3. ASSUME d > N PROVE q = PlaceOf(n, d - N)
    <3>1. CASE n + N = WSize
      <4>1. q = WSize - d /\ d - N <= n /\ WSize - d = n - (d - N)
        BY <2>1, <2>3, <3>1
      <4> QED
        BY <4>1
    <3>2. CASE n + N # WSize
      <4>1. n2 = n + N
        BY <2>1, <3>2
      <4>2. CASE d <= n + N
        BY <2>3, <4>1, <4>2
      <4>3. CASE ~(d <= n + N)
        BY <2>3, <4>1, <4>3
      <4> QED
        BY <4>2, <4>3
    <3> QED
      BY <3>1, <3>2
  <2>4. d > N => ~(q >= n /\ q < n + k) /\ ~(q < N - k)
    BY <1>1, <2>1, <2>3
  <2>5. d > N /\ d <= h2 => d - N \in 1..h
    BY <1>1, <1>2, <1>7, <2>1
  <2> QED
    BY <1>4, <1>5, <2>2, <2>3, <2>4, <2>5
<1> QED
  BY <1>6, <1>7

\* What updatewindow is given.
LEMMA BeforeUpdate ==
    ASSUME Types, Left <= out0
    PROVE  /\ out0 - Left \in Nat /\ out0 - Left <= Len(buf) /\ Len(buf) \in Nat
           /\ out0 = BufSize => out0 - Left = Len(buf)
           /\ \A i \in 1..Len(buf) : buf[i] \in Nat
           /\ wnext \in 0..(WSize - 1) /\ whave \in 0..WSize /\ whave \in { wnext, WSize }
           /\ window \in [0..(WSize - 1) -> Nat]
<1>1. /\ Left \in 0..BufSize /\ out0 \in 0..BufSize /\ wsize \in { 0, WSize }
      /\ wnext \in 0..(WSize - 1) /\ whave \in 0..wsize /\ whave \in { wnext, WSize }
  BY Zenon DEF Types, TypeOK
<1>2. buf \in Seq(Nat) /\ window \in [0..(WSize - 1) -> Nat]
  BY Zenon DEF Types
<1>3. Len(buf) \in Nat /\ \A i \in 1..Len(buf) : buf[i] \in Nat
  BY <1>2, LenProperties, ElementOfSeq
<1>4. whave \in 0..WSize
  BY <1>1, Constants
<1>5. /\ out0 - Left \in Nat /\ out0 - Left <= Len(buf)
      /\ out0 = BufSize => out0 - Left = Len(buf)
  BY <1>1, <1>3, Constants DEF Left
<1> QED
  BY <1>1, <1>2, <1>3, <1>4, <1>5, Zenon

\* The window keeps its types.
LEMMA WindowTypes ==
    ASSUME Types, Left <= out0, UpdateWindow
    PROVE  /\ wsize' = WSize
           /\ window' \in [0..(WSize - 1) -> Nat]
           /\ wnext' \in 0..(WSize - 1)
           /\ whave' \in 0..WSize
           /\ whave' \in { wnext', WSize }
<1>1. /\ out0 - Left \in Nat /\ out0 - Left <= Len(buf) /\ Len(buf) \in Nat
      /\ \A i \in 1..Len(buf) : buf[i] \in Nat
      /\ wnext \in 0..(WSize - 1) /\ whave \in 0..WSize /\ whave \in { wnext, WSize }
      /\ window \in [0..(WSize - 1) -> Nat]
  BY BeforeUpdate
<1>2. PICK N \in Nat : N = out0 - Left
  BY <1>1
<1>3. N <= Len(buf)
  BY <1>1, <1>2
<1>4. PICK k : k = Smaller(WSize - wnext, N)
  OBVIOUS
<1>5. /\ wsize' = WSize
      /\ N >= WSize =>
             /\ window' = [j \in 0..(WSize - 1) |-> buf[Len(buf) - WSize + 1 + j]]
             /\ wnext' = 0 /\ whave' = WSize
      /\ N < WSize =>
             /\ window' = [j \in 0..(WSize - 1) |->
                             IF j >= wnext /\ j < wnext + k
                             THEN buf[Len(buf) - N + (j - wnext + 1)]
                             ELSE IF j < N - k THEN buf[Len(buf) - N + (k + j + 1)]
                             ELSE window[j]]
             /\ wnext' = WriteIndex(N, k) /\ whave' = Fill(N, k)
  BY <1>2, <1>4, UpdateCases, Zenon
<1>6. CASE N >= WSize
  <2>1. \A j \in 0..(WSize - 1) : Len(buf) - WSize + 1 + j \in 1..Len(buf)
    BY <1>1, <1>3, <1>6, Constants
  <2>2. \A j \in 0..(WSize - 1) : buf[Len(buf) - WSize + 1 + j] \in Nat
    BY <1>1, <2>1
  <2>3. window' \in [0..(WSize - 1) -> Nat]
    BY <1>5, <1>6, <2>2, Zenon
  <2>4. wnext' = 0 /\ whave' = WSize
    BY <1>5, <1>6, Zenon
  <2> QED
    BY <1>5, <2>3, <2>4, Constants
<1>7. CASE N < WSize
  <2>1. wnext' = WriteIndex(N, k) /\ whave' = Fill(N, k)
    BY <1>5, <1>7, Zenon
  <2>2. /\ wnext' = IF N > k THEN N - k ELSE (wnext + k) % WSize
        /\ whave' = IF N > k THEN WSize ELSE IF whave < WSize THEN whave + k ELSE whave
    BY <2>1 DEF WriteIndex, Fill
  <2>3. /\ k \in Nat /\ k <= N /\ wnext' \in 0..(WSize - 1) /\ whave' \in 0..WSize
        /\ whave' \in { wnext', WSize }
    BY <1>1, <1>4, <1>7, <2>2, NewIndex
  <2>4. k <= WSize - wnext
    BY <1>1, <1>4, Constants DEF Smaller
  <2>5. \A j \in 0..(WSize - 1) :
           (IF j >= wnext /\ j < wnext + k THEN buf[Len(buf) - N + (j - wnext + 1)]
            ELSE IF j < N - k THEN buf[Len(buf) - N + (k + j + 1)]
            ELSE window[j]) \in Nat
    <3> SUFFICES ASSUME NEW j \in 0..(WSize - 1)
                 PROVE  (IF j >= wnext /\ j < wnext + k
                         THEN buf[Len(buf) - N + (j - wnext + 1)]
                         ELSE IF j < N - k THEN buf[Len(buf) - N + (k + j + 1)]
                         ELSE window[j]) \in Nat
      OBVIOUS
    <3>1. ASSUME j >= wnext /\ j < wnext + k PROVE buf[Len(buf) - N + (j - wnext + 1)] \in Nat
      <4>1. Len(buf) - N + (j - wnext + 1) \in 1..Len(buf)
        BY <1>1, <1>3, <2>3, <3>1
      <4> QED
        BY <1>1, <4>1
    <3>2. ASSUME j < N - k PROVE buf[Len(buf) - N + (k + j + 1)] \in Nat
      <4>1. Len(buf) - N + (k + j + 1) \in 1..Len(buf)
        BY <1>1, <1>3, <2>3, <3>2
      <4> QED
        BY <1>1, <4>1
    <3>3. window[j] \in Nat
      BY <1>1
    <3> QED
      BY <3>1, <3>2, <3>3
  <2>6. window' \in [0..(WSize - 1) -> Nat]
    BY <1>5, <1>7, <2>5, Zenon
  <2> QED
    BY <1>5, <2>3, <2>6
<1>8. N >= WSize \/ N < WSize
  BY Constants
<1> QED
  BY <1>6, <1>7, <1>8, Zenon

\* The end of a longer text, from its front.
LEMMA EndOfConcat ==
    ASSUME NEW t \in Seq(Nat), NEW b \in Seq(Nat), NEW d \in 1..(Len(t) + Len(b))
    PROVE  /\ Len(t \o b) = Len(t) + Len(b)
           /\ d <= Len(b) => (t \o b)[Len(t \o b) - d + 1] = b[Len(b) - d + 1]
           /\ d > Len(b) => (t \o b)[Len(t \o b) - d + 1] = t[Len(t) - (d - Len(b)) + 1]
<1>1. /\ Len(t) \in Nat /\ Len(b) \in Nat /\ Len(t \o b) = Len(t) + Len(b)
      /\ \A i \in 1..(Len(t) + Len(b)) :
             (t \o b)[i] = IF i <= Len(t) THEN t[i] ELSE b[i - Len(t)]
  BY ConcatProperties, LenProperties
<1>2. PICK i \in 1..(Len(t) + Len(b)) : i = Len(t \o b) - d + 1
  <2>1. Len(t \o b) - d + 1 \in 1..(Len(t) + Len(b))
    BY <1>1
  <2> QED
    BY <2>1, Zenon
<1>3. (t \o b)[i] = IF i <= Len(t) THEN t[i] ELSE b[i - Len(t)]
  BY <1>1
<1>4. d <= Len(b) => ~(i <= Len(t)) /\ i - Len(t) = Len(b) - d + 1
  BY <1>1, <1>2
<1>5. d > Len(b) => i <= Len(t) /\ i = Len(t) - (d - Len(b)) + 1
  BY <1>1, <1>2
<1> QED
  BY <1>1, <1>2, <1>3, <1>4, <1>5

\* updatewindow takes the whole output: the window then holds the end of the longer text.
LEMMA WindowTakesOutput ==
    ASSUME Types, Left <= out0, out0 = BufSize, UpdateWindow,
           NEW t \in Seq(Nat), HoldsEnd(window, wnext, whave, t)
    PROVE  HoldsEnd(window', wnext', whave', t \o buf)
<1>1. /\ out0 - Left = Len(buf) /\ Len(buf) \in Nat
      /\ wnext \in 0..(WSize - 1) /\ whave \in 0..WSize /\ whave \in { wnext, WSize }
  BY BeforeUpdate
<1>2. PICK N \in Nat : N = out0 - Left
  BY <1>1
<1>3. N = Len(buf) /\ Len(t) \in Nat /\ buf \in Seq(Nat)
  BY <1>1, <1>2, LenProperties DEF Types
<1>4. PICK k : k = Smaller(WSize - wnext, N)
  OBVIOUS
<1>5. /\ N >= WSize =>
             /\ window' = [j \in 0..(WSize - 1) |-> buf[Len(buf) - WSize + 1 + j]]
             /\ wnext' = 0 /\ whave' = WSize
      /\ N < WSize =>
             /\ window' = [j \in 0..(WSize - 1) |->
                             IF j >= wnext /\ j < wnext + k
                             THEN buf[Len(buf) - N + (j - wnext + 1)]
                             ELSE IF j < N - k THEN buf[Len(buf) - N + (k + j + 1)]
                             ELSE window[j]]
             /\ wnext' = WriteIndex(N, k) /\ whave' = Fill(N, k)
  BY <1>2, <1>4, UpdateCases, Zenon
<1>6. /\ whave = Smaller(WSize, Len(t))
      /\ \A d \in 1..whave : window[PlaceOf(wnext, d)]
                                 = t[Len(t) - d + 1]
  <2>1. HoldsEnd(window, wnext, whave, t) <=>
            /\ whave = Smaller(WSize, Len(t))
            /\ \A d \in 1..whave : window[PlaceOf(wnext, d)]
                                       = t[Len(t) - d + 1]
    BY SMTT(30), <1>1, Elements
  <2> QED
    BY <2>1, Zenon
<1>7. wnext' \in 0..(WSize - 1) /\ whave' \in 0..WSize
  BY WindowTypes
<1>8. PICK u : u = t \o buf
  OBVIOUS
<1>9. /\ Len(u) = Len(t) + N
      /\ \A d \in 1..(Len(t) + N) :
             /\ d <= N => u[Len(u) - d + 1] = buf[N - d + 1]
             /\ d > N => u[Len(u) - d + 1] = t[Len(t) - (d - N) + 1]
  <2>1. Len(u) = Len(t) + N
    BY <1>3, <1>8, ConcatProperties
  <2>2. ASSUME NEW d \in 1..(Len(t) + N)
        PROVE  /\ d <= N => u[Len(u) - d + 1] = buf[N - d + 1]
               /\ d > N => u[Len(u) - d + 1] = t[Len(t) - (d - N) + 1]
    BY <1>3, <1>8, EndOfConcat
  <2> QED
    BY <2>1, <2>2
<1>10. /\ whave' = Smaller(WSize, Len(u))
       /\ \A d \in 1..whave' :
              window'[PlaceOf(wnext', d)] = u[Len(u) - d + 1]
  <2>1. CASE N >= WSize
    <3>1. wnext' = 0 /\ whave' = WSize
          /\ window' = [j \in 0..(WSize - 1) |-> buf[Len(buf) - WSize + 1 + j]]
      BY <1>5, <2>1, Zenon
    <3>2. whave' = Smaller(WSize, Len(u))
      BY <1>3, <1>9, <2>1, <3>1, Constants DEF Smaller
    <3>3. ASSUME NEW d \in 1..whave'
          PROVE  window'[PlaceOf(wnext', d)]
                     = u[Len(u) - d + 1]
      <4>1. /\ WSize - d \in 0..(WSize - 1) /\ PlaceOf(0, d) = WSize - d
            /\ Len(buf) - WSize + 1 + (WSize - d) = N - d + 1
            /\ d \in 1..(Len(t) + N) /\ d <= N
        BY <1>1, <1>3, <2>1, <3>1, Constants DEF PlaceOf
      <4>2. window'[WSize - d] = buf[N - d + 1]
        BY <3>1, <4>1
      <4>3. u[Len(u) - d + 1] = buf[N - d + 1]
        BY <1>9, <4>1
      <4> QED
        BY <3>1, <4>1, <4>2, <4>3
    <3> QED
      BY <3>2, <3>3
  <2>2. CASE N < WSize
    <3>1. /\ window' = [j \in 0..(WSize - 1) |->
                             IF j >= wnext /\ j < wnext + k
                             THEN buf[Len(buf) - N + (j - wnext + 1)]
                             ELSE IF j < N - k THEN buf[Len(buf) - N + (k + j + 1)]
                             ELSE window[j]]
          /\ wnext' = WriteIndex(N, k) /\ whave' = Fill(N, k)
      BY <1>5, <2>2, Zenon
    <3>2. /\ wnext' = IF N > k THEN N - k ELSE (wnext + k) % WSize
          /\ whave' = IF N > k THEN WSize ELSE IF whave < WSize THEN whave + k ELSE whave
      BY <3>1 DEF WriteIndex, Fill
    <3>3. /\ k \in Nat
          /\ wnext' = Moved(wnext, N, k) /\ whave' = Filled(whave, N, k)
      BY <1>1, <1>4, <2>2, <3>2, NewIndex
    <3>4. ASSUME NEW d \in 1..WSize, NEW q, q = PlaceOf(wnext', d)
          PROVE  /\ whave' = Smaller(WSize, Len(t) + N)
                 /\ InPart(wnext, whave, N, k, whave', d, q)
      <4>1. Len(t) \in Nat /\ k = Smaller(WSize - wnext, N) /\ whave = Smaller(WSize, Len(t))
        BY <1>3, <1>4, <1>6
      <4> QED
        BY <1>1, <1>2, <2>2, <3>3, <3>4, <4>1, Places
    <3>5. whave' = Smaller(WSize, Len(u))
      <4>1. 1 \in 1..WSize
        BY Constants
      <4> QED
        BY <1>9, <3>4, <4>1, Zenon
    <3>6. ASSUME NEW d \in 1..whave'
          PROVE  window'[PlaceOf(wnext', d)]
                     = u[Len(u) - d + 1]
      <4>1. PICK q : q = PlaceOf(wnext', d)
        OBVIOUS
      <4>2. d \in 1..WSize /\ d \in 1..(Len(t) + N) /\ d <= whave'
        BY <1>3, <1>7, <1>9, <3>5, Constants DEF Smaller
      <4>3. q \in 0..(WSize - 1)
        BY <3>4, <4>1, <4>2 DEF InPart
      <4>4. window'[q] = IF q >= wnext /\ q < wnext + k
                         THEN buf[Len(buf) - N + (q - wnext + 1)]
                         ELSE IF q < N - k THEN buf[Len(buf) - N + (k + q + 1)]
                         ELSE window[q]
        BY <3>1, <4>3
      <4>5. CASE d <= N
        <5>1. \/ q >= wnext /\ q < wnext + k /\ q - wnext + 1 = N - d + 1
              \/ q < wnext /\ q < N - k /\ k + q + 1 = N - d + 1
          BY <3>4, <4>1, <4>2, <4>5, Zenon DEF InPart
        <5>2. Len(buf) - N + (N - d + 1) = N - d + 1
          BY <1>3, <4>2
        <5>3. ASSUME q >= wnext /\ q < wnext + k /\ q - wnext + 1 = N - d + 1
              PROVE  window'[q] = buf[N - d + 1]
          BY <4>4, <5>2, <5>3
        <5>4. ASSUME q < wnext /\ q < N - k /\ k + q + 1 = N - d + 1
              PROVE  window'[q] = buf[N - d + 1]
          <6>1. ~(q >= wnext)
            BY <1>1, <4>3, <5>4
          <6> QED
            BY <4>4, <5>2, <5>4, <6>1
        <5>5. window'[q] = buf[N - d + 1]
          BY <5>1, <5>3, <5>4, Zenon
        <5>6. u[Len(u) - d + 1] = buf[N - d + 1]
          BY <1>9, <4>2, <4>5
        <5> QED
          BY <4>1, <5>5, <5>6, Zenon
      <4>6. CASE d > N
        <5>1. /\ ~(q >= wnext /\ q < wnext + k) /\ ~(q < N - k)
              /\ d - N \in 1..whave
              /\ q = PlaceOf(wnext, d - N)
          BY <3>4, <4>1, <4>2, <4>6, Zenon DEF InPart
        <5>2. window'[q] = window[q]
          BY <4>4, <5>1, Zenon
        <5>3. window[q] = t[Len(t) - (d - N) + 1]
          BY <1>6, <5>1, Zenon
        <5>4. u[Len(u) - d + 1] = t[Len(t) - (d - N) + 1]
          BY <1>9, <4>2, <4>6
        <5> QED
          BY <4>1, <5>2, <5>3, <5>4, Zenon
      <4>7. d <= N \/ d > N
        BY <4>2
      <4> QED
        BY <4>5, <4>6, <4>7, Zenon
    <3> QED
      BY <3>5, <3>6, Zenon
  <2>3. N >= WSize \/ N < WSize
    BY Constants
  <2> QED
    BY <2>1, <2>2, <2>3, Zenon
<1>11. HoldsEnd(window', wnext', whave', u)
  BY <1>7, <1>10, Elements, Zenon
<1> QED
  BY <1>8, <1>11, Zenon

-----------------------------------------------------------------------------
(* What is copied.                                                         *)

\* Two sequences one behind the other.
LEMMA Joined ==
    ASSUME NEW s \in Seq(Nat), NEW t \in Seq(Nat)
    PROVE  s \o t \in Seq(Nat) /\ Len(s \o t) = Len(s) + Len(t)
BY ConcatProperties

LEMMA JoinedThree ==
    ASSUME NEW r \in Seq(Nat), NEW s \in Seq(Nat), NEW t \in Seq(Nat)
    PROVE  /\ s \o t \in Seq(Nat) /\ r \o (s \o t) \in Seq(Nat)
           /\ r \o (s \o t) = (r \o s) \o t
<1>1. s \o t \in Seq(Nat)
  BY Joined
<1>2. r \o (s \o t) \in Seq(Nat)
  BY <1>1, Joined
<1>3. (r \o s) \o t = r \o (s \o t)
  BY SMTT(30), ConcatAssociative
<1> QED
  BY <1>1, <1>2, <1>3, Zenon

\* A match inside the text.
LEMMA RepeatType ==
    ASSUME NEW s \in Seq(Nat), NEW n \in Nat, NEW d \in Nat \ {0}, n > 0 => d <= Len(s)
    PROVE  Repeat(s, n, d) \in Seq(Nat) /\ Len(Repeat(s, n, d)) = n
<1>1. Len(s) \in Nat /\ \A i \in 1..Len(s) : s[i] \in Nat
  BY LenProperties, ElementOfSeq
<1>2. \A i \in 1..n : s[Len(s) - d + 1 + ((i - 1) % d)] \in Nat
  <2> SUFFICES ASSUME NEW i \in 1..n PROVE s[Len(s) - d + 1 + ((i - 1) % d)] \in Nat
    OBVIOUS
  <2>1. d <= Len(s) /\ i - 1 \in Nat
    OBVIOUS
  <2>2. ((i - 1) % d) \in 0..(d - 1)
    BY <2>1, DivMod
  <2>3. PICK r \in 0..(d - 1) : r = ((i - 1) % d)
    BY <2>2, Zenon
  <2>4. Len(s) - d + 1 + r \in 1..Len(s)
    BY <1>1, <2>1
  <2> QED
    BY <1>1, <2>3, <2>4, Zenon
<1> QED
  BY <1>2 DEF Repeat

\* A piece of the window.
LEMMA SliceType ==
    ASSUME window \in [0..(WSize - 1) -> Nat], NEW from \in Nat, NEW n \in Nat, from + n <= WSize
    PROVE  Slice(from, n) \in Seq(Nat) /\ Len(Slice(from, n)) = n
<1>1. \A i \in 1..n : window[from + i - 1] \in Nat
  <2> SUFFICES ASSUME NEW i \in 1..n PROVE window[from + i - 1] \in Nat
    OBVIOUS
  <2>1. from + i - 1 \in 0..(WSize - 1)
    BY Constants
  <2> QED
    BY <2>1
<1> QED
  BY <1>1 DEF Slice

\* What the copies start from.
LEMMA BeforeCopy ==
    ASSUME Types
    PROVE  /\ buf \in Seq(Nat) /\ Len(buf) \in Nat /\ Left = BufSize - Len(buf) /\ Left \in Nat
           /\ length \in Nat /\ wnext \in 0..(WSize - 1) /\ whave \in 0..WSize
           /\ whave > 0 => wsize = WSize
           /\ whave = wnext \/ whave = WSize
           /\ window \in [0..(WSize - 1) -> Nat]
<1>1. /\ Left \in 0..BufSize /\ length \in Nat /\ wsize \in { 0, WSize }
      /\ wnext \in 0..(WSize - 1) /\ whave \in 0..wsize /\ whave \in { wnext, WSize }
  BY Zenon DEF Types, TypeOK
<1>2. buf \in Seq(Nat) /\ window \in [0..(WSize - 1) -> Nat]
  BY Zenon DEF Types
<1>3. Len(buf) \in Nat /\ Left = BufSize - Len(buf)
  BY <1>2, LenProperties DEF Left
<1>4. /\ whave \in 0..WSize /\ Left \in Nat
      /\ whave > 0 => wsize = WSize
      /\ whave = wnext \/ whave = WSize
  BY <1>1, Constants
<1> QED
  BY <1>1, <1>2, <1>3, <1>4, Zenon

\* One turn of MATCH copies bytes that exist, no more than the match and the room ask for.
LEMMA CopyMatchType ==
    ASSUME Types, offset \in 1..WSize, InWindow(offset) <= whave
    PROVE  /\ CopyMatch(Left) \in Seq(Nat)
           /\ Len(CopyMatch(Left)) <= Left /\ Len(CopyMatch(Left)) <= length
<1>1. /\ buf \in Seq(Nat) /\ Len(buf) \in Nat /\ Left \in Nat
      /\ length \in Nat /\ wnext \in 0..(WSize - 1) /\ whave \in 0..WSize
      /\ whave > 0 => wsize = WSize
      /\ whave = wnext \/ whave = WSize
      /\ window \in [0..(WSize - 1) -> Nat]
  BY BeforeCopy
<1>2. PICK n : n = Smaller(length, Left)
  OBVIOUS
<1>3. n \in Nat /\ n <= Left /\ n <= length
  BY <1>1, <1>2 DEF Smaller
<1>4. PICK back : back = InWindow(offset)
  OBVIOUS
<1>5. back = offset - Len(buf) /\ back \in Int /\ back <= whave
  BY <1>1, <1>4 DEF InWindow
<1>6. PICK c : c = CopyMatch(Left)
  OBVIOUS
<1>7. c = IF back <= 0 THEN Repeat(buf, n, offset)
          ELSE IF back > wnext
          THEN Slice(wsize - (back - wnext), Smaller(back - wnext, n))
          ELSE Slice(wnext - back, Smaller(back, n))
  BY <1>2, <1>4, <1>6 DEF CopyMatch
<1>8. c \in Seq(Nat) /\ Len(c) <= n /\ Len(c) \in Nat
  <2>1. CASE back <= 0
    <3>1. c = Repeat(buf, n, offset)
      BY <1>7, <2>1
    <3>2. offset \in Nat \ {0} /\ offset <= Len(buf)
      BY <1>1, <1>5, <2>1
    <3>3. Repeat(buf, n, offset) \in Seq(Nat) /\ Len(Repeat(buf, n, offset)) = n
      BY <1>1, <1>3, <3>2, RepeatType
    <3> QED
      BY <1>3, <3>1, <3>3
  <2>2. CASE back > 0 /\ back > wnext
    <3>1. PICK m : m = Smaller(back - wnext, n)
      OBVIOUS
    <3>2. m \in Nat /\ m <= n /\ m <= back - wnext
      BY <1>1, <1>3, <1>5, <2>2, <3>1 DEF Smaller
    <3>3. PICK from : from = wsize - (back - wnext)
      OBVIOUS
    <3>4. from \in Nat /\ from + m <= WSize
      <4>1. wsize = WSize /\ WSize \in Nat /\ back <= WSize /\ wnext \in Nat
        BY <1>1, <1>5, <2>2, Constants
      <4> QED
        BY <1>5, <2>2, <3>2, <3>3, <4>1
    <3>5. c = Slice(from, m)
      BY <1>5, <1>7, <2>2, <3>1, <3>3
    <3>6. Slice(from, m) \in Seq(Nat) /\ Len(Slice(from, m)) = m
      BY <1>1, <3>2, <3>4, SliceType
    <3> QED
      BY <3>2, <3>5, <3>6
  <2>3. CASE back > 0 /\ ~(back > wnext)
    <3>1. PICK m : m = Smaller(back, n)
      OBVIOUS
    <3>2. m \in Nat /\ m <= n /\ m <= back
      BY <1>1, <1>3, <1>5, <2>3, <3>1 DEF Smaller
    <3>3. PICK from : from = wnext - back
      OBVIOUS
    <3>4. from \in Nat /\ from + m <= WSize
      BY SMTT(30), <1>1, <1>5, <2>3, <3>2, <3>3, Constants
    <3>5. c = Slice(from, m)
      BY <1>5, <1>7, <2>3, <3>1, <3>3
    <3>6. Slice(from, m) \in Seq(Nat) /\ Len(Slice(from, m)) = m
      BY <1>1, <3>2, <3>4, SliceType
    <3> QED
      BY <3>2, <3>5, <3>6
  <2> QED
    BY <1>5, <2>1, <2>2, <2>3
<1> QED
  BY <1>1, <1>3, <1>6, <1>8

\* inflate_fast copies the whole match, of bytes that exist.
LEMMA FastMatchType ==
    ASSUME Types, NEW n \in Nat, NEW d \in 1..WSize, InWindow(d) <= whave
    PROVE  FastMatch(n, d) \in Seq(Nat) /\ Len(FastMatch(n, d)) = n
<1>1. /\ buf \in Seq(Nat) /\ Len(buf) \in Nat
      /\ wnext \in 0..(WSize - 1) /\ whave \in 0..WSize
      /\ whave > 0 => wsize = WSize
      /\ whave = wnext \/ whave = WSize
      /\ window \in [0..(WSize - 1) -> Nat]
  BY BeforeCopy
<1>2. PICK back : back = InWindow(d)
  OBVIOUS
<1>3. back = d - Len(buf) /\ back \in Int /\ back <= whave /\ WSize \in Nat
  BY <1>1, <1>2, Constants DEF InWindow
<1>4. PICK part : part = IF back <= 0 THEN << >>
                         ELSE IF wnext = 0 THEN Slice(wsize - back, back)
                         ELSE IF wnext < back
                         THEN Slice(wsize + wnext - back, back - wnext) \o Slice(0, wnext)
                         ELSE Slice(wnext - back, back)
  OBVIOUS
<1>5. PICK first : first = SubSeq(part, 1, Smaller(n, Len(part)))
  OBVIOUS
<1>6. PICK c : c = FastMatch(n, d)
  OBVIOUS
<1>7. c = first \o Repeat(buf \o first, n - Len(first), d)
  BY <1>2, <1>4, <1>5, <1>6 DEF FastMatch
<1>8. part \in Seq(Nat) /\ Len(part) = IF back <= 0 THEN 0 ELSE back
  <2>1. CASE back <= 0
    <3>1. part = << >>
      BY <1>4, <2>1
    <3> QED
      BY <2>1, <3>1
  <2>2. CASE back > 0 /\ wnext = 0
    <3>1. wsize = WSize /\ back <= WSize
      BY <1>1, <1>3, <2>2
    <3>2. PICK from : from = wsize - back
      OBVIOUS
    <3>3. from \in Nat /\ back \in Nat /\ from + back <= WSize
      BY <1>3, <2>2, <3>1, <3>2
    <3>4. part = Slice(from, back)
      BY <1>3, <1>4, <2>2, <3>2
    <3>5. Slice(from, back) \in Seq(Nat) /\ Len(Slice(from, back)) = back
      BY <1>1, <3>3, SliceType
    <3> QED
      BY <1>3, <2>2, <3>4, <3>5
  <2>3. CASE back > 0 /\ wnext # 0 /\ wnext < back
    <3>1. wsize = WSize /\ back <= WSize /\ wnext \in Nat /\ wnext <= WSize
      BY <1>1, <1>3, <2>3
    <3>2. PICK from : from = wsize + wnext - back
      OBVIOUS
    <3>3. PICK m : m = back - wnext
      OBVIOUS
    <3>4. from \in Nat /\ m \in Nat /\ from + m <= WSize
      BY <1>3, <2>3, <3>1, <3>2, <3>3
    <3>5. part = Slice(from, m) \o Slice(0, wnext)
      BY <1>3, <1>4, <2>3, <3>2, <3>3
    <3>6. Slice(from, m) \in Seq(Nat) /\ Len(Slice(from, m)) = m
      BY <1>1, <3>4, SliceType
    <3>7. 0 + wnext <= WSize
      BY <3>1
    <3>8. Slice(0, wnext) \in Seq(Nat) /\ Len(Slice(0, wnext)) = wnext
      BY <1>1, <3>1, <3>7, SliceType
    <3>9. part \in Seq(Nat) /\ Len(part) = m + wnext
      BY <3>5, <3>6, <3>8, Joined
    <3> QED
      BY <1>3, <2>3, <3>1, <3>3, <3>9
  <2>4. CASE back > 0 /\ wnext # 0 /\ ~(wnext < back)
    <3>1. PICK from : from = wnext - back
      OBVIOUS
    <3>2. from \in Nat /\ back \in Nat /\ from + back <= WSize
      BY <1>1, <1>3, <2>4, <3>1
    <3>3. part = Slice(from, back)
      BY <1>3, <1>4, <2>4, <3>1
    <3>4. Slice(from, back) \in Seq(Nat) /\ Len(Slice(from, back)) = back
      BY <1>1, <3>2, SliceType
    <3> QED
      BY <1>3, <2>4, <3>3, <3>4
  <2> QED
    BY <1>3, <2>1, <2>2, <2>3, <2>4
<1>9. /\ first \in Seq(Nat) /\ Len(first) \in Nat /\ Len(first) <= n
      /\ Len(first) = n \/ Len(first) = Len(part)
  <2>1. Len(part) \in Nat
    BY <1>8, LenProperties
  <2>2. PICK m : m = Smaller(n, Len(part))
    OBVIOUS
  <2>3. m \in 0..Len(part) /\ m <= n /\ (m = n \/ m = Len(part))
    BY <2>1, <2>2 DEF Smaller
  <2>4. first \in Seq(Nat) /\ Len(first) = m
    BY <1>5, <1>8, <2>2, <2>3, CutInTwo
  <2> QED
    BY <2>1, <2>3, <2>4
<1>10. buf \o first \in Seq(Nat) /\ Len(buf \o first) = Len(buf) + Len(first)
  BY <1>1, <1>9, Joined
<1>11. PICK rest : rest = n - Len(first)
  OBVIOUS
<1>12. PICK s : s = buf \o first
  OBVIOUS
<1>13. rest \in Nat /\ (rest > 0 => d <= Len(s))
  BY <1>1, <1>3, <1>8, <1>9, <1>10, <1>11, <1>12
<1>14. d \in Nat \ {0} /\ s \in Seq(Nat)
  BY <1>10, <1>12, Constants
<1>15. Repeat(s, rest, d) \in Seq(Nat) /\ Len(Repeat(s, rest, d)) = rest
  BY <1>13, <1>14, RepeatType
<1>16. c = first \o Repeat(s, rest, d)
  BY <1>7, <1>11, <1>12, Zenon
<1>17. c \in Seq(Nat) /\ Len(c) = Len(first) + rest
  BY <1>9, <1>15, <1>16, Joined
<1> QED
  BY <1>6, <1>9, <1>11, <1>17

-----------------------------------------------------------------------------
(* inflate(): each of its steps is one of these, as far as the invariant   *)
(* goes.                                                                   *)

Returns == { "OK", "STREAM_END", "NEED_DICT", "DATA_ERROR", "BUF_ERROR", "MEM_ERROR" }
Modes == { "HEAD", "DICT", "TYPE", "COPY", "LEN", "DIST", "MATCH", "LIT",
           "CHECK", "LENGTH", "DONE", "BAD", "MEM" }

\* What is read and what is put out has its types, and there is room for it.
Typed ==
    /\ ret' \in Returns
    /\ input' \in Seq(AllBytes) /\ hold' \in Seq(GoodItems)
    /\ buf' \in Seq(Nat) /\ Len(buf') <= BufSize
    /\ last' \in BOOLEAN /\ flags' \in BOOLEAN /\ length' \in Nat
    /\ mode' \in Modes /\ offset' \in 0..WSize /\ (mode' = "MATCH" => offset' \in 1..WSize)

\* The output grows, and out0 stays until the blocks are behind; nothing else is touched.
InsideStep ==
    /\ pc = "inflate" /\ pc' \in { "inflate", "leave", "called" }
    /\ Typed
    /\ Len(buf) <= Len(buf')
    /\ out0' = out0 \/ (out0' = Left /\ buf' = buf /\ mode' \notin Before)
    /\ mode' \in Before => mode \in Before /\ pc' # "called"
    /\ UNCHANGED << flush, luabuf, win, in0, history >>

\* The types, one by one.
LEMMA TypesNow ==
    ASSUME Inv
    PROVE  /\ pc \in { "none", "idle", "loop", "inflate", "leave", "called" }
           /\ flush \in { "NO_FLUSH", "FINISH" } /\ ret \in Returns
           /\ input \in Seq(AllBytes) /\ hold \in Seq(GoodItems) /\ fed \in Seq(AllBytes)
           /\ buf \in Seq(Nat) /\ luabuf \in Seq(Nat) /\ out \in Seq(Nat)
           /\ Len(buf) \in Nat /\ Len(buf) <= BufSize /\ Left = BufSize - Len(buf)
           /\ out0 \in 0..BufSize /\ in0 \in Nat /\ mode \in Modes
           /\ last \in BOOLEAN /\ flags \in BOOLEAN /\ length \in Nat /\ offset \in 0..WSize
           /\ wsize \in { 0, WSize } /\ wnext \in 0..(WSize - 1) /\ whave \in 0..wsize
           /\ whave \in { wnext, WSize }
           /\ window \in [0..(WSize - 1) -> Nat]
           /\ stage \in { "open", "finished", "refused", "stale" }
           /\ mode = "MATCH" => offset \in 1..WSize
           /\ pc \in { "inflate", "leave" } => Left <= out0
<1> USE DEF Returns, Modes
<1>1. /\ Left \in 0..BufSize /\ buf \in Seq(Nat)
  BY Zenon DEF Inv, Types, TypeOK
<1>2. Len(buf) \in Nat /\ Len(buf) <= BufSize /\ Left = BufSize - Len(buf)
  BY <1>1, LenProperties, Constants DEF Left
<1> QED
  BY <1>2, Zenon DEF Inv, Types, TypeOK

\* Such a step keeps the types ...
LEMMA InsideTypes ==
    ASSUME Inv, InsideStep
    PROVE  Types'
<1>1. /\ pc' \in { "none", "idle", "loop", "inflate", "leave", "called" }
      /\ Typed
      /\ UNCHANGED << flush, luabuf, window, wsize, wnext, whave, in0, fed, out, stage >>
  BY Zenon DEF InsideStep, win, history
<1>2. /\ flush' \in { "NO_FLUSH", "FINISH" } /\ fed' \in Seq(AllBytes)
      /\ luabuf' \in Seq(Nat) /\ out' \in Seq(Nat) /\ in0' \in Nat
      /\ wsize' \in { 0, WSize } /\ wnext' \in 0..(WSize - 1) /\ whave' \in 0..wsize'
      /\ whave' \in { wnext', WSize }
      /\ window' \in [0..(WSize - 1) -> Nat]
      /\ stage' \in { "open", "finished", "refused", "stale" }
  BY <1>1, TypesNow, Zenon
<1>3. Left' \in 0..BufSize /\ out0' \in 0..BufSize /\ Left' <= out0'
  <2>1. /\ Len(buf) \in Nat /\ Len(buf) <= BufSize /\ Left = BufSize - Len(buf)
        /\ out0 \in 0..BufSize /\ Left <= out0
    BY TypesNow DEF InsideStep
  <2>2. buf' \in Seq(Nat) /\ Len(buf') <= BufSize /\ Len(buf) <= Len(buf')
    BY Zenon DEF InsideStep, Typed
  <2>3. Len(buf') \in Nat /\ Left' = BufSize - Len(buf')
    BY <2>2, LenProperties DEF Left
  <2>4. out0' = out0 \/ (out0' = Left /\ buf' = buf)
    BY Zenon DEF InsideStep
  <2> QED
    BY <2>1, <2>2, <2>3, <2>4, Constants
<1> QED
  BY <1>1, <1>2, <1>3, Zenon DEF Types, TypeOK, Typed, Returns, Modes

\* ... and the window.
LEMMA InsideKeeps ==
    ASSUME Inv, InsideStep
    PROVE  Inv'
<1>1. Types'
  BY InsideTypes
<1>2. WindowFollows'
  <2>1. /\ UNCHANGED << luabuf, window, wsize, wnext, whave, fed, out, stage >>
        /\ pc = "inflate" /\ pc' \in { "inflate", "leave", "called" }
        /\ mode' \in Before => mode \in Before /\ pc' # "called" /\ out0' = out0
    BY Zenon DEF InsideStep, win, history
  <2>2. SUFFICES ASSUME stage' = "open", mode' \in Before
        PROVE  /\ HoldsEnd(window', wnext', whave', out' \o luabuf')
               /\ out0' = BufSize /\ pc' # "called"
    BY Zenon DEF WindowFollows
  <2>3. HoldsEnd(window, wnext, whave, out \o luabuf) /\ out0 = BufSize
    BY <2>1, <2>2, Zenon DEF Inv, WindowFollows
  <2> QED
    BY <2>1, <2>2, <2>3, Zenon
<1>3. Between'
  BY DEF InsideStep, Between
<1> QED
  BY <1>1, <1>2, <1>3, Zenon DEF Inv

\* Nothing is put out: the buffer stays.
LEMMA NothingPutOut ==
    ASSUME Inv, buf' = buf
    PROVE  buf' \in Seq(Nat) /\ Len(buf') <= BufSize /\ Len(buf) <= Len(buf')
BY TypesNow

LEMMA NoItem == << >> \in Seq(GoodItems)
OBVIOUS

\* The items in the bit buffer.
LEMMA NextItem ==
    ASSUME Inv, hold # << >>
    PROVE  /\ Tail(hold) \in Seq(GoodItems)
           /\ Head(hold).k \in STRING /\ Head(hold).n \in Nat /\ Head(hold).last \in BOOLEAN
           /\ Head(hold).k = "dist" => Head(hold).n \in 1..WSize
<1>1. Tail(hold) \in Seq(GoodItems) /\ Head(hold) \in GoodItems
  BY TypesNow, HeadTailProperties
<1>2. Head(hold) \in Items /\ (Head(hold).k = "dist" => Head(hold).n \in 1..WSize)
  BY <1>1 DEF GoodItems
<1> QED
  BY <1>1, <1>2 DEF Items

LEMMA PullByteInside == ASSUME Inv, PullByte PROVE InsideStep
<1>1. hold' \in Seq(GoodItems) /\ input' \in Seq(AllBytes)
  <2>1. input \in Seq(AllBytes) /\ input # << >> /\ hold' = Head(input) /\ input' = Tail(input)
    BY TypesNow, Zenon DEF PullByte
  <2>2. Head(input) \in AllBytes /\ Tail(input) \in Seq(AllBytes)
    BY <2>1, HeadTailProperties
  <2> QED
    BY <2>1, <2>2, BytesAreItems
<1>2. /\ pc = "inflate"
      /\ UNCHANGED << pc, flush, ret, buf, luabuf, mode, last, flags, length, offset, win, out0,
                      in0, history >>
  BY Zenon DEF PullByte, WaitsForItem, code, progress
<1> QED
  BY <1>1, <1>2, TypesNow, NothingPutOut, Zenon DEF InsideStep, Typed

LEMMA NoInputInside == ASSUME Inv, NoInput PROVE InsideStep
<1>1. /\ pc = "inflate" /\ pc' = "leave" /\ ret' = "OK"
      /\ UNCHANGED << flush, input, buf, luabuf, mode, last, flags, length, offset, hold, win,
                      out0, in0, history >>
  BY Zenon DEF NoInput, WaitsForItem, InfLeave, io, code, progress
<1>2. pc' \in { "inflate", "leave", "called" } /\ pc' # "called" /\ ret' \in Returns
  BY <1>1 DEF Returns
<1> QED
  BY <1>1, <1>2, TypesNow, NothingPutOut, Zenon DEF InsideStep, Typed

LEMMA ReadHeadInside == ASSUME Inv, ReadHead PROVE InsideStep
<1>1. /\ pc = "inflate" /\ mode = "HEAD" /\ hold # << >>
      /\ UNCHANGED << pc, flush, ret, input, buf, luabuf, win, out0, in0, history >>
  BY Zenon DEF ReadHead, In, io, progress
<1>2. /\ mode' \in { "TYPE", "DICT", "BAD" } /\ hold' \in { << >>, Tail(hold) }
      /\ flags' \in { flags, Head(hold).k = "gzip" } /\ UNCHANGED << last, length, offset >>
  BY Zenon DEF ReadHead, Bad, code
<1>3. hold' \in Seq(GoodItems)
  BY <1>1, <1>2, NextItem, NoItem, Zenon
<1>4. flags' \in BOOLEAN
  BY <1>2, TypesNow, Zenon
<1>5. mode' \in Modes /\ mode' # "MATCH" /\ mode \in Before /\ pc' # "called"
      /\ pc' \in { "inflate", "leave", "called" }
  BY <1>1, <1>2 DEF Modes, Before
<1> QED
  BY <1>1, <1>2, <1>3, <1>4, <1>5, TypesNow, NothingPutOut, Zenon DEF InsideStep, Typed

LEMMA NeedDictInside == ASSUME Inv, NeedDict PROVE InsideStep
<1>1. /\ pc = "inflate" /\ mode = "DICT" /\ pc' = "called" /\ ret' = "NEED_DICT"
      /\ UNCHANGED << flush, input, buf, luabuf, mode, last, flags, length, offset, hold, win,
                      out0, in0, history >>
  BY Zenon DEF NeedDict, In, InfReturn, io, code, progress
<1>2. mode' \notin Before /\ pc' \in { "inflate", "leave", "called" } /\ ret' \in Returns
  BY <1>1 DEF Before, Returns
<1> QED
  BY <1>1, <1>2, TypesNow, NothingPutOut, Zenon DEF InsideStep, Typed

LEMMA ReadBlockHeaderInside == ASSUME Inv, ReadBlockHeader PROVE InsideStep
<1>1. /\ pc = "inflate" /\ mode = "TYPE" /\ hold # << >>
      /\ UNCHANGED << pc, flush, ret, input, buf, luabuf, win, out0, in0, history >>
  BY Zenon DEF ReadBlockHeader, In, io, progress
<1>2. /\ mode' \in { "COPY", "LEN", "BAD" } /\ hold' \in { << >>, Tail(hold) }
      /\ last' \in { last, Head(hold).last } /\ length' \in { length, Head(hold).n }
      /\ UNCHANGED << flags, offset >>
  BY Zenon DEF ReadBlockHeader, Bad, code
<1>3. hold' \in Seq(GoodItems) /\ last' \in BOOLEAN /\ length' \in Nat
  BY <1>1, <1>2, NextItem, NoItem, TypesNow, Zenon
<1>4. mode' \in Modes /\ mode' # "MATCH" /\ mode \in Before /\ pc' # "called"
      /\ pc' \in { "inflate", "leave", "called" }
  BY <1>1, <1>2 DEF Modes, Before
<1> QED
  BY <1>1, <1>2, <1>3, <1>4, TypesNow, NothingPutOut, Zenon DEF InsideStep, Typed

LEMMA LastBlockInside == ASSUME Inv, LastBlock PROVE InsideStep
<1>1. /\ pc = "inflate" /\ mode' = "CHECK" /\ hold' = << >>
      /\ UNCHANGED << pc, flush, ret, input, buf, luabuf, last, flags, length, offset, win, out0,
                      in0, history >>
  BY Zenon DEF LastBlock, In, io, code, progress
<1>2. mode' \in Modes /\ mode' # "MATCH" /\ mode' \notin Before
      /\ pc' \in { "inflate", "leave", "called" }
  BY <1>1 DEF Modes, Before
<1> QED
  BY <1>1, <1>2, NoItem, TypesNow, NothingPutOut, Zenon DEF InsideStep, Typed

LEMMA ReadCodeInside == ASSUME Inv, ReadCode PROVE InsideStep
<1>1. /\ pc = "inflate" /\ mode = "LEN" /\ hold # << >>
      /\ UNCHANGED << pc, flush, ret, input, buf, luabuf, last, flags, offset, win, out0, in0,
                      history >>
  BY Zenon DEF ReadCode, In, io, progress
<1>2. /\ mode' \in { "LIT", "DIST", "TYPE", "BAD" } /\ hold' = Tail(hold)
      /\ length' \in { length, Head(hold).n }
  BY Zenon DEF ReadCode, Bad, code
<1>3. hold' \in Seq(GoodItems) /\ length' \in Nat
  BY <1>1, <1>2, NextItem, TypesNow, Zenon
<1>4. mode' \in Modes /\ mode' # "MATCH" /\ mode \in Before /\ pc' # "called"
      /\ pc' \in { "inflate", "leave", "called" }
  BY <1>1, <1>2 DEF Modes, Before
<1> QED
  BY <1>1, <1>2, <1>3, <1>4, TypesNow, NothingPutOut, Zenon DEF InsideStep, Typed

LEMMA ReadDistInside == ASSUME Inv, ReadDist PROVE InsideStep
<1>1. /\ pc = "inflate" /\ mode = "DIST" /\ hold # << >>
      /\ UNCHANGED << pc, flush, ret, input, buf, luabuf, last, flags, length, win, out0, in0,
                      history >>
  BY Zenon DEF ReadDist, In, io, progress, Bad, code
<1>2. /\ hold' = Tail(hold)
      /\ \/ mode' = "MATCH" /\ Head(hold).k = "dist" /\ offset' = Head(hold).n
         \/ mode' = "BAD" /\ offset' = offset
  BY Zenon DEF ReadDist, Bad, code
<1>3. hold' \in Seq(GoodItems)
  BY <1>1, <1>2, NextItem, Zenon
<1>4. offset' \in 0..WSize /\ (mode' = "MATCH" => offset' \in 1..WSize)
  <2>1. Head(hold).k = "dist" => Head(hold).n \in 1..WSize
    BY <1>1, NextItem, Zenon
  <2>2. offset \in 0..WSize
    BY TypesNow, Zenon
  <2> QED
    BY <1>2, <2>1, <2>2, Constants
<1>5. mode' \in Modes /\ mode \in Before /\ pc' # "called"
      /\ pc' \in { "inflate", "leave", "called" }
  BY <1>1, <1>2 DEF Modes, Before
<1> QED
  BY <1>1, <1>2, <1>3, <1>4, <1>5, TypesNow, NothingPutOut, Zenon DEF InsideStep, Typed

LEMMA CheckTextInside == ASSUME Inv, CheckText PROVE InsideStep
<1>1. /\ pc = "inflate" /\ mode' \in { "LENGTH", "BAD" } /\ hold' = << >> /\ out0' = Left
      /\ UNCHANGED << pc, flush, ret, input, buf, luabuf, last, flags, length, offset, win, in0,
                      history >>
  BY Zenon DEF CheckText, In, io, code
<1>2. mode' \in Modes /\ mode' # "MATCH" /\ mode' \notin Before
      /\ pc' \in { "inflate", "leave", "called" }
  BY <1>1 DEF Modes, Before
<1> QED
  BY <1>1, <1>2, NoItem, TypesNow, NothingPutOut, Zenon DEF InsideStep, Typed

LEMMA CheckLengthInside == ASSUME Inv, CheckLength PROVE InsideStep
<1>1. /\ pc = "inflate" /\ mode' \in { "DONE", "BAD" } /\ hold' \in { << >>, hold }
      /\ UNCHANGED << pc, flush, ret, input, buf, luabuf, last, flags, length, offset, win, out0,
                      in0, history >>
  BY Zenon DEF CheckLength, In, io, code, progress
<1>2. mode' \in Modes /\ mode' # "MATCH" /\ mode' \notin Before
      /\ pc' \in { "inflate", "leave", "called" }
  BY <1>1 DEF Modes, Before
<1>3. hold' \in Seq(GoodItems)
  BY <1>1, NoItem, TypesNow, Zenon
<1> QED
  BY <1>1, <1>2, <1>3, TypesNow, NothingPutOut, Zenon DEF InsideStep, Typed

LEMMA OverInside == ASSUME Inv, Over PROVE InsideStep
<1>1. /\ pc = "inflate" /\ mode \in { "DONE", "BAD", "MEM" } /\ pc' \in { "leave", "called" }
      /\ ret' \in { "STREAM_END", "DATA_ERROR", "MEM_ERROR" }
      /\ UNCHANGED << flush, input, buf, luabuf, mode, last, flags, length, offset, hold, win,
                      out0, in0, history >>
  BY Zenon DEF Over, In, InfLeave, InfReturn, io, code, progress
<1>2. mode' \notin Before /\ pc' \in { "inflate", "leave", "called" } /\ ret' \in Returns
  BY <1>1 DEF Before, Returns
<1> QED
  BY <1>1, <1>2, TypesNow, NothingPutOut, Zenon DEF InsideStep, Typed

\* What is put out fits: t goes behind buf.
LEMMA PutOut ==
    ASSUME Inv, NEW t \in Seq(Nat), Len(t) <= Left, buf' = buf \o t
    PROVE  buf' \in Seq(Nat) /\ Len(buf') <= BufSize /\ Len(buf) <= Len(buf')
<1>1. buf \in Seq(Nat) /\ Len(buf) \in Nat /\ Left = BufSize - Len(buf)
  BY TypesNow
<1>2. buf \o t \in Seq(Nat) /\ Len(buf \o t) = Len(buf) + Len(t) /\ Len(t) \in Nat
  BY <1>1, Joined, LenProperties
<1> QED
  BY <1>1, <1>2, Constants

\* The same for one byte.
LEMMA PutOutOne ==
    ASSUME Inv, NEW c \in Nat, Left > 0, buf' = Append(buf, c)
    PROVE  buf' \in Seq(Nat) /\ Len(buf') <= BufSize /\ Len(buf) <= Len(buf')
<1>1. buf \in Seq(Nat) /\ Len(buf) \in Nat /\ Left = BufSize - Len(buf)
  BY TypesNow
<1>2. Append(buf, c) \in Seq(Nat) /\ Len(Append(buf, c)) = Len(buf) + 1
  BY <1>1, AppendProperties
<1> QED
  BY <1>1, <1>2, Constants

LEMMA LiteralInside == ASSUME Inv, Literal PROVE InsideStep
<1>1. /\ pc = "inflate" /\ mode = "LIT"
      /\ UNCHANGED << flush, input, luabuf, last, flags, length, offset, hold, win, out0, in0,
                      history >>
      /\ \/ pc' = "leave" /\ ret' = "OK" /\ mode' = mode /\ buf' = buf
         \/ pc' = pc /\ ret' = ret /\ mode' = "LEN" /\ Left > 0 /\ buf' = Append(buf, length)
  BY Zenon DEF Literal, In, InfLeave, code, progress
<1>2. buf' \in Seq(Nat) /\ Len(buf') <= BufSize /\ Len(buf) <= Len(buf')
  <2>1. length \in Nat
    BY TypesNow, Zenon
  <2> QED
    BY <1>1, <2>1, NothingPutOut, PutOutOne, Zenon
<1>3. /\ mode' \in Modes /\ mode' # "MATCH" /\ mode \in Before /\ pc' # "called"
      /\ pc' \in { "inflate", "leave", "called" } /\ "OK" \in Returns
  BY <1>1 DEF Modes, Before, Returns
<1>4. ret' \in Returns
  BY <1>1, <1>3, TypesNow, Zenon
<1> QED
  BY <1>1, <1>2, <1>3, <1>4, TypesNow, Zenon DEF InsideStep, Typed

LEMMA MatchInside == ASSUME Inv, Match PROVE InsideStep
<1>1. /\ pc = "inflate" /\ mode = "MATCH"
      /\ UNCHANGED << flush, input, luabuf, last, flags, offset, hold, win, out0, in0, history >>
  BY Zenon DEF Match, In, progress
<1>2. \/ pc' = "leave" /\ ret' = "OK" /\ mode' = mode /\ buf' = buf /\ length' = length
      \/ mode' = "BAD" /\ pc' = pc /\ ret' = ret /\ buf' = buf /\ length' = length
      \/ /\ InWindow(offset) <= whave /\ pc' = pc /\ ret' = ret
         /\ buf' = buf \o CopyMatch(Left) /\ length' = length - Len(CopyMatch(Left))
         /\ mode' \in { "LEN", mode }
  BY Zenon DEF Match, InfLeave
<1>3. offset \in 1..WSize /\ length \in Nat
  BY <1>1, TypesNow, Zenon
<1>4. buf' \in Seq(Nat) /\ Len(buf') <= BufSize /\ Len(buf) <= Len(buf') /\ length' \in Nat
  <2>1. CASE buf' = buf /\ length' = length
    BY <1>3, <2>1, NothingPutOut, Zenon
  <2>2. CASE /\ InWindow(offset) <= whave
             /\ buf' = buf \o CopyMatch(Left) /\ length' = length - Len(CopyMatch(Left))
    <3>1. PICK s : s = CopyMatch(Left)
      OBVIOUS
    <3>2. s \in Seq(Nat) /\ Len(s) <= Left /\ Len(s) <= length
      BY <1>3, <2>2, <3>1, CopyMatchType, Zenon DEF Inv
    <3>3. buf' = buf \o s /\ length' = length - Len(s)
      BY <2>2, <3>1, Zenon
    <3>4. buf' \in Seq(Nat) /\ Len(buf') <= BufSize /\ Len(buf) <= Len(buf')
      BY <3>2, <3>3, PutOut, Zenon
    <3>5. Len(s) \in Nat
      BY <3>2, LenProperties
    <3>6. length' \in Nat
      BY <1>3, <3>2, <3>3, <3>5
    <3> QED
      BY <3>4, <3>6
  <2> QED
    BY <1>2, <2>1, <2>2, Zenon
<1>5. /\ mode' \in Modes /\ mode \in Before /\ pc' # "called"
      /\ pc' \in { "inflate", "leave", "called" } /\ "OK" \in Returns
  BY <1>1, <1>2 DEF Modes, Before, Returns
<1>6. ret' \in Returns
  BY <1>2, <1>5, TypesNow, Zenon
<1>7. offset' \in 1..WSize /\ offset' \in 0..WSize
  BY <1>1, <1>3, TypesNow, Zenon
<1> QED
  BY <1>1, <1>4, <1>5, <1>6, <1>7, TypesNow, Zenon DEF InsideStep, Typed

\* The stored bytes are bytes.
LEMMA StoredBytes ==
    ASSUME NEW z \in Seq(AllBytes), NEW n \in 0..Len(z)
    PROVE  /\ [i \in 1..n |-> ByteValue(z[i])] \in Seq(Nat)
           /\ Len([i \in 1..n |-> ByteValue(z[i])]) = n
<1>1. n \in Nat /\ Len(z) \in Nat
  BY LenProperties
<1>2. ASSUME NEW i \in 1..n PROVE ByteValue(z[i]) \in Nat
  <2>1. z[i] \in AllBytes
    BY <1>1, ElementOfSeq
  <2>2. z[i] \in Seq(GoodItems)
    BY <2>1, BytesAreItems
  <2>3. z[i] # << >> => Head(z[i]).n \in Nat
    BY <2>2, HeadTailProperties DEF GoodItems, Items
  <2> QED
    BY <2>3 DEF ByteValue
<1> QED
  BY <1>1, <1>2

LEMMA CopyStoredInside == ASSUME Inv, CopyStored PROVE InsideStep
<1>1. PICK copy : copy = Smaller(length, Smaller(Len(input), Left))
  OBVIOUS
<1>2. /\ pc = "inflate" /\ mode = "COPY"
      /\ UNCHANGED << flush, luabuf, last, flags, offset, hold, win, out0, in0, history >>
  BY Zenon DEF CopyStored, In, progress
<1>3. \/ mode' = "TYPE" /\ UNCHANGED << pc, ret, input, buf, length >>
      \/ pc' = "leave" /\ ret' = "OK" /\ UNCHANGED << mode, input, buf, length >>
      \/ /\ copy > 0
         /\ buf' = buf \o [i \in 1..copy |-> ByteValue(input[i])]
         /\ input' = SubSeq(input, copy + 1, Len(input))
         /\ length' = length - copy
         /\ UNCHANGED << pc, ret, mode >>
  BY <1>1, Zenon DEF CopyStored, InfLeave
<1>4. length \in Nat /\ input \in Seq(AllBytes) /\ Len(input) \in Nat /\ Left \in Nat
  <2>1. /\ length \in Nat /\ input \in Seq(AllBytes)
        /\ Len(buf) \in Nat /\ Len(buf) <= BufSize /\ Left = BufSize - Len(buf)
    BY TypesNow
  <2> QED
    BY <2>1, LenProperties, Constants
<1>5. copy \in Nat /\ copy <= length /\ copy \in 0..Len(input) /\ copy <= Left
  BY <1>1, <1>4 DEF Smaller
<1>6. /\ buf' \in Seq(Nat) /\ Len(buf') <= BufSize /\ Len(buf) <= Len(buf')
      /\ length' \in Nat /\ input' \in Seq(AllBytes)
  <2>1. CASE UNCHANGED << input, buf, length >>
    BY <1>4, <2>1, NothingPutOut, Zenon
  <2>2. CASE /\ buf' = buf \o [i \in 1..copy |-> ByteValue(input[i])]
             /\ input' = SubSeq(input, copy + 1, Len(input))
             /\ length' = length - copy
    <3>1. PICK s : s = [i \in 1..copy |-> ByteValue(input[i])]
      OBVIOUS
    <3>2. s \in Seq(Nat) /\ Len(s) = copy
      BY <1>4, <1>5, <3>1, StoredBytes
    <3>3. buf' = buf \o s
      BY <2>2, <3>1, Zenon
    <3>4. buf' \in Seq(Nat) /\ Len(buf') <= BufSize /\ Len(buf) <= Len(buf')
      BY <1>5, <3>2, <3>3, PutOut
    <3>5. input' \in Seq(AllBytes)
      BY <1>4, <1>5, <2>2, CutInTwo
    <3>6. length' \in Nat
      BY <1>4, <1>5, <2>2
    <3> QED
      BY <3>4, <3>5, <3>6
  <2> QED
    BY <1>3, <2>1, <2>2, Zenon
<1>7. /\ mode' \in Modes /\ mode' # "MATCH" /\ mode \in Before /\ pc' # "called"
      /\ pc' \in { "inflate", "leave", "called" } /\ "OK" \in Returns
  BY <1>2, <1>3 DEF Modes, Before, Returns
<1>8. ret' \in Returns
  BY <1>3, <1>7, TypesNow, Zenon
<1> QED
  BY <1>2, <1>6, <1>7, <1>8, TypesNow, Zenon DEF InsideStep, Typed

-----------------------------------------------------------------------------
(* inflate_fast                                                            *)

\* The first byte of z that completes an item.
First(z, k) == k \in 1..Len(z) /\ z[k] # << >> /\ \A j \in 1..(k - 1) : z[j] = << >>

LEMMA HasFirst ==
    ASSUME NEW z \in Seq(AllBytes), HasItem(<< >>, z)
    PROVE  \E k \in Nat : First(z, k)
<1> DEFINE S == { i \in 1..Len(z) : z[i] # << >> }
<1>1. Len(z) \in Nat
  BY LenProperties
<1>2. S # {} /\ S \subseteq Nat
  BY <1>1 DEF HasItem
<1>3. PICK k \in S : \A j \in S : k <= j
  BY <1>2, LeastOf
<1>4. k \in 1..Len(z) /\ z[k] # << >> /\ k \in Nat
  BY <1>3
<1>5. \A j \in 1..(k - 1) : z[j] = << >>
  BY <1>1, <1>3, <1>4
<1> QED
  BY <1>4, <1>5 DEF First

LEMMA TakeFirst ==
    ASSUME NEW z \in Seq(AllBytes), NEW k, First(z, k)
    PROVE  /\ TakeItem(<< >>, z).item = Head(z[k])
           /\ TakeItem(<< >>, z).hold = Tail(z[k])
           /\ TakeItem(<< >>, z).input = SubSeq(z, k + 1, Len(z))
<1> DEFINE P(i) == z[i] # << >> /\ \A j \in 1..(i - 1) : z[j] = << >>
           c == CHOOSE i \in 1..Len(z) : P(i)
<1>1. TakeItem(<< >>, z) = [item |-> Head(z[c]), hold |-> Tail(z[c]),
                            input |-> SubSeq(z, c + 1, Len(z))]
  BY DEF TakeItem
<1>2. k \in 1..Len(z) /\ P(k)
  BY DEF First
<1>3. c \in 1..Len(z) /\ P(c)
  BY <1>2, Zenon
<1> HIDE DEF c
<1>4. Len(z) \in Nat
  BY LenProperties
<1>5. c = k
  <2>1. ASSUME c < k PROVE FALSE
    <3>1. c \in 1..(k - 1)
      BY <1>2, <1>3, <1>4, <2>1
    <3> QED
      BY <1>2, <1>3, <3>1
  <2>2. ASSUME k < c PROVE FALSE
    <3>1. k \in 1..(c - 1)
      BY <1>2, <1>3, <1>4, <2>2
    <3> QED
      BY <1>2, <1>3, <3>1
  <2> QED
    BY <1>2, <1>3, <1>4, <2>1, <2>2
<1>6. PICK x, t, r : x = Head(z[c]) /\ t = Tail(z[c]) /\ r = SubSeq(z, c + 1, Len(z))
  OBVIOUS
<1>7. TakeItem(<< >>, z) = [item |-> x, hold |-> t, input |-> r]
  BY <1>1, <1>6, Zenon
<1>8. TakeItem(<< >>, z).item = x /\ TakeItem(<< >>, z).hold = t /\ TakeItem(<< >>, z).input = r
  BY <1>7
<1> QED
  BY <1>5, <1>6, <1>8, Zenon

\* The next item is one of a stream, and so is what is left.
LEMMA TakeItemType ==
    ASSUME NEW h \in Seq(GoodItems), NEW z \in Seq(AllBytes), HasItem(h, z)
    PROVE  /\ TakeItem(h, z).item \in GoodItems
           /\ TakeItem(h, z).hold \in Seq(GoodItems)
           /\ TakeItem(h, z).input \in Seq(AllBytes)
<1>1. CASE h # << >>
  <2>1. TakeItem(h, z) = [item |-> Head(h), hold |-> Tail(h), input |-> z]
    BY <1>1 DEF TakeItem
  <2>2. Head(h) \in GoodItems /\ Tail(h) \in Seq(GoodItems)
    BY <1>1, HeadTailProperties
  <2> QED
    BY <2>1, <2>2
<1>2. CASE h = << >>
  <2>1. PICK k \in Nat : First(z, k)
    BY <1>2, HasFirst
  <2>2. k \in 1..Len(z) /\ z[k] # << >> /\ Len(z) \in Nat
    BY <2>1, LenProperties DEF First
  <2>3. z[k] \in Seq(GoodItems)
    BY <2>2, ElementOfSeq, BytesAreItems
  <2>4. Head(z[k]) \in GoodItems /\ Tail(z[k]) \in Seq(GoodItems)
    BY <2>2, <2>3, HeadTailProperties
  <2>5. SubSeq(z, k + 1, Len(z)) \in Seq(AllBytes)
    <3>1. k \in 0..Len(z)
      BY <2>2
    <3> QED
      BY <3>1, CutInTwo
  <2> QED
    BY <1>2, <2>1, <2>4, <2>5, TakeFirst
<1> QED
  BY <1>1, <1>2

\* What is behind the first k bytes.
LEMMA BehindFirst ==
    ASSUME NEW z \in Seq(AllBytes), NEW k \in 0..Len(z)
    PROVE  /\ Len(SubSeq(z, k + 1, Len(z))) = Len(z) - k
           /\ \A j \in 1..(Len(z) - k) : SubSeq(z, k + 1, Len(z))[j] = z[k + j]
<1>1. Len(z) \in Nat
  BY LenProperties
<1> QED
  BY <1>1

\* Input behind the first n bytes changes nothing about an item that is among them.
LEMMA MoreInput ==
    ASSUME NEW h \in Seq(GoodItems), NEW z \in Seq(AllBytes), NEW n \in 0..Len(z), NEW y,
           y = SubSeq(z, 1, n), HasItem(h, y)
    PROVE  /\ HasItem(h, z)
           /\ TakeItem(h, z).hold = TakeItem(h, y).hold
           /\ HasItem(TakeItem(h, y).hold, TakeItem(h, y).input) =>
                  HasItem(TakeItem(h, z).hold, TakeItem(h, z).input)
<1>1. /\ Len(z) \in Nat /\ y \in Seq(AllBytes) /\ Len(y) = n /\ n \in Nat
      /\ \A i \in 1..n : y[i] = z[i]
  <2>1. Len(z) \in Nat
    BY LenProperties
  <2>2. y \in Seq(AllBytes) /\ Len(y) = n
    BY CutInTwo
  <2>3. \A i \in 1..n : y[i] = z[i]
    BY <2>1
  <2> QED
    BY <2>1, <2>2, <2>3
<1>2. CASE h # << >>
  <2>1. /\ TakeItem(h, z) = [item |-> Head(h), hold |-> Tail(h), input |-> z]
        /\ TakeItem(h, y) = [item |-> Head(h), hold |-> Tail(h), input |-> y]
    BY <1>2 DEF TakeItem
  <2>2. HasItem(Tail(h), y) => HasItem(Tail(h), z)
    BY <1>1 DEF HasItem
  <2>3. /\ TakeItem(h, z).hold = Tail(h) /\ TakeItem(h, z).input = z
        /\ TakeItem(h, y).hold = Tail(h) /\ TakeItem(h, y).input = y
    BY <2>1
  <2>4. HasItem(h, z)
    BY <1>2 DEF HasItem
  <2> QED
    BY <2>2, <2>3, <2>4, Zenon
<1>3. CASE h = << >>
  <2>1. PICK k \in Nat : First(y, k)
    BY <1>1, <1>3, HasFirst
  <2>2. k \in 1..n /\ y[k] # << >> /\ \A j \in 1..(k - 1) : y[j] = << >>
    BY <1>1, <2>1 DEF First
  <2>3. k \in 1..Len(z) /\ z[k] = y[k]
    BY <1>1, <2>2
  <2>4. \A j \in 1..(k - 1) : z[j] = << >>
    BY <1>1, <2>2
  <2>5. First(z, k)
    BY <2>2, <2>3, <2>4 DEF First
  <2>6. /\ TakeItem(h, z).hold = Tail(z[k])
        /\ TakeItem(h, z).input = SubSeq(z, k + 1, Len(z))
    BY <1>3, <2>5, TakeFirst, Zenon
  <2>7. /\ TakeItem(h, y).hold = Tail(y[k])
        /\ TakeItem(h, y).input = SubSeq(y, k + 1, Len(y))
    BY <1>1, <1>3, <2>1, TakeFirst, Zenon
  <2>8. HasItem(h, z)
    BY <2>2, <2>3 DEF HasItem
  <2>9. ASSUME NEW i \in 1..Len(SubSeq(y, k + 1, Len(y))),
               SubSeq(y, k + 1, Len(y))[i] # << >>
        PROVE  /\ i \in 1..Len(SubSeq(z, k + 1, Len(z)))
               /\ SubSeq(z, k + 1, Len(z))[i] # << >>
    <3>1. /\ Len(SubSeq(y, k + 1, Len(y))) = n - k
          /\ \A j \in 1..(n - k) : SubSeq(y, k + 1, Len(y))[j] = y[k + j]
      <4>1. k \in 0..Len(y)
        BY <1>1, <2>2
      <4> QED
        BY <1>1, <4>1, BehindFirst
    <3>2. /\ Len(SubSeq(z, k + 1, Len(z))) = Len(z) - k
          /\ \A j \in 1..(Len(z) - k) : SubSeq(z, k + 1, Len(z))[j] = z[k + j]
      <4>1. k \in 0..Len(z)
        BY <1>1, <2>3
      <4> QED
        BY <1>1, <4>1, BehindFirst
    <3>3. i \in 1..(n - k) /\ y[k + i] # << >>
      BY <1>1, <2>9, <3>1
    <3>4. i \in 1..(Len(z) - k) /\ k + i \in 1..n
      BY <1>1, <2>2, <3>3
    <3>5. z[k + i] # << >>
      BY <1>1, <3>3, <3>4
    <3> QED
      BY <3>2, <3>4, <3>5
  <2>10. TakeItem(h, z).hold = TakeItem(h, y).hold
    BY <2>3, <2>6, <2>7, Zenon
  <2>11. ASSUME HasItem(TakeItem(h, y).hold, TakeItem(h, y).input)
         PROVE  HasItem(TakeItem(h, z).hold, TakeItem(h, z).input)
    BY <2>6, <2>7, <2>9, <2>10, <2>11, Zenon DEF HasItem
  <2> QED
    BY <2>8, <2>10, <2>11
<1> QED
  BY <1>2, <1>3

\* The two items inflate_fast may take are there, and they are items of a stream.
LEMMA FastItems ==
    ASSUME Inv, Fast, NEW one, one = TakeItem(hold, input),
           NEW two, two = TakeItem(one.hold, one.input)
    PROVE  /\ one.item \in GoodItems /\ one.hold \in Seq(GoodItems) /\ one.input \in Seq(AllBytes)
           /\ two.item \in GoodItems /\ two.hold \in Seq(GoodItems) /\ two.input \in Seq(AllBytes)
<1>1. /\ hold \in Seq(GoodItems) /\ input \in Seq(AllBytes)
  BY TypesNow, Zenon
<1>2. PICK h, z : h = hold /\ z = input
  OBVIOUS
<1>3. PICK y : y = SubSeq(z, 1, FastIn)
  OBVIOUS
<1>4. /\ HasItem(h, y) /\ HasItem(TakeItem(h, y).hold, TakeItem(h, y).input)
      /\ Len(input) >= FastIn
  BY <1>2, <1>3, Zenon DEF Fast
<1>5. h \in Seq(GoodItems) /\ z \in Seq(AllBytes) /\ FastIn \in 0..Len(z)
  BY <1>1, <1>2, <1>4, LenProperties, Constants
<1>6. HasItem(h, z) /\ HasItem(TakeItem(h, z).hold, TakeItem(h, z).input)
  BY <1>3, <1>4, <1>5, MoreInput, Zenon
<1>7. /\ one.item \in GoodItems /\ one.hold \in Seq(GoodItems) /\ one.input \in Seq(AllBytes)
      /\ HasItem(one.hold, one.input)
  BY <1>2, <1>5, <1>6, TakeItemType, Zenon
<1>8. two.item \in GoodItems /\ two.hold \in Seq(GoodItems) /\ two.input \in Seq(AllBytes)
  BY <1>7, TakeItemType, Zenon
<1> QED
  BY <1>7, <1>8, Zenon

\* What the cases of inflate_fast come to.
LEMMA FastCases ==
    ASSUME DecodeFast, NEW one, one = TakeItem(hold, input),
           NEW two, two = TakeItem(one.hold, one.input)
    PROVE  /\ \/ hold' = one.hold /\ input' = one.input
              \/ hold' = two.hold /\ input' = two.input
           /\ \/ mode' = mode /\ buf' = Append(buf, one.item.n) /\ one.item.k = "lit"
              \/ /\ mode' = mode /\ buf' = buf \o FastMatch(one.item.n, two.item.n)
                 /\ one.item.k = "len" /\ two.item.k = "dist"
                 /\ InWindow(two.item.n) <= whave
              \/ mode' \in { "TYPE", "BAD" } /\ buf' = buf
BY Zenon DEF DecodeFast

LEMMA DecodeFastInside == ASSUME Inv, DecodeFast PROVE InsideStep
<1>1. /\ pc = "inflate" /\ mode = "LEN" /\ Fast
      /\ UNCHANGED << pc, flush, ret, luabuf, last, flags, length, offset, win, out0, in0,
                      history >>
  BY Zenon DEF DecodeFast, In, code, progress
<1>2. PICK one : one = TakeItem(hold, input)
  OBVIOUS
<1>3. PICK two : two = TakeItem(one.hold, one.input)
  OBVIOUS
<1>4. /\ one.item \in GoodItems /\ one.hold \in Seq(GoodItems) /\ one.input \in Seq(AllBytes)
      /\ two.item \in GoodItems /\ two.hold \in Seq(GoodItems) /\ two.input \in Seq(AllBytes)
  BY <1>1, <1>2, <1>3, FastItems, Zenon
<1>5. /\ \/ hold' = one.hold /\ input' = one.input
         \/ hold' = two.hold /\ input' = two.input
      /\ \/ mode' = mode /\ buf' = Append(buf, one.item.n) /\ one.item.k = "lit"
         \/ /\ mode' = mode /\ buf' = buf \o FastMatch(one.item.n, two.item.n)
            /\ one.item.k = "len" /\ two.item.k = "dist"
            /\ InWindow(two.item.n) <= whave
         \/ mode' \in { "TYPE", "BAD" } /\ buf' = buf
  BY <1>2, <1>3, FastCases, Zenon
<1>6. hold' \in Seq(GoodItems) /\ input' \in Seq(AllBytes)
  BY <1>4, <1>5, Zenon
<1>7. buf' \in Seq(Nat) /\ Len(buf') <= BufSize /\ Len(buf) <= Len(buf')
  <2>1. Left >= FastOut /\ Left \in Nat
    BY <1>1, TypesNow, Constants DEF Fast
  <2>2. CASE buf' = Append(buf, one.item.n)
    <3>1. PICK c : c = one.item.n
      OBVIOUS
    <3>2. c \in Nat
      BY <1>4, <3>1 DEF GoodItems, Items
    <3>3. Left > 0 /\ buf' = Append(buf, c)
      BY <2>1, <2>2, <3>1, Constants
    <3> QED
      BY <3>2, <3>3, PutOutOne
  <2>3. CASE /\ buf' = buf \o FastMatch(one.item.n, two.item.n)
             /\ one.item.k = "len" /\ two.item.k = "dist"
             /\ InWindow(two.item.n) <= whave
    <3>1. PICK n, d : n = one.item.n /\ d = two.item.n
      OBVIOUS
    <3>2. n \in 1..FastOut /\ d \in 1..WSize
      BY <1>4, <2>3, <3>1 DEF GoodItems
    <3>3. n \in Nat /\ n <= Left
      BY <2>1, <3>2, Constants
    <3>4. PICK t : t = FastMatch(n, d)
      OBVIOUS
    <3>5. t \in Seq(Nat) /\ Len(t) = n
      BY <2>3, <3>1, <3>2, <3>3, <3>4, FastMatchType, Zenon DEF Inv
    <3>6. buf' = buf \o t /\ Len(t) <= Left
      BY <2>3, <3>1, <3>3, <3>4, <3>5, Zenon
    <3> QED
      BY <3>5, <3>6, PutOut, Zenon
  <2>4. CASE buf' = buf
    BY <2>4, NothingPutOut, Zenon
  <2> QED
    BY <1>5, <2>2, <2>3, <2>4, Zenon
<1>8. /\ mode' \in Modes /\ mode' # "MATCH" /\ mode \in Before /\ pc' # "called"
      /\ pc' \in { "inflate", "leave", "called" }
  BY <1>1, <1>5 DEF Modes, Before
<1> QED
  BY <1>1, <1>6, <1>7, <1>8, TypesNow, Zenon DEF InsideStep, Typed

-----------------------------------------------------------------------------
(* The calls around inflate().                                             *)

\* The whole of inflate() as one of its steps.
LEMMA InflateKeeps ==
    ASSUME Inv,
           \/ PullByte \/ NoInput \/ ReadHead \/ NeedDict \/ ReadBlockHeader \/ LastBlock
           \/ CopyStored \/ ReadCode \/ ReadDist \/ Match \/ Literal \/ DecodeFast
           \/ CheckText \/ CheckLength \/ Over
    PROVE  Inv'
<1>1. InsideStep
  BY PullByteInside, NoInputInside, ReadHeadInside, NeedDictInside, ReadBlockHeaderInside,
     LastBlockInside, CopyStoredInside, ReadCodeInside, ReadDistInside, MatchInside,
     LiteralInside, DecodeFastInside, CheckTextInside, CheckLengthInside, OverInside, Zenon
<1> QED
  BY <1>1, InsideKeeps, Zenon

\* A chunk is made of bytes of a stream.
LEMMA ChunkBytes ==
    ASSUME Inv, NEW chunk \in Chunks
    PROVE  chunk \in Seq(AllBytes)
<1>1. \A z \in Streams : z \in Seq(AllBytes) /\ \A i \in 1..Len(z) : z[i] \in AllBytes
  <2> SUFFICES ASSUME NEW z \in Streams
               PROVE  z \in Seq(AllBytes) /\ \A i \in 1..Len(z) : z[i] \in AllBytes
    OBVIOUS
  <2>1. \A i \in 1..Len(z) : z[i] \in AllBytes
    BY DEF AllBytes
  <2>2. PICK S : z \in Seq(S)
    BY StreamBytes
  <2>3. z \in [1..Len(z) -> S] /\ Len(z) \in Nat
    BY <2>2, LenProperties
  <2>4. z \in [1..Len(z) -> AllBytes]
    BY <2>1, <2>3
  <2>5. z \in Seq(AllBytes)
    BY <2>3, <2>4
  <2> QED
    BY <2>1, <2>5
<1>2. Len(fed) \in Nat
  BY TypesNow, LenProperties
<1>3. CASE stage = "open"
  <2>1. PICK z \in Streams : \E n \in Len(fed)..Len(z) : chunk = SubSeq(z, Len(fed) + 1, n)
    BY <1>3 DEF Chunks
  <2> PICK n \in Len(fed)..Len(z) : chunk = SubSeq(z, Len(fed) + 1, n)
    BY <2>1
  <2>2. Len(z) \in Nat /\ \A i \in (Len(fed) + 1)..n : z[i] \in AllBytes
    <3>1. z \in Seq(AllBytes)
      BY <1>1
    <3>2. Len(z) \in Nat
      BY <3>1, LenProperties
    <3> QED
      BY <1>1, <1>2, <2>1, <3>2
  <2>3. Len(fed) + 1 \in Int /\ n \in Int
    BY <1>2, <2>1, <2>2
  <2>4. SubSeq(z, Len(fed) + 1, n) \in Seq(AllBytes)
    BY <2>2, <2>3, SubSeqProperties
  <2> QED
    BY <2>1, <2>4
<1>4. CASE stage # "open"
  <2>1. PICK z \in Streams : \E i \in 1..Len(z) : chunk = << z[i] >>
    BY <1>4 DEF Chunks
  <2> PICK i \in 1..Len(z) : chunk = << z[i] >>
    BY <2>1
  <2>2. z[i] \in AllBytes
    BY <1>1, <2>1
  <2> QED
    BY <2>1, <2>2
<1> QED
  BY <1>3, <1>4

\* Steps outside of inflate(): the window and what is being decoded stay.
OuterStep ==
    /\ pc' \in { "idle", "loop", "inflate", "called" }
    /\ flush' \in { "NO_FLUSH", "FINISH" } /\ ret' \in Returns
    /\ input' \in Seq(AllBytes) /\ fed' \in Seq(AllBytes)
    /\ buf' \in { << >>, buf } /\ luabuf' \in Seq(Nat) /\ out' \in Seq(Nat)
    /\ in0' \in Nat /\ out0' \in 0..BufSize
    /\ pc' = "inflate" => buf' = << >> /\ out0' = BufSize
    /\ mode' \in { mode, "MEM" }
    /\ UNCHANGED << last, flags, length, offset, hold, window, wsize, wnext, whave >>
    /\ stage' \in { "open", "finished", "refused", "stale" }

LEMMA OuterTypes ==
    ASSUME Inv, OuterStep
    PROVE  Types'
<1>1. /\ pc' \in { "none", "idle", "loop", "inflate", "leave", "called" } /\ pc' # "leave"
      /\ mode' \in Modes /\ (mode' = "MATCH" => mode = "MATCH")
  <2>1. mode \in Modes /\ "MEM" \in Modes
    BY TypesNow DEF Modes
  <2> QED
    BY <2>1 DEF OuterStep
<1>2. /\ offset' \in 0..WSize /\ (mode' = "MATCH" => offset' \in 1..WSize)
      /\ hold' \in Seq(GoodItems) /\ last' \in BOOLEAN /\ flags' \in BOOLEAN /\ length' \in Nat
      /\ wsize' \in { 0, WSize } /\ wnext' \in 0..(WSize - 1) /\ whave' \in 0..wsize'
      /\ whave' \in { wnext', WSize }
      /\ window' \in [0..(WSize - 1) -> Nat]
  BY <1>1, TypesNow, Zenon DEF OuterStep
<1>3. buf' \in Seq(Nat) /\ Left' \in 0..BufSize /\ (pc' = "inflate" => Left' <= out0')
  <2>1. << >> \in Seq(Nat) /\ Len(<< >>) = 0
    OBVIOUS
  <2>2. CASE buf' = << >>
    <3>1. Len(buf') = 0 /\ buf' \in Seq(Nat)
      BY <2>1, <2>2, Zenon
    <3>2. Left' = BufSize
      BY <3>1, Constants DEF Left
    <3>3. pc' = "inflate" => out0' = BufSize
      BY Zenon DEF OuterStep
    <3> QED
      BY <3>1, <3>2, <3>3, Constants
  <2>3. CASE buf' = buf
    <3>1. Len(buf) \in Nat /\ Len(buf) <= BufSize /\ Left = BufSize - Len(buf) /\ buf \in Seq(Nat)
      BY TypesNow, Zenon
    <3>2. Left' = Left
      BY <2>3 DEF Left
    <3>3. pc' = "inflate" => buf = << >> /\ out0' = BufSize
      BY <2>3, Zenon DEF OuterStep
    <3>4. pc' = "inflate" => Len(buf) = 0
      BY <2>1, <3>3, Zenon
    <3> QED
      BY <2>3, <3>1, <3>2, <3>3, <3>4, Constants
  <2> QED
    BY <2>2, <2>3, Zenon DEF OuterStep
<1> QED
  BY <1>1, <1>2, <1>3, Zenon DEF Types, TypeOK, OuterStep, Returns, Modes

LEMMA NoBytes == << >> \in Seq(Nat) /\ << >> \in Seq(AllBytes)
OBVIOUS

LEMMA CreateKeeps == ASSUME Inv, Create PROVE Inv'
<1>1. /\ pc = "none" /\ pc' = "idle" /\ stage' = "open"
      /\ UNCHANGED << flush, ret, input, buf, luabuf, mode, last, flags, length, offset, hold,
                      window, wsize, wnext, whave, in0, out0, fed, out >>
  BY Zenon DEF Create, io, code, win, progress
<1>2. OuterStep
  <2>1. pc' \in { "idle", "loop", "inflate", "called" } /\ pc' # "inflate"
        /\ stage' \in { "open", "finished", "refused", "stale" }
    BY <1>1
  <2> QED
    BY <1>1, <2>1, TypesNow, Zenon DEF OuterStep
<1>3. luabuf' = << >> /\ out' = << >> /\ whave' = 0 /\ pc' # "none" /\ pc' # "called"
      /\ pc' \notin { "inflate", "leave" }
  BY <1>1 DEF Inv, Between
<1>4. HoldsEnd(window', wnext', whave', out' \o luabuf')
  <2>1. PICK t : t = out' \o luabuf'
    OBVIOUS
  <2>2. t = << >>
    BY <1>3, <2>1
  <2>3. Len(t) = 0
    BY <2>2
  <2>4. whave' = Smaller(WSize, Len(t)) /\ 1..whave' = {}
    BY <1>3, <2>3, Constants DEF Smaller
  <2>5. HoldsEnd(window', wnext', whave', t)
    BY <2>4 DEF HoldsEnd
  <2> QED
    BY <2>1, <2>5, Zenon
<1>5. WindowFollows' /\ Between'
  BY <1>1, <1>3, <1>4, Zenon DEF WindowFollows, Between
<1> QED
  BY <1>2, <1>5, OuterTypes, Zenon DEF Inv

\* A call begins: nothing but its input changes.
LEMMA BeginKeeps ==
    ASSUME Inv, pc = "idle", pc' = "loop", flush' \in { "NO_FLUSH", "FINISH" },
           input' \in Seq(AllBytes), fed' \in Seq(AllBytes),
           UNCHANGED << ret, buf, luabuf, mode, last, flags, length, offset, hold, window, wsize,
                        wnext, whave, in0, out0, out, stage >>
    PROVE  Inv'
<1>1. OuterStep
  <2>1. pc' \in { "idle", "loop", "inflate", "called" } /\ pc' # "inflate"
    OBVIOUS
  <2> QED
    BY <2>1, TypesNow, Zenon DEF OuterStep
<1>2. WindowFollows'
  <2>1. pc' # "called" /\ pc' \notin { "inflate", "leave" } /\ pc \in { "idle", "loop" }
    OBVIOUS
  <2>2. stage = "open" /\ mode \in Before =>
            HoldsEnd(window, wnext, whave, out \o luabuf)
    BY <2>1, Zenon DEF Inv, WindowFollows
  <2> QED
    BY <2>1, <2>2, Zenon DEF WindowFollows
<1>3. Between'
  BY DEF Between
<1> QED
  BY <1>1, <1>2, <1>3, OuterTypes, Zenon DEF Inv

LEMMA UpdateKeeps == ASSUME Inv, NEW chunk \in Chunks, Update(chunk) PROVE Inv'
<1>1. /\ pc = "idle" /\ pc' = "loop" /\ flush' = "NO_FLUSH" /\ input' = chunk
      /\ fed' = IF stage = "open" THEN fed \o chunk ELSE << >>
      /\ UNCHANGED << ret, buf, luabuf, mode, last, flags, length, offset, hold, window, wsize,
                      wnext, whave, in0, out0, out, stage >>
  BY Zenon DEF Update, code, win, progress
<1>2. chunk \in Seq(AllBytes) /\ fed \in Seq(AllBytes)
  BY ChunkBytes, TypesNow, Zenon
<1>3. fed \o chunk \in Seq(AllBytes)
  BY <1>2, ConcatProperties
<1>4. input' \in Seq(AllBytes) /\ fed' \in Seq(AllBytes) /\ flush' \in { "NO_FLUSH", "FINISH" }
  BY <1>1, <1>2, <1>3, NoBytes, Zenon
<1> QED
  BY <1>1, <1>4, BeginKeeps, Zenon

LEMMA FinishKeeps == ASSUME Inv, Finish PROVE Inv'
<1>1. /\ pc = "idle" /\ pc' = "loop" /\ flush' = "FINISH" /\ input' = << >>
      /\ UNCHANGED << ret, buf, luabuf, mode, last, flags, length, offset, hold, window, wsize,
                      wnext, whave, in0, out0, fed, out, stage >>
  BY Zenon DEF Finish, code, win, progress, history
<1>2. input' \in Seq(AllBytes) /\ fed' \in Seq(AllBytes) /\ flush' \in { "NO_FLUSH", "FINISH" }
  BY <1>1, NoBytes, TypesNow, Zenon
<1> QED
  BY <1>1, <1>2, BeginKeeps, Zenon

LEMMA CallInflateKeeps == ASSUME Inv, CallInflate PROVE Inv'
<1>1. /\ pc = "loop" /\ pc' = "inflate" /\ buf' = << >> /\ in0' = Len(input)
      /\ out0' = BufSize /\ ret' = "OK"
      /\ UNCHANGED << flush, input, luabuf, mode, last, flags, length, offset, hold, window, wsize,
                      wnext, whave, fed, out, stage >>
  BY Zenon DEF CallInflate, code, win, history
<1>2. OuterStep
  <2>1. pc' \in { "idle", "loop", "inflate", "called" } /\ ret' \in Returns
    BY <1>1 DEF Returns
  <2>2. in0' \in Nat /\ out0' \in 0..BufSize
    <3>1. input \in Seq(AllBytes)
      BY TypesNow, Zenon
    <3> QED
      BY <1>1, <3>1, LenProperties, Constants
  <2> QED
    BY <1>1, <2>1, <2>2, TypesNow, Zenon DEF OuterStep
<1>3. WindowFollows'
  <2>1. pc' # "called" /\ pc \in { "idle", "loop", "inflate", "leave" }
    BY <1>1
  <2>2. stage = "open" /\ mode \in Before =>
            HoldsEnd(window, wnext, whave, out \o luabuf)
    BY <2>1, Zenon DEF Inv, WindowFollows
  <2> QED
    BY <1>1, <2>1, <2>2, Zenon DEF WindowFollows
<1>4. Between'
  BY <1>1 DEF Between
<1> QED
  BY <1>2, <1>3, <1>4, OuterTypes, Zenon DEF Inv

\* The call is over: the caller has the output, if the stream still says anything.
LEMMA EndKeeps ==
    ASSUME Inv, OuterStep, pc' = "idle", luabuf' = << >>,
           stage' = "open" /\ mode' \in Before => HoldsEnd(window', wnext', whave', out')
    PROVE  Inv'
<1>1. pc' # "none" /\ pc' # "called" /\ pc' \notin { "inflate", "leave" }
  OBVIOUS
<1>2. out' \in Seq(Nat)
  BY Zenon DEF OuterStep
<1>3. out' \o luabuf' = out'
  BY <1>2
<1>4. WindowFollows' /\ Between'
  BY <1>1, <1>3, Zenon DEF WindowFollows, Between
<1> QED
  BY <1>4, OuterTypes, Zenon DEF Inv

\* What Return and Raise do to the history.
LEMMA ReturnCases ==
    ASSUME NEW result, NEW next, Return(result, next)
    PROVE  /\ pc' = "idle" /\ buf' = << >> /\ luabuf' = << >> /\ input' = << >>
           /\ \/ stage = "open" /\ stage' = next /\ out' = out \o result /\ fed' = fed
              \/ stage' = "stale" /\ out' = << >> /\ fed' = << >>
BY Zenon DEF Return

LEMMA RaiseCases ==
    ASSUME NEW next, Raise(next)
    PROVE  /\ pc' = "idle" /\ buf' = << >> /\ luabuf' = << >> /\ input' = << >>
           /\ \/ stage' = "refused" /\ out' = out /\ fed' = fed
              \/ stage' = "stale" /\ out' = << >> /\ fed' = << >>
BY Zenon DEF Raise

\* An error ends what the stream says.
LEMMA RaiseKeeps ==
    ASSUME Inv, NEW next, Raise(next),
           UNCHANGED << flush, ret, mode, last, flags, length, offset, hold, window, wsize, wnext,
                        whave, in0, out0 >>
    PROVE  Inv'
<1>1. /\ pc' = "idle" /\ buf' = << >> /\ luabuf' = << >> /\ input' = << >>
      /\ \/ stage' = "refused" /\ out' = out /\ fed' = fed
         \/ stage' = "stale" /\ out' = << >> /\ fed' = << >>
  BY RaiseCases, Zenon
<1>2. /\ pc' \in { "idle", "loop", "inflate", "called" } /\ pc' # "inflate" /\ stage' # "open"
      /\ stage' \in { "open", "finished", "refused", "stale" }
  BY <1>1
<1>3. OuterStep
  BY <1>1, <1>2, NoBytes, TypesNow, Zenon DEF OuterStep
<1> QED
  BY <1>1, <1>2, <1>3, EndKeeps, Zenon

LEMMA UpdateNothingKeeps == ASSUME Inv, UpdateNothing PROVE Inv'
<1>1. /\ pc = "idle" /\ Return(<< >>, "open")
      /\ UNCHANGED << flush, ret, mode, last, flags, length, offset, hold, window, wsize, wnext,
                      whave, in0, out0 >>
  BY Zenon DEF UpdateNothing, code, win, progress
<1>2. /\ pc' = "idle" /\ buf' = << >> /\ luabuf' = << >> /\ input' = << >>
      /\ \/ stage = "open" /\ stage' = "open" /\ out' = out \o << >> /\ fed' = fed
         \/ stage' = "stale" /\ out' = << >> /\ fed' = << >>
  BY <1>1, ReturnCases, Zenon
<1>3. out \in Seq(Nat) /\ luabuf = << >>
  BY <1>1, TypesNow, Zenon DEF Inv, Between
<1>4. out \o << >> = out
  BY <1>3
<1>5. out \o luabuf = out
  BY <1>3, <1>4, Zenon
<1>6. /\ pc' \in { "idle", "loop", "inflate", "called" } /\ pc' # "inflate"
      /\ stage' \in { "open", "finished", "refused", "stale" }
      /\ stage' = "open" => stage = "open" /\ out' = out \o << >>
      /\ pc \in { "idle", "loop", "inflate", "leave" }
  BY <1>1, <1>2
<1>7. OuterStep
  BY <1>1, <1>2, <1>3, <1>4, <1>6, NoBytes, TypesNow, Zenon DEF OuterStep
<1>8. ASSUME stage' = "open", mode' \in Before PROVE HoldsEnd(window', wnext', whave', out')
  <2>1. HoldsEnd(window, wnext, whave, out \o luabuf)
    BY <1>1, <1>6, <1>8, Zenon DEF Inv, WindowFollows
  <2>2. out' = out \o luabuf
    BY <1>4, <1>5, <1>6, <1>8, Zenon
  <2> QED
    BY <1>1, <2>1, <2>2, Zenon
<1> QED
  BY <1>2, <1>7, <1>8, EndKeeps, Zenon

LEMMA ZlibErrorKeeps == ASSUME Inv, ZlibError PROVE Inv'
<1>1. /\ \E next \in { "stale", "refused" } : Raise(next)
      /\ UNCHANGED << flush, ret, mode, last, flags, length, offset, hold, window, wsize, wnext,
                      whave, in0, out0 >>
  BY Zenon DEF ZlibError, code, win, progress
<1> QED
  BY <1>1, RaiseKeeps, Zenon

LEMMA GoOnKeeps == ASSUME Inv, GoOn PROVE Inv'
<1>1. /\ pc = "called"
      /\ UNCHANGED << flush, ret, mode, last, flags, length, offset, hold, window, wsize, wnext,
                      whave, in0, out0 >>
      /\ \/ /\ pc' = "loop" /\ luabuf' = luabuf \o buf /\ buf' = << >>
            /\ UNCHANGED << input, fed, out, stage >>
         \/ Raise("stale")
  BY Zenon DEF GoOn, code, win, progress, history
<1>2. CASE Raise("stale")
  BY <1>1, <1>2, RaiseKeeps, Zenon
<1>3. CASE /\ pc' = "loop" /\ luabuf' = luabuf \o buf /\ buf' = << >>
           /\ UNCHANGED << input, fed, out, stage >>
  <2>1. luabuf \in Seq(Nat) /\ buf \in Seq(Nat) /\ out \in Seq(Nat)
    BY TypesNow, Zenon
  <2>2. luabuf \o buf \in Seq(Nat) /\ out \o (luabuf \o buf) = (out \o luabuf) \o buf
    BY <2>1, JoinedThree, Zenon
  <2>3. /\ pc' \in { "idle", "loop", "inflate", "called" } /\ pc' # "inflate"
        /\ pc' # "called" /\ pc' \notin { "inflate", "leave" } /\ pc' # "idle" /\ pc' # "none"
    BY <1>3
  <2>4. OuterStep
    BY <1>1, <1>3, <2>2, <2>3, TypesNow, Zenon DEF OuterStep
  <2>5. stage = "open" /\ mode \in Before =>
            HoldsEnd(window, wnext, whave, (out \o luabuf) \o buf)
    BY <1>1, Zenon DEF Inv, WindowFollows
  <2>6. out' \o luabuf' = (out \o luabuf) \o buf
    BY <1>3, <2>2, Zenon
  <2>7. WindowFollows' /\ Between'
    BY <1>1, <1>3, <2>3, <2>5, <2>6, Zenon DEF WindowFollows, Between
  <2> QED
    BY <2>4, <2>7, OuterTypes, Zenon DEF Inv
<1> QED
  BY <1>1, <1>2, <1>3, Zenon

LEMMA CallReturnsKeeps == ASSUME Inv, CallReturns PROVE Inv'
<1>1. /\ pc = "called"
      /\ UNCHANGED << flush, ret, mode, last, flags, length, offset, hold, window, wsize, wnext,
                      whave, in0, out0 >>
      /\ \/ \E next \in { "open", "finished" } : Return(luabuf \o buf, next)
         \/ Raise("stale")
  BY Zenon DEF CallReturns, code, win, progress
<1>2. CASE Raise("stale")
  BY <1>1, <1>2, RaiseKeeps, Zenon
<1>3. CASE \E next \in { "open", "finished" } : Return(luabuf \o buf, next)
  <2>1. luabuf \in Seq(Nat) /\ buf \in Seq(Nat) /\ out \in Seq(Nat)
    BY TypesNow, Zenon
  <2>2. /\ out \o (luabuf \o buf) \in Seq(Nat)
        /\ out \o (luabuf \o buf) = (out \o luabuf) \o buf
    BY <2>1, JoinedThree, Zenon
  <2>3. PICK t : t = luabuf \o buf
    OBVIOUS
  <2>4. PICK next \in { "open", "finished" } : Return(t, next)
    BY <1>3, <2>3, Zenon
  <2>5. /\ pc' = "idle" /\ buf' = << >> /\ luabuf' = << >> /\ input' = << >>
        /\ \/ stage = "open" /\ stage' = next /\ out' = out \o t /\ fed' = fed
           \/ stage' = "stale" /\ out' = << >> /\ fed' = << >>
    BY <2>4, ReturnCases, Zenon
  <2>6. /\ pc' \in { "idle", "loop", "inflate", "called" } /\ pc' # "inflate"
        /\ stage' \in { "open", "finished", "refused", "stale" }
        /\ stage' = "open" => stage = "open" /\ out' = out \o t
    BY <2>4, <2>5
  <2>7. out' \in Seq(Nat)
    BY <2>2, <2>3, <2>5, NoBytes, Zenon
  <2>8. OuterStep
    BY <1>1, <2>5, <2>6, <2>7, NoBytes, TypesNow, Zenon DEF OuterStep
  <2>9. ASSUME stage' = "open", mode' \in Before PROVE HoldsEnd(window', wnext', whave', out')
    <3>1. HoldsEnd(window, wnext, whave, (out \o luabuf) \o buf)
      BY <1>1, <2>6, <2>9, Zenon DEF Inv, WindowFollows
    <3>2. out' = (out \o luabuf) \o buf
      BY <2>2, <2>3, <2>6, <2>9, Zenon
    <3> QED
      BY <1>1, <3>1, <3>2, Zenon
  <2> QED
    BY <2>5, <2>8, <2>9, EndKeeps, Zenon
<1> QED
  BY <1>1, <1>2, <1>3, Zenon

\* No memory for the window: the stream says nothing more.
LEMMA LeaveNoMemoryKeeps == ASSUME Inv, LeaveNoMemory PROVE Inv'
<1>1. /\ pc' = "called" /\ ret' = "MEM_ERROR" /\ mode' = "MEM"
      /\ UNCHANGED << flush, input, buf, luabuf, last, flags, length, offset, hold, window, wsize,
                      wnext, whave, in0, out0, fed, out, stage >>
  BY Zenon DEF LeaveNoMemory, InfReturn, io, code, win, progress, history
<1>2. /\ pc' \in { "idle", "loop", "inflate", "called" } /\ pc' # "inflate" /\ ret' \in Returns
      /\ mode' \notin Before /\ pc' # "idle" /\ pc' # "none"
  BY <1>1 DEF Returns, Before
<1>3. OuterStep
  BY <1>1, <1>2, TypesNow, Zenon DEF OuterStep
<1>4. WindowFollows' /\ Between'
  BY <1>2, Zenon DEF WindowFollows, Between
<1> QED
  BY <1>3, <1>4, OuterTypes, Zenon DEF Inv

\* inf_leave: the window takes what was put out.
LEMMA LeaveKeeps == ASSUME Inv, Leave PROVE Inv'
<1>1. /\ pc = "leave" /\ pc' = "called" /\ ret' \in { ret, "BUF_ERROR" }
      /\ IF NeedsWindow THEN UpdateWindow ELSE UNCHANGED << window, wsize, wnext, whave >>
      /\ UNCHANGED << flush, input, buf, luabuf, mode, last, flags, length, offset, hold,
                      in0, out0, fed, out, stage >>
  BY Zenon DEF Leave, io, code, win, progress, history
<1>2. Left <= out0 /\ Types
  BY <1>1, TypesNow, Zenon DEF Inv
<1>3. /\ wsize' \in { 0, WSize } /\ wnext' \in 0..(WSize - 1) /\ whave' \in 0..wsize'
      /\ whave' \in { wnext', WSize }
      /\ window' \in [0..(WSize - 1) -> Nat]
  <2>1. CASE UpdateWindow
    BY <1>2, <2>1, WindowTypes
  <2>2. CASE UNCHANGED << window, wsize, wnext, whave >>
    BY <2>2, TypesNow, Zenon
  <2> QED
    BY <1>1, <2>1, <2>2, Zenon
<1>4. Types'
  <2>1. /\ pc' \in { "none", "idle", "loop", "inflate", "leave", "called" }
        /\ pc' \notin { "inflate", "leave" } /\ ret' \in Returns
    <3>1. ret \in Returns
      BY TypesNow, Zenon
    <3> QED
      BY <1>1, <3>1 DEF Returns
  <2>2. Left' \in 0..BufSize
    <3>1. Left' = Left
      BY <1>1 DEF Left
    <3> QED
      BY <1>2, <3>1, Zenon DEF Types, TypeOK
  <2> QED
    BY <1>1, <1>3, <2>1, <2>2, TypesNow, Zenon DEF Types, TypeOK, Returns, Modes
<1>5. ASSUME stage = "open", mode \in Before
      PROVE  HoldsEnd(window', wnext', whave', (out \o luabuf) \o buf)
  <2>1. HoldsEnd(window, wnext, whave, out \o luabuf) /\ out0 = BufSize
    BY <1>1, <1>5, Zenon DEF Inv, WindowFollows
  <2>2. out \in Seq(Nat) /\ luabuf \in Seq(Nat) /\ buf \in Seq(Nat)
    BY TypesNow, Zenon
  <2>3. PICK t \in Seq(Nat) : t = out \o luabuf
    BY <2>2, Joined
  <2>4. CASE UpdateWindow
    <3>1. HoldsEnd(window', wnext', whave', t \o buf)
      BY <1>2, <2>1, <2>3, <2>4, WindowTakesOutput, Zenon
    <3> QED
      BY <2>3, <3>1, Zenon
  <2>5. CASE ~NeedsWindow
    <3>1. out0 = Left \/ mode \in { "BAD", "CHECK", "LENGTH", "DONE" }
      BY <2>5, Zenon DEF NeedsWindow
    <3>2. out0 = Left
      BY <1>5, <3>1 DEF Before
    <3>3. Len(buf) = 0 /\ buf \in Seq(Nat)
      <4>1. Len(buf) \in Nat /\ Left = BufSize - Len(buf) /\ buf \in Seq(Nat)
        BY TypesNow, Zenon
      <4> QED
        BY <2>1, <3>2, <4>1, Constants
    <3>4. t \o buf = t
      BY <2>3, <3>3
    <3>5. UNCHANGED << window, wsize, wnext, whave >>
      BY <1>1, <2>5, Zenon
    <3> QED
      BY <2>1, <2>3, <3>4, <3>5, Zenon
  <2> QED
    BY <1>1, <2>4, <2>5, Zenon
<1>6. WindowFollows'
  <2>1. pc' \notin { "idle", "loop", "inflate", "leave" } /\ pc' \notin { "inflate", "leave" }
    BY <1>1
  <2> QED
    BY <1>1, <1>5, <2>1, Zenon DEF WindowFollows
<1>7. Between'
  BY <1>1 DEF Between
<1> QED
  BY <1>4, <1>6, <1>7, Zenon DEF Inv

-----------------------------------------------------------------------------
(* The specification keeps the invariant.                                  *)

LEMMA InvInit == Init => Inv
<1> SUFFICES ASSUME Init PROVE Inv
  OBVIOUS
<1>1. /\ pc = "none" /\ flush = "NO_FLUSH" /\ ret = "OK"
      /\ input = << >> /\ buf = << >> /\ luabuf = << >>
      /\ mode = "HEAD" /\ last = FALSE /\ flags = FALSE /\ length = 0 /\ offset = 0
      /\ hold = << >> /\ wsize = 0 /\ wnext = 0 /\ whave = 0 /\ in0 = 0 /\ out0 = 0
      /\ fed = << >> /\ out = << >> /\ stage = "stale"
  BY Zenon DEF Init
<1>2. window = [i \in 0..(WSize - 1) |-> 0]
  BY Zenon DEF Init
<1>3. TypeOK
  <2>1. Left \in 0..BufSize
    BY <1>1, Constants DEF Left
  <2>2. input \in Seq(AllBytes)
    BY <1>1, NoBytes, Zenon
  <2>3. out0 \in 0..BufSize /\ in0 \in Nat /\ length \in Nat /\ offset \in 0..WSize
        /\ wsize \in { 0, WSize } /\ wnext \in 0..(WSize - 1) /\ whave \in 0..wsize
        /\ whave \in { wnext, WSize }
    BY <1>1, Constants
  <2>4. /\ pc \in { "none", "idle", "loop", "inflate", "leave", "called" }
        /\ flush \in { "NO_FLUSH", "FINISH" }
        /\ ret \in Returns /\ mode \in Modes
        /\ last \in BOOLEAN /\ flags \in BOOLEAN
        /\ stage \in { "open", "finished", "refused", "stale" }
    BY <1>1 DEF Returns, Modes
  <2> QED
    BY <2>1, <2>2, <2>3, <2>4, Zenon DEF TypeOK, Returns, Modes
<1>4. window \in [0..(WSize - 1) -> Nat]
  BY <1>2
<1>5. mode # "MATCH" /\ pc \notin { "inflate", "leave" } /\ stage # "open" /\ pc # "idle"
  BY <1>1
<1>6. Types
  BY <1>1, <1>3, <1>4, <1>5, NoItem, NoBytes, Zenon DEF Types
<1>7. WindowFollows /\ Between
  BY <1>1, <1>5, Zenon DEF WindowFollows, Between
<1> QED
  BY <1>6, <1>7, Zenon DEF Inv

LEMMA InvStep == Inv /\ [Next]_vars => Inv'
<1> SUFFICES ASSUME Inv, [Next]_vars PROVE Inv'
  OBVIOUS
<1>1. CASE Create
  BY <1>1, CreateKeeps, Zenon
<1>2. CASE \E chunk \in Chunks : Update(chunk)
  BY <1>2, UpdateKeeps, Zenon
<1>3. CASE UpdateNothing
  BY <1>3, UpdateNothingKeeps, Zenon
<1>4. CASE Finish
  BY <1>4, FinishKeeps, Zenon
<1>5. CASE CallInflate
  BY <1>5, CallInflateKeeps, Zenon
<1>6. CASE \/ PullByte \/ NoInput \/ ReadHead \/ NeedDict \/ ReadBlockHeader \/ LastBlock
           \/ CopyStored \/ ReadCode \/ ReadDist \/ Match \/ Literal \/ DecodeFast
           \/ CheckText \/ CheckLength \/ Over
  BY <1>6, InflateKeeps, Zenon
<1>7. CASE Leave
  BY <1>7, LeaveKeeps, Zenon
<1>8. CASE LeaveNoMemory
  BY <1>8, LeaveNoMemoryKeeps, Zenon
<1>9. CASE ZlibError
  BY <1>9, ZlibErrorKeeps, Zenon
<1>10. CASE GoOn
  BY <1>10, GoOnKeeps, Zenon
<1>11. CASE CallReturns
  BY <1>11, CallReturnsKeeps, Zenon
<1>12. CASE UNCHANGED vars
  <2>1. UNCHANGED << pc, flush, ret, input, buf, luabuf, mode, last, flags, length, offset, hold,
                     window, wsize, wnext, whave, in0, out0, fed, out, stage >>
    BY <1>12, Zenon DEF vars, io, code, win, progress, history
  <2>2. Left' = Left /\ Left \in 0..BufSize
    <3>1. Left \in 0..BufSize
      BY Zenon DEF Inv, Types, TypeOK
    <3> QED
      BY <2>1, <3>1 DEF Left
  <2>3. TypeOK'
    <3>1. /\ pc' \in { "none", "idle", "loop", "inflate", "leave", "called" }
          /\ flush' \in { "NO_FLUSH", "FINISH" } /\ ret' \in Returns /\ mode' \in Modes
          /\ stage' \in { "open", "finished", "refused", "stale" }
      BY <2>1, TypesNow
    <3>2. /\ input' \in Seq(AllBytes) /\ Left' \in 0..BufSize
          /\ out0' \in 0..BufSize /\ in0' \in Nat
          /\ last' \in BOOLEAN /\ flags' \in BOOLEAN /\ length' \in Nat /\ offset' \in 0..WSize
      BY <2>1, <2>2, TypesNow, Zenon
    <3>3. /\ wsize' \in { 0, WSize } /\ wnext' \in 0..(WSize - 1) /\ whave' \in 0..wsize'
          /\ whave' \in { wnext', WSize }
      BY <2>1, TypesNow
    <3> QED
      BY <3>1, <3>2, <3>3, Zenon DEF TypeOK, Returns, Modes
  <2>4. Types'
    BY <2>1, <2>2, <2>3, Zenon DEF Inv, Types
  <2>5. WindowFollows'
    BY <2>1, Zenon DEF Inv, WindowFollows
  <2>6. Between'
    BY <2>1, Zenon DEF Inv, Between
  <2> QED
    BY <2>4, <2>5, <2>6, Zenon DEF Inv
<1> QED
  BY <1>1, <1>2, <1>3, <1>4, <1>5, <1>6, <1>7, <1>8, <1>9, <1>10, <1>11, <1>12, Zenon
     DEF Next, Caller, System

\* The invariant holds in every state.
THEOREM InvHolds == Spec => []Inv
BY InvInit, InvStep, PTL DEF Spec

\* inflate(), inflate_fast and updatewindow never write behind the room they were given, and the
\* write index and the fill of the window are always those of a circular buffer, whatever the
\* stream says and however it is cut.
THEOREM OutputFitsBuffer == Spec => []TypeOK
<1>1. Inv => TypeOK
  BY Zenon DEF Inv, Types
<1> QED
  BY <1>1, InvHolds, PTL

\* Between two calls of inflate(), and during one, the circular window holds the end of all the
\* output in front of that call: a distance finds the byte it means.
THEOREM WindowIsOutput == Spec => []WindowHoldsOutput
<1>1. Inv => WindowHoldsOutput
  <2> SUFFICES ASSUME Inv, InBlocks, pc \in { "idle", "loop", "inflate" }
               PROVE  /\ whave = Smaller(WSize, Len(out \o luabuf))
                      /\ \A d \in 1..whave : window[(wnext + WSize - d) % WSize]
                             = (out \o luabuf)[Len(out \o luabuf) - d + 1]
    BY DEF WindowHoldsOutput
  <2>1. stage = "open" /\ mode \in Before /\ pc \in { "idle", "loop", "inflate", "leave" }
    BY DEF InBlocks, Before
  <2>2. HoldsEnd(window, wnext, whave, out \o luabuf)
    BY <2>1, Zenon DEF Inv, WindowFollows
  <2> QED
    BY <2>2, Zenon DEF HoldsEnd
<1> QED
  BY <1>1, InvHolds, PTL

-----------------------------------------------------------------------------
(* What the items of a stream say: the reference parser, item by item.     *)

Parser == INSTANCE FoldLemmas WITH Op <- ParseItem

LEMMA ParseIsFold ==
    ASSUME NEW q
    PROVE  Parse(q) = Parser!Fold(Start, q)
BY DEF Parse, FoldLeft, MapThenFoldSet, Max,
       Parser!Fold, Parser!MapThenFoldSet, Parser!Last

\* Where a parser can be.
Ats == { "head", "dict", "block", "raw", "code", "dist", "check", "length", "end", "bad" }

Parses == [at : Ats, text : Seq(Nat), n : Int, last : BOOLEAN, gzip : BOOLEAN]

LEMMA StartParse ==
    /\ Start \in Parses /\ Start.at = "head" /\ Start.text = << >>
    /\ Parse(<< >>) = Start
<1>1. Parser!Fold(Start, << >>) = Start
  BY Parser!FoldEmpty
<1>2. << >> \in Seq(Nat)
  BY EmptySeq
<1>3. Start \in Parses
  <2>1. ASSUME NEW e \in Seq(Nat)
        PROVE  [at |-> "head", text |-> e, n |-> 0, last |-> FALSE, gzip |-> FALSE] \in Parses
    BY DEF Parses, Ats
  <2> QED
    BY <1>2, <2>1, Zenon DEF Start
<1>4. Start.at = "head" /\ Start.text = << >>
  BY Zenon DEF Start
<1> QED
  BY <1>1, <1>3, <1>4, ParseIsFold

LEMMA ParseAppend ==
    ASSUME NEW q \in Seq(GoodItems), NEW x \in GoodItems
    PROVE  Parse(Append(q, x)) = ParseItem(Parse(q), x)
<1>1. Parser!Fold(Start, Append(q, x)) = ParseItem(Parser!Fold(Start, q), x)
  BY Parser!FoldAppend
<1> QED
  BY <1>1, ParseIsFold

LEMMA ParseConcat ==
    ASSUME NEW q \in Seq(GoodItems), NEW r \in Seq(GoodItems)
    PROVE  Parse(Cat(q, r)) = Parser!Fold(Parse(q), r)
<1>1. Parser!Fold(Start, q \o r) = Parser!Fold(Parser!Fold(Start, q), r)
  BY Parser!FoldConcat
<1> QED
  BY <1>1, ParseIsFold DEF Cat

\* One lemma for every place the parser can be at.
LEMMA AtHead ==
    ASSUME NEW p \in Parses, NEW x, p.at = "head"
    PROVE  /\ x.k \in { "zlib", "gzip" } =>
                  ParseItem(p, x) = [p EXCEPT !.at = "block", !.gzip = (x.k = "gzip")]
           /\ x.k = "dict" => ParseItem(p, x) = [p EXCEPT !.at = "dict"]
           /\ x.k \notin { "zlib", "gzip", "dict" } => ParseItem(p, x) = [p EXCEPT !.at = "bad"]
BY DEF ParseItem

LEMMA AtBlock ==
    ASSUME NEW p \in Parses, NEW x, p.at = "block"
    PROVE  /\ x.k = "stored" =>
                  ParseItem(p, x) = [p EXCEPT !.at = IF x.n > 0 THEN "raw" ELSE BlockEnd(x.last),
                                              !.n = x.n, !.last = x.last]
           /\ x.k = "codes" => ParseItem(p, x) = [p EXCEPT !.at = "code", !.last = x.last]
           /\ x.k \notin { "stored", "codes" } => ParseItem(p, x) = [p EXCEPT !.at = "bad"]
BY DEF ParseItem

LEMMA AtRaw ==
    ASSUME NEW p \in Parses, NEW x, p.at = "raw", x.k = "raw"
    PROVE  ParseItem(p, x) = [p EXCEPT !.at = IF p.n > 1 THEN "raw" ELSE BlockEnd(p.last),
                                       !.n = p.n - 1, !.text = Append(p.text, x.n)]
BY DEF ParseItem

LEMMA AtCode ==
    ASSUME NEW p \in Parses, NEW x, p.at = "code"
    PROVE  /\ x.k = "lit" => ParseItem(p, x) = [p EXCEPT !.text = Append(p.text, x.n)]
           /\ x.k = "eob" => ParseItem(p, x) = [p EXCEPT !.at = BlockEnd(p.last)]
           /\ x.k = "len" => ParseItem(p, x) = [p EXCEPT !.at = "dist", !.n = x.n]
           /\ x.k \notin { "lit", "eob", "len" } => ParseItem(p, x) = [p EXCEPT !.at = "bad"]
BY DEF ParseItem

LEMMA AtDist ==
    ASSUME NEW p \in Parses, NEW x, p.at = "dist"
    PROVE  /\ x.k = "dist" /\ x.n <= Len(p.text) =>
                  ParseItem(p, x) = [p EXCEPT !.at = "code",
                                              !.text = p.text \o Repeat(p.text, p.n, x.n)]
           /\ ~(x.k = "dist" /\ x.n <= Len(p.text)) => ParseItem(p, x) = [p EXCEPT !.at = "bad"]
BY DEF ParseItem

LEMMA AtCheck ==
    ASSUME NEW p \in Parses, NEW x, p.at = "check"
    PROVE  /\ x.k = "check" /\ x.sum = p.text =>
                  ParseItem(p, x) = [p EXCEPT !.at = IF p.gzip THEN "length" ELSE "end"]
           /\ ~(x.k = "check" /\ x.sum = p.text) => ParseItem(p, x) = [p EXCEPT !.at = "bad"]
BY DEF ParseItem

LEMMA AtLength ==
    ASSUME NEW p \in Parses, NEW x, p.at = "length"
    PROVE  /\ x.k = "length" /\ x.n = Len(p.text) => ParseItem(p, x) = [p EXCEPT !.at = "end"]
           /\ ~(x.k = "length" /\ x.n = Len(p.text)) => ParseItem(p, x) = [p EXCEPT !.at = "bad"]
BY DEF ParseItem

LEMMA AtEnd ==
    ASSUME NEW p \in Parses, NEW x
    PROVE  /\ p.at \in { "end", "dict" } => ParseItem(p, x) = p
           /\ p.at = "bad" => ParseItem(p, x) = [p EXCEPT !.at = "bad"]
BY DEF ParseItem

\* A parser that moves on, changing what it must.
LEMMA Moves ==
    ASSUME NEW p \in Parses, NEW at \in Ats
    PROVE  /\ [p EXCEPT !.at = at] \in Parses
           /\ [p EXCEPT !.at = at].at = at
           /\ [p EXCEPT !.at = at].text = p.text
           /\ [p EXCEPT !.at = at].n = p.n
           /\ [p EXCEPT !.at = at].last = p.last
           /\ [p EXCEPT !.at = at].gzip = p.gzip
BY DEF Parses, Ats

\* What follows a stream does not belong to it, and damage stays.
LEMMA NothingFollows ==
    ASSUME NEW p \in Parses, NEW q \in Seq(GoodItems)
    PROVE  /\ p.at \in { "end", "dict" } => Parser!Fold(p, q) = p
           /\ p.at = "bad" => Parser!Fold(p, q).at = "bad"
<1> DEFINE T == { r \in Seq(GoodItems) :
                    /\ p.at \in { "end", "dict" } => Parser!Fold(p, r) = p
                    /\ p.at = "bad" => Parser!Fold(p, r) \in Parses /\ Parser!Fold(p, r).at = "bad" }
<1>1. << >> \in T
  <2>1. Parser!Fold(p, << >>) = p /\ << >> \in Seq(GoodItems)
    BY Parser!FoldEmpty, EmptySeq
  <2> QED
    BY <2>1
<1>2. ASSUME NEW r \in Seq(GoodItems), NEW x \in GoodItems, r \in T PROVE Append(r, x) \in T
  <2>1. /\ Parser!Fold(p, Append(r, x)) = ParseItem(Parser!Fold(p, r), x)
        /\ Append(r, x) \in Seq(GoodItems)
    BY Parser!FoldAppend, AppendProperties
  <2>2. CASE p.at \in { "end", "dict" }
    <3>1. Parser!Fold(p, r) = p
      BY <1>2, <2>2
    <3>2. ParseItem(p, x) = p /\ p.at # "bad"
      BY <2>2, AtEnd
    <3> QED
      BY <2>1, <3>1, <3>2
  <2>3. CASE p.at = "bad"
    <3>1. PICK s \in Parses : s = Parser!Fold(p, r) /\ s.at = "bad"
      BY <1>2, <2>3
    <3>2. ParseItem(s, x) = [s EXCEPT !.at = "bad"]
      BY <3>1, AtEnd
    <3>3. [s EXCEPT !.at = "bad"] \in Parses /\ [s EXCEPT !.at = "bad"].at = "bad"
      BY Moves DEF Ats
    <3>4. ParseItem(s, x) \in Parses /\ ParseItem(s, x).at = "bad"
      BY <3>2, <3>3, Zenon
    <3> QED
      BY <2>1, <2>3, <3>1, <3>4
  <2> QED
    BY <2>1, <2>2, <2>3
<1> HIDE DEF T
<1>3. Seq(GoodItems) \subseteq T
  BY <1>1, <1>2, SeqInductionInSet
<1>4. q \in T
  BY <1>3
<1> QED
  BY <1>4 DEF T

-----------------------------------------------------------------------------
(* Where the decoder is in a stream.                                       *)

\* The first element moves over to what is in front of it.
LEMMA HeadMovesOver ==
    ASSUME NEW S, NEW a \in Seq(S), NEW z \in Seq(S), z # << >>
    PROVE  Cat(Append(a, Head(z)), Tail(z)) = Cat(a, z)
<1> DEFINE u == Append(a, Head(z))
           v == Cat(u, Tail(z))
           w == Cat(a, z)
<1>1. /\ Head(z) \in S /\ Tail(z) \in Seq(S) /\ Len(Tail(z)) = Len(z) - 1
      /\ \A i \in 1..Len(Tail(z)) : Tail(z)[i] = z[i + 1]
  BY HeadTailProperties
<1>2. Len(a) \in Nat /\ Len(z) \in Nat /\ Head(z) = z[1] /\ Len(z) >= 1
  BY LenProperties, EmptySeq
<1>3. /\ u \in Seq(S) /\ Len(u) = Len(a) + 1
      /\ \A i \in 1..Len(a) : u[i] = a[i]
      /\ u[Len(a) + 1] = z[1]
  BY <1>1, <1>2, AppendProperties
<1> HIDE DEF u
<1>4. /\ v \in Seq(S) /\ Len(v) = Len(a) + Len(z)
      /\ \A i \in 1..(Len(a) + Len(z)) : v[i] = IF i <= Len(u) THEN u[i] ELSE Tail(z)[i - Len(u)]
  <2> PICK t \in Seq(S) : t = Tail(z)
    BY <1>1
  <2>1. /\ Cat(u, t) \in Seq(S) /\ Len(Cat(u, t)) = Len(u) + Len(t)
        /\ \A i \in 1..(Len(u) + Len(t)) : Cat(u, t)[i] = IF i <= Len(u) THEN u[i] ELSE t[i - Len(u)]
    BY <1>3, ConcatProperties DEF Cat
  <2>2. Len(u) + Len(t) = Len(a) + Len(z)
    BY <1>1, <1>2, <1>3
  <2> QED
    BY <2>1, <2>2
<1>5. /\ w \in Seq(S) /\ Len(w) = Len(a) + Len(z)
      /\ \A i \in 1..(Len(a) + Len(z)) : w[i] = IF i <= Len(a) THEN a[i] ELSE z[i - Len(a)]
  BY ConcatProperties DEF Cat
<1> HIDE DEF v, w
<1>6. ASSUME NEW i \in 1..Len(v) PROVE v[i] = w[i]
  <2>1. i \in 1..(Len(a) + Len(z)) /\ i \in Nat
    BY <1>2, <1>4, <1>6
  <2>2. CASE i <= Len(a)
    <3>1. i \in 1..Len(a) /\ i <= Len(u)
      BY <1>2, <1>3, <2>1, <2>2
    <3> QED
      BY <1>3, <1>4, <1>5, <2>1, <2>2, <3>1
  <2>3. CASE i = Len(a) + 1
    <3>1. i <= Len(u) /\ ~(i <= Len(a)) /\ i - Len(a) = 1
      BY <1>2, <1>3, <2>3
    <3> QED
      BY <1>3, <1>4, <1>5, <2>1, <2>3, <3>1
  <2>4. CASE i > Len(a) + 1
    <3>1. /\ ~(i <= Len(u)) /\ ~(i <= Len(a))
          /\ i - Len(u) \in 1..Len(Tail(z)) /\ (i - Len(u)) + 1 = i - Len(a)
      BY <1>1, <1>2, <1>3, <2>1, <2>4
    <3>2. v[i] = Tail(z)[i - Len(u)] /\ w[i] = z[i - Len(a)]
      BY <1>4, <1>5, <2>1, <3>1
    <3>3. Tail(z)[i - Len(u)] = z[(i - Len(u)) + 1]
      BY <1>1, <3>1
    <3> QED
      BY <3>1, <3>2, <3>3
  <2> QED
    BY <1>2, <2>1, <2>2, <2>3, <2>4
<1>7. v = w
  BY <1>4, <1>5, <1>6, SeqEqual
<1> QED
  BY <1>7 DEF u, v, w

\* Of the input f, the items s have been decoded, h is left of the last byte read, and the
\* bytes z have not been read.
Reading(f, h, z, s) ==
    /\ h \in Seq(GoodItems) /\ z \in Seq(AllBytes) /\ s \in Seq(GoodItems)
    /\ \E c \in Seq(AllBytes) :
           \/ h = << >> /\ f = Cat(c, z) /\ s = FlattenSeq(c)
           \/ \E b \in AllBytes, u \in Seq(GoodItems) :
                  f = Cat(Append(c, b), z) /\ b = Cat(u, h) /\ s = Cat(FlattenSeq(c), u)

LEMMA BytesFlatten ==
    ASSUME NEW c \in Seq(AllBytes)
    PROVE  /\ FlattenSeq(c) \in Seq(GoodItems)
           /\ \A b \in AllBytes : /\ b \in Seq(GoodItems)
                                  /\ Append(c, b) \in Seq(AllBytes)
                                  /\ FlattenSeq(Append(c, b)) = Cat(FlattenSeq(c), b)
<1>1. c \in Seq(Seq(GoodItems))
  BY BytesAreItems, SeqMonotonic
<1>2. FlattenSeq(c) \in Seq(GoodItems)
  BY <1>1, FlattenType
<1>3. ASSUME NEW b \in AllBytes
      PROVE  /\ b \in Seq(GoodItems) /\ Append(c, b) \in Seq(AllBytes)
             /\ FlattenSeq(Append(c, b)) = Cat(FlattenSeq(c), b)
  <2>1. b \in Seq(GoodItems)
    BY BytesAreItems
  <2> QED
    BY <1>1, <1>2, <2>1, FlattenAppend, AppendProperties
<1> QED
  BY <1>2, <1>3

\* The bytes read so far.
LEMMA BytesRead ==
    ASSUME NEW f, NEW h, NEW z, NEW s, Reading(f, h, z, s)
    PROVE  \E a \in Seq(AllBytes) : f = Cat(a, z) /\ FlattenSeq(a) = Cat(s, h)
<1>1. h \in Seq(GoodItems) /\ z \in Seq(AllBytes) /\ s \in Seq(GoodItems)
  BY Zenon DEF Reading
<1>2. PICK c \in Seq(AllBytes) :
           \/ h = << >> /\ f = Cat(c, z) /\ s = FlattenSeq(c)
           \/ \E b \in AllBytes, u \in Seq(GoodItems) :
                  f = Cat(Append(c, b), z) /\ b = Cat(u, h) /\ s = Cat(FlattenSeq(c), u)
  BY Zenon DEF Reading
<1>3. CASE h = << >> /\ f = Cat(c, z) /\ s = FlattenSeq(c)
  <2>1. Cat(s, h) = s
    BY <1>1, <1>3, CatEmpty
  <2> QED
    BY <1>3, <2>1, Zenon
<1>4. ASSUME NEW b \in AllBytes, NEW u \in Seq(GoodItems),
             f = Cat(Append(c, b), z), b = Cat(u, h), s = Cat(FlattenSeq(c), u)
      PROVE  \E a \in Seq(AllBytes) : f = Cat(a, z) /\ FlattenSeq(a) = Cat(s, h)
  <2>1. FlattenSeq(c) \in Seq(GoodItems) /\ Append(c, b) \in Seq(AllBytes)
        /\ FlattenSeq(Append(c, b)) = Cat(FlattenSeq(c), b)
    BY BytesFlatten
  <2>2. Cat(s, h) = Cat(FlattenSeq(c), b)
    BY <1>1, <1>4, <2>1, CatAssoc
  <2> QED
    BY <1>4, <2>1, <2>2, Zenon
<1> QED
  BY <1>2, <1>3, <1>4, Zenon

\* So s is what the model calls the items decoded so far.
LEMMA ReadingIs ==
    ASSUME NEW f, NEW h, NEW z, NEW s, Reading(f, h, z, s)
    PROVE  LET items == FlattenSeq(SubSeq(f, 1, Len(f) - Len(z)))
           IN  SubSeq(items, 1, Len(items) - Len(h)) = s
<1>1. h \in Seq(GoodItems) /\ z \in Seq(AllBytes) /\ s \in Seq(GoodItems)
  BY Zenon DEF Reading
<1>2. PICK a \in Seq(AllBytes) : f = Cat(a, z) /\ FlattenSeq(a) = Cat(s, h)
  BY BytesRead
<1>3. Len(f) = Len(a) + Len(z) /\ Len(a) \in Nat /\ Len(z) \in Nat
  BY <1>1, <1>2, CatType, LenProperties
<1>4. Len(f) - Len(z) = Len(a)
  BY <1>3
<1>5. SubSeq(f, 1, Len(a)) = a
  BY <1>1, <1>2, CutAtJoint DEF Cat
<1> DEFINE t == Cat(s, h)
<1>6. Len(t) = Len(s) + Len(h) /\ Len(s) \in Nat /\ Len(h) \in Nat
  BY <1>1, CatType, LenProperties
<1>7. SubSeq(t, 1, Len(s)) = s
  BY <1>1, CutAtJoint DEF Cat
<1> HIDE DEF t
<1>8. Len(t) - Len(h) = Len(s)
  BY <1>6
<1> QED
  BY <1>2, <1>4, <1>5, <1>7, <1>8, Zenon DEF t

\* What the whole input says.
LEMMA ReadingAll ==
    ASSUME NEW f, NEW h, NEW z, NEW s, Reading(f, h, z, s)
    PROVE  /\ f \in Seq(AllBytes)
           /\ Cat(h, FlattenSeq(z)) \in Seq(GoodItems)
           /\ FlattenSeq(f) = Cat(s, Cat(h, FlattenSeq(z)))
<1>1. h \in Seq(GoodItems) /\ z \in Seq(AllBytes) /\ s \in Seq(GoodItems)
  BY Zenon DEF Reading
<1>2. PICK a \in Seq(AllBytes) : f = Cat(a, z) /\ FlattenSeq(a) = Cat(s, h)
  BY BytesRead
<1>3. f \in Seq(AllBytes)
  BY <1>1, <1>2, CatType
<1>4. a \in Seq(Seq(GoodItems)) /\ z \in Seq(Seq(GoodItems)) /\ FlattenSeq(z) \in Seq(GoodItems)
  BY <1>1, BytesAreItems, SeqMonotonic, FlattenType
<1>5. FlattenSeq(f) = Cat(Cat(s, h), FlattenSeq(z))
  BY <1>2, <1>4, FlattenConcat
<1>6. Cat(Cat(s, h), FlattenSeq(z)) = Cat(s, Cat(h, FlattenSeq(z)))
  BY <1>1, <1>4, CatAssoc
<1> QED
  BY <1>1, <1>3, <1>4, <1>5, <1>6, CatType

\* The next byte is read.
LEMMA PullOne ==
    ASSUME NEW f, NEW z, NEW s, Reading(f, << >>, z, s), z # << >>
    PROVE  Reading(f, Head(z), Tail(z), s)
<1>1. << >> \in Seq(GoodItems) /\ z \in Seq(AllBytes) /\ s \in Seq(GoodItems)
  BY Zenon DEF Reading
<1>2. PICK a \in Seq(AllBytes) : f = Cat(a, z) /\ FlattenSeq(a) = Cat(s, << >>)
  BY BytesRead
<1>3. s = FlattenSeq(a)
  BY <1>1, <1>2, CatEmpty
<1>4. Head(z) \in AllBytes /\ Tail(z) \in Seq(AllBytes)
  BY <1>1, HeadTailProperties
<1>5. Head(z) \in Seq(GoodItems)
  BY <1>4, BytesAreItems
<1>6. f = Cat(Append(a, Head(z)), Tail(z))
  BY <1>1, <1>2, HeadMovesOver
<1>7. Head(z) = Cat(<< >>, Head(z)) /\ s = Cat(FlattenSeq(a), << >>)
  BY <1>1, <1>3, <1>5, CatEmpty
<1> QED
  BY <1>1, <1>4, <1>5, <1>6, <1>7, Zenon DEF Reading

\* The next item is decoded.
LEMMA TakeOne ==
    ASSUME NEW f, NEW h, NEW z, NEW s, Reading(f, h, z, s), h # << >>
    PROVE  /\ Reading(f, Tail(h), z, Append(s, Head(h)))
           /\ Head(h) \in GoodItems
           /\ Parse(Append(s, Head(h))) = ParseItem(Parse(s), Head(h))
<1>1. h \in Seq(GoodItems) /\ z \in Seq(AllBytes) /\ s \in Seq(GoodItems)
  BY Zenon DEF Reading
<1>2. PICK c \in Seq(AllBytes), b \in AllBytes, u \in Seq(GoodItems) :
           f = Cat(Append(c, b), z) /\ b = Cat(u, h) /\ s = Cat(FlattenSeq(c), u)
  BY Zenon DEF Reading
<1>3. Head(h) \in GoodItems /\ Tail(h) \in Seq(GoodItems)
  BY <1>1, HeadTailProperties
<1>4. Append(u, Head(h)) \in Seq(GoodItems) /\ Append(s, Head(h)) \in Seq(GoodItems)
  BY <1>1, <1>3, AppendProperties
<1>5. b = Cat(Append(u, Head(h)), Tail(h))
  BY <1>1, <1>2, HeadMovesOver
<1>6. Append(s, Head(h)) = Cat(FlattenSeq(c), Append(u, Head(h)))
  <2>1. FlattenSeq(c) \in Seq(GoodItems)
    BY BytesFlatten
  <2>2. Cat(FlattenSeq(c), Append(u, Head(h))) = Append(Cat(FlattenSeq(c), u), Head(h))
    BY SMTT(30), <1>3, <2>1, CatAppend
  <2> QED
    BY <1>2, <2>2, Zenon
<1>7. Reading(f, Tail(h), z, Append(s, Head(h)))
  BY <1>1, <1>2, <1>3, <1>4, <1>5, <1>6, Zenon DEF Reading
<1> QED
  BY <1>1, <1>3, <1>7, ParseAppend, Zenon

\* The items that end a byte: the last of a header, a byte of a stored block, a trailer field.
EndsByte == { "zlib", "gzip", "dict", "stored", "raw", "check", "length" }

\* The bytes of a stream in front of and behind the place, as the assumptions name them.
LEMMA InStream ==
    ASSUME NEW st \in Streams, NEW f, IsPrefix(f, st),
           NEW c \in Seq(AllBytes), NEW b \in AllBytes, NEW z \in Seq(AllBytes),
           f = Cat(Append(c, b), z)
    PROVE  \E i \in 1..Len(st) : st[i] = b /\ SubSeq(st, 1, i - 1) = c
<1>1. st \in Seq(AllBytes)
  <2>1. st \in Seq(Seq(Items))
    BY StreamBytes DEF Items
  <2>2. Len(st) \in Nat /\ st \in [1..Len(st) -> Seq(Items)]
    BY <2>1, LenProperties
  <2>3. \A i \in 1..Len(st) : st[i] \in AllBytes
    BY DEF AllBytes
  <2>4. st \in [1..Len(st) -> AllBytes]
    BY <2>2, <2>3
  <2> QED
    BY <2>2, <2>4
<1>2. /\ Append(c, b) \in Seq(AllBytes) /\ Len(Append(c, b)) = Len(c) + 1
      /\ Append(c, b)[Len(c) + 1] = b
  BY AppendProperties
<1>3. PICK a \in Seq(AllBytes) : a = Append(c, b)
  BY <1>2
<1>4. f \in Seq(AllBytes) /\ Len(f) = Len(a) + Len(z)
  BY <1>3, CatType
<1>5. PICK r \in Seq(AllBytes) : st = Cat(f, r)
  <2>1. st = f \o SubSeq(st, Len(f) + 1, Len(st))
    BY <1>1, <1>4, PrefixAndRest
  <2>2. Len(f) <= Len(st) /\ Len(f) \in Nat /\ Len(st) \in Nat
    BY <1>1, <1>4, LenProperties DEF IsPrefix
  <2>3. SubSeq(st, Len(f) + 1, Len(st)) \in Seq(AllBytes)
    BY <1>1, <2>2, CutInTwo
  <2> QED
    BY <2>1, <2>3 DEF Cat
<1>6. st = Cat(a, Cat(z, r))
  <2>1. f = Cat(a, z)
    BY <1>3, Zenon
  <2>2. Cat(Cat(a, z), r) = Cat(a, Cat(z, r))
    BY CatAssoc
  <2> QED
    BY <1>5, <2>1, <2>2, Zenon
<1>7. PICK t \in Seq(AllBytes) : t = Cat(z, r)
  BY CatType
<1>8. /\ Len(st) = Len(a) + Len(t) /\ Len(a) \in Nat /\ Len(t) \in Nat /\ Len(c) \in Nat
      /\ \A i \in 1..Len(a) : st[i] = a[i]
  BY <1>6, <1>7, ConcatProperties, LenProperties DEF Cat
<1>9. Len(a) \in 1..Len(st) /\ Len(a) = Len(c) + 1
  BY <1>2, <1>3, <1>8
<1>10. st[Len(a)] = b
  BY <1>2, <1>3, <1>8, <1>9
<1>11. SubSeq(st, 1, Len(c)) = c
  <2>1. SubSeq(a, 1, Len(c)) = c
    <3>1. a = c \o << b >>
      BY <1>3, AppendIsConcat
    <3>2. << b >> \in Seq(AllBytes)
      OBVIOUS
    <3> QED
      BY <3>1, <3>2, CutAtJoint
  <2>2. SubSeq(Cat(a, t), 1, Len(c)) = SubSeq(a, 1, Len(c))
    <3>1. Len(c) \in 0..Len(a)
      BY <1>8, <1>9
    <3> QED
      BY <3>1, PrefixOfLeft
  <2> QED
    BY <1>6, <1>7, <2>1, <2>2
<1>12. SubSeq(st, 1, Len(a) - 1) = c
  <2>1. Len(a) - 1 = Len(c)
    BY <1>8, <1>9
  <2> QED
    BY <1>11, <2>1
<1> QED
  BY <1>9, <1>10, <1>12

\* The items that end a byte, and the one that ends the last block, leave nothing of it.
LEMMA ByteEnds ==
    ASSUME NEW st \in Streams, NEW f, IsPrefix(f, st),
           NEW h, NEW z, NEW s, Reading(f, h, z, s), h # << >>,
           Head(h).k \in EndsByte \/ Parse(Append(s, Head(h))).at = "check"
    PROVE  Tail(h) = << >>
<1>1. h \in Seq(GoodItems) /\ z \in Seq(AllBytes) /\ s \in Seq(GoodItems)
  BY Zenon DEF Reading
<1>2. PICK c \in Seq(AllBytes), b \in AllBytes, u \in Seq(GoodItems) :
           f = Cat(Append(c, b), z) /\ b = Cat(u, h) /\ s = Cat(FlattenSeq(c), u)
  BY Zenon DEF Reading
<1>3. PICK i \in 1..Len(st) : st[i] = b /\ SubSeq(st, 1, i - 1) = c
  <2>1. z \in Seq(AllBytes) /\ f = Cat(Append(c, b), z)
    BY <1>1, <1>2, Zenon
  <2> QED
    BY <2>1, InStream
<1>4. PICK x \in GoodItems, t \in Seq(GoodItems) :
           x = Head(h) /\ t = Tail(h) /\ Len(t) = Len(h) - 1
  BY <1>1, HeadTailProperties
<1>5. PICK v \in Seq(GoodItems) : v = Append(u, x) /\ Len(v) = Len(u) + 1 /\ v[Len(u) + 1] = x
  BY AppendProperties
<1>6. b = Cat(v, t)
  BY <1>1, <1>2, <1>4, <1>5, HeadMovesOver
<1>7. /\ Len(b) = Len(v) + Len(t) /\ Len(v) \in Nat /\ Len(t) \in Nat /\ Len(u) \in Nat
      /\ \A n \in 1..Len(v) : b[n] = v[n]
  BY <1>6, ConcatProperties, LenProperties DEF Cat
<1>8. PICK j \in 1..Len(b) : j = Len(v)
  BY <1>5, <1>7
<1>9. b[j] = x
  BY <1>5, <1>7, <1>8
<1>10. SubSeq(b, 1, j) = v
  BY <1>6, <1>8, CutAtJoint DEF Cat
<1>11. Append(s, x) = FlattenSeq(c) \o v
  <2>1. FlattenSeq(c) \in Seq(GoodItems)
    BY BytesFlatten
  <2>2. Cat(FlattenSeq(c), v) = Append(Cat(FlattenSeq(c), u), x)
    BY <1>5, <2>1, CatAppend
  <2> QED
    BY <1>2, <2>2 DEF Cat
<1>12. j = Len(b)
  <2>1. CASE x.k \in EndsByte
    <3>1. st[i][j].k \in EndsByte => j = Len(st[i])
      BY <1>3, <1>8, StreamItems DEF EndsByte
    <3> QED
      BY <1>3, <1>9, <2>1, <3>1
  <2>2. CASE Parse(Append(s, x)).at = "check"
    <3>1. Parse(FlattenSeq(SubSeq(st, 1, i - 1)) \o SubSeq(st[i], 1, j)).at = "check"
              => j = Len(st[i])
      BY <1>3, <1>8, StreamAlignment, Zenon
    <3> QED
      BY <1>3, <1>10, <1>11, <2>2, <3>1, Zenon
  <2> QED
    BY <1>4, <2>1, <2>2
<1>13. Len(t) = 0
  BY <1>7, <1>8, <1>12
<1> QED
  BY <1>4, <1>13, EmptySeq

\* In a stored block every byte is a raw one.
LEMMA RawByteNext ==
    ASSUME NEW st \in Streams, NEW f, IsPrefix(f, st),
           NEW z, NEW s, Reading(f, << >>, z, s), z # << >>, Parse(s).at = "raw"
    PROVE  LET x == Head(Head(z))
           IN  /\ Head(z) # << >> /\ x \in GoodItems /\ x.k = "raw" /\ x.n = ByteValue(Head(z))
               /\ Reading(f, << >>, Tail(z), Append(s, x))
               /\ Parse(Append(s, x)) = ParseItem(Parse(s), x)
<1>1. << >> \in Seq(GoodItems) /\ z \in Seq(AllBytes) /\ s \in Seq(GoodItems)
  BY Zenon DEF Reading
<1>2. PICK a \in Seq(AllBytes) : f = Cat(a, z) /\ FlattenSeq(a) = Cat(s, << >>)
  BY BytesRead
<1>3. FlattenSeq(a) = s
  BY <1>1, <1>2, CatEmpty
<1>4. PICK b \in AllBytes, t \in Seq(AllBytes) : b = Head(z) /\ t = Tail(z)
  BY <1>1, HeadTailProperties
<1>5. f = Cat(Append(a, b), t)
  BY <1>1, <1>2, <1>4, HeadMovesOver
<1>6. PICK i \in 1..Len(st) : st[i] = b /\ SubSeq(st, 1, i - 1) = a
  BY <1>5, InStream
<1>7. Parse(FlattenSeq(SubSeq(st, 1, i - 1))).at = "raw" =>
          Len(st[i]) = 1 /\ st[i][1].k = "raw"
  BY StreamAlignment, Zenon
<1>8. Len(b) = 1 /\ b[1].k = "raw"
  BY <1>3, <1>6, <1>7, Zenon
<1>9. b \in Seq(GoodItems) /\ b # << >> /\ Head(b) = b[1]
  <2>1. b \in Seq(GoodItems)
    BY BytesAreItems
  <2>2. b # << >>
    <3>1. Len(b) # 0 /\ Len(<< >>) = 0
      BY <1>8
    <3> QED
      BY <3>1, Zenon
  <2> QED
    BY <2>1, <2>2
<1>10. Reading(f, b, t, s)
  BY <1>4, PullOne
<1>11. /\ Reading(f, Tail(b), t, Append(s, Head(b)))
       /\ Head(b) \in GoodItems
       /\ Parse(Append(s, Head(b))) = ParseItem(Parse(s), Head(b))
  BY <1>9, <1>10, TakeOne
<1>12. Tail(b) = << >>
  <2>1. Head(b).k \in EndsByte
    BY <1>8, <1>9 DEF EndsByte
  <2> QED
    BY <1>9, <1>10, <2>1, ByteEnds
<1>13. Head(b).n = ByteValue(b)
  BY <1>8, <1>9 DEF ByteValue
<1> QED
  BY <1>4, <1>8, <1>9, <1>11, <1>12, <1>13, Zenon

\* Bytes that complete no item are read.
LEMMA SkipBytes ==
    ASSUME NEW f, NEW z, NEW s, Reading(f, << >>, z, s),
           NEW n \in 0..Len(z), \A j \in 1..n : z[j] = << >>
    PROVE  Reading(f, << >>, SubSeq(z, n + 1, Len(z)), s)
<1>1. z \in Seq(AllBytes) /\ Len(z) \in Nat
  BY LenProperties DEF Reading
<1> DEFINE R(m) == SubSeq(z, m + 1, Len(z))
           T == { m \in Nat : m <= n => Reading(f, << >>, R(m), s) }
<1>2. 0 \in T
  <2>1. R(0) = z
    BY <1>1, SubSeqFull
  <2> QED
    BY <2>1, Zenon
<1>3. ASSUME NEW m \in Nat, m \in T PROVE m + 1 \in T
  <2> SUFFICES ASSUME m + 1 <= n PROVE Reading(f, << >>, R(m + 1), s)
    OBVIOUS
  <2>1. m \in 0..Len(z) /\ m + 1 \in 1..Len(z) /\ m + 1 \in 1..n /\ m <= n /\ Len(z) \in (m + 1)..Len(z)
    BY <1>1
  <2>2. Reading(f, << >>, R(m), s)
    BY <1>3, <2>1
  <2>3. Head(R(m)) = z[m + 1] /\ Tail(R(m)) = R(m + 1)
    <3>1. Tail(R(m)) = SubSeq(z, (m + 1) + 1, Len(z)) /\ Head(R(m)) = z[m + 1]
      BY <1>1, <2>1, HeadTailOfSubSeq
    <3> QED
      BY <3>1
  <2>4. R(m) # << >>
    <3>1. Len(R(m)) = Len(z) - m
      BY <1>1, <2>1, CutInTwo
    <3>2. Len(z) - m # 0 /\ Len(<< >>) = 0
      BY <1>1, <2>1
    <3> QED
      BY <3>1, <3>2, Zenon
  <2>5. z[m + 1] = << >>
    BY <2>1
  <2> QED
    BY <2>2, <2>3, <2>4, <2>5, PullOne, Zenon
<1> HIDE DEF T
<1>4. Nat \subseteq T
  BY <1>2, <1>3, NatInductionInSet
<1>5. n \in T /\ n <= n
  BY <1>1, <1>4
<1> QED
  BY <1>5 DEF T

\* The item inflate_fast takes next.
LEMMA TakeNext ==
    ASSUME NEW st \in Streams, NEW f, IsPrefix(f, st),
           NEW h, NEW z, NEW s, Reading(f, h, z, s), HasItem(h, z),
           NEW r, r = TakeItem(h, z)
    PROVE  /\ Reading(f, r.hold, r.input, Append(s, r.item))
           /\ r.item \in GoodItems
           /\ Parse(Append(s, r.item)) = ParseItem(Parse(s), r.item)
           /\ Parse(Append(s, r.item)).at = "check" => r.hold = << >>
<1>1. h \in Seq(GoodItems) /\ z \in Seq(AllBytes) /\ s \in Seq(GoodItems)
  BY Zenon DEF Reading
<1>2. ASSUME NEW g, NEW y, Reading(f, g, y, s), g # << >>,
             r.item = Head(g), r.hold = Tail(g), r.input = y
      PROVE  /\ Reading(f, r.hold, r.input, Append(s, r.item))
             /\ r.item \in GoodItems
             /\ Parse(Append(s, r.item)) = ParseItem(Parse(s), r.item)
             /\ Parse(Append(s, r.item)).at = "check" => r.hold = << >>
  <2>1. /\ Reading(f, Tail(g), y, Append(s, Head(g)))
        /\ Head(g) \in GoodItems
        /\ Parse(Append(s, Head(g))) = ParseItem(Parse(s), Head(g))
    BY <1>2, TakeOne
  <2>2. Parse(Append(s, Head(g))).at = "check" => Tail(g) = << >>
    BY <1>2, ByteEnds
  <2> QED
    BY <1>2, <2>1, <2>2, Zenon
<1>3. CASE h # << >>
  <2>1. r = [item |-> Head(h), hold |-> Tail(h), input |-> z]
    BY <1>3 DEF TakeItem
  <2>2. r.item = Head(h) /\ r.hold = Tail(h) /\ r.input = z
    <3>1. PICK x, t : x = Head(h) /\ t = Tail(h)
      OBVIOUS
    <3>2. r = [item |-> x, hold |-> t, input |-> z]
      BY <2>1, <3>1, Zenon
    <3>3. r.item = x /\ r.hold = t /\ r.input = z
      BY <3>2
    <3> QED
      BY <3>1, <3>3, Zenon
  <2> QED
    BY <1>2, <1>3, <2>2, Zenon
<1>4. CASE h = << >>
  <2>1. PICK k \in Nat : First(z, k)
    BY <1>1, <1>4, HasFirst
  <2>2. r.item = Head(z[k]) /\ r.hold = Tail(z[k]) /\ r.input = SubSeq(z, k + 1, Len(z))
    BY <1>1, <1>4, <2>1, TakeFirst
  <2>3. /\ k \in 1..Len(z) /\ z[k] # << >> /\ Len(z) \in Nat
        /\ k - 1 \in 0..Len(z) /\ \A j \in 1..(k - 1) : z[j] = << >>
    BY <1>1, <2>1, LenProperties DEF First
  <2> DEFINE y == SubSeq(z, (k - 1) + 1, Len(z))
  <2>4. Reading(f, << >>, y, s)
    BY <1>4, <2>3, SkipBytes
  <2>5. y = SubSeq(z, k, Len(z))
    BY <2>3
  <2>6. Len(z) \in k..Len(z)
    BY <2>3
  <2>7. Head(y) = z[k] /\ Tail(y) = SubSeq(z, k + 1, Len(z))
    BY <1>1, <2>3, <2>5, <2>6, HeadTailOfSubSeq
  <2>8. y # << >>
    <3>1. Len(y) = Len(z) - (k - 1)
      BY <1>1, <2>3, CutInTwo
    <3>2. Len(z) - (k - 1) # 0 /\ Len(<< >>) = 0
      BY <2>3
    <3> QED
      BY <3>1, <3>2, Zenon
  <2>9. Reading(f, z[k], SubSeq(z, k + 1, Len(z)), s)
    BY <2>4, <2>7, <2>8, PullOne, Zenon
  <2> QED
    BY <1>2, <2>2, <2>3, <2>9, Zenon
<1> QED
  BY <1>3, <1>4

-----------------------------------------------------------------------------
(* Matches.                                                                *)

\* Which of the d bytes before a match its i-th byte repeats.
Which(d, i) == (i - 1) % d

LEMMA WhichType ==
    ASSUME NEW d \in Nat \ {0}, NEW i \in Nat \ {0}
    PROVE  Which(d, i) \in 0..(d - 1)
<1>1. i - 1 \in Nat
  OBVIOUS
<1> QED
  BY <1>1, DivMod DEF Which

LEMMA WhichFirst ==
    ASSUME NEW d \in Nat \ {0}, NEW i \in 1..d
    PROVE  Which(d, i) = i - 1
<1>1. i - 1 \in 0..(d - 1)
  OBVIOUS
<1> QED
  BY <1>1, ModSmall DEF Which

\* The m-th byte behind one that repeats the q-th of the d bytes.
LEMMA WhichBehind ==
    ASSUME NEW d \in Nat \ {0}, NEW m \in Nat, NEW i \in Nat \ {0}
    PROVE  Which(d, m + i) = Which(d, m + Which(d, i) + 1)
<1> PICK q \in 0..(d - 1) : q = Which(d, i)
  BY WhichType
<1>1. i - 1 \in Nat /\ m + q \in Nat
  OBVIOUS
<1>2. i - 1 = d * ((i - 1) \div d) + ((i - 1) % d) /\ (i - 1) \div d \in Nat
  BY <1>1, DivMod
<1>3. PICK e \in Nat : e = (i - 1) \div d
  BY <1>2
<1>4. PICK p \in Nat : p = d * e /\ p % d = 0
  BY <1>3, ModZero
<1>5. i - 1 = p + q
  BY <1>2, <1>3, <1>4 DEF Which
<1>6. ((m + q) + p) % d = (m + q) % d
  BY <1>1, <1>4, ModAdd
<1>7. (m + i) - 1 = (m + q) + p /\ (m + q + 1) - 1 = m + q
  BY <1>5
<1> QED
  BY <1>6, <1>7 DEF Which

LEMMA WhichRound ==
    ASSUME NEW d \in Nat \ {0}, NEW i \in Nat \ {0}
    PROVE  Which(d, i + d) = Which(d, i)
<1>1. i - 1 \in Nat /\ d \in Nat /\ (i + d) - 1 = (i - 1) + d
  OBVIOUS
<1>2. d % d = 0
  BY ModSmall
<1>3. ((i - 1) + d) % d = (i - 1) % d
  BY <1>1, <1>2, ModAdd
<1> QED
  BY <1>1, <1>3 DEF Which

LEMMA RepeatIs ==
    ASSUME NEW t \in Seq(Nat), NEW d \in 1..Len(t), NEW n \in Nat
    PROVE  /\ Repeat(t, n, d) \in Seq(Nat) /\ Len(Repeat(t, n, d)) = n
           /\ \A i \in 1..n : /\ Which(d, i) \in 0..(d - 1)
                              /\ Repeat(t, n, d)[i] = t[Len(t) - d + 1 + Which(d, i)]
<1>1. Len(t) \in Nat
  BY LenProperties
<1>2. d \in Nat \ {0}
  BY <1>1
<1>3. \A i \in 1..n : Which(d, i) \in 0..(d - 1)
  BY <1>2, WhichType
<1>4. \A i \in 1..n : t[Len(t) - d + 1 + Which(d, i)] \in Nat
  <2> SUFFICES ASSUME NEW i \in 1..n PROVE t[Len(t) - d + 1 + Which(d, i)] \in Nat
    OBVIOUS
  <2> PICK q \in 0..(d - 1) : q = Which(d, i)
    BY <1>3
  <2>1. Len(t) - d + 1 + q \in 1..Len(t)
    BY <1>1
  <2> QED
    BY <2>1, ElementOfSeq
<1> DEFINE r == Repeat(t, n, d)
<1>5. r = [i \in 1..n |-> t[Len(t) - d + 1 + Which(d, i)]]
  BY Zenon DEF Repeat, Which
<1> HIDE DEF r
<1>6. r \in [1..n -> Nat] /\ \A i \in 1..n : r[i] = t[Len(t) - d + 1 + Which(d, i)]
  BY <1>4, <1>5, Zenon
<1>7. r \in Seq(Nat) /\ Len(r) = n
  BY <1>6
<1>8. /\ r \in Seq(Nat) /\ Len(r) = n
      /\ \A i \in 1..n : /\ Which(d, i) \in 0..(d - 1)
                         /\ r[i] = t[Len(t) - d + 1 + Which(d, i)]
  BY <1>3, <1>6, <1>7
<1> QED
  BY <1>8, Zenon DEF r

\* The first bytes of a match are those that are there already.
LEMMA RepeatFirst ==
    ASSUME NEW t \in Seq(Nat), NEW d \in 1..Len(t), NEW n \in Nat, n <= d
    PROVE  \A i \in 1..n : Repeat(t, n, d)[i] = t[Len(t) - d + i]
<1> SUFFICES ASSUME NEW i \in 1..n PROVE Repeat(t, n, d)[i] = t[Len(t) - d + i]
  OBVIOUS
<1>1. Len(t) \in Nat
  BY LenProperties
<1>2. d \in Nat \ {0} /\ i \in 1..d
  BY <1>1
<1>3. Which(d, i) = i - 1
  BY <1>2, WhichFirst
<1>4. Repeat(t, n, d)[i] = t[Len(t) - d + 1 + Which(d, i)]
  BY RepeatIs
<1>5. Len(t) - d + 1 + (i - 1) = Len(t) - d + i
  BY <1>1, <1>2
<1> QED
  BY <1>3, <1>4, <1>5

\* A match that is stopped goes on behind what it has made.
LEMMA RepeatSplit ==
    ASSUME NEW t \in Seq(Nat), NEW d \in 1..Len(t), NEW m \in Nat, NEW k \in Nat
    PROVE  Repeat(t, m + k, d)
               = Cat(Repeat(t, m, d), Repeat(Cat(t, Repeat(t, m, d)), k, d))
<1>0. Len(t) \in Nat
  BY LenProperties
<1>1. d \in Nat \ {0} /\ d <= Len(t) /\ m + k \in Nat
  BY <1>0
<1> DEFINE r == Repeat(t, m, d)
           u == Cat(t, r)
           v == Repeat(u, k, d)
           w == Cat(r, v)
           a == Repeat(t, m + k, d)
<1>2. /\ r \in Seq(Nat) /\ Len(r) = m
      /\ \A i \in 1..m : r[i] = t[Len(t) - d + 1 + Which(d, i)]
  BY RepeatIs
<1>3. /\ a \in Seq(Nat) /\ Len(a) = m + k
      /\ \A i \in 1..(m + k) : a[i] = t[Len(t) - d + 1 + Which(d, i)]
  BY <1>1, RepeatIs
<1> HIDE DEF r, a
<1>4. u \in Seq(Nat) /\ Len(u) = Len(t) + m
  BY <1>2, ConcatProperties DEF Cat
<1>5. \A i \in 1..(Len(t) + m) : u[i] = IF i <= Len(t) THEN t[i] ELSE r[i - Len(t)]
  BY <1>2, ConcatProperties DEF Cat
<1>6. d \in 1..Len(u)
  BY <1>0, <1>1, <1>4
<1> HIDE DEF u
<1>7. /\ v \in Seq(Nat) /\ Len(v) = k
      /\ \A i \in 1..k : v[i] = u[Len(u) - d + 1 + Which(d, i)]
  BY <1>4, <1>6, RepeatIs
<1> HIDE DEF v
<1>8. /\ w \in Seq(Nat) /\ Len(w) = m + k
      /\ \A i \in 1..(m + k) : w[i] = IF i <= m THEN r[i] ELSE v[i - m]
  BY <1>2, <1>7, ConcatProperties DEF Cat
<1> HIDE DEF w
<1>9. ASSUME NEW i \in 1..k
      PROVE  u[Len(u) - d + 1 + Which(d, i)] = t[Len(t) - d + 1 + Which(d, m + i)]
  <2>1. PICK q \in 0..(d - 1) : q = Which(d, i)
    <3>1. i \in Nat \ {0}
      OBVIOUS
    <3> QED
      BY <1>1, <3>1, WhichType
  <2>2. Which(d, m + i) = Which(d, m + q + 1)
    BY <1>1, <2>1, WhichBehind
  <2>3. PICK y \in Nat : y = Len(t)
    BY <1>0
  <2>4. Len(u) - d + 1 + q = y + (m - d + 1 + q)
    BY <1>1, <1>4, <2>3
  <2>5. CASE m + q < d
    <3>1. m + q + 1 \in 1..d
      BY <1>1, <2>5
    <3>2. Which(d, m + q + 1) = m + q
      <4>1. Which(d, m + q + 1) = (m + q + 1) - 1
        BY <1>1, <3>1, WhichFirst
      <4> QED
        BY <4>1
    <3>3. y + (m - d + 1 + q) \in 1..(y + m) /\ y + (m - d + 1 + q) <= y
          /\ y + (m - d + 1 + q) = y - d + 1 + (m + q)
      BY <1>1, <2>3, <2>5
    <3>4. u[y + (m - d + 1 + q)] = t[y + (m - d + 1 + q)]
      BY <1>5, <2>3, <3>3
    <3> QED
      BY <2>1, <2>2, <2>3, <2>4, <3>2, <3>3, <3>4
  <2>6. CASE ~(m + q < d)
    <3>1. PICK j \in 1..m : j = m - d + 1 + q
      <4>1. m - d + 1 + q \in 1..m
        BY <1>1, <2>6
      <4> QED
        BY <4>1
    <3>2. y + j \in 1..(y + m) /\ ~(y + j <= y) /\ (y + j) - y = j
      OBVIOUS
    <3>3. u[y + j] = r[j]
      BY <1>5, <2>3, <3>2
    <3>4. r[j] = t[y - d + 1 + Which(d, j)]
      BY <1>2, <2>3
    <3>5. Which(d, m + q + 1) = Which(d, j)
      <4>1. m + q + 1 = j + d /\ j \in Nat \ {0}
        BY <1>1, <3>1
      <4> QED
        BY <1>1, <4>1, WhichRound
    <3> QED
      BY <2>1, <2>2, <2>3, <2>4, <3>1, <3>3, <3>4, <3>5
  <2> QED
    BY <2>5, <2>6
<1>10. ASSUME NEW i \in 1..Len(a) PROVE a[i] = w[i]
  <2>1. i \in 1..(m + k)
    BY <1>3
  <2>2. a[i] = t[Len(t) - d + 1 + Which(d, i)] /\ w[i] = IF i <= m THEN r[i] ELSE v[i - m]
    BY <1>3, <1>8, <2>1
  <2>3. CASE i <= m
    <3>1. i \in 1..m
      BY <2>1, <2>3
    <3> QED
      BY <1>2, <2>2, <2>3, <3>1
  <2>4. CASE ~(i <= m)
    <3>1. PICK j \in 1..k : j = i - m
      <4>1. i - m \in 1..k
        BY <2>1, <2>4
      <4> QED
        BY <4>1
    <3>2. m + j = i
      BY <2>1, <3>1
    <3>3. v[j] = t[Len(t) - d + 1 + Which(d, m + j)]
      BY <1>7, <1>9
    <3> QED
      BY <2>2, <2>4, <3>1, <3>2, <3>3
  <2> QED
    BY <2>3, <2>4
<1>11. a = w
  BY <1>3, <1>8, <1>10, SeqEqual
<1> QED
  BY <1>11, Zenon DEF a, w, v, u, r

\* A match does not look further back than it reaches.
LEMMA RepeatOfEnd ==
    ASSUME NEW t \in Seq(Nat), NEW b \in Seq(Nat), NEW d \in 1..Len(b), NEW n \in Nat
    PROVE  Repeat(Cat(t, b), n, d) = Repeat(b, n, d)
<1> DEFINE u == Cat(t, b)
<1>0. u \in Seq(Nat)
  BY CatType
<1>1. Len(u) = Len(t) + Len(b) /\ Len(t) \in Nat /\ Len(b) \in Nat
  BY CatType, LenProperties
<1>2. \A i \in 1..(Len(t) + Len(b)) : u[i] = IF i <= Len(t) THEN t[i] ELSE b[i - Len(t)]
  BY ConcatProperties DEF Cat
<1> HIDE DEF u
<1>3. d \in 1..Len(u) /\ d \in Nat \ {0}
  BY <1>1
<1> DEFINE x == Repeat(u, n, d)
           y == Repeat(b, n, d)
<1>4. /\ x \in Seq(Nat) /\ Len(x) = n
      /\ \A i \in 1..n : x[i] = u[Len(u) - d + 1 + Which(d, i)]
  BY ZenonT(60), <1>0, <1>3, RepeatIs
<1>5. /\ y \in Seq(Nat) /\ Len(y) = n
      /\ \A i \in 1..n : y[i] = b[Len(b) - d + 1 + Which(d, i)]
  BY RepeatIs
<1> HIDE DEF x, y
<1>6. ASSUME NEW i \in 1..Len(x) PROVE x[i] = y[i]
  <2>1. i \in 1..n /\ i \in Nat \ {0}
    BY <1>4
  <2>2. PICK q \in 0..(d - 1) : q = Which(d, i)
    BY <1>3, <2>1, WhichType
  <2>3. /\ Len(u) - d + 1 + q \in 1..(Len(t) + Len(b)) /\ ~(Len(u) - d + 1 + q <= Len(t))
        /\ (Len(u) - d + 1 + q) - Len(t) = Len(b) - d + 1 + q
    BY <1>1, <1>3
  <2>4. u[Len(u) - d + 1 + q] = b[Len(b) - d + 1 + q]
    <3>1. PICK p \in 1..(Len(t) + Len(b)) : p = Len(u) - d + 1 + q
      BY <2>3
    <3>2. u[p] = IF p <= Len(t) THEN t[p] ELSE b[p - Len(t)]
      BY <1>2
    <3> QED
      BY <2>3, <3>1, <3>2
  <2> QED
    BY <1>4, <1>5, <2>1, <2>2, <2>4
<1>7. x = y
  BY <1>4, <1>5, <1>6, SeqEqual
<1> QED
  BY <1>7, Zenon DEF x, y, u

\* A slice of the window, back places before the write index, is what stood there in the text.
LEMMA SliceElements ==
    ASSUME Types, NEW t \in Seq(Nat), HoldsEnd(window, wnext, whave, t),
           NEW back \in 1..whave, NEW m \in 0..back, NEW from \in Nat,
           from + m <= WSize, \A i \in 1..m : from + i - 1 = PlaceOf(wnext, back - i + 1)
    PROVE  /\ Slice(from, m) \in Seq(Nat) /\ Len(Slice(from, m)) = m
           /\ \A i \in 1..m : Slice(from, m)[i] = t[Len(t) - back + i]
           /\ back \in 1..Len(t)
<1>1. /\ wnext \in 0..(WSize - 1) /\ whave \in 0..WSize
      /\ window \in [0..(WSize - 1) -> Nat]
  BY BeforeCopy
<1>2. /\ whave = Smaller(WSize, Len(t))
      /\ \A d \in 1..whave : window[PlaceOf(wnext, d)] = t[Len(t) - d + 1]
  <2>1. wnext \in 0..(WSize - 1) /\ whave \in 0..WSize
    BY <1>1
  <2>2. PICK n \in 0..(WSize - 1), h \in 0..WSize : n = wnext /\ h = whave
    BY <2>1, Zenon
  <2>3. h = Smaller(WSize, Len(t))
    BY <2>2, Zenon DEF HoldsEnd
  <2>4. ASSUME NEW d \in 1..h PROVE window[PlaceOf(n, d)] = t[Len(t) - d + 1]
    <3>1. window[(n + WSize - d) % WSize] = t[Len(t) - d + 1]
      BY <2>2, Zenon DEF HoldsEnd
    <3>2. d \in 1..WSize
      BY Constants
    <3>3. ((n + WSize - d) % WSize) = PlaceOf(n, d)
      BY <3>2, Place
    <3> QED
      BY <3>1, <3>3, Zenon
  <2> QED
    BY <2>2, <2>3, <2>4, Zenon
<1>3. Len(t) \in Nat /\ whave \in Nat /\ back \in Nat /\ m \in Nat /\ whave <= Len(t)
  <2>1. Len(t) \in Nat
    BY LenProperties
  <2>2. whave \in Nat
    BY <1>1
  <2> QED
    BY <1>2, <2>1, <2>2, Constants DEF Smaller
<1>4. Slice(from, m) \in Seq(Nat) /\ Len(Slice(from, m)) = m
  BY <1>1, <1>3, SliceType
<1>5. ASSUME NEW i \in 1..m PROVE Slice(from, m)[i] = t[Len(t) - back + i]
  <2>1. PICK e \in 1..whave : e = back - i + 1
    <3>1. back - i + 1 \in 1..whave
      BY <1>3
    <3> QED
      BY <3>1
  <2>2. window[from + i - 1] = t[Len(t) - e + 1]
    BY <1>2, <2>1
  <2>3. Len(t) - e + 1 = Len(t) - back + i
    BY <1>3, <2>1
  <2>4. Slice(from, m)[i] = window[from + i - 1]
    BY Zenon DEF Slice
  <2> QED
    BY <2>2, <2>3, <2>4
<1>6. back \in 1..Len(t)
  BY <1>3
<1> QED
  BY <1>4, <1>5, <1>6

\* Bytes that stand in front of the output of this call begin a match that reaches them.
LEMMA MatchBegins ==
    ASSUME NEW t \in Seq(Nat), NEW b \in Seq(Nat), NEW back \in 1..Len(t), NEW m \in 0..back,
           NEW s \in Seq(Nat), Len(s) = m, \A i \in 1..m : s[i] = t[Len(t) - back + i]
    PROVE  s = Repeat(Cat(t, b), m, back + Len(b))
<1>1. Len(t) \in Nat /\ Len(b) \in Nat
  BY LenProperties
<1> DEFINE u == Cat(t, b)
<1>2. u \in Seq(Nat) /\ Len(u) = Len(t) + Len(b)
  BY CatType
<1>3. \A i \in 1..(Len(t) + Len(b)) : u[i] = IF i <= Len(t) THEN t[i] ELSE b[i - Len(t)]
  BY ConcatProperties DEF Cat
<1> HIDE DEF u
<1>4. PICK d \in 1..Len(u) : d = back + Len(b)
  <2>1. back + Len(b) \in 1..Len(u)
    BY <1>1, <1>2
  <2> QED
    BY <2>1
<1>5. m \in Nat /\ m <= d
  BY <1>1, <1>4
<1> DEFINE r == Repeat(u, m, d)
<1>6. r \in Seq(Nat) /\ Len(r) = m
  BY <1>2, <1>5, RepeatIs
<1>7. \A i \in 1..m : r[i] = u[Len(u) - d + i]
  BY <1>2, <1>5, RepeatFirst
<1> HIDE DEF r
<1>8. ASSUME NEW i \in 1..Len(s) PROVE s[i] = r[i]
  <2>1. i \in 1..m
    OBVIOUS
  <2>2. PICK p \in 1..Len(t) : p = Len(t) - back + i
    <3>1. Len(t) - back + i \in 1..Len(t)
      BY <1>1, <2>1
    <3> QED
      BY <3>1
  <2>3. p = Len(u) - d + i /\ p \in 1..(Len(t) + Len(b)) /\ p <= Len(t)
    BY <1>1, <1>2, <1>4, <2>1, <2>2
  <2>4. u[p] = t[p]
    BY <1>3, <2>3
  <2> QED
    BY <1>7, <2>1, <2>2, <2>3, <2>4
<1>9. s = r
  BY <1>6, <1>8, SeqEqual
<1> QED
  BY <1>4, <1>9, Zenon DEF r, u

\* One turn of MATCH copies a beginning of what is left of the match.
LEMMA CopyMatchIs ==
    ASSUME Types, offset \in 1..WSize, InWindow(offset) <= whave,
           NEW t \in Seq(Nat), HoldsEnd(window, wnext, whave, t)
    PROVE  \E m \in 0..length :
               /\ CopyMatch(Left) = Repeat(Cat(t, buf), m, offset)
               /\ Len(CopyMatch(Left)) = m
<1>1. /\ buf \in Seq(Nat) /\ Len(buf) \in Nat /\ Left \in Nat
      /\ length \in Nat /\ wnext \in 0..(WSize - 1) /\ whave \in 0..WSize
      /\ whave > 0 => wsize = WSize
      /\ whave = wnext \/ whave = WSize
  BY BeforeCopy
<1>2. PICK n : n = Smaller(length, Left)
  OBVIOUS
<1>3. n \in Nat /\ n <= length
  BY <1>1, <1>2 DEF Smaller
<1>4. PICK back : back = InWindow(offset)
  OBVIOUS
<1>5. back = offset - Len(buf) /\ back \in Int /\ back <= whave
  BY <1>1, <1>4 DEF InWindow
<1>6. PICK c : c = CopyMatch(Left)
  OBVIOUS
<1>7. c = IF back <= 0 THEN Repeat(buf, n, offset)
          ELSE IF back > wnext
          THEN Slice(wsize - (back - wnext), Smaller(back - wnext, n))
          ELSE Slice(wnext - back, Smaller(back, n))
  BY <1>2, <1>4, <1>6 DEF CopyMatch
<1>8. \E m \in 0..length : c = Repeat(Cat(t, buf), m, offset) /\ Len(c) = m
  <2>1. CASE back <= 0
    <3>1. c = Repeat(buf, n, offset)
      BY <1>7, <2>1
    <3>2. offset \in 1..Len(buf)
      BY <1>1, <1>5, <2>1, Constants
    <3>3. Repeat(Cat(t, buf), n, offset) = Repeat(buf, n, offset)
      BY <1>1, <1>3, <3>2, RepeatOfEnd
    <3>4. Len(Repeat(buf, n, offset)) = n
      BY <1>1, <1>3, <3>2, RepeatIs
    <3>5. n \in 0..length
      BY <1>1, <1>3
    <3> QED
      BY <3>1, <3>3, <3>4, <3>5
  <2>2. ASSUME NEW from \in Nat, NEW m \in 0..length, back > 0, m <= back, from + m <= WSize,
               \A i \in 1..m : from + i - 1 = PlaceOf(wnext, back - i + 1), c = Slice(from, m)
        PROVE  \E k \in 0..length : c = Repeat(Cat(t, buf), k, offset) /\ Len(c) = k
    <3>1. back \in 1..whave /\ m \in 0..back
      BY <1>1, <1>5, <2>2
    <3>2. /\ c \in Seq(Nat) /\ Len(c) = m
          /\ \A i \in 1..m : c[i] = t[Len(t) - back + i]
          /\ back \in 1..Len(t)
      BY <2>2, <3>1, SliceElements
    <3>3. c = Repeat(Cat(t, buf), m, back + Len(buf))
      BY <1>1, <3>1, <3>2, MatchBegins
    <3>4. back + Len(buf) = offset
      BY <1>1, <1>5, Constants
    <3> QED
      BY <3>2, <3>3, <3>4
  <2>3. CASE back > 0 /\ back > wnext
    <3>1. PICK m : m = Smaller(back - wnext, n)
      OBVIOUS
    <3>2. m \in 0..length /\ m <= n /\ m <= back - wnext
      BY <1>1, <1>3, <1>5, <2>3, <3>1 DEF Smaller
    <3>3. PICK from : from = wsize - (back - wnext)
      OBVIOUS
    <3>4. from \in Nat /\ from + m <= WSize /\ m <= back
      <4>1. wsize = WSize /\ WSize \in Nat /\ back <= WSize /\ wnext \in Nat
        BY <1>1, <1>5, <2>3, Constants
      <4> QED
        BY <1>5, <2>3, <3>2, <3>3, <4>1
    <3>5. ASSUME NEW i \in 1..m PROVE from + i - 1 = PlaceOf(wnext, back - i + 1)
      <4>1. wsize = WSize /\ WSize \in Nat /\ wnext \in Nat
        BY <1>1, <1>5, <2>3, Constants
      <4>2. ~(back - i + 1 <= wnext)
        BY <1>5, <3>2, <4>1
      <4> QED
        BY <1>5, <3>3, <4>1, <4>2 DEF PlaceOf
    <3>6. c = Slice(from, m)
      BY <1>5, <1>7, <2>3, <3>1, <3>3
    <3> QED
      BY <2>2, <2>3, <3>2, <3>4, <3>5, <3>6
  <2>4. CASE back > 0 /\ ~(back > wnext)
    <3>1. PICK m : m = Smaller(back, n)
      OBVIOUS
    <3>2. m \in 0..length /\ m <= back
      BY <1>1, <1>3, <1>5, <2>4, <3>1 DEF Smaller
    <3>3. PICK from : from = wnext - back
      OBVIOUS
    <3>4. from \in Nat /\ from + m <= WSize
      BY <1>1, <1>5, <2>4, <3>2, <3>3, Constants
    <3>5. ASSUME NEW i \in 1..m PROVE from + i - 1 = PlaceOf(wnext, back - i + 1)
      <4>1. back - i + 1 <= wnext /\ wnext \in Nat
        BY <1>1, <1>5, <2>4, Constants
      <4> QED
        BY <1>5, <3>3, <4>1 DEF PlaceOf
    <3>6. c = Slice(from, m)
      BY <1>5, <1>7, <2>4, <3>1, <3>3
    <3> QED
      BY <2>2, <2>4, <3>2, <3>4, <3>5, <3>6
  <2> QED
    BY <1>5, <2>1, <2>3, <2>4
<1> QED
  BY <1>6, <1>8, Zenon

\* What inflate_fast takes out of the window, in its four ways.
LEMMA FastPart ==
    ASSUME Types, NEW t \in Seq(Nat), HoldsEnd(window, wnext, whave, t), NEW back \in 1..whave,
           NEW part, part = IF wnext = 0 THEN Slice(wsize - back, back)
                            ELSE IF wnext < back
                            THEN Slice(wsize + wnext - back, back - wnext) \o Slice(0, wnext)
                            ELSE Slice(wnext - back, back)
    PROVE  /\ part \in Seq(Nat) /\ Len(part) = back
           /\ \A i \in 1..back : part[i] = t[Len(t) - back + i]
           /\ back \in 1..Len(t)
<1>1. /\ wnext \in 0..(WSize - 1) /\ whave \in 0..WSize
      /\ whave > 0 => wsize = WSize
      /\ whave = wnext \/ whave = WSize
  BY BeforeCopy
<1>2. back \in Nat /\ WSize \in Nat /\ wnext \in Nat /\ back <= WSize /\ wsize = WSize /\ back >= 1
  BY <1>1, Constants
<1>3. CASE wnext = 0
  <2>1. PICK from : from = wsize - back
    OBVIOUS
  <2>2. from \in Nat /\ from + back <= WSize /\ back \in 0..back
    BY <1>2, <2>1
  <2>3. \A i \in 1..back : from + i - 1 = PlaceOf(wnext, back - i + 1)
    BY <1>2, <1>3, <2>1 DEF PlaceOf
  <2> QED
    BY ZenonT(60), <1>3, <2>1, <2>2, <2>3, SliceElements
<1>4. CASE wnext # 0 /\ wnext < back
  <2>1. PICK from : from = wsize + wnext - back
    OBVIOUS
  <2>2. PICK k : k = back - wnext
    OBVIOUS
  <2>3. from \in Nat /\ k \in 0..back /\ from + k <= WSize
    BY <1>2, <1>4, <2>1, <2>2
  <2>4. \A i \in 1..k : from + i - 1 = PlaceOf(wnext, back - i + 1)
    BY <1>2, <1>4, <2>1, <2>2 DEF PlaceOf
  <2>5. PICK a : a = Slice(from, k)
    OBVIOUS
  <2>6. /\ a \in Seq(Nat) /\ Len(a) = k
        /\ \A i \in 1..k : a[i] = t[Len(t) - back + i]
        /\ back \in 1..Len(t)
    BY <2>3, <2>4, <2>5, SliceElements
  <2>7. wnext \in 1..whave /\ wnext \in 0..wnext /\ 0 + wnext <= WSize /\ 0 \in Nat
    BY <1>1, <1>2, <1>4
  <2>8. \A i \in 1..wnext : 0 + i - 1 = PlaceOf(wnext, wnext - i + 1)
    BY <1>2 DEF PlaceOf
  <2>9. PICK b : b = Slice(0, wnext)
    OBVIOUS
  <2>10. /\ b \in Seq(Nat) /\ Len(b) = wnext
         /\ \A i \in 1..wnext : b[i] = t[Len(t) - wnext + i]
    BY <2>7, <2>8, <2>9, SliceElements
  <2>11. part = Cat(a, b)
    BY <1>4, <2>1, <2>2, <2>5, <2>9 DEF Cat
  <2>12. /\ part \in Seq(Nat) /\ Len(part) = Len(a) + Len(b)
         /\ \A i \in 1..(Len(a) + Len(b)) : part[i] = IF i <= Len(a) THEN a[i] ELSE b[i - Len(a)]
    <3>1. a \in Seq(Nat) /\ b \in Seq(Nat)
      BY <2>6, <2>10
    <3>2. /\ Cat(a, b) \in Seq(Nat) /\ Len(Cat(a, b)) = Len(a) + Len(b)
          /\ \A i \in 1..(Len(a) + Len(b)) :
                 Cat(a, b)[i] = IF i <= Len(a) THEN a[i] ELSE b[i - Len(a)]
      BY <3>1, ConcatProperties, Zenon DEF Cat
    <3> QED
      BY <2>11, <3>2, Zenon
  <2>13. Len(a) + Len(b) = back /\ Len(t) \in Nat
    BY <1>2, <2>2, <2>6, <2>10, LenProperties
  <2>14. ASSUME NEW i \in 1..back PROVE part[i] = t[Len(t) - back + i]
    <3>1. part[i] = IF i <= k THEN a[i] ELSE b[i - k]
      BY <2>6, <2>12, <2>13
    <3>2. CASE i <= k
      <4>1. i \in 1..k
        BY <2>3, <3>2
      <4> QED
        BY <2>6, <3>1, <3>2, <4>1
    <3>3. CASE ~(i <= k)
      <4>1. PICK j \in 1..wnext : j = i - k
        <5>1. i - k \in 1..wnext
          BY <1>2, <2>2, <2>3, <3>3
        <5> QED
          BY <5>1
      <4>2. b[j] = t[Len(t) - wnext + j]
        BY <2>10
      <4>3. Len(t) - wnext + j = Len(t) - back + i
        BY <1>2, <2>2, <2>13, <4>1
      <4> QED
        BY <3>1, <3>3, <4>1, <4>2, <4>3
    <3> QED
      BY <3>2, <3>3
  <2> QED
    BY <2>6, <2>12, <2>13, <2>14
<1>5. CASE wnext # 0 /\ ~(wnext < back)
  <2>1. PICK from : from = wnext - back
    OBVIOUS
  <2>2. from \in Nat /\ from + back <= WSize /\ back \in 0..back
    BY <1>1, <1>2, <1>5, <2>1
  <2>3. \A i \in 1..back : from + i - 1 = PlaceOf(wnext, back - i + 1)
    BY <1>2, <1>5, <2>1 DEF PlaceOf
  <2>4. part = Slice(from, back)
    BY <1>5, <2>1, Zenon
  <2>5. back + 0 = back /\ back \in 1..whave
    BY <1>2
  <2>6. /\ Slice(from, back) \in Seq(Nat) /\ Len(Slice(from, back)) = back
        /\ \A i \in 1..back : Slice(from, back)[i] = t[Len(t) - back + i]
        /\ back \in 1..Len(t)
    BY <2>2, <2>3, <2>5, SliceElements
  <2> QED
    BY <2>4, <2>6, Zenon
<1> QED
  BY <1>3, <1>4, <1>5

\* inflate_fast copies the whole match.
LEMMA FastMatchIs ==
    ASSUME Types, NEW n \in Nat, NEW d \in 1..WSize, InWindow(d) <= whave,
           NEW t \in Seq(Nat), HoldsEnd(window, wnext, whave, t)
    PROVE  FastMatch(n, d) = Repeat(Cat(t, buf), n, d)
<1>1. /\ buf \in Seq(Nat) /\ Len(buf) \in Nat /\ whave \in 0..WSize
  BY BeforeCopy
<1>2. PICK back : back = InWindow(d)
  OBVIOUS
<1>3. back = d - Len(buf) /\ back \in Int /\ back <= whave /\ WSize \in Nat /\ d \in Nat
      /\ whave \in Nat
  BY <1>1, <1>2, Constants DEF InWindow
<1>4. PICK p0 : p0 = IF wnext = 0 THEN Slice(wsize - back, back)
                     ELSE IF wnext < back
                     THEN Slice(wsize + wnext - back, back - wnext) \o Slice(0, wnext)
                     ELSE Slice(wnext - back, back)
  OBVIOUS
<1>5. PICK part : part = IF back <= 0 THEN << >> ELSE p0
  OBVIOUS
<1>6. PICK first : first = SubSeq(part, 1, Smaller(n, Len(part)))
  OBVIOUS
<1>7. FastMatch(n, d) = Cat(first, Repeat(Cat(buf, first), n - Len(first), d))
  BY <1>2, <1>4, <1>5, <1>6 DEF FastMatch, Cat
<1>8. CASE back <= 0
  <2>1. part = << >> /\ Len(part) = 0
    BY <1>5, <1>8
  <2>2. Smaller(n, Len(part)) = 0
    BY <2>1 DEF Smaller
  <2>3. first = << >>
    BY <1>6, <2>2, SubSeqEmpty
  <2>4. Len(first) = 0 /\ Cat(buf, first) = buf
    BY <1>1, <2>3, CatEmpty
  <2>5. n - Len(first) = n
    BY <2>4
  <2>6. d \in 1..Len(buf)
    BY <1>1, <1>3, <1>8
  <2>7. Repeat(Cat(t, buf), n, d) = Repeat(buf, n, d) /\ Repeat(buf, n, d) \in Seq(Nat)
    BY <1>1, <2>6, RepeatOfEnd, RepeatIs
  <2>8. Cat(first, Repeat(buf, n, d)) = Repeat(buf, n, d)
    BY <2>3, <2>7, CatEmpty
  <2> QED
    BY <1>7, <2>4, <2>5, <2>7, <2>8, Zenon
<1>9. CASE ~(back <= 0)
  <2>1. part = p0 /\ back \in 1..whave
    BY <1>3, <1>5, <1>9
  <2>2. /\ part \in Seq(Nat) /\ Len(part) = back
        /\ \A i \in 1..back : part[i] = t[Len(t) - back + i]
        /\ back \in 1..Len(t)
    BY <1>4, <2>1, FastPart
  <2>3. PICK m \in 0..back : m = Smaller(n, back) /\ (m = n \/ m = back) /\ m <= n
    <3>1. Smaller(n, back) \in 0..back
      BY <2>1 DEF Smaller
    <3> QED
      BY <3>1, <2>1 DEF Smaller
  <2>4. first = SubSeq(part, 1, m) /\ m \in Nat
    BY <1>6, <2>2, <2>3
  <2>5. first \in Seq(Nat) /\ Len(first) = m
    BY <2>2, <2>3, <2>4, CutInTwo
  <2>6. \A i \in 1..m : first[i] = part[i]
    BY <2>2, <2>3, <2>4
  <2>7. \A i \in 1..m : first[i] = t[Len(t) - back + i]
    <3> SUFFICES ASSUME NEW i \in 1..m PROVE first[i] = t[Len(t) - back + i]
      OBVIOUS
    <3>1. i \in 1..back
      BY <2>1, <2>3
    <3> QED
      BY <2>2, <2>6, <3>1
  <2>8. first = Repeat(Cat(t, buf), m, back + Len(buf))
    BY ZenonT(60), <1>1, <2>2, <2>5, <2>7, MatchBegins
  <2>9. back + Len(buf) = d
    BY <1>1, <1>3
  <2>10. PICK u \in Seq(Nat) : u = Cat(t, buf) /\ Len(u) = Len(t) + Len(buf)
    BY <1>1, CatType
  <2>11. d \in 1..Len(u)
    <3>1. Len(t) \in Nat
      BY LenProperties
    <3> QED
      BY <1>1, <1>3, <2>2, <2>10, <3>1
  <2>12. PICK k \in Nat : k = n - m
    BY <2>3, <2>4
  <2>13. m + k = n
    BY <2>4, <2>12
  <2>14. Repeat(u, n, d) = Cat(first, Repeat(Cat(u, first), k, d))
    <3>1. Repeat(u, m, d) = first
      BY <2>8, <2>9, <2>10
    <3>2. Repeat(u, m + k, d) = Cat(Repeat(u, m, d), Repeat(Cat(u, Repeat(u, m, d)), k, d))
      BY <2>4, <2>11, RepeatSplit
    <3> QED
      BY <2>13, <3>1, <3>2, Zenon
  <2>15. Repeat(Cat(u, first), k, d) = Repeat(Cat(buf, first), k, d)
    <3>1. CASE m = n
      <4>1. k = 0
        BY <2>12, <3>1
      <4>2. 1..k = { }
        BY <4>1
      <4>3. \A x : Repeat(x, k, d) = [i \in { } |-> i]
        BY <4>2 DEF Repeat
      <4> QED
        BY <4>3, Zenon
    <3>2. CASE m = back
      <4>1. Cat(buf, first) \in Seq(Nat) /\ Len(Cat(buf, first)) = Len(buf) + m
        BY <1>1, <2>5, CatType
      <4>2. d \in 1..Len(Cat(buf, first))
        BY <1>1, <1>3, <2>9, <3>2, <4>1
      <4>3. Cat(u, first) = Cat(t, Cat(buf, first))
        BY <1>1, <2>5, <2>10, CatAssoc
      <4>4. Repeat(Cat(t, Cat(buf, first)), k, d) = Repeat(Cat(buf, first), k, d)
        BY <4>1, <4>2, RepeatOfEnd
      <4> QED
        BY <4>3, <4>4, Zenon
    <3> QED
      BY <2>3, <3>1, <3>2
  <2>16. n - Len(first) = k
    BY <2>5, <2>12
  <2> QED
    BY <1>7, <2>10, <2>14, <2>15, <2>16, Zenon
<1> QED
  BY <1>8, <1>9

-----------------------------------------------------------------------------
(* The parser next to the decoder.                                         *)

\* Of the input f, of which h and z have not been decoded, the parser has come to p.
Reached(f, h, z, p) ==
    /\ f = << >> \/ \E st \in Streams : IsPrefix(f, st)
    /\ \E s : Reading(f, h, z, s) /\ Parse(s) = p

\* What there is to decode comes from a stream.
LEMMA SomeStream ==
    ASSUME NEW f, NEW h, NEW z, NEW p, Reached(f, h, z, p), h # << >> \/ z # << >>
    PROVE  \E st \in Streams : IsPrefix(f, st)
<1>1. PICK s : Reading(f, h, z, s)
  BY Zenon DEF Reached
<1>2. h \in Seq(GoodItems) /\ z \in Seq(AllBytes)
  BY <1>1, Zenon DEF Reading
<1>3. f # << >>
  <2>1. PICK c \in Seq(AllBytes) :
             \/ h = << >> /\ f = Cat(c, z)
             \/ \E b \in AllBytes : f = Cat(Append(c, b), z)
    BY <1>1, Zenon DEF Reading
  <2>2. Len(<< >>) = 0
    BY EmptySeq
  <2>3. Len(c) \in Nat /\ Len(z) \in Nat
    BY <1>2, LenProperties
  <2>4. CASE h = << >> /\ f = Cat(c, z)
    <3>1. Len(f) = Len(c) + Len(z)
      BY <1>2, <2>4, CatType
    <3>2. Len(z) # 0
      BY <1>2, <2>4, EmptySeq
    <3>3. Len(f) # 0
      BY <2>3, <3>1, <3>2
    <3> QED
      BY <2>2, <3>3, Zenon
  <2>5. ASSUME NEW b \in AllBytes, f = Cat(Append(c, b), z) PROVE f # << >>
    <3>1. PICK a \in Seq(AllBytes) : a = Append(c, b) /\ Len(a) = Len(c) + 1
      BY AppendProperties
    <3>2. Len(f) = Len(a) + Len(z)
      BY <1>2, <2>5, <3>1, CatType
    <3>3. Len(f) # 0
      BY <2>3, <3>1, <3>2
    <3> QED
      BY <2>2, <3>3, Zenon
  <2> QED
    BY <2>1, <2>4, <2>5, Zenon
<1> QED
  BY <1>3, Zenon DEF Reached

\* In front of a stream.
LEMMA ReachedStart ==
    Reached(<< >>, << >>, << >>, Start)
<1>1. /\ << >> \in Seq(GoodItems) /\ << >> \in Seq(AllBytes)
  BY EmptySeq
<1>2. << >> = Cat(<< >>, << >>)
  BY <1>1, CatEmpty
<1>3. Reading(<< >>, << >>, << >>, << >>)
  BY <1>1, <1>2, FlattenEmpty, Zenon DEF Reading
<1> QED
  BY <1>3, StartParse, Zenon DEF Reached

\* A byte is read.
LEMMA ReachedByte ==
    ASSUME NEW f, NEW z, NEW p, Reached(f, << >>, z, p), z # << >>
    PROVE  Reached(f, Head(z), Tail(z), p)
BY PullOne, Zenon DEF Reached

\* An item is decoded.
LEMMA ReachedItem ==
    ASSUME NEW f, NEW h, NEW z, NEW p, Reached(f, h, z, p), h # << >>
    PROVE  /\ Reached(f, Tail(h), z, ParseItem(p, Head(h)))
           /\ Head(h) \in GoodItems
           /\ Head(h).k \in EndsByte \/ ParseItem(p, Head(h)).at = "check" => Tail(h) = << >>
<1>1. PICK st \in Streams : IsPrefix(f, st)
  BY SomeStream
<1>2. PICK s : Reading(f, h, z, s) /\ Parse(s) = p
  BY Zenon DEF Reached
<1>3. /\ Reading(f, Tail(h), z, Append(s, Head(h)))
      /\ Head(h) \in GoodItems
      /\ Parse(Append(s, Head(h))) = ParseItem(p, Head(h))
  BY <1>2, TakeOne, Zenon
<1>4. Head(h).k \in EndsByte \/ Parse(Append(s, Head(h))).at = "check" => Tail(h) = << >>
  BY <1>1, <1>2, ByteEnds, Zenon
<1>5. Head(h).k \in EndsByte \/ ParseItem(p, Head(h)).at = "check" => Tail(h) = << >>
  BY <1>3, <1>4, Zenon
<1> QED
  BY <1>1, <1>3, <1>5, Zenon DEF Reached

\* A byte of a stored block is read.
LEMMA ReachedRaw ==
    ASSUME NEW f, NEW z, NEW p, Reached(f, << >>, z, p), z # << >>, p.at = "raw"
    PROVE  \E x \in GoodItems : /\ x.k = "raw" /\ x.n = ByteValue(Head(z))
                                /\ Reached(f, << >>, Tail(z), ParseItem(p, x))
<1>1. PICK st \in Streams : IsPrefix(f, st)
  BY SomeStream
<1>2. PICK s : Reading(f, << >>, z, s) /\ Parse(s) = p
  BY Zenon DEF Reached
<1>3. PICK x : x = Head(Head(z))
  OBVIOUS
<1>4. /\ x \in GoodItems /\ x.k = "raw" /\ x.n = ByteValue(Head(z))
      /\ Reading(f, << >>, Tail(z), Append(s, x))
      /\ Parse(Append(s, x)) = ParseItem(p, x)
  BY <1>1, <1>2, <1>3, RawByteNext, Zenon
<1> QED
  BY <1>1, <1>4, Zenon DEF Reached

\* inflate_fast takes an item.
LEMMA ReachedFast ==
    ASSUME NEW f, NEW h, NEW z, NEW p, Reached(f, h, z, p), HasItem(h, z),
           NEW r, r = TakeItem(h, z)
    PROVE  /\ Reached(f, r.hold, r.input, ParseItem(p, r.item))
           /\ r.item \in GoodItems
           /\ ParseItem(p, r.item).at = "check" => r.hold = << >>
<1>1. PICK s : Reading(f, h, z, s) /\ Parse(s) = p
  BY Zenon DEF Reached
<1>2. h # << >> \/ z # << >>
  <2>1. SUFFICES ASSUME h = << >>, z = << >> PROVE FALSE
    BY Zenon
  <2>2. Len(z) = 0
    BY <2>1
  <2>3. 1..Len(z) = { }
    BY <2>2
  <2> QED
    BY <2>1, <2>3, Zenon DEF HasItem
<1>3. PICK st \in Streams : IsPrefix(f, st)
  BY <1>2, SomeStream
<1>4. /\ Reading(f, r.hold, r.input, Append(s, r.item))
      /\ r.item \in GoodItems
      /\ Parse(Append(s, r.item)) = ParseItem(Parse(s), r.item)
      /\ Parse(Append(s, r.item)).at = "check" => r.hold = << >>
  BY <1>1, <1>3, TakeNext
<1> QED
  BY <1>1, <1>3, <1>4, Zenon DEF Reached

\* The next chunk comes when the last one is used up.
LEMMA ReachedChunk ==
    ASSUME NEW f, NEW h, NEW p, Reached(f, h, << >>, p),
           NEW z \in Seq(AllBytes), NEW st \in Streams, IsPrefix(Cat(f, z), st)
    PROVE  Reached(Cat(f, z), h, z, p)
<1>1. PICK s : Reading(f, h, << >>, s) /\ Parse(s) = p
  BY Zenon DEF Reached
<1>2. h \in Seq(GoodItems) /\ s \in Seq(GoodItems)
  BY <1>1, Zenon DEF Reading
<1>3. PICK c \in Seq(AllBytes) :
           \/ h = << >> /\ f = Cat(c, << >>) /\ s = FlattenSeq(c)
           \/ \E b \in AllBytes, u \in Seq(GoodItems) :
                  f = Cat(Append(c, b), << >>) /\ b = Cat(u, h) /\ s = Cat(FlattenSeq(c), u)
  BY <1>1, Zenon DEF Reading
<1>4. Reading(Cat(f, z), h, z, s)
  <2>1. CASE h = << >> /\ f = Cat(c, << >>) /\ s = FlattenSeq(c)
    <3>1. f = c
      BY <2>1, CatEmpty
    <3> QED
      BY <1>2, <2>1, <3>1, Zenon DEF Reading
  <2>2. ASSUME NEW b \in AllBytes, NEW u \in Seq(GoodItems),
               f = Cat(Append(c, b), << >>), b = Cat(u, h), s = Cat(FlattenSeq(c), u)
        PROVE  Reading(Cat(f, z), h, z, s)
    <3>1. Append(c, b) \in Seq(AllBytes)
      BY AppendProperties
    <3>2. f = Append(c, b)
      BY <2>2, <3>1, CatEmpty
    <3> QED
      BY <1>2, <2>2, <3>2, Zenon DEF Reading
  <2> QED
    BY <1>3, <2>1, <2>2, Zenon
<1> QED
  BY <1>1, <1>4, Zenon DEF Reached

\* What the whole input says, once its end, or damage, has been reached.
LEMMA ReachedAll ==
    ASSUME NEW f, NEW h, NEW z, NEW p \in Parses, Reached(f, h, z, p)
    PROVE  /\ p.at \in { "end", "dict" } => Parse(FlattenSeq(f)) = p
           /\ p.at = "bad" => Parse(FlattenSeq(f)).at = "bad"
           /\ h = << >> /\ z = << >> => Parse(FlattenSeq(f)) = p
           /\ f \in Seq(AllBytes) /\ FlattenSeq(f) \in Seq(GoodItems)
<1>1. PICK s : Reading(f, h, z, s) /\ Parse(s) = p
  BY Zenon DEF Reached
<1>2. s \in Seq(GoodItems)
  BY <1>1, Zenon DEF Reading
<1>3. PICK r \in Seq(GoodItems) : r = Cat(h, FlattenSeq(z)) /\ FlattenSeq(f) = Cat(s, r)
  BY <1>1, ReadingAll
<1>4. Parse(FlattenSeq(f)) = Parser!Fold(p, r)
  BY <1>1, <1>2, <1>3, ParseConcat
<1>5. /\ p.at \in { "end", "dict" } => Parser!Fold(p, r) = p
      /\ p.at = "bad" => Parser!Fold(p, r).at = "bad"
  BY NothingFollows
<1>6. h = << >> /\ z = << >> => Parse(FlattenSeq(f)) = p
  <2> SUFFICES ASSUME h = << >>, z = << >> PROVE Parse(FlattenSeq(f)) = p
    OBVIOUS
  <2>1. << >> \in Seq(GoodItems)
    BY EmptySeq
  <2>2. r = << >>
    BY <1>3, <2>1, FlattenEmpty, CatEmpty
  <2>3. Cat(s, r) = s
    BY <1>2, <2>2, CatEmpty
  <2> QED
    BY <1>1, <1>3, <2>3, Zenon
<1>7. f \in Seq(AllBytes) /\ FlattenSeq(f) \in Seq(GoodItems)
  BY <1>1, <1>2, <1>3, ReadingAll, CatType
<1> QED
  BY <1>4, <1>5, <1>6, <1>7, Zenon

\* What follows the end is dropped.
LEMMA ReachedEnd ==
    ASSUME NEW f, NEW z, NEW p \in Parses, Reached(f, << >>, z, p), p.at \in { "end", "dict" }
    PROVE  Reached(f, << >>, << >>, p)
<1>1. Parse(FlattenSeq(f)) = p /\ f \in Seq(AllBytes) /\ FlattenSeq(f) \in Seq(GoodItems)
  BY ReachedAll
<1>2. << >> \in Seq(GoodItems) /\ << >> \in Seq(AllBytes)
  BY EmptySeq
<1>3. f = Cat(f, << >>)
  BY <1>1, CatEmpty
<1>4. Reading(f, << >>, << >>, FlattenSeq(f))
  BY <1>1, <1>2, <1>3, Zenon DEF Reading
<1> QED
  BY <1>1, <1>4, Zenon DEF Reached

-----------------------------------------------------------------------------
(* The invariant.                                                          *)

\* Everything put out, by the calls and by the one that runs.
Text == Cat(Cat(out, luabuf), buf)

\* What the text put out, T, has to do with what the parser p has read, in every mode m of the
\* decoder: h is left of the last byte, and len, off, la and fl are length, offset, last, flags.
SaysAt(p, m, T, h, len, off, la, fl) ==
    /\ m = "HEAD" => p = Start /\ T = << >> /\ ~la
    /\ m = "DICT" => p.at = "dict" /\ p.text = << >> /\ T = << >> /\ h = << >>
    /\ m = "TYPE" => /\ p.text = T /\ p.gzip = fl
                     /\ p.at = BlockEnd(la) /\ (la => h = << >>)
    /\ m = "COPY" => /\ p.text = T /\ p.gzip = fl /\ p.last = la /\ h = << >>
                     /\ p.at = IF len > 0 THEN "raw" ELSE BlockEnd(la)
                     /\ len > 0 => p.n = len
    /\ m = "LEN" => p.text = T /\ p.gzip = fl /\ p.last = la /\ p.at = "code"
    /\ m = "LIT" => p.text = Append(T, len) /\ p.gzip = fl /\ p.last = la /\ p.at = "code"
    /\ m = "DIST" => /\ p.text = T /\ p.gzip = fl /\ p.last = la /\ p.at = "dist"
                     /\ p.n = len
    /\ m = "MATCH" => IF off <= Len(T)
                      THEN /\ p.text = Cat(T, Repeat(T, len, off))
                           /\ p.gzip = fl /\ p.last = la /\ p.at = "code"
                      ELSE p.at = "bad"
    /\ m = "CHECK" => p.text = T /\ p.gzip = fl /\ p.at = "check"
    /\ m = "LENGTH" => /\ p.text = T /\ p.at = IF fl THEN "length" ELSE "end"
                       /\ ~fl => h = << >>
    /\ m = "DONE" => p.text = T /\ p.at = "end" /\ h = << >>
    /\ m = "BAD" => p.at = "bad"

\* The decoder goes along with the parser, until it gives up.
Follows(f, m, h, z, p) == IF m = "BAD" THEN \E g, y : Reached(f, g, y, p) ELSE Reached(f, h, z, p)

Parsed ==
    \E p \in Parses : /\ Follows(fed, mode, hold, input, p)
                      /\ SaysAt(p, mode, Text, hold, length, offset, last, flags)

\* The check value covers what was put out before out was last set.
Checked ==
    mode # "MEM" =>
        /\ pc \in { "idle", "loop" } => check = Cat(out, luabuf)
        /\ pc \in { "inflate", "leave" } =>
               check = Cat(Cat(out, luabuf), SubSeq(buf, 1, BufSize - out0))
        /\ pc = "called" => check = Text
        /\ pc \in { "inflate", "leave" } /\ mode = "LENGTH" => check = Text

\* The decoder asks for more input, or has nothing to ask for.
Waiting ==
    /\ hold = << >>
    /\ \/ mode \in { "HEAD", "LEN", "DIST", "CHECK" }
       \/ mode = "TYPE" /\ ~last
       \/ mode = "LENGTH" /\ flags
       \/ mode = "COPY" /\ length > 0

Stopped == Waiting \/ mode \in { "DONE", "DICT", "MEM", "BAD" }

\* Why inflate() was left.
Outcome ==
    /\ pc \in { "idle", "loop" } => mode # "BAD"
    /\ pc = "idle" => Stopped
    /\ flush = "FINISH" /\ pc \in { "loop", "inflate", "leave", "called" } =>
           input = << >> /\ Stopped
    /\ pc = "leave" /\ ret = "OK" =>
           (Left = 0 /\ mode \in { "COPY", "MATCH", "LIT" }) \/ (input = << >> /\ Waiting)
    /\ pc = "called" /\ ret \in { "OK", "BUF_ERROR" } =>
           \/ /\ Left = 0 /\ mode \in { "COPY", "MATCH", "LIT" }
              /\ ret = "OK" /\ flush = "NO_FLUSH"
           \/ input = << >> /\ Waiting
    /\ pc = "leave" => ret \in { "OK", "STREAM_END", "DATA_ERROR" }
    /\ pc \in { "leave", "called" } =>
           /\ ret = "STREAM_END" => mode = "DONE"
           /\ ret = "DATA_ERROR" => mode = "BAD"
           /\ ret = "NEED_DICT" => mode = "DICT"

\* Between two calls of update() the buffers and the input are used up.
Quiet ==
    /\ pc \in { "none", "idle" } => luabuf = << >> /\ input = << >>
    /\ pc \in { "none", "idle", "loop" } => buf = << >>
    /\ pc = "none" => /\ fed = << >> /\ out = << >> /\ check = << >> /\ hold = << >>
                      /\ mode = "HEAD" /\ ~last /\ stage = "stale"

TextInv == Quiet /\ (stage = "open" => Parsed /\ Checked /\ Outcome)

-----------------------------------------------------------------------------
LEMMA SayDict ==
    ASSUME NEW p, NEW h, NEW len, NEW off, NEW la, NEW fl,
           p.at = "dict", p.text = << >>, h = << >>
    PROVE  SaysAt(p, "DICT", << >>, h, len, off, la, fl)
BY DEF SaysAt

LEMMA SayType ==
    ASSUME NEW p, NEW T, NEW h, NEW len, NEW off, NEW la, NEW fl,
           p.text = T, p.gzip = fl, p.at = BlockEnd(la), la => h = << >>
    PROVE  SaysAt(p, "TYPE", T, h, len, off, la, fl)
BY DEF SaysAt

LEMMA SayCopy ==
    ASSUME NEW p, NEW T, NEW len, NEW off, NEW la, NEW fl,
           p.text = T, p.gzip = fl, p.last = la,
           p.at = IF len > 0 THEN "raw" ELSE BlockEnd(la), len > 0 => p.n = len
    PROVE  SaysAt(p, "COPY", T, << >>, len, off, la, fl)
BY DEF SaysAt

LEMMA SayLen ==
    ASSUME NEW p, NEW T, NEW h, NEW len, NEW off, NEW la, NEW fl,
           p.text = T, p.gzip = fl, p.last = la, p.at = "code"
    PROVE  SaysAt(p, "LEN", T, h, len, off, la, fl)
BY DEF SaysAt

LEMMA SayLit ==
    ASSUME NEW p, NEW T, NEW h, NEW len, NEW off, NEW la, NEW fl,
           p.text = Append(T, len), p.gzip = fl, p.last = la, p.at = "code"
    PROVE  SaysAt(p, "LIT", T, h, len, off, la, fl)
BY Zenon DEF SaysAt

LEMMA SayDist ==
    ASSUME NEW p, NEW T, NEW h, NEW len, NEW off, NEW la, NEW fl,
           p.text = T, p.gzip = fl, p.last = la, p.at = "dist", p.n = len
    PROVE  SaysAt(p, "DIST", T, h, len, off, la, fl)
BY DEF SaysAt

LEMMA SayMatch ==
    ASSUME NEW p, NEW T, NEW h, NEW len, NEW off, NEW la, NEW fl,
           IF off <= Len(T)
           THEN p.text = Cat(T, Repeat(T, len, off)) /\ p.gzip = fl /\ p.last = la /\ p.at = "code"
           ELSE p.at = "bad"
    PROVE  SaysAt(p, "MATCH", T, h, len, off, la, fl)
BY Zenon DEF SaysAt

LEMMA SayCheck ==
    ASSUME NEW p, NEW T, NEW h, NEW len, NEW off, NEW la, NEW fl,
           p.text = T, p.gzip = fl, p.at = "check"
    PROVE  SaysAt(p, "CHECK", T, h, len, off, la, fl)
BY DEF SaysAt

LEMMA SayLength ==
    ASSUME NEW p, NEW T, NEW len, NEW off, NEW la, NEW fl,
           p.text = T, p.at = IF fl THEN "length" ELSE "end"
    PROVE  SaysAt(p, "LENGTH", T, << >>, len, off, la, fl)
BY DEF SaysAt

LEMMA SayDone ==
    ASSUME NEW p, NEW T, NEW len, NEW off, NEW la, NEW fl, p.text = T, p.at = "end"
    PROVE  SaysAt(p, "DONE", T, << >>, len, off, la, fl)
BY DEF SaysAt

LEMMA SayBad ==
    ASSUME NEW p, NEW T, NEW h, NEW len, NEW off, NEW la, NEW fl, p.at = "bad"
    PROVE  SaysAt(p, "BAD", T, h, len, off, la, fl)
BY DEF SaysAt

LEMMA SayMem ==
    ASSUME NEW p, NEW T, NEW h, NEW len, NEW off, NEW la, NEW fl
    PROVE  SaysAt(p, "MEM", T, h, len, off, la, fl)
BY DEF SaysAt

\* A step of the decoder that puts t out keeps the check value.
LEMMA CheckedGrows ==
    ASSUME Inv, pc = "inflate", Checked, NEW t \in Seq(Nat), buf' = Cat(buf, t),
           pc' \in { "inflate", "leave" }, mode # "MEM",
           mode' = "LENGTH" => mode = "LENGTH" /\ buf' = buf,
           UNCHANGED << check, luabuf, out, out0 >>
    PROVE  Checked'
<1>1. check = Cat(Cat(out, luabuf), SubSeq(buf, 1, BufSize - out0))
  <2>1. pc \in { "inflate", "leave" }
    OBVIOUS
  <2> QED
    BY <2>1, Zenon DEF Checked
<1>2. buf \in Seq(Nat) /\ BufSize - out0 \in 0..Len(buf)
  <2>1. /\ Len(buf) \in Nat /\ Left = BufSize - Len(buf) /\ buf \in Seq(Nat)
        /\ out0 \in 0..BufSize /\ (pc \in { "inflate", "leave" } => Left <= out0)
    BY TypesNow, Zenon
  <2> QED
    BY <2>1, Constants
<1>3. SubSeq(buf', 1, BufSize - out0) = SubSeq(buf, 1, BufSize - out0)
  BY <1>2, PrefixOfLeft
<1>4. check' = Cat(Cat(out', luabuf'), SubSeq(buf', 1, BufSize - out0'))
  BY <1>1, <1>3, Zenon
<1>5. pc' \notin { "idle", "loop" } /\ pc' # "called"
  OBVIOUS
<1>6. ASSUME mode' = "LENGTH" PROVE check' = Text'
  <2>1. pc \in { "inflate", "leave" }
    OBVIOUS
  <2>2. check = Text /\ buf' = buf
    BY <1>6, <2>1, Zenon DEF Checked
  <2> QED
    BY <2>2, Zenon DEF Text
<1> QED
  BY <1>4, <1>5, <1>6, Zenon DEF Checked

LEMMA CheckedStays ==
    ASSUME Inv, pc = "inflate", Checked, pc' \in { "inflate", "leave" }, mode # "MEM",
           UNCHANGED << check, buf, luabuf, mode, out, out0 >>
    PROVE  Checked'
<1>1. buf \in Seq(Nat)
  BY TypesNow, Zenon
<1>2. << >> \in Seq(Nat) /\ buf' = Cat(buf, << >>)
  BY <1>1, CatEmpty, EmptySeq
<1> QED
  BY <1>2, CheckedGrows, Zenon

\* finish() has no input, and the decoder has nothing to do without it.
LEMMA OutcomeInside ==
    ASSUME Outcome, pc = "inflate", pc' = "inflate", UNCHANGED flush, ~(input = << >> /\ Stopped),
           flush \in { "NO_FLUSH", "FINISH" }
    PROVE  Outcome'
<1>1. flush' = "NO_FLUSH"
  BY DEF Outcome
<1> QED
  BY <1>1 DEF Outcome

\* The text stays while nothing is put out.
LEMMA TextStays ==
    ASSUME UNCHANGED << buf, luabuf, history >>
    PROVE  Text' = Text /\ fed' = fed /\ out' = out
BY Zenon DEF Text, history

-----------------------------------------------------------------------------
(* The steps of inflate().                                                 *)

OpenInv == Parsed /\ Checked /\ Outcome

\* Bits that have come in change nothing yet.
LEMMA SayMoreBits ==
    ASSUME NEW p, NEW m, NEW T, NEW h, NEW g, NEW len, NEW off, NEW la, NEW fl,
           SaysAt(p, m, T, h, len, off, la, fl),
           \/ m \in { "HEAD", "LEN", "DIST", "CHECK" }
           \/ m = "TYPE" /\ ~la
           \/ m = "LENGTH" /\ fl
    PROVE  SaysAt(p, m, T, g, len, off, la, fl)
BY DEF SaysAt

LEMMA ReachedFollows ==
    ASSUME NEW f, NEW m, NEW h, NEW z, NEW p, Reached(f, h, z, p)
    PROVE  Follows(f, m, h, z, p)
BY Zenon DEF Follows

LEMMA PullByteText == ASSUME Inv, OpenInv, PullByte PROVE OpenInv'
<1>1. /\ pc = "inflate" /\ pc' = pc /\ hold = << >> /\ input # << >>
      /\ hold' = Head(input) /\ input' = Tail(input)
      /\ \/ mode \in { "HEAD", "LEN", "DIST", "CHECK" }
         \/ mode = "TYPE" /\ ~last
         \/ mode = "LENGTH" /\ flags
      /\ UNCHANGED << flush, buf, luabuf, mode, last, flags, length, offset, check, out0, history >>
  BY Zenon DEF PullByte, WaitsForItem, code, progress
<1>0. mode # "BAD"
  BY <1>1
<1>2. PICK p \in Parses : /\ Reached(fed, << >>, input, p)
                          /\ SaysAt(p, mode, Text, << >>, length, offset, last, flags)
  BY <1>0, <1>1, Zenon DEF OpenInv, Parsed, Follows
<1>3. Reached(fed, hold', input', p)
  BY <1>1, <1>2, ReachedByte, Zenon
<1>4. SaysAt(p, mode, Text, hold', length, offset, last, flags)
  BY <1>1, <1>2, SayMoreBits
<1>5. Text' = Text /\ fed' = fed /\ out' = out
  BY <1>1, TextStays, Zenon
<1>6. Parsed'
  BY <1>0, <1>1, <1>3, <1>4, <1>5, Zenon DEF Parsed, Follows
<1>7. Checked'
  <2>1. pc' \in { "inflate", "leave" } /\ mode # "MEM"
    BY <1>1
  <2> QED
    BY <1>1, <1>5, <2>1, CheckedStays, Zenon DEF OpenInv
<1>8. Outcome'
  BY <1>1, OutcomeInside, TypesNow, Zenon DEF OpenInv
<1> QED
  BY <1>6, <1>7, <1>8, Zenon DEF OpenInv

LEMMA NoInputText == ASSUME Inv, OpenInv, NoInput PROVE OpenInv'
<1>1. /\ pc = "inflate" /\ pc' = "leave" /\ ret' = "OK" /\ input = << >> /\ Waiting
      /\ UNCHANGED << flush, input, buf, luabuf, mode, last, flags, length, offset, hold, check,
                      out0, history >>
  BY Zenon DEF NoInput, WaitsForItem, InfLeave, Waiting, io, code, progress
<1>2. Text' = Text /\ fed' = fed /\ out' = out
  BY <1>1, TextStays, Zenon
<1>3. Parsed'
  BY <1>1, <1>2, Zenon DEF OpenInv, Parsed
<1>4. Checked'
  <2>1. pc' \in { "inflate", "leave" } /\ mode # "MEM"
    BY <1>1 DEF Waiting
  <2> QED
    BY <1>1, <1>2, <2>1, CheckedStays, Zenon DEF OpenInv
<1>5. Outcome'
  <2>1. Waiting' /\ Stopped' /\ input' = << >>
    BY <1>1, Zenon DEF Waiting, Stopped
  <2> QED
    BY <1>1, <2>1 DEF Outcome
<1> QED
  BY <1>3, <1>4, <1>5, Zenon DEF OpenInv

\* What every step of the decoder that takes an item begins with.
LEMMA ItemHere ==
    ASSUME Inv, OpenInv, pc = "inflate", hold # << >>, mode # "BAD"
    PROVE  \E p \in Parses, x \in GoodItems :
               /\ x = Head(hold)
               /\ SaysAt(p, mode, Text, hold, length, offset, last, flags)
               /\ Reached(fed, Tail(hold), input, ParseItem(p, x))
               /\ x.k \in EndsByte \/ ParseItem(p, x).at = "check" => Tail(hold) = << >>
<1>1. PICK p \in Parses : /\ Reached(fed, hold, input, p)
                          /\ SaysAt(p, mode, Text, hold, length, offset, last, flags)
  BY Zenon DEF OpenInv, Parsed, Follows
<1>2. /\ Reached(fed, Tail(hold), input, ParseItem(p, Head(hold)))
      /\ Head(hold) \in GoodItems
      /\ Head(hold).k \in EndsByte \/ ParseItem(p, Head(hold)).at = "check"
             => Tail(hold) = << >>
  BY <1>1, ReachedItem
<1> QED
  BY <1>1, <1>2, Zenon

\* And what it ends with.
LEMMA ItemDone ==
    ASSUME Inv, OpenInv, pc = "inflate", pc' = "inflate", mode # "MEM",
           ~(input = << >> /\ Stopped), mode' # "LENGTH",
           UNCHANGED << flush, luabuf, history, check, out0 >>,
           NEW t \in Seq(Nat), buf' = Cat(buf, t),
           NEW q \in Parses, Follows(fed, mode', hold', input', q),
           SaysAt(q, mode', Cat(Text, t), hold', length', offset', last', flags')
    PROVE  OpenInv'
<1>1. fed' = fed /\ out' = out
  BY Zenon DEF history
<1>2. Text' = Cat(Text, t)
  <2>1. out \in Seq(Nat) /\ luabuf \in Seq(Nat) /\ buf \in Seq(Nat)
    BY TypesNow, Zenon
  <2>2. PICK r \in Seq(Nat) : r = Cat(out, luabuf)
    BY <2>1, CatType
  <2>3. Cat(r, Cat(buf, t)) = Cat(Cat(r, buf), t)
    BY <2>1, CatAssoc
  <2> QED
    BY <1>1, <2>2, <2>3, Zenon DEF Text
<1>3. Parsed'
  BY <1>1, <1>2, Zenon DEF Parsed
<1>4. Checked'
  <2>1. pc' \in { "inflate", "leave" }
    OBVIOUS
  <2> QED
    BY <1>1, <2>1, CheckedGrows, Zenon DEF OpenInv
<1>5. Outcome'
  BY OutcomeInside, TypesNow, Zenon DEF OpenInv
<1> QED
  BY <1>3, <1>4, <1>5, Zenon DEF OpenInv

\* When nothing is put out.
LEMMA ItemDoneSilent ==
    ASSUME Inv, OpenInv, pc = "inflate", pc' = "inflate", mode # "MEM",
           ~(input = << >> /\ Stopped), mode' # "LENGTH",
           UNCHANGED << flush, buf, luabuf, history, check, out0 >>,
           NEW q \in Parses, Follows(fed, mode', hold', input', q),
           SaysAt(q, mode', Text, hold', length', offset', last', flags')
    PROVE  OpenInv'
<1>1. out \in Seq(Nat) /\ luabuf \in Seq(Nat) /\ buf \in Seq(Nat)
  BY TypesNow, Zenon
<1>2. PICK r \in Seq(Nat) : r = Cat(out, luabuf)
  BY <1>1, CatType
<1>3. Text \in Seq(Nat)
  <2>1. Cat(r, buf) \in Seq(Nat)
    BY <1>1, CatType
  <2> QED
    BY <1>2, <2>1, Zenon DEF Text
<1>4. << >> \in Seq(Nat) /\ buf' = Cat(buf, << >>) /\ Cat(Text, << >>) = Text
  BY <1>1, <1>3, CatEmpty, EmptySeq
<1> QED
  BY <1>4, ItemDone, Zenon

\* The decoder has something to do.
LEMMA Busy ==
    ASSUME mode \in { "HEAD", "TYPE", "COPY", "LEN", "DIST", "MATCH", "LIT", "CHECK", "LENGTH" },
           \/ hold # << >> \/ mode \in { "MATCH", "LIT" } \/ (mode = "TYPE" /\ last)
           \/ (mode = "LENGTH" /\ ~flags) \/ (mode = "COPY" /\ ~(length > 0))
    PROVE  ~Stopped /\ mode # "MEM" /\ mode # "BAD"
BY DEF Stopped, Waiting

LEMMA ReadHeadText == ASSUME Inv, OpenInv, ReadHead PROVE OpenInv'
<1>1. /\ pc = "inflate" /\ pc' = pc /\ mode = "HEAD" /\ hold # << >>
      /\ UNCHANGED << flush, input, buf, luabuf, check, out0, history >>
  BY Zenon DEF ReadHead, In, io, progress
<1>2. ~Stopped /\ mode # "MEM" /\ mode # "BAD"
  BY <1>1, Busy
<1>3. PICK p \in Parses, x \in GoodItems :
               /\ x = Head(hold)
               /\ SaysAt(p, mode, Text, hold, length, offset, last, flags)
               /\ Reached(fed, Tail(hold), input, ParseItem(p, x))
               /\ x.k \in EndsByte \/ ParseItem(p, x).at = "check" => Tail(hold) = << >>
  BY <1>1, <1>2, ItemHere
<1>4. p = Start /\ Text = << >> /\ ~last
  BY <1>1, <1>3, Zenon DEF SaysAt
<1>5. p.at = "head" /\ p.text = << >>
  BY <1>4, StartParse, Zenon
<1>6. \E q \in Parses : /\ Reached(fed, hold', input', q)
                        /\ SaysAt(q, mode', Text, hold', length', offset', last', flags')
  <2>1. CASE /\ x.k \in { "zlib", "gzip" } /\ mode' = "TYPE" /\ hold' = << >>
             /\ flags' = (x.k = "gzip") /\ UNCHANGED << last, length, offset >>
    <3>1. PICK q : q = [p EXCEPT !.at = "block", !.gzip = (x.k = "gzip")]
      OBVIOUS
    <3>2. q = ParseItem(p, x)
      BY <1>5, <2>1, <3>1, AtHead
    <3>3. q \in Parses /\ q.at = "block" /\ q.text = p.text /\ q.gzip = (x.k = "gzip")
      BY <3>1 DEF Parses, Ats
    <3>4. x.k \in EndsByte
      BY <2>1 DEF EndsByte
    <3>5. BlockEnd(last) = "block" /\ (last => hold' = << >>)
      BY <1>4 DEF BlockEnd
    <3>6. SaysAt(q, "TYPE", Text, hold', length', offset', last', flags')
      BY <1>4, <1>5, <2>1, <3>3, <3>5, SayType, Zenon
    <3> QED
      BY <1>1, <1>3, <2>1, <3>2, <3>3, <3>4, <3>6, Zenon
  <2>2. CASE x.k = "dict" /\ mode' = "DICT" /\ hold' = << >> /\ UNCHANGED code
    <3>1. PICK q : q = [p EXCEPT !.at = "dict"]
      OBVIOUS
    <3>2. q = ParseItem(p, x)
      BY <1>5, <2>2, <3>1, AtHead
    <3>3. q \in Parses /\ q.at = "dict" /\ q.text = p.text
      BY <3>1 DEF Parses, Ats
    <3>4. x.k \in EndsByte
      BY <2>2 DEF EndsByte
    <3>5. SaysAt(q, "DICT", Text, hold', length', offset', last', flags')
      BY <1>4, <1>5, <2>2, <3>3, SayDict, Zenon
    <3> QED
      BY <1>1, <1>3, <2>2, <3>2, <3>3, <3>4, <3>5, Zenon
  <2>3. CASE x.k \notin { "zlib", "gzip", "dict" } /\ Bad
    <3>1. PICK q : q = [p EXCEPT !.at = "bad"]
      OBVIOUS
    <3>2. q = ParseItem(p, x)
      BY <1>5, <2>3, <3>1, AtHead, Zenon
    <3>3. q \in Parses /\ q.at = "bad"
      BY <3>1 DEF Parses, Ats
    <3>4. mode' = "BAD" /\ hold' = Tail(hold)
      BY <2>3, Zenon DEF Bad
    <3>5. SaysAt(q, mode', Text, hold', length', offset', last', flags')
      BY <3>3, <3>4, SayBad, Zenon
    <3> QED
      BY <1>1, <1>3, <3>2, <3>3, <3>4, <3>5, Zenon
  <2> QED
    BY <1>3, <2>1, <2>2, <2>3, Zenon DEF ReadHead
<1>7. mode' # "LENGTH"
  BY DEF ReadHead, Bad
<1> QED
  BY <1>1, <1>2, <1>6, <1>7, ReachedFollows, ItemDoneSilent, Zenon

LEMMA CatIsEmpty ==
    ASSUME NEW S, NEW a \in Seq(S), NEW b \in Seq(S), Cat(a, b) = << >>
    PROVE  a = << >> /\ b = << >>
<1>1. Len(Cat(a, b)) = Len(a) + Len(b) /\ Len(a) \in Nat /\ Len(b) \in Nat
  BY CatType, LenProperties
<1>2. Len(<< >>) = 0
  BY EmptySeq
<1>3. Len(Cat(a, b)) = 0
  BY <1>2, Zenon
<1>4. Len(a) = 0 /\ Len(b) = 0
  BY <1>1, <1>3
<1> QED
  BY <1>4, EmptySeq

\* Where inflate() is left, nothing else changes.
LEMMA NothingRead ==
    ASSUME OpenInv, UNCHANGED << input, buf, luabuf, mode, last, flags, length, offset, hold,
                                 history >>
    PROVE  Parsed' /\ (Stopped' <=> Stopped) /\ (Waiting' <=> Waiting) /\ Left' = Left
<1>1. Text' = Text /\ fed' = fed
  BY TextStays, Zenon
<1>2. Parsed'
  BY <1>1, Zenon DEF OpenInv, Parsed
<1>3. (Waiting' <=> Waiting) /\ (Stopped' <=> Stopped)
  BY Zenon DEF Waiting, Stopped
<1>4. Left' = Left
  BY DEF Left
<1> QED
  BY <1>2, <1>3, <1>4

LEMMA NeedDictText == ASSUME Inv, OpenInv, NeedDict PROVE OpenInv'
<1>1. /\ pc = "inflate" /\ mode = "DICT" /\ pc' = "called" /\ ret' = "NEED_DICT"
      /\ UNCHANGED << flush, input, buf, luabuf, mode, last, flags, length, offset, hold,
                      check, out0, history >>
  BY Zenon DEF NeedDict, In, InfReturn, io, code, progress
<1>2. Parsed' /\ (Stopped' <=> Stopped)
  BY <1>1, NothingRead, Zenon
<1>3. PICK p : SaysAt(p, mode, Text, hold, length, offset, last, flags)
  BY Zenon DEF OpenInv, Parsed
<1>4. Text = << >>
  BY <1>1, <1>3, Zenon DEF SaysAt
<1>5. check = << >>
  <2>1. out \in Seq(Nat) /\ luabuf \in Seq(Nat) /\ buf \in Seq(Nat)
    BY TypesNow, Zenon
  <2>2. PICK r \in Seq(Nat) : r = Cat(out, luabuf)
    BY <2>1, CatType
  <2>3. Cat(r, buf) = << >>
    BY <1>4, <2>2, Zenon DEF Text
  <2>4. r = << >> /\ buf = << >>
    BY <2>1, <2>3, CatIsEmpty
  <2>5. check = Cat(r, SubSeq(buf, 1, BufSize - out0))
    <3>1. pc \in { "inflate", "leave" } /\ mode # "MEM"
      BY <1>1
    <3> QED
      BY <2>2, <3>1, Zenon DEF OpenInv, Checked
  <2>6. BufSize - out0 = 0
    <3>1. /\ Left = BufSize - Len(buf) /\ out0 \in 0..BufSize /\ Left <= out0
      BY <1>1, TypesNow
    <3>2. Len(buf) = 0
      BY <2>4
    <3> QED
      BY <3>1, <3>2, Constants
  <2>7. SubSeq(buf, 1, 0) = << >>
    BY <2>4, SubSeqEmpty
  <2>8. Cat(<< >>, << >>) = << >>
    BY <2>1, <2>4, CatEmpty
  <2> QED
    BY <2>4, <2>5, <2>6, <2>7, <2>8, Zenon
<1>6. Checked'
  <2>1. Text' = << >> /\ check' = << >>
    BY <1>1, <1>4, <1>5, TextStays, Zenon
  <2>2. pc' \notin { "idle", "loop", "inflate", "leave" }
    BY <1>1
  <2> QED
    BY <2>1, <2>2, Zenon DEF Checked
<1>7. Outcome'
  <2>1. flush = "FINISH" => input = << >>
    BY <1>1, Zenon DEF OpenInv, Outcome
  <2>2. Stopped'
    BY <1>1, <1>2 DEF Stopped
  <2> QED
    BY <1>1, <2>1, <2>2 DEF Outcome
<1> QED
  BY <1>2, <1>6, <1>7, Zenon DEF OpenInv

LEMMA OverText == ASSUME Inv, OpenInv, Over PROVE OpenInv'
<1>1. /\ pc = "inflate"
      /\ \/ mode = "DONE" /\ pc' = "leave" /\ ret' = "STREAM_END"
         \/ mode = "BAD" /\ pc' = "leave" /\ ret' = "DATA_ERROR"
         \/ mode = "MEM" /\ pc' = "called" /\ ret' = "MEM_ERROR"
      /\ UNCHANGED << flush, input, buf, luabuf, mode, last, flags, length, offset, hold,
                      check, out0, history >>
  BY Zenon DEF Over, In, InfLeave, InfReturn, io, code, progress
<1>2. Parsed' /\ (Stopped' <=> Stopped)
  BY <1>1, NothingRead, Zenon
<1>3. Checked'
  <2>1. CASE mode = "MEM"
    <3>1. mode' = "MEM"
      BY <1>1, <2>1
    <3> QED
      BY <3>1, Zenon DEF Checked
  <2>2. CASE mode # "MEM"
    <3>1. pc' \in { "inflate", "leave" } /\ out' = out
      BY <1>1, <2>2 DEF history
    <3> QED
      BY <1>1, <2>2, <3>1, CheckedStays, Zenon DEF OpenInv
  <2> QED
    BY <2>1, <2>2
<1>4. Outcome'
  <2>1. flush = "FINISH" => input = << >>
    BY <1>1, Zenon DEF OpenInv, Outcome
  <2>2. Stopped'
    BY <1>1, <1>2 DEF Stopped
  <2> QED
    BY <1>1, <2>1, <2>2 DEF Outcome
<1> QED
  BY <1>2, <1>3, <1>4, Zenon DEF OpenInv

LEMMA LastBlockText == ASSUME Inv, OpenInv, LastBlock PROVE OpenInv'
<1>1. /\ pc = "inflate" /\ pc' = pc /\ mode = "TYPE" /\ last /\ mode' = "CHECK" /\ hold' = << >>
      /\ UNCHANGED << flush, input, buf, luabuf, last, flags, length, offset, check, out0,
                      history >>
  BY Zenon DEF LastBlock, In, io, code, progress
<1>2. ~Stopped /\ mode # "MEM" /\ mode # "BAD"
  BY <1>1, Busy
<1>3. PICK p \in Parses : /\ Reached(fed, hold, input, p)
                          /\ SaysAt(p, mode, Text, hold, length, offset, last, flags)
  BY <1>2, Zenon DEF OpenInv, Parsed, Follows
<1>4. p.text = Text /\ p.gzip = flags /\ p.at = "check" /\ hold = << >>
  BY <1>1, <1>3 DEF SaysAt, BlockEnd
<1>5. SaysAt(p, mode', Text, hold', length', offset', last', flags')
  BY <1>1, <1>4, SayCheck, Zenon
<1>6. Follows(fed, mode', hold', input', p)
  BY <1>1, <1>3, <1>4, ReachedFollows, Zenon
<1>7. mode' # "LENGTH"
  BY <1>1
<1> QED
  BY <1>1, <1>2, <1>5, <1>6, <1>7, ItemDoneSilent, Zenon

LEMMA ItemFields ==
    ASSUME NEW x \in GoodItems
    PROVE  /\ x.n \in Nat /\ x.last \in BOOLEAN /\ x.sum \in Seq(Nat)
           /\ x.k = "len" => x.n \in 1..FastOut
           /\ x.k = "dist" => x.n \in 1..WSize
BY DEF GoodItems, Items

LEMMA ParseFields ==
    ASSUME NEW p \in Parses
    PROVE  /\ p.at \in Ats /\ p.text \in Seq(Nat) /\ p.n \in Int /\ p.last \in BOOLEAN
           /\ p.gzip \in BOOLEAN
BY DEF Parses

LEMMA BlockEndIs ==
    ASSUME NEW b \in BOOLEAN
    PROVE  /\ BlockEnd(b) \in Ats /\ (BlockEnd(b) = "check" <=> b)
           /\ (b => BlockEnd(b) = "check") /\ (~b => BlockEnd(b) = "block")
BY DEF BlockEnd, Ats

LEMMA ReadBlockHeaderText == ASSUME Inv, OpenInv, ReadBlockHeader PROVE OpenInv'
<1>1. /\ pc = "inflate" /\ pc' = pc /\ mode = "TYPE" /\ ~last /\ hold # << >>
      /\ UNCHANGED << flush, input, buf, luabuf, check, out0, history >>
  BY Zenon DEF ReadBlockHeader, In, io, progress
<1>2. ~Stopped /\ mode # "MEM" /\ mode # "BAD"
  BY <1>1, Busy
<1>3. PICK p \in Parses, x \in GoodItems :
               /\ x = Head(hold)
               /\ SaysAt(p, mode, Text, hold, length, offset, last, flags)
               /\ Reached(fed, Tail(hold), input, ParseItem(p, x))
               /\ x.k \in EndsByte \/ ParseItem(p, x).at = "check" => Tail(hold) = << >>
  BY <1>1, <1>2, ItemHere
<1>4. p.text = Text /\ p.gzip = flags /\ p.at = "block"
  BY <1>1, <1>3 DEF SaysAt, BlockEnd
<1>5. x.n \in Nat /\ x.last \in BOOLEAN
  BY ItemFields
<1>6. \E q \in Parses : /\ Reached(fed, hold', input', q)
                        /\ SaysAt(q, mode', Text, hold', length', offset', last', flags')
  <2>1. CASE /\ x.k = "stored" /\ mode' = "COPY" /\ length' = x.n
             /\ last' = x.last /\ hold' = << >> /\ UNCHANGED << flags, offset >>
    <3>1. PICK a : a = IF x.n > 0 THEN "raw" ELSE BlockEnd(x.last)
      OBVIOUS
    <3>0. PICK n \in Int, la \in BOOLEAN : n = x.n /\ la = x.last
      BY <1>5
    <3>2. PICK q : q = [p EXCEPT !.at = a, !.n = n, !.last = la]
      OBVIOUS
    <3>3. q = ParseItem(p, x)
      BY <1>4, <2>1, <3>0, <3>1, <3>2, AtBlock, Zenon
    <3>4. a \in Ats
      BY <1>5, <3>1 DEF BlockEnd, Ats
    <3>5. q \in Parses /\ q.at = a /\ q.text = p.text /\ q.gzip = p.gzip /\ q.n = x.n
          /\ q.last = x.last
      <4>1. /\ q \in Parses
            /\ q.at = a /\ q.text = p.text /\ q.n = n /\ q.last = la /\ q.gzip = p.gzip
        <5>1. q.at = a /\ q.n = n /\ q.last = la
          BY <3>2 DEF Parses
        <5>2. q.text = p.text /\ q.gzip = p.gzip
          BY <3>2 DEF Parses
        <5>3. q \in Parses
          BY <3>2, <3>4 DEF Parses
        <5> QED
          BY <5>1, <5>2, <5>3
      <4> QED
        BY <3>0, <4>1, Zenon
    <3>6. x.k \in EndsByte
      BY <2>1 DEF EndsByte
    <3>7. SaysAt(q, "COPY", Text, << >>, x.n, offset', x.last, flags')
      BY <1>4, <2>1, <3>1, <3>5, SayCopy, Zenon
    <3> QED
      BY <1>1, <1>3, <2>1, <3>3, <3>5, <3>6, <3>7, Zenon
  <2>2. CASE /\ x.k = "codes" /\ mode' = "LEN" /\ last' = x.last /\ hold' = Tail(hold)
             /\ UNCHANGED << flags, length, offset >>
    <3>1. PICK q : q = [p EXCEPT !.at = "code", !.last = x.last]
      OBVIOUS
    <3>2. q = ParseItem(p, x)
      BY <1>4, <2>2, <3>1, AtBlock, Zenon
    <3>3. q \in Parses /\ q.at = "code" /\ q.text = p.text /\ q.gzip = p.gzip /\ q.last = x.last
      BY <1>5, <3>1 DEF Parses, Ats
    <3>4. SaysAt(q, "LEN", Text, hold', length', offset', last', flags')
      BY <1>4, <2>2, <3>3, SayLen, Zenon
    <3> QED
      BY <1>1, <1>3, <2>2, <3>2, <3>3, <3>4, Zenon
  <2>3. CASE x.k \notin { "stored", "codes" } /\ Bad
    <3>1. PICK q : q = [p EXCEPT !.at = "bad"]
      OBVIOUS
    <3>2. q = ParseItem(p, x)
      BY <1>4, <2>3, <3>1, AtBlock, Zenon
    <3>3. q \in Parses /\ q.at = "bad"
      BY <3>1 DEF Parses, Ats
    <3>4. mode' = "BAD" /\ hold' = Tail(hold)
      BY <2>3, Zenon DEF Bad
    <3>5. SaysAt(q, mode', Text, hold', length', offset', last', flags')
      BY <3>3, <3>4, SayBad, Zenon
    <3> QED
      BY <1>1, <1>3, <3>2, <3>3, <3>4, <3>5, Zenon
  <2> QED
    BY <1>3, <2>1, <2>2, <2>3, Zenon DEF ReadBlockHeader
<1>7. mode' # "LENGTH"
  BY DEF ReadBlockHeader, Bad
<1> QED
  BY <1>1, <1>2, <1>6, <1>7, ReachedFollows, ItemDoneSilent, Zenon

LEMMA ReadCodeText == ASSUME Inv, OpenInv, ReadCode PROVE OpenInv'
<1>1. /\ pc = "inflate" /\ pc' = pc /\ mode = "LEN" /\ hold # << >>
      /\ UNCHANGED << flush, input, buf, luabuf, last, flags, offset, check, out0, history >>
  BY Zenon DEF ReadCode, In, io, progress
<1>2. ~Stopped /\ mode # "MEM" /\ mode # "BAD"
  BY <1>1, Busy
<1>3. PICK p \in Parses, x \in GoodItems :
               /\ x = Head(hold)
               /\ SaysAt(p, mode, Text, hold, length, offset, last, flags)
               /\ Reached(fed, Tail(hold), input, ParseItem(p, x))
               /\ x.k \in EndsByte \/ ParseItem(p, x).at = "check" => Tail(hold) = << >>
  BY <1>1, <1>2, ItemHere
<1>4. p.text = Text /\ p.gzip = flags /\ p.last = last /\ p.at = "code"
  BY <1>1, <1>3, Zenon DEF SaysAt
<1>5. x.n \in Nat /\ p.text \in Seq(Nat) /\ last \in BOOLEAN
  BY ItemFields, ParseFields, TypesNow, Zenon
<1>6. \E q \in Parses : /\ Reached(fed, hold', input', q)
                        /\ SaysAt(q, mode', Text, hold', length', offset', last', flags')
  <2>1. CASE x.k = "lit" /\ mode' = "LIT" /\ length' = x.n /\ hold' = Tail(hold)
    <3>1. PICK t \in Seq(Nat) : t = Append(p.text, x.n)
      BY <1>5, AppendProperties
    <3>2. PICK q : q = [p EXCEPT !.text = t]
      OBVIOUS
    <3>3. q = ParseItem(p, x)
      BY <1>4, <2>1, <3>1, <3>2, AtCode, Zenon
    <3>4. q \in Parses /\ q.at = p.at /\ q.text = t /\ q.gzip = p.gzip /\ q.last = p.last
      BY <3>2 DEF Parses
    <3>5. SaysAt(q, "LIT", Text, hold', x.n, offset', last', flags')
      BY <1>1, <1>4, <3>1, <3>4, SayLit, Zenon
    <3> QED
      BY <1>1, <1>3, <2>1, <3>3, <3>4, <3>5, Zenon
  <2>2. CASE x.k = "len" /\ mode' = "DIST" /\ length' = x.n /\ hold' = Tail(hold)
    <3>0. PICK n \in Int : n = x.n
      BY <1>5
    <3>1. PICK q : q = [p EXCEPT !.at = "dist", !.n = n]
      OBVIOUS
    <3>2. q = ParseItem(p, x)
      BY <1>4, <2>2, <3>0, <3>1, AtCode, Zenon
    <3>3. /\ q \in Parses /\ q.at = "dist" /\ q.text = p.text /\ q.gzip = p.gzip
          /\ q.last = p.last /\ q.n = x.n
      <4>1. "dist" \in Ats
        BY DEF Ats
      <4>2. /\ q \in Parses /\ q.at = "dist" /\ q.text = p.text /\ q.n = n
            /\ q.last = p.last /\ q.gzip = p.gzip
        <5>1. q.at = "dist" /\ q.n = n
          BY <3>1 DEF Parses
        <5>2. q.text = p.text /\ q.gzip = p.gzip /\ q.last = p.last
          BY <3>1 DEF Parses
        <5>3. q \in Parses
          BY <3>1, <4>1 DEF Parses
        <5> QED
          BY <5>1, <5>2, <5>3
      <4> QED
        BY <3>0, <4>2, Zenon
    <3>4. SaysAt(q, "DIST", Text, hold', x.n, offset', last', flags')
      BY <1>1, <1>4, <3>3, SayDist, Zenon
    <3> QED
      BY <1>1, <1>3, <2>2, <3>2, <3>3, <3>4, Zenon
  <2>3. CASE x.k = "eob" /\ mode' = "TYPE" /\ hold' = Tail(hold) /\ UNCHANGED length
    <3>1. PICK a \in Ats : a = BlockEnd(p.last) /\ (a = "check" <=> last)
      BY <1>4, <1>5, BlockEndIs
    <3>2. PICK q : q = [p EXCEPT !.at = a]
      OBVIOUS
    <3>3. q = ParseItem(p, x)
      BY <1>4, <2>3, <3>1, <3>2, AtCode, Zenon
    <3>4. q \in Parses /\ q.at = a /\ q.text = p.text /\ q.gzip = p.gzip
      BY <3>2, Moves
    <3>5. last => hold' = << >>
      BY <1>3, <2>3, <3>1, <3>3, <3>4, Zenon
    <3>6. SaysAt(q, "TYPE", Text, hold', length', offset', last', flags')
      BY <1>1, <1>4, <3>1, <3>4, <3>5, SayType, Zenon
    <3> QED
      BY <1>1, <1>3, <2>3, <3>3, <3>4, <3>6, Zenon
  <2>4. CASE x.k \notin { "lit", "len", "eob" } /\ Bad
    <3>1. PICK q : q = [p EXCEPT !.at = "bad"]
      OBVIOUS
    <3>2. q = ParseItem(p, x)
      BY <1>4, <2>4, <3>1, AtCode, Zenon
    <3>3. q \in Parses /\ q.at = "bad"
      BY <3>1 DEF Parses, Ats
    <3>4. mode' = "BAD" /\ hold' = Tail(hold)
      BY <2>4, Zenon DEF Bad
    <3>5. SaysAt(q, mode', Text, hold', length', offset', last', flags')
      BY <3>3, <3>4, SayBad, Zenon
    <3> QED
      BY <1>1, <1>3, <3>2, <3>3, <3>4, <3>5, Zenon
  <2> QED
    BY <1>3, <2>1, <2>2, <2>3, <2>4, Zenon DEF ReadCode
<1>7. mode' # "LENGTH"
  BY DEF ReadCode, Bad
<1> QED
  BY <1>1, <1>2, <1>6, <1>7, ReachedFollows, ItemDoneSilent, Zenon

LEMMA ReadDistText == ASSUME Inv, OpenInv, ReadDist PROVE OpenInv'
<1>1. /\ pc = "inflate" /\ pc' = pc /\ mode = "DIST" /\ hold # << >>
      /\ UNCHANGED << flush, input, buf, luabuf, last, flags, length, check, out0, history >>
  BY Zenon DEF ReadDist, In, Bad, io, code, progress
<1>2. ~Stopped /\ mode # "MEM" /\ mode # "BAD"
  BY <1>1, Busy
<1>3. PICK p \in Parses, x \in GoodItems :
               /\ x = Head(hold)
               /\ SaysAt(p, mode, Text, hold, length, offset, last, flags)
               /\ Reached(fed, Tail(hold), input, ParseItem(p, x))
               /\ x.k \in EndsByte \/ ParseItem(p, x).at = "check" => Tail(hold) = << >>
  BY <1>1, <1>2, ItemHere
<1>4. p.text = Text /\ p.gzip = flags /\ p.last = last /\ p.at = "dist" /\ p.n = length
  BY <1>1, <1>3, Zenon DEF SaysAt
<1>5. p.text \in Seq(Nat) /\ length \in Nat
  BY ParseFields, TypesNow, Zenon
<1>6. \E q \in Parses : /\ Reached(fed, hold', input', q)
                        /\ SaysAt(q, mode', Text, hold', length', offset', last', flags')
  <2>1. CASE /\ x.k = "dist" /\ mode' = "MATCH" /\ offset' = x.n /\ hold' = Tail(hold)
    <3>1. PICK d \in Nat \ {0} : d = x.n
      <4>1. x.n \in 1..WSize
        BY <2>1, ItemFields
      <4> QED
        BY <4>1, Constants
    <3>2. CASE d <= Len(p.text)
      <4>1. PICK t \in Seq(Nat) : t = Cat(p.text, Repeat(p.text, p.n, d))
        <5>1. Repeat(p.text, p.n, d) \in Seq(Nat)
          BY <1>4, <1>5, <3>2, RepeatType
        <5> QED
          BY <1>5, <5>1, CatType
      <4>2. PICK q : q = [p EXCEPT !.at = "code", !.text = t]
        OBVIOUS
      <4>3. q = ParseItem(p, x)
        <5>1. t = p.text \o Repeat(p.text, p.n, x.n)
          BY <3>1, <4>1, Zenon DEF Cat
        <5> QED
          BY <1>4, <2>1, <3>1, <3>2, <4>2, <5>1, AtDist, Zenon
      <4>4. q \in Parses /\ q.at = "code" /\ q.text = t /\ q.gzip = p.gzip /\ q.last = p.last
        BY <4>2 DEF Parses, Ats
      <4>5. SaysAt(q, "MATCH", Text, hold', length', d, last', flags')
        <5>1. t = Cat(Text, Repeat(Text, length', d)) /\ d <= Len(Text)
          BY <1>1, <1>4, <3>2, <4>1, Zenon
        <5> QED
          BY <1>1, <1>4, <4>4, <5>1, SayMatch, Zenon
      <4> QED
        BY <1>1, <1>3, <2>1, <3>1, <4>3, <4>4, <4>5, Zenon
    <3>3. CASE ~(d <= Len(p.text))
      <4>1. PICK q : q = [p EXCEPT !.at = "bad"]
        OBVIOUS
      <4>2. q = ParseItem(p, x)
        BY <1>4, <2>1, <3>1, <3>3, <4>1, AtDist, Zenon
      <4>3. q \in Parses /\ q.at = "bad"
        BY <4>1 DEF Parses, Ats
      <4>4. SaysAt(q, "MATCH", Text, hold', length', d, last', flags')
        BY <1>4, <3>3, <4>3, SayMatch, Zenon
      <4> QED
        BY <1>1, <1>3, <2>1, <3>1, <4>2, <4>3, <4>4, Zenon
    <3> QED
      BY <3>2, <3>3
  <2>2. CASE x.k # "dist" /\ Bad
    <3>1. PICK q : q = [p EXCEPT !.at = "bad"]
      OBVIOUS
    <3>2. q = ParseItem(p, x)
      BY <1>4, <2>2, <3>1, AtDist, Zenon
    <3>3. q \in Parses /\ q.at = "bad"
      BY <3>1 DEF Parses, Ats
    <3>4. mode' = "BAD" /\ hold' = Tail(hold)
      BY <2>2, Zenon DEF Bad
    <3>5. SaysAt(q, mode', Text, hold', length', offset', last', flags')
      BY <3>3, <3>4, SayBad, Zenon
    <3> QED
      BY <1>1, <1>3, <3>2, <3>3, <3>4, <3>5, Zenon
  <2> QED
    BY <1>3, <2>1, <2>2, Zenon DEF ReadDist
<1>7. mode' # "LENGTH"
  BY DEF ReadDist, Bad
<1> QED
  BY <1>1, <1>2, <1>6, <1>7, ReachedFollows, ItemDoneSilent, Zenon

\* The check value of what was put out, and of what it does not cover yet, is that of the text.
LEMMA CheckCatchesUp ==
    ASSUME Inv, Checked, mode # "MEM", pc \in { "inflate", "leave" }
    PROVE  check \o Unchecked = Text
<1>1. /\ out \in Seq(Nat) /\ luabuf \in Seq(Nat) /\ buf \in Seq(Nat) /\ Len(buf) \in Nat
      /\ Left = BufSize - Len(buf) /\ out0 \in 0..BufSize /\ Left <= out0
  BY TypesNow
<1>2. PICK r \in Seq(Nat) : r = Cat(out, luabuf)
  BY <1>1, CatType
<1>3. PICK k \in 0..Len(buf) : k = BufSize - out0
  <2>1. BufSize - out0 \in 0..Len(buf)
    BY <1>1, Constants
  <2> QED
    BY <2>1
<1>4. check = Cat(r, SubSeq(buf, 1, k))
  BY <1>2, <1>3, Zenon DEF Checked
<1>5. Unchecked = SubSeq(buf, k + 1, Len(buf))
  <2>1. Len(buf) - (out0 - Left) + 1 = k + 1
    BY <1>1, <1>3, Constants
  <2> QED
    BY <2>1, Zenon DEF Unchecked
<1>6. PICK a \in Seq(Nat), b \in Seq(Nat) :
          a = SubSeq(buf, 1, k) /\ b = SubSeq(buf, k + 1, Len(buf)) /\ buf = Cat(a, b)
  <2>1. PICK n \in 0..Len(buf) : n = k
    OBVIOUS
  <2>2. SubSeq(buf, 1, n) \o SubSeq(buf, n + 1, Len(buf)) = buf
    BY <1>1, CutInTwo
  <2>3. SubSeq(buf, 1, n) \in Seq(Nat) /\ SubSeq(buf, n + 1, Len(buf)) \in Seq(Nat)
    BY <1>1, CutInTwo
  <2> QED
    BY <2>1, <2>2, <2>3, Zenon DEF Cat
<1>7. Cat(Cat(r, a), b) = Cat(r, buf)
  <2>1. Cat(Cat(r, a), b) = Cat(r, Cat(a, b))
    BY CatAssoc
  <2> QED
    BY <1>6, <2>1, Zenon
<1>8. check \o Unchecked = Cat(Cat(r, a), b)
  BY <1>4, <1>5, <1>6, Zenon DEF Cat
<1> QED
  BY <1>2, <1>7, <1>8, Zenon DEF Text

LEMMA CheckTextText == ASSUME Inv, OpenInv, CheckText PROVE OpenInv'
<1>1. /\ pc = "inflate" /\ pc' = pc /\ mode = "CHECK" /\ hold # << >> /\ hold' = << >>
      /\ check' = check \o Unchecked /\ out0' = Left
      /\ mode' = IF Head(hold).k = "check" /\ Head(hold).sum = check' THEN "LENGTH" ELSE "BAD"
      /\ UNCHANGED << flush, input, buf, luabuf, last, flags, length, offset, history >>
  BY Zenon DEF CheckText, In, io, code
<1>2. ~Stopped /\ mode # "MEM" /\ mode # "BAD"
  BY <1>1, Busy
<1>3. PICK p \in Parses, x \in GoodItems :
               /\ x = Head(hold)
               /\ SaysAt(p, mode, Text, hold, length, offset, last, flags)
               /\ Reached(fed, Tail(hold), input, ParseItem(p, x))
               /\ x.k \in EndsByte \/ ParseItem(p, x).at = "check" => Tail(hold) = << >>
  BY <1>1, <1>2, ItemHere
<1>4. p.text = Text /\ p.gzip = flags /\ p.at = "check"
  BY <1>1, <1>3, Zenon DEF SaysAt
<1>5. check' = Text
  <2>1. pc \in { "inflate", "leave" }
    BY <1>1
  <2> QED
    BY <1>1, <1>2, <2>1, CheckCatchesUp, Zenon DEF OpenInv
<1>6. Text' = Text /\ fed' = fed /\ out' = out
  BY <1>1, TextStays, Zenon
<1>7. \E q \in Parses : /\ Follows(fed, mode', hold', input', q)
                        /\ SaysAt(q, mode', Text, hold', length', offset', last', flags')
  <2>1. CASE x.k = "check" /\ x.sum = p.text
    <3>1. PICK a : a = IF p.gzip THEN "length" ELSE "end"
      OBVIOUS
    <3>2. PICK q : q = [p EXCEPT !.at = a]
      OBVIOUS
    <3>3. q = ParseItem(p, x)
      BY <1>4, <2>1, <3>1, <3>2, AtCheck, Zenon
    <3>4. a \in Ats
      BY <3>1 DEF Ats
    <3>5. q \in Parses /\ q.at = a /\ q.text = p.text
      BY <3>2, <3>4, Moves
    <3>6. x.k \in EndsByte
      BY <2>1 DEF EndsByte
    <3>7. mode' = "LENGTH"
      BY <1>1, <1>3, <1>4, <1>5, <2>1, Zenon
    <3>8. SaysAt(q, "LENGTH", Text, << >>, length', offset', last', flags')
      BY <1>1, <1>4, <3>1, <3>5, SayLength, Zenon
    <3> QED
      BY <1>1, <1>3, <3>3, <3>5, <3>6, <3>7, <3>8, ReachedFollows, Zenon
  <2>2. CASE ~(x.k = "check" /\ x.sum = p.text)
    <3>1. PICK q : q = [p EXCEPT !.at = "bad"]
      OBVIOUS
    <3>2. q = ParseItem(p, x)
      BY <1>4, <2>2, <3>1, AtCheck, Zenon
    <3>3. q \in Parses /\ q.at = "bad"
      BY <3>1 DEF Parses, Ats
    <3>4. mode' = "BAD"
      BY <1>1, <1>3, <1>4, <1>5, <2>2, Zenon
    <3>5. SaysAt(q, mode', Text, hold', length', offset', last', flags')
      BY <3>3, <3>4, SayBad, Zenon
    <3>6. Follows(fed, mode', hold', input', q)
      BY <1>1, <1>3, <3>2, <3>4, Zenon DEF Follows
    <3> QED
      BY <3>3, <3>5, <3>6, Zenon
  <2> QED
    BY <2>1, <2>2
<1>8. Parsed'
  BY <1>6, <1>7, Zenon DEF Parsed
<1>9. Checked'
  <2>1. BufSize - Left = Len(buf) /\ buf \in Seq(Nat)
    BY TypesNow, Constants
  <2>2. SubSeq(buf, 1, BufSize - Left) = buf
    BY <2>1, SubSeqFull
  <2>3. check' = Cat(Cat(out', luabuf'), SubSeq(buf', 1, BufSize - out0'))
    BY <1>1, <1>5, <1>6, <2>2, Zenon DEF Text
  <2>4. pc' \notin { "idle", "loop" } /\ pc' # "called"
    BY <1>1
  <2> QED
    BY <1>5, <1>6, <2>3, <2>4, Zenon DEF Checked
<1>10. Outcome'
  BY <1>1, <1>2, OutcomeInside, TypesNow, Zenon DEF OpenInv
<1> QED
  BY <1>8, <1>9, <1>10, Zenon DEF OpenInv

LEMMA CheckLengthText == ASSUME Inv, OpenInv, CheckLength PROVE OpenInv'
<1>1. /\ pc = "inflate" /\ pc' = pc /\ mode = "LENGTH"
      /\ UNCHANGED << flush, input, buf, luabuf, last, flags, length, offset, check, out0,
                      history >>
      /\ \/ ~flags /\ mode' = "DONE" /\ UNCHANGED hold
         \/ /\ flags /\ hold # << >> /\ hold' = << >>
            /\ mode' = IF Head(hold).k = "length" /\ Head(hold).n = Len(check)
                       THEN "DONE" ELSE "BAD"
  BY Zenon DEF CheckLength, In, io, code, progress
<1>2. ~Stopped /\ mode # "MEM" /\ mode # "BAD"
  BY <1>1, Busy
<1>3. \E q \in Parses : /\ Follows(fed, mode', hold', input', q)
                        /\ SaysAt(q, mode', Text, hold', length', offset', last', flags')
  <2>1. CASE ~flags /\ mode' = "DONE" /\ UNCHANGED hold
    <3>1. PICK p \in Parses : /\ Reached(fed, hold, input, p)
                              /\ SaysAt(p, mode, Text, hold, length, offset, last, flags)
      BY <1>2, Zenon DEF OpenInv, Parsed, Follows
    <3>2. p.text = Text /\ p.at = "end" /\ hold = << >>
      BY <1>1, <2>1, <3>1, Zenon DEF SaysAt
    <3>3. SaysAt(p, "DONE", Text, << >>, length', offset', last', flags')
      BY <3>2, SayDone, Zenon
    <3> QED
      BY <1>1, <2>1, <3>1, <3>2, <3>3, ReachedFollows, Zenon
  <2>2. CASE /\ flags /\ hold # << >> /\ hold' = << >>
             /\ mode' = IF Head(hold).k = "length" /\ Head(hold).n = Len(check)
                        THEN "DONE" ELSE "BAD"
    <3>1. PICK p \in Parses, x \in GoodItems :
               /\ x = Head(hold)
               /\ SaysAt(p, mode, Text, hold, length, offset, last, flags)
               /\ Reached(fed, Tail(hold), input, ParseItem(p, x))
               /\ x.k \in EndsByte \/ ParseItem(p, x).at = "check" => Tail(hold) = << >>
      BY <1>1, <1>2, <2>2, ItemHere
    <3>2. p.text = Text /\ p.at = "length"
      BY <1>1, <2>2, <3>1, Zenon DEF SaysAt
    <3>3. check = Text
      <4>1. pc \in { "inflate", "leave" }
        BY <1>1
      <4> QED
        BY <1>1, <1>2, <4>1, Zenon DEF OpenInv, Checked
    <3>4. CASE x.k = "length" /\ x.n = Len(p.text)
      <4>1. PICK q : q = [p EXCEPT !.at = "end"]
        OBVIOUS
      <4>2. q = ParseItem(p, x)
        BY <3>2, <3>4, <4>1, AtLength, Zenon
      <4>3. q \in Parses /\ q.at = "end" /\ q.text = p.text
        BY <4>1 DEF Parses, Ats
      <4>4. x.k \in EndsByte
        BY <3>4 DEF EndsByte
      <4>5. mode' = "DONE"
        BY <2>2, <3>1, <3>2, <3>3, <3>4, Zenon
      <4>6. SaysAt(q, "DONE", Text, << >>, length', offset', last', flags')
        BY <3>2, <4>3, SayDone, Zenon
      <4> QED
        BY <1>1, <2>2, <3>1, <4>2, <4>3, <4>4, <4>5, <4>6, ReachedFollows, Zenon
    <3>5. CASE ~(x.k = "length" /\ x.n = Len(p.text))
      <4>1. PICK q : q = [p EXCEPT !.at = "bad"]
        OBVIOUS
      <4>2. q = ParseItem(p, x)
        BY <3>2, <3>5, <4>1, AtLength, Zenon
      <4>3. q \in Parses /\ q.at = "bad"
        BY <4>1 DEF Parses, Ats
      <4>4. mode' = "BAD"
        BY <2>2, <3>1, <3>2, <3>3, <3>5, Zenon
      <4>5. SaysAt(q, mode', Text, hold', length', offset', last', flags')
        BY <4>3, <4>4, SayBad, Zenon
      <4>6. Follows(fed, mode', hold', input', q)
        BY <1>1, <3>1, <4>2, <4>4, Zenon DEF Follows
      <4> QED
        BY <4>3, <4>5, <4>6, Zenon
    <3> QED
      BY <3>4, <3>5
  <2> QED
    BY <1>1, <2>1, <2>2
<1>4. mode' # "LENGTH"
  BY <1>1
<1> QED
  BY <1>1, <1>2, <1>3, <1>4, ItemDoneSilent, Zenon

\* No room: the decoder is left as it is.
LEMMA NoRoomText ==
    ASSUME Inv, OpenInv, pc = "inflate", pc' = "leave", ret' = "OK", Left = 0,
           mode \in { "COPY", "MATCH", "LIT" }, ~(input = << >> /\ Stopped),
           UNCHANGED << flush, input, buf, luabuf, mode, last, flags, length, offset, hold, check,
                        out0, history >>
    PROVE  OpenInv'
<1>1. Parsed' /\ (Stopped' <=> Stopped) /\ Left' = Left
  BY NothingRead, Zenon
<1>2. Checked'
  <2>1. pc' \in { "inflate", "leave" } /\ mode # "MEM"
    OBVIOUS
  <2>2. out' = out
    BY Zenon DEF history
  <2> QED
    BY <2>1, <2>2, CheckedStays, Zenon DEF OpenInv
<1>3. Outcome'
  <2>1. flush # "FINISH"
    BY DEF OpenInv, Outcome
  <2> QED
    BY <1>1, <2>1 DEF Outcome
<1> QED
  BY <1>1, <1>2, <1>3, Zenon DEF OpenInv

LEMMA AppendIsCat ==
    ASSUME NEW S, NEW a \in Seq(S), NEW x \in S
    PROVE  \E t \in Seq(S) : t = << x >> /\ Append(a, x) = Cat(a, t)
<1>1. << x >> \in Seq(S)
  OBVIOUS
<1>2. Append(a, x) = a \o << x >>
  BY AppendIsConcat
<1> QED
  BY <1>1, <1>2, Zenon DEF Cat

LEMMA TextType == ASSUME Inv PROVE Text \in Seq(Nat)
<1>1. out \in Seq(Nat) /\ luabuf \in Seq(Nat) /\ buf \in Seq(Nat)
  BY TypesNow, Zenon
<1>2. PICK r \in Seq(Nat) : r = Cat(out, luabuf)
  BY <1>1, CatType
<1>3. Cat(r, buf) \in Seq(Nat)
  BY <1>1, CatType
<1> QED
  BY <1>2, <1>3, Zenon DEF Text

LEMMA LiteralText == ASSUME Inv, OpenInv, Literal PROVE OpenInv'
<1>1. /\ pc = "inflate" /\ mode = "LIT"
      /\ UNCHANGED << flush, input, luabuf, last, flags, length, offset, hold, check, out0,
                      history >>
      /\ \/ Left = 0 /\ pc' = "leave" /\ ret' = "OK" /\ mode' = mode /\ buf' = buf
         \/ pc' = pc /\ mode' = "LEN" /\ Left > 0 /\ buf' = Append(buf, length)
  BY Zenon DEF Literal, In, InfLeave, code, progress
<1>2. ~Stopped /\ mode # "MEM" /\ mode # "BAD"
  BY <1>1, Busy
<1>3. CASE Left = 0 /\ pc' = "leave" /\ ret' = "OK" /\ mode' = mode /\ buf' = buf
  <2>1. mode \in { "COPY", "MATCH", "LIT" }
    BY <1>1
  <2> QED
    BY <1>1, <1>2, <1>3, <2>1, NoRoomText, Zenon
<1>4. CASE pc' = pc /\ mode' = "LEN" /\ Left > 0 /\ buf' = Append(buf, length)
  <2>1. PICK p \in Parses : /\ Reached(fed, hold, input, p)
                            /\ SaysAt(p, mode, Text, hold, length, offset, last, flags)
    BY <1>2, Zenon DEF OpenInv, Parsed, Follows
  <2>2. p.text = Append(Text, length) /\ p.gzip = flags /\ p.last = last /\ p.at = "code"
    BY <1>1, <2>1, Zenon DEF SaysAt
  <2>3. Text \in Seq(Nat) /\ buf \in Seq(Nat) /\ length \in Nat
    BY TextType, TypesNow, Zenon
  <2>4. PICK t \in Seq(Nat) : buf' = Cat(buf, t) /\ p.text = Cat(Text, t)
    <3>1. PICK t \in Seq(Nat) : t = << length >> /\ Append(buf, length) = Cat(buf, t)
      BY <2>3, AppendIsCat
    <3>2. PICK u \in Seq(Nat) : u = << length >> /\ Append(Text, length) = Cat(Text, u)
      BY <2>3, AppendIsCat
    <3> QED
      BY <1>4, <2>2, <3>1, <3>2, Zenon
  <2>5. SaysAt(p, "LEN", Cat(Text, t), hold', length', offset', last', flags')
    BY <1>1, <2>2, <2>4, SayLen, Zenon
  <2>6. Follows(fed, mode', hold', input', p)
    BY <1>1, <2>1, ReachedFollows, Zenon
  <2>7. mode' # "LENGTH" /\ pc' = "inflate"
    BY <1>1, <1>4
  <2> QED
    BY <1>1, <1>2, <1>4, <2>4, <2>5, <2>6, <2>7, ItemDone, Zenon
<1> QED
  BY <1>1, <1>3, <1>4, Zenon

\* The window holds the end of what the calls before this one of inflate() put out.
LEMMA WindowNow ==
    ASSUME Inv, stage = "open", mode \in Before, pc = "inflate"
    PROVE  \E t \in Seq(Nat) : /\ Text = Cat(t, buf) /\ HoldsEnd(window, wnext, whave, t)
                               /\ Len(Text) = Len(t) + Len(buf) /\ Text \in Seq(Nat)
<1>1. out \in Seq(Nat) /\ luabuf \in Seq(Nat) /\ buf \in Seq(Nat)
  BY TypesNow, Zenon
<1>2. PICK t \in Seq(Nat) : t = Cat(out, luabuf)
  BY <1>1, CatType
<1>3. pc \in { "idle", "loop", "inflate", "leave" }
  OBVIOUS
<1>4. HoldsEnd(window, wnext, whave, out \o luabuf)
  BY <1>3, Zenon DEF Inv, WindowFollows
<1>5. HoldsEnd(window, wnext, whave, t)
  BY <1>2, <1>4, Zenon DEF Cat
<1>6. Text = Cat(t, buf)
  BY <1>2, Zenon DEF Text
<1>7. Len(Cat(t, buf)) = Len(t) + Len(buf) /\ Cat(t, buf) \in Seq(Nat)
  BY <1>1, CatType
<1> QED
  BY <1>5, <1>6, <1>7, Zenon

\* A distance is too far for the window exactly if it is too far for the text.
LEMMA TooFar ==
    ASSUME Inv, NEW t \in Seq(Nat), HoldsEnd(window, wnext, whave, t), NEW d \in 1..WSize
    PROVE  InWindow(d) > whave <=> ~(d <= Len(t) + Len(buf))
<1>1. Len(t) \in Nat /\ Len(buf) \in Nat /\ WSize \in Nat
  BY LenProperties, TypesNow, Constants
<1>2. whave = IF WSize < Len(t) THEN WSize ELSE Len(t)
  BY Zenon DEF HoldsEnd, Smaller
<1>3. InWindow(d) = d - Len(buf)
  BY DEF InWindow
<1> QED
  BY <1>1, <1>2, <1>3

LEMMA RepeatNothing ==
    ASSUME NEW t \in Seq(Nat), NEW d \in 1..Len(t)
    PROVE  Repeat(t, 0, d) = << >>
<1>1. Repeat(t, 0, d) \in Seq(Nat) /\ Len(Repeat(t, 0, d)) = 0
  BY RepeatIs
<1> QED
  BY <1>1, EmptySeq

\* What is left of a match continues behind what has been copied of it.
LEMMA MatchGoesOn ==
    ASSUME NEW T \in Seq(Nat), NEW d \in 1..Len(T), NEW n \in Nat, NEW m \in 0..n,
           NEW s \in Seq(Nat), s = Repeat(T, m, d)
    PROVE  /\ Len(s) = m /\ Cat(T, s) \in Seq(Nat) /\ d \in 1..Len(Cat(T, s))
           /\ Cat(T, Repeat(T, n, d)) = Cat(Cat(T, s), Repeat(Cat(T, s), n - m, d))
           /\ n = m => Cat(T, Repeat(T, n, d)) = Cat(T, s)
<1>1. s \in Seq(Nat) /\ Len(s) = m
  BY RepeatIs
<1>2. PICK u \in Seq(Nat) : u = Cat(T, s) /\ Len(u) = Len(T) + m
  <2>1. Cat(T, s) \in Seq(Nat) /\ Len(Cat(T, s)) = Len(T) + Len(s)
    BY <1>1, CatType
  <2> QED
    BY <1>1, <2>1, Zenon
<1>3. d \in 1..Len(u)
  BY <1>2, LenProperties
<1>4. PICK k \in Nat : k = n - m
  OBVIOUS
<1>5. m + k = n /\ m \in Nat
  BY <1>4
<1>6. PICK r \in Seq(Nat) : r = Repeat(u, k, d)
  BY <1>3, RepeatIs
<1>7. Repeat(T, m + k, d) = Cat(Repeat(T, m, d), Repeat(Cat(T, Repeat(T, m, d)), k, d))
  BY <1>5, RepeatSplit
<1>8. Repeat(T, n, d) = Cat(s, r)
  BY <1>2, <1>5, <1>6, <1>7, Zenon
<1>9. Cat(T, Cat(s, r)) = Cat(u, r)
  <2>1. Cat(Cat(T, s), r) = Cat(T, Cat(s, r))
    BY <1>1, CatAssoc
  <2> QED
    BY <1>2, <2>1, Zenon
<1> QED
  BY <1>1, <1>2, <1>3, <1>4, <1>6, <1>8, <1>9, Zenon

LEMMA MatchText == ASSUME Inv, OpenInv, stage = "open", Match PROVE OpenInv'
<1>1. /\ pc = "inflate" /\ mode = "MATCH"
      /\ UNCHANGED << flush, input, luabuf, last, flags, offset, hold, check, out0, history >>
  BY Zenon DEF Match, In, progress
<1>2. \/ Left = 0 /\ pc' = "leave" /\ ret' = "OK" /\ mode' = mode /\ buf' = buf /\ length' = length
      \/ /\ InWindow(offset) > whave
         /\ mode' = "BAD" /\ pc' = pc /\ buf' = buf /\ length' = length
      \/ /\ InWindow(offset) <= whave /\ pc' = pc
         /\ buf' = buf \o CopyMatch(Left) /\ length' = length - Len(CopyMatch(Left))
         /\ mode' = IF Len(CopyMatch(Left)) = length THEN "LEN" ELSE mode
  BY Zenon DEF Match, InfLeave
<1>3. ~Stopped /\ mode # "MEM" /\ mode # "BAD"
  BY <1>1, Busy
<1>4. offset \in 1..WSize /\ length \in Nat
  BY <1>1, TypesNow, Zenon
<1>5. PICK t \in Seq(Nat) : /\ Text = Cat(t, buf) /\ HoldsEnd(window, wnext, whave, t)
                            /\ Len(Text) = Len(t) + Len(buf) /\ Text \in Seq(Nat)
  <2>1. mode \in Before
    BY <1>1 DEF Before
  <2> QED
    BY <1>1, <2>1, WindowNow
<1>6. InWindow(offset) > whave <=> ~(offset <= Len(Text))
  <2>1. InWindow(offset) > whave <=> ~(offset <= Len(t) + Len(buf))
    BY <1>4, <1>5, TooFar
  <2> QED
    BY <1>5, <2>1
<1>7. PICK p \in Parses : /\ Reached(fed, hold, input, p)
                          /\ SaysAt(p, mode, Text, hold, length, offset, last, flags)
  BY <1>3, Zenon DEF OpenInv, Parsed, Follows
<1>8. IF offset <= Len(Text)
      THEN /\ p.text = Cat(Text, Repeat(Text, length, offset))
           /\ p.gzip = flags /\ p.last = last /\ p.at = "code"
      ELSE p.at = "bad"
  BY <1>1, <1>7, Zenon DEF SaysAt
<1>9. CASE Left = 0 /\ pc' = "leave" /\ ret' = "OK" /\ mode' = mode /\ buf' = buf
           /\ length' = length
  <2>1. mode \in { "COPY", "MATCH", "LIT" }
    BY <1>1
  <2> QED
    BY <1>1, <1>3, <1>9, <2>1, NoRoomText, Zenon
<1>10. CASE /\ InWindow(offset) > whave
            /\ mode' = "BAD" /\ pc' = pc /\ buf' = buf /\ length' = length
  <2>1. p.at = "bad"
    BY <1>6, <1>8, <1>10, Zenon
  <2>2. SaysAt(p, mode', Text, hold', length', offset', last', flags')
    BY <1>10, <2>1, SayBad, Zenon
  <2>3. Follows(fed, mode', hold', input', p)
    BY <1>7, <1>10, Zenon DEF Follows
  <2>4. mode' # "LENGTH"
    BY <1>10
  <2> QED
    BY <1>1, <1>3, <1>10, <2>2, <2>3, <2>4, ItemDoneSilent, Zenon
<1>11. CASE /\ InWindow(offset) <= whave /\ pc' = pc
            /\ buf' = buf \o CopyMatch(Left) /\ length' = length - Len(CopyMatch(Left))
            /\ mode' = IF Len(CopyMatch(Left)) = length THEN "LEN" ELSE mode
  <2>1. offset <= Len(Text)
    <3>1. ~(InWindow(offset) > whave)
      <4>1. InWindow(offset) \in Int /\ whave \in Int
        <5>1. Len(buf) \in Nat /\ whave \in 0..wsize /\ wsize \in { 0, WSize }
          BY TypesNow, Zenon
        <5> QED
          BY <1>4, <5>1, Constants DEF InWindow
      <4> QED
        BY <1>11, <4>1
    <3> QED
      BY <1>6, <3>1, Zenon
  <2>2. PICK m \in 0..length : /\ CopyMatch(Left) = Repeat(Cat(t, buf), m, offset)
                               /\ Len(CopyMatch(Left)) = m
    BY <1>4, <1>5, <1>11, CopyMatchIs, Zenon DEF Inv
  <2>3. PICK s : s = CopyMatch(Left)
    OBVIOUS
  <2>4. s = Repeat(Text, m, offset)
    BY <1>5, <2>2, <2>3, Zenon
  <2>30. offset \in 1..Len(Text)
    BY <1>4, <1>5, <2>1, LenProperties
  <2>21. PICK T \in Seq(Nat) : T = Text
    BY <1>5
  <2>22. PICK d \in 1..Len(T) : d = offset
    BY <2>30, <2>21, Zenon
  <2>23. PICK n \in Nat : n = length
    BY <1>4
  <2>5. T = Text /\ d = offset /\ n = length
    BY <2>21, <2>22, <2>23
  <2>6. PICK k \in 0..n : k = m
    BY <2>5
  <2>24. s \in Seq(Nat)
    <3>1. s = Repeat(T, k, d) /\ k \in Nat
      BY <2>4, <2>5, <2>6
    <3> QED
      BY <3>1, RepeatIs
  <2>7. /\ Len(s) = k /\ Cat(T, s) \in Seq(Nat) /\ d \in 1..Len(Cat(T, s))
        /\ Cat(T, Repeat(T, n, d)) = Cat(Cat(T, s), Repeat(Cat(T, s), n - k, d))
        /\ n = k => Cat(T, Repeat(T, n, d)) = Cat(T, s)
    <3>1. s = Repeat(T, k, d)
      BY <2>4, <2>5, <2>6, Zenon
    <3> QED
      BY <2>24, <3>1, MatchGoesOn
  <2>8. buf' = Cat(buf, s)
    BY <1>11, <2>3, Zenon DEF Cat
  <2>9. length' = n - k /\ mode' = IF k = n THEN "LEN" ELSE mode
    BY <1>11, <2>2, <2>5, <2>6, Zenon
  <2>10. /\ p.text = Cat(T, Repeat(T, n, d))
         /\ p.gzip = flags /\ p.last = last /\ p.at = "code"
    BY <1>8, <2>1, <2>5, Zenon
  <2>11. SaysAt(p, mode', Cat(Text, s), hold', length', offset', last', flags')
    <3>1. CASE k = n
      <4>1. mode' = "LEN" /\ p.text = Cat(T, s)
        BY <2>7, <2>9, <2>10, <3>1, Zenon
      <4> QED
        BY <1>1, <2>5, <2>10, <4>1, SayLen, Zenon
    <3>2. CASE k # n
      <4>1. mode' = "MATCH" /\ d <= Len(Cat(T, s))
        BY <1>1, <2>7, <2>9, <3>2
      <4>2. p.text = Cat(Cat(T, s), Repeat(Cat(T, s), n - k, d))
        BY <2>7, <2>10, Zenon
      <4>3. SaysAt(p, "MATCH", Cat(T, s), hold', n - k, d, last', flags')
        BY <1>1, <2>10, <4>1, <4>2, SayMatch, Zenon
      <4> QED
        BY <1>1, <2>5, <2>9, <4>1, <4>3, Zenon
    <3> QED
      BY <3>1, <3>2
  <2>12. Follows(fed, mode', hold', input', p)
    BY <1>1, <1>7, ReachedFollows, Zenon
  <2>13. mode' # "LENGTH" /\ pc' = "inflate"
    BY <1>1, <1>11
  <2> QED
    BY <1>1, <1>3, <2>24, <2>8, <2>11, <2>12, <2>13, ItemDone, Zenon
<1> QED
  BY <1>2, <1>9, <1>10, <1>11

-----------------------------------------------------------------------------
(* inflate_fast and the parser.                                            *)

LEMMA AfterLength ==
    ASSUME NEW p \in Parses, NEW x \in GoodItems, p.at = "code", x.k = "len"
    PROVE  \E q \in Parses : /\ q = ParseItem(p, x) /\ q.at = "dist" /\ q.text = p.text
                             /\ q.n = x.n /\ q.last = p.last /\ q.gzip = p.gzip
<1>0. PICK n \in Int : n = x.n
  BY ItemFields
<1>1. PICK q : q = [p EXCEPT !.at = "dist", !.n = n]
  OBVIOUS
<1>2. q = ParseItem(p, x)
  BY <1>0, <1>1, AtCode, Zenon
<1>3. "dist" \in Ats
  BY DEF Ats
<1>4. q.at = "dist" /\ q.n = n
  BY <1>1 DEF Parses
<1>5. q.text = p.text /\ q.gzip = p.gzip /\ q.last = p.last
  BY <1>1 DEF Parses
<1>6. q \in Parses
  BY <1>1, <1>3 DEF Parses
<1> QED
  BY <1>0, <1>2, <1>4, <1>5, <1>6, Zenon

LEMMA AfterDistance ==
    ASSUME NEW p \in Parses, NEW x \in GoodItems, p.at = "dist", p.n \in Nat, x.k = "dist",
           x.n <= Len(p.text)
    PROVE  \E q \in Parses, t \in Seq(Nat) :
               /\ q = ParseItem(p, x) /\ q.at = "code"
               /\ t = Repeat(p.text, p.n, x.n) /\ q.text = Cat(p.text, t)
               /\ q.last = p.last /\ q.gzip = p.gzip
<1>1. p.text \in Seq(Nat)
  BY ParseFields
<1>2. PICK d \in Nat \ {0} : d = x.n
  <2>1. x.n \in 1..WSize
    BY ItemFields
  <2> QED
    BY <2>1, Constants
<1>3. PICK t \in Seq(Nat) : t = Repeat(p.text, p.n, d)
  BY <1>1, <1>2, RepeatType
<1>4. PICK u \in Seq(Nat) : u = Cat(p.text, t)
  BY <1>1, CatType
<1>5. PICK q : q = [p EXCEPT !.at = "code", !.text = u]
  OBVIOUS
<1>6. q = ParseItem(p, x)
  <2>1. u = p.text \o Repeat(p.text, p.n, x.n)
    BY <1>2, <1>3, <1>4, Zenon DEF Cat
  <2> QED
    BY <1>5, <2>1, AtDist, Zenon
<1>7. q \in Parses /\ q.at = "code" /\ q.text = u /\ q.gzip = p.gzip /\ q.last = p.last
  BY <1>5 DEF Parses, Ats
<1> QED
  BY <1>2, <1>3, <1>4, <1>6, <1>7, Zenon

LEMMA AfterLiteral ==
    ASSUME NEW p \in Parses, NEW x \in GoodItems, p.at = "code", x.k = "lit"
    PROVE  \E q \in Parses : /\ q = ParseItem(p, x) /\ q.at = "code"
                             /\ q.text = Append(p.text, x.n)
                             /\ q.last = p.last /\ q.gzip = p.gzip
<1>1. PICK t \in Seq(Nat) : t = Append(p.text, x.n)
  BY ItemFields, ParseFields, AppendProperties
<1>2. PICK q : q = [p EXCEPT !.text = t]
  OBVIOUS
<1>3. q = ParseItem(p, x)
  BY <1>1, <1>2, AtCode, Zenon
<1>4. q \in Parses /\ q.at = p.at /\ q.text = t /\ q.gzip = p.gzip /\ q.last = p.last
  BY <1>2 DEF Parses
<1> QED
  BY <1>1, <1>3, <1>4, Zenon

LEMMA AfterBlock ==
    ASSUME NEW p \in Parses, NEW x \in GoodItems, p.at = "code", x.k = "eob"
    PROVE  \E q \in Parses : /\ q = ParseItem(p, x) /\ q.at = BlockEnd(p.last)
                             /\ q.text = p.text /\ q.gzip = p.gzip
                             /\ p.last => q.at = "check"
<1>1. PICK a \in Ats : a = BlockEnd(p.last) /\ (p.last => a = "check")
  BY ParseFields, BlockEndIs
<1>2. PICK q : q = [p EXCEPT !.at = a]
  OBVIOUS
<1>3. q = ParseItem(p, x)
  BY <1>1, <1>2, AtCode, Zenon
<1>4. q \in Parses /\ q.at = a /\ q.text = p.text /\ q.gzip = p.gzip
  BY <1>2, Moves
<1> QED
  BY <1>1, <1>3, <1>4, Zenon

LEMMA AfterDamage ==
    ASSUME NEW p \in Parses, NEW x \in GoodItems,
           \/ p.at = "code" /\ x.k \notin { "lit", "len", "eob" }
           \/ p.at = "dist" /\ ~(x.k = "dist" /\ x.n <= Len(p.text))
    PROVE  \E q \in Parses : q = ParseItem(p, x) /\ q.at = "bad"
<1>1. PICK q : q = [p EXCEPT !.at = "bad"]
  OBVIOUS
<1>2. q = ParseItem(p, x)
  BY <1>1, AtCode, AtDist, Zenon
<1>3. q \in Parses /\ q.at = "bad"
  BY <1>1 DEF Parses, Ats
<1> QED
  BY <1>2, <1>3

\* The two items are there.
LEMMA FastHas ==
    ASSUME Inv, Fast, NEW one, one = TakeItem(hold, input)
    PROVE  /\ HasItem(hold, input) /\ HasItem(one.hold, one.input)
           /\ hold # << >> \/ input # << >>
<1>1. /\ hold \in Seq(GoodItems) /\ input \in Seq(AllBytes)
  BY TypesNow, Zenon
<1>2. PICK h, z : h = hold /\ z = input
  OBVIOUS
<1>3. PICK y : y = SubSeq(z, 1, FastIn)
  OBVIOUS
<1>4. /\ HasItem(h, y) /\ HasItem(TakeItem(h, y).hold, TakeItem(h, y).input)
      /\ Len(input) >= FastIn
  BY <1>2, <1>3, Zenon DEF Fast
<1>5. h \in Seq(GoodItems) /\ z \in Seq(AllBytes) /\ FastIn \in 0..Len(z)
  BY <1>1, <1>2, <1>4, LenProperties, Constants
<1>6. HasItem(h, z) /\ HasItem(TakeItem(h, z).hold, TakeItem(h, z).input)
  BY <1>3, <1>4, <1>5, MoreInput, Zenon
<1>7. h # << >> \/ z # << >>
  <2>1. SUFFICES ASSUME h = << >>, z = << >> PROVE FALSE
    BY Zenon
  <2>2. Len(z) = 0
    BY <2>1
  <2>3. 1..Len(z) = { }
    BY <2>2
  <2> QED
    BY <1>6, <2>1, <2>3, Zenon DEF HasItem
<1> QED
  BY <1>2, <1>6, <1>7, Zenon

LEMMA DecodeFastText == ASSUME Inv, OpenInv, stage = "open", DecodeFast PROVE OpenInv'
<1>1. /\ pc = "inflate" /\ pc' = "inflate" /\ mode = "LEN" /\ Fast
      /\ UNCHANGED << flush, luabuf, last, flags, length, offset, check, out0, history >>
  BY Zenon DEF DecodeFast, In, code, progress
<1>2. PICK one : one = TakeItem(hold, input)
  OBVIOUS
<1>3. PICK two : two = TakeItem(one.hold, one.input)
  OBVIOUS
<1>4. /\ HasItem(hold, input) /\ HasItem(one.hold, one.input)
      /\ hold # << >> \/ input # << >>
  BY <1>1, <1>2, FastHas
<1>5. ~(input = << >> /\ Stopped) /\ mode # "MEM" /\ mode # "BAD"
  BY <1>1, <1>4 DEF Stopped, Waiting
<1>6. PICK p \in Parses : /\ Reached(fed, hold, input, p)
                          /\ SaysAt(p, mode, Text, hold, length, offset, last, flags)
  BY <1>5, Zenon DEF OpenInv, Parsed, Follows
<1>7. p.text = Text /\ p.gzip = flags /\ p.last = last /\ p.at = "code"
  BY <1>1, <1>6, Zenon DEF SaysAt
<1>8. PICK x, y : x = one.item /\ y = two.item
  OBVIOUS
<1>9. /\ Reached(fed, one.hold, one.input, ParseItem(p, x)) /\ x \in GoodItems
      /\ ParseItem(p, x).at = "check" => one.hold = << >>
  <2>1. /\ Reached(fed, one.hold, one.input, ParseItem(p, one.item)) /\ one.item \in GoodItems
        /\ ParseItem(p, one.item).at = "check" => one.hold = << >>
    BY <1>2, <1>4, <1>6, ReachedFast
  <2> QED
    BY <1>8, <2>1, Zenon
<1>10. ASSUME NEW q \in Parses, q = ParseItem(p, x)
       PROVE  Reached(fed, two.hold, two.input, ParseItem(q, y)) /\ y \in GoodItems
  <2>1. Reached(fed, one.hold, one.input, q)
    BY <1>9, <1>10, Zenon
  <2>2. Reached(fed, two.hold, two.input, ParseItem(q, two.item)) /\ two.item \in GoodItems
    BY <1>3, <1>4, <2>1, ReachedFast
  <2> QED
    BY <1>8, <2>2, Zenon
<1>11. PICK t \in Seq(Nat) : /\ Text = Cat(t, buf) /\ HoldsEnd(window, wnext, whave, t)
                             /\ Len(Text) = Len(t) + Len(buf) /\ Text \in Seq(Nat)
  <2>1. mode \in Before
    BY <1>1 DEF Before
  <2> QED
    BY <1>1, <2>1, WindowNow
<1>12. ASSUME y.k = "dist", y \in GoodItems
       PROVE  /\ y.n \in 1..WSize /\ (InWindow(y.n) > whave <=> ~(y.n <= Len(Text)))
              /\ InWindow(y.n) <= whave => y.n <= Len(Text)
  <2>1. PICK d \in 1..WSize : d = y.n
    BY <1>12, ItemFields
  <2>2. InWindow(d) > whave <=> ~(d <= Len(t) + Len(buf))
    BY <1>11, TooFar
  <2>3. InWindow(d) \in Int /\ whave \in Int
    <3>1. Len(buf) \in Nat /\ whave \in 0..wsize /\ wsize \in { 0, WSize }
      BY TypesNow, Zenon
    <3> QED
      BY <3>1, Constants DEF InWindow
  <2>4. /\ InWindow(d) > whave <=> ~(d <= Len(Text))
        /\ InWindow(d) <= whave => d <= Len(Text)
    BY <1>11, <2>2, <2>3
  <2> QED
    BY <2>1, <2>4, Zenon
<1>13. PICK s \in Seq(Nat), q \in Parses :
            /\ buf' = Cat(buf, s) /\ Follows(fed, mode', hold', input', q)
            /\ SaysAt(q, mode', Cat(Text, s), hold', length', offset', last', flags')
            /\ mode' # "LENGTH"
  <2>0. << >> \in Seq(Nat) /\ buf = Cat(buf, << >>) /\ Cat(Text, << >>) = Text
    <3>1. buf \in Seq(Nat) /\ << >> \in Seq(Nat)
      BY TypesNow, EmptySeq
    <3> QED
      BY <1>11, <3>1, CatEmpty
  <2>1. CASE x.k = "lit" /\ buf' = Append(buf, x.n) /\ hold' = one.hold /\ input' = one.input
             /\ mode' = mode
    <3>1. PICK q \in Parses : /\ q = ParseItem(p, x) /\ q.at = "code"
                              /\ q.text = Append(p.text, x.n)
                              /\ q.last = p.last /\ q.gzip = p.gzip
      BY <1>7, <1>9, <2>1, AfterLiteral
    <3>2. x.n \in Nat /\ buf \in Seq(Nat)
      BY <1>9, ItemFields, TypesNow
    <3>3. PICK s \in Seq(Nat) : s = << x.n >> /\ Append(buf, x.n) = Cat(buf, s)
      BY <3>2, AppendIsCat
    <3>4. PICK u \in Seq(Nat) : u = << x.n >> /\ Append(Text, x.n) = Cat(Text, u)
      BY <1>11, <3>2, AppendIsCat
    <3>5. SaysAt(q, "LEN", Cat(Text, s), hold', length', offset', last', flags')
      BY <1>1, <1>7, <3>1, <3>3, <3>4, SayLen, Zenon
    <3>6. Follows(fed, mode', hold', input', q)
      BY <1>9, <2>1, <3>1, ReachedFollows, Zenon
    <3>7. mode' = "LEN" /\ mode' # "LENGTH"
      BY <1>1, <2>1
    <3> QED
      BY <2>1, <3>3, <3>5, <3>6, <3>7, Zenon
  <2>2. CASE /\ x.k = "len" /\ y.k = "dist" /\ InWindow(y.n) <= whave
             /\ buf' = buf \o FastMatch(x.n, y.n)
             /\ hold' = two.hold /\ input' = two.input /\ mode' = mode
    <3>1. PICK r \in Parses : /\ r = ParseItem(p, x) /\ r.at = "dist" /\ r.text = p.text
                              /\ r.n = x.n /\ r.last = p.last /\ r.gzip = p.gzip
      BY <1>7, <1>9, <2>2, AfterLength
    <3>2. Reached(fed, two.hold, two.input, ParseItem(r, y)) /\ y \in GoodItems
      BY <1>10, <3>1
    <3>3. y.n \in 1..WSize /\ y.n <= Len(r.text)
      BY <1>7, <1>12, <2>2, <3>1, <3>2, Zenon
    <3>4. r.n \in Nat
      <4>1. x.n \in Nat
        BY <1>9, ItemFields
      <4> QED
        BY <3>1, <4>1, Zenon
    <3>5. PICK q \in Parses, s \in Seq(Nat) :
               /\ q = ParseItem(r, y) /\ q.at = "code"
               /\ s = Repeat(r.text, r.n, y.n) /\ q.text = Cat(r.text, s)
               /\ q.last = r.last /\ q.gzip = r.gzip
      BY <2>2, <3>1, <3>2, <3>3, <3>4, AfterDistance
    <3>6. FastMatch(r.n, y.n) = Repeat(Cat(t, buf), r.n, y.n)
      BY <1>11, <2>2, <3>3, <3>4, FastMatchIs DEF Inv
    <3>7. s = FastMatch(x.n, y.n)
      BY <1>7, <1>11, <3>1, <3>5, <3>6, Zenon
    <3>8. buf' = Cat(buf, s)
      BY <2>2, <3>7, Zenon DEF Cat
    <3>9. SaysAt(q, "LEN", Cat(Text, s), hold', length', offset', last', flags')
      BY <1>1, <1>7, <3>1, <3>5, SayLen, Zenon
    <3>10. Follows(fed, mode', hold', input', q)
      BY <2>2, <3>2, <3>5, ReachedFollows, Zenon
    <3>11. mode' = "LEN" /\ mode' # "LENGTH"
      BY <1>1, <2>2
    <3> QED
      BY <3>8, <3>9, <3>10, <3>11, Zenon
  <2>3. CASE x.k = "eob" /\ mode' = "TYPE" /\ hold' = one.hold /\ input' = one.input /\ buf' = buf
    <3>1. PICK q \in Parses : /\ q = ParseItem(p, x) /\ q.at = BlockEnd(p.last)
                              /\ q.text = p.text /\ q.gzip = p.gzip
                              /\ p.last => q.at = "check"
      BY <1>7, <1>9, <2>3, AfterBlock
    <3>2. last => hold' = << >>
      BY <1>7, <1>9, <2>3, <3>1, Zenon
    <3>3. SaysAt(q, "TYPE", Text, hold', length', offset', last', flags')
      BY <1>1, <1>7, <3>1, <3>2, SayType, Zenon
    <3>4. Follows(fed, mode', hold', input', q)
      BY <1>9, <2>3, <3>1, ReachedFollows, Zenon
    <3>5. mode' # "LENGTH"
      BY <2>3
    <3> QED
      BY <2>0, <2>3, <3>3, <3>4, <3>5, Zenon
  <2>4. CASE /\ x.k = "len" /\ (y.k # "dist" \/ InWindow(y.n) > whave)
             /\ mode' = "BAD" /\ hold' = two.hold /\ input' = two.input /\ buf' = buf
    <3>1. PICK r \in Parses : /\ r = ParseItem(p, x) /\ r.at = "dist" /\ r.text = p.text
                              /\ r.n = x.n /\ r.last = p.last /\ r.gzip = p.gzip
      BY <1>7, <1>9, <2>4, AfterLength
    <3>2. Reached(fed, two.hold, two.input, ParseItem(r, y)) /\ y \in GoodItems
      BY <1>10, <3>1
    <3>3. ~(y.k = "dist" /\ y.n <= Len(r.text))
      BY <1>7, <1>12, <2>4, <3>1, <3>2, Zenon
    <3>4. PICK q \in Parses : q = ParseItem(r, y) /\ q.at = "bad"
      BY <3>1, <3>2, <3>3, AfterDamage
    <3>5. SaysAt(q, "BAD", Text, hold', length', offset', last', flags')
      BY <3>4, SayBad, Zenon
    <3>6. Follows(fed, mode', hold', input', q)
      BY <2>4, <3>2, <3>4, ReachedFollows, Zenon
    <3>7. mode' # "LENGTH"
      BY <2>4
    <3> QED
      BY <2>0, <2>4, <3>5, <3>6, <3>7, Zenon
  <2>5. CASE /\ x.k \notin { "lit", "len", "eob" } /\ mode' = "BAD"
             /\ hold' = one.hold /\ input' = one.input /\ buf' = buf
    <3>1. PICK q \in Parses : q = ParseItem(p, x) /\ q.at = "bad"
      BY <1>7, <1>9, <2>5, AfterDamage
    <3>2. SaysAt(q, "BAD", Text, hold', length', offset', last', flags')
      BY <3>1, SayBad, Zenon
    <3>3. Follows(fed, mode', hold', input', q)
      BY <1>9, <2>5, <3>1, ReachedFollows, Zenon
    <3>4. mode' # "LENGTH"
      BY <2>5
    <3> QED
      BY <2>0, <2>5, <3>2, <3>3, <3>4, Zenon
  <2> QED
    BY <1>2, <1>3, <1>8, <2>1, <2>2, <2>3, <2>4, <2>5, Zenon DEF DecodeFast
<1> QED
  BY <1>1, <1>5, <1>13, ItemDone, Zenon

-----------------------------------------------------------------------------
(* Stored blocks and the parser.                                           *)

\* One byte of a stored block.
LEMMA AfterRaw ==
    ASSUME NEW p \in Parses, NEW x \in GoodItems, p.at = "raw", x.k = "raw", p.n \in Nat
    PROVE  \E q \in Parses : /\ q = ParseItem(p, x)
                             /\ q.at = IF p.n > 1 THEN "raw" ELSE BlockEnd(p.last)
                             /\ q.n = p.n - 1 /\ q.text = Append(p.text, x.n)
                             /\ q.last = p.last /\ q.gzip = p.gzip
<1>1. PICK a \in Ats : a = IF p.n > 1 THEN "raw" ELSE BlockEnd(p.last)
  <2>1. BlockEnd(p.last) \in Ats /\ "raw" \in Ats
    BY ParseFields, BlockEndIs DEF Ats
  <2> QED
    BY <2>1
<1>2. PICK n \in Int : n = p.n - 1
  OBVIOUS
<1>3. PICK t \in Seq(Nat) : t = Append(p.text, x.n)
  BY ItemFields, ParseFields, AppendProperties
<1>4. PICK q : q = [p EXCEPT !.at = a, !.n = n, !.text = t]
  OBVIOUS
<1>5. q = ParseItem(p, x)
  BY <1>1, <1>2, <1>3, <1>4, AtRaw, Zenon
<1>6. q.at = a /\ q.n = n /\ q.text = t
  BY <1>4 DEF Parses
<1>7. q.last = p.last /\ q.gzip = p.gzip
  BY <1>4 DEF Parses
<1>8. q \in Parses
  BY <1>4 DEF Parses
<1> QED
  BY <1>1, <1>2, <1>3, <1>5, <1>6, <1>7, <1>8, Zenon

\* What the first m bytes of a stored block say.
Values(z, m) == [i \in 1..m |-> ByteValue(z[i])]

LEMMA OneMoreValue ==
    ASSUME NEW z \in Seq(AllBytes), NEW m \in Nat, m + 1 <= Len(z)
    PROVE  /\ Values(z, m) \in Seq(Nat) /\ Values(z, m + 1) \in Seq(Nat)
           /\ ByteValue(z[m + 1]) \in Nat
           /\ Values(z, m + 1) = Append(Values(z, m), ByteValue(z[m + 1]))
<1>1. Len(z) \in Nat
  BY LenProperties
<1>2. m \in 0..Len(z) /\ m + 1 \in 0..Len(z) /\ m + 1 \in Nat
  BY <1>1
<1>3. Values(z, m) \in Seq(Nat) /\ Len(Values(z, m)) = m
  BY <1>2, StoredBytes DEF Values
<1>4. Values(z, m + 1) \in Seq(Nat) /\ Len(Values(z, m + 1)) = m + 1
  BY <1>2, StoredBytes DEF Values
<1>5. /\ \A i \in 1..m : Values(z, m)[i] = ByteValue(z[i])
      /\ \A i \in 1..(m + 1) : Values(z, m + 1)[i] = ByteValue(z[i])
  BY Zenon DEF Values
<1>6. PICK a \in Seq(Nat), b \in Seq(Nat) : a = Values(z, m) /\ b = Values(z, m + 1)
  BY <1>3, <1>4
<1>7. PICK c \in Nat : c = ByteValue(z[m + 1])
  <2>1. m + 1 \in 1..Len(b)
    BY <1>4, <1>6
  <2>2. b[m + 1] \in Nat
    BY <2>1, ElementOfSeq
  <2>3. b[m + 1] = ByteValue(z[m + 1])
    BY <1>5, <1>6, <2>1, <1>4
  <2> QED
    BY <2>2, <2>3
<1>8. PICK e \in Seq(Nat) : /\ e = Append(a, c) /\ Len(e) = m + 1
                            /\ \A i \in 1..m : e[i] = a[i]
                            /\ e[m + 1] = c
  <2>1. Len(a) = m
    BY <1>3, <1>6, Zenon
  <2>2. /\ Append(a, c) \in Seq(Nat) /\ Len(Append(a, c)) = Len(a) + 1
        /\ \A i \in 1..Len(a) : Append(a, c)[i] = a[i]
        /\ Append(a, c)[Len(a) + 1] = c
    BY AppendProperties
  <2> QED
    BY <2>1, <2>2, Zenon
<1>9. ASSUME NEW i \in 1..Len(b) PROVE b[i] = e[i]
  <2>1. i \in 1..(m + 1)
    BY <1>4, <1>6, <1>9
  <2>2. b[i] = ByteValue(z[i])
    BY <1>5, <1>6, <2>1
  <2>3. CASE i = m + 1
    BY <1>7, <1>8, <2>2, <2>3
  <2>4. CASE i # m + 1
    <3>1. i \in 1..m
      BY <2>1, <2>4
    <3> QED
      BY <1>5, <1>6, <1>8, <2>2, <3>1
  <2> QED
    BY <2>3, <2>4
<1>10. b = e
  BY <1>4, <1>6, <1>8, <1>9, SeqEqual
<1> QED
  BY <1>6, <1>7, <1>8, <1>10, Zenon

\* The parser reads the first m bytes of a stored block.
LEMMA RawBytes ==
    ASSUME NEW f, NEW z \in Seq(AllBytes), NEW p \in Parses, NEW n \in Nat,
           Reached(f, << >>, z, p), p.at = "raw", p.n = n, n > 0,
           NEW k \in Nat, k <= n, k <= Len(z)
    PROVE  \E q \in Parses : /\ q.text = Cat(p.text, Values(z, k)) /\ q.n = n - k
                             /\ q.at = IF k < n THEN "raw" ELSE BlockEnd(p.last)
                             /\ q.last = p.last /\ q.gzip = p.gzip
                             /\ Reached(f, << >>, SubSeq(z, k + 1, Len(z)), q)
<1> DEFINE Good(m, q) ==
        /\ q.text = Cat(p.text, Values(z, m)) /\ q.n = n - m
        /\ q.at = IF m < n THEN "raw" ELSE BlockEnd(p.last)
        /\ q.last = p.last /\ q.gzip = p.gzip
        /\ Reached(f, << >>, SubSeq(z, m + 1, Len(z)), q)
           S == { m \in Nat : m <= n /\ m <= Len(z) => \E q \in Parses : Good(m, q) }
<1>0. Len(z) \in Nat /\ p.text \in Seq(Nat)
  BY LenProperties, ParseFields
<1>1. 0 \in S
  <2>1. Values(z, 0) = << >>
    <3>1. 0 \in 0..Len(z)
      BY <1>0
    <3>2. Values(z, 0) \in Seq(Nat) /\ Len(Values(z, 0)) = 0
      BY <3>1, StoredBytes DEF Values
    <3> QED
      BY <3>2, EmptySeq
  <2>2. Cat(p.text, Values(z, 0)) = p.text
    BY <1>0, <2>1, CatEmpty
  <2>3. SubSeq(z, 0 + 1, Len(z)) = z
    BY SubSeqFull
  <2>4. n - 0 = n /\ 0 < n /\ 0 \in Nat
    OBVIOUS
  <2>5. Good(0, p)
    BY <2>2, <2>3, <2>4, Zenon
  <2> QED
    BY <2>4, <2>5, Zenon
<1>2. ASSUME NEW m \in Nat, m \in S PROVE m + 1 \in S
  <2>0. m + 1 \in Nat
    OBVIOUS
  <2> SUFFICES ASSUME m + 1 <= n, m + 1 <= Len(z) PROVE \E q \in Parses : Good(m + 1, q)
    BY <2>0, Zenon
  <2>1. m <= n /\ m <= Len(z) /\ m < n
    BY <1>0
  <2>2. PICK q \in Parses : Good(m, q)
    BY <1>2, <2>1, Zenon
  <2>3. /\ q.text = Cat(p.text, Values(z, m)) /\ q.n = n - m
        /\ q.at = "raw" /\ q.last = p.last /\ q.gzip = p.gzip
    BY <2>1, <2>2, Zenon
  <2>4. PICK y \in Seq(AllBytes) : y = SubSeq(z, m + 1, Len(z))
    <3>1. m \in 0..Len(z)
      BY <1>0, <2>1
    <3> QED
      BY <3>1, CutInTwo
  <2>5. y # << >> /\ Head(y) = z[m + 1] /\ Tail(y) = SubSeq(z, (m + 1) + 1, Len(z))
    <3>1. m \in 0..Len(z) /\ m + 1 \in 1..Len(z) /\ Len(z) \in (m + 1)..Len(z)
      BY <1>0, <2>1
    <3>2. Head(y) = z[m + 1] /\ Tail(y) = SubSeq(z, (m + 1) + 1, Len(z))
      BY <2>4, <3>1, HeadTailOfSubSeq
    <3>3. Len(y) = Len(z) - m
      BY <2>4, <3>1, CutInTwo
    <3>4. Len(y) # 0 /\ Len(<< >>) = 0
      BY <1>0, <3>1, <3>3
    <3> QED
      BY <3>2, <3>4, Zenon
  <2>6. Reached(f, << >>, y, q)
    BY <2>2, <2>4, Zenon
  <2>7. PICK x \in GoodItems : /\ x.k = "raw" /\ x.n = ByteValue(Head(y))
                               /\ Reached(f, << >>, Tail(y), ParseItem(q, x))
    BY <2>3, <2>5, <2>6, ReachedRaw
  <2>8. PICK r \in Parses : /\ r = ParseItem(q, x)
                            /\ r.at = IF q.n > 1 THEN "raw" ELSE BlockEnd(q.last)
                            /\ r.n = q.n - 1 /\ r.text = Append(q.text, x.n)
                            /\ r.last = q.last /\ r.gzip = q.gzip
    <3>1. q.n \in Nat
      BY <2>1, <2>3
    <3> QED
      BY <2>3, <2>7, <3>1, AfterRaw
  <2>9. r.text = Cat(p.text, Values(z, m + 1))
    <3>1. /\ Values(z, m) \in Seq(Nat) /\ ByteValue(z[m + 1]) \in Nat
          /\ Values(z, m + 1) = Append(Values(z, m), ByteValue(z[m + 1]))
      BY OneMoreValue
    <3>2. PICK c \in Nat, v \in Seq(Nat) : c = ByteValue(z[m + 1]) /\ v = Values(z, m)
      BY <3>1
    <3>5. PICK w \in Seq(Nat) : w = p.text
      BY <1>0
    <3>6. Cat(w, Append(v, c)) = Append(Cat(w, v), c)
      BY SMTT(30), CatAppend
    <3>3. Append(Cat(p.text, v), c) = Cat(p.text, Append(v, c))
      BY <3>5, <3>6, Zenon
    <3>4. r.text = Append(Cat(p.text, v), c)
      BY <2>3, <2>5, <2>7, <2>8, <3>2, Zenon
    <3> QED
      BY <3>1, <3>2, <3>3, <3>4, Zenon
  <2>10. r.n = n - (m + 1) /\ r.at = IF m + 1 < n THEN "raw" ELSE BlockEnd(p.last)
    <3>1. r.n = n - (m + 1) /\ (q.n > 1 <=> m + 1 < n)
      BY <2>3, <2>8
    <3> QED
      BY <2>3, <2>8, <3>1, Zenon
  <2>11. Reached(f, << >>, SubSeq(z, (m + 1) + 1, Len(z)), r)
    BY <2>5, <2>7, <2>8, Zenon
  <2>12. Good(m + 1, r)
    BY <2>3, <2>8, <2>9, <2>10, <2>11, Zenon
  <2> QED
    BY <2>12, Zenon
<1> HIDE DEF S
<1>3. Nat \subseteq S
  BY <1>1, <1>2, NatInductionInSet
<1>4. k \in S
  BY <1>3
<1> QED
  BY <1>4, Zenon DEF S

LEMMA CopyStoredText == ASSUME Inv, OpenInv, CopyStored PROVE OpenInv'
<1>1. /\ pc = "inflate" /\ mode = "COPY"
      /\ UNCHANGED << flush, luabuf, last, flags, offset, hold, check, out0, history >>
  BY Zenon DEF CopyStored, In, progress
<1>2. PICK copy : copy = Smaller(length, Smaller(Len(input), Left))
  OBVIOUS
<1>3. \/ length = 0 /\ mode' = "TYPE" /\ UNCHANGED << pc, ret, input, buf, length >>
      \/ /\ length > 0 /\ copy = 0 /\ pc' = "leave" /\ ret' = "OK"
         /\ UNCHANGED << mode, input, buf, length >>
      \/ /\ copy > 0
         /\ buf' = buf \o Values(input, copy)
         /\ input' = SubSeq(input, copy + 1, Len(input))
         /\ length' = length - copy
         /\ UNCHANGED << pc, ret, mode >>
  BY <1>2, Zenon DEF CopyStored, InfLeave, Values
<1>4. length \in Nat /\ input \in Seq(AllBytes) /\ Len(input) \in Nat /\ Left \in Nat
  <2>1. /\ length \in Nat /\ input \in Seq(AllBytes)
        /\ Len(buf) \in Nat /\ Len(buf) <= BufSize /\ Left = BufSize - Len(buf)
    BY TypesNow
  <2> QED
    BY <2>1, LenProperties, Constants
<1>5. /\ copy \in Nat /\ copy <= length /\ copy <= Len(input) /\ copy \in 0..Len(input)
      /\ copy = 0 => length = 0 \/ Len(input) = 0 \/ Left = 0
  BY <1>2, <1>4 DEF Smaller
<1>6. mode # "MEM" /\ mode # "BAD"
  BY <1>1
<1>7. PICK p \in Parses : /\ Reached(fed, hold, input, p)
                          /\ SaysAt(p, mode, Text, hold, length, offset, last, flags)
  BY <1>6, Zenon DEF OpenInv, Parsed, Follows
<1>8. /\ p.text = Text /\ p.gzip = flags /\ p.last = last /\ hold = << >>
      /\ p.at = IF length > 0 THEN "raw" ELSE BlockEnd(last)
      /\ length > 0 => p.n = length
  BY <1>1, <1>7, Zenon DEF SaysAt
<1>9. CASE length = 0 /\ mode' = "TYPE" /\ UNCHANGED << pc, ret, input, buf, length >>
  <2>1. ~Stopped /\ ~(length > 0)
    BY <1>1, <1>9 DEF Stopped, Waiting
  <2>2. SaysAt(p, "TYPE", Text, hold', length', offset', last', flags')
    BY <1>1, <1>8, <2>1, SayType, Zenon
  <2>3. Follows(fed, mode', hold', input', p)
    BY <1>1, <1>7, <1>9, ReachedFollows, Zenon
  <2>4. mode' # "LENGTH"
    BY <1>9
  <2> QED
    BY <1>1, <1>6, <1>9, <2>1, <2>2, <2>3, <2>4, ItemDoneSilent, Zenon
<1>10. CASE /\ length > 0 /\ copy = 0 /\ pc' = "leave" /\ ret' = "OK"
            /\ UNCHANGED << mode, input, buf, length >>
  <2>1. CASE input = << >>
    <3>1. Waiting
      BY <1>1, <1>8, <1>10 DEF Waiting
    <3>2. Parsed' /\ (Stopped' <=> Stopped) /\ (Waiting' <=> Waiting) /\ Left' = Left
      BY <1>1, <1>10, NothingRead, Zenon
    <3>3. Checked'
      <4>1. pc' \in { "inflate", "leave" }
        BY <1>10
      <4>2. out' = out
        BY <1>1, Zenon DEF history
      <4> QED
        BY <1>1, <1>6, <1>10, <4>1, <4>2, CheckedStays, Zenon DEF OpenInv
    <3>4. Outcome'
      <4>1. Waiting' /\ Stopped' /\ input' = << >>
        BY <1>10, <2>1, <3>1, <3>2, Zenon DEF Stopped
      <4> QED
        BY <1>10, <4>1 DEF Outcome
    <3> QED
      BY <3>2, <3>3, <3>4, Zenon DEF OpenInv
  <2>2. CASE input # << >>
    <3>1. Len(input) # 0
      BY <1>4, <2>2, EmptySeq
    <3>2. Left = 0
      BY <1>5, <1>10, <3>1
    <3>3. mode \in { "COPY", "MATCH", "LIT" }
      BY <1>1
    <3> QED
      BY <1>1, <1>10, <2>2, <3>2, <3>3, NoRoomText, Zenon
  <2> QED
    BY <2>1, <2>2
<1>11. CASE /\ copy > 0
            /\ buf' = buf \o Values(input, copy)
            /\ input' = SubSeq(input, copy + 1, Len(input))
            /\ length' = length - copy
            /\ UNCHANGED << pc, ret, mode >>
  <2>1. length > 0 /\ input # << >>
    <3>1. length > 0 /\ Len(input) # 0 /\ Len(<< >>) = 0
      BY <1>4, <1>5, <1>11
    <3> QED
      BY <3>1, Zenon
  <2>2. PICK z \in Seq(AllBytes), n \in Nat, k \in Nat : z = input /\ n = length /\ k = copy
    BY <1>4, <1>5
  <2>3. /\ Reached(fed, << >>, z, p) /\ p.at = "raw" /\ p.n = n /\ n > 0
        /\ k <= n /\ k <= Len(z)
    BY <1>5, <1>7, <1>8, <2>1, <2>2, Zenon
  <2>4. PICK q \in Parses : /\ q.text = Cat(p.text, Values(z, k)) /\ q.n = n - k
                            /\ q.at = IF k < n THEN "raw" ELSE BlockEnd(p.last)
                            /\ q.last = p.last /\ q.gzip = p.gzip
                            /\ Reached(fed, << >>, SubSeq(z, k + 1, Len(z)), q)
    <3>1. PICK f : f = fed
      OBVIOUS
    <3>2. Reached(f, << >>, z, p)
      BY <2>3, <3>1, Zenon
    <3>3. \E q \in Parses : /\ q.text = Cat(p.text, Values(z, k)) /\ q.n = n - k
                            /\ q.at = IF k < n THEN "raw" ELSE BlockEnd(p.last)
                            /\ q.last = p.last /\ q.gzip = p.gzip
                            /\ Reached(f, << >>, SubSeq(z, k + 1, Len(z)), q)
      BY SMTT(30), <2>3, <3>2, RawBytes
    <3> QED
      BY <3>1, <3>3, Zenon
  <2>5. PICK s \in Seq(Nat) : s = Values(z, k)
    <3>1. k \in 0..Len(z)
      BY <1>5, <2>2
    <3> QED
      BY <3>1, StoredBytes DEF Values
  <2>6. buf' = Cat(buf, s)
    BY <1>11, <2>2, <2>5, Zenon DEF Cat
  <2>7. SaysAt(q, "COPY", Cat(Text, s), << >>, n - k, offset', last', flags')
    <3>1. q.text = Cat(Text, s) /\ q.gzip = flags' /\ q.last = last'
      BY <1>1, <1>8, <2>4, <2>5, Zenon
    <3>2. n - k > 0 <=> k < n
      OBVIOUS
    <3>3. q.at = IF n - k > 0 THEN "raw" ELSE BlockEnd(last')
      BY <1>1, <1>8, <2>4, <3>2, Zenon
    <3> QED
      BY <2>4, <3>1, <3>3, SayCopy, Zenon
  <2>8. SaysAt(q, mode', Cat(Text, s), hold', length', offset', last', flags')
    BY <1>1, <1>8, <1>11, <2>2, <2>7, Zenon
  <2>9. Follows(fed, mode', hold', input', q)
    BY <1>1, <1>8, <1>11, <2>2, <2>4, ReachedFollows, Zenon
  <2>10. mode' # "LENGTH" /\ pc' = "inflate"
    BY <1>1, <1>11
  <2> QED
    BY <1>1, <1>6, <2>1, <2>6, <2>8, <2>9, <2>10, ItemDone, Zenon
<1> QED
  BY <1>3, <1>9, <1>10, <1>11

-----------------------------------------------------------------------------
(* The calls around inflate().                                             *)

LEMMA InflateText ==
    ASSUME Inv, OpenInv, stage = "open",
           \/ PullByte \/ NoInput \/ ReadHead \/ NeedDict \/ ReadBlockHeader \/ LastBlock
           \/ CopyStored \/ ReadCode \/ ReadDist \/ Match \/ Literal \/ DecodeFast
           \/ CheckText \/ CheckLength \/ Over
    PROVE  OpenInv'
BY PullByteText, NoInputText, ReadHeadText, NeedDictText, ReadBlockHeaderText, LastBlockText,
   CopyStoredText, ReadCodeText, ReadDistText, MatchText, LiteralText, DecodeFastText,
   CheckTextText, CheckLengthText, OverText, Zenon

LEMMA InflateIsInside ==
    ASSUME Inv,
           \/ PullByte \/ NoInput \/ ReadHead \/ NeedDict \/ ReadBlockHeader \/ LastBlock
           \/ CopyStored \/ ReadCode \/ ReadDist \/ Match \/ Literal \/ DecodeFast
           \/ CheckText \/ CheckLength \/ Over
    PROVE  /\ pc = "inflate" /\ pc' \in { "inflate", "leave", "called" }
           /\ UNCHANGED << flush, luabuf, fed, out, stage >>
<1>1. InsideStep
  BY PullByteInside, NoInputInside, ReadHeadInside, NeedDictInside, ReadBlockHeaderInside,
     LastBlockInside, CopyStoredInside, ReadCodeInside, ReadDistInside, MatchInside,
     LiteralInside, DecodeFastInside, CheckTextInside, CheckLengthInside, OverInside, Zenon
<1> QED
  BY <1>1, Zenon DEF InsideStep, history

\* No text at all.
LEMMA NoText == Cat(Cat(<< >>, << >>), << >>) = << >> /\ Cat(<< >>, << >>) = << >>
<1>1. << >> \in Seq(Nat)
  OBVIOUS
<1>2. Cat(<< >>, << >>) = << >>
  BY <1>1, CatEmpty
<1> QED
  BY <1>2, Zenon

LEMMA CreateText == ASSUME Inv, Quiet, Create PROVE Quiet' /\ OpenInv'
<1>1. /\ pc = "none" /\ pc' = "idle" /\ stage' = "open"
      /\ UNCHANGED << flush, ret, input, buf, luabuf, mode, last, flags, length, offset, hold,
                      check, out0, fed, out >>
  BY Zenon DEF Create, io, code, progress
<1>2. /\ luabuf = << >> /\ input = << >> /\ buf = << >> /\ fed = << >> /\ out = << >>
      /\ check = << >> /\ hold = << >> /\ mode = "HEAD" /\ ~last
  BY <1>1 DEF Quiet
<1>3. Quiet'
  BY <1>1, <1>2 DEF Quiet
<1>4. Text' = << >> /\ Cat(out', luabuf') = << >>
  BY <1>1, <1>2, NoText, Zenon DEF Text
<1>5. Parsed'
  <2>1. Reached(fed', hold', input', Start)
    BY <1>1, <1>2, ReachedStart, Zenon
  <2>2. SaysAt(Start, "HEAD", << >>, hold', length', offset', FALSE, flags')
    BY DEF SaysAt
  <2>3. mode' = "HEAD" /\ last' = FALSE
    BY <1>1, <1>2, TypesNow
  <2>4. SaysAt(Start, mode', Text', hold', length', offset', last', flags')
    BY <1>4, <2>2, <2>3, Zenon
  <2>5. Start \in Parses
    BY StartParse
  <2> QED
    BY <2>1, <2>4, <2>5, ReachedFollows, Zenon DEF Parsed
<1>6. Checked'
  <2>1. pc' \notin { "inflate", "leave" } /\ pc' # "called"
    BY <1>1
  <2> QED
    BY <1>1, <1>2, <1>4, <2>1, Zenon DEF Checked
<1>7. Outcome'
  <2>1. Stopped' /\ mode' # "BAD"
    BY <1>1, <1>2 DEF Stopped, Waiting
  <2> QED
    BY <1>1, <2>1 DEF Outcome
<1> QED
  BY <1>3, <1>5, <1>6, <1>7, Zenon DEF OpenInv

\* A chunk continues the stream.
LEMMA ChunkContinues ==
    ASSUME Inv, stage = "open", NEW chunk \in Chunks
    PROVE  \E st \in Streams : IsPrefix(Cat(fed, chunk), st)
<1>1. PICK st \in Streams : /\ IsPrefix(fed, st)
                            /\ \E n \in Len(fed)..Len(st) : chunk = SubSeq(st, Len(fed) + 1, n)
  BY DEF Chunks
<1>2. PICK n \in Len(fed)..Len(st) : chunk = SubSeq(st, Len(fed) + 1, n)
  BY <1>1
<1>3. PICK S : st \in Seq(S)
  BY StreamBytes
<1>4. PICK a \in Nat : a = Len(fed)
  BY TypesNow, LenProperties
<1>5. Len(st) \in Nat /\ a <= n /\ n <= Len(st) /\ n \in Nat
  BY <1>2, <1>3, <1>4, LenProperties
<1>6. fed = SubSeq(st, 1, a)
  <2>1. SubSeq(fed, 1, Len(fed)) = fed
    BY TypesNow, SubSeqFull
  <2> QED
    BY <1>1, <1>4, <2>1, Zenon DEF IsPrefix
<1>7. SubSeq(st, 1, a) \o SubSeq(st, a + 1, n) = SubSeq(st, 1, n)
  <2>1. 1 \in 1..(Len(st) + 1) /\ a \in (1 - 1)..Len(st) /\ n \in a..Len(st)
    BY <1>5
  <2> QED
    BY <1>3, <2>1, ConcatAdjacentSubSeq
<1>8. Cat(fed, chunk) = SubSeq(st, 1, n)
  BY <1>2, <1>4, <1>6, <1>7, Zenon DEF Cat
<1>9. IsPrefix(SubSeq(st, 1, n), st)
  <2>1. PICK v \in Seq(S) : v = SubSeq(st, 1, n) /\ Len(v) = n
    <3>1. PICK m \in 0..Len(st) : m = n
      BY <1>5
    <3>2. PICK z \in Seq(S) : z = st
      BY <1>3
    <3>3. m \in 0..Len(z)
      BY <3>1, <3>2
    <3>4. SubSeq(z, 1, m) \in Seq(S) /\ Len(SubSeq(z, 1, m)) = m
      BY <3>3, CutInTwo
    <3> QED
      BY <3>1, <3>2, <3>4, Zenon
  <2>2. SubSeq(v, 1, Len(v)) = v
    BY SubSeqFull
  <2>3. Len(v) <= Len(st) /\ SubSeq(v, 1, Len(v)) = SubSeq(st, 1, Len(v))
    BY <1>5, <2>1, <2>2, Zenon
  <2> QED
    BY <2>1, <2>3, Zenon DEF IsPrefix
<1> QED
  BY <1>8, <1>9, Zenon

LEMMA UpdateText ==
    ASSUME Inv, Quiet, stage = "open" => OpenInv, NEW chunk \in Chunks, Update(chunk)
    PROVE  Quiet' /\ (stage' = "open" => OpenInv')
<1>1. /\ pc = "idle" /\ pc' = "loop" /\ flush' = "NO_FLUSH" /\ input' = chunk
      /\ fed' = IF stage = "open" THEN fed \o chunk ELSE << >>
      /\ UNCHANGED << ret, buf, luabuf, mode, last, flags, length, offset, hold, check, out0,
                      out, stage >>
  BY Zenon DEF Update, code, progress
<1>2. input = << >> /\ buf = << >> /\ luabuf = << >>
  BY <1>1 DEF Quiet
<1>3. Quiet'
  BY <1>1, <1>2 DEF Quiet
<1>4. ASSUME stage = "open" PROVE OpenInv'
  <2>1. mode # "BAD"
    BY <1>1, <1>4 DEF OpenInv, Outcome
  <2>2. PICK p \in Parses : /\ Reached(fed, hold, << >>, p)
                            /\ SaysAt(p, mode, Text, hold, length, offset, last, flags)
    BY <1>2, <1>4, <2>1, Zenon DEF OpenInv, Parsed, Follows
  <2>3. PICK st \in Streams : IsPrefix(Cat(fed, chunk), st)
    BY <1>4, ChunkContinues
  <2>4. chunk \in Seq(AllBytes)
    BY ChunkBytes
  <2>5. Reached(Cat(fed, chunk), hold, chunk, p)
    BY <2>2, <2>3, <2>4, ReachedChunk
  <2>6. Reached(fed', hold', input', p)
    BY <1>1, <1>4, <2>5, Zenon DEF Cat
  <2>7. Text' = Text
    BY <1>1, Zenon DEF Text
  <2>8. Parsed'
    BY <1>1, <2>2, <2>6, <2>7, ReachedFollows, Zenon DEF Parsed
  <2>9. Checked'
    <3>1. pc \in { "idle", "loop" } /\ pc' \notin { "inflate", "leave" } /\ pc' # "called"
      BY <1>1
    <3> QED
      BY <1>1, <1>4, <3>1, Zenon DEF OpenInv, Checked
  <2>10. Outcome'
    BY <1>1, <2>1 DEF Outcome
  <2> QED
    BY <2>8, <2>9, <2>10, Zenon DEF OpenInv
<1> QED
  BY <1>1, <1>3, <1>4, Zenon

\* A call that ends leaves nothing behind.
LEMMA EndIsQuiet ==
    ASSUME pc' = "idle", buf' = << >>, luabuf' = << >>, input' = << >>
    PROVE  Quiet'
BY DEF Quiet

LEMMA UpdateNothingText ==
    ASSUME Inv, Quiet, stage = "open" => OpenInv, UpdateNothing
    PROVE  Quiet' /\ (stage' = "open" => OpenInv')
<1>1. /\ pc = "idle" /\ Return(<< >>, "open")
      /\ UNCHANGED << flush, ret, mode, last, flags, length, offset, hold, check, out0 >>
  BY Zenon DEF UpdateNothing, code, progress
<1>2. /\ pc' = "idle" /\ buf' = << >> /\ luabuf' = << >> /\ input' = << >>
      /\ \/ stage = "open" /\ stage' = "open" /\ out' = out \o << >> /\ fed' = fed
         \/ stage' = "stale" /\ out' = << >> /\ fed' = << >>
  BY <1>1, ReturnCases, Zenon
<1>3. input = << >> /\ buf = << >> /\ luabuf = << >>
  BY <1>1 DEF Quiet
<1>4. Quiet'
  BY <1>2, EndIsQuiet, Zenon
<1>5. ASSUME stage' = "open" PROVE OpenInv'
  <2>1. stage = "open" /\ out' = out \o << >> /\ fed' = fed
    BY <1>2, <1>5
  <2>2. out' = out
    <3>1. out \in Seq(Nat)
      BY TypesNow, Zenon
    <3>2. Cat(out, << >>) = out
      BY <3>1, CatEmpty
    <3> QED
      BY <2>1, <3>2, Zenon DEF Cat
  <2>3. OpenInv
    BY <2>1
  <2>4. UNCHANGED << pc, flush, ret, input, buf, luabuf, mode, last, flags, length, offset, hold,
                     check, out0, fed, out >>
    BY <1>1, <1>2, <1>3, <2>1, <2>2, Zenon
  <2>5. Text' = Text
    BY <2>4, Zenon DEF Text
  <2>6. Parsed'
    BY <2>3, <2>4, <2>5, Zenon DEF OpenInv, Parsed
  <2>7. Checked'
    BY <2>3, <2>4, <2>5, Zenon DEF OpenInv, Checked
  <2>8. Outcome'
    <3>1. (Waiting' <=> Waiting) /\ (Stopped' <=> Stopped) /\ Left' = Left
      BY <2>4, Zenon DEF Waiting, Stopped, Left
    <3>2. pc' = "idle" /\ Stopped /\ mode # "BAD"
      BY <1>1, <1>2, <2>3 DEF OpenInv, Outcome
    <3> QED
      BY <2>4, <3>1, <3>2 DEF Outcome
  <2> QED
    BY <2>6, <2>7, <2>8, Zenon DEF OpenInv
<1> QED
  BY <1>4, <1>5

LEMMA FinishText ==
    ASSUME Inv, Quiet, stage = "open" => OpenInv, Finish
    PROVE  Quiet' /\ (stage' = "open" => OpenInv')
<1>1. /\ pc = "idle" /\ pc' = "loop" /\ input' = << >>
      /\ UNCHANGED << ret, buf, luabuf, mode, last, flags, length, offset, hold, check, out0,
                      history >>
  BY Zenon DEF Finish, code, progress
<1>2. input = << >> /\ buf = << >> /\ luabuf = << >>
  BY <1>1 DEF Quiet
<1>3. Quiet'
  BY <1>1, <1>2 DEF Quiet
<1>4. ASSUME stage' = "open" PROVE OpenInv'
  <2>0. OpenInv
    BY <1>1, <1>4 DEF history
  <2>1. mode # "BAD" /\ Stopped
    BY <1>1, <2>0 DEF OpenInv, Outcome
  <2>2. input' = input
    BY <1>1, <1>2, Zenon
  <2>3. Parsed' /\ (Stopped' <=> Stopped) /\ out' = out
    BY <1>1, <2>0, <2>2, NothingRead, Zenon DEF history
  <2>4. Checked'
    <3>1. pc \in { "idle", "loop" } /\ pc' \notin { "inflate", "leave" } /\ pc' # "called"
      BY <1>1
    <3> QED
      BY <1>1, <2>0, <2>3, <3>1, Zenon DEF OpenInv, Checked
  <2>5. Outcome'
    BY <1>1, <2>1, <2>3 DEF Outcome
  <2> QED
    BY <2>3, <2>4, <2>5, Zenon DEF OpenInv
<1> QED
  BY <1>3, <1>4

LEMMA CallInflateText ==
    ASSUME Inv, Quiet, stage = "open" => OpenInv, CallInflate
    PROVE  Quiet' /\ (stage' = "open" => OpenInv')
<1>1. /\ pc = "loop" /\ pc' = "inflate" /\ buf' = << >> /\ out0' = BufSize /\ ret' = "OK"
      /\ UNCHANGED << flush, input, luabuf, mode, last, flags, length, offset, hold, check,
                      history >>
  BY Zenon DEF CallInflate, code
<1>2. buf = << >>
  BY <1>1 DEF Quiet
<1>3. Quiet'
  BY <1>1 DEF Quiet
<1>4. ASSUME stage' = "open" PROVE OpenInv'
  <2>0. OpenInv
    BY <1>1, <1>4 DEF history
  <2>1. buf' = buf
    BY <1>1, <1>2, Zenon
  <2>2. Parsed' /\ (Stopped' <=> Stopped) /\ out' = out /\ luabuf' = luabuf
    BY <1>1, <2>0, <2>1, NothingRead, Zenon DEF history
  <2>3. Checked'
    <3>1. pc \in { "idle", "loop" } /\ pc' \notin { "idle", "loop" } /\ pc' # "called"
      BY <1>1
    <3>2. mode # "MEM" => check = Cat(out, luabuf)
      BY <2>0, <3>1, Zenon DEF OpenInv, Checked
    <3>3. PICK r \in Seq(Nat) : r = Cat(out, luabuf)
      BY TypesNow, CatType
    <3>4. Cat(r, << >>) = r
      BY CatEmpty
    <3>5. BufSize - out0' = 0
      BY <1>1, Constants
    <3>6. SubSeq(buf', 1, 0) = << >>
      <4>1. SubSeq(<< >>, 1, 0) = << >>
        OBVIOUS
      <4> QED
        BY <1>1, <4>1, Zenon
    <3>7. Cat(Cat(out', luabuf'), SubSeq(buf', 1, BufSize - out0')) = r /\ Text' = r
      BY <1>1, <2>2, <3>3, <3>4, <3>5, <3>6, Zenon DEF Text
    <3> QED
      BY <1>1, <3>1, <3>2, <3>3, <3>7, Zenon DEF Checked
  <2>4. Outcome'
    <3>1. flush = "FINISH" => input = << >> /\ Stopped
      BY <1>1, <2>0 DEF OpenInv, Outcome
    <3> QED
      BY <1>1, <2>2, <3>1 DEF Outcome
  <2> QED
    BY <2>2, <2>3, <2>4, Zenon DEF OpenInv
<1> QED
  BY <1>3, <1>4

LEMMA LeaveText ==
    ASSUME Inv, Quiet, stage = "open" => OpenInv, Leave
    PROVE  Quiet' /\ (stage' = "open" => OpenInv')
<1>1. /\ pc = "leave" /\ pc' = "called" /\ check' = check \o Unchecked
      /\ ret' = IF ret = "OK" /\ (flush = "FINISH" \/ (in0 = Len(input) /\ out0 = Left))
                THEN "BUF_ERROR" ELSE ret
      /\ UNCHANGED << flush, input, buf, luabuf, mode, last, flags, length, offset, hold, in0,
                      out0, history >>
  BY Zenon DEF Leave, io, code, progress
<1>2. Quiet'
  BY <1>1 DEF Quiet
<1>3. ASSUME stage' = "open" PROVE OpenInv'
  <2>0. OpenInv /\ stage = "open"
    BY <1>1, <1>3 DEF history
  <2>1. /\ Parsed' /\ (Stopped' <=> Stopped) /\ (Waiting' <=> Waiting) /\ Left' = Left
        /\ Text' = Text
    BY <1>1, <2>0, NothingRead, TextStays, Zenon
  <2>2. Checked'
    <3>1. pc' \notin { "idle", "loop" } /\ pc' \notin { "inflate", "leave" }
          /\ pc \in { "inflate", "leave" }
      BY <1>1
    <3>2. mode # "MEM" => check' = Text
      BY <1>1, <2>0, <3>1, CheckCatchesUp, Zenon DEF OpenInv
    <3> QED
      BY <1>1, <2>1, <3>1, <3>2, Zenon DEF Checked
  <2>3. Outcome'
    <3>1. /\ ret = "OK" =>
                 (Left = 0 /\ mode \in { "COPY", "MATCH", "LIT" }) \/ (input = << >> /\ Waiting)
          /\ ret \in { "OK", "STREAM_END", "DATA_ERROR" }
          /\ ret = "STREAM_END" => mode = "DONE"
          /\ ret = "DATA_ERROR" => mode = "BAD"
          /\ flush = "FINISH" => input = << >> /\ Stopped
      BY <1>1, <2>0 DEF OpenInv, Outcome
    <3>2. ret' \in { "OK", "BUF_ERROR" } => ret = "OK"
      BY <1>1, <3>1
    <3>3. ASSUME ret' \in { "OK", "BUF_ERROR" }, ~(input = << >> /\ Waiting)
          PROVE  /\ Left = 0 /\ mode \in { "COPY", "MATCH", "LIT" }
                 /\ ret' = "OK" /\ flush = "NO_FLUSH"
      <4>1. Left = 0 /\ mode \in { "COPY", "MATCH", "LIT" } /\ ret = "OK"
        BY <3>1, <3>2, <3>3
      <4>2. flush # "FINISH"
        BY <3>1, <3>3, <4>1 DEF Stopped
      <4>3. flush = "NO_FLUSH"
        BY <4>2, TypesNow
      <4>4. out0 = BufSize
        <5>1. mode \in Before /\ pc \in { "inflate", "leave" }
          BY <1>1, <4>1 DEF Before
        <5> QED
          BY <2>0, <5>1, Zenon DEF Inv, WindowFollows
      <4>5. out0 # Left
        BY <4>1, <4>4, Constants
      <4> QED
        BY <1>1, <4>1, <4>3, <4>5
    <3>4. ret' \in { "OK", "BUF_ERROR", "STREAM_END", "DATA_ERROR" }
          /\ (ret' = "STREAM_END" => mode = "DONE") /\ (ret' = "DATA_ERROR" => mode = "BAD")
      BY <1>1, <3>1
    <3> QED
      BY <1>1, <2>1, <3>1, <3>3, <3>4 DEF Outcome
  <2> QED
    BY <2>1, <2>2, <2>3, Zenon DEF OpenInv
<1> QED
  BY <1>2, <1>3

LEMMA LeaveNoMemoryText ==
    ASSUME Inv, Quiet, stage = "open" => OpenInv, LeaveNoMemory
    PROVE  Quiet' /\ (stage' = "open" => OpenInv')
<1>1. /\ pc = "leave" /\ pc' = "called" /\ ret' = "MEM_ERROR" /\ mode' = "MEM"
      /\ NeedsWindow /\ wsize = 0
      /\ UNCHANGED << flush, input, buf, luabuf, last, flags, length, offset, hold, history >>
  BY Zenon DEF LeaveNoMemory, InfReturn, io, code
<1>2. Quiet'
  BY <1>1 DEF Quiet
<1>3. ASSUME stage' = "open" PROVE OpenInv'
  <2>0. OpenInv
    BY <1>1, <1>3 DEF history
  <2>1. mode # "BAD"
    BY <1>1 DEF NeedsWindow
  <2>2. PICK p \in Parses : Reached(fed, hold, input, p)
    BY <2>0, <2>1, Zenon DEF OpenInv, Parsed, Follows
  <2>3. SaysAt(p, mode', Text', hold', length', offset', last', flags')
    BY <1>1, SayMem, Zenon
  <2>4. Parsed'
    BY <1>1, <2>2, <2>3, ReachedFollows, Zenon DEF Parsed, history
  <2>5. Checked'
    BY <1>1, Zenon DEF Checked
  <2>6. Outcome'
    <3>1. flush = "FINISH" => input = << >>
      BY <1>1, <2>0 DEF OpenInv, Outcome
    <3>2. Stopped'
      BY <1>1 DEF Stopped
    <3> QED
      BY <1>1, <3>1, <3>2 DEF Outcome
  <2> QED
    BY <2>4, <2>5, <2>6, Zenon DEF OpenInv
<1> QED
  BY <1>2, <1>3

\* A call that raises an error ends the stream.
LEMMA RaiseText ==
    ASSUME NEW next, Raise(next)
    PROVE  Quiet' /\ stage' # "open"
<1>1. /\ pc' = "idle" /\ buf' = << >> /\ luabuf' = << >> /\ input' = << >>
      /\ stage' \in { "refused", "stale" }
  BY RaiseCases
<1>2. Quiet'
  BY <1>1, EndIsQuiet, Zenon
<1> QED
  BY <1>1, <1>2

\* What zlib_error lets through.
LEMMA NoErrorMeans ==
    ASSUME Inv, OpenInv, pc = "called", ~Error
    PROVE  /\ mode # "MEM" => check = Text
           /\ mode # "BAD"
           /\ \/ ret = "OK" /\ Left = 0 /\ mode \in { "COPY", "MATCH", "LIT" }
              \/ ret = "OK" /\ input = << >> /\ Waiting
              \/ ret = "STREAM_END" /\ mode = "DONE"
              \/ ret = "NEED_DICT" /\ mode = "DICT"
           /\ flush = "FINISH" => input = << >> /\ Stopped
<1>1. ret \in { "OK", "STREAM_END", "NEED_DICT" }
  BY TypesNow DEF Error, Returns
<1>2. \/ ret = "OK" /\ Left = 0 /\ mode \in { "COPY", "MATCH", "LIT" }
      \/ ret = "OK" /\ input = << >> /\ Waiting
      \/ ret = "STREAM_END" /\ mode = "DONE"
      \/ ret = "NEED_DICT" /\ mode = "DICT"
  BY <1>1 DEF OpenInv, Outcome
<1>3. mode # "BAD"
  BY <1>2 DEF Waiting
<1>4. mode # "MEM" => check = Text
  BY Zenon DEF OpenInv, Checked
<1>5. flush = "FINISH" => input = << >> /\ Stopped
  BY DEF OpenInv, Outcome
<1> QED
  BY <1>2, <1>3, <1>4, <1>5

LEMMA GoOnText ==
    ASSUME Inv, Quiet, stage = "open" => OpenInv, GoOn
    PROVE  Quiet' /\ (stage' = "open" => OpenInv')
<1>1. /\ pc = "called" /\ ~Error
      /\ UNCHANGED << flush, ret, mode, last, flags, length, offset, hold, check, out0 >>
      /\ \/ /\ pc' = "loop" /\ luabuf' = luabuf \o buf /\ buf' = << >>
            /\ UNCHANGED << input, history >>
         \/ Raise("stale")
  BY Zenon DEF GoOn, code, progress
<1>2. CASE /\ pc' = "loop" /\ luabuf' = luabuf \o buf /\ buf' = << >>
           /\ UNCHANGED << input, history >>
  <2>1. Quiet'
    BY <1>2 DEF Quiet
  <2>2. ASSUME stage' = "open" PROVE OpenInv'
    <3>0. OpenInv /\ out' = out /\ fed' = fed
      BY <1>2, <2>2 DEF history
    <3>1. /\ mode # "MEM" => check = Text
          /\ mode # "BAD"
          /\ flush = "FINISH" => input = << >> /\ Stopped
      BY <1>1, <3>0, NoErrorMeans, Zenon
    <3>2. Cat(out', luabuf') = Text /\ Text' = Text
      <4>1. PICK a \in Seq(Nat), b \in Seq(Nat), c \in Seq(Nat) : a = out /\ b = luabuf /\ c = buf
        BY TypesNow
      <4>2. Cat(Cat(a, b), c) = Cat(a, Cat(b, c))
        BY CatAssoc
      <4>3. PICK d \in Seq(Nat) : d = Cat(a, Cat(b, c))
        BY CatType
      <4>4. Cat(d, << >>) = d
        BY CatEmpty
      <4>5. luabuf' = Cat(b, c)
        BY <1>2, <4>1, Zenon DEF Cat
      <4> QED
        BY <1>2, <3>0, <4>1, <4>2, <4>3, <4>4, <4>5, Zenon DEF Text
    <3>3. Parsed'
      <4>1. PICK p \in Parses : /\ Follows(fed, mode, hold, input, p)
                                /\ SaysAt(p, mode, Text, hold, length, offset, last, flags)
        BY <3>0, Zenon DEF OpenInv, Parsed
      <4> QED
        BY <1>1, <1>2, <3>0, <3>2, <4>1, Zenon DEF Parsed
    <3>4. Checked'
      <4>1. pc' \notin { "inflate", "leave" } /\ pc' # "called"
        BY <1>2
      <4> QED
        BY <1>1, <3>1, <3>2, <4>1, Zenon DEF Checked
    <3>5. Outcome'
      <4>1. Stopped' <=> Stopped
        BY <1>1, <1>2, Zenon DEF Stopped, Waiting
      <4> QED
        BY <1>1, <1>2, <3>1, <4>1 DEF Outcome
    <3> QED
      BY <3>3, <3>4, <3>5, Zenon DEF OpenInv
  <2> QED
    BY <2>1, <2>2
<1>3. CASE Raise("stale")
  BY <1>3, RaiseText, Zenon
<1> QED
  BY <1>1, <1>2, <1>3

LEMMA CallReturnsText ==
    ASSUME Inv, Quiet, stage = "open" => OpenInv, CallReturns
    PROVE  Quiet' /\ (stage' = "open" => OpenInv')
<1>1. /\ pc = "called" /\ ~Error /\ ~Again
      /\ UNCHANGED << flush, ret, mode, last, flags, length, offset, hold, check, out0 >>
      /\ \/ Return(luabuf \o buf, IF flush = "FINISH" THEN "finished" ELSE "open")
         \/ Raise("stale")
  BY Zenon DEF CallReturns, code, progress
<1>2. CASE Return(luabuf \o buf, IF flush = "FINISH" THEN "finished" ELSE "open")
  <2>1. /\ pc' = "idle" /\ buf' = << >> /\ luabuf' = << >> /\ input' = << >>
        /\ \/ /\ stage = "open" /\ stage' = IF flush = "FINISH" THEN "finished" ELSE "open"
              /\ out' = out \o (luabuf \o buf) /\ fed' = fed
           \/ stage' = "stale" /\ out' = << >> /\ fed' = << >>
    <3>1. PICK next, r : /\ next = IF flush = "FINISH" THEN "finished" ELSE "open"
                         /\ r = luabuf \o buf
      OBVIOUS
    <3>2. Return(r, next)
      BY <1>2, <3>1, Zenon
    <3>3. /\ pc' = "idle" /\ buf' = << >> /\ luabuf' = << >> /\ input' = << >>
          /\ \/ stage = "open" /\ stage' = next /\ out' = out \o r /\ fed' = fed
             \/ stage' = "stale" /\ out' = << >> /\ fed' = << >>
      BY <3>2, ReturnCases, Zenon
    <3> QED
      BY <3>1, <3>3, Zenon
  <2>2. Quiet'
    BY <2>1, EndIsQuiet, Zenon
  <2>3. ASSUME stage' = "open" PROVE OpenInv'
    <3>0. OpenInv /\ flush # "FINISH" /\ out' = out \o (luabuf \o buf) /\ fed' = fed
      BY <2>1, <2>3
    <3>1. /\ mode # "MEM" => check = Text
          /\ mode # "BAD"
          /\ \/ ret = "OK" /\ Left = 0 /\ mode \in { "COPY", "MATCH", "LIT" }
             \/ ret = "OK" /\ input = << >> /\ Waiting
             \/ ret = "STREAM_END" /\ mode = "DONE"
             \/ ret = "NEED_DICT" /\ mode = "DICT"
      BY <1>1, <3>0, NoErrorMeans, Zenon
    <3>2. Left # 0
      BY <1>1, <3>0 DEF Again
    <3>3. out' = Text /\ Cat(out', luabuf') = Text /\ Text' = Text
      <4>1. PICK a \in Seq(Nat), b \in Seq(Nat), c \in Seq(Nat) : a = out /\ b = luabuf /\ c = buf
        BY TypesNow
      <4>2. Cat(Cat(a, b), c) = Cat(a, Cat(b, c))
        BY CatAssoc
      <4>3. PICK d \in Seq(Nat) : d = Cat(a, Cat(b, c))
        BY CatType
      <4>4. Cat(d, << >>) = d
        BY CatEmpty
      <4>5. out' = d
        BY <3>0, <4>1, <4>3, Zenon DEF Cat
      <4> QED
        BY <2>1, <4>1, <4>2, <4>3, <4>4, <4>5, Zenon DEF Text
    <3>4. PICK p \in Parses : /\ Reached(fed, hold, input, p)
                              /\ SaysAt(p, mode, Text, hold, length, offset, last, flags)
      BY <3>0, <3>1, Zenon DEF OpenInv, Parsed, Follows
    <3>5. Reached(fed, hold, << >>, p)
      <4>1. CASE input = << >>
        BY <3>4, <4>1, Zenon
      <4>2. CASE input # << >>
        <5>1. mode \in { "DONE", "DICT" }
          BY <3>1, <3>2, <4>2
        <5>2. p.at \in { "end", "dict" } /\ hold = << >>
          BY <3>4, <5>1 DEF SaysAt
        <5>3. Reached(fed, << >>, input, p)
          BY <3>4, <5>2, Zenon
        <5>4. Reached(fed, << >>, << >>, p)
          BY <5>2, <5>3, ReachedEnd
        <5> QED
          BY <5>2, <5>4, Zenon
      <4> QED
        BY <4>1, <4>2
    <3>6. Parsed'
      BY <1>1, <2>1, <3>0, <3>3, <3>4, <3>5, ReachedFollows, Zenon DEF Parsed
    <3>7. Checked'
      <4>1. pc' \notin { "inflate", "leave" } /\ pc' # "called"
        BY <2>1
      <4> QED
        BY <1>1, <3>1, <3>3, <4>1, Zenon DEF Checked
    <3>8. Outcome'
      <4>1. Stopped
        BY <3>1, <3>2 DEF Stopped
      <4>2. Stopped' /\ mode' # "BAD"
        BY <1>1, <3>1, <4>1, Zenon DEF Stopped, Waiting
      <4> QED
        BY <2>1, <4>2 DEF Outcome
    <3> QED
      BY <3>6, <3>7, <3>8, Zenon DEF OpenInv
  <2> QED
    BY <2>2, <2>3
<1>3. CASE Raise("stale")
  BY <1>3, RaiseText, Zenon
<1> QED
  BY <1>1, <1>2, <1>3

-----------------------------------------------------------------------------
(* The specification keeps the text.                                       *)

LEMMA TextInit == Init => TextInv
<1> SUFFICES ASSUME Init PROVE TextInv
  OBVIOUS
<1>1. /\ pc = "none" /\ input = << >> /\ buf = << >> /\ luabuf = << >>
      /\ mode = "HEAD" /\ last = FALSE /\ hold = << >> /\ check = << >>
      /\ fed = << >> /\ out = << >> /\ stage = "stale"
  BY Zenon DEF Init
<1>2. Quiet
  BY <1>1, Zenon DEF Quiet
<1>3. stage # "open"
  BY <1>1
<1> QED
  BY <1>2, <1>3, Zenon DEF TextInv

LEMMA TextStep == Inv /\ TextInv /\ [Next]_vars => TextInv'
<1> SUFFICES ASSUME Inv, TextInv, [Next]_vars PROVE Quiet' /\ (stage' = "open" => OpenInv')
  BY Zenon DEF TextInv, OpenInv
<1>0. Quiet /\ (stage = "open" => OpenInv)
  BY Zenon DEF TextInv, OpenInv
<1>1. CASE Create
  BY <1>0, <1>1, CreateText, Zenon
<1>2. CASE \E chunk \in Chunks : Update(chunk)
  BY <1>0, <1>2, UpdateText, Zenon
<1>3. CASE UpdateNothing
  BY <1>0, <1>3, UpdateNothingText, Zenon
<1>4. CASE Finish
  BY <1>0, <1>4, FinishText, Zenon
<1>5. CASE CallInflate
  BY <1>0, <1>5, CallInflateText, Zenon
<1>6. CASE \/ PullByte \/ NoInput \/ ReadHead \/ NeedDict \/ ReadBlockHeader \/ LastBlock
           \/ CopyStored \/ ReadCode \/ ReadDist \/ Match \/ Literal \/ DecodeFast
           \/ CheckText \/ CheckLength \/ Over
  <2>1. /\ pc = "inflate" /\ pc' \in { "inflate", "leave", "called" }
        /\ UNCHANGED << flush, luabuf, fed, out, stage >>
    BY <1>6, InflateIsInside, Zenon
  <2>2. Quiet'
    BY <2>1 DEF Quiet
  <2>3. ASSUME stage' = "open" PROVE OpenInv'
    <3>1. stage = "open"
      BY <2>1, <2>3
    <3> QED
      BY <1>0, <1>6, <3>1, InflateText, Zenon
  <2> QED
    BY <2>2, <2>3
<1>7. CASE Leave
  BY <1>0, <1>7, LeaveText, Zenon
<1>8. CASE LeaveNoMemory
  BY <1>0, <1>8, LeaveNoMemoryText, Zenon
<1>9. CASE ZlibError
  <2>1. \E next : Raise(next)
    BY <1>9, Zenon DEF ZlibError
  <2> QED
    BY <2>1, RaiseText, Zenon
<1>10. CASE GoOn
  BY <1>0, <1>10, GoOnText, Zenon
<1>11. CASE CallReturns
  BY <1>0, <1>11, CallReturnsText, Zenon
<1>12. CASE UNCHANGED vars
  <2>1. UNCHANGED << pc, flush, ret, input, buf, luabuf, mode, last, flags, length, offset, hold,
                     check, out0, fed, out, stage >>
    BY <1>12, Zenon DEF vars, io, code, win, progress, history
  <2>2. Text' = Text /\ Left' = Left /\ (Waiting' <=> Waiting) /\ (Stopped' <=> Stopped)
    BY <2>1, Zenon DEF Text, Left, Waiting, Stopped
  <2>3. Quiet'
    BY <1>0, <2>1, Zenon DEF Quiet
  <2>4. ASSUME stage' = "open" PROVE OpenInv'
    <3>1. OpenInv
      BY <1>0, <2>1, <2>4
    <3>2. Parsed'
      BY <2>1, <2>2, <3>1, Zenon DEF OpenInv, Parsed
    <3>3. Checked'
      BY <2>1, <2>2, <3>1, Zenon DEF OpenInv, Checked
    <3>4. Outcome'
      BY <2>1, <2>2, <3>1, Zenon DEF OpenInv, Outcome
    <3> QED
      BY <3>2, <3>3, <3>4, Zenon DEF OpenInv
  <2> QED
    BY <2>3, <2>4
<1> QED
  BY <1>1, <1>2, <1>3, <1>4, <1>5, <1>6, <1>7, <1>8, <1>9, <1>10, <1>11, <1>12, Zenon
     DEF Next, Caller, System

LEMMA TextHolds == Spec => []TextInv
BY TextInit, TextStep, InvHolds, PTL DEF Spec

\* At every step of every call, what was put out and what is waiting for room is the text of the
\* items read, for every stream, every way to cut it up and every size of buffer and window.
THEOREM TextIsDecoded == Spec => []DecodedIsText
<1>1. Inv /\ TextInv => DecodedIsText
  <2> SUFFICES ASSUME Inv, TextInv, InBlocks
               PROVE  Decoded = IF mode = "LIT" THEN Append(Produced, length)
                                ELSE IF mode = "MATCH" /\ offset <= Len(Produced)
                                THEN Produced \o Repeat(Produced, length, offset)
                                ELSE IF mode = "MATCH" THEN Decoded
                                ELSE Produced
    BY Zenon DEF DecodedIsText
  <2>1. stage = "open" /\ mode \in { "TYPE", "COPY", "LEN", "DIST", "MATCH", "LIT" }
    BY DEF InBlocks
  <2>2. OpenInv /\ mode # "BAD"
    BY <2>1 DEF TextInv, OpenInv
  <2>3. PICK p \in Parses : /\ Reached(fed, hold, input, p)
                            /\ SaysAt(p, mode, Text, hold, length, offset, last, flags)
    BY <2>2, Zenon DEF OpenInv, Parsed, Follows
  <2>4. PICK s : Reading(fed, hold, input, s) /\ Parse(s) = p
    BY <2>3, Zenon DEF Reached
  <2>5. Decoded = p.text
    <3>1. LET items == FlattenSeq(SubSeq(fed, 1, Len(fed) - Len(input)))
          IN  SubSeq(items, 1, Len(items) - Len(hold)) = s
      BY <2>4, ReadingIs, Zenon
    <3> QED
      BY <2>4, <3>1, Zenon DEF Decoded
  <2>6. Produced = Text
    <3>1. PICK a \in Seq(Nat), b \in Seq(Nat), c \in Seq(Nat) : a = out /\ b = luabuf /\ c = buf
      BY TypesNow
    <3>2. Cat(Cat(a, b), c) = Cat(a, Cat(b, c))
      BY CatAssoc
    <3> QED
      BY <3>1, <3>2, Zenon DEF Text, Produced, Cat
  <2>7. CASE mode = "LIT"
    <3>1. p.text = Append(Text, length)
      BY <2>3, <2>7, Zenon DEF SaysAt
    <3> QED
      BY <2>5, <2>6, <2>7, <3>1, Zenon
  <2>8. CASE mode = "MATCH"
    <3>0. mode # "LIT"
      BY <2>8
    <3>1. offset <= Len(Text) => p.text = Cat(Text, Repeat(Text, length, offset))
      BY <2>3, <2>8, Zenon DEF SaysAt
    <3> QED
      BY <2>5, <2>6, <2>8, <3>0, <3>1, Zenon DEF Cat
  <2>9. CASE mode \in { "TYPE", "COPY", "LEN", "DIST" }
    <3>1. p.text = Text
      BY <2>3, <2>9, Zenon DEF SaysAt
    <3>2. mode # "LIT" /\ mode # "MATCH"
      BY <2>9
    <3> QED
      BY <2>5, <2>6, <3>1, <3>2, Zenon
  <2> QED
    BY <2>1, <2>7, <2>8, <2>9
<1> QED
  BY <1>1, InvHolds, TextHolds, PTL

-----------------------------------------------------------------------------
(* The filter keeps the contract.                                          *)

\* A call of inflate() for finish() never ends with Z_OK.
NeverOK == pc = "called" /\ ret = "OK" => flush = "NO_FLUSH"

LEMMA NeverOKStep == Inv /\ NeverOK /\ [Next]_vars => NeverOK'
<1> SUFFICES ASSUME Inv, NeverOK, [Next]_vars PROVE NeverOK'
  OBVIOUS
<1>1. CASE Create
  BY <1>1 DEF Create, NeverOK
<1>2. CASE \E chunk \in Chunks : Update(chunk)
  <2>1. pc' = "loop"
    BY <1>2, Zenon DEF Update
  <2> QED
    BY <2>1 DEF NeverOK
<1>3. CASE UpdateNothing
  <2>1. pc' = "idle"
    BY <1>3, Zenon DEF UpdateNothing, Return
  <2> QED
    BY <2>1 DEF NeverOK
<1>4. CASE Finish
  BY <1>4 DEF Finish, NeverOK
<1>5. CASE CallInflate
  BY <1>5 DEF CallInflate, NeverOK
<1>6. CASE NeedDict \/ Over
  <2>1. /\ pc' \in { "leave", "called" }
        /\ pc' = "called" => ret' \in { "NEED_DICT", "MEM_ERROR" }
    BY <1>6 DEF NeedDict, Over, InfLeave, InfReturn
  <2> QED
    BY <2>1 DEF NeverOK
<1>7. CASE \/ PullByte \/ NoInput \/ ReadHead \/ ReadBlockHeader \/ LastBlock
           \/ CopyStored \/ ReadCode \/ ReadDist \/ Match \/ Literal \/ DecodeFast
           \/ CheckText \/ CheckLength
  <2>1. pc = "inflate" /\ pc' \in { "inflate", "leave" }
    <3>1. pc = "inflate"
      BY <1>7, InflateIsInside, Zenon
    <3>2. pc' \in { pc, "leave" }
      BY <1>7, Zenon DEF PullByte, NoInput, ReadHead, ReadBlockHeader, LastBlock, CopyStored,
         ReadCode, ReadDist, Match, Literal, DecodeFast, CheckText, CheckLength, InfLeave
    <3> QED
      BY <3>1, <3>2
  <2> QED
    BY <2>1 DEF NeverOK
<1>8. CASE Leave
  <2>1. /\ ret' = IF ret = "OK" /\ (flush = "FINISH" \/ (in0 = Len(input) /\ out0 = Left))
                  THEN "BUF_ERROR" ELSE ret
        /\ flush' = flush
    BY <1>8, Zenon DEF Leave
  <2>2. flush \in { "NO_FLUSH", "FINISH" }
    BY TypesNow, Zenon
  <2>3. ret' = "OK" => flush # "FINISH"
    BY <2>1
  <2> QED
    BY <2>1, <2>2, <2>3 DEF NeverOK
<1>9. CASE LeaveNoMemory
  <2>1. ret' = "MEM_ERROR"
    BY <1>9, Zenon DEF LeaveNoMemory, InfReturn
  <2> QED
    BY <2>1 DEF NeverOK
<1>10. CASE ZlibError \/ CallReturns
  <2>1. pc' = "idle"
    BY <1>10, Zenon DEF ZlibError, CallReturns, Raise, Return
  <2> QED
    BY <2>1 DEF NeverOK
<1>11. CASE GoOn
  <2>1. pc' = "idle" \/ pc' = "loop"
    BY <1>11, Zenon DEF GoOn, Raise
  <2> QED
    BY <2>1 DEF NeverOK
<1>12. CASE UNCHANGED vars
  BY <1>12 DEF vars, NeverOK
<1> QED
  BY <1>1, <1>2, <1>3, <1>4, <1>5, <1>6, <1>7, <1>8, <1>9, <1>10, <1>11, <1>12, Zenon
     DEF Next, Caller, System

\* What finish() may return with.
LEMMA EndIsComplete ==
    ASSUME Inv, TextInv, NeverOK, stage = "open", pc = "called", ~Error, flush = "FINISH"
    PROVE  Complete("decompress", fed, Text)
<1>1. OpenInv
  BY Zenon DEF TextInv, OpenInv
<1>2. mode # "BAD" /\ mode \in { "DONE", "DICT" }
  <2>1. ret # "OK"
    BY DEF NeverOK
  <2>2. /\ mode # "BAD"
        /\ \/ ret = "OK" /\ Left = 0 /\ mode \in { "COPY", "MATCH", "LIT" }
           \/ ret = "OK" /\ input = << >> /\ Waiting
           \/ ret = "STREAM_END" /\ mode = "DONE"
           \/ ret = "NEED_DICT" /\ mode = "DICT"
    BY <1>1, NoErrorMeans, Zenon
  <2> QED
    BY <2>1, <2>2
<1>3. PICK p \in Parses : /\ Reached(fed, hold, input, p)
                          /\ SaysAt(p, mode, Text, hold, length, offset, last, flags)
  BY <1>1, <1>2, Zenon DEF OpenInv, Parsed, Follows
<1>4. CASE mode = "DONE"
  <2>1. p.text = Text /\ p.at = "end"
    BY <1>3, <1>4, Zenon DEF SaysAt
  <2>2. Parse(FlattenSeq(fed)) = p
    BY <1>3, <2>1, ReachedAll
  <2>3. Whole(fed) /\ TextOf(fed) = Text
    BY <2>1, <2>2, Zenon DEF Whole, TextOf
  <2>4. p.at # "dict"
    BY <2>1
  <2>5. ~NeedsDictionary(fed)
    BY <2>2, <2>4, Zenon DEF NeedsDictionary
  <2> QED
    BY <2>3, <2>5, Zenon DEF Complete
<1>5. CASE mode = "DICT"
  <2>1. Text = << >> /\ p.at = "dict"
    BY <1>3, <1>5, Zenon DEF SaysAt
  <2>2. Parse(FlattenSeq(fed)) = p
    BY <1>3, <2>1, ReachedAll
  <2>3. NeedsDictionary(fed)
    BY <2>1, <2>2, Zenon DEF NeedsDictionary
  <2> QED
    BY <2>1, <2>3, Zenon DEF Complete
<1> QED
  BY <1>2, <1>4, <1>5

\* What an error may be raised on.
LEMMA ErrorIsRefusable ==
    ASSUME Inv, TextInv, stage = "open", pc = "called", ret \in { "DATA_ERROR", "BUF_ERROR" }
    PROVE  Refusable("decompress", fed)
<1>1. OpenInv
  BY Zenon DEF TextInv, OpenInv
<1>2. CASE ret = "DATA_ERROR"
  <2>1. mode = "BAD"
    BY <1>1, <1>2 DEF OpenInv, Outcome
  <2>2. PICK p \in Parses : p.at = "bad" /\ \E g, y : Reached(fed, g, y, p)
    BY <1>1, <2>1, Zenon DEF OpenInv, Parsed, Follows, SaysAt
  <2>3. PICK g, y : Reached(fed, g, y, p)
    BY <2>2
  <2>4. Parse(FlattenSeq(fed)).at = "bad"
    BY <2>2, <2>3, ReachedAll
  <2> QED
    BY <2>4 DEF Refusable, Whole, NeedsDictionary
<1>3. CASE ret = "BUF_ERROR"
  <2>1. input = << >> /\ Waiting
    BY <1>1, <1>3 DEF OpenInv, Outcome
  <2>2. mode # "BAD" /\ hold = << >>
    BY <2>1 DEF Waiting
  <2>3. PICK p \in Parses : /\ Reached(fed, hold, input, p)
                            /\ SaysAt(p, mode, Text, hold, length, offset, last, flags)
    BY <1>1, <2>2, Zenon DEF OpenInv, Parsed, Follows
  <2>4. Parse(FlattenSeq(fed)) = p
    BY <2>1, <2>2, <2>3, ReachedAll
  <2>5. p.at \notin { "end", "dict" }
    <3>1. CASE mode = "HEAD"
      <4>1. p = Start
        BY <2>3, <3>1, Zenon DEF SaysAt
      <4> QED
        BY <4>1 DEF Start
    <3>2. CASE mode = "LEN"
      BY <2>3, <3>2 DEF SaysAt
    <3>3. CASE mode = "DIST"
      BY <2>3, <3>3 DEF SaysAt
    <3>4. CASE mode = "CHECK"
      BY <2>3, <3>4 DEF SaysAt
    <3>5. CASE mode = "TYPE" /\ ~last
      BY <2>3, <3>5 DEF SaysAt, BlockEnd
    <3>6. CASE mode = "LENGTH" /\ flags
      BY <2>3, <3>6 DEF SaysAt
    <3>7. CASE mode = "COPY" /\ length > 0
      BY <2>3, <3>7 DEF SaysAt
    <3> QED
      BY <2>1, <3>1, <3>2, <3>3, <3>4, <3>5, <3>6, <3>7 DEF Waiting
  <2> QED
    BY <2>4, <2>5 DEF Refusable, Whole, NeedsDictionary
<1> QED
  BY <1>2, <1>3

\* An error for want of memory gives the stream up.
LEMMA Lost == ASSUME Raise("stale") PROVE Contract!FNext
<1>1. stage' = "stale"
  BY DEF Raise
<1> QED
  BY <1>1 DEF Contract!FNext, Contract!Abandon, Contract!Outside

\* A call that returns a string adds it to the output.
LEMMA Returned ==
    ASSUME Inv, NEW r \in Seq(Nat), stage = "open", stage' = "open", out' = out \o r, fed' = fed
    PROVE  Contract!Update
<1>1. IsPrefix(out, out')
  <2>1. out \in Seq(Nat)
    BY TypesNow, Zenon
  <2>2. IsPrefix(out, Cat(out, r))
    BY <2>1, PrefixOfJoin DEF Cat
  <2> QED
    BY <2>2, Zenon DEF Cat
<1>2. IsPrefix(fed, fed')
  BY TypesNow, PrefixOfItself
<1> QED
  BY <1>1, <1>2, Zenon DEF Contract!Update, Contract!IsPrefix, IsPrefix

LEMMA ContractStep ==
    Inv /\ TextInv /\ NeverOK /\ [Next]_vars => [Contract!FNext]_(Contract!contract)
<1> SUFFICES ASSUME Inv, TextInv, NeverOK, [Next]_vars
             PROVE  Contract!FNext \/ UNCHANGED Contract!contract
  OBVIOUS
<1>0. Quiet
  BY Zenon DEF TextInv
<1>1. CASE Create
  <2>1. stage' = "open" /\ fed' = << >> /\ out' = << >>
    BY <1>0, <1>1 DEF Quiet, Create
  <2> QED
    BY <2>1 DEF Contract!FNext, Contract!Begin
<1>2. CASE \E chunk \in Chunks : Update(chunk)
  <2>1. PICK chunk \in Chunks : Update(chunk)
    BY <1>2, Zenon
  <2>2. stage' = stage /\ out' = out /\ fed' = IF stage = "open" THEN fed \o chunk ELSE << >>
    BY <2>1, Zenon DEF Update
  <2>3. CASE stage = "open"
    <3>1. PICK a \in Seq(AllBytes), b \in Seq(AllBytes) : a = fed /\ b = chunk
      BY TypesNow, ChunkBytes
    <3>2. IsPrefix(a, a \o b)
      BY PrefixOfJoin
    <3>3. IsPrefix(fed, fed')
      BY <2>2, <2>3, <3>1, <3>2, Zenon
    <3>4. IsPrefix(out, out')
      BY <2>2, TypesNow, PrefixOfItself
    <3>5. Contract!Update
      BY <2>2, <2>3, <3>3, <3>4, Zenon DEF Contract!Update, Contract!IsPrefix, IsPrefix
    <3> QED
      BY <3>5 DEF Contract!FNext
  <2>4. CASE stage # "open"
    BY <2>2, <2>4 DEF Contract!FNext, Contract!Outside
  <2> QED
    BY <2>3, <2>4
<1>3. CASE UpdateNothing
  <2>1. \/ stage = "open" /\ stage' = "open" /\ out' = out \o << >> /\ fed' = fed
        \/ stage' = "stale"
    BY <1>3, ReturnCases, Zenon DEF UpdateNothing
  <2>2. CASE stage' = "stale"
    BY <2>2 DEF Contract!FNext, Contract!Abandon, Contract!Outside
  <2>3. CASE stage = "open" /\ stage' = "open" /\ out' = out \o << >> /\ fed' = fed
    <3>1. PICK r \in Seq(Nat) : r = << >>
      BY EmptySeq
    <3>2. out' = out \o r
      BY <2>3, <3>1, Zenon
    <3>3. Contract!Update
      BY <2>3, <3>2, Returned
    <3> QED
      BY <3>3 DEF Contract!FNext
  <2> QED
    BY <2>1, <2>2, <2>3
<1>4. CASE Finish \/ CallInflate \/ Leave \/ LeaveNoMemory
  BY <1>4, Zenon DEF Finish, CallInflate, Leave, LeaveNoMemory, history, Contract!contract
<1>5. CASE \/ PullByte \/ NoInput \/ ReadHead \/ NeedDict \/ ReadBlockHeader \/ LastBlock
           \/ CopyStored \/ ReadCode \/ ReadDist \/ Match \/ Literal \/ DecodeFast
           \/ CheckText \/ CheckLength \/ Over
  <2>1. UNCHANGED << fed, out, stage >>
    BY <1>5, InflateIsInside, Zenon
  <2> QED
    BY <2>1 DEF Contract!contract
<1>6. CASE ZlibError
  <2>1. pc = "called" /\ Error /\ Raise(IF ret = "MEM_ERROR" THEN "stale" ELSE "refused")
    BY <1>6, Zenon DEF ZlibError
  <2>2. CASE ret = "MEM_ERROR"
    BY <2>1, <2>2, Lost
  <2>3. CASE ret # "MEM_ERROR"
    <3>1. ret \in { "DATA_ERROR", "BUF_ERROR" } /\ Raise("refused")
      BY <2>1, <2>3 DEF Error
    <3>2. CASE stage = "open"
      <4>1. stage' = "refused" /\ UNCHANGED << fed, out >>
        BY <3>1, <3>2 DEF Raise
      <4>2. Refusable("decompress", fed)
        BY <2>1, <3>1, <3>2, ErrorIsRefusable
      <4> QED
        BY <3>2, <4>1, <4>2 DEF Contract!FNext, Contract!Refuse
    <3>3. CASE stage # "open"
      <4>1. stage' = "stale"
        BY <3>1, <3>3 DEF Raise
      <4> QED
        BY <3>3, <4>1 DEF Contract!FNext, Contract!Outside
    <3> QED
      BY <3>2, <3>3
  <2> QED
    BY <2>2, <2>3
<1>7. CASE GoOn
  <2>1. UNCHANGED history \/ Raise("stale")
    BY <1>7, Zenon DEF GoOn
  <2> QED
    BY <2>1, Lost, Zenon DEF history, Contract!contract
<1>8. CASE CallReturns
  <2>1. /\ pc = "called" /\ ~Error
        /\ \/ Return(luabuf \o buf, IF flush = "FINISH" THEN "finished" ELSE "open")
           \/ Raise("stale")
    BY <1>8, Zenon DEF CallReturns
  <2>2. CASE Return(luabuf \o buf, IF flush = "FINISH" THEN "finished" ELSE "open")
    <3>1. PICK r \in Seq(Nat) : r = luabuf \o buf
      <4>1. luabuf \in Seq(Nat) /\ buf \in Seq(Nat)
        BY TypesNow, Zenon
      <4>2. Cat(luabuf, buf) \in Seq(Nat)
        BY <4>1, CatType
      <4> QED
        BY <4>2, Zenon DEF Cat
    <3>2. PICK next : next = IF flush = "FINISH" THEN "finished" ELSE "open"
      OBVIOUS
    <3>3. Return(r, next)
      BY <2>2, <3>1, <3>2, Zenon
    <3>4. \/ stage = "open" /\ stage' = next /\ out' = out \o r /\ fed' = fed
          \/ stage # "open" /\ stage' = "stale"
      BY <3>3, Zenon DEF Return
    <3>5. CASE stage # "open" /\ stage' = "stale"
      BY <3>5 DEF Contract!FNext, Contract!Outside
    <3>6. CASE stage = "open" /\ stage' = next /\ out' = out \o r /\ fed' = fed
      <4>1. CASE flush # "FINISH"
        <5>1. stage' = "open"
          BY <3>2, <3>6, <4>1
        <5>2. Contract!Update
          BY <3>6, <5>1, Returned
        <5> QED
          BY <5>2 DEF Contract!FNext
      <4>2. CASE flush = "FINISH"
        <5>1. stage' = "finished"
          BY <3>2, <3>6, <4>2
        <5>2. Text = out'
          <6>1. PICK a \in Seq(Nat), b \in Seq(Nat), c \in Seq(Nat) :
                    a = out /\ b = luabuf /\ c = buf
            BY TypesNow
          <6>2. Cat(Cat(a, b), c) = Cat(a, Cat(b, c))
            BY CatAssoc
          <6> QED
            BY <3>1, <3>6, <6>1, <6>2, Zenon DEF Text, Cat
        <5>3. Complete("decompress", fed, out')
          BY <2>1, <3>6, <4>2, <5>2, EndIsComplete, Zenon
        <5>4. IsPrefix(out, out')
          <6>1. out \in Seq(Nat)
            BY TypesNow, Zenon
          <6>2. IsPrefix(out, Cat(out, r))
            BY <6>1, PrefixOfJoin DEF Cat
          <6> QED
            BY <3>6, <6>2, Zenon DEF Cat
        <5>5. Contract!Finish
          BY <3>6, <5>1, <5>3, <5>4, Zenon DEF Contract!Finish, Contract!IsPrefix, IsPrefix
        <5> QED
          BY <5>5 DEF Contract!FNext
      <4> QED
        BY <4>1, <4>2
    <3> QED
      BY <3>4, <3>5, <3>6
  <2>3. CASE Raise("stale")
    BY <2>3, Lost
  <2> QED
    BY <2>1, <2>2, <2>3
<1>9. CASE UNCHANGED vars
  BY <1>9, Zenon DEF vars, history, Contract!contract
<1> QED
  BY <1>1, <1>2, <1>3, <1>4, <1>5, <1>6, <1>7, <1>8, <1>9, Zenon DEF Next, Caller, System

\* The decompression filter keeps the contract of README.md lines 65-84: however the stream is
\* cut up, what the calls return concatenates to the text of the whole stream in front of the
\* input, and nothing else than data that are no whole stream is refused.
THEOREM InflateKeepsContract == Spec => FilterContract
<1>1. Init => Contract!FInit
  BY Zenon DEF Init, Contract!FInit
<1>2. Init => NeverOK
  BY DEF Init, NeverOK
<1>3. Spec => []NeverOK
  BY <1>2, NeverOKStep, InvHolds, PTL DEF Spec
<1> QED
  BY <1>1, <1>3, ContractStep, InvHolds, TextHolds, PTL
     DEF Spec, FilterContract, Contract!FSpec

=============================================================================
