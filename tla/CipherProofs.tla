---------------------------- MODULE CipherProofs ----------------------------
(***************************************************************************)
(* Proofs about Cipher for every block size, key, initialisation vector    *)
(* and set of messages, from the contract of the mode functions            *)
(* (CipherContract).                                                       *)
(***************************************************************************)
EXTENDS CipherContract, ProofLemmas

-----------------------------------------------------------------------------
(* Blocks and inputs.                                                      *)

\* The constants, as the provers need them.
LEMMA Constants ==
    /\ B \in Nat \ {0} /\ N \in Nat /\ B < N /\ MaxFed \in Nat
    /\ Bytes = 0..(N - 1)
BY CipherConstants DEF Bytes

\* A block is a sequence of B bytes.
LEMMA BlockIsSeq ==
    \A x : x \in Block <=> x \in Seq(Bytes) /\ Len(x) = B
<1>1. ASSUME NEW x \in Block PROVE x \in Seq(Bytes) /\ Len(x) = B
  <2>1. x \in [1..B -> Bytes] /\ B \in Nat
    BY Constants DEF Block
  <2>2. x \in Seq(Bytes)
    BY <2>1, SeqDef
  <2>3. DOMAIN x = 1..B /\ DOMAIN x = 1..Len(x) /\ Len(x) \in Nat
    BY <2>1, <2>2, LenProperties
  <2> QED
    BY <2>1, <2>2, <2>3
<1>2. ASSUME NEW x \in Seq(Bytes), Len(x) = B PROVE x \in Block
  BY <1>2, LenProperties DEF Block
<1> QED
  BY <1>1, <1>2

\* Every short enough sequence of bytes is covered by the contracts.
LEMMA ShortIsData ==
    ASSUME NEW a \in Seq(Bytes), Len(a) <= MaxFed + B
    PROVE  a \in Data
<1>1. Len(a) \in 0..(MaxFed + B) /\ a \in [1..Len(a) -> Bytes]
  BY Constants, LenProperties
<1> QED
  BY <1>1 DEF Data, DataUpTo

\* So is every message by those of the stream modes.
LEMMA ShortIsStreamData ==
    ASSUME NEW a \in Seq(Bytes), Len(a) <= MaxFed
    PROVE  a \in StreamData
<1>1. Len(a) \in 0..MaxFed /\ a \in [1..Len(a) -> Bytes]
  BY Constants, LenProperties
<1> QED
  BY <1>1 DEF StreamData, DataUpTo

\* A call of cbc_func: as much comes out as goes in, and the IV stays an IV.
LEMMA CbcCall ==
    ASSUME NEW s \in Schedules, NEW op \in Operations, NEW v \in Block,
           NEW a \in Seq(Bytes), Len(a) <= MaxFed + B, (Len(a) % B) = 0
    PROVE  /\ CbcOut(s, op, v, a) \in Seq(Bytes)
           /\ Len(CbcOut(s, op, v, a)) = Len(a)
           /\ CbcIv(s, op, v, a) \in Block
           /\ a = << >> => CbcIv(s, op, v, a) = v
<1>1. a \in Data /\ Whole(a)
  BY ShortIsData DEF Whole
<1> QED
  BY <1>1, CbcContract

\* Two calls of cbc_func are one call on the joined input.
LEMMA CbcCalls ==
    ASSUME NEW s \in Schedules, NEW op \in Operations, NEW v \in Block,
           NEW a \in Seq(Bytes), (Len(a) % B) = 0,
           NEW b \in Seq(Bytes), (Len(b) % B) = 0,
           Len(a) + Len(b) <= MaxFed + B
    PROVE  LET mid == CbcIv(s, op, v, a)
           IN  /\ CbcOut(s, op, v, Cat(a, b))
                     = Cat(CbcOut(s, op, v, a), CbcOut(s, op, mid, b))
               /\ CbcIv(s, op, v, Cat(a, b)) = CbcIv(s, op, mid, b)
<1>1. Len(a) \in Nat /\ Len(b) \in Nat
  BY LenProperties
<1>2. Len(a) <= MaxFed + B /\ Len(b) <= MaxFed + B
  BY <1>1, Constants
<1>3. a \in Data /\ Whole(a) /\ Whole(b)
  BY <1>2, ShortIsData DEF Whole
<1>4. Len(b) \in 0..(MaxFed + B - Len(a)) /\ b \in [1..Len(b) -> Bytes]
  BY <1>1, Constants, LenProperties
<1>5. b \in DataUpTo(MaxFed + B - Len(a))
  BY <1>4 DEF DataUpTo
<1> QED
  BY <1>3, <1>5, CbcChaining DEF Cat

\* A call of cfb_func or ctr_func.
LEMMA StreamCall ==
    ASSUME NEW m \in Modes \ { "CBC" }, NEW s \in Schedules, s.dir = "encrypt",
           NEW op \in Operations, NEW st \in StreamStates,
           NEW a \in Seq(Bytes), Len(a) <= MaxFed
    PROVE  /\ StreamOut(m, s, op, st, a) \in Seq(Bytes)
           /\ Len(StreamOut(m, s, op, st, a)) = Len(a)
           /\ StreamState(m, s, op, st, a) \in StreamStates
           /\ a = << >> => StreamState(m, s, op, st, a) = st
           /\ st.off = 0 => StreamOut(m, s, op, st, a)
                               = StreamOut(m, s, op, [st EXCEPT !.block = Zeros], a)
<1>1. s \in [key : Keys, dir : { "encrypt" }]
  BY DEF Schedules
<1>2. a \in StreamData
  BY ShortIsStreamData
<1> QED
  BY <1>1, <1>2, StreamContract

\* A call without input.
LEMMA StreamNothing ==
    ASSUME NEW m \in Modes \ { "CBC" }, NEW s \in Schedules, s.dir = "encrypt",
           NEW op \in Operations, NEW st \in StreamStates
    PROVE  /\ StreamOut(m, s, op, st, << >>) = << >>
           /\ StreamState(m, s, op, st, << >>) = st
<1> DEFINE a == << >>
<1>1. a \in Seq(Bytes) /\ Len(a) = 0 /\ Len(a) <= MaxFed
  BY EmptySeq, Constants
<1> HIDE DEF a
<1>2. /\ StreamOut(m, s, op, st, a) \in Seq(Bytes)
      /\ Len(StreamOut(m, s, op, st, a)) = Len(a)
      /\ StreamState(m, s, op, st, a) \in StreamStates
      /\ a = << >> => StreamState(m, s, op, st, a) = st
      /\ st.off = 0 => StreamOut(m, s, op, st, a)
                          = StreamOut(m, s, op, [st EXCEPT !.block = Zeros], a)
  <2>1. s \in [key : Keys, dir : { "encrypt" }] /\ a \in StreamData
    BY <1>1, ShortIsStreamData DEF Schedules
  <2> QED
    BY <2>1, StreamContract
<1>3. StreamOut(m, s, op, st, a) = << >>
  <2>1. StreamOut(m, s, op, st, a) \in Seq(Bytes) /\ Len(StreamOut(m, s, op, st, a)) = 0
    BY <1>1, <1>2
  <2> QED
    BY <2>1, EmptySeq
<1>4. StreamState(m, s, op, st, a) = st
  BY <1>2 DEF a
<1> QED
  BY <1>3, <1>4 DEF a

\* Two calls of cfb_func or ctr_func are one call on the joined input.
LEMMA StreamCalls ==
    ASSUME NEW m \in Modes \ { "CBC" }, NEW s \in Schedules, s.dir = "encrypt",
           NEW op \in Operations, NEW st \in StreamStates,
           NEW a \in Seq(Bytes), NEW b \in Seq(Bytes), Len(a) + Len(b) <= MaxFed
    PROVE  LET mid == StreamState(m, s, op, st, a)
           IN  /\ StreamOut(m, s, op, st, Cat(a, b))
                     = Cat(StreamOut(m, s, op, st, a), StreamOut(m, s, op, mid, b))
               /\ StreamState(m, s, op, st, Cat(a, b)) = StreamState(m, s, op, mid, b)
<1>1. s \in [key : Keys, dir : { "encrypt" }]
  BY DEF Schedules
<1>2. Len(a) \in Nat /\ Len(b) \in Nat
  BY LenProperties
<1>3. a \in StreamData
  BY <1>2, Constants, ShortIsStreamData
<1>4. Len(b) \in 0..(MaxFed - Len(a)) /\ b \in [1..Len(b) -> Bytes]
  BY <1>2, Constants, LenProperties
<1>5. b \in DataUpTo(MaxFed - Len(a))
  BY <1>4 DEF DataUpTo
<1> QED
  BY <1>1, <1>3, <1>5, StreamChaining DEF Cat

\* A padding is a sequence of bytes.
LEMMA PaddingIsSeq ==
    ASSUME NEW n \in 0..B
    PROVE  Padding(n) \in Seq(Bytes) /\ Len(Padding(n)) = n
<1>1. n \in Nat /\ n \in Bytes
  BY Constants
<1>2. Padding(n) \in [1..n -> Bytes]
  BY <1>1 DEF Padding
<1>3. Padding(n) \in Seq(Bytes)
  BY <1>1, <1>2, SeqDef
<1>4. DOMAIN Padding(n) = 1..n
  BY <1>2
<1>5. DOMAIN Padding(n) = 1..Len(Padding(n)) /\ Len(Padding(n)) \in Nat
  BY <1>3, LenProperties
<1> QED
  BY <1>1, <1>3, <1>4, <1>5

-----------------------------------------------------------------------------
(* How an input is cut.                                                    *)

\* The chunk offered next is a string of bytes that keeps the message within its bound.
LEMMA NextChunk ==
    ASSUME TypeOK, NEW input \in NextChunks
    PROVE  /\ input \in Seq(Bytes) /\ Len(input) <= MaxFed
           /\ stage = "open" => Len(fed \o input) <= MaxFed
<1> DEFINE before == IF stage = "open" THEN fed ELSE << >>
<1>1. PICK m \in Messages : \E k \in Len(before)..Len(m) :
          IsPrefix(before, m) /\ input = SubSeq(m, Len(before) + 1, k)
  BY DEF NextChunks
<1>0. PICK n \in Len(before)..Len(m) : input = SubSeq(m, Len(before) + 1, n)
  BY <1>1
<1>2. m \in Seq(Bytes) /\ Len(m) <= MaxFed /\ Len(m) \in Nat
  BY CipherConstants, LenProperties
<1>3. before \in Seq(Bytes) /\ Len(before) \in Nat
  BY EmptySeq, LenProperties DEF TypeOK
<1>4. \A i \in (Len(before) + 1)..n : m[i] \in Bytes
  BY <1>2, <1>3, ElementOfSeq
<1>5. input \in Seq(Bytes) /\ Len(input) = n - Len(before)
  <2>1. /\ SubSeq(m, Len(before) + 1, n) \in Seq(Bytes)
        /\ Len(SubSeq(m, Len(before) + 1, n))
              = IF Len(before) + 1 <= n THEN n - (Len(before) + 1) + 1 ELSE 0
    <3> HIDE DEF before
    <3> QED
      BY <1>2, <1>3, <1>4, SubSeqProperties
  <2> HIDE DEF before
  <2> QED
    BY <1>0, <1>2, <1>3, <2>1
<1>6. stage = "open" => Len(fed \o input) = n
  BY <1>3, <1>5, ConcatProperties
<1> QED
  <2> HIDE DEF before
  <2> QED
    BY <1>0, <1>2, <1>3, <1>5, <1>6, Constants

\* The cached bytes are a sequence of unprocessed_len bytes.
LEMMA CachedIsSeq ==
    ASSUME TypeOK, mode = "CBC"
    PROVE  /\ Cached \in Seq(Bytes) /\ Len(Cached) = unprocessed_len
           /\ unprocessed_len = 0 => Cached = << >>
<1>1. /\ unprocessed_data \in Seq(Bytes) /\ unprocessed_len \in 0..B
      /\ unprocessed_len <= Len(unprocessed_data)
  BY DEF TypeOK
<1>2. \A i \in 1..unprocessed_len : unprocessed_data[i] \in Bytes
  BY <1>1, Constants, LenProperties, ElementOfSeq
<1>3. /\ Cached \in Seq(Bytes)
      /\ Len(Cached) = IF 1 <= unprocessed_len THEN unprocessed_len - 1 + 1 ELSE 0
  BY <1>1, <1>2, Constants, SubSeqProperties DEF Cached
<1>4. Len(Cached) = unprocessed_len
  BY <1>1, <1>3, Constants
<1>5. unprocessed_len = 0 => Cached = << >>
  BY SubSeqEmpty DEF Cached
<1> QED
  BY <1>3, <1>4, <1>5

\* The cut of UpdateBlocks: a completed block or none, whole blocks, and what is held back,
\* are the cached bytes and the input in their order.  No length wraps below zero.
LEMMA BlockCut ==
    ASSUME TypeOK, mode = "CBC", Keyed, NEW input \in Seq(Bytes), ~OnlyCached(input)
    PROVE  /\ CopyLen \in 0..Len(input)
           /\ HoldLen(input) \in 0..(Len(input) - CopyLen)
           /\ HoldLen(input) <= B
           /\ operation = "encrypt" => HoldLen(input) < B
           /\ operation = "decrypt" => HoldLen(input) > 0
           /\ HeadBlock(input) \in Seq(Bytes)
           /\ Len(HeadBlock(input)) = IF unprocessed_len # 0 THEN B ELSE 0
           /\ FullBlocks(input) \in Seq(Bytes)
           /\ Len(FullBlocks(input)) = Len(input) - CopyLen - HoldLen(input)
           /\ (Len(FullBlocks(input)) % B) = 0
           /\ Leftover(input) \in Seq(Bytes)
           /\ Len(Leftover(input)) = HoldLen(input)
           /\ Cat(Cat(HeadBlock(input), FullBlocks(input)), Leftover(input)) = Cat(Cached, input)
<1> DEFINE u == unprocessed_len
           L == Len(input)
           c == CopyLen
           rest == L - c
           h == HoldLen(input)
<1>1. /\ B \in Nat \ {0} /\ B \in Nat /\ B > 0 /\ u \in 0..B /\ L \in Nat
      /\ operation \in Operations
  BY Constants, LenProperties DEF TypeOK, Keyed
<1>2. /\ c \in 0..L
      /\ rest \in Nat
      /\ operation = "decrypt" => rest > 0
      /\ u # 0 => c = B - u
      /\ u = 0 => c = 0
  BY <1>1 DEF CopyLen, OnlyCached, Operations
<1>3. /\ rest % B \in 0..(B - 1)
      /\ rest - (rest % B) \in Nat
      /\ (rest - (rest % B)) % B = 0
  BY <1>1, <1>2, DivMod, ModSub
<1>4. /\ h \in 0..rest
      /\ h <= B
      /\ operation = "encrypt" => h < B
      /\ operation = "decrypt" => h > 0
      /\ ((rest - h) % B) = 0
  <2>1. CASE operation = "decrypt" /\ rest # 0 /\ (rest % B) = 0
    <3>1. h = B
      BY <2>1 DEF HoldLen
    <3>2. rest >= B
      BY <1>1, <1>2, <2>1, ModSmall
    <3>3. rest - B \in Nat /\ (rest - B) + B = rest
      BY <1>1, <1>2, <3>2
    <3>4. (B % B) = 0
      BY <1>1, ModSmall
    <3>5. ((rest - B) + B) % B = (rest - B) % B
      BY <1>1, <3>3, <3>4, ModAdd
    <3>6. ((rest - B) % B) = 0
      BY <2>1, <3>3, <3>5
    <3> QED
      BY <1>1, <1>2, <2>1, <3>1, <3>2, <3>6
  <2>2. CASE ~(operation = "decrypt" /\ rest # 0 /\ (rest % B) = 0)
    <3>1. h = rest % B
      BY <2>2 DEF HoldLen
    <3>2. operation = "decrypt" => h > 0
      BY <1>2, <1>3, <2>2, <3>1
    <3> QED
      BY <1>1, <1>2, <1>3, <3>1, <3>2
  <2> QED
    BY <2>1, <2>2
<1> DEFINE cut == SubSeq(input, 1, c)
           body == SubSeq(input, c + 1, L - h)
           left == SubSeq(input, (L - h) + 1, L)
<1> HIDE DEF c, h
<1>5. \A i \in 1..L : input[i] \in Bytes
  BY ElementOfSeq
<1>6. cut \in Seq(Bytes) /\ Len(cut) = c
  BY <1>2, CutInTwo
<1>7. left \in Seq(Bytes) /\ Len(left) = h
  <2>1. L - h \in 0..L /\ L - (L - h) = h
    BY <1>1, <1>2, <1>4
  <2> QED
    BY <2>1, CutInTwo
<1>8. body \in Seq(Bytes) /\ Len(body) = (L - c) - h
  <2>1. \A i \in (c + 1)..(L - h) : input[i] \in Bytes
    BY <1>1, <1>2, <1>4, <1>5
  <2>2. /\ body \in Seq(Bytes)
        /\ Len(body) = IF c + 1 <= L - h THEN (L - h) - (c + 1) + 1 ELSE 0
    BY <1>1, <1>2, <1>4, <2>1, SubSeqProperties
  <2> HIDE DEF body
  <2> QED
    BY <1>1, <1>2, <1>4, <2>2
<1>9. cut \o body = SubSeq(input, 1, L - h)
  <2>1. 1 \in 1..(L + 1) /\ c \in (1 - 1)..L /\ L - h \in c..L
    BY <1>1, <1>2, <1>4
  <2> QED
    BY <2>1, ConcatAdjacentSubSeq
<1>10. input = Cat(Cat(cut, body), left)
  <2>1. L - h \in 0..L
    BY <1>1, <1>2, <1>4
  <2>2. input = SubSeq(input, 1, L - h) \o left
    BY <2>1, CutInTwo
  <2> QED
    BY <1>9, <2>2 DEF Cat
<1>11. FullBlocks(input) = body /\ Leftover(input) = left
  BY DEF FullBlocks, Leftover, c, h
<1>12. /\ HeadBlock(input) \in Seq(Bytes)
       /\ Len(HeadBlock(input)) = IF u # 0 THEN B ELSE 0
       /\ HeadBlock(input) = Cat(Cached, cut)
  <2>1. CASE u # 0
    <3>1. HeadBlock(input) = Cat(Cached, cut)
      BY <2>1 DEF HeadBlock, Cat, c
    <3>2. Cached \in Seq(Bytes) /\ Len(Cached) = u
      BY CachedIsSeq
    <3>3. Cat(Cached, cut) \in Seq(Bytes) /\ Len(Cat(Cached, cut)) = u + c
      BY <1>6, <3>2, CatType
    <3>4. u + c = B
      BY <1>1, <1>2, <2>1
    <3> QED
      BY <2>1, <3>1, <3>3, <3>4
  <2>2. CASE u = 0
    <3>1. HeadBlock(input) = << >> /\ Cached = << >>
      BY <2>2, CachedIsSeq DEF HeadBlock
    <3>2. cut = << >>
      BY <1>2, <2>2, SubSeqEmpty
    <3> HIDE DEF cut
    <3> QED
      BY <2>2, <3>1, <3>2, EmptySeq, CatEmpty
  <2> QED
    BY <2>1, <2>2
<1>13. Cat(Cat(Cat(Cached, cut), body), left) = Cat(Cached, input)
  <2>1. Cached \in Seq(Bytes)
    BY CachedIsSeq
  <2> HIDE DEF cut, body, left
  <2> QED
    BY <1>6, <1>7, <1>8, <1>10, <2>1, CatFour
<1>14. (Len(body) % B) = 0
  BY <1>4, <1>8
<1> QED
  <2> HIDE DEF cut, body, left
  <2> QED
    BY <1>2, <1>4, <1>7, <1>8, <1>11, <1>12, <1>13, <1>14 DEF c, h

-----------------------------------------------------------------------------
(* Type correctness.                                                       *)

\* A call keeps the history well typed.
LEMMA ReturnTypes ==
    ASSUME TypeOK, NEW input \in Seq(Bytes), NEW result \in Seq(Bytes), NEW next \in Stages,
           Len(input) <= MaxFed, stage = "open" => Len(fed \o input) <= MaxFed,
           Return(input, result, next)
    PROVE  /\ fed' \in Seq(Bytes) /\ Len(fed') <= MaxFed
           /\ out' \in Seq(Bytes)
           /\ stage' \in Stages
           /\ stage' = "open" => stage = "open"
<1>1. fed \in Seq(Bytes) /\ out \in Seq(Bytes) /\ stage \in Stages
  BY DEF TypeOK
<1>2. << >> \in Seq(Bytes) /\ Len(<< >>) = 0 /\ 0 <= MaxFed
  BY EmptySeq, Constants
<1>3. CASE stage = "open" /\ stage' = next /\ fed' = fed \o input /\ out' = out \o result
  BY <1>1, <1>3, ConcatProperties
<1>4. CASE stage # "open" /\ stage' = "stale" /\ fed' = input /\ out' = result
  BY <1>4 DEF Stages
<1>5. CASE stage' = "stale" /\ fed' = << >> /\ out' = << >>
  BY <1>2, <1>5 DEF Stages
<1> QED
  BY <1>3, <1>4, <1>5 DEF Return

\* Finish calls take no input.
LEMMA NoInput ==
    ASSUME TypeOK
    PROVE  /\ << >> \in Seq(Bytes) /\ Len(<< >>) <= MaxFed
           /\ fed \o << >> = fed /\ Len(fed \o << >>) <= MaxFed
BY EmptySeq, ConcatEmptySeq, Constants DEF TypeOK

\* The initial state is well typed.
LEMMA InitType == Init => TypeOK
<1> SUFFICES ASSUME Init PROVE TypeOK
  OBVIOUS
<1>1. Zeros \in Block /\ 0 \in Bytes
  BY Constants DEF Zeros, Block
<1>2. Zeros \in Seq(Bytes) /\ Len(Zeros) = B
  BY <1>1, BlockIsSeq
<1>3. << >> \in Seq(Bytes) /\ Len(<< >>) = 0
  BY EmptySeq
<1> QED
  BY <1>1, <1>2, <1>3, Constants DEF Init, TypeOK, Stages, Keyed

LEMMA SetKeyType ==
    ASSUME TypeOK, NEW k \in Keys, NEW op \in Operations, SetKey(k, op)
    PROVE  TypeOK'
<1>1. << >> \in Seq(Bytes) /\ Len(<< >>) = 0 /\ 0 <= MaxFed
  BY EmptySeq, Constants
<1>2. KeyBits(k) \in Nat
  BY CipherConstants
<1>3. CASE KeyBits(k) \in KeyLengths
  <2>1. schedule' = [key |-> k, dir |-> DirFor(mode, op)]
    BY <1>3 DEF SetKey
  <2>2. DirFor(mode, op) \in Operations /\ (mode # "CBC" => DirFor(mode, op) = "encrypt")
    BY DEF DirFor, Operations
  <2>3. schedule' \in Schedules /\ schedule' # NoSchedule
    BY <2>1, <2>2, CipherConstants DEF Schedules, NoSchedule
  <2>4. stage' \in Stages
    BY <1>3 DEF SetKey, Stages
  <2>5. mode # "CBC" => schedule'.dir = "encrypt"
    BY <2>1, <2>2
  <2>6. operation' # "none"
    BY DEF SetKey, Operations
  <2> QED
    BY <1>1, <1>2, <2>3, <2>4, <2>5, <2>6 DEF SetKey, TypeOK, Keyed
<1>4. CASE KeyBits(k) \notin KeyLengths
  <2>1. schedule' = schedule /\ stage' = "stale"
    BY <1>4 DEF SetKey
  <2>2. operation' # "none"
    BY DEF SetKey, Operations
  <2> QED
    BY <1>1, <1>2, <2>1, <2>2 DEF SetKey, TypeOK, Stages, Keyed
<1> QED
  BY <1>3, <1>4

LEMMA ResetType ==
    ASSUME TypeOK, NEW v \in IVs, Reset(v)
    PROVE  TypeOK'
<1>1. << >> \in Seq(Bytes) /\ Len(<< >>) = 0 /\ 0 <= MaxFed
  BY EmptySeq, Constants
<1>2. v \in Block
  BY CipherConstants
<1>3. stage' \in Stages /\ (stage' = "open" => Keyed)
  BY DEF Reset, Stages
<1>4. Len(unprocessed_data) \in Nat
  BY LenProperties DEF TypeOK
<1> QED
  BY <1>1, <1>2, <1>3, <1>4, Constants DEF Reset, TypeOK, Keyed

\* A call of update() or finish() that leaves key and operation alone keeps the rest typed.
LEMMA CallType ==
    ASSUME TypeOK, Keyed,
           UNCHANGED << mode, operation, key_length, schedule, start >>,
           iv' \in Block,
           unprocessed_data' \in Seq(Bytes), Len(unprocessed_data') <= B,
           unprocessed_len' \in 0..B,
           mode = "CBC" => unprocessed_len' <= Len(unprocessed_data'),
           mode # "CBC" => unprocessed_data' \in Block /\ unprocessed_len' < B,
           fed' \in Seq(Bytes), Len(fed') <= MaxFed, out' \in Seq(Bytes), stage' \in Stages
    PROVE  TypeOK'
BY DEF TypeOK, Keyed

LEMMA UpdateCachedType ==
    ASSUME TypeOK, NEW input \in NextChunks, UpdateCached(input)
    PROVE  TypeOK'
<1>1. /\ Keyed /\ mode = "CBC" /\ OnlyCached(input)
      /\ unprocessed_data' = Cached \o input
      /\ unprocessed_len' = unprocessed_len + Len(input)
      /\ Return(input, << >>, "open")
      /\ UNCHANGED << mode, operation, key_length, schedule, iv, start >>
  BY DEF UpdateCached
<1>2. input \in Seq(Bytes) /\ Len(input) <= MaxFed /\ Len(input) \in Nat
  BY NextChunk, LenProperties
<1>3. /\ fed' \in Seq(Bytes) /\ Len(fed') <= MaxFed
      /\ out' \in Seq(Bytes) /\ stage' \in Stages
  <2>1. << >> \in Seq(Bytes) /\ "open" \in Stages
    BY EmptySeq DEF Stages
  <2> QED
    BY <1>1, <1>2, <2>1, NextChunk, ReturnTypes
<1>4. Cached \in Seq(Bytes) /\ Len(Cached) = unprocessed_len
  BY <1>1, CachedIsSeq
<1>5. /\ unprocessed_data' \in Seq(Bytes)
      /\ Len(unprocessed_data') = unprocessed_len + Len(input)
  BY <1>1, <1>2, <1>4, ConcatProperties
<1>6. unprocessed_len \in 0..B /\ B \in Nat /\ unprocessed_len + Len(input) <= B
  BY <1>1, <1>2, Constants DEF OnlyCached, TypeOK
<1>7. iv' \in Block
  BY <1>1 DEF TypeOK
<1> QED
  BY <1>1, <1>2, <1>3, <1>5, <1>6, <1>7, CallType

\* The two calls of cbc_func in UpdateBlocks.
LEMMA BlocksCalls ==
    ASSUME TypeOK, mode = "CBC", Keyed, NEW input \in Seq(Bytes), Len(input) <= MaxFed,
           ~OnlyCached(input)
    PROVE  LET head == HeadBlock(input)
               body == FullBlocks(input)
               mid  == CbcIv(schedule, operation, iv, head)
           IN  /\ schedule \in Schedules /\ operation \in Operations /\ iv \in Block
               /\ (Len(head) % B) = 0
               /\ Len(head) + Len(body) <= Len(input) + B
               /\ CbcOut(schedule, operation, iv, head) \in Seq(Bytes)
               /\ Len(CbcOut(schedule, operation, iv, head)) = Len(head)
               /\ mid \in Block
               /\ CbcOut(schedule, operation, mid, body) \in Seq(Bytes)
               /\ Len(CbcOut(schedule, operation, mid, body)) = Len(body)
               /\ CbcIv(schedule, operation, mid, body) \in Block
<1> DEFINE head == HeadBlock(input)
           body == FullBlocks(input)
           mid  == CbcIv(schedule, operation, iv, head)
<1>1. /\ schedule \in Schedules /\ operation \in Operations /\ iv \in Block
      /\ unprocessed_len \in 0..B
  BY DEF TypeOK, Keyed
<1>2. /\ head \in Seq(Bytes) /\ Len(head) = IF unprocessed_len # 0 THEN B ELSE 0
      /\ body \in Seq(Bytes) /\ Len(body) = Len(input) - CopyLen - HoldLen(input)
      /\ (Len(body) % B) = 0
      /\ CopyLen \in 0..Len(input) /\ HoldLen(input) \in 0..(Len(input) - CopyLen)
  BY BlockCut
<1>3. B \in Nat /\ MaxFed \in Nat /\ (B % B) = 0 /\ (0 % B) = 0 /\ Len(input) \in Nat
  BY Constants, ModSmall, LenProperties
<1>4. (Len(head) % B) = 0 /\ Len(head) <= MaxFed + B
  <2> HIDE DEF head
  <2>1. CASE unprocessed_len # 0
    BY <1>2, <1>3, <2>1
  <2>2. CASE unprocessed_len = 0
    BY <1>2, <1>3, <2>2
  <2> QED
    BY <2>1, <2>2
<1>5. Len(body) <= MaxFed + B
  BY <1>2, <1>3
<1>6. Len(head) + Len(body) <= Len(input) + B
  BY SMTT(30), <1>1, <1>2, <1>3 DEF CopyLen
<1>7. /\ CbcOut(schedule, operation, iv, head) \in Seq(Bytes)
      /\ Len(CbcOut(schedule, operation, iv, head)) = Len(head)
      /\ mid \in Block
  BY <1>1, <1>2, <1>4, CbcCall
<1>8. /\ CbcOut(schedule, operation, mid, body) \in Seq(Bytes)
      /\ Len(CbcOut(schedule, operation, mid, body)) = Len(body)
      /\ CbcIv(schedule, operation, mid, body) \in Block
  <2> HIDE DEF mid, body
  <2> QED
    BY <1>1, <1>2, <1>5, <1>7, CbcCall
<1> QED
  BY <1>1, <1>4, <1>6, <1>7, <1>8

LEMMA UpdateBlocksType ==
    ASSUME TypeOK, NEW input \in NextChunks, UpdateBlocks(input)
    PROVE  TypeOK'
<1> DEFINE head == HeadBlock(input)
           body == FullBlocks(input)
           mid  == CbcIv(schedule, operation, iv, head)
           result == CbcOut(schedule, operation, iv, head)
                         \o CbcOut(schedule, operation, mid, body)
<1>1. /\ Keyed /\ mode = "CBC" /\ ~OnlyCached(input)
      /\ iv' = CbcIv(schedule, operation, mid, body)
      /\ unprocessed_data' = IF HoldLen(input) # 0 THEN Leftover(input)
                             ELSE IF head # << >> THEN head ELSE unprocessed_data
      /\ unprocessed_len' = HoldLen(input)
      /\ Return(input, result, "open")
      /\ UNCHANGED << mode, operation, key_length, schedule, start >>
  BY DEF UpdateBlocks
<1>2. input \in Seq(Bytes) /\ Len(input) <= MaxFed /\ Len(input) \in Nat
  BY NextChunk, LenProperties
<1>3. /\ CbcOut(schedule, operation, iv, head) \in Seq(Bytes)
      /\ CbcOut(schedule, operation, mid, body) \in Seq(Bytes)
      /\ CbcIv(schedule, operation, mid, body) \in Block
  BY <1>1, <1>2, BlocksCalls
<1>4. result \in Seq(Bytes)
  BY <1>3, ConcatProperties
<1>5. /\ fed' \in Seq(Bytes) /\ Len(fed') <= MaxFed
      /\ out' \in Seq(Bytes) /\ stage' \in Stages
  <2>1. "open" \in Stages
    BY DEF Stages
  <2> HIDE DEF result
  <2> QED
    BY <1>1, <1>2, <1>4, <2>1, NextChunk, ReturnTypes
<1>6. /\ HoldLen(input) \in 0..B
      /\ head \in Seq(Bytes) /\ Len(head) <= B
      /\ Leftover(input) \in Seq(Bytes) /\ Len(Leftover(input)) = HoldLen(input)
  BY <1>1, <1>2, BlockCut, Constants
<1>7. /\ unprocessed_data' \in Seq(Bytes) /\ Len(unprocessed_data') <= B
      /\ unprocessed_len' <= Len(unprocessed_data')
  <2>1. /\ unprocessed_data \in Seq(Bytes) /\ Len(unprocessed_data) <= B
        /\ Len(unprocessed_data) \in Nat
    BY LenProperties DEF TypeOK
  <2>2. CASE HoldLen(input) # 0
    BY <1>1, <1>6, <2>2
  <2>3. CASE HoldLen(input) = 0 /\ head # << >>
    <3>1. unprocessed_data' = head /\ unprocessed_len' = 0 /\ Len(head) \in Nat
      BY <1>1, <1>6, <2>3, LenProperties
    <3> QED
      BY <1>6, <3>1
  <2>4. CASE HoldLen(input) = 0 /\ head = << >>
    BY <1>1, <2>1, <2>4
  <2> QED
    BY <2>2, <2>3, <2>4
<1>8. iv' \in Block /\ unprocessed_len' \in 0..B
  BY <1>1, <1>3, <1>6
<1> QED
  BY <1>1, <1>5, <1>7, <1>8, CallType

LEMMA UpdateStreamType ==
    ASSUME TypeOK, NEW input \in NextChunks, UpdateStream(input)
    PROVE  TypeOK'
<1> DEFINE st   == [iv |-> iv, block |-> unprocessed_data, off |-> unprocessed_len]
           next == StreamState(mode, schedule, operation, st, input)
           result == StreamOut(mode, schedule, operation, st, input)
<1>1. /\ Keyed /\ mode # "CBC"
      /\ iv' = next.iv /\ unprocessed_data' = next.block /\ unprocessed_len' = next.off
      /\ Return(input, result, "open")
      /\ UNCHANGED << mode, operation, key_length, schedule, start >>
  BY DEF UpdateStream
<1>2. input \in Seq(Bytes) /\ Len(input) <= MaxFed
  BY NextChunk, Constants, LenProperties
<1>3. /\ mode \in Modes \ { "CBC" } /\ schedule \in Schedules /\ schedule.dir = "encrypt"
      /\ operation \in Operations /\ st \in StreamStates
  BY <1>1, Constants DEF TypeOK, Keyed, StreamStates
<1>4. next \in StreamStates /\ result \in Seq(Bytes)
  <2> HIDE DEF st
  <2> QED
    BY <1>2, <1>3, StreamCall
<1>5. /\ next.iv \in Block /\ next.block \in Block /\ next.off \in 0..(B - 1)
  BY <1>4 DEF StreamStates
<1>6. /\ iv' \in Block /\ unprocessed_data' \in Block /\ unprocessed_len' \in 0..(B - 1)
  BY <1>1, <1>5
<1>7. unprocessed_data' \in Seq(Bytes) /\ Len(unprocessed_data') = B
  BY <1>6, BlockIsSeq
<1>8. /\ fed' \in Seq(Bytes) /\ Len(fed') <= MaxFed
      /\ out' \in Seq(Bytes) /\ stage' \in Stages
  <2>1. "open" \in Stages
    BY DEF Stages
  <2> HIDE DEF result
  <2> QED
    BY <1>1, <1>2, <1>4, <2>1, NextChunk, ReturnTypes
<1> QED
  BY <1>1, <1>6, <1>7, <1>8, Constants, CallType

\* What cipher_finish puts through cbc_func when enciphering is one block.
LEMMA PaddedBlock ==
    ASSUME TypeOK, mode = "CBC"
    PROVE  LET padded == Cached \o Padding(B - unprocessed_len)
           IN  padded \in Seq(Bytes) /\ Len(padded) = B
<1>1. B - unprocessed_len \in 0..B /\ unprocessed_len \in 0..B
  BY Constants DEF TypeOK
<1>2. /\ Padding(B - unprocessed_len) \in Seq(Bytes)
      /\ Len(Padding(B - unprocessed_len)) = B - unprocessed_len
  BY <1>1, PaddingIsSeq
<1>3. Cached \in Seq(Bytes) /\ Len(Cached) = unprocessed_len
  BY CachedIsSeq
<1> DEFINE pad == Padding(B - unprocessed_len)
           have == Cached
<1>4. /\ have \in Seq(Bytes) /\ Len(have) = unprocessed_len
      /\ pad \in Seq(Bytes) /\ Len(pad) = B - unprocessed_len
  BY <1>2, <1>3
<1> HIDE DEF pad, have
<1>5. /\ have \o pad \in Seq(Bytes)
      /\ Len(have \o pad) = Len(have) + Len(pad)
  BY <1>4, ConcatProperties
<1>6. Len(have \o pad) = B
  BY <1>1, <1>4, <1>5, Constants
<1> QED
  BY <1>5, <1>6 DEF pad, have

\* A block through cbc_func, and the part of it in front of a padding it may have.
LEMMA OneBlock ==
    ASSUME TypeOK, mode = "CBC", Keyed, NEW x \in Seq(Bytes), Len(x) = B
    PROVE  LET text == CbcOut(schedule, operation, iv, x)
           IN  /\ text \in Seq(Bytes) /\ Len(text) = B
               /\ CbcIv(schedule, operation, iv, x) \in Block
               /\ ValidPadding(text) =>
                      /\ text[B] \in 0..B
                      /\ SubSeq(text, 1, B - text[B]) \in Seq(Bytes)
                      /\ Len(SubSeq(text, 1, B - text[B])) = B - text[B]
<1> DEFINE text == CbcOut(schedule, operation, iv, x)
<1>1. /\ schedule \in Schedules /\ operation \in Operations /\ iv \in Block
      /\ B \in Nat \ {0} /\ B <= MaxFed + B /\ (B % B) = 0
  BY Constants, ModSmall DEF TypeOK, Keyed
<1>2. /\ text \in Seq(Bytes) /\ Len(text) = B
      /\ CbcIv(schedule, operation, iv, x) \in Block
  BY <1>1, CbcCall
<1>3. ASSUME ValidPadding(text)
      PROVE  /\ text[B] \in 0..B
             /\ SubSeq(text, 1, B - text[B]) \in Seq(Bytes)
             /\ Len(SubSeq(text, 1, B - text[B])) = B - text[B]
  <2> HIDE DEF text
  <2>1. text[B] \in Bytes
    BY <1>1, <1>2, ElementOfSeq
  <2>2. text[B] \in 0..B /\ B - text[B] \in 0..Len(text)
    BY <1>1, <1>2, <1>3, <2>1, Constants DEF ValidPadding
  <2> QED
    BY <1>2, <2>2, CutInTwo
<1> QED
  BY <1>2, <1>3

LEMMA FinishEncryptType ==
    ASSUME TypeOK, FinishEncrypt
    PROVE  TypeOK'
<1> DEFINE padded == Cached \o Padding(B - unprocessed_len)
           result == CbcOut(schedule, operation, iv, padded)
<1>1. /\ mode = "CBC" /\ Keyed
      /\ unprocessed_data' = padded
      /\ iv' = CbcIv(schedule, operation, iv, padded)
      /\ Return(<< >>, result, "finished")
      /\ UNCHANGED << mode, operation, key_length, schedule, unprocessed_len, start >>
  BY DEF FinishEncrypt
<1>2. padded \in Seq(Bytes) /\ Len(padded) = B
  BY <1>1, PaddedBlock
<1>3. result \in Seq(Bytes) /\ iv' \in Block
  <2> HIDE DEF padded
  <2> QED
    BY <1>1, <1>2, OneBlock
<1>4. /\ fed' \in Seq(Bytes) /\ Len(fed') <= MaxFed
      /\ out' \in Seq(Bytes) /\ stage' \in Stages
  <2>1. "finished" \in Stages
    BY DEF Stages
  <2> HIDE DEF result
  <2> QED
    BY <1>1, <1>3, <2>1, NoInput, ReturnTypes
<1>5. unprocessed_len' \in 0..B /\ unprocessed_len' <= B
  BY <1>1, Constants DEF TypeOK
<1> HIDE DEF padded, result
<1> QED
  BY <1>1, <1>2, <1>3, <1>4, <1>5, Constants, CallType

\* A call that raises an error keeps the history well typed.
LEMMA RaiseTypes ==
    ASSUME TypeOK, NEW next \in Stages \ { "open" }, Raise(next)
    PROVE  /\ fed' \in Seq(Bytes) /\ Len(fed') <= MaxFed
           /\ out' \in Seq(Bytes) /\ stage' \in Stages
           /\ stage' # "open"
<1>1. << >> \in Seq(Bytes) /\ Len(<< >>) = 0 /\ 0 <= MaxFed
  BY EmptySeq, Constants
<1>2. CASE stage = "open" /\ stage' = next /\ UNCHANGED << fed, out >>
  BY <1>2 DEF TypeOK
<1>3. CASE stage # "open" /\ stage' = "stale" /\ fed' = << >> /\ out' = << >>
  BY <1>1, <1>3 DEF Stages
<1> QED
  BY <1>2, <1>3 DEF Raise

LEMMA FinishDecryptType ==
    ASSUME TypeOK, FinishDecrypt
    PROVE  TypeOK'
<1> DEFINE text == CbcOut(schedule, operation, iv, Cached)
<1>1. /\ mode = "CBC" /\ Keyed /\ unprocessed_len = B
      /\ iv' = CbcIv(schedule, operation, iv, Cached)
      /\ UNCHANGED << mode, operation, key_length, schedule, unprocessed_data,
                      unprocessed_len, start >>
  BY DEF FinishDecrypt
<1>2. Cached \in Seq(Bytes) /\ Len(Cached) = B
  BY <1>1, CachedIsSeq
<1>3. /\ iv' \in Block
      /\ ValidPadding(text) => SubSeq(text, 1, B - text[B]) \in Seq(Bytes)
  BY <1>1, <1>2, OneBlock
<1>4. /\ fed' \in Seq(Bytes) /\ Len(fed') <= MaxFed
      /\ out' \in Seq(Bytes) /\ stage' \in Stages
  <2>1. CASE ValidPadding(text) /\ Return(<< >>, SubSeq(text, 1, B - text[B]), "finished")
    <3>1. "finished" \in Stages
      BY DEF Stages
    <3> HIDE DEF text
    <3> QED
      BY <1>3, <2>1, <3>1, NoInput, ReturnTypes
  <2>2. CASE Raise("refused")
    BY <2>2, RaiseTypes DEF Stages
  <2> QED
    BY <2>1, <2>2 DEF FinishDecrypt
<1>5. /\ unprocessed_data' \in Seq(Bytes) /\ Len(unprocessed_data') <= B
      /\ unprocessed_len' \in 0..B /\ unprocessed_len' <= Len(unprocessed_data')
  BY <1>1 DEF TypeOK
<1> QED
  BY <1>1, <1>3, <1>4, <1>5, CallType

LEMMA FinishIncompleteType ==
    ASSUME TypeOK, FinishIncomplete
    PROVE  TypeOK'
<1>1. /\ fed' \in Seq(Bytes) /\ Len(fed') <= MaxFed
      /\ out' \in Seq(Bytes) /\ stage' \in Stages
  BY RaiseTypes DEF FinishIncomplete, Stages
<1> QED
  BY <1>1 DEF FinishIncomplete, ctx, TypeOK, Keyed

LEMMA FinishStreamType ==
    ASSUME TypeOK, FinishStream
    PROVE  TypeOK'
<1>1. /\ fed' \in Seq(Bytes) /\ Len(fed') <= MaxFed
      /\ out' \in Seq(Bytes) /\ stage' \in Stages
  <2>1. "finished" \in Stages /\ << >> \in Seq(Bytes)
    BY EmptySeq DEF Stages
  <2> QED
    BY <2>1, NoInput, ReturnTypes DEF FinishStream
<1> QED
  BY <1>1 DEF FinishStream, ctx, TypeOK, Keyed

\* Every step keeps the types.
LEMMA TypeStep == TypeOK /\ [Next]_vars => TypeOK'
<1> SUFFICES ASSUME TypeOK, [Next]_vars PROVE TypeOK'
  OBVIOUS
<1>1. ASSUME NEW k \in Keys, NEW op \in Operations, SetKey(k, op) PROVE TypeOK'
  BY <1>1, SetKeyType
<1>2. ASSUME NEW v \in IVs, Reset(v) PROVE TypeOK'
  BY <1>2, ResetType
<1>3. ASSUME NEW input \in NextChunks, UpdateCached(input) PROVE TypeOK'
  BY <1>3, UpdateCachedType
<1>4. ASSUME NEW input \in NextChunks, UpdateBlocks(input) PROVE TypeOK'
  BY <1>4, UpdateBlocksType
<1>5. ASSUME NEW input \in NextChunks, UpdateStream(input) PROVE TypeOK'
  BY <1>5, UpdateStreamType
<1>6. CASE FinishEncrypt
  BY <1>6, FinishEncryptType
<1>7. CASE FinishDecrypt
  BY <1>7, FinishDecryptType
<1>8. CASE FinishIncomplete
  BY <1>8, FinishIncompleteType
<1>9. CASE FinishStream
  BY <1>9, FinishStreamType
<1>10. CASE UNCHANGED vars
  BY <1>10 DEF vars, ctx, TypeOK, Keyed
<1> QED
  BY <1>1, <1>2, <1>3, <1>4, <1>5, <1>6, <1>7, <1>8, <1>9, <1>10 DEF Next

\* The fields of a cipher object keep their types, and the cached bytes never outgrow
\* unprocessed_data, whatever calls are made in whatever order.
THEOREM TypeCorrect == Spec => []TypeOK
BY InitType, TypeStep, PTL DEF Spec

-----------------------------------------------------------------------------
(* The inductive invariant: what has come out and what is cached, together *)
(* with the types, determine each other and the message fed so far.        *)

IInv == TypeOK /\ CacheHoldsTail /\ OutputOfOneCall /\ FinishHasItsBlock

\* In mid-message, the input so far is what has been processed and what is cached.
LEMMA OpenCbc ==
    ASSUME IInv, stage = "open", mode = "CBC"
    PROVE  LET done == SubSeq(fed, 1, Len(out))
           IN  /\ done \in Seq(Bytes) /\ Len(done) = Len(out) /\ (Len(done) % B) = 0
               /\ fed = Cat(done, Cached)
               /\ Len(fed) = Len(out) + unprocessed_len
               /\ out = CbcOut(schedule, operation, start, done)
               /\ iv = CbcIv(schedule, operation, start, done)
<1> DEFINE done == SubSeq(fed, 1, Len(out))
<1>1. fed \in Seq(Bytes) /\ out \in Seq(Bytes) /\ TypeOK
  BY DEF IInv, TypeOK
<1>2. /\ Len(out) % B = 0 /\ Len(out) <= Len(fed)
      /\ Cached = SubSeq(fed, Len(out) + 1, Len(fed))
  BY DEF IInv, CacheHoldsTail
<1>3. Len(out) \in 0..Len(fed)
  BY <1>1, <1>2, LenProperties
<1>4. /\ done \in Seq(Bytes) /\ Len(done) = Len(out)
      /\ Len(Cached) = Len(fed) - Len(out)
      /\ fed = done \o Cached
  <2> DEFINE rest == SubSeq(fed, Len(out) + 1, Len(fed))
  <2>1. /\ done \in Seq(Bytes) /\ Len(done) = Len(out)
        /\ Len(rest) = Len(fed) - Len(out)
        /\ fed = done \o rest
    BY ZenonT(60), <1>1, <1>3, CutInTwo
  <2>2. Cached = rest
    BY <1>2
  <2> HIDE DEF done, rest
  <2> QED
    BY <2>1, <2>2
<1>5. Len(Cached) = unprocessed_len
  BY <1>1, CachedIsSeq
<1>6. Len(fed) = Len(out) + unprocessed_len
  BY <1>1, <1>3, <1>4, <1>5, LenProperties
<1>7. /\ out = CbcOut(schedule, operation, start, done)
      /\ iv = CbcIv(schedule, operation, start, done)
  BY DEF IInv, OutputOfOneCall
<1> QED
  BY <1>2, <1>4, <1>6, <1>7 DEF Cat

\* Conversely, a state made up like that after a step satisfies the invariant.
LEMMA CbcKept ==
    ASSUME TypeOK', mode' = "CBC", NEW d \in Seq(Bytes), NEW t \in Seq(Bytes),
           fed' = Cat(d, t), Cached' = t,
           Len(out') = Len(d), (Len(d) % B) = 0,
           out' = CbcOut(schedule', operation', start', d),
           iv' = CbcIv(schedule', operation', start', d)
    PROVE  CacheHoldsTail' /\ OutputOfOneCall'
<1>1. SubSeq(fed', 1, Len(d)) = d /\ SubSeq(fed', Len(d) + 1, Len(fed')) = t
  BY CutAtJoint DEF Cat
<1>2. Len(fed') = Len(d) + Len(t) /\ Len(d) \in Nat /\ Len(t) \in Nat
  BY CatType, LenProperties
<1>3. CacheHoldsTail'
  <2> SUFFICES /\ Len(out') % B = 0 /\ Len(out') <= Len(fed')
               /\ Cached' = SubSeq(fed', Len(out') + 1, Len(fed'))
    BY DEF CacheHoldsTail
  <2> QED
    BY <1>1, <1>2
<1>4. OutputOfOneCall'
  <2> SUFFICES LET done == SubSeq(fed', 1, Len(out'))
               IN  /\ out' = CbcOut(schedule', operation', start', done)
                   /\ iv' = CbcIv(schedule', operation', start', done)
    BY DEF OutputOfOneCall
  <2> QED
    BY <1>1
<1> QED
  BY <1>3, <1>4

\* A cipher object in order: what finish() needs follows from where the cache stands.
LEMMA FinishKept ==
    ASSUME TypeOK', CacheHoldsTail', mode' = "CBC",
           operation' = "encrypt" => unprocessed_len' < B,
           operation' = "decrypt" /\ fed' # << >> => unprocessed_len' > 0,
           stage' = "open", Len(fed') = Len(out') + unprocessed_len'
    PROVE  FinishHasItsBlock'
<1>1. /\ fed' \in Seq(Bytes) /\ out' \in Seq(Bytes) /\ unprocessed_len' \in 0..B
  BY DEF TypeOK
<1>2. Len(out') % B = 0 /\ Len(out') \in Nat
  BY <1>1, LenProperties DEF CacheHoldsTail
<1>3. ASSUME operation' = "decrypt", fed' # << >>, Len(fed') % B = 0
      PROVE  unprocessed_len' = B
  <2>1. (unprocessed_len' + Len(out')) % B = unprocessed_len' % B
    BY <1>1, <1>2, Constants, ModAdd
  <2>2. unprocessed_len' + Len(out') = Len(fed')
    BY <1>1, <1>2
  <2>3. unprocessed_len' % B = 0
    BY <1>3, <2>1, <2>2
  <2>4. unprocessed_len' > 0
    BY <1>3
  <2>5. \A r \in 0..(B - 1) : r % B = r
    BY Constants, ModSmall
  <2>6. unprocessed_len' \notin 0..(B - 1)
    BY <2>3, <2>4, <2>5
  <2> QED
    BY <1>1, <2>6, Constants
<1> QED
  BY <1>3 DEF FinishHasItsBlock

\* A message begins with nothing fed and nothing out.
Begun ==
    stage = "open" /\ fed = << >> /\ out = << >> /\ unprocessed_len = 0 /\ iv = start

LEMMA BegunHolds == TypeOK /\ Begun => IInv
<1> SUFFICES ASSUME TypeOK, Begun PROVE IInv
  OBVIOUS
<1>0. stage = "open" /\ fed = << >> /\ out = << >> /\ unprocessed_len = 0 /\ iv = start
  BY DEF Begun
<1>1. /\ schedule \in Schedules /\ operation \in Operations /\ start \in Block
      /\ mode # "CBC" => /\ schedule.dir = "encrypt" /\ unprocessed_data \in Block
                         /\ mode \in Modes \ { "CBC" }
  BY <1>0 DEF TypeOK, Keyed
<1>2. << >> \in Seq(Bytes) /\ Len(<< >>) = 0 /\ 0 <= MaxFed + B /\ (0 % B) = 0
  BY EmptySeq, Constants, ModSmall
<1>3. CASE mode = "CBC"
  <2>1. /\ CbcOut(schedule, operation, start, << >>) \in Seq(Bytes)
        /\ Len(CbcOut(schedule, operation, start, << >>)) = 0
        /\ CbcIv(schedule, operation, start, << >>) = start
    BY ZenonT(60), <1>1, <1>2, CbcCall
  <2>2. CbcOut(schedule, operation, start, << >>) = << >>
    BY <2>1, EmptySeq
  <2>3. SubSeq(fed, 1, Len(out)) = << >> /\ SubSeq(fed, Len(out) + 1, Len(fed)) = << >>
    BY <1>0, <1>2, SubSeqEmpty
  <2>4. Cached = << >>
    BY <1>0, SubSeqEmpty DEF Cached
  <2>5. CacheHoldsTail
    BY <1>0, <1>2, <2>3, <2>4 DEF CacheHoldsTail
  <2>6. OutputOfOneCall
    BY <1>0, <1>3, <2>1, <2>2, <2>3 DEF OutputOfOneCall
  <2>7. FinishHasItsBlock
    BY <1>0, Constants DEF FinishHasItsBlock
  <2> QED
    BY <2>5, <2>6, <2>7 DEF IInv
<1>4. CASE mode # "CBC"
  <2> DEFINE st == [iv |-> start, block |-> unprocessed_data, off |-> 0]
  <2>1. st \in StreamStates
    BY <1>1, <1>4, Constants DEF StreamStates
  <2>2. mode \in Modes \ { "CBC" } /\ schedule.dir = "encrypt"
    BY <1>1, <1>4
  <2>3. /\ StreamOut(mode, schedule, operation, st, << >>) = << >>
        /\ StreamState(mode, schedule, operation, st, << >>) = st
    <3> HIDE DEF st
    <3> QED
      BY <1>1, <2>1, <2>2, StreamNothing
  <2>4. OutputOfOneCall
    <3> SUFFICES \E b \in Block :
           LET s == [iv |-> start, block |-> b, off |-> 0]
           IN  /\ out = StreamOut(mode, schedule, operation, s, fed)
               /\ [iv |-> iv, block |-> unprocessed_data, off |-> unprocessed_len]
                      = StreamState(mode, schedule, operation, s, fed)
      BY <1>4 DEF OutputOfOneCall
    <3>1. unprocessed_data \in Block
      BY <1>1, <1>4
    <3> WITNESS unprocessed_data \in Block
    <3> QED
      BY <1>0, <2>3
  <2>5. CacheHoldsTail /\ FinishHasItsBlock
    BY <1>4 DEF CacheHoldsTail, FinishHasItsBlock
  <2> QED
    BY <2>4, <2>5 DEF IInv
<1> QED
  BY <1>3, <1>4

LEMMA BeginKept ==
    ASSUME TypeOK', stage' = "open", fed' = << >>, out' = << >>,
           unprocessed_len' = 0, iv' = start'
    PROVE  IInv'
<1>1. (TypeOK /\ Begun => IInv)'
  BY BegunHolds, PTL
<1> QED
  BY <1>1 DEF Begun

\* Outside a message there is nothing to keep.
LEMMA ClosedKept ==
    ASSUME TypeOK', stage' # "open"
    PROVE  IInv'
BY DEF IInv, CacheHoldsTail, OutputOfOneCall, FinishHasItsBlock

LEMMA SetKeyKeeps ==
    ASSUME IInv, NEW k \in Keys, NEW op \in Operations, SetKey(k, op)
    PROVE  IInv'
<1>1. TypeOK'
  BY SetKeyType DEF IInv
<1>2. CASE stage' = "open"
  <2>1. unprocessed_len = 0 /\ iv = start
    BY <1>2 DEF SetKey
  <2>2. /\ fed' = << >> /\ out' = << >> /\ unprocessed_len' = 0 /\ iv' = start'
    BY <2>1 DEF SetKey
  <2> QED
    BY <1>1, <1>2, <2>2, BeginKept
<1>3. CASE stage' # "open"
  BY <1>1, <1>3, ClosedKept
<1> QED
  BY <1>2, <1>3

LEMMA ResetKeeps ==
    ASSUME IInv, NEW v \in IVs, Reset(v)
    PROVE  IInv'
<1>1. TypeOK'
  BY ResetType DEF IInv
<1>2. fed' = << >> /\ out' = << >> /\ unprocessed_len' = 0 /\ iv' = start'
  BY DEF Reset
<1> QED
  BY <1>1, <1>2, BeginKept, ClosedKept

\* A call that leaves the message open was made in the message, and is recorded.
LEMMA ReturnOpen ==
    ASSUME NEW input, NEW result, NEW next, Return(input, result, next), stage' = "open"
    PROVE  /\ stage = "open" /\ next = "open"
           /\ fed' = Cat(fed, input) /\ out' = Cat(out, result)
BY DEF Return, Cat

LEMMA UpdateCachedKeeps ==
    ASSUME IInv, NEW input \in NextChunks, UpdateCached(input)
    PROVE  IInv'
<1>1. TypeOK /\ TypeOK'
  BY UpdateCachedType DEF IInv
<1>2. CASE stage' = "open"
  <2> DEFINE done == SubSeq(fed, 1, Len(out))
  <2>1. /\ mode = "CBC" /\ Keyed /\ OnlyCached(input)
        /\ Return(input, << >>, "open")
        /\ unprocessed_data' = Cat(Cached, input)
        /\ unprocessed_len' = unprocessed_len + Len(input)
        /\ UNCHANGED << mode, operation, key_length, schedule, iv, start >>
    BY DEF UpdateCached, Cat
  <2>2. /\ stage = "open" /\ fed' = Cat(fed, input) /\ out' = Cat(out, << >>)
        /\ out \in Seq(Bytes)
    BY <1>1, <1>2, <2>1, ReturnOpen DEF TypeOK
  <2>3. out' = out
    BY <2>2, CatEmpty
  <2>4. /\ done \in Seq(Bytes) /\ Len(done) = Len(out) /\ (Len(done) % B) = 0
        /\ fed = Cat(done, Cached)
        /\ Len(fed) = Len(out) + unprocessed_len
        /\ out = CbcOut(schedule, operation, start, done)
        /\ iv = CbcIv(schedule, operation, start, done)
    BY <2>1, <2>2, OpenCbc
  <2>5. /\ input \in Seq(Bytes) /\ Len(input) \in Nat
        /\ Cached \in Seq(Bytes) /\ Len(Cached) = unprocessed_len
        /\ fed \in Seq(Bytes) /\ Len(fed) \in Nat
    BY <1>1, <2>1, NextChunk, CachedIsSeq, LenProperties DEF TypeOK
  <2> HIDE DEF done
  <2>6. fed' = Cat(done, Cat(Cached, input))
    BY <2>2, <2>4, <2>5, CatAssoc
  <2>7. Cached' = Cat(Cached, input)
    <3>1. /\ Cat(Cached, input) \in Seq(Bytes)
          /\ Len(Cat(Cached, input)) = unprocessed_len + Len(input)
      BY <2>5, CatType
    <3>2. Cached' = SubSeq(Cat(Cached, input), 1, Len(Cat(Cached, input)))
      BY <2>1, <3>1 DEF Cached
    <3> QED
      BY <3>1, <3>2, SubSeqFull
  <2>8. Cat(Cached, input) \in Seq(Bytes)
    BY <2>5, CatType
  <2>9. CacheHoldsTail' /\ OutputOfOneCall'
    BY <1>1, <2>1, <2>3, <2>4, <2>6, <2>7, <2>8, CbcKept
  <2>10. Len(fed') = Len(out') + unprocessed_len'
    <3>1. Len(fed') = Len(fed) + Len(input)
      BY <2>2, <2>5, CatType
    <3> QED
      BY <1>1, <2>1, <2>3, <2>4, <2>5, <3>1, LenProperties DEF TypeOK
  <2>11. operation' = "encrypt" => unprocessed_len' < B
    BY <2>1 DEF OnlyCached
  <2>12. operation' = "decrypt" /\ fed' # << >> => unprocessed_len' > 0
    <3> SUFFICES ASSUME operation' = "decrypt", fed' # << >> PROVE unprocessed_len' > 0
      OBVIOUS
    <3>1. CASE input = << >>
      <4>1. fed' = fed /\ Len(input) = 0
        BY <2>2, <2>5, <3>1, CatEmpty, EmptySeq
      <4>2. unprocessed_len > 0
        BY <2>1, <2>2, <4>1 DEF IInv, FinishHasItsBlock
      <4> QED
        BY <1>1, <2>1, <4>1, <4>2 DEF TypeOK
    <3>2. CASE input # << >>
      <4>1. Len(input) > 0
        BY <2>5, <3>2, EmptySeq
      <4> QED
        BY <1>1, <2>1, <2>5, <4>1, Constants DEF TypeOK
    <3> QED
      BY <3>1, <3>2
  <2>13. FinishHasItsBlock'
    BY <1>1, <1>2, <2>1, <2>9, <2>10, <2>11, <2>12, FinishKept
  <2> QED
    BY <1>1, <2>9, <2>13 DEF IInv
<1> QED
  BY <1>1, <1>2, ClosedKept

LEMMA UpdateBlocksKeeps ==
    ASSUME IInv, NEW input \in NextChunks, UpdateBlocks(input)
    PROVE  IInv'
<1>1. TypeOK /\ TypeOK'
  BY UpdateBlocksType DEF IInv
<1>2. CASE stage' = "open"
  <2> DEFINE done == SubSeq(fed, 1, Len(out))
             head == HeadBlock(input)
             body == FullBlocks(input)
             left == Leftover(input)
             mid  == CbcIv(schedule, operation, iv, head)
             out1 == CbcOut(schedule, operation, iv, head)
             out2 == CbcOut(schedule, operation, mid, body)
             more == Cat(head, body)
  <2>1. /\ mode = "CBC" /\ Keyed /\ ~OnlyCached(input)
        /\ iv' = CbcIv(schedule, operation, mid, body)
        /\ unprocessed_data' = IF HoldLen(input) # 0 THEN left
                               ELSE IF head # << >> THEN head ELSE unprocessed_data
        /\ unprocessed_len' = HoldLen(input)
        /\ Return(input, Cat(out1, out2), "open")
        /\ UNCHANGED << mode, operation, key_length, schedule, start >>
    BY DEF UpdateBlocks, Cat
  <2>2. stage = "open" /\ fed' = Cat(fed, input) /\ out' = Cat(out, Cat(out1, out2))
    <3> HIDE DEF out1, out2
    <3> QED
      BY <1>2, <2>1, ReturnOpen
  <2>3. /\ done \in Seq(Bytes) /\ Len(done) = Len(out) /\ (Len(done) % B) = 0
        /\ fed = Cat(done, Cached)
        /\ Len(fed) = Len(out) + unprocessed_len
        /\ out = CbcOut(schedule, operation, start, done)
        /\ iv = CbcIv(schedule, operation, start, done)
    BY <2>1, <2>2, OpenCbc
  <2>4. /\ input \in Seq(Bytes) /\ Len(input) \in Nat /\ Len(input) <= MaxFed
        /\ Cached \in Seq(Bytes) /\ Len(Cached) = unprocessed_len
        /\ fed \in Seq(Bytes) /\ Len(fed) \in Nat
        /\ out \in Seq(Bytes) /\ Len(out) \in Nat
        /\ start \in Block
    BY <1>1, <2>1, NextChunk, CachedIsSeq, LenProperties DEF TypeOK
  <2>5. /\ HoldLen(input) \in 0..B
        /\ operation = "encrypt" => HoldLen(input) < B
        /\ operation = "decrypt" => HoldLen(input) > 0
        /\ head \in Seq(Bytes) /\ body \in Seq(Bytes) /\ (Len(body) % B) = 0
        /\ left \in Seq(Bytes) /\ Len(left) = HoldLen(input)
        /\ Cat(Cat(head, body), left) = Cat(Cached, input)
    <3>1. CopyLen \in 0..Len(input) /\ HoldLen(input) \in 0..(Len(input) - CopyLen)
      BY <1>1, <2>1, <2>4, BlockCut
    <3>2. HoldLen(input) \in Nat
      BY <2>4, <3>1
    <3> QED
      BY <1>1, <2>1, <2>4, <3>2, BlockCut, Constants
  <2>6. /\ schedule \in Schedules /\ operation \in Operations /\ iv \in Block
        /\ (Len(head) % B) = 0
        /\ out1 \in Seq(Bytes) /\ Len(out1) = Len(head)
        /\ mid \in Block
        /\ out2 \in Seq(Bytes) /\ Len(out2) = Len(body)
    BY <1>1, <2>1, <2>4, BlocksCalls
  <2> HIDE DEF done, head, body, left, mid, out1, out2
  <2>7. /\ more \in Seq(Bytes) /\ Len(more) = Len(head) + Len(body)
        /\ Len(head) \in Nat /\ Len(body) \in Nat /\ (Len(more) % B) = 0
    <3>1. Len(head) \in Nat /\ Len(body) \in Nat
      BY <2>5, LenProperties
    <3>2. more \in Seq(Bytes) /\ Len(more) = Len(head) + Len(body)
      BY <2>5, CatType
    <3>3. (Len(head) + Len(body)) % B = 0
      BY <2>5, <2>6, <3>1, Constants, ModAdd
    <3> QED
      BY <3>1, <3>2, <3>3
  <2>8. fed' = Cat(Cat(done, more), left)
    <3>1. fed' = Cat(done, Cat(Cached, input))
      BY <2>2, <2>3, <2>4, CatAssoc
    <3>2. fed' = Cat(done, Cat(more, left))
      BY <2>5, <3>1
    <3> HIDE DEF more
    <3> QED
      BY <2>3, <2>5, <2>7, <3>2, CatAssoc
  <2>9. Len(done) + Len(more) + Len(left) = Len(fed') /\ Len(fed') <= MaxFed
    <3> HIDE DEF more
    <3>1. Cat(done, more) \in Seq(Bytes) /\ Len(Cat(done, more)) = Len(done) + Len(more)
      BY <2>3, <2>7, CatType
    <3>2. Len(fed') = Len(Cat(done, more)) + Len(left)
      BY <2>5, <2>8, <3>1, CatType
    <3> QED
      BY <1>1, <3>1, <3>2 DEF TypeOK
  <2> HIDE DEF more
  <2>9a. /\ Len(done) \in Nat /\ Len(more) \in Nat /\ Len(left) \in Nat
         /\ Len(more) <= MaxFed + B /\ Len(done) + Len(more) <= MaxFed + B
    <3>1. Len(done) \in Nat /\ Len(more) \in Nat /\ Len(left) \in Nat
      BY <2>3, <2>5, <2>7, LenProperties
    <3> QED
      BY <2>9, <3>1, Constants
  <2>10. /\ out' = CbcOut(schedule, operation, start, Cat(done, more))
         /\ iv' = CbcIv(schedule, operation, start, Cat(done, more))
    <3>1. /\ CbcOut(schedule, operation, iv, more) = Cat(out1, out2)
          /\ CbcIv(schedule, operation, iv, more) = CbcIv(schedule, operation, mid, body)
      <4>1. Len(head) + Len(body) <= MaxFed + B
        BY <2>7, <2>9a
      <4> QED
        BY <2>5, <2>6, <4>1, CbcCalls DEF mid, out1, out2, more
    <3>2. Len(done) + Len(more) <= MaxFed + B
      BY <2>9a
    <3>3. /\ CbcOut(schedule, operation, start, Cat(done, more))
                = Cat(CbcOut(schedule, operation, start, done),
                      CbcOut(schedule, operation, CbcIv(schedule, operation, start, done), more))
          /\ CbcIv(schedule, operation, start, Cat(done, more))
                = CbcIv(schedule, operation, CbcIv(schedule, operation, start, done), more)
      <4>1. /\ schedule \in Schedules /\ operation \in Operations /\ start \in Block
            /\ done \in Seq(Bytes) /\ (Len(done) % B) = 0
            /\ more \in Seq(Bytes) /\ (Len(more) % B) = 0
        BY <2>3, <2>4, <2>6, <2>7
      <4> QED
        BY <3>2, <4>1, CbcCalls
    <3>4. CbcOut(schedule, operation, start, Cat(done, more)) = Cat(out, Cat(out1, out2))
      BY <2>3, <3>1, <3>3
    <3>5. CbcIv(schedule, operation, start, Cat(done, more))
             = CbcIv(schedule, operation, mid, body)
      BY <2>3, <3>1, <3>3
    <3> QED
      BY <2>1, <2>2, <3>4, <3>5
  <2>11. Cached' = left
    <3>1. CASE HoldLen(input) # 0
      <4>1. Cached' = SubSeq(left, 1, Len(left))
        BY <2>1, <2>5, <3>1 DEF Cached
      <4> QED
        BY <2>5, <4>1, SubSeqFull
    <3>2. CASE HoldLen(input) = 0
      <4>1. Cached' = << >>
        BY <2>1, <3>2, SubSeqEmpty DEF Cached
      <4>2. left = << >>
        BY <2>5, <3>2, EmptySeq
      <4> QED
        BY <4>1, <4>2
    <3> QED
      BY <3>1, <3>2
  <2>12. /\ Cat(done, more) \in Seq(Bytes)
         /\ Len(Cat(done, more)) = Len(done) + Len(more)
         /\ (Len(Cat(done, more)) % B) = 0
         /\ Len(out') = Len(Cat(done, more))
    <3>1. Cat(out1, out2) \in Seq(Bytes) /\ Len(Cat(out1, out2)) = Len(out1) + Len(out2)
      BY <2>6, CatType
    <3>2. Len(out') = Len(out) + Len(Cat(out1, out2))
      BY <2>2, <2>4, <3>1, CatType
    <3>3. (Len(done) + Len(more)) % B = 0
      <4>1. (Len(done) + Len(more)) % B = Len(done) % B
        BY <2>7, <2>9a, Constants, ModAdd
      <4> QED
        BY <2>3, <4>1
    <3>4. Cat(done, more) \in Seq(Bytes) /\ Len(Cat(done, more)) = Len(done) + Len(more)
      BY <2>3, <2>7, CatType
    <3> QED
      BY <2>3, <2>6, <2>7, <3>1, <3>2, <3>3, <3>4
  <2>13. CacheHoldsTail' /\ OutputOfOneCall'
    <3> DEFINE d == Cat(done, more)
    <3>1. /\ out' = CbcOut(schedule', operation', start', d)
          /\ iv' = CbcIv(schedule', operation', start', d)
          /\ mode' = "CBC"
      BY <2>1, <2>10
    <3> HIDE DEF d
    <3> QED
      BY <1>1, <2>5, <2>8, <2>11, <2>12, <3>1, CbcKept DEF d
  <2>14. FinishHasItsBlock'
    <3>1. Len(fed') = Len(out') + unprocessed_len'
      BY <2>1, <2>5, <2>9, <2>12
    <3> QED
      BY <1>1, <1>2, <2>1, <2>5, <2>13, <3>1, FinishKept
  <2> QED
    BY <1>1, <2>13, <2>14 DEF IInv
<1> QED
  BY <1>1, <1>2, ClosedKept

\* In a stream mode the state of the context is that of one call on all of the input.
LEMMA OpenStream ==
    ASSUME IInv, stage = "open", mode # "CBC"
    PROVE  /\ mode \in Modes \ { "CBC" } /\ schedule \in Schedules
           /\ schedule.dir = "encrypt" /\ operation \in Operations
           /\ fed \in Seq(Bytes) /\ Len(fed) \in Nat /\ Len(fed) <= MaxFed
           /\ \E b \in Block :
                  LET st == [iv |-> start, block |-> b, off |-> 0]
                  IN  /\ st \in StreamStates
                      /\ out = StreamOut(mode, schedule, operation, st, fed)
                      /\ [iv |-> iv, block |-> unprocessed_data, off |-> unprocessed_len]
                             = StreamState(mode, schedule, operation, st, fed)
<1>1. /\ mode \in Modes \ { "CBC" } /\ schedule \in Schedules
      /\ schedule.dir = "encrypt" /\ operation \in Operations
      /\ fed \in Seq(Bytes) /\ Len(fed) \in Nat /\ Len(fed) <= MaxFed
      /\ start \in Block
  BY LenProperties DEF IInv, TypeOK, Keyed
<1>2. PICK b \in Block :
          LET st == [iv |-> start, block |-> b, off |-> 0]
          IN  /\ out = StreamOut(mode, schedule, operation, st, fed)
              /\ [iv |-> iv, block |-> unprocessed_data, off |-> unprocessed_len]
                     = StreamState(mode, schedule, operation, st, fed)
  BY DEF IInv, OutputOfOneCall
<1>3. [iv |-> start, block |-> b, off |-> 0] \in StreamStates
  BY <1>1, Constants DEF StreamStates
<1> QED
  BY <1>1, <1>2, <1>3

LEMMA UpdateStreamKeeps ==
    ASSUME IInv, NEW input \in NextChunks, UpdateStream(input)
    PROVE  IInv'
<1>1. TypeOK /\ TypeOK'
  BY UpdateStreamType DEF IInv
<1>2. CASE stage' = "open"
  <2> DEFINE now    == [iv |-> iv, block |-> unprocessed_data, off |-> unprocessed_len]
             next   == StreamState(mode, schedule, operation, now, input)
             result == StreamOut(mode, schedule, operation, now, input)
  <2>1. /\ mode # "CBC"
        /\ iv' = next.iv /\ unprocessed_data' = next.block /\ unprocessed_len' = next.off
        /\ Return(input, result, "open")
        /\ UNCHANGED << mode, operation, key_length, schedule, start >>
    BY DEF UpdateStream
  <2>2. stage = "open" /\ fed' = Cat(fed, input) /\ out' = Cat(out, result)
    <3> HIDE DEF result
    <3> QED
      BY <1>2, <2>1, ReturnOpen
  <2>3. input \in Seq(Bytes) /\ Len(input) \in Nat
    BY <1>1, NextChunk, LenProperties
  <2>4. /\ mode \in Modes \ { "CBC" } /\ schedule \in Schedules
        /\ schedule.dir = "encrypt" /\ operation \in Operations
        /\ fed \in Seq(Bytes) /\ Len(fed) \in Nat
    BY <2>1, <2>2, OpenStream
  <2>5. PICK b \in Block :
            LET st == [iv |-> start, block |-> b, off |-> 0]
            IN  /\ st \in StreamStates
                /\ out = StreamOut(mode, schedule, operation, st, fed)
                /\ now = StreamState(mode, schedule, operation, st, fed)
    BY <2>1, <2>2, OpenStream
  <2> DEFINE st == [iv |-> start, block |-> b, off |-> 0]
  <2>6. /\ st \in StreamStates
        /\ out = StreamOut(mode, schedule, operation, st, fed)
        /\ now = StreamState(mode, schedule, operation, st, fed)
    BY <2>5
  <2>7. Len(fed) + Len(input) <= MaxFed
    <3>1. Len(fed') = Len(fed) + Len(input)
      BY <2>2, <2>3, <2>4, CatType
    <3> QED
      BY <1>1, <2>3, <2>4, <3>1, Constants DEF TypeOK
  <2> HIDE DEF st
  <2>8. /\ StreamOut(mode, schedule, operation, st, Cat(fed, input)) = Cat(out, result)
        /\ StreamState(mode, schedule, operation, st, Cat(fed, input)) = next
    <3> DEFINE mid == StreamState(mode, schedule, operation, st, fed)
    <3>1. /\ StreamOut(mode, schedule, operation, st, Cat(fed, input))
                = Cat(StreamOut(mode, schedule, operation, st, fed),
                      StreamOut(mode, schedule, operation, mid, input))
          /\ StreamState(mode, schedule, operation, st, Cat(fed, input))
                = StreamState(mode, schedule, operation, mid, input)
      BY <2>3, <2>4, <2>6, <2>7, StreamCalls
    <3>2. mid = now
      BY <2>6
    <3> HIDE DEF mid, now
    <3> QED
      BY <2>6, <3>1, <3>2
  <2>9. next \in StreamStates
    <3>1. mode' \in Modes /\ iv \in Block /\ unprocessed_data \in Block
          /\ unprocessed_len \in 0..(B - 1)
      BY <1>1, <2>1, Constants DEF TypeOK
    <3>2. now \in StreamStates
      BY <3>1 DEF StreamStates
    <3>3. Len(input) <= MaxFed
      BY <2>3, <2>4, <2>7, Constants
    <3> HIDE DEF now
    <3> QED
      BY <2>3, <2>4, <3>2, <3>3, StreamCall
  <2>10. [iv |-> iv', block |-> unprocessed_data', off |-> unprocessed_len'] = next
    <3> HIDE DEF next
    <3> QED
      BY <2>1, <2>9 DEF StreamStates
  <2>11. OutputOfOneCall'
    <3> SUFFICES \E x \in Block :
           LET s == [iv |-> start', block |-> x, off |-> 0]
           IN  /\ out' = StreamOut(mode', schedule', operation', s, fed')
               /\ [iv |-> iv', block |-> unprocessed_data', off |-> unprocessed_len']
                      = StreamState(mode', schedule', operation', s, fed')
      BY <2>1 DEF OutputOfOneCall
    <3> WITNESS b \in Block
    <3>1. [iv |-> start', block |-> b, off |-> 0] = st
      BY <2>1 DEF st
    <3> HIDE DEF next, result
    <3> QED
      BY <2>1, <2>2, <2>8, <2>10, <3>1
  <2>12. CacheHoldsTail' /\ FinishHasItsBlock'
    BY <2>1 DEF CacheHoldsTail, FinishHasItsBlock
  <2> QED
    BY <1>1, <2>11, <2>12 DEF IInv
<1> QED
  BY <1>1, <1>2, ClosedKept

\* finish() ends the message: after it there is nothing to keep.
LEMMA FinishKeeps ==
    ASSUME IInv, FinishEncrypt \/ FinishDecrypt \/ FinishIncomplete \/ FinishStream
    PROVE  IInv'
<1>1. TypeOK'
  BY FinishEncryptType, FinishDecryptType, FinishIncompleteType, FinishStreamType DEF IInv
<1>2. stage' # "open"
  <2>1. ASSUME NEW input, NEW result, Return(input, result, "finished")
        PROVE  stage' # "open"
    BY <2>1 DEF Return
  <2>2. ASSUME Raise("refused") PROVE stage' # "open"
    BY <2>2 DEF Raise
  <2>3. CASE FinishEncrypt
    BY <2>1, <2>3 DEF FinishEncrypt
  <2>4. CASE FinishDecrypt
    BY <2>1, <2>2, <2>4 DEF FinishDecrypt
  <2>5. CASE FinishIncomplete
    BY <2>2, <2>5 DEF FinishIncomplete
  <2>6. CASE FinishStream
    BY <2>1, <2>6 DEF FinishStream
  <2> QED
    BY <2>3, <2>4, <2>5, <2>6
<1> QED
  BY <1>1, <1>2, ClosedKept

\* IInv is inductive.
LEMMA IInvStep == IInv /\ [Next]_vars => IInv'
<1> SUFFICES ASSUME IInv, [Next]_vars PROVE IInv'
  OBVIOUS
<1>1. ASSUME NEW k \in Keys, NEW op \in Operations, SetKey(k, op) PROVE IInv'
  BY <1>1, SetKeyKeeps
<1>2. ASSUME NEW v \in IVs, Reset(v) PROVE IInv'
  BY <1>2, ResetKeeps
<1>3. ASSUME NEW input \in NextChunks, UpdateCached(input) PROVE IInv'
  BY <1>3, UpdateCachedKeeps
<1>4. ASSUME NEW input \in NextChunks, UpdateBlocks(input) PROVE IInv'
  BY <1>4, UpdateBlocksKeeps
<1>5. ASSUME NEW input \in NextChunks, UpdateStream(input) PROVE IInv'
  BY <1>5, UpdateStreamKeeps
<1>6. CASE FinishEncrypt \/ FinishDecrypt \/ FinishIncomplete \/ FinishStream
  BY <1>6, FinishKeeps
<1>7. CASE UNCHANGED vars
  BY <1>7 DEF vars, ctx, IInv, TypeOK, Keyed, CacheHoldsTail, Cached, OutputOfOneCall,
              FinishHasItsBlock
<1> QED
  BY <1>1, <1>2, <1>3, <1>4, <1>5, <1>6, <1>7 DEF Next

LEMMA IInvAlways == Spec => []IInv
<1>1. Init => IInv
  BY InitType DEF Init, IInv, CacheHoldsTail, OutputOfOneCall, FinishHasItsBlock
<1> QED
  BY <1>1, IInvStep, PTL DEF Spec

\* In the middle of a message the cached bytes are exactly the input that has not come out
\* yet, however the caller cuts the input into chunks (cipher.c:399-463).
THEOREM CacheCorrect == Spec => []CacheHoldsTail
<1>1. IInv => CacheHoldsTail
  BY DEF IInv
<1> QED
  BY <1>1, IInvAlways, PTL

\* Cutting a message into chunks leaves no trace in what comes out, nor in the IV, counter
\* or key stream offset the next chunk goes on with (cipher.c:371-497).
THEOREM ChunksLeaveNoTrace == Spec => []OutputOfOneCall
<1>1. IInv => OutputOfOneCall
  BY DEF IInv
<1> QED
  BY <1>1, IInvAlways, PTL

\* finish() finds room for the padding, or the block it is in (cipher.c:546-567).
THEOREM FinishIsPossible == Spec => []FinishHasItsBlock
<1>1. IInv => FinishHasItsBlock
  BY DEF IInv
<1> QED
  BY <1>1, IInvAlways, PTL

-----------------------------------------------------------------------------
(* The size of the buffers.                                                *)

\* What one step of OutputFits allows.
Fits ==
    IF stage = "open" /\ stage' # "stale"
    THEN Len(out') <= Len(out) + (Len(fed') - Len(fed)) + B
    ELSE Len(out') <= Len(fed') + B

\* The output runs behind the input by one block at most.
LEMMA Lag ==
    ASSUME IInv, stage = "open"
    PROVE  Len(fed) \in Nat /\ Len(out) \in Nat /\ Len(fed) <= Len(out) + B
<1>1. Len(fed) \in Nat /\ Len(out) \in Nat /\ B \in Nat
  BY Constants, LenProperties DEF IInv, TypeOK
<1>2. CASE mode = "CBC"
  <2>1. Len(fed) = Len(out) + unprocessed_len
    BY <1>2, OpenCbc
  <2> QED
    BY <1>1, <2>1 DEF IInv, TypeOK
<1>3. CASE mode # "CBC"
  <2>1. /\ mode \in Modes \ { "CBC" } /\ schedule \in Schedules
        /\ schedule.dir = "encrypt" /\ operation \in Operations
        /\ fed \in Seq(Bytes) /\ Len(fed) <= MaxFed
    BY <1>1, <1>3, OpenStream, Constants
  <2>2. PICK b \in Block :
            LET st == [iv |-> start, block |-> b, off |-> 0]
            IN  /\ st \in StreamStates
                /\ out = StreamOut(mode, schedule, operation, st, fed)
    BY <1>3, OpenStream
  <2> DEFINE st == [iv |-> start, block |-> b, off |-> 0]
  <2>3. st \in StreamStates /\ out = StreamOut(mode, schedule, operation, st, fed)
    BY <2>2
  <2> HIDE DEF st
  <2>4. Len(StreamOut(mode, schedule, operation, st, fed)) = Len(fed)
    BY ZenonT(60), <2>1, <2>3, StreamCall
  <2> QED
    BY <1>1, <2>3, <2>4
<1> QED
  BY <1>2, <1>3

LEMMA BeginFits ==
    ASSUME IInv, fed' = << >>, out' = << >>
    PROVE  Fits
<1>1. Len(<< >>) = 0 /\ B \in Nat
  BY EmptySeq, Constants
<1>2. CASE stage = "open"
  BY <1>1, <1>2, Lag DEF Fits
<1>3. CASE stage # "open"
  BY <1>1, <1>3 DEF Fits
<1> QED
  BY <1>2, <1>3

LEMMA ReturnFits ==
    ASSUME IInv, NEW input \in Seq(Bytes), NEW result \in Seq(Bytes),
           NEW next \in { "open", "finished" },
           Len(result) <= Len(input) + B, Return(input, result, next)
    PROVE  Fits
<1>1. /\ fed \in Seq(Bytes) /\ out \in Seq(Bytes)
      /\ Len(fed) \in Nat /\ Len(out) \in Nat /\ Len(input) \in Nat /\ Len(result) \in Nat
      /\ B \in Nat
  BY Constants, LenProperties DEF IInv, TypeOK
<1>2. CASE stage = "open" /\ stage' = next /\ fed' = Cat(fed, input) /\ out' = Cat(out, result)
  <2>1. Len(fed') = Len(fed) + Len(input) /\ Len(out') = Len(out) + Len(result)
    BY <1>1, <1>2, CatType
  <2> QED
    BY <1>1, <1>2, <2>1 DEF Fits
<1>3. CASE stage # "open" /\ stage' = "stale" /\ fed' = input /\ out' = result
  BY <1>3 DEF Fits
<1>4. CASE stage' = "stale" /\ fed' = << >> /\ out' = << >>
  BY <1>4, BeginFits
<1> QED
  BY <1>2, <1>3, <1>4 DEF Return, Cat

LEMMA RaiseFits ==
    ASSUME IInv, Raise("refused")
    PROVE  Fits
<1>1. CASE stage = "open" /\ stage' = "refused" /\ UNCHANGED << fed, out >>
  <2>1. Len(fed) \in Nat /\ Len(out) \in Nat /\ B \in Nat
    BY Constants, LenProperties DEF IInv, TypeOK
  <2> QED
    BY <1>1, <2>1 DEF Fits
<1>2. CASE fed' = << >> /\ out' = << >>
  BY <1>2, BeginFits
<1> QED
  BY <1>1, <1>2 DEF Raise

\* No step writes more than its buffer holds.
LEMMA FitsStep == IInv /\ Next => Fits
<1> SUFFICES ASSUME IInv, Next PROVE Fits
  OBVIOUS
<1>0. TypeOK /\ B \in Nat /\ << >> \in Seq(Bytes) /\ Len(<< >>) = 0
  BY EmptySeq, Constants DEF IInv
<1>1. ASSUME NEW k \in Keys, NEW op \in Operations, SetKey(k, op) PROVE Fits
  BY <1>1, BeginFits DEF SetKey
<1>2. ASSUME NEW v \in IVs, Reset(v) PROVE Fits
  BY <1>2, BeginFits DEF Reset
<1>3. ASSUME NEW input \in NextChunks, UpdateCached(input) PROVE Fits
  <2>1. input \in Seq(Bytes) /\ Len(input) \in Nat
    BY <1>0, NextChunk, LenProperties
  <2>2. Return(input, << >>, "open")
    BY <1>3 DEF UpdateCached
  <2>3. Len(<< >>) <= Len(input) + B
    BY <1>0, <2>1
  <2> QED
    BY <1>0, <2>1, <2>2, <2>3, ReturnFits
<1>4. ASSUME NEW input \in NextChunks, UpdateBlocks(input) PROVE Fits
  <2> DEFINE mid  == CbcIv(schedule, operation, iv, HeadBlock(input))
             out1 == CbcOut(schedule, operation, iv, HeadBlock(input))
             out2 == CbcOut(schedule, operation, mid, FullBlocks(input))
  <2>1. input \in Seq(Bytes) /\ Len(input) \in Nat /\ Len(input) <= MaxFed
    BY <1>0, NextChunk, LenProperties
  <2>2. /\ mode = "CBC" /\ Keyed /\ ~OnlyCached(input)
        /\ Return(input, Cat(out1, out2), "open")
    BY <1>4 DEF UpdateBlocks, Cat
  <2>3. /\ out1 \in Seq(Bytes) /\ out2 \in Seq(Bytes)
        /\ Len(out1) + Len(out2) <= Len(input) + B
    BY <1>0, <2>1, <2>2, BlocksCalls
  <2> HIDE DEF out1, out2
  <2>4. Cat(out1, out2) \in Seq(Bytes) /\ Len(Cat(out1, out2)) = Len(out1) + Len(out2)
    BY <2>3, CatType
  <2> QED
    BY <2>1, <2>2, <2>3, <2>4, ReturnFits
<1>5. ASSUME NEW input \in NextChunks, UpdateStream(input) PROVE Fits
  <2> DEFINE st == [iv |-> iv, block |-> unprocessed_data, off |-> unprocessed_len]
             result == StreamOut(mode, schedule, operation, st, input)
  <2>1. input \in Seq(Bytes) /\ Len(input) \in Nat /\ Len(input) <= MaxFed
    BY <1>0, NextChunk, LenProperties, Constants
  <2>2. Return(input, result, "open")
    BY <1>5 DEF UpdateStream
  <2>3. /\ mode \in Modes \ { "CBC" } /\ schedule \in Schedules /\ schedule.dir = "encrypt"
        /\ operation \in Operations /\ st \in StreamStates
    BY <1>0, <1>5, Constants DEF UpdateStream, TypeOK, Keyed, StreamStates
  <2> HIDE DEF st
  <2>4. result \in Seq(Bytes) /\ Len(result) = Len(input)
    BY ZenonT(60), <2>1, <2>3, StreamCall
  <2> HIDE DEF result
  <2> QED
    BY <1>0, <2>1, <2>2, <2>4, ReturnFits
<1>6. CASE FinishEncrypt
  <2> DEFINE padded == Cached \o Padding(B - unprocessed_len)
             result == CbcOut(schedule, operation, iv, padded)
  <2>1. mode = "CBC" /\ Keyed /\ Return(<< >>, result, "finished")
    BY <1>6 DEF FinishEncrypt
  <2>2. padded \in Seq(Bytes) /\ Len(padded) = B
    BY <1>0, <2>1, PaddedBlock
  <2> HIDE DEF padded
  <2>3. result \in Seq(Bytes) /\ Len(result) = B
    BY <1>0, <2>1, <2>2, OneBlock
  <2> HIDE DEF result
  <2>4. Len(result) <= Len(<< >>) + B
    BY <1>0, <2>3
  <2> QED
    BY <1>0, <2>1, <2>3, <2>4, ReturnFits
<1>7. CASE FinishDecrypt
  <2> DEFINE text == CbcOut(schedule, operation, iv, Cached)
             result == SubSeq(text, 1, B - text[B])
  <2>1. CASE Raise("refused")
    BY <2>1, RaiseFits
  <2>2. CASE ValidPadding(text) /\ Return(<< >>, result, "finished")
    <3>1. mode = "CBC" /\ Keyed /\ unprocessed_len = B
      BY <1>7 DEF FinishDecrypt
    <3>2. Cached \in Seq(Bytes) /\ Len(Cached) = B
      BY <1>0, <3>1, CachedIsSeq
    <3>3. text[B] \in 0..B /\ result \in Seq(Bytes) /\ Len(result) = B - text[B]
      BY <1>0, <2>2, <3>1, <3>2, OneBlock
    <3> HIDE DEF text, result
    <3>4. Len(result) <= Len(<< >>) + B
      BY <1>0, <3>3
    <3> QED
      BY <1>0, <2>2, <3>3, <3>4, ReturnFits
  <2> QED
    BY <1>7, <2>1, <2>2 DEF FinishDecrypt
<1>8. CASE FinishIncomplete
  BY <1>8, RaiseFits DEF FinishIncomplete
<1>9. CASE FinishStream
  <2>1. Return(<< >>, << >>, "finished")
    BY <1>9 DEF FinishStream
  <2>2. Len(<< >>) <= Len(<< >>) + B
    BY <1>0
  <2> QED
    BY <1>0, <2>1, <2>2, ReturnFits
<1> QED
  BY <1>1, <1>2, <1>3, <1>4, <1>5, <1>6, <1>7, <1>8, <1>9 DEF Next

\* The output of one call fits the buffer it is given (ltn12ce_crypto.c:108 and 119), also
\* when calls are made in an order outside the protocol.
THEOREM BuffersSuffice == Spec => OutputFits
<1>1. IInv /\ [Next]_vars =>
          [IF stage = "open" /\ stage' # "stale"
           THEN Len(out') <= Len(out) + (Len(fed') - Len(fed)) + B
           ELSE Len(out') <= Len(fed') + B]_vars
  BY FitsStep DEF Fits
<1> QED
  BY <1>1, IInvAlways, PTL DEF Spec, OutputFits
-----------------------------------------------------------------------------
(* Cipher implements the contract of module Filter, for every block size,  *)
(* key, initialisation vector and message: every call is a step of the     *)
(* contract, and what finish() leaves behind is the complete output.       *)

\* A call that returns in mid-message extends what was fed and what came out.
LEMMA ReturnExtends ==
    ASSUME IInv, NEW input \in Seq(Bytes), NEW result \in Seq(Bytes),
           NEW next \in { "open", "finished" }, Return(input, result, next),
           stage' \in { "open", "finished" }
    PROVE  /\ stage = "open" /\ stage' = next
           /\ fed' = Cat(fed, input) /\ out' = Cat(out, result)
           /\ IsPrefix(fed, fed') /\ IsPrefix(out, out')
<1>1. /\ stage = "open" /\ stage' = next
      /\ fed' = Cat(fed, input) /\ out' = Cat(out, result)
  BY DEF Return, Cat
<1>2. fed \in Seq(Bytes) /\ out \in Seq(Bytes)
  BY DEF IInv, TypeOK
<1>3. IsPrefix(fed, Cat(fed, input)) /\ IsPrefix(out, Cat(out, result))
  BY <1>2, PrefixOfJoin DEF Cat
<1> QED
  BY <1>1, <1>3

\* A step that loses the message, or is taken outside of one, is a step of the contract.
LEMMA Lost ==
    ASSUME stage' = "stale"
    PROVE  Contract!FNext
<1>1. CASE stage = "open"
  BY <1>1 DEF Contract!FNext, Contract!Abandon
<1>2. CASE stage # "open"
  BY <1>2 DEF Contract!FNext, Contract!Outside
<1> QED
  BY <1>1, <1>2

\* setkey and reset begin a message, or give one up.
LEMMA Begins ==
    ASSUME fed' = << >>, out' = << >>, stage' \in { "open", "stale" }
    PROVE  Contract!FNext
BY Lost DEF Contract!FNext, Contract!Begin

\* An update is the contract's Update.
LEMMA Updates ==
    ASSUME IInv, NEW input \in Seq(Bytes), NEW result \in Seq(Bytes),
           Return(input, result, "open"), UNCHANGED << mode, operation, schedule, start >>
    PROVE  Contract!FNext
<1>1. CASE stage' = "open"
  <2>1. /\ stage = "open" /\ IsPrefix(fed, fed') /\ IsPrefix(out, out')
    BY <1>1, ReturnExtends
  <2>2. Setup' = Setup
    BY DEF Setup
  <2> QED
    BY <1>1, <2>1, <2>2 DEF Contract!FNext, Contract!Update, Contract!IsPrefix, IsPrefix
<1>2. CASE stage' # "open"
  <2>1. stage' = "stale"
    BY <1>2 DEF Return
  <2> QED
    BY <2>1, Lost
<1> QED
  BY <1>1, <1>2

\* A finish that returns is the contract's Finish, provided that the output is complete.
LEMMA Finishes ==
    ASSUME IInv, NEW result \in Seq(Bytes), Return(<< >>, result, "finished"),
           UNCHANGED << mode, operation, schedule, start >>,
           stage = "open" => Complete(Setup, fed, Cat(out, result))
    PROVE  Contract!FNext
<1>1. CASE stage' = "finished"
  <2>1. << >> \in Seq(Bytes) /\ fed \in Seq(Bytes)
    BY EmptySeq DEF IInv, TypeOK
  <2>2. /\ stage = "open" /\ fed' = Cat(fed, << >>) /\ out' = Cat(out, result)
        /\ IsPrefix(out, out')
    BY <1>1, <2>1, ReturnExtends
  <2>3. fed' = fed
    BY <2>1, <2>2, CatEmpty
  <2>4. Setup' = Setup
    BY DEF Setup
  <2>5. Complete(Setup, fed, out')
    BY <2>2
  <2> QED
    BY <1>1, <2>2, <2>3, <2>4, <2>5 DEF Contract!FNext, Contract!Finish, Contract!IsPrefix, IsPrefix
<1>2. CASE stage' # "finished"
  <2>1. stage' = "stale"
    BY <1>2 DEF Return
  <2> QED
    BY <2>1, Lost
<1> QED
  BY <1>1, <1>2

\* A finish that raises an error is the contract's Refuse, provided that there is no output.
LEMMA Refuses ==
    ASSUME Raise("refused"), UNCHANGED << mode, operation, schedule, start >>,
           stage = "open" => Refusable(Setup, fed)
    PROVE  Contract!FNext
<1>1. CASE stage = "open" /\ stage' = "refused" /\ UNCHANGED << fed, out >>
  <2>1. Setup' = Setup
    BY DEF Setup
  <2> QED
    BY <1>1, <2>1 DEF Contract!FNext, Contract!Refuse
<1>2. CASE stage' = "stale"
  BY <1>2, Lost
<1> QED
  BY <1>1, <1>2 DEF Raise

-----------------------------------------------------------------------------
(* The output is complete.                                                 *)

\* A prefix that reaches into the second of two joined sequences.
LEMMA PrefixIntoJoin ==
    ASSUME NEW S, NEW s \in Seq(S), NEW t \in Seq(S), NEW n \in 0..Len(t)
    PROVE  SubSeq(Cat(s, t), 1, Len(s) + n) = Cat(s, SubSeq(t, 1, n))
<1> DEFINE p == SubSeq(t, 1, n)
           q == SubSeq(t, n + 1, Len(t))
<1>1. p \in Seq(S) /\ Len(p) = n /\ q \in Seq(S) /\ t = Cat(p, q)
  BY ZenonT(60), CutInTwo DEF Cat
<1> HIDE DEF p, q
<1>2. Cat(s, p) \in Seq(S) /\ Len(Cat(s, p)) = Len(s) + n
  BY <1>1, CatType
<1>3. Cat(s, t) = Cat(Cat(s, p), q)
  BY <1>1, CatAssoc
<1>4. SubSeq(Cat(Cat(s, p), q), 1, Len(Cat(s, p))) = Cat(s, p)
  <2> DEFINE sp == Cat(s, p)
  <2>1. sp \in Seq(S)
    BY <1>2
  <2> HIDE DEF sp
  <2>2. SubSeq(sp \o q, 1, Len(sp)) = sp
    BY <1>1, <2>1, CutAtJoint
  <2> QED
    BY <2>2 DEF sp, Cat
<1> QED
  BY <1>2, <1>3, <1>4 DEF p

\* Enciphering: the padded rest is the padded message's rest.
LEMMA EncryptComplete ==
    ASSUME IInv, stage = "open", mode = "CBC", operation = "encrypt"
    PROVE  Complete(Setup, fed,
               Cat(out, CbcOut(schedule, operation, iv,
                               Cat(Cached, Padding(B - unprocessed_len)))))
<1> DEFINE done == SubSeq(fed, 1, Len(out))
           u == unprocessed_len
           pad == Padding(B - u)
           last == Cat(Cached, pad)
<1>1. /\ done \in Seq(Bytes) /\ Len(done) = Len(out) /\ (Len(done) % B) = 0
      /\ fed = Cat(done, Cached)
      /\ Len(fed) = Len(out) + u
      /\ out = CbcOut(schedule, operation, start, done)
      /\ iv = CbcIv(schedule, operation, start, done)
  BY OpenCbc
<1>2. /\ TypeOK /\ fed \in Seq(Bytes) /\ out \in Seq(Bytes) /\ start \in Block
      /\ Len(fed) <= MaxFed /\ u \in 0..B /\ u < B
      /\ schedule \in Schedules /\ operation \in Operations
  BY DEF IInv, TypeOK, Keyed, FinishHasItsBlock
<1>3. Len(out) \in Nat /\ Len(fed) \in Nat /\ B \in Nat /\ MaxFed \in Nat
  BY <1>2, Constants, LenProperties
<1>4. Len(fed) % B = u
  <2>0. /\ u \in 0..(B - 1) /\ u \in Nat /\ Len(out) \in Nat /\ Len(out) % B = 0
        /\ B \in Nat \ {0}
    <3>1. u \in 0..(B - 1) /\ u \in Nat
      BY <1>2, <1>3
    <3>2. Len(out) % B = 0
      BY DEF IInv, CacheHoldsTail
    <3> HIDE DEF u
    <3> QED
      BY <1>3, <3>1, <3>2, Constants
  <2>1. (u + Len(out)) % B = u % B
    BY <2>0, ModAdd
  <2>2. u % B = u
    BY <2>0, ModSmall
  <2>3. u + Len(out) = Len(fed)
    BY <1>1, <1>2, <1>3
  <2> QED
    BY <2>1, <2>2, <2>3
<1>5. /\ Cached \in Seq(Bytes) /\ pad \in Seq(Bytes)
      /\ last \in Seq(Bytes) /\ Len(last) = B
  <2>1. B - u \in 0..B
    BY <1>2, <1>3
  <2>2. pad \in Seq(Bytes)
    BY <2>1, PaddingIsSeq
  <2>3. Cached \in Seq(Bytes)
    BY <1>2, CachedIsSeq
  <2>4. last \in Seq(Bytes) /\ Len(last) = B
    BY <1>2, PaddedBlock DEF Cat
  <2> QED
    BY <2>2, <2>3, <2>4
<1>6. Cat(fed, pad) = Cat(done, last)
  <2> HIDE DEF done, pad
  <2> QED
    BY <1>1, <1>5, CatAssoc
<1> HIDE DEF done, pad, last
<1>7. CbcOut(schedule, operation, start, Cat(done, last))
         = Cat(out, CbcOut(schedule, operation, iv, last))
  <2>1. Len(done) + Len(last) <= MaxFed + B
    BY <1>1, <1>2, <1>3, <1>5
  <2>2. /\ schedule \in Schedules /\ operation \in Operations /\ start \in Block
        /\ done \in Seq(Bytes) /\ (Len(done) % B) = 0
        /\ last \in Seq(Bytes) /\ (Len(last) % B) = 0
    BY <1>1, <1>2, <1>5, Constants, ModSmall
  <2>3. CbcOut(schedule, operation, start, Cat(done, last))
           = Cat(CbcOut(schedule, operation, start, done),
                 CbcOut(schedule, operation, CbcIv(schedule, operation, start, done), last))
    BY <2>1, <2>2, CbcCalls
  <2> QED
    BY <1>1, <2>3
<1> DEFINE o == Cat(out, CbcOut(schedule, operation, iv, last))
<1>8. o = CbcOut(schedule, "encrypt", start, fed \o Padding(B - (Len(fed) % B)))
  BY <1>4, <1>6, <1>7 DEF Cat, pad
<1>9. /\ Setup.mode = "CBC" /\ Setup.operation = "encrypt"
      /\ Setup.schedule = schedule /\ Setup.iv = start
  BY DEF Setup
<1> HIDE DEF o
<1>10. Complete(Setup, fed, o)
  BY <1>8, <1>9 DEF Complete
<1> QED
  BY <1>10 DEF o, last, pad

\* Deciphering with a block held back: it is the last block of the text.
LEMMA DecryptComplete ==
    ASSUME IInv, stage = "open", mode = "CBC", operation = "decrypt", unprocessed_len = B
    PROVE  LET text == CbcOut(schedule, operation, iv, Cached)
           IN  /\ Refusable(Setup, fed) <=> ~ValidPadding(text)
               /\ ValidPadding(text) =>
                      Complete(Setup, fed, Cat(out, SubSeq(text, 1, B - text[B])))
<1> DEFINE done == SubSeq(fed, 1, Len(out))
           text == CbcOut(schedule, operation, iv, Cached)
<1>1. /\ done \in Seq(Bytes) /\ Len(done) = Len(out) /\ (Len(done) % B) = 0
      /\ fed = Cat(done, Cached)
      /\ Len(fed) = Len(out) + B
      /\ out = CbcOut(schedule, operation, start, done)
      /\ iv = CbcIv(schedule, operation, start, done)
  BY OpenCbc
<1>2. /\ TypeOK /\ fed \in Seq(Bytes) /\ out \in Seq(Bytes) /\ start \in Block
      /\ Len(fed) <= MaxFed
      /\ schedule \in Schedules /\ operation \in Operations /\ Keyed
  BY DEF IInv, TypeOK, Keyed
<1>3. /\ Len(out) \in Nat /\ Len(fed) \in Nat /\ B \in Nat \ {0} /\ B \in Nat
      /\ MaxFed \in Nat /\ (B % B) = 0
  BY <1>2, Constants, ModSmall, LenProperties
<1>4. Cached \in Seq(Bytes) /\ Len(Cached) = B
  BY <1>2, CachedIsSeq
<1>5. /\ text \in Seq(Bytes) /\ Len(text) = B
      /\ ValidPadding(text) => text[B] \in 0..B
  BY <1>2, <1>4, OneBlock
<1> HIDE DEF done
<1>6. CbcOut(schedule, operation, start, fed) = Cat(out, text)
  <2>1. Len(done) + Len(Cached) <= MaxFed + B
    BY <1>1, <1>2, <1>3, <1>4
  <2>2. /\ schedule \in Schedules /\ operation \in Operations /\ start \in Block
        /\ done \in Seq(Bytes) /\ (Len(done) % B) = 0
        /\ Cached \in Seq(Bytes) /\ (Len(Cached) % B) = 0
    BY <1>1, <1>2, <1>3, <1>4
  <2>3. CbcOut(schedule, operation, start, Cat(done, Cached))
           = Cat(CbcOut(schedule, operation, start, done),
                 CbcOut(schedule, operation, CbcIv(schedule, operation, start, done), Cached))
    BY <2>1, <2>2, CbcCalls
  <2> QED
    BY <1>1, <2>3
<1> HIDE DEF text
<1>7. /\ Setup.mode = "CBC" /\ Setup.operation = "decrypt"
      /\ Setup.schedule = schedule /\ Setup.iv = start
  BY DEF Setup
<1>8. Text(Setup, fed) = Cat(out, text)
  BY <1>6, <1>7 DEF Text
<1>9. LastBlock(Text(Setup, fed)) = text
  <2>1. Len(Cat(out, text)) = Len(out) + B
    BY <1>2, <1>5, CatType
  <2>2. SubSeq(Cat(out, text), Len(out) + 1, Len(Cat(out, text))) = text
    BY <1>2, <1>5, CutAtJoint DEF Cat
  <2>3. Len(Cat(out, text)) - B + 1 = Len(out) + 1
    BY <1>3, <2>1
  <2> QED
    BY <1>8, <2>2, <2>3 DEF LastBlock
<1>10. Refusable(Setup, fed) <=> ~ValidPadding(text)
  <2>1. fed # << >>
    BY <1>1, <1>3, EmptySeq
  <2>2. (Len(fed) % B) = 0
    <3>1. (Len(out) + B) % B = Len(out) % B
      BY <1>3, ModAdd
    <3> QED
      BY <1>1, <3>1
  <2> QED
    BY <1>7, <1>9, <2>1, <2>2 DEF Refusable
<1>11. ASSUME ValidPadding(text)
       PROVE  Complete(Setup, fed, Cat(out, SubSeq(text, 1, B - text[B])))
  <2>1. text[B] \in 0..B
    BY <1>5, <1>11
  <2>2. B - text[B] \in 0..Len(text) /\ Len(fed) - text[B] = Len(out) + (B - text[B])
    BY <1>1, <1>3, <1>5, <2>1
  <2>3. SubSeq(Cat(out, text), 1, Len(out) + (B - text[B]))
           = Cat(out, SubSeq(text, 1, B - text[B]))
    BY ZenonT(60), <1>2, <1>5, <2>2, PrefixIntoJoin
  <2>4. SubSeq(Text(Setup, fed), 1, Len(fed) - LastBlock(Text(Setup, fed))[B])
           = Cat(out, SubSeq(text, 1, B - text[B]))
    BY <1>8, <1>9, <2>2, <2>3
  <2> QED
    BY <1>7, <1>10, <1>11, <2>4 DEF Complete
<1> QED
  BY <1>10, <1>11 DEF text

\* The stream modes have put out everything already.
LEMMA StreamComplete ==
    ASSUME IInv, stage = "open", mode # "CBC"
    PROVE  Complete(Setup, fed, Cat(out, << >>))
<1>1. /\ mode \in Modes \ { "CBC" } /\ schedule \in Schedules
      /\ schedule.dir = "encrypt" /\ operation \in Operations
      /\ fed \in Seq(Bytes) /\ Len(fed) \in Nat /\ Len(fed) <= MaxFed
  BY OpenStream
<1>2. PICK b \in Block :
          LET st == [iv |-> start, block |-> b, off |-> 0]
          IN  /\ st \in StreamStates
              /\ out = StreamOut(mode, schedule, operation, st, fed)
  BY OpenStream
<1> DEFINE st == [iv |-> start, block |-> b, off |-> 0]
<1>3. st \in StreamStates /\ out = StreamOut(mode, schedule, operation, st, fed) /\ st.off = 0
  BY <1>2
<1>4. [st EXCEPT !.block = Zeros] = StreamStart(start)
  BY DEF StreamStart
<1>5. Len(fed) <= MaxFed
  BY <1>1, Constants
<1> HIDE DEF st
<1>6. StreamOut(mode, schedule, operation, st, fed)
         = StreamOut(mode, schedule, operation, [st EXCEPT !.block = Zeros], fed)
  <2>1. schedule \in [key : Keys, dir : { "encrypt" }] /\ fed \in StreamData
    BY <1>1, <1>5, ShortIsStreamData DEF Schedules
  <2>2. /\ StreamOut(mode, schedule, operation, st, fed) \in Seq(Bytes)
        /\ Len(StreamOut(mode, schedule, operation, st, fed)) = Len(fed)
        /\ StreamState(mode, schedule, operation, st, fed) \in StreamStates
        /\ fed = << >> => StreamState(mode, schedule, operation, st, fed) = st
        /\ st.off = 0 => StreamOut(mode, schedule, operation, st, fed)
              = StreamOut(mode, schedule, operation, [st EXCEPT !.block = Zeros], fed)
    BY <1>1, <1>3, <2>1, StreamContract
  <2> QED
    BY <1>3, <2>2
<1>7. Cat(out, << >>) = out
  BY CatEmpty DEF IInv, TypeOK
<1>8. out = StreamOut(mode, schedule, operation, StreamStart(start), fed)
  BY <1>3, <1>4, <1>6
<1>9. /\ Setup.mode = mode /\ Setup.operation = operation
      /\ Setup.schedule = schedule /\ Setup.iv = start
  BY DEF Setup
<1> QED
  BY <1>7, <1>8, <1>9 DEF Complete

-----------------------------------------------------------------------------
(* Every step is a step of the contract.                                   *)

LEMMA ContractStep == IInv /\ [Next]_vars => [Contract!FNext]_(Contract!contract)
<1> SUFFICES ASSUME IInv, [Next]_vars
             PROVE  Contract!FNext \/ UNCHANGED Contract!contract
  OBVIOUS
<1>0. TypeOK /\ << >> \in Seq(Bytes)
  BY EmptySeq DEF IInv
<1>1. ASSUME NEW k \in Keys, NEW op \in Operations, SetKey(k, op) PROVE Contract!FNext
  BY <1>1, Begins DEF SetKey
<1>2. ASSUME NEW v \in IVs, Reset(v) PROVE Contract!FNext
  BY <1>2, Begins DEF Reset
<1>3. ASSUME NEW input \in NextChunks, UpdateCached(input) PROVE Contract!FNext
  <2>1. input \in Seq(Bytes)
    BY <1>0, NextChunk
  <2> QED
    BY <1>0, <1>3, <2>1, Updates DEF UpdateCached
<1>4. ASSUME NEW input \in NextChunks, UpdateBlocks(input) PROVE Contract!FNext
  <2> DEFINE mid  == CbcIv(schedule, operation, iv, HeadBlock(input))
             out1 == CbcOut(schedule, operation, iv, HeadBlock(input))
             out2 == CbcOut(schedule, operation, mid, FullBlocks(input))
  <2>1. input \in Seq(Bytes) /\ Len(input) <= MaxFed
    BY <1>0, NextChunk
  <2>2. /\ mode = "CBC" /\ Keyed /\ ~OnlyCached(input)
        /\ Return(input, Cat(out1, out2), "open")
        /\ UNCHANGED << mode, operation, schedule, start >>
    BY <1>4 DEF UpdateBlocks, Cat
  <2>3. out1 \in Seq(Bytes) /\ out2 \in Seq(Bytes)
    BY <1>0, <2>1, <2>2, BlocksCalls
  <2> HIDE DEF out1, out2
  <2>4. Cat(out1, out2) \in Seq(Bytes)
    BY <2>3, CatType
  <2> QED
    BY <2>1, <2>2, <2>4, Updates
<1>5. ASSUME NEW input \in NextChunks, UpdateStream(input) PROVE Contract!FNext
  <2> DEFINE st == [iv |-> iv, block |-> unprocessed_data, off |-> unprocessed_len]
             result == StreamOut(mode, schedule, operation, st, input)
  <2>1. input \in Seq(Bytes) /\ Len(input) <= MaxFed
    BY <1>0, NextChunk, LenProperties, Constants
  <2>2. /\ Return(input, result, "open")
        /\ UNCHANGED << mode, operation, schedule, start >>
    BY <1>5 DEF UpdateStream
  <2>3. /\ mode \in Modes \ { "CBC" } /\ schedule \in Schedules /\ schedule.dir = "encrypt"
        /\ operation \in Operations /\ st \in StreamStates
    BY <1>0, <1>5, Constants DEF UpdateStream, TypeOK, Keyed, StreamStates
  <2> HIDE DEF st
  <2>4. result \in Seq(Bytes)
    BY <2>1, <2>3, StreamCall
  <2> HIDE DEF result
  <2> QED
    BY <2>1, <2>2, <2>4, Updates
<1>6. CASE FinishEncrypt
  <2> DEFINE padded == Cat(Cached, Padding(B - unprocessed_len))
             result == CbcOut(schedule, operation, iv, padded)
  <2>1. /\ mode = "CBC" /\ Keyed /\ operation = "encrypt"
        /\ Return(<< >>, result, "finished")
        /\ UNCHANGED << mode, operation, schedule, start >>
    BY <1>6 DEF FinishEncrypt, Cat
  <2>2. padded \in Seq(Bytes) /\ Len(padded) = B
    BY <1>0, <2>1, PaddedBlock DEF Cat
  <2>3. result \in Seq(Bytes)
    <3> HIDE DEF padded
    <3> QED
      BY <1>0, <2>1, <2>2, OneBlock
  <2>4. stage = "open" => Complete(Setup, fed, Cat(out, result))
    BY <2>1, EncryptComplete
  <2> HIDE DEF result
  <2> QED
    BY <2>1, <2>3, <2>4, Finishes
<1>7. CASE FinishDecrypt
  <2> DEFINE text == CbcOut(schedule, operation, iv, Cached)
             result == SubSeq(text, 1, B - text[B])
  <2>1. /\ mode = "CBC" /\ Keyed /\ operation = "decrypt" /\ unprocessed_len = B
        /\ UNCHANGED << mode, operation, schedule, start >>
    BY <1>7 DEF FinishDecrypt
  <2>2. CASE ~ValidPadding(text) /\ Raise("refused")
    <3>1. stage = "open" => Refusable(Setup, fed)
      BY <2>1, <2>2, DecryptComplete
    <3> QED
      BY <2>1, <2>2, <3>1, Refuses
  <2>3. CASE ValidPadding(text) /\ Return(<< >>, result, "finished")
    <3>1. Cached \in Seq(Bytes) /\ Len(Cached) = B
      BY <1>0, <2>1, CachedIsSeq
    <3>2. result \in Seq(Bytes)
      BY <1>0, <2>1, <2>3, <3>1, OneBlock
    <3>3. stage = "open" => Complete(Setup, fed, Cat(out, result))
      BY <2>1, <2>3, DecryptComplete
    <3> HIDE DEF text, result
    <3> QED
      BY <2>1, <2>3, <3>2, <3>3, Finishes
  <2> QED
    BY <1>7, <2>2, <2>3 DEF FinishDecrypt
<1>8. CASE FinishIncomplete
  <2>1. stage = "open" => Refusable(Setup, fed)
    BY <1>8 DEF FinishIncomplete, IInv, FinishHasItsBlock, Refusable, Setup
  <2> QED
    BY <1>8, <2>1, Refuses DEF FinishIncomplete, ctx
<1>9. CASE FinishStream
  <2>1. stage = "open" => Complete(Setup, fed, Cat(out, << >>))
    BY <1>9, StreamComplete DEF FinishStream
  <2> QED
    BY <1>0, <1>9, <2>1, Finishes DEF FinishStream, ctx
<1>10. CASE UNCHANGED vars
  BY <1>10 DEF vars, ctx, Contract!contract, Setup
<1> QED
  BY <1>1, <1>2, <1>3, <1>4, <1>5, <1>6, <1>7, <1>8, <1>9, <1>10 DEF Next

\* The cipher object keeps the contract of README.md lines 65-84: however the input is cut
\* up, the strings update() and finish() return concatenate to the entire output, and
\* finish() refuses only what has none.
THEOREM CipherKeepsContract == Spec => FilterContract
<1>1. Init => Contract!FInit
  BY DEF Init, Contract!FInit
<1> QED
  BY <1>1, ContractStep, IInvAlways, PTL DEF Spec, FilterContract, Contract!FSpec
=============================================================================
