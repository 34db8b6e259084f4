-------------------------- MODULE CipherChainProofs --------------------------
(***************************************************************************)
(* Proofs about CipherChain: for every block size, key, IV and message,    *)
(* and however both callers cut what they pass on, the text comes back.    *)
(* Each of the two objects keeps the invariant of module CipherProofs; the *)
(* messages of the decipherer are any bytes the pipe may hold.             *)
(***************************************************************************)
EXTENDS CipherChain, CipherProofs, CipherInverse

\* What the pipe may hold is the message of the decipherer.
CipherTexts == { x \in Seq(Bytes) : Len(x) <= MaxFed }

DP == INSTANCE CipherProofs WITH
        Messages <- CipherTexts,
        operation <- d_operation, key_length <- d_key_length, schedule <- d_schedule,
        iv <- d_iv, unprocessed_data <- d_unprocessed_data,
        unprocessed_len <- d_unprocessed_len,
        fed <- d_fed, out <- d_out, stage <- d_stage, start <- d_start

-----------------------------------------------------------------------------
(* The inductive invariant.                                                *)

\* The two have one key, in the key schedules of their directions, and began with one IV.
SameSetup ==
    /\ operation = "encrypt" /\ d_operation = "decrypt"
    /\ d_start = start
    /\ schedule = [key |-> schedule.key, dir |-> DirFor(mode, "encrypt")]
    /\ d_schedule = [key |-> schedule.key, dir |-> DirFor(mode, "decrypt")]
    /\ schedule.key \in Keys

\* Neither object has failed.
NeitherRefuses == stage \in { "open", "finished" } /\ d_stage \in { "open", "finished" }

\* The decipherer has been given the output of the encipherer, up to some byte.
PipeHoldsRest == Len(d_fed) <= Len(out) /\ d_fed = SubSeq(out, 1, Len(d_fed))

\* Once it has finished, the encipherer has put out all of its message.
Enciphered == stage = "finished" => fed \in Messages /\ Complete(Setup, fed, out)

\* Once it has finished, the decipherer has put out the text.
Deciphered == d_stage = "finished" => stage = "finished" /\ d_out = fed

ChainInv ==
    /\ IInv /\ DP!IInv
    /\ SameSetup /\ NeitherRefuses /\ PipeHoldsRest /\ Enciphered /\ Deciphered

-----------------------------------------------------------------------------
(* The decipherer is a cipher object.                                      *)

\* Its types are the same ones.
LEMMA SameTypes ==
    /\ DP!Bytes = Bytes /\ DP!Block = Block /\ DP!Operations = Operations
    /\ DP!Modes = Modes /\ DP!Schedules = Schedules /\ DP!StreamStates = StreamStates
    /\ DP!Zeros = Zeros /\ DP!Data = Data
    /\ DP!StreamData = StreamData
    /\ \A n : DP!DataUpTo(n) = DataUpTo(n)
    /\ \A x : DP!Whole(x) <=> Whole(x)
BY DEF DP!Bytes, Bytes, DP!Block, Block, DP!Operations, Operations, DP!Modes, Modes,
       DP!Schedules, Schedules, DP!StreamStates, StreamStates, DP!Zeros, Zeros,
       DP!Data, Data, DP!StreamData, StreamData, DP!DataUpTo, DataUpTo, DP!Whole, Whole

\* What the proofs of CipherProofs start from holds of the decipherer too.
LEMMA DecipherContract ==
    /\ DP!CipherConstants
    /\ DP!CbcContract /\ DP!CbcChaining /\ DP!StreamContract /\ DP!StreamChaining
<1>1. DP!CipherConstants
  BY CipherConstants, SameTypes DEF DP!CipherConstants, CipherTexts
<1>2. DP!CbcContract
  BY CbcContract, SameTypes DEF DP!CbcContract
<1>3. DP!CbcChaining
  BY CbcChaining, SameTypes DEF DP!CbcChaining
<1>4. DP!StreamContract
  BY StreamContract, SameTypes DEF DP!StreamContract
<1>5. DP!StreamChaining
  BY StreamChaining, SameTypes DEF DP!StreamChaining
<1> QED
  BY <1>1, <1>2, <1>3, <1>4, <1>5

\* The calls of the decipherer are the calls of CipherProofs.
LEMMA DecipherCalls ==
    /\ \A x : D!UpdateCached(x) <=> DP!UpdateCached(x)
    /\ \A x : D!UpdateBlocks(x) <=> DP!UpdateBlocks(x)
    /\ \A x : D!UpdateStream(x) <=> DP!UpdateStream(x)
    /\ D!FinishDecrypt <=> DP!FinishDecrypt
    /\ D!FinishIncomplete <=> DP!FinishIncomplete
    /\ D!FinishStream <=> DP!FinishStream
BY DEF D!UpdateCached, DP!UpdateCached, D!UpdateBlocks, DP!UpdateBlocks,
       D!UpdateStream, DP!UpdateStream, D!FinishDecrypt, DP!FinishDecrypt,
       D!FinishIncomplete, DP!FinishIncomplete, D!FinishStream, DP!FinishStream,
       D!Keyed, DP!Keyed, D!NoSchedule, DP!NoSchedule, D!OnlyCached, DP!OnlyCached,
       D!Cached, DP!Cached, D!Return, DP!Return, D!Raise, DP!Raise,
       D!HeadBlock, DP!HeadBlock, D!FullBlocks, DP!FullBlocks, D!CopyLen, DP!CopyLen,
       D!HoldLen, DP!HoldLen, D!Leftover, DP!Leftover, D!ValidPadding, DP!ValidPadding,
       D!ctx, DP!ctx

\* Any bytes that still fit are a chunk the decipherer may get.
LEMMA PieceIsChunk ==
    ASSUME DP!TypeOK, d_stage = "open", NEW piece \in Seq(Bytes),
           Len(Cat(d_fed, piece)) <= MaxFed
    PROVE  piece \in DP!NextChunks
<1> DEFINE m == Cat(d_fed, piece)
<1>1. d_fed \in Seq(Bytes)
  BY SameTypes DEF DP!TypeOK
<1>2. m \in Seq(Bytes) /\ Len(m) = Len(d_fed) + Len(piece)
  BY <1>1, CatType
<1>3. m \in CipherTexts
  BY <1>2 DEF CipherTexts
<1>4. SubSeq(m, Len(d_fed) + 1, Len(m)) = piece
  BY <1>1, CutAtJoint DEF Cat
<1>5. IsPrefix(d_fed, m)
  BY <1>1, PrefixOfJoin DEF Cat
<1>6. Len(m) \in Len(d_fed)..Len(m)
  BY <1>1, <1>2, LenProperties
<1> HIDE DEF m
<1>7. DP!IsPrefix(d_fed, m)
  BY <1>5 DEF DP!IsPrefix, IsPrefix
<1>8. piece \in { SubSeq(m, Len(d_fed) + 1, n) : n \in Len(d_fed)..Len(m) }
  BY <1>4, <1>6
<1> QED
  BY <1>3, <1>7, <1>8 DEF DP!NextChunks

-----------------------------------------------------------------------------
(* What the pipe holds.                                                    *)

\* The bytes the output of the encipherer stands for: the whole blocks of the text and, once
\* the text has ended, the padding.
Input ==
    IF stage = "open" THEN SubSeq(fed, 1, Len(out))
    ELSE Cat(fed, Padding(B - (Len(fed) % B)))

\* The key and the types of both, as the provers need them.
LEMMA Keying ==
    ASSUME ChainInv
    PROVE  /\ schedule \in Schedules /\ d_schedule \in Schedules
           /\ schedule.key \in Keys /\ start \in Block
           /\ operation \in Operations /\ d_operation \in Operations
           /\ mode = "CBC" => /\ schedule = [key |-> schedule.key, dir |-> "encrypt"]
                              /\ d_schedule = [key |-> schedule.key, dir |-> "decrypt"]
           /\ mode # "CBC" => /\ mode \in Modes \ { "CBC" }
                              /\ schedule.dir = "encrypt" /\ d_schedule = schedule
           /\ fed \in Seq(Bytes) /\ Len(fed) \in Nat /\ Len(fed) <= MaxFed
           /\ d_fed \in Seq(Bytes) /\ Len(d_fed) \in Nat
           /\ out \in Seq(Bytes) /\ Len(out) \in Nat
           /\ d_out \in Seq(Bytes) /\ Len(d_out) \in Nat
<1>1. TypeOK /\ DP!TypeOK /\ SameSetup
  BY DEF ChainInv, IInv, DP!IInv
<1>2. /\ fed \in Seq(Bytes) /\ Len(fed) <= MaxFed /\ out \in Seq(Bytes)
      /\ start \in Block /\ mode \in Modes
  BY <1>1 DEF TypeOK
<1>3. d_fed \in Seq(Bytes) /\ d_out \in Seq(Bytes)
  BY <1>1, SameTypes DEF DP!TypeOK
<1>4. /\ schedule.key \in Keys /\ operation = "encrypt" /\ d_operation = "decrypt"
      /\ schedule = [key |-> schedule.key, dir |-> DirFor(mode, "encrypt")]
      /\ d_schedule = [key |-> schedule.key, dir |-> DirFor(mode, "decrypt")]
  BY <1>1 DEF SameSetup
<1>5. /\ DirFor(mode, "encrypt") = "encrypt"
      /\ mode = "CBC" => DirFor(mode, "decrypt") = "decrypt"
      /\ mode # "CBC" => DirFor(mode, "decrypt") = "encrypt"
  BY DEF DirFor
<1>6. schedule = [key |-> schedule.key, dir |-> "encrypt"]
  BY <1>4, <1>5
<1>7. mode = "CBC" => d_schedule = [key |-> schedule.key, dir |-> "decrypt"]
  BY <1>4, <1>5
<1>8. mode # "CBC" => d_schedule = schedule
  BY <1>4, <1>5
<1>9. schedule \in Schedules /\ schedule.dir = "encrypt"
  <2> DEFINE k == schedule.key
  <2>1. schedule = [key |-> k, dir |-> "encrypt"] /\ k \in Keys
    BY <1>4, <1>6
  <2> HIDE DEF k
  <2> QED
    BY <2>1 DEF Schedules, Operations
<1>10. d_schedule \in Schedules
  <2> DEFINE k == schedule.key
  <2>1. k \in Keys /\ d_schedule = [key |-> k, dir |-> DirFor(mode, "decrypt")]
    BY <1>4
  <2>2. DirFor(mode, "decrypt") \in Operations
    BY <1>5 DEF Operations
  <2> HIDE DEF k
  <2> QED
    BY <2>1, <2>2 DEF Schedules
<1> QED
  BY <1>2, <1>3, <1>4, <1>6, <1>7, <1>8, <1>9, <1>10, LenProperties DEF Operations

\* In CBC mode all of the output is the input, enciphered, in whole blocks.
LEMMA CbcPipe ==
    ASSUME ChainInv, mode = "CBC"
    PROVE  /\ Input \in Seq(Bytes) /\ Len(Input) = Len(out) /\ (Len(out) % B) = 0
           /\ Len(Input) <= MaxFed
           /\ out = CbcOut(schedule, "encrypt", start, Input)
           /\ stage = "open" => Len(Input) <= Len(fed)
<1>1. /\ schedule \in Schedules /\ start \in Block /\ "encrypt" \in Operations
      /\ operation = "encrypt"
      /\ fed \in Seq(Bytes) /\ Len(fed) \in Nat /\ Len(fed) <= MaxFed
  BY Keying DEF Operations, ChainInv, SameSetup
<1>2. CASE stage = "open"
  <2>1. /\ Input \in Seq(Bytes) /\ Len(Input) = Len(out) /\ (Len(Input) % B) = 0
        /\ out = CbcOut(schedule, operation, start, Input)
        /\ Len(fed) = Len(out) + unprocessed_len /\ unprocessed_len \in 0..B
    BY <1>2, OpenCbc DEF ChainInv, IInv, TypeOK, Input
  <2>2. Len(Input) \in Nat
    BY <2>1, LenProperties
  <2> QED
    BY <1>1, <1>2, <2>1, <2>2, Constants
<1>3. CASE stage # "open"
  <2> DEFINE r == Len(fed) % B
             pad == Padding(B - r)
  <2>1. stage = "finished"
    BY <1>3 DEF ChainInv, NeitherRefuses
  <2>2. fed \in Messages /\ Complete(Setup, fed, out)
    BY <2>1 DEF ChainInv, Enciphered
  <2>3. out = CbcOut(schedule, "encrypt", start, fed \o pad)
    BY <1>1, <2>2 DEF Complete, Setup
  <2>4. Input = Cat(fed, pad)
    BY <1>3 DEF Input
  <2>5. /\ r \in 0..(B - 1) /\ (Len(fed) \div B) \in Nat
        /\ Len(fed) = B * (Len(fed) \div B) + r
    BY <1>1, Constants, DivMod
  <2>6. pad \in Seq(Bytes) /\ Len(pad) = B - r
    BY <2>5, Constants, PaddingIsSeq
  <2> HIDE DEF pad
  <2>7. Input \in Seq(Bytes) /\ Len(Input) = Len(fed) + (B - r)
    BY <1>1, <2>4, <2>6, CatType
  <2>8. Len(Input) = B * ((Len(fed) \div B) + 1)
    <3> DEFINE q == Len(fed) \div B
    <3>1. q \in Nat /\ Len(fed) = B * q + r
      BY <2>5
    <3> HIDE DEF q
    <3>2. B * (q + 1) = B * q + B
      BY <3>1, Constants
    <3>3. Len(Input) = B * q + B
      <4>1. B * q \in Int /\ r \in Int /\ B \in Int
        BY <2>5, <3>1, Constants
      <4> HIDE DEF r
      <4> QED
        BY <2>7, <3>1, <4>1
    <3> QED
      BY <3>2, <3>3 DEF q
  <2>9. (Len(Input) % B) = 0
    <3>1. (Len(fed) \div B) + 1 \in Nat
      BY <2>5
    <3> QED
      BY <2>8, <3>1, Constants, ModZero
  <2>10. Len(Input) <= MaxFed
    BY <2>2, <2>5, <2>8, Constants, CiphertextFits
  <2>11. Len(CbcOut(schedule, "encrypt", start, Input)) = Len(Input)
    <3>1. Len(Input) <= MaxFed + B
      BY <1>1, <2>5, <2>7, <2>10, Constants
    <3> QED
      BY <1>1, <2>7, <2>9, <3>1, CbcCall
  <2>12. out = CbcOut(schedule, "encrypt", start, Input)
    BY <2>3, <2>4 DEF Cat
  <2> QED
    BY <1>3, <2>7, <2>9, <2>10, <2>11, <2>12
<1> QED
  BY <1>2, <1>3

\* The decipherer makes the input out of any part of the pipe in whole blocks.
LEMMA CbcText ==
    ASSUME ChainInv, mode = "CBC", NEW n \in 0..Len(out), n % B = 0
    PROVE  CbcOut(d_schedule, "decrypt", start, SubSeq(out, 1, n)) = SubSeq(Input, 1, n)
<1> DEFINE X  == Input
           X1 == SubSeq(X, 1, n)
           X2 == SubSeq(X, n + 1, Len(X))
           k  == schedule.key
           s  == schedule
           mid == CbcIv(s, "encrypt", start, X1)
<1>1. /\ X \in Seq(Bytes) /\ Len(X) = Len(out) /\ (Len(out) % B) = 0 /\ Len(X) <= MaxFed
      /\ out = CbcOut(s, "encrypt", start, X)
  BY CbcPipe
<1>2. /\ s \in Schedules /\ start \in Block /\ k \in Keys /\ "encrypt" \in Operations
      /\ s = [key |-> k, dir |-> "encrypt"] /\ d_schedule = [key |-> k, dir |-> "decrypt"]
      /\ Len(out) \in Nat
  BY Keying DEF Operations
<1> HIDE DEF X, k, s
<1>3. /\ X1 \in Seq(Bytes) /\ Len(X1) = n /\ X2 \in Seq(Bytes) /\ Len(X2) = Len(X) - n
      /\ X = Cat(X1, X2)
  BY ZenonT(60), <1>1, CutInTwo DEF Cat
<1> HIDE DEF X1, X2
<1>4. (Len(X2) % B) = 0
  <2>1. Len(X2) \in Nat /\ n \in Nat /\ Len(X2) + n = Len(X)
    BY <1>1, <1>2, <1>3, LenProperties
  <2>2. (Len(X2) + n) % B = Len(X2) % B
    BY <2>1, Constants, ModAdd
  <2> QED
    BY <1>1, <2>1, <2>2
<1>5. Len(X1) + Len(X2) <= MaxFed + B /\ Len(X1) <= MaxFed + B /\ Len(X2) <= MaxFed + B
  BY <1>1, <1>2, <1>3, Constants
<1>6. /\ CbcOut(s, "encrypt", start, X1) \in Seq(Bytes)
      /\ Len(CbcOut(s, "encrypt", start, X1)) = n
      /\ mid \in Block
  BY <1>2, <1>3, <1>5, CbcCall
<1> HIDE DEF mid
<1>7. CbcOut(s, "encrypt", mid, X2) \in Seq(Bytes)
  BY <1>2, <1>3, <1>4, <1>5, <1>6, CbcCall
<1>8. out = Cat(CbcOut(s, "encrypt", start, X1), CbcOut(s, "encrypt", mid, X2))
  BY <1>1, <1>2, <1>3, <1>4, <1>5, CbcCalls DEF mid
<1>9. SubSeq(out, 1, n) = CbcOut(s, "encrypt", start, X1)
  BY <1>6, <1>7, <1>8, CutAtJoint DEF Cat
<1>10. X1 \in Data /\ Whole(X1)
  BY <1>3, <1>5, ShortIsData DEF Whole
<1>11. CbcOut(d_schedule, "decrypt", start, CbcOut(s, "encrypt", start, X1)) = X1
  BY <1>2, <1>10, CbcInverse
<1> QED
  BY <1>9, <1>11 DEF X1, X

\* In a stream mode the output is the input, enciphered byte for byte.
LEMMA StreamPipe ==
    ASSUME ChainInv, mode # "CBC"
    PROVE  /\ out = StreamOut(mode, schedule, "encrypt", StreamStart(start), fed)
           /\ Len(out) = Len(fed) /\ StreamStart(start) \in StreamStates
<1>1. /\ mode \in Modes \ { "CBC" } /\ schedule \in Schedules /\ schedule.dir = "encrypt"
      /\ start \in Block /\ "encrypt" \in Operations /\ operation = "encrypt"
      /\ fed \in Seq(Bytes) /\ Len(fed) <= MaxFed
  BY Keying, Constants DEF Operations, ChainInv, SameSetup
<1>2. StreamStart(start) \in StreamStates
  BY <1>1, Constants DEF StreamStart, StreamStates, Zeros, Block
<1>3. out = StreamOut(mode, schedule, "encrypt", StreamStart(start), fed)
  <2>1. CASE stage = "open"
    <3>1. Complete(Setup, fed, Cat(out, << >>)) /\ out \in Seq(Bytes)
      BY <1>1, <2>1, StreamComplete, Keying DEF ChainInv
    <3>2. Complete(Setup, fed, out)
      BY <3>1, CatEmpty
    <3> QED
      BY <1>1, <3>2 DEF Complete, Setup
  <2>2. CASE stage # "open"
    <3>1. Complete(Setup, fed, out)
      BY <2>2 DEF ChainInv, Enciphered, NeitherRefuses
    <3> QED
      BY <1>1, <3>1 DEF Complete, Setup
  <2> QED
    BY <2>1, <2>2
<1>4. Len(StreamOut(mode, schedule, "encrypt", StreamStart(start), fed)) = Len(fed)
  BY ZenonT(60), <1>1, <1>2, StreamCall
<1> QED
  BY <1>2, <1>3, <1>4

\* What comes out of a call starts with what comes out of a call on the start of its input.
LEMMA StreamStarts ==
    ASSUME NEW m \in Modes \ { "CBC" }, NEW s \in Schedules, s.dir = "encrypt",
           NEW op \in Operations, NEW st \in StreamStates,
           NEW a \in Seq(Bytes), Len(a) <= MaxFed, NEW n \in 0..Len(a)
    PROVE  SubSeq(StreamOut(m, s, op, st, a), 1, n) = StreamOut(m, s, op, st, SubSeq(a, 1, n))
<1> DEFINE a1 == SubSeq(a, 1, n)
           a2 == SubSeq(a, n + 1, Len(a))
           mid == StreamState(m, s, op, st, a1)
<1>1. /\ a1 \in Seq(Bytes) /\ Len(a1) = n /\ a2 \in Seq(Bytes) /\ Len(a2) = Len(a) - n
      /\ a = Cat(a1, a2)
  BY CutInTwo DEF Cat
<1> HIDE DEF a1, a2
<1>2. Len(a1) + Len(a2) <= MaxFed /\ Len(a1) <= MaxFed /\ Len(a2) <= MaxFed
  BY <1>1, Constants, LenProperties
<1>3. /\ StreamOut(m, s, op, st, a1) \in Seq(Bytes)
      /\ Len(StreamOut(m, s, op, st, a1)) = Len(a1)
      /\ mid \in StreamStates
  <2>1. a1 \in Seq(Bytes) /\ Len(a1) <= MaxFed
    BY <1>1, <1>2
  <2> QED
    BY ZenonT(60), <2>1, StreamCall
<1>4. StreamOut(m, s, op, st, Cat(a1, a2))
          = Cat(StreamOut(m, s, op, st, a1), StreamOut(m, s, op, mid, a2))
  BY <1>1, <1>2, StreamCalls
<1> HIDE DEF mid
<1>5. StreamOut(m, s, op, mid, a2) \in Seq(Bytes)
  BY <1>1, <1>2, <1>3, StreamCall
<1>6. SubSeq(StreamOut(m, s, op, st, Cat(a1, a2)), 1, Len(a1)) = StreamOut(m, s, op, st, a1)
  BY <1>3, <1>4, <1>5, CutAtJoint DEF Cat
<1> QED
  BY <1>1, <1>6 DEF a1

\* The decipherer makes the text out of any part of the pipe.
LEMMA StreamText ==
    ASSUME ChainInv, mode # "CBC", NEW n \in 0..Len(out)
    PROVE  StreamOut(mode, d_schedule, "decrypt", StreamStart(start), SubSeq(out, 1, n))
               = SubSeq(fed, 1, n)
<1> DEFINE a1 == SubSeq(fed, 1, n)
           s  == schedule
           st == StreamStart(start)
<1>1. /\ mode \in Modes \ { "CBC" } /\ s \in Schedules /\ s.dir = "encrypt"
      /\ d_schedule = s /\ start \in Block /\ "encrypt" \in Operations
      /\ fed \in Seq(Bytes) /\ Len(fed) \in Nat /\ Len(fed) <= MaxFed
  BY Keying DEF Operations
<1>2. out = StreamOut(mode, s, "encrypt", st, fed) /\ n \in 0..Len(fed) /\ st \in StreamStates
  BY StreamPipe
<1>3. a1 \in Seq(Bytes) /\ Len(a1) <= MaxFed
  BY <1>1, <1>2, CutInTwo, Constants
<1> HIDE DEF a1, s, st
<1>4. SubSeq(out, 1, n) = StreamOut(mode, s, "encrypt", st, a1)
  BY <1>1, <1>2, StreamStarts DEF a1
<1>5. a1 \in StreamData /\ s \in [key : Keys, dir : { "encrypt" }]
  BY <1>1, <1>3, ShortIsStreamData DEF Schedules
<1>6. StreamOut(mode, s, "decrypt", st, StreamOut(mode, s, "encrypt", st, a1)) = a1
  BY <1>1, <1>5, StreamInverse DEF st
<1> QED
  BY <1>1, <1>4, <1>6 DEF a1, st

\* What the input gains at the end of the text.
LEMMA Padded ==
    ASSUME ChainInv, mode = "CBC", stage = "finished"
    PROVE  \E p \in 1..B :
               /\ Padding(p) \in Seq(Bytes) /\ Len(Padding(p)) = p
               /\ Input = Cat(fed, Padding(p)) /\ Len(Input) = Len(fed) + p
               /\ B <= Len(Input)
<1> DEFINE r == Len(fed) % B
           p == B - r
<1>1. fed \in Seq(Bytes) /\ Len(fed) \in Nat
  BY Keying
<1>2. r \in 0..(B - 1) /\ p \in 1..B /\ p \in 0..B
  <2>1. r \in 0..(B - 1)
    BY <1>1, Constants, DivMod
  <2> HIDE DEF r
  <2> QED
    BY <2>1, Constants
<1>3. Padding(p) \in Seq(Bytes) /\ Len(Padding(p)) = p
  BY <1>2, PaddingIsSeq
<1>4. Input = Cat(fed, Padding(p))
  BY DEF Input
<1> HIDE DEF p
<1>5. Len(Input) = Len(fed) + p
  BY <1>1, <1>3, <1>4, CatType
<1>6. B <= Len(Input)
  <2>1. (Len(Input) % B) = 0
    BY CbcPipe
  <2>2. (0 % B) = 0
    BY Constants, ModSmall
  <2>3. Len(Input) \in Nat /\ 0 < Len(Input)
    BY <1>1, <1>2, <1>5
  <2>4. 0 + B <= Len(Input)
    BY <2>1, <2>2, <2>3, Constants, MultiplesApart
  <2> QED
    BY <2>4, Constants
<1> QED
  BY <1>2, <1>3, <1>4, <1>5, <1>6

\* How far the decipherer is in CBC mode.
LEMMA CbcBehind ==
    ASSUME ChainInv, mode = "CBC", d_stage = "open"
    PROVE  /\ d_unprocessed_len \in 0..B /\ Len(d_fed) = Len(d_out) + d_unprocessed_len
           /\ Len(d_out) <= Len(fed) /\ d_out = SubSeq(fed, 1, Len(d_out))
<1>1. /\ fed \in Seq(Bytes) /\ Len(fed) \in Nat
      /\ d_fed \in Seq(Bytes) /\ Len(d_fed) \in Nat
      /\ d_out \in Seq(Bytes) /\ Len(d_out) \in Nat
      /\ out \in Seq(Bytes) /\ Len(out) \in Nat
  BY Keying
<1>2. DP!IInv /\ d_operation = "decrypt" /\ d_start = start
  BY DEF ChainInv, SameSetup
<1>3. /\ (Len(d_out) % B) = 0
      /\ Len(d_fed) = Len(d_out) + d_unprocessed_len /\ d_unprocessed_len \in 0..B
      /\ d_out = CbcOut(d_schedule, "decrypt", start, SubSeq(d_fed, 1, Len(d_out)))
      /\ d_fed # << >> => d_unprocessed_len > 0
  <2>1. LET done == SubSeq(d_fed, 1, Len(d_out))
        IN  /\ done \in Seq(DP!Bytes) /\ Len(done) = Len(d_out) /\ (Len(done) % B) = 0
            /\ Len(d_fed) = Len(d_out) + d_unprocessed_len
            /\ d_out = CbcOut(d_schedule, d_operation, d_start, done)
    BY <1>2, DecipherContract, DP!OpenCbc
  <2>2. d_unprocessed_len \in 0..B /\ (d_fed # << >> => d_unprocessed_len > 0)
    BY <1>2 DEF DP!IInv, DP!TypeOK, DP!FinishHasItsBlock
  <2> QED
    BY <1>2, <2>1, <2>2
<1>4. Len(d_fed) <= Len(out) /\ d_fed = SubSeq(out, 1, Len(d_fed))
  BY DEF ChainInv, PipeHoldsRest
<1>5. SubSeq(d_fed, 1, Len(d_out)) = SubSeq(out, 1, Len(d_out)) /\ Len(d_out) \in 0..Len(out)
  <2>1. Len(d_fed) \in 0..Len(out) /\ Len(d_out) \in 0..Len(d_fed) /\ Len(d_out) \in 0..Len(out)
    BY <1>1, <1>3, <1>4
  <2>2. SubSeq(SubSeq(out, 1, Len(d_fed)), 1, Len(d_out)) = SubSeq(out, 1, Len(d_out))
    BY <1>1, <2>1, PrefixOfPrefix
  <2> QED
    BY <1>4, <2>1, <2>2
<1>6. d_out = SubSeq(Input, 1, Len(d_out))
  BY <1>3, <1>5, CbcText
<1>7. Input \in Seq(Bytes) /\ Len(Input) = Len(out) /\ (Len(out) % B) = 0
  BY CbcPipe
<1>8. CASE stage = "open"
  <2>1. Len(Input) <= Len(fed) /\ Input = SubSeq(fed, 1, Len(out))
    BY <1>8, CbcPipe DEF Input
  <2>2. Len(out) \in 0..Len(fed) /\ Len(d_out) \in 0..Len(fed)
    BY <1>1, <1>5, <1>7, <2>1
  <2>3. SubSeq(SubSeq(fed, 1, Len(out)), 1, Len(d_out)) = SubSeq(fed, 1, Len(d_out))
    BY <1>1, <1>5, <2>2, PrefixOfPrefix
  <2>4. d_out = SubSeq(fed, 1, Len(d_out))
    BY <1>6, <2>1, <2>3
  <2>5. Len(d_out) <= Len(fed)
    BY <1>1, <2>2
  <2> QED
    BY <1>3, <2>4, <2>5
<1>9. CASE stage # "open"
  <2>1. stage = "finished"
    BY <1>9 DEF ChainInv, NeitherRefuses
  <2>2. PICK p \in 1..B :
            /\ Padding(p) \in Seq(Bytes) /\ Len(Padding(p)) = p
            /\ Input = Cat(fed, Padding(p)) /\ Len(Input) = Len(fed) + p
            /\ B <= Len(Input)
    BY <2>1, Padded
  <2>3. Len(d_out) <= Len(fed)
    <3>1. CASE d_fed = << >>
      BY <1>1, <1>3, <3>1, EmptySeq
    <3>2. CASE d_fed # << >>
      <4>1. Len(d_out) < Len(out)
        BY <1>1, <1>3, <1>4, <3>2
      <4>2. Len(d_out) + B <= Len(out)
        BY <1>1, <1>3, <1>7, <4>1, Constants, MultiplesApart
      <4> QED
        BY <1>1, <1>7, <2>2, <4>2, Constants
    <3> QED
      BY <3>1, <3>2
  <2>4. SubSeq(Input, 1, Len(d_out)) = SubSeq(fed, 1, Len(d_out))
    <3> DEFINE pad == Padding(p)
    <3>1. pad \in Seq(Bytes) /\ Input = Cat(fed, pad)
      BY <2>2
    <3> HIDE DEF pad
    <3> QED
      BY <1>1, <2>3, <3>1, PrefixOfLeft
  <2> QED
    BY <1>3, <1>6, <2>3, <2>4
<1> QED
  BY <1>8, <1>9

\* In a stream mode it is never behind.
LEMMA StreamBehind ==
    ASSUME ChainInv, mode # "CBC", d_stage = "open"
    PROVE  Len(d_out) = Len(d_fed) /\ Len(d_out) <= Len(fed) /\ d_out = SubSeq(fed, 1, Len(d_out))
<1>1. /\ fed \in Seq(Bytes) /\ Len(fed) \in Nat
      /\ d_fed \in Seq(Bytes) /\ Len(d_fed) \in Nat
      /\ out \in Seq(Bytes) /\ Len(out) \in Nat
      /\ mode \in Modes \ { "CBC" } /\ d_schedule \in Schedules /\ d_schedule.dir = "encrypt"
      /\ "decrypt" \in Operations
  BY Keying DEF Operations
<1>2. DP!IInv /\ d_operation = "decrypt" /\ d_start = start
  BY DEF ChainInv, SameSetup
<1>3. d_out = StreamOut(mode, d_schedule, "decrypt", StreamStart(start), d_fed)
  <2>1. DP!Complete(DP!Setup, d_fed, DP!Cat(d_out, << >>))
    BY <1>2, DecipherContract, DP!StreamComplete
  <2>2. DP!Cat(d_out, << >>) = d_out
    BY Keying, CatEmpty DEF DP!Cat, Cat
  <2> QED
    BY <1>2, <2>1, <2>2
       DEF DP!Complete, DP!Setup, DP!StreamStart, StreamStart, DP!Zeros, Zeros
<1>4. Len(d_fed) <= Len(out) /\ d_fed = SubSeq(out, 1, Len(d_fed))
  BY DEF ChainInv, PipeHoldsRest
<1>5. d_out = SubSeq(fed, 1, Len(d_fed))
  <2>1. Len(d_fed) \in 0..Len(out)
    BY <1>1, <1>4
  <2> QED
    BY <1>3, <1>4, <2>1, StreamText
<1>6. Len(d_fed) \in 0..Len(fed)
  BY <1>1, <1>4, StreamPipe
<1>7. Len(d_out) = Len(d_fed)
  BY <1>1, <1>5, <1>6, CutInTwo
<1> QED
  BY <1>1, <1>5, <1>6, <1>7

\* The invariant says all that RoundTrip and BoundedLag say.
LEMMA RoundTripHolds == ChainInv => RoundTrip
<1> SUFFICES ASSUME ChainInv PROVE RoundTrip
  OBVIOUS
<1>1. fed \in Seq(Bytes) /\ d_out \in Seq(Bytes)
  BY Keying
<1>2. IsPrefix(d_out, fed)
  <2>1. CASE d_stage = "finished"
    <3>1. d_out = fed
      BY <2>1 DEF ChainInv, Deciphered
    <3> QED
      BY <1>1, <3>1, PrefixOfItself
  <2>2. CASE d_stage = "open"
    <3>1. Len(d_out) <= Len(fed) /\ d_out = SubSeq(fed, 1, Len(d_out))
      BY <2>2, CbcBehind, StreamBehind
    <3>2. SubSeq(d_out, 1, Len(d_out)) = d_out
      BY <1>1, SubSeqFull
    <3> QED
      BY <3>1, <3>2 DEF IsPrefix
  <2> QED
    BY <2>1, <2>2 DEF ChainInv, NeitherRefuses
<1> QED
  BY <1>2 DEF RoundTrip, ChainInv, Deciphered, NeitherRefuses

LEMMA BoundedLagHolds == ChainInv => BoundedLag
<1> SUFFICES ASSUME ChainInv, Pipe = << >>, stage = "open"
             PROVE  /\ Len(fed) - Len(d_out) < 2 * B
                    /\ mode # "CBC" => d_out = fed
  BY DEF BoundedLag
<1>1. /\ fed \in Seq(Bytes) /\ Len(fed) \in Nat
      /\ d_fed \in Seq(Bytes) /\ Len(d_fed) \in Nat
      /\ out \in Seq(Bytes) /\ Len(out) \in Nat
      /\ d_out \in Seq(Bytes) /\ Len(d_out) \in Nat
  BY Keying
<1>2. Len(d_fed) = Len(out)
  <2>1. Len(d_fed) \in 0..Len(out)
    BY <1>1 DEF ChainInv, PipeHoldsRest
  <2>2. Len(Pipe) = Len(out) - Len(d_fed)
    BY <1>1, <2>1, CutInTwo DEF Pipe
  <2>3. Len(Pipe) = 0
    BY EmptySeq
  <2> QED
    BY <1>1, <2>2, <2>3
<1>3. d_stage = "open"
  BY DEF ChainInv, Deciphered, NeitherRefuses
<1>4. CASE mode = "CBC"
  <2>1. Len(d_fed) = Len(d_out) + d_unprocessed_len /\ d_unprocessed_len \in 0..B
    BY <1>3, <1>4, CbcBehind
  <2>2. Len(fed) = Len(out) + unprocessed_len
    BY <1>4, OpenCbc DEF ChainInv
  <2>3. unprocessed_len < B /\ unprocessed_len \in 0..B
    BY <1>4 DEF ChainInv, IInv, FinishHasItsBlock, SameSetup, TypeOK
  <2>4. Len(fed) - Len(d_out) = unprocessed_len + d_unprocessed_len
    <3> DEFINE f == Len(fed)
               o == Len(d_out)
               p == Len(out)
    <3>1. /\ unprocessed_len \in Int /\ d_unprocessed_len \in Int
          /\ f \in Int /\ o \in Int /\ p \in Int
      BY <1>1, <2>1, <2>3, Constants
    <3>2. f = p + unprocessed_len /\ p = o + d_unprocessed_len
      BY <1>2, <2>1, <2>2
    <3> HIDE DEF f, o, p
    <3>3. f - o = unprocessed_len + d_unprocessed_len
      BY <3>1, <3>2
    <3> QED
      BY <3>3 DEF f, o
  <2>5. unprocessed_len + d_unprocessed_len < 2 * B
    BY <2>1, <2>3, Constants
  <2> QED
    BY <1>4, <2>4, <2>5
<1>5. CASE mode # "CBC"
  <2>1. Len(d_out) = Len(fed) /\ d_out = SubSeq(fed, 1, Len(d_out))
    BY <1>2, <1>3, <1>5, StreamBehind, StreamPipe
  <2>2. d_out = fed
    BY <1>1, <2>1, SubSeqFull
  <2> QED
    BY <1>1, <2>1, <2>2, Constants
<1> QED
  BY <1>4, <1>5

-----------------------------------------------------------------------------
(* Every step of the chain keeps the invariant.                            *)

\* A call of the encipherer adds to the input and to the pipe.
LEMMA EncipherReturns ==
    ASSUME ChainInv, NEW input \in NextChunks, Encipher(input)
    PROVE  /\ \E result \in Seq(Bytes) : out' = Cat(out, result)
           /\ UNCHANGED << mode, operation, schedule, start >>
           /\ stage = "open" /\ stage' = "open" /\ UNCHANGED decipherer
           /\ UpdateCached(input) \/ UpdateBlocks(input) \/ UpdateStream(input)
<1>0. /\ stage = "open" /\ stage' = "open" /\ UNCHANGED decipherer
      /\ UpdateCached(input) \/ UpdateBlocks(input) \/ UpdateStream(input)
  BY DEF Encipher
<1>1. TypeOK /\ input \in Seq(Bytes) /\ Len(input) <= MaxFed
  BY NextChunk DEF ChainInv, IInv
<1>2. CASE UpdateCached(input)
  <2>1. /\ Return(input, << >>, "open")
        /\ UNCHANGED << mode, operation, schedule, start >>
    BY <1>2 DEF UpdateCached
  <2>2. out' = Cat(out, << >>) /\ << >> \in Seq(Bytes)
    BY <1>0, <2>1, ReturnOpen, EmptySeq
  <2> QED
    BY <1>0, <2>1, <2>2
<1>3. CASE UpdateBlocks(input)
  <2> DEFINE mid == CbcIv(schedule, operation, iv, HeadBlock(input))
             a == CbcOut(schedule, operation, iv, HeadBlock(input))
             b == CbcOut(schedule, operation, mid, FullBlocks(input))
  <2>1. /\ Return(input, Cat(a, b), "open") /\ mode = "CBC" /\ Keyed /\ ~OnlyCached(input)
        /\ UNCHANGED << mode, operation, schedule, start >>
    BY <1>3 DEF UpdateBlocks, Cat
  <2>2. a \in Seq(Bytes) /\ b \in Seq(Bytes)
    BY <1>1, <2>1, BlocksCalls
  <2> HIDE DEF a, b
  <2>3. out' = Cat(out, Cat(a, b)) /\ Cat(a, b) \in Seq(Bytes)
    BY <1>0, <2>1, <2>2, ReturnOpen, CatType
  <2> QED
    BY <1>0, <2>1, <2>3
<1>4. CASE UpdateStream(input)
  <2> DEFINE st == [iv |-> iv, block |-> unprocessed_data, off |-> unprocessed_len]
             result == StreamOut(mode, schedule, operation, st, input)
  <2>1. /\ Return(input, result, "open") /\ mode # "CBC" /\ Keyed
        /\ UNCHANGED << mode, operation, schedule, start >>
    BY <1>4 DEF UpdateStream
  <2>2. /\ mode \in Modes \ { "CBC" } /\ schedule \in Schedules /\ schedule.dir = "encrypt"
        /\ operation \in Operations /\ st \in StreamStates
    BY <1>1, <2>1, Constants DEF TypeOK, Keyed, StreamStates
  <2>3. Len(input) <= MaxFed + B
    BY <1>1, Constants, LenProperties
  <2> HIDE DEF st
  <2>4. result \in Seq(Bytes)
    BY <1>1, <2>2, <2>3, StreamCall
  <2> HIDE DEF result
  <2>5. out' = Cat(out, result)
    BY <1>0, <2>1, ReturnOpen
  <2> QED
    BY <1>0, <2>1, <2>4, <2>5
<1> QED
  BY <1>0, <1>2, <1>3, <1>4

\* What stays in front of the pipe when more is put into it.
LEMMA PipeGrows ==
    ASSUME ChainInv, NEW result \in Seq(Bytes), out' = Cat(out, result), d_fed' = d_fed
    PROVE  PipeHoldsRest'
<1>1. out \in Seq(Bytes) /\ Len(out) \in Nat /\ Len(d_fed) \in Nat
  BY Keying
<1>2. Len(d_fed) <= Len(out) /\ d_fed = SubSeq(out, 1, Len(d_fed))
  BY DEF ChainInv, PipeHoldsRest
<1>3. Len(Cat(out, result)) = Len(out) + Len(result) /\ Len(result) \in Nat
  BY <1>1, CatType, LenProperties
<1>4. SubSeq(Cat(out, result), 1, Len(d_fed)) = SubSeq(out, 1, Len(d_fed))
  BY <1>1, <1>2, PrefixOfLeft
<1> QED
  BY <1>1, <1>2, <1>3, <1>4 DEF PipeHoldsRest

\* The decipherer stands still, or the encipherer.
LEMMA DeciphererKept ==
    ASSUME ChainInv, UNCHANGED mode, UNCHANGED decipherer
    PROVE  DP!IInv'
<1>1. UNCHANGED DP!vars
  BY DEF DP!vars, DP!ctx, decipherer
<1> QED
  BY <1>1, DecipherContract, DP!IInvStep DEF ChainInv

LEMMA EnciphererKept ==
    ASSUME ChainInv, UNCHANGED vars
    PROVE  IInv'
BY IInvStep DEF ChainInv

\* One lemma for each action.
LEMMA EncipherKeeps ==
    ASSUME ChainInv, NEW input \in NextChunks, Encipher(input)
    PROVE  ChainInv'
<1>1. /\ UNCHANGED << mode, operation, schedule, start >>
      /\ stage = "open" /\ stage' = "open" /\ UNCHANGED decipherer
      /\ UpdateCached(input) \/ UpdateBlocks(input) \/ UpdateStream(input)
  BY EncipherReturns
<1>2. IInv'
  BY <1>1, UpdateCachedKeeps, UpdateBlocksKeeps, UpdateStreamKeeps DEF ChainInv
<1>3. DP!IInv'
  BY <1>1, DeciphererKept
<1>4. SameSetup'
  BY <1>1 DEF ChainInv, SameSetup, decipherer
<1>5. PipeHoldsRest'
  <2>1. PICK result \in Seq(Bytes) : out' = Cat(out, result)
    BY EncipherReturns
  <2> QED
    BY <1>1, <2>1, PipeGrows DEF decipherer
<1>6. NeitherRefuses' /\ Enciphered' /\ Deciphered'
  BY <1>1 DEF ChainInv, NeitherRefuses, Enciphered, Deciphered, decipherer
<1> QED
  BY <1>2, <1>3, <1>4, <1>5, <1>6 DEF ChainInv

LEMMA EndEncipherKeeps ==
    ASSUME ChainInv, EndEncipher
    PROVE  ChainInv'
<1>1. /\ stage = "open" /\ stage' = "finished" /\ fed \in Messages
      /\ FinishEncrypt \/ FinishStream
      /\ UNCHANGED decipherer
  BY DEF EndEncipher
<1>2. IInv'
  BY <1>1, FinishKeeps DEF ChainInv
<1>3. UNCHANGED << mode, operation, schedule, start >>
  BY <1>1 DEF FinishEncrypt, FinishStream, ctx
<1>4. DP!IInv'
  BY <1>1, <1>3, DeciphererKept
<1>5. SameSetup'
  BY <1>1, <1>3 DEF ChainInv, SameSetup, decipherer
<1>6. \E result \in Seq(Bytes) :
          /\ Return(<< >>, result, "finished")
          /\ Complete(Setup, fed, Cat(out, result))
  <2>1. CASE FinishEncrypt
    <3> DEFINE padded == Cat(Cached, Padding(B - unprocessed_len))
               result == CbcOut(schedule, operation, iv, padded)
    <3>1. mode = "CBC" /\ Keyed /\ operation = "encrypt" /\ Return(<< >>, result, "finished")
      BY <2>1 DEF FinishEncrypt, Cat
    <3>2. Complete(Setup, fed, Cat(out, result))
      BY <1>1, <3>1, EncryptComplete DEF ChainInv
    <3>3. padded \in Seq(Bytes) /\ Len(padded) = B
      BY <3>1, PaddedBlock DEF ChainInv, IInv, Cat
    <3> HIDE DEF padded
    <3>4. result \in Seq(Bytes)
      BY <3>1, <3>3, OneBlock DEF ChainInv, IInv
    <3> QED
      BY <3>1, <3>2, <3>4
  <2>2. CASE FinishStream
    BY <1>1, <2>2, StreamComplete, EmptySeq DEF FinishStream, ChainInv
  <2> QED
    BY <1>1, <2>1, <2>2
<1>7. PICK result \in Seq(Bytes) :
          /\ Return(<< >>, result, "finished")
          /\ Complete(Setup, fed, Cat(out, result))
  BY <1>6
<1>8. /\ out' = Cat(out, result) /\ fed' = Cat(fed, << >>)
  BY <1>1, <1>7 DEF Return, Cat
<1>9. PipeHoldsRest'
  BY <1>1, <1>8, PipeGrows DEF decipherer
<1>10. Enciphered'
  <2>1. fed' = fed
    BY <1>8, Keying, CatEmpty
  <2>2. Setup' = Setup
    BY <1>3 DEF Setup
  <2>3. Complete(Setup, fed, out')
    BY <1>7, <1>8
  <2>4. fed' \in Messages /\ Complete(Setup', fed', out')
    BY <1>1, <2>1, <2>2, <2>3
  <2> QED
    BY <2>4 DEF Enciphered
<1>11. NeitherRefuses' /\ Deciphered'
  BY <1>1 DEF ChainInv, NeitherRefuses, Deciphered, decipherer
<1> QED
  BY <1>2, <1>4, <1>5, <1>9, <1>10, <1>11 DEF ChainInv

\* The bytes the decipherer takes are a chunk of its message.
LEMMA Taken ==
    ASSUME ChainInv, NEW n \in 0..Len(Pipe), d_stage = "open"
    PROVE  LET piece == SubSeq(Pipe, 1, n)
           IN  /\ piece \in DP!NextChunks
               /\ Cat(d_fed, piece) = SubSeq(out, 1, Len(Cat(d_fed, piece)))
               /\ Len(Cat(d_fed, piece)) <= Len(out)
<1> DEFINE piece == SubSeq(Pipe, 1, n)
           m == Cat(d_fed, piece)
<1>1. /\ d_fed \in Seq(Bytes) /\ Len(d_fed) \in Nat
      /\ out \in Seq(Bytes) /\ Len(out) \in Nat
  BY Keying
<1>2. Len(d_fed) \in 0..Len(out) /\ d_fed = SubSeq(out, 1, Len(d_fed))
  BY <1>1 DEF ChainInv, PipeHoldsRest
<1>3. Pipe \in Seq(Bytes) /\ Len(Pipe) = Len(out) - Len(d_fed) /\ out = Cat(d_fed, Pipe)
  BY <1>1, <1>2, CutInTwo DEF Pipe, Cat
<1>4. piece \in Seq(Bytes) /\ Len(piece) = n
  BY <1>3, CutInTwo
<1>5. m = SubSeq(out, 1, Len(d_fed) + n)
  BY <1>1, <1>3, PrefixIntoJoin
<1>6. Len(m) = Len(d_fed) + n /\ m \in Seq(Bytes)
  BY <1>1, <1>4, CatType
<1>7. Len(m) <= Len(out)
  BY <1>1, <1>3, <1>6
<1>8. Len(out) <= MaxFed
  <2>1. CASE mode = "CBC"
    BY <2>1, CbcPipe
  <2>2. CASE mode # "CBC"
    BY <2>2, StreamPipe, Keying
  <2> QED
    BY <2>1, <2>2
<1>9. Len(m) <= MaxFed
  BY <1>1, <1>6, <1>7, <1>8, Constants, LenProperties
<1>10. DP!TypeOK
  BY DEF ChainInv, DP!IInv
<1>11. piece \in DP!NextChunks
  <2> HIDE DEF piece
  <2> QED
    BY <1>4, <1>9, <1>10, PieceIsChunk
<1> QED
  BY <1>5, <1>6, <1>7, <1>11

LEMMA DecipherKeeps ==
    ASSUME ChainInv, NEW n \in 0..Len(Pipe), Decipher(n)
    PROVE  ChainInv'
<1> DEFINE piece == SubSeq(Pipe, 1, n)
<1>1. /\ d_stage = "open" /\ d_stage' = "open" /\ UNCHANGED vars
      /\ DP!UpdateCached(piece) \/ DP!UpdateBlocks(piece) \/ DP!UpdateStream(piece)
  BY DecipherCalls DEF Decipher
<1>2. UNCHANGED << mode, operation, schedule, start, fed, out, stage >>
  BY <1>1 DEF vars, ctx
<1>3. /\ piece \in DP!NextChunks
      /\ Cat(d_fed, piece) = SubSeq(out, 1, Len(Cat(d_fed, piece)))
      /\ Len(Cat(d_fed, piece)) <= Len(out)
  BY <1>1, Taken
<1> HIDE DEF piece
<1>4. IInv'
  BY <1>1, EnciphererKept
<1>5. DP!IInv'
  BY <1>1, <1>3, DecipherContract, DP!UpdateCachedKeeps, DP!UpdateBlocksKeeps,
     DP!UpdateStreamKeeps DEF ChainInv
<1>6. UNCHANGED << d_operation, d_schedule, d_start >>
  BY <1>1 DEF DP!UpdateCached, DP!UpdateBlocks, DP!UpdateStream
<1>7. SameSetup'
  BY <1>2, <1>6 DEF ChainInv, SameSetup
<1>8. d_fed' = Cat(d_fed, piece)
  <2>1. \E result : DP!Return(piece, result, "open")
    BY <1>1 DEF DP!UpdateCached, DP!UpdateBlocks, DP!UpdateStream
  <2> QED
    BY <1>1, <2>1 DEF DP!Return, Cat
<1>9. PipeHoldsRest'
  BY <1>2, <1>3, <1>8 DEF PipeHoldsRest
<1>10. NeitherRefuses' /\ Deciphered'
  BY <1>1, <1>2 DEF ChainInv, NeitherRefuses, Deciphered
<1>11. Enciphered'
  <2>1. Setup' = Setup
    BY <1>2 DEF Setup
  <2>2. Enciphered
    BY DEF ChainInv
  <2>3. stage = "finished" => fed \in Messages /\ Complete(Setup', fed', out')
    BY <1>2, <2>1, <2>2 DEF Enciphered
  <2> QED
    BY <1>2, <2>3 DEF Enciphered
<1> QED
  BY <1>4, <1>5, <1>7, <1>9, <1>10, <1>11 DEF ChainInv

\* All of the ciphertext, deciphered at once, ends in the padding of the text.
LEMMA AllText ==
    ASSUME ChainInv, mode = "CBC", stage = "finished"
    PROVE  /\ CbcOut(d_schedule, "decrypt", start, out) = Input
           /\ ValidPadding(LastBlock(Input))
           /\ SubSeq(Input, 1, Len(Input) - LastBlock(Input)[B]) = fed
<1>1. /\ Input \in Seq(Bytes) /\ Len(Input) = Len(out)
      /\ (Len(out) % B) = 0 /\ Len(out) \in Nat
      /\ out \in Seq(Bytes) /\ fed \in Seq(Bytes) /\ Len(fed) \in Nat
  BY CbcPipe, Keying
<1>2. PICK p \in 1..B :
          /\ Padding(p) \in Seq(Bytes) /\ Len(Padding(p)) = p
          /\ Input = Cat(fed, Padding(p)) /\ Len(Input) = Len(fed) + p
          /\ B <= Len(Input)
  BY Padded
<1>3. CbcOut(d_schedule, "decrypt", start, out) = Input
  <2>1. Len(out) \in 0..Len(out)
    BY <1>1
  <2>2. SubSeq(out, 1, Len(out)) = out /\ SubSeq(Input, 1, Len(out)) = Input
    BY <1>1, SubSeqFull
  <2> QED
    BY <1>1, <2>1, <2>2, CbcText
<1> DEFINE X == Input
           pad == Padding(p)
           last == SubSeq(X, Len(X) - B + 1, Len(X))
           f == Len(fed)
           x == Len(X)
<1>4. /\ X \in Seq(Bytes) /\ x = f + p /\ B <= x /\ f \in Nat /\ p \in 1..B /\ p \in Nat
      /\ pad \in Seq(Bytes) /\ Len(pad) = p /\ X = Cat(fed, pad)
      /\ fed \in Seq(Bytes) /\ x \in Nat
  BY <1>1, <1>2, Constants
<1>5. \A i \in 1..p : pad[i] = p
  BY DEF Padding
<1>6. \A i \in 1..p : X[f + i] = p
  <2> SUFFICES ASSUME NEW i \in 1..p PROVE X[f + i] = p
    OBVIOUS
  <2>1. f + i \in 1..(Len(fed) + Len(pad)) /\ ~(f + i <= Len(fed)) /\ (f + i) - Len(fed) = i
    BY <1>4
  <2> HIDE DEF X, pad
  <2>2. (fed \o pad)[f + i] = pad[i]
    BY <1>4, <2>1, ConcatProperties
  <2> QED
    BY <1>4, <1>5, <2>2 DEF Cat
<1>7. Len(last) = B /\ last \in Seq(Bytes)
  <2>1. x - B \in 0..x /\ x - (x - B) = B
    BY <1>4, Constants
  <2> HIDE DEF X
  <2> QED
    BY <1>4, <2>1, CutInTwo
<1>8. \A i \in 1..B : last[i] = X[x - B + i]
  <2> SUFFICES ASSUME NEW i \in 1..B PROVE last[i] = X[x - B + i]
    OBVIOUS
  <2>1. (x - B + 1) + i - 1 = x - B + i /\ x - B + 1 \in Int /\ x \in Int
    BY <1>4, Constants
  <2>2. \A j \in (x - B + 1)..x : X[j] \in Bytes
    <3>1. \A j \in (x - B + 1)..x : j \in 1..x
      <4> HIDE DEF X, x
      <4> QED
        BY <1>4, Constants
    <3>2. \A j \in 1..Len(X) : X[j] \in Bytes
      <4> HIDE DEF X
      <4> QED
        BY <1>4, ElementOfSeq
    <3> HIDE DEF X
    <3> QED
      BY <3>1, <3>2
  <2> HIDE DEF X, x
  <2> DEFINE a == x - B + 1
  <2>3. last = SubSeq(X, a, x)
    BY DEF x
  <2>4. a \in Int /\ x \in Int /\ a + i - 1 = x - B + i
    BY <2>1
  <2>5. \A j \in a..x : X[j] \in Bytes
    BY <2>2
  <2> HIDE DEF a, last
  <2> QED
    BY <1>4, <1>7, <2>3, <2>4, <2>5, SubSeqProperties
<1>9. \A i \in (B - p + 1)..B : last[i] = p
  <2> SUFFICES ASSUME NEW i \in (B - p + 1)..B PROVE last[i] = p
    OBVIOUS
  <2> DEFINE j == i - (B - p)
  <2>1. i \in 1..B /\ j \in 1..p /\ x - B + i = f + j
    BY <1>4, Constants
  <2> HIDE DEF j, X, x, f, last
  <2> QED
    BY <1>6, <1>8, <2>1
<1>10. last[B] = p
  <2>1. B \in (B - p + 1)..B
    BY <1>4, Constants
  <2> HIDE DEF last
  <2> QED
    BY <1>9, <2>1
<1>11. last = LastBlock(Input)
  BY DEF LastBlock
<1>12. ValidPadding(last)
  <2> HIDE DEF last
  <2>1. p <= B
    BY <1>4, Constants
  <2> QED
    BY <1>9, <1>10, <2>1 DEF ValidPadding
<1>13. SubSeq(X, 1, x - p) = fed
  <2>1. x - p = Len(fed)
    BY <1>4
  <2> HIDE DEF X, pad
  <2> QED
    BY <1>4, <2>1, CutAtJoint DEF Cat
<1> QED
  BY <1>3, <1>10, <1>11, <1>12, <1>13

\* The last block carries the padding of the text, so the decipherer ends with the text.
LEMMA EndDecipherKeeps ==
    ASSUME ChainInv, EndDecipher
    PROVE  ChainInv'
<1>1. /\ stage = "finished" /\ Pipe = << >> /\ d_stage = "open" /\ d_stage' # "stale"
      /\ DP!FinishDecrypt \/ DP!FinishIncomplete \/ DP!FinishStream
      /\ UNCHANGED vars
  BY DecipherCalls DEF EndDecipher
<1>2. UNCHANGED << mode, operation, schedule, start, fed, out, stage >>
  BY <1>1 DEF vars, ctx
<1>3. IInv'
  BY <1>1, EnciphererKept
<1>4. DP!IInv /\ d_operation = "decrypt" /\ d_start = start
  BY DEF ChainInv, SameSetup
<1>5. DP!IInv'
  BY <1>1, <1>4, DecipherContract, DP!FinishKeeps
<1>6. /\ UNCHANGED << d_operation, d_schedule, d_start, d_fed >>
      /\ d_stage' \in { "finished", "refused" }
  <2>1. UNCHANGED << d_operation, d_schedule, d_start >>
    BY <1>1 DEF DP!FinishDecrypt, DP!FinishIncomplete, DP!FinishStream, DP!ctx
  <2>2. \/ \E result : DP!Return(<< >>, result, "finished")
        \/ DP!Raise("refused")
    BY <1>1 DEF DP!FinishDecrypt, DP!FinishIncomplete, DP!FinishStream
  <2>3. Cat(d_fed, << >>) = d_fed
    BY Keying, CatEmpty
  <2>4. CASE DP!Raise("refused")
    BY <1>1, <2>1, <2>4 DEF DP!Raise
  <2>5. CASE \E result : DP!Return(<< >>, result, "finished")
    <3>1. d_fed' = Cat(d_fed, << >>) /\ d_stage' = "finished"
      BY <1>1, <2>5 DEF DP!Return, Cat
    <3> QED
      BY <2>1, <2>3, <3>1
  <2> QED
    BY <2>2, <2>4, <2>5
<1>7. d_fed = out
  <2>1. /\ out \in Seq(Bytes) /\ Len(out) \in Nat /\ Len(d_fed) \in Nat
    BY Keying
  <2>2. Len(d_fed) \in 0..Len(out) /\ d_fed = SubSeq(out, 1, Len(d_fed))
    BY <2>1 DEF ChainInv, PipeHoldsRest
  <2>3. Len(Pipe) = Len(out) - Len(d_fed)
    BY <2>1, <2>2, CutInTwo DEF Pipe
  <2>4. Len(Pipe) = 0
    BY <1>1, EmptySeq
  <2>5. Len(d_fed) = Len(out)
    BY <2>1, <2>2, <2>3, <2>4
  <2> QED
    BY <2>1, <2>2, <2>5, SubSeqFull
<1>8. d_stage' = "finished" /\ d_out' = fed
  <2>1. CASE mode = "CBC"
    <3> DEFINE text == CbcOut(d_schedule, d_operation, d_iv, DP!Cached)
    <3>1. /\ Len(d_fed) % B = 0 /\ d_fed # << >>
      <4>1. (Len(out) % B) = 0 /\ Len(Input) = Len(out)
        BY <2>1, CbcPipe
      <4>2. Len(out) # 0
        <5>1. PICK p \in 1..B : Len(Input) = Len(fed) + p
          BY <1>1, <2>1, Padded
        <5>2. Len(fed) \in Nat
          BY Keying
        <5> QED
          BY <4>1, <5>1, <5>2, Constants
      <4> QED
        BY <1>7, <4>1, <4>2, EmptySeq
    <3>2. d_unprocessed_len = B
      BY <1>1, <1>4, <2>1, <3>1 DEF DP!IInv, DP!FinishHasItsBlock
    <3>3. DP!FinishDecrypt
      BY <1>1, <2>1, <3>2 DEF DP!FinishIncomplete, DP!FinishStream
    <3>4. /\ DP!Refusable(DP!Setup, d_fed) <=> ~DP!ValidPadding(text)
          /\ DP!ValidPadding(text) =>
                 DP!Complete(DP!Setup, d_fed, DP!Cat(d_out, SubSeq(text, 1, B - text[B])))
      BY <1>1, <1>4, <2>1, <3>2, DecipherContract, DP!DecryptComplete
    <3>5. DP!Text(DP!Setup, d_fed) = Input
      <4>1. CbcOut(d_schedule, "decrypt", start, out) = Input
        BY <1>1, <2>1, AllText
      <4> QED
        BY <1>4, <1>7, <4>1 DEF DP!Text, DP!Setup
    <3>6. DP!LastBlock(Input) = LastBlock(Input)
      BY DEF DP!LastBlock, LastBlock
    <3>7. DP!ValidPadding(LastBlock(Input))
      BY <1>1, <2>1, AllText DEF DP!ValidPadding, ValidPadding
    <3>8. ~DP!Refusable(DP!Setup, d_fed)
      BY <3>1, <3>5, <3>6, <3>7 DEF DP!Refusable
    <3>9. DP!ValidPadding(text)
      BY <3>4, <3>8
    <3>10. DP!Cat(d_out, SubSeq(text, 1, B - text[B])) = fed
      <4>1. SubSeq(Input, 1, Len(d_fed) - LastBlock(Input)[B]) = fed
        BY <1>1, <1>7, <2>1, AllText, CbcPipe
      <4> DEFINE o == DP!Cat(d_out, SubSeq(text, 1, B - text[B]))
      <4>2. DP!Complete(DP!Setup, d_fed, o)
        BY <3>4, <3>9
      <4> HIDE DEF o
      <4>3. DP!Setup.mode = "CBC" /\ DP!Setup.operation = "decrypt"
        BY <1>4, <2>1 DEF DP!Setup
      <4>4. o = SubSeq(DP!Text(DP!Setup, d_fed), 1,
                       Len(d_fed) - DP!LastBlock(DP!Text(DP!Setup, d_fed))[B])
        BY <4>2, <4>3 DEF DP!Complete
      <4> QED
        BY <3>5, <3>6, <4>1, <4>4 DEF o
    <3>11. DP!Return(<< >>, SubSeq(text, 1, B - text[B]), "finished")
      BY <3>3, <3>9 DEF DP!FinishDecrypt
    <3> QED
      BY <1>1, <3>10, <3>11 DEF DP!Return, DP!Cat
  <2>2. CASE mode # "CBC"
    <3>1. DP!Return(<< >>, << >>, "finished")
      BY <1>1, <2>2 DEF DP!FinishDecrypt, DP!FinishIncomplete, DP!FinishStream
    <3>2. d_out' = Cat(d_out, << >>) /\ d_stage' = "finished"
      BY <1>1, <3>1 DEF DP!Return, Cat
    <3>3. d_out' = d_out
      BY <3>2, Keying, CatEmpty
    <3>4. d_out = SubSeq(fed, 1, Len(d_out)) /\ Len(d_out) = Len(fed)
      BY <1>1, <1>7, <2>2, StreamBehind, StreamPipe
    <3>5. SubSeq(fed, 1, Len(fed)) = fed
      BY Keying, SubSeqFull
    <3> QED
      BY <3>2, <3>3, <3>4, <3>5
  <2> QED
    BY <2>1, <2>2
<1>9. SameSetup'
  BY <1>2, <1>6 DEF ChainInv, SameSetup
<1>10. PipeHoldsRest'
  BY <1>2, <1>6 DEF ChainInv, PipeHoldsRest
<1>11. NeitherRefuses' /\ Deciphered'
  BY <1>1, <1>2, <1>8 DEF ChainInv, NeitherRefuses, Deciphered
<1>12. Enciphered'
  <2>1. Setup' = Setup
    BY <1>2 DEF Setup
  <2>2. fed \in Messages /\ Complete(Setup, fed, out)
    BY <1>1 DEF ChainInv, Enciphered
  <2> QED
    BY <1>2, <2>1, <2>2 DEF Enciphered
<1> QED
  BY <1>3, <1>5, <1>9, <1>10, <1>11, <1>12 DEF ChainInv

\* Every step keeps the invariant.
LEMMA ChainStep == ChainInv /\ [ChainNext]_allvars => ChainInv'
<1> SUFFICES ASSUME ChainInv, [ChainNext]_allvars PROVE ChainInv'
  OBVIOUS
<1>1. ASSUME NEW input \in NextChunks, Encipher(input) PROVE ChainInv'
  BY <1>1, EncipherKeeps
<1>2. ASSUME NEW n \in 0..Len(Pipe), Decipher(n) PROVE ChainInv'
  BY <1>2, DecipherKeeps
<1>3. CASE EndEncipher
  BY <1>3, EndEncipherKeeps
<1>4. CASE EndDecipher
  BY <1>4, EndDecipherKeeps
<1>5. CASE UNCHANGED allvars
  <2>1. UNCHANGED vars /\ UNCHANGED decipherer
    BY <1>5 DEF allvars
  <2>2. UNCHANGED << mode, operation, schedule, start, fed, out, stage >>
    BY <2>1 DEF vars, ctx
  <2>3. IInv' /\ DP!IInv'
    BY <2>1, <2>2, EnciphererKept, DeciphererKept
  <2>4. SameSetup' /\ NeitherRefuses' /\ PipeHoldsRest' /\ Deciphered'
    BY <2>1, <2>2 DEF decipherer, ChainInv, SameSetup, NeitherRefuses, PipeHoldsRest,
                      Deciphered
  <2>5. Enciphered'
    <3>1. Setup' = Setup
      BY <2>2 DEF Setup
    <3>2. Enciphered
      BY DEF ChainInv
    <3>3. stage = "finished" => fed \in Messages /\ Complete(Setup', fed', out')
      BY <2>2, <3>1, <3>2 DEF Enciphered
    <3> QED
      BY <2>2, <3>3 DEF Enciphered
  <2> QED
    BY <2>3, <2>4, <2>5 DEF ChainInv
<1> QED
  BY <1>1, <1>2, <1>3, <1>4, <1>5 DEF ChainNext

\* Both objects begin a message under one key.
LEMMA ChainBegins == ChainInit => ChainInv
<1> SUFFICES ASSUME ChainInit PROVE ChainInv
  OBVIOUS
<1>1. PICK k \in { x \in Keys : KeyBits(x) \in KeyLengths }, v \in IVs :
         /\ operation = "encrypt" /\ d_operation = "decrypt"
         /\ key_length = KeyBits(k) /\ d_key_length = KeyBits(k)
         /\ schedule = [key |-> k, dir |-> DirFor(mode, "encrypt")]
         /\ d_schedule = [key |-> k, dir |-> DirFor(mode, "decrypt")]
         /\ iv = v /\ start = v /\ d_iv = v /\ d_start = v
  BY DEF ChainInit
<1>2. /\ mode \in Modes
      /\ unprocessed_data = Zeros /\ d_unprocessed_data = Zeros
      /\ unprocessed_len = 0 /\ d_unprocessed_len = 0
      /\ fed = << >> /\ out = << >> /\ stage = "open"
      /\ d_fed = << >> /\ d_out = << >> /\ d_stage = "open"
  BY DEF ChainInit
<1>3. k \in Keys /\ KeyBits(k) \in Nat /\ v \in Block /\ k # NoKey
  BY CipherConstants
<1>4. Zeros \in Block
  BY Constants DEF Zeros, Block
<1>5. Zeros \in Seq(Bytes) /\ Len(Zeros) = B
  BY <1>4, BlockIsSeq
<1>6. << >> \in Seq(Bytes) /\ Len(<< >>) = 0
  BY EmptySeq
<1>7. /\ DirFor(mode, "encrypt") = "encrypt" /\ DirFor(mode, "decrypt") \in Operations
      /\ mode # "CBC" => DirFor(mode, "decrypt") = "encrypt"
  BY DEF DirFor, Operations
<1>8. /\ schedule \in Schedules /\ schedule # NoSchedule /\ schedule.key = k
      /\ d_schedule \in Schedules /\ d_schedule # NoSchedule
      /\ schedule.dir = "encrypt"
      /\ mode # "CBC" => d_schedule.dir = "encrypt"
  BY <1>1, <1>3, <1>7 DEF Schedules, NoSchedule, Operations
<1>9. TypeOK
  BY <1>1, <1>2, <1>3, <1>4, <1>5, <1>6, <1>8, Constants
     DEF TypeOK, Keyed, Operations, Stages
<1>10. DP!TypeOK
  <2>1. d_schedule # DP!NoSchedule
    BY <1>8 DEF DP!NoSchedule, NoSchedule
  <2>2. DP!Keyed
    BY <2>1 DEF DP!Keyed
  <2>3. d_operation \in Operations /\ d_key_length \in Nat /\ "open" \in DP!Stages
    BY <1>1, <1>3 DEF Operations, DP!Stages
  <2>4. /\ d_iv \in Block /\ d_start \in Block
        /\ d_unprocessed_data \in Seq(Bytes) /\ Len(d_unprocessed_data) <= B
        /\ d_unprocessed_data \in Block /\ d_unprocessed_len = 0 /\ 0 \in 0..B /\ 0 < B
        /\ 0 <= Len(d_unprocessed_data)
    BY <1>1, <1>2, <1>3, <1>4, <1>5, Constants
  <2>5. /\ d_fed \in Seq(Bytes) /\ Len(d_fed) <= MaxFed
        /\ d_out \in Seq(Bytes)
    BY <1>2, <1>6, Constants
  <2>6. d_operation # "none"
    BY <1>1
  <2> QED
    BY <1>2, <1>8, <2>2, <2>3, <2>4, <2>5, <2>6, SameTypes DEF DP!TypeOK
<1>11. IInv
  BY <1>1, <1>2, <1>9, BegunHolds DEF Begun
<1>12. DP!IInv
  BY <1>1, <1>2, <1>10, DecipherContract, DP!BegunHolds DEF DP!Begun
<1>13. SameSetup
  BY <1>1, <1>3, <1>8 DEF SameSetup
<1>14. PipeHoldsRest
  BY <1>2, <1>6, SubSeqEmpty DEF PipeHoldsRest
<1>15. NeitherRefuses /\ Enciphered /\ Deciphered
  BY <1>2 DEF NeitherRefuses, Enciphered, Deciphered
<1> QED
  BY <1>11, <1>12, <1>13, <1>14, <1>15 DEF ChainInv

\* The invariant holds throughout.
LEMMA ChainInvAlways == ChainSpec => []ChainInv
BY ChainBegins, ChainStep, PTL DEF ChainSpec

\* What one object enciphers, the other deciphers to the same text, however both callers cut
\* what they pass on, and the second one never refuses (cipher.c:371-567).
THEOREM TextComesBack == ChainSpec => []RoundTrip
BY ChainInvAlways, RoundTripHolds, PTL

\* With nothing in between, the text is less than two blocks behind, and not at all in a
\* stream mode (cipher.c:399-463).
THEOREM LagIsBounded == ChainSpec => []BoundedLag
BY ChainInvAlways, BoundedLagHolds, PTL
=============================================================================
