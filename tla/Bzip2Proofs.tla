---------------------------- MODULE Bzip2Proofs ----------------------------
(***************************************************************************)
(* Proofs about Bzip2Compress for every alphabet, every longest run and    *)
(* every size of block, buffer and chunk.  A block never outgrows its      *)
(* memory, and handle_compress never takes a full block for the last one.  *)
(* Resting on these: nothing of the text is lost on the way through the    *)
(* four places it can be in, and the filter implements the contract of     *)
(* module Filter.                                                          *)
(***************************************************************************)
EXTENDS Bzip2Compress, ProofLemmas

-----------------------------------------------------------------------------
(* The inductive invariant.                                                *)

\* The bytes of compressed data a buffer can hold.
ZBytes ==
    [part : { "header", "block", "trailer" }, block : Seq(0..MaxRun),
     pos : Int, of : Int, sound : BOOLEAN]

\* What TypeOK leaves open: the buffers are sequences.
BuffersHold ==
    /\ buf \in Seq(ZBytes)
    /\ fed \in Seq(Chars)

\* The loop of handle_compress runs only for a stream that is not over.
HandlesOpenStream == pc = "handle" => mode # "IDLE"

\* While a block is filled nothing of it has come out, and if it is full then by the run in
\* front of the byte just read: exactly that one byte is being counted.  Without this a last
\* run could find a full block and add five bytes to it, and a block could be full with no
\* run to follow.
FillingBlock ==
    state = "INPUT" =>
        /\ state_out_pos = 0
        /\ Len(block) <= NBlockMax + 4
        /\ BlockFull => state_in_ch # NoChar /\ state_in_len = 1

Inv ==
    /\ BlockFits
    /\ BuffersHold
    /\ HandlesOpenStream
    /\ FillingBlock
    /\ FullBlockLeavesRun

\* The constants, as the provers need them.
LEMMA Constants ==
    /\ MaxRun \in Nat /\ MaxRun >= 4
    /\ NBlockMax \in Nat /\ NBlockMax >= 1
    /\ BufSize \in Nat /\ BufSize >= 1
    /\ MaxZ \in Nat /\ MaxZ >= 1
    /\ MaxFed \in Nat /\ MaxChunk \in Nat
    /\ Chars \subseteq 0..MaxRun
    /\ NoChar \notin Chars /\ Dangling \notin Chars
BY Bzip2Constants

-----------------------------------------------------------------------------
(* Runs and blocks.                                                        *)

\* A run takes at most five bytes of a block, and one byte if it is of length one.
LEMMA RunTakesFive ==
    ASSUME NEW ch \in 0..MaxRun, NEW n \in 0..MaxRun
    PROVE  /\ EncodedRun(ch, n) \in Seq(0..MaxRun)
           /\ Len(EncodedRun(ch, n)) <= 5
           /\ n = 1 => Len(EncodedRun(ch, n)) = 1
<1>1. CASE n < 4
  <2>1. EncodedRun(ch, n) = [i \in 1..n |-> ch]
    BY <1>1 DEF EncodedRun
  <2>2. [i \in 1..n |-> ch] \in [1..n -> 0..MaxRun]
    OBVIOUS
  <2>3. [i \in 1..n |-> ch] \in Seq(0..MaxRun) /\ Len([i \in 1..n |-> ch]) = n
    BY <2>2, Constants
  <2> QED
    BY <1>1, <2>1, <2>3
<1>2. CASE ~(n < 4)
  <2>1. EncodedRun(ch, n) = << ch, ch, ch, ch, n - 4 >>
    BY <1>2 DEF EncodedRun
  <2>2. n - 4 \in 0..MaxRun
    BY <1>2, Constants
  <2>3. /\ << ch, ch, ch, ch, n - 4 >> \in Seq(0..MaxRun)
        /\ Len(<< ch, ch, ch, ch, n - 4 >>) = 5
    BY <2>2
  <2> QED
    BY <1>2, <2>1, <2>3
<1> QED
  BY <1>1, <1>2

\* The block with the run at its end.
LEMMA BlockWithRun ==
    ASSUME TypeOK
    PROVE  /\ WithRun \in Seq(0..MaxRun)
           /\ Len(block) \in Nat
           /\ Len(WithRun) \in Nat
           /\ Len(WithRun) <= Len(block) + 5
           /\ state_in_len = 1 => Len(WithRun) <= Len(block) + 1
<1>1. block \in Seq(0..MaxRun) /\ state_in_len \in 0..MaxRun
  BY DEF TypeOK
<1>2. Len(block) \in Nat
  BY <1>1, LenProperties
<1>3. CASE state_in_ch = NoChar
  BY <1>1, <1>2, <1>3 DEF WithRun
<1>4. CASE state_in_ch # NoChar
  <2> DEFINE run == EncodedRun(state_in_ch, state_in_len)
  <2>1. state_in_ch \in 0..MaxRun
    BY <1>4, Constants DEF TypeOK
  <2>2. run \in Seq(0..MaxRun) /\ Len(run) <= 5 /\ (state_in_len = 1 => Len(run) = 1)
    BY <1>1, <2>1, RunTakesFive
  <2>3. WithRun = block \o run
    BY <1>4 DEF WithRun
  <2> HIDE DEF run
  <2>4. block \o run \in Seq(0..MaxRun) /\ Len(block \o run) = Len(block) + Len(run)
    BY <1>1, <2>2, ConcatProperties
  <2>5. Len(run) \in Nat
    BY <2>2, LenProperties
  <2> QED
    BY <1>2, <2>2, <2>3, <2>4, <2>5, SMTT(30)
<1> QED
  BY <1>3, <1>4

\* What zbits holds.
LEMMA ZbyteType ==
    ASSUME TypeOK, NEW i \in Int
    PROVE  Zbyte(i) \in ZBytes
<1>1. block \in Seq(0..MaxRun) /\ << >> \in Seq(0..MaxRun)
  BY EmptySeq DEF TypeOK
<1>2. HeaderEnd \in Int /\ BlockEnd \in Int
  BY Constants DEF TypeOK, HeaderEnd, BlockEnd
<1>3. i - HeaderEnd \in Int /\ BlockEnd - HeaderEnd \in Int
  BY <1>2
<1> QED
  BY <1>1, <1>3 DEF Zbyte, Byte, ZBytes

-----------------------------------------------------------------------------
(* The end of a call.                                                      *)

\* What Return and Raise have in common, as far as the invariant looks.
CallEnds ==
    /\ pc' = "idle" /\ call' = "none" /\ buf' = << >> /\ progress' = FALSE
    /\ input' \in Seq(Chars \cup { Dangling }) /\ Len(input') <= MaxChunk
    /\ fed' = fed \/ fed' = << >>
    /\ stage' \in { "open", "finished", "refused", "stale" }

\* A call may end wherever it is: the invariant holds as long as the compressor is left alone.
LEMMA EndOfCall ==
    ASSUME Inv, CallEnds, mode' \in { "IDLE", "RUNNING", "FINISHING" },
           UNCHANGED << state, avail_in_expect, rl, block, blockNo, zbits >>
    PROVE  Inv'
<1>0. BlockFits /\ TypeOK /\ BuffersHold /\ FillingBlock /\ FullBlockLeavesRun
  BY DEF Inv, BlockFits
<1>1. Len(fed') <= MaxFed /\ fed' \in Seq(Chars)
  <2>1. << >> \in Seq(Chars) /\ Len(<< >>) = 0 /\ 0 <= MaxFed
    BY Constants, EmptySeq
  <2>2. fed \in Seq(Chars) /\ Len(fed) <= MaxFed
    BY <1>0 DEF BuffersHold, TypeOK
  <2> QED
    BY <2>1, <2>2 DEF CallEnds
<1>2. buf' \in Seq(ZBytes) /\ Len(buf') <= BufSize
  <2>1. << >> \in Seq(ZBytes) /\ Len(<< >>) = 0 /\ 0 <= BufSize
    BY Constants, EmptySeq
  <2> QED
    BY <2>1 DEF CallEnds
<1>3. TypeOK'
  BY <1>0, <1>1, <1>2 DEF TypeOK, CallEnds, rl, zbits
<1>4. BlockFits' /\ BuffersHold'
  BY <1>0, <1>1, <1>2, <1>3 DEF BlockFits, BuffersHold
<1>5. HandlesOpenStream'
  BY DEF CallEnds, HandlesOpenStream
<1>6. FillingBlock' /\ FullBlockLeavesRun'
  BY <1>0 DEF FillingBlock, FullBlockLeavesRun, BlockFull, EmptyRL, rl, zbits
<1> QED
  BY <1>4, <1>5, <1>6 DEF Inv

\* Raising an error ends the call.
LEMMA RaiseEnds ==
    ASSUME TypeOK, Raise("refused") \/ Raise("stale")
    PROVE  CallEnds
<1>1. input \in Seq(Chars \cup { Dangling }) /\ Len(input) \in Nat /\ Len(input) <= MaxChunk
  BY LenProperties DEF TypeOK
<1> DEFINE dangling == [i \in 1..Len(input) |-> Dangling]
<1>2. dangling \in [1..Len(input) -> Chars \cup { Dangling }]
  OBVIOUS
<1>3. dangling \in Seq(Chars \cup { Dangling }) /\ Len(dangling) = Len(input)
  BY <1>1, <1>2
<1>4. input' = dangling
  BY DEF Raise
<1> HIDE DEF dangling
<1>5. input' \in Seq(Chars \cup { Dangling }) /\ Len(input') <= MaxChunk
  BY <1>1, <1>3, <1>4
<1>6. fed' = fed \/ fed' = << >>
  BY DEF Raise
<1>7. stage' \in { "open", "finished", "refused", "stale" }
  BY DEF Raise
<1>8. pc' = "idle" /\ call' = "none" /\ buf' = << >> /\ progress' = FALSE
  BY DEF Raise
<1> QED
  BY <1>5, <1>6, <1>7, <1>8 DEF CallEnds

\* So does returning.
LEMMA ReturnEnds ==
    ASSUME TypeOK,
           Return(luabuf \o buf, "open") \/ Return(luabuf \o buf, "finished"),
           UNCHANGED input \/ input' = << >>
    PROVE  CallEnds
<1>1. << >> \in Seq(Chars \cup { Dangling }) /\ Len(<< >>) = 0 /\ 0 <= MaxChunk
  BY Constants, EmptySeq
<1>2. input \in Seq(Chars \cup { Dangling }) /\ Len(input) <= MaxChunk
  BY DEF TypeOK
<1>3. input' \in Seq(Chars \cup { Dangling }) /\ Len(input') <= MaxChunk
  BY <1>1, <1>2
<1>4. fed' = fed \/ fed' = << >>
  BY DEF Return
<1>5. stage' \in { "open", "finished", "refused", "stale" }
  BY DEF Return
<1>6. pc' = "idle" /\ call' = "none" /\ buf' = << >> /\ progress' = FALSE
  BY DEF Return
<1> QED
  BY <1>3, <1>4, <1>5, <1>6 DEF CallEnds

-----------------------------------------------------------------------------
(* The steps that end a call.                                              *)

LEMMA UpdateReturnsKeepsInv ==
    ASSUME Inv, UpdateReturns
    PROVE  Inv'
<1>1. TypeOK /\ input = << >>
  BY DEF Inv, BlockFits, UpdateReturns
<1>2. CallEnds
  <2>1. Return(luabuf \o buf, "open") \/ Raise("stale")
    BY DEF UpdateReturns
  <2>2. CASE Return(luabuf \o buf, "open")
    <3>1. input' = << >>
      BY DEF UpdateReturns
    <3> QED
      BY <1>1, <2>2, <3>1, ReturnEnds
  <2>3. CASE Raise("stale")
    BY <1>1, <2>3, RaiseEnds
  <2> QED
    BY <2>1, <2>2, <2>3
<1>3. mode' \in { "IDLE", "RUNNING", "FINISHING" }
  BY <1>1 DEF UpdateReturns, estate, TypeOK
<1>4. UNCHANGED << state, avail_in_expect, rl, block, blockNo, zbits >>
  BY DEF UpdateReturns, estate
<1> QED
  BY <1>2, <1>3, <1>4, EndOfCall

LEMMA OutOfSequenceKeepsInv ==
    ASSUME Inv, OutOfSequence
    PROVE  Inv'
<1>1. TypeOK
  BY DEF Inv, BlockFits
<1>2. CallEnds
  BY <1>1, RaiseEnds DEF OutOfSequence
<1>3. mode' \in { "IDLE", "RUNNING", "FINISHING" }
  BY <1>1 DEF OutOfSequence, estate, TypeOK
<1>4. UNCHANGED << state, avail_in_expect, rl, block, blockNo, zbits >>
  BY DEF OutOfSequence, estate
<1> QED
  BY <1>2, <1>3, <1>4, EndOfCall

LEMMA FinishReturnsKeepsInv ==
    ASSUME Inv, FinishReturns
    PROVE  Inv'
<1>1. TypeOK
  BY DEF Inv, BlockFits
<1>2. CallEnds
  <2>1. CASE Return(luabuf \o buf, "finished") /\ UNCHANGED input
    BY <1>1, <2>1, ReturnEnds
  <2>2. CASE Raise("stale")
    BY <1>1, <2>2, RaiseEnds
  <2> QED
    BY <2>1, <2>2 DEF FinishReturns
<1>3. mode' \in { "IDLE", "RUNNING", "FINISHING" }
  BY DEF FinishReturns
<1>4. UNCHANGED << state, avail_in_expect, rl, block, blockNo, zbits >>
  BY DEF FinishReturns
<1> QED
  BY <1>2, <1>3, <1>4, EndOfCall

\* GoOn goes on with the next turn or ends the call.
LEMMA GoOnKeepsInv ==
    ASSUME Inv, GoOn
    PROVE  Inv'
<1>1. TypeOK /\ BuffersHold
  BY DEF Inv, BlockFits
<1>2. mode' \in { "IDLE", "RUNNING", "FINISHING" }
  BY <1>1 DEF GoOn, estate, TypeOK
<1>3. UNCHANGED << state, avail_in_expect, rl, block, blockNo, zbits >>
  BY DEF GoOn, estate
<1>4. CASE Raise("refused") \/ Raise("stale")
  BY <1>1, <1>2, <1>3, <1>4, RaiseEnds, EndOfCall
<1>5. CASE /\ progress /\ pc' = "loop"
           /\ buf' = buf \/ buf' = << >>
           /\ UNCHANGED << call, input, progress, history, mode >>
  <2>1. buf' \in Seq(ZBytes) /\ Len(buf') <= BufSize
    <3>1. << >> \in Seq(ZBytes) /\ Len(<< >>) = 0 /\ 0 <= BufSize
      BY Constants, EmptySeq
    <3>2. buf \in Seq(ZBytes) /\ Len(buf) <= BufSize
      BY <1>1 DEF TypeOK, BuffersHold
    <3> QED
      BY <1>5, <3>1, <3>2
  <2>2. TypeOK'
    BY <1>1, <1>2, <1>3, <1>5, <2>1 DEF TypeOK, rl, zbits, history
  <2>3. BlockFits' /\ BuffersHold'
    BY <1>1, <1>3, <1>5, <2>1, <2>2 DEF Inv, BlockFits, BuffersHold, history
  <2>4. HandlesOpenStream'
    BY <1>5 DEF HandlesOpenStream
  <2>5. FillingBlock' /\ FullBlockLeavesRun'
    BY <1>3 DEF Inv, FillingBlock, FullBlockLeavesRun, BlockFull, EmptyRL, rl, zbits
  <2> QED
    BY <2>3, <2>4, <2>5 DEF Inv
<1> QED
  BY <1>4, <1>5 DEF GoOn, estate

-----------------------------------------------------------------------------
(* The steps before handle_compress.                                       *)

\* A step that leaves the compressor, the buffer and the text alone, and may start
\* handle_compress only for a stream that is not over.
LEMMA CallMoves ==
    ASSUME Inv,
           pc' \in { "none", "idle", "loop", "handle", "called" },
           call' \in { "none", "update", "finish" },
           input' \in Seq(Chars \cup { Dangling }), Len(input') <= MaxChunk,
           mode' \in { "IDLE", "RUNNING", "FINISHING" },
           avail_in_expect' \in 0..MaxChunk, blockNo' \in 0..2, progress' \in BOOLEAN,
           stage' \in { "open", "finished", "refused", "stale" },
           fed' \in Seq(Chars), Len(fed') <= MaxFed,
           pc' = "handle" => mode' # "IDLE",
           UNCHANGED << buf, state, rl, block, zbits >>
    PROVE  Inv'
<1>1. TypeOK /\ BuffersHold
  BY DEF Inv, BlockFits
<1>2. TypeOK'
  BY <1>1 DEF TypeOK, rl, zbits
<1>3. BlockFits' /\ BuffersHold'
  BY <1>1, <1>2 DEF Inv, BlockFits, BuffersHold
<1>4. HandlesOpenStream'
  BY DEF HandlesOpenStream
<1>5. FillingBlock' /\ FullBlockLeavesRun'
  BY DEF Inv, FillingBlock, FullBlockLeavesRun, BlockFull, EmptyRL, rl, zbits
<1> QED
  BY <1>3, <1>4, <1>5 DEF Inv

LEMMA CreateKeepsInv ==
    ASSUME Inv, Create
    PROVE  Inv'
<1>1. TypeOK /\ BuffersHold
  BY DEF Inv, BlockFits
<1> QED
  BY <1>1, CallMoves DEF Create, TypeOK, BuffersHold

LEMMA UpdateKeepsInv ==
    ASSUME Inv, NEW chunk \in Chunks, Update(chunk)
    PROVE  Inv'
<1>1. TypeOK /\ BuffersHold
  BY DEF Inv, BlockFits
<1>2. Len(fed) \in Nat /\ fed \in Seq(Chars) /\ Len(fed) <= MaxFed
  BY <1>1, LenProperties DEF TypeOK, BuffersHold
<1> DEFINE room == IF stage = "open" /\ MaxFed - Len(fed) < MaxChunk
                   THEN MaxFed - Len(fed) ELSE MaxChunk
<1>3. room \in Nat /\ room <= MaxChunk /\ (stage = "open" => room <= MaxFed - Len(fed))
  BY <1>2, Constants
<1>4. chunk \in Seq(Chars) /\ Len(chunk) \in Nat /\ Len(chunk) <= room
  <2>1. chunk \in BoundedSeq(Chars, room)
    BY DEF Chunks
  <2> HIDE DEF room
  <2>2. PICK n \in 0..room : chunk \in [1..n -> Chars]
    BY <2>1 DEF BoundedSeq, SeqOf
  <2>3. n \in Nat /\ n <= room
    BY <1>3, <2>2
  <2>4. chunk \in Seq(Chars) /\ Len(chunk) = n
    BY <2>2, <2>3
  <2> QED
    BY <2>3, <2>4
<1>5. chunk \in Seq(Chars \cup { Dangling }) /\ Len(chunk) <= MaxChunk
  <2>1. chunk \in Seq(Chars \cup { Dangling })
    BY <1>4, SeqMonotonic
  <2> QED
    BY <1>3, <1>4, <2>1, Constants
<1>6. fed' \in Seq(Chars) /\ Len(fed') <= MaxFed
  <2>1. CASE stage = "open"
    <3>1. fed' = fed \o chunk
      BY <2>1 DEF Update
    <3>2. fed \o chunk \in Seq(Chars) /\ Len(fed \o chunk) = Len(fed) + Len(chunk)
      BY <1>2, <1>4, ConcatProperties
    <3>3. Len(fed) + Len(chunk) <= MaxFed
      BY <1>2, <1>3, <1>4, <2>1, Constants
    <3> QED
      BY <3>1, <3>2, <3>3
  <2>2. CASE stage # "open"
    BY <2>2, Constants, EmptySeq DEF Update
  <2> QED
    BY <2>1, <2>2
<1> HIDE DEF room
<1>7. avail_in_expect' \in 0..MaxChunk /\ blockNo' \in 0..2 /\ progress' \in BOOLEAN
      /\ stage' \in { "open", "finished", "refused", "stale" }
      /\ mode' \in { "IDLE", "RUNNING", "FINISHING" }
  BY <1>1 DEF TypeOK, Update, estate
<1>8. input' = chunk /\ pc' = "loop" /\ call' = "update"
      /\ UNCHANGED << buf, state, rl, block, zbits >>
  BY DEF Update, estate
<1> QED
  BY <1>5, <1>6, <1>7, <1>8, CallMoves

LEMMA FinishKeepsInv ==
    ASSUME Inv, Finish
    PROVE  Inv'
<1>1. TypeOK /\ BuffersHold
  BY DEF Inv, BlockFits
<1> QED
  BY <1>1, CallMoves DEF Finish, TypeOK, BuffersHold, estate, history

LEMMA BzCompressKeepsInv ==
    ASSUME Inv, BzCompress
    PROVE  Inv'
<1>1. TypeOK /\ BuffersHold
  BY DEF Inv, BlockFits
<1>2. mode' \in { "RUNNING", "FINISHING" } /\ avail_in_expect' \in 0..MaxChunk
  <2>1. Len(input) \in 0..MaxChunk
    BY <1>1, LenProperties, Constants DEF TypeOK
  <2> QED
    BY <1>1, <2>1 DEF BzCompress, TypeOK
<1>3. pc' = "handle" /\ progress' = FALSE
      /\ UNCHANGED << call, input, buf, state, rl, block, blockNo, zbits, fed, stage >>
  BY DEF BzCompress, history
<1> QED
  BY <1>1, <1>2, <1>3, CallMoves DEF TypeOK, BuffersHold

-----------------------------------------------------------------------------
(* The loop of handle_compress.                                            *)

LEMMA OutOfInputKeepsInv ==
    ASSUME Inv, OutOfInput
    PROVE  Inv'
<1>1. TypeOK /\ BuffersHold
  BY DEF Inv, BlockFits
<1> QED
  BY <1>1, CallMoves DEF OutOfInput, TypeOK, BuffersHold, estate, history

\* Copying out fills the buffer at most to its end, and what begins a new block has finished
\* the old one.
LEMMA CopyOutputKeepsInv ==
    ASSUME Inv, CopyOutput
    PROVE  Inv'
<1>1. TypeOK /\ BuffersHold
  BY DEF Inv, BlockFits
<1> DEFINE left == numZ - state_out_pos
           n    == IF AvailOut < left THEN AvailOut ELSE left
           copied == [i \in 1..n |-> Zbyte(state_out_pos + i)]
<1>2. /\ numZ \in 0..(MaxZ + 2) /\ state_out_pos \in 0..numZ
      /\ buf \in Seq(ZBytes) /\ Len(buf) \in Nat /\ Len(buf) <= BufSize
  BY <1>1, LenProperties DEF TypeOK, BuffersHold
<1>3. n \in Nat /\ n <= left /\ n <= BufSize - Len(buf) /\ left \in Nat
  BY <1>2, Constants DEF AvailOut
<1>4. buf' = buf \o copied /\ progress' = (progress \/ n > 0)
  BY DEF CopyOutput
<1>5. \/ /\ state_out_pos' = state_out_pos + n
         /\ pc' = "called"
         /\ UNCHANGED << state, block, blockNo, numZ, trailer >>
      \/ /\ prepare_new_block
         /\ state' = "INPUT"
         /\ pc' = pc
  BY DEF CopyOutput
<1>6. pc = "handle" /\ state = "OUTPUT"
      /\ UNCHANGED << call, input, luabuf, mode, avail_in_expect, rl, history >>
  BY DEF CopyOutput
<1>7. buf' \in Seq(ZBytes) /\ Len(buf') <= BufSize
  <2> HIDE DEF n
  <2>1. \A i \in 1..n : Zbyte(state_out_pos + i) \in ZBytes
    BY <1>1, <1>2, <1>3, ZbyteType
  <2>2. copied \in [1..n -> ZBytes]
    BY <2>1
  <2>3. copied \in Seq(ZBytes) /\ Len(copied) = n
    BY <1>3, <2>2
  <2> HIDE DEF copied
  <2>4. buf \o copied \in Seq(ZBytes) /\ Len(buf \o copied) = Len(buf) + Len(copied)
    BY <1>2, <2>3, ConcatProperties
  <2> QED
    BY <1>2, <1>3, <1>4, <2>3, <2>4, Constants
<1> HIDE DEF n, copied
<1>8. progress' \in BOOLEAN
  BY <1>1, <1>3, <1>4 DEF TypeOK
<1>9. CASE /\ state_out_pos' = state_out_pos + n
           /\ pc' = "called"
           /\ UNCHANGED << state, block, blockNo, numZ, trailer >>
  <2>1. state_out_pos' \in 0..numZ
    BY <1>2, <1>3, <1>9
  <2>2. TypeOK'
    BY <1>1, <1>6, <1>7, <1>8, <1>9, <2>1 DEF TypeOK, rl, history
  <2>3. BlockFits' /\ BuffersHold'
    BY <1>1, <1>6, <1>7, <1>9, <2>2 DEF Inv, BlockFits, BuffersHold, history
  <2>4. HandlesOpenStream' /\ FillingBlock'
    BY <1>6, <1>9 DEF HandlesOpenStream, FillingBlock
  <2>5. FullBlockLeavesRun'
    BY <1>6, <1>9 DEF Inv, FullBlockLeavesRun, EmptyRL, rl
  <2> QED
    BY <2>3, <2>4, <2>5 DEF Inv
<1>10. CASE prepare_new_block /\ state' = "INPUT" /\ pc' = pc
  <2>1. /\ block' = << >> /\ block' \in Seq(0..MaxRun) /\ Len(block') = 0
        /\ blockNo' \in 0..2 /\ numZ' = 0 /\ state_out_pos' = 0 /\ trailer' \in BOOLEAN
    <3>1. << >> \in Seq(0..MaxRun) /\ Len(<< >>) = 0
      BY EmptySeq
    <3>2. /\ block' = << >> /\ blockNo' = 2
          /\ numZ' = 0 /\ state_out_pos' = 0 /\ trailer' = FALSE
      BY <1>10 DEF prepare_new_block
    <3>3. block' \in Seq(0..MaxRun) /\ Len(block') = 0
      BY <3>1, <3>2, Zenon
    <3>4. trailer' \in BOOLEAN
      BY <3>2, Zenon
    <3>5. blockNo' \in 0..2
      BY <3>2
    <3> QED
      BY <3>2, <3>3, <3>4, <3>5, Zenon
  <2>2. TypeOK'
    BY <1>1, <1>6, <1>7, <1>8, <1>10, <2>1, Constants DEF TypeOK, rl, history
  <2>3. BlockFits' /\ BuffersHold'
    BY <1>1, <1>6, <1>7, <2>1, <2>2, Constants DEF Inv, BlockFits, BuffersHold, history
  <2>4. HandlesOpenStream' /\ FillingBlock'
    BY <1>6, <1>10, <2>1, Constants DEF Inv, HandlesOpenStream, FillingBlock, BlockFull
  <2>5. FullBlockLeavesRun'
    BY <1>10 DEF FullBlockLeavesRun
  <2> QED
    BY <2>3, <2>4, <2>5 DEF Inv
<1> QED
  BY <1>5, <1>9, <1>10

\* A byte goes in only while the block is not full, so at most five go on top of the last but
\* one; and if they make it full, they leave a run of the one byte just read.
LEMMA CopyInputKeepsInv ==
    ASSUME Inv, CopyInput
    PROVE  Inv'
<1>1. TypeOK /\ BuffersHold /\ FillingBlock /\ HandlesOpenStream
  BY DEF Inv, BlockFits
<1>2. /\ pc = "handle" /\ state = "INPUT" /\ ~BlockFull /\ input # << >> /\ ~InputEnds
      /\ input' = Tail(input)
      /\ avail_in_expect' = IF mode = "RUNNING" THEN avail_in_expect ELSE avail_in_expect - 1
      /\ progress' = TRUE
      /\ UNCHANGED << pc, call, buf, luabuf, mode, state, blockNo, zbits, history >>
  BY DEF CopyInput
<1>3. /\ Head(input) \in Chars \cup { Dangling }
      /\ input' \in Seq(Chars \cup { Dangling }) /\ Len(input') <= MaxChunk
  <2>1. input \in Seq(Chars \cup { Dangling }) /\ Len(input) \in Nat /\ Len(input) <= MaxChunk
    BY <1>1, LenProperties DEF TypeOK
  <2>2. /\ Head(input) \in Chars \cup { Dangling }
        /\ Tail(input) \in Seq(Chars \cup { Dangling })
        /\ Len(Tail(input)) = Len(input) - 1
    BY <1>2, <2>1, HeadTailProperties
  <2> QED
    BY <1>2, <2>1, <2>2, Constants
<1>4. PICK c \in Chars :
        IF c # state_in_ch \/ state_in_len = MaxRun
        THEN block' = WithRun /\ state_in_ch' = c /\ state_in_len' = 1
        ELSE state_in_len' = state_in_len + 1 /\ UNCHANGED << block, state_in_ch >>
  <2>1. PICK c \in IF Head(input) = Dangling THEN Chars ELSE { Head(input) } :
          IF c # state_in_ch \/ state_in_len = MaxRun
          THEN block' = WithRun /\ state_in_ch' = c /\ state_in_len' = 1
          ELSE state_in_len' = state_in_len + 1 /\ UNCHANGED << block, state_in_ch >>
    BY DEF CopyInput
  <2>2. c \in Chars
    BY <1>3, <2>1
  <2> QED
    BY <2>1, <2>2
<1>5. avail_in_expect' \in 0..MaxChunk
  BY <1>1, <1>2, Constants DEF TypeOK, InputEnds
<1>6. Len(block) \in Nat /\ Len(block) < NBlockMax
  <2>1. Len(block) \in Nat
    BY <1>1, BlockWithRun
  <2> QED
    BY <1>2, <2>1, Constants DEF BlockFull
<1>7. /\ block' \in Seq(0..MaxRun)
      /\ Len(block') \in Nat /\ Len(block') <= NBlockMax + 4
      /\ state_in_ch' \in Chars /\ state_in_ch' # NoChar
      /\ state_in_len' \in 0..MaxRun
      /\ Len(block') >= NBlockMax => state_in_len' = 1
  <2>1. CASE c # state_in_ch \/ state_in_len = MaxRun
    <3>1. block' = WithRun /\ state_in_ch' = c /\ state_in_len' = 1
      BY <1>4, <2>1
    <3>2. WithRun \in Seq(0..MaxRun) /\ Len(WithRun) \in Nat /\ Len(WithRun) <= Len(block) + 5
      BY <1>1, BlockWithRun
    <3> QED
      BY <1>6, <3>1, <3>2, Constants
  <2>2. CASE ~(c # state_in_ch \/ state_in_len = MaxRun)
    <3>1. state_in_len' = state_in_len + 1 /\ block' = block /\ state_in_ch' = c
      BY <1>4, <2>2
    <3>2. state_in_len \in 0..MaxRun /\ state_in_len # MaxRun /\ block \in Seq(0..MaxRun)
      BY <1>1, <2>2 DEF TypeOK
    <3> QED
      BY <1>6, <3>1, <3>2, Constants
  <2> QED
    BY <2>1, <2>2
<1>8. TypeOK'
  BY <1>1, <1>2, <1>3, <1>5, <1>7 DEF TypeOK, zbits, history
<1>9. BlockFits' /\ BuffersHold'
  BY <1>1, <1>2, <1>7, <1>8, Constants DEF BlockFits, BuffersHold, history
<1>10. HandlesOpenStream'
  BY <1>1, <1>2 DEF HandlesOpenStream
<1>11. FillingBlock'
  BY <1>1, <1>2, <1>7 DEF FillingBlock, BlockFull, zbits
<1>12. FullBlockLeavesRun'
  BY <1>2 DEF FullBlockLeavesRun
<1> QED
  BY <1>9, <1>10, <1>11, <1>12 DEF Inv

\* What BZ2_compressBlock leaves in zbits.
LEMMA CompressedSize ==
    ASSUME NEW last \in BOOLEAN, CompressBlock(block', last)
    PROVE  numZ' \in 0..(MaxZ + 2)
<1>1. PICK n \in IF block' = << >> THEN { 0 } ELSE 1..MaxZ :
        numZ' = HeaderEnd + n + (IF last THEN 1 ELSE 0)
  BY DEF CompressBlock
<1> QED
  BY <1>1, Constants DEF HeaderEnd

\* A block that fits is compressed: if it is not the last one, a run is left to be counted.
LEMMA CompressKeepsInv ==
    ASSUME Inv, state = "INPUT",
           block' \in Seq(0..MaxRun), Len(block') <= NBlockMax + 5,
           numZ' \in 0..(MaxZ + 2), trailer' \in BOOLEAN, state' = "OUTPUT",
           state_in_ch' \in Chars \cup { NoChar }, state_in_len' \in 0..MaxRun,
           ~trailer' => state_in_ch' # NoChar /\ state_in_len' # 0,
           UNCHANGED << pc, call, input, buf, luabuf, mode, avail_in_expect, progress, history,
                        blockNo, state_out_pos >>
    PROVE  Inv'
<1>1. TypeOK /\ BuffersHold /\ HandlesOpenStream
  BY DEF Inv, BlockFits
<1>2. state_out_pos' \in 0..numZ'
  BY DEF Inv, FillingBlock
<1>3. TypeOK'
  BY <1>1, <1>2 DEF TypeOK, history
<1>4. BlockFits' /\ BuffersHold'
  BY <1>1, <1>3 DEF BlockFits, BuffersHold, history
<1>5. HandlesOpenStream' /\ FillingBlock'
  BY <1>1 DEF HandlesOpenStream, FillingBlock
<1>6. FullBlockLeavesRun'
  BY DEF FullBlockLeavesRun, EmptyRL
<1> QED
  BY <1>4, <1>5, <1>6 DEF Inv

\* The last run goes in without a look at the size: into a block that is not full it may put
\* five bytes, into a full one it puts only one.
LEMMA LastBlockKeepsInv ==
    ASSUME Inv, LastBlock
    PROVE  Inv'
<1>1. TypeOK /\ FillingBlock /\ HandlesOpenStream
  BY DEF Inv, BlockFits
<1>2. /\ pc = "handle" /\ state = "INPUT" /\ InputEnds
      /\ CompressBlock(WithRun, mode = "FINISHING")
      /\ state_in_ch' = NoChar /\ state_in_len' = 0
      /\ UNCHANGED << pc, call, input, buf, luabuf, mode, avail_in_expect, progress, history >>
  BY DEF LastBlock
<1>3. mode = "FINISHING"
  BY <1>1, <1>2 DEF TypeOK, HandlesOpenStream, InputEnds
<1>4. /\ block' = WithRun /\ trailer' = (mode = "FINISHING") /\ state' = "OUTPUT"
      /\ UNCHANGED << blockNo, state_out_pos >>
  BY <1>2 DEF CompressBlock
<1>5. trailer' = TRUE
  BY <1>3, <1>4
<1>6. CompressBlock(block', mode = "FINISHING")
  BY <1>2, <1>4
<1>7. numZ' \in 0..(MaxZ + 2)
  BY <1>6, CompressedSize
<1>8. block' \in Seq(0..MaxRun) /\ Len(block') <= NBlockMax + 5
  <2>1. /\ WithRun \in Seq(0..MaxRun) /\ Len(WithRun) \in Nat /\ Len(block) \in Nat
        /\ Len(WithRun) <= Len(block) + 5
        /\ state_in_len = 1 => Len(WithRun) <= Len(block) + 1
    BY <1>1, BlockWithRun
  <2>2. Len(block) <= NBlockMax + 4 /\ (Len(block) >= NBlockMax => state_in_len = 1)
    BY <1>1, <1>2 DEF FillingBlock, BlockFull
  <2> QED
    BY <1>4, <2>1, <2>2, Constants
<1>9. state_in_ch' \in Chars \cup { NoChar } /\ state_in_len' \in 0..MaxRun
  BY <1>2, Constants
<1> QED
  BY <1>2, <1>4, <1>5, <1>7, <1>8, <1>9, CompressKeepsInv

LEMMA FullBlockKeepsInv ==
    ASSUME Inv, FullBlock
    PROVE  Inv'
<1>1. TypeOK /\ FillingBlock
  BY DEF Inv, BlockFits
<1>2. /\ pc = "handle" /\ state = "INPUT" /\ BlockFull
      /\ CompressBlock(block, FALSE)
      /\ UNCHANGED << pc, call, input, buf, luabuf, mode, avail_in_expect, rl, progress, history >>
  BY DEF FullBlock
<1>3. /\ block' = block /\ trailer' = FALSE /\ state' = "OUTPUT"
      /\ UNCHANGED << blockNo, state_out_pos >>
  BY <1>2 DEF CompressBlock
<1>4. CompressBlock(block', FALSE)
  BY <1>2, <1>3
<1>5. numZ' \in 0..(MaxZ + 2)
  BY <1>4, CompressedSize
<1>6. block' \in Seq(0..MaxRun) /\ Len(block') <= NBlockMax + 5
  BY <1>3 DEF Inv, BlockFits, TypeOK
<1>7. /\ state_in_ch' \in Chars \cup { NoChar } /\ state_in_len' \in 0..MaxRun
      /\ state_in_ch' # NoChar /\ state_in_len' # 0
  BY <1>1, <1>2 DEF TypeOK, FillingBlock, rl
<1> QED
  BY <1>2, <1>3, <1>5, <1>6, <1>7, CompressKeepsInv

-----------------------------------------------------------------------------
(* The theorems about blocks.                                             *)

LEMMA InvInit == Init => Inv
<1> SUFFICES ASSUME Init PROVE Inv
  OBVIOUS
<1>1. /\ input = << >> /\ buf = << >> /\ block = << >> /\ fed = << >>
      /\ state = "INPUT" /\ pc = "none" /\ state_out_pos = 0
  BY DEF Init
<1>2. /\ input \in Seq(Chars \cup { Dangling }) /\ Len(input) = 0
      /\ buf \in Seq(ZBytes) /\ Len(buf) = 0
      /\ block \in Seq(0..MaxRun) /\ Len(block) = 0
      /\ fed \in Seq(Chars) /\ Len(fed) = 0
  BY <1>1, EmptySeq
<1>3. TypeOK
  <2>1. /\ pc = "none" /\ call = "none" /\ mode = "IDLE" /\ state = "INPUT"
        /\ avail_in_expect = 0 /\ state_in_ch = NoChar /\ state_in_len = 0 /\ blockNo = 0
        /\ numZ = 0 /\ state_out_pos = 0 /\ stage = "stale"
    BY DEF Init
  <2>2. trailer \in BOOLEAN /\ progress \in BOOLEAN
    BY Zenon DEF Init
  <2>3. avail_in_expect \in 0..MaxChunk /\ state_in_len \in 0..MaxRun /\ blockNo \in 0..2
        /\ numZ \in 0..(MaxZ + 2) /\ state_out_pos \in 0..numZ
    BY <2>1, Constants
  <2>4. Len(input) <= MaxChunk /\ Len(buf) <= BufSize /\ Len(fed) <= MaxFed
    BY <1>2, Constants
  <2> QED
    BY <1>2, <2>1, <2>2, <2>3, <2>4 DEF TypeOK
<1>4. BlockFits /\ BuffersHold
  BY <1>2, <1>3, Constants DEF BlockFits, BuffersHold
<1>5. HandlesOpenStream /\ FillingBlock /\ FullBlockLeavesRun
  BY <1>1, <1>2, Constants DEF HandlesOpenStream, FillingBlock, FullBlockLeavesRun, BlockFull
<1> QED
  BY <1>4, <1>5 DEF Inv

LEMMA InvStep == Inv /\ [Next]_vars => Inv'
<1> SUFFICES ASSUME Inv, [Next]_vars PROVE Inv'
  OBVIOUS
<1>1. CASE Caller
  BY <1>1, CreateKeepsInv, UpdateKeepsInv, FinishKeepsInv DEF Caller
<1>2. CASE System
  <2>1. CASE UpdateReturns \/ BzCompress \/ OutOfSequence
    BY <2>1, UpdateReturnsKeepsInv, BzCompressKeepsInv, OutOfSequenceKeepsInv
  <2>2. CASE CopyOutput \/ CopyInput
    BY <2>2, CopyOutputKeepsInv, CopyInputKeepsInv
  <2>3. CASE LastBlock \/ FullBlock \/ OutOfInput
    BY <2>3, LastBlockKeepsInv, FullBlockKeepsInv, OutOfInputKeepsInv
  <2>4. CASE GoOn \/ FinishReturns
    BY <2>4, GoOnKeepsInv, FinishReturnsKeepsInv
  <2> QED
    BY <1>2, <2>1, <2>2, <2>3, <2>4 DEF System
<1>3. CASE UNCHANGED vars
  <2>1. TypeOK /\ BuffersHold /\ HandlesOpenStream
    BY DEF Inv, BlockFits
  <2> QED
    BY <1>3, <2>1, CallMoves
       DEF vars, estate, history, TypeOK, BuffersHold, HandlesOpenStream
<1> QED
  BY <1>1, <1>2, <1>3 DEF Next

LEMMA InvHolds == Spec => []Inv
BY InvInit, InvStep, PTL DEF Spec

\* Whatever the text and the chunks, no block outgrows its memory: add_pair_to_block writes
\* without a check (bzlib.c:216-257), up to five bytes behind nblockMAX, 19 bytes before the end.
THEOREM BlocksFitTheirMemory == Spec => []BlockFits
<1>1. Inv => BlockFits
  BY DEF Inv
<1> QED
  BY <1>1, InvHolds, PTL

\* A full block always leaves a run to be counted, so handle_compress never takes it for the
\* last one (bzlib.c:373-375) and no stream ends without its last block and its trailer.
THEOREM LastBlockIsRecognised == Spec => []FullBlockLeavesRun
<1>1. Inv => FullBlockLeavesRun
  BY DEF Inv
<1> QED
  BY <1>1, InvHolds, PTL

-----------------------------------------------------------------------------
(* Reading a block: ReadRuns is a fold, so it is known by its equations.    *)

Bytes == 0..MaxRun

ReadStep(acc, b) ==
    IF acc.n = 4
    THEN [text |-> acc.text \o [i \in 1..b |-> acc.ch], ch |-> -1, n |-> 0]
    ELSE [text |-> Append(acc.text, b), ch |-> b, n |-> IF b = acc.ch THEN acc.n + 1 ELSE 1]

NothingRead == [text |-> << >>, ch |-> -1, n |-> 0]

Reader == INSTANCE FoldLemmas WITH Op <- ReadStep

LEMMA ReadRunsIsFold ==
    ASSUME NEW q
    PROVE  ReadRuns(q) = Reader!Fold(NothingRead, q)
BY DEF ReadRuns, NothingRead, ReadStep, FoldLeft, MapThenFoldSet, Max,
       Reader!Fold, Reader!MapThenFoldSet, Reader!Last

\* What a reader can have read: it looks for a byte to be repeated exactly if there was one.
Readings ==
    { acc \in [text : Seq(Bytes), ch : Bytes \cup { -1 }, n : 0..4] : acc.n = 0 <=> acc.ch = -1 }

\* n times the byte ch.
Copies(ch, n) == [i \in 1..n |-> ch]

LEMMA CopiesType ==
    ASSUME NEW S, NEW ch \in S, NEW n \in Nat
    PROVE  Copies(ch, n) \in Seq(S) /\ Len(Copies(ch, n)) = n
<1>1. Copies(ch, n) \in [1..n -> S]
  BY DEF Copies
<1> QED
  BY <1>1

LEMMA CopiesAppend ==
    ASSUME NEW S, NEW ch \in S, NEW n \in Nat
    PROVE  Append(Copies(ch, n), ch) = Copies(ch, n + 1)
<1>1. /\ Copies(ch, n) \in Seq(S) /\ Len(Copies(ch, n)) = n
      /\ Copies(ch, n + 1) \in Seq(S) /\ Len(Copies(ch, n + 1)) = n + 1
  BY CopiesType
<1>2. /\ \A i \in 1..n : Copies(ch, n)[i] = ch
      /\ \A i \in 1..(n + 1) : Copies(ch, n + 1)[i] = ch
  BY DEF Copies
<1> DEFINE r == Append(Copies(ch, n), ch)
<1>3. /\ r \in Seq(S) /\ Len(r) = n + 1
      /\ \A i \in 1..n : r[i] = Copies(ch, n)[i]
      /\ r[n + 1] = ch
  BY <1>1, AppendProperties
<1>4. \A i \in 1..(n + 1) : r[i] = Copies(ch, n + 1)[i]
  BY <1>2, <1>3
<1> HIDE DEF r
<1>5. r = Copies(ch, n + 1)
  BY <1>1, <1>3, <1>4, SeqEqual
<1> QED
  BY <1>5 DEF r

LEMMA NoCopies == ASSUME NEW ch PROVE Copies(ch, 0) = << >>
<1>1. Copies(ch, 0) \in Seq({ ch }) /\ Len(Copies(ch, 0)) = 0
  BY CopiesType
<1> QED
  BY <1>1, EmptySeq

\* Reading keeps to the readings there are.
LEMMA ReadStepType ==
    ASSUME NEW acc \in Readings, NEW b \in Bytes
    PROVE  ReadStep(acc, b) \in Readings
<1>1. /\ acc.text \in Seq(Bytes) /\ acc.ch \in Bytes \cup { -1 } /\ acc.n \in 0..4
      /\ acc.n = 0 <=> acc.ch = -1
  BY DEF Readings
<1>2. b \in Nat /\ MaxRun \in Nat
  BY Constants DEF Bytes
<1>3. CASE acc.n = 4
  <2>1. acc.ch \in Bytes
    BY <1>1, <1>3
  <2>2. Copies(acc.ch, b) \in Seq(Bytes)
    BY <1>2, <2>1, CopiesType
  <2>3. acc.text \o Copies(acc.ch, b) \in Seq(Bytes)
    BY <1>1, <2>2, ConcatProperties
  <2>4. ReadStep(acc, b) = [text |-> acc.text \o Copies(acc.ch, b), ch |-> -1, n |-> 0]
    BY <1>3 DEF ReadStep, Copies
  <2> QED
    BY <2>3, <2>4 DEF Readings
<1>4. CASE acc.n # 4
  <2>1. Append(acc.text, b) \in Seq(Bytes)
    BY <1>1, AppendProperties
  <2> DEFINE k == IF b = acc.ch THEN acc.n + 1 ELSE 1
  <2>2. k \in 1..4
    BY <1>1, <1>4
  <2>3. ReadStep(acc, b) = [text |-> Append(acc.text, b), ch |-> b, n |-> k]
    BY <1>4 DEF ReadStep
  <2>4. b # -1
    BY <1>2
  <2> HIDE DEF k
  <2> QED
    BY <2>1, <2>2, <2>3, <2>4 DEF Readings
<1> QED
  BY <1>3, <1>4

LEMMA NothingReadType == NothingRead \in Readings
BY EmptySeq DEF NothingRead, Readings

LEMMA ReadType ==
    ASSUME NEW q \in Seq(Bytes)
    PROVE  ReadRuns(q) \in Readings
<1>1. \A acc \in Readings, b \in Bytes : ReadStep(acc, b) \in Readings
  BY ReadStepType
<1>2. Reader!Fold(NothingRead, q) \in Readings
  BY <1>1, NothingReadType, Reader!FoldType
<1> QED
  BY <1>2, ReadRunsIsFold

LEMMA ReadEmpty == ReadRuns(<< >>) = NothingRead
BY ReadRunsIsFold, Reader!FoldEmpty

LEMMA ReadAppend ==
    ASSUME NEW q \in Seq(Bytes), NEW b \in Bytes
    PROVE  ReadRuns(Append(q, b)) = ReadStep(ReadRuns(q), b)
BY ReadRunsIsFold, Reader!FoldAppend

LEMMA UnRLEType ==
    ASSUME NEW q \in Seq(Bytes)
    PROVE  UnRLE(q) \in Seq(Bytes)
BY ReadType DEF UnRLE, Readings

LEMMA UnRLEEmpty == UnRLE(<< >>) = << >>
BY ReadEmpty DEF UnRLE, NothingRead

LEMMA OneMoreCopy ==
    ASSUME NEW S, NEW q \in Seq(S), NEW ch \in S, NEW n \in Nat
    PROVE  /\ Cat(q, Copies(ch, n)) \in Seq(S)
           /\ Cat(q, Copies(ch, n + 1)) = Append(Cat(q, Copies(ch, n)), ch)
<1> DEFINE c == Copies(ch, n)
           d == Copies(ch, n + 1)
           e == << ch >>
<1>0. e \in Seq(S)
  OBVIOUS
<1>1. c \in Seq(S) /\ d = Append(c, ch)
  BY CopiesType, CopiesAppend
<1> HIDE DEF c, d
<1>2. d = Cat(c, e) /\ Cat(q, c) \in Seq(S)
  BY <1>0, <1>1, CatType, AppendIsConcat DEF Cat
<1>3. Append(Cat(q, c), ch) = Cat(Cat(q, c), e)
  BY <1>2, AppendIsConcat DEF Cat
<1> HIDE DEF e
<1>4. Cat(q, d) = Cat(Cat(q, c), e)
  BY <1>0, <1>1, <1>2, CatAssoc
<1> QED
  BY <1>2, <1>3, <1>4 DEF c, d

LEMMA OneCopy ==
    ASSUME NEW S, NEW q \in Seq(S), NEW ch \in S
    PROVE  Cat(q, Copies(ch, 1)) = Append(q, ch)
<1>1. Cat(q, Copies(ch, 0 + 1)) = Append(Cat(q, Copies(ch, 0)), ch)
  BY OneMoreCopy
<1> QED
  BY <1>1, NoCopies, CatEmpty

\* Up to four equal bytes are read as they are, unless there were some of them before.
LEMMA ReadCopies ==
    ASSUME NEW q \in Seq(Bytes), NEW ch \in Bytes, NEW k \in 1..4,
           ReadRuns(q).n # 4, ReadRuns(q).ch # ch
    PROVE  ReadRuns(Cat(q, Copies(ch, k)))
             = [text |-> Cat(UnRLE(q), Copies(ch, k)), ch |-> ch, n |-> k]
<1> DEFINE u == UnRLE(q)
           R(j) == [text |-> Cat(u, Copies(ch, j)), ch |-> ch, n |-> j]
           P(j) == ReadRuns(Cat(q, Copies(ch, j))) = R(j)
<1>0. u \in Seq(Bytes) /\ ReadRuns(q).text = u
  BY UnRLEType DEF UnRLE
<1> HIDE DEF u
<1>2. P(1)
  <2>1. Cat(q, Copies(ch, 1)) = Append(q, ch)
    BY OneCopy
  <2>2. Cat(u, Copies(ch, 1)) = Append(u, ch)
    BY <1>0, OneCopy
  <2>3. ReadRuns(Append(q, ch)) = ReadStep(ReadRuns(q), ch)
    BY ReadAppend
  <2> QED
    BY <1>0, <2>1, <2>2, <2>3 DEF ReadStep
<1>3. ASSUME NEW j \in 1..3, P(j) PROVE P(j + 1)
  <2>1. j \in Nat
    OBVIOUS
  <2>2. /\ Cat(q, Copies(ch, j)) \in Seq(Bytes)
        /\ Cat(q, Copies(ch, j + 1)) = Append(Cat(q, Copies(ch, j)), ch)
    BY <2>1, OneMoreCopy
  <2>3. Cat(u, Copies(ch, j + 1)) = Append(Cat(u, Copies(ch, j)), ch)
    BY <1>0, <2>1, OneMoreCopy
  <2>4. ReadRuns(Cat(q, Copies(ch, j + 1))) = ReadStep(R(j), ch)
    BY <1>3, <2>2, ReadAppend
  <2>5. ReadStep(R(j), ch) = [text |-> Append(Cat(u, Copies(ch, j)), ch), ch |-> ch, n |-> j + 1]
    BY <2>1 DEF ReadStep
  <2> QED
    BY <2>3, <2>4, <2>5
<1> HIDE DEF P
<1>4. P(2) /\ P(3) /\ P(4)
  <2>1. P(1 + 1)
    BY <1>2, <1>3
  <2>2. P(2 + 1)
    BY <2>1, <1>3
  <2>3. P(3 + 1)
    BY <2>2, <1>3
  <2> QED
    BY <2>1, <2>2, <2>3
<1>5. k = 1 \/ k = 2 \/ k = 3 \/ k = 4
  OBVIOUS
<1> QED
  BY <1>2, <1>4, <1>5 DEF P, u

\* Two runs of the same byte make one.
LEMMA CopiesCat ==
    ASSUME NEW S, NEW ch \in S, NEW m \in Nat, NEW n \in Nat
    PROVE  Cat(Copies(ch, m), Copies(ch, n)) = Copies(ch, m + n)
<1> DEFINE T == { k \in Nat : Cat(Copies(ch, m), Copies(ch, k)) = Copies(ch, m + k) }
<1>0. Copies(ch, m) \in Seq(S)
  BY CopiesType
<1>1. 0 \in T
  BY <1>0, NoCopies, CatEmpty
<1>2. ASSUME NEW k \in Nat, k \in T PROVE k + 1 \in T
  <2>1. Cat(Copies(ch, m), Copies(ch, k + 1)) = Append(Cat(Copies(ch, m), Copies(ch, k)), ch)
    BY <1>0, OneMoreCopy
  <2>2. m + k \in Nat /\ (m + k) + 1 = m + (k + 1)
    OBVIOUS
  <2>3. Append(Copies(ch, m + k), ch) = Copies(ch, (m + k) + 1)
    BY <2>2, CopiesAppend
  <2> QED
    BY <1>2, <2>1, <2>2, <2>3
<1> HIDE DEF T
<1>3. Nat \subseteq T
  BY <1>1, <1>2, NatInductionInSet
<1> QED
  BY <1>3 DEF T

\* The run a block is given is read back whole, and what is read next is another byte or
\* stands after the count of the run.
LEMMA ReadEncodedRun ==
    ASSUME NEW q \in Seq(Bytes), NEW ch \in Bytes, NEW n \in Nat \ { 0 }, n <= MaxRun,
           ReadRuns(q).n # 4, ReadRuns(q).ch # ch
    PROVE  ReadRuns(q \o EncodedRun(ch, n))
             = [text |-> Cat(UnRLE(q), Copies(ch, n)),
                ch   |-> IF n < 4 THEN ch ELSE -1,
                n    |-> IF n < 4 THEN n ELSE 0]
<1>1. CASE n < 4
  <2>1. n \in 1..4
    BY <1>1
  <2>2. q \o EncodedRun(ch, n) = Cat(q, Copies(ch, n))
    BY <1>1 DEF EncodedRun, Copies, Cat
  <2> QED
    BY <1>1, <2>1, <2>2, ReadCopies
<1>2. CASE ~(n < 4)
  <2> DEFINE rest == n - 4
             four == Cat(q, Copies(ch, 4))
             u == UnRLE(q)
  <2>1. rest \in Bytes /\ rest \in Nat /\ 4 \in Nat /\ 4 + rest = n
    BY <1>2, Constants DEF Bytes
  <2>2. Copies(ch, 4) \in Seq(Bytes) /\ Copies(ch, rest) \in Seq(Bytes) /\ u \in Seq(Bytes)
    BY <2>1, CopiesType, UnRLEType
  <2>3. four \in Seq(Bytes)
    BY <2>2, CatType
  <2>4. EncodedRun(ch, n) = Append(Copies(ch, 4), rest)
    <3>1. EncodedRun(ch, n) = << ch, ch, ch, ch, rest >>
      BY <1>2 DEF EncodedRun
    <3>2. Copies(ch, 4) = << ch, ch, ch, ch >>
      BY DEF Copies
    <3> DEFINE run == << ch, ch, ch, ch >>
               five == << ch, ch, ch, ch, rest >>
               r == Append(run, rest)
    <3>3. /\ run \in Seq(Bytes) /\ Len(run) = 4 /\ \A i \in 1..4 : run[i] = five[i]
          /\ five \in Seq(Bytes) /\ Len(five) = 5 /\ five[5] = rest
      BY <2>1
    <3> HIDE DEF run, five, rest
    <3>4. run \in Seq(Bytes) /\ rest \in Bytes
      BY <2>1, <3>3
    <3>5. /\ r \in Seq(Bytes) /\ Len(r) = Len(run) + 1 /\ r[Len(run) + 1] = rest
          /\ \A i \in 1..Len(run) : r[i] = run[i]
      BY <3>4, AppendProperties
    <3> HIDE DEF r
    <3>6. Len(r) = Len(five) /\ \A i \in 1..Len(r) : r[i] = five[i]
      BY <3>3, <3>5
    <3>7. r = five
      BY <3>3, <3>5, <3>6, SeqEqual
    <3> QED
      BY <3>1, <3>2, <3>7, Zenon DEF r, run, five
  <2>5. q \o EncodedRun(ch, n) = Append(four, rest)
    BY <2>1, <2>2, <2>4, CatAppend DEF Cat
  <2>6. ReadRuns(four) = [text |-> Cat(u, Copies(ch, 4)), ch |-> ch, n |-> 4]
    BY ReadCopies
  <2>7. ReadRuns(Append(four, rest)) = ReadStep(ReadRuns(four), rest)
    BY <2>1, <2>3, ReadAppend
  <2> HIDE DEF rest, four, u
  <2>8. ReadStep(ReadRuns(four), rest)
          = [text |-> Cat(Cat(u, Copies(ch, 4)), Copies(ch, rest)), ch |-> -1, n |-> 0]
    BY <2>6 DEF ReadStep, Cat, Copies
  <2>9. Cat(Cat(u, Copies(ch, 4)), Copies(ch, rest)) = Cat(u, Cat(Copies(ch, 4), Copies(ch, rest)))
    BY <2>2, CatAssoc
  <2>10. Cat(Copies(ch, 4), Copies(ch, rest)) = Copies(ch, n)
    <3>1. Cat(Copies(ch, 4), Copies(ch, rest)) = Copies(ch, 4 + rest)
      BY <2>1, CopiesCat
    <3> QED
      BY <2>1, <3>1
  <2> QED
    BY <1>2, <2>5, <2>7, <2>8, <2>9, <2>10 DEF u
<1> QED
  BY <1>1, <1>2

-----------------------------------------------------------------------------
(* The text of compressed data.                                            *)

ByteText(b) == IF b.part = "block" /\ IsLast(b) THEN UnRLE(b.block) ELSE << >>

Texts(z) == [i \in 1..Len(z) |-> ByteText(z[i])]

LEMMA ByteTextType ==
    ASSUME NEW b \in ZBytes
    PROVE  ByteText(b) \in Seq(Bytes)
<1>1. b.block \in Seq(Bytes)
  BY DEF ZBytes, Bytes
<1> QED
  BY <1>1, UnRLEType, EmptySeq DEF ByteText

LEMMA TextsType ==
    ASSUME NEW z \in Seq(ZBytes)
    PROVE  Texts(z) \in Seq(Seq(Bytes)) /\ Len(Texts(z)) = Len(z)
<1>1. \A i \in 1..Len(z) : ByteText(z[i]) \in Seq(Bytes)
  BY ElementOfSeq, ByteTextType
<1>2. Texts(z) \in [1..Len(z) -> Seq(Bytes)] /\ Len(z) \in Nat
  BY <1>1, LenProperties DEF Texts
<1> QED
  BY <1>2

LEMMA TextOfType ==
    ASSUME NEW z \in Seq(ZBytes)
    PROVE  TextOf(z) \in Seq(Bytes) /\ TextOf(z) = FlattenSeq(Texts(z))
<1>1. TextOf(z) = FlattenSeq(Texts(z))
  BY DEF TextOf, Texts, ByteText
<1> QED
  BY <1>1, TextsType, FlattenType

LEMMA TextOfEmpty == TextOf(<< >>) = << >>
<1>1. << >> \in Seq(ZBytes) /\ Len(<< >>) = 0
  BY EmptySeq
<1>2. Texts(<< >>) = << >>
  BY <1>1, TextsType, EmptySeq
<1> QED
  BY <1>1, <1>2, TextOfType, FlattenEmpty

\* Data that is joined has the joined text.
LEMMA TextOfCat ==
    ASSUME NEW y \in Seq(ZBytes), NEW z \in Seq(ZBytes)
    PROVE  TextOf(Cat(y, z)) = Cat(TextOf(y), TextOf(z))
<1> DEFINE yz == Cat(y, z)
           s == Texts(yz)
           t == Cat(Texts(y), Texts(z))
<1>1. /\ yz \in Seq(ZBytes) /\ Len(yz) = Len(y) + Len(z)
      /\ Len(y) \in Nat /\ Len(z) \in Nat
      /\ \A i \in 1..Len(yz) : yz[i] = IF i <= Len(y) THEN y[i] ELSE z[i - Len(y)]
  BY ConcatProperties, LenProperties DEF Cat
<1>2. /\ Texts(y) \in Seq(Seq(Bytes)) /\ Len(Texts(y)) = Len(y)
      /\ Texts(z) \in Seq(Seq(Bytes)) /\ Len(Texts(z)) = Len(z)
      /\ s \in Seq(Seq(Bytes)) /\ Len(s) = Len(yz)
  BY <1>1, TextsType
<1>3. /\ t \in Seq(Seq(Bytes)) /\ Len(t) = Len(y) + Len(z)
      /\ \A i \in 1..Len(t) : t[i] = IF i <= Len(y) THEN Texts(y)[i] ELSE Texts(z)[i - Len(y)]
  <2> DEFINE a == Texts(y)
             b == Texts(z)
  <2> HIDE DEF a, b
  <2>1. /\ a \in Seq(Seq(Bytes)) /\ Len(a) = Len(y)
        /\ b \in Seq(Seq(Bytes)) /\ Len(b) = Len(z)
    BY <1>2 DEF a, b
  <2>2. /\ Cat(a, b) \in Seq(Seq(Bytes)) /\ Len(Cat(a, b)) = Len(y) + Len(z)
        /\ \A i \in 1..Len(Cat(a, b)) : Cat(a, b)[i] = IF i <= Len(a) THEN a[i] ELSE b[i - Len(a)]
    <3> DEFINE c == a \o b
    <3>1. /\ c \in Seq(Seq(Bytes)) /\ Len(c) = Len(a) + Len(b)
          /\ \A i \in 1..(Len(a) + Len(b)) : c[i] = IF i <= Len(a) THEN a[i] ELSE b[i - Len(a)]
      BY <2>1, ConcatProperties
    <3> HIDE DEF c
    <3>2. Cat(a, b) = c
      BY DEF Cat, c
    <3> QED
      BY <2>1, <3>1, <3>2
  <2> QED
    BY <2>1, <2>2 DEF a, b
<1>4. \A i \in 1..Len(s) : s[i] = t[i]
  <2> TAKE i \in 1..Len(s)
  <2>1. i \in 1..Len(yz) /\ i \in 1..Len(t) /\ i \in Nat
    BY <1>1, <1>2, <1>3
  <2>2. s[i] = ByteText(yz[i])
    BY <2>1 DEF Texts
  <2>3. CASE i <= Len(y)
    <3>1. i \in 1..Len(y)
      BY <2>1, <2>3
    <3>2. Texts(y)[i] = ByteText(y[i])
      BY <3>1 DEF Texts
    <3> QED
      BY <1>1, <1>3, <2>1, <2>2, <2>3, <3>2
  <2>4. CASE ~(i <= Len(y))
    <3>1. i - Len(y) \in 1..Len(z)
      BY <1>1, <2>1, <2>4
    <3>2. Texts(z)[i - Len(y)] = ByteText(z[i - Len(y)])
      BY <3>1 DEF Texts
    <3> QED
      BY <1>1, <1>3, <2>1, <2>2, <2>4, <3>2
  <2> QED
    BY <2>3, <2>4
<1>5. s = t
  <2> HIDE DEF s, t, yz
  <2> QED
    BY <1>1, <1>2, <1>3, <1>4, SeqEqual
<1> HIDE DEF yz
<1>6. TextOf(yz) = FlattenSeq(t)
  BY <1>1, <1>5, TextOfType
<1>7. FlattenSeq(t) = Cat(FlattenSeq(Texts(y)), FlattenSeq(Texts(z)))
  BY <1>2, FlattenConcat
<1> QED
  BY <1>6, <1>7, TextOfType DEF yz

\* One more byte adds its text.
LEMMA TextOfAppend ==
    ASSUME NEW z \in Seq(ZBytes), NEW b \in ZBytes
    PROVE  TextOf(Append(z, b)) = Cat(TextOf(z), ByteText(b))
<1> DEFINE e == << b >>
           f == << ByteText(b) >>
<1>1. e \in Seq(ZBytes) /\ Len(e) = 1 /\ e[1] = b
  BY DEF ZBytes
<1>2. Append(z, b) = Cat(z, e)
  BY AppendIsConcat DEF Cat
<1>3. Texts(e) = f
  BY <1>1 DEF Texts
<1>4. TextOf(e) = ByteText(b)
  <2>1. f = Append(<< >>, ByteText(b))
    OBVIOUS
  <2>2. /\ << >> \in Seq(Seq(Bytes)) /\ FlattenSeq(<< >>) = << >> /\ << >> \in Seq(Bytes)
        /\ ByteText(b) \in Seq(Bytes)
    BY EmptySeq, FlattenEmpty, ByteTextType
  <2> HIDE DEF e, f
  <2>3. FlattenSeq(f) = Cat(<< >>, ByteText(b))
    BY <2>1, <2>2, FlattenAppend
  <2> QED
    BY <1>1, <1>3, <2>2, <2>3, TextOfType, CatEmpty
<1> HIDE DEF e
<1> QED
  BY <1>1, <1>2, <1>4, TextOfCat

-----------------------------------------------------------------------------
(* The invariant behind NothingLost.                                       *)

\* What the stream has come to: returned, in luabuf, or in the buffer.
Made == Cat(Cat(out, luabuf), buf)

\* The part of the block that has not come out: the text of a block counts with its last byte.
Pending == IF state = "OUTPUT" /\ state_out_pos >= BlockEnd THEN << >> ELSE UnRLE(block)

StreamsHold ==
    /\ out \in Seq(ZBytes) /\ luabuf \in Seq(ZBytes)
    /\ stage = "open" => input \in Seq(Chars)

\* Before the stream is created, the object is as it was allocated.
Fresh == pc = "none" => Init

\* No run is counted exactly if its length is zero.
OneRun == state_in_ch = NoChar <=> state_in_len = 0

\* While a block is filled, the counted run can be put into it: a reader of the block expects
\* no count, and does not take the run for the rest of one of up to three bytes.
ReaderReady ==
    state = "INPUT" =>
        /\ ReadRuns(block).n # 4
        /\ state_in_ch # NoChar => ReadRuns(block).ch # state_in_ch
        /\ state_in_ch = NoChar => block = << >>

\* A compressed block takes at least a byte, and only the last one may be empty.
ZbitsHold ==
    state = "OUTPUT" =>
        /\ numZ >= 1 /\ BlockEnd >= HeaderEnd /\ (BlockEnd = HeaderEnd <=> block = << >>)
        /\ ~trailer => block # << >>

\* The order of the calls, in a stream that nobody has broken off.
InOrder ==
    stage = "open" =>
        /\ blockNo \in { 1, 2 }
        /\ pc # "none" /\ (pc # "idle" => call \in { "update", "finish" })
        /\ mode \in { "RUNNING", "FINISHING" }
        /\ pc = "idle" => mode = "RUNNING" /\ input = << >> /\ buf = << >> /\ luabuf = << >>
        /\ mode = "FINISHING" => call = "finish" /\ avail_in_expect = Len(input)
        /\ mode = "RUNNING" /\ call = "finish" => pc = "loop"
        /\ trailer => state = "OUTPUT" /\ mode = "FINISHING" /\ avail_in_expect = 0 /\ EmptyRL
        /\ pc = "called" /\ state = "INPUT" => mode = "RUNNING"

\* Every call of BZ2_bzCompress finds something to do, and does it.
Moves ==
    stage = "open" =>
        /\ pc \in { "idle", "loop" } \/ (pc = "handle" /\ ~progress) =>
               Len(buf) < BufSize /\ (state = "OUTPUT" => state_out_pos < numZ)
        /\ pc = "handle" /\ ~progress /\ state = "INPUT" => input # << >> \/ InputEnds
        /\ pc = "called" => progress
        /\ pc = "called" /\ state = "OUTPUT" /\ ~trailer => state_out_pos < numZ

\* z ends where the compressor has come to: at the last byte of zbits that was copied out, or
\* at the end of the block before.
EndsHere(z) ==
    IF state = "OUTPUT" /\ state_out_pos > 0
    THEN z # << >> /\ z[Len(z)] = Zbyte(state_out_pos)
    ELSE IF blockNo = 1 THEN z = << >>
    ELSE z # << >> /\ IsLast(z[Len(z)]) /\ z[Len(z)].part # "trailer"

\* What has been made is the beginning of a stream, up to where the compressor is.
StreamSoFar == stage = "open" => StreamPrefix(Made) /\ EndsHere(Made)

TextInv ==
    /\ StreamsHold /\ Fresh
    /\ OneRun /\ ReaderReady /\ ZbitsHold
    /\ InOrder /\ Moves
    /\ StreamSoFar /\ NothingLost

-----------------------------------------------------------------------------
(* Compressed data and its text.                                           *)

LEMMA NothingLostIs ==
    NothingLost <=>
        (stage = "open" =>
            Cat(Cat(Cat(TextOf(Made), Pending), Copies(state_in_ch, state_in_len)), input) = fed)
BY DEF NothingLost, Made, Pending, Copies, Cat

\* Data that follows on the beginning of a stream makes a longer beginning.
LEMMA PrefixExtends ==
    ASSUME NEW z \in Seq(ZBytes), NEW w \in Seq(ZBytes), StreamPrefix(z), w # << >>,
           \A i \in 1..Len(w) : w[i].sound /\ w[i].part \in { "header", "block", "trailer" },
           \A i \in 1..(Len(w) - 1) : Follows(w[i], w[i + 1]),
           z = << >> => w[1].part = "header" /\ w[1].pos = 1,
           z # << >> => Follows(z[Len(z)], w[1])
    PROVE  StreamPrefix(Cat(z, w))
<1> DEFINE y == Cat(z, w)
<1>1. /\ y \in Seq(ZBytes) /\ Len(y) = Len(z) + Len(w)
      /\ Len(z) \in Nat /\ Len(w) \in Nat /\ Len(w) >= 1
      /\ z = << >> <=> Len(z) = 0
      /\ \A i \in 1..(Len(z) + Len(w)) : y[i] = IF i <= Len(z) THEN z[i] ELSE w[i - Len(z)]
  BY ConcatProperties, LenProperties, EmptySeq DEF Cat
<1> HIDE DEF y
<1>2. /\ \A i \in 1..Len(z) : z[i].sound /\ z[i].part \in { "header", "block", "trailer" }
      /\ z # << >> => z[1].part = "header" /\ z[1].pos = 1
      /\ \A i \in 1..(Len(z) - 1) : Follows(z[i], z[i + 1])
  BY DEF StreamPrefix
<1>3. \A i \in 1..Len(y) : y[i].sound /\ y[i].part \in { "header", "block", "trailer" }
  BY <1>1, <1>2
<1>4. y[1].part = "header" /\ y[1].pos = 1
  <2>1. CASE z = << >>
    BY <1>1, <2>1
  <2>2. CASE z # << >>
    BY <1>1, <1>2, <2>2
  <2> QED
    BY <2>1, <2>2
<1>5. ASSUME NEW i \in 1..(Len(y) - 1) PROVE Follows(y[i], y[i + 1])
  <2>0. i \in Nat /\ i >= 1 /\ i + 1 <= Len(z) + Len(w)
    BY <1>1
  <2>1. CASE i < Len(z)
    <3>1. y[i] = z[i] /\ y[i + 1] = z[i + 1] /\ i \in 1..(Len(z) - 1)
      BY <1>1, <2>0, <2>1
    <3> QED
      BY <1>2, <3>1
  <2>2. CASE i = Len(z)
    <3>1. /\ i + 1 \in 1..(Len(z) + Len(w)) /\ ~(i + 1 <= Len(z)) /\ (i + 1) - Len(z) = 1
          /\ i \in 1..(Len(z) + Len(w)) /\ i <= Len(z)
      BY <1>1, <2>0, <2>2
    <3>2. y[i] = z[i] /\ y[i + 1] = w[(i + 1) - Len(z)] /\ z # << >>
      BY <1>1, <3>1
    <3> QED
      BY <2>2, <3>1, <3>2
  <2>3. CASE i > Len(z)
    <3> DEFINE j == i - Len(z)
    <3>1. y[i] = w[j] /\ y[i + 1] = w[(i + 1) - Len(z)] /\ j \in 1..(Len(w) - 1)
          /\ (i + 1) - Len(z) = j + 1
      BY <1>1, <2>0, <2>3
    <3> QED
      BY <3>1
  <2> QED
    BY <1>1, <2>0, <2>1, <2>2, <2>3
<1> QED
  BY <1>3, <1>4, <1>5 DEF StreamPrefix, y

\* Where the parts of zbits end.
LEMMA ZbitsParts ==
    ASSUME TypeOK, ZbitsHold, state = "OUTPUT"
    PROVE  /\ numZ \in Nat /\ numZ >= 1 /\ state_out_pos \in 0..numZ
           /\ HeaderEnd \in 0..1 /\ (HeaderEnd = 1 <=> blockNo = 1)
           /\ BlockEnd \in HeaderEnd..numZ
           /\ trailer => BlockEnd = numZ - 1
           /\ ~trailer => BlockEnd = numZ
           /\ BlockEnd = HeaderEnd <=> block = << >>
           /\ ~trailer => BlockEnd > HeaderEnd
<1>1. numZ \in Nat /\ state_out_pos \in 0..numZ /\ trailer \in BOOLEAN
  BY Constants DEF TypeOK
<1>2. HeaderEnd \in 0..1 /\ (HeaderEnd = 1 <=> blockNo = 1)
  BY DEF HeaderEnd
<1>3. BlockEnd = IF trailer THEN numZ - 1 ELSE numZ
  BY DEF BlockEnd
<1>4. /\ numZ >= 1 /\ BlockEnd >= HeaderEnd /\ (BlockEnd = HeaderEnd <=> block = << >>)
      /\ ~trailer => block # << >>
  BY DEF ZbitsHold
<1> HIDE DEF HeaderEnd, BlockEnd
<1> QED
  BY <1>1, <1>2, <1>3, <1>4

LEMMA ZbyteIs ==
    ASSUME NEW i \in Int, HeaderEnd \in Int, BlockEnd \in Int
    PROVE  /\ i <= HeaderEnd => Zbyte(i) = Byte("header", << >>, 1, 1, TRUE)
           /\ i > HeaderEnd /\ i <= BlockEnd =>
                Zbyte(i) = Byte("block", block, i - HeaderEnd, BlockEnd - HeaderEnd, TRUE)
           /\ i > HeaderEnd /\ i > BlockEnd => Zbyte(i) = Byte("trailer", << >>, 1, 1, TRUE)
<1>1. /\ i > HeaderEnd => ~(i <= HeaderEnd)
      /\ i > BlockEnd => ~(i <= BlockEnd)
  OBVIOUS
<1> QED
  BY <1>1, Zenon DEF Zbyte

\* A byte of a block that is not its last one is followed by the next.
LEMMA NextFollows ==
    ASSUME NEW content, NEW m \in Int, NEW n \in Int, NEW sound, m # n
    PROVE  Follows(Byte("block", content, m, n, sound), Byte("block", content, m + 1, n, sound))
<1>1. ~IsLast(Byte("block", content, m, n, sound))
  BY DEF IsLast, Byte
<1>2. [Byte("block", content, m, n, sound) EXCEPT !.pos = @ + 1]
        = Byte("block", content, m + 1, n, sound)
  BY DEF Byte
<1> QED
  BY <1>1, <1>2 DEF Follows

\* The bytes of zbits follow each other.
LEMMA ZbyteFollows ==
    ASSUME TypeOK, ZbitsHold, state = "OUTPUT", NEW i \in Nat, i >= 1, i < numZ
    PROVE  Follows(Zbyte(i), Zbyte(i + 1))
<1> DEFINE h == HeaderEnd
           e == BlockEnd
           header == Byte("header", << >>, 1, 1, TRUE)
           trailer_ == Byte("trailer", << >>, 1, 1, TRUE)
           content(k) == Byte("block", block, k - h, e - h, TRUE)
<1>1. /\ numZ \in Nat /\ h \in 0..1 /\ e \in h..numZ
      /\ e = numZ - 1 \/ e = numZ
  BY ZbitsParts DEF TypeOK
<1>2. h \in Int /\ e \in Int
  BY <1>1
<1>3. ASSUME NEW k \in Int
      PROVE  /\ k <= h => Zbyte(k) = header
             /\ k > h /\ k <= e => Zbyte(k) = content(k)
             /\ k > h /\ k > e => Zbyte(k) = trailer_
  BY <1>2, ZbyteIs, Zenon
<1>4. i \in Int /\ i + 1 \in Int
  OBVIOUS
<1> HIDE DEF h, e
<1>5. CASE i <= h
  <2>1. i + 1 > h /\ (i + 1) - h = 1
    BY <1>1, <1>5
  <2>2. Zbyte(i) = header
    BY <1>3, <1>4, <1>5
  <2>3. Zbyte(i + 1) = content(i + 1) \/ Zbyte(i + 1) = trailer_
    <3>1. i + 1 <= e \/ i + 1 > e
      BY <1>2, <1>4
    <3> QED
      BY <1>3, <1>4, <2>1, <3>1, Zenon
  <2> QED
    BY <1>2, <2>1, <2>2, <2>3 DEF Follows, Byte, IsLast
<1>6. CASE i > h /\ i < e
  <2>1. i <= e /\ i + 1 > h /\ i + 1 <= e
    BY <1>2, <1>4, <1>6
  <2>2. Zbyte(i) = content(i) /\ Zbyte(i + 1) = content(i + 1)
    BY <1>3, <1>4, <1>6, <2>1, Zenon
  <2>3. (i + 1) - h = (i - h) + 1 /\ i - h # e - h
    BY <1>2, <1>6
  <2>4. i - h \in Int /\ e - h \in Int
    BY <1>2, <1>4
  <2>5. Follows(content(i), Byte("block", block, (i - h) + 1, e - h, TRUE))
    BY <2>3, <2>4, NextFollows, Zenon
  <2> QED
    BY <2>2, <2>3, <2>5
<1>7. CASE i > h /\ i = e
  <2>1. i <= e /\ i + 1 > h /\ i + 1 > e
    BY <1>2, <1>4, <1>7
  <2>2. Zbyte(i) = content(i) /\ Zbyte(i + 1) = trailer_
    BY <1>3, <1>4, <1>7, <2>1, Zenon
  <2> QED
    BY <1>7, <2>2 DEF Follows, Byte, IsLast
<1> QED
  BY <1>1, <1>5, <1>6, <1>7

\* What CopyOutput copies.
Copied(n) == [i \in 1..n |-> Zbyte(state_out_pos + i)]

LEMMA CopiedType ==
    ASSUME TypeOK, NEW n \in Nat
    PROVE  Copied(n) \in Seq(ZBytes) /\ Len(Copied(n)) = n
<1>1. state_out_pos \in Int
  BY DEF TypeOK
<1>2. \A i \in 1..n : Zbyte(state_out_pos + i) \in ZBytes
  BY <1>1, ZbyteType
<1>3. Copied(n) \in [1..n -> ZBytes]
  BY <1>2 DEF Copied
<1> QED
  BY <1>3

\* The text of a byte of zbits.
LEMMA ZbyteText ==
    ASSUME TypeOK, ZbitsHold, state = "OUTPUT", NEW i \in Int
    PROVE  ByteText(Zbyte(i)) = IF i = BlockEnd THEN UnRLE(block) ELSE << >>
<1> DEFINE h == HeaderEnd
           e == BlockEnd
<1>1. h \in Int /\ e \in Int /\ h <= e /\ (e = h => block = << >>)
  BY ZbitsParts
<1> HIDE DEF h, e
<1>2. CASE i <= h
  <2>1. ByteText(Zbyte(i)) = << >>
    BY <1>1, <1>2, ZbyteIs DEF ByteText, Byte, h, e
  <2>2. i = e => UnRLE(block) = << >>
    BY <1>1, <1>2, UnRLEEmpty
  <2> QED
    BY <2>1, <2>2 DEF e
<1>3. CASE i > h /\ i <= e
  <2>1. Zbyte(i) = Byte("block", block, i - h, e - h, TRUE)
    BY <1>1, <1>3, ZbyteIs DEF h, e
  <2>2. i - h = e - h <=> i = e
    BY <1>1
  <2> QED
    BY <2>1, <2>2 DEF ByteText, Byte, IsLast, e
<1>4. CASE i > h /\ i > e
  <2>1. ByteText(Zbyte(i)) = << >>
    BY <1>1, <1>4, ZbyteIs DEF ByteText, Byte, h, e
  <2> QED
    BY <1>1, <1>4, <2>1 DEF e
<1> QED
  BY <1>1, <1>2, <1>3, <1>4

\* The text of what is copied: that of the block if its last byte is among it.
LEMMA CopiedText ==
    ASSUME TypeOK, ZbitsHold, state = "OUTPUT", NEW n \in Nat
    PROVE  TextOf(Copied(n)) = IF state_out_pos < BlockEnd /\ BlockEnd <= state_out_pos + n
                               THEN UnRLE(block) ELSE << >>
<1> DEFINE p == state_out_pos
           e == BlockEnd
           t == UnRLE(block)
           T == { m \in Nat : TextOf(Copied(m)) = IF p < e /\ e <= p + m THEN t ELSE << >> }
<1>0. p \in Nat /\ e \in Int /\ t \in Seq(Bytes) /\ << >> \in Seq(Bytes)
  BY ZbitsParts, UnRLEType, EmptySeq DEF TypeOK, Bytes
<1>1. 0 \in T
  <2>1. Copied(0) = << >>
    BY CopiedType, EmptySeq
  <2>2. ~(p < e /\ e <= p + 0)
    BY <1>0
  <2> QED
    BY <2>1, <2>2, TextOfEmpty
<1>2. ASSUME NEW m \in Nat, m \in T PROVE m + 1 \in T
  <2> DEFINE b == Zbyte(p + (m + 1))
  <2>1. Copied(m + 1) = Append(Copied(m), b)
    <3> DEFINE c == Copied(m)
               d == Copied(m + 1)
               r == Append(c, b)
    <3>1. /\ c \in Seq(ZBytes) /\ Len(c) = m /\ d \in Seq(ZBytes) /\ Len(d) = m + 1
          /\ b \in ZBytes
      BY <1>0, CopiedType, ZbyteType
    <3>2. (\A i \in 1..m : c[i] = d[i]) /\ d[m + 1] = b
      BY DEF Copied
    <3> HIDE DEF c, d, b
    <3>3. r \in Seq(ZBytes) /\ Len(r) = m + 1 /\ r[m + 1] = b /\ \A i \in 1..m : r[i] = c[i]
      BY <3>1, AppendProperties
    <3>4. \A i \in 1..(m + 1) : r[i] = d[i]
      BY <3>2, <3>3
    <3> HIDE DEF r
    <3>5. r = d
      BY <3>1, <3>3, <3>4, SeqEqual
    <3> QED
      BY <3>5 DEF r, c, d
  <2>2. Copied(m) \in Seq(ZBytes) /\ b \in ZBytes
    BY <1>0, CopiedType, ZbyteType
  <2>3. ByteText(b) = IF p + (m + 1) = e THEN t ELSE << >>
    BY <1>0, ZbyteText
  <2> HIDE DEF b, t, e
  <2>4. TextOf(Copied(m + 1)) = Cat(TextOf(Copied(m)), ByteText(b))
    BY <2>1, <2>2, TextOfAppend
  <2>5. CASE p < e /\ e <= p + m
    <3>1. p + (m + 1) # e /\ e <= p + (m + 1)
      BY <1>0, <2>5
    <3> QED
      BY <1>0, <1>2, <2>3, <2>4, <2>5, <3>1, CatEmpty
  <2>6. CASE p + (m + 1) = e
    <3>1. p < e /\ e <= p + (m + 1) /\ ~(e <= p + m)
      BY <1>0, <2>6
    <3> QED
      BY <1>0, <1>2, <2>3, <2>4, <2>6, <3>1, CatEmpty
  <2>7. CASE ~(p < e /\ e <= p + m) /\ p + (m + 1) # e
    <3>1. ~(p < e /\ e <= p + (m + 1))
      BY <1>0, <2>7
    <3>2. TextOf(Copied(m)) = << >> /\ ByteText(b) = << >>
      BY <1>2, <2>3, <2>7
    <3>3. TextOf(Copied(m + 1)) = << >>
      BY <1>0, <2>4, <3>2, CatEmpty
    <3> QED
      BY <3>1, <3>3
  <2> QED
    BY <2>5, <2>6, <2>7
<1> HIDE DEF T
<1>3. Nat \subseteq T
  BY <1>1, <1>2, NatInductionInSet
<1> QED
  BY <1>3 DEF T

\* Copying out goes on with the stream.
LEMMA CopiedExtends ==
    ASSUME TypeOK, ZbitsHold, state = "OUTPUT",
           NEW z \in Seq(ZBytes), StreamPrefix(z), EndsHere(z),
           NEW n \in Nat, n <= numZ - state_out_pos
    PROVE  /\ StreamPrefix(Cat(z, Copied(n)))
           /\ state_out_pos + n > 0 =>
                /\ Cat(z, Copied(n)) # << >>
                /\ Cat(z, Copied(n))[Len(Cat(z, Copied(n)))] = Zbyte(state_out_pos + n)
<1> DEFINE w == Copied(n)
           p == state_out_pos
           y == Cat(z, w)
<1>1. w \in Seq(ZBytes) /\ Len(w) = n /\ \A i \in 1..n : w[i] = Zbyte(p + i)
  BY CopiedType DEF Copied
<1>2. p \in Nat /\ numZ \in Nat /\ p + n <= numZ
  BY ZbitsParts
<1> HIDE DEF w
<1>3. CASE n = 0
  <2>1. y = z
    BY <1>1, <1>3, EmptySeq, CatEmpty
  <2> QED
    BY <1>2, <1>3, <2>1 DEF EndsHere, w
<1>4. CASE n > 0
  <2>1. /\ y \in Seq(ZBytes) /\ Len(y) = Len(z) + n /\ Len(z) \in Nat
        /\ y[Len(z) + n] = w[n]
    <3>1. /\ y \in Seq(ZBytes) /\ Len(y) = Len(z) + Len(w) /\ Len(z) \in Nat
          /\ \A i \in 1..(Len(z) + Len(w)) : y[i] = IF i <= Len(z) THEN z[i] ELSE w[i - Len(z)]
      BY <1>1, ConcatProperties, LenProperties DEF Cat
    <3>2. Len(z) + n \in 1..(Len(z) + Len(w)) /\ ~(Len(z) + n <= Len(z)) /\ (Len(z) + n) - Len(z) = n
      BY <1>1, <1>4, <3>1
    <3> HIDE DEF y
    <3> QED
      BY <1>1, <3>1, <3>2
  <2>2. y # << >> /\ y[Len(y)] = Zbyte(p + n)
    <3>1. Len(y) > 0 /\ w[n] = Zbyte(p + n)
      BY <1>1, <1>4, <2>1
    <3> HIDE DEF y
    <3> QED
      BY <2>1, <3>1, EmptySeq
  <2>3. \A i \in 1..Len(w) : w[i].sound /\ w[i].part \in { "header", "block", "trailer" }
    <3>1. ASSUME NEW i \in 1..n
          PROVE  Zbyte(p + i).sound /\ Zbyte(p + i).part \in { "header", "block", "trailer" }
      BY DEF Zbyte, Byte
    <3> QED
      BY <1>1, <3>1
  <2>4. \A i \in 1..(Len(w) - 1) : Follows(w[i], w[i + 1])
    <3> TAKE i \in 1..(Len(w) - 1)
    <3>1. /\ i \in 1..n /\ i + 1 \in 1..n
          /\ p + i \in Nat /\ p + i >= 1 /\ p + i < numZ /\ p + (i + 1) = (p + i) + 1
      BY <1>1, <1>2, <1>4
    <3>2. Follows(Zbyte(p + i), Zbyte((p + i) + 1))
      BY <3>1, ZbyteFollows
    <3> QED
      BY <1>1, <3>1, <3>2
  <2>5. w # << >> /\ w[1] = Zbyte(p + 1)
    BY <1>1, <1>4, EmptySeq
  <2>6. CASE p > 0
    <3>1. z # << >> /\ z[Len(z)] = Zbyte(p)
      BY <2>6 DEF EndsHere
    <3>2. Follows(Zbyte(p), Zbyte(p + 1))
      BY <1>2, <1>4, <2>6, ZbyteFollows
    <3> QED
      BY <1>1, <2>2, <2>3, <2>4, <2>5, <3>1, <3>2, PrefixExtends DEF w
  <2>7. CASE p = 0 /\ blockNo = 1
    <3>1. z = << >>
      BY <2>7 DEF EndsHere
    <3>2. Zbyte(p + 1).part = "header" /\ Zbyte(p + 1).pos = 1
      BY <2>7 DEF Zbyte, HeaderEnd, Byte
    <3> QED
      BY <1>1, <2>2, <2>3, <2>4, <2>5, <3>1, <3>2, PrefixExtends DEF w
  <2>8. CASE p = 0 /\ blockNo # 1
    <3>1. z # << >> /\ IsLast(z[Len(z)]) /\ z[Len(z)].part # "trailer"
      BY <2>8 DEF EndsHere
    <3>2. Zbyte(p + 1).part # "header" /\ Zbyte(p + 1).pos = 1
      BY <2>8 DEF Zbyte, HeaderEnd, Byte
    <3>3. Follows(z[Len(z)], Zbyte(p + 1))
      BY <3>1, <3>2 DEF Follows
    <3> QED
      BY <1>1, <2>2, <2>3, <2>4, <2>5, <3>1, <3>3, PrefixExtends DEF w
  <2> QED
    BY <1>2, <2>6, <2>7, <2>8
<1> QED
  BY <1>3, <1>4

-----------------------------------------------------------------------------
(* What a step that leaves the compressor alone keeps.                     *)

LEMMA CoderKept ==
    ASSUME OneRun, ReaderReady, ZbitsHold, UNCHANGED << state, rl, block, blockNo, zbits >>
    PROVE  OneRun' /\ ReaderReady' /\ ZbitsHold'
BY DEF OneRun, ReaderReady, ZbitsHold, HeaderEnd, BlockEnd, rl, zbits

LEMMA StreamKept ==
    ASSUME StreamSoFar, UNCHANGED << state, block, blockNo, zbits >>,
           stage' = "open" => stage = "open" /\ Made' = Made
    PROVE  StreamSoFar'
<1> SUFFICES ASSUME stage' = "open"
             PROVE  StreamPrefix(Made') /\ EndsHere(Made)'
  BY DEF StreamSoFar
<1>1. StreamPrefix(Made) /\ EndsHere(Made) /\ Made' = Made
  BY DEF StreamSoFar
<1>2. Zbyte(state_out_pos)' = Zbyte(state_out_pos)
  BY DEF Zbyte, HeaderEnd, BlockEnd, zbits
<1>3. EndsHere(Made)'
  BY <1>1, <1>2 DEF EndsHere, zbits
<1> QED
  BY <1>1, <1>3

LEMMA TextKept ==
    ASSUME NothingLost, UNCHANGED << state, rl, block, zbits >>,
           stage' = "open" => stage = "open" /\ Made' = Made /\ UNCHANGED << input, fed >>
    PROVE  NothingLost'
<1>1. (stage = "open" =>
         Cat(Cat(Cat(TextOf(Made), Pending), Copies(state_in_ch, state_in_len)), input) = fed)
  BY NothingLostIs
<1>2. Pending' = Pending
  BY DEF Pending, BlockEnd, zbits
<1>3. NothingLost' <=>
        (stage' = "open" =>
            Cat(Cat(Cat(TextOf(Made'), Pending'), Copies(state_in_ch', state_in_len')), input') = fed')
  BY DEF NothingLost, Made, Pending, Copies, Cat
<1> QED
  BY <1>1, <1>2, <1>3 DEF rl

\* A call that ends outside of a stream leaves nothing to be kept but the compressor.
LEMMA OutOfStream ==
    ASSUME TextInv, stage' # "open", pc' # "none",
           out' \in Seq(ZBytes), luabuf' \in Seq(ZBytes),
           UNCHANGED << state, rl, block, blockNo, zbits >>
    PROVE  TextInv'
<1>1. OneRun' /\ ReaderReady' /\ ZbitsHold'
  BY CoderKept DEF TextInv
<1>2. StreamsHold' /\ Fresh' /\ InOrder' /\ Moves' /\ StreamSoFar' /\ NothingLost'
  BY DEF StreamsHold, Fresh, InOrder, Moves, StreamSoFar, NothingLost
<1> QED
  BY <1>1, <1>2 DEF TextInv

LEMMA StreamTypes ==
    ASSUME Inv, TextInv
    PROVE  /\ TypeOK
           /\ out \in Seq(ZBytes) /\ luabuf \in Seq(ZBytes) /\ buf \in Seq(ZBytes)
           /\ Made \in Seq(ZBytes)
           /\ out \o (luabuf \o buf) = Made
<1>1. /\ TypeOK
      /\ out \in Seq(ZBytes) /\ luabuf \in Seq(ZBytes) /\ buf \in Seq(ZBytes)
  BY DEF Inv, BlockFits, BuffersHold, TextInv, StreamsHold
<1>2. Made \in Seq(ZBytes)
  BY <1>1, CatType DEF Made
<1>3. Cat(out, Cat(luabuf, buf)) = Made
  BY <1>1, CatAssoc DEF Made
<1> QED
  BY <1>1, <1>2, <1>3 DEF Cat

\* The parts of the text that are accounted for.
LEMMA KnownType ==
    ASSUME Inv, TextInv
    PROVE  /\ TextOf(Made) \in Seq(Bytes) /\ UnRLE(block) \in Seq(Bytes) /\ Pending \in Seq(Bytes)
           /\ Copies(state_in_ch, state_in_len) \in Seq(Bytes)
           /\ Cat(TextOf(Made), Pending) \in Seq(Bytes)
           /\ Cat(Cat(TextOf(Made), Pending), Copies(state_in_ch, state_in_len)) \in Seq(Bytes)
<1>1. TextOf(Made) \in Seq(Bytes)
  BY StreamTypes, TextOfType
<1>2. UnRLE(block) \in Seq(Bytes) /\ Pending \in Seq(Bytes)
  <2>1. block \in Seq(Bytes)
    BY StreamTypes DEF TypeOK, Bytes
  <2> QED
    BY <2>1, UnRLEType, EmptySeq DEF Pending
<1>3. Copies(state_in_ch, state_in_len) \in Seq(Bytes)
  <2>1. state_in_len \in Nat /\ state_in_ch \in Chars \cup { NoChar }
    BY StreamTypes, Constants DEF TypeOK
  <2>2. CASE state_in_ch = NoChar
    BY <2>2, NoCopies, EmptySeq DEF TextInv, OneRun
  <2>3. CASE state_in_ch # NoChar
    <3>1. state_in_ch \in Bytes
      BY <2>1, <2>3, Constants DEF Bytes
    <3> QED
      BY <2>1, <3>1, CopiesType
  <2> QED
    BY <2>2, <2>3
<1>4. Cat(TextOf(Made), Pending) \in Seq(Bytes)
  BY <1>1, <1>2, CatType
<1> QED
  BY <1>1, <1>2, <1>3, <1>4, CatType

LEMMA RaiseOutOfStream ==
    ASSUME Inv, TextInv, Raise("refused") \/ Raise("stale"),
           UNCHANGED << state, rl, block, blockNo, zbits >>
    PROVE  TextInv'
<1>1. /\ pc' = "idle" /\ luabuf' = << >> /\ stage' # "open"
      /\ out' = out \/ out' = << >>
  BY DEF Raise
<1>2. out' \in Seq(ZBytes) /\ luabuf' \in Seq(ZBytes)
  BY <1>1, StreamTypes, EmptySeq
<1> QED
  BY <1>1, <1>2, OutOfStream

-----------------------------------------------------------------------------
(* The steps of a call outside of handle_compress.                         *)

LEMMA UpdateReturnsKeepsText ==
    ASSUME Inv, TextInv, UpdateReturns
    PROVE  TextInv'
<1>0. /\ pc = "loop" /\ call = "update" /\ input = << >> /\ input' = << >>
      /\ UNCHANGED << mode, state, avail_in_expect, rl, block, blockNo, zbits >>
  BY DEF UpdateReturns, estate
<1>1. CASE Raise("stale")
  BY <1>0, <1>1, RaiseOutOfStream
<1>2. CASE Return(luabuf \o buf, "open")
  <2>1. pc' = "idle" /\ call' = "none" /\ buf' = << >> /\ luabuf' = << >> /\ progress' = FALSE
    BY <1>2 DEF Return
  <2>2. << >> \in Seq(ZBytes) /\ Len(<< >>) = 0 /\ << >> \in Seq(Chars)
    BY EmptySeq
  <2>3. CASE stage # "open"
    <3>1. stage' # "open" /\ out' = << >>
      BY <1>2, <2>3 DEF Return
    <3> QED
      BY <1>0, <2>1, <2>2, <3>1, OutOfStream
  <2>4. CASE stage = "open"
    <3>1. stage' = "open" /\ out' = out \o (luabuf \o buf) /\ fed' = fed
      BY <1>2, <2>4 DEF Return
    <3>2. out' = Made /\ out' \in Seq(ZBytes)
      BY <3>1, StreamTypes
    <3>3. Made' = Made
      <4>1. Made' = Cat(Cat(out', luabuf'), buf')
        BY DEF Made
      <4> QED
        BY <2>1, <3>2, <4>1, CatEmpty
    <3>4. OneRun' /\ ReaderReady' /\ ZbitsHold' /\ StreamSoFar' /\ NothingLost'
      BY <1>0, <2>4, <3>1, <3>3, CoderKept, StreamKept, TextKept DEF TextInv
    <3>5. StreamsHold' /\ Fresh'
      BY <1>0, <2>1, <2>2, <3>2 DEF StreamsHold, Fresh
    <3>6. InOrder'
      BY <1>0, <2>1, <2>4, <3>1 DEF TextInv, InOrder, EmptyRL, rl, zbits
    <3>7. Moves'
      BY <1>0, <2>1, <2>2, <2>4, <3>1, Constants DEF TextInv, Moves, zbits
    <3> QED
      BY <3>4, <3>5, <3>6, <3>7 DEF TextInv
  <2> QED
    BY <2>3, <2>4
<1> QED
  BY <1>1, <1>2 DEF UpdateReturns

LEMMA OutOfSequenceKeepsText ==
    ASSUME Inv, TextInv, OutOfSequence
    PROVE  TextInv'
<1>1. Raise("refused") /\ UNCHANGED << state, rl, block, blockNo, zbits >>
  BY DEF OutOfSequence, estate
<1> QED
  BY <1>1, RaiseOutOfStream

LEMMA FinishReturnsKeepsText ==
    ASSUME Inv, TextInv, FinishReturns
    PROVE  TextInv'
<1>0. UNCHANGED << state, rl, block, blockNo, zbits >>
  BY DEF FinishReturns
<1>1. CASE Raise("stale")
  BY <1>0, <1>1, RaiseOutOfStream
<1>2. CASE Return(luabuf \o buf, "finished")
  <2>1. /\ pc' = "idle" /\ luabuf' = << >> /\ stage' # "open"
        /\ out' = out \o (luabuf \o buf) \/ out' = << >>
    BY <1>2 DEF Return
  <2>2. out' \in Seq(ZBytes) /\ luabuf' \in Seq(ZBytes)
    BY <2>1, StreamTypes, EmptySeq
  <2> QED
    BY <1>0, <2>1, <2>2, OutOfStream
<1> QED
  BY <1>1, <1>2 DEF FinishReturns

\* A call that goes on has handed a full buffer to luabuf, and has something left to copy out
\* if there is anything in zbits.
LEMMA GoOnKeepsText ==
    ASSUME Inv, TextInv, GoOn
    PROVE  TextInv'
<1>0. UNCHANGED << mode, state, avail_in_expect, rl, block, blockNo, zbits >> /\ pc = "called"
  BY DEF GoOn, estate
<1>1. CASE Raise("refused") \/ Raise("stale")
  BY <1>0, <1>1, RaiseOutOfStream
<1>2. CASE /\ progress /\ ~StreamEnds /\ pc' = "loop"
           /\ IF AvailOut = 0 THEN luabuf' = luabuf \o buf /\ buf' = << >>
                              ELSE UNCHANGED << luabuf, buf >>
           /\ UNCHANGED << call, input, progress, history >>
  <2>1. out' = out /\ fed' = fed /\ stage' = stage /\ UNCHANGED << call, input, progress >>
    BY <1>2 DEF history
  <2>2. luabuf' \in Seq(ZBytes) /\ Made' = Made
    <3>1. Made' = Cat(Cat(out, luabuf'), buf')
      BY <2>1 DEF Made
    <3>2. CASE AvailOut = 0
      <4>1. luabuf' = Cat(luabuf, buf) /\ buf' = << >>
        BY <1>2, <3>2 DEF Cat
      <4>2. luabuf' \in Seq(ZBytes) /\ Cat(out, luabuf') \in Seq(ZBytes)
        BY <4>1, StreamTypes, CatType
      <4>3. Cat(out, luabuf') = Made
        BY <4>1, StreamTypes, CatAssoc DEF Made
      <4> QED
        BY <3>1, <4>1, <4>2, <4>3, CatEmpty
    <3>3. CASE AvailOut # 0
      BY <1>2, <3>1, <3>3, StreamTypes DEF Made
    <3> QED
      BY <3>2, <3>3
  <2>3. OneRun' /\ ReaderReady' /\ ZbitsHold' /\ StreamSoFar' /\ NothingLost'
    BY <1>0, <2>1, <2>2, CoderKept, StreamKept, TextKept DEF TextInv
  <2>4. StreamsHold' /\ Fresh'
    BY <1>2, <2>1, <2>2 DEF TextInv, StreamsHold, Fresh
  <2>5. InOrder'
    BY <1>0, <1>2, <2>1 DEF TextInv, InOrder, EmptyRL, rl, zbits
  <2>6. Len(buf') < BufSize
    <3>1. Len(buf) \in Nat /\ Len(buf) <= BufSize /\ Len(<< >>) = 0
      BY StreamTypes, LenProperties, EmptySeq DEF TypeOK
    <3> QED
      BY <1>2, <3>1, Constants DEF AvailOut
  <2>7. stage = "open" => (state = "OUTPUT" => state_out_pos < numZ)
    <3> SUFFICES ASSUME stage = "open", state = "OUTPUT", ~(state_out_pos < numZ) PROVE FALSE
      OBVIOUS
    <3>1. trailer
      BY <1>0 DEF TextInv, Moves
    <3>2. mode = "FINISHING" /\ avail_in_expect = 0 /\ EmptyRL
      BY <3>1 DEF TextInv, InOrder
    <3>3. numZ \in Nat /\ state_out_pos \in Nat
      BY StreamTypes, ZbitsParts DEF TextInv
    <3> QED
      BY <1>2, <3>2, <3>3 DEF StreamEnds
  <2>8. Moves'
    BY <1>0, <1>2, <2>1, <2>6, <2>7 DEF Moves, zbits
  <2> QED
    BY <2>3, <2>4, <2>5, <2>8 DEF TextInv
<1> QED
  BY <1>1, <1>2 DEF GoOn

LEMMA CreateKeepsText ==
    ASSUME Inv, TextInv, Create
    PROVE  TextInv'
<1>0. Init
  BY DEF TextInv, Fresh, Create
<1>1. /\ input = << >> /\ buf = << >> /\ luabuf = << >> /\ state = "INPUT"
      /\ state_in_ch = NoChar /\ state_in_len = 0 /\ block = << >>
      /\ numZ = 0 /\ state_out_pos = 0 /\ trailer = FALSE /\ progress = FALSE
      /\ fed = << >> /\ out = << >> /\ avail_in_expect = 0 /\ call = "none"
  BY <1>0 DEF Init
<1>2. /\ pc' = "idle" /\ mode' = "RUNNING" /\ blockNo' = 1 /\ stage' = "open"
      /\ UNCHANGED << call, input, buf, luabuf, state, avail_in_expect, rl, block, zbits,
                      progress, fed, out >>
  BY DEF Create
<1>3. << >> \in Seq(ZBytes) /\ << >> \in Seq(Chars) /\ << >> \in Seq(Bytes) /\ Len(<< >>) = 0
  BY EmptySeq
<1>4. StreamsHold' /\ Fresh'
  BY <1>1, <1>2, <1>3 DEF StreamsHold, Fresh
<1>5. OneRun' /\ ReaderReady' /\ ZbitsHold'
  BY <1>1, <1>2, ReadEmpty DEF OneRun, ReaderReady, ZbitsHold, NothingRead, rl
<1>6. InOrder'
  BY <1>1, <1>2 DEF InOrder, zbits
<1>7. Moves'
  BY <1>1, <1>2, <1>3, Constants DEF Moves
<1>8. Made' = << >>
  <2>1. Made' = Cat(Cat(<< >>, << >>), << >>)
    BY <1>1, <1>2 DEF Made
  <2>2. Cat(<< >>, << >>) = << >>
    BY <1>3, CatEmpty
  <2> QED
    BY <2>1, <2>2
<1>9. StreamSoFar'
  <2>1. EndsHere(Made)'
    BY <1>1, <1>2, <1>8 DEF EndsHere
  <2>2. StreamPrefix(<< >>)
    BY <1>3 DEF StreamPrefix
  <2> QED
    BY <1>8, <2>1, <2>2 DEF StreamSoFar
<1>10. NothingLost'
  <2>1. Pending' = << >>
    BY <1>1, <1>2, UnRLEEmpty DEF Pending
  <2>2. Copies(state_in_ch, state_in_len)' = << >>
    BY <1>1, <1>2, NoCopies DEF rl
  <2>3. Cat(<< >>, << >>) = << >>
    BY <1>3, CatEmpty
  <2>4. Cat(Cat(Cat(TextOf(Made'), Pending'), Copies(state_in_ch, state_in_len)'), input') = fed'
    BY <1>1, <1>2, <1>8, <2>1, <2>2, <2>3, TextOfEmpty
  <2> QED
    BY <2>4 DEF NothingLost, Made, Pending, Copies, Cat
<1> QED
  BY <1>4, <1>5, <1>6, <1>7, <1>9, <1>10 DEF TextInv

LEMMA UpdateKeepsText ==
    ASSUME Inv, TextInv, NEW chunk \in Chunks, Update(chunk)
    PROVE  TextInv'
<1>1. /\ pc = "idle" /\ pc' = "loop" /\ call' = "update" /\ input' = chunk
      /\ UNCHANGED << buf, luabuf, mode, state, avail_in_expect, rl, block, blockNo, zbits,
                      progress, out, stage >>
      /\ fed' = IF stage = "open" THEN fed \o chunk ELSE << >>
  BY DEF Update, estate
<1>2. CASE stage # "open"
  BY <1>1, <1>2, StreamTypes, OutOfStream
<1>3. CASE stage = "open"
  <2>1. chunk \in Seq(Chars)
    BY DEF Chunks, BoundedSeq, SeqOf
  <2>2. /\ mode = "RUNNING" /\ input = << >> /\ buf = << >> /\ luabuf = << >>
        /\ blockNo \in { 1, 2 } /\ trailer = FALSE
    BY <1>1, <1>3, StreamTypes DEF TextInv, InOrder, TypeOK
  <2>3. Made' = Made
    BY <1>1 DEF Made
  <2>4. OneRun' /\ ReaderReady' /\ ZbitsHold' /\ StreamSoFar'
    BY <1>1, <2>3, CoderKept, StreamKept DEF TextInv
  <2>5. StreamsHold' /\ Fresh'
    BY <1>1, <2>1 DEF TextInv, StreamsHold, Fresh
  <2>6. InOrder'
    BY <1>1, <1>3, <2>2 DEF InOrder, zbits
  <2>7. Moves'
    BY <1>1, <1>3 DEF TextInv, Moves, zbits
  <2>8. NothingLost'
    <3> DEFINE known == Cat(Cat(TextOf(Made), Pending), Copies(state_in_ch, state_in_len))
    <3>1. Cat(known, << >>) = fed
      BY <1>3, <2>2, NothingLostIs DEF TextInv
    <3>2. known \in Seq(Bytes)
      BY KnownType
    <3> HIDE DEF known
    <3>3. Cat(known, chunk) = Cat(fed, chunk)
      BY <3>1, <3>2, CatEmpty
    <3>4. Pending' = Pending
      BY <1>1 DEF Pending, BlockEnd, zbits
    <3>5. Cat(Cat(Cat(TextOf(Made'), Pending'), Copies(state_in_ch', state_in_len')), input') = fed'
      BY <1>1, <1>3, <2>3, <3>3, <3>4 DEF known, rl, Cat
    <3> QED
      BY <3>5 DEF NothingLost, Made, Pending, Copies, Cat
  <2> QED
    BY <2>4, <2>5, <2>6, <2>7, <2>8 DEF TextInv
<1> QED
  BY <1>2, <1>3

LEMMA FinishKeepsText ==
    ASSUME Inv, TextInv, Finish
    PROVE  TextInv'
<1>1. /\ pc = "idle" /\ pc' = "loop" /\ call' = "finish"
      /\ UNCHANGED << input, buf, luabuf, mode, state, avail_in_expect, rl, block, blockNo,
                      zbits, progress, fed, out, stage >>
  BY DEF Finish, estate, history
<1>2. Made' = Made
  BY <1>1 DEF Made
<1>3. OneRun' /\ ReaderReady' /\ ZbitsHold' /\ StreamSoFar' /\ NothingLost'
  BY <1>1, <1>2, CoderKept, StreamKept, TextKept DEF TextInv
<1>4. StreamsHold' /\ Fresh'
  BY <1>1 DEF TextInv, StreamsHold, Fresh
<1>5. InOrder'
  BY <1>1 DEF TextInv, InOrder, EmptyRL, rl, zbits
<1>6. Moves'
  BY <1>1 DEF TextInv, Moves, zbits
<1> QED
  BY <1>3, <1>4, <1>5, <1>6 DEF TextInv

LEMMA BzCompressKeepsText ==
    ASSUME Inv, TextInv, BzCompress
    PROVE  TextInv'
<1>1. /\ pc = "loop" /\ pc' = "handle" /\ progress' = FALSE /\ (call = "update" => input # << >>)
      /\ UNCHANGED << call, input, buf, luabuf, state, rl, block, blockNo, zbits, fed, out, stage >>
      /\ \/ mode = "RUNNING" /\ call = "update" /\ UNCHANGED << mode, avail_in_expect >>
         \/ /\ mode = "RUNNING" /\ call = "finish"
            /\ avail_in_expect' = Len(input) /\ mode' = "FINISHING"
         \/ /\ mode = "FINISHING" /\ call = "finish" /\ avail_in_expect = Len(input)
            /\ UNCHANGED << mode, avail_in_expect >>
  BY DEF BzCompress, history
<1>2. Made' = Made
  BY <1>1 DEF Made
<1>3. OneRun' /\ ReaderReady' /\ ZbitsHold' /\ StreamSoFar' /\ NothingLost'
  BY <1>1, <1>2, CoderKept, StreamKept, TextKept DEF TextInv
<1>4. StreamsHold' /\ Fresh'
  BY <1>1 DEF TextInv, StreamsHold, Fresh
<1>5. InOrder'
  BY <1>1 DEF TextInv, InOrder, EmptyRL, rl, zbits
<1>6. Moves'
  <2>1. Len(input) = 0 => input = << >>
    BY StreamTypes, EmptySeq DEF TypeOK
  <2>2. input # << >> \/ InputEnds'
    BY <1>1, <2>1 DEF InputEnds
  <2> QED
    BY <1>1, <2>2 DEF TextInv, Moves, zbits
<1> QED
  BY <1>3, <1>4, <1>5, <1>6 DEF TextInv

-----------------------------------------------------------------------------
(* The steps of handle_compress.                                           *)

LEMMA OutOfInputKeepsText ==
    ASSUME Inv, TextInv, OutOfInput
    PROVE  TextInv'
<1>1. /\ pc = "handle" /\ pc' = "called" /\ state = "INPUT" /\ ~InputEnds /\ input = << >>
      /\ UNCHANGED << call, input, buf, luabuf, mode, state, avail_in_expect, rl, block, blockNo,
                      zbits, progress, fed, out, stage >>
  BY DEF OutOfInput, estate, history
<1>2. Made' = Made
  BY <1>1 DEF Made
<1>3. OneRun' /\ ReaderReady' /\ ZbitsHold' /\ StreamSoFar' /\ NothingLost'
  BY <1>1, <1>2, CoderKept, StreamKept, TextKept DEF TextInv
<1>4. StreamsHold' /\ Fresh'
  BY <1>1 DEF TextInv, StreamsHold, Fresh
<1>5. InOrder'
  BY <1>1, EmptySeq DEF TextInv, InOrder, EmptyRL, InputEnds, rl, zbits
<1>6. Moves'
  BY <1>1 DEF TextInv, Moves, zbits
<1> QED
  BY <1>3, <1>4, <1>5, <1>6 DEF TextInv

\* The counted run goes into the block without a trace of where it was before.
LEMMA RunIntoBlock ==
    ASSUME Inv, TextInv, state = "INPUT"
    PROVE  /\ UnRLE(WithRun) = Cat(UnRLE(block), Copies(state_in_ch, state_in_len))
           /\ ReadRuns(WithRun).n # 4
           /\ state_in_ch # NoChar =>
                ReadRuns(WithRun).ch = IF state_in_len < 4 THEN state_in_ch ELSE -1
<1>1. /\ block \in Seq(Bytes) /\ state_in_len \in 0..MaxRun
      /\ state_in_ch \in Chars \cup { NoChar }
      /\ ReadRuns(block).n # 4
      /\ state_in_ch # NoChar => ReadRuns(block).ch # state_in_ch
      /\ state_in_ch = NoChar <=> state_in_len = 0
      /\ UnRLE(block) \in Seq(Bytes)
  BY StreamTypes, KnownType DEF TypeOK, Bytes, TextInv, ReaderReady, OneRun
<1>2. CASE state_in_ch = NoChar
  <2>1. WithRun = block /\ Copies(state_in_ch, state_in_len) = << >>
    BY <1>1, <1>2, NoCopies DEF WithRun
  <2> QED
    BY <1>1, <1>2, <2>1, CatEmpty
<1>3. CASE state_in_ch # NoChar
  <2>1. /\ state_in_ch \in Bytes /\ state_in_len \in Nat \ { 0 } /\ state_in_len <= MaxRun
    BY <1>1, <1>3, Constants DEF Bytes
  <2>2. WithRun = block \o EncodedRun(state_in_ch, state_in_len)
    BY <1>3 DEF WithRun
  <2>3. ReadRuns(WithRun)
          = [text |-> Cat(UnRLE(block), Copies(state_in_ch, state_in_len)),
             ch   |-> IF state_in_len < 4 THEN state_in_ch ELSE -1,
             n    |-> IF state_in_len < 4 THEN state_in_len ELSE 0]
    BY <1>1, <1>3, <2>1, <2>2, ReadEncodedRun
  <2> QED
    BY <2>1, <2>3 DEF UnRLE
<1> QED
  BY <1>2, <1>3

LEMMA CopyInputKeepsText ==
    ASSUME Inv, TextInv, CopyInput
    PROVE  TextInv'
<1>1. /\ pc = "handle" /\ state = "INPUT" /\ input # << >> /\ ~InputEnds
      /\ input' = Tail(input) /\ progress' = TRUE
      /\ avail_in_expect' = IF mode = "RUNNING" THEN avail_in_expect ELSE avail_in_expect - 1
      /\ UNCHANGED << pc, call, buf, luabuf, mode, state, blockNo, zbits, fed, out, stage >>
  BY DEF CopyInput, history
<1>2. PICK c \in Chars :
        /\ stage = "open" => c = Head(input)
        /\ IF c # state_in_ch \/ state_in_len = MaxRun
           THEN block' = WithRun /\ state_in_ch' = c /\ state_in_len' = 1
           ELSE state_in_len' = state_in_len + 1 /\ UNCHANGED << block, state_in_ch >>
  <2>1. PICK c \in IF Head(input) = Dangling THEN Chars ELSE { Head(input) } :
          IF c # state_in_ch \/ state_in_len = MaxRun
          THEN block' = WithRun /\ state_in_ch' = c /\ state_in_len' = 1
          ELSE state_in_len' = state_in_len + 1 /\ UNCHANGED << block, state_in_ch >>
    BY DEF CopyInput
  <2>2. input \in Seq(Chars \cup { Dangling })
    BY StreamTypes DEF TypeOK
  <2>3. Head(input) \in Chars \cup { Dangling }
    BY <1>1, <2>2, HeadTailProperties
  <2>4. stage = "open" => Head(input) \in Chars
    BY <1>1, HeadTailProperties DEF TextInv, StreamsHold
  <2> QED
    BY <2>1, <2>3, <2>4, Constants
<1>3. /\ state_in_len \in 0..MaxRun /\ MaxRun >= 4 /\ MaxRun \in Nat
      /\ state_in_ch \in Chars \cup { NoChar } /\ NoChar \notin Chars
      /\ state_in_ch = NoChar <=> state_in_len = 0
      /\ c \in Bytes /\ c # NoChar /\ -1 \notin Bytes
  BY StreamTypes, Constants DEF TypeOK, TextInv, OneRun, Bytes
<1>4. /\ ReadRuns(block).n # 4
      /\ state_in_ch # NoChar => ReadRuns(block).ch # state_in_ch
      /\ state_in_ch = NoChar => block = << >>
  BY <1>1 DEF TextInv, ReaderReady
<1>5. Pending = UnRLE(block) /\ Pending' = UnRLE(block')
  BY <1>1 DEF Pending
<1>6. Made' = Made
  BY <1>1 DEF Made
<1>7. /\ OneRun' /\ ReaderReady'
      /\ Cat(Pending', Copies(state_in_ch', state_in_len'))
           = Append(Cat(Pending, Copies(state_in_ch, state_in_len)), c)
  <2>1. CASE c # state_in_ch \/ state_in_len = MaxRun
    <3>1. block' = WithRun /\ state_in_ch' = c /\ state_in_len' = 1
      BY <1>2, <2>1
    <3>2. /\ UnRLE(WithRun) = Cat(UnRLE(block), Copies(state_in_ch, state_in_len))
          /\ ReadRuns(WithRun).n # 4
          /\ state_in_ch # NoChar =>
               ReadRuns(WithRun).ch = IF state_in_len < 4 THEN state_in_ch ELSE -1
      BY <1>1, RunIntoBlock
    <3>3. OneRun'
      BY <1>3, <3>1 DEF OneRun
    <3>4. ReadRuns(WithRun).ch # c
      <4>1. CASE state_in_ch = NoChar
        <5>1. WithRun = << >>
          BY <1>4, <4>1 DEF WithRun
        <5>2. ReadRuns(WithRun).ch = -1
          BY <5>1, ReadEmpty DEF NothingRead
        <5> QED
          BY <1>3, <5>2
      <4>2. CASE state_in_ch # NoChar
        <5>1. ReadRuns(WithRun).ch = IF state_in_len < 4 THEN state_in_ch ELSE -1
          BY <3>2, <4>2
        <5>2. state_in_len < 4 => c # state_in_ch
          BY <1>3, <2>1
        <5> QED
          BY <1>3, <5>1, <5>2
      <4> QED
        BY <4>1, <4>2
    <3>5. ReaderReady'
      BY <1>1, <1>3, <3>1, <3>2, <3>4 DEF ReaderReady
    <3>6. Cat(Pending', Copies(state_in_ch', state_in_len'))
            = Append(Cat(Pending, Copies(state_in_ch, state_in_len)), c)
      <4>1. Cat(UnRLE(block), Copies(state_in_ch, state_in_len)) \in Seq(Bytes)
        BY KnownType, CatType
      <4> DEFINE t == Cat(UnRLE(block), Copies(state_in_ch, state_in_len))
      <4>2. Cat(t, Copies(c, 1)) = Append(t, c)
        BY <1>3, <4>1, OneCopy
      <4> QED
        BY <1>5, <3>1, <3>2, <4>2
    <3> QED
      BY <3>3, <3>5, <3>6
  <2>2. CASE ~(c # state_in_ch \/ state_in_len = MaxRun)
    <3>1. /\ block' = block /\ state_in_ch' = state_in_ch /\ c = state_in_ch
          /\ state_in_len' = state_in_len + 1
      BY <1>2, <2>2
    <3>2. OneRun' /\ ReaderReady'
      BY <1>1, <1>3, <1>4, <3>1 DEF OneRun, ReaderReady
    <3>3. Cat(Pending', Copies(state_in_ch', state_in_len'))
            = Append(Cat(Pending, Copies(state_in_ch, state_in_len)), c)
      <4>1. state_in_len \in Nat /\ state_in_ch \in Bytes /\ Pending \in Seq(Bytes)
        BY <1>3, <3>1, KnownType
      <4>2. Cat(Pending, Copies(state_in_ch, state_in_len + 1))
              = Append(Cat(Pending, Copies(state_in_ch, state_in_len)), state_in_ch)
        BY <4>1, OneMoreCopy
      <4> QED
        BY <1>5, <3>1, <4>2
    <3> QED
      BY <3>2, <3>3
  <2> QED
    BY <2>1, <2>2
<1>8. ZbitsHold'
  BY <1>1 DEF ZbitsHold
<1>9. StreamsHold' /\ Fresh'
  <2>1. stage = "open" => input \in Seq(Chars) /\ Tail(input) \in Seq(Chars)
    BY <1>1, HeadTailProperties DEF TextInv, StreamsHold
  <2> QED
    BY <1>1, <2>1 DEF TextInv, StreamsHold, Fresh
<1>10. InOrder'
  <2>1. /\ Len(Tail(input)) = Len(input) - 1 /\ Len(input) \in Nat
        /\ trailer \in BOOLEAN
    BY <1>1, StreamTypes, HeadTailProperties, LenProperties DEF TypeOK
  <2>2. stage = "open" => ~trailer
    BY <1>1 DEF TextInv, InOrder
  <2> QED
    BY <1>1, <2>1, <2>2 DEF TextInv, InOrder, zbits
<1>11. Moves'
  BY <1>1 DEF TextInv, Moves, zbits
<1>12. StreamSoFar'
  <2> SUFFICES ASSUME stage' = "open" PROVE StreamPrefix(Made') /\ EndsHere(Made)'
    BY DEF StreamSoFar
  <2>1. stage = "open" /\ StreamPrefix(Made) /\ EndsHere(Made)
    BY <1>1 DEF TextInv, StreamSoFar
  <2>2. EndsHere(Made)'
    BY <1>1, <1>6, <2>1 DEF EndsHere
  <2> QED
    BY <1>6, <2>1, <2>2
<1>13. NothingLost'
  <2> SUFFICES ASSUME stage = "open"
               PROVE  Cat(Cat(Cat(TextOf(Made'), Pending'), Copies(state_in_ch', state_in_len')),
                          input') = fed'
    BY <1>1 DEF NothingLost, Made, Pending, Copies, Cat
  <2> DEFINE a == TextOf(Made)
             b == Cat(Pending, Copies(state_in_ch, state_in_len))
             e == << c >>
             t == Tail(input)
  <2>1. a \in Seq(Bytes) /\ b \in Seq(Bytes) /\ e \in Seq(Bytes)
    BY <1>3, KnownType, CatType
  <2>2. input \in Seq(Bytes) /\ t \in Seq(Bytes) /\ input = Cat(e, t)
    <3>1. input \in Seq(Chars) /\ Chars \subseteq Bytes
      BY Constants DEF TextInv, StreamsHold, Bytes
    <3>2. input \in Seq(Bytes)
      BY <3>1, SeqMonotonic
    <3>3. t \in Seq(Bytes) /\ input = << Head(input) >> \o Tail(input)
      BY <1>1, <3>2, HeadTailProperties
    <3> QED
      BY <1>2, <3>2, <3>3 DEF Cat
  <2>3. Cat(Cat(a, b), input) = fed
    <3>1. Cat(Cat(a, Pending), Copies(state_in_ch, state_in_len)) = Cat(a, b)
      BY KnownType, CatAssoc
    <3>2. Cat(Cat(Cat(a, Pending), Copies(state_in_ch, state_in_len)), input) = fed
      BY NothingLostIs DEF TextInv
    <3> QED
      BY <3>1, <3>2
  <2>4. Append(b, c) = Cat(b, e)
    BY <1>3, <2>1, AppendIsConcat DEF Cat
  <2>5. Cat(Cat(a, Pending'), Copies(state_in_ch', state_in_len')) = Cat(a, Cat(b, e))
    <3>1. Pending' \in Seq(Bytes) /\ Copies(state_in_ch', state_in_len') \in Seq(Bytes)
      <4>1. block' \in Seq(Bytes) /\ state_in_len' \in Nat /\ state_in_ch' \in Bytes
        <5>0. block \in Seq(Bytes) /\ WithRun \in Seq(Bytes)
          <6>1. TypeOK
            BY StreamTypes
          <6> QED
            BY <6>1, BlockWithRun DEF TypeOK, Bytes
        <5>1. block' \in Seq(Bytes) /\ state_in_len' \in Nat
          BY <5>0, <1>2, <1>3
        <5>2. state_in_ch' \in Bytes
          BY <1>2, <1>3
        <5> QED
          BY <5>1, <5>2
      <4> QED
        BY <1>5, <4>1, UnRLEType, CopiesType
    <3>2. Cat(Pending', Copies(state_in_ch', state_in_len')) = Cat(b, e)
      BY <1>7, <2>4
    <3> HIDE DEF b, e
    <3> QED
      BY <2>1, <3>1, <3>2, CatAssoc
  <2> HIDE DEF a, b, e, t
  <2>6. Cat(Cat(a, Cat(b, e)), t) = Cat(Cat(a, b), Cat(e, t))
    <3>1. Cat(a, Cat(b, e)) = Cat(Cat(a, b), e) /\ Cat(a, b) \in Seq(Bytes)
      BY <2>1, CatAssoc, CatType
    <3> QED
      BY <2>1, <2>2, <3>1, CatAssoc
  <2> QED
    BY <1>1, <1>6, <2>2, <2>3, <2>5, <2>6 DEF a, t
<1> QED
  BY <1>7, <1>8, <1>9, <1>10, <1>11, <1>12, <1>13 DEF TextInv

\* The compressor sets out to copy a block: its text is that of the block and of the run that
\* went into it.
LEMMA CompressKeepsText ==
    ASSUME Inv, Inv', TextInv, state = "INPUT", state' = "OUTPUT", pc = "handle",
           numZ' >= 1, BlockEnd' >= HeaderEnd', BlockEnd' = HeaderEnd' <=> block' = << >>,
           ~trailer' => block' # << >>,
           trailer' => mode = "FINISHING" /\ avail_in_expect = 0 /\ EmptyRL',
           OneRun',
           Cat(UnRLE(block'), Copies(state_in_ch', state_in_len'))
             = Cat(UnRLE(block), Copies(state_in_ch, state_in_len)),
           UNCHANGED << pc, call, input, buf, luabuf, mode, avail_in_expect, progress, fed, out,
                        stage, blockNo, state_out_pos >>
    PROVE  TextInv'
<1>1. state_out_pos = 0 /\ state_out_pos' = 0
  BY DEF Inv, FillingBlock
<1>2. Made' = Made
  BY DEF Made
<1>3. StreamsHold' /\ Fresh' /\ ReaderReady' /\ ZbitsHold'
  BY DEF TextInv, StreamsHold, Fresh, ReaderReady, ZbitsHold
<1>4. InOrder'
  BY DEF TextInv, InOrder
<1>5. Moves'
  <2>1. state_out_pos' < numZ'
    <3>1. numZ' \in Nat
      BY Constants DEF Inv, BlockFits, TypeOK
    <3> QED
      BY <1>1, <3>1
  <2> QED
    BY <2>1 DEF TextInv, Moves
<1>6. StreamSoFar'
  <2> SUFFICES ASSUME stage = "open" PROVE StreamPrefix(Made') /\ EndsHere(Made)'
    BY DEF StreamSoFar
  <2>1. StreamPrefix(Made) /\ EndsHere(Made)
    BY DEF TextInv, StreamSoFar
  <2>2. EndsHere(Made)'
    BY <1>1, <1>2, <2>1 DEF EndsHere
  <2> QED
    BY <1>2, <2>1, <2>2
<1>7. NothingLost'
  <2>1. Pending = UnRLE(block)
    BY DEF Pending
  <2>2. Pending' = UnRLE(block')
    <3>1. HeaderEnd' \in 0..1 /\ BlockEnd' \in Int
      <4>1. HeaderEnd' \in 0..1
        BY DEF HeaderEnd
      <4>2. numZ' \in Nat
        BY Constants DEF Inv, BlockFits, TypeOK
      <4> QED
        BY <4>1, <4>2 DEF BlockEnd
    <3>2. state_out_pos' >= BlockEnd' => block' = << >>
      BY <1>1, <3>1
    <3> QED
      BY <3>2, UnRLEEmpty DEF Pending
  <2> SUFFICES ASSUME stage = "open"
               PROVE  Cat(Cat(Cat(TextOf(Made'), Pending'), Copies(state_in_ch', state_in_len')),
                          input') = fed'
    BY DEF NothingLost, Made, Pending, Copies, Cat
  <2> DEFINE a == TextOf(Made)
             p == UnRLE(block)
             r == Copies(state_in_ch, state_in_len)
             q == UnRLE(block')
             s == Copies(state_in_ch', state_in_len')
  <2>3. Cat(Cat(Cat(a, p), r), input) = fed
    BY <2>1, NothingLostIs DEF TextInv
  <2>4. a \in Seq(Bytes) /\ p \in Seq(Bytes) /\ r \in Seq(Bytes)
    BY KnownType
  <2>5. q \in Seq(Bytes) /\ s \in Seq(Bytes)
    <3>1. /\ block' \in Seq(Bytes) /\ state_in_len' \in Nat
          /\ state_in_ch' \in Chars \cup { NoChar }
      BY Constants DEF Inv, BlockFits, TypeOK, Bytes
    <3>2. CASE state_in_ch' = NoChar
      BY <3>1, <3>2, NoCopies, EmptySeq, UnRLEType DEF OneRun
    <3>3. CASE state_in_ch' # NoChar
      <4>1. state_in_ch' \in Bytes
        BY <3>1, <3>3, Constants DEF Bytes
      <4> QED
        BY <3>1, <4>1, CopiesType, UnRLEType
    <3> QED
      BY <3>2, <3>3
  <2>6. Cat(q, s) = Cat(p, r)
    OBVIOUS
  <2> HIDE DEF a, p, r, q, s
  <2>7. Cat(Cat(a, q), s) = Cat(Cat(a, p), r)
    BY <2>4, <2>5, <2>6, CatAssoc
  <2> QED
    BY <1>2, <2>2, <2>3, <2>7 DEF a, q, s
<1> QED
  BY <1>3, <1>4, <1>5, <1>6, <1>7 DEF TextInv

\* What BZ2_compressBlock leaves in zbits: of a block that is not empty at least a byte.
LEMMA CompressedParts ==
    ASSUME NEW content, NEW last \in BOOLEAN, CompressBlock(content, last), content = << >> => last
    PROVE  /\ block' = content /\ trailer' = last /\ state' = "OUTPUT"
           /\ UNCHANGED << blockNo, state_out_pos >>
           /\ numZ' >= 1 /\ BlockEnd' >= HeaderEnd'
           /\ BlockEnd' = HeaderEnd' <=> block' = << >>
<1>1. /\ block' = content /\ trailer' = last /\ state' = "OUTPUT"
      /\ UNCHANGED << blockNo, state_out_pos >>
  BY DEF CompressBlock
<1>2. PICK n \in IF content = << >> THEN { 0 } ELSE 1..MaxZ :
        numZ' = HeaderEnd + n + (IF last THEN 1 ELSE 0)
  BY DEF CompressBlock
<1>3. n \in Nat /\ (n = 0 <=> content = << >>)
  BY <1>2, Constants
<1>4. HeaderEnd \in 0..1 /\ HeaderEnd' = HeaderEnd
  BY <1>1 DEF HeaderEnd
<1>5. BlockEnd' = HeaderEnd + n
  BY <1>1, <1>2, <1>3, <1>4 DEF BlockEnd
<1> QED
  BY <1>1, <1>2, <1>3, <1>4, <1>5

LEMMA LastBlockKeepsText ==
    ASSUME Inv, TextInv, LastBlock
    PROVE  TextInv'
<1>1. /\ pc = "handle" /\ state = "INPUT" /\ InputEnds
      /\ CompressBlock(WithRun, mode = "FINISHING")
      /\ state_in_ch' = NoChar /\ state_in_len' = 0
      /\ UNCHANGED << pc, call, input, buf, luabuf, mode, avail_in_expect, progress, fed, out,
                      stage >>
  BY DEF LastBlock, history
<1>2. mode = "FINISHING" /\ avail_in_expect = 0
  BY <1>1 DEF Inv, BlockFits, TypeOK, HandlesOpenStream, InputEnds
<1>3. CompressBlock(WithRun, TRUE)
  BY <1>1, <1>2
<1>4. /\ block' = WithRun /\ trailer' = TRUE /\ state' = "OUTPUT"
      /\ UNCHANGED << blockNo, state_out_pos >>
      /\ numZ' >= 1 /\ BlockEnd' >= HeaderEnd'
      /\ BlockEnd' = HeaderEnd' <=> block' = << >>
  BY <1>3, CompressedParts
<1>5. Inv'
  BY LastBlockKeepsInv
<1>6. OneRun' /\ EmptyRL'
  BY <1>1 DEF OneRun, EmptyRL
<1>7. Cat(UnRLE(block'), Copies(state_in_ch', state_in_len'))
        = Cat(UnRLE(block), Copies(state_in_ch, state_in_len))
  <2> DEFINE t == Cat(UnRLE(block), Copies(state_in_ch, state_in_len))
  <2>1. UnRLE(block') = t
    BY <1>1, <1>4, RunIntoBlock
  <2>2. t \in Seq(Bytes)
    BY KnownType, CatType
  <2>3. Copies(state_in_ch', state_in_len') = << >>
    BY <1>1, NoCopies
  <2> HIDE DEF t
  <2>4. Cat(UnRLE(block'), Copies(state_in_ch', state_in_len')) = t
    BY <2>1, <2>2, <2>3, CatEmpty
  <2> QED
    BY <2>4 DEF t
<1> QED
  BY <1>1, <1>2, <1>4, <1>5, <1>6, <1>7, CompressKeepsText

LEMMA FullBlockKeepsText ==
    ASSUME Inv, TextInv, FullBlock
    PROVE  TextInv'
<1>1. /\ pc = "handle" /\ state = "INPUT" /\ BlockFull
      /\ CompressBlock(block, FALSE)
      /\ UNCHANGED << pc, call, input, buf, luabuf, mode, avail_in_expect, rl, progress, fed, out,
                      stage >>
  BY DEF FullBlock, history
<1>2. block # << >>
  BY <1>1, Constants, EmptySeq DEF BlockFull
<1>3. /\ block' = block /\ trailer' = FALSE /\ state' = "OUTPUT"
      /\ UNCHANGED << blockNo, state_out_pos >>
      /\ numZ' >= 1 /\ BlockEnd' >= HeaderEnd'
      /\ BlockEnd' = HeaderEnd' <=> block' = << >>
  BY <1>1, <1>2, CompressedParts
<1>4. Inv'
  BY FullBlockKeepsInv
<1>5. OneRun'
  BY <1>1 DEF TextInv, OneRun, rl
<1>6. Cat(UnRLE(block'), Copies(state_in_ch', state_in_len'))
        = Cat(UnRLE(block), Copies(state_in_ch, state_in_len))
  BY <1>1, <1>3 DEF rl
<1> QED
  BY <1>1, <1>2, <1>3, <1>4, <1>5, <1>6, CompressKeepsText

\* Copying out loses nothing and invents nothing, whatever room the buffer has.
LEMMA CopyOutputKeepsText ==
    ASSUME Inv, TextInv, CopyOutput
    PROVE  TextInv'
<1> DEFINE left == numZ - state_out_pos
           n    == IF AvailOut < left THEN AvailOut ELSE left
           all  == Cat(Made, Copied(n))
<1>0. /\ TypeOK /\ ZbitsHold /\ Made \in Seq(ZBytes) /\ buf \in Seq(ZBytes)
      /\ out \in Seq(ZBytes) /\ luabuf \in Seq(ZBytes)
  BY StreamTypes DEF TextInv
<1>1. /\ pc = "handle" /\ state = "OUTPUT"
      /\ UNCHANGED << call, input, luabuf, mode, avail_in_expect, rl, fed, out, stage >>
      /\ buf' = Cat(buf, Copied(n))
      /\ progress' = (progress \/ n > 0)
  BY DEF CopyOutput, history, Copied, Cat
<1>2. \/ /\ n < left \/ (mode = "FINISHING" /\ avail_in_expect = 0 /\ EmptyRL)
         /\ state_out_pos' = state_out_pos + n
         /\ pc' = "called"
         /\ UNCHANGED << state, block, blockNo, numZ, trailer >>
      \/ /\ n = left /\ ~(mode = "FINISHING" /\ avail_in_expect = 0 /\ EmptyRL)
         /\ prepare_new_block
         /\ state' = "INPUT"
         /\ pc' = pc
  BY DEF CopyOutput
<1>3. /\ numZ \in Nat /\ numZ >= 1 /\ state_out_pos \in 0..numZ
      /\ HeaderEnd \in 0..1 /\ (HeaderEnd = 1 <=> blockNo = 1)
      /\ BlockEnd \in HeaderEnd..numZ
      /\ trailer => BlockEnd = numZ - 1
      /\ ~trailer => BlockEnd = numZ
      /\ ~trailer => BlockEnd > HeaderEnd
  BY <1>0, <1>1, ZbitsParts
<1>4. Len(buf) \in Nat /\ Len(buf) <= BufSize
  BY <1>0, LenProperties DEF TypeOK
<1>5. n \in Nat /\ n <= left /\ left \in Nat /\ (n = 0 /\ Len(buf) < BufSize => left = 0)
  BY <1>3, <1>4, Constants DEF AvailOut
<1> HIDE DEF n
<1>6. Copied(n) \in Seq(ZBytes)
  BY <1>0, <1>5, CopiedType
<1>7. Made' = all
  <2>1. Made' = Cat(Cat(out, luabuf), Cat(buf, Copied(n)))
    BY <1>1 DEF Made
  <2>2. Cat(out, luabuf) \in Seq(ZBytes)
    BY <1>0, CatType
  <2> QED
    BY <1>0, <1>6, <2>1, <2>2, CatAssoc DEF Made
<1>8. TextOf(all) = Cat(TextOf(Made), TextOf(Copied(n)))
  BY <1>0, <1>6, TextOfCat
<1>9. stage = "open" =>
        /\ StreamPrefix(all)
        /\ state_out_pos + n > 0 => all # << >> /\ all[Len(all)] = Zbyte(state_out_pos + n)
  BY <1>0, <1>1, <1>3, <1>5, CopiedExtends DEF TextInv, StreamSoFar
<1> HIDE DEF all
<1>10. stage = "open" => progress'
  <2>1. ASSUME stage = "open", ~progress PROVE n > 0
    <3>1. Len(buf) < BufSize /\ state_out_pos < numZ
      BY <1>1, <2>1 DEF TextInv, Moves
    <3> QED
      BY <1>3, <1>5, <3>1
  <2> QED
    BY <1>1, <2>1, Zenon
<1>11. stage = "open" /\ trailer => mode = "FINISHING" /\ avail_in_expect = 0 /\ EmptyRL
  BY DEF TextInv, InOrder
<1>12. ~trailer => ~EmptyRL
  BY <1>1 DEF Inv, FullBlockLeavesRun
\* What has come out and what has not are together what they were.
<1>13. ASSUME Pending' = IF state_out_pos + n >= BlockEnd THEN << >> ELSE UnRLE(block)
       PROVE  NothingLost'
  <2>1. TextOf(Copied(n)) = IF state_out_pos < BlockEnd /\ BlockEnd <= state_out_pos + n
                            THEN UnRLE(block) ELSE << >>
    BY <1>0, <1>1, <1>5, CopiedText
  <2>2. Cat(TextOf(Copied(n)), Pending') = Pending
    <3>1. UnRLE(block) \in Seq(Bytes) /\ << >> \in Seq(Bytes)
      BY KnownType, EmptySeq
    <3>2. Pending = IF state_out_pos >= BlockEnd THEN << >> ELSE UnRLE(block)
      BY <1>1 DEF Pending
    <3>3. CASE state_out_pos >= BlockEnd
      <4>1. ~(state_out_pos < BlockEnd) /\ state_out_pos + n >= BlockEnd
        BY <1>3, <1>5, <3>3
      <4> QED
        BY <1>13, <2>1, <3>1, <3>2, <3>3, <4>1, CatEmpty
    <3>4. CASE state_out_pos < BlockEnd /\ BlockEnd <= state_out_pos + n
      <4>1. ~(state_out_pos >= BlockEnd) /\ state_out_pos + n >= BlockEnd
        BY <1>3, <1>5, <3>4
      <4> QED
        BY <1>13, <2>1, <3>1, <3>2, <3>4, <4>1, CatEmpty
    <3>5. CASE state_out_pos < BlockEnd /\ ~(BlockEnd <= state_out_pos + n)
      <4>1. ~(state_out_pos >= BlockEnd) /\ ~(state_out_pos + n >= BlockEnd)
        BY <1>3, <1>5, <3>5
      <4> QED
        BY <1>13, <2>1, <3>1, <3>2, <3>5, <4>1, CatEmpty
    <3> QED
      BY <1>3, <3>3, <3>4, <3>5
  <2> SUFFICES ASSUME stage = "open"
               PROVE  Cat(Cat(Cat(TextOf(Made'), Pending'), Copies(state_in_ch', state_in_len')),
                          input') = fed'
    BY <1>1 DEF NothingLost, Made, Pending, Copies, Cat
  <2>3. Cat(Cat(Cat(TextOf(Made), Pending), Copies(state_in_ch, state_in_len)), input) = fed
    BY NothingLostIs DEF TextInv
  <2>4. Cat(TextOf(Made'), Pending') = Cat(TextOf(Made), Pending)
    <3>1. /\ TextOf(Made) \in Seq(Bytes) /\ TextOf(Copied(n)) \in Seq(Bytes)
          /\ Pending' \in Seq(Bytes)
      BY <1>6, <1>13, KnownType, TextOfType, EmptySeq
    <3> QED
      BY <1>7, <1>8, <2>2, <3>1, CatAssoc
  <2> QED
    BY <1>1, <2>3, <2>4 DEF rl
<1>14. CASE /\ n < left \/ (mode = "FINISHING" /\ avail_in_expect = 0 /\ EmptyRL)
            /\ state_out_pos' = state_out_pos + n
            /\ pc' = "called"
            /\ UNCHANGED << state, block, blockNo, numZ, trailer >>
  <2>1. /\ HeaderEnd' = HeaderEnd /\ BlockEnd' = BlockEnd
        /\ Zbyte(state_out_pos)' = Zbyte(state_out_pos + n)
    BY <1>14 DEF HeaderEnd, BlockEnd, Zbyte
  <2>2. OneRun' /\ ReaderReady' /\ ZbitsHold'
    BY <1>1, <1>14, <2>1 DEF TextInv, OneRun, ReaderReady, ZbitsHold, rl
  <2>3. StreamsHold' /\ Fresh'
    BY <1>1, <1>14 DEF TextInv, StreamsHold, Fresh
  <2>4. InOrder'
    BY <1>1, <1>14 DEF TextInv, InOrder, EmptyRL, rl
  <2>5. Moves'
    <3>1. ~trailer => state_out_pos' < numZ
      BY <1>3, <1>5, <1>12, <1>14
    <3> QED
      BY <1>1, <1>10, <1>14, <3>1 DEF Moves
  <2>6. StreamSoFar'
    <3> SUFFICES ASSUME stage = "open" PROVE StreamPrefix(Made') /\ EndsHere(Made)'
      BY <1>1 DEF StreamSoFar
    <3>1. CASE state_out_pos' > 0
      BY <1>1, <1>7, <1>9, <1>14, <2>1, <3>1 DEF EndsHere
    <3>2. CASE ~(state_out_pos' > 0)
      <4>1. n = 0 /\ state_out_pos = 0 /\ state_out_pos' = 0
        BY <1>3, <1>5, <1>14, <3>2
      <4>2. Copied(n) = << >>
        BY <1>0, <4>1, CopiedType, EmptySeq
      <4>3. Made' = Made
        BY <1>0, <1>7, <4>2, CatEmpty DEF all
      <4>4. StreamPrefix(Made) /\ EndsHere(Made)
        BY DEF TextInv, StreamSoFar
      <4> QED
        BY <1>14, <4>1, <4>3, <4>4 DEF EndsHere
    <3> QED
      BY <3>1, <3>2
  <2>7. NothingLost'
    <3>1. Pending' = IF state_out_pos + n >= BlockEnd THEN << >> ELSE UnRLE(block)
      BY <1>1, <1>14, <2>1 DEF Pending
    <3> QED
      BY <1>13, <3>1
  <2> QED
    BY <2>2, <2>3, <2>4, <2>5, <2>6, <2>7 DEF TextInv
<1>15. CASE /\ n = left /\ ~(mode = "FINISHING" /\ avail_in_expect = 0 /\ EmptyRL)
            /\ prepare_new_block
            /\ state' = "INPUT"
            /\ pc' = pc
  <2>1. /\ block' = << >> /\ blockNo' = 2
        /\ numZ' = 0 /\ state_out_pos' = 0 /\ trailer' = FALSE
    BY <1>15 DEF prepare_new_block
  <2>2. ReadRuns(block') = NothingRead /\ UnRLE(block') = << >>
    BY <2>1, ReadEmpty, UnRLEEmpty
  <2>3. OneRun' /\ ReaderReady' /\ ZbitsHold'
    <3>1. state_in_ch # NoChar => state_in_ch \in Chars /\ -1 \notin Chars
      BY <1>0, Constants DEF TypeOK
    <3> QED
      BY <1>1, <1>15, <2>1, <2>2, <3>1 DEF TextInv, OneRun, ReaderReady, ZbitsHold, NothingRead, rl
  <2>4. StreamsHold' /\ Fresh'
    BY <1>1, <1>15 DEF TextInv, StreamsHold, Fresh
  <2>5. InOrder'
    BY <1>1, <1>15, <2>1 DEF TextInv, InOrder
  <2>6. Moves'
    BY <1>1, <1>10, <1>15 DEF Moves
  <2>7. StreamSoFar'
    <3> SUFFICES ASSUME stage = "open" PROVE StreamPrefix(Made') /\ EndsHere(Made)'
      BY <1>1 DEF StreamSoFar
    <3>1. ~trailer
      BY <1>11, <1>15
    <3>2. state_out_pos + n = numZ /\ state_out_pos + n > 0
      BY <1>3, <1>5, <1>15
    <3>3. Made' # << >> /\ Made'[Len(Made')] = Zbyte(numZ)
      BY <1>7, <1>9, <3>2
    <3>4. Zbyte(numZ) = Byte("block", block, numZ - HeaderEnd, numZ - HeaderEnd, TRUE)
      <4>1. BlockEnd = numZ /\ ~(numZ <= HeaderEnd) /\ numZ <= numZ
        BY <1>3, <3>1
      <4> QED
        BY <4>1, Zenon DEF Zbyte
    <3>5. IsLast(Zbyte(numZ)) /\ Zbyte(numZ).part # "trailer"
      BY <3>4 DEF IsLast, Byte
    <3>6. EndsHere(Made)'
      BY <1>15, <2>1, <3>3, <3>5 DEF EndsHere
    <3> QED
      BY <1>7, <1>9, <3>6
  <2>8. NothingLost'
    <3>1. Pending' = << >>
      BY <1>15, <2>2 DEF Pending
    <3>2. state_out_pos + n >= BlockEnd
      BY <1>3, <1>5, <1>15
    <3> QED
      BY <1>13, <3>1, <3>2
  <2> QED
    BY <2>3, <2>4, <2>5, <2>6, <2>7, <2>8 DEF TextInv
<1> QED
  BY <1>2, <1>14, <1>15

-----------------------------------------------------------------------------
(* The theorems about the text.                                            *)

LEMMA TextInvInit == Init => TextInv
<1> SUFFICES ASSUME Init PROVE TextInv
  OBVIOUS
<1>1. /\ out = << >> /\ luabuf = << >> /\ stage = "stale" /\ block = << >> /\ state = "INPUT"
      /\ state_in_ch = NoChar /\ state_in_len = 0
  BY DEF Init
<1>2. << >> \in Seq(ZBytes)
  BY EmptySeq
<1>3. StreamsHold /\ Fresh /\ InOrder /\ Moves /\ StreamSoFar /\ NothingLost
  BY <1>1, <1>2 DEF StreamsHold, Fresh, InOrder, Moves, StreamSoFar, NothingLost
<1>4. OneRun /\ ReaderReady /\ ZbitsHold
  BY <1>1, ReadEmpty DEF OneRun, ReaderReady, ZbitsHold, NothingRead
<1> QED
  BY <1>3, <1>4 DEF TextInv

LEMMA TextInvStep == Inv /\ TextInv /\ [Next]_vars => TextInv'
<1> SUFFICES ASSUME Inv, TextInv, [Next]_vars PROVE TextInv'
  OBVIOUS
<1>1. CASE Caller
  BY <1>1, CreateKeepsText, UpdateKeepsText, FinishKeepsText DEF Caller
<1>2. CASE System
  <2>1. CASE UpdateReturns \/ BzCompress \/ OutOfSequence
    BY <2>1, UpdateReturnsKeepsText, BzCompressKeepsText, OutOfSequenceKeepsText
  <2>2. CASE CopyOutput \/ CopyInput
    BY <2>2, CopyOutputKeepsText, CopyInputKeepsText
  <2>3. CASE LastBlock \/ FullBlock \/ OutOfInput
    BY <2>3, LastBlockKeepsText, FullBlockKeepsText, OutOfInputKeepsText
  <2>4. CASE GoOn \/ FinishReturns
    BY <2>4, GoOnKeepsText, FinishReturnsKeepsText
  <2> QED
    BY <1>2, <2>1, <2>2, <2>3, <2>4 DEF System
<1>3. CASE UNCHANGED vars
  <2>1. /\ UNCHANGED << pc, call, input, buf, luabuf, mode, state, avail_in_expect, rl, block,
                        blockNo, zbits, progress, fed, out, stage >>
    BY <1>3 DEF vars, estate, history
  <2>2. Made' = Made
    BY <2>1 DEF Made
  <2>3. OneRun' /\ ReaderReady' /\ ZbitsHold' /\ StreamSoFar' /\ NothingLost'
    BY <2>1, <2>2, CoderKept, StreamKept, TextKept DEF TextInv
  <2>4. StreamsHold'
    BY <2>1 DEF TextInv, StreamsHold
  <2>5. Fresh'
    BY <2>1 DEF TextInv, Fresh, Init, rl, zbits
  <2>6. InOrder'
    BY <2>1 DEF TextInv, InOrder, EmptyRL, rl, zbits
  <2>7. Moves'
    BY <2>1 DEF TextInv, Moves, InputEnds, zbits
  <2> QED
    BY <2>3, <2>4, <2>5, <2>6, <2>7 DEF TextInv
<1> QED
  BY <1>1, <1>2, <1>3 DEF Next

LEMMA TextInvHolds == Spec => []TextInv
<1>1. Inv /\ TextInv /\ [Next]_vars => Inv' /\ TextInv'
  BY InvStep, TextInvStep
<1> QED
  BY InvInit, TextInvInit, <1>1, PTL DEF Spec

\* Wherever a call is cut up by the sizes of the chunk, the block and the buffer, what has come
\* out, the block, the counted run and the unread input make up the text (bzlib.c:216-444 and
\* the loops of ltn12ce_comp_bzip2.c:40-130).
THEOREM NothingIsLost == Spec => []NothingLost
<1>1. TextInv => NothingLost
  BY DEF TextInv
<1> QED
  BY TextInvHolds, <1>1, PTL

-----------------------------------------------------------------------------
(* Every step is a step of the contract.                                   *)

\* A step that loses the stream, or is taken outside of one, is a step of the contract.
LEMMA Lost ==
    ASSUME stage' # "open", stage = "open" => stage' = "stale"
    PROVE  Contract!FNext
<1>1. CASE stage = "open"
  BY <1>1 DEF Contract!FNext, Contract!Abandon
<1>2. CASE stage # "open"
  BY <1>2 DEF Contract!FNext, Contract!Outside
<1> QED
  BY <1>1, <1>2

\* The stream is over: it is whole, and its text is the input.
LEMMA EndIsComplete ==
    ASSUME Inv, TextInv, stage = "open", pc = "called", StreamEnds
    PROVE  WholeStream(Made) /\ TextOf(Made) = fed
<1>1. /\ TypeOK /\ ZbitsHold /\ Made \in Seq(ZBytes)
  BY StreamTypes DEF TextInv
<1>2. mode = "FINISHING" /\ avail_in_expect = 0 /\ EmptyRL /\ state_out_pos >= numZ
  BY DEF StreamEnds
<1>3. state = "OUTPUT" /\ Len(input) = 0
  BY <1>1, <1>2 DEF TextInv, InOrder, TypeOK
<1>4. trailer
  BY <1>2, <1>3 DEF Inv, FullBlockLeavesRun
<1>5. /\ numZ \in Nat /\ numZ >= 1 /\ state_out_pos = numZ
      /\ HeaderEnd \in 0..1 /\ BlockEnd = numZ - 1 /\ BlockEnd >= HeaderEnd
  BY <1>1, <1>2, <1>3, <1>4, ZbitsParts
<1>6. /\ StreamPrefix(Made) /\ Made # << >> /\ Made[Len(Made)] = Zbyte(numZ)
  BY <1>3, <1>5 DEF TextInv, StreamSoFar, EndsHere
<1>7. Zbyte(numZ) = Byte("trailer", << >>, 1, 1, TRUE)
  <2>1. ~(numZ <= HeaderEnd) /\ ~(numZ <= BlockEnd)
    BY <1>5
  <2> QED
    BY <2>1, Zenon DEF Zbyte
<1>8. WholeStream(Made)
  <2>1. Last(Made) = Byte("trailer", << >>, 1, 1, TRUE)
    BY <1>6, <1>7 DEF Last
  <2>2. Last(Made).part = "trailer" /\ IsLast(Last(Made))
    BY <2>1 DEF Byte, IsLast
  <2> QED
    BY <1>6, <2>2 DEF WholeStream
<1>9. TextOf(Made) = fed
  <2>1. Pending = << >>
    BY <1>3, <1>5 DEF Pending
  <2>2. Copies(state_in_ch, state_in_len) = << >>
    <3>1. state_in_len = 0
      BY <1>2 DEF EmptyRL, TextInv, OneRun
    <3> QED
      BY <3>1, NoCopies
  <2>3. input = << >>
    BY <1>1, <1>3, EmptySeq DEF TypeOK
  <2>4. Cat(Cat(Cat(TextOf(Made), Pending), Copies(state_in_ch, state_in_len)), input) = fed
    BY NothingLostIs DEF TextInv
  <2>5. TextOf(Made) \in Seq(Bytes)
    BY KnownType
  <2> QED
    BY <2>1, <2>2, <2>3, <2>4, <2>5, CatEmpty
<1> QED
  BY <1>8, <1>9

LEMMA ContractStep == Inv /\ TextInv /\ [Next]_vars => [Contract!FNext]_(Contract!contract)
<1> SUFFICES ASSUME Inv, TextInv, [Next]_vars
             PROVE  Contract!FNext \/ UNCHANGED Contract!contract
  OBVIOUS
<1>0. /\ TypeOK /\ out \in Seq(ZBytes) /\ fed \in Seq(Chars) /\ Made \in Seq(ZBytes)
      /\ luabuf \in Seq(ZBytes) /\ buf \in Seq(ZBytes)
      /\ out \o (luabuf \o buf) = Made
  BY StreamTypes DEF Inv, BuffersHold
<1>1. CASE Create
  <2>1. Init
    BY <1>1 DEF TextInv, Fresh, Create
  <2>2. fed' = << >> /\ out' = << >> /\ stage' = "open"
    BY <1>1, <2>1 DEF Create, Init
  <2> QED
    BY <2>2 DEF Contract!FNext, Contract!Begin
<1>2. ASSUME NEW chunk \in Chunks, Update(chunk)
      PROVE  Contract!FNext
  <2>1. CASE stage = "open"
    <3>1. stage' = "open" /\ out' = out /\ fed' = fed \o chunk
      BY <1>2, <2>1 DEF Update
    <3>2. chunk \in Seq(Chars)
      BY DEF Chunks, BoundedSeq, SeqOf
    <3>3. IsPrefix(fed, fed') /\ IsPrefix(out, out')
      BY <1>0, <3>1, <3>2, PrefixOfJoin, PrefixOfItself
    <3> QED
      BY <2>1, <3>1, <3>3 DEF Contract!FNext, Contract!Update, Contract!IsPrefix, IsPrefix
  <2>2. CASE stage # "open"
    BY <1>2, <2>2, Lost DEF Update
  <2> QED
    BY <2>1, <2>2
<1>3. CASE Finish
  BY <1>3 DEF Finish, history, Contract!contract
<1>4. CASE UpdateReturns
  <2>1. CASE Raise("stale")
    BY <2>1, Lost DEF Raise
  <2>2. CASE Return(luabuf \o buf, "open") /\ stage # "open"
    BY <2>2, Lost DEF Return
  <2>3. CASE Return(luabuf \o buf, "open") /\ stage = "open"
    <3>1. stage' = "open" /\ out' = out \o (luabuf \o buf) /\ fed' = fed
      BY <2>3 DEF Return
    <3>2. IsPrefix(out, out')
      <4> DEFINE result == luabuf \o buf
      <4>1. result \in Seq(ZBytes)
        BY <1>0, ConcatProperties
      <4> HIDE DEF result
      <4>2. IsPrefix(out, out \o result)
        BY <1>0, <4>1, PrefixOfJoin
      <4> QED
        BY <3>1, <4>2 DEF result
    <3>3. IsPrefix(fed, fed')
      BY <1>0, <3>1, PrefixOfItself
    <3> QED
      BY <2>3, <3>1, <3>2, <3>3 DEF Contract!FNext, Contract!Update, Contract!IsPrefix, IsPrefix
  <2> QED
    BY <1>4, <2>1, <2>2, <2>3 DEF UpdateReturns
<1>5. CASE BzCompress \/ CopyOutput \/ CopyInput \/ LastBlock \/ FullBlock \/ OutOfInput
  <2>1. UNCHANGED << fed, out, stage >>
    BY <1>5 DEF BzCompress, CopyOutput, CopyInput, LastBlock, FullBlock, OutOfInput, history
  <2> QED
    BY <2>1 DEF Contract!contract
\* In the middle of a stream the calls are in order: the filter raises no error of its own.
<1>6. CASE OutOfSequence
  <2>1. stage # "open"
    BY <1>6 DEF OutOfSequence, TextInv, InOrder
  <2>2. stage' # "open"
    BY <1>6 DEF OutOfSequence, Raise
  <2> QED
    BY <2>1, <2>2, Lost
<1>7. CASE GoOn
  <2>1. CASE Raise("stale")
    BY <2>1, Lost DEF Raise
  <2>2. CASE ~progress /\ Raise("refused")
    <3>1. stage # "open"
      BY <1>7, <2>2 DEF GoOn, TextInv, Moves
    <3>2. stage' # "open"
      BY <2>2 DEF Raise
    <3> QED
      BY <3>1, <3>2, Lost
  <2>3. CASE UNCHANGED history
    BY <2>3 DEF history, Contract!contract
  <2> QED
    BY <1>7, <2>1, <2>2, <2>3 DEF GoOn
<1>8. CASE FinishReturns
  <2>1. CASE Raise("stale")
    BY <2>1, Lost DEF Raise
  <2>2. CASE Return(luabuf \o buf, "finished") /\ stage # "open"
    BY <2>2, Lost DEF Return
  <2>3. CASE Return(luabuf \o buf, "finished") /\ stage = "open"
    <3>1. stage' = "finished" /\ out' = out \o (luabuf \o buf) /\ fed' = fed
      BY <2>3 DEF Return
    <3>2. out' = Made
      BY <1>0, <3>1
    <3>3. WholeStream(out') /\ TextOf(out') = fed
      BY <1>8, <2>3, <3>2, EndIsComplete DEF FinishReturns
    <3>4. IsPrefix(out, out')
      <4> DEFINE result == luabuf \o buf
      <4>1. result \in Seq(ZBytes)
        BY <1>0, ConcatProperties
      <4> HIDE DEF result
      <4>2. IsPrefix(out, out \o result)
        BY <1>0, <4>1, PrefixOfJoin
      <4> QED
        BY <3>1, <4>2 DEF result
    <3> QED
      BY <2>3, <3>1, <3>3, <3>4
         DEF Contract!FNext, Contract!Finish, Contract!IsPrefix, IsPrefix, Complete
  <2> QED
    BY <1>8, <2>1, <2>2, <2>3 DEF FinishReturns
<1>9. CASE UNCHANGED vars
  BY <1>9 DEF vars, history, Contract!contract
<1> QED
  BY <1>1, <1>2, <1>3, <1>4, <1>5, <1>6, <1>7, <1>8, <1>9 DEF Next, Caller, System

\* The compression filter keeps the contract of README.md lines 65-84: however the text is cut
\* up, the strings update() and finish() return concatenate to one whole stream of it, and
\* neither raises an error but for want of memory.
THEOREM Bzip2KeepsContract == Spec => FilterContract
<1>1. Init => Contract!FInit
  BY DEF Init, Contract!FInit
<1> QED
  BY <1>1, ContractStep, InvHolds, TextInvHolds, PTL DEF Spec, FilterContract, Contract!FSpec
=============================================================================
