-------------------------- MODULE Bzip2Decompress --------------------------
(***************************************************************************)
(* The bzip2 decompression filter: lbzip2_update and lbzip2_finish of      *)
(* src/src/ltn12ce_comp_bzip2.c over BZ2_bzDecompress of                   *)
(* src/src/bzip2/bzlib.c and the parser of src/src/bzip2/decompress.c,     *)
(* which stops wherever the input ends and goes on there at the next call. *)
(*                                                                         *)
(* The parser's 38 states between the first byte of a block and its last   *)
(* one are the number of bytes read (variable at).  A byte it does not     *)
(* take stands for whatever damage makes it return BZ_DATA_ERROR before    *)
(* the block is there; damage only the checksum shows is an unsound part.  *)
(* The block is not randomised: for one that is, bzlib.c:540-587 does the  *)
(* same byte by byte, with the state kept in the object.                   *)
(***************************************************************************)
EXTENDS Bzip2Format

CONSTANTS
    Streams,        \* compressed data a caller may have, whole, damaged or with more behind it
    BufSize         \* BUFFER_SIZE

ASSUME DecompressConstants ==
    /\ BufSize \in Nat \ {0}
    /\ \A z \in Streams : \A i \in 1..Len(z) :
         /\ z[i].part \in { "header", "block", "trailer", "other" }
         /\ z[i].of \in Nat \ {0} /\ z[i].pos \in 1..z[i].of
         /\ z[i].part = "block" => z[i].block # << >>

VARIABLES
    pc,                     \* where the call is: see the actions
    ret,                    \* ret: "OK", or "STREAM_END"
    input,                  \* next_in, avail_in
    buf,                    \* the bytes in buf; avail_out is what is left of it
    luabuf,                 \* luabuf: output of this call the buffer had no room for
    state,                  \* state: MAGIC, BLKHDR, ENDHDR and IDLE stand for BZ_X_MAGIC_1 to 4, ...
    at,                     \* and this many bytes of the part have been read
    tt,                     \* tt, read along T^(-1): the run length coded block
    blockCRC,               \* storedBlockCRC is the checksum of the block
    nblock_used, k0,        \* the place in tt, and the byte before it, read ahead
    state_out_ch, state_out_len,    \* the run that is being put out
    entry,                  \* the last four as this call of unRLE_obuf_to_output found them
    fed, out, stage         \* history: the contract's view of the stream (module Filter)

unrle == << nblock_used, k0, state_out_ch, state_out_len >>
dstate == << state, at, tt, blockCRC, unrle, entry >>
history == << fed, out, stage >>
vars == << pc, ret, input, buf, luabuf, dstate, history >>

-----------------------------------------------------------------------------
AvailOut == BufSize - Len(buf)

save_nblockPP == Len(tt) + 1

\* The next byte along T^(-1).  Behind the end of the block it is one of its bytes.
BZ_GET_FAST(i) == tt[((i - 1) % Len(tt)) + 1]

\* The call is over and returned this string; a call outside of a stream says nothing.
Return(result, next) ==
    /\ pc' = "idle" /\ ret' = "OK" /\ buf' = << >> /\ luabuf' = << >> /\ input' = << >>
    /\ IF stage = "open" THEN stage' = next /\ out' = out \o result /\ fed' = fed
                         ELSE stage' = "stale" /\ out' = << >> /\ fed' = << >>

\* The call raised an error: what it had put into luabuf and the rest of the chunk are lost.
Raise(next) ==
    /\ pc' = "idle" /\ ret' = "OK" /\ buf' = << >> /\ luabuf' = << >> /\ input' = << >>
    /\ IF stage = "open" /\ next = "refused"
       THEN stage' = "refused" /\ UNCHANGED << fed, out >>
       ELSE stage' = "stale" /\ out' = << >> /\ fed' = << >>

-----------------------------------------------------------------------------
Init ==
    /\ pc = "none" /\ ret = "OK" /\ input = << >> /\ buf = << >> /\ luabuf = << >>
    /\ state = "IDLE" /\ at = 0 /\ tt = << >> /\ blockCRC = TRUE
    /\ nblock_used = 0 /\ k0 = 0 /\ state_out_ch = 0 /\ state_out_len = 0 /\ entry = unrle
    /\ fed = << >> /\ out = << >> /\ stage = "stale"

\* lbzip2("decompress"): BZ2_bzDecompressInit.
Create ==
    /\ pc = "none" /\ pc' = "idle"
    /\ state' = "MAGIC"
    /\ stage' = "open"
    /\ UNCHANGED << ret, input, buf, luabuf, at, tt, blockCRC, unrle, entry, fed, out >>

\* lbzip2_update begins.
Update(chunk) ==
    /\ pc = "idle" /\ pc' = "loop"
    /\ input' = chunk
    /\ fed' = IF stage = "open" THEN fed \o chunk ELSE << >>
    /\ UNCHANGED << ret, buf, luabuf, dstate, out, stage >>

\* lbzip2_finish: "everything should be already decompressed".
Finish ==
    /\ pc = "idle"
    /\ Return(<< >>, "finished")
    /\ UNCHANGED dstate

\* The head of update's loop: all the input is read, or the stream has ended in it.
UpdateReturns ==
    /\ pc = "loop" /\ (input = << >> \/ ret = "STREAM_END")
    /\ \/ Return(luabuf \o buf, "open")
       \/ Raise("stale")        \* luaL_pushresult: not enough memory
    /\ UNCHANGED dstate

\* Seeded fault: nobody looks whether ret is negative.
BzDecompressUnchecked ==
    /\ pc = "loop" /\ input # << >> /\ ret # "STREAM_END"
    /\ pc' = IF state # "IDLE" THEN "decode" ELSE pc
    /\ UNCHANGED << ret, input, buf, luabuf, dstate, history >>

\* BZ2_bzDecompress is called; behind the end of a stream that is BZ_SEQUENCE_ERROR.
BzDecompress ==
    /\ pc = "loop" /\ input # << >> /\ ret # "STREAM_END"
    /\ \/ /\ state # "IDLE"
          /\ pc' = "decode"
          /\ entry' = unrle
          /\ UNCHANGED << ret, input, buf, luabuf, history >>
       \/ state = "IDLE" /\ Raise("refused") /\ UNCHANGED entry
    /\ UNCHANGED << state, at, tt, blockCRC, unrle >>

-----------------------------------------------------------------------------
(* BZ2_decompress, while pc = "decode" and state # "OUTPUT".               *)

\* The byte is the one the parser waits for.
Fits(c) ==
    /\ c.pos = at + 1
    /\ \/ state = "MAGIC" /\ c.part = "header"
       \/ state = "BLKHDR" /\ c.part = "block" /\ (at > 0 => c.block = tt)
       \/ state = "BLKHDR" /\ at = 0 /\ c.part = "trailer"
       \/ state = "ENDHDR" /\ c.part = "trailer"

ReadHeader ==
    /\ pc = "decode" /\ state = "MAGIC" /\ input # << >> /\ Fits(Head(input))
    /\ \/ /\ IF IsLast(Head(input)) THEN state' = "BLKHDR" /\ at' = 0
                                    ELSE state' = state /\ at' = at + 1
          /\ input' = Tail(input)
          /\ UNCHANGED << pc, ret, buf, luabuf, history >>
       \/ /\ IsLast(Head(input)) /\ Raise("stale")      \* BZ_MEM_ERROR: no room for tt
          /\ UNCHANGED << state, at >>
    /\ UNCHANGED << tt, blockCRC, unrle, entry >>

\* With its last byte the block is there; the first byte of it is read ahead.
ReadBlock ==
    /\ pc = "decode" /\ state = "BLKHDR" /\ input # << >> /\ Fits(Head(input))
    /\ LET c == Head(input)
       IN  /\ c.part = "block"
           /\ tt' = c.block /\ blockCRC' = c.sound
           /\ IF IsLast(c)
              THEN /\ state' = "OUTPUT" /\ at' = 0
                   /\ nblock_used' = 1 /\ k0' = c.block[1]
                   /\ state_out_ch' = 0 /\ state_out_len' = 0 /\ entry' = unrle'
              ELSE at' = at + 1 /\ UNCHANGED << state, unrle, entry >>
    /\ input' = Tail(input)
    /\ UNCHANGED << pc, ret, buf, luabuf, history >>

\* With the last byte of the trailer the stream ends, if the checksum of all blocks is right.
ReadTrailer ==
    /\ pc = "decode" /\ state \in { "BLKHDR", "ENDHDR" } /\ input # << >> /\ Fits(Head(input))
    /\ LET c == Head(input)
       IN  /\ c.part = "trailer"
           /\ IF IsLast(c) THEN state' = "IDLE" /\ at' = 0
                           ELSE state' = "ENDHDR" /\ at' = at + 1
           /\ IF IsLast(c) /\ ~c.sound
              THEN Raise("refused")
              ELSE /\ ret' = IF IsLast(c) THEN "STREAM_END" ELSE ret
                   /\ pc' = IF IsLast(c) THEN "called" ELSE pc
                   /\ input' = Tail(input)
                   /\ UNCHANGED << buf, luabuf, history >>
    /\ UNCHANGED << tt, blockCRC, unrle, entry >>

\* BZ_DATA_ERROR_MAGIC, BZ_DATA_ERROR: the state stays, it waits for the same byte again.
ReadMisfit ==
    /\ pc = "decode" /\ state # "OUTPUT" /\ input # << >> /\ ~Fits(Head(input))
    /\ Raise("refused")
    /\ UNCHANGED dstate

\* The input ends here: BZ_OK.
NeedInput ==
    /\ pc = "decode" /\ state # "OUTPUT" /\ input = << >>
    /\ pc' = "called"
    /\ UNCHANGED << ret, input, buf, luabuf, dstate, history >>

-----------------------------------------------------------------------------
(* unRLE_obuf_to_output, while pc = "decode" and state = "OUTPUT".         *)

\* As much of the run as the buffer has room for.  If that was not all: BZ_OK.
PutRun ==
    LET n == IF AvailOut < state_out_len THEN AvailOut ELSE state_out_len
    IN  /\ pc = "decode" /\ state = "OUTPUT" /\ state_out_len > 0
        /\ buf' = buf \o [i \in 1..n |-> state_out_ch]
        /\ state_out_len' = state_out_len - n
        /\ pc' = IF n < state_out_len THEN "called" ELSE pc
        /\ UNCHANGED << ret, input, luabuf, state, at, tt, blockCRC, nblock_used, k0,
                        state_out_ch, entry, history >>

\* Seeded fault: a run does not stop at the end of the block.
RunLengthUnbounded ==
    LET Same(n) == \A j \in 1..(n - 1) : BZ_GET_FAST(nblock_used + j) = k0
    IN  CHOOSE n \in 1..4 : Same(n) /\ (n < 4 => ~Same(n + 1))

\* The byte read ahead begins a run: of up to three, or of four and as many as the next says.
RunLength ==
    LET Same(n) == /\ nblock_used + n - 1 <= Len(tt)
                   /\ \A j \in 1..(n - 1) : BZ_GET_FAST(nblock_used + j) = k0
    IN  CHOOSE n \in 1..4 : Same(n) /\ (n < 4 => ~Same(n + 1))

StartRun ==
    /\ pc = "decode" /\ state = "OUTPUT" /\ state_out_len = 0 /\ nblock_used < save_nblockPP
    /\ LET count == BZ_GET_FAST(nblock_used + 4)
           used  == nblock_used + (IF RunLength = 4 THEN 5 ELSE RunLength)
       IN  /\ state_out_len' = IF RunLength = 4 THEN count + 4 ELSE RunLength
           /\ nblock_used' = used
           /\ k0' = BZ_GET_FAST(used)
    /\ state_out_ch' = k0
    /\ UNCHANGED << pc, ret, input, buf, luabuf, state, at, tt, blockCRC, entry, history >>

\* Seeded fault: the checksum of the block is not compared.
BlockEndsUnchecked ==
    /\ pc = "decode" /\ state = "OUTPUT" /\ state_out_len = 0 /\ nblock_used = save_nblockPP
    /\ state' = "BLKHDR"
    /\ UNCHANGED << pc, ret, input, buf, luabuf, history, at, tt, blockCRC, unrle,
                    entry >>

\* The block is out, and on with BZ2_decompress if its checksum is right.
BlockEnds ==
    /\ pc = "decode" /\ state = "OUTPUT" /\ state_out_len = 0 /\ nblock_used = save_nblockPP
    /\ \/ /\ blockCRC
          /\ state' = "BLKHDR"
          /\ UNCHANGED << pc, ret, input, buf, luabuf, history >>
       \/ /\ ~blockCRC /\ Raise("refused")
          /\ UNCHANGED state
    /\ UNCHANGED << at, tt, blockCRC, unrle, entry >>

\* "Only caused by corrupt data stream?"  The count behind the last four bytes is missing.
\* This way out saves nothing: the object stays as this call of unRLE_obuf_to_output found it.
Overrun ==
    /\ pc = "decode" /\ state = "OUTPUT" /\ state_out_len = 0 /\ nblock_used > save_nblockPP
    /\ Raise("refused")
    /\ nblock_used' = entry[1] /\ k0' = entry[2]
    /\ state_out_ch' = entry[3] /\ state_out_len' = entry[4]
    /\ UNCHANGED << state, at, tt, blockCRC, entry >>

\* Back in lbzip2_update: empty the buffer if it is full.
GoOn ==
    /\ pc = "called"
    /\ \/ /\ pc' = "loop"
          /\ IF AvailOut = 0 THEN luabuf' = luabuf \o buf /\ buf' = << >>
                             ELSE UNCHANGED << luabuf, buf >>
          /\ UNCHANGED << ret, input, history >>
       \/ AvailOut = 0 /\ Raise("stale")        \* luaL_addlstring: not enough memory
    /\ UNCHANGED dstate

-----------------------------------------------------------------------------
\* The caller cuts a stream into chunks; what comes after an error is any byte of a stream.
Chunks ==
    IF stage = "open"
    THEN UNION { { SubSeq(z, Len(fed) + 1, n) : n \in Len(fed)..Len(z) } :
                   z \in { x \in Streams : IsPrefix(fed, x) } }
    ELSE UNION { { << z[i] >> : i \in 1..Len(z) } : z \in Streams }

Caller == Create \/ (\E chunk \in Chunks : Update(chunk)) \/ Finish

System ==
    \/ UpdateReturns \/ BzDecompress
    \/ ReadHeader \/ ReadBlock \/ ReadTrailer \/ ReadMisfit \/ NeedInput
    \/ PutRun \/ StartRun \/ BlockEnds \/ Overrun
    \/ GoOn

Next == Caller \/ System

\* A call that has begun is executed; nobody has to make one.
Spec == Init /\ [][Next]_vars /\ WF_vars(System)

-----------------------------------------------------------------------------
AllBytes == UNION { { z[i] : i \in 1..Len(z) } : z \in Streams }

\* Every field has its type; the buffer never holds more than it has room for.
TypeOK ==
    /\ pc \in { "none", "idle", "loop", "decode", "called" }
    /\ ret \in { "OK", "STREAM_END" }
    /\ input \in Seq(AllBytes)
    /\ Len(buf) <= BufSize
    /\ state \in { "MAGIC", "BLKHDR", "OUTPUT", "ENDHDR", "IDLE" }
    /\ at \in Nat
    /\ tt = << >> \/ \E b \in AllBytes : tt = b.block
    /\ blockCRC \in BOOLEAN
    /\ nblock_used \in Nat /\ k0 \in Nat
    /\ state = "OUTPUT" => nblock_used \in 1..(save_nblockPP + 1)
    /\ state_out_ch \in Nat /\ state_out_len \in Nat
    /\ entry \in Nat \X Nat \X Nat \X Nat
    /\ stage \in { "open", "finished", "refused", "stale" }

\* What is still to come out of the block: the rest of a run, and what is read after it.
Pending ==
    IF state = "OUTPUT"
    THEN [i \in 1..state_out_len |-> state_out_ch]
            \o UnRLE(SubSeq(tt, nblock_used, Len(tt)))
    ELSE << >>

\* Every field has its type.  And at every step of every call, what has come out or lies in a
\* buffer and what is pending make up the text of the blocks read so far, however runs, blocks,
\* chunks and buffers cut each other up.  (What follows the last four bytes of a block without
\* the count is not text.)
DecodedIsText ==
    /\ TypeOK
    /\ stage = "open"
            /\ ~(state = "OUTPUT" /\ CountMissing(tt) /\ nblock_used > save_nblockPP) =>
           out \o luabuf \o buf \o Pending = TextOf(SubSeq(fed, 1, Len(fed) - Len(input)))

\* Every call comes to an end: each turn of update's loop reads a byte or fills the buffer.
CallsReturn == pc = "loop" ~> pc = "idle"

-----------------------------------------------------------------------------
\* The stream the input begins with, without what may come behind its trailer.
IsEnd(b) == b.part = "trailer" /\ IsLast(b)

FirstStream(i) ==
    LET ends == { n \in 1..Len(i) : IsEnd(i[n]) }
    IN  IF ends = { } THEN i
        ELSE SubSeq(i, 1, CHOOSE n \in ends : \A m \in ends : n <= m)

\* When finish() is called, which itself does nothing, a stream with a trailer was sound and
\* has come out whole.  Of a stream that breaks off, some of the text has come out.
Complete(s, i, o) ==
    LET z == FirstStream(i)
    IN  /\ z # << >> /\ IsEnd(Last(z)) => WholeStream(z) /\ o = TextOf(z)
        /\ StreamPrefix(z) => IsPrefix(o, TextOf(z))

\* An error is raised only for damage, and for a chunk that follows the end of the stream.
Refusable(s, i) == ~StreamPrefix(i)

Contract == INSTANCE Filter WITH setup <- "decompress"

\* The object keeps the contract of README.md lines 65-84, for whole streams.
FilterContract == Contract!FSpec
=============================================================================
