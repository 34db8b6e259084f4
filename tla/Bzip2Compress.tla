--------------------------- MODULE Bzip2Compress ---------------------------
(***************************************************************************)
(* The bzip2 compression filter: the loops of update and finish in         *)
(* src/src/ltn12ce_comp_bzip2.c around the state machine of                *)
(* src/src/bzip2/bzlib.c.  A call is many steps, because it is cut up by   *)
(* three sizes that have nothing to do with each other: the chunk it is    *)
(* given, the block the compressor fills, and the buffer the output is     *)
(* collected in.                                                           *)
(*                                                                         *)
(* BZ_M_FLUSHING is left out: this filter never asks for BZ_FLUSH.         *)
(***************************************************************************)
EXTENDS Bzip2Format

CONSTANTS
    Chars,          \* byte values of the text
    MaxRun,         \* the longest run state_in_len counts: 255
    NBlockMax,      \* nblockMAX
    BufSize,        \* BUFFER_SIZE
    MaxZ,           \* bound on the bytes one compressed block takes
    MaxFed,         \* bound on the length of the text
    MaxChunk,       \* bound on the length of a chunk
    NoChar,         \* 256 in state_in_ch: no run is being counted
    Dangling        \* an input byte next_in still points to after its string is gone

ASSUME Bzip2Constants ==
    /\ MaxRun \in Nat /\ MaxRun >= 4
    /\ Chars \subseteq 0..MaxRun
    /\ NBlockMax \in Nat \ {0} /\ BufSize \in Nat \ {0} /\ MaxZ \in Nat \ {0}
    /\ MaxFed \in Nat /\ MaxChunk \in Nat
    /\ NoChar \notin Chars /\ Dangling \notin Chars

VARIABLES
    pc,                     \* where the call is: see the actions
    call,                   \* the call that is being made: "update", "finish" or "none"
    input,                  \* next_in, avail_in
    buf,                    \* the bytes in buf; avail_out is what is left of it
    luabuf,                 \* luabuf: output of this call the buffer had no room for
    mode,                   \* mode
    state,                  \* state
    avail_in_expect,        \* avail_in_expect
    state_in_ch, state_in_len,      \* the run that is being counted
    block,                  \* block; its length is nblock
    blockNo,                \* blockNo, as far as it matters: 1, or 2 for any later one
    numZ, state_out_pos,    \* bytes of zbits, and how many of them have been copied out
    trailer,                \* the stream trailer is in zbits
    progress,               \* progress_in || progress_out
    fed, out, stage         \* history: the contract's view of the stream (module Filter)

rl == << state_in_ch, state_in_len >>
zbits == << numZ, state_out_pos, trailer >>
estate == << mode, state, avail_in_expect, rl, block, blockNo, zbits >>
history == << fed, out, stage >>
vars == << pc, call, input, buf, luabuf, estate, progress, history >>

-----------------------------------------------------------------------------
\* Seeded fault: a block is full when all of its memory is.
BlockFullWithoutMargin == Len(block) >= NBlockMax + 19

AvailOut == BufSize - Len(buf)
BlockFull == Len(block) >= NBlockMax
EmptyRL == state_in_ch = NoChar \/ state_in_len = 0

\* add_pair_to_block and flush_RL: the block with the counted run at its end.
WithRun == IF state_in_ch # NoChar THEN block \o EncodedRun(state_in_ch, state_in_len)
                                   ELSE block

\* zbits: the stream header before the first block, the block unless it is empty, and the
\* trailer after the last one.
HeaderEnd == IF blockNo = 1 THEN 1 ELSE 0
BlockEnd == IF trailer THEN numZ - 1 ELSE numZ

Zbyte(i) ==
    IF i <= HeaderEnd THEN Byte("header", << >>, 1, 1, TRUE)
    ELSE IF i <= BlockEnd THEN Byte("block", block, i - HeaderEnd, BlockEnd - HeaderEnd, TRUE)
    ELSE Byte("trailer", << >>, 1, 1, TRUE)

\* The call is over and returned this string; a call outside of a stream says nothing.
Return(result, next) ==
    /\ pc' = "idle" /\ call' = "none" /\ buf' = << >> /\ luabuf' = << >> /\ progress' = FALSE
    /\ IF stage = "open" THEN stage' = next /\ out' = out \o result /\ fed' = fed
                         ELSE stage' = "stale" /\ out' = << >> /\ fed' = << >>

\* The call raised an error.  What it had put into luabuf is lost, and what it had not read
\* stays in avail_in, behind a pointer into a string that may be gone.
Raise(next) ==
    /\ pc' = "idle" /\ call' = "none" /\ buf' = << >> /\ luabuf' = << >> /\ progress' = FALSE
    /\ input' = [i \in 1..Len(input) |-> Dangling]
    /\ IF stage = "open" /\ next = "refused"
       THEN stage' = "refused" /\ UNCHANGED << fed, out >>
       ELSE stage' = "stale" /\ out' = << >> /\ fed' = << >>

-----------------------------------------------------------------------------
Init ==
    /\ pc = "none" /\ call = "none" /\ input = << >> /\ buf = << >> /\ luabuf = << >>
    /\ mode = "IDLE" /\ state = "INPUT" /\ avail_in_expect = 0
    /\ state_in_ch = NoChar /\ state_in_len = 0 /\ block = << >> /\ blockNo = 0
    /\ numZ = 0 /\ state_out_pos = 0 /\ trailer = FALSE /\ progress = FALSE
    /\ fed = << >> /\ out = << >> /\ stage = "stale"

\* lbzip2("compress"): BZ2_bzCompressInit.
Create ==
    /\ pc = "none" /\ pc' = "idle"
    /\ mode' = "RUNNING" /\ blockNo' = 1
    /\ stage' = "open"
    /\ UNCHANGED << call, input, buf, luabuf, state, avail_in_expect, rl, block, zbits,
                    progress, fed, out >>

\* lbzip2_update: the chunk replaces whatever avail_in said.
Update(chunk) ==
    /\ pc = "idle" /\ pc' = "loop"
    /\ call' = "update"
    /\ input' = chunk
    /\ fed' = IF stage = "open" THEN fed \o chunk ELSE << >>
    /\ UNCHANGED << buf, luabuf, estate, progress, out, stage >>

\* lbzip2_finish: avail_in stays what it is.
Finish ==
    /\ pc = "idle" /\ pc' = "loop"
    /\ call' = "finish"
    /\ UNCHANGED << input, buf, luabuf, estate, progress, history >>

\* The head of update's loop when no input is left.
UpdateReturns ==
    /\ pc = "loop" /\ call = "update" /\ input = << >>
    /\ \/ Return(luabuf \o buf, "open")
       \/ Raise("stale")        \* luaL_pushresult: not enough memory
    /\ UNCHANGED estate
    /\ input' = << >>

\* BZ2_bzCompress up to handle_compress, with BZ_RUN or BZ_FINISH.
BzCompress ==
    /\ pc = "loop" /\ (call = "update" => input # << >>)
    /\ \/ /\ mode = "RUNNING" /\ call = "update"
          /\ pc' = "handle"
          /\ UNCHANGED << mode, avail_in_expect >>
       \/ /\ mode = "RUNNING" /\ call = "finish"
          /\ avail_in_expect' = Len(input)
          /\ mode' = "FINISHING"
          /\ pc' = "handle"
       \/ /\ mode = "FINISHING" /\ call = "finish" /\ avail_in_expect = Len(input)
          /\ pc' = "handle"
          /\ UNCHANGED << mode, avail_in_expect >>
    /\ progress' = FALSE
    /\ UNCHANGED << call, input, buf, luabuf, state, rl, block, blockNo, zbits, history >>

\* Seeded fault: nobody looks whether ret is negative.
OutOfSequenceIgnored ==
    /\ pc = "loop" /\ (call = "update" => input # << >>)
    /\ \/ mode = "IDLE"
       \/ mode = "FINISHING" /\ (call = "update" \/ avail_in_expect # Len(input))
    /\ UNCHANGED vars

\* BZ_SEQUENCE_ERROR: finished already, or in the middle of finishing.
OutOfSequence ==
    /\ pc = "loop" /\ (call = "update" => input # << >>)
    /\ \/ mode = "IDLE"
       \/ mode = "FINISHING" /\ (call = "update" \/ avail_in_expect # Len(input))
    /\ Raise("refused")
    /\ UNCHANGED estate

-----------------------------------------------------------------------------
(* handle_compress: its loop, while pc = "handle".                         *)

prepare_new_block ==
    /\ block' = << >> /\ blockNo' = 2
    /\ numZ' = 0 /\ state_out_pos' = 0 /\ trailer' = FALSE

\* BZ2_compressBlock on this block.
CompressBlock(content, is_last_block) ==
    /\ block' = content
    /\ \E n \in IF content = << >> THEN { 0 } ELSE 1..MaxZ :
         numZ' = HeaderEnd + n + (IF is_last_block THEN 1 ELSE 0)
    /\ trailer' = is_last_block
    /\ state' = "OUTPUT"
    /\ UNCHANGED << blockNo, state_out_pos >>

\* State OUTPUT: copy_output_until_stop, then the next block unless this is the end.
CopyOutput ==
    LET left == numZ - state_out_pos
        n    == IF AvailOut < left THEN AvailOut ELSE left
    IN  /\ pc = "handle" /\ state = "OUTPUT"
        /\ buf' = buf \o [i \in 1..n |-> Zbyte(state_out_pos + i)]
        /\ progress' = (progress \/ n > 0)
        /\ \/ /\ n < left \/ (mode = "FINISHING" /\ avail_in_expect = 0 /\ EmptyRL)
              /\ state_out_pos' = state_out_pos + n
              /\ pc' = "called"
              /\ UNCHANGED << state, block, blockNo, numZ, trailer >>
           \/ /\ n = left /\ ~(mode = "FINISHING" /\ avail_in_expect = 0 /\ EmptyRL)
              /\ prepare_new_block
              /\ state' = "INPUT"
              /\ pc' = pc
    /\ UNCHANGED << call, input, luabuf, mode, avail_in_expect, rl, history >>

\* State INPUT: one turn of copy_input_until_stop, with ADD_CHAR_TO_BLOCK.
InputEnds == mode # "RUNNING" /\ avail_in_expect = 0

CopyInput ==
    /\ pc = "handle" /\ state = "INPUT"
    /\ ~BlockFull /\ input # << >> /\ ~InputEnds
    /\ \E c \in IF Head(input) = Dangling THEN Chars ELSE { Head(input) } :
         IF c # state_in_ch \/ state_in_len = MaxRun
         THEN block' = WithRun /\ state_in_ch' = c /\ state_in_len' = 1
         ELSE state_in_len' = state_in_len + 1 /\ UNCHANGED << block, state_in_ch >>
    /\ input' = Tail(input)
    /\ avail_in_expect' = IF mode = "RUNNING" THEN avail_in_expect ELSE avail_in_expect - 1
    /\ progress' = TRUE
    /\ UNCHANGED << pc, call, buf, luabuf, mode, state, blockNo, zbits, history >>

\* Seeded fault: the last block goes out without the run that is being counted.
LastBlockWithoutRun ==
    /\ pc = "handle" /\ state = "INPUT" /\ InputEnds
    /\ CompressBlock(block, mode = "FINISHING")
    /\ state_in_ch' = NoChar /\ state_in_len' = 0
    /\ UNCHANGED << pc, call, input, buf, luabuf, mode, avail_in_expect, progress, history >>

\* All the input that finish was to compress is in: the last block, with the counted run.
LastBlock ==
    /\ pc = "handle" /\ state = "INPUT" /\ InputEnds
    /\ CompressBlock(WithRun, mode = "FINISHING")
    /\ state_in_ch' = NoChar /\ state_in_len' = 0
    /\ UNCHANGED << pc, call, input, buf, luabuf, mode, avail_in_expect, progress, history >>

\* Seeded fault: a full block takes the run that is being counted with it.
FullBlockWithRun ==
    /\ pc = "handle" /\ state = "INPUT" /\ ~InputEnds /\ BlockFull
    /\ CompressBlock(WithRun, FALSE)
    /\ state_in_ch' = NoChar /\ state_in_len' = 0
    /\ UNCHANGED << pc, call, input, buf, luabuf, mode, avail_in_expect, progress, history >>

\* The block is full.  The run being counted goes into the next one.
FullBlock ==
    /\ pc = "handle" /\ state = "INPUT" /\ ~InputEnds /\ BlockFull
    /\ CompressBlock(block, FALSE)
    /\ UNCHANGED << pc, call, input, buf, luabuf, mode, avail_in_expect, rl, progress, history >>

OutOfInput ==
    /\ pc = "handle" /\ state = "INPUT" /\ ~InputEnds /\ ~BlockFull /\ input = << >>
    /\ pc' = "called"
    /\ UNCHANGED << call, input, buf, luabuf, estate, progress, history >>

-----------------------------------------------------------------------------
(* The end of BZ2_bzCompress, and what the loops of update and finish do   *)
(* with its result.                                                        *)

StreamEnds ==
    mode = "FINISHING" /\ avail_in_expect = 0 /\ EmptyRL /\ state_out_pos >= numZ

\* BZ_RUN_OK or BZ_FINISH_OK: empty the buffer if it is full and go on.  No progress is
\* BZ_PARAM_ERROR or BZ_SEQUENCE_ERROR.
GoOn ==
    /\ pc = "called"
    /\ ~StreamEnds \/ ~progress
    /\ IF progress
       THEN \/ /\ pc' = "loop"
               /\ IF AvailOut = 0 THEN luabuf' = luabuf \o buf /\ buf' = << >>
                                  ELSE UNCHANGED << luabuf, buf >>
               /\ UNCHANGED << call, input, progress, history >>
            \/ AvailOut = 0 /\ Raise("stale")       \* luaL_addlstring: not enough memory
       ELSE Raise("refused")
    /\ UNCHANGED estate

\* BZ_STREAM_END, which only finish can see.
FinishReturns ==
    /\ pc = "called" /\ StreamEnds /\ progress
    /\ mode' = "IDLE"
    /\ \/ Return(luabuf \o buf, "finished") /\ UNCHANGED input
       \/ Raise("stale")        \* luaL_addlstring or luaL_pushresult: not enough memory
    /\ UNCHANGED << state, avail_in_expect, rl, block, blockNo, zbits >>

-----------------------------------------------------------------------------
Chunks == BoundedSeq(Chars, IF stage = "open" /\ MaxFed - Len(fed) < MaxChunk
                            THEN MaxFed - Len(fed) ELSE MaxChunk)

\* What the caller does.
Caller == Create \/ (\E chunk \in Chunks : Update(chunk)) \/ Finish

\* What a call does, to its end.
System ==
    \/ UpdateReturns \/ BzCompress \/ OutOfSequence
    \/ CopyOutput \/ CopyInput \/ LastBlock \/ FullBlock \/ OutOfInput
    \/ GoOn \/ FinishReturns

Next == Caller \/ System

\* A call that has begun is executed; nobody has to make one.
Spec == Init /\ [][Next]_vars /\ WF_vars(System)

-----------------------------------------------------------------------------
\* Every field has its type.
TypeOK ==
    /\ pc \in { "none", "idle", "loop", "handle", "called" }
    /\ call \in { "none", "update", "finish" }
    /\ input \in Seq(Chars \cup { Dangling }) /\ Len(input) <= MaxChunk
    /\ Len(buf) <= BufSize
    /\ mode \in { "IDLE", "RUNNING", "FINISHING" }
    /\ state \in { "INPUT", "OUTPUT" }
    /\ avail_in_expect \in 0..MaxChunk
    /\ state_in_ch \in Chars \cup { NoChar } /\ state_in_len \in 0..MaxRun
    /\ block \in Seq(0..MaxRun)
    /\ blockNo \in 0..2
    /\ numZ \in 0..(MaxZ + 2) /\ state_out_pos \in 0..numZ /\ trailer \in BOOLEAN
    /\ progress \in BOOLEAN
    /\ Len(fed) <= MaxFed /\ stage \in { "open", "finished", "refused", "stale" }

\* Every field has its type.  And the block is checked to be full before a run goes in that
\* takes up to five bytes, and the last run goes in unchecked: the room for it is the 19 bytes
\* by which nblockMAX stays away from the size of the block (bzlib.c:193).  Five are used.
BlockFits == TypeOK /\ Len(block) <= NBlockMax + 5

\* While finish() waits for the rest of a block that update() filled, a run is being counted.
\* handle_compress takes "no run" for "this was the last block" (bzlib.c:373-375): else the
\* stream would end without the last block and the trailer.
FullBlockLeavesRun == state = "OUTPUT" /\ ~trailer => ~EmptyRL

\* At every step of every call, nothing is lost, doubled or reordered: what has come out or
\* lies in a buffer, the block, the counted run and the unread input make up the text.
NothingLost ==
    stage = "open" =>
        TextOf(out \o luabuf \o buf)
            \o (IF state = "OUTPUT" /\ state_out_pos >= BlockEnd THEN << >> ELSE UnRLE(block))
            \o [i \in 1..state_in_len |-> state_in_ch]
            \o input
        = fed

\* Every call comes to an end: each turn of the loops of update and finish makes progress.
CallsReturn == pc = "loop" ~> pc = "idle"

-----------------------------------------------------------------------------
Complete(s, i, o) == WholeStream(o) /\ TextOf(o) = i

Refusable(s, i) == FALSE

Contract == INSTANCE Filter WITH setup <- "compress"

\* The object keeps the contract of README.md lines 65-84: update and finish return one whole
\* compressed stream of the text, whatever the chunks, and raise no error of their own.
FilterContract == Contract!FSpec
=============================================================================
