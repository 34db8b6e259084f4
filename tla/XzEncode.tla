------------------------------ MODULE XzEncode ------------------------------
(***************************************************************************)
(* The LZMA compression filter: llzma_update and llzma_finish of           *)
(* src/src/ltn12ce_comp_lzma.c over the encoders of                        *)
(* src/src/lzma/common and below: stream_encode, block_encode, lz_encode   *)
(* (which owns the window), lzma2_encode (which cuts chunks) and           *)
(* lzma_lzma_encode.                                                       *)
(*                                                                         *)
(* As in XzDecode, pc says which of them is at work, and c holds the state *)
(* of all of them.  What the optimisers choose is left open: a literal,    *)
(* the longest match or the longest repeated match that says the next      *)
(* bytes of the window; a preset says how far they read ahead when they    *)
(* read.  A literal or a match makes one byte, a repeated match none: that *)
(* is the whole range coder.  Left out is what the bindings never ask for: *)
(* flushing, other filters, a change of options, preset dictionaries.      *)
(***************************************************************************)
EXTENDS LzmaStream, FiniteSets

CONSTANTS
    Texts,          \* what a caller may have to compress
    Checks,         \* kinds of check value, 0 none
    Presets,        \* optimisers: how far they read ahead, which matches they may take
    OPTS,           \* how far the optimiser plans ahead: 4096
    MatchLenMax,    \* MATCH_LEN_MAX: 273
    FindMin,        \* the match finder hashes so many bytes: 2 to 4
    Reserve,        \* reserve: 2^19 and more
    MoveAlign,      \* the window moves by multiples of this: 16
    ChunkMax,       \* LZMA2_CHUNK_MAX: 2^16
    UncompressedMax,        \* LZMA2_UNCOMPRESSED_MAX: 2^21
    ChunkSizes,     \* bound: the lengths a chunk may have
    MaxStale        \* bound on what is read outside of a stream

MATCH_LEN_MIN == 2
LOOP_INPUT_MAX == OPTS + 1

ASSUME XzEncodeConstants ==
    /\ \A t \in Texts : t \in Seq(Nat)
    /\ Checks \subseteq Nat /\ ChunkSizes \subseteq Nat /\ MaxStale \in Nat
    /\ BufSize \in Nat \ {0} /\ DictSize \in Nat \ {0} /\ Align \in Nat \ {0}
    /\ MATCH_LEN_MIN <= FindMin /\ FindMin <= MatchLenMax /\ MatchLenMax <= LOOP_INPUT_MAX
    /\ MoveAlign \in Nat \ {0} /\ MoveAlign <= Reserve
    /\ ChunkMax > LOOP_INPUT_MAX + 2 /\ UncompressedMax >= ChunkMax

-----------------------------------------------------------------------------
(* The sizes lz_encoder_prepare computes                                   *)

\* Seeded fault: an uncompressed chunk is copied from where the window has been moved away.
KeepBeforeOfMatches == OPTS + DictSize

\* keep_size_before: what a match may reach for, and an uncompressed chunk is copied from.
KeepBefore == IF OPTS + DictSize < ChunkMax THEN ChunkMax ELSE OPTS + DictSize

KeepAfter == LOOP_INPUT_MAX + MatchLenMax

WindowSize == KeepBefore + Reserve + KeepAfter

-----------------------------------------------------------------------------
\* The fields of a stream; those of two bytes may be cut in the middle.
Wide(item) == << << >>, << item >> >>
HeaderBytes(kind) == Wide(Pair("header", kind, 0))
BlockBytes == Wide(Pair("block", Unknown, Unknown))
CheckBytes(sum) == Wide(Check(sum))
IndexBytes(blocks) ==
    << << Pair("index", Len(blocks), 0) >> >>
        \o FlattenSeq([i \in 1..Len(blocks) |-> Wide(Pair("record", blocks[i][1], blocks[i][2]))])
        \o << << Simple("crc") >> >>
FooterBytes(kind, blocks) == Wide(Pair("footer", kind, Len(blocks)))

Encoder(kind, preset) ==
    [kind |-> kind, preset |-> preset,
     sequence |-> "STREAM_HEADER", bytes |-> HeaderBytes(kind),     \* buffer, from buffer_pos on
     block |-> "CODE", compressed_size |-> 0, uncompressed_size |-> 0, check |-> << >>,
     sizes |-> << >>, blocks |-> << >>,                             \* block_options; index
     window |-> << >>,      \* buffer: write_pos is its length
     read_pos |-> 0, read_ahead |-> 0, read_limit |-> 0, finishing |-> FALSE, pending |-> 0,
     lzma2 |-> "INIT",
     need_properties |-> TRUE, need_state_reset |-> FALSE, need_dictionary_reset |-> TRUE,
     chunk |-> 0,           \* uncompressed_size of the chunk
     coded |-> << >>,       \* buf, behind the header
     copy |-> << >>,        \* buf, from buf_pos on
     is_initialized |-> FALSE, reps |-> FreshReps,
     rc |-> << >>]          \* the items of which no byte is out

Init == InitStream /\ \E preset \in Presets : c = Encoder(0, preset)

\* llzma("compress", preset, check): lzma_easy_encoder.
Create(kind) ==
    /\ pc = "none" /\ pc' = "idle" /\ stage' = "open" /\ c' = Encoder(kind, c.preset)
    /\ UNCHANGED << action, ret, io, strm, fed, out >>

-----------------------------------------------------------------------------
\* lzma_bufcpy: as much of s as there is room for
Bufcpy(s) == buf' = buf \o SubSeq(s, 1, Smaller(Len(s), Left))
Rest(s) == SubSeq(s, Left + 1, Len(s))

(* stream_encode: pc = "code"                                              *)

Code(q) == pc = "code" /\ Left > 0 /\ c.sequence = q

StreamReturns(r) == pc' = "leave" /\ ret' = r

BufferFull ==
    /\ pc = "code" /\ Left = 0
    /\ StreamReturns("OK")
    /\ UNCHANGED << action, io, strm, c, history >>

\* What comes behind a field
After(q) == CASE q = "STREAM_HEADER" -> "BLOCK_INIT"
              [] q = "BLOCK_HEADER" -> "BLOCK_ENCODE"
              [] q = "INDEX_ENCODE" -> "STREAM_FOOTER"

WriteField ==
    /\ \E q \in { "STREAM_HEADER", "BLOCK_HEADER", "INDEX_ENCODE", "STREAM_FOOTER" } : Code(q)
    /\ Bufcpy(c.bytes)
    /\ \/ Rest(c.bytes) # << >> /\ StreamReturns("OK") /\ c' = [c EXCEPT !.bytes = Rest(@)]
       \/ /\ Rest(c.bytes) = << >> /\ c.sequence = "STREAM_FOOTER"
          /\ StreamReturns("STREAM_END") /\ c' = [c EXCEPT !.bytes = << >>]
       \/ /\ Rest(c.bytes) = << >> /\ c.sequence # "STREAM_FOOTER"
          /\ pc' = "code" /\ ret' = "OK"
          /\ c' = [c EXCEPT !.sequence = After(@),
                            !.bytes = IF c.sequence = "INDEX_ENCODE"
                                      THEN FooterBytes(c.kind, c.blocks) ELSE << >>]
    /\ UNCHANGED << action, input, luabuf, strm, history >>

\* A block begins with the first byte of input; without any, finish() goes on with the index.
BlockInit ==
    /\ Code("BLOCK_INIT")
    /\ \/ /\ input # << >> /\ pc' = "code" /\ ret' = "OK"
          /\ c' = [c EXCEPT !.sequence = "BLOCK_HEADER", !.bytes = BlockBytes]
       \/ input = << >> /\ action = "RUN" /\ StreamReturns("OK") /\ UNCHANGED c
       \/ /\ input = << >> /\ action = "FINISH" /\ pc' = "code" /\ ret' = "OK"
          /\ c' = [c EXCEPT !.sequence = "INDEX_ENCODE", !.bytes = IndexBytes(c.blocks)]
       \/ /\ input = << >> /\ action = "FINISH" /\ StreamReturns("MEM_ERROR") /\ UNCHANGED c
    /\ UNCHANGED << action, io, strm, history >>

-----------------------------------------------------------------------------
(* block_encode: pc = "block"                                              *)

BlockEncode ==
    /\ Code("BLOCK_ENCODE")
    /\ pc' = IF c.block = "CODE" THEN "lz" ELSE "block"
    /\ UNCHANGED << action, ret, io, strm, c, history >>

Pads == (Align - (c.compressed_size % Align)) % Align

\* The block d is over: lzma_index_append in stream_encode.
EndBlock(d) ==
    \/ /\ pc' = "code" /\ ret' = "OK"
       /\ c' = [d EXCEPT !.sequence = "BLOCK_INIT", !.blocks = Append(@, d.sizes)]
    \/ StreamReturns("MEM_ERROR") /\ c' = d

WritePadding ==
    LET n == Smaller(Pads, Left)
        d == [c EXCEPT !.compressed_size = @ + n]
    IN  /\ pc = "block" /\ c.block = "PADDING"
        /\ Bufcpy([i \in 1..Pads |-> << Simple("pad") >>])
        /\ \/ n < Pads /\ StreamReturns("OK") /\ c' = d
           \/ n = Pads /\ c.kind = 0 /\ EndBlock(d)
           \/ /\ n = Pads /\ c.kind # 0 /\ pc' = "block" /\ ret' = "OK"
              /\ c' = [d EXCEPT !.block = "CHECK", !.bytes = CheckBytes(c.check)]
        /\ UNCHANGED << action, input, luabuf, strm, history >>

WriteCheck ==
    /\ pc = "block" /\ c.block = "CHECK"
    /\ Bufcpy(c.bytes)
    /\ \/ Rest(c.bytes) # << >> /\ StreamReturns("OK") /\ c' = [c EXCEPT !.bytes = Rest(@)]
       \/ Rest(c.bytes) = << >> /\ EndBlock([c EXCEPT !.bytes = << >>])
    /\ UNCHANGED << action, input, luabuf, strm, history >>

-----------------------------------------------------------------------------
(* lz_encode: pc = "lz"                                                    *)

\* mf_position: how much of the window is encoded; mf_unencoded
Position == c.read_pos - c.read_ahead
Unencoded == Len(c.window) - Position

\* "Align the move": the lowest bits of read_pos are those of the place in the text.
MoveOffset(n) == n - (n % MoveAlign)

Moved(d) ==
    LET n == MoveOffset(d.read_pos - KeepBefore)
    IN  [d EXCEPT !.window = SubSeq(@, n + 1, Len(@)), !.read_pos = @ - n, !.read_limit = @ - n]

\* Seeded fault: the window is moved one byte too late.
MustMoveLate(d) == d.read_pos > WindowSize - KeepAfter

MustMove(d) == d.read_pos >= WindowSize - KeepAfter

\* How far the encoder may go: to the end when it is finishing, or so far that whatever it
\* reads ahead is there.
ReadLimit(d) ==
    IF d.finishing THEN Len(d.window)
    ELSE IF Len(d.window) > KeepAfter THEN Len(d.window) - KeepAfter ELSE d.read_limit

\* (The sizes and the check value of block_encode, which counts what was read when it is back.)
Filled(d, s, finishing) ==
    LET e == [d EXCEPT !.window = @ \o s, !.uncompressed_size = @ + Len(s), !.check = @ \o s,
                       !.finishing = finishing]
    IN  [e EXCEPT !.read_limit = ReadLimit(e)]

FillWindow ==
    LET d == IF MustMove(c) THEN Moved(c) ELSE c
        n == Smaller(Len(input), WindowSize - Len(d.window))
    IN  /\ input' = SubSeq(input, n + 1, Len(input))
        /\ c' = Filled(d, SubSeq(input, 1, n), action = "FINISH" /\ input' = << >>)

LzEncode ==
    /\ pc = "lz"
    /\ \/ /\ Left = 0 \/ (input = << >> /\ action = "RUN")
          /\ StreamReturns("OK") /\ UNCHANGED << input, c >>
       \/ /\ Left > 0 /\ (input # << >> \/ action = "FINISH")
          /\ pc' = "lzma2" /\ ret' = "OK"
          /\ IF ~c.finishing /\ c.read_pos >= c.read_limit
             THEN FillWindow ELSE UNCHANGED << input, c >>
    /\ UNCHANGED << action, buf, luabuf, strm, history >>

-----------------------------------------------------------------------------
(* lzma2_encode: pc = "lzma2"                                              *)

Lzma2(q) == pc = "lzma2" /\ Left > 0 /\ c.lzma2 = q

LzmaEncoderReset(d) == [d EXCEPT !.reps = FreshReps, !.rc = << >>]

\* The end of the block, or a new chunk
ChunkInit ==
    /\ Lzma2("INIT")
    /\ \/ /\ Unencoded = 0 /\ c.finishing
          /\ buf' = Append(buf, << Simple("end") >>) /\ pc' = "block"
          /\ c' = [c EXCEPT !.block = "PADDING", !.compressed_size = @ + 1,
                            !.sizes = << c.compressed_size + 1, c.uncompressed_size >>]
       \/ Unencoded = 0 /\ ~c.finishing /\ pc' = "lz" /\ UNCHANGED << buf, c >>
       \/ /\ Unencoded > 0 /\ pc' = "encode" /\ UNCHANGED buf
          /\ LET d == IF c.need_state_reset THEN LzmaEncoderReset(c) ELSE c
             IN  c' = [d EXCEPT !.lzma2 = "LZMA_ENCODE", !.chunk = 0, !.coded = << >>]
    /\ UNCHANGED << action, ret, input, luabuf, strm, history >>

ChunkGoesOn ==
    /\ Lzma2("LZMA_ENCODE") /\ pc' = "encode"
    /\ UNCHANGED << action, ret, io, strm, c, history >>

Lzma2BufferFull ==
    /\ pc = "lzma2" /\ Left = 0 /\ pc' = "lz"
    /\ UNCHANGED << action, ret, io, strm, c, history >>

\* Seeded fault: only the first chunk of the block announces properties.
HeaderLzmaFirstOnly(d, data) ==
    LET reset == IF d.need_dictionary_reset THEN Dictionary
                 ELSE IF d.need_state_reset THEN State ELSE None
    IN  (IF d.need_dictionary_reset THEN << << >> >> ELSE << >>)
            \o << << Pair("lzma", reset, 0) >>, << Pair("sizes", d.chunk, Len(data)) >> >>

\* lzma2_header_lzma: what has to be reset, and the sizes.  New properties take a byte more.
HeaderLzma(d, data) ==
    LET reset == IF d.need_properties
                 THEN IF d.need_dictionary_reset THEN Dictionary ELSE Properties
                 ELSE IF d.need_state_reset THEN State ELSE None
    IN  (IF d.need_properties THEN << << >> >> ELSE << >>)
            \o << << Pair("lzma", reset, 0) >>, << Pair("sizes", d.chunk, Len(data)) >> >>

ChunkLzma(d, data) ==
    [d EXCEPT !.lzma2 = "LZMA_COPY", !.coded = data, !.copy = HeaderLzma(d, data) \o data,
              !.need_properties = FALSE, !.need_state_reset = FALSE,
              !.need_dictionary_reset = FALSE]

\* lzma2_header_uncompressed
HeaderUncompressed(d) ==
    << << Pair("raw", IF d.need_dictionary_reset THEN Dictionary ELSE None, 0) >>,
       << Pair("sizes", d.chunk, d.chunk) >> >>

\* Seeded fault: the LZMA encoder goes on from the symbols nobody will see.
ChunkUncompressedKeepsState(d) ==
    LET e == [d EXCEPT !.chunk = @ + d.read_ahead, !.read_ahead = 0]
    IN  [e EXCEPT !.lzma2 = "UNCOMPRESSED_HEADER", !.copy = HeaderUncompressed(e), !.rc = << >>,
                  !.need_dictionary_reset = FALSE]

\* "See if the chunk compressed."  It did not: what was read ahead belongs to the chunk as well,
\* and the next one starts from a fresh state.
ChunkUncompressed(d) ==
    LET e == [d EXCEPT !.chunk = @ + d.read_ahead, !.read_ahead = 0]
    IN  [e EXCEPT !.lzma2 = "UNCOMPRESSED_HEADER", !.copy = HeaderUncompressed(e),
                  !.need_dictionary_reset = FALSE, !.need_state_reset = TRUE]

CopyChunk ==
    /\ \E q \in { "LZMA_COPY", "UNCOMPRESSED_HEADER" } : Lzma2(q)
    /\ Bufcpy(c.copy)
    /\ LET d == [c EXCEPT !.copy = Rest(@), !.compressed_size = @ + Len(buf') - Len(buf)]
       IN  IF Rest(c.copy) # << >> THEN pc' = "lz" /\ c' = d
           ELSE /\ pc' = "lzma2"
                /\ c' = [d EXCEPT !.lzma2 = IF c.lzma2 = "LZMA_COPY" THEN "INIT"
                                            ELSE "UNCOMPRESSED_COPY"]
    /\ UNCHANGED << action, ret, input, luabuf, strm, history >>

\* mf_read: the bytes are still in the window, however often it was moved since.
CopyUncompressed ==
    LET n == Smaller(Left, c.chunk)
        from == c.read_pos - c.chunk
    IN  /\ Lzma2("UNCOMPRESSED_COPY")
        /\ buf' = buf \o [i \in 1..n |-> << RawByte(c.window[from + i]) >>]
        /\ pc' = IF n = c.chunk THEN "lzma2" ELSE "lz"
        /\ c' = [c EXCEPT !.chunk = @ - n, !.compressed_size = @ + n,
                          !.lzma2 = IF n = c.chunk THEN "INIT" ELSE @]
        /\ UNCHANGED << action, ret, input, luabuf, strm, history >>

-----------------------------------------------------------------------------
(* lzma_lzma_encode: pc = "encode"                                         *)

\* The item x is encoded; bits that do not fill a byte wait for the next one.
Encoded(d, x) ==
    LET e == IF d.coded = << >> THEN [d EXCEPT !.coded = << << Simple("rc") >> >>] ELSE d
    IN  IF x.k = "rep" THEN [e EXCEPT !.rc = Append(@, x)]
        ELSE [e EXCEPT !.coded = Append(@, Append(e.rc, x)), !.rc = << >>]

\* "With LZMA2 we need to take care that compressed size of a chunk doesn't get too big", nor
\* the uncompressed one.  One byte is still in the range coder.
ChunkIsFull ==
    \/ c.chunk + MatchLenMax >= UncompressedMax
    \/ Len(c.coded) + 1 >= ChunkMax - LOOP_INPUT_MAX

\* move_pending: places where there are too few bytes left for a hash
Pending(ahead) ==
    Cardinality({ p \in (c.read_pos + 1)..(Position + ahead) : Len(c.window) - p + 1 < FindMin })

\* encode_init: the first symbol is a literal, as there is nothing to look back at.
EncodeInit ==
    /\ pc = "encode" /\ ~c.is_initialized
    /\ IF c.read_pos = c.read_limit
       THEN pc' = "lz" /\ UNCHANGED c
       ELSE /\ pc' = "encode"
            /\ c' = [Encoded(c, Lit(c.window[1])) EXCEPT !.read_pos = 1, !.chunk = 1,
                                                         !.pending = Pending(1),
                                                         !.is_initialized = TRUE]
    /\ UNCHANGED << action, ret, io, strm, history >>

NoMoreInput == c.read_pos >= c.read_limit

LzmaWaits ==
    /\ pc = "encode" /\ c.is_initialized /\ ~ChunkIsFull
    /\ NoMoreInput /\ ~c.finishing /\ pc' = "lz"
    /\ UNCHANGED << action, ret, io, strm, c, history >>

\* rc_flush, and lzma2_encode behind it
FlushChunk ==
    LET data == Append(c.coded, Append(c.rc, Simple("flush")))
        d    == [c EXCEPT !.rc = << >>]
    IN  /\ pc = "encode" /\ c.is_initialized
        /\ ChunkIsFull \/ (NoMoreInput /\ c.finishing /\ c.read_ahead = 0)
        /\ pc' = "lzma2"
        /\ c' = IF Len(data) >= c.chunk THEN ChunkUncompressed(d) ELSE ChunkLzma(d, data)
        /\ UNCHANGED << action, ret, io, strm, history >>

\* The next n bytes are those d bytes back.
Repeats(n, d) ==
    d <= Position /\ \A i \in 1..n : c.window[Position + i] = c.window[Position + i - d]

Nearest(n) ==
    { d \in 1..DictSize : Repeats(n, d) /\ \A e \in 1..(d - 1) : ~Repeats(n, e) }

Distinct(i) == \A j \in 1..(i - 1) : c.reps[j] # c.reps[i]

\* What may be encoded of the next n bytes: the nearest match, one at one of the last four
\* distances, a single byte, or one at the last distance.
Symbols(n) ==
    (IF n = 1 THEN { Lit(c.window[Position + 1]) }
              ELSE { Pair("match", n, d) : d \in Nearest(n) })
        \cup { Pair("rep", n, i) : i \in { j \in 1..(IF n = 1 THEN 1 ELSE 4) :
                                              Distinct(j) /\ Repeats(n, c.reps[j]) } }

RepsAfter(x) ==
    CASE x.k = "lit" -> c.reps
      [] x.k = "match" -> Learn(c.reps, x.m)
      [] x.k = "rep" -> Recall(c.reps, x.m)

\* How far the match finder has run when a symbol of n bytes is chosen.  It runs on only when
\* at most one byte is left of what it read before, and then so far that a plan may be made.
ReadsTo(n) ==
    IF c.read_ahead > 1 THEN c.read_ahead
    ELSE LET far == Smaller(c.preset.far, Unencoded) IN IF n < far THEN far ELSE n

Longest(k) ==
    LET most == Smaller(MatchLenMax, IF c.read_ahead > 1 THEN c.read_ahead ELSE Unencoded)
        of   == UNION { { x \in Symbols(n) : x.k = k } : n \in 1..most }
    IN  { x \in of : \A y \in of : y.n <= x.n }

Size(x) == IF x.k = "lit" THEN 1 ELSE x.n

\* lzma_lzma_optimum_fast or _normal, and encode_symbol
EncodeSymbol ==
    /\ pc = "encode" /\ c.is_initialized /\ ~ChunkIsFull
    /\ ~NoMoreInput \/ (c.finishing /\ c.read_ahead > 0)
    /\ \E x \in { Lit(c.window[Position + 1]) } \cup UNION { Longest(k) : k \in c.preset.takes } :
           LET ahead == ReadsTo(Size(x))
           IN  c' = [Encoded(c, x) EXCEPT !.read_pos = Position + ahead,
                                          !.read_ahead = ahead - Size(x),
                                          !.pending = @ + Pending(ahead),
                                          !.chunk = @ + Size(x), !.reps = RepsAfter(x)]
    /\ UNCHANGED << pc, action, ret, io, strm, history >>

-----------------------------------------------------------------------------
Chunks ==
    IF stage = "open" THEN Pieces(Texts, ChunkSizes)
    ELSE IF strm.sequence = "RUN" /\ c.uncompressed_size >= MaxStale THEN { }
    ELSE { << >>, << 0 >> }

Garbage == [i \in 1..Len(input) |-> 100 + i]

Caller ==
    (\E kind \in Checks : Create(kind)) \/ (\E chunk \in Chunks : Update(chunk)) \/ Finish(Garbage)

System ==
    \/ StreamSteps
    \/ BufferFull \/ WriteField \/ BlockInit \/ BlockEncode \/ WritePadding \/ WriteCheck
    \/ LzEncode
    \/ ChunkInit \/ ChunkGoesOn \/ Lzma2BufferFull \/ CopyChunk \/ CopyUncompressed
    \/ EncodeInit \/ LzmaWaits \/ FlushChunk \/ EncodeSymbol

Next == Caller \/ System

\* A call that has begun is executed; nobody has to make one.
Spec == Init /\ [][Next]_vars /\ WF_vars(System)

-----------------------------------------------------------------------------
\* Every field has its type, and the read position is never behind what has been written.
TypeOK ==
    /\ pc \in { "none", "idle", "loop", "code", "block", "lz", "lzma2", "encode", "leave",
                "called" }
    /\ ret \in { "OK", "STREAM_END", "MEM_ERROR", "BUF_ERROR", "PROG_ERROR" }
    /\ StreamTypes
    /\ Len(c.window) <= WindowSize
    /\ c.read_pos \in 0..Len(c.window) /\ c.read_ahead \in 0..Smaller(c.read_pos, OPTS)
    /\ c.read_limit \in 0..Len(c.window)
    /\ \A i \in 1..4 : c.reps[i] \in 1..DictSize

\* Every field has its type.  And the assertions of the encoders hold, which a release build
\* does not check: a chunk is neither empty nor longer than its header can tell
\* (lzma2_encoder.c:57-60 and 113-114); nothing is read ahead when an uncompressed chunk is
\* copied, and all of it is still in the window (lz_encoder.h:286-287); the match finder has
\* enough to hash unless the end is near (lz_encoder_mf.c:195); a move drops something
\* (lz_encoder.c:50).
AssertionsHold ==
    /\ TypeOK
    /\ c.lzma2 = "LZMA_COPY" =>
           c.chunk \in 1..UncompressedMax /\ Len(c.coded) \in 1..ChunkMax
    /\ c.lzma2 = "UNCOMPRESSED_HEADER" => c.chunk \in 1..ChunkMax
    /\ c.lzma2 \in { "UNCOMPRESSED_HEADER", "UNCOMPRESSED_COPY" } =>
           c.read_ahead = 0 /\ c.chunk <= c.read_pos
    /\ c.pending > 0 => c.finishing
    /\ MustMove(c) => c.read_pos > KeepBefore
    /\ pc = "block" => input = << >>

InStream == stage = "open" /\ strm.sequence \in { "RUN", "FINISH" }

\* What has been read into the window, and how much of it was encoded or is in this chunk
Taken == SubSeq(fed, 1, Len(fed) - Len(input))
Done == Len(Taken) - Unencoded

\* What has been put out, and what of the chunk at work waits to be put out: as the chunk
\* would look if it ended here.
Emitted ==
    out \o luabuf \o buf \o
        CASE c.lzma2 = "LZMA_COPY" -> c.copy
          [] c.lzma2 = "LZMA_ENCODE" /\ c.coded # << >> ->
                 LET data == Append(c.coded, Append(c.rc, Simple("flush")))
                 IN  HeaderLzma(c, data) \o data
          [] OTHER -> << >>

\* At every step of every call, the chunks put out and the one at work are the text up to the
\* place the encoder has come to, whatever was planned, thrown away and encoded anew; the
\* window ends with the last byte read and holds whatever a match may reach, and the lowest
\* bits of a place in it are those of the place in the text.
SymbolsAreText ==
    InStream =>
        /\ Parse(Emitted).at # "bad"
        /\ Parse(Emitted).text =
               SubSeq(Taken, 1, IF c.lzma2 \in { "UNCOMPRESSED_HEADER", "UNCOMPRESSED_COPY" }
                                THEN Done - c.chunk ELSE Done)
        /\ IsSuffix(c.window, Taken)
        /\ Position >= Smaller(DictSize, Done)
        /\ Position % MoveAlign = Done % MoveAlign

\* Every call comes to an end: there is always room in the window for the input, or something
\* to encode.
CallsReturn == pc = "loop" ~> pc = "idle"

-----------------------------------------------------------------------------
\* What finish() completes is one whole stream that says what went in.
Complete(kind, i, o) == Whole(o) /\ TextOf(o) = i

\* Neither update() nor finish() refuses a text.
Refusable(kind, i) == FALSE

Contract == INSTANCE Filter WITH setup <- c.kind

\* The object keeps the promise of README.md:65-84.
FilterContract == Contract!FSpec
=============================================================================
