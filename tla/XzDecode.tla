------------------------------ MODULE XzDecode ------------------------------
(***************************************************************************)
(* The LZMA decompression filter: llzma_update and llzma_finish of         *)
(* src/src/ltn12ce_comp_lzma.c over lzma_code() of                         *)
(* src/src/lzma/common/common.c and the decoders under it: auto_decode,    *)
(* stream_decode and alone_decode, block_decode, decode_buffer (which owns *)
(* the dictionary), lzma2_decode and lzma_decode.  A block header may put  *)
(* other filters between block_decode and decode_buffer: module            *)
(* FilterChain.                                                            *)
(*                                                                         *)
(* The decoders call each other from the outside in; pc says which of them *)
(* is at work, and c holds the state of all of them.  Range coding is left *)
(* out: c.hold is the items that need no further byte.  So is what the     *)
(* bindings never ask for: concatenated streams, reports of the check      *)
(* type, preset dictionaries.                                              *)
(***************************************************************************)
EXTENDS FilterChain

CONSTANTS
    Streams,        \* compressed data a caller may have, whole, damaged or with more behind it
    ChunkSizes,     \* bound: the sizes of the chunks a stream comes in
    StaleChunks,    \* bound: chunks a caller may offer after an error
    MaxStale        \* bound on what is decoded outside of a stream

ASSUME XzDecodeConstants ==
    /\ BufSize \in Nat \ {0} /\ DictSize \in Nat \ {0} /\ Align \in Nat \ {0}
    /\ ChunkSizes \subseteq Nat /\ MaxStale \in Nat

\* Whatever the bits of an item say: these end at the end of a byte, and a match is not empty.
\* A block header is one field, with at most three filters in it.
ASSUME StreamItems ==
    \A z \in Streams : \A i \in 1..Len(z) : \A j \in 1..Len(z[i]) :
        LET x == z[i][j]
        IN  /\ x.k = "match" => x.n >= 2 /\ x.m >= 1
            /\ x.k = "rep" => x.n >= 1 /\ x.m \in 1..4
            /\ x.k = "filter" => j < Len(z[i]) /\ z[i][j + 1].k \in { "filter", "block" }
            /\ x.k = "block" => j <= 4
            /\ x.k \notin { "lit", "match", "rep", "bad", "filter" } => j = Len(z[i])

-----------------------------------------------------------------------------
\* The modes in which lzma_decode is at work, and those of all of the LZ decoder.
LzmaModes == { "RC", "IS_MATCH", "LITERAL_WRITE", "COPY_MATCH", "NORMALIZE" }
LzModes == LzmaModes \cup { "CONTROL", "SIZES", "COPY" }

Decoder ==
    [mode |-> "INIT", hold |-> << >>, alone |-> FALSE,
     kind |-> 0,                            \* stream_flags.check
     told |-> << Unknown, Unknown >>,       \* block_options: what the block header says
     compressed_size |-> 0, uncompressed_size |-> 0, check |-> << >>,
     blocks |-> << >>, records |-> << >>, remaining |-> 0,          \* index_hash
     need_properties |-> TRUE, need_dictionary_reset |-> TRUE, next |-> "IS_MATCH",
     chunk_in |-> 0, chunk_out |-> 0,       \* what is left of the chunk
     reps |-> FreshReps, len |-> 0,         \* rep0 to rep3; len or the literal in symbol
     dict |-> [i \in 0..(DictSize - 1) |-> 0], pos |-> 0, full |-> 0, limit |-> 0,
     need_reset |-> FALSE,
     chain |-> << >>, at |-> 0,             \* module FilterChain
     block0 |-> 0, dict0 |-> 0]             \* out_start, dict_start: where a call began

-----------------------------------------------------------------------------
Init == InitStream /\ c = Decoder

\* llzma("decompress"): lzma_auto_decoder.
Create ==
    /\ pc = "none" /\ pc' = "idle" /\ stage' = "open"
    /\ UNCHANGED << action, ret, io, strm, c, fed, out >>

-----------------------------------------------------------------------------
(* auto_decode, stream_decode, alone_decode: pc = "code"                   *)

Code(m) == pc = "code" /\ c.mode = m
Item1 == Head(c.hold)

\* The decoders outside of the block return.
CodeReturns(r) == pc' = "leave" /\ ret' = r
GoOnCoding == pc' = "code" /\ ret' = "OK"

\* The end of the chunk, or as much as may be decoded now.
AtLimit == c.chunk_out # Unknown /\ (c.chunk_out = 0 \/ c.pos = c.limit)

\* The modes that wait for a field, or for the bits of the next symbol.
WaitsForItem ==
    /\ c.hold = << >>
    /\ \/ pc = "code" /\ c.mode \in { "INIT", "BLOCK_HEADER", "CHECK", "INDEX", "FOOTER" }
       \/ pc = "code" /\ c.mode = "PADDING" /\ c.compressed_size % Align # 0
       \/ pc = "lz" /\ c.mode \in { "CONTROL", "SIZES", "RC", "NORMALIZE" }
       \/ pc = "lz" /\ c.mode = "IS_MATCH" /\ ~AtLimit

PullByte ==
    /\ WaitsForItem /\ input # << >>
    /\ input' = Tail(input)
    /\ c' = [c EXCEPT !.hold = Head(input),
                      !.compressed_size = IF pc = "lz" /\ ~c.alone THEN @ + 1 ELSE @,
                      !.chunk_in = IF c.mode \in LzmaModes /\ ~c.alone THEN @ - 1 ELSE @]
    /\ UNCHANGED << pc, action, ret, buf, luabuf, strm, history >>

NoInput ==
    /\ WaitsForItem /\ pc = "code" /\ input = << >>
    /\ CodeReturns("OK")
    /\ UNCHANGED << action, io, strm, c, history >>

\* The first byte tells the format.
Detect ==
    /\ Code("INIT") /\ c.hold # << >>
    /\ \/ /\ Item1.k = "header" /\ GoOnCoding
          /\ c' = [c EXCEPT !.mode = "BLOCK_HEADER", !.hold = << >>, !.kind = Item1.n]
       \/ /\ Item1.k = "alone" /\ GoOnCoding
          /\ c' = [c EXCEPT !.mode = "RC", !.hold = << >>, !.alone = TRUE,
                            !.chunk_out = Item1.n]
       \/ /\ Item1.k \notin { "header", "alone" }
          /\ CodeReturns("FORMAT_ERROR") /\ UNCHANGED c
       \/ CodeReturns("MEM_ERROR") /\ UNCHANGED c
    /\ UNCHANGED << action, io, strm, history >>

\* lzma_block_decoder_init: a fresh chain, dictionary, sizes and check value
NewBlock(filters, told) ==
    [c EXCEPT !.mode = "CONTROL", !.hold = << >>, !.told = told, !.chain = NewChain(filters),
              !.compressed_size = 0, !.uncompressed_size = 0, !.check = << >>,
              !.need_properties = TRUE, !.need_dictionary_reset = TRUE,
              !.pos = 0, !.full = 0]

\* lzma_block_header_decode: the header is in c.hold.
ReadBlockHeader ==
    LET told    == << Last(c.hold).n, Last(c.hold).m >>
        filters == Front(c.hold)
    IN  /\ Code("BLOCK_HEADER") /\ c.hold # << >>
        /\ \/ /\ Item1.k \in { "filter", "block" } /\ ValidChain(filters)
              /\ GoOnCoding /\ c' = NewBlock(filters, told)
           \/ /\ Item1.k \in { "filter", "block" } /\ ~ValidChain(filters)
              /\ CodeReturns("OPTIONS_ERROR") /\ UNCHANGED c
           \/ Item1.k = "index" /\ GoOnCoding /\ c' = [c EXCEPT !.mode = "INDEX"]
           \/ /\ Item1.k \notin { "filter", "block", "index" }
              /\ CodeReturns("DATA_ERROR") /\ UNCHANGED c
           \/ CodeReturns("MEM_ERROR") /\ UNCHANGED c
    /\ UNCHANGED << action, io, strm, history >>

ReadPadding ==
    /\ Code("PADDING")
    /\ \/ /\ c.compressed_size % Align = 0 /\ GoOnCoding
          /\ c' = [c EXCEPT !.mode = IF c.kind = 0 THEN "BLOCK_HEADER" ELSE "CHECK"]
       \/ /\ c.hold = << Simple("pad") >> /\ GoOnCoding
          /\ c' = [c EXCEPT !.compressed_size = @ + 1, !.hold = << >>]
       \/ /\ c.hold \notin { << >>, << Simple("pad") >> }
          /\ CodeReturns("DATA_ERROR") /\ UNCHANGED c
    /\ UNCHANGED << action, io, strm, history >>

\* "Validate the Check only if we support it."
CheckMatches == Item1.k = "check" /\ Item1.sum = c.check

ReadCheck ==
    /\ Code("CHECK") /\ c.hold # << >>
    /\ IF c.kind \in Verified => CheckMatches
       THEN GoOnCoding /\ c' = [c EXCEPT !.mode = "BLOCK_HEADER", !.hold = << >>]
       ELSE CodeReturns("DATA_ERROR") /\ UNCHANGED c
    /\ UNCHANGED << action, io, strm, history >>

Total(pairs, i) == FoldLeft(LAMBDA sum, p : sum + p[i], 0, pairs)

\* "Verify that we don't go over the known sizes."  The code also compares the size the records
\* have in the index; where only that differs, the comparison at the end tells.
TooLarge(records) == \E i \in 1..2 : Total(records, i) > Total(c.blocks, i)

\* lzma_index_hash_decode: the records are only compared as a whole, at the end.
ReadIndex ==
    /\ Code("INDEX") /\ c.hold # << >>
    /\ LET records == Append(c.records, << Item1.n, Item1.m >>)
       IN  \/ /\ Item1.k = "index" /\ Item1.n = Len(c.blocks)
              /\ GoOnCoding /\ c' = [c EXCEPT !.hold = << >>, !.remaining = Item1.n]
           \/ /\ Item1.k = "record" /\ c.remaining > 0 /\ ~TooLarge(records)
              /\ GoOnCoding
              /\ c' = [c EXCEPT !.hold = << >>, !.remaining = @ - 1, !.records = records]
           \/ /\ Item1.k = "crc" /\ c.remaining = 0 /\ c.records = c.blocks
              /\ GoOnCoding /\ c' = [c EXCEPT !.hold = << >>, !.mode = "FOOTER"]
           \/ /\ \/ Item1.k = "index" /\ Item1.n # Len(c.blocks)
                 \/ Item1.k = "record" /\ (c.remaining = 0 \/ TooLarge(records))
                 \/ Item1.k = "crc" /\ (c.remaining # 0 \/ c.records # c.blocks)
                 \/ Item1.k \notin { "index", "record", "crc" }
              /\ CodeReturns("DATA_ERROR") /\ UNCHANGED c
    /\ UNCHANGED << action, io, strm, history >>

ReadFooter ==
    /\ Code("FOOTER") /\ c.hold # << >>
    /\ CodeReturns(IF Item1.k = "footer" /\ Item1.m = Len(c.blocks) /\ Item1.n = c.kind
                   THEN "STREAM_END" ELSE "DATA_ERROR")
    /\ UNCHANGED << action, io, strm, c, history >>

-----------------------------------------------------------------------------
(* block_decode around the chain of filters, and decode_buffer at its end  *)

\* The block, or all of an LZMA_Alone file behind its header
EnterBlock ==
    /\ pc = "code" /\ c.mode \in LzModes
    /\ pc' = IF c.chain = << >> THEN "buffer" ELSE "filter"
    /\ c' = [c EXCEPT !.block0 = Len(buf), !.at = 1]
    /\ UNCHANGED << action, ret, io, strm, history >>

\* Neither past the end of the dictionary, nor more than there is room for in the output.
Limit(pos) == pos + Smaller(OutLeft, DictSize - pos)

DecodeBuffer ==
    LET pos == IF c.pos = DictSize THEN 0 ELSE c.pos
    IN  /\ pc = "buffer" /\ pc' = "lz" /\ ret' = "OK"
        /\ c' = [c EXCEPT !.pos = pos, !.limit = Limit(pos), !.dict0 = pos]
        /\ UNCHANGED << action, io, strm, history >>

\* What has been decoded since then
Fresh == [i \in 1..(c.pos - c.dict0) |-> c.dict[c.dict0 + i - 1]]

\* Seeded fault: the write position goes back to the start, the fill stays.
ResetKeepsFull(d) == [d EXCEPT !.pos = 0, !.need_reset = FALSE, !.dict[DictSize - 1] = 0]

\* lz_decoder_reset
Reset(d) ==
    [d EXCEPT !.pos = 0, !.full = 0, !.need_reset = FALSE, !.dict[DictSize - 1] = 0]

\* What is new goes out; at the end of the dictionary, or behind a reset, there may be more.
CopyOut ==
    LET d == IF c.need_reset THEN Reset(c) ELSE c
        more == ret = "OK" /\ Len(Fresh) < OutLeft /\ (c.need_reset \/ c.pos = DictSize)
    IN  /\ pc = "copy"
        /\ \/ more /\ pc' = "buffer" /\ PutOut(Out \o Fresh, d)
           \/ /\ ~more /\ PutOut(Out \o Fresh, [d EXCEPT !.at = @ - 1])
              /\ pc' = IF c.at = 1 THEN "block" ELSE "filtered"
        /\ UNCHANGED << action, ret, input, luabuf, strm, history >>


NewOutput == SubSeq(buf, c.block0 + 1, Len(buf))

WithinTold(d) ==
    /\ d.told[1] = Unknown \/ d.uncompressed_size <= d.told[1]
    /\ d.told[2] = Unknown \/ d.compressed_size <= d.told[2]

AsTold(d) ==
    Told(d.uncompressed_size, d.told[1]) /\ Told(d.compressed_size, d.told[2])

\* block_decode, behind next.code(); the sizes go to the index hash when the block is over.
BlockReturns ==
    LET d == [c EXCEPT !.uncompressed_size = @ + Len(NewOutput),
                       !.check = IF c.kind \in Verified THEN @ \o NewOutput ELSE @]
        e == [d EXCEPT !.mode = "PADDING",
                       !.blocks = Append(@, << d.compressed_size, d.uncompressed_size >>)]
    IN  /\ pc = "block"
        /\ \/ c.alone /\ CodeReturns(ret) /\ UNCHANGED c
           \/ ~c.alone /\ ~WithinTold(d) /\ CodeReturns("DATA_ERROR") /\ c' = d
           \/ ~c.alone /\ WithinTold(d) /\ ret # "STREAM_END" /\ CodeReturns(ret) /\ c' = d
           \/ /\ ~c.alone /\ WithinTold(d) /\ ret = "STREAM_END" /\ ~AsTold(d)
              /\ CodeReturns("DATA_ERROR") /\ c' = d
           \/ /\ ~c.alone /\ ret = "STREAM_END" /\ AsTold(d)
              /\ GoOnCoding /\ c' = e
        /\ UNCHANGED << action, io, strm, history >>

-----------------------------------------------------------------------------
(* lzma2_decode: pc = "lz"                                                 *)

Lz(m) == pc = "lz" /\ c.mode = m

LzReturns(r) == pc' = "copy" /\ ret' = r
GoOnInChunk == pc' = "lz" /\ ret' = "OK"

\* lzma_decode returns r and leaves d; it may have read more than the chunk has.
LzmaReturns(r, d) ==
    /\ c' = IF r = "STREAM_END" /\ ~c.alone /\ c.chunk_in = 0 THEN [d EXCEPT !.mode = "CONTROL"]
            ELSE d
    /\ \/ c.alone /\ LzReturns(r)
       \/ ~c.alone /\ c.chunk_in < 0 /\ LzReturns("DATA_ERROR")
       \/ ~c.alone /\ c.chunk_in >= 0 /\ r # "STREAM_END" /\ LzReturns(r)
       \/ ~c.alone /\ c.chunk_in > 0 /\ r = "STREAM_END" /\ LzReturns("DATA_ERROR")
       \/ ~c.alone /\ c.chunk_in = 0 /\ r = "STREAM_END" /\ GoOnInChunk

OutOfInput ==
    /\ pc = "lz" /\ input = << >>
    /\ WaitsForItem \/ c.mode = "COPY"
    /\ IF c.mode \in LzmaModes THEN LzmaReturns("OK", c) ELSE LzReturns("OK") /\ UNCHANGED c
    /\ UNCHANGED << action, io, strm, history >>

\* May this chunk come next?  The first one resets the dictionary, the first LZMA chunk behind
\* such a reset brings properties.
Allowed(x) ==
    /\ x.k \in { "lzma", "raw" }
    /\ c.need_dictionary_reset => x.n = Dictionary
    /\ x.k = "lzma" /\ c.need_properties => x.n >= Properties

\* (With new properties the state is reset a few bytes later, when they have been read.)
AfterControl(x) ==
    [c EXCEPT !.hold = << >>, !.mode = "SIZES",
              !.next = IF x.k = "lzma" THEN "RC" ELSE "COPY",
              !.need_properties = IF x.k = "lzma" THEN FALSE ELSE @ \/ x.n = Dictionary,
              !.need_dictionary_reset = FALSE,
              !.reps = IF x.k = "lzma" /\ x.n >= State THEN FreshReps ELSE @,
              !.need_reset = (x.n = Dictionary)]

\* The caller flushes the dictionary before it is reset.
ReadControl ==
    /\ Lz("CONTROL") /\ c.hold # << >>
    /\ \/ /\ Item1.k = "end" /\ LzReturns("STREAM_END") /\ c' = [c EXCEPT !.hold = << >>]
       \/ /\ Allowed(Item1) /\ c' = AfterControl(Item1)
          /\ IF Item1.n = Dictionary THEN LzReturns("OK") ELSE GoOnInChunk
       \/ /\ Item1.k # "end" /\ ~Allowed(Item1)
          /\ LzReturns("DATA_ERROR") /\ UNCHANGED c
    /\ UNCHANGED << action, io, strm, history >>

ReadSizes ==
    /\ Lz("SIZES") /\ c.hold # << >>
    /\ \/ /\ Item1.k = "sizes" /\ GoOnInChunk
          /\ c' = [c EXCEPT !.hold = << >>, !.mode = c.next, !.chunk_in = Item1.m,
                            !.chunk_out = IF c.next = "RC" THEN Item1.n ELSE @]
       \/ Item1.k # "sizes" /\ LzReturns("DATA_ERROR") /\ UNCHANGED c
    /\ UNCHANGED << action, io, strm, history >>

\* A byte of an uncompressed chunk is copied whatever it says.
ByteValue(b) == IF b # << >> /\ Head(b).k = "byte" THEN Head(b).n ELSE 0

\* The dictionary with the bytes s behind its write position
Written(s) ==
    LET pos == c.pos + Len(s)
    IN  [c EXCEPT !.dict = [i \in DOMAIN @ |->
                               IF i >= c.pos /\ i < pos THEN s[i - c.pos + 1] ELSE @[i]],
                  !.pos = pos, !.full = IF @ < pos THEN pos ELSE @]

\* dict_write
CopyChunk ==
    LET n == Smaller(c.chunk_in, Smaller(Len(input), c.limit - c.pos))
        d == Written([i \in 1..n |-> ByteValue(input[i])])
    IN  /\ Lz("COPY") /\ input # << >>
        /\ input' = SubSeq(input, n + 1, Len(input))
        /\ c' = [d EXCEPT !.chunk_in = @ - n, !.compressed_size = @ + n,
                          !.mode = IF c.chunk_in = n THEN "CONTROL" ELSE "COPY"]
        /\ IF c.chunk_in = n THEN GoOnInChunk ELSE LzReturns("OK")
        /\ UNCHANGED << action, buf, luabuf, strm, history >>

-----------------------------------------------------------------------------
(* lzma_decode, and lzma2_decode behind it                                 *)

GoOnInLzma(d) == c' = d /\ GoOnInChunk

\* rc_read_init
ReadRc ==
    /\ Lz("RC") /\ c.hold # << >>
    /\ IF Item1.k = "rc" THEN GoOnInLzma([c EXCEPT !.hold = << >>, !.mode = "IS_MATCH"])
                         ELSE LzmaReturns("DATA_ERROR", c)
    /\ UNCHANGED << action, io, strm, history >>

\* Room for n bytes at most: the dictionary, the buffer and the chunk have to hold them.
Room(n) ==
    LET room == Smaller(n, c.limit - c.pos)
    IN  IF c.chunk_out = Unknown THEN room ELSE Smaller(room, c.chunk_out)

\* The bytes s are decoded.
Decoded(s) ==
    LET d == Written(s)
    IN  [d EXCEPT !.chunk_out = IF @ = Unknown THEN @ ELSE @ - Len(s), !.mode = "IS_MATCH"]

\* A whole chunk is decoded, or all there is room for.
StopAtLimit ==
    /\ Lz("IS_MATCH") /\ AtLimit
    /\ IF c.chunk_out = 0 THEN GoOnInLzma([c EXCEPT !.mode = "NORMALIZE"])
                          ELSE LzmaReturns("OK", c)
    /\ UNCHANGED << action, io, strm, history >>

Symbol1 == Lz("IS_MATCH") /\ ~AtLimit /\ c.hold # << >>
Taken == [c EXCEPT !.hold = Tail(@)]

ReadLiteral ==
    /\ Symbol1 /\ Item1.k = "lit"
    /\ GoOnInLzma([Taken EXCEPT !.mode = "LITERAL_WRITE", !.len = Item1.n])
    /\ UNCHANGED << action, io, strm, history >>

\* dict_put
WriteLiteral ==
    /\ Lz("LITERAL_WRITE")
    /\ IF Room(1) = 0 THEN LzmaReturns("OK", c) ELSE GoOnInLzma(Decoded(<< c.len >>))
    /\ UNCHANGED << action, io, strm, history >>

\* A distance is looked at when it is new; of the last four that is not done again.
ReadMatch ==
    /\ Symbol1 /\ Item1.k \in { "match", "rep" }
    /\ LET reps == IF Item1.k = "match" THEN Learn(c.reps, Item1.m) ELSE Recall(c.reps, Item1.m)
           d    == [Taken EXCEPT !.mode = "COPY_MATCH", !.reps = reps, !.len = Item1.n]
       IN  IF c.full >= (IF Item1.k = "match" THEN Item1.m ELSE 1)
           THEN GoOnInLzma(d) ELSE LzmaReturns("DATA_ERROR", d)
    /\ UNCHANGED << action, io, strm, history >>

\* dict_get: the byte d places back
DictGet(d) == c.dict[c.pos - d + IF d <= c.pos THEN 0 ELSE DictSize]

\* Seeded fault: the copy from the end of the dictionary does not go on at its beginning.
RepeatedNoWrap(d, n) ==
    [i \in 1..n |-> IF d <= c.pos THEN c.dict[c.pos - d + ((i - 1) % d)]
                    ELSE c.dict[Smaller(c.pos - d + DictSize + i - 1, DictSize - 1)]]

\* dict_repeat: the bytes a match of distance d makes.
Repeated(d, n) == [i \in 1..n |-> DictGet(d - ((i - 1) % d))]

CopyMatch ==
    LET n == Room(c.len)
        d == Decoded(Repeated(c.reps[1], n))
    IN  /\ Lz("COPY_MATCH")
        /\ IF n = c.len THEN GoOnInLzma([d EXCEPT !.len = 0])
           ELSE LzmaReturns(IF d.chunk_out = 0 THEN "DATA_ERROR" ELSE "OK",
                            [d EXCEPT !.len = @ - n, !.mode = "COPY_MATCH"])
        /\ UNCHANGED << action, io, strm, history >>

\* Behind the chunk, or at the end marker, the range coder has to be at its end.
EndLzma ==
    /\ c.hold # << >>
    /\ \/ /\ Lz("NORMALIZE") /\ Item1.k = "flush"
          /\ LzmaReturns("STREAM_END", [c EXCEPT !.hold = << >>, !.mode = "RC"])
       \/ /\ Symbol1 /\ Item1.k = "eopm" /\ c.chunk_out = Unknown
          /\ LzmaReturns("STREAM_END", [c EXCEPT !.hold = << >>, !.mode = "RC"])
       \/ /\ \/ Lz("NORMALIZE") /\ Item1.k # "flush"
             \/ Symbol1 /\ Item1.k \notin { "lit", "match", "rep", "eopm" }
             \/ Symbol1 /\ Item1.k = "eopm" /\ c.chunk_out # Unknown
          /\ LzmaReturns("DATA_ERROR", c)
    /\ UNCHANGED << action, io, strm, history >>

-----------------------------------------------------------------------------
\* The caller cuts a stream into chunks.  After an error it may offer what it likes: that is
\* decoded only if the error was one of Lua's, in the middle of a block.
Chunks ==
    IF stage = "open" THEN Pieces(Streams, ChunkSizes)
    ELSE IF strm.sequence = "RUN" /\ (c.alone \/ c.compressed_size >= MaxStale)
    THEN { }
    ELSE StaleChunks

Garbage == [i \in 1..Len(input) |-> << Simple("bad") >>]

Caller == Create \/ (\E chunk \in Chunks : Update(chunk)) \/ Finish(Garbage)

System ==
    \/ StreamSteps
    \/ PullByte \/ NoInput
    \/ Detect \/ ReadBlockHeader \/ ReadPadding \/ ReadCheck \/ ReadIndex \/ ReadFooter
    \/ EnterBlock \/ ChainSteps \/ DecodeBuffer \/ CopyOut \/ BlockReturns
    \/ OutOfInput \/ ReadControl \/ ReadSizes \/ CopyChunk
    \/ ReadRc \/ StopAtLimit \/ ReadLiteral \/ WriteLiteral \/ ReadMatch \/ CopyMatch \/ EndLzma

Next == Caller \/ System

\* A call that has begun is executed; nobody has to make one.
Spec == Init /\ [][Next]_vars /\ WF_vars(System)

-----------------------------------------------------------------------------
\* Every field has its type; the buffer never holds more than it has room for, and the
\* dictionary's positions are those of a circular buffer that is filled in order.
TypeOK ==
    /\ pc \in { "none", "idle", "loop", "code", "filter", "filtered", "buffer", "lz", "copy",
                "block", "leave", "called" }
    /\ StreamTypes /\ ChainTypes
    /\ ret \in { "OK", "STREAM_END", "FORMAT_ERROR", "OPTIONS_ERROR", "DATA_ERROR", "MEM_ERROR",
                 "BUF_ERROR", "PROG_ERROR" }
    /\ c.block0 \in 0..BufSize /\ c.dict0 \in 0..DictSize
    /\ c.mode \in LzModes \cup { "INIT", "BLOCK_HEADER", "PADDING", "CHECK", "INDEX", "FOOTER" }
    /\ c.pos \in 0..DictSize /\ c.full \in { c.pos, DictSize } /\ c.limit \in 0..DictSize
    /\ c.chunk_out >= Unknown
    /\ \A i \in 1..4 : c.reps[i] >= 1

\* What has been read, by the reference definition.
Read ==
    LET n == Len(fed) - Len(input)
        b == IF c.hold = << >> THEN << >>
             ELSE << SubSeq(fed[n], 1, Len(fed[n]) - Len(c.hold)) >>
    IN  Parse(SubSeq(fed, 1, n - Len(b)) \o b)

InStream == stage = "open" /\ strm.sequence \in { "RUN", "FINISH" } /\ Read.at # "bad"

\* What of that is in the dictionary: all but the literal or the rest of a match that waits for
\* room.
Pending == CASE c.mode = "LITERAL_WRITE" -> 1 [] c.mode = "COPY_MATCH" -> c.len [] OTHER -> 0
DictText(p) == SubSeq(p.text, 1, Len(p.text) - Pending)

\* What the chain has put out of s: each coder keeps back what is in its buffer.
Through(filters, s) ==
    FoldRightDomain(LAMBDA k, t : LET plain == Undone(filters[k], t)
                                  IN  SubSeq(plain, 1, Len(plain) - Len(c.chain[k].buffer)),
                    filters, s)

\* What of the text has left the decoder, or is in the dictionary only.
Produced ==
    out \o luabuf \o buf \o IF c.chain = << >> /\ pc \in { "lz", "copy" } THEN Fresh ELSE << >>

\* At every step of every call, what has been put out, and what is still in the dictionary only,
\* is the text of what has been read, but for the literal or the rest of a match that waits for
\* room.  With a chain of filters it is that text with the filters undone, whenever none of them
\* is at work, but for the bytes that wait in their buffers.
DecodedIsText ==
    InStream /\ (c.chain = << >> \/ (c.at = 0 /\ ret \in { "OK", "STREAM_END" })) =>
        LET p == Read
            text == DictText(p)
        IN  Produced = p.plain \o Through(p.chain, SubSeq(text, p.first + 1, Len(text)))

\* Every field has its type.  And the byte d places before the write position of the circular
\* dictionary is the d-th last byte of the text, and there are exactly as many of them as a
\* distance may ask for: those since the dictionary was reset, as far as it is large enough.
DictHoldsText ==
    /\ TypeOK
    /\ InStream /\ c.mode \in LzModes /\ ~c.need_reset =>
           LET p == Read
               text == DictText(p)
           IN  /\ p.at \in { "control", "sizes", "rc", "symbol", "byte" } /\ Pending = 0
                      => c.full = Reach(p)
               /\ \A d \in 1..c.full : DictGet(d) = text[Len(text) - d + 1]

\* Every call comes to an end; finish() of a stream that is cut off does because lzma_code
\* notices that nothing goes on.
CallsReturn == pc = "loop" ~> pc = "idle"

\* lzma_code excuses one call without progress, and update() never makes two: it raises an
\* error only on a damaged stream (compare UpdateRefusesOnlyDamage of Inflate).
UpdateRefusesOnlyDamage ==
    [][stage = "open" /\ stage' = "refused" /\ action = "RUN" => Damaged(fed)]_vars

-----------------------------------------------------------------------------
\* When finish() returns, a whole stream has come out; what followed it is ignored.
Complete(s, i, o) == Whole(i) /\ o = TextOf(i)

\* An error is raised only on what is not a whole stream.
Refusable(s, i) == ~Whole(i)

\* There is nothing to set up: a decompressor has one setup.
Contract == INSTANCE Filter WITH setup <- "decompress"

\* The object keeps the promise of README.md:65-84 for the stream its input begins with.
FilterContract == Contract!FSpec
=============================================================================
