------------------------------- MODULE Deflate -------------------------------
(***************************************************************************)
(* The zlib compression filter: lzlib_update and lzlib_finish of           *)
(* src/src/ltn12ce_comp_zlib.c over deflate() of src/src/zlib/deflate.c,   *)
(* with its sliding window, its hash chains, its search for the longest    *)
(* match, and its three ways of making blocks: stored (level 0), fast (1   *)
(* to 3) and lazy (4 to 9).                                                *)
(*                                                                         *)
(* deflate_state is the record s, and its operations are functions on it.  *)
(* The Huffman codes are left out: here every item of a block takes half a *)
(* byte.  So is what the bindings never ask for: flush values other than   *)
(* Z_NO_FLUSH and Z_FINISH, strategies, gzip headers, dictionaries.        *)
(***************************************************************************)
EXTENDS ZlibFormat, FiniteSets

CONSTANTS
    Texts,          \* what a caller may have to compress
    Levels,         \* compression levels
    Config,         \* configuration_table: level |-> [good, lazy, nice, chain, func]
    WSize,          \* w_size: the window is twice as long
    MaxMatch,       \* MAX_MATCH: 258
    TooFar,         \* TOO_FAR: 4096
    HashShift,      \* 2^hash_shift
    HashSize,       \* hash_size
    Xor(_, _),      \* the operator ^ of C, on numbers below HashSize
    LitBufSize,     \* lit_bufsize
    MaxStored,      \* pending_buf_size - 5, at most 0xffff
    BufSize,        \* BUFFER_SIZE
    ChunkSizes,     \* bound: the lengths a chunk may have
    MaxStale        \* bound on what is read outside of a stream

MIN_MATCH == 3
MIN_LOOKAHEAD == MaxMatch + MIN_MATCH + 1
MAX_DIST == WSize - MIN_LOOKAHEAD
WindowSize == 2 * WSize

ASSUME DeflateConstants ==
    /\ { WSize, MaxMatch, TooFar, LitBufSize, MaxStored, MaxStale } \subseteq Nat
    /\ MaxMatch > MIN_MATCH /\ WSize > MIN_LOOKAHEAD /\ LitBufSize > 2 /\ MaxStored > 1
    /\ HashShift \in Nat /\ HashSize \in Nat \ {0}
    /\ BufSize \in Nat \ {0} /\ ChunkSizes \subseteq Nat
    /\ \A t \in Texts : t \in Seq(Nat)
    /\ \A l \in Levels :
          /\ Config[l].func \in { "stored", "fast", "slow" }
          /\ Config[l].func = "stored" => l = 0
          /\ { Config[l].good, Config[l].lazy, Config[l].nice, Config[l].chain } \subseteq Nat

ASSUME XorType == \A a, b \in 0..(HashSize - 1) : Xor(a, b) \in 0..(HashSize - 1)

\* UPDATE_HASH: one more byte goes into the hash value.
UpdateHash(h, c) == Xor((h * HashShift) % HashSize, c % HashSize)

\* Three bytes later a byte has left the hash value, and where the first two bytes of a string
\* are equal, equal keys mean equal strings, as the bytes fit into a key ("HASH_BITS >= 8").
ASSUME HashRolls ==
    /\ \A h, a, b, c \in 0..(HashSize - 1) :
          UpdateHash(UpdateHash(UpdateHash(h, a), b), c) = UpdateHash(UpdateHash(a, b), c)
    /\ \A h, b, c \in 0..(HashSize - 1) : UpdateHash(h, b) = UpdateHash(h, c) => b = c
    /\ \A t \in Texts : \A i \in 1..Len(t) : t[i] < HashSize

VARIABLES
    pc,                     \* where the call is: see the actions
    flush,                  \* the call that is or was made: NO_FLUSH in update, FINISH in finish
    ret,                    \* ret
    input,                  \* next_in, avail_in
    buf,                    \* the bytes in buf; avail_out is what is left of it
    luabuf,                 \* luabuf
    s,                      \* deflate_state, and adler
    fed, out, stage         \* history: the contract's view of the stream (module Filter)

io == << input, buf, luabuf >>
history == << fed, out, stage >>
vars == << pc, flush, ret, io, s, history >>

-----------------------------------------------------------------------------
Left == BufSize - Len(buf)

Smaller(a, b) == IF a < b THEN a ELSE b

Func == Config[s.level].func

\* deflate_slow decides on a byte when it knows what begins at the next one.
Undecided == IF s.match_available THEN 1 ELSE 0

\* deflateInit, lm_init
State(level) ==
    [level |-> level, status |-> "INIT", last_flush |-> "NO_FLUSH", wrap |-> TRUE,
     window |-> [i \in 0..(WindowSize - 1) |-> 0],
     head |-> [h \in 0..(HashSize - 1) |-> 0], prev |-> [i \in 0..(WSize - 1) |-> 0],
     ins_h |-> 0, strstart |-> 0, block_start |-> 0, lookahead |-> 0,
     match_length |-> MIN_MATCH - 1, match_start |-> 0,
     prev_length |-> MIN_MATCH - 1, prev_match |-> 0, match_available |-> FALSE,
     sym |-> << >>,         \* l_buf and d_buf: the literals and matches of the block
     bits |-> << >>,        \* bi_buf: half a byte or nothing
     pending |-> << >>,     \* pending_out, pending
     adler |-> << >>]       \* the check value is the text it was computed of

\* The call is over and returned this string; a call outside of a stream says nothing.
Return(result, next) ==
    /\ pc' = "idle" /\ buf' = << >> /\ luabuf' = << >> /\ input' = << >>
    /\ IF stage = "open" THEN stage' = next /\ out' = out \o result /\ fed' = fed
                         ELSE stage' = "stale" /\ out' = << >> /\ fed' = << >>

\* The call raised an error: what it had put into luabuf and the rest of the chunk are lost.
Raise(next) ==
    /\ pc' = "idle" /\ buf' = << >> /\ luabuf' = << >> /\ input' = << >>
    /\ IF stage = "open" /\ next = "refused"
       THEN stage' = "refused" /\ UNCHANGED << fed, out >>
       ELSE stage' = "stale" /\ out' = << >> /\ fed' = << >>

-----------------------------------------------------------------------------
(* Operations on deflate_state                                             *)

\* INSERT_STRING
InsertString(t, str) ==
    LET h == UpdateHash(t.ins_h, t.window[str + MIN_MATCH - 1])
    IN  [t EXCEPT !.ins_h = h, !.prev[str % WSize] = t.head[h], !.head[h] = str]

InsertHere(t) == IF t.lookahead >= MIN_MATCH THEN InsertString(t, t.strstart) ELSE t

\* The strings from..to, one after the other.
InsertAll(t, from, to) ==
    FoldLeft(InsertString, t, [i \in 1..(to + 1 - from) |-> from + i - 1])

\* Seeded fault: the heads of the chains are not moved.
SlideWithoutHeads(t) ==
    [t EXCEPT !.window = [i \in 0..(WindowSize - 1) |-> IF i < WSize THEN @[i + WSize] ELSE @[i]],
              !.match_start = @ - WSize, !.strstart = @ - WSize, !.block_start = @ - WSize,
              !.prev = [i \in 0..(WSize - 1) |-> IF @[i] >= WSize THEN @[i] - WSize ELSE 0]]

\* The upper half of the window becomes the lower one; what was below is forgotten.
Slide(t) ==
    [t EXCEPT !.window = [i \in 0..(WindowSize - 1) |-> IF i < WSize THEN @[i + WSize] ELSE @[i]],
              !.match_start = @ - WSize, !.strstart = @ - WSize, !.block_start = @ - WSize,
              !.head = [h \in 0..(HashSize - 1) |-> IF @[h] >= WSize THEN @[h] - WSize ELSE 0],
              !.prev = [i \in 0..(WSize - 1) |-> IF @[i] >= WSize THEN @[i] - WSize ELSE 0]]

\* Seeded fault: the window slides when it is read to its end.
SlideAtEnd(t) == IF t.strstart >= WindowSize THEN Slide(t) ELSE t

SlideIfNeeded(t) == IF t.strstart >= WSize + MAX_DIST THEN Slide(t) ELSE t

\* more: the free space at the end of the window
More(t) == WindowSize - t.lookahead - t.strstart

\* The hash value is initialised anew from the first bytes of the lookahead.
InitKey(t) ==
    IF t.lookahead >= MIN_MATCH
    THEN [t EXCEPT !.ins_h = UpdateHash(t.window[t.strstart], t.window[t.strstart + 1])]
    ELSE t

\* read_buf, and the hash value.  (insert is 0 whenever there is input to read: it is set when
\* a flush ends, and the only flush is the last one.)
ReadBuf(t, data) ==
    LET end == t.strstart + t.lookahead
    IN  InitKey([t EXCEPT !.window = [i \in 0..(WindowSize - 1) |->
                                         IF i >= end /\ i < end + Len(data)
                                         THEN data[i - end + 1] ELSE @[i]],
                          !.lookahead = @ + Len(data),
                          !.adler = @ \o data])

\* How many bytes from cur on are those from strstart on.  The third one is not compared.
CommonLength(t, cur) ==
    LET Differ(i) == t.window[cur + i] # t.window[t.strstart + i]
        at == { i \in 0..(MaxMatch - 1) \ { 2 } : Differ(i) }
    IN  IF at = { } THEN MaxMatch ELSE CHOOSE i \in at : \A j \in at : i <= j

\* The first n positions of the chain from p on.
Links(t, p, n) ==
    LET cur[k \in 1..n] == IF k = 1 THEN p ELSE t.prev[cur[k - 1] % WSize]
    IN  cur

\* longest_match: the first of the longest matches on the chain, as far as the search goes: it
\* ends where the window is too old, after a number of tries, and with a match that is nice.
\* It starts from prev_length, and a match no longer than that is none.
LongestMatch(t, hash_head) ==
    LET config == Config[t.level]
        limit  == IF t.strstart > MAX_DIST THEN t.strstart - MAX_DIST ELSE 0
        chain  == IF t.prev_length >= config.good THEN config.chain \div 4 ELSE config.chain
        nice   == Smaller(config.nice, t.lookahead)
        cur    == Links(t, hash_head, chain)
        near   == { k \in 1..chain : \A j \in 2..k : cur[j] > limit }
        len    == [k \in near |-> CommonLength(t, cur[k])]
        tried  == { k \in near : \A j \in 1..(k - 1) : len[j] <= t.prev_length \/ len[j] < nice }
        better == { k \in tried : len[k] > t.prev_length /\ \A j \in tried : len[j] <= len[k] }
    IN  IF better = { } THEN [len |-> Smaller(t.prev_length, t.lookahead), start |-> t.match_start]
        ELSE LET k == CHOOSE k \in better : \A j \in better : k <= j
             IN  [len |-> Smaller(len[k], t.lookahead), start |-> cur[k]]

TallyLit(t, c) == [t EXCEPT !.sym = Append(@, << Lit(c) >>)]
TallyDist(t, dist, len) == [t EXCEPT !.sym = Append(@, << MatchLen(len), MatchDist(dist) >>)]

\* bflush: the symbol buffer is full.
BlockFull(t) == Len(t.sym) = LitBufSize - 1

-----------------------------------------------------------------------------
(* Output                                                                  *)

\* send_bits: two items make a byte.
SendBits(t, items) ==
    LET all == t.bits \o items
        n   == Len(all) \div 2
    IN  [t EXCEPT !.pending = @ \o [i \in 1..n |-> << all[2 * i - 1], all[2 * i] >>],
                  !.bits = SubSeq(all, 2 * n + 1, Len(all))]

\* bi_windup
WindUp(t) == IF t.bits = << >> THEN t
             ELSE [t EXCEPT !.pending = Append(@, t.bits), !.bits = << >>]

\* _tr_stored_block: the bytes of the block as they stand in the window.
StoredBlock(t, n, last) ==
    LET header == [t EXCEPT !.bits = Append(@, Stored(n, last))]
    IN  [WindUp(header) EXCEPT
            !.pending = @ \o [i \in 1..n |-> << RawByte(t.window[t.block_start + i - 1]) >>]]

\* compress_block, with the header and the trees in front of it
CodedBlock(t, last) ==
    SendBits(t, << Codes(last) >> \o FlattenSeq(t.sym) \o << Simple("eob") >>)

\* Where the start of the block has left the window, it can no longer be stored.  Otherwise
\* the lengths decide, which depend on the codes; level 0 always stores.
Storable(t) == IF t.block_start < 0 THEN { FALSE }
               ELSE IF t.level = 0 THEN { TRUE } ELSE BOOLEAN

\* FLUSH_BLOCK_ONLY but for flush_pending: a block up to the window index "to" is made.
FlushBlock(t, to, last, stored) ==
    LET made == IF stored THEN StoredBlock(t, to - t.block_start, last) ELSE CodedBlock(t, last)
        end  == IF last THEN WindUp(made) ELSE made
    IN  [end EXCEPT !.sym = << >>, !.block_start = to]

\* flush_pending: as much of t.pending as there is room for in buf.
FlushPending(t) ==
    LET n == Smaller(Len(t.pending), Left)
    IN  /\ s' = [t EXCEPT !.pending = SubSeq(@, n + 1, Len(@))]
        /\ buf' = buf \o SubSeq(t.pending, 1, n)

\* avail_out = 0 after FlushPending(t)
NoRoomAfter(t) == Len(t.pending) >= Left

-----------------------------------------------------------------------------
Init ==
    /\ pc = "none" /\ flush = "NO_FLUSH" /\ ret = "OK"
    /\ input = << >> /\ buf = << >> /\ luabuf = << >>
    /\ s \in { State(level) : level \in Levels }
    /\ fed = << >> /\ out = << >> /\ stage = "stale"

\* lzlib("compress", level): deflateInit.
Create ==
    /\ pc = "none" /\ pc' = "idle" /\ stage' = "open"
    /\ UNCHANGED << flush, ret, input, buf, luabuf, s, fed, out >>

\* lzlib_update begins; "do not update with zero length data"
Update(chunk) ==
    /\ pc = "idle"
    /\ \/ /\ chunk # << >> /\ pc' = "loop"
          /\ flush' = "NO_FLUSH" /\ input' = chunk
          /\ fed' = IF stage = "open" THEN fed \o chunk ELSE << >>
          /\ UNCHANGED << buf, luabuf, out, stage >>
       \/ chunk = << >> /\ Return(<< >>, "open") /\ UNCHANGED flush
    /\ UNCHANGED << ret, s >>

\* lzlib_finish begins.
Finish ==
    /\ pc = "idle" /\ pc' = "loop"
    /\ flush' = "FINISH" /\ input' = << >>
    /\ UNCHANGED << ret, buf, luabuf, s, history >>

-----------------------------------------------------------------------------
(* deflate()                                                               *)

Leave(r) == pc' = "called" /\ ret' = r

\* update() behind the end of a stream: Z_STREAM_ERROR.
OutOfSequence ==
    /\ pc = "loop" /\ s.status = "FINISH" /\ flush # "FINISH"
    /\ Leave("STREAM_ERROR") /\ buf' = << >>
    /\ UNCHANGED << flush, input, luabuf, s, history >>

\* "Flush as much pending output as possible", the header first.  Without anything to do,
\* a flush that was asked for before is an error.
CallDeflate ==
    LET header == [s EXCEPT !.pending = Append(@, << Simple("zlib") >>), !.status = "BUSY"]
        begun  == IF s.status = "INIT" THEN header ELSE s
        t      == [begun EXCEPT !.last_flush = flush]
        n      == Smaller(Len(t.pending), BufSize)
    IN  /\ pc = "loop" /\ (s.status = "FINISH" => flush = "FINISH")
        /\ buf' = SubSeq(t.pending, 1, n)
        /\ \/ /\ n = BufSize /\ Leave("OK")
              /\ s' = [t EXCEPT !.pending = SubSeq(@, n + 1, Len(@)), !.last_flush = "NONE"]
           \/ /\ n < BufSize
              /\ IF n = 0 /\ input = << >> /\ flush = "NO_FLUSH" /\ s.last_flush # "NONE"
                 THEN Leave("BUF_ERROR")
                 ELSE UNCHANGED ret /\
                      pc' = IF input # << >> \/ s.lookahead # 0
                               \/ (flush # "NO_FLUSH" /\ s.status # "FINISH")
                            THEN "top" ELSE "tail"
              /\ s' = [t EXCEPT !.pending = << >>]
        /\ UNCHANGED << flush, input, luabuf, history >>

\* What deflate_stored, deflate_fast and deflate_slow return.
NeedMore == pc' = "need_more"

\* The head of their loops: is there enough lookahead?
Enough == IF Func = "stored" THEN s.lookahead > 1 ELSE s.lookahead >= MIN_LOOKAHEAD

\* A turn of fill_window's loop.
FillWindow ==
    LET t == SlideIfNeeded(s)
        n == Smaller(Len(input), More(t))
    IN  /\ pc = "fill" \/ (pc = "top" /\ ~Enough)
        /\ s' = IF n = 0 THEN t ELSE ReadBuf(t, SubSeq(input, 1, n))
        /\ input' = SubSeq(input, n + 1, Len(input))
        /\ pc' = IF s'.lookahead < MIN_LOOKAHEAD /\ input' # << >> THEN "fill" ELSE "filled"
        /\ UNCHANGED << flush, ret, buf, luabuf, history >>

\* update() waits for more lookahead.
Starved == IF Func = "stored" THEN s.lookahead = 0 ELSE s.lookahead < MIN_LOOKAHEAD

WaitForInput ==
    /\ pc = "filled" /\ Starved /\ flush = "NO_FLUSH"
    /\ NeedMore
    /\ UNCHANGED << flush, ret, input, buf, luabuf, s, history >>

Turn == \/ pc = "top" /\ Enough
        \/ pc = "filled" /\ s.lookahead > 0 /\ (Starved => flush = "FINISH")

\* The end of a turn, which may have filled the block.
EndTurn(t, full) == s' = t /\ pc' = IF full THEN "flush" ELSE "top"

\* FLUSH_BLOCK: up to the byte that is still to be decided.
FlushFull ==
    /\ pc = "flush"
    /\ \E stored \in Storable(s) :
           LET f == FlushBlock(s, s.strstart - Undecided, FALSE, stored)
           IN  FlushPending(f) /\ IF NoRoomAfter(f) THEN NeedMore ELSE pc' = "top"
    /\ UNCHANGED << flush, ret, input, luabuf, history >>

\* Seeded fault: the block is flushed only when it is too long for pending_buf.
StoredFullNoSlide(block_start, strstart) == strstart >= block_start + MaxStored

\* A stored block ends when pending_buf will be full, or when the window may have to slide.
StoredFull(block_start, strstart) ==
    \/ strstart >= block_start + MaxStored
    \/ strstart - block_start >= MAX_DIST

\* deflate_stored: all of the lookahead goes into the block that is being collected.
TurnStored ==
    LET read == s.strstart + s.lookahead
        to   == Smaller(read, s.block_start + MaxStored)
        t    == [s EXCEPT !.strstart = to, !.lookahead = read - to]
    IN  /\ Turn /\ Func = "stored"
        /\ EndTurn(t, StoredFull(s.block_start, read))
        /\ UNCHANGED << flush, ret, io, history >>

\* deflate_fast and deflate_slow: the string here is inserted.  deflate_slow keeps the last
\* match for comparison.
Insert ==
    LET t == InsertHere(s)
    IN  /\ Turn /\ Func # "stored"
        /\ s' = IF Func = "fast" THEN t
                ELSE [t EXCEPT !.prev_length = s.match_length, !.prev_match = s.match_start,
                               !.match_length = MIN_MATCH - 1]
        /\ pc' = "search"
        /\ UNCHANGED << flush, ret, io, history >>

\* hash_head: what was at the head of the chain.
HashHead == IF s.lookahead >= MIN_MATCH THEN s.prev[s.strstart % WSize] ELSE 0

Searchable ==
    /\ HashHead # 0 /\ s.strstart - HashHead <= MAX_DIST
    /\ Func = "slow" => s.prev_length < Config[s.level].lazy

\* For deflate_slow, a short match that is far is none.
Search ==
    LET found  == LongestMatch(s, HashHead)
        tooFar == Func = "slow" /\ found.len = MIN_MATCH /\ s.strstart - found.start > TooFar
    IN  /\ pc = "search" /\ pc' = "decide"
        /\ s' = IF Searchable
                THEN [s EXCEPT !.match_length = IF tooFar THEN MIN_MATCH - 1 ELSE found.len,
                               !.match_start = found.start]
                ELSE s
        /\ UNCHANGED << flush, ret, io, history >>

\* deflate_fast: the match here becomes a symbol, and the strings in it are inserted, unless it
\* is long or the input ends there.
TakeMatch ==
    LET n       == s.match_length
        rest    == s.lookahead - n
        end     == s.strstart + n
        i == IF n <= Config[s.level].lazy /\ rest >= MIN_MATCH
             THEN InsertAll(s, s.strstart + 1, end - 1)
             ELSE [s EXCEPT !.ins_h = UpdateHash(s.window[end], s.window[end + 1])]
        t == [TallyDist(i, s.strstart - s.match_start, n) EXCEPT
                 !.strstart = end, !.lookahead = rest, !.match_length = 0]
    IN  /\ pc = "decide" /\ Func = "fast" /\ n >= MIN_MATCH
        /\ EndTurn(t, BlockFull(t))
        /\ UNCHANGED << flush, ret, io, history >>

Advance(t) == [t EXCEPT !.strstart = @ + 1, !.lookahead = @ - 1]

\* deflate_fast: there is no match here.
TakeLiteral ==
    LET t == Advance(TallyLit(s, s.window[s.strstart]))
    IN  /\ pc = "decide" /\ Func = "fast" /\ s.match_length < MIN_MATCH
        /\ EndTurn(t, BlockFull(t))
        /\ UNCHANGED << flush, ret, io, history >>

\* deflate_slow: the match at the byte before is taken if the one here is no better.
PreviousWins == s.prev_length >= MIN_MATCH /\ s.match_length <= s.prev_length

TakePreviousMatch ==
    LET max_insert == s.strstart + s.lookahead - MIN_MATCH
        end == s.strstart - 1 + s.prev_length
        i   == InsertAll(s, s.strstart + 1, Smaller(end - 1, max_insert))
        t   == [TallyDist(i, s.strstart - 1 - s.prev_match, s.prev_length) EXCEPT
                   !.strstart = end, !.lookahead = @ - (s.prev_length - 1),
                   !.prev_length = 0, !.match_available = FALSE,
                   !.match_length = MIN_MATCH - 1]
    IN  /\ pc = "decide" /\ Func = "slow" /\ PreviousWins
        /\ EndTurn(t, BlockFull(t))
        /\ UNCHANGED << flush, ret, io, history >>

\* Seeded fault: the literal that is put out is the byte here, not the one before.
TallyHere(t) == TallyLit(t, t.window[t.strstart])

TallyPrevious(t) == TallyLit(t, t.window[t.strstart - 1])

\* Else the byte before becomes a literal, if there is one to be decided.
TakePreviousLiteral ==
    /\ pc = "decide" /\ Func = "slow" /\ ~PreviousWins
    /\ \/ /\ s.match_available
          /\ LET t == TallyPrevious(s) IN EndTurn(Advance(t), BlockFull(t))
       \/ /\ ~s.match_available
          /\ EndTurn(Advance([s EXCEPT !.match_available = TRUE]), FALSE)
    /\ UNCHANGED << flush, ret, io, history >>

\* The end of the input in finish(): the last literal, and the last block.
LastBlock ==
    LET t == IF s.match_available THEN [TallyPrevious(s) EXCEPT !.match_available = FALSE] ELSE s
    IN  /\ pc = "filled" /\ s.lookahead = 0 /\ flush = "FINISH"
        /\ \E stored \in Storable(t) :
               LET f == FlushBlock(t, t.strstart, TRUE, stored)
               IN  /\ FlushPending([f EXCEPT !.status = "FINISH"])
                   /\ pc' = IF NoRoomAfter(f) THEN "need_more" ELSE "tail"
        /\ UNCHANGED << flush, ret, input, luabuf, history >>

\* Seeded fault: last_flush is not reset.
AvoidBufErrorNever == s.last_flush

\* A full buffer: "make sure we return OK instead of BUF_ERROR at next call of deflate".
AvoidBufError == IF Left = 0 THEN "NONE" ELSE s.last_flush

\* need_more and finish_started
BlockNotDone ==
    /\ pc = "need_more"
    /\ Leave("OK")
    /\ s' = [s EXCEPT !.last_flush = AvoidBufError]
    /\ UNCHANGED << flush, input, buf, luabuf, history >>

\* "Write the trailer only once!"
Trailer ==
    LET t == [WindUp([s EXCEPT !.bits = << Check(s.adler) >>]) EXCEPT !.wrap = FALSE]
    IN  /\ pc = "tail"
        /\ \/ flush # "FINISH" /\ Leave("OK") /\ UNCHANGED << buf, s >>
           \/ flush = "FINISH" /\ ~s.wrap /\ Leave("STREAM_END") /\ UNCHANGED << buf, s >>
           \/ /\ flush = "FINISH" /\ s.wrap
              /\ FlushPending(t)
              /\ Leave(IF Len(t.pending) > Left THEN "OK" ELSE "STREAM_END")
        /\ UNCHANGED << flush, input, luabuf, history >>

-----------------------------------------------------------------------------
(* Back in lzlib_update or lzlib_finish                                    *)

Error == ret \in { "STREAM_ERROR", "BUF_ERROR" }

ZlibError ==
    /\ pc = "called" /\ Error
    /\ Raise("refused")
    /\ UNCHANGED << flush, ret, s >>

Again == Left = 0 /\ (flush = "FINISH" => ret # "STREAM_END")

GoOn ==
    /\ pc = "called" /\ ~Error /\ Again
    /\ \/ /\ pc' = "loop" /\ luabuf' = luabuf \o buf /\ buf' = << >>
          /\ UNCHANGED << input, history >>
       \/ Raise("stale")                  \* luaL_addlstring: not enough memory
    /\ UNCHANGED << flush, ret, s >>

CallReturns ==
    /\ pc = "called" /\ ~Error /\ ~Again
    /\ \/ Return(luabuf \o buf, IF flush = "FINISH" THEN "finished" ELSE "open")
       \/ Raise("stale")                  \* luaL_pushresult: not enough memory
    /\ UNCHANGED << flush, ret, s >>

-----------------------------------------------------------------------------
\* The caller cuts a text into chunks; outside of a stream it gives any byte.
Chunks ==
    IF stage = "open"
    THEN { SubSeq(t, Len(fed) + 1, Smaller(Len(t), Len(fed) + n)) :
             t \in { x \in Texts : IsPrefix(fed, x) }, n \in ChunkSizes }
    ELSE { << >> } \cup
         IF Len(s.adler) < MaxStale THEN UNION { { << t[i] >> : i \in 1..Len(t) } : t \in Texts }
                                    ELSE { }

Caller == Create \/ (\E chunk \in Chunks : Update(chunk)) \/ Finish

System ==
    \/ OutOfSequence \/ CallDeflate
    \/ FillWindow \/ WaitForInput
    \/ TurnStored \/ FlushFull \/ Insert \/ Search \/ TakeMatch \/ TakeLiteral
    \/ TakePreviousMatch \/ TakePreviousLiteral
    \/ LastBlock \/ BlockNotDone \/ Trailer
    \/ ZlibError \/ GoOn \/ CallReturns

Next == Caller \/ System

\* A call that has begun is executed; nobody has to make one.
Spec == Init /\ [][Next]_vars /\ WF_vars(System)

-----------------------------------------------------------------------------
\* Every field has its type; the symbol buffer and the buffer hold no more than they have room
\* for, and bi_buf less than a byte.
TypeOK ==
    /\ pc \in { "none", "idle", "loop", "top", "fill", "filled", "search", "decide", "flush",
            "need_more", "tail", "called" }
    /\ flush \in { "NO_FLUSH", "FINISH" }
    /\ ret \in { "OK", "STREAM_END", "STREAM_ERROR", "BUF_ERROR" }
    /\ Left \in 0..BufSize
    /\ s.level \in Levels /\ s.status \in { "INIT", "BUSY", "FINISH" } /\ s.wrap \in BOOLEAN
    /\ s.last_flush \in { "NONE", "NO_FLUSH", "FINISH" }
    /\ s.strstart \in 0..WindowSize /\ s.lookahead \in 0..(WindowSize - s.strstart)
    /\ s.block_start <= s.strstart
    /\ \A h \in DOMAIN s.head : s.head[h] \in 0..s.strstart
    /\ \A i \in DOMAIN s.prev : s.prev[i] \in 0..s.strstart
    /\ s.match_length \in 0..MaxMatch /\ s.prev_length \in 0..MaxMatch
    /\ Len(s.sym) < LitBufSize /\ Len(s.bits) < 2
    /\ stage \in { "open", "finished", "refused", "stale" }

\* Every field has its type.  And the assertions of deflate.c hold, which a release build does
\* not check: the window slides in time, there is room to read at least two bytes (1439) and to
\* look for a match (1500), and a block that can only be stored has not left the window (1569,
\* 1577).
AssertionsHold ==
    /\ TypeOK
    /\ pc = "fill" =>
           /\ s.lookahead < MIN_LOOKAHEAD
           /\ More(SlideIfNeeded(s)) >= 2
    /\ pc = "filled" => s.strstart <= WindowSize - MIN_LOOKAHEAD
    /\ Func = "stored" =>
           /\ pc = "top" /\ ~Enough =>
                  s.strstart < WSize + MAX_DIST \/ s.block_start >= WSize
           /\ s.block_start >= 0

\* The positions on the chain of a hash key that are near enough to be matched.
Chain(h) ==
    LET limit == IF s.strstart > MAX_DIST THEN s.strstart - MAX_DIST ELSE 0
        cur   == Links(s, s.head[h], WSize)
    IN  { cur[k] : k \in { n \in 1..WSize : \A j \in 1..n : cur[j] > limit } }

Key(p) == UpdateHash(UpdateHash(s.window[p], s.window[p + 1]), s.window[p + 2])

\* Every string on the chain of a hash key has that key: longest_match does not compare the
\* third byte.  So it is after every slide, and whenever a string is left out because the
\* input ended there; and every chain goes back in the window.
ChainsShareKey ==
    \A h \in DOMAIN s.head : \A p \in Chain(h) :
        /\ Key(p) = h /\ p <= s.strstart
        /\ s.prev[p % WSize] < p

\* What has been put out so far, and what waits for room or for the rest of a byte.
Emitted == FlattenSeq(out \o luabuf \o buf \o s.pending) \o s.bits

\* What is read but not in a symbol or a block yet.
Behind == s.lookahead + IF Func = "stored" THEN s.strstart - s.block_start
                        ELSE Undecided

\* At every step of every call, the blocks put out and the symbols collected for the next one
\* are the text read so far, up to the byte that is being decided: however the window slid,
\* and whatever the search took for a match.
SymbolsAreText ==
    stage = "open" /\ s.status # "FINISH" =>
        LET block == IF s.status = "INIT" THEN << >>
                     ELSE << Codes(FALSE) >> \o FlattenSeq(s.sym)
        IN  Parse(Emitted \o block).text = SubSeq(fed, 1, Len(fed) - Len(input) - Behind)

\* Every call comes to an end.
CallsReturn == pc = "loop" ~> pc = "idle"

-----------------------------------------------------------------------------
\* What finish() completes is one whole zlib stream that says what went in.
Complete(level, i, o) == Whole(o) /\ TextOf(o) = i

\* finish() never refuses a text.
Refusable(level, i) == FALSE

Contract == INSTANCE Filter WITH setup <- s.level

\* The object keeps the promise of README.md:65-84.
FilterContract == Contract!FSpec
=============================================================================
