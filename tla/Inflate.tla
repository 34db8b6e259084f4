------------------------------- MODULE Inflate -------------------------------
(***************************************************************************)
(* The zlib decompression filter: lzlib_update and lzlib_finish of         *)
(* src/src/ltn12ce_comp_zlib.c over inflate() of src/src/zlib/inflate.c,   *)
(* its window, and the decoder of src/src/zlib/inffast.c it switches to    *)
(* when there is plenty of input and of room.                              *)
(*                                                                         *)
(* hold is the bit buffer: the items that need no further byte.  The modes *)
(* between two items (FLAGS to HCRC, TABLE to CODELENS, LENEXT, DISTEXT)   *)
(* wait for the bytes that complete the second one.  The check value is    *)
(* the text it was computed of, so that text left out or taken twice shows.*)
(***************************************************************************)
EXTENDS ZlibFormat

CONSTANTS
    Streams,        \* compressed data a caller may have, whole, damaged or with more behind it
    BufSize,        \* BUFFER_SIZE
    WSize,          \* 1 << wbits, the size of the window
    FastIn,         \* 6: as many bytes as a length and a distance can take
    FastOut,        \* 258: the longest match
    MaxStale        \* bound on what is decoded outside of a stream

ASSUME InflateConstants ==
    /\ BufSize \in Nat \ {0} /\ WSize \in Nat \ {0} /\ FastIn \in Nat /\ MaxStale \in Nat
    /\ FastOut \in Nat \ {0}

ASSUME StreamBytes ==
    Streams \subseteq Seq(Seq([k : STRING, n : Nat, last : BOOLEAN, sum : Seq(Nat)]))

\* Whatever the bits of an item say: no match is longer or goes further back than its code
\* can, and these items end at the end of a byte.
ASSUME StreamItems ==
    \A z \in Streams : \A i \in 1..Len(z) : \A j \in 1..Len(z[i]) :
        LET x == z[i][j]
        IN  /\ x.k = "len" => x.n \in 1..FastOut
            /\ x.k = "dist" => x.n \in 1..WSize
            /\ x.k \in { "zlib", "gzip", "dict", "stored", "raw", "check", "length" } =>
                   j = Len(z[i])

\* A byte of a stored block is a raw one, and what the last block leaves of its last byte is
\* padding.
ASSUME StreamAlignment ==
    \A z \in Streams : \A i \in 1..Len(z) :
        LET before == FlattenSeq(SubSeq(z, 1, i - 1))
        IN  /\ Parse(before).at = "raw" => Len(z[i]) = 1 /\ z[i][1].k = "raw"
            /\ \A j \in 1..Len(z[i]) :
                   Parse(before \o SubSeq(z[i], 1, j)).at = "check" => j = Len(z[i])

VARIABLES
    pc,                     \* where the call is: see the actions
    flush,                  \* the call that is or was made: NO_FLUSH in update, FINISH in finish
    ret,                    \* ret
    input,                  \* next_in, avail_in
    buf,                    \* the bytes in buf; avail_out is what is left of it
    luabuf,                 \* luabuf
    mode, last, flags,      \* mode, last, flags: the header was that of gzip
    length, offset,         \* length (of a match or a stored block, or a literal), offset
    hold,                   \* hold
    window, wsize, wnext, whave,    \* the circular window
    check,                  \* check, and by its length total
    in0, out0,              \* in, out: avail_in and avail_out when inflate() was called
    fed, out, stage         \* history: the contract's view of the stream (module Filter)

io == << input, buf, luabuf >>
code == << last, flags, length, offset >>
win == << window, wsize, wnext, whave >>
progress == << in0, out0 >>
history == << fed, out, stage >>
vars == << pc, flush, ret, io, mode, code, hold, win, check, progress, history >>

-----------------------------------------------------------------------------
Left == BufSize - Len(buf)

Smaller(a, b) == IF a < b THEN a ELSE b

\* zlib_error
Error == ret \in { "DATA_ERROR", "BUF_ERROR", "MEM_ERROR" }

\* The call is over and returned this string; a call outside of a stream says nothing.
Return(result, next) ==
    /\ pc' = "idle" /\ buf' = << >> /\ luabuf' = << >> /\ input' = << >>
    /\ IF stage = "open" THEN stage' = next /\ out' = out \o result /\ fed' = fed
                         ELSE stage' = "stale" /\ out' = << >> /\ fed' = << >>

\* The call raised an error: what it had put into luabuf and the rest of the chunk are lost.
Raise(next) ==
    /\ pc' = "idle" /\ buf' = << >> /\ luabuf' = << >> /\ input' = << >>
    /\ IF stage = "open" /\ next = "refused"
       THEN stage' = "refused" /\ UNCHANGED << fed, out >>
       ELSE stage' = "stale" /\ out' = << >> /\ fed' = << >>

-----------------------------------------------------------------------------
Init ==
    /\ pc = "none" /\ flush = "NO_FLUSH" /\ ret = "OK"
    /\ input = << >> /\ buf = << >> /\ luabuf = << >>
    /\ mode = "HEAD" /\ last = FALSE /\ flags = FALSE /\ length = 0 /\ offset = 0 /\ hold = << >>
    /\ window = [i \in 0..(WSize - 1) |-> 0] /\ wsize = 0 /\ wnext = 0 /\ whave = 0
    /\ check = << >> /\ in0 = 0 /\ out0 = 0
    /\ fed = << >> /\ out = << >> /\ stage = "stale"

\* lzlib("decompress"): inflateInit2, for a zlib or a gzip header.
Create ==
    /\ pc = "none" /\ pc' = "idle" /\ stage' = "open"
    /\ UNCHANGED << flush, ret, io, mode, code, hold, win, check, progress, fed, out >>

\* lzlib_update begins.
Update(chunk) ==
    /\ pc = "idle" /\ chunk # << >> /\ pc' = "loop"
    /\ flush' = "NO_FLUSH"
    /\ input' = chunk
    /\ fed' = IF stage = "open" THEN fed \o chunk ELSE << >>
    /\ UNCHANGED << ret, buf, luabuf, mode, code, hold, win, check, progress, out, stage >>

\* "do not update with zero length data"
UpdateNothing ==
    /\ pc = "idle"
    /\ Return(<< >>, "open")
    /\ UNCHANGED << flush, ret, mode, code, hold, win, check, progress >>

\* lzlib_finish begins.
Finish ==
    /\ pc = "idle" /\ pc' = "loop"
    /\ flush' = "FINISH"
    /\ input' = << >>
    /\ UNCHANGED << ret, buf, luabuf, mode, code, hold, win, check, progress, history >>

\* A turn of the loop: inflate() is called on an empty buffer.
CallInflate ==
    /\ pc = "loop" /\ pc' = "inflate"
    /\ buf' = << >> /\ in0' = Len(input) /\ out0' = BufSize
    /\ ret' = "OK"
    /\ UNCHANGED << flush, input, luabuf, mode, code, hold, win, check, history >>

-----------------------------------------------------------------------------
(* inflate(), while pc = "inflate"                                         *)

In(m) == pc = "inflate" /\ mode = m

\* goto inf_leave, and a return that skips what is done there
InfLeave(r) == pc' = "leave" /\ ret' = r
InfReturn(r) == pc' = "called" /\ ret' = r

\* NEEDBITS
WaitsForItem == pc = "inflate" /\ hold = << >> /\
                \/ mode \in { "HEAD", "LEN", "DIST", "CHECK" }
                \/ mode = "TYPE" /\ ~last
                \/ mode = "LENGTH" /\ flags

PullByte ==
    /\ WaitsForItem /\ input # << >>
    /\ hold' = Head(input) /\ input' = Tail(input)
    /\ UNCHANGED << pc, flush, ret, buf, luabuf, mode, code, win, check, progress, history >>

NoInput ==
    /\ WaitsForItem /\ input = << >>
    /\ InfLeave("OK")
    /\ UNCHANGED << flush, io, mode, code, hold, win, check, progress, history >>

Bad ==
    /\ mode' = "BAD" /\ hold' = Tail(hold)
    /\ UNCHANGED code

ReadHead ==
    /\ In("HEAD") /\ hold # << >>
    /\ LET x == Head(hold)
       IN  \/ /\ x.k \in { "zlib", "gzip" }
              /\ mode' = "TYPE" /\ hold' = << >> /\ flags' = (x.k = "gzip")
              /\ UNCHANGED << last, length, offset >>
           \/ x.k = "dict" /\ mode' = "DICT" /\ hold' = << >> /\ UNCHANGED code
           \/ x.k \notin { "zlib", "gzip", "dict" } /\ Bad
    /\ UNCHANGED << pc, flush, ret, io, win, check, progress, history >>

\* Nobody can set a dictionary: inflateSetDictionary is not bound to Lua.
NeedDict ==
    /\ In("DICT")
    /\ InfReturn("NEED_DICT")
    /\ UNCHANGED << flush, io, mode, code, hold, win, check, progress, history >>

\* TYPE, STORED, TABLE, LENLENS, CODELENS
ReadBlockHeader ==
    /\ In("TYPE") /\ ~last /\ hold # << >>
    /\ LET x == Head(hold)
       IN  \/ /\ x.k = "stored" /\ mode' = "COPY" /\ length' = x.n
              /\ last' = x.last /\ hold' = << >>
              /\ UNCHANGED << flags, offset >>
           \/ /\ x.k = "codes" /\ mode' = "LEN"
              /\ last' = x.last /\ hold' = Tail(hold)
              /\ UNCHANGED << flags, length, offset >>
           \/ x.k \notin { "stored", "codes" } /\ Bad
    /\ UNCHANGED << pc, flush, ret, io, win, check, progress, history >>

\* BYTEBITS: the check value begins with a byte.
LastBlock ==
    /\ In("TYPE") /\ last
    /\ mode' = "CHECK" /\ hold' = << >>
    /\ UNCHANGED << pc, flush, ret, io, code, win, check, progress, history >>

\* A stored byte is copied whatever it says.
ByteValue(b) == IF b # << >> /\ Head(b).k = "raw" THEN Head(b).n ELSE 0

CopyStored ==
    LET copy == Smaller(length, Smaller(Len(input), Left))
    IN  /\ In("COPY")
        /\ \/ length = 0 /\ mode' = "TYPE" /\ UNCHANGED << pc, ret, input, buf, length >>
           \/ length > 0 /\ copy = 0 /\ InfLeave("OK") /\ UNCHANGED << mode, input, buf, length >>
           \/ /\ copy > 0
              /\ buf' = buf \o [i \in 1..copy |-> ByteValue(input[i])]
              /\ input' = SubSeq(input, copy + 1, Len(input))
              /\ length' = length - copy
              /\ UNCHANGED << pc, ret, mode >>
        /\ UNCHANGED << flush, luabuf, last, flags, offset, hold, win, check, progress, history >>

-----------------------------------------------------------------------------
\* The next item, of the bits h or of the first byte of z that completes one, and what is left.
HasItem(h, z) == h # << >> \/ \E k \in 1..Len(z) : z[k] # << >>

TakeItem(h, z) ==
    IF h # << >> THEN [item |-> Head(h), hold |-> Tail(h), input |-> z]
    ELSE LET k == CHOOSE i \in 1..Len(z) : z[i] # << >> /\ \A j \in 1..(i - 1) : z[j] = << >>
         IN  [item |-> Head(z[k]), hold |-> Tail(z[k]), input |-> SubSeq(z, k + 1, Len(z))]

\* Enough input for a whole code, enough room for the longest match.  (FastIn bytes of a
\* model stream need not complete two items; six bytes of a real one do.)
Fast ==
    LET z == SubSeq(input, 1, FastIn)
    IN  /\ Len(input) >= FastIn /\ Left >= FastOut
        /\ HasItem(hold, z)
        /\ HasItem(TakeItem(hold, z).hold, TakeItem(hold, z).input)

ReadCode ==
    /\ In("LEN") /\ hold # << >> /\ ~Fast
    /\ LET x == Head(hold)
       IN  \/ x.k = "lit" /\ mode' = "LIT" /\ length' = x.n /\ hold' = Tail(hold)
           \/ x.k = "len" /\ mode' = "DIST" /\ length' = x.n /\ hold' = Tail(hold)
           \/ x.k = "eob" /\ mode' = "TYPE" /\ hold' = Tail(hold) /\ UNCHANGED length
           \/ x.k \notin { "lit", "len", "eob" } /\ Bad
    /\ UNCHANGED << pc, flush, ret, io, last, flags, offset, win, check, progress, history >>

ReadDist ==
    /\ In("DIST") /\ hold # << >>
    /\ LET x == Head(hold)
       IN  \/ /\ x.k = "dist" /\ mode' = "MATCH" /\ offset' = x.n /\ hold' = Tail(hold)
              /\ UNCHANGED << last, flags, length >>
           \/ x.k # "dist" /\ Bad
    /\ UNCHANGED << pc, flush, ret, io, win, check, progress, history >>

\* A piece of the window
Slice(from, n) == [i \in 1..n |-> window[from + i - 1]]

\* How far back in the window a distance reaches, beyond what this call has put out.
InWindow(d) == d - Len(buf)

\* Seeded fault: the part of a match at the end of the window is not cut off there.
CopyMatchPastEnd(left) ==
    LET back == InWindow(offset)
        n    == Smaller(length, left)
    IN  IF back <= 0 THEN Repeat(buf, n, offset)
        ELSE LET m == Smaller(back, n)
             IN  [i \in 1..m |-> window[(wnext + (2 * WSize) - back + i - 2) % WSize]]

\* MATCH: what one turn copies: from the end of the window, from its beginning, or from buf.
CopyMatch(left) ==
    LET back == InWindow(offset)
        n    == Smaller(length, left)
    IN  IF back <= 0 THEN Repeat(buf, n, offset)
        ELSE IF back > wnext
             THEN Slice(wsize - (back - wnext), Smaller(back - wnext, n))
             ELSE Slice(wnext - back, Smaller(back, n))

Match ==
    /\ In("MATCH")
    /\ \/ Left = 0 /\ InfLeave("OK") /\ UNCHANGED << mode, buf, length >>
       \/ /\ Left > 0 /\ InWindow(offset) > whave
          /\ mode' = "BAD" /\ UNCHANGED << pc, ret, buf, length >>
       \/ /\ Left > 0 /\ InWindow(offset) <= whave
          /\ LET s == CopyMatch(Left)
             IN  /\ buf' = buf \o s
                 /\ length' = length - Len(s)
                 /\ mode' = IF Len(s) = length THEN "LEN" ELSE mode
          /\ UNCHANGED << pc, ret >>
    /\ UNCHANGED << flush, input, luabuf, last, flags, offset, hold, win, check, progress,
                    history >>

Literal ==
    /\ In("LIT")
    /\ \/ Left = 0 /\ InfLeave("OK") /\ UNCHANGED << mode, buf >>
       \/ Left > 0 /\ buf' = Append(buf, length) /\ mode' = "LEN" /\ UNCHANGED << pc, ret >>
    /\ UNCHANGED << flush, input, luabuf, code, hold, win, check, progress, history >>

\* inflate_fast's copy of a whole match: the end of the window, its beginning, and buf.
FastMatch(n, d) ==
    LET back  == InWindow(d)
        part  == IF back <= 0 THEN << >>
                 ELSE IF wnext = 0 THEN Slice(wsize - back, back)
                 ELSE IF wnext < back
                 THEN Slice(wsize + wnext - back, back - wnext) \o Slice(0, wnext)
                 ELSE Slice(wnext - back, back)
        first == SubSeq(part, 1, Smaller(n, Len(part)))
    IN  first \o Repeat(buf \o first, n - Len(first), d)

\* A turn of inflate_fast: a literal, a whole match, or the end of the block.
DecodeFast ==
    LET one == TakeItem(hold, input)
        two == TakeItem(one.hold, one.input)
        x   == one.item
        y   == two.item
        Behind(t) == hold' = t.hold /\ input' = t.input
    IN  /\ In("LEN") /\ Fast
        /\ \/ x.k = "lit" /\ buf' = Append(buf, x.n) /\ Behind(one) /\ UNCHANGED mode
           \/ /\ x.k = "len" /\ y.k = "dist" /\ InWindow(y.n) <= whave
              /\ buf' = buf \o FastMatch(x.n, y.n) /\ Behind(two) /\ UNCHANGED mode
           \/ x.k = "eob" /\ mode' = "TYPE" /\ Behind(one) /\ UNCHANGED buf
           \/ /\ x.k = "len" /\ (y.k # "dist" \/ InWindow(y.n) > whave)
              /\ mode' = "BAD" /\ Behind(two) /\ UNCHANGED buf
           \/ x.k \notin { "lit", "len", "eob" } /\ mode' = "BAD" /\ Behind(one) /\ UNCHANGED buf
        /\ UNCHANGED << pc, flush, ret, luabuf, code, win, check, progress, history >>

-----------------------------------------------------------------------------
\* What this call has put out since out was last set: the check value does not cover it yet.
Unchecked == SubSeq(buf, Len(buf) - (out0 - Left) + 1, Len(buf))

\* Seeded fault: the text summed here is summed again when the call is left.
CheckTextAgain ==
    /\ In("CHECK") /\ hold # << >>
    /\ check' = check \o Unchecked /\ out0' = out0
    /\ mode' = IF Head(hold).k = "check" /\ Head(hold).sum = check' THEN "LENGTH" ELSE "BAD"
    /\ hold' = << >>
    /\ UNCHANGED << pc, flush, ret, io, code, win, in0, history >>

\* CHECK: the check value is brought up to date and compared.
CheckText ==
    /\ In("CHECK") /\ hold # << >>
    /\ check' = check \o Unchecked /\ out0' = Left
    /\ mode' = IF Head(hold).k = "check" /\ Head(hold).sum = check' THEN "LENGTH" ELSE "BAD"
    /\ hold' = << >>
    /\ UNCHANGED << pc, flush, ret, io, code, win, in0, history >>

CheckLength ==
    /\ In("LENGTH")
    /\ \/ ~flags /\ mode' = "DONE" /\ UNCHANGED hold
       \/ /\ flags /\ hold # << >> /\ hold' = << >>
          /\ mode' = IF Head(hold).k = "length" /\ Head(hold).n = Len(check)
                     THEN "DONE" ELSE "BAD"
    /\ UNCHANGED << pc, flush, ret, io, code, win, check, progress, history >>

\* DONE and BAD answer every later call in the same way.
Over ==
    /\ \/ In("DONE") /\ InfLeave("STREAM_END")
       \/ In("BAD") /\ InfLeave("DATA_ERROR")
       \/ In("MEM") /\ InfReturn("MEM_ERROR")
    /\ UNCHANGED << flush, io, mode, code, hold, win, check, progress, history >>

-----------------------------------------------------------------------------
(* inf_leave                                                               *)

NeedsWindow ==
    \/ wsize > 0
    \/ /\ out0 # Left /\ mode # "BAD"
       /\ mode \notin { "CHECK", "LENGTH", "DONE" } \/ flush # "FINISH"

\* Seeded faults: what goes to the beginning of the window does not count; the fill is not
\* bounded.
WriteIndexNoWrap(copy, dist) == (wnext + dist) % WSize
FillUnbounded(copy, dist) == whave + dist

\* wnext and whave after copy bytes went into the window, dist of them behind wnext.
WriteIndex(copy, dist) == IF copy > dist THEN copy - dist ELSE (wnext + dist) % WSize

Fill(copy, dist) == IF copy > dist THEN WSize
                    ELSE IF whave < WSize THEN whave + dist ELSE whave

\* updatewindow: the last wsize bytes of the output, at most, go into the circular window.
UpdateWindow ==
    LET copy == out0 - Left
        dist == Smaller(WSize - wnext, copy)
        Put(i) == buf[Len(buf) - copy + i]
    IN  /\ wsize' = WSize
        /\ \/ /\ copy >= WSize
              /\ window' = [j \in 0..(WSize - 1) |-> buf[Len(buf) - WSize + 1 + j]]
              /\ wnext' = 0 /\ whave' = WSize
           \/ /\ copy < WSize
              /\ window' = [j \in 0..(WSize - 1) |->
                               IF j >= wnext /\ j < wnext + dist THEN Put(j - wnext + 1)
                               ELSE IF j < copy - dist THEN Put(dist + j + 1)
                               ELSE window[j]]
              /\ wnext' = WriteIndex(copy, dist) /\ whave' = Fill(copy, dist)

\* The window and the check value follow; no progress, or a finish before the end, is an error.
Leave ==
    /\ pc = "leave" /\ pc' = "called"
    /\ IF NeedsWindow THEN UpdateWindow ELSE UNCHANGED win
    /\ check' = check \o Unchecked
    /\ ret' = IF ret = "OK" /\ (flush = "FINISH" \/ (in0 = Len(input) /\ out0 = Left))
              THEN "BUF_ERROR" ELSE ret
    /\ UNCHANGED << flush, io, mode, code, hold, progress, history >>

\* No memory for the window.
LeaveNoMemory ==
    /\ pc = "leave" /\ NeedsWindow /\ wsize = 0
    /\ InfReturn("MEM_ERROR") /\ mode' = "MEM"
    /\ UNCHANGED << flush, io, code, hold, win, check, progress, history >>

-----------------------------------------------------------------------------
(* Back in lzlib_update or lzlib_finish                                    *)

ZlibError ==
    /\ pc = "called" /\ Error
    /\ Raise(IF ret = "MEM_ERROR" THEN "stale" ELSE "refused")
    /\ UNCHANGED << flush, ret, mode, code, hold, win, check, progress >>

\* Seeded fault: finish() goes on until the end of the stream.
AgainUntilEnd == IF flush = "FINISH" THEN ret # "STREAM_END" ELSE Left = 0

Again == Left = 0 /\ (flush = "FINISH" => ret # "STREAM_END")

\* The buffer was full: one more turn, whether or not there is anything left to do.
GoOn ==
    /\ pc = "called" /\ ~Error /\ Again
    /\ \/ /\ pc' = "loop" /\ luabuf' = luabuf \o buf /\ buf' = << >>
          /\ UNCHANGED << input, history >>
       \/ Raise("stale")                \* luaL_addlstring: not enough memory
    /\ UNCHANGED << flush, ret, mode, code, hold, win, check, progress >>

\* The rest of the chunk is dropped: there is none unless the stream is over, or needs a
\* dictionary.
CallReturns ==
    /\ pc = "called" /\ ~Error /\ ~Again
    /\ \/ Return(luabuf \o buf, IF flush = "FINISH" THEN "finished" ELSE "open")
       \/ Raise("stale")                \* luaL_pushresult: not enough memory
    /\ UNCHANGED << flush, ret, mode, code, hold, win, check, progress >>

-----------------------------------------------------------------------------
\* The caller cuts a stream into chunks; what comes after an error is any byte of a stream.
Chunks ==
    IF stage = "open"
    THEN UNION { { SubSeq(z, Len(fed) + 1, n) : n \in Len(fed)..Len(z) } :
                   z \in { x \in Streams : IsPrefix(fed, x) } }
    ELSE IF Len(check) < MaxStale
    THEN UNION { { << z[i] >> : i \in 1..Len(z) } : z \in Streams }
    ELSE { }

Caller == Create \/ (\E chunk \in Chunks : Update(chunk)) \/ UpdateNothing \/ Finish

System ==
    \/ CallInflate
    \/ PullByte \/ NoInput
    \/ ReadHead \/ NeedDict \/ ReadBlockHeader \/ LastBlock \/ CopyStored
    \/ ReadCode \/ ReadDist \/ Match \/ Literal \/ DecodeFast
    \/ CheckText \/ CheckLength \/ Over
    \/ Leave \/ LeaveNoMemory
    \/ ZlibError \/ GoOn \/ CallReturns

Next == Caller \/ System

\* A call that has begun is executed; nobody has to make one.
Spec == Init /\ [][Next]_vars /\ WF_vars(System)

-----------------------------------------------------------------------------
AllBytes == UNION { { z[i] : i \in 1..Len(z) } : z \in Streams }

\* Every field has its type; the buffer never holds more than it has room for, and the
\* window's write index and fill are those of a circular buffer.
TypeOK ==
    /\ pc \in { "none", "idle", "loop", "inflate", "leave", "called" }
    /\ flush \in { "NO_FLUSH", "FINISH" }
    /\ ret \in { "OK", "STREAM_END", "NEED_DICT", "DATA_ERROR", "BUF_ERROR", "MEM_ERROR" }
    /\ input \in Seq(AllBytes)
    /\ Left \in 0..BufSize /\ out0 \in 0..BufSize /\ in0 \in Nat
    /\ mode \in { "HEAD", "DICT", "TYPE", "COPY", "LEN", "DIST", "MATCH", "LIT",
                  "CHECK", "LENGTH", "DONE", "BAD", "MEM" }
    /\ last \in BOOLEAN /\ flags \in BOOLEAN /\ length \in Nat /\ offset \in 0..WSize
    /\ wsize \in { 0, WSize } /\ wnext \in 0..(WSize - 1) /\ whave \in 0..wsize
    /\ whave \in { wnext, WSize }
    /\ stage \in { "open", "finished", "refused", "stale" }

\* While the blocks are read, nothing has been dropped.
InBlocks == stage = "open" /\ mode \in { "TYPE", "COPY", "LEN", "DIST", "MATCH", "LIT" }

\* What the items decoded so far say, by the reference definition.
Decoded ==
    LET items == FlattenSeq(SubSeq(fed, 1, Len(fed) - Len(input)))
    IN  Parse(SubSeq(items, 1, Len(items) - Len(hold))).text

\* What of the text has left the decoder.
Produced == out \o luabuf \o buf

\* At every step of every call, the text put out and the rest of the match or literal that
\* is waiting for room are the text of what has been read: whatever the window had to hold,
\* and however matches, blocks, chunks and buffers cut each other up.
DecodedIsText ==
    InBlocks =>
        Decoded = IF mode = "LIT" THEN Append(Produced, length)
                  ELSE IF mode = "MATCH" /\ offset <= Len(Produced)
                  THEN Produced \o Repeat(Produced, length, offset)
                  ELSE IF mode = "MATCH" THEN Decoded
                  ELSE Produced

\* The byte d places before the write index of the circular window is the d-th last byte of
\* everything put out before this call of inflate(), and there are as many of them as a
\* distance may ask for.
WindowHoldsOutput ==
    InBlocks /\ pc \in { "idle", "loop", "inflate" } =>
        LET t == out \o luabuf
        IN  /\ whave = Smaller(WSize, Len(t))
            /\ \A d \in 1..whave : window[(wnext + WSize - d) % WSize] = t[Len(t) - d + 1]

\* Every call comes to an end: each turn of the loop fills the buffer with text.
CallsReturn == pc = "loop" ~> pc = "idle"

\* zlib.h:497-499: inflate's Z_BUF_ERROR "is not fatal".  So update() raises an error only on
\* a damaged stream.
UpdateRefusesOnlyDamage ==
    [][stage = "open" /\ stage' = "refused" /\ flush = "NO_FLUSH" => Damaged(fed)]_vars

-----------------------------------------------------------------------------
\* When finish() returns, a whole stream has come out; what followed it is ignored.  Of a
\* stream that needs a preset dictionary nothing comes out, and nothing is said.
Complete(s, i, o) == IF NeedsDictionary(i) THEN o = << >> ELSE Whole(i) /\ o = TextOf(i)

\* An error is raised only on what is not a whole stream.
Refusable(s, i) == ~Whole(i) /\ ~NeedsDictionary(i)

\* There is nothing to set up: a decompressor has one setup.
Contract == INSTANCE Filter WITH setup <- "decompress"

\* The object keeps the promise of README.md:65-84 for the stream its input begins with.
FilterContract == Contract!FSpec
=============================================================================
