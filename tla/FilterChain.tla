----------------------------- MODULE FilterChain -----------------------------
(***************************************************************************)
(* The coders that a block header may put between block_decode and         *)
(* decode_buffer: simple_code() of src/src/lzma/simple/simple_coder.c, the *)
(* wrapper of the filters for machine code, and delta_decode() of          *)
(* src/src/lzma/delta/delta_decoder.c.  Module BlockFilters says what the  *)
(* filters make of a text.                                                 *)
(*                                                                         *)
(* c.chain holds their states, the outermost first.  c.at is the coder at  *)
(* work: 0 is block_decode, the one behind the last is decode_buffer.  Each *)
(* calls the next one with a place to put its output: its own caller's, or *)
(* its own buffer.  pc = "filter" where coder c.at is called, and          *)
(* pc = "filtered" where the one it has called returns to it.              *)
(***************************************************************************)
EXTENDS LzmaStream

\* allocated: there is room for two instructions in buffer.
Allocated == 2 * Look

\* lzma_simple_coder_init, lzma_delta_coder_init
Coder(f) ==
    [id |-> f.n,
     now_pos |-> IF f.n = Delta THEN 0 ELSE f.m,
     buffer |-> << >>, filtered |-> 0,      \* buffer, from pos on; filtered is counted from there
     end_was_reached |-> FALSE,
     own |-> FALSE,                         \* the next coder writes to buffer
     start |-> 0,                           \* out_start
     distance |-> IF f.n = Delta THEN f.m ELSE 0, pos |-> 0,
     history |-> [i \in 0..(HistSize - 1) |-> 0]]

NewChain(filters) == [i \in DOMAIN filters |-> Coder(filters[i])]

-----------------------------------------------------------------------------
\* Where the coder at work puts its output: the buffer of this coder, or buf of lzma_code
Target == Max({ 0 } \cup { k \in 1..(c.at - 1) : c.chain[k].own })

Out == IF Target = 0 THEN buf ELSE c.chain[Target].buffer
OutLeft == IF Target = 0 THEN Left ELSE Allocated - Len(Out)

\* The output becomes s, the rest of the coders d.
PutOut(s, d) ==
    IF Target = 0 THEN buf' = s /\ c' = d
                  ELSE UNCHANGED buf /\ c' = [d EXCEPT !.chain[Target].buffer = s]

\* The coder at work, and what it does: it goes on, calls the next one, or returns r.
This == c.chain[c.at]

Becomes(s, x, at) == PutOut(s, [c EXCEPT !.chain[c.at] = x, !.at = at])
GoOnInFilter(s, x) == Becomes(s, x, c.at) /\ UNCHANGED << pc, ret >>
CallNext(s, x) ==
    /\ Becomes(s, x, c.at + 1) /\ UNCHANGED ret
    /\ pc' = IF c.at = Len(c.chain) THEN "buffer" ELSE "filter"
ReturnFrom(r, s, x) ==
    /\ Becomes(s, x, c.at - 1) /\ ret' = r
    /\ pc' = IF c.at = 1 THEN "block" ELSE "filtered"

-----------------------------------------------------------------------------
\* n bytes of buffer go out.
Flushed(x, n) == [x EXCEPT !.buffer = SubSeq(@, n + 1, Len(@)), !.filtered = @ - n]

\* "Flush already filtered data"
FlushFiltered ==
    LET n == Smaller(This.filtered, OutLeft)
        s == Out \o SubSeq(This.buffer, 1, n)
        x == Flushed(This, n)
    IN  /\ pc = "filter" /\ This.filtered > 0
        /\ \/ x.filtered > 0 /\ ReturnFrom("OK", s, x)
           \/ x.filtered = 0 /\ x.end_was_reached /\ ReturnFrom("STREAM_END", s, x)
           \/ x.filtered = 0 /\ ~x.end_was_reached /\ GoOnInFilter(s, x)
        /\ UNCHANGED << action, input, luabuf, strm, history >>

\* What waits in buffer goes out, and more behind it; buffer is kept until that has worked.  A
\* delta coder has no buffer, and calls the next one like this.
HasRoom == OutLeft > Len(This.buffer) \/ This.buffer = << >>

FillOut ==
    /\ pc = "filter" /\ This.filtered = 0 /\ HasRoom
    /\ CallNext(Out \o This.buffer, [This EXCEPT !.start = Len(Out)])
    /\ UNCHANGED << action, input, luabuf, strm, history >>

\* There is no room for what waits in buffer: more is put behind it there.
FillBuffer ==
    /\ pc = "filter" /\ This.filtered = 0 /\ ~HasRoom
    /\ CallNext(Out, [This EXCEPT !.own = TRUE])
    /\ UNCHANGED << action, input, luabuf, strm, history >>

-----------------------------------------------------------------------------
Returned == pc = "filtered"
Error == ret \notin { "OK", "STREAM_END" }
Ended == ret = "STREAM_END"

\* decode_buffer of delta_decoder.c: history is a ring that is written from the back.
DeltaByte(d, b) ==
    LET plain == (b + d.x.history[(d.x.distance + d.x.pos) % HistSize]) % Values
    IN  [text |-> Append(d.text, plain),
         x |-> [d.x EXCEPT !.history[d.x.pos] = plain, !.pos = (@ + HistSize - 1) % HistSize]]

DeltaReturns ==
    LET s == SubSeq(Out, This.start + 1, Len(Out))
        d == FoldLeft(DeltaByte, [text |-> << >>, x |-> This], s)
    IN  /\ Returned /\ This.id = Delta
        /\ ReturnFrom(ret, SubSeq(Out, 1, This.start) \o d.text, d.x)
        /\ UNCHANGED << action, input, luabuf, strm, history >>

\* call_filter
Done(s) == Coded(This.id, This.now_pos, s)

\* copy_or_code has failed.
NextFails ==
    /\ Returned /\ This.id # Delta /\ Error
    /\ ReturnFrom(ret, Out, [This EXCEPT !.own = FALSE])
    /\ UNCHANGED << action, input, luabuf, strm, history >>

\* What is new in the output is converted; what is less than an instruction comes back to buffer,
\* to be completed there.
OutFilled ==
    LET s == SubSeq(Out, This.start + 1, Len(Out))
        rest == Behind(s, Done(s))
        before == SubSeq(Out, 1, This.start)
        x == [This EXCEPT !.now_pos = @ + Len(Done(s)), !.buffer = << >>]
    IN  /\ Returned /\ This.id # Delta /\ ~This.own /\ ~Error
        /\ \/ Ended /\ ReturnFrom("STREAM_END", before \o Done(s) \o rest,
                                  [x EXCEPT !.end_was_reached = TRUE])
           \/ ~Ended /\ rest = << >> /\ ReturnFrom("OK", before \o Done(s), x)
           \/ /\ ~Ended /\ rest # << >>
              /\ CallNext(before \o Done(s), [x EXCEPT !.buffer = rest, !.own = TRUE])
        /\ UNCHANGED << action, input, luabuf, strm, history >>

\* Seeded fault: at the end of the data, too, only whole instructions are filtered.
FilteredUpToEnd(done) == Len(done)

\* "Everything is considered to be filtered if coder->buffer[] contains the last bytes of the
\* data."
Filtered(done) == IF Ended THEN Len(This.buffer) ELSE Len(done)

BufferFilled ==
    LET done == Done(This.buffer)
        s == done \o Behind(This.buffer, done)
        n == Smaller(Filtered(done), OutLeft)
        x == Flushed([This EXCEPT !.now_pos = @ + Len(done), !.buffer = s, !.own = FALSE,
                                !.filtered = Filtered(done), !.end_was_reached = Ended], n)
    IN  /\ Returned /\ This.own /\ ~Error
        /\ ReturnFrom(IF Ended /\ x.buffer = << >> THEN "STREAM_END" ELSE "OK",
                      Out \o SubSeq(s, 1, n), x)
        /\ UNCHANGED << action, input, luabuf, strm, history >>

-----------------------------------------------------------------------------
\* The buffer of a coder for machine code holds what is filtered and less than an instruction
\* behind it, unless the next coder is at work on it; a coder that has come to its end is called
\* only to put out the rest, and only a coder that is at work has given its buffer away.
ChainTypes ==
    /\ c.at \in 0..(Len(c.chain) + 1)
    /\ \A k \in DOMAIN c.chain :
        LET x == c.chain[k]
        IN  /\ Len(x.buffer) <= Allocated
            /\ x.own => (k < c.at \/ (pc = "filtered" /\ k = c.at))
            /\ ~x.own /\ ~Error /\ strm.sequence # "ERROR" =>
                   Len(x.buffer) - x.filtered \in 0..(Look - 1)
            /\ x.end_was_reached => x.filtered = Len(x.buffer)
            /\ pc = "filter" /\ k = c.at /\ x.end_was_reached => x.filtered > 0

ChainSteps ==
    FlushFiltered \/ FillOut \/ FillBuffer \/ DeltaReturns \/ NextFails \/ OutFilled \/ BufferFilled
=============================================================================
