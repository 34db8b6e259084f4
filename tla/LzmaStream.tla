----------------------------- MODULE LzmaStream -----------------------------
(***************************************************************************)
(* What compressing and decompressing LZMA have in common: the loops of    *)
(* llzma_update and llzma_finish of src/src/ltn12ce_comp_lzma.c, and       *)
(* lzma_code() of src/src/lzma/common/common.c, which watches over the     *)
(* sequence of calls and over their progress.  Modules XzDecode and        *)
(* XzEncode put their coders under it: c is the state of these, pc = "code" *)
(* where lzma_code calls them, and pc = "leave" where they return ret.     *)
(***************************************************************************)
EXTENDS XzFormat

CONSTANT
    BufSize         \* BUFFER_SIZE

VARIABLES
    pc,                     \* where the call is: see the actions
    action,                 \* the call that is or was made: RUN in update, FINISH in finish
    ret,                    \* ret
    input,                  \* next_in, avail_in; they outlive the call
    buf,                    \* the bytes in buf; avail_out is what is left of it
    luabuf,                 \* luabuf
    strm,                   \* the state of lzma_code, and the positions a call began at
    c,                      \* the state of the coders
    fed, out, stage         \* history: the contract's view of the stream (module Filter)

io == << input, buf, luabuf >>
history == << fed, out, stage >>
vars == << pc, action, ret, io, strm, c, history >>

-----------------------------------------------------------------------------
Left == BufSize - Len(buf)

Smaller(a, b) == IF a < b THEN a ELSE b

\* The call is over and returned this string; a call outside of a stream says nothing.
Return(result, next) ==
    /\ pc' = "idle" /\ buf' = << >> /\ luabuf' = << >> /\ UNCHANGED input
    /\ IF stage = "open" THEN stage' = next /\ out' = out \o result /\ fed' = fed
                         ELSE stage' = "stale" /\ out' = << >> /\ fed' = << >>

\* The call raised an error: what it had put into luabuf is lost, the rest of the chunk stays.
Raise(next) ==
    /\ pc' = "idle" /\ buf' = << >> /\ luabuf' = << >> /\ UNCHANGED input
    /\ IF stage = "open" /\ next = "refused"
       THEN stage' = "refused" /\ UNCHANGED << fed, out >>
       ELSE stage' = "stale" /\ out' = << >> /\ fed' = << >>

\* createstream, before there is a coder
InitStream ==
    /\ pc = "none" /\ action = "RUN" /\ ret = "OK"
    /\ input = << >> /\ buf = << >> /\ luabuf = << >>
    /\ strm = [sequence |-> "RUN", allow_buf_error |-> FALSE, avail_in |-> 0,
               in0 |-> 0, out0 |-> 0]
    /\ fed = << >> /\ out = << >> /\ stage = "stale"

\* llzma_update begins.
Update(chunk) ==
    /\ pc = "idle" /\ pc' = "loop"
    /\ action' = "RUN" /\ ret' = "OK"
    /\ input' = chunk
    /\ fed' = IF stage = "open" THEN fed \o chunk ELSE << >>
    /\ UNCHANGED << buf, luabuf, strm, c, out, stage >>

\* llzma_finish begins.  next_in is what the last update() left it: the string it points into
\* may have been collected, and garbage is what is read there instead.
Finish(garbage) ==
    /\ pc = "idle" /\ pc' = "loop"
    /\ action' = "FINISH" /\ ret' = "OK"
    /\ input' \in { input, garbage }
    /\ UNCHANGED << buf, luabuf, strm, c, history >>

-----------------------------------------------------------------------------
(* lzma_code                                                               *)

\* Seeded fault: update() goes on until the end of the stream, as finish() does.
AgainUntilEnd == ret # "STREAM_END"

\* update() goes on while there is input, finish() until the end.
Again == IF action = "RUN" THEN input # << >> /\ ret # "STREAM_END" ELSE ret # "STREAM_END"

Refused ==
    \/ strm.sequence = "ERROR"
    \/ strm.sequence = "FINISH" /\ (action # "FINISH" \/ strm.avail_in # Len(input))

LzmaCode ==
    /\ pc = "loop" /\ Again
    /\ \/ Refused /\ pc' = "called" /\ ret' = "PROG_ERROR" /\ UNCHANGED strm
       \/ strm.sequence = "END" /\ pc' = "called" /\ ret' = "STREAM_END" /\ UNCHANGED strm
       \/ /\ ~Refused /\ strm.sequence # "END"
          /\ pc' = "code" /\ ret' = "OK"
          /\ strm' = [strm EXCEPT !.sequence = action,
                                  !.in0 = Len(input), !.out0 = Len(buf)]
    /\ UNCHANGED << action, io, c, history >>

\* Seeded fault: a call without progress is always excused.
AllowBufErrorAlways == TRUE

\* "Don't return LZMA_BUF_ERROR when it happens the first time."
AllowBufError == ~strm.allow_buf_error

Progress == Len(input) # strm.in0 \/ Len(buf) # strm.out0

LeaveCode ==
    /\ pc = "leave" /\ pc' = "called"
    /\ \/ /\ ret = "OK" /\ Progress
          /\ strm' = [strm EXCEPT !.avail_in = Len(input), !.allow_buf_error = FALSE]
          /\ UNCHANGED ret
       \/ /\ ret = "OK" /\ ~Progress
          /\ strm' = [strm EXCEPT !.avail_in = Len(input), !.allow_buf_error = TRUE]
          /\ ret' = IF AllowBufError THEN "OK" ELSE "BUF_ERROR"
       \/ /\ ret = "STREAM_END"
          /\ strm' = [strm EXCEPT !.avail_in = Len(input), !.allow_buf_error = FALSE,
                                  !.sequence = "END"]
          /\ UNCHANGED ret
       \/ /\ ret \notin { "OK", "STREAM_END" }
          /\ strm' = [strm EXCEPT !.avail_in = Len(input), !.sequence = "ERROR"]
          /\ UNCHANGED ret
    /\ UNCHANGED << action, io, c, history >>

-----------------------------------------------------------------------------
(* The loop of llzma_update or llzma_finish                                *)

LzmaError == pc = "called" /\ ret \notin { "OK", "STREAM_END" }

\* "flushing buffer": then comes the error, if there is one.
FlushBuffer ==
    /\ pc = "called"
    /\ \/ /\ ret \in { "OK", "STREAM_END" } /\ pc' = "loop"
          /\ IF Left = 0 THEN luabuf' = luabuf \o buf /\ buf' = << >>
                         ELSE UNCHANGED << luabuf, buf >>
          /\ UNCHANGED << input, history >>
       \/ LzmaError /\ Raise(IF ret = "MEM_ERROR" THEN "stale" ELSE "refused")
       \/ Left = 0 /\ Raise("stale")            \* luaL_addlstring: not enough memory
    /\ UNCHANGED << action, ret, strm, c >>

\* What the coders have not put out for want of input or of room stays with them.
CallReturns ==
    /\ pc = "loop" /\ ~Again
    /\ \/ Return(luabuf \o buf, IF action = "FINISH" THEN "finished" ELSE "open")
       \/ Raise("stale")                        \* luaL_pushresult: not enough memory
    /\ UNCHANGED << action, ret, strm, c >>

\* Pieces of the texts that go on where fed ends
Pieces(texts, sizes) ==
    { SubSeq(t, Len(fed) + 1, Smaller(Len(fed) + n, Len(t))) :
        << t, n >> \in { x \in texts : IsPrefix(fed, x) } \X sizes }

-----------------------------------------------------------------------------
\* The fields that lzma_code and the bindings keep have their types, and buf never holds more
\* than it has room for: part of the type invariant of both filters.
StreamTypes ==
    /\ action \in { "RUN", "FINISH" }
    /\ Left \in 0..BufSize
    /\ strm.sequence \in { "RUN", "FINISH", "END", "ERROR" } /\ strm.allow_buf_error \in BOOLEAN
    /\ stage \in { "open", "finished", "refused", "stale" }

\* The coders are executed as well: that is for each module to say.
StreamSteps == LzmaCode \/ LeaveCode \/ FlushBuffer \/ CallReturns
=============================================================================
