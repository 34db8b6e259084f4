------------------------------- MODULE Digest -------------------------------
(***************************************************************************)
(* A digest object: src/src/ltn12ce_digest.c over the dispatch of          *)
(* src/src/polarssl/md.c and the hash functions behind it.  MD4, MD5,      *)
(* SHA-1, SHA-2 and SHA-512 have the same code for this layer (the lines   *)
(* given are those of sha1.c, and of sha4.c with words of 64 bits); MD2    *)
(* has a way of its own.                                                   *)
(*                                                                         *)
(* The compression function is not modelled.  The chaining state is a      *)
(* function of the blocks that went through it, so these blocks stand for  *)
(* it, and for the digest it is read off as: two digests are the same      *)
(* when the same bytes have been processed.                                *)
(***************************************************************************)
EXTENDS Integers, Sequences, SequencesExt

CONSTANTS
    BlockSize,      \* 64, 128 for SHA-384 and SHA-512, 16 for MD2
    LenSize,        \* bytes of the message length behind the padding: 8, or 16
    Word,           \* 2^32, or 2^64: total is a number of two digits in this base
    Bytes,          \* byte values
    MsgLen(_, _),   \* PUT_UINT32_BE and _LE: the bytes of a length, high word and low word
    Checksum(_),    \* MD2's cksum after these bytes have been processed
    Messages,       \* inputs a caller may feed, cut into chunks
    MaxFed,         \* bound on their lengths
    MaxChunk,       \* bound on the length of a chunk
    MaxProcessed    \* bound on what is processed by calls outside of the protocol

ASSUME DigestConstants ==
    /\ BlockSize \in Nat \ {0} /\ LenSize \in 1..(BlockSize - 1)
    /\ Word \in Nat \ {0} /\ (Word % 8) = 0 /\ (Word % BlockSize) = 0
    /\ { 0, 128 } \subseteq Bytes
    /\ 1..BlockSize \subseteq Bytes
    /\ MaxFed \in Nat /\ MaxChunk \in Nat /\ MaxProcessed \in Nat
    /\ \A m \in Messages : m \in Seq(Bytes) /\ Len(m) <= MaxFed

\* The two words of a length are written to msglen, which has room for just them.
ASSUME LengthBytes ==
    \A high, low \in 0..(Word - 1) :
        MsgLen(high, low) \in Seq(Bytes) /\ Len(MsgLen(high, low)) = LenSize

VARIABLES
    md_info,                    \* md_info: "md2", or "sha" for the others
    exists,                     \* the object has been created
    lo, hi,                     \* total[0] and total[1]
    left,                       \* left (MD2 only; the others compute it from total)
    processed,                  \* state: the bytes that went through the compression function
    buffer,                     \* buffer, as far as it was written last (nothing reads on)
    results,                    \* how many values the last update() or finish() returned
    fed, out, stage             \* history: the contract's view of the message (module Filter)

ctx == << md_info, lo, hi, left, processed, buffer >>
vars == << ctx, exists, results, fed, out, stage >>

-----------------------------------------------------------------------------
(* The context as a record, for the functions that are applied to it twice *)
(* in one call.                                                            *)

Context == [lo |-> lo, hi |-> hi, left |-> left, processed |-> processed, buffer |-> buffer]

Becomes(c) ==
    /\ lo' = c.lo /\ hi' = c.hi /\ left' = c.left
    /\ processed' = c.processed /\ buffer' = c.buffer

\* sha1_starts, md2_starts.
Starts(c) == [c EXCEPT !.lo = 0, !.hi = 0, !.left = 0, !.processed = << >>]

\* The number of bytes that wait in buffer.
Left(c) == IF md_info = "md2" THEN c.left ELSE c.lo % BlockSize

Waiting(c) == SubSeq(c.buffer, 1, Left(c))

\* Seeded fault: one too many.
FillOneMore(c) == BlockSize - Left(c) + 1

Fill(c) == BlockSize - Left(c)

\* Seeded fault: the low word wraps and nothing is carried.
CarryLost(c, n) == c.hi

\* total[1] after n more bytes: the low word has wrapped if it is less than what was added,
\* which itself is cut to a word first.
Carry(c, n) == IF (c.lo + n) % Word < n % Word THEN (c.hi + 1) % Word ELSE c.hi

\* Seeded fault: the rest is put behind the bytes of the block that is complete.
BehindFull(c, head) == Left(c)

\* Where the rest of the input goes in buffer.
Behind(c, head) == IF head THEN 0 ELSE Left(c)

\* sha1_update: complete the block in buffer, process the whole blocks of the input, keep the
\* rest.
ShaUpdate(c, input) ==
    LET head == Left(c) # 0 /\ Len(input) >= Fill(c)
        from == IF head THEN Fill(c) ELSE 0
        full == IF head THEN Waiting(c) \o SubSeq(input, 1, from) ELSE << >>
        rest == (Len(input) - from) % BlockSize
        buf  == IF head THEN full ELSE c.buffer
    IN  [lo        |-> (c.lo + Len(input)) % Word,
         hi        |-> Carry(c, Len(input)),
         left      |-> c.left,
         processed |-> c.processed \o full \o SubSeq(input, from + 1, Len(input) - rest),
         buffer    |-> IF rest = 0 THEN buf
                       ELSE SubSeq(buf, 1, Behind(c, head))
                               \o SubSeq(input, Len(input) - rest + 1, Len(input))]

\* md2_update: the loop fills buffer and processes it whenever it is full.
Md2Update(c, input) ==
    LET all  == Waiting(c) \o input
        rest == Len(all) % BlockSize
        done == Len(all) - rest
    IN  [c EXCEPT !.left = rest,
                  !.processed = @ \o SubSeq(all, 1, done),
                  !.buffer = IF rest = 0 /\ done > 0 THEN SubSeq(all, done - BlockSize + 1, done)
                             ELSE IF input = << >> THEN @
                             ELSE SubSeq(all, done + 1, Len(all))]

\* Seeded fault: no padding at all when there is just room for the length.
PadLenOffByOne(last) == IF last <= BlockSize - LenSize THEN BlockSize - LenSize - last
                                                       ELSE 2 * BlockSize - LenSize - last

\* At least one byte of padding, and the length ends a block.
PadLen(last) == IF last < BlockSize - LenSize THEN BlockSize - LenSize - last
                                              ELSE 2 * BlockSize - LenSize - last

sha1_padding == [i \in 1..BlockSize |-> IF i = 1 THEN 128 ELSE 0]

\* sha1_finish: the length in bits is taken before the padding counts itself in.
ShaFinish(c) ==
    LET high == (c.lo \div (Word \div 8)) + ((c.hi * 8) % Word)
        low  == (c.lo * 8) % Word
        padded == ShaUpdate(c, SubSeq(sha1_padding, 1, PadLen(Left(c))))
    IN  ShaUpdate(padded, MsgLen(high, low))

\* md2_finish: the padding and the checksum; left stays as it is.
Md2Finish(c) ==
    LET pad   == [i \in 1..Fill(c) |-> Fill(c)]
        text  == c.processed \o Waiting(c) \o pad
        cksum == Checksum(text)
    IN  [c EXCEPT !.processed = text \o cksum, !.buffer = cksum]

-----------------------------------------------------------------------------
Init ==
    /\ md_info \in { "md2", "sha" } /\ exists = FALSE
    /\ lo = 0 /\ hi = 0 /\ left = 0 /\ processed = << >> /\ buffer = << >>
    /\ results = 1
    /\ fed = << >> /\ out = << >> /\ stage = "stale"

\* ldigest_create: an empty context.
Create ==
    /\ ~exists /\ exists' = TRUE
    /\ stage' = "open"
    /\ UNCHANGED << ctx, results, fed, out >>

\* digest:reset().
Reset ==
    /\ exists
    /\ Becomes(Starts(Context))
    /\ fed' = << >> /\ out' = << >> /\ stage' = "open"
    /\ UNCHANGED << md_info, exists, results >>

\* digest:update(chunk).
Update(chunk) ==
    /\ exists
    /\ Becomes(IF md_info = "md2" THEN Md2Update(Context, chunk) ELSE ShaUpdate(Context, chunk))
    /\ results' = 0         \* "return 0;"
    /\ fed' = IF stage = "open" THEN fed \o chunk ELSE << >>
    /\ stage' = IF stage = "open" THEN "open" ELSE "stale"
    /\ UNCHANGED << md_info, exists, out >>

\* digest:finish().  The digest is one element of out.  lua_pushlstring may run out of memory
\* behind md_finish.
Finish ==
    /\ exists
    /\ LET c == IF md_info = "md2" THEN Md2Finish(Context) ELSE ShaFinish(Context)
       IN  /\ Becomes(c)
           /\ \/ /\ stage = "open" /\ stage' = "finished"
                 /\ results' = 1
                 /\ out' = Append(out, c.processed) /\ fed' = fed
              \/ /\ stage # "open" /\ stage' = "stale"
                 /\ results' = 1
                 /\ out' = << >> /\ fed' = << >>
              \/ /\ stage' = "stale"
                 /\ results' = results
                 /\ out' = << >> /\ fed' = << >>
    /\ UNCHANGED << md_info, exists >>

-----------------------------------------------------------------------------
\* The next chunk of a message that is being fed; any message begins when none is.
NextChunks ==
    LET before == IF stage = "open" THEN fed ELSE << >>
        Cuts(m) == { n \in Len(before)..Len(m) : n - Len(before) <= MaxChunk }
    IN  UNION { { SubSeq(m, Len(before) + 1, n) : n \in Cuts(m) } :
                  m \in { x \in Messages : IsPrefix(before, x) } }

\* The bound on calls that no reset separates from the finish before them.
Bounded == stage = "open" \/ Len(processed) <= MaxProcessed

Next ==
    \/ Create
    \/ Reset
    \/ \E chunk \in NextChunks : Bounded /\ Update(chunk)
    \/ Bounded /\ Finish

Spec == Init /\ [][Next]_vars

-----------------------------------------------------------------------------
\* Every field has its type; what waits never outgrows buffer, and has been written.
TypeOK ==
    /\ md_info \in { "md2", "sha" } /\ exists \in BOOLEAN
    /\ lo \in 0..(Word - 1) /\ hi \in 0..(Word - 1)
    /\ left \in 0..(BlockSize - 1)
    /\ processed \in Seq(Bytes)
    /\ buffer \in Seq(Bytes) /\ Len(buffer) <= BlockSize
    /\ Left(Context) <= Len(buffer)
    /\ results \in { 0, 1 }
    /\ fed \in Seq(Bytes) /\ Len(fed) <= MaxFed
    /\ stage \in { "open", "finished", "stale" }
    /\ ~exists => stage = "stale"

\* What has been processed and what waits in buffer are the message, however it is cut: no
\* chunk is lost, doubled or put at the wrong place in a block, also after a finish and a reset.
StateHoldsInput ==
    stage = "open" =>
        /\ processed \o Waiting(Context) = fed
        /\ (Len(processed) % BlockSize) = 0

\* total is the length of the message in two words, the carry included, so that left, which
\* the code computes from it, and the length that goes into the digest are right.
LengthCounted ==
    stage = "open" /\ md_info = "sha" => lo + Word * hi = Len(fed) % (Word * Word)

-----------------------------------------------------------------------------
\* The bytes that have to be processed for the digest of the message i: RFC 1320 and 1321,
\* FIPS 180, and RFC 1319 for MD2.
ShaPadded(i) ==
    LET bits  == 8 * Len(i)
        zeros == CHOOSE z \in 0..(BlockSize - 1) : ((Len(i) + 1 + z + LenSize) % BlockSize) = 0
    IN  i \o << 128 >> \o [n \in 1..zeros |-> 0]
          \o MsgLen((bits \div Word) % Word, bits % Word)

Md2Padded(i) ==
    LET n    == BlockSize - (Len(i) % BlockSize)
        text == i \o [k \in 1..n |-> n]
    IN  text \o Checksum(text)

Complete(s, i, o) == o = << IF s = "md2" THEN Md2Padded(i) ELSE ShaPadded(i) >>

Refusable(s, i) == FALSE

Contract == INSTANCE Filter WITH setup <- md_info

\* The object keeps the contract of README.md lines 65-84 (but for what update returns, which
\* is nothing at all: see results): finish returns the digest of all the chunks, whatever their sizes.
FilterContract == Contract!FSpec
=============================================================================
