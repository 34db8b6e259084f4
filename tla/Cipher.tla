------------------------------- MODULE Cipher -------------------------------
(***************************************************************************)
(* A cipher object: src/src/ltn12ce_crypto.c over the generic cipher layer *)
(* src/src/polarssl/cipher.c.  One context serves both directions and all  *)
(* modes of operation, and its two fields unprocessed_data and             *)
(* unprocessed_len mean different things in each:                          *)
(*   CBC: the bytes that do not fill a block yet (deciphering holds back a *)
(*        full block, because the last one carries the padding);           *)
(*   CTR: the current key stream block and the offset of its next byte;    *)
(*   CFB: only the offset, the key stream block being kept in iv.          *)
(*                                                                         *)
(* The functions a cipher_info points to (cbc_func, cfb_func, ctr_func)    *)
(* are parameters here, as they are in the code.  CipherModes defines      *)
(* them, CipherContract states what this layer relies on.                  *)
(***************************************************************************)
EXTENDS Integers, Sequences, SequencesExt

CONSTANTS
    B,              \* block size in bytes, equal to the IV size
    N,              \* number of byte values
    Keys,           \* keys a caller may pass to setkey
    NoKey,          \* no key yet
    KeyBits(_),     \* the length of a key in bits
    KeyLengths,     \* the lengths the key schedule functions accept
    IVs,            \* initialisation vectors a caller may pass to reset
    Messages,       \* inputs a caller may feed, cut into chunks, between reset and finish
    MaxFed,         \* bound on their lengths
    CbcOut(_, _, _, _), CbcIv(_, _, _, _),                   \* cbc_func: output, IV left behind
    StreamOut(_, _, _, _, _), StreamState(_, _, _, _, _)     \* cfb_func and ctr_func

Bytes == 0..(N - 1)
Block == [1..B -> Bytes]
Operations == { "encrypt", "decrypt" }
Modes == { "CBC", "CFB", "CTR" }
Schedules == [key : Keys, dir : Operations]
NoSchedule == [key |-> NoKey, dir |-> "none"]     \* as allocated: no round keys

ASSUME CipherConstants ==
    /\ B \in Nat \ {0}
    /\ N \in Nat
    /\ B < N                \* a padding length is a byte: block sizes are at most 16
    /\ MaxFed \in Nat
    /\ \A k \in Keys : KeyBits(k) \in Nat
    /\ \A m \in Messages : m \in Seq(Bytes) /\ Len(m) <= MaxFed
    /\ IVs \subseteq Block
    /\ NoKey \notin Keys

VARIABLES
    mode,               \* cipher_info->mode
    operation,          \* operation
    key_length,         \* key_length, in bits
    schedule,           \* the round keys in cipher_ctx: which key, for which direction
    iv,                 \* iv
    unprocessed_data,   \* unprocessed_data, as far as it was written last (nothing reads on)
    unprocessed_len,    \* unprocessed_len
    fed, out, stage,    \* history: the contract's view of the current message (module Filter)
    start               \* history: the IV given last, which the message starts with

ctx == << mode, operation, key_length, schedule, iv, unprocessed_data, unprocessed_len >>
vars == << ctx, fed, out, stage, start >>

-----------------------------------------------------------------------------
Cached == SubSeq(unprocessed_data, 1, unprocessed_len)

\* Seeded fault: the schedule follows the operation in every mode.
DirForOperation(m, op) == op

\* cipher_setkey lines 344-351: CFB and CTR always use the encryption key schedule.
DirFor(m, op) == IF op = "encrypt" \/ m # "CBC" THEN "encrypt" ELSE "decrypt"

\* A key schedule is installed.  Calls before that are outside the API (cipher.h, cipher_setkey).
Keyed == schedule # NoSchedule

Zeros == [i \in 1..B |-> 0]

Padding(n) == [i \in 1..n |-> n]

\* get_pkcs_padding accepts the block x.  A padding length of zero passes.
ValidPadding(x) == /\ x[B] <= B
                   /\ \A i \in (B - x[B] + 1)..B : x[i] = x[B]

\* A call with this input returns this result, or lua_pushlstring runs out of memory: the
\* context has moved on, the string is lost and the error ends the message.  Outside a
\* message the history keeps the last call only.
Return(input, result, next) ==
    \/ /\ stage = "open" /\ stage' = next
       /\ fed' = fed \o input
       /\ out' = out \o result
    \/ /\ stage # "open" /\ stage' = "stale"
       /\ fed' = input
       /\ out' = result
    \/ stage' = "stale" /\ fed' = << >> /\ out' = << >>

\* The call raises an error of its own.
Raise(next) ==
    \/ stage = "open" /\ stage' = next /\ UNCHANGED << fed, out >>
    \/ stage # "open" /\ stage' = "stale" /\ fed' = << >> /\ out' = << >>

-----------------------------------------------------------------------------
\* lcipher_create: a zeroed context, no operation and no key.
Init ==
    /\ mode \in Modes
    /\ operation = "none" /\ key_length = 0 /\ schedule = NoSchedule
    /\ iv = Zeros /\ unprocessed_data = Zeros /\ unprocessed_len = 0
    /\ fed = << >> /\ out = << >> /\ stage = "stale" /\ start = Zeros

\* cipher:setkey(key, op).  Length and operation are stored before the key is looked at;
\* a key of another length leaves the old round keys in place and raises an error.
SetKey(k, op) ==
    /\ key_length' = KeyBits(k)
    /\ operation' = op
    /\ UNCHANGED << mode, iv, unprocessed_data, unprocessed_len >>
    /\ \/ /\ KeyBits(k) \in KeyLengths
          /\ schedule' = [key |-> k, dir |-> DirFor(mode, op)]
          /\ stage' = IF unprocessed_len = 0 /\ iv = start THEN "open" ELSE "stale"
       \/ /\ KeyBits(k) \notin KeyLengths
          /\ schedule' = schedule
          /\ stage' = "stale"
    /\ fed' = << >> /\ out' = << >> /\ start' = start

\* Seeded fault: reset takes the IV and keeps the cached bytes.
ResetKeepsOffset(v) ==
    /\ iv' = v
    /\ UNCHANGED << mode, operation, key_length, schedule, unprocessed_data, unprocessed_len >>
    /\ fed' = << >> /\ out' = << >> /\ start' = v
    /\ stage' = IF Keyed /\ schedule.dir = DirFor(mode, operation) THEN "open" ELSE "stale"

\* cipher:reset(v) forgets the cached bytes, or the offset into the key stream.
Reset(v) ==
    /\ iv' = v
    /\ unprocessed_len' = 0
    /\ UNCHANGED << mode, operation, key_length, schedule, unprocessed_data >>
    /\ fed' = << >> /\ out' = << >> /\ start' = v
    /\ stage' = IF Keyed /\ schedule.dir = DirFor(mode, operation) THEN "open" ELSE "stale"

\* Seeded faults: the bytes that are cached already are not counted; enciphering also waits
\* for more than a block.
OnlyCachedOfInput(input) ==
    IF operation = "decrypt" THEN Len(input) <= B ELSE Len(input) < B

OnlyCachedFullBlock(input) == unprocessed_len + Len(input) <= B

\* The input and the cached bytes do not make up a block that may be processed.
OnlyCached(input) ==
    IF operation = "decrypt" THEN unprocessed_len + Len(input) <= B
                             ELSE unprocessed_len + Len(input) < B

\* cipher:update(input) in CBC mode.
UpdateCached(input) ==
    /\ mode = "CBC" /\ Keyed
    /\ OnlyCached(input)
    /\ unprocessed_data' = Cached \o input
    /\ unprocessed_len' = unprocessed_len + Len(input)
    /\ Return(input, << >>, "open")
    /\ UNCHANGED << mode, operation, key_length, schedule, iv, start >>

\* Otherwise the cached block is completed and processed, an incomplete block (deciphering:
\* also a complete one) is cut off the end of the input, and the blocks in between follow.
CopyLen == IF unprocessed_len # 0 THEN B - unprocessed_len ELSE 0

\* Seeded faults: the last complete block is not held back; the remainder is the one of the
\* whole input, not of what is left after the cached block is complete.
HoldLenIncomplete(input) == (Len(input) - CopyLen) % B

HoldLenOfInput(input) ==
    IF operation = "decrypt" /\ Len(input) # 0 /\ (Len(input) % B) = 0 THEN B
                                                                       ELSE Len(input) % B

HoldLen(input) ==
    LET rest == Len(input) - CopyLen
    IN  IF operation = "decrypt" /\ rest # 0 /\ (rest % B) = 0 THEN B ELSE rest % B

HeadBlock(input) ==
    IF unprocessed_len # 0 THEN Cached \o SubSeq(input, 1, CopyLen) ELSE << >>

FullBlocks(input) == SubSeq(input, CopyLen + 1, Len(input) - HoldLen(input))

\* Seeded fault: the leftover is taken from the wrong end of the input.
LeftoverFromStart(input) == SubSeq(input, 1, HoldLen(input))

Leftover(input) == SubSeq(input, Len(input) - HoldLen(input) + 1, Len(input))

UpdateBlocks(input) ==
    /\ mode = "CBC" /\ Keyed
    /\ ~OnlyCached(input)
    /\ LET head == HeadBlock(input)
           body == FullBlocks(input)
           mid  == CbcIv(schedule, operation, iv, head)
       IN  /\ iv' = CbcIv(schedule, operation, mid, body)
           /\ unprocessed_data' = IF HoldLen(input) # 0 THEN Leftover(input)
                                  ELSE IF head # << >> THEN head ELSE unprocessed_data
           /\ Return(input, CbcOut(schedule, operation, iv, head)
                               \o CbcOut(schedule, operation, mid, body), "open")
    /\ unprocessed_len' = HoldLen(input)
    /\ UNCHANGED << mode, operation, key_length, schedule, start >>

\* cipher:update(input) in CFB and CTR mode: every byte comes out at once.
UpdateStream(input) ==
    /\ mode # "CBC" /\ Keyed
    /\ LET st   == [iv |-> iv, block |-> unprocessed_data, off |-> unprocessed_len]
           next == StreamState(mode, schedule, operation, st, input)
       IN  /\ iv' = next.iv
           /\ unprocessed_data' = next.block
           /\ unprocessed_len' = next.off
           /\ Return(input, StreamOut(mode, schedule, operation, st, input), "open")
    /\ UNCHANGED << mode, operation, key_length, schedule, start >>

-----------------------------------------------------------------------------
\* cipher:finish().  Nothing clears unprocessed_len: only reset does.
FinishEncrypt ==
    /\ mode = "CBC" /\ Keyed /\ operation = "encrypt"
    /\ LET padded == Cached \o Padding(B - unprocessed_len)
       IN  /\ unprocessed_data' = padded
           /\ iv' = CbcIv(schedule, operation, iv, padded)
           /\ Return(<< >>, CbcOut(schedule, operation, iv, padded), "finished")
    /\ UNCHANGED << mode, operation, key_length, schedule, unprocessed_len, start >>

\* The held back block is deciphered and its padding is cut off, or refused.
FinishDecrypt ==
    /\ mode = "CBC" /\ Keyed /\ operation = "decrypt"
    /\ unprocessed_len = B
    /\ LET text == CbcOut(schedule, operation, iv, Cached)
       IN  \/ /\ ValidPadding(text)
              /\ Return(<< >>, SubSeq(text, 1, B - text[B]), "finished")
           \/ /\ ~ValidPadding(text)
              /\ Raise("refused")
    /\ iv' = CbcIv(schedule, operation, iv, Cached)
    /\ UNCHANGED << mode, operation, key_length, schedule, unprocessed_data, unprocessed_len,
                    start >>

\* POLARSSL_ERR_CIPHER_FULL_BLOCK_EXPECTED
FinishIncomplete ==
    /\ mode = "CBC" /\ Keyed /\ operation = "decrypt"
    /\ unprocessed_len # B
    /\ Raise("refused")
    /\ UNCHANGED << ctx, start >>

FinishStream ==
    /\ mode # "CBC" /\ Keyed
    /\ Return(<< >>, << >>, "finished")
    /\ UNCHANGED << ctx, start >>

\* The next chunk may be any piece, also an empty one, of a message that is being fed.
NextChunks ==
    LET before == IF stage = "open" THEN fed ELSE << >>
    IN  UNION { { SubSeq(m, Len(before) + 1, n) : n \in Len(before)..Len(m) } :
                  m \in { x \in Messages : IsPrefix(before, x) } }

Next ==
    \/ \E k \in Keys, op \in Operations : SetKey(k, op)
    \/ \E v \in IVs : Reset(v)
    \/ \E input \in NextChunks : UpdateCached(input)
    \/ \E input \in NextChunks : UpdateBlocks(input)
    \/ \E input \in NextChunks : UpdateStream(input)
    \/ FinishEncrypt
    \/ FinishDecrypt
    \/ FinishIncomplete
    \/ FinishStream

Spec == Init /\ [][Next]_vars

-----------------------------------------------------------------------------
Stages == { "open", "finished", "refused", "stale" }

\* Every field has its type; the cache never outgrows unprocessed_data (cipher.c:401-405, 439-446).
TypeOK ==
    /\ mode \in Modes
    /\ operation \in Operations \cup { "none" }
    /\ key_length \in Nat
    /\ schedule \in Schedules \cup { NoSchedule }
    /\ iv \in Block
    /\ unprocessed_data \in Seq(Bytes) /\ Len(unprocessed_data) <= B
    /\ unprocessed_len \in 0..B
    /\ mode = "CBC" => unprocessed_len <= Len(unprocessed_data)
    /\ mode # "CBC" => unprocessed_data \in Block /\ unprocessed_len < B
    /\ fed \in Seq(Bytes) /\ Len(fed) <= MaxFed
    /\ out \in Seq(Bytes)
    /\ stage \in Stages
    /\ start \in Block
    /\ Keyed => operation # "none" /\ (mode # "CBC" => schedule.dir = "encrypt")
    /\ stage = "open" => Keyed

\* In the middle of a message the cached bytes are exactly the input that has not come out
\* yet: no byte is dropped, doubled or reordered however the input is cut into chunks.
CacheHoldsTail ==
    stage = "open" /\ mode = "CBC" =>
        /\ Len(out) % B = 0
        /\ Len(out) <= Len(fed)
        /\ Cached = SubSeq(fed, Len(out) + 1, Len(fed))

\* What has come out, and the IV the next call goes on with, are those of one single call on
\* all of the input that has been processed: cutting it up leaves no trace.  (For a stream
\* mode the key stream block b from before reset is never looked at.)
OutputOfOneCall ==
    stage = "open" =>
        IF mode = "CBC"
        THEN LET done == SubSeq(fed, 1, Len(out))
             IN  /\ out = CbcOut(schedule, operation, start, done)
                 /\ iv = CbcIv(schedule, operation, start, done)
        ELSE \E b \in Block :
                 LET st == [iv |-> start, block |-> b, off |-> 0]
                 IN  /\ out = StreamOut(mode, schedule, operation, st, fed)
                     /\ [iv |-> iv, block |-> unprocessed_data, off |-> unprocessed_len]
                            = StreamState(mode, schedule, operation, st, fed)

\* finish() finds what it needs: enciphering has room for at least one byte of padding, and
\* deciphering whole blocks has the last one held back (else cipher_finish would refuse it).
FinishHasItsBlock ==
    stage = "open" /\ mode = "CBC" =>
        /\ operation = "encrypt" => unprocessed_len < B
        /\ operation = "decrypt" /\ fed # << >> => unprocessed_len > 0
        /\ operation = "decrypt" /\ fed # << >> /\ Len(fed) % B = 0 => unprocessed_len = B

\* The output of one update fits the buffer lcipher_update gives it (len + block size), and
\* that of one finish fits a block (ltn12ce_crypto.c:108 and 119), also outside the protocol:
\* a key or an operation changed in mid-message, calls after finish.
OutputFits ==
    [][IF stage = "open" /\ stage' # "stale"
       THEN Len(out') <= Len(out) + (Len(fed') - Len(fed)) + B
       ELSE Len(out') <= Len(fed') + B]_vars

\* cipher.h:188 documents operation as the "operation that the context's key has been
\* initialised for".
OperationMatchesSchedule ==
    Keyed => schedule.dir = DirFor(mode, operation)

-----------------------------------------------------------------------------
\* The complete output of a message, whatever the chunks: a reference for the refinement.
StreamStart(v) == [iv |-> v, block |-> Zeros, off |-> 0]

Text(s, i) == CbcOut(s.schedule, "decrypt", s.iv, i)

LastBlock(t) == SubSeq(t, Len(t) - B + 1, Len(t))

Refusable(s, i) ==
    /\ s.mode = "CBC" /\ s.operation = "decrypt"
    /\ \/ i = << >>
       \/ (Len(i) % B) # 0
       \/ ~ValidPadding(LastBlock(Text(s, i)))

Complete(s, i, o) ==
    CASE s.mode # "CBC" ->
            o = StreamOut(s.mode, s.schedule, s.operation, StreamStart(s.iv), i)
      [] s.mode = "CBC" /\ s.operation = "encrypt" ->
            o = CbcOut(s.schedule, "encrypt", s.iv, i \o Padding(B - (Len(i) % B)))
      [] OTHER ->
            /\ ~Refusable(s, i)
            /\ o = SubSeq(Text(s, i), 1, Len(i) - LastBlock(Text(s, i))[B])

Setup == [mode |-> mode, operation |-> operation, schedule |-> schedule, iv |-> start]

Contract == INSTANCE Filter WITH setup <- Setup

\* The object keeps the contract of README.md lines 65-84: the strings update() and finish()
\* return concatenate to the output of the whole message, whatever the chunks.
FilterContract == Contract!FSpec
=============================================================================
