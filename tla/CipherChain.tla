----------------------------- MODULE CipherChain -----------------------------
(***************************************************************************)
(* Two cipher objects of one algorithm, as test/ciphers.lua chains them:    *)
(* what the first one enciphers, the second one deciphers, each of them    *)
(* fed in chunks of its own.  The variables of module Cipher are the       *)
(* encipherer's, those with the prefix d_ the decipherer's; both have the  *)
(* same cipher_info, hence the same mode.                                  *)
(***************************************************************************)
EXTENDS Cipher

VARIABLES
    d_operation, d_key_length, d_schedule, d_iv, d_unprocessed_data, d_unprocessed_len,
    d_fed, d_out, d_stage, d_start

D == INSTANCE Cipher WITH
        operation <- d_operation, key_length <- d_key_length, schedule <- d_schedule,
        iv <- d_iv, unprocessed_data <- d_unprocessed_data,
        unprocessed_len <- d_unprocessed_len,
        fed <- d_fed, out <- d_out, stage <- d_stage, start <- d_start

decipherer == << d_operation, d_key_length, d_schedule, d_iv, d_unprocessed_data,
                 d_unprocessed_len, d_fed, d_out, d_stage, d_start >>

allvars == << vars, decipherer >>

\* Both objects after setkey with one key and reset with one IV.
ChainInit ==
    /\ mode \in Modes
    /\ \E k \in { x \in Keys : KeyBits(x) \in KeyLengths }, v \in IVs :
         /\ operation = "encrypt" /\ d_operation = "decrypt"
         /\ key_length = KeyBits(k) /\ d_key_length = KeyBits(k)
         /\ schedule = [key |-> k, dir |-> DirFor(mode, "encrypt")]
         /\ d_schedule = [key |-> k, dir |-> DirFor(mode, "decrypt")]
         /\ iv = v /\ start = v /\ d_iv = v /\ d_start = v
    /\ unprocessed_data = Zeros /\ d_unprocessed_data = Zeros
    /\ unprocessed_len = 0 /\ d_unprocessed_len = 0
    /\ fed = << >> /\ out = << >> /\ stage = "open"
    /\ d_fed = << >> /\ d_out = << >> /\ d_stage = "open"

\* What the encipherer has returned and the decipherer has not been given yet.
Pipe == SubSeq(out, Len(d_fed) + 1, Len(out))

\* The caller of the first object hands over the next piece of a message.  (A call that
\* runs out of memory ends the chain.)
Encipher(input) ==
    /\ stage = "open"
    /\ UpdateCached(input) \/ UpdateBlocks(input) \/ UpdateStream(input)
    /\ stage' = "open"
    /\ UNCHANGED decipherer

EndEncipher ==
    /\ stage = "open"
    /\ fed \in Messages
    /\ FinishEncrypt \/ FinishStream
    /\ stage' = "finished"
    /\ UNCHANGED decipherer

\* The second object takes the next bytes of the pipe, as many as its caller likes.
Decipher(n) ==
    LET piece == SubSeq(Pipe, 1, n)
    IN  /\ d_stage = "open"
        /\ D!UpdateCached(piece) \/ D!UpdateBlocks(piece) \/ D!UpdateStream(piece)
        /\ d_stage' = "open"
        /\ UNCHANGED vars

EndDecipher ==
    /\ stage = "finished" /\ Pipe = << >> /\ d_stage = "open"
    /\ D!FinishDecrypt \/ D!FinishIncomplete \/ D!FinishStream
    /\ d_stage' # "stale"
    /\ UNCHANGED vars

ChainNext ==
    \/ \E input \in NextChunks : Encipher(input)
    \/ EndEncipher
    \/ \E n \in 0..Len(Pipe) : Decipher(n)
    \/ EndDecipher

ChainSpec == ChainInit /\ [][ChainNext]_allvars

-----------------------------------------------------------------------------
\* What comes out of the second object is what went into the first, from the start and in
\* order; all of it once both have finished, and the second one never refuses.
RoundTrip ==
    /\ IsPrefix(d_out, fed)
    /\ d_stage = "finished" => d_out = fed
    /\ d_stage # "refused"

\* With the pipe empty, both objects have arrived at the same IV, the key stream block and the
\* offset into it included, however each of them was fed: the decipherer once the block that
\* it holds back is counted in.  What follows would be deciphered to the text again, also
\* behind a last block: finish leaves the two in step.
InStep ==
    Pipe = << >> =>
        IF mode = "CBC"
        THEN iv = IF d_stage = "open" THEN CbcIv(d_schedule, "decrypt", d_iv, D!Cached) ELSE d_iv
        ELSE /\ d_iv = iv
             /\ d_unprocessed_data = unprocessed_data
             /\ d_unprocessed_len = unprocessed_len

\* With the pipe empty, the text is at most a byte short of two blocks behind: an incomplete
\* block in the encipherer and a block held back in the decipherer.  Streams are never behind.
BoundedLag ==
    Pipe = << >> /\ stage = "open" =>
        /\ Len(fed) - Len(d_out) < 2 * B
        /\ mode # "CBC" => d_out = fed
=============================================================================
