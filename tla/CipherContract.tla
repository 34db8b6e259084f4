--------------------------- MODULE CipherContract ---------------------------
(***************************************************************************)
(* What cipher.c relies on in the functions a cipher_info points to, and   *)
(* what the proofs of module CipherProofs start from: a call on a joined   *)
(* input is two calls, the second going on where the first one left the    *)
(* context.  TLC checks it of the loops of aes.c (module CipherModes).     *)
(***************************************************************************)
EXTENDS Cipher

DataUpTo(n) == UNION { [1..i -> Bytes] : i \in 0..n }

\* Every input cipher.c may pass on to cbc_func: a message and the cached block or the padding.
Data == DataUpTo(MaxFed + B)

\* A stream mode is given the message as it is.
StreamData == DataUpTo(MaxFed)

Whole(a) == (Len(a) % B) = 0

StreamStates == [iv : Block, block : Block, off : 0..(B - 1)]

\* cbc_func (aes.c:776-832) on whole blocks.
ASSUME CbcContract ==
    \A s \in Schedules, op \in Operations, v \in Block, a \in Data :
        Whole(a) =>
            /\ CbcOut(s, op, v, a) \in Seq(Bytes)
            /\ Len(CbcOut(s, op, v, a)) = Len(a)
            /\ CbcIv(s, op, v, a) \in Block
            /\ a = << >> => CbcIv(s, op, v, a) = v

\* The chaining value a call leaves in iv is all the next call needs.
ASSUME CbcChaining ==
    \A s \in Schedules, op \in Operations, v \in Block, a \in Data :
        \A b \in DataUpTo(MaxFed + B - Len(a)) :
            Whole(a) /\ Whole(b) =>
                LET mid == CbcIv(s, op, v, a)
                IN  /\ CbcOut(s, op, v, a \o b) = CbcOut(s, op, v, a) \o CbcOut(s, op, mid, b)
                    /\ CbcIv(s, op, v, a \o b) = CbcIv(s, op, mid, b)

\* cfb_func (aes.c:838-879) and ctr_func (aes.c:886-915) under an encryption key schedule.
\* Right after a reset nothing depends on the key stream block of before.
ASSUME StreamContract ==
    \A m \in Modes \ { "CBC" }, s \in [key : Keys, dir : { "encrypt" }], op \in Operations :
        \A st \in StreamStates, a \in StreamData :
            /\ StreamOut(m, s, op, st, a) \in Seq(Bytes)
            /\ Len(StreamOut(m, s, op, st, a)) = Len(a)
            /\ StreamState(m, s, op, st, a) \in StreamStates
            /\ a = << >> => StreamState(m, s, op, st, a) = st
            /\ st.off = 0 => StreamOut(m, s, op, st, a)
                                = StreamOut(m, s, op, [st EXCEPT !.block = Zeros], a)

\* The IV or counter, the key stream block and the offset are all the next call needs.
ASSUME StreamChaining ==
    \A m \in Modes \ { "CBC" }, s \in [key : Keys, dir : { "encrypt" }], op \in Operations :
        \A st \in StreamStates, a \in StreamData :
            \A b \in DataUpTo(MaxFed - Len(a)) :
                LET mid == StreamState(m, s, op, st, a)
                IN  /\ StreamOut(m, s, op, st, a \o b)
                          = StreamOut(m, s, op, st, a) \o StreamOut(m, s, op, mid, b)
                    /\ StreamState(m, s, op, st, a \o b) = StreamState(m, s, op, mid, b)
=============================================================================
