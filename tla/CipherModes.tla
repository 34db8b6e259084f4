---------------------------- MODULE CipherModes ----------------------------
(***************************************************************************)
(* The modes of operation of the block ciphers: the loops of               *)
(* src/src/polarssl/aes.c that cipher.c reaches through cbc_func, cfb_func *)
(* and ctr_func.  The block permutation under an installed key schedule    *)
(* and the exclusive or of two bytes are parameters.                       *)
(*                                                                         *)
(* A block is a sequence of B bytes.  The running state of a stream mode   *)
(* is the record [iv, block, off]: the IV or counter, the key stream block *)
(* and the offset of the next unused byte in it.                           *)
(***************************************************************************)
EXTENDS Integers, Sequences

CONSTANTS
    B,                \* block size in bytes
    N,                \* number of byte values
    EncBlock(_, _),   \* EncBlock(schedule, x): the block x enciphered
    DecBlock(_, _),   \* DecBlock(schedule, x): the block x deciphered
    Xor(_, _)         \* exclusive or of two bytes

XorBlock(x, y) == [i \in 1..B |-> Xor(x[i], y[i])]

BlockOf(data, n) == SubSeq(data, (n - 1) * B + 1, n * B)

Blocks(data) == Len(data) \div B

\* The bytes of the blocks x[1], ..., x[n], one after the other.
Bytewise(x, n) == [i \in 1..(n * B) |-> x[((i - 1) \div B) + 1][((i - 1) % B) + 1]]

\* aes_crypt_cbc, encrypting: each block is whitened with the ciphertext before it.
CbcChain(schedule, iv, data) ==
    LET c[n \in 0..Blocks(data)] ==
            IF n = 0 THEN iv
            ELSE EncBlock(schedule, XorBlock(BlockOf(data, n), c[n - 1]))
    IN  c

\* Seeded fault: every block is whitened with the IV.
CbcUnchainUnderIv(schedule, iv, data) ==
    [n \in 1..Blocks(data) |-> XorBlock(DecBlock(schedule, BlockOf(data, n)), iv)]

\* aes_crypt_cbc, decrypting: temp keeps the ciphertext block that whitens the next one.
CbcUnchain(schedule, iv, data) ==
    [n \in 1..Blocks(data) |->
        XorBlock(DecBlock(schedule, BlockOf(data, n)),
                 IF n = 1 THEN iv ELSE BlockOf(data, n - 1))]

AesCbcOut(schedule, op, iv, data) ==
    Bytewise(IF op = "encrypt" THEN CbcChain(schedule, iv, data)
                               ELSE CbcUnchain(schedule, iv, data),
             Blocks(data))

\* The IV the call leaves behind: the last ciphertext block.
AesCbcIv(schedule, op, iv, data) ==
    IF Blocks(data) = 0 THEN iv
    ELSE IF op = "encrypt" THEN CbcChain(schedule, iv, data)[Blocks(data)]
                           ELSE BlockOf(data, Blocks(data))

\* The big-endian counter plus one: a byte changes when every byte after it wraps.
Increment(x) ==
    [i \in 1..B |-> (x[i] + IF \A j \in (i + 1)..B : x[j] = N - 1 THEN 1 ELSE 0) % N]

\* One byte c through aes_crypt_cfb128 and aes_crypt_ctr: the byte out and the state after it.
CfbByte(schedule, op, st, c) ==
    LET v == IF st.off = 0 THEN EncBlock(schedule, st.iv) ELSE st.iv
        o == Xor(c, v[st.off + 1])
    IN  [byte  |-> o,
         state |-> [st EXCEPT !.iv = [v EXCEPT ![st.off + 1] = IF op = "encrypt" THEN o ELSE c],
                              !.off = (st.off + 1) % B]]

CtrByte(schedule, st, c) ==
    LET fresh == st.off = 0
        k == IF fresh THEN EncBlock(schedule, st.iv) ELSE st.block
    IN  [byte  |-> Xor(c, k[st.off + 1]),
         state |-> [iv    |-> IF fresh THEN Increment(st.iv) ELSE st.iv,
                    block |-> k,
                    off   |-> (st.off + 1) % B]]

\* What has come out of a stream mode, and its state, after 0, 1, ... bytes of data.
StreamRun(mode, schedule, op, st, data) ==
    LET run[n \in 0..Len(data)] ==
            IF n = 0 THEN [out |-> << >>, state |-> st]
            ELSE LET before == run[n - 1]
                     step   == IF mode = "CFB" THEN CfbByte(schedule, op, before.state, data[n])
                                               ELSE CtrByte(schedule, before.state, data[n])
                 IN  [out |-> Append(before.out, step.byte), state |-> step.state]
    IN  run[Len(data)]

AesStreamOut(mode, schedule, op, st, data) == StreamRun(mode, schedule, op, st, data).out

AesStreamState(mode, schedule, op, st, data) == StreamRun(mode, schedule, op, st, data).state
=============================================================================
