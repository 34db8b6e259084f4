------------------------------ MODULE MCCipher ------------------------------
(***************************************************************************)
(* Cipher for TLC: a toy block permutation (rotate the block, add the key) *)
(* under the real modes of operation of CipherModes, over bytes of two     *)
(* bits.  Keys are numbers; key 0 has a length no key schedule accepts.    *)
(***************************************************************************)
EXTENDS Cipher

\* Round keys used in the other direction than they were made for give another permutation.
RoundKey(s, use) == IF s.dir = use THEN s.key ELSE s.key + 1

MCEncBlock(s, x) ==
    [i \in 1..B |-> (x[(i % B) + 1] + RoundKey(s, "encrypt") + i) % N]

MCDecBlock(s, y) ==
    [j \in 1..B |-> LET i == IF j = 1 THEN B ELSE j - 1
                    IN  (y[i] + (4 * N) - RoundKey(s, "decrypt") - i) % N]

\* Bitwise exclusive or of two-bit bytes; for another N, a mixing of two bytes that undoes
\* itself as the exclusive or does.
MCXor(a, b) == IF N = 4 THEN ((a + b) % 2) + 2 * (((a \div 2) + (b \div 2)) % 2)
                        ELSE ((2 * N) - a - b) % N

Modes_ == INSTANCE CipherModes WITH
              EncBlock <- MCEncBlock, DecBlock <- MCDecBlock, Xor <- MCXor

MCCbcOut(s, op, v, data) == Modes_!AesCbcOut(s, op, v, data)
MCCbcIv(s, op, v, data) == Modes_!AesCbcIv(s, op, v, data)
MCStreamOut(m, s, op, st, data) == Modes_!AesStreamOut(m, s, op, st, data)
MCStreamState(m, s, op, st, data) == Modes_!AesStreamState(m, s, op, st, data)

MCKeyBits(k) == IF k = 0 THEN 5 ELSE 8
MCKeyLengths == { 8 }
MCIVs == { [i \in 1..B |-> N - 1] }

\* A text, and what key 1 makes of two others: for deciphering, a message with padding to
\* cut off, one that is all padding, and (the text, and any part of the three) broken ones.
Enciphered(text) ==
    MCCbcOut([key |-> 1, dir |-> "encrypt"], "encrypt", [i \in 1..B |-> N - 1],
             text \o Padding(B - (Len(text) % B)))

MCMessages == { << 1, 2, 3, 0, 1 >>, Enciphered(<< 3, 1, 2 >>), Enciphered(<< >>) }
=============================================================================
