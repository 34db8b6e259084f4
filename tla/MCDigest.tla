------------------------------ MODULE MCDigest ------------------------------
(***************************************************************************)
(* Digest for TLC: blocks of four bytes with a length of two, and words of *)
(* four bits.                                                              *)
(***************************************************************************)
EXTENDS Digest

MCMsgLen(high, low) == << high, low >>

MCChecksum(text) ==
    [j \in 1..BlockSize |-> (text[Len(text) - BlockSize + j] + Len(text) + j) % 256]

MCBytes == 0..255

MCMessages == { [i \in 1..MaxFed |-> (i * i) % 11] }
=============================================================================
