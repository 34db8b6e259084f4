-------------------------- MODULE MCCipherContract --------------------------
(***************************************************************************)
(* The assumptions of CipherContract and CipherInverse for TLC: every      *)
(* schedule, IV, stream state and pair of inputs over a few bytes.  On the *)
(* same instance, two chained objects for every IV and every text of at    *)
(* most three bytes.                                                       *)
(***************************************************************************)
EXTENDS MCCipher, CipherInverse, CipherChain

MCShort == UNION { [1..n -> Bytes] : n \in 0..3 }
=============================================================================
