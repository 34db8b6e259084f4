---------------------------- MODULE CipherInverse ----------------------------
(***************************************************************************)
(* What two cipher objects rely on beyond CipherContract: deciphering is   *)
(* the inverse of enciphering under the same key and IV.  TLC checks it of *)
(* the loops of aes.c (module CipherModes), given a block permutation and  *)
(* its inverse.                                                            *)
(***************************************************************************)
EXTENDS CipherContract

\* The bound on lengths leaves room for the padding.
ASSUME CiphertextFits ==
    \A m \in Messages : ((Len(m) \div B) + 1) * B <= MaxFed

\* The two loops of cbc_func (aes.c:776-832), each under its own key schedule.
ASSUME CbcInverse ==
    \A k \in Keys, v \in Block, a \in Data :
        Whole(a) =>
            CbcOut([key |-> k, dir |-> "decrypt"], "decrypt", v,
                   CbcOut([key |-> k, dir |-> "encrypt"], "encrypt", v, a)) = a

\* cfb_func (aes.c:838-879) and ctr_func (aes.c:886-915), under one key schedule.
ASSUME StreamInverse ==
    \A m \in Modes \ { "CBC" }, s \in [key : Keys, dir : { "encrypt" }], v \in Block :
        \A a \in StreamData :
            StreamOut(m, s, "decrypt", StreamStart(v),
                      StreamOut(m, s, "encrypt", StreamStart(v), a)) = a
=============================================================================
