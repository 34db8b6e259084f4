---------------------------- MODULE MCCipherChain ----------------------------
(***************************************************************************)
(* CipherChain for TLC: the toy block permutation of MCCipher, blocks of   *)
(* three bytes.                                                            *)
(***************************************************************************)
EXTENDS MCCipher, CipherChain

\* No byte at all, a whole number of blocks, and a text ending inside a block.
MCTexts == { << >>, << 2, 0, 3, 3, 1, 3 >>, << 1, 0, 2, 3, 1, 1, 3, 2, 2, 0 >> }
=============================================================================
