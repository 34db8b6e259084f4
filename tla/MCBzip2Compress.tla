-------------------------- MODULE MCBzip2Compress --------------------------
(***************************************************************************)
(* Bzip2Compress for TLC: texts over two byte values, which are also the   *)
(* counts a run can have.                                                  *)
(***************************************************************************)
EXTENDS Bzip2Compress

MCChars == { 0, 1 }
=============================================================================
