----------------------------- MODULE MCXzEncode -----------------------------
(***************************************************************************)
(* XzEncode for TLC: an empty text; one that is longer than the window and *)
(* repeats itself only behind the place the window is moved over; and one  *)
(* that makes a compressed chunk, one that does not compress although it   *)
(* holds a match, and a compressed one that must begin from a fresh state. *)
(***************************************************************************)
EXTENDS XzEncode

MCTexts ==
    { << >>,
      << 1, 2, 3, 4, 5, 6, 7, 8, 9, 10, 11, 12, 13, 14, 15, 16, 16, 16, 16, 16 >>,
      << 1, 2, 1, 2, 2, 2, 2, 3, 4, 3, 4, 5, 6, 5, 6, 5, 6 >> }

\* One optimiser looks no further than the symbol it chooses, the other plans ahead.
MCPresets ==
    { [far |-> 1, takes |-> { "rep", "match" }], [far |-> 3, takes |-> { "rep", "match" }] }
=============================================================================
