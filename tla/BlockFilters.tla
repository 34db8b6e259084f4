---------------------------- MODULE BlockFilters ----------------------------
(***************************************************************************)
(* The filters that a block header of a .xz stream may put in front of     *)
(* LZMA2, and what they make of a whole text.  They do not change its      *)
(* length.  The filters for machine code (src/src/lzma/simple) turn the    *)
(* addresses in jumps and calls from absolute into relative ones; they     *)
(* differ in the instructions they look for, and two of the six stand for  *)
(* all: ARM's instructions have one size, of those of ARM-Thumb only a     *)
(* pair means a call.  Delta (src/src/lzma/delta) adds to each byte the    *)
(* one that is distance bytes before it.                                   *)
(*                                                                         *)
(* A filter is an item of XzFormat: n is its ID, m its option, the offset  *)
(* addresses begin at or the distance.  Instructions are scaled down from  *)
(* four bytes to two.                                                      *)
(***************************************************************************)
EXTENDS Integers, Sequences, SequencesExt

CONSTANTS
    Values,         \* 256: a byte is less than this
    HistSize        \* LZMA_DELTA_DIST_MAX

ASSUME BlockFilterConstants ==
    /\ Values \in Nat \ {0} /\ Values % 4 = 0 /\ HistSize \in Nat \ {0}

\* LZMA_FILTER_DELTA, _ARM, _ARMTHUMB
Delta == 3
Arm == 7
ArmThumb == 8

\* unfiltered_max: the bytes an instruction takes.
Look == 2

\* What lzma_properties_decode and the coders' init accept.  A header has room for three
\* filters and LZMA2; an unknown ID stands for every other chain that validate_chain refuses.
ValidFilter(f) ==
    \/ f.n = Delta /\ f.m \in 1..HistSize
    \/ f.n = Arm /\ f.m % Look = 0
    \/ f.n = ArmThumb
ValidChain(filters) == \A i \in DOMAIN filters : ValidFilter(filters[i])

-----------------------------------------------------------------------------
\* arm_code: the last byte of a call is 0xEB, before it comes the address.
Branch == Values - 1
ArmCode(at, w) == << IF w[2] = Branch THEN (w[1] - (at \div Look) - 2) % Values ELSE w[1], w[2] >>

\* armthumb_code: the upper bits of both half words make a call, the lower ones the address.
\* If they do not, the second half word may be the first one of a call.
Half == Values \div 4
ArmThumbCode(at, w) ==
    LET to == (((w[1] % Half) * Half + (w[2] % Half)) - at - 2) % (Half * Half)
    IN  IF w[1] \div Half = 2 /\ w[2] \div Half = 3
        THEN << 2 * Half + (to \div Half), 3 * Half + (to % Half) >> ELSE << w[1] >>

\* What the loop of a filter for machine code makes of s, which begins at the address "at".  It
\* stops where less than an instruction is left, so the result may be shorter than s.
Coded(id, at, s) ==
    LET from[i \in Nat] ==
            IF i + Look > Len(s) THEN << >>
            ELSE LET w == SubSeq(s, i + 1, i + Look)
                     done == IF id = Arm THEN ArmCode(at + i, w) ELSE ArmThumbCode(at + i, w)
                 IN  done \o from[i + Len(done)]
    IN  from[0]

\* What the loop has not come to is left as it is.
Behind(s, done) == SubSeq(s, Len(done) + 1, Len(s))

-----------------------------------------------------------------------------
(* The reference definition: the whole text at once.                       *)

Undone(f, text) ==
    IF f.n = Delta
    THEN LET plain[i \in 1..Len(text)] ==
                 (text[i] + IF i > f.m THEN plain[i - f.m] ELSE 0) % Values
         IN  [i \in 1..Len(text) |-> plain[i]]
    ELSE LET done == Coded(f.n, f.m, text) IN done \o Behind(text, done)

\* The compressor applied the filters in the order in which the header names them.
Unfiltered(filters, text) == FoldRight(Undone, filters, text)
=============================================================================
