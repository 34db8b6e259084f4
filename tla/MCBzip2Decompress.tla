------------------------- MODULE MCBzip2Decompress -------------------------
(***************************************************************************)
(* Bzip2Decompress for TLC: streams of blocks with runs of every kind,     *)
(* whole, broken in each way, and with bytes behind them.                  *)
(***************************************************************************)
EXTENDS Bzip2Decompress

Part(part, block, n, sound) == [i \in 1..n |-> Byte(part, block, i, n, sound)]

Header == Part("header", << >>, 2, TRUE)
Trailer == Part("trailer", << >>, 2, TRUE)
Other == Part("other", << >>, 1, TRUE)

\* Runs of one to three, of four and of four and more, at the end of the block and before it,
\* and a count that equals the byte of the run or the byte after it.
Short == << 0, 1, 1, 0, 0, 0 >>
Long == << 1, 1, 1, 1, 1, 1, 0, 0, 0, 0, 2 >>
Four == << 2, 0, 0, 0, 0, 0, 0 >>
NoCount == << 1, 0, 0, 0, 0 >>

MCStreams ==
    { Header \o Trailer,
      Header \o Part("block", Short, 2, TRUE) \o Part("block", Long, 1, TRUE) \o Trailer,
      Header \o Part("block", Four, 2, TRUE) \o Trailer \o Other,
      Header \o Part("block", Four, 2, FALSE) \o Trailer,
      Header \o Part("block", NoCount, 1, FALSE) \o Trailer,
      Header \o Part("block", Long, 2, TRUE) \o Part("trailer", << >>, 2, FALSE),
      Other \o Header,
      Header \o Part("block", Short, 2, TRUE) \o Other }
=============================================================================
