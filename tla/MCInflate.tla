----------------------------- MODULE MCInflate -----------------------------
(***************************************************************************)
(* Inflate for TLC: streams of stored and coded blocks, with matches that  *)
(* overlap themselves, reach to the far end of the window and beyond it,   *)
(* whole, damaged, and with bytes behind them.                             *)
(***************************************************************************)
EXTENDS Inflate

\* A header takes two bytes, a trailer field two: an item is complete with its last byte.
Wide(item) == << << >>, << item >> >>

Match_(n, d) == << MatchLen(n), MatchDist(d) >>

\* Codes shorter than a byte, and longer.
Coded ==
    << << Codes(TRUE), Lit(1), Lit(2) >>, Match_(3, 2), << Lit(3) >>, << >>, << MatchLen(3) >>,
       << MatchDist(4), MatchLen(2) >>, << MatchDist(4), Lit(2) >>, << Simple("eob") >> >>

CodedText == << 1, 2, 1, 2, 1, 3, 1, 2, 1, 3, 1, 2 >>

\* A stored block, then one match that runs through the window's end.
StoredBlock == Wide(Stored(2, FALSE)) \o << << RawByte(2) >>, << RawByte(1) >> >>
Closing == << << Codes(TRUE) >>, Match_(3, 4), << Simple("eob") >> >>
StoredText == << 2, 1 >>

\* The text is right only if the data check finds what it covers.
Zlib(body, text) == Wide(Simple("zlib")) \o body \o Wide(Check(text))
Gzip(body, text) == Wide(Simple("gzip")) \o body \o Wide(Check(text)) \o Wide(Length(Len(text)))

Empty == << << Codes(TRUE), Simple("eob") >> >>

MCStreams ==
    { Zlib(Coded, CodedText),
      Gzip(StoredBlock \o << << Codes(TRUE), Lit(3), Lit(1), Lit(2) >> >> \o Tail(Closing),
           << 2, 1, 3, 1, 2, 1, 3, 1 >>),
      Zlib(Empty, << >>) \o << << Simple("bad") >> >>,
      Gzip(StoredBlock \o Empty, << 2, 2 >>),
      Wide(Simple("gzip")) \o StoredBlock \o Empty \o Wide(Check(StoredText)) \o Wide(Length(1)),
      Wide(Simple("zlib")) \o StoredBlock \o Closing,
      Wide(Simple("dict")) \o Empty,
      Wide(Simple("zlib")) \o << << Codes(TRUE), Lit(1) >>, << Simple("bad"), Lit(1) >>, << >> >>,
      Wide(Simple("zlib")) \o << << Codes(TRUE), MatchLen(2) >>, << Lit(1), Lit(1) >>, << >> >>,
      Wide(Simple("zlib")) \o << << Codes(TRUE), Lit(1) >>, Match_(2, 3), << Lit(1) >> >>,
      << << Simple("bad") >> >> }
=============================================================================
