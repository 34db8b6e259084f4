----------------------------- MODULE MCXzDecode -----------------------------
(***************************************************************************)
(* XzDecode for TLC: streams of compressed and uncompressed chunks, of one *)
(* and two blocks, and the older format, with matches that overlap         *)
(* themselves and reach to the far end of the dictionary and beyond it,    *)
(* whole, damaged, cut off, and with bytes behind them; blocks with other  *)
(* filters in front of LZMA2, and check values nobody can verify.          *)
(***************************************************************************)
EXTENDS XzDecode

\* A field of two bytes is complete with its second one.
Wide(item) == << << >>, << item >> >>
Byte(item) == << << item >> >>

Match_(n, d) == Pair("match", n, d)
Flush == Simple("flush")

\* A chunk of LZMA data, or of bytes as they are: what it resets, the size of its text, its bytes
Lzma(reset, n, data) ==
    Byte(Pair("lzma", reset, 0)) \o Wide(Pair("sizes", n, Len(data) + 1)) \o Byte(Simple("rc")) \o data

Raw(reset, s) ==
    Byte(Pair("raw", reset, 0)) \o Byte(Pair("sizes", Len(s), Len(s)))
        \o [i \in 1..Len(s) |-> << RawByte(s[i]) >>]

\* A block of these chunks, with its padding; its size and that of its text for the index
Chunked(chunks) == chunks \o Byte(Simple("end"))
Padded(body) == body \o [i \in 1..((Align - (Len(body) % Align)) % Align) |-> << Simple("pad") >>]
Block(told, body) == Byte(Pair("block", told[1], told[2])) \o Padded(body)
Ends(kind, pairs) ==
    Byte(Pair("index", Len(pairs), 0))
        \o [i \in 1..Len(pairs) |-> << Pair("record", pairs[i][1], pairs[i][2]) >>]
        \o Byte(Simple("crc")) \o Byte(Pair("footer", kind, Len(pairs)))

NotTold == << Unknown, Unknown >>
Header(kind) == Wide(Pair("header", kind, 0))

\* Two chunks of one dictionary: literals, a match that overlaps itself, one over the end of
\* the dictionary, a repeated one; then bytes as they are, and a chunk behind them.
BodyA == Chunked(Lzma(Dictionary, 7, << << Lit(1), Lit(2) >>, << Match_(4, 2) >>,
                                        << Pair("rep", 1, 1), Flush >> >>)
                 \o Raw(None, << 3 >>)
                 \o Lzma(None, 5, << << Match_(3, 4) >>, << Pair("rep", 2, 2) >>, << Flush >> >>))
TextA == << 1, 2, 1, 2, 1, 2, 1, 3, 1, 2, 1, 2, 1 >>

\* The dictionary is reset in the middle, and an empty block follows.
BodyB == Chunked(Raw(Dictionary, << 2, 1 >>) \o Lzma(Properties, 2, << << Lit(3), Lit(1), Flush >> >>)
                 \o Raw(Dictionary, << 1 >>) \o Lzma(Properties, 2, << << Match_(2, 1), Flush >> >>))
BodyE == Chunked(<< >>)

\* A match beyond the reset; a match longer than its chunk; a chunk without properties.
BodyF == Chunked(Raw(Dictionary, << 2, 1 >>) \o Lzma(Dictionary, 3, << << Lit(3), Match_(2, 2), Flush >> >>))
BodyM == Chunked(Lzma(Dictionary, 2, << << Lit(3), Match_(2, 1), Flush >> >>))
BodyP == Chunked(Raw(Dictionary, << 2 >>) \o Lzma(State, 1, << << Lit(3), Flush >> >>))
BodyT == Chunked(Byte(Pair("lzma", Dictionary, 0)) \o Wide(Pair("sizes", 2, 1))
                 \o << << Simple("rc") >>, << Lit(3), Lit(1) >>, << Flush >> >>)
BodyR == Chunked(Raw(Dictionary, << 3 >>))
BodyS == Chunked(Lzma(Dictionary, 1, << << Lit(3), Flush >>, << Simple("bad") >> >>))

One(kind, body, text, told) ==
    Header(kind) \o Block(told, body) \o (IF kind = 0 THEN << >> ELSE Wide(Check(text)))

\* Machine code: calls for ARM, and for ARM-Thumb, where two pairs overlap; a match that does
\* not fit what room there is; an odd byte at the end.  The texts are written out.
UseArm(n) == Pair("filter", Arm, n)
UseThumb(n) == Pair("filter", ArmThumb, n)
UseDelta(n) == Pair("filter", Delta, n)

BodyC == Chunked(Raw(Dictionary, << 1, 7, 2 >>)
                 \o Lzma(Properties, 6, << << Lit(7) >>, << Match_(5, 2), Flush >> >>))
TextArm == << 7, 7, 7, 7, 6, 7, 5, 7, 2 >>
BodyD(n) == Chunked(Lzma(Dictionary, 4 + n, << << Lit(4), Lit(5), Lit(7), Lit(1) >>,
                                               << Match_(n, 3), Flush >> >>))

FilterBlock(kind, filters, body, text) ==
    << Append(filters, Pair("block", Unknown, Unknown)) >> \o Padded(body)
        \o (IF kind = 0 THEN << >> ELSE Wide(Check(text)))
FilterStream(kind, filters, body, text) ==
    Header(kind) \o FilterBlock(kind, filters, body, text) \o Ends(kind, << << Len(body), Len(text) >> >>)

FilterStreams ==
    { FilterStream(1, << UseArm(0) >>, BodyC, TextArm),
      FilterStream(1, << UseThumb(0) >>, BodyD(4), << 4, 4, 6, 1, 4, 7, 1, 5 >>),
      FilterStream(4, << UseArm(2), UseThumb(0) >>, BodyD(13),
                   << 4, 4, 6, 1, 7, 7, 1, 5, 6, 1, 5, 7, 1, 4, 6, 1, 5 >>),
      FilterStream(10, << UseThumb(0), UseDelta(1), UseArm(0) >>, BodyC,
                   << 7, 6, 5, 4, 2, 1, 6, 5, 6 >>),
      Header(0) \o FilterBlock(0, << UseDelta(2) >>, BodyD(4), << >>)
          \o FilterBlock(0, << UseDelta(1), UseArm(0) >>, BodyC, << >>)
          \o Ends(0, << << Len(BodyD(4)), 8 >>, << Len(BodyC), 9 >> >>),
      FilterStream(1, << UseArm(2) >>, BodyC, TextArm),
      FilterStream(1, << UseArm(1) >>, BodyE, << >>),
      FilterStream(1, << UseDelta(1), Pair("filter", 9, 0) >>, BodyE, << >>) }

MCStreams ==
    { One(1, BodyA, TextA, NotTold) \o Ends(1, << << Len(BodyA), 13 >> >>),
      One(0, BodyB, << >>, << 7, Len(BodyB) >>) \o Block(NotTold, BodyE)
          \o Ends(0, << << Len(BodyB), 7 >>, << 1, 0 >> >>) \o Byte(Simple("bad")),
      Header(1) \o Ends(1, << >>),
      One(1, BodyE, << 1 >>, NotTold),
      One(0, BodyM, << >>, NotTold), One(0, BodyP, << >>, NotTold), One(0, BodyS, << >>, NotTold),
      One(0, BodyF, << >>, NotTold),
      One(0, BodyE, << >>, << 1, Unknown >>),
      One(0, BodyE, << >>, NotTold) \o Ends(0, << << 2, 0 >> >>),
      One(0, BodyE, << >>, NotTold) \o Block(NotTold, BodyE) \o Ends(0, << << 1, 0 >> >>),
      Header(1) \o Byte(Pair("index", 0, 0)) \o Byte(Simple("crc")) \o Byte(Pair("footer", 0, 0)),
      Byte(Pair("alone", 5, 0)) \o << << Simple("rc") >>, << Lit(1), Match_(4, 1) >>, << Flush >> >>,
      Byte(Pair("alone", Unknown, 0))
          \o << << Simple("rc") >>, << Lit(1), Lit(2), Lit(3), Lit(4) >>, << Match_(5, 3) >>,
                << Lit(2), Simple("eopm") >> >>,
      Byte(Pair("alone", 1, 0)) \o << << Simple("rc") >>, << Simple("eopm") >> >>,
      Byte(Pair("alone", 1, 0)) \o << << Simple("rc") >>, << Lit(1) >>, << Lit(1) >> >>,
      Byte(Pair("alone", Unknown, 0)) \o << << Simple("rc") >>, << Pair("rep", 2, 1) >> >>,
      Byte(Simple("bad")),
      One(0, BodyT, << >>, NotTold),
      One(2, BodyR, << >>, NotTold) \o Ends(2, << << Len(BodyR), 1 >> >>) }
    \cup FilterStreams

MCStaleChunks == { << >>, Byte(Simple("end")) }
=============================================================================
