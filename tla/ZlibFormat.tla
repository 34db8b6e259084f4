----------------------------- MODULE ZlibFormat -----------------------------
(***************************************************************************)
(* What a zlib or gzip stream says (RFC 1950 to 1952).  Its bits are       *)
(* grouped into items, and a byte of the stream is the sequence of the     *)
(* items it completes: none, if the bits of an item go on in the next      *)
(* byte, or several, since a Huffman code can be shorter than a byte.      *)
(*                                                                         *)
(*   zlib, gzip   the header, of which kind                                *)
(*   dict         a zlib header that asks for a preset dictionary          *)
(*   stored       a block header; the n bytes that follow are the block    *)
(*   codes        a block header with its code tables                      *)
(*   raw          a byte of a stored block                                 *)
(*   lit, eob     a literal byte, the end of the block                     *)
(*   len, dist    a match: repeat n bytes, starting d bytes back           *)
(*   check        the check value: sum is the text it was computed of      *)
(*   length       the length of the text, in a gzip trailer                *)
(*   bad          bits that mean nothing where they stand                  *)
(***************************************************************************)
EXTENDS Integers, Sequences, SequencesExt

Item(k, n, last, sum) == [k |-> k, n |-> n, last |-> last, sum |-> sum]

Simple(k) == Item(k, 0, FALSE, << >>)
Lit(c) == Item("lit", c, FALSE, << >>)
RawByte(c) == Item("raw", c, FALSE, << >>)
Codes(last) == Item("codes", 0, last, << >>)
Stored(n, last) == Item("stored", n, last, << >>)
MatchLen(n) == Item("len", n, FALSE, << >>)
MatchDist(d) == Item("dist", d, FALSE, << >>)
Check(sum) == Item("check", 0, FALSE, sum)
Length(n) == Item("length", n, FALSE, << >>)

\* n bytes of which the first is the d-th last of the text, and so on: a match may overlap
\* the bytes it makes.
Repeat(text, n, d) == [i \in 1..n |-> text[Len(text) - d + 1 + ((i - 1) % d)]]

-----------------------------------------------------------------------------
(* The reference definition of a stream: what it says item by item, with   *)
(* the whole text before it at hand.  "at" is what has to come next.       *)

Start == [at |-> "head", text |-> << >>, n |-> 0, last |-> FALSE, gzip |-> FALSE]

BlockEnd(last) == IF last THEN "check" ELSE "block"

ParseItem(p, x) ==
    CASE p.at = "head" /\ x.k \in { "zlib", "gzip" } ->
             [p EXCEPT !.at = "block", !.gzip = (x.k = "gzip")]
      [] p.at = "head" /\ x.k = "dict" -> [p EXCEPT !.at = "dict"]
      [] p.at = "block" /\ x.k = "stored" ->
             [p EXCEPT !.at = IF x.n > 0 THEN "raw" ELSE BlockEnd(x.last),
                       !.n = x.n, !.last = x.last]
      [] p.at = "block" /\ x.k = "codes" -> [p EXCEPT !.at = "code", !.last = x.last]
      [] p.at = "raw" /\ x.k = "raw" ->
             [p EXCEPT !.at = IF p.n > 1 THEN "raw" ELSE BlockEnd(p.last),
                       !.n = @ - 1, !.text = Append(@, x.n)]
      [] p.at = "code" /\ x.k = "lit" -> [p EXCEPT !.text = Append(@, x.n)]
      [] p.at = "code" /\ x.k = "eob" -> [p EXCEPT !.at = BlockEnd(p.last)]
      [] p.at = "code" /\ x.k = "len" -> [p EXCEPT !.at = "dist", !.n = x.n]
      [] p.at = "dist" /\ x.k = "dist" /\ x.n <= Len(p.text) ->
             [p EXCEPT !.at = "code", !.text = @ \o Repeat(@, p.n, x.n)]
      [] p.at = "check" /\ x.k = "check" /\ x.sum = p.text ->
             [p EXCEPT !.at = IF p.gzip THEN "length" ELSE "end"]
      [] p.at = "length" /\ x.k = "length" /\ x.n = Len(p.text) -> [p EXCEPT !.at = "end"]
      [] p.at \in { "end", "dict" } -> p          \* what follows does not belong to it
      [] OTHER -> [p EXCEPT !.at = "bad"]

Parse(items) == FoldLeft(ParseItem, Start, items)

\* A stream that is whole, one that is damaged, and one that needs a preset dictionary.
Whole(z) == Parse(FlattenSeq(z)).at = "end"
Damaged(z) == Parse(FlattenSeq(z)).at = "bad"
NeedsDictionary(z) == Parse(FlattenSeq(z)).at = "dict"

TextOf(z) == Parse(FlattenSeq(z)).text
=============================================================================
