------------------------------ MODULE XzFormat ------------------------------
(***************************************************************************)
(* What a .xz stream, or one of the older LZMA_Alone format, says.  As in  *)
(* ZlibFormat, a byte of the stream is the sequence of the items it        *)
(* completes: none, if the bits of an item go on in the next byte.         *)
(*                                                                         *)
(*   header       the stream header: n is the kind of check value, 0 none  *)
(*   filter       a filter in front of LZMA2: n is its ID, m its option    *)
(*   block        a block header, behind its filters: n and m are the      *)
(*                uncompressed and the compressed size, if it tells them   *)
(*   lzma, raw    the control byte of an LZMA2 chunk: n says how much is   *)
(*                reset before it: see None to Dictionary                  *)
(*   sizes        the uncompressed and the compressed size of the chunk    *)
(*   rc           the first bytes of the range coder                       *)
(*   lit          a literal byte                                           *)
(*   match        a match: repeat n bytes, starting m bytes back           *)
(*   rep          a match at the distance of one of the last four          *)
(*   flush        the last bits of the range coder                         *)
(*   eopm         the end marker of LZMA_Alone                             *)
(*   byte         a byte of an uncompressed chunk                          *)
(*   end, pad     the end of the chunks, a byte of padding                 *)
(*   check        the check value: sum is the text it was computed of      *)
(*   index        the index: n blocks                                      *)
(*   record       the compressed and the uncompressed size of a block      *)
(*   crc          the end of the index                                     *)
(*   footer       the stream footer: the kind of check value, and the size *)
(*                of the index, which is that of m records                 *)
(*   alone        the header of LZMA_Alone: n is the size of the text      *)
(*   bad          bytes that mean nothing where they stand                 *)
(***************************************************************************)
EXTENDS BlockFilters

CONSTANTS
    DictSize,       \* the size of the dictionary
    Align           \* 4: a block is padded to a multiple of it

Unknown == -1

\* What a chunk resets.
None == 0
State == 1
Properties == 2
Dictionary == 3

Item(k, n, m, sum) == [k |-> k, n |-> n, m |-> m, sum |-> sum]

Simple(k) == Item(k, 0, 0, << >>)
Lit(x) == Item("lit", x, 0, << >>)
RawByte(x) == Item("byte", x, 0, << >>)
Check(sum) == Item("check", 0, 0, sum)
Pair(k, n, m) == Item(k, n, m, << >>)

\* n bytes of which the first is the d-th last of the text, and so on.
Repeat(text, n, d) == [i \in 1..n |-> text[Len(text) - d + 1 + ((i - 1) % d)]]

\* The i-th of the last four distances becomes the first.
Recall(reps, i) == << reps[i] >> \o RemoveAt(reps, i)

\* A new distance: the last but three is forgotten.
Learn(reps, d) == << d >> \o SubSeq(reps, 1, 3)

FreshReps == << 1, 1, 1, 1 >>

\* The kinds of check value that are computed: CRC32, CRC64 and SHA-256.  Whatever another kind
\* than these and none says, it cannot be verified.
Verified == { 1, 4, 10 }

-----------------------------------------------------------------------------
(* The reference definition of a stream, with the whole text before each   *)
(* item at hand.  "at" is what has to come next.                           *)

Start ==
    [at |-> "head", kind |-> 0, alone |-> FALSE, text |-> << >>,
     base |-> 0,            \* where the dictionary begins in the text
     first |-> 0,           \* where the block begins in the text
     filters |-> << >>,     \* what the block header says so far
     chain |-> << >>,       \* the filters of the block
     plain |-> << >>,       \* the text of the blocks before it, with the filters undone
     bytes |-> 0,           \* compressed size of the block so far
     sizes |-> << >>,       \* what the block header says
     lacks |-> Dictionary,  \* what the next LZMA chunk has to reset at least
     raw |-> FALSE, n |-> 0, m |-> 0,       \* the chunk: what is left of it
     reps |-> FreshReps,
     blocks |-> << >>, records |-> 0]       \* the sizes of the blocks, records compared

Reach(p) == LET n == Len(p.text) - p.base IN IF n < DictSize THEN n ELSE DictSize

Bad(p) == [p EXCEPT !.at = "bad"]

Put(p, s) ==
    IF p.n # Unknown /\ Len(s) > p.n THEN Bad(p)
    ELSE [p EXCEPT !.text = @ \o s, !.n = IF @ = Unknown THEN @ ELSE @ - Len(s)]

Copy(p, n, d) == IF d > Reach(p) THEN Bad(p) ELSE Put(p, Repeat(p.text, n, d))

Told(size, told) == told = Unknown \/ told = size

\* What the stream says: the filters are undone block by block.
BlockText(p) == Unfiltered(p.chain, SubSeq(p.text, p.first + 1, Len(p.text)))
Plain(p) == p.plain \o BlockText(p)

BlockBegins(p, x) ==
    [p EXCEPT !.at = IF ValidChain(p.filters) THEN "control" ELSE "bad",
              !.filters = << >>, !.chain = p.filters, !.plain = Plain(p),
              !.sizes = << x.n, x.m >>, !.first = Len(p.text),
              !.base = Len(p.text), !.bytes = 0, !.lacks = Dictionary]

BlockEnds(p) ==
    LET pair == << p.bytes, Len(p.text) - p.first >>
    IN  IF Told(pair[1], p.sizes[2]) /\ Told(pair[2], p.sizes[1])
        THEN [p EXCEPT !.at = "pad", !.blocks = Append(@, pair)]
        ELSE Bad(p)

\* Behind the last chunk: is there padding, a check value?
AfterBlock(p) ==
    IF p.at = "pad" /\ p.bytes % Align = 0
    THEN [p EXCEPT !.at = IF p.kind = 0 THEN "block" ELSE "check"] ELSE p

Symbol(p, x) ==
    CASE x.k = "lit" -> Put(p, << x.n >>)
      [] x.k = "match" -> Copy([p EXCEPT !.reps = Learn(@, x.m)], x.n, x.m)
      [] x.k = "rep" -> Copy([p EXCEPT !.reps = Recall(@, x.m)], x.n, p.reps[x.m])
      [] x.k = "flush" /\ p.n = 0 /\ (p.alone \/ p.m = 0) ->
             [p EXCEPT !.at = IF p.alone THEN "end" ELSE "control"]
      [] x.k = "eopm" /\ p.n = Unknown -> [p EXCEPT !.at = "end"]
      [] OTHER -> Bad(p)

ControlByte(p, x) ==
    CASE x.k = "end" -> BlockEnds(p)
      [] x.k \in { "lzma", "raw" } ->
             IF (x.k = "lzma" /\ x.n < p.lacks) \/ (p.lacks = Dictionary /\ x.n < Dictionary)
             THEN Bad(p)
             ELSE [p EXCEPT !.at = "sizes", !.raw = (x.k = "raw"),
                            !.lacks = IF x.k = "lzma" THEN None
                                      ELSE IF x.n = Dictionary THEN Properties ELSE @,
                            !.reps = IF x.k = "lzma" /\ x.n >= State THEN FreshReps ELSE @,
                            !.base = IF x.n = Dictionary THEN Len(p.text) ELSE @]
      [] OTHER -> Bad(p)

ParseItem(p, x) ==
    CASE p.at = "head" /\ x.k = "header" -> [p EXCEPT !.at = "block", !.kind = x.n]
      [] p.at = "head" /\ x.k = "alone" -> [p EXCEPT !.at = "rc", !.alone = TRUE, !.n = x.n]
      [] p.at = "block" /\ x.k = "filter" ->
             [p EXCEPT !.filters = Append(@, [n |-> x.n, m |-> x.m])]
      [] p.at = "block" /\ x.k = "block" -> BlockBegins(p, x)
      [] p.at = "block" /\ x.k = "index" /\ x.n = Len(p.blocks) ->
             [p EXCEPT !.at = IF x.n = 0 THEN "crc" ELSE "record"]
      [] p.at = "control" -> ControlByte(p, x)
      [] p.at = "sizes" /\ x.k = "sizes" ->
             [p EXCEPT !.at = IF p.raw THEN "byte" ELSE "rc", !.n = x.n, !.m = x.m]
      [] p.at = "rc" /\ x.k = "rc" -> [p EXCEPT !.at = "symbol"]
      [] p.at = "symbol" -> Symbol(p, x)
      [] p.at = "byte" /\ x.k = "byte" ->
             LET q == Put(p, << x.n >>) IN [q EXCEPT !.at = IF q.n = 0 THEN "control" ELSE @]
      [] p.at = "pad" /\ x.k = "pad" -> p
      [] p.at = "check" /\ (p.kind \in Verified => x.k = "check" /\ x.sum = BlockText(p)) ->
             [p EXCEPT !.at = "block"]
      [] p.at = "record" /\ x.k = "record" /\ << x.n, x.m >> = p.blocks[p.records + 1] ->
             [p EXCEPT !.at = IF p.records + 1 = Len(p.blocks) THEN "crc" ELSE @,
                       !.records = @ + 1]
      [] p.at = "crc" /\ x.k = "crc" -> [p EXCEPT !.at = "footer"]
      [] p.at = "footer" /\ x.k = "footer" /\ x.n = p.kind /\ x.m = Len(p.blocks) ->
             [p EXCEPT !.at = "end"]
      [] p.at = "end" -> p                  \* what follows does not belong to it
      [] OTHER -> Bad(p)

\* A byte of a chunk counts for the chunk and for the block before its items are looked at; the
\* chunk may not be longer than it says.
ParseByte(p, b) ==
    LET q == [p EXCEPT !.bytes = @ + 1, !.m = IF p.at \in { "rc", "symbol" } THEN @ - 1 ELSE @]
    IN  IF q.m < 0 /\ ~p.alone THEN Bad(q) ELSE AfterBlock(FoldLeft(ParseItem, q, b))

Parse(z) == FoldLeft(ParseByte, Start, z)

Whole(z) == Parse(z).at = "end"
Damaged(z) == Parse(z).at = "bad"
TextOf(z) == Plain(Parse(z))
=============================================================================
