---------------------------- MODULE Bzip2Format ----------------------------
(***************************************************************************)
(* The run length coding in front of a bzip2 block, and what a compressed  *)
(* stream says.  A byte of compressed data is abstracted to the part of    *)
(* the stream it belongs to and its place in it; sorting, move to front    *)
(* and Huffman coding decide only how many bytes there are.  (A part may   *)
(* begin inside a byte: that byte counts for the part that ends in it.)    *)
(***************************************************************************)
EXTENDS Integers, Sequences, SequencesExt

\* Seeded fault: the count of the rest is one too high.
EncodedRunMiscounted(ch, n) ==
    IF n < 4 THEN [i \in 1..n |-> ch] ELSE << ch, ch, ch, ch, n - 3 >>

\* A run of n equal bytes as add_pair_to_block puts it into a block: up to three as they
\* are, more as four and a count of the rest.
EncodedRun(ch, n) ==
    IF n < 4 THEN [i \in 1..n |-> ch] ELSE << ch, ch, ch, ch, n - 4 >>

\* Reading a block: after four equal bytes (n = 4) the next one is a count.
ReadRuns(block) ==
    FoldLeft(LAMBDA acc, b :
                 IF acc.n = 4
                 THEN [text |-> acc.text \o [i \in 1..b |-> acc.ch], ch |-> -1, n |-> 0]
                 ELSE [text |-> Append(acc.text, b),
                       ch   |-> b,
                       n    |-> IF b = acc.ch THEN acc.n + 1 ELSE 1],
             [text |-> << >>, ch |-> -1, n |-> 0],
             block)

\* The text a block stands for; no compressor makes a block whose last count is missing.
UnRLE(block) == ReadRuns(block).text

CountMissing(block) == ReadRuns(block).n = 4

\* A byte of compressed data: the i-th of the n bytes of the stream header, of this block or
\* of the trailer; sound if the checksum stored there is that of the data.
Byte(part, block, i, n, sound) ==
    [part |-> part, block |-> block, pos |-> i, of |-> n, sound |-> sound]

IsLast(b) == b.pos = b.of

\* The texts of the blocks that end in z, one after the other.
TextOf(z) ==
    FlattenSeq([i \in 1..Len(z) |->
                   IF z[i].part = "block" /\ IsLast(z[i]) THEN UnRLE(z[i].block) ELSE << >>])

\* The byte c may follow the byte b.
Follows(b, c) ==
    IF ~IsLast(b) THEN c = [b EXCEPT !.pos = @ + 1]
                  ELSE b.part # "trailer" /\ c.part # "header" /\ c.pos = 1

\* z is the beginning of a stream: the header, one block after the other, and the trailer,
\* each from its first byte to its last one, with the right checksums.
StreamPrefix(z) ==
    /\ \A i \in 1..Len(z) : z[i].sound /\ z[i].part \in { "header", "block", "trailer" }
    /\ z # << >> => z[1].part = "header" /\ z[1].pos = 1
    /\ \A i \in 1..(Len(z) - 1) : Follows(z[i], z[i + 1])

WholeStream(z) ==
    StreamPrefix(z) /\ z # << >> /\ Last(z).part = "trailer" /\ IsLast(Last(z))
=============================================================================
