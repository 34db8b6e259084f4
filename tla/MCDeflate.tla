----------------------------- MODULE MCDeflate -----------------------------
(***************************************************************************)
(* Deflate for TLC: texts over two letters, longer than the window, whose  *)
(* matches overlap, get better a byte later, and stop being reachable.     *)
(***************************************************************************)
EXTENDS Deflate

MCTexts ==
    { << >>,
      << 0, 1, 1, 0, 0, 1, 1, 1, 0, 1, 1, 0, 0, 0, 0, 0, 1, 1, 0, 1, 1, 1, 1, 0,
         0, 1, 1, 0, 0, 1, 0, 1, 1, 1 >> }

\* Two bits, as many as a key of MCDeflate.cfg has.
MCXor(a, b) ==
    LET bit(p) == ((a \div p) + (b \div p)) % 2
    IN  bit(1) + 2 * bit(2)

MCConfig ==
    LET row(n, f) == [good |-> n, lazy |-> n, nice |-> n, chain |-> n, func |-> f]
    IN  [l \in { 0, 1, 6 } |-> IF l = 0 THEN row(0, "stored")
                               ELSE IF l = 1 THEN row(4, "fast") ELSE row(4, "slow")]
=============================================================================
