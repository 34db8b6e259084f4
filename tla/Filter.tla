------------------------------- MODULE Filter -------------------------------
(***************************************************************************)
(* What README.md (lines 65-84) promises of every filter object of         *)
(* ltn12ce: the input is handed over in chunks of any size by update(),    *)
(* finish() ends it, and the concatenation of everything the calls         *)
(* returned is the entire output for the entire input.                     *)
(*                                                                         *)
(* The contract does not say what the output is: that is the parameter     *)
(* Complete.  A filter whose finish() may refuse the input (a decipher     *)
(* given half a block) says when through the parameter Refusable.          *)
(***************************************************************************)
EXTENDS Naturals, Sequences

CONSTANTS
    Complete(_, _, _),  \* Complete(s, i, o): o is an entire output for the input i under setup s
    Refusable(_, _)     \* Refusable(s, i): under setup s, finish() may raise an error on the input i

VARIABLES
    setup,  \* what the object was set up with: operation, key, initialisation vector, level
    fed,    \* the chunks update() was given since then, concatenated
    out,    \* the strings the calls returned since then, concatenated
    stage   \* "open": in the middle of a stream;  "finished": finish() returned;
            \* "refused": it raised an error;  "stale": outside the protocol

contract == << setup, fed, out, stage >>

\* The sequence t goes on where s ends.  (Written out because every instance of
\* this module would take the definitions of SequencesExt along.)
IsPrefix(s, t) == Len(s) <= Len(t) /\ SubSeq(s, 1, Len(s)) = SubSeq(t, 1, Len(s))

FInit == stage = "stale" /\ fed = << >> /\ out = << >>

\* A (re)initialised object starts a stream with an empty input and no output.
Begin ==
    /\ stage' = "open"
    /\ fed' = << >>
    /\ out' = << >>

\* update() takes one more chunk; what it returns is never taken back.
Update ==
    /\ stage = "open" /\ stage' = "open"
    /\ setup' = setup
    /\ IsPrefix(fed, fed')
    /\ IsPrefix(out, out')

\* finish() returns the leftover: with it the output is the entire output.
Finish ==
    /\ stage = "open" /\ stage' = "finished"
    /\ setup' = setup
    /\ fed' = fed
    /\ IsPrefix(out, out')
    /\ Complete(setup, fed, out')

\* finish() raises an error, which it may do only on inputs that have no output.
Refuse ==
    /\ stage = "open" /\ stage' = "refused"
    /\ UNCHANGED << setup, fed, out >>
    /\ Refusable(setup, fed)

\* The caller gives the stream up: a new key in the middle of it, or an error.
Abandon == stage = "open" /\ stage' = "stale"

\* Outside a stream nothing is promised until the object is set up again.
Outside == stage # "open" /\ stage' # "open"

FNext == Begin \/ Update \/ Finish \/ Refuse \/ Abandon \/ Outside

FSpec == FInit /\ [][FNext]_contract
=============================================================================
