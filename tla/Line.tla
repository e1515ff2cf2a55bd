-------------------------------- MODULE Line --------------------------------
(***************************************************************************)
(* A line of entries from which an entry can be struck out, wherever it    *)
(* stands.  Without is what SelectSeq computes, written as a recursive     *)
(* function so that LineProofs can reason about it.                        *)
(***************************************************************************)
EXTENDS Naturals, Sequences

\* What remains of each prefix of s when every x is struck out.
Kept(s, x) ==
  LET kept[i \in 0 .. Len(s)] ==
        IF i = 0 THEN <<>>
        ELSE IF s[i] = x THEN kept[i - 1] ELSE Append(kept[i - 1], s[i])
  IN  kept

\* s without x; the order of the others is as it was.
Without(s, x) == Kept(s, x)[Len(s)]
=============================================================================
