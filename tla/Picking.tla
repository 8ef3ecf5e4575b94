------------------------------- MODULE Picking -------------------------------
(***************************************************************************)
(* Dropping elements of a sequence: what Vec::retain and filter do.        *)
(***************************************************************************)
EXTENDS Integers, Sequences

\* The elements of seq at the given positions, in their order.  A
\* recursive function rather than SelectSeq, so that proofs can reach inside it; the
\* first case spares TLC the walk.
Picked(seq, positions) ==
  LET upTo[n \in 0 .. Len(seq)] ==
        IF n = 0 THEN <<>>
        ELSE IF n \in positions THEN Append(upTo[n - 1], seq[n])
        ELSE upTo[n - 1]
  IN  IF DOMAIN seq \subseteq positions THEN seq ELSE upTo[Len(seq)]
=============================================================================
