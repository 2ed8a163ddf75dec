------------------------------- MODULE Selection -------------------------------
(***************************************************************************)
(* What is taken of a sequence and in its order, as the filters of the     *)
(* program do: a recursive function, for the proofs.                       *)
(***************************************************************************)
EXTENDS Naturals, Sequences

\* The elements at some places.
Chosen(seq, places) ==
  LET chosen[n \in 0..Len(seq)] ==
        IF n = 0 THEN <<>> ELSE IF n \in places THEN Append(chosen[n - 1], seq[n]) ELSE chosen[n - 1]
  IN chosen[Len(seq)]
=============================================================================
