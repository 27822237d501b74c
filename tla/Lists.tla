------------------------------- MODULE Lists -------------------------------
(***************************************************************************)
(* List comprehensions and sums over lists, as folds.                      *)
(***************************************************************************)
EXTENDS Integers, SequencesExt

\* The elements of a list that are in a set, in their order.
Kept(list, good) ==
    FoldLeft(LAMBDA kept, x : IF x \in good THEN Append(kept, x) ELSE kept, <<>>, list)

\* What the texts of sections, or of chunks, add up to.
SizeOf(list) == FoldLeft(LAMBDA size, x : size + x.text.size, 0, list)
=============================================================================
