------------------------------- MODULE Filter -------------------------------
(* SelectSeq as a fold, which proofs can take apart; it is the filter of   *)
(* Rust's iterators and the WHERE of a query.                              *)
EXTENDS Sequences, SequencesExt

\* The elements of seq that are in T, in their order.
Kept(seq, T) ==
    FoldLeft(LAMBDA kept, x : IF x \in T THEN Append(kept, x) ELSE kept, <<>>, seq)
=============================================================================
