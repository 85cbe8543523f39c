--------------------------- MODULE MCPositionBook ---------------------------
(* PositionBook on small instances. *)
EXTENDS PositionBook, TLC

CONSTANTS t1, r1, r2

MCOneToken == {t1}
MCTwoRequests == {r1, r2}
\* Bound: what follows the first stale report is not explored.
UntilRaced == ~raced

Symmetry == Permutations(MCTwoRequests)
=============================================================================
