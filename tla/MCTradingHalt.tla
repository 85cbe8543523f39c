--------------------------- MODULE MCTradingHalt ----------------------------
(* TradingHalt on small instances. *)
EXTENDS TradingHalt, TLC

CONSTANTS r1, r2

MCEdges == {-1, 1}
MCBigLoss == {-2, 1}
MCTwoRequests == {r1, r2}
MCOneRequest == {r1}
Symmetry == Permutations(MCTwoRequests)
=============================================================================
