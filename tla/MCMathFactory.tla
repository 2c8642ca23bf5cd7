--------------------------- MODULE MCMathFactory ---------------------------
(***************************************************************************)
(* MathFactory with two places and short loops.                            *)
(***************************************************************************)
EXTENDS MathFactory

Symmetry == Permutations(Places)
=============================================================================
