------------------------------ MODULE MCLedger ------------------------------
(***************************************************************************)
(* Ledger, its audit and its double on small instances.                    *)
(***************************************************************************)
EXTENDS LedgerDouble, TLC

Symmetry == Permutations(Agents) \cup Permutations(EscrowIds) \cup Permutations(Threads)
=============================================================================
