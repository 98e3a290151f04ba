------------------------------ MODULE MCLedger ------------------------------
(* Small databases for TLC. *)
EXTENDS LedgerProperties, TLC

Symmetry == Permutations(Handler)
=============================================================================
