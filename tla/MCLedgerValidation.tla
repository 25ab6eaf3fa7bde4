------------------------- MODULE MCLedgerValidation -------------------------
(* Instances of LedgerValidation for TLC.                                  *)
EXTENDS LedgerValidation, TLC

CONSTANTS v1, v2, a, b

Symmetry == Permutations(Validator) \cup Permutations(TxSet)
=============================================================================
