---------------------------- MODULE MCTableSync ----------------------------
(***************************************************************************)
(* TableSync for TLC: a chain in which ledger 2 creates the table, ledger  *)
(* 3 leaves it alone and ledger 4 touches it again.                        *)
(***************************************************************************)
EXTENDS TableSync, TLC

MCslices == [s \in Ledger |-> IF s \in {2, 4} THEN 2 ELSE 0]

=============================================================================
