------------------------------ MODULE MCTxPool ------------------------------
(***************************************************************************)
(* TxPool for TLC.  t1 and t2 compete for one slot (one account and        *)
(* sequence).                                                              *)
(***************************************************************************)
EXTENDS TxPool, TLC

CONSTANTS t1, t2

MCslotOf == t1 :> 1 @@ t2 :> 1
MClastLedgerSeq == t1 :> 1 @@ t2 :> 0
=============================================================================
