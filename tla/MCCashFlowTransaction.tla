----------------------- MODULE MCCashFlowTransaction -----------------------
(* Small instances of CashFlowTransaction for TLC.                         *)
EXTENDS CashFlowTransaction, TLC
CONSTANTS e1, e2
Symmetric == Permutations(Transfers)
=============================================================================
