----------------------- MODULE MCBankReconciliation -----------------------
(* Two bank rows of two statements that compete for the ledger's           *)
(* transactions: the first fits both, the second only one.                 *)
EXTENDS BankReconciliation, TLC

CONSTANTS r1, r2, b1, b2, t1, t2

MCBatchOf  == (r1 :> b1 @@ r2 :> b2)
MCFits     == {<<r1, t1>>, <<r1, t2>>, <<r2, t1>>}

Symmetry == Permutations(Workers)
=============================================================================
