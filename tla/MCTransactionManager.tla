------------------------- MODULE MCTransactionManager --------------------------
(****************************************************************************)
(* TLC instances of TransactionManager.                                     *)
(****************************************************************************)
EXTENDS TransactionManager, TLC

CONSTANTS t1, t2

OneTask == {t1}
TwoTasks == {t1, t2}

TaskSymmetry == Permutations(Task)

================================================================================
