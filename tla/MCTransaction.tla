----------------------------- MODULE MCTransaction -----------------------------
(****************************************************************************)
(* TLC instances of Transaction.                                            *)
(****************************************************************************)
EXTENDS Transaction, TLC

CONSTANTS t1, t2, m1, m2

OneTask == {t1}
TwoTasks == {t1, t2}
OneModel == {m1}
TwoModels == {m1, m2}

TaskSymmetry == Permutations(Task)

\* Bounds of this instance alone: savepoints once calls have overlapped, and
\* contexts only as long as nothing has gone wrong.
MaxSavepointsOverlapping == 1

WithoutContext ==
    /\ context = NoContext
    /\ \A n \in DOMAIN savepoints : savepoints[n].context = NoContext

Bounded ==
    /\ "overlap" \in faults' => created' <= MaxSavepointsOverlapping
    /\ faults' # {} => WithoutContext'

BoundedSpec == Init /\ [][Next /\ Bounded]_vars

================================================================================
