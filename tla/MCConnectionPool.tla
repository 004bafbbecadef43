---------------------------- MODULE MCConnectionPool ---------------------------
(****************************************************************************)
(* TLC instances of ConnectionPool.                                         *)
(****************************************************************************)
EXTENDS ConnectionPool, TLC

CONSTANTS u1, u2

OneUser == {u1}
TwoUsers == {u1, u2}

\* Bound of this instance alone: while the breaker counts failures, only the
\* cleanup makes the last connection.
Affordable == breaker.failure_count = 0 \/ CanCreate(1)

BoundedNext ==
    \/ Maintenance
    \/ Next /\ Affordable'

BoundedSpec == Init /\ [][BoundedNext]_vars /\ WF_vars(Maintenance)

================================================================================
