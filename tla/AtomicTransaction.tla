--------------------------- MODULE AtomicTransaction ---------------------------
(****************************************************************************)
(* What a transaction promises its user, whatever the number of calls it    *)
(* takes: the operations in force in Odoo are those of the log while it is  *)
(* committed, and none once it is rolled back; while it is active they are  *)
(* undone only from the newest back, and the log is cut only behind them.   *)
(****************************************************************************)
EXTENDS Naturals, Sequences

VARIABLES
    outcome,    \* "active", "committed" or "rolled_back"
    made,       \* number of operations carried out so far
    log,        \* the operations the transaction answers for, oldest first
    inForce,    \* the operations whose effect stands in Odoo
    excused     \* has something happened that the promise does not cover?

avars == <<outcome, made, log, inForce, excused>>

Logged == {log[n] : n \in DOMAIN log}

Begin ==
    /\ outcome = "active"
    /\ made = 0
    /\ log = <<>>
    /\ inForce = {}
    /\ ~excused

CarryOut ==
    /\ outcome = "active"
    /\ inForce = Logged
    /\ made' = made + 1
    /\ log' = Append(log, made')
    /\ inForce' = inForce \cup {made'}
    /\ UNCHANGED outcome

\* The newest operation in force is undone; with it the log may be cut to a
\* prefix that is all in force, or the transaction end with nothing in force.
Undo ==
    /\ outcome = "active"
    /\ \E i \in inForce :
          /\ \A j \in inForce : j <= i
          /\ inForce' = inForce \ {i}
    /\ \/ UNCHANGED <<outcome, log>>
       \/ \E n \in 0..Len(log) :
             /\ log' = SubSeq(log, 1, n)
             /\ inForce' = {log[k] : k \in 1..n}
             /\ UNCHANGED outcome
       \/ inForce' = {} /\ log' = <<>> /\ outcome' = "rolled_back"
    /\ UNCHANGED made

End ==
    /\ outcome = "active"
    /\ \/ inForce = Logged /\ outcome' = "committed" /\ UNCHANGED log
       \/ log = <<>> /\ outcome' = "rolled_back" /\ UNCHANGED log
    /\ UNCHANGED <<made, inForce>>

Progress == CarryOut \/ Undo \/ End

\* Once excused, the transaction may do anything.
Next == excused' \/ (~excused /\ ~excused' /\ Progress)

AtomicSpec == Begin /\ [][Next]_avars

================================================================================
