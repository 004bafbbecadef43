-------------------------- MODULE TransactionManager ---------------------------
(****************************************************************************)
(* The TransactionManager of zenoo_rpc (transaction/manager.py) and the     *)
(* async with blocks that tasks open on it (transaction/context.py):        *)
(* nesting through the one shared current_transaction, commit and rollback  *)
(* over the tree of children, and what leaving a block does.                *)
(*                                                                          *)
(* The event loop runs one task until it awaits.  running is the task that  *)
(* is between two awaits; while it is, no other task moves.  How the        *)
(* operations of one transaction are undone one by one is the business of   *)
(* module Transaction; here they are undone in one awaited step.            *)
(****************************************************************************)
EXTENDS Naturals, Sequences, FiniteSets, SequencesExt

CONSTANTS
    Task,         \* asyncio tasks using the manager
    Nobody,       \* no task is running
    AutoCommit,   \* values in use of transaction(auto_commit=...)
    CanFail,      \* may undoing operations raise an Exception?
    CanCancel,    \* may a task be cancelled?
    MaxTx,        \* bound: transactions ever created
    MaxOps        \* bound: operations ever recorded

ASSUME ConstantsAssumption ==
    /\ Nobody \notin Task
    /\ AutoCommit \subseteq BOOLEAN
    /\ CanFail \in BOOLEAN
    /\ CanCancel \in BOOLEAN
    /\ MaxTx \in Nat
    /\ MaxOps \in Nat

VARIABLES
    txs,          \* every Transaction object, in order of creation
    current,      \* current_transaction: an index into txs, or 0 for None
    active,       \* active_transactions: ids are unique, so a set
    successful,   \* successful_transactions
    failed,       \* failed_transactions
    stack,        \* the open blocks and suspended calls of each task
    raised,       \* the exception on its way up each task's stack
    running,      \* the task between two awaits
    made,         \* the operations carried out: the transaction of each
    standing,     \* the operations whose effect stands in Odoo
    tried,        \* the operations a rollback has attempted
    faults        \* history: what has gone out of the ordinary so far

vars == <<txs, current, active, successful, failed, stack, raised, running,
          made, standing, tried, faults>>

\* An undoing that raised, a cancelled task, a task that entered the manager
\* while another was in it, a block left active by auto_commit=False.
Fault == {"failure", "cancellation", "overlap", "uncommitted"}

Tx == 1..MaxTx
Op == 1..MaxOps

Transaction ==
    [state : {"active", "committed", "rolled_back", "failed"},
     parent : 0..MaxTx, previous : 0..MaxTx, log : SUBSET Op,
     owner : Task]

\* A block ("with") is in its body, leaving it in order ("exit") or with an
\* exception ("raise").  A rollback goes through its children, then awaits
\* the undoing of its own operations ops.
Frame ==
    [kind : {"with", "rollback", "commit", "all"},
     phase : {"body", "exit", "raise", "children", "await"},
     tx : 0..MaxTx, left : SUBSET Tx, size : Nat, ops : SUBSET Op]

NewFrame(kind, phase, i) ==
    [kind |-> kind, phase |-> phase, tx |-> i, left |-> {}, size |-> 0,
     ops |-> {}]

Init ==
    /\ txs = <<>>
    /\ current = 0
    /\ active = {}
    /\ successful = 0
    /\ failed = 0
    /\ stack = [t \in Task |-> <<>>]
    /\ raised = [t \in Task |-> "none"]
    /\ running = Nobody
    /\ made = <<>>
    /\ standing = {}
    /\ tried = {}
    /\ faults = {}

Top(t) == Last(stack[t])
On(t, kind, phases) ==
    stack[t] # <<>> /\ Top(t).kind = kind /\ Top(t).phase \in phases

IsActive(i) == txs[i].state = "active"

Children(i) == {j \in DOMAIN txs : txs[j].parent = i}

WithState(i, s) == [txs EXCEPT ![i].state = s]

\* Mutants of the definitions that follow them are named after the slip.
ReturnStillRunning(t, stk, e) ==
    /\ stack' = [stack EXCEPT ![t] = stk]
    /\ raised' = [raised EXCEPT ![t] = IF stk = <<>> THEN "none" ELSE e]
    /\ running' = t

\* t goes on with stack stk and exception e: back in a body (or done) it
\* yields to the loop, elsewhere it keeps running.
Return(t, stk, e) ==
    /\ stack' = [stack EXCEPT ![t] = stk]
    /\ raised' = [raised EXCEPT ![t] = IF stk = <<>> THEN "none" ELSE e]
    /\ running' = IF stk = <<>> \/ (e = "none" /\ Last(stk).phase = "body")
                  THEN Nobody ELSE t

\* t awaits, with stack stk.
Await(t, stk) ==
    /\ stack' = [stack EXCEPT ![t] = stk]
    /\ running' = Nobody
    /\ UNCHANGED raised

InBody(t) == running = Nobody /\ (stack[t] = <<>> \/ On(t, "with", {"body"}))
InBlock(t) == running = Nobody /\ On(t, "with", {"body"})

(****************************************************************************)
(* What the body of a block may do.                                         *)
(****************************************************************************)

\* The parent is whatever transaction is current, whoever opened it.
ParentOf(t) == current

Enter(t) ==
    /\ InBody(t)
    /\ Len(txs) < MaxTx
    /\ LET n == Len(txs) + 1
       IN  /\ txs' = Append(txs,
                 [state |-> "active", parent |-> ParentOf(t),
                  previous |-> current, log |-> {}, owner |-> t])
           /\ active' = active \cup {n}
           /\ current' = n
           /\ stack' = [stack EXCEPT ![t] =
                           Append(@, NewFrame("with", "body", n))]
    /\ UNCHANGED <<successful, failed, raised, running, made, standing, tried>>

\* The caller writes to Odoo and records it in the block's transaction.
Operate(t) ==
    /\ InBlock(t)
    /\ IsActive(Top(t).tx)
    /\ Len(made) < MaxOps
    /\ made' = Append(made, Top(t).tx)
    /\ standing' = standing \cup {Len(made')}
    /\ txs' = [txs EXCEPT ![Top(t).tx].log = @ \cup {Len(made')}]
    /\ UNCHANGED <<current, active, successful, failed, stack, raised, running,
                   tried>>

(****************************************************************************)
(* Commit.  A nested commit marks and returns.  A root commit marks its     *)
(* active children (which do not go on to theirs) and, if it has operations *)
(* to invalidate cached entries for, awaits that before it is committed.    *)
(****************************************************************************)

CommitAwaits(i) == txs[i].parent = 0 /\ txs[i].log # {}

Marked(i) ==
    [j \in DOMAIN txs |->
        IF \/ j = i /\ ~CommitAwaits(i)
           \/ txs[i].parent = 0 /\ txs[j].parent = i /\ IsActive(j)
        THEN [txs[j] EXCEPT !.state = "committed"] ELSE txs[j]]

BeginCommit(t, i, stk) ==
    /\ txs' = Marked(i)
    /\ IF CommitAwaits(i)
       THEN Await(t, Append(stk, NewFrame("commit", "await", i)))
       ELSE Return(t, stk, "none")

CommitByHand(t) ==
    /\ InBlock(t)
    /\ IsActive(Top(t).tx)
    /\ BeginCommit(t, Top(t).tx, stack[t])
    /\ UNCHANGED <<current, active, successful, failed, made, standing, tried>>

CommitReturns(t) ==
    /\ running = Nobody
    /\ On(t, "commit", {"await"})
    /\ txs' = WithState(Top(t).tx, "committed")
    /\ Return(t, Front(stack[t]), "none")
    /\ UNCHANGED <<current, active, successful, failed, made, standing, tried>>

(****************************************************************************)
(* Rollback.                                                                *)
(****************************************************************************)

RollbackFrame(i) ==
    [NewFrame("rollback", "children", i) EXCEPT
        !.left = Children(i), !.size = Cardinality(Children(i))]

RollbackByHand(t) ==
    /\ InBlock(t)
    /\ txs[Top(t).tx].state \notin {"committed", "rolled_back"}
    /\ stack' = [stack EXCEPT ![t] = Append(@, RollbackFrame(Top(t).tx))]
    /\ running' = t
    /\ UNCHANGED <<txs, current, active, successful, failed, raised, made,
                   standing, tried>>

RunningOn(t, kind, phases) ==
    running = t /\ raised[t] = "none" /\ On(t, kind, phases)

TakesNoChild(c) == FALSE

\* Only a child that is still active is rolled back: a committed one is not.
TakesChild(c) == IsActive(c)

Rest(children, c) == children \ {c}

\* Python's set iterator refuses to go on when the set has changed size.
SameChildren(f) == f.size = Cardinality(Children(f.tx))

NextChild(t) ==
    /\ RunningOn(t, "rollback", {"children"})
    /\ SameChildren(Top(t))
    /\ \E c \in Top(t).left :
          LET f == [Top(t) EXCEPT !.left = Rest(@, c)]
              rest == Append(Front(stack[t]), f)
          IN  stack' = [stack EXCEPT ![t] =
                  IF TakesChild(c) THEN Append(rest, RollbackFrame(c))
                  ELSE rest]
    /\ UNCHANGED <<txs, current, active, successful, failed, raised, running,
                   made, standing, tried>>

ChildrenChanged(t) ==
    /\ RunningOn(t, "rollback", {"children"})
    /\ ~SameChildren(Top(t))
    /\ txs' = WithState(Top(t).tx, "failed")
    /\ Return(t, Front(stack[t]), "error")
    /\ UNCHANGED <<current, active, successful, failed, made, standing, tried>>

RolledBack(i) == [txs EXCEPT ![i].state = "rolled_back", ![i].log = {}]

TodoNothing(i) == {}

\* An operation already attempted is skipped, whatever came of it.
Todo(i) == txs[i].log \ tried

OwnOperations(t) ==
    /\ RunningOn(t, "rollback", {"children"})
    /\ SameChildren(Top(t))
    /\ Top(t).left = {}
    /\ LET i == Top(t).tx
           todo == Todo(i)
       IN  \/ /\ todo # {}
              /\ Await(t, Append(Front(stack[t]),
                            [Top(t) EXCEPT !.phase = "await", !.ops = todo]))
              /\ UNCHANGED txs
           \/ /\ todo = {}
              /\ txs' = RolledBack(i)
              /\ Return(t, Front(stack[t]), "none")
    /\ UNCHANGED <<current, active, successful, failed, made, standing, tried>>

RollbackReturns(t) ==
    /\ running = Nobody
    /\ On(t, "rollback", {"await"})
    /\ standing' = standing \ Top(t).ops
    /\ tried' = tried \cup Top(t).ops
    /\ txs' = RolledBack(Top(t).tx)
    /\ Return(t, Front(stack[t]), "none")
    /\ UNCHANGED <<current, active, successful, failed, made>>

\* At least one compensation raised; any of them may have taken effect.
RollbackFails(t) ==
    /\ CanFail
    /\ running = Nobody
    /\ On(t, "rollback", {"await"})
    /\ \E undone \in SUBSET Top(t).ops : standing' = standing \ undone
    /\ tried' = tried \cup Top(t).ops
    /\ txs' = WithState(Top(t).tx, "failed")
    /\ Return(t, Front(stack[t]), "error")
    /\ UNCHANGED <<current, active, successful, failed, made>>

AllButCurrent == active \ {current}

\* rollback_all() goes through a copy of active_transactions.
AllActive == active

RollbackAll(t) ==
    /\ InBody(t)
    /\ stack' = [stack EXCEPT ![t] = Append(@,
          [NewFrame("all", "children", 0) EXCEPT
              !.left = AllActive])]
    /\ running' = t
    /\ UNCHANGED <<txs, current, active, successful, failed, raised, made,
                   standing, tried>>

\* The dictionary keeps the order of creation.
NextOfAll(t) ==
    /\ RunningOn(t, "all", {"children"})
    /\ \E i \in Top(t).left :
       /\ \A j \in Top(t).left : i <= j
       /\ LET rest == Append(Front(stack[t]), [Top(t) EXCEPT !.left = @ \ {i}])
          IN  stack' = [stack EXCEPT ![t] =
                  IF IsActive(i) THEN Append(rest, RollbackFrame(i)) ELSE rest]
    /\ UNCHANGED <<txs, current, active, successful, failed, raised, running,
                   made, standing, tried>>

EndOfAll(t) ==
    /\ RunningOn(t, "all", {"children"})
    /\ Top(t).left = {}
    /\ Return(t, Front(stack[t]), "none")
    /\ UNCHANGED <<txs, current, active, successful, failed, made, standing,
                   tried>>

(****************************************************************************)
(* Leaving a block.                                                         *)
(****************************************************************************)

Leaving(t, phase) ==
    Append(Front(stack[t]), [Top(t) EXCEPT !.phase = phase])

LeaveCommitting(t) ==
    /\ InBlock(t)
    /\ TRUE \in AutoCommit
    /\ IsActive(Top(t).tx)
    /\ BeginCommit(t, Top(t).tx, Leaving(t, "exit"))
    /\ UNCHANGED <<current, active, successful, failed, made, standing, tried>>

\* The body has ended the transaction, or the block was not to commit it.
LeaveAsIs(t) ==
    /\ InBlock(t)
    /\ IsActive(Top(t).tx) => FALSE \in AutoCommit
    /\ Return(t, Leaving(t, "exit"), "none")
    /\ UNCHANGED <<txs, current, active, successful, failed, made, standing,
                   tried>>

AbortsNot(i) == FALSE

Aborts(i) == IsActive(i)

\* The except clause.
LeaveWithError(t) ==
    /\ LET i == Top(t).tx
       IN  Return(t, IF Aborts(i)
                     THEN Append(Leaving(t, "raise"), RollbackFrame(i))
                     ELSE Leaving(t, "raise"), "none")
    /\ UNCHANGED <<txs, current, active, successful, failed, made, standing,
                   tried>>

LeaveRaising(t) == InBlock(t) /\ LeaveWithError(t)

\* The body does not handle what an inner block or a call raised.
Propagate(t) ==
    /\ running = t
    /\ raised[t] = "error"
    /\ On(t, "with", {"body"})
    /\ LeaveWithError(t)

\* The body handles what an inner block or a call raised.
Catch(t) ==
    /\ running = t
    /\ raised[t] = "error"
    /\ On(t, "with", {"body"})
    /\ Return(t, stack[t], "none")
    /\ UNCHANGED <<txs, current, active, successful, failed, made, standing,
                   tried>>

PreviousStays(i) == current

\* The transaction that was current when this block was entered.
Previous(i) == txs[i].previous

FailedOnly(i) == IF txs[i].state = "failed" THEN 1 ELSE 0

Failure(i) == IF txs[i].state \in {"rolled_back", "failed"} THEN 1 ELSE 0

WithoutFinished(i) == IF IsActive(i) THEN active ELSE active \ {i}

WithoutActive(i) == active \ {i}

\* The finally clause.
Leave(t) ==
    /\ running = t
    /\ \/ On(t, "with", {"exit", "raise"})
       \/ On(t, "with", {"body"}) /\ raised[t] = "cancel"
    /\ LET i == Top(t).tx
           e == IF raised[t] = "none" /\ Top(t).phase = "raise"
                THEN "error" ELSE raised[t]
       IN  /\ successful' =
                 successful + (IF txs[i].state = "committed" THEN 1 ELSE 0)
           /\ failed' = failed + Failure(i)
           /\ current' = Previous(i)
           /\ active' = WithoutActive(i)
           /\ Return(t, Front(stack[t]), e)
    /\ UNCHANGED <<txs, made, standing, tried>>

\* An exception on its way through a rollback marks it failed, unless it is
\* CancelledError, which nothing catches.
Unwind(t) ==
    /\ running = t
    /\ raised[t] # "none"
    /\ \E kind \in {"rollback", "commit", "all"} :
          On(t, kind, {"children", "await"})
    /\ txs' = IF raised[t] = "error" /\ Top(t).kind = "rollback"
              THEN WithState(Top(t).tx, "failed") ELSE txs
    /\ Return(t, Front(stack[t]), raised[t])
    /\ UNCHANGED <<current, active, successful, failed, made, standing, tried>>

\* A suspended task is cancelled where it awaits, in its body or in a call.
Cancelled(t) ==
    /\ CanCancel
    /\ running = Nobody
    /\ stack[t] # <<>>
    /\ \E undone \in SUBSET Top(t).ops : standing' = standing \ undone
    /\ Return(t, stack[t], "cancel")
    /\ UNCHANGED <<txs, current, active, successful, failed, made, tried>>

(****************************************************************************)
(* The specification.                                                       *)
(****************************************************************************)

Seen(what) == faults' = faults \cup what

Overlap(t) ==
    IF \E u \in Task \ {t} : stack[u] # <<>> THEN {"overlap"} ELSE {}

Uncommitted(t) == IF IsActive(Top(t).tx) THEN {"uncommitted"} ELSE {}

\* What a task does of its own accord.
Act(t) ==
    \/ (Enter(t) \/ RollbackAll(t)) /\ Seen(Overlap(t))
    \/ LeaveAsIs(t) /\ Seen(Uncommitted(t))
    \/ /\ \/ Operate(t)
          \/ CommitByHand(t)
          \/ RollbackByHand(t)
          \/ LeaveCommitting(t)
          \/ LeaveRaising(t)
       /\ Seen({})

\* Steps that go on with what is begun: the loop runs them in the end.
Continue(t) ==
    \/ RollbackFails(t) /\ Seen({"failure"})
    \/ ChildrenChanged(t) /\ Seen({"failure"})
    \/ /\ \/ CommitReturns(t)
          \/ NextChild(t)
          \/ OwnOperations(t)
          \/ RollbackReturns(t)
          \/ NextOfAll(t)
          \/ EndOfAll(t)
          \/ Leave(t)
          \/ Catch(t)
          \/ Propagate(t)
          \/ Unwind(t)
       /\ Seen({})

Next ==
    \E t \in Task :
        \/ Act(t)
        \/ Continue(t)
        \/ Cancelled(t) /\ Seen({"cancellation"})

Spec == Init /\ [][Next]_vars

(****************************************************************************)
(* Properties.                                                              *)
(****************************************************************************)

\* Every variable keeps its type, and only a task with open calls runs.
TypeOK ==
    /\ txs \in Seq(Transaction)
    /\ current \in 0..MaxTx
    /\ active \subseteq Tx
    /\ successful \in Nat
    /\ failed \in Nat
    /\ stack \in [Task -> Seq(Frame)]
    /\ raised \in [Task -> {"none", "error", "cancel"}]
    /\ running \in Task \cup {Nobody}
    /\ running # Nobody => stack[running] # <<>>
    /\ made \in Seq(Tx)
    /\ standing \subseteq Op
    /\ tried \subseteq Op
    /\ faults \subseteq Fault

IsBlock(f) == f.kind = "with"

\* The transactions whose blocks task t is in.
Blocks(t) ==
    {stack[t][n].tx : n \in {m \in DOMAIN stack[t] : IsBlock(stack[t][m])}}

\* i is the transaction of the innermost block among the first k frames of
\* stack s, or 0 where there is none.
Innermost(s, k, i) ==
    \/ i = 0 /\ \A n \in 1..k : ~IsBlock(s[n])
    \/ \E n \in 1..k :
          /\ IsBlock(s[n]) /\ i = s[n].tx
          /\ \A m \in (n + 1)..k : ~IsBlock(s[m])

\* As long as tasks take turns, the current transaction is that of the
\* innermost block, through failures and cancellations ("After child exits,
\* parent should be current again").
CurrentIsInnermost ==
    "overlap" \notin faults => \A t \in Task : stack[t] # <<>> =>
        Innermost(stack[t], Len(stack[t]), current)

\* A transaction is nested only in one its own task opened ("Multiple
\* concurrent transactions with proper isolation").
NestedInOwnTask ==
    \A i \in DOMAIN txs : txs[i].parent # 0 =>
        txs[txs[i].parent].owner = txs[i].owner

\* active_transactions holds exactly the transactions of the open blocks, in
\* whatever order tasks open and leave them.
ActiveIsOpen ==
    TypeOK /\ active = UNION {Blocks(t) : t \in Task}

\* A rollback undoes its own operations after its children's: as long as tasks
\* take turns, no child is active while it does.
ChildrenFirst ==
    "overlap" \notin faults => \A t \in Task : On(t, "rollback", {"await"}) =>
        \A c \in Children(Top(t).tx) : ~IsActive(c)

OpsOf(i) == {n \in DOMAIN made : made[n] = i}

\* With tasks that take turns and calls that end in order, a rolled back
\* transaction leaves none of its operations standing, and a committed one
\* keeps them all.
OutcomeHolds ==
    faults \subseteq {"uncommitted"} => \A i \in DOMAIN txs :
        /\ txs[i].state = "rolled_back" => OpsOf(i) \cap standing = {}
        /\ txs[i].state = "committed" => OpsOf(i) \subseteq standing

Ancestors(i) ==
    LET up[n \in 0..MaxTx] ==
            IF n = 0 THEN {} ELSE {n} \cup
               (IF n \in DOMAIN txs /\ txs[n].parent < n
                THEN up[txs[n].parent] ELSE {})
    IN  up[i]

\* A transaction that becomes rolled back leaves nothing standing that was
\* done below it: a nested commit "only marks the transaction as committed;
\* the actual commit happens when the root transaction commits".
RollbackReachesNested ==
    [][\A i, r \in DOMAIN txs :
          /\ r \in Ancestors(i)
          /\ txs[r].state # "rolled_back"
          /\ txs'[r].state = "rolled_back"
          => OpsOf(i) \cap standing' = {}]_vars

\* A block that has been left has committed or undone its operations
\* ("Automatic cleanup on context exit"), also when tasks overlap and undoing
\* fails; a cancelled block or one with auto_commit=False may not have.
NoneLeftActive ==
    faults \cap {"cancellation", "uncommitted"} = {} =>
        \A i \in DOMAIN txs :
            IsActive(i) => \E t \in Task : i \in Blocks(t)

\* The counters tell the outcomes of the blocks left so far, whether undoing
\* failed or not: with tasks that take turns and no block left active, no
\* transaction ends after its block has been left and counted.
CountersAgree ==
    faults \subseteq {"failure"} => LET Ended(states) ==
            {i \in DOMAIN txs : txs[i].state \in states /\ i \notin active}
    IN  /\ successful = Cardinality(Ended({"committed"}))
        /\ failed = Cardinality(Ended({"rolled_back", "failed"}))

\* When rollback_all() returns, no transaction is active any more, through
\* failed and repeated rollbacks, as long as tasks take turns ("Rollback all
\* active transactions").
RollbackAllReaches ==
    [][\A t \in Task :
          (/\ On(t, "all", {"children"})
           /\ Len(stack'[t]) < Len(stack[t])
           /\ raised[t] = "none"
           /\ "overlap" \notin faults)
             => \A i \in DOMAIN txs : IsActive(i) => i \notin active]_vars

================================================================================
