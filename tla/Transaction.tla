------------------------------ MODULE Transaction ------------------------------
(****************************************************************************)
(* One Transaction object of zenoo_rpc (transaction/manager.py): the log of *)
(* operations already sent to Odoo, the savepoints into that log, and the   *)
(* rollback that compensates the logged operations one remote call at a     *)
(* time.  The program is asyncio: a coroutine runs alone until it awaits,   *)
(* so an action is the code between two awaits, and every task that holds   *)
(* the object may run whole calls while another is suspended in one.        *)
(****************************************************************************)
EXTENDS Naturals, Sequences, FiniteSets

CONSTANTS
    Task,           \* asyncio tasks that share the Transaction object
    Kind,           \* operation types in use, of "create", "update", "delete"
    HasData,        \* may a record carry the data its compensation needs?
    Model,          \* Odoo model names
    Key,            \* context keys
    Value,          \* context values
    Unset,          \* a key that is not in a context dictionary
    CanFail,        \* may a remote or cache call raise an Exception?
    CanCancel,      \* may a suspended task be cancelled (CancelledError)?
    Patterns,       \* does the cache drop keys by pattern (not over Redis)?
    MaxOps,         \* bound: operations ever recorded
    MaxSavepoints,  \* bound: savepoints ever created
    MaxEffects      \* bound: effects after which no cancelled call adds one

ASSUME ConstantsAssumption ==
    /\ Kind \subseteq {"create", "update", "delete"}
    /\ HasData \subseteq BOOLEAN
    /\ CanFail \in BOOLEAN
    /\ CanCancel \in BOOLEAN
    /\ Patterns \in BOOLEAN
    /\ Unset \notin Value
    /\ MaxOps \in Nat
    /\ MaxSavepoints \in Nat
    /\ MaxEffects \in Nat

VARIABLES
    state,          \* Transaction.state
    records,        \* every OperationRecord ever made, in order
    operations,     \* Transaction.operations: indexes into records
    savepoints,     \* Transaction.savepoints
    created,        \* number of savepoints ever created (their ids)
    context,        \* Transaction._context
    dirty,          \* Transaction._cache_invalidation_keys, _patterns, _models
    frame,          \* the suspended call of each task
    stale,          \* cached entries older than an Odoo write
    missed,         \* history: entries that no commit can be held to drop
    faults          \* history: what has gone wrong around the object so far

cacheVars == <<stale, missed>>

vars == <<state, records, operations, savepoints, created, context, dirty,
          frame, cacheVars, faults>>

\* A call that raised, an unlink refused because the records are missing, a
\* cancelled call, a call begun while another task's was suspended.
Fault == {"failure", "missing", "cancellation", "overlap"}

\* Cached entries of a model: under the key of a record named in record_ids
\* ("model:id", "record:model:id"), under a key that one of the patterns
\* matches ("query:model:*", "search:model:*", "list:model:*", "model:*"), or
\* under any other key, such as that of a record in created_ids alone.
KeyForm == {"key", "pattern"}

Entries(model) == {model} \X (KeyForm \cup {"other"})

Entry == Model \X (KeyForm \cup {"other"})

TransactionState == {"active", "committed", "rolled_back", "failed"}

Context == [Key -> Value \cup {Unset}]

\* effects counts the compensating calls that took effect in Odoo.
OperationRecord ==
    [kind : Kind, model : Model, data : BOOLEAN,
     status : {"pending", "success", "failed", "skipped"}, effects : Nat]

Savepoint == [id : Nat, index : Nat, released : BOOLEAN, context : Context]

NoContext == [k \in Key |-> Unset]

\* A suspended call.  log is the list of operations it walks backwards, pos
\* the one whose compensation it awaits; walked says whether that list is the
\* one self.operations is bound to ("own"), a slice or a list no longer bound
\* ("copy"), or a list another rollback has emptied ("ended").
Frame ==
    [pc : {"idle", "rollback", "savepoint", "commit"},
     log : Seq(Nat), pos : Nat, walked : {"own", "copy", "ended"},
     failed : BOOLEAN, savepoint : Savepoint, at : Nat,
     targets : SUBSET (Model \X KeyForm)]

NoSavepoint == [id |-> 0, index |-> 0, released |-> FALSE, context |-> NoContext]

Idle ==
    [pc |-> "idle", log |-> <<>>, pos |-> 0, walked |-> "copy",
     failed |-> FALSE, savepoint |-> NoSavepoint, at |-> 0, targets |-> {}]

Init ==
    /\ state = "active"
    /\ records = <<>>
    /\ operations = <<>>
    /\ savepoints = <<>>
    /\ created = 0
    /\ context = NoContext
    /\ dirty = {}
    /\ frame = [t \in Task |-> Idle]
    /\ stale = {}
    /\ missed = {}
    /\ faults = {}

Free(t) == frame[t].pc = "idle"

\* s[:n] of a Python list.
Take(s, n) == SubSeq(s, 1, IF n < Len(s) THEN n ELSE Len(s))

(****************************************************************************)
(* Calls that do not await: they run whole while other calls are suspended. *)
(****************************************************************************)

\* Mutants of the definitions that follow them are named after the slip.
NewOperationZeroBased == Len(records)

\* The index of the record about to be appended.
NewOperation == Len(records) + 1

TrackKeysOnly(model) == dirty \cup {<<model, "key">>}

\* _track_cache_invalidation: the keys of the records in record_ids and the
\* patterns of the model, never forgotten.
Track(model) == dirty \cup ({model} \X KeyForm)

\* The call that makes entries of the model stale is behind a commit if one
\* is suspended, or has ended.
Written(model) ==
    /\ stale' = stale \cup Entries(model)
    /\ missed' = IF state = "committed" \/ \E t \in Task : frame[t].pc = "commit"
                 THEN missed \cup Entries(model) ELSE missed

\* The operation has been sent to Odoo before it is recorded.
AddOperation(t) ==
    /\ Free(t)
    /\ state = "active"
    /\ Len(records) < MaxOps
    /\ \E kind \in Kind, model \in Model, data \in HasData :
          /\ records' = Append(records,
                [kind |-> kind, model |-> model, data |-> data,
                 status |-> "pending", effects |-> 0])
          /\ dirty' = Track(model)
          /\ Written(model)
    /\ operations' = Append(operations, NewOperation)
    /\ UNCHANGED <<state, savepoints, created, context, frame>>

\* set_context has no check of the state.
SetContext(t) ==
    /\ Free(t)
    /\ \E k \in Key, v \in Value : context' = [context EXCEPT ![k] = v]
    /\ UNCHANGED <<state, records, operations, savepoints, created, dirty,
                   frame, cacheVars>>

\* The saved context is the transaction's, overridden by the caller's keys.
Override(base, over) ==
    [k \in Key |-> IF over[k] = Unset THEN base[k] ELSE over[k]]

CreateSavepoint(t) ==
    /\ Free(t)
    /\ state = "active"
    /\ created < MaxSavepoints
    /\ \E over \in Context :
          savepoints' = Append(savepoints,
             [id |-> created + 1, index |-> Len(operations),
              released |-> FALSE, context |-> Override(context, over)])
    /\ created' = created + 1
    /\ UNCHANGED <<state, records, operations, context, dirty, frame, cacheVars>>

\* A released savepoint stays in the list; the state is not checked.
ReleaseSavepoint(t) ==
    /\ Free(t)
    /\ \E n \in DOMAIN savepoints :
          /\ ~savepoints[n].released
          /\ savepoints' = [savepoints EXCEPT ![n].released = TRUE]
    /\ UNCHANGED <<state, records, operations, created, context, dirty,
                   frame, cacheVars>>

(****************************************************************************)
(* Rollback: _execute_rollback_operations walks a list from its end.        *)
(****************************************************************************)

CanRollbackAgain(r) == r.data

CanRollback(r) == r.status = "pending" /\ r.data

SkippedUnmarked(recs, log, low, high) == recs

\* The records at positions low+1 .. high of log cannot be rolled back.
Skipped(recs, log, low, high) ==
    [i \in DOMAIN recs |->
        IF \E j \in (low + 1)..high : log[j] = i
        THEN [recs[i] EXCEPT !.status = "skipped"] ELSE recs[i]]

\* rollback() after its walk: clear() empties the list in place, which ends
\* the walk of every other rollback over that list.
FinishRollback(t, f) ==
    /\ state' = IF f.failed THEN "failed" ELSE "rolled_back"
    /\ operations' = IF f.failed THEN operations ELSE <<>>
    /\ savepoints' = IF f.failed THEN savepoints ELSE <<>>
    /\ frame' = [u \in Task |->
                    IF u = t THEN Idle
                    ELSE IF ~f.failed /\ frame[u].walked = "own"
                    THEN [frame[u] EXCEPT !.walked = "ended"]
                    ELSE frame[u]]
    /\ UNCHANGED context

OperationsThrough(sp) == Take(operations, sp.index + 1)

OperationsShortOf(sp) ==
    Take(operations, IF sp.index = 0 THEN 0 ELSE sp.index - 1)

\* self.operations[: savepoint.operation_index].
OperationsBefore(sp) == Take(operations, sp.index)

SavepointsAll(n) == savepoints

\* self.savepoints[: savepoint_index + 1].
SavepointsUpTo(n) == Take(savepoints, n)

\* rollback_to_savepoint() after its walk: the list is replaced by a prefix,
\* so a rollback still walking the old one walks a list nobody else sees.
FinishSavepoint(t, f) ==
    /\ operations' =
          IF f.failed THEN operations ELSE OperationsBefore(f.savepoint)
    /\ savepoints' = IF f.failed THEN savepoints ELSE SavepointsUpTo(f.at)
    /\ context' =
          IF f.failed THEN context ELSE Override(context, f.savepoint.context)
    /\ frame' = [u \in Task |->
                    IF u = t THEN Idle
                    ELSE IF ~f.failed /\ frame[u].walked = "own"
                    THEN [frame[u] EXCEPT !.walked = "copy"]
                    ELSE frame[u]]
    /\ UNCHANGED state

\* Walk on from position p: skip what cannot be rolled back, then await the
\* next compensation, or finish when there is none.
WalkOn(t, f, recs, p) ==
    \E k \in 0..p :
        /\ k > 0 => CanRollback(recs[f.log[k]])
        /\ \A j \in (k + 1)..p : ~CanRollback(recs[f.log[j]])
        /\ records' = Skipped(recs, f.log, k, p)
        /\ \/ /\ k > 0
              /\ frame' = [frame EXCEPT ![t] = [f EXCEPT !.pos = k]]
              /\ UNCHANGED <<state, operations, savepoints, context>>
           \/ k = 0 /\ f.pc = "rollback" /\ FinishRollback(t, f)
           \/ k = 0 /\ f.pc = "savepoint" /\ FinishSavepoint(t, f)

MayRollbackCommitted == state # "rolled_back"

\* A failed transaction may be rolled back again.
MayRollback == state \notin {"committed", "rolled_back"}

Rollback(t) ==
    /\ Free(t)
    /\ MayRollback
    /\ WalkOn(t, [Idle EXCEPT !.pc = "rollback", !.log = operations,
                              !.walked = "own"],
              records, Len(operations))
    /\ UNCHANGED <<created, dirty, cacheVars>>

\* With nothing after the savepoint the call returns and changes nothing.
RollbackToSavepoint(t) ==
    /\ Free(t)
    /\ state = "active"
    /\ \E n \in DOMAIN savepoints :
          /\ ~savepoints[n].released
          /\ savepoints[n].index < Len(operations)
          /\ LET log == SubSeq(operations, savepoints[n].index + 1,
                               Len(operations))
             IN  WalkOn(t, [Idle EXCEPT !.pc = "savepoint", !.log = log,
                                        !.savepoint = savepoints[n],
                                        !.at = n],
                        records, Len(log))
    /\ UNCHANGED <<created, dirty, cacheVars>>

Calling(t) == frame[t].pc \in {"rollback", "savepoint"}

Called(t) == frame[t].log[frame[t].pos]

\* Where the walk goes on: an emptied list ends it.
Below(f) == IF f.walked = "ended" THEN 0 ELSE f.pos - 1

CompensatedInNameOnly(r) == r

\* Deleting or restoring twice changes nothing; recreating twice duplicates.
Compensated(r) ==
    [r EXCEPT !.effects = IF r.kind = "delete" THEN @ + 1 ELSE 1]

CompensationReturns(t) ==
    /\ Calling(t)
    /\ LET i == Called(t)
           r == [Compensated(records[i]) EXCEPT !.status = "success"]
       IN  /\ WalkOn(t, frame[t], [records EXCEPT ![i] = r], Below(frame[t]))
           /\ Written(r.model)
    /\ UNCHANGED <<created, dirty>>

\* The call raises; Odoo may have applied it all the same.
CompensationFails(t) ==
    /\ CanFail
    /\ Calling(t)
    /\ LET i == Called(t)
       IN  \E r \in {records[i], Compensated(records[i])} :
              /\ WalkOn(t, [frame[t] EXCEPT !.failed = TRUE],
                        [records EXCEPT ![i] = [r EXCEPT !.status = "failed"]],
                        Below(frame[t]))
              /\ Written(r.model)
    /\ UNCHANGED <<created, dirty>>

\* An unlink that raises "does not exist" or "not found" counts as done, though
\* it may have undone nothing: one of the records was missing, and Odoo kept
\* the others.
CompensationMissing(t) ==
    /\ CanFail
    /\ Calling(t)
    /\ LET i == Called(t)
       IN  /\ records[i].kind = "create"
           /\ \E r \in {records[i], Compensated(records[i])} :
                 /\ WalkOn(t, frame[t],
                           [records EXCEPT ![i] = [r EXCEPT !.status = "success"]],
                           Below(frame[t]))
                 /\ Written(r.model)
    /\ UNCHANGED <<created, dirty>>

\* CancelledError is no Exception: it passes every handler and leaves the
\* object as it stands.
Cancelled(t) ==
    /\ CanCancel
    /\ ~Free(t)
    /\ frame' = [frame EXCEPT ![t] = Idle]
    /\ \/ UNCHANGED <<records, cacheVars>>
       \/ /\ Calling(t)
          /\ records[Called(t)].effects < MaxEffects
          /\ records' = [records EXCEPT ![Called(t)] = Compensated(@)]
          /\ Written(records[Called(t)].model)
    /\ UNCHANGED <<state, operations, savepoints, created, context, dirty>>

(****************************************************************************)
(* Commit of a root transaction: nothing is left to send; what was noted of  *)
(* the cache is copied, then dropped one await at a time, the keys first.    *)
(****************************************************************************)

Commit(t) ==
    /\ Free(t)
    /\ state = "active"
    /\ \/ /\ dirty = {}
          /\ state' = "committed"
          /\ UNCHANGED frame
       \/ /\ dirty # {}
          /\ frame' = [frame EXCEPT ![t] =
                          [Idle EXCEPT !.pc = "commit", !.targets = dirty]]
          /\ UNCHANGED state
    /\ UNCHANGED <<records, operations, savepoints, created, context, dirty,
                   cacheVars>>

Left(targets, e) == targets \ {e}

Invalidate(t, e) ==
    /\ \/ /\ frame[t].targets # {e}
          /\ frame' = [frame EXCEPT ![t].targets = Left(@, e)]
          /\ UNCHANGED state
       \/ /\ frame[t].targets = {e}
          /\ frame' = [frame EXCEPT ![t] = Idle]
          /\ state' = "committed"
    /\ UNCHANGED <<records, operations, savepoints, created, context, dirty>>

\* The keys noted, in any order, then the patterns.
NextTargets(t) ==
    LET keys == {e \in frame[t].targets : e[2] = "key"}
    IN  IF keys # {} THEN keys ELSE frame[t].targets

\* A cache that knows no patterns answers all the same.
Reached(e) == e[2] = "key" \/ (e[2] = "pattern" /\ Patterns)

InvalidationReturns(t) ==
    /\ frame[t].pc = "commit"
    /\ \E e \in NextTargets(t) :
          /\ Invalidate(t, e)
          /\ stale' = IF Reached(e) THEN stale \ {e} ELSE stale
    /\ UNCHANGED missed

\* A failing cache call is logged and ignored.
InvalidationFails(t) ==
    /\ CanFail
    /\ frame[t].pc = "commit"
    /\ \E e \in NextTargets(t) :
          /\ Invalidate(t, e)
          /\ missed' = missed \cup {e}
    /\ UNCHANGED stale

(****************************************************************************)
(* The specification.                                                       *)
(****************************************************************************)

Call(t) ==
    \/ AddOperation(t)
    \/ CreateSavepoint(t)
    \/ ReleaseSavepoint(t)
    \/ Rollback(t)
    \/ RollbackToSavepoint(t)
    \/ Commit(t)

Seen(what) == faults' = faults \cup what

Begin(t) ==
    Call(t) /\ Seen(IF \E u \in Task : ~Free(u) THEN {"overlap"} ELSE {})

Resume(t) ==
    \/ (CompensationReturns(t) \/ InvalidationReturns(t)) /\ Seen({})
    \/ (CompensationFails(t) \/ InvalidationFails(t)) /\ Seen({"failure"})
    \/ CompensationMissing(t) /\ Seen({"missing"})

Next ==
    \E t \in Task :
        \/ Begin(t)
        \/ SetContext(t) /\ Seen({})
        \/ Resume(t)
        \/ Cancelled(t) /\ Seen({"cancellation"})

Spec == Init /\ [][Next]_vars

(****************************************************************************)
(* Properties.                                                              *)
(****************************************************************************)

\* Every variable keeps its type; log entries name records.
TypeOK ==
    /\ state \in TransactionState
    /\ records \in Seq(OperationRecord)
    /\ operations \in Seq(1..Len(records))
    /\ savepoints \in Seq(Savepoint)
    /\ created \in Nat
    /\ context \in Context
    /\ dirty \subseteq Model \X KeyForm
    /\ frame \in [Task -> Frame]
    /\ \A t \in Task : frame[t].log \in Seq(1..Len(records))
    /\ \A t \in Task : Calling(t) => frame[t].pos \in DOMAIN frame[t].log
    /\ stale \subseteq Entry
    /\ missed \subseteq Entry
    /\ faults \subseteq Fault

\* A rollback compensates from the newest operation to the oldest, whatever
\* the other tasks do: nothing newer in the list it walks is still pending
\* ("Process operations in reverse order").
ReverseOrder ==
    \A t \in Task : Calling(t) =>
        \A j \in (frame[t].pos + 1)..Len(frame[t].log) :
            records[frame[t].log[j]].status # "pending"

\* A record's status tells what was done, even when two rollbacks run at
\* once: "success" only after the effect or, of a create, after Odoo said that
\* a record to delete is missing; and, unless a call was cancelled, "pending"
\* only before any.
StatusTruthful ==
    \A i \in DOMAIN records :
        /\ records[i].status = "success" =>
              \/ records[i].effects > 0
              \/ records[i].kind = "create" /\ "missing" \in faults
        /\ records[i].status = "pending" /\ "cancellation" \notin faults =>
              records[i].effects = 0

\* The log lists each operation once, in the order it was recorded, through
\* all the truncations that rollbacks make.
LogInOrder ==
    \A i, j \in DOMAIN operations : i < j => operations[i] < operations[j]

\* Savepoints point into the log, later ones no further left: a rollback that
\* shortens the log also drops the savepoints that would dangle, as long as
\* calls do not overlap.
SavepointsWithinLog ==
    "overlap" \notin faults => \A i, j \in DOMAIN savepoints : i <= j =>
        /\ savepoints[i].index <= savepoints[j].index
        /\ savepoints[j].index <= Len(operations)

\* As long as calls do not overlap, an operation nobody has tried to
\* compensate never drops out of the log, where a later rollback finds it.
NothingLost ==
    "overlap" \notin faults => \A i \in DOMAIN records :
        records[i].status = "pending" =>
            \E n \in DOMAIN operations : operations[n] = i

\* Retried rollbacks, whose compensations failed with or without effect, do
\* not recreate a deleted record twice.
NoDuplicateRecreation ==
    faults \subseteq {"failure", "missing"} =>
        \A i \in DOMAIN records : records[i].effects <= 1

\* A committed transaction leaves no cached entry older than its writes under
\* a key or a pattern it noted, however often calls were cancelled before or
\* rolled back to a savepoint, but for writes made once a commit had begun,
\* which its copy does not have, and for cache calls that failed; over a cache
\* without patterns the keys alone are dropped ("Invalidate cache entries after
\* successful transaction commit").
CommittedMeansInvalidated ==
    state = "committed" => \A e \in stale : Reached(e) => e \in missed

\* A transaction that reports itself rolled back has undone every operation
\* ("This method undoes all operations in the transaction").
RolledBackMeansUndone ==
    state = "rolled_back" =>
        \A i \in DOMAIN records : records[i].data => records[i].effects > 0

\* Until a call raises, is cancelled or overlaps another, or an operation is
\* recorded that cannot be undone, the transaction is the atomic one.  inForce
\* are the operations no compensation has reached.
Atomic == INSTANCE AtomicTransaction WITH
    outcome <- state,
    made <- Len(records),
    log <- operations,
    inForce <- {i \in DOMAIN records : records[i].effects = 0},
    excused <- faults # {} \/ \E i \in DOMAIN records : ~records[i].data

\* The transaction implements its promise.
ImplementsAtomic == Atomic!AtomicSpec

\* A finished transaction stays as it finished, as long as calls do not
\* overlap: commit and rollback test the state only before they await.
FinalStateStays ==
    [][("overlap" \notin faults' /\ state \in {"committed", "rolled_back"})
          => (state' = state)]_vars

================================================================================
