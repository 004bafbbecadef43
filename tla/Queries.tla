-------------------------------- MODULE Queries --------------------------------
(****************************************************************************)
(* QuerySets and QueryBuilders of one model over a shared cache: results are *)
(* cached by query, create() invalidates them all and then queries the       *)
(* record it made.  The server serves a query at some moment between its     *)
(* sending and its answer; every call may fail, a create also after it was   *)
(* carried out.                                                              *)
(****************************************************************************)
EXTENDS Tasks, FiniteSets

CONSTANT MaxCreated     \* bound: records created

ASSUME QueryAssumption == MaxCreated \in Nat

VARIABLES
    byPattern,  \* the backend deletes by pattern: memory does, Redis does not
    table,      \* records the server has created; record n is the n-th
    settled,    \* the table when the last finished invalidation's create ended
    cached,     \* the cached result of each query
    asking      \* what each task is at

queryVars == <<byPattern, table, settled, cached, asking>>

\* Queries by the id of a record, and 0 for one that selects them all.
Query == 0..MaxCreated

\* A result is the table it was read from; late if the cache was invalidated
\* after it was read and before it was stored.
Result == [table : Nat, late : BOOLEAN]

NoResult == [table |-> MaxCreated + 1, late |-> FALSE]

\* own is the record the task itself created, before it queries it.
Asking ==
    [at : {"idle", "sent", "served", "create", "invalidate", "fetch"}, query : Query,
     own : Query, result : Result, got : {"none", "record", "missing"}]

Resting == [at |-> "idle", query |-> 0, own |-> 0, result |-> NoResult, got |-> "none"]

QueryInit ==
    /\ byPattern \in BOOLEAN
    /\ table = 0
    /\ settled = 0
    /\ cached = [q \in Query |-> NoResult]
    /\ asking = [t \in Task |-> Resting]

\* What a create() comes away with: get() raises when the result is empty.
Answered(a, result) ==
    IF a.own = 0 THEN Resting
    ELSE [Resting EXCEPT !.result = result, !.own = a.own,
                         !.got = IF a.own <= result.table THEN "record" ELSE "missing"]

\* _execute_query(): from the cache, or from the server.
Executes(t, a) ==
    asking' = [asking EXCEPT ![t] =
        IF cached[a.query] # NoResult THEN Answered(a, cached[a.query])
        ELSE [a EXCEPT !.at = "sent"]]

\* all(), first() and get() of a QuerySet that has no results of its own.
QueryBegins(t, q) ==
    /\ asking[t].at = "idle"
    /\ Executes(t, [Resting EXCEPT !.query = q])
    /\ UNCHANGED <<now, byPattern, table, settled, cached>>

QueryServed(t) ==
    /\ asking[t].at = "sent"
    /\ asking' = [asking EXCEPT ![t].at = "served",
                                ![t].result = [table |-> table, late |-> FALSE]]
    /\ UNCHANGED <<now, byPattern, table, settled, cached>>

\* The answer is stored in the cache, and returned.
QueryAnswers(t) ==
    LET a == asking[t]
    IN  /\ a.at = "served"
        /\ cached' = [cached EXCEPT ![a.query] = a.result]
        /\ asking' = [asking EXCEPT ![t] = Answered(a, a.result)]
        /\ UNCHANGED <<now, byPattern, table, settled>>

\* A call fails, or what awaits it is cancelled.
AskingFails(t) ==
    /\ asking[t].at # "idle"
    /\ asking' = [asking EXCEPT ![t] = Resting]
    /\ UNCHANGED <<now, byPattern, table, settled, cached>>

CreateBegins(t) ==
    /\ asking[t].at = "idle"
    /\ asking' = [asking EXCEPT ![t] = [Resting EXCEPT !.at = "create"]]
    /\ UNCHANGED <<now, byPattern, table, settled, cached>>

\* The server creates the record; the answer is its id.
RecordCreated(t) ==
    /\ asking[t].at = "create"
    /\ table < MaxCreated
    /\ table' = table + 1
    /\ asking' = [asking EXCEPT ![t].at = "invalidate", ![t].own = table + 1]
    /\ UNCHANGED <<now, byPattern, settled, cached>>

KeptByPattern(t) == cached' = [cached EXCEPT ![asking[t].own] = NoResult]

\* invalidate_pattern("query:<model>:*"), over a memory backend.
DroppedByPattern(t) == cached' = [q \in Query |-> NoResult]

\* _invalidate_cache().  What other tasks have read and not stored is late.
Invalidated(t) ==
    LET own == asking[t].own
    IN  /\ asking[t].at = "invalidate"
        /\ IF byPattern THEN DroppedByPattern(t) ELSE UNCHANGED cached
        /\ settled' = IF own > settled THEN own ELSE settled
        /\ asking' = [u \in Task |->
               IF u = t THEN [asking[t] EXCEPT !.at = "fetch", !.query = own]
               ELSE [asking[u] EXCEPT !.result.late = asking[u].result.late
                                                      \/ asking[u].at = "served"]]
        /\ UNCHANGED <<now, byPattern, table>>

\* get(id=record_id): the created record is queried.
FetchBegins(t) ==
    /\ asking[t].at = "fetch"
    /\ Executes(t, asking[t])
    /\ UNCHANGED <<now, byPattern, table, settled, cached>>

\* Results expire, or are evicted.
ResultLost(q) ==
    /\ cached[q] # NoResult
    /\ cached' = [cached EXCEPT ![q] = NoResult]
    /\ UNCHANGED <<now, byPattern, table, settled, asking>>

QueryNext ==
    \/ \E t \in Task :
          \/ \E q \in Query : QueryBegins(t, q)
          \/ QueryServed(t)
          \/ QueryAnswers(t)
          \/ AskingFails(t)
          \/ CreateBegins(t)
          \/ RecordCreated(t)
          \/ Invalidated(t)
          \/ FetchBegins(t)
    \/ \E q \in Query : ResultLost(q)

QuerySpec == now = 0 /\ QueryInit /\ [][QueryNext]_<<now, queryVars>>

(****************************************************************************)
(* Properties.                                                              *)
(****************************************************************************)

QueryTypeOK ==
    /\ byPattern \in BOOLEAN
    /\ {table, settled} \subseteq 0..MaxCreated
    /\ cached \in [Query -> Result]
    /\ asking \in [Task -> Asking]

\* A query that begins after a create() ended is not answered from before it,
\* over a backend that deletes by pattern, but for a result another query had
\* read before the invalidation and stored after it.
CacheFollowsCreates ==
    byPattern => \A q \in Query :
        cached[q].table >= settled \/ cached[q].late

\* create() returns the record it created, with the same exception.
CreateReturnsItsRecord ==
    \A t \in Task :
        (byPattern /\ asking[t].own # 0 /\ asking[t].got = "missing")
            => asking[t].result.late

\* What tasks that query and create records rely on.
QueriesCorrect == QueryTypeOK /\ CacheFollowsCreates /\ CreateReturnsItsRecord

================================================================================
