--------------------------------- MODULE Batch ---------------------------------
(****************************************************************************)
(* The batch package of zenoo_rpc: a Batch of operations, the context of    *)
(* BatchManager.batch() or the collector of batch_operation(), its          *)
(* execution by a BatchExecutor, and the records the server then has.       *)
(* Several tasks may execute one batch; a reply of the server may be lost,  *)
(* a chunk may time out, and a task that is cancelled leaves the tasks of   *)
(* its chunks running.                                                      *)
(****************************************************************************)
EXTENDS Tasks, Lists, FiniteSetsExt, Functions

CONSTANTS
    Operations,         \* operations a program adds to a batch
    Record,             \* the records they are about
    MaxChunkSize,       \* max_chunk_size
    MaxConcurrency,     \* max_concurrency
    Extents             \* bound: items of a batch, and calls of execute()

\* "write" gives many records the same values, "update" each its own.
Operation ==
    [kind : {"create", "write", "update", "unlink"}, priority : Nat,
     data : Seq(Record)]

\* An operation has an item once.
ASSUME BatchAssumption ==
    /\ Operations \subseteq Operation
    /\ \A op \in Operations : IsInjective(op.data)
    /\ {MaxChunkSize, MaxConcurrency} \subseteq Nat \ {0}
    /\ Extents \subseteq [items : Nat, calls : Nat]

VARIABLES
    batch,          \* mode, operations, executed; active: in active_batches;
                    \* extent: the bounds that hold for it.  The mode of a
                    \* collector is its operation_type
    batches,        \* stats of the manager
    execution,      \* the last execute() of each task
    unnamed,        \* records of updates whose data has lost its "id"
    copies          \* times the server has created a record

batchVars == <<batch, batches, execution, unnamed, copies>>

\* A chunk waits for the semaphores, awaits a bulk call or that for its item
\* at, about the records sent, or is done.  missed are the records whose own
\* call failed, made says that one was created, size is the record_count it
\* reports; it is whole if it is the operation itself and no slice of it.
Chunk ==
    [kind : {"create", "write", "update", "unlink"}, priority : Nat,
     data : Seq(Record), whole : BOOLEAN,
     pc : {"waiting", "bulk", "single", "done"}, at : Nat,
     sent : SUBSET Record, missed : SUBSET Record, made : BOOLEAN, size : Nat,
     outcome : {"none", "success", "failure", "timeout"}]

\* An abandoned execution was cancelled; its chunks go on.  finished are the
\* ended chunks whose result the loop has not awaited yet; as_completed()
\* yields them as they ended, and what the loop does with them commutes.
\* A history, changed, tells that its data was changed under it.
Execution ==
    [pc : {"idle", "executing", "abandoned", "returned", "raised"},
     chunks : Seq(Chunk), finished : SUBSET Nat, completed : Nat,
     failed : Nat, processed : Nat, changed : BOOLEAN]

NoExecution ==
    [pc |-> "idle", chunks |-> <<>>, finished |-> {}, completed |-> 0,
     failed |-> 0, processed |-> 0, changed |-> FALSE]

Collectors == {"create", "update", "unlink"}

\* A Batch, a context of the manager, or a collector.
EmptyBatches ==
    [mode : {"batch", "context"} \cup Collectors, operations : {<<>>},
     executed : {FALSE}, active : {TRUE}, extent : Extents]

Collecting == batch.mode \in Collectors

NoneCounted == [total |-> 0, completed |-> 0, failed |-> 0, records |-> 0]

BatchInit ==
    /\ batch \in EmptyBatches
    /\ batches = NoneCounted
    /\ execution = [t \in Task |-> NoExecution]
    /\ unnamed = {}
    /\ copies = [r \in Record |-> 0]

(****************************************************************************)
(* Building a batch.                                                        *)
(****************************************************************************)

Items(ops) == Joined([i \in DOMAIN ops |-> ops[i].data])

\* Bound: so many items, each added once.
Fresh(op) ==
    LET items == Items(batch.operations)
    IN  /\ Range(items) \cap Range(op.data) = {}
        /\ Len(items) + Len(op.data) <= batch.extent.items

\* create(), update(), delete(), add_operation(): never refused.
BatchAdd(op) ==
    /\ batch.mode = "batch"
    /\ Fresh(op)
    /\ batch' = [batch EXCEPT !.operations = Append(@, op)]
    /\ UNCHANGED <<now, batches, execution, unnamed, copies>>

\* create(), update() and delete() of a context: they take no priority, and
\* its update() gives all records the same values.
ContextAdd(op) ==
    /\ batch.mode = "context"
    /\ op.kind # "update"
    /\ Fresh(op)
    /\ batch' = [batch EXCEPT !.operations =
                    Append(@, [op EXCEPT !.priority = 0])]
    /\ UNCHANGED <<now, batches, execution, unnamed, copies>>

\* The data of the first chunk is changed under it.
Changed(run, data) == [run EXCEPT !.chunks[1].data = data, !.changed = TRUE]

\* A collector's list is the data of its operation: a chunk that is no slice
\* of it changes with it until it is done.
Shared(data) ==
    [t \in Task |->
       LET run == execution[t]
       IN  IF \/ run.chunks = <<>>
              \/ ~run.chunks[1].whole
              \/ run.chunks[1].pc = "done"
           THEN run
           ELSE Changed(run, data)]

\* add() and add_many() of a collector.
CollectorAdd(op) ==
    /\ batch.mode = op.kind
    /\ Fresh(op)
    /\ ~batch.executed
    /\ LET data == Items(batch.operations) \o op.data
       IN  /\ batch' = [batch EXCEPT !.operations =
                  <<[op EXCEPT !.priority = 0, !.data = data]>>]
           /\ execution' = Shared(data)
    /\ UNCHANGED <<now, batches, unnamed, copies>>

\* clear() of a batch and of a collector.
BatchClear ==
    /\ batch.mode # "context"
    /\ ~batch.executed
    /\ batch.operations # <<>>
    /\ batch' = [batch EXCEPT !.operations = <<>>]
    /\ execution' = IF Collecting THEN Shared(<<>>) ELSE execution
    /\ UNCHANGED <<now, batches, unnamed, copies>>

(****************************************************************************)
(* Splitting and validating.                                                *)
(****************************************************************************)

\* An update whose data has lost its "id" does not validate.
Valid(op) ==
    /\ op.data # <<>>
    /\ op.kind = "update" => Range(op.data) \cap unnamed = {}

ChunkOf(op, data) ==
    [kind |-> op.kind, priority |-> op.priority, data |-> data,
     whole |-> data = op.data, pc |-> "waiting", at |-> 0, sent |-> {},
     missed |-> {}, made |-> FALSE, size |-> 0, outcome |-> "none"]

\* Slices of at most MaxChunkSize items.
Slices(data) ==
    [i \in 1 .. (Len(data) + MaxChunkSize - 1) \div MaxChunkSize |->
       SubSeq(data, (i - 1) * MaxChunkSize + 1,
              IF i * MaxChunkSize < Len(data) THEN i * MaxChunkSize
              ELSE Len(data))]

\* split()
Split(op) ==
    [i \in DOMAIN Slices(op.data) |-> ChunkOf(op, Slices(op.data)[i])]

\* sorted(..., reverse=True): stable, the highest priority first.  There is one
\* such order.
ByPriority(ops) ==
    {[i \in DOMAIN ops |-> ops[from[i]]] :
        from \in {f \in [DOMAIN ops -> DOMAIN ops] :
                    \A i, j \in DOMAIN ops : i < j =>
                       \/ ops[f[i]].priority > ops[f[j]].priority
                       \/ ops[f[i]].priority = ops[f[j]].priority /\ f[i] < f[j]}}

ChunksOf(ops) == Joined([i \in DOMAIN ops |-> Split(ops[i])])

(****************************************************************************)
(* Executing.                                                               *)
(****************************************************************************)

Busy == {"bulk", "single"}

\* execute_operations(): the operations validate and are split, and each
\* chunk gets a task, without an await in between.
ExecuteOperations(t, ops) ==
    /\ \A i \in DOMAIN ops : Valid(ops[i])
    /\ execution' = [execution EXCEPT ![t] =
           [NoExecution EXCEPT !.pc = "executing", !.chunks = ChunksOf(ops)]]
    /\ UNCHANGED batches

\* The body of a context ends without an exception, once: its operations are
\* executed in the order in which they were added.
ContextExecutes(t) ==
    /\ batch.mode = "context"
    /\ \A u \in Task : execution[u].pc = "idle"
    /\ batch.operations # <<>>
    /\ ExecuteOperations(t, batch.operations)
    /\ UNCHANGED <<now, batch, unnamed, copies>>

\* execute(): the operations by priority; a failure counts the batch.
\* Bound: so many calls, one by a task.
BatchExecute(t) ==
    LET ops == batch.operations
        valid == \A i \in DOMAIN ops : Valid(ops[i])
    IN  /\ batch.mode # "context"
        /\ execution[t].pc = "idle"
        /\ Quantify(Task, LAMBDA u : execution[u].pc # "idle")
             < batch.extent.calls
        /\ ~batch.executed
        /\ ops # <<>>
        /\ \/ \E sorted \in ByPriority(ops) : ExecuteOperations(t, sorted)
           \/ /\ ~valid
              /\ execution' = [execution EXCEPT ![t] =
                                   [NoExecution EXCEPT !.pc = "raised"]]
              /\ batches' = IF batch.mode = "batch"
                            THEN [batches EXCEPT !.total = @ + 1,
                                                 !.failed = @ + 1]
                            ELSE batches
        /\ UNCHANGED <<now, batch, unnamed, copies>>

\* Chunk c of t goes on, with its task or, if that ends, to the loop.
Moved(t, c, chunk, ended) ==
    [execution EXCEPT ![t].chunks[c] = chunk,
                      ![t].finished = @ \cup ended]

\* A chunk sends its items, or one of them, or has ended.
Sending(chunk) == [chunk EXCEPT !.pc = "bulk", !.sent = Range(chunk.data)]

SendingOne(chunk, i) ==
    [chunk EXCEPT !.pc = "single", !.at = i, !.sent = {chunk.data[i]}]

Over(chunk, outcome) ==
    [chunk EXCEPT !.pc = "done", !.sent = {}, !.size = Len(chunk.data),
                  !.outcome = outcome]

Ended(t, c, chunk, outcome) == Moved(t, c, Over(chunk, outcome), {c})

\* A create succeeds if any item was created, and an update whatever its
\* calls did: its result is False.
Succeeded(chunk) == chunk.kind # "create" \/ chunk.made

\* The loop over the items comes to item i: it ends after the last one; the
\* "id" of an update is popped, and missing if another execution has popped
\* it, which fails the chunk.
TakeUp(t, c, i, chunk) ==
    \/ /\ i > Len(chunk.data)
       /\ execution' = Ended(t, c, chunk, IF Succeeded(chunk)
                                          THEN "success" ELSE "failure")
       /\ UNCHANGED unnamed
    \/ /\ i <= Len(chunk.data)
       /\ chunk.kind = "update" /\ chunk.data[i] \in unnamed
       /\ execution' = Ended(t, c, chunk, "failure")
       /\ UNCHANGED unnamed
    \/ /\ i <= Len(chunk.data)
       /\ ~(chunk.kind = "update" /\ chunk.data[i] \in unnamed)
       /\ execution' = Moved(t, c, SendingOne(chunk, i), {})
       /\ unnamed' = IF chunk.kind = "update"
                     THEN unnamed \cup {chunk.data[i]} ELSE unnamed

StartsAnyTime(t, c) == execution[t].chunks[c].pc = "waiting"

\* The semaphore is fair: the chunks enter in the order of their tasks.
MayStart(t, c) ==
    LET chunks == execution[t].chunks
    IN  /\ chunks[c].pc = "waiting"
        /\ \A d \in 1 .. c - 1 : chunks[d].pc # "waiting"
        /\ Quantify(DOMAIN chunks, LAMBDA d : chunks[d].pc \in Busy)
             < MaxConcurrency

\* _execute_single_operation() up to its first call of the server.
ChunkStarts(t, c) ==
    LET chunk == execution[t].chunks[c]
    IN  /\ MayStart(t, c)
        /\ \/ /\ chunk.kind = "update"
              /\ TakeUp(t, c, 1, chunk)
           \/ /\ chunk.kind # "update"
              /\ execution' = Moved(t, c, Sending(chunk), {})
              /\ UNCHANGED unnamed
        /\ UNCHANGED <<now, batch, batches, copies>>

\* What the server has created, if it has done the call.
Created(chunk, done) ==
    [r \in Record |->
       copies[r] + IF chunk.kind = "create" /\ done /\ r \in chunk.sent
                   THEN 1 ELSE 0]

\* The bulk call answers, or raises although the server may have done it; a
\* create then goes on one by one.
BulkAnswers(t, c, done, ok) ==
    LET chunk == execution[t].chunks[c]
    IN  /\ chunk.pc = "bulk"
        /\ ok => done
        /\ copies' = Created(chunk, done)
        /\ \/ /\ ok \/ chunk.kind # "create"
              /\ execution' = Ended(t, c, chunk,
                                    IF ok THEN "success" ELSE "failure")
              /\ UNCHANGED unnamed
           \/ /\ ~ok /\ chunk.kind = "create"
              /\ TakeUp(t, c, 1, chunk)
        /\ UNCHANGED <<now, batch, batches>>

\* The call for one item answers or raises.
SingleAnswers(t, c, done, ok) ==
    LET chunk == execution[t].chunks[c]
    IN  /\ chunk.pc = "single"
        /\ ok => done
        /\ copies' = Created(chunk, done)
        /\ TakeUp(t, c, chunk.at + 1,
                  IF ok THEN [chunk EXCEPT !.made = TRUE]
                  ELSE [chunk EXCEPT !.missed = @ \cup chunk.sent])
        /\ UNCHANGED <<now, batch, batches>>

\* wait_for() cancels the call; the server may have done it.  A collector's
\* manager has no timeout.
ChunkTimesOut(t, c, done) ==
    LET chunk == execution[t].chunks[c]
    IN  /\ ~Collecting
        /\ chunk.pc \in Busy
        /\ copies' = Created(chunk, done)
        /\ execution' = Ended(t, c, chunk, "timeout")
        /\ UNCHANGED <<now, batch, batches, unnamed>>

(****************************************************************************)
(* The loop over the results.                                               *)
(****************************************************************************)

\* A result is appended and counted; a chunk that timed out raises, and so
\* may the progress callback, which counts a failure more.
Awaited(run, c, raises) ==
    LET chunk == run.chunks[c]
        one(b) == IF b THEN 1 ELSE 0
    IN  [run EXCEPT !.finished = @ \ {c},
                    !.completed = @ + one(chunk.outcome = "success"),
                    !.failed = @ + one(chunk.outcome # "success")
                                 + one(raises),
                    !.processed = @ + IF chunk.outcome = "success"
                                      THEN chunk.size ELSE 0]

CountedUnlessFailed(run) ==
    [batches EXCEPT !.total = @ + 1,
                    !.completed = @ + 1,
                    !.failed = IF run.failed > 0 THEN @ + 1 ELSE @]

\* What execute() does to the statistics of the manager.
CountedBatch(run) ==
    [batches EXCEPT !.total = @ + 1,
                    !.completed = IF run.failed = 0 THEN @ + 1 ELSE @,
                    !.failed = IF run.failed > 0 THEN @ + 1 ELSE @,
                    !.records = @ + Total([c \in DOMAIN run.chunks |->
                                              Len(run.chunks[c].data)])]

\* bulk_create(), bulk_update() and bulk_delete(), which a collector uses,
\* raise if the result of a chunk is a failure.
BulkRaises(run) == run.failed > 0

\* After the await execute() of a batch marks it, counts it and forgets it.
BatchEnds(t, run) ==
    /\ batch.mode = "batch"
    /\ execution' = [execution EXCEPT ![t] = [run EXCEPT !.pc = "returned"]]
    /\ batch' = [batch EXCEPT !.executed = TRUE, !.active = FALSE]
    /\ batches' = CountedBatch(run)

\* The context of the manager has counted nothing.
ContextEnds(t, run) ==
    /\ batch.mode = "context"
    /\ execution' = [execution EXCEPT ![t] = [run EXCEPT !.pc = "returned"]]
    /\ UNCHANGED <<batch, batches>>

\* execute() of a collector leaves it unexecuted if it raises.
CollectorEnds(t, run) ==
    /\ Collecting
    /\ execution' = [execution EXCEPT ![t] =
           [run EXCEPT !.pc = IF BulkRaises(run) THEN "raised" ELSE "returned"]]
    /\ batch' = [batch EXCEPT !.executed = @ \/ ~BulkRaises(run)]
    /\ UNCHANGED batches

\* The loop takes the next result; after the last one execute() ends.
ResultAwaited(t, c, raises) ==
    LET run == Awaited(execution[t], c, raises)
        last == /\ \A d \in DOMAIN run.chunks : run.chunks[d].pc = "done"
                /\ run.finished = {}
    IN  /\ execution[t].pc = "executing"
        /\ c \in execution[t].finished
        /\ raises => /\ batch.mode = "batch"
                     /\ run.chunks[c].outcome # "timeout"
        /\ \/ /\ ~last
              /\ execution' = [execution EXCEPT ![t] = run]
              /\ UNCHANGED <<batch, batches>>
           \/ last /\ BatchEnds(t, run)
           \/ last /\ ContextEnds(t, run)
           \/ last /\ CollectorEnds(t, run)
        /\ UNCHANGED <<now, unnamed, copies>>

\* A cancelled execute() counts nothing and leaves the chunks' tasks.
BatchCancelled(t) ==
    /\ execution[t].pc = "executing"
    /\ execution' = [execution EXCEPT ![t].pc = "abandoned"]
    /\ UNCHANGED <<now, batch, batches, unnamed, copies>>

BatchNext ==
    \/ \E op \in Operations : BatchAdd(op) \/ ContextAdd(op) \/ CollectorAdd(op)
    \/ BatchClear
    \/ \E t \in Task :
          \/ BatchExecute(t)
          \/ ContextExecutes(t)
          \/ \E c \in DOMAIN execution[t].chunks :
                \/ ChunkStarts(t, c)
                \/ \E done, ok \in BOOLEAN :
                      BulkAnswers(t, c, done, ok) \/ SingleAnswers(t, c, done, ok)
                \/ \E done \in BOOLEAN : ChunkTimesOut(t, c, done)
          \/ \E c \in execution[t].finished, raises \in BOOLEAN :
                ResultAwaited(t, c, raises)
          \/ BatchCancelled(t)

BatchSpec == now = 0 /\ BatchInit /\ [][BatchNext]_<<now, batchVars>>

(****************************************************************************)
(* Properties.                                                              *)
(****************************************************************************)

BatchTypeOK ==
    /\ batch.mode \in {"batch", "context"} \cup Collectors
    /\ batch.operations \in Seq(Operation)
    /\ {batch.executed, batch.active} \subseteq BOOLEAN
    /\ batches \in [total : Nat, completed : Nat, failed : Nat, records : Nat]
    /\ execution \in [Task -> Execution]
    /\ unnamed \in SUBSET Record
    /\ copies \in [Record -> Nat]

Whole(run) == run.pc \in {"returned", "raised"} /\ run.chunks # <<>>

\* The manager counts every finished execution as completed or failed, and a
\* call that returned has awaited every chunk: its counts are those of the
\* chunks, and it reports as many records as those that succeeded had.
BatchAccounted ==
    /\ batches.total = batches.completed + batches.failed
    /\ batch.executed => \E t \in Task : execution[t].pc = "returned"
    /\ \A t \in Task : Whole(execution[t]) =>
          LET run == execution[t]
              with(o) == {c \in DOMAIN run.chunks : run.chunks[c].outcome = o}
          IN  /\ \A c \in DOMAIN run.chunks : run.chunks[c].pc = "done"
              /\ run.completed = Cardinality(with("success"))
              /\ run.failed >= Cardinality(with("failure") \cup with("timeout"))
              /\ run.processed = Total([c \in DOMAIN run.chunks |->
                    IF c \in with("success") THEN Len(run.chunks[c].data) ELSE 0])

\* The chunks of one execution never run more than max_concurrency at a time,
\* and one starts only when those of a higher priority have started.
BatchOrderly ==
    \A t \in Task :
       LET chunks == execution[t].chunks
       IN  /\ Quantify(DOMAIN chunks, LAMBDA c : chunks[c].pc \in Busy)
                <= MaxConcurrency
           /\ \A c, d \in DOMAIN chunks :
                 chunks[c].pc # "waiting" /\ chunks[c].priority < chunks[d].priority
                    => chunks[d].pc # "waiting"

\* The slices of an operation are its data.
SlicesWhole ==
    \A op \in Operations :
       LET slices == Slices(op.data)
       IN  /\ Joined(slices) = op.data
           /\ \A i \in DOMAIN slices : Len(slices[i]) \in 1..MaxChunkSize

\* Split so, no record is in two chunks of an execution, so that each execution
\* creates a record at most twice (in bulk, unheard of, and then alone); and
\* after an execution without a failure a record to create exists unless its
\* own call failed.  Neither is so if a collector's list is changed while it
\* is executed.
BatchCreates ==
    /\ SlicesWhole
    /\ LET executing == Quantify(Task, LAMBDA t : execution[t].chunks # <<>>)
       IN  (\E t \in Task : execution[t].changed)
              \/ \A r \in Record : copies[r] <= 2 * executing
    /\ \A t \in Task :
          LET run == execution[t]
              chunks == run.chunks
              creating == {c \in DOMAIN chunks : chunks[c].kind = "create"}
          IN  Whole(run) /\ run.failed = 0 /\ ~run.changed =>
                 \A c \in creating : \A r \in Range(chunks[c].data) :
                    copies[r] > 0 \/ r \in chunks[c].missed

\* What an execution, or several of one batch at once, must not do.
BatchCorrect == BatchTypeOK /\ BatchAccounted /\ BatchOrderly /\ BatchCreates

================================================================================
