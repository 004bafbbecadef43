# A verification project for zenoo_rpc

`src/src/zenoo_rpc` is an asynchronous client library for Odoo's JSON-RPC
interface: typed models and a query builder over it, and beside them
transactions with savepoints and compensation, several caches, batch
operations, retries and a pool of HTTP connections. This directory holds TLA+
modules that model its stateful parts, the configurations with which TLC checks
them on small instances, and theorems proved with TLAPS for every value of the
constants. `PROJECT.json` lists the components, the runs, the lines each
definition models, and the hazards the properties are for.

    tlc -workers 2 -config ConnectionPool.cfg MCConnectionPool   # a run
    tlapm ConnectionPoolProofs.tla                               # the proofs

Paths below are relative to `src/src/zenoo_rpc` unless they begin with `src/`.

## The system

Everything runs on one asyncio event loop. There are no threads of the
library's own: a coroutine runs alone until it awaits something that really
suspends, and then any other task may run. So an action of the models is the
code between two such awaits, and every hazard of concurrency is a hazard of
state read before an await and used after it. A cancelled task receives
`CancelledError` at its await; it is no `Exception`, so `except Exception`
clauses do not see it and `finally` clauses do.

| component | state it keeps | operations | hard behaviour | modules |
|---|---|---|---|---|
| Transaction (`transaction/manager.py`) | state, operation log, savepoints, context, cache keys, patterns and models to invalidate | add_operation, create/release/rollback_to_savepoint, commit, rollback | compensations sent one at a time in reverse order; failures half way; overlapping calls; retries | `Transaction`, `AtomicTransaction`, `TransactionProofs` |
| TransactionManager and contexts (`transaction/manager.py`, `transaction/context.py`) | current transaction, active ones, counters; each transaction's parent and children | enter and leave a block, nested commit and rollback, rollback_all | one `current_transaction` for all tasks; nesting; exceptions and cancellation passing through | `TransactionManager`, `TransactionManagerProofs` |
| ConnectionPool and its breaker (`transport/pool.py`) | list and queue of connections, each connection's state, breaker, flags | get, use, release, health check, cleanup, close | list, queue and users change while a close is awaited; maximum size; breaker fed with late outcomes | `CircuitBreaker`, `ConnectionPool`, `ConnectionPoolProofs` |
| MemoryCache (`cache/backends.py`) | entries in order of use, expiry times in a second dictionary, cleanup task | get, set, delete, clear, cleanup, close | eviction at the limit, overwriting, expiry | `MemoryCache` |
| RedisCache (`cache/backends.py`) | connection and its flags, two locks, breaker, memory fallback | get, set, delete, exists, clear, connect, close | connection made once by many callers; lock taken again by its holder; late failures; cancellation; fallback out of date | `RedisCache`, `RedisCacheProofs` |
| Strategies and cache manager (`cache/strategies.py`, `cache/manager.py`) | order of use, frequencies, expiry times beside the backend's content; statistics | get, set, delete, clear, invalidate a pattern, sweep, evict | book and backend change in different awaited steps | `CacheStrategies`, `Lists`, `CallsProofs` |
| Cache decorators (`cache/decorators.py`) | a promise per key, metrics, a circuit per function | calls that share one execution, that slide, that fall back on stale data | callers remove each other's promises; late outcomes | `CachedCalls`, `CallsProofs` |
| Query builder (`query/`) | an immutable chain, cached results | expressions, Q, filter, exclude; all, get, create | a domain must mean what was written; results read before a write and stored after it | `Domains`, `Queries`, `ModelsProofs` |
| Lazy loading (`query/lazy.py`, `models/relationships.py`) | loading task, data, batch queue, prefetch cache | load, invalidate, prefetch | shared loads that fail or are cancelled; a queue taken too early | `LazyLoading`, `ModelsProofs` |
| Batch operations (`batch/`) | operations, executed flag, counters | add, clear, validate, split, execute | two executions of one batch; timeouts; a bulk call repeated one by one | `Batch`, `CallsProofs` |
| Retry (`retry/`) | attempts, the window of a shared strategy, a breaker policy | the loop of the decorators, the policies' decisions, delays | bounds on attempts and time; statistics fed by overlapping calls | `Retry`, `CallsProofs` |
| Session, transport, client, fallback (`transport/session.py`, `transport/httpx_transport.py`, `client.py`, `utils/fallback.py`, `exceptions/`) | credentials and context, open transport, managers | login by password or key, calls, safe creation, set up managers, close | logins that overlap; a create repeated after an error | `Client`, `ModelsProofs` |
| Models and registry (`models/`) | class of each name, cached definitions; an instance's id and fields | register, create a class from the server's fields; construct, assign, update, save, delete | creations that race each other and the server's changes; values that instance and row do not share | `Registry`, `Records`, `ModelsProofs` |
| MCP client and manager (`mcp/`) | tables of clients, transports and connected names; contexts; the health loop | add, connect, disconnect, remove, start and stop monitoring | removal and replacement during a connect; failing closes | `Mcp`, `McpProofs` |
| MCP server (`mcp_server/`) | rate limiter, sessions; the server's client and where `run_server()` is | check a request, authenticate, look up and clean up sessions; start, stop, signals, tools, resources | the edge of the sliding window; expiry; a signal during login or during a read | `McpSecurity`, `McpServer`, `McpProofs` |
| AI assistant (`ai/`) | configuration | prompts and answers | - | not modelled |

How they interact: user code opens transaction blocks on the manager; a
transaction sends compensating calls through the client and, at its end, asks
the cache manager to drop the keys of the records it has written, the patterns of
their models, and the models' own entries (`delete`, `invalidate_pattern`,
`invalidate_model`). The client forwards RPC calls to the session, which adds
credentials and posts them through the transport; the enhanced transport takes a
connection from the pool around each request and reports the outcome to the
pool's circuit breaker. Query sets read through the cache manager, which keeps a
strategy over a backend; RedisCache falls back to a MemoryCache when its own
breaker is open. Batches, lazy loads and decorators of the retry package call the
client again and again; the model registry asks it for the fields of a model. The
MCP manager and the MCP server stand beside the client and share nothing with it
but the program that uses both.

What makes each of them correct:

- *Transaction*: what it says of itself is true. Committed means kept and
  invalidated, rolled back means undone; operations are undone newest first,
  once; savepoints keep pointing into the log; nothing drops out of the log
  before it was tried.
- *Manager*: the block a task is in determines the current transaction;
  children are undone before their parents; registry and counters agree with
  what became of the blocks.
- *Pool*: a connection has one owner; none is lost or kept dead; the maximum
  holds; the breaker is consistent; the pool refills.
- *Redis and memory cache*: one connection is made, by the task that holds the
  lock, and never replaced while it lives; the breaker's count and state agree;
  a call ends, in the fallback if need be; the fallback keeps its size and
  serves nothing after its time.
- *Strategies*: between calls the book of a strategy holds at most `max_size`
  keys and, under TTL and LRU, every key the backend has, so that each can be
  evicted; a get is a hit or a miss once.
- *Cached calls*: one execution of a function for all who miss at once; no
  promise outlives the call that made it; the circuit is open exactly if enough
  failures came in a row.
- *Queries*: a domain selects what it was written to mean; the cache of results
  is not older than a create that has ended, and a create finds its record.
- *Lazy loading*: one load at a time, and never data from before an
  invalidation; a relation somebody waits for is going to be loaded.
- *Batches*: every chunk runs once and is counted once, in the order of
  priorities and never too many at a time; nothing is created more often than a
  lost answer explains.
- *Retry*: attempts and time stay within the policy; a shared strategy's
  statistics are those of its window.
- *Client*: database, user and password are of one login, in the session and in
  every call; the context is that user's; a create is repeated only if refused;
  what was set up is closed.
- *Registry*: a class is replaced only by one whose creation could not have
  found it; records read with the fields the server has now fit.
- *Instances*: after its calls have ended an instance has the values of its row,
  but for assignments not yet saved; saving it repeatedly makes one row.
- *MCP*: both tables agree; a connection that is open belongs to a server that
  will close it; one health loop. *Security*: the limit is exact in every window;
  a session that has always been active is answered. *MCP server*: it serves with
  a client that is logged in, and ends with the client's transport closed.

## The modules

### Transaction, AtomicTransaction, MCTransaction, TransactionProofs

`Transaction` is one `Transaction` object shared by a set of tasks. `records`
is the history of every `OperationRecord` made; `operations` is the Python list
of the same name, as indexes into it. A record keeps its kind, its model,
whether it carries the data its compensation needs, its status, and `effects`,
the number of compensating calls that took effect in Odoo, which the program
cannot see. `frame[t]` is the suspended call of task t.

- The calls that do not await are one action each: `AddOperation`,
  `SetContext`, `CreateSavepoint`, `ReleaseSavepoint`.
- `_execute_rollback_operations` is a walk from the end of a list. `WalkOn`
  skips what cannot be undone and either awaits the next compensation or runs
  the rest of `rollback()` (`FinishRollback`) or of `rollback_to_savepoint()`
  (`FinishSavepoint`). A walk begins in `Rollback` or `RollbackToSavepoint` and
  goes on in `CompensationReturns`, `CompensationFails` or, for an unlink that
  Odoo refuses because a record is missing, `CompensationMissing`: the code
  swallows that error and goes on as if it had undone the creation, though of
  several records it may have deleted none. A failed call may have taken effect
  all the same.
- Python's lists matter: `rollback()` walks `self.operations` itself, which
  another rollback may `clear()` (its walk ends) or replace by a prefix (its
  walk goes on over the old list). `frame.walked` keeps which.
- `Commit` copies what was noted; `InvalidationReturns` and `InvalidationFails`
  drop it one awaited call at a time, the keys before the patterns; a failure is
  logged by the code and ignored. A cached entry is of a model and is stored
  under the key of a record (`model:id`, `record:model:id`), under a key that one
  of the patterns noted matches (`model:*`, `query:model:*`, `search:model:*`,
  `list:model:*`), or under any other key, which no commit drops: that of a record
  given in `created_ids` alone is one, for keys are noted of `record_ids` only. `Reached` says
  that a pattern reaches its entries only in a cache that has patterns
  (`Patterns`): over Redis `invalidate_pattern()` drops nothing.
- `Cancelled` leaves the object as it stands, because nothing catches
  `CancelledError`.

`faults` is a history variable: a failure, a record found missing, a
cancellation, or a call begun while another was suspended. Properties that the
code keeps only under a discipline say so with it, and the model takes the other
steps all the same. `missed` are the entries no commit can be held to drop: those
made stale once a commit had taken its copy, and those whose cache call failed.

`AtomicTransaction` is the promise: the operations in force are those of the log
while the transaction is active or committed, none once it is rolled back, and
undoing goes from the newest back. `Transaction` implements it
(`ImplementsAtomic`, a refinement mapping in which the operations in force are
those no compensation has reached) until it is `excused`: a call has failed, found
a record missing, been cancelled or overlapped another, or an operation was
recorded without the data its compensation needs. So one run and one theorem have
the faulty and the faultless behaviours together.

### TransactionManager, MCTransactionManager, TransactionManagerProofs

The manager's `current`, `active` and counters, the transactions as a tree, and
for every task a stack of open blocks and suspended calls (`with`, `rollback`,
`commit`, `all`). `running` is the task between two awaits, so that a nested
rollback, an exception on its way up, and the `finally` clause of a block run
without interruption where the code does not await. `raised[t]` is the exception
passing through task t: an error, which a body may catch (`Catch`) or not
(`Propagate`), or a cancellation, which it does not. How the operations of one
transaction are undone is the business of `Transaction`; here it is one awaited
step that returns or fails, with any part of the operations undone.

`NextChild` iterates over `self.children`; when another task has added a child
in between, Python's set iterator raises, which is `ChildrenChanged`.

### CircuitBreaker, ConnectionPool, MCConnectionPool, ConnectionPoolProofs

`CircuitBreaker` holds the breaker's calls as operators on a record. Whether the
recovery timeout has passed is a choice. `ConnectionPool` keeps every connection
ever made (`conns`), the pool's list and queue, and where each user and the three
tasks (health check, cleanup, close) are. A connection's `shut` says that its
HTTP client refuses requests, from the start of `_close_connection()`; its
`state` becomes "closed", and it leaves the list, at the end of it. Between the
two other tasks run: users in "replacing", "closing" and "retiring" and tasks in
"closing" are there. The health check and `close()` iterate over the list by
position, as Python does while the list shrinks. Which connections are due for
a check, idle too long, or old is a choice; the error rate is abstracted to
above or below its maximum.

### MemoryCache, RedisCache, MCRedisCache, RedisCacheProofs

`MemoryCache` is the ordered dictionary as a sequence of entries, the least
recently used first, and `expiry`, the second dictionary, with the clock `now`.
Nothing under its lock awaits, so every call is one action: `MemorySet` (which
evicts first, whether or not the key is there already, and overwrites in
place), `MemoryGet` as `Miss`, `GetExpired` or `Hit`, `MemoryDelete`,
`MemoryClear`, `MemoryClose`, and `RemoveExpired` of the cleanup task. An entry
also keeps when it was set and for how long, and `late` whether a value was
handed out after that: a history the code does not have, against which
`expiry` is checked.

`RedisCache` extends it, as the fallback of the Redis cache is a `MemoryCache`.
`call[t]` is what task t is doing, `connection` the holder of `_connection_lock`
followed by the tasks that wait for it, in order. `circuit` is the holder of
`_circuit_lock`; this lock is held across an await in one place only, so a task
that waits for it elsewhere stays at the step before, whose guard is that the
lock is free.

- `Begin` is `get()` or `set()` up to its first await: the breaker is asked
  (whether its timeout has passed is a choice) and the connection ensured, or
  the call ends in the fallback. `BeginDirect` is `delete()`, `exists()`,
  `clear()` and `connect()`, which do not ask the breaker.
- `Ensure` is `_ensure_connected()`; `Enter` the double check of `connect()`
  after waiting; `Attempt` what follows it, which polls when the flag
  `_connecting` is set. `ConnectReturns`, `Reset` and `ConnectFails` end it.
- `CommandSucceeds`, `CommandFails` and `CommandEnds` are the answers of Redis,
  which may answer anything; `Retry` the pause or the fallback, `Again` the end
  of the pause. A failed connection is counted twice by `get()` and `set()`, as
  in the code.
- `BeginClose`, `CloseReturns` and `CloseFails` are `close()`; other tasks run
  while it waits. `Cancelled` releases the locks a task holds or waits for and
  leaves `_connecting` set.

A task in "polling" has no step but cancellation: only the task that set
`_connecting` clears it, under the lock the polling task now holds.

### Retry

One decorated function, called by several tasks under one `policy`. A policy is a
record of what its fields decide; the package's eight policies are operators
(`DefaultRetryPolicy`, ...), and `Policies` adds others a program may make, so
that every strategy and every jitter occurs. `RetryBegin` is the call up to the
function's first await, `RetryReturns` and `RetryRaises` the two ways out of it:
the second records the attempt, asks the policy (`ShouldRetry`, which also moves
the breaker policy's `fuse`) and either sleeps (`Retries`) or raises (`GivesUp`).
Delays are computed as in the code, the cap before the jitter and the policy's
multiplier after both; the random part of a jitter is a choice. The window of
`AdaptiveStrategy` and the last delay of `DecorrelatedJitterStrategy` are state of
the strategy object and so shared by all calls.

### Batch

`batch` is a `Batch`, the context of `BatchManager.batch()`, or the collector of
`batch_operation()`; the three differ in what may be added, in what `execute()`
marks and counts, and in what raises. `execution[t]` is task t's `execute()`: its
chunks, which have tasks of their own, and the loop that awaits their results in
the order in which they end. `ChunkStarts` is an operation behind the semaphores;
`BulkAnswers` and `SingleAnswers` its answers, each of which may be lost although
the server has done the call (`done`, `ok`); `TakeUp` the loop over items, with
the `"id"` that an update pops from the program's own dictionary (`unnamed`).
`copies` counts what the server has created. A cancelled `execute()` leaves the
tasks of its chunks running, as asyncio does. `Items` is a collector's list, `Slices`
what `split()` makes of one, `ByPriority` the order in which `execute()` takes the
operations (stable, so there is one); `Moved` is what a chunk that goes on changes of
its execution. `Changed` is the data of a collector's chunk changing under it, which the
history `changed` notes: what a program may rely on ends there.

### LazyLoading

`loader` is a `LazyLoader` with the tasks `loads` it has started. Cancelling a task
that awaits another cancels that one: `LazyCancelled` marks the load "cancelling",
and `LoadCancelled` is the moment it ends. `relations` are the
`LazyRelationship`s of one field; `Enqueue` puts a relation in `queued` and waits
for the batch of the field, `BatchTakesQueue` is the end of the batch's pause, and
`BatchEndsLoading` its answer, which fills `prefetched` and clears the task.

### CacheStrategies

`stored` is what the backend has, `order` and `weight` what the strategy keeps
(`_access_order`, `_frequencies`, `_expiry_times`). A call is a walk over backend
calls, one action for each answer (`ReadAnswers`, `WriteAnswers`,
`EvictionAnswers`, `SweepAnswers`, `DeleteAnswers`, `ClearAnswers`), so that the
book changes where the code changes it. Over a MemoryCache a call runs alone, as
nothing in it suspends (`Runs`); over a RedisCache other tasks run at each step,
calls fail and tasks are cancelled. `Lists` has the list comprehensions of the book
(`Keeping`). `frozen` tells that aging has made an ordinary
dictionary of `_frequencies`; a key that is missing then raises KeyError, which
the manager swallows.

### CachedCalls

`async_cached` with stampede prevention: `promises` and the tasks `executions`
that run the function; a caller owns the promise it made (`OwnerResumes`) or waits
for one it found (`WaiterResumes`), and calls the function itself if it failed.
`CallMissesUnguarded` is the way without promises, which `metrics_cached` and
`cache_result` have too, `SlidingHits` that of `sliding_cache`. The actions of
`CircuitNext` are `circuit_cached`: counter, flag and time of the last failure,
which is the time at which the failing call began.

### Client

`session` holds, for each field of the `SessionManager`, the login it is of, so
that a mixture can be seen; `running[t].as` is what t's call was sent with.
`LoggedIn` stores the credentials in one step, as the code does after its two
awaits, and `ContextAnswers` the context some time later: the one answered, that of
the session's user after an error, or, if the answer has no result, the one the
session had, which may be a former user's. `unsettled` tells that the last login's
context was not loaded: its answer had none, it was cancelled, or the credentials
changed while it was awaited. `CreateAnswers` maps the
answer to an exception twice, as `map_jsonrpc_error()` and `_handle_crud_error()`
do, and decides whether `safe_create_with_fallback()` goes on; `made` counts the
records that exist. `CloseBegins`, `ManagerCloses` and `TransportCloses` are
`close()` in its order: httpx refuses calls as soon as its `aclose()` has begun
(`transport` is then "shut"), while the session is cleared when it has returned; a
`close()` that raises (`CloseFails`) leaves the session over the shut transport.

### Domains

A keyword filter is a field, a lookup and a value. `ParsedLookup` is the comparison
it becomes: `Operator` is the table `LOOKUPS`, and `Processed` puts the wildcards
about the text and, for null checks, False in place of whatever was given. A
record is what its fields hold, as far as comparisons with the value looked for can
tell (`Content`); `Promised` is what a lookup is written to select, by the comments
of `LOOKUPS` and the docs, `Matching` what Odoo selects for the comparison, where a
pattern is matched as it is written: `like` and `ilike` are the operators `=like`
and `=ilike` of Odoo to this model, as the wildcards the code adds suppose (an Odoo
that puts wildcards about every pattern selects more for `startswith`, `endswith` and
`iexact`; what it does is not in this repository). Case, and wildcards
within the text looked for, are left out. `And`, `OrExpression`, `OrOfQ`, `Not` and
`Keywords` make domains as the `to_domain()` methods do, from domains; beside each
domain the model keeps the set of records the expression was written to select.
`Reading` is what Odoo reads in a domain, a stack machine over the prefix notation.
Where the code's domain is known to say something else (below), `exact` or `infix`
says so: `exact` until `|` or `~` is applied to an operand of several conditions or
a null check is given False, `infix` once two Q objects were joined with `|`.

### Queries

The cached execution of query sets of one model against `create()`, which
invalidates by pattern and then queries the record it made. A record is known by
its number; a result is the number of records there were when it was read.
`settled` is the table at the last finished invalidation. `late` marks a result that was read
before an invalidation and stored after it.

### Registry

`classes` is every class ever registered, `models` the last one of each name.
`CreationBegins` asks the registry, `DefinitionsServed` is the server's answer
with the fields of the moment, `DefinitionsAnswer` and `DefinitionsFail` make and
register the class. `ServerChanges` is a module installed or removed in Odoo.

### Records

`rows` is what Odoo has, `record` an instance: its id (0 before it is created) and
the fields that are set in it, an optional text and a field of many ids. False is
Odoo's empty text and None the instance's; `Converted` is the validator that runs
before construction, and again, over the fields there are, at every assignment
(`WithField`), which Pydantic's `validate_assignment` brings about. `UpdateBegins`,
`SaveBegins` and `DeleteBegins` send the call of a task; `RowChanged` and
`RowCreated` are Odoo's part of it; then the call is answered (`UpdateAnswered`
assigns the fields in some order, until one refuses its value: `WithFields` is the set
of the results; `PersistAnswered` stores the id), refused, or its answer lost. `WrittenElsewhere` is anybody else
who writes the row, and `alone` tells that nobody has. `unsent` are the
fields whose values Odoo need not have.

### Mcp, McpSecurity, McpServer

`Mcp` separates a name from the instance `add_server()` made of it, since a
removal or a connect under way may find another instance under its name. A link
keeps what client and transport believe and what the operating system knows
(`opened`). `Follows` is what `remove_server()` does after the client has
disconnected, and `background` the task in which `remove_transport()` disconnects.
The health loop is `MonitoringStarts`, `MonitoringStops`, `LoopEnds`,
`MonitoringStopped`. `McpSecurity` is the rate limiter's deque per caller with the history
`granted` of what was allowed, and the sessions with their last activity.
`McpServer` is `run_server()`: `ServerStarts` makes the client and awaits its login,
`ServerConnected` serves, `ServerEnds` is any way out, into the `finally` clause that
stops the server: `StopBegins` closes the client's transport, which refuses requests
from then on, and `StopReturns`, when that has been awaited, logs the client out, or
does not if the closing raised (`unclosed`). `ServerSignalled` creates a task that stops it as
well, whatever the server is doing (`SignalledStopBegins`, `SignalledStopEnds`). A tool or a resource is
the number of reads it makes one after the other: a read needs a client that is
logged in, and goes out over the transport the client has at that moment. A tool
that makes none raises before its first call (below).

### Tasks, MCComponents

`Tasks` has what these modules share: the program's tasks and the clock.
`MCComponents` extends them all and gives their constants. They share no other
state, so a behaviour is of one `part`: the other modules' variables keep their
initial values. That is no abstraction of a product: a step of one component
reads and writes nothing of another, and a safety property of one holds in the
product exactly if it holds in its part.

## What the runs check

| run | instance | checks |
|---|---|---|
| `Transaction` | 2 tasks (symmetric), creations and deletions with and without data, 2 operations, 2 savepoints, a cache with patterns, failures, missing records and cancellations; 1,620,000 states | `TypeOK`, `ReverseOrder`, `StatusTruthful`, `SavepointsWithinLog`, `NothingLost`, `NoDuplicateRecreation`, `CommittedMeansInvalidated`, `FinalStateStays`, `ImplementsAtomic` |
| `TransactionRetry` | 1 task, failures | `RolledBackMeansUndone` is violated |
| `TransactionManager` | 2 tasks (symmetric), 3 transactions, 1 operation, failures, cancellations, auto_commit on and off; 1,780,000 states | `CurrentIsInnermost`, `ChildrenFirst`, `CountersAgree`, `NoneLeftActive`, `OutcomeHolds`, `ActiveIsOpen`, `RollbackAllReaches` |
| `ManagerNestedCommit` | 1 task, 2 transactions | `RollbackReachesNested` is violated |
| `ManagerIsolation` | 2 tasks, 2 transactions | `NestedInOwnTask` is violated |
| `ConnectionPool` | 2 users, pool of 1 growing to 2, 3 connections ever created, failure and success thresholds 2, 3 failures counted; 585,000 states | `TypeOK`, `Exclusive`, `TrackedWithinMax`, `NoDeadEntries`, `Accounted`, `BreakerAgrees`, `HandedOutOpen`, `PoolRefills` |
| `PoolClose` | 1 user, pool of 2 | `CloseClosesAll` is violated |
| `RedisCache` | 2 tasks, 2 keys, ttl none or 1 (default 2), fallback of 1 entry, 3 moments, 2 attempts, threshold 2, failures and cancellations; 230,000 states | `BreakerAgrees`, `SingleConnection`, `FallbackCorrect`, `CallsEnd` |
| `RedisRecovery` | 1 task, 1 key, no cancellation | `SuccessCloses` is violated |
| `Components` | 2 tasks (symmetric) at one part of `MCComponents`; 607,000 states | `RetryCorrect`, `BatchCorrect`, `ModelsCorrect`, `CacheCorrect`, `CallsCorrect`, `ClientCorrect`, `DomainsCorrect`, `QueriesCorrect`, `McpCorrect`, `McpServerCorrect`, `RegistryCorrect` |
| `LazyQueue` | the same | `LoadReturnsData` is violated |
| `DomainsAsWritten` | the same | `DomainsAsWritten` is violated |

**Transaction.** Two tasks may roll back at once, to the start and to a
savepoint, while compensations fail or find their records missing. Whatever they do,
a walk undoes newest first, and no operation's status claims an effect that was not
there, but for a creation whose unlink Odoo refused because a record was missing: the
code takes that for done. As long as calls do not overlap, savepoints stay inside the
log, no untried operation drops out of it, and a finished transaction stays finished;
with overlapping calls the model shows that these three do not hold, which is why they
are conditional: they say nothing of two rollbacks, or a commit and a rollback, at
once, where the code does go wrong. A record whose deletion is undone is recreated
once at most, also when a failed rollback is retried. A commit leaves nothing in the
cache that is older than the transaction's writes and that it knows a key or a pattern
of, also when it was cancelled half way and called again, or when rollbacks to
savepoints wrote in between; what is written while the commit awaits the cache, and
what a failing cache call should have dropped, stays. And until something goes wrong
the step-by-step code is the atomic transaction, with savepoints anywhere in its log.

**TransactionRetry** (finding). `rollback()` of a failed transaction can be
called again. Its operations then are "failed", `can_rollback()` is false for
them, they are skipped, and the transaction calls itself rolled back with them
still in force.

**TransactionManager.** With tasks that take turns the current transaction is
that of the innermost block through failures and cancellations, children are
undone before their parents, the counters tell what became of the blocks, and
`rollback_all()` leaves no transaction active when it returns. Also with
overlapping tasks, `active_transactions` is exactly the open blocks, and a block
that was left is neither active nor forgotten unless it was cancelled or opened
with `auto_commit=False`.

**ManagerNestedCommit** (finding). A nested transaction that has committed is
not undone when its root rolls back, though its commit is documented as a mark
only. **ManagerIsolation** (finding). A block opened by one task becomes the
child of whatever block another task has open.

**ConnectionPool.** No interleaving of users, health check, cleanup and close
gives one connection to two users, leaves it in the queue while a user holds it,
loses an open one before `close()` is through, keeps a closed one in the list, or
grows the list beyond its maximum; the breaker's counts agree with its state
although outcomes arrive late, successes and failures below the threshold, at it and
beyond it, in any order; a pool that shrank is filled up again. Until a
background task closes a connection every one handed out is open; afterwards the
code does hand out closed ones (the cleanup leaves them in the queue, and
`is_healthy()` accepts the state CLOSED), so `HandedOutOpen` stops there.

**PoolClose** (finding). `close()` iterates over the list from which each
`_close_connection()` removes, and so skips every second connection.

**RedisCache.** Many tasks that find no connection make one, the others find it;
a connection attempt that fails, a failure that comes late, a reset by a
connection made after the breaker opened, and a cancellation anywhere leave
count and state of the breaker in agreement. The fallback holds one entry at
most although two tasks fill it, and what it hands out is within its time
although entry and expiry time live in two dictionaries. A call ends after its
attempts unless one of two jams, which the model reaches, has come about
(`Jammed`): the circuit lock is held by a task that waits for it, or a task
polls for the end of a connection attempt that was cancelled.

**RedisRecovery** (finding). The first call that succeeds in a half-open breaker
records its success under `_circuit_lock` and calls `_reset_circuit_breaker()`,
which acquires the same lock: it waits for itself, and the breaker never closes.

**Components.** Each `...Correct` is the conjunction of the module's type
invariant and its named parts; what they say, and where they stop, is in the
modules. What they rule out, for all orders of the steps and with failures and
cancellations between any two:

- `RetryCorrect`: an attempt too many, a sleep without an attempt left, an attempt
  later than the timeout and one delay; a window of the shared adaptive strategy
  and counters that disagree; a breaker policy whose state its count belies.
- `BatchCorrect`: an execution counted twice or not at all, a result not awaited,
  more chunks at a time than `max_concurrency`, a low priority before a high one,
  an item lost or doubled by splitting, a record created more often than once in
  bulk and once alone by each execution, and a success that created nothing. Two tasks
  may execute one batch; both do, and both are counted.
- `ModelsCorrect`, of lazy loading: two loads at once, data kept from before an
  invalidation, a relation somebody waits for that nobody will load. Of an instance
  whose row nobody else writes, once its calls, which did not overlap, have ended:
  a value in it that Odoo does not have, although it was not assigned since the last
  save (the code's one exception, a list of two ids of which the next assignment
  leaves the first, is named), and a second row made by saving it again.
- `CacheCorrect`: a strategy's book that forgets a stored key (LFU aging excepted,
  which does) or grows past `max_size` between calls, a get counted twice, and, over a
  backend that is awaited, a set that removed a victim and yet leaves too many keys. It
  is a property and not an invariant because of the last part.
- `CallsCorrect`: two executions of one key at once (until one fails or promises
  are thrown away), a promise without an owner, a circuit whose flag and count
  disagree, or a count beyond the threshold and the calls under way.
- `ClientCorrect`: credentials of two logins in the session or in a call, a
  context of another user (unless its load came late, was cancelled or had no result), a second create after an error
  other than a refusal, an open manager or a login after a `close()` that did not fail.
- `DomainsCorrect`: a lookup converted to a comparison that selects something else
  than the lookup says (a null check given False selects what it does given True, and
  the property says so); a domain Odoo cannot read, made without joining Q objects
  with `|`; and a domain whose `|` and `~` were applied to single conditions and that
  selects other records than its expression means.
- `QueriesCorrect`: a cached result older than the last create that ended, and a
  create that does not find its own record; the one way both happen, a result read
  before an invalidation and stored after it, is named.
- `McpCorrect`: a client without a transport or the reverse, a connection left open
  that no one will close, two health loops.
- `McpServerCorrect`, of the security manager: one request too many in some window,
  one refused too early, a session forgotten that was always active. Of the server:
  an end of `run_server()` that leaves the client's transport open without a failed
  `close()`, also after a failed login and with signals at any time; a server no
  signal has reached that serves without a live client; a read over a closed
  transport, but while the closing is awaited, after one that failed, and for a login
  that ended after a signal had closed its client.
- `RegistryCorrect`: a class that replaces one its creation must have seen,
  definitions cached without a class, a class that refuses the records read with
  the server's present fields.

**LazyQueue** (finding). A relation that is queued while the batch of its field is
fetching waits for that batch, whose queue was taken before, and `load()` returns
`None` for a relation with records.

**DomainsAsWritten** (finding). `Q(a) | Q(b)` becomes `[a, '|', b]`: the operator
stands between its operands, where Odoo finds one operand for it only, while the docs
give `['|', a, b]` as the result (`src/docs/api-reference/query/filters.md:165`).

### Bounds and why they are enough

All bounds are constants of the modules (`MaxOps`, `MaxSavepoints`,
`MaxEffects`, `MaxTx`, `MaxCreated`, `MaxFailures`) and appear in guards of the
actions that would exceed them.

- Two tasks, or users, make every pair of overlapping calls; nothing in the code
  distinguishes a third. The theorems are for any number.
- Two operations and two savepoints are the least with an order to get wrong and
  a savepoint between them. Deletions are used because only recreating twice differs
  from recreating once, creations because only theirs may find a record missing (an
  update is undone like a creation that never does), and both with and without data,
  because that is what `can_rollback()` looks at. One model has entries of all forms.
  `MCTransaction` adds two bounds of its own (`Bounded`): one savepoint at most once
  calls have overlapped, and no context once something has gone wrong, as a context
  decides nothing. The theorems have no such bounds, and hold for caches without
  patterns too.
- Three transactions are three levels of nesting, two children of one parent, or
  a child added to a parent whose rollback awaits another child's.
- A pool of one that may grow to two reaches its maximum, falls below its size,
  and has a queue to be empty or not; three connections let one be replaced
  while another is in use. `close()` needs two connections to skip one.
  Failure threshold two and three failures counted let a failure come below the
  threshold, open the breaker, and arrive when it is open or half open already;
  success threshold two lets it stay half open for an answer. `MCConnectionPool`
  adds one bound (`Affordable`): while failures are counted, the last connection is
  left to the cleanup. When `MaxCreated` is reached
  the model stops creating, so `PoolRefills` asks nothing there.

- Two attempts are the least with a pause between them; threshold two lets one
  failed connection, counted twice, open the breaker at once, and one failed
  command not. A fallback of one entry is full after one `set()`, and two keys
  make the second evict or overwrite. Three moments let an entry with a ttl of
  one, and one with the default of two, run out. With `MaxFailures` counted
  since the last reset no further failure is taken, so a call there has to
  succeed or to be cancelled.

- `Components` has two tasks, which permuting does not distinguish
  (`TaskSymmetry`: no definition or property names one). *Retry*: every policy of the
  package, and five of a program's own for the strategies and jitters those do not use;
  a window of three, so that it slides; a clock of two, within which delays capped
  at two, timeouts of one and a recovery of one all pass. *Batch*: chunks of two and one chunk at a
  time, so that three items make two chunks of which one waits; three items
  executed once, or one executed by two tasks. *Lazy loading*: a relation with a
  record and an empty one, two loads, batches and invalidations. *Instances*: one
  instance, two rows, so that a second creation would show, two calls, which may be an
  update and the save after it; other writers only empty the row. *Strategies*: three keys
  over a strategy of one, so that each set may evict, three calls of two
  tasks, and a clock of one, at which an entry of that age has expired. *Cached calls*:
  one key and three requests, a promise that is old after one moment, which the clock
  reaches, a circuit that two failures open. *Client*: two logins
  of two tasks; nothing counts there, so nothing is bounded. *Domains*: one field, two
  lookups of texts and a null check given False, four expressions, two filters (the
  conversion of a lookup is checked for every one of them). *Queries*: two records. *MCP*: one name, two
  instances of two connections each, three loops. *Security*: a limit of two in a window of two,
  four moments, so that a window slides past its first request. *MCP server*: two
  signals, so that two stops overlap that of `run_server()`. *Registry*: one name, three classes, one
  change of the server's two fields, one of which is needed and one not stored.
  `MCComponents` bounds four things itself, as the theorems need no such bound: connects
  of both instances together (`MaxConnectsOfAll`); logins by API key, which only the part
  with the managers has, one user with a key and the other with a password
  (`LoginsBounded`); disabling a cache manager, over one strategy only
  (`DisablingBounded`); and expressions and filters together (`DomainsBounded`).

The runs `Transaction`, `ConnectionPool` and `RedisCache`, and the violation
runs beside them, do not look for deadlock: their bounds stop them (no
connection can be created any more, the clock stands still), a finished
transaction of which every savepoint is released has nothing left to do, and a
jammed Redis cache really stops. Nor do `Components`, `LazyQueue` and
`DomainsAsWritten`: their clocks and numbers of calls are bounded.
`TransactionManager` and the two other manager runs do.

### Fairness

- `Transaction` and `TransactionManager` have no liveness property: a walk goes down
  a finite list, the manager's calls over a finite tree, and what they await is a
  transport with a timeout.
- `ConnectionPool`: weak fairness of `Maintenance`. The cleanup task sleeps for
  a minute and goes on, and closing a client is bounded by a timeout of five
  seconds. Users, health checks and `close()` owe nothing.

- `RedisCache`: weak fairness of `Resume(t)`. Locks are granted in order and
  pauses end; that Redis answers, or its connection breaks, is an assumption
  about Redis: `socket_timeout` is stored by the code and never passed on, and
  only the first ping has a limit of its own.

- `Components` has safety properties only: whether its calls end is up to the server, the
  decorated function or the loader, of which the code says nothing (a batch's
  timeout and a retry policy's are in the models as steps that may be taken).

## What is proved

`TransactionProofs`, `TransactionManagerProofs`, `ConnectionPoolProofs`,
`RedisCacheProofs`, `CallsProofs` (of `Retry`, `CachedCalls` and `CacheStrategies`),
`ModelsProofs` (of `Client`, `Domains`, `Queries`, `Registry`, `LazyLoading` and
`Records`), `McpProofs` (of `Mcp`, `McpSecurity` and `McpServer`) and `ListProofs`
contain only theorems about the modules TLC checks. The theorems hold for all tasks,
users, logins, models, comparisons, relations, policies, kinds, thresholds and bounds
that satisfy the assumptions the modules name (`ConstantsAssumption`,
`ThresholdAssumption`, `TaskAssumption`, `RetryAssumption`, ...), which say of the
constants what the code's constructors expect, and of the tasks that there are finitely
many. `Client` needs no assumption.

| theorem | says | argument |
|---|---|---|
| `TypeCorrect` | `Spec => []TypeOK` of `Transaction` | `TypeOK` is inductive as it stands, because it includes that log, suspended walks and positions are within `records`. One lemma per operation; those that walk share `WalkOnType`. |
| `CompensatesInReverse` | `Spec => []ReverseOrder` | Inductive with `TypeOK`. A step of the walk leaves nothing pending between its old and its new position (`WalkStepRecords`); nobody makes a record pending again, and a new record is in no list already walked. |
| `StatusesTruthful` | `Spec => []StatusTruthful` | Inductive with `TypeOK`: `CompensationReturns` writes "success" together with the effect, `CompensationMissing` for a creation only, and an effect without a status change needs a cancellation. |
| `SavepointsStayWithinLog`, `NothingForgotten` | `Spec => []SavepointsWithinLog` and `Spec => []NothingLost` | With `Undisturbed`: as long as calls do not overlap, the list a suspended walk goes over is the end of the log (`Fits`), so that what a finished walk cuts off is what it has compensated (`WalkLog`, `WalkTurnStep`). `Within` and `Remembered` are then inductive. |
| `NeverRecreatedTwice` | `Spec => []NoDuplicateRecreation` | The record whose compensation is awaited has had no effect (`CalledFresh`), because a walk stops only at pending records and `StatusTruthful` says what pending means. |
| `CommitsInvalidate` | `Spec => []CommittedMeansInvalidated` | `Covered`: every model written is noted, with keys and patterns, and what is stale and can be reached is missed, or still before every suspended commit (`Due`). For caches with and without patterns. |
| `FinishedStays` | `Spec => FinalStateStays` | By `Undisturbed` nothing is suspended once the state is final. |
| `LogStaysInOrder` | `Spec => []LogInOrder` | With `TypeOK`: a new operation has the highest number, and every other step leaves the log, empties it or cuts its end, calls overlapping or not. |
| `TransactionImplementsAtomic` | `Spec => ImplementsAtomic` | Once excused, anything maps. Before (`Good`), `Steady`: what is in force is the log up to the operation a suspended walk awaits (`InForceIs`). `AtomicBegin` maps the first state; `AtomicStep` maps every step: adding to `CarryOut`, a compensation to `Undo` (`ReturnMaps`), the end of a commit or of an empty rollback to `End`, all else to a stutter. |
| `ActiveCorrect`, `CurrentCorrect` | `Spec => []ActiveIsOpen` and `Spec => []CurrentIsInnermost` of `TransactionManager` | From `Base`: `Shape` (what each frame names, blocks below calls, rollbacks of ever younger transactions), `Control` (who runs, with which exception), `Nested` (the registry holds the transactions of the open blocks, no transaction has two; as long as tasks take turns, each block's `previous` is the block below it). Every step but entering and leaving a block is `Quiet`: it changes one stack at its top and no block of it (`CallsAreQuiet`). |
| `ChildrenFirstCorrect`, `RollbackAllCorrect` | `Spec => []ChildrenFirst` and `Spec => RollbackAllReaches` | With `Pending`: every active child of a transaction being rolled back is still to come, or being rolled back higher up in the same stack (`Taken`); so for `rollback_all()` and what was registered. |
| `NoneLeftCorrect` | `Spec => []NoneLeftActive` | With `Ending`: a block on its way out whose transaction is active has the call that ends it on top, and what is active is registered; so `Leave` finds it ended (`ExitEnded`). |
| `CountersCorrect` | `Spec => []CountersAgree` | With `Counting`: only transactions with open blocks are being ended, so that those counted keep their state. |
| `OutcomeCorrect` | `Spec => []OutcomeHolds` | With `Logging`: a log is the operations made in its transaction until it is rolled back, those stand and none was attempted (`Told`), a suspended rollback has all of them in hand, and no exception passes a call (`Calling`). |
| `BreakerConsistent` | `Spec => []BreakerAgrees` | `Consistent` adds the breaker's type; `BreakerCalls` shows that the three calls keep it, `BreakerSteps` that the pool makes no other change. |
| `ConnectionsExclusive` | `Spec => []Exclusive` | From `PoolInv`: list, queue and users name existing connections, a user that uses or closes one holds one, and `Exclusive`. A new connection has a number nobody holds (`NewOwner`); one taken from the queue leaves it (`TakeOwner`); one given back was with this user only (`ReturnOwner`). |
| `ListBounded` | `Spec => []TrackedWithinMax` | The other half of `PoolInv`: the list is bounded, and before `initialize()` it is empty and every user is out, so that the first filling of the pool starts from nothing. Every later creation is guarded by the length at that step. |
| `NoDeadEntryStays`, `NothingIsLost` | `Spec => []NoDeadEntries` and `Spec => []Accounted` of `ConnectionPool` | From `PoolInv` and `ListInv`: the list names each connection once (`Lists`), whoever closes a connection has shut it, and a connection that is not shut is somewhere (`Books`). `UserStep` and `TaskStep` say what a step of a user or of a task has to do with list, queue and shut connections; one lemma per action shows that it does. |
| `PoolTyped` | `Spec => []TypeOK` of `ConnectionPool` | The types are in `PoolInv`, `Lists` and `Consistent`; every creation is guarded by the bound. |
| `OpenHandedOut` | `Spec => HandedOutOpen` | From `OpenOnes`: before a task has closed anything, what the queue and the users have is open, because users close only what they hold, and that is not in the queue (`Exclusive`). |
| `RedisBreakerAgrees` | `Spec => []BreakerAgrees` of `RedisCache` | `BreakerInv` adds the breaker's type. `FailureAgrees` is about one failure in any state, so that the two of a failed connection follow from applying it twice; `BreakerSteps` shows that nothing else changes the breaker. |
| `OneConnection` | `Spec => []SingleConnection` | From `ConnectionInv`: the lock's queue and the calls agree (`Queue`: who waits or is inside is in the queue once, who is inside comes first), and who connects has seen no connection (`Connects`). One lemma for each way the queue changes: a call stays, joins, leaves from the head, or is cancelled out of the middle. |
| `FallbackStaysCorrect`, `MemoryCacheCorrect` | `Spec => []FallbackCorrect`, and the same of a `MemoryCache` alone with all its calls | From `MemoryInv`: entries and expiry times agree (`Sound`: keys apart, no more than the maximum, and the expiry time of each entry is what its own `set()` was told), so that a hit is in time. Eviction, expiry, deletion and the move of a hit leave some of the entries, each once (`Part`), and `PartSound` says that these agree; only `set()` adds one (`MemorySetSound`). `FallbackSteps` maps every step of `RedisCache` to one of the fallback's. |
| `ClientSafe` | `ClientSpec => []ClientCorrect` | From `ClientInv`: session and calls of one login, what a task that loads a context may find, what each call of a create has made, and what is closed or shut at each step of a close. |
| `QueriesFollowCreates` | `QuerySpec => []QueriesCorrect` | From `QueryInv`, which says of each task what it knows: a result that was served is of a table no older than the last invalidation, or is marked late; the record a create made is in every table from then on. |
| `RegistrySafe` | `RegistrySpec => []RegistryCorrect` | From `RegistryInv`: `models` holds the last class of each name, the name of a creation under way had no class when it began, and the fields of a class are of one answer of the server. `RegisteredSound` is about one more class, whoever registers it. |
| `RetrySafe` | `RetrySpec => []RetryCorrect` | From `RetryInv`: the counter of the adaptive strategy is that of its window (`AppendedCount`, `TailCount` when it slides), the breaker's state is what its count says, and each call keeps to attempts and time. `DelayBound`: no strategy and no jitter makes a delay longer than `Longest`, for every attempt, the powers and Fibonacci numbers the strategies use being defined by recursion. |
| `StampedeSafe`, `CircuitSafe` | `StampedeSpec => []CallsCorrect`, `CircuitSpec => []CallsCorrect` | From `PromiseInv`: a promise is that of an owner of its key, and, as long as nothing failed or was thrown away, what runs is the promise of its key (`Kept`). `CircuitInv`: the count passes the threshold by no more than the calls that may still report a failure (`Under`). |
| `CacheSafe` | `CacheSpec => CacheCorrect` | From `CacheInv`: over a `MemoryCache` there is a task such that only it may be in a call, and then every stored key is booked but the one it deletes, and one key at most is still to be evicted (`MemoryAt`). `RoomLeft` is the action property. |
| `BatchSafe` | `BatchSpec => []BatchCorrect` | From `BatchInv`. The counts of an execution are those of the results its loop has awaited (`CountsFit`). The operations of a batch are apart (`OperationsFit`), so are slices of one (`SlicesApart`) and so the chunks of an execution (`ChunksWait`); in order of priority they start, no more than `MaxConcurrency` at a time (`InOrder`, `AtWork`). Each copy of a record is charged to an execution whose bulk call for it, or whose own call for it, is over (`CopiesFit`: `Bulked`, `Singled`), of which each execution has one. `SlicesJoined` is about `split()` for every list and every chunk size. |
| `LazySafe`, `RecordsSafe`, `ModelsSafe` | `LazySpec => []LazyCorrect`, `RecordsSpec => []RecordsCorrect`, both `=> []ModelsCorrect` | `LazyInv`: what runs is the loader's own load, begun after its last invalidation (`OneLoad`); the batch under way is that of `_batch_tasks` (`OneBatch`); a relation somebody waits for is in the queue, in a batch that goes on, or answered (`Served`). `RecordsInv`: while nobody else writes, there is a task such that only it may be in a call, and instance and row agree but for the fields its call is about (`StandsAt`, `OpenFields`). |
| `DomainsSafe` | `DomainSpec => []DomainsCorrect` | Every lookup is looked at for itself (`LookupsHold`). A domain that Odoo reads as some conditions puts the same ones in front of whatever is on the stack (`Stands`). So `Stands` goes on from the operands to what expressions make of them (`KeywordsInSomeOrder`, `ConcatenationStands`, `NotStands`, `OrStands`), and every expression, of any size, is `Understood`. |
| `McpSafe` | `McpSpec => []McpCorrect` | From `McpInv`: the one task at an instance has found it under its name and knows how far its link is (`Owned`, `Knows`); an instance nobody is at and no name has has nothing open. |
| `McpServerSafe` | `McpServerSpec => []McpServerCorrect` | `RateInv`: the deque of a caller is the end of the history of what was granted to it, and what was popped is outside of the window (`History`). `SessionInv`: a session that expired has been noted. `ServerInv`: how far the client is in each phase (`ClientAt`), who is closing it, and who may read over what (`ReadsAt`). |

`SavepointsWithinLog`, `NothingLost` and `FinalStateStays` are not inductive: what the
end of a walk does to log, savepoints and state is right only because the list walked
is still the end of the log and the savepoint's position is still where it was, which
`Sequential` says of the frame of the suspended task. `NoDuplicateRecreation` needs to
know of the awaited record what `StatusTruthful` no longer tells once it is called
upon, and `CommittedMeansInvalidated` what a commit has still before it.

`CurrentIsInnermost` is not inductive: what becomes current when a block is left is
what its transaction remembers, so `previous` has to be right of every block below.
`ChildrenFirst`, `NoneLeftActive`, `CountersAgree` and `OutcomeHolds` are about what is
there when a call ends; `Pending`, `Ending`, `Counting` and `Logging` say of calls under
way what they have still to do.

`SingleConnection` alone is not inductive: that the next task to enter finds
nobody connecting needs the order of the queue, and that no task is in it twice.
`NeverLate` alone is not inductive: it needs that what is in the second dictionary
belongs to the entry in the first, which an eviction or an overwriting has to keep.
`Exclusive` alone is not inductive: `Replace` gives a user a new connection
and drops the old one, and only knowing that a user in "replacing" holds an
existing connection, and that no number beyond `Len(conns)` occurs anywhere,
excludes that the new one is somebody else's. `TrackedWithinMax` needs that
`Request` initializes an empty list.
`NoDeadEntries` needs that no connection is in the list twice: `list.remove()` takes
out one entry only. `Accounted` needs that what a user in "replacing", "closing" or
"retiring" holds has been shut, as it forgets the connection afterwards.

`QueriesCorrect` is not inductive: that a query's answer may be stored needs that
it was read after the last invalidation, which is known of the task and not of the
cache. `RegistryCorrect` needs the creations under way, `ClientCorrect` the calls.
Of the others too, what is wanted between calls is an invariant only together with what
holds during them: `BooksBalance` and `RecordStands` with the one call that may be under
way, `BatchCreates` with what each chunk's calls have made so far, `RelationsServed` with the queue, `RateExact` with the order of the times in the
deque, `DomainsMean` with what a domain does in front of others.

A function a module defines by recursion (`power` and `fibonacci` of `Retry`, `Keeping`,
`Joined` and `Total` of `Lists`, `ReadOnto` of `Domains`) is no more than a CHOOSE to the prover. `ListProofs`
shows that such functions exist (`RecursionOnNat`, `LoopExists`) and gives induction over
a set of numbers in place of a formula (`EveryNatural`, `EveryPosition`), from the
library's well-foundedness of `<`; so what these functions return is proved for all
arguments. The library's operators `SelectSeq`, `FoldLeft`, `FlattenSeq`, `^`, `@@` and
`:>` have no rules for the prover, so that the modules proved about use such functions,
or functions written out, instead of them.

Only model-checked: liveness (`CallsEnd` of `RedisCache`, `PoolRefills`), which
is out of the prover's reach. Every invariant and every action property of the runs
that pass, and the refinement, are stated by a theorem.

## What is not modelled

- *Inside the modelled components*: names, timestamps, durations, statistics,
  logging; the rollback counters and the savepoint's parent link, which nothing
  reads; the text of keys and messages; explicit duplicate transaction ids;
  `active_connections` of the pool; a user cancelled while it waits for the
  pool's queue or for a client to close; which values the caches hold, what
  Redis contains, and a Redis cache whose fallback is switched off. A value
  that cannot be serialized is a failed attempt, as in the code.
  `MemoryDelete` and `MemoryClear` are part of `MemoryCache`, but no code path
  of its use as a fallback calls them.
- *Inside the components of `MCComponents`*: the text of keys, messages and
  domains' values; orderings, limits and prefetch lists of query sets; progress
  and retry callbacks; policies changed by decorating with overrides; several
  named cache backends; metrics and dependency tables of the decorators; the
  lists of tools, resources and prompts an MCP client caches; the arguments and
  results of the MCP server's tools, and its prompts, which are constant texts;
  of a model instance, fields of other types than text and lists of ids,
  `loaded_fields`, which nothing reads but its accessors, and what `hasattr()` lets
  `update()` assign to names that are no fields.
- *Pure I/O*: the HTTP exchange, JSON encoding, the configuration of MCP client
  and server, and the AI assistant, which holds no protocol of its own.
- *Declarations*: Pydantic models, field descriptors, exception classes.

## Other observations

What the code does, as modelled, where nothing in the repository says otherwise
in so many words, or where the difference is outside the properties above.

- *Transactions and caches*: a commit drops cached results of queries
  (`query:model:*`) because `add_operation()` notes their pattern
  (`transaction/manager.py:541`); `invalidate_model()` alone drops `model:*`, which
  matches none of them. Over Redis `invalidate_pattern()` drops nothing, so a commit
  leaves all of them there, though the docs show cached queries invalidated
  (`src/docs/api-reference/transaction/index.md:571`). What a nested transaction noted is
  never invalidated: its commit only marks it, and that of its root drops the root's.
  An unlink of several records that is refused because one is missing undoes nothing
  and counts as done (`transaction/manager.py:847`). Redis `delete()`, `exists()` and
  `clear()` do not reach the memory fallback (`cache/backends.py:749`). LFU aging
  forgets stored keys; LRU over Redis can exceed `max_size`. `sliding_cache` never
  stops sliding at `max_ttl` (`cache/decorators.py:412`) and may restore an
  invalidated value; a caller that is cancelled cancels the execution all share.
- *Queries*: `~` and `|` applied to operands of several conditions negate or join
  the first one only, so `exclude(a=1, b=2)` excludes on `a` alone and still asks for
  `b`. `isnull=False` selects what `isnull=True` does (`query/filters.py:112`), though
  the docs use it for fields that are set (`src/docs/tutorials/basic-crud.md:185`). The
  name of a lookup that is not in `LOOKUPS`, and so `company_id__name` of the
  docstring (`query/filters.py:27`), stays a part of the field's name. A query set's
  cached results are shared by reference; two concurrent `all()` of one query set
  run twice.
- *Lazy loading*: after `invalidate()` a relation is answered from
  `_prefetch_cache`, which nothing clears; a batch that fails marks its relations
  loaded with nothing.
- *Batches*: a failed bulk create is repeated one by one though it may have been
  carried out; a collector's list is passed by reference, so `add()` and `clear()`
  change a chunk under way; an update pops `"id"` from the caller's dictionary;
  `retry_attempts` is stored and never used.
- *Retry*: the decorators never call `on_success()` and `on_failure()`, so breaker
  policy and graceful degradation do nothing; the retry condition of
  `NetworkRetryPolicy` (`retry/policies.py:350`) is never asked, since its
  exception is not among those retried.
- *Client*: `clear()` leaves the password; a key login keeps the former one; a
  context that arrives late may be another login's; a close that raises leaves the
  transport open; the fallback's `_validate_required_fields()` swallows its own
  `ValidationError`; later definitions of `setup_transaction_manager()` and
  `setup_batch_manager()` shadow earlier ones (`client.py:657`, `client.py:1178`).
- *Registry*: a `fields_get()` that fails registers a class without fields;
  `base_fields` registers a partial class that later callers get; definitions are
  cached only for names with a class and so never used.
- *Instances*: the validator takes every list of two integers for an id and a name
  (`models/base.py:155`): a record whose field of many ids has exactly two cannot be
  constructed, and a list of two that was assigned becomes its first id at the next
  assignment of any field, with which the next `save()` is refused. `save()`
  writes every field that is set, not those modified, and so undoes what others
  wrote meanwhile; `delete()` leaves the id, and a later `save()` fails.
- *MCP server*: `create_record`, `update_record`, `delete_record` and
  `batch_operation` always raise, as the server sets up no transaction manager
  (`mcp_server/server.py:613`); `analytics_query` calls a `group_by()`
  that no query has; `get_record` with `fields` and `complex_search` without
  filters and order raise, and both do for models that are not registered. After a
  signal the server goes on serving with a closed client, and the task that cleans
  up sessions is never cancelled.
- *MCP*: a removal under way forgets a server added again under its name; a name
  added again never closes the old connection; a failing end of a session leaves
  the client connected without one; monitoring started during a stop is lost. The
  server never calls the rate limiter and the session checks of its security
  manager.

## The plan

Done, in this order, by what can go wrong and is hard to test: `Transaction`,
`AtomicTransaction`, `TransactionManager`, `CircuitBreaker`, `ConnectionPool`;
`MemoryCache` and `RedisCache`; `Retry`, `Batch`, `LazyLoading`; `CacheStrategies`,
`CachedCalls`; `Client`, `Domains`, `Queries`, `Mcp`, `McpSecurity`, `Registry`,
`Records`, `McpServer`, composed by `MCComponents`; the proofs listed above.

What is left: the keys of cached functions and queries as functions of their
arguments, and the field descriptors of `models/fields.py`.

Runs are kept few: one for each component or composition, and one more where the
code disagrees with what it says of itself. Modules that are to be proved about
use no RECURSIVE operator, and no empty string, which the prover's backend does not
accept.
