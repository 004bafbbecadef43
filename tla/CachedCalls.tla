------------------------------ MODULE CachedCalls ------------------------------
(****************************************************************************)
(* Functions decorated with async_cached, whose callers share one execution  *)
(* through the promises of CacheStampedeManager, or call it unguarded as     *)
(* under metrics_cached and cache_result; with sliding_cache; and with       *)
(* circuit_cached, which has a circuit breaker.  The cache keeps or loses a  *)
(* value as it likes; the function fails when it likes; a caller may be      *)
(* cancelled at every await.                                                 *)
(****************************************************************************)
EXTENDS Tasks

CONSTANTS
    FunctionKey,        \* cache keys of the calls of the function
    PromiseLifetime,    \* _cleanup_interval
    CircuitThreshold,   \* circuit_breaker_threshold
    CircuitTimeout,     \* circuit_breaker_timeout
    MaxRequests,        \* bound: calls of the function with async_cached
    CallHorizon         \* bound: the time at which the clock stops

ASSUME CallAssumption ==
    /\ FunctionKey # {}
    /\ CircuitThreshold \in Nat \ {0}
    /\ {PromiseLifetime, CircuitTimeout, MaxRequests, CallHorizon} \subseteq Nat

VARIABLES
    values,     \* keys the cache has a value of
    promises,   \* _promises: the execution of each key, or 0
    executions, \* tasks made of execute_function()
    tidied,     \* _last_cleanup
    forgotten,  \* promises were removed by age or by clear()
    callers,    \* the call of each task
    callStats,  \* CacheMetrics of the function
    circuit     \* circuit_open, failure_count, last_failure_time

callVars == <<values, promises, executions, tidied, forgotten, callers,
              callStats, circuit>>

\* The function runs, its result is stored, and the task is done.
SharedExecution ==
    [key : FunctionKey, pc : {"running", "storing", "cancelling", "done"},
     made : Nat, outcome : {"none", "data", "raised", "cancelled"}]

\* A call awaits the cache, a promise that it made or found, or the function
\* (direct, storing); "stale" and "extending" are of circuit_cached, "refused"
\* of its open circuit.
Calling ==
    [pc : {"idle", "looking", "owning", "waiting", "direct", "storing",
           "refused", "stale", "extending"},
     key : FunctionKey, promise : Nat, began : Nat]

NotCalling == [pc |-> "idle", key |-> CHOOSE k \in FunctionKey : TRUE,
             promise |-> 0, began |-> 0]

NoPromises == [k \in FunctionKey |-> 0]

NoMetrics == [total |-> 0, hits |-> 0, misses |-> 0, prevented |-> 0]

ClosedCircuit == [open |-> FALSE, failures |-> 0, last |-> 0]

CallInit ==
    /\ values = {}
    /\ promises = NoPromises
    /\ executions = <<>>
    /\ tidied = 0
    /\ forgotten = FALSE
    /\ callers = [t \in Task |-> NotCalling]
    /\ callStats = NoMetrics
    /\ circuit = ClosedCircuit

stampede == <<promises, executions, tidied, forgotten, callStats>>

CallGoes(t, pc) ==
    callers' = [callers EXCEPT ![t] = IF pc = "idle" THEN NotCalling
                                      ELSE [@ EXCEPT !.pc = pc]]

(****************************************************************************)
(* async_cached.                                                            *)
(****************************************************************************)

CallBegins(t, k) ==
    /\ callers[t].pc = "idle"
    /\ callStats.total < MaxRequests
    /\ callers' = [callers EXCEPT ![t] = [pc |-> "looking", key |-> k,
                                          promise |-> 0, began |-> 0]]
    /\ callStats' = [callStats EXCEPT !.total = @ + 1]
    /\ UNCHANGED <<now, values, promises, executions, tidied, forgotten, circuit>>

CallHits(t) ==
    /\ callers[t].pc = "looking"
    /\ callers[t].key \in values
    /\ CallGoes(t, "idle")
    /\ callStats' = [callStats EXCEPT !.hits = @ + 1]
    /\ UNCHANGED <<now, values, promises, executions, tidied, forgotten, circuit>>

Missed == callStats' = [callStats EXCEPT !.misses = @ + 1]

\* _cleanup_old_promises(): those that are done or old.
Tidies == now - tidied >= PromiseLifetime

Tidied ==
    IF Tidies
    THEN [k \in FunctionKey |->
             IF \/ promises[k] = 0
                \/ executions[promises[k]].pc = "done"
                \/ now - executions[promises[k]].made > PromiseLifetime
             THEN 0 ELSE promises[k]]
    ELSE promises

CallMissesAlone(t) ==
    LET k == callers[t].key
    IN  /\ callers[t].pc = "looking"
        /\ Missed
        /\ executions' = Append(executions, [key |-> k, pc |-> "running",
                                             made |-> now, outcome |-> "none"])
        /\ promises' = [promises EXCEPT ![k] = Len(executions) + 1]
        /\ callers' = [callers EXCEPT ![t].pc = "owning",
                                      ![t].promise = Len(executions) + 1]
        /\ UNCHANGED <<now, values, tidied, forgotten, circuit>>

\* A miss, or a get() of the cache that raised: get_or_create_promise().  The
\* lock is held across no await, so that nobody ever waits for it.
CallMisses(t) ==
    LET k == callers[t].key
    IN  /\ callers[t].pc = "looking"
        /\ Missed
        /\ tidied' = IF Tidies THEN now ELSE tidied
        /\ forgotten' = (forgotten \/ Tidied # promises)
        /\ \/ /\ Tidied[k] # 0
              /\ promises' = Tidied
              /\ callers' = [callers EXCEPT ![t].pc = "waiting",
                                            ![t].promise = Tidied[k]]
              /\ UNCHANGED executions
           \/ /\ Tidied[k] = 0
              /\ executions' = Append(executions,
                                      [key |-> k, pc |-> "running",
                                       made |-> now, outcome |-> "none"])
              /\ promises' = [Tidied EXCEPT ![k] = Len(executions) + 1]
              /\ callers' = [callers EXCEPT ![t].pc = "owning",
                                            ![t].promise = Len(executions) + 1]
        /\ UNCHANGED <<now, values, circuit>>

\* prevent_stampede = False.
CallMissesUnguarded(t) ==
    /\ callers[t].pc = "looking"
    /\ Missed
    /\ forgotten' = TRUE
    /\ CallGoes(t, "direct")
    /\ UNCHANGED <<now, values, promises, executions, tidied, circuit>>

ExecutionEnds(e, outcome) ==
    executions' = [executions EXCEPT ![e].pc = "done", ![e].outcome = outcome]

ExecutionReturns(e) ==
    /\ executions[e].pc = "running"
    /\ executions' = [executions EXCEPT ![e].pc = "storing"]
    /\ UNCHANGED <<now, values, promises, tidied, forgotten, callers, callStats,
                   circuit>>

ExecutionRaises(e) ==
    /\ executions[e].pc = "running"
    /\ ExecutionEnds(e, "raised")
    /\ UNCHANGED <<now, values, promises, tidied, forgotten, callers, callStats,
                   circuit>>

\* A set() of the cache that fails is logged.
ExecutionStores(e, kept) ==
    /\ executions[e].pc = "storing"
    /\ values' = IF kept THEN values \cup {executions[e].key} ELSE values
    /\ ExecutionEnds(e, "data")
    /\ UNCHANGED <<now, promises, tidied, forgotten, callers, callStats, circuit>>

ExecutionCancelled(e) ==
    /\ executions[e].pc = "cancelling"
    /\ ExecutionEnds(e, "cancelled")
    /\ UNCHANGED <<now, values, promises, tidied, forgotten, callers, callStats,
                   circuit>>

\* pop(cache_key): whatever promise the key has now.
Popped(k) == promises' = [promises EXCEPT ![k] = 0]

OwnerLeavesPromise(t) ==
    LET e == executions[callers[t].promise]
    IN  /\ callers[t].pc = "owning"
        /\ e.pc = "done"
        /\ IF e.outcome = "raised" THEN Popped(callers[t].key)
           ELSE UNCHANGED promises
        /\ CallGoes(t, IF e.outcome = "raised" THEN "direct" ELSE "idle")
        /\ UNCHANGED <<now, values, executions, tidied, forgotten, callStats, circuit>>

\* The caller that made the promise resumes; if the function raised, it calls
\* the function again, itself.
OwnerResumes(t) ==
    LET e == executions[callers[t].promise]
    IN  /\ callers[t].pc = "owning"
        /\ e.pc = "done"
        /\ Popped(callers[t].key)
        /\ CallGoes(t, IF e.outcome = "raised" THEN "direct" ELSE "idle")
        /\ UNCHANGED <<now, values, executions, tidied, forgotten, callStats, circuit>>

\* So does every caller that found the promise, and each removes a promise.
WaiterResumes(t) ==
    LET e == executions[callers[t].promise]
    IN  /\ callers[t].pc = "waiting"
        /\ e.pc = "done"
        /\ IF e.outcome = "raised" THEN Popped(callers[t].key)
           ELSE UNCHANGED promises
        /\ CallGoes(t, IF e.outcome = "raised" THEN "direct" ELSE "idle")
        /\ callStats' = IF e.outcome = "data"
                        THEN [callStats EXCEPT !.prevented = @ + 1]
                        ELSE callStats
        /\ UNCHANGED <<now, values, executions, tidied, forgotten, circuit>>

\* The function called by the caller itself returns or raises.
DirectEnds(t, returns) ==
    /\ callers[t].pc = "direct"
    /\ CallGoes(t, IF returns THEN "storing" ELSE "idle")
    /\ UNCHANGED <<now, values, stampede, circuit>>

\* The set() that follows; one that fails is logged.
ValueStored(t) ==
    /\ callers[t].pc \in {"storing", "extending"}
    /\ CallGoes(t, "idle")
    /\ values' \in {values, values \cup {callers[t].key}}
    /\ UNCHANGED <<now, stampede, circuit>>

\* sliding_cache stores what it found again, with a new lifetime.
SlidingHits(t) ==
    /\ callers[t].pc = "looking"
    /\ callers[t].key \in values
    /\ CallGoes(t, "extending")
    /\ UNCHANGED <<now, values, stampede, circuit>>

\* A caller that is cancelled cancels what it awaits, for all who await it.
CallCancelled(t) ==
    /\ \/ /\ callers[t].pc \notin {"idle", "owning", "waiting"}
          /\ CallGoes(t, "idle")
          /\ UNCHANGED <<executions, promises>>
       \/ /\ callers[t].pc \in {"owning", "waiting"}
          /\ executions[callers[t].promise].pc \in {"running", "storing"}
          /\ executions' = [executions EXCEPT
                               ![callers[t].promise].pc = "cancelling"]
          /\ UNCHANGED <<callers, promises>>
       \/ /\ callers[t].pc \in {"owning", "waiting"}
          /\ executions[callers[t].promise].pc = "done"
          /\ CallGoes(t, "idle")
          /\ IF callers[t].pc = "owning" THEN Popped(callers[t].key)
             ELSE UNCHANGED promises
          /\ UNCHANGED executions
    /\ UNCHANGED <<now, values, tidied, forgotten, callStats, circuit>>

\* clear_cache_stampede_promises().
PromisesCleared ==
    /\ promises' = NoPromises
    /\ promises' # promises
    /\ forgotten' = TRUE
    /\ UNCHANGED <<now, values, executions, tidied, callers, callStats, circuit>>

\* A value expires, is evicted or invalidated.
ValueGoes(k) ==
    /\ k \in values
    /\ values' = values \ {k}
    /\ UNCHANGED <<now, stampede, callers, circuit>>

StampedeNext ==
    \/ \E t \in Task :
          \/ \E k \in FunctionKey : CallBegins(t, k)
          \/ CallHits(t)
          \/ CallMisses(t)
          \/ CallMissesUnguarded(t)
          \/ OwnerResumes(t)
          \/ WaiterResumes(t)
          \/ SlidingHits(t)
          \/ \E returns \in BOOLEAN : DirectEnds(t, returns)
          \/ ValueStored(t)
          \/ CallCancelled(t)
    \/ \E e \in DOMAIN executions :
          \/ ExecutionReturns(e)
          \/ ExecutionRaises(e)
          \/ \E kept \in BOOLEAN : ExecutionStores(e, kept)
          \/ ExecutionCancelled(e)
    \/ PromisesCleared
    \/ \E k \in FunctionKey : ValueGoes(k)
    \/ Later(CallHorizon) /\ UNCHANGED callVars

(****************************************************************************)
(* circuit_cached.                                                          *)
(****************************************************************************)

\* A call that finds the circuit open looks for stale data, unless the time of
\* the circuit is over.
CircuitBegins(t, k) ==
    LET over == now - circuit.last >= CircuitTimeout
    IN  /\ callers[t].pc = "idle"
        /\ callers' = [callers EXCEPT ![t] =
               [pc |-> IF circuit.open /\ ~over THEN "refused" ELSE "looking",
                key |-> k, promise |-> 0, began |-> now]]
        /\ circuit' = IF circuit.open /\ over
                      THEN [circuit EXCEPT !.open = FALSE, !.failures = 0]
                      ELSE circuit
        /\ UNCHANGED <<now, values, stampede>>

\* get() answers: stale data or CacheError; a hit, or the function is called.
\* The get() of a miss may have raised.
CircuitLooks(t) ==
    /\ \/ callers[t].pc = "refused" /\ CallGoes(t, "idle")
       \/ /\ callers[t].pc = "looking"
          /\ callers[t].key \in values
          /\ CallGoes(t, "idle")
       \/ callers[t].pc = "looking" /\ CallGoes(t, "direct")
    /\ UNCHANGED <<now, values, stampede, circuit>>

CircuitKeepsOpen(t) ==
    /\ callers[t].pc = "direct"
    /\ circuit' = [circuit EXCEPT !.failures = 0]
    /\ CallGoes(t, "storing")
    /\ UNCHANGED <<now, values, stampede>>

\* A success closes the circuit, also one that has opened meanwhile.
CircuitSucceeds(t) ==
    /\ callers[t].pc = "direct"
    /\ circuit' = [circuit EXCEPT !.open = FALSE, !.failures = 0]
    /\ CallGoes(t, "storing")
    /\ UNCHANGED <<now, values, stampede>>

\* last_failure_time is the time at which the call that failed began.
CircuitFails(t) ==
    /\ callers[t].pc = "direct"
    /\ circuit' = [open |-> circuit.open
                              \/ circuit.failures + 1 >= CircuitThreshold,
                   failures |-> circuit.failures + 1,
                   last |-> callers[t].began]
    /\ CallGoes(t, "stale")
    /\ UNCHANGED <<now, values, stampede>>

\* Stale data is stored again for fallback_ttl, or the call raises.
CircuitFallsBack(t) ==
    /\ callers[t].pc = "stale"
    /\ CallGoes(t, IF callers[t].key \in values THEN "extending" ELSE "idle")
    /\ UNCHANGED <<now, values, stampede, circuit>>

CircuitNext ==
    \/ \E t \in Task :
          \/ \E k \in FunctionKey : CircuitBegins(t, k)
          \/ CircuitLooks(t)
          \/ CircuitSucceeds(t)
          \/ CircuitFails(t)
          \/ CircuitFallsBack(t)
          \/ ValueStored(t)
          \/ CallCancelled(t)
    \/ \E k \in FunctionKey : ValueGoes(k)
    \/ Later(CallHorizon) /\ UNCHANGED callVars

\* A function has one decorator, so that no program mixes the two.
StampedeSpec == now = 0 /\ CallInit /\ [][StampedeNext]_<<now, callVars>>

CircuitSpec == now = 0 /\ CallInit /\ [][CircuitNext]_<<now, callVars>>

(****************************************************************************)
(* Properties.                                                              *)
(****************************************************************************)

CallTypeOK ==
    /\ values \in SUBSET FunctionKey
    /\ promises \in [FunctionKey -> Nat]
    /\ executions \in Seq(SharedExecution)
    /\ tidied \in Nat
    /\ forgotten \in BOOLEAN
    /\ callers \in [Task -> Calling]
    /\ callStats \in [total : Nat, hits : Nat, misses : Nat, prevented : Nat]
    /\ circuit \in [open : BOOLEAN, failures : Nat, last : Nat]

Undisturbed ==
    ~forgotten /\ \A e \in DOMAIN executions :
                     executions[e].outcome \notin {"raised", "cancelled"}

\* Until an execution fails or a promise is thrown away at most one execution
\* of a key runs, however many callers miss at once.
OneExecution ==
    Undisturbed =>
       \A k \in FunctionKey :
          Cardinality({e \in DOMAIN executions :
                          executions[e].key = k /\ executions[e].pc # "done"}) <= 1

\* No promise outlives the call that made it, so that a value computed once is
\* never handed out for ever, though callers remove each other's promises.
PromisesOwned ==
    \A k \in FunctionKey :
       promises[k] # 0 =>
          \E t \in Task : callers[t].pc = "owning" /\ callers[t].promise = promises[k]

\* Every request that got past the cache is counted once, and none is counted
\* as a prevented stampede that was not a miss.
RequestsCounted ==
    /\ callStats.hits + callStats.misses <= callStats.total
    /\ callStats.prevented <= callStats.misses

StampedePrevented == OneExecution /\ PromisesOwned /\ RequestsCounted

\* The circuit is open exactly if the failures since the last success or reset
\* reach the threshold, and they pass it by no more than the calls under way.
CircuitAgrees ==
    /\ circuit.open <=> circuit.failures >= CircuitThreshold
    /\ circuit.failures < CircuitThreshold + Cardinality(Task)
    /\ circuit.last <= now

\* What callers of a decorated function do to one another.
CallsCorrect == CallTypeOK /\ StampedePrevented /\ CircuitAgrees

================================================================================
