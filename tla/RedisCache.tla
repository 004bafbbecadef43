------------------------------- MODULE RedisCache ------------------------------
(****************************************************************************)
(* The RedisCache of zenoo_rpc (cache/backends.py): its connection, made by *)
(* one task at a time under _connection_lock, its circuit breaker under     *)
(* _circuit_lock, the retries of a call, and the MemoryCache it falls back  *)
(* to, whose variables and actions are those of that module.  Redis may     *)
(* answer anything, or raise.  Keys and values matter to the fallback only. *)
(*                                                                          *)
(* The circuit lock is held across an await in one place: the first success *)
(* of a half-open breaker acquires it again and waits for itself.  A task   *)
(* that waits for it elsewhere stays where it was.                          *)
(****************************************************************************)
EXTENDS MemoryCache

CONSTANTS
    Task,            \* asyncio tasks that use the cache
    Free,            \* the circuit lock's holder when there is none
    RetryAttempts,   \* retry_attempts
    Threshold,       \* circuit_breaker_threshold
    CanCancel,       \* may a suspended task be cancelled?
    MaxFailures      \* bound: failures counted since the last reset

ASSUME RedisAssumption ==
    /\ Free \notin Task
    /\ RetryAttempts \in Nat \ {0}
    /\ Threshold \in Nat \ {0}
    /\ CanCancel \in BOOLEAN
    /\ MaxFailures \in Nat

VARIABLES
    connected,    \* _connected
    connecting,   \* _connecting
    connection,   \* _connection_lock: its holder, then the tasks that wait
    circuit,      \* the task that holds _circuit_lock
    breaker,      \* _circuit_state and _failure_count
    call          \* what each task is doing

redisVars == <<connected, connecting, connection, circuit, breaker, call>>
vars == <<redisVars, memoryVars>>

\* "direct" is any of delete(), exists() and clear(), which know no breaker.
Op == {"get", "set", "direct", "connect", "close"}

\* A call in "entering" waits for the connection lock; in "polling" it sleeps
\* until _connecting is cleared; in "resetting" it has connected and waits for
\* the circuit lock; in "recording" for the circuit lock it holds itself.
Call ==
    [pc : {"idle", "entering", "polling", "connecting", "resetting",
           "calling", "backoff", "recording", "closing"},
     op : Op, attempt : Nat]

Idle == [pc |-> "idle", op |-> "connect", attempt |-> 0]

Breaker ==
    [state : {"closed", "open", "half_open"}, failure_count : Nat]

NewBreaker == [state |-> "closed", failure_count |-> 0]

Init ==
    /\ MemoryInit
    /\ connected = FALSE
    /\ connecting = FALSE
    /\ connection = <<>>
    /\ circuit = Free
    /\ breaker = NewBreaker
    /\ call = [t \in Task |-> Idle]

At(t, pc) == call[t].pc = pc

Goto(t, c) == call' = [call EXCEPT ![t] = c]

Return(t) == Goto(t, Idle)

(****************************************************************************)
(* The circuit breaker.                                                     *)
(****************************************************************************)

RecordFailure(b) ==
    IF b.failure_count + 1 >= Threshold
    THEN [b EXCEPT !.failure_count = @ + 1, !.state = "open"]
    ELSE [b EXCEPT !.failure_count = @ + 1]

\* Mutants of the definitions that follow them are named after the slip.
ResetButCount == [breaker EXCEPT !.state = "closed"]

\* _reset_circuit_breaker().
ResetBreaker == NewBreaker

\* The breaker's lock is free and its count below the bound of the model.
MayFail(n) == circuit = Free /\ breaker.failure_count + n <= MaxFailures

HalfOpenMisspelt(b) == [b EXCEPT !.state = "half-open"]

HalfOpen(b) == [b EXCEPT !.state = "half_open"]

\* _check_circuit_breaker() lets the call pass.
Passes ==
    \/ /\ breaker.state \in {"closed", "half_open"}
       /\ UNCHANGED breaker
    \/ /\ breaker.state = "open"
       /\ breaker' = HalfOpen(breaker)

(****************************************************************************)
(* Connecting.                                                              *)
(****************************************************************************)

\* connect() with the lock held and no connection: the attempt of a task that
\* was cancelled is waited for, in vain, or a new one is made.
Attempt(t, c) ==
    \/ /\ connecting
       /\ Goto(t, [c EXCEPT !.pc = "polling"])
       /\ UNCHANGED connecting
    \/ /\ ~connecting
       /\ connecting' = TRUE
       /\ Goto(t, [c EXCEPT !.pc = "connecting"])

FoundWithoutCheck(t, c) == Attempt(t, c) /\ UNCHANGED connection

\* A task that has waited for the connection lock looks for a connection again.
Found(t, c) ==
    \/ /\ connected
       /\ Goto(t, IF c.op = "connect" THEN Idle ELSE [c EXCEPT !.pc = "calling"])
       /\ connection' = Tail(connection)
       /\ UNCHANGED connecting
    \/ /\ ~connected
       /\ Attempt(t, c)
       /\ UNCHANGED connection

\* _ensure_connected() of call c, up to its first await.
Ensure(t, c) ==
    \/ /\ connected
       /\ Goto(t, IF c.op = "connect" THEN Idle ELSE [c EXCEPT !.pc = "calling"])
       /\ UNCHANGED <<connection, connecting>>
    \/ /\ ~connected
       /\ connection' = Append(connection, t)
       /\ IF connection = <<>>
          THEN Attempt(t, c)
          ELSE Goto(t, [c EXCEPT !.pc = "entering"]) /\ UNCHANGED connecting

Enter(t) ==
    /\ At(t, "entering")
    /\ Head(connection) = t
    /\ Found(t, call[t])
    /\ UNCHANGED <<connected, circuit, breaker, memoryVars>>

\* The breaker is reset, the lock released and the call goes on.
Connected(t) ==
    /\ breaker' = ResetBreaker
    /\ connection' = Tail(connection)
    /\ Goto(t, IF call[t].op = "connect" THEN Idle
               ELSE [call[t] EXCEPT !.pc = "calling"])

ConnectReturns(t) ==
    /\ At(t, "connecting")
    /\ connected' = TRUE
    /\ connecting' = FALSE
    /\ \/ circuit = Free /\ Connected(t)
       \/ /\ circuit # Free
          /\ Goto(t, [call[t] EXCEPT !.pc = "resetting"])
          /\ UNCHANGED <<connection, breaker>>
    /\ UNCHANGED <<circuit, memoryVars>>

Reset(t) ==
    /\ At(t, "resetting")
    /\ circuit = Free
    /\ Connected(t)
    /\ UNCHANGED <<connected, connecting, circuit, memoryVars>>

(****************************************************************************)
(* The end of a call.                                                       *)
(****************************************************************************)

SameAttempt(t) == call[t].attempt

NextAttempt(t) == call[t].attempt + 1

\* The last attempt has failed, or the breaker refuses: the call ends in the
\* fallback cache.
FallBack(t, op) ==
    /\ Return(t)
    /\ \E k \in Key :
          \/ op = "get" /\ MemoryGet(k)
          \/ op = "set" /\ \E ttl \in Ttl : MemorySet(k, ttl)

\* get() and set() after an attempt that raised.
Retry(t) ==
    \/ /\ call[t].attempt < RetryAttempts - 1
       /\ Goto(t, [call[t] EXCEPT !.pc = "backoff", !.attempt = NextAttempt(t)])
       /\ UNCHANGED memoryVars
    \/ /\ call[t].attempt >= RetryAttempts - 1
       /\ FallBack(t, call[t].op)

\* The failure is counted here, and for get() and set() once more by them.
ConnectFails(t) ==
    /\ At(t, "connecting")
    /\ connecting' = FALSE
    /\ connection' = Tail(connection)
    /\ \/ /\ call[t].op \in {"get", "set"}
          /\ MayFail(2)
          /\ breaker' = RecordFailure(RecordFailure(breaker))
          /\ Retry(t)
       \/ /\ call[t].op \notin {"get", "set"}
          /\ MayFail(1)
          /\ breaker' = RecordFailure(breaker)
          /\ Return(t)
          /\ UNCHANGED memoryVars
    /\ UNCHANGED <<connected, circuit>>

(****************************************************************************)
(* get(), set(), and the calls that do without breaker and retries.         *)
(****************************************************************************)

Begin(t) ==
    /\ At(t, "idle")
    /\ circuit = Free
    /\ \E op \in {"get", "set"} :
          \/ /\ Passes
             /\ Ensure(t, [Idle EXCEPT !.op = op])
             /\ UNCHANGED memoryVars
          \/ /\ breaker.state = "open"
             /\ FallBack(t, op)
             /\ UNCHANGED <<breaker, connection, connecting>>
    /\ UNCHANGED <<connected, circuit>>

BeginDirect(t) ==
    /\ At(t, "idle")
    /\ \E op \in {"direct", "connect"} : Ensure(t, [Idle EXCEPT !.op = op])
    /\ UNCHANGED <<connected, circuit, breaker, memoryVars>>

\* The end of the pause between two attempts.
Again(t) ==
    /\ At(t, "backoff")
    /\ Ensure(t, call[t])
    /\ UNCHANGED <<connected, circuit, breaker, memoryVars>>

\* A get() that finds nothing does not tell the breaker; nor do direct calls,
\* whether they return or raise.
CommandEnds(t) ==
    /\ At(t, "calling")
    /\ call[t].op \in {"get", "direct"}
    /\ Return(t)
    /\ UNCHANGED <<connected, connecting, connection, circuit, breaker,
                   memoryVars>>

\* _record_success() calls _reset_circuit_breaker() with the lock held.
CommandSucceeds(t) ==
    /\ At(t, "calling")
    /\ call[t].op \in {"get", "set"}
    /\ circuit = Free
    /\ \/ breaker.state # "half_open" /\ Return(t) /\ UNCHANGED circuit
       \/ /\ breaker.state = "half_open"
          /\ circuit' = t
          /\ Goto(t, [call[t] EXCEPT !.pc = "recording"])
    /\ UNCHANGED <<connected, connecting, connection, breaker, memoryVars>>

CommandFails(t) ==
    /\ At(t, "calling")
    /\ call[t].op \in {"get", "set"}
    /\ MayFail(1)
    /\ breaker' = RecordFailure(breaker)
    /\ Retry(t)
    /\ UNCHANGED <<connected, connecting, connection, circuit>>

(****************************************************************************)
(* close(), and cancellation.                                               *)
(****************************************************************************)

BeginClose(t) ==
    /\ At(t, "idle")
    /\ connected
    /\ Goto(t, [Idle EXCEPT !.pc = "closing", !.op = "close"])
    /\ UNCHANGED <<connected, connecting, connection, circuit, breaker,
                   memoryVars>>

CloseReturns(t) ==
    /\ At(t, "closing")
    /\ connected' = FALSE
    /\ MemoryClose
    /\ Return(t)
    /\ UNCHANGED <<connecting, connection, circuit, breaker>>

\* An exception is logged; the cache stays connected.
CloseFails(t) ==
    /\ At(t, "closing")
    /\ Return(t)
    /\ UNCHANGED <<connected, connecting, connection, circuit, breaker,
                   memoryVars>>

\* The lock's queue without t.
Without(t) ==
    IF t \in ToSet(connection)
    THEN RemoveAt(connection, CHOOSE i \in DOMAIN connection : connection[i] = t)
    ELSE connection

\* CancelledError is no Exception: locks are released, _connecting stays set,
\* unless the attempt had failed and its task waited for the circuit lock.
Cancelled(t) ==
    /\ CanCancel
    /\ ~At(t, "idle")
    /\ Return(t)
    /\ connection' = Without(t)
    /\ circuit' = IF circuit = t THEN Free ELSE circuit
    /\ \/ UNCHANGED connecting
       \/ At(t, "connecting") /\ circuit # Free /\ connecting' = FALSE
    /\ UNCHANGED <<connected, breaker, memoryVars>>

(****************************************************************************)
(* The specification.                                                       *)
(****************************************************************************)

\* Steps of a call that is under way: Redis answers or its connection breaks,
\* a pause ends, a lock is free.
Resume(t) ==
    \/ Enter(t)
    \/ ConnectReturns(t)
    \/ ConnectFails(t)
    \/ Reset(t)
    \/ Again(t)
    \/ CommandEnds(t)
    \/ CommandSucceeds(t)
    \/ CommandFails(t)
    \/ CloseReturns(t)
    \/ CloseFails(t)

Next ==
    \/ \E t \in Task :
          \/ Begin(t)
          \/ BeginDirect(t)
          \/ BeginClose(t)
          \/ Resume(t)
          \/ Cancelled(t)
    \/ RemoveExpired /\ UNCHANGED redisVars
    \/ Tick /\ UNCHANGED redisVars

Spec == Init /\ [][Next]_vars

\* Redis answers, or the connection to it breaks; that is assumed of it, as
\* the code sets no time limit but to its first ping.
FairSpec == Spec /\ \A t \in Task : WF_vars(Resume(t))

(****************************************************************************)
(* Properties.                                                              *)
(****************************************************************************)

\* Every variable keeps its type.
TypeOK ==
    /\ MemoryTypeOK
    /\ connected \in BOOLEAN
    /\ connecting \in BOOLEAN
    /\ connection \in Seq(Task)
    /\ circuit \in Task \cup {Free}
    /\ breaker \in Breaker
    /\ call \in [Task -> Call]

\* The count of failures tells the state of the breaker, though calls begun
\* before it opened fail, and connect, after it has.
BreakerAgrees ==
    breaker.state = "closed" <=> breaker.failure_count < Threshold

\* At most one task connects, only while there is no connection, and it holds
\* the lock ("singleton pattern"): a connection is never replaced by a second.
SingleConnection ==
    \A t \in Task : At(t, "connecting") =>
        /\ ~connected
        /\ connecting
        /\ connection # <<>> /\ Head(connection) = t
        /\ \A u \in Task : At(u, "connecting") => u = t

\* The fallback two tasks fill at once keeps its size and its keys apart, and
\* hands out nothing later than its time to live after it was set, although
\* entry and expiry time are in two dictionaries.
FallbackCorrect == TypeOK /\ WithinMaxSize /\ NeverLate

\* A task that waits for ever for the circuit lock it holds, or one that
\* polls for the end of a connection attempt that was cancelled.
Jammed == circuit # Free \/ \E t \in Task : At(t, "polling")

\* A call that has begun ends, after so many attempts, unless one of the two
\* jams comes about.
CallsEnd == \A t \in Task : ~At(t, "idle") ~> (At(t, "idle") \/ Jammed)

\* A half-open breaker closes once a call has succeeded ("Reset circuit breaker
\* to closed state").
SuccessCloses ==
    \A t \in Task : At(t, "recording") ~> breaker.state = "closed"

================================================================================
