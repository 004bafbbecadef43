---------------------------- MODULE ConnectionPool -----------------------------
(****************************************************************************)
(* The ConnectionPool of zenoo_rpc (transport/pool.py): users that request  *)
(* a connection, use it and release it, the two background tasks that check *)
(* and clean up connections, and close().  All are asyncio tasks: an action *)
(* is the code between two awaits that really suspend.  Closing a client    *)
(* suspends: the client refuses requests from the start of the call, and    *)
(* the pool drops the connection at its end, whether it timed out or not.   *)
(****************************************************************************)
EXTENDS Naturals, Sequences, SequencesExt, CircuitBreaker

CONSTANTS
    User,             \* tasks that use connections
    PoolSize,         \* pool_size
    MaxConnections,   \* max_connections
    MaxCreated,       \* bound: connections ever created
    MaxFailures       \* bound: failures counted by the breaker

ASSUME PoolAssumption ==
    /\ PoolSize \in Nat \ {0}
    /\ MaxConnections \in Nat
    /\ PoolSize <= MaxConnections
    /\ MaxCreated \in Nat
    /\ MaxFailures \in Nat

VARIABLES
    conns,        \* every PooledConnection ever created, in order
    connections,  \* ConnectionPool.connections
    queue,        \* ConnectionPool.available_connections
    initialized,  \* ConnectionPool.initialized
    closed,       \* ConnectionPool.closed
    breaker,      \* ConnectionPool.circuit_breaker
    user,         \* where each user is, and the connection it holds
    checker,      \* health_check_task
    cleaner,      \* cleanup_task
    closer,       \* the task that has called close()
    reaped        \* history: has a background task closed a connection?

vars == <<conns, connections, queue, initialized, closed, breaker, user,
          checker, cleaner, closer, reaped>>

Conn == 1..MaxCreated

\* shut says that the client refuses requests, erring that the error rate is
\* above max_error_rate.
PooledConnection ==
    [state : {"idle", "active", "unhealthy", "closed"}, shut : BOOLEAN,
     erring : BOOLEAN]

\* In "replacing", "closing" and "retiring" a user awaits the closing of conn.
UserState ==
    [pc : {"out", "waiting", "replacing", "using", "closing", "retiring"},
     conn : 0..MaxCreated]

\* A task that goes through connections: next is the position its iteration
\* of self.connections has reached, todo the ones it is going to close.
TaskState ==
    [pc : {"absent", "asleep", "pinging", "failing", "closing", "done"},
     conn : 0..MaxCreated, next : Nat, todo : Seq(Conn)]

Absent == [pc |-> "absent", conn |-> 0, next |-> 0, todo |-> <<>>]
Asleep == [Absent EXCEPT !.pc = "asleep"]
Done == [Absent EXCEPT !.pc = "done"]

Init ==
    /\ conns = <<>>
    /\ connections = <<>>
    /\ queue = <<>>
    /\ initialized = FALSE
    /\ closed = FALSE
    /\ breaker = NewBreaker
    /\ user = [u \in User |-> [pc |-> "out", conn |-> 0]]
    /\ checker = Absent
    /\ cleaner = Absent
    /\ closer = Absent
    /\ reaped = FALSE

\* _create_connection() n times: their numbers.
New(n) == [i \in 1..n |-> Len(conns) + i]

CanCreate(n) == Len(conns) + n <= MaxCreated

Fresh(state) == [state |-> state, shut |-> FALSE, erring |-> FALSE]

CreatedOneShort(cs, n, state) == cs \o [i \in 1..n - 1 |-> Fresh(state)]

Created(cs, n, state) == cs \o [i \in 1..n |-> Fresh(state)]

\* _close_connection() starts: the client is shut at once.
Shut(cs, c) == [cs EXCEPT ![c].shut = TRUE]

\* _close_connection() ends, in any of its three ways.
Dropped(cs, c) == [cs EXCEPT ![c].state = "closed"]

WithoutNothing(list, c) == list

\* list.remove(c), if c is in list.
Without(list, c) ==
    IF c \in ToSet(list)
    THEN RemoveAt(list, CHOOSE i \in DOMAIN list : list[i] = c)
    ELSE list

Goto(u, pc, c) == user' = [user EXCEPT ![u] = [pc |-> pc, conn |-> c]]

At(u, pc) == user[u].pc = pc

(****************************************************************************)
(* Acquiring a connection.                                                  *)
(****************************************************************************)

\* get_connection() and __aenter__() up to the wait for a connection; the
\* first user initializes the pool on the way.
Request(u) ==
    /\ At(u, "out")
    /\ ~closed
    /\ \E recovered \in BOOLEAN : ~Refuses(breaker, recovered)
    /\ breaker' = Allowed(breaker)
    /\ Goto(u, "waiting", 0)
    /\ IF initialized
       THEN UNCHANGED <<conns, connections, queue, initialized, checker,
                        cleaner>>
       ELSE /\ CanCreate(PoolSize)
            /\ conns' = Created(conns, PoolSize, "idle")
            /\ connections' = connections \o New(PoolSize)
            /\ queue' = queue \o New(PoolSize)
            /\ initialized' = TRUE
            /\ checker' = Asleep
            /\ cleaner' = Asleep
    /\ UNCHANGED <<closed, closer, reaped>>

IsHealthy(c) == conns[c].state # "unhealthy" /\ ~conns[c].erring

QueueUntaken == queue

QueueTaken == Tail(queue)

\* A connection comes from the queue.  An unhealthy one is closed first.
Take(u) ==
    /\ At(u, "waiting")
    /\ queue # <<>>
    /\ queue' = QueueTaken
    /\ LET c == Head(queue)
       IN  \/ /\ IsHealthy(c)
              /\ conns' = [conns EXCEPT ![c].state = "active"]
              /\ Goto(u, "using", c)
           \/ /\ ~IsHealthy(c)
              /\ conns' = Shut(conns, c)
              /\ Goto(u, "replacing", c)
    /\ UNCHANGED <<connections, initialized, closed, breaker, checker,
                   cleaner, closer, reaped>>

ReplacementSame(c) == c

\* What the user gets instead of the unhealthy connection c.
Replacement(c) == Len(conns) + 1

\* The connection that replaces it is not put into self.connections.
Replace(u) ==
    /\ At(u, "replacing")
    /\ CanCreate(1)
    /\ LET c == user[u].conn
       IN  /\ conns' = Created(Dropped(conns, c), 1, "active")
           /\ connections' = Without(connections, c)
           /\ Goto(u, "using", Replacement(c))
    /\ UNCHANGED <<queue, initialized, closed, breaker, checker, cleaner,
                   closer, reaped>>

MayGrow == Len(connections) < MaxConnections

\* After 5 seconds without a connection the user makes one, or gives up.
Timeout(u) ==
    /\ At(u, "waiting")
    /\ queue = <<>>
    /\ \/ /\ MayGrow
          /\ CanCreate(1)
          /\ conns' = Created(conns, 1, "active")
          /\ connections' = Append(connections, Len(conns) + 1)
          /\ Goto(u, "using", Len(conns) + 1)
       \/ /\ ~MayGrow
          /\ Goto(u, "out", 0)
          /\ UNCHANGED <<conns, connections>>
    /\ UNCHANGED <<queue, initialized, closed, breaker, checker, cleaner,
                   closer, reaped>>

(****************************************************************************)
(* Releasing it: __aexit__() and _release_connection().                     *)
(****************************************************************************)

\* The breaker hears of the outcome; a request that failed puts the error
\* rate above the maximum unless many health checks have succeeded before.
Outcome(c, ok, erring) ==
    /\ breaker' = IF ok THEN RecordSuccess(breaker) ELSE RecordFailure(breaker)
    /\ erring \in {conns[c].erring, ~ok \/ conns[c].erring}
    /\ ok \/ breaker.failure_count < MaxFailures

ReturnedNot(c) == queue

Returned(c) == Append(queue, c)

\* A client that has been shut meanwhile may have answered before.
Release(u) ==
    /\ At(u, "using")
    /\ LET c == user[u].conn
       IN  \E ok, erring, old \in BOOLEAN :
              /\ Outcome(c, ok, erring)
              /\ LET used == [conns EXCEPT ![c].erring = erring]
                 IN  \/ /\ conns[c].state = "unhealthy" \/ closed
                        /\ conns' = Shut(used, c)
                        /\ Goto(u, "closing", c)
                        /\ UNCHANGED queue
                     \/ /\ conns[c].state # "unhealthy" /\ ~closed /\ old
                        /\ conns' = Shut(used, c)
                        /\ Goto(u, "retiring", c)
                        /\ UNCHANGED queue
                     \/ /\ conns[c].state # "unhealthy" /\ ~closed /\ ~old
                        /\ conns' = [used EXCEPT ![c].state = "idle"]
                        /\ Goto(u, "out", 0)
                        /\ queue' = Returned(c)
    /\ UNCHANGED <<connections, initialized, closed, checker, cleaner,
                   closer, reaped>>

ReleaseClosed(u) ==
    /\ At(u, "closing")
    /\ conns' = Dropped(conns, user[u].conn)
    /\ connections' = Without(connections, user[u].conn)
    /\ Goto(u, "out", 0)
    /\ UNCHANGED <<queue, initialized, closed, breaker, checker, cleaner,
                   closer, reaped>>

\* An old connection is replaced if the pool has become too small.
Replacements(list) == IF Len(list) < PoolSize THEN 1 ELSE 0

Retire(u) ==
    /\ At(u, "retiring")
    /\ LET left == Without(connections, user[u].conn)
           n == Replacements(left)
       IN  /\ CanCreate(n)
           /\ conns' = Created(Dropped(conns, user[u].conn), n, "idle")
           /\ connections' = left \o New(n)
           /\ queue' = queue \o New(n)
    /\ Goto(u, "out", 0)
    /\ UNCHANGED <<initialized, closed, breaker, checker, cleaner, closer,
                   reaped>>

(****************************************************************************)
(* Health checks.                                                           *)
(****************************************************************************)

\* The checker goes on from position next: it pings the first connection that
\* is due, which raises if the client is shut, or closes the ones it found
\* unhealthy.  cs is conns with what the last answer has changed.
CheckFrom(cs, next, bad) ==
    \/ \E i \in next..Len(connections) :
          /\ conns' = cs
          /\ LET c == connections[i]
             IN  checker' = [pc |-> IF cs[c].shut THEN "failing" ELSE "pinging",
                             conn |-> c, next |-> i + 1, todo |-> bad]
          /\ UNCHANGED reaped
    \/ /\ bad # <<>>
       /\ conns' = Shut(cs, Head(bad))
       /\ checker' = [pc |-> "closing", conn |-> Head(bad), next |-> 0,
                      todo |-> Tail(bad)]
       /\ reaped' = TRUE
    \/ /\ bad = <<>>
       /\ conns' = cs
       /\ checker' = Asleep
       /\ UNCHANGED reaped

CheckHealth ==
    /\ checker.pc = "asleep"
    /\ CheckFrom(conns, 1, <<>>)
    /\ UNCHANGED <<connections, queue, initialized, closed, breaker, user,
                   cleaner, closer>>

\* A good answer may bring the error rate down again.
PingReturns ==
    /\ checker.pc = "pinging"
    /\ \E erring \in {conns[checker.conn].erring, FALSE} :
          CheckFrom([conns EXCEPT ![checker.conn].erring = erring],
                    checker.next, checker.todo)
    /\ UNCHANGED <<connections, queue, initialized, closed, breaker, user,
                   cleaner, closer>>

\* A server error, a timeout or an exception.
PingFails ==
    /\ checker.pc \in {"pinging", "failing"}
    /\ CheckFrom([conns EXCEPT ![checker.conn].state = "unhealthy"],
                 checker.next, Append(checker.todo, checker.conn))
    /\ UNCHANGED <<connections, queue, initialized, closed, breaker, user,
                   cleaner, closer>>

\* One of the unhealthy connections is closed; the next one follows.
CheckerCloses ==
    /\ checker.pc = "closing"
    /\ connections' = Without(connections, checker.conn)
    /\ LET cs == Dropped(conns, checker.conn)
       IN  \/ /\ checker.todo # <<>>
              /\ conns' = Shut(cs, Head(checker.todo))
              /\ checker' = [checker EXCEPT !.conn = Head(checker.todo),
                                            !.todo = Tail(checker.todo)]
           \/ /\ checker.todo = <<>>
              /\ conns' = cs
              /\ checker' = Asleep
    /\ UNCHANGED <<queue, initialized, closed, breaker, user, cleaner, closer,
                   reaped>>

(****************************************************************************)
(* Cleanup.                                                                 *)
(****************************************************************************)

MissingNone(list) == 0

MissingAll(list) == PoolSize

\* Connections to create for the pool to have its size again.
Missing(list) == IF Len(list) < PoolSize THEN PoolSize - Len(list) ELSE 0

\* The rest of a cleanup, with todo still to be closed, the pool's list being
\* list: close the next, or fill the pool up.
CleanOn(cs, list, todo) ==
    \/ /\ todo # <<>>
       /\ conns' = Shut(cs, Head(todo))
       /\ connections' = list
       /\ cleaner' = [Absent EXCEPT !.pc = "closing", !.conn = Head(todo),
                                    !.todo = Tail(todo)]
       /\ reaped' = TRUE
       /\ UNCHANGED queue
    \/ /\ todo = <<>>
       /\ LET n == Missing(list)
          IN  /\ CanCreate(n)
              /\ conns' = Created(cs, n, "idle")
              /\ connections' = list \o New(n)
              /\ queue' = queue \o New(n)
       /\ cleaner' = Asleep
       /\ UNCHANGED reaped

\* Positions in the list, n of them, in its order.
Positions(n) ==
    {at \in [1..n -> DOMAIN connections] : \A i, j \in 1..n : i < j => at[i] < at[j]}

\* Any idle connections, of at most half the pool, have been idle too long.
Cleanup ==
    /\ cleaner.pc = "asleep"
    /\ \E n \in 0..Len(connections) \div 2 : \E at \in Positions(n) :
          LET todo == [i \in 1..n |-> connections[at[i]]]
          IN  /\ \A i \in 1..n : conns[todo[i]].state = "idle"
              /\ CleanOn(conns, connections, todo)
    /\ UNCHANGED <<initialized, closed, breaker, user, checker, closer>>

CleanerCloses ==
    /\ cleaner.pc = "closing"
    /\ CleanOn(Dropped(conns, cleaner.conn),
               Without(connections, cleaner.conn), cleaner.todo)
    /\ UNCHANGED <<initialized, closed, breaker, user, checker, closer>>

(****************************************************************************)
(* close().                                                                 *)
(****************************************************************************)

\* The iteration over list goes on at position i; when it is over, the list
\* and the queue are emptied.
CloseFrom(cs, list, i) ==
    \/ /\ i <= Len(list)
       /\ conns' = Shut(cs, list[i])
       /\ connections' = list
       /\ closer' = [Absent EXCEPT !.pc = "closing", !.conn = list[i],
                                   !.next = i + 1]
       /\ UNCHANGED queue
    \/ /\ i > Len(list)
       /\ conns' = cs
       /\ connections' = <<>>
       /\ queue' = <<>>
       /\ closer' = Done

\* The background tasks are cancelled wherever they wait.
Close ==
    /\ ~closed
    /\ closed' = TRUE
    /\ checker' = IF initialized THEN Done ELSE checker
    /\ cleaner' = IF initialized THEN Done ELSE cleaner
    /\ CloseFrom(conns, connections, 1)
    /\ UNCHANGED <<initialized, breaker, user, reaped>>

\* The list shrinks while it is iterated over.
CloserCloses ==
    /\ closer.pc = "closing"
    /\ CloseFrom(Dropped(conns, closer.conn),
                 Without(connections, closer.conn), closer.next)
    /\ UNCHANGED <<initialized, closed, breaker, user, checker, cleaner,
                   reaped>>

(****************************************************************************)
(* The specification.                                                       *)
(****************************************************************************)

\* What a user's call does once it is made.
Proceed(u) ==
    \/ Take(u)
    \/ Replace(u)
    \/ Timeout(u)
    \/ ReleaseClosed(u)
    \/ Retire(u)

Background ==
    \/ CheckHealth
    \/ PingReturns
    \/ PingFails
    \/ CheckerCloses

Maintenance == Cleanup \/ CleanerCloses

Next ==
    \/ \E u \in User : Request(u) \/ Proceed(u) \/ Release(u)
    \/ Background
    \/ Maintenance
    \/ Close
    \/ CloserCloses

Spec == Init /\ [][Next]_vars

\* The cleanup task sleeps for a minute at most, and closing a client takes it
\* at most five seconds.
FairSpec == Spec /\ WF_vars(Maintenance)

(****************************************************************************)
(* Properties.                                                              *)
(****************************************************************************)

\* Every variable keeps its type.
TypeOK ==
    /\ conns \in Seq(PooledConnection)
    /\ connections \in Seq(1..Len(conns))
    /\ queue \in Seq(1..Len(conns))
    /\ initialized \in BOOLEAN
    /\ closed \in BOOLEAN
    /\ breaker \in Breaker
    /\ user \in [User -> UserState]
    /\ \A u \in User : user[u].conn \in 0..Len(conns)
    /\ {checker, cleaner, closer} \subseteq TaskState
    /\ reaped \in BOOLEAN

Holders(c) == {u \in User : user[u].conn = c}

\* A connection is with one user at most, and a user's connection is not in
\* the queue for the next one, whatever the background tasks do meanwhile.
Exclusive ==
    /\ \A u, v \in User :
          u # v /\ user[u].conn = user[v].conn => user[u].conn = 0
    /\ \A i, j \in DOMAIN queue : i # j => queue[i] # queue[j]
    /\ \A u \in User : user[u].conn \notin ToSet(queue)

\* Users, retirements and cleanups that create connections at the same time
\* do not take the pool's list beyond its maximum ("max_connections: Maximum
\* connections").
TrackedWithinMax == Len(connections) <= MaxConnections

ClosingOf(c) ==
    \/ \E u \in Holders(c) : user[u].pc \in {"replacing", "closing", "retiring"}
    \/ \E task \in {checker, cleaner} : task.pc = "closing" /\ task.conn = c

\* Until close(), the pool's list holds no connection that has been closed,
\* only open ones and ones being closed ("Close a connection and remove from
\* pool").
NoDeadEntries ==
    ~closed => \A c \in ToSet(connections) : conns[c].shut => ClosingOf(c)

\* Until close() is through, no open connection is lost: it is in the pool's
\* list, in the queue, or with a user.
Accounted ==
    closer.pc # "done" =>
        \A c \in DOMAIN conns :
            ~conns[c].shut =>
                \/ c \in ToSet(connections) \cup ToSet(queue)
                \/ Holders(c) # {}

\* The breaker's counts agree with its state, though answers to requests that
\* began in an earlier state arrive in any order.
BreakerAgrees == CountsAgree(breaker)

\* As long as no background task has closed a connection and close() has not
\* been called, every connection handed out is open.
HandedOutOpen ==
    [][\A u \in User :
          (~reaped /\ ~closed /\ ~At(u, "using") /\ At(u, "using")') =>
              ~conns'[user'[u].conn].shut]_vars

\* close() closes every connection that no user holds ("All connections should
\* have been closed").
CloseClosesAll ==
    closer.pc = "done" =>
        \A c \in DOMAIN conns : conns[c].shut \/ Holders(c) # {}

\* A pool that has lost connections fills up again ("Ensure minimum pool
\* size"), as long as the bound of the model lets it create any.
PoolRefills ==
    []<>(\/ closed \/ ~initialized \/ ~CanCreate(PoolSize)
         \/ Len(connections) >= PoolSize)

================================================================================
