------------------------- MODULE ConnectionPoolProofs --------------------------
(****************************************************************************)
(* Proofs about CircuitBreaker and ConnectionPool for any thresholds, any   *)
(* size of the pool and any set of users.                                   *)
(****************************************************************************)
EXTENDS ConnectionPool, SequenceTheorems, TLAPS

(****************************************************************************)
(* The breaker.                                                             *)
(****************************************************************************)

Consistent == breaker \in Breaker /\ CountsAgree(breaker)

LEMMA NewBreakerConsistent == NewBreaker \in Breaker /\ CountsAgree(NewBreaker)
BY ThresholdAssumption DEF NewBreaker, Breaker, CircuitBreakerState, CountsAgree

\* The three calls keep a breaker's counts in agreement with its state.
LEMMA BreakerCalls ==
    ASSUME NEW b \in Breaker, CountsAgree(b)
    PROVE  /\ Allowed(b) \in Breaker /\ CountsAgree(Allowed(b))
           /\ RecordSuccess(b) \in Breaker /\ CountsAgree(RecordSuccess(b))
           /\ RecordFailure(b) \in Breaker /\ CountsAgree(RecordFailure(b))
<1> USE ThresholdAssumption DEF CircuitBreakerState, CountsAgree
<1>0. /\ b.state \in {"closed", "open", "half_open"}
      /\ b.failure_count \in Nat
      /\ b.success_count \in Nat
  BY DEF Breaker
<1>1. Allowed(b) \in Breaker /\ CountsAgree(Allowed(b))
  <2>1. CASE b.state = "open"
    <3>1. Allowed(b) = [state |-> "half_open", success_count |-> 0,
                        failure_count |-> b.failure_count]
      BY <2>1 DEF Allowed, Breaker
    <3>2. QED
      BY <1>0, <2>1, <3>1 DEF Breaker
  <2>2. CASE b.state # "open"
    BY <2>2 DEF Allowed
  <2>3. QED
    BY <2>1, <2>2
<1>2. RecordSuccess(b) \in Breaker /\ CountsAgree(RecordSuccess(b))
  BY DEF RecordSuccess, Breaker
<1>3. RecordFailure(b) \in Breaker /\ CountsAgree(RecordFailure(b))
  <2> DEFINE failures == b.failure_count + 1
  <2>1. CASE b.state = "half_open"
    BY <1>0, <2>1 DEF RecordFailure, Breaker
  <2>2. CASE b.state = "closed" /\ failures >= FailureThreshold
    <3>1. RecordFailure(b) = [state |-> "open", failure_count |-> failures,
                              success_count |-> b.success_count]
      BY <2>2 DEF RecordFailure, Breaker
    <3>2. QED
      BY <1>0, <2>2, <3>1 DEF Breaker
  <2>3. CASE b.state = "closed" /\ failures < FailureThreshold
    <3>1. RecordFailure(b) = [state |-> "closed", failure_count |-> failures,
                              success_count |-> b.success_count]
      BY <1>0, <2>3 DEF RecordFailure, Breaker
    <3>2. QED
      BY <1>0, <2>3, <3>1 DEF Breaker
  <2>4. CASE b.state = "open"
    <3>1. RecordFailure(b) = [state |-> "open", failure_count |-> failures,
                              success_count |-> b.success_count]
      BY <2>4 DEF RecordFailure, Breaker
    <3>2. QED
      BY <1>0, <2>4, <3>1 DEF Breaker
  <2>5. QED
    BY <1>0, <2>1, <2>2, <2>3, <2>4
<1>4. QED
  BY <1>1, <1>2, <1>3

\* Whatever the pool does to its breaker is one of the three calls.
LEMMA BreakerSteps ==
    ASSUME [Next]_vars
    PROVE  breaker' \in {breaker, Allowed(breaker), RecordSuccess(breaker),
                         RecordFailure(breaker)}
<1>1. ASSUME NEW u \in User, Request(u) \/ Release(u)
      PROVE  breaker' \in {breaker, Allowed(breaker), RecordSuccess(breaker),
                           RecordFailure(breaker)}
  BY <1>1 DEF Request, Release, Outcome
<1>2. ASSUME NEW u \in User, Proceed(u)
      PROVE  breaker' \in {breaker, Allowed(breaker), RecordSuccess(breaker),
                           RecordFailure(breaker)}
  BY <1>2 DEF Proceed, Take, Replace, Timeout, Outcome, ReleaseClosed, Retire
<1>3. CASE Background
  BY <1>3 DEF Background, CheckHealth, PingReturns, PingFails, CheckerCloses
<1>4. CASE Maintenance
  BY <1>4 DEF Maintenance, Cleanup, CleanerCloses
<1>5. CASE Close \/ CloserCloses
  BY <1>5 DEF Close, CloserCloses
<1>6. CASE UNCHANGED vars
  BY <1>6 DEF vars
<1>7. QED
  BY <1>1, <1>2, <1>3, <1>4, <1>5, <1>6 DEF Next

\* The breaker's counts agree with its state in every reachable state, for all
\* thresholds (CircuitBreaker.record_success and record_failure).
THEOREM BreakerConsistent == Spec => []BreakerAgrees
<1>1. Init => Consistent
  BY NewBreakerConsistent DEF Init, Consistent
<1>2. Consistent /\ [Next]_vars => Consistent'
  BY BreakerSteps, BreakerCalls DEF Consistent
<1>3. Consistent => BreakerAgrees
  BY DEF Consistent, BreakerAgrees
<1>4. QED
  BY <1>1, <1>2, <1>3, PTL DEF Spec

(****************************************************************************)
(* Who has which connection.                                                *)
(****************************************************************************)

Pc == {"out", "waiting", "replacing", "using", "closing", "retiring"}

\* The queue and the users name connections that exist, and Exclusive.
Owners ==
    /\ conns \in Seq(PooledConnection)
    /\ queue \in Seq(1..Len(conns))
    /\ user \in [User -> [pc : Pc, conn : 0..Len(conns)]]
    /\ \A u \in User : user[u].pc = "using" => user[u].conn # 0
    /\ Exclusive

\* Changing an element of a sequence, if it is there.
LEMMA ElementChanged ==
    ASSUME NEW S, NEW cs \in Seq(S), NEW c, NEW r,
           c \in 1..Len(cs) => r \in S
    PROVE  [cs EXCEPT ![c] = r] \in Seq(S) /\ Len([cs EXCEPT ![c] = r]) = Len(cs)
<1>1. CASE c \in 1..Len(cs)
  BY <1>1, ExceptSeq
<1>2. CASE c \notin 1..Len(cs)
  <2>1. DOMAIN cs = 1..Len(cs) /\ cs \in [1..Len(cs) -> S]
    BY LenProperties
  <2>2. [cs EXCEPT ![c] = r] = cs
    BY <1>2, <2>1, Zenon
  <2>3. QED
    BY <2>2
<1>3. QED
  BY <1>1, <1>2

LEMMA StateKeeps ==
    ASSUME NEW cs \in Seq(PooledConnection), NEW c,
           NEW s \in {"idle", "active", "unhealthy", "closed"}
    PROVE  /\ [cs EXCEPT ![c].state = s] \in Seq(PooledConnection)
           /\ Len([cs EXCEPT ![c].state = s]) = Len(cs)
<1>1. c \in 1..Len(cs) => cs[c] \in PooledConnection
  BY ElementOfSeq
<1>2. c \in 1..Len(cs) => [cs[c] EXCEPT !.state = s] \in PooledConnection
  BY <1>1 DEF PooledConnection
<1>3. QED
  BY <1>2, ElementChanged

LEMMA ErringKeeps ==
    ASSUME NEW cs \in Seq(PooledConnection), NEW c, NEW e,
           c \in 1..Len(cs) => e \in BOOLEAN
    PROVE  /\ [cs EXCEPT ![c].erring = e] \in Seq(PooledConnection)
           /\ Len([cs EXCEPT ![c].erring = e]) = Len(cs)
<1>1. c \in 1..Len(cs) => cs[c] \in PooledConnection
  BY ElementOfSeq
<1>2. c \in 1..Len(cs) => [cs[c] EXCEPT !.erring = e] \in PooledConnection
  BY <1>1 DEF PooledConnection
<1>3. QED
  BY <1>2, ElementChanged

\* Closing a connection keeps the others.
LEMMA ClosingKeeps ==
    ASSUME NEW cs \in Seq(PooledConnection), NEW c
    PROVE  /\ Shut(cs, c) \in Seq(PooledConnection)
           /\ Len(Shut(cs, c)) = Len(cs)
           /\ Dropped(cs, c) \in Seq(PooledConnection)
           /\ Len(Dropped(cs, c)) = Len(cs)
<1>1. c \in 1..Len(cs) => cs[c] \in PooledConnection
  BY ElementOfSeq
<1>2. c \in 1..Len(cs) => [cs[c] EXCEPT !.shut = TRUE] \in PooledConnection
  BY <1>1 DEF PooledConnection
<1>3. Shut(cs, c) \in Seq(PooledConnection) /\ Len(Shut(cs, c)) = Len(cs)
  BY <1>2, ElementChanged DEF Shut
<1>4. /\ Dropped(cs, c) \in Seq(PooledConnection)
      /\ Len(Dropped(cs, c)) = Len(cs)
  BY StateKeeps DEF Dropped
<1>5. QED
  BY <1>3, <1>4

\* n connections more.
LEMMA CreatedAdds ==
    ASSUME NEW cs \in Seq(PooledConnection), NEW n \in Nat,
           NEW s \in {"idle", "active", "unhealthy", "closed"}
    PROVE  /\ Created(cs, n, s) \in Seq(PooledConnection)
           /\ Len(Created(cs, n, s)) = Len(cs) + n
<1>1. Fresh(s) \in PooledConnection
  BY DEF Fresh, PooledConnection
<1>2. /\ [i \in 1..n |-> Fresh(s)] \in Seq(PooledConnection)
      /\ Len([i \in 1..n |-> Fresh(s)]) = n
  BY <1>1
<1>3. QED
  BY <1>2, ConcatProperties DEF Created

\* The users keep or lose what they have, and the queue stays or is emptied.
LEMMA KeepOwners ==
    ASSUME Owners,
           conns' \in Seq(PooledConnection), Len(conns') = Len(conns),
           queue' \in {queue, <<>>},
           user' \in [User -> [pc : Pc, conn : 0..Len(conns)]],
           \A u \in User : user'[u].conn \in {0, user[u].conn},
           \A u \in User : user'[u].pc = "using" => user'[u].conn # 0
    PROVE  Owners'
<1>1. queue' \in Seq(1..Len(conns'))
  BY EmptySeq, Zenon DEF Owners
<1>2. Exclusive'
  <2>1. CASE queue' = queue
    BY <2>1 DEF Owners, Exclusive, ToSet
  <2>2. CASE queue' = <<>>
    BY <2>2 DEF Owners, Exclusive, ToSet
  <2>3. QED
    BY <2>1, <2>2
<1>3. QED
  BY <1>1, <1>2 DEF Owners

\* n new connections are put into the queue.
LEMMA RefillOwners ==
    ASSUME Owners, NEW n \in Nat,
           conns' \in Seq(PooledConnection), Len(conns') = Len(conns) + n,
           queue' = queue \o New(n),
           user' \in [User -> [pc : Pc, conn : 0..Len(conns)]],
           \A u \in User : user'[u].conn \in {0, user[u].conn},
           \A u \in User : user'[u].pc = "using" => user'[u].conn # 0
    PROVE  Owners'
<1> DEFINE k == Len(conns)
           q == Len(queue)
<1>0. k \in Nat /\ q \in Nat /\ DOMAIN queue = 1..q
      /\ \A i \in 1..q : queue[i] \in 1..k
  BY LenProperties, ElementOfSeq DEF Owners
<1>1. New(n) \in Seq(1..Len(conns')) /\ Len(New(n)) = n
      /\ \A i \in 1..n : New(n)[i] = k + i
  BY <1>0 DEF New
<1>2. queue \in Seq(1..Len(conns'))
  BY <1>0, SeqMonotonic DEF Owners
<1>3. /\ queue' \in Seq(1..Len(conns'))
      /\ Len(queue') = q + n
      /\ DOMAIN queue' = 1..(q + n)
      /\ \A i \in 1..(q + n) :
            queue'[i] = IF i <= q THEN queue[i] ELSE k + (i - q)
  <2>1. /\ queue \o New(n) \in Seq(1..Len(conns'))
        /\ Len(queue \o New(n)) = q + n
        /\ \A i \in 1..(q + n) : (queue \o New(n))[i] =
               IF i <= q THEN queue[i] ELSE New(n)[i - q]
    <3> DEFINE more == New(n)
    <3>1. more \in Seq(1..Len(conns')) /\ Len(more) = n
      BY <1>1
    <3> HIDE DEF more
    <3>2. queue \o more \in Seq(1..Len(conns')) /\ Len(queue \o more) = q + n
      BY <1>2, <3>1, ConcatProperties
    <3>3. \A i \in 1..(q + n) :
             (queue \o more)[i] = IF i <= q THEN queue[i] ELSE more[i - q]
      BY <1>2, <3>1, ConcatProperties
    <3>4. QED
      BY <3>2, <3>3 DEF more
  <2>2. \A i \in 1..(q + n) : ~(i <= q) => New(n)[i - q] = k + (i - q)
    BY <1>0, <1>1
  <2>3. QED
    BY <2>1, <2>2, LenProperties
<1>4. user' \in [User -> [pc : Pc, conn : 0..Len(conns')]]
  BY <1>0
<1>5. Exclusive'
  <2>1. \A u, v \in User :
           u # v /\ user'[u].conn = user'[v].conn => user'[u].conn = 0
    BY DEF Owners, Exclusive
  <2>2. \A i, j \in DOMAIN queue' : i # j => queue'[i] # queue'[j]
    <3> SUFFICES ASSUME NEW i \in 1..(q + n), NEW j \in 1..(q + n), i # j
                 PROVE  queue'[i] # queue'[j]
      BY <1>3
    <3>1. /\ queue'[i] = IF i <= q THEN queue[i] ELSE k + (i - q)
          /\ queue'[j] = IF j <= q THEN queue[j] ELSE k + (j - q)
      BY <1>3
    <3>2. /\ i <= q => i \in 1..q /\ queue[i] \in 1..k
          /\ j <= q => j \in 1..q /\ queue[j] \in 1..k
      BY <1>0
    <3>3. i <= q /\ j <= q => queue[i] # queue[j]
      BY <1>0, <3>2 DEF Owners, Exclusive
    <3>4. QED
      BY <1>0, <3>1, <3>2, <3>3
  <2>3. \A u \in User : user'[u].conn \notin ToSet(queue')
    <3> SUFFICES ASSUME NEW u \in User, NEW i \in 1..(q + n)
                 PROVE  user'[u].conn # queue'[i]
      BY <1>3 DEF ToSet
    <3>1. user'[u].conn \in 0..k
      OBVIOUS
    <3>2. queue'[i] = IF i <= q THEN queue[i] ELSE k + (i - q)
      BY <1>3
    <3>3. i <= q => i \in 1..q /\ queue[i] \in 1..k
      BY <1>0
    <3>4. i <= q => user[u].conn # queue[i]
      BY <1>0, <3>3 DEF Owners, Exclusive, ToSet
    <3>5. user'[u].conn \in {0, user[u].conn}
      OBVIOUS
    <3>6. QED
      BY <1>0, <3>1, <3>2, <3>3, <3>4, <3>5
  <2>4. QED
    BY <2>1, <2>2, <2>3 DEF Exclusive
<1>6. QED
  BY <1>3, <1>4, <1>5 DEF Owners

\* A user that moves on, with its connection or without one.
LEMMA GotoFacts ==
    ASSUME Owners, NEW u \in User, NEW pc \in Pc \ {"using"},
           NEW c \in {0, user[u].conn}, Goto(u, pc, c)
    PROVE  /\ user' \in [User -> [pc : Pc, conn : 0..Len(conns)]]
           /\ \A v \in User : user'[v].conn \in {0, user[v].conn}
           /\ \A v \in User : user'[v].pc = "using" => user'[v].conn # 0
<1>1. Len(conns) \in Nat
  BY LenProperties DEF Owners
<1>2. c \in 0..Len(conns)
  BY <1>1 DEF Owners
<1>3. [pc |-> pc, conn |-> c] \in [pc : Pc, conn : 0..Len(conns)]
  BY <1>2
<1>4. user' \in [User -> [pc : Pc, conn : 0..Len(conns)]]
  BY <1>3 DEF Goto, Owners
<1>5. \A v \in User :
         user'[v] = IF v = u THEN [pc |-> pc, conn |-> c] ELSE user[v]
  BY DEF Goto, Owners
<1>6. QED
  BY <1>4, <1>5 DEF Owners

\* A user gets a connection made for it.
LEMMA NewOwner ==
    ASSUME Owners, NEW u \in User,
           conns' \in Seq(PooledConnection), Len(conns') = Len(conns) + 1,
           queue' = queue,
           Goto(u, "using", Len(conns) + 1)
    PROVE  Owners'
<1> DEFINE k == Len(conns)
<1>0. k \in Nat /\ DOMAIN queue = 1..Len(queue)
      /\ \A i \in DOMAIN queue : queue[i] \in 1..k
  BY LenProperties, ElementOfSeq DEF Owners
<1>1. queue' \in Seq(1..Len(conns'))
  BY <1>0, SeqMonotonic DEF Owners
<1>2. /\ user' \in [User -> [pc : Pc, conn : 0..Len(conns')]]
      /\ user'[u] = [pc |-> "using", conn |-> k + 1]
      /\ \A v \in User : v # u => user'[v] = user[v]
  BY <1>0 DEF Goto, Owners, Pc
<1>3. \A v \in User : user[v].conn \in 0..k
  BY DEF Owners
<1>4. \A v \in User :
         user'[v].conn = IF v = u THEN k + 1 ELSE user[v].conn
  BY <1>2
<1>5. Exclusive'
  <2>1. \A v, w \in User :
           v # w /\ user'[v].conn = user'[w].conn => user'[v].conn = 0
    <3> SUFFICES ASSUME NEW v \in User, NEW w \in User, v # w,
                        user'[v].conn = user'[w].conn
                 PROVE  user'[v].conn = 0
      OBVIOUS
    <3>1. v # u /\ w # u
      BY <1>0, <1>3, <1>4
    <3>2. QED
      BY <1>4, <3>1 DEF Owners, Exclusive
  <2>2. \A v \in User : user'[v].conn \notin ToSet(queue')
    <3> SUFFICES ASSUME NEW v \in User, NEW i \in DOMAIN queue
                 PROVE  user'[v].conn # queue[i]
      BY DEF ToSet
    <3>1. queue[i] \in 1..k
      BY <1>0
    <3>2. v # u => user[v].conn # queue[i]
      BY DEF Owners, Exclusive, ToSet
    <3>3. QED
      BY <1>0, <1>4, <3>1, <3>2
  <2>3. \A i, j \in DOMAIN queue' : i # j => queue'[i] # queue'[j]
    BY DEF Owners, Exclusive
  <2>4. QED
    BY <2>1, <2>2, <2>3 DEF Exclusive
<1>6. \A v \in User : user'[v].pc = "using" => user'[v].conn # 0
  <2> SUFFICES ASSUME NEW v \in User, user'[v].pc = "using"
               PROVE  user'[v].conn # 0
    OBVIOUS
  <2>1. CASE v = u
    BY <1>0, <1>4, <2>1
  <2>2. CASE v # u
    BY <1>2, <2>2 DEF Owners
  <2>3. QED
    BY <2>1, <2>2
<1>7. QED
  BY <1>1, <1>2, <1>5, <1>6 DEF Owners

\* A user gets the first connection of the queue.
LEMMA TakeOwner ==
    ASSUME Owners, NEW u \in User, At(u, "waiting"), queue # <<>>,
           queue' = Tail(queue), NEW pc \in Pc, Goto(u, pc, Head(queue)),
           conns' \in Seq(PooledConnection), Len(conns') = Len(conns)
    PROVE  Owners'
<1> DEFINE k == Len(conns)
           c == Head(queue)
<1>0. /\ k \in Nat /\ Len(queue) \in Nat /\ DOMAIN queue = 1..Len(queue)
      /\ \A i \in DOMAIN queue : queue[i] \in 1..k
  BY LenProperties, ElementOfSeq DEF Owners
<1>1. /\ c \in 1..k
      /\ Len(queue) >= 1
      /\ c = queue[1]
      /\ queue' \in Seq(1..k)
      /\ Len(queue') = Len(queue) - 1
      /\ \A i \in 1..(Len(queue) - 1) : queue'[i] = queue[i + 1]
  BY HeadTailProperties, EmptySeq DEF Owners
<1>2. /\ DOMAIN queue' = 1..(Len(queue) - 1)
      /\ \A i \in DOMAIN queue' : i + 1 \in DOMAIN queue
                                 /\ queue'[i] = queue[i + 1]
  BY <1>0, <1>1, LenProperties
<1>3. /\ user' \in [User -> [pc : Pc, conn : 0..k]]
      /\ \A v \in User :
            user'[v] = IF v = u THEN [pc |-> pc, conn |-> c] ELSE user[v]
  BY <1>1 DEF Goto, Owners
<1>4. \A v \in User : user[v].conn # c
  <2>1. 1 \in DOMAIN queue
    <3>1. Len(queue) >= 1 /\ Len(queue) \in Nat
      BY <1>0, <1>1
    <3>2. 1 \in 1..Len(queue)
      BY <3>1
    <3>3. QED
      BY <1>0, <3>2
  <2>2. queue[1] \in {queue[i] : i \in DOMAIN queue}
    BY <2>1
  <2>3. queue[1] \in ToSet(queue)
    BY <2>2 DEF ToSet
  <2>4. QED
    BY <1>1, <2>3 DEF Owners, Exclusive
<1>5. Exclusive'
  <2>1. \A v, w \in User :
           v # w /\ user'[v].conn = user'[w].conn => user'[v].conn = 0
    BY <1>3, <1>4 DEF Owners, Exclusive
  <2>2. \A i, j \in DOMAIN queue' : i # j => queue'[i] # queue'[j]
    <3> SUFFICES ASSUME NEW i \in DOMAIN queue', NEW j \in DOMAIN queue',
                        i # j
                 PROVE  queue'[i] # queue'[j]
      OBVIOUS
    <3>1. i + 1 \in DOMAIN queue /\ j + 1 \in DOMAIN queue /\ i + 1 # j + 1
      BY <1>1, <1>2
    <3>2. QED
      BY <1>2, <3>1 DEF Owners, Exclusive
  <2>3. \A v \in User : user'[v].conn \notin ToSet(queue')
    <3> SUFFICES ASSUME NEW v \in User, NEW i \in DOMAIN queue'
                 PROVE  user'[v].conn # queue'[i]
      BY DEF ToSet
    <3>1. i + 1 \in DOMAIN queue /\ 1 \in DOMAIN queue /\ i + 1 # 1
          /\ queue'[i] = queue[i + 1]
      BY <1>0, <1>1, <1>2
    <3>2. queue[i + 1] # c
      BY <1>1, <3>1 DEF Owners, Exclusive
    <3>3. user[v].conn # queue[i + 1]
      BY <3>1 DEF Owners, Exclusive, ToSet
    <3>4. QED
      BY <1>3, <3>1, <3>2, <3>3
  <2>4. QED
    BY <2>1, <2>2, <2>3 DEF Exclusive
<1>6. \A v \in User : user'[v].pc = "using" => user'[v].conn # 0
  <2> SUFFICES ASSUME NEW v \in User, user'[v].pc = "using"
               PROVE  user'[v].conn # 0
    OBVIOUS
  <2>1. CASE v = u
    BY <1>1, <1>3, <2>1
  <2>2. CASE v # u
    BY <1>3, <2>2 DEF Owners
  <2>3. QED
    BY <2>1, <2>2
<1>7. QED
  BY <1>1, <1>3, <1>5, <1>6 DEF Owners

\* A user puts the connection it has used into the queue.
LEMMA ReturnOwner ==
    ASSUME Owners, NEW u \in User, At(u, "using"),
           queue' = Append(queue, user[u].conn), Goto(u, "out", 0),
           conns' \in Seq(PooledConnection), Len(conns') = Len(conns)
    PROVE  Owners'
<1> DEFINE k == Len(conns)
           c == user[u].conn
           q == Len(queue)
<1>0. /\ k \in Nat /\ q \in Nat /\ DOMAIN queue = 1..q
      /\ \A i \in 1..q : queue[i] \in 1..k
      /\ c \in 1..k
  BY LenProperties, ElementOfSeq DEF Owners, At
<1>1. /\ queue' \in Seq(1..k)
      /\ Len(queue') = q + 1
      /\ \A i \in 1..(q + 1) : queue'[i] = IF i = q + 1 THEN c ELSE queue[i]
  BY <1>0, AppendProperties DEF Owners
<1>2. DOMAIN queue' = 1..(q + 1)
  BY <1>1, LenProperties
<1>3. /\ user' \in [User -> [pc : Pc, conn : 0..k]]
      /\ \A v \in User :
            user'[v] = IF v = u THEN [pc |-> "out", conn |-> 0] ELSE user[v]
  BY <1>0 DEF Goto, Owners, Pc
<1>4. \A i \in 1..q : queue[i] # c
  BY <1>0 DEF Owners, Exclusive, ToSet
<1>5. \A v \in User : v # u => user[v].conn # c
  BY <1>0 DEF Owners, Exclusive
<1>6. Exclusive'
  <2>1. \A v, w \in User :
           v # w /\ user'[v].conn = user'[w].conn => user'[v].conn = 0
    BY <1>3 DEF Owners, Exclusive
  <2>2. \A i, j \in DOMAIN queue' : i # j => queue'[i] # queue'[j]
    <3> SUFFICES ASSUME NEW i \in 1..(q + 1), NEW j \in 1..(q + 1), i # j
                 PROVE  queue'[i] # queue'[j]
      BY <1>2
    <3>1. i # q + 1 => i \in 1..q
      BY <1>0
    <3>2. j # q + 1 => j \in 1..q
      BY <1>0
    <3>3. i \in 1..q /\ j \in 1..q => queue[i] # queue[j]
      BY <1>0 DEF Owners, Exclusive
    <3>4. QED
      BY <1>1, <1>4, <3>1, <3>2, <3>3
  <2>3. \A v \in User : user'[v].conn \notin ToSet(queue')
    <3> SUFFICES ASSUME NEW v \in User, NEW i \in 1..(q + 1)
                 PROVE  user'[v].conn # queue'[i]
      BY <1>2 DEF ToSet
    <3>1. i # q + 1 => i \in 1..q /\ queue[i] \in 1..k
      BY <1>0
    <3>2. i # q + 1 => user[v].conn # queue[i]
      BY <1>0, <3>1 DEF Owners, Exclusive, ToSet
    <3>3. queue'[i] = IF i = q + 1 THEN c ELSE queue[i]
      BY <1>1
    <3>4. CASE v = u
      BY <1>0, <1>3, <3>1, <3>3, <3>4
    <3>5. CASE v # u
      BY <1>3, <1>5, <3>2, <3>3, <3>5
    <3>6. QED
      BY <3>4, <3>5
  <2>4. QED
    BY <2>1, <2>2, <2>3 DEF Exclusive
<1>7. QED
  BY <1>1, <1>3, <1>6 DEF Owners

\* The steps of the health checks leave users and queue alone.
LEMMA CheckFromOwners ==
    ASSUME Owners, NEW cs \in Seq(PooledConnection), Len(cs) = Len(conns),
           NEW next, NEW bad, CheckFrom(cs, next, bad), UNCHANGED <<queue, user>>
    PROVE  Owners'
<1>1. conns' = cs \/ conns' = Shut(cs, Head(bad))
  BY Zenon DEF CheckFrom
<1>2. conns' \in Seq(PooledConnection) /\ Len(conns') = Len(conns)
  BY <1>1, ClosingKeeps
<1>3. QED
  BY <1>2, KeepOwners DEF Owners

\* A cleanup closes connections, or puts new ones into the queue.
LEMMA CleanOnOwners ==
    ASSUME Owners, NEW cs \in Seq(PooledConnection), Len(cs) = Len(conns),
           NEW list, NEW todo, CleanOn(cs, list, todo), UNCHANGED user,
           Missing(list) \in Nat
    PROVE  Owners'
<1>1. CASE conns' = Shut(cs, Head(todo)) /\ queue' = queue
  <2>1. conns' \in Seq(PooledConnection) /\ Len(conns') = Len(conns)
    BY <1>1, ClosingKeeps
  <2>2. QED
    BY <1>1, <2>1, KeepOwners DEF Owners
<1>2. CASE /\ conns' = Created(cs, Missing(list), "idle")
           /\ queue' = queue \o New(Missing(list))
  <2>1. /\ conns' \in Seq(PooledConnection)
        /\ Len(conns') = Len(conns) + Missing(list)
    BY <1>2, CreatedAdds
  <2>2. QED
    BY <1>2, <2>1, RefillOwners DEF Owners
<1>3. QED
  BY <1>1, <1>2 DEF CleanOn

\* close() closes connections, and empties the queue at its end.
LEMMA CloseFromOwners ==
    ASSUME Owners, NEW cs \in Seq(PooledConnection), Len(cs) = Len(conns),
           NEW list, NEW i, CloseFrom(cs, list, i), UNCHANGED user
    PROVE  Owners'
<1>1. (conns' = cs \/ conns' = Shut(cs, list[i])) /\ queue' \in {queue, <<>>}
  BY Zenon DEF CloseFrom
<1>2. conns' \in Seq(PooledConnection) /\ Len(conns') = Len(conns)
  BY <1>1, ClosingKeeps
<1>3. QED
  BY <1>1, <1>2, KeepOwners DEF Owners

(****************************************************************************)
(* The pool's list.                                                         *)
(****************************************************************************)

\* Removing a connection leaves a list that is no longer.
LEMMA WithoutFacts ==
    ASSUME NEW S, NEW list \in Seq(S), NEW c
    PROVE  /\ Without(list, c) \in Seq(S)
           /\ Len(Without(list, c)) <= Len(list)
           /\ list = <<>> => Without(list, c) = <<>>
<1> DEFINE i == CHOOSE j \in DOMAIN list : list[j] = c
<1>0. Len(list) \in Nat /\ DOMAIN list = 1..Len(list)
  BY LenProperties
<1>1. CASE c \in ToSet(list)
  <2>1. i \in 1..Len(list)
    BY <1>0, <1>1 DEF ToSet
  <2> HIDE DEF i
  <2>2. \A j \in 1..(i - 1) : list[j] \in S
    BY <1>0, <2>1, ElementOfSeq
  <2>3. \A j \in (i + 1)..Len(list) : list[j] \in S
    BY <1>0, <2>1, ElementOfSeq
  <2> DEFINE n == Len(list)
             before == SubSeq(list, 1, i - 1)
             after == SubSeq(list, i + 1, n)
  <2>4. before \in Seq(S) /\ Len(before) = i - 1
    BY <1>0, <2>1, <2>2, SubSeqProperties
  <2>5. /\ after \in Seq(S)
        /\ Len(after) = IF i + 1 <= n THEN n - (i + 1) + 1 ELSE 0
    <3>1. i + 1 \in Int /\ n \in Int
      BY <1>0, <2>1
    <3>2. QED
      BY <2>3, <3>1, SubSeqProperties
  <2>6. RemoveAt(list, i) \in Seq(S) /\ Len(RemoveAt(list, i)) = n - 1
    <3>1. RemoveAt(list, i) = before \o after
      BY DEF RemoveAt
    <3> HIDE DEF before, after, n
    <3>2. /\ before \o after \in Seq(S)
          /\ Len(before \o after) = Len(before) + Len(after)
      BY <2>4, <2>5, ConcatProperties
    <3>3. Len(before) + Len(after) = n - 1
      <4>1. n \in Nat /\ i \in 1..n
        BY <1>0, <2>1 DEF n
      <4>2. QED
        BY <2>4, <2>5, <4>1
    <3>4. QED
      BY <3>1, <3>2, <3>3
  <2>7. list # <<>>
    BY <1>0, <2>1
  <2>8. Without(list, c) = RemoveAt(list, i)
    BY <1>1 DEF Without, i
  <2>9. QED
    BY <1>0, <2>6, <2>7, <2>8
<1>2. CASE c \notin ToSet(list)
  BY <1>0, <1>2 DEF Without
<1>3. QED
  BY <1>1, <1>2

\* The pool's list is no longer than the maximum; before initialize() it is
\* empty, and no user and no cleanup has come to do anything.
Bounded ==
    /\ connections \in Seq(Nat)
    /\ Len(connections) <= MaxConnections
    /\ ~initialized =>
          /\ connections = <<>>
          /\ cleaner.pc = "absent"
          /\ \A u \in User : user[u].pc = "out"

LEMMA MissingIsNat ==
    ASSUME NEW list \in Seq(Nat)
    PROVE  Missing(list) \in Nat
BY PoolAssumption, LenProperties DEF Missing

(****************************************************************************)
(* Every step keeps Owners.                                                 *)
(****************************************************************************)

LEMMA RequestOwners ==
    ASSUME Owners, NEW u \in User, Request(u)
    PROVE  Owners'
<1>1. Goto(u, "waiting", 0) /\ "waiting" \in Pc \ {"using"}
  BY DEF Request, Pc
<1>2. CASE initialized
  <2>1. conns' = conns /\ queue' = queue
    BY <1>2 DEF Request
  <2>2. QED
    BY <1>1, <2>1, GotoFacts, KeepOwners DEF Owners
<1>3. CASE ~initialized
  <2>1. /\ conns' = Created(conns, PoolSize, "idle")
        /\ queue' = queue \o New(PoolSize)
    BY <1>3 DEF Request
  <2>2. /\ conns' \in Seq(PooledConnection)
        /\ Len(conns') = Len(conns) + PoolSize
    BY <2>1, CreatedAdds, PoolAssumption DEF Owners
  <2>3. QED
    BY <1>1, <2>1, <2>2, GotoFacts, RefillOwners, PoolAssumption
<1>4. QED
  BY <1>2, <1>3

LEMMA AcquireOwners ==
    ASSUME Owners, NEW u \in User, Take(u) \/ Replace(u) \/ Timeout(u)
    PROVE  Owners'
<1>1. CASE Take(u)
  <2> DEFINE c == Head(queue)
  <2>1. /\ At(u, "waiting") /\ queue # <<>> /\ queue' = Tail(queue)
        /\ \/ /\ conns' = [conns EXCEPT ![c].state = "active"]
              /\ Goto(u, "using", c)
           \/ conns' = Shut(conns, c) /\ Goto(u, "replacing", c)
    BY <1>1 DEF Take, QueueTaken
  <2>2. conns' \in Seq(PooledConnection) /\ Len(conns') = Len(conns)
    <3>1. CASE conns' = [conns EXCEPT ![c].state = "active"]
      BY <3>1, StateKeeps DEF Owners
    <3>2. CASE conns' = Shut(conns, c)
      BY <3>2, ClosingKeeps DEF Owners
    <3>3. QED
      BY <2>1, <3>1, <3>2
  <2>3. QED
    BY <2>1, <2>2, TakeOwner DEF Pc
<1>2. CASE Replace(u)
  <2> DEFINE cs == Dropped(conns, user[u].conn)
  <2>1. /\ conns' = Created(cs, 1, "active")
        /\ queue' = queue
        /\ Goto(u, "using", Len(conns) + 1)
    BY <1>2 DEF Replace, Replacement
  <2>2. cs \in Seq(PooledConnection) /\ Len(cs) = Len(conns)
    BY ClosingKeeps DEF Owners
  <2>3. conns' \in Seq(PooledConnection) /\ Len(conns') = Len(conns) + 1
    BY <2>1, <2>2, CreatedAdds
  <2>4. QED
    BY <2>1, <2>3, NewOwner
<1>3. CASE Timeout(u)
  <2>1. CASE /\ conns' = Created(conns, 1, "active")
             /\ Goto(u, "using", Len(conns) + 1)
    <3>1. conns' \in Seq(PooledConnection) /\ Len(conns') = Len(conns) + 1
      BY <2>1, CreatedAdds DEF Owners
    <3>2. queue' = queue
      BY <1>3 DEF Timeout
    <3>3. QED
      BY <2>1, <3>1, <3>2, NewOwner
  <2>2. CASE Goto(u, "out", 0) /\ conns' = conns
    <3>1. queue' = queue /\ "out" \in Pc \ {"using"}
      BY <1>3 DEF Timeout, Pc
    <3>2. QED
      BY <2>2, <3>1, GotoFacts, KeepOwners DEF Owners
  <2>3. QED
    BY <1>3, <2>1, <2>2 DEF Timeout
<1>4. QED
  BY <1>1, <1>2, <1>3

LEMMA ReleaseOwners ==
    ASSUME Owners, NEW u \in User,
           Release(u) \/ ReleaseClosed(u) \/ Retire(u)
    PROVE  Owners'
<1> DEFINE c == user[u].conn
<1>0. {"closing", "retiring", "out"} \subseteq Pc \ {"using"}
  BY DEF Pc
<1>1. CASE Release(u)
  <2>1. PICK erring \in BOOLEAN :
           LET used == [conns EXCEPT ![c].erring = erring]
           IN  \/ /\ conns' = Shut(used, c)
                  /\ Goto(u, "closing", c) \/ Goto(u, "retiring", c)
                  /\ queue' = queue
               \/ /\ conns' = [used EXCEPT ![c].state = "idle"]
                  /\ Goto(u, "out", 0)
                  /\ queue' = Append(queue, c)
    BY <1>1, Zenon DEF Release, Returned
  <2> DEFINE used == [conns EXCEPT ![c].erring = erring]
  <2>2. used \in Seq(PooledConnection) /\ Len(used) = Len(conns)
    BY ErringKeeps DEF Owners
  <2> HIDE DEF used
  <2>3. CASE /\ conns' = Shut(used, c)
             /\ Goto(u, "closing", c) \/ Goto(u, "retiring", c)
             /\ queue' = queue
    <3>1. conns' \in Seq(PooledConnection) /\ Len(conns') = Len(conns)
      BY <2>2, <2>3, ClosingKeeps
    <3>2. QED
      BY <1>0, <2>3, <3>1, GotoFacts, KeepOwners
  <2>4. CASE /\ conns' = [used EXCEPT ![c].state = "idle"]
             /\ Goto(u, "out", 0)
             /\ queue' = Append(queue, c)
    <3>1. conns' \in Seq(PooledConnection) /\ Len(conns') = Len(conns)
      BY <2>2, <2>4, StateKeeps
    <3>2. QED
      BY <1>1, <2>4, <3>1, ReturnOwner DEF Release
  <2>5. QED
    BY <2>1, <2>3, <2>4 DEF used
<1>2. CASE ReleaseClosed(u)
  <2>1. conns' = Dropped(conns, c) /\ queue' = queue /\ Goto(u, "out", 0)
    BY <1>2 DEF ReleaseClosed
  <2>2. conns' \in Seq(PooledConnection) /\ Len(conns') = Len(conns)
    BY <2>1, ClosingKeeps DEF Owners
  <2>3. QED
    BY <1>0, <2>1, <2>2, GotoFacts, KeepOwners
<1>3. CASE Retire(u)
  <2> DEFINE n == Replacements(Without(connections, c))
             cs == Dropped(conns, c)
  <2>1. /\ conns' = Created(cs, n, "idle")
        /\ queue' = queue \o New(n)
        /\ Goto(u, "out", 0)
    BY <1>3 DEF Retire
  <2>2. n \in Nat
    BY DEF Replacements
  <2>3. cs \in Seq(PooledConnection) /\ Len(cs) = Len(conns)
    BY ClosingKeeps DEF Owners
  <2> HIDE DEF n, cs
  <2>4. conns' \in Seq(PooledConnection) /\ Len(conns') = Len(conns) + n
    BY <2>1, <2>2, <2>3, CreatedAdds
  <2>5. QED
    BY <1>0, <2>1, <2>2, <2>4, GotoFacts, RefillOwners
<1>4. QED
  BY <1>1, <1>2, <1>3

LEMMA BackgroundOwners ==
    ASSUME Owners, Background
    PROVE  Owners'
<1> DEFINE c == checker.conn
<1>0. UNCHANGED <<queue, user>>
  BY DEF Background, CheckHealth, PingReturns, PingFails, CheckerCloses
<1>1. CASE CheckHealth
  BY <1>0, <1>1, CheckFromOwners DEF CheckHealth, Owners
<1>2. CASE PingReturns
  <2>1. PICK erring \in {conns[c].erring, FALSE} :
           CheckFrom([conns EXCEPT ![c].erring = erring], checker.next,
                     checker.todo)
    BY <1>2 DEF PingReturns
  <2>2. conns \in Seq(PooledConnection)
    BY DEF Owners
  <2>3. c \in 1..Len(conns) => erring \in BOOLEAN
    <3>1. c \in 1..Len(conns) => conns[c] \in PooledConnection
      BY <2>2, ElementOfSeq
    <3>2. QED
      BY <3>1 DEF PooledConnection
  <2>4. /\ [conns EXCEPT ![c].erring = erring] \in Seq(PooledConnection)
        /\ Len([conns EXCEPT ![c].erring = erring]) = Len(conns)
    BY <2>2, <2>3, ErringKeeps
  <2>5. QED
    BY <1>0, <2>1, <2>4, CheckFromOwners
<1>3. CASE PingFails
  <2> DEFINE cs == [conns EXCEPT ![c].state = "unhealthy"]
  <2>1. cs \in Seq(PooledConnection) /\ Len(cs) = Len(conns)
    BY StateKeeps DEF Owners
  <2>2. CheckFrom(cs, checker.next, Append(checker.todo, c))
    BY <1>3 DEF PingFails
  <2> HIDE DEF cs
  <2>3. QED
    BY <1>0, <2>1, <2>2, CheckFromOwners
<1>4. CASE CheckerCloses
  <2> DEFINE cs == Dropped(conns, c)
  <2>1. cs \in Seq(PooledConnection) /\ Len(cs) = Len(conns)
    BY ClosingKeeps DEF Owners
  <2>2. conns' = Shut(cs, Head(checker.todo)) \/ conns' = cs
    BY <1>4, Zenon DEF CheckerCloses
  <2> HIDE DEF cs
  <2>3. conns' \in Seq(PooledConnection) /\ Len(conns') = Len(conns)
    BY <2>1, <2>2, ClosingKeeps
  <2>4. QED
    BY <1>0, <2>3, KeepOwners DEF Owners
<1>5. QED
  BY <1>1, <1>2, <1>3, <1>4 DEF Background

LEMMA MaintenanceOwners ==
    ASSUME Owners, connections \in Seq(Nat), Maintenance
    PROVE  Owners'
<1>0. UNCHANGED user
  BY DEF Maintenance, Cleanup, CleanerCloses
<1>1. CASE Cleanup
  <2>1. PICK todo : CleanOn(conns, connections, todo)
    BY <1>1 DEF Cleanup
  <2>2. QED
    BY <1>0, <2>1, CleanOnOwners, MissingIsNat DEF Owners
<1>2. CASE CleanerCloses
  <2> DEFINE cs == Dropped(conns, cleaner.conn)
             list == Without(connections, cleaner.conn)
  <2>1. cs \in Seq(PooledConnection) /\ Len(cs) = Len(conns)
    BY ClosingKeeps DEF Owners
  <2>2. Missing(list) \in Nat
    BY WithoutFacts, MissingIsNat
  <2>3. CleanOn(cs, list, cleaner.todo)
    BY <1>2 DEF CleanerCloses
  <2> HIDE DEF cs, list
  <2>4. QED
    BY <1>0, <2>1, <2>2, <2>3, CleanOnOwners
<1>3. QED
  BY <1>1, <1>2 DEF Maintenance

LEMMA CloseOwners ==
    ASSUME Owners, Close \/ CloserCloses
    PROVE  Owners'
<1>1. CASE Close
  BY <1>1, CloseFromOwners DEF Close, Owners
<1>2. CASE CloserCloses
  <2> DEFINE cs == Dropped(conns, closer.conn)
             list == Without(connections, closer.conn)
  <2>1. cs \in Seq(PooledConnection) /\ Len(cs) = Len(conns)
    BY ClosingKeeps DEF Owners
  <2>2. CloseFrom(cs, list, closer.next) /\ UNCHANGED user
    BY <1>2 DEF CloserCloses
  <2> HIDE DEF cs, list
  <2>3. QED
    BY <2>1, <2>2, CloseFromOwners
<1>3. QED
  BY <1>1, <1>2

(****************************************************************************)
(* Every step keeps Bounded.                                                *)
(****************************************************************************)

\* n numbers of new connections.
LEMMA NewFacts ==
    ASSUME Owners, NEW n \in Nat
    PROVE  New(n) \in Seq(Nat) /\ Len(New(n)) = n
<1>1. Len(conns) \in Nat
  BY LenProperties DEF Owners
<1>2. QED
  BY <1>1 DEF New

\* A list with connections added to it.
LEMMA Extended ==
    ASSUME Owners, NEW list \in Seq(Nat), NEW n \in Nat,
           Len(list) + n <= MaxConnections
    PROVE  list \o New(n) \in Seq(Nat) /\ Len(list \o New(n)) <= MaxConnections
<1> DEFINE more == New(n)
<1>1. more \in Seq(Nat) /\ Len(more) = n
  BY NewFacts
<1> HIDE DEF more
<1>2. list \o more \in Seq(Nat) /\ Len(list \o more) = Len(list) + Len(more)
  BY <1>1, ConcatProperties
<1>3. QED
  BY <1>1, <1>2 DEF more

LEMMA RequestBounded ==
    ASSUME Owners, Bounded, NEW u \in User, Request(u)
    PROVE  Bounded'
<1>1. CASE initialized
  BY <1>1 DEF Request, Bounded
<1>2. CASE ~initialized
  <2>1. /\ connections' = connections \o New(PoolSize)
        /\ initialized'
        /\ connections = <<>>
    BY <1>2 DEF Request, Bounded
  <2>2. /\ connections \in Seq(Nat)
        /\ Len(connections) + PoolSize <= MaxConnections
    BY <2>1, PoolAssumption, EmptySeq
  <2>3. QED
    BY <2>1, <2>2, Extended, PoolAssumption DEF Bounded
<1>3. QED
  BY <1>1, <1>2

LEMMA UserBounded ==
    ASSUME Owners, Bounded, NEW u \in User, Proceed(u) \/ Release(u)
    PROVE  Bounded'
<1>1. user[u].pc # "out"
  BY DEF Proceed, Take, Replace, Timeout, Release, ReleaseClosed, Retire, At
<1>2. initialized'
  BY <1>1 DEF Bounded, Proceed, Take, Replace, Timeout, Release,
              ReleaseClosed, Retire
<1>3. connections \in Seq(Nat) /\ Len(connections) <= MaxConnections
      /\ Len(connections) \in Nat /\ Len(conns) \in Nat
  BY LenProperties DEF Bounded, Owners
<1>4. CASE connections' = connections
  BY <1>2, <1>3, <1>4 DEF Bounded
<1>5. CASE connections' = Without(connections, user[u].conn)
  <2>1. connections' \in Seq(Nat) /\ Len(connections') <= Len(connections)
    BY <1>3, <1>5, WithoutFacts
  <2>2. QED
    BY <1>2, <1>3, <2>1, LenProperties, PoolAssumption DEF Bounded
<1>6. CASE MayGrow /\ connections' = Append(connections, Len(conns) + 1)
  <2>1. /\ connections' \in Seq(Nat)
        /\ Len(connections') = Len(connections) + 1
    BY <1>3, <1>6, AppendProperties
  <2>2. QED
    BY <1>2, <1>3, <1>6, <2>1, PoolAssumption DEF Bounded, MayGrow
<1>7. CASE Retire(u)
  <2> DEFINE left == Without(connections, user[u].conn)
             n == Replacements(left)
  <2>1. left \in Seq(Nat) /\ Len(left) <= Len(connections)
    BY <1>3, WithoutFacts
  <2>2. connections' = left \o New(n)
    BY <1>7 DEF Retire
  <2> HIDE DEF left
  <2>3. Len(left) \in Nat
    BY <2>1, LenProperties
  <2>4. n \in Nat /\ Len(left) + n <= MaxConnections
    BY <1>3, <2>1, <2>3, PoolAssumption DEF Replacements
  <2> HIDE DEF n
  <2>5. QED
    BY <1>2, <2>1, <2>2, <2>4, Extended DEF Bounded
<1>8. QED
  BY <1>4, <1>5, <1>6, <1>7
     DEF Proceed, Take, Replace, Timeout, Release, ReleaseClosed

\* Filling the pool up does not go beyond its size.
LEMMA CleanOnBounded ==
    ASSUME Owners, NEW cs, NEW list \in Seq(Nat), NEW todo,
           Len(list) <= MaxConnections, CleanOn(cs, list, todo)
    PROVE  connections' \in Seq(Nat) /\ Len(connections') <= MaxConnections
<1>1. CASE connections' = list
  BY <1>1
<1>2. CASE connections' = list \o New(Missing(list))
  <2> DEFINE n == Missing(list)
  <2>1. n \in Nat /\ Len(list) + n <= MaxConnections
    BY LenProperties, MissingIsNat, PoolAssumption DEF Missing
  <2> HIDE DEF n
  <2>2. QED
    BY <1>2, <2>1, Extended DEF n
<1>3. QED
  BY <1>1, <1>2, Zenon DEF CleanOn

LEMMA TaskBounded ==
    ASSUME Owners, Bounded, Background \/ Maintenance \/ Close \/ CloserCloses
    PROVE  Bounded'
<1>0. /\ connections \in Seq(Nat) /\ Len(connections) <= MaxConnections
      /\ Len(connections) \in Nat
      /\ UNCHANGED <<initialized, user>>
  BY LenProperties
     DEF Bounded, Background, CheckHealth, PingReturns, PingFails,
         CheckerCloses, Maintenance, Cleanup, CleanerCloses, Close, CloserCloses
<1>1. \A c : /\ Without(connections, c) \in Seq(Nat)
             /\ Len(Without(connections, c)) <= MaxConnections
             /\ connections = <<>> => Without(connections, c) = <<>>
  <2> SUFFICES ASSUME NEW c
               PROVE  /\ Without(connections, c) \in Seq(Nat)
                      /\ Len(Without(connections, c)) <= MaxConnections
                      /\ connections = <<>> => Without(connections, c) = <<>>
    OBVIOUS
  <2>1. /\ Without(connections, c) \in Seq(Nat)
        /\ Len(Without(connections, c)) <= Len(connections)
        /\ connections = <<>> => Without(connections, c) = <<>>
    BY <1>0, WithoutFacts
  <2>2. Len(Without(connections, c)) \in Nat
    BY <2>1, LenProperties
  <2>3. QED
    BY <1>0, <2>1, <2>2, PoolAssumption
<1>2. CASE Maintenance
  <2>1. initialized
    BY <1>2 DEF Maintenance, Cleanup, CleanerCloses, Bounded
  <2>2. connections' \in Seq(Nat) /\ Len(connections') <= MaxConnections
    <3>1. CASE Cleanup
      <4>1. PICK todo : CleanOn(conns, connections, todo)
        BY <3>1 DEF Cleanup
      <4>2. QED
        BY <1>0, <4>1, CleanOnBounded
    <3>2. CASE CleanerCloses
      BY <1>1, <3>2, CleanOnBounded DEF CleanerCloses
    <3>3. QED
      BY <1>2, <3>1, <3>2 DEF Maintenance
  <2>3. QED
    BY <1>0, <2>1, <2>2 DEF Bounded
<1>3. CASE Background \/ Close \/ CloserCloses
  <2>1. \/ connections' = connections
        \/ connections' = <<>>
        \/ \E c : connections' = Without(connections, c)
    BY <1>3, Zenon DEF Background, CheckHealth, PingReturns, PingFails,
                       CheckerCloses, Close, CloserCloses, CloseFrom
  <2>2. ~initialized => cleaner' = cleaner
    BY <1>3 DEF Background, CheckHealth, PingReturns, PingFails,
                CheckerCloses, Close, CloserCloses
  <2>3. /\ connections' \in Seq(Nat)
        /\ Len(connections') <= MaxConnections
        /\ connections = <<>> => connections' = <<>>
    <3>1. CASE connections' = connections
      BY <1>0, <3>1
    <3>2. CASE connections' = <<>>
      <4>1. /\ connections' \in Seq(Nat)
            /\ Len(connections') = 0
        BY <3>2, EmptySeq
      <4>2. QED
        BY <3>2, <4>1, PoolAssumption
    <3>3. CASE \E c : connections' = Without(connections, c)
      BY <1>1, <3>3
    <3>4. QED
      BY <2>1, <3>1, <3>2, <3>3
  <2>4. QED
    BY <1>0, <2>2, <2>3 DEF Bounded
<1>4. QED
  BY <1>2, <1>3

(****************************************************************************)
(* The theorems.                                                            *)
(****************************************************************************)

PoolInv == Owners /\ Bounded

LEMMA PoolInit == Init => PoolInv
<1> SUFFICES ASSUME Init PROVE PoolInv
  OBVIOUS
<1>1. /\ conns = <<>> /\ queue = <<>> /\ connections = <<>>
      /\ user = [u \in User |-> [pc |-> "out", conn |-> 0]]
      /\ cleaner.pc = "absent"
  BY DEF Init, Absent
<1>2. /\ <<>> \in Seq(PooledConnection) /\ Len(<<>>) = 0
      /\ <<>> \in Seq(1..0) /\ <<>> \in Seq(Nat)
  BY EmptySeq
<1>3. Exclusive
  BY <1>1 DEF Exclusive, ToSet
<1>4. Owners
  BY <1>1, <1>2, <1>3 DEF Owners, Pc
<1>5. Bounded
  BY <1>1, <1>2, PoolAssumption DEF Bounded
<1>6. QED
  BY <1>4, <1>5 DEF PoolInv

LEMMA PoolNext == PoolInv /\ [Next]_vars => PoolInv'
<1> SUFFICES ASSUME Owners, Bounded, [Next]_vars PROVE Owners' /\ Bounded'
  BY DEF PoolInv
<1>1. ASSUME NEW u \in User, Request(u) PROVE Owners' /\ Bounded'
  BY <1>1, RequestOwners, RequestBounded
<1>2. ASSUME NEW u \in User, Proceed(u) \/ Release(u)
      PROVE  Owners' /\ Bounded'
  BY <1>2, AcquireOwners, ReleaseOwners, UserBounded DEF Proceed
<1>3. CASE Background
  BY <1>3, BackgroundOwners, TaskBounded
<1>4. CASE Maintenance
  BY <1>4, MaintenanceOwners, TaskBounded DEF Bounded
<1>5. CASE Close \/ CloserCloses
  BY <1>5, CloseOwners, TaskBounded
<1>6. CASE UNCHANGED vars
  BY <1>6 DEF vars, Owners, Bounded, Exclusive
<1>7. QED
  BY <1>1, <1>2, <1>3, <1>4, <1>5, <1>6 DEF Next

LEMMA PoolInvariant == Spec => []PoolInv
BY PoolInit, PoolNext, PTL DEF Spec

\* No connection is ever with two users, twice in the queue, or in the queue
\* and with a user, for any number of users and any size of the pool
\* (_acquire_connection, _release_connection and the background tasks).
THEOREM ConnectionsExclusive == Spec => []Exclusive
<1>1. PoolInv => Exclusive
  BY DEF PoolInv, Owners
<1>2. QED
  BY <1>1, PoolInvariant, PTL

\* The pool's list never exceeds max_connections, for any number of users that
\* find the pool exhausted, retire or clean up connections at the same time.
THEOREM ListBounded == Spec => []TrackedWithinMax
<1>1. PoolInv => TrackedWithinMax
  BY DEF PoolInv, Bounded, TrackedWithinMax
<1>2. QED
  BY <1>1, PoolInvariant, PTL

(****************************************************************************)
(* What becomes of a pool's connections: none is lost, and none is kept in  *)
(* the list when it has been closed.                                        *)
(****************************************************************************)

(****************************************************************************)
(* The connections that refuse requests, and lists without repetitions.     *)
(****************************************************************************)

ShutOf(cs) == {c \in 1..Len(cs) : cs[c].shut}

Injective(list) == \A i, j \in 1..Len(list) : i # j => list[i] # list[j]

\* Closing a connection adds it to those that refuse; nothing else changes them.
LEMMA ShutChanges ==
    ASSUME NEW cs \in Seq(PooledConnection), NEW c
    PROVE  /\ c \in 1..Len(cs) => ShutOf(Shut(cs, c)) = ShutOf(cs) \cup {c}
           /\ ShutOf(Dropped(cs, c)) = ShutOf(cs)
           /\ \A s : ShutOf([cs EXCEPT ![c].state = s]) = ShutOf(cs)
           /\ \A e : ShutOf([cs EXCEPT ![c].erring = e]) = ShutOf(cs)
<1>0. /\ Len(cs) \in Nat
      /\ DOMAIN cs = 1..Len(cs)
      /\ \A i \in 1..Len(cs) : cs[i] \in PooledConnection
  BY LenProperties, ElementOfSeq
<1>1. ASSUME NEW r, NEW ds, ds = [cs EXCEPT ![c] = r]
      PROVE  /\ Len(ds) = Len(cs)
             /\ \A i \in 1..Len(cs) : i # c => ds[i] = cs[i]
             /\ c \in 1..Len(cs) => ds[c] = r
  <2>1. DOMAIN ds = 1..Len(cs)
    BY <1>0, <1>1
  <2>2. Len(ds) = Len(cs)
    BY <1>0, <2>1, ElementChanged
  <2>3. QED
    BY <1>0, <1>1, <2>2
<1>2. c \in 1..Len(cs) => ShutOf(Shut(cs, c)) = ShutOf(cs) \cup {c}
  <2> DEFINE r == [cs[c] EXCEPT !.shut = TRUE]
  <2>1. Shut(cs, c) = [cs EXCEPT ![c] = r]
    BY DEF Shut
  <2>2. c \in 1..Len(cs) => r.shut
    BY <1>0 DEF PooledConnection
  <2> HIDE DEF r
  <2>3. QED
    BY <1>1, <2>1, <2>2 DEF ShutOf
<1>3. \A s : ShutOf([cs EXCEPT ![c].state = s]) = ShutOf(cs)
  <2> TAKE s
  <2> DEFINE r == [cs[c] EXCEPT !.state = s]
             ds == [cs EXCEPT ![c] = r]
  <2>1. c \in 1..Len(cs) => r.shut = cs[c].shut
    BY <1>0 DEF PooledConnection
  <2> HIDE DEF r
  <2>2. ShutOf(ds) = ShutOf(cs)
    BY <1>1, <2>1 DEF ShutOf
  <2>3. QED
    BY <2>2 DEF r
<1>4. \A e : ShutOf([cs EXCEPT ![c].erring = e]) = ShutOf(cs)
  <2> TAKE e
  <2> DEFINE r == [cs[c] EXCEPT !.erring = e]
             ds == [cs EXCEPT ![c] = r]
  <2>1. c \in 1..Len(cs) => r.shut = cs[c].shut
    BY <1>0 DEF PooledConnection
  <2> HIDE DEF r
  <2>2. ShutOf(ds) = ShutOf(cs)
    BY <1>1, <2>1 DEF ShutOf
  <2>3. QED
    BY <2>2 DEF r
<1>5. QED
  BY <1>2, <1>3, <1>4 DEF Dropped

\* New connections answer requests.
LEMMA CreatedShut ==
    ASSUME NEW cs \in Seq(PooledConnection), NEW n \in Nat,
           NEW s \in {"idle", "active", "unhealthy", "closed"}
    PROVE  ShutOf(Created(cs, n, s)) = ShutOf(cs)
<1> DEFINE more == [i \in 1..n |-> Fresh(s)]
<1>1. Fresh(s) \in PooledConnection /\ Fresh(s).shut = FALSE
  BY DEF Fresh, PooledConnection
<1>2. more \in Seq(PooledConnection) /\ Len(more) = n
  BY <1>1
<1>3. \A i \in 1..n : more[i].shut = FALSE
  BY <1>1
<1> HIDE DEF more
<1>4. /\ Len(cs) \in Nat
      /\ Len(cs \o more) = Len(cs) + n
      /\ \A i \in 1..(Len(cs) + n) :
            (cs \o more)[i] = IF i <= Len(cs) THEN cs[i] ELSE more[i - Len(cs)]
  BY <1>2, ConcatProperties, LenProperties
<1>5. \A i \in 1..(Len(cs) + n) : ~(i <= Len(cs)) => i - Len(cs) \in 1..n
  BY <1>4
<1>6. ShutOf(cs \o more) = ShutOf(cs)
  BY <1>3, <1>4, <1>5 DEF ShutOf
<1>7. QED
  BY <1>6 DEF Created, more

\* w is the list without its element at i.
Shortened(w, list, i) ==
    /\ Len(w) = Len(list) - 1
    /\ \A j \in 1..(Len(list) - 1) : w[j] = IF j < i THEN list[j] ELSE list[j + 1]

LEMMA RemoveAtElements ==
    ASSUME NEW S, NEW list \in Seq(S), NEW k \in Nat, Len(list) = k, NEW i \in 1..k
    PROVE  RemoveAt(list, i) \in Seq(S) /\ Shortened(RemoveAt(list, i), list, i)
<1> DEFINE left == SubSeq(list, 1, i - 1)
           right == SubSeq(list, i + 1, k)
<1>0. \A j \in 1..k : list[j] \in S
  BY ElementOfSeq
<1>1. /\ left \in Seq(S) /\ Len(left) = i - 1
      /\ \A j \in 1..(i - 1) : left[j] = list[j]
  <2>1. \A j \in 1..(i - 1) : list[j] \in S
    BY <1>0
  <2>2. 1 \in Int /\ i - 1 \in Int
    OBVIOUS
  <2>3. QED
    BY <2>1, <2>2, SubSeqProperties
<1>2. /\ right \in Seq(S) /\ Len(right) = k - i
      /\ \A j \in 1..(k - i) : right[j] = list[i + j]
  <2>1. \A j \in (i + 1)..k : list[j] \in S
    BY <1>0
  <2>2. i + 1 \in Int /\ k \in Int
    OBVIOUS
  <2>3. /\ right \in Seq(S)
        /\ Len(right) = IF i + 1 <= k THEN k - (i + 1) + 1 ELSE 0
        /\ \A j \in 1..k - (i + 1) + 1 : right[j] = list[(i + 1) + j - 1]
    BY <2>1, <2>2, SubSeqProperties
  <2> HIDE DEF right
  <2>4. \A j \in 1..(k - i) : j \in 1..k - (i + 1) + 1 /\ (i + 1) + j - 1 = i + j
    OBVIOUS
  <2>5. QED
    BY <2>3, <2>4
<1>3. RemoveAt(list, i) = left \o right
  BY DEF RemoveAt
<1> HIDE DEF left, right
<1>4. /\ left \o right \in Seq(S)
      /\ Len(left \o right) = Len(left) + Len(right)
      /\ \A j \in 1..(Len(left) + Len(right)) :
            (left \o right)[j] = IF j <= Len(left) THEN left[j] ELSE right[j - Len(left)]
  BY <1>1, <1>2, ConcatProperties
<1>5. Len(left) + Len(right) = k - 1
  BY <1>1, <1>2
<1>6. \A j \in 1..(k - 1) :
         (left \o right)[j] = IF j < i THEN list[j] ELSE list[j + 1]
  <2> TAKE j \in 1..(k - 1)
  <2>1. CASE j < i
    <3>1. j \in 1..(i - 1) /\ j <= Len(left)
      BY <1>1, <2>1
    <3>2. QED
      BY <1>1, <1>4, <1>5, <2>1, <3>1
  <2>2. CASE ~(j < i)
    <3>1. /\ j - (i - 1) \in 1..(k - i) /\ i + (j - (i - 1)) = j + 1
          /\ ~(j <= Len(left))
      BY <1>1, <2>2
    <3>2. QED
      BY <1>1, <1>2, <1>4, <1>5, <2>2, <3>1
  <2>3. QED
    BY <2>1, <2>2
<1>7. QED
  BY <1>3, <1>4, <1>5, <1>6 DEF Shortened

\* A list without c: c is not in it any more, and the others are.
LEMMA WithoutSet ==
    ASSUME NEW S, NEW list \in Seq(S), NEW c, Injective(list)
    PROVE  /\ Without(list, c) \in Seq(S)
           /\ Injective(Without(list, c))
           /\ ToSet(Without(list, c)) = ToSet(list) \ {c}
<1>0. Len(list) \in Nat /\ DOMAIN list = 1..Len(list)
  BY LenProperties
<1>1. CASE c \in ToSet(list)
  <2>1. PICK i \in 1..Len(list) :
           list[i] = c /\ Without(list, c) = RemoveAt(list, i)
    <3> DEFINE i == CHOOSE j \in DOMAIN list : list[j] = c
    <3>1. i \in 1..Len(list) /\ list[i] = c
      BY <1>0, <1>1 DEF ToSet
    <3>2. Without(list, c) = RemoveAt(list, i)
      BY <1>1 DEF Without
    <3> HIDE DEF i
    <3>3. QED
      BY <3>1, <3>2
  <2>2. PICK k \in Nat : k = Len(list)
    BY <1>0
  <2>3. PICK w : w = RemoveAt(list, i)
    OBVIOUS
  <2>4. /\ w \in Seq(S) /\ Len(w) = k - 1
        /\ \A j \in 1..(k - 1) : w[j] = IF j < i THEN list[j] ELSE list[j + 1]
    <3>1. i \in 1..k /\ Len(list) = k
      BY <2>1, <2>2
    <3>2. w \in Seq(S) /\ Shortened(w, list, i)
      BY <2>3, <3>1, RemoveAtElements
    <3>3. QED
      BY <3>1, <3>2 DEF Shortened
  <2>5. i \in 1..k /\ DOMAIN list = 1..k /\ DOMAIN w = 1..(k - 1)
    BY <1>0, <2>1, <2>2, <2>4, LenProperties
  <2>6. \A j, m \in 1..k : j # m => list[j] # list[m]
    BY <2>2 DEF Injective
  <2>7. Injective(w)
    BY <2>4, <2>5, <2>6 DEF Injective
  <2>8. ASSUME NEW x \in ToSet(w) PROVE x \in ToSet(list) \ {c}
    <3>1. PICK j \in 1..(k - 1) : x = w[j]
      BY <2>5, <2>8 DEF ToSet
    <3>2. PICK m \in 1..k : x = list[m] /\ m # i
      <4>1. w[j] = IF j < i THEN list[j] ELSE list[j + 1]
        BY <2>4
      <4>2. CASE j < i
        <5>1. j \in 1..k /\ x = list[j] /\ j # i
          BY <2>5, <3>1, <4>1, <4>2
        <5>2. QED
          BY <5>1
      <4>3. CASE ~(j < i)
        <5>1. j + 1 \in 1..k /\ x = list[j + 1] /\ j + 1 # i
          BY <2>5, <3>1, <4>1, <4>3
        <5>2. QED
          BY <5>1
      <4>4. QED
        BY <4>2, <4>3
    <3>3. QED
      BY <2>1, <2>5, <2>6, <3>2 DEF ToSet
  <2>9. ASSUME NEW x \in ToSet(list) \ {c} PROVE x \in ToSet(w)
    <3>1. PICK m \in 1..k : x = list[m]
      BY <2>5, <2>9 DEF ToSet
    <3>2. m # i
      BY <2>1, <3>1
    <3>3. \E j \in 1..(k - 1) : w[j] = x
      <4>1. CASE m < i
        <5>1. m \in 1..(k - 1) /\ w[m] = list[m]
          BY <2>4, <2>5, <4>1
        <5>2. QED
          BY <3>1, <5>1
      <4>2. CASE m > i
        <5>1. m - 1 \in 1..(k - 1) /\ ~(m - 1 < i) /\ (m - 1) + 1 = m
          BY <2>5, <4>2
        <5>2. w[m - 1] = list[m]
          BY <2>4, <5>1
        <5>3. QED
          BY <3>1, <5>1, <5>2
      <4>3. QED
        BY <2>5, <3>2, <4>1, <4>2
    <3>4. QED
      BY <2>5, <3>3 DEF ToSet
  <2>10. ToSet(w) = ToSet(list) \ {c}
    BY <2>8, <2>9
  <2>11. QED
    BY <2>1, <2>3, <2>4, <2>7, <2>10
<1>2. CASE c \notin ToSet(list)
  BY <1>2 DEF Without
<1>3. QED
  BY <1>1, <1>2

\* Connections that are new are in no list yet.
LEMMA NewSet ==
    ASSUME NEW k \in Nat, k = Len(conns), NEW n \in Nat,
           NEW list \in Seq(1..k)
    PROVE  /\ list \o New(n) \in Seq(1..(k + n))
           /\ Injective(list) => Injective(list \o New(n))
           /\ ToSet(list \o New(n)) = ToSet(list) \cup (k + 1)..(k + n)
<1> DEFINE more == New(n)
           q == Len(list)
<1>0. /\ q \in Nat
      /\ DOMAIN list = 1..q
      /\ \A i \in 1..q : list[i] \in 1..k
  BY LenProperties, ElementOfSeq
<1>1. more \in Seq(1..(k + n)) /\ Len(more) = n /\ \A i \in 1..n : more[i] = k + i
  BY DEF New
<1>2. list \in Seq(1..(k + n))
  <2>1. 1..k \subseteq 1..(k + n)
    OBVIOUS
  <2>2. QED
    BY <2>1, SeqMonotonic
<1> HIDE DEF more
<1>3. /\ list \o more \in Seq(1..(k + n))
      /\ Len(list \o more) = q + n
      /\ \A i \in 1..(q + n) :
            (list \o more)[i] = IF i <= q THEN list[i] ELSE more[i - q]
  BY <1>1, <1>2, ConcatProperties
<1> DEFINE w == list \o more
<1>4. \A i \in 1..(q + n) : w[i] = IF i <= q THEN list[i] ELSE k + (i - q)
  <2> TAKE i \in 1..(q + n)
  <2>1. ~(i <= q) => i - q \in 1..n
    BY <1>0
  <2>2. QED
    BY <1>1, <1>3, <2>1
<1>5. DOMAIN w = 1..(q + n) /\ Len(w) = q + n
  BY <1>3, LenProperties
<1> HIDE DEF w
<1>6. Injective(list) => Injective(w)
  BY <1>0, <1>4, <1>5 DEF Injective
<1>7. ToSet(w) = ToSet(list) \cup (k + 1)..(k + n)
  <2>1. ASSUME NEW x \in ToSet(w) PROVE x \in ToSet(list) \cup (k + 1)..(k + n)
    BY <1>0, <1>4, <1>5 DEF ToSet
  <2>2. ASSUME NEW x \in ToSet(list) PROVE x \in ToSet(w)
    <3>1. PICK i \in 1..q : x = list[i]
      BY <1>0 DEF ToSet
    <3>2. i \in 1..(q + n) /\ w[i] = x
      BY <1>0, <1>4, <3>1
    <3>3. QED
      BY <1>5, <3>2 DEF ToSet
  <2>3. ASSUME NEW x \in (k + 1)..(k + n) PROVE x \in ToSet(w)
    <3>1. q + (x - k) \in 1..(q + n) /\ w[q + (x - k)] = x
      BY <1>0, <1>4
    <3>2. QED
      BY <1>5, <3>1 DEF ToSet
  <2>4. QED
    BY <2>1, <2>2, <2>3
<1>8. QED
  BY <1>3, <1>6, <1>7 DEF w, more

\* A list with one connection more.
LEMMA AppendSet ==
    ASSUME NEW S, NEW list \in Seq(S), NEW x \in S
    PROVE  /\ Append(list, x) \in Seq(S)
           /\ Injective(list) /\ x \notin ToSet(list) => Injective(Append(list, x))
           /\ ToSet(Append(list, x)) = ToSet(list) \cup {x}
<1>1. PICK q \in Nat : q = Len(list)
  BY LenProperties
<1>2. PICK w : w = Append(list, x)
  OBVIOUS
<1>3. /\ w \in Seq(S) /\ Len(w) = q + 1
      /\ \A i \in 1..(q + 1) : w[i] = IF i = q + 1 THEN x ELSE list[i]
  BY <1>1, <1>2, AppendProperties
<1>4. DOMAIN list = 1..q /\ DOMAIN w = 1..(q + 1)
  BY <1>1, <1>3, LenProperties
<1>5. Injective(list) /\ x \notin ToSet(list) => Injective(w)
  <2>1. x \notin ToSet(list) => \A i \in 1..q : list[i] # x
    BY <1>4 DEF ToSet
  <2>2. QED
    BY <1>1, <1>3, <2>1 DEF Injective
<1>6. ASSUME NEW y \in ToSet(list) PROVE y \in ToSet(w)
  <2>1. PICK i \in 1..q : list[i] = y
    BY <1>4, <1>6 DEF ToSet
  <2>2. i \in 1..(q + 1) /\ w[i] = y
    BY <1>3, <2>1
  <2>3. QED
    BY <1>4, <2>2 DEF ToSet
<1>7. x \in ToSet(w)
  BY <1>3, <1>4 DEF ToSet
<1>8. ASSUME NEW y \in ToSet(w) PROVE y \in ToSet(list) \cup {x}
  <2>1. PICK i \in 1..(q + 1) : w[i] = y
    BY <1>4, <1>8 DEF ToSet
  <2>2. i # q + 1 => i \in 1..q
    OBVIOUS
  <2>3. QED
    BY <1>3, <1>4, <2>1, <2>2 DEF ToSet
<1>9. QED
  BY <1>2, <1>3, <1>5, <1>6, <1>7, <1>8

\* Nothing but the head is lost with the head.
LEMMA TailSet ==
    ASSUME NEW S, NEW list \in Seq(S), list # <<>>
    PROVE  /\ Head(list) \in S
           /\ \A x \in ToSet(list) : x \in ToSet(Tail(list)) \/ x = Head(list)
<1>1. PICK q \in Nat : q = Len(list)
  BY LenProperties
<1>2. PICK w : w = Tail(list)
  OBVIOUS
<1>3. /\ Head(list) \in S /\ Head(list) = list[1]
      /\ w \in Seq(S) /\ Len(w) = q - 1
      /\ \A i \in 1..(q - 1) : w[i] = list[i + 1]
  <2>1. /\ Tail(list) \in Seq(S) /\ Len(Tail(list)) = q - 1
        /\ \A i \in 1..(q - 1) : Tail(list)[i] = list[i + 1]
        /\ Head(list) = list[1] /\ Head(list) \in S
    BY <1>1, HeadTailProperties
  <2>2. QED
    BY <1>2, <2>1
<1>4. DOMAIN list = 1..q /\ DOMAIN w = 1..(q - 1)
  BY <1>1, <1>3, LenProperties
<1>5. ASSUME NEW x \in ToSet(list), x # Head(list) PROVE x \in ToSet(w)
  <2>1. PICK i \in 1..q : list[i] = x
    BY <1>4, <1>5 DEF ToSet
  <2>2. i # 1
    BY <1>3, <1>5, <2>1
  <2>3. i - 1 \in 1..(q - 1) /\ (i - 1) + 1 = i
    BY <2>2
  <2>4. w[i - 1] = x
    BY <1>3, <2>1, <2>3
  <2>5. QED
    BY <1>4, <2>3, <2>4 DEF ToSet
<1>6. QED
  BY <1>2, <1>3, <1>5

(****************************************************************************)
(* The invariant.                                                           *)
(****************************************************************************)

Busy == {"replacing", "closing", "retiring"}

Held(c) == \E u \in User : user[u].conn = c

BeingClosed(c) ==
    \/ \E u \in User : user[u].conn = c /\ user[u].pc \in Busy
    \/ checker.pc = "closing" /\ checker.conn = c
    \/ cleaner.pc = "closing" /\ cleaner.conn = c

TaskPc == {"absent", "asleep", "pinging", "failing", "closing", "done"}

TaskOf(k) == [pc : TaskPc, conn : 0..k, next : Nat, todo : Seq(1..k)]

\* The list names each connection once, and the tasks name connections that
\* exist.
Lists ==
    /\ Len(conns) <= MaxCreated
    /\ connections \in Seq(1..Len(conns))
    /\ Injective(connections)
    /\ checker \in TaskOf(Len(conns))
    /\ cleaner \in TaskOf(Len(conns))
    /\ closer \in TaskOf(Len(conns))
    /\ checker.pc \in {"pinging", "failing"} => checker.conn # 0 /\ checker.next # 0
    /\ closer.pc = "closing" => closer.next # 0

\* Whoever closes a connection has shut it, a connection of the list that is
\* shut is being closed, and one that is not shut is somewhere.
Books ==
    /\ \A u \in User : user[u].pc \in {"out", "waiting"} => user[u].conn = 0
    /\ \A u \in User : user[u].pc \in Busy => user[u].conn \in ShutOf(conns)
    /\ checker.pc = "closing" => checker.conn \in ShutOf(conns)
    /\ cleaner.pc = "closing" => cleaner.conn \in ShutOf(conns)
    /\ closer.pc = "closing" => closer.conn \in ShutOf(conns)
    /\ ~closed =>
          \A c \in ToSet(connections) : c \in ShutOf(conns) => BeingClosed(c)
    /\ closer.pc # "done" =>
          \A c \in 1..Len(conns) :
             \/ c \in ShutOf(conns) \cup ToSet(connections) \cup ToSet(queue)
             \/ Held(c)

\* A user moves on to pc with connection c; the old one is in good hands.
LEMMA UserStep ==
    ASSUME Owners, Books, NEW u \in User, NEW pc \in Pc, NEW c, Goto(u, pc, c),
           UNCHANGED <<closed, closer>>,
           /\ UNCHANGED <<checker, cleaner>>
              \/ /\ checker'.pc = "asleep" /\ cleaner'.pc = "asleep"
                 /\ \A x \in ToSet(connections') : x \notin ShutOf(conns'),
           pc \in {"out", "waiting"} => c = 0,
           pc \in Busy => c \in ShutOf(conns'),
           \A x \in ShutOf(conns) : x \in ShutOf(conns'),
           \A x \in ShutOf(conns') : x \in ShutOf(conns) \/ (x = c /\ pc \in Busy),
           \A x \in ToSet(connections') :
              x \in ToSet(connections) \/ x \notin ShutOf(conns'),
           user[u].pc \in Busy => user[u].conn \notin ToSet(connections'),
           \A x \in 1..Len(conns') :
              \/ x \in 1..Len(conns) /\ x # user[u].conn
                 /\ x \notin ToSet(connections) \cup ToSet(queue)
              \/ x \in ShutOf(conns') \cup ToSet(connections') \cup ToSet(queue')
              \/ x = c
    PROVE  Books'
<1>1. \A v \in User : user'[v] = IF v = u THEN [pc |-> pc, conn |-> c] ELSE user[v]
  BY DEF Goto, Owners
<1>2. user'[u].pc = pc /\ user'[u].conn = c
  BY <1>1
<1>3. /\ \A v \in User : user'[v].pc \in {"out", "waiting"} => user'[v].conn = 0
      /\ \A v \in User : user'[v].pc \in Busy => user'[v].conn \in ShutOf(conns')
  <2> SUFFICES ASSUME NEW v \in User
               PROVE  /\ user'[v].pc \in {"out", "waiting"} => user'[v].conn = 0
                      /\ user'[v].pc \in Busy => user'[v].conn \in ShutOf(conns')
    OBVIOUS
  <2>1. CASE v = u
    BY <1>2, <2>1
  <2>2. CASE v # u
    BY <1>1, <2>2 DEF Books
  <2>3. QED
    BY <2>1, <2>2
<1>4. ASSUME ~closed', NEW x \in ToSet(connections'), x \in ShutOf(conns')
      PROVE  BeingClosed(x)'
  <2>1. UNCHANGED <<checker, cleaner>>
    BY <1>4
  <2>2. CASE x = c /\ pc \in Busy
    BY <1>2, <2>2 DEF BeingClosed
  <2>3. CASE x \in ShutOf(conns)
    <3>1. x \in ToSet(connections) /\ BeingClosed(x)
      BY <1>4, <2>3 DEF Books
    <3>2. CASE \E v \in User : user[v].conn = x /\ user[v].pc \in Busy
      <4>1. PICK v \in User : user[v].conn = x /\ user[v].pc \in Busy
        BY <3>2
      <4>2. v # u
        BY <1>4, <4>1
      <4>3. user'[v].conn = x /\ user'[v].pc \in Busy
        BY <1>1, <4>1, <4>2
      <4>4. QED
        BY <4>3 DEF BeingClosed
    <3>3. CASE \/ checker.pc = "closing" /\ checker.conn = x
               \/ cleaner.pc = "closing" /\ cleaner.conn = x
      BY <2>1, <3>3 DEF BeingClosed
    <3>4. QED
      BY <3>1, <3>2, <3>3 DEF BeingClosed
  <2>4. QED
    BY <1>4, <2>2, <2>3
<1>5. ASSUME closer'.pc # "done", NEW x \in 1..Len(conns'),
             x \notin ShutOf(conns') \cup ToSet(connections') \cup ToSet(queue')
      PROVE  Held(x)'
  <2>1. CASE x = c
    BY <1>2, <2>1 DEF Held
  <2>2. CASE x \in 1..Len(conns) /\ x # user[u].conn
             /\ x \notin ToSet(connections) \cup ToSet(queue)
    <3>1. x \notin ShutOf(conns)
      BY <1>5
    <3>2. PICK v \in User : user[v].conn = x
      BY <1>5, <2>2, <3>1 DEF Books, Held
    <3>3. v # u /\ user'[v].conn = x
      BY <1>1, <2>2, <3>2
    <3>4. QED
      BY <3>3 DEF Held
  <2>3. QED
    BY <1>5, <2>1, <2>2
<1>6. /\ checker'.pc = "closing" => checker'.conn \in ShutOf(conns')
      /\ cleaner'.pc = "closing" => cleaner'.conn \in ShutOf(conns')
      /\ closer'.pc = "closing" => closer'.conn \in ShutOf(conns')
  BY DEF Books
<1>7. QED
  BY <1>3, <1>4, <1>5, <1>6 DEF Books

\* Tasks that close connections: what one of them has closed is in the list no
\* more, and what it closes next is shut.
LEMMA TaskStep ==
    ASSUME Owners, Books, UNCHANGED user,
           \A x \in ShutOf(conns) : x \in ShutOf(conns'),
           checker'.pc = "closing" => checker'.conn \in ShutOf(conns'),
           cleaner'.pc = "closing" => cleaner'.conn \in ShutOf(conns'),
           closer'.pc = "closing" => closer'.conn \in ShutOf(conns'),
           ~closed' =>
              /\ ~closed
              /\ checker.pc = "closing" =>
                    checker.conn \notin ToSet(connections') \/ UNCHANGED checker
              /\ cleaner.pc = "closing" =>
                    cleaner.conn \notin ToSet(connections') \/ UNCHANGED cleaner
              /\ \A x \in ToSet(connections') : x \in ShutOf(conns') =>
                    \/ x \in ToSet(connections) /\ x \in ShutOf(conns)
                    \/ checker'.pc = "closing" /\ checker'.conn = x
                    \/ cleaner'.pc = "closing" /\ cleaner'.conn = x,
           closer'.pc # "done" =>
              /\ closer.pc # "done"
              /\ \A x \in 1..Len(conns') :
                    \/ /\ x \in 1..Len(conns)
                       /\ x \notin ToSet(connections) \cup ToSet(queue)
                    \/ x \in ShutOf(conns') \cup ToSet(connections') \cup ToSet(queue')
    PROVE  Books'
<1>1. ASSUME ~closed', NEW x \in ToSet(connections'), x \in ShutOf(conns')
      PROVE  BeingClosed(x)'
  <2>1. CASE \/ checker'.pc = "closing" /\ checker'.conn = x
             \/ cleaner'.pc = "closing" /\ cleaner'.conn = x
    BY <2>1 DEF BeingClosed
  <2>2. CASE x \in ToSet(connections) /\ x \in ShutOf(conns)
    <3>1. BeingClosed(x)
      BY <1>1, <2>2 DEF Books
    <3>2. QED
      BY <1>1, <3>1 DEF BeingClosed
  <2>3. QED
    BY <1>1, <2>1, <2>2
<1>2. ASSUME closer'.pc # "done", NEW x \in 1..Len(conns'),
             x \notin ShutOf(conns') \cup ToSet(connections') \cup ToSet(queue')
      PROVE  Held(x)'
  <2>1. x \in 1..Len(conns) /\ x \notin ToSet(connections) \cup ToSet(queue)
    BY <1>2
  <2>2. x \notin ShutOf(conns)
    BY <1>2
  <2>3. Held(x)
    BY <1>2, <2>1, <2>2 DEF Books
  <2>4. QED
    BY <2>3 DEF Held
<1>3. /\ \A u \in User : user'[u].pc \in {"out", "waiting"} => user'[u].conn = 0
      /\ \A u \in User : user'[u].pc \in Busy => user'[u].conn \in ShutOf(conns')
  BY DEF Books
<1>4. QED
  BY <1>1, <1>2, <1>3 DEF Books

\* What the lists name is there.
LEMMA Known ==
    ASSUME Owners, Lists
    PROVE  /\ Len(conns) \in Nat
           /\ \A x \in ToSet(connections) : x \in 1..Len(conns)
           /\ \A x \in ToSet(queue) : x \in 1..Len(conns)
           /\ \A x \in ShutOf(conns) : x \in 1..Len(conns)
<1>1. Len(conns) \in Nat
  BY LenProperties DEF Owners
<1>2. \A x \in ToSet(connections) : x \in 1..Len(conns)
  BY LenProperties, ElementOfSeq DEF Lists, ToSet
<1>3. \A x \in ToSet(queue) : x \in 1..Len(conns)
  BY LenProperties, ElementOfSeq DEF Owners, ToSet
<1>4. QED
  BY <1>1, <1>2, <1>3 DEF ShutOf

\* More connections make room for the tasks' fields.
LEMMA TaskOfGrows ==
    ASSUME NEW k \in Nat, NEW m \in Nat, k <= m, NEW task \in TaskOf(k)
    PROVE  task \in TaskOf(m)
<1>1. 1..k \subseteq 1..m /\ 0..k \subseteq 0..m
  OBVIOUS
<1>2. Seq(1..k) \subseteq Seq(1..m)
  BY <1>1, SeqMonotonic
<1>3. QED
  BY <1>1, <1>2 DEF TaskOf

LEMMA ListsKept ==
    ASSUME Lists, Len(conns) \in Nat, Len(conns') \in Nat,
           Len(conns) <= Len(conns'),
           Len(conns') = Len(conns) \/ Len(conns') <= MaxCreated,
           connections' \in Seq(1..Len(conns')), Injective(connections'),
           \/ UNCHANGED checker
           \/ /\ checker' \in TaskOf(Len(conns'))
              /\ checker'.pc \in {"pinging", "failing"} =>
                    checker'.conn # 0 /\ checker'.next # 0,
           UNCHANGED cleaner \/ cleaner' \in TaskOf(Len(conns')),
           \/ UNCHANGED closer
           \/ /\ closer' \in TaskOf(Len(conns'))
              /\ closer'.pc = "closing" => closer'.next # 0
    PROVE  Lists'
<1>1. /\ checker' \in TaskOf(Len(conns'))
      /\ cleaner' \in TaskOf(Len(conns'))
      /\ closer' \in TaskOf(Len(conns'))
  BY TaskOfGrows DEF Lists
<1>2. QED
  BY <1>1 DEF Lists

\* A task that has nothing to do.
LEMMA IdleTasks ==
    ASSUME NEW k \in Nat
    PROVE  /\ Asleep \in TaskOf(k) /\ Asleep.pc = "asleep"
           /\ Done \in TaskOf(k) /\ Done.pc = "done"
           /\ Absent \in TaskOf(k) /\ Absent.pc = "absent"
<1>1. <<>> \in Seq(1..k)
  BY EmptySeq
<1>2. /\ Absent = [pc |-> "absent", conn |-> 0, next |-> 0, todo |-> <<>>]
      /\ Asleep = [pc |-> "asleep", conn |-> 0, next |-> 0, todo |-> <<>>]
      /\ Done = [pc |-> "done", conn |-> 0, next |-> 0, todo |-> <<>>]
  BY DEF Asleep, Done, Absent
<1>3. \A pc \in TaskPc :
         [pc |-> pc, conn |-> 0, next |-> 0, todo |-> <<>>] \in TaskOf(k)
  BY <1>1 DEF TaskOf
<1>4. QED
  BY <1>2, <1>3 DEF TaskPc

(****************************************************************************)
(* Every step of a user keeps it.                                           *)
(****************************************************************************)

LEMMA RequestKeeps ==
    ASSUME Owners, Bounded, Lists, Books, NEW u \in User, Request(u)
    PROVE  Lists' /\ Books'
<1>0. /\ Goto(u, "waiting", 0) /\ "waiting" \in Pc \ Busy
      /\ UNCHANGED <<closed, closer>>
      /\ user[u].pc = "out" /\ user[u].conn = 0
  BY DEF Request, At, Pc, Busy, Books
<1>1. CASE initialized
  <2>1. UNCHANGED <<conns, connections, queue, checker, cleaner>>
    BY <1>1 DEF Request
  <2>2. Lists'
    BY <1>0, <2>1 DEF Lists
  <2>3. Books'
    BY <1>0, <2>1, Known, UserStep
  <2>4. QED
    BY <2>2, <2>3
<1>2. CASE ~initialized
  <2>1. PICK k \in Nat, n \in Nat : k = Len(conns) /\ n = PoolSize
    BY Known, PoolAssumption
  <2>2. /\ conns' = Created(conns, n, "idle")
        /\ connections' = connections \o New(n)
        /\ queue' = queue \o New(n)
        /\ checker' = Asleep /\ cleaner' = Asleep
        /\ k + n <= MaxCreated
    BY <1>2, <2>1 DEF Request, CanCreate
  <2>3. connections = <<>>
    BY <1>2 DEF Bounded
  <2>4. Len(conns') = k + n /\ ShutOf(conns') = ShutOf(conns)
    BY <2>1, <2>2, CreatedAdds, CreatedShut DEF Owners
  <2>5. /\ connections' \in Seq(1..(k + n)) /\ Injective(connections')
        /\ ToSet(connections') = ToSet(connections) \cup (k + 1)..(k + n)
    BY <2>1, <2>2, NewSet DEF Lists
  <2>6. ToSet(queue') = ToSet(queue) \cup (k + 1)..(k + n)
    BY <2>1, <2>2, NewSet DEF Owners
  <2>7. Lists'
    <3>1. k <= k + n /\ k + n \in Nat
      OBVIOUS
    <3>2. Asleep \in TaskOf(k + n) /\ Asleep.pc = "asleep"
      BY <3>1, IdleTasks
    <3>3. QED
      BY <1>0, <2>1, <2>2, <2>4, <2>5, <3>1, <3>2, ListsKept
  <2>8. Books'
    <3>1. ToSet(connections) = {}
      BY <2>3 DEF ToSet
    <3>2. \A x \in 1..k : x \notin (k + 1)..(k + n)
      BY <2>1
    <3>3. \A x \in 1..(k + n) : x \in 1..k \/ x \in (k + 1)..(k + n)
      BY <2>1
    <3>4. \A x \in ToSet(connections') : x \notin ShutOf(conns')
      BY <2>1, <2>4, <2>5, <3>1, <3>2, Known
    <3>5. checker'.pc = "asleep" /\ cleaner'.pc = "asleep"
      BY <2>1, <2>2, IdleTasks
    <3>6. \A x \in 1..Len(conns') :
             \/ x \in 1..Len(conns) /\ x # user[u].conn
                /\ x \notin ToSet(connections) \cup ToSet(queue)
             \/ x \in ShutOf(conns') \cup ToSet(connections') \cup ToSet(queue')
      BY <1>0, <2>1, <2>4, <2>5, <2>6, <3>3
    <3>7. QED
      BY <1>0, <2>4, <3>4, <3>5, <3>6, UserStep DEF Busy
  <2>9. QED
    BY <2>7, <2>8
<1>3. QED
  BY <1>1, <1>2

LEMMA TakeKeeps ==
    ASSUME Owners, Lists, Books, NEW u \in User, Take(u)
    PROVE  Lists' /\ Books'
<1>0. PICK c : c = Head(queue)
  OBVIOUS
<1>1. /\ user[u].pc = "waiting" /\ user[u].conn = 0
      /\ queue # <<>> /\ queue' = Tail(queue)
      /\ UNCHANGED <<connections, closed, checker, cleaner, closer>>
      /\ \/ conns' = [conns EXCEPT ![c].state = "active"] /\ Goto(u, "using", c)
         \/ conns' = Shut(conns, c) /\ Goto(u, "replacing", c)
  BY <1>0 DEF Take, QueueTaken, At, Books
<1>2. /\ c \in 1..Len(conns)
      /\ \A x \in ToSet(queue) : x \in ToSet(queue') \/ x = c
  BY <1>0, <1>1, TailSet DEF Owners
<1>3. CASE conns' = [conns EXCEPT ![c].state = "active"] /\ Goto(u, "using", c)
  <2>1. Len(conns') = Len(conns) /\ ShutOf(conns') = ShutOf(conns)
    <3> DEFINE cs == [conns EXCEPT ![c].state = "active"]
    <3>1. Len(cs) = Len(conns)
      BY StateKeeps DEF Owners
    <3>2. ShutOf(cs) = ShutOf(conns)
      <4>1. conns \in Seq(PooledConnection)
        BY DEF Owners
      <4>2. \A s : ShutOf([conns EXCEPT ![c].state = s]) = ShutOf(conns)
        BY <4>1, ShutChanges
      <4>3. QED
        BY <4>2, Zenon
    <3> HIDE DEF cs
    <3>3. QED
      BY <1>3, <3>1, <3>2 DEF cs
  <2>2. Lists'
    BY <1>1, <2>1 DEF Lists
  <2>3. "using" \in Pc \ Busy /\ "using" \notin {"out", "waiting"}
    BY DEF Pc, Busy
  <2>4. Goto(u, "using", c) /\ "waiting" \notin Busy
    BY <1>3 DEF Busy
  <2>5. \A x \in 1..Len(conns) : x # user[u].conn
    BY <1>1
  <2>6. \A x \in 1..Len(conns') :
           \/ x \in 1..Len(conns) /\ x # user[u].conn
              /\ x \notin ToSet(connections) \cup ToSet(queue)
           \/ x \in ShutOf(conns') \cup ToSet(connections') \cup ToSet(queue')
           \/ x = c
    BY <1>1, <1>2, <2>1, <2>5
  <2>7. Books'
    BY <1>1, <2>1, <2>3, <2>4, <2>6, UserStep
  <2>8. QED
    BY <2>2, <2>7
<1>4. CASE conns' = Shut(conns, c) /\ Goto(u, "replacing", c)
  <2>1. Len(conns') = Len(conns) /\ ShutOf(conns') = ShutOf(conns) \cup {c}
    BY <1>2, <1>4, ClosingKeeps, ShutChanges DEF Owners
  <2>2. Lists'
    BY <1>1, <2>1 DEF Lists
  <2>3. "replacing" \in Pc /\ "replacing" \in Busy
        /\ "replacing" \notin {"out", "waiting"} /\ "waiting" \notin Busy
    BY DEF Pc, Busy
  <2>4. QED
    BY <1>1, <1>2, <1>4, <2>1, <2>2, <2>3, Known, UserStep
<1>5. QED
  BY <1>1, <1>3, <1>4

LEMMA ReplaceKeeps ==
    ASSUME Owners, Lists, Books, NEW u \in User, Replace(u)
    PROVE  Lists' /\ Books'
<1>0. PICK c : c = user[u].conn
  OBVIOUS
<1>k. PICK k \in Nat : k = Len(conns)
  BY Known
<1>1. /\ user[u].pc = "replacing" /\ c \in ShutOf(conns)
      /\ conns' = Created(Dropped(conns, c), 1, "active")
      /\ connections' = Without(connections, c)
      /\ Goto(u, "using", k + 1)
      /\ k + 1 <= MaxCreated
      /\ UNCHANGED <<queue, closed, checker, cleaner, closer>>
  BY <1>0, <1>k DEF CanCreate, Replace, Replacement, At, Books, Busy
<1>2. Len(conns') = k + 1 /\ ShutOf(conns') = ShutOf(conns)
  <2>1. /\ Dropped(conns, c) \in Seq(PooledConnection)
        /\ Len(Dropped(conns, c)) = k /\ ShutOf(Dropped(conns, c)) = ShutOf(conns)
    BY <1>0, <1>k, ClosingKeeps, ShutChanges DEF Owners
  <2>2. QED
    BY <1>1, <2>1, CreatedAdds, CreatedShut
<1>3. /\ connections' \in Seq(1..k) /\ Injective(connections')
      /\ ToSet(connections') = ToSet(connections) \ {c}
  BY <1>0, <1>k, <1>1, WithoutSet DEF Lists
<1>4. Lists'
  <2>1. connections' \in Seq(1..(k + 1))
    <3>1. 1..k \subseteq 1..(k + 1)
      OBVIOUS
    <3>2. QED
      BY <1>3, <3>1, SeqMonotonic
  <2>2. k <= k + 1 /\ k + 1 \in Nat
    OBVIOUS
  <2>3. QED
    BY <1>0, <1>k, <1>1, <1>2, <1>3, <2>1, <2>2, ListsKept
<1>5. Books'
  <2>1. "using" \in Pc \ Busy /\ "using" \notin {"out", "waiting"}
    BY DEF Pc, Busy
  <2>2. \A x \in 1..(k + 1) : x \in 1..k \/ x = k + 1
    OBVIOUS
  <2>3. QED
    BY <1>0, <1>k, <1>1, <1>2, <1>3, <2>1, <2>2, UserStep
<1>6. QED
  BY <1>4, <1>5

LEMMA TimeoutKeeps ==
    ASSUME Owners, Lists, Books, NEW u \in User, Timeout(u)
    PROVE  Lists' /\ Books'
<1>0. PICK k \in Nat : k = Len(conns)
  BY Known
<1>1. /\ user[u].pc = "waiting" /\ user[u].conn = 0 /\ "waiting" \notin Busy
      /\ UNCHANGED <<queue, closed, checker, cleaner, closer>>
  BY DEF Timeout, At, Books, Busy
<1>2. CASE /\ conns' = Created(conns, 1, "active")
           /\ connections' = Append(connections, k + 1)
           /\ Goto(u, "using", k + 1)
           /\ k + 1 <= MaxCreated
  <2>1. Len(conns') = k + 1 /\ ShutOf(conns') = ShutOf(conns)
    BY <1>0, <1>2, CreatedAdds, CreatedShut DEF Owners
  <2>2. connections \in Seq(1..(k + 1))
    <3>1. 1..k \subseteq 1..(k + 1)
      OBVIOUS
    <3>2. QED
      BY <1>0, <3>1, SeqMonotonic DEF Lists
  <2>3. k + 1 \notin 1..k /\ k + 1 \in 1..(k + 1) /\ k <= k + 1 /\ k + 1 \in Nat
    OBVIOUS
  <2>4. k + 1 \notin ToSet(connections) /\ k + 1 \notin ShutOf(conns)
    BY <1>0, <2>3, Known
  <2>5. /\ connections' \in Seq(1..(k + 1)) /\ Injective(connections')
        /\ ToSet(connections') = ToSet(connections) \cup {k + 1}
    BY <1>2, <2>2, <2>3, <2>4, AppendSet DEF Lists
  <2>6. Lists'
    BY <1>0, <1>1, <1>2, <2>1, <2>3, <2>5, ListsKept
  <2>7. "using" \in Pc \ Busy /\ "using" \notin {"out", "waiting"}
    BY DEF Pc, Busy
  <2>8. \A x \in 1..(k + 1) : x \in 1..k \/ x = k + 1
    OBVIOUS
  <2>9. \A x \in 1..k : x # user[u].conn
    BY <1>1
  <2>10. Books'
    BY <1>0, <1>1, <1>2, <2>1, <2>4, <2>5, <2>7, <2>8, <2>9, UserStep
  <2>11. QED
    BY <2>6, <2>10
<1>3. CASE Goto(u, "out", 0) /\ UNCHANGED <<conns, connections>>
  <2>1. Lists'
    BY <1>1, <1>3 DEF Lists
  <2>2. "out" \in Pc \ Busy
    BY DEF Pc, Busy
  <2>3. \A x \in 1..Len(conns) : x # user[u].conn
    BY <1>1
  <2>4. Books'
    BY <1>1, <1>3, <2>2, <2>3, UserStep
  <2>5. QED
    BY <2>1, <2>4
<1>4. QED
  BY <1>0, <1>2, <1>3 DEF Timeout, CanCreate

LEMMA ReleaseKeeps ==
    ASSUME Owners, Lists, Books, NEW u \in User, Release(u)
    PROVE  Lists' /\ Books'
<1>0. PICK c : c = user[u].conn
  OBVIOUS
<1>1. user[u].pc = "using" /\ "using" \notin Busy /\ c \in 1..Len(conns)
  BY <1>0, Known DEF Release, At, Owners, Busy
<1>2. PICK erring \in BOOLEAN :
         LET used == [conns EXCEPT ![c].erring = erring]
         IN  \/ /\ conns' = Shut(used, c)
                /\ Goto(u, "closing", c) \/ Goto(u, "retiring", c)
                /\ queue' = queue
             \/ /\ conns' = [used EXCEPT ![c].state = "idle"]
                /\ Goto(u, "out", 0)
                /\ queue' = Append(queue, c)
  BY <1>0, Zenon DEF Release, Returned
<1>3. UNCHANGED <<connections, closed, checker, cleaner, closer>>
  BY DEF Release
<1> DEFINE used == [conns EXCEPT ![c].erring = erring]
<1>4. used \in Seq(PooledConnection) /\ Len(used) = Len(conns)
  BY ErringKeeps DEF Owners
<1>5. ShutOf(used) = ShutOf(conns)
  <2>1. \A e : ShutOf([conns EXCEPT ![c].erring = e]) = ShutOf(conns)
    BY ShutChanges DEF Owners
  <2>2. QED
    BY <2>1, Zenon
<1> HIDE DEF used
<1>6. CASE /\ conns' = Shut(used, c)
           /\ Goto(u, "closing", c) \/ Goto(u, "retiring", c)
           /\ queue' = queue
  <2>1. Len(conns') = Len(conns) /\ ShutOf(conns') = ShutOf(conns) \cup {c}
    <3>1. c \in 1..Len(used)
      BY <1>1, <1>4
    <3>2. ShutOf(Shut(used, c)) = ShutOf(used) \cup {c}
      BY <1>4, <3>1, ShutChanges
    <3>3. Len(Shut(used, c)) = Len(used)
      BY <1>4, ClosingKeeps
    <3>4. QED
      BY <1>4, <1>5, <1>6, <3>2, <3>3
  <2>2. Lists'
    BY <1>3, <2>1 DEF Lists
  <2>3. PICK pc \in Pc : pc \in {"closing", "retiring"} /\ Goto(u, pc, c)
    BY <1>6 DEF Pc
  <2>4. pc \in Busy /\ pc \notin {"out", "waiting"}
    BY <2>3 DEF Busy
  <2>5. Books'
    BY <1>0, <1>1, <1>3, <1>6, <2>1, <2>3, <2>4, UserStep
  <2>6. QED
    BY <2>2, <2>5
<1>7. CASE /\ conns' = [used EXCEPT ![c].state = "idle"]
           /\ Goto(u, "out", 0)
           /\ queue' = Append(queue, c)
  <2>1. Len(conns') = Len(conns)
    BY <1>4, <1>7, StateKeeps
  <2>2. ShutOf(conns') = ShutOf(conns)
    <3>1. \A s : ShutOf([used EXCEPT ![c].state = s]) = ShutOf(used)
      BY <1>4, ShutChanges
    <3>2. QED
      BY <1>5, <1>7, <3>1, Zenon
  <2>3. Lists'
    BY <1>3, <2>1 DEF Lists
  <2>4. ToSet(queue') = ToSet(queue) \cup {c}
    BY <1>1, <1>7, AppendSet DEF Owners
  <2>5. "out" \in Pc \ Busy
    BY DEF Pc, Busy
  <2>6. Books'
    BY <1>0, <1>1, <1>3, <1>7, <2>1, <2>2, <2>4, <2>5, UserStep
  <2>7. QED
    BY <2>3, <2>6
<1>8. QED
  BY <1>2, <1>6, <1>7 DEF used

LEMMA ReleaseClosedKeeps ==
    ASSUME Owners, Lists, Books, NEW u \in User, ReleaseClosed(u)
    PROVE  Lists' /\ Books'
<1>0. PICK c : c = user[u].conn
  OBVIOUS
<1>1. /\ user[u].pc \in Busy /\ c \in ShutOf(conns)
      /\ conns' = Dropped(conns, c)
      /\ connections' = Without(connections, c)
      /\ Goto(u, "out", 0)
      /\ UNCHANGED <<queue, closed, checker, cleaner, closer>>
  BY <1>0 DEF ReleaseClosed, At, Books, Busy
<1>2. Len(conns') = Len(conns) /\ ShutOf(conns') = ShutOf(conns)
  BY <1>1, ClosingKeeps, ShutChanges DEF Owners
<1>3. /\ connections' \in Seq(1..Len(conns)) /\ Injective(connections')
      /\ ToSet(connections') = ToSet(connections) \ {c}
  BY <1>1, WithoutSet DEF Lists
<1>4. Lists'
  BY <1>1, <1>2, <1>3 DEF Lists
<1>5. "out" \in Pc \ Busy
  BY DEF Pc, Busy
<1>6. Books'
  BY <1>0, <1>1, <1>2, <1>3, <1>5, UserStep
<1>7. QED
  BY <1>4, <1>6

LEMMA RetireKeeps ==
    ASSUME Owners, Lists, Books, NEW u \in User, Retire(u)
    PROVE  Lists' /\ Books'
<1>0. PICK c : c = user[u].conn
  OBVIOUS
<1>1. PICK k \in Nat : k = Len(conns)
  BY Known
<1>2. PICK left : left = Without(connections, c)
  OBVIOUS
<1>3. PICK n \in Nat : n = Replacements(left)
  BY DEF Replacements
<1>4. /\ user[u].pc \in Busy /\ c \in ShutOf(conns)
      /\ conns' = Created(Dropped(conns, c), n, "idle")
      /\ connections' = left \o New(n)
      /\ queue' = queue \o New(n)
      /\ Goto(u, "out", 0)
      /\ k + n <= MaxCreated
      /\ UNCHANGED <<closed, checker, cleaner, closer>>
  BY <1>0, <1>1, <1>2, <1>3 DEF CanCreate, Retire, At, Books, Busy
<1>5. Len(conns') = k + n /\ ShutOf(conns') = ShutOf(conns)
  <2>1. /\ Dropped(conns, c) \in Seq(PooledConnection)
        /\ Len(Dropped(conns, c)) = k /\ ShutOf(Dropped(conns, c)) = ShutOf(conns)
    BY <1>1, ClosingKeeps, ShutChanges DEF Owners
  <2>2. QED
    BY <1>4, <2>1, CreatedAdds, CreatedShut
<1>6. /\ left \in Seq(1..k) /\ Injective(left)
      /\ ToSet(left) = ToSet(connections) \ {c}
  BY <1>1, <1>2, WithoutSet DEF Lists
<1>7. /\ connections' \in Seq(1..(k + n)) /\ Injective(connections')
      /\ ToSet(connections') = ToSet(left) \cup (k + 1)..(k + n)
  BY <1>1, <1>4, <1>6, NewSet
<1>8. ToSet(queue') = ToSet(queue) \cup (k + 1)..(k + n)
  BY <1>1, <1>4, NewSet DEF Owners
<1>9. Lists'
  <2>1. k <= k + n /\ k + n \in Nat
    OBVIOUS
  <2>2. QED
    BY <1>1, <1>4, <1>5, <1>7, <2>1, ListsKept
<1>10. Books'
  <2>1. "out" \in Pc \ Busy
    BY DEF Pc, Busy
  <2>2. \A x \in 1..(k + n) : x \in 1..k \/ x \in (k + 1)..(k + n)
    OBVIOUS
  <2>3. \A x \in (k + 1)..(k + n) : x \notin 1..k
    OBVIOUS
  <2>4. \A x \in ShutOf(conns) : x \in 1..k
    BY <1>1, Known
  <2>5. c \notin ToSet(connections')
    BY <1>4, <1>6, <1>7, <2>3, <2>4
  <2>6. \A x \in ToSet(connections') :
           x \in ToSet(connections) \/ x \notin ShutOf(conns')
    BY <1>5, <1>6, <1>7, <2>3, <2>4
  <2>7. \A x \in 1..Len(conns') :
           \/ x \in 1..Len(conns) /\ x # user[u].conn
              /\ x \notin ToSet(connections) \cup ToSet(queue)
           \/ x \in ShutOf(conns') \cup ToSet(connections') \cup ToSet(queue')
    BY <1>0, <1>1, <1>4, <1>5, <1>6, <1>7, <1>8, <2>2
  <2>8. QED
    BY <1>0, <1>4, <1>5, <2>1, <2>5, <2>6, <2>7, UserStep
<1>11. QED
  BY <1>9, <1>10

(****************************************************************************)
(* Every step of the tasks keeps it.                                        *)
(****************************************************************************)

\* A task that is about to close connections.
LEMMA TodoFacts ==
    ASSUME NEW k \in Nat, NEW todo \in Seq(1..k), todo # <<>>
    PROVE  Head(todo) \in 1..k /\ Tail(todo) \in Seq(1..k)
BY HeadTailProperties

\* A connection is closed by a task: it is shut, and the others are as they were.
LEMMA ShutFacts ==
    ASSUME NEW cs \in Seq(PooledConnection), NEW c \in 1..Len(cs)
    PROVE  /\ Len(Shut(cs, c)) = Len(cs)
           /\ ShutOf(Shut(cs, c)) = ShutOf(cs) \cup {c}
BY ClosingKeeps, ShutChanges

LEMMA CheckFromKeeps ==
    ASSUME Owners, Lists, Books,
           NEW cs \in Seq(PooledConnection), Len(cs) = Len(conns),
           ShutOf(cs) = ShutOf(conns), checker.pc # "closing",
           NEW next \in Nat \ {0}, NEW bad \in Seq(1..Len(conns)),
           CheckFrom(cs, next, bad),
           UNCHANGED <<connections, queue, closed, user, cleaner, closer>>
    PROVE  Lists' /\ Books'
<1>1. PICK k \in Nat : k = Len(conns)
  BY Known
<1>2. connections' \in Seq(1..k) /\ Injective(connections')
  BY <1>1 DEF Lists
<1>3. ASSUME NEW i \in next..Len(connections), conns' = cs,
             LET c == connections[i]
             IN  checker' = [pc |-> IF cs[c].shut THEN "failing" ELSE "pinging",
                             conn |-> c, next |-> i + 1, todo |-> bad]
      PROVE  Lists' /\ Books'
  <2>1. connections[i] \in 1..k /\ i \in Nat
    <3>1. i \in 1..Len(connections)
      BY LenProperties DEF Lists
    <3>2. QED
      BY <1>1, <3>1, ElementOfSeq DEF Lists
  <2>2. PICK pc \in {"failing", "pinging"} :
           checker' = [pc |-> pc, conn |-> connections[i], next |-> i + 1, todo |-> bad]
    BY <1>3
  <2>3. /\ checker' \in TaskOf(k) /\ checker'.pc # "closing"
        /\ checker'.conn # 0 /\ checker'.next # 0
    BY <1>1, <2>1, <2>2 DEF TaskOf, TaskPc
  <2>4. Lists'
    BY <1>1, <1>2, <1>3, <2>3, ListsKept
  <2>5. Books'
    BY <1>3, <2>3, TaskStep DEF Books
  <2>6. QED
    BY <2>4, <2>5
<1>4. CASE /\ bad # <<>>
           /\ conns' = Shut(cs, Head(bad))
           /\ checker' = [pc |-> "closing", conn |-> Head(bad), next |-> 0,
                          todo |-> Tail(bad)]
  <2>1. Head(bad) \in 1..k /\ Tail(bad) \in Seq(1..k)
    BY <1>1, <1>4, TodoFacts
  <2>2. Len(conns') = k /\ ShutOf(conns') = ShutOf(conns) \cup {Head(bad)}
    BY <1>1, <1>4, <2>1, ShutFacts
  <2>3. checker' \in TaskOf(k) /\ checker'.pc = "closing" /\ checker'.conn = Head(bad)
    BY <1>4, <2>1 DEF TaskOf, TaskPc
  <2>4. Lists'
    BY <1>1, <1>2, <2>2, <2>3, ListsKept
  <2>5. Books'
    BY <1>1, <2>2, <2>3, TaskStep DEF Books
  <2>6. QED
    BY <2>4, <2>5
<1>5. CASE conns' = cs /\ checker' = Asleep
  <2>1. checker' \in TaskOf(k) /\ checker'.pc = "asleep"
    BY <1>5, IdleTasks
  <2>2. Lists'
    BY <1>1, <1>2, <1>5, <2>1, ListsKept
  <2>3. Books'
    BY <1>5, <2>1, TaskStep DEF Books
  <2>4. QED
    BY <2>2, <2>3
<1>6. QED
  BY <1>3, <1>4, <1>5 DEF CheckFrom

LEMMA BackgroundKeeps ==
    ASSUME Owners, Lists, Books, Background
    PROVE  Lists' /\ Books'
<1>1. PICK c, k \in Nat : c = checker.conn /\ k = Len(conns)
  BY Known DEF Lists, TaskOf
<1>2. /\ UNCHANGED <<queue, closed, user, cleaner, closer>>
      /\ conns \in Seq(PooledConnection)
      /\ checker.pc # "closing" => UNCHANGED connections
      /\ checker.todo \in Seq(1..k)
  BY <1>1 DEF Background, CheckHealth, PingReturns, PingFails, CheckerCloses,
              Owners, Lists, TaskOf
<1>3. CASE CheckHealth
  <2>1. /\ CheckFrom(conns, 1, <<>>) /\ checker.pc # "closing"
        /\ 1 \in Nat \ {0} /\ <<>> \in Seq(1..Len(conns))
    BY <1>3, EmptySeq DEF CheckHealth
  <2>2. QED
    BY <1>2, <2>1, CheckFromKeeps
<1>4. CASE PingReturns
  <2>1. PICK erring \in {conns[c].erring, FALSE} :
           CheckFrom([conns EXCEPT ![c].erring = erring], checker.next, checker.todo)
    BY <1>1, <1>4 DEF PingReturns
  <2>2. checker.pc = "pinging" /\ checker.next \in Nat \ {0}
    BY <1>4 DEF PingReturns, Lists, TaskOf
  <2> DEFINE cs == [conns EXCEPT ![c].erring = erring]
  <2>3. cs \in Seq(PooledConnection) /\ Len(cs) = Len(conns)
    <3>1. c \in 1..Len(conns) => erring \in BOOLEAN
      <4>1. c \in 1..Len(conns) => conns[c] \in PooledConnection
        BY <1>2, ElementOfSeq
      <4>2. QED
        BY <4>1 DEF PooledConnection
    <3>2. QED
      BY <1>2, <3>1, ErringKeeps
  <2>4. ShutOf(cs) = ShutOf(conns)
    <3>1. \A e : ShutOf([conns EXCEPT ![c].erring = e]) = ShutOf(conns)
      BY <1>2, ShutChanges
    <3>2. QED
      BY <3>1, Zenon
  <2>5. CheckFrom(cs, checker.next, checker.todo)
    BY <2>1
  <2> HIDE DEF cs
  <2>6. QED
    BY <1>1, <1>2, <2>2, <2>3, <2>4, <2>5, CheckFromKeeps
<1>5. CASE PingFails
  <2> DEFINE cs == [conns EXCEPT ![c].state = "unhealthy"]
             bad == Append(checker.todo, c)
  <2>1. /\ CheckFrom(cs, checker.next, bad) /\ checker.pc # "closing"
        /\ checker.next \in Nat \ {0} /\ c \in 1..k
    BY <1>1, <1>5 DEF PingFails, Lists, TaskOf
  <2>2. cs \in Seq(PooledConnection) /\ Len(cs) = Len(conns)
    BY <1>2, StateKeeps
  <2>3. ShutOf(cs) = ShutOf(conns)
    <3>1. \A s : ShutOf([conns EXCEPT ![c].state = s]) = ShutOf(conns)
      BY <1>2, ShutChanges
    <3>2. QED
      BY <3>1, Zenon
  <2>4. bad \in Seq(1..k)
    BY <1>2, <2>1, AppendProperties
  <2> HIDE DEF cs, bad
  <2>5. QED
    BY <1>1, <1>2, <2>1, <2>2, <2>3, <2>4, CheckFromKeeps
<1>6. CASE CheckerCloses
  <2> DEFINE cs == Dropped(conns, c)
             todo == checker.todo
  <2>1. /\ checker.pc = "closing"
        /\ connections' = Without(connections, c)
        /\ \/ /\ todo # <<>>
              /\ conns' = Shut(cs, Head(todo))
              /\ checker' = [checker EXCEPT !.conn = Head(todo), !.todo = Tail(todo)]
           \/ conns' = cs /\ checker' = Asleep
    BY <1>1, <1>6 DEF CheckerCloses
  <2>2. /\ cs \in Seq(PooledConnection) /\ Len(cs) = k
        /\ ShutOf(cs) = ShutOf(conns)
    BY <1>1, <1>2, ClosingKeeps, ShutChanges
  <2> HIDE DEF cs
  <2>3. /\ connections' \in Seq(1..k) /\ Injective(connections')
        /\ ToSet(connections') = ToSet(connections) \ {c}
    BY <1>1, <2>1, WithoutSet DEF Lists
  <2>4. c \in ShutOf(conns)
    BY <1>1, <2>1 DEF Books
  <2>5. CASE /\ todo # <<>>
             /\ conns' = Shut(cs, Head(todo))
             /\ checker' = [checker EXCEPT !.conn = Head(todo), !.todo = Tail(todo)]
    <3>1. Head(todo) \in 1..k /\ Tail(todo) \in Seq(1..k)
      BY <1>2, <2>5, TodoFacts
    <3>2. Len(conns') = k /\ ShutOf(conns') = ShutOf(conns) \cup {Head(todo)}
      BY <2>2, <2>5, <3>1, ShutFacts
    <3>3. /\ checker' \in TaskOf(k) /\ checker'.pc = "closing"
          /\ checker'.conn = Head(todo)
      <4>1. checker \in TaskOf(k)
        BY <1>1 DEF Lists
      <4>2. checker' = [pc |-> "closing", conn |-> Head(todo),
                        next |-> checker.next, todo |-> Tail(todo)]
        BY <2>1, <2>5, <4>1 DEF TaskOf
      <4>3. QED
        BY <3>1, <4>1, <4>2 DEF TaskOf, TaskPc
    <3>4. Lists'
      BY <1>1, <1>2, <2>3, <3>2, <3>3, ListsKept
    <3>5. Books'
      BY <1>1, <1>2, <2>3, <2>4, <3>2, <3>3, TaskStep DEF Books
    <3>6. QED
      BY <3>4, <3>5
  <2>6. CASE conns' = cs /\ checker' = Asleep
    <3>1. checker' \in TaskOf(k) /\ checker'.pc = "asleep"
      BY <2>6, IdleTasks
    <3>2. Lists'
      BY <1>1, <1>2, <2>2, <2>3, <2>6, <3>1, ListsKept
    <3>3. Books'
      BY <1>1, <1>2, <2>2, <2>3, <2>4, <2>6, <3>1, TaskStep DEF Books
    <3>4. QED
      BY <3>2, <3>3
  <2>7. QED
    BY <2>1, <2>5, <2>6
<1>7. QED
  BY <1>3, <1>4, <1>5, <1>6 DEF Background

LEMMA CleanOnKeeps ==
    ASSUME Owners, Lists, Books,
           NEW cs \in Seq(PooledConnection), Len(cs) = Len(conns),
           ShutOf(cs) = ShutOf(conns),
           NEW list \in Seq(1..Len(conns)), Injective(list),
           \A x \in ToSet(list) : x \in ToSet(connections),
           \A x \in ToSet(connections) : x \in ToSet(list) \/ x \in ShutOf(conns),
           cleaner.pc = "closing" => cleaner.conn \notin ToSet(list),
           NEW todo \in Seq(1..Len(conns)), CleanOn(cs, list, todo),
           UNCHANGED <<closed, user, checker, closer>>
    PROVE  Lists' /\ Books'
<1>1. PICK k \in Nat : k = Len(conns)
  BY Known
<1>2. CASE /\ todo # <<>>
           /\ conns' = Shut(cs, Head(todo))
           /\ connections' = list
           /\ cleaner' = [Absent EXCEPT !.pc = "closing", !.conn = Head(todo),
                                        !.todo = Tail(todo)]
           /\ UNCHANGED queue
  <2>1. Head(todo) \in 1..k /\ Tail(todo) \in Seq(1..k)
    BY <1>1, <1>2, TodoFacts
  <2>2. Len(conns') = k /\ ShutOf(conns') = ShutOf(conns) \cup {Head(todo)}
    BY <1>1, <1>2, <2>1, ShutFacts
  <2>3. cleaner' \in TaskOf(k) /\ cleaner'.pc = "closing" /\ cleaner'.conn = Head(todo)
    <3>1. cleaner' = [pc |-> "closing", conn |-> Head(todo), next |-> 0,
                      todo |-> Tail(todo)]
      BY <1>2 DEF Absent
    <3>2. QED
      BY <2>1, <3>1 DEF TaskOf, TaskPc
  <2>4. Lists'
    BY <1>1, <1>2, <2>2, <2>3, ListsKept
  <2>5. Books'
    BY <1>1, <1>2, <2>2, <2>3, TaskStep DEF Books
  <2>6. QED
    BY <2>4, <2>5
<1>3. CASE /\ conns' = Created(cs, Missing(list), "idle")
           /\ connections' = list \o New(Missing(list))
           /\ queue' = queue \o New(Missing(list))
           /\ cleaner' = Asleep
           /\ CanCreate(Missing(list))
  <2>1. PICK n \in Nat : n = Missing(list)
    <3>1. Len(list) \in Nat
      BY LenProperties
    <3>2. Missing(list) \in Nat
      BY <3>1, PoolAssumption DEF Missing
    <3>3. QED
      BY <3>2
  <2>2. Len(conns') = k + n /\ ShutOf(conns') = ShutOf(conns)
    BY <1>1, <1>3, <2>1, CreatedAdds, CreatedShut
  <2>3. /\ connections' \in Seq(1..(k + n)) /\ Injective(connections')
        /\ ToSet(connections') = ToSet(list) \cup (k + 1)..(k + n)
    BY <1>1, <1>3, <2>1, NewSet
  <2>4. ToSet(queue') = ToSet(queue) \cup (k + 1)..(k + n)
    <3>1. queue \in Seq(1..k)
      BY <1>1 DEF Owners
    <3>2. ToSet(queue \o New(n)) = ToSet(queue) \cup (k + 1)..(k + n)
      BY <1>1, <3>1, NewSet
    <3>3. QED
      BY <1>3, <2>1, <3>2
  <2>5. k <= k + n /\ k + n \in Nat /\ k + n <= MaxCreated
    BY <1>1, <1>3, <2>1 DEF CanCreate
  <2>6. cleaner' \in TaskOf(k + n) /\ cleaner'.pc = "asleep"
    BY <1>3, <2>5, IdleTasks
  <2>7. Lists'
    BY <1>1, <2>2, <2>3, <2>5, <2>6, ListsKept
  <2>8. Books'
    <3>1. \A x \in 1..(k + n) : x \in 1..k \/ x \in (k + 1)..(k + n)
      OBVIOUS
    <3>2. \A x \in (k + 1)..(k + n) : x \notin 1..k
      OBVIOUS
    <3>3. \A x \in ShutOf(conns) \cup ToSet(connections) : x \in 1..k
      BY <1>1, Known
    <3>4. cleaner.pc = "closing" => cleaner.conn \notin ToSet(connections')
      BY <2>3, <3>2, <3>3 DEF Books
    <3>5. \A x \in ToSet(connections') : x \in ShutOf(conns') =>
             x \in ToSet(connections) /\ x \in ShutOf(conns)
      BY <2>2, <2>3, <3>2, <3>3
    <3>6. \A x \in 1..Len(conns') :
             \/ x \in 1..Len(conns) /\ x \notin ToSet(connections) \cup ToSet(queue)
             \/ x \in ShutOf(conns') \cup ToSet(connections') \cup ToSet(queue')
      BY <1>1, <2>2, <2>3, <2>4, <3>1
    <3>7. QED
      BY <2>2, <2>6, <3>4, <3>5, <3>6, TaskStep DEF Books
  <2>9. QED
    BY <2>7, <2>8
<1>4. QED
  BY <1>2, <1>3 DEF CleanOn

LEMMA MaintenanceKeeps ==
    ASSUME Owners, Lists, Books, Maintenance
    PROVE  Lists' /\ Books'
<1>1. PICK k \in Nat : k = Len(conns)
  BY Known
<1>2. /\ UNCHANGED <<closed, user, checker, closer>>
      /\ conns \in Seq(PooledConnection)
      /\ connections \in Seq(1..k) /\ Injective(connections)
  BY <1>1 DEF Maintenance, Cleanup, CleanerCloses, Owners, Lists
<1>3. CASE Cleanup
  <2>1. PICK n \in 0..Len(connections) \div 2 : \E at \in Positions(n) :
           CleanOn(conns, connections, [i \in 1..n |-> connections[at[i]]])
    BY <1>3 DEF Cleanup
  <2>2. PICK at \in [1..n -> DOMAIN connections] :
           CleanOn(conns, connections, [i \in 1..n |-> connections[at[i]]])
    BY <2>1 DEF Positions
  <2> DEFINE todo == [i \in 1..n |-> connections[at[i]]]
  <2>3. todo \in Seq(1..k)
    <3>1. n \in Nat
      <4>1. Len(connections) \in Nat
        BY <1>2, LenProperties
      <4>2. QED
        BY <2>1, <4>1
    <3>2. \A i \in 1..n : connections[at[i]] \in 1..k
      BY <1>2, <2>2, LenProperties, ElementOfSeq
    <3>3. QED
      BY <3>1, <3>2, IsASeq
  <2>4. CleanOn(conns, connections, todo) /\ cleaner.pc # "closing"
    BY <1>3, <2>2 DEF Cleanup
  <2> HIDE DEF todo
  <2>5. QED
    BY <1>1, <1>2, <2>3, <2>4, CleanOnKeeps
<1>4. CASE CleanerCloses
  <2>1. PICK c : c = cleaner.conn
    OBVIOUS
  <2>2. PICK cs : cs = Dropped(conns, c)
    OBVIOUS
  <2>3. PICK list : list = Without(connections, c)
    OBVIOUS
  <2>4. /\ cleaner.pc = "closing" /\ c \in ShutOf(conns)
        /\ CleanOn(cs, list, cleaner.todo)
        /\ cleaner.todo \in Seq(1..k)
    BY <1>1, <1>4, <2>1, <2>2, <2>3 DEF CleanerCloses, Books, Lists, TaskOf
  <2>5. /\ cs \in Seq(PooledConnection) /\ Len(cs) = Len(conns)
        /\ ShutOf(cs) = ShutOf(conns)
    BY <1>2, <2>2, ClosingKeeps, ShutChanges
  <2>6. /\ list \in Seq(1..k) /\ Injective(list)
        /\ ToSet(list) = ToSet(connections) \ {c}
    BY <1>2, <2>3, WithoutSet
  <2>7. QED
    BY <1>1, <1>2, <2>1, <2>4, <2>5, <2>6, CleanOnKeeps
<1>5. QED
  BY <1>3, <1>4 DEF Maintenance

\* The iteration of close() stops at a connection that exists.
LEMMA CloseFromKeeps ==
    ASSUME Owners, Lists, Books, closed', closer.pc # "done",
           NEW cs \in Seq(PooledConnection), Len(cs) = Len(conns),
           ShutOf(cs) = ShutOf(conns),
           NEW list \in Seq(1..Len(conns)), Injective(list),
           \A x \in ToSet(connections) : x \in ToSet(list) \/ x \in ShutOf(conns),
           NEW i \in Nat \ {0}, CloseFrom(cs, list, i), UNCHANGED user,
           checker' \in {checker, Done}, cleaner' \in {cleaner, Done}
    PROVE  Lists' /\ Books'
<1>1. PICK k \in Nat : k = Len(conns)
  BY Known
<1>2. /\ checker' = checker \/ (checker' \in TaskOf(k) /\ checker'.pc = "done")
      /\ cleaner' = cleaner \/ (cleaner' \in TaskOf(k) /\ cleaner'.pc = "done")
  BY IdleTasks
<1>3. CASE /\ i <= Len(list)
           /\ conns' = Shut(cs, list[i])
           /\ connections' = list
           /\ closer' = [Absent EXCEPT !.pc = "closing", !.conn = list[i],
                                       !.next = i + 1]
           /\ UNCHANGED queue
  <2>1. PICK c : c = list[i]
    OBVIOUS
  <2>2. c \in 1..k
    <3>1. i \in 1..Len(list)
      BY <1>3, LenProperties
    <3>2. QED
      BY <1>1, <2>1, <3>1, ElementOfSeq
  <2>3. Len(conns') = k /\ ShutOf(conns') = ShutOf(conns) \cup {c}
    BY <1>1, <1>3, <2>1, <2>2, ShutFacts
  <2>4. /\ closer' \in TaskOf(k) /\ closer'.pc = "closing"
        /\ closer'.conn = c /\ closer'.next # 0
    <3>1. closer' = [pc |-> "closing", conn |-> c, next |-> i + 1, todo |-> <<>>]
      BY <1>3, <2>1 DEF Absent
    <3>2. <<>> \in Seq(1..k)
      BY EmptySeq
    <3>3. QED
      BY <2>2, <3>1, <3>2 DEF TaskOf, TaskPc
  <2>5. Lists'
    BY <1>1, <1>2, <1>3, <2>3, <2>4, ListsKept
  <2>6. Books'
    BY <1>1, <1>2, <1>3, <2>3, <2>4, TaskStep DEF Books
  <2>7. QED
    BY <2>5, <2>6
<1>4. CASE /\ conns' = cs
           /\ connections' = <<>>
           /\ closer' = Done
  <2>1. connections' \in Seq(1..k) /\ Injective(connections')
    BY <1>4, EmptySeq DEF Injective
  <2>2. closer' \in TaskOf(k) /\ closer'.pc = "done"
    BY <1>4, IdleTasks
  <2>3. Lists'
    BY <1>1, <1>2, <1>4, <2>1, <2>2, ListsKept
  <2>4. Books'
    BY <1>2, <1>4, <2>2, TaskStep DEF Books
  <2>5. QED
    BY <2>3, <2>4
<1>5. QED
  BY <1>3, <1>4 DEF CloseFrom

\* Before close() nobody closes the pool.
Opened == ~closed => closer.pc = "absent"

LEMMA OpenedKept ==
    ASSUME Opened, [Next]_vars
    PROVE  Opened'
BY DEF Opened, Next, vars, Request, Proceed, Take, Replace, Timeout, Release,
       ReleaseClosed, Retire, Background, CheckHealth, PingReturns, PingFails,
       CheckerCloses, Maintenance, Cleanup, CleanerCloses, Close, CloserCloses

LEMMA CloseKeeps ==
    ASSUME Owners, Lists, Books, Opened, Close \/ CloserCloses
    PROVE  Lists' /\ Books'
<1>1. PICK k \in Nat : k = Len(conns)
  BY Known
<1>2. /\ UNCHANGED user
      /\ conns \in Seq(PooledConnection)
      /\ connections \in Seq(1..k) /\ Injective(connections)
  BY <1>1 DEF Close, CloserCloses, Owners, Lists
<1>3. CASE Close
  <2>1. /\ closed' /\ closer.pc # "done"
        /\ CloseFrom(conns, connections, 1)
        /\ checker' \in {checker, Done} /\ cleaner' \in {cleaner, Done}
    BY <1>3 DEF Close, Opened
  <2>2. QED
    BY <1>1, <1>2, <2>1, CloseFromKeeps
<1>4. CASE CloserCloses
  <2>1. PICK c : c = closer.conn
    OBVIOUS
  <2>2. PICK cs : cs = Dropped(conns, c)
    OBVIOUS
  <2>3. PICK list : list = Without(connections, c)
    OBVIOUS
  <2>4. PICK i : i = closer.next
    OBVIOUS
  <2>5. /\ closer.pc = "closing" /\ c \in ShutOf(conns)
        /\ closed'
        /\ CloseFrom(cs, list, i) /\ i \in Nat \ {0}
        /\ UNCHANGED <<checker, cleaner>>
    BY <1>4, <2>1, <2>2, <2>3, <2>4
       DEF CloserCloses, Books, Lists, TaskOf, Opened
  <2>6. /\ cs \in Seq(PooledConnection) /\ Len(cs) = Len(conns)
        /\ ShutOf(cs) = ShutOf(conns)
    BY <1>2, <2>2, ClosingKeeps, ShutChanges
  <2>7. /\ list \in Seq(1..k) /\ Injective(list)
        /\ ToSet(list) = ToSet(connections) \ {c}
    BY <1>2, <2>3, WithoutSet
  <2>8. QED
    BY <1>1, <1>2, <2>5, <2>6, <2>7, CloseFromKeeps
<1>5. QED
  BY <1>3, <1>4

(****************************************************************************)
(* The theorems.                                                            *)
(****************************************************************************)

ListInv == Lists /\ Books /\ Opened

LEMMA ListInit == Init => ListInv
<1> SUFFICES ASSUME Init PROVE ListInv
  OBVIOUS
<1>1. /\ conns = <<>> /\ connections = <<>>
      /\ user = [u \in User |-> [pc |-> "out", conn |-> 0]]
      /\ checker = Absent /\ cleaner = Absent /\ closer = Absent
  BY DEF Init
<1>2. Len(conns) = 0 /\ connections \in Seq(1..0) /\ Len(connections) = 0
  BY <1>1, EmptySeq
<1>3. Absent \in TaskOf(0) /\ Absent.pc = "absent"
  BY IdleTasks
<1>4. Lists
  BY <1>1, <1>2, <1>3, PoolAssumption DEF Lists, Injective
<1>5. ToSet(connections) = {}
  BY <1>1 DEF ToSet
<1>6. \A u \in User : user[u].pc = "out" /\ user[u].conn = 0
  BY <1>1
<1>7. Books
  BY <1>1, <1>2, <1>3, <1>5, <1>6 DEF Books, Busy
<1>8. Opened
  BY <1>1, <1>3 DEF Opened
<1>9. QED
  BY <1>4, <1>7, <1>8 DEF ListInv

LEMMA ListNext == PoolInv /\ ListInv /\ [Next]_vars => ListInv'
<1> SUFFICES ASSUME Owners, Bounded, Lists, Books, Opened, [Next]_vars
             PROVE  Lists' /\ Books'
  BY OpenedKept DEF PoolInv, ListInv
<1>1. ASSUME NEW u \in User, Request(u) PROVE Lists' /\ Books'
  BY <1>1, RequestKeeps
<1>2. ASSUME NEW u \in User, Proceed(u) \/ Release(u) PROVE Lists' /\ Books'
  BY <1>2, TakeKeeps, ReplaceKeeps, TimeoutKeeps, ReleaseKeeps,
     ReleaseClosedKeeps, RetireKeeps DEF Proceed
<1>3. CASE Background
  BY <1>3, BackgroundKeeps
<1>4. CASE Maintenance
  BY <1>4, MaintenanceKeeps
<1>5. CASE Close \/ CloserCloses
  BY <1>5, CloseKeeps
<1>6. CASE UNCHANGED vars
  <2>1. Lists'
    BY <1>6 DEF vars, Lists
  <2>2. Books'
    BY <1>6 DEF vars, Books, BeingClosed, Held
  <2>3. QED
    BY <2>1, <2>2
<1>7. QED
  BY <1>1, <1>2, <1>3, <1>4, <1>5, <1>6 DEF Next

LEMMA ListInvariant == Spec => [](PoolInv /\ ListInv)
<1>1. Spec => []PoolInv
  BY PoolInvariant
<1>2. Spec => []ListInv
  BY <1>1, ListInit, ListNext, PTL DEF Spec
<1>3. QED
  BY <1>1, <1>2, PTL

\* Until close(), every connection of the pool's list that has been closed is
\* being closed, for any number of users and any size of the pool
\* (_close_connection, the health checks and the cleanup).
THEOREM NoDeadEntryStays == Spec => []NoDeadEntries
<1>1. PoolInv /\ ListInv => NoDeadEntries
  <2> SUFFICES ASSUME Owners, Lists, Books, ~closed,
                      NEW c \in ToSet(connections), conns[c].shut
               PROVE  ClosingOf(c)
    BY DEF PoolInv, ListInv, NoDeadEntries
  <2>1. c \in ShutOf(conns)
    BY Known DEF ShutOf
  <2>2. BeingClosed(c)
    BY <2>1 DEF Books
  <2>3. QED
    BY <2>2 DEF BeingClosed, ClosingOf, Holders, Busy
<1>2. QED
  BY <1>1, ListInvariant, PTL

\* Until close() is through, no open connection is lost, for any number of users
\* and any size of the pool (_acquire_connection, _release_connection, the
\* background tasks and close).
THEOREM NothingIsLost == Spec => []Accounted
<1>1. PoolInv /\ ListInv => Accounted
  <2> SUFFICES ASSUME Owners, Lists, Books, closer.pc # "done",
                      NEW c \in DOMAIN conns, ~conns[c].shut
               PROVE  \/ c \in ToSet(connections) \cup ToSet(queue)
                      \/ Holders(c) # {}
    BY DEF PoolInv, ListInv, Accounted
  <2>1. c \in 1..Len(conns)
    BY LenProperties DEF Owners
  <2>2. c \notin ShutOf(conns)
    BY DEF ShutOf
  <2>3. c \in ToSet(connections) \cup ToSet(queue) \/ Held(c)
    BY <2>1, <2>2 DEF Books
  <2>4. QED
    BY <2>3 DEF Held, Holders
<1>2. QED
  BY <1>1, ListInvariant, PTL

(****************************************************************************)
(* What is handed out.                                                      *)
(****************************************************************************)

\* As long as no task has closed anything, what waits in the queue and what is
\* used is open.
OpenOnes ==
    /\ checker.pc = "closing" => reaped
    /\ cleaner.pc = "closing" => reaped
    /\ ~reaped /\ ~closed =>
          /\ \A x \in ToSet(queue) : x \notin ShutOf(conns)
          /\ \A v \in User : user[v].pc = "using" => user[v].conn \notin ShutOf(conns)

\* What users close they hold, so that it is not in the queue.
LEMMA OpenStep ==
    ASSUME Owners', OpenOnes, reaped => reaped', closed => closed',
           checker'.pc = "closing" => reaped',
           cleaner'.pc = "closing" => reaped',
           ~reaped' /\ ~closed' =>
              /\ \A x \in ShutOf(conns') :
                    \/ x \in ShutOf(conns)
                    \/ \E v \in User : user'[v].conn = x /\ user'[v].pc \in Busy
              /\ \A x \in ToSet(queue') :
                    \/ x \in ToSet(queue) \/ x \notin ShutOf(conns)
                    \/ \E v \in User : user[v].pc = "using" /\ user[v].conn = x
              /\ \A v \in User : user'[v].pc = "using" =>
                    \/ user'[v].conn \in ToSet(queue)
                    \/ user'[v].conn \notin ShutOf(conns)
                    \/ user'[v] = user[v]
    PROVE  OpenOnes'
<1>1. ASSUME ~reaped', ~closed', NEW x \in ToSet(queue'), x \in ShutOf(conns')
      PROVE  FALSE
  <2>1. x \notin ShutOf(conns)
    BY <1>1 DEF OpenOnes
  <2>2. PICK v \in User : user'[v].conn = x
    BY <1>1, <2>1
  <2>3. QED
    BY <1>1, <2>2 DEF Owners, Exclusive
<1>2. ASSUME ~reaped', ~closed', NEW v \in User, user'[v].pc = "using",
             user'[v].conn \in ShutOf(conns')
      PROVE  FALSE
  <2>1. user'[v].conn \notin ShutOf(conns)
    BY <1>2 DEF OpenOnes
  <2>2. PICK w \in User : user'[w].conn = user'[v].conn /\ user'[w].pc \in Busy
    BY <1>2, <2>1
  <2>3. w # v /\ user'[v].conn # 0
    BY <1>2, <2>2 DEF Busy, Owners
  <2>4. QED
    BY <2>2, <2>3 DEF Owners, Exclusive
<1>3. QED
  BY <1>1, <1>2 DEF OpenOnes

LEMMA UserOpen ==
    ASSUME Owners, Owners', Bounded, Lists, Books, OpenOnes, NEW u \in User,
           Request(u) \/ Proceed(u) \/ Release(u)
    PROVE  OpenOnes' /\ UNCHANGED <<reaped, closed>>
<1>0. UNCHANGED <<reaped, closed>>
  BY DEF Request, Proceed, Take, Replace, Timeout, Release, ReleaseClosed, Retire
<1>1. /\ checker'.pc = "closing" => reaped'
      /\ cleaner'.pc = "closing" => reaped'
  <2>1. /\ checker' = checker \/ checker'.pc = "asleep"
        /\ cleaner' = cleaner \/ cleaner'.pc = "asleep"
    BY IdleTasks DEF Request, Proceed, Take, Replace, Timeout, Release,
                     ReleaseClosed, Retire
  <2>2. QED
    BY <1>0, <2>1 DEF OpenOnes
<1>2. PICK k \in Nat : k = Len(conns)
  BY Known
<1>3. PICK c : c = user[u].conn
  OBVIOUS
<1>4. \A x \in ShutOf(conns) : x \in 1..k
  BY <1>2, Known
<1>5. CASE Request(u)
  <2>1. CASE initialized
    <3>1. UNCHANGED <<conns, queue>> /\ Goto(u, "waiting", 0)
      BY <1>5, <2>1 DEF Request
    <3>2. \A v \in User : user'[v].pc = "using" => user'[v] = user[v]
      BY <3>1 DEF Goto, Owners
    <3>3. QED
      BY <1>0, <1>1, <3>1, <3>2, OpenStep
  <2>2. CASE ~initialized
    <3>1. PICK n \in Nat : n = PoolSize
      BY PoolAssumption
    <3>2. /\ conns' = Created(conns, n, "idle") /\ queue' = queue \o New(n)
          /\ Goto(u, "waiting", 0)
      BY <1>5, <2>2, <3>1 DEF Request
    <3>3. ShutOf(conns') = ShutOf(conns)
      BY <3>1, <3>2, CreatedShut DEF Owners
    <3>4. ToSet(queue') = ToSet(queue) \cup (k + 1)..(k + n)
      BY <1>2, <3>1, <3>2, NewSet DEF Owners
    <3>5. \A x \in (k + 1)..(k + n) : x \notin 1..k
      OBVIOUS
    <3>6. \A v \in User : user'[v].pc = "using" => user'[v] = user[v]
      BY <3>2 DEF Goto, Owners
    <3>7. QED
      BY <1>0, <1>1, <1>4, <3>3, <3>4, <3>5, <3>6, OpenStep
  <2>3. QED
    BY <2>1, <2>2
<1>6. CASE Take(u)
  <2>1. PICK d : d = Head(queue)
    OBVIOUS
  <2>2. /\ queue # <<>> /\ queue' = Tail(queue)
        /\ \/ conns' = [conns EXCEPT ![d].state = "active"] /\ Goto(u, "using", d)
           \/ conns' = Shut(conns, d) /\ Goto(u, "replacing", d)
    BY <1>6, <2>1 DEF Take, QueueTaken
  <2>3. /\ d \in 1..k /\ d \in ToSet(queue)
        /\ \A x \in ToSet(queue') : x \in ToSet(queue)
    <3>1. d \in 1..k
      BY <1>2, <2>1, <2>2, TailSet DEF Owners
    <3>2. /\ Len(queue) \in Nat /\ DOMAIN queue = 1..Len(queue)
          /\ queue' \in Seq(1..k) /\ Len(queue') = Len(queue) - 1
          /\ \A i \in 1..(Len(queue) - 1) : queue'[i] = queue[i + 1]
          /\ Len(queue) >= 1 /\ d = queue[1]
      BY <1>2, <2>1, <2>2, LenProperties, HeadTailProperties, EmptySeq DEF Owners
    <3>3. DOMAIN queue' = 1..(Len(queue) - 1)
      BY <3>2, LenProperties
    <3>4. d \in ToSet(queue)
      BY <3>2 DEF ToSet
    <3>5. ASSUME NEW x \in ToSet(queue') PROVE x \in ToSet(queue)
      <4>1. PICK i \in 1..(Len(queue) - 1) : queue'[i] = x
        BY <3>3, <3>5 DEF ToSet
      <4>2. i + 1 \in DOMAIN queue /\ queue[i + 1] = x
        BY <3>2, <4>1
      <4>3. QED
        BY <4>2 DEF ToSet
    <3>6. QED
      BY <3>1, <3>4, <3>5
  <2>4. CASE conns' = [conns EXCEPT ![d].state = "active"] /\ Goto(u, "using", d)
    <3>1. ShutOf(conns') = ShutOf(conns)
      <4>1. \A s : ShutOf([conns EXCEPT ![d].state = s]) = ShutOf(conns)
        BY ShutChanges DEF Owners
      <4>2. QED
        BY <2>4, <4>1, Zenon
    <3>2. \A v \in User : user'[v].conn = d \/ user'[v] = user[v]
      BY <2>4 DEF Goto, Owners
    <3>3. QED
      BY <1>0, <1>1, <2>3, <3>1, <3>2, OpenStep
  <2>5. CASE conns' = Shut(conns, d) /\ Goto(u, "replacing", d)
    <3>1. ShutOf(conns') = ShutOf(conns) \cup {d}
      BY <1>2, <2>3, <2>5, ShutFacts DEF Owners
    <3>2. /\ user'[u].conn = d /\ user'[u].pc \in Busy
          /\ \A v \in User : user'[v].pc = "using" => user'[v] = user[v]
      BY <2>5 DEF Goto, Owners, Busy
    <3>3. QED
      BY <1>0, <1>1, <2>3, <3>1, <3>2, OpenStep
  <2>6. QED
    BY <2>2, <2>4, <2>5
<1>7. CASE Replace(u)
  <2>1. /\ conns' = Created(Dropped(conns, c), 1, "active")
        /\ Goto(u, "using", k + 1) /\ UNCHANGED queue
    BY <1>2, <1>3, <1>7 DEF Replace, Replacement
  <2>2. ShutOf(conns') = ShutOf(conns)
    <3>1. /\ Dropped(conns, c) \in Seq(PooledConnection)
          /\ ShutOf(Dropped(conns, c)) = ShutOf(conns)
      BY ClosingKeeps, ShutChanges DEF Owners
    <3>2. QED
      BY <2>1, <3>1, CreatedShut
  <2>3. \A v \in User : user'[v].conn = k + 1 \/ user'[v] = user[v]
    BY <2>1 DEF Goto, Owners
  <2>4. k + 1 \notin ShutOf(conns)
    BY <1>4
  <2>5. QED
    BY <1>0, <1>1, <2>1, <2>2, <2>3, <2>4, OpenStep
<1>8. CASE Timeout(u)
  <2>1. CASE conns' = Created(conns, 1, "active") /\ Goto(u, "using", k + 1)
    <3>1. ShutOf(conns') = ShutOf(conns) /\ UNCHANGED queue
      BY <1>8, <2>1, CreatedShut DEF Owners, Timeout
    <3>2. \A v \in User : user'[v].conn = k + 1 \/ user'[v] = user[v]
      BY <2>1 DEF Goto, Owners
    <3>3. k + 1 \notin ShutOf(conns)
      BY <1>4
    <3>4. QED
      BY <1>0, <1>1, <3>1, <3>2, <3>3, OpenStep
  <2>2. CASE UNCHANGED conns /\ Goto(u, "out", 0)
    <3>1. \A v \in User : user'[v].pc = "using" => user'[v] = user[v]
      BY <2>2 DEF Goto, Owners
    <3>2. UNCHANGED queue
      BY <1>8 DEF Timeout
    <3>3. QED
      BY <1>0, <1>1, <2>2, <3>1, <3>2, OpenStep
  <2>3. QED
    BY <1>2, <1>8, <2>1, <2>2 DEF Timeout
<1>9. CASE Release(u)
  <2>1. user[u].pc = "using" /\ c \in 1..Len(conns)
    BY <1>3, <1>9, Known DEF Release, At, Owners
  <2>2. PICK erring \in BOOLEAN :
           LET used == [conns EXCEPT ![c].erring = erring]
           IN  \/ /\ conns' = Shut(used, c)
                  /\ Goto(u, "closing", c) \/ Goto(u, "retiring", c)
                  /\ queue' = queue
               \/ /\ conns' = [used EXCEPT ![c].state = "idle"]
                  /\ Goto(u, "out", 0)
                  /\ queue' = Append(queue, c)
    BY <1>3, <1>9, Zenon DEF Release, Returned
  <2> DEFINE used == [conns EXCEPT ![c].erring = erring]
  <2>3. used \in Seq(PooledConnection) /\ Len(used) = Len(conns)
    BY ErringKeeps DEF Owners
  <2>4. ShutOf(used) = ShutOf(conns)
    <3>1. \A e : ShutOf([conns EXCEPT ![c].erring = e]) = ShutOf(conns)
      BY ShutChanges DEF Owners
    <3>2. QED
      BY <3>1, Zenon
  <2> HIDE DEF used
  <2>5. CASE /\ conns' = Shut(used, c)
             /\ Goto(u, "closing", c) \/ Goto(u, "retiring", c)
             /\ queue' = queue
    <3>1. ShutOf(conns') = ShutOf(conns) \cup {c}
      <4>1. c \in 1..Len(used)
        BY <2>1, <2>3
      <4>2. QED
        BY <2>3, <2>4, <2>5, <4>1, ShutFacts
    <3>2. /\ user'[u].conn = c /\ user'[u].pc \in Busy
          /\ \A v \in User : user'[v].pc = "using" => user'[v] = user[v]
      BY <2>5 DEF Goto, Owners, Busy
    <3>3. QED
      BY <1>0, <1>1, <2>5, <3>1, <3>2, OpenStep
  <2>6. CASE /\ conns' = [used EXCEPT ![c].state = "idle"]
             /\ Goto(u, "out", 0)
             /\ queue' = Append(queue, c)
    <3>1. ShutOf(conns') = ShutOf(conns)
      <4>1. \A s : ShutOf([used EXCEPT ![c].state = s]) = ShutOf(used)
        BY <2>3, ShutChanges
      <4>2. QED
        BY <2>4, <2>6, <4>1, Zenon
    <3>2. ToSet(queue') = ToSet(queue) \cup {c}
      BY <2>1, <2>6, AppendSet DEF Owners
    <3>3. \A v \in User : user'[v].pc = "using" => user'[v] = user[v]
      BY <2>6 DEF Goto, Owners
    <3>4. QED
      BY <1>0, <1>1, <1>3, <2>1, <3>1, <3>2, <3>3, OpenStep
  <2>7. QED
    BY <2>2, <2>5, <2>6 DEF used
<1>10. CASE ReleaseClosed(u)
  <2>1. conns' = Dropped(conns, c) /\ Goto(u, "out", 0) /\ UNCHANGED queue
    BY <1>3, <1>10 DEF ReleaseClosed
  <2>2. ShutOf(conns') = ShutOf(conns)
    BY <2>1, ShutChanges DEF Owners
  <2>3. \A v \in User : user'[v].pc = "using" => user'[v] = user[v]
    BY <2>1 DEF Goto, Owners
  <2>4. QED
    BY <1>0, <1>1, <2>1, <2>2, <2>3, OpenStep
<1>11. CASE Retire(u)
  <2>1. PICK n \in Nat : n = Replacements(Without(connections, c))
    BY DEF Replacements
  <2>2. /\ conns' = Created(Dropped(conns, c), n, "idle")
        /\ queue' = queue \o New(n) /\ Goto(u, "out", 0)
    BY <1>3, <1>11, <2>1 DEF Retire
  <2>3. ShutOf(conns') = ShutOf(conns)
    <3>1. /\ Dropped(conns, c) \in Seq(PooledConnection)
          /\ ShutOf(Dropped(conns, c)) = ShutOf(conns)
      BY ClosingKeeps, ShutChanges DEF Owners
    <3>2. QED
      BY <2>2, <3>1, CreatedShut
  <2>4. ToSet(queue') = ToSet(queue) \cup (k + 1)..(k + n)
    BY <1>2, <2>2, NewSet DEF Owners
  <2>5. \A x \in (k + 1)..(k + n) : x \notin 1..k
    OBVIOUS
  <2>6. \A v \in User : user'[v].pc = "using" => user'[v] = user[v]
    BY <2>2 DEF Goto, Owners
  <2>7. QED
    BY <1>0, <1>1, <1>4, <2>3, <2>4, <2>5, <2>6, OpenStep
<1>12. QED
  BY <1>0, <1>5, <1>6, <1>7, <1>8, <1>9, <1>10, <1>11 DEF Proceed

\* The tasks close nothing before reaped or closed is set.
LEMMA TaskOpen ==
    ASSUME Owners, Owners', Lists, Books, Opened, OpenOnes,
           Background \/ Maintenance \/ Close \/ CloserCloses
    PROVE  OpenOnes' /\ UNCHANGED user
<1>0. /\ UNCHANGED user
      /\ reaped => reaped'
      /\ closed => closed'
      /\ \A v \in User : user'[v].pc = "using" => user'[v] = user[v]
      /\ conns \in Seq(PooledConnection)
      /\ Asleep.pc = "asleep" /\ Done.pc = "done"
  <2>1. UNCHANGED user
    BY DEF Background, CheckHealth, PingReturns, PingFails, CheckerCloses,
           Maintenance, Cleanup, CleanerCloses, Close, CloserCloses
  <2>2. reaped' = reaped \/ reaped' = TRUE
    BY Zenon
       DEF Background, CheckHealth, CheckFrom, PingReturns, PingFails, CheckerCloses,
           Maintenance, Cleanup, CleanerCloses, CleanOn, Close, CloserCloses
  <2>3. closed' = closed \/ closed' = TRUE
    BY Zenon
       DEF Background, CheckHealth, PingReturns, PingFails, CheckerCloses,
           Maintenance, Cleanup, CleanerCloses, Close, CloserCloses
  <2>4. Asleep.pc = "asleep" /\ Done.pc = "done"
    <3>1. 0 \in Nat
      OBVIOUS
    <3>2. QED
      BY <3>1, IdleTasks
  <2>5. QED
    BY <2>1, <2>2, <2>3, <2>4 DEF Owners
<1>1. CASE Background
  <2>0. UNCHANGED <<queue, cleaner>>
    BY <1>1 DEF Background, CheckHealth, PingReturns, PingFails, CheckerCloses
  <2>1. ASSUME NEW cs, ShutOf(cs) = ShutOf(conns), NEW next, NEW bad,
               CheckFrom(cs, next, bad)
        PROVE  OpenOnes'
    <3>1. \/ conns' = cs /\ checker'.pc # "closing"
          \/ checker'.pc = "closing" /\ reaped'
      <4>1. \/ conns' = cs /\ checker'.pc \in {"failing", "pinging"}
            \/ checker'.pc = "closing" /\ reaped' = TRUE
            \/ conns' = cs /\ checker' = Asleep
        BY <2>1 DEF CheckFrom
      <4>2. QED
        BY <1>0, <4>1
    <3>2. QED
      BY <1>0, <2>0, <2>1, <3>1, OpenStep DEF OpenOnes
  <2>2. CASE CheckHealth
    BY <2>1, <2>2 DEF CheckHealth
  <2>3. CASE PingReturns
    <3>1. PICK erring : CheckFrom([conns EXCEPT ![checker.conn].erring = erring],
                                  checker.next, checker.todo)
      BY <2>3 DEF PingReturns
    <3>2. \A e : ShutOf([conns EXCEPT ![checker.conn].erring = e]) = ShutOf(conns)
      BY <1>0, ShutChanges
    <3> DEFINE cs == [conns EXCEPT ![checker.conn].erring = erring]
    <3>3. ShutOf(cs) = ShutOf(conns)
      BY <3>2, Zenon
    <3>4. CheckFrom(cs, checker.next, checker.todo)
      BY <3>1
    <3> HIDE DEF cs
    <3>5. QED
      BY <1>0, <2>1, <3>3, <3>4
  <2>4. CASE PingFails
    <3> DEFINE cs == [conns EXCEPT ![checker.conn].state = "unhealthy"]
    <3>1. CheckFrom(cs, checker.next, Append(checker.todo, checker.conn))
      BY <2>4 DEF PingFails
    <3>2. \A s : ShutOf([conns EXCEPT ![checker.conn].state = s]) = ShutOf(conns)
      BY <1>0, ShutChanges
    <3>3. ShutOf(cs) = ShutOf(conns)
      BY <3>2, Zenon
    <3> HIDE DEF cs
    <3>4. QED
      BY <1>0, <2>1, <3>1, <3>3
  <2>5. CASE CheckerCloses
    <3>1. reaped /\ reaped'
      BY <1>0, <2>5 DEF CheckerCloses, OpenOnes
    <3>2. QED
      BY <1>0, <2>0, <3>1 DEF OpenOnes
  <2>6. QED
    BY <1>1, <2>2, <2>3, <2>4, <2>5 DEF Background
<1>2. CASE Maintenance
  <2>0. UNCHANGED checker
    BY <1>2 DEF Maintenance, Cleanup, CleanerCloses
  <2>1. CASE CleanerCloses
    <3>1. reaped /\ reaped'
      BY <1>0, <2>1 DEF CleanerCloses, OpenOnes
    <3>2. QED
      BY <1>0, <2>0, <3>1 DEF OpenOnes
  <2>2. CASE Cleanup
    <3>1. PICK todo : CleanOn(conns, connections, todo)
      BY <2>2 DEF Cleanup
    <3>2. CASE reaped'
      BY <1>0, <3>2 DEF OpenOnes
    <3>3. CASE ~reaped'
      <4>1. PICK n \in Nat : n = Missing(connections)
        <5>1. Len(connections) \in Nat
          BY LenProperties DEF Lists
        <5>2. Missing(connections) \in Nat
          BY <5>1, PoolAssumption DEF Missing
        <5>3. QED
          BY <5>2
      <4>2. /\ conns' = Created(conns, n, "idle")
            /\ queue' = queue \o New(n) /\ cleaner' = Asleep
        BY <3>1, <3>3, <4>1 DEF CleanOn
      <4>3. ShutOf(conns') = ShutOf(conns)
        BY <1>0, <4>2, CreatedShut
      <4>4. PICK k \in Nat : k = Len(conns)
        BY Known
      <4>5. ToSet(queue') = ToSet(queue) \cup (k + 1)..(k + n)
        BY <4>2, <4>4, NewSet DEF Owners
      <4>6. \A x \in (k + 1)..(k + n) : x \notin 1..k
        OBVIOUS
      <4>7. \A x \in ShutOf(conns) : x \in 1..k
        BY <4>4, Known
      <4>8. cleaner'.pc # "closing"
        BY <4>2, <4>4, IdleTasks
      <4>9. QED
        BY <1>0, <2>0, <4>3, <4>5, <4>6, <4>7, <4>8, OpenStep DEF OpenOnes
    <3>4. QED
      BY <3>2, <3>3
  <2>3. QED
    BY <1>2, <2>1, <2>2 DEF Maintenance
<1>3. CASE Close \/ CloserCloses
  <2>1. closed'
    BY <1>3 DEF Close, CloserCloses, Opened
  <2>2. /\ checker'.pc = "closing" => reaped'
        /\ cleaner'.pc = "closing" => reaped'
    <3>1. /\ checker' = checker \/ checker'.pc = "done"
          /\ cleaner' = cleaner \/ cleaner'.pc = "done"
      BY <1>3, IdleTasks DEF Close, CloserCloses
    <3>2. QED
      BY <1>0, <3>1 DEF OpenOnes
  <2>3. QED
    BY <1>0, <2>1, <2>2 DEF OpenOnes
<1>4. QED
  BY <1>0, <1>1, <1>2, <1>3

LEMMA OpenInvariant == Spec => []OpenOnes
<1>1. Init => OpenOnes
  <2> SUFFICES ASSUME Init PROVE OpenOnes
    OBVIOUS
  <2>1. checker.pc = "absent" /\ cleaner.pc = "absent"
    BY IdleTasks DEF Init
  <2>2. queue = <<>> /\ \A v \in User : user[v].pc = "out"
    BY DEF Init
  <2>3. ToSet(queue) = {}
    BY <2>2 DEF ToSet
  <2>4. QED
    BY <2>1, <2>2, <2>3 DEF OpenOnes
<1>2. (PoolInv /\ ListInv) /\ (PoolInv /\ ListInv)' /\ OpenOnes /\ [Next]_vars
         => OpenOnes'
  <2> SUFFICES ASSUME Owners, Owners', Bounded, Lists, Books, Opened, OpenOnes,
                      [Next]_vars
               PROVE  OpenOnes'
    BY DEF PoolInv, ListInv
  <2>1. CASE UNCHANGED vars
    BY <2>1 DEF vars, OpenOnes
  <2>2. QED
    BY <2>1, UserOpen, TaskOpen DEF Next
<1>3. QED
  BY <1>1, <1>2, ListInvariant, PTL DEF Spec

\* As long as no task has closed anything, every connection a user gets answers
\* requests, for any number of users and any size of the pool
\* (_acquire_connection).
THEOREM OpenHandedOut == Spec => HandedOutOpen
<1>1. /\ (PoolInv /\ ListInv) /\ (PoolInv /\ ListInv)'
      /\ OpenOnes /\ OpenOnes' /\ [Next]_vars
      => [\A u \in User :
             (~reaped /\ ~closed /\ ~At(u, "using") /\ At(u, "using")') =>
                 ~conns'[user'[u].conn].shut]_vars
  <2> SUFFICES ASSUME Owners, Owners', Bounded, Lists, Books, Opened,
                      OpenOnes, OpenOnes', Next,
                      NEW u \in User, ~reaped, ~closed, ~At(u, "using"),
                      At(u, "using")'
               PROVE  ~conns'[user'[u].conn].shut
    BY DEF PoolInv, ListInv, vars, At
  <2>1. user' # user
    BY DEF At
  <2>2. UNCHANGED <<reaped, closed>>
    BY <2>1, UserOpen, TaskOpen DEF Next
  <2>3. user'[u].conn \notin ShutOf(conns')
    BY <2>2 DEF OpenOnes, At
  <2>4. user'[u].conn \in 1..Len(conns')
    <3>1. Len(conns') \in Nat
      BY LenProperties DEF Owners
    <3>2. QED
      BY <3>1 DEF Owners, At
  <2>5. QED
    BY <2>3, <2>4 DEF ShutOf
<1>2. QED
  BY <1>1, ListInvariant, OpenInvariant, PTL DEF Spec, HandedOutOpen

\* The kinds of three flags, whatever the pool does.
Flags == initialized \in BOOLEAN /\ closed \in BOOLEAN /\ reaped \in BOOLEAN

LEMMA FlagsKept ==
    ASSUME Flags, [Next]_vars
    PROVE  Flags'
BY DEF Flags, Next, vars, Request, Proceed, Take, Replace, Timeout, Release,
       ReleaseClosed, Retire, Background, CheckHealth, CheckFrom, PingReturns,
       PingFails, CheckerCloses, Maintenance, Cleanup, CleanerCloses, CleanOn,
       Close, CloserCloses

\* Every variable of the pool keeps its type, and no more than the bound of
\* connections is created, for any values of the constants.
THEOREM PoolTyped == Spec => []TypeOK
<1>1. Spec => []Flags
  <2>1. Init => Flags
    BY DEF Init, Flags
  <2>2. QED
    BY <2>1, FlagsKept, PTL DEF Spec
<1>2. Spec => []Consistent
  <2>1. Init => Consistent
    BY NewBreakerConsistent DEF Init, Consistent
  <2>2. Consistent /\ [Next]_vars => Consistent'
    BY BreakerSteps, BreakerCalls DEF Consistent
  <2>3. QED
    BY <2>1, <2>2, PTL DEF Spec
<1>3. Flags /\ Consistent /\ PoolInv /\ ListInv => TypeOK
  <2> SUFFICES ASSUME Flags, Consistent, Owners, Lists PROVE TypeOK
    BY DEF PoolInv, ListInv
  <2>1. PICK k \in Nat : k = Len(conns) /\ k <= MaxCreated
    BY Known DEF Lists
  <2>2. 1..k \subseteq Conn /\ 0..k \subseteq 0..MaxCreated
    BY <2>1, PoolAssumption DEF Conn
  <2>3. user \in [User -> UserState] /\ \A u \in User : user[u].conn \in 0..k
    BY <2>1, <2>2 DEF Owners, Pc, UserState
  <2>4. Seq(1..k) \subseteq Seq(Conn)
    BY <2>2, SeqMonotonic
  <2>5. {checker, cleaner, closer} \subseteq TaskState
    BY <2>1, <2>2, <2>4 DEF Lists, TaskOf, TaskPc, TaskState
  <2>6. QED
    BY <2>1, <2>3, <2>5 DEF TypeOK, Flags, Consistent, Owners, Lists
<1>4. QED
  BY <1>1, <1>2, <1>3, ListInvariant, PTL

================================================================================
