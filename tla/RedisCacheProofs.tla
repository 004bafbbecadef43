---------------------------- MODULE RedisCacheProofs ---------------------------
(****************************************************************************)
(* Proofs about RedisCache for any tasks, attempts and threshold.           *)
(****************************************************************************)
EXTENDS RedisCache, SequenceTheorems, FiniteSetTheorems, TLAPS

(****************************************************************************)
(* The circuit breaker.                                                     *)
(****************************************************************************)

BreakerInv == breaker \in Breaker /\ BreakerAgrees

\* A failure keeps count and state in agreement, whatever the state.
LEMMA FailureAgrees ==
    ASSUME NEW b \in Breaker,
           b.state = "closed" <=> b.failure_count < Threshold
    PROVE  LET c == RecordFailure(b)
           IN  /\ c \in Breaker
               /\ c.state = "closed" <=> c.failure_count < Threshold
<1> DEFINE n == b.failure_count + 1
<1>1. /\ b.state \in {"closed", "open", "half_open"}
      /\ b.failure_count \in Nat
      /\ Threshold \in Nat
  BY RedisAssumption DEF Breaker
<1>2. CASE n >= Threshold
  <2>1. RecordFailure(b) = [state |-> "open", failure_count |-> n]
    BY <1>2 DEF RecordFailure, Breaker
  <2>2. QED
    BY <1>1, <1>2, <2>1 DEF Breaker
<1>3. CASE ~(n >= Threshold)
  <2>1. RecordFailure(b) = [state |-> b.state, failure_count |-> n]
    BY <1>3 DEF RecordFailure, Breaker
  <2>2. QED
    BY <1>1, <1>3, <2>1 DEF Breaker
<1>4. QED
  BY <1>2, <1>3

\* The steps that touch the breaker.
LEMMA BreakerSteps ==
    ASSUME [Next]_vars
    PROVE  \/ breaker' \in {breaker, RecordFailure(breaker), NewBreaker,
                            RecordFailure(RecordFailure(breaker))}
           \/ breaker.state = "open" /\ breaker' = HalfOpen(breaker)
BY DEF Next, vars, redisVars, Begin, Passes, BeginDirect, BeginClose, Resume,
       Enter, ConnectReturns, Connected, ResetBreaker, ConnectFails, Reset,
       Again, CommandEnds, CommandSucceeds, CommandFails, CloseReturns,
       CloseFails, Cancelled

LEMMA BreakerStarts ==
    ASSUME Init
    PROVE  BreakerInv
BY RedisAssumption DEF Init, BreakerInv, NewBreaker, Breaker, BreakerAgrees

LEMMA BreakerKept ==
    ASSUME BreakerInv, [Next]_vars
    PROVE  BreakerInv'
<1> DEFINE once == RecordFailure(breaker)
           twice == RecordFailure(once)
<1>1. /\ once \in Breaker
      /\ once.state = "closed" <=> once.failure_count < Threshold
  BY FailureAgrees DEF BreakerInv, BreakerAgrees
<1>2. /\ twice \in Breaker
      /\ twice.state = "closed" <=> twice.failure_count < Threshold
  <2> HIDE DEF once
  <2>1. QED
    BY <1>1, FailureAgrees
<1>3. CASE breaker' = breaker
  BY <1>3 DEF BreakerInv, BreakerAgrees
<1>4. CASE breaker' = once
  BY <1>1, <1>4 DEF BreakerInv, BreakerAgrees
<1>5. CASE breaker' = twice
  BY <1>2, <1>5 DEF BreakerInv, BreakerAgrees
<1>6. CASE breaker' = NewBreaker
  BY <1>6, RedisAssumption DEF BreakerInv, BreakerAgrees, NewBreaker, Breaker
<1>7. CASE breaker.state = "open" /\ breaker' = HalfOpen(breaker)
  <2>1. breaker' = [state |-> "half_open",
                    failure_count |-> breaker.failure_count]
    BY <1>7 DEF HalfOpen, BreakerInv, Breaker
  <2>2. QED
    BY <1>7, <2>1 DEF BreakerInv, BreakerAgrees, Breaker
<1>8. QED
  BY <1>3, <1>4, <1>5, <1>6, <1>7, BreakerSteps

\* The count of failures tells the state of the breaker in every reachable
\* state, for any threshold (RedisCache._record_failure).
THEOREM RedisBreakerAgrees == Spec => []BreakerAgrees
<1>1. BreakerInv => BreakerAgrees
  BY DEF BreakerInv
<1>2. QED
  BY <1>1, BreakerStarts, BreakerKept, PTL DEF Spec

(****************************************************************************)
(* The connection and its lock.                                             *)
(****************************************************************************)

\* Calls that wait for the connection lock or hold it, and those that hold it.
Waiting == {"entering", "polling", "connecting", "resetting"}
Inside == {"polling", "connecting", "resetting"}

\* A queue of the lock, and calls that agree with it: who waits or is inside
\* is in it once, who is inside comes first.
Agree(q, c) ==
    /\ \A t \in Task : c[t].pc \in Waiting => \E i \in DOMAIN q : q[i] = t
    /\ \A i \in DOMAIN q : c[q[i]].pc \in Waiting
    /\ \A i, j \in DOMAIN q : q[i] = q[j] => i = j
    /\ \A t \in Task : c[t].pc \in Inside => q[1] = t

Queue ==
    /\ connection \in Seq(Task)
    /\ call \in [Task -> Call]
    /\ Agree(connection, call)

\* Who connects has seen that there is no connection.
Connects ==
    \A t \in Task : At(t, "connecting") => ~connected /\ connecting

ConnectionInv == Queue /\ Connects

LEMMA QueueFacts ==
    ASSUME Queue
    PROVE  /\ Len(connection) \in Nat
           /\ DOMAIN connection = 1..Len(connection)
           /\ \A i \in DOMAIN connection : connection[i] \in Task
           /\ connection = <<>> <=> Len(connection) = 0
           /\ connection # <<>> => Head(connection) = connection[1]
BY LenProperties, ElementOfSeq, EmptySeq, HeadTailProperties DEF Queue

\* One call moves on, inside the lock or outside of it.
LEMMA QueueStays ==
    ASSUME Queue, NEW t \in Task, NEW c \in Call, Goto(t, c),
           connection' = connection,
           c.pc \in Waiting <=> call[t].pc \in Waiting,
           c.pc \in Inside => connection[1] = t
    PROVE  Queue'
<1>1. /\ call' \in [Task -> Call]
      /\ \A u \in Task : call'[u] = IF u = t THEN c ELSE call[u]
  BY DEF Goto, Queue
<1>2. \A i \in DOMAIN connection : connection[i] \in Task
  BY QueueFacts
<1>3. Agree(connection, call')
  BY <1>1, <1>2 DEF Queue, Agree
<1>4. QED
  BY <1>1, <1>3 DEF Queue

\* A call joins the queue, and is inside if it is alone.
LEMMA QueueJoined ==
    ASSUME Queue, NEW t \in Task, NEW c \in Call, Goto(t, c),
           connection' = Append(connection, t),
           call[t].pc \notin Waiting, c.pc \in Waiting,
           c.pc \in Inside => connection = <<>>
    PROVE  Queue'
<1> DEFINE n == Len(connection)
<1>1. /\ call' \in [Task -> Call]
      /\ \A u \in Task : call'[u] = IF u = t THEN c ELSE call[u]
  BY DEF Goto, Queue
<1>2. /\ n \in Nat
      /\ DOMAIN connection = 1..n
      /\ \A i \in 1..n : connection[i] \in Task
      /\ connection = <<>> <=> n = 0
  BY QueueFacts
<1>3. /\ connection' \in Seq(Task)
      /\ DOMAIN connection' = 1..(n + 1)
      /\ \A i \in 1..n : connection'[i] = connection[i]
      /\ connection'[n + 1] = t
  BY AppendProperties, LenProperties DEF Queue
<1>4. \A i \in 1..n : connection[i] # t
  BY <1>2 DEF Queue, Agree
<1> HIDE DEF n
<1>5. \A u \in Task : call'[u].pc \in Waiting =>
         \E i \in DOMAIN connection' : connection'[i] = u
  BY <1>1, <1>2, <1>3 DEF Queue, Agree
<1>6. \A i \in DOMAIN connection' : call'[connection'[i]].pc \in Waiting
  BY <1>1, <1>2, <1>3, <1>4 DEF Queue, Agree
<1>7. \A i, j \in DOMAIN connection' : connection'[i] = connection'[j] => i = j
  BY <1>2, <1>3, <1>4 DEF Queue, Agree
<1>8. \A u \in Task : call'[u].pc \in Inside => connection'[1] = u
  <2>1. CASE n = 0
    BY <1>1, <1>2, <1>3, <2>1 DEF Queue, Agree, Waiting, Inside
  <2>2. CASE n # 0
    BY <1>1, <1>2, <1>3, <2>2 DEF Queue, Agree
  <2>3. QED
    BY <2>1, <2>2
<1>9. QED
  BY <1>1, <1>3, <1>5, <1>6, <1>7, <1>8 DEF Queue, Agree

\* The call at the head leaves the queue.
LEMMA QueueLeft ==
    ASSUME Queue, NEW t \in Task, NEW c \in Call, Goto(t, c),
           connection # <<>>, connection[1] = t,
           connection' = Tail(connection), c.pc \notin Waiting
    PROVE  Queue'
<1> DEFINE n == Len(connection)
<1>1. /\ call' \in [Task -> Call]
      /\ \A u \in Task : call'[u] = IF u = t THEN c ELSE call[u]
  BY DEF Goto, Queue
<1>2. /\ n \in Nat
      /\ n >= 1
      /\ DOMAIN connection = 1..n
      /\ \A i \in 1..n : connection[i] \in Task
  BY QueueFacts
<1>3. /\ connection' \in Seq(Task)
      /\ DOMAIN connection' = 1..(n - 1)
      /\ \A i \in 1..(n - 1) : connection'[i] = connection[i + 1]
  BY HeadTailProperties, LenProperties DEF Queue
<1> HIDE DEF n
<1>4. \A i \in 2..n : connection[i] # t
  BY <1>2 DEF Queue, Agree
<1>5. \A u \in Task : call'[u].pc \in Waiting =>
         \E i \in DOMAIN connection' : connection'[i] = u
  <2> SUFFICES ASSUME NEW u \in Task, call'[u].pc \in Waiting
               PROVE  \E i \in DOMAIN connection' : connection'[i] = u
    OBVIOUS
  <2>1. u # t /\ call[u].pc \in Waiting
    BY <1>1
  <2>2. PICK i \in 1..n : connection[i] = u
    BY <1>2, <2>1 DEF Queue, Agree
  <2>3. i - 1 \in 1..(n - 1) /\ connection'[i - 1] = u
    BY <1>2, <1>3, <2>1, <2>2
  <2>4. QED
    BY <1>3, <2>3
<1>6. \A i \in DOMAIN connection' : call'[connection'[i]].pc \in Waiting
  BY <1>1, <1>2, <1>3, <1>4 DEF Queue, Agree
<1>7. \A i, j \in DOMAIN connection' : connection'[i] = connection'[j] => i = j
  BY <1>2, <1>3 DEF Queue, Agree
<1>8. \A u \in Task : call'[u].pc \in Inside => connection'[1] = u
  BY <1>1 DEF Queue, Agree, Waiting, Inside
<1>9. QED
  BY <1>1, <1>3, <1>5, <1>6, <1>7, <1>8 DEF Queue, Agree

\* A sequence without the element at i.
LEMMA RemoveAtFacts ==
    ASSUME NEW S, NEW s \in Seq(S), NEW i \in 1..Len(s)
    PROVE  /\ RemoveAt(s, i) \in Seq(S)
           /\ Len(RemoveAt(s, i)) = Len(s) - 1
           /\ \A j \in 1..(Len(s) - 1) :
                 RemoveAt(s, i)[j] = s[IF j < i THEN j ELSE j + 1]
<1> DEFINE n == Len(s)
           before == SubSeq(s, 1, i - 1)
           after == SubSeq(s, i + 1, n)
<1>1. n \in Nat /\ i \in 1..n /\ \A j \in 1..n : s[j] \in S
  BY LenProperties, ElementOfSeq
<1>2. RemoveAt(s, i) = before \o after
  BY DEF RemoveAt
<1>3. /\ before \in Seq(S)
      /\ Len(before) = i - 1
      /\ \A j \in 1..(i - 1) : before[j] = s[j]
  <2>1. \A j \in 1..(i - 1) : s[j] \in S
    BY <1>1
  <2>2. i - 1 \in Int
    BY <1>1
  <2>3. QED
    BY <1>1, <2>1, <2>2, SubSeqProperties
<1>4. /\ after \in Seq(S)
      /\ Len(after) = n - i
      /\ \A j \in 1..(n - i) : after[j] = s[i + j]
  <2>1. \A j \in (i + 1)..n : s[j] \in S
    BY <1>1
  <2>2. i + 1 \in Int /\ n \in Int
    BY <1>1
  <2>3. QED
    BY <1>1, <2>1, <2>2, SubSeqProperties
<1> HIDE DEF n, before, after
<1>5. /\ before \o after \in Seq(S)
      /\ Len(before \o after) = Len(before) + Len(after)
      /\ \A j \in 1..(Len(before) + Len(after)) :
            (before \o after)[j] = IF j <= Len(before) THEN before[j]
                                   ELSE after[j - Len(before)]
  BY <1>3, <1>4, ConcatProperties
<1>6. Len(before) + Len(after) = n - 1
  BY <1>1, <1>3, <1>4
<1>7. \A j \in 1..(n - 1) :
         (before \o after)[j] = s[IF j < i THEN j ELSE j + 1]
  <2> SUFFICES ASSUME NEW j \in 1..(n - 1)
               PROVE  (before \o after)[j] = s[IF j < i THEN j ELSE j + 1]
    OBVIOUS
  <2>1. CASE j < i
    BY <1>1, <1>3, <1>5, <1>6, <2>1
  <2>2. CASE ~(j < i)
    <3>1. j \in 1..(Len(before) + Len(after)) /\ ~(j <= Len(before))
      BY <1>1, <1>3, <1>6, <2>2
    <3>2. (before \o after)[j] = after[j - (i - 1)]
      BY <1>3, <1>5, <3>1
    <3>3. j - (i - 1) \in 1..(n - i) /\ i + (j - (i - 1)) = j + 1
      BY <1>1, <2>2
    <3>4. QED
      BY <1>4, <2>2, <3>2, <3>3
  <2>3. QED
    BY <2>1, <2>2
<1>8. QED
  BY <1>2, <1>5, <1>6, <1>7 DEF n

\* A call is cancelled: it leaves the queue wherever it stands in it.
LEMMA QueueCancelled ==
    ASSUME Queue, NEW t \in Task, NEW c \in Call, Goto(t, c),
           connection' = Without(t), c.pc \notin Waiting
    PROVE  Queue'
<1> DEFINE n == Len(connection)
           i == CHOOSE j \in DOMAIN connection : connection[j] = t
<1>1. /\ call' \in [Task -> Call]
      /\ \A u \in Task : call'[u] = IF u = t THEN c ELSE call[u]
  BY DEF Goto, Queue
<1>2. /\ n \in Nat
      /\ DOMAIN connection = 1..n
      /\ \A j \in 1..n : connection[j] \in Task
  BY QueueFacts
<1>3. CASE t \notin ToSet(connection)
  <2>1. connection' = connection
    BY <1>3 DEF Without
  <2>2. call[t].pc \notin Waiting
    BY <1>3 DEF Queue, Agree, ToSet
  <2>3. c.pc \notin Inside
    BY DEF Waiting, Inside
  <2>4. QED
    BY <2>1, <2>2, <2>3, QueueStays
<1>4. CASE t \in ToSet(connection)
  <2>1. i \in 1..n /\ connection[i] = t
    BY <1>2, <1>4 DEF ToSet
  <2>2. connection' = RemoveAt(connection, i)
    BY <1>4 DEF Without
  <2> HIDE DEF i
  <2>3. /\ connection' \in Seq(Task)
        /\ DOMAIN connection' = 1..(n - 1)
        /\ \A j \in 1..(n - 1) :
              connection'[j] = connection[IF j < i THEN j ELSE j + 1]
    <3>1. connection \in Seq(Task) /\ i \in 1..Len(connection)
      BY <2>1 DEF Queue
    <3>2. /\ RemoveAt(connection, i) \in Seq(Task)
          /\ Len(RemoveAt(connection, i)) = n - 1
          /\ \A j \in 1..(n - 1) :
                RemoveAt(connection, i)[j]
                  = connection[IF j < i THEN j ELSE j + 1]
      BY <3>1, RemoveAtFacts
    <3>3. DOMAIN connection' = 1..(n - 1)
      BY <2>2, <3>2, LenProperties
    <3>4. QED
      BY <2>2, <3>2, <3>3
  <2> HIDE DEF n
  <2>4. \A j \in 1..n : connection[j] = t => j = i
    BY <1>2, <2>1 DEF Queue, Agree
  <2>5. \A u \in Task : call'[u].pc \in Waiting =>
           \E j \in DOMAIN connection' : connection'[j] = u
    <3> SUFFICES ASSUME NEW u \in Task, call'[u].pc \in Waiting
                 PROVE  \E j \in DOMAIN connection' : connection'[j] = u
      OBVIOUS
    <3>1. u # t /\ call[u].pc \in Waiting
      BY <1>1
    <3>2. PICK j \in 1..n : connection[j] = u
      BY <1>2, <3>1 DEF Queue, Agree
    <3>3. j # i
      BY <2>1, <3>1, <3>2
    <3>4. CASE j < i
      BY <1>2, <2>1, <2>3, <3>2, <3>4
    <3>5. CASE j > i
      <4>1. j - 1 \in 1..(n - 1) /\ connection'[j - 1] = u
        BY <1>2, <2>1, <2>3, <3>2, <3>5
      <4>2. QED
        BY <2>3, <4>1
    <3>6. QED
      BY <1>2, <2>1, <3>3, <3>4, <3>5
  <2>6. \A j \in DOMAIN connection' : call'[connection'[j]].pc \in Waiting
    <3> SUFFICES ASSUME NEW j \in DOMAIN connection'
                 PROVE  call'[connection'[j]].pc \in Waiting
      OBVIOUS
    <3>1. PICK k \in 1..n : k # i /\ connection'[j] = connection[k]
      BY <1>2, <2>1, <2>3
    <3>2. /\ connection[k] \in Task /\ connection[k] # t
          /\ call[connection[k]].pc \in Waiting
      BY <1>2, <2>4, <3>1 DEF Queue, Agree
    <3>3. QED
      BY <1>1, <3>1, <3>2
  <2>7. \A j, k \in DOMAIN connection' :
           connection'[j] = connection'[k] => j = k
    <3> SUFFICES ASSUME NEW j \in 1..(n - 1), NEW k \in 1..(n - 1),
                        connection'[j] = connection'[k]
                 PROVE  j = k
      BY <2>3
    <3> DEFINE old(x) == IF x < i THEN x ELSE x + 1
    <3>1. old(j) \in 1..n /\ old(k) \in 1..n
      BY <1>2, <2>1
    <3>2. connection[old(j)] = connection[old(k)]
      BY <2>3
    <3>3. old(j) = old(k)
      <4> HIDE DEF old
      <4>1. QED
        BY <1>2, <3>1, <3>2 DEF Queue, Agree
    <3>4. QED
      BY <1>2, <2>1, <3>3
  <2>8. \A u \in Task : call'[u].pc \in Inside => connection'[1] = u
    <3> SUFFICES ASSUME NEW u \in Task, call'[u].pc \in Inside
                 PROVE  connection'[1] = u
      OBVIOUS
    <3>1. u # t /\ connection[1] = u
      BY <1>1 DEF Queue, Agree, Waiting, Inside
    <3>2. 1 < i /\ 1 \in 1..(n - 1)
      BY <1>2, <2>1, <3>1
    <3>3. QED
      BY <2>3, <3>1, <3>2
  <2>9. QED
    BY <1>1, <2>3, <2>5, <2>6, <2>7, <2>8 DEF Queue, Agree
<1>5. QED
  BY <1>3, <1>4

\* Whoever is inside the lock is there alone, at the head of the queue.
LEMMA InsideFacts ==
    ASSUME Queue, NEW t \in Task, call[t].pc \in Inside
    PROVE  /\ connection # <<>>
           /\ connection[1] = t
           /\ \A u \in Task : call[u].pc \in Inside => u = t
BY QueueFacts DEF Queue, Agree, Waiting, Inside

\* The calls a step may leave behind.
LEMMA CallKinds ==
    ASSUME NEW c \in Call
    PROVE  /\ Idle \in Call
           /\ \A pc \in {"idle", "entering", "polling", "connecting",
                         "resetting", "calling", "backoff", "recording",
                         "closing"} :
                 [c EXCEPT !.pc = pc] \in Call /\ [c EXCEPT !.pc = pc].pc = pc
           /\ \A op \in Op :
                 /\ [Idle EXCEPT !.op = op] \in Call
                 /\ [Idle EXCEPT !.op = op].pc = "idle"
BY DEF Call, Idle, Op

LEMMA NextCall ==
    ASSUME NEW c \in Call, NEW n \in Nat
    PROVE  LET d == [c EXCEPT !.pc = "backoff", !.attempt = n]
           IN  d \in Call /\ d.pc = "backoff"
<1> DEFINE d == [c EXCEPT !.pc = "backoff", !.attempt = n]
<1>1. d \in Call
  BY DEF Call
<1>2. d.pc = "backoff"
  BY DEF Call
<1>3. QED
  BY <1>1, <1>2

\* A task that does not start to connect leaves the others as they were, if
\* the flags stay or no other task is connecting.
LEMMA ConnectsStays ==
    ASSUME Queue, Connects, NEW t \in Task, NEW c \in Call, Goto(t, c),
           c.pc = "connecting" => ~connected' /\ connecting',
           \/ connected' = connected /\ connecting' = connecting
           \/ connected' = FALSE /\ connecting' = connecting
           \/ \A u \in Task : At(u, "connecting") => u = t
    PROVE  Connects'
<1>1. \A u \in Task : call'[u] = IF u = t THEN c ELSE call[u]
  BY DEF Goto, Queue
<1>2. QED
  BY <1>1 DEF Connects, At

\* connect() with the lock held.
LEMMA AttemptSteps ==
    ASSUME Queue, Connects, NEW t \in Task, NEW c \in Call, Attempt(t, c),
           ~connected, connected' = connected,
           call[t].pc \in Waiting => connection[1] = t
    PROVE  /\ connection' = connection /\ call[t].pc \in Waiting
                 => Queue' /\ Connects'
           /\ connection' = Append(connection, t) /\ connection = <<>>
                 /\ call[t].pc \notin Waiting => Queue' /\ Connects'
<1>1. PICK d \in Call : /\ Goto(t, d)
                        /\ d.pc \in Inside
                        /\ d.pc = "connecting" => connecting'
                        /\ connecting => connecting'
  <2>1. CASE Goto(t, [c EXCEPT !.pc = "polling"]) /\ UNCHANGED connecting
    BY <2>1, CallKinds DEF Inside
  <2>2. CASE Goto(t, [c EXCEPT !.pc = "connecting"]) /\ connecting' = TRUE
    BY <2>2, CallKinds DEF Inside
  <2>3. QED
    BY <2>1, <2>2 DEF Attempt
<1>2. Connects'
  <2>1. \A u \in Task : call'[u] = IF u = t THEN d ELSE call[u]
    BY <1>1 DEF Goto, Queue
  <2>2. QED
    BY <1>1, <2>1 DEF Connects, At
<1>3. d.pc \in Waiting
  BY <1>1 DEF Waiting, Inside
<1>4. CASE connection' = connection /\ call[t].pc \in Waiting
  BY <1>1, <1>2, <1>3, <1>4, QueueStays
<1>5. CASE /\ connection' = Append(connection, t) /\ connection = <<>>
           /\ call[t].pc \notin Waiting
  BY <1>1, <1>2, <1>3, <1>5, QueueJoined
<1>6. QED
  BY <1>4, <1>5

\* _ensure_connected() by a task that is not in the queue.
LEMMA EnsureSteps ==
    ASSUME Queue, Connects, NEW t \in Task, NEW c \in Call, Ensure(t, c),
           call[t].pc \notin Waiting, connected' = connected
    PROVE  Queue' /\ Connects'
<1>1. CASE connected
  <2> DEFINE d == IF c.op = "connect" THEN Idle ELSE [c EXCEPT !.pc = "calling"]
  <2>1. d \in Call /\ d.pc \in {"idle", "calling"}
    BY CallKinds DEF Idle
  <2>2. Goto(t, d) /\ connection' = connection /\ connecting' = connecting
    BY <1>1 DEF Ensure
  <2> HIDE DEF d
  <2>3. QED
    BY <2>1, <2>2, QueueStays, ConnectsStays DEF Waiting, Inside
<1>2. CASE ~connected /\ connection = <<>>
  <2>1. Attempt(t, c) /\ connection' = Append(connection, t)
    BY <1>2 DEF Ensure
  <2>2. QED
    BY <1>2, <2>1, AttemptSteps
<1>3. CASE ~connected /\ connection # <<>>
  <2> DEFINE d == [c EXCEPT !.pc = "entering"]
  <2>1. d \in Call /\ d.pc = "entering"
    BY CallKinds
  <2>2. /\ Goto(t, d)
        /\ connection' = Append(connection, t)
        /\ connecting' = connecting
    BY <1>3 DEF Ensure
  <2> HIDE DEF d
  <2>3. QED
    BY <2>1, <2>2, QueueJoined, ConnectsStays DEF Waiting, Inside
<1>4. QED
  BY <1>1, <1>2, <1>3

\* The steps outside of the lock.
LEMMA OutsideSteps ==
    ASSUME Queue, Connects, NEW t \in Task,
           \/ Begin(t)
           \/ BeginDirect(t)
           \/ BeginClose(t)
           \/ Again(t)
           \/ CommandEnds(t)
           \/ CommandSucceeds(t)
           \/ CommandFails(t)
           \/ CloseReturns(t)
           \/ CloseFails(t)
    PROVE  Queue' /\ Connects'
<1>1. /\ call[t].pc \notin Waiting
      /\ call[t] \in Call
  BY DEF Begin, BeginDirect, BeginClose, Again, CommandEnds, CommandSucceeds,
         CommandFails, CloseReturns, CloseFails, At, Waiting, Queue
<1>2. ASSUME NEW c \in Call, Ensure(t, c), connected' = connected
      PROVE  Queue' /\ Connects'
  BY <1>1, <1>2, EnsureSteps
<1>3. ASSUME NEW c \in Call, Goto(t, c), c.pc \notin Waiting,
             connection' = connection, connecting' = connecting,
             connected' \in {connected, FALSE}
      PROVE  Queue' /\ Connects'
  <2>1. c.pc \notin Inside /\ c.pc # "connecting"
    BY <1>3 DEF Waiting, Inside
  <2>2. QED
    BY <1>1, <1>3, <2>1, QueueStays, ConnectsStays
<1>4. Idle \in Call /\ Idle.pc = "idle" /\ "idle" \notin Waiting
  BY DEF Idle, Call, Op, Waiting
<1>5. ASSUME Return(t), connection' = connection, connecting' = connecting,
             connected' \in {connected, FALSE}
      PROVE  Queue' /\ Connects'
  BY <1>3, <1>4, <1>5 DEF Return
<1>6. CASE Begin(t)
  <2>1. PICK op \in {"get", "set"} :
           \/ Ensure(t, [Idle EXCEPT !.op = op])
           \/ Return(t) /\ UNCHANGED <<connection, connecting>>
    BY <1>6 DEF Begin, FallBack
  <2>2. [Idle EXCEPT !.op = op] \in Call
    BY CallKinds, <1>1 DEF Op
  <2>3. QED
    BY <1>2, <1>5, <1>6, <2>1, <2>2 DEF Begin
<1>7. CASE BeginDirect(t)
  <2>1. PICK op \in {"direct", "connect"} : Ensure(t, [Idle EXCEPT !.op = op])
    BY <1>7 DEF BeginDirect
  <2>2. [Idle EXCEPT !.op = op] \in Call
    BY CallKinds, <1>1 DEF Op
  <2>3. QED
    BY <1>2, <1>7, <2>1, <2>2 DEF BeginDirect
<1>8. CASE BeginClose(t)
  <2> DEFINE c == [Idle EXCEPT !.pc = "closing", !.op = "close"]
  <2>1. c \in Call /\ c.pc \notin Waiting
    BY DEF Idle, Call, Op, Waiting
  <2>2. QED
    BY <1>3, <1>8, <2>1 DEF BeginClose
<1>9. CASE Again(t)
  BY <1>1, <1>2, <1>9 DEF Again
<1>10. CASE CommandEnds(t)
  BY <1>5, <1>10 DEF CommandEnds
<1>11. CASE CommandSucceeds(t)
  <2> DEFINE c == [call[t] EXCEPT !.pc = "recording"]
  <2>1. c \in Call /\ c.pc \notin Waiting
    BY <1>1, CallKinds DEF Waiting
  <2>2. Return(t) \/ Goto(t, c)
    BY <1>11 DEF CommandSucceeds
  <2> HIDE DEF c
  <2>3. QED
    BY <1>3, <1>5, <1>11, <2>1, <2>2 DEF CommandSucceeds
<1>12. CASE CommandFails(t)
  <2> DEFINE c == [call[t] EXCEPT !.pc = "backoff", !.attempt = NextAttempt(t)]
  <2>1. c \in Call /\ c.pc \notin Waiting
    <3>1. NextAttempt(t) \in Nat
      BY <1>1 DEF Call, NextAttempt
    <3>2. QED
      BY <1>1, <3>1, NextCall DEF Waiting
  <2>2. Return(t) \/ Goto(t, c)
    BY <1>12 DEF CommandFails, Retry, FallBack
  <2> HIDE DEF c
  <2>3. QED
    BY <1>3, <1>5, <1>12, <2>1, <2>2 DEF CommandFails
<1>13. CASE CloseReturns(t)
  BY <1>5, <1>13 DEF CloseReturns
<1>14. CASE CloseFails(t)
  BY <1>5, <1>14 DEF CloseFails
<1>15. QED
  BY <1>6, <1>7, <1>8, <1>9, <1>10, <1>11, <1>12, <1>13, <1>14

\* The steps of a task in the queue, and cancellation.
LEMMA InsideSteps ==
    ASSUME Queue, Connects, NEW t \in Task,
           \/ Enter(t)
           \/ ConnectReturns(t)
           \/ ConnectFails(t)
           \/ Reset(t)
           \/ Cancelled(t)
    PROVE  Queue' /\ Connects'
<1>1. call[t] \in Call
  BY DEF Queue
<1>2. Idle \in Call /\ Idle.pc = "idle" /\ "idle" \notin Waiting
  BY DEF Idle, Call, Op, Waiting
<1>3. ASSUME NEW c \in Call, Goto(t, c), c.pc \notin Waiting,
             connection' = Tail(connection), connection # <<>>,
             connection[1] = t,
             \/ UNCHANGED <<connected, connecting>>
             \/ \A u \in Task : At(u, "connecting") => u = t
      PROVE  Queue' /\ Connects'
  <2>1. c.pc # "connecting"
    BY <1>3 DEF Waiting
  <2>2. QED
    BY <1>3, <2>1, QueueLeft, ConnectsStays
<1>4. ASSUME Connected(t)
      PROVE  \E c \in Call : /\ Goto(t, c)
                             /\ c.pc \notin Waiting
                             /\ connection' = Tail(connection)
  <2> DEFINE c == IF call[t].op = "connect" THEN Idle
                  ELSE [call[t] EXCEPT !.pc = "calling"]
  <2>1. c \in Call /\ c.pc \notin Waiting
    BY <1>1, <1>2, CallKinds DEF Waiting
  <2>2. QED
    BY <1>4, <2>1 DEF Connected
<1>5. CASE Enter(t)
  <2>1. t = connection[1] /\ connection # <<>>
    <3>1. connection # <<>>
      BY <1>5, QueueFacts DEF Enter, At, Queue, Agree, Waiting
    <3>2. QED
      BY <1>5, <3>1, QueueFacts DEF Enter
  <2>2. call[t].pc \in Waiting
    BY <1>5 DEF Enter, At, Waiting
  <2>3. CASE connected /\ connection' = Tail(connection)
    <3> DEFINE c == IF call[t].op = "connect" THEN Idle
                    ELSE [call[t] EXCEPT !.pc = "calling"]
    <3>1. c \in Call /\ c.pc \notin Waiting
      BY <1>1, <1>2, CallKinds DEF Waiting
    <3>2. Goto(t, c) /\ UNCHANGED <<connected, connecting>>
      BY <1>5, <2>3 DEF Enter, Found
    <3> HIDE DEF c
    <3>3. QED
      BY <1>3, <2>1, <2>3, <3>1, <3>2
  <2>4. CASE ~connected /\ connection' = connection
    <3>1. Attempt(t, call[t]) /\ connected' = connected
      BY <1>5, <2>4 DEF Enter, Found
    <3>2. QED
      BY <1>1, <2>1, <2>2, <2>4, <3>1, AttemptSteps
  <2>5. QED
    BY <1>5, <2>3, <2>4 DEF Enter, Found
<1>6. CASE ConnectReturns(t)
  <2>1. /\ connection # <<>> /\ connection[1] = t
        /\ call[t].pc \in Waiting
        /\ \A u \in Task : At(u, "connecting") => u = t
    BY <1>6, InsideFacts DEF ConnectReturns, At, Inside, Waiting
  <2>2. CASE Connected(t)
    BY <1>3, <1>4, <2>1, <2>2
  <2>3. CASE /\ Goto(t, [call[t] EXCEPT !.pc = "resetting"])
             /\ UNCHANGED connection
    <3> DEFINE c == [call[t] EXCEPT !.pc = "resetting"]
    <3>1. c \in Call /\ c.pc = "resetting"
      BY <1>1, CallKinds
    <3>2. Goto(t, c) /\ connection' = connection
      BY <2>3
    <3> HIDE DEF c
    <3>3. QED
      BY <2>1, <3>1, <3>2, QueueStays, ConnectsStays DEF Waiting, Inside
  <2>4. QED
    BY <1>6, <2>2, <2>3 DEF ConnectReturns
<1>7. CASE ConnectFails(t)
  <2>1. /\ connection # <<>> /\ connection[1] = t
        /\ \A u \in Task : At(u, "connecting") => u = t
    BY <1>7, InsideFacts DEF ConnectFails, At, Inside
  <2> DEFINE c == [call[t] EXCEPT !.pc = "backoff", !.attempt = NextAttempt(t)]
  <2>2. c \in Call /\ c.pc \notin Waiting
    <3>1. NextAttempt(t) \in Nat
      BY <1>1 DEF Call, NextAttempt
    <3>2. QED
      BY <1>1, <3>1, NextCall DEF Waiting
  <2>3. Goto(t, Idle) \/ Goto(t, c)
    BY <1>7 DEF ConnectFails, Retry, FallBack, Return
  <2>4. connection' = Tail(connection)
    BY <1>7 DEF ConnectFails
  <2> HIDE DEF c
  <2>5. QED
    BY <1>2, <1>3, <2>1, <2>2, <2>3, <2>4
<1>8. CASE Reset(t)
  <2>1. /\ connection # <<>> /\ connection[1] = t
        /\ UNCHANGED <<connected, connecting>>
        /\ Connected(t)
    BY <1>8, InsideFacts DEF Reset, At, Inside
  <2>2. QED
    BY <1>3, <1>4, <2>1
<1>9. CASE Cancelled(t)
  <2>1. Goto(t, Idle) /\ connection' = Without(t) /\ connected' = connected
    BY <1>9 DEF Cancelled, Return
  <2>2. \/ connecting' = connecting
        \/ \A u \in Task : At(u, "connecting") => u = t
    BY <1>9, InsideFacts DEF Cancelled, At, Inside
  <2>3. QED
    BY <1>2, <2>1, <2>2, QueueCancelled, ConnectsStays
<1>10. QED
  BY <1>5, <1>6, <1>7, <1>8, <1>9

LEMMA ConnectionStarts ==
    ASSUME Init
    PROVE  ConnectionInv
<1>1. Idle \in Call /\ Idle.pc = "idle"
  BY DEF Idle, Call, Op
<1>2. /\ connection = <<>>
      /\ call = [t \in Task |-> Idle]
      /\ DOMAIN connection = {}
  BY DEF Init
<1>3. connection \in Seq(Task)
  BY <1>2, EmptySeq
<1>4. QED
  BY <1>1, <1>2, <1>3
  DEF ConnectionInv, Queue, Agree, Connects, At, Waiting, Inside

LEMMA ConnectionKept ==
    ASSUME ConnectionInv, [Next]_vars
    PROVE  ConnectionInv'
<1>1. Queue /\ Connects
  BY DEF ConnectionInv
<1>2. CASE UNCHANGED redisVars
  BY <1>1, <1>2 DEF redisVars, ConnectionInv, Queue, Connects, At
<1>3. CASE \E t \in Task : \/ Begin(t)
                           \/ BeginDirect(t)
                           \/ BeginClose(t)
                           \/ Resume(t)
                           \/ Cancelled(t)
  BY <1>1, <1>3, OutsideSteps, InsideSteps DEF Resume, ConnectionInv
<1>4. QED
  BY <1>2, <1>3 DEF Next, vars

\* At most one task connects, only while there is no connection, and at the
\* head of the lock's queue, for any tasks (RedisCache.connect).
THEOREM OneConnection == Spec => []SingleConnection
<1>1. ConnectionInv => SingleConnection
  BY QueueFacts, InsideFacts
  DEF ConnectionInv, Connects, SingleConnection, At, Inside
<1>2. QED
  BY <1>1, ConnectionStarts, ConnectionKept, PTL DEF Spec

(****************************************************************************)
(* The fallback cache.                                                      *)
(****************************************************************************)

\* Entries and expiry times that agree: keys apart, within the maximum, and
\* each entry's expiry time what its own set() was told.
Sound(d, e) ==
    /\ d \in Seq(Entry)
    /\ e \in [Key -> Nat]
    /\ Len(d) <= MaxSize
    /\ \A i, j \in 1..Len(d) : d[i].key = d[j].key => i = j
    /\ \A i \in 1..Len(d) :
          e[d[i].key] = IF d[i].ttl = 0 THEN Never ELSE d[i].since + d[i].ttl

MemoryInv ==
    /\ Sound(data, expiry)
    /\ now \in Nat \ {0}
    /\ cleaning \in BOOLEAN
    /\ late = FALSE

\* The entries of p are some of those of d, at the positions at, each once.
Part(p, d, at) ==
    /\ p \in Seq(Entry)
    /\ Len(p) <= Len(d)
    /\ at \in [1..Len(p) -> 1..Len(d)]
    /\ \A i, j \in 1..Len(p) : at[i] = at[j] => i = j
    /\ \A i \in 1..Len(p) : p[i] = d[at[i]]

\* Some of the entries of a sound cache are sound, in whatever order, with
\* expiry times that are what they were for them.
LEMMA PartSound ==
    ASSUME NEW d, NEW e, Sound(d, e), NEW p, NEW at, Part(p, d, at),
           NEW f \in [Key -> Nat],
           \A i \in 1..Len(p) : f[p[i].key] = e[p[i].key]
    PROVE  Sound(p, f)
<1> DEFINE n == Len(p)
           m == Len(d)
<1>1. /\ n \in Nat /\ m \in Nat /\ n <= m /\ m <= MaxSize
      /\ p \in Seq(Entry)
      /\ MaxSize \in Nat
  BY LenProperties, MemoryAssumption DEF Sound, Part
<1>2. \A i \in 1..n : at[i] \in 1..m /\ p[i] = d[at[i]]
  BY DEF Part
<1>3. \A i, j \in 1..n : p[i].key = p[j].key => i = j
  BY <1>2 DEF Sound, Part
<1>4. \A i \in 1..n :
         f[p[i].key] = IF p[i].ttl = 0 THEN Never ELSE p[i].since + p[i].ttl
  <2> SUFFICES ASSUME NEW i \in 1..n
               PROVE  f[p[i].key] = IF p[i].ttl = 0 THEN Never
                                    ELSE p[i].since + p[i].ttl
    OBVIOUS
  <2>1. /\ at[i] \in 1..m
        /\ p[i] = d[at[i]]
        /\ f[p[i].key] = e[p[i].key]
    BY <1>2
  <2>2. QED
    BY <2>1 DEF Sound
<1>5. n <= MaxSize
  BY <1>1
<1>6. QED
  BY <1>1, <1>3, <1>4, <1>5 DEF Sound

\* Positions, domain and keys of the entries, and where a key is found.
LEMMA DataFacts ==
    ASSUME Sound(data, expiry)
    PROVE  /\ Len(data) \in Nat
           /\ DOMAIN data = 1..Len(data)
           /\ \A i \in 1..Len(data) : data[i] \in Entry
           /\ \A i \in 1..Len(data) : data[i].key \in Keys(data)
           /\ \A k \in Keys(data) :
                 Find(data, k) \in 1..Len(data) /\ data[Find(data, k)].key = k
<1>1. /\ Len(data) \in Nat
      /\ DOMAIN data = 1..Len(data)
      /\ \A i \in 1..Len(data) : data[i] \in Entry
  BY LenProperties, ElementOfSeq DEF Sound
<1>2. QED
  BY <1>1 DEF Keys, Find

\* _evict_lru() leaves room for one entry.
LEMMA EvictedSound ==
    ASSUME Sound(data, expiry)
    PROVE  /\ Sound(Evicted, Kept(Keys(Evicted)))
           /\ Len(Evicted) < MaxSize
<1> DEFINE n == Len(data)
           p == Evicted
           f == Kept(Keys(p))
<1>1. /\ n \in Nat /\ n <= MaxSize
      /\ MaxSize \in Nat /\ MaxSize >= 1
      /\ data \in Seq(Entry)
      /\ \A i \in 1..n : data[i] \in Entry
  BY DataFacts, MemoryAssumption DEF Sound
<1>2. PICK at : Part(p, data, at) /\ Len(p) < MaxSize
  <2>1. CASE n >= MaxSize
    <3> DEFINE at == [i \in 1..(n - 1) |-> i + 1]
    <3>1. p = SubSeq(data, 2, n) /\ n = MaxSize
      <4>1. n - MaxSize + 2 = 2 /\ n = MaxSize
        BY <1>1, <2>1
      <4>2. QED
        BY <2>1, <4>1 DEF Evicted
    <3> HIDE DEF p, n
    <3>2. /\ p \in Seq(Entry)
          /\ Len(p) = n - 1
          /\ \A i \in 1..(n - 1) : p[i] = data[i + 1]
      <4>1. \A i \in 2..n : data[i] \in Entry
        BY <1>1
      <4>2. /\ SubSeq(data, 2, n) \in Seq(Entry)
            /\ Len(SubSeq(data, 2, n)) = IF 2 <= n THEN n - 2 + 1 ELSE 0
            /\ \A i \in 1..(n - 2 + 1) :
                  SubSeq(data, 2, n)[i] = data[2 + i - 1]
        BY <1>1, <4>1, SubSeqProperties
      <4>3. /\ (IF 2 <= n THEN n - 2 + 1 ELSE 0) = n - 1
            /\ n - 2 + 1 = n - 1
            /\ \A i \in 1..(n - 1) : 2 + i - 1 = i + 1
        BY <1>1, <3>1
      <4>4. QED
        BY <3>1, <4>2, <4>3
    <3>3. /\ at \in [1..(n - 1) -> 1..n]
          /\ \A i, j \in 1..(n - 1) : at[i] = at[j] => i = j
          /\ \A i \in 1..(n - 1) : p[i] = data[at[i]]
          /\ n - 1 <= n /\ n - 1 < MaxSize
      BY <1>1, <3>1, <3>2
    <3> HIDE DEF at
    <3>4. Part(p, data, at) /\ Len(p) < MaxSize
      BY <3>2, <3>3 DEF Part, n
    <3>5. QED
      BY <3>4
  <2>2. CASE ~(n >= MaxSize)
    <3> DEFINE at == [i \in 1..n |-> i]
    <3>1. p = data /\ n < MaxSize
      BY <1>1, <2>2 DEF Evicted
    <3> HIDE DEF p, n
    <3>2. /\ at \in [1..n -> 1..n]
          /\ \A i, j \in 1..n : at[i] = at[j] => i = j
          /\ \A i \in 1..n : p[i] = data[at[i]]
          /\ n <= n
      BY <1>1, <3>1
    <3> HIDE DEF at
    <3>3. Part(p, data, at) /\ Len(p) < MaxSize
      BY <1>1, <3>1, <3>2 DEF Part, n
    <3>4. QED
      BY <3>3
  <2>3. QED
    BY <2>1, <2>2
<1>3. /\ f \in [Key -> Nat]
      /\ \A i \in 1..Len(p) : f[p[i].key] = expiry[p[i].key]
  <2> HIDE DEF p
  <2>1. expiry \in [Key -> Nat] /\ Never \in Nat
    BY DEF Sound, Never
  <2>2. DOMAIN p = 1..Len(p) /\ \A i \in 1..Len(p) : p[i] \in Entry
    BY <1>2, LenProperties, ElementOfSeq DEF Part
  <2>3. \A i \in 1..Len(p) : p[i].key \in Keys(p) /\ p[i].key \in Key
    BY <2>2 DEF Keys, Entry
  <2>4. QED
    BY <2>1, <2>3 DEF Kept
<1> HIDE DEF p, f
<1>4. Sound(p, f)
  BY <1>2, <1>3, PartSound
<1>5. QED
  BY <1>2, <1>4 DEF p, f

\* A set() keeps entries and expiry times in agreement.
LEMMA MemorySetSound ==
    ASSUME MemoryInv, NEW k \in Key, NEW ttl \in Ttl, MemorySet(k, ttl)
    PROVE  MemoryInv'
<1> DEFINE p == Evicted
           f == Kept(Keys(p))
           n == Len(p)
           entry == [key |-> k, since |-> now, ttl |-> Effective(ttl)]
<1>1. /\ Effective(ttl) \in Nat
      /\ now \in Nat
      /\ MaxSize \in Nat
  BY MemoryAssumption DEF Effective, MemoryInv
<1>2. /\ entry \in Entry
      /\ entry.key = k
      /\ entry.since = now
      /\ entry.ttl = Effective(ttl)
  BY <1>1 DEF Entry
<1>3. Sound(p, f) /\ n < MaxSize
  BY EvictedSound DEF MemoryInv
<1>4. /\ data' = IF k \in Keys(p) THEN [p EXCEPT ![Find(p, k)] = entry]
                 ELSE Append(p, entry)
      /\ expiry' = [f EXCEPT ![k] = ExpiryOf(k, Effective(ttl))]
      /\ UNCHANGED <<now, cleaning, late>>
  BY DEF MemorySet
<1> HIDE DEF p, f, entry
<1>5. /\ n \in Nat
      /\ DOMAIN p = 1..n
      /\ p \in Seq(Entry)
      /\ \A i \in 1..n : p[i] \in Entry
      /\ \A i \in 1..n : p[i].key \in Key
  <2>1. /\ n \in Nat
        /\ DOMAIN p = 1..n
        /\ p \in Seq(Entry)
        /\ \A i \in 1..n : p[i] \in Entry
    BY <1>3, LenProperties, ElementOfSeq DEF Sound
  <2>2. QED
    BY <2>1 DEF Entry
<1>6. /\ expiry' \in [Key -> Nat]
      /\ expiry'[k] = IF entry.ttl = 0 THEN Never ELSE entry.since + entry.ttl
      /\ \A l \in Key : l # k => expiry'[l] = f[l]
  <2>1. ExpiryOf(k, Effective(ttl)) \in Nat
    BY <1>1 DEF ExpiryOf, Never
  <2>2. f \in [Key -> Nat]
    BY <1>3 DEF Sound
  <2>3. QED
    BY <1>1, <1>2, <1>4, <2>1, <2>2 DEF ExpiryOf
<1>7. CASE k \in Keys(p)
  <2> DEFINE i == Find(p, k)
  <2>1. i \in 1..n /\ p[i].key = k
    BY <1>5, <1>7 DEF Keys, Find
  <2> HIDE DEF i
  <2>2. /\ data' \in Seq(Entry)
        /\ Len(data') = n
        /\ \A j \in 1..n : data'[j] = IF j = i THEN entry ELSE p[j]
    BY <1>2, <1>4, <1>5, <1>7, <2>1, ExceptSeq DEF i
  <2>3. \A j \in 1..n : data'[j].key = p[j].key
    BY <1>2, <2>1, <2>2
  <2>4. \A j, l \in 1..n : p[j].key = p[l].key => j = l
    BY <1>3 DEF Sound
  <2>5. \A j \in 1..n :
           expiry'[data'[j].key] = IF data'[j].ttl = 0 THEN Never
                                   ELSE data'[j].since + data'[j].ttl
    <3> SUFFICES ASSUME NEW j \in 1..n
                 PROVE  expiry'[data'[j].key] =
                           IF data'[j].ttl = 0 THEN Never
                           ELSE data'[j].since + data'[j].ttl
      OBVIOUS
    <3>1. CASE j = i
      BY <1>2, <1>6, <2>2, <3>1
    <3>2. CASE j # i
      <4>1. p[j].key # k /\ data'[j] = p[j]
        BY <2>1, <2>2, <2>4, <3>2
      <4>2. expiry'[p[j].key] = f[p[j].key]
        BY <1>5, <1>6, <4>1
      <4>3. QED
        BY <1>3, <4>1, <4>2 DEF Sound
    <3>3. QED
      BY <3>1, <3>2
  <2>6. n <= MaxSize
    BY <1>1, <1>3, <1>5
  <2>7. Sound(data', expiry')
    BY <1>6, <2>2, <2>3, <2>4, <2>5, <2>6 DEF Sound
  <2>8. QED
    BY <1>4, <2>7 DEF MemoryInv
<1>8. CASE k \notin Keys(p)
  <2>1. /\ data' \in Seq(Entry)
        /\ Len(data') = n + 1
        /\ \A j \in 1..n : data'[j] = p[j]
        /\ data'[n + 1] = entry
    BY <1>2, <1>4, <1>5, <1>8, AppendProperties
  <2>2. \A j \in 1..n : p[j].key # k
    BY <1>5, <1>8 DEF Keys
  <2>3. \A j, l \in 1..(n + 1) : data'[j].key = data'[l].key => j = l
    <3>1. \A j, l \in 1..n : p[j].key = p[l].key => j = l
      BY <1>3 DEF Sound
    <3>2. QED
      BY <1>2, <1>5, <2>1, <2>2, <3>1
  <2>4. \A j \in 1..(n + 1) :
           expiry'[data'[j].key] = IF data'[j].ttl = 0 THEN Never
                                   ELSE data'[j].since + data'[j].ttl
    <3> SUFFICES ASSUME NEW j \in 1..(n + 1)
                 PROVE  expiry'[data'[j].key] =
                           IF data'[j].ttl = 0 THEN Never
                           ELSE data'[j].since + data'[j].ttl
      OBVIOUS
    <3>1. CASE j = n + 1
      BY <1>2, <1>6, <2>1, <3>1
    <3>2. CASE j # n + 1
      <4>1. j \in 1..n
        BY <1>5, <3>2
      <4>2. p[j].key # k /\ data'[j] = p[j]
        BY <2>1, <2>2, <4>1
      <4>3. expiry'[p[j].key] = f[p[j].key]
        BY <1>5, <1>6, <4>1, <4>2
      <4>4. QED
        BY <1>3, <4>1, <4>2, <4>3 DEF Sound
    <3>3. QED
      BY <3>1, <3>2
  <2>5. n + 1 <= MaxSize
    BY <1>1, <1>3, <1>5
  <2>6. Sound(data', expiry')
    BY <1>6, <2>1, <2>3, <2>4, <2>5 DEF Sound
  <2>7. QED
    BY <1>4, <2>6 DEF MemoryInv
<1>9. QED
  BY <1>7, <1>8

\* Whatever else a step may do, what it leaves of a sound cache is sound.
LEMMA PartLeft ==
    ASSUME MemoryInv, NEW at, Part(data', data, at),
           expiry' \in [Key -> Nat],
           \A i \in 1..Len(data') : expiry'[data'[i].key] = expiry[data'[i].key],
           UNCHANGED <<now, cleaning>>, late' = FALSE
    PROVE  MemoryInv'
<1>1. Sound(data', expiry')
  BY PartSound DEF MemoryInv
<1>2. QED
  BY <1>1 DEF MemoryInv

\* The entry of a key leaves with its expiry time.
LEMMA RemovedSound ==
    ASSUME MemoryInv, NEW k \in Key, k \in Keys(data), Removed(k),
           UNCHANGED <<now, cleaning, late>>
    PROVE  MemoryInv'
<1> DEFINE n == Len(data)
           i == Find(data, k)
           at == [j \in 1..(n - 1) |-> IF j < i THEN j ELSE j + 1]
<1>1. /\ n \in Nat
      /\ i \in 1..n /\ data[i].key = k
      /\ data \in Seq(Entry) /\ expiry \in [Key -> Nat]
      /\ \A j, l \in 1..n : data[j].key = data[l].key => j = l
      /\ \A j \in 1..n : data[j].key \in Key
  <2>1. /\ n \in Nat
        /\ i \in 1..n /\ data[i].key = k
        /\ \A j \in 1..n : data[j] \in Entry
    BY DataFacts DEF MemoryInv
  <2>2. \A j \in 1..n : data[j].key \in Key
    BY <2>1 DEF Entry
  <2>3. QED
    BY <2>1, <2>2 DEF MemoryInv, Sound
<1>2. /\ data' = RemoveAt(data, i)
      /\ expiry' = [expiry EXCEPT ![k] = Never]
  BY DEF Removed
<1> HIDE DEF i
<1>3. /\ data' \in Seq(Entry)
      /\ Len(data') = n - 1
      /\ \A j \in 1..(n - 1) : data'[j] = data[IF j < i THEN j ELSE j + 1]
  BY <1>1, <1>2, RemoveAtFacts
<1> HIDE DEF n
<1>4. /\ n - 1 <= n
      /\ at \in [1..(n - 1) -> 1..n]
      /\ \A j \in 1..(n - 1) : at[j] # i
      /\ \A j, l \in 1..(n - 1) : at[j] = at[l] => j = l
  BY <1>1
<1>5. \A j \in 1..(n - 1) : data'[j] = data[at[j]]
  BY <1>3
<1> HIDE DEF at
<1>6. Part(data', data, at)
  BY <1>3, <1>4, <1>5 DEF Part, n
<1>7. /\ expiry' \in [Key -> Nat]
      /\ \A j \in 1..(n - 1) : expiry'[data'[j].key] = expiry[data'[j].key]
  <2>1. \A j \in 1..(n - 1) : data'[j].key # k /\ data'[j].key \in Key
    <3>1. \A j \in 1..(n - 1) : at[j] \in 1..n
      BY <1>4
    <3>2. QED
      BY <1>1, <1>4, <1>5, <3>1
  <2>2. QED
    BY <1>1, <1>2, <2>1 DEF Never
<1>8. late' = FALSE
  BY DEF MemoryInv
<1>9. QED
  BY <1>3, <1>6, <1>7, <1>8, PartLeft

\* A hit moves its entry, and hands it out in time.
LEMMA HitSound ==
    ASSUME MemoryInv, NEW k \in Key, Hit(k)
    PROVE  MemoryInv'
<1> DEFINE n == Len(data)
           i == Find(data, k)
           at == [j \in 1..n |-> IF j < i THEN j
                                 ELSE IF j < n THEN j + 1 ELSE i]
<1>1. /\ n \in Nat
      /\ i \in 1..n /\ data[i].key = k
      /\ data[i] \in Entry
      /\ data \in Seq(Entry) /\ expiry \in [Key -> Nat]
      /\ expiry[k] = IF data[i].ttl = 0 THEN Never
                     ELSE data[i].since + data[i].ttl
  <2>1. /\ n \in Nat
        /\ i \in 1..n /\ data[i].key = k
        /\ data[i] \in Entry
    BY DataFacts DEF MemoryInv, Hit
  <2>2. QED
    BY <2>1 DEF MemoryInv, Sound
<1>2. /\ data' = Append(RemoveAt(data, i), data[i])
      /\ late' = (late \/ (data[i].ttl # 0
                             /\ now > data[i].since + data[i].ttl))
      /\ UNCHANGED <<expiry, now, cleaning>>
      /\ ~(expiry[k] # Never /\ now > expiry[k])
  BY DEF Hit, Expired
<1> HIDE DEF i
<1>3. ~(data[i].ttl # 0 /\ now > data[i].since + data[i].ttl)
  <2>1. data[i].ttl \in Nat /\ data[i].since \in Nat
    BY <1>1 DEF Entry
  <2>2. QED
    BY <1>1, <1>2, <2>1 DEF Never
<1>4. late' = FALSE
  BY <1>2, <1>3, Zenon DEF MemoryInv
<1>5. /\ RemoveAt(data, i) \in Seq(Entry)
      /\ Len(RemoveAt(data, i)) = n - 1
      /\ \A j \in 1..(n - 1) :
            RemoveAt(data, i)[j] = data[IF j < i THEN j ELSE j + 1]
  BY <1>1, RemoveAtFacts
<1> HIDE DEF n
<1>6. /\ data' \in Seq(Entry)
      /\ Len(data') = n
      /\ \A j \in 1..(n - 1) : data'[j] = data[IF j < i THEN j ELSE j + 1]
      /\ data'[n] = data[i]
  <2>1. (n - 1) + 1 = n
    BY <1>1
  <2>2. QED
    BY <1>1, <1>2, <1>5, <2>1, AppendProperties
<1>7. /\ at \in [1..n -> 1..n]
      /\ \A j, l \in 1..n : at[j] = at[l] => j = l
  BY <1>1
<1>8. \A j \in 1..n : data'[j] = data[at[j]]
  <2> SUFFICES ASSUME NEW j \in 1..n
               PROVE  data'[j] = data[at[j]]
    OBVIOUS
  <2>1. CASE j = n
    BY <1>1, <1>6, <2>1
  <2>2. CASE j # n
    BY <1>1, <1>6, <2>2
  <2>3. QED
    BY <2>1, <2>2
<1> HIDE DEF at
<1>9. n <= n
  BY <1>1
<1>10. Part(data', data, at)
  BY <1>6, <1>7, <1>8, <1>9 DEF Part, n
<1>11. QED
  BY <1>1, <1>2, <1>4, <1>10, PartLeft

\* What the cleanup task drops, it drops from both dictionaries.
LEMMA RemoveExpiredSound ==
    ASSUME MemoryInv, RemoveExpired
    PROVE  MemoryInv'
<1> DEFINE n == Len(data)
           old == {k \in Key : expiry[k] # Never /\ expiry[k] <= now}
           left == {i \in DOMAIN data : data[i].key \notin old}
           m == Cardinality(left)
<1>1. /\ n \in Nat
      /\ DOMAIN data = 1..n
      /\ data \in Seq(Entry) /\ expiry \in [Key -> Nat]
      /\ \A i \in 1..n : data[i] \in Entry
      /\ \A i \in 1..n : data[i].key \in Key
  <2>1. /\ n \in Nat
        /\ DOMAIN data = 1..n
        /\ \A i \in 1..n : data[i] \in Entry
    BY DataFacts DEF MemoryInv
  <2>2. QED
    BY <2>1 DEF MemoryInv, Sound, Entry
<1>2. PICK at \in InOrder(left) : data' = [i \in 1..m |-> data[at[i]]]
  BY DEF RemoveExpired
<1>3. expiry' = Kept(Key \ old) /\ UNCHANGED <<now, cleaning, late>>
  BY DEF RemoveExpired
<1>4. left \subseteq 1..n /\ \A i \in left : data[i].key \in Key \ old
  BY <1>1
<1> HIDE DEF n, old, left
<1>5. m \in Nat /\ m <= n
  <2>1. IsFiniteSet(1..n) /\ Cardinality(1..n) = n
    <3>1. 1 \in Int /\ n \in Int
      BY <1>1
    <3>2. /\ IsFiniteSet(1..n)
          /\ Cardinality(1..n) = IF 1 > n THEN 0 ELSE n - 1 + 1
      BY <3>1, FS_Interval
    <3>3. QED
      BY <1>1, <3>2
  <2>2. Cardinality(left) <= Cardinality(1..n) /\ IsFiniteSet(left)
    BY <1>4, <2>1, FS_Subset
  <2>3. QED
    BY <2>1, <2>2, FS_CardinalityType
<1> HIDE DEF m
<1>6. /\ at \in [1..m -> left]
      /\ \A i, j \in 1..m : i < j => at[i] < at[j]
  BY DEF InOrder, m
<1>7. \A i \in 1..m : at[i] \in left /\ at[i] \in 1..n
  BY <1>4, <1>6
<1>8. /\ at \in [1..m -> 1..n]
      /\ \A i, j \in 1..m : at[i] = at[j] => i = j
  <2>1. at \in [1..m -> 1..n]
    BY <1>4, <1>6
  <2>2. \A i, j \in 1..m : at[i] = at[j] => i = j
    BY <1>1, <1>5, <1>6, <1>7
  <2>3. QED
    BY <2>1, <2>2
<1>9. /\ data' \in Seq(Entry)
      /\ Len(data') = m
      /\ \A i \in 1..m : data'[i] = data[at[i]]
  <2>1. data' \in [1..m -> Entry]
    BY <1>1, <1>2, <1>7
  <2>2. data' \in Seq(Entry)
    BY <1>5, <2>1, SeqDef
  <2>3. Len(data') = m
    BY <1>5, <2>1, <2>2, LenProperties
  <2>4. QED
    BY <1>2, <2>2, <2>3
<1>10. /\ expiry' \in [Key -> Nat]
       /\ \A i \in 1..m : expiry'[data'[i].key] = expiry[data'[i].key]
  BY <1>1, <1>3, <1>4, <1>7, <1>9 DEF Kept, Never
<1>11. late' = FALSE
  BY <1>3 DEF MemoryInv
<1>12. Part(data', data, at)
  BY <1>5, <1>8, <1>9 DEF Part, n
<1>13. QED
  BY <1>3, <1>9, <1>10, <1>11, <1>12, PartLeft

\* Every call of the cache, its cleanup task and the clock.
LEMMA MemorySteps ==
    ASSUME MemoryInv, [MemoryNext]_memoryVars
    PROVE  MemoryInv'
<1>1. CASE UNCHANGED memoryVars
  BY <1>1 DEF memoryVars, MemoryInv
<1>2. ASSUME NEW k \in Key, MemoryGet(k)
      PROVE  MemoryInv'
  <2>1. CASE Miss(k)
    BY <1>1, <2>1 DEF Miss
  <2>2. CASE GetExpired(k)
    BY <2>2, RemovedSound DEF GetExpired
  <2>3. CASE Hit(k)
    BY <2>3, HitSound
  <2>4. QED
    BY <1>2, <2>1, <2>2, <2>3 DEF MemoryGet
<1>3. ASSUME NEW k \in Key, MemoryDelete(k)
      PROVE  MemoryInv'
  <2>1. CASE k \in Keys(data)
    BY <1>3, <2>1, RemovedSound DEF MemoryDelete
  <2>2. CASE k \notin Keys(data)
    BY <1>1, <1>3, <2>2 DEF MemoryDelete, memoryVars
  <2>3. QED
    BY <2>1, <2>2
<1>4. CASE MemoryClear
  <2>1. data' \in Seq(Entry) /\ Len(data') = 0
    BY <1>4, EmptySeq DEF MemoryClear
  <2>2. /\ expiry' \in [Key -> Nat]
        /\ UNCHANGED <<now, cleaning, late>>
    BY <1>4 DEF MemoryClear, Never
  <2>3. Sound(data', expiry')
    BY <2>1, <2>2, MemoryAssumption DEF Sound
  <2>4. QED
    BY <2>2, <2>3 DEF MemoryInv
<1>5. CASE MemoryClose
  BY <1>5 DEF MemoryClose, MemoryInv
<1>6. CASE Tick
  BY <1>6 DEF Tick, MemoryInv
<1>7. QED
  BY <1>1, <1>2, <1>3, <1>4, <1>5, <1>6, MemorySetSound, RemoveExpiredSound
  DEF MemoryNext

LEMMA MemoryStarts ==
    ASSUME MemoryInit
    PROVE  MemoryInv
<1>1. /\ data \in Seq(Entry) /\ Len(data) = 0
      /\ expiry \in [Key -> Nat]
  BY EmptySeq DEF MemoryInit, Never
<1>2. Sound(data, expiry)
  BY <1>1, MemoryAssumption DEF Sound
<1>3. QED
  BY <1>2 DEF MemoryInit, MemoryInv

LEMMA MemoryInvMeans ==
    ASSUME MemoryInv
    PROVE  MemoryTypeOK /\ WithinMaxSize /\ NeverLate
<1>1. MemoryTypeOK
  <2>1. late \in BOOLEAN
    BY DEF MemoryInv
  <2>2. QED
    BY <2>1 DEF MemoryInv, Sound, MemoryTypeOK
<1>2. WithinMaxSize
  BY DataFacts DEF MemoryInv, Sound, WithinMaxSize
<1>3. NeverLate
  BY DEF MemoryInv, NeverLate
<1>4. QED
  BY <1>1, <1>2, <1>3

\* A MemoryCache by itself stays within its size, keeps its keys apart and
\* hands out nothing after its time, for any keys, sizes and times to live.
THEOREM MemoryCacheCorrect ==
    MemorySpec => [](MemoryTypeOK /\ WithinMaxSize /\ NeverLate)
<1>1. MemoryInit => MemoryInv
  BY MemoryStarts
<1>2. MemoryInv /\ [MemoryNext]_memoryVars => MemoryInv'
  BY MemorySteps
<1>3. MemoryInv => MemoryTypeOK /\ WithinMaxSize /\ NeverLate
  BY MemoryInvMeans
<1>4. QED
  BY <1>1, <1>2, <1>3, PTL DEF MemorySpec

(****************************************************************************)
(* The cache and its fallback.                                              *)
(****************************************************************************)

\* What a step of RedisCache does to the fallback is one of its own steps.
LEMMA FallbackSteps ==
    ASSUME [Next]_vars
    PROVE  [MemoryNext]_memoryVars
<1>1. ASSUME NEW t \in Task, NEW op, FallBack(t, op)
      PROVE  MemoryNext
  BY <1>1 DEF FallBack, MemoryNext
<1>2. ASSUME NEW t \in Task, Retry(t)
      PROVE  [MemoryNext]_memoryVars
  BY <1>1, <1>2 DEF Retry
<1>3. CASE UNCHANGED vars
  BY <1>3 DEF vars
<1>4. ASSUME NEW t \in Task, Begin(t)
      PROVE  [MemoryNext]_memoryVars
  BY <1>1, <1>4 DEF Begin
<1>5. ASSUME NEW t \in Task, ConnectFails(t)
      PROVE  [MemoryNext]_memoryVars
  BY <1>2, <1>5 DEF ConnectFails
<1>6. ASSUME NEW t \in Task, CommandFails(t)
      PROVE  [MemoryNext]_memoryVars
  BY <1>2, <1>6 DEF CommandFails
<1>7. ASSUME NEW t \in Task, CloseReturns(t)
      PROVE  [MemoryNext]_memoryVars
  BY <1>7 DEF CloseReturns, MemoryNext
<1>8. ASSUME NEW t \in Task,
             \/ BeginDirect(t)
             \/ BeginClose(t)
             \/ Enter(t)
             \/ ConnectReturns(t)
             \/ Reset(t)
             \/ Again(t)
             \/ CommandEnds(t)
             \/ CommandSucceeds(t)
             \/ CloseFails(t)
             \/ Cancelled(t)
      PROVE  UNCHANGED memoryVars
  BY <1>8 DEF BeginDirect, BeginClose, Enter, ConnectReturns, Reset, Again,
              CommandEnds, CommandSucceeds, CloseFails, Cancelled
<1>9. CASE RemoveExpired \/ Tick
  BY <1>9 DEF MemoryNext
<1>10. QED
  BY <1>3, <1>4, <1>5, <1>6, <1>7, <1>8, <1>9 DEF Next, Resume

\* The flags and the breaker's lock.
FlagsOK ==
    /\ connected \in BOOLEAN
    /\ connecting \in BOOLEAN
    /\ circuit \in Task \cup {Free}

LEMMA FlagSteps ==
    ASSUME FlagsOK, [Next]_vars
    PROVE  FlagsOK'
<1>1. connected' = connected \/ connected' = TRUE \/ connected' = FALSE
  BY DEF Next, Resume, vars, redisVars, Begin, BeginDirect, BeginClose, Enter,
         ConnectReturns, ConnectFails, Reset, Again, CommandEnds,
         CommandSucceeds, CommandFails, CloseReturns, CloseFails, Cancelled
<1>2. connecting' = connecting \/ connecting' = TRUE \/ connecting' = FALSE
  BY DEF Next, Resume, vars, redisVars, Begin, BeginDirect, BeginClose, Enter,
         ConnectReturns, ConnectFails, Reset, Again, CommandEnds,
         CommandSucceeds, CommandFails, CloseReturns, CloseFails, Cancelled,
         Ensure, Found, Attempt
<1>3. circuit' = circuit \/ circuit' \in Task \/ circuit' = Free
  BY DEF Next, Resume, vars, redisVars, Begin, BeginDirect, BeginClose, Enter,
         ConnectReturns, ConnectFails, Reset, Again, CommandEnds,
         CommandSucceeds, CommandFails, CloseReturns, CloseFails, Cancelled
<1>4. QED
  BY <1>1, <1>2, <1>3 DEF FlagsOK

FallbackInv == MemoryInv /\ FlagsOK /\ BreakerInv /\ ConnectionInv

\* The fallback that several tasks fill at once, while the cache connects,
\* fails, opens its breaker and is closed, stays within its size, keeps its
\* keys apart and hands out nothing after its time; every variable keeps its
\* type.  For any tasks, keys, sizes and times to live (RedisCache._fallback_get
\* and _fallback_set, MemoryCache).
THEOREM FallbackStaysCorrect == Spec => []FallbackCorrect
<1>1. Init => FallbackInv
  <2> SUFFICES ASSUME Init
               PROVE  FallbackInv
    OBVIOUS
  <2>1. MemoryInv /\ BreakerInv /\ ConnectionInv
    BY MemoryStarts, BreakerStarts, ConnectionStarts DEF Init
  <2>2. FlagsOK
    BY DEF Init, FlagsOK
  <2>3. QED
    BY <2>1, <2>2 DEF FallbackInv
<1>2. FallbackInv /\ [Next]_vars => FallbackInv'
  BY MemorySteps, FallbackSteps, FlagSteps, BreakerKept, ConnectionKept
  DEF FallbackInv
<1>3. FallbackInv => FallbackCorrect
  <2> SUFFICES ASSUME FallbackInv
               PROVE  FallbackCorrect
    OBVIOUS
  <2>1. MemoryTypeOK /\ WithinMaxSize /\ NeverLate
    BY MemoryInvMeans DEF FallbackInv
  <2>2. TypeOK
    BY <2>1 DEF FallbackInv, FlagsOK, BreakerInv, ConnectionInv, Queue, TypeOK
  <2>3. QED
    BY <2>1, <2>2 DEF FallbackCorrect
<1>4. QED
  BY <1>1, <1>2, <1>3, PTL DEF Spec

================================================================================
