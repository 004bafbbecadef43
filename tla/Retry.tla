--------------------------------- MODULE Retry ---------------------------------
(****************************************************************************)
(* The retry package of zenoo_rpc: the loop of the decorators, the decision *)
(* of a policy, the strategies' delays, and what a policy shares among the  *)
(* calls of all tasks: the window of AdaptiveStrategy, the last delay of    *)
(* DecorrelatedJitterStrategy and the breaker of CircuitBreakerRetryPolicy. *)
(* A delay is a whole number of time units; exceptions are classes.         *)
(****************************************************************************)
EXTENDS Tasks, FiniteSets

CONSTANTS
    Policies,           \* the policies in use, one of which is chosen
    PolicyTimeout,      \* timeout of the package's policies
    BaseDelay,          \* base_delay
    MaxDelay,           \* max_delay
    Window,             \* adaptation_window
    MinSamples,         \* min_samples
    RetryThreshold,     \* failure_threshold of the breaker policy
    RecoveryTimeout,    \* recovery_timeout
    MaxCounted,         \* bound: failures the breaker policy counts
    RetryHorizon        \* bound: the time at which the clock stops

ASSUME RetryAssumption ==
    /\ {PolicyTimeout, BaseDelay, MaxDelay, RecoveryTimeout, MaxCounted,
         RetryHorizon} \subseteq Nat
    /\ {Window, MinSamples, RetryThreshold} \subseteq Nat \ {0}

\* OSError with ConnectionError and TimeoutError; httpx.TransportError;
\* psycopg2's errors; httpx.HTTPStatusError; ValueError, KeyError and such.
Exceptions == {"os", "transport", "database", "status", "value"}

\* timeout is 0 for None; an empty set of retryable classes stands for all;
\* retry_condition and idempotency_check refuse classes as non_retryable does.
Policy ==
    [strategy : {"exponential", "linear", "fixed", "fibonacci", "adaptive",
                 "decorrelated"},
     jitter : {"none", "full", "equal", "decorrelated", "legacy"},
     max_attempts : Nat \ {0}, backoff : Nat \ {0}, timeout : Nat,
     guarded : BOOLEAN, retryable : SUBSET Exceptions,
     non_retryable : SUBSET Exceptions]

ASSUME PoliciesAssumption == Policies \subseteq Policy

(****************************************************************************)
(* The package's policies.  They differ in max_attempts and in the classes  *)
(* they retry; their timeouts of 5 to 300 seconds are one constant.         *)
(****************************************************************************)

Exponential(n, classes) ==
    [strategy |-> "exponential", jitter |-> "full", max_attempts |-> n,
     backoff |-> 1, timeout |-> PolicyTimeout, guarded |-> FALSE,
     retryable |-> classes, non_retryable |-> {}]

DefaultRetryPolicy ==
    [Exponential(3, {"os"}) EXCEPT !.non_retryable = {"value"}]

\* Its retry_condition, about statuses, is never asked about a status: the
\* class is not among those it retries.
NetworkRetryPolicy == Exponential(5, {"os", "transport"})

DatabaseRetryPolicy == Exponential(3, {"os", "database"})

QuickRetryPolicy == [Exponential(2, {}) EXCEPT !.jitter = "none"]

AggressiveRetryPolicy == Exponential(10, {"os"})

CircuitBreakerRetryPolicy == [Exponential(3, {}) EXCEPT !.guarded = TRUE]

\* Without a generator of keys every operation may be retried.
IdempotentRetryPolicy == Exponential(5, {})

\* The decorators never call on_failure(), and so not its fallback.
GracefulDegradationRetryPolicy == Exponential(3, {})

VARIABLES
    policy,     \* the policy of the decorated function
    window,     \* _attempts_history of the adaptive strategy
    counted,    \* its _total_attempts and _successful_attempts
    previous,   \* _previous_delay of the decorrelated strategy
    fuse,       \* the breaker policy's state, failures, time of the last one
    retrying    \* the calls of the decorated function

retryVars == <<policy, window, counted, previous, fuse, retrying>>

\* A call is idle, awaits the function, or sleeps until a time; begun, tries
\* and attempt are of the call; ended is how the last one ended.
Retrying ==
    [pc : {"idle", "running", "sleeping"}, begun : Nat, attempt : Nat,
     until : Nat, ended : {"none", "returned", "timeout", "max_retries"}]

Fuse == [state : {"closed", "open", "half_open"}, failures : Nat, last : Nat]

\* The strategies and the breaker policy when they are made.
NoAttempts == [total |-> 0, successful |-> 0]

ClosedFuse == [state |-> "closed", failures |-> 0, last |-> 0]

RetryInit ==
    /\ policy \in Policies
    /\ window = <<>>
    /\ counted = NoAttempts
    /\ previous = BaseDelay
    /\ fuse = ClosedFuse
    /\ retrying = [t \in Task |-> [pc |-> "idle", begun |-> 0, attempt |-> 0,
                                   until |-> 0, ended |-> "none"]]

Least(a, b) == IF a < b THEN a ELSE b

Most(a, b) == IF a < b THEN b ELSE a

(****************************************************************************)
(* Strategies.                                                              *)
(****************************************************************************)

fibonacci[n \in Nat] ==
    IF n <= 1 THEN n ELSE fibonacci[n - 1] + fibonacci[n - 2]

\* b ** n, as a function that proofs can reason about.
power[n \in Nat] ==
    [b \in Nat \ {0} |-> IF n = 0 THEN 1 ELSE b * power[n - 1][b]]

\* Few samples, a rate below 0.8, above 0.95, or between them.
AdaptiveDelay(n, counts) ==
    LET few == counts.total < MinSamples
        poor == counts.successful * 10 < counts.total * 8
        excellent == counts.successful * 100 > counts.total * 95
    IN  IF few THEN BaseDelay * power[n - 1][2]
        ELSE IF poor THEN BaseDelay * power[n - 1][3]
        ELSE IF excellent THEN (BaseDelay * (n + 1)) \div 2
        ELSE (BaseDelay * power[n - 1][3]) \div power[n - 1][2]

\* The first delay is the base; the cap is the maximal delay.
DecorrelatedDelays(n) ==
    LET most == Least(previous * 3, MaxDelay)
    IN  IF n = 1 THEN {BaseDelay}
        ELSE Least(BaseDelay, most) .. Most(BaseDelay, most)

\* The delays calculate_delay(n) may return.
Calculated(n, counts) ==
    CASE policy.strategy = "exponential" ->
            {Least(BaseDelay * power[n - 1][2], MaxDelay)}
      [] policy.strategy = "linear" -> {BaseDelay + BaseDelay * (n - 1)}
      [] policy.strategy = "fixed" -> {BaseDelay}
      [] policy.strategy = "fibonacci" -> {BaseDelay * fibonacci[n]}
      [] policy.strategy = "adaptive" -> {AdaptiveDelay(n, counts)}
      [] policy.strategy = "decorrelated" -> DecorrelatedDelays(n)

\* random.uniform() over the interval of the kind of jitter.
Jittered(delay) ==
    CASE policy.jitter = "none" -> {delay}
      [] policy.jitter = "full" -> 0 .. delay
      [] policy.jitter = "equal" -> (delay - delay \div 2) .. delay
      [] policy.jitter = "decorrelated" -> (delay \div 3) .. delay
      [] policy.jitter = "legacy" ->
            (delay - delay \div 4) .. (delay + delay \div 4)

\* get_delay() of strategy and policy: the cap comes before the jitter, the
\* policy's multiplier after both.
RetryDelays(n, base) ==
    {d * power[n - 1][policy.backoff] : d \in Jittered(Least(base, MaxDelay))}

\* Mutants of the definitions that follow them are named after the slip.
RecordKeepingSuccesses(success) ==
    LET recorded == Append(window, success)
        full == Len(recorded) > Window
    IN  IF policy.strategy = "adaptive"
        THEN /\ window' = IF full THEN Tail(recorded) ELSE recorded
             /\ counted' = [total |-> Least(counted.total + 1, Window),
                            successful |-> counted.successful
                                            + IF success THEN 1 ELSE 0]
        ELSE UNCHANGED <<window, counted>>

\* The adaptive strategy records an attempt; the others cannot.
RecordAttempt(success) ==
    LET recorded == Append(window, success)
        full == Len(recorded) > Window
        one(b) == IF b THEN 1 ELSE 0
    IN  IF policy.strategy = "adaptive"
        THEN /\ window' = IF full THEN Tail(recorded) ELSE recorded
             /\ counted' =
                  [total |-> counted.total + 1 - one(full),
                   successful |-> counted.successful + one(success)
                                    - one(full /\ Head(recorded))]
        ELSE UNCHANGED <<window, counted>>

(****************************************************************************)
(* Policies.                                                                *)
(****************************************************************************)

\* _circuit_breaker_check(): an open breaker may become half open.
FuseChecked ==
    IF fuse.state = "open" /\ now - fuse.last >= RecoveryTimeout
    THEN [fuse EXCEPT !.state = "half_open"] ELSE fuse

\* _half_open_calls is never raised, as a failure that would raise it has
\* opened the breaker before: half open it lets every call pass.
FuseRefuses == policy.guarded /\ FuseChecked.state = "open"

WithinAttemptsInclusive(n) == n <= policy.max_attempts

\* RetryStrategy.should_retry().
WithinAttempts(n) == n < policy.max_attempts

\* should_retry() gives the decision a new context, whose delays add up to
\* nothing, and so never reaches max_total_delay.
ShouldRetry(t, e) ==
    LET call == retrying[t]
    IN  /\ ~FuseRefuses
        /\ policy.timeout = 0 \/ now - call.begun < policy.timeout
        /\ WithinAttempts(call.attempt)
        /\ e \notin policy.non_retryable
        /\ policy.retryable = {} \/ e \in policy.retryable

\* on_success() and on_failure() of the breaker policy, which a program that
\* uses the policy itself calls; the decorators do not.
PolicySuccess ==
    /\ policy.guarded
    /\ fuse' = IF fuse.state = "half_open"
               THEN [fuse EXCEPT !.state = "closed", !.failures = 0]
               ELSE IF fuse.state = "closed"
               THEN [fuse EXCEPT !.failures = Most(@, 1) - 1]
               ELSE fuse
    /\ UNCHANGED <<now, policy, window, counted, previous, retrying>>

Tripped ==
    [fuse EXCEPT !.failures = @ + 1, !.last = now,
                 !.state = IF \/ @ = "half_open"
                              \/ fuse.failures + 1 >= RetryThreshold
                           THEN "open" ELSE @]

PolicyFailure ==
    /\ policy.guarded
    /\ fuse.failures < MaxCounted
    /\ fuse' = Tripped
    /\ UNCHANGED <<now, policy, window, counted, previous, retrying>>

(****************************************************************************)
(* The loop of the decorators.                                              *)
(****************************************************************************)

RetryBegin(t) ==
    /\ retrying[t].pc = "idle"
    /\ retrying' = [retrying EXCEPT ![t] =
           [pc |-> "running", begun |-> now, attempt |-> 1, until |-> 0,
            ended |-> "none"]]
    /\ UNCHANGED <<now, policy, window, counted, previous, fuse>>

RetryReturns(t) ==
    /\ retrying[t].pc = "running"
    /\ RecordAttempt(TRUE)
    /\ retrying' = [retrying EXCEPT ![t].pc = "idle", ![t].ended = "returned"]
    /\ UNCHANGED <<now, policy, previous, fuse>>

\* The call sleeps, or tries again without a pause.
Retries(t, e) ==
    LET call == retrying[t]
    IN  /\ ShouldRetry(t, e)
        /\ \E base \in Calculated(call.attempt, counted') :
              /\ previous' = IF policy.strategy = "decorrelated"
                             THEN base ELSE previous
              /\ \E d \in RetryDelays(call.attempt, base) :
                    retrying' = [retrying EXCEPT ![t] =
                        IF d > 0
                        THEN [call EXCEPT !.pc = "sleeping", !.until = now + d]
                        ELSE [call EXCEPT !.attempt = @ + 1]]

\* The call raises RetryTimeoutError or MaxRetriesExceededError.
GivesUp(t, e) ==
    LET call == retrying[t]
        late == policy.timeout # 0 /\ now - call.begun >= policy.timeout
    IN  /\ ~ShouldRetry(t, e)
        /\ retrying' = [retrying EXCEPT ![t] =
               [call EXCEPT !.pc = "idle",
                            !.ended = IF late THEN "timeout" ELSE "max_retries"]]
        /\ UNCHANGED previous

\* The function raised e.
RetryRaises(t, e) ==
    /\ retrying[t].pc = "running"
    /\ RecordAttempt(FALSE)
    /\ fuse' = IF policy.guarded THEN FuseChecked ELSE fuse
    /\ Retries(t, e) \/ GivesUp(t, e)
    /\ UNCHANGED <<now, policy>>

RetryWakes(t) ==
    /\ retrying[t].pc = "sleeping"
    /\ now >= retrying[t].until
    /\ retrying' = [retrying EXCEPT ![t].pc = "running", ![t].attempt = @ + 1,
                                    ![t].until = 0]
    /\ UNCHANGED <<now, policy, window, counted, previous, fuse>>

\* reset_statistics() of the adaptive strategy.
ResetStatistics ==
    /\ policy.strategy = "adaptive"
    /\ window' = <<>>
    /\ counted' = NoAttempts
    /\ UNCHANGED <<now, policy, previous, fuse, retrying>>

\* CancelledError is no Exception: it passes the loop.
RetryCancelled(t) ==
    /\ retrying[t].pc # "idle"
    /\ retrying' = [retrying EXCEPT ![t].pc = "idle", ![t].until = 0]
    /\ UNCHANGED <<now, policy, window, counted, previous, fuse>>

RetryNext ==
    \/ \E t \in Task :
          \/ RetryBegin(t)
          \/ RetryReturns(t)
          \/ \E e \in Exceptions : RetryRaises(t, e)
          \/ RetryWakes(t)
          \/ RetryCancelled(t)
    \/ PolicySuccess
    \/ PolicyFailure
    \/ ResetStatistics
    \/ Later(RetryHorizon) /\ UNCHANGED retryVars

RetrySpec == now = 0 /\ RetryInit /\ [][RetryNext]_<<now, retryVars>>

(****************************************************************************)
(* Properties.                                                              *)
(****************************************************************************)

RetryTypeOK ==
    /\ policy \in Policy
    /\ window \in Seq(BOOLEAN)
    /\ counted \in [total : Nat, successful : Nat]
    /\ previous \in Nat
    /\ fuse \in Fuse
    /\ retrying \in [Task -> Retrying]

\* The longest delay after attempt n: a quarter more with the legacy jitter.
Longest(n) == ((MaxDelay * 5) \div 4) * power[n - 1][policy.backoff]

\* A call makes no more attempts than max_attempts, sleeps only if another one
\* is left ("current attempt number (1-based)"), and begins none later after
\* its timeout than the longest delay.
RetryBounded ==
    \A t \in Task :
       LET call == retrying[t]
       IN  /\ call.attempt <= policy.max_attempts
           /\ call.pc = "sleeping" =>
                 /\ call.attempt < policy.max_attempts
                 /\ policy.timeout # 0 =>
                       call.until < call.begun + policy.timeout
                                    + Longest(call.attempt)

\* The counters of the adaptive strategy are those of its sliding window
\* although all calls share it, and the count of failures tells the state of
\* the breaker policy.
RetryStatistics ==
    /\ counted.total = Len(window)
    /\ counted.total <= Window
    /\ counted.successful = Cardinality({i \in DOMAIN window : window[i]})
    /\ fuse.state = "closed" <=> fuse.failures < RetryThreshold

\* What tasks that retry under one policy must not disturb.
RetryCorrect == RetryTypeOK /\ RetryBounded /\ RetryStatistics

================================================================================
