---------------------------- MODULE CircuitBreaker -----------------------------
(****************************************************************************)
(* The CircuitBreaker of zenoo_rpc (transport/pool.py), as the operators    *)
(* its user applies to it: should_allow_request, record_success and         *)
(* record_failure.  None of them awaits.  Whether the recovery timeout has  *)
(* passed since the last failure is a choice of the environment.            *)
(****************************************************************************)
EXTENDS Naturals

CONSTANTS
    FailureThreshold,   \* failures in a row that open the breaker
    SuccessThreshold    \* successes that close it again

ASSUME ThresholdAssumption ==
    /\ FailureThreshold \in Nat \ {0}
    /\ SuccessThreshold \in Nat \ {0}

CircuitBreakerState == {"closed", "open", "half_open"}

Breaker ==
    [state : CircuitBreakerState, failure_count : Nat, success_count : Nat]

NewBreaker == [state |-> "closed", failure_count |-> 0, success_count |-> 0]

\* should_allow_request() is FALSE.
Refuses(b, recovered) == b.state = "open" /\ ~recovered

\* The breaker after should_allow_request() returned TRUE.
Allowed(b) ==
    IF b.state = "open"
    THEN [b EXCEPT !.state = "half_open", !.success_count = 0]
    ELSE b

\* Mutants of the definitions that follow them are named after the slip.
RecordSuccessKeepingCount(b) ==
    CASE b.state = "closed" -> [b EXCEPT !.failure_count = 0]
      [] b.state = "open" -> b
      [] b.state = "half_open" ->
            [b EXCEPT !.success_count = @ + 1,
                      !.state = IF b.success_count + 1 >= SuccessThreshold
                                THEN "closed" ELSE @]

RecordSuccess(b) ==
    CASE b.state = "closed" -> [b EXCEPT !.failure_count = 0]
      [] b.state = "open" -> b
      [] b.state = "half_open" ->
            IF b.success_count + 1 >= SuccessThreshold
            THEN [state |-> "closed", failure_count |-> 0,
                  success_count |-> b.success_count + 1]
            ELSE [b EXCEPT !.success_count = @ + 1]

RecordFailure(b) ==
    LET failures == b.failure_count + 1
    IN  CASE b.state = "half_open" ->
               [state |-> "open", failure_count |-> failures,
                success_count |-> 0]
          [] b.state = "closed" /\ failures >= FailureThreshold ->
               [b EXCEPT !.state = "open", !.failure_count = failures]
          [] OTHER -> [b EXCEPT !.failure_count = failures]

\* The counts agree with the state: a closed breaker has seen fewer failures
\* in a row than open it, one that is open or recovering at least as many, and
\* one that is recovering fewer successes than close it.
CountsAgree(b) ==
    /\ b.state = "closed" <=> b.failure_count < FailureThreshold
    /\ b.state = "half_open" => b.success_count < SuccessThreshold

================================================================================
