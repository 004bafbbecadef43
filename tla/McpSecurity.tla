------------------------------ MODULE McpSecurity ------------------------------
(****************************************************************************)
(* MCPSecurityManager: the sessions it creates, answers and cleans up, and    *)
(* the sliding window of its RateLimiter.  Nothing in it awaits.              *)
(****************************************************************************)
EXTENDS Tasks, FiniteSets

CONSTANTS
    Caller,         \* client ids: one for each API key
    RateLimit,      \* rate_limit_requests
    RateWindow,     \* rate_limit_window, in seconds
    SessionTimeout, \* is_expired()'s timeout
    SecurityHorizon \* bound: the clock stops

ASSUME SecurityAssumption ==
    {RateLimit, RateWindow, SessionTimeout, SecurityHorizon} \subseteq Nat

VARIABLES
    requests,   \* RateLimiter.clients: the deque of each caller
    granted,    \* when requests of each caller were allowed, in that order
    refused,    \* the caller refused in the last step, or none
    sessions,   \* sessions of the manager, by id
    activity,   \* last_activity of every session created, whether kept or not
    lapsed      \* sessions that have expired at some time

securityVars == <<requests, granted, refused, sessions, activity, lapsed>>

Time == 0..SecurityHorizon

\* A session's id is a hash of its client and of the time.
SessionId == Caller \X Time

Unknown == SecurityHorizon + 1

NoRequests == [c \in Caller |-> <<>>]

SecurityInit ==
    /\ requests = NoRequests
    /\ granted = NoRequests
    /\ refused = {}
    /\ sessions = {}
    /\ activity = [id \in SessionId |-> Unknown]
    /\ lapsed = {}

\* A time is outside of the window that ends now.
Past(x) == x + RateWindow <= now

PopsAll(times, n) == n = IF times # <<>> /\ Past(times[1]) THEN Len(times) ELSE 0

\* popleft() as long as the first request is outside of the window: n go.
Pops(times, n) ==
    /\ \A i \in 1..n : Past(times[i])
    /\ n < Len(times) => ~Past(times[n + 1])

\* is_allowed() of the rate limiter.
Allowed(c, times) ==
    /\ Len(times) < RateLimit
    /\ requests' = [requests EXCEPT ![c] = Append(times, now)]
    /\ granted' = [granted EXCEPT ![c] = Append(@, now)]
    /\ refused' = {}

Refused(c, times) ==
    /\ Len(times) >= RateLimit
    /\ requests' = [requests EXCEPT ![c] = times]
    /\ refused' = {c}
    /\ UNCHANGED granted

\* check_rate_limit(): what the limiter does not allow is refused.
RequestChecked(c) ==
    /\ \E n \in 0..Len(requests[c]) :
          LET times == SubSeq(requests[c], n + 1, Len(requests[c]))
          IN  /\ Pops(requests[c], n)
              /\ Allowed(c, times) \/ Refused(c, times)
    /\ UNCHANGED <<now, sessions, activity, lapsed>>

Active(id) == activity' = [activity EXCEPT ![id] = now]

\* A session of a client and a moment that has one replaces it.
Authenticated(c) ==
    /\ sessions' = sessions \cup {<<c, now>>}
    /\ Active(<<c, now>>)
    /\ refused' = {}
    /\ UNCHANGED <<now, requests, granted, lapsed>>

\* update_activity() of whoever holds the session, expired and deleted or not.
ActivityUpdated(id) ==
    /\ activity[id] # Unknown
    /\ Active(id)
    /\ refused' = {}
    /\ UNCHANGED <<now, requests, granted, sessions, lapsed>>

ExpiredByAge(id) == now - id[2] > SessionTimeout

Expired(id) == now - activity[id] > SessionTimeout

\* get_session() of an expired session deletes it; of another it changes nothing.
SessionAsked(id) ==
    /\ id \in sessions
    /\ Expired(id)
    /\ sessions' = sessions \ {id}
    /\ refused' = {}
    /\ UNCHANGED <<now, requests, granted, activity, lapsed>>

\* The cleanup task of the server.
ExpiredCleaned ==
    /\ sessions' = {id \in sessions : ~Expired(id)}
    /\ refused' = {}
    /\ UNCHANGED <<now, requests, granted, activity, lapsed>>

SecurityTick ==
    /\ Later(SecurityHorizon)
    /\ refused' = {}
    /\ lapsed' = lapsed \cup {id \in SessionId :
           activity[id] # Unknown /\ now + 1 - activity[id] > SessionTimeout}
    /\ UNCHANGED <<requests, granted, sessions, activity>>

RateNext == SecurityTick \/ \E c \in Caller : RequestChecked(c)

SessionsNext ==
    \/ SecurityTick
    \/ \E c \in Caller : Authenticated(c)
    \/ \E id \in SessionId : ActivityUpdated(id) \/ SessionAsked(id)
    \/ ExpiredCleaned

(****************************************************************************)
(* Properties.                                                              *)
(****************************************************************************)

SecurityTypeOK ==
    /\ {requests, granted} \subseteq [Caller -> Seq(Time)]
    /\ refused \subseteq Caller
    /\ sessions \subseteq SessionId
    /\ activity \in [SessionId -> Time \cup {Unknown}]
    /\ lapsed \subseteq SessionId

\* Of RateLimit + 1 requests allowed one after the other the last comes
\* RateWindow seconds after the first, or later, so that no window of RateWindow
\* seconds has more than RateLimit; and a caller is refused one only when the
\* window that ends now has that many.
RateExact ==
    \A c \in Caller :
        LET times == granted[c]
        IN  /\ \A i \in 1..Len(times) - RateLimit :
                  times[i + RateLimit] >= times[i] + RateWindow
            /\ c \in refused =>
                  /\ Len(times) >= RateLimit
                  /\ \A i \in Len(times) - RateLimit + 1..Len(times) : ~Past(times[i])

\* A session is answered as long as it has always been active in time: neither
\* the cleanup nor a look at it forgets one that never expired.
ActiveSessionsKept ==
    \A id \in SessionId : activity[id] # Unknown => id \in sessions \cup lapsed

\* What the security manager of the MCP server keeps.
SecurityCorrect == SecurityTypeOK /\ RateExact /\ ActiveSessionsKept

================================================================================
