------------------------------ MODULE McpProofs ------------------------------
(****************************************************************************)
(* Theorems about the MCP side of zenoo_rpc: the security manager and the    *)
(* life of an MCP server (McpSecurity, McpServer), and the servers of an     *)
(* MCPManager (Mcp).                                                         *)
(****************************************************************************)
EXTENDS Mcp, McpServer, SequenceTheorems, FiniteSetTheorems, TLAPS

(****************************************************************************)
(* The security manager.                                                     *)
(****************************************************************************)

\* The deque of a caller is the end of its history: what was popped is outside
\* of the window, and times do not decrease.
History(times, recent) ==
    /\ Len(recent) <= Len(times)
    /\ \A i \in 1..Len(recent) : recent[i] = times[i + (Len(times) - Len(recent))]
    /\ \A i \in 1..Len(times) - Len(recent) : Past(times[i])
    /\ \A i, j \in 1..Len(times) : i <= j => times[i] <= times[j]
    /\ \A i \in 1..Len(times) : times[i] <= now
    /\ Len(recent) <= RateLimit

RateInv ==
    /\ requests \in [Caller -> Seq(Time)]
    /\ granted \in [Caller -> Seq(Time)]
    /\ refused \subseteq Caller
    /\ \A c \in Caller : History(granted[c], requests[c])

\* A session that expired has been noted as lapsed.
SessionInv ==
    /\ sessions \subseteq SessionId
    /\ activity \in [SessionId -> Time \cup {Unknown}]
    /\ lapsed \subseteq SessionId
    /\ \A id \in SessionId :
          activity[id] # Unknown =>
             /\ activity[id] <= now
             /\ id \notin lapsed => now - activity[id] <= SessionTimeout

SecurityInv ==
    /\ now \in Time
    /\ RateInv
    /\ RateExact
    /\ SessionInv
    /\ ActiveSessionsKept

LEMMA SecurityInvCorrect == SecurityInv => SecurityCorrect
BY DEF SecurityInv, SecurityCorrect, SecurityTypeOK, RateInv, SessionInv

LEMMA SecurityInvInit == now = 0 /\ SecurityInit => SecurityInv
<1> SUFFICES ASSUME now = 0, SecurityInit PROVE SecurityInv
  OBVIOUS
<1> USE SecurityAssumption
<1>1. now \in Time
  BY DEF Time
<1>2. \A c \in Caller : requests[c] = <<>> /\ granted[c] = <<>>
  BY DEF SecurityInit, NoRequests
<1>3. RateInv
  BY <1>1, <1>2 DEF RateInv, SecurityInit, NoRequests, History
<1>4. RateExact
  BY <1>1, <1>2 DEF RateExact, SecurityInit
<1>5. SessionInv /\ ActiveSessionsKept
  BY <1>1 DEF SecurityInit, SessionInv, ActiveSessionsKept, Unknown, Time
<1> QED
  BY <1>1, <1>3, <1>4, <1>5 DEF SecurityInv

\* What is left of a deque is the end of the history, and in the window.
LEMMA PopsKeep ==
    ASSUME NEW times \in Seq(Time), NEW recent \in Seq(Time), now \in Time,
           History(times, recent), NEW n \in 0..Len(recent), Pops(recent, n)
    PROVE  LET left == SubSeq(recent, n + 1, Len(recent))
           IN  /\ left \in Seq(Time)
               /\ History(times, left)
               /\ \A i \in 1..Len(left) : ~Past(left[i])
<1> DEFINE left == SubSeq(recent, n + 1, Len(recent))
<1> USE SecurityAssumption
<1>1. /\ left \in Seq(Time)
      /\ Len(left) = Len(recent) - n
      /\ \A i \in 1..Len(left) : left[i] = recent[n + i]
  <2>1. n \in Nat /\ Len(recent) \in Nat /\ n + 1 \in Int /\ Len(recent) \in Int
    OBVIOUS
  <2>2. \A i \in n + 1..Len(recent) : recent[i] \in Time
    BY <2>1
  <2>3. /\ left \in Seq(Time)
        /\ Len(left) = IF n + 1 <= Len(recent) THEN Len(recent) - (n + 1) + 1 ELSE 0
        /\ \A i \in 1..Len(recent) - (n + 1) + 1 : left[i] = recent[n + 1 + i - 1]
    BY <2>1, <2>2, SubSeqProperties
  <2>4. Len(left) = Len(recent) - n
    BY <2>1, <2>3
  <2> HIDE DEF left
  <2>5. ASSUME NEW i \in 1..Len(left)
        PROVE  left[i] = recent[n + i]
    <3>1. i \in 1..Len(recent) - (n + 1) + 1 /\ n + 1 + i - 1 = n + i
      BY <2>1, <2>4
    <3> QED
      BY <2>3, <3>1
  <2> QED
    BY <2>3, <2>4, <2>5
<1> HIDE DEF left
<1>2. Len(recent) \in Nat /\ Len(times) \in Nat /\ Len(left) \in Nat
  BY <1>1
<1>3. /\ \A i \in 1..Len(times) : times[i] \in Nat
      /\ now \in Nat
  BY DEF Time
<1>4. \A i \in 1..Len(left) : left[i] = times[i + (Len(times) - Len(left))]
  BY <1>1, <1>2 DEF History
<1>5. ASSUME NEW i \in 1..Len(times) - Len(left)
      PROVE  Past(times[i])
  <2>1. CASE i <= Len(times) - Len(recent)
    BY <1>2, <2>1 DEF History
  <2>2. CASE i > Len(times) - Len(recent)
    <3> DEFINE j == i - (Len(times) - Len(recent))
    <3>1. j \in 1..n /\ j \in 1..Len(recent) /\ j + (Len(times) - Len(recent)) = i
      BY <1>1, <1>2, <2>2
    <3>2. recent[j] = times[i] /\ Past(recent[j])
      BY <3>1 DEF History, Pops
    <3> QED
      BY <3>2
  <2> QED
    BY <1>2, <2>1, <2>2
<1>6. History(times, left)
  BY <1>1, <1>2, <1>4, <1>5 DEF History
<1>7. ASSUME NEW i \in 1..Len(left)
      PROVE  ~Past(left[i])
  <2>1. ~Past(left[1])
    BY <1>1, <1>2 DEF Pops
  <2> DEFINE m == Len(times) - Len(left)
  <2>0. /\ 1 + m \in 1..Len(times) /\ i + m \in 1..Len(times)
        /\ 1 + m <= i + m /\ 1 \in 1..Len(left)
    BY <1>2, <1>6 DEF History
  <2>2. /\ left[1] = times[1 + (Len(times) - Len(left))]
        /\ left[i] = times[i + (Len(times) - Len(left))]
    BY <1>2, <1>4
  <2>3. left[1] <= left[i]
    BY <2>0, <2>2 DEF History
  <2>4. left[1] \in Nat /\ left[i] \in Nat
    BY <1>3, <2>0, <2>2
  <2> QED
    BY <1>3, <2>1, <2>3, <2>4, SMTT(60) DEF Past
<1> QED
  BY <1>1, <1>6, <1>7 DEF left

LEMMA LastOrBefore ==
    ASSUME NEW i \in Int, NEW m \in Int, NEW r \in Int, i <= m + 1 - r
    PROVE  i = m + 1 - r \/ i <= m - r
OBVIOUS

\* A request that is allowed comes at the end of both, and RateWindow seconds
\* after the one that came RateLimit before it.
LEMMA AllowedKeeps ==
    ASSUME NEW times \in Seq(Time), NEW left \in Seq(Time), now \in Time,
           History(times, left), Len(left) < RateLimit,
           \A i \in 1..Len(times) - RateLimit :
              times[i + RateLimit] >= times[i] + RateWindow
    PROVE  LET after == Append(times, now)
           IN  /\ after \in Seq(Time)
               /\ Append(left, now) \in Seq(Time)
               /\ History(after, Append(left, now))
               /\ \A i \in 1..Len(after) - RateLimit :
                     after[i + RateLimit] >= after[i] + RateWindow
<1> DEFINE after == Append(times, now)
           recent == Append(left, now)
<1> USE SecurityAssumption
<1>1. /\ after \in Seq(Time) /\ Len(after) = Len(times) + 1
      /\ \A i \in 1..Len(times) : after[i] = times[i]
      /\ after[Len(times) + 1] = now
  OBVIOUS
<1>2. /\ recent \in Seq(Time) /\ Len(recent) = Len(left) + 1
      /\ \A i \in 1..Len(left) : recent[i] = left[i]
      /\ recent[Len(left) + 1] = now
  OBVIOUS
<1> HIDE DEF after, recent
<1>3. Len(times) \in Nat /\ Len(left) \in Nat
  OBVIOUS
<1>4. /\ \A i \in 1..Len(times) : times[i] \in Nat
      /\ now \in Nat
  BY DEF Time
<1>5. History(after, recent)
  <2>1. Len(recent) <= Len(after) /\ Len(recent) <= RateLimit
    BY <1>1, <1>2, <1>3 DEF History
  <2>2. ASSUME NEW i \in 1..Len(recent)
        PROVE  recent[i] = after[i + (Len(after) - Len(recent))]
    <3>1. CASE i = Len(left) + 1
      BY <1>1, <1>2, <1>3, <3>1
    <3>2. CASE i \in 1..Len(left)
      <4>1. i + (Len(times) - Len(left)) \in 1..Len(times)
        BY <1>3, <3>2 DEF History
      <4>2. Len(after) - Len(recent) = Len(times) - Len(left)
        BY <1>1, <1>2, <1>3
      <4> QED
        BY <1>1, <1>2, <3>2, <4>1, <4>2 DEF History
    <3> QED
      BY <1>2, <1>3, <3>1, <3>2
  <2>3. ASSUME NEW i \in 1..Len(after) - Len(recent)
        PROVE  Past(after[i])
    <3>1. i \in 1..Len(times) /\ i \in 1..Len(times) - Len(left)
      BY <1>1, <1>2, <1>3
    <3> QED
      BY <1>1, <3>1 DEF History
  <2>4. \A i \in 1..Len(after) : after[i] <= now
    BY <1>1, <1>3, <1>4 DEF History
  <2>5. ASSUME NEW i \in 1..Len(after), NEW j \in 1..Len(after), i <= j
        PROVE  after[i] <= after[j]
    <3>1. CASE j = Len(times) + 1
      BY <1>1, <1>3, <2>4, <3>1
    <3>2. CASE j \in 1..Len(times)
      <4>1. i \in 1..Len(times)
        BY <1>3, <2>5, <3>2
      <4> QED
        BY <1>1, <2>5, <3>2, <4>1 DEF History
    <3> QED
      BY <1>1, <1>3, <3>1, <3>2
  <2> QED
    BY <2>1, <2>2, <2>3, <2>4, <2>5 DEF History
<1>6. ASSUME NEW i \in 1..Len(after) - RateLimit
      PROVE  after[i + RateLimit] >= after[i] + RateWindow
  <2>0. Len(after) - RateLimit = Len(times) + 1 - RateLimit /\ RateLimit \in Nat
    BY <1>1, <1>3
  <2>1. RateLimit \in Nat /\ RateLimit > 0 /\ i \in 1..Len(times)
    BY <1>3, <2>0
  <2>2. CASE i = Len(times) + 1 - RateLimit
    <3>1. i \in 1..Len(times) - Len(left)
      BY <1>3, <2>1, <2>2
    <3>2. Past(times[i])
      BY <3>1 DEF History
    <3>3. after[i] = times[i] /\ after[i + RateLimit] = now
      <4>1. i + RateLimit = Len(times) + 1
        BY <1>3, <2>1, <2>2
      <4> QED
        BY <1>1, <2>1, <4>1
    <3> QED
      BY <1>4, <2>1, <3>2, <3>3 DEF Past
  <2>3. CASE i <= Len(times) - RateLimit
    <3>1. i + RateLimit \in 1..Len(times) /\ i \in 1..Len(times) - RateLimit
      BY <1>3, <2>1, <2>3
    <3> QED
      BY <1>1, <2>1, <3>1
  <2> QED
    <3>1. i <= Len(times) + 1 - RateLimit /\ i \in Int
      BY <1>3, <2>0
    <3>2. i = Len(times) + 1 - RateLimit \/ i <= Len(times) - RateLimit
      <4>1. Len(times) \in Int /\ RateLimit \in Int
        BY <1>3, <2>1
      <4> QED
        BY <3>1, <4>1, LastOrBefore
    <3> QED
      BY <2>2, <2>3, <3>2
<1> QED
  BY <1>1, <1>2, <1>5, <1>6 DEF after, recent

\* What RateInv, RateExact and SessionInv say of the times, as one fact.
LEMMA RequestKeeps ==
    ASSUME SecurityInv, NEW c \in Caller, RequestChecked(c)
    PROVE  SecurityInv'
<1> USE SecurityAssumption
<1>1. PICK n \in 0..Len(requests[c]) :
         LET times == SubSeq(requests[c], n + 1, Len(requests[c]))
         IN  Pops(requests[c], n) /\ (Allowed(c, times) \/ Refused(c, times))
  BY DEF RequestChecked
<1> DEFINE left == SubSeq(requests[c], n + 1, Len(requests[c]))
<1>2. /\ UNCHANGED <<now, sessions, activity, lapsed>>
      /\ Pops(requests[c], n)
      /\ Allowed(c, left) \/ Refused(c, left)
  BY <1>1 DEF RequestChecked
<1>3. /\ requests[c] \in Seq(Time) /\ granted[c] \in Seq(Time) /\ now \in Time
      /\ History(granted[c], requests[c])
      /\ \A i \in 1..Len(granted[c]) - RateLimit :
            granted[c][i + RateLimit] >= granted[c][i] + RateWindow
  BY DEF SecurityInv, RateInv, RateExact
<1>4. /\ left \in Seq(Time)
      /\ History(granted[c], left)
      /\ \A i \in 1..Len(left) : ~Past(left[i])
  BY <1>2, <1>3, PopsKeep
<1> HIDE DEF left
<1>5. now' \in Time /\ SessionInv' /\ ActiveSessionsKept'
  BY <1>2 DEF SecurityInv, SessionInv, ActiveSessionsKept, Time
<1>6. CASE Allowed(c, left)
  <2>1. /\ requests' = [requests EXCEPT ![c] = Append(left, now)]
        /\ granted' = [granted EXCEPT ![c] = Append(granted[c], now)]
        /\ refused' = {} /\ Len(left) < RateLimit
    BY <1>6 DEF Allowed
  <2>2. /\ Append(granted[c], now) \in Seq(Time)
        /\ Append(left, now) \in Seq(Time)
        /\ History(Append(granted[c], now), Append(left, now))
        /\ \A i \in 1..Len(Append(granted[c], now)) - RateLimit :
              Append(granted[c], now)[i + RateLimit]
                 >= Append(granted[c], now)[i] + RateWindow
    BY <1>3, <1>4, <2>1, AllowedKeeps
  <2>3. /\ requests' \in [Caller -> Seq(Time)]
        /\ granted' \in [Caller -> Seq(Time)]
        /\ granted'[c] = Append(granted[c], now) /\ requests'[c] = Append(left, now)
        /\ \A d \in Caller : d # c => granted'[d] = granted[d] /\ requests'[d] = requests[d]
    BY <2>1, <2>2 DEF SecurityInv, RateInv
  <2>4. ASSUME NEW d \in Caller
        PROVE  History(granted'[d], requests'[d])
    BY <2>2, <2>3 DEF SecurityInv, RateInv
  <2>5. RateInv'
    BY <1>2, <2>1, <2>3, <2>4, ZenonT(60) DEF RateInv, History, Past
  <2>6. RateExact'
    BY <2>1, <2>2, <2>3 DEF SecurityInv, RateExact
  <2> QED
    BY <1>5, <2>5, <2>6 DEF SecurityInv
<1>7. CASE Refused(c, left)
  <2>1. /\ requests' = [requests EXCEPT ![c] = left]
        /\ granted' = granted
        /\ refused' = {c} /\ Len(left) >= RateLimit
    BY <1>7 DEF Refused
  <2>2. /\ requests' \in [Caller -> Seq(Time)]
        /\ requests'[c] = left
        /\ \A d \in Caller : d # c => requests'[d] = requests[d]
    BY <1>4, <2>1 DEF SecurityInv, RateInv
  <2>3. ASSUME NEW d \in Caller
        PROVE  History(granted'[d], requests'[d])
    BY <1>4, <2>1, <2>2 DEF SecurityInv, RateInv
  <2>4. RateInv'
    BY <1>2, <2>1, <2>2, <2>3 DEF SecurityInv, RateInv, History, Past
  <2>5. /\ Len(granted[c]) >= RateLimit
        /\ \A i \in Len(granted[c]) - RateLimit + 1..Len(granted[c]) : ~Past(granted[c][i])
    <3>1. Len(left) \in Nat /\ Len(granted[c]) \in Nat /\ RateLimit \in Nat
      BY <1>3, <1>4
    <3>2. Len(left) <= Len(granted[c]) /\ Len(left) = RateLimit
      BY <1>4, <2>1, <3>1 DEF History
    <3>3. ASSUME NEW i \in Len(granted[c]) - RateLimit + 1..Len(granted[c])
          PROVE  ~Past(granted[c][i])
      <4> DEFINE j == i - (Len(granted[c]) - Len(left))
      <4>1. j \in 1..Len(left) /\ j + (Len(granted[c]) - Len(left)) = i
        BY <3>1, <3>2
      <4> QED
        BY <1>4, <4>1 DEF History
    <3> QED
      BY <3>1, <3>2, <3>3
  <2>6. RateExact'
    BY <1>2, <2>1, <2>5 DEF SecurityInv, RateExact, Past
  <2> QED
    BY <1>5, <2>4, <2>6 DEF SecurityInv
<1> QED
  BY <1>2, <1>6, <1>7

\* The calls that are about sessions leave the limiter alone.
LEMMA RateUntouched ==
    ASSUME RateInv, RateExact, UNCHANGED <<now, requests, granted>>, refused' = {}
    PROVE  RateInv' /\ RateExact'
BY DEF RateInv, RateExact, History, Past

\* A session that has been active now.
LEMMA ActiveKeeps ==
    ASSUME SessionInv, now \in Time, NEW id \in SessionId,
           activity' = [activity EXCEPT ![id] = now],
           sessions' \subseteq SessionId, UNCHANGED <<now, lapsed>>
    PROVE  SessionInv'
<1>1. now \in Nat /\ SessionTimeout \in Nat /\ now # Unknown
  BY SecurityAssumption DEF Time, Unknown
<1>2. activity' \in [SessionId -> Time \cup {Unknown}]
  BY DEF SessionInv
<1>3. ASSUME NEW i \in SessionId, activity'[i] # Unknown
      PROVE  /\ activity'[i] <= now'
             /\ i \notin lapsed' => now' - activity'[i] <= SessionTimeout
  <2>1. CASE i = id
    BY <1>1, <2>1 DEF SessionInv
  <2>2. CASE i # id
    BY <1>3, <2>2 DEF SessionInv
  <2> QED
    BY <2>1, <2>2
<1> QED
  BY <1>2, <1>3 DEF SessionInv

LEMMA SessionsKeep ==
    ASSUME SecurityInv,
           \/ \E c \in Caller : Authenticated(c)
           \/ \E id \in SessionId : ActivityUpdated(id) \/ SessionAsked(id)
           \/ ExpiredCleaned
    PROVE  SecurityInv'
<1> USE SecurityAssumption
<1>0. now \in Time /\ RateInv /\ RateExact /\ SessionInv /\ ActiveSessionsKept
  BY DEF SecurityInv
<1>1. ASSUME NEW c \in Caller, Authenticated(c)
      PROVE  SecurityInv'
  <2>1. <<c, now>> \in SessionId
    BY <1>0 DEF SessionId
  <2>2. /\ activity' = [activity EXCEPT ![<<c, now>>] = now]
        /\ sessions' = sessions \cup {<<c, now>>} /\ refused' = {}
        /\ UNCHANGED <<now, requests, granted, lapsed>>
    BY <1>1 DEF Authenticated, Active
  <2>3. SessionInv'
    BY <1>0, <2>1, <2>2, ActiveKeeps DEF SessionInv
  <2>4. ActiveSessionsKept'
    BY <1>0, <2>1, <2>2 DEF ActiveSessionsKept, SessionInv
  <2> QED
    BY <1>0, <2>2, <2>3, <2>4, RateUntouched DEF SecurityInv
<1>2. ASSUME NEW id \in SessionId, ActivityUpdated(id)
      PROVE  SecurityInv'
  <2>1. /\ activity' = [activity EXCEPT ![id] = now] /\ activity[id] # Unknown
        /\ refused' = {}
        /\ UNCHANGED <<now, requests, granted, sessions, lapsed>>
    BY <1>2 DEF ActivityUpdated, Active
  <2>2. SessionInv'
    BY <1>0, <2>1, ActiveKeeps DEF SessionInv
  <2>3. ActiveSessionsKept'
    BY <1>0, <2>1 DEF ActiveSessionsKept, SessionInv
  <2> QED
    BY <1>0, <2>1, <2>2, <2>3, RateUntouched DEF SecurityInv
\* Who is forgotten has expired.
<1>3. ASSUME NEW gone \in SUBSET sessions, \A id \in gone : Expired(id),
             sessions' = sessions \ gone, refused' = {},
             UNCHANGED <<now, requests, granted, activity, lapsed>>
      PROVE  SecurityInv'
  <2>1. SessionInv'
    BY <1>0, <1>3 DEF SessionInv
  <2>2. ASSUME NEW id \in SessionId, activity[id] # Unknown, id \in gone
        PROVE  id \in lapsed
    BY <1>0, <1>3, <2>2 DEF SessionInv, Expired, Time, Unknown
  <2>3. ActiveSessionsKept'
    BY <1>0, <1>3, <2>2 DEF ActiveSessionsKept
  <2> QED
    BY <1>0, <1>3, <2>1, <2>3, RateUntouched DEF SecurityInv
<1>4. ASSUME NEW id \in SessionId, SessionAsked(id)
      PROVE  SecurityInv'
  <2>1. {id} \in SUBSET sessions /\ \A i \in {id} : Expired(i)
    BY <1>4 DEF SessionAsked
  <2> QED
    BY <1>3, <1>4, <2>1 DEF SessionAsked
<1>5. CASE ExpiredCleaned
  <2> DEFINE gone == {id \in sessions : Expired(id)}
  <2>1. gone \in SUBSET sessions /\ \A id \in gone : Expired(id)
    OBVIOUS
  <2>2. sessions' = sessions \ gone
    BY <1>5 DEF ExpiredCleaned
  <2> HIDE DEF gone
  <2> QED
    BY <1>3, <1>5, <2>1, <2>2 DEF ExpiredCleaned
<1> QED
  BY <1>1, <1>2, <1>4, <1>5

LEMMA TickKeeps ==
    ASSUME SecurityInv, SecurityTick
    PROVE  SecurityInv'
<1> USE SecurityAssumption
<1>0. now \in Time /\ RateInv /\ RateExact /\ SessionInv /\ ActiveSessionsKept
  BY DEF SecurityInv
<1>1. /\ now' = now + 1 /\ now \in Nat /\ now' \in Time
      /\ refused' = {}
      /\ UNCHANGED <<requests, granted, sessions, activity>>
  BY <1>0 DEF SecurityTick, Later, Time
<1>2. RateInv'
  <2>1. ASSUME NEW c \in Caller
        PROVE  History(granted[c], requests[c])'
    <3>1. /\ granted[c] \in Seq(Time) /\ requests[c] \in Seq(Time)
          /\ History(granted[c], requests[c])
      BY <1>0 DEF RateInv
    <3>2. \A i \in 1..Len(granted[c]) : granted[c][i] \in Nat
      BY <3>1 DEF Time
    <3>3. \A i \in 1..Len(granted[c]) - Len(requests[c]) : i \in 1..Len(granted[c])
      BY <3>1
    <3>4. \A i \in 1..Len(granted[c]) : Past(granted[c][i]) => Past(granted[c][i])'
      BY <1>1, <3>2 DEF Past
    <3>5. \A i \in 1..Len(granted[c]) : (granted[c][i] <= now)'
      BY <1>1, <3>1, <3>2 DEF History
    <3> QED
      BY <1>1, <3>1, <3>3, <3>4, <3>5 DEF History
  <2> QED
    BY <1>0, <1>1, <2>1 DEF RateInv
<1>3. RateExact'
  BY <1>0, <1>1 DEF RateExact
<1>4. lapsed' = lapsed \cup {id \in SessionId :
         activity[id] # Unknown /\ now + 1 - activity[id] > SessionTimeout}
  BY DEF SecurityTick
<1>5. ASSUME NEW id \in SessionId, activity[id] # Unknown
      PROVE  /\ activity[id] <= now'
             /\ id \notin lapsed' => now' - activity[id] <= SessionTimeout
  <2>1. activity[id] \in Nat
    BY <1>0, <1>5 DEF SessionInv, Time
  <2> QED
    BY <1>0, <1>1, <1>4, <1>5, <2>1 DEF SessionInv
<1>6. SessionInv'
  BY <1>0, <1>1, <1>4, <1>5 DEF SessionInv
<1>7. ActiveSessionsKept'
  BY <1>0, <1>1, <1>4 DEF ActiveSessionsKept
<1> QED
  BY <1>1, <1>2, <1>3, <1>6, <1>7 DEF SecurityInv

LEMMA SecurityStep ==
    ASSUME SecurityInv,
           \/ RateNext \/ SessionsNext
           \/ UNCHANGED <<now, securityVars>>
    PROVE  SecurityInv'
<1>1. CASE UNCHANGED <<now, securityVars>>
  BY <1>1 DEF securityVars, SecurityInv, RateInv, RateExact, History, Past,
              SessionInv, ActiveSessionsKept, Time
<1> QED
  BY <1>1, RequestKeeps, SessionsKeep, TickKeeps DEF RateNext, SessionsNext

(****************************************************************************)
(* The life of a server.                                                     *)
(****************************************************************************)

\* How far the client is at each phase, and when it can be closed: only after a
\* signal while the server starts or serves.
ClientAt ==
    /\ phase = "new" => odoo = NoClient /\ signals = 0
    /\ phase # "new" => odoo.http # "none"
    /\ phase = "stopping" => odoo.http = "closed"
    /\ phase = "login" => ~odoo.loggedIn /\ ~odoo.late
    /\ phase \in {"login", "context", "running"} /\ signals = 0
          => odoo.http = "open" /\ ~odoo.late
    /\ phase \in {"context", "running"} /\ signals = 0 => odoo.loggedIn

\* Who reads does so of a server that runs; a client that is logged in and closed
\* is being closed, or its closing failed, or it was closed before its login ended.
ReadsAt ==
    /\ \A t \in Task : serving[t].left > 0 => phase = "running"
    /\ closing => signals > 0 /\ odoo.http = "closed"
    /\ odoo.loggedIn /\ odoo.http = "closed" /\ phase # "stopping"
          => odoo.late \/ unclosed \/ closing

ServerInv ==
    /\ ServerTypeOK
    /\ EndedIsClosed
    /\ ClientAt
    /\ ReadsAt
    /\ ReadsWhileOpen

Odoo == [http : {"none", "open", "closed"}, loggedIn : BOOLEAN, late : BOOLEAN]

Serving == [left : 0..ModelInfo, over : {"none", "open", "closing", "closed"}]

LEMMA ServerInvCorrect == ServerInv => ServerCorrect
<1> SUFFICES ASSUME ServerInv, phase = "running", signals = 0
             PROVE  odoo = [http |-> "open", loggedIn |-> TRUE, late |-> FALSE]
  BY DEF ServerInv, ServerCorrect, ServesLive
<1>1. odoo \in Odoo
  BY DEF ServerInv, ServerTypeOK, Odoo
<1>2. odoo.http = "open" /\ odoo.loggedIn /\ ~odoo.late
  BY DEF ServerInv, ClientAt
<1>3. odoo.loggedIn \in BOOLEAN /\ odoo.late \in BOOLEAN
  BY <1>1 DEF Odoo
<1>4. odoo = [http |-> odoo.http, loggedIn |-> odoo.loggedIn, late |-> odoo.late]
  BY <1>1 DEF Odoo
<1> QED
  BY <1>2, <1>3, <1>4, Zenon

LEMMA ServerInvInit == ServerInit => ServerInv
<1> SUFFICES ASSUME ServerInit PROVE ServerInv
  OBVIOUS
<1>1. /\ phase = "new" /\ odoo = NoClient /\ signals = 0 /\ stopping = 0
      /\ closing = FALSE /\ unclosed = FALSE /\ serving = [t \in Task |-> NotServing]
  BY DEF ServerInit
<1>2. ServerTypeOK
  <2>1. odoo \in Odoo
    BY <1>1 DEF NoClient, Odoo
  <2>2. serving \in [Task -> Serving]
    BY <1>1 DEF NotServing, ModelInfo, Serving
  <2>3. closing \in BOOLEAN /\ unclosed \in BOOLEAN
    BY <1>1, Zenon
  <2>4. signals \in 0..MaxSignals /\ stopping \in 0..signals
    BY <1>1, McpServerAssumption
  <2> QED
    BY <1>1, <2>1, <2>2, <2>3, <2>4 DEF ServerTypeOK, Odoo, Serving
<1> QED
  BY <1>1, <1>2 DEF ServerInv, EndedIsClosed, ClientAt, ReadsAt, ReadsWhileOpen,
                    NoClient, NotServing

\* What the start and the end of a client's close() do to the client.
LEMMA BeginsTo ==
    ASSUME odoo \in Odoo, StopBegins
    PROVE  /\ odoo' \in Odoo /\ odoo'.late = odoo.late
           /\ \/ /\ odoo.http = "open" /\ odoo'.http = "closed"
                 /\ odoo'.loggedIn = odoo.loggedIn
              \/ /\ odoo.http # "open" /\ odoo'.http = odoo.http
                 /\ odoo'.loggedIn = FALSE
BY DEF StopBegins, Odoo

LEMMA ReturnsTo ==
    ASSUME odoo \in Odoo, unclosed \in BOOLEAN, StopReturns
    PROVE  /\ odoo' \in Odoo /\ unclosed' \in BOOLEAN
           /\ odoo'.http = odoo.http /\ odoo'.late = odoo.late
           /\ \/ odoo'.loggedIn = FALSE /\ unclosed' = unclosed
              \/ odoo'.loggedIn = odoo.loggedIn /\ unclosed' = TRUE
BY DEF StopReturns, Odoo

\* A handler that starts, reads on or ends: of a server that runs.
LEMMA ServesKeeps ==
    ASSUME ServerInv, NEW t \in Task, NEW state \in Serving,
           Serves(t, state),
           state.left > 0 => phase = "running",
           state.left > 0 /\ state.over = "closed" => odoo.late \/ unclosed
    PROVE  ServerInv'
<1>1. /\ serving' = [serving EXCEPT ![t] = state]
      /\ UNCHANGED <<phase, odoo, signals, stopping, closing, unclosed>>
  BY DEF Serves
<1>2. ServerTypeOK'
  BY <1>1 DEF ServerInv, ServerTypeOK, Serving
<1>3. \A u \in Task : serving'[u] = IF u = t THEN state ELSE serving[u]
  BY <1>1 DEF ServerInv, ServerTypeOK
<1>4. EndedIsClosed' /\ ClientAt'
  BY <1>1 DEF ServerInv, EndedIsClosed, ClientAt
<1>5. ReadsAt'
  BY <1>1, <1>3 DEF ServerInv, ReadsAt
<1>6. ReadsWhileOpen'
  BY <1>1, <1>3 DEF ServerInv, ReadsWhileOpen
<1> QED
  BY <1>2, <1>4, <1>5, <1>6 DEF ServerInv

LEMMA ReadsKeeps ==
    ASSUME ServerInv, NEW t \in Task, NEW left \in 1..ModelInfo, Reads(t, left),
           phase = "running"
    PROVE  ServerInv'
<1> DEFINE state == [left |-> left, over |-> Transport]
<1>1. CASE odoo.loggedIn
  <2>1. state \in Serving
    BY DEF ModelInfo, Transport, Serving
  <2>2. Serves(t, state)
    BY <1>1 DEF Reads
  <2>3. odoo.http \in {"open", "closed"}
    BY DEF ServerInv, ClientAt, ServerTypeOK
  <2>4. state.over = "closed" => odoo.late \/ unclosed
    BY <1>1, <2>3 DEF ServerInv, ReadsAt, Transport
  <2> HIDE DEF state
  <2> QED
    BY <2>1, <2>2, <2>4, ServesKeeps
<1>2. CASE ~odoo.loggedIn
  <2>1. Serves(t, NotServing)
    BY <1>2 DEF Reads
  <2>2. NotServing \in Serving /\ NotServing.left = 0
    BY DEF NotServing, ModelInfo, Serving
  <2> QED
    BY <2>1, <2>2, ServesKeeps
<1> QED
  BY <1>1, <1>2

\* run_server() starts the server, and what it awaits of the login is answered.
LEMMA StartKeeps ==
    ASSUME ServerInv, ServerStarts \/ ServerAuthenticated \/ ServerConnected
    PROVE  ServerInv'
<1> USE McpServerAssumption DEF ServerInv
<1>0. odoo \in Odoo
  BY DEF ServerTypeOK, Odoo
<1>1. CASE ServerStarts
  <2>1. /\ odoo' \in Odoo /\ odoo'.http = "open"
        /\ odoo'.loggedIn = odoo.loggedIn /\ odoo'.late = odoo.late
    BY <1>0, <1>1 DEF ServerStarts, Odoo
  <2>2. ServerTypeOK'
    BY <1>1, <2>1 DEF ServerStarts, ServerTypeOK, Odoo
  <2>3. /\ phase = "new" /\ phase' = "login" /\ ~odoo.loggedIn /\ ~odoo.late
        /\ signals = 0
        /\ UNCHANGED <<signals, stopping, closing, unclosed, serving>>
    BY <1>1 DEF ServerStarts, ClientAt, NoClient
  <2>4. ReadsAt'
    BY <2>1, <2>3 DEF ReadsAt
  <2> QED
    BY <2>1, <2>2, <2>3, <2>4 DEF EndedIsClosed, ClientAt, ReadsWhileOpen
<1>2. CASE ServerAuthenticated
  <2>1. /\ odoo' \in Odoo /\ odoo'.http = odoo.http
        /\ odoo'.loggedIn = TRUE /\ odoo'.late = (odoo.http = "closed" /\ ~closing)
    BY <1>0, <1>2 DEF ServerAuthenticated, Odoo
  <2>2. ServerTypeOK'
    BY <1>2, <2>1 DEF ServerAuthenticated, ServerTypeOK, Odoo
  <2>3. /\ phase = "login" /\ phase' = "context"
        /\ UNCHANGED <<signals, stopping, closing, unclosed, serving>>
    BY <1>2 DEF ServerAuthenticated
  <2>4. ReadsAt'
    BY <2>1, <2>3 DEF ReadsAt
  <2>5. \A t \in Task : ~(serving'[t].left > 0)
    BY <2>3 DEF ReadsAt
  <2> QED
    BY <2>1, <2>2, <2>3, <2>4, <2>5 DEF EndedIsClosed, ClientAt, ReadsWhileOpen
<1>3. CASE ServerConnected
  <2>1. /\ phase = "context" /\ phase' = "running"
        /\ UNCHANGED <<odoo, signals, stopping, closing, unclosed, serving>>
    BY <1>3 DEF ServerConnected
  <2>2. ServerTypeOK'
    BY <2>1 DEF ServerTypeOK
  <2> QED
    BY <2>1, <2>2 DEF EndedIsClosed, ClientAt, ReadsAt, ReadsWhileOpen
<1> QED
  BY <1>1, <1>2, <1>3

\* run_server() stops the server.
LEMMA EndKeeps ==
    ASSUME ServerInv, ServerEnds \/ ServerStopped
    PROVE  ServerInv'
<1> USE DEF ServerInv
<1>0. odoo \in Odoo /\ unclosed \in BOOLEAN
  BY DEF ServerTypeOK, Odoo
<1>1. CASE ServerEnds
  <2>1. /\ phase \in {"login", "context", "running"}
        /\ phase' = IF odoo.http = "open" THEN "stopping" ELSE "ended"
        /\ serving' = [t \in Task |-> NotServing]
        /\ StopBegins
        /\ UNCHANGED <<signals, stopping, closing, unclosed>>
    BY <1>1 DEF ServerEnds
  <2>2. /\ odoo' \in Odoo /\ odoo'.late = odoo.late
        /\ \/ /\ odoo.http = "open" /\ odoo'.http = "closed"
              /\ odoo'.loggedIn = odoo.loggedIn
           \/ /\ odoo.http # "open" /\ odoo'.http = odoo.http
              /\ odoo'.loggedIn = FALSE
    BY <1>0, <2>1, BeginsTo
  <2>3. odoo'.http = "closed"
    BY <1>0, <2>1, <2>2 DEF ClientAt, Odoo
  <2>4. \A t \in Task : serving'[t].left = 0
    BY <2>1 DEF NotServing
  <2>5. ServerTypeOK'
    BY <2>1, <2>2 DEF ServerTypeOK, NotServing, ModelInfo, Odoo
  <2>6. EndedIsClosed' /\ ClientAt'
    BY <2>1, <2>2, <2>3 DEF EndedIsClosed, ClientAt
  <2>7. ReadsAt' /\ ReadsWhileOpen'
    BY <2>1, <2>2, <2>3, <2>4 DEF ReadsAt, ReadsWhileOpen
  <2> QED
    BY <2>5, <2>6, <2>7
<1>2. CASE ServerStopped
  <2>1. /\ phase = "stopping" /\ phase' = "ended" /\ StopReturns
        /\ UNCHANGED <<signals, stopping, closing, serving>>
    BY <1>2 DEF ServerStopped
  <2>2. /\ odoo' \in Odoo /\ unclosed' \in BOOLEAN
        /\ odoo'.http = odoo.http /\ odoo'.late = odoo.late
        /\ \/ odoo'.loggedIn = FALSE /\ unclosed' = unclosed
           \/ odoo'.loggedIn = odoo.loggedIn /\ unclosed' = TRUE
    BY <1>0, <2>1, ReturnsTo
  <2>3. ServerTypeOK'
    BY <2>1, <2>2 DEF ServerTypeOK, Odoo
  <2>4. \A t \in Task : ~(serving[t].left > 0)
    BY <2>1 DEF ReadsAt
  <2>5. EndedIsClosed' /\ ClientAt'
    BY <2>1, <2>2 DEF EndedIsClosed, ClientAt
  <2>6. ReadsAt' /\ ReadsWhileOpen'
    BY <2>1, <2>2, <2>4 DEF ReadsAt, ReadsWhileOpen
  <2> QED
    BY <2>3, <2>5, <2>6
<1> QED
  BY <1>1, <1>2

\* A signal starts a stop(), and one begins or ends its close().
LEMMA SignalKeeps ==
    ASSUME ServerInv, ServerSignalled \/ SignalledStopBegins \/ SignalledStopEnds
    PROVE  ServerInv'
<1> USE McpServerAssumption DEF ServerInv
<1>0. /\ odoo \in Odoo /\ unclosed \in BOOLEAN /\ closing \in BOOLEAN
      /\ signals \in 0..MaxSignals /\ stopping \in 0..signals
  BY DEF ServerTypeOK, Odoo
<1>1. CASE ServerSignalled
  <2>1. ServerTypeOK'
    BY <1>1 DEF ServerSignalled, ServerTypeOK
  <2>2. signals' > 0 /\ phase # "new"
    BY <1>0, <1>1 DEF ServerSignalled
  <2> QED
    BY <1>1, <2>1, <2>2 DEF ServerSignalled, EndedIsClosed, ClientAt, ReadsAt,
                            ReadsWhileOpen
<1>2. CASE SignalledStopBegins
  <2>1. /\ stopping > 0 /\ stopping' = stopping - 1 /\ StopBegins
        /\ closing' = (closing \/ odoo.http = "open")
        /\ UNCHANGED <<phase, signals, unclosed, serving>>
    BY <1>2 DEF SignalledStopBegins
  <2>2. signals > 0 /\ phase # "new" /\ odoo.http # "none"
    BY <1>0, <2>1 DEF ClientAt
  <2>3. /\ odoo' \in Odoo /\ odoo'.late = odoo.late /\ odoo'.http = "closed"
        /\ \/ odoo.http = "open" /\ closing' /\ odoo'.loggedIn = odoo.loggedIn
           \/ odoo.http = "closed" /\ closing' = closing /\ odoo'.loggedIn = FALSE
    BY <1>0, <2>1, <2>2, BeginsTo DEF Odoo
  <2>4. ServerTypeOK'
    <3>1. stopping' \in 0..signals' /\ closing' \in BOOLEAN
      BY <1>0, <2>1
    <3> QED
      BY <2>1, <2>3, <3>1 DEF ServerTypeOK, Odoo
  <2>5. EndedIsClosed' /\ ClientAt'
    BY <2>1, <2>2, <2>3 DEF EndedIsClosed, ClientAt
  <2>6. ReadsAt' /\ ReadsWhileOpen'
    BY <2>1, <2>2, <2>3 DEF ReadsAt, ReadsWhileOpen
  <2> QED
    BY <2>4, <2>5, <2>6
<1>3. CASE SignalledStopEnds
  <2>1. /\ closing /\ closing' = FALSE /\ StopReturns
        /\ UNCHANGED <<phase, signals, stopping, serving>>
    BY <1>3 DEF SignalledStopEnds
  <2>2. /\ odoo' \in Odoo /\ unclosed' \in BOOLEAN
        /\ odoo'.http = odoo.http /\ odoo'.late = odoo.late
        /\ \/ odoo'.loggedIn = FALSE /\ unclosed' = unclosed
           \/ odoo'.loggedIn = odoo.loggedIn /\ unclosed' = TRUE
    BY <1>0, <2>1, ReturnsTo
  <2>3. signals > 0 /\ odoo.http = "closed" /\ phase # "new"
    BY <2>1 DEF ReadsAt, ClientAt
  <2>4. ServerTypeOK'
    BY <2>1, <2>2 DEF ServerTypeOK, Odoo
  <2>5. EndedIsClosed' /\ ClientAt'
    BY <2>1, <2>2, <2>3 DEF EndedIsClosed, ClientAt
  <2>6. ReadsAt' /\ ReadsWhileOpen'
    BY <2>1, <2>2, <2>3 DEF ReadsAt, ReadsWhileOpen
  <2> QED
    BY <2>4, <2>5, <2>6
<1> QED
  BY <1>1, <1>2, <1>3

LEMMA OfferedReads == Offered \subseteq 0..ModelInfo
BY DEF Offered, ToolHandlers, ResourceHandlers, SearchRecords, GetRecord, CreateTool,
       UpdateTool, DeleteTool, BatchTool, ComplexSearch, AnalyticsQuery, ListModels,
       ModelInfo, RecordResource

LEMMA ServerStep ==
    ASSUME ServerInv, ServerNext \/ UNCHANGED serverStateVars
    PROVE  ServerInv'
<1>1. CASE UNCHANGED serverStateVars
  BY <1>1 DEF serverStateVars, ServerInv, ServerTypeOK, EndedIsClosed, ClientAt, ReadsAt,
              ReadsWhileOpen
<1>2. ASSUME NEW t \in Task, NEW reads \in Offered, HandlerBegins(t, reads)
      PROVE  ServerInv'
  <2>1. reads \in 1..ModelInfo
    BY <1>2, OfferedReads DEF HandlerBegins, ModelInfo
  <2> QED
    BY <1>2, <2>1, ReadsKeeps DEF HandlerBegins
<1>3. ASSUME NEW t \in Task, ReadAnswered(t) \/ ReadRaises(t)
      PROVE  ServerInv'
  <2>1. phase = "running" /\ serving[t].left \in 1..ModelInfo
    BY <1>3 DEF ReadAnswered, ReadRaises, ServerInv, ReadsAt, ServerTypeOK, ModelInfo
  <2>2. CASE Serves(t, NotServing)
    <3>1. NotServing \in Serving /\ NotServing.left = 0
      BY DEF NotServing, ModelInfo, Serving
    <3> QED
      BY <2>2, <3>1, ServesKeeps
  <2>3. CASE serving[t].left # 1 /\ Reads(t, serving[t].left - 1)
    <3>1. serving[t].left - 1 \in 1..ModelInfo
      BY <2>1, <2>3 DEF ModelInfo
    <3> QED
      BY <2>1, <2>3, <3>1, ReadsKeeps
  <2> QED
    BY <1>3, <2>2, <2>3 DEF ReadAnswered, ReadRaises
<1> QED
  BY <1>1, <1>2, <1>3, StartKeeps, EndKeeps, SignalKeeps DEF ServerNext

\* In no window is a caller allowed more requests than the limit, and refused one
\* with fewer (RateLimiter.is_allowed); a session that never expired is kept
\* (cleanup_expired_sessions, get_session); the client of a server that has ended
\* is closed and logged out, unless its closing failed; a server that no signal has
\* reached serves with a client that is logged in; and a read over a transport that
\* is closed, and nobody is closing, is of a client closed before its login ended,
\* or whose closing failed (run_server, ZenooMCPServer.stop).
THEOREM McpServerSafe == McpServerSpec => []McpServerCorrect
<1>1. now = 0 /\ SecurityInit /\ ServerInit => SecurityInv /\ ServerInv
  BY SecurityInvInit, ServerInvInit
<1>2. /\ SecurityInv /\ ServerInv
      /\ [McpServerNext]_<<now, securityVars, serverStateVars>>
      => SecurityInv' /\ ServerInv'
  <2> SUFFICES ASSUME SecurityInv, ServerInv,
                      [McpServerNext]_<<now, securityVars, serverStateVars>>
               PROVE  SecurityInv' /\ ServerInv'
    OBVIOUS
  <2>1. ServerNext => UNCHANGED now
    BY DEF ServerNext
  <2> QED
    BY <2>1, SecurityStep, ServerStep DEF McpServerNext
<1>3. SecurityInv /\ ServerInv => McpServerCorrect
  BY SecurityInvCorrect, ServerInvCorrect DEF McpServerCorrect
<1> QED
  BY <1>1, <1>2, <1>3, PTL DEF McpServerSpec

(****************************************************************************)
(* The servers of an MCPManager.                                             *)
(****************************************************************************)

\* What is known of the link of an instance that one task at a time was at.
Sound(link) ==
    /\ link.opened \subseteq {link.context}
    /\ 0 \notin link.opened
    /\ link.opened # {} => link.transport

Registered(i) == \E s \in Server : clients[s] = i

\* What a task that is at the instance knows of its link.
Knows(a, link) ==
    /\ a.at = "opening" => link.context = a.n /\ link.opened = {}
    /\ a.at \in {"entering", "initializing"} => link.transport
    /\ a.at \in {"opening", "entering", "initializing"} => ~link.client
    /\ a.at = "ending" => link.session # 0
    /\ a.at = "closing" => link.transport /\ link.context = a.n

\* The one task at an instance has found it under its name; what nobody is at and
\* no name has, nothing of it is open.
Owned(i) ==
    ~links[i].kept =>
       /\ Sound(links[i])
       /\ \A t \in Task : linking[t].instance = i =>
             /\ clients[linking[t].name] = i
             /\ \A u \in Task : linking[u].instance = i => u = t
             /\ Knows(linking[t], links[i])
       /\ Registered(i) /\ links[i].client => links[i].transport
       /\ i \notin background /\ ~Registered(i) => links[i].opened = {}

\* Instances are numbered as they are added, and have one name or none.
Names ==
    /\ \A s \in Server : clients[s] <= added
    /\ \A s, u \in Server : clients[s] = clients[u] /\ clients[s] # 0 => s = u
    /\ \A i \in background : i <= added /\ ~Registered(i)
    /\ \A t \in Task : linking[t].instance <= added
    /\ \A i \in Instance : i > added => links[i] = NewLink

\* Who is at an instance, and the number of a connection that is being opened.
Places ==
    \A t \in Task :
       /\ linking[t].at \in {"idle", "stopping"} <=> linking[t].instance = 0
       /\ linking[t].at \in {"opening", "closing"} => linking[t].n \in Made \ {0}
       /\ linking[t].at = "initializing" => linking[t].n \in Made

McpInv ==
    /\ McpTypeOK
    /\ RegistriesAgree
    /\ Names
    /\ Places
    /\ \A i \in Instance : Owned(i)
    /\ loops \subseteq {monitor}

LEMMA LinkTypes ==
    ASSUME McpTypeOK
    PROVE  /\ links \in [Instance -> Link] /\ linking \in [Task -> Linking]
           /\ clients \in [Server -> 0..MaxAdded] /\ transports \in [Server -> 0..MaxAdded]
           /\ \A i \in Instance : links[i] \in Link
           /\ \A t \in Task : linking[t] \in Linking /\ linking[t].instance \in 0..MaxAdded
BY DEF McpTypeOK, Linking

LEMMA AtRestType ==
    /\ AtRest \in Linking /\ AtRest.at = "idle" /\ AtRest.instance = 0
<1>1. (CHOOSE s \in Server : TRUE) \in Server
  BY McpAssumption
<1> QED
  BY <1>1, McpAssumption DEF AtRest, Linking

\* What the initial states of the manager and of its health loop are.
LEMMA McpInvInit == McpInit => McpInv
<1> SUFFICES ASSUME McpInit PROVE McpInv
  OBVIOUS
<1> USE McpAssumption
<1>1. /\ added = 0 /\ connected = {} /\ background = {}
      /\ clients = [s \in Server |-> 0] /\ transports = [s \in Server |-> 0]
      /\ links = [i \in Instance |-> NewLink] /\ linking = [t \in Task |-> AtRest]
      /\ monitor = 0 /\ loops = {} /\ cancelled = {}
  BY DEF McpInit
<1>2. NewLink \in Link /\ NewLink.opened = {} /\ ~NewLink.client
  BY DEF NewLink, Link, Made
<1>3. McpTypeOK
  BY <1>1, <1>2, AtRestType DEF McpTypeOK
<1>4. \A i \in Instance : Owned(i)
  <2> SUFFICES ASSUME NEW i \in Instance PROVE Owned(i)
    OBVIOUS
  <2>1. links[i] = NewLink /\ \A t \in Task : linking[t].instance # i
    BY <1>1, AtRestType DEF Instance
  <2> QED
    BY <1>2, <2>1 DEF Owned, Sound
<1>5. Names
  BY <1>1, AtRestType DEF Names
<1>6. Places
  BY <1>1, AtRestType DEF Places
<1> QED
  BY <1>1, <1>3, <1>4, <1>5, <1>6 DEF McpInv, RegistriesAgree

\* A task goes on at an instance, comes to it, or leaves it; the names stay.
LEMMA Moves ==
    ASSUME McpInv, NEW t \in Task, NEW i \in Instance,
           linking' \in [Task -> Linking], links' \in [Instance -> Link],
           \A u \in Task \ {t} : linking'[u] = linking[u],
           \A j \in Instance \ {i} : links'[j] = links[j],
           UNCHANGED <<added, clients, transports, background, monitorVars>>,
           connected' \subseteq Server,
           i <= added, linking[t].instance \in {0, i}, linking'[t].instance \in {0, i},
           linking'[t].at \in {"idle", "stopping"} <=> linking'[t].instance = 0,
           linking'[t].at \in {"opening", "closing"} => linking'[t].n \in Made \ {0},
           linking'[t].at = "initializing" => linking'[t].n \in Made,
           ~links'[i].kept =>
              /\ Sound(links'[i])
              /\ Registered(i) /\ links'[i].client => links'[i].transport
              /\ i \notin background /\ ~Registered(i) => links'[i].opened = {}
              /\ \A u \in Task \ {t} : linking[u].instance # i
              /\ linking'[t].instance = i =>
                    clients[linking'[t].name] = i /\ Knows(linking'[t], links'[i])
    PROVE  McpInv'
<1>1. /\ McpTypeOK /\ Names /\ Places /\ RegistriesAgree /\ loops \subseteq {monitor}
      /\ \A j \in Instance : Owned(j)
  BY DEF McpInv
<1>2. McpTypeOK'
  BY <1>1 DEF McpTypeOK, monitorVars
<1>3. \A j \in Instance : Registered(j)' <=> Registered(j)
  BY DEF Registered
<1>4. Names'
  <2>1. \A u \in Task : linking'[u].instance <= added'
    <3>1. added' = added /\ added \in Nat /\ 0 <= added
      BY <1>1, McpAssumption DEF McpTypeOK
    <3>2. linking'[t].instance <= added
      BY <3>1
    <3>3. \A u \in Task : linking[u].instance <= added
      BY <1>1 DEF Names
    <3> QED
      BY <3>1, <3>2, <3>3
  <2>2. \A j \in Instance : j > added' => links'[j] = NewLink
    BY <1>1, McpAssumption DEF Names, Instance, McpTypeOK
  <2> QED
    BY <1>1, <1>3, <2>1, <2>2 DEF Names, McpTypeOK, Registered
<1>5. Places'
  BY <1>1 DEF Places
<1>6. ASSUME NEW j \in Instance
      PROVE  Owned(j)'
  <2>1. CASE j = i
    <3>1. SUFFICES ASSUME ~links'[i].kept
                   PROVE  /\ Sound(links'[i])
                          /\ \A u \in Task : linking'[u].instance = i =>
                                /\ clients[linking'[u].name] = i
                                /\ \A v \in Task : linking'[v].instance = i => v = u
                                /\ Knows(linking'[u], links'[i])
                          /\ Registered(i) /\ links'[i].client => links'[i].transport
                          /\ i \notin background /\ ~Registered(i) => links'[i].opened = {}
      BY <1>3, <2>1 DEF Owned, Sound, Knows
    <3>2. \A u \in Task : linking'[u].instance = i => u = t
      BY <3>1
    <3> QED
      BY <3>1, <3>2
  <2>2. CASE j # i
    <3>1. links'[j] = links[j] /\ Owned(j)
      BY <1>1, <2>2
    <3>2. \A u \in Task : linking'[u].instance = j => u # t /\ linking'[u] = linking[u]
      BY <2>2 DEF Instance
    <3> QED
      BY <1>3, <3>1, <3>2 DEF Owned, Sound, Knows
  <2> QED
    BY <2>1, <2>2
<1> QED
  BY <1>1, <1>2, <1>4, <1>5, <1>6 DEF McpInv, RegistriesAgree, monitorVars

\* A task that is at no instance: what it does leaves the instances as they are.
LEMMA Stays ==
    ASSUME McpInv, NEW t \in Task, linking' \in [Task -> Linking],
           \A u \in Task \ {t} : linking'[u] = linking[u],
           linking[t].instance = 0, linking'[t].instance = 0,
           linking'[t].at \in {"idle", "stopping"},
           UNCHANGED <<added, clients, transports, background, links>>,
           connected' \subseteq Server,
           monitor' \in 0..MaxLoops, loops' \cup cancelled' \subseteq 1..MaxLoops,
           loops' \subseteq {monitor'}
    PROVE  McpInv'
<1>1. /\ McpTypeOK /\ Names /\ Places /\ RegistriesAgree
      /\ \A j \in Instance : Owned(j)
  BY DEF McpInv
<1>2. McpTypeOK'
  BY <1>1 DEF McpTypeOK
<1>3. \A j \in Instance : Registered(j)' <=> Registered(j)
  BY DEF Registered
<1>4. Names'
  BY <1>1, <1>3 DEF Names, McpTypeOK
<1>5. Places'
  BY <1>1 DEF Places
<1>6. ASSUME NEW j \in Instance
      PROVE  Owned(j)'
  <2>1. \A u \in Task : linking'[u].instance = j => u # t /\ linking'[u] = linking[u]
    BY DEF Instance
  <2> QED
    BY <1>1, <1>3, <2>1 DEF Owned, Sound, Knows
<1> QED
  BY <1>1, <1>2, <1>4, <1>5, <1>6 DEF McpInv, RegistriesAgree

\* The end of a disconnect or of a removal, of a client that it leaves as link.
LEMMA FollowsKeeps ==
    ASSUME McpInv, NEW t \in Task, NEW s \in Server, NEW i \in Instance,
           NEW removes \in BOOLEAN, NEW link \in [Instance -> Link],
           \A j \in Instance \ {i} : link[j] = links[j],
           Follows(t, s, i, removes, link),
           i <= added, linking[t].instance \in {0, i},
           ~link[i].kept =>
              /\ clients[s] = i
              /\ Sound(link[i])
              /\ link[i].client => link[i].transport
              /\ ~removes => \A u \in Task \ {t} : linking[u].instance # i
    PROVE  McpInv'
<1>1. /\ McpTypeOK /\ Names /\ Places /\ RegistriesAgree /\ loops \subseteq {monitor}
      /\ \A j \in Instance : Owned(j)
  BY DEF McpInv
<1>2. /\ linking' = [linking EXCEPT ![t] = AtRest]
      /\ UNCHANGED <<added, monitorVars>>
      /\ connected' \subseteq Server
  BY <1>1 DEF Follows, McpTypeOK
<1>3. /\ linking' \in [Task -> Linking] /\ linking'[t] = AtRest
      /\ \A u \in Task \ {t} : linking'[u] = linking[u]
  BY <1>1, <1>2, LinkTypes, AtRestType
<1>4. CASE ~(removes /\ clients[s] # 0)
  <2>1. links' = link /\ UNCHANGED <<clients, transports, background>>
    BY <1>4 DEF Follows
  <2>2. ASSUME ~link[i].kept
        PROVE  Registered(i) /\ i \notin background /\ ~removes
    BY <1>1, <1>4, <2>2 DEF Registered, Names, Instance
  <2>3. /\ linking'[t].at = "idle" /\ linking'[t].instance = 0
    BY <1>3, AtRestType
  <2>4. links' \in [Instance -> Link] /\ \A j \in Instance \ {i} : links'[j] = links[j]
    BY <2>1
  <2>5. ~links'[i].kept =>
              /\ Sound(links'[i])
              /\ Registered(i) /\ links'[i].client => links'[i].transport
              /\ i \notin background /\ ~Registered(i) => links'[i].opened = {}
              /\ \A u \in Task \ {t} : linking[u].instance # i
    BY <2>1, <2>2
  <2>6. i # 0
    BY DEF Instance
  <2> QED
    BY <1>2, <1>3, <2>1, <2>3, <2>4, <2>5, <2>6, Moves
<1>5. CASE removes /\ clients[s] # 0
  <2>1. PICK j \in Instance : j <= added /\ transports[s] = j /\ clients[s] = j
    BY <1>1, <1>5, LinkTypes, McpAssumption DEF Names, RegistriesAgree, Instance
  <2>2. /\ clients' = [clients EXCEPT ![s] = 0] /\ transports' = [transports EXCEPT ![s] = 0]
        /\ background' = IF link[j].transport THEN background \cup {j} ELSE background
        /\ links' = [link EXCEPT ![j].kept = @ \/ j # i \/ BusyBut(t, j)]
    BY <1>5, <2>1 DEF Follows, Forgets
  <2>3. /\ links' \in [Instance -> Link]
        /\ \A k \in Instance \ {j} : links'[k] = link[k]
        /\ links'[j].kept <=> link[j].kept \/ j # i \/ BusyBut(t, j)
        /\ Sound(link[j]) => Sound(links'[j])
        /\ links'[j].transport = link[j].transport /\ links'[j].opened = link[j].opened
    <3>1. links' = [link EXCEPT ![j] =
                       [link[j] EXCEPT !.kept = link[j].kept \/ j # i \/ BusyBut(t, j)]]
      BY <2>1, <2>2
    <3>2. link[j] \in Link
      BY <2>1
    <3> DEFINE l == [link[j] EXCEPT !.kept = link[j].kept \/ j # i \/ BusyBut(t, j)]
    <3>3. l \in Link /\ l.transport = link[j].transport /\ l.opened = link[j].opened
          /\ l.context = link[j].context
      BY <3>2 DEF Link
    <3>4. l.kept <=> link[j].kept \/ j # i \/ BusyBut(t, j)
      BY <3>2 DEF Link
    <3>5. links'[j] = l
      BY <2>1, <3>1
    <3> HIDE DEF l
    <3> QED
      BY <2>1, <3>1, <3>3, <3>4, <3>5 DEF Sound
  <2>4. McpTypeOK'
    BY <1>1, <1>2, <1>3, <2>1, <2>2, <2>3, McpAssumption DEF McpTypeOK, monitorVars
  <2>5. /\ ~Registered(j)'
        /\ \A k \in Instance \ {j} : Registered(k)' <=> Registered(k)
    BY <1>1, <1>5, <2>1, <2>2, LinkTypes DEF Registered, Names, Instance
  <2>6. Names'
    <3>1. \A u \in Server : clients'[u] <= added'
      BY <1>1, <1>2, <2>2, LinkTypes, McpAssumption DEF Names, McpTypeOK
    <3>2. \A u, v \in Server : clients'[u] = clients'[v] /\ clients'[u] # 0 => u = v
      BY <1>1, <2>2, LinkTypes DEF Names
    <3>3. \A k \in background' : k <= added' /\ ~Registered(k)'
      BY <1>1, <1>2, <2>1, <2>2, <2>5 DEF Names, McpTypeOK
    <3>4. \A u \in Task : linking'[u].instance <= added'
      BY <1>1, <1>2, <1>3, AtRestType, McpAssumption DEF Names, McpTypeOK
    <3>5. \A k \in Instance : k > added' => links'[k] = NewLink
      BY <1>1, <1>2, <2>1, <2>3, McpAssumption DEF Names, McpTypeOK, Instance
    <3> QED
      BY <3>1, <3>2, <3>3, <3>4, <3>5 DEF Names, Registered
  <2>7. Places'
    BY <1>1, <1>3, AtRestType DEF Places
  <2>8. ASSUME NEW k \in Instance
        PROVE  Owned(k)'
    <3>1. CASE k # i /\ k # j
      <4>1. links'[k] = links[k] /\ Owned(k) /\ (Registered(k)' <=> Registered(k))
        BY <1>1, <2>3, <2>5, <3>1
      <4>2. \A u \in Task : linking'[u].instance = k => u # t /\ linking'[u] = linking[u]
        BY <1>3, AtRestType DEF Instance
      <4>3. \A u \in Server : clients[u] = k => clients'[u] = k
        BY <1>1, <2>1, <2>2, <3>1, LinkTypes
      <4>4. k \in background' <=> k \in background
        BY <2>2, <3>1
      <4>5. \A u \in Task : linking[u].name \in Server
        BY <1>1, LinkTypes DEF Linking
      <4> QED
        BY <4>1, <4>2, <4>3, <4>4, <4>5 DEF Owned, Sound, Knows
    <3>2. CASE k = j /\ j # i
      BY <2>3, <3>2 DEF Owned
    <3>3. CASE k = i /\ j # i
      BY <2>1, <2>3, <3>3 DEF Owned
    <3>4. CASE k = i /\ j = i
      <4>1. SUFFICES ASSUME ~links'[i].kept
                     PROVE  /\ Sound(links'[i])
                            /\ \A u \in Task : linking'[u].instance # i
                            /\ i \notin background' => links'[i].opened = {}
        <5>1. ~Registered(i)'
          BY <2>5, <3>4
        <5> QED
          BY <3>4, <5>1 DEF Owned, Sound
      <4>2. ~link[i].kept /\ ~BusyBut(t, i)
        BY <2>3, <3>4, <4>1
      <4>3. \A u \in Task : linking'[u].instance # i
        BY <1>3, <4>2, AtRestType DEF BusyBut, Instance
      <4>4. i \notin background' => ~link[i].transport
        BY <2>2, <3>4
      <4> QED
        BY <2>3, <3>4, <4>2, <4>3, <4>4 DEF Sound
    <3> QED
      BY <3>1, <3>2, <3>3, <3>4
  <2>9. RegistriesAgree'
    BY <1>1, <2>2 DEF RegistriesAgree
  <2> QED
    BY <1>1, <1>2, <2>4, <2>6, <2>7, <2>8, <2>9 DEF McpInv, monitorVars
<1> QED
  BY <1>4, <1>5


\* The task of remove_transport(): nobody is at the instance, no name has it.
LEMMA BackgroundKeeps ==
    ASSUME McpInv, NEW i \in Instance, BackgroundCloses(i)
    PROVE  McpInv'
<1>1. /\ McpTypeOK /\ Names /\ Places /\ RegistriesAgree /\ loops \subseteq {monitor}
      /\ \A j \in Instance : Owned(j)
  BY DEF McpInv
<1>2. /\ i \in background /\ background' = background \ {i} /\ i <= added /\ ~Registered(i)
      /\ UNCHANGED <<added, clients, transports, connected, linking, monitorVars>>
  BY <1>1 DEF BackgroundCloses, Names
<1>3. PICK l \in Link :
         /\ links' = [links EXCEPT ![i] = l]
         /\ ~l.kept => ~links[i].kept
         /\ ~l.kept /\ Sound(links[i]) => l.opened = {}
  <2>1. links \in [Instance -> Link] /\ links[i] \in Link
    BY <1>1, LinkTypes
  <2>2. CASE ~Closable(links[i]) /\ links' = [links EXCEPT ![i].transport = FALSE]
    <3> DEFINE l == [links[i] EXCEPT !.transport = FALSE]
    <3>1. l \in Link /\ l.kept = links[i].kept /\ l.opened = links[i].opened
      BY <2>1 DEF Link
    <3>2. Sound(links[i]) => links[i].opened = {}
      BY <2>2 DEF Sound, Closable
    <3>3. links' = [links EXCEPT ![i] = l]
      BY <2>2
    <3> QED
      BY <3>1, <3>2, <3>3
  <2>3. CASE links' = [links EXCEPT ![i] = Shut(links[i], links[i].context)]
    <3> DEFINE l == Shut(links[i], links[i].context)
    <3> DEFINE o == links[i].opened \ {links[i].context}
    <3>1. o \subseteq Made /\ 0 \in Made
      BY <2>1, McpAssumption DEF Link, Made
    <3>2. l = [links[i] EXCEPT !.opened = o, !.context = 0, !.transport = FALSE]
      BY DEF Shut
    <3> HIDE DEF o, l
    <3>3. l \in Link /\ l.kept = links[i].kept /\ l.opened = o
      BY <2>1, <3>1, <3>2 DEF Link
    <3>4. l \in Link /\ l.kept = links[i].kept
          /\ l.opened = links[i].opened \ {links[i].context}
      BY <3>3 DEF o
    <3> USE DEF l
    <3>5. Sound(links[i]) => l.opened = {}
      BY <3>4 DEF Sound
    <3>6. links' = [links EXCEPT ![i] = l]
      BY <2>3
    <3> QED
      BY <3>4, <3>5, <3>6
  <2>4. ASSUME NEW open \in BOOLEAN,
               links' = [links EXCEPT ![i] = Stuck(links[i], links[i].context, open)]
        PROVE  \E l \in Link : links' = [links EXCEPT ![i] = l] /\ l.kept
    <3> DEFINE l == Stuck(links[i], links[i].context, open)
    <3>1. l \in Link /\ l.kept
      BY <2>1 DEF Link, Stuck
    <3> QED
      BY <2>4, <3>1
  <2> QED
    BY <2>2, <2>3, <2>4 DEF BackgroundCloses
<1>4. /\ links' \in [Instance -> Link] /\ links'[i] = l
      /\ \A j \in Instance \ {i} : links'[j] = links[j]
  BY <1>1, <1>3, LinkTypes
<1>5. McpTypeOK'
  BY <1>1, <1>2, <1>4 DEF McpTypeOK, monitorVars
<1>6. \A j \in Instance : Registered(j)' <=> Registered(j)
  BY <1>2 DEF Registered
<1>7. Names'
  BY <1>1, <1>2, <1>4, <1>6, McpAssumption DEF Names, McpTypeOK, Instance
<1>8. Places'
  BY <1>1, <1>2 DEF Places
<1>9. ASSUME NEW j \in Instance
      PROVE  Owned(j)'
  <2>1. CASE j = i
    <3>1. SUFFICES ASSUME ~l.kept
                   PROVE  /\ Sound(l) /\ l.opened = {}
                          /\ \A u \in Task : linking[u].instance # i
      BY <1>2, <1>4, <1>6, <2>1 DEF Owned, Sound, Knows
    <3>2. Owned(i) /\ ~links[i].kept
      BY <1>1, <1>3, <3>1
    <3>3. l.opened = {}
      BY <1>3, <3>1, <3>2 DEF Owned
    <3>4. \A u \in Task : linking[u].name \in Server
      BY <1>1, LinkTypes DEF Linking
    <3>5. \A u \in Task : linking[u].instance # i
      BY <1>2, <3>2, <3>4 DEF Owned, Registered
    <3> QED
      BY <3>3, <3>5 DEF Sound
  <2>2. CASE j # i
    <3>1. links'[j] = links[j] /\ Owned(j) /\ (j \in background' <=> j \in background)
      BY <1>1, <1>2, <1>4, <2>2
    <3> QED
      BY <1>2, <1>6, <3>1 DEF Owned, Sound, Knows
  <2> QED
    BY <2>1, <2>2
<1> QED
  BY <1>1, <1>2, <1>5, <1>6, <1>7, <1>8, <1>9 DEF McpInv, RegistriesAgree, monitorVars

\* A server is added: the one that had its name, if one had, is given up.
LEMMA AddKeeps ==
    ASSUME McpInv, NEW s \in Server, AddServer(s)
    PROVE  McpInv'
<1>1. /\ McpTypeOK /\ Names /\ Places /\ RegistriesAgree /\ loops \subseteq {monitor}
      /\ \A j \in Instance : Owned(j)
  BY DEF McpInv
<1>2. PICK i \in Instance : i = added + 1
  BY <1>1, McpAssumption DEF AddServer, McpTypeOK, Instance
<1>3. PICK old \in 0..MaxAdded : old = clients[s] /\ old = transports[s] /\ old <= added
  BY <1>1, LinkTypes DEF Names, RegistriesAgree
<1>4. /\ added' = i /\ clients' = [clients EXCEPT ![s] = i]
      /\ transports' = [transports EXCEPT ![s] = i]
      /\ UNCHANGED <<connected, background, linking, monitorVars>>
  BY <1>2 DEF AddServer, TransportAdded
<1>5. /\ links' \in [Instance -> Link]
      /\ \A j \in Instance \ {old} : links'[j] = links[j]
      /\ old # 0 => links'[old].kept
  <2>1. links' = IF old = 0 THEN links ELSE [links EXCEPT ![old].kept = TRUE]
    BY <1>3 DEF AddServer, TransportAdded
  <2>2. links \in [Instance -> Link]
    BY <1>1, LinkTypes
  <2>3. old # 0 => old \in Instance
    BY McpAssumption DEF Instance
  <2> QED
    BY <2>1, <2>2, <2>3, ZenonT(60) DEF Link
<1>6. /\ links'[i] = NewLink /\ i # old
      /\ \A u \in Task : linking[u].instance # i
      /\ \A u \in Server : clients[u] # i
      /\ \A k \in background : k # i
  <2>1. added \in Nat /\ i > added /\ i \in Nat
    BY <1>1, <1>2, McpAssumption DEF McpTypeOK
  <2>2. links[i] = NewLink /\ i # old
    BY <1>1, <1>2, <1>3, <2>1, McpAssumption DEF Names
  <2>3. \A u \in Task : linking[u].instance # i
    BY <1>1, <1>2, <2>1, LinkTypes, McpAssumption DEF Names
  <2>4. \A u \in Server : clients[u] # i
    BY <1>1, <1>2, <2>1, LinkTypes, McpAssumption DEF Names
  <2>5. \A k \in background : k # i
    BY <1>1, <1>2, <2>1, McpAssumption DEF Names, McpTypeOK, Instance
  <2> QED
    BY <1>5, <2>2, <2>3, <2>4, <2>5
<1>7. McpTypeOK'
  <2>1. i \in 0..MaxAdded
    BY <1>2, McpAssumption DEF Instance
  <2> QED
    BY <1>1, <1>4, <1>5, <2>1 DEF McpTypeOK, monitorVars
<1>8. /\ Registered(i)'
      /\ \A k \in Instance : k # i /\ k # old => (Registered(k)' <=> Registered(k))
      /\ \A k \in Instance : ~Registered(k) /\ k # i => ~Registered(k)'
  BY <1>1, <1>3, <1>4, LinkTypes DEF Registered
<1>9. Names'
  <2>1. \A u \in Server : clients'[u] <= added'
    BY <1>1, <1>2, <1>4, LinkTypes, McpAssumption DEF Names, McpTypeOK
  <2>2. \A u, v \in Server : clients'[u] = clients'[v] /\ clients'[u] # 0 => u = v
    BY <1>1, <1>4, <1>6, LinkTypes DEF Names
  <2>3. \A k \in background' : k <= added' /\ ~Registered(k)'
    BY <1>1, <1>2, <1>4, <1>6, <1>8, McpAssumption DEF Names, McpTypeOK, Instance
  <2>4. \A u \in Task : linking'[u].instance <= added'
    BY <1>1, <1>2, <1>4, LinkTypes, McpAssumption DEF Names, McpTypeOK
  <2>5. \A k \in Instance : k > added' => links'[k] = NewLink
    BY <1>1, <1>2, <1>3, <1>4, <1>5, McpAssumption DEF Names, McpTypeOK, Instance
  <2> QED
    BY <2>1, <2>2, <2>3, <2>4, <2>5 DEF Names, Registered
<1>10. Places'
  BY <1>1, <1>4 DEF Places
<1>11. ASSUME NEW k \in Instance
       PROVE  Owned(k)'
  <2>1. CASE k = i
    <3>1. Sound(links'[k]) /\ links'[k].opened = {} /\ ~links'[k].client
      BY <1>6, <2>1 DEF NewLink, Sound
    <3>2. \A u \in Task : linking'[u].instance # k
      BY <1>4, <1>6, <2>1
    <3> QED
      BY <3>1, <3>2 DEF Owned, Sound
  <2>2. CASE k = old
    BY <1>5, <2>2 DEF Owned, Instance
  <2>3. CASE k # i /\ k # old
    <3>1. links'[k] = links[k] /\ Owned(k) /\ (Registered(k)' <=> Registered(k))
      BY <1>1, <1>5, <1>8, <2>3
    <3>2. \A u \in Server : clients[u] = k => clients'[u] = k
      BY <1>1, <1>3, <1>4, <2>3, LinkTypes
    <3>3. \A u \in Task : linking[u].name \in Server
      BY <1>1, LinkTypes DEF Linking
    <3> QED
      BY <1>4, <3>1, <3>2, <3>3 DEF Owned, Sound, Knows
  <2> QED
    BY <2>1, <2>2, <2>3
<1> QED
  BY <1>1, <1>4, <1>7, <1>9, <1>10, <1>11 DEF McpInv, RegistriesAgree, monitorVars

\* A task that was at no instance begins to connect or to disconnect one.
LEMMA StartsKeep ==
    ASSUME McpInv, NEW t \in Task, NEW s \in Server, NEW i \in Instance,
           NEW at \in {"opening", "entering", "ending", "closing"},
           NEW removes \in BOOLEAN, NEW n \in Made, NEW link \in Link,
           linking[t].at = "idle", clients[s] = i,
           Starts(t, s, i, at, removes, n, link),
           UNCHANGED <<added, clients, transports, connected, background, monitorVars>>,
           link.kept = links[i].kept, link.opened = links[i].opened,
           link.client = links[i].client, link.transport = links[i].transport,
           IF at = "opening" THEN ~link.transport /\ n # 0 /\ link.context = n
                             ELSE link.context = links[i].context,
           at \in {"opening", "entering"} => ~link.client,
           at \in {"entering", "closing"} => link.transport,
           at = "ending" => link.session # 0,
           at = "closing" => n # 0 /\ link.context = n
    PROVE  McpInv'
<1>1. /\ McpTypeOK /\ Names /\ Places /\ RegistriesAgree /\ loops \subseteq {monitor}
      /\ \A j \in Instance : Owned(j)
  BY DEF McpInv
<1> DEFINE l == [link EXCEPT !.kept = link.kept \/ BusyAt(i)]
           a == [at |-> at, removes |-> removes, name |-> s, instance |-> i, n |-> n]
<1>2. linking' = [linking EXCEPT ![t] = a] /\ links' = [links EXCEPT ![i] = l]
  BY DEF Starts
<1>3. /\ a \in Linking /\ a.at = at /\ a.name = s /\ a.instance = i /\ a.n = n
  BY McpAssumption DEF Linking, Instance, Made
<1>4. /\ l \in Link /\ l.opened = link.opened /\ l.client = link.client
      /\ l.transport = link.transport /\ l.context = link.context /\ l.session = link.session
  BY DEF Link
<1>5. l.kept <=> link.kept \/ BusyAt(i)
  BY DEF Link
<1> HIDE DEF l, a
<1>6. /\ linking' \in [Task -> Linking] /\ links' \in [Instance -> Link]
      /\ linking'[t] = a /\ links'[i] = l
      /\ \A u \in Task \ {t} : linking'[u] = linking[u]
      /\ \A j \in Instance \ {i} : links'[j] = links[j]
  BY <1>1, <1>2, <1>3, <1>4, LinkTypes
<1>7. /\ i <= added /\ linking[t].instance = 0 /\ i # 0
      /\ connected' \subseteq Server /\ Registered(i)
  BY <1>1 DEF Names, Places, Instance, McpTypeOK, Registered
<1>8. ASSUME ~l.kept
      PROVE  /\ Sound(l)
             /\ l.client => l.transport
             /\ \A u \in Task \ {t} : linking[u].instance # i
             /\ Knows(a, l)
  <2>1. ~link.kept /\ ~BusyAt(i)
    BY <1>5, <1>8
  <2>2. Sound(links[i]) /\ (links[i].client => links[i].transport)
    BY <1>1, <1>7, <2>1 DEF Owned
  <2>3. Sound(l)
    BY <1>4, <2>2 DEF Sound
  <2>4. at = "opening" => l.opened = {}
    BY <1>4, <2>2 DEF Sound
  <2>5. Knows(a, l)
    BY <1>3, <1>4, <2>4 DEF Knows
  <2>6. \A u \in Task \ {t} : linking[u].instance # i
    BY <2>1 DEF BusyAt
  <2> QED
    BY <1>4, <2>2, <2>3, <2>5, <2>6
<1> QED
  BY <1>3, <1>6, <1>7, <1>8, Moves

LEMMA ConnectBeginsKeeps ==
    ASSUME McpInv, NEW t \in Task, NEW s \in Server, ConnectBegins(t, s)
    PROVE  McpInv'
<1>1. McpTypeOK
  BY DEF McpInv
<1>2. PICK i \in Instance : i = clients[s]
  BY <1>1, LinkTypes, McpAssumption DEF ConnectBegins, Instance
<1>3. PICK n \in Made : n = links[i].made + 1
  BY <1>2 DEF ConnectBegins
<1>4. links[i] \in Link /\ n # 0
  BY <1>1, <1>3, LinkTypes, McpAssumption DEF Link, Made
<1>5. /\ linking[t].at = "idle" /\ ~links[i].client
      /\ UNCHANGED <<added, clients, transports, connected, background, monitorVars>>
  BY <1>2 DEF ConnectBegins
<1>6. CASE links[i].transport
  <2> DEFINE l == [links[i] EXCEPT !.made = n, !.session = n]
  <2>1. /\ l \in Link /\ l.kept = links[i].kept /\ l.opened = links[i].opened
        /\ l.client = links[i].client /\ l.transport = links[i].transport
        /\ l.context = links[i].context
    BY <1>4 DEF Link
  <2>2. Starts(t, s, i, "entering", FALSE, n, l)
    BY <1>2, <1>3, <1>6 DEF ConnectBegins
  <2> HIDE DEF l
  <2> QED
    BY <1>2, <1>5, <1>6, <2>1, <2>2, StartsKeep
<1>7. CASE ~links[i].transport
  <2> DEFINE l == [links[i] EXCEPT !.made = n, !.context = n]
  <2>1. /\ l \in Link /\ l.kept = links[i].kept /\ l.opened = links[i].opened
        /\ l.client = links[i].client /\ l.transport = links[i].transport
        /\ l.context = n
    BY <1>4 DEF Link
  <2>2. Starts(t, s, i, "opening", FALSE, n, l)
    BY <1>2, <1>3, <1>7 DEF ConnectBegins
  <2> HIDE DEF l
  <2> QED
    BY <1>2, <1>4, <1>5, <1>7, <2>1, <2>2, StartsKeep
<1> QED
  BY <1>6, <1>7

LEMMA DisconnectBeginsKeeps ==
    ASSUME McpInv, NEW t \in Task, NEW s \in Server, NEW removes \in BOOLEAN,
           DisconnectBegins(t, s, removes)
    PROVE  McpInv'
<1>1. McpTypeOK
  BY DEF McpInv
<1>2. PICK i \in Instance : i = clients[s]
  BY <1>1, LinkTypes, McpAssumption DEF DisconnectBegins, Instance
<1>3. /\ links[i] \in Link /\ links[i].context \in Made /\ 0 \in Made
  BY <1>1, LinkTypes, McpAssumption DEF Link, Made
<1>4. /\ linking[t].at = "idle"
      /\ UNCHANGED <<added, clients, transports, connected, background, monitorVars>>
      /\ links[i].session # 0 \/ Closable(links[i])
  BY <1>2 DEF DisconnectBegins
<1>5. CASE links[i].session # 0
  <2>1. Starts(t, s, i, "ending", removes, 0, links[i])
    BY <1>2, <1>5 DEF DisconnectBegins
  <2> QED
    BY <1>2, <1>3, <1>4, <1>5, <2>1, StartsKeep
<1>6. CASE links[i].session = 0
  <2>1. Starts(t, s, i, "closing", removes, links[i].context, links[i])
    BY <1>2, <1>6 DEF DisconnectBegins
  <2>2. links[i].transport /\ links[i].context # 0
    BY <1>4, <1>6 DEF Closable
  <2> QED
    BY <1>2, <1>3, <1>4, <2>1, <2>2, StartsKeep
<1> QED
  BY <1>5, <1>6

\* A task that is at an instance: what is known of both.
LEMMA Present ==
    ASSUME McpInv, NEW t \in Task, linking[t].at \notin {"idle", "stopping"}
    PROVE  /\ linking[t].instance \in Instance /\ linking[t].instance <= added
           /\ linking[t] \in Linking /\ linking[t].name \in Server
           /\ linking[t].removes \in BOOLEAN
           /\ links[linking[t].instance] \in Link
           /\ ~links[linking[t].instance].kept =>
                 /\ Sound(links[linking[t].instance])
                 /\ Registered(linking[t].instance)
                 /\ linking[t].instance \notin background
                 /\ clients[linking[t].name] = linking[t].instance
                 /\ \A u \in Task \ {t} : linking[u].instance # linking[t].instance
                 /\ Knows(linking[t], links[linking[t].instance])
                 /\ links[linking[t].instance].client => links[linking[t].instance].transport
<1>1. /\ McpTypeOK /\ Names /\ Places /\ \A j \in Instance : Owned(j)
  BY DEF McpInv
<1>2. linking[t] \in Linking /\ linking[t].name \in Server /\ linking[t].removes \in BOOLEAN
  BY <1>1, LinkTypes DEF Linking
<1>3. PICK i \in Instance : i = linking[t].instance
  <2>1. linking[t].instance # 0
    BY <1>1 DEF Places
  <2>2. linking[t].instance \in 0..MaxAdded
    BY <1>1, LinkTypes
  <2> QED
    BY <2>1, <2>2, McpAssumption DEF Instance
<1>4. i <= added /\ links[i] \in Link /\ Owned(i)
  BY <1>1, <1>3, LinkTypes DEF Names
<1>5. ASSUME ~links[i].kept
      PROVE  /\ Sound(links[i]) /\ Registered(i) /\ i \notin background
             /\ clients[linking[t].name] = i
             /\ \A u \in Task \ {t} : linking[u].instance # i
             /\ Knows(linking[t], links[i])
             /\ links[i].client => links[i].transport
  <2>1. /\ Sound(links[i]) /\ clients[linking[t].name] = i /\ Knows(linking[t], links[i])
        /\ \A u \in Task \ {t} : linking[u].instance # i
        /\ Registered(i) /\ links[i].client => links[i].transport
    BY <1>3, <1>4, <1>5 DEF Owned
  <2>2. Registered(i)
    BY <1>2, <2>1 DEF Registered
  <2> QED
    BY <1>1, <2>1, <2>2 DEF Names
<1> QED
  BY <1>2, <1>3, <1>4, <1>5

LEMMA OpenedKeeps ==
    ASSUME McpInv, NEW t \in Task, Opened(t)
    PROVE  McpInv'
<1>1. McpTypeOK /\ Places
  BY DEF McpInv
<1>2. PICK a \in Linking, i \in Instance : a = linking[t] /\ i = a.instance
  BY Present DEF Opened
<1>3. /\ a.at = "opening" /\ a.n \in Made \ {0} /\ links[i] \in Link
      /\ UNCHANGED <<added, clients, transports, connected, background, monitorVars>>
  BY <1>1, <1>2, LinkTypes DEF Opened, Places
<1> DEFINE l == [[[links[i] EXCEPT !.opened = @ \cup {a.n}] EXCEPT !.transport = TRUE]
                                    EXCEPT !.session = a.n]
           b == [a EXCEPT !.at = "entering"]
<1>4. linking' = [linking EXCEPT ![t] = b] /\ links' = [links EXCEPT ![i] = l]
  BY <1>1, <1>2, LinkTypes DEF Opened
<1>5. /\ b \in Linking /\ b.at = "entering" /\ b.name = a.name /\ b.instance = i /\ b.n = a.n
  BY <1>2 DEF Linking
<1>6. /\ l \in Link /\ l.opened = links[i].opened \cup {a.n} /\ l.client = links[i].client
      /\ l.transport = TRUE /\ l.context = links[i].context /\ l.kept = links[i].kept
  BY <1>3 DEF Link
<1> HIDE DEF l, b
<1>7. /\ linking' \in [Task -> Linking] /\ links' \in [Instance -> Link]
      /\ linking'[t] = b /\ links'[i] = l
      /\ \A u \in Task \ {t} : linking'[u] = linking[u]
      /\ \A j \in Instance \ {i} : links'[j] = links[j]
  BY <1>1, <1>4, <1>5, <1>6, LinkTypes
<1>8. /\ i <= added /\ connected' \subseteq Server /\ i # 0
  <2>1. i <= added
    BY <1>2, <1>3, Present
  <2> QED
    BY <1>1, <1>3, <2>1 DEF Instance, McpTypeOK
<1>9. ASSUME ~l.kept
      PROVE  /\ Sound(l) /\ Registered(i)
             /\ \A u \in Task \ {t} : linking[u].instance # i
             /\ clients[b.name] = i /\ Knows(b, l)
  <2>1. /\ Registered(i) /\ clients[a.name] = i /\ Knows(a, links[i])
        /\ \A u \in Task \ {t} : linking[u].instance # i
    BY <1>2, <1>3, <1>6, <1>9, Present
  <2> QED
    BY <1>3, <1>5, <1>6, <2>1 DEF Knows, Sound
<1> QED
  BY <1>2, <1>3, <1>5, <1>6, <1>7, <1>8, <1>9, Moves

\* A task at an instance goes on, or leaves it, and its link stays as it is.
LEMMA GoesOn ==
    ASSUME McpInv, NEW t \in Task, linking[t].at \notin {"idle", "stopping"},
           NEW b \in Linking, linking' = [linking EXCEPT ![t] = b],
           UNCHANGED <<serverVars, monitorVars>>,
           \/ b = AtRest
           \/ /\ linking[t].at = "entering" /\ b.at = "initializing"
              /\ b.instance = linking[t].instance /\ b.name = linking[t].name
              /\ b.n \in Made
    PROVE  McpInv'
<1>1. McpTypeOK /\ Places
  BY DEF McpInv
<1>2. PICK i \in Instance : i = linking[t].instance
  BY Present
<1>3. /\ linking' \in [Task -> Linking] /\ linking'[t] = b
      /\ \A u \in Task \ {t} : linking'[u] = linking[u]
      /\ links' = links /\ links' \in [Instance -> Link]
      /\ UNCHANGED <<added, clients, transports, connected, background, monitorVars>>
      /\ connected' \subseteq Server
  BY <1>1, LinkTypes DEF serverVars, McpTypeOK
<1>4. i <= added /\ i # 0
  BY <1>2, Present DEF Instance
<1>5. /\ b.instance \in {0, i} /\ b.at \notin {"opening", "closing"}
      /\ b.at \in {"idle", "stopping"} <=> b.instance = 0
      /\ b.at = "initializing" => b.n \in Made
  BY <1>2, <1>4, AtRestType
<1>6. ASSUME ~links[i].kept
      PROVE  /\ Sound(links[i]) /\ Registered(i)
             /\ links[i].client => links[i].transport
             /\ \A u \in Task \ {t} : linking[u].instance # i
             /\ b.instance = i => clients[b.name] = i /\ Knows(b, links[i])
  <2>1. /\ Sound(links[i]) /\ Registered(i)
        /\ clients[linking[t].name] = i /\ Knows(linking[t], links[i])
        /\ \A u \in Task \ {t} : linking[u].instance # i
        /\ links[i].client => links[i].transport
    BY <1>2, <1>6, Present
  <2> QED
    BY <1>4, <2>1, AtRestType DEF Knows
<1> QED
  BY <1>2, <1>3, <1>4, <1>5, <1>6, Moves

LEMMA EnteredKeeps ==
    ASSUME McpInv, NEW t \in Task, Entered(t)
    PROVE  McpInv'
<1>1. McpTypeOK /\ linking[t].at = "entering" /\ linking[t] \in Linking
  BY LinkTypes DEF McpInv, Entered
<1>2. PICK n \in Made : n = links[linking[t].instance].session
  BY <1>1, Present DEF Link
<1> DEFINE b == [linking[t] EXCEPT !.at = "initializing", !.n = n]
<1>3. /\ b \in Linking /\ b.at = "initializing" /\ b.n \in Made
      /\ b.instance = linking[t].instance /\ b.name = linking[t].name
  <2>1. n \in Nat
    BY McpAssumption DEF Made
  <2> QED
    BY <1>1, <2>1 DEF Linking
<1>4. /\ linking' = [linking EXCEPT ![t] = AtRest] \/ linking' = [linking EXCEPT ![t] = b]
      /\ UNCHANGED <<serverVars, monitorVars>>
  BY <1>2 DEF Entered
<1> HIDE DEF b
<1> QED
  BY <1>1, <1>3, <1>4, AtRestType, GoesOn

LEMMA ConnectFailsKeeps ==
    ASSUME McpInv, NEW t \in Task, ConnectFails(t)
    PROVE  McpInv'
BY AtRestType, GoesOn DEF ConnectFails

LEMMA InitializedKeeps ==
    ASSUME McpInv, NEW t \in Task, Initialized(t)
    PROVE  McpInv'
<1>1. McpTypeOK /\ Places
  BY DEF McpInv
<1>2. PICK a \in Linking, i \in Instance : a = linking[t] /\ i = a.instance
  BY Present DEF Initialized
<1>3. /\ a.at = "initializing" /\ links[i] \in Link /\ a.name \in Server
      /\ UNCHANGED <<added, clients, transports, background, monitorVars>>
      /\ connected' = connected \cup {a.name}
      /\ linking' = [linking EXCEPT ![t] = AtRest]
  BY <1>1, <1>2, LinkTypes, Present DEF Initialized
<1> DEFINE l == [links[i] EXCEPT !.client = TRUE]
<1>4. links' = [links EXCEPT ![i] = l]
  BY <1>1, <1>2, LinkTypes DEF Initialized
<1>5. /\ l \in Link /\ l.opened = links[i].opened /\ l.kept = links[i].kept
      /\ l.transport = links[i].transport /\ l.context = links[i].context
  BY <1>3 DEF Link
<1> HIDE DEF l
<1>6. /\ linking' \in [Task -> Linking] /\ links' \in [Instance -> Link]
      /\ linking'[t] = AtRest /\ links'[i] = l
      /\ \A u \in Task \ {t} : linking'[u] = linking[u]
      /\ \A j \in Instance \ {i} : links'[j] = links[j]
  BY <1>1, <1>3, <1>4, <1>5, AtRestType, LinkTypes
<1>7. /\ i <= added /\ i # 0 /\ connected' \subseteq Server
  BY <1>1, <1>2, <1>3, Present, SMTT(60) DEF Instance, McpTypeOK
<1>8. ASSUME ~l.kept
      PROVE  /\ Sound(l) /\ Registered(i) /\ l.transport
             /\ \A u \in Task \ {t} : linking[u].instance # i
  <2>1. /\ Registered(i) /\ Sound(links[i]) /\ Knows(a, links[i])
        /\ \A u \in Task \ {t} : linking[u].instance # i
    BY <1>2, <1>3, <1>5, <1>8, Present
  <2> QED
    BY <1>3, <1>5, <2>1 DEF Knows, Sound
<1> QED
  BY <1>2, <1>3, <1>6, <1>7, <1>8, AtRestType, Moves

\* A task at an instance ends its disconnect.
LEMMA LeavesKeep ==
    ASSUME McpInv, NEW t \in Task, linking[t].at \notin {"idle", "stopping"},
           NEW i \in Instance, i = linking[t].instance, NEW l \in Link,
           Follows(t, linking[t].name, i, linking[t].removes, [links EXCEPT ![i] = l]),
           ~l.kept /\ Sound(links[i]) /\ Knows(linking[t], links[i]) =>
              ~links[i].kept /\ Sound(l) /\ ~l.client,
           ~l.kept => ~links[i].kept
    PROVE  McpInv'
<1>1. McpTypeOK
  BY DEF McpInv
<1> DEFINE link == [links EXCEPT ![i] = l]
<1>2. /\ link \in [Instance -> Link] /\ link[i] = l
      /\ \A j \in Instance \ {i} : link[j] = links[j]
  BY <1>1, LinkTypes
<1>3. /\ i <= added /\ linking[t].name \in Server /\ linking[t].removes \in BOOLEAN
  BY Present
<1>4. ~l.kept => /\ clients[linking[t].name] = i /\ Sound(l)
                 /\ l.client => l.transport
                 /\ \A u \in Task \ {t} : linking[u].instance # i
  BY Present
<1>5. Follows(t, linking[t].name, i, linking[t].removes, link)
  OBVIOUS
<1> HIDE DEF link
<1>6. linking[t].instance \in {0, i}
  OBVIOUS
<1>7. ~link[i].kept =>
              /\ clients[linking[t].name] = i
              /\ Sound(link[i])
              /\ link[i].client => link[i].transport
              /\ ~linking[t].removes => \A u \in Task \ {t} : linking[u].instance # i
  BY <1>2, <1>4
<1> QED
  BY <1>2, <1>3, <1>5, <1>6, <1>7, FollowsKeeps

LEMMA SessionEndedKeeps ==
    ASSUME McpInv, NEW t \in Task, SessionEnded(t)
    PROVE  McpInv'
<1>1. McpTypeOK /\ Places
  BY DEF McpInv
<1>2. PICK a \in Linking, i \in Instance : a = linking[t] /\ i = a.instance
  BY Present DEF SessionEnded
<1>3. /\ a.at = "ending" /\ links[i] \in Link /\ a.name \in Server /\ i <= added
  BY <1>1, <1>2, LinkTypes, Present DEF SessionEnded
<1> DEFINE e == [links[i] EXCEPT !.session = 0]
<1>4. /\ e \in Link /\ e.opened = links[i].opened /\ e.kept = links[i].kept
      /\ e.client = links[i].client /\ e.transport = links[i].transport
      /\ e.context = links[i].context
  BY <1>3, McpAssumption DEF Link, Made
<1>5. [links EXCEPT ![i].session = 0] = [links EXCEPT ![i] = e]
  BY <1>1, LinkTypes
<1>6. CASE Closable(links[i])
  <2> DEFINE b == [[a EXCEPT !.at = "closing"] EXCEPT !.n = links[i].context]
  <2>1. /\ linking' = [linking EXCEPT ![t] = b] /\ links' = [links EXCEPT ![i] = e]
        /\ UNCHANGED <<added, clients, transports, connected, background, monitorVars>>
    BY <1>1, <1>2, <1>5, <1>6, LinkTypes DEF SessionEnded
  <2>2. links[i].context \in Made \ {0} /\ links[i].transport
    BY <1>3, <1>6 DEF Closable, Link
  <2>3. PICK n \in Made : n = links[i].context /\ n \in Nat /\ n # 0
    BY <2>2, McpAssumption DEF Made
  <2>4. /\ b \in Linking /\ b.at = "closing" /\ b.name = a.name /\ b.instance = i
        /\ b.n = links[i].context
    BY <1>2, <2>3 DEF Linking
  <2> HIDE DEF b, e
  <2>5. /\ linking' \in [Task -> Linking] /\ links' \in [Instance -> Link]
        /\ linking'[t] = b /\ links'[i] = e
        /\ \A u \in Task \ {t} : linking'[u] = linking[u]
        /\ \A j \in Instance \ {i} : links'[j] = links[j]
    BY <1>1, <1>4, <2>1, <2>4, LinkTypes
  <2>6. connected' \subseteq Server /\ i # 0
    BY <1>1, <2>1 DEF Instance, McpTypeOK
  <2>7. ASSUME ~e.kept
        PROVE  /\ Sound(e) /\ Registered(i)
               /\ \A u \in Task \ {t} : linking[u].instance # i
               /\ clients[b.name] = i /\ Knows(b, e)
    <3>1. /\ Registered(i) /\ Sound(links[i]) /\ clients[a.name] = i
          /\ \A u \in Task \ {t} : linking[u].instance # i
      BY <1>2, <1>3, <1>4, <2>7, Present
    <3> QED
      BY <1>4, <2>2, <2>4, <3>1 DEF Knows, Sound
  <2>8. e.transport
    BY <1>4, <2>2
  <2> QED
    BY <1>2, <1>3, <2>1, <2>2, <2>4, <2>5, <2>6, <2>7, <2>8, Moves
<1>7. CASE ~Closable(links[i])
  <2> DEFINE l == [[[links[i] EXCEPT !.session = 0] EXCEPT !.client = FALSE]
                                        EXCEPT !.transport = FALSE]
  <2>1. Follows(t, a.name, i, a.removes, [links EXCEPT ![i] = l])
    <3>1. Follows(t, a.name, i, a.removes,
                  [[links EXCEPT ![i].session = 0] EXCEPT ![i].client = FALSE,
                                                          ![i].transport = FALSE])
      BY <1>2, <1>7 DEF SessionEnded
    <3>2. [[links EXCEPT ![i].session = 0] EXCEPT ![i].client = FALSE, ![i].transport = FALSE]
            = [links EXCEPT ![i] = l]
      BY <1>1, LinkTypes
    <3> QED
      BY <3>1, <3>2
  <2>2. /\ l \in Link /\ l.opened = links[i].opened /\ l.kept = links[i].kept
        /\ ~l.client /\ l.context = links[i].context
    <3>1. 0 \in Made
      BY McpAssumption DEF Made
    <3> QED
      BY <1>3, <3>1 DEF Link
  <2> HIDE DEF l
  <2>3. Sound(links[i]) => Sound(l)
    BY <1>7, <2>2 DEF Sound, Closable
  <2> QED
    BY <1>2, <1>3, <2>1, <2>2, <2>3, LeavesKeep
<1> QED
  BY <1>6, <1>7

LEMMA SessionEndFailsKeeps ==
    ASSUME McpInv, NEW t \in Task, SessionEndFails(t)
    PROVE  McpInv'
<1>1. McpTypeOK
  BY DEF McpInv
<1>2. PICK i \in Instance : i = linking[t].instance /\ links[i] \in Link
  BY Present DEF SessionEndFails
<1> DEFINE l == [links[i] EXCEPT !.kept = TRUE]
<1>3. Follows(t, linking[t].name, i, linking[t].removes, [links EXCEPT ![i] = l])
  BY <1>1, <1>2, LinkTypes DEF SessionEndFails
<1>4. l \in Link /\ l.kept
  BY <1>2 DEF Link
<1> HIDE DEF l
<1> QED
  BY <1>2, <1>3, <1>4, LeavesKeep DEF SessionEndFails

LEMMA TransportClosedKeeps ==
    ASSUME McpInv, NEW t \in Task, TransportClosed(t)
    PROVE  McpInv'
<1>1. McpTypeOK /\ linking[t].at = "closing"
  BY DEF McpInv, TransportClosed
<1>2. PICK i \in Instance : i = linking[t].instance /\ links[i] \in Link
  BY <1>1, Present
<1> DEFINE o == links[i].opened \ {linking[t].n}
           l == [[links[i] EXCEPT !.opened = o, !.context = 0, !.transport = FALSE]
                    EXCEPT !.client = FALSE]
<1>3. Follows(t, linking[t].name, i, linking[t].removes, [links EXCEPT ![i] = l])
  BY <1>2 DEF TransportClosed, Shut
<1>4. o \subseteq Made /\ 0 \in Made
  BY <1>2, McpAssumption DEF Link, Made
<1>5. Sound(links[i]) /\ Knows(linking[t], links[i]) => o = {}
  BY <1>1 DEF Sound, Knows
<1> HIDE DEF o
<1>6. l \in Link /\ l.opened = o /\ l.kept = links[i].kept /\ ~l.client
  BY <1>2, <1>4 DEF Link
<1> HIDE DEF l
<1>7. Sound(links[i]) /\ Knows(linking[t], links[i]) => Sound(l)
  BY <1>5, <1>6 DEF Sound
<1> QED
  BY <1>1, <1>2, <1>3, <1>6, <1>7, LeavesKeep

LEMMA TransportCloseFailsKeeps ==
    ASSUME McpInv, NEW t \in Task, TransportCloseFails(t)
    PROVE  McpInv'
<1>1. McpTypeOK /\ linking[t].at = "closing"
  BY DEF McpInv, TransportCloseFails
<1>2. PICK i \in Instance : i = linking[t].instance /\ links[i] \in Link
  BY <1>1, Present
<1>3. PICK open \in BOOLEAN :
         Follows(t, linking[t].name, i, linking[t].removes,
            [links EXCEPT ![i] = [Stuck(links[i], linking[t].n, open) EXCEPT !.client = FALSE]])
  BY <1>2 DEF TransportCloseFails
<1> DEFINE l == [Stuck(links[i], linking[t].n, open) EXCEPT !.client = FALSE]
<1>4. l \in Link /\ l.kept
  BY <1>2 DEF Link, Stuck
<1>5. Follows(t, linking[t].name, i, linking[t].removes, [links EXCEPT ![i] = l])
  BY <1>3
<1> HIDE DEF l
<1> QED
  BY <1>1, <1>2, <1>4, <1>5, LeavesKeep

\* A client that has nothing to end, or that is only to be forgotten.
LEMMA DisconnectBareKeeps ==
    ASSUME McpInv, NEW t \in Task, NEW s \in Server, NEW removes \in BOOLEAN,
           DisconnectBare(t, s, removes)
    PROVE  McpInv'
<1>1. McpTypeOK /\ Names /\ Places /\ \A j \in Instance : Owned(j)
  BY DEF McpInv
<1>2. PICK i \in Instance : i = clients[s]
  BY <1>1, LinkTypes, McpAssumption DEF DisconnectBare, Instance
<1>3. /\ linking[t].at = "idle" /\ linking[t].instance = 0 /\ i <= added
      /\ links[i] \in Link /\ links[i].client /\ links[i].session = 0
      /\ ~Closable(links[i]) /\ Owned(i) /\ Registered(i)
  BY <1>1, <1>2, LinkTypes DEF DisconnectBare, Places, Names, Registered
<1> DEFINE l == [[links[i] EXCEPT !.client = FALSE] EXCEPT !.transport = FALSE]
<1>4. Follows(t, s, i, removes, [links EXCEPT ![i] = l])
  <2>1. [links EXCEPT ![i].client = FALSE, ![i].transport = FALSE] = [links EXCEPT ![i] = l]
    BY <1>1, LinkTypes
  <2> QED
    BY <1>2, <2>1 DEF DisconnectBare
<1>5. /\ l \in Link /\ l.opened = links[i].opened /\ l.kept = links[i].kept
      /\ ~l.client /\ l.context = links[i].context
  BY <1>3 DEF Link
<1> HIDE DEF l
<1> DEFINE link == [links EXCEPT ![i] = l]
<1>6. /\ link \in [Instance -> Link] /\ link[i] = l
      /\ \A j \in Instance \ {i} : link[j] = links[j]
      /\ Follows(t, s, i, removes, link)
  BY <1>1, <1>4, <1>5, LinkTypes
<1> HIDE DEF link
<1>7. ASSUME ~l.kept
      PROVE  Sound(l) /\ \A u \in Task \ {t} : linking[u].instance # i
  <2>1. Sound(links[i]) /\ \A u \in Task : linking[u].instance = i => Knows(linking[u], links[i])
    BY <1>3, <1>5, <1>7 DEF Owned
  <2>2. \A u \in Task : linking[u].instance = i =>
           linking[u].at \notin {"opening", "entering", "initializing", "ending"}
    BY <1>3, <2>1 DEF Knows
  <2>3. \A u \in Task : linking[u].at = "closing" => linking[u].n # 0
    BY <1>1 DEF Places
  <2>4. \A u \in Task : linking[u].instance = i => linking[u].at # "closing"
    BY <1>3, <2>1, <2>3 DEF Knows, Closable
  <2>5. \A u \in Task : linking[u].instance = i => linking[u].at \notin {"idle", "stopping"}
    BY <1>1 DEF Places, Instance
  <2>6. \A u \in Task : linking[u].at \in
           {"idle", "opening", "entering", "initializing", "ending", "closing", "stopping"}
    BY <1>1, LinkTypes DEF Linking
  <2>7. Sound(l)
    BY <1>3, <1>5, <2>1 DEF Sound, Closable
  <2> QED
    BY <2>2, <2>4, <2>5, <2>6, <2>7
<1>8. ~link[i].kept =>
              /\ clients[s] = i
              /\ Sound(link[i])
              /\ link[i].client => link[i].transport
              /\ ~removes => \A u \in Task \ {t} : linking[u].instance # i
  BY <1>2, <1>5, <1>6, <1>7
<1>9. linking[t].instance \in {0, i}
  BY <1>3
<1> QED
  BY <1>3, <1>6, <1>8, <1>9, FollowsKeeps

LEMMA RemoveUnconnectedKeeps ==
    ASSUME McpInv, NEW t \in Task, NEW s \in Server, RemoveUnconnected(t, s)
    PROVE  McpInv'
<1>1. McpTypeOK /\ Names /\ Places /\ \A j \in Instance : Owned(j)
  BY DEF McpInv
<1>2. PICK i \in Instance : i = clients[s]
  BY <1>1, LinkTypes, McpAssumption DEF RemoveUnconnected, Instance
<1>3. /\ linking[t].instance = 0 /\ i <= added /\ Owned(i) /\ Registered(i)
      /\ links \in [Instance -> Link] /\ Follows(t, s, i, TRUE, links)
  BY <1>1, <1>2, LinkTypes DEF RemoveUnconnected, Places, Names, Registered
<1>4. ~links[i].kept => Sound(links[i]) /\ (links[i].client => links[i].transport)
  BY <1>3 DEF Owned
<1> QED
  BY <1>2, <1>3, <1>4, FollowsKeeps

LEMMA DisconnectIdleKeeps ==
    ASSUME McpInv, NEW t \in Task, NEW s \in Server, DisconnectIdle(t, s)
    PROVE  McpInv'
<1>1. McpTypeOK /\ Places /\ loops \subseteq {monitor}
  BY DEF McpInv
<1>2. /\ linking[t].instance = 0
      /\ connected' \subseteq Server /\ linking' = [linking EXCEPT ![t] = AtRest]
      /\ UNCHANGED <<added, clients, transports, background, links, monitorVars>>
  BY <1>1 DEF DisconnectIdle, Follows, Places, McpTypeOK
<1>3. /\ linking' \in [Task -> Linking] /\ linking'[t] = AtRest
      /\ \A u \in Task \ {t} : linking'[u] = linking[u]
  BY <1>1, <1>2, LinkTypes, AtRestType
<1> QED
  BY <1>1, <1>2, <1>3, AtRestType, Stays DEF McpTypeOK, monitorVars

LEMMA ConnectKnownKeeps ==
    ASSUME McpInv, NEW t \in Task, NEW s \in Server, ConnectKnown(t, s)
    PROVE  McpInv'
<1>1. McpTypeOK /\ Places /\ loops \subseteq {monitor}
  BY DEF McpInv
<1>2. /\ linking[t].at = "idle" /\ linking[t].instance = 0
      /\ connected' \subseteq Server /\ linking' = linking
      /\ UNCHANGED <<added, clients, transports, background, links, monitorVars>>
  BY <1>1 DEF ConnectKnown, Places, McpTypeOK
<1> QED
  BY <1>1, <1>2, Stays DEF McpTypeOK, monitorVars

\* A health loop is started by a task that is at no instance.
LEMMA MonitoringStartsKeeps ==
    ASSUME McpInv, NEW t \in Task, MonitoringStarts(t)
    PROVE  McpInv'
<1>1. McpTypeOK /\ Places /\ loops \subseteq {monitor}
  BY DEF McpInv
<1>2. /\ linking[t].at = "idle" /\ linking[t].instance = 0
      /\ connected' \subseteq Server /\ linking' = linking
      /\ UNCHANGED <<added, clients, transports, background, links>>
      /\ monitor' = monitor + 1 /\ loops' = {monitor'} /\ cancelled' = cancelled
      /\ monitor < MaxLoops
  BY <1>1 DEF MonitoringStarts, Places, McpTypeOK, serverVars
<1>3. monitor' \in 0..MaxLoops /\ monitor' \in 1..MaxLoops
  BY <1>1, <1>2, McpAssumption DEF McpTypeOK
<1> QED
  BY <1>1, <1>2, <1>3, Stays DEF McpTypeOK

LEMMA MonitoringStopsKeeps ==
    ASSUME McpInv, NEW t \in Task, MonitoringStops(t)
    PROVE  McpInv'
<1>1. McpTypeOK /\ Places /\ loops \subseteq {monitor} /\ linking[t] \in Linking
  BY LinkTypes DEF McpInv
<1> DEFINE b == [[linking[t] EXCEPT !.at = "stopping"] EXCEPT !.n = monitor]
<1>2. /\ linking[t].at = "idle" /\ linking[t].instance = 0 /\ monitor \in loops
      /\ connected' \subseteq Server /\ linking' = [linking EXCEPT ![t] = b]
      /\ UNCHANGED <<added, clients, transports, background, links, monitor, loops>>
      /\ cancelled' = cancelled \cup {monitor}
  BY <1>1, LinkTypes DEF MonitoringStops, Places, McpTypeOK, serverVars
<1>3. b \in Linking /\ b.at = "stopping" /\ b.instance = 0
  <2>1. monitor \in Nat
    BY <1>1, McpAssumption DEF McpTypeOK
  <2> QED
    BY <1>1, <1>2, <2>1 DEF Linking
<1> HIDE DEF b
<1>4. /\ linking' \in [Task -> Linking] /\ linking'[t] = b
      /\ \A u \in Task \ {t} : linking'[u] = linking[u]
  BY <1>1, <1>2, <1>3, LinkTypes
<1>5. loops' \cup cancelled' \subseteq 1..MaxLoops
  BY <1>1, <1>2 DEF McpTypeOK
<1> QED
  BY <1>1, <1>2, <1>3, <1>4, <1>5, Stays DEF McpTypeOK

LEMMA MonitoringStoppedKeeps ==
    ASSUME McpInv, NEW t \in Task, MonitoringStopped(t)
    PROVE  McpInv'
<1>1. McpTypeOK /\ Places /\ loops \subseteq {monitor}
  BY DEF McpInv
<1>2. /\ linking[t].instance = 0
      /\ connected' \subseteq Server /\ linking' = [linking EXCEPT ![t] = AtRest]
      /\ UNCHANGED <<added, clients, transports, background, links, monitorVars>>
  BY <1>1 DEF MonitoringStopped, Places, McpTypeOK, serverVars
<1>3. /\ linking' \in [Task -> Linking] /\ linking'[t] = AtRest
      /\ \A u \in Task \ {t} : linking'[u] = linking[u]
  BY <1>1, <1>2, LinkTypes, AtRestType
<1> QED
  BY <1>1, <1>2, <1>3, AtRestType, Stays DEF McpTypeOK, monitorVars

\* What only the loops that have not ended can change.
LEMMA ServersUntouched ==
    ASSUME McpInv, UNCHANGED <<serverVars, linking>>,
           monitor' \in 0..MaxLoops, loops' \cup cancelled' \subseteq 1..MaxLoops,
           loops' \subseteq {monitor'}
    PROVE  McpInv'
<1>1. /\ McpTypeOK /\ RegistriesAgree /\ Names /\ Places
      /\ \A i \in Instance : Owned(i)
  BY DEF McpInv
<1>2. UNCHANGED <<added, clients, transports, connected, links, background, linking>>
  BY DEF serverVars
<1>3. McpTypeOK' /\ RegistriesAgree'
  BY <1>1, <1>2 DEF McpTypeOK, RegistriesAgree
<1>4. \A i \in Instance : Registered(i)' <=> Registered(i)
  BY <1>2 DEF Registered
<1>5. Names' /\ Places'
  BY <1>1, <1>2, <1>4 DEF Names, Places, McpTypeOK
<1>6. \A i \in Instance : Owned(i)'
  BY <1>1, <1>2, <1>4 DEF Owned, Sound, Knows
<1> QED
  BY <1>3, <1>5, <1>6 DEF McpInv

\* Every step of the manager's servers and of its health loop.
LEMMA McpStep == McpInv /\ [McpNext]_<<now, mcpVars>> => McpInv'
<1> SUFFICES ASSUME McpInv, [McpNext]_<<now, mcpVars>> PROVE McpInv'
  OBVIOUS
<1>1. McpTypeOK /\ loops \subseteq {monitor}
  BY DEF McpInv
<1>2. CASE ServersNext
  <2>1. ASSUME NEW s \in Server, AddServer(s) PROVE McpInv'
    BY <2>1, AddKeeps
  <2>2. ASSUME NEW s \in Server, NEW t \in Task, ConnectKnown(t, s) PROVE McpInv'
    BY <2>2, ConnectKnownKeeps
  <2>3. ASSUME NEW s \in Server, NEW t \in Task, ConnectBegins(t, s) PROVE McpInv'
    BY <2>3, ConnectBeginsKeeps
  <2>4. ASSUME NEW s \in Server, NEW t \in Task, DisconnectIdle(t, s) PROVE McpInv'
    BY <2>4, DisconnectIdleKeeps
  <2>5. ASSUME NEW s \in Server, NEW t \in Task, RemoveUnconnected(t, s) PROVE McpInv'
    BY <2>5, RemoveUnconnectedKeeps
  <2>6. ASSUME NEW s \in Server, NEW t \in Task, NEW removes \in BOOLEAN,
               DisconnectBegins(t, s, removes)
        PROVE  McpInv'
    BY <2>6, DisconnectBeginsKeeps
  <2>7. ASSUME NEW s \in Server, NEW t \in Task, NEW removes \in BOOLEAN,
               DisconnectBare(t, s, removes)
        PROVE  McpInv'
    BY <2>7, DisconnectBareKeeps
  <2>8. ASSUME NEW t \in Task,
               \/ Opened(t)
               \/ Entered(t)
               \/ Initialized(t)
               \/ ConnectFails(t)
               \/ SessionEnded(t)
               \/ SessionEndFails(t)
               \/ TransportClosed(t)
               \/ TransportCloseFails(t)
        PROVE  McpInv'
    BY <2>8, OpenedKeeps, EnteredKeeps, InitializedKeeps, ConnectFailsKeeps,
       SessionEndedKeeps, SessionEndFailsKeeps, TransportClosedKeeps, TransportCloseFailsKeeps
  <2>9. ASSUME NEW i \in Instance, BackgroundCloses(i) PROVE McpInv'
    BY <2>9, BackgroundKeeps
  <2> QED
    BY <1>2, <2>1, <2>2, <2>3, <2>4, <2>5, <2>6, <2>7, <2>8, <2>9 DEF ServersNext
<1>3. CASE MonitorNext
  <2>1. ASSUME NEW t \in Task,
               MonitoringStarts(t) \/ MonitoringStops(t) \/ MonitoringStopped(t)
        PROVE  McpInv'
    BY <2>1, MonitoringStartsKeeps, MonitoringStopsKeeps, MonitoringStoppedKeeps
  <2>2. ASSUME NEW m \in loops, LoopEnds(m) PROVE McpInv'
    BY <1>1, <2>2, ServersUntouched DEF LoopEnds, McpTypeOK
  <2> QED
    BY <1>3, <2>1, <2>2 DEF MonitorNext
<1>4. CASE UNCHANGED <<now, mcpVars>>
  BY <1>1, <1>4, ServersUntouched DEF mcpVars, monitorVars, McpTypeOK
<1> QED
  BY <1>2, <1>3, <1>4 DEF McpNext

\* The invariant holds what the manager keeps.
LEMMA McpInvCorrect == McpInv => McpCorrect
<1> SUFFICES ASSUME McpInv PROVE McpCorrect
  OBVIOUS
<1>1. /\ McpTypeOK /\ RegistriesAgree /\ Names /\ loops \subseteq {monitor}
      /\ \A i \in Instance : Owned(i)
  BY DEF McpInv
<1>2. LinksOwned
  <2> SUFFICES ASSUME NEW i \in Instance, ~links[i].kept, ~BusyAt(i)
               PROVE  IF \E s \in Server : transports[s] = i
                      THEN /\ links[i].opened \subseteq {links[i].context}
                           /\ links[i].opened # {} => links[i].transport
                           /\ links[i].client => links[i].transport
                      ELSE links[i].opened = {}
    BY DEF LinksOwned
  <2>1. (\E s \in Server : transports[s] = i) <=> Registered(i)
    BY <1>1 DEF Registered, RegistriesAgree
  <2>2. Owned(i) /\ i \notin background
    BY <1>1 DEF BusyAt
  <2> QED
    BY <2>1, <2>2 DEF Owned, Sound
<1>3. MonitoredOnce
  <2>1. IsFiniteSet({monitor}) /\ Cardinality({monitor}) = 1
    BY FS_Singleton
  <2>2. Cardinality(loops) <= 1
    BY <1>1, <2>1, FS_Subset
  <2> QED
    BY <1>1, <2>2 DEF MonitoredOnce
<1> QED
  BY <1>1, <1>2, <1>3 DEF McpCorrect

(****************************************************************************)
(* The two registries agree; a server at which one task at a time was, and no *)
(* close of which failed, has no connection open but the one its transport   *)
(* would close, and none once it is removed; one health loop at most.  This   *)
(* is MCPManager.add_server() to remove_server(), and its health monitoring. *)
(****************************************************************************)
THEOREM McpSafe == McpSpec => []McpCorrect
<1>1. now = 0 /\ McpInit => McpInv
  BY McpInvInit
<1>2. McpInv /\ [McpNext]_<<now, mcpVars>> => McpInv'
  BY McpStep
<1>3. McpInv => McpCorrect
  BY McpInvCorrect
<1> QED
  BY <1>1, <1>2, <1>3, PTL DEF McpSpec

==============================================================================
