---------------------------- MODULE CacheStrategies ----------------------------
(****************************************************************************)
(* CacheManager over one cache strategy (TTLCache, LRUCache or LFUCache) and *)
(* its backend.  The strategy keeps its own book of the keys in the backend  *)
(* and the manager swallows what it raises.  The calls of a MemoryCache run  *)
(* to their end, those of a RedisCache are awaited, can fail and can be      *)
(* cancelled between the steps.                                              *)
(****************************************************************************)
EXTENDS Tasks, Lists, FiniteSetsExt

CONSTANTS
    CachedKey,          \* keys
    StrategySize,       \* max_size of LRUCache and LFUCache
    DefaultTtl,         \* default_ttl of TTLCache
    SweepInterval,      \* cleanup_interval, _aging_interval
    MaxCacheCalls,      \* bound: calls of the manager
    CacheHorizon        \* bound: the time at which the clock stops

ASSUME CacheAssumption ==
    /\ {StrategySize, DefaultTtl} \subseteq Nat \ {0}
    /\ {SweepInterval, MaxCacheCalls, CacheHorizon} \subseteq Nat

VARIABLES
    caching,    \* the strategy, whether its backend is awaited, "enabled"
    stored,     \* keys the backend has a value for
    order,      \* _access_order, _frequencies, _expiry_times: the keys in order
    weight,     \* and the frequency or the expiry of each
    frozen,     \* _frequencies is an ordinary dict, no longer a defaultdict
    swept,      \* _last_cleanup, _last_aging
    cacheCalls, \* the call of each task
    cacheStats  \* stats of the manager

cacheVars == <<caching, stored, order, weight, frozen, swept, cacheCalls,
               cacheStats>>

book == <<order, weight, frozen, swept>>

\* pc is the backend's method that is awaited; of are the keys still to be
\* deleted, began is when a sweep began.
CacheCall ==
    [pc : {"idle", "read", "write", "delete", "evict", "sweep", "clear"},
     op : {"none", "get", "set", "delete", "clear"}, of : Seq(CachedKey),
     began : Nat]

NoCall == [pc |-> "idle", op |-> "none", of |-> <<>>, began |-> 0]

\* What setup_cache() may make of a backend.
Strategies ==
    [strategy : {"ttl", "lru", "lfu"}, awaited : BOOLEAN, enabled : {TRUE}]

NoStats == [gets |-> 0, sets |-> 0, deletes |-> 0, hits |-> 0, misses |-> 0]

EmptyBook ==
    /\ order = <<>>
    /\ weight = [k \in CachedKey |-> 0]
    /\ frozen = FALSE
    /\ swept = 0

CacheInit ==
    /\ caching \in Strategies
    /\ stored = {}
    /\ EmptyBook
    /\ cacheCalls = [t \in Task |-> NoCall]
    /\ cacheStats = NoStats

(****************************************************************************)
(* The books.                                                               *)
(****************************************************************************)

Booked(k) == k \in Range(order)

\* pop(), del: the key goes.
Unbook(k) ==
    /\ order' = Keeping(order, CachedKey \ {k})
    /\ weight' = [weight EXCEPT ![k] = 0]

\* _update_access() puts the key at the end.
Used(k) ==
    /\ order' = Append(Keeping(order, CachedKey \ {k}), k)
    /\ UNCHANGED <<weight, frozen, swept>>

AgedToZero(frequencies) == [k \in CachedKey |-> (frequencies[k] * 9) \div 10]

\* _update_frequency() and _apply_aging(): the keys whose frequency falls to
\* zero go, and the dict is an ordinary one from then on.
Counted(k) ==
    LET raised == [weight EXCEPT ![k] = @ + 1]
        keys == IF Booked(k) THEN order ELSE Append(order, k)
    IN  IF now - swept < SweepInterval
        THEN weight' = raised /\ order' = keys /\ UNCHANGED <<frozen, swept>>
        ELSE /\ weight' = AgedToZero(raised)
             /\ order' = Keeping(keys, {j \in CachedKey :
                                         AgedToZero(raised)[j] > 0})
             /\ frozen' = TRUE
             /\ swept' = now

Expires(k) ==
    /\ order' = IF Booked(k) THEN order ELSE Append(order, k)
    /\ weight' = [weight EXCEPT ![k] = now + DefaultTtl]
    /\ UNCHANGED <<frozen, swept>>

\* The key to evict: the least recently used one, or the first of those with
\* the lowest frequency.
Victim(keys, frequencies) ==
    IF caching.strategy = "lru" THEN Head(keys)
    ELSE LET least == Min({frequencies[k] : k \in Range(keys)})
         IN  Head(Keeping(keys, {k \in CachedKey : frequencies[k] = least}))

(****************************************************************************)
(* The calls.                                                               *)
(****************************************************************************)

\* Calls of a MemoryCache do not suspend: a call runs alone.
Runs(t) ==
    caching.awaited \/ \A u \in Task \ {t} : cacheCalls[u].pc = "idle"

Becomes(t, call) == cacheCalls' = [cacheCalls EXCEPT ![t] = call]

Calls ==
    cacheStats.gets + cacheStats.sets + cacheStats.deletes < MaxCacheCalls

Begins(t) == cacheCalls[t].pc = "idle" /\ Runs(t) /\ Calls /\ caching.enabled

\* A get() goes on to its read when the keys of its sweep are deleted; of
\* ends with the key to read.
SweepsOn(t, call) ==
    IF Len(call.of) = 1
    THEN Becomes(t, [call EXCEPT !.pc = "read"]) /\ swept' = call.began
    ELSE Becomes(t, [call EXCEPT !.pc = "sweep"]) /\ UNCHANGED swept

CacheGet(t, k) ==
    LET call == [NoCall EXCEPT !.op = "get", !.of = <<k>>]
        expired == caching.strategy = "ttl" /\ Booked(k) /\ now > weight[k]
        sweeps == caching.strategy = "ttl" /\ now - swept >= SweepInterval
    IN  /\ Begins(t)
        /\ cacheStats' = [cacheStats EXCEPT !.gets = @ + 1]
        /\ \/ /\ expired
              /\ Unbook(k)
              /\ Becomes(t, [call EXCEPT !.pc = "delete"])
              /\ UNCHANGED swept
           \/ /\ ~expired
              /\ sweeps
              /\ SweepsOn(t, [call EXCEPT
                     !.began = now,
                     !.of = Append(Keeping(order, {j \in CachedKey :
                                                      weight[j] <= now}), k)])
              /\ UNCHANGED <<order, weight>>
           \/ /\ ~expired
              /\ ~sweeps
              /\ Becomes(t, [call EXCEPT !.pc = "read"])
              /\ UNCHANGED <<order, weight, swept>>
        /\ UNCHANGED <<now, caching, stored, frozen>>

\* TTLCache books the key before the backend has it.
CacheSet(t, k) ==
    /\ Begins(t)
    /\ cacheStats' = [cacheStats EXCEPT !.sets = @ + 1]
    /\ IF caching.strategy = "ttl" THEN Expires(k) ELSE UNCHANGED book
    /\ Becomes(t, [NoCall EXCEPT !.pc = "write", !.op = "set", !.of = <<k>>])
    /\ UNCHANGED <<now, caching, stored>>

CacheDelete(t, k) ==
    /\ Begins(t)
    /\ cacheStats' = [cacheStats EXCEPT !.deletes = @ + 1]
    /\ Unbook(k)
    /\ Becomes(t, [NoCall EXCEPT !.pc = "delete", !.op = "delete",
                                 !.of = <<k>>])
    /\ UNCHANGED <<now, caching, stored, frozen, swept>>

\* clear() asks neither whether caching is enabled nor for statistics.
CacheClear(t) ==
    /\ cacheCalls[t].pc = "idle"
    /\ Runs(t)
    /\ stored # {} \/ order # <<>>
    /\ order' = <<>>
    /\ weight' = [k \in CachedKey |-> 0]
    /\ Becomes(t, [NoCall EXCEPT !.pc = "clear", !.op = "clear"])
    /\ UNCHANGED <<now, caching, stored, frozen, swept, cacheStats>>

\* invalidate_pattern() deletes the matching keys of a MemoryCache through the
\* strategy; of a RedisCache it deletes none.
InvalidatePattern(ks) ==
    /\ ~caching.awaited
    /\ \A t \in Task : cacheCalls[t].pc = "idle"
    /\ caching.enabled
    /\ ks \subseteq stored
    /\ ks # {}
    /\ stored' = stored \ ks
    /\ order' = Keeping(order, CachedKey \ ks)
    /\ weight' = [k \in CachedKey |-> IF k \in ks THEN 0 ELSE weight[k]]
    /\ UNCHANGED <<now, caching, frozen, swept, cacheCalls, cacheStats>>

\* enable(), disable().
Toggled ==
    /\ caching' = [caching EXCEPT !.enabled = ~@]
    /\ UNCHANGED <<now, stored, book, cacheCalls, cacheStats>>

(****************************************************************************)
(* What a call does when the backend answers.                               *)
(****************************************************************************)

Hit == cacheStats' = [cacheStats EXCEPT !.hits = @ + 1]

Miss == cacheStats' = [cacheStats EXCEPT !.misses = @ + 1]

\* A value that is found is a use of its key, also of one that has been
\* evicted meanwhile; for Redis that does not answer the fallback has a value
\* or none.  Raising KeyError counts neither a hit nor a miss.
ReadAnswers(t) ==
    LET k == Head(cacheCalls[t].of)
        found == k \in stored \/ caching.awaited
        raises == caching.strategy = "lfu" /\ frozen /\ ~Booked(k)
    IN  /\ cacheCalls[t].pc = "read"
        /\ Becomes(t, NoCall)
        /\ \/ /\ k \notin stored \/ caching.awaited
              /\ Miss
              /\ UNCHANGED book
           \/ found /\ raises /\ UNCHANGED <<book, cacheStats>>
           \/ /\ found /\ ~raises
              /\ Hit
              /\ \/ caching.strategy = "ttl" /\ UNCHANGED book
                 \/ caching.strategy = "lru" /\ Used(k)
                 \/ caching.strategy = "lfu" /\ Counted(k)
        /\ UNCHANGED <<now, caching, stored>>

EvictsOnce(t) ==
    Becomes(t, IF Len(order') > StrategySize /\ cacheCalls[t].pc = "write"
               THEN [NoCall EXCEPT !.pc = "evict", !.op = "set",
                                   !.of = <<Victim(order', weight')>>]
               ELSE NoCall)

\* _evict_lru(), _evict_lfu(): while there are too many keys.
Evicts(t) ==
    Becomes(t, IF Len(order') > StrategySize
               THEN [NoCall EXCEPT !.pc = "evict", !.op = "set",
                                   !.of = <<Victim(order', weight')>>]
               ELSE NoCall)

WriteAnswers(t) ==
    LET k == Head(cacheCalls[t].of)
    IN  /\ cacheCalls[t].pc = "write"
        /\ stored' = stored \cup {k}
        /\ \/ /\ caching.strategy = "ttl"
              /\ Becomes(t, NoCall)
              /\ UNCHANGED book
           \/ /\ caching.strategy = "lru"
              /\ Used(k)
              /\ Evicts(t)
           \/ /\ caching.strategy = "lfu"
              /\ order' = IF Booked(k) THEN order ELSE Append(order, k)
              /\ weight' = [weight EXCEPT ![k] = IF Booked(k) THEN @ ELSE 1]
              /\ UNCHANGED <<frozen, swept>>
              /\ Evicts(t)
        /\ UNCHANGED <<now, caching, cacheStats>>

\* The victim leaves the book; if another task has removed it, KeyError ends
\* the set().
EvictionAnswers(t) ==
    LET k == Head(cacheCalls[t].of)
    IN  /\ cacheCalls[t].pc = "evict"
        /\ stored' = stored \ {k}
        /\ \/ Booked(k) /\ Unbook(k) /\ Evicts(t)
           \/ ~Booked(k) /\ Becomes(t, NoCall) /\ UNCHANGED <<order, weight>>
        /\ UNCHANGED <<now, caching, frozen, swept, cacheStats>>

\* _cleanup_expired() deletes the keys that had expired when it began; one
\* that is no longer booked ends the get() with KeyError.
SweepAnswers(t) ==
    LET call == cacheCalls[t]
        k == Head(call.of)
    IN  /\ call.pc = "sweep"
        /\ stored' = stored \ {k}
        /\ \/ Booked(k) /\ Unbook(k) /\ SweepsOn(t, [call EXCEPT !.of = Tail(@)])
           \/ /\ ~Booked(k)
              /\ Becomes(t, NoCall)
              /\ UNCHANGED <<order, weight, swept>>
        /\ UNCHANGED <<now, caching, frozen, cacheStats>>

DeleteUnheard(t) ==
    LET call == cacheCalls[t]
    IN  /\ call.pc = "delete"
        /\ Becomes(t, NoCall)
        /\ IF call.op = "get" THEN Miss ELSE UNCHANGED cacheStats
        /\ UNCHANGED <<now, caching, stored, book>>

DeleteAnswers(t) ==
    LET call == cacheCalls[t]
    IN  /\ call.pc = "delete"
        /\ stored' = stored \ Range(call.of)
        /\ Becomes(t, NoCall)
        /\ IF call.op = "get" THEN Miss ELSE UNCHANGED cacheStats
        /\ UNCHANGED <<now, caching, book>>

ClearAnswers(t) ==
    /\ cacheCalls[t].pc = "clear"
    /\ stored' = {}
    /\ Becomes(t, NoCall)
    /\ UNCHANGED <<now, caching, book, cacheStats>>

\* A call of Redis that fails, and a task that is cancelled, end the call; the
\* command may have reached Redis.
CallFails(t) ==
    LET call == cacheCalls[t]
    IN  /\ call.pc # "idle"
        /\ caching.awaited
        /\ \/ stored' = stored
           \/ call.pc = "write" /\ stored' = stored \cup Range(call.of)
           \/ /\ call.pc \in {"delete", "evict", "sweep"}
              /\ stored' = stored \ {Head(call.of)}
           \/ call.pc = "clear" /\ stored' = {}
        /\ Becomes(t, NoCall)
        /\ UNCHANGED <<now, caching, book, cacheStats>>

\* The backend lets a value go of itself: it expires, or makes room.
BackendDrops(k) ==
    /\ k \in stored
    /\ stored' = stored \ {k}
    /\ UNCHANGED <<now, caching, book, cacheCalls, cacheStats>>

CacheNext ==
    \/ \E t \in Task :
          \/ \E k \in CachedKey :
                CacheGet(t, k) \/ CacheSet(t, k) \/ CacheDelete(t, k)
          \/ CacheClear(t)
          \/ ReadAnswers(t)
          \/ WriteAnswers(t)
          \/ EvictionAnswers(t)
          \/ SweepAnswers(t)
          \/ DeleteAnswers(t)
          \/ ClearAnswers(t)
          \/ CallFails(t)
    \/ \E ks \in SUBSET CachedKey : InvalidatePattern(ks)
    \/ Toggled
    \/ \E k \in CachedKey : BackendDrops(k)
    \/ Later(CacheHorizon) /\ UNCHANGED cacheVars

CacheSpec == now = 0 /\ CacheInit /\ [][CacheNext]_<<now, cacheVars>>

(****************************************************************************)
(* Properties.                                                              *)
(****************************************************************************)

CacheTypeOK ==
    /\ caching \in [strategy : {"ttl", "lru", "lfu"}, awaited : BOOLEAN,
                    enabled : BOOLEAN]
    /\ stored \in SUBSET CachedKey
    /\ order \in Seq(CachedKey)
    /\ weight \in [CachedKey -> Nat]
    /\ frozen \in BOOLEAN
    /\ swept \in Nat
    /\ cacheCalls \in [Task -> CacheCall]
    /\ cacheStats \in [gets : Nat, sets : Nat, deletes : Nat, hits : Nat,
                       misses : Nat]

Quiet == \A t \in Task : cacheCalls[t].pc = "idle"

\* The book of a strategy over a MemoryCache between calls: no more than
\* max_size keys, and under TTL and LRU every key the backend has, so that each
\* can be evicted.  (LFUCache forgets stored keys as it ages them.)
BooksBalance ==
    ~caching.awaited /\ Quiet =>
        /\ caching.strategy # "ttl" => Len(order) <= StrategySize
        /\ caching.strategy # "lfu" => stored \subseteq Range(order)

\* Whatever runs between its steps and however it ends, a get() counts once
\* as a hit or a miss, and never without being counted as a get.
GetsCounted ==
    cacheStats.hits + cacheStats.misses
      + Cardinality({t \in Task : cacheCalls[t].op = "get"}) <= cacheStats.gets

\* Over Redis a get() of another task may add a key without evicting one; but
\* the set() that removes a victim leaves at most max_size keys when it ends.
SetLeavesRoom ==
    \A t \in Task :
       /\ caching.strategy # "ttl"
       /\ cacheCalls[t].pc \in {"write", "evict"}
       /\ cacheCalls'[t].pc = "idle"
       /\ order' # order
       => Len(order') <= StrategySize

\* What a cache strategy owes the manager that uses it.
CacheCorrect ==
    [](CacheTypeOK /\ BooksBalance /\ GetsCounted) /\ [][SetLeavesRoom]_cacheVars

================================================================================
