------------------------------ MODULE MemoryCache ------------------------------
(****************************************************************************)
(* The MemoryCache of zenoo_rpc (cache/backends.py): an ordered dictionary  *)
(* of entries, the least recently used first, and beside it a dictionary of *)
(* expiry times.  Its lock is never contended, as nothing under it awaits:  *)
(* every call is one action.  Which value an entry holds is left out.       *)
(****************************************************************************)
EXTENDS Naturals, Sequences, FiniteSets, SequencesExt

CONSTANTS
    Key,          \* cache keys
    Ttl,          \* values of set()'s ttl in use; 0 stands for None as well
    MaxSize,      \* max_size
    DefaultTtl,   \* default_ttl, 0 for None
    MaxTime       \* bound: the time at which the clock of the model stops

ASSUME MemoryAssumption ==
    /\ Ttl \subseteq Nat
    /\ MaxSize \in Nat \ {0}
    /\ DefaultTtl \in Nat
    /\ MaxTime \in Nat

VARIABLES
    data,       \* MemoryCache._data
    expiry,     \* MemoryCache._expiry, Never for a key that is not in it
    now,        \* time.time()
    cleaning,   \* is _cleanup_task running?
    late        \* history: has a value been handed out after its time?

memoryVars == <<data, expiry, now, cleaning, late>>

Never == 0

\* since and ttl are what the set() of the entry was told: a history.
Entry == [key : Key, since : Nat, ttl : Nat]

MemoryInit ==
    /\ data = <<>>
    /\ expiry = [k \in Key |-> Never]
    /\ now = 1
    /\ cleaning = TRUE
    /\ late = FALSE

Keys(entries) == {entries[i].key : i \in DOMAIN entries}

Find(entries, k) == CHOOSE i \in DOMAIN entries : entries[i].key = k

\* The expiry times of the keys in kept; those of the others are dropped.
Kept(kept) == [k \in Key |-> IF k \in kept THEN expiry[k] ELSE Never]

\* Mutants of the definitions that follow them are named after the slip.
EvictedToMax ==
    IF Len(data) > MaxSize
    THEN SubSeq(data, Len(data) - MaxSize + 1, Len(data)) ELSE data

\* _evict_lru() makes room for one entry, whether or not one is needed.
Evicted ==
    IF Len(data) >= MaxSize
    THEN SubSeq(data, Len(data) - MaxSize + 2, Len(data)) ELSE data

Effective(ttl) == IF ttl = 0 THEN DefaultTtl ELSE ttl

ExpiryOf(k, ttl) == IF ttl = 0 THEN Never ELSE now + ttl

\* Overwriting an entry leaves it at its place in the order.
MemorySet(k, ttl) ==
    LET entries == Evicted
        entry == [key |-> k, since |-> now, ttl |-> Effective(ttl)]
    IN  /\ data' = IF k \in Keys(entries)
                   THEN [entries EXCEPT ![Find(entries, k)] = entry]
                   ELSE Append(entries, entry)
        /\ expiry' = [Kept(Keys(entries)) EXCEPT
                         ![k] = ExpiryOf(k, Effective(ttl))]
        /\ UNCHANGED <<now, cleaning, late>>

Removed(k) ==
    /\ data' = RemoveAt(data, Find(data, k))
    /\ expiry' = [expiry EXCEPT ![k] = Never]

Miss(k) == k \notin Keys(data) /\ UNCHANGED memoryVars

NotExpired(k) == FALSE

Expired(k) == expiry[k] # Never /\ now > expiry[k]

GetExpired(k) ==
    /\ k \in Keys(data)
    /\ Expired(k)
    /\ Removed(k)
    /\ UNCHANGED <<now, cleaning, late>>

\* A hit moves the entry to the end.
Hit(k) ==
    /\ k \in Keys(data)
    /\ ~Expired(k)
    /\ LET i == Find(data, k)
       IN  /\ data' = Append(RemoveAt(data, i), data[i])
           /\ late' = (late \/ (data[i].ttl # 0
                                 /\ now > data[i].since + data[i].ttl))
    /\ UNCHANGED <<expiry, now, cleaning>>

MemoryGet(k) == Miss(k) \/ GetExpired(k) \/ Hit(k)

MemoryDelete(k) ==
    /\ IF k \in Keys(data) THEN Removed(k) ELSE UNCHANGED <<data, expiry>>
    /\ UNCHANGED <<now, cleaning, late>>

MemoryClear ==
    /\ data' = <<>>
    /\ expiry' = [k \in Key |-> Never]
    /\ UNCHANGED <<now, cleaning, late>>

\* The positions in s, in their order.
InOrder(s) ==
    {at \in [1..Cardinality(s) -> s] :
        \A i, j \in 1..Cardinality(s) : i < j => at[i] < at[j]}

\* The cleanup task drops what expires by now, the present moment included,
\* and leaves the order of the others.
RemoveExpired ==
    /\ cleaning
    /\ LET old == {k \in Key : expiry[k] # Never /\ expiry[k] <= now}
           left == {i \in DOMAIN data : data[i].key \notin old}
       IN  /\ old # {}
           /\ \E at \in InOrder(left) :
                 data' = [i \in 1..Cardinality(left) |-> data[at[i]]]
           /\ expiry' = Kept(Key \ old)
    /\ UNCHANGED <<now, cleaning, late>>

\* The cleanup task is cancelled, and never started again.
MemoryClose == cleaning' = FALSE /\ UNCHANGED <<data, expiry, now, late>>

Tick ==
    /\ now < MaxTime
    /\ now' = now + 1
    /\ UNCHANGED <<data, expiry, cleaning, late>>

MemoryNext ==
    \/ \E k \in Key :
          \/ MemoryGet(k)
          \/ MemoryDelete(k)
          \/ \E ttl \in Ttl : MemorySet(k, ttl)
    \/ MemoryClear
    \/ RemoveExpired
    \/ MemoryClose
    \/ Tick

MemorySpec == MemoryInit /\ [][MemoryNext]_memoryVars

(****************************************************************************)
(* Properties.                                                              *)
(****************************************************************************)

\* The cache's variables keep their types.
MemoryTypeOK ==
    /\ data \in Seq(Entry)
    /\ expiry \in [Key -> Nat]
    /\ now \in Nat \ {0}
    /\ cleaning \in BOOLEAN
    /\ late \in BOOLEAN

\* The entries of different positions have different keys, and there are no
\* more of them than the maximum ("max_size: Maximum number of items").
WithinMaxSize ==
    /\ \A i, j \in DOMAIN data : i # j => data[i].key # data[j].key
    /\ Len(data) <= MaxSize

\* No value is handed out later than its time to live after it was set.
NeverLate == ~late

================================================================================
