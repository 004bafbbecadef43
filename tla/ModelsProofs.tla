------------------------------ MODULE ModelsProofs ------------------------------
(****************************************************************************)
(* Proofs about Client for any set of tasks and of logins, about Domains for *)
(* any comparisons and expressions of any size, about Queries for any set of *)
(* tasks and any number of records, about Registry for any set of tasks,     *)
(* models and fields, and any number of classes and of changes of the        *)
(* server's fields, and about LazyLoading and Records for any finite set of  *)
(* tasks, any relationships and fields, and any number of loads, batches,    *)
(* rows and calls.                                                           *)
(****************************************************************************)
EXTENDS Client, Domains, Queries, Registry, Records, ListProofs

(****************************************************************************)
(* Queries.                                                                  *)
(****************************************************************************)

\* What a task that creates or queries knows, depending on where it is; byP, tab
\* and set are what byPattern, table and settled are then.
Knows(a, byP, tab, set) ==
    /\ byP = TRUE /\ a.at = "served" => a.result.table >= set \/ a.result.late = TRUE
    /\ a.own <= tab
    /\ a.at \in {"sent", "served", "fetch"} /\ a.own # 0 => a.query = a.own
    /\ a.at = "served" => a.result.table >= a.own
    /\ a.at = "invalidate" => a.own # 0
    /\ a.at = "fetch" => a.own # 0 /\ a.own <= set
    /\ a.at # "idle" => a.got = "none"
    /\ byP = TRUE /\ a.own # 0 /\ a.got = "missing" => a.result.late = TRUE

Informed(a) == Knows(a, byPattern, table, settled)

\* The cache follows the creates, but for what is late.
Follows(cache, byP, set) ==
    byP = TRUE => \A q \in Query : cache[q].table >= set \/ cache[q].late = TRUE

QueryInv ==
    /\ QueryTypeOK
    /\ settled <= table
    /\ Follows(cached, byPattern, settled)
    /\ \A t \in Task : Informed(asking[t])

LEMMA QueryConstants ==
    /\ MaxCreated \in Nat /\ Query \subseteq Nat /\ 0 \in Query
    /\ Resting \in Asking /\ NoResult \in Result
BY QueryAssumption DEF Resting, Asking, NoResult, Result, Query

LEMMA AskingTypes ==
    ASSUME NEW a \in Asking
    PROVE  /\ a.query \in Query /\ a.own \in Query /\ a.own \in Nat
           /\ a.result \in Result /\ a.result.table \in Nat
<1>1. a.query \in Query /\ a.own \in Query /\ a.result \in Result
  BY DEF Asking
<1>2. a.result.table \in Nat
  BY <1>1 DEF Result
<1>3. QED
  BY <1>1, <1>2, QueryConstants

LEMMA StateTypes ==
    ASSUME QueryInv
    PROVE  /\ table \in Nat /\ settled \in Nat /\ settled <= table
           /\ table <= MaxCreated
           /\ byPattern \in BOOLEAN
           /\ cached \in [Query -> Result]
           /\ asking \in [Task -> Asking]
           /\ \A t \in Task : asking[t] \in Asking /\ Informed(asking[t])
BY QueryConstants DEF QueryInv, QueryTypeOK

\* Whoever rests, or begins to create, knows nothing yet.
LEMMA RestingInformed ==
    ASSUME NEW byP, NEW tab \in Nat, NEW set
    PROVE  /\ Knows(Resting, byP, tab, set)
           /\ Knows([Resting EXCEPT !.at = "create"], byP, tab, set)
           /\ [Resting EXCEPT !.at = "create"] \in Asking
<1>1. Resting.own = 0 /\ Resting.at = "idle" /\ Resting.got = "none"
  BY DEF Resting
<1>2. Knows(Resting, byP, tab, set)
  BY <1>1 DEF Knows
<1> DEFINE b == [Resting EXCEPT !.at = "create"]
<1>3. b.own = 0 /\ b.at = "create" /\ b.got = "none"
  BY DEF Resting
<1>4. Knows(b, byP, tab, set)
  BY <1>3 DEF Knows
<1>5. b \in Asking
  BY QueryConstants DEF Asking
<1>6. QED
  BY <1>2, <1>4, <1>5

LEMMA QueryInitially == QueryInit => QueryInv
<1> SUFFICES ASSUME QueryInit PROVE QueryInv
  OBVIOUS
<1>1. QueryTypeOK
  BY QueryConstants DEF QueryInit, QueryTypeOK
<1>2. settled <= table /\ table \in Nat
  BY DEF QueryInit
<1>3. Follows(cached, byPattern, settled)
  BY QueryConstants DEF QueryInit, Follows, NoResult
<1>4. \A t \in Task : Informed(asking[t])
  BY <1>2, RestingInformed DEF QueryInit, Informed
<1>5. QED
  BY <1>1, <1>2, <1>3, <1>4 DEF QueryInv

\* A step of one task that leaves the table and what is settled alone.
LEMMA OneAsks ==
    ASSUME QueryInv, NEW t \in Task, NEW a \in Asking, Informed(a),
           asking' = [asking EXCEPT ![t] = a],
           byPattern' = byPattern, table' = table, settled' = settled,
           cached' \in [Query -> Result], Follows(cached', byPattern, settled)
    PROVE  QueryInv'
<1>1. QueryTypeOK'
  BY DEF QueryInv, QueryTypeOK
<1>2. \A u \in Task : asking'[u] = asking[u] \/ asking'[u] = a
  BY StateTypes
<1>3. \A u \in Task : Knows(asking'[u], byPattern, table, settled)
  BY <1>2, StateTypes DEF Informed
<1>4. QED
  BY <1>1, <1>3 DEF QueryInv, Informed

LEMMA CacheKept ==
    ASSUME QueryInv, cached' = cached
    PROVE  cached' \in [Query -> Result] /\ Follows(cached', byPattern, settled)
BY DEF QueryInv, QueryTypeOK

\* What a result tells a task that asked for it.
LEMMA AnsweredInformed ==
    ASSUME QueryInv, NEW a \in Asking, NEW result \in Result, a.own <= table,
           byPattern = TRUE /\ a.own # 0
               => result.table >= a.own \/ result.late = TRUE
    PROVE  Answered(a, result) \in Asking /\ Informed(Answered(a, result))
<1>1. CASE a.own = 0
  BY <1>1, RestingInformed, QueryConstants, StateTypes DEF Answered, Informed
<1>2. CASE a.own # 0
  <2> DEFINE b == [Resting EXCEPT !.result = result, !.own = a.own,
                      !.got = IF a.own <= result.table THEN "record" ELSE "missing"]
  <2>1. Answered(a, result) = b
    BY <1>2 DEF Answered
  <2>2. b \in Asking
    BY QueryConstants, AskingTypes DEF Asking
  <2>3. /\ b.at = "idle" /\ b.own = a.own /\ b.result = result
        /\ b.got = IF a.own <= result.table THEN "record" ELSE "missing"
    BY DEF Resting
  <2>4. result.table \in Nat
    BY DEF Result
  <2>5. Knows(b, byPattern, table, settled)
    BY <1>2, <2>3, <2>4, AskingTypes DEF Knows
  <2>6. QED
    BY <2>1, <2>2, <2>5 DEF Informed
<1>3. QED
  BY <1>1, <1>2

\* A query is answered from the cache or sent.
LEMMA ExecutesInformed ==
    ASSUME QueryInv, NEW t \in Task, NEW a \in Asking, Executes(t, a),
           a.own <= table, a.own # 0 => a.query = a.own /\ a.own <= settled,
           a.got = "none", UNCHANGED <<byPattern, table, settled, cached>>
    PROVE  QueryInv'
<1>0. a.query \in Query /\ a.own \in Nat
  BY AskingTypes
<1>1. CASE cached[a.query] # NoResult
  <2> DEFINE result == cached[a.query]
  <2>1. result \in Result
    BY <1>0, StateTypes
  <2>2. result.table \in Nat
    BY <2>1 DEF Result
  <2>3. byPattern = TRUE => result.table >= settled \/ result.late = TRUE
    BY <1>0 DEF QueryInv, Follows
  <2>4. byPattern = TRUE /\ a.own # 0 => result.table >= a.own \/ result.late = TRUE
    BY <1>0, <2>2, <2>3, StateTypes
  <2>5. Answered(a, result) \in Asking /\ Informed(Answered(a, result))
    BY <2>1, <2>4, AnsweredInformed
  <2>6. asking' = [asking EXCEPT ![t] = Answered(a, result)]
    BY <1>1 DEF Executes
  <2>7. QED
    BY <2>5, <2>6, OneAsks, CacheKept
<1>2. CASE cached[a.query] = NoResult
  <2> DEFINE b == [a EXCEPT !.at = "sent"]
  <2>1. b \in Asking
    BY DEF Asking
  <2>2. /\ b.at = "sent" /\ b.own = a.own /\ b.query = a.query /\ b.got = "none"
        /\ b.result = a.result
    BY DEF Asking
  <2>3. Informed(b)
    BY <2>2 DEF Informed, Knows
  <2>4. asking' = [asking EXCEPT ![t] = b]
    BY <1>2 DEF Executes
  <2>5. QED
    BY <2>1, <2>3, <2>4, OneAsks, CacheKept
<1>3. QED
  BY <1>1, <1>2

LEMMA ServedInformed ==
    ASSUME QueryInv, NEW t \in Task, QueryServed(t) PROVE QueryInv'
<1> DEFINE a == asking[t]
           b == [a EXCEPT !.at = "served",
                          !.result = [table |-> table, late |-> FALSE]]
<1>1. a \in Asking /\ Informed(a) /\ a.at = "sent"
  BY StateTypes DEF QueryServed
<1>2. b \in Asking
  BY <1>1, StateTypes DEF Asking, Result
<1>3. /\ b.at = "served" /\ b.own = a.own /\ b.query = a.query /\ b.got = a.got
      /\ b.result.table = table
  BY <1>1 DEF Asking
<1>4. Informed(b)
  BY <1>1, <1>3, StateTypes, AskingTypes DEF Informed, Knows
<1>5. asking' = [asking EXCEPT ![t] = b]
  BY StateTypes DEF QueryServed
<1>6. QED
  BY <1>2, <1>4, <1>5, OneAsks, CacheKept DEF QueryServed

LEMMA AnswersInformed ==
    ASSUME QueryInv, NEW t \in Task, QueryAnswers(t) PROVE QueryInv'
<1> DEFINE a == asking[t]
<1>1. a \in Asking /\ Informed(a) /\ a.at = "served"
  BY StateTypes DEF QueryAnswers
<1>2. a.result \in Result /\ a.query \in Query
  BY <1>1, AskingTypes
<1>3. Answered(a, a.result) \in Asking /\ Informed(Answered(a, a.result))
  BY <1>1, <1>2, AnsweredInformed DEF Informed, Knows
<1>4. cached' = [cached EXCEPT ![a.query] = a.result]
  BY DEF QueryAnswers
<1>5. cached' \in [Query -> Result]
  BY <1>2, <1>4, StateTypes
<1>6. byPattern = TRUE => a.result.table >= settled \/ a.result.late = TRUE
  BY <1>1 DEF Informed, Knows
<1>7. Follows(cached', byPattern, settled)
  BY <1>2, <1>4, <1>6, StateTypes DEF Follows, QueryInv
<1>8. QED
  BY <1>3, <1>5, <1>7, OneAsks DEF QueryAnswers

LEMMA CreatedInformed ==
    ASSUME QueryInv, NEW t \in Task, RecordCreated(t) PROVE QueryInv'
<1> DEFINE a == asking[t]
           b == [a EXCEPT !.at = "invalidate", !.own = table + 1]
<1>1. a \in Asking /\ Informed(a) /\ a.at = "create"
  BY StateTypes DEF RecordCreated
<1>2. /\ asking' = [asking EXCEPT ![t] = b] /\ table' = table + 1
      /\ UNCHANGED <<byPattern, settled, cached>>
  BY StateTypes DEF RecordCreated
<1>3. table + 1 \in 0..MaxCreated /\ table + 1 \in Query
  BY QueryConstants, StateTypes DEF Query, RecordCreated
<1>4. b \in Asking
  BY <1>1, <1>3 DEF Asking
<1>5. QueryTypeOK'
  BY <1>2, <1>3, <1>4 DEF QueryInv, QueryTypeOK
<1>6. b.at = "invalidate" /\ b.own = table + 1 /\ b.got = "none"
  BY <1>1 DEF Asking, Informed, Knows
<1>7. Knows(b, byPattern, table + 1, settled)
  BY <1>6, StateTypes DEF Knows
<1>8. ASSUME NEW u \in Task, u # t
      PROVE  Knows(asking'[u], byPattern, table + 1, settled)
  <2>1. asking'[u] = asking[u] /\ asking[u] \in Asking /\ Informed(asking[u])
    BY <1>2, <1>8, StateTypes
  <2>2. QED
    BY <2>1, AskingTypes, StateTypes DEF Informed, Knows
<1>9. asking'[t] = b
  BY <1>2, StateTypes
<1>10. \A u \in Task : Knows(asking'[u], byPattern, table + 1, settled)
  BY <1>7, <1>8, <1>9
<1>11. settled <= table + 1
  BY StateTypes
<1>12. QED
  BY <1>2, <1>5, <1>10, <1>11 DEF QueryInv, Informed

\* The invalidation marks as late what other tasks were served before it.
LEMMA InvalidationInformed ==
    ASSUME QueryInv, NEW t \in Task, Invalidated(t) PROVE QueryInv'
<1> DEFINE own == asking[t].own
           set == IF own > settled THEN own ELSE settled
           b == [asking[t] EXCEPT !.at = "fetch", !.query = own]
           c(u) == [asking[u] EXCEPT !.result.late = asking[u].result.late
                                                     \/ asking[u].at = "served"]
<1>1. asking[t] \in Asking /\ Informed(asking[t]) /\ asking[t].at = "invalidate"
  BY StateTypes DEF Invalidated
<1>2. own \in Nat /\ own \in Query /\ own <= table /\ own # 0 /\ asking[t].got = "none"
  BY <1>1, AskingTypes DEF Informed, Knows
<1>3. set \in Nat /\ settled <= set /\ own <= set /\ set <= table
  BY <1>2, StateTypes
<1>4. settled' = set /\ table' = table /\ byPattern' = byPattern
  BY DEF Invalidated
<1>5. asking' = [u \in Task |-> IF u = t THEN b ELSE c(u)]
  BY DEF Invalidated
<1>6. b \in Asking
  BY <1>1, <1>2 DEF Asking
<1>7. \A u \in Task : c(u) \in Asking
  BY StateTypes, ZenonT(60) DEF Asking, Result
<1>8. cached' \in [Query -> Result] /\ Follows(cached', byPattern, set)
  <2>1. CASE byPattern
    <3>1. cached' = [q \in Query |-> NoResult]
      BY <2>1 DEF Invalidated, DroppedByPattern
    <3>2. NoResult.table >= set
      BY <1>3, StateTypes, QueryConstants DEF NoResult
    <3>3. QED
      BY <3>1, <3>2, QueryConstants DEF Follows
  <2>2. CASE ~byPattern
    BY <2>2, StateTypes DEF Follows, Invalidated
  <2>3. QED
    BY <2>1, <2>2
<1>9. QueryTypeOK'
  BY <1>3, <1>4, <1>5, <1>6, <1>7, <1>8, StateTypes, QueryConstants
  DEF QueryTypeOK, QueryInv
<1>10. Knows(b, byPattern, table, set)
  <2>1. b.at = "fetch" /\ b.own = own /\ b.query = own /\ b.got = "none"
    BY <1>1, <1>2 DEF Asking
  <2>2. QED
    BY <1>2, <1>3, <2>1 DEF Knows
<1>11. ASSUME NEW u \in Task, u # t PROVE Knows(c(u), byPattern, table, set)
  <2> DEFINE a == asking[u]
  <2>1. a \in Asking /\ Informed(a) /\ a.own \in Nat /\ a.result.table \in Nat
    BY StateTypes, AskingTypes
  <2>2. /\ c(u).at = a.at /\ c(u).own = a.own /\ c(u).query = a.query
        /\ c(u).got = a.got /\ c(u).result.table = a.result.table
    BY <2>1 DEF Asking, Result
  <2>3. /\ a.at = "served" => c(u).result.late = TRUE
        /\ a.result.late = TRUE => c(u).result.late = TRUE
    BY <2>1 DEF Asking, Result
  <2>4. QED
    BY <1>3, <2>1, <2>2, <2>3, StateTypes DEF Informed, Knows
<1>12. \A u \in Task : Knows(asking'[u], byPattern, table, set)
  BY <1>5, <1>10, <1>11
<1>13. QED
  BY <1>3, <1>4, <1>8, <1>9, <1>12 DEF QueryInv, Informed

LEMMA QueryStep == QueryInv /\ [QueryNext]_<<now, queryVars>> => QueryInv'
<1> SUFFICES ASSUME QueryInv, [QueryNext]_<<now, queryVars>> PROVE QueryInv'
  OBVIOUS
<1>1. ASSUME NEW t \in Task, NEW q \in Query, QueryBegins(t, q) PROVE QueryInv'
  <2> DEFINE a == [Resting EXCEPT !.query = q]
  <2>1. a \in Asking /\ a.own = 0 /\ a.got = "none"
    BY QueryConstants DEF Asking, Resting
  <2>2. a.own <= table
    BY <2>1, StateTypes
  <2>3. Executes(t, a) /\ UNCHANGED <<byPattern, table, settled, cached>>
    BY <1>1 DEF QueryBegins
  <2> HIDE DEF a
  <2>4. QED
    BY <2>1, <2>2, <2>3, ExecutesInformed
<1>2. ASSUME NEW t \in Task, AskingFails(t) PROVE QueryInv'
  BY <1>2, RestingInformed, QueryConstants, StateTypes, OneAsks, CacheKept
  DEF AskingFails, Informed
<1>3. ASSUME NEW t \in Task, CreateBegins(t) PROVE QueryInv'
  BY <1>3, RestingInformed, StateTypes, OneAsks, CacheKept
  DEF CreateBegins, Informed
<1>4. ASSUME NEW t \in Task, FetchBegins(t) PROVE QueryInv'
  <2>1. asking[t] \in Asking /\ Informed(asking[t]) /\ asking[t].at = "fetch"
    BY <1>4, StateTypes DEF FetchBegins
  <2>2. QED
    BY <1>4, <2>1, ExecutesInformed DEF FetchBegins, Informed, Knows
<1>5. ASSUME NEW q \in Query, ResultLost(q) PROVE QueryInv'
  <2>1. /\ cached' = [cached EXCEPT ![q] = NoResult]
        /\ UNCHANGED <<byPattern, table, settled, asking>>
    BY <1>5 DEF ResultLost
  <2>2. NoResult.table >= settled
    BY StateTypes, QueryConstants DEF NoResult
  <2>3. cached' \in [Query -> Result]
    BY <2>1, StateTypes, QueryConstants
  <2>4. Follows(cached', byPattern, settled)
    BY <2>1, <2>2, StateTypes DEF Follows, QueryInv
  <2>5. QED
    BY <2>1, <2>3, <2>4 DEF QueryInv, QueryTypeOK, Informed
<1>6. CASE UNCHANGED <<now, queryVars>>
  BY <1>6 DEF queryVars, QueryInv, QueryTypeOK, Informed
<1>7. QED
  BY <1>1, <1>2, <1>3, <1>4, <1>5, <1>6, ServedInformed, AnswersInformed,
     CreatedInformed, InvalidationInformed DEF QueryNext

LEMMA QueryInvSuffices == QueryInv => QueriesCorrect
<1> SUFFICES ASSUME QueryInv PROVE QueriesCorrect
  OBVIOUS
<1>1. CacheFollowsCreates
  BY StateTypes DEF QueryInv, Follows, CacheFollowsCreates
<1>2. CreateReturnsItsRecord
  BY StateTypes DEF Informed, Knows, CreateReturnsItsRecord
<1>3. QED
  BY <1>1, <1>2 DEF QueryInv, QueriesCorrect

\* Whatever the tasks and however many records: a query that begins after a
\* create() ended, over a backend that deletes by pattern, is answered from
\* before it, and a create() misses its record, only through a result that
\* another query read before the invalidation and stored after it
\* (_execute_query(), _invalidate_cache() and create()).
THEOREM QueriesFollowCreates == QuerySpec => []QueriesCorrect
<1>1. now = 0 /\ QueryInit => QueryInv
  BY QueryInitially
<1>2. QED
  BY <1>1, QueryStep, QueryInvSuffices, PTL DEF QuerySpec

(****************************************************************************)
(* Registry.                                                                 *)
(****************************************************************************)

\* The class of a name is the last one registered of it.
LastOfName(mods, kinds) ==
    /\ \A n \in ModelName : mods[n] # 0 => kinds[mods[n]].name = n
    /\ \A i \in 1..Len(kinds) : i <= mods[kinds[i].name]

\* The name of a creation had no class when it began; what it was served is one
\* of the server's answers.
CreationSound(c, kinds, eras) ==
    c.at # "idle" =>
        /\ c.name \in ModelName
        /\ c.begun <= Len(kinds)
        /\ \A i \in 1..Len(kinds) : i <= c.begun => kinds[i].name # c.name
        /\ c.at = "served" => c.era \in 1..Len(eras)

\* A class the server's fields were made into has only fields of one answer.
ClassSound(class, eras) ==
    \/ class.own = TRUE
    \/ class.era = 0 /\ class.fields = {}
    \/ class.era \in 1..Len(eras) /\ class.fields \subseteq eras[class.era]

RegistryInv ==
    /\ RegistryTypeOK
    /\ Len(offered) > 0
    /\ LastOfName(models, classes)
    /\ \A t \in Task : CreationSound(creating[t], classes, offered)
    /\ \A i \in 1..Len(classes) : ClassSound(classes[i], offered)
    /\ ReplacedOnlyAtOnce
    /\ CacheBehindClass

LEMMA RegistryTypes ==
    ASSUME RegistryInv
    PROVE  /\ models \in [ModelName -> 0..Len(classes)]
           /\ fieldCache \in [ModelName -> 0..Len(offered)]
           /\ classes \in Seq(ModelClass) /\ Len(classes) \in Nat
           /\ creating \in [Task -> Creating]
           /\ offered \in Seq(SUBSET FieldName) /\ Len(offered) \in Nat
           /\ \A i \in 1..Len(classes) : classes[i] \in ModelClass
BY DEF RegistryInv, RegistryTypeOK

LEMMA NoCreationType == NoCreation \in Creating /\ NoCreation.at = "idle"
BY DEF NoCreation, Creating

LEMMA RegistryInitially == RegistryInit => RegistryInv
<1> SUFFICES ASSUME RegistryInit PROVE RegistryInv
  OBVIOUS
<1>1. RegistryTypeOK
  BY NoCreationType DEF RegistryInit, RegistryTypeOK
<1>2. Len(offered) > 0 /\ Len(classes) = 0
  BY DEF RegistryInit
<1>3. \A t \in Task : CreationSound(creating[t], classes, offered)
  BY NoCreationType DEF RegistryInit, CreationSound
<1>4. ReplacedOnlyAtOnce /\ CacheBehindClass /\ LastOfName(models, classes)
  BY <1>2 DEF RegistryInit, ReplacedOnlyAtOnce, CacheBehindClass, LastOfName
<1>5. QED
  BY <1>1, <1>2, <1>3, <1>4 DEF RegistryInv

\* A step of one task that registers nothing.
LEMMA OneCreates ==
    ASSUME RegistryInv, NEW t \in Task, NEW c \in Creating,
           creating' = [creating EXCEPT ![t] = c],
           CreationSound(c, classes, offered),
           UNCHANGED <<models, fieldCache, classes, offered>>
    PROVE  RegistryInv'
<1>1. \A u \in Task : creating'[u] = creating[u] \/ creating'[u] = c
  BY RegistryTypes
<1>2. \A u \in Task : CreationSound(creating'[u], classes, offered)
  BY <1>1 DEF RegistryInv
<1>3. RegistryTypeOK'
  BY DEF RegistryInv, RegistryTypeOK
<1>4. ReplacedOnlyAtOnce' /\ CacheBehindClass'
  BY DEF RegistryInv, ReplacedOnlyAtOnce, CacheBehindClass
<1>5. QED
  BY <1>2, <1>3, <1>4 DEF RegistryInv

\* A class is registered: it is the last of its name, and replaces none that a
\* creation of it could have found.
LEMMA RegisteredSound ==
    ASSUME RegistryInv, NEW class \in ModelClass, Registered(class),
           ClassSound(class, offered),
           class.own = FALSE =>
               \A i \in 1..Len(classes) :
                   classes[i].name = class.name => class.begun < i,
           creating' \in [Task -> Creating],
           \A u \in Task : creating'[u] = creating[u] \/ creating'[u].at = "idle",
           fieldCache' \in [ModelName -> 0..Len(offered)],
           \A n \in ModelName : fieldCache'[n] # 0 => fieldCache[n] # 0 \/ n = class.name,
           offered' = offered
    PROVE  RegistryInv'
<1> DEFINE n == Len(classes)
<1>1. /\ classes' = Append(classes, class)
      /\ models' = [models EXCEPT ![class.name] = n + 1]
  BY DEF Registered
<1>2. /\ Len(classes') = n + 1 /\ classes' \in Seq(ModelClass) /\ n \in Nat
      /\ \A i \in 1..n : classes'[i] = classes[i]
      /\ classes'[n + 1] = class
  BY <1>1, RegistryTypes
<1>3. class.name \in ModelName /\ class.own \in BOOLEAN
  BY DEF ModelClass
<1>4. models' \in [ModelName -> 0..(n + 1)]
  BY <1>1, <1>2, <1>3, RegistryTypes
<1>5. RegistryTypeOK'
  BY <1>2, <1>4, RegistryTypes DEF RegistryTypeOK
<1>6. LastOfName(models', classes')
  <2>1. ASSUME NEW m \in ModelName, models'[m] # 0
        PROVE  classes'[models'[m]].name = m
    <3>1. CASE m = class.name
      BY <1>1, <1>2, <1>3, <3>1, RegistryTypes
    <3>2. CASE m # class.name
      <4>1. models'[m] = models[m] /\ models[m] \in 1..n
        BY <1>1, <2>1, <3>2, RegistryTypes
      <4>2. classes[models[m]].name = m
        BY <4>1 DEF RegistryInv, LastOfName
      <4>3. QED
        BY <1>2, <4>1, <4>2
    <3>3. QED
      BY <3>1, <3>2
  <2>2. ASSUME NEW i \in 1..Len(classes') PROVE i <= models'[classes'[i].name]
    <3>1. CASE i = n + 1
      BY <1>1, <1>2, <1>3, <3>1, RegistryTypes
    <3>2. CASE i \in 1..n
      <4>1. classes[i] \in ModelClass /\ i <= models[classes[i].name]
        BY <3>2, RegistryTypes DEF RegistryInv, LastOfName
      <4>2. classes[i].name \in ModelName
        BY <4>1 DEF ModelClass
      <4>3. QED
        BY <1>1, <1>2, <1>3, <3>2, <4>1, <4>2, RegistryTypes
    <3>3. QED
      BY <1>2, <3>1, <3>2
  <2>3. QED
    BY <2>1, <2>2 DEF LastOfName
<1>7. ASSUME NEW u \in Task PROVE CreationSound(creating'[u], classes', offered)
  <2>1. CASE creating'[u].at = "idle"
    BY <2>1 DEF CreationSound
  <2>2. CASE creating'[u] = creating[u] /\ creating[u].at # "idle"
    <3> DEFINE c == creating[u]
    <3>1. /\ c.name \in ModelName /\ c.begun <= n /\ c.begun \in Nat
          /\ \A i \in 1..n : i <= c.begun => classes[i].name # c.name
          /\ c.at = "served" => c.era \in 1..Len(offered)
      BY <2>2, RegistryTypes DEF RegistryInv, CreationSound, Creating
    <3>2. ASSUME NEW i \in 1..Len(classes'), i <= c.begun
          PROVE  classes'[i].name # c.name
      <4>1. i \in 1..n
        BY <1>2, <3>1, <3>2
      <4>2. classes'[i] = classes[i]
        BY <1>2, <4>1
      <4> QED
        BY <3>1, <3>2, <4>1, <4>2
    <3>3. QED
      BY <1>2, <2>2, <3>1, <3>2 DEF CreationSound
  <2>3. QED
    BY <2>1, <2>2
<1>8. \A i \in 1..Len(classes') : ClassSound(classes'[i], offered)
  BY <1>2 DEF RegistryInv
<1>9. ReplacedOnlyAtOnce'
  <2> SUFFICES ASSUME NEW c \in 1..(n + 1), NEW d \in 1..(n + 1),
                      classes'[c].name = classes'[d].name, c < d,
                      ~classes'[d].own
               PROVE  classes'[d].begun < c
    BY <1>2 DEF ReplacedOnlyAtOnce
  <2>1. c \in 1..n /\ classes'[c] = classes[c]
    BY <1>2
  <2>2. CASE d \in 1..n
    BY <1>2, <2>1, <2>2 DEF RegistryInv, ReplacedOnlyAtOnce
  <2>3. CASE d = n + 1
    <3>1. classes'[d] = class /\ class.own = FALSE
      BY <1>2, <1>3, <2>3
    <3>2. QED
      BY <2>1, <3>1
  <2>4. QED
    BY <1>2, <2>2, <2>3
<1>10. CacheBehindClass'
  <2> SUFFICES ASSUME NEW m \in ModelName, fieldCache'[m] # 0 PROVE models'[m] # 0
    BY DEF CacheBehindClass
  <2>1. CASE m = class.name
    BY <1>1, <1>2, <2>1, RegistryTypes
  <2>2. CASE m # class.name
    BY <1>1, <2>2, RegistryTypes DEF RegistryInv, CacheBehindClass
  <2>3. QED
    BY <2>1, <2>2
<1>11. QED
  BY <1>5, <1>6, <1>7, <1>8, <1>9, <1>10 DEF RegistryInv

\* The class of an answer, or of a failed call.
LEMMA MadeSound ==
    ASSUME RegistryInv, NEW t \in Task, creating[t].at \in {"sent", "served"},
           NEW era \in Nat,
           era = 0 \/ (creating[t].at = "served" /\ era = creating[t].era),
           ClassMade(t, era), offered' = offered,
           \/ fieldCache' = fieldCache
           \/ /\ creating[t].at = "served"
              /\ fieldCache' = [fieldCache EXCEPT
                                   ![creating[t].name] = creating[t].era]
    PROVE  RegistryInv'
<1> DEFINE c == creating[t]
           defined == IF era = 0 THEN {} ELSE offered[era]
           kept == IF c.only = {} THEN defined ELSE defined \cap c.only
           class == [name |-> c.name, own |-> FALSE, fields |-> PydanticFields(kept),
                     begun |-> c.begun, era |-> era, partial |-> c.only # {}]
           d == [NoCreation EXCEPT !.name = c.name, !.only = c.only,
                                   !.got = Len(classes) + 1]
<1>1. Registered(class) /\ creating' = [creating EXCEPT ![t] = d]
  BY DEF ClassMade
<1>2. c \in Creating /\ CreationSound(c, classes, offered) /\ c.at # "idle"
  BY RegistryTypes DEF RegistryInv
<1>3. /\ c.name \in ModelName /\ c.only \in SUBSET FieldName /\ c.begun \in Nat
      /\ era \in Nat
      /\ era = 0 \/ era \in 1..Len(offered)
  BY <1>2, RegistryTypes DEF CreationSound, Creating
<1>4. defined \in SUBSET FieldName
  BY <1>3, RegistryTypes
<1>5. PydanticFields(kept) \in SUBSET FieldName /\ PydanticFields(kept) \subseteq defined
  BY <1>4 DEF PydanticFields
<1>6. class \in ModelClass
  BY <1>3, <1>5 DEF ModelClass
<1>7. ClassSound(class, offered)
  BY <1>3, <1>5 DEF ClassSound
<1>8. \A i \in 1..Len(classes) : classes[i].name = class.name => class.begun < i
  BY <1>2, <1>3, RegistryTypes DEF CreationSound
<1>9. d \in Creating /\ d.at = "idle"
  <2>1. c.only \in SUBSET FieldName /\ Len(classes) + 1 \in Nat
    BY <1>3, RegistryTypes
  <2>2. QED
    BY <1>3, <2>1 DEF Creating, NoCreation
<1>10. /\ creating' \in [Task -> Creating]
       /\ \A u \in Task : creating'[u] = creating[u] \/ creating'[u].at = "idle"
  BY <1>1, <1>9, RegistryTypes
<1>11. /\ fieldCache' \in [ModelName -> 0..Len(offered)]
       /\ \A n \in ModelName :
             fieldCache'[n] # 0 => fieldCache[n] # 0 \/ n = class.name
  <2>1. class.name = c.name
    OBVIOUS
  <2>2. creating[t].at = "served" => creating[t].era \in 1..Len(offered)
    BY <1>2 DEF CreationSound
  <2>3. CASE fieldCache' = fieldCache
    BY <2>3, RegistryTypes
  <2>4. CASE /\ creating[t].at = "served"
             /\ fieldCache' = [fieldCache EXCEPT
                                  ![creating[t].name] = creating[t].era]
    <3>1. creating[t].era \in 0..Len(offered) /\ creating[t].name \in ModelName
      BY <1>3, <2>2, <2>4, RegistryTypes
    <3>2. QED
      BY <2>1, <2>4, <3>1, RegistryTypes
  <2>5. QED
    BY <2>3, <2>4
<1> HIDE DEF class, d
<1>12. QED
  BY <1>1, <1>6, <1>7, <1>8, <1>10, <1>11, RegisteredSound

LEMMA ProgramSound ==
    ASSUME RegistryInv, NEW n \in ModelName, ProgramRegisters(n)
    PROVE  RegistryInv'
<1> DEFINE class == [name |-> n, own |-> TRUE, fields |-> {}, begun |-> Len(classes),
                     era |-> 0, partial |-> FALSE]
<1>1. class \in ModelClass /\ class.own = TRUE
  BY RegistryTypes DEF ModelClass
<1>2. Registered(class) /\ UNCHANGED <<fieldCache, creating, offered>>
  BY DEF ProgramRegisters
<1>3. ClassSound(class, offered)
  BY <1>1 DEF ClassSound
<1> HIDE DEF class
<1>4. QED
  BY <1>1, <1>2, <1>3, RegisteredSound, RegistryTypes

LEMMA ChangeSound ==
    ASSUME RegistryInv, NEW fields \in SUBSET FieldName, ServerChanges(fields)
    PROVE  RegistryInv'
<1>1. /\ offered' = Append(offered, fields)
      /\ UNCHANGED <<models, fieldCache, classes, creating>>
  BY DEF ServerChanges
<1>2. /\ Len(offered') = Len(offered) + 1 /\ offered' \in Seq(SUBSET FieldName)
      /\ \A e \in 1..Len(offered) : offered'[e] = offered[e]
  BY <1>1, RegistryTypes
<1>3. RegistryTypeOK'
  BY <1>1, <1>2, RegistryTypes DEF RegistryTypeOK
<1>4. \A t \in Task : CreationSound(creating[t], classes, offered')
  BY <1>2, RegistryTypes DEF RegistryInv, CreationSound
<1>5. \A i \in 1..Len(classes) : ClassSound(classes[i], offered')
  BY <1>2, RegistryTypes DEF RegistryInv, ClassSound
<1>6. ReplacedOnlyAtOnce' /\ CacheBehindClass'
  BY <1>1 DEF RegistryInv, ReplacedOnlyAtOnce, CacheBehindClass
<1>7. QED
  BY <1>1, <1>2, <1>3, <1>4, <1>5, <1>6, RegistryTypes DEF RegistryInv

LEMMA RegistryStep ==
    RegistryInv /\ [RegistryNext]_<<now, registryVars>> => RegistryInv'
<1> SUFFICES ASSUME RegistryInv, [RegistryNext]_<<now, registryVars>>
             PROVE  RegistryInv'
  OBVIOUS
<1>1. ASSUME NEW t \in Task, NEW n \in ModelName, NEW only \in SUBSET FieldName,
             CreationBegins(t, n, only)
      PROVE  RegistryInv'
  <2> DEFINE c == [at |-> "sent", name |-> n, only |-> only,
                   begun |-> Len(classes), era |-> 0, got |-> 0]
  <2>1. c \in Creating
    BY RegistryTypes DEF Creating
  <2>2. \A i \in 1..Len(classes) : classes[i].name # n
    <3>1. ASSUME NEW i \in 1..Len(classes), classes[i].name = n PROVE FALSE
      <4>1. i <= models[n] /\ models[n] = 0
        BY <1>1, <3>1 DEF RegistryInv, LastOfName, CreationBegins
      <4>2. QED
        BY <4>1
    <3>2. QED
      BY <3>1
  <2>3. CreationSound(c, classes, offered)
    BY <2>2, RegistryTypes DEF CreationSound
  <2>4. /\ creating' = [creating EXCEPT ![t] = c]
        /\ UNCHANGED <<models, fieldCache, classes, offered>>
    BY <1>1 DEF CreationBegins
  <2> HIDE DEF c
  <2>5. QED
    BY <2>1, <2>3, <2>4, OneCreates
<1>2. ASSUME NEW t \in Task, NEW n \in ModelName, ClassFound(t, n)
      PROVE  RegistryInv'
  <2> DEFINE c == [NoCreation EXCEPT !.name = n, !.got = models[n]]
  <2>1. c \in Creating /\ c.at = "idle"
    <3>1. models[n] \in Nat
      BY RegistryTypes
    <3>2. QED
      BY <3>1 DEF Creating, NoCreation
  <2>2. /\ creating' = [creating EXCEPT ![t] = c]
        /\ UNCHANGED <<models, fieldCache, classes, offered>>
    BY <1>2 DEF ClassFound
  <2> HIDE DEF c
  <2>3. QED
    BY <2>1, <2>2, OneCreates DEF CreationSound
<1>3. ASSUME NEW t \in Task, DefinitionsServed(t) PROVE RegistryInv'
  <2> DEFINE c == [creating[t] EXCEPT !.at = "served", !.era = Len(offered)]
  <2>1. creating[t] \in Creating /\ creating[t].at = "sent"
        /\ CreationSound(creating[t], classes, offered)
    BY <1>3, RegistryTypes DEF DefinitionsServed, RegistryInv
  <2>2. c \in Creating
    BY <2>1, RegistryTypes DEF Creating
  <2>3. c.at = "served" /\ c.era = Len(offered) /\ c.name = creating[t].name
        /\ c.begun = creating[t].begun
    BY <2>1 DEF Creating
  <2>4. CreationSound(c, classes, offered)
    BY <2>1, <2>3, RegistryTypes DEF CreationSound, RegistryInv
  <2>5. /\ creating' = [creating EXCEPT ![t] = c]
        /\ UNCHANGED <<models, fieldCache, classes, offered>>
    BY <1>3, RegistryTypes DEF DefinitionsServed
  <2> HIDE DEF c
  <2>6. QED
    BY <2>2, <2>4, <2>5, OneCreates
<1>4. ASSUME NEW t \in Task, DefinitionsAnswer(t) PROVE RegistryInv'
  <2>1. creating[t] \in Creating
    BY RegistryTypes
  <2>2. creating[t].era \in Nat
    BY <2>1 DEF Creating
  <2>3. QED
    BY <1>4, <2>2, MadeSound DEF DefinitionsAnswer
<1>5. ASSUME NEW t \in Task, DefinitionsFail(t) PROVE RegistryInv'
  <2>1. /\ ClassMade(t, 0) /\ offered' = offered /\ fieldCache' = fieldCache
        /\ creating[t].at \in {"sent", "served"}
    BY <1>5 DEF DefinitionsFail
  <2>2. QED
    BY <2>1, MadeSound
<1>6. ASSUME NEW t \in Task, CreationCancelled(t) PROVE RegistryInv'
  BY <1>6, NoCreationType, OneCreates DEF CreationCancelled, CreationSound
<1>7. CASE UNCHANGED <<now, registryVars>>
  BY <1>7 DEF registryVars, RegistryInv, RegistryTypeOK, ReplacedOnlyAtOnce,
              CacheBehindClass
<1>8. QED
  BY <1>1, <1>2, <1>3, <1>4, <1>5, <1>6, <1>7, ProgramSound, ChangeSound
  DEF RegistryNext

LEMMA RegistryInvSuffices == RegistryInv => RegistryCorrect
<1> SUFFICES ASSUME RegistryInv PROVE RecordsFit
  BY DEF RegistryInv, RegistryCorrect
<1> SUFFICES ASSUME NEW n \in ModelName, models[n] # 0, ~classes[models[n]].own,
                    classes[models[n]].era = Len(offered)
             PROVE  classes[models[n]].fields \subseteq offered[Len(offered)]
  BY DEF RecordsFit
<1>1. models[n] \in 1..Len(classes)
  BY RegistryTypes
<1>2. ClassSound(classes[models[n]], offered)
  BY <1>1 DEF RegistryInv
<1>3. QED
  BY <1>2 DEF ClassSound, RegistryInv

\* For any tasks, models and fields: a class made of the server's fields replaces
\* none that its creation could have found, definitions are cached only behind a
\* class, and what the server answers fits a class made of its present fields
\* (create_dynamic_model(), get_or_create_model(), register()).
THEOREM RegistrySafe == RegistrySpec => []RegistryCorrect
<1>1. now = 0 /\ RegistryInit => RegistryInv
  BY RegistryInitially
<1>2. QED
  BY <1>1, RegistryStep, RegistryInvSuffices, PTL DEF RegistrySpec

(****************************************************************************)
(* Client.                                                                  *)
(****************************************************************************)

\* Which operation is where.
Placed(r) ==
    /\ r.at = "context" => r.op \in {"login", "api_login"}
    /\ r.at \in {"version", "authenticate"} => r.op \in {"login", "api_login"}
    /\ r.op = "close" => r.at \in {"ai", "cache", "transport"}

\* What a create has made on its way: none that the server was heard to make.
Making(r) ==
    /\ r.made > 1 => r.misread = TRUE
    /\ r.at \in {"create", "required", "validate"}
            => r.made = 0 \/ r.misread = TRUE

\* What close() has behind it is closed, unless something came meanwhile.
Shutting(r, mans, lt) ==
    r.op = "close" /\ lt = FALSE =>
        /\ r.at \in {"cache", "transport"} => mans.ai # "open"
        /\ r.at = "transport" => mans.cache # "open"

OneDatabase(c) == c.database = c.uid

Sound(r, mans, lt) ==
    Placed(r) /\ Making(r) /\ Shutting(r, mans, lt) /\ OneDatabase(r.as)

OneSession(ses, key) ==
    /\ OneDatabase(ses)
    /\ ses.username = ses.uid
    /\ ses.uid # Nil /\ key = FALSE => ses.password = ses.uid

\* Nobody but one task loads a context, and that one of the user of the session,
\* unless logins unsettled.
OneContext(run, ses, ovl) ==
    ovl = FALSE =>
        /\ \A t \in Task : run[t].at = "context" => run[t].as.uid = ses.uid
        /\ \A t, u \in Task :
              run[t].at = "context" /\ run[u].at = "context" => t = u

Fits(run, ses, ovl) ==
    ses.context = ses.uid \/ ovl = TRUE \/ \E t \in Task : run[t].at = "context"

\* A closed client, unless something came while it closed or later.
Closed(tra, ses, mans, lt) ==
    tra = "closed" /\ lt = FALSE =>
        ses.uid = Nil /\ mans.ai # "open" /\ mans.cache # "open"

ClientInv ==
    /\ ClientTypeOK
    /\ \A t \in Task : Sound(running[t], managers, late)
    /\ OneSession(session, byKey)
    /\ OneContext(running, session, unsettled)
    /\ Fits(running, session, unsettled)
    /\ Closed(transport, session, managers, late)

LEMMA ClientTypes ==
    ASSUME ClientInv
    PROVE  /\ session \in Credentials /\ byKey \in BOOLEAN
           /\ unsettled \in BOOLEAN /\ late \in BOOLEAN
           /\ transport \in {"open", "shut", "closed"}
           /\ managers \in [{"ai", "cache"} -> {"none", "open", "closed"}]
           /\ running \in [Task -> Running]
           /\ \A t \in Task : /\ running[t] \in Running
                              /\ Sound(running[t], managers, late)
BY DEF ClientInv, ClientTypeOK

LEMMA NothingSent == Nothing \in Sent /\ OneDatabase(Nothing)
BY DEF Nothing, Sent, OneDatabase

LEMMA IdleSound ==
    ASSUME NEW mans, NEW lt
    PROVE  /\ Idle \in Running /\ Sound(Idle, mans, lt)
           /\ Idle.at = "none" /\ Idle.op = "none"
<1>1. Idle \in Running
  BY NothingSent DEF Idle, Running, ClientOperation
<1>2. /\ Idle.at = "none" /\ Idle.op = "none" /\ Idle.made = 0
      /\ Idle.as = Nothing
  BY DEF Idle
<1>3. QED
  BY <1>1, <1>2, NothingSent DEF Sound, Placed, Making, Shutting

\* What the session's holder sends is of one login.
LEMMA TakesSound ==
    ASSUME NEW ses \in Credentials, OneDatabase(ses)
    PROVE  Takes(ses) \in Sent /\ OneDatabase(Takes(ses))
BY DEF Takes, Sent, Credentials, OneDatabase

LEMMA ClientInitially == ClientInit => ClientInv
<1> SUFFICES ASSUME ClientInit PROVE ClientInv
  OBVIOUS
<1>1. ClientTypeOK
  BY IdleSound DEF ClientInit, ClientTypeOK, Credentials, LoggedOut
<1>2. \A t \in Task : running[t] = Idle
  BY DEF ClientInit
<1>3. \A t \in Task : Sound(running[t], managers, late)
  BY <1>2, IdleSound
<1>4. session = LoggedOut /\ transport = "open"
  BY DEF ClientInit
<1>5. /\ OneSession(session, byKey) /\ session.context = session.uid
  BY <1>4 DEF OneSession, OneDatabase, LoggedOut
<1>6. OneContext(running, session, unsettled)
  BY <1>2, IdleSound DEF OneContext
<1>7. QED
  BY <1>1, <1>3, <1>4, <1>5, <1>6 DEF ClientInv, Fits, Closed

(****************************************************************************)
(* The steps.                                                               *)
(****************************************************************************)

\* A step of a task that neither was nor will be loading a context, and may
\* begin to close the transport.
LEMMA TaskMoves ==
    ASSUME ClientInv, NEW t \in Task, NEW r \in Running, Proceeds(t, r),
           running[t].at # "context", r.at # "context",
           Sound(r, managers, late), transport' \in {transport, "shut"},
           UNCHANGED <<session, byKey, unsettled, managers, late>>
    PROVE  ClientInv'
<1>1. running' = [running EXCEPT ![t] = r]
  BY DEF Proceeds
<1>2. /\ \A u \in Task : u # t => running'[u] = running[u]
      /\ running'[t] = r
  BY <1>1, ClientTypes
<1>3. ClientTypeOK'
  BY <1>1 DEF ClientInv, ClientTypeOK
<1>4. \A u \in Task : Sound(running'[u], managers, late)
  BY <1>2, ClientTypes
<1>5. \A u \in Task : running'[u].at = "context" <=> running[u].at = "context"
  BY <1>2
<1>6. OneContext(running', session, unsettled)
  BY <1>2, <1>5 DEF ClientInv, OneContext
<1>7. Fits(running', session, unsettled)
  BY <1>5 DEF ClientInv, Fits
<1>8. Closed(transport', session, managers, late)
  BY DEF ClientInv, Closed
<1>9. QED
  BY <1>3, <1>4, <1>6, <1>7, <1>8 DEF ClientInv

LEMMA TaskProceeds ==
    ASSUME ClientInv, NEW t \in Task, NEW r \in Running, Proceeds(t, r),
           running[t].at # "context", r.at # "context",
           Sound(r, managers, late),
           UNCHANGED <<session, byKey, unsettled, transport, managers, late>>
    PROVE  ClientInv'
BY TaskMoves

LEMMA EndedSound ==
    ASSUME NEW r \in Running, Making(r), NEW mans, NEW lt
    PROVE  /\ OperationEnded(r) \in Running /\ Sound(OperationEnded(r), mans, lt)
           /\ OperationEnded(r).at = "none"
<1> DEFINE e == OperationEnded(r)
<1>1. e = [Idle EXCEPT !.made = r.made, !.misread = r.misread]
  BY DEF OperationEnded
<1>2. e \in Running
  BY <1>1, IdleSound DEF Running
<1>3. /\ e.at = "none" /\ e.op = "none" /\ e.as = Nothing
      /\ e.made = r.made /\ e.misread = r.misread
  BY <1>1 DEF Idle
<1>4. Sound(e, mans, lt)
  BY <1>3, NothingSent DEF Sound, Placed, Making, Shutting
<1>5. QED
  BY <1>2, <1>3, <1>4

\* A call of the server follows, or the operation ends.
LEMMA SendsSound ==
    ASSUME ClientInv, NEW t \in Task, NEW r \in Running, Making(r), r.op # "close",
           NEW at \in {"create", "required", "validate", "write", "search_read"},
           at \in {"create", "required", "validate"} => r.made = 0 \/ r.misread = TRUE,
           Sends(t, r, at), running[t].at # "context",
           UNCHANGED <<session, byKey, unsettled, transport, managers, late>>
    PROVE  ClientInv'
<1>1. CASE IsAuthenticated
  <2> DEFINE s == [r EXCEPT !.at = at, !.as = Takes(session)]
  <2>1. Proceeds(t, s)
    BY <1>1 DEF Sends
  <2>2. Takes(session) \in Sent /\ OneDatabase(Takes(session))
    BY TakesSound, ClientTypes DEF ClientInv, OneSession
  <2>3. s \in Running
    BY <2>2 DEF Running
  <2>4. /\ s.at = at /\ s.as = Takes(session) /\ s.op = r.op
        /\ s.made = r.made /\ s.misread = r.misread
    BY DEF Running
  <2>5. Sound(s, managers, late)
    BY <2>2, <2>4 DEF Sound, Placed, Making, Shutting
  <2>6. QED
    BY <2>1, <2>3, <2>4, <2>5, TaskProceeds
<1>2. CASE ~IsAuthenticated
  BY <1>2, EndedSound, TaskProceeds DEF Sends
<1>3. QED
  BY <1>1, <1>2

LEMMA CreateSteps ==
    ASSUME ClientInv, NEW t \in Task, NEW answer \in Answers, NEW text \in Texts,
           CreateAnswers(t, answer, text)
    PROVE  ClientInv'
<1> DEFINE r == running[t]
           error == CrudError(answer.error, text)
           n == IF answer.done THEN r.made + 1 ELSE r.made
           heard == r.misread \/ /\ answer.error \in TransportErrors
                                 /\ error = "ValidationError"
           sent == [r EXCEPT !.made = n, !.misread = heard]
<1>1. r \in Running /\ Sound(r, managers, late) /\ r.at = "create"
  BY ClientTypes DEF CreateAnswers
<1>2. /\ r.made \in Nat /\ r.misread \in BOOLEAN /\ (r.made = 0 \/ r.misread = TRUE)
      /\ r.op # "close"
  BY <1>1 DEF Running, Sound, Making, Placed
<1>3. sent \in Running
  <2>1. heard \in BOOLEAN
    OBVIOUS
  <2>2. n \in Nat
    BY <1>2
  <2> HIDE DEF heard, n
  <2>3. QED
    BY <1>1, <2>1, <2>2 DEF Running
<1>4. sent.op = r.op
  BY <1>1 DEF Running
<1>5. sent.made = IF answer.done THEN r.made + 1 ELSE r.made
  BY <1>1 DEF Running
<1>6. r.misread = TRUE => sent.misread = TRUE
  BY <1>1 DEF Running
<1>7. sent.made > 1 => sent.misread = TRUE
  BY <1>2, <1>5, <1>6
<1>8. sent.at = "create"
  BY <1>1 DEF Running
<1>9. answer.error # "none" /\ answer.done => answer.error \in TransportErrors
  BY DEF Answers
<1>10. error = "ValidationError" /\ answer.error # "none"
            => sent.made = 0 \/ sent.misread = TRUE
  <2>1. CASE answer.done
    BY <1>1, <1>9, <2>1 DEF Running
  <2>2. CASE ~answer.done
    BY <1>2, <1>5, <1>6, <2>2
  <2>3. QED
    BY <2>1, <2>2
<1>11. OperationEnded(sent) \in Running
  BY <1>3, IdleSound, ZenonT(60) DEF OperationEnded, Running
<1>12. Sound(OperationEnded(sent), managers, late)
  <2> DEFINE e == OperationEnded(sent)
  <2>1. /\ e.at = "none" /\ e.op = "none" /\ e.as = Nothing
        /\ e.made = sent.made /\ e.misread = sent.misread
    BY DEF Idle, OperationEnded
  <2>2. QED
    BY <1>7, <2>1, NothingSent DEF Sound, Placed, Making, Shutting
<1>13. OperationEnded(sent).at = "none"
  BY DEF Idle, OperationEnded
<1>14. CASE Sends(t, [sent EXCEPT !.again = TRUE], "required")
            /\ answer.error # "none" /\ error = "ValidationError"
  <2> DEFINE s == [sent EXCEPT !.again = TRUE]
  <2>1. s \in Running
    BY <1>3 DEF Running
  <2>2. s.op = r.op /\ s.made = sent.made /\ s.misread = sent.misread
        /\ s.at = "create"
    BY <1>3, <1>4, <1>8 DEF Running
  <2>3. Making(s) /\ (s.made = 0 \/ s.misread = TRUE)
    BY <1>7, <1>10, <1>14, <2>2 DEF Making
  <2>4. UNCHANGED <<session, byKey, unsettled, transport, managers, late>>
    BY DEF CreateAnswers
  <2> HIDE DEF s
  <2>5. QED
    BY <1>1, <1>2, <1>14, <2>1, <2>2, <2>3, <2>4, SendsSound DEF s
<1>15. CASE Proceeds(t, OperationEnded(sent))
  BY <1>1, <1>11, <1>12, <1>13, <1>15, TaskProceeds DEF CreateAnswers
<1>16. QED
  BY <1>14, <1>15 DEF CreateAnswers

\* The operations that only proceed.
LEMMA OperationSteps ==
    ASSUME ClientInv, NEW t \in Task, OperationNext(t) PROVE ClientInv'
<1> DEFINE r == running[t]
<1>1. r \in Running /\ Sound(r, managers, late)
  BY ClientTypes
<1>2. Making(r) /\ Placed(r)
  BY <1>1 DEF Sound
<1>3. ASSUME NEW op \in ClientOperation,
             NEW at \in {"validate", "create", "access", "write", "read",
                         "search_read"},
             OperationBegins(t, op, at)
      PROVE  ClientInv'
  <2> DEFINE s == [Idle EXCEPT !.op = op, !.at = at, !.as = Takes(session)]
  <2>1. Takes(session) \in Sent /\ OneDatabase(Takes(session))
    BY TakesSound, ClientTypes DEF ClientInv, OneSession
  <2>2. s \in Running
    BY <2>1, IdleSound DEF Running
  <2>3. s.at = at /\ s.op = op /\ s.as = Takes(session) /\ s.made = 0
    BY DEF Idle
  <2>4. op # "close"
    BY <1>3 DEF OperationBegins, CreateStarts, WriteStarts, UnlinkStarts,
                ReadStarts, SafeStarts
  <2>5. Sound(s, managers, late)
    BY <2>1, <2>3, <2>4 DEF Sound, Placed, Making, Shutting
  <2>6. r.at # "context"
    BY <1>2, <1>3 DEF OperationBegins, Placed
  <2>7. QED
    BY <1>3, <2>2, <2>3, <2>5, <2>6, TaskProceeds DEF OperationBegins
<1>4. CASE Validated(t)
  BY <1>1, <1>2, <1>4, SendsSound DEF Validated, Making, Placed
<1>5. ASSUME NEW answer \in Answers, NEW text \in Texts,
             CreateAnswers(t, answer, text)
      PROVE  ClientInv'
  BY <1>5, CreateSteps
<1>6. ASSUME NEW some \in BOOLEAN, RequiredAnswers(t, some) PROVE ClientInv'
  BY <1>1, <1>2, <1>6, SendsSound, EndedSound, TaskProceeds
  DEF RequiredAnswers, Making, Placed
<1>7. ASSUME NEW accessible \in BOOLEAN, AccessChecked(t, accessible)
      PROVE  ClientInv'
  BY <1>1, <1>2, <1>7, SendsSound, IdleSound, TaskProceeds
  DEF AccessChecked, Placed
<1>8. CASE WriteReturns(t)
  BY <1>8, IdleSound, TaskProceeds DEF WriteReturns
<1>9. ASSUME NEW error, ReadReturns(t, error) PROVE ClientInv'
  BY <1>1, <1>2, <1>9, SendsSound, IdleSound, TaskProceeds
  DEF ReadReturns, Placed
<1>10. QED
  BY <1>3, <1>4, <1>5, <1>6, <1>7, <1>8, <1>9 DEF OperationNext

LEMMA LoginSteps ==
    ASSUME ClientInv, NEW t \in Task,
           \/ \E l \in Login, op \in {"login", "api_login"} : LoginBegins(t, l, op)
           \/ LoginFails(t)
           \/ VersionAnswers(t)
    PROVE  ClientInv'
<1> DEFINE r == running[t]
<1>1. r \in Running /\ Sound(r, managers, late) /\ Placed(r)
  BY ClientTypes DEF Sound
<1>2. ASSUME NEW l \in Login, NEW op \in {"login", "api_login"},
             LoginBegins(t, l, op)
      PROVE  ClientInv'
  <2> DEFINE s == [Idle EXCEPT !.op = op, !.at = "version", !.login = l]
  <2>1. s \in Running
    BY IdleSound DEF Running, ClientOperation
  <2>2. s.at = "version" /\ s.op = op /\ s.as = Nothing /\ s.made = 0
    BY DEF Idle
  <2>3. Sound(s, managers, late)
    BY <2>2, NothingSent DEF Sound, Placed, Making, Shutting
  <2>4. r.at # "context"
    BY <1>1, <1>2 DEF LoginBegins, Placed
  <2>5. QED
    BY <1>2, <2>1, <2>2, <2>3, <2>4, TaskProceeds DEF LoginBegins
<1>3. CASE LoginFails(t)
  BY <1>3, IdleSound, TaskProceeds DEF LoginFails
<1>4. CASE VersionAnswers(t)
  <2> DEFINE s == [r EXCEPT !.at = "authenticate"]
  <2>1. s \in Running
    BY <1>1 DEF Running
  <2>2. s.at = "authenticate" /\ s.op = r.op /\ s.as = r.as /\ s.made = r.made
        /\ s.misread = r.misread
    BY <1>1 DEF Running
  <2>3. r.op \in {"login", "api_login"}
    BY <1>1, <1>4 DEF VersionAnswers, Placed
  <2>4. Sound(s, managers, late)
    BY <1>1, <2>2, <2>3 DEF Sound, Placed, Making, Shutting
  <2>5. QED
    BY <1>4, <2>1, <2>2, <2>4, TaskProceeds DEF VersionAnswers
<1>5. QED
  BY <1>2, <1>3, <1>4

\* The credentials of one login are stored together; a context that is loaded
\* meanwhile makes the login unsettled.
LEMMA LoggedInStep ==
    ASSUME ClientInv, NEW t \in Task, LoggedIn(t) PROVE ClientInv'
<1> DEFINE r == running[t]
           l == r.login
           word == IF r.op = "login" THEN l ELSE session.password
           stored == [session EXCEPT !.database = l, !.uid = l, !.username = l,
                         !.password = word]
           s == [r EXCEPT !.at = "context", !.as = Takes(stored)]
<1>1. /\ r \in Running /\ Sound(r, managers, late) /\ r.at = "authenticate"
      /\ session \in Credentials
  BY ClientTypes DEF LoggedIn
<1>2. Placed(r) /\ Making(r) /\ l \in Login \cup {Nil}
  BY <1>1 DEF Sound, Running
<1>3. session' = stored /\ running' = [running EXCEPT ![t] = s]
  BY DEF LoggedIn, Proceeds
<1>4. stored \in Credentials
  BY <1>1, <1>2 DEF Credentials
<1>5. stored.database = l /\ stored.uid = l /\ stored.username = l
      /\ stored.password = word
  BY <1>1 DEF Credentials
<1>6. OneDatabase(stored) /\ Takes(stored) \in Sent /\ Takes(stored).uid = l
      /\ OneDatabase(Takes(stored))
  BY <1>4, <1>5, TakesSound, ZenonT(60) DEF OneDatabase, Takes
<1>7. s \in Running
  BY <1>1, <1>6 DEF Running
<1>8. s.at = "context" /\ s.op = r.op /\ s.as = Takes(stored)
      /\ s.made = r.made /\ s.misread = r.misread
  BY <1>1 DEF Running
<1>9. /\ \A u \in Task : u # t => running'[u] = running[u]
      /\ running'[t] = s
  BY <1>3, ClientTypes
<1>10. byKey' \in BOOLEAN /\ (byKey' = FALSE => r.op # "api_login")
  BY DEF LoggedIn
<1>11. late' \in BOOLEAN /\ (late = TRUE => late' = TRUE)
       /\ (transport = "closed" => late' = TRUE)
       /\ managers' = managers /\ transport' = transport
  BY DEF LoggedIn
<1>12. unsettled' \in BOOLEAN
       /\ (unsettled' = FALSE => \A u \in Task : running[u].at # "context")
  BY DEF LoggedIn, LoadingContext
<1>13. ASSUME NEW u \in Task PROVE Sound(running'[u], managers', late')
  <2>1. CASE u = t
    <3>1. r.op # "close"
      BY <1>1, <1>2 DEF Placed
    <3>2. r.op \in {"login", "api_login"}
      BY <1>1, <1>2 DEF Placed
    <3>3. QED
      BY <1>2, <1>6, <1>8, <1>9, <2>1, <3>1, <3>2, ZenonT(60)
      DEF Sound, Placed, Making, Shutting
  <2>2. CASE u # t
    BY <1>9, <1>11, <2>2, ClientTypes DEF Sound, Shutting
  <2>3. QED
    BY <2>1, <2>2
<1>14. OneSession(session', byKey')
  <2>1. r.op \in {"login", "api_login"}
    BY <1>1, <1>2 DEF Placed
  <2>2. QED
    BY <1>3, <1>5, <1>6, <1>10, <2>1 DEF OneSession
<1>15. OneContext(running', session', unsettled')
  BY <1>3, <1>5, <1>6, <1>8, <1>9, <1>12 DEF OneContext
<1>16. Fits(running', session', unsettled')
  BY <1>8, <1>9 DEF Fits
<1>17. Closed(transport', session', managers', late')
  BY <1>11 DEF Closed
<1>18. ClientTypeOK'
  <2>1. running' \in [Task -> Running]
    BY <1>3, <1>7, ClientTypes
  <2>2. QED
    BY <1>3, <1>4, <1>10, <1>11, <1>12, <2>1, ClientTypes DEF ClientTypeOK
<1>19. QED
  BY <1>13, <1>14, <1>15, <1>16, <1>17, <1>18 DEF ClientInv

\* The context of a login is loaded, or its loading is cancelled.
LEMMA ContextSteps ==
    ASSUME ClientInv, NEW t \in Task,
           \/ \E answer \in {"context", "nothing", "error"} : ContextAnswers(t, answer)
           \/ LoginCancelled(t)
    PROVE  ClientInv'
<1>1. /\ running[t].at = "context" /\ running[t] \in Running
      /\ session \in Credentials
  BY ClientTypes DEF ContextAnswers, LoginCancelled, LoadingContext
<1>2. running' = [running EXCEPT ![t] = Idle]
  BY DEF ContextAnswers, LoginCancelled, Proceeds
<1>3. /\ \A u \in Task : u # t => running'[u] = running[u]
      /\ running'[t] = Idle
  BY <1>2, ClientTypes
<1>4. UNCHANGED <<byKey, transport, managers, late>>
  BY DEF ContextAnswers, LoginCancelled
<1>5. /\ session' \in Credentials
      /\ session'.database = session.database /\ session'.uid = session.uid
      /\ session'.username = session.username
      /\ session'.password = session.password
  <2>1. /\ running[t].as.uid \in Login \cup {Nil}
        /\ session.uid \in Login \cup {Nil} /\ session.context \in Login \cup {Nil}
    BY <1>1 DEF Running, Sent, Credentials
  <2>2. \/ session' = session
        \/ session' = [session EXCEPT !.context = running[t].as.uid]
        \/ session' = [session EXCEPT !.context = session.uid]
        \/ session' = [session EXCEPT !.context = session.context]
    BY DEF ContextAnswers, LoginCancelled
  <2>3. QED
    BY <1>1, <2>1, <2>2 DEF Credentials
<1>6. unsettled' \in BOOLEAN /\ (unsettled = TRUE => unsettled' = TRUE)
  BY ClientTypes DEF ContextAnswers, LoginCancelled
<1>7. OneContext(running', session', unsettled')
  BY <1>3, <1>5, <1>6, IdleSound, ClientTypes DEF ClientInv, OneContext
<1>8. Fits(running', session', unsettled')
  <2>1. CASE unsettled' = TRUE
    BY <2>1 DEF Fits
  <2>2. CASE unsettled' = FALSE
    <3>1. \E answer \in {"context", "error"} : ContextAnswers(t, answer)
      BY <2>2 DEF LoginCancelled, ContextAnswers
    <3>2. \/ session' = [session EXCEPT !.context = running[t].as.uid]
          \/ session' = [session EXCEPT !.context = session.uid]
      BY <3>1 DEF ContextAnswers
    <3>3. running[t].as.uid = session.uid
      BY <1>1, <1>6, <2>2, ClientTypes DEF ClientInv, OneContext
    <3>4. session'.context = session.uid
      BY <1>1, <3>2, <3>3 DEF Credentials
    <3>5. QED
      BY <1>5, <3>4 DEF Fits
  <2>3. QED
    BY <1>6, <2>1, <2>2
<1>9. OneSession(session', byKey')
  BY <1>4, <1>5 DEF ClientInv, OneSession, OneDatabase
<1>10. \A u \in Task : Sound(running'[u], managers', late')
  BY <1>3, <1>4, IdleSound, ClientTypes
<1>11. Closed(transport', session', managers', late')
  BY <1>4, <1>5 DEF ClientInv, Closed
<1>12. ClientTypeOK'
  <2>1. running' \in [Task -> Running]
    BY <1>2, IdleSound, ClientTypes
  <2>2. QED
    BY <1>4, <1>5, <1>6, <2>1, ClientTypes DEF ClientTypeOK
<1>13. QED
  BY <1>7, <1>8, <1>9, <1>10, <1>11, <1>12 DEF ClientInv

\* A task proceeds, with managers set up or closed: none is opened unheard.
LEMMA ManagersProceed ==
    ASSUME ClientInv, NEW t \in Task, NEW r \in Running, Proceeds(t, r),
           running[t].at # "context", r.at # "context",
           NEW m \in {"ai", "cache"}, NEW state \in {"open", "closed"},
           managers' = [managers EXCEPT ![m] = state],
           late' \in BOOLEAN, late = TRUE => late' = TRUE,
           state = "open" => (transport = "closed" => late' = TRUE)
               /\ \A u \in Task : running[u].op = "close" => late' = TRUE,
           Sound(r, managers', late'), transport' \in {transport, "shut"},
           UNCHANGED <<session, byKey, unsettled>>
    PROVE  ClientInv'
<1>1. running' = [running EXCEPT ![t] = r]
  BY DEF Proceeds
<1>2. /\ \A u \in Task : u # t => running'[u] = running[u]
      /\ running'[t] = r
  BY <1>1, ClientTypes
<1>3. /\ managers' \in [{"ai", "cache"} -> {"none", "open", "closed"}]
      /\ \A k \in {"ai", "cache"} : state # "open" /\ managers[k] # "open"
              => managers'[k] # "open"
  BY ClientTypes
<1>4. state # "open" => (managers.ai # "open" => managers'.ai # "open")
                         /\ (managers.cache # "open" => managers'.cache # "open")
  BY <1>3
<1>5. ASSUME NEW u \in Task, u # t PROVE Sound(running'[u], managers', late')
  <2>1. Sound(running[u], managers, late)
    BY ClientTypes
  <2>2. Shutting(running[u], managers', late')
    BY <1>4, <2>1 DEF Sound, Shutting
  <2>3. QED
    BY <1>2, <1>5, <2>1, <2>2 DEF Sound
<1>6. \A u \in Task : Sound(running'[u], managers', late')
  BY <1>2, <1>5
<1>7. Closed(transport', session, managers', late')
  BY <1>4 DEF ClientInv, Closed
<1>8. \A u \in Task : running'[u].at = "context" <=> running[u].at = "context"
  BY <1>2
<1>9. OneContext(running', session, unsettled)
  BY <1>2, <1>8 DEF ClientInv, OneContext
<1>10. Fits(running', session, unsettled)
  BY <1>8 DEF ClientInv, Fits
<1>11. ClientTypeOK'
  BY <1>1, <1>3 DEF ClientInv, ClientTypeOK
<1>12. QED
  BY <1>6, <1>7, <1>9, <1>10, <1>11 DEF ClientInv

LEMMA ManagerSteps ==
    ASSUME ClientInv, NEW t \in Task, ManagerNext(t) PROVE ClientInv'
<1> DEFINE r == running[t]
<1>1. r \in Running /\ Sound(r, managers, late) /\ Placed(r)
  BY ClientTypes DEF Sound
<1>2. ASSUME NEW m \in {"ai", "cache"}, SetupBegins(t, m) PROVE ClientInv'
  <2> DEFINE s == [Idle EXCEPT !.op = "setup", !.at = m]
  <2>1. s \in Running
    BY IdleSound DEF Running, ClientOperation
  <2>2. s.at = m /\ s.op = "setup" /\ s.as = Nothing /\ s.made = 0
    BY DEF Idle
  <2>3. Sound(s, managers', late')
    BY <2>2, NothingSent DEF Sound, Placed, Making, Shutting
  <2>4. late' \in BOOLEAN /\ (late = TRUE => late' = TRUE)
        /\ (transport = "closed" => late' = TRUE)
    BY <1>2 DEF SetupBegins
  <2>5. \A u \in Task : running[u].op = "close" => late' = TRUE
    BY <1>2 DEF SetupBegins, Closing
  <2>6. r.at # "context" /\ s.at # "context"
    BY <1>1, <1>2, <2>2 DEF SetupBegins, Placed
  <2>7. /\ Proceeds(t, s) /\ managers' = [managers EXCEPT ![m] = "open"]
        /\ UNCHANGED <<session, byKey, unsettled, transport>>
    BY <1>2 DEF SetupBegins
  <2> HIDE DEF s
  <2>8. QED
    BY <2>1, <2>3, <2>4, <2>5, <2>6, <2>7, ManagersProceed
<1>3. CASE SetupEnds(t)
  BY <1>1, <1>3, IdleSound, TaskProceeds DEF SetupEnds, Placed
<1>4. CASE ManagerCloses(t)
  <2> DEFINE next == IF r.at = "ai" THEN Closes("cache") ELSE "transport"
             s == [r EXCEPT !.at = next]
  <2>1. next \in {"cache", "transport"}
        /\ (next = "transport" => r.at = "cache" \/ managers.cache = "none")
    BY <1>4 DEF Closes, ManagerCloses
  <2>2. s \in Running
    BY <1>1, <2>1 DEF Running
  <2>3. s.at = next /\ s.op = "close" /\ s.as = r.as /\ s.made = r.made
        /\ s.misread = r.misread
    BY <1>1, <1>4 DEF Running, ManagerCloses
  <2>4. r.at \in {"ai", "cache"} /\ r.op = "close" /\ late' = late
        /\ managers' = [managers EXCEPT ![r.at] = "closed"]
    BY <1>4 DEF ManagerCloses
  <2>5. late = FALSE /\ r.at = "cache" => managers.ai # "open"
    BY <1>1, <2>4 DEF Sound, Shutting
  <2>6. late = FALSE => managers'.ai # "open"
    BY <2>4, <2>5, ClientTypes
  <2>7. next = "transport" => managers'.cache # "open"
    BY <2>1, <2>4, ClientTypes
  <2>8. Sound(s, managers', late')
    BY <1>1, <2>1, <2>3, <2>4, <2>6, <2>7 DEF Sound, Placed, Making, Shutting
  <2>9. s.at # "context" /\ r.at # "context" /\ late' \in BOOLEAN
    BY <2>1, <2>3, <2>4, ClientTypes
  <2>10. /\ Proceeds(t, s) /\ transport' \in {transport, "shut"}
         /\ UNCHANGED <<session, byKey, unsettled>>
    BY <1>4 DEF ManagerCloses, ShutsAt
  <2> HIDE DEF s, next
  <2>11. QED
    BY <2>2, <2>4, <2>8, <2>9, <2>10, ManagersProceed
<1>5. QED
  BY <1>2, <1>3, <1>4 DEF ManagerNext

LEMMA CloseSteps ==
    ASSUME ClientInv, NEW t \in Task, CloseNext(t) PROVE ClientInv'
<1> DEFINE r == running[t]
<1>1. r \in Running /\ Sound(r, managers, late) /\ Placed(r)
  BY ClientTypes DEF Sound
<1>2. CASE CloseBegins(t)
  <2> DEFINE s == [Idle EXCEPT !.op = "close", !.at = Closes("ai")]
  <2>1. /\ Closes("ai") \in {"ai", "cache", "transport"}
        /\ Closes("ai") \in {"cache", "transport"} => managers.ai = "none"
        /\ Closes("ai") = "transport" => managers.cache = "none"
    BY DEF Closes
  <2>2. s \in Running
    BY <2>1, IdleSound DEF Running, ClientOperation
  <2>3. s.at = Closes("ai") /\ s.op = "close" /\ s.as = Nothing /\ s.made = 0
    BY DEF Idle
  <2>4. Sound(s, managers, late)
    BY <2>1, <2>3, NothingSent DEF Sound, Placed, Making, Shutting
  <2>5. r.at # "context"
    BY <1>1, <1>2 DEF CloseBegins, Placed
  <2>6. QED
    BY <1>2, <2>1, <2>2, <2>3, <2>4, <2>5, TaskMoves DEF CloseBegins, ShutsAt
<1>3. CASE CloseFails(t)
  BY <1>1, <1>3, IdleSound, TaskProceeds DEF CloseFails, Placed
<1>4. CASE TransportCloses(t)
  <2> DEFINE ses == [LoggedOut EXCEPT !.password = session.password]
  <2>1. running' = [running EXCEPT ![t] = Idle] /\ session' = ses
    BY <1>4 DEF TransportCloses, Proceeds
  <2>2. /\ r.op = "close" /\ r.at = "transport" /\ transport' = "closed"
        /\ UNCHANGED <<byKey, managers, late>>
    BY <1>4 DEF TransportCloses
  <2>3. /\ \A u \in Task : u # t => running'[u] = running[u]
        /\ running'[t] = Idle
    BY <2>1, ClientTypes
  <2>4. ses \in Credentials
    BY ClientTypes DEF Credentials, LoggedOut
  <2>5. ses.uid = Nil /\ ses.database = Nil /\ ses.username = Nil
        /\ ses.context = Nil
    BY DEF LoggedOut
  <2>6. unsettled' \in BOOLEAN
        /\ (unsettled' = FALSE => \A u \in Task : running[u].at # "context")
    BY <1>4 DEF TransportCloses, LoadingContext
  <2>7. OneContext(running', session', unsettled')
    BY <2>3, <2>6, IdleSound DEF OneContext
  <2>8. Fits(running', session', unsettled')
    BY <2>1, <2>5 DEF Fits
  <2>9. OneSession(session', byKey')
    BY <2>1, <2>5 DEF OneSession, OneDatabase
  <2>10. \A u \in Task : Sound(running'[u], managers', late')
    BY <2>2, <2>3, IdleSound, ClientTypes
  <2>11. Closed(transport', session', managers', late')
    BY <1>1, <2>1, <2>2, <2>5 DEF Closed, Sound, Shutting
  <2>12. ClientTypeOK'
    <3>1. running' \in [Task -> Running]
      BY <2>1, IdleSound, ClientTypes
    <3>2. QED
      BY <2>1, <2>2, <2>4, <2>6, <3>1, ClientTypes DEF ClientTypeOK
  <2>13. QED
    BY <2>7, <2>8, <2>9, <2>10, <2>11, <2>12 DEF ClientInv
<1>5. QED
  BY <1>2, <1>3, <1>4 DEF CloseNext

LEMMA ClientStep == ClientInv /\ [ClientNext]_<<now, clientVars>> => ClientInv'
<1> SUFFICES ASSUME ClientInv, [ClientNext]_<<now, clientVars>> PROVE ClientInv'
  OBVIOUS
<1>1. CASE UNCHANGED <<now, clientVars>>
  BY <1>1 DEF clientVars, ClientInv, ClientTypeOK
<1>2. ASSUME NEW t \in Task, LoginNext(t) PROVE ClientInv'
  BY <1>2, LoginSteps, LoggedInStep, ContextSteps DEF LoginNext
<1>3. QED
  BY <1>1, <1>2, ContextSteps, OperationSteps, ManagerSteps, CloseSteps
  DEF ClientNext

LEMMA ClientInvSuffices == ClientInv => ClientCorrect
<1> SUFFICES ASSUME ClientInv PROVE ClientCorrect
  OBVIOUS
<1>1. OneLogin
  <2>1. session.database = session.uid /\ session.username = session.uid
    BY DEF ClientInv, OneSession, OneDatabase
  <2>2. Takes(session).database = Takes(session).uid
    BY <2>1 DEF Takes
  <2>3. \A t \in Task : running[t].as.database = running[t].as.uid
    BY ClientTypes DEF Sound, OneDatabase
  <2>4. IsAuthenticated /\ ~byKey => session.password = session.uid
    BY ClientTypes DEF ClientInv, OneSession, IsAuthenticated
  <2>5. QED
    BY <2>1, <2>2, <2>3, <2>4 DEF OneLogin
<1>2. ContextFits
  BY DEF ClientInv, Fits, ContextFits, LoadingContext
<1>3. CreatedOnce
  BY ClientTypes DEF Sound, Making, CreatedOnce
<1>4. ClosedMeansClosed
  BY ClientTypes
  DEF ClientInv, Closed, ClosedMeansClosed, IsAuthenticated
<1>5. QED
  BY <1>1, <1>2, <1>3, <1>4 DEF ClientInv, ClientCorrect

\* However many tasks log in, call and close at once: the session and every call
\* are of one login, its context fits, a record is created once and a closed
\* client is logged out, each but for what the definition excepts
\* (SessionManager, execute_kw(), close(), safe_create_with_fallback()).
THEOREM ClientSafe == ClientSpec => []ClientCorrect
<1>1. now = 0 /\ ClientInit => ClientInv
  BY ClientInitially
<1>2. QED
  BY <1>1, ClientStep, ClientInvSuffices, PTL DEF ClientSpec

(****************************************************************************)
(* LazyLoading.                                                             *)
(****************************************************************************)

\* A set of which any two members are the same.
LEMMA AtMostOne ==
    ASSUME NEW S, NEW one, S \subseteq {one}
    PROVE  Cardinality(S) <= 1
<1>1. S = {} \/ S = {one}
  OBVIOUS
<1>2. Cardinality({}) = 0 /\ Cardinality({one}) = 1
  BY FS_EmptySet, FS_Singleton
<1> QED
  BY <1>1, <1>2

\* The only load that runs is the one of the loader, and it began after its last
\* invalidation.
OneLoad ==
    /\ \A l \in DOMAIN loads :
          loads[l].pc = "running" => loader.task = l /\ loads[l].era = invalidated
    /\ loader.loaded =>
          loader.of \in DOMAIN loads /\ loads[loader.of].era = invalidated

\* The only batch under way is the one in _batch_tasks; it has taken its queue
\* if it does not sleep.
OneBatch ==
    \A b \in DOMAIN batchLoads :
       /\ batchLoads[b].pc # "done" => batchTask = b
       /\ batchLoads[b].pc = "sleeping" => batchLoads[b].of = {}

\* A relation that was asked for when it had been invalidated era times.
Served(r, era) ==
    \/ r \in queued
    \/ \E b \in DOMAIN batchLoads :
          /\ r \in batchLoads[b].of
          /\ \/ InFlight(batchLoads[b])
             \/ batchLoads[b].outcome = "cancelled"
    \/ relations[r].loaded
    \/ relations[r].era > era

AllServed ==
    \A t \in Task : awaiting[t].what = "batch" =>
       \A r \in awaiting[t].of :
          awaiting[t].era <= relations[r].era /\ Served(r, awaiting[t].era)

\* Records are of relations and of ids that have some.
RecordsRelated ==
    /\ \A r \in Relation : relations[r].data = "records" => RelatedIds[r] # {}
    /\ \A p \in prefetched : p.data = "records" => p.ids # {}

LazyInv == LazyTypeOK /\ OneLoad /\ OneBatch /\ AllServed /\ RecordsRelated

LEMMA LazyInvCorrect == LazyInv => LazyCorrect
<1> SUFFICES ASSUME LazyInv
             PROVE  LoaderFresh /\ RelationsServed
  BY Zenon DEF LazyInv, LazyCorrect
<1>1. Quantify(DOMAIN loads, LAMBDA l : loads[l].pc = "running") <= 1
  <2> DEFINE S == {l \in DOMAIN loads : loads[l].pc = "running"}
  <2>1. S \subseteq {loader.task}
    BY DEF LazyInv, OneLoad
  <2>2. Cardinality(S) <= 1
    BY <2>1, AtMostOne
  <2> QED
    BY <2>2 DEF Quantify
<1>2. Quantify(DOMAIN batchLoads, LAMBDA b : InFlight(batchLoads[b])) <= 1
  <2> DEFINE S == {b \in DOMAIN batchLoads : InFlight(batchLoads[b])}
  <2>1. S \subseteq {batchTask}
    BY DEF LazyInv, OneBatch, InFlight
  <2>2. Cardinality(S) <= 1
    BY <2>1, AtMostOne
  <2> QED
    BY <2>2 DEF Quantify
<1>3. LoaderFresh
  BY <1>1, Zenon DEF LazyInv, OneLoad, LoaderFresh
<1>4. RelationsServed
  BY <1>2, Zenon DEF LazyInv, AllServed, Served, RecordsRelated, RelationsServed
<1> QED
  BY <1>3, <1>4

LEMMA LazyInvInit == LazyInit => LazyInv
<1> SUFFICES ASSUME LazyInit
             PROVE  LazyInv
  OBVIOUS
<1>1. LazyTypeOK
  BY DEF LazyInit, LazyTypeOK, NothingLoaded, Nobody, Awaiting, NewRelation
<1>2. OneLoad /\ OneBatch
  BY DEF LazyInit, OneLoad, OneBatch, NothingLoaded
<1>3. AllServed /\ RecordsRelated
  BY DEF LazyInit, AllServed, RecordsRelated, Nobody, NewRelation
<1> QED
  BY <1>1, <1>2, <1>3, Zenon DEF LazyInv


\* What a step that leaves the relations and their batches alone keeps.
LEMMA RelationsUntouched ==
    ASSUME LazyInv, UNCHANGED relationVars,
           \A t \in Task : \/ awaiting'[t] = awaiting[t]
                           \/ awaiting'[t].what # "batch"
    PROVE  OneBatch' /\ AllServed' /\ RecordsRelated'
<1>1. UNCHANGED <<relations, queued, batchTask, batchLoads, prefetched>>
  BY DEF relationVars
<1>2. OneBatch'
  BY <1>1 DEF LazyInv, OneBatch
<1>3. \A r \in Relation, era \in Nat : Served(r, era) => Served(r, era)'
  BY <1>1, Zenon DEF Served, InFlight
<1>4. AllServed'
  <2> SUFFICES ASSUME NEW t \in Task, awaiting'[t].what = "batch", NEW r \in awaiting'[t].of
               PROVE  awaiting'[t].era <= relations'[r].era /\ Served(r, awaiting[t].era)'
    BY DEF AllServed
  <2>1. awaiting'[t] = awaiting[t]
    OBVIOUS
  <2>2. awaiting[t].era <= relations[r].era /\ Served(r, awaiting[t].era)
    BY <2>1 DEF LazyInv, AllServed
  <2> QED
    BY <1>1, <2>1, <2>2, Zenon DEF Served, InFlight
<1>5. RecordsRelated'
  BY <1>1 DEF LazyInv, RecordsRelated
<1> QED
  BY <1>2, <1>4, <1>5

LEMMA RelationsTyped ==
    ASSUME LazyTypeOK, UNCHANGED relationVars, UNCHANGED invalidated,
           loader' \in [loaded : BOOLEAN, of : Nat, task : Nat], loads' \in Seq(Load),
           awaiting' \in [Task -> Awaiting]
    PROVE  LazyTypeOK'
BY Zenon DEF LazyTypeOK, relationVars

LEMMA Nobodies ==
    /\ Nobody \in Awaiting /\ Nobody.what = "none"
    /\ \A n \in Nat : /\ [Nobody EXCEPT !.what = "load", !.id = n] \in Awaiting
                      /\ [Nobody EXCEPT !.what = "load", !.id = n].what = "load"
BY DEF Nobody, Awaiting

LEMMA LoadBegins ==
    ASSUME LazyInv, NEW t \in Task, LazyLoad(t)
    PROVE  LazyInv'
<1>1. /\ loader \in [loaded : BOOLEAN, of : Nat, task : Nat] /\ loads \in Seq(Load)
      /\ awaiting \in [Task -> Awaiting] /\ invalidated \in Nat
      /\ UNCHANGED relationVars /\ UNCHANGED invalidated
  BY DEF LazyInv, LazyTypeOK, LazyLoad
<1>2. \E a \in Awaiting : a.what # "batch" /\ awaiting' = [awaiting EXCEPT ![t] = a]
  <2>1. CASE awaiting' = [awaiting EXCEPT ![t] = Nobody]
    BY <2>1, Nobodies
  <2>2. CASE \E n \in Nat : awaiting' = [awaiting EXCEPT ![t] =
                                           [Nobody EXCEPT !.what = "load", !.id = n]]
    BY <2>2, Nobodies
  <2>3. loader.task \in Nat /\ Len(loads) + 1 \in Nat
    BY <1>1
  <2> QED
    BY <2>1, <2>2, <2>3, Zenon DEF LazyLoad, LoadAwaits
<1>5. /\ awaiting' \in [Task -> Awaiting]
      /\ \A u \in Task : awaiting'[u] = awaiting[u] \/ awaiting'[u].what # "batch"
  BY <1>1, <1>2
<1>3. CASE UNCHANGED <<loader, loads>>
  <2>2. OneLoad'
    BY <1>1, <1>3 DEF LazyInv, OneLoad
  <2> QED
    BY <1>1, <1>5, <1>3, <2>2, RelationsTyped, RelationsUntouched, Zenon DEF LazyInv
<1>4. CASE ~UNCHANGED <<loader, loads>>
  <2> DEFINE begun == [pc |-> "running", era |-> invalidated, outcome |-> "none"]
             n == Len(loads) + 1
  <2>1. /\ ~LoadInFlight /\ ~loader.loaded
        /\ loads' = Append(loads, begun)
        /\ loader' = [loader EXCEPT !.task = n]
        /\ awaiting' = [awaiting EXCEPT ![t] = [Nobody EXCEPT !.what = "load", !.id = n]]
    BY <1>4 DEF LazyLoad, LoadAwaits
  <2>2. begun \in Load /\ n \in Nat
    BY <1>1 DEF Load
  <2>4. /\ loads' \in Seq(Load) /\ DOMAIN loads' = DOMAIN loads \cup {n}
        /\ loads'[n] = begun /\ \A l \in DOMAIN loads : loads'[l] = loads[l] /\ l \in Nat \ {0}
    BY <1>1, <2>1, <2>2
  <2>5. loader' \in [loaded : BOOLEAN, of : Nat, task : Nat]
    BY <1>1, <2>1, <2>2
  <2>6. \A l \in DOMAIN loads : loads[l].pc # "running"
    BY <2>1, <2>4 DEF LazyInv, OneLoad, LoadInFlight, InFlight
  <2>7. loader'.task = n /\ loader'.loaded = loader.loaded /\ loader'.of = loader.of
    BY <1>1, <2>1
  <2>8. OneLoad'
    BY <1>1, <2>1, <2>4, <2>6, <2>7 DEF LazyInv, OneLoad
  <2> QED
    BY <1>1, <1>5, <2>4, <2>5, <2>8, RelationsTyped, RelationsUntouched, Zenon DEF LazyInv
<1> QED
  BY <1>3, <1>4

LEMMA LoadReports ==
    ASSUME LazyInv, NEW l \in DOMAIN loads,
           \/ \E outcome \in {"data", "raised"} : LoadEnds(l, outcome)
           \/ LoadCancelled(l)
    PROVE  LazyInv'
<1>1. /\ loader \in [loaded : BOOLEAN, of : Nat, task : Nat] /\ loads \in Seq(Load)
      /\ awaiting \in [Task -> Awaiting] /\ invalidated \in Nat
      /\ UNCHANGED relationVars /\ UNCHANGED <<invalidated, awaiting>>
      /\ l \in Nat
  BY DEF LazyInv, LazyTypeOK, LoadEnds, LoadCancelled
<1>2. PICK outcome \in {"data", "raised", "cancelled"} :
         /\ loads' = [loads EXCEPT ![l].pc = "done", ![l].outcome = outcome]
         /\ \/ loads[l].pc = "running" /\ outcome = "data"
               /\ loader' = [loader EXCEPT !.loaded = TRUE, !.of = l]
            \/ loads[l].pc = "running" /\ outcome = "raised"
               /\ loader' = [loader EXCEPT !.task = 0]
            \/ loads[l].pc = "cancelling" /\ loader' = loader
  BY DEF LoadEnds, LoadCancelled
<1>3. loads[l] \in Load
  BY <1>1
<1>4. /\ loads' \in Seq(Load) /\ DOMAIN loads' = DOMAIN loads
      /\ loads'[l].pc = "done" /\ loads'[l].era = loads[l].era
      /\ \A k \in DOMAIN loads : k # l => loads'[k] = loads[k]
  <2> DEFINE load == [loads[l] EXCEPT !.pc = "done", !.outcome = outcome]
  <2>1. load \in Load /\ load.pc = "done" /\ load.era = loads[l].era
    BY <1>3 DEF Load
  <2>2. loads' = [loads EXCEPT ![l] = load]
    BY <1>2
  <2> HIDE DEF load
  <2> QED
    BY ONLY <1>1, <2>1, <2>2, l \in DOMAIN loads
<1>5. loader' \in [loaded : BOOLEAN, of : Nat, task : Nat]
  <2>1. /\ [loader EXCEPT !.loaded = TRUE, !.of = l] \in [loaded : BOOLEAN, of : Nat, task : Nat]
        /\ [loader EXCEPT !.task = 0] \in [loaded : BOOLEAN, of : Nat, task : Nat]
    BY <1>1
  <2> QED
    BY <1>1, <1>2, <2>1, Zenon
<1>6. OneLoad'
  <2>1. \A k \in DOMAIN loads' : loads'[k].pc = "running" =>
           k # l /\ loads[k].pc = "running" /\ loader.task = k /\ loads[k].era = invalidated
    BY <1>4 DEF LazyInv, OneLoad
  <2>2. loader.loaded => loader.of \in DOMAIN loads' /\ loads'[loader.of].era = invalidated
    BY <1>4, Zenon DEF LazyInv, OneLoad
  <2>3. CASE loads[l].pc = "running"
    <3>1. loader.task = l /\ loads[l].era = invalidated
      BY <2>3 DEF LazyInv, OneLoad
    <3>2. \A k \in DOMAIN loads' : loads'[k].pc # "running"
      BY <2>1, <3>1
    <3>3. \/ loader'.loaded = loader.loaded /\ loader'.of = loader.of
          \/ loader'.of = l
      BY <1>1, <1>2, <2>3
    <3>4. loader'.loaded => loader'.of \in DOMAIN loads' /\ loads'[loader'.of].era = invalidated
      BY <1>4, <2>2, <3>1, <3>3, Zenon
    <3> QED
      BY <1>1, <3>2, <3>4, Zenon DEF OneLoad
  <2>4. CASE loader' = loader
    BY <1>1, <1>4, <2>1, <2>2, <2>4, ZenonT(60) DEF OneLoad
  <2> QED
    BY <1>2, <2>3, <2>4
<1> QED
  BY <1>1, <1>4, <1>5, <1>6, RelationsTyped, RelationsUntouched, Zenon DEF LazyInv

LEMMA LoadInvalidated ==
    ASSUME LazyInv, LoaderInvalidated
    PROVE  LazyInv'
<1>1. /\ loads \in Seq(Load) /\ invalidated \in Nat
      /\ UNCHANGED relationVars /\ UNCHANGED awaiting
      /\ loader' = NothingLoaded /\ invalidated' = invalidated + 1
      /\ loads' = IF LoadInFlight THEN [loads EXCEPT ![loader.task].pc = "cancelling"]
                  ELSE loads
  BY DEF LazyInv, LazyTypeOK, LoaderInvalidated
<1>2. loads' \in Seq(Load) /\ DOMAIN loads' = DOMAIN loads
  <2>1. CASE loader.task \in DOMAIN loads /\ LoadInFlight
    <3>1. loads[loader.task] \in Load
      BY <1>1, <2>1
    <3>2. [loads[loader.task] EXCEPT !.pc = "cancelling"] \in Load
      BY <3>1 DEF Load
    <3> QED
      BY <1>1, <2>1, <3>2
  <2>2. CASE loader.task \notin DOMAIN loads /\ LoadInFlight
    <3>1. loads \in [1 .. Len(loads) -> Load] /\ Len(loads) \in Nat
      BY <1>1
    <3>2. loads' \in [1 .. Len(loads) -> Load]
      BY <1>1, <2>2, <3>1
    <3> QED
      BY <3>1, <3>2
  <2> QED
    BY <1>1, <2>1, <2>2
<1>3. \A l \in DOMAIN loads : loads'[l].pc # "running"
  BY <1>1, <1>2 DEF LazyInv, OneLoad, LoadInFlight, InFlight, Load
<1>4. OneLoad'
  BY <1>1, <1>2, <1>3 DEF OneLoad, NothingLoaded
<1>5. loader' \in [loaded : BOOLEAN, of : Nat, task : Nat]
  BY <1>1 DEF NothingLoaded
<1>6. LazyTypeOK'
  BY <1>1, <1>2, <1>5 DEF LazyInv, LazyTypeOK, relationVars
<1> QED
  BY <1>1, <1>4, <1>6, RelationsUntouched, Zenon DEF LazyInv


Related == [loaded : BOOLEAN, era : Nat, data : {"unset", "empty", "records"}]

\* What a step that leaves the loader alone keeps.
LEMMA LoaderUntouched ==
    ASSUME LazyInv, UNCHANGED <<loader, loads, invalidated>>
    PROVE  OneLoad'
BY DEF LazyInv, OneLoad

LEMMA LoaderTyped ==
    ASSUME LazyTypeOK, UNCHANGED <<loader, loads, invalidated>>,
           awaiting' \in [Task -> Awaiting], relations' \in [Relation -> Related],
           queued' \in SUBSET Relation, batchTask' \in Nat, batchLoads' \in Seq(BatchLoad),
           \A p \in prefetched' : p.data \in {"empty", "records"}
    PROVE  LazyTypeOK'
<1>1. {batchTask', invalidated'} \subseteq Nat
  BY DEF LazyTypeOK
<1> QED
  BY <1>1, Zenon DEF LazyTypeOK, Related

LEMMA LazyTypes ==
    ASSUME LazyTypeOK
    PROVE  /\ loader \in [loaded : BOOLEAN, of : Nat, task : Nat] /\ loads \in Seq(Load)
           /\ awaiting \in [Task -> Awaiting] /\ relations \in [Relation -> Related]
           /\ queued \in SUBSET Relation /\ batchTask \in Nat /\ invalidated \in Nat
           /\ batchLoads \in Seq(BatchLoad)
           /\ \A p \in prefetched : p.data \in {"empty", "records"}
<1>1. batchTask \in Nat /\ invalidated \in Nat
  BY DEF LazyTypeOK
<1> QED
  BY <1>1, Zenon DEF LazyTypeOK, Related

\* Resuming and prefetching change what a task awaits, and nothing else.
LEMMA AwaitingChanges ==
    ASSUME LazyInv, NEW t \in Task,
           LazyResumes(t) \/ \E rs \in SUBSET Relation : Prefetch(t, rs)
    PROVE  LazyInv'
<1>1. UNCHANGED <<loader, loads, relationVars, invalidated>>
  BY DEF LazyResumes, Prefetch
<1>2. \E a \in Awaiting : a.what # "batch" /\ awaiting' = [awaiting EXCEPT ![t] = a]
  <2>1. \A got \in {"none", "unloaded"} :
           [Nobody EXCEPT !.got = got] \in Awaiting /\ [Nobody EXCEPT !.got = got].what # "batch"
    BY DEF Nobody, Awaiting
  <2>2. ASSUME LazyResumes(t)
        PROVE  \E got \in {"none", "unloaded"} :
                  awaiting' = [awaiting EXCEPT ![t] = [Nobody EXCEPT !.got = got]]
    BY <2>2, ZenonT(60) DEF LazyResumes
  <2>3. ASSUME NEW rs \in SUBSET Relation, Prefetch(t, rs)
        PROVE  \E of \in SUBSET Relation : awaiting' = [awaiting EXCEPT ![t] =
                  [Nobody EXCEPT !.what = "prefetch", !.of = of]]
    BY <2>3, ZenonT(60) DEF Prefetch
  <2>4. \A of \in SUBSET Relation :
           LET a == [Nobody EXCEPT !.what = "prefetch", !.of = of]
           IN  a \in Awaiting /\ a.what # "batch"
    BY DEF Nobody, Awaiting
  <2> QED
    BY <2>1, <2>2, <2>3, <2>4, Zenon
<1>3. awaiting \in [Task -> Awaiting]
  BY DEF LazyInv, LazyTypeOK
<1>4. /\ awaiting' \in [Task -> Awaiting]
      /\ \A u \in Task : awaiting'[u] = awaiting[u] \/ awaiting'[u].what # "batch"
  BY <1>2, <1>3
<1>5. OneLoad'
  BY <1>1, LoaderUntouched, Zenon
<1>6. LazyTypeOK'
  <2>1. loader' \in [loaded : BOOLEAN, of : Nat, task : Nat] /\ loads' \in Seq(Load)
    BY <1>1, LazyTypes, Zenon DEF LazyInv
  <2> QED
    BY <1>1, <1>4, <2>1, RelationsTyped, Zenon DEF LazyInv
<1> QED
  BY <1>1, <1>4, <1>5, <1>6, RelationsUntouched, Zenon DEF LazyInv

LEMMA LazyCancels ==
    ASSUME LazyInv, NEW t \in Task, LazyCancelled(t)
    PROVE  LazyInv'
<1> DEFINE n == awaiting[t].id
<1>1. /\ UNCHANGED <<loader, awaiting, relations, queued, batchTask, prefetched, invalidated>>
      /\ loads \in Seq(Load) /\ batchLoads \in Seq(BatchLoad)
  BY LazyTypes DEF LazyInv, LazyCancelled
<1>2. CASE loads[n].pc = "running" /\ loads' = [loads EXCEPT ![n].pc = "cancelling"]
           /\ UNCHANGED batchLoads
  <2>1. UNCHANGED relationVars
    BY <1>1, <1>2 DEF relationVars
  <2>2. DOMAIN loads' = DOMAIN loads /\ loads' \in Seq(Load)
    <3>1. CASE n \in DOMAIN loads
      <4>1. loads[n] \in Load
        BY <1>1, <3>1
      <4>2. [loads[n] EXCEPT !.pc = "cancelling"] \in Load
        BY <4>1 DEF Load
      <4> QED
        BY <1>1, <1>2, <3>1, <4>2
    <3>2. CASE n \notin DOMAIN loads
      <4>1. loads \in [1 .. Len(loads) -> Load] /\ Len(loads) \in Nat
        BY <1>1
      <4>2. loads' \in [1 .. Len(loads) -> Load]
        BY <1>1, <1>2, <3>2, <4>1
      <4> QED
        BY <4>1, <4>2
    <3> QED
      BY <3>1, <3>2
  <2>3. \A l \in DOMAIN loads : /\ loads'[l].era = loads[l].era
                                /\ loads'[l].pc = "running" => loads[l].pc = "running"
    BY <1>1, <1>2 DEF Load
  <2>4. OneLoad'
    BY <1>1, <2>2, <2>3, Zenon DEF LazyInv, OneLoad
  <2>5. LazyTypeOK'
    <3>1. loader' \in [loaded : BOOLEAN, of : Nat, task : Nat] /\ awaiting' \in [Task -> Awaiting]
      BY <1>1, LazyTypes, Zenon DEF LazyInv
    <3> QED
      BY <1>1, <2>1, <2>2, <3>1, RelationsTyped, Zenon DEF LazyInv
  <2>6. \A u \in Task : awaiting'[u] = awaiting[u]
    BY <1>1
  <2> QED
    BY <2>1, <2>4, <2>5, <2>6, RelationsUntouched, Zenon DEF LazyInv
<1>3. CASE batchLoads[n].pc \in {"sleeping", "fetching"}
           /\ batchLoads' = [batchLoads EXCEPT ![n].pc = "cancelling"] /\ UNCHANGED loads
  <2>1. DOMAIN batchLoads' = DOMAIN batchLoads /\ batchLoads' \in Seq(BatchLoad)
    <3>1. CASE n \in DOMAIN batchLoads
      <4>1. batchLoads[n] \in BatchLoad
        BY <1>1, <3>1
      <4>2. [batchLoads[n] EXCEPT !.pc = "cancelling"] \in BatchLoad
        BY <4>1 DEF BatchLoad
      <4> QED
        BY <1>1, <1>3, <3>1, <4>2
    <3>2. CASE n \notin DOMAIN batchLoads
      <4>1. batchLoads \in [1 .. Len(batchLoads) -> BatchLoad] /\ Len(batchLoads) \in Nat
        BY <1>1
      <4>2. batchLoads' \in [1 .. Len(batchLoads) -> BatchLoad]
        BY <1>1, <1>3, <3>2, <4>1
      <4> QED
        BY <4>1, <4>2
    <3> QED
      BY <3>1, <3>2
  <2>2. \A b \in DOMAIN batchLoads :
           /\ batchLoads'[b].of = batchLoads[b].of
           /\ batchLoads'[b].outcome = batchLoads[b].outcome
           /\ batchLoads'[b].pc # "done" <=> batchLoads[b].pc # "done"
           /\ batchLoads'[b].pc = "sleeping" => batchLoads[b].pc = "sleeping"
    BY <1>1, <1>3 DEF BatchLoad
  <2>3. OneBatch'
    BY <1>1, <2>1, <2>2 DEF LazyInv, OneBatch
  <2>4. AllServed'
    <3>1. relations' = relations /\ queued' = queued /\ awaiting' = awaiting
      BY <1>1
    <3>2. ASSUME NEW r, NEW era, Served(r, era)
          PROVE  Served(r, era)'
      BY <2>1, <2>2, <3>1, <3>2, Zenon DEF Served, InFlight
    <3> QED
      BY <3>1, <3>2, Zenon DEF LazyInv, AllServed
  <2>5. RecordsRelated'
    BY <1>1 DEF LazyInv, RecordsRelated
  <2>6. LazyTypeOK'
    BY <1>1, <1>3, <2>1, LazyTypes, LoaderTyped, Zenon DEF LazyInv
  <2>7. OneLoad'
    BY <1>1, <1>3, LoaderUntouched, Zenon
  <2> QED
    BY <2>3, <2>4, <2>5, <2>6, <2>7, Zenon DEF LazyInv
<1> QED
  BY <1>2, <1>3, Zenon DEF LazyCancelled


\* A call that awaits the batch of its relation.
LEMMA BatchAwaited ==
    ASSUME LazyInv, NEW t \in Task, NEW r \in Relation, NEW id \in Nat, AwaitsBatch(t, r, id),
           r \in queued', UNCHANGED relations,
           \A other, era : Served(other, era) => Served(other, era)'
    PROVE  awaiting' \in [Task -> Awaiting] /\ AllServed'
<1> DEFINE a == [Nobody EXCEPT !.what = "batch", !.id = id, !.of = {r},
                               !.era = relations[r].era]
<1>1. awaiting \in [Task -> Awaiting] /\ relations \in [Relation -> Related]
  BY LazyTypes, Zenon DEF LazyInv
<1>2. a \in Awaiting /\ a.of = {r} /\ a.era = relations[r].era /\ a.era \in Nat
  BY <1>1 DEF Nobody, Awaiting, Related
<1>3. /\ awaiting' \in [Task -> Awaiting] /\ awaiting'[t] = a
      /\ \A u \in Task \ {t} : awaiting'[u] = awaiting[u]
  BY <1>1, <1>2 DEF AwaitsBatch
<1>4. AllServed'
  <2> SUFFICES ASSUME NEW u \in Task, awaiting'[u].what = "batch", NEW s \in awaiting'[u].of
               PROVE  awaiting'[u].era <= relations'[s].era /\ Served(s, awaiting[u].era)'
    BY DEF AllServed
  <2>1. CASE u = t
    <3>1. s = r
      BY <1>2, <1>3, <2>1
    <3>2. awaiting'[u].era = relations[r].era /\ relations[r].era \in Nat
      BY <1>2, <1>3, <2>1, Zenon
    <3>3. relations'[s].era = relations[r].era
      BY <3>1
    <3>4. awaiting'[u].era <= relations'[s].era
      BY ONLY <3>2, <3>3
    <3> QED
      BY <3>1, <3>4, Zenon DEF Served
  <2>2. CASE u # t
    <3>1. awaiting'[u] = awaiting[u]
      BY <1>3, <2>2
    <3>2. awaiting[u].era <= relations[s].era /\ Served(s, awaiting[u].era)
      BY <3>1, Zenon DEF LazyInv, AllServed
    <3> QED
      BY <3>1, <3>2, Zenon
  <2> QED
    BY <2>1, <2>2
<1> QED
  BY <1>3, <1>4

LEMMA RelationLoads ==
    ASSUME LazyInv, NEW t \in Task, NEW r \in Relation, RelationLoad(t, r)
    PROVE  LazyInv'
<1>1. UNCHANGED <<loader, loads, invalidated>> /\ prefetched' = prefetched
  BY DEF RelationLoad
<1>2. /\ awaiting \in [Task -> Awaiting] /\ relations \in [Relation -> Related]
      /\ queued \in SUBSET Relation /\ batchTask \in Nat
      /\ batchLoads \in Seq(BatchLoad)
      /\ \A p \in prefetched : p.data \in {"empty", "records"}
  BY LazyTypes, Zenon DEF LazyInv
<1>3. OneLoad'
  BY <1>1, LoaderUntouched, Zenon
<1>5. CASE Enqueue(t, r) /\ UNCHANGED relations
  <2> DEFINE n == Len(batchLoads) + 1
  <2>1. queued' = queued \cup {r}
    BY <1>5 DEF Enqueue
  <2>2. CASE AwaitsBatch(t, r, batchTask) /\ UNCHANGED <<batchTask, batchLoads>>
    <3>1. ASSUME NEW s, NEW era, Served(s, era)
          PROVE  Served(s, era)'
      BY <1>5, <2>1, <2>2, <3>1, Zenon DEF Served, InFlight
    <3>2. awaiting' \in [Task -> Awaiting] /\ AllServed'
      BY <1>2, <1>5, <2>1, <2>2, <3>1, BatchAwaited
    <3>3. OneBatch' /\ RecordsRelated'
      BY <1>1, <1>5, <2>2 DEF LazyInv, OneBatch, RecordsRelated
    <3>4. LazyTypeOK'
      <4>1. queued' \in SUBSET Relation /\ batchTask' \in Nat /\ batchLoads' \in Seq(BatchLoad)
            /\ relations' \in [Relation -> Related]
        BY <1>2, <1>5, <2>1, <2>2
      <4> QED
        BY <1>1, <1>2, <3>2, <4>1, LoaderTyped, Zenon DEF LazyInv
    <3> QED
      BY <1>3, <3>2, <3>3, <3>4, Zenon DEF LazyInv
  <2>3. CASE /\ ~BatchInFlight /\ batchLoads' = Append(batchLoads, Sleeping)
             /\ batchTask' = n /\ AwaitsBatch(t, r, n)
    <3>1. Sleeping \in BatchLoad /\ Sleeping.of = {} /\ n \in Nat
      BY <1>2 DEF Sleeping, BatchLoad
    <3>2. /\ batchLoads' \in Seq(BatchLoad) /\ DOMAIN batchLoads' = DOMAIN batchLoads \cup {n}
          /\ batchLoads'[n] = Sleeping
          /\ \A b \in DOMAIN batchLoads : batchLoads'[b] = batchLoads[b] /\ b \in Nat \ {0}
      BY <1>2, <2>3, <3>1
    <3>3. \A b \in DOMAIN batchLoads : batchLoads[b].pc = "done"
      BY <2>3, <3>2 DEF LazyInv, OneBatch, BatchInFlight, InFlight
    <3>4. OneBatch'
      BY <2>3, <3>1, <3>2, <3>3 DEF LazyInv, OneBatch
    <3>5. ASSUME NEW s, NEW era, Served(s, era)
          PROVE  Served(s, era)'
      BY <1>5, <2>1, <3>2, <3>5, Zenon DEF Served, InFlight
    <3>6. awaiting' \in [Task -> Awaiting] /\ AllServed'
      <4>1. r \in queued' /\ AwaitsBatch(t, r, n) /\ UNCHANGED relations
        BY <1>5, <2>1, <2>3
      <4> QED
        BY <3>1, <3>5, <4>1, BatchAwaited
    <3>7. RecordsRelated'
      BY <1>1, <1>5 DEF LazyInv, RecordsRelated
    <3>8. LazyTypeOK'
      <4>1. queued' \in SUBSET Relation /\ batchTask' \in Nat /\ relations' \in [Relation -> Related]
        BY <1>2, <1>5, <2>1, <2>3, <3>1
      <4> QED
        BY <1>1, <1>2, <3>2, <3>6, <4>1, LoaderTyped, Zenon DEF LazyInv
    <3> QED
      BY <1>3, <3>4, <3>6, <3>7, <3>8, Zenon DEF LazyInv
  <2> QED
    BY <1>5, <2>2, <2>3, Zenon DEF Enqueue
<1>6. CASE /\ awaiting' = [awaiting EXCEPT ![t] = Nobody]
           /\ UNCHANGED <<queued, batchTask, batchLoads>>
           /\ relations[r].loaded \/ Prefetched(r) # {}
           /\ relations' = IF relations[r].loaded THEN relations
                           ELSE [relations EXCEPT ![r].loaded = TRUE,
                                   ![r].data = (CHOOSE p \in Prefetched(r) : TRUE).data]
  <2>1. /\ relations' \in [Relation -> Related]
        /\ \A s \in Relation : /\ relations'[s].era = relations[s].era
                               /\ relations[s].loaded => relations'[s].loaded
                               /\ relations'[s].data = "records" => RelatedIds[s] # {}
    <3>1. \A s \in Relation : relations[s].data = "records" => RelatedIds[s] # {}
      BY DEF LazyInv, RecordsRelated
    <3>2. CASE relations[r].loaded
      BY <1>2, <1>6, <3>1, <3>2
    <3>3. CASE ~relations[r].loaded
      <4> DEFINE p == CHOOSE p \in Prefetched(r) : TRUE
      <4>1. p \in prefetched /\ p.ids = RelatedIds[r]
        BY <1>6, <3>3 DEF Prefetched
      <4>2. p.data \in {"empty", "records"} /\ (p.data = "records" => RelatedIds[r] # {})
        BY <1>2, <4>1 DEF LazyInv, RecordsRelated
      <4>3. relations' = [relations EXCEPT ![r].loaded = TRUE, ![r].data = p.data]
        BY <1>6, <3>3
      <4> HIDE DEF p
      <4> DEFINE new == [relations[r] EXCEPT !.loaded = TRUE, !.data = p.data]
      <4>4. relations[r] \in Related
        BY <1>2
      <4>5. new \in Related /\ new.era = relations[r].era /\ new.data = p.data /\ new.loaded = TRUE
        BY <4>2, <4>4 DEF Related
      <4>6. relations' = [relations EXCEPT ![r] = new]
        BY <4>3
      <4> HIDE DEF new
      <4>7. /\ relations' \in [Relation -> Related] /\ relations'[r] = new
            /\ \A s \in Relation \ {r} : relations'[s] = relations[s]
        BY <1>2, <4>5, <4>6
      <4> QED
        BY <3>1, <4>2, <4>5, <4>7, Zenon
    <3> QED
      BY <3>2, <3>3
  <2>2. /\ awaiting' \in [Task -> Awaiting]
        /\ \A u \in Task : awaiting'[u].what = "batch" => awaiting'[u] = awaiting[u]
    BY <1>2, <1>6, Nobodies
  <2>3. ASSUME NEW s \in Relation, NEW era, Served(s, era)
        PROVE  Served(s, era)'
    BY <1>6, <2>1, <2>3, Zenon DEF Served, InFlight
  <2>4. AllServed'
    <3> SUFFICES ASSUME NEW u \in Task, awaiting'[u].what = "batch", NEW s \in awaiting'[u].of
                 PROVE  awaiting'[u].era <= relations'[s].era /\ Served(s, awaiting[u].era)'
      BY DEF AllServed
    <3>1. awaiting'[u] = awaiting[u] /\ s \in Relation
      BY <1>2, <2>2 DEF Awaiting
    <3>2. awaiting[u].era <= relations[s].era /\ Served(s, awaiting[u].era)
      BY <3>1, Zenon DEF LazyInv, AllServed
    <3> QED
      BY <2>1, <2>3, <3>1, <3>2, Zenon
  <2>5. OneBatch'
    BY <1>6 DEF LazyInv, OneBatch
  <2>6. RecordsRelated'
    BY <1>1, <2>1, Zenon DEF LazyInv, RecordsRelated
  <2>7. LazyTypeOK'
    BY <1>1, <1>2, <1>6, <2>1, <2>2, LoaderTyped, Zenon DEF LazyInv
  <2> QED
    BY <1>3, <2>4, <2>5, <2>6, <2>7, Zenon DEF LazyInv
<1> QED
  BY <1>5, <1>6, Zenon DEF RelationLoad


\* What a step keeps that changes no call and no loader.
LEMMA CallsKept ==
    ASSUME LazyInv, UNCHANGED <<loader, loads, awaiting, invalidated>>,
           relations' \in [Relation -> Related],
           \A r \in Relation : relations[r].era <= relations'[r].era,
           \A r \in Relation, era \in Nat : Served(r, era) => Served(r, era)',
           queued' \in SUBSET Relation, batchTask' \in Nat, batchLoads' \in Seq(BatchLoad),
           \A p \in prefetched' : p.data \in {"empty", "records"},
           OneBatch', RecordsRelated'
    PROVE  LazyInv'
<1>1. /\ awaiting \in [Task -> Awaiting] /\ relations \in [Relation -> Related]
      /\ awaiting' = awaiting
  BY LazyTypes, Zenon DEF LazyInv
<1>2. AllServed'
  <2> SUFFICES ASSUME NEW u \in Task, awaiting'[u].what = "batch", NEW s \in awaiting'[u].of
               PROVE  awaiting'[u].era <= relations'[s].era /\ Served(s, awaiting[u].era)'
    BY DEF AllServed
  <2>1. s \in Relation /\ awaiting[u].era \in Nat
    BY <1>1 DEF Awaiting
  <2>2. awaiting[u].era <= relations[s].era /\ Served(s, awaiting[u].era)
    BY <1>1, Zenon DEF LazyInv, AllServed
  <2>3. relations[s].era <= relations'[s].era /\ relations[s].era \in Nat /\ relations'[s].era \in Nat
    BY <1>1, <2>1 DEF Related
  <2>4. Served(s, awaiting[u].era)'
    BY <2>1, <2>2, <1>1, Zenon
  <2>5. awaiting'[u].era <= relations'[s].era
    <3> DEFINE x == awaiting[u].era
               y == relations[s].era
               z == relations'[s].era
    <3>1. x \in Nat /\ y \in Nat /\ z \in Nat /\ x <= y /\ y <= z
      BY <2>1, <2>2, <2>3
    <3> HIDE DEF x, y, z
    <3>2. x <= z
      BY ONLY <3>1
    <3> QED
      BY <1>1, <3>2, Zenon DEF x, z
  <2> QED
    BY <2>4, <2>5
<1>3. OneLoad'
  BY LoaderUntouched, Zenon
<1>4. LazyTypeOK'
  BY <1>1, LoaderTyped, Zenon DEF LazyInv
<1> QED
  BY <1>2, <1>3, <1>4, Zenon DEF LazyInv

\* A relation that is loaded, with what was fetched for it.
LEMMA LoadedRelation ==
    ASSUME NEW r \in Relation, NEW data \in {"empty", "records"}, relations \in [Relation -> Related]
    PROVE  LET new == [relations[r] EXCEPT !.loaded = TRUE, !.data = data]
           IN  /\ new \in Related /\ new.loaded = TRUE /\ new.data = data
               /\ new.era = relations[r].era
<1>1. relations[r] \in Related
  OBVIOUS
<1> QED
  BY <1>1 DEF Related

LEMMA FetchedRelated ==
    ASSUME NEW r, NEW outcome
    PROVE  /\ Fetched(r, outcome) \in {"empty", "records"}
           /\ Fetched(r, outcome) = "records" => RelatedIds[r] # {}
BY DEF Fetched

LEMMA BatchBecomes ==
    ASSUME batchLoads \in Seq(BatchLoad), NEW b \in DOMAIN batchLoads, NEW new \in BatchLoad,
           batchLoads' = [batchLoads EXCEPT ![b] = new]
    PROVE  /\ batchLoads' \in Seq(BatchLoad) /\ DOMAIN batchLoads' = DOMAIN batchLoads
           /\ batchLoads'[b] = new
           /\ \A c \in DOMAIN batchLoads : c # b => batchLoads'[c] = batchLoads[c]
OBVIOUS

LEMMA BatchGoesOn ==
    ASSUME LazyInv, NEW b \in DOMAIN batchLoads, BatchTakesQueue(b)
    PROVE  LazyInv'
<1>1. /\ awaiting \in [Task -> Awaiting] /\ relations \in [Relation -> Related]
      /\ queued \in SUBSET Relation /\ batchTask \in Nat
      /\ batchLoads \in Seq(BatchLoad)
      /\ \A p \in prefetched : p.data \in {"empty", "records"}
  BY LazyTypes, Zenon DEF LazyInv
<1>2. /\ UNCHANGED <<loader, loads, awaiting, invalidated>> /\ batchTask' = batchTask
      /\ prefetched' = prefetched /\ queued' = {}
      /\ batchLoads[b].pc = "sleeping" /\ batchLoads[b].of = {}
  BY DEF BatchTakesQueue, LazyInv, OneBatch
<1>3. batchLoads[b] \in BatchLoad
  BY <1>1
<1>4. CASE /\ relations' = [r \in Relation |->
                 IF r \in queued
                 THEN [relations[r] EXCEPT !.loaded = TRUE, !.data = "empty"]
                 ELSE relations[r]]
           /\ batchLoads' = [batchLoads EXCEPT ![b].pc = "done", ![b].of = queued,
                                               ![b].outcome = "data"]
  <2>1. ASSUME NEW r \in Relation
        PROVE  /\ relations'[r] \in Related /\ relations'[r].era = relations[r].era
               /\ r \in queued \/ relations[r].loaded => relations'[r].loaded
               /\ relations'[r].data = "records" => RelatedIds[r] # {}
    <3>1. CASE r \in queued
      BY <1>1, <1>4, <3>1, LoadedRelation
    <3>2. CASE r \notin queued
      <4>1. relations'[r] = relations[r]
        BY <1>4, <3>2
      <4> QED
        BY <1>1, <3>2, <4>1 DEF LazyInv, RecordsRelated
    <3> QED
      BY <3>1, <3>2, SMTT(60)
  <2>2. relations' \in [Relation -> Related]
    BY <1>4, <2>1
  <2>3. /\ batchLoads' \in Seq(BatchLoad) /\ DOMAIN batchLoads' = DOMAIN batchLoads
        /\ batchLoads'[b].pc = "done"
        /\ \A c \in DOMAIN batchLoads : c # b => batchLoads'[c] = batchLoads[c]
    <3> DEFINE new == [batchLoads[b] EXCEPT !.pc = "done", !.of = queued, !.outcome = "data"]
    <3>1. new \in BatchLoad /\ new.pc = "done"
      BY <1>1, <1>3 DEF BatchLoad
    <3>2. batchLoads' = [batchLoads EXCEPT ![b] = new]
      BY <1>4
    <3> HIDE DEF new
    <3> QED
      BY <1>1, <3>1, <3>2, BatchBecomes
  <2>4. OneBatch'
    BY <1>2, <2>3 DEF LazyInv, OneBatch
  <2>5. ASSUME NEW s \in Relation, NEW era \in Nat, Served(s, era)
        PROVE  Served(s, era)'
    <3>1. \A c \in DOMAIN batchLoads : s \in batchLoads[c].of => batchLoads'[c] = batchLoads[c]
      BY <1>2, <2>3
    <3> QED
      BY <2>1, <2>3, <2>5, <3>1, Zenon DEF Served, InFlight
  <2>6. RecordsRelated'
    BY <1>2, <2>1, Zenon DEF LazyInv, RecordsRelated
  <2>7. \A r \in Relation : relations[r].era <= relations'[r].era
    BY <1>1, <2>1 DEF Related
  <2>8. queued' \in SUBSET Relation /\ batchTask' \in Nat
        /\ \A p \in prefetched' : p.data \in {"empty", "records"}
    BY <1>1, <1>2
  <2> QED
    BY <1>2, <2>2, <2>3, <2>4, <2>5, <2>6, <2>7, <2>8, CallsKept
<1>5. CASE /\ batchLoads' = [batchLoads EXCEPT ![b].pc = "fetching", ![b].of = queued]
           /\ UNCHANGED relations
  <2>1. /\ batchLoads' \in Seq(BatchLoad) /\ DOMAIN batchLoads' = DOMAIN batchLoads
        /\ batchLoads'[b].pc = "fetching" /\ batchLoads'[b].of = queued
        /\ \A c \in DOMAIN batchLoads : c # b => batchLoads'[c] = batchLoads[c]
    <3> DEFINE new == [batchLoads[b] EXCEPT !.pc = "fetching", !.of = queued]
    <3>1. new \in BatchLoad /\ new.pc = "fetching" /\ new.of = queued
      BY <1>1, <1>3 DEF BatchLoad
    <3>2. batchLoads' = [batchLoads EXCEPT ![b] = new]
      BY <1>5
    <3> HIDE DEF new
    <3> QED
      BY <1>1, <3>1, <3>2, BatchBecomes
  <2>2. OneBatch'
    BY <1>2, <2>1 DEF LazyInv, OneBatch
  <2>3. ASSUME NEW s \in Relation, NEW era \in Nat, Served(s, era)
        PROVE  Served(s, era)'
    <3>1. \A c \in DOMAIN batchLoads : s \in batchLoads[c].of => batchLoads'[c] = batchLoads[c]
      BY <1>2, <2>1
    <3>2. s \in queued => s \in batchLoads'[b].of /\ batchLoads'[b].pc # "done"
      BY <2>1
    <3> QED
      BY <1>5, <2>1, <2>3, <3>1, <3>2, Zenon DEF Served, InFlight
  <2>4. RecordsRelated'
    BY <1>2, <1>5, Zenon DEF LazyInv, RecordsRelated
  <2>5. \A r \in Relation : relations[r].era <= relations'[r].era
    BY <1>1, <1>5 DEF Related
  <2>6. queued' \in SUBSET Relation /\ batchTask' \in Nat /\ relations' \in [Relation -> Related]
        /\ \A p \in prefetched' : p.data \in {"empty", "records"}
    BY <1>1, <1>2, <1>5
  <2> QED
    BY <1>2, <2>1, <2>2, <2>3, <2>4, <2>5, <2>6, CallsKept
<1> QED
  BY <1>4, <1>5, Zenon DEF BatchTakesQueue


LEMMA BatchReports ==
    ASSUME LazyInv, NEW b \in DOMAIN batchLoads,
           \/ \E outcome \in {"data", "raised"} : BatchEndsLoading(b, outcome)
           \/ BatchLoadCancelled(b)
    PROVE  LazyInv'
<1>1. /\ awaiting \in [Task -> Awaiting] /\ relations \in [Relation -> Related]
      /\ queued \in SUBSET Relation /\ batchTask \in Nat
      /\ batchLoads \in Seq(BatchLoad)
      /\ \A p \in prefetched : p.data \in {"empty", "records"}
  BY LazyTypes, Zenon DEF LazyInv
<1>2. /\ UNCHANGED <<loader, loads, awaiting, invalidated>> /\ queued' = queued
      /\ batchTask' \in {0, batchTask}
      /\ batchLoads[b].pc # "done"
  BY DEF BatchEndsLoading, BatchLoadCancelled
<1>3. batchLoads[b] \in BatchLoad /\ batchTask = b
  BY <1>1, <1>2 DEF LazyInv, OneBatch
<1>4. ASSUME NEW outcome \in {"data", "raised", "cancelled"},
             batchLoads' = [batchLoads EXCEPT ![b].pc = "done", ![b].outcome = outcome]
      PROVE  /\ batchLoads' \in Seq(BatchLoad) /\ DOMAIN batchLoads' = DOMAIN batchLoads
             /\ batchLoads'[b].pc = "done" /\ batchLoads'[b].outcome = outcome
             /\ batchLoads'[b].of = batchLoads[b].of
             /\ \A c \in DOMAIN batchLoads : c # b => batchLoads'[c] = batchLoads[c]
             /\ OneBatch'
  <2> DEFINE new == [batchLoads[b] EXCEPT !.pc = "done", !.outcome = outcome]
  <2>1. /\ new \in BatchLoad /\ new.pc = "done" /\ new.outcome = outcome
        /\ new.of = batchLoads[b].of
    BY <1>3 DEF BatchLoad
  <2>2. batchLoads' = [batchLoads EXCEPT ![b] = new]
    BY <1>4
  <2> HIDE DEF new
  <2>3. /\ batchLoads' \in Seq(BatchLoad) /\ DOMAIN batchLoads' = DOMAIN batchLoads
        /\ batchLoads'[b] = new
        /\ \A c \in DOMAIN batchLoads : c # b => batchLoads'[c] = batchLoads[c]
    BY <1>1, <2>1, <2>2, BatchBecomes
  <2>4. \A c \in DOMAIN batchLoads : batchLoads'[c].pc = "done"
    BY <1>3, <2>1, <2>3 DEF LazyInv, OneBatch
  <2>5. OneBatch'
    BY <2>3, <2>4 DEF OneBatch
  <2> QED
    BY <2>1, <2>3, <2>5
<1>5. ASSUME NEW outcome \in {"data", "raised"}, BatchEndsLoading(b, outcome)
      PROVE  LazyInv'
  <2>1. /\ relations' = [r \in Relation |->
               IF r \in batchLoads[b].of
               THEN [relations[r] EXCEPT !.loaded = TRUE, !.data = Fetched(r, outcome)]
               ELSE relations[r]]
        /\ batchLoads' = [batchLoads EXCEPT ![b].pc = "done", ![b].outcome = outcome]
        /\ batchTask' = 0
    BY <1>5 DEF BatchEndsLoading
  <2>2. ASSUME NEW r \in Relation
        PROVE  /\ relations'[r] \in Related /\ relations'[r].era = relations[r].era
               /\ r \in batchLoads[b].of \/ relations[r].loaded => relations'[r].loaded
               /\ relations'[r].data = "records" => RelatedIds[r] # {}
    <3>1. CASE r \in batchLoads[b].of
      <4> DEFINE data == Fetched(r, outcome)
      <4>1. data \in {"empty", "records"} /\ (data = "records" => RelatedIds[r] # {})
        BY FetchedRelated
      <4>2. relations'[r] = [relations[r] EXCEPT !.loaded = TRUE, !.data = data]
        BY <2>1, <3>1, ZenonT(60)
      <4> HIDE DEF data
      <4> DEFINE new == [relations[r] EXCEPT !.loaded = TRUE, !.data = data]
      <4>3. /\ new \in Related /\ new.loaded = TRUE /\ new.data = data
            /\ new.era = relations[r].era
        BY ONLY <1>1, <4>1, LoadedRelation
      <4> HIDE DEF new
      <4>4. relations'[r] = new
        BY <4>2 DEF new
      <4> QED
        BY <4>1, <4>3, <4>4, Zenon
    <3>2. CASE r \notin batchLoads[b].of
      <4>1. relations'[r] = relations[r]
        BY <2>1, <3>2
      <4> QED
        BY <1>1, <3>2, <4>1 DEF LazyInv, RecordsRelated
    <3> QED
      BY <3>1, <3>2
  <2>3. relations' \in [Relation -> Related]
    BY <2>1, <2>2
  <2>4. \A p \in prefetched' : /\ p.data \in {"empty", "records"}
                               /\ p.data = "records" => p.ids # {}
    <3> SUFFICES ASSUME NEW p \in prefetched'
                 PROVE  /\ p.data \in {"empty", "records"}
                        /\ p.data = "records" => p.ids # {}
      OBVIOUS
    <3>1. CASE p \in prefetched
      BY <1>1, <3>1 DEF LazyInv, RecordsRelated
    <3>2. CASE p \notin prefetched
      <4>1. p \in {[ids |-> RelatedIds[r], data |-> Fetched(r, "data")] : r \in batchLoads[b].of}
        BY <1>5, <3>2, Zenon DEF BatchEndsLoading
      <4>2. PICK r \in batchLoads[b].of :
               p = [ids |-> RelatedIds[r], data |-> Fetched(r, "data")]
        BY <4>1
      <4>3. p.ids = RelatedIds[r] /\ p.data = Fetched(r, "data")
        BY <4>2
      <4> QED
        BY <4>3, FetchedRelated
    <3> QED
      BY <3>1, <3>2
  <2>5. RecordsRelated'
    BY <2>2, <2>4, Zenon DEF RecordsRelated
  <2>6. ASSUME NEW s \in Relation, NEW era \in Nat, Served(s, era)
        PROVE  Served(s, era)'
    BY <1>2, <1>4, <2>1, <2>2, <2>6, Zenon DEF Served, InFlight
  <2>7. \A r \in Relation : relations[r].era <= relations'[r].era
    BY <1>1, <2>2 DEF Related
  <2>8. /\ batchLoads' \in Seq(BatchLoad) /\ OneBatch'
        /\ queued' \in SUBSET Relation /\ batchTask' \in Nat
    BY <1>1, <1>2, <1>4, <2>1
  <2> QED
    BY <1>2, <2>3, <2>4, <2>5, <2>6, <2>7, <2>8, CallsKept, SMTT(60)
<1>6. ASSUME BatchLoadCancelled(b)
      PROVE  LazyInv'
  <2>1. /\ relations' = relations /\ prefetched' = prefetched
        /\ batchLoads' = [batchLoads EXCEPT ![b].pc = "done", ![b].outcome = "cancelled"]
    BY <1>6 DEF BatchLoadCancelled
  <2>2. /\ batchLoads' \in Seq(BatchLoad) /\ OneBatch'
        /\ queued' \in SUBSET Relation /\ batchTask' \in Nat
        /\ relations' \in [Relation -> Related]
        /\ \A p \in prefetched' : p.data \in {"empty", "records"}
    BY <1>1, <1>2, <1>4, <2>1
  <2>3. RecordsRelated'
    BY <2>1, Zenon DEF LazyInv, RecordsRelated
  <2>4. ASSUME NEW s \in Relation, NEW era \in Nat, Served(s, era)
        PROVE  Served(s, era)'
    <3>1. /\ DOMAIN batchLoads' = DOMAIN batchLoads
          /\ batchLoads'[b].outcome = "cancelled" /\ batchLoads'[b].of = batchLoads[b].of
          /\ \A c \in DOMAIN batchLoads : c # b => batchLoads'[c] = batchLoads[c]
      BY <1>4, <2>1
    <3>2. queued' = queued
      BY <1>2
    <3> QED
      BY <2>1, <2>4, <3>1, <3>2, Zenon DEF Served, InFlight
  <2>5. \A r \in Relation : relations[r].era <= relations'[r].era
    BY <1>1, <2>1 DEF Related
  <2> QED
    BY <1>2, <2>2, <2>3, <2>4, <2>5, CallsKept
<1> QED
  BY <1>5, <1>6


LEMMA PrefetchReports ==
    ASSUME LazyInv, NEW t \in Task, NEW outcome \in {"data", "raised", "cancelled"},
           PrefetchAnswers(t, outcome)
    PROVE  LazyInv'
<1>1. /\ awaiting \in [Task -> Awaiting] /\ relations \in [Relation -> Related]
      /\ queued \in SUBSET Relation /\ batchTask \in Nat
      /\ batchLoads \in Seq(BatchLoad)
      /\ \A p \in prefetched : p.data \in {"empty", "records"}
  BY LazyTypes, Zenon DEF LazyInv
<1>2. /\ UNCHANGED <<loader, loads, invalidated>>
      /\ queued' = queued /\ batchTask' = batchTask /\ batchLoads' = batchLoads
      /\ prefetched' = prefetched
      /\ awaiting' = [awaiting EXCEPT ![t] = Nobody]
  BY DEF PrefetchAnswers
<1>3. ASSUME NEW r \in Relation
      PROVE  /\ relations'[r] \in Related /\ relations'[r].era = relations[r].era
             /\ relations[r].loaded => relations'[r].loaded
             /\ relations'[r].data = "records" => RelatedIds[r] # {}
  <2>1. CASE relations'[r] = relations[r]
    BY <1>1, <2>1 DEF LazyInv, RecordsRelated
  <2>2. CASE relations'[r] = [relations[r] EXCEPT !.loaded = TRUE, !.data = Fetched(r, outcome)]
    <3> DEFINE data == Fetched(r, outcome)
               new == [relations[r] EXCEPT !.loaded = TRUE, !.data = data]
    <3>1. data \in {"empty", "records"} /\ (data = "records" => RelatedIds[r] # {})
      BY FetchedRelated, SMTT(60)
    <3> HIDE DEF data
    <3>2. /\ new \in Related /\ new.loaded = TRUE /\ new.data = data
          /\ new.era = relations[r].era
      BY ONLY <1>1, <3>1, LoadedRelation
    <3> HIDE DEF new
    <3>3. relations'[r] = new
      BY <2>2 DEF new, data
    <3> QED
      BY <3>1, <3>2, <3>3, Zenon
  <2> QED
    BY <2>1, <2>2 DEF PrefetchAnswers
<1>4. relations' \in [Relation -> Related]
  BY <1>1, <1>3 DEF PrefetchAnswers
<1>5. /\ awaiting' \in [Task -> Awaiting]
      /\ \A u \in Task : awaiting'[u].what = "batch" => awaiting'[u] = awaiting[u]
  BY <1>1, <1>2, Nobodies
<1>6. ASSUME NEW s \in Relation, NEW era, Served(s, era)
      PROVE  Served(s, era)'
  BY <1>2, <1>3, <1>6, Zenon DEF Served, InFlight
<1>7. AllServed'
  <2> SUFFICES ASSUME NEW u \in Task, awaiting'[u].what = "batch", NEW s \in awaiting'[u].of
               PROVE  awaiting'[u].era <= relations'[s].era /\ Served(s, awaiting[u].era)'
    BY DEF AllServed
  <2>1. awaiting'[u] = awaiting[u] /\ s \in Relation
    BY <1>1, <1>5 DEF Awaiting
  <2>2. awaiting[u].era <= relations[s].era /\ Served(s, awaiting[u].era)
    BY <2>1, Zenon DEF LazyInv, AllServed
  <2> QED
    BY <1>3, <1>6, <2>1, <2>2, Zenon
<1>8. OneBatch'
  BY <1>2 DEF LazyInv, OneBatch
<1>9. RecordsRelated'
  BY <1>2, <1>3, Zenon DEF LazyInv, RecordsRelated
<1>10. LazyTypeOK'
  BY <1>1, <1>2, <1>4, <1>5, LoaderTyped, Zenon DEF LazyInv
<1>11. OneLoad'
  BY <1>2, LoaderUntouched, Zenon
<1> QED
  BY <1>7, <1>8, <1>9, <1>10, <1>11, Zenon DEF LazyInv

LEMMA RelationsForgotten ==
    ASSUME LazyInv, NEW rs \in SUBSET Relation, RelationsInvalidated(rs)
    PROVE  LazyInv'
<1>1. /\ awaiting \in [Task -> Awaiting] /\ relations \in [Relation -> Related]
      /\ queued \in SUBSET Relation /\ batchTask \in Nat
      /\ batchLoads \in Seq(BatchLoad)
      /\ \A p \in prefetched : p.data \in {"empty", "records"}
  BY LazyTypes, Zenon DEF LazyInv
<1>2. /\ UNCHANGED <<loader, loads, awaiting, invalidated>>
      /\ queued' = queued /\ batchTask' = batchTask /\ batchLoads' = batchLoads
      /\ prefetched' = prefetched
      /\ relations' = [r \in Relation |->
             IF r \in rs THEN [NewRelation EXCEPT !.era = relations[r].era + 1]
             ELSE relations[r]]
  BY DEF RelationsInvalidated
<1>3. ASSUME NEW r \in Relation
      PROVE  /\ relations'[r] \in Related
             /\ \/ relations'[r] = relations[r]
                \/ relations'[r].era = relations[r].era + 1
             /\ relations'[r].data = "records" => RelatedIds[r] # {}
  <2>1. relations[r] \in Related
    BY <1>1
  <2>2. CASE r \in rs
    <3>1. relations'[r] = [NewRelation EXCEPT !.era = relations[r].era + 1]
      BY <1>2, <2>2
    <3>2. relations[r].era + 1 \in Nat
      BY <2>1 DEF Related
    <3> QED
      BY <3>1, <3>2 DEF NewRelation, Related
  <2>3. CASE r \notin rs
    <3>1. relations'[r] = relations[r]
      BY <1>2, <2>3
    <3> QED
      BY <2>1, <3>1 DEF LazyInv, RecordsRelated
  <2> QED
    BY <2>2, <2>3
<1>4. relations' \in [Relation -> Related]
  BY <1>2, <1>3
<1>5. \A r \in Relation : relations[r].era <= relations'[r].era
  BY <1>1, <1>3 DEF Related
<1>6. OneBatch'
  BY <1>2 DEF LazyInv, OneBatch
<1>7. RecordsRelated'
  BY <1>2, <1>3, Zenon DEF LazyInv, RecordsRelated
<1>8. \A p \in prefetched' : p.data \in {"empty", "records"}
  BY <1>1, <1>2
<1>9. queued' \in SUBSET Relation /\ batchTask' \in Nat /\ batchLoads' \in Seq(BatchLoad)
  BY <1>1, <1>2
<1>10. LazyTypeOK' /\ OneLoad'
  <2>1. awaiting' \in [Task -> Awaiting]
    BY <1>1, <1>2
  <2> QED
    BY <1>2, <1>4, <1>8, <1>9, <2>1, LoaderTyped, LoaderUntouched, Zenon DEF LazyInv
<1>11. AllServed'
  <2> SUFFICES ASSUME NEW u \in Task, awaiting'[u].what = "batch", NEW s \in awaiting'[u].of
               PROVE  awaiting'[u].era <= relations'[s].era /\ Served(s, awaiting[u].era)'
    BY DEF AllServed
  <2>1. awaiting' = awaiting /\ s \in Relation /\ awaiting[u].era \in Nat
    BY <1>1, <1>2 DEF Awaiting
  <2>2. awaiting[u].era <= relations[s].era /\ Served(s, awaiting[u].era)
    BY <2>1, Zenon DEF LazyInv, AllServed
  <2> DEFINE x == awaiting[u].era
             y == relations[s].era
             z == relations'[s].era
  <2>3. x \in Nat /\ y \in Nat /\ z \in Nat /\ x <= y
    BY <1>1, <1>4, <2>1, <2>2 DEF Related
  <2>4. CASE relations'[s] = relations[s]
    <3>1. Served(s, awaiting[u].era)'
      BY <1>2, <2>2, <2>4, Zenon DEF Served, InFlight
    <3> QED
      BY <2>1, <2>2, <2>4, <3>1
  <2>5. CASE z = y + 1
    <3> HIDE DEF x, y, z
    <3>1. x <= z /\ z > x
      BY ONLY <2>3, <2>5
    <3>2. relations'[s].era > awaiting[u].era
      BY <3>1, Zenon DEF x, z
    <3>3. Served(s, awaiting[u].era)'
      BY <2>1, <3>2, Zenon DEF Served
    <3> QED
      BY <2>1, <3>1, <3>3, Zenon DEF x, z
  <2> QED
    BY <1>3, <2>1, <2>4, <2>5
<1> QED
  BY <1>6, <1>7, <1>10, <1>11, Zenon DEF LazyInv

LEMMA LazyStep == LazyInv /\ [LazyNext]_<<now, lazyVars>> => LazyInv'
<1> SUFFICES ASSUME LazyInv, [LazyNext]_<<now, lazyVars>>
             PROVE  LazyInv'
  OBVIOUS
<1>1. ASSUME NEW t \in Task,
             LazyLoad(t) \/ LazyResumes(t) \/ LazyCancelled(t)
      PROVE  LazyInv'
  BY <1>1, LoadBegins, AwaitingChanges, LazyCancels
<1>2. ASSUME LoaderNext
      PROVE  LazyInv'
  BY <1>1, <1>2, LoadReports, LoadInvalidated, Zenon DEF LoaderNext
<1>3. ASSUME RelationNext
      PROVE  LazyInv'
  <2>1. ASSUME NEW t \in Task,
               \/ \E r \in Relation : RelationLoad(t, r)
               \/ \E rs \in SUBSET Relation : Prefetch(t, rs)
               \/ \E outcome \in {"data", "raised", "cancelled"} : PrefetchAnswers(t, outcome)
        PROVE  LazyInv'
    BY <2>1, RelationLoads, AwaitingChanges, PrefetchReports, Zenon
  <2>2. ASSUME NEW b \in DOMAIN batchLoads,
               \/ BatchTakesQueue(b)
               \/ \E outcome \in {"data", "raised"} : BatchEndsLoading(b, outcome)
               \/ BatchLoadCancelled(b)
        PROVE  LazyInv'
    BY <2>2, BatchGoesOn, BatchReports, Zenon
  <2>3. ASSUME NEW rs \in SUBSET Relation \ {{}}, RelationsInvalidated(rs)
        PROVE  LazyInv'
    BY <2>3, RelationsForgotten
  <2> QED
    BY <1>1, <1>3, <2>1, <2>2, <2>3, Zenon DEF RelationNext
<1>4. CASE UNCHANGED <<now, lazyVars>>
  <2>1. /\ UNCHANGED <<loader, loads, invalidated>> /\ UNCHANGED relationVars
        /\ awaiting' = awaiting
    BY <1>4 DEF lazyVars, relationVars
  <2>2. OneLoad' /\ OneBatch' /\ AllServed' /\ RecordsRelated'
    BY <2>1, LoaderUntouched, RelationsUntouched, Zenon
  <2>3. LazyTypeOK'
    <3>1. /\ loader' \in [loaded : BOOLEAN, of : Nat, task : Nat] /\ loads' \in Seq(Load)
          /\ awaiting' \in [Task -> Awaiting]
      BY <2>1, LazyTypes, Zenon DEF LazyInv
    <3> QED
      BY <2>1, <3>1, RelationsTyped, Zenon DEF LazyInv
  <2> QED
    BY <2>2, <2>3, Zenon DEF LazyInv
<1> QED
  BY <1>2, <1>3, <1>4, Zenon DEF LazyNext

THEOREM LazySafe == LazySpec => []LazyCorrect
<1>1. now = 0 /\ LazyInit => LazyInv
  BY LazyInvInit
<1>2. LazyInv /\ [LazyNext]_<<now, lazyVars>> => LazyInv'
  BY LazyStep
<1>3. LazyInv => LazyCorrect
  BY LazyInvCorrect
<1> QED
  BY <1>1, <1>2, <1>3, PTL DEF LazySpec

(****************************************************************************)
(* Records.                                                                 *)
(****************************************************************************)

AnyValue == {"text", "false", "None", "ids", "two ids", "first id"}

\* Values of some of the fields.
Data == UNION {[some -> AnyValue] : some \in SUBSET Attribute}

PersistingCall ==
    [at : {"idle", "sent", "done"}, kind : {"none", "create", "update", "write", "delete"},
     id : 0 .. MaxRows, data : Data, before : SUBSET Attribute]

FitsField(v, f) == OdooValue(v) \in Held[f] \cup {"first id"}

CallsTyped ==
    \A t \in Task :
       /\ persisting[t].at = "idle" => persisting[t] = NotPersisting
       /\ persisting[t].at # "idle" => persisting[t].kind # "none"
       /\ persisting[t].kind = "update" =>
             \A f \in DOMAIN persisting[t].data : persisting[t].data[f] \in Held[f]

RecordsTyped ==
    /\ lastRow \in 0 .. MaxRows
    /\ rows \in [DOMAIN rows -> Row] /\ DOMAIN rows \subseteq 1 .. lastRow
    /\ record \in [id : 0 .. MaxRows, values : Data]
    /\ \A f \in DOMAIN record.values : FitsField(record.values[f], f)
    /\ persisting \in [Task -> PersistingCall]
    /\ CallsTyped
    /\ persisted \in 0 .. MaxPersisted
    /\ unsent \in SUBSET Attribute
    /\ made \subseteq 1 .. lastRow
    /\ alone \in BOOLEAN

\* The value v of the instance is what Odoo has.
Matches(v, kept) == OdooValue(v) = kept \/ (v = "first id" /\ kept = "two ids")

\* The instance is its row but for some fields.
StandsBut(open) ==
    record.id \in DOMAIN rows =>
       \A f \in DOMAIN record.values \ open : Matches(record.values[f], rows[record.id][f])

\* The fields whose value in the instance Odoo need not have, should the call of
\* t raise now: those that an update assigns, or that a write was to send.
OpenFields(t) ==
    CASE persisting[t].at = "done" /\ persisting[t].kind = "update" ->
            unsent \cup DOMAIN persisting[t].data
      [] persisting[t].at = "sent" /\ persisting[t].kind = "write" ->
            unsent \cup persisting[t].before
      [] OTHER -> unsent

\* The id of the instance once the call of t has returned.
IdToBe(t) ==
    IF persisting[t].kind = "create" /\ persisting[t].at = "done"
    THEN persisting[t].id ELSE record.id

\* What holds while only calls of the instance have changed its row and only
\* task t may be in one.
StandsAt(t) ==
    /\ \A u \in Task \ {t} : persisting[u] = NotPersisting
    /\ persisting[t].kind \in {"update", "write", "delete"} => persisting[t].id = record.id
    /\ persisting[t].kind = "create" => record.id = 0
    /\ made \subseteq {IdToBe(t)}
    /\ StandsBut(OpenFields(t))
    /\ persisting[t].kind = "update" /\ persisting[t].at = "done" /\ record.id \in DOMAIN rows =>
          \A f \in DOMAIN persisting[t].data : rows[record.id][f] = persisting[t].data[f]
    /\ persisting[t].kind \in {"write", "create"} /\ persisting[t].at = "sent" =>
          \A f \in DOMAIN record.values \ unsent :
             /\ f \in DOMAIN persisting[t].data
             /\ Matches(record.values[f], persisting[t].data[f])
    /\ persisting[t].kind = "create" /\ persisting[t].at = "done"
          /\ persisting[t].id \in DOMAIN rows =>
          \A f \in DOMAIN record.values \ unsent :
             Matches(record.values[f], rows[persisting[t].id][f])

RecordsInv == RecordsTyped /\ (alone => \E t \in Task : StandsAt(t))


LEMMA Attributes ==
    /\ Attribute = {"email", "child_ids"}
    /\ Held["email"] = {"text", "false"} /\ Held["child_ids"] = {"ids", "two ids"}
BY DEF Attribute, Held

LEMMA HeldValues ==
    ASSUME NEW f \in Attribute, NEW v \in Held[f]
    PROVE  v \in AnyValue /\ OdooValue(v) = v /\ FitsField(v, f) /\ Matches(v, v)
BY Attributes DEF AnyValue, OdooValue, FitsField, Matches

LEMMA Conversion ==
    ASSUME NEW v \in AnyValue
    PROVE  /\ Converted(v) \in AnyValue /\ OdooValue(v) \in AnyValue
           /\ \A f : FitsField(v, f) => FitsField(Converted(v), f) /\ FitsField(OdooValue(v), f)
           /\ \A kept : Matches(v, kept) => Matches(Converted(v), kept)
           /\ Matches(v, OdooValue(v))
BY DEF AnyValue, Converted, OdooValue, FitsField, Matches

LEMMA DataIs ==
    ASSUME NEW data \in Data
    PROVE  DOMAIN data \in SUBSET Attribute /\ \A f \in DOMAIN data : data[f] \in AnyValue
BY DEF Data

LEMMA DataMade ==
    ASSUME NEW some \in SUBSET Attribute, NEW data \in [some -> AnyValue]
    PROVE  data \in Data
BY DEF Data

LEMMA RowIs ==
    ASSUME NEW row \in Row
    PROVE  /\ DOMAIN row = Attribute /\ row \in Data
           /\ \A f \in Attribute : row[f] \in Held[f]
<1>1. /\ row \in [Attribute -> UNION {Held[f] : f \in Attribute}]
      /\ \A f \in Attribute : row[f] \in Held[f]
  BY DEF Row
<1>2. row \in [Attribute -> AnyValue]
  BY <1>1, HeldValues
<1> QED
  BY <1>1, <1>2, DataMade

LEMMA RowMade ==
    ASSUME NEW row, row = [f \in Attribute |-> row[f]], \A f \in Attribute : row[f] \in Held[f]
    PROVE  row \in Row
BY DEF Row

LEMMA ValuesAre ==
    ASSUME NEW values \in Values
    PROVE  /\ values \in Data /\ DOMAIN values \in SUBSET Attribute
           /\ \A f \in DOMAIN values : values[f] \in Held[f]
<1>1. PICK row \in Row, some \in SUBSET Attribute : values = Restrict(row, some)
  BY DEF Values
<1>2. values = [f \in some |-> row[f]]
  BY <1>1 DEF Restrict
<1>3. \A f \in some : row[f] \in Held[f] /\ row[f] \in AnyValue
  BY RowIs, HeldValues
<1>4. values \in [some -> AnyValue]
  BY <1>2, <1>3
<1> QED
  BY <1>2, <1>3, <1>4, DataMade

LEMMA NotPersistingIs ==
    /\ NotPersisting \in PersistingCall /\ NotPersisting.at = "idle"
    /\ NotPersisting.kind = "none" /\ NotPersisting.id = 0
<1>1. NotPersisting.data \in Data
  <2>1. <<>> \in Seq(AnyValue) /\ Len(<<>>) = 0
    OBVIOUS
  <2>2. <<>> \in [1 .. 0 -> AnyValue]
    BY <2>1
  <2>3. 1 .. 0 = {}
    OBVIOUS
  <2>4. <<>> \in [{} -> AnyValue]
    BY <2>2, <2>3
  <2>5. <<>> \in Data
    BY <2>4, DataMade
  <2> QED
    BY <2>5 DEF NotPersisting
<1>2. 0 \in 0 .. MaxRows
  BY RecordsAssumption
<1> QED
  BY <1>1, <1>2 DEF NotPersisting, PersistingCall

\* The fields that an instance has read, or is given.
LEMMA ConstructedIs ==
    ASSUME NEW id \in 0 .. MaxRows, NEW values \in Data,
           \A f \in DOMAIN values : FitsField(values[f], f)
    PROVE  /\ Constructed(id, values) \in [id : 0 .. MaxRows, values : Data]
           /\ Constructed(id, values).id = id
           /\ DOMAIN Constructed(id, values).values = DOMAIN values
           /\ \A f \in DOMAIN values : /\ Constructed(id, values).values[f] = Converted(values[f])
                                       /\ FitsField(Constructed(id, values).values[f], f)
<1> DEFINE converted == [f \in DOMAIN values |-> Converted(values[f])]
<1>1. DOMAIN values \in SUBSET Attribute /\ \A f \in DOMAIN values : values[f] \in AnyValue
  BY DataIs
<1>2. \A f \in DOMAIN values : Converted(values[f]) \in AnyValue /\ FitsField(Converted(values[f]), f)
  BY <1>1, Conversion
<1>3. converted \in Data
  <2>1. converted \in [DOMAIN values -> AnyValue]
    BY <1>2
  <2> QED
    BY <1>1, <2>1, DataMade
<1>4. Constructed(id, values) = [id |-> id, values |-> converted]
  BY DEF Constructed, ConvertedAll
<1> QED
  BY <1>2, <1>3, <1>4

LEMMA WithFieldIs ==
    ASSUME NEW values \in Data, NEW f \in Attribute, NEW v \in AnyValue, FitsField(v, f),
           \A g \in DOMAIN values : FitsField(values[g], g)
    PROVE  /\ WithField(values, f, v) \in Data
           /\ DOMAIN WithField(values, f, v) = DOMAIN values \cup {f}
           /\ WithField(values, f, v)[f] = v
           /\ \A g \in DOMAIN values \ {f} : WithField(values, f, v)[g] = Converted(values[g])
           /\ \A g \in DOMAIN WithField(values, f, v) : FitsField(WithField(values, f, v)[g], g)
<1> DEFINE new == WithField(values, f, v)
<1>1. DOMAIN values \in SUBSET Attribute /\ \A g \in DOMAIN values : values[g] \in AnyValue
  BY DataIs
<1>2. \A g \in DOMAIN values : Converted(values[g]) \in AnyValue /\ FitsField(Converted(values[g]), g)
  BY <1>1, Conversion
<1>3. new = [g \in DOMAIN values \cup {f} |-> IF g = f THEN v ELSE Converted(values[g])]
  BY DEF WithField
<1>4. new \in [DOMAIN values \cup {f} -> AnyValue]
  BY <1>2, <1>3
<1>5. new \in Data
  BY <1>1, <1>4, DataMade
<1>6. \A g \in DOMAIN new : FitsField(new[g], g)
  BY <1>2, <1>3
<1> QED
  BY <1>3, <1>5, <1>6

LEMMA RecordsInvCorrect == RecordsInv => RecordsCorrect
<1> SUFFICES ASSUME RecordsInv
             PROVE  RecordsTypeOK /\ RecordStands /\ RowMadeOnce
  BY DEF RecordsCorrect
<1>1. RecordsTyped
  BY DEF RecordsInv
<1>2. RecordsTypeOK
  <2>1. \A id \in DOMAIN rows : rows[id] \in Row
    BY <1>1 DEF RecordsTyped
  <2>2. record.id \in 0 .. MaxRows
    BY <1>1 DEF RecordsTyped
  <2>3. \A t \in Task : persisting[t].at \in {"idle", "sent", "done"}
    BY <1>1 DEF RecordsTyped, PersistingCall
  <2> QED
    BY <1>1, <2>1, <2>2, <2>3, Zenon DEF RecordsTyped, RecordsTypeOK, FitsField
<1>3. ASSUME alone, AtRestAll
      PROVE  StandsBut(unsent) /\ made \subseteq {record.id}
  <2>1. PICK t \in Task : StandsAt(t)
    BY <1>3 DEF RecordsInv
  <2>2. persisting[t] = NotPersisting
    BY <1>3 DEF AtRestAll
  <2>3. IdToBe(t) = record.id /\ OpenFields(t) = unsent
    BY <2>2, NotPersistingIs DEF IdToBe, OpenFields
  <2> QED
    BY <2>1, <2>3 DEF StandsAt
<1>4. RecordStands
  BY <1>3, Zenon DEF RecordStands, StandsBut, Matches
<1>5. RowMadeOnce
  BY <1>3, Zenon DEF RowMadeOnce
<1> QED
  BY <1>2, <1>4, <1>5


LEMMA ReadIs ==
    ASSUME NEW id \in 0 .. MaxRows, NEW row \in Row
    PROVE  /\ Constructed(id, row) \in [id : 0 .. MaxRows, values : Data]
           /\ Constructed(id, row).id = id
           /\ \A f \in DOMAIN Constructed(id, row).values :
                 /\ FitsField(Constructed(id, row).values[f], f)
                 /\ Matches(Constructed(id, row).values[f], row[f])
<1>1. /\ row \in Data /\ DOMAIN row = Attribute
      /\ \A f \in Attribute : /\ row[f] \in AnyValue /\ FitsField(row[f], f)
                               /\ Matches(row[f], row[f])
  BY RowIs, HeldValues
<1>2. \A f \in Attribute : Matches(Converted(row[f]), row[f])
  BY <1>1, Conversion
<1>3. /\ Constructed(id, row) \in [id : 0 .. MaxRows, values : Data]
      /\ Constructed(id, row).id = id
      /\ DOMAIN Constructed(id, row).values = DOMAIN row
      /\ \A f \in DOMAIN row : /\ Constructed(id, row).values[f] = Converted(row[f])
                                /\ FitsField(Constructed(id, row).values[f], f)
  BY <1>1, ConstructedIs
<1> QED
  BY <1>1, <1>2, <1>3

LEMMA RecordsInvInit == now = 0 /\ RecordsInit => RecordsInv
<1> SUFFICES ASSUME RecordsInit
             PROVE  RecordsInv
  OBVIOUS
<1>1. /\ persisting = [t \in Task |-> NotPersisting] /\ persisted = 0 /\ unsent = {}
      /\ made = {} /\ alone = TRUE
  BY DEF RecordsInit
<1>2. /\ persisting \in [Task -> PersistingCall] /\ CallsTyped
      /\ \A t \in Task : persisting[t] = NotPersisting
  BY <1>1, NotPersistingIs DEF CallsTyped
<1>3. 0 \in 0 .. MaxRows /\ 0 \in 0 .. MaxPersisted
  BY RecordsAssumption
<1>4. ASSUME NEW id \in 0 .. MaxRows, NEW values \in Data,
             \A f \in DOMAIN values : FitsField(values[f], f),
             record = Constructed(id, values)
      PROVE  /\ record \in [id : 0 .. MaxRows, values : Data] /\ record.id = id
             /\ \A f \in DOMAIN record.values : FitsField(record.values[f], f)
             /\ DOMAIN record.values = DOMAIN values
             /\ \A f \in DOMAIN values : record.values[f] = Converted(values[f])
  BY <1>4, ConstructedIs
<1>5. ASSUME rows = <<>>, lastRow = 0,
             NEW values \in Values, record = Constructed(0, values)
      PROVE  /\ lastRow \in 0 .. MaxRows
             /\ rows \in [DOMAIN rows -> Row] /\ DOMAIN rows \subseteq 1 .. lastRow
             /\ record \in [id : 0 .. MaxRows, values : Data]
             /\ \A f \in DOMAIN record.values : FitsField(record.values[f], f)
             /\ StandsBut({})
  <2>1. values \in Data /\ \A f \in DOMAIN values : FitsField(values[f], f)
    BY <1>5, ValuesAre, HeldValues
  <2>2. /\ record \in [id : 0 .. MaxRows, values : Data]
        /\ \A f \in DOMAIN record.values : FitsField(record.values[f], f)
    BY <1>3, <1>4, <1>5, <2>1
  <2>3. DOMAIN rows = {}
    BY <1>5
  <2>4. rows \in [DOMAIN rows -> Row]
    BY <1>5, <2>3
  <2> QED
    BY <1>3, <1>5, <2>2, <2>3, <2>4 DEF StandsBut
<1>6. ASSUME NEW row \in Row, rows = <<row>>, lastRow = 1, record = Constructed(1, row)
      PROVE  /\ lastRow \in 0 .. MaxRows
             /\ rows \in [DOMAIN rows -> Row] /\ DOMAIN rows \subseteq 1 .. lastRow
             /\ record \in [id : 0 .. MaxRows, values : Data]
             /\ \A f \in DOMAIN record.values : FitsField(record.values[f], f)
             /\ StandsBut({})
  <2>1. 1 \in 0 .. MaxRows
    BY RecordsAssumption
  <2>2. /\ record \in [id : 0 .. MaxRows, values : Data] /\ record.id = 1
        /\ \A f \in DOMAIN record.values : /\ FitsField(record.values[f], f)
                                           /\ Matches(record.values[f], row[f])
    BY <1>6, <2>1, ReadIs
  <2>3. DOMAIN rows = {1} /\ rows[1] = row
    BY <1>6
  <2>4. rows \in [DOMAIN rows -> Row]
    BY <1>6
  <2> QED
    BY <1>6, <2>1, <2>2, <2>3, <2>4 DEF StandsBut
<1>7. /\ lastRow \in 0 .. MaxRows
      /\ rows \in [DOMAIN rows -> Row] /\ DOMAIN rows \subseteq 1 .. lastRow
      /\ record \in [id : 0 .. MaxRows, values : Data]
      /\ \A f \in DOMAIN record.values : FitsField(record.values[f], f)
      /\ StandsBut({})
  BY <1>5, <1>6, Zenon DEF RecordsInit
<1>8. ASSUME NEW t \in Task
      PROVE  StandsAt(t)
  <2>1. IdToBe(t) = record.id /\ OpenFields(t) = {}
    BY <1>1, <1>2, NotPersistingIs DEF IdToBe, OpenFields
  <2> QED
    BY <1>1, <1>2, <1>7, <2>1, NotPersistingIs DEF StandsAt
<1>9. RecordsTyped
  BY <1>1, <1>2, <1>3, <1>7 DEF RecordsTyped
<1> QED
  BY <1>8, <1>9, TaskAssumption DEF RecordsInv


\* A task in a call is the only one as long as the row is the instance's alone.
LEMMA AloneInCall ==
    ASSUME RecordsInv, alone, NEW t \in Task, persisting[t] # NotPersisting
    PROVE  StandsAt(t)
<1>1. PICK u \in Task : StandsAt(u)
  BY DEF RecordsInv
<1>2. u = t
  BY <1>1 DEF StandsAt
<1> QED
  BY <1>1, <1>2

LEMMA AloneAtRest ==
    ASSUME RecordsInv, alone, AtRestAll
    PROVE  StandsBut(unsent) /\ made \subseteq {record.id}
<1>1. PICK t \in Task : StandsAt(t)
  BY DEF RecordsInv
<1>2. persisting[t] = NotPersisting
  BY DEF AtRestAll
<1>3. IdToBe(t) = record.id /\ OpenFields(t) = unsent
  BY <1>2, NotPersistingIs DEF IdToBe, OpenFields
<1> QED
  BY <1>1, <1>3 DEF StandsAt

LEMMA ComesToRest ==
    ASSUME NEW t \in Task, \A u \in Task : persisting'[u] = NotPersisting,
           made' \subseteq {record'.id}, StandsBut(unsent)'
    PROVE  StandsAt(t)'
<1>1. IdToBe(t)' = record'.id /\ OpenFields(t)' = unsent'
  BY NotPersistingIs DEF IdToBe, OpenFields
<1> QED
  BY <1>1, NotPersistingIs DEF StandsAt

LEMMA RecordTypes ==
    ASSUME RecordsInv
    PROVE  /\ lastRow \in 0 .. MaxRows
           /\ rows \in [DOMAIN rows -> Row] /\ DOMAIN rows \subseteq 1 .. lastRow
           /\ record \in [id : 0 .. MaxRows, values : Data]
           /\ \A f \in DOMAIN record.values : FitsField(record.values[f], f)
           /\ persisting \in [Task -> PersistingCall] /\ CallsTyped
           /\ persisted \in 0 .. MaxPersisted /\ unsent \in SUBSET Attribute
           /\ made \subseteq 1 .. lastRow /\ alone \in BOOLEAN
BY DEF RecordsInv, RecordsTyped

LEMMA Reads ==
    ASSUME RecordsInv, NEW id \in 1 .. MaxRows, ReadAnew(id)
    PROVE  RecordsInv'
<1>1. /\ UNCHANGED <<rows, lastRow, persisting, persisted>> /\ AtRestAll
      /\ record' = Constructed(id, rows[id]) /\ unsent' = {} /\ made' = {} /\ alone' = TRUE
      /\ id \in DOMAIN rows /\ id \in 0 .. MaxRows
  BY RecordsAssumption DEF ReadAnew
<1>2. rows[id] \in Row
  BY <1>1, RecordTypes
<1>3. /\ record' \in [id : 0 .. MaxRows, values : Data] /\ record'.id = id
      /\ \A f \in DOMAIN record'.values : /\ FitsField(record'.values[f], f)
                                          /\ Matches(record'.values[f], rows[id][f])
  BY <1>1, <1>2, ReadIs
<1>4. StandsBut(unsent)'
  BY <1>1, <1>3 DEF StandsBut
<1>5. \A u \in Task : persisting'[u] = NotPersisting
  BY <1>1 DEF AtRestAll
<1>6. \A t \in Task : StandsAt(t)'
  BY <1>1, <1>4, <1>5, ComesToRest
<1>7. CallsTyped'
  BY <1>1, RecordTypes DEF CallsTyped
<1>8. RecordsTyped'
  BY <1>1, <1>3, <1>7, RecordTypes DEF RecordsTyped
<1> QED
  BY <1>6, <1>8, TaskAssumption DEF RecordsInv

LEMMA BlankIsRow == Blank \in Row
<1>1. Blank = [f \in Attribute |-> Blank[f]]
  BY Attributes DEF Blank
<1>2. Blank["email"] = "false" /\ Blank["child_ids"] = "ids"
  BY DEF Blank
<1>3. \A f \in Attribute : Blank[f] \in Held[f]
  BY <1>2, Attributes
<1> QED
  BY <1>1, <1>3, RowMade

LEMMA WritesElsewhere ==
    ASSUME RecordsInv, NEW id, WrittenElsewhere(id)
    PROVE  RecordsInv'
<1>1. /\ UNCHANGED <<lastRow, record, persisting, persisted, unsent, made>>
      /\ alone' = FALSE /\ rows' = [rows EXCEPT ![id] = Blank]
  BY DEF WrittenElsewhere
<1>2. DOMAIN rows' = DOMAIN rows /\ rows' \in [DOMAIN rows' -> Row]
  BY <1>1, BlankIsRow, RecordTypes
<1>3. CallsTyped'
  BY <1>1, RecordTypes DEF CallsTyped
<1>4. RecordsTyped'
  BY <1>1, <1>2, <1>3, RecordTypes DEF RecordsTyped
<1> QED
  BY <1>1, <1>4 DEF RecordsInv

LEMMA Assigns ==
    ASSUME RecordsInv, NEW f \in Attribute, NEW v \in Held[f], Assigned(f, v)
    PROVE  RecordsInv'
<1> DEFINE values == record.values
           new == WithField(values, f, v)
<1>1. /\ UNCHANGED <<rows, lastRow, persisting, persisted, made, alone>>
      /\ record' = [record EXCEPT !.values = new] /\ unsent' = unsent \cup {f}
  BY DEF Assigned
<1>2. /\ values \in Data /\ \A g \in DOMAIN values : FitsField(values[g], g) /\ values[g] \in AnyValue
      /\ v \in AnyValue /\ FitsField(v, f) /\ f \in Attribute
  BY RecordTypes, HeldValues, DataIs
<1> HIDE DEF values
<1>3. /\ new \in Data /\ DOMAIN new = DOMAIN values \cup {f}
      /\ \A g \in DOMAIN values \ {f} : new[g] = Converted(values[g])
      /\ \A g \in DOMAIN new : FitsField(new[g], g)
  <2>1. values \in Data
    BY <1>2
  <2>4. \A g \in DOMAIN values : FitsField(values[g], g)
    BY <1>2
  <2>5. v \in AnyValue /\ FitsField(v, f) /\ f \in Attribute
    BY <1>2
  <2> HIDE DEF new
  <2>2. new = WithField(values, f, v)
    BY DEF new
  <2>3. /\ WithField(values, f, v) \in Data
        /\ DOMAIN WithField(values, f, v) = DOMAIN values \cup {f}
        /\ WithField(values, f, v)[f] = v
        /\ \A g \in DOMAIN values \ {f} : WithField(values, f, v)[g] = Converted(values[g])
        /\ \A g \in DOMAIN WithField(values, f, v) :
              FitsField(WithField(values, f, v)[g], g)
    BY ONLY <2>1, <2>4, <2>5, WithFieldIs, Zenon
  <2> QED
    BY ONLY <2>2, <2>3
<1> HIDE DEF new
<1> USE DEF values
<1>4. /\ record' \in [id : 0 .. MaxRows, values : Data] /\ record'.id = record.id
      /\ record'.values = new
  BY <1>1, <1>3, RecordTypes
<1>5. RecordsTyped'
  <2>1. CallsTyped'
    BY <1>1, RecordTypes DEF CallsTyped
  <2> QED
    BY <1>1, <1>3, <1>4, <2>1, RecordTypes DEF RecordsTyped
<1>6. \A kept : \A g \in DOMAIN new \ (unsent \cup {f}) :
         /\ g \in DOMAIN values \ unsent
         /\ Matches(values[g], kept) => Matches(new[g], kept)
  BY <1>2, <1>3, Conversion
<1>7. ASSUME NEW t \in Task, StandsAt(t)
      PROVE  StandsAt(t)'
  <2>1. /\ \A u \in Task \ {t} : persisting'[u] = NotPersisting
        /\ persisting'[t].kind \in {"update", "write", "delete"} => persisting'[t].id = record'.id
        /\ persisting'[t].kind = "create" => record'.id = 0
    BY <1>1, <1>4, <1>7 DEF StandsAt
  <2>2. made' \subseteq {IdToBe(t)'}
    BY <1>1, <1>4, <1>7 DEF StandsAt, IdToBe
  <2>3. StandsBut(OpenFields(t))'
    <3>1. OpenFields(t)' = OpenFields(t) \cup {f} /\ unsent \subseteq OpenFields(t)
      BY <1>1 DEF OpenFields
    <3> QED
      BY <1>1, <1>4, <1>6, <1>7, <3>1 DEF StandsAt, StandsBut
  <2>4. persisting'[t].kind = "update" /\ persisting'[t].at = "done" /\ record'.id \in DOMAIN rows' =>
           \A g \in DOMAIN persisting'[t].data : rows'[record'.id][g] = persisting'[t].data[g]
    BY <1>1, <1>4, <1>7 DEF StandsAt
  <2>5. persisting'[t].kind \in {"write", "create"} /\ persisting'[t].at = "sent" =>
          \A g \in DOMAIN record'.values \ unsent' :
             /\ g \in DOMAIN persisting'[t].data
             /\ Matches(record'.values[g], persisting'[t].data[g])
    BY <1>1, <1>4, <1>6, <1>7 DEF StandsAt
  <2>6. persisting'[t].kind = "create" /\ persisting'[t].at = "done"
          /\ persisting'[t].id \in DOMAIN rows' =>
          \A g \in DOMAIN record'.values \ unsent' :
             Matches(record'.values[g], rows'[persisting'[t].id][g])
    BY <1>1, <1>4, <1>6, <1>7 DEF StandsAt
  <2> QED
    BY <2>1, <2>2, <2>3, <2>4, <2>5, <2>6 DEF StandsAt
<1> QED
  BY <1>1, <1>5, <1>7 DEF RecordsInv


\* The call that begins.
LEMMA CallBegins ==
    ASSUME RecordsInv, NEW t \in Task, NEW kind \in {"create", "update", "write", "delete"},
           NEW data \in Data, kind = "update" => \A f \in DOMAIN data : data[f] \in Held[f],
           Persists(t, kind, data)
    PROVE  /\ persisting' \in [Task -> PersistingCall] /\ CallsTyped'
           /\ persisting'[t].at = "sent" /\ persisting'[t].kind = kind
           /\ persisting'[t].id = record.id /\ persisting'[t].data = data
           /\ persisting'[t].before = unsent
           /\ persisted' \in 0 .. MaxPersisted /\ alone' \in BOOLEAN
           /\ alone' => /\ StandsBut(unsent) /\ made \subseteq {record.id}
                        /\ \A u \in Task \ {t} : persisting'[u] = NotPersisting
<1> DEFINE call == [at |-> "sent", kind |-> kind, id |-> record.id, data |-> data,
                    before |-> unsent]
<1>1. /\ persisting' = [persisting EXCEPT ![t] = call] /\ persisted < MaxPersisted
      /\ persisted' = persisted + 1 /\ alone' = (alone /\ AtRestAll)
  BY DEF Persists
<1>2. /\ persisting \in [Task -> PersistingCall] /\ CallsTyped
      /\ record.id \in 0 .. MaxRows /\ unsent \in SUBSET Attribute
      /\ persisted \in 0 .. MaxPersisted
  BY RecordTypes
<1>3. /\ call \in PersistingCall /\ call.at = "sent" /\ call.kind = kind /\ call.id = record.id
      /\ call.data = data /\ call.before = unsent
  BY <1>2 DEF PersistingCall
<1> HIDE DEF call
<1>4. /\ persisting' \in [Task -> PersistingCall] /\ persisting'[t] = call
      /\ \A u \in Task \ {t} : persisting'[u] = persisting[u]
  BY <1>1, <1>2, <1>3
<1>5. CallsTyped'
  BY <1>2, <1>3, <1>4 DEF CallsTyped
<1>6. persisted' \in 0 .. MaxPersisted
  BY <1>1, <1>2, RecordsAssumption
<1>7. ASSUME alone'
      PROVE  /\ StandsBut(unsent) /\ made \subseteq {record.id}
             /\ \A u \in Task \ {t} : persisting'[u] = NotPersisting
  <2>1. alone /\ AtRestAll
    BY <1>1, <1>7, Zenon
  <2> QED
    BY <1>4, <2>1, AloneAtRest DEF AtRestAll
<1>8. alone' \in BOOLEAN
  BY <1>1, Zenon
<1> QED
  BY <1>3, <1>4, <1>5, <1>6, <1>7, <1>8

LEMMA ChangeBegins ==
    ASSUME RecordsInv, NEW t \in Task,
           (\E values \in Values : UpdateBegins(t, values)) \/ DeleteBegins(t)
    PROVE  RecordsInv'
<1>1. /\ UNCHANGED <<rows, lastRow, record, unsent, made>>
      /\ \E kind \in {"update", "delete"}, data \in Data :
            /\ kind = "update" => \A f \in DOMAIN data : data[f] \in Held[f]
            /\ Persists(t, kind, data)
  <2>1. <<>> \in Data
    BY NotPersistingIs DEF NotPersisting, PersistingCall
  <2> QED
    BY <2>1, ValuesAre DEF UpdateBegins, DeleteBegins
<1>2. PICK kind \in {"update", "delete"} : \E data \in Data :
            /\ kind = "update" => \A f \in DOMAIN data : data[f] \in Held[f]
            /\ Persists(t, kind, data)
  BY <1>1
<1>3. PICK data \in Data :
            /\ kind = "update" => \A f \in DOMAIN data : data[f] \in Held[f]
            /\ Persists(t, kind, data)
  BY <1>2
<1>4. /\ persisting' \in [Task -> PersistingCall] /\ CallsTyped'
      /\ persisting'[t].at = "sent" /\ persisting'[t].kind = kind
      /\ persisting'[t].id = record.id /\ persisting'[t].data = data
      /\ persisting'[t].before = unsent
      /\ persisted' \in 0 .. MaxPersisted /\ alone' \in BOOLEAN
      /\ alone' => /\ StandsBut(unsent) /\ made \subseteq {record.id}
                   /\ \A u \in Task \ {t} : persisting'[u] = NotPersisting
  BY <1>2, <1>3, CallBegins
<1>5. RecordsTyped'
  BY <1>1, <1>4, RecordTypes DEF RecordsTyped
<1>6. ASSUME alone'
      PROVE  StandsAt(t)'
  <2>1. OpenFields(t)' = unsent' /\ IdToBe(t)' = record'.id
    BY <1>4 DEF OpenFields, IdToBe
  <2>2. StandsBut(unsent)' /\ made' \subseteq {record'.id}
    BY <1>1, <1>4, <1>6 DEF StandsBut
  <2> QED
    BY <1>1, <1>4, <1>6, <2>1, <2>2 DEF StandsAt
<1> QED
  BY <1>5, <1>6 DEF RecordsInv

LEMMA ToOdooDictIs ==
    ASSUME NEW values \in Data
    PROVE  /\ ToOdooDict(values) \in Data /\ DOMAIN ToOdooDict(values) = DOMAIN values
           /\ \A f \in DOMAIN values : Matches(values[f], ToOdooDict(values)[f])
<1>1. DOMAIN values \in SUBSET Attribute /\ \A f \in DOMAIN values : values[f] \in AnyValue
  BY DataIs
<1>2. ToOdooDict(values) \in [DOMAIN values -> AnyValue]
  BY <1>1, Conversion DEF ToOdooDict
<1>3. ToOdooDict(values) \in Data
  BY <1>1, <1>2, DataMade
<1>4. \A f \in DOMAIN values : Matches(values[f], ToOdooDict(values)[f])
  BY <1>1, Conversion DEF ToOdooDict
<1> QED
  BY <1>2, <1>3, <1>4

LEMMA SaveBegun ==
    ASSUME RecordsInv, NEW t \in Task, SaveBegins(t)
    PROVE  RecordsInv'
<1> DEFINE kind == IF record.id = 0 THEN "create" ELSE "write"
           data == ToOdooDict(record.values)
<1>1. /\ UNCHANGED <<rows, lastRow, record, made>> /\ unsent' = {}
      /\ Persists(t, kind, data)
  BY DEF SaveBegins
<1>2. /\ data \in Data /\ DOMAIN data = DOMAIN record.values
      /\ \A f \in DOMAIN record.values : Matches(record.values[f], data[f])
  <2>1. record.values \in Data
    BY RecordTypes
  <2> QED
    BY <2>1, ToOdooDictIs
<1>3. kind \in {"create", "write"} /\ (kind = "create" <=> record.id = 0)
  OBVIOUS
<1> HIDE DEF kind, data
<1>4. /\ persisting' \in [Task -> PersistingCall] /\ CallsTyped'
      /\ persisting'[t].at = "sent" /\ persisting'[t].kind = kind
      /\ persisting'[t].id = record.id /\ persisting'[t].data = data
      /\ persisting'[t].before = unsent
      /\ persisted' \in 0 .. MaxPersisted /\ alone' \in BOOLEAN
      /\ alone' => /\ StandsBut(unsent) /\ made \subseteq {record.id}
                   /\ \A u \in Task \ {t} : persisting'[u] = NotPersisting
  BY <1>1, <1>2, <1>3, CallBegins
<1>5. RecordsTyped'
  BY <1>1, <1>4, RecordTypes DEF RecordsTyped
<1>6. ASSUME alone'
      PROVE  StandsAt(t)'
  <2>1. IdToBe(t)' = record'.id
    BY <1>4 DEF IdToBe
  <2>2. StandsBut(OpenFields(t))'
    <3>1. CASE kind = "create"
      <4>1. record'.id = 0 /\ 0 \notin DOMAIN rows'
        BY <1>1, <1>3, <3>1, RecordTypes
      <4> QED
        BY <4>1 DEF StandsBut
    <3>2. CASE kind = "write"
      <4>1. OpenFields(t)' = unsent
        BY <1>1, <1>4, <3>2 DEF OpenFields
      <4> QED
        BY <1>1, <1>4, <1>6, <4>1 DEF StandsBut
    <3> QED
      BY <1>3, <3>1, <3>2
  <2>3. made' \subseteq {record'.id}
    BY <1>1, <1>4, <1>6
  <2> QED
    BY <1>1, <1>2, <1>3, <1>4, <1>6, <2>1, <2>2, <2>3 DEF StandsAt
<1> QED
  BY <1>5, <1>6 DEF RecordsInv

\* A call that raises returns the task to its program.
LEMMA CallReturns ==
    ASSUME RecordsInv, NEW t \in Task, Returns(t), UNCHANGED persisted
    PROVE  /\ persisting' \in [Task -> PersistingCall] /\ CallsTyped'
           /\ persisting'[t] = NotPersisting /\ persisted' \in 0 .. MaxPersisted
           /\ alone /\ persisting[t] # NotPersisting =>
                 \A u \in Task : persisting'[u] = NotPersisting
<1>1. persisting \in [Task -> PersistingCall] /\ CallsTyped /\ persisted \in 0 .. MaxPersisted
  BY RecordTypes
<1>2. /\ persisting' \in [Task -> PersistingCall] /\ persisting'[t] = NotPersisting
      /\ \A u \in Task \ {t} : persisting'[u] = persisting[u]
  BY <1>1, NotPersistingIs DEF Returns
<1>3. CallsTyped'
  BY <1>1, <1>2, NotPersistingIs DEF CallsTyped
<1>4. ASSUME alone, persisting[t] # NotPersisting
      PROVE  \A u \in Task : persisting'[u] = NotPersisting
  BY <1>2, <1>4, AloneInCall DEF StandsAt
<1> QED
  BY <1>1, <1>2, <1>3, <1>4

LEMMA CallRaises ==
    ASSUME RecordsInv, NEW t \in Task, PersistRefused(t) \/ PersistLost(t)
    PROVE  RecordsInv'
<1>1. /\ UNCHANGED <<rows, lastRow, record, persisted, made>> /\ Returns(t)
      /\ persisting[t].at # "idle" /\ persisting[t] # NotPersisting
      /\ \/ /\ persisting[t].at = "sent" /\ alone' = alone
            /\ unsent' = unsent \cup persisting[t].before
         \/ alone' = FALSE /\ unsent' = unsent
  BY NotPersistingIs DEF PersistRefused, PersistLost
<1>2. /\ persisting' \in [Task -> PersistingCall] /\ CallsTyped'
      /\ persisted' \in 0 .. MaxPersisted
      /\ alone => \A u \in Task : persisting'[u] = NotPersisting
  BY <1>1, CallReturns
<1>3. persisting[t].before \in SUBSET Attribute
  BY RecordTypes DEF PersistingCall
<1>4. RecordsTyped'
  BY <1>1, <1>2, <1>3, RecordTypes DEF RecordsTyped
<1>5. ASSUME alone'
      PROVE  StandsAt(t)'
  <2>1. alone /\ persisting[t].at = "sent" /\ unsent' = unsent \cup persisting[t].before
    BY <1>1, <1>5
  <2>2. StandsAt(t)
    BY <1>1, <2>1, AloneInCall
  <2>3. OpenFields(t) \subseteq unsent'
    BY <2>1 DEF OpenFields
  <2>4. StandsBut(unsent)'
    BY <1>1, <2>2, <2>3 DEF StandsAt, StandsBut
  <2>5. made' \subseteq {record'.id}
    BY <1>1, <2>1, <2>2 DEF StandsAt, IdToBe
  <2> QED
    BY <1>2, <2>1, <2>4, <2>5, ComesToRest
<1> QED
  BY <1>4, <1>5 DEF RecordsInv


\* A row with some of its fields written.
LEMMA RowWritten ==
    ASSUME NEW row \in Row, NEW data \in Data, OdooTakes(data)
    PROVE  /\ Overwritten(row, data) \in Row
           /\ \A f \in DOMAIN data : Overwritten(row, data)[f] = data[f]
           /\ \A f \in Attribute \ DOMAIN data : Overwritten(row, data)[f] = row[f]
<1>1. /\ DOMAIN data \in SUBSET Attribute /\ \A f \in DOMAIN data : data[f] \in Held[f]
      /\ DOMAIN row = Attribute /\ \A f \in Attribute : row[f] \in Held[f]
  BY DataIs, RowIs DEF OdooTakes
<1>2. Overwritten(row, data) = [f \in Attribute |-> IF f \in DOMAIN data THEN data[f] ELSE row[f]]
  <2>1. DOMAIN row \cup DOMAIN data = Attribute
    BY <1>1
  <2> QED
    BY <2>1 DEF Overwritten
<1>3. \A f \in Attribute : Overwritten(row, data)[f] \in Held[f]
  BY <1>1, <1>2
<1>4. Overwritten(row, data) = [f \in Attribute |-> Overwritten(row, data)[f]]
  BY <1>2
<1>5. Overwritten(row, data) \in Row
  BY <1>3, <1>4, RowMade
<1> QED
  BY <1>1, <1>2, <1>5

LEMMA RowChanges ==
    ASSUME RecordsInv, NEW t \in Task, RowChanged(t)
    PROVE  RecordsInv'
<1> DEFINE a == persisting[t]
<1>1. /\ a.at = "sent" /\ a.kind # "create" /\ OdooTakes(a.data) /\ a.id \in DOMAIN rows
      /\ rows' = IF a.kind = "delete" THEN [id \in DOMAIN rows \ {a.id} |-> rows[id]]
                 ELSE [rows EXCEPT ![a.id] = Overwritten(@, a.data)]
      /\ persisting' = [persisting EXCEPT ![t].at = "done"]
      /\ UNCHANGED <<lastRow, record, persisted, unsent, made, alone>>
  BY DEF RowChanged, Restrict
<1>2. /\ a \in PersistingCall /\ a.data \in Data
      /\ rows \in [DOMAIN rows -> Row] /\ DOMAIN rows \subseteq 1 .. lastRow
      /\ persisting \in [Task -> PersistingCall] /\ CallsTyped
  BY RecordTypes DEF PersistingCall
<1>3. a # NotPersisting /\ a.kind \in {"update", "write", "delete"}
  BY <1>1, <1>2, NotPersistingIs DEF CallsTyped, PersistingCall
<1> DEFINE new == [a EXCEPT !.at = "done"]
<1>4. /\ new \in PersistingCall /\ new.at = "done" /\ new.kind = a.kind /\ new.id = a.id
      /\ new.data = a.data
  BY <1>2 DEF PersistingCall
<1>5. persisting' = [persisting EXCEPT ![t] = new]
  BY <1>1
<1> HIDE DEF new
<1>6. /\ persisting' \in [Task -> PersistingCall] /\ persisting'[t] = new
      /\ \A u \in Task \ {t} : persisting'[u] = persisting[u]
  BY <1>2, <1>4, <1>5
<1>7. CallsTyped'
  BY <1>2, <1>3, <1>4, <1>6 DEF CallsTyped
<1> DEFINE row == Overwritten(rows[a.id], a.data)
<1>8. /\ row \in Row
      /\ \A f \in DOMAIN a.data : row[f] = a.data[f]
      /\ \A f \in Attribute \ DOMAIN a.data : row[f] = rows[a.id][f]
  <2>1. rows[a.id] \in Row
    BY <1>1, <1>2
  <2> QED
    BY <1>1, <1>2, <2>1, RowWritten
<1>9. /\ a.kind = "delete" => a.id \notin DOMAIN rows'
      /\ a.kind # "delete" => rows'[a.id] = row /\ DOMAIN rows' = DOMAIN rows
      /\ DOMAIN rows' \subseteq DOMAIN rows
      /\ rows' \in [DOMAIN rows' -> Row]
  <2> HIDE DEF row
  <2>1. CASE a.kind = "delete"
    BY <1>1, <1>2, <2>1
  <2>2. CASE a.kind # "delete"
    <3>1. rows' = [rows EXCEPT ![a.id] = row]
      BY <1>1, <2>2 DEF row
    <3> QED
      BY <1>1, <1>2, <1>8, <2>2, <3>1
  <2> QED
    BY <2>1, <2>2
<1> HIDE DEF row
<1>10. RecordsTyped'
  BY <1>1, <1>2, <1>6, <1>7, <1>9, RecordTypes DEF RecordsTyped
<1>11. ASSUME alone
       PROVE  StandsAt(t)'
  <2>1. StandsAt(t)
    BY <1>3, <1>11, AloneInCall
  <2>2. a.id = record.id /\ record'.id = record.id
    BY <1>1, <1>3, <2>1 DEF StandsAt
  <2>3. /\ \A u \in Task \ {t} : persisting'[u] = NotPersisting
        /\ made' \subseteq {record'.id} /\ IdToBe(t)' = record'.id
    BY <1>1, <1>3, <1>4, <1>6, <2>1 DEF StandsAt, IdToBe
  <2>4. \A f \in DOMAIN record.values : f \in Attribute
    BY RecordTypes, DataIs
  <2>5. StandsBut(OpenFields(t))'
    <3>1. CASE a.kind = "delete"
      BY <1>1, <1>9, <2>2, <3>1 DEF StandsBut
    <3>2. CASE a.kind = "update"
      <4>1. OpenFields(t)' = unsent \cup DOMAIN a.data
        BY <1>1, <1>4, <1>6, <3>2 DEF OpenFields
      <4>2. OpenFields(t) = unsent
        BY <1>1, <3>2 DEF OpenFields
      <4>3. \A f \in DOMAIN record.values \ unsent : Matches(record.values[f], rows[record.id][f])
        BY <1>1, <2>1, <2>2, <4>2 DEF StandsAt, StandsBut
      <4>4. \A f \in DOMAIN record.values \ (unsent \cup DOMAIN a.data) :
               Matches(record.values[f], rows'[record.id][f])
        BY <1>8, <1>9, <2>2, <2>4, <3>2, <4>3
      <4> QED
        BY <1>1, <4>1, <4>4 DEF StandsBut
    <3>3. CASE a.kind = "write"
      <4>1. OpenFields(t)' = unsent
        BY <1>1, <1>4, <1>6, <3>3 DEF OpenFields
      <4>2. \A f \in DOMAIN record.values \ unsent :
               f \in DOMAIN a.data /\ Matches(record.values[f], a.data[f])
        BY <1>1, <2>1, <3>3 DEF StandsAt
      <4>3. \A f \in DOMAIN record.values \ unsent : Matches(record.values[f], rows'[record.id][f])
        BY <1>8, <1>9, <2>2, <3>3, <4>2
      <4> QED
        BY <1>1, <4>1, <4>3 DEF StandsBut
    <3> QED
      BY <1>3, <3>1, <3>2, <3>3
  <2>6. persisting'[t].kind = "update" /\ persisting'[t].at = "done" /\ record'.id \in DOMAIN rows' =>
           \A f \in DOMAIN persisting'[t].data : rows'[record'.id][f] = persisting'[t].data[f]
    BY <1>4, <1>6, <1>8, <1>9, <2>2
  <2> QED
    BY <1>3, <1>4, <1>6, <2>2, <2>3, <2>5, <2>6 DEF StandsAt
<1> QED
  BY <1>1, <1>10, <1>11 DEF RecordsInv

LEMMA RowComes ==
    ASSUME RecordsInv, NEW t \in Task, RowCreated(t)
    PROVE  RecordsInv'
<1> DEFINE a == persisting[t]
           n == lastRow + 1
           row == Overwritten(Blank, a.data)
<1>1. /\ a.at = "sent" /\ a.kind = "create" /\ OdooTakes(a.data) /\ lastRow < MaxRows
      /\ lastRow' = n /\ made' = made \cup {n}
      /\ rows' = [id \in DOMAIN rows \cup {n} |-> IF id = n THEN row ELSE rows[id]]
      /\ persisting' = [persisting EXCEPT ![t].at = "done", ![t].id = n]
      /\ UNCHANGED <<record, persisted, unsent, alone>>
  BY DEF RowCreated
<1>2. /\ a \in PersistingCall /\ a.data \in Data /\ lastRow \in 0 .. MaxRows
      /\ rows \in [DOMAIN rows -> Row] /\ DOMAIN rows \subseteq 1 .. lastRow
      /\ persisting \in [Task -> PersistingCall] /\ CallsTyped /\ made \subseteq 1 .. lastRow
  BY RecordTypes DEF PersistingCall
<1>3. n \in 0 .. MaxRows /\ n \in 1 .. n /\ 1 .. lastRow \subseteq 1 .. n /\ n # 0
  BY <1>1, <1>2, RecordsAssumption
<1>4. row \in Row /\ \A f \in DOMAIN a.data : row[f] = a.data[f]
  BY <1>1, <1>2, BlankIsRow, RowWritten
<1> DEFINE new == [a EXCEPT !.at = "done", !.id = n]
<1>5. /\ new \in PersistingCall /\ new.at = "done" /\ new.kind = "create" /\ new.id = n
      /\ new.data = a.data
  BY <1>1, <1>2, <1>3 DEF PersistingCall
<1>6. persisting' = [persisting EXCEPT ![t] = new]
  BY <1>1
<1> HIDE DEF new, row
<1>7. /\ persisting' \in [Task -> PersistingCall] /\ persisting'[t] = new
      /\ \A u \in Task \ {t} : persisting'[u] = persisting[u]
  BY <1>2, <1>5, <1>6
<1>8. CallsTyped'
  BY <1>2, <1>5, <1>7 DEF CallsTyped
<1>9. /\ DOMAIN rows' = DOMAIN rows \cup {n} /\ rows' \in [DOMAIN rows' -> Row]
      /\ rows'[n] = row
  BY <1>1, <1>2, <1>4
<1>10. DOMAIN rows' \subseteq 1 .. lastRow' /\ made' \subseteq 1 .. lastRow' /\ lastRow' \in 0 .. MaxRows
  <2> HIDE DEF n
  <2> QED
    BY <1>1, <1>2, <1>3, <1>9
<1>11. RecordsTyped'
  BY <1>1, <1>7, <1>8, <1>9, <1>10, RecordTypes DEF RecordsTyped
<1>12. ASSUME alone
       PROVE  StandsAt(t)'
  <2>1. a # NotPersisting
    BY <1>1, NotPersistingIs
  <2>2. StandsAt(t)
    BY <1>12, <2>1, AloneInCall
  <2>3. record.id = 0 /\ record' = record /\ unsent' = unsent
    BY <1>1, <2>2 DEF StandsAt
  <2>4. made = {}
    BY <1>1, <1>2, <2>2, <2>3 DEF StandsAt, IdToBe
  <2>5. made' \subseteq {IdToBe(t)'}
    BY <1>1, <1>5, <1>7, <2>4 DEF IdToBe
  <2>6. StandsBut(OpenFields(t))'
    <3>1. 0 \notin DOMAIN rows'
      <4> HIDE DEF n
      <4> QED
        BY <1>2, <1>3, <1>9
    <3> QED
      BY <2>3, <3>1 DEF StandsBut
  <2>7. \A f \in DOMAIN record.values \ unsent :
           f \in DOMAIN a.data /\ Matches(record.values[f], a.data[f])
    BY <1>1, <2>2 DEF StandsAt
  <2>8. \A f \in DOMAIN record.values \ unsent : Matches(record.values[f], rows'[n][f])
    BY <1>4, <1>9, <2>7
  <2>9. \A u \in Task \ {t} : persisting'[u] = NotPersisting
    BY <1>7, <2>2 DEF StandsAt
  <2> QED
    BY <1>5, <1>7, <2>3, <2>5, <2>6, <2>8, <2>9 DEF StandsAt
<1> QED
  BY <1>1, <1>11, <1>12 DEF RecordsInv

\* What assigning some fields of data makes of the values of the instance.
LEMMA WithFieldsIs ==
    ASSUME NEW values \in Data, \A g \in DOMAIN values : FitsField(values[g], g),
           NEW data \in Data, \A g \in DOMAIN data : data[g] \in Held[g],
           NEW fields \in SUBSET DOMAIN data, NEW new \in WithFields(values, data, fields)
    PROVE  /\ new \in Data /\ \A g \in DOMAIN new : FitsField(new[g], g)
           /\ DOMAIN new = DOMAIN values \cup fields
           /\ \A g \in fields : Matches(new[g], data[g])
           /\ \A g \in DOMAIN values \ fields : \A kept :
                 Matches(values[g], kept) => Matches(new[g], kept)
<1>1. /\ DOMAIN data \in SUBSET Attribute /\ DOMAIN values \in SUBSET Attribute
      /\ \A g \in DOMAIN values : values[g] \in AnyValue
      /\ \A g \in DOMAIN data : /\ data[g] \in AnyValue /\ FitsField(data[g], g)
                                /\ Matches(data[g], data[g])
  BY DataIs, HeldValues
<1>2. CASE fields = {}
  <2>1. new = values
    BY <1>2 DEF WithFields
  <2> QED
    BY <1>2, <2>1
<1>3. CASE fields # {}
  <2> DEFINE both == Overwritten(values, Restrict(data, fields))
  <2>1. PICK last \in fields : new = WithField(both, last, data[last])
    BY <1>3 DEF WithFields
  <2>2. both = [g \in DOMAIN values \cup fields |-> IF g \in fields THEN data[g] ELSE values[g]]
    BY DEF Overwritten, Restrict
  <2>3. both \in Data /\ \A g \in DOMAIN both : FitsField(both[g], g) /\ both[g] \in AnyValue
    <3>1. both \in [DOMAIN values \cup fields -> AnyValue]
      BY <1>1, <2>2
    <3>2. both \in Data
      BY <1>1, <3>1, DataMade
    <3> QED
      BY <1>1, <2>2, <3>2
  <2>4. DOMAIN both = DOMAIN values \cup fields
    BY <2>2
  <2>5. /\ \A g \in fields : both[g] = data[g]
        /\ \A g \in DOMAIN values \ fields : both[g] = values[g]
    BY <2>2
  <2> HIDE DEF both
  <2>6. /\ last \in Attribute /\ data[last] \in AnyValue /\ FitsField(data[last], last)
    BY <1>1
  <2> DEFINE v == data[last]
  <2>9. v \in AnyValue /\ FitsField(v, last) /\ last \in Attribute /\ new = WithField(both, last, v)
    BY <2>1, <2>6
  <2> HIDE DEF v
  <2>10. \A g \in DOMAIN both : FitsField(both[g], g)
    BY <2>3
  <2>12. /\ WithField(both, last, v) \in Data
         /\ DOMAIN WithField(both, last, v) = DOMAIN both \cup {last}
         /\ WithField(both, last, v)[last] = v
         /\ \A g \in DOMAIN both \ {last} : WithField(both, last, v)[g] = Converted(both[g])
         /\ \A g \in DOMAIN WithField(both, last, v) : FitsField(WithField(both, last, v)[g], g)
    <3>1. both \in Data
      BY <2>3
    <3> QED
      BY ONLY <3>1, <2>9, <2>10, WithFieldIs, Zenon
  <2>7. /\ new \in Data /\ DOMAIN new = DOMAIN both \cup {last} /\ new[last] = v
        /\ \A g \in DOMAIN both \ {last} : new[g] = Converted(both[g])
        /\ \A g \in DOMAIN new : FitsField(new[g], g)
    BY ONLY <2>9, <2>12
  <2>11. new[last] = data[last]
    BY <2>7 DEF v
  <2>8. \A g \in DOMAIN both : \A kept : g # last =>
           (Matches(both[g], kept) => Matches(new[g], kept))
    BY <2>3, <2>7, Conversion
  <2> QED
    BY <1>1, <2>4, <2>5, <2>7, <2>8, <2>11
<1> QED
  BY <1>2, <1>3

LEMMA UpdateReturns ==
    ASSUME RecordsInv, NEW t \in Task, UpdateAnswered(t)
    PROVE  RecordsInv'
<1> DEFINE data == persisting[t].data
<1>1. /\ persisting[t].at = "done" /\ persisting[t].kind = "update" /\ Returns(t)
      /\ UNCHANGED <<rows, lastRow, persisted, made, alone>>
      /\ persisting[t] # NotPersisting
  BY NotPersistingIs DEF UpdateAnswered
<1>2. PICK fields \in SUBSET DOMAIN data : \E assigned \in WithFields(record.values, data, fields) :
         /\ record' = [record EXCEPT !.values = assigned]
         /\ unsent' = (unsent \cup DOMAIN data) \ fields
  BY DEF UpdateAnswered, AssignedOf
<1>3. PICK assigned \in WithFields(record.values, data, fields) :
         /\ record' = [record EXCEPT !.values = assigned]
         /\ unsent' = (unsent \cup DOMAIN data) \ fields
  BY <1>2
<1>4. /\ record.values \in Data /\ \A g \in DOMAIN record.values : FitsField(record.values[g], g)
      /\ data \in Data /\ \A g \in DOMAIN data : data[g] \in Held[g]
      /\ DOMAIN data \in SUBSET Attribute
  BY <1>1, RecordTypes, DataIs DEF CallsTyped, PersistingCall
<1>5. /\ assigned \in Data /\ \A g \in DOMAIN assigned : FitsField(assigned[g], g)
      /\ DOMAIN assigned = DOMAIN record.values \cup fields
      /\ \A g \in fields : Matches(assigned[g], data[g])
      /\ \A g \in DOMAIN record.values \ fields : \A kept :
            Matches(record.values[g], kept) => Matches(assigned[g], kept)
  BY <1>4, WithFieldsIs
<1>6. /\ record' \in [id : 0 .. MaxRows, values : Data] /\ record'.id = record.id
      /\ record'.values = assigned
  BY <1>3, <1>5, RecordTypes
<1>7. /\ persisting' \in [Task -> PersistingCall] /\ CallsTyped'
      /\ persisted' \in 0 .. MaxPersisted
      /\ alone => \A u \in Task : persisting'[u] = NotPersisting
  BY <1>1, CallReturns
<1>8. RecordsTyped'
  <2>1. unsent' \in SUBSET Attribute
    BY <1>3, <1>4, RecordTypes
  <2> QED
    BY <1>1, <1>5, <1>6, <1>7, <2>1, RecordTypes DEF RecordsTyped
<1>9. ASSUME alone
      PROVE  StandsAt(t)'
  <2>1. StandsAt(t)
    BY <1>1, <1>9, AloneInCall
  <2>2. OpenFields(t) = unsent \cup DOMAIN data
    BY <1>1 DEF OpenFields
  <2>3. ASSUME record.id \in DOMAIN rows, NEW g \in DOMAIN assigned \ unsent'
        PROVE  Matches(assigned[g], rows[record.id][g])
    <3>1. CASE g \in fields
      <4>1. rows[record.id][g] = data[g]
        BY <1>1, <2>1, <2>3, <3>1 DEF StandsAt
      <4> QED
        BY <1>5, <3>1, <4>1
    <3>2. CASE g \notin fields
      <4>1. g \in DOMAIN record.values \ (unsent \cup DOMAIN data)
        BY <1>3, <1>5, <2>3, <3>2
      <4>2. Matches(record.values[g], rows[record.id][g])
        BY <2>1, <2>2, <2>3, <4>1 DEF StandsAt, StandsBut
      <4> QED
        BY <1>5, <3>2, <4>1, <4>2
    <3> QED
      BY <3>1, <3>2
  <2>4. StandsBut(unsent)'
    BY <1>1, <1>6, <2>3 DEF StandsBut
  <2>5. made' \subseteq {record'.id}
    BY <1>1, <1>6, <2>1 DEF StandsAt, IdToBe
  <2> QED
    BY <1>7, <1>9, <2>4, <2>5, ComesToRest
<1> QED
  BY <1>1, <1>8, <1>9 DEF RecordsInv

LEMMA CallAnswers ==
    ASSUME RecordsInv, NEW t \in Task, PersistAnswered(t)
    PROVE  RecordsInv'
<1> DEFINE a == persisting[t]
<1>1. /\ a.at = "done" /\ a.kind # "update" /\ Returns(t)
      /\ record' = IF a.kind = "create" THEN Constructed(a.id, record.values) ELSE record
      /\ UNCHANGED <<rows, lastRow, persisted, unsent, made, alone>>
      /\ a # NotPersisting
  BY NotPersistingIs DEF PersistAnswered
<1>2. /\ a \in PersistingCall /\ a.id \in 0 .. MaxRows
      /\ record \in [id : 0 .. MaxRows, values : Data] /\ record.values \in Data
      /\ \A f \in DOMAIN record.values : FitsField(record.values[f], f) /\ record.values[f] \in AnyValue
  BY RecordTypes, DataIs DEF PersistingCall
<1>3. /\ persisting' \in [Task -> PersistingCall] /\ CallsTyped'
      /\ persisted' \in 0 .. MaxPersisted
      /\ alone => \A u \in Task : persisting'[u] = NotPersisting
  BY <1>1, CallReturns
<1>4. /\ record' \in [id : 0 .. MaxRows, values : Data]
      /\ \A f \in DOMAIN record'.values : FitsField(record'.values[f], f)
      /\ record'.id = IF a.kind = "create" THEN a.id ELSE record.id
      /\ DOMAIN record'.values = DOMAIN record.values
      /\ \A f \in DOMAIN record.values : \A kept :
            Matches(record.values[f], kept) => Matches(record'.values[f], kept)
  <2>1. CASE a.kind = "create"
    <3>1. record' = Constructed(a.id, record.values)
      BY <1>1, <2>1
    <3>2. /\ Constructed(a.id, record.values) \in [id : 0 .. MaxRows, values : Data]
          /\ Constructed(a.id, record.values).id = a.id
          /\ DOMAIN Constructed(a.id, record.values).values = DOMAIN record.values
          /\ \A f \in DOMAIN record.values :
                /\ Constructed(a.id, record.values).values[f] = Converted(record.values[f])
                /\ FitsField(Constructed(a.id, record.values).values[f], f)
      BY <1>2, ConstructedIs
    <3> QED
      BY <1>2, <2>1, <3>1, <3>2, Conversion
  <2>2. CASE a.kind # "create"
    BY <1>1, <1>2, <2>2
  <2> QED
    BY <2>1, <2>2
<1>5. RecordsTyped'
  BY <1>1, <1>3, <1>4, RecordTypes DEF RecordsTyped
<1>6. ASSUME alone
      PROVE  StandsAt(t)'
  <2>1. StandsAt(t)
    BY <1>1, <1>6, AloneInCall
  <2>2. IdToBe(t) = record'.id /\ OpenFields(t) = unsent
    BY <1>1, <1>4 DEF IdToBe, OpenFields
  <2>3. ASSUME record'.id \in DOMAIN rows, NEW f \in DOMAIN record.values \ unsent
        PROVE  Matches(record.values[f], rows[record'.id][f])
    <3>1. CASE a.kind = "create"
      BY <1>1, <1>4, <2>1, <2>3, <3>1 DEF StandsAt
    <3>2. CASE a.kind # "create"
      BY <1>4, <2>1, <2>2, <2>3, <3>2 DEF StandsAt, StandsBut
    <3> QED
      BY <3>1, <3>2
  <2>4. StandsBut(unsent)'
    BY <1>1, <1>4, <2>3 DEF StandsBut
  <2>5. made' \subseteq {record'.id}
    BY <1>1, <2>1, <2>2 DEF StandsAt
  <2> QED
    BY <1>3, <1>6, <2>4, <2>5, ComesToRest
<1> QED
  BY <1>1, <1>5, <1>6 DEF RecordsInv

LEMMA RecordsStep == RecordsInv /\ [RecordsNext]_<<now, recordVars>> => RecordsInv'
<1> SUFFICES ASSUME RecordsInv, [RecordsNext]_<<now, recordVars>>
             PROVE  RecordsInv'
  OBVIOUS
<1>1. ASSUME NEW id \in 1 .. MaxRows, ReadAnew(id) \/ WrittenElsewhere(id)
      PROVE  RecordsInv'
  BY <1>1, Reads, WritesElsewhere
<1>2. ASSUME NEW f \in Attribute, NEW v \in Held[f], Assigned(f, v)
      PROVE  RecordsInv'
  BY <1>2, Assigns
<1>3. ASSUME NEW t \in Task,
             \/ \E values \in Values : UpdateBegins(t, values)
             \/ DeleteBegins(t)
             \/ SaveBegins(t)
      PROVE  RecordsInv'
  BY <1>3, ChangeBegins, SaveBegun
<1>4. ASSUME NEW t \in Task,
             \/ RowChanged(t)
             \/ RowCreated(t)
             \/ PersistRefused(t)
             \/ PersistLost(t)
             \/ UpdateAnswered(t)
             \/ PersistAnswered(t)
      PROVE  RecordsInv'
  BY <1>4, RowChanges, RowComes, CallRaises, UpdateReturns, CallAnswers
<1>5. CASE UNCHANGED <<now, recordVars>>
  <2>1. UNCHANGED <<rows, lastRow, record, persisting, persisted, unsent, made, alone>>
    BY <1>5 DEF recordVars
  <2>2. RecordsTyped'
    <3>1. CallsTyped'
      BY <2>1, RecordTypes DEF CallsTyped
    <3> QED
      BY <2>1, <3>1, RecordTypes DEF RecordsTyped
  <2>3. ASSUME NEW t \in Task, StandsAt(t)
        PROVE  StandsAt(t)'
    <3>1. OpenFields(t)' = OpenFields(t) /\ IdToBe(t)' = IdToBe(t)
      BY <2>1 DEF OpenFields, IdToBe
    <3>2. StandsBut(OpenFields(t))'
      BY <2>1, <2>3, <3>1 DEF StandsAt, StandsBut
    <3> QED
      BY <2>1, <2>3, <3>1, <3>2 DEF StandsAt
  <2> QED
    BY <2>1, <2>2, <2>3 DEF RecordsInv
<1> QED
  BY <1>1, <1>2, <1>3, <1>4, <1>5, Zenon DEF RecordsNext

THEOREM RecordsSafe == RecordsSpec => []RecordsCorrect
<1>1. now = 0 /\ RecordsInit => RecordsInv
  BY RecordsInvInit
<1>2. RecordsInv /\ [RecordsNext]_<<now, recordVars>> => RecordsInv'
  BY RecordsStep
<1>3. RecordsInv => RecordsCorrect
  BY RecordsInvCorrect
<1> QED
  BY <1>1, <1>2, <1>3, PTL DEF RecordsSpec

\* What tasks that load and persist share stays correct, however the loading of
\* data and the calls of an instance interleave.
THEOREM ModelsSafe == LazySpec /\ RecordsSpec => []ModelsCorrect
<1>1. LazySpec => []LazyCorrect
  BY LazySafe
<1>2. RecordsSpec => []RecordsCorrect
  BY RecordsSafe
<1> QED
  BY <1>1, <1>2, PTL DEF ModelsCorrect

(****************************************************************************)
(* Domains.                                                                 *)
(****************************************************************************)

Condition == SUBSET OdooRecord

ReadState == [ok : BOOLEAN, stack : Seq(Condition)]

Ready(stack) == [ok |-> TRUE, stack |-> stack]

LEMMA ReadyIs ==
    ASSUME NEW b \in Seq(Condition)
    PROVE  Ready(b) \in ReadState /\ Ready(b).ok = TRUE /\ Ready(b).stack = b
BY DEF Ready, ReadState

LEMMA Tokens == /\ NotSign \in Token /\ OrSign \in Token /\ NotSign # OrSign
                /\ Term \subseteq Token
                /\ \A term \in Term : term # NotSign /\ term # OrSign
<1>1. NotSign \in Token /\ OrSign \in Token /\ Term \subseteq Token
  BY Zenon DEF Token
<1>2. NotSign.operator = "!" /\ OrSign.operator = "|"
  BY DEF NotSign, OrSign, Sign
<1>3. \A term \in Term : term.operator # "!" /\ term.operator # "|"
  <2>1. ASSUME NEW k \in Keyword
        PROVE  ParsedLookup(k).operator # "!" /\ ParsedLookup(k).operator # "|"
    <3>1. ParsedLookup(k).operator = Operator(k.lookup)
      BY DEF ParsedLookup
    <3>2. Operator(k.lookup) # "!" /\ Operator(k.lookup) # "|"
      BY DEF Operator
    <3> QED
      BY <3>1, <3>2
  <2> QED
    BY <2>1, Zenon DEF Term
<1> QED
  BY <1>1, <1>2, <1>3

\* What a keyword asks for, with True for a null check given False.
Given(k) == IF Discarded(k) THEN [k EXCEPT !.value = "True"] ELSE k

LEMMA KeywordIs ==
    ASSUME NEW k \in Keyword
    PROVE  /\ k.field \in Field /\ Given(k).field = k.field
           /\ Given(k).lookup = k.lookup
           /\ \/ k.lookup \in ValueLookup /\ Given(k).value = "v"
              \/ k.lookup \in NullLookup /\ Given(k).value = "True"
           /\ ~Discarded(k) => Given(k) = k
<1>1. CASE k \in [field : Field, lookup : ValueLookup, value : {"v"}]
  <2>1. k.field \in Field /\ k.lookup \in ValueLookup /\ k.value = "v"
    BY <1>1
  <2>2. ~Discarded(k)
    BY <2>1 DEF Discarded
  <2> QED
    BY <2>1, <2>2 DEF Given
<1>2. CASE k \in [field : Field, lookup : NullLookup, value : {"True", "False"}]
  <2>1. k.field \in Field /\ k.lookup \in NullLookup /\ k.value \in {"True", "False"}
    BY <1>2
  <2> DEFINE l == [k EXCEPT !.value = "True"]
  <2>2. l.field = k.field /\ l.lookup = k.lookup /\ l.value = "True"
    BY <1>2
  <2>3. Discarded(k) <=> k.value = "False"
    BY <2>1, Zenon DEF Discarded
  <2> HIDE DEF l
  <2>4. Given(k) = IF Discarded(k) THEN l ELSE k
    BY Zenon DEF Given, l
  <2> QED
    BY <2>1, <2>2, <2>3, <2>4
<1> QED
  BY <1>1, <1>2 DEF Keyword

\* The comparison a keyword becomes matches what the keyword promises.
LEMMA LookupMatches ==
    ASSUME NEW k \in Keyword
    PROVE  Matching(Operator(k.lookup), Processed(k)) = Promised(Given(k))
<1> DEFINE o == k.lookup
           w == Given(k)
           of == Promised(w)
<1>1. /\ w.lookup = o
      /\ \/ o \in ValueLookup /\ w.value = "v"
         \/ o \in NullLookup /\ w.value = "True"
  BY KeywordIs
<1>4. SUFFICES Matching(Operator(o), Processed(k)) = of
  OBVIOUS
<1> HIDE DEF w
<1>2. CASE o \in NullLookup
  <2>1. o \in {"isnull", "isnotnull"} /\ w.value = "True"
    BY <1>1, <1>2 DEF NullLookup, ValueLookup
  <2>2. Processed(k) = "False"
    BY <1>2 DEF Processed, NullLookup
  <2>3. CASE o = "isnull"
    <3>1. Operator(o) = "="
      BY <2>3 DEF Operator
    <3>2. of = {"null"}
      BY <1>1, <2>1, <2>3 DEF Promised, NullLookup
    <3> QED
      BY <2>2, <3>1, <3>2 DEF Matching
  <2>4. CASE o = "isnotnull"
    <3>1. Operator(o) = "!="
      BY <2>4 DEF Operator
    <3>2. of = Content \ {"null"}
      BY <1>1, <2>1, <2>4 DEF Promised, NullLookup
    <3> QED
      BY <2>2, <3>1, <3>2 DEF Matching
  <2> QED
    BY <2>1, <2>3, <2>4
<1>3. CASE o \in ValueLookup
  <2>1. o \notin NullLookup
    BY <1>3 DEF NullLookup, ValueLookup
  <2>2. CASE o \in {"contains", "icontains"}
    <3>1. Operator(o) = "ilike" /\ Processed(k) = "%v%"
      BY <2>1, <2>2 DEF Operator, Processed
    <3>2. of = {"equal", "begins", "ends", "both", "has"}
      BY <1>1, <2>1, <2>2 DEF Promised, NullLookup
    <3> QED
      BY <3>1, <3>2 DEF Matching
  <2>3. CASE o \in {"startswith", "istartswith"}
    <3>1. Operator(o) = "ilike" /\ Processed(k) = "v%"
      BY <2>1, <2>3 DEF Operator, Processed
    <3>2. of = {"equal", "begins", "both"}
      BY <1>1, <2>1, <2>3 DEF Promised, NullLookup
    <3> QED
      BY <3>1, <3>2 DEF Matching
  <2>4. CASE o \in {"endswith", "iendswith"}
    <3>1. Operator(o) = "ilike" /\ Processed(k) = "%v"
      BY <2>1, <2>4 DEF Operator, Processed
    <3>2. of = {"equal", "ends", "both"}
      BY <1>1, <2>1, <2>4 DEF Promised, NullLookup
    <3> QED
      BY <3>1, <3>2 DEF Matching
  <2>5. CASE o \in {"exact", "iexact", "like", "ilike", "in"}
    <3>1. Processed(k) = "v" /\ Operator(o) \in {"=", "ilike", "like", "in"}
      BY <2>1, <2>5 DEF Operator, Processed
    <3>2. of = {"equal"}
      BY <1>1, <2>1, <2>5 DEF Promised, NullLookup
    <3> QED
      BY <3>1, <3>2 DEF Matching
  <2>6. CASE o \in {"ne", "not_in"}
    <3>1. Processed(k) = "v" /\ Operator(o) \in {"!=", "not in"}
      BY <2>1, <2>6 DEF Operator, Processed
    <3>2. of = Content \ {"equal"}
      BY <1>1, <2>1, <2>6 DEF Promised, NullLookup
    <3> QED
      BY <3>1, <3>2 DEF Matching
  <2>7. CASE o \in {"gt", "gte", "lt", "lte"}
    <3>1. Processed(k) = "v"
      BY <2>1, <2>7 DEF Processed
    <3>2. /\ o = "gt" => Operator(o) = ">" /\ of = {"above"}
          /\ o = "gte" => Operator(o) = ">=" /\ of = {"equal", "above"}
          /\ o = "lt" => Operator(o) = "<" /\ of = {"below"}
          /\ o = "lte" => Operator(o) = "<=" /\ of = {"below", "equal"}
      BY <1>1, <2>1, <2>7 DEF Operator, Promised, NullLookup
    <3> QED
      BY <2>7, <3>1, <3>2 DEF Matching
  <2> QED
    BY <1>3, <2>2, <2>3, <2>4, <2>5, <2>6, <2>7 DEF ValueLookup
<1> QED
  BY <1>1, <1>2, <1>3

\* A keyword selects what it is written to select, and a null check given False
\* what it selects when given True.
LEMMA LookupHolds ==
    ASSUME NEW k \in Keyword
    PROVE  /\ ParsedLookup(k) \in Term
           /\ Holding(ParsedLookup(k)) = Wanted(Given(k))
<1>1. /\ ParsedLookup(k).field = k.field
      /\ ParsedLookup(k).operator = Operator(k.lookup)
      /\ ParsedLookup(k).value = Processed(k)
  BY DEF ParsedLookup
<1>2. Given(k).field = k.field
  BY KeywordIs
<1>3. ParsedLookup(k) \in Term
  BY Zenon DEF Term
<1>4. Matching(Operator(k.lookup), Processed(k)) = Promised(Given(k))
  BY LookupMatches
<1> QED
  BY <1>1, <1>2, <1>3, <1>4, Zenon DEF Holding, Wanted

LEMMA LookupsHold == LookupsMean
<1>1. ASSUME NEW k \in Keyword
      PROVE  Holding(ParsedLookup(k)) =
                Wanted(IF Discarded(k) THEN [k EXCEPT !.value = "True"] ELSE k)
  BY LookupHolds, Zenon DEF Given
<1> QED
  BY <1>1, Zenon DEF LookupsMean

\* What an operator, and a term, make of what is read before them.
LEMMA ReadNot ==
    ASSUME NEW s \in ReadState
    PROVE  Read(NotSign, s) = [ok |-> s.ok /\ Len(s.stack) >= 1,
                           stack |-> IF Len(s.stack) < 1 THEN <<>>
                                     ELSE <<OdooRecord \ s.stack[1]>> \o Tail(s.stack)]
BY Tokens DEF Read

LEMMA ReadOr ==
    ASSUME NEW s \in ReadState
    PROVE  Read(OrSign, s) = [ok |-> s.ok /\ Len(s.stack) >= 2,
                           stack |-> IF Len(s.stack) < 2 THEN <<>>
                                     ELSE <<s.stack[1] \cup s.stack[2]>>
                                             \o SubSeq(s.stack, 3, Len(s.stack))]
BY Tokens DEF Read

LEMMA ReadTerm ==
    ASSUME NEW s \in ReadState, NEW term \in Term
    PROVE  Read(term, s) = [ok |-> s.ok, stack |-> <<Holding(term)>> \o s.stack]
BY Tokens, Zenon DEF Read

LEMMA ReadTyped ==
    ASSUME NEW token \in Token, NEW s \in ReadState
    PROVE  Read(token, s) \in ReadState
<1>1. /\ s.ok \in BOOLEAN /\ s.stack \in Seq(Condition) /\ Len(s.stack) \in Nat
      /\ \A i \in 1..Len(s.stack) : s.stack[i] \in Condition
      /\ \A i \in 1..Len(s.stack) : s.stack[i] \subseteq OdooRecord
  BY DEF ReadState, Condition
<1> DEFINE n == Len(s.stack)
<1>2. CASE token = NotSign
  <2>1. CASE n >= 1
    <3>1. OdooRecord \ s.stack[1] \in Condition /\ Tail(s.stack) \in Seq(Condition)
      BY <1>1, <2>1, HeadTailProperties DEF Condition
    <3> DEFINE c == OdooRecord \ s.stack[1]
    <3> HIDE DEF c
    <3>2. <<c>> \o Tail(s.stack) \in Seq(Condition)
      BY <3>1 DEF c
    <3>3. Read(token, s) = [ok |-> s.ok /\ n >= 1, stack |-> <<c>> \o Tail(s.stack)]
      BY <1>1, <1>2, <2>1, ReadNot DEF c
    <3>4. (s.ok /\ n >= 1) \in BOOLEAN
      OBVIOUS
    <3> QED
      BY <3>2, <3>3, <3>4 DEF ReadState
  <2>2. CASE ~(n >= 1)
    <3>0. n < 1
      BY <1>1, <2>2
    <3>1. Read(token, s) = [ok |-> s.ok /\ n >= 1, stack |-> <<>>]
      BY <1>2, <3>0, ReadNot, Zenon
    <3>2. (s.ok /\ n >= 1) \in BOOLEAN /\ <<>> \in Seq(Condition)
      BY EmptySeq
    <3> QED
      BY <3>1, <3>2 DEF ReadState
  <2> QED
    BY <2>1, <2>2
<1>3. CASE token = OrSign
  <2>1. CASE n >= 2
    <3>1. /\ s.stack[1] \cup s.stack[2] \in Condition
          /\ SubSeq(s.stack, 3, n) \in Seq(Condition)
      BY <1>1, <2>1 DEF Condition
    <3> DEFINE c == s.stack[1] \cup s.stack[2]
    <3> HIDE DEF c
    <3>2. <<c>> \o SubSeq(s.stack, 3, n) \in Seq(Condition)
      BY <3>1 DEF c
    <3>3. Read(token, s) = [ok |-> s.ok /\ n >= 2, stack |-> <<c>> \o SubSeq(s.stack, 3, n)]
      BY <1>1, <1>3, <2>1, ReadOr DEF c
    <3>4. (s.ok /\ n >= 2) \in BOOLEAN
      OBVIOUS
    <3> QED
      BY <3>2, <3>3, <3>4 DEF ReadState
  <2>2. CASE ~(n >= 2)
    <3>0. n < 2
      BY <1>1, <2>2
    <3>1. Read(token, s) = [ok |-> s.ok /\ n >= 2, stack |-> <<>>]
      BY <1>3, <3>0, ReadOr, Zenon
    <3>2. (s.ok /\ n >= 2) \in BOOLEAN /\ <<>> \in Seq(Condition)
      BY EmptySeq
    <3> QED
      BY <3>1, <3>2 DEF ReadState
  <2> QED
    BY <2>1, <2>2
<1>4. CASE token \in Term
  <2>1. Holding(token) \in Condition
    BY DEF Holding, Condition
  <2> DEFINE c == Holding(token)
  <2> HIDE DEF c
  <2>2. <<c>> \o s.stack \in Seq(Condition)
    BY <1>1, <2>1 DEF c
  <2>3. Read(token, s) = [ok |-> s.ok, stack |-> <<c>> \o s.stack]
    BY <1>4, ReadTerm, Zenon DEF c
  <2> QED
    BY <1>1, <2>2, <2>3 DEF ReadState
<1> QED
  BY <1>2, <1>3, <1>4 DEF Token

\* How the tokens of a domain are read, from right to left.
ReadLoop(domain, s) ==
    {f \in [0..Len(domain) -> ReadState] :
        /\ f[0] = s
        /\ \A n \in 1..Len(domain) : f[n] = Read(domain[Len(domain) + 1 - n], f[n - 1])
        /\ ReadOnto(domain, s) = f[Len(domain)]}

LEMMA ReadGoesOn ==
    ASSUME NEW domain \in Seq(Token), NEW s \in ReadState
    PROVE  ReadLoop(domain, s) # {}
<1> DEFINE N == Len(domain)
           V == ReadState
           At(n) == domain[Len(domain) + 1 - n]
           step == [w \in (1..N) \X V |-> Read(At(w[1]), w[2])]
           Body(h) == [n \in 0..N |->
                          IF n = 0 THEN s
                          ELSE Read(domain[Len(domain) + 1 - n], h[n - 1])]
           g == CHOOSE h : h = Body(h)
<1>1. /\ N \in Nat
      /\ \A n \in 1..N : At(n) \in Token
      /\ \A n \in 1..N : n - 1 \in 0..N /\ n \in 0..N /\ n # 0
      /\ \A n \in 0..N : n # 0 => n \in 1..N
  <2>1. \A n \in 1..N : N + 1 - n \in 1..N
    OBVIOUS
  <2> QED
    BY <2>1
<1>2. ReadOnto(domain, s) = g[N]
  BY Zenon DEF ReadOnto
<1>11. \A n \in 1..N : At(n) = domain[Len(domain) + 1 - n]
  OBVIOUS
<1> HIDE DEF N, V, At
<1>3. step \in [(1..N) \X V -> V]
  <2>1. \A n \in 1..N, w \in V : Read(At(n), w) \in V
    BY <1>1, ReadTyped DEF V
  <2> QED
    BY <2>1
<1>4. PICK f \in [0..N -> V] :
         f[0] = s /\ \A n \in 1..N : f[n] = step[<<n, f[n - 1]>>]
  <2>1. N \in Nat /\ s \in V
    BY <1>1 DEF V
  <2> HIDE DEF step
  <2>2. Looped(N, V, s, step) # {}
    BY ONLY <1>3, <2>1, LoopExists
  <2> QED
    BY <2>2, Zenon DEF Looped
<1>5. f = Body(f)
  <2>1. ASSUME NEW n \in 1..N
        PROVE  f[n] = Read(domain[Len(domain) + 1 - n], f[n - 1])
    <3>1. <<n, f[n - 1]>> \in (1..N) \X V
      BY <1>1
    <3> QED
      BY <1>4, <1>11, <3>1
  <2>2. f = [n \in 0..N |-> f[n]]
    OBVIOUS
  <2> QED
    BY <1>1, <1>4, <2>1, <2>2
<1>6. g = Body(g)
  <2> HIDE DEF Body
  <2> QED
    BY <1>5
<1> HIDE DEF g
<1>7. /\ g[0] = s
      /\ \A n \in 1..N : g[n] = Read(domain[Len(domain) + 1 - n], g[n - 1])
      /\ g = [n \in 0..N |-> g[n]]
  <2>1. 0 \in 0..N
    BY <1>1
  <2> QED
    BY <1>1, <1>6, <2>1
<1> HIDE DEF Body
<1> DEFINE T == {n \in 0..N : g[n] \in V}
<1>8. \A n \in 0..N : n \in T
  <2>1. 0 \in T
    BY <1>1, <1>7 DEF V
  <2>2. ASSUME NEW n \in 1..N, n - 1 \in T
        PROVE  n \in T
    <3>1. g[n] = Read(At(n), g[n - 1]) /\ g[n - 1] \in V /\ At(n) \in Token /\ n \in 0..N
      BY <1>1, <1>7, <1>11, <2>2
    <3> QED
      BY <3>1, ReadTyped DEF V
  <2>3. N \in Nat
    BY <1>1
  <2> HIDE DEF T
  <2> QED
    BY ONLY <2>1, <2>2, <2>3, EveryPosition
<1>9. g \in [0..N -> V]
  BY <1>7, <1>8
<1> QED
  BY <1>2, <1>7, <1>9 DEF N, V, ReadLoop

LEMMA ReadingTyped ==
    ASSUME NEW domain \in Seq(Token), NEW s \in ReadState
    PROVE  ReadOnto(domain, s) \in ReadState
<1>1. PICK f : f \in ReadLoop(domain, s)
  BY ReadGoesOn
<1>2. /\ f \in [0..Len(domain) -> ReadState] /\ ReadOnto(domain, s) = f[Len(domain)]
      /\ Len(domain) \in 0..Len(domain)
  BY <1>1 DEF ReadLoop
<1> QED
  BY <1>2

\* What stands before is read after.
LEMMA ReadingOfConcatenation ==
    ASSUME NEW d \in Seq(Token), NEW e \in Seq(Token), NEW s \in ReadState
    PROVE  ReadOnto(d \o e, s) = ReadOnto(d, ReadOnto(e, s))
<1> DEFINE N == Len(d)
           M == Len(e)
           both == d \o e
           middle == ReadOnto(e, s)
<1>1. both \in Seq(Token) /\ Len(both) = N + M /\ N \in Nat /\ M \in Nat /\ middle \in ReadState
  BY ReadingTyped
<1>2. /\ \A n \in 1..M : both[Len(both) + 1 - n] = e[Len(e) + 1 - n]
      /\ \A n \in 1..N : both[Len(both) + 1 - (M + n)] = d[Len(d) + 1 - n]
  <2>1. \A i \in 1..(N + M) : both[i] = IF i <= N THEN d[i] ELSE e[i - N]
    BY ConcatProperties
  <2>2. \A n \in 1..M : /\ (N + M) + 1 - n \in 1..(N + M) /\ ~((N + M) + 1 - n <= N)
                        /\ ((N + M) + 1 - n) - N = M + 1 - n
    BY <1>1
  <2>3. \A n \in 1..N : /\ (N + M) + 1 - (M + n) \in 1..(N + M)
                        /\ (N + M) + 1 - (M + n) = N + 1 - n /\ N + 1 - n <= N
    BY <1>1
  <2> QED
    BY <1>1, <2>1, <2>2, <2>3
<1> HIDE DEF both, middle
<1>3. PICK f : f \in ReadLoop(both, s)
  BY <1>1, ReadGoesOn
<1>4. PICK g : g \in ReadLoop(e, s)
  BY ReadGoesOn
<1>5. PICK h : h \in ReadLoop(d, middle)
  BY <1>1, ReadGoesOn
<1>6. /\ f[0] = s /\ ReadOnto(both, s) = f[N + M]
      /\ \A n \in 1..(N + M) : f[n] = Read(both[Len(both) + 1 - n], f[n - 1])
  BY <1>1, <1>3 DEF ReadLoop
<1>7. /\ g[0] = s /\ middle = g[M]
      /\ \A n \in 1..M : g[n] = Read(e[Len(e) + 1 - n], g[n - 1])
  BY <1>4 DEF ReadLoop, middle
<1>8. /\ h[0] = middle /\ ReadOnto(d, middle) = h[N]
      /\ \A n \in 1..N : h[n] = Read(d[Len(d) + 1 - n], h[n - 1])
  BY <1>5 DEF ReadLoop
<1> HIDE DEF N, M
<1>9. f[M] = middle
  <2> DEFINE T == {n \in 0..M : f[n] = g[n]}
  <2>1. 0 \in T
    BY <1>1, <1>6, <1>7
  <2>2. ASSUME NEW n \in 1..M, n - 1 \in T
        PROVE  n \in T
    <3>1. n \in 1..(N + M) /\ n \in 0..M
      BY <1>1
    <3>2. f[n] = Read(both[Len(both) + 1 - n], f[n - 1])
      BY <1>6, <3>1
    <3>3. f[n - 1] = g[n - 1]
      BY <2>2
    <3> QED
      BY <1>2, <1>7, <3>1, <3>2, <3>3
  <2>3. M \in T
    <3>1. M \in 0..M
      BY <1>1
    <3> HIDE DEF T
    <3> QED
      BY <1>1, <2>1, <2>2, <3>1, EveryPosition
  <2> QED
    BY <1>7, <2>3
<1>10. f[M + N] = h[N]
  <2> DEFINE T == {n \in 0..N : f[M + n] = h[n]}
  <2>1. 0 \in T
    BY <1>1, <1>8, <1>9
  <2>2. ASSUME NEW n \in 1..N, n - 1 \in T
        PROVE  n \in T
    <3>1. /\ M + n \in 1..(N + M) /\ n \in 0..N /\ (M + n) - 1 = M + (n - 1)
      BY <1>1
    <3>2. f[M + n] = Read(both[Len(both) + 1 - (M + n)], f[M + (n - 1)])
      BY <1>6, <3>1
    <3>3. f[M + (n - 1)] = h[n - 1]
      BY <2>2
    <3> QED
      BY <1>2, <1>8, <3>1, <3>2, <3>3
  <2>3. N \in T
    <3>1. N \in 0..N
      BY <1>1
    <3> HIDE DEF T
    <3> QED
      BY <1>1, <2>1, <2>2, <3>1, EveryPosition
  <2> QED
    BY <2>3
<1>11. M + N = N + M
  BY <1>1
<1> QED
  BY <1>6, <1>8, <1>10, <1>11 DEF both, middle

LEMMA ReadingOfOne ==
    ASSUME NEW token \in Token, NEW s \in ReadState
    PROVE  ReadOnto(<<token>>, s) = Read(token, s)
<1>1. <<token>> \in Seq(Token) /\ Len(<<token>>) = 1 /\ <<token>>[1] = token
  OBVIOUS
<1>2. PICK f : f \in ReadLoop(<<token>>, s)
  BY <1>1, ReadGoesOn
<1>3. /\ f[0] = s /\ ReadOnto(<<token>>, s) = f[1]
      /\ \A n \in 1..1 : f[n] = Read(<<token>>[1 + 1 - n], f[n - 1])
  BY <1>1, <1>2 DEF ReadLoop
<1>4. 1 \in 1..1 /\ 1 + 1 - 1 = 1 /\ 1 - 1 = 0
  OBVIOUS
<1> QED
  BY <1>1, <1>3, <1>4

LEMMA ReadingOfNone ==
    ASSUME NEW s \in ReadState
    PROVE  ReadOnto(<<>>, s) = s
<1>1. <<>> \in Seq(Token) /\ Len(<<>>) = 0
  BY EmptySeq
<1>2. PICK f : f \in ReadLoop(<<>>, s)
  BY <1>1, ReadGoesOn
<1> QED
  BY <1>1, <1>2 DEF ReadLoop

\* In front of whatever conditions, the domain is read as those of stack.
Stands(domain, stack) ==
    \A b \in Seq(Condition) : ReadOnto(domain, Ready(b)) = Ready(stack \o b)

LEMMA TermStands ==
    ASSUME NEW term \in Term
    PROVE  Holding(term) \in Condition /\ Stands(<<term>>, <<Holding(term)>>)
<1>1. Holding(term) \in Condition
  BY DEF Holding, Condition
<1>2. ASSUME NEW b \in Seq(Condition)
      PROVE  ReadOnto(<<term>>, Ready(b)) = Ready(<<Holding(term)>> \o b)
  <2>1. ReadOnto(<<term>>, Ready(b)) = Read(term, Ready(b))
    BY Tokens, ReadyIs, ReadingOfOne
  <2>2. Read(term, Ready(b)) = [ok |-> Ready(b).ok, stack |-> <<Holding(term)>> \o Ready(b).stack]
    BY ReadyIs, ReadTerm
  <2>3. Ready(b).ok = TRUE /\ Ready(b).stack = b
    BY ReadyIs
  <2> QED
    BY <2>1, <2>2, <2>3 DEF Ready
<1> QED
  BY <1>1, <1>2 DEF Stands

LEMMA ConcatenationStands ==
    ASSUME NEW d \in Seq(Token), NEW e \in Seq(Token),
           NEW s \in Seq(Condition), NEW t \in Seq(Condition), Stands(d, s), Stands(e, t)
    PROVE  s \o t \in Seq(Condition) /\ Stands(d \o e, s \o t)
<1>1. ASSUME NEW b \in Seq(Condition)
      PROVE  ReadOnto(d \o e, Ready(b)) = Ready((s \o t) \o b)
  <2>1. ReadOnto(d \o e, Ready(b)) = ReadOnto(d, ReadOnto(e, Ready(b)))
    BY ReadyIs, ReadingOfConcatenation
  <2>2. ReadOnto(e, Ready(b)) = Ready(t \o b) /\ t \o b \in Seq(Condition)
    BY ConcatProperties DEF Stands
  <2>3. ReadOnto(d, Ready(t \o b)) = Ready(s \o (t \o b))
    BY <2>2 DEF Stands
  <2>4. (s \o t) \o b = s \o (t \o b)
    BY ConcatAssociative, SMTT(60)
  <2> QED
    BY <2>1, <2>2, <2>3, <2>4
<1>2. s \o t \in Seq(Condition)
  BY ConcatProperties
<1> QED
  BY <1>1, <1>2 DEF Stands

LEMMA RestOfConcatenation ==
    ASSUME NEW s \in Seq(Condition), NEW b \in Seq(Condition), NEW k \in 1..(Len(s) + 1)
    PROVE  /\ SubSeq(s, k, Len(s)) \in Seq(Condition)
           /\ Len(SubSeq(s, k, Len(s))) = Len(s) - k + 1
           /\ SubSeq(s \o b, k, Len(s \o b)) = SubSeq(s, k, Len(s)) \o b
<1> DEFINE p == s \o b
           rest == SubSeq(s, k, Len(s))
           q == rest \o b
           r == SubSeq(p, k, Len(p))
<1>1. /\ p \in Seq(Condition) /\ Len(p) = Len(s) + Len(b) /\ Len(s) \in Nat /\ Len(b) \in Nat
      /\ \A i \in 1..Len(p) : p[i] = IF i <= Len(s) THEN s[i] ELSE b[i - Len(s)]
  BY ConcatProperties
<1> HIDE DEF p
<1>2. /\ rest \in Seq(Condition) /\ Len(rest) = Len(s) - k + 1
      /\ \A i \in 1..(Len(s) - k + 1) : rest[i] = s[k + i - 1]
  BY <1>1
<1>3. /\ r \in Seq(Condition) /\ Len(r) = Len(p) - k + 1
      /\ \A i \in 1..(Len(p) - k + 1) : r[i] = p[k + i - 1]
  BY <1>1
<1> HIDE DEF rest, r
<1>4. /\ q \in Seq(Condition) /\ Len(q) = Len(rest) + Len(b)
      /\ \A i \in 1..Len(q) : q[i] = IF i <= Len(rest) THEN rest[i] ELSE b[i - Len(rest)]
  <2>1. rest \in Seq(Condition) /\ b \in Seq(Condition)
    BY <1>2
  <2>2. /\ q \in Seq(Condition) /\ Len(q) = Len(rest) + Len(b)
        /\ \A i \in 1..Len(rest) + Len(b) :
              q[i] = IF i <= Len(rest) THEN rest[i] ELSE b[i - Len(rest)]
    BY ONLY <2>1, ConcatProperties
  <2> HIDE DEF q
  <2> QED
    BY ONLY <2>2
<1> HIDE DEF q
<1>5. Len(r) = Len(q)
  BY <1>1, <1>2, <1>3, <1>4
<1>6. ASSUME NEW i \in 1..Len(r)
      PROVE  r[i] = q[i]
  <2>1. /\ i \in 1..(Len(p) - k + 1) /\ k + i - 1 \in 1..Len(p) /\ i \in 1..Len(q)
    BY <1>1, <1>3, <1>5
  <2>2. r[i] = IF k + i - 1 <= Len(s) THEN s[k + i - 1] ELSE b[(k + i - 1) - Len(s)]
    BY <1>1, <1>3, <2>1
  <2>3. CASE k + i - 1 <= Len(s)
    <3>1. i \in 1..(Len(s) - k + 1) /\ i <= Len(rest)
      BY <1>1, <1>2, <2>1, <2>3, SMTT(60)
    <3> QED
      BY <1>2, <1>4, <2>1, <2>2, <2>3, <3>1
  <2>4. CASE ~(k + i - 1 <= Len(s))
    <3>1. ~(i <= Len(rest)) /\ i - Len(rest) = (k + i - 1) - Len(s)
      BY <1>1, <1>2, <2>1, <2>4
    <3> QED
      BY <1>4, <2>1, <2>2, <2>4, <3>1
  <2> QED
    BY <2>3, <2>4
<1>7. r = q
  BY ONLY <1>3, <1>4, <1>5, <1>6, SeqEqual
<1> QED
  BY <1>2, <1>7 DEF p, rest, q, r

\* An operator takes the first conditions of what stands behind it.
LEMMA NotStands ==
    ASSUME NEW d \in Seq(Token), NEW s \in Seq(Condition), Stands(d, s), Len(s) >= 1
    PROVE  /\ <<OdooRecord \ s[1]>> \o Tail(s) \in Seq(Condition)
           /\ Stands(<<NotSign>> \o d, <<OdooRecord \ s[1]>> \o Tail(s))
<1> DEFINE c == OdooRecord \ s[1]
<1>1. /\ c \in Condition /\ Tail(s) \in Seq(Condition) /\ <<c>> \in Seq(Condition)
      /\ s # <<>> /\ Len(s) \in Nat /\ Tail(s) = SubSeq(s, 2, Len(s)) /\ 2 \in 1..(Len(s) + 1)
  BY HeadTailProperties, TailIsSubSeq DEF Condition
<1> HIDE DEF c
<1>2. <<c>> \o Tail(s) \in Seq(Condition)
  BY <1>1, ConcatProperties
<1>3. ASSUME NEW b \in Seq(Condition)
      PROVE  ReadOnto(<<NotSign>> \o d, Ready(b)) = Ready((<<c>> \o Tail(s)) \o b)
  <2> DEFINE p == s \o b
  <2>1. p \in Seq(Condition) /\ Len(p) >= 1 /\ p # <<>> /\ p[1] = s[1]
    <3>1. /\ p \in Seq(Condition) /\ Len(p) = Len(s) + Len(b) /\ Len(b) \in Nat
          /\ \A i \in 1..(Len(s) + Len(b)) : p[i] = IF i <= Len(s) THEN s[i] ELSE b[i - Len(s)]
      BY ConcatProperties
    <3> HIDE DEF p
    <3> QED
      BY <1>1, <3>1
  <2>2. Tail(p) = Tail(s) \o b
    <3>1. Tail(p) = SubSeq(p, 2, Len(p))
      BY <2>1, TailIsSubSeq
    <3>2. SubSeq(p, 2, Len(p)) = SubSeq(s, 2, Len(s)) \o b
      BY <1>1, RestOfConcatenation
    <3> QED
      BY <1>1, <3>1, <3>2
  <2>3. ReadOnto(d, Ready(b)) = Ready(p)
    BY DEF Stands
  <2> HIDE DEF p
  <2>4. ReadOnto(<<NotSign>> \o d, Ready(b)) = Read(NotSign, Ready(p))
    <3>1. <<NotSign>> \in Seq(Token)
      BY Tokens
    <3>2. ReadOnto(<<NotSign>> \o d, Ready(b)) = ReadOnto(<<NotSign>>, ReadOnto(d, Ready(b)))
      BY <3>1, ReadyIs, ReadingOfConcatenation
    <3> QED
      BY <2>1, <2>3, <3>2, Tokens, ReadyIs, ReadingOfOne
  <2>5. Read(NotSign, Ready(p)) = Ready(<<c>> \o Tail(p))
    <3>1. Ready(p) \in ReadState /\ Ready(p).ok = TRUE /\ Ready(p).stack = p
      BY <2>1, ReadyIs
    <3>2. Read(NotSign, Ready(p)) = [ok |-> TRUE /\ Len(p) >= 1,
                                 stack |-> IF Len(p) < 1 THEN <<>>
                                           ELSE <<OdooRecord \ p[1]>> \o Tail(p)]
      BY <3>1, ReadNot, Zenon
    <3>3. ~(Len(p) < 1) /\ (TRUE /\ Len(p) >= 1) = TRUE
      BY <2>1
    <3> QED
      BY <2>1, <3>2, <3>3, Zenon DEF Ready, c
  <2>6. <<c>> \o (Tail(s) \o b) = (<<c>> \o Tail(s)) \o b
    BY <1>1, ConcatAssociative
  <2> QED
    BY <2>2, <2>4, <2>5, <2>6
<1> QED
  BY <1>2, <1>3 DEF Stands, c

LEMMA OrStands ==
    ASSUME NEW d \in Seq(Token), NEW s \in Seq(Condition), Stands(d, s), Len(s) >= 2
    PROVE  /\ <<s[1] \cup s[2]>> \o SubSeq(s, 3, Len(s)) \in Seq(Condition)
           /\ Stands(<<OrSign>> \o d, <<s[1] \cup s[2]>> \o SubSeq(s, 3, Len(s)))
<1> DEFINE c == s[1] \cup s[2]
           rest == SubSeq(s, 3, Len(s))
<1>1. /\ c \in Condition /\ rest \in Seq(Condition) /\ <<c>> \in Seq(Condition)
      /\ Len(s) \in Nat /\ 3 \in 1..(Len(s) + 1)
  <2>1. s[1] \in Condition /\ s[2] \in Condition /\ Len(s) \in Nat
    OBVIOUS
  <2> QED
    BY <2>1, RestOfConcatenation DEF Condition
<1> HIDE DEF c, rest
<1>2. <<c>> \o rest \in Seq(Condition)
  BY <1>1, ConcatProperties
<1>3. ASSUME NEW b \in Seq(Condition)
      PROVE  ReadOnto(<<OrSign>> \o d, Ready(b)) = Ready((<<c>> \o rest) \o b)
  <2> DEFINE p == s \o b
  <2>1. p \in Seq(Condition) /\ Len(p) >= 2 /\ p[1] = s[1] /\ p[2] = s[2]
    <3>1. /\ p \in Seq(Condition) /\ Len(p) = Len(s) + Len(b) /\ Len(b) \in Nat
          /\ \A i \in 1..(Len(s) + Len(b)) : p[i] = IF i <= Len(s) THEN s[i] ELSE b[i - Len(s)]
      BY ConcatProperties
    <3> HIDE DEF p
    <3> QED
      BY <1>1, <3>1
  <2>2. SubSeq(p, 3, Len(p)) = rest \o b
    BY <1>1, RestOfConcatenation DEF rest
  <2>3. ReadOnto(d, Ready(b)) = Ready(p)
    BY DEF Stands
  <2> HIDE DEF p
  <2>4. ReadOnto(<<OrSign>> \o d, Ready(b)) = Read(OrSign, Ready(p))
    <3>1. <<OrSign>> \in Seq(Token)
      BY Tokens
    <3>2. ReadOnto(<<OrSign>> \o d, Ready(b)) = ReadOnto(<<OrSign>>, ReadOnto(d, Ready(b)))
      BY <3>1, ReadyIs, ReadingOfConcatenation
    <3> QED
      BY <2>1, <2>3, <3>2, Tokens, ReadyIs, ReadingOfOne
  <2>5. Read(OrSign, Ready(p)) = Ready(<<c>> \o SubSeq(p, 3, Len(p)))
    <3>1. Ready(p) \in ReadState /\ Ready(p).ok = TRUE /\ Ready(p).stack = p
      BY <2>1, ReadyIs
    <3>2. Read(OrSign, Ready(p)) = [ok |-> TRUE /\ Len(p) >= 2,
                                 stack |-> IF Len(p) < 2 THEN <<>>
                                           ELSE <<p[1] \cup p[2]>> \o SubSeq(p, 3, Len(p))]
      BY <3>1, ReadOr, Zenon
    <3>3. ~(Len(p) < 2) /\ (TRUE /\ Len(p) >= 2) = TRUE
      BY <2>1
    <3> QED
      BY <2>1, <3>2, <3>3, Zenon DEF Ready, c
  <2>6. <<c>> \o (rest \o b) = (<<c>> \o rest) \o b
    <3>1. <<c>> \in Seq(Condition) /\ rest \in Seq(Condition) /\ b \in Seq(Condition)
      BY <1>1
    <3> QED
      BY ONLY <3>1, ConcatAssociative, SMTT(60)
  <2> QED
    BY <2>2, <2>4, <2>5, <2>6
<1> QED
  BY <1>2, <1>3 DEF Stands, c, rest

\* The records of which all conditions hold.
Meeting(stack) == {r \in OdooRecord : \A i \in 1..Len(stack) : r \in stack[i]}

LEMMA StandingSelects ==
    ASSUME NEW d \in Seq(Token), NEW s \in Seq(Condition), Stands(d, s)
    PROVE  WellFormed(d) /\ Conditions(d) = Len(s) /\ Selects(d) = Meeting(s)
<1>1. <<>> \in Seq(Condition) /\ s \o <<>> = s /\ DOMAIN s = 1..Len(s)
  BY ConcatEmptySeq, EmptySeq
<1>2. Reading(d) = ReadOnto(d, Ready(<<>>))
  BY Zenon DEF Reading, Ready
<1>3. Reading(d) = Ready(s)
  BY <1>1, <1>2 DEF Stands
<1>4. Reading(d).ok = TRUE /\ Reading(d).stack = s
  BY <1>3, ReadyIs
<1> QED
  BY <1>1, <1>4 DEF WellFormed, Conditions, Selects, Meeting

LEMMA MeetingOfOne ==
    ASSUME NEW s \in Seq(Condition), Len(s) = 1
    PROVE  Meeting(s) = s[1] /\ s[1] \in Condition
<1>1. s[1] \in Condition /\ 1..1 = {1}
  OBVIOUS
<1> QED
  BY <1>1 DEF Meeting, Condition

LEMMA MeetingOfConcatenation ==
    ASSUME NEW s \in Seq(Condition), NEW t \in Seq(Condition)
    PROVE  Meeting(s \o t) = Meeting(s) \cap Meeting(t)
<1> DEFINE p == s \o t
<1>1. /\ Len(p) = Len(s) + Len(t) /\ Len(s) \in Nat /\ Len(t) \in Nat
      /\ \A i \in 1..(Len(s) + Len(t)) : p[i] = IF i <= Len(s) THEN s[i] ELSE t[i - Len(s)]
  BY ConcatProperties
<1> HIDE DEF p
<1>2. ASSUME NEW r, \A i \in 1..Len(p) : r \in p[i]
      PROVE  (\A i \in 1..Len(s) : r \in s[i]) /\ (\A i \in 1..Len(t) : r \in t[i])
  <2>1. ASSUME NEW i \in 1..Len(s)
        PROVE  r \in s[i]
    BY <1>1, <1>2
  <2>2. ASSUME NEW i \in 1..Len(t)
        PROVE  r \in t[i]
    <3>1. Len(s) + i \in 1..Len(p) /\ ~(Len(s) + i <= Len(s)) /\ (Len(s) + i) - Len(s) = i
      BY <1>1
    <3>2. p[Len(s) + i] = t[i]
      BY <1>1, <3>1
    <3> QED
      BY <1>2, <3>1, <3>2
  <2> QED
    BY <2>1, <2>2
<1>3. ASSUME NEW r, \A i \in 1..Len(s) : r \in s[i], \A i \in 1..Len(t) : r \in t[i],
             NEW i \in 1..Len(p)
      PROVE  r \in p[i]
  <2>1. i <= Len(s) => i \in 1..Len(s)
    BY <1>1
  <2>2. ~(i <= Len(s)) => i - Len(s) \in 1..Len(t)
    BY <1>1
  <2> QED
    BY <1>1, <1>3, <2>1, <2>2
<1> QED
  BY <1>2, <1>3, Zenon DEF Meeting, p

\* The conditions of terms side by side.
LEMMA TermsStand ==
    ASSUME NEW d \in Seq(Term)
    PROVE  \E s \in Seq(Condition) :
              Stands(d, s) /\ Len(s) = Len(d) /\ \A i \in 1..Len(d) : s[i] = Holding(d[i])
<1> DEFINE N == Len(d)
           Conds(n) == [i \in 1..n |-> Holding(d[i])]
           Upto(n) == SubSeq(d, 1, n)
           T == {n \in 0..N : Stands(Upto(n), Conds(n))}
<1>1. N \in Nat /\ \A i \in 1..N : d[i] \in Term /\ Holding(d[i]) \in Condition
  <2>1. \A i \in 1..N : d[i] \in Term
    OBVIOUS
  <2>2. \A term \in Term : Holding(term) \in Condition
    BY TermStands
  <2> QED
    BY <2>1, <2>2
<1>2. \A n \in 0..N : Conds(n) \in Seq(Condition) /\ Len(Conds(n)) = n
  BY <1>1
<1>3. \A n \in 0..N : Upto(n) \in Seq(Token)
  BY <1>1, Tokens
<1>4. 0 \in T
  <2>1. Upto(0) = <<>> /\ Conds(0) = <<>>
    BY SubSeqEmpty
  <2>2. \A b \in Seq(Condition) : <<>> \o b = b /\ Ready(b) \in ReadState
    BY ConcatEmptySeq, ReadyIs
  <2>3. Stands(<<>>, <<>>)
    BY <2>2, ReadingOfNone DEF Stands
  <2>4. 0 \in 0..N
    BY <1>1
  <2>5. Stands(Upto(0), Conds(0))
    <3> HIDE DEF Upto, Conds
    <3> QED
      BY <2>1, <2>3
  <2> QED
    BY <2>4, <2>5
<1>5. ASSUME NEW n \in 1..N, n - 1 \in T
      PROVE  n \in T
  <2>1. n \in 0..N /\ n - 1 \in 0..N /\ 1 \in 1..N /\ n \in 1..Len(d)
    BY <1>1
  <2>2. Upto(n) = Upto(n - 1) \o <<d[n]>>
    <3>1. 1 \in 1..Len(d) /\ n \in 1..Len(d)
      BY <2>1
    <3> QED
      BY <3>1, SubSeqRecursiveSecond
  <2>3. Conds(n) = Conds(n - 1) \o <<Holding(d[n])>>
    <3> DEFINE t == Conds(n - 1)
               u == <<Holding(d[n])>>
               v == Conds(n)
    <3>1. /\ t \in Seq(Condition) /\ Len(t) = n - 1 /\ u \in Seq(Condition) /\ Len(u) = 1
          /\ v \in Seq(Condition) /\ Len(v) = n
      BY <1>1, <1>2, <2>1
    <3>2. /\ \A i \in 1..(n - 1) : t[i] = v[i]
          /\ u[1] = v[n]
      BY <2>1
    <3> HIDE DEF t, u, v, Conds
    <3>3. /\ t \o u \in Seq(Condition) /\ Len(t \o u) = n
          /\ \A i \in 1..n : (t \o u)[i] = IF i <= n - 1 THEN t[i] ELSE u[i - (n - 1)]
      <4>1. /\ t \o u \in Seq(Condition) /\ Len(t \o u) = Len(t) + Len(u)
            /\ \A i \in 1..Len(t) + Len(u) :
                  (t \o u)[i] = IF i <= Len(t) THEN t[i] ELSE u[i - Len(t)]
        BY ONLY <3>1, ConcatProperties
      <4>2. Len(t) = n - 1 /\ Len(t) + Len(u) = n
        BY <3>1
      <4> DEFINE w == t \o u
      <4> HIDE DEF w
      <4> QED
        BY ONLY <4>1, <4>2 DEF w
    <3>4. ASSUME NEW i \in 1..n
          PROVE  (t \o u)[i] = v[i]
      <4>1. \/ i \in 1..(n - 1) /\ i <= n - 1
            \/ i = n /\ ~(i <= n - 1) /\ i - (n - 1) = 1
        BY <2>1
      <4> QED
        BY <3>2, <3>3, <4>1
    <3>5. t \o u = v
      <4> DEFINE w == t \o u
      <4>1. w \in Seq(Condition) /\ v \in Seq(Condition) /\ Len(w) = Len(v)
            /\ \A i \in 1..Len(w) : w[i] = v[i]
        BY <3>1, <3>3, <3>4
      <4> HIDE DEF w
      <4>2. w = v
        BY ONLY <4>1, SeqEqual
      <4> QED
        BY <4>2 DEF w
    <3> QED
      BY <3>5 DEF t, u, v, Conds
  <2>4. Stands(<<d[n]>>, <<Holding(d[n])>>) /\ <<d[n]>> \in Seq(Token)
        /\ <<Holding(d[n])>> \in Seq(Condition)
    BY <1>1, Tokens, TermStands
  <2>5. Stands(Upto(n - 1), Conds(n - 1))
    BY <1>5
  <2>6. Stands(Upto(n - 1) \o <<d[n]>>, Conds(n - 1) \o <<Holding(d[n])>>)
    <3>1. Upto(n - 1) \in Seq(Token) /\ Conds(n - 1) \in Seq(Condition)
      BY <1>2, <1>3, <2>1
    <3> HIDE DEF Upto, Conds
    <3> QED
      BY <2>4, <2>5, <3>1, ConcatenationStands
  <2> QED
    BY <2>1, <2>2, <2>3, <2>6
<1>6. N \in T
  <2>1. N \in Nat /\ N \in 0..N
    BY <1>1
  <2> HIDE DEF T, N
  <2> QED
    BY ONLY <2>1, <1>4, <1>5, EveryPosition
<1>7. Upto(N) = d
  BY SubSeqFull
<1>8. N \in 0..N
  BY <1>1
<1>9. Stands(d, Conds(N)) /\ Conds(N) \in Seq(Condition) /\ Len(Conds(N)) = N
      /\ \A i \in 1..N : Conds(N)[i] = Holding(d[i])
  BY <1>2, <1>6, <1>7, <1>8
<1> HIDE DEF Conds
<1> QED
  BY <1>9

\* Odoo reads the domain, unless two Q objects were joined with |, as conditions
\* (at least so many), and they mean what e does if | and ~ were applied to
\* single conditions.
Understood(e, least) ==
    /\ e \in Built
    /\ ~e.infix => \E s \in Seq(Condition) :
                      /\ Stands(e.domain, s) /\ Len(s) >= least
                      /\ e.exact => Meeting(s) = e.means

DomainInv ==
    /\ \A e \in built : Understood(e, 1)
    /\ Understood(query, 0)
    /\ filters \in Nat

LEMMA UnderstoodMeans ==
    ASSUME NEW least \in Nat, NEW e, Understood(e, least)
    PROVE  ~e.infix => /\ WellFormed(e.domain)
                       /\ e.exact => Selects(e.domain) = e.means
<1>1. e.domain \in Seq(Token)
  BY DEF Understood, Built
<1>2. ASSUME ~e.infix
      PROVE  WellFormed(e.domain) /\ (e.exact => Selects(e.domain) = e.means)
  <2>1. PICK s \in Seq(Condition) : Stands(e.domain, s) /\ (e.exact => Meeting(s) = e.means)
    BY <1>2, Zenon DEF Understood
  <2>2. WellFormed(e.domain) /\ Selects(e.domain) = Meeting(s)
    BY <1>1, <2>1, StandingSelects
  <2> QED
    BY <2>1, <2>2, Zenon
<1> QED
  BY <1>2, Zenon

LEMMA BuiltIs ==
    ASSUME NEW kind \in {"expression", "q"}, NEW d \in Seq(Token), NEW m \in SUBSET OdooRecord,
           NEW x \in BOOLEAN, NEW i \in BOOLEAN
    PROVE  LET e == [kind |-> kind, domain |-> d, means |-> m, exact |-> x, infix |-> i]
           IN  e \in Built /\ e.domain = d /\ e.means = m /\ e.exact = x /\ e.infix = i
BY DEF Built

LEMMA TypesOf ==
    ASSUME NEW e \in Built
    PROVE  /\ e.kind \in {"expression", "q"} /\ e.domain \in Seq(Token)
           /\ e.means \in SUBSET OdooRecord /\ e.exact \in BOOLEAN /\ e.infix \in BOOLEAN
BY DEF Built

\* e has the conditions s.
Has(e, s) == Stands(e.domain, s) /\ (e.exact => Meeting(s) = e.means)

LEMMA HasSome ==
    ASSUME NEW e, NEW least, Understood(e, least), ~e.infix
    PROVE  \E s \in Seq(Condition) : Has(e, s) /\ Len(s) >= least
BY Zenon DEF Understood, Has

LEMMA OneConditionIs ==
    ASSUME NEW e \in Built, NEW s \in Seq(Condition), Has(e, s), OneCondition(e)
    PROVE  Len(s) = 1 /\ e.means = s[1] /\ e.exact
<1>1. e.domain \in Seq(Token) /\ Stands(e.domain, s)
  BY TypesOf, Zenon DEF Has
<1>2. Conditions(e.domain) = Len(s)
  BY <1>1, StandingSelects
<1>3. Len(s) = 1 /\ e.exact
  BY <1>2, Zenon DEF OneCondition
<1>4. Meeting(s) = e.means
  BY <1>3, Zenon DEF Has
<1> QED
  BY <1>3, <1>4, MeetingOfOne

\* Two domains side by side: And, and the filters of a QuerySet.
LEMMA SideBySide ==
    ASSUME NEW e, NEW f, NEW least \in Nat, Understood(e, least), Understood(f, 1),
           NEW kind \in {"expression", "q"}
    PROVE  Understood([kind |-> kind, domain |-> e.domain \o f.domain,
                       means |-> e.means \cap f.means, exact |-> e.exact /\ f.exact,
                       infix |-> e.infix \/ f.infix], least)
<1>1. e \in Built /\ f \in Built
  BY Zenon DEF Understood
<1>2. /\ e.domain \in Seq(Token) /\ e.means \in SUBSET OdooRecord
      /\ f.domain \in Seq(Token) /\ f.means \in SUBSET OdooRecord
  BY <1>1, TypesOf
<1> DEFINE x == e.exact /\ f.exact
           i == e.infix \/ f.infix
           d == e.domain \o f.domain
           m == e.means \cap f.means
           r == [kind |-> kind, domain |-> d, means |-> m, exact |-> x, infix |-> i]
<1>3. d \in Seq(Token) /\ m \in SUBSET OdooRecord
  BY <1>2, ConcatProperties
<1>4. x \in BOOLEAN /\ i \in BOOLEAN
  BY <1>1, TypesOf, Zenon
<1>5. ASSUME ~i
      PROVE  \E s \in Seq(Condition) : Stands(d, s) /\ Len(s) >= least /\ (x => Meeting(s) = m)
  <2>1. PICK s \in Seq(Condition) : Has(e, s) /\ Len(s) >= least
    BY <1>5, HasSome, Zenon
  <2>2. PICK t \in Seq(Condition) : Has(f, t) /\ Len(t) >= 1
    BY <1>5, HasSome, Zenon
  <2>3. s \o t \in Seq(Condition) /\ Stands(d, s \o t)
    <3>1. Stands(e.domain, s) /\ Stands(f.domain, t)
      BY <2>1, <2>2, Zenon DEF Has
    <3> QED
      BY <1>2, <3>1, ConcatenationStands
  <2>4. Len(s \o t) >= least
    <3>1. Len(s \o t) = Len(s) + Len(t) /\ Len(s) \in Nat /\ Len(t) \in Nat
      BY ConcatProperties
    <3> QED
      BY <2>1, <3>1
  <2>5. x => Meeting(s \o t) = m
    <3>1. ASSUME x
          PROVE  Meeting(s) = e.means /\ Meeting(t) = f.means
      BY <2>1, <2>2, <3>1, Zenon DEF Has
    <3>2. Meeting(s \o t) = Meeting(s) \cap Meeting(t)
      BY MeetingOfConcatenation
    <3> HIDE DEF x
    <3> QED
      BY <3>1, <3>2
  <2> QED
    BY <2>3, <2>4, <2>5, Zenon
<1> HIDE DEF x, i, d, m
<1>6. r \in Built /\ r.domain = d /\ r.means = m /\ r.exact = x /\ r.infix = i
  <2>1. kind \in {"expression", "q"}
    OBVIOUS
  <2> QED
    BY ONLY <1>3, <1>4, <2>1, BuiltIs
<1> HIDE DEF r
<1>7. Understood(r, least)
  BY <1>4, <1>5, <1>6, Zenon DEF Understood
<1> QED
  BY <1>7, Zenon DEF r, d, m, x, i

LEMMA ComparisonUnderstood ==
    ASSUME NEW k \in Keyword, ~Discarded(k)
    PROVE  Understood(Comparison(k), 1)
<1> DEFINE term == ParsedLookup(k)
           s == <<Holding(term)>>
           m == Wanted(k)
           r == [kind |-> "expression", domain |-> <<term>>, means |-> m,
                 exact |-> TRUE, infix |-> FALSE]
<1>1. Comparison(k) = r
  BY Zenon DEF Comparison
<1>2. term \in Term /\ Holding(term) = m
  BY LookupHolds, KeywordIs
<1> HIDE DEF term
<1>3. m \in SUBSET OdooRecord /\ <<term>> \in Seq(Token)
  BY <1>2, Tokens DEF Wanted
<1>4. s \in Seq(Condition) /\ Stands(<<term>>, s) /\ Len(s) = 1 /\ s[1] = m
  BY <1>2, TermStands
<1>5. Meeting(s) = m
  BY <1>4, MeetingOfOne
<1> HIDE DEF m, s
<1>6. r \in Built /\ r.domain = <<term>> /\ r.means = m /\ r.exact = TRUE /\ r.infix = FALSE
  BY <1>3, BuiltIs
<1> HIDE DEF r
<1>7. Len(s) >= 1
  BY <1>4
<1> QED
  BY <1>1, <1>4, <1>5, <1>6, <1>7, Zenon DEF Understood

LEMMA KeywordsInSomeOrder ==
    ASSUME NEW keywords \in SomeKeywords
    PROVE  /\ SetToSeq(keywords) \in Seq(Keyword) /\ Len(SetToSeq(keywords)) >= 1
           /\ \A k : k \in keywords <=>
                 \E i \in 1..Len(SetToSeq(keywords)) : SetToSeq(keywords)[i] = k
<1> DEFINE n == Cardinality(keywords)
           d == SetToSeq(keywords)
<1>1. keywords \subseteq Keyword /\ keywords # {} /\ IsFiniteSet(keywords)
  BY DomainAssumption DEF SomeKeywords
<1>2. n \in Nat /\ n # 0
  BY <1>1, FS_CardinalityType, FS_EmptySet
<1>3. PICK f : f \in Bijection(1..n, keywords)
  BY <1>1, FS_CardinalityType DEF ExistsBijection
<1>4. f \in [1..n -> keywords] /\ IsInjective(f)
  BY <1>3 DEF Bijection, Injection
<1>5. d \in [1..n -> keywords] /\ IsInjective(d)
  BY <1>4, Zenon DEF SetToSeq
<1> HIDE DEF n, d
<1>6. d \in Injection(1..n, keywords)
  BY <1>5 DEF Injection
<1>7. IsFiniteSet(1..n) /\ Cardinality(1..n) = n
  BY <1>2, FS_Interval
<1>8. d \in Surjection(1..n, keywords)
  BY <1>1, <1>6, <1>7, FS_Injection DEF n
<1>9. \A k \in keywords : \E i \in 1..n : d[i] = k
  BY <1>8 DEF Surjection
<1>10. d \in Seq(Keyword) /\ Len(d) = n
  <2>1. d \in [1..n -> Keyword]
    BY <1>1, <1>5
  <2> QED
    BY <1>2, <2>1
<1>11. \A i \in 1..n : d[i] \in keywords
  BY <1>5
<1> QED
  BY <1>2, <1>9, <1>10, <1>11 DEF d

LEMMA KeywordsUnderstood ==
    ASSUME NEW keywords \in SomeKeywords
    PROVE  Understood(Keywords(keywords), 1)
<1> DEFINE listed == SetToSeq(keywords)
           d == [i \in 1..Len(listed) |-> ParsedLookup(listed[i])]
           m == {r \in OdooRecord : \A k \in keywords : r \in Wanted(k)}
           x == \A k \in keywords : ~Discarded(k)
           r == [kind |-> "q", domain |-> d, means |-> m, exact |-> x, infix |-> FALSE]
<1>1. Keywords(keywords) = r
  BY DEF Keywords
<1>2. /\ listed \in Seq(Keyword) /\ Len(listed) >= 1
      /\ \A k : k \in keywords <=> \E i \in 1..Len(listed) : listed[i] = k
  BY KeywordsInSomeOrder
<1>3. m \in SUBSET OdooRecord /\ x \in BOOLEAN
  OBVIOUS
<1> HIDE DEF listed
<1>4. \A i \in 1..Len(listed) : listed[i] \in Keyword /\ Len(listed) \in Nat
  BY <1>2
<1>5. d \in Seq(Term) /\ Len(d) = Len(listed) /\ \A i \in 1..Len(listed) : d[i] = ParsedLookup(listed[i])
  <2>1. Len(listed) \in Nat
    BY <1>2
  <2>2. \A i \in 1..Len(listed) : ParsedLookup(listed[i]) \in Term
    BY <1>4, LookupHolds, Zenon
  <2>3. d \in [1..Len(listed) -> Term]
    BY <2>2
  <2> QED
    BY <2>1, <2>3
<1> HIDE DEF d
<1>6. d \in Seq(Token)
  BY <1>5, Tokens
<1>7. PICK s \in Seq(Condition) :
         Stands(d, s) /\ Len(s) = Len(d) /\ \A i \in 1..Len(d) : s[i] = Holding(d[i])
  BY <1>5, TermsStand
<1>8. ASSUME x
      PROVE  Meeting(s) = m
  <2>1. ASSUME NEW i \in 1..Len(listed)
        PROVE  s[i] = Wanted(listed[i])
    <3>1. listed[i] \in Keyword /\ listed[i] \in keywords
      BY <1>2, <1>4
    <3>2. Given(listed[i]) = listed[i]
      BY <1>8, <3>1, KeywordIs
    <3>3. s[i] = Holding(ParsedLookup(listed[i]))
      BY <1>5, <1>7
    <3>4. Holding(ParsedLookup(listed[i])) = Wanted(Given(listed[i]))
      BY <3>1, LookupHolds
    <3> QED
      BY <3>2, <3>3, <3>4
  <2>2. ASSUME NEW c \in OdooRecord
        PROVE  (\A i \in 1..Len(s) : c \in s[i]) <=> \A k \in keywords : c \in Wanted(k)
    <3>1. (\A i \in 1..Len(s) : c \in s[i]) <=> \A i \in 1..Len(listed) : c \in Wanted(listed[i])
      BY <1>5, <1>7, <2>1
    <3> QED
      BY <1>2, <3>1, Zenon
  <2> QED
    BY <2>2 DEF Meeting
<1> HIDE DEF m, x
<1>9. r \in Built /\ r.domain = d /\ r.means = m /\ r.exact = x /\ r.infix = FALSE
  BY <1>3, <1>6, BuiltIs
<1> HIDE DEF r
<1>10. Len(s) >= 1
  BY <1>2, <1>5, <1>7
<1> QED
  BY <1>1, <1>7, <1>8, <1>9, <1>10, Zenon DEF Understood

LEMMA NotUnderstood ==
    ASSUME NEW e, Understood(e, 1)
    PROVE  Understood(Not(e), 1)
<1> DEFINE d == <<NotSign>> \o e.domain
           m == OdooRecord \ e.means
           x == OneCondition(e)
           i == e.infix
           r == [kind |-> e.kind, domain |-> d, means |-> m, exact |-> x, infix |-> i]
<1>1. Not(e) = r
  BY Zenon DEF Not
<1>2. e \in Built
  BY Zenon DEF Understood
<1>3. /\ e.kind \in {"expression", "q"} /\ e.domain \in Seq(Token)
      /\ e.means \in SUBSET OdooRecord /\ i \in BOOLEAN
  BY <1>2, TypesOf
<1>4. d \in Seq(Token) /\ m \in SUBSET OdooRecord
  BY <1>3, Tokens, ConcatProperties
<1>5. x \in BOOLEAN
  BY <1>2, TypesOf, Zenon DEF OneCondition
<1>6. ASSUME ~i
      PROVE  \E s \in Seq(Condition) : Stands(d, s) /\ Len(s) >= 1 /\ (x => Meeting(s) = m)
  <2>1. PICK s \in Seq(Condition) : Has(e, s) /\ Len(s) >= 1
    BY <1>6, HasSome, Zenon
  <2> DEFINE c == OdooRecord \ s[1]
             t == <<c>> \o Tail(s)
  <2>2. t \in Seq(Condition) /\ Stands(d, t)
    <3>1. Stands(e.domain, s)
      BY <2>1, Zenon DEF Has
    <3> QED
      BY <1>3, <2>1, <3>1, NotStands
  <2>3. Tail(s) \in Seq(Condition) /\ Len(Tail(s)) = Len(s) - 1 /\ Len(s) \in Nat
        /\ <<c>> \in Seq(Condition)
    BY <2>1 DEF Condition
  <2>4. Len(t) = Len(s) /\ t[1] = c
    <3> HIDE DEF c
    <3>1. /\ Len(<<c>> \o Tail(s)) = Len(<<c>>) + Len(Tail(s))
          /\ \A k \in 1..Len(<<c>>) + Len(Tail(s)) :
                (<<c>> \o Tail(s))[k] = IF k <= Len(<<c>>) THEN <<c>>[k] ELSE Tail(s)[k - Len(<<c>>)]
      BY ONLY <2>3, ConcatProperties
    <3>2. Len(<<c>>) = 1 /\ <<c>>[1] = c
      OBVIOUS
    <3>3. 1 \in 1..Len(<<c>>) + Len(Tail(s))
      BY <2>1, <2>3, <3>2
    <3>4. (<<c>> \o Tail(s))[1] = c
      BY <3>1, <3>2, <3>3
    <3>5. Len(<<c>> \o Tail(s)) = Len(s)
      BY <2>3, <3>1, <3>2
    <3> QED
      BY <3>4, <3>5
  <2> HIDE DEF t
  <2>5. ASSUME x
        PROVE  Meeting(t) = m
    <3>1. Len(s) = 1 /\ e.means = s[1]
      BY <1>2, <2>1, <2>5, OneConditionIs
    <3>2. Meeting(t) = t[1]
      BY <2>2, <2>4, <3>1, MeetingOfOne
    <3> QED
      BY <2>4, <3>1, <3>2
  <2>6. Len(t) >= 1
    BY <2>1, <2>4
  <2> QED
    BY <2>2, <2>5, <2>6, Zenon
<1> HIDE DEF x, d, m, i
<1>7. r \in Built /\ r.domain = d /\ r.means = m /\ r.exact = x /\ r.infix = i
  BY <1>3, <1>4, <1>5, BuiltIs
<1> HIDE DEF r
<1> QED
  BY <1>1, <1>5, <1>6, <1>7, Zenon DEF Understood

LEMMA OrUnderstood ==
    ASSUME NEW e, NEW f, Understood(e, 1), Understood(f, 1)
    PROVE  Understood(OrExpression(e, f), 1)
<1> DEFINE b == e.domain \o f.domain
           d == <<OrSign>> \o e.domain \o f.domain
           m == e.means \cup f.means
           x == OneCondition(e) /\ OneCondition(f)
           i == e.infix \/ f.infix
           r == [kind |-> "expression", domain |-> d, means |-> m, exact |-> x, infix |-> i]
<1>1. OrExpression(e, f) = r
  BY Zenon DEF OrExpression
<1>2. e \in Built /\ f \in Built
  BY Zenon DEF Understood
<1>3. /\ e.domain \in Seq(Token) /\ e.means \in SUBSET OdooRecord
      /\ f.domain \in Seq(Token) /\ f.means \in SUBSET OdooRecord
  BY <1>2, TypesOf
<1>4. /\ <<OrSign>> \in Seq(Token) /\ b \in Seq(Token) /\ d \in Seq(Token) /\ d = <<OrSign>> \o b
      /\ m \in SUBSET OdooRecord
  <2>1. <<OrSign>> \in Seq(Token)
    BY Tokens
  <2>2. d = <<OrSign>> \o b
    <3> DEFINE u == e.domain
               v == f.domain
               o == <<OrSign>>
    <3>1. o \in Seq(Token) /\ u \in Seq(Token) /\ v \in Seq(Token)
      BY <1>3, <2>1
    <3> HIDE DEF o, u, v
    <3>2. o \o u \o v = o \o (u \o v)
      BY ONLY <3>1, ConcatAssociative
    <3> QED
      BY <3>2, Zenon DEF o, u, v
  <2>3. b \in Seq(Token)
    BY <1>3, ConcatProperties
  <2>4. <<OrSign>> \o b \in Seq(Token)
    BY <2>1, <2>3, ConcatProperties
  <2>5. m \in SUBSET OdooRecord
    BY <1>3
  <2> QED
    BY <2>1, <2>2, <2>3, <2>4, <2>5
<1>5. x \in BOOLEAN /\ i \in BOOLEAN
  BY <1>2, TypesOf, Zenon DEF OneCondition
<1>6. ASSUME ~i
      PROVE  \E s \in Seq(Condition) : Stands(d, s) /\ Len(s) >= 1 /\ (x => Meeting(s) = m)
  <2>1. PICK s \in Seq(Condition) : Has(e, s) /\ Len(s) >= 1
    BY <1>6, HasSome, Zenon
  <2>2. PICK t \in Seq(Condition) : Has(f, t) /\ Len(t) >= 1
    BY <1>6, HasSome, Zenon
  <2> DEFINE p == s \o t
             c == p[1] \cup p[2]
             rest == SubSeq(p, 3, Len(p))
             q == <<c>> \o rest
  <2>3. p \in Seq(Condition) /\ Stands(b, p)
    <3>1. Stands(e.domain, s) /\ Stands(f.domain, t)
      BY <2>1, <2>2, Zenon DEF Has
    <3> QED
      BY <1>3, <3>1, ConcatenationStands
  <2>4. /\ Len(p) = Len(s) + Len(t) /\ Len(s) \in Nat /\ Len(t) \in Nat
        /\ \A k \in 1..(Len(s) + Len(t)) : p[k] = IF k <= Len(s) THEN s[k] ELSE t[k - Len(s)]
    BY ConcatProperties
  <2> HIDE DEF p
  <2>5. Len(p) >= 2
    BY <2>1, <2>2, <2>4
  <2>6. q \in Seq(Condition) /\ Stands(d, q)
    BY <1>4, <2>3, <2>5, OrStands
  <2>7. /\ rest \in Seq(Condition) /\ Len(rest) = Len(p) - 2 /\ <<c>> \in Seq(Condition)
        /\ Len(<<c>>) = 1 /\ <<c>>[1] = c
    <3>1. c \in Condition
      BY <2>3, <2>5 DEF Condition
    <3> HIDE DEF c
    <3>2. <<c>> \in Seq(Condition) /\ Len(<<c>>) = 1 /\ <<c>>[1] = c
      BY <3>1
    <3>3. 3 \in 1..(Len(p) + 1) /\ Len(p) \in Nat
      BY <2>3, <2>5
    <3>4. rest \in Seq(Condition)
      BY <2>3, <3>3, RestOfConcatenation
    <3>5. Len(rest) = Len(p) - 2
      <4>1. Len(rest) = Len(p) - 3 + 1
        BY <2>3, <3>3, RestOfConcatenation
      <4> HIDE DEF rest
      <4> QED
        BY <3>3, <4>1
    <3> QED
      BY <3>2, <3>4, <3>5
  <2>8. Len(q) = 1 + (Len(p) - 2) /\ q[1] = c
    <3> HIDE DEF c, rest
    <3>1. /\ Len(<<c>> \o rest) = Len(<<c>>) + Len(rest)
          /\ \A k \in 1..Len(<<c>>) + Len(rest) :
                (<<c>> \o rest)[k] = IF k <= Len(<<c>>) THEN <<c>>[k] ELSE rest[k - Len(<<c>>)]
      BY ONLY <2>7, ConcatProperties
    <3>2. 1 \in 1..Len(<<c>>) + Len(rest)
      BY <2>4, <2>5, <2>7
    <3>3. (<<c>> \o rest)[1] = c
      BY <2>7, <3>1, <3>2
    <3> QED
      BY <2>7, <3>1, <3>3
  <2> HIDE DEF q, rest
  <2>9. ASSUME x
        PROVE  Meeting(q) = m
    <3>1. Len(s) = 1 /\ e.means = s[1] /\ Len(t) = 1 /\ f.means = t[1]
      BY <1>2, <2>1, <2>2, <2>9, OneConditionIs
    <3>2. p[1] = s[1] /\ p[2] = t[1] /\ Len(p) = 2
      BY <2>4, <3>1
    <3>3. Meeting(q) = q[1]
      BY <2>6, <2>8, <3>2, MeetingOfOne
    <3> QED
      BY <2>8, <3>1, <3>2, <3>3
  <2>10. Len(q) >= 1
    BY <2>4, <2>5, <2>8
  <2> QED
    BY <2>6, <2>9, <2>10, Zenon
<1> HIDE DEF x, d, m, i
<1>7. r \in Built /\ r.domain = d /\ r.means = m /\ r.exact = x /\ r.infix = i
  BY <1>4, <1>5, BuiltIs
<1> HIDE DEF r
<1> QED
  BY <1>1, <1>5, <1>6, <1>7, Zenon DEF Understood

LEMMA OrOfQUnderstood ==
    ASSUME NEW e, NEW f, Understood(e, 1), Understood(f, 1)
    PROVE  Understood(OrOfQ(e, f), 1)
<1> DEFINE d == e.domain \o <<OrSign>> \o f.domain
           m == e.means \cup f.means
           x == OneCondition(e) /\ OneCondition(f)
           r == [kind |-> "q", domain |-> d, means |-> m, exact |-> x, infix |-> TRUE]
<1>1. OrOfQ(e, f) = r
  BY Zenon DEF OrOfQ
<1>2. e \in Built /\ f \in Built
  BY Zenon DEF Understood
<1>3. d \in Seq(Token) /\ m \in SUBSET OdooRecord
  <2>1. /\ e.domain \in Seq(Token) /\ f.domain \in Seq(Token) /\ <<OrSign>> \in Seq(Token)
        /\ e.means \in SUBSET OdooRecord /\ f.means \in SUBSET OdooRecord
    BY <1>2, Tokens, TypesOf
  <2>2. e.domain \o <<OrSign>> \in Seq(Token)
    BY <2>1, ConcatProperties
  <2> QED
    BY <2>1, <2>2, ConcatProperties
<1>4. x \in BOOLEAN
  BY <1>2, TypesOf, Zenon DEF OneCondition
<1> HIDE DEF d, m, x
<1>5. r \in Built /\ r.infix = TRUE
  BY <1>3, <1>4, BuiltIs
<1> HIDE DEF r
<1> QED
  BY <1>1, <1>5, Zenon DEF Understood

LEMMA AndUnderstood ==
    ASSUME NEW e, NEW f, NEW least \in Nat, Understood(e, least), Understood(f, 1)
    PROVE  Understood(And(e, f), least)
<1>1. e.kind \in {"expression", "q"}
  <2>1. e \in Built
    BY Zenon DEF Understood
  <2> QED
    BY <2>1, TypesOf
<1> QED
  BY <1>1, SideBySide, Zenon DEF And

LEMMA UnfilteredUnderstood == Understood(Unfiltered, 0)
<1> DEFINE e == Unfiltered
           s == <<>>
<1>1. /\ e.domain = <<>> /\ e.means = OdooRecord /\ e.exact = TRUE /\ e.infix = FALSE
      /\ e \in Built
  <2>1. <<>> \in Seq(Token)
    BY EmptySeq
  <2>2. OdooRecord \in SUBSET OdooRecord
    OBVIOUS
  <2> DEFINE d == <<>>
             m == OdooRecord
  <2> HIDE DEF d, m
  <2>3. e = [kind |-> "q", domain |-> d, means |-> m, exact |-> TRUE, infix |-> FALSE]
    BY Zenon DEF Unfiltered, d, m
  <2>4. d \in Seq(Token) /\ m \in SUBSET OdooRecord
    BY <2>1, <2>2 DEF d, m
  <2> HIDE DEF e
  <2>5. e \in Built /\ e.domain = d /\ e.means = m /\ e.exact = TRUE /\ e.infix = FALSE
    BY <2>3, <2>4, BuiltIs
  <2> QED
    BY <2>5 DEF d, m
<1>2. s \in Seq(Condition) /\ Len(s) >= 0
  BY EmptySeq
<1>3. Stands(<<>>, s)
  <2>1. \A b \in Seq(Condition) : <<>> \o b = b /\ Ready(b) \in ReadState
    BY ConcatEmptySeq, ReadyIs
  <2> QED
    BY <2>1, ReadingOfNone DEF Stands
<1>4. Meeting(s) = OdooRecord
  BY DEF Meeting
<1> HIDE DEF e, s
<1>5. Understood(e, 0)
  BY <1>1, <1>2, <1>3, <1>4, Zenon DEF Understood
<1> QED
  BY <1>5 DEF e

LEMMA DomainInvInit == DomainInit => DomainInv
<1> SUFFICES ASSUME DomainInit
             PROVE  DomainInv
  OBVIOUS
<1>1. \A e \in built : Understood(e, 1)
  <2>1. \A k \in Methods : k \in Keyword /\ ~Discarded(k)
    BY DomainAssumption DEF Methods
  <2>2. \A k \in Methods : Understood(Comparison(k), 1)
    BY <2>1, ComparisonUnderstood
  <2> QED
    BY <2>2 DEF DomainInit
<1> QED
  BY <1>1, UnfilteredUnderstood DEF DomainInit, DomainInv

LEMMA MadeBuilt ==
    ASSUME DomainInv, NEW e, Understood(e, 1), Makes(e)
    PROVE  DomainInv'
<1>1. built' = built \cup {e} /\ UNCHANGED <<query, filters>>
  BY DEF Makes
<1>2. Understood(query', 0)
  <2>1. query' = query
    BY <1>1
  <2> QED
    BY <2>1 DEF DomainInv
<1>3. \A f \in built' : Understood(f, 1)
  BY <1>1 DEF DomainInv
<1> QED
  BY <1>1, <1>2, <1>3, Zenon DEF DomainInv

LEMMA Filtering ==
    ASSUME DomainInv, NEW e, Understood(e, 1), Filter(e)
    PROVE  DomainInv'
<1>1. built' = built /\ query' = Filtered(e) /\ filters' = filters + 1
  BY DEF Filter
<1>2. Understood(query', 0)
  BY <1>1, AndUnderstood DEF DomainInv, Filtered
<1>3. filters' \in Nat
  BY <1>1 DEF DomainInv
<1> QED
  BY <1>1, <1>2, <1>3, Zenon DEF DomainInv

LEMMA DomainInvStep == DomainInv /\ [DomainNext]_domainVars => DomainInv'
<1> SUFFICES ASSUME DomainInv, [DomainNext]_domainVars
             PROVE  DomainInv'
  OBVIOUS
<1>1. \A e \in built : Understood(e, 1)
  BY Zenon DEF DomainInv
<1>2. CASE Build
  <2>1. ASSUME NEW keywords \in SomeKeywords, Makes(Keywords(keywords))
        PROVE  DomainInv'
    BY <2>1, KeywordsUnderstood, MadeBuilt
  <2>2. ASSUME NEW e \in built, NEW f \in built,
               Makes(And(e, f)) \/ Makes(OrExpression(e, f)) \/ Makes(OrOfQ(e, f))
        PROVE  DomainInv'
    BY <1>1, <2>2, AndUnderstood, OrUnderstood, OrOfQUnderstood, MadeBuilt
  <2>3. ASSUME NEW e \in built, Makes(Not(e))
        PROVE  DomainInv'
    BY <1>1, <2>3, NotUnderstood, MadeBuilt
  <2> QED
    BY <1>2, <2>1, <2>2, <2>3, Zenon DEF Build
<1>3. ASSUME NEW e \in built, Filter(e)
      PROVE  DomainInv'
  BY <1>1, <1>3, Filtering
<1>4. ASSUME NEW keywords \in SomeKeywords,
             Filter(Keywords(keywords)) \/ Exclude(keywords)
      PROVE  DomainInv'
  BY <1>4, KeywordsUnderstood, NotUnderstood, Filtering DEF Exclude
<1>5. CASE UNCHANGED domainVars
  <2>1. built' = built /\ query' = query /\ filters' = filters
    BY <1>5 DEF domainVars
  <2> QED
    BY <2>1, Zenon DEF DomainInv
<1> QED
  BY <1>2, <1>3, <1>4, <1>5, Zenon DEF DomainNext

LEMMA DomainInvCorrect == DomainInv => DomainsCorrect
<1> SUFFICES ASSUME DomainInv
             PROVE  DomainsCorrect
  OBVIOUS
<1>1. ASSUME NEW e \in built \cup {query}
      PROVE  /\ e \in Built
             /\ ~e.infix => /\ WellFormed(e.domain)
                            /\ e.exact => Selects(e.domain) = e.means
  <2>1. PICK least \in Nat : Understood(e, least)
    BY <1>1 DEF DomainInv
  <2>2. e \in Built
    BY <2>1, Zenon DEF Understood
  <2> QED
    BY <2>1, <2>2, UnderstoodMeans
<1>2. DomainTypeOK
  BY <1>1, Zenon DEF DomainTypeOK, DomainInv
<1> QED
  BY <1>1, <1>2, LookupsHold, Zenon DEF DomainsCorrect, DomainsMean

\* Each lookup becomes the comparison that selects what it is written to, only
\* that a null check selects the same whatever it is given; if no two Q objects
\* were joined with |, Odoo can read what expressions, Q objects and chains of
\* filters make of these comparisons, and selects what they are written to mean,
\* where | and ~ were applied to single conditions: of any size, for any fields
\* and keywords.
THEOREM DomainsSafe == DomainSpec => []DomainsCorrect
<1> QED
  BY DomainInvInit, DomainInvStep, DomainInvCorrect, PTL DEF DomainSpec

================================================================================
