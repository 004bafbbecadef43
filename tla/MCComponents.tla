------------------------------ MODULE MCComponents ------------------------------
(****************************************************************************)
(* The components that share no state with one another but the clock, on     *)
(* small instances: each behaviour is of one part.                           *)
(****************************************************************************)
EXTENDS Retry, Batch, Records, CacheStrategies, CachedCalls, Client,
        Domains, Queries, Mcp, McpServer, Registry, TLC

CONSTANTS t1, t2, k1, k2, k3, l1, l2

TwoTasks == {t1, t2}
ThreeKeys == {k1, k2, k3}
TwoLogins == {l1, l2}

TaskSymmetry == Permutations(TwoTasks)

\* Policies of a program's own, beside those of the package.
Own(strategy, jitter, attempts, backoff) ==
    [Exponential(attempts, {}) EXCEPT !.strategy = strategy, !.jitter = jitter,
                                      !.backoff = backoff]

SomePolicies ==
    {Own("linear", "full", 2, 1), Own("fibonacci", "equal", 3, 2),
     [Own("fixed", "legacy", 2, 2) EXCEPT !.timeout = 0],
     Own("adaptive", "none", 2, 2), Own("decorrelated", "decorrelated", 3, 1),
     DefaultRetryPolicy, NetworkRetryPolicy, DatabaseRetryPolicy,
     QuickRetryPolicy, AggressiveRetryPolicy, CircuitBreakerRetryPolicy,
     IdempotentRetryPolicy, GracefulDegradationRetryPolicy}

\* Two creations, one of two chunks, an update and a deletion.
Op(kind, priority, data) == [kind |-> kind, priority |-> priority, data |-> data]

SomeOperations ==
    {Op("create", 0, <<"a", "b">>), Op("create", 0, <<"a", "b", "c">>),
     Op("update", 1, <<"d">>), Op("unlink", 2, <<"e">>)}

\* Three operations executed once, or one that two tasks execute.
SomeExtents == {[items |-> 3, calls |-> 1], [items |-> 1, calls |-> 2]}

\* A relation of one record and an empty one.
SomeIds == [r \in Relation |-> IF r = "one" THEN {1} ELSE {}]

FieldOf(type, required, store) ==
    [type |-> type, required |-> required, store |-> store]

\* An optional selection, and a computed field that is not stored.
SomeFields == [state |-> FieldOf("selection", FALSE, TRUE),
               total |-> FieldOf("float", FALSE, FALSE)]

\* Two lookups of texts and a null check given False.
SomeKeyword(lookup, value) == [field |-> "f", lookup |-> lookup, value |-> value]

SomeSought == {SomeKeyword("startswith", "v"), SomeKeyword("iendswith", "v"),
               SomeKeyword("isnull", "False")}

VARIABLE part

Parts == {"retry", "batch", "loader", "relations", "strategies", "stampede",
          "circuit", "operations", "managers", "domains", "queries", "servers",
          "monitor", "rates", "sessions", "server", "records", "registry"}

modelVars == <<lazyVars, recordVars>>

secureVars == <<securityVars, serverStateVars>>

allVars == <<now, retryVars, batchVars, modelVars, cacheVars, callVars,
             clientVars, domainVars, queryVars, mcpVars, secureVars, registryVars>>

ComponentsInit ==
    /\ part \in Parts
    /\ now = 0
    /\ RetryInit
    /\ part = "retry" \/ policy = CHOOSE p \in Policies : TRUE
    /\ BatchInit
    /\ part = "batch" \/ batch = CHOOSE b \in EmptyBatches : TRUE
    /\ LazyInit
    /\ RecordsInit
    /\ part = "records" \/ rows = <<Blank>>
    /\ CacheInit
    /\ part = "strategies" \/ caching = CHOOSE s \in Strategies : TRUE
    /\ CallInit
    /\ ClientInit
    /\ IF part = "domains" THEN DomainInit
       ELSE built = {} /\ query = Unfiltered /\ filters = 0
    /\ QueryInit
    /\ part = "queries" \/ byPattern
    /\ McpInit
    /\ SecurityInit
    /\ ServerInit
    /\ RegistryInit

(****************************************************************************)
(* Bounds of this instance alone: connects of all servers together; logins   *)
(* by API key only beside managers, where one user has a key and the other a *)
(* password; a manager is disabled over one strategy; expressions and        *)
(* filters together.                                                         *)
(****************************************************************************)

MaxConnectsOfAll == 3

ConnectsBounded ==
    \A i, j \in Instance :
       i < j => links'[i].made + links'[j].made <= MaxConnectsOfAll

DisablingBounded == caching'.enabled \/ caching'.strategy = "lru"

MaxBuiltAndFilters == 5

DomainsBounded == Cardinality(built') + filters' <= MaxBuiltAndFilters

LoginsBounded(t) ==
    /\ running'[t].op = "login" => running'[t].login # l2
    /\ running'[t].op = "api_login" => running'[t].login # l1

\* The steps of each part leave the variables of the other modules alone.
RetryPart ==
    /\ part = "retry" /\ RetryNext
    /\ UNCHANGED <<batchVars, modelVars, cacheVars, callVars, clientVars,
                   domainVars, queryVars, mcpVars, secureVars, registryVars>>

BatchPart ==
    /\ part = "batch" /\ BatchNext
    /\ UNCHANGED <<retryVars, modelVars, cacheVars, callVars, clientVars,
                   domainVars, queryVars, mcpVars, secureVars, registryVars>>

ModelPart ==
    /\ \/ part = "loader" /\ LoaderNext /\ UNCHANGED recordVars
       \/ part = "relations" /\ RelationNext /\ UNCHANGED recordVars
       \/ part = "records" /\ RecordsNext /\ UNCHANGED lazyVars
    /\ UNCHANGED <<retryVars, batchVars, cacheVars, callVars, clientVars,
                   domainVars, queryVars, mcpVars, secureVars, registryVars>>

CachePart ==
    /\ part = "strategies" /\ CacheNext /\ DisablingBounded
    /\ UNCHANGED <<retryVars, batchVars, modelVars, callVars, clientVars,
                   domainVars, queryVars, mcpVars, secureVars, registryVars>>

CallPart ==
    /\ \/ part = "stampede" /\ StampedeNext
       \/ part = "circuit" /\ CircuitNext
    /\ UNCHANGED <<retryVars, batchVars, modelVars, cacheVars, clientVars,
                   domainVars, queryVars, mcpVars, secureVars, registryVars>>

\* Operations and managers of a client, each with logins and close().
ClientPart ==
    /\ \E t \in Task :
          \/ part = "managers" /\ LoginNext(t) /\ LoginsBounded(t)
          \/ part = "operations" /\ LoginNext(t) /\ running'[t].op # "api_login"
          \/ part \in {"operations", "managers"} /\ CloseNext(t)
          \/ part = "operations" /\ OperationNext(t)
          \/ part = "managers" /\ (ManagerNext(t) \/ LoginCancelled(t))
    /\ UNCHANGED <<retryVars, batchVars, modelVars, cacheVars, callVars,
                   domainVars, queryVars, mcpVars, secureVars, registryVars>>

DomainPart ==
    /\ part = "domains" /\ DomainNext /\ DomainsBounded
    /\ UNCHANGED <<now, retryVars, batchVars, modelVars, cacheVars, callVars,
                   clientVars, queryVars, mcpVars, secureVars, registryVars>>

QueryPart ==
    /\ part = "queries" /\ QueryNext
    /\ UNCHANGED <<retryVars, batchVars, modelVars, cacheVars, callVars,
                   clientVars, domainVars, mcpVars, secureVars, registryVars>>

McpPart ==
    /\ \/ part = "servers" /\ ServersNext /\ ConnectsBounded
       \/ part = "monitor" /\ MonitorNext
    /\ UNCHANGED <<retryVars, batchVars, modelVars, cacheVars, callVars,
                   clientVars, domainVars, queryVars, secureVars, registryVars>>

SecurityPart ==
    /\ \/ part = "rates" /\ RateNext /\ UNCHANGED serverStateVars
       \/ part = "sessions" /\ SessionsNext /\ UNCHANGED serverStateVars
       \/ part = "server" /\ ServerNext /\ UNCHANGED securityVars
    /\ UNCHANGED <<retryVars, batchVars, modelVars, cacheVars, callVars,
                   clientVars, domainVars, queryVars, mcpVars, registryVars>>

RegistryPart ==
    /\ part = "registry" /\ RegistryNext
    /\ UNCHANGED <<retryVars, batchVars, modelVars, cacheVars, callVars,
                   clientVars, domainVars, queryVars, mcpVars, secureVars>>

ComponentsNext ==
    /\ \/ RetryPart \/ BatchPart \/ ModelPart \/ CachePart \/ CallPart
       \/ ClientPart \/ DomainPart \/ QueryPart \/ McpPart \/ SecurityPart
       \/ RegistryPart
    /\ UNCHANGED part

ComponentsSpec == ComponentsInit /\ [][ComponentsNext]_<<part, allVars>>

================================================================================
