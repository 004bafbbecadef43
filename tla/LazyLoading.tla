------------------------------ MODULE LazyLoading ------------------------------
(****************************************************************************)
(* Data loaded on first use: a LazyLoader (LazyCollection has the same code) *)
(* that several tasks await, and the LazyRelationships of one field, which   *)
(* queue up and are loaded by one batch task.  A task that awaits a load and *)
(* is cancelled cancels the load with it.                                    *)
(****************************************************************************)
EXTENDS Tasks, FiniteSetsExt, SequencesExt

CONSTANTS
    Relation,       \* lazy relationships of one model and field
    RelatedIds,     \* relation_ids of each; {} for none
    MaxLoads        \* bound: loads, batches and invalidations, each

ASSUME LazyAssumption ==
    /\ MaxLoads \in Nat
    /\ DOMAIN RelatedIds = Relation

VARIABLES
    loader,         \* loaded, the load its data is of, _loading_task
    loads,          \* the _do_load() tasks
    awaiting,       \* the load or batch each task awaits
    relations,      \* _loaded_data and _is_loaded of each relation
    queued,         \* _batch_queue
    batchTask,      \* the task in _batch_tasks, or 0
    batchLoads,     \* the _execute_batch_load() tasks
    prefetched,     \* _prefetch_cache: the ids with data, and what data
    invalidated     \* how often the loader was invalidated

lazyVars == <<loader, loads, awaiting, relations, queued, batchTask,
              batchLoads, prefetched, invalidated>>

relationVars == <<relations, queued, batchTask, batchLoads, prefetched>>

Load == [pc : {"running", "cancelling", "done"}, era : Nat,
         outcome : {"none", "data", "raised", "cancelled"}]

BatchLoad == [pc : {"sleeping", "fetching", "cancelling", "done"},
              of : SUBSET Relation, outcome : {"none", "data", "raised", "cancelled"}]

\* A task awaits a load, a batch for one relation, or a prefetch of several; era
\* is the number of the relation's invalidations when it began; got says that
\* a load() came away with None as its relation is not loaded.
Awaiting ==
    [what : {"none", "load", "batch", "prefetch"}, id : Nat,
     of : SUBSET Relation, era : Nat, got : {"none", "unloaded"}]

Nobody == [what |-> "none", id |-> 0, of |-> {}, era |-> 0, got |-> "none"]

NothingLoaded == [loaded |-> FALSE, of |-> 0, task |-> 0]

NewRelation == [loaded |-> FALSE, data |-> "unset", era |-> 0]

LazyInit ==
    /\ loader = NothingLoaded
    /\ loads = <<>>
    /\ awaiting = [t \in Task |-> Nobody]
    /\ relations = [r \in Relation |-> NewRelation]
    /\ queued = {}
    /\ batchTask = 0
    /\ batchLoads = <<>>
    /\ prefetched = {}
    /\ invalidated = 0

(****************************************************************************)
(* LazyLoader.                                                              *)
(****************************************************************************)

InFlight(load) == load.pc # "done"

LoadInFlight == loader.task # 0 /\ InFlight(loads[loader.task])

LoadAlwaysStarts(t) ==
    /\ ~loader.loaded
    /\ Len(loads) < MaxLoads
    /\ loads' = Append(loads, [pc |-> "running", era |-> invalidated,
                               outcome |-> "none"])
    /\ loader' = [loader EXCEPT !.task = Len(loads) + 1]
    /\ awaiting' = [awaiting EXCEPT ![t] =
           [Nobody EXCEPT !.what = "load", !.id = Len(loads) + 1]]

\* Past the data load() awaits the task that loads, or starts one.
LoadAwaits(t) ==
    /\ ~loader.loaded
    /\ \/ /\ LoadInFlight
          /\ awaiting' = [awaiting EXCEPT ![t] =
                 [Nobody EXCEPT !.what = "load", !.id = loader.task]]
          /\ UNCHANGED <<loader, loads>>
       \/ /\ ~LoadInFlight
          /\ Len(loads) < MaxLoads
          /\ loads' = Append(loads, [pc |-> "running", era |-> invalidated,
                                     outcome |-> "none"])
          /\ loader' = [loader EXCEPT !.task = Len(loads) + 1]
          /\ awaiting' = [awaiting EXCEPT ![t] =
                 [Nobody EXCEPT !.what = "load", !.id = Len(loads) + 1]]

\* load() of LazyLoader, all() of LazyCollection.
LazyLoad(t) ==
    /\ awaiting[t].what = "none"
    /\ \/ /\ loader.loaded
          /\ awaiting' = [awaiting EXCEPT ![t] = Nobody]
          /\ UNCHANGED <<loader, loads>>
       \/ LoadAwaits(t)
    /\ UNCHANGED <<now, relationVars, invalidated>>

\* _do_load(): the loader function answers or raises.
LoadEnds(l, outcome) ==
    /\ loads[l].pc = "running"
    /\ outcome \in {"data", "raised"}
    /\ loads' = [loads EXCEPT ![l].pc = "done", ![l].outcome = outcome]
    /\ loader' = IF outcome = "data"
                 THEN [loader EXCEPT !.loaded = TRUE, !.of = l]
                 ELSE [loader EXCEPT !.task = 0]
    /\ UNCHANGED <<now, awaiting, relationVars, invalidated>>

\* CancelledError is no Exception: the loader keeps its task.
LoadCancelled(l) ==
    /\ loads[l].pc = "cancelling"
    /\ loads' = [loads EXCEPT ![l].pc = "done", ![l].outcome = "cancelled"]
    /\ UNCHANGED <<now, loader, awaiting, relationVars, invalidated>>

InvalidateWithoutCancelling ==
    /\ invalidated < MaxLoads
    /\ invalidated' = invalidated + 1
    /\ loader' = NothingLoaded
    /\ UNCHANGED <<now, loads, awaiting, relationVars>>

\* invalidate(): the data goes, and so does a load under way.
LoaderInvalidated ==
    /\ invalidated < MaxLoads
    /\ invalidated' = invalidated + 1
    /\ loader' = NothingLoaded
    /\ loads' = IF LoadInFlight
                THEN [loads EXCEPT ![loader.task].pc = "cancelling"]
                ELSE loads
    /\ UNCHANGED <<now, awaiting, relationVars>>

(****************************************************************************)
(* LazyRelationship.                                                        *)
(****************************************************************************)

Sleeping == [pc |-> "sleeping", of |-> {}, outcome |-> "none"]

BatchInFlight == batchTask # 0 /\ InFlight(batchLoads[batchTask])

AwaitsBatch(t, r, id) ==
    awaiting' = [awaiting EXCEPT ![t] =
        [Nobody EXCEPT !.what = "batch", !.id = id, !.of = {r},
                       !.era = relations[r].era]]

EnqueueOnlyToStart(t, r) ==
    \/ /\ BatchInFlight
       /\ AwaitsBatch(t, r, batchTask)
       /\ UNCHANGED <<queued, batchTask, batchLoads>>
    \/ /\ ~BatchInFlight
       /\ Len(batchLoads) < MaxLoads
       /\ queued' = queued \cup {r}
       /\ batchLoads' = Append(batchLoads, Sleeping)
       /\ batchTask' = Len(batchLoads) + 1
       /\ AwaitsBatch(t, r, Len(batchLoads) + 1)

\* _load_with_batching(): the relation is queued, also behind a batch that
\* has taken its queue already.
Enqueue(t, r) ==
    /\ queued' = queued \cup {r}
    /\ \/ /\ BatchInFlight
          /\ AwaitsBatch(t, r, batchTask)
          /\ UNCHANGED <<batchTask, batchLoads>>
       \/ /\ ~BatchInFlight
          /\ Len(batchLoads) < MaxLoads
          /\ batchLoads' = Append(batchLoads, Sleeping)
          /\ batchTask' = Len(batchLoads) + 1
          /\ AwaitsBatch(t, r, Len(batchLoads) + 1)

Prefetched(r) == {p \in prefetched : p.ids = RelatedIds[r]}

\* load() of a relation: from its data, from the cache all relations share
\* and nothing ever clears, or by a batch.
RelationLoad(t, r) ==
    /\ awaiting[t].what = "none"
    /\ \/ /\ relations[r].loaded \/ Prefetched(r) # {}
          /\ relations' = IF relations[r].loaded THEN relations
                          ELSE [relations EXCEPT
                                  ![r].loaded = TRUE,
                                  ![r].data = (CHOOSE p \in Prefetched(r) :
                                                  TRUE).data]
          /\ awaiting' = [awaiting EXCEPT ![t] = Nobody]
          /\ UNCHANGED <<queued, batchTask, batchLoads>>
       \/ /\ ~relations[r].loaded
          /\ Prefetched(r) = {}
          /\ Enqueue(t, r)
          /\ UNCHANGED relations
    /\ UNCHANGED <<now, loader, loads, prefetched, invalidated>>

IdsOf(rs) == UNION {RelatedIds[r] : r \in rs}

\* _execute_batch_load() after its pause takes the queue, and is done if that
\* needs no call.
BatchTakesQueue(b) ==
    /\ batchLoads[b].pc = "sleeping"
    /\ queued' = {}
    /\ \/ /\ IdsOf(queued) = {}
          /\ relations' = [r \in Relation |->
                 IF r \in queued
                 THEN [relations[r] EXCEPT !.loaded = TRUE, !.data = "empty"]
                 ELSE relations[r]]
          /\ batchLoads' = [batchLoads EXCEPT ![b].pc = "done",
                                              ![b].of = queued,
                                              ![b].outcome = "data"]
       \/ /\ IdsOf(queued) # {}
          /\ batchLoads' = [batchLoads EXCEPT ![b].pc = "fetching",
                                              ![b].of = queued]
          /\ UNCHANGED relations
    /\ UNCHANGED <<now, loader, loads, awaiting, batchTask, prefetched,
                   invalidated>>

Fetched(r, outcome) ==
    IF outcome = "raised" \/ RelatedIds[r] = {} THEN "empty" ELSE "records"

\* The search_read() of the batch answers, or raises: the relations count as
\* loaded, then with nothing, and the task leaves _batch_tasks.
BatchEndsLoading(b, outcome) ==
    /\ batchLoads[b].pc = "fetching"
    /\ outcome \in {"data", "raised"}
    /\ relations' = [r \in Relation |->
           IF r \in batchLoads[b].of
           THEN [relations[r] EXCEPT !.loaded = TRUE,
                                     !.data = Fetched(r, outcome)]
           ELSE relations[r]]
    /\ prefetched' = IF outcome = "raised" THEN prefetched
                     ELSE {p \in prefetched : \A r \in batchLoads[b].of :
                              p.ids # RelatedIds[r]}
                          \cup {[ids |-> RelatedIds[r],
                                 data |-> Fetched(r, "data")] :
                                   r \in batchLoads[b].of}
    /\ batchLoads' = [batchLoads EXCEPT ![b].pc = "done",
                                        ![b].outcome = outcome]
    /\ batchTask' = 0
    /\ UNCHANGED <<now, loader, loads, awaiting, queued, invalidated>>

\* A cancelled batch loads nothing; it leaves _batch_tasks if it was fetching.
BatchLoadCancelled(b) ==
    /\ batchLoads[b].pc = "cancelling"
    /\ batchLoads' = [batchLoads EXCEPT ![b].pc = "done",
                                        ![b].outcome = "cancelled"]
    /\ batchTask' = IF batchLoads[b].of = {} THEN batchTask ELSE 0
    /\ UNCHANGED <<now, loader, loads, awaiting, relations, queued,
                   prefetched, invalidated>>

\* prefetch_relationships() reads the relations that are not loaded, past the
\* queue and the batches.
Prefetch(t, rs) ==
    LET missing == {r \in rs : ~relations[r].loaded}
    IN  /\ awaiting[t].what = "none"
        /\ IdsOf(missing) # {}
        /\ awaiting' = [awaiting EXCEPT ![t] =
               [Nobody EXCEPT !.what = "prefetch", !.of = missing]]
        /\ UNCHANGED <<now, loader, loads, relationVars, invalidated>>

PrefetchAnswers(t, outcome) ==
    LET of == awaiting[t].of
    IN  /\ awaiting[t].what = "prefetch"
        /\ outcome \in {"data", "raised", "cancelled"}
        /\ relations' = IF outcome = "data"
                        THEN [r \in Relation |->
                                 IF r \in of
                                 THEN [relations[r] EXCEPT
                                         !.loaded = TRUE,
                                         !.data = Fetched(r, outcome)]
                                 ELSE relations[r]]
                        ELSE relations
        /\ awaiting' = [awaiting EXCEPT ![t] = Nobody]
        /\ UNCHANGED <<now, loader, loads, queued, batchTask, batchLoads,
                       prefetched, invalidated>>

\* invalidate() of a relation, invalidate_all(): _prefetch_cache keeps the data.
RelationsInvalidated(rs) ==
    /\ \A r \in rs : relations[r].era < MaxLoads
    /\ relations' = [r \in Relation |->
           IF r \in rs
           THEN [NewRelation EXCEPT !.era = relations[r].era + 1]
           ELSE relations[r]]
    /\ UNCHANGED <<now, loader, loads, awaiting, queued, batchTask,
                   batchLoads, prefetched, invalidated>>

(****************************************************************************)
(* The tasks that await.                                                    *)
(****************************************************************************)

\* A task resumes with what it awaited: a relation's data, if it has some.
LazyResumes(t) ==
    LET a == awaiting[t]
        task == IF a.what = "load" THEN loads[a.id] ELSE batchLoads[a.id]
        got == IF task.outcome = "data" /\ a.what = "batch"
                  /\ \E r \in a.of : ~relations[r].loaded
               THEN "unloaded" ELSE "none"
    IN  /\ a.what \in {"load", "batch"}
        /\ task.pc = "done"
        /\ awaiting' = [awaiting EXCEPT ![t] = [Nobody EXCEPT !.got = got]]
        /\ UNCHANGED <<now, loader, loads, relationVars, invalidated>>

\* Cancelling a task that awaits another cancels that one.
LazyCancelled(t) ==
    LET a == awaiting[t]
    IN  /\ \/ /\ a.what = "load"
              /\ loads[a.id].pc = "running"
              /\ loads' = [loads EXCEPT ![a.id].pc = "cancelling"]
              /\ UNCHANGED batchLoads
           \/ /\ a.what = "batch"
              /\ batchLoads[a.id].pc \in {"sleeping", "fetching"}
              /\ batchLoads' = [batchLoads EXCEPT ![a.id].pc = "cancelling"]
              /\ UNCHANGED loads
        /\ UNCHANGED <<now, loader, awaiting, relations, queued, batchTask,
                       prefetched, invalidated>>

LoaderNext ==
    \/ \E t \in Task : LazyLoad(t) \/ LazyResumes(t) \/ LazyCancelled(t)
    \/ \E l \in DOMAIN loads :
          \/ \E outcome \in {"data", "raised"} : LoadEnds(l, outcome)
          \/ LoadCancelled(l)
    \/ LoaderInvalidated

RelationNext ==
    \/ \E t \in Task :
          \/ \E r \in Relation : RelationLoad(t, r)
          \/ \E rs \in SUBSET Relation : Prefetch(t, rs)
          \/ \E outcome \in {"data", "raised", "cancelled"} :
                PrefetchAnswers(t, outcome)
          \/ LazyResumes(t)
          \/ LazyCancelled(t)
    \/ \E b \in DOMAIN batchLoads :
          \/ BatchTakesQueue(b)
          \/ \E outcome \in {"data", "raised"} : BatchEndsLoading(b, outcome)
          \/ BatchLoadCancelled(b)
    \/ \E rs \in SUBSET Relation \ {{}} : RelationsInvalidated(rs)

LazyNext == LoaderNext \/ RelationNext

LazySpec == now = 0 /\ LazyInit /\ [][LazyNext]_<<now, lazyVars>>

(****************************************************************************)
(* Properties.                                                              *)
(****************************************************************************)

LazyTypeOK ==
    /\ loader \in [loaded : BOOLEAN, of : Nat, task : Nat]
    /\ loads \in Seq(Load)
    /\ awaiting \in [Task -> Awaiting]
    /\ relations \in [Relation -> [loaded : BOOLEAN, era : Nat,
                                   data : {"unset", "empty", "records"}]]
    /\ queued \in SUBSET Relation
    /\ {batchTask, invalidated} \subseteq Nat
    /\ batchLoads \in Seq(BatchLoad)
    /\ \A p \in prefetched : p.data \in {"empty", "records"}

\* The loader's data is of a load that began after its last invalidation, and
\* no two loads run that nobody has cancelled: one call for all who await it.
LoaderFresh ==
    /\ loader.loaded => loads[loader.of].era = invalidated
    /\ Quantify(DOMAIN loads, LAMBDA l : loads[l].pc = "running") <= 1

\* One batch at a time loads the relations of a field; a relation somebody
\* awaits is in the queue, in a batch under way, or loaded, unless its batch
\* was cancelled.  Records are of a relation that has some.
RelationsServed ==
    /\ Quantify(DOMAIN batchLoads, LAMBDA b : InFlight(batchLoads[b])) <= 1
    /\ \A t \in Task : awaiting[t].what = "batch" =>
          \A r \in awaiting[t].of :
             \/ r \in queued
             \/ \E b \in DOMAIN batchLoads :
                   /\ r \in batchLoads[b].of
                   /\ \/ InFlight(batchLoads[b])
                      \/ batchLoads[b].outcome = "cancelled"
             \/ relations[r].loaded
             \/ relations[r].era > awaiting[t].era
    /\ \A r \in Relation :
          relations[r].data = "records" => RelatedIds[r] # {}

\* "Returns: The loaded record(s) or None if no data" (relationships.py:79): a
\* load() that returns, of a relation nobody invalidated, has loaded it.
LoadReturnsData ==
    [][\A t \in Task :
          LET a == awaiting[t]
          IN  a.what = "batch" /\ awaiting'[t].got = "unloaded"
                 => \E r \in a.of : relations[r].era > a.era]_lazyVars

\* What tasks that load the same data at the same time rely on.
LazyCorrect == LazyTypeOK /\ LoaderFresh /\ RelationsServed

================================================================================
