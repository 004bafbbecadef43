--------------------------- MODULE TransactionProofs ---------------------------
(****************************************************************************)
(* Proofs about Transaction for any number of tasks, models, operations and *)
(* savepoints, with failing and cancelled calls.                            *)
(****************************************************************************)
EXTENDS Transaction, SequenceTheorems, TLAPS

USE DEF Fault

(****************************************************************************)
(* Lemmas about the operators.                                              *)
(****************************************************************************)

\* s[:n] keeps the type and the elements of s.
LEMMA TakeFacts ==
    ASSUME NEW S, NEW s \in Seq(S), NEW n \in Nat
    PROVE  /\ Take(s, n) \in Seq(S)
           /\ Len(Take(s, n)) = IF n < Len(s) THEN n ELSE Len(s)
           /\ \A i \in 1..Len(Take(s, n)) : Take(s, n)[i] = s[i]
BY DEF Take

\* Skipping touches nothing but statuses, and only to "skipped".
LEMMA SkippedFacts ==
    ASSUME NEW recs \in Seq(OperationRecord), NEW log, NEW low, NEW high
    PROVE  /\ Skipped(recs, log, low, high) \in Seq(OperationRecord)
           /\ Len(Skipped(recs, log, low, high)) = Len(recs)
           /\ \A i \in 1..Len(recs) :
                 LET r == Skipped(recs, log, low, high)[i]
                 IN  /\ r.kind = recs[i].kind
                     /\ r.model = recs[i].model
                     /\ r.data = recs[i].data
                     /\ r.effects = recs[i].effects
                     /\ r.status \in {recs[i].status, "skipped"}
                     /\ (\E j \in (low + 1)..high : log[j] = i) =>
                           r.status = "skipped"
                     /\ (\A j \in (low + 1)..high : log[j] # i) =>
                           r = recs[i]
<1> DEFINE n == Len(recs)
           hit(i) == \E j \in (low + 1)..high : log[j] = i
           new(i) == IF hit(i) THEN [recs[i] EXCEPT !.status = "skipped"]
                     ELSE recs[i]
<1>1. n \in Nat /\ DOMAIN recs = 1..n /\ \A i \in 1..n : recs[i] \in OperationRecord
  BY LenProperties, ElementOfSeq
<1>2. \A i \in 1..n :
         /\ new(i) \in OperationRecord
         /\ new(i).kind = recs[i].kind
         /\ new(i).model = recs[i].model
         /\ new(i).data = recs[i].data
         /\ new(i).effects = recs[i].effects
         /\ new(i).status \in {recs[i].status, "skipped"}
         /\ hit(i) => new(i).status = "skipped"
         /\ ~hit(i) => new(i) = recs[i]
  <2> SUFFICES ASSUME NEW i \in 1..n
               PROVE  /\ new(i) \in OperationRecord
                      /\ new(i).kind = recs[i].kind
                      /\ new(i).model = recs[i].model
                      /\ new(i).data = recs[i].data
                      /\ new(i).effects = recs[i].effects
                      /\ new(i).status \in {recs[i].status, "skipped"}
                      /\ hit(i) => new(i).status = "skipped"
                      /\ ~hit(i) => new(i) = recs[i]
    OBVIOUS
  <2> HIDE DEF hit
  <2>1. recs[i] \in OperationRecord
    BY <1>1
  <2> QED
    BY <2>1 DEF OperationRecord
<1>3. Skipped(recs, log, low, high) = [i \in 1..n |-> new(i)]
  BY <1>1 DEF Skipped
<1>4. [i \in 1..n |-> new(i)] \in Seq(OperationRecord)
  <2> HIDE DEF new
  <2> QED BY <1>1, <1>2
<1>5. Len(Skipped(recs, log, low, high)) = n
  <2> HIDE DEF new
  <2> QED BY <1>1, <1>3
<1> HIDE DEF new
<1>6. \A i \in 1..n : Skipped(recs, log, low, high)[i] = new(i)
  BY <1>3
<1> QED
  BY <1>2, <1>3, <1>4, <1>5, <1>6

\* A context overridden by another is a context.
LEMMA OverrideType ==
    ASSUME NEW base \in Context, NEW over \in Context
    PROVE  Override(base, over) \in Context
BY DEF Override, Context

LEMMA NoContextType == NoContext \in Context
BY DEF NoContext, Context

LEMMA IdleType == Idle \in Frame /\ Idle.pc = "idle" /\ Idle.log = <<>>
BY NoContextType DEF Idle, NoSavepoint, Frame, Savepoint

\* Moving a walk's position, or saying what its list is, changes nothing else.
LEMMA FrameUpdates ==
    ASSUME NEW f \in Frame
    PROVE  /\ \A k \in Nat :
                 /\ [f EXCEPT !.pos = k] \in Frame
                 /\ [f EXCEPT !.pos = k].pos = k
                 /\ [f EXCEPT !.pos = k].log = f.log
                 /\ [f EXCEPT !.pos = k].pc = f.pc
                 /\ [f EXCEPT !.pos = k].savepoint = f.savepoint
                 /\ [f EXCEPT !.pos = k].at = f.at
           /\ \A w \in {"own", "copy", "ended"} :
                 /\ [f EXCEPT !.walked = w] \in Frame
                 /\ [f EXCEPT !.walked = w].pos = f.pos
                 /\ [f EXCEPT !.walked = w].log = f.log
                 /\ [f EXCEPT !.walked = w].pc = f.pc
BY DEF Frame

(****************************************************************************)
(* Type correctness.                                                        *)
(****************************************************************************)

\* What rollback() and rollback_to_savepoint() start with, and go on with
\* after each awaited compensation.
Walking(f) ==
    /\ f \in Frame
    /\ f.pc \in {"rollback", "savepoint"}
    /\ f.log \in Seq(1..Len(records))

\* Every frame stays as it is, becomes idle, or learns what its list is.
FramesFollow ==
    /\ frame' = [u \in Task |-> frame'[u]]
    /\ \A u \in Task :
          \/ frame'[u] \in {Idle, frame[u]}
          \/ \E w \in {"own", "copy", "ended"} :
                frame'[u] = [frame[u] EXCEPT !.walked = w]

LEMMA FramesFollowType ==
    ASSUME TypeOK, Len(records') \in Nat, Len(records) <= Len(records'),
           FramesFollow
    PROVE  /\ frame' \in [Task -> Frame]
           /\ \A u \in Task : frame'[u].log \in Seq(1..Len(records'))
           /\ \A u \in Task :
                 Calling(u)' => frame'[u].pos \in DOMAIN frame'[u].log
<1>1. ASSUME NEW u \in Task
      PROVE  /\ frame'[u] \in Frame
             /\ frame'[u].log \in Seq(1..Len(records'))
             /\ Calling(u)' => frame'[u].pos \in DOMAIN frame'[u].log
  <2>1. /\ frame[u] \in Frame
        /\ frame[u].log \in Seq(1..Len(records'))
        /\ Calling(u) => frame[u].pos \in DOMAIN frame[u].log
    <3>1. Len(records) \in Nat /\ 1..Len(records) \subseteq 1..Len(records')
      BY LenProperties DEF TypeOK
    <3> QED
      BY <3>1, SeqMonotonic DEF TypeOK
  <2>2. CASE frame'[u] = Idle
    BY <2>2, IdleType, EmptySeq DEF Calling
  <2>3. CASE frame'[u] = frame[u]
    BY <2>1, <2>3 DEF Calling
  <2>4. ASSUME NEW w \in {"own", "copy", "ended"},
               frame'[u] = [frame[u] EXCEPT !.walked = w]
        PROVE  /\ frame'[u] \in Frame
               /\ frame'[u].log = frame[u].log
               /\ frame'[u].pos = frame[u].pos
               /\ frame'[u].pc = frame[u].pc
    <3>1. ASSUME NEW f \in Frame
          PROVE  /\ [f EXCEPT !.walked = w] \in Frame
                 /\ [f EXCEPT !.walked = w].log = f.log
                 /\ [f EXCEPT !.walked = w].pos = f.pos
                 /\ [f EXCEPT !.walked = w].pc = f.pc
      BY FrameUpdates
    <3> QED
      BY <2>1, <2>4, <3>1, Zenon
  <2> QED
    BY <2>1, <2>2, <2>3, <2>4 DEF FramesFollow, Calling
<1>2. frame' \in [Task -> Frame]
  BY <1>1 DEF FramesFollow
<1> QED
  BY <1>1, <1>2

CacheTyped == stale' \subseteq Entry /\ missed' \subseteq Entry

LEMMA WrittenType ==
    ASSUME TypeOK, NEW model \in Model, Written(model)
    PROVE  CacheTyped
<1>1. Entries(model) \subseteq Entry
  BY DEF Entries, Entry
<1> QED
  BY <1>1 DEF Written, CacheTyped, TypeOK

LEMMA CacheKept ==
    ASSUME TypeOK, UNCHANGED cacheVars
    PROVE  CacheTyped
BY DEF CacheTyped, TypeOK, cacheVars

\* Each way a walk goes on keeps the types.
LEMMA WalkOnType ==
    ASSUME TypeOK, NEW t \in Task, NEW f, Walking(f),
           NEW recs \in Seq(OperationRecord), Len(recs) = Len(records),
           NEW p \in 0..Len(f.log), WalkOn(t, f, recs, p),
           UNCHANGED <<created, dirty>>, CacheTyped, faults' \subseteq Fault
    PROVE  TypeOK'
<1> USE DEF Walking, CacheTyped
<1>1. PICK k \in 0..p :
         /\ records' = Skipped(recs, f.log, k, p)
         /\ \/ /\ k > 0
               /\ frame' = [frame EXCEPT ![t] = [f EXCEPT !.pos = k]]
               /\ UNCHANGED <<state, operations, savepoints, context>>
            \/ k = 0 /\ f.pc = "rollback" /\ FinishRollback(t, f)
            \/ k = 0 /\ f.pc = "savepoint" /\ FinishSavepoint(t, f)
  BY DEF WalkOn
<1>2. records' \in Seq(OperationRecord) /\ Len(records') = Len(records)
  BY <1>1, SkippedFacts
<1>3. CASE /\ k > 0
           /\ frame' = [frame EXCEPT ![t] = [f EXCEPT !.pos = k]]
           /\ UNCHANGED <<state, operations, savepoints, context>>
  <2>0. f \in Frame /\ k \in Nat
    BY LenProperties
  <2>2. frame' \in [Task -> Frame]
    BY <1>3, <2>0, FrameUpdates DEF TypeOK
  <2>3. \A u \in Task : frame'[u] = IF u = t THEN [f EXCEPT !.pos = k] ELSE frame[u]
    BY <1>3 DEF TypeOK
  <2>4. /\ [f EXCEPT !.pos = k].log = f.log
        /\ [f EXCEPT !.pos = k].pos = k
    BY <2>0, FrameUpdates
  <2>5. k \in DOMAIN f.log
    BY <1>3
  <2>6. \A u \in Task : frame'[u].log \in Seq(1..Len(records'))
    BY <1>2, <2>3, <2>4 DEF TypeOK
  <2>7. \A u \in Task : Calling(u)' => frame'[u].pos \in DOMAIN frame'[u].log
    BY <2>3, <2>4, <2>5 DEF TypeOK, Calling
  <2> QED
    BY <1>2, <1>3, <2>2, <2>6, <2>7 DEF TypeOK
<1>4. CASE f.pc = "rollback" /\ FinishRollback(t, f)
  <2>1. operations' \in Seq(1..Len(records')) /\ savepoints' \in Seq(Savepoint)
    BY <1>2, <1>4, EmptySeq DEF TypeOK, FinishRollback
  <2>2. state' \in TransactionState
    BY <1>4 DEF FinishRollback, TransactionState
  <2>3. FramesFollow
    BY <1>4 DEF FinishRollback, FramesFollow
  <2> QED
    <3>1. /\ frame' \in [Task -> Frame]
          /\ \A u \in Task : frame'[u].log \in Seq(1..Len(records'))
          /\ \A u \in Task :
                Calling(u)' => frame'[u].pos \in DOMAIN frame'[u].log
      BY <1>2, <2>3, FramesFollowType, LenProperties
    <3> QED
      BY <1>2, <1>4, <2>1, <2>2, <3>1 DEF TypeOK, FinishRollback
<1>5. CASE f.pc = "savepoint" /\ FinishSavepoint(t, f)
  <2>0. f.savepoint \in Savepoint /\ f.savepoint.index \in Nat
        /\ f.savepoint.context \in Context /\ f.at \in Nat
    BY DEF Frame, Savepoint
  <2>1. operations' \in Seq(1..Len(records'))
    BY <1>2, <1>5, <2>0, TakeFacts DEF TypeOK, FinishSavepoint, OperationsBefore
  <2>2. savepoints' \in Seq(Savepoint)
    BY <1>5, <2>0, TakeFacts DEF TypeOK, FinishSavepoint, SavepointsUpTo
  <2>3. context' \in Context
    BY <1>5, <2>0, OverrideType DEF TypeOK, FinishSavepoint
  <2>4. FramesFollow
    BY <1>5 DEF FinishSavepoint, FramesFollow
  <2> QED
    BY <1>2, <1>5, <2>1, <2>2, <2>3, <2>4, FramesFollowType, LenProperties, SMTT(60)
    DEF TypeOK, FinishSavepoint
<1> QED
  BY <1>1, <1>3, <1>4, <1>5

LEMMA TypeInit == Init => TypeOK
<1> SUFFICES ASSUME Init PROVE TypeOK
  OBVIOUS
<1>1. frame \in [Task -> Frame]
  BY IdleType DEF Init
<1>2. \A t \in Task : frame[t].log = <<>> /\ ~Calling(t)
  BY IdleType DEF Init, Calling
<1>3. /\ records \in Seq(OperationRecord)
      /\ savepoints \in Seq(Savepoint)
      /\ <<>> \in Seq(1..Len(records))
  BY EmptySeq DEF Init
<1>4. context \in Context
  BY NoContextType DEF Init
<1> QED
  BY <1>1, <1>2, <1>3, <1>4 DEF Init, TypeOK, TransactionState

LEMMA AddOperationType ==
    ASSUME TypeOK, NEW t \in Task, AddOperation(t), faults' \subseteq Fault
    PROVE  TypeOK'
<1>1. PICK kind \in Kind, model \in Model, data \in HasData :
         /\ records' = Append(records,
                [kind |-> kind, model |-> model, data |-> data,
                 status |-> "pending", effects |-> 0])
         /\ dirty' = Track(model)
         /\ Written(model)
  BY DEF AddOperation
<1> DEFINE r == [kind |-> kind, model |-> model, data |-> data,
                 status |-> "pending", effects |-> 0]
<1>2. r \in OperationRecord
  BY ConstantsAssumption DEF OperationRecord
<1>3. /\ records' \in Seq(OperationRecord)
      /\ Len(records) \in Nat
      /\ Len(records') = Len(records) + 1
  BY <1>1, <1>2, AppendProperties DEF TypeOK
<1>4. 1..Len(records) \subseteq 1..Len(records')
  BY <1>3
<1>5. operations' \in Seq(1..Len(records'))
  <2>1. operations \in Seq(1..Len(records'))
    BY <1>4, SeqMonotonic DEF TypeOK
  <2>2. NewOperation \in 1..Len(records')
    BY <1>3 DEF NewOperation
  <2> QED
    BY <2>1, <2>2, AppendProperties DEF AddOperation
<1>6. \A u \in Task : frame'[u].log \in Seq(1..Len(records'))
  BY <1>4, SeqMonotonic DEF TypeOK, AddOperation
<1>7. \A u \in Task : Calling(u)' => frame'[u].pos \in DOMAIN frame'[u].log
  BY DEF TypeOK, AddOperation, Calling
<1> QED
  BY <1>1, <1>3, <1>5, <1>6, <1>7, WrittenType
  DEF TypeOK, AddOperation, Track, CacheTyped

LEMMA SavepointsType ==
    ASSUME TypeOK, NEW t \in Task, faults' \subseteq Fault,
           CreateSavepoint(t) \/ ReleaseSavepoint(t) \/ SetContext(t)
    PROVE  TypeOK'
<1> USE DEF cacheVars
<1>1. CASE CreateSavepoint(t)
  <2>1. PICK over \in Context :
          savepoints' = Append(savepoints,
             [id |-> created + 1, index |-> Len(operations),
              released |-> FALSE, context |-> Override(context, over)])
    BY <1>1 DEF CreateSavepoint
  <2>2. Len(operations) \in Nat
    BY LenProperties DEF TypeOK
  <2>3. [id |-> created + 1, index |-> Len(operations), released |-> FALSE,
         context |-> Override(context, over)] \in Savepoint
    BY <2>2, OverrideType DEF TypeOK, Savepoint
  <2>4. savepoints' \in Seq(Savepoint)
    BY <2>1, <2>3, AppendProperties DEF TypeOK
  <2> QED
    BY <1>1, <2>4 DEF TypeOK, CreateSavepoint, Calling
<1>2. CASE ReleaseSavepoint(t)
  <2>1. PICK n \in DOMAIN savepoints :
          savepoints' = [savepoints EXCEPT ![n].released = TRUE]
    BY <1>2 DEF ReleaseSavepoint
  <2>2. n \in 1..Len(savepoints) /\ savepoints[n] \in Savepoint
    BY LenProperties, ElementOfSeq DEF TypeOK
  <2>3. [savepoints[n] EXCEPT !.released = TRUE] \in Savepoint
    BY <2>2 DEF Savepoint
  <2>4. savepoints' = [savepoints EXCEPT
                          ![n] = [savepoints[n] EXCEPT !.released = TRUE]]
    BY <2>1
  <2>5. savepoints' \in Seq(Savepoint)
    BY <2>2, <2>3, <2>4, ExceptSeq DEF TypeOK
  <2> QED
    BY <1>2, <2>5 DEF TypeOK, ReleaseSavepoint, Calling
<1>3. CASE SetContext(t)
  <2>1. context' \in Context
    BY <1>3 DEF SetContext, TypeOK, Context
  <2> QED
    BY <1>3, <2>1 DEF TypeOK, SetContext, Calling
<1> QED
  BY <1>1, <1>2, <1>3

\* The walk of rollback(): the whole log.
RollbackWalk ==
    [Idle EXCEPT !.pc = "rollback", !.log = operations, !.walked = "own"]

\* The walk of rollback_to_savepoint(): the log after savepoint n.
SavepointWalk(n) ==
    [Idle EXCEPT
        !.pc = "savepoint",
        !.log = SubSeq(operations, savepoints[n].index + 1, Len(operations)),
        !.savepoint = savepoints[n], !.at = n]

LEMMA RollbackWalkType ==
    ASSUME TypeOK
    PROVE  /\ Walking(RollbackWalk)
           /\ RollbackWalk.log = operations
           /\ RollbackWalk.pc = "rollback"
<1>1. operations \in Seq(Nat)
  BY SeqMonotonic DEF TypeOK
<1>2. Idle \in Frame
  BY IdleType
<1>3. RollbackWalk \in Frame
  BY <1>1, <1>2 DEF RollbackWalk, Frame
<1>4. RollbackWalk.log = operations /\ RollbackWalk.pc = "rollback"
  BY <1>2 DEF RollbackWalk, Frame
<1> QED
  BY <1>3, <1>4 DEF Walking, TypeOK

LEMMA SavepointWalkType ==
    ASSUME TypeOK, NEW n \in DOMAIN savepoints,
           savepoints[n].index < Len(operations)
    PROVE  /\ Walking(SavepointWalk(n))
           /\ SavepointWalk(n).log =
                 SubSeq(operations, savepoints[n].index + 1, Len(operations))
           /\ SavepointWalk(n).pc = "savepoint"
           /\ SavepointWalk(n).savepoint = savepoints[n]
           /\ SavepointWalk(n).at = n
<1> DEFINE log == SubSeq(operations, savepoints[n].index + 1, Len(operations))
<1>1. n \in Nat /\ savepoints[n] \in Savepoint
  BY LenProperties, ElementOfSeq DEF TypeOK
<1>2. savepoints[n].index \in Nat /\ Len(operations) \in Nat
  BY <1>1, LenProperties DEF Savepoint, TypeOK
<1>3. \A i \in (savepoints[n].index + 1)..Len(operations) :
         operations[i] \in 1..Len(records)
  BY <1>2, ElementOfSeq DEF TypeOK
<1>4. log \in Seq(1..Len(records))
  BY <1>2, <1>3, SubSeqProperties
<1>5. log \in Seq(Nat)
  BY <1>4, SeqMonotonic
<1>6. Idle \in Frame
  BY IdleType
<1> HIDE DEF log
<1>7. SavepointWalk(n) =
         [Idle EXCEPT !.pc = "savepoint", !.log = log,
                      !.savepoint = savepoints[n], !.at = n]
  BY DEF SavepointWalk, log
<1>8. SavepointWalk(n) \in Frame
  BY <1>1, <1>5, <1>6, <1>7 DEF Frame
<1>9. /\ SavepointWalk(n).log = log
      /\ SavepointWalk(n).pc = "savepoint"
      /\ SavepointWalk(n).savepoint = savepoints[n]
      /\ SavepointWalk(n).at = n
  BY <1>6, <1>7 DEF Frame
<1> QED
  BY <1>4, <1>8, <1>9 DEF Walking, log

LEMMA RollbackType ==
    ASSUME TypeOK, NEW t \in Task, faults' \subseteq Fault,
           Rollback(t) \/ RollbackToSavepoint(t)
    PROVE  TypeOK'
<1>1. CASE Rollback(t)
  <2>1. WalkOn(t, RollbackWalk, records, Len(operations))
    BY <1>1 DEF Rollback, RollbackWalk
  <2>2. Len(operations) \in 0..Len(RollbackWalk.log)
    BY RollbackWalkType, LenProperties DEF TypeOK
  <2>3. records \in Seq(OperationRecord) /\ CacheTyped
        /\ UNCHANGED <<created, dirty>>
    BY <1>1, CacheKept DEF TypeOK, Rollback
  <2> QED
    BY <2>1, <2>2, <2>3, RollbackWalkType, WalkOnType
<1>2. CASE RollbackToSavepoint(t)
  <2>1. PICK n \in DOMAIN savepoints :
          /\ savepoints[n].index < Len(operations)
          /\ WalkOn(t, SavepointWalk(n), records, Len(SavepointWalk(n).log))
    <3>1. PICK n \in DOMAIN savepoints :
            /\ savepoints[n].index < Len(operations)
            /\ WalkOn(t, SavepointWalk(n), records,
                      Len(SubSeq(operations, savepoints[n].index + 1,
                                 Len(operations))))
      BY <1>2 DEF RollbackToSavepoint, SavepointWalk
    <3> QED
      BY <3>1, SavepointWalkType
  <2>2. Walking(SavepointWalk(n))
    BY <2>1, SavepointWalkType
  <2>3. Len(SavepointWalk(n).log) \in 0..Len(SavepointWalk(n).log)
    BY <2>2, LenProperties DEF Walking
  <2>4. records \in Seq(OperationRecord) /\ CacheTyped
        /\ UNCHANGED <<created, dirty>>
    BY <1>2, CacheKept DEF TypeOK, RollbackToSavepoint
  <2> QED
    BY <2>1, <2>2, <2>3, <2>4, WalkOnType
<1> QED
  BY <1>1, <1>2

\* A suspended rollback awaits the compensation of a record of its list.
LEMMA CallingFacts ==
    ASSUME TypeOK, NEW t \in Task, Calling(t)
    PROVE  /\ Walking(frame[t])
           /\ Walking([frame[t] EXCEPT !.failed = TRUE])
           /\ [frame[t] EXCEPT !.failed = TRUE].log = frame[t].log
           /\ [frame[t] EXCEPT !.failed = TRUE].pc = frame[t].pc
           /\ [frame[t] EXCEPT !.failed = TRUE].savepoint = frame[t].savepoint
           /\ [frame[t] EXCEPT !.failed = TRUE].at = frame[t].at
           /\ frame[t].pos \in 1..Len(frame[t].log)
           /\ Below(frame[t]) \in 0..Len(frame[t].log)
           /\ Below(frame[t]) \in {0, frame[t].pos - 1}
           /\ Called(t) \in 1..Len(records)
           /\ Called(t) = frame[t].log[frame[t].pos]
           /\ records[Called(t)] \in OperationRecord
<1>1. frame[t] \in Frame /\ frame[t].log \in Seq(1..Len(records))
  BY DEF TypeOK
<1>2. frame[t].pos \in 1..Len(frame[t].log) /\ Len(frame[t].log) \in Nat
  BY <1>1, LenProperties DEF TypeOK
<1>3. Called(t) \in 1..Len(records)
  BY <1>1, <1>2, ElementOfSeq DEF Called
<1>4. records[Called(t)] \in OperationRecord
  BY <1>3, ElementOfSeq DEF TypeOK
<1>5. ASSUME NEW f \in Frame
      PROVE  /\ [f EXCEPT !.failed = TRUE] \in Frame
             /\ [f EXCEPT !.failed = TRUE].log = f.log
             /\ [f EXCEPT !.failed = TRUE].pc = f.pc
             /\ [f EXCEPT !.failed = TRUE].savepoint = f.savepoint
             /\ [f EXCEPT !.failed = TRUE].at = f.at
  BY DEF Frame
<1>6. /\ [frame[t] EXCEPT !.failed = TRUE] \in Frame
      /\ [frame[t] EXCEPT !.failed = TRUE].log = frame[t].log
      /\ [frame[t] EXCEPT !.failed = TRUE].pc = frame[t].pc
      /\ [frame[t] EXCEPT !.failed = TRUE].savepoint = frame[t].savepoint
      /\ [frame[t] EXCEPT !.failed = TRUE].at = frame[t].at
  BY <1>1, <1>5
<1> HIDE DEF Called
<1>7. Below(frame[t]) \in {0, frame[t].pos - 1}
  BY DEF Below
<1>8. Below(frame[t]) \in 0..Len(frame[t].log)
  BY <1>2, <1>7
<1> QED
  BY <1>1, <1>2, <1>3, <1>4, <1>6, <1>7, <1>8 DEF Walking, Calling, Called

\* A compensation touches only the count of effects; a new status follows.
LEMMA CompensatedFacts ==
    ASSUME NEW r \in OperationRecord
    PROVE  /\ Compensated(r) \in OperationRecord
           /\ Compensated(r).kind = r.kind
           /\ Compensated(r).model = r.model
           /\ Compensated(r).data = r.data
           /\ Compensated(r).status = r.status
           /\ Compensated(r).effects > 0
           /\ Compensated(r).effects <= r.effects + 1
           /\ \A s \in {"success", "failed"} :
                 /\ [r EXCEPT !.status = s] \in OperationRecord
                 /\ [r EXCEPT !.status = s].status = s
                 /\ [r EXCEPT !.status = s].effects = r.effects
                 /\ [r EXCEPT !.status = s].model = r.model
                 /\ [r EXCEPT !.status = s].kind = r.kind
BY DEF Compensated, OperationRecord

\* The outcome of an awaited compensation: the called record becomes r with
\* status s, and walk f goes on with the records recs.
Turn(t, f, r, s, recs) ==
    /\ Calling(t)
    /\ f \in {frame[t], [frame[t] EXCEPT !.failed = TRUE]}
    /\ r \in {records[Called(t)], Compensated(records[Called(t)])}
    /\ s \in {"success", "failed"}
    /\ s = "success" => \/ r = Compensated(records[Called(t)])
                         \/ /\ records[Called(t)].kind = "create"
                            /\ "missing" \in faults'
    /\ recs \in Seq(OperationRecord)
    /\ Len(recs) = Len(records)
    /\ \A j \in 1..Len(records) :
          recs[j] = IF j = Called(t) THEN [r EXCEPT !.status = s] ELSE records[j]
    /\ WalkOn(t, f, recs, Below(frame[t]))
    /\ Written(records[Called(t)].model)
    /\ UNCHANGED <<created, dirty>>

CompensationEnds(t) ==
    \/ CompensationReturns(t)
    \/ CompensationFails(t) /\ "failure" \in faults'
    \/ CompensationMissing(t) /\ "missing" \in faults'

LEMMA CompensationTurn ==
    ASSUME TypeOK, NEW t \in Task, CompensationEnds(t)
    PROVE  \E f, r, s, recs : Turn(t, f, r, s, recs)
<1> DEFINE i == Called(t)
<1>1. Calling(t)
  BY DEF CompensationEnds, CompensationReturns, CompensationFails,
     CompensationMissing
<1>2. i \in 1..Len(records) /\ records[i] \in OperationRecord
  BY <1>1, CallingFacts
<1> HIDE DEF i
<1>3. ASSUME NEW r \in {records[i], Compensated(records[i])},
             NEW s \in {"success", "failed"}
      PROVE  LET recs == [records EXCEPT ![i] = [r EXCEPT !.status = s]]
             IN  /\ recs \in Seq(OperationRecord)
                 /\ Len(recs) = Len(records)
                 /\ \A j \in 1..Len(records) :
                       recs[j] = IF j = i THEN [r EXCEPT !.status = s]
                                 ELSE records[j]
  <2>1. r \in OperationRecord
    BY <1>2, CompensatedFacts
  <2>2. [r EXCEPT !.status = s] \in OperationRecord
    BY <2>1, CompensatedFacts
  <2> QED
    BY <1>2, <2>2, ExceptSeq DEF TypeOK
<1>4. ASSUME NEW r \in {records[i], Compensated(records[i])}
      PROVE  r.model = records[i].model
  <2>1. Compensated(records[i]).model = records[i].model
    BY <1>2, CompensatedFacts
  <2>2. r = records[i] \/ r = Compensated(records[i])
    OBVIOUS
  <2> QED
    BY <2>1, <2>2, Zenon
<1>5. CASE CompensationReturns(t)
  <2> DEFINE r == Compensated(records[i])
             recs == [records EXCEPT ![i] = [r EXCEPT !.status = "success"]]
  <2>1. r.model = records[i].model /\ [r EXCEPT !.status = "success"].model = r.model
    <3>1. r \in OperationRecord /\ r.model = records[i].model
      BY <1>2, CompensatedFacts
    <3> HIDE DEF r
    <3> QED BY <3>1, CompensatedFacts
  <2>2. /\ WalkOn(t, frame[t], recs, Below(frame[t]))
        /\ Written([r EXCEPT !.status = "success"].model)
        /\ UNCHANGED <<created, dirty>>
    BY <1>5 DEF CompensationReturns, i
  <2>3. Written(records[i].model)
    BY <2>1, <2>2, Zenon
  <2>4. Turn(t, frame[t], r, "success", recs)
    BY <1>1, <1>3, <2>2, <2>3 DEF Turn, i
  <2> QED
    BY <2>4
<1>6. CASE CompensationFails(t)
  <2>1. PICK r \in {records[i], Compensated(records[i])} :
          /\ WalkOn(t, [frame[t] EXCEPT !.failed = TRUE],
                    [records EXCEPT ![i] = [r EXCEPT !.status = "failed"]],
                    Below(frame[t]))
          /\ Written(r.model)
    BY <1>6 DEF CompensationFails, i
  <2> DEFINE f == [frame[t] EXCEPT !.failed = TRUE]
             recs == [records EXCEPT ![i] = [r EXCEPT !.status = "failed"]]
  <2>2. Written(records[i].model)
    BY <1>4, <2>1, Zenon
  <2>3. UNCHANGED <<created, dirty>>
    BY <1>6 DEF CompensationFails
  <2>4. Turn(t, f, r, "failed", recs)
    BY <1>1, <1>3, <2>1, <2>2, <2>3 DEF Turn, i
  <2> QED
    BY <2>4
<1>7. CASE CompensationMissing(t) /\ "missing" \in faults'
  <2>1. PICK r \in {records[i], Compensated(records[i])} :
          /\ WalkOn(t, frame[t],
                    [records EXCEPT ![i] = [r EXCEPT !.status = "success"]],
                    Below(frame[t]))
          /\ Written(r.model)
    BY <1>7 DEF CompensationMissing, i
  <2> DEFINE recs == [records EXCEPT ![i] = [r EXCEPT !.status = "success"]]
  <2>2. Written(records[i].model)
    BY <1>4, <2>1, Zenon
  <2>3. UNCHANGED <<created, dirty>> /\ records[i].kind = "create"
    BY <1>7 DEF CompensationMissing, i
  <2>4. Turn(t, frame[t], r, "success", recs)
    BY <1>1, <1>3, <1>7, <2>1, <2>2, <2>3 DEF Turn, i
  <2> QED
    BY <2>4
<1> QED
  BY <1>5, <1>6, <1>7 DEF CompensationEnds

LEMMA CompensationType ==
    ASSUME TypeOK, NEW t \in Task, faults' \subseteq Fault, CompensationEnds(t)
    PROVE  TypeOK'
<1>1. PICK f, r, s, recs : Turn(t, f, r, s, recs)
  BY CompensationTurn
<1>2. Walking(f) /\ Below(frame[t]) \in 0..Len(f.log)
  <2>1. CASE f = frame[t]
    BY <1>1, <2>1, CallingFacts DEF Turn
  <2>2. CASE f = [frame[t] EXCEPT !.failed = TRUE]
    BY <1>1, <2>2, CallingFacts DEF Turn
  <2> QED
    BY <1>1, <2>1, <2>2 DEF Turn
<1>3. CacheTyped
  <2>1. Calling(t) /\ Written(records[Called(t)].model)
    BY <1>1 DEF Turn
  <2>2. records[Called(t)].model \in Model
    BY <2>1, CallingFacts DEF OperationRecord
  <2> QED
    BY <2>1, <2>2, WrittenType
<1> QED
  BY <1>1, <1>2, <1>3, WalkOnType DEF Turn

LEMMA CancelledType ==
    ASSUME TypeOK, NEW t \in Task, Cancelled(t), faults' \subseteq Fault
    PROVE  TypeOK'
<1>1. /\ records' \in Seq(OperationRecord)
      /\ Len(records') = Len(records)
      /\ CacheTyped
  <2>1. CASE UNCHANGED <<records, cacheVars>>
    BY <2>1, CacheKept DEF TypeOK
  <2>2. CASE /\ Calling(t)
             /\ records' = [records EXCEPT ![Called(t)] = Compensated(@)]
             /\ Written(records[Called(t)].model)
    <3>1. Called(t) \in 1..Len(records) /\ records[Called(t)] \in OperationRecord
      BY <2>2, CallingFacts
    <3>2. Compensated(records[Called(t)]) \in OperationRecord
      BY <3>1, CompensatedFacts
    <3>3. records[Called(t)].model \in Model
      BY <3>1 DEF OperationRecord
    <3> QED
      BY <2>2, <3>1, <3>2, <3>3, WrittenType, ExceptSeq DEF TypeOK
  <2> QED
    BY <2>1, <2>2 DEF Cancelled
<1>2. FramesFollow
  BY DEF Cancelled, FramesFollow, TypeOK
<1>3. Len(records) \in Nat
  BY LenProperties DEF TypeOK
<1> QED
  BY <1>1, <1>2, <1>3, FramesFollowType DEF TypeOK, Cancelled, CacheTyped

\* The frame of a commit, with any set of targets left.
LEMMA CommitFrameType ==
    ASSUME NEW targets \in SUBSET (Model \X KeyForm)
    PROVE  /\ [Idle EXCEPT !.pc = "commit", !.targets = targets] \in Frame
           /\ [Idle EXCEPT !.pc = "commit", !.targets = targets].log = <<>>
           /\ [Idle EXCEPT !.pc = "commit", !.targets = targets].pc = "commit"
           /\ [Idle EXCEPT !.pc = "commit", !.targets = targets].targets = targets
BY IdleType DEF Frame

LEMMA CommitType ==
    ASSUME TypeOK, NEW t \in Task, faults' \subseteq Fault,
           Commit(t) \/ InvalidationReturns(t) \/ InvalidationFails(t)
    PROVE  TypeOK'
<1>1. CASE Commit(t)
  <2>1. CASE UNCHANGED frame
    BY <1>1, <2>1 DEF TypeOK, Commit, TransactionState, Calling, cacheVars
  <2>2. CASE frame' = [frame EXCEPT ![t] =
                          [Idle EXCEPT !.pc = "commit", !.targets = dirty]]
    <3>1. \A u \in Task : frame'[u] =
            IF u = t THEN [Idle EXCEPT !.pc = "commit", !.targets = dirty]
            ELSE frame[u]
      BY <2>2 DEF TypeOK
    <3>2. frame' \in [Task -> Frame]
      BY <2>2, CommitFrameType DEF TypeOK
    <3>3. \A u \in Task : frame'[u].log \in Seq(1..Len(records))
      <4>1. <<>> \in Seq(1..Len(records)) /\ dirty \in SUBSET (Model \X KeyForm)
        BY EmptySeq DEF TypeOK
      <4>2. \A u \in Task : frame'[u].log \in {<<>>, frame[u].log}
        <5> DEFINE g == [Idle EXCEPT !.pc = "commit", !.targets = dirty]
        <5>1. g.log = <<>>
          BY <4>1, CommitFrameType
        <5> HIDE DEF g
        <5>2. \A u \in Task : frame'[u] = IF u = t THEN g ELSE frame[u]
          BY <3>1 DEF g
        <5> QED
          BY <5>1, <5>2
      <4> QED
        BY <4>1, <4>2 DEF TypeOK
    <3>4. \A u \in Task : Calling(u)' => frame'[u].pos \in DOMAIN frame'[u].log
      BY <3>1, CommitFrameType DEF TypeOK, Calling
    <3> QED
      BY <1>1, <3>2, <3>3, <3>4 DEF TypeOK, Commit, TransactionState, cacheVars
  <2> QED
    BY <1>1, <2>1, <2>2 DEF Commit
<1>2. ASSUME NEW m \in frame[t].targets, Invalidate(t, m),
             frame[t].pc = "commit", CacheTyped
      PROVE  TypeOK'
  <2>1. CASE frame' = [frame EXCEPT ![t] = Idle] /\ state' = "committed"
    <3>1. FramesFollow
      BY <2>1 DEF FramesFollow, TypeOK
    <3>2. Len(records) \in Nat /\ records' = records
      BY <1>2, LenProperties DEF TypeOK, Invalidate
    <3> QED
      BY <1>2, <2>1, <3>1, <3>2, FramesFollowType
      DEF TypeOK, Invalidate, TransactionState, CacheTyped
  <2>2. CASE /\ frame' = [frame EXCEPT ![t].targets = Left(@, m)]
             /\ UNCHANGED state
    <3>1. ASSUME NEW f \in Frame
          PROVE  /\ [f EXCEPT !.targets = Left(@, m)] \in Frame
                 /\ [f EXCEPT !.targets = Left(@, m)].log = f.log
                 /\ [f EXCEPT !.targets = Left(@, m)].pc = f.pc
      BY DEF Frame, Left
    <3>2. frame[t] \in Frame /\ frame \in [Task -> Frame]
      BY DEF TypeOK
    <3>3. frame' = [frame EXCEPT
                       ![t] = [frame[t] EXCEPT !.targets = Left(@, m)]]
      BY <2>2
    <3>4. \A u \in Task : frame'[u] =
             IF u = t THEN [frame[t] EXCEPT !.targets = Left(@, m)]
             ELSE frame[u]
      BY <3>2, <3>3
    <3>5. frame' \in [Task -> Frame]
      BY <3>1, <3>2, <3>3
    <3>6. \A u \in Task : frame'[u].log = frame[u].log /\ frame'[u].pc = frame[u].pc
      BY <3>1, <3>2, <3>4
    <3>7. \A u \in Task : frame'[u].log \in Seq(1..Len(records))
      BY <3>6 DEF TypeOK
    <3>8. \A u \in Task : Calling(u)' => frame'[u].pos \in DOMAIN frame'[u].log
      BY <1>2, <3>4, <3>6 DEF TypeOK, Calling
    <3> QED
      BY <1>2, <2>2, <3>5, <3>7, <3>8 DEF TypeOK, Invalidate, CacheTyped
  <2> QED
    BY <1>2, <2>1, <2>2 DEF Invalidate
<1>3. CASE InvalidationReturns(t)
  <2>1. PICK m \in frame[t].targets :
          /\ Invalidate(t, m)
          /\ stale' = IF Reached(m) THEN stale \ {m} ELSE stale
    BY <1>3 DEF InvalidationReturns, NextTargets
  <2>2. CacheTyped /\ frame[t].pc = "commit"
    BY <1>3, <2>1 DEF InvalidationReturns, TypeOK, CacheTyped
  <2> QED
    BY <1>2, <2>1, <2>2
<1>4. CASE InvalidationFails(t)
  <2>1. PICK m \in frame[t].targets : Invalidate(t, m) /\ missed' = missed \cup {m}
    BY <1>4 DEF InvalidationFails, NextTargets
  <2>2. m \in Entry
    BY DEF TypeOK, Frame, Entry
  <2>3. CacheTyped /\ frame[t].pc = "commit"
    BY <1>4, <2>1, <2>2 DEF InvalidationFails, TypeOK, CacheTyped
  <2> QED
    BY <1>2, <2>1, <2>3
<1> QED
  BY <1>1, <1>3, <1>4

\* The history variable shows whether a call began beside another.
Noted == "overlap" \in faults' \/ \A u \in Task : Free(u)

LEMMA NextCases ==
    ASSUME TypeOK, Next
    PROVE  /\ faults' \subseteq Fault
           /\ faults \subseteq faults'
           /\ \E t \in Task :
                \/ AddOperation(t) /\ Noted
                \/ CreateSavepoint(t) /\ Noted
                \/ ReleaseSavepoint(t) /\ Noted
                \/ SetContext(t)
                \/ (Rollback(t) \/ RollbackToSavepoint(t)) /\ Noted
                \/ CompensationEnds(t)
                \/ Cancelled(t) /\ "cancellation" \in faults'
                \/ Commit(t) /\ Noted
                \/ InvalidationReturns(t)
                \/ InvalidationFails(t) /\ "failure" \in faults'
<1>1. faults' \subseteq Fault /\ faults \subseteq faults'
  BY DEF TypeOK, Next, Begin, Resume, Seen
<1>2. PICK t \in Task : \/ Begin(t)
                        \/ SetContext(t) /\ Seen({})
                        \/ Resume(t)
                        \/ Cancelled(t) /\ Seen({"cancellation"})
  BY DEF Next
<1>3. CASE Begin(t)
  <2>1. Noted
    BY <1>3 DEF Begin, Seen, Noted
  <2> QED
    BY <1>1, <1>3, <2>1 DEF Begin, Call
<1> QED
  BY <1>1, <1>2, <1>3 DEF Resume, Seen, CompensationEnds

LEMMA TypeNext == TypeOK /\ [Next]_vars => TypeOK'
<1> SUFFICES ASSUME TypeOK, [Next]_vars PROVE TypeOK'
  OBVIOUS
<1>1. CASE Next
  <2>1. faults' \subseteq Fault
    BY <1>1, NextCases
  <2>2. PICK t \in Task :
           \/ AddOperation(t)
           \/ CreateSavepoint(t) \/ ReleaseSavepoint(t) \/ SetContext(t)
           \/ Rollback(t) \/ RollbackToSavepoint(t)
           \/ CompensationEnds(t)
           \/ Cancelled(t)
           \/ Commit(t) \/ InvalidationReturns(t) \/ InvalidationFails(t)
    BY <1>1, NextCases
  <2> QED
    BY <2>1, <2>2, AddOperationType, SavepointsType, RollbackType,
       CompensationType, CancelledType, CommitType
<1>2. CASE UNCHANGED vars
  BY <1>2 DEF vars, cacheVars, TypeOK, Calling
<1> QED
  BY <1>1, <1>2

\* Every variable keeps its type, for any number of tasks and operations,
\* with failing and cancelled calls.
THEOREM TypeCorrect == Spec => []TypeOK
BY TypeInit, TypeNext, PTL DEF Spec

(****************************************************************************)
(* Order of compensation and truth of the statuses, with any overlap.       *)
(****************************************************************************)

\* What one turn of a walk does: the records it skips, and either the call it
\* awaits next or its end.
WalkStep(t, f, recs, p, k) ==
    /\ k \in 0..p
    /\ k > 0 => CanRollback(recs[f.log[k]])
    /\ \A j \in (k + 1)..p : ~CanRollback(recs[f.log[j]])
    /\ records' = Skipped(recs, f.log, k, p)
    /\ \/ /\ k > 0
          /\ frame' = [frame EXCEPT ![t] = [f EXCEPT !.pos = k]]
          /\ UNCHANGED <<state, operations, savepoints, context>>
       \/ k = 0 /\ f.pc = "rollback" /\ FinishRollback(t, f)
       \/ k = 0 /\ f.pc = "savepoint" /\ FinishSavepoint(t, f)

LEMMA WalkOnStep ==
    ASSUME NEW t, NEW f, NEW recs, NEW p, WalkOn(t, f, recs, p)
    PROVE  \E k : WalkStep(t, f, recs, p, k)
BY DEF WalkOn, WalkStep

LEMMA WalkStepRecords ==
    ASSUME NEW t \in Task, NEW f, Walking(f),
           NEW recs \in Seq(OperationRecord), Len(recs) = Len(records),
           NEW p \in 0..Len(f.log), NEW k, WalkStep(t, f, recs, p, k)
    PROVE  /\ Len(records') = Len(records)
           /\ \A i \in 1..Len(records) :
                 /\ records'[i].status \in {recs[i].status, "skipped"}
                 /\ records'[i].effects = recs[i].effects
                 /\ records'[i].data = recs[i].data
                 /\ records'[i].model = recs[i].model
                 /\ records'[i].kind = recs[i].kind
           /\ \A j \in (k + 1)..p : records'[f.log[j]].status = "skipped"
           /\ k > 0 => records'[f.log[k]] = recs[f.log[k]]
<1>1. /\ k \in 0..p /\ Len(f.log) \in Nat
      /\ records' = Skipped(recs, f.log, k, p)
  BY LenProperties DEF WalkStep, Walking
<1>2. \A j \in 1..p : f.log[j] \in 1..Len(recs)
  BY <1>1, ElementOfSeq DEF Walking
<1>3. k > 0 => \A j \in (k + 1)..p : f.log[j] # f.log[k]
  BY DEF WalkStep
<1>4. \A j \in (k + 1)..p : records'[f.log[j]].status = "skipped"
  <2> SUFFICES ASSUME NEW j \in (k + 1)..p
               PROVE  records'[f.log[j]].status = "skipped"
    OBVIOUS
  <2> DEFINE i == f.log[j]
  <2>1. i \in 1..Len(recs)
    BY <1>1, <1>2
  <2>2. \E h \in (k + 1)..p : f.log[h] = i
    OBVIOUS
  <2> HIDE DEF i
  <2>3. Skipped(recs, f.log, k, p)[i].status = "skipped"
    BY <2>1, <2>2, SkippedFacts
  <2> QED
    BY <1>1, <2>3 DEF i
<1>5. k > 0 => records'[f.log[k]] = recs[f.log[k]]
  <2> SUFFICES ASSUME k > 0
               PROVE  records'[f.log[k]] = recs[f.log[k]]
    OBVIOUS
  <2> DEFINE i == f.log[k]
  <2>1. i \in 1..Len(recs)
    BY <1>1, <1>2
  <2>2. \A h \in (k + 1)..p : f.log[h] # i
    BY <1>3
  <2> HIDE DEF i
  <2>3. Skipped(recs, f.log, k, p)[i] = recs[i]
    BY <2>1, <2>2, SkippedFacts
  <2> QED
    BY <1>1, <2>3 DEF i
<1> QED
  BY <1>1, <1>4, <1>5, SkippedFacts

LEMMA WalkStepFrames ==
    ASSUME TypeOK, NEW t \in Task, NEW f, Walking(f),
           NEW recs, NEW p \in 0..Len(f.log), NEW k, WalkStep(t, f, recs, p, k)
    PROVE  /\ \A u \in Task \ {t} :
                 /\ frame'[u].pc = frame[u].pc
                 /\ frame'[u].log = frame[u].log
                 /\ frame'[u].pos = frame[u].pos
           /\ k = 0 => frame'[t] = Idle
           /\ k > 0 => /\ frame'[t].pc = f.pc
                       /\ frame'[t].log = f.log
                       /\ frame'[t].pos = k
                       /\ frame'[t].savepoint = f.savepoint
                       /\ frame'[t].at = f.at
<1>1. k \in Nat /\ f \in Frame
  BY LenProperties DEF WalkStep, Walking
<1>2. CASE k > 0
  <2> DEFINE g == [f EXCEPT !.pos = k]
  <2>1. /\ g.pc = f.pc /\ g.log = f.log /\ g.pos = k
        /\ g.savepoint = f.savepoint /\ g.at = f.at
    BY <1>1, FrameUpdates
  <2> HIDE DEF g
  <2>2. frame' = [frame EXCEPT ![t] = g]
    BY <1>2 DEF WalkStep, g
  <2>3. \A u \in Task : frame'[u] = IF u = t THEN g ELSE frame[u]
    BY <2>2 DEF TypeOK
  <2> QED
    BY <1>2, <2>1, <2>3
<1>3. CASE k = 0
  <2>1. frame'[t] = Idle
    BY <1>3 DEF WalkStep, FinishRollback, FinishSavepoint
  <2>2. ASSUME NEW u \in Task \ {t}
        PROVE  /\ frame'[u].pc = frame[u].pc
               /\ frame'[u].log = frame[u].log
               /\ frame'[u].pos = frame[u].pos
    <3>1. ASSUME NEW h \in Frame, NEW w \in {"own", "copy", "ended"}
          PROVE  /\ [h EXCEPT !.walked = w].pc = h.pc
                 /\ [h EXCEPT !.walked = w].log = h.log
                 /\ [h EXCEPT !.walked = w].pos = h.pos
      BY FrameUpdates
    <3>2. frame[u] \in Frame
      BY DEF TypeOK
    <3>3. /\ [frame[u] EXCEPT !.walked = "ended"].pc = frame[u].pc
          /\ [frame[u] EXCEPT !.walked = "ended"].log = frame[u].log
          /\ [frame[u] EXCEPT !.walked = "ended"].pos = frame[u].pos
          /\ [frame[u] EXCEPT !.walked = "copy"].pc = frame[u].pc
          /\ [frame[u] EXCEPT !.walked = "copy"].log = frame[u].log
          /\ [frame[u] EXCEPT !.walked = "copy"].pos = frame[u].pos
      BY <3>1, <3>2
    <3>4. \/ frame'[u] = frame[u]
          \/ frame'[u] = [frame[u] EXCEPT !.walked = "ended"]
          \/ frame'[u] = [frame[u] EXCEPT !.walked = "copy"]
      BY <1>3 DEF WalkStep, FinishRollback, FinishSavepoint
    <3> QED
      BY <3>3, <3>4, Zenon
  <2> QED
    BY <1>3, <2>1, <2>2
<1> QED
  BY <1>1, <1>2, <1>3

\* The walk of task u is newest first (ReverseOrder, of one task).
NewestFirst(u) ==
    Calling(u) =>
        \A j \in (frame[u].pos + 1)..Len(frame[u].log) :
            records[frame[u].log[j]].status # "pending"

\* No record becomes pending again in a step.
NoneBack ==
    \A i \in 1..Len(records) :
        records[i].status # "pending" => records'[i].status # "pending"

\* A task whose walk a step leaves alone keeps its order.
LEMMA NewestFirstKept ==
    ASSUME TypeOK, NEW u \in Task, NewestFirst(u), NoneBack,
           Calling(u)' => /\ Calling(u)
                          /\ frame'[u].log = frame[u].log
                          /\ frame'[u].pos = frame[u].pos
    PROVE  NewestFirst(u)'
<1>1. SUFFICES ASSUME Calling(u)',
                      NEW j \in (frame[u].pos + 1)..Len(frame[u].log)
               PROVE  records'[frame[u].log[j]].status # "pending"
  BY DEF NewestFirst
<1>2. /\ frame[u].log \in Seq(1..Len(records))
      /\ frame[u].pos \in 1..Len(frame[u].log)
      /\ Len(frame[u].log) \in Nat
  BY <1>1, LenProperties DEF TypeOK
<1>3. j \in 1..Len(frame[u].log)
  BY <1>2
<1>4. frame[u].log[j] \in 1..Len(records)
  BY <1>2, <1>3, ElementOfSeq
<1>5. records[frame[u].log[j]].status # "pending"
  BY <1>1 DEF NewestFirst
<1> QED
  BY <1>4, <1>5 DEF NoneBack

LEMMA NewestFirstWalk ==
    ASSUME TypeOK, ReverseOrder, NEW t \in Task, NEW f, Walking(f),
           NEW recs \in Seq(OperationRecord), Len(recs) = Len(records),
           NEW p \in 0..Len(f.log), WalkOn(t, f, recs, p),
           \A i \in 1..Len(records) :
              records[i].status # "pending" => recs[i].status # "pending",
           p > 0 => \A j \in (p + 1)..Len(f.log) :
                       recs[f.log[j]].status # "pending"
    PROVE  ReverseOrder'
<1>1. PICK k : WalkStep(t, f, recs, p, k)
  BY WalkOnStep
<1>2. /\ \A i \in 1..Len(records) :
            records'[i].status \in {recs[i].status, "skipped"}
      /\ \A j \in (k + 1)..p : records'[f.log[j]].status = "skipped"
  BY <1>1, WalkStepRecords
<1>3. NoneBack
  BY <1>2 DEF NoneBack
<1>4. k \in 0..p /\ Len(f.log) \in Nat
  BY <1>1, LenProperties DEF WalkStep, Walking
<1>5. ASSUME NEW u \in Task PROVE NewestFirst(u)'
  <2>1. CASE u # t
    <3>1. /\ frame'[u].pc = frame[u].pc
          /\ frame'[u].log = frame[u].log
          /\ frame'[u].pos = frame[u].pos
      BY <1>1, <2>1, WalkStepFrames
    <3>2. NewestFirst(u)
      BY DEF ReverseOrder, NewestFirst
    <3> QED
      BY <1>3, <3>1, <3>2, NewestFirstKept DEF Calling
  <2>2. CASE u = t /\ k = 0
    <3>1. frame'[t] = Idle
      BY <1>1, <2>2, WalkStepFrames
    <3> QED
      BY <2>2, <3>1, IdleType DEF NewestFirst, Calling
  <2>3. CASE u = t /\ k > 0
    <3>0. k > 0
      BY <2>3
    <3>1. frame'[t].log = f.log /\ frame'[t].pos = k
      BY <1>1, <3>0, WalkStepFrames
    <3>2. ASSUME NEW j \in (k + 1)..Len(f.log)
          PROVE  records'[f.log[j]].status # "pending"
      <4>1. CASE j <= p
        BY <1>2, <1>4, <4>1
      <4>2. CASE j > p
        <5>1. j \in (p + 1)..Len(f.log) /\ j \in 1..Len(f.log) /\ p > 0
          BY <1>4, <2>3, <4>2
        <5>2. f.log[j] \in 1..Len(records)
          BY <5>1, ElementOfSeq DEF Walking
        <5>3. recs[f.log[j]].status # "pending"
          BY <5>1
        <5> QED
          BY <1>2, <5>2, <5>3
      <4> QED
        BY <1>4, <4>1, <4>2
    <3> QED
      BY <2>3, <3>1, <3>2 DEF NewestFirst
  <2> QED
    BY <1>4, <2>1, <2>2, <2>3
<1> QED
  BY <1>5 DEF ReverseOrder, NewestFirst

\* A step that calls nothing back and forgets no outcome.
LEMMA ReverseOrderKept ==
    ASSUME TypeOK, ReverseOrder, NoneBack,
           \A u \in Task :
              Calling(u)' => /\ Calling(u)
                             /\ frame'[u].log = frame[u].log
                             /\ frame'[u].pos = frame[u].pos
    PROVE  ReverseOrder'
<1>1. ASSUME NEW u \in Task PROVE NewestFirst(u)'
  <2>1. NewestFirst(u)
    BY DEF ReverseOrder, NewestFirst
  <2> QED
    BY <2>1, NewestFirstKept
<1> QED
  BY <1>1 DEF ReverseOrder, NewestFirst

\* Steps that neither begin a rollback nor go on with one.
OtherStep(t) ==
    \/ AddOperation(t) /\ Noted
    \/ CreateSavepoint(t) /\ Noted
    \/ ReleaseSavepoint(t) /\ Noted
    \/ SetContext(t)
    \/ Cancelled(t) /\ "cancellation" \in faults'
    \/ Commit(t) /\ Noted
    \/ InvalidationReturns(t)
    \/ InvalidationFails(t) /\ "failure" \in faults'

\* They change no walk.
LEMMA OtherStepFrames ==
    ASSUME TypeOK, NEW t \in Task, OtherStep(t)
    PROVE  \A u \in Task :
              Calling(u)' => frame'[u] = frame[u] /\ Calling(u)
<1>1. CASE \/ AddOperation(t)
           \/ CreateSavepoint(t) \/ ReleaseSavepoint(t) \/ SetContext(t)
  BY <1>1
  DEF AddOperation, CreateSavepoint, ReleaseSavepoint, SetContext, Calling
<1>2. CASE Cancelled(t)
  BY <1>2, IdleType DEF Cancelled, Calling, TypeOK
<1>3. CASE Commit(t)
  <2> DEFINE g == [Idle EXCEPT !.pc = "commit", !.targets = dirty]
  <2>1. g.pc = "commit"
    BY CommitFrameType DEF TypeOK
  <2> HIDE DEF g
  <2>2. UNCHANGED frame \/ frame' = [frame EXCEPT ![t] = g]
    BY <1>3 DEF Commit, g
  <2> QED
    BY <2>1, <2>2 DEF Calling, TypeOK
<1>4. CASE InvalidationReturns(t) \/ InvalidationFails(t)
  <2>1. frame[t].pc = "commit"
    BY <1>4 DEF InvalidationReturns, InvalidationFails
  <2>2. PICK m : Invalidate(t, m)
    BY <1>4 DEF InvalidationReturns, InvalidationFails
  <2>3. ASSUME NEW f \in Frame
        PROVE  [f EXCEPT !.targets = Left(@, m)].pc = f.pc
    BY DEF Frame
  <2>4. frame[t] \in Frame /\ frame \in [Task -> Frame]
    BY DEF TypeOK
  <2> DEFINE g == [frame[t] EXCEPT !.targets = Left(@, m)]
  <2>5. g.pc = "commit"
    BY <2>1, <2>3, <2>4
  <2>6. frame' = [frame EXCEPT ![t] = g] \/ frame' = [frame EXCEPT ![t] = Idle]
    BY <2>2 DEF Invalidate
  <2> HIDE DEF g
  <2> QED
    BY <2>4, <2>5, <2>6, IdleType DEF Calling
<1> QED
  BY <1>1, <1>2, <1>3, <1>4 DEF OtherStep

\* What those steps do to the records.
LEMMA OtherStepRecords ==
    ASSUME TypeOK, NEW t \in Task, OtherStep(t)
    PROVE  /\ Len(records') \in Nat
           /\ Len(records) <= Len(records')
           /\ \A i \in 1..Len(records) :
                 /\ records'[i].status = records[i].status
                 /\ records[i].effects > 0 => records'[i].effects > 0
                 /\ records'[i].model = records[i].model
                 /\ records'[i].kind = records[i].kind
                 /\ records'[i].data = records[i].data
                 /\ ~Cancelled(t) => records'[i] = records[i]
<1>0. Len(records) \in Nat
  BY LenProperties DEF TypeOK
<1>1. CASE AddOperation(t)
  <2>1. PICK kind \in Kind, model \in Model, data \in HasData :
           records' = Append(records,
                [kind |-> kind, model |-> model, data |-> data,
                 status |-> "pending", effects |-> 0])
    BY <1>1 DEF AddOperation
  <2>2. /\ Len(records') = Len(records) + 1
        /\ \A i \in 1..Len(records) : records'[i] = records[i]
    BY <2>1, <1>0 DEF TypeOK
  <2> QED
    BY <1>0, <2>2
<1>2. CASE Cancelled(t)
  <2>1. CASE UNCHANGED records
    BY <1>0, <1>2, <2>1
  <2>2. CASE /\ Calling(t)
             /\ records' = [records EXCEPT ![Called(t)] = Compensated(@)]
    <3> DEFINE c == Called(t)
    <3>1. c \in 1..Len(records) /\ records[c] \in OperationRecord
      BY <2>2, CallingFacts
    <3> HIDE DEF c
    <3>2. /\ Compensated(records[c]) \in OperationRecord
          /\ Compensated(records[c]).status = records[c].status
          /\ Compensated(records[c]).model = records[c].model
          /\ Compensated(records[c]).kind = records[c].kind
          /\ Compensated(records[c]).data = records[c].data
      BY <3>1, CompensatedFacts
    <3>3. Compensated(records[c]).effects > 0
      BY <3>1, CompensatedFacts
    <3>4. /\ Len(records') = Len(records)
          /\ \A i \in 1..Len(records) :
                records'[i] = IF i = c THEN Compensated(records[c]) ELSE records[i]
      BY <2>2, <3>1, <3>2, ExceptSeq DEF c, TypeOK
    <3> QED
      BY <1>0, <1>2, <3>2, <3>3, <3>4
  <2> QED
    BY <1>2, <2>1, <2>2 DEF Cancelled
<1>3. CASE \/ CreateSavepoint(t) \/ ReleaseSavepoint(t) \/ SetContext(t)
           \/ Commit(t) \/ InvalidationReturns(t) \/ InvalidationFails(t)
  BY <1>0, <1>3 DEF CreateSavepoint, ReleaseSavepoint, SetContext, Commit,
     InvalidationReturns, InvalidationFails, Invalidate
<1> QED
  BY <1>1, <1>2, <1>3 DEF OtherStep

\* The first turn of a rollback, over the whole log or a slice of it.
FirstTurn(t, f) ==
    /\ WalkOn(t, f, records, Len(f.log))
    /\ \/ MayRollback /\ f = RollbackWalk
       \/ /\ state = "active"
          /\ \E n \in DOMAIN savepoints :
                savepoints[n].index < Len(operations) /\ f = SavepointWalk(n)
    /\ Free(t) /\ Noted
    /\ UNCHANGED <<created, dirty, cacheVars>>

LEMMA FirstTurnBegins ==
    ASSUME TypeOK, NEW t \in Task, Noted,
           Rollback(t) \/ RollbackToSavepoint(t)
    PROVE  \E f : FirstTurn(t, f)
<1>1. CASE Rollback(t)
  <2>1. FirstTurn(t, RollbackWalk)
    BY <1>1, RollbackWalkType DEF Rollback, RollbackWalk, FirstTurn
  <2> QED
    BY <2>1
<1>2. CASE RollbackToSavepoint(t)
  <2>1. PICK n \in DOMAIN savepoints :
          /\ savepoints[n].index < Len(operations)
          /\ WalkOn(t, SavepointWalk(n), records,
                    Len(SubSeq(operations, savepoints[n].index + 1,
                               Len(operations))))
    BY <1>2 DEF RollbackToSavepoint, SavepointWalk
  <2>2. FirstTurn(t, SavepointWalk(n))
    BY <1>2, <2>1, SavepointWalkType DEF RollbackToSavepoint, FirstTurn
  <2> QED
    BY <2>2
<1> QED
  BY <1>1, <1>2

LEMMA FirstTurnWalking ==
    ASSUME TypeOK, NEW t \in Task, NEW f, FirstTurn(t, f)
    PROVE  Walking(f) /\ Len(f.log) \in Nat
<1>1. Walking(f)
  BY RollbackWalkType, SavepointWalkType DEF FirstTurn
<1> QED
  BY <1>1, LenProperties DEF Walking

LEMMA TurnWalking ==
    ASSUME TypeOK, NEW t \in Task, NEW f, NEW r, NEW s, NEW recs,
           Turn(t, f, r, s, recs)
    PROVE  /\ Walking(f)
           /\ f.log = frame[t].log
           /\ f.pc = frame[t].pc
           /\ f.savepoint = frame[t].savepoint
           /\ f.at = frame[t].at
<1>1. CASE f = frame[t]
  BY <1>1, CallingFacts DEF Turn
<1>2. CASE f = [frame[t] EXCEPT !.failed = TRUE]
  BY <1>2, CallingFacts DEF Turn
<1> QED
  BY <1>1, <1>2 DEF Turn

LEMMA TurnPosition ==
    ASSUME TypeOK, NEW t \in Task, Calling(t)
    PROVE  /\ Below(frame[t]) \in 0..Len(frame[t].log)
           /\ Below(frame[t]) \in {0, frame[t].pos - 1}
           /\ frame[t].pos \in 1..Len(frame[t].log)
BY CallingFacts

\* The called record after its turn.
LEMMA TurnRecord ==
    ASSUME TypeOK, NEW t \in Task, NEW f, NEW r, NEW s, NEW recs,
           Turn(t, f, r, s, recs)
    PROVE  LET c == Called(t)
           IN  /\ c \in 1..Len(records)
               /\ c = frame[t].log[frame[t].pos]
               /\ s \in {"success", "failed"}
               /\ recs[c].status = s
               /\ recs[c].effects = r.effects
               /\ recs[c].data = records[c].data
               /\ recs[c].model = records[c].model
               /\ recs[c].kind = records[c].kind
               /\ r \in OperationRecord
               /\ r.effects <= records[c].effects + 1
               /\ s = "success" => \/ r.effects > 0
                                   \/ recs[c].kind = "create" /\ "missing" \in faults'
<1> DEFINE c == Called(t)
<1>1. /\ c \in 1..Len(records) /\ c = frame[t].log[frame[t].pos]
      /\ records[c] \in OperationRecord
  BY CallingFacts DEF Turn
<1>2. /\ r \in {records[c], Compensated(records[c])}
      /\ s \in {"success", "failed"}
      /\ s = "success" => \/ r = Compensated(records[c])
                          \/ records[c].kind = "create" /\ "missing" \in faults'
      /\ recs[c] = [r EXCEPT !.status = s]
  BY <1>1 DEF Turn
<1> HIDE DEF c
<1>3. records[c].effects \in Nat
  BY <1>1 DEF OperationRecord
<1>4. /\ r \in OperationRecord
      /\ r.data = records[c].data
      /\ r.model = records[c].model
      /\ r.kind = records[c].kind
      /\ r.effects <= records[c].effects + 1
      /\ s = "success" => \/ r.effects > 0
                          \/ records[c].kind = "create" /\ "missing" \in faults'
  <2>1. CASE r = records[c]
    <3>1. s = "success" => \/ r.effects > 0
                           \/ records[c].kind = "create" /\ "missing" \in faults'
      <4>1. Compensated(records[c]).effects > 0
        BY <1>1, CompensatedFacts
      <4> QED
        BY <1>2, <4>1, Zenon
    <3> QED
      BY <1>1, <1>3, <2>1, <3>1
  <2>2. CASE r = Compensated(records[c])
    BY <1>1, <2>2, CompensatedFacts
  <2> QED
    BY <1>2, <2>1, <2>2
<1>5. /\ recs[c].status = s
      /\ recs[c].effects = r.effects
      /\ recs[c].data = r.data
      /\ recs[c].model = r.model
      /\ recs[c].kind = r.kind
  BY <1>2, <1>4 DEF OperationRecord
<1> QED
  BY <1>1, <1>2, <1>4, <1>5 DEF c

\* Every step of Next is one of these.
LEMMA StepCases ==
    ASSUME TypeOK, Next
    PROVE  \E t \in Task :
              \/ OtherStep(t)
              \/ \E f : FirstTurn(t, f)
              \/ \E f, r, s, recs : Turn(t, f, r, s, recs)
BY NextCases, FirstTurnBegins, CompensationTurn DEF OtherStep

LEMMA ReverseOrderNext == TypeOK /\ ReverseOrder /\ [Next]_vars => ReverseOrder'
<1> SUFFICES ASSUME TypeOK, ReverseOrder, [Next]_vars PROVE ReverseOrder'
  OBVIOUS
<1>1. ASSUME NEW t \in Task, OtherStep(t) PROVE ReverseOrder'
  <2>1. NoneBack
    BY <1>1, OtherStepRecords DEF NoneBack
  <2> QED
    BY <1>1, <2>1, OtherStepFrames, ReverseOrderKept
<1>2. ASSUME NEW t \in Task, NEW f, FirstTurn(t, f) PROVE ReverseOrder'
  <2>1. Walking(f) /\ Len(f.log) \in Nat
    BY <1>2, FirstTurnWalking
  <2>2. /\ WalkOn(t, f, records, Len(f.log))
        /\ Len(f.log) \in 0..Len(f.log)
        /\ records \in Seq(OperationRecord)
        /\ \A j \in (Len(f.log) + 1)..Len(f.log) :
              records[f.log[j]].status # "pending"
    BY <1>2, <2>1 DEF FirstTurn, TypeOK
  <2> QED
    BY <2>1, <2>2, NewestFirstWalk
<1>3. ASSUME NEW t \in Task, NEW f, NEW r, NEW s, NEW recs,
             Turn(t, f, r, s, recs)
      PROVE  ReverseOrder'
  <2>1. /\ Walking(f) /\ f.log = frame[t].log
        /\ Below(frame[t]) \in 0..Len(f.log)
        /\ Below(frame[t]) \in {0, frame[t].pos - 1}
        /\ frame[t].pos \in 1..Len(f.log)
    <3>1. Calling(t)
      BY <1>3 DEF Turn
    <3> QED
      BY <1>3, <3>1, TurnWalking, TurnPosition
  <2>2. \A i \in 1..Len(records) :
           records[i].status # "pending" => recs[i].status # "pending"
    <3>1. recs[Called(t)].status # "pending"
      BY <1>3, TurnRecord
    <3> QED
      BY <1>3, <3>1 DEF Turn
  <2>3. ASSUME Below(frame[t]) > 0,
               NEW j \in (Below(frame[t]) + 1)..Len(f.log)
        PROVE  recs[f.log[j]].status # "pending"
    <3>1. /\ Below(frame[t]) = frame[t].pos - 1
          /\ j \in frame[t].pos..Len(f.log)
      BY <2>1, <2>3
    <3>2. CASE j = frame[t].pos
      BY <1>3, <2>1, <3>2, TurnRecord
    <3>3. CASE j # frame[t].pos
      <4>1. j \in (frame[t].pos + 1)..Len(frame[t].log) /\ j \in 1..Len(f.log)
        BY <2>1, <3>1, <3>3
      <4>2. records[f.log[j]].status # "pending"
        BY <1>3, <2>1, <4>1 DEF ReverseOrder, Turn
      <4>3. f.log[j] \in 1..Len(records)
        BY <2>1, <4>1, ElementOfSeq DEF Walking
      <4> QED
        BY <2>2, <4>2, <4>3
    <3> QED
      BY <3>2, <3>3
  <2>4. /\ recs \in Seq(OperationRecord)
        /\ Len(recs) = Len(records)
        /\ WalkOn(t, f, recs, Below(frame[t]))
    BY <1>3 DEF Turn
  <2> QED
    BY <2>1, <2>2, <2>3, <2>4, NewestFirstWalk
<1>4. CASE UNCHANGED vars
  BY <1>4 DEF vars, ReverseOrder, Calling
<1> QED
  BY <1>1, <1>2, <1>3, <1>4, StepCases

\* A rollback compensates newest first, however many tasks roll back the same
\* log at once and whatever fails or is cancelled.
THEOREM CompensatesInReverse == Spec => []ReverseOrder
<1>1. Init => ReverseOrder
  BY IdleType DEF Init, ReverseOrder, Calling
<1> QED
  BY <1>1, TypeInit, TypeNext, ReverseOrderNext, PTL DEF Spec

\* StatusTruthful, of one record.
Truthful(r, seen) ==
    /\ r.status = "success" =>
          r.effects > 0 \/ (r.kind = "create" /\ "missing" \in seen)
    /\ r.status = "pending" /\ "cancellation" \notin seen => r.effects = 0

LEMMA StatusTruthfulWalk ==
    ASSUME TypeOK, NEW t \in Task, NEW f, Walking(f),
           NEW recs \in Seq(OperationRecord), Len(recs) = Len(records),
           NEW p \in 0..Len(f.log), WalkOn(t, f, recs, p),
           \A i \in 1..Len(records) : Truthful(recs[i], faults'),
           records' \in Seq(OperationRecord)
    PROVE  StatusTruthful'
<1>1. PICK k : WalkStep(t, f, recs, p, k)
  BY WalkOnStep
<1>2. /\ Len(records') = Len(records)
      /\ \A i \in 1..Len(records) :
            /\ records'[i].status \in {recs[i].status, "skipped"}
            /\ records'[i].effects = recs[i].effects
            /\ records'[i].kind = recs[i].kind
  BY <1>1, WalkStepRecords
<1>3. \A i \in 1..Len(records') : Truthful(records'[i], faults')
  BY <1>2 DEF Truthful
<1>4. DOMAIN records' = 1..Len(records')
  BY LenProperties
<1> QED
  BY <1>3, <1>4 DEF StatusTruthful, Truthful

LEMMA StatusTruthfulNext ==
    TypeOK /\ StatusTruthful /\ [Next]_vars => StatusTruthful'
<1> SUFFICES ASSUME TypeOK, StatusTruthful, [Next]_vars PROVE StatusTruthful'
  OBVIOUS
<1>0. /\ DOMAIN records = 1..Len(records)
      /\ \A i \in 1..Len(records) : Truthful(records[i], faults)
  BY LenProperties DEF StatusTruthful, Truthful, TypeOK
<1>1. ASSUME Next PROVE faults \subseteq faults' /\ records' \in Seq(OperationRecord)
  BY <1>1, NextCases, TypeNext DEF TypeOK
<1>2. ASSUME Next PROVE \A i \in 1..Len(records) : Truthful(records[i], faults')
  BY <1>0, <1>1, <1>2 DEF Truthful
<1>3. ASSUME Next, records' = records PROVE StatusTruthful'
  BY <1>0, <1>2, <1>3 DEF StatusTruthful, Truthful
<1>4. ASSUME Next, NEW t \in Task, AddOperation(t) PROVE StatusTruthful'
  <2>1. PICK kind \in Kind, model \in Model, data \in HasData :
           records' = Append(records,
                [kind |-> kind, model |-> model, data |-> data,
                 status |-> "pending", effects |-> 0])
    BY <1>4 DEF AddOperation
  <2> DEFINE n == Len(records)
             r == [kind |-> kind, model |-> model, data |-> data,
                   status |-> "pending", effects |-> 0]
  <2>2. n \in Nat
    BY LenProperties DEF TypeOK
  <2>3. Truthful(r, faults')
    BY DEF Truthful
  <2> HIDE DEF r
  <2>4. /\ DOMAIN records' = 1..(n + 1)
        /\ records'[n + 1] = r
        /\ \A i \in 1..n : records'[i] = records[i]
    BY <2>1, <2>2 DEF TypeOK, r
  <2>5. \A i \in DOMAIN records' : Truthful(records'[i], faults')
    BY <1>2, <1>4, <2>2, <2>3, <2>4
  <2> QED
    BY <2>5 DEF StatusTruthful, Truthful
<1>5. ASSUME Next, NEW t \in Task, Cancelled(t), "cancellation" \in faults'
      PROVE  StatusTruthful'
  <2>1. /\ Len(records') = Len(records)
        /\ \A i \in 1..Len(records) :
              /\ records'[i].status = records[i].status
              /\ records'[i].kind = records[i].kind
              /\ records[i].effects > 0 => records'[i].effects > 0
    <3>1. OtherStep(t)
      BY <1>5 DEF OtherStep
    <3>2. CASE UNCHANGED records
      BY <3>2
    <3>3. CASE /\ Calling(t)
               /\ records' = [records EXCEPT ![Called(t)] = Compensated(@)]
      <4>1. Len(records') = Len(records)
        BY <3>3 DEF TypeOK
      <4> QED
        BY <3>1, <4>1, OtherStepRecords
    <3> QED
      BY <1>5, <3>2, <3>3 DEF Cancelled
  <2>2. DOMAIN records' = 1..Len(records)
    BY <1>1, <1>5, <2>1, LenProperties
  <2>3. \A i \in DOMAIN records' : Truthful(records'[i], faults')
    BY <1>2, <1>5, <2>1, <2>2 DEF Truthful
  <2> QED
    BY <2>3 DEF StatusTruthful, Truthful
<1>6. ASSUME Next, NEW t \in Task, NEW f, FirstTurn(t, f) PROVE StatusTruthful'
  <2>1. Walking(f) /\ Len(f.log) \in Nat
    BY <1>6, FirstTurnWalking
  <2>2. /\ WalkOn(t, f, records, Len(f.log))
        /\ Len(f.log) \in 0..Len(f.log)
        /\ records \in Seq(OperationRecord)
    BY <1>6, <2>1 DEF FirstTurn, TypeOK
  <2> QED
    BY <1>1, <1>2, <1>6, <2>1, <2>2, StatusTruthfulWalk
<1>7. ASSUME Next, NEW t \in Task, NEW f, NEW r, NEW s, NEW recs,
             Turn(t, f, r, s, recs)
      PROVE  StatusTruthful'
  <2>1. /\ Walking(f)
        /\ Below(frame[t]) \in 0..Len(f.log)
    <3>1. Calling(t)
      BY <1>7 DEF Turn
    <3> QED
      BY <1>7, <3>1, TurnWalking, TurnPosition
  <2>2. Truthful(recs[Called(t)], faults')
    BY <1>7, TurnRecord DEF Truthful
  <2>3. \A i \in 1..Len(records) : Truthful(recs[i], faults')
    BY <1>2, <1>7, <2>2 DEF Turn
  <2>4. /\ recs \in Seq(OperationRecord)
        /\ Len(recs) = Len(records)
        /\ WalkOn(t, f, recs, Below(frame[t]))
    BY <1>7 DEF Turn
  <2> QED
    BY <1>1, <1>7, <2>1, <2>3, <2>4, StatusTruthfulWalk
<1>8. CASE UNCHANGED vars
  BY <1>8 DEF vars, StatusTruthful
<1> QED
  <2>1. ASSUME Next PROVE StatusTruthful'
    <3>1. PICK t \in Task :
             \/ OtherStep(t)
             \/ \E f : FirstTurn(t, f)
             \/ \E f, r, s, recs : Turn(t, f, r, s, recs)
      BY <2>1, StepCases
    <3>2. CASE OtherStep(t)
      <4>1. CASE Cancelled(t) /\ "cancellation" \in faults'
        BY <1>5, <2>1, <4>1
      <4>2. CASE AddOperation(t)
        BY <1>4, <2>1, <4>2
      <4>3. CASE \/ CreateSavepoint(t) \/ ReleaseSavepoint(t) \/ SetContext(t)
                 \/ Commit(t) \/ InvalidationReturns(t) \/ InvalidationFails(t)
        <5>1. records' = records
          BY <4>3 DEF CreateSavepoint, ReleaseSavepoint, SetContext, Commit,
             InvalidationReturns, InvalidationFails, Invalidate
        <5> QED
          BY <1>3, <2>1, <5>1
      <4> QED
        BY <3>2, <4>1, <4>2, <4>3 DEF OtherStep
    <3> QED
      BY <1>6, <1>7, <2>1, <3>1, <3>2
  <2> QED
    BY <1>8, <2>1

\* The statuses tell the truth, however the calls of tasks interleave and
\* whatever fails: "success" only after the effect or, of a create, after Odoo
\* said that a record is missing, and "pending" only before any effect unless
\* a call was cancelled.
THEOREM StatusesTruthful == Spec => []StatusTruthful
<1>1. Init => StatusTruthful
  BY DEF Init, StatusTruthful
<1> QED
  BY <1>1, TypeInit, TypeNext, StatusTruthfulNext, PTL DEF Spec

(****************************************************************************)
(* What a Transaction guarantees as long as its calls do not overlap, and   *)
(* what it guarantees anyway: the log and the savepoints agree, no          *)
(* operation is forgotten, no record is recreated twice, a commit leaves no *)
(* stale cache entry and a finished transaction stays finished.  All rest   *)
(* on one fact: the walk that is suspended still fits the transaction.      *)
(****************************************************************************)

(****************************************************************************)
(* The suspended call when calls do not overlap.                            *)
(****************************************************************************)

\* No call has begun beside another.
Alone == "overlap" \notin faults

\* A rollback to a savepoint walks what the log holds after the savepoint.
SavepointFits(f) ==
    /\ f.at \in 1..Len(savepoints)
    /\ f.savepoint = savepoints[f.at]
    /\ f.savepoint.index < Len(operations)
    /\ f.log = SubSeq(operations, f.savepoint.index + 1, Len(operations))

\* The list call f walks is what the transaction still has.
Fits(f) ==
    /\ state \notin {"committed", "rolled_back"}
    /\ f.walked # "ended"
    /\ f.pc = "rollback" => f.log = operations
    /\ f.pc = "savepoint" => SavepointFits(f)

Sequential ==
    Alone =>
        /\ \A u, v \in Task : u # v => Free(u) \/ Free(v)
        /\ \A u \in Task : ~Free(u) => Fits(frame[u])

\* The compensation awaited for the first time has had no effect.
CalledFresh ==
    faults \subseteq {"failure", "missing"} =>
        \A u \in Task : Calling(u) => records[Called(u)].effects = 0


(****************************************************************************)
(* One turn of a walk, its first or a later one, when calls do not overlap. *)
(****************************************************************************)

\* The walk f of task t goes on from position p; recs are the records with
\* the outcome of the awaited compensation, if there was one.
WalkTurn(t, f, recs, p) ==
    /\ Walking(f)
    /\ Fits(f)
    /\ \A u \in Task : u # t => Free(u)
    /\ recs \in Seq(OperationRecord)
    /\ Len(recs) = Len(records)
    /\ p \in 0..Len(f.log)
    /\ WalkOn(t, f, recs, p)
    /\ \A j \in (p + 1)..Len(f.log) : recs[f.log[j]].status # "pending"
    /\ UNCHANGED <<created, dirty>>

\* What that outcome does to the records.
Outcome(t, recs) ==
    \A i \in 1..Len(records) :
        /\ recs[i].status = "pending" => recs[i] = records[i]
        /\ recs[i].model = records[i].model
        /\ \/ recs[i].effects = records[i].effects
           \/ /\ Calling(t)
              /\ i = Called(t)
              /\ recs[i].effects <= records[i].effects + 1

LEMMA FirstTurnAlone ==
    ASSUME TypeOK, Alone', NEW t \in Task, NEW f, FirstTurn(t, f)
    PROVE  /\ WalkTurn(t, f, records, Len(f.log))
           /\ Outcome(t, records)
<1>1. Walking(f) /\ Len(f.log) \in Nat
  BY FirstTurnWalking
<1>2. \A u \in Task : Free(u)
  BY DEF FirstTurn, Noted, Alone
<1>3. Fits(f)
  <2>1. CASE MayRollback /\ f = RollbackWalk
    <3>1. f.walked = "own"
      BY <2>1, IdleType DEF RollbackWalk, Frame
    <3>2. f.log = operations /\ f.pc = "rollback"
      BY <2>1, RollbackWalkType
    <3>3. QED
      BY <2>1, <3>1, <3>2 DEF Fits, MayRollback
  <2>2. ASSUME state = "active", NEW n \in DOMAIN savepoints,
               savepoints[n].index < Len(operations), f = SavepointWalk(n)
        PROVE  Fits(f)
    <3>1. f.walked = "copy"
      BY <2>2, IdleType DEF SavepointWalk, Idle, Frame
    <3>2. SavepointFits(f) /\ f.pc = "savepoint"
      <4>1. n \in 1..Len(savepoints)
        BY LenProperties DEF TypeOK
      <4>2. QED
        BY <2>2, <4>1, SavepointWalkType DEF SavepointFits
    <3>3. QED
      BY <2>2, <3>1, <3>2 DEF Fits
  <2>3. QED
    BY <2>1, <2>2 DEF FirstTurn
<1>4. Outcome(t, records)
  BY DEF Outcome
<1>5. /\ records \in Seq(OperationRecord)
      /\ Len(f.log) \in 0..Len(f.log)
      /\ \A j \in (Len(f.log) + 1)..Len(f.log) :
            records[f.log[j]].status # "pending"
  BY <1>1, SMTT(60) DEF TypeOK
<1>6. QED
  BY <1>1, <1>2, <1>3, <1>4, <1>5 DEF FirstTurn, WalkTurn

LEMMA TurnAlone ==
    ASSUME TypeOK, Sequential, ReverseOrder, Alone, NEW t \in Task,
           NEW f, NEW r, NEW s, NEW recs, Turn(t, f, r, s, recs)
    PROVE  /\ WalkTurn(t, f, recs, Below(frame[t]))
           /\ Outcome(t, recs)
<1>1. /\ Walking(f)
      /\ f.log = frame[t].log
      /\ f.pc = frame[t].pc
      /\ f.savepoint = frame[t].savepoint
      /\ f.at = frame[t].at
  BY TurnWalking
<1>2. Calling(t) /\ ~Free(t)
  BY DEF Turn, Calling, Free
<1>3. Fits(frame[t]) /\ \A u \in Task : u # t => Free(u)
  BY <1>2 DEF Sequential
<1>4. f.walked = frame[t].walked
  <2>1. frame[t] \in Frame
    BY DEF TypeOK
  <2>2. f = frame[t] \/ f = [frame[t] EXCEPT !.failed = TRUE]
    BY DEF Turn
  <2>3. QED
    BY <2>1, <2>2 DEF Frame
<1>5. Fits(f)
  BY <1>1, <1>3, <1>4 DEF Fits, SavepointFits
<1>6. /\ Below(frame[t]) \in 0..Len(f.log)
      /\ Below(frame[t]) = frame[t].pos - 1
      /\ frame[t].pos \in 1..Len(f.log)
  BY <1>1, <1>2, <1>3, TurnPosition DEF Fits, Below
<1>7. /\ recs \in Seq(OperationRecord)
      /\ Len(recs) = Len(records)
      /\ WalkOn(t, f, recs, Below(frame[t]))
      /\ UNCHANGED <<created, dirty>>
  BY DEF Turn
<1>8. \A i \in 1..Len(records) : i # Called(t) => recs[i] = records[i]
  BY DEF Turn
<1>9. /\ Called(t) \in 1..Len(records)
      /\ Called(t) = f.log[frame[t].pos]
      /\ recs[Called(t)].status # "pending"
      /\ recs[Called(t)].model = records[Called(t)].model
      /\ recs[Called(t)].effects <= records[Called(t)].effects + 1
  BY <1>1, TurnRecord
<1>10. \A j \in (Below(frame[t]) + 1)..Len(f.log) :
          recs[f.log[j]].status # "pending"
  <2> SUFFICES ASSUME NEW j \in (Below(frame[t]) + 1)..Len(f.log)
               PROVE  recs[f.log[j]].status # "pending"
    OBVIOUS
  <2>1. CASE j = frame[t].pos
    BY <1>9, <2>1
  <2>2. CASE j # frame[t].pos
    <3>1. Len(f.log) \in Nat
      BY <1>1, LenProperties DEF Walking
    <3>2. j \in (frame[t].pos + 1)..Len(frame[t].log) /\ j \in 1..Len(f.log)
      BY <1>1, <1>6, <2>2, <3>1
    <3>3. records[f.log[j]].status # "pending"
      BY <1>1, <1>2, <3>2 DEF ReverseOrder
    <3>4. f.log[j] \in 1..Len(records)
      BY <1>1, <3>2, ElementOfSeq DEF Walking
    <3>5. QED
      BY <1>8, <1>9, <3>3, <3>4
  <2>3. QED
    BY <2>1, <2>2
<1>11. Outcome(t, recs)
  BY <1>2, <1>8, <1>9 DEF Outcome
<1>12. QED
  BY <1>1, <1>3, <1>5, <1>6, <1>7, <1>9, <1>10, <1>11, ZenonT(60) DEF WalkTurn

\* The turn, its walk described.
LEMMA WalkTurnStep ==
    ASSUME TypeOK, NEW t \in Task, NEW f, NEW recs, NEW p,
           WalkTurn(t, f, recs, p), Outcome(t, recs)
    PROVE  \E k \in Nat :
              /\ WalkStep(t, f, recs, p, k)
              /\ Len(records') = Len(records)
              /\ \A i \in 1..Len(records) :
                    records'[i].status = "pending" => recs[i] = records[i]
              /\ k = 0 => \A j \in 1..Len(f.log) :
                             records'[f.log[j]].status # "pending"
<1>1. PICK k : WalkStep(t, f, recs, p, k)
  BY WalkOnStep DEF WalkTurn
<1>2. k \in 0..p /\ p \in 0..Len(f.log) /\ Len(f.log) \in Nat
  BY <1>1, LenProperties DEF WalkStep, WalkTurn, Walking
<1>3. /\ Len(records') = Len(records)
      /\ \A i \in 1..Len(records) :
            records'[i].status \in {recs[i].status, "skipped"}
      /\ \A j \in (k + 1)..p : records'[f.log[j]].status = "skipped"
  BY <1>1, WalkStepRecords DEF WalkTurn
<1>4. ASSUME k = 0, NEW j \in 1..Len(f.log)
      PROVE  records'[f.log[j]].status # "pending"
  <2>1. CASE j <= p
    BY <1>2, <1>3, <1>4, <2>1
  <2>2. CASE j > p
    <3>1. j \in (p + 1)..Len(f.log)
      BY <1>2, <2>2
    <3>2. f.log[j] \in 1..Len(records)
      BY <1>4, ElementOfSeq DEF WalkTurn, Walking
    <3>3. recs[f.log[j]].status # "pending"
      BY <3>1 DEF WalkTurn
    <3>4. QED
      BY <1>3, <3>2, <3>3
  <2>3. QED
    BY <1>2, <2>1, <2>2
<1>5. \A i \in 1..Len(records) :
         records'[i].status = "pending" => recs[i] = records[i]
  BY <1>3 DEF Outcome
<1>6. QED
  BY <1>1, <1>2, <1>3, <1>4, <1>5

\* The steps as long as calls do not overlap.
LEMMA StepsAlone ==
    ASSUME TypeOK, Sequential, ReverseOrder, Alone', Next
    PROVE  /\ Alone
           /\ \E t \in Task :
                 \/ OtherStep(t)
                 \/ \E f, recs, p : WalkTurn(t, f, recs, p) /\ Outcome(t, recs)
<1>1. Alone
  BY NextCases DEF Alone
<1>2. PICK t \in Task :
         \/ OtherStep(t)
         \/ \E f : FirstTurn(t, f)
         \/ \E f, r, s, recs : Turn(t, f, r, s, recs)
  BY StepCases
<1>3. ASSUME NEW f, FirstTurn(t, f)
      PROVE  WalkTurn(t, f, records, Len(f.log)) /\ Outcome(t, records)
  BY <1>3, FirstTurnAlone
<1>4. ASSUME NEW f, NEW r, NEW s, NEW recs, Turn(t, f, r, s, recs)
      PROVE  WalkTurn(t, f, recs, Below(frame[t])) /\ Outcome(t, recs)
  BY <1>1, <1>4, TurnAlone
<1>5. QED
  BY <1>1, <1>2, <1>3, <1>4

\* A task that is not suspended after a step owes nothing; one that is holds
\* the only walk, or the only commit.
LEMMA SequentialWith ==
    ASSUME NEW t \in Task,
           \A u \in Task : u # t => frame'[u].pc = "idle",
           frame'[t].pc # "idle" => Fits(frame[t])'
    PROVE  Sequential'
BY DEF Sequential, Free

LEMMA SequentialOther ==
    ASSUME TypeOK, Sequential, Alone, Alone', NEW t \in Task, OtherStep(t)
    PROVE  Sequential'
<1>1. CASE SetContext(t)
  BY <1>1 DEF SetContext, Sequential, Free, Fits, SavepointFits
<1>2. CASE \/ AddOperation(t) /\ Noted
           \/ CreateSavepoint(t) /\ Noted
           \/ ReleaseSavepoint(t) /\ Noted
  <2>1. \A u \in Task : frame'[u].pc = "idle"
    BY <1>2 DEF Noted, Alone, Free, AddOperation, CreateSavepoint, ReleaseSavepoint
  <2>2. QED
    BY <2>1, SequentialWith
<1>3. CASE Commit(t) /\ Noted
  <2> DEFINE g == [Idle EXCEPT !.pc = "commit", !.targets = dirty]
  <2>1. g.pc = "commit" /\ g.walked = "copy"
    BY IdleType DEF Idle, Frame
  <2>2. \A u \in Task : frame[u].pc = "idle"
    BY <1>3 DEF Noted, Alone, Free
  <2> HIDE DEF g
  <2>3. UNCHANGED frame \/ (frame' = [frame EXCEPT ![t] = g] /\ state' = "active")
    BY <1>3 DEF Commit, g
  <2>4. \A u \in Task : u # t => frame'[u].pc = "idle"
    BY <2>2, <2>3 DEF TypeOK
  <2>5. frame'[t].pc # "idle" => Fits(frame[t])'
    BY <2>1, <2>2, <2>3 DEF TypeOK, Fits
  <2>6. QED
    BY <2>4, <2>5, SequentialWith
<1>4. CASE Cancelled(t)
  <2>1. ~Free(t)
    BY <1>4 DEF Cancelled
  <2>2. \A u \in Task : frame'[u].pc = "idle"
    BY <1>4, <2>1, IdleType DEF Cancelled, Sequential, Free, TypeOK
  <2>3. QED
    BY <2>2, SequentialWith
<1>5. CASE InvalidationReturns(t) \/ InvalidationFails(t)
  <2>1. PICK m : Invalidate(t, m)
    BY <1>5 DEF InvalidationReturns, InvalidationFails
  <2>2. frame[t].pc = "commit"
    BY <1>5 DEF InvalidationReturns, InvalidationFails
  <2>3. Fits(frame[t]) /\ \A u \in Task : u # t => frame[u].pc = "idle"
    BY <2>2 DEF Sequential, Free
  <2> DEFINE g == [frame[t] EXCEPT !.targets = Left(@, m)]
  <2>4. g.pc = "commit" /\ g.walked = frame[t].walked
    BY <2>2 DEF TypeOK, Frame
  <2>5. \/ frame' = [frame EXCEPT ![t] = g] /\ UNCHANGED state
        \/ frame' = [frame EXCEPT ![t] = Idle]
    BY <2>1 DEF Invalidate
  <2> HIDE DEF g
  <2>6. \A u \in Task : u # t => frame'[u].pc = "idle"
    BY <2>3, <2>5 DEF TypeOK
  <2>7. frame'[t].pc # "idle" => Fits(frame[t])'
    BY <2>3, <2>4, <2>5, IdleType DEF TypeOK, Fits
  <2>8. QED
    BY <2>6, <2>7, SequentialWith
<1>6. QED
  BY <1>1, <1>2, <1>3, <1>4, <1>5 DEF OtherStep

LEMMA SequentialWalk ==
    ASSUME TypeOK, NEW t \in Task, NEW f, NEW recs, NEW p,
           WalkTurn(t, f, recs, p), Outcome(t, recs)
    PROVE  Sequential'
<1>1. PICK k \in Nat : WalkStep(t, f, recs, p, k)
  BY WalkTurnStep
<1>2. /\ Walking(f)
      /\ Fits(f)
      /\ p \in 0..Len(f.log)
      /\ \A u \in Task : u # t => frame[u].pc = "idle"
  BY DEF WalkTurn, Free
<1>3. \A u \in Task : u # t => frame'[u].pc = "idle"
  BY <1>1, <1>2, WalkStepFrames
<1>4. CASE k = 0
  BY <1>1, <1>2, <1>3, <1>4, WalkStepFrames, IdleType, SequentialWith
<1>5. CASE k > 0
  <2> DEFINE g == [f EXCEPT !.pos = k]
  <2>1. /\ g.pc = f.pc /\ g.log = f.log /\ g.savepoint = f.savepoint
        /\ g.at = f.at /\ g.walked = f.walked
    BY <1>2 DEF Walking, Frame
  <2> HIDE DEF g
  <2>2. /\ frame' = [frame EXCEPT ![t] = g]
        /\ UNCHANGED <<state, operations, savepoints>>
    BY <1>1, <1>5 DEF WalkStep, g
  <2>3. frame'[t] = g
    BY <2>2 DEF TypeOK
  <2>4. Fits(frame[t])'
    BY <1>2, <2>1, <2>2, <2>3 DEF Fits, SavepointFits
  <2>5. QED
    BY <1>3, <2>4, SequentialWith
<1>6. QED
  BY <1>4, <1>5

LEMMA SequentialNext ==
    TypeOK /\ ReverseOrder /\ Sequential /\ [Next]_vars => Sequential'
<1> SUFFICES ASSUME TypeOK, ReverseOrder, Sequential, [Next]_vars
             PROVE  Sequential'
  OBVIOUS
<1>1. CASE UNCHANGED vars
  BY <1>1 DEF vars, Sequential, Alone, Free, Fits, SavepointFits
<1>2. CASE ~Alone'
  BY <1>2 DEF Sequential
<1>3. CASE Next /\ Alone'
  BY <1>3, StepsAlone, SequentialOther, SequentialWalk
<1>4. QED
  BY <1>1, <1>2, <1>3

(****************************************************************************)
(* The log and the savepoints.                                              *)
(****************************************************************************)

\* What the steps that walk nothing do to the log and the savepoints.
LEMMA OtherStepLog ==
    ASSUME TypeOK, NEW t \in Task, OtherStep(t)
    PROVE  \/ /\ AddOperation(t)
              /\ operations' = Append(operations, Len(records) + 1)
              /\ UNCHANGED <<savepoints, state>>
           \/ UNCHANGED <<operations, savepoints>>
           \/ /\ CreateSavepoint(t)
              /\ \E c : savepoints' = Append(savepoints,
                           [id |-> created + 1, index |-> Len(operations),
                            released |-> FALSE, context |-> c])
              /\ UNCHANGED <<operations, state>>
           \/ /\ ReleaseSavepoint(t)
              /\ \E n \in DOMAIN savepoints :
                    savepoints' = [savepoints EXCEPT ![n].released = TRUE]
              /\ UNCHANGED <<operations, state>>
BY DEF OtherStep, AddOperation, NewOperation, CreateSavepoint, ReleaseSavepoint,
   SetContext, Cancelled, Commit, InvalidationReturns, InvalidationFails, Invalidate

\* SavepointsWithinLog, of a list of savepoints and a length of the log.
Within(list, length) ==
    \A i, j \in 1..Len(list) : i <= j =>
        list[i].index <= list[j].index /\ list[j].index <= length

LEMMA WithinFacts ==
    ASSUME NEW list \in Seq(Savepoint), NEW length \in Nat, Within(list, length)
    PROVE  /\ \A more \in Nat : length <= more => Within(list, more)
           /\ \A c : Within(Append(list, [id |-> created + 1, index |-> length,
                                          released |-> FALSE, context |-> c]),
                            length)
           /\ \A n \in 1..Len(list) :
                 Within([list EXCEPT ![n].released = TRUE], length)
           /\ \A n \in 1..Len(list) : Within(Take(list, n), list[n].index)
<1>1. /\ Len(list) \in Nat /\ DOMAIN list = 1..Len(list)
      /\ \A i \in 1..Len(list) : list[i] \in Savepoint /\ list[i].index \in Nat
  <2>1. Len(list) \in Nat /\ DOMAIN list = 1..Len(list)
    BY LenProperties
  <2>2. \A i \in 1..Len(list) : list[i] \in Savepoint
    BY ElementOfSeq
  <2>3. QED
    BY <2>1, <2>2 DEF Savepoint
<1>2. \A more \in Nat : length <= more => Within(list, more)
  BY <1>1 DEF Within
<1>3. ASSUME NEW c
      PROVE  Within(Append(list, [id |-> created + 1, index |-> length,
                                  released |-> FALSE, context |-> c]), length)
  <2> DEFINE sp == [id |-> created + 1, index |-> length, released |-> FALSE,
                    context |-> c]
             new == Append(list, sp)
  <2>1. sp.index = length
    OBVIOUS
  <2> HIDE DEF sp
  <2>2. /\ Len(new) = Len(list) + 1
        /\ new[Len(list) + 1] = sp
        /\ \A i \in 1..Len(list) : new[i] = list[i]
    BY <1>1
  <2> HIDE DEF new
  <2>3. \A i \in 1..Len(list) : list[i].index <= length
    BY <1>1 DEF Within
  <2>4. Within(new, length)
    BY <1>1, <2>1, <2>2, <2>3 DEF Within
  <2>5. QED
    BY <2>4 DEF new, sp
<1>4. ASSUME NEW n \in 1..Len(list)
      PROVE  Within([list EXCEPT ![n].released = TRUE], length)
  <2> DEFINE sp == [list[n] EXCEPT !.released = TRUE]
             new == [list EXCEPT ![n] = sp]
  <2>1. sp \in Savepoint /\ sp.index = list[n].index
    BY <1>1 DEF Savepoint
  <2>2. [list EXCEPT ![n].released = TRUE] = new
    OBVIOUS
  <2> HIDE DEF sp
  <2>3. /\ Len(new) = Len(list)
        /\ \A i \in 1..Len(list) : new[i] = IF i = n THEN sp ELSE list[i]
    BY <1>1, <2>1, ExceptSeq
  <2> HIDE DEF new
  <2>4. \A i \in 1..Len(list) : new[i].index = list[i].index
    BY <2>1, <2>3
  <2>5. QED
    BY <2>2, <2>3, <2>4 DEF Within
<1>5. ASSUME NEW n \in 1..Len(list)
      PROVE  Within(Take(list, n), list[n].index)
  <2>1. /\ Len(Take(list, n)) = n
        /\ \A i \in 1..n : Take(list, n)[i] = list[i]
    <3>1. /\ Len(Take(list, n)) = IF n < Len(list) THEN n ELSE Len(list)
          /\ \A i \in 1..Len(Take(list, n)) : Take(list, n)[i] = list[i]
      BY <1>1, TakeFacts
    <3>2. n \in Nat /\ n <= Len(list)
      BY <1>1
    <3>3. Len(Take(list, n)) = n
      <4>1. n < Len(list) \/ n = Len(list)
        <5>1. ASSUME NEW m \in Nat, n <= m PROVE n < m \/ n = m
          BY <3>2, <5>1
        <5>2. QED
          BY <1>1, <3>2, <5>1
      <4>2. QED
        BY <3>1, <4>1, ZenonT(60)
    <3>4. QED
      BY <3>1, <3>3
  <2>2. \A i, j \in 1..n : i <= j =>
           list[i].index <= list[j].index /\ list[j].index <= list[n].index
    BY <1>1 DEF Within
  <2>3. QED
    BY <2>1, <2>2 DEF Within
<1>6. QED
  BY <1>2, <1>3, <1>4, <1>5

\* How a walk that fits leaves the log and the savepoints.
LEMMA WalkLog ==
    ASSUME TypeOK, NEW t \in Task, NEW f, NEW recs, NEW p,
           WalkTurn(t, f, recs, p), NEW k \in Nat, WalkStep(t, f, recs, p, k)
    PROVE  \/ UNCHANGED <<operations, savepoints>>
           \/ k = 0 /\ f.log = operations /\ operations' = <<>> /\ savepoints' = <<>>
           \/ \E n \in 1..Len(savepoints) :
                 LET index == savepoints[n].index
                 IN  /\ k = 0
                     /\ index \in Nat /\ index < Len(operations)
                     /\ f.log = SubSeq(operations, index + 1, Len(operations))
                     /\ operations' = Take(operations, index)
                     /\ savepoints' = Take(savepoints, n)
<1>1. CASE k > 0
  BY <1>1 DEF WalkStep
<1>2. CASE f.pc = "rollback" /\ k = 0 /\ FinishRollback(t, f)
  BY <1>2 DEF FinishRollback, WalkTurn, Fits
<1>3. CASE f.pc = "savepoint" /\ k = 0 /\ FinishSavepoint(t, f)
  <2>1. SavepointFits(f)
    BY <1>3 DEF WalkTurn, Fits
  <2>2. f.at \in 1..Len(savepoints) /\ savepoints[f.at].index \in Nat
    <3>1. f.at \in 1..Len(savepoints) /\ savepoints \in Seq(Savepoint)
      BY <2>1 DEF SavepointFits, TypeOK
    <3>2. savepoints[f.at] \in Savepoint
      BY <3>1, ElementOfSeq
    <3>3. QED
      BY <3>1, <3>2 DEF Savepoint
  <2>3. QED
    BY <1>3, <2>1, <2>2
    DEF FinishSavepoint, SavepointFits, OperationsBefore, SavepointsUpTo
<1>4. QED
  BY <1>1, <1>2, <1>3 DEF WalkStep

LEMMA SavepointsWithinNext ==
    TypeOK /\ ReverseOrder /\ Sequential /\ SavepointsWithinLog /\ [Next]_vars
        => SavepointsWithinLog'
<1> SUFFICES ASSUME TypeOK, ReverseOrder, Sequential, SavepointsWithinLog,
                    [Next]_vars
             PROVE  SavepointsWithinLog'
  OBVIOUS
<1>0. TypeOK' /\ Len(operations) \in Nat
  BY TypeNext, LenProperties DEF TypeOK
<1>1. CASE UNCHANGED vars
  BY <1>1 DEF vars, SavepointsWithinLog
<1>2. CASE ~Alone'
  BY <1>2 DEF SavepointsWithinLog, Alone
<1>3. ASSUME Next, Alone'
      PROVE  Within(savepoints', Len(operations'))
  <2>1. Alone
    BY <1>3, StepsAlone
  <2>2. Within(savepoints, Len(operations))
    <3>1. DOMAIN savepoints = 1..Len(savepoints)
      BY LenProperties DEF TypeOK
    <3>2. QED
      BY <2>1, <3>1 DEF SavepointsWithinLog, Alone, Within
  <2>3. PICK t \in Task :
           \/ OtherStep(t)
           \/ \E f, recs, p : WalkTurn(t, f, recs, p) /\ Outcome(t, recs)
    BY <1>3, StepsAlone
  <2>4. savepoints \in Seq(Savepoint)
    BY DEF TypeOK
  <2>5. CASE OtherStep(t)
    <3>1. CASE operations' = Append(operations, Len(records) + 1)
               /\ UNCHANGED savepoints
      <4>1. Len(operations') \in Nat /\ Len(operations) <= Len(operations')
        BY <1>0, <3>1 DEF TypeOK
      <4>2. QED
        BY <1>0, <2>2, <2>4, <3>1, <4>1, WithinFacts
    <3>2. CASE UNCHANGED <<operations, savepoints>>
      BY <2>2, <3>2
    <3>3. ASSUME NEW c, UNCHANGED operations,
                 savepoints' = Append(savepoints,
                    [id |-> created + 1, index |-> Len(operations),
                     released |-> FALSE, context |-> c])
          PROVE  Within(savepoints', Len(operations'))
      <4>1. \A d : Within(Append(savepoints,
                    [id |-> created + 1, index |-> Len(operations),
                     released |-> FALSE, context |-> d]), Len(operations))
        BY <1>0, <2>2, <2>4, WithinFacts
      <4>2. QED
        BY <3>3, <4>1, Zenon
    <3>4. ASSUME NEW n \in DOMAIN savepoints, UNCHANGED operations,
                 savepoints' = [savepoints EXCEPT ![n].released = TRUE]
          PROVE  Within(savepoints', Len(operations'))
      <4>1. n \in 1..Len(savepoints)
        BY <2>4, LenProperties
      <4>2. \A i \in 1..Len(savepoints) :
               Within([savepoints EXCEPT ![i].released = TRUE], Len(operations))
        BY <1>0, <2>2, <2>4, WithinFacts
      <4>3. QED
        BY <3>4, <4>1, <4>2, Zenon
    <3>5. QED
      BY <2>5, <3>1, <3>2, <3>3, <3>4, OtherStepLog
  <2>6. ASSUME NEW f, NEW recs, NEW p, WalkTurn(t, f, recs, p), Outcome(t, recs)
        PROVE  Within(savepoints', Len(operations'))
    <3>1. PICK k \in Nat : WalkStep(t, f, recs, p, k)
      BY <2>6, WalkTurnStep
    <3>2. CASE UNCHANGED <<operations, savepoints>>
      BY <2>2, <3>2
    <3>3. CASE operations' = <<>> /\ savepoints' = <<>>
      BY <3>3 DEF Within
    <3>4. ASSUME NEW n \in 1..Len(savepoints),
                 savepoints[n].index \in Nat,
                 savepoints[n].index < Len(operations),
                 operations' = Take(operations, savepoints[n].index),
                 savepoints' = Take(savepoints, n)
          PROVE  Within(savepoints', Len(operations'))
      <4>1. Len(operations') = savepoints[n].index
        BY <3>4, TakeFacts DEF TypeOK
      <4>2. QED
        BY <1>0, <2>2, <2>4, <3>4, <4>1, WithinFacts
    <3>5. QED
      BY <2>6, <3>1, <3>2, <3>3, <3>4, WalkLog
  <2>7. QED
    BY <2>3, <2>5, <2>6
<1>4. ASSUME Within(savepoints', Len(operations')) PROVE SavepointsWithinLog'
  <2>1. DOMAIN savepoints' = 1..Len(savepoints')
    BY <1>0, LenProperties DEF TypeOK
  <2>2. QED
    BY <1>4, <2>1 DEF SavepointsWithinLog, Within
<1>5. QED
  BY <1>1, <1>2, <1>3, <1>4

\* LogInOrder, of a list.
Ordered(list) == \A i, j \in 1..Len(list) : i < j => list[i] < list[j]

\* A walk leaves the log or cuts it short, calls overlapping or not.
LEMMA WalkCuts ==
    ASSUME TypeOK, NEW t \in Task, NEW f, Walking(f), NEW recs, NEW p, NEW k,
           WalkStep(t, f, recs, p, k)
    PROVE  operations' = operations \/ operations' = <<>>
           \/ \E n \in Nat : operations' = Take(operations, n)
<1>1. f.savepoint.index \in Nat
  BY DEF Walking, Frame, Savepoint
<1>2. QED
  BY <1>1 DEF WalkStep, FinishRollback, FinishSavepoint, OperationsBefore

LEMMA LogInOrderNext == TypeOK /\ LogInOrder /\ [Next]_vars => LogInOrder'
<1> SUFFICES ASSUME TypeOK, LogInOrder, [Next]_vars PROVE LogInOrder'
  OBVIOUS
<1>1. /\ operations \in Seq(1..Len(records))
      /\ Len(records) \in Nat /\ Len(operations) \in Nat
      /\ DOMAIN operations = 1..Len(operations)
      /\ \A i \in 1..Len(operations) : operations[i] \in 1..Len(records)
  <2>1. operations \in Seq(1..Len(records)) /\ Len(records) \in Nat
    BY LenProperties DEF TypeOK
  <2>2. QED
    BY <2>1, LenProperties, ElementOfSeq
<1>2. Ordered(operations)
  BY <1>1 DEF LogInOrder, Ordered
<1>3. CASE UNCHANGED operations
  BY <1>3 DEF LogInOrder
<1>4. CASE operations' = <<>>
  BY <1>4 DEF LogInOrder
<1>5. CASE operations' = Append(operations, Len(records) + 1)
  <2> DEFINE n == Len(operations)
  <2>1. /\ DOMAIN operations' = 1..(n + 1)
        /\ operations'[n + 1] = Len(records) + 1
        /\ \A i \in 1..n : operations'[i] = operations[i]
    BY <1>1, <1>5
  <2> HIDE DEF n
  <2>2. ASSUME NEW i \in 1..(n + 1), NEW j \in 1..(n + 1), i < j
        PROVE  operations'[i] < operations'[j]
    <3>1. n \in Nat /\ i \in 1..n /\ operations[i] \in 1..Len(records)
      BY <1>1, <2>2 DEF n
    <3>2. CASE j = n + 1
      BY <1>1, <2>1, <3>1, <3>2
    <3>3. CASE j # n + 1
      <4>1. j \in 1..n
        BY <2>2, <3>1, <3>3
      <4>2. QED
        BY <1>2, <2>1, <2>2, <3>1, <4>1 DEF Ordered, n
    <3>4. QED
      BY <3>2, <3>3
  <2>3. QED
    BY <2>1, <2>2 DEF LogInOrder
<1>6. ASSUME NEW n \in Nat, operations' = Take(operations, n)
      PROVE  LogInOrder'
  <2> DEFINE cut == Take(operations, n)
  <2>1. /\ cut \in Seq(1..Len(records))
        /\ Len(cut) = IF n < Len(operations) THEN n ELSE Len(operations)
        /\ \A i \in 1..Len(cut) : cut[i] = operations[i]
    BY <1>1, TakeFacts
  <2> HIDE DEF cut
  <2>2. /\ DOMAIN cut = 1..Len(cut)
        /\ \A i \in 1..Len(cut) : i \in 1..Len(operations)
    BY <1>1, <2>1, LenProperties
  <2>3. \A i, j \in DOMAIN cut : i < j => cut[i] < cut[j]
    BY <1>2, <2>1, <2>2 DEF Ordered
  <2>4. QED
    BY <1>6, <2>3 DEF LogInOrder, cut
<1>7. CASE UNCHANGED vars
  BY <1>3, <1>7 DEF vars
<1>8. CASE Next
  <2>1. PICK t \in Task :
           \/ OtherStep(t)
           \/ \E f : FirstTurn(t, f)
           \/ \E f, r, s, recs : Turn(t, f, r, s, recs)
    BY <1>8, StepCases
  <2>2. ASSUME NEW f, NEW recs, NEW p, Walking(f), WalkOn(t, f, recs, p)
        PROVE  LogInOrder'
    BY <1>3, <1>4, <1>6, <2>2, WalkOnStep, WalkCuts
  <2>3. ASSUME NEW f, FirstTurn(t, f) PROVE LogInOrder'
    BY <2>2, <2>3, FirstTurnWalking DEF FirstTurn
  <2>4. ASSUME NEW f, NEW r, NEW s, NEW recs, Turn(t, f, r, s, recs)
        PROVE  LogInOrder'
    BY <2>2, <2>4, TurnWalking DEF Turn
  <2>5. CASE OtherStep(t)
    BY <1>3, <1>5, <2>5, OtherStepLog
  <2>6. QED
    BY <2>1, <2>3, <2>4, <2>5
<1>9. QED
  BY <1>7, <1>8

(****************************************************************************)
(* Nothing is forgotten.                                                    *)
(****************************************************************************)

InLog(i) == \E n \in 1..Len(operations) : operations[n] = i

Remembered ==
    Alone => \A i \in 1..Len(records) :
                records[i].status = "pending" => InLog(i)

LEMMA RememberedOther ==
    ASSUME TypeOK, TypeOK', Remembered, Alone, NEW t \in Task, OtherStep(t)
    PROVE  Remembered'
<1>1. /\ Len(records) \in Nat
      /\ Len(records) <= Len(records')
      /\ \A i \in 1..Len(records) : records'[i].status = records[i].status
  <2>1. Len(records) \in Nat
    BY LenProperties DEF TypeOK
  <2>2. QED
    BY <2>1, OtherStepRecords
<1>2. CASE AddOperation(t)
  <2> DEFINE n == Len(operations)
  <2>1. n \in Nat
    BY LenProperties DEF TypeOK
  <2>2. Len(records') = Len(records) + 1
    BY <1>2 DEF AddOperation, TypeOK
  <2>3. operations' = Append(operations, Len(records) + 1)
    BY <1>2 DEF AddOperation, NewOperation
  <2>4. /\ Len(operations') = n + 1
        /\ operations'[n + 1] = Len(records) + 1
        /\ \A i \in 1..n : operations'[i] = operations[i]
    BY <2>1, <2>3 DEF TypeOK
  <2> HIDE DEF n
  <2>5. \A i : InLog(i) => InLog(i)'
    BY <2>1, <2>4 DEF InLog, n
  <2>6. \A i : i = Len(records) + 1 => InLog(i)'
    BY <2>1, <2>4 DEF InLog
  <2>7. ASSUME NEW i \in 1..Len(records'), records'[i].status = "pending"
        PROVE  InLog(i)'
    <3>1. CASE i = Len(records) + 1
      BY <2>6, <3>1
    <3>2. CASE i # Len(records) + 1
      <4>1. i \in 1..Len(records)
        BY <1>1, <2>2, <3>2
      <4>2. QED
        BY <1>1, <2>5, <2>7, <4>1 DEF Remembered
    <3>3. QED
      BY <3>1, <3>2
  <2>8. QED
    BY <2>7 DEF Remembered
<1>3. CASE ~AddOperation(t)
  <2>1. operations' = operations
    BY <1>3, OtherStepLog
  <2>2. Len(records') = Len(records)
    BY <1>3 DEF OtherStep, CreateSavepoint, ReleaseSavepoint, SetContext,
       Cancelled, Commit, InvalidationReturns, InvalidationFails, Invalidate,
       TypeOK
  <2>3. QED
    BY <1>1, <2>1, <2>2 DEF Remembered, InLog
<1>4. QED
  BY <1>2, <1>3

LEMMA RememberedWalk ==
    ASSUME TypeOK, Remembered, Alone, NEW t \in Task, NEW f, NEW recs, NEW p,
           WalkTurn(t, f, recs, p), Outcome(t, recs)
    PROVE  Remembered'
<1>1. PICK k \in Nat :
         /\ WalkStep(t, f, recs, p, k)
         /\ Len(records') = Len(records)
         /\ \A i \in 1..Len(records) :
               records'[i].status = "pending" => recs[i] = records[i]
         /\ k = 0 => \A j \in 1..Len(f.log) :
                        records'[f.log[j]].status # "pending"
  BY WalkTurnStep
<1>2. \A i \in 1..Len(records) :
         records'[i].status = "pending" => records[i].status = "pending"
  <2>1. \A i \in 1..Len(records) :
           records'[i].status \in {recs[i].status, "skipped"}
    BY <1>1, WalkStepRecords DEF WalkTurn
  <2>2. QED
    BY <1>1, <2>1
<1>3. ASSUME NEW i \in 1..Len(records'), records'[i].status = "pending"
      PROVE  InLog(i)'
  <2>1. PICK n \in 1..Len(operations) : operations[n] = i
    BY <1>1, <1>2, <1>3 DEF Remembered, InLog
  <2>2. CASE UNCHANGED <<operations, savepoints>>
    BY <2>1, <2>2 DEF InLog
  <2>3. CASE k = 0 /\ f.log = operations
    BY <1>1, <1>3, <2>1, <2>3
  <2>4. ASSUME k = 0, NEW index \in Nat, index < Len(operations),
               f.log = SubSeq(operations, index + 1, Len(operations)),
               operations' = Take(operations, index)
        PROVE  InLog(i)'
    <3>1. Len(operations) \in Nat /\ operations \in Seq(1..Len(records))
      BY LenProperties DEF TypeOK
    <3>2. CASE n <= index
      <4>1. /\ Len(operations') = IF index < Len(operations) THEN index
                                  ELSE Len(operations)
            /\ \A m \in 1..Len(operations') : operations'[m] = operations[m]
        BY <2>4, <3>1, TakeFacts
      <4>2. Len(operations') = index
        BY <2>4, <4>1
      <4>3. n \in 1..Len(operations')
        BY <3>1, <3>2, <4>2
      <4>4. QED
        BY <2>1, <4>1, <4>3 DEF InLog
    <3>3. CASE n > index
      <4>1. /\ Len(f.log) = Len(operations) - index
            /\ f.log[n - index] = operations[n]
        BY <2>4, <3>1, <3>3
      <4>2. n - index \in 1..Len(f.log)
        BY <2>4, <3>1, <3>3, <4>1
      <4>3. QED
        BY <1>1, <1>3, <2>1, <2>4, <4>1, <4>2
    <3>4. QED
      BY <3>1, <3>2, <3>3
  <2>5. QED
    BY <1>1, <2>2, <2>3, <2>4, WalkLog
<1>4. QED
  BY <1>3 DEF Remembered

LEMMA RememberedNext ==
    TypeOK /\ ReverseOrder /\ Sequential /\ Remembered /\ [Next]_vars
        => Remembered'
<1> SUFFICES ASSUME TypeOK, ReverseOrder, Sequential, Remembered, [Next]_vars
             PROVE  Remembered'
  OBVIOUS
<1>1. CASE UNCHANGED vars
  BY <1>1 DEF vars, Remembered, Alone, InLog
<1>2. CASE ~Alone'
  BY <1>2 DEF Remembered
<1>3. CASE Next /\ Alone'
  BY <1>3, TypeNext, StepsAlone, RememberedOther, RememberedWalk
<1>4. QED
  BY <1>1, <1>2, <1>3

(****************************************************************************)
(* A finished transaction.                                                  *)
(****************************************************************************)

FinalStateKept ==
    ("overlap" \notin faults' /\ state \in {"committed", "rolled_back"})
        => (state' = state)

LEMMA FinalStateNext ==
    TypeOK /\ ReverseOrder /\ Sequential /\ [Next]_vars => FinalStateKept
<1> SUFFICES ASSUME TypeOK, ReverseOrder, Sequential, [Next]_vars, Alone',
                    state \in {"committed", "rolled_back"}
             PROVE  state' = state
  BY DEF FinalStateKept, Alone
<1>1. CASE UNCHANGED vars
  BY <1>1 DEF vars
<1>2. CASE Next
  <2>1. Alone
    BY <1>2, StepsAlone
  <2>2. PICK t \in Task :
           \/ OtherStep(t)
           \/ \E f, recs, p : WalkTurn(t, f, recs, p)
    BY <1>2, StepsAlone
  <2>3. ~(\E f, recs, p : WalkTurn(t, f, recs, p))
    BY DEF WalkTurn, Fits
  <2>4. Free(t)
    BY <2>1 DEF Sequential, Fits
  <2>5. ~(InvalidationReturns(t) \/ InvalidationFails(t) \/ Commit(t))
    BY <2>4 DEF InvalidationReturns, InvalidationFails, Commit, Free
  <2>6. QED
    BY <2>2, <2>3, <2>5
    DEF OtherStep, AddOperation, CreateSavepoint, ReleaseSavepoint, SetContext,
        Cancelled
<1>3. QED
  BY <1>1, <1>2

(****************************************************************************)
(* No record is recreated twice.                                            *)
(****************************************************************************)

AtMostOnce ==
    faults \subseteq {"failure", "missing"} =>
        \A i \in 1..Len(records) : records[i].effects <= 1

\* What has failed so far leaves room for neither overlap nor cancellation.
LEMMA OnlyFailures ==
    ASSUME TypeOK, StatusTruthful, AtMostOnce, CalledFresh,
           faults' \subseteq {"failure", "missing"}, Next
    PROVE  /\ Alone'
           /\ "cancellation" \notin faults'
           /\ \A i \in 1..Len(records) :
                 /\ records[i].effects \in Nat
                 /\ records[i].effects <= 1
                 /\ records[i].status = "pending" => records[i].effects = 0
           /\ \A u \in Task : Calling(u) => records[Called(u)].effects = 0
<1>1. faults \subseteq {"failure", "missing"}
  BY NextCases
<1>2. \A i \in 1..Len(records) : records[i] \in OperationRecord
  BY ElementOfSeq DEF TypeOK
<1>3. DOMAIN records = 1..Len(records)
  BY LenProperties DEF TypeOK
<1>4. QED
  BY <1>1, <1>2, <1>3
  DEF Alone, StatusTruthful, AtMostOnce, CalledFresh, OperationRecord

LEMMA OnceOther ==
    ASSUME TypeOK, StatusTruthful, AtMostOnce, CalledFresh, Next,
           NEW t \in Task, OtherStep(t)
    PROVE  AtMostOnce' /\ CalledFresh'
<1> SUFFICES ASSUME faults' \subseteq {"failure", "missing"}
             PROVE  /\ \A i \in 1..Len(records') : records'[i].effects <= 1
                    /\ \A u \in Task :
                          Calling(u)' => records'[Called(u)'].effects = 0
  BY DEF AtMostOnce, CalledFresh
<1>1. /\ \A i \in 1..Len(records) : records[i].effects <= 1
      /\ \A u \in Task : Calling(u) => records[Called(u)].effects = 0
      /\ "cancellation" \notin faults'
      /\ Len(records) \in Nat
  BY OnlyFailures, LenProperties DEF TypeOK
<1>2. /\ \A i \in 1..Len(records) : records'[i] = records[i]
      /\ \A i \in 1..Len(records') : i \notin 1..Len(records) =>
            records'[i].effects = 0
  <2>1. CASE AddOperation(t)
    <3>1. PICK kind \in Kind, model \in Model, data \in HasData :
             records' = Append(records,
                [kind |-> kind, model |-> model, data |-> data,
                 status |-> "pending", effects |-> 0])
      BY <2>1 DEF AddOperation
    <3> DEFINE n == Len(records)
               r == [kind |-> kind, model |-> model, data |-> data,
                     status |-> "pending", effects |-> 0]
    <3>2. n \in Nat /\ r.effects = 0
      BY <1>1
    <3> HIDE DEF r
    <3>3. /\ Len(records') = n + 1
          /\ records'[n + 1] = r
          /\ \A i \in 1..n : records'[i] = records[i]
      BY <3>1, <3>2 DEF TypeOK, r
    <3> HIDE DEF n
    <3>4. \A i \in 1..(n + 1) : i \notin 1..n => i = n + 1
      BY <3>2
    <3>5. QED
      BY <3>2, <3>3, <3>4 DEF n
  <2>2. CASE UNCHANGED records
    BY <2>2
  <2>3. CASE Cancelled(t) /\ "cancellation" \in faults'
    BY <1>1, <2>3
  <2>4. QED
    BY <2>1, <2>2, <2>3
    DEF OtherStep, CreateSavepoint, ReleaseSavepoint, SetContext, Commit,
        InvalidationReturns, InvalidationFails, Invalidate
<1>3. \A i \in 1..Len(records') : records'[i].effects <= 1
  BY <1>1, <1>2
<1>4. ASSUME NEW u \in Task, Calling(u)'
      PROVE  records'[Called(u)'].effects = 0
  <2>1. frame'[u] = frame[u] /\ Calling(u)
    BY <1>4, OtherStepFrames
  <2>2. Called(u)' = Called(u) /\ Called(u) \in 1..Len(records)
    BY <2>1, CallingFacts DEF Called
  <2>3. QED
    BY <1>1, <1>2, <2>1, <2>2
<1>5. QED
  BY <1>3, <1>4

LEMMA OnceWalk ==
    ASSUME TypeOK, TypeOK', StatusTruthful, AtMostOnce, CalledFresh, Next,
           NEW t \in Task, NEW f, NEW recs, NEW p,
           WalkTurn(t, f, recs, p), Outcome(t, recs)
    PROVE  AtMostOnce' /\ CalledFresh'
<1> SUFFICES ASSUME faults' \subseteq {"failure", "missing"}
             PROVE  /\ \A i \in 1..Len(records') : records'[i].effects <= 1
                    /\ \A u \in Task :
                          Calling(u)' => records'[Called(u)'].effects = 0
  BY DEF AtMostOnce, CalledFresh
<1>1. /\ \A i \in 1..Len(records) :
            /\ records[i].effects \in Nat
            /\ records[i].effects <= 1
            /\ records[i].status = "pending" => records[i].effects = 0
      /\ \A u \in Task : Calling(u) => records[Called(u)].effects = 0
  BY OnlyFailures
<1>2. PICK k \in Nat :
         /\ WalkStep(t, f, recs, p, k)
         /\ Len(records') = Len(records)
  BY WalkTurnStep
<1>3. /\ \A i \in 1..Len(records) : records'[i].effects = recs[i].effects
      /\ k > 0 => records'[f.log[k]] = recs[f.log[k]]
  BY <1>2, WalkStepRecords DEF WalkTurn
<1>4. \A i \in 1..Len(records) : recs[i].effects <= 1
  <2> TAKE i \in 1..Len(records)
  <2>1. CASE recs[i].effects = records[i].effects
    BY <1>1, <2>1
  <2>2. CASE Calling(t) /\ i = Called(t) /\ recs[i].effects <= records[i].effects + 1
    <3>1. records[i].effects = 0
      BY <1>1, <2>2
    <3>2. recs[i].effects <= 0 + 1
      BY <2>2, <3>1, Zenon
    <3>3. QED
      BY <3>2
  <2>3. QED
    BY <2>1, <2>2 DEF Outcome
<1>5. \A i \in 1..Len(records') : records'[i].effects <= 1
  BY <1>2, <1>3, <1>4
<1>6. ASSUME NEW u \in Task, Calling(u)'
      PROVE  records'[Called(u)'].effects = 0
  <2>1. CASE u # t
    <3>1. frame'[u].pc = frame[u].pc /\ frame[u].pc = "idle"
      BY <1>2, <2>1, WalkStepFrames DEF WalkTurn, Free
    <3>2. QED
      BY <1>6, <3>1 DEF Calling
  <2>2. CASE u = t /\ k = 0
    <3>1. frame'[t].pc = "idle"
      BY <1>2, <2>2, WalkStepFrames, IdleType DEF WalkTurn
    <3>2. QED
      BY <1>6, <2>2, <3>1 DEF Calling
  <2>3. CASE u = t /\ k > 0
    <3>1. Called(u)' = f.log[k]
      BY <1>2, <2>3, WalkStepFrames DEF WalkTurn, Called
    <3> DEFINE i == f.log[k]
    <3>2. i \in 1..Len(records)
      <4>1. f.log \in Seq(1..Len(records)) /\ Len(f.log) \in Nat
        BY LenProperties DEF WalkTurn, Walking
      <4>2. k \in 1..Len(f.log)
        BY <1>2, <2>3, <4>1 DEF WalkStep, WalkTurn
      <4>3. QED
        BY <4>1, <4>2, ElementOfSeq
    <3>3. recs[i].status = "pending"
      BY <1>2, <2>3 DEF WalkStep, CanRollback
    <3>4. records'[i] = recs[i]
      BY <1>3, <2>3
    <3> HIDE DEF i
    <3>5. recs[i] = records[i]
      BY <3>2, <3>3 DEF Outcome
    <3>6. records[i].effects = 0
      BY <1>1, <3>2, <3>3, <3>5
    <3>7. records'[i].effects = 0
      BY <3>4, <3>5, <3>6
    <3>8. QED
      BY <3>1, <3>7 DEF i
  <2>4. QED
    BY <2>1, <2>2, <2>3
<1>7. QED
  BY <1>5, <1>6

LEMMA OnceNext ==
    TypeOK /\ ReverseOrder /\ StatusTruthful /\ Sequential
      /\ AtMostOnce /\ CalledFresh /\ [Next]_vars
        => AtMostOnce' /\ CalledFresh'
<1> SUFFICES ASSUME TypeOK, ReverseOrder, StatusTruthful, Sequential,
                    AtMostOnce, CalledFresh, [Next]_vars
             PROVE  AtMostOnce' /\ CalledFresh'
  OBVIOUS
<1>1. CASE UNCHANGED vars
  BY <1>1 DEF vars, AtMostOnce, CalledFresh, Calling, Called
<1>2. CASE ~(faults' \subseteq {"failure", "missing"})
  BY <1>2 DEF AtMostOnce, CalledFresh
<1>3. CASE Next /\ faults' \subseteq {"failure", "missing"}
  <2>1. Alone'
    BY <1>3 DEF Alone
  <2>2. QED
    BY <1>3, <2>1, TypeNext, StepsAlone, OnceOther, OnceWalk
<1>4. QED
  BY <1>1, <1>2, <1>3

(****************************************************************************)
(* A commit leaves nothing stale of what it noted.                          *)
(****************************************************************************)

\* An entry that a commit reaches is behind it, or the transaction has not
\* committed yet and every commit under way is still to drop it.
Due(e) ==
    /\ state # "committed"
    /\ e \in dirty
    /\ \A u \in Task : frame[u].pc = "commit" => e \in frame[u].targets

Covered ==
    /\ \A i \in 1..Len(records) : {records[i].model} \X KeyForm \subseteq dirty
    /\ \A e \in stale : Reached(e) => e \in missed \/ Due(e)

\* The step begins no commit, ends none as committed, and forgets nothing.
SameCommits ==
    /\ dirty \subseteq dirty'
    /\ state' = "committed" => state = "committed"
    /\ \A u \in Task : frame'[u].pc = "commit" =>
          frame[u].pc = "commit" /\ frame'[u].targets = frame[u].targets

\* The cache is as it was, or entries of a model noted have become stale.
WroteNoted ==
    \/ UNCHANGED cacheVars
    \/ \E model \in Model : Written(model) /\ {model} \X KeyForm \subseteq dirty'

LEMMA CoveredKept ==
    ASSUME Covered, SameCommits, WroteNoted
    PROVE  \A e \in stale' : Reached(e) => e \in missed' \/ Due(e)'
<1> SUFFICES ASSUME NEW e \in stale', Reached(e), e \notin missed'
             PROVE  Due(e)'
  OBVIOUS
<1>1. missed \subseteq missed'
  BY DEF WroteNoted, Written, cacheVars
<1>2. CASE e \in stale
  BY <1>1, <1>2 DEF Covered, Due, SameCommits
<1>3. CASE e \notin stale
  <2>1. PICK model \in Model :
          Written(model) /\ {model} \X KeyForm \subseteq dirty'
    BY <1>3 DEF WroteNoted, cacheVars
  <2>2. e \in Entries(model)
    BY <1>3, <2>1 DEF Written
  <2>3. e \in dirty'
    BY <2>1, <2>2 DEF Entries, Reached, KeyForm
  <2>4. state # "committed" /\ \A u \in Task : frame[u].pc # "commit"
    BY <2>1, <2>2 DEF Written
  <2> QED
    BY <2>3, <2>4 DEF Due, SameCommits
<1> QED
  BY <1>2, <1>3

\* A walk leaves the commits of other tasks alone.
LEMMA WalkCommits ==
    ASSUME TypeOK, NEW t \in Task, NEW f, Walking(f),
           NEW recs, NEW p \in 0..Len(f.log), NEW k, WalkStep(t, f, recs, p, k),
           UNCHANGED dirty
    PROVE  SameCommits
<1>1. ASSUME NEW g \in Frame, NEW w \in {"own", "copy", "ended"}
      PROVE  /\ [g EXCEPT !.walked = w].pc = g.pc
             /\ [g EXCEPT !.walked = w].targets = g.targets
  BY DEF Frame
<1>2. ASSUME NEW g \in Frame
      PROVE  [g EXCEPT !.pos = k].pc = g.pc
  BY DEF Frame
<1>3. \A u \in Task : frame[u] \in Frame
  BY DEF TypeOK
<1>4. f \in Frame /\ f.pc # "commit" /\ Idle.pc = "idle"
  BY IdleType DEF Walking
<1>5. CASE k > 0 /\ frame' = [frame EXCEPT ![t] = [f EXCEPT !.pos = k]]
           /\ UNCHANGED state
  <2> DEFINE g == [f EXCEPT !.pos = k]
  <2>1. g.pc # "commit"
    BY <1>2, <1>4
  <2> HIDE DEF g
  <2>2. \A u \in Task : frame'[u] = IF u = t THEN g ELSE frame[u]
    BY <1>5 DEF TypeOK, g
  <2> QED
    BY <1>5, <2>1, <2>2 DEF SameCommits
<1>6. ASSUME NEW w \in {"own", "copy", "ended"},
             frame' = [u \in Task |->
                          IF u = t THEN Idle
                          ELSE IF ~f.failed /\ frame[u].walked = "own"
                          THEN [frame[u] EXCEPT !.walked = w]
                          ELSE frame[u]]
      PROVE  \A u \in Task : frame'[u].pc = "commit" =>
                frame[u].pc = "commit" /\ frame'[u].targets = frame[u].targets
  <2> SUFFICES ASSUME NEW u \in Task, frame'[u].pc = "commit"
               PROVE  frame[u].pc = "commit" /\ frame'[u].targets = frame[u].targets
    OBVIOUS
  <2>1. u # t
    BY <1>4, <1>6
  <2>2. frame'[u] = frame[u] \/ frame'[u] = [frame[u] EXCEPT !.walked = w]
    BY <1>6, <2>1
  <2> QED
    BY <1>1, <1>3, <2>2, Zenon
<1>7. CASE FinishRollback(t, f)
  BY <1>6, <1>7 DEF FinishRollback, SameCommits
<1>8. CASE FinishSavepoint(t, f)
  BY <1>6, <1>8 DEF FinishSavepoint, SameCommits
<1> QED
  BY <1>5, <1>7, <1>8 DEF WalkStep

\* A walk knows the records it walks.
LEMMA WalkModels ==
    ASSUME TypeOK, Covered, NEW t \in Task, NEW f, Walking(f),
           NEW recs \in Seq(OperationRecord), Len(recs) = Len(records),
           NEW p \in 0..Len(f.log), WalkOn(t, f, recs, p),
           \A i \in 1..Len(records) : recs[i].model = records[i].model,
           UNCHANGED dirty, WroteNoted
    PROVE  Covered'
<1>1. PICK k : WalkStep(t, f, recs, p, k)
  BY WalkOnStep
<1>2. /\ Len(records') = Len(records)
      /\ \A i \in 1..Len(records) : records'[i].model = recs[i].model
  BY <1>1, WalkStepRecords
<1>3. \A i \in 1..Len(records') : records'[i].model = records[i].model
  BY <1>2
<1>4. \A i \in 1..Len(records') : {records'[i].model} \X KeyForm \subseteq dirty'
  BY <1>2, <1>3 DEF Covered
<1>5. SameCommits
  BY <1>1, WalkCommits
<1> QED
  BY <1>4, <1>5, CoveredKept DEF Covered

\* Steps that write the cache only by what they noted, and walk nothing.
LEMMA CoveredOther ==
    ASSUME TypeOK, Covered, NEW t \in Task,
           \/ AddOperation(t) \/ CreateSavepoint(t)
           \/ ReleaseSavepoint(t) \/ SetContext(t) \/ Cancelled(t),
           OtherStep(t)
    PROVE  Covered'
<1>1. CASE AddOperation(t)
  <2>1. PICK kind \in Kind, model \in Model, data \in HasData :
           /\ records' = Append(records,
                [kind |-> kind, model |-> model, data |-> data,
                 status |-> "pending", effects |-> 0])
           /\ dirty' = dirty \cup ({model} \X KeyForm)
           /\ Written(model)
    BY <1>1 DEF AddOperation, Track
  <2> DEFINE n == Len(records)
             r == [kind |-> kind, model |-> model, data |-> data,
                   status |-> "pending", effects |-> 0]
  <2>2. n \in Nat /\ r.model = model
    BY LenProperties DEF TypeOK
  <2> HIDE DEF r
  <2>3. /\ Len(records') = n + 1
        /\ records'[n + 1] = r
        /\ \A i \in 1..n : records'[i] = records[i]
    BY <2>1, <2>2 DEF TypeOK, r
  <2> HIDE DEF n
  <2>4. \A i \in 1..(n + 1) : i \in 1..n \/ i = n + 1
    BY <2>2
  <2>5. \A i \in 1..n : {records[i].model} \X KeyForm \subseteq dirty
    BY DEF Covered, n
  <2>6. \A i \in 1..Len(records') : {records'[i].model} \X KeyForm \subseteq dirty'
    <3> SUFFICES ASSUME NEW i \in 1..Len(records')
                 PROVE  {records'[i].model} \X KeyForm \subseteq dirty'
      OBVIOUS
    <3>1. CASE i \in 1..n
      BY <2>1, <2>3, <2>5, <3>1, Zenon
    <3>2. CASE i = n + 1
      <4>1. records'[i].model = model
        BY <2>2, <2>3, <3>2, Zenon
      <4>2. {model} \X KeyForm \subseteq dirty'
        BY <2>1
      <4> QED
        BY <4>1, <4>2, Zenon
    <3> QED
      BY <2>3, <2>4, <3>1, <3>2
  <2>7. SameCommits
    BY <1>1, <2>1 DEF AddOperation, SameCommits
  <2>8. {model} \X KeyForm \subseteq dirty'
    BY <2>1
  <2>9. WroteNoted
    BY <2>1, <2>8 DEF WroteNoted
  <2> QED
    BY <2>6, <2>7, <2>9, CoveredKept DEF Covered
<1>2. CASE CreateSavepoint(t) \/ ReleaseSavepoint(t) \/ SetContext(t)
  BY <1>2, CoveredKept DEF CreateSavepoint, ReleaseSavepoint, SetContext,
     Covered, SameCommits, WroteNoted
<1>3. CASE Cancelled(t)
  <2>1. SameCommits
    BY <1>3, IdleType DEF Cancelled, SameCommits, TypeOK
  <2>2. WroteNoted
    <3>1. CASE UNCHANGED cacheVars
      BY <3>1 DEF WroteNoted
    <3>2. CASE Calling(t) /\ Written(records[Called(t)].model)
      <4>1. Called(t) \in 1..Len(records) /\ records[Called(t)].model \in Model
        BY <3>2, CallingFacts DEF OperationRecord
      <4>2. {records[Called(t)].model} \X KeyForm \subseteq dirty'
        BY <1>3, <4>1 DEF Covered, Cancelled
      <4> QED
        BY <3>2, <4>1, <4>2 DEF WroteNoted
    <3> QED
      BY <1>3, <3>1, <3>2 DEF Cancelled
  <2>3. /\ Len(records') = Len(records) /\ UNCHANGED dirty
        /\ \A i \in 1..Len(records) : records'[i].model = records[i].model
    <3>1. CASE UNCHANGED records
      BY <1>3, <3>1 DEF Cancelled
    <3>2. CASE records' = [records EXCEPT ![Called(t)] = Compensated(@)]
      <4>1. Len(records') = Len(records)
        BY <3>2 DEF TypeOK
      <4> QED
        BY <1>3, <4>1, OtherStepRecords DEF Cancelled
    <3> QED
      BY <1>3, <3>1, <3>2 DEF Cancelled
  <2> QED
    BY <2>1, <2>2, <2>3, CoveredKept DEF Covered
<1> QED
  BY <1>1, <1>2, <1>3

LEMMA CoveredCommit ==
    ASSUME TypeOK, Covered, NEW t \in Task,
           Commit(t) \/ InvalidationReturns(t) \/ InvalidationFails(t)
    PROVE  Covered'
<1>1. UNCHANGED <<records, dirty>>
  BY DEF Commit, InvalidationReturns, InvalidationFails, Invalidate
<1> SUFFICES ASSUME NEW e \in stale', Reached(e), e \notin missed'
             PROVE  Due(e)'
  BY <1>1 DEF Covered
<1>2. e \in stale /\ e \notin missed
  BY DEF Commit, InvalidationReturns, InvalidationFails, cacheVars
<1>3. Due(e)
  BY <1>2 DEF Covered
<1>4. CASE Commit(t)
  <2>1. dirty # {}
    BY <1>3 DEF Due
  <2> DEFINE g == [Idle EXCEPT !.pc = "commit", !.targets = dirty]
  <2>2. g.targets = dirty
    BY CommitFrameType DEF TypeOK
  <2> HIDE DEF g
  <2>3. UNCHANGED <<state, dirty>> /\ frame' = [frame EXCEPT ![t] = g]
    BY <1>4, <2>1 DEF Commit, g
  <2>4. \A u \in Task : frame'[u] = IF u = t THEN g ELSE frame[u]
    BY <2>3 DEF TypeOK
  <2> QED
    BY <1>3, <2>2, <2>3, <2>4 DEF Due
<1>5. CASE InvalidationReturns(t) \/ InvalidationFails(t)
  <2>1. PICK m \in frame[t].targets : Invalidate(t, m) /\ e # m
    BY <1>2, <1>5 DEF InvalidationReturns, InvalidationFails, NextTargets
  <2>2. frame[t].pc = "commit" /\ e \in frame[t].targets
    BY <1>3, <1>5 DEF InvalidationReturns, InvalidationFails, Due
  <2>3. frame' = [frame EXCEPT ![t].targets = Left(@, m)] /\ UNCHANGED state
    BY <2>1, <2>2 DEF Invalidate
  <2> DEFINE g == [frame[t] EXCEPT !.targets = Left(@, m)]
  <2>4. g.targets = frame[t].targets \ {m}
    BY DEF TypeOK, Frame, Left
  <2> HIDE DEF g
  <2>5. \A u \in Task : frame'[u] = IF u = t THEN g ELSE frame[u]
    BY <2>3 DEF TypeOK, g
  <2> QED
    BY <1>1, <1>3, <2>1, <2>2, <2>3, <2>4, <2>5 DEF Due
<1> QED
  BY <1>4, <1>5

LEMMA CoveredNext == TypeOK /\ Covered /\ [Next]_vars => Covered'
<1> SUFFICES ASSUME TypeOK, Covered, [Next]_vars PROVE Covered'
  OBVIOUS
<1>1. CASE UNCHANGED vars
  BY <1>1 DEF vars, cacheVars, Covered, Due
<1>2. CASE Next
  <2>1. PICK t \in Task :
           \/ OtherStep(t)
           \/ \E f : FirstTurn(t, f)
           \/ \E f, r, s, recs : Turn(t, f, r, s, recs)
    BY <1>2, StepCases
  <2>2. CASE OtherStep(t)
    BY <2>2, CoveredOther, CoveredCommit DEF OtherStep
  <2>3. ASSUME NEW f, FirstTurn(t, f) PROVE Covered'
    <3>1. Walking(f) /\ Len(f.log) \in Nat
      BY <2>3, FirstTurnWalking
    <3>2. /\ WalkOn(t, f, records, Len(f.log))
          /\ Len(f.log) \in 0..Len(f.log)
          /\ records \in Seq(OperationRecord)
          /\ UNCHANGED dirty /\ WroteNoted
      BY <2>3, <3>1 DEF FirstTurn, TypeOK, WroteNoted
    <3> QED
      BY <3>1, <3>2, WalkModels
  <2>4. ASSUME NEW f, NEW r, NEW s, NEW recs, Turn(t, f, r, s, recs)
        PROVE  Covered'
    <3>1. Calling(t) /\ Written(records[Called(t)].model) /\ UNCHANGED dirty
      BY <2>4 DEF Turn
    <3>2. Called(t) \in 1..Len(records) /\ records[Called(t)].model \in Model
      BY <3>1, CallingFacts DEF OperationRecord
    <3>3. {records[Called(t)].model} \X KeyForm \subseteq dirty'
      BY <3>1, <3>2 DEF Covered
    <3>4. WroteNoted
      BY <3>1, <3>2, <3>3 DEF WroteNoted
    <3>5. Walking(f) /\ Below(frame[t]) \in 0..Len(f.log)
      BY <2>4, <3>1, TurnWalking, TurnPosition
    <3>6. /\ recs \in Seq(OperationRecord)
          /\ Len(recs) = Len(records)
          /\ WalkOn(t, f, recs, Below(frame[t]))
      BY <2>4 DEF Turn
    <3>7. recs[Called(t)].model = records[Called(t)].model
      BY <2>4, TurnRecord
    <3>8. \A i \in 1..Len(records) : recs[i].model = records[i].model
      BY <2>4, <3>7 DEF Turn
    <3> QED
      BY <3>1, <3>4, <3>5, <3>6, <3>8, WalkModels
  <2> QED
    BY <2>1, <2>2, <2>3, <2>4
<1> QED
  BY <1>1, <1>2

(****************************************************************************)
(* The theorems.                                                            *)
(****************************************************************************)

\* The inductive invariant: what TransactionProofs shows, and that a
\* suspended walk still fits the transaction as long as calls do not overlap.
Undisturbed == TypeOK /\ ReverseOrder /\ StatusTruthful /\ Sequential

LEMMA UndisturbedAlways == Spec => []Undisturbed
<1>1. Init => Undisturbed
  <2>1. Init => ReverseOrder
    BY IdleType DEF Init, ReverseOrder, Calling
  <2>2. Init => StatusTruthful
    BY DEF Init, StatusTruthful
  <2>3. Init => Sequential
    BY IdleType DEF Init, Sequential, Free
  <2>4. QED
    BY <2>1, <2>2, <2>3, TypeInit DEF Undisturbed
<1>2. Undisturbed /\ [Next]_vars => Undisturbed'
  BY TypeNext, ReverseOrderNext, StatusTruthfulNext, SequentialNext
  DEF Undisturbed
<1>3. QED
  BY <1>1, <1>2, PTL DEF Spec

\* The log lists each operation once, in the order it was recorded, whatever
\* rollbacks and savepoints cut from it and however calls overlap.
THEOREM LogStaysInOrder == Spec => []LogInOrder
<1>1. Init => LogInOrder
  BY DEF Init, LogInOrder
<1>2. QED
  BY <1>1, TypeInit, TypeNext, LogInOrderNext, PTL DEF Spec

\* As long as calls do not overlap, a rollback that shortens the log also
\* drops the savepoints that would point past its end, whatever fails and
\* whatever is cancelled.
THEOREM SavepointsStayWithinLog == Spec => []SavepointsWithinLog
<1>1. Init => SavepointsWithinLog
  BY DEF Init, SavepointsWithinLog
<1>2. Undisturbed /\ SavepointsWithinLog /\ [Next]_vars => SavepointsWithinLog'
  BY SavepointsWithinNext DEF Undisturbed
<1>3. QED
  BY <1>1, <1>2, UndisturbedAlways, PTL DEF Spec

\* As long as calls do not overlap, an operation nobody has tried to
\* compensate stays in the log, where a later rollback finds it.
THEOREM NothingForgotten == Spec => []NothingLost
<1>1. Init => Remembered
  BY DEF Init, Remembered
<1>2. Undisturbed /\ Remembered /\ [Next]_vars => Remembered'
  BY RememberedNext DEF Undisturbed
<1>3. Undisturbed /\ Remembered => NothingLost
  <2> SUFFICES ASSUME Undisturbed, Remembered PROVE NothingLost
    OBVIOUS
  <2>1. /\ DOMAIN records = 1..Len(records)
        /\ DOMAIN operations = 1..Len(operations)
    BY LenProperties DEF Undisturbed, TypeOK
  <2>2. QED
    BY <2>1 DEF Remembered, NothingLost, Alone, InLog
<1>4. QED
  BY <1>1, <1>2, <1>3, UndisturbedAlways, PTL DEF Spec

\* A rollback that is tried again after failures, whose calls took effect or
\* did not, recreates no deleted record twice.
THEOREM NeverRecreatedTwice == Spec => []NoDuplicateRecreation
<1>1. Init => AtMostOnce /\ CalledFresh
  BY IdleType DEF Init, AtMostOnce, CalledFresh, Calling
<1>2. Undisturbed /\ AtMostOnce /\ CalledFresh /\ [Next]_vars
         => AtMostOnce' /\ CalledFresh'
  BY OnceNext DEF Undisturbed
<1>3. Undisturbed /\ AtMostOnce => NoDuplicateRecreation
  <2> SUFFICES ASSUME Undisturbed, AtMostOnce PROVE NoDuplicateRecreation
    OBVIOUS
  <2>1. DOMAIN records = 1..Len(records)
    BY LenProperties DEF Undisturbed, TypeOK
  <2>2. QED
    BY <2>1 DEF AtMostOnce, NoDuplicateRecreation
<1>4. QED
  BY <1>1, <1>2, <1>3, UndisturbedAlways, PTL DEF Spec

\* A committed transaction has dropped, of every model it wrote, what it noted
\* of the cache and the cache can drop, however calls overlap and are
\* cancelled, but for writes made once a commit had begun and for cache calls
\* that failed.
THEOREM CommitsInvalidate == Spec => []CommittedMeansInvalidated
<1>1. Init => Covered
  BY DEF Init, Covered
<1>2. Covered => CommittedMeansInvalidated
  BY DEF Covered, Due, CommittedMeansInvalidated
<1>3. QED
  BY <1>1, <1>2, TypeInit, TypeNext, CoveredNext, PTL DEF Spec

\* A committed or rolled back transaction stays so, as long as calls do not
\* overlap: commit and rollback test the state only before they await.
THEOREM FinishedStays == Spec => FinalStateStays
<1>1. Undisturbed /\ [Next]_vars => FinalStateKept
  BY FinalStateNext DEF Undisturbed
<1>2. QED
  BY <1>1, UndisturbedAlways, PTL DEF Spec, FinalStateStays, FinalStateKept

(****************************************************************************)
(* The transaction implements the atomic one.                               *)
(****************************************************************************)

\* Nothing has happened that the promise does not cover.
Good == faults = {} /\ \A i \in 1..Len(records) : records[i].data = TRUE

Quiet(t) == \A u \in Task : u # t => Free(u)

Sole(t) == \A u \in Task : u # t => ~Calling(u)

\* Where the list a call walks begins in the log.
Base(f) == IF f.pc = "savepoint" THEN f.savepoint.index ELSE 0

\* How far the log is still in force while task u is where it is.
Reach(u) ==
    IF Calling(u) THEN Base(frame[u]) + frame[u].pos ELSE Len(operations)

\* What is in force is the log up to where the only walk is, and nothing has
\* gone wrong.
Steady ==
    /\ faults = {}
    /\ state # "failed"
    /\ \A i \in 1..Len(records) :
          records[i].data = TRUE /\ records[i].status \in {"pending", "success"}
    /\ \A u \in Task : frame[u].failed = FALSE
    /\ \A u \in Task : Sole(u) => \A n \in 1..Len(operations) :
          records[operations[n]].status = "pending" <=> n <= Reach(u)

\* A list that fits lies at the end of the log.
LEMMA FitsFacts ==
    ASSUME TypeOK, NEW f, Walking(f), Fits(f)
    PROVE  /\ Base(f) \in Nat
           /\ Len(f.log) \in Nat /\ Len(operations) \in Nat
           /\ Base(f) + Len(f.log) = Len(operations)
           /\ \A j \in 1..Len(f.log) : f.log[j] = operations[Base(f) + j]
<1>1. Len(f.log) \in Nat /\ Len(operations) \in Nat
  BY LenProperties DEF Walking, TypeOK
<1>2. CASE f.pc = "rollback"
  BY <1>1, <1>2 DEF Fits, Base
<1>3. CASE f.pc = "savepoint"
  <2> DEFINE b == f.savepoint.index
  <2>1. b \in Nat /\ b < Len(operations)
    BY <1>3 DEF Fits, SavepointFits, Walking, Frame, Savepoint
  <2>2. f.log = SubSeq(operations, b + 1, Len(operations)) /\ Base(f) = b
    BY <1>3 DEF Fits, SavepointFits, Base
  <2> HIDE DEF b
  <2>3. /\ Len(f.log) = Len(operations) - b
        /\ \A j \in 1..(Len(operations) - b) : f.log[j] = operations[b + j]
    BY <1>1, <2>1, <2>2 DEF TypeOK
  <2>4. QED
    BY <1>1, <2>1, <2>2, <2>3
<1>4. QED
  BY <1>2, <1>3 DEF Walking

\* In a steady state the operation a rollback awaits is the newest in force.
LEMMA ReachFacts ==
    ASSUME Undisturbed, Steady, NEW u \in Task
    PROVE  /\ Reach(u) \in 0..Len(operations)
           /\ Len(operations) \in Nat
           /\ Calling(u) => /\ Walking(frame[u]) /\ Fits(frame[u])
                            /\ Reach(u) > 0
                            /\ Called(u) = operations[Reach(u)]
<1>1. TypeOK /\ Len(operations) \in Nat
  BY LenProperties DEF Undisturbed, TypeOK
<1>2. CASE Calling(u)
  <2>1. /\ Walking(frame[u])
        /\ frame[u].pos \in 1..Len(frame[u].log)
        /\ Called(u) = frame[u].log[frame[u].pos]
    BY <1>1, <1>2, CallingFacts
  <2>2. Fits(frame[u])
    BY <1>2 DEF Undisturbed, Sequential, Steady, Alone, Free, Calling
  <2>3. /\ Base(frame[u]) \in Nat
        /\ Len(frame[u].log) \in Nat
        /\ Base(frame[u]) + Len(frame[u].log) = Len(operations)
        /\ \A j \in 1..Len(frame[u].log) :
              frame[u].log[j] = operations[Base(frame[u]) + j]
    BY <1>1, <2>1, <2>2, FitsFacts
  <2>4. Reach(u) = Base(frame[u]) + frame[u].pos
    BY <1>2 DEF Reach
  <2>5. QED
    BY <1>1, <2>1, <2>2, <2>3, <2>4
<1>3. CASE ~Calling(u)
  BY <1>1, <1>3 DEF Reach
<1>4. QED
  BY <1>2, <1>3

InForce == {i \in DOMAIN records : records[i].effects = 0}

LEMMA InForceIs ==
    ASSUME Undisturbed, Remembered, Steady, NEW u \in Task, Sole(u)
    PROVE  InForce = {operations[n] : n \in 1..Reach(u)}
<1>1. /\ DOMAIN records = 1..Len(records)
      /\ DOMAIN operations = 1..Len(operations)
      /\ \A n \in 1..Len(operations) : operations[n] \in 1..Len(records)
      /\ \A i \in 1..Len(records) : records[i] \in OperationRecord
  <2>1. /\ records \in Seq(OperationRecord)
        /\ operations \in Seq(1..Len(records))
    BY DEF Undisturbed, TypeOK
  <2>2. QED
    BY <2>1, LenProperties, ElementOfSeq
<1>2. \A i \in 1..Len(records) :
         records[i].effects = 0 <=> records[i].status = "pending"
  <2> TAKE i \in 1..Len(records)
  <2>1. /\ records[i].status = "success" => records[i].effects > 0
        /\ records[i].status = "pending" => records[i].effects = 0
        /\ records[i].status \in {"pending", "success"}
    BY <1>1 DEF Undisturbed, StatusTruthful, Steady
  <2>2. records[i].effects \in Nat
    BY <1>1 DEF OperationRecord
  <2>3. QED
    BY <2>1, <2>2
<1>3. \A i \in 1..Len(records) :
         records[i].status = "pending" => InLog(i)
  BY DEF Remembered, Steady, Alone
<1>4. \A n \in 1..Len(operations) :
         records[operations[n]].status = "pending" <=> n <= Reach(u)
  BY DEF Steady
<1>5. Reach(u) \in 0..Len(operations) /\ Len(operations) \in Nat
  BY ReachFacts
<1>6. InForce \subseteq {operations[n] : n \in 1..Reach(u)}
  <2> SUFFICES ASSUME NEW i \in 1..Len(records), records[i].effects = 0
               PROVE  \E n \in 1..Reach(u) : i = operations[n]
    BY <1>1 DEF InForce
  <2>1. PICK n \in 1..Len(operations) : operations[n] = i
    BY <1>2, <1>3 DEF InLog
  <2>2. n <= Reach(u)
    BY <1>2, <1>4, <2>1
  <2>3. QED
    BY <1>5, <2>1, <2>2
<1>7. \A n \in 1..Reach(u) : operations[n] \in InForce
  <2> TAKE n \in 1..Reach(u)
  <2>1. n \in 1..Len(operations) /\ n <= Reach(u)
    BY <1>5
  <2>2. QED
    BY <1>1, <1>2, <1>4, <2>1 DEF InForce
<1>8. QED
  BY <1>6, <1>7

\* A turn when all is steady: what lies below position p is still in force.
SteadyTurn(t, f, recs, p) ==
    /\ WalkTurn(t, f, recs, p)
    /\ f.failed = FALSE
    /\ \A i \in 1..Len(records) :
          recs[i].data = TRUE /\ recs[i].status \in {"pending", "success"}
    /\ \A n \in 1..Len(operations) :
          recs[operations[n]].status = "pending" <=> n <= Base(f) + p

\* Nothing is skipped: the walk stops at the next operation, and the records
\* are those with the outcome.
LEMMA SteadyTurnStep ==
    ASSUME TypeOK, NEW t \in Task, NEW f, NEW recs, NEW p,
           SteadyTurn(t, f, recs, p)
    PROVE  /\ WalkStep(t, f, recs, p, p)
           /\ Len(records') = Len(records)
           /\ \A i \in 1..Len(records) : records'[i] = recs[i]
<1>1. PICK k : WalkStep(t, f, recs, p, k)
  BY WalkOnStep DEF SteadyTurn, WalkTurn
<1>2. /\ Walking(f) /\ Fits(f)
      /\ p \in 0..Len(f.log)
      /\ recs \in Seq(OperationRecord) /\ Len(recs) = Len(records)
  BY DEF SteadyTurn, WalkTurn
<1>3. /\ Base(f) \in Nat
      /\ Len(f.log) \in Nat /\ Len(operations) \in Nat
      /\ Base(f) + Len(f.log) = Len(operations)
      /\ \A j \in 1..Len(f.log) : f.log[j] = operations[Base(f) + j]
  BY <1>2, FitsFacts
<1>4. k \in 0..p
  BY <1>1 DEF WalkStep
<1>5. k = p
  <2> SUFFICES ASSUME k < p PROVE FALSE
    BY <1>2, <1>3, <1>4
  <2>1. p \in (k + 1)..p /\ p \in 1..Len(f.log)
    BY <1>2, <1>3, <1>4
  <2>2. ~CanRollback(recs[f.log[p]])
    BY <1>1, <2>1 DEF WalkStep
  <2> DEFINE n == Base(f) + p
  <2>3. n \in 1..Len(operations) /\ f.log[p] = operations[n]
    BY <1>2, <1>3, <2>1
  <2>4. recs[operations[n]].status = "pending"
    BY <1>2, <1>3, <2>3 DEF SteadyTurn
  <2>5. f.log[p] \in 1..Len(records)
    BY <1>2, <2>1, ElementOfSeq DEF Walking
  <2>6. recs[f.log[p]].data = TRUE
    BY <2>5 DEF SteadyTurn
  <2>7. QED
    BY <2>2, <2>3, <2>4, <2>6 DEF CanRollback
<1>6. records' = Skipped(recs, f.log, p, p)
  BY <1>1, <1>5 DEF WalkStep
<1>7. \A i \in 1..Len(recs) : Skipped(recs, f.log, p, p)[i] = recs[i]
  <2> TAKE i \in 1..Len(recs)
  <2>1. \A j \in (p + 1)..p : f.log[j] # i
    BY <1>2, <1>3
  <2>2. QED
    BY <1>2, <2>1, SkippedFacts
<1>8. Len(records') = Len(records)
  BY <1>2, <1>6, SkippedFacts
<1>9. QED
  BY <1>1, <1>2, <1>5, <1>6, <1>7, <1>8

LEMMA FirstTurnSteady ==
    ASSUME Undisturbed, Steady, Alone', NEW t \in Task, NEW f, FirstTurn(t, f)
    PROVE  SteadyTurn(t, f, records, Len(f.log))
<1>1. WalkTurn(t, f, records, Len(f.log))
  BY FirstTurnAlone DEF Undisturbed
<1>2. TypeOK /\ Walking(f) /\ Fits(f)
  BY <1>1 DEF WalkTurn, Undisturbed
<1>3. Base(f) + Len(f.log) = Len(operations)
  BY <1>2, FitsFacts
<1>4. Reach(t) = Len(operations) /\ Sole(t)
  BY <1>1 DEF FirstTurn, WalkTurn, Free, Calling, Reach, Sole
<1>5. f.failed = FALSE
  <2>1. Idle \in Frame /\ Idle.failed = FALSE
    BY IdleType DEF Idle
  <2>2. f = RollbackWalk \/ \E n \in DOMAIN savepoints : f = SavepointWalk(n)
    BY DEF FirstTurn
  <2>3. QED
    BY <2>1, <2>2 DEF RollbackWalk, SavepointWalk, Frame
<1>6. QED
  BY <1>1, <1>3, <1>4, <1>5 DEF SteadyTurn, Steady

LEMMA ReturnSteady ==
    ASSUME Undisturbed, Steady, LogInOrder, NEW t \in Task,
           CompensationReturns(t)
    PROVE  \E recs :
              /\ SteadyTurn(t, frame[t], recs, frame[t].pos - 1)
              /\ \A i \in 1..Len(records) : i # Called(t) => recs[i] = records[i]
              /\ recs[Called(t)].effects # 0
              /\ Calling(t) /\ Called(t) \in 1..Len(records)
<1> DEFINE c == Called(t)
           r == [Compensated(records[c]) EXCEPT !.status = "success"]
           recs == [records EXCEPT ![c] = r]
<1>1. /\ TypeOK /\ Calling(t)
      /\ Fits(frame[t])
  BY ReachFacts DEF Undisturbed, CompensationReturns
<1>2. /\ Walking(frame[t])
      /\ Below(frame[t]) \in 0..Len(frame[t].log)
      /\ Below(frame[t]) = frame[t].pos - 1
      /\ frame[t].pos \in 1..Len(frame[t].log)
      /\ c \in 1..Len(records)
      /\ c = frame[t].log[frame[t].pos]
      /\ records[c] \in OperationRecord
  BY <1>1, CallingFacts DEF Below, Fits
<1>3. WalkOn(t, frame[t], recs, frame[t].pos - 1) /\ UNCHANGED <<created, dirty>>
  BY <1>2 DEF CompensationReturns
<1> HIDE DEF c
<1>4. /\ r \in OperationRecord
      /\ r.status = "success"
      /\ r.data = records[c].data
      /\ r.effects > 0
  BY <1>2, CompensatedFacts, ZenonT(60) DEF OperationRecord
<1> HIDE DEF r
<1>5. /\ recs \in Seq(OperationRecord)
      /\ Len(recs) = Len(records)
      /\ \A i \in 1..Len(records) : recs[i] = IF i = c THEN r ELSE records[i]
  BY <1>1, <1>2, <1>4, ExceptSeq, SMTT(60) DEF TypeOK
<1> HIDE DEF recs
<1>6. /\ Base(frame[t]) \in Nat
      /\ Len(frame[t].log) \in Nat /\ Len(operations) \in Nat
      /\ Base(frame[t]) + Len(frame[t].log) = Len(operations)
      /\ \A j \in 1..Len(frame[t].log) :
            frame[t].log[j] = operations[Base(frame[t]) + j]
  BY <1>1, <1>2, FitsFacts
<1> DEFINE m == Base(frame[t]) + frame[t].pos
<1>7. m \in 1..Len(operations) /\ c = operations[m] /\ m = Reach(t)
  <2>1. frame[t].pos \in Nat /\ frame[t].pos >= 1 /\ frame[t].pos <= Len(frame[t].log)
    BY <1>2, <1>6
  <2>2. m \in 1..Len(operations)
    BY <1>6, <2>1
  <2>3. c = operations[m]
    BY <1>2, <1>6
  <2>4. m = Reach(t)
    <3>1. Calling(t)
      BY <1>1 DEF Calling
    <3>2. QED
      BY <3>1 DEF Reach
  <2>5. QED
    BY <2>2, <2>3, <2>4
<1>8. /\ DOMAIN operations = 1..Len(operations)
      /\ \A n \in 1..Len(operations) : operations[n] \in 1..Len(records)
  <2>1. operations \in Seq(1..Len(records))
    BY <1>1 DEF TypeOK
  <2>2. QED
    BY <2>1, LenProperties, ElementOfSeq
<1> HIDE DEF m
<1>9. ASSUME NEW n \in 1..Len(operations)
      PROVE  recs[operations[n]].status = "pending" <=> n <= m - 1
  <2>1. records[operations[n]].status = "pending" <=> n <= m
    <3>1. Sole(t)
      BY <1>1 DEF Undisturbed, Sequential, Steady, Alone, Free, Calling, Sole
    <3>2. QED
      BY <1>7, <3>1 DEF Steady
  <2>2. n \in Nat /\ m \in Nat /\ operations[n] \in 1..Len(records)
    BY <1>6, <1>7, <1>8
  <2>3. CASE n = m
    BY <1>4, <1>5, <1>7, <2>2, <2>3
  <2>4. CASE n # m
    <3>1. operations[n] # c
      <4>1. n < m \/ m < n
        BY <2>2, <2>4
      <4>2. operations[n] < operations[m] \/ operations[m] < operations[n]
        BY <1>7, <1>8, <4>1 DEF LogInOrder
      <4>3. QED
        BY <1>2, <1>7, <2>2, <4>2
    <3>2. recs[operations[n]] = records[operations[n]]
      BY <1>5, <2>2, <3>1
    <3>3. n <= m <=> n <= m - 1
      BY <2>2, <2>4
    <3>4. QED
      BY <2>1, <3>2, <3>3
  <2>5. QED
    BY <2>3, <2>4
<1>10. \A j \in ((frame[t].pos - 1) + 1)..Len(frame[t].log) :
          recs[frame[t].log[j]].status # "pending"
  <2> TAKE j \in ((frame[t].pos - 1) + 1)..Len(frame[t].log)
  <2>1. /\ j \in 1..Len(frame[t].log)
        /\ Base(frame[t]) + j \in 1..Len(operations)
        /\ ~(Base(frame[t]) + j <= m - 1)
    <3>1. /\ frame[t].pos \in Nat /\ frame[t].pos >= 1
          /\ frame[t].pos <= Len(frame[t].log)
      BY <1>2, <1>6
    <3>2. j \in Nat /\ j >= frame[t].pos /\ j <= Len(frame[t].log)
      BY <1>6, <3>1
    <3>3. m = Base(frame[t]) + frame[t].pos
      BY DEF m
    <3>4. j \in 1..Len(frame[t].log) /\ Base(frame[t]) + j \in 1..Len(operations)
      BY <1>6, <3>1, <3>2
    <3>5. ~(Base(frame[t]) + j <= m - 1)
      BY <1>6, <3>1, <3>2, <3>3
    <3>6. QED
      BY <3>4, <3>5
  <2>2. frame[t].log[j] = operations[Base(frame[t]) + j]
    BY <1>6, <2>1
  <2>3. QED
    BY <1>9, <2>1, <2>2
<1>11. \A u \in Task : u # t => Free(u)
  BY <1>1, SMTT(60) DEF Undisturbed, Sequential, Steady, Alone, Free, Calling
<1>12. WalkTurn(t, frame[t], recs, frame[t].pos - 1)
  BY <1>1, <1>2, <1>3, <1>5, <1>10, <1>11, ZenonT(60) DEF WalkTurn, recs, r
<1>13. \A i \in 1..Len(records) :
          recs[i].data = TRUE /\ recs[i].status \in {"pending", "success"}
  BY <1>2, <1>4, <1>5 DEF Steady
<1>14. Base(frame[t]) + (frame[t].pos - 1) = m - 1
  BY <1>2, <1>6 DEF m
<1>15. SteadyTurn(t, frame[t], recs, frame[t].pos - 1)
  BY <1>9, <1>12, <1>13, <1>14 DEF SteadyTurn, Steady
<1>16. recs[c].effects # 0
  BY <1>2, <1>4, <1>5, SMTT(60)
<1>17. QED
  BY <1>1, <1>2, <1>5, <1>15, <1>16 DEF c

Excused == faults # {} \/ \E i \in DOMAIN records : ~records[i].data

LEMMA GoodIs == TypeOK => (~Good <=> Excused)
<1> SUFFICES ASSUME TypeOK PROVE ~Good <=> Excused
  OBVIOUS
<1>1. DOMAIN records = 1..Len(records)
  BY LenProperties DEF TypeOK
<1>2. \A i \in 1..Len(records) : records[i].data \in BOOLEAN
  <2>1. \A i \in 1..Len(records) : records[i] \in OperationRecord
    BY ElementOfSeq DEF TypeOK
  <2> QED
    BY <2>1 DEF OperationRecord
<1>3. \A i \in 1..Len(records) : records[i].data = TRUE <=> records[i].data
  BY <1>2, Zenon
<1> HIDE DEF Good
<1>4. Good <=> (faults = {} /\ \A i \in DOMAIN records : records[i].data)
  BY <1>1, <1>3, Zenon DEF Good
<1> QED
  BY <1>4, Zenon DEF Excused

\* No step changes the data of a record, or forgets what has gone wrong.
LEMMA GoodBefore ==
    ASSUME TypeOK, Next, Good'
    PROVE  Good /\ Alone'
<1>1. faults' = {} /\ faults = {}
  BY NextCases DEF Good
<1>2. Len(records) \in Nat
  BY LenProperties DEF TypeOK
<1>3. PICK t \in Task :
         \/ OtherStep(t)
         \/ \E f : FirstTurn(t, f)
         \/ \E f, r, s, recs : Turn(t, f, r, s, recs)
  BY StepCases
<1>4. ASSUME NEW f, Walking(f), NEW recs \in Seq(OperationRecord),
             Len(recs) = Len(records), NEW p \in 0..Len(f.log),
             WalkOn(t, f, recs, p),
             \A i \in 1..Len(records) : recs[i].data = records[i].data
      PROVE  /\ Len(records') = Len(records)
             /\ \A i \in 1..Len(records) : records'[i].data = records[i].data
  <2>1. PICK k : WalkStep(t, f, recs, p, k)
    BY <1>4, WalkOnStep
  <2> QED
    BY <1>4, <2>1, WalkStepRecords
<1>5. /\ Len(records) <= Len(records') /\ Len(records') \in Nat
      /\ \A i \in 1..Len(records) : records'[i].data = records[i].data
  <2>1. CASE OtherStep(t)
    BY <2>1, OtherStepRecords
  <2>2. ASSUME NEW f, FirstTurn(t, f)
        PROVE  /\ Len(records') = Len(records)
               /\ \A i \in 1..Len(records) : records'[i].data = records[i].data
    <3>1. Walking(f) /\ Len(f.log) \in Nat
      BY <2>2, FirstTurnWalking
    <3>2. /\ WalkOn(t, f, records, Len(f.log))
          /\ Len(f.log) \in 0..Len(f.log)
          /\ records \in Seq(OperationRecord)
      BY <2>2, <3>1 DEF FirstTurn, TypeOK
    <3> QED
      BY <1>4, <3>1, <3>2
  <2>3. ASSUME NEW f, NEW r, NEW s, NEW recs, Turn(t, f, r, s, recs)
        PROVE  /\ Len(records') = Len(records)
               /\ \A i \in 1..Len(records) : records'[i].data = records[i].data
    <3>1. Walking(f) /\ Below(frame[t]) \in 0..Len(f.log)
      <4>1. Calling(t)
        BY <2>3 DEF Turn
      <4> QED
        BY <2>3, <4>1, TurnWalking, TurnPosition
    <3>2. /\ recs \in Seq(OperationRecord)
          /\ Len(recs) = Len(records)
          /\ WalkOn(t, f, recs, Below(frame[t]))
      BY <2>3 DEF Turn
    <3>3. recs[Called(t)].data = records[Called(t)].data
      BY <2>3, TurnRecord
    <3>4. \A i \in 1..Len(records) : recs[i].data = records[i].data
      BY <2>3, <3>3 DEF Turn
    <3> QED
      BY <1>4, <3>1, <3>2, <3>4
  <2> QED
    BY <1>2, <1>3, <2>1, <2>2, <2>3
<1>6. \A i \in 1..Len(records) : records[i].data = TRUE
  BY <1>2, <1>5 DEF Good
<1> QED
  BY <1>1, <1>6 DEF Good, Alone

\* The steps a transaction takes as long as all is good.
LEMMA GoodSteps ==
    ASSUME TypeOK, Sequential, Next, Good'
    PROVE  \E t \in Task :
              \/ CreateSavepoint(t) \/ ReleaseSavepoint(t) \/ SetContext(t)
              \/ /\ Quiet(t)
                 /\ \/ Free(t) /\ AddOperation(t)
                    \/ Free(t) /\ Commit(t)
                    \/ InvalidationReturns(t)
                    \/ \E f : FirstTurn(t, f)
                    \/ CompensationReturns(t)
<1>1. PICK t \in Task :
         \/ Begin(t)
         \/ SetContext(t) /\ Seen({})
         \/ Resume(t)
         \/ Cancelled(t) /\ Seen({"cancellation"})
  BY DEF Next
<1>2. faults = {} /\ faults' = {} /\ Alone
  BY GoodBefore DEF Good, Alone
<1>3. CASE Begin(t)
  <2>1. \A u \in Task : Free(u)
    BY <1>2, <1>3 DEF Begin, Seen
  <2>2. Noted /\ Quiet(t) /\ Free(t)
    BY <2>1 DEF Noted, Quiet
  <2> QED
    BY <1>3, <2>2, FirstTurnBegins DEF Begin, Call
<1>4. CASE Resume(t)
  <2>1. CompensationReturns(t) \/ InvalidationReturns(t)
    BY <1>2, <1>4 DEF Resume, Seen
  <2>2. ~Free(t)
    BY <2>1 DEF CompensationReturns, InvalidationReturns, Calling, Free
  <2>3. Quiet(t)
    BY <1>2, <2>2 DEF Sequential, Quiet
  <2> QED
    BY <2>1, <2>3
<1> QED
  BY <1>1, <1>2, <1>3, <1>4 DEF Seen

\* A step after which no walk is suspended and the log is all in force.
LEMMA SteadyWhole ==
    ASSUME faults' = {}, state' # "failed",
           \A i \in 1..Len(records') :
              /\ records'[i].data = TRUE
              /\ records'[i].status \in {"pending", "success"},
           \A u \in Task : frame'[u].failed = FALSE /\ ~Calling(u)',
           Len(operations') \in Nat,
           \A n \in 1..Len(operations') : records'[operations'[n]].status = "pending"
    PROVE  Steady'
BY DEF Steady, Reach

LEMMA SteadyTurnNext ==
    ASSUME Undisturbed, Steady, faults' = {}, NEW t \in Task,
           NEW f, NEW recs, NEW p, SteadyTurn(t, f, recs, p)
    PROVE  Steady'
<1>1. /\ WalkStep(t, f, recs, p, p)
      /\ Len(records') = Len(records)
      /\ \A i \in 1..Len(records) : records'[i] = recs[i]
  BY SteadyTurnStep DEF Undisturbed
<1>2. /\ TypeOK /\ Walking(f) /\ Fits(f) /\ p \in 0..Len(f.log)
      /\ f.failed = FALSE
      /\ \A i \in 1..Len(records) :
            recs[i].data = TRUE /\ recs[i].status \in {"pending", "success"}
      /\ \A n \in 1..Len(operations) :
            recs[operations[n]].status = "pending" <=> n <= Base(f) + p
      /\ \A u \in Task : u # t => Free(u)
  BY DEF SteadyTurn, WalkTurn, Undisturbed
<1>3. /\ Base(f) \in Nat
      /\ Len(f.log) \in Nat /\ Len(operations) \in Nat
      /\ Base(f) + Len(f.log) = Len(operations)
  BY <1>2, FitsFacts
<1>4. \A n \in 1..Len(operations) : operations[n] \in 1..Len(records)
  <2>1. operations \in Seq(1..Len(records))
    BY <1>2 DEF TypeOK
  <2>2. QED
    BY <2>1, ElementOfSeq
<1>5. \A i \in 1..Len(records') :
         records'[i].data = TRUE /\ records'[i].status \in {"pending", "success"}
  BY <1>1, <1>2
<1>6. \A n \in 1..Len(operations) :
         records'[operations[n]].status = "pending" <=> n <= Base(f) + p
  BY <1>1, <1>2, <1>4
<1>7. CASE p > 0
  <2> DEFINE g == [f EXCEPT !.pos = p]
  <2>1. /\ g.pc = f.pc /\ g.savepoint = f.savepoint
        /\ g.failed = f.failed /\ g.pos = p
    BY <1>2 DEF Walking, Frame
  <2> HIDE DEF g
  <2>2. /\ frame' = [frame EXCEPT ![t] = g]
        /\ UNCHANGED <<state, operations>>
    BY <1>1, <1>7 DEF WalkStep, g
  <2>3. frame'[t] = g
    BY <1>2, <2>2 DEF TypeOK
  <2>4. Reach(t)' = Base(f) + p
    BY <1>2, <2>1, <2>3 DEF Reach, Base, Calling, Walking
  <2>5. \A u \in Task : Sole(u)' => u = t
    BY <1>2, <2>1, <2>3 DEF Sole, Calling, Walking
  <2>6. \A u \in Task : frame'[u].failed = FALSE
    <3>1. \A u \in Task : u # t => frame'[u] = frame[u]
      BY <1>2, <2>2 DEF TypeOK
    <3>2. QED
      BY <1>2, <2>1, <2>3, <3>1 DEF Steady
  <2>7. state' # "failed"
    BY <2>2 DEF Steady
  <2>8. \A u \in Task : Sole(u)' => \A n \in 1..Len(operations') :
           records'[operations'[n]].status = "pending" <=> n <= Reach(u)'
    <3> SUFFICES ASSUME NEW u \in Task, Sole(u)',
                        NEW n \in 1..Len(operations')
                 PROVE  records'[operations'[n]].status = "pending" <=> n <= Reach(u)'
      OBVIOUS
    <3>1. Reach(u)' = Base(f) + p
      BY <2>4, <2>5, Zenon
    <3>2. QED
      BY <1>6, <2>2, <3>1
  <2>9. QED
    BY <1>5, <2>6, <2>7, <2>8 DEF Steady
<1>8. CASE p = 0
  <2>1. frame'[t] = Idle
    BY <1>1, <1>2, <1>8, WalkStepFrames
  <2>2. \A u \in Task : frame'[u].failed = FALSE /\ ~Calling(u)'
    <3>1. Idle.failed = FALSE /\ Idle.pc = "idle"
      BY IdleType DEF Idle
    <3>2. ASSUME NEW u \in Task, u # t
          PROVE  frame'[u].failed = FALSE /\ ~Calling(u)'
      <4>1. frame[u] \in Frame /\ frame[u].failed = FALSE /\ frame[u].pc = "idle"
        BY <1>2, <3>2 DEF Steady, TypeOK, Free
      <4>2. \/ frame'[u] = frame[u]
            \/ \E w \in {"own", "copy", "ended"} :
                  frame'[u] = [frame[u] EXCEPT !.walked = w]
        BY <1>1, <1>8, <3>2 DEF WalkStep, FinishRollback, FinishSavepoint
      <4>3. frame'[u].failed = FALSE /\ frame'[u].pc = "idle"
        <5>1. \A w \in {"own", "copy", "ended"} :
                 /\ [frame[u] EXCEPT !.walked = w].failed = frame[u].failed
                 /\ [frame[u] EXCEPT !.walked = w].pc = frame[u].pc
          BY <4>1 DEF Frame
        <5>2. QED
          BY <4>1, <4>2, <5>1, Zenon
      <4>4. QED
        BY <4>3 DEF Calling
    <3>3. QED
      BY <2>1, <3>1, <3>2 DEF Calling
  <2>3. CASE f.pc = "rollback" /\ FinishRollback(t, f)
    <3>1. operations' = <<>> /\ state' = "rolled_back"
      BY <1>2, <2>3 DEF FinishRollback
    <3>2. Len(operations') = 0 /\ \A n \in 1..Len(operations') : FALSE
      BY <3>1
    <3>3. QED
      BY <1>5, <2>2, <3>1, <3>2, SteadyWhole
  <2>4. CASE f.pc = "savepoint" /\ FinishSavepoint(t, f)
    <3>1. operations' = Take(operations, Base(f)) /\ state' = state
      BY <1>2, <2>4 DEF FinishSavepoint, OperationsBefore, Base
    <3>2. /\ Len(operations') = IF Base(f) < Len(operations) THEN Base(f)
                                ELSE Len(operations)
          /\ \A n \in 1..Len(operations') : operations'[n] = operations[n]
      <4>1. operations \in Seq(1..Len(records)) /\ Base(f) \in Nat
        BY <1>2, <1>3 DEF TypeOK
      <4>2. /\ Len(Take(operations, Base(f))) = IF Base(f) < Len(operations) THEN Base(f)
                                                ELSE Len(operations)
            /\ \A n \in 1..Len(Take(operations, Base(f))) :
                  Take(operations, Base(f))[n] = operations[n]
        BY <4>1, TakeFacts
      <4>3. QED
        BY <3>1, <4>2
    <3>3. Len(operations') \in Nat /\ Len(operations') <= Base(f)
          /\ Len(operations') <= Len(operations)
      BY <1>3, <3>2
    <3>4. \A n \in 1..Len(operations') :
             n \in 1..Len(operations) /\ n <= Base(f) + p
      BY <1>3, <1>8, <3>3
    <3>5. \A n \in 1..Len(operations') :
             records'[operations'[n]].status = "pending"
      BY <1>6, <3>2, <3>4
    <3>6. state' # "failed"
      BY <3>1 DEF Steady
    <3>7. QED
      BY <1>5, <2>2, <3>3, <3>5, <3>6, SteadyWhole
  <2>5. QED
    BY <1>1, <1>8, <2>3, <2>4 DEF WalkStep
<1>9. QED
  BY <1>2, <1>3, <1>7, <1>8

LEMMA SteadyNext ==
    Undisturbed /\ LogInOrder /\ (Good => Steady) /\ [Next]_vars
        => (Good' => Steady')
<1> SUFFICES ASSUME Undisturbed, LogInOrder, Good => Steady, [Next]_vars, Good'
             PROVE  Steady'
  OBVIOUS
<1>0. TypeOK
  BY DEF Undisturbed
<1>1. CASE UNCHANGED vars
  BY <1>1 DEF vars, Good, Steady, Reach, Calling, Base, Sole
<1>2. CASE Next
  <2>0. Steady
    BY <1>0, <1>2, GoodBefore
  <2>1. PICK t \in Task :
           \/ CreateSavepoint(t) \/ ReleaseSavepoint(t) \/ SetContext(t)
           \/ /\ Quiet(t)
              /\ \/ Free(t) /\ AddOperation(t)
                 \/ Free(t) /\ Commit(t)
                 \/ InvalidationReturns(t)
                 \/ \E f : FirstTurn(t, f)
                 \/ CompensationReturns(t)
    BY <1>0, <1>2, GoodSteps DEF Undisturbed
  <2>2. faults' = {} /\ Alone'
    BY <1>0, <1>2, GoodBefore DEF Good
  <2>3. CASE Quiet(t) /\ Free(t) /\ AddOperation(t)
    <3>1. PICK kind \in Kind, model \in Model, data \in HasData :
             records' = Append(records,
                [kind |-> kind, model |-> model, data |-> data,
                 status |-> "pending", effects |-> 0])
      BY <2>3 DEF AddOperation
    <3> DEFINE n == Len(records)
               m == Len(operations)
               r == [kind |-> kind, model |-> model, data |-> data,
                     status |-> "pending", effects |-> 0]
    <3>2. n \in Nat /\ m \in Nat /\ r.status = "pending"
      BY <1>0, LenProperties DEF TypeOK
    <3> HIDE DEF r
    <3>3. /\ Len(records') = n + 1
          /\ records'[n + 1] = r
          /\ \A i \in 1..n : records'[i] = records[i]
      BY <1>0, <3>1, <3>2 DEF TypeOK, r
    <3>4. operations' = Append(operations, n + 1)
      BY <2>3 DEF AddOperation, NewOperation
    <3>5. /\ Len(operations') = m + 1
          /\ operations'[m + 1] = n + 1
          /\ \A j \in 1..m : operations'[j] = operations[j]
      BY <1>0, <3>2, <3>4 DEF TypeOK
    <3>6. \A j \in 1..m : operations[j] \in 1..n
      <4>1. operations \in Seq(1..Len(records))
        BY <1>0 DEF TypeOK
      <4>2. QED
        BY <4>1, ElementOfSeq
    <3>7. \A j \in 1..m : records[operations[j]].status = "pending"
      <4>1. Reach(t) = m /\ Sole(t)
        BY <2>3 DEF Reach, Calling, Free, Quiet, Sole
      <4>2. QED
        BY <2>0, <3>2, <4>1 DEF Steady
    <3> HIDE DEF n, m
    <3>8. \A i \in 1..(n + 1) : i \in 1..n \/ i = n + 1
      BY <3>2
    <3>9. \A j \in 1..(m + 1) : j \in 1..m \/ j = m + 1
      BY <3>2
    <3>10. \A i \in 1..Len(records') :
              records'[i].data = TRUE /\ records'[i].status \in {"pending", "success"}
      <4>1. \A i \in 1..Len(records') : records'[i].data = TRUE
        BY DEF Good
      <4>2. \A i \in 1..Len(records') : records'[i].status \in {"pending", "success"}
        BY <2>0, <3>2, <3>3, <3>8 DEF Steady, n
      <4>3. QED
        BY <4>1, <4>2
    <3>11. \A j \in 1..Len(operations') :
              records'[operations'[j]].status = "pending"
      BY <3>2, <3>3, <3>5, <3>6, <3>7, <3>9
    <3>12. \A u \in Task : frame'[u].failed = FALSE /\ ~Calling(u)'
      BY <2>0, <2>3 DEF AddOperation, Steady, Calling, Free, Quiet
    <3>13. state' # "failed" /\ Len(operations') \in Nat
      BY <2>3, <3>2, <3>5 DEF AddOperation
    <3>14. QED
      BY <2>2, <3>10, <3>11, <3>12, <3>13, SteadyWhole
  <2>4. CASE CreateSavepoint(t) \/ ReleaseSavepoint(t) \/ SetContext(t)
    BY <2>0, <2>2, <2>4 DEF CreateSavepoint, ReleaseSavepoint, SetContext, Steady,
       Reach, Calling, Base, Sole
  <2>5. CASE Quiet(t) /\ ((Free(t) /\ Commit(t)) \/ InvalidationReturns(t))
    <3>1. ~Calling(t)
      BY <2>5 DEF Free, Calling, InvalidationReturns
    <3>2. UNCHANGED <<records, operations>> /\ state' # "failed"
      BY <2>0, <2>5 DEF Commit, InvalidationReturns, Invalidate, Steady
    <3>3. Reach(t) = Len(operations) /\ Sole(t)
      BY <2>5, <3>1 DEF Reach, Sole, Quiet, Free, Calling
    <3>4. Len(operations) \in Nat
      BY <1>0, LenProperties DEF TypeOK
    <3>5. \A n \in 1..Len(operations) : records[operations[n]].status = "pending"
      BY <2>0, <3>3, <3>4 DEF Steady
    <3>6. frame'[t].failed = FALSE /\ frame'[t].pc \in {"idle", "commit"}
      <4>1. CASE Commit(t)
        <5> DEFINE g == [Idle EXCEPT !.pc = "commit", !.targets = dirty]
        <5>1. g.pc = "commit" /\ g.failed = FALSE
          BY IdleType DEF Frame, Idle
        <5> HIDE DEF g
        <5>2. UNCHANGED frame \/ frame' = [frame EXCEPT ![t] = g]
          BY <4>1 DEF Commit, g
        <5>3. frame[t].pc = "idle" /\ frame[t].failed = FALSE
          BY <2>0, <4>1 DEF Commit, Free, Steady
        <5>4. QED
          BY <1>0, <5>1, <5>2, <5>3 DEF TypeOK
      <4>2. CASE InvalidationReturns(t)
        <5>1. PICK m : Invalidate(t, m)
          BY <4>2 DEF InvalidationReturns
        <5>2. frame[t].pc = "commit" /\ frame[t].failed = FALSE /\ frame[t] \in Frame
          BY <1>0, <2>0, <4>2 DEF InvalidationReturns, Steady, TypeOK
        <5> DEFINE g == [frame[t] EXCEPT !.targets = Left(@, m)]
        <5>3. g.pc = "commit" /\ g.failed = FALSE
          BY <5>2 DEF Frame
        <5>4. \/ frame' = [frame EXCEPT ![t] = g]
              \/ frame' = [frame EXCEPT ![t] = Idle]
          BY <5>1 DEF Invalidate
        <5> HIDE DEF g
        <5>5. Idle.pc = "idle" /\ Idle.failed = FALSE
          BY IdleType DEF Idle
        <5>6. QED
          BY <1>0, <5>3, <5>4, <5>5 DEF TypeOK
      <4>3. QED
        BY <2>5, <4>1, <4>2
    <3>7. \A u \in Task : frame'[u].failed = FALSE /\ ~Calling(u)'
      <4>1. \A u \in Task : u # t => frame'[u] = frame[u]
        BY <1>0, <2>5 DEF Commit, InvalidationReturns, Invalidate, TypeOK
      <4>2. QED
        BY <2>0, <2>5, <3>6, <4>1 DEF Calling, Quiet, Free, Steady
    <3>8. \A i \in 1..Len(records') :
             records'[i].data = TRUE /\ records'[i].status \in {"pending", "success"}
      BY <2>0, <3>2 DEF Steady
    <3>9. QED
      BY <2>2, <3>2, <3>4, <3>5, <3>7, <3>8, SteadyWhole
  <2>6. CASE \E f : FirstTurn(t, f)
    BY <2>0, <2>2, <2>6, FirstTurnSteady, SteadyTurnNext
  <2>7. CASE CompensationReturns(t)
    <3>1. PICK recs : SteadyTurn(t, frame[t], recs, frame[t].pos - 1)
      BY <2>0, <2>7, ReturnSteady
    <3>2. QED
      BY <2>0, <2>2, <3>1, SteadyTurnNext
  <2>8. QED
    BY <2>1, <2>3, <2>4, <2>5, <2>6, <2>7
<1>3. QED
  BY <1>1, <1>2

\* What a turn of a steady walk means to the user of the transaction: the first
\* turn undoes nothing, and ends the transaction if there is nothing to undo.
LEMMA FirstTurnMaps ==
    ASSUME Undisturbed, Steady, TypeOK', Alone', NEW t \in Task, NEW f,
           FirstTurn(t, f)
    PROVE  /\ Len(records') = Len(records)
           /\ InForce' = InForce
           /\ \/ UNCHANGED <<state, operations>>
              \/ /\ state = "active"
                 /\ operations = <<>> /\ operations' = <<>>
                 /\ state' = "rolled_back"
<1>1. SteadyTurn(t, f, records, Len(f.log))
  BY FirstTurnSteady
<1>2. TypeOK /\ Walking(f) /\ Fits(f) /\ f.failed = FALSE
  BY <1>1 DEF SteadyTurn, WalkTurn, Undisturbed
<1>3. /\ WalkStep(t, f, records, Len(f.log), Len(f.log))
      /\ Len(records') = Len(records)
      /\ \A i \in 1..Len(records) : records'[i] = records[i]
  BY <1>1, <1>2, SteadyTurnStep
<1>4. InForce' = InForce
  <2>1. DOMAIN records = 1..Len(records) /\ DOMAIN records' = 1..Len(records')
    BY <1>2, LenProperties DEF TypeOK
  <2>2. QED
    BY <1>3, <2>1 DEF InForce
<1>5. /\ Base(f) \in Nat /\ Len(f.log) \in Nat /\ Len(operations) \in Nat
      /\ Base(f) + Len(f.log) = Len(operations)
  BY <1>2, FitsFacts
<1>6. CASE Len(f.log) > 0
  BY <1>3, <1>4, <1>6 DEF WalkStep
<1>7. CASE Len(f.log) = 0
  <2>1. f.pc = "rollback"
    BY <1>2, <1>5, <1>7 DEF Walking, Fits, SavepointFits, Base
  <2>2. Len(operations) = 0 /\ operations \in Seq(1..Len(records))
    BY <1>2, <1>5, <1>7, <2>1 DEF Base, TypeOK
  <2>3. operations = <<>>
    BY <2>2, EmptySeq
  <2>4. FinishRollback(t, f)
    BY <1>3, <1>7, <2>1 DEF WalkStep
  <2>5. operations' = <<>> /\ state' = "rolled_back"
    BY <1>2, <2>4 DEF FinishRollback
  <2>6. state = "active"
    BY <1>2 DEF Fits, Steady, TypeOK, TransactionState
  <2>7. QED
    BY <1>3, <1>4, <2>3, <2>5, <2>6
<1>8. QED
  BY <1>5, <1>6, <1>7

\* A compensation that returns undoes the newest operation in force; with the
\* last one the log is emptied, or cut to what lies before the savepoint.
LEMMA ReturnMaps ==
    ASSUME Undisturbed, Remembered, Steady, LogInOrder, TypeOK',
           NEW t \in Task, CompensationReturns(t)
    PROVE  /\ state = "active"
           /\ Len(records') = Len(records)
           /\ \E i \in InForce :
                 (\A j \in InForce : j <= i) /\ InForce' = InForce \ {i}
           /\ \/ UNCHANGED <<state, operations>>
              \/ \E n \in 0..Len(operations) :
                    /\ operations' = SubSeq(operations, 1, n)
                    /\ InForce' = {operations[k] : k \in 1..n}
                    /\ UNCHANGED state
              \/ InForce' = {} /\ operations' = <<>> /\ state' = "rolled_back"
<1> DEFINE f == frame[t]
           c == Called(t)
           p == f.pos - 1
<1>1. PICK recs :
         /\ SteadyTurn(t, f, recs, p)
         /\ \A i \in 1..Len(records) : i # c => recs[i] = records[i]
         /\ recs[c].effects # 0
         /\ Calling(t) /\ c \in 1..Len(records)
  BY ReturnSteady
<1>2. /\ TypeOK /\ Walking(f) /\ Fits(f) /\ f.failed = FALSE
      /\ p \in 0..Len(f.log)
      /\ f.pos \in 1..Len(f.log)
  BY <1>1, CallingFacts DEF SteadyTurn, WalkTurn, Undisturbed
<1>3. /\ WalkStep(t, f, recs, p, p)
      /\ Len(records') = Len(records)
      /\ \A i \in 1..Len(records) : records'[i] = recs[i]
  BY <1>1, <1>2, SteadyTurnStep
<1>4. /\ DOMAIN records = 1..Len(records)
      /\ DOMAIN records' = 1..Len(records')
      /\ DOMAIN operations = 1..Len(operations)
      /\ \A n \in 1..Len(operations) : operations[n] \in 1..Len(records)
  <2>1. operations \in Seq(1..Len(records))
    BY <1>2 DEF TypeOK
  <2>2. QED
    BY <1>2, <2>1, LenProperties, ElementOfSeq DEF TypeOK
<1>5. /\ Base(f) \in Nat /\ Len(f.log) \in Nat /\ Len(operations) \in Nat
      /\ Base(f) + Len(f.log) = Len(operations)
  BY <1>2, FitsFacts
<1> DEFINE m == Base(f) + f.pos
<1>6. m = Reach(t) /\ m \in 1..Len(operations) /\ c = operations[m]
  <2>1. m = Reach(t)
    BY <1>1 DEF Reach
  <2>2. c = operations[Reach(t)]
    BY <1>1, ReachFacts
  <2>3. m \in 1..Len(operations)
    BY <1>2, <1>5
  <2>4. QED
    BY <2>1, <2>2, <2>3
<1>7. InForce = {operations[n] : n \in 1..m}
  <2>1. Sole(t)
    BY <1>1 DEF SteadyTurn, WalkTurn, Sole, Calling, Free
  <2>2. QED
    BY <1>6, <2>1, InForceIs
<1> HIDE DEF c
<1>8. InForce' = InForce \ {c}
  BY <1>1, <1>3, <1>4 DEF InForce
<1>9. m = Base(f) + p + 1
  BY <1>2, <1>5
<1> HIDE DEF m
<1>10. c \in InForce /\ \A j \in InForce : j <= c
  <2>1. m \in 1..m /\ \A n \in 1..m : n \in 1..Len(operations) /\ (n < m \/ n = m)
    BY <1>5, <1>6
  <2>2. c \in InForce
    BY <1>6, <1>7, <2>1
  <2>3. ASSUME NEW n \in 1..m PROVE operations[n] <= c
    <3>1. operations[n] < operations[m] \/ operations[n] = operations[m]
      BY <1>4, <1>6, <2>1 DEF LogInOrder
    <3>2. operations[n] \in Nat /\ operations[m] \in Nat
      BY <1>4, <1>6, <2>1
    <3>3. QED
      BY <1>6, <3>1, <3>2
  <2>4. QED
    BY <1>7, <2>2, <2>3
<1>11. InForce' = {operations[n] : n \in 1..(m - 1)}
  <2>1. \A n \in 1..m : n \in 1..(m - 1) \/ n = m
    BY <1>6
  <2>2. \A n \in 1..(m - 1) : n \in 1..m /\ n \in 1..Len(operations) /\ n < m
    BY <1>5, <1>6
  <2>3. \A n \in 1..(m - 1) : operations[n] # c
    <3> TAKE n \in 1..(m - 1)
    <3>1. operations[n] < operations[m]
      BY <1>4, <1>6, <2>2 DEF LogInOrder
    <3>2. operations[n] \in Nat /\ operations[m] \in Nat
      BY <1>4, <1>6, <2>2
    <3>3. QED
      BY <1>6, <3>1, <3>2
  <2>4. QED
    BY <1>6, <1>7, <1>8, <2>1, <2>2, <2>3
<1>12. state = "active"
  BY <1>2 DEF Fits, Steady, TypeOK, TransactionState
<1>13. \/ UNCHANGED <<state, operations>>
       \/ \E n \in 0..Len(operations) :
             /\ operations' = SubSeq(operations, 1, n)
             /\ InForce' = {operations[k] : k \in 1..n}
             /\ UNCHANGED state
       \/ InForce' = {} /\ operations' = <<>> /\ state' = "rolled_back"
  <2>1. CASE p > 0
    BY <1>3, <2>1 DEF WalkStep
  <2>2. CASE p = 0 /\ f.pc = "rollback" /\ FinishRollback(t, f)
    <3>1. operations' = <<>> /\ state' = "rolled_back"
      BY <1>2, <2>2 DEF FinishRollback
    <3>2. m - 1 = 0
      BY <1>9, <2>2 DEF Base
    <3>3. InForce' = {}
      BY <1>11, <3>2
    <3>4. QED
      BY <3>1, <3>3
  <2>3. CASE p = 0 /\ f.pc = "savepoint" /\ FinishSavepoint(t, f)
    <3> DEFINE n == Base(f)
    <3>1. operations' = Take(operations, n) /\ state' = state
      BY <1>2, <2>3 DEF FinishSavepoint, OperationsBefore, Base
    <3> HIDE DEF n
    <3>2. n \in Nat /\ n < Len(operations) /\ m - 1 = n
      BY <1>5, <1>6, <1>9, <2>3 DEF n
    <3>3. operations' = SubSeq(operations, 1, n)
      BY <3>1, <3>2 DEF Take
    <3>4. n \in 0..Len(operations) /\ InForce' = {operations[k] : k \in 1..n}
      BY <1>5, <1>11, <3>2
    <3>5. QED
      BY <3>1, <3>3, <3>4
  <2>4. QED
    BY <1>2, <1>3, <2>1, <2>2, <2>3 DEF WalkStep
<1>14. QED
  BY <1>3, <1>8, <1>10, <1>12, <1>13

\* Outside a walk the whole log is in force.
LEMMA WholeLogInForce ==
    ASSUME Undisturbed, Remembered, Steady, NEW u \in Task, ~Calling(u), Quiet(u)
    PROVE  InForce = {operations[n] : n \in DOMAIN operations}
<1>1. DOMAIN operations = 1..Len(operations)
  BY LenProperties DEF Undisturbed, TypeOK
<1>2. Reach(u) = Len(operations) /\ Sole(u)
  BY DEF Reach, Sole, Quiet, Calling, Free
<1>3. QED
  BY <1>1, <1>2, InForceIs

LEMMA AtomicBegin == Init => Atomic!Begin
BY DEF Init, Atomic!Begin

\* What the user of the transaction sees stays as it is.
SeenSame == UNCHANGED <<state, Len(records), operations, InForce>>

\* As long as all is good, every step is a step of the atomic transaction, or
\* none.
LEMMA AtomicStep ==
    ASSUME Undisturbed, Remembered, Good => Steady, LogInOrder, [Next]_vars, Good'
    PROVE  Good /\ (Atomic!Progress \/ SeenSame)
<1>0. TypeOK /\ TypeOK'
  BY TypeNext DEF Undisturbed
<1>1. /\ DOMAIN records = 1..Len(records)
      /\ DOMAIN records' = 1..Len(records')
      /\ Len(records) \in Nat
  BY <1>0, LenProperties DEF TypeOK
<1>2. ASSUME UNCHANGED <<state, operations>>,
             Len(records') = Len(records), InForce' = InForce
      PROVE  SeenSame
  BY <1>2 DEF SeenSame
<1>3. ASSUME UNCHANGED <<state, operations, records>>
      PROVE  SeenSame
  BY <1>3 DEF SeenSame, InForce
<1>4. ASSUME state = "active", state' = "committed",
             UNCHANGED <<records, operations>>,
             InForce = {operations[n] : n \in DOMAIN operations}
      PROVE  Atomic!Progress
  BY <1>4 DEF Atomic!Progress, Atomic!End, Atomic!Logged, InForce
<1>5. CASE UNCHANGED vars
  BY <1>3, <1>5 DEF vars, Good
<1>6. CASE Next
  <2>0. Good /\ Steady
    BY <1>0, <1>6, GoodBefore
  <2>1. PICK t \in Task :
           \/ CreateSavepoint(t) \/ ReleaseSavepoint(t) \/ SetContext(t)
           \/ /\ Quiet(t)
              /\ \/ Free(t) /\ AddOperation(t)
                 \/ Free(t) /\ Commit(t)
                 \/ InvalidationReturns(t)
                 \/ \E f : FirstTurn(t, f)
                 \/ CompensationReturns(t)
    BY <1>0, <1>6, GoodSteps DEF Undisturbed
  <2>2. Alone' /\ Alone
    BY <1>0, <1>6, <2>0, GoodBefore DEF Steady, Alone
  <2>3. CASE Quiet(t) /\ Free(t) /\ AddOperation(t)
    <3>1. PICK kind \in Kind, model \in Model, data \in HasData :
             records' = Append(records,
                [kind |-> kind, model |-> model, data |-> data,
                 status |-> "pending", effects |-> 0])
      BY <2>3 DEF AddOperation
    <3> DEFINE n == Len(records)
               r == [kind |-> kind, model |-> model, data |-> data,
                     status |-> "pending", effects |-> 0]
    <3>2. r.effects = 0
      OBVIOUS
    <3> HIDE DEF r
    <3>3. /\ Len(records') = n + 1
          /\ records'[n + 1] = r
          /\ \A i \in 1..n : records'[i] = records[i]
      BY <1>0, <1>1, <3>1 DEF TypeOK, r
    <3>4. operations' = Append(operations, n + 1)
      BY <2>3 DEF AddOperation, NewOperation
    <3>5. InForce' = InForce \cup {n + 1}
      <4>1. \A i : i \in 1..(n + 1) <=> i \in 1..n \/ i = n + 1
        BY <1>1
      <4> HIDE DEF n
      <4>2. DOMAIN records' = 1..(n + 1) /\ DOMAIN records = 1..n
        BY <1>1, <3>3 DEF n
      <4>3. QED
        BY <3>2, <3>3, <4>1, <4>2 DEF InForce
    <3>6. InForce = {operations[m] : m \in DOMAIN operations}
      <4>1. ~Calling(t)
        BY <2>3 DEF Calling, Free
      <4>2. QED
        BY <2>0, <2>3, <4>1, WholeLogInForce
    <3>7. state = "active" /\ UNCHANGED state
      BY <2>3 DEF AddOperation
    <3>8. Atomic!CarryOut
      BY <3>3, <3>4, <3>5, <3>6, <3>7 DEF Atomic!CarryOut, Atomic!Logged, InForce
    <3>9. QED
      BY <2>0, <3>8 DEF Atomic!Progress
  <2>4. CASE CreateSavepoint(t) \/ ReleaseSavepoint(t) \/ SetContext(t)
    BY <1>3, <2>0, <2>4 DEF CreateSavepoint, ReleaseSavepoint, SetContext
  <2>5. CASE Quiet(t) /\ Free(t) /\ Commit(t)
    <3>1. InForce = {operations[n] : n \in DOMAIN operations}
      BY <2>0, <2>5, WholeLogInForce DEF Calling, Free
    <3>2. /\ state = "active" /\ UNCHANGED <<records, operations>>
          /\ state' = "committed" \/ UNCHANGED state
      BY <2>5 DEF Commit
    <3>3. QED
      BY <1>3, <1>4, <2>0, <3>1, <3>2
  <2>6. CASE Quiet(t) /\ InvalidationReturns(t)
    <3>1. frame[t].pc = "commit"
      BY <2>6 DEF InvalidationReturns
    <3>2. InForce = {operations[n] : n \in DOMAIN operations}
      BY <2>0, <2>6, <3>1, WholeLogInForce DEF Calling
    <3>3. Fits(frame[t])
      BY <2>2, <3>1 DEF Undisturbed, Sequential, Free
    <3>4. state = "active"
      BY <1>0, <2>0, <3>3 DEF Fits, Steady, TypeOK, TransactionState
    <3>5. /\ UNCHANGED <<records, operations>>
          /\ state' = "committed" \/ UNCHANGED state
      BY <2>6 DEF InvalidationReturns, Invalidate
    <3>6. QED
      BY <1>3, <1>4, <2>0, <3>2, <3>4, <3>5
  <2>7. ASSUME NEW f, FirstTurn(t, f)
        PROVE  Good /\ (Atomic!Progress \/ SeenSame)
    <3>1. /\ Len(records') = Len(records)
          /\ InForce' = InForce
          /\ \/ UNCHANGED <<state, operations>>
             \/ /\ state = "active"
                /\ operations = <<>> /\ operations' = <<>>
                /\ state' = "rolled_back"
      BY <1>0, <2>0, <2>2, <2>7, FirstTurnMaps
    <3>2. CASE UNCHANGED <<state, operations>>
      BY <1>2, <2>0, <3>1, <3>2
    <3>3. CASE /\ state = "active"
               /\ operations = <<>> /\ operations' = <<>>
               /\ state' = "rolled_back"
      BY <2>0, <3>1, <3>3 DEF Atomic!Progress, Atomic!End, InForce
    <3>4. QED
      BY <3>1, <3>2, <3>3
  <2>8. CASE CompensationReturns(t)
    <3>1. /\ state = "active"
          /\ Len(records') = Len(records)
          /\ \E i \in InForce :
                (\A j \in InForce : j <= i) /\ InForce' = InForce \ {i}
          /\ \/ UNCHANGED <<state, operations>>
             \/ \E n \in 0..Len(operations) :
                   /\ operations' = SubSeq(operations, 1, n)
                   /\ InForce' = {operations[k] : k \in 1..n}
                   /\ UNCHANGED state
             \/ InForce' = {} /\ operations' = <<>> /\ state' = "rolled_back"
      BY <1>0, <2>0, <2>8, ReturnMaps
    <3>2. Atomic!Undo
      BY <3>1, Zenon DEF Atomic!Undo, InForce
    <3>3. QED
      BY <2>0, <3>2 DEF Atomic!Progress
  <2>9. QED
    BY <2>1, <2>3, <2>4, <2>5, <2>6, <2>7, <2>8
<1>7. QED
  BY <1>5, <1>6

\* Until a call raises, is cancelled or overlaps another, or an operation is
\* recorded that cannot be undone, the transaction, which undoes one remote call
\* at a time, is the atomic one, whichever tasks make the calls.
THEOREM TransactionImplementsAtomic == Spec => ImplementsAtomic
<1>1. Init => Remembered /\ LogInOrder /\ (Good => Steady)
  BY IdleType DEF Init, Remembered, LogInOrder, Steady, Idle
<1>2. Undisturbed /\ Remembered /\ [Next]_vars => Remembered'
  BY RememberedNext DEF Undisturbed
<1>3. Undisturbed /\ LogInOrder /\ [Next]_vars => LogInOrder'
  BY LogInOrderNext DEF Undisturbed
<1>4. Undisturbed /\ LogInOrder /\ (Good => Steady) /\ [Next]_vars
         => (Good => Steady)'
  BY SteadyNext
<1>5. Undisturbed /\ Remembered /\ LogInOrder /\ (Good => Steady) /\ [Next]_vars
         => [Atomic!Next]_(Atomic!avars)
  <2> SUFFICES ASSUME Undisturbed, Remembered, LogInOrder, Good => Steady,
                      [Next]_vars
               PROVE  Atomic!Next \/ UNCHANGED Atomic!avars
    OBVIOUS
  <2>1. TypeOK /\ TypeOK'
    BY TypeNext DEF Undisturbed
  <2>2. ~Good <=> Excused
    BY <2>1, GoodIs
  <2>3. ~Good' <=> Excused'
    BY <2>1, GoodIs, PTL
  <2>4. CASE ~Good'
    BY <2>3, <2>4 DEF Atomic!Next, Excused
  <2>5. CASE Good'
    BY <2>2, <2>3, <2>5, AtomicStep
    DEF Atomic!Next, Atomic!avars, SeenSame, InForce, Excused
  <2>6. QED
    BY <2>4, <2>5
<1>6. QED
  BY <1>1, <1>2, <1>3, <1>4, <1>5, AtomicBegin, UndisturbedAlways, PTL
  DEF Spec, ImplementsAtomic, Atomic!AtomicSpec

================================================================================
