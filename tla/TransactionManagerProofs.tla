------------------------ MODULE TransactionManagerProofs ------------------------
(****************************************************************************)
(* Proofs about TransactionManager for any tasks and any numbers of         *)
(* transactions and operations.                                             *)
(****************************************************************************)
EXTENDS TransactionManager, SequenceTheorems, FiniteSetTheorems, TLAPS

(****************************************************************************)
(* Stacks.                                                                  *)
(****************************************************************************)

Stacked == stack \in [Task -> Seq(Frame)]

\* A step of task t leaves len frames: those below the top as they were, g
\* in the place of the top, and f above it if there is one more.
Step(t, len, g, f) ==
    /\ Stacked'
    /\ \A u \in Task : u # t => stack'[u] = stack[u]
    /\ len \in {Len(stack[t]) - 1, Len(stack[t]), Len(stack[t]) + 1}
    /\ len \in Nat
    /\ Len(stack'[t]) = len
    /\ \A n \in 1..len :
          stack'[t][n] = IF n < Len(stack[t]) THEN stack[t][n]
                         ELSE IF n = Len(stack[t]) THEN g ELSE f

LEMMA StackFacts ==
    ASSUME Stacked, NEW t \in Task
    PROVE  /\ stack[t] \in Seq(Frame)
           /\ Len(stack[t]) \in Nat
           /\ DOMAIN stack[t] = 1..Len(stack[t])
           /\ \A n \in 1..Len(stack[t]) : stack[t][n] \in Frame
           /\ stack[t] = <<>> <=> Len(stack[t]) = 0
           /\ Top(t) = stack[t][Len(stack[t])]
           /\ stack[t] # <<>> => Top(t) \in Frame
<1>1. /\ stack[t] \in Seq(Frame)
      /\ Len(stack[t]) \in Nat
      /\ DOMAIN stack[t] = 1..Len(stack[t])
      /\ \A n \in 1..Len(stack[t]) : stack[t][n] \in Frame
      /\ stack[t] = <<>> <=> Len(stack[t]) = 0
  BY LenProperties, ElementOfSeq, EmptySeq DEF Stacked
<1>2. Top(t) = stack[t][Len(stack[t])]
  BY DEF Top, Last
<1>3. QED
  BY <1>1, <1>2

LEMMA FrontFacts ==
    ASSUME NEW s \in Seq(Frame), s # <<>>
    PROVE  /\ Front(s) \in Seq(Frame)
           /\ Len(Front(s)) = Len(s) - 1
           /\ \A n \in 1..(Len(s) - 1) : Front(s)[n] = s[n]
<1> DEFINE k == Len(s)
<1>1. k \in Nat \ {0} /\ \A n \in 1..k : s[n] \in Frame
  BY LenProperties, ElementOfSeq, EmptySeq
<1>2. Front(s) = SubSeq(s, 1, k - 1)
  BY DEF Front
<1> HIDE DEF k
<1>3. /\ 1 \in Int /\ k - 1 \in Int
      /\ \A n \in 1..(k - 1) : s[n] \in Frame
  BY <1>1
<1>4. /\ SubSeq(s, 1, k - 1) \in Seq(Frame)
      /\ Len(SubSeq(s, 1, k - 1)) = IF 1 <= k - 1 THEN k - 1 - 1 + 1 ELSE 0
      /\ \A n \in 1..(k - 1 - 1 + 1) : SubSeq(s, 1, k - 1)[n] = s[1 + n - 1]
  BY <1>3, SubSeqProperties
<1>5. \A n \in 1..(k - 1) : n \in 1..(k - 1 - 1 + 1) /\ 1 + n - 1 = n
  BY <1>1
<1>6. (IF 1 <= k - 1 THEN k - 1 - 1 + 1 ELSE 0) = k - 1
  BY <1>1
<1>7. QED
  BY <1>2, <1>4, <1>5, <1>6 DEF k

\* A new stack r of task t that has the shape of a step.
LEMMA StepTo ==
    ASSUME Stacked, NEW t \in Task, NEW r \in Seq(Frame),
           stack' = [stack EXCEPT ![t] = r],
           NEW len \in Nat, Len(r) = len,
           len \in {Len(stack[t]) - 1, Len(stack[t]), Len(stack[t]) + 1},
           NEW g, NEW f,
           \A n \in 1..len :
              r[n] = IF n < Len(stack[t]) THEN stack[t][n]
                     ELSE IF n = Len(stack[t]) THEN g ELSE f
    PROVE  Step(t, len, g, f)
<1>1. stack'[t] = r /\ \A u \in Task : u # t => stack'[u] = stack[u]
  BY DEF Stacked
<1>2. Stacked'
  BY DEF Stacked
<1>3. QED
  BY <1>1, <1>2 DEF Step

\* The five ways a step changes the stack of its task.
LEMMA Unmoved ==
    ASSUME Stacked, NEW t \in Task, stack' = stack
    PROVE  Step(t, Len(stack[t]), Top(t), Top(t))
BY StackFacts DEF Step, Stacked

LEMMA Popped ==
    ASSUME Stacked, NEW t \in Task, stack[t] # <<>>,
           stack' = [stack EXCEPT ![t] = Front(stack[t])]
    PROVE  Step(t, Len(stack[t]) - 1, Top(t), Top(t))
<1>1. stack[t] \in Seq(Frame) /\ Len(stack[t]) \in Nat \ {0}
  BY StackFacts
<1>2. /\ Front(stack[t]) \in Seq(Frame)
      /\ Len(Front(stack[t])) = Len(stack[t]) - 1
      /\ \A n \in 1..(Len(stack[t]) - 1) : Front(stack[t])[n] = stack[t][n]
  BY <1>1, FrontFacts
<1>3. QED
  BY <1>1, <1>2 DEF Step, Stacked

LEMMA Pushed ==
    ASSUME Stacked, NEW t \in Task, NEW f \in Frame,
           stack' = [stack EXCEPT ![t] = Append(stack[t], f)]
    PROVE  Step(t, Len(stack[t]) + 1, Top(t), f)
<1>1. stack[t] \in Seq(Frame) /\ Len(stack[t]) \in Nat
      /\ Top(t) = stack[t][Len(stack[t])]
  BY StackFacts
<1>2. /\ Append(stack[t], f) \in Seq(Frame)
      /\ Len(Append(stack[t], f)) = Len(stack[t]) + 1
      /\ \A n \in 1..Len(stack[t]) : Append(stack[t], f)[n] = stack[t][n]
      /\ Append(stack[t], f)[Len(stack[t]) + 1] = f
  BY <1>1, AppendProperties
<1>3. QED
  BY <1>1, <1>2 DEF Step, Stacked

\* The top of a stack is replaced.
LEMMA ReplacedTop ==
    ASSUME NEW s \in Seq(Frame), s # <<>>, NEW g \in Frame
    PROVE  /\ Append(Front(s), g) \in Seq(Frame)
           /\ Len(Append(Front(s), g)) = Len(s)
           /\ \A n \in 1..(Len(s) - 1) : Append(Front(s), g)[n] = s[n]
           /\ Append(Front(s), g)[Len(s)] = g
<1>1. Len(s) \in Nat \ {0}
  BY EmptySeq
<1>2. /\ Front(s) \in Seq(Frame)
      /\ Len(Front(s)) = Len(s) - 1
      /\ \A n \in 1..(Len(s) - 1) : Front(s)[n] = s[n]
  BY FrontFacts
<1>3. /\ Append(Front(s), g) \in Seq(Frame)
      /\ Len(Append(Front(s), g)) = Len(Front(s)) + 1
      /\ \A n \in 1..Len(Front(s)) : Append(Front(s), g)[n] = Front(s)[n]
      /\ Append(Front(s), g)[Len(Front(s)) + 1] = g
  BY <1>2, AppendProperties
<1>4. (Len(s) - 1) + 1 = Len(s)
  BY <1>1
<1>5. QED
  BY <1>2, <1>3, <1>4

LEMMA Swapped ==
    ASSUME Stacked, NEW t \in Task, stack[t] # <<>>, NEW g \in Frame,
           stack' = [stack EXCEPT ![t] = Append(Front(stack[t]), g)]
    PROVE  Step(t, Len(stack[t]), g, g)
<1> DEFINE k == Len(stack[t])
           r == Append(Front(stack[t]), g)
<1>1. stack[t] \in Seq(Frame) /\ k \in Nat \ {0}
  BY StackFacts
<1>2. /\ r \in Seq(Frame)
      /\ Len(r) = k
      /\ \A n \in 1..(k - 1) : r[n] = stack[t][n]
      /\ r[k] = g
  BY <1>1, ReplacedTop
<1> HIDE DEF r
<1>3. stack' = [stack EXCEPT ![t] = r]
  BY DEF r
<1>4. \A n \in 1..k : r[n] = IF n < k THEN stack[t][n]
                             ELSE IF n = k THEN g ELSE g
  <2> HIDE DEF k
  <2>1. QED
    BY <1>1, <1>2
<1>5. k \in Nat /\ k \in {k - 1, k, k + 1}
  BY <1>1
<1>6. QED
  BY <1>2, <1>3, <1>4, <1>5, StepTo

LEMMA SwappedPushed ==
    ASSUME Stacked, NEW t \in Task, stack[t] # <<>>, NEW g \in Frame,
           NEW f \in Frame,
           stack' = [stack EXCEPT ![t] = Append(Append(Front(stack[t]), g), f)]
    PROVE  Step(t, Len(stack[t]) + 1, g, f)
<1> DEFINE k == Len(stack[t])
           r == Append(Front(stack[t]), g)
           q == Append(r, f)
<1>1. stack[t] \in Seq(Frame) /\ k \in Nat \ {0}
  BY StackFacts
<1>2. /\ r \in Seq(Frame)
      /\ Len(r) = k
      /\ \A n \in 1..(k - 1) : r[n] = stack[t][n]
      /\ r[k] = g
  BY <1>1, ReplacedTop
<1> HIDE DEF r
<1>3. /\ q \in Seq(Frame)
      /\ Len(q) = k + 1
      /\ \A n \in 1..k : q[n] = r[n]
      /\ q[k + 1] = f
  BY <1>2, AppendProperties
<1> HIDE DEF q
<1>4. stack' = [stack EXCEPT ![t] = q]
  BY DEF q, r
<1>5. \A n \in 1..(k + 1) : q[n] = IF n < k THEN stack[t][n]
                                   ELSE IF n = k THEN g ELSE f
  <2> HIDE DEF k
  <2>1. QED
    BY <1>1, <1>2, <1>3
<1>6. k + 1 \in Nat /\ k + 1 \in {k - 1, k, k + 1}
  BY <1>1
<1>7. QED
  BY <1>3, <1>4, <1>5, <1>6, StepTo

(****************************************************************************)
(* Transactions.                                                            *)
(****************************************************************************)

Table ==
    /\ txs \in Seq(Transaction)
    /\ Len(txs) <= MaxTx
    /\ \A i \in 1..Len(txs) : txs[i].parent < i /\ txs[i].previous < i

LEMMA TableFacts ==
    ASSUME Table
    PROVE  /\ Len(txs) \in Nat
           /\ MaxTx \in Nat
           /\ DOMAIN txs = 1..Len(txs)
           /\ 1..Len(txs) \subseteq Tx
           /\ \A i \in 1..Len(txs) : txs[i] \in Transaction
           /\ \A i : Children(i) \subseteq 1..Len(txs)
<1>1. /\ Len(txs) \in Nat
      /\ DOMAIN txs = 1..Len(txs)
      /\ \A i \in 1..Len(txs) : txs[i] \in Transaction
      /\ Len(txs) <= MaxTx
  BY LenProperties, ElementOfSeq DEF Table
<1>2. MaxTx \in Nat
  BY ConstantsAssumption
<1>3. 1..Len(txs) \subseteq Tx
  BY <1>1, <1>2 DEF Tx
<1>4. QED
  BY <1>1, <1>2, <1>3 DEF Children

\* What no step but entering a block changes, and that none becomes active.
TableKept ==
    /\ txs' \in Seq(Transaction)
    /\ Len(txs') = Len(txs)
    /\ \A i \in 1..Len(txs) :
          /\ txs'[i].parent = txs[i].parent
          /\ txs'[i].previous = txs[i].previous
          /\ txs'[i].state = "active" => txs[i].state = "active"

LEMMA TableStays ==
    ASSUME Table, TableKept
    PROVE  /\ Table'
           /\ DOMAIN txs' = DOMAIN txs
           /\ \A i : Children(i)' = Children(i)
           /\ \A i \in 1..Len(txs) : IsActive(i)' => IsActive(i)
<1>1. /\ DOMAIN txs = 1..Len(txs)
      /\ DOMAIN txs' = 1..Len(txs)
  BY LenProperties, TableFacts DEF TableKept
<1>2. \A i : Children(i)' = Children(i)
  BY <1>1 DEF Children, TableKept
<1>3. QED
  BY <1>1, <1>2 DEF Table, TableKept, IsActive

LEMMA SameTable ==
    ASSUME Table, txs' = txs
    PROVE  TableKept
BY DEF Table, TableKept

\* One transaction is replaced.
LEMMA ChangedTx ==
    ASSUME Table, NEW i \in 1..Len(txs), NEW r \in Transaction,
           txs' = [txs EXCEPT ![i] = r],
           r.parent = txs[i].parent, r.previous = txs[i].previous,
           r.state = "active" => txs[i].state = "active"
    PROVE  /\ TableKept
           /\ txs'[i] = r
           /\ \A j \in 1..Len(txs) : j # i => txs'[j] = txs[j]
<1>1. /\ txs' \in Seq(Transaction)
      /\ Len(txs') = Len(txs)
      /\ \A j \in 1..Len(txs) : txs'[j] = IF j = i THEN r ELSE txs[j]
  BY ExceptSeq DEF Table
<1>2. QED
  BY <1>1 DEF TableKept

\* A transaction ends.
LEMMA StateSet ==
    ASSUME Table, NEW i \in 1..Len(txs),
           NEW s \in {"committed", "rolled_back", "failed"},
           txs' = WithState(i, s)
    PROVE  /\ TableKept
           /\ txs'[i].state = s /\ txs'[i].log = txs[i].log
           /\ \A j \in 1..Len(txs) : j # i => txs'[j] = txs[j]
<1> DEFINE r == [txs[i] EXCEPT !.state = s]
<1>1. txs[i] \in Transaction
  BY TableFacts
<1>2. /\ r \in Transaction
      /\ r.state = s /\ r.parent = txs[i].parent
      /\ r.previous = txs[i].previous /\ r.log = txs[i].log
  BY <1>1 DEF Transaction
<1>3. txs' = [txs EXCEPT ![i] = r]
  BY DEF WithState
<1> HIDE DEF r
<1>4. QED
  BY <1>2, <1>3, ChangedTx

LEMMA RolledBackSet ==
    ASSUME Table, NEW i \in 1..Len(txs), txs' = RolledBack(i)
    PROVE  /\ TableKept
           /\ txs'[i].state = "rolled_back"
           /\ \A j \in 1..Len(txs) : j # i => txs'[j] = txs[j]
<1> DEFINE r == [txs[i] EXCEPT !.state = "rolled_back", !.log = {}]
<1>1. txs[i] \in Transaction /\ i \in DOMAIN txs
  BY TableFacts
<1>2. /\ r \in Transaction
      /\ r.state = "rolled_back" /\ r.parent = txs[i].parent
      /\ r.previous = txs[i].previous
  BY <1>1 DEF Transaction
<1>3. txs' = [txs EXCEPT ![i] = r]
  BY <1>1 DEF RolledBack
<1> HIDE DEF r
<1>4. QED
  BY <1>2, <1>3, ChangedTx

\* A commit without anything to await, or with it.
LEMMA MarkedSet ==
    ASSUME Table, NEW i \in 1..Len(txs), txs' = Marked(i)
    PROVE  /\ TableKept
           /\ \A j \in 1..Len(txs) :
                 /\ txs'[j].log = txs[j].log
                 /\ txs'[j] # txs[j] =>
                       /\ txs'[j].state = "committed"
                       /\ j = i \/ (txs[i].parent = 0 /\ txs[j].parent = i
                                     /\ IsActive(j))
           /\ ~CommitAwaits(i) => txs'[i].state = "committed"
<1>1. /\ Len(txs) \in Nat
      /\ DOMAIN txs = 1..Len(txs)
      /\ \A j \in 1..Len(txs) : txs[j] \in Transaction
  BY TableFacts
<1> DEFINE hit(j) == \/ j = i /\ ~CommitAwaits(i)
                     \/ txs[i].parent = 0 /\ txs[j].parent = i /\ IsActive(j)
<1>2. /\ DOMAIN txs' = 1..Len(txs)
      /\ \A j \in 1..Len(txs) :
            txs'[j] = IF hit(j) THEN [txs[j] EXCEPT !.state = "committed"]
                      ELSE txs[j]
      /\ txs' = [j \in 1..Len(txs) |-> txs'[j]]
  BY <1>1 DEF Marked
<1>3. \A j \in 1..Len(txs) :
         LET r == [txs[j] EXCEPT !.state = "committed"]
         IN  /\ r \in Transaction /\ r.state = "committed"
             /\ r.parent = txs[j].parent /\ r.previous = txs[j].previous
             /\ r.log = txs[j].log
  BY <1>1 DEF Transaction
<1>4. \A j \in 1..Len(txs) :
         /\ txs'[j] \in Transaction
         /\ txs'[j].parent = txs[j].parent
         /\ txs'[j].previous = txs[j].previous
         /\ txs'[j].log = txs[j].log
         /\ txs'[j].state = IF hit(j) THEN "committed" ELSE txs[j].state
  BY <1>1, <1>2, <1>3
<1>5. txs' \in [1..Len(txs) -> Transaction]
  BY <1>2, <1>4
<1>6. txs' \in Seq(Transaction) /\ Len(txs') = Len(txs)
  <2>1. txs' \in Seq(Transaction)
    BY <1>1, <1>5, SeqDef
  <2>2. QED
    BY <1>1, <1>2, <2>1, LenProperties
<1>7. TableKept
  BY <1>4, <1>6 DEF TableKept
<1>8. QED
  BY <1>2, <1>4, <1>7

\* The frames a step puts on a stack.
LEMMA NewFrameType ==
    ASSUME NEW kind \in {"with", "rollback", "commit", "all"},
           NEW phase \in {"body", "exit", "raise", "children", "await"},
           NEW i \in 0..MaxTx
    PROVE  /\ NewFrame(kind, phase, i) \in Frame
           /\ NewFrame(kind, phase, i).kind = kind
           /\ NewFrame(kind, phase, i).phase = phase
           /\ NewFrame(kind, phase, i).tx = i
           /\ NewFrame(kind, phase, i).left = {}
BY DEF NewFrame, Frame

LEMMA RollbackFrameType ==
    ASSUME Table, NEW i \in 1..Len(txs)
    PROVE  /\ RollbackFrame(i) \in Frame
           /\ RollbackFrame(i).kind = "rollback"
           /\ RollbackFrame(i).phase = "children"
           /\ RollbackFrame(i).tx = i
           /\ RollbackFrame(i).left = Children(i)
<1>1. /\ Children(i) \subseteq 1..Len(txs)
      /\ Children(i) \subseteq Tx
      /\ i \in 0..MaxTx
  BY TableFacts DEF Tx
<1>2. Cardinality(Children(i)) \in Nat
  <2>1. 1 \in Int /\ Len(txs) \in Int
    BY TableFacts
  <2>2. IsFiniteSet(1..Len(txs))
    BY <2>1, FS_Interval
  <2>3. QED
    BY <1>1, <2>2, FS_Subset, FS_CardinalityType
<1>3. ASSUME NEW h \in Frame, NEW c \in SUBSET Tx, NEW n \in Nat
      PROVE  LET r == [h EXCEPT !.left = c, !.size = n]
             IN  /\ r \in Frame
                 /\ r.kind = h.kind /\ r.phase = h.phase /\ r.tx = h.tx
                 /\ r.left = c
  BY DEF Frame
<1>4. /\ NewFrame("rollback", "children", i) \in Frame
      /\ NewFrame("rollback", "children", i).kind = "rollback"
      /\ NewFrame("rollback", "children", i).phase = "children"
      /\ NewFrame("rollback", "children", i).tx = i
  BY <1>1, NewFrameType
<1> DEFINE h == NewFrame("rollback", "children", i)
           c == Children(i)
           n == Cardinality(c)
<1>5. RollbackFrame(i) = [h EXCEPT !.left = c, !.size = n]
  BY DEF RollbackFrame
<1>6. c \in SUBSET Tx /\ n \in Nat
  BY <1>1, <1>2
<1>7. /\ h \in Frame /\ h.kind = "rollback" /\ h.phase = "children" /\ h.tx = i
  BY <1>4
<1> HIDE DEF h, c, n
<1>8. LET r == [h EXCEPT !.left = c, !.size = n]
      IN  /\ r \in Frame
          /\ r.kind = h.kind /\ r.phase = h.phase /\ r.tx = h.tx
          /\ r.left = c
  BY <1>3, <1>6, <1>7
<1>9. QED
  BY <1>5, <1>7, <1>8 DEF c

(****************************************************************************)
(* The shape of the stacks.                                                 *)
(****************************************************************************)

\* What a frame is while ts are the transactions.
FrameOK(f, ts) ==
    /\ f.kind # "all" => f.tx \in 1..Len(ts)
    /\ f.left \subseteq 1..Len(ts)
    /\ f.kind = "rollback" => \A c \in f.left : ts[c].parent = f.tx
    /\ f.kind = "with" => f.phase \in {"body", "exit", "raise"}
    /\ f.kind = "rollback" => f.phase \in {"children", "await"}
    /\ f.kind = "commit" => f.phase = "await"
    /\ f.kind = "all" => f.phase = "children"

\* Only the topmost call awaits.
Frames ==
    \A t \in Task : \A n \in 1..Len(stack[t]) :
        /\ FrameOK(stack[t][n], txs)
        /\ stack[t][n].phase = "await" => n = Len(stack[t])

\* Blocks come first and a rollback_all() or a commit after them, then the
\* rollbacks, of ever younger transactions.
Order ==
    \A t \in Task : \A n \in 1..Len(stack[t]) : \A m \in 1..(n - 1) :
        /\ stack[t][m].kind # "with" => stack[t][n].kind = "rollback"
        /\ stack[t][m].kind = "rollback" => stack[t][m].tx < stack[t][n].tx

Shape == Stacked /\ Table /\ Frames /\ Order

\* The frames of a step fit the stack they are put on.
Fit(t, len, g, f) ==
    /\ stack[t] # <<>> /\ len >= Len(stack[t]) =>
          /\ FrameOK(g, txs')
          /\ g.kind = Top(t).kind /\ g.tx = Top(t).tx
    /\ len > Len(stack[t]) =>
          /\ FrameOK(f, txs')
          /\ stack[t] # <<>> => g.phase # "await"
          /\ \/ stack[t] = <<>>
             \/ Top(t).kind = "with"
             \/ f.kind = "rollback" /\ Top(t).kind = "all"
             \/ f.kind = "rollback" /\ Top(t).kind = "rollback"
                  /\ Top(t).tx < f.tx

LEMMA ShapeKept ==
    ASSUME Shape, NEW t \in Task, NEW len, NEW g, NEW f,
           Step(t, len, g, f), Fit(t, len, g, f),
           Table', Len(txs) <= Len(txs'),
           \A i \in 1..Len(txs) : txs'[i].parent = txs[i].parent
    PROVE  Shape'
<1> DEFINE L == Len(stack[t])
           k == Len(txs)
           l == Len(txs')
<1>1. /\ k \in Nat /\ l \in Nat /\ k <= l
      /\ L \in Nat /\ len \in Nat /\ len \in {L - 1, L, L + 1}
      /\ stack[t] = <<>> <=> L = 0
      /\ Top(t) = stack[t][L]
      /\ \A n \in 1..L : stack[t][n] \in Frame
  BY TableFacts, StackFacts, LenProperties DEF Shape, Table, Step
<1>2. \A h : FrameOK(h, txs) => FrameOK(h, txs')
  BY <1>1 DEF FrameOK
<1>3. ASSUME NEW u \in Task, u # t
      PROVE  /\ stack'[u] = stack[u]
             /\ \A n \in 1..Len(stack[u]) : FrameOK(stack[u][n], txs')
  BY <1>2, <1>3 DEF Step, Shape, Frames
<1>4. /\ Len(stack'[t]) = len
      /\ \A n \in 1..len :
            stack'[t][n] = IF n < L THEN stack[t][n]
                           ELSE IF n = L THEN g ELSE f
  BY DEF Step
<1>5. /\ L # 0 /\ len >= L => FrameOK(g, txs') /\ g.kind = Top(t).kind
                               /\ g.tx = Top(t).tx
      /\ len > L =>
            /\ FrameOK(f, txs')
            /\ L # 0 => g.phase # "await"
            /\ \/ L = 0
               \/ Top(t).kind = "with"
               \/ f.kind = "rollback" /\ Top(t).kind = "all"
               \/ f.kind = "rollback" /\ Top(t).kind = "rollback"
                    /\ Top(t).tx < f.tx
  BY <1>1 DEF Fit
<1>6. /\ \A n \in 1..L : /\ FrameOK(stack[t][n], txs')
                         /\ stack[t][n].phase = "await" => n = L
      /\ \A n \in 1..L : \A m \in 1..(n - 1) :
            /\ stack[t][m].kind # "with" => stack[t][n].kind = "rollback"
            /\ stack[t][m].kind = "rollback" => stack[t][m].tx < stack[t][n].tx
  BY <1>2 DEF Shape, Frames, Order
<1>7. \A n \in 1..L : stack[t][n].kind = "rollback" => stack[t][n].tx \in Nat
  BY <1>1, <1>6 DEF FrameOK
<1> HIDE DEF L, k, l
<1>8. \A n \in 1..len : /\ FrameOK(stack'[t][n], txs')
                        /\ stack'[t][n].phase = "await" => n = len
  <2> SUFFICES ASSUME NEW n \in 1..len
               PROVE  /\ FrameOK(stack'[t][n], txs')
                      /\ stack'[t][n].phase = "await" => n = len
    OBVIOUS
  <2>1. CASE n < L
    BY <1>1, <1>4, <1>6, <2>1
  <2>2. CASE n = L
    BY <1>1, <1>4, <1>5, <1>6, <2>2
  <2>3. CASE n = L + 1
    BY <1>1, <1>4, <1>5, <2>3
  <2>4. QED
    BY <1>1, <2>1, <2>2, <2>3
<1>9. \A n \in 1..len : \A m \in 1..(n - 1) :
         /\ stack'[t][m].kind # "with" => stack'[t][n].kind = "rollback"
         /\ stack'[t][m].kind = "rollback" => stack'[t][m].tx < stack'[t][n].tx
  <2> SUFFICES ASSUME NEW n \in 1..len, NEW m \in 1..(n - 1)
               PROVE  /\ stack'[t][m].kind # "with"
                            => stack'[t][n].kind = "rollback"
                      /\ stack'[t][m].kind = "rollback"
                            => stack'[t][m].tx < stack'[t][n].tx
    OBVIOUS
  <2>1. CASE n <= L
    <3>1. m < L /\ stack'[t][m] = stack[t][m]
      <4>1. m < L /\ m \in 1..len
        BY <1>1, <2>1
      <4>2. QED
        BY <1>4, <4>1
    <3>2. stack'[t][n].kind = stack[t][n].kind /\ stack'[t][n].tx = stack[t][n].tx
      BY <1>1, <1>4, <1>5, <2>1
    <3>3. QED
      BY <1>1, <1>6, <2>1, <3>1, <3>2
  <2>2. CASE n = L + 1
    <3>1. stack'[t][n] = f /\ len > L /\ m \in 1..L /\ L # 0
      BY <1>1, <1>4, <2>2
    <3>2. stack'[t][m].kind = stack[t][m].kind /\ stack'[t][m].tx = stack[t][m].tx
      BY <1>1, <1>4, <1>5, <3>1
    <3>3. m # L /\ stack[t][m].kind # "with" => Top(t).kind = "rollback"
      BY <1>1, <1>6, <3>1
    <3>4. m # L /\ stack[t][m].kind = "rollback" => stack[t][m].tx < Top(t).tx
      BY <1>1, <1>6, <3>1
    <3>5. stack[t][m].kind # "with" => f.kind = "rollback"
      BY <1>1, <1>5, <3>1, <3>3
    <3>6. stack[t][m].kind = "rollback" => stack[t][m].tx < f.tx
      <4> SUFFICES ASSUME stack[t][m].kind = "rollback"
                   PROVE  stack[t][m].tx < f.tx
        OBVIOUS
      <4>1. Top(t).kind = "rollback" /\ f.kind = "rollback" /\ Top(t).tx < f.tx
        BY <1>1, <1>5, <3>1, <3>3
      <4>2. stack[t][m].tx \in Nat /\ Top(t).tx \in Nat /\ f.tx \in Nat
        BY <1>1, <1>5, <1>7, <3>1, <4>1 DEF FrameOK
      <4>3. QED
        BY <1>1, <3>4, <4>1, <4>2
    <3>7. QED
      BY <3>1, <3>2, <3>5, <3>6
  <2>3. QED
    BY <1>1, <2>1, <2>2
<1>10. Frames'
  <2> SUFFICES ASSUME NEW u \in Task, NEW n \in 1..Len(stack'[u])
               PROVE  /\ FrameOK(stack'[u][n], txs')
                      /\ stack'[u][n].phase = "await" => n = Len(stack'[u])
    BY DEF Frames
  <2>1. CASE u = t
    BY <1>4, <1>8, <2>1
  <2>2. CASE u # t
    BY <1>3, <2>2 DEF Shape, Frames
  <2>3. QED
    BY <2>1, <2>2
<1>11. Order'
  <2> SUFFICES ASSUME NEW u \in Task, NEW n \in 1..Len(stack'[u]),
                      NEW m \in 1..(n - 1)
               PROVE  /\ stack'[u][m].kind # "with"
                            => stack'[u][n].kind = "rollback"
                      /\ stack'[u][m].kind = "rollback"
                            => stack'[u][m].tx < stack'[u][n].tx
    BY DEF Order
  <2>1. CASE u = t
    BY <1>4, <1>9, <2>1
  <2>2. CASE u # t
    BY <1>3, <2>2 DEF Shape, Order
  <2>3. QED
    BY <2>1, <2>2
<1>12. QED
  BY <1>10, <1>11 DEF Shape, Step

(****************************************************************************)
(* What the actions do to stacks and transactions.                          *)
(****************************************************************************)

\* A step of t that opens no block and closes none.
Quiet(t, len, g, f) ==
    /\ Step(t, len, g, f)
    /\ Fit(t, len, g, f)
    /\ TableKept
    /\ UNCHANGED <<current, active>>
    /\ len < Len(stack[t]) => stack[t] # <<>> /\ Top(t).kind # "with"
    /\ len > Len(stack[t]) => f.kind # "with"
    /\ stack[t] = <<>> => f.kind = "all"

LEMMA FrameEdits ==
    ASSUME NEW f \in Frame,
           NEW p \in {"body", "exit", "raise", "children", "await"},
           NEW c \in SUBSET Tx, NEW o \in SUBSET Op
    PROVE  /\ [f EXCEPT !.phase = p] \in Frame
           /\ [f EXCEPT !.phase = p].kind = f.kind
           /\ [f EXCEPT !.phase = p].tx = f.tx
           /\ [f EXCEPT !.phase = p].left = f.left
           /\ [f EXCEPT !.phase = p].phase = p
           /\ [f EXCEPT !.left = c] \in Frame
           /\ [f EXCEPT !.left = c].kind = f.kind
           /\ [f EXCEPT !.left = c].tx = f.tx
           /\ [f EXCEPT !.left = c].left = c
           /\ [f EXCEPT !.left = c].phase = f.phase
           /\ [f EXCEPT !.phase = p, !.ops = o] \in Frame
           /\ [f EXCEPT !.phase = p, !.ops = o].kind = f.kind
           /\ [f EXCEPT !.phase = p, !.ops = o].tx = f.tx
           /\ [f EXCEPT !.phase = p, !.ops = o].left = f.left
           /\ [f EXCEPT !.phase = p, !.ops = o].phase = p
           /\ [f EXCEPT !.phase = p, !.ops = o].ops = o
BY DEF Frame

LEMMA TopFacts ==
    ASSUME Shape, NEW t \in Task, NEW kind, NEW phases, On(t, kind, phases)
    PROVE  /\ stack[t] # <<>>
           /\ Len(stack[t]) \in Nat \ {0}
           /\ Top(t) \in Frame
           /\ Top(t).kind = kind
           /\ Top(t).phase \in phases
           /\ FrameOK(Top(t), txs)
           /\ kind # "all" => /\ Top(t).tx \in 1..Len(txs)
                              /\ Top(t).tx \in 0..MaxTx
                              /\ Top(t).tx \in DOMAIN txs
           /\ Top(t).left \subseteq 1..Len(txs)
           /\ Top(t).left \subseteq Tx
<1>1. /\ stack[t] # <<>>
      /\ Top(t).kind = kind
      /\ Top(t).phase \in phases
  BY DEF On
<1>2. /\ Len(stack[t]) \in Nat \ {0}
      /\ Top(t) \in Frame
      /\ FrameOK(Top(t), txs)
  BY <1>1, StackFacts DEF Shape, Frames
<1>3. /\ 1..Len(txs) \subseteq 0..MaxTx
      /\ 1..Len(txs) \subseteq Tx
      /\ DOMAIN txs = 1..Len(txs)
  BY TableFacts DEF Shape, Tx
<1>4. QED
  BY <1>1, <1>2, <1>3 DEF FrameOK

LEMMA FrameKept ==
    ASSUME TableKept, NEW f, FrameOK(f, txs)
    PROVE  FrameOK(f, txs')
BY DEF TableKept, FrameOK

\* The top of the stack leaves it, other than a block.
LEMMA PopMoves ==
    ASSUME Shape, NEW t \in Task, stack[t] # <<>>, Top(t).kind # "with",
           stack' = [stack EXCEPT ![t] = Front(stack[t])],
           TableKept, UNCHANGED <<current, active>>
    PROVE  Quiet(t, Len(stack[t]) - 1, Top(t), Top(t))
<1>1. Step(t, Len(stack[t]) - 1, Top(t), Top(t))
  BY Popped DEF Shape
<1>2. Len(stack[t]) \in Nat
  BY StackFacts DEF Shape
<1>3. QED
  BY <1>1, <1>2 DEF Quiet, Fit

\* Nothing changes on the stack.
LEMMA StayMoves ==
    ASSUME Shape, NEW t \in Task, stack[t] # <<>>, stack' = stack,
           TableKept, UNCHANGED <<current, active>>
    PROVE  Quiet(t, Len(stack[t]), Top(t), Top(t))
<1>1. Step(t, Len(stack[t]), Top(t), Top(t))
  BY Unmoved DEF Shape
<1>2. /\ Len(stack[t]) \in Nat
      /\ FrameOK(Top(t), txs)
  BY StackFacts DEF Shape, Frames
<1>3. QED
  BY <1>1, <1>2, FrameKept DEF Quiet, Fit

\* The top of the stack goes on as g.
LEMMA SwapMoves ==
    ASSUME Shape, NEW t \in Task, stack[t] # <<>>, NEW g \in Frame,
           FrameOK(g, txs), g.kind = Top(t).kind, g.tx = Top(t).tx,
           stack' = [stack EXCEPT ![t] = Append(Front(stack[t]), g)],
           TableKept, UNCHANGED <<current, active>>
    PROVE  Quiet(t, Len(stack[t]), g, g)
<1>1. Step(t, Len(stack[t]), g, g)
  BY Swapped DEF Shape
<1>2. Len(stack[t]) \in Nat
  BY StackFacts DEF Shape
<1>3. QED
  BY <1>1, <1>2, FrameKept DEF Quiet, Fit

\* f is put above the top, which goes on as g.
LEMMA PushMoves ==
    ASSUME Shape, NEW t \in Task, stack[t] # <<>>, NEW g \in Frame,
           NEW f \in Frame,
           FrameOK(g, txs), g.kind = Top(t).kind, g.tx = Top(t).tx,
           g.phase # "await",
           FrameOK(f, txs), f.kind # "with",
           \/ Top(t).kind = "with"
           \/ f.kind = "rollback" /\ Top(t).kind = "all"
           \/ f.kind = "rollback" /\ Top(t).kind = "rollback"
                /\ Top(t).tx < f.tx,
           \/ stack' = [stack EXCEPT ![t] = Append(Append(Front(stack[t]), g), f)]
           \/ stack' = [stack EXCEPT ![t] = Append(stack[t], f)] /\ g = Top(t),
           TableKept, UNCHANGED <<current, active>>
    PROVE  Quiet(t, Len(stack[t]) + 1, g, f)
<1>1. Step(t, Len(stack[t]) + 1, g, f)
  BY SwappedPushed, Pushed DEF Shape
<1>2. Len(stack[t]) \in Nat
  BY StackFacts DEF Shape
<1>3. QED
  BY <1>1, <1>2, FrameKept DEF Quiet, Fit

LEMMA Refilled ==
    ASSUME Stacked, NEW t \in Task, stack' = [stack EXCEPT ![t] = stack[t]]
    PROVE  stack' = stack
BY DEF Stacked

\* An operation of the body: its transaction gains it, the stack stays.
LEMMA OperateMoves ==
    ASSUME Shape, NEW t \in Task, Operate(t), made \in Seq(Tx)
    PROVE  /\ Quiet(t, Len(stack[t]), Top(t), Top(t))
           /\ stack[t] # <<>> /\ Top(t).kind = "with" /\ IsActive(Top(t).tx)
           /\ Top(t).tx \in 1..Len(txs)
           /\ txs'[Top(t).tx].log = txs[Top(t).tx].log \cup {Len(made) + 1}
           /\ Len(made) + 1 \in Op
           /\ \A j \in 1..Len(txs) :
                 /\ txs'[j].state = txs[j].state
                 /\ j # Top(t).tx => txs'[j] = txs[j]
<1> DEFINE i == Top(t).tx
           o == Len(made) + 1
           r == [txs[i] EXCEPT !.log = @ \cup {o}]
<1>1. /\ On(t, "with", {"body"})
      /\ IsActive(i) /\ Len(made) < MaxOps
      /\ made' = Append(made, i)
      /\ txs' = [txs EXCEPT ![i].log = @ \cup {Len(made')}]
      /\ UNCHANGED <<current, active, stack>>
  BY DEF Operate, InBlock
<1>2. /\ stack[t] # <<>> /\ Top(t).kind = "with"
      /\ i \in 1..Len(txs) /\ i \in DOMAIN txs /\ i \in Tx
  BY <1>1, TopFacts DEF Tx
<1>3. Len(made') = o /\ o \in Op
  BY <1>1, <1>2, AppendProperties, LenProperties, ConstantsAssumption DEF Op
<1>4. txs[i] \in Transaction
  BY <1>2, TableFacts DEF Shape
<1>5. txs' = [txs EXCEPT ![i] = r]
  BY <1>1, <1>3
<1>6. /\ r \in Transaction
      /\ r.state = txs[i].state /\ r.parent = txs[i].parent
      /\ r.previous = txs[i].previous /\ r.log = txs[i].log \cup {o}
  BY <1>3, <1>4 DEF Transaction
<1> HIDE DEF r, o
<1>7. /\ TableKept
      /\ txs'[i] = r
      /\ \A j \in 1..Len(txs) : j # i => txs'[j] = txs[j]
  <2> HIDE DEF i
  <2>1. QED
    BY <1>2, <1>5, <1>6, ChangedTx DEF Shape
<1>8. Quiet(t, Len(stack[t]), Top(t), Top(t))
  BY <1>1, <1>2, <1>7, StayMoves
<1>9. QED
  BY <1>1, <1>2, <1>3, <1>6, <1>7, <1>8 DEF o

\* A commit, by hand or at the end of the block, begins.
LEMMA CommitMoves ==
    ASSUME Shape, NEW t \in Task, CommitByHand(t) \/ LeaveCommitting(t)
    PROVE  \E g \in Frame :
             /\ stack[t] # <<>> /\ Top(t).kind = "with"
             /\ Top(t).tx \in 1..Len(txs) /\ IsActive(Top(t).tx)
             /\ txs' = Marked(Top(t).tx)
             /\ g.kind = "with" /\ g.tx = Top(t).tx
             /\ g.phase \in {"body", "exit"}
             /\ UNCHANGED <<current, active, successful, failed, made,
                            standing, tried>>
             /\ \/ /\ ~CommitAwaits(Top(t).tx)
                   /\ Quiet(t, Len(stack[t]), g, g)
                   /\ \E stk \in Seq(Frame) : Return(t, stk, "none")
                \/ /\ CommitAwaits(Top(t).tx)
                   /\ LET f == NewFrame("commit", "await", Top(t).tx)
                      IN  f \in Frame /\ Quiet(t, Len(stack[t]) + 1, g, f)
                   /\ running' = Nobody /\ raised' = raised
                   /\ stack'[t] # <<>>
<1> DEFINE i == Top(t).tx
           s == stack[t]
           stk(g) == Append(Front(s), g)
           f == NewFrame("commit", "await", i)
<1>1. On(t, "with", {"body"}) /\ IsActive(i)
      /\ UNCHANGED <<current, active, successful, failed, made, standing, tried>>
  BY DEF CommitByHand, LeaveCommitting, InBlock
<1>2. /\ s # <<>> /\ s \in Seq(Frame) /\ Len(s) \in Nat \ {0}
      /\ Top(t) \in Frame /\ Top(t).kind = "with" /\ Top(t).phase = "body"
      /\ FrameOK(Top(t), txs)
      /\ i \in 1..Len(txs) /\ i \in 0..MaxTx
  BY <1>1, TopFacts, StackFacts DEF Shape
<1>3. /\ f \in Frame /\ f.kind = "commit" /\ f.phase = "await"
      /\ f.tx = i /\ f.left = {}
  BY <1>2, NewFrameType
<1> HIDE DEF f
<1>4. FrameOK(f, txs)
  BY <1>2, <1>3 DEF FrameOK
<1>5. PICK g \in Frame :
         /\ g.kind = "with" /\ g.tx = i /\ g.phase \in {"body", "exit"}
         /\ FrameOK(g, txs)
         /\ \/ g = Top(t) /\ BeginCommit(t, i, s)
            \/ BeginCommit(t, i, stk(g))
  <2>1. CASE CommitByHand(t)
    BY <1>2, <2>1 DEF CommitByHand
  <2>2. CASE LeaveCommitting(t)
    <3> DEFINE h == [Top(t) EXCEPT !.phase = "exit"]
    <3>1. /\ h \in Frame /\ h.kind = "with" /\ h.tx = i
          /\ h.phase = "exit" /\ h.left = Top(t).left
      BY <1>2 DEF Frame
    <3>2. BeginCommit(t, i, stk(h))
      BY <2>2 DEF LeaveCommitting, Leaving
    <3> HIDE DEF h
    <3>3. FrameOK(h, txs)
      BY <1>2, <3>1 DEF FrameOK
    <3>4. QED
      BY <3>1, <3>2, <3>3
  <2>3. QED
    BY <2>1, <2>2
<1>6. txs' = Marked(i)
  BY <1>5 DEF BeginCommit
<1>7. TableKept
  BY <1>2, <1>6, MarkedSet DEF Shape
<1>8. stk(g) \in Seq(Frame)
  BY <1>2, ReplacedTop
<1>9. CASE ~CommitAwaits(i)
  <2>1. CASE g = Top(t) /\ BeginCommit(t, i, s)
    <3>1. Return(t, s, "none") /\ stack' = stack
      BY <1>9, <2>1, Refilled DEF BeginCommit, Return, Shape
    <3>2. Quiet(t, Len(s), g, g)
      BY <1>1, <1>2, <1>7, <2>1, <3>1, StayMoves
    <3>3. QED
      BY <1>1, <1>2, <1>5, <1>6, <1>9, <3>1, <3>2
  <2>2. CASE BeginCommit(t, i, stk(g))
    <3>1. Return(t, stk(g), "none") /\ stack' = [stack EXCEPT ![t] = stk(g)]
      BY <1>9, <2>2 DEF BeginCommit, Return
    <3>2. Quiet(t, Len(s), g, g)
      BY <1>1, <1>2, <1>5, <1>7, <3>1, SwapMoves
    <3>3. QED
      BY <1>1, <1>2, <1>5, <1>6, <1>8, <1>9, <3>1, <3>2
  <2>3. QED
    BY <1>5, <2>1, <2>2
<1>10. CASE CommitAwaits(i)
  <2>1. /\ \/ stack' = [stack EXCEPT ![t] = Append(s, f)] /\ g = Top(t)
           \/ stack' = [stack EXCEPT ![t] = Append(stk(g), f)]
        /\ running' = Nobody /\ raised' = raised
    BY <1>5, <1>10 DEF BeginCommit, Await, f
  <2>2. g.phase # "await" /\ f.kind # "with"
    BY <1>3, <1>5
  <2>3. Quiet(t, Len(s) + 1, g, f)
    BY <1>1, <1>2, <1>3, <1>4, <1>5, <1>7, <2>1, <2>2, PushMoves
  <2>4. stack'[t] # <<>>
    <3>1. Len(stack'[t]) = Len(s) + 1
      BY <2>3 DEF Quiet, Step
    <3>2. QED
      BY <1>2, <3>1, EmptySeq
  <2>5. QED
    BY <1>1, <1>2, <1>3, <1>5, <1>6, <1>10, <2>1, <2>3, <2>4 DEF f
<1>11. QED
  BY <1>9, <1>10

LEMMA CommitEnds ==
    ASSUME Shape, NEW t \in Task, CommitReturns(t)
    PROVE  /\ Quiet(t, Len(stack[t]) - 1, Top(t), Top(t))
           /\ Top(t).kind = "commit" /\ Top(t).tx \in 1..Len(txs)
           /\ txs' = WithState(Top(t).tx, "committed")
<1>1. /\ On(t, "commit", {"await"})
      /\ txs' = WithState(Top(t).tx, "committed")
      /\ stack' = [stack EXCEPT ![t] = Front(stack[t])]
      /\ UNCHANGED <<current, active>>
  BY DEF CommitReturns, Return
<1>2. /\ stack[t] # <<>> /\ Top(t).kind = "commit"
      /\ Top(t).tx \in 1..Len(txs)
  BY <1>1, TopFacts
<1>3. TableKept
  BY <1>1, <1>2, StateSet DEF Shape
<1>4. QED
  BY <1>1, <1>2, <1>3, PopMoves

\* A rollback by hand begins, or the except clause of a block is entered.
LEMMA RollbackMoves ==
    ASSUME Shape, NEW t \in Task,
           \/ RollbackByHand(t)
           \/ On(t, "with", {"body"}) /\ LeaveWithError(t)
    PROVE  \E g \in Frame :
             /\ stack[t] # <<>> /\ Top(t).kind = "with" /\ txs' = txs
             /\ Top(t).phase = "body"
             /\ Top(t).tx \in 1..Len(txs)
             /\ g.kind = "with" /\ g.tx = Top(t).tx
             /\ g.phase \in {"body", "raise"}
             /\ \/ /\ Quiet(t, Len(stack[t]) + 1, g, RollbackFrame(Top(t).tx))
                   /\ IsActive(Top(t).tx) \/ txs[Top(t).tx].state = "failed"
                \/ /\ ~IsActive(Top(t).tx)
                   /\ Quiet(t, Len(stack[t]), g, g)
<1> DEFINE i == Top(t).tx
           f == RollbackFrame(i)
<1>1. On(t, "with", {"body"}) /\ UNCHANGED <<txs, current, active>>
  BY DEF RollbackByHand, InBlock, LeaveWithError
<1>2. /\ stack[t] # <<>> /\ Top(t) \in Frame
      /\ Top(t).kind = "with" /\ Top(t).phase = "body"
      /\ FrameOK(Top(t), txs) /\ i \in 1..Len(txs)
      /\ txs[i] \in Transaction
      /\ TableKept
  BY <1>1, TopFacts, SameTable, TableFacts DEF Shape
<1>3. f \in Frame /\ FrameOK(f, txs) /\ f.kind = "rollback"
  <2>1. Children(i) \subseteq 1..Len(txs) /\ DOMAIN txs = 1..Len(txs)
    BY TableFacts DEF Shape
  <2>2. \A c \in Children(i) : txs[c].parent = i
    BY DEF Children
  <2>3. /\ f \in Frame /\ f.kind = "rollback" /\ f.phase = "children"
        /\ f.tx = i /\ f.left = Children(i)
    BY <1>2, RollbackFrameType DEF Shape
  <2>4. QED
    BY <1>2, <2>1, <2>2, <2>3 DEF FrameOK
<1> HIDE DEF f
<1>4. CASE RollbackByHand(t)
  <2>1. /\ stack' = [stack EXCEPT ![t] = Append(stack[t], f)]
        /\ txs[i].state \notin {"committed", "rolled_back"}
    BY <1>4 DEF RollbackByHand, f, Shape, Stacked
  <2>2. IsActive(i) \/ txs[i].state = "failed"
    BY <1>2, <2>1 DEF Transaction, IsActive
  <2>3. Top(t).phase # "await" /\ f.kind # "with"
    BY <1>2, <1>3
  <2>4. Quiet(t, Len(stack[t]) + 1, Top(t), f)
    BY <1>1, <1>2, <1>3, <2>1, <2>3, PushMoves
  <2>5. QED
    BY <1>1, <1>2, <2>2, <2>4 DEF f
<1>5. CASE LeaveWithError(t)
  <2> DEFINE g == [Top(t) EXCEPT !.phase = "raise"]
  <2>1. /\ g \in Frame /\ g.kind = "with" /\ g.tx = i
        /\ g.phase = "raise" /\ g.left = Top(t).left
    BY <1>2 DEF Frame
  <2>2. stack' = [stack EXCEPT ![t] =
           IF IsActive(i) THEN Append(Append(Front(stack[t]), g), f)
           ELSE Append(Front(stack[t]), g)]
    BY <1>5 DEF LeaveWithError, Return, Leaving, Aborts, f
  <2> HIDE DEF g
  <2>3. FrameOK(g, txs) /\ g.phase # "await" /\ f.kind # "with"
    BY <1>2, <1>3, <2>1 DEF FrameOK
  <2>4. CASE IsActive(i)
    <3>1. Quiet(t, Len(stack[t]) + 1, g, f)
      BY <1>1, <1>2, <1>3, <2>1, <2>2, <2>3, <2>4, PushMoves
    <3>2. QED
      BY <1>1, <1>2, <2>1, <2>4, <3>1 DEF f
  <2>5. CASE ~IsActive(i)
    <3>1. Quiet(t, Len(stack[t]), g, g)
      BY <1>1, <1>2, <2>1, <2>2, <2>3, <2>5, SwapMoves
    <3>2. QED
      BY <1>1, <1>2, <2>1, <2>5, <3>1
  <2>6. QED
    BY <2>4, <2>5
<1>6. QED
  BY <1>4, <1>5

\* The body ends without a commit.
LEMMA LeaveMoves ==
    ASSUME Shape, NEW t \in Task, LeaveAsIs(t)
    PROVE  \E g \in Frame :
             /\ stack[t] # <<>> /\ Top(t).kind = "with" /\ txs' = txs
             /\ Top(t).phase = "body"
             /\ Top(t).tx \in 1..Len(txs)
             /\ g.kind = "with" /\ g.tx = Top(t).tx /\ g.phase = "exit"
             /\ Quiet(t, Len(stack[t]), g, g)
<1> DEFINE g == [Top(t) EXCEPT !.phase = "exit"]
<1>1. /\ On(t, "with", {"body"}) /\ UNCHANGED <<txs, current, active>>
      /\ stack' = [stack EXCEPT ![t] = Append(Front(stack[t]), g)]
  BY DEF LeaveAsIs, InBlock, Return, Leaving
<1>2. /\ stack[t] # <<>> /\ Top(t) \in Frame
      /\ Top(t).kind = "with" /\ Top(t).phase = "body"
      /\ FrameOK(Top(t), txs) /\ Top(t).tx \in 1..Len(txs)
      /\ TableKept
  BY <1>1, TopFacts, SameTable DEF Shape
<1>3. /\ g \in Frame /\ g.kind = "with" /\ g.tx = Top(t).tx
      /\ g.phase = "exit" /\ g.left = Top(t).left
  BY <1>2 DEF Frame
<1> HIDE DEF g
<1>4. FrameOK(g, txs)
  BY <1>2, <1>3 DEF FrameOK
<1>5. Quiet(t, Len(stack[t]), g, g)
  BY <1>1, <1>2, <1>3, <1>4, SwapMoves
<1>6. QED
  BY <1>1, <1>2, <1>3, <1>5

\* The next child of a rollback, or the next transaction of rollback_all().
LEMMA NextMoves ==
    ASSUME Shape, NEW t \in Task, NextChild(t) \/ NextOfAll(t)
    PROVE  \E g \in Frame, c \in Top(t).left :
             /\ stack[t] # <<>> /\ txs' = txs
             /\ Top(t).kind \in {"rollback", "all"}
             /\ Top(t).phase = "children" /\ g.phase = "children"
             /\ g.kind = Top(t).kind /\ g.tx = Top(t).tx
             /\ g.left = Top(t).left \ {c}
             /\ c \in 1..Len(txs)
             /\ Top(t).kind = "rollback" => c \in Children(Top(t).tx)
             /\ \/ /\ IsActive(c)
                   /\ Quiet(t, Len(stack[t]) + 1, g, RollbackFrame(c))
                \/ /\ ~IsActive(c)
                   /\ Quiet(t, Len(stack[t]), g, g)
<1>1. PICK c \in Top(t).left :
         /\ On(t, "rollback", {"children"}) \/ On(t, "all", {"children"})
         /\ UNCHANGED <<txs, current, active>>
         /\ LET g == [Top(t) EXCEPT !.left = @ \ {c}]
                rest == Append(Front(stack[t]), g)
            IN  stack' = [stack EXCEPT ![t] =
                   IF IsActive(c) THEN Append(rest, RollbackFrame(c)) ELSE rest]
  BY DEF NextChild, NextOfAll, RunningOn, TakesChild, Rest
<1> DEFINE g == [Top(t) EXCEPT !.left = Top(t).left \ {c}]
           f == RollbackFrame(c)
<1>2. /\ stack[t] # <<>> /\ Top(t) \in Frame
      /\ Top(t).kind \in {"rollback", "all"} /\ Top(t).phase = "children"
      /\ FrameOK(Top(t), txs)
      /\ Top(t).left \subseteq 1..Len(txs) /\ Top(t).left \subseteq Tx
      /\ TableKept
  BY <1>1, TopFacts, SameTable DEF Shape
<1>3. /\ g \in Frame /\ g.kind = Top(t).kind /\ g.tx = Top(t).tx
      /\ g.phase = "children" /\ g.left = Top(t).left \ {c}
  BY <1>2 DEF Frame
<1>4. stack' = [stack EXCEPT ![t] =
         IF IsActive(c) THEN Append(Append(Front(stack[t]), g), f)
         ELSE Append(Front(stack[t]), g)]
  BY <1>1
<1> HIDE DEF g
<1>5. /\ FrameOK(g, txs) /\ g.phase # "await"
      /\ c \in 1..Len(txs)
  BY <1>2, <1>3 DEF FrameOK
<1>6. Top(t).kind = "rollback" => c \in Children(Top(t).tx) /\ Top(t).tx < c
  <2>1. DOMAIN txs = 1..Len(txs)
    BY TableFacts DEF Shape
  <2>2. Top(t).kind = "rollback" => txs[c].parent = Top(t).tx
    BY <1>2 DEF FrameOK
  <2>3. txs[c].parent < c
    BY <1>5 DEF Shape, Table
  <2>4. QED
    BY <1>5, <2>1, <2>2, <2>3 DEF Children
<1>7. f \in Frame /\ FrameOK(f, txs) /\ f.kind = "rollback" /\ f.tx = c
  <2>1. Children(c) \subseteq 1..Len(txs) /\ DOMAIN txs = 1..Len(txs)
    BY TableFacts DEF Shape
  <2>2. \A d \in Children(c) : txs[d].parent = c
    BY DEF Children
  <2>3. /\ f \in Frame /\ f.kind = "rollback" /\ f.phase = "children"
        /\ f.tx = c /\ f.left = Children(c)
    BY <1>5, RollbackFrameType DEF Shape
  <2>4. QED
    BY <1>5, <2>1, <2>2, <2>3 DEF FrameOK
<1> HIDE DEF f
<1>8. CASE IsActive(c)
  <2>1. f.kind # "with"
    BY <1>7
  <2>2. Quiet(t, Len(stack[t]) + 1, g, f)
    BY <1>1, <1>2, <1>3, <1>4, <1>5, <1>6, <1>7, <1>8, <2>1, PushMoves
  <2>3. QED
    BY <1>1, <1>2, <1>3, <1>5, <1>6, <1>8, <2>2 DEF f
<1>9. CASE ~IsActive(c)
  <2>1. Quiet(t, Len(stack[t]), g, g)
    BY <1>1, <1>2, <1>3, <1>4, <1>5, <1>9, SwapMoves
  <2>2. QED
    BY <1>1, <1>2, <1>3, <1>5, <1>6, <1>9, <2>1
<1>10. QED
  BY <1>8, <1>9

\* A rollback ends: every way out of it but cancellation ends its transaction.
LEMMA RollbackEnds ==
    ASSUME Shape, NEW t \in Task,
           \/ ChildrenChanged(t)
           \/ OwnOperations(t) /\ Todo(Top(t).tx) = {}
           \/ RollbackReturns(t)
           \/ RollbackFails(t)
           \/ Unwind(t) /\ raised[t] = "error" /\ Top(t).kind = "rollback"
    PROVE  /\ stack[t] # <<>> /\ Top(t).kind = "rollback"
           /\ Top(t).tx \in 1..Len(txs)
           /\ Quiet(t, Len(stack[t]) - 1, Top(t), Top(t))
           /\ txs'[Top(t).tx].state # "active"
           /\ txs' \in {WithState(Top(t).tx, "failed"), RolledBack(Top(t).tx)}
           /\ \A j \in 1..Len(txs) : j # Top(t).tx => txs'[j] = txs[j]
<1> DEFINE i == Top(t).tx
<1>1. /\ On(t, "rollback", {"children", "await"})
      /\ txs' \in {WithState(i, "failed"), RolledBack(i)}
      /\ stack' = [stack EXCEPT ![t] = Front(stack[t])]
      /\ UNCHANGED <<current, active>>
  <2>1. CASE Unwind(t) /\ raised[t] = "error" /\ Top(t).kind = "rollback"
    BY <2>1 DEF Unwind, Return, On
  <2>2. CASE ~(Unwind(t) /\ raised[t] = "error" /\ Top(t).kind = "rollback")
    BY <2>2 DEF ChildrenChanged, OwnOperations, RollbackReturns,
                RollbackFails, RunningOn, Return, On
  <2>3. QED
    BY <2>1, <2>2
<1>2. /\ stack[t] # <<>> /\ Top(t).kind = "rollback"
      /\ i \in 1..Len(txs)
  BY <1>1, TopFacts
<1>3. /\ TableKept
      /\ txs'[i].state \in {"failed", "rolled_back"}
      /\ \A j \in 1..Len(txs) : j # i => txs'[j] = txs[j]
  <2>1. CASE txs' = WithState(i, "failed")
    BY <1>2, <2>1, StateSet DEF Shape
  <2>2. CASE txs' = RolledBack(i)
    BY <1>2, <2>2, RolledBackSet DEF Shape
  <2>3. QED
    BY <1>1, <2>1, <2>2
<1>4. Quiet(t, Len(stack[t]) - 1, Top(t), Top(t))
  BY <1>1, <1>2, <1>3, PopMoves
<1>5. QED
  BY <1>1, <1>2, <1>3, <1>4

\* The operations of the transaction itself are awaited.
LEMMA UndoMoves ==
    ASSUME Shape, NEW t \in Task, OwnOperations(t), Todo(Top(t).tx) # {}
    PROVE  \E g \in Frame :
             /\ stack[t] # <<>> /\ Top(t).kind = "rollback" /\ txs' = txs
             /\ Top(t).phase = "children" /\ Top(t).left = {}
             /\ Top(t).tx \in 1..Len(txs)
             /\ g.kind = "rollback" /\ g.tx = Top(t).tx /\ g.phase = "await"
             /\ g.ops = Todo(Top(t).tx)
             /\ Quiet(t, Len(stack[t]), g, g)
<1> DEFINE o == Todo(Top(t).tx)
           g == [Top(t) EXCEPT !.phase = "await", !.ops = o]
<1>1. /\ On(t, "rollback", {"children"}) /\ UNCHANGED <<txs, current, active>>
      /\ Top(t).left = {}
      /\ stack' = [stack EXCEPT ![t] = Append(Front(stack[t]), g)]
  BY DEF OwnOperations, RunningOn, Await
<1>2. /\ stack[t] # <<>> /\ Top(t) \in Frame
      /\ Top(t).kind = "rollback" /\ Top(t).phase = "children"
      /\ FrameOK(Top(t), txs) /\ Top(t).tx \in 1..Len(txs)
      /\ TableKept
  BY <1>1, TopFacts, SameTable DEF Shape
<1>3. o \in SUBSET Op
  <2>1. txs[Top(t).tx] \in Transaction
    BY <1>2, TableFacts DEF Shape
  <2>2. QED
    BY <2>1 DEF Todo, Transaction
<1> HIDE DEF o
<1>4. /\ g \in Frame /\ g.kind = Top(t).kind /\ g.tx = Top(t).tx
      /\ g.left = Top(t).left /\ g.phase = "await" /\ g.ops = o
  BY <1>2, <1>3 DEF Frame
<1> HIDE DEF g
<1>5. FrameOK(g, txs)
  BY <1>2, <1>4 DEF FrameOK
<1>6. Quiet(t, Len(stack[t]), g, g)
  BY <1>1, <1>2, <1>4, <1>5, SwapMoves
<1>7. QED
  BY <1>1, <1>2, <1>4, <1>6 DEF o

\* rollback_all() begins, in a block or outside of any.
LEMMA AllMoves ==
    ASSUME Shape, active \subseteq 1..Len(txs), NEW t \in Task, RollbackAll(t)
    PROVE  \E f \in Frame :
             /\ txs' = txs
             /\ stack[t] # <<>> => Top(t).kind = "with" /\ Top(t).phase = "body"
             /\ f.kind = "all" /\ f.left = active /\ f.phase = "children"
             /\ Quiet(t, Len(stack[t]) + 1, Top(t), f)
<1> DEFINE h == NewFrame("all", "children", 0)
           f == [h EXCEPT !.left = active]
<1>1. /\ stack[t] = <<>> \/ On(t, "with", {"body"})
      /\ UNCHANGED <<txs, current, active>>
      /\ stack' = [stack EXCEPT ![t] = Append(stack[t], f)]
  BY DEF RollbackAll, InBody, AllActive, Shape, Stacked
<1>2. stack[t] # <<>> => /\ Top(t) \in Frame
                         /\ Top(t).kind = "with" /\ Top(t).phase = "body"
                         /\ FrameOK(Top(t), txs)
  BY <1>1, TopFacts
<1>3. TableKept
  BY <1>1, SameTable DEF Shape
<1>4. /\ h \in Frame /\ h.kind = "all" /\ h.phase = "children"
  <2>1. 0 \in 0..MaxTx
    BY ConstantsAssumption
  <2>2. QED
    BY <2>1, NewFrameType
<1> HIDE DEF h
<1>5. active \in SUBSET Tx
  BY TableFacts DEF Shape
<1>6. f \in Frame /\ f.kind = "all" /\ f.phase = "children" /\ f.left = active
  BY <1>4, <1>5 DEF Frame
<1> HIDE DEF f
<1>7. FrameOK(f, txs)
  BY <1>6 DEF FrameOK
<1>8. Step(t, Len(stack[t]) + 1, Top(t), f)
  BY <1>1, <1>6, Pushed DEF Shape
<1>9. Len(stack[t]) \in Nat
  BY StackFacts DEF Shape
<1>10. Quiet(t, Len(stack[t]) + 1, Top(t), f)
  <2>1. stack[t] # <<>> => FrameOK(Top(t), txs')
    BY <1>2, <1>3, FrameKept
  <2>2. FrameOK(f, txs')
    BY <1>3, <1>7, FrameKept
  <2>3. Fit(t, Len(stack[t]) + 1, Top(t), f)
    BY <1>2, <2>1, <2>2 DEF Fit
  <2>4. ~(Len(stack[t]) + 1 < Len(stack[t]))
    BY <1>9
  <2>5. f.kind # "with" /\ f.kind = "all"
    BY <1>6
  <2>6. QED
    BY <1>1, <1>3, <1>8, <2>3, <2>4, <2>5 DEF Quiet
<1>11. QED
  BY <1>1, <1>2, <1>6, <1>10

\* rollback_all() ends, or an exception passes a commit, a rollback_all(), or,
\* when the task is cancelled, a rollback: no transaction changes.
LEMMA PassMoves ==
    ASSUME Shape, NEW t \in Task,
           \/ EndOfAll(t)
           \/ Unwind(t) /\ ~(raised[t] = "error" /\ Top(t).kind = "rollback")
    PROVE  /\ stack[t] # <<>> /\ Top(t).kind # "with"
           /\ txs' = txs
           /\ Quiet(t, Len(stack[t]) - 1, Top(t), Top(t))
<1>1. /\ stack[t] # <<>> /\ Top(t).kind # "with"
      /\ stack' = [stack EXCEPT ![t] = Front(stack[t])]
      /\ UNCHANGED <<txs, current, active>>
  BY DEF EndOfAll, RunningOn, Unwind, On, Return
<1>2. TableKept
  BY <1>1, SameTable DEF Shape
<1>3. QED
  BY <1>1, <1>2, PopMoves

\* An exception is handled in the body, or strikes a suspended task.
LEMMA StandMoves ==
    ASSUME Shape, NEW t \in Task, Catch(t) \/ Cancelled(t)
    PROVE  /\ stack[t] # <<>>
           /\ txs' = txs
           /\ Quiet(t, Len(stack[t]), Top(t), Top(t))
<1>1. /\ stack[t] # <<>>
      /\ stack' = [stack EXCEPT ![t] = stack[t]]
      /\ UNCHANGED <<txs, current, active>>
  BY DEF Catch, Cancelled, On, Return
<1>2. TableKept /\ stack' = stack
  BY <1>1, SameTable, Refilled DEF Shape
<1>3. QED
  BY <1>1, <1>2, StayMoves

(****************************************************************************)
(* Which task runs, and with which exception.                               *)
(****************************************************************************)

Control ==
    /\ raised \in [Task -> {"none", "error", "cancel"}]
    /\ running \in Task \cup {Nobody}
    /\ running # Nobody => stack[running] # <<>>
    /\ \A t \in Task :
          /\ raised[t] # "none" => running = t
          /\ raised[t] = "cancel" => "cancellation" \in faults
          /\ raised[t] = "error" => Top(t).phase # "await"

\* A step of t leaves it with exception e.
Flow(t, e) ==
    /\ running \in {Nobody, t}
    /\ e \in {"none", "error", "cancel"}
    /\ raised' = [raised EXCEPT ![t] = e]
    /\ running' \in {Nobody, t}
    /\ running' = t => stack'[t] # <<>>
    /\ e # "none" => running' = t
    /\ e = "cancel" => "cancellation" \in faults'
    /\ e = "error" => stack[t] # <<>> /\ stack'[t] = Front(stack[t])

LEMMA ControlFacts ==
    ASSUME Control, NEW t \in Task
    PROVE  /\ raised[t] \in {"none", "error", "cancel"}
           /\ running = Nobody => raised[t] = "none"
           /\ t # Nobody
BY ConstantsAssumption DEF Control

LEMMA ReturnFlow ==
    ASSUME Stacked, NEW t \in Task, running \in {Nobody, t},
           NEW stk, NEW e \in {"none", "error", "cancel"}, Return(t, stk, e),
           e = "cancel" => "cancellation" \in faults',
           e = "error" => stack[t] # <<>> /\ stk = Front(stack[t])
    PROVE  \E x : Flow(t, x)
<1> DEFINE x == IF stk = <<>> THEN "none" ELSE e
<1>1. stack'[t] = stk
  BY DEF Return, Stacked
<1>2. t # Nobody
  BY ConstantsAssumption
<1>3. Flow(t, x)
  BY <1>1, <1>2 DEF Return, Flow
<1>4. QED
  BY <1>3

LEMMA KeepFlow ==
    ASSUME Stacked, Control, NEW t \in Task,
           running = Nobody \/ (running = t /\ raised[t] = "none"),
           raised' = raised,
           running' = Nobody \/ (running' = t /\ stack'[t] # <<>>)
    PROVE  Flow(t, "none")
<1>1. raised[t] = "none" /\ t # Nobody
  BY ControlFacts
<1>2. raised' = [raised EXCEPT ![t] = "none"]
  BY <1>1 DEF Control
<1>3. QED
  BY <1>1, <1>2 DEF Flow

LEMMA ControlKept ==
    ASSUME Shape, Control, NEW t \in Task, NEW e, Flow(t, e),
           \A u \in Task : u # t => stack'[u] = stack[u],
           faults \subseteq faults'
    PROVE  Control'
<1>1. t # Nobody
  BY ControlFacts
<1>2. /\ raised' \in [Task -> {"none", "error", "cancel"}]
      /\ raised'[t] = e
      /\ \A u \in Task : u # t => raised'[u] = raised[u]
  BY DEF Flow, Control
<1>3. /\ running' \in Task \cup {Nobody}
      /\ running' # Nobody => stack'[running'] # <<>>
  BY DEF Flow
<1>4. ASSUME NEW u \in Task, u # t
      PROVE  raised'[u] = "none"
  BY <1>2, <1>4, ControlFacts DEF Flow, Control
<1>5. e = "error" => Top(t)'.phase # "await"
  <2> SUFFICES ASSUME e = "error"
               PROVE  Top(t)'.phase # "await"
    OBVIOUS
  <2> DEFINE k == Len(stack[t])
  <2>1. /\ stack[t] # <<>> /\ stack'[t] = Front(stack[t])
        /\ running' = t /\ stack'[t] # <<>>
    BY DEF Flow
  <2>2. stack[t] \in Seq(Frame) /\ k \in Nat
    BY StackFacts DEF Shape
  <2>3. /\ Front(stack[t]) \in Seq(Frame)
        /\ Len(stack'[t]) = k - 1
        /\ \A n \in 1..(k - 1) : stack'[t][n] = stack[t][n]
    BY <2>1, <2>2, FrontFacts
  <2>4. k - 1 \in 1..(k - 1) /\ k - 1 \in 1..k /\ k - 1 # k
    <3>1. k - 1 # 0 /\ k - 1 \in Nat
      BY <2>1, <2>3, EmptySeq, LenProperties
    <3> HIDE DEF k
    <3>2. QED
      BY <2>2, <3>1
  <2>5. Top(t)' = stack[t][k - 1]
    BY <2>3, <2>4 DEF Top, Last
  <2>6. QED
    BY <2>4, <2>5 DEF Shape, Frames
<1>6. QED
  BY <1>2, <1>3, <1>4, <1>5 DEF Control, Flow

\* Every step is a step of Flow.
LEMMA EnterFlow ==
    ASSUME Shape, Control, NEW t \in Task, Enter(t) \/ Operate(t)
    PROVE  Flow(t, "none")
BY KeepFlow DEF Enter, InBody, Operate, InBlock, Shape

LEMMA CommitFlow ==
    ASSUME Shape, Control, NEW t \in Task,
           CommitByHand(t) \/ LeaveCommitting(t) \/ CommitReturns(t)
    PROVE  \E x : Flow(t, x)
<1>1. running = Nobody
  BY DEF CommitByHand, LeaveCommitting, CommitReturns, InBlock
<1>2. CASE \E stk : Return(t, stk, "none")
  BY <1>1, <1>2, ReturnFlow DEF Shape
<1>3. CASE \E stk : Await(t, stk)
  <2>1. raised' = raised /\ running' = Nobody
    BY <1>3 DEF Await
  <2>2. QED
    BY <1>1, <2>1, KeepFlow DEF Shape
<1>4. QED
  BY <1>2, <1>3 DEF CommitByHand, LeaveCommitting, CommitReturns, BeginCommit

LEMMA LeaveFlow ==
    ASSUME Shape, Control, NEW t \in Task,
           \/ LeaveAsIs(t)
           \/ running \in {Nobody, t} /\ LeaveWithError(t)
           \/ Catch(t)
           \/ EndOfAll(t)
    PROVE  \E x : Flow(t, x)
<1>1. /\ running \in {Nobody, t}
      /\ \E stk : Return(t, stk, "none")
  BY DEF LeaveAsIs, InBlock, LeaveWithError, Catch, EndOfAll, RunningOn
<1>2. QED
  BY <1>1, ReturnFlow DEF Shape

LEMMA PopFlow ==
    ASSUME Shape, Control, NEW t \in Task,
           Leave(t) \/ Unwind(t) \/ ChildrenChanged(t) \/ RollbackReturns(t)
             \/ RollbackFails(t),
           faults \subseteq faults'
    PROVE  \E x : Flow(t, x)
<1>1. /\ running \in {Nobody, t}
      /\ stack[t] # <<>>
      /\ \E e \in {"none", "error", raised[t]} :
            Return(t, Front(stack[t]), e)
  BY DEF Leave, Unwind, ChildrenChanged, RollbackReturns, RollbackFails,
         RunningOn, On
<1>2. PICK e \in {"none", "error", raised[t]} : Return(t, Front(stack[t]), e)
  BY <1>1
<1>3. /\ e \in {"none", "error", "cancel"}
      /\ e = "cancel" => "cancellation" \in faults'
  BY ControlFacts DEF Control
<1>4. QED
  BY <1>1, <1>2, <1>3, ReturnFlow DEF Shape

LEMMA CancelFlow ==
    ASSUME Shape, NEW t \in Task, Cancelled(t), Seen({"cancellation"})
    PROVE  \E x : Flow(t, x)
<1>1. running \in {Nobody, t} /\ Return(t, stack[t], "cancel")
      /\ "cancellation" \in faults'
  BY DEF Cancelled, Seen
<1>2. QED
  BY <1>1, ReturnFlow DEF Shape

LEMMA UndoFlow ==
    ASSUME Shape, Control, NEW t \in Task, OwnOperations(t)
    PROVE  \E x : Flow(t, x)
<1>1. running = t /\ raised[t] = "none"
  BY DEF OwnOperations, RunningOn
<1>2. CASE \E stk : Return(t, stk, "none")
  BY <1>1, <1>2, ReturnFlow DEF Shape
<1>3. CASE \E stk : Await(t, stk)
  <2>1. raised' = raised /\ running' = Nobody
    BY <1>3 DEF Await
  <2>2. QED
    BY <1>1, <2>1, KeepFlow DEF Shape
<1>4. QED
  BY <1>2, <1>3 DEF OwnOperations

LEMMA BeginFlow ==
    ASSUME Shape, Control, NEW t \in Task,
           RollbackByHand(t) \/ RollbackAll(t) \/ NextChild(t) \/ NextOfAll(t),
           NEW len, NEW g, NEW f, Step(t, len, g, f), len # 0
    PROVE  \E x : Flow(t, x)
<1>1. /\ running = Nobody \/ (running = t /\ raised[t] = "none")
      /\ raised' = raised
      /\ running' = t
  BY DEF RollbackByHand, InBlock, RollbackAll, InBody, NextChild, NextOfAll,
         RunningOn
<1>2. stack'[t] # <<>>
  <2>1. stack'[t] \in Seq(Frame) /\ Len(stack'[t]) # 0
    BY DEF Step, Stacked
  <2>2. QED
    BY <2>1, EmptySeq
<1>3. QED
  BY <1>1, <1>2, KeepFlow DEF Shape

(****************************************************************************)
(* The blocks of the stacks.                                                *)
(****************************************************************************)

\* r has the blocks of s, whatever else it has.
SameBlocks(s, r) ==
    \A n :
        /\ n \in 1..Len(s) /\ IsBlock(s[n]) <=> n \in 1..Len(r) /\ IsBlock(r[n])
        /\ n \in 1..Len(s) /\ IsBlock(s[n]) => r[n].tx = s[n].tx

LEMMA SameInnermost ==
    ASSUME NEW s, NEW r, NEW k \in Nat, NEW l \in Nat,
           \A n : /\ n \in 1..k /\ IsBlock(s[n]) <=> n \in 1..l /\ IsBlock(r[n])
                  /\ n \in 1..k /\ IsBlock(s[n]) => r[n].tx = s[n].tx,
           NEW i, Innermost(s, k, i)
    PROVE  Innermost(r, l, i)
<1>1. CASE i = 0 /\ \A n \in 1..k : ~IsBlock(s[n])
  BY <1>1 DEF Innermost
<1>2. CASE \E n \in 1..k : /\ IsBlock(s[n]) /\ i = s[n].tx
                           /\ \A m \in (n + 1)..k : ~IsBlock(s[m])
  <2>1. PICK n \in 1..k : /\ IsBlock(s[n]) /\ i = s[n].tx
                          /\ \A m \in (n + 1)..k : ~IsBlock(s[m])
    BY <1>2
  <2>2. n \in 1..l /\ IsBlock(r[n]) /\ i = r[n].tx
    BY <2>1
  <2>3. ASSUME NEW m \in (n + 1)..l, IsBlock(r[m])
        PROVE  FALSE
    <3>1. m \in 1..l
      BY <2>2
    <3>2. m \in 1..k /\ IsBlock(s[m])
      BY <2>3, <3>1
    <3>3. QED
      BY <2>1, <3>2
  <2>4. QED
    BY <2>2, <2>3 DEF Innermost
<1>3. QED
  BY <1>1, <1>2 DEF Innermost

LEMMA QuietBlocks ==
    ASSUME Shape, NEW t \in Task, NEW len, NEW g, NEW f, Quiet(t, len, g, f)
    PROVE  \A u \in Task : SameBlocks(stack[u], stack'[u])
<1> DEFINE L == Len(stack[t])
<1>1. /\ L \in Nat /\ len \in Nat /\ len \in {L - 1, L, L + 1}
      /\ stack[t] = <<>> <=> L = 0
      /\ Top(t) = stack[t][L]
  BY StackFacts DEF Shape, Quiet, Step
<1>2. /\ \A u \in Task : u # t => stack'[u] = stack[u]
      /\ Len(stack'[t]) = len
      /\ \A n \in 1..len :
            stack'[t][n] = IF n < L THEN stack[t][n]
                           ELSE IF n = L THEN g ELSE f
  BY DEF Quiet, Step
<1>3. /\ L # 0 /\ len >= L => g.kind = Top(t).kind /\ g.tx = Top(t).tx
      /\ len < L => Top(t).kind # "with"
      /\ len > L => f.kind # "with"
  BY <1>1 DEF Quiet, Fit
<1> HIDE DEF L
<1>4. SameBlocks(stack[t], stack'[t])
  <2> SUFFICES ASSUME NEW n
               PROVE  /\ n \in 1..L /\ IsBlock(stack[t][n])
                            <=> n \in 1..len /\ IsBlock(stack'[t][n])
                      /\ n \in 1..L /\ IsBlock(stack[t][n])
                            => stack'[t][n].tx = stack[t][n].tx
    BY <1>2 DEF SameBlocks, L
  <2>1. CASE n \in 1..L /\ n < L
    BY <1>1, <1>2, <2>1
  <2>2. CASE n = L
    BY <1>1, <1>2, <1>3, <2>2 DEF IsBlock
  <2>3. CASE n \in 1..len /\ n > L
    <3>1. n = L + 1 /\ ~(n \in 1..L) /\ ~(n < L) /\ n # L /\ len > L
      BY <1>1, <2>3
    <3>2. stack'[t][n] = f
      BY <1>2, <2>3, <3>1
    <3>3. QED
      BY <1>3, <3>1, <3>2 DEF IsBlock
  <2>4. CASE n \notin 1..L /\ n \notin 1..len
    BY <2>4
  <2>5. QED
    BY <1>1, <2>1, <2>2, <2>3, <2>4
<1>5. QED
  BY <1>2, <1>4 DEF SameBlocks
\* active_transactions holds exactly the transactions of the open blocks.
Exact ==
    \A i : i \in active <=>
        \E t \in Task : \E n \in 1..Len(stack[t]) :
            IsBlock(stack[t][n]) /\ stack[t][n].tx = i

\* No transaction has two blocks.
Once ==
    \A t, u \in Task :
        \A n \in 1..Len(stack[t]) : \A m \in 1..Len(stack[u]) :
            /\ IsBlock(stack[t][n]) /\ IsBlock(stack[u][m])
            /\ stack[t][n].tx = stack[u][m].tx
            => t = u /\ n = m

\* Without an overlap one task at most has calls open.
Turns ==
    "overlap" \notin faults => \A t, u \in Task :
        stack[t] # <<>> /\ stack[u] # <<>> => t = u

\* ... and the current transaction is that of its innermost block, as the
\* previous transaction of each block is that of the block around it.
Chain ==
    "overlap" \notin faults =>
        /\ (\A t \in Task : stack[t] = <<>>) => current = 0
        /\ \A t \in Task : stack[t] # <<>> =>
              Innermost(stack[t], Len(stack[t]), current)
        /\ \A t \in Task : \A n \in 1..Len(stack[t]) :
              IsBlock(stack[t][n]) =>
                  Innermost(stack[t], n - 1, txs[stack[t][n].tx].previous)

Nested == current \in 0..Len(txs) /\ Exact /\ Once /\ Turns /\ Chain

\* A task that had no call open is the only one with any, or it overlaps.
LEMMA TurnsKept ==
    ASSUME Turns, NEW t \in Task, Stacked,
           \A u \in Task : u # t => stack'[u] = stack[u],
           faults \subseteq faults',
           stack[t] = <<>> => Overlap(t) \subseteq faults'
    PROVE  /\ Turns'
           /\ "overlap" \notin faults' =>
                \A u \in Task : u # t => stack[u] = <<>>
<1>1. ASSUME "overlap" \notin faults', NEW u \in Task, u # t
      PROVE  stack[u] = <<>>
  <2>1. CASE stack[t] = <<>>
    BY <1>1, <2>1 DEF Overlap
  <2>2. CASE stack[t] # <<>>
    BY <1>1, <2>2 DEF Turns
  <2>3. QED
    BY <2>1, <2>2
<1>2. QED
  BY <1>1 DEF Turns

LEMMA QuietNested ==
    ASSUME Shape, Nested, NEW t \in Task, NEW len, NEW g, NEW f,
           Quiet(t, len, g, f), faults \subseteq faults',
           stack[t] = <<>> => Overlap(t) \subseteq faults'
    PROVE  Nested'
<1>1. /\ \A u \in Task : SameBlocks(stack[u], stack'[u])
      /\ \A u \in Task : u # t => stack'[u] = stack[u]
      /\ TableKept /\ current' = current /\ active' = active
      /\ Stacked /\ Stacked'
  BY QuietBlocks DEF Quiet, Step, Shape
<1>2. \A u \in Task : /\ Len(stack[u]) \in Nat /\ Len(stack'[u]) \in Nat
                      /\ stack[u] = <<>> <=> Len(stack[u]) = 0
                      /\ stack'[u] = <<>> <=> Len(stack'[u]) = 0
  BY <1>1, LenProperties, EmptySeq DEF Stacked
<1>3. Exact'
  BY <1>1 DEF Exact, Nested, SameBlocks
<1>4. Once'
  <2> SUFFICES ASSUME NEW u \in Task, NEW v \in Task,
                      NEW n \in 1..Len(stack'[u]), NEW m \in 1..Len(stack'[v]),
                      IsBlock(stack'[u][n]), IsBlock(stack'[v][m]),
                      stack'[u][n].tx = stack'[v][m].tx
               PROVE  u = v /\ n = m
    BY DEF Once
  <2>1. /\ n \in 1..Len(stack[u]) /\ IsBlock(stack[u][n])
        /\ stack'[u][n].tx = stack[u][n].tx
    BY <1>1 DEF SameBlocks
  <2>2. /\ m \in 1..Len(stack[v]) /\ IsBlock(stack[v][m])
        /\ stack'[v][m].tx = stack[v][m].tx
    BY <1>1 DEF SameBlocks
  <2>3. stack[u][n].tx = stack[v][m].tx
    BY <2>1, <2>2
  <2>4. Once
    BY DEF Nested
  <2>5. QED
    BY <2>1, <2>2, <2>3, <2>4 DEF Once
<1>5. /\ Turns'
      /\ "overlap" \notin faults' =>
           \A u \in Task : u # t => stack[u] = <<>>
  BY <1>1, TurnsKept DEF Nested
<1>6. Chain'
  <2> SUFFICES ASSUME "overlap" \notin faults'
               PROVE  Chain'
    BY DEF Chain
  <2>1. /\ "overlap" \notin faults
        /\ \A u \in Task : u # t => stack[u] = <<>> /\ stack'[u] = <<>>
    BY <1>1, <1>5
  <2>2. Innermost(stack[t], Len(stack[t]), current)
    <3>1. CASE stack[t] # <<>>
      BY <2>1, <3>1 DEF Nested, Chain
    <3>2. CASE stack[t] = <<>>
      <4>1. current = 0 /\ Len(stack[t]) = 0
        BY <1>2, <2>1, <3>2 DEF Nested, Chain
      <4>2. QED
        BY <4>1 DEF Innermost
    <3>3. QED
      BY <3>1, <3>2
  <2>3. Innermost(stack'[t], Len(stack'[t]), current)
    <3>1. SameBlocks(stack[t], stack'[t])
      BY <1>1
    <3> DEFINE s == stack[t]
               r == stack'[t]
    <3>2. \A n : /\ n \in 1..Len(s) /\ IsBlock(s[n])
                       <=> n \in 1..Len(r) /\ IsBlock(r[n])
                 /\ n \in 1..Len(s) /\ IsBlock(s[n]) => r[n].tx = s[n].tx
      BY <3>1 DEF SameBlocks
    <3>3. Len(s) \in Nat /\ Len(r) \in Nat
      BY <1>2
    <3> HIDE DEF s, r
    <3>4. Innermost(s, Len(s), current) => Innermost(r, Len(r), current)
      BY <3>2, <3>3, SameInnermost
    <3>5. QED
      BY <2>2, <3>4 DEF s, r
  <2>4. (\A u \in Task : stack'[u] = <<>>) => current' = 0
    <3> SUFFICES ASSUME stack'[t] = <<>>
                 PROVE  current = 0
      BY <1>1
    <3>1. Len(stack'[t]) = 0
      BY <1>2
    <3>2. QED
      BY <2>3, <3>1 DEF Innermost
  <2>5. ASSUME NEW u \in Task, stack'[u] # <<>>
        PROVE  Innermost(stack'[u], Len(stack'[u]), current')
    BY <1>1, <2>1, <2>3, <2>5
  <2>6. ASSUME NEW u \in Task, NEW n \in 1..Len(stack'[u]),
               IsBlock(stack'[u][n])
        PROVE  Innermost(stack'[u], n - 1, txs'[stack'[u][n].tx].previous)
    <3> DEFINE s == stack[u]
               r == stack'[u]
               p == txs[s[n].tx].previous
    <3>1. /\ SameBlocks(s, r)
          /\ Len(s) \in Nat /\ Len(r) \in Nat
      BY <1>1, <1>2
    <3>2. n \in 1..Len(s) /\ IsBlock(s[n]) /\ r[n].tx = s[n].tx
      BY <2>6, <3>1 DEF SameBlocks
    <3>3. txs'[r[n].tx].previous = p
      <4>1. s[n].tx \in 1..Len(txs)
        BY <3>2 DEF Shape, Frames, FrameOK, IsBlock
      <4>2. QED
        BY <1>1, <3>2, <4>1 DEF TableKept
    <3>4. Innermost(s, n - 1, p)
      BY <2>1, <3>2 DEF Nested, Chain
    <3>5. n - 1 \in Nat
      BY <3>1, <3>2
    <3>6. \A m : /\ m \in 1..(n - 1) /\ IsBlock(s[m])
                       <=> m \in 1..(n - 1) /\ IsBlock(r[m])
                 /\ m \in 1..(n - 1) /\ IsBlock(s[m]) => r[m].tx = s[m].tx
      <4>1. \A m \in 1..(n - 1) : m \in 1..Len(s) /\ m \in 1..Len(r)
        <5> DEFINE a == Len(s)
                   b == Len(r)
        <5>1. a \in Nat /\ b \in Nat /\ n \in 1..a /\ n \in 1..b
          BY <3>1, <3>2, <2>6
        <5> HIDE DEF a, b
        <5>2. \A m \in 1..(n - 1) : m \in 1..a /\ m \in 1..b
          BY <5>1
        <5>3. QED
          BY <5>2 DEF a, b
      <4>2. QED
        BY <3>1, <4>1 DEF SameBlocks
    <3> HIDE DEF s, r, p
    <3>7. Innermost(r, n - 1, p)
      BY <3>4, <3>5, <3>6, SameInnermost
    <3>8. QED
      BY <3>3, <3>7 DEF r
  <2>7. QED
    BY <2>4, <2>5, <2>6 DEF Chain
<1>7. QED
  BY <1>1, <1>3, <1>4, <1>5, <1>6 DEF Nested, TableKept

(****************************************************************************)
(* Entering a block and leaving it.                                         *)
(****************************************************************************)

LEMMA EnterMoves ==
    ASSUME Shape, current \in 0..Len(txs), NEW t \in Task, Enter(t)
    PROVE  LET n == Len(txs) + 1
               f == NewFrame("with", "body", n)
           IN  /\ f.kind = "with" /\ f.tx = n /\ f.phase = "body"
               /\ n \in 1..MaxTx
               /\ stack[t] # <<>> => Top(t).kind = "with" /\ Top(t).phase = "body"
               /\ Step(t, Len(stack[t]) + 1, Top(t), f)
               /\ Fit(t, Len(stack[t]) + 1, Top(t), f)
               /\ Table' /\ Len(txs') = n
               /\ \A i \in 1..Len(txs) : txs'[i] = txs[i]
               /\ txs'[n].state = "active" /\ txs'[n].parent = current
               /\ txs'[n].previous = current /\ txs'[n].log = {}
               /\ current' = n /\ active' = active \cup {n}
<1> DEFINE k == Len(txs)
           n == k + 1
           f == NewFrame("with", "body", n)
           r == [state |-> "active", parent |-> current,
                 previous |-> current, log |-> {}, owner |-> t]
<1>1. /\ stack[t] = <<>> \/ On(t, "with", {"body"})
      /\ k < MaxTx
      /\ txs' = Append(txs, r)
      /\ active' = active \cup {n}
      /\ current' = n
      /\ stack' = [stack EXCEPT ![t] = Append(stack[t], f)]
  BY DEF Enter, InBody, ParentOf, Shape, Stacked
<1>2. stack[t] # <<>> => /\ Top(t).kind = "with" /\ Top(t).phase = "body"
                         /\ FrameOK(Top(t), txs)
  BY <1>1, TopFacts
<1>3. k \in Nat /\ MaxTx \in Nat
  BY TableFacts DEF Shape
<1>4. n \in 1..MaxTx /\ n \in 0..MaxTx /\ current \in 0..MaxTx /\ current < n
  <2> HIDE DEF k
  <2>1. current \in 0..k
    BY DEF k
  <2>2. QED
    BY <1>1, <1>3, <2>1
<1>5. /\ f \in Frame /\ f.kind = "with" /\ f.phase = "body" /\ f.tx = n
      /\ f.left = {}
  BY <1>4, NewFrameType
<1> HIDE DEF f
<1>6. r \in Transaction
  BY <1>4 DEF Transaction
<1>7. /\ r.state = "active" /\ r.parent = current /\ r.previous = current
      /\ r.log = {}
  OBVIOUS
<1> HIDE DEF r
<1>8. /\ txs' \in Seq(Transaction)
      /\ Len(txs') = n
      /\ \A i \in 1..k : txs'[i] = txs[i]
      /\ txs'[n] = r
  BY <1>1, <1>6, AppendProperties DEF Shape, Table
<1>9. Table'
  <2>1. \A i \in 1..k : txs[i].parent < i /\ txs[i].previous < i
    BY DEF Shape, Table
  <2> HIDE DEF k
  <2>2. \A i \in 1..n : txs'[i].parent < i /\ txs'[i].previous < i
    BY <1>3, <1>4, <1>7, <1>8, <2>1
  <2>3. Len(txs') <= MaxTx
    BY <1>4, <1>8
  <2>4. QED
    BY <1>8, <2>2, <2>3 DEF Table
<1>10. Step(t, Len(stack[t]) + 1, Top(t), f)
  BY <1>1, <1>5, Pushed DEF Shape
<1>11. Fit(t, Len(stack[t]) + 1, Top(t), f)
  <2>1. ASSUME NEW h, FrameOK(h, txs)
        PROVE  FrameOK(h, txs')
    <3>1. 1..k \subseteq 1..Len(txs')
      BY <1>3, <1>8
    <3>2. QED
      BY <1>8, <2>1, <3>1 DEF FrameOK
  <2>2. n \in 1..Len(txs')
    BY <1>3, <1>8
  <2>3. FrameOK(f, txs')
    BY <1>5, <2>2 DEF FrameOK
  <2>4. QED
    BY <1>2, <2>1, <2>3 DEF Fit
<1>12. QED
  BY <1>1, <1>2, <1>4, <1>5, <1>7, <1>8, <1>9, <1>10, <1>11 DEF f

LEMMA ExitMoves ==
    ASSUME Shape, NEW t \in Task, Leave(t)
    PROVE  /\ stack[t] # <<>> /\ Top(t).kind = "with"
           /\ Top(t).tx \in 1..Len(txs)
           /\ Step(t, Len(stack[t]) - 1, Top(t), Top(t))
           /\ Fit(t, Len(stack[t]) - 1, Top(t), Top(t))
           /\ txs' = txs
           /\ current' = txs[Top(t).tx].previous
           /\ active' = active \ {Top(t).tx}
           /\ successful' = successful
                + (IF txs[Top(t).tx].state = "committed" THEN 1 ELSE 0)
           /\ failed' = failed
                + (IF txs[Top(t).tx].state \in {"rolled_back", "failed"}
                   THEN 1 ELSE 0)
<1>1. /\ On(t, "with", {"exit", "raise", "body"})
      /\ stack' = [stack EXCEPT ![t] = Front(stack[t])]
      /\ txs' = txs
      /\ current' = txs[Top(t).tx].previous
      /\ active' = active \ {Top(t).tx}
      /\ successful' = successful
           + (IF txs[Top(t).tx].state = "committed" THEN 1 ELSE 0)
      /\ failed' = failed
           + (IF txs[Top(t).tx].state \in {"rolled_back", "failed"}
              THEN 1 ELSE 0)
  BY DEF Leave, On, Return, Previous, WithoutActive, Failure
<1>2. /\ stack[t] # <<>> /\ Top(t).kind = "with"
      /\ Top(t).tx \in 1..Len(txs)
      /\ Len(stack[t]) \in Nat
  BY <1>1, TopFacts
<1>3. Step(t, Len(stack[t]) - 1, Top(t), Top(t))
  BY <1>1, <1>2, Popped DEF Shape
<1>4. Fit(t, Len(stack[t]) - 1, Top(t), Top(t))
  BY <1>2 DEF Fit
<1>5. QED
  BY <1>1, <1>2, <1>3, <1>4

LEMMA EnterNested ==
    ASSUME Shape, Nested, NEW t \in Task, Enter(t), Seen(Overlap(t))
    PROVE  Nested'
<1> DEFINE L == Len(stack[t])
           k == Len(txs)
           n == k + 1
           f == NewFrame("with", "body", n)
<1>1. /\ f.kind = "with" /\ f.tx = n
      /\ Step(t, L + 1, Top(t), f)
      /\ Len(txs') = n
      /\ \A i \in 1..k : txs'[i] = txs[i]
      /\ txs'[n].previous = current
      /\ current' = n /\ active' = active \cup {n}
  BY EnterMoves DEF Nested
<1> HIDE DEF f
<1>2. /\ L \in Nat /\ k \in Nat
      /\ stack[t] = <<>> <=> L = 0
      /\ Top(t) = stack[t][L]
      /\ IsBlock(f)
  BY <1>1, StackFacts, TableFacts DEF Shape, IsBlock
<1>3. /\ \A u \in Task : u # t => stack'[u] = stack[u]
      /\ Len(stack'[t]) = L + 1
      /\ \A m \in 1..(L + 1) : stack'[t][m] =
            IF m < L THEN stack[t][m] ELSE IF m = L THEN Top(t) ELSE f
  BY <1>1 DEF Step
<1>4. \A u \in Task : \A m \in 1..Len(stack[u]) :
         IsBlock(stack[u][m]) => stack[u][m].tx \in 1..k
  BY DEF Shape, Frames, FrameOK, IsBlock
<1>5. \A m \in 1..L : stack'[t][m] = stack[t][m] /\ m \in 1..(L + 1)
  <2> HIDE DEF L
  <2>1. QED
    BY <1>2, <1>3
<1>6. L + 1 \in 1..(L + 1) /\ stack'[t][L + 1] = f
  <2> HIDE DEF L
  <2>1. QED
    BY <1>2, <1>3
<1>7. \A m \in 1..(L + 1) : m \in 1..L \/ m = L + 1
  <2> HIDE DEF L
  <2>1. QED
    BY <1>2
<1>8. n \notin 1..k /\ n \in 0..n
  <2> HIDE DEF k
  <2>1. QED
    BY <1>2
<1>9. Exact'
  <2> SUFFICES ASSUME NEW i
               PROVE  i \in active' <=>
                        \E u \in Task : \E m \in 1..Len(stack'[u]) :
                          IsBlock(stack'[u][m]) /\ stack'[u][m].tx = i
    BY DEF Exact
  <2>1. ASSUME NEW u \in Task, NEW m \in 1..Len(stack[u]),
               IsBlock(stack[u][m]), stack[u][m].tx = i
        PROVE  \E v \in Task : \E l \in 1..Len(stack'[v]) :
                  IsBlock(stack'[v][l]) /\ stack'[v][l].tx = i
    BY <1>3, <1>5, <2>1
  <2>2. i = n => \E v \in Task : \E l \in 1..Len(stack'[v]) :
                    IsBlock(stack'[v][l]) /\ stack'[v][l].tx = i
    BY <1>1, <1>2, <1>3, <1>6
  <2>3. ASSUME NEW u \in Task, NEW m \in 1..Len(stack'[u]),
               IsBlock(stack'[u][m]), stack'[u][m].tx = i
        PROVE  \/ i = n
               \/ \E v \in Task : \E l \in 1..Len(stack[v]) :
                    IsBlock(stack[v][l]) /\ stack[v][l].tx = i
    BY <1>1, <1>3, <1>5, <1>6, <1>7, <2>3
  <2>4. QED
    BY <1>1, <2>1, <2>2, <2>3 DEF Nested, Exact
<1>10. Once'
  <2> SUFFICES ASSUME NEW u \in Task, NEW v \in Task,
                      NEW a \in 1..Len(stack'[u]), NEW b \in 1..Len(stack'[v]),
                      IsBlock(stack'[u][a]), IsBlock(stack'[v][b]),
                      stack'[u][a].tx = stack'[v][b].tx
               PROVE  u = v /\ a = b
    BY DEF Once
  <2>1. \/ a \in 1..Len(stack[u]) /\ stack'[u][a] = stack[u][a]
        \/ u = t /\ a = L + 1 /\ stack'[u][a].tx = n
    BY <1>1, <1>3, <1>5, <1>6, <1>7
  <2>2. \/ b \in 1..Len(stack[v]) /\ stack'[v][b] = stack[v][b]
        \/ v = t /\ b = L + 1 /\ stack'[v][b].tx = n
    BY <1>1, <1>3, <1>5, <1>6, <1>7
  <2>3. CASE a \in 1..Len(stack[u]) /\ stack'[u][a] = stack[u][a]
    <3>1. stack'[u][a].tx \in 1..k
      BY <1>4, <2>3
    <3>2. b \in 1..Len(stack[v]) /\ stack'[v][b] = stack[v][b]
      BY <1>8, <2>2, <3>1
    <3>3. IsBlock(stack[u][a]) /\ IsBlock(stack[v][b])
      BY <2>3, <3>2
    <3>4. QED
      BY <2>3, <3>2, <3>3 DEF Nested, Once
  <2>4. CASE u = t /\ a = L + 1 /\ stack'[u][a].tx = n
    <3>1. ~(b \in 1..Len(stack[v]) /\ stack'[v][b] = stack[v][b])
      <4> SUFFICES ASSUME b \in 1..Len(stack[v]), stack'[v][b] = stack[v][b]
                   PROVE  FALSE
        OBVIOUS
      <4>1. stack'[v][b].tx \in 1..k
        BY <1>4
      <4>2. QED
        BY <1>8, <2>4, <4>1
    <3>2. QED
      BY <2>2, <2>4, <3>1
  <2>5. QED
    BY <2>1, <2>3, <2>4
<1>11. /\ Turns'
       /\ "overlap" \notin faults' =>
            \A u \in Task : u # t => stack[u] = <<>>
  <2>1. faults \subseteq faults' /\ Overlap(t) \subseteq faults'
    BY DEF Seen
  <2>2. QED
    BY <1>3, <2>1, TurnsKept DEF Nested, Shape
<1>12. Chain'
  <2> SUFFICES ASSUME "overlap" \notin faults'
               PROVE  Chain'
    BY DEF Chain
  <2>1. /\ "overlap" \notin faults
        /\ \A u \in Task : u # t => stack[u] = <<>> /\ stack'[u] = <<>>
    BY <1>3, <1>11 DEF Seen
  <2>2. Innermost(stack[t], L, current)
    <3>1. CASE stack[t] # <<>>
      BY <2>1, <3>1 DEF Nested, Chain
    <3>2. CASE stack[t] = <<>>
      <4>1. current = 0 /\ L = 0
        BY <1>2, <2>1, <3>2 DEF Nested, Chain
      <4>2. QED
        BY <4>1 DEF Innermost
    <3>3. QED
      BY <3>1, <3>2
  <2>3. ASSUME NEW m \in Nat, m <= L, NEW i, Innermost(stack[t], m, i)
        PROVE  Innermost(stack'[t], m, i)
    <3>1. 1..m \subseteq 1..L
      BY <1>2, <2>3
    <3>2. \A x \in 1..m : stack'[t][x] = stack[t][x]
      BY <1>5, <3>1
    <3> DEFINE s == stack[t]
               r == stack'[t]
    <3>3. \A x : /\ x \in 1..m /\ IsBlock(s[x]) <=> x \in 1..m /\ IsBlock(r[x])
                 /\ x \in 1..m /\ IsBlock(s[x]) => r[x].tx = s[x].tx
      BY <3>2
    <3>4. Innermost(s, m, i)
      BY <2>3
    <3> HIDE DEF s, r
    <3>5. Innermost(r, m, i)
      BY <2>3, <3>3, <3>4, SameInnermost
    <3>6. QED
      BY <3>5 DEF r
  <2>4. Innermost(stack'[t], L + 1, n)
    <3>1. \A m \in ((L + 1) + 1)..(L + 1) : FALSE
      BY <1>2
    <3>2. QED
      BY <1>1, <1>2, <1>6, <3>1 DEF Innermost
  <2>5. stack'[t] # <<>>
    BY <1>6, <1>2, <1>3
  <2>6. ASSUME NEW u \in Task, stack'[u] # <<>>
        PROVE  Innermost(stack'[u], Len(stack'[u]), current')
    BY <1>1, <1>3, <2>1, <2>4, <2>6
  <2>7. ASSUME NEW u \in Task, NEW m \in 1..Len(stack'[u]),
               IsBlock(stack'[u][m])
        PROVE  Innermost(stack'[u], m - 1, txs'[stack'[u][m].tx].previous)
    <3>1. u = t /\ m \in 1..(L + 1)
      <4>1. Len(<<>>) = 0
        OBVIOUS
      <4>2. u = t
        BY <2>1, <2>7, <4>1
      <4>3. QED
        BY <1>3, <4>2
    <3>2. CASE m \in 1..L
      <4>1. stack'[t][m] = stack[t][m] /\ m \in 1..Len(stack[t])
        BY <1>5, <3>2
      <4>2. IsBlock(stack[t][m])
        BY <2>7, <3>1, <4>1
      <4>3. txs'[stack'[u][m].tx].previous = txs[stack[t][m].tx].previous
        BY <1>1, <1>4, <3>1, <4>1, <4>2
      <4>4. Innermost(stack[t], m - 1, txs[stack[t][m].tx].previous)
        BY <2>1, <4>1, <4>2 DEF Nested, Chain
      <4>5. m - 1 \in Nat /\ m - 1 <= L
        BY <1>2, <3>2
      <4>6. Innermost(stack'[t], m - 1, txs[stack[t][m].tx].previous)
        BY <2>3, <4>4, <4>5
      <4>7. QED
        BY <3>1, <4>3, <4>6
    <3>3. CASE m = L + 1
      <4>1. m - 1 = L
        BY <1>2, <3>3
      <4>2. txs'[stack'[u][m].tx].previous = current
        BY <1>1, <1>6, <3>1, <3>3
      <4>3. Innermost(stack'[t], L, current)
        BY <1>2, <2>2, <2>3
      <4>4. QED
        BY <3>1, <4>1, <4>2, <4>3
    <3>4. QED
      BY <1>7, <3>1, <3>2, <3>3
  <2>8. QED
    BY <2>5, <2>6, <2>7 DEF Chain
<1>13. QED
  BY <1>1, <1>8, <1>9, <1>10, <1>11, <1>12 DEF Nested
LEMMA ExitNested ==
    ASSUME Shape, Nested, NEW t \in Task, Leave(t), faults \subseteq faults'
    PROVE  Nested'
<1> DEFINE L == Len(stack[t])
           k == Len(txs)
           i == Top(t).tx
<1>1. /\ stack[t] # <<>> /\ Top(t).kind = "with" /\ i \in 1..k
      /\ Step(t, L - 1, Top(t), Top(t))
      /\ txs' = txs
      /\ current' = txs[i].previous
      /\ active' = active \ {i}
  BY ExitMoves
<1>2. /\ L \in Nat \ {0} /\ k \in Nat
      /\ Top(t) = stack[t][L]
      /\ IsBlock(stack[t][L])
  BY <1>1, StackFacts, TableFacts DEF Shape, IsBlock
<1>3. /\ \A u \in Task : u # t => stack'[u] = stack[u]
      /\ Len(stack'[t]) = L - 1
      /\ \A m \in 1..(L - 1) : stack'[t][m] =
            IF m < L THEN stack[t][m] ELSE IF m = L THEN Top(t) ELSE Top(t)
      /\ Stacked'
  BY <1>1 DEF Step
<1>4. /\ \A m \in 1..(L - 1) : stack'[t][m] = stack[t][m] /\ m \in 1..L /\ m # L
      /\ \A m \in 1..L : m \in 1..(L - 1) \/ m = L
      /\ L \in 1..L
  <2> HIDE DEF L
  <2>1. QED
    BY <1>2, <1>3
<1>5. current' \in 0..k
  <2>1. txs[i].previous \in 0..MaxTx /\ txs[i].previous < i
    BY <1>1, TableFacts DEF Shape, Table, Transaction
  <2>2. MaxTx \in Nat
    BY TableFacts DEF Shape
  <2> HIDE DEF k
  <2>3. QED
    BY <1>1, <1>2, <2>1, <2>2
<1>6. Exact'
  <2> SUFFICES ASSUME NEW j
               PROVE  j \in active' <=>
                        \E u \in Task : \E m \in 1..Len(stack'[u]) :
                          IsBlock(stack'[u][m]) /\ stack'[u][m].tx = j
    BY DEF Exact
  <2>1. ASSUME NEW u \in Task, NEW m \in 1..Len(stack[u]),
               IsBlock(stack[u][m]), stack[u][m].tx = j, j # i
        PROVE  \E v \in Task : \E l \in 1..Len(stack'[v]) :
                  IsBlock(stack'[v][l]) /\ stack'[v][l].tx = j
    <3>1. CASE u = t
      <4>1. m \in 1..(L - 1)
        BY <1>2, <1>4, <2>1, <3>1
      <4>2. QED
        BY <1>3, <1>4, <2>1, <3>1, <4>1
    <3>2. CASE u # t
      BY <1>3, <2>1, <3>2
    <3>3. QED
      BY <3>1, <3>2
  <2>2. ASSUME NEW u \in Task, NEW m \in 1..Len(stack'[u]),
               IsBlock(stack'[u][m]), stack'[u][m].tx = j
        PROVE  /\ j # i
               /\ \E v \in Task : \E l \in 1..Len(stack[v]) :
                    IsBlock(stack[v][l]) /\ stack[v][l].tx = j
    <3>1. /\ m \in 1..Len(stack[u]) /\ stack'[u][m] = stack[u][m]
          /\ ~(u = t /\ m = L)
      BY <1>3, <1>4
    <3>2. j # i
      <4> SUFFICES ASSUME j = i
                   PROVE  FALSE
        OBVIOUS
      <4>1. /\ m \in 1..Len(stack[u]) /\ L \in 1..Len(stack[t])
            /\ IsBlock(stack[u][m]) /\ IsBlock(stack[t][L])
            /\ stack[u][m].tx = stack[t][L].tx
        BY <1>2, <1>4, <2>2, <3>1
      <4>2. u = t /\ m = L
        BY <4>1 DEF Nested, Once
      <4>3. QED
        BY <3>1, <4>2
    <3>3. QED
      BY <2>2, <3>1, <3>2
  <2>3. QED
    BY <1>1, <2>1, <2>2 DEF Nested, Exact
<1>7. Once'
  <2> SUFFICES ASSUME NEW u \in Task, NEW v \in Task,
                      NEW a \in 1..Len(stack'[u]), NEW b \in 1..Len(stack'[v]),
                      IsBlock(stack'[u][a]), IsBlock(stack'[v][b]),
                      stack'[u][a].tx = stack'[v][b].tx
               PROVE  u = v /\ a = b
    BY DEF Once
  <2>1. a \in 1..Len(stack[u]) /\ stack'[u][a] = stack[u][a]
    BY <1>3, <1>4
  <2>2. b \in 1..Len(stack[v]) /\ stack'[v][b] = stack[v][b]
    BY <1>3, <1>4
  <2>3. QED
    BY <2>1, <2>2 DEF Nested, Once
<1>8. /\ Turns'
      /\ "overlap" \notin faults' =>
           \A u \in Task : u # t => stack[u] = <<>>
  BY <1>1, <1>3, TurnsKept DEF Nested, Shape
<1>9. Chain'
  <2> SUFFICES ASSUME "overlap" \notin faults'
               PROVE  Chain'
    BY DEF Chain
  <2>1. /\ "overlap" \notin faults
        /\ \A u \in Task : u # t => stack[u] = <<>> /\ stack'[u] = <<>>
    BY <1>3, <1>8
  <2>2. ASSUME NEW m \in Nat, m <= L - 1, NEW p, Innermost(stack[t], m, p)
        PROVE  Innermost(stack'[t], m, p)
    <3>1. 1..m \subseteq 1..(L - 1)
      BY <1>2, <2>2
    <3>2. \A x \in 1..m : stack'[t][x] = stack[t][x]
      BY <1>4, <3>1
    <3> DEFINE s == stack[t]
               r == stack'[t]
    <3>3. \A x : /\ x \in 1..m /\ IsBlock(s[x]) <=> x \in 1..m /\ IsBlock(r[x])
                 /\ x \in 1..m /\ IsBlock(s[x]) => r[x].tx = s[x].tx
      BY <3>2
    <3>4. Innermost(s, m, p)
      BY <2>2
    <3> HIDE DEF s, r
    <3>5. Innermost(r, m, p)
      BY <2>2, <3>3, <3>4, SameInnermost
    <3>6. QED
      BY <3>5 DEF r
  <2>3. Innermost(stack'[t], L - 1, current')
    <3>1. Innermost(stack[t], L - 1, txs[stack[t][L].tx].previous)
      BY <1>2, <1>4, <2>1 DEF Nested, Chain
    <3>2. L - 1 \in Nat /\ L - 1 <= L - 1
      BY <1>2
    <3>3. QED
      BY <1>1, <1>2, <2>2, <3>1, <3>2
  <2>4. (\A u \in Task : stack'[u] = <<>>) => current' = 0
    <3> SUFFICES ASSUME stack'[t] = <<>>
                 PROVE  current' = 0
      OBVIOUS
    <3>1. L - 1 = 0
      BY <1>3
    <3>2. Innermost(stack'[t], 0, current')
      BY <2>3, <3>1
    <3>3. QED
      BY <3>2 DEF Innermost
  <2>5. ASSUME NEW u \in Task, stack'[u] # <<>>
        PROVE  Innermost(stack'[u], Len(stack'[u]), current')
    BY <1>3, <2>1, <2>3, <2>5
  <2>6. ASSUME NEW u \in Task, NEW m \in 1..Len(stack'[u]),
               IsBlock(stack'[u][m])
        PROVE  Innermost(stack'[u], m - 1, txs'[stack'[u][m].tx].previous)
    <3>1. u = t /\ m \in 1..(L - 1)
      <4>1. Len(<<>>) = 0
        OBVIOUS
      <4>2. u = t
        BY <2>1, <2>6, <4>1
      <4>3. QED
        BY <1>3, <4>2
    <3>2. stack'[t][m] = stack[t][m] /\ m \in 1..L
      BY <1>4, <3>1
    <3>3. Innermost(stack[t], m - 1, txs[stack[t][m].tx].previous)
      BY <2>1, <2>6, <3>1, <3>2 DEF Nested, Chain
    <3>4. m - 1 \in Nat /\ m - 1 <= L - 1
      BY <1>2, <3>1
    <3>5. Innermost(stack'[t], m - 1, txs[stack[t][m].tx].previous)
      BY <2>2, <3>3, <3>4
    <3>6. QED
      BY <1>1, <3>1, <3>2, <3>5
  <2>7. QED
    BY <2>4, <2>5, <2>6 DEF Chain
<1>10. QED
  BY <1>1, <1>5, <1>6, <1>7, <1>8, <1>9 DEF Nested

(****************************************************************************)
(* Every step.                                                              *)
(****************************************************************************)

Histories ==
    /\ successful \in Nat
    /\ failed \in Nat
    /\ made \in Seq(Tx)
    /\ standing \subseteq Op
    /\ tried \subseteq Op
    /\ faults \subseteq Fault

\* The inductive invariant for the types and for the nesting of the blocks.
Base == Shape /\ Control /\ Nested /\ Histories

\* The steps in a block or a call that neither open a block nor close one.
Calls(t) ==
    \/ LeaveAsIs(t)
    \/ Operate(t)
    \/ CommitByHand(t)
    \/ RollbackByHand(t)
    \/ LeaveCommitting(t)
    \/ LeaveRaising(t)
    \/ RollbackFails(t)
    \/ ChildrenChanged(t)
    \/ CommitReturns(t)
    \/ NextChild(t)
    \/ OwnOperations(t)
    \/ RollbackReturns(t)
    \/ NextOfAll(t)
    \/ EndOfAll(t)
    \/ Catch(t)
    \/ Propagate(t)
    \/ Unwind(t)
    \/ Cancelled(t)

LEMMA ActiveIndex ==
    ASSUME Shape, Exact
    PROVE  active \subseteq 1..Len(txs)
BY DEF Exact, Shape, Frames, FrameOK, IsBlock

LEMMA AllIsQuiet ==
    ASSUME Base, NEW t \in Task, RollbackAll(t)
    PROVE  \E len, g, f : Quiet(t, len, g, f)
<1>1. Shape /\ active \subseteq 1..Len(txs)
  BY ActiveIndex DEF Base, Nested
<1>2. \E f : Quiet(t, Len(stack[t]) + 1, Top(t), f)
  BY <1>1, AllMoves
<1>3. QED
  BY <1>2

LEMMA CallsAreQuiet ==
    ASSUME Base, NEW t \in Task, Calls(t)
    PROVE  /\ \E len, g, f : Quiet(t, len, g, f)
           /\ stack[t] # <<>>
<1>1. Shape /\ made \in Seq(Tx)
  BY DEF Base, Histories
<1>2. CASE LeaveAsIs(t)
  <2>1. \E g : stack[t] # <<>> /\ Quiet(t, Len(stack[t]), g, g)
    BY <1>1, <1>2, LeaveMoves
  <2>2. QED
    BY <2>1
<1>3. CASE Operate(t)
  <2>1. stack[t] # <<>> /\ Quiet(t, Len(stack[t]), Top(t), Top(t))
    BY <1>1, <1>3, OperateMoves
  <2>2. QED
    BY <2>1
<1>4. CASE CommitByHand(t) \/ LeaveCommitting(t)
  <2>1. /\ stack[t] # <<>>
        /\ \E g : \/ Quiet(t, Len(stack[t]), g, g)
                  \/ \E f : Quiet(t, Len(stack[t]) + 1, g, f)
    BY <1>1, <1>4, CommitMoves
  <2>2. QED
    BY <2>1
<1>5. CASE RollbackByHand(t) \/ LeaveRaising(t) \/ Propagate(t)
  <2>1. RollbackByHand(t) \/ (On(t, "with", {"body"}) /\ LeaveWithError(t))
    BY <1>5 DEF LeaveRaising, InBlock, Propagate
  <2>2. /\ stack[t] # <<>>
        /\ \E g : \/ \E f : Quiet(t, Len(stack[t]) + 1, g, f)
                  \/ Quiet(t, Len(stack[t]), g, g)
    BY <1>1, <2>1, RollbackMoves
  <2>3. QED
    BY <2>2
<1>6. CASE NextChild(t) \/ NextOfAll(t)
  <2>1. /\ stack[t] # <<>>
        /\ \E g : \/ \E f : Quiet(t, Len(stack[t]) + 1, g, f)
                  \/ Quiet(t, Len(stack[t]), g, g)
    BY <1>1, <1>6, NextMoves
  <2>2. QED
    BY <2>1
<1>7. CASE CommitReturns(t)
  <2>1. stack[t] # <<>>
    BY <1>7 DEF CommitReturns, On
  <2>2. Quiet(t, Len(stack[t]) - 1, Top(t), Top(t))
    BY <1>1, <1>7, CommitEnds
  <2>3. QED
    BY <2>1, <2>2
<1>8. CASE OwnOperations(t) /\ Todo(Top(t).tx) # {}
  <2>1. \E g : stack[t] # <<>> /\ Quiet(t, Len(stack[t]), g, g)
    BY <1>1, <1>8, UndoMoves
  <2>2. QED
    BY <2>1
<1>9. CASE \/ ChildrenChanged(t)
           \/ OwnOperations(t) /\ Todo(Top(t).tx) = {}
           \/ RollbackReturns(t)
           \/ RollbackFails(t)
           \/ Unwind(t) /\ raised[t] = "error" /\ Top(t).kind = "rollback"
  <2>1. stack[t] # <<>> /\ Quiet(t, Len(stack[t]) - 1, Top(t), Top(t))
    BY <1>1, <1>9, RollbackEnds
  <2>2. QED
    BY <2>1
<1>10. CASE \/ EndOfAll(t)
            \/ Unwind(t) /\ ~(raised[t] = "error" /\ Top(t).kind = "rollback")
  <2>1. stack[t] # <<>> /\ Quiet(t, Len(stack[t]) - 1, Top(t), Top(t))
    BY <1>1, <1>10, PassMoves
  <2>2. QED
    BY <2>1
<1>11. CASE Catch(t) \/ Cancelled(t)
  <2>1. stack[t] # <<>> /\ Quiet(t, Len(stack[t]), Top(t), Top(t))
    BY <1>1, <1>11, StandMoves
  <2>2. QED
    BY <2>1
<1>12. QED
  BY <1>2, <1>3, <1>4, <1>5, <1>6, <1>7, <1>8, <1>9, <1>10, <1>11
     DEF Calls

\* What a step is, and what it adds to the history of faults.
LEMMA StepKinds ==
    ASSUME NEW t \in Task,
           Act(t) \/ Continue(t) \/ (Cancelled(t) /\ Seen({"cancellation"}))
    PROVE  /\ \/ Enter(t) /\ Seen(Overlap(t))
              \/ RollbackAll(t) /\ Seen(Overlap(t))
              \/ Leave(t)
              \/ Calls(t)
           /\ \E what \in SUBSET Fault : Seen(what)
           /\ faults \subseteq faults'
<1>1. \E what \in SUBSET Fault : Seen(what)
  BY DEF Act, Continue, Overlap, Uncommitted, Fault
<1>2. faults \subseteq faults'
  BY <1>1 DEF Seen
<1>3. \/ Enter(t) /\ Seen(Overlap(t))
      \/ RollbackAll(t) /\ Seen(Overlap(t))
      \/ Leave(t)
      \/ Calls(t)
  BY DEF Act, Continue, Calls
<1>4. QED
  BY <1>1, <1>2, <1>3
LEMMA EveryFlow ==
    ASSUME Base, NEW t \in Task,
           Act(t) \/ Continue(t) \/ (Cancelled(t) /\ Seen({"cancellation"}))
    PROVE  \E x : Flow(t, x)
<1>1. Shape /\ Control /\ active \subseteq 1..Len(txs)
  BY ActiveIndex DEF Base, Nested
<1>2. Len(stack[t]) \in Nat /\ (stack[t] = <<>> <=> Len(stack[t]) = 0)
  BY <1>1, StackFacts DEF Shape
<1>3. faults \subseteq faults'
  BY StepKinds
<1>4. CASE Enter(t) \/ Operate(t)
  BY <1>1, <1>4, EnterFlow
<1>5. CASE CommitByHand(t) \/ LeaveCommitting(t) \/ CommitReturns(t)
  BY <1>1, <1>5, CommitFlow
<1>6. CASE LeaveAsIs(t) \/ LeaveRaising(t) \/ Propagate(t) \/ Catch(t)
             \/ EndOfAll(t)
  <2>1. \/ LeaveAsIs(t)
        \/ running \in {Nobody, t} /\ LeaveWithError(t)
        \/ Catch(t)
        \/ EndOfAll(t)
    BY <1>6 DEF LeaveRaising, InBlock, Propagate
  <2>2. QED
    BY <1>1, <2>1, LeaveFlow
<1>7. CASE Leave(t) \/ Unwind(t) \/ ChildrenChanged(t) \/ RollbackReturns(t)
             \/ RollbackFails(t)
  BY <1>1, <1>3, <1>7, PopFlow
<1>8. CASE OwnOperations(t)
  BY <1>1, <1>8, UndoFlow
<1>9. CASE Cancelled(t) /\ Seen({"cancellation"})
  BY <1>1, <1>9, CancelFlow
<1>10. CASE RollbackByHand(t)
  <2>1. \E len, g, f : Step(t, len, g, f) /\ len # 0
    <3>1. /\ stack[t] # <<>>
          /\ \E g : \/ \E f : Quiet(t, Len(stack[t]) + 1, g, f)
                    \/ Quiet(t, Len(stack[t]), g, g)
      BY <1>1, <1>10, RollbackMoves
    <3>2. QED
      BY <1>2, <3>1 DEF Quiet
  <2>2. QED
    BY <1>1, <1>10, <2>1, BeginFlow
<1>11. CASE NextChild(t) \/ NextOfAll(t)
  <2>1. \E len, g, f : Step(t, len, g, f) /\ len # 0
    <3>1. /\ stack[t] # <<>>
          /\ \E g : \/ \E f : Quiet(t, Len(stack[t]) + 1, g, f)
                    \/ Quiet(t, Len(stack[t]), g, g)
      BY <1>1, <1>11, NextMoves
    <3>2. QED
      BY <1>2, <3>1 DEF Quiet
  <2>2. QED
    BY <1>1, <1>11, <2>1, BeginFlow
<1>12. CASE RollbackAll(t)
  <2>1. \E len, g, f : Step(t, len, g, f) /\ len # 0
    <3>1. \E f : Quiet(t, Len(stack[t]) + 1, Top(t), f)
      BY <1>1, <1>12, AllMoves
    <3>2. QED
      BY <1>2, <3>1 DEF Quiet
  <2>2. QED
    BY <1>1, <1>12, <2>1, BeginFlow
<1>13. QED
  BY <1>4, <1>5, <1>6, <1>7, <1>8, <1>9, <1>10, <1>11, <1>12
     DEF Act, Continue

LEMMA HistoriesKept ==
    ASSUME Base, NEW t \in Task,
           Act(t) \/ Continue(t) \/ (Cancelled(t) /\ Seen({"cancellation"}))
    PROVE  Histories'
<1>1. Shape /\ Histories
  BY DEF Base
<1>2. faults' \subseteq Fault
  BY <1>1, StepKinds DEF Seen, Histories
<1>3. CASE Operate(t)
  <2>1. /\ Len(made) + 1 \in Op /\ Top(t).tx \in Tx
        /\ made' = Append(made, Top(t).tx)
        /\ standing' = standing \cup {Len(made')}
        /\ UNCHANGED <<successful, failed, tried>>
    BY <1>1, <1>3, OperateMoves, TableFacts DEF Operate, Histories, Shape
  <2>2. made' \in Seq(Tx) /\ Len(made') = Len(made) + 1
    BY <1>1, <2>1, AppendProperties DEF Histories
  <2>3. QED
    BY <1>1, <1>2, <2>1, <2>2 DEF Histories
<1>4. CASE RollbackReturns(t) \/ RollbackFails(t)
  <2>1. Top(t) \in Frame
    <3>1. On(t, "rollback", {"await"})
      BY <1>4 DEF RollbackReturns, RollbackFails
    <3>2. QED
      BY <1>1, <3>1, TopFacts
  <2>2. /\ tried' = tried \cup Top(t).ops
        /\ \E o : standing' = standing \ o
        /\ UNCHANGED <<successful, failed, made>>
    BY <1>4 DEF RollbackReturns, RollbackFails
  <2>3. QED
    BY <1>1, <1>2, <2>1, <2>2 DEF Histories, Frame
<1>5. CASE Leave(t)
  <2>1. /\ successful' = successful
             + (IF txs[Top(t).tx].state = "committed" THEN 1 ELSE 0)
        /\ failed' = failed
             + (IF txs[Top(t).tx].state \in {"rolled_back", "failed"}
                THEN 1 ELSE 0)
        /\ UNCHANGED <<made, standing, tried>>
    BY <1>1, <1>5, ExitMoves DEF Leave
  <2>2. QED
    BY <1>1, <1>2, <2>1 DEF Histories
<1>6. CASE /\ UNCHANGED <<successful, failed, made, tried>>
           /\ standing' \subseteq standing
  BY <1>1, <1>2, <1>6 DEF Histories
<1>7. ASSUME ~Operate(t), ~RollbackReturns(t), ~RollbackFails(t), ~Leave(t)
      PROVE  /\ UNCHANGED <<successful, failed, made, tried>>
             /\ standing' \subseteq standing
  <2>1. CASE Enter(t) \/ RollbackAll(t) \/ LeaveAsIs(t) \/ CommitByHand(t)
    BY <2>1 DEF Enter, RollbackAll, LeaveAsIs, CommitByHand
  <2>2. CASE RollbackByHand(t) \/ LeaveCommitting(t) \/ LeaveRaising(t)
               \/ ChildrenChanged(t) \/ CommitReturns(t)
    BY <2>2 DEF RollbackByHand, LeaveCommitting, LeaveRaising, LeaveWithError,
                ChildrenChanged, CommitReturns
  <2>3. CASE NextChild(t) \/ OwnOperations(t) \/ NextOfAll(t) \/ EndOfAll(t)
    BY <2>3 DEF NextChild, OwnOperations, NextOfAll, EndOfAll
  <2>4. CASE Catch(t) \/ Propagate(t) \/ Unwind(t) \/ Cancelled(t)
    BY <2>4 DEF Catch, Propagate, LeaveWithError, Unwind, Cancelled
  <2>5. QED
    BY <1>7, <2>1, <2>2, <2>3, <2>4 DEF Act, Continue
<1>8. QED
  BY <1>3, <1>4, <1>5, <1>6, <1>7

LEMMA BaseKept ==
    ASSUME Base, NEW t \in Task,
           Act(t) \/ Continue(t) \/ (Cancelled(t) /\ Seen({"cancellation"}))
    PROVE  Base'
<1>1. Shape /\ Control /\ Nested
  BY DEF Base
<1>2. Histories' /\ faults \subseteq faults'
  BY HistoriesKept, StepKinds
<1>3. \E x : Flow(t, x)
  BY EveryFlow
<1>4. /\ Shape' /\ Nested'
      /\ \A u \in Task : u # t => stack'[u] = stack[u]
  <2>1. ASSUME NEW len, NEW g, NEW f, Quiet(t, len, g, f)
        PROVE  /\ Shape'
               /\ \A u \in Task : u # t => stack'[u] = stack[u]
    <3>1. /\ Step(t, len, g, f) /\ Fit(t, len, g, f)
          /\ TableKept /\ Table' /\ Len(txs) <= Len(txs')
          /\ \A i \in 1..Len(txs) : txs'[i].parent = txs[i].parent
      BY <1>1, <2>1, TableStays, TableFacts DEF Quiet, TableKept, Shape
    <3>2. QED
      BY <1>1, <3>1, ShapeKept DEF Step
  <2>2. CASE Calls(t)
    <3>1. PICK len, g, f : Quiet(t, len, g, f) /\ stack[t] # <<>>
      BY <2>2, CallsAreQuiet
    <3>2. Nested'
      BY <1>1, <1>2, <3>1, QuietNested
    <3>3. QED
      BY <2>1, <3>1, <3>2
  <2>3. CASE RollbackAll(t) /\ Seen(Overlap(t))
    <3>1. PICK len, g, f : Quiet(t, len, g, f)
      BY <2>3, AllIsQuiet
    <3>2. Overlap(t) \subseteq faults'
      BY <2>3 DEF Seen
    <3>3. Nested'
      BY <1>1, <1>2, <3>1, <3>2, QuietNested
    <3>4. QED
      BY <2>1, <3>1, <3>3
  <2>4. CASE Enter(t) /\ Seen(Overlap(t))
    <3>1. \E f : /\ Step(t, Len(stack[t]) + 1, Top(t), f)
                 /\ Fit(t, Len(stack[t]) + 1, Top(t), f)
                 /\ Table' /\ Len(txs') = Len(txs) + 1
                 /\ \A i \in 1..Len(txs) : txs'[i] = txs[i]
      BY <1>1, <2>4, EnterMoves DEF Nested
    <3>2. Len(txs) <= Len(txs')
      BY <1>1, <3>1, TableFacts DEF Shape
    <3>3. Shape' /\ \A u \in Task : u # t => stack'[u] = stack[u]
      BY <1>1, <3>1, <3>2, ShapeKept DEF Step
    <3>4. QED
      BY <1>1, <2>4, <3>3, EnterNested
  <2>5. CASE Leave(t)
    <3>1. /\ Step(t, Len(stack[t]) - 1, Top(t), Top(t))
          /\ Fit(t, Len(stack[t]) - 1, Top(t), Top(t))
          /\ txs' = txs
      BY <1>1, <2>5, ExitMoves
    <3>2. Table' /\ Len(txs) <= Len(txs')
      BY <1>1, <3>1, TableFacts DEF Shape, Table
    <3>3. Shape' /\ \A u \in Task : u # t => stack'[u] = stack[u]
      BY <1>1, <3>1, <3>2, ShapeKept DEF Step
    <3>4. QED
      BY <1>1, <1>2, <2>5, <3>3, ExitNested
  <2>6. QED
    BY <2>2, <2>3, <2>4, <2>5, StepKinds
<1>5. Control'
  BY <1>1, <1>2, <1>3, <1>4, ControlKept
<1>6. QED
  BY <1>2, <1>4, <1>5 DEF Base

LEMMA InitBase ==
    ASSUME Init
    PROVE  Base
<1>1. \A t \in Task : stack[t] = <<>> /\ Len(stack[t]) = 0
  BY DEF Init
<1>2. Shape
  <2>1. Stacked
    BY DEF Init, Stacked
  <2>2. Table
    BY ConstantsAssumption DEF Init, Table
  <2>3. QED
    BY <1>1, <2>1, <2>2 DEF Shape, Frames, Order
<1>3. Control
  BY DEF Init, Control
<1>4. Nested
  BY <1>1 DEF Init, Nested, Exact, Once, Turns, Chain
<1>5. Histories
  BY DEF Init, Histories
<1>6. QED
  BY <1>2, <1>3, <1>4, <1>5 DEF Base

LEMMA StutterBase ==
    ASSUME Base, UNCHANGED vars
    PROVE  Base'
<1>1. Shape'
  BY DEF Base, vars, Shape, Stacked, Table, Frames, Order
<1>2. Control'
  BY DEF Base, vars, Control, Top
<1>3. Nested'
  BY DEF Base, vars, Nested, Exact, Once, Turns, Chain
<1>4. Histories'
  BY DEF Base, vars, Histories
<1>5. QED
  BY <1>1, <1>2, <1>3, <1>4 DEF Base

LEMMA BaseAlways == Spec => []Base
<1>1. Base /\ [Next]_vars => Base'
  <2>1. ASSUME Base, Next
        PROVE  Base'
    BY <2>1, BaseKept DEF Next
  <2>2. QED
    BY <2>1, StutterBase
<1>2. QED
  BY <1>1, InitBase, PTL DEF Spec

LEMMA BaseTypes ==
    ASSUME Base
    PROVE  TypeOK
<1>1. /\ txs \in Seq(Transaction) /\ current \in 0..MaxTx /\ active \subseteq Tx
  BY TableFacts, ActiveIndex DEF Base, Shape, Table, Nested
<1>2. QED
  BY <1>1 DEF TypeOK, Base, Shape, Stacked, Control, Histories

LEMMA BaseActive ==
    ASSUME Base
    PROVE  ActiveIsOpen
<1> SUFFICES active = UNION {Blocks(t) : t \in Task}
  BY BaseTypes DEF ActiveIsOpen
<1>1. \A t \in Task : DOMAIN stack[t] = 1..Len(stack[t])
  BY StackFacts DEF Base, Shape
<1>2. ASSUME NEW i \in active
      PROVE  \E t \in Task : i \in Blocks(t)
  <2>1. PICK t \in Task : \E n \in 1..Len(stack[t]) :
           IsBlock(stack[t][n]) /\ stack[t][n].tx = i
    BY DEF Base, Nested, Exact
  <2>2. QED
    BY <1>1, <2>1 DEF Blocks
<1>3. ASSUME NEW t \in Task, NEW i \in Blocks(t)
      PROVE  i \in active
  BY <1>1 DEF Base, Nested, Exact, Blocks
<1>4. QED
  BY <1>2, <1>3

\* The variables keep their types and active_transactions holds exactly the
\* transactions of the open blocks, whatever tasks do and however calls end.
THEOREM ActiveCorrect == Spec => []ActiveIsOpen
<1>1. Base => ActiveIsOpen
  BY BaseActive
<1>2. QED
  BY <1>1, BaseAlways, PTL

\* As long as tasks take turns the current transaction is that of the
\* innermost open block, through every failure and cancellation.
THEOREM CurrentCorrect == Spec => []CurrentIsInnermost
<1>1. Base => CurrentIsInnermost
  BY DEF Base, Nested, Chain, CurrentIsInnermost
<1>2. QED
  BY <1>1, BaseAlways, PTL

(****************************************************************************)
(* What a rollback and a rollback_all() still have to reach.                *)
(****************************************************************************)

\* The call at n in stack s is rolling back c right now.
Taken(s, n, c) ==
    n < Len(s) /\ s[n + 1].kind = "rollback" /\ s[n + 1].tx = c

Reaches(t, n, c) ==
    raised[t] # "none" \/ c \in stack[t][n].left \/ Taken(stack[t], n, c)

\* As long as tasks take turns, an active child of a transaction that is being
\* rolled back is still to come or under way, and so is a transaction that
\* rollback_all() has not ended, unless an exception is on its way.
Pending ==
    "overlap" \notin faults =>
        \A t \in Task : \A n \in 1..Len(stack[t]) : \A c \in 1..Len(txs) :
            txs[c].state = "active" =>
                /\ stack[t][n].kind = "rollback"
                   /\ txs[c].parent = stack[t][n].tx =>
                      stack[t][n].phase = "children" /\ Reaches(t, n, c)
                /\ stack[t][n].kind = "all" /\ c \in active =>
                      Reaches(t, n, c)

\* Below a block there are only blocks.
LEMMA OnlyBlocks ==
    ASSUME Shape, NEW t \in Task, stack[t] = <<>> \/ Top(t).kind = "with"
    PROVE  \A n \in 1..Len(stack[t]) : stack[t][n].kind = "with"
<1> DEFINE L == Len(stack[t])
<1>1. L \in Nat /\ (stack[t] = <<>> <=> L = 0) /\ Top(t) = stack[t][L]
  BY StackFacts DEF Shape
<1>2. ASSUME NEW n \in 1..L
      PROVE  stack[t][n].kind = "with"
  <2>1. L \in 1..L /\ (n = L \/ n \in 1..(L - 1)) /\ stack[t] # <<>>
    <3> HIDE DEF L
    <3>1. QED
      BY <1>1, <1>2
  <2>2. stack[t][L].kind = "with"
    BY <1>1, <2>1
  <2>3. CASE n \in 1..(L - 1)
    BY <2>1, <2>2, <2>3 DEF Shape, Order
  <2>4. QED
    BY <2>1, <2>2, <2>3
<1>3. QED
  BY <1>2

\* What a step owes to what is still to be reached.
Carries(t, len, g, f) ==
    /\ stack[t] # <<>> /\ Top(t).kind # "with" /\ len # 0 =>
          /\ raised'[t] = "none" => raised[t] = "none"
          /\ len < Len(stack[t]) =>
                \/ raised'[t] # "none"
                \/ Top(t).kind # "rollback"
                \/ txs'[Top(t).tx].state # "active"
          /\ len >= Len(stack[t]) =>
                /\ \/ g.phase = Top(t).phase
                   \/ Top(t).left = {} /\ raised[t] = "none"
                /\ \A c \in Top(t).left :
                      \/ c \in g.left
                      \/ len > Len(stack[t]) /\ f.kind = "rollback" /\ f.tx = c
                      \/ txs[c].state # "active"
    /\ len > Len(stack[t]) =>
          /\ f.kind = "all" => f.left = active
          /\ f.kind = "rollback" => f.phase = "children"
                                    /\ f.left = Children(f.tx)

LEMMA PendingKept ==
    ASSUME Base, Pending, NEW t \in Task, NEW len, NEW g, NEW f,
           Quiet(t, len, g, f), Carries(t, len, g, f),
           faults \subseteq faults',
           stack[t] = <<>> => Overlap(t) \subseteq faults'
    PROVE  Pending'
<1> DEFINE L == Len(stack[t])
<1>1. Shape /\ Turns /\ Stacked
  BY DEF Base, Shape, Nested
<1>2. /\ L \in Nat /\ len \in Nat /\ len \in {L - 1, L, L + 1}
      /\ stack[t] = <<>> <=> L = 0
      /\ Top(t) = stack[t][L]
  BY <1>1, StackFacts DEF Quiet, Step
<1>3. /\ \A u \in Task : u # t => stack'[u] = stack[u]
      /\ Len(stack'[t]) = len
      /\ \A n \in 1..len :
            stack'[t][n] = IF n < L THEN stack[t][n]
                           ELSE IF n = L THEN g ELSE f
  BY DEF Quiet, Step
<1>4. L # 0 /\ len >= L => g.kind = Top(t).kind /\ g.tx = Top(t).tx
  BY <1>2 DEF Quiet, Fit
<1>5. /\ Len(txs') = Len(txs) /\ active' = active
      /\ \A i \in 1..Len(txs) :
            /\ txs'[i].parent = txs[i].parent
            /\ txs'[i].state = "active" => txs[i].state = "active"
  BY DEF Quiet, TableKept
<1>6. \A i : Children(i) = {j \in 1..Len(txs) : txs[j].parent = i}
  BY <1>1, TableFacts DEF Shape, Children
<1>7. SUFFICES ASSUME "overlap" \notin faults',
                      NEW n \in 1..len, NEW c \in 1..Len(txs),
                      txs'[c].state = "active"
               PROVE  /\ stack'[t][n].kind = "rollback"
                         /\ txs[c].parent = stack'[t][n].tx =>
                            /\ stack'[t][n].phase = "children"
                            /\ \/ raised'[t] # "none"
                               \/ c \in stack'[t][n].left
                               \/ Taken(stack'[t], n, c)
                      /\ stack'[t][n].kind = "all" /\ c \in active =>
                            \/ raised'[t] # "none"
                            \/ c \in stack'[t][n].left
                            \/ Taken(stack'[t], n, c)
  <2>1. "overlap" \notin faults' =>
           \A u \in Task : u # t => stack'[u] = <<>>
    BY <1>1, <1>3, TurnsKept
  <2>2. Len(<<>>) = 0
    OBVIOUS
  <2>3. \A u \in Task : \A m : "overlap" \notin faults' /\ m \in 1..Len(stack'[u])
           => u = t
    BY <2>1, <2>2
  <2> HIDE DEF L
  <2>4. QED
    BY <1>3, <1>5, <2>3 DEF Pending, Reaches
<1>8. "overlap" \notin faults
  BY <1>7
<1>9. txs[c].state = "active" /\ len # 0
  BY <1>2, <1>5, <1>7
<1>10. Top(t).kind = "with" \/ L = 0 =>
          \A m \in 1..L : stack[t][m].kind = "with"
  BY <1>1, <1>2, OnlyBlocks
<1>11. \A m \in 1..L :
          /\ stack[t][m].kind = "rollback" /\ txs[c].parent = stack[t][m].tx =>
                stack[t][m].phase = "children" /\ Reaches(t, m, c)
          /\ stack[t][m].kind = "all" /\ c \in active => Reaches(t, m, c)
  BY <1>8, <1>9 DEF Pending
<1>12. L # 0 /\ Top(t).kind # "with" =>
          /\ raised'[t] = "none" => raised[t] = "none"
          /\ len < L =>
                \/ raised'[t] # "none"
                \/ Top(t).kind # "rollback"
                \/ txs'[Top(t).tx].state # "active"
          /\ len >= L =>
                /\ \/ g.phase = Top(t).phase
                   \/ Top(t).left = {} /\ raised[t] = "none"
                /\ \A d \in Top(t).left :
                      \/ d \in g.left
                      \/ len > L /\ f.kind = "rollback" /\ f.tx = d
                      \/ txs[d].state # "active"
  BY <1>2, <1>9 DEF Carries
<1>13. CASE n < L
  <2>1. CASE Top(t).kind = "with"
    <3>1. stack'[t][n].kind = "with"
      BY <1>2, <1>3, <1>10, <1>13, <2>1
    <3>2. QED
      BY <3>1
  <2>2. CASE Top(t).kind # "with"
    <3>1. n \in 1..L /\ stack'[t][n] = stack[t][n] /\ L # 0
      BY <1>2, <1>3, <1>13
    <3>2. ASSUME Reaches(t, n, c)
          PROVE  \/ raised'[t] # "none"
                 \/ c \in stack'[t][n].left
                 \/ Taken(stack'[t], n, c)
      <4>1. CASE raised[t] # "none" \/ c \in stack[t][n].left
        BY <1>12, <2>2, <3>1, <4>1
      <4>2. CASE Taken(stack[t], n, c)
        <5>1. stack[t][n + 1].kind = "rollback" /\ stack[t][n + 1].tx = c
          BY <4>2 DEF Taken
        <5>2. CASE n + 1 <= len
          <6>1. /\ n + 1 \in 1..len
                /\ n + 1 < L \/ n + 1 = L
                /\ n < len
            <7> HIDE DEF L
            <7>1. QED
              BY <1>2, <1>13, <5>2
          <6>2. /\ stack'[t][n + 1].kind = stack[t][n + 1].kind
                /\ stack'[t][n + 1].tx = stack[t][n + 1].tx
            BY <1>2, <1>3, <1>4, <3>1, <6>1
          <6>3. QED
            BY <1>3, <5>1, <6>1, <6>2 DEF Taken
        <5>3. CASE ~(n + 1 <= len)
          <6>1. n + 1 = L /\ len < L
            <7> HIDE DEF L
            <7>1. QED
              BY <1>2, <1>13, <5>3
          <6>2. raised'[t] # "none"
            BY <1>2, <1>7, <1>12, <2>2, <3>1, <5>1, <6>1
          <6>3. QED
            BY <6>2
        <5>4. QED
          BY <5>2, <5>3
      <4>3. QED
        BY <3>2, <4>1, <4>2 DEF Reaches
    <3>3. QED
      BY <1>11, <3>1, <3>2
  <2>3. QED
    BY <2>1, <2>2
<1>14. CASE n = L
  <2>1. stack'[t][n] = g /\ L # 0 /\ len >= L /\ L \in 1..L
    BY <1>2, <1>3, <1>14
  <2>2. g.kind = Top(t).kind /\ g.tx = Top(t).tx
    BY <1>4, <2>1
  <2>3. CASE Top(t).kind = "with"
    BY <2>1, <2>2, <2>3
  <2>4. CASE Top(t).kind # "with"
    <3>1. ~Taken(stack[t], L, c)
      BY <1>2 DEF Taken
    <3>2. /\ Top(t).kind = "rollback" /\ txs[c].parent = Top(t).tx =>
                /\ Top(t).phase = "children"
                /\ raised[t] # "none" \/ c \in Top(t).left
          /\ Top(t).kind = "all" /\ c \in active =>
                raised[t] # "none" \/ c \in Top(t).left
      BY <1>2, <1>11, <2>1, <3>1 DEF Reaches
    <3>3. len > L /\ f.kind = "rollback" /\ f.tx = c => Taken(stack'[t], n, c)
      <4> SUFFICES ASSUME len > L, f.kind = "rollback", f.tx = c
                   PROVE  Taken(stack'[t], n, c)
        OBVIOUS
      <4>1. L + 1 \in 1..len /\ ~(L + 1 < L) /\ L + 1 # L /\ L < len
        <5> HIDE DEF L
        <5>1. QED
          BY <1>2
      <4>2. stack'[t][L + 1] = f
        BY <1>3, <4>1
      <4>3. QED
        BY <1>3, <1>14, <4>1, <4>2 DEF Taken
    <3>4. c \in Top(t).left =>
             /\ g.phase = Top(t).phase
             /\ c \in g.left \/ Taken(stack'[t], n, c)
      BY <1>9, <1>12, <2>1, <2>4, <3>3
    <3>5. raised[t] # "none" => g.phase = Top(t).phase /\ raised'[t] # "none"
      BY <1>12, <2>1, <2>4
    <3>6. QED
      BY <2>1, <2>2, <3>2, <3>4, <3>5
  <2>5. QED
    BY <2>3, <2>4
<1>15. CASE n > L
  <2>1. stack'[t][n] = f /\ len > L
    BY <1>2, <1>3, <1>15
  <2>2. /\ f.kind = "all" => f.left = active
        /\ f.kind = "rollback" => f.phase = "children"
                                  /\ f.left = Children(f.tx)
    BY <2>1 DEF Carries
  <2>3. QED
    BY <1>6, <2>1, <2>2
<1>16. QED
  BY <1>2, <1>13, <1>14, <1>15
\* Every call owes what Carries says.
LEMMA CallsCarry ==
    ASSUME Base, NEW t \in Task, Calls(t) \/ RollbackAll(t)
    PROVE  \E len, g, f : Quiet(t, len, g, f) /\ Carries(t, len, g, f)
<1> DEFINE L == Len(stack[t])
<1>1. /\ Shape /\ Control /\ made \in Seq(Tx) /\ active \subseteq 1..Len(txs)
      /\ Table
  BY ActiveIndex DEF Base, Histories, Nested, Shape
<1>2. L \in Nat /\ (stack[t] = <<>> <=> L = 0)
  BY <1>1, StackFacts DEF Shape
<1>3. \A i \in 1..Len(txs) :
         /\ RollbackFrame(i).kind = "rollback"
         /\ RollbackFrame(i).phase = "children"
         /\ RollbackFrame(i).tx = i
         /\ RollbackFrame(i).left = Children(i)
  BY <1>1, RollbackFrameType
<1>4. running = Nobody => raised[t] = "none"
  BY <1>1, ControlFacts
<1>5. \A stk, e : Return(t, stk, e) /\ stk # <<>> => raised'[t] = e
  BY <1>1 DEF Return, Control
<1>6. ASSUME NEW len, NEW g, NEW f, Quiet(t, len, g, f),
             stack[t] = <<>> \/ Top(t).kind = "with",
             len > L => /\ f.kind = "all" => f.left = active
                        /\ f.kind = "rollback" => f.phase = "children"
                                                  /\ f.left = Children(f.tx)
      PROVE  Quiet(t, len, g, f) /\ Carries(t, len, g, f)
  BY <1>6 DEF Carries
<1>7. CASE RollbackAll(t)
  <2>1. PICK f : /\ f.kind = "all" /\ f.left = active
                 /\ stack[t] # <<>> => Top(t).kind = "with"
                 /\ Quiet(t, L + 1, Top(t), f)
    BY <1>1, <1>7, AllMoves
  <2>2. f.kind # "rollback"
    BY <2>1
  <2>3. QED
    BY <1>6, <2>1, <2>2
<1>8. CASE LeaveAsIs(t)
  <2>1. PICK g : Top(t).kind = "with" /\ Quiet(t, L, g, g)
    BY <1>1, <1>8, LeaveMoves
  <2>2. ~(L > L)
    BY <1>2
  <2>3. QED
    BY <1>6, <2>1, <2>2
<1>9. CASE Operate(t)
  <2>1. Top(t).kind = "with" /\ Quiet(t, L, Top(t), Top(t))
    BY <1>1, <1>9, OperateMoves
  <2>2. ~(L > L)
    BY <1>2
  <2>3. QED
    BY <1>6, <2>1, <2>2
<1>10. CASE CommitByHand(t) \/ LeaveCommitting(t)
  <2> DEFINE h == NewFrame("commit", "await", Top(t).tx)
  <2>1. PICK g : /\ Top(t).kind = "with" /\ Top(t).tx \in 1..Len(txs)
                 /\ \/ Quiet(t, L, g, g)
                    \/ Quiet(t, L + 1, g, h)
    BY <1>1, <1>10, CommitMoves
  <2>2. ~(L > L) /\ h.kind = "commit"
    BY <1>2 DEF NewFrame
  <2> HIDE DEF h
  <2>3. CASE Quiet(t, L, g, g)
    BY <1>6, <2>1, <2>2, <2>3
  <2>4. CASE Quiet(t, L + 1, g, h)
    <3>1. h.kind # "all" /\ h.kind # "rollback"
      BY <2>2
    <3>2. QED
      BY <1>6, <2>1, <2>4, <3>1
  <2>5. QED
    BY <2>1, <2>3, <2>4
<1>11. CASE RollbackByHand(t) \/ LeaveRaising(t) \/ Propagate(t)
  <2>1. RollbackByHand(t) \/ (On(t, "with", {"body"}) /\ LeaveWithError(t))
    BY <1>11 DEF LeaveRaising, InBlock, Propagate
  <2> DEFINE h == RollbackFrame(Top(t).tx)
  <2>2. PICK g : /\ Top(t).kind = "with" /\ Top(t).tx \in 1..Len(txs)
                 /\ \/ Quiet(t, L, g, g)
                    \/ Quiet(t, L + 1, g, h)
    BY <1>1, <2>1, RollbackMoves
  <2>3. /\ ~(L > L) /\ h.kind = "rollback" /\ h.phase = "children"
        /\ h.left = Children(h.tx)
    BY <1>2, <1>3, <2>2
  <2> HIDE DEF h
  <2>4. CASE Quiet(t, L, g, g)
    BY <1>6, <2>2, <2>3, <2>4
  <2>5. CASE Quiet(t, L + 1, g, h)
    <3>1. h.kind # "all"
      BY <2>3
    <3>2. QED
      BY <1>6, <2>2, <2>3, <2>5, <3>1
  <2>6. QED
    BY <2>2, <2>4, <2>5
<1>12. CASE NextChild(t) \/ NextOfAll(t)
  <2>1. PICK g \in Frame, c \in Top(t).left :
           /\ stack[t] # <<>>
           /\ Top(t).phase = "children" /\ g.phase = "children"
           /\ g.left = Top(t).left \ {c}
           /\ c \in 1..Len(txs)
           /\ \/ IsActive(c) /\ Quiet(t, L + 1, g, RollbackFrame(c))
              \/ ~IsActive(c) /\ Quiet(t, L, g, g)
    BY <1>1, <1>12, NextMoves
  <2>2. raised'[t] = raised[t]
    BY <1>12 DEF NextChild, NextOfAll
  <2> DEFINE h == RollbackFrame(c)
  <2>3. /\ h.kind = "rollback" /\ h.phase = "children" /\ h.tx = c
        /\ h.left = Children(c)
    BY <1>3, <2>1
  <2> HIDE DEF h
  <2>4. CASE Quiet(t, L + 1, g, h)
    <3>1. L + 1 > L /\ ~(L + 1 < L)
      BY <1>2
    <3>2. h.kind # "all"
      BY <2>3
    <3>3. Carries(t, L + 1, g, h)
      BY <2>1, <2>2, <2>3, <3>1, <3>2 DEF Carries
    <3>4. QED
      BY <2>4, <3>3
  <2>5. CASE ~IsActive(c) /\ Quiet(t, L, g, g)
    <3>1. ~(L > L) /\ ~(L < L)
      BY <1>2
    <3>2. Carries(t, L, g, g)
      BY <2>1, <2>2, <2>5, <3>1 DEF Carries, IsActive
    <3>3. QED
      BY <2>5, <3>2
  <2>6. QED
    BY <2>1, <2>4, <2>5 DEF h
<1>13. ASSUME Quiet(t, L - 1, Top(t), Top(t)), raised[t] = "none"
                \/ (Front(stack[t]) # <<>> => raised'[t] # "none"),
              \/ Top(t).kind # "rollback"
              \/ txs'[Top(t).tx].state # "active"
              \/ Front(stack[t]) # <<>> => raised'[t] # "none",
              stack[t] # <<>>
       PROVE  Carries(t, L - 1, Top(t), Top(t))
  <2>1. L - 1 < L /\ ~(L - 1 >= L) /\ ~(L - 1 > L)
    BY <1>2
  <2>2. L - 1 # 0 => Front(stack[t]) # <<>>
    <3>1. stack[t] \in Seq(Frame)
      BY <1>1, StackFacts DEF Shape
    <3>2. Len(Front(stack[t])) = L - 1
      BY <1>13, <3>1, FrontFacts
    <3>3. Len(<<>>) = 0
      OBVIOUS
    <3>4. QED
      BY <3>2, <3>3
  <2>3. QED
    BY <1>13, <2>1, <2>2 DEF Carries
<1>14. CASE CommitReturns(t)
  <2>1. /\ stack[t] # <<>> /\ raised[t] = "none"
        /\ Quiet(t, L - 1, Top(t), Top(t)) /\ Top(t).kind = "commit"
    BY <1>1, <1>4, <1>14, CommitEnds DEF CommitReturns, On
  <2>2. QED
    BY <1>13, <2>1
<1>15. CASE OwnOperations(t) /\ Todo(Top(t).tx) # {}
  <2>1. PICK g : /\ stack[t] # <<>> /\ Top(t).left = {}
                 /\ Quiet(t, L, g, g)
    BY <1>1, <1>15, UndoMoves
  <2>2. raised[t] = "none"
    BY <1>15 DEF OwnOperations, RunningOn
  <2>3. ~(L > L) /\ ~(L < L)
    BY <1>2
  <2>4. Carries(t, L, g, g)
    BY <2>1, <2>2, <2>3 DEF Carries
  <2>5. QED
    BY <2>1, <2>4
<1>16. CASE \/ ChildrenChanged(t)
            \/ OwnOperations(t) /\ Todo(Top(t).tx) = {}
            \/ RollbackReturns(t)
            \/ RollbackFails(t)
            \/ Unwind(t) /\ raised[t] = "error" /\ Top(t).kind = "rollback"
  <2>1. /\ stack[t] # <<>> /\ Quiet(t, L - 1, Top(t), Top(t))
        /\ txs'[Top(t).tx].state # "active"
    BY <1>1, <1>16, RollbackEnds
  <2>2. raised[t] = "none" \/ (Front(stack[t]) # <<>> => raised'[t] # "none")
    <3>1. CASE Unwind(t) /\ raised[t] = "error"
      <4>1. Return(t, Front(stack[t]), "error")
        BY <3>1 DEF Unwind
      <4>2. QED
        BY <1>5, <4>1
    <3>2. CASE ~(Unwind(t) /\ raised[t] = "error")
      BY <1>4, <1>16, <3>2 DEF ChildrenChanged, OwnOperations,
           RollbackReturns, RollbackFails, RunningOn
    <3>3. QED
      BY <3>1, <3>2
  <2>3. QED
    BY <1>13, <2>1, <2>2
<1>17. CASE EndOfAll(t)
  <2>1. /\ stack[t] # <<>> /\ Quiet(t, L - 1, Top(t), Top(t))
        /\ raised[t] = "none" /\ Top(t).kind = "all"
    BY <1>1, <1>17, PassMoves DEF EndOfAll, RunningOn, On
  <2>2. QED
    BY <1>13, <2>1
<1>18. CASE Unwind(t) /\ ~(raised[t] = "error" /\ Top(t).kind = "rollback")
  <2>1. /\ stack[t] # <<>> /\ Quiet(t, L - 1, Top(t), Top(t))
        /\ raised[t] # "none" /\ Return(t, Front(stack[t]), raised[t])
    BY <1>1, <1>18, PassMoves DEF Unwind
  <2>2. Front(stack[t]) # <<>> => raised'[t] # "none"
    BY <1>5, <2>1
  <2>3. QED
    BY <1>13, <2>1, <2>2
<1>19. CASE Catch(t)
  <2>1. Quiet(t, L, Top(t), Top(t)) /\ Top(t).kind = "with"
    BY <1>1, <1>19, StandMoves DEF Catch, On
  <2>2. ~(L > L)
    BY <1>2
  <2>3. QED
    BY <1>6, <2>1, <2>2
<1>20. CASE Cancelled(t)
  <2>1. /\ stack[t] # <<>> /\ Quiet(t, L, Top(t), Top(t))
        /\ Return(t, stack[t], "cancel")
    BY <1>1, <1>20, StandMoves DEF Cancelled
  <2>2. raised'[t] = "cancel"
    BY <1>5, <2>1
  <2>3. ~(L > L) /\ ~(L < L)
    BY <1>2
  <2>4. Carries(t, L, Top(t), Top(t))
    BY <2>2, <2>3 DEF Carries
  <2>5. QED
    BY <2>1, <2>4
<1>21. QED
  BY <1>7, <1>8, <1>9, <1>10, <1>11, <1>12, <1>14, <1>15, <1>16, <1>17, <1>18,
     <1>19, <1>20 DEF Calls
LEMMA BlocksPending ==
    ASSUME Base, Pending, NEW t \in Task, faults \subseteq faults',
           (Enter(t) /\ Seen(Overlap(t))) \/ Leave(t), Shape'
    PROVE  Pending'
<1>1. Shape /\ Turns /\ current \in 0..Len(txs)
  BY DEF Base, Nested
<1>2. /\ \A u \in Task : u # t => stack'[u] = stack[u]
      /\ \A n \in 1..Len(stack'[t]) : stack'[t][n].kind = "with"
  <2>1. CASE Enter(t)
    <3> DEFINE k == Len(stack[t])
    <3>1. PICK f : /\ Step(t, k + 1, Top(t), f) /\ f.kind = "with"
                   /\ stack[t] # <<>> => Top(t).kind = "with"
      BY <1>1, <2>1, EnterMoves
    <3>2. /\ k \in Nat /\ Top(t) = stack[t][k]
          /\ \A n \in 1..k : stack[t][n].kind = "with"
      BY <1>1, <3>1, StackFacts, OnlyBlocks DEF Shape
    <3>3. /\ \A u \in Task : u # t => stack'[u] = stack[u]
          /\ Len(stack'[t]) = k + 1
          /\ \A n \in 1..(k + 1) :
                stack'[t][n] = IF n < k THEN stack[t][n]
                               ELSE IF n = k THEN Top(t) ELSE f
      BY <3>1 DEF Step
    <3> HIDE DEF k
    <3>4. \A n \in 1..(k + 1) : stack'[t][n].kind = "with"
      BY <3>1, <3>2, <3>3
    <3>5. QED
      BY <3>3, <3>4
  <2>2. CASE Leave(t)
    <3> DEFINE k == Len(stack[t])
    <3>1. Step(t, k - 1, Top(t), Top(t)) /\ Top(t).kind = "with"
      BY <1>1, <2>2, ExitMoves
    <3>2. /\ k \in Nat
          /\ \A n \in 1..k : stack[t][n].kind = "with"
      BY <1>1, <3>1, StackFacts, OnlyBlocks DEF Shape
    <3>3. /\ \A u \in Task : u # t => stack'[u] = stack[u]
          /\ Len(stack'[t]) = k - 1
          /\ \A n \in 1..(k - 1) :
                stack'[t][n] = IF n < k THEN stack[t][n]
                               ELSE IF n = k THEN Top(t) ELSE Top(t)
      BY <3>1 DEF Step
    <3> HIDE DEF k
    <3>4. \A n \in 1..(k - 1) : stack'[t][n].kind = "with"
      BY <3>2, <3>3
    <3>5. QED
      BY <3>3, <3>4
  <2>3. QED
    BY <2>1, <2>2
<1>3. "overlap" \notin faults' => \A u \in Task : u # t => stack'[u] = <<>>
  <2>1. stack[t] = <<>> => Overlap(t) \subseteq faults'
    BY DEF Seen, Leave, On
  <2>2. QED
    BY <1>1, <1>2, <2>1, TurnsKept DEF Shape
<1>4. ASSUME "overlap" \notin faults', NEW u \in Task,
             NEW n \in 1..Len(stack'[u])
      PROVE  stack'[u][n].kind = "with"
  <2>1. Len(<<>>) = 0
    OBVIOUS
  <2>2. u = t
    BY <1>3, <1>4, <2>1
  <2>3. QED
    BY <1>2, <2>2
<1>5. QED
  BY <1>4 DEF Pending

LEMMA PendingAlways == Spec => []Pending
<1>1. Init => Pending
  BY DEF Init, Pending
<1>2. ASSUME Base, Pending, Base', Next
      PROVE  Pending'
  <2>1. PICK t \in Task :
           Act(t) \/ Continue(t) \/ (Cancelled(t) /\ Seen({"cancellation"}))
    BY <1>2 DEF Next
  <2>2. faults \subseteq faults' /\ Shape'
    BY <1>2, <2>1, StepKinds DEF Base
  <2>3. CASE (Enter(t) /\ Seen(Overlap(t))) \/ Leave(t)
    BY <1>2, <2>2, <2>3, BlocksPending
  <2>4. CASE RollbackAll(t) /\ Seen(Overlap(t))
    <3>1. PICK len, g, f : Quiet(t, len, g, f) /\ Carries(t, len, g, f)
      BY <1>2, <2>4, CallsCarry
    <3>2. Overlap(t) \subseteq faults'
      BY <2>4 DEF Seen
    <3>3. QED
      BY <1>2, <2>2, <3>1, <3>2, PendingKept
  <2>5. CASE Calls(t)
    <3>1. PICK len, g, f : Quiet(t, len, g, f) /\ Carries(t, len, g, f)
      BY <1>2, <2>5, CallsCarry
    <3>2. stack[t] # <<>>
      BY <1>2, <2>5, CallsAreQuiet
    <3>3. QED
      BY <1>2, <2>2, <3>1, <3>2, PendingKept
  <2>6. QED
    BY <2>1, <2>3, <2>4, <2>5, StepKinds
<1>3. ASSUME Pending, UNCHANGED vars
      PROVE  Pending'
  BY <1>3 DEF Pending, vars, Reaches
<1>4. QED
  BY <1>1, <1>2, <1>3, BaseAlways, PTL DEF Spec

\* As long as tasks take turns, no child of a transaction is active any more
\* when its rollback undoes its own operations.
THEOREM ChildrenFirstCorrect == Spec => []ChildrenFirst
<1>1. Base /\ Pending => ChildrenFirst
  <2> SUFFICES ASSUME Base, Pending, "overlap" \notin faults,
                      NEW t \in Task, On(t, "rollback", {"await"}),
                      NEW c \in Children(Top(t).tx), IsActive(c)
               PROVE  FALSE
    BY DEF ChildrenFirst
  <2> DEFINE L == Len(stack[t])
  <2>1. /\ L \in 1..L /\ Top(t) = stack[t][L]
        /\ Top(t).kind = "rollback" /\ Top(t).phase = "await"
    <3>1. /\ L \in Nat \ {0} /\ Top(t) = stack[t][L]
          /\ Top(t).kind = "rollback" /\ Top(t).phase = "await"
      BY TopFacts, StackFacts DEF Base, Shape
    <3> HIDE DEF L
    <3>2. QED
      BY <3>1
  <2>2. c \in 1..Len(txs) /\ txs[c].parent = Top(t).tx
    BY TableFacts DEF Base, Shape, Children
  <2>3. Top(t).phase = "children"
    BY <2>1, <2>2 DEF Pending, IsActive
  <2>4. QED
    BY <2>1, <2>3
<1>2. QED
  BY <1>1, BaseAlways, PendingAlways, PTL
\* A step of one task leaves the stacks of the others alone.
LEMMA OthersStay ==
    ASSUME Base, NEW t \in Task,
           Act(t) \/ Continue(t) \/ (Cancelled(t) /\ Seen({"cancellation"})),
           NEW u \in Task, u # t
    PROVE  stack'[u] = stack[u]
<1>1. Shape /\ current \in 0..Len(txs)
  BY DEF Base, Nested
<1>2. \E len, g, f : Step(t, len, g, f)
  <2>1. CASE Enter(t)
    BY <1>1, <2>1, EnterMoves
  <2>2. CASE Leave(t)
    BY <1>1, <2>2, ExitMoves
  <2>3. CASE RollbackAll(t)
    BY <2>3, AllIsQuiet DEF Quiet
  <2>4. CASE Calls(t)
    BY <2>4, CallsAreQuiet DEF Quiet
  <2>5. QED
    BY <2>1, <2>2, <2>3, <2>4, StepKinds
<1>3. QED
  BY <1>2 DEF Step

\* rollback_all() returns only when no transaction is active any more, through
\* failed and repeated rollbacks, as long as tasks take turns.
THEOREM RollbackAllCorrect == Spec => RollbackAllReaches
<1> DEFINE Reached ==
        \A t \in Task :
          (/\ On(t, "all", {"children"})
           /\ Len(stack'[t]) < Len(stack[t])
           /\ raised[t] = "none"
           /\ "overlap" \notin faults)
             => \A i \in DOMAIN txs : IsActive(i) => i \notin active
<1>1. ASSUME Base, Pending, Next
      PROVE  Reached
  <2> SUFFICES ASSUME NEW t \in Task, On(t, "all", {"children"}),
                      Len(stack'[t]) < Len(stack[t]),
                      raised[t] = "none", "overlap" \notin faults,
                      NEW i \in DOMAIN txs, IsActive(i), i \in active
               PROVE  FALSE
    OBVIOUS
  <2> DEFINE L == Len(stack[t])
  <2>1. Shape /\ Table /\ Control
    BY <1>1 DEF Base, Shape
  <2>2. /\ L \in Nat \ {0} /\ Top(t) = stack[t][L] /\ stack[t] # <<>>
        /\ Top(t).kind = "all"
    BY <2>1, TopFacts, StackFacts DEF Shape
  <2>3. PICK u \in Task :
           Act(u) \/ Continue(u) \/ (Cancelled(u) /\ Seen({"cancellation"}))
    BY <1>1 DEF Next
  <2>4. ~(L < L) /\ ~(L + 1 < L)
    <3> HIDE DEF L
    <3>1. QED
      BY <2>2
  <2>5. u = t
    <3>1. u # t => stack'[t] = stack[t]
      BY <1>1, <2>3, OthersStay
    <3>2. QED
      BY <2>4, <3>1
  <2>6. EndOfAll(t)
    <3>1. ~NextOfAll(t)
      <4>1. NextOfAll(t) => \E g : \/ \E f : Quiet(t, L + 1, g, f)
                                   \/ Quiet(t, L, g, g)
        BY <2>1, NextMoves
      <4>2. QED
        BY <2>4, <4>1 DEF Quiet, Step
    <3>2. ~Cancelled(t)
      <4>1. Cancelled(t) => Quiet(t, L, Top(t), Top(t))
        BY <2>1, StandMoves
      <4>2. QED
        BY <2>4, <4>1 DEF Quiet, Step
    <3>3. ~Act(t)
      BY <2>2 DEF Act, Enter, RollbackAll, InBody, LeaveAsIs, Operate,
           CommitByHand, RollbackByHand, LeaveCommitting, LeaveRaising,
           InBlock, On
    <3>4. Continue(t) => EndOfAll(t) \/ NextOfAll(t)
      BY <2>2 DEF Continue, RollbackFails, ChildrenChanged, CommitReturns,
           NextChild, OwnOperations, RollbackReturns, Leave, Catch, Propagate,
           Unwind, RunningOn, On
    <3>5. QED
      BY <2>3, <2>5, <3>1, <3>2, <3>3, <3>4
  <2>7. Top(t).left = {}
    BY <2>6 DEF EndOfAll
  <2>8. i \in 1..Len(txs) /\ L \in 1..L
    <3>1. i \in 1..Len(txs)
      BY <2>1, TableFacts
    <3> HIDE DEF L
    <3>2. QED
      BY <2>2, <3>1
  <2>9. Reaches(t, L, i)
    BY <1>1, <2>2, <2>8 DEF Pending, IsActive
  <2>10. QED
    BY <2>2, <2>4, <2>7, <2>9 DEF Reaches, Taken
<1>2. ASSUME Base, Pending, [Next]_vars
      PROVE  [Reached]_vars
  BY <1>1, <1>2
<1>3. Spec => [][Reached]_vars
  BY <1>2, BaseAlways, PendingAlways, PTL DEF Spec
<1>4. QED
  BY <1>3 DEF RollbackAllReaches

(****************************************************************************)
(* Blocks that are being left.                                              *)
(****************************************************************************)

\* The call above n in stack s ends transaction i.
Ends(s, n, i) ==
    n < Len(s) /\ s[n + 1].kind \in {"commit", "rollback"} /\ s[n + 1].tx = i

\* Without a cancellation and a block left active by auto_commit=False, an
\* active transaction has its block open, and one whose block is being left
\* is being ended.
Ending ==
    faults \cap {"cancellation", "uncommitted"} = {} =>
        /\ \A i \in 1..Len(txs) : txs[i].state = "active" => i \in active
        /\ \A t \in Task : \A n \in 1..Len(stack[t]) :
              /\ stack[t][n].phase \in {"exit", "raise"}
              /\ txs[stack[t][n].tx].state = "active"
              => Ends(stack[t], n, stack[t][n].tx)

\* What a step owes to the transactions whose blocks are being left.
Finishes(t, len, g, f) ==
    faults' \cap {"cancellation", "uncommitted"} = {} =>
        /\ len < Len(stack[t]) /\ Top(t).kind \in {"commit", "rollback"} =>
              txs'[Top(t).tx].state # "active"
        /\ stack[t] # <<>> /\ len >= Len(stack[t])
           /\ g.phase \in {"exit", "raise"} =>
              \/ g.phase = Top(t).phase
              \/ txs'[Top(t).tx].state # "active"
              \/ /\ len > Len(stack[t]) /\ f.kind \in {"commit", "rollback"}
                 /\ f.tx = Top(t).tx

LEMMA PhaseFacts ==
    ASSUME Shape, NEW t \in Task, NEW n \in 1..Len(stack[t]),
           stack[t][n].phase \in {"exit", "raise"}
    PROVE  /\ stack[t][n].kind = "with"
           /\ stack[t][n].tx \in 1..Len(txs)
<1>1. stack[t][n] \in Frame /\ FrameOK(stack[t][n], txs)
  BY StackFacts DEF Shape, Frames
<1>2. QED
  BY <1>1 DEF Frame, FrameOK

LEMMA EndingKept ==
    ASSUME Base, Ending, NEW t \in Task, NEW len, NEW g, NEW f,
           Quiet(t, len, g, f), Finishes(t, len, g, f),
           faults \subseteq faults', Shape'
    PROVE  Ending'
<1> DEFINE L == Len(stack[t])
<1>1. Shape
  BY DEF Base
<1>2. /\ L \in Nat /\ len \in Nat /\ len \in {L - 1, L, L + 1}
      /\ stack[t] = <<>> <=> L = 0
      /\ Top(t) = stack[t][L]
  BY <1>1, StackFacts DEF Quiet, Step, Shape
<1>3. /\ \A u \in Task : u # t => stack'[u] = stack[u]
      /\ Len(stack'[t]) = len
      /\ \A n \in 1..len :
            stack'[t][n] = IF n < L THEN stack[t][n]
                           ELSE IF n = L THEN g ELSE f
  BY DEF Quiet, Step
<1>4. /\ L # 0 /\ len >= L => g.kind = Top(t).kind /\ g.tx = Top(t).tx
      /\ len > L => f.kind # "with"
  BY <1>2 DEF Quiet, Fit
<1>5. /\ Len(txs') = Len(txs) /\ active' = active
      /\ \A i \in 1..Len(txs) :
            txs'[i].state = "active" => txs[i].state = "active"
  BY DEF Quiet, TableKept
<1>6. SUFFICES ASSUME faults' \cap {"cancellation", "uncommitted"} = {}
               PROVE  Ending'
  BY DEF Ending
<1>7. /\ \A i \in 1..Len(txs) : txs[i].state = "active" => i \in active
      /\ \A u \in Task : \A n \in 1..Len(stack[u]) :
            /\ stack[u][n].phase \in {"exit", "raise"}
            /\ txs[stack[u][n].tx].state = "active"
            => Ends(stack[u], n, stack[u][n].tx)
  BY <1>6 DEF Ending
<1>8. /\ len < L /\ Top(t).kind \in {"commit", "rollback"} =>
            txs'[Top(t).tx].state # "active"
      /\ L # 0 /\ len >= L /\ g.phase \in {"exit", "raise"} =>
            \/ g.phase = Top(t).phase
            \/ txs'[Top(t).tx].state # "active"
            \/ /\ len > L /\ f.kind \in {"commit", "rollback"}
               /\ f.tx = Top(t).tx
  BY <1>2, <1>6 DEF Finishes
<1>9. ASSUME NEW u \in Task, NEW n \in 1..Len(stack'[u]),
             stack'[u][n].phase \in {"exit", "raise"},
             txs'[stack'[u][n].tx].state = "active"
      PROVE  Ends(stack'[u], n, stack'[u][n].tx)
  <2>1. CASE u # t
    <3>1. /\ stack'[u] = stack[u] /\ stack[u][n].tx \in 1..Len(txs)
      BY <1>1, <1>3, <1>9, <2>1, PhaseFacts
    <3>2. QED
      BY <1>5, <1>7, <1>9, <3>1
  <2>2. CASE u = t /\ n < L
    <3>1. n \in 1..L /\ stack'[t][n] = stack[t][n]
      BY <1>2, <1>3, <1>9, <2>2
    <3>2. Ends(stack[t], n, stack[t][n].tx)
      <4>1. stack[t][n].tx \in 1..Len(txs)
        BY <1>1, <1>9, <2>2, <3>1, PhaseFacts
      <4>2. txs[stack[t][n].tx].state = "active"
        BY <1>5, <1>9, <2>2, <3>1, <4>1
      <4>3. QED
        BY <1>7, <1>9, <2>2, <3>1, <4>2
    <3>3. CASE n + 1 <= len
      <4>1. /\ n + 1 \in 1..len
            /\ n + 1 < L \/ n + 1 = L
            /\ n < len /\ L # 0
        <5> HIDE DEF L
        <5>1. QED
          BY <1>2, <2>2, <3>1, <3>3
      <4>2. /\ stack'[t][n + 1].kind = stack[t][n + 1].kind
            /\ stack'[t][n + 1].tx = stack[t][n + 1].tx
        BY <1>2, <1>3, <1>4, <4>1
      <4>3. QED
        BY <1>3, <2>2, <3>1, <3>2, <4>1, <4>2 DEF Ends
    <3>4. CASE ~(n + 1 <= len)
      <4>1. n + 1 = L /\ len < L
        <5> HIDE DEF L
        <5>1. QED
          BY <1>2, <2>2, <3>1, <3>4
      <4>2. Top(t).kind \in {"commit", "rollback"} /\ Top(t).tx = stack[t][n].tx
        BY <1>2, <3>2, <4>1 DEF Ends
      <4>3. QED
        BY <1>8, <1>9, <2>2, <3>1, <4>1, <4>2
    <3>5. QED
      BY <3>3, <3>4
  <2>3. CASE u = t /\ n = L
    <3>1. stack'[t][n] = g /\ L # 0 /\ len >= L /\ L \in 1..L
      BY <1>2, <1>3, <1>9, <2>3
    <3>2. g.tx = Top(t).tx /\ g.phase \in {"exit", "raise"}
          /\ txs'[Top(t).tx].state = "active"
      BY <1>4, <1>9, <2>3, <3>1
    <3>3. CASE g.phase = Top(t).phase
      <4>1. Top(t).tx \in 1..Len(txs)
        BY <1>1, <1>2, <3>1, <3>2, <3>3, PhaseFacts
      <4>2. Ends(stack[t], L, Top(t).tx)
        BY <1>2, <1>5, <1>7, <3>1, <3>2, <3>3, <4>1
      <4>3. QED
        BY <1>2, <4>2 DEF Ends
    <3>4. CASE /\ len > L /\ f.kind \in {"commit", "rollback"}
               /\ f.tx = Top(t).tx
      <4>1. L + 1 \in 1..len /\ ~(L + 1 < L) /\ L + 1 # L /\ L < len
        <5> HIDE DEF L
        <5>1. QED
          BY <1>2, <3>4
      <4>2. stack'[t][L + 1] = f
        BY <1>3, <4>1
      <4>3. QED
        BY <1>3, <2>3, <3>1, <3>2, <3>4, <4>1, <4>2 DEF Ends
    <3>5. QED
      BY <1>8, <3>1, <3>2, <3>3, <3>4
  <2>4. CASE u = t /\ n > L
    <3>1. stack'[t][n] = f /\ len > L
      BY <1>2, <1>3, <1>9, <2>4
    <3>2. stack'[t][n].kind = "with"
      <4>1. stack'[t] \in Seq(Frame)
        BY DEF Shape, Stacked
      <4>2. stack'[t][n] \in Frame
        BY <1>9, <2>4, <4>1, ElementOfSeq
      <4>3. FrameOK(stack'[t][n], txs')
        BY <1>9, <2>4 DEF Shape, Frames
      <4>4. QED
        BY <1>9, <2>4, <4>2, <4>3 DEF FrameOK, Frame
    <3>3. QED
      BY <1>4, <3>1, <3>2
  <2>5. QED
    BY <1>2, <2>1, <2>2, <2>3, <2>4
<1>10. QED
  BY <1>5, <1>7, <1>9 DEF Ending
\* Every call owes what Finishes says.
LEMMA StepsFinish ==
    ASSUME Base, NEW t \in Task,
           Act(t) \/ Continue(t) \/ (Cancelled(t) /\ Seen({"cancellation"}))
    PROVE  \/ Enter(t)
           \/ Leave(t)
           \/ \E len, g, f : Quiet(t, len, g, f) /\ Finishes(t, len, g, f)
<1> DEFINE L == Len(stack[t])
<1>1. /\ Shape /\ Control /\ made \in Seq(Tx) /\ active \subseteq 1..Len(txs)
      /\ Table
  BY ActiveIndex DEF Base, Histories, Nested, Shape
<1>2. L \in Nat /\ (stack[t] = <<>> <=> L = 0)
      /\ ~(L < L) /\ ~(L > L) /\ L + 1 > L /\ ~(L + 1 < L) /\ L - 1 < L
      /\ ~(L - 1 >= L)
  <2>1. L \in Nat /\ (stack[t] = <<>> <=> L = 0)
    BY <1>1, StackFacts DEF Shape
  <2> HIDE DEF L
  <2>2. QED
    BY <2>1
<1>3. \A i \in 1..Len(txs) :
         RollbackFrame(i).kind = "rollback" /\ RollbackFrame(i).tx = i
  BY <1>1, RollbackFrameType
<1>4. faults \subseteq faults'
  BY StepKinds
<1>5. CASE RollbackAll(t)
  <2>1. PICK f : Quiet(t, L + 1, Top(t), f)
    BY <1>1, <1>5, AllMoves
  <2>2. Finishes(t, L + 1, Top(t), f)
    BY <1>2 DEF Finishes
  <2>3. QED
    BY <2>1, <2>2
<1>6. CASE LeaveAsIs(t) /\ Seen(Uncommitted(t))
  <2>1. PICK g : /\ Quiet(t, L, g, g) /\ txs' = txs
    BY <1>1, <1>6, LeaveMoves
  <2>2. IsActive(Top(t).tx) => "uncommitted" \in faults'
    BY <1>6 DEF Seen, Uncommitted
  <2>3. Finishes(t, L, g, g)
    BY <1>2, <2>1, <2>2 DEF Finishes, IsActive
  <2>4. QED
    BY <2>1, <2>3
<1>7. CASE Operate(t)
  <2>1. Quiet(t, L, Top(t), Top(t))
    BY <1>1, <1>7, OperateMoves
  <2>2. Finishes(t, L, Top(t), Top(t))
    BY <1>2 DEF Finishes
  <2>3. QED
    BY <2>1, <2>2
<1>8. CASE CommitByHand(t) \/ LeaveCommitting(t)
  <2> DEFINE h == NewFrame("commit", "await", Top(t).tx)
  <2>1. PICK g : /\ Top(t).tx \in 1..Len(txs)
                 /\ txs' = Marked(Top(t).tx)
                 /\ \/ ~CommitAwaits(Top(t).tx) /\ Quiet(t, L, g, g)
                    \/ Quiet(t, L + 1, g, h)
    BY <1>1, <1>8, CommitMoves
  <2>2. h.kind = "commit" /\ h.tx = Top(t).tx
    BY DEF NewFrame
  <2> HIDE DEF h
  <2>3. CASE ~CommitAwaits(Top(t).tx) /\ Quiet(t, L, g, g)
    <3>1. txs'[Top(t).tx].state = "committed"
      BY <1>1, <2>1, <2>3, MarkedSet
    <3>2. Finishes(t, L, g, g)
      BY <1>2, <3>1 DEF Finishes
    <3>3. QED
      BY <2>3, <3>2
  <2>4. CASE Quiet(t, L + 1, g, h)
    <3>1. Finishes(t, L + 1, g, h)
      BY <1>2, <2>2 DEF Finishes
    <3>2. QED
      BY <2>4, <3>1
  <2>5. QED
    BY <2>1, <2>3, <2>4
<1>9. CASE RollbackByHand(t) \/ LeaveRaising(t) \/ Propagate(t)
  <2>1. RollbackByHand(t) \/ (On(t, "with", {"body"}) /\ LeaveWithError(t))
    BY <1>9 DEF LeaveRaising, InBlock, Propagate
  <2> DEFINE h == RollbackFrame(Top(t).tx)
  <2>2. PICK g : /\ Top(t).tx \in 1..Len(txs) /\ txs' = txs
                 /\ \/ ~IsActive(Top(t).tx) /\ Quiet(t, L, g, g)
                    \/ Quiet(t, L + 1, g, h)
    BY <1>1, <2>1, RollbackMoves
  <2>3. h.kind = "rollback" /\ h.tx = Top(t).tx
    BY <1>3, <2>2
  <2> HIDE DEF h
  <2>4. CASE ~IsActive(Top(t).tx) /\ Quiet(t, L, g, g)
    <3>1. Finishes(t, L, g, g)
      BY <1>2, <2>2, <2>4 DEF Finishes, IsActive
    <3>2. QED
      BY <2>4, <3>1
  <2>5. CASE Quiet(t, L + 1, g, h)
    <3>1. Finishes(t, L + 1, g, h)
      BY <1>2, <2>3 DEF Finishes
    <3>2. QED
      BY <2>5, <3>1
  <2>6. QED
    BY <2>2, <2>4, <2>5
<1>10. CASE NextChild(t) \/ NextOfAll(t)
  <2>1. PICK g \in Frame, c \in Top(t).left :
           /\ g.phase = "children"
           /\ \/ Quiet(t, L + 1, g, RollbackFrame(c))
              \/ Quiet(t, L, g, g)
    BY <1>1, <1>10, NextMoves
  <2>2. \A f : Finishes(t, L + 1, g, f) /\ Finishes(t, L, g, f)
    BY <1>2, <2>1 DEF Finishes
  <2>3. QED
    BY <2>1, <2>2
<1>11. CASE CommitReturns(t)
  <2>1. /\ Quiet(t, L - 1, Top(t), Top(t)) /\ Top(t).tx \in 1..Len(txs)
        /\ txs' = WithState(Top(t).tx, "committed")
    BY <1>1, <1>11, CommitEnds
  <2>2. txs'[Top(t).tx].state = "committed"
    BY <1>1, <2>1, StateSet
  <2>3. Finishes(t, L - 1, Top(t), Top(t))
    BY <1>2, <2>2 DEF Finishes
  <2>4. QED
    BY <2>1, <2>3
<1>12. CASE OwnOperations(t) /\ Todo(Top(t).tx) # {}
  <2>1. PICK g : Quiet(t, L, g, g) /\ g.phase = "await"
    BY <1>1, <1>12, UndoMoves
  <2>2. Finishes(t, L, g, g)
    BY <1>2, <2>1 DEF Finishes
  <2>3. QED
    BY <2>1, <2>2
<1>13. CASE \/ ChildrenChanged(t)
            \/ OwnOperations(t) /\ Todo(Top(t).tx) = {}
            \/ RollbackReturns(t)
            \/ RollbackFails(t)
            \/ Unwind(t) /\ raised[t] = "error" /\ Top(t).kind = "rollback"
  <2>1. /\ Quiet(t, L - 1, Top(t), Top(t))
        /\ txs'[Top(t).tx].state # "active"
    BY <1>1, <1>13, RollbackEnds
  <2>2. Finishes(t, L - 1, Top(t), Top(t))
    BY <1>2, <2>1 DEF Finishes
  <2>3. QED
    BY <2>1, <2>2
<1>14. CASE \/ EndOfAll(t)
            \/ Unwind(t) /\ ~(raised[t] = "error" /\ Top(t).kind = "rollback")
  <2>1. stack[t] # <<>> /\ Quiet(t, L - 1, Top(t), Top(t))
    BY <1>1, <1>14, PassMoves
  <2>2. \/ Top(t).kind \notin {"commit", "rollback"}
        \/ "cancellation" \in faults'
    <3>1. CASE EndOfAll(t)
      BY <3>1 DEF EndOfAll, RunningOn, On
    <3>2. CASE Unwind(t) /\ raised[t] = "cancel"
      BY <1>1, <1>4, <3>2 DEF Control
    <3>3. CASE Unwind(t) /\ raised[t] # "cancel"
      <4>1. raised[t] = "error"
        BY <1>1, <3>3, ControlFacts DEF Unwind
      <4>2. Top(t).kind # "rollback" /\ Top(t).phase # "await"
        BY <1>1, <1>14, <3>3, <4>1 DEF Control, EndOfAll, RunningOn
      <4>3. FrameOK(Top(t), txs)
        BY <1>1, <2>1, StackFacts DEF Shape, Frames
      <4>4. QED
        BY <4>2, <4>3 DEF FrameOK
    <3>4. QED
      BY <1>14, <3>1, <3>2, <3>3
  <2>3. Finishes(t, L - 1, Top(t), Top(t))
    BY <1>2, <2>2 DEF Finishes
  <2>4. QED
    BY <2>1, <2>3
<1>15. CASE Catch(t) \/ Cancelled(t)
  <2>1. Quiet(t, L, Top(t), Top(t))
    BY <1>1, <1>15, StandMoves
  <2>2. Finishes(t, L, Top(t), Top(t))
    BY <1>2 DEF Finishes
  <2>3. QED
    BY <2>1, <2>2
<1>16. QED
  BY <1>5, <1>6, <1>7, <1>8, <1>9, <1>10, <1>11, <1>12, <1>13, <1>14, <1>15
     DEF Act, Continue
\* Where a block is on top, the ones being left have ended transactions.
LEMMA LeavingEnded ==
    ASSUME Base, Ending, NEW t \in Task,
           stack[t] = <<>> \/ Top(t).kind = "with",
           faults \cap {"cancellation", "uncommitted"} = {}
    PROVE  \A n \in 1..Len(stack[t]) : stack[t][n].phase \in {"exit", "raise"}
              => txs[stack[t][n].tx].state # "active"
<1> DEFINE L == Len(stack[t])
<1>1. Shape /\ L \in Nat
  BY StackFacts DEF Base, Shape
<1>2. \A n \in 1..L : stack[t][n].kind = "with"
  BY <1>1, OnlyBlocks
<1>3. ASSUME NEW n \in 1..L, Ends(stack[t], n, stack[t][n].tx)
      PROVE  FALSE
  <2>1. n < L /\ stack[t][n + 1].kind \in {"commit", "rollback"}
    BY <1>3 DEF Ends
  <2>2. n + 1 \in 1..L
    <3> HIDE DEF L
    <3>1. QED
      BY <1>1, <2>1
  <2>3. QED
    BY <1>2, <2>1, <2>2
<1>4. QED
  BY <1>3 DEF Ending

LEMMA ExitEnded ==
    ASSUME Base, Ending, NEW t \in Task, Leave(t),
           faults \cap {"cancellation", "uncommitted"} = {}
    PROVE  txs[Top(t).tx].state # "active"
<1>1. Shape /\ Control
  BY DEF Base
<1>2. ~(running = t /\ raised[t] = "cancel")
  BY <1>1 DEF Control
<1>3. On(t, "with", {"exit", "raise"})
  BY <1>2 DEF Leave
<1>4. /\ Top(t).kind = "with" /\ Top(t).phase \in {"exit", "raise"}
      /\ Len(stack[t]) \in Nat \ {0} /\ Top(t) = stack[t][Len(stack[t])]
  BY <1>1, <1>3, TopFacts, StackFacts DEF Shape
<1>5. Len(stack[t]) \in 1..Len(stack[t])
  BY <1>4
<1>6. QED
  BY <1>4, <1>5, LeavingEnded

LEMMA BlocksEnding ==
    ASSUME Base, Ending, NEW t \in Task, Enter(t) \/ Leave(t),
           faults \subseteq faults'
    PROVE  Ending'
<1> DEFINE L == Len(stack[t])
           k == Len(txs)
<1>1. /\ Shape /\ Control /\ current \in 0..k
  BY DEF Base, Nested
<1>2. L \in Nat /\ k \in Nat /\ Top(t) = stack[t][L]
  BY <1>1, StackFacts, TableFacts DEF Shape
<1>3. SUFFICES ASSUME faults' \cap {"cancellation", "uncommitted"} = {}
               PROVE  Ending'
  BY DEF Ending
<1>4. /\ \A i \in 1..k : txs[i].state = "active" => i \in active
      /\ \A u \in Task : \A n \in 1..Len(stack[u]) :
            /\ stack[u][n].phase \in {"exit", "raise"}
            /\ txs[stack[u][n].tx].state = "active"
            => Ends(stack[u], n, stack[u][n].tx)
  BY <1>3 DEF Ending
<1>5. stack[t] = <<>> \/ Top(t).kind = "with"
  BY <1>1, EnterMoves, ExitMoves
<1>6. /\ faults \cap {"cancellation", "uncommitted"} = {}
      /\ \A n \in 1..L : stack[t][n].phase \in {"exit", "raise"}
            => txs[stack[t][n].tx].state # "active"
  BY <1>3, <1>5, LeavingEnded
<1>7. \A u \in Task : \A n \in 1..Len(stack[u]) :
         stack[u][n].phase \in {"exit", "raise"} => stack[u][n].tx \in 1..k
  BY <1>1, PhaseFacts
<1>8. CASE Enter(t)
  <2> DEFINE f == NewFrame("with", "body", k + 1)
  <2>1. /\ f.phase = "body"
        /\ stack[t] # <<>> => Top(t).phase = "body"
        /\ Step(t, L + 1, Top(t), f)
        /\ Len(txs') = k + 1
        /\ \A i \in 1..k : txs'[i] = txs[i]
        /\ active' = active \cup {k + 1}
    BY <1>1, <1>8, EnterMoves
  <2> HIDE DEF f
  <2>2. /\ \A u \in Task : u # t => stack'[u] = stack[u]
        /\ Len(stack'[t]) = L + 1
        /\ \A n \in 1..(L + 1) :
              stack'[t][n] = IF n < L THEN stack[t][n]
                             ELSE IF n = L THEN Top(t) ELSE f
    BY <2>1 DEF Step
  <2>3. \A n \in 1..(L + 1) :
           (n \in 1..L /\ stack'[t][n] = stack[t][n]) \/ stack'[t][n] = f
    <3> HIDE DEF L
    <3>1. QED
      BY <1>2, <2>2
  <2>4. \A i \in 1..(k + 1) : i \in 1..k \/ i = k + 1
    <3> HIDE DEF k
    <3>1. QED
      BY <1>2
  <2>5. \A i \in 1..Len(txs') : txs'[i].state = "active" => i \in active'
    BY <1>4, <2>1, <2>4
  <2>6. ASSUME NEW u \in Task, NEW n \in 1..Len(stack'[u]),
               stack'[u][n].phase \in {"exit", "raise"},
               txs'[stack'[u][n].tx].state = "active"
        PROVE  Ends(stack'[u], n, stack'[u][n].tx)
    <3>1. CASE u = t
      <4>1. n \in 1..L /\ stack'[t][n] = stack[t][n]
        BY <2>1, <2>2, <2>3, <2>6, <3>1
      <4>2. stack[t][n].tx \in 1..k
        BY <1>7, <2>6, <3>1, <4>1
      <4>3. txs[stack[t][n].tx].state = "active"
        BY <2>1, <2>6, <3>1, <4>1, <4>2
      <4>4. QED
        BY <1>6, <2>6, <3>1, <4>1, <4>3
    <3>2. CASE u # t
      <4>1. stack'[u] = stack[u] /\ n \in 1..Len(stack[u])
        BY <2>2, <3>2
      <4>2. stack[u][n].tx \in 1..k
        BY <1>7, <2>6, <4>1
      <4>3. txs[stack[u][n].tx].state = "active"
        BY <2>1, <2>6, <4>1, <4>2
      <4>4. QED
        BY <1>4, <2>6, <4>1, <4>3
    <3>3. QED
      BY <3>1, <3>2
  <2>7. QED
    BY <2>5, <2>6 DEF Ending
<1>9. CASE Leave(t)
  <2>1. /\ stack[t] # <<>> /\ Top(t).tx \in 1..k
        /\ Step(t, L - 1, Top(t), Top(t))
        /\ txs' = txs
        /\ active' = active \ {Top(t).tx}
    BY <1>1, <1>9, ExitMoves
  <2>2. /\ \A u \in Task : u # t => stack'[u] = stack[u]
        /\ Len(stack'[t]) = L - 1
        /\ \A n \in 1..(L - 1) :
              stack'[t][n] = IF n < L THEN stack[t][n]
                             ELSE IF n = L THEN Top(t) ELSE Top(t)
    BY <2>1 DEF Step
  <2>3. /\ \A n \in 1..(L - 1) : n \in 1..L /\ stack'[t][n] = stack[t][n]
        /\ L \in 1..L
    <3>1. L # 0
      BY <1>1, <2>1, StackFacts DEF Shape
    <3> HIDE DEF L
    <3>2. QED
      BY <1>2, <2>2, <3>1
  <2>4. txs[Top(t).tx].state # "active"
    BY <1>6, <1>9, ExitEnded
  <2>5. \A i \in 1..Len(txs') : txs'[i].state = "active" => i \in active'
    BY <1>4, <2>1, <2>4
  <2>6. ASSUME NEW u \in Task, NEW n \in 1..Len(stack'[u]),
               stack'[u][n].phase \in {"exit", "raise"},
               txs'[stack'[u][n].tx].state = "active"
        PROVE  Ends(stack'[u], n, stack'[u][n].tx)
    <3>1. CASE u = t
      BY <1>6, <2>1, <2>2, <2>3, <2>6, <3>1
    <3>2. CASE u # t
      BY <1>4, <2>1, <2>2, <2>6, <3>2
    <3>3. QED
      BY <3>1, <3>2
  <2>7. QED
    BY <2>5, <2>6 DEF Ending
<1>10. QED
  BY <1>8, <1>9

LEMMA EndingAlways == Spec => []Ending
<1>1. Init => Ending
  BY DEF Init, Ending
<1>2. ASSUME Base, Ending, Base', Next
      PROVE  Ending'
  <2>1. PICK t \in Task :
           Act(t) \/ Continue(t) \/ (Cancelled(t) /\ Seen({"cancellation"}))
    BY <1>2 DEF Next
  <2>2. faults \subseteq faults' /\ Shape'
    BY <1>2, <2>1, StepKinds DEF Base
  <2>3. \/ Enter(t)
        \/ Leave(t)
        \/ \E len, g, f : Quiet(t, len, g, f) /\ Finishes(t, len, g, f)
    BY <1>2, <2>1, StepsFinish
  <2>4. QED
    BY <1>2, <2>2, <2>3, BlocksEnding, EndingKept
<1>3. ASSUME Ending, UNCHANGED vars
      PROVE  Ending'
  BY <1>3 DEF Ending, vars
<1>4. QED
  BY <1>1, <1>2, <1>3, BaseAlways, PTL DEF Spec

\* A block that has been left has committed or undone its operations, also
\* when tasks overlap and undoing fails.
THEOREM NoneLeftCorrect == Spec => []NoneLeftActive
<1>1. ASSUME Base, Ending
      PROVE  NoneLeftActive
  <2> SUFFICES ASSUME faults \cap {"cancellation", "uncommitted"} = {},
                      NEW i \in DOMAIN txs, IsActive(i)
               PROVE  \E t \in Task : i \in Blocks(t)
    BY DEF NoneLeftActive
  <2>1. i \in 1..Len(txs)
    BY <1>1, TableFacts DEF Base, Shape
  <2>2. i \in active
    BY <1>1, <2>1 DEF Ending, IsActive
  <2>3. active = UNION {Blocks(t) : t \in Task}
    BY <1>1, BaseActive DEF ActiveIsOpen
  <2>4. QED
    BY <2>2, <2>3
<1>2. QED
  BY <1>1, BaseAlways, EndingAlways, PTL

(****************************************************************************)
(* Counting the outcomes.                                                   *)
(****************************************************************************)

\* The transactions whose blocks have been left, in one of the states.
EndedIn(states) ==
    {i \in 1..Len(txs) : txs[i].state \in states /\ i \notin active}

\* With nothing but failed undoings, what is being ended has its block open,
\* and the counters agree with the outcomes.
Counting ==
    faults \subseteq {"failure"} =>
        /\ \A t \in Task : \A n \in 1..Len(stack[t]) :
              stack[t][n].kind \in {"commit", "rollback"} =>
                  stack[t][n].tx \in active
        /\ successful = Cardinality(EndedIn({"committed"}))
        /\ failed = Cardinality(EndedIn({"rolled_back", "failed"}))

\* What a step owes to the counters.
Settles(t, len, f) ==
    /\ \A j \in 1..Len(txs) : txs'[j].state # txs[j].state => j \in active
    /\ len > Len(stack[t]) /\ f.kind \in {"commit", "rollback"} =>
          f.tx \in active
    /\ UNCHANGED <<successful, failed>>

LEMMA CountingKept ==
    ASSUME Base, Counting, NEW t \in Task, NEW len, NEW g, NEW f,
           Quiet(t, len, g, f),
           faults' \subseteq {"failure"} => Settles(t, len, f),
           faults \subseteq faults'
    PROVE  Counting'
<1> DEFINE L == Len(stack[t])
<1>1. /\ L \in Nat /\ len \in Nat /\ len \in {L - 1, L, L + 1}
      /\ stack[t] = <<>> <=> L = 0
      /\ Top(t) = stack[t][L]
  BY StackFacts DEF Quiet, Step, Base, Shape
<1>2. /\ \A u \in Task : u # t => stack'[u] = stack[u]
      /\ Len(stack'[t]) = len
      /\ \A n \in 1..len :
            stack'[t][n] = IF n < L THEN stack[t][n]
                           ELSE IF n = L THEN g ELSE f
  BY DEF Quiet, Step
<1>3. L # 0 /\ len >= L => g.kind = Top(t).kind /\ g.tx = Top(t).tx
  BY <1>1 DEF Quiet, Fit
<1>4. Len(txs') = Len(txs) /\ active' = active
  BY DEF Quiet, TableKept
<1>5. SUFFICES ASSUME faults' \subseteq {"failure"}
               PROVE  Counting'
  BY DEF Counting
<1>6. /\ \A u \in Task : \A n \in 1..Len(stack[u]) :
            stack[u][n].kind \in {"commit", "rollback"} =>
                stack[u][n].tx \in active
      /\ successful = Cardinality(EndedIn({"committed"}))
      /\ failed = Cardinality(EndedIn({"rolled_back", "failed"}))
  BY <1>5 DEF Counting
<1>7. /\ \A j \in 1..Len(txs) : txs'[j].state # txs[j].state => j \in active
      /\ len > L /\ f.kind \in {"commit", "rollback"} => f.tx \in active
      /\ UNCHANGED <<successful, failed>>
  BY <1>5 DEF Settles
<1>8. \A states : EndedIn(states)' = EndedIn(states)
  BY <1>4, <1>7 DEF EndedIn
<1>9. ASSUME NEW u \in Task, NEW n \in 1..Len(stack'[u]),
             stack'[u][n].kind \in {"commit", "rollback"}
      PROVE  stack'[u][n].tx \in active
  <2>1. CASE u # t
    BY <1>2, <1>6, <1>9, <2>1
  <2>2. CASE u = t /\ n < L
    <3>1. n \in 1..L /\ stack'[t][n] = stack[t][n]
      BY <1>1, <1>2, <1>9, <2>2
    <3>2. QED
      BY <1>6, <1>9, <2>2, <3>1
  <2>3. CASE u = t /\ n = L
    <3>1. /\ stack'[t][n].kind = stack[t][L].kind
          /\ stack'[t][n].tx = stack[t][L].tx
          /\ L \in 1..L
      BY <1>1, <1>2, <1>3, <1>9, <2>3
    <3>2. QED
      BY <1>6, <1>9, <2>3, <3>1
  <2>4. CASE u = t /\ n > L
    <3>1. stack'[t][n] = f /\ len > L
      BY <1>1, <1>2, <1>9, <2>4
    <3>2. QED
      BY <1>7, <1>9, <2>4, <3>1
  <2>5. QED
    BY <1>1, <2>1, <2>2, <2>3, <2>4
<1>10. /\ EndedIn({"committed"})' = EndedIn({"committed"})
       /\ EndedIn({"rolled_back", "failed"})'
             = EndedIn({"rolled_back", "failed"})
  BY <1>8
<1>11. /\ successful' = Cardinality(EndedIn({"committed"}))'
       /\ failed' = Cardinality(EndedIn({"rolled_back", "failed"}))'
  BY <1>6, <1>7, <1>10
<1>12. QED
  BY <1>4, <1>9, <1>11 DEF Counting

\* Every call owes what Settles says.
LEMMA StepsSettle ==
    ASSUME Base, Ending, Counting, NEW t \in Task,
           Act(t) \/ Continue(t) \/ (Cancelled(t) /\ Seen({"cancellation"})),
           faults' \subseteq {"failure"}
    PROVE  \/ Enter(t)
           \/ Leave(t)
           \/ \E len, g, f : Quiet(t, len, g, f) /\ Settles(t, len, f)
<1> DEFINE L == Len(stack[t])
<1>1. /\ Shape /\ Control /\ made \in Seq(Tx) /\ active \subseteq 1..Len(txs)
      /\ Table
  BY ActiveIndex DEF Base, Histories, Nested, Shape
<1>2. L \in Nat /\ Top(t) = stack[t][L] /\ ~(L > L) /\ ~(L - 1 > L)
      /\ (stack[t] # <<>> => L \in 1..L)
  <2>1. L \in Nat /\ (stack[t] = <<>> <=> L = 0) /\ Top(t) = stack[t][L]
    BY <1>1, StackFacts DEF Shape
  <2> HIDE DEF L
  <2>2. QED
    BY <2>1
<1>3. \A i \in 1..Len(txs) :
         RollbackFrame(i).kind = "rollback" /\ RollbackFrame(i).tx = i
  BY <1>1, RollbackFrameType
<1>4. faults \subseteq {"failure"}
  BY StepKinds
<1>5. /\ \A j \in 1..Len(txs) : IsActive(j) => j \in active
      /\ stack[t] # <<>> /\ Top(t).kind = "with" => Top(t).tx \in active
      /\ stack[t] # <<>> /\ Top(t).kind \in {"commit", "rollback"} =>
            Top(t).tx \in active
  <2>1. \A j \in 1..Len(txs) : IsActive(j) => j \in active
    BY <1>4 DEF Ending, IsActive
  <2>2. stack[t] # <<>> /\ Top(t).kind = "with" => Top(t).tx \in active
    BY <1>2 DEF Base, Nested, Exact, IsBlock
  <2>3. stack[t] # <<>> /\ Top(t).kind \in {"commit", "rollback"} =>
           Top(t).tx \in active
    BY <1>2, <1>4 DEF Counting
  <2>4. QED
    BY <2>1, <2>2, <2>3
<1>6. CASE RollbackAll(t)
  <2>1. PICK f : Quiet(t, L + 1, Top(t), f) /\ txs' = txs /\ f.kind = "all"
    BY <1>1, <1>6, AllMoves
  <2>2. Settles(t, L + 1, f)
    BY <1>6, <2>1 DEF Settles, RollbackAll
  <2>3. QED
    BY <2>1, <2>2
<1>7. CASE LeaveAsIs(t)
  <2>1. PICK g : Quiet(t, L, g, g) /\ txs' = txs
    BY <1>1, <1>7, LeaveMoves
  <2>2. Settles(t, L, g)
    BY <1>2, <1>7, <2>1 DEF Settles, LeaveAsIs
  <2>3. QED
    BY <2>1, <2>2
<1>8. CASE Operate(t)
  <2>1. /\ Quiet(t, L, Top(t), Top(t))
        /\ \A j \in 1..Len(txs) : txs'[j].state = txs[j].state
    BY <1>1, <1>8, OperateMoves
  <2>2. Settles(t, L, Top(t))
    BY <1>2, <1>8, <2>1 DEF Settles, Operate
  <2>3. QED
    BY <2>1, <2>2
<1>9. CASE CommitByHand(t) \/ LeaveCommitting(t)
  <2> DEFINE h == NewFrame("commit", "await", Top(t).tx)
  <2>1. PICK g : /\ stack[t] # <<>> /\ Top(t).kind = "with"
                 /\ Top(t).tx \in 1..Len(txs)
                 /\ txs' = Marked(Top(t).tx)
                 /\ UNCHANGED <<successful, failed>>
                 /\ \/ Quiet(t, L, g, g)
                    \/ Quiet(t, L + 1, g, h)
    BY <1>1, <1>9, CommitMoves
  <2>2. h.tx = Top(t).tx
    BY DEF NewFrame
  <2> HIDE DEF h
  <2>3. \A j \in 1..Len(txs) :
           txs'[j] # txs[j] => j = Top(t).tx \/ IsActive(j)
    BY <1>1, <2>1, MarkedSet
  <2>4. \A j \in 1..Len(txs) : txs'[j].state # txs[j].state => j \in active
    BY <1>5, <2>1, <2>3
  <2>5. Settles(t, L, g) /\ Settles(t, L + 1, h)
    BY <1>2, <1>5, <2>1, <2>2, <2>4 DEF Settles
  <2>6. QED
    BY <2>1, <2>5
<1>10. CASE RollbackByHand(t) \/ LeaveRaising(t) \/ Propagate(t)
  <2>1. RollbackByHand(t) \/ (On(t, "with", {"body"}) /\ LeaveWithError(t))
    BY <1>10 DEF LeaveRaising, InBlock, Propagate
  <2> DEFINE h == RollbackFrame(Top(t).tx)
  <2>2. PICK g : /\ stack[t] # <<>> /\ Top(t).kind = "with"
                 /\ Top(t).tx \in 1..Len(txs) /\ txs' = txs
                 /\ \/ Quiet(t, L, g, g)
                    \/ Quiet(t, L + 1, g, h)
    BY <1>1, <2>1, RollbackMoves
  <2>3. h.tx = Top(t).tx
    BY <1>3, <2>2
  <2> HIDE DEF h
  <2>4. UNCHANGED <<successful, failed>>
    BY <2>1 DEF RollbackByHand, LeaveWithError
  <2>5. Settles(t, L, g) /\ Settles(t, L + 1, h)
    BY <1>2, <1>5, <2>2, <2>3, <2>4 DEF Settles
  <2>6. QED
    BY <2>2, <2>5
<1>11. CASE NextChild(t) \/ NextOfAll(t)
  <2>1. PICK g \in Frame, c \in Top(t).left :
           /\ txs' = txs /\ c \in 1..Len(txs)
           /\ \/ IsActive(c) /\ Quiet(t, L + 1, g, RollbackFrame(c))
              \/ Quiet(t, L, g, g)
    BY <1>1, <1>11, NextMoves
  <2> DEFINE h == RollbackFrame(c)
  <2>2. h.tx = c
    BY <1>3, <2>1
  <2> HIDE DEF h
  <2>3. UNCHANGED <<successful, failed>>
    BY <1>11 DEF NextChild, NextOfAll
  <2>4. CASE IsActive(c) /\ Quiet(t, L + 1, g, h)
    <3>1. Settles(t, L + 1, h)
      BY <1>5, <2>1, <2>2, <2>3, <2>4 DEF Settles
    <3>2. QED
      BY <2>4, <3>1
  <2>5. CASE Quiet(t, L, g, g)
    <3>1. Settles(t, L, g)
      BY <1>2, <2>1, <2>3 DEF Settles
    <3>2. QED
      BY <2>5, <3>1
  <2>6. QED
    BY <2>1, <2>4, <2>5 DEF h
<1>12. CASE CommitReturns(t)
  <2>1. /\ Quiet(t, L - 1, Top(t), Top(t)) /\ Top(t).tx \in 1..Len(txs)
        /\ Top(t).kind = "commit" /\ stack[t] # <<>>
        /\ txs' = WithState(Top(t).tx, "committed")
    BY <1>1, <1>12, CommitEnds DEF CommitReturns, On
  <2>2. \A j \in 1..Len(txs) : j # Top(t).tx => txs'[j] = txs[j]
    BY <1>1, <2>1, StateSet
  <2>3. Settles(t, L - 1, Top(t))
    BY <1>2, <1>5, <1>12, <2>1, <2>2 DEF Settles, CommitReturns
  <2>4. QED
    BY <2>1, <2>3
<1>13. CASE OwnOperations(t) /\ Todo(Top(t).tx) # {}
  <2>1. PICK g : Quiet(t, L, g, g) /\ txs' = txs
    BY <1>1, <1>13, UndoMoves
  <2>2. Settles(t, L, g)
    BY <1>2, <1>13, <2>1 DEF Settles, OwnOperations
  <2>3. QED
    BY <2>1, <2>2
<1>14. CASE \/ ChildrenChanged(t)
            \/ OwnOperations(t) /\ Todo(Top(t).tx) = {}
            \/ RollbackReturns(t)
            \/ RollbackFails(t)
            \/ Unwind(t) /\ raised[t] = "error" /\ Top(t).kind = "rollback"
  <2>1. /\ Quiet(t, L - 1, Top(t), Top(t))
        /\ stack[t] # <<>> /\ Top(t).kind = "rollback"
        /\ \A j \in 1..Len(txs) : j # Top(t).tx => txs'[j] = txs[j]
    BY <1>1, <1>14, RollbackEnds
  <2>2. UNCHANGED <<successful, failed>>
    BY <1>14 DEF ChildrenChanged, OwnOperations, RollbackReturns,
         RollbackFails, Unwind
  <2>3. Settles(t, L - 1, Top(t))
    BY <1>2, <1>5, <2>1, <2>2 DEF Settles
  <2>4. QED
    BY <2>1, <2>3
<1>15. CASE \/ EndOfAll(t)
            \/ Unwind(t) /\ ~(raised[t] = "error" /\ Top(t).kind = "rollback")
  <2>1. Quiet(t, L - 1, Top(t), Top(t)) /\ txs' = txs
    BY <1>1, <1>15, PassMoves
  <2>2. Settles(t, L - 1, Top(t))
    BY <1>2, <1>15, <2>1 DEF Settles, EndOfAll, Unwind
  <2>3. QED
    BY <2>1, <2>2
<1>16. CASE Catch(t) \/ Cancelled(t)
  <2>1. Quiet(t, L, Top(t), Top(t)) /\ txs' = txs
    BY <1>1, <1>16, StandMoves
  <2>2. Settles(t, L, Top(t))
    BY <1>2, <1>16, <2>1 DEF Settles, Catch, Cancelled
  <2>3. QED
    BY <2>1, <2>2
<1>17. QED
  BY <1>6, <1>7, <1>8, <1>9, <1>10, <1>11, <1>12, <1>13, <1>14, <1>15, <1>16
     DEF Act, Continue
LEMMA EnterCounting ==
    ASSUME Base, Counting, NEW t \in Task, Enter(t), faults \subseteq faults'
    PROVE  Counting'
<1> DEFINE L == Len(stack[t])
           k == Len(txs)
           f == NewFrame("with", "body", k + 1)
<1>1. Shape /\ current \in 0..k /\ active \subseteq 1..k
  BY ActiveIndex DEF Base, Nested
<1>2. L \in Nat /\ k \in Nat /\ k + 1 \notin 1..k
  BY <1>1, StackFacts, TableFacts DEF Shape
<1>3. /\ f.kind = "with"
      /\ stack[t] # <<>> => Top(t).kind = "with"
      /\ Step(t, L + 1, Top(t), f)
      /\ Len(txs') = k + 1
      /\ \A i \in 1..k : txs'[i] = txs[i]
      /\ txs'[k + 1].state = "active"
      /\ active' = active \cup {k + 1}
  BY <1>1, EnterMoves
<1> HIDE DEF f
<1>4. /\ \A u \in Task : u # t => stack'[u] = stack[u]
      /\ Len(stack'[t]) = L + 1
      /\ \A n \in 1..(L + 1) :
            stack'[t][n] = IF n < L THEN stack[t][n]
                           ELSE IF n = L THEN Top(t) ELSE f
  BY <1>3 DEF Step
<1>5. \A n \in 1..L : stack[t][n].kind = "with"
  BY <1>1, <1>3, OnlyBlocks
<1>6. \A n \in 1..(L + 1) : stack'[t][n].kind = "with"
  <2>1. Top(t) = stack[t][L]
    BY <1>1, StackFacts DEF Shape
  <2> HIDE DEF L
  <2>2. QED
    BY <1>2, <1>3, <1>4, <1>5, <2>1
<1>7. \A states : "active" \notin states => EndedIn(states)' = EndedIn(states)
  <2> SUFFICES ASSUME NEW states, "active" \notin states
               PROVE  EndedIn(states)' = EndedIn(states)
    OBVIOUS
  <2>1. \A i \in 1..(k + 1) : i \in 1..k \/ i = k + 1
    <3> HIDE DEF k
    <3>1. QED
      BY <1>2
  <2>2. 1..k \subseteq 1..(k + 1)
    <3> HIDE DEF k
    <3>1. QED
      BY <1>2
  <2>3. EndedIn(states)'
           = {i \in 1..(k + 1) : txs'[i].state \in states /\ i \notin active'}
    BY <1>3 DEF EndedIn
  <2>4. QED
    BY <1>2, <1>3, <2>1, <2>2, <2>3 DEF EndedIn
<1>8. UNCHANGED <<successful, failed>>
  BY DEF Enter
<1>9. SUFFICES ASSUME faults' \subseteq {"failure"}
               PROVE  Counting'
  BY DEF Counting
<1>10. /\ \A u \in Task : \A n \in 1..Len(stack[u]) :
             stack[u][n].kind \in {"commit", "rollback"} =>
                 stack[u][n].tx \in active
       /\ successful = Cardinality(EndedIn({"committed"}))
       /\ failed = Cardinality(EndedIn({"rolled_back", "failed"}))
  BY <1>9 DEF Counting
<1>11. ASSUME NEW u \in Task, NEW n \in 1..Len(stack'[u]),
              stack'[u][n].kind \in {"commit", "rollback"}
       PROVE  stack'[u][n].tx \in active'
  <2>1. u # t
    BY <1>4, <1>6, <1>11
  <2>2. QED
    BY <1>3, <1>4, <1>10, <1>11, <2>1
<1>12. /\ EndedIn({"committed"})' = EndedIn({"committed"})
       /\ EndedIn({"rolled_back", "failed"})'
             = EndedIn({"rolled_back", "failed"})
  BY <1>7
<1>13. QED
  BY <1>8, <1>10, <1>11, <1>12 DEF Counting

LEMMA ExitCounting ==
    ASSUME Base, Ending, Counting, NEW t \in Task, Leave(t),
           faults \subseteq faults'
    PROVE  Counting'
<1> DEFINE L == Len(stack[t])
           k == Len(txs)
           i == Top(t).tx
<1>1. Shape /\ Turns /\ Exact
  BY DEF Base, Nested
<1>2. /\ L \in Nat /\ k \in Nat /\ Top(t) = stack[t][L]
      /\ (stack[t] = <<>> <=> L = 0)
      /\ txs[i] \in Transaction
  BY <1>1, StackFacts, TableFacts, ExitMoves DEF Shape
<1>3. /\ stack[t] # <<>> /\ Top(t).kind = "with" /\ i \in 1..k
      /\ Step(t, L - 1, Top(t), Top(t))
      /\ txs' = txs
      /\ active' = active \ {i}
      /\ successful' = successful
           + (IF txs[i].state = "committed" THEN 1 ELSE 0)
      /\ failed' = failed
           + (IF txs[i].state \in {"rolled_back", "failed"} THEN 1 ELSE 0)
  BY <1>1, ExitMoves
<1>4. /\ \A u \in Task : u # t => stack'[u] = stack[u]
      /\ Len(stack'[t]) = L - 1
      /\ \A n \in 1..(L - 1) :
            stack'[t][n] = IF n < L THEN stack[t][n]
                           ELSE IF n = L THEN Top(t) ELSE Top(t)
  BY <1>3 DEF Step
<1>5. \A n \in 1..L : stack[t][n].kind = "with"
  BY <1>1, <1>3, OnlyBlocks
<1>6. \A n \in 1..(L - 1) : stack'[t][n].kind = "with"
  <2> HIDE DEF L
  <2>1. QED
    BY <1>2, <1>4, <1>5
<1>7. i \in active
  <2>1. L \in 1..L
    BY <1>2, <1>3
  <2>2. IsBlock(stack[t][L])
    BY <1>2, <1>3 DEF IsBlock
  <2>3. QED
    BY <1>1, <1>2, <2>1, <2>2 DEF Exact
<1>8. SUFFICES ASSUME faults' \subseteq {"failure"}
               PROVE  Counting'
  BY DEF Counting
<1>9. /\ successful = Cardinality(EndedIn({"committed"}))
      /\ failed = Cardinality(EndedIn({"rolled_back", "failed"}))
      /\ \A u \in Task : u # t => stack[u] = <<>>
  BY <1>1, <1>3, <1>8 DEF Counting, Turns
<1>10. ASSUME NEW u \in Task, NEW n \in 1..Len(stack'[u])
       PROVE  stack'[u][n].kind = "with"
  <2>1. Len(<<>>) = 0
    OBVIOUS
  <2>2. u = t
    BY <1>4, <1>9, <1>10, <2>1
  <2>3. QED
    BY <1>4, <1>6, <1>10, <2>2
<1>11. ASSUME NEW states
       PROVE  /\ EndedIn(states)' = EndedIn(states)
                    \cup (IF txs[i].state \in states THEN {i} ELSE {})
              /\ i \notin EndedIn(states)
              /\ IsFiniteSet(EndedIn(states))
  <2>1. IsFiniteSet(1..k)
    <3>1. 1 \in Int /\ k \in Int
      BY <1>2
    <3> HIDE DEF k
    <3>2. QED
      BY <3>1, FS_Interval
  <2>2. EndedIn(states) \subseteq 1..k
    BY DEF EndedIn
  <2>3. EndedIn(states)'
           = {j \in 1..k : txs[j].state \in states /\ j \notin active \ {i}}
    BY <1>3 DEF EndedIn
  <2>4. QED
    BY <1>3, <1>7, <2>1, <2>2, <2>3, FS_Subset DEF EndedIn
<1>12. ASSUME NEW states
       PROVE  Cardinality(EndedIn(states)')
                 = Cardinality(EndedIn(states))
                     + (IF txs[i].state \in states THEN 1 ELSE 0)
  <2> DEFINE E == EndedIn(states)
             F == EndedIn(states)'
  <2>1. /\ F = E \cup (IF txs[i].state \in states THEN {i} ELSE {})
        /\ i \notin E /\ IsFiniteSet(E)
    BY <1>11
  <2> HIDE DEF E, F
  <2>2. Cardinality(E) \in Nat
    BY <2>1, FS_CardinalityType
  <2>3. CASE txs[i].state \in states
    <3>1. Cardinality(E \cup {i}) = Cardinality(E) + 1
      BY <2>1, FS_AddElement
    <3>2. QED
      BY <2>1, <2>3, <3>1 DEF E, F
  <2>4. CASE txs[i].state \notin states
    <3>1. F = E
      BY <2>1, <2>4
    <3>2. QED
      BY <2>2, <2>4, <3>1 DEF E, F
  <2>5. QED
    BY <2>3, <2>4
<1>13. /\ successful' = Cardinality(EndedIn({"committed"})')
       /\ failed' = Cardinality(EndedIn({"rolled_back", "failed"})')
  <2>1. /\ Cardinality(EndedIn({"committed"})')
              = Cardinality(EndedIn({"committed"}))
                  + (IF txs[i].state \in {"committed"} THEN 1 ELSE 0)
        /\ Cardinality(EndedIn({"rolled_back", "failed"})')
              = Cardinality(EndedIn({"rolled_back", "failed"}))
                  + (IF txs[i].state \in {"rolled_back", "failed"}
                     THEN 1 ELSE 0)
    BY <1>12
  <2>2. txs[i].state \in {"committed"} <=> txs[i].state = "committed"
    OBVIOUS
  <2>3. QED
    BY <1>3, <1>9, <2>1, <2>2
<1>14. QED
  BY <1>10, <1>13 DEF Counting

LEMMA CountingAlways == Spec => []Counting
<1>1. Init => Counting
  <2> SUFFICES ASSUME Init
               PROVE  Counting
    OBVIOUS
  <2>1. \A states : EndedIn(states) = {}
    BY DEF Init, EndedIn
  <2>2. Cardinality({}) = 0
    BY FS_EmptySet
  <2>3. /\ EndedIn({"committed"}) = {} /\ EndedIn({"rolled_back", "failed"}) = {}
    BY <2>1
  <2>4. /\ successful = Cardinality(EndedIn({"committed"}))
        /\ failed = Cardinality(EndedIn({"rolled_back", "failed"}))
    <3>1. successful = 0 /\ failed = 0
      BY DEF Init
    <3>2. QED
      BY <2>2, <2>3, <3>1
  <2>5. \A t \in Task : \A n \in 1..Len(stack[t]) : FALSE
    BY DEF Init
  <2>6. QED
    BY <2>4, <2>5 DEF Counting
<1>2. ASSUME Base, Ending, Counting, Next
      PROVE  Counting'
  <2>1. PICK t \in Task :
           Act(t) \/ Continue(t) \/ (Cancelled(t) /\ Seen({"cancellation"}))
    BY <1>2 DEF Next
  <2>2. faults \subseteq faults'
    BY <2>1, StepKinds
  <2>3. CASE faults' \subseteq {"failure"}
    <3>1. \/ Enter(t)
          \/ Leave(t)
          \/ \E len, g, f : Quiet(t, len, g, f) /\ Settles(t, len, f)
      BY <1>2, <2>1, <2>3, StepsSettle
    <3>2. QED
      BY <1>2, <2>2, <3>1, EnterCounting, ExitCounting, CountingKept
  <2>4. CASE ~(faults' \subseteq {"failure"})
    BY <2>4 DEF Counting
  <2>5. QED
    BY <2>3, <2>4
<1>3. ASSUME Counting, UNCHANGED vars
      PROVE  Counting'
  BY <1>3 DEF Counting, vars, EndedIn
<1>4. QED
  BY <1>1, <1>2, <1>3, BaseAlways, EndingAlways, PTL DEF Spec

\* The counters tell the outcomes of the blocks left so far, whether undoing
\* failed or not, with tasks that take turns and no block left active.
THEOREM CountersCorrect == Spec => []CountersAgree
<1>1. ASSUME Base, Counting
      PROVE  CountersAgree
  <2>1. DOMAIN txs = 1..Len(txs)
    BY <1>1, TableFacts DEF Base, Shape
  <2>2. QED
    BY <1>1, <2>1 DEF Counting, CountersAgree, EndedIn
<1>2. QED
  BY <1>1, BaseAlways, CountingAlways, PTL

(****************************************************************************)
(* What stands in Odoo.                                                     *)
(****************************************************************************)

OpsIn(i) == {n \in 1..Len(made) : made[n] = i}

\* The logs tell the operations, which stand unless they are rolled back.
Told ==
    /\ \A i \in 1..Len(txs) :
          /\ txs[i].state # "failed"
          /\ txs[i].state # "rolled_back" =>
                txs[i].log = OpsIn(i) /\ OpsIn(i) \subseteq standing
          /\ txs[i].state = "rolled_back" => OpsIn(i) \cap standing = {}
    /\ tried \cap standing = {}
    /\ tried \subseteq 1..Len(made)
    /\ \A n \in 1..Len(made) : made[n] \in 1..Len(txs)

\* What is being ended is active, all its operations are undone at once, and
\* an exception is never on its way through a call.
Calling ==
    /\ \A t \in Task : \A n \in 1..Len(stack[t]) :
          /\ stack[t][n].kind \in {"commit", "rollback"} =>
                txs[stack[t][n].tx].state = "active"
          /\ stack[t][n].kind = "rollback" /\ stack[t][n].phase = "await" =>
                stack[t][n].ops = OpsIn(stack[t][n].tx)
    /\ \A t \in Task : raised[t] = "error" => Top(t).kind = "with"

Logging == faults \subseteq {"uncommitted"} => Told /\ Calling

LEMMA SameTold ==
    ASSUME Told, UNCHANGED <<txs, made, standing, tried>>
    PROVE  Told'
BY DEF Told, OpsIn

\* Active transactions become committed.
LEMMA CommitTold ==
    ASSUME Told, UNCHANGED <<made, standing, tried>>, Len(txs') = Len(txs),
           \A j \in 1..Len(txs) :
              /\ txs'[j].log = txs[j].log
              /\ txs'[j].state # txs[j].state =>
                    txs[j].state = "active" /\ txs'[j].state = "committed"
    PROVE  Told'
<1>1. \A i : OpsIn(i)' = OpsIn(i)
  BY DEF OpsIn
<1>2. ASSUME NEW i \in 1..Len(txs)
      PROVE  /\ txs'[i].state # "failed"
             /\ txs'[i].state # "rolled_back" =>
                   txs'[i].log = OpsIn(i) /\ OpsIn(i) \subseteq standing
             /\ txs'[i].state = "rolled_back" => OpsIn(i) \cap standing = {}
  BY DEF Told
<1>3. QED
  BY <1>1, <1>2 DEF Told

\* A transaction is rolled back with all its operations undone.
LEMMA RollbackTold ==
    ASSUME Told, made' = made, Len(txs') = Len(txs),
           NEW i \in 1..Len(txs), txs[i].state # "rolled_back",
           standing' = standing \ OpsIn(i),
           tried' = tried \cup OpsIn(i),
           txs'[i].state = "rolled_back",
           \A j \in 1..Len(txs) : j # i => txs'[j] = txs[j]
    PROVE  Told'
<1>1. \A j : /\ OpsIn(j)' = OpsIn(j)
             /\ j # i => OpsIn(j) \cap OpsIn(i) = {}
             /\ OpsIn(j) \subseteq 1..Len(made)
  BY DEF OpsIn
<1>2. ASSUME NEW j \in 1..Len(txs)
      PROVE  /\ txs'[j].state # "failed"
             /\ txs'[j].state # "rolled_back" =>
                   txs'[j].log = OpsIn(j) /\ OpsIn(j) \subseteq standing'
             /\ txs'[j].state = "rolled_back" => OpsIn(j) \cap standing' = {}
  <2>1. CASE j = i
    BY <2>1
  <2>2. CASE j # i
    <3>1. /\ txs'[j] = txs[j] /\ OpsIn(j) \cap OpsIn(i) = {}
      BY <1>1, <2>2
    <3>2. /\ txs[j].state # "failed"
          /\ txs[j].state # "rolled_back" =>
                txs[j].log = OpsIn(j) /\ OpsIn(j) \subseteq standing
          /\ txs[j].state = "rolled_back" => OpsIn(j) \cap standing = {}
      BY DEF Told
    <3>3. OpsIn(j) \subseteq standing => OpsIn(j) \subseteq standing'
      BY <3>1
    <3>4. OpsIn(j) \cap standing = {} => OpsIn(j) \cap standing' = {}
      OBVIOUS
    <3>5. QED
      BY <3>1, <3>2, <3>3, <3>4
  <2>3. QED
    BY <2>1, <2>2
<1>3. /\ tried' \cap standing' = {}
      /\ tried' \subseteq 1..Len(made)
  BY <1>1 DEF Told
<1>4. QED
  BY <1>1, <1>2, <1>3 DEF Told

LEMMA OperateTold ==
    ASSUME Base, Told, NEW t \in Task, Operate(t)
    PROVE  Told'
<1> DEFINE i == Top(t).tx
           o == Len(made) + 1
<1>1. /\ Shape /\ made \in Seq(Tx) /\ Len(made) \in Nat
  BY LenProperties DEF Base, Histories
<1>2. /\ i \in 1..Len(txs) /\ IsActive(i)
      /\ Quiet(t, Len(stack[t]), Top(t), Top(t))
      /\ txs'[i].log = txs[i].log \cup {o}
      /\ \A j \in 1..Len(txs) : /\ txs'[j].state = txs[j].state
                                /\ j # i => txs'[j] = txs[j]
  BY <1>1, OperateMoves
<1>3. Len(txs') = Len(txs)
  BY <1>2 DEF Quiet, TableKept
<1>4. /\ made' = Append(made, i) /\ standing' = standing \cup {Len(made')}
      /\ tried' = tried
  BY DEF Operate
<1>5. i \in Tx
  BY <1>1, <1>2, TableFacts DEF Shape
<1>6. /\ Len(made') = o
      /\ \A n \in 1..Len(made) : made'[n] = made[n]
      /\ made'[o] = i
  BY <1>1, <1>4, <1>5, AppendProperties
<1> HIDE DEF i
<1>7. \A n : n \in 1..o <=> n \in 1..Len(made) \/ n = o
  <2> DEFINE k == Len(made)
  <2>1. k \in Nat
    BY <1>1
  <2> HIDE DEF k
  <2>2. \A n : n \in 1..(k + 1) <=> n \in 1..k \/ n = k + 1
    BY <2>1
  <2>3. QED
    BY <2>2 DEF k
<1>8. o \notin 1..Len(made)
  BY <1>1
<1> HIDE DEF o
<1>9. /\ \A j : j = i => OpsIn(j)' = OpsIn(j) \cup {o}
      /\ \A j : j # i => OpsIn(j)' = OpsIn(j)
      /\ \A j : o \notin OpsIn(j)
  <2>1. \A j : OpsIn(j)' = {n \in 1..o : made'[n] = j}
    BY <1>6 DEF OpsIn
  <2>2. \A j : j = i => {n \in 1..o : made'[n] = j} = OpsIn(j) \cup {o}
    BY <1>6, <1>7 DEF OpsIn
  <2>3. \A j : j # i => {n \in 1..o : made'[n] = j} = OpsIn(j)
    BY <1>6, <1>7 DEF OpsIn
  <2>4. \A j : o \notin OpsIn(j)
    BY <1>8 DEF OpsIn
  <2>5. QED
    BY <2>1, <2>2, <2>3, <2>4
<1>10. ASSUME NEW j \in 1..Len(txs)
       PROVE  /\ txs'[j].state # "failed"
              /\ txs'[j].state # "rolled_back" =>
                    txs'[j].log = OpsIn(j)' /\ OpsIn(j)' \subseteq standing'
              /\ txs'[j].state = "rolled_back" => OpsIn(j)' \cap standing' = {}
  <2>1. /\ txs[j].state # "failed"
        /\ txs[j].state # "rolled_back" =>
              txs[j].log = OpsIn(j) /\ OpsIn(j) \subseteq standing
        /\ txs[j].state = "rolled_back" => OpsIn(j) \cap standing = {}
    BY DEF Told
  <2>2. standing' = standing \cup {o}
    BY <1>4, <1>6
  <2>3. CASE j = i
    <3>1. txs[j].state = "active" /\ txs'[j].state = "active"
      BY <1>2, <2>3 DEF IsActive
    <3>2. txs'[j].log = OpsIn(j) \cup {o} /\ OpsIn(j) \subseteq standing
      BY <1>2, <2>1, <2>3, <3>1
    <3>3. OpsIn(j)' = OpsIn(j) \cup {o}
      BY <1>9, <2>3
    <3>4. QED
      BY <2>2, <3>1, <3>2, <3>3
  <2>4. CASE j # i
    <3>1. txs'[j] = txs[j] /\ OpsIn(j)' = OpsIn(j) /\ o \notin OpsIn(j)
      BY <1>2, <1>9, <2>4
    <3>2. QED
      BY <2>1, <2>2, <3>1
  <2>5. QED
    BY <2>3, <2>4
<1>11. /\ tried' \cap standing' = {}
       /\ tried' \subseteq 1..Len(made')
  <2>1. standing' = standing \cup {o} /\ o \notin tried
    BY <1>4, <1>6, <1>8 DEF Told
  <2>2. tried \subseteq 1..o
    BY <1>7 DEF Told
  <2>3. QED
    BY <1>4, <1>6, <2>1, <2>2 DEF Told
<1>12. \A n \in 1..Len(made') : made'[n] \in 1..Len(txs')
  BY <1>2, <1>3, <1>6, <1>7 DEF Told
<1>13. QED
  BY <1>3, <1>10, <1>11, <1>12 DEF Told

LEMMA EnterTold ==
    ASSUME Base, Told, NEW t \in Task, Enter(t)
    PROVE  Told'
<1> DEFINE k == Len(txs)
<1>1. Shape /\ current \in 0..k /\ k \in Nat
  BY TableFacts DEF Base, Nested, Shape
<1>2. /\ Len(txs') = k + 1
      /\ \A i \in 1..k : txs'[i] = txs[i]
      /\ txs'[k + 1].state = "active" /\ txs'[k + 1].log = {}
  BY <1>1, EnterMoves
<1>3. UNCHANGED <<made, standing, tried>>
  BY DEF Enter
<1>4. \A n : n \in 1..(k + 1) <=> n \in 1..k \/ n = k + 1
  <2> HIDE DEF k
  <2>1. QED
    BY <1>1
<1>5. k + 1 \notin 1..k
  <2> HIDE DEF k
  <2>1. QED
    BY <1>1
<1>6. OpsIn(k + 1) = {} /\ \A j : OpsIn(j)' = OpsIn(j)
  BY <1>3, <1>5 DEF Told, OpsIn
<1>7. ASSUME NEW j \in 1..(k + 1)
      PROVE  /\ txs'[j].state # "failed"
             /\ txs'[j].state # "rolled_back" =>
                   txs'[j].log = OpsIn(j) /\ OpsIn(j) \subseteq standing
             /\ txs'[j].state = "rolled_back" => OpsIn(j) \cap standing = {}
  <2>1. CASE j \in 1..k
    BY <1>2, <2>1 DEF Told
  <2>2. CASE j = k + 1
    BY <1>2, <1>6, <2>2
  <2>3. QED
    BY <1>4, <2>1, <2>2
<1>8. \A n \in 1..Len(made') : made'[n] \in 1..(k + 1)
  BY <1>3, <1>4 DEF Told
<1>9. QED
  BY <1>2, <1>3, <1>6, <1>7, <1>8 DEF Told
\* What a step of t owes to the outcomes.
Keeps(t, len, g, f) ==
    /\ Told'
    /\ \/ stack[t] = <<>> \/ Top(t).kind = "with"
       \/ /\ made' = made
          /\ \A j \in 1..Len(txs) : txs'[j].state # txs[j].state =>
                len < Len(stack[t]) /\ j = Top(t).tx
          /\ len >= Len(stack[t]) /\ g.kind = "rollback" /\ g.phase = "await"
                => g.ops = OpsIn(g.tx)
    /\ len > Len(stack[t]) /\ f.kind \in {"commit", "rollback"} =>
          /\ txs'[f.tx].state = "active"
          /\ f.kind = "rollback" => f.phase = "children"
    /\ raised'[t] = "error" =>
          stack[t] # <<>> /\ Top(t).kind = "with" /\ len < Len(stack[t])

\* As long as tasks take turns, the others are in no block.
LEMMA Alone ==
    ASSUME Base, NEW t \in Task,
           Act(t) \/ Continue(t) \/ (Cancelled(t) /\ Seen({"cancellation"})),
           "overlap" \notin faults', NEW u \in Task, u # t
    PROVE  stack[u] = <<>>
<1>1. Turns /\ Stacked
  BY DEF Base, Nested, Shape
<1>2. stack'[u] = stack[u]
  BY OthersStay
<1>3. \/ Enter(t) /\ Seen(Overlap(t))
      \/ RollbackAll(t) /\ Seen(Overlap(t))
      \/ Leave(t)
      \/ Calls(t)
  BY StepKinds
<1>4. stack[t] = <<>> => Overlap(t) \subseteq faults'
  <2>1. Leave(t) => stack[t] # <<>>
    BY DEF Leave, On
  <2>2. Calls(t) => stack[t] # <<>>
    BY CallsAreQuiet
  <2>3. QED
    BY <1>3, <2>1, <2>2 DEF Seen
<1>5. faults \subseteq faults'
  BY StepKinds
<1>6. CASE stack[t] = <<>>
  BY <1>4, <1>6 DEF Overlap
<1>7. CASE stack[t] # <<>>
  BY <1>1, <1>5, <1>7 DEF Turns
<1>8. QED
  BY <1>6, <1>7

LEMMA LoggingKept ==
    ASSUME Base, Base', Logging, NEW t \in Task, NEW len, NEW g, NEW f,
           Act(t) \/ Continue(t) \/ (Cancelled(t) /\ Seen({"cancellation"})),
           Step(t, len, g, f), Fit(t, len, g, f),
           faults' \subseteq {"uncommitted"} => Keeps(t, len, g, f)
    PROVE  Logging'
<1> DEFINE L == Len(stack[t])
<1>1. /\ L \in Nat /\ len \in Nat /\ len \in {L - 1, L, L + 1}
      /\ stack[t] = <<>> <=> L = 0
      /\ Top(t) = stack[t][L]
  BY StackFacts DEF Step, Base, Shape
<1>2. /\ Len(stack'[t]) = len
      /\ \A n \in 1..len :
            stack'[t][n] = IF n < L THEN stack[t][n]
                           ELSE IF n = L THEN g ELSE f
  BY DEF Step
<1>3. L # 0 /\ len >= L => g.kind = Top(t).kind /\ g.tx = Top(t).tx
  BY <1>1 DEF Fit
<1>4. SUFFICES ASSUME faults' \subseteq {"uncommitted"}
               PROVE  Told' /\ Calling'
  BY DEF Logging
<1>5. /\ faults \subseteq {"uncommitted"}
      /\ "overlap" \notin faults'
  BY <1>4, StepKinds
<1>6. Told /\ Calling /\ Keeps(t, len, g, f)
  BY <1>4, <1>5 DEF Logging
<1>7. \A u \in Task : u # t => stack'[u] = <<>>
  BY <1>5, Alone, OthersStay
<1>8. \A n \in 1..L : /\ stack[t][n].kind # "all" => stack[t][n].tx \in 1..Len(txs)
                      /\ stack[t][n].phase = "await" => n = L
                      /\ stack[t][n].kind = "commit" => stack[t][n].phase = "await"
  BY DEF Base, Shape, Frames, FrameOK
<1>9. \A n \in 1..L : \A m \in 1..(n - 1) :
         /\ stack[t][m].kind # "with" => stack[t][n].kind = "rollback"
         /\ stack[t][m].kind = "rollback" => stack[t][m].tx < stack[t][n].tx
  BY DEF Base, Shape, Order
<1>10. ASSUME NEW n \in 1..len, n < L,
              stack[t][n].kind \in {"commit", "rollback"}
       PROVE  /\ stack[t][n].kind = "rollback"
              /\ txs'[stack[t][n].tx].state = "active"
              /\ stack[t][n].phase # "await"
  <2>1. n \in 1..L /\ L \in 1..L /\ n \in 1..(L - 1) /\ n # L
    BY <1>1, <1>10
  <2>2. stack[t][n].kind = "rollback" /\ stack[t][n].phase # "await"
    BY <1>8, <1>10, <2>1
  <2>3. Top(t).kind = "rollback" /\ stack[t][n].tx < Top(t).tx
    BY <1>1, <1>9, <2>1, <2>2
  <2>4. /\ stack[t][n].tx \in 1..Len(txs) /\ Top(t).tx \in 1..Len(txs)
    BY <1>1, <1>8, <2>1, <2>2, <2>3
  <2>5. stack[t][n].tx # Top(t).tx
    BY <2>3, <2>4, TableFacts DEF Base, Shape
  <2>6. txs[stack[t][n].tx].state = "active"
    BY <1>6, <1>10, <2>1 DEF Calling
  <2>7. txs'[stack[t][n].tx].state = txs[stack[t][n].tx].state
    BY <1>1, <1>6, <1>10, <2>3, <2>4, <2>5 DEF Keeps
  <2>8. QED
    BY <2>2, <2>6, <2>7
<1>11. ASSUME L # 0, len >= L, Top(t).kind \in {"commit", "rollback"}
       PROVE  /\ txs'[g.tx].state = "active"
              /\ g.kind = "rollback" /\ g.phase = "await" =>
                    g.ops = {m \in 1..Len(made') : made'[m] = g.tx}
  <2>1. /\ made' = made
        /\ \A j \in 1..Len(txs) : txs'[j].state # txs[j].state =>
              len < L /\ j = Top(t).tx
        /\ g.kind = "rollback" /\ g.phase = "await" => g.ops = OpsIn(g.tx)
    BY <1>1, <1>6, <1>11 DEF Keeps
  <2>2. L \in 1..L
    BY <1>1, <1>11
  <2>3. Top(t).tx \in 1..Len(txs) /\ txs[Top(t).tx].state = "active"
    BY <1>1, <1>6, <1>8, <1>11, <2>2 DEF Calling
  <2>4. ~(len < L)
    BY <1>1, <1>11
  <2>5. OpsIn(g.tx) = {m \in 1..Len(made') : made'[m] = g.tx}
    BY <2>1 DEF OpsIn
  <2>6. QED
    BY <1>3, <1>11, <2>1, <2>3, <2>4, <2>5
<1>12. ASSUME NEW n \in 1..len
       PROVE  /\ stack'[t][n].kind \in {"commit", "rollback"} =>
                    txs'[stack'[t][n].tx].state = "active"
              /\ stack'[t][n].kind = "rollback" /\ stack'[t][n].phase = "await"
                    => stack'[t][n].ops =
                          {m \in 1..Len(made') : made'[m] = stack'[t][n].tx}
  <2>1. CASE n < L
    BY <1>2, <1>10, <2>1
  <2>2. CASE n = L
    <3>1. stack'[t][n] = g /\ L # 0 /\ len >= L
      BY <1>1, <1>2, <2>2
    <3>2. QED
      BY <1>3, <1>11, <3>1
  <2>3. CASE n > L
    <3>1. stack'[t][n] = f /\ len > L
      BY <1>1, <1>2, <2>3
    <3>2. QED
      BY <1>6, <3>1 DEF Keeps
  <2>4. QED
    BY <1>1, <2>1, <2>2, <2>3
<1>13. raised'[t] = "error" => Top(t)'.kind = "with"
  <2> SUFFICES ASSUME raised'[t] = "error"
               PROVE  Top(t)'.kind = "with"
    OBVIOUS
  <2>1. stack[t] # <<>> /\ Top(t).kind = "with" /\ len < L
    BY <1>6 DEF Keeps
  <2>2. stack'[t] # <<>> /\ Stacked'
    <3>1. Control' /\ Stacked'
      BY DEF Base, Shape
    <3>2. running' = t /\ t # Nobody
      BY <3>1, ConstantsAssumption DEF Control
    <3>3. QED
      BY <3>1, <3>2 DEF Control
  <2>3. Top(t)' = stack'[t][len] /\ len \in 1..len
    <3>1. Top(t)' = stack'[t][Len(stack'[t])]
      BY DEF Top, Last
    <3>2. len # 0
      BY <1>2, <2>2, EmptySeq DEF Stacked
    <3>3. QED
      BY <1>1, <1>2, <3>1, <3>2
  <2>4. stack'[t][len] = stack[t][len] /\ len \in 1..L
    BY <1>1, <1>2, <2>1, <2>3
  <2>5. stack[t][len].kind = "with"
    BY <2>1, <2>4, OnlyBlocks DEF Base
  <2>6. QED
    BY <2>3, <2>4, <2>5
<1>14. ASSUME NEW u \in Task, u # t
       PROVE  /\ raised'[u] # "error"
              /\ \A n : n \notin 1..Len(stack'[u])
  <2>1. stack'[u] = <<>>
    BY <1>7, <1>14
  <2>2. raised'[u] = "none"
    <3>1. Control' /\ u # Nobody
      BY ConstantsAssumption DEF Base
    <3>2. running' # u
      BY <2>1, <3>1 DEF Control
    <3>3. QED
      BY <3>1, <3>2 DEF Control
  <2>3. Len(stack'[u]) = 0
    BY <2>1
  <2>4. QED
    BY <2>2, <2>3
<1>15. Calling'
  <2>1. ASSUME NEW u \in Task, NEW n \in 1..Len(stack'[u])
        PROVE  /\ stack'[u][n].kind \in {"commit", "rollback"} =>
                     txs'[stack'[u][n].tx].state = "active"
               /\ stack'[u][n].kind = "rollback" /\ stack'[u][n].phase = "await"
                     => stack'[u][n].ops =
                           {m \in 1..Len(made') : made'[m] = stack'[u][n].tx}
    BY <1>2, <1>12, <1>14
  <2>2. ASSUME NEW u \in Task, raised'[u] = "error"
        PROVE  Top(u)'.kind = "with"
    BY <1>13, <1>14, <2>2
  <2>3. QED
    BY <2>1, <2>2 DEF Calling, OpsIn
<1>16. QED
  BY <1>6, <1>15 DEF Keeps
\* These steps leave no exception on its way.
LEMMA CalmSteps ==
    ASSUME Control, NEW t \in Task,
           \/ Enter(t) \/ RollbackAll(t) \/ LeaveAsIs(t) \/ Operate(t)
           \/ CommitByHand(t) \/ LeaveCommitting(t) \/ RollbackByHand(t)
           \/ LeaveRaising(t) \/ Propagate(t) \/ CommitReturns(t)
           \/ NextChild(t) \/ NextOfAll(t) \/ OwnOperations(t)
           \/ RollbackReturns(t) \/ EndOfAll(t) \/ Catch(t)
    PROVE  raised'[t] # "error"
<1>1. DOMAIN raised = Task /\ (running = Nobody => raised[t] = "none")
  BY ControlFacts DEF Control
<1>2. CASE Enter(t) \/ RollbackAll(t) \/ Operate(t) \/ RollbackByHand(t)
  BY <1>1, <1>2 DEF Enter, RollbackAll, Operate, RollbackByHand, InBody, InBlock
<1>3. CASE NextChild(t) \/ NextOfAll(t)
  BY <1>1, <1>3 DEF NextChild, NextOfAll, RunningOn
<1>4. ASSUME NEW stk, Return(t, stk, "none")
      PROVE  raised'[t] # "error"
  BY <1>1, <1>4 DEF Return
<1>5. CASE CommitByHand(t) \/ LeaveCommitting(t)
  <2>1. PICK stk : BeginCommit(t, Top(t).tx, stk)
    BY <1>5 DEF CommitByHand, LeaveCommitting
  <2>2. running = Nobody
    BY <1>5 DEF CommitByHand, LeaveCommitting, InBlock
  <2>3. raised' = raised \/ Return(t, stk, "none")
    BY <2>1 DEF BeginCommit, Await
  <2>4. QED
    BY <1>1, <1>4, <2>2, <2>3
<1>6. CASE LeaveRaising(t) \/ Propagate(t)
  <2>1. LeaveWithError(t)
    BY <1>6 DEF LeaveRaising, Propagate
  <2>2. \E stk : Return(t, stk, "none")
    BY <2>1 DEF LeaveWithError
  <2>3. QED
    BY <1>4, <2>2
<1>7. CASE LeaveAsIs(t) \/ CommitReturns(t) \/ RollbackReturns(t)
           \/ EndOfAll(t) \/ Catch(t)
  <2>1. \E stk : Return(t, stk, "none")
    BY <1>7 DEF LeaveAsIs, CommitReturns, RollbackReturns, EndOfAll, Catch
  <2>2. QED
    BY <1>4, <2>1
<1>8. CASE OwnOperations(t)
  <2>1. raised[t] = "none"
    BY <1>8 DEF OwnOperations, RunningOn
  <2>2. raised' = raised \/ \E stk : Return(t, stk, "none")
    BY <1>8 DEF OwnOperations, Await
  <2>3. QED
    BY <1>4, <2>1, <2>2
<1>9. QED
  BY <1>2, <1>3, <1>5, <1>6, <1>7, <1>8

\* With nothing out of the ordinary no call is left by an exception.
LEMMA NoUnwinding ==
    ASSUME Base, Calling, NEW t \in Task,
           Act(t) \/ Continue(t) \/ (Cancelled(t) /\ Seen({"cancellation"})),
           faults' \subseteq {"uncommitted"}
    PROVE  /\ ~Unwind(t)
           /\ ~(ChildrenChanged(t) /\ Seen({"failure"}))
           /\ ~(RollbackFails(t) /\ Seen({"failure"}))
           /\ ~(Cancelled(t) /\ Seen({"cancellation"}))
<1>1. Control /\ faults \subseteq {"uncommitted"}
  BY StepKinds DEF Base
<1>2. ~Unwind(t)
  <2> SUFFICES ASSUME Unwind(t)
               PROVE  FALSE
    OBVIOUS
  <2>1. raised[t] # "none" /\ Top(t).kind # "with"
    BY DEF Unwind, On
  <2>2. raised[t] # "cancel"
    BY <1>1 DEF Control
  <2>3. raised[t] # "error"
    BY <2>1 DEF Calling
  <2>4. QED
    BY <1>1, <2>1, <2>2, <2>3, ControlFacts
<1>3. ~Seen({"failure"}) /\ ~Seen({"cancellation"})
  BY DEF Seen
<1>4. QED
  BY <1>2, <1>3
\* With nothing out of the ordinary a step has the shape of Keeps.
LEMMA StepsKeep ==
    ASSUME Base, Logging, NEW t \in Task,
           Act(t) \/ Continue(t) \/ (Cancelled(t) /\ Seen({"cancellation"})),
           faults' \subseteq {"uncommitted"}
    PROVE  \E len, g, f : Step(t, len, g, f) /\ Fit(t, len, g, f)
                            /\ Keeps(t, len, g, f)
<1> DEFINE L == Len(stack[t])
           i == Top(t).tx
<1>1. /\ Shape /\ Control /\ made \in Seq(Tx) /\ active \subseteq 1..Len(txs)
      /\ Table /\ current \in 0..Len(txs)
  BY ActiveIndex DEF Base, Histories, Nested, Shape
<1>2. /\ ~(L > L) /\ ~(L - 1 > L) /\ ~(L - 1 >= L) /\ L - 1 < L
      /\ ~(L + 1 < L) /\ L >= L /\ ~(L < L)
      /\ Top(t) = stack[t][L]
      /\ stack[t] # <<>> => L \in 1..L
  <2>1. L \in Nat /\ (stack[t] = <<>> <=> L = 0) /\ Top(t) = stack[t][L]
    BY <1>1, StackFacts DEF Shape
  <2> HIDE DEF L
  <2>2. QED
    BY <2>1
<1>3. \A j \in 1..Len(txs) : /\ RollbackFrame(j).kind = "rollback"
                             /\ RollbackFrame(j).tx = j
                             /\ RollbackFrame(j).phase = "children"
  BY <1>1, RollbackFrameType
<1>4. Told /\ Calling
  BY StepKinds DEF Logging
<1>5. stack[t] # <<>> /\ Top(t).kind \in {"commit", "rollback"} =>
         i \in 1..Len(txs) /\ txs[i].state = "active"
  <2> SUFFICES ASSUME stack[t] # <<>>, Top(t).kind \in {"commit", "rollback"}
               PROVE  i \in 1..Len(txs) /\ txs[i].state = "active"
    OBVIOUS
  <2>1. FrameOK(Top(t), txs)
    BY <1>1, <1>2 DEF Shape, Frames
  <2>2. QED
    BY <1>2, <1>4, <2>1 DEF Calling, FrameOK
<1>6. CASE Enter(t)
  <2> DEFINE h == NewFrame("with", "body", Len(txs) + 1)
  <2>1. /\ Step(t, L + 1, Top(t), h) /\ Fit(t, L + 1, Top(t), h)
        /\ h.kind = "with"
        /\ stack[t] # <<>> => Top(t).kind = "with"
    BY <1>1, <1>6, EnterMoves
  <2> HIDE DEF h
  <2>2. Told' /\ raised'[t] # "error"
    BY <1>1, <1>4, <1>6, EnterTold, CalmSteps
  <2>3. Keeps(t, L + 1, Top(t), h)
    BY <2>1, <2>2 DEF Keeps
  <2>4. QED
    BY <2>1, <2>3
<1>7. CASE Leave(t)
  <2>1. /\ Step(t, L - 1, Top(t), Top(t)) /\ Fit(t, L - 1, Top(t), Top(t))
        /\ stack[t] # <<>> /\ Top(t).kind = "with" /\ txs' = txs
    BY <1>1, <1>7, ExitMoves
  <2>2. Told'
    BY <1>4, <1>7, <2>1, SameTold DEF Leave
  <2>3. Keeps(t, L - 1, Top(t), Top(t))
    BY <1>2, <2>1, <2>2 DEF Keeps
  <2>4. QED
    BY <2>1, <2>3
<1>8. CASE RollbackAll(t)
  <2>1. PICK f : /\ Quiet(t, L + 1, Top(t), f) /\ txs' = txs /\ f.kind = "all"
                 /\ stack[t] # <<>> => Top(t).kind = "with"
    BY <1>1, <1>8, AllMoves
  <2>2. Told' /\ raised'[t] # "error"
    BY <1>1, <1>4, <1>8, <2>1, SameTold, CalmSteps DEF RollbackAll
  <2>3. Keeps(t, L + 1, Top(t), f)
    BY <2>1, <2>2 DEF Keeps
  <2>4. QED
    BY <2>1, <2>3 DEF Quiet
<1>9. CASE LeaveAsIs(t)
  <2>1. PICK g : /\ Quiet(t, L, g, g) /\ txs' = txs
                 /\ stack[t] # <<>> /\ Top(t).kind = "with"
    BY <1>1, <1>9, LeaveMoves
  <2>2. Told' /\ raised'[t] # "error"
    BY <1>1, <1>4, <1>9, <2>1, SameTold, CalmSteps DEF LeaveAsIs
  <2>3. Keeps(t, L, g, g)
    BY <1>2, <2>1, <2>2 DEF Keeps
  <2>4. QED
    BY <2>1, <2>3 DEF Quiet
<1>10. CASE Operate(t)
  <2>1. /\ Quiet(t, L, Top(t), Top(t))
        /\ stack[t] # <<>> /\ Top(t).kind = "with"
    BY <1>1, <1>10, OperateMoves
  <2>2. Told' /\ raised'[t] # "error"
    BY <1>1, <1>4, <1>10, OperateTold, CalmSteps
  <2>3. Keeps(t, L, Top(t), Top(t))
    BY <1>2, <2>1, <2>2 DEF Keeps
  <2>4. QED
    BY <2>1, <2>3 DEF Quiet
<1>11. CASE CommitByHand(t) \/ LeaveCommitting(t)
  <2> DEFINE h == NewFrame("commit", "await", i)
  <2>1. PICK g : /\ stack[t] # <<>> /\ Top(t).kind = "with"
                 /\ i \in 1..Len(txs) /\ IsActive(i)
                 /\ txs' = Marked(i)
                 /\ UNCHANGED <<made, standing, tried>>
                 /\ \/ Quiet(t, L, g, g)
                    \/ CommitAwaits(i) /\ Quiet(t, L + 1, g, h)
    BY <1>1, <1>11, CommitMoves
  <2>2. h.tx = i /\ h.kind = "commit"
    BY DEF NewFrame
  <2> HIDE DEF h
  <2>3. /\ TableKept
        /\ \A j \in 1..Len(txs) :
              /\ txs'[j].log = txs[j].log
              /\ txs'[j] # txs[j] =>
                    txs'[j].state = "committed" /\ (j = i \/ IsActive(j))
    BY <1>1, <2>1, MarkedSet
  <2>4. Told'
    <3>1. Len(txs') = Len(txs)
      BY <2>3 DEF TableKept
    <3>2. \A j \in 1..Len(txs) :
             /\ txs'[j].log = txs[j].log
             /\ txs'[j].state # txs[j].state =>
                   txs[j].state = "active" /\ txs'[j].state = "committed"
      BY <2>1, <2>3 DEF IsActive
    <3>3. QED
      BY <1>4, <2>1, <3>1, <3>2, CommitTold
  <2>5. raised'[t] # "error"
    BY <1>1, <1>11, CalmSteps
  <2>6. CASE Quiet(t, L, g, g)
    <3>1. Keeps(t, L, g, g)
      BY <1>2, <2>1, <2>4, <2>5 DEF Keeps
    <3>2. QED
      BY <2>6, <3>1 DEF Quiet
  <2>7. CASE CommitAwaits(i) /\ Quiet(t, L + 1, g, h)
    <3>1. txs'[i].state = "active"
      <4>1. i \in DOMAIN txs /\ i # 0
        BY <1>1, <2>1, TableFacts
      <4>2. txs'[i] = txs[i]
        BY <2>1, <2>7, <4>1 DEF Marked, CommitAwaits
      <4>3. QED
        BY <2>1, <4>2 DEF IsActive
    <3>2. Keeps(t, L + 1, g, h)
      BY <2>1, <2>2, <2>4, <2>5, <3>1 DEF Keeps
    <3>3. QED
      BY <2>7, <3>2 DEF Quiet
  <2>8. QED
    BY <2>1, <2>6, <2>7
<1>12. CASE RollbackByHand(t) \/ LeaveRaising(t) \/ Propagate(t)
  <2>1. RollbackByHand(t) \/ (On(t, "with", {"body"}) /\ LeaveWithError(t))
    BY <1>12 DEF LeaveRaising, InBlock, Propagate
  <2> DEFINE h == RollbackFrame(i)
  <2>2. PICK g : /\ stack[t] # <<>> /\ Top(t).kind = "with"
                 /\ i \in 1..Len(txs) /\ txs' = txs
                 /\ \/ Quiet(t, L, g, g)
                    \/ /\ Quiet(t, L + 1, g, h)
                       /\ IsActive(i) \/ txs[i].state = "failed"
    BY <1>1, <2>1, RollbackMoves
  <2>3. h.tx = i /\ h.kind = "rollback" /\ h.phase = "children"
    BY <1>3, <2>2
  <2> HIDE DEF h
  <2>4. Told'
    BY <1>4, <2>1, <2>2, SameTold DEF RollbackByHand, LeaveWithError
  <2>5. raised'[t] # "error"
    BY <1>1, <1>12, CalmSteps
  <2>6. CASE Quiet(t, L, g, g)
    <3>1. Keeps(t, L, g, g)
      BY <1>2, <2>2, <2>4, <2>5 DEF Keeps
    <3>2. QED
      BY <2>6, <3>1 DEF Quiet
  <2>7. CASE Quiet(t, L + 1, g, h) /\ (IsActive(i) \/ txs[i].state = "failed")
    <3>1. txs'[i].state = "active"
      BY <1>4, <2>2, <2>7 DEF Told, IsActive
    <3>2. Keeps(t, L + 1, g, h)
      BY <2>2, <2>3, <2>4, <2>5, <3>1 DEF Keeps
    <3>3. QED
      BY <2>7, <3>2 DEF Quiet
  <2>8. QED
    BY <2>2, <2>6, <2>7
<1>13. CASE NextChild(t) \/ NextOfAll(t)
  <2>1. PICK g \in Frame, c \in Top(t).left :
           /\ txs' = txs /\ c \in 1..Len(txs) /\ g.phase = "children"
           /\ \/ IsActive(c) /\ Quiet(t, L + 1, g, RollbackFrame(c))
              \/ Quiet(t, L, g, g)
    BY <1>1, <1>13, NextMoves
  <2> DEFINE h == RollbackFrame(c)
  <2>2. h.tx = c /\ h.kind = "rollback" /\ h.phase = "children"
    BY <1>3, <2>1
  <2> HIDE DEF h
  <2>3. Told' /\ made' = made /\ raised'[t] # "error"
    BY <1>1, <1>4, <1>13, <2>1, SameTold, CalmSteps DEF NextChild, NextOfAll
  <2>4. CASE IsActive(c) /\ Quiet(t, L + 1, g, h)
    <3>1. Keeps(t, L + 1, g, h)
      BY <2>1, <2>2, <2>3, <2>4 DEF Keeps, IsActive
    <3>2. QED
      BY <2>4, <3>1 DEF Quiet
  <2>5. CASE Quiet(t, L, g, g)
    <3>1. Keeps(t, L, g, g)
      BY <1>2, <2>1, <2>3 DEF Keeps
    <3>2. QED
      BY <2>5, <3>1 DEF Quiet
  <2>6. QED
    BY <2>1, <2>4, <2>5 DEF h
<1>14. CASE CommitReturns(t)
  <2>1. /\ Quiet(t, L - 1, Top(t), Top(t)) /\ i \in 1..Len(txs)
        /\ Top(t).kind = "commit" /\ stack[t] # <<>>
        /\ txs' = WithState(i, "committed")
        /\ UNCHANGED <<made, standing, tried>>
    BY <1>1, <1>14, CommitEnds DEF CommitReturns, On
  <2>2. /\ Len(txs') = Len(txs)
        /\ txs'[i].state = "committed" /\ txs'[i].log = txs[i].log
        /\ \A j \in 1..Len(txs) : j # i => txs'[j] = txs[j]
    BY <1>1, <2>1, StateSet DEF TableKept
  <2>3. Told'
    <3>1. \A j \in 1..Len(txs) :
             /\ txs'[j].log = txs[j].log
             /\ txs'[j].state # txs[j].state =>
                   txs[j].state = "active" /\ txs'[j].state = "committed"
      BY <1>5, <2>1, <2>2
    <3>2. QED
      BY <1>4, <2>1, <2>2, <3>1, CommitTold
  <2>4. raised'[t] # "error"
    BY <1>1, <1>14, CalmSteps
  <2>5. Keeps(t, L - 1, Top(t), Top(t))
    BY <1>2, <2>1, <2>2, <2>3, <2>4 DEF Keeps
  <2>6. QED
    BY <2>1, <2>5 DEF Quiet
<1>15. CASE OwnOperations(t) /\ Todo(i) # {}
  <2>1. PICK g : /\ Quiet(t, L, g, g) /\ txs' = txs
                 /\ stack[t] # <<>> /\ Top(t).kind = "rollback"
                 /\ g.tx = i /\ g.ops = Todo(i)
    BY <1>1, <1>15, UndoMoves
  <2>2. Todo(i) = OpsIn(i)
    BY <1>4, <1>5, <2>1 DEF Told, Todo
  <2>3. /\ Told' /\ made' = made /\ raised'[t] # "error"
    BY <1>1, <1>4, <1>15, <2>1, SameTold, CalmSteps DEF OwnOperations
  <2>4. Keeps(t, L, g, g)
    BY <1>2, <2>1, <2>2, <2>3 DEF Keeps
  <2>5. QED
    BY <2>1, <2>4 DEF Quiet
<1>16. CASE (OwnOperations(t) /\ Todo(i) = {}) \/ RollbackReturns(t)
  <2>1. /\ Quiet(t, L - 1, Top(t), Top(t))
        /\ stack[t] # <<>> /\ Top(t).kind = "rollback" /\ i \in 1..Len(txs)
    BY <1>1, <1>16, RollbackEnds
  <2>2. /\ txs' = RolledBack(i) /\ made' = made
        /\ standing' = standing \ OpsIn(i)
        /\ tried' = tried \cup OpsIn(i)
    <3>1. CASE OwnOperations(t) /\ Todo(i) = {}
      <4>1. OpsIn(i) = {}
        BY <1>4, <1>5, <2>1, <3>1 DEF Told, Todo
      <4>2. txs' = RolledBack(i) /\ UNCHANGED <<made, standing, tried>>
        BY <3>1 DEF OwnOperations
      <4>3. QED
        BY <4>1, <4>2
    <3>2. CASE RollbackReturns(t)
      <4>1. /\ txs' = RolledBack(i) /\ made' = made
            /\ standing' = standing \ Top(t).ops
            /\ tried' = tried \cup Top(t).ops
            /\ Top(t).phase = "await"
        BY <3>2 DEF RollbackReturns, On
      <4>2. Top(t).ops = OpsIn(i)
        BY <1>2, <1>4, <2>1, <4>1 DEF Calling
      <4>3. QED
        BY <4>1, <4>2
    <3>3. QED
      BY <1>16, <3>1, <3>2
  <2>3. /\ Len(txs') = Len(txs) /\ txs'[i].state = "rolled_back"
        /\ \A j \in 1..Len(txs) : j # i => txs'[j] = txs[j]
    BY <1>1, <2>1, <2>2, RolledBackSet DEF TableKept
  <2>4. Told'
    <3> HIDE DEF i
    <3>1. txs[i].state # "rolled_back"
      BY <1>5, <2>1
    <3>2. QED
      BY <1>4, <2>1, <2>2, <2>3, <3>1, RollbackTold
  <2>5. raised'[t] # "error"
    BY <1>1, <1>16, CalmSteps
  <2>6. Keeps(t, L - 1, Top(t), Top(t))
    BY <1>2, <2>1, <2>2, <2>3, <2>4, <2>5 DEF Keeps
  <2>7. QED
    BY <2>1, <2>6 DEF Quiet
<1>17. CASE EndOfAll(t)
  <2>1. Quiet(t, L - 1, Top(t), Top(t)) /\ txs' = txs
    BY <1>1, <1>17, PassMoves
  <2>2. Told' /\ made' = made /\ raised'[t] # "error"
    BY <1>1, <1>4, <1>17, <2>1, SameTold, CalmSteps DEF EndOfAll
  <2>3. Keeps(t, L - 1, Top(t), Top(t))
    BY <1>2, <2>1, <2>2 DEF Keeps
  <2>4. QED
    BY <2>1, <2>3 DEF Quiet
<1>18. CASE Catch(t)
  <2>1. /\ Quiet(t, L, Top(t), Top(t)) /\ txs' = txs
        /\ stack[t] # <<>> /\ Top(t).kind = "with"
    BY <1>1, <1>18, StandMoves DEF Catch, On
  <2>2. Told' /\ raised'[t] # "error"
    BY <1>1, <1>4, <1>18, <2>1, SameTold, CalmSteps DEF Catch
  <2>3. Keeps(t, L, Top(t), Top(t))
    BY <1>2, <2>1, <2>2 DEF Keeps
  <2>4. QED
    BY <2>1, <2>3 DEF Quiet
<1>19. /\ ~Unwind(t)
       /\ ~(ChildrenChanged(t) /\ Seen({"failure"}))
       /\ ~(RollbackFails(t) /\ Seen({"failure"}))
       /\ ~(Cancelled(t) /\ Seen({"cancellation"}))
  BY <1>4, NoUnwinding
<1>20. CASE OwnOperations(t)
  BY <1>15, <1>16, <1>20
<1>21. Act(t) => \/ Enter(t) \/ RollbackAll(t) \/ LeaveAsIs(t) \/ Operate(t)
                  \/ CommitByHand(t) \/ RollbackByHand(t)
                  \/ LeaveCommitting(t) \/ LeaveRaising(t)
  BY DEF Act
<1>22. Continue(t) => \/ CommitReturns(t) \/ NextChild(t) \/ OwnOperations(t)
                       \/ RollbackReturns(t) \/ NextOfAll(t) \/ EndOfAll(t)
                       \/ Leave(t) \/ Catch(t) \/ Propagate(t)
  BY <1>19 DEF Continue
<1>23. QED
  BY <1>6, <1>7, <1>8, <1>9, <1>10, <1>11, <1>12, <1>13, <1>14, <1>16, <1>17,
     <1>18, <1>19, <1>20, <1>21, <1>22

LEMMA LoggingAlways == Spec => []Logging
<1>1. Init => Logging
  <2> SUFFICES ASSUME Init
               PROVE  Told /\ Calling
    BY DEF Logging
  <2>1. Len(txs) = 0 /\ Len(made) = 0 /\ \A t \in Task : Len(stack[t]) = 0
    BY DEF Init
  <2>2. 1..0 = {}
    OBVIOUS
  <2>3. Told
    BY <2>1, <2>2 DEF Init, Told
  <2>4. Calling
    BY <2>1, <2>2 DEF Init, Calling
  <2>5. QED
    BY <2>3, <2>4
<1>2. ASSUME Base, Logging, Base', Next
      PROVE  Logging'
  <2>1. PICK t \in Task :
           Act(t) \/ Continue(t) \/ (Cancelled(t) /\ Seen({"cancellation"}))
    BY <1>2 DEF Next
  <2>2. CASE faults' \subseteq {"uncommitted"}
    BY <1>2, <2>1, <2>2, StepsKeep, LoggingKept
  <2>3. CASE ~(faults' \subseteq {"uncommitted"})
    BY <2>3 DEF Logging
  <2>4. QED
    BY <2>2, <2>3
<1>3. ASSUME Logging, UNCHANGED vars
      PROVE  Logging'
  BY <1>3 DEF Logging, Told, Calling, OpsIn, Top, vars
<1>4. QED
  BY <1>1, <1>2, <1>3, BaseAlways, PTL DEF Spec

\* With tasks that take turns and calls that end in order, a rolled back
\* transaction leaves none of its operations standing, and a committed one
\* keeps them all.
THEOREM OutcomeCorrect == Spec => []OutcomeHolds
<1>1. ASSUME Base, Logging
      PROVE  OutcomeHolds
  <2> SUFFICES ASSUME faults \subseteq {"uncommitted"}, NEW i \in DOMAIN txs
               PROVE  /\ txs[i].state = "rolled_back" =>
                            OpsOf(i) \cap standing = {}
                      /\ txs[i].state = "committed" => OpsOf(i) \subseteq standing
    BY DEF OutcomeHolds
  <2>1. i \in 1..Len(txs)
    BY <1>1, TableFacts DEF Base, Shape
  <2>2. DOMAIN made = 1..Len(made)
    BY <1>1 DEF Base, Histories
  <2>3. OpsOf(i) = OpsIn(i)
    BY <2>2 DEF OpsOf, OpsIn
  <2>4. Told
    BY <1>1 DEF Logging
  <2>5. QED
    BY <2>1, <2>3, <2>4 DEF Told
<1>2. QED
  BY <1>1, BaseAlways, LoggingAlways, PTL

================================================================================
