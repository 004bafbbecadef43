-------------------------------- MODULE Records --------------------------------
(****************************************************************************)
(* An instance of an OdooModel, the rows of its model that Odoo keeps, and    *)
(* the tasks that update, save and delete it.  A call of the client may be    *)
(* refused, or carried out and its answer lost.                               *)
(****************************************************************************)
EXTENDS LazyLoading

CONSTANTS
    MaxRows,        \* bound: rows Odoo creates
    MaxPersisted    \* bound: update(), save() and delete() that begin

ASSUME RecordsAssumption == MaxRows \in Nat \ {0} /\ MaxPersisted \in Nat

VARIABLES
    rows,           \* the rows Odoo has: the values of each
    lastRow,        \* the id Odoo gave last
    record,         \* the instance: its id, and the fields that are set
    persisting,     \* the call each task awaits
    persisted,      \* how many calls have begun
    unsent,         \* fields whose value in the instance Odoo need not have
    made,           \* rows that save() of the instance has created
    alone           \* the row was changed by calls of the instance only, of
                    \* which none overlapped and none lost its answer

recordVars == <<rows, lastRow, record, persisting, persisted, unsent, made, alone>>

(****************************************************************************)
(* Values, of an optional text and of a field of many ids.  Of lists of ids   *)
(* those of two are told apart.                                               *)
(****************************************************************************)

\* What Odoo has for a field: no text is false.
Held == [email |-> {"text", "false"}, child_ids |-> {"ids", "two ids"}]

Attribute == DOMAIN Held

Row == {row \in [Attribute -> UNION {Held[f] : f \in Attribute}] :
            \A f \in Attribute : row[f] \in Held[f]}

Blank == [email |-> "false", child_ids |-> "ids"]

\* Values of some of the fields.
Values == {Restrict(row, some) : row \in Row, some \in SUBSET Attribute}

\* convert_odoo_values(): false is None for a text, and a list of two ids, which
\* is taken for the pair of an id and a name, its first id.
Converted(v) ==
    CASE v = "false" -> "None"
      [] v = "two ids" -> "first id"
      [] OTHER -> v

ConvertedAll(values) == [f \in DOMAIN values |-> Converted(values[f])]

\* The constructor raises for an id that is no list of ids.
Constructs(values) == \A f \in DOMAIN values : values[f] # "two ids"

\* None goes to Odoo as null, which is false to it.
OdooValue(v) == IF v = "None" THEN "false" ELSE v

\* The value assigned is validated without the conversion: false is no text.
Assignable(v) == v # "false"

\* The other fields are converted anew.
WithField(values, f, v) ==
    [g \in DOMAIN values \cup {f} |-> IF g = f THEN v ELSE Converted(values[g])]

Overwritten(values, data) ==
    [f \in DOMAIN values \cup DOMAIN data |->
       IF f \in DOMAIN data THEN data[f] ELSE values[f]]

ToOdooDict(values) == [f \in DOMAIN values |-> OdooValue(values[f])]

(****************************************************************************)
(* The instance.                                                              *)
(****************************************************************************)

Constructed(id, values) == [id |-> id, values |-> ConvertedAll(values)]

NotPersisting == [at |-> "idle", kind |-> "none", id |-> 0, data |-> <<>>, before |-> {}]

\* The program has built the instance, or read it.
RecordsInit ==
    /\ \/ /\ rows = <<>> /\ lastRow = 0
          /\ \E values \in Values :
                /\ Constructs(values)
                /\ record = Constructed(0, values)
       \/ \E row \in Row :
             /\ Constructs(row)
             /\ rows = <<row>> /\ lastRow = 1
             /\ record = Constructed(1, row)
    /\ persisting = [t \in Task |-> NotPersisting]
    /\ persisted = 0
    /\ unsent = {}
    /\ made = {}
    /\ alone = TRUE

AtRestAll == \A t \in Task : persisting[t] = NotPersisting

\* A query answers an instance, unless its constructor raises.
ReadAnew(id) ==
    /\ AtRestAll
    /\ id \in DOMAIN rows
    /\ Constructs(rows[id])
    /\ record' = Constructed(id, rows[id])
    /\ unsent' = {}
    /\ made' = {}
    /\ alone' = TRUE
    /\ UNCHANGED <<rows, lastRow, persisting, persisted>>

\* An attribute is assigned.
Assigned(f, v) ==
    /\ Assignable(v)
    /\ record' = [record EXCEPT !.values = WithField(@, f, v)]
    /\ unsent' = unsent \cup {f}
    /\ UNCHANGED <<rows, lastRow, persisting, persisted, made, alone>>

(****************************************************************************)
(* Its calls.                                                                 *)
(****************************************************************************)

Persists(t, kind, data) ==
    /\ persisting[t] = NotPersisting
    /\ persisted < MaxPersisted
    /\ persisted' = persisted + 1
    /\ persisting' = [persisting EXCEPT ![t] =
           [at |-> "sent", kind |-> kind, id |-> record.id, data |-> data, before |-> unsent]]
    /\ alone' = (alone /\ AtRestAll)

\* The fields of data are assigned in their order, until one does not take its
\* value: these may be the fields that are.
AssignedOf(data) ==
    {fields \in SUBSET DOMAIN data :
        /\ \A f \in fields : Assignable(data[f])
        /\ fields = DOMAIN data \/ \E f \in DOMAIN data \ fields : ~Assignable(data[f])}

\* The values once the fields of data are assigned one after the other: the
\* last one makes those before it convert.
WithFields(values, data, fields) ==
    IF fields = {} THEN {values}
    ELSE {WithField(Overwritten(values, Restrict(data, fields)), last, data[last]) :
             last \in fields}

UpdateAssignsFirst(t, values) ==
    /\ record.id # 0
    /\ Persists(t, "update", values)
    /\ \E fields \in AssignedOf(values) :
       \E assigned \in WithFields(record.values, values, fields) :
          record' = [record EXCEPT !.values = assigned]
    /\ UNCHANGED <<rows, lastRow, unsent, made>>

\* Without an id update() and delete() raise.
UpdateBegins(t, values) ==
    /\ record.id # 0
    /\ Persists(t, "update", values)
    /\ UNCHANGED <<rows, lastRow, record, unsent, made>>

DeleteBegins(t) ==
    /\ record.id # 0
    /\ Persists(t, "delete", <<>>)
    /\ UNCHANGED <<rows, lastRow, record, unsent, made>>

\* All the fields that are set, whether modified or not.
SaveBegins(t) ==
    /\ record.id # 0 => record.values # <<>>
    /\ Persists(t, IF record.id = 0 THEN "create" ELSE "write", ToOdooDict(record.values))
    /\ unsent' = {}
    /\ UNCHANGED <<rows, lastRow, record, made>>

\* An id is no value of a field of many ids.
OdooTakes(data) == \A f \in DOMAIN data : data[f] \in Held[f]

\* Odoo writes and deletes a row that it has.
RowChanged(t) ==
    LET a == persisting[t]
    IN  /\ a.at = "sent"
        /\ a.kind # "create"
        /\ OdooTakes(a.data)
        /\ a.id \in DOMAIN rows
        /\ rows' = IF a.kind = "delete"
                   THEN Restrict(rows, DOMAIN rows \ {a.id})
                   ELSE [rows EXCEPT ![a.id] = Overwritten(@, a.data)]
        /\ persisting' = [persisting EXCEPT ![t].at = "done"]
        /\ UNCHANGED <<lastRow, record, persisted, unsent, made, alone>>

RowCreated(t) ==
    /\ persisting[t].at = "sent"
    /\ persisting[t].kind = "create"
    /\ OdooTakes(persisting[t].data)
    /\ lastRow < MaxRows
    /\ lastRow' = lastRow + 1
    /\ rows' = [id \in DOMAIN rows \cup {lastRow'} |->
           IF id = lastRow' THEN Overwritten(Blank, persisting[t].data) ELSE rows[id]]
    /\ made' = made \cup {lastRow'}
    /\ persisting' = [persisting EXCEPT ![t].at = "done", ![t].id = lastRow']
    /\ UNCHANGED <<record, persisted, unsent, alone>>

Returns(t) == persisting' = [persisting EXCEPT ![t] = NotPersisting]

\* The call raises, and nothing has changed.
PersistRefused(t) ==
    /\ persisting[t].at = "sent"
    /\ Returns(t)
    /\ unsent' = unsent \cup persisting[t].before
    /\ UNCHANGED <<rows, lastRow, record, persisted, made, alone>>

\* The call raises, what Odoo has done notwithstanding.
PersistLost(t) ==
    /\ persisting[t].at = "done"
    /\ Returns(t)
    /\ alone' = FALSE
    /\ UNCHANGED <<rows, lastRow, record, persisted, unsent, made>>

UpdateAnswered(t) ==
    LET data == persisting[t].data
    IN  /\ persisting[t].at = "done"
        /\ persisting[t].kind = "update"
        /\ Returns(t)
        /\ \E fields \in AssignedOf(data) :
              /\ \E assigned \in WithFields(record.values, data, fields) :
                    record' = [record EXCEPT !.values = assigned]
              /\ unsent' = (unsent \cup DOMAIN data) \ fields
        /\ UNCHANGED <<rows, lastRow, persisted, made, alone>>

\* A deleted row's instance keeps its id.  The id of a new row is assigned, too.
PersistAnswered(t) ==
    /\ persisting[t].at = "done"
    /\ persisting[t].kind # "update"
    /\ Returns(t)
    /\ record' = IF persisting[t].kind = "create"
                 THEN Constructed(persisting[t].id, record.values) ELSE record
    /\ UNCHANGED <<rows, lastRow, persisted, unsent, made, alone>>

\* Whoever else uses Odoo empties the fields of a row.
WrittenElsewhere(id) ==
    /\ id \in DOMAIN rows
    /\ rows' = [rows EXCEPT ![id] = Blank]
    /\ alone' = FALSE
    /\ UNCHANGED <<lastRow, record, persisting, persisted, unsent, made>>

RecordsNext ==
    /\ \/ \E id \in 1..MaxRows : ReadAnew(id) \/ WrittenElsewhere(id)
       \/ \E f \in Attribute : \E v \in Held[f] : Assigned(f, v)
       \/ \E t \in Task :
             \/ \E values \in Values : UpdateBegins(t, values)
             \/ DeleteBegins(t)
             \/ SaveBegins(t)
             \/ RowChanged(t)
             \/ RowCreated(t)
             \/ PersistRefused(t)
             \/ PersistLost(t)
             \/ UpdateAnswered(t)
             \/ PersistAnswered(t)
    /\ UNCHANGED now

RecordsSpec == now = 0 /\ RecordsInit /\ [][RecordsNext]_<<now, recordVars>>

(****************************************************************************)
(* Properties.                                                              *)
(****************************************************************************)

RecordsTypeOK ==
    /\ lastRow \in 0..MaxRows
    /\ DOMAIN rows \subseteq 1..lastRow
    /\ \A id \in DOMAIN rows : rows[id] \in Row
    /\ record.id \in 0..MaxRows
    /\ \A f \in DOMAIN record.values :
          OdooValue(record.values[f]) \in Held[f] \cup {"first id"}
    /\ \A t \in Task : persisting[t].at \in {"idle", "sent", "done"}
    /\ persisted \in 0..MaxPersisted
    /\ unsent \subseteq Attribute
    /\ made \subseteq 1..lastRow
    /\ alone \in BOOLEAN

\* When its calls have ended, an instance whose row nobody else has changed has
\* the row's values, but for fields assigned and not saved, and for those that
\* an update() which raised was to assign: a call that is refused leaves no
\* value in the instance that Odoo does not have.  The exception is a list of
\* two ids, of which another assignment leaves the first.
RecordStands ==
    (alone /\ AtRestAll /\ record.id \in DOMAIN rows) =>
        \A f \in DOMAIN record.values \ unsent :
            LET kept == rows[record.id][f]
            IN  \/ OdooValue(record.values[f]) = kept
                \/ record.values[f] = "first id" /\ kept = "two ids"

\* Such an instance has made one row at most, which is the one it has the id
\* of, also when it is saved again, or after it was deleted.
RowMadeOnce == (alone /\ AtRestAll) => made \subseteq {record.id}

RecordsCorrect == RecordsTypeOK /\ RecordStands /\ RowMadeOnce

\* What the instances of models and their relations keep.
ModelsCorrect == LazyCorrect /\ RecordsCorrect

================================================================================
