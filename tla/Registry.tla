------------------------------- MODULE Registry -------------------------------
(****************************************************************************)
(* The registry of model classes: the program registers its own, and tasks   *)
(* make classes of the fields the server says a model has.  The server's     *)
(* answer is awaited; its fields change when a module is installed or        *)
(* removed.                                                                  *)
(****************************************************************************)
EXTENDS Tasks, FiniteSets

CONSTANTS
    ModelName,      \* Odoo model names
    Definition,     \* fields_get: type, required and store of each field
    MaxClasses,     \* bound: classes registered
    MaxChanges      \* bound: changes of the server's fields

ASSUME RegistryAssumption == {MaxClasses, MaxChanges} \subseteq Nat

VARIABLES
    models,         \* _models: the class of each name, or 0
    fieldCache,     \* _field_cache: the era of each name's definitions, or 0
    classes,        \* every class registered so far
    creating,       \* what each task is at
    offered         \* the fields the server has had, by era; the last are now's

registryVars == <<models, fieldCache, classes, creating, offered>>

FieldName == DOMAIN Definition

\* The types whose field functions give a default.
Defaulted == {"integer", "float", "boolean", "date", "datetime", "monetary",
              "many2one", "one2many", "many2many", "binary"}

\* A value must be there for each record read: of char and text fields that
\* are required, and of every selection.  An unknown type is an optional str.
Needed(f) ==
    LET d == Definition[f]
    IN  \/ d.type \in {"char", "text"} /\ d.required
        \/ d.type = "selection"

\* Computed fields that are not stored have no place in a class.
PydanticFields(fields) == {f \in fields : Definition[f].store}

\* begun is how many classes there were when its creation began, era that of
\* the definitions it was made of, 0 for the empty ones of a failed call.
ModelClass == [name : ModelName, own : BOOLEAN, fields : SUBSET FieldName,
               begun : Nat, era : Nat, partial : BOOLEAN]

Creating == [at : {"idle", "sent", "served"}, name : ModelName \cup {"none"},
             only : SUBSET FieldName, begun : Nat, era : Nat, got : Nat]

NoCreation == [at |-> "idle", name |-> "none", only |-> {}, begun |-> 0, era |-> 0,
               got |-> 0]

RegistryInit ==
    /\ models = [n \in ModelName |-> 0]
    /\ fieldCache = [n \in ModelName |-> 0]
    /\ classes = <<>>
    /\ creating = [t \in Task |-> NoCreation]
    /\ offered = <<FieldName>>

\* The decorator register(), and register_model().
Registered(class) ==
    /\ Len(classes) < MaxClasses
    /\ classes' = Append(classes, class)
    /\ models' = [models EXCEPT ![class.name] = Len(classes) + 1]

ProgramRegisters(n) ==
    /\ Registered([name |-> n, own |-> TRUE, fields |-> {}, begun |-> Len(classes),
                   era |-> 0, partial |-> FALSE])
    /\ UNCHANGED <<now, fieldCache, creating, offered>>

\* The class is made of the definitions of an era that base_fields leaves, and
\* replaces what the name has.
ClassMade(t, era) ==
    LET c == creating[t]
        defined == IF era = 0 THEN {} ELSE offered[era]
        kept == IF c.only = {} THEN defined ELSE defined \cap c.only
    IN  /\ Registered([name |-> c.name, own |-> FALSE, fields |-> PydanticFields(kept),
                       begun |-> c.begun, era |-> era, partial |-> c.only # {}])
        /\ creating' = [creating EXCEPT ![t] =
               [NoCreation EXCEPT !.name = c.name, !.only = c.only,
                                  !.got = Len(classes) + 1]]

CreatesUnasked(t, n, only) ==
    /\ creating[t].at = "idle"
    /\ creating' = [creating EXCEPT ![t] =
           [at |-> "sent", name |-> n, only |-> only, begun |-> Len(classes),
            era |-> 0, got |-> 0]]
    /\ UNCHANGED <<now, models, fieldCache, classes, offered>>

\* create_dynamic_model() of a name without a class.  Definitions in the cache
\* are of a name that has one.
CreationBegins(t, n, only) ==
    /\ creating[t].at = "idle"
    /\ models[n] = 0
    /\ creating' = [creating EXCEPT ![t] =
           [at |-> "sent", name |-> n, only |-> only, begun |-> Len(classes),
            era |-> 0, got |-> 0]]
    /\ UNCHANGED <<now, models, fieldCache, classes, offered>>

\* get_or_create_model(), or create_dynamic_model() of a name with a class.
ClassFound(t, n) ==
    /\ creating[t].at = "idle"
    /\ models[n] # 0
    /\ creating' = [creating EXCEPT ![t] =
                        [NoCreation EXCEPT !.name = n, !.got = models[n]]]
    /\ UNCHANGED <<now, models, fieldCache, classes, offered>>

DefinitionsServed(t) ==
    /\ creating[t].at = "sent"
    /\ creating' = [creating EXCEPT ![t].at = "served", ![t].era = Len(offered)]
    /\ UNCHANGED <<now, models, fieldCache, classes, offered>>

DefinitionsAnswer(t) ==
    /\ creating[t].at = "served"
    /\ fieldCache' = [fieldCache EXCEPT ![creating[t].name] = creating[t].era]
    /\ ClassMade(t, creating[t].era)
    /\ UNCHANGED <<now, offered>>

\* The call fails: the class is made without fields.
DefinitionsFail(t) ==
    /\ creating[t].at \in {"sent", "served"}
    /\ ClassMade(t, 0)
    /\ UNCHANGED <<now, fieldCache, offered>>

CreationCancelled(t) ==
    /\ creating[t].at \in {"sent", "served"}
    /\ creating' = [creating EXCEPT ![t] = NoCreation]
    /\ UNCHANGED <<now, models, fieldCache, classes, offered>>

ServerChanges(fields) ==
    /\ Len(offered) <= MaxChanges
    /\ offered' = Append(offered, fields)
    /\ UNCHANGED <<now, models, fieldCache, classes, creating>>

RegistryNext ==
    \/ \E t \in Task :
          \/ \E n \in ModelName :
                \/ \E only \in SUBSET FieldName : CreationBegins(t, n, only)
                \/ ClassFound(t, n)
          \/ DefinitionsServed(t)
          \/ DefinitionsAnswer(t)
          \/ DefinitionsFail(t)
          \/ CreationCancelled(t)
    \/ \E n \in ModelName : ProgramRegisters(n)
    \/ \E fields \in SUBSET FieldName : ServerChanges(fields)

RegistrySpec ==
    now = 0 /\ RegistryInit /\ [][RegistryNext]_<<now, registryVars>>

(****************************************************************************)
(* Properties.                                                              *)
(****************************************************************************)

RegistryTypeOK ==
    /\ models \in [ModelName -> 0..Len(classes)]
    /\ fieldCache \in [ModelName -> 0..Len(offered)]
    /\ classes \in Seq(ModelClass)
    /\ creating \in [Task -> Creating]
    /\ offered \in Seq(SUBSET FieldName)

\* A class the server's fields were made into replaces no class its creation
\* could have found: the two were made at once, or the program registered its
\* own meanwhile.
ReplacedOnlyAtOnce ==
    \A c, d \in 1..Len(classes) :
        /\ classes[c].name = classes[d].name
        /\ c < d
        /\ ~classes[d].own
        => classes[d].begun < c

\* Definitions are cached only for a name with a class, so that no creation is
\* ever answered from the cache, however a call failed or was cancelled.
CacheBehindClass ==
    \A n \in ModelName : fieldCache[n] # 0 => models[n] # 0

\* A record read with all the fields the server has fits the class its name
\* has, unless the class is the program's or the fields have changed since.
RecordsFit ==
    \A n \in ModelName :
        LET c == classes[models[n]]
        IN  (models[n] # 0 /\ ~c.own /\ c.era = Len(offered))
            => {f \in c.fields : Needed(f)} \subseteq offered[Len(offered)]

\* What a program that creates classes on demand relies on.
RegistryCorrect ==
    RegistryTypeOK /\ ReplacedOnlyAtOnce /\ CacheBehindClass /\ RecordsFit

================================================================================
