-------------------------------- MODULE Domains --------------------------------
(****************************************************************************)
(* The Odoo domains that expressions, Q objects and the filters of a         *)
(* QuerySet build, against what they are written to mean.  A keyword filter  *)
(* or a method of Field is converted to a comparison (field, operator,       *)
(* value); each operation makes the domain of the result from the domains of *)
(* its operands, as to_domain() does.                                        *)
(****************************************************************************)
EXTENDS Naturals, FiniteSets, SequencesExt

CONSTANTS
    Field,          \* fields of a model
    Sought,         \* keyword filters of a program; its comparisons of Field
                    \* are those of a method too
    MaxBuilt,       \* bound: expressions and Q objects, with the comparisons
                    \* of Field, at first the only ones
    MaxFilters      \* bound: calls of filter() and exclude() in a chain

VARIABLES
    built,      \* expressions and Q objects
    query,      \* the QuerySet: its _domain, and what the chain asks for
    filters     \* calls of filter() and exclude() in the chain

domainVars == <<built, query, filters>>

(****************************************************************************)
(* What keywords ask for, and the comparisons they become.                   *)
(****************************************************************************)

\* How what a field holds compares with the value looked for: null (which is
\* False to Odoo), a number below or above it, equal to it, or a longer text
\* that begins with it, ends with it, does both, has it inside or lacks it.
Content == {"null", "below", "equal", "above", "begins", "ends", "both", "has",
            "lacks"}

\* A record is the content of its fields.
OdooRecord == [Field -> Content]

NullLookup == {"isnull", "isnotnull"}

ValueLookup ==
    {"exact", "iexact", "contains", "icontains", "startswith", "istartswith",
     "endswith", "iendswith", "like", "ilike", "gt", "gte", "lt", "lte", "ne",
     "in", "not_in"}

\* field__lookup=value: the value looked for ("v"; a list of it for in and
\* not_in), True or False.
Keyword == [field : Field, lookup : ValueLookup, value : {"v"}] \cup
           [field : Field, lookup : NullLookup, value : {"True", "False"}]

ASSUME DomainAssumption ==
    {MaxBuilt, MaxFilters} \subseteq Nat /\ Sought \subseteq Keyword

\* LOOKUPS.
Operator(lookup) ==
    CASE lookup \in {"exact", "isnull"} -> "="
      [] lookup \in {"ne", "isnotnull"} -> "!="
      [] lookup = "gt" -> ">"
      [] lookup = "gte" -> ">="
      [] lookup = "lt" -> "<"
      [] lookup = "lte" -> "<="
      [] lookup = "in" -> "in"
      [] lookup = "not_in" -> "not in"
      [] lookup = "like" -> "like"
      [] OTHER -> "ilike"

ProcessedSwapped(k) ==
    CASE k.lookup \in NullLookup -> "False"
      [] k.lookup \in {"contains", "icontains"} -> "%v%"
      [] k.lookup \in {"startswith", "istartswith"} -> "%v"
      [] k.lookup \in {"endswith", "iendswith"} -> "v%"
      [] OTHER -> "v"

\* _process_value(): wildcards about the text, and for null checks False,
\* whatever they were given.
Processed(k) ==
    CASE k.lookup \in NullLookup -> "False"
      [] k.lookup \in {"contains", "icontains"} -> "%v%"
      [] k.lookup \in {"startswith", "istartswith"} -> "v%"
      [] k.lookup \in {"endswith", "iendswith"} -> "%v"
      [] OTHER -> "v"

\* _parse_lookup().
ParsedLookup(k) ==
    [field |-> k.field, operator |-> Operator(k.lookup), value |-> Processed(k)]

\* The content a keyword is written to select.
Promised(k) ==
    CASE k.lookup \in NullLookup ->
             IF (k.lookup = "isnull") = (k.value = "True") THEN {"null"}
             ELSE Content \ {"null"}
      [] k.lookup \in {"contains", "icontains"} ->
             {"equal", "begins", "ends", "both", "has"}
      [] k.lookup \in {"startswith", "istartswith"} ->
             {"equal", "begins", "both"}
      [] k.lookup \in {"endswith", "iendswith"} -> {"equal", "ends", "both"}
      [] k.lookup = "gt" -> {"above"}
      [] k.lookup = "gte" -> {"equal", "above"}
      [] k.lookup = "lt" -> {"below"}
      [] k.lookup = "lte" -> {"below", "equal"}
      [] k.lookup \in {"ne", "not_in"} -> Content \ {"equal"}
      [] OTHER -> {"equal"}

Wanted(k) == {r \in OdooRecord : r[k.field] \in Promised(k)}

\* A null check given False, which _process_value() does not look at.
Discarded(k) == k.lookup \in NullLookup /\ k.value = "False"

\* What a comparison selects in Odoo; a pattern is matched as it is written.
Matching(operator, value) ==
    CASE operator = "=" -> IF value = "False" THEN {"null"} ELSE {"equal"}
      [] operator = "!=" ->
             Content \ (IF value = "False" THEN {"null"} ELSE {"equal"})
      [] operator = "in" -> {"equal"}
      [] operator = "not in" -> Content \ {"equal"}
      [] operator = ">" -> {"above"}
      [] operator = ">=" -> {"equal", "above"}
      [] operator = "<" -> {"below"}
      [] operator = "<=" -> {"below", "equal"}
      [] OTHER -> {"equal"}
                    \cup (IF value \in {"v%", "%v%"} THEN {"begins", "both"} ELSE {})
                    \cup (IF value \in {"%v", "%v%"} THEN {"ends", "both"} ELSE {})
                    \cup (IF value = "%v%" THEN {"has"} ELSE {})

Holding(term) ==
    {r \in OdooRecord : r[term.field] \in Matching(term.operator, term.value)}

Term == {ParsedLookup(k) : k \in Keyword}

\* The operators of a domain, of which Odoo knows no field.
Sign(operator) == [field |-> "none", operator |-> operator, value |-> "none"]
OrSign == Sign("|")
NotSign == Sign("!")

Token == Term \cup {OrSign, NotSign}

\* An expression or Q object, its domain, the records it is written to select,
\* and two things said of how it was built: exact, that | and ~ were applied
\* to what makes one condition only, and no null check was given False; infix,
\* that two Q objects were joined with |.
Built == [kind : {"expression", "q"}, domain : Seq(Token),
          means : SUBSET OdooRecord, exact : BOOLEAN, infix : BOOLEAN]

(****************************************************************************)
(* What Odoo reads in a domain: operators stand before their operands, and   *)
(* conditions side by side must all hold.  From right to left, an operator   *)
(* takes its operands off a stack.                                           *)
(****************************************************************************)

Read(token, s) ==
    LET n == Len(s.stack)
    IN  CASE token = NotSign -> [ok |-> s.ok /\ n >= 1,
                                 stack |-> IF n < 1 THEN <<>>
                                           ELSE <<OdooRecord \ s.stack[1]>>
                                                   \o Tail(s.stack)]
          [] token = OrSign -> [ok |-> s.ok /\ n >= 2,
                                stack |-> IF n < 2 THEN <<>>
                                          ELSE <<s.stack[1] \cup s.stack[2]>>
                                                  \o SubSeq(s.stack, 3, n)]
          [] OTHER -> [ok |-> s.ok, stack |-> <<Holding(token)>> \o s.stack]

\* What is read before s, of the last 1, 2, ... tokens.
ReadOnto(domain, s) ==
    LET read[n \in 0..Len(domain)] ==
            IF n = 0 THEN s ELSE Read(domain[Len(domain) + 1 - n], read[n - 1])
    IN  read[Len(domain)]

Reading(domain) == ReadOnto(domain, [ok |-> TRUE, stack |-> <<>>])

WellFormed(domain) == Reading(domain).ok

Conditions(domain) == Len(Reading(domain).stack)

Selects(domain) ==
    LET conditions == Reading(domain).stack
    IN  {r \in OdooRecord : \A i \in DOMAIN conditions : r \in conditions[i]}

(****************************************************************************)
(* Expressions and Q objects.                                               *)
(****************************************************************************)

\* ComparisonExpression.to_domain(): the comparisons of Field, whose methods
\* convert as the lookups do.
Comparison(k) ==
    [kind |-> "expression", domain |-> <<ParsedLookup(k)>>, means |-> Wanted(k),
     exact |-> TRUE, infix |-> FALSE]

\* is_null() and is_not_null() are given nothing.
Methods == {k \in Sought : ~Discarded(k)}

\* Keyword arguments: each name once.
SomeKeywords ==
    {keywords \in SUBSET Sought :
        /\ keywords # {}
        /\ IsFiniteSet(keywords)
        /\ \A k, l \in keywords : k.field = l.field /\ k.lookup = l.lookup => k = l}

\* FilterExpression.to_domain(): the keyword filters, one after the other.
Keywords(keywords) ==
    [kind |-> "q",
     domain |-> LET listed == SetToSeq(keywords)
                IN  [i \in 1..Len(listed) |-> ParsedLookup(listed[i])],
     means |-> {r \in OdooRecord : \A k \in keywords : r \in Wanted(k)},
     exact |-> \A k \in keywords : ~Discarded(k), infix |-> FALSE]

\* AndExpression and Q with AND: the domains side by side.
And(e, f) ==
    [kind |-> e.kind, domain |-> e.domain \o f.domain,
     means |-> e.means \cap f.means, exact |-> e.exact /\ f.exact,
     infix |-> e.infix \/ f.infix]

OneCondition(e) == e.exact /\ ~e.infix /\ Conditions(e.domain) = 1

OrAfterItsOperands(e, f) ==
    [kind |-> "expression", domain |-> e.domain \o f.domain \o <<OrSign>>,
     means |-> e.means \cup f.means,
     exact |-> OneCondition(e) /\ OneCondition(f),
     infix |-> e.infix \/ f.infix]

\* OrExpression: one operator before all.
OrExpression(e, f) ==
    [kind |-> "expression", domain |-> <<OrSign>> \o e.domain \o f.domain,
     means |-> e.means \cup f.means,
     exact |-> OneCondition(e) /\ OneCondition(f),
     infix |-> e.infix \/ f.infix]

\* Q with OR: the operator between the operands, where Odoo does not read it.
OrOfQ(e, f) ==
    [kind |-> "q", domain |-> e.domain \o <<OrSign>> \o f.domain,
     means |-> e.means \cup f.means,
     exact |-> OneCondition(e) /\ OneCondition(f), infix |-> TRUE]

\* NotExpression, and Q.__invert__() whose domain it puts "!" before.
Not(e) ==
    [kind |-> e.kind, domain |-> <<NotSign>> \o e.domain,
     means |-> OdooRecord \ e.means, exact |-> OneCondition(e), infix |-> e.infix]

\* A QuerySet before any filter.
Unfiltered == [kind |-> "q", domain |-> <<>>, means |-> OdooRecord,
               exact |-> TRUE, infix |-> FALSE]

DomainInit ==
    /\ built = {Comparison(k) : k \in Methods}
    /\ query = Unfiltered
    /\ filters = 0

Makes(e) ==
    /\ Cardinality(built) < MaxBuilt
    /\ built' = built \cup {e}
    /\ UNCHANGED <<query, filters>>

Build ==
    \/ \E keywords \in SomeKeywords : Makes(Keywords(keywords))
    \/ \E e, f \in built :
          /\ e.kind = f.kind
          /\ \/ Makes(And(e, f))
             \/ e.kind = "expression" /\ Makes(OrExpression(e, f))
             \/ e.kind = "q" /\ Makes(OrOfQ(e, f))
    \/ \E e \in built : Makes(Not(e))

(****************************************************************************)
(* QuerySet.                                                                *)
(****************************************************************************)

FilteredAnew(e) == [And(query, e) EXCEPT !.domain = e.domain]

\* filter(): the domain of the argument after what the chain has.
Filtered(e) == And(query, e)

Filter(e) ==
    /\ filters < MaxFilters
    /\ filters' = filters + 1
    /\ query' = Filtered(e)
    /\ UNCHANGED built

\* exclude(): filter() by the negated Q of the keywords; with a positional
\* argument it raises, for Q takes keywords only.
Exclude(keywords) == Filter(Not(Keywords(keywords)))

DomainNext ==
    \/ Build
    \/ \E e \in built : Filter(e)
    \/ \E keywords \in SomeKeywords : Filter(Keywords(keywords)) \/ Exclude(keywords)

DomainSpec == DomainInit /\ [][DomainNext]_domainVars

(****************************************************************************)
(* Properties.                                                              *)
(****************************************************************************)

DomainTypeOK == built \subseteq Built /\ query \in Built /\ filters \in Nat

\* A keyword selects what it is written to select, and a null check given False
\* what it selects when given True.
LookupsMean ==
    \A k \in Keyword :
       Holding(ParsedLookup(k)) =
          Wanted(IF Discarded(k) THEN [k EXCEPT !.value = "True"] ELSE k)

\* If no two Q objects were joined with |, Odoo can read the domain; and it
\* selects what the expression, Q object or chain is written to mean, where |
\* and ~ were applied to single conditions.
DomainsMean ==
    \A e \in built \cup {query} :
       ~e.infix => /\ WellFormed(e.domain)
                   /\ e.exact => Selects(e.domain) = e.means

\* What a query is asked for is what Odoo is asked for.
DomainsCorrect == DomainTypeOK /\ LookupsMean /\ DomainsMean

\* The operators of Q objects too select what they are written to, applied to
\* single conditions: for Q(a) | Q(b), docs/api-reference/query/filters.md has
\* the domain ['|', a, b].
DomainsAsWritten ==
    \A e \in built \cup {query} :
       e.exact => WellFormed(e.domain) /\ Selects(e.domain) = e.means

================================================================================
