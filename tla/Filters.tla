------------------------------ MODULE Filters ------------------------------
(***************************************************************************)
(* What a GET of a collection selects (adrest/mixin/dynamic.py), when the  *)
(* resources of the URL, or of the query, have been looked up              *)
(* (HandlerMixin.get_resources).                                           *)
(*                                                                         *)
(* A parameter of the query is named by its tokens, the parts between      *)
(* '__': a field, perhaps lookups, perhaps 'not' at the end.  The loop of  *)
(* get_filters visits the query's dictionary in an order of Python's       *)
(* choosing, collects the filters by key, the tokens that are left, and    *)
(* get_collection applies them in an order of Python's choosing.  Two      *)
(* parameters that have the same key leave one filter.                     *)
(*                                                                         *)
(* The resource's model has two fields: the foreign key to its parent's    *)
(* model, which may be null, and an integer.                               *)
(***************************************************************************)
EXTENDS Naturals, SequencesExt, FiniteSets

CONSTANTS
    Owner, Number,  \* names of the fields; the first also names the parent
    Owners,         \* keys of the parents that exist
    Missing,        \* a key that the URL may have, and no parent
    Numbers,        \* values of the integer field
    Values,         \* values a query may hold
    Chars,          \* the characters of such a value, as values
    Names,          \* parameter names a query may have: sequences of tokens
    ValueLists,     \* lists of values a parameter may have
    MaxParams,      \* bound: parameters in one query
    Bad,            \* a value that is no number
    None,           \* Python's None: of an owner, or of a group of the URL
    Absent,         \* a URL with no group for the parent
    Flat            \* a resource without a parent

Fields == {Owner, Number}
Rows == [{Owner, Number} -> Owners \cup Numbers \cup {None}]
Table == {r \in Rows : r[Owner] \in Owners \cup {None} /\ r[Number] \in Numbers}
Lookups == {"exact", "in", "gt"}
Routes == {Flat, Absent, None, Missing} \cup Owners
Sorts == {<<>>, <<Number>>, <<"unknown">>}

ASSUME FiltersAssumption ==
    /\ Owner # Number /\ Owners \subseteq Nat /\ Numbers \subseteq Nat
    /\ Values \subseteq Nat \cup {Bad}
    /\ Chars \in [Values -> SUBSET (Nat \cup {Bad})]
    /\ "not" \notin {Owner, Number}
    /\ \A n \in Names : n \in Seq(ToSet(n)) /\ n # <<>>
    /\ \A vs \in ValueLists : vs \in Seq(Values) /\ vs # <<>>
    /\ \A x \in {Bad, None, Absent, Flat} : x \notin Nat
    /\ Missing \notin Owners \cup {None, Absent, Flat}
    /\ Bad \notin {None, Absent, Flat} /\ None \notin {Absent, Flat} /\ Absent # Flat
    /\ \A ps \in SUBSET Owners : ps \notin {None, Absent}

VARIABLES
    pc,        \* where get_collection is
    query,     \* request.GET: a list of values for each name
    sort,      \* the values of its parameter adr-sort
    paged,     \* whether the listing is paginated; then its first page is asked for
    route,     \* the parent in the URL
    parent,    \* resources[Owner]: None, or a set of keys; Absent: no such key
    todo,      \* names the loop of get_filters has not visited
    filters,   \* what get_filters collects: value and exclude of each key
    pending,   \* keys that have not been applied
    qs         \* the rows the queryset lets through

vars == <<pc, query, sort, paged, route, parent, todo, filters, pending, qs>>

Queries ==
    UNION {[ns -> ValueLists] : ns \in {s \in SUBSET Names : Cardinality(s) <= MaxParams}}

-----------------------------------------------------------------------------
Negated(n) == Last(n) = "not"

Tokens(n) == IF Negated(n) THEN Front(n) ELSE n

\* LOOKUP_SEP.join(tokens)
Key(n, vs) == IF Len(vs) > 1 THEN Append(Tokens(n), "in") ELSE Tokens(n)

\* to_python of an integer field refuses what is no number; the one of a foreign
\* key, and the other lookups, take the text as it is.
Converts(n, vs) ==
    (Tokens(n) = <<Number>>) => \A i \in DOMAIN vs : vs[i] # Bad

\* The value under a key: the list, or its only element.
Value(vs) == ToSet(vs)

\* A key without a lookup is an exact match.  django raises FieldError for an
\* unknown lookup, and for two.
Lookup(k) == IF Len(k) = 1 THEN "exact" ELSE k[2]

IsLookup(k) == Len(k) <= 2 /\ Lookup(k) \in Lookups

\* The values a filter compares with.  A single value under "in" is text, which
\* django iterates character by character.
Operands(k, f) ==
    IF Lookup(k) = "in" /\ ~f.list THEN UNION {Chars[v] : v \in f.value} ELSE f.value

\* A condition on a row.  Null is not greater than anything.
Meets(r, k, f) ==
    LET x == r[k[1]]
    IN  IF Lookup(k) = "gt" THEN x # None /\ \E v \in f.value : x > v
        ELSE x \in Operands(k, f)

\* Mutant: exclude is forgotten.
SelectAlways(rows, k, f) ==
    {r \in rows : Meets(r, k, f)}

\* qs.filter and qs.exclude
Select(rows, k, f) ==
    {r \in rows : Meets(r, k, f) <=> ~f.exclude}

-----------------------------------------------------------------------------
Init ==
    /\ pc = "resources"
    /\ query \in Queries /\ sort \in Sorts /\ paged \in BOOLEAN /\ route \in Routes
    /\ parent = Absent /\ todo = {} /\ pending = {}
    /\ filters = <<>> /\ qs = Table

Asked == IF <<Owner>> \in DOMAIN query THEN query[<<Owner>>] ELSE <<>>

\* get_resources of the parent: the key of the URL, else those of the query.  One
\* key has to exist; several make a queryset.
GetResources ==
    LET pks == IF route \in {Flat, Absent, None} THEN Asked ELSE <<route>>
    IN  /\ pc = "resources"
        /\ IF route = Flat \/ pks = <<>>
           THEN /\ pc' = "read"
                /\ parent' = IF route = None THEN None ELSE Absent
           ELSE IF Bad \in ToSet(pks) \/ (Len(pks) = 1 /\ pks[1] \notin Owners)
           THEN pc' = "not found" /\ UNCHANGED parent
           ELSE pc' = "read" /\ parent' = ToSet(pks) \cap Owners
        /\ todo' = DOMAIN query
        /\ UNCHANGED <<query, sort, paged, route, filters, pending, qs>>

\* d[k] = v
With(d, k, v) == [x \in DOMAIN d \cup {k} |-> IF x = k THEN v ELSE d[x]]

\* One turn of get_filters' loop.
ReadParam(n) ==
    LET vs == query[n]
        key == Key(n, vs)
        filter == [value |-> Value(vs), list |-> Len(vs) > 1, exclude |-> Negated(n)]
    IN  /\ pc = "read" /\ n \in todo
        /\ todo' = todo \ {n}
        /\ IF n[1] \notin Fields
           THEN UNCHANGED <<pc, filters>>
           ELSE IF ~Converts(n, vs)
           THEN pc' = "invalid" /\ UNCHANGED filters
           ELSE /\ filters' = With(filters, key, filter)
                /\ UNCHANGED pc
        /\ UNCHANGED <<query, sort, paged, route, parent, pending, qs>>

\* The filter of the parent.  Of a queryset of several parents django 1.5 makes
\* '= (SELECT ...)', which some databases answer for one of them and others refuse
\* (Evaluate), later versions IN.
ParentFilters ==
    IF parent = None THEN {[value |-> {None}, list |-> FALSE, exclude |-> FALSE]}
    ELSE {[value |-> v, list |-> TRUE, exclude |-> FALSE] :
             v \in {parent} \cup {{p} : p \in parent}}

\* Mutant: what the query asks for comes last.
DefaultsFirst ==
    /\ pc = "read" /\ todo = {}
    /\ IF parent = Absent THEN UNCHANGED filters
       ELSE \E f \in ParentFilters :
               filters' = IF <<Owner>> \in DOMAIN filters THEN filters
                          ELSE With(filters, <<Owner>>, f)
    /\ pending' = DOMAIN filters'
    /\ pc' = "apply"
    /\ UNCHANGED <<query, sort, paged, route, parent, todo, qs>>

\* filters.update(self.get_default_filters(**resources))
Defaults ==
    /\ pc = "read" /\ todo = {}
    /\ IF parent = Absent THEN UNCHANGED filters
       ELSE \E f \in ParentFilters : filters' = With(filters, <<Owner>>, f)
    /\ pending' = DOMAIN filters'
    /\ pc' = "apply"
    /\ UNCHANGED <<query, sort, paged, route, parent, todo, qs>>

\* Mutant: a lookup django does not know is an error.
ApplyStrict(k) ==
    /\ pc = "apply" /\ k \in pending
    /\ pending' = pending \ {k}
    /\ IF ~IsLookup(k) THEN pc' = "error" /\ UNCHANGED qs
       ELSE IF Bad \in Operands(k, filters[k]) THEN pc' = "error" /\ UNCHANGED qs
       ELSE qs' = Select(qs, k, filters[k]) /\ UNCHANGED pc
    /\ UNCHANGED <<query, sort, paged, route, parent, todo, filters>>

\* One turn of get_collection's loop: FieldError is logged, what is no number
\* raises ValueError.
Apply(k) ==
    /\ pc = "apply" /\ k \in pending
    /\ pending' = pending \ {k}
    /\ IF ~IsLookup(k) THEN UNCHANGED <<pc, qs>>
       ELSE IF Bad \in Operands(k, filters[k]) THEN pc' = "error" /\ UNCHANGED qs
       ELSE qs' = Select(qs, k, filters[k]) /\ UNCHANGED pc
    /\ UNCHANGED <<query, sort, paged, route, parent, todo, filters>>

Several == parent \notin {Absent, None} /\ \E p, q \in parent : p # q

\* get_sorting and order_by; the queryset is evaluated when the answer is made,
\* where nothing catches what django or the database raise: FieldError for a sort
\* by an unknown field, unless the page is the slice [0:0], of which no query is
\* made, and an error for '= (SELECT ...)' of several parents.
Evaluate ==
    /\ pc = "apply" /\ pending = {}
    /\ \/ Several /\ pc' = "error"
       \/ pc' = IF ToSet(sort) \subseteq Fields \/ (paged /\ qs = {}) THEN "answered" ELSE "error"
    /\ UNCHANGED <<query, sort, paged, route, parent, todo, filters, pending, qs>>

Next ==
    \/ GetResources \/ Defaults \/ Evaluate
    \/ \E n \in todo : ReadParam(n)
    \/ \E k \in pending : Apply(k)

Spec == Init /\ [][Next]_vars

-----------------------------------------------------------------------------
Ended == {"answered", "not found", "invalid", "error"}

\* Whatever its query says, a listing below a parent shows only rows of that
\* parent; where the group of the parent is empty, only rows without one.
\* dynamic.py:91: the resources of the URL have the last word.
StaysInside ==
    pc = "answered" =>
        \A r \in qs :
            /\ route \in Owners => r[Owner] = route
            /\ (route # Flat /\ Asked # <<>>) => r[Owner] \in ToSet(Asked) \cup {route}
            /\ (route = None /\ Asked = <<>>) => r[Owner] = None

\* What one parameter asks of a row.  A lookup that is repeated, or unknown, asks
\* nothing.
Understood(n) ==
    /\ n[1] \in Fields
    /\ Tokens(n) = <<n[1]>> \/ (Len(query[n]) = 1 /\ IsLookup(Tokens(n)))

Asks(r, n) ==
    LET x == r[n[1]]
        vs == ToSet(query[n]) \ {Bad}
        yes == \/ Lookup(Tokens(n)) = "exact" /\ x \in vs
               \/ Lookup(Tokens(n)) = "in" /\ \E v \in ToSet(query[n]) : x \in Chars[v]
               \/ Lookup(Tokens(n)) = "gt" /\ x # None /\ \E v \in vs : x > v
    IN  Understood(n) => (yes <=> ~Negated(n))

Rival(m, n) == m[1] = n[1] /\ Key(m, query[m]) = Key(n, query[n])

Overruled(n) == parent # Absent /\ Key(n, query[n]) = <<Owner>>

\* The answer is the rows that satisfy the query, whatever the orders of the two
\* loops: all of it, except that of parameters with the same key only one counts,
\* and none that has the key of the parent.
AnswerMeansQuery ==
    pc = "answered" =>
        \E kept \in SUBSET {n \in DOMAIN query : ~Overruled(n)} :
            /\ \A m, n \in kept : Rival(m, n) => m = n
            /\ \A n \in DOMAIN query : Overruled(n) \/ \E m \in kept : Rival(m, n)
            /\ \E ps \in IF parent \in {Absent, None} THEN {parent}
                         ELSE {parent} \cup {{p} : p \in parent} :
                  qs = {r \in Table :
                          /\ \A n \in kept : Asks(r, n)
                          /\ ps = None => r[Owner] = None
                          /\ ps \notin {Absent, None} => r[Owner] \in ps}

\* What a parameter has its field compared with; a text under "in" is its
\* characters.
Compared(n) ==
    IF Lookup(Tokens(n)) = "in" THEN UNION {Chars[v] : v \in ToSet(query[n])}
                                ELSE ToSet(query[n])

Wrong(n) == n[1] \in Fields /\ Bad \in Compared(n)

\* A request is refused only for a value that is no number, a parent that does
\* not exist, or a sort by an unknown field, and where the database refuses several
\* parents.  A parent that exists in the URL is never refused for those the query
\* names.  And a wrong value goes unnoticed only where its parameter is not
\* understood or has lost its place to another, a wrong sort only on an empty page.
SeveralAsked == route \in {Absent, None} /\ \E p, q \in ToSet(Asked) \cap Owners : p # q

FailuresAreDeserved ==
    /\ pc = "not found" => \/ route = Missing
                           \/ route \in {Absent, None} /\ ~(ToSet(Asked) \subseteq Owners)
    /\ pc = "invalid" => \E n \in DOMAIN query : Wrong(n) /\ n[1] = Number
    /\ pc = "error" => \/ ~(ToSet(sort) \subseteq Fields) /\ ~(paged /\ qs = {})
                       \/ SeveralAsked
                       \/ \E n \in DOMAIN query : Wrong(n) /\ Understood(n)
    /\ pc = "answered" =>
          /\ ToSet(sort) \subseteq Fields \/ (paged /\ qs = {})
          /\ \A n \in DOMAIN query : Wrong(n) =>
                \/ ~Understood(n) \/ Overruled(n)
                \/ \E m \in DOMAIN query \ {n} : Rival(m, n)
=============================================================================
