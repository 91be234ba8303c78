----------------------------- MODULE Collection -----------------------------
(***************************************************************************)
(* GET of a collection (HandlerMixin.get, DynamicMixin, Paginator) by      *)
(* several workers which share one queryset: the attribute queryset of the *)
(* resource class' _meta, the same object for all its instances.           *)
(*                                                                         *)
(* A queryset keeps the rows it has read once and never reads again; its   *)
(* clones start with nothing read.  DynamicMixin.__init__ puts a clone in  *)
(* place of the shared queryset for every request, "for prevent query      *)
(* caching"; nothing orders this replacement, the reads of the shared      *)
(* attribute and the evaluation of what was found there among the workers. *)
(*                                                                         *)
(* The table is the number of changes it has seen: what a read returns is  *)
(* told apart by when it read.                                             *)
(***************************************************************************)
EXTENDS Naturals

CONSTANTS
    Workers,     \* threads of the WSGI server
    Querysets,   \* queryset objects; a dropped one is used again
    MaxVersion,  \* bound: changes of the table
    None         \* Python's None

Kinds == [paged : BOOLEAN, filtered : BOOLEAN]
Versions == 0..MaxVersion
Stages == {"idle", "clone", "assign", "collect", "count", "slice",
           "select", "store", "use", "answered"}

ASSUME CollectionAssumption ==
    /\ MaxVersion \in Nat
    /\ None \notin Querysets /\ None \notin Nat /\ None \notin Kinds
    /\ Querysets # {}

VARIABLES
    version,  \* the table
    shared,   \* Meta.queryset of the class
    cache,    \* _result_cache of each queryset
    pc,       \* where each worker is
    kind,     \* its request: of a page or a full list, with filters or without
    born,     \* history: the version when the request came in
    clone,    \* the clone made by __init__ and not yet assigned
    qs,       \* the queryset that get_collection has returned
    fetched,  \* rows read from the database and not yet kept
    counted,  \* the answer: number of objects,
    shown     \*   and rows

own == <<kind, born>>
told == <<counted, shown>>
vars == <<version, shared, cache, pc, kind, born, clone, qs, fetched, counted, shown>>

Held(q) ==
    \/ q = shared
    \/ \E w \in Workers : q = clone[w] \/ q = qs[w]

Goto(w, label) == pc' = [pc EXCEPT ![w] = label]

Init ==
    /\ version = 0
    /\ shared \in Querysets
    /\ cache = [q \in Querysets |-> None]
    /\ pc = [w \in Workers |-> "idle"]
    /\ kind = [w \in Workers |-> [paged |-> FALSE, filtered |-> FALSE]]
    /\ born = [w \in Workers |-> 0]
    /\ clone = [w \in Workers |-> None]
    /\ qs = [w \in Workers |-> None]
    /\ fetched = [w \in Workers |-> None]
    /\ counted = [w \in Workers |-> None]
    /\ shown = [w \in Workers |-> None]

\* as_view makes a view instance for a request.
Arrive(w) ==
    /\ pc[w] \in {"idle", "answered"}
    /\ \E k \in Kinds : kind' = [kind EXCEPT ![w] = k]
    /\ born' = [born EXCEPT ![w] = version]
    /\ fetched' = [fetched EXCEPT ![w] = None]
    /\ counted' = [counted EXCEPT ![w] = None]
    /\ shown' = [shown EXCEPT ![w] = None]
    /\ Goto(w, "clone")
    /\ UNCHANGED <<version, shared, cache, clone, qs>>

\* Mutant: a queryset that nobody has evaluated is not replaced.
CloneEvaluated(w) ==
    /\ pc[w] = "clone"
    /\ IF cache[shared] = None
       THEN Goto(w, "collect") /\ UNCHANGED <<clone, cache>>
       ELSE \E q \in Querysets :
               /\ ~Held(q)
               /\ clone' = [clone EXCEPT ![w] = q]
               /\ cache' = [cache EXCEPT ![q] = None]
               /\ Goto(w, "assign")
    /\ UNCHANGED <<version, shared, own, qs, fetched, told>>

\* __init__: self._meta.queryset.all() ...
Clone(w) ==
    /\ pc[w] = "clone"
    /\ \E q \in Querysets :
          /\ ~Held(q)
          /\ clone' = [clone EXCEPT ![w] = q]
          /\ cache' = [cache EXCEPT ![q] = None]
    /\ Goto(w, "assign")
    /\ UNCHANGED <<version, shared, own, qs, fetched, told>>

\* ... becomes the queryset of all instances.
Assign(w) ==
    /\ pc[w] = "assign"
    /\ shared' = clone[w]
    /\ clone' = [clone EXCEPT ![w] = None]
    /\ Goto(w, "collect")
    /\ UNCHANGED <<version, cache, own, qs, fetched, told>>

\* get_collection: the shared queryset, whoever has put it there, or a clone
\* of it when there are filters or a sort order.  paginate: a page, or the list.
Collect(w) ==
    /\ pc[w] = "collect"
    /\ \/ /\ ~kind[w].filtered
          /\ qs' = [qs EXCEPT ![w] = shared]
          /\ UNCHANGED cache
       \/ /\ kind[w].filtered
          /\ \E q \in Querysets :
                /\ ~Held(q)
                /\ qs' = [qs EXCEPT ![w] = q]
                /\ cache' = [cache EXCEPT ![q] = None]
    /\ Goto(w, IF kind[w].paged THEN "count" ELSE "select")
    /\ UNCHANGED <<version, shared, own, clone, fetched, told>>

\* What a queryset that is counted or sliced finds: its rows, when somebody
\* has read them, or the table.
Seen(q) == IF cache[q] # None THEN cache[q] ELSE version

\* Paginator: the count and the slice are two reads of the database.  With
\* the answer the request drops its queryset.
Count(w) ==
    /\ pc[w] = "count"
    /\ counted' = [counted EXCEPT ![w] = Seen(qs[w])]
    /\ Goto(w, "slice")
    /\ UNCHANGED <<version, shared, cache, own, clone, qs, fetched, shown>>

Slice(w) ==
    /\ pc[w] = "slice"
    /\ shown' = [shown EXCEPT ![w] = Seen(qs[w])]
    /\ qs' = [qs EXCEPT ![w] = None]
    /\ Goto(w, "answered")
    /\ UNCHANGED <<version, shared, cache, own, clone, fetched, counted>>

\* The full list, UpdatedList(collection): the rows are read unless somebody
\* has, kept in the queryset, and taken from there.
Select(w) ==
    /\ pc[w] = "select"
    /\ \/ /\ cache[qs[w]] # None
          /\ Goto(w, "use") /\ UNCHANGED fetched
       \/ /\ cache[qs[w]] = None
          /\ fetched' = [fetched EXCEPT ![w] = version]
          /\ Goto(w, "store")
    /\ UNCHANGED <<version, shared, cache, own, clone, qs, told>>

Store(w) ==
    /\ pc[w] = "store"
    /\ cache' = [cache EXCEPT ![qs[w]] = fetched[w]]
    /\ Goto(w, "use")
    /\ UNCHANGED <<version, shared, own, clone, qs, fetched, told>>

\* Mutant: the number of objects is asked from the database again.
UseAndCount(w) ==
    /\ pc[w] = "use"
    /\ counted' = [counted EXCEPT ![w] = version]
    /\ shown' = [shown EXCEPT ![w] = cache[qs[w]]]
    /\ qs' = [qs EXCEPT ![w] = None]
    /\ Goto(w, "answered")
    /\ UNCHANGED <<version, shared, cache, own, clone, fetched>>

Use(w) ==
    /\ pc[w] = "use"
    /\ counted' = [counted EXCEPT ![w] = cache[qs[w]]]
    /\ shown' = [shown EXCEPT ![w] = cache[qs[w]]]
    /\ qs' = [qs EXCEPT ![w] = None]
    /\ Goto(w, "answered")
    /\ UNCHANGED <<version, shared, cache, own, clone, fetched>>

\* Somebody changes the table.
Change ==
    /\ version < MaxVersion
    /\ version' = version + 1
    /\ UNCHANGED <<shared, cache, pc, own, clone, qs, fetched, told>>

Next ==
    \/ \E w \in Workers :
          \/ Arrive(w) \/ Clone(w) \/ Assign(w) \/ Collect(w)
          \/ Count(w) \/ Slice(w) \/ Select(w) \/ Store(w) \/ Use(w)
    \/ Change

Spec == Init /\ [][Next]_vars

-----------------------------------------------------------------------------
TypeOK ==
    /\ version \in Versions
    /\ shared \in Querysets
    /\ cache \in [Querysets -> Versions \cup {None}]
    /\ pc \in [Workers -> Stages]
    /\ kind \in [Workers -> Kinds]
    /\ born \in [Workers -> Versions]
    /\ clone \in [Workers -> Querysets \cup {None}]
    /\ qs \in [Workers -> Querysets \cup {None}]
    /\ fetched \in [Workers -> Versions \cup {None}]
    /\ counted \in [Workers -> Versions \cup {None}]
    /\ shown \in [Workers -> Versions \cup {None}]

\* No answer is older than its request, although it may come from rows that
\* another request has read into the shared queryset.
Fresh ==
    \A w \in Workers : pc[w] = "answered" =>
        /\ counted[w] \in born[w]..version
        /\ shown[w] \in born[w]..version

\* Why: once a worker has assigned its clone, whatever queryset is or comes in
\* its place holds no rows older than the worker's request, and nobody is about
\* to store such rows in it.
NoOlder(q, v) ==
    /\ cache[q] # None => cache[q] >= v
    /\ \A x \in Workers : (pc[x] = "store" /\ qs[x] = q) => fetched[x] >= v

Reading == {"count", "slice", "select", "store", "use"}

FreshSource ==
    \A w \in Workers :
        /\ pc[w] = "collect" => NoOlder(shared, born[w])
        /\ pc[w] \in Reading => NoOlder(qs[w], born[w])

-----------------------------------------------------------------------------
\* What a worker's client has asked for and not been told, and was told last.
Asked == [w \in Workers |-> IF pc[w] \in {"idle", "answered"} THEN None ELSE kind[w]]
Answer == [w \in Workers |-> IF pc[w] = "answered"
                             THEN [count |-> counted[w], rows |-> shown[w]] ELSE None]

Reads == INSTANCE SnapshotRead WITH
            Clients <- Workers, asked <- Asked, since <- born, answer <- Answer

\* The collection's GET is a SnapshotRead.
ImplementsReads == Reads!SSpec
=============================================================================
