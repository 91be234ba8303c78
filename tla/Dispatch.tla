------------------------------ MODULE Dispatch ------------------------------
(***************************************************************************)
(* ResourceView.dispatch (adrest/views.py) and the handlers it calls       *)
(* (adrest/mixin/handler.py, adrest/forms.py), run by several workers over *)
(* one database.                                                           *)
(*                                                                         *)
(* The resource serves a child table whose rows have a non-null foreign    *)
(* key "owner" to a parent table and one more field, "title".  A request   *)
(* reaches it along one of three routes:                                   *)
(*    "nested"  Meta.parent is set: /owner/<key>/item/<keys>                *)
(*    "public"  the same, with Meta.allow_public_access = True             *)
(*    "flat"    Meta.parent = None: /item/<keys>                           *)
(*                                                                         *)
(* One action is the code from one database access to the next, so that    *)
(* the workers interleave at the database (the lookups of one form         *)
(* validation are taken together).  Authentication and throttling only     *)
(* pass or refuse here; Throttle models the latter.                        *)
(***************************************************************************)
EXTENDS Naturals, FiniteSets

CONSTANTS
    Workers,          \* threads of the WSGI server
    Owners,           \* primary keys of the parent table
    MaxItems,         \* bound: primary keys of the child table are 1..MaxItems
    Titles,           \* values the field "title" accepts
    BadTitle,         \* a value its form field rejects
    None,             \* Python's None, and an absent row or parameter
    UniqueTitles,     \* the model declares title unique
    Declared,         \* Meta.allowed_methods, upper-cased
    AllowOptions,     \* ADREST_ALLOW_OPTIONS
    Debug,            \* ADREST_DEBUG
    Refusals,         \* statuses that authenticate, throttle_check and check_rights
                      \* raise; 500 is any exception that is no HttpError
    Deletable,        \* parents that other clients may delete
    InitialRows,      \* what the child table may hold at the start
    Requests          \* the requests clients may send

Items == 1..MaxItems
Methods == {"GET", "HEAD", "POST", "PUT", "PATCH", "DELETE", "OPTIONS", "TRACE"}
Row == [owner : Owners, title : Titles]
Instance == [pk : Items, owner : Owners, title : Titles]
Statuses == {0, 200, 400, 401, 403, 404, 405, 500, 501, 503}
Stages == {"idle", "admit", "parent", "own", "owners", "rights", "handle", "create",
           "bind", "save", "drop", "emit", "error", "answered", "escaped"}

\* What dispatch looks at in a request: the keys found in the URL or the
\* parameters, the form data, what serializing its result comes to (200, or the
\* status of the exception: 400 of an assertion, the one of an HttpError of the
\* paginator or of a to_simple hook, 500 of any other), and what of it is broken:
\* its body does not parse, its Accept header names no media type, or the
\* emitter it chooses cannot serialize an error.
Request ==
    [method : Methods,
     route  : {"nested", "public", "flat"},
     key    : Owners \cup {None},
     keys   : SUBSET Items,
     owner  : Owners \cup {None},
     title  : Titles \cup {BadTitle, None},
     emits  : Statuses \ {0},
     breaks : SUBSET {"body", "accept", "error"}]

ASSUME DispatchAssumption ==
    /\ MaxItems \in Nat
    /\ None \notin Owners /\ None \notin Titles /\ None \notin Row /\ None \notin Instance
    /\ BadTitle \notin Titles \cup {None}
    /\ Declared \subseteq Methods
    /\ Refusals \subseteq {401, 403, 500, 503}
    /\ Deletable \subseteq Owners
    /\ InitialRows \subseteq [Items -> Row \cup {None}]
    /\ Requests \subseteq Request /\ Requests # {}

VARIABLES
    owners,   \* primary keys present in the parent table
    rows,     \* the child table
    pc,       \* where each worker is in dispatch
    req,      \* the request it serves
    parent,   \* resources[parent name]: the parent found, or None
    found,    \* resources[name]: "none", a "lazy" queryset, or "fetched"
    insts,    \* the instances fetched, as they were read
    todo,     \* instances the handler's loop has still to visit
    cur,      \* the instance whose form has been validated
    status,   \* status of the answer or of the exception raised; 0 before
    done      \* keys of the rows this request has inserted, saved or deleted

db == <<owners, rows>>
local == <<req, parent, found, insts>>
loop == <<todo, cur>>
vars == <<owners, rows, pc, req, parent, found, insts, todo, cur, status, done>>

-----------------------------------------------------------------------------
\* HandlerMeta.__prepare_methods
Allowed ==
    Declared
      \cup (IF AllowOptions THEN {"OPTIONS"} ELSE {})
      \cup (IF "GET" \in Declared THEN {"HEAD"} ELSE {})

\* check_method_allowed
MethodAllowed(r) == r.method \in Allowed

\* Meta.callmap: the methods that have a handler.
Callmap == {"GET", "POST", "PUT", "DELETE", "PATCH", "OPTIONS", "HEAD"}

Goto(w, label) == pc' = [pc EXCEPT ![w] = label]

\* raise an exception that handle_exception turns into the answer s
Fail(w, s) == Goto(w, "error") /\ status' = [status EXCEPT ![w] = s]

\* Mutant: the keys are not used to filter the queryset.
FetchUnfiltered(keys) ==
    {[pk |-> k, owner |-> rows[k].owner, title |-> rows[k].title] :
        k \in {i \in Items : rows[i] # None}}

\* the queryset of the requested keys, evaluated now
Fetch(keys) ==
    {[pk |-> k, owner |-> rows[k].owner, title |-> rows[k].title] :
        k \in {i \in keys : rows[i] # None}}

Keys(is) == {i.pk : i \in is}

\* first of: the URL's key or a request parameter (key), the form data (owner)
ParentKey(r) == IF r.key # None THEN r.key ELSE r.owner

-----------------------------------------------------------------------------
\* Mutant: the parents go into the form before the request's data.
FormOwnerDataLast(w, default) ==
    IF req[w].owner # None THEN req[w].owner
    ELSE IF req[w].route # "flat" THEN parent[w] ELSE default

\* What PartialForm makes of the data: the instance's fields, then the data,
\* then the parents that get_resources found.  A missing parent is passed on
\* as None (the URL's group did not match) and hides what is below it.
FormOwner(w, default) ==
    IF req[w].route # "flat" THEN parent[w]
    ELSE IF req[w].owner # None THEN req[w].owner ELSE default

FormTitle(w, default) ==
    IF req[w].title # None THEN req[w].title ELSE default

FormRow(w, i) == [owner |-> FormOwner(w, i.owner), title |-> FormTitle(w, i.title)]
NewRow(w) == [owner |-> FormOwner(w, None), title |-> FormTitle(w, None)]

\* form.is_valid(): field checks, existence of the parent, uniqueness
IsValid(row, pk) ==
    /\ row.owner \in owners
    /\ row.title \in Titles
    /\ UniqueTitles => \A i \in Items \ {pk} :
                          rows[i] # None => rows[i].title # row.title

\* constraints the database itself enforces when a row is written
Integrity(rs) ==
    /\ \A i \in Items : rs[i] # None => rs[i].owner \in owners
    /\ UniqueTitles => \A i, j \in Items :
          (i # j /\ rs[i] # None /\ rs[j] # None) => rs[i].title # rs[j].title

-----------------------------------------------------------------------------
Blank == CHOOSE r \in Requests : TRUE

Init ==
    /\ owners = Owners
    /\ rows \in InitialRows /\ Integrity(rows)
    /\ pc = [w \in Workers |-> "idle"]
    /\ req = [w \in Workers |-> Blank]
    /\ parent = [w \in Workers |-> None]
    /\ found = [w \in Workers |-> "none"]
    /\ insts = [w \in Workers |-> {}]
    /\ todo = [w \in Workers |-> {}]
    /\ cur = [w \in Workers |-> None]
    /\ status = [w \in Workers |-> 0]
    /\ done = [w \in Workers |-> {}]

\* A client's request reaches a worker: a new view instance, the started
\* signals, check_method_allowed.
Receive(w, r) ==
    /\ pc[w] \in {"idle", "answered", "escaped"}
    /\ req' = [req EXCEPT ![w] = r]
    /\ parent' = [parent EXCEPT ![w] = None]
    /\ found' = [found EXCEPT ![w] = "none"]
    /\ insts' = [insts EXCEPT ![w] = {}]
    /\ todo' = [todo EXCEPT ![w] = {}]
    /\ cur' = [cur EXCEPT ![w] = None]
    /\ done' = [done EXCEPT ![w] = {}]
    /\ IF MethodAllowed(r)
       THEN Goto(w, "admit") /\ status' = [status EXCEPT ![w] = 0]
       ELSE Fail(w, 405)
    /\ UNCHANGED db

Preflight(w) == req[w].method = "OPTIONS" /\ AllowOptions

\* parse raises HttpError(400); only these methods have their body parsed.
Unparsable(r) == r.method \in {"POST", "PUT", "PATCH"} /\ "body" \in r.breaks

\* authenticate and throttle_check pass.  The body is parsed next; OPTIONS skips
\* that, the resources and the checks on them when ADREST_ALLOW_OPTIONS is set.
Admit(w) ==
    /\ pc[w] = "admit"
    /\ IF Preflight(w) THEN Goto(w, "handle") /\ UNCHANGED status
       ELSE IF Unparsable(req[w]) THEN Fail(w, 400)
       ELSE Goto(w, "parent") /\ UNCHANGED status
    /\ UNCHANGED <<db, local, loop, done>>

\* authenticate (which lets such an OPTIONS pass) or throttle_check refuses, or
\* fails: an authenticator or the cache raises some other exception.
Refuse(w) ==
    /\ pc[w] = "admit"
    /\ \E s \in Refusals \ {403} : (s = 401 => ~Preflight(w)) /\ Fail(w, s)
    /\ UNCHANGED <<db, local, loop, done>>

\* get_resources of self.parent, which the own get_resources calls first.
GetParent(w) ==
    LET k == ParentKey(req[w])
    IN  /\ pc[w] = "parent"
        /\ \/ /\ req[w].route = "flat" \/ k = None
              /\ Goto(w, "own") /\ UNCHANGED <<parent, status>>
           \/ /\ req[w].route # "flat" /\ k \in owners
              /\ parent' = [parent EXCEPT ![w] = k]
              /\ Goto(w, "own") /\ UNCHANGED status
           \/ /\ req[w].route # "flat" /\ k # None /\ k \notin owners
              /\ Fail(w, 404) /\ UNCHANGED parent
        /\ UNCHANGED <<db, req, found, insts, loop, done>>

\* The rest of get_resources: one key is read now, several keys make a
\* queryset that is read when somebody first looks at it.
GetOwn(w) ==
    LET keys == req[w].keys
    IN  /\ pc[w] = "own"
        /\ \/ /\ keys = {}
              /\ Goto(w, "owners") /\ UNCHANGED <<found, insts, status>>
           \/ /\ Cardinality(keys) = 1 /\ Fetch(keys) # {}
              /\ found' = [found EXCEPT ![w] = "fetched"]
              /\ insts' = [insts EXCEPT ![w] = Fetch(keys)]
              /\ Goto(w, "owners") /\ UNCHANGED status
           \/ /\ Cardinality(keys) = 1 /\ Fetch(keys) = {}
              /\ Fail(w, 404) /\ UNCHANGED <<found, insts>>
           \/ /\ Cardinality(keys) > 1
              /\ found' = [found EXCEPT ![w] = "lazy"]
              /\ Goto(w, "owners") /\ UNCHANGED <<insts, status>>
        /\ UNCHANGED <<db, req, parent, loop, done>>

\* The objects as the caller sees them: evaluating a lazy queryset reads the
\* table and keeps the result; one evaluated before is not read again.
Evaluated(w) == IF found[w] = "lazy" THEN Fetch(req[w].keys) ELSE insts[w]

Evaluate(w) ==
    /\ insts' = [insts EXCEPT ![w] = Evaluated(w)]
    /\ found' = [found EXCEPT ![w] = IF @ = "lazy" THEN "fetched" ELSE @]

\* Mutant: check_owners looks at a copy of the queryset.
CheckCopy(w) ==
    /\ pc[w] = "owners"
    /\ IF req[w].route # "nested" \/ Evaluated(w) = {}
       THEN Goto(w, "rights") /\ UNCHANGED status
       ELSE IF parent[w] = None THEN Fail(w, 500)
       ELSE IF \A i \in Evaluated(w) : i.owner = parent[w]
       THEN Goto(w, "rights") /\ UNCHANGED status
       ELSE Fail(w, 403)
    /\ UNCHANGED <<db, local, loop, done>>

\* check_owners.  pr.pk is read before `not pr` is tested: objects without a
\* parent raise AttributeError, not HttpError(403).
CheckOwners(w) ==
    /\ pc[w] = "owners"
    /\ IF req[w].route = "nested" THEN Evaluate(w) ELSE UNCHANGED <<found, insts>>
    /\ IF req[w].route # "nested" \/ Evaluated(w) = {}
       THEN Goto(w, "rights") /\ UNCHANGED status
       ELSE IF parent[w] = None THEN Fail(w, 500)
       ELSE IF \A i \in Evaluated(w) : i.owner = parent[w]
       THEN Goto(w, "rights") /\ UNCHANGED status
       ELSE Fail(w, 403)
    /\ UNCHANGED <<db, req, parent, loop, done>>

\* check_rights: what the authenticator's test_rights says, or raises.
CheckRights(w) ==
    /\ pc[w] = "rights"
    /\ \/ Goto(w, "handle") /\ UNCHANGED status
       \/ \E s \in Refusals \cap {403, 500} : Fail(w, s)
    /\ UNCHANGED <<db, local, loop, done>>

-----------------------------------------------------------------------------
\* handle_request, with get, head or options: nothing is read before emit.
HandleSafe(w) ==
    /\ pc[w] = "handle" /\ req[w].method \in {"GET", "HEAD", "OPTIONS"}
    /\ Goto(w, "emit")
    /\ UNCHANGED <<db, local, loop, status, done>>

\* An allowed method that Meta.callmap does not know.
HandleUnknown(w) ==
    /\ pc[w] = "handle" /\ req[w].method \notin Callmap
    /\ Fail(w, 501)
    /\ UNCHANGED <<db, local, loop, done>>

\* post: bind the form and validate it.
HandlePost(w) ==
    /\ pc[w] = "handle" /\ req[w].method = "POST"
    /\ IF IsValid(NewRow(w), 0)
       THEN Goto(w, "create") /\ UNCHANGED status
       ELSE Fail(w, 400)
    /\ UNCHANGED <<db, local, loop, done>>

\* Write row under key k, unless the database refuses it; then IntegrityError.
Write(w, k, row) ==
    LET rows1 == [rows EXCEPT ![k] = row]
    IN  IF Integrity(rows1)
        THEN rows' = rows1 /\ done' = [done EXCEPT ![w] = @ \cup {k}]
        ELSE UNCHANGED <<rows, done>>

Refused(k, row) == ~Integrity([rows EXCEPT ![k] = row])

\* post: form.save() inserts the row under a key the database chooses.  When
\* all MaxItems keys are taken (the bound) the database refuses the row.
Create(w) ==
    /\ pc[w] = "create"
    /\ \/ \E k \in {i \in Items : rows[i] = None} :
             /\ Write(w, k, NewRow(w))
             /\ IF Refused(k, NewRow(w))
                THEN Fail(w, 500) ELSE Goto(w, "emit") /\ UNCHANGED status
       \/ /\ \A i \in Items : rows[i] # None
          /\ Fail(w, 500) /\ UNCHANGED <<rows, done>>
    /\ UNCHANGED <<owners, local, loop>>

\* put, patch and delete: no object, no change.
HandleObjects(w) ==
    /\ pc[w] = "handle" /\ req[w].method \in {"PUT", "PATCH", "DELETE"}
    /\ Evaluate(w)
    /\ IF Evaluated(w) = {}
       THEN Fail(w, 404) /\ UNCHANGED todo
       ELSE /\ todo' = [todo EXCEPT ![w] = Evaluated(w)]
            /\ Goto(w, IF req[w].method = "DELETE" THEN "drop" ELSE "bind")
            /\ UNCHANGED status
    /\ UNCHANGED <<db, req, parent, cur, done>>

\* Mutant: form.save() whatever form.is_valid() says.
BindUnchecked(w) ==
    /\ pc[w] = "bind"
    /\ \E i \in todo[w] : cur' = [cur EXCEPT ![w] = i]
    /\ Goto(w, "save")
    /\ UNCHANGED <<db, local, todo, status, done>>

\* put: bind the form to the next object, in the database's order, and
\* validate it.
BindForm(w) ==
    /\ pc[w] = "bind"
    /\ \E i \in todo[w] :
          /\ cur' = [cur EXCEPT ![w] = i]
          /\ IF IsValid(FormRow(w, i), i.pk)
             THEN Goto(w, "save") /\ UNCHANGED status
             ELSE Fail(w, 400)
    /\ UNCHANGED <<db, local, todo, done>>

\* Mutants: a `return` inside the loop; an object that is never left behind.
NoRest(w) == {}
WholeRest(w) == todo[w]

Rest(w) == todo[w] \ {cur[w]}

\* put: form.save() writes every field as the form holds it, over whatever
\* the row holds now; a row deleted meanwhile is inserted again.
Save(w) ==
    /\ pc[w] = "save"
    /\ Write(w, cur[w].pk, FormRow(w, cur[w]))
    /\ IF Refused(cur[w].pk, FormRow(w, cur[w]))
       THEN Fail(w, 500) /\ UNCHANGED todo
       ELSE /\ todo' = [todo EXCEPT ![w] = Rest(w)]
            /\ Goto(w, IF Rest(w) = {} THEN "emit" ELSE "bind")
            /\ UNCHANGED status
    /\ UNCHANGED <<owners, local, cur>>

\* Mutant: an object that is gone is answered 404.
DropOr404(w) ==
    /\ pc[w] = "drop"
    /\ \E i \in todo[w] :
          IF rows[i.pk] = None
          THEN Fail(w, 404) /\ UNCHANGED <<rows, todo, done>>
          ELSE /\ rows' = [rows EXCEPT ![i.pk] = None]
               /\ done' = [done EXCEPT ![w] = @ \cup {i.pk}]
               /\ todo' = [todo EXCEPT ![w] = @ \ {i}]
               /\ Goto(w, IF todo[w] = {i} THEN "emit" ELSE "drop")
               /\ UNCHANGED status
    /\ UNCHANGED <<owners, local, cur>>

\* Mutant: the answer is returned from inside the loop.
DropFirst(w) ==
    /\ pc[w] = "drop"
    /\ \E i \in todo[w] :
          /\ rows' = [rows EXCEPT ![i.pk] = None]
          /\ done' = [done EXCEPT ![w] = @ \cup {i.pk}]
          /\ todo' = [todo EXCEPT ![w] = {}]
          /\ Goto(w, "emit")
    /\ UNCHANGED <<owners, local, cur, status>>

\* delete: o.delete() for the next object; one already gone is no error.
Drop(w) ==
    /\ pc[w] = "drop"
    /\ \E i \in todo[w] :
          /\ rows' = [rows EXCEPT ![i.pk] = None]
          /\ done' = [done EXCEPT ![w] = @ \cup {i.pk}]
          /\ todo' = [todo EXCEPT ![w] = @ \ {i}]
          /\ Goto(w, IF todo[w] = {i} THEN "emit" ELSE "drop")
    /\ UNCHANGED <<owners, local, cur, status>>

-----------------------------------------------------------------------------
\* What emit makes of the result: no emitter is chosen for OPTIONS, from a broken
\* Accept header none can be; head, delete and options return an HttpResponse,
\* which is answered as it is; any other result is serialized.
Emitted(r) ==
    CASE r.method = "OPTIONS" -> 200
      [] r.method # "OPTIONS" /\ "accept" \in r.breaks -> 500
      [] r.method \in {"HEAD", "DELETE"} /\ "accept" \notin r.breaks -> 200
      [] OTHER -> r.emits

Serializes(r) ==
    r.method \notin {"HEAD", "DELETE", "OPTIONS"} /\ "accept" \notin r.breaks

\* emit: serializing a result reads a lazy queryset.  What is raised there is an
\* exception like any other, although the handler has done its work.
Emit(w) ==
    LET s == Emitted(req[w])
    IN  /\ pc[w] = "emit"
        /\ IF Serializes(req[w]) THEN Evaluate(w) ELSE UNCHANGED <<found, insts>>
        /\ IF s = 200
           THEN Goto(w, "answered") /\ status' = [status EXCEPT ![w] = 200]
           ELSE Fail(w, s)
        /\ UNCHANGED <<db, req, parent, loop, done>>

\* An error is emitted like a result.
ErrorBreaks(r) == "error" \in r.breaks \/ (r.method # "OPTIONS" /\ "accept" \in r.breaks)

\* handle_exception: an HttpError and a validation error are emitted, and an
\* emitter that fails on it leaves dispatch with no finished signal; any
\* other exception is answered as plain text, or re-raised under ADREST_DEBUG.
HandleException(w) ==
    LET raises == IF status[w] = 500 THEN Debug ELSE ErrorBreaks(req[w])
    IN  /\ pc[w] = "error"
        /\ Goto(w, IF raises THEN "escaped" ELSE "answered")
        /\ UNCHANGED <<db, local, loop, status, done>>

\* Another resource deletes a parent; the database cascades to its rows.
DeleteOwner(p) ==
    /\ p \in owners \cap Deletable
    /\ owners' = owners \ {p}
    /\ rows' = [k \in Items |->
                  IF rows[k] # None /\ rows[k].owner = p THEN None ELSE rows[k]]
    /\ UNCHANGED <<pc, local, loop, status, done>>

\* What the worker's thread does by itself once it has a request.
Step(w) ==
    \/ Admit(w) \/ Refuse(w) \/ GetParent(w) \/ GetOwn(w)
    \/ CheckOwners(w) \/ CheckRights(w)
    \/ HandleSafe(w) \/ HandleUnknown(w) \/ HandlePost(w) \/ Create(w)
    \/ HandleObjects(w) \/ BindForm(w) \/ Save(w) \/ Drop(w)
    \/ Emit(w) \/ HandleException(w)

Next ==
    \/ \E w \in Workers : Step(w) \/ \E r \in Requests : Receive(w, r)
    \/ \E p \in Owners : DeleteOwner(p)

Spec == Init /\ [][Next]_vars

\* The server goes on running the thread of a request it has accepted.
FairSpec == Spec /\ \A w \in Workers : WF_vars(Step(w))
-----------------------------------------------------------------------------
TypeOK ==
    /\ owners \subseteq Owners
    /\ rows \in [Items -> Row \cup {None}]
    /\ pc \in [Workers -> Stages]
    /\ req \in [Workers -> Requests]
    /\ parent \in [Workers -> Owners \cup {None}]
    /\ found \in [Workers -> {"none", "lazy", "fetched"}]
    /\ insts \in [Workers -> SUBSET Instance]
    /\ todo \in [Workers -> SUBSET Instance]
    /\ cur \in [Workers -> Instance \cup {None}]
    /\ status \in [Workers -> Statuses]
    /\ done \in [Workers -> SUBSET Items]

Handling == {"rights", "handle", "create", "bind", "save", "drop", "emit"}
Before == {"idle", "admit", "parent", "own", "owners", "rights", "handle", "create"}
Over == {"answered", "escaped"}
Changing == {"PUT", "PATCH", "DELETE"}

\* On a nested route the handler works on exactly the objects check_owners
\* has looked at: none of them belonged to another parent when it was read,
\* however the table changes while the request is served (the queryset
\* evaluated by the check is the one the handler iterates).
Checked(w) ==
    (pc[w] \in Handling /\ req[w].route = "nested" /\ ~Preflight(w)) =>
        /\ found[w] # "lazy"
        /\ \A i \in insts[w] \cup todo[w] : i.owner = parent[w]

OwnersChecked == \A w \in Workers : Checked(w)

\* The whole effect of a request: a PUT, PATCH or DELETE has visited every
\* object it found and at least one, a POST has inserted one row, any other
\* method has changed nothing.
Effect(w) ==
    CASE req[w].method \in Changing -> done[w] = Keys(insts[w]) /\ done[w] # {}
      [] req[w].method = "POST" -> \E k \in Items : done[w] = {k}
      [] OTHER -> done[w] = {}

\* The request has had its whole effect, and its result could not be shown.
Unshown(w) == status[w] = Emitted(req[w]) /\ Effect(w)

\* What is refused is refused as a whole: with any status but 500, and except for
\* a bulk update that the form stops half-way, a request that is answered with an
\* error has changed nothing, or it is the emitter that has failed, after the whole
\* effect; no other error comes after a write.
Harmless(w) ==
    (/\ pc[w] \in {"error"} \cup Over
     /\ status[w] \notin {200, 500}
     /\ ~(status[w] = 400 /\ req[w].method \in {"PUT", "PATCH"})) =>
    (done[w] = {} \/ Unshown(w))

RefusedIsHarmless == \A w \in Workers : Harmless(w)

\* 200 tells the truth: the request has had its whole effect; and a bulk update
\* that is answered 400 has not visited every object, unless it is the emitter
\* that has failed.
Truthful(w) ==
    /\ (pc[w] \in Over /\ status[w] = 200) => Effect(w)
    /\ (pc[w] \in {"error"} \cup Over /\ status[w] = 400) =>
         \/ done[w] = {}
         \/ \E i \in insts[w] : i.pk \notin done[w]
         \/ Unshown(w)

AnswerTellsEffect == \A w \in Workers : Truthful(w)

\* What the properties above rest on.  The objects are the ones fetched, one
\* per key; before the handler writes, nothing is done; in the loops, what is
\* done and what is still to do make up what was found and do not overlap;
\* and each stage is reached by its methods only.
Loops(w) ==
    /\ \A i, j \in insts[w] : i.pk = j.pk => i = j
    /\ todo[w] \subseteq insts[w]
    /\ pc[w] \in Before => done[w] = {}
    /\ pc[w] \in Before \cup {"emit"} => todo[w] = {}
    /\ pc[w] = "create" => req[w].method = "POST"
    /\ pc[w] \in {"bind", "save"} => req[w].method \in {"PUT", "PATCH"}
    /\ pc[w] = "drop" => req[w].method = "DELETE"
    /\ pc[w] \in {"bind", "save", "drop"} =>
         /\ found[w] # "lazy" /\ todo[w] # {}
         /\ Keys(insts[w]) = done[w] \cup Keys(todo[w])
         /\ \A i \in todo[w] : i.pk \notin done[w]
    /\ pc[w] = "save" => cur[w] \in todo[w]
    /\ pc[w] = "emit" => Effect(w)
    /\ (pc[w] = "emit" /\ req[w].method \in Changing) => found[w] # "lazy"
    /\ pc[w] = "error" => status[w] \notin {0, 200}

LoopInv == \A w \in Workers : Loops(w)

\* A row that a nested request inserts or saves belongs to the parent the
\* request was addressed under, whatever the form data says and whatever the
\* row held: the found parents come last in the form's data.
NestedKeepsOwner ==
    [][\A w \in Workers :
          (req[w].route = "nested" /\ req[w].method # "DELETE"
             /\ req'[w] = req[w]) =>
          \A k \in done'[w] \ done[w] :
              rows'[k] # None /\ rows'[k].owner = parent[w]]_vars

\* What the one client of a server with one worker sees of the resource.
Client == CHOOSE w \in Workers : TRUE

Told ==
    CASE pc[Client] = "idle" -> "idle"
      [] pc[Client] \in Over /\ status[Client] = 200 -> "done"
      [] pc[Client] \in Over /\ status[Client] = 500 -> "failed"
      [] pc[Client] \in Over /\ status[Client] \notin {200, 500} -> "refused"
      [] OTHER -> "nothing"

Store == INSTANCE RestStore WITH
            table <- rows, call <- req[Client], told <- Told, ids <- done[Client]

\* With one client and no other writer, dispatch and the handlers implement
\* RestStore: inserts only by POST, changes of the supplied fields only, no
\* row moved between parents on a nested route, no effect of what is refused
\* unless its result cannot be shown.
ImplementsStore == Store!RSpec

\* Every request that a worker starts to serve is over some time.
Served ==
    \A w \in Workers : (pc[w] # "idle") ~> (pc[w] \in {"idle"} \cup Over)

-----------------------------------------------------------------------------
\* What the code's comments say, and what it does not do.

\* views.py, check_owners: an error in the relationship of parent and
\* children is answered 403; objects asked for without a parent are one.
ParentlessIsForbidden ==
    \A w \in Workers :
        (pc[w] \in Over /\ req[w].route = "nested" /\ parent[w] = None /\ insts[w] # {})
        => status[w] = 403
=============================================================================
