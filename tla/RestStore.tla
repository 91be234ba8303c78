----------------------------- MODULE RestStore ------------------------------
(***************************************************************************)
(* What the handlers of a resource (post, put, patch and delete of         *)
(* adrest/mixin/handler.py) promise the client of a table nobody else      *)
(* uses: only a POST inserts a row, and one row; a PUT or PATCH changes    *)
(* the fields the request supplies, of rows that exist, and never moves a  *)
(* row of a nested route to another parent; only a DELETE removes rows; a  *)
(* request that is refused changes nothing, except that a bulk update may  *)
(* stop half-way, and that a request whose result cannot be shown is       *)
(* refused after all it asked for is done.                                 *)
(***************************************************************************)
EXTENDS Naturals

CONSTANTS Items, Row, None, Requests

VARIABLES
    table,   \* the rows, by primary key
    call,    \* the client's request
    told,    \* what it was told: "nothing" yet, "done", "refused", "failed"
    ids      \* keys of the rows the request has changed

vars == <<table, call, told, ids>>

RInit ==
    /\ table \in [Items -> Row \cup {None}]
    /\ call \in Requests
    /\ told = "idle"
    /\ ids = {}

Ask(r) ==
    /\ told # "nothing"
    /\ call' = r /\ told' = "nothing" /\ ids' = {}
    /\ UNCHANGED table

\* The parent a request names: by its URL first, then by its data.
NamedOwner == IF call.route # "flat" /\ call.key # None THEN call.key ELSE call.owner

\* The fields of a changed row: on a nested route its owner stays.
Changed(old) ==
    [owner |-> IF call.route = "nested" \/ NamedOwner = None THEN old.owner ELSE NamedOwner,
     title |-> IF call.title = None THEN old.title ELSE call.title]

Put(k, row) ==
    /\ table' = [table EXCEPT ![k] = row]
    /\ ids' = ids \cup {k}
    /\ UNCHANGED <<call, told>>

Insert(k) ==
    /\ told = "nothing" /\ call.method = "POST" /\ ids = {}
    /\ table[k] = None
    /\ Put(k, [owner |-> NamedOwner, title |-> call.title])

Amend(k) ==
    /\ told = "nothing" /\ call.method \in {"PUT", "PATCH"}
    /\ k \in call.keys \ ids /\ table[k] # None
    /\ Put(k, Changed(table[k]))

Remove(k) ==
    /\ told = "nothing" /\ call.method = "DELETE"
    /\ k \in call.keys /\ table[k] # None
    /\ Put(k, None)

Asked == {k \in call.keys : table[k] # None}

\* The request has had its whole effect.
Complete ==
    CASE call.method = "POST" -> ids # {}
      [] call.method \in {"PUT", "PATCH"} -> ids = Asked /\ ids # {}
      [] call.method = "DELETE" -> Asked = {} /\ ids # {}
      [] OTHER -> ids = {}

\* Serializing the result of such a request raises an exception with a status.
Unshowable ==
    call.method \in {"GET", "POST", "PUT", "PATCH"} /\ call.emits \notin {200, 500}

Tell(what) ==
    /\ told = "nothing"
    /\ what = "done" => Complete
    /\ what = "refused" =>
         \/ ids = {}
         \/ call.method \in {"PUT", "PATCH"} /\ ~Complete
         \/ Unshowable /\ Complete
    /\ told' = what
    /\ UNCHANGED <<table, call, ids>>

RNext ==
    \/ \E r \in Requests : Ask(r)
    \/ \E k \in Items : Insert(k) \/ Amend(k) \/ Remove(k)
    \/ \E what \in {"done", "refused", "failed"} : Tell(what)

RSpec == RInit /\ [][RNext]_vars
=============================================================================
