----------------------------- MODULE MCDispatch -----------------------------
(***************************************************************************)
(* Instances of Dispatch for TLC.                                          *)
(***************************************************************************)
EXTENDS Dispatch, TLC

CONSTANTS w1, w2, o1, o2, t1, t2

MCWorkers == {w1, w2}
MCOneWorker == {w1}
MCOwners == {o1, o2}
MCTitles == {t1, t2}

Plain(method, route, key, keys, owner, title) ==
    [method |-> method, route |-> route, key |-> key, keys |-> keys,
     owner |-> owner, title |-> title, emits |-> 200, breaks |-> {}]

Broken(r, what) == [r EXCEPT !.breaks = what]
Shown(r, s) == [r EXCEPT !.emits = s]

MCRow(o, t) == [owner |-> o, title |-> t]

\* Two rows of one parent, or of two, or one row.
MCRows ==
    {[k \in Items |-> IF k = 1 THEN MCRow(o1, t1) ELSE IF k = 2 THEN second ELSE None] :
        second \in {MCRow(o1, t2), MCRow(o2, t2), None}}

\* Requests of the concurrent runs, on nested routes ...
NestedRequests ==
    {Plain("GET", "nested", o1, {1, 2}, None, None),
     Plain("PUT", "nested", o1, {1, 2}, None, t1),
     Plain("PUT", "nested", o1, {1, 2}, o2, None),
     Plain("PATCH", "nested", o1, {1}, o2, t2),
     Plain("POST", "nested", o2, {}, o1, t2),
     Plain("DELETE", "nested", o1, {1, 2}, None, None)}

\* ... and where an object may change hands.
FlatRequests ==
    {Plain("PATCH", "flat", None, {1}, o2, None),
     Plain("PUT", "public", None, {2}, o1, t1),
     Plain("DELETE", "flat", None, {1, 2}, None, None)}

\* Requests whose result cannot be shown.
UnshownRequests ==
    {Shown(Plain("POST", "flat", None, {}, o1, t2), 400),
     Shown(Plain("PUT", "nested", o1, {1, 2}, None, t1), 400),
     Shown(Plain("PATCH", "flat", None, {1}, o2, None), 404)}

\* Requests that meet the checks and the failures of parsers and emitters.
OddRequests ==
    {Plain("OPTIONS", "nested", None, {1}, None, None),
     Plain("TRACE", "flat", None, {}, None, None),
     Plain("HEAD", "flat", None, {1}, None, None),
     Plain("DELETE", "nested", None, {2}, None, None),
     Plain("PUT", "flat", None, {}, None, t1),
     Plain("PUT", "flat", None, {1, 2}, None, BadTitle),
     Plain("POST", "public", None, {}, None, t1),
     Shown(Plain("POST", "flat", None, {}, o1, t2), 500),
     Shown(Plain("GET", "nested", o1, {1, 2}, None, None), 400),
     Broken(Plain("POST", "flat", None, {}, o1, t2), {"body"}),
     Broken(Plain("GET", "flat", None, {2}, None, None), {"error"}),
     Broken(Plain("DELETE", "flat", None, {1, 2}, None, None), {"accept"}),
     Broken(Shown(Plain("PATCH", "public", o2, {1, 2}, None, None), 500), {"error"})}

\* Requests for the run of the documented claim.
MCParentlessRequests ==
    {Plain("GET", "nested", None, keys, None, None) : keys \in SUBSET {1, 2}}

MCRaceRequests == NestedRequests \cup FlatRequests \cup UnshownRequests
MCSerialRequests == MCRaceRequests \cup OddRequests
Workers2 == Permutations({w1, w2})
=============================================================================
