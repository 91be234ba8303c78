--------------------------- MODULE DispatchProof ----------------------------
(***************************************************************************)
(* Theorems about Dispatch, for every set of workers, parents and          *)
(* requests and for every size of the table.                               *)
(***************************************************************************)
EXTENDS Dispatch, TLAPS

USE DispatchAssumption

-----------------------------------------------------------------------------
\* Evaluating a queryset gives instances, with different keys.
LEMMA FetchIsInstances ==
    ASSUME TypeOK, NEW keys \in SUBSET Items
    PROVE  /\ Fetch(keys) \in SUBSET Instance
           /\ \A i, j \in Fetch(keys) : i.pk = j.pk => i = j
<1>1. ASSUME NEW k \in keys, rows[k] # None
      PROVE  rows[k].owner \in Owners /\ rows[k].title \in Titles
      BY <1>1 DEF TypeOK, Row
<1> QED BY <1>1 DEF Fetch, Instance

\* ... and so does looking at the objects of a request again.
LEMMA EvaluatedIsInstances ==
    ASSUME TypeOK, NEW w \in Workers
    PROVE  Evaluated(w) \in SUBSET Instance
<1>1. req[w].keys \in SUBSET Items  BY DEF TypeOK, Request
<1> QED BY <1>1, FetchIsInstances DEF Evaluated, TypeOK

\* A form that is valid holds a row.
LEMMA ValidIsRow ==
    ASSUME TypeOK, NEW o, NEW t, NEW k, IsValid([owner |-> o, title |-> t], k)
    PROVE  [owner |-> o, title |-> t] \in Row
BY DEF TypeOK, IsValid, Row

-----------------------------------------------------------------------------
\* What is known between the validation of a form and the save of its row.
BoundInv ==
    \A w \in Workers :
        /\ pc[w] = "create" => NewRow(w) \in Row
        /\ pc[w] = "save" => cur[w] \in Instance /\ FormRow(w, cur[w]) \in Row

\* Emitting a result ends in a status.
LEMMA EmittedIsStatus ==
    ASSUME TypeOK, NEW w \in Workers
    PROVE  Emitted(req[w]) \in Statuses \ {0}
<1>1. req[w].emits \in Statuses \ {0} /\ 200 \in Statuses /\ 500 \in Statuses
      BY DEF TypeOK, Request, Statuses
<1> QED BY <1>1 DEF Emitted

LEMMA InitType == Init => TypeOK /\ BoundInv
<1> SUFFICES ASSUME Init PROVE TypeOK /\ BoundInv  OBVIOUS
<1>1. Blank \in Requests  BY DEF Blank
<1> QED BY <1>1 DEF Init, TypeOK, BoundInv, Stages, Statuses

\* Steps that move a worker on, raise or read, without writing the table.
LEMMA ChecksType ==
    ASSUME TypeOK, BoundInv, NEW w \in Workers,
           \/ Admit(w) \/ Refuse(w) \/ GetParent(w) \/ CheckRights(w)
           \/ HandleSafe(w) \/ HandleUnknown(w) \/ HandleException(w)
    PROVE  TypeOK' /\ BoundInv'
<1> USE DEF TypeOK, BoundInv, db, local, loop, Goto, Fail, Stages, Statuses,
            NewRow, FormRow, FormOwner, FormTitle
<1>1. CASE Admit(w)  BY <1>1 DEF Admit
<1>2. CASE Refuse(w)  BY <1>2 DEF Refuse
<1>3. CASE GetParent(w)  BY <1>3, SMTT(30) DEF GetParent, ParentKey
<1>4. CASE CheckRights(w)  BY <1>4 DEF CheckRights
<1>5. CASE HandleSafe(w)  BY <1>5 DEF HandleSafe
<1>6. CASE HandleUnknown(w)  BY <1>6 DEF HandleUnknown
<1>7. CASE HandleException(w)  BY <1>7 DEF HandleException
<1> QED BY <1>1, <1>2, <1>3, <1>4, <1>5, <1>6, <1>7, SMTT(30)

LEMMA ReadsType ==
    ASSUME TypeOK, BoundInv, NEW w \in Workers,
           GetOwn(w) \/ CheckOwners(w) \/ HandleObjects(w) \/ Emit(w)
    PROVE  TypeOK' /\ BoundInv'
<1> USE DEF TypeOK, BoundInv, db, local, loop, Goto, Fail, Stages, Statuses,
            NewRow, FormRow, FormOwner, FormTitle, Evaluate
<1>0. req[w].keys \in SUBSET Items /\ Evaluated(w) \in SUBSET Instance
      BY EvaluatedIsInstances DEF Request
<1>1. CASE GetOwn(w)
      BY <1>0, <1>1, FetchIsInstances, SMTT(30) DEF GetOwn
<1>2. CASE CheckOwners(w)  BY <1>0, <1>2, SMTT(30) DEF CheckOwners
<1>3. CASE HandleObjects(w)  BY <1>0, <1>3, SMTT(30) DEF HandleObjects
<1>4. CASE Emit(w)
  <2>1. Emitted(req[w]) \in Statuses  BY EmittedIsStatus
  <2> HIDE DEF Statuses
  <2>2. status' \in [Workers -> Statuses]  BY <1>4, <2>1 DEF Emit, Statuses
  <2> QED BY <1>0, <1>4, <2>2, SMTT(30) DEF Emit
<1> QED BY <1>1, <1>2, <1>3, <1>4

\* Validation, from which BoundInv follows, and the writes, which rest on it.
LEMMA FormsType ==
    ASSUME TypeOK, BoundInv, NEW w \in Workers, HandlePost(w) \/ BindForm(w)
    PROVE  TypeOK' /\ BoundInv'
<1> USE DEF TypeOK, BoundInv, db, local, Goto, Fail, Stages, Statuses
<1>1. CASE HandlePost(w)
  <2>1. IsValid(NewRow(w), 0) => NewRow(w) \in Row
        BY ValidIsRow DEF NewRow
  <2> QED BY <1>1, <2>1 DEF HandlePost, loop, NewRow, FormRow, FormOwner, FormTitle
<1>2. CASE BindForm(w)
  <2>1. PICK i \in todo[w] :
          /\ cur' = [cur EXCEPT ![w] = i]
          /\ IF IsValid(FormRow(w, i), i.pk)
             THEN Goto(w, "save") /\ UNCHANGED status
             ELSE Fail(w, 400)
        BY <1>2, ZenonT(30) DEF BindForm
  <2>2. IsValid(FormRow(w, i), i.pk) => FormRow(w, i) \in Row
        BY ValidIsRow DEF FormRow
  <2>3. UNCHANGED <<owners, rows, req, parent, found, insts, todo, done>>
        BY <1>2 DEF BindForm
  <2>4. TypeOK'  BY <2>1, <2>3
  <2>5. ASSUME NEW v \in Workers PROVE BoundInv!(v)'
        BY <2>1, <2>2, <2>3 DEF NewRow, FormRow, FormOwner, FormTitle
  <2> QED BY <2>4, <2>5
<1> QED BY <1>1, <1>2

\* A write keeps the types ...
LEMMA WriteType ==
    ASSUME TypeOK, NEW w \in Workers, NEW k \in Items, NEW row \in Row, Write(w, k, row)
    PROVE  rows' \in [Items -> Row \cup {None}] /\ done' \in [Workers -> SUBSET Items]
BY DEF TypeOK, Write

\* ... and is done by one worker.
LEMMA WriteFrame ==
    ASSUME TypeOK, NEW w \in Workers, NEW v \in Workers, v # w, NEW k, NEW row,
           Write(w, k, row)
    PROVE  done'[v] = done[v]
<1>1. CASE Integrity([rows EXCEPT ![k] = row])  BY <1>1 DEF TypeOK, Write
<1>2. CASE ~Integrity([rows EXCEPT ![k] = row])  BY <1>2 DEF Write
<1> QED BY <1>1, <1>2

LEMMA WritesType ==
    ASSUME TypeOK, BoundInv, NEW w \in Workers,
           Create(w) \/ Save(w) \/ Drop(w)
    PROVE  TypeOK' /\ BoundInv'
<1> USE DEF TypeOK, local, Goto, Fail, Stages, Statuses
<1>1. CASE Create(w)
  <2>1. NewRow(w) \in Row  BY <1>1 DEF BoundInv, Create
  <2>2. pc' \in [Workers -> Stages] /\ status' \in [Workers -> Statuses]
        BY <1>1 DEF Create
  <2>5. rows' \in [Items -> Row \cup {None}] /\ done' \in [Workers -> SUBSET Items]
    <3>1. \/ \E k \in Items : Write(w, k, NewRow(w))
          \/ UNCHANGED <<rows, done>>
          BY <1>1 DEF Create
    <3> QED BY <2>1, <3>1, WriteType
  <2>6. UNCHANGED <<owners, req, parent, found, insts, todo, cur>>
        BY <1>1 DEF Create, loop
  <2>7. TypeOK'  BY <2>2, <2>5, <2>6
  <2>3. UNCHANGED <<req, parent, cur>> /\ pc'[w] \in {"emit", "error"}
        BY <1>1 DEF Create, loop
  <2>4. \A v \in Workers : v # w => pc'[v] = pc[v]  BY <1>1 DEF Create
  <2> QED BY <2>7, <2>3, <2>4 DEF BoundInv, NewRow, FormRow, FormOwner, FormTitle
<1>2. CASE Save(w)
  <2>1. cur[w].pk \in Items /\ FormRow(w, cur[w]) \in Row
        BY <1>2 DEF BoundInv, Save, Instance
  <2>2. TypeOK'  BY <1>2, <2>1 DEF Save, Write, Rest
  <2>3. UNCHANGED <<req, parent, cur>> /\ pc'[w] \in {"emit", "bind", "error"}
        BY <1>2 DEF Save
  <2>4. \A v \in Workers : v # w => pc'[v] = pc[v]  BY <1>2 DEF Save
  <2> QED BY <2>2, <2>3, <2>4 DEF BoundInv, NewRow, FormRow, FormOwner, FormTitle
<1>3. CASE Drop(w)
      BY <1>3 DEF Drop, Instance, BoundInv, NewRow, FormRow, FormOwner, FormTitle
<1> QED BY <1>1, <1>2, <1>3

LEMMA OthersType ==
    ASSUME TypeOK, BoundInv,
           \/ \E w \in Workers, r \in Requests : Receive(w, r)
           \/ \E p \in Owners : DeleteOwner(p)
    PROVE  TypeOK' /\ BoundInv'
<1>1. ASSUME NEW w \in Workers, NEW r \in Requests, Receive(w, r)
      PROVE  TypeOK' /\ BoundInv'
  <2>1. /\ req' = [req EXCEPT ![w] = r] /\ parent' = [parent EXCEPT ![w] = None]
        /\ found' = [found EXCEPT ![w] = "none"] /\ insts' = [insts EXCEPT ![w] = {}]
        /\ todo' = [todo EXCEPT ![w] = {}] /\ cur' = [cur EXCEPT ![w] = None]
        /\ done' = [done EXCEPT ![w] = {}]
        /\ UNCHANGED <<owners, rows>>
        BY <1>1 DEF Receive, db
  <2>2. \/ /\ pc' = [pc EXCEPT ![w] = "admit"]
           /\ status' = [status EXCEPT ![w] = 0]
        \/ /\ pc' = [pc EXCEPT ![w] = "error"]
           /\ status' = [status EXCEPT ![w] = 405]
        BY <1>1, ZenonT(30) DEF Receive, Goto, Fail
  <2>3. TypeOK'
    <3>2. pc' \in [Workers -> Stages] /\ status' \in [Workers -> Statuses]
          BY <2>2 DEF TypeOK, Stages, Statuses
    <3>3. req' \in [Workers -> Requests] /\ parent' \in [Workers -> Owners \cup {None}]
          BY <2>1 DEF TypeOK
    <3>4. found' \in [Workers -> {"none", "lazy", "fetched"}]  BY <2>1 DEF TypeOK
    <3>5. insts' \in [Workers -> SUBSET Instance] /\ todo' \in [Workers -> SUBSET Instance]
          BY <2>1 DEF TypeOK
    <3>6. cur' \in [Workers -> Instance \cup {None}] /\ done' \in [Workers -> SUBSET Items]
          BY <2>1 DEF TypeOK
    <3> QED BY <2>1, <3>2, <3>3, <3>4, <3>5, <3>6 DEF TypeOK
  <2>4. ASSUME NEW v \in Workers, v # w
        PROVE  UNCHANGED <<pc[v], req[v], parent[v], cur[v]>>
        BY <2>1, <2>2, <2>4 DEF TypeOK
  <2>5. pc'[w] \notin {"create", "save"}  BY <2>2 DEF TypeOK
  <2>6. BoundInv'
        BY <2>4, <2>5 DEF BoundInv, NewRow, FormRow, FormOwner, FormTitle
  <2> QED BY <2>3, <2>6
<1>2. ASSUME NEW p \in Owners, DeleteOwner(p)
      PROVE  TypeOK' /\ BoundInv'
  <2>1. UNCHANGED <<pc, req, parent, found, insts, todo, cur, status, done>>
        BY <1>2 DEF DeleteOwner, local, loop
  <2>2. owners' \subseteq Owners /\ rows' \in [Items -> Row \cup {None}]
        BY <1>2 DEF DeleteOwner, TypeOK
  <2> QED BY <2>1, <2>2 DEF TypeOK, BoundInv, NewRow, FormRow, FormOwner, FormTitle
<1> QED BY <1>1, <1>2

LEMMA StepType == TypeOK /\ BoundInv /\ [Next]_vars => TypeOK' /\ BoundInv'
<1> SUFFICES ASSUME TypeOK, BoundInv, [Next]_vars PROVE TypeOK' /\ BoundInv'
    OBVIOUS
<1>1. CASE UNCHANGED vars
      BY <1>1 DEF vars, TypeOK, BoundInv, NewRow, FormRow, FormOwner, FormTitle
<1>2. CASE Next
      BY <1>2, ChecksType, ReadsType, FormsType, WritesType, OthersType
      DEF Next, Step
<1> QED BY <1>1, <1>2

\* Every variable of dispatch stays within its type: in particular the table
\* holds only complete rows of known parents and accepted titles, although a
\* form is validated in one step and written in another.
THEOREM TypeCorrect == Spec => []TypeOK
<1>1. Spec => [](TypeOK /\ BoundInv)
      BY InitType, StepType, PTL DEF Spec
<1> QED BY <1>1, PTL

-----------------------------------------------------------------------------
\* The safety properties, worker by worker.
LocalInv(w) == Checked(w) /\ Harmless(w) /\ Truthful(w) /\ Loops(w)

Mine(w) ==
    <<pc[w], req[w], parent[w], found[w], insts[w], todo[w], cur[w], status[w], done[w]>>

\* No property of a worker mentions what the others or the table hold.
LEMMA LocalFrame ==
    ASSUME NEW v \in Workers, LocalInv(v), UNCHANGED Mine(v)
    PROVE  LocalInv(v)'
BY DEF LocalInv, Mine, Checked, Harmless, Truthful, Loops, Effect, Unshown, Preflight

\* A worker's step leaves the other workers' variables alone.
LEMMA OthersFrame ==
    ASSUME TypeOK, NEW w \in Workers, NEW v \in Workers, v # w,
           Step(w) \/ \E r \in Requests : Receive(w, r)
    PROVE  UNCHANGED Mine(v)
<1> USE DEF TypeOK, Mine, db, local, loop, Goto, Fail
<1>1. CASE Admit(w) \/ Refuse(w) \/ GetParent(w)
      BY <1>1 DEF Admit, Refuse, GetParent
<1>8. CASE GetOwn(w)
  <2>1. UNCHANGED <<owners, rows, req, parent, todo, cur, done>>  BY <1>8 DEF GetOwn
  <2>2. found'[v] = found[v] /\ insts'[v] = insts[v]  BY <1>8 DEF GetOwn
  <2>3. pc'[v] = pc[v] /\ status'[v] = status[v]  BY <1>8 DEF GetOwn
  <2> QED BY <2>1, <2>2, <2>3
<1>2. CASE CheckOwners(w) \/ CheckRights(w) \/ HandleSafe(w) \/ HandleUnknown(w)
      BY <1>2 DEF CheckOwners, CheckRights, HandleSafe, HandleUnknown, Evaluate
<1>3. CASE HandlePost(w)  BY <1>3 DEF HandlePost
<1>9. CASE Create(w)
  <2>1. UNCHANGED <<req, parent, found, insts, todo, cur>>  BY <1>9 DEF Create
  <2>2. pc'[v] = pc[v] /\ status'[v] = status[v]  BY <1>9 DEF Create
  <2>3. (\E k \in Items : Write(w, k, NewRow(w))) \/ UNCHANGED done  BY <1>9 DEF Create
  <2> QED BY <2>1, <2>2, <2>3, WriteFrame
<1>4. CASE HandleObjects(w) \/ BindForm(w)
      BY <1>4 DEF HandleObjects, Evaluate, BindForm
<1>5. CASE Save(w) \/ Drop(w)
      BY <1>5 DEF Save, Write, Drop
<1>6. CASE Emit(w) \/ HandleException(w)
      BY <1>6 DEF Emit, Evaluate, HandleException
<1>7. CASE \E r \in Requests : Receive(w, r)
  <2>1. PICK r \in Requests : Receive(w, r)  BY <1>7
  <2>2. UNCHANGED <<pc[v], status[v]>>  BY <2>1 DEF Receive
  <2> QED BY <2>1, <2>2 DEF Receive
<1> QED BY <1>1, <1>2, <1>3, <1>4, <1>5, <1>6, <1>7, <1>8, <1>9 DEF Step

LEMMA EvaluatedDiffer ==
    ASSUME TypeOK, NEW w \in Workers, Loops(w)
    PROVE  \A i, j \in Evaluated(w) : i.pk = j.pk => i = j
<1>1. req[w].keys \in SUBSET Items  BY DEF TypeOK, Request
<1> QED BY <1>1, FetchIsInstances DEF Evaluated, Loops

\* Before the handler: nothing is done yet, and what check_owners evaluates
\* is what it compares with the parent.
LEMMA ChecksLocal ==
    ASSUME TypeOK, NEW w \in Workers, LocalInv(w),
           \/ Admit(w) \/ Refuse(w) \/ GetParent(w) \/ GetOwn(w)
           \/ CheckOwners(w) \/ CheckRights(w)
    PROVE  LocalInv(w)'
<1> USE DEF TypeOK, LocalInv, Checked, Harmless, Truthful, Loops, Handling, Before,
            Over, Preflight, db, local, loop, Goto, Fail
<1>1. CASE Admit(w)  BY <1>1 DEF Admit
<1>2. CASE Refuse(w)
  <2>1. pc'[w] = "error" /\ status'[w] \in {401, 500, 503}  BY <1>2 DEF Refuse
  <2> QED BY <1>2, <2>1 DEF Refuse
<1>3. CASE GetParent(w)  BY <1>3 DEF GetParent
<1>4. CASE GetOwn(w)
  <2>1. req[w].keys \in SUBSET Items  BY DEF Request
  <2> QED BY <1>4, <2>1, FetchIsInstances DEF GetOwn
<1>5. CASE CheckOwners(w)
  <2>1. CASE req[w].route = "nested"
        BY <1>5, <2>1, EvaluatedDiffer, EvaluatedIsInstances DEF CheckOwners, Evaluate
  <2>2. CASE req[w].route # "nested"
    <3>1. pc' = [pc EXCEPT ![w] = "rights"]
          /\ UNCHANGED <<req, parent, found, insts, todo, cur, status, done>>
          BY <1>5, <2>2 DEF CheckOwners
    <3> QED BY <1>5, <2>2, <3>1 DEF CheckOwners
  <2> QED BY <2>1, <2>2
<1>6. CASE CheckRights(w)  BY <1>6 DEF CheckRights
<1> QED BY <1>1, <1>2, <1>3, <1>4, <1>5, <1>6

LEMMA HandlersLocal ==
    ASSUME TypeOK, NEW w \in Workers, LocalInv(w),
           \/ HandleSafe(w) \/ HandleUnknown(w) \/ HandlePost(w) \/ Create(w)
           \/ HandleObjects(w) \/ BindForm(w)
    PROVE  LocalInv(w)'
<1> USE DEF TypeOK, LocalInv, Checked, Harmless, Truthful, Loops, Effect, Handling,
            Before, Over, Changing, Callmap, Preflight, db, local, loop, Goto, Fail
<1>1. CASE HandleSafe(w)  BY <1>1 DEF HandleSafe
<1>2. CASE HandleUnknown(w)  BY <1>2 DEF HandleUnknown
<1>3. CASE HandlePost(w)  BY <1>3 DEF HandlePost
<1>4. CASE Create(w)
  <2>1. CASE pc'[w] = "emit"
    <3>4. PICK k \in Items : Write(w, k, NewRow(w)) /\ ~Refused(k, NewRow(w))
          BY <1>4, <2>1 DEF Create
    <3>5. done[w] = {}  BY <1>4 DEF Create
    <3>1. done'[w] = {k}  BY <3>4, <3>5 DEF Write, Refused
    <3>2. UNCHANGED <<req, parent, found, insts, todo>>  BY <1>4 DEF Create
    <3>3. pc[w] = "create"  BY <1>4 DEF Create
    <3> QED BY <2>1, <3>1, <3>2, <3>3
  <2>2. CASE pc'[w] # "emit"
    <3>1. pc'[w] = "error" /\ status'[w] = 500  BY <1>4, <2>2 DEF Create
    <3> QED BY <1>4, <3>1 DEF Create
  <2> QED BY <2>1, <2>2
<1>5. CASE HandleObjects(w)
  <2>1. /\ pc[w] = "handle" /\ req[w].method \in {"PUT", "PATCH", "DELETE"}
        /\ insts'[w] = Evaluated(w) /\ found'[w] # "lazy"
        /\ found[w] # "lazy" => Evaluated(w) = insts[w]
        /\ UNCHANGED <<req, parent, cur, done>>
        BY <1>5 DEF HandleObjects, Evaluate, Evaluated
  <2>2. CASE Evaluated(w) = {}
    <3>1. pc'[w] = "error" /\ status'[w] = 404 /\ todo' = todo
          BY <1>5, <2>2 DEF HandleObjects
    <3> QED BY <2>1, <2>2, <3>1
  <2>3. CASE Evaluated(w) # {}
    <3>1. /\ todo'[w] = Evaluated(w) /\ status' = status
          /\ pc'[w] = IF req[w].method = "DELETE" THEN "drop" ELSE "bind"
          BY <1>5, <2>3 DEF HandleObjects
    <3>2. done'[w] = {}  BY <2>1
    <3> QED BY <2>1, <2>3, <3>1, <3>2, EvaluatedDiffer DEF Keys
  <2> QED BY <2>2, <2>3
<1>6. CASE BindForm(w)
      BY <1>6 DEF BindForm, Keys
<1> QED BY <1>1, <1>2, <1>3, <1>4, <1>5, <1>6

\* Visiting one more object: the split of what was found into what is done and
\* what is still to do is kept.
LEMMA LoopsLocal ==
    ASSUME TypeOK, NEW w \in Workers, LocalInv(w), Save(w) \/ Drop(w)
    PROVE  LocalInv(w)'
<1> DEFINE Visited(i) ==
              /\ i \in todo[w]
              /\ done'[w] = done[w] \cup {i.pk} /\ todo'[w] = todo[w] \ {i}
              /\ UNCHANGED <<req, parent, found, insts>>
              /\ pc'[w] = "emit" <=> todo'[w] = {}
              /\ pc'[w] # "save" /\ (pc'[w] = "emit" \/ pc'[w] = pc[w]
                                      \/ (pc[w] = "save" /\ pc'[w] = "bind"))
<1>0. pc[w] \in {"save", "drop"}  BY DEF Save, Drop
<1>1. ASSUME NEW i, Visited(i) PROVE LocalInv(w)'
  <2>0. /\ \A a, b \in insts[w] : a.pk = b.pk => a = b
        /\ todo[w] \in SUBSET insts[w] /\ i \in todo[w]
        /\ Keys(insts[w]) = done[w] \cup Keys(todo[w])
        /\ \A j \in todo[w] : j.pk \notin done[w]
        /\ insts[w] \in SUBSET Instance /\ done[w] \in SUBSET Items
        BY <1>0, <1>1 DEF LocalInv, Loops, TypeOK
  <2>8. /\ Keys(insts[w]) = (done[w] \cup {i.pk}) \cup Keys(todo[w] \ {i})
        /\ \A j \in todo[w] \ {i} : j.pk \notin done[w] \cup {i.pk}
    <3>1. Keys(todo[w]) = {i.pk} \cup Keys(todo[w] \ {i})  BY <2>0 DEF Keys
    <3>2. \A j \in todo[w] \ {i} : j.pk # i.pk  BY <2>0
    <3> QED BY <2>0, <3>1, <3>2
  <2>12. done'[w] = done[w] \cup {i.pk} /\ todo'[w] = todo[w] \ {i}  BY <1>1
  <2>1. /\ Keys(insts[w]) = done'[w] \cup Keys(todo'[w])
        /\ \A j \in todo'[w] : j.pk \notin done'[w]
        /\ done'[w] # {}
        BY <2>8, <2>12
  <2>2. todo'[w] = {} => Keys(insts[w]) = done'[w]  BY <2>1 DEF Keys
  <2>3. req[w].method \in Changing  BY <1>0 DEF LocalInv, Loops, Changing
  <2>4. Effect(w)' <=> (done'[w] = Keys(insts'[w]) /\ done'[w] # {})
        BY <1>1, <2>3 DEF Effect, Changing
  <2>9. insts'[w] = insts[w] /\ found'[w] = found[w] /\ req'[w] = req[w]
        BY <1>1
  <2>10. pc'[w] = "emit" => Effect(w)'  BY <1>1, <2>1, <2>2, <2>4, <2>9
  <2>11. found[w] # "lazy" /\ todo'[w] \subseteq insts'[w]
         BY <1>0, <1>1, <2>0, <2>9 DEF LocalInv, Loops
  <2>13. /\ \A a, b \in insts'[w] : a.pk = b.pk => a = b
         /\ pc'[w] \notin Before /\ pc'[w] # "error" /\ pc'[w] # "create" /\ pc'[w] # "save"
         /\ pc'[w] = "emit" => todo'[w] = {}
         /\ pc'[w] = "bind" => pc[w] \in {"bind", "save"}
         /\ pc'[w] = "drop" => pc[w] = "drop"
         BY <1>0, <1>1, <2>0, <2>9 DEF Before
  <2>14. pc'[w] \in {"bind", "save", "drop"} => todo'[w] # {}  BY <1>0, <1>1
  <2>5. Loops(w)'
        BY <1>0, <2>1, <2>9, <2>10, <2>11, <2>13, <2>14 DEF LocalInv, Loops
  <2>6. Checked(w)'
        BY <1>0, <1>1 DEF LocalInv, Loops, Checked, Handling, Preflight
  <2>7. pc'[w] \notin {"error"} \cup Over  BY <1>0, <1>1 DEF Over
  <2> QED BY <2>5, <2>6, <2>7 DEF LocalInv, Harmless, Truthful, Over
<1>2. CASE Save(w)
  <2>1. CASE Refused(cur[w].pk, FormRow(w, cur[w]))
    <3>1. pc'[w] = "error" /\ status'[w] = 500
          BY <1>2, <2>1 DEF Save, Fail, Goto, TypeOK
    <3>2. UNCHANGED <<req, parent, found, insts, todo, done>>
          BY <1>2, <2>1 DEF Save, Write, Refused, local
    <3> QED BY <3>1, <3>2
            DEF LocalInv, Checked, Harmless, Truthful, Loops, Handling, Before, Over
  <2>2. CASE ~Refused(cur[w].pk, FormRow(w, cur[w]))
    <3>1. pc[w] = "save" /\ cur[w] \in todo[w]  BY <1>2 DEF Save, LocalInv, Loops
    <3>2. done'[w] = done[w] \cup {cur[w].pk}
          BY <1>2, <2>2 DEF Save, Write, Refused, TypeOK
    <3>3. /\ todo'[w] = todo[w] \ {cur[w]}
          /\ pc'[w] = IF todo'[w] = {} THEN "emit" ELSE "bind"
          BY <1>2, <2>2 DEF Save, Rest, Goto, TypeOK
    <3>4. Visited(cur[w])  BY <1>2, <3>1, <3>2, <3>3 DEF Save, local
    <3> QED BY <3>4, <1>1
  <2> QED BY <2>1, <2>2
<1>3. CASE Drop(w)
  <2>1. PICK i \in todo[w] :
          /\ done' = [done EXCEPT ![w] = @ \cup {i.pk}]
          /\ todo' = [todo EXCEPT ![w] = @ \ {i}]
          /\ Goto(w, IF todo[w] = {i} THEN "emit" ELSE "drop")
        BY <1>3, ZenonT(30) DEF Drop
  <2>2. todo'[w] = {} <=> todo[w] = {i}  BY <2>1 DEF TypeOK
  <2>3. Visited(i)  BY <1>3, <2>1, <2>2 DEF Drop, Goto, TypeOK, local
  <2> QED BY <2>3, <1>1
<1> QED BY <1>2, <1>3

LEMMA EndsLocal ==
    ASSUME TypeOK, NEW w \in Workers, LocalInv(w),
           Emit(w) \/ HandleException(w) \/ \E r \in Requests : Receive(w, r)
    PROVE  LocalInv(w)'
<1> USE DEF TypeOK, LocalInv, Checked, Harmless, Truthful, Loops, Effect, Unshown,
            Handling, Before, Over, Changing, Preflight, db, local, loop, Goto, Fail
<1>1. CASE Emit(w)
  <2>1. /\ pc[w] = "emit" /\ UNCHANGED <<req, parent, todo, cur, done>>
        /\ req[w].method \in Changing => insts'[w] = insts[w]
        /\ insts'[w] \in {insts[w], Evaluated(w)}
        BY <1>1 DEF Emit, Evaluate, Evaluated
  <2>2. \A i, j \in insts'[w] : i.pk = j.pk => i = j  BY <2>1, EvaluatedDiffer
  <2>3. \/ /\ pc'[w] = "error" /\ status'[w] = Emitted(req'[w])
           /\ status'[w] \notin {0, 200}
        \/ pc'[w] = "answered" /\ status'[w] = 200
        BY <1>1, EmittedIsStatus DEF Emit
  <2>4. Effect(w)'  BY <2>1
  <2> QED BY <2>1, <2>2, <2>3, <2>4
<1>2. CASE HandleException(w)  BY <1>2 DEF HandleException
<1>3. CASE \E r \in Requests : Receive(w, r)
  <2>1. PICK r \in Requests : Receive(w, r)  BY <1>3
  <2>2. /\ insts'[w] = {} /\ todo'[w] = {} /\ done'[w] = {}
        BY <2>1 DEF Receive
  <2>3. pc'[w] = "admit" \/ (pc'[w] = "error" /\ status'[w] = 405)
        BY <2>1 DEF Receive
  <2> QED BY <2>2, <2>3
<1> QED BY <1>1, <1>2, <1>3

-----------------------------------------------------------------------------
IInv == TypeOK /\ BoundInv /\ \A w \in Workers : LocalInv(w)

LEMMA InitInv == Init => IInv
<1> SUFFICES ASSUME Init PROVE IInv  OBVIOUS
<1>1. ASSUME NEW w \in Workers PROVE LocalInv(w)
      BY DEF Init, LocalInv, Checked, Harmless, Truthful, Loops, Handling, Before, Over
<1> QED BY <1>1, InitType DEF IInv

LEMMA StepInv == IInv /\ [Next]_vars => IInv'
<1> SUFFICES ASSUME IInv, [Next]_vars PROVE IInv'  OBVIOUS
<1> USE DEF IInv
<1>1. TypeOK' /\ BoundInv'  BY StepType
<1>2. ASSUME NEW w \in Workers, Step(w) \/ \E r \in Requests : Receive(w, r)
      PROVE  \A v \in Workers : LocalInv(v)'
  <2>1. LocalInv(w)'
        BY <1>2, ChecksLocal, HandlersLocal, LoopsLocal, EndsLocal DEF Step
  <2>2. ASSUME NEW v \in Workers, v # w PROVE LocalInv(v)'
        BY <1>2, <2>2, OthersFrame, LocalFrame
  <2> QED BY <2>1, <2>2
<1>3. ASSUME \E p \in Owners : DeleteOwner(p)
      PROVE  \A v \in Workers : LocalInv(v)'
  <2>1. \A v \in Workers : UNCHANGED Mine(v)
        BY <1>3 DEF DeleteOwner, Mine, local, loop
  <2> QED BY <2>1, LocalFrame
<1>4. ASSUME UNCHANGED vars PROVE \A v \in Workers : LocalInv(v)'
  <2>1. \A v \in Workers : UNCHANGED Mine(v)  BY <1>4 DEF Mine, vars
  <2> QED BY <2>1, LocalFrame
<1>5. \A v \in Workers : LocalInv(v)'
      BY <1>2, <1>3, <1>4 DEF Next
<1> QED BY <1>1, <1>5

LEMMA Invariance == Spec => []IInv
BY InitInv, StepInv, PTL DEF Spec

\* However the workers interleave, a nested request's handler works on
\* objects whose parent was checked, and on no others.
THEOREM OwnersAreChecked == Spec => []OwnersChecked
<1>1. IInv => OwnersChecked  BY DEF IInv, LocalInv, OwnersChecked
<1> QED BY <1>1, Invariance, PTL

\* A request that is answered with an error other than 500 has changed nothing, or its
\* result could not be shown after the whole effect; a bulk update may stop half-way.
THEOREM RefusalsAreHarmless == Spec => []RefusedIsHarmless
<1>1. IInv => RefusedIsHarmless  BY DEF IInv, LocalInv, RefusedIsHarmless
<1> QED BY <1>1, Invariance, PTL

\* A request answered 200 has had its whole effect, and one answered 400 has not, unless
\* it is the emitter that has failed.
THEOREM AnswersTellEffects == Spec => []AnswerTellsEffect
<1>1. IInv => AnswerTellsEffect  BY DEF IInv, LocalInv, AnswerTellsEffect
<1> QED BY <1>1, Invariance, PTL

\* The bookkeeping of the handlers' loops, on which the others rest.
THEOREM LoopsKeepCount == Spec => []LoopInv
<1>1. IInv => LoopInv  BY DEF IInv, LocalInv, LoopInv
<1> QED BY <1>1, Invariance, PTL

-----------------------------------------------------------------------------
LEMMA OnlyWritesAreDone ==
    ASSUME TypeOK, NEW w \in Workers, Step(w), NEW k \in done'[w] \ done[w]
    PROVE  Create(w) \/ Save(w) \/ Drop(w)
<1>1. CASE Admit(w) \/ Refuse(w) \/ GetParent(w) \/ GetOwn(w) \/ CheckOwners(w)
      BY <1>1 DEF Admit, Refuse, GetParent, GetOwn, CheckOwners
<1>2. CASE CheckRights(w) \/ HandleSafe(w) \/ HandleUnknown(w) \/ HandlePost(w)
      BY <1>2 DEF CheckRights, HandleSafe, HandleUnknown, HandlePost
<1>3. CASE HandleObjects(w) \/ BindForm(w) \/ Emit(w) \/ HandleException(w)
      BY <1>3 DEF HandleObjects, BindForm, Emit, HandleException
<1> QED BY <1>1, <1>2, <1>3 DEF Step

\* What a write puts in the table is what the form holds.
LEMMA WriteTells ==
    ASSUME TypeOK, NEW w \in Workers, NEW j \in Items, NEW row, Write(w, j, row),
           NEW k \in done'[w] \ done[w]
    PROVE  rows'[k] = row
<1>1. CASE Integrity([rows EXCEPT ![j] = row])
  <2>1. k = j  BY <1>1 DEF TypeOK, Write
  <2> QED BY <1>1, <2>1 DEF TypeOK, Write
<1>2. CASE ~Integrity([rows EXCEPT ![j] = row])  BY <1>2 DEF Write
<1> QED BY <1>1, <1>2

LEMMA WrittenRow ==
    ASSUME IInv, NEW w \in Workers, Create(w) \/ Save(w), NEW k \in done'[w] \ done[w]
    PROVE  \E row \in Row : rows'[k] = row /\ (row = NewRow(w) \/ row = FormRow(w, cur[w]))
<1> USE DEF IInv
<1>1. CASE Create(w)
  <2>1. NewRow(w) \in Row  BY <1>1 DEF Create, BoundInv
  <2>2. (\E j \in Items : Write(w, j, NewRow(w))) \/ UNCHANGED done  BY <1>1 DEF Create
  <2> QED BY <2>1, <2>2, WriteTells
<1>2. CASE Save(w)
  <2>1. /\ FormRow(w, cur[w]) \in Row /\ cur[w].pk \in Items
        /\ Write(w, cur[w].pk, FormRow(w, cur[w]))
        BY <1>2 DEF Save, BoundInv, Instance
  <2> QED BY <2>1, WriteTells
<1> QED BY <1>1, <1>2

\* Whatever its form data says, a nested request leaves each row it inserts or
\* saves with the parent it was addressed under.
THEOREM NestedOwnerKept == Spec => NestedKeepsOwner
<1> DEFINE Kept(w) ==
              (req[w].route = "nested" /\ req[w].method # "DELETE" /\ req'[w] = req[w]) =>
              \A k \in done'[w] \ done[w] : rows'[k] # None /\ rows'[k].owner = parent[w]
<1>1. ASSUME IInv, Next, NEW w \in Workers PROVE Kept(w)
  <2> SUFFICES ASSUME req[w].route = "nested", req[w].method # "DELETE",
                      NEW k \in done'[w] \ done[w]
               PROVE  rows'[k] # None /\ rows'[k].owner = parent[w]
      OBVIOUS
  <2>1. TypeOK /\ Loops(w)  BY <1>1 DEF IInv, LocalInv
  <2>2. CASE Step(w)
    <3>1. ~Drop(w)  BY <2>1 DEF Drop, Loops
    <3>2. Create(w) \/ Save(w)  BY <2>1, <2>2, <3>1, OnlyWritesAreDone
    <3>3. PICK row \in Row :
             rows'[k] = row /\ (row = NewRow(w) \/ row = FormRow(w, cur[w]))
          BY <1>1, <3>2, WrittenRow
    <3>4. row.owner = parent[w]  BY <3>3 DEF NewRow, FormRow, FormOwner
    <3> QED BY <3>3, <3>4
  <2>3. CASE \E r \in Requests : Receive(w, r)
    <3>1. done'[w] = {}  BY <2>1, <2>3 DEF Receive, TypeOK
    <3> QED BY <3>1
  <2>4. CASE \E v \in Workers : v # w /\ (Step(v) \/ \E r \in Requests : Receive(v, r))
    <3>1. UNCHANGED Mine(w)  BY <2>1, <2>4, OthersFrame
    <3> QED BY <3>1 DEF Mine
  <2>5. CASE \E p \in Owners : DeleteOwner(p)  BY <2>5 DEF DeleteOwner
  <2> QED BY <1>1, <2>2, <2>3, <2>4, <2>5 DEF Next
<1>2. ASSUME IInv, [Next]_vars PROVE [\A w \in Workers : Kept(w)]_vars
      BY <1>1, <1>2
<1> QED BY <1>2, Invariance, PTL DEF Spec, NestedKeepsOwner

-----------------------------------------------------------------------------
\* One client, one worker, and nobody who deletes parents: dispatch and its handlers
\* implement RestStore.
Alone == Deletable = {} /\ \E w : Workers = {w}

\* Rows among those asked for that are there.
Present(w) == {k \in req[w].keys : rows[k] # None}

\* As nobody else writes, what a request has read stays true until it writes itself.
Still(w) ==
    /\ parent[w] \in {None, ParentKey(req[w])}
    /\ found[w] # "fetched" => insts[w] = {}
    /\ pc[w] \in {"idle", "admit", "parent", "own"} => found[w] = "none"
    /\ (pc[w] \in {"owners", "rights", "handle"} /\ found[w] = "fetched") =>
          insts[w] = Fetch(req[w].keys)
    /\ pc[w] \in {"bind", "save"} => todo[w] \subseteq Fetch(req[w].keys)
    /\ pc[w] = "drop" => todo[w] = Fetch(req[w].keys)
    /\ (pc[w] = "emit" /\ req[w].method = "DELETE") => Fetch(req[w].keys) = {}
    /\ (/\ pc[w] \in {"bind", "save", "emit", "error"} /\ req[w].method \in {"PUT", "PATCH"}
        /\ pc[w] = "error" => done[w] # {}) =>
          Keys(insts[w]) = Present(w)

\* What is fetched is what is there.
LEMMA FetchTells ==
    ASSUME TypeOK, NEW keys \in SUBSET Items
    PROVE  /\ \A i \in Fetch(keys) :
                 /\ i.pk \in keys /\ rows[i.pk] # None
                 /\ i = [pk |-> i.pk, owner |-> rows[i.pk].owner, title |-> rows[i.pk].title]
           /\ Keys(Fetch(keys)) = {k \in keys : rows[k] # None}
<1>1. \A i \in Fetch(keys) : \E k \in keys :
         rows[k] # None /\ i = [pk |-> k, owner |-> rows[k].owner, title |-> rows[k].title]
      BY DEF Fetch
<1>2. \A k \in keys : rows[k] # None =>
         [pk |-> k, owner |-> rows[k].owner, title |-> rows[k].title] \in Fetch(keys)
      BY DEF Fetch
<1>3. ASSUME NEW k \in keys, rows[k] # None PROVE k \in Keys(Fetch(keys))
  <2> DEFINE i == [pk |-> k, owner |-> rows[k].owner, title |-> rows[k].title]
  <2>1. i \in Fetch(keys) /\ i.pk = k  BY <1>2, <1>3
  <2> QED BY <2>1 DEF Keys
<1>4. \A i \in Fetch(keys) :
         /\ i.pk \in keys /\ rows[i.pk] # None
         /\ i = [pk |-> i.pk, owner |-> rows[i.pk].owner, title |-> rows[i.pk].title]
      BY <1>1
<1>5. \A k \in Keys(Fetch(keys)) : k \in keys /\ rows[k] # None  BY <1>4 DEF Keys
<1> QED BY <1>3, <1>4, <1>5

LEMMA StillInit == ASSUME Init, NEW w \in Workers PROVE Still(w)
BY DEF Init, Still

\* Before the handler writes, nothing is done.
LEMMA NothingDone ==
    ASSUME IInv, NEW w \in Workers, pc[w] \in Before, UNCHANGED done
    PROVE  done'[w] = {}
BY DEF IInv, LocalInv, Loops

\* Steps that read nothing of the table.
LEMMA StillChecks ==
    ASSUME IInv, NEW w \in Workers, Still(w),
           \/ Admit(w) \/ Refuse(w) \/ GetParent(w) \/ CheckRights(w) \/ HandleSafe(w)
           \/ HandleUnknown(w) \/ HandlePost(w) \/ HandleException(w)
           \/ \E r \in Requests : Receive(w, r)
    PROVE  Still(w)'
<1>0. ASSUME \/ Admit(w) \/ Refuse(w) \/ GetParent(w) \/ CheckRights(w) \/ HandleSafe(w)
             \/ HandleUnknown(w) \/ HandlePost(w)
      PROVE  done'[w] = {}
      BY <1>0, NothingDone
      DEF Admit, Refuse, GetParent, CheckRights, HandleSafe, HandleUnknown, HandlePost, Before
<1> USE DEF IInv, TypeOK, Still, Present, Fetch, db, local, loop, Goto, Fail
<1>1. CASE Admit(w)  BY <1>0, <1>1 DEF Admit, Preflight
<1>2. CASE Refuse(w)
  <2>1. pc'[w] = "error"  BY <1>2 DEF Refuse
  <2> QED BY <1>0, <1>2, <2>1 DEF Refuse
<1>3. CASE GetParent(w)  BY <1>0, <1>3 DEF GetParent
<1>4. CASE CheckRights(w)  BY <1>0, <1>4 DEF CheckRights
<1>5. CASE HandleSafe(w)  BY <1>5 DEF HandleSafe
<1>6. CASE HandleUnknown(w)  BY <1>0, <1>6 DEF HandleUnknown
<1>7. CASE HandlePost(w)  BY <1>0, <1>7 DEF HandlePost
<1>8. CASE HandleException(w)  BY <1>8 DEF HandleException
<1>9. CASE \E r \in Requests : Receive(w, r)
  <2>1. PICK r \in Requests : Receive(w, r)  BY <1>9
  <2>2. /\ insts'[w] = {} /\ parent'[w] = None /\ found'[w] = "none" /\ done'[w] = {}
        BY <2>1 DEF Receive
  <2>3. pc'[w] = "admit" \/ (pc'[w] = "error" /\ status'[w] = 405)
        BY <2>1 DEF Receive
  <2> QED BY <2>2, <2>3
<1> QED BY <1>1, <1>2, <1>3, <1>4, <1>5, <1>6, <1>7, <1>8, <1>9

\* Steps that read the table.
LEMMA StillReads ==
    ASSUME IInv, NEW w \in Workers, Still(w),
           GetOwn(w) \/ CheckOwners(w) \/ HandleObjects(w) \/ BindForm(w) \/ Emit(w)
    PROVE  Still(w)'
<1> USE DEF IInv, db, local, loop
<1>0. /\ TypeOK /\ req[w].keys \in SUBSET Items
      /\ Keys(Fetch(req[w].keys)) = Present(w)
      /\ UNCHANGED <<rows, req, parent>>
  <2>1. TypeOK /\ req[w].keys \in SUBSET Items  BY DEF TypeOK, Request
  <2> QED BY <2>1, FetchTells DEF Present, GetOwn, CheckOwners, HandleObjects, BindForm, Emit
<1>1. Fetch(req[w].keys)' = Fetch(req[w].keys) /\ Present(w)' = Present(w)
      BY <1>0 DEF Fetch, Present
<1>2. parent'[w] \in {None, ParentKey(req'[w])}  BY <1>0 DEF Still
<1>8. GetOwn(w) \/ CheckOwners(w) \/ HandleObjects(w) => done'[w] = {}
      BY NothingDone DEF GetOwn, CheckOwners, HandleObjects, Before
<1>3. CASE GetOwn(w)
  <2>1. /\ found[w] = "none" /\ insts[w] = {}
        /\ \/ found'[w] = found[w] /\ insts'[w] = insts[w]
           \/ found'[w] = "fetched" /\ insts'[w] = Fetch(req[w].keys)
           \/ found'[w] = "lazy" /\ insts'[w] = insts[w]
        /\ pc'[w] = "owners" \/ (pc'[w] = "error" /\ status'[w] = 404)
    <3>1. found[w] = "none" /\ insts[w] = {}  BY <1>3 DEF GetOwn, Still
    <3>2. pc'[w] = "owners" \/ (pc'[w] = "error" /\ status'[w] = 404)
          BY <1>3 DEF GetOwn, Goto, Fail, TypeOK
    <3>3. \/ found'[w] = found[w] /\ insts'[w] = insts[w]
          \/ found'[w] = "fetched" /\ insts'[w] = Fetch(req[w].keys)
          \/ found'[w] = "lazy" /\ insts'[w] = insts[w]
          BY <1>3 DEF GetOwn, TypeOK
    <3> QED BY <3>1, <3>2, <3>3
  <2>2. done'[w] = {}  BY <1>3, <1>8
  <2> QED BY <1>0, <1>1, <1>2, <2>1, <2>2 DEF Still
<1>4. CASE CheckOwners(w)
  <2>1. /\ pc[w] = "owners"
        /\ pc'[w] = "rights" \/ (pc'[w] = "error" /\ status'[w] \in {403, 500})
        BY <1>4 DEF CheckOwners, Goto, Fail, TypeOK
  <2>2. \/ found'[w] = found[w] /\ insts'[w] = insts[w]
        \/ found'[w] = "fetched" /\ insts'[w] = Fetch(req[w].keys)
        BY <1>4 DEF CheckOwners, Evaluate, Evaluated, TypeOK
  <2>3. done'[w] = {}  BY <1>4, <1>8
  <2> QED BY <1>0, <1>1, <1>2, <2>1, <2>2, <2>3 DEF Still
<1>5. CASE HandleObjects(w)
  <2>1. /\ pc[w] = "handle" /\ insts'[w] = Evaluated(w)
        /\ found'[w] = IF found[w] = "lazy" THEN "fetched" ELSE found[w]
        BY <1>5 DEF HandleObjects, Evaluate, TypeOK
  <2>2. Evaluated(w) = {} \/ Evaluated(w) = Fetch(req[w].keys)
        BY <2>1 DEF Evaluated, Still, TypeOK
  <2>3. CASE Evaluated(w) = {}
    <3>1. pc'[w] = "error" /\ status'[w] = 404
          BY <1>5, <2>3 DEF HandleObjects, Fail, Goto, TypeOK
    <3>2. done'[w] = {}  BY <1>5, <1>8
    <3> QED BY <1>0, <1>2, <2>1, <2>3, <3>1, <3>2 DEF Still
  <2>4. CASE Evaluated(w) # {}
    <3>1. /\ todo'[w] = Evaluated(w) /\ req[w].method \in {"PUT", "PATCH", "DELETE"}
          /\ pc'[w] = IF req[w].method = "DELETE" THEN "drop" ELSE "bind"
          BY <1>5, <2>4 DEF HandleObjects, Goto, TypeOK
    <3>2. found'[w] = "fetched"  BY <2>1, <2>4 DEF Evaluated, Still
    <3>3. Keys(insts'[w]) = Keys(Fetch(req[w].keys))  BY <2>1, <2>2, <2>4
    <3>4. req'[w] = req[w]  BY <1>0
    <3> QED BY <1>0, <1>1, <1>2, <2>2, <2>4, <3>1, <3>2, <3>3, <3>4 DEF Still
  <2> QED BY <2>3, <2>4
<1>6. CASE BindForm(w)
  <2>1. /\ pc[w] = "bind" /\ UNCHANGED <<found, insts, todo>>
        /\ pc'[w] = "save" \/ (pc'[w] = "error" /\ status'[w] = 400)
        BY <1>6 DEF BindForm, Goto, Fail, TypeOK
  <2>2. req[w].method \in {"PUT", "PATCH"}  BY <2>1 DEF LocalInv, Loops
  <2> QED BY <1>0, <1>1, <1>2, <2>1, <2>2 DEF Still
<1>7. CASE Emit(w)
  <2>1. pc[w] = "emit" /\ pc'[w] \in {"answered", "error"}
        BY <1>7 DEF Emit, Goto, Fail, TypeOK
  <2>2. \/ found'[w] = found[w] /\ insts'[w] = insts[w]
        \/ found'[w] = "fetched"
        BY <1>7 DEF Emit, Evaluate, Evaluated, TypeOK, Still
  <2>3. req[w].method \in {"PUT", "PATCH"} =>
           insts'[w] = insts[w] /\ Keys(insts[w]) = Present(w)
    <3>1. req[w].method \in {"PUT", "PATCH"} => found[w] # "lazy"
          BY <2>1 DEF LocalInv, Loops, Changing
    <3> QED BY <1>7, <2>1, <3>1 DEF Emit, Evaluate, Evaluated, TypeOK, Still
  <2>4. insts'[w] = insts[w] => Keys(insts[w])' = Keys(insts[w])  BY DEF Keys
  <2>5. UNCHANGED <<req, parent>>  BY <1>0
  <2> QED BY <1>1, <1>2, <2>1, <2>2, <2>3, <2>4, <2>5 DEF Still
<1> QED BY <1>3, <1>4, <1>5, <1>6, <1>7

LEMMA StillCreate == ASSUME IInv, NEW w \in Workers, Still(w), Create(w) PROVE Still(w)'
<1>1. /\ pc[w] = "create" /\ UNCHANGED <<req, parent, found, insts, todo>>
      /\ pc'[w] \in {"emit", "error"}
      BY DEF Create, Goto, Fail, IInv, TypeOK, local, loop
<1>2. req[w].method = "POST"  BY <1>1 DEF IInv, LocalInv, Loops
<1>3. req'[w] = req[w] /\ parent'[w] = parent[w]  BY <1>1
<1> QED BY <1>1, <1>2, <1>3 DEF Still, ParentKey

\* What is known of the object that a loop has come to.
LEMMA Visits ==
    ASSUME IInv, NEW w \in Workers, Still(w), pc[w] \in {"bind", "save", "drop"},
           NEW i \in todo[w]
    PROVE  /\ i \in Fetch(req[w].keys) /\ req[w].keys \in SUBSET Items
           /\ i.pk \in req[w].keys /\ i.pk \in Items /\ rows[i.pk] # None
           /\ i.owner = rows[i.pk].owner /\ i.title = rows[i.pk].title
           /\ i.pk \notin done[w]
           /\ \A j \in todo[w] : j.pk = i.pk => j = i
<1>1. TypeOK /\ req[w].keys \in SUBSET Items  BY DEF IInv, TypeOK, Request
<1>2. i \in Fetch(req[w].keys)  BY DEF Still
<1>3. /\ i.pk \in req[w].keys /\ rows[i.pk] # None
      /\ i = [pk |-> i.pk, owner |-> rows[i.pk].owner, title |-> rows[i.pk].title]
      BY <1>1, <1>2, FetchTells
<1>4. i.owner = rows[i.pk].owner /\ i.title = rows[i.pk].title  BY <1>3
<1>5. i.pk \notin done[w] /\ \A j \in todo[w] : j.pk = i.pk => j = i
      BY DEF IInv, LocalInv, Loops
<1> QED BY <1>1, <1>2, <1>3, <1>4, <1>5

\* A row is written: the others are fetched as before.
LEMMA FetchOthers ==
    ASSUME IInv, NEW keys \in SUBSET Items, NEW i \in Fetch(keys), rows'[i.pk] = rows[i.pk]
    PROVE  i \in Fetch(keys)'
<1>1. /\ i.pk \in keys /\ rows[i.pk] # None
      /\ i = [pk |-> i.pk, owner |-> rows[i.pk].owner, title |-> rows[i.pk].title]
      BY FetchTells DEF IInv
<1> QED BY <1>1 DEF Fetch

LEMMA StillSave == ASSUME IInv, NEW w \in Workers, Still(w), Save(w) PROVE Still(w)'
<1> DEFINE i == cur[w]
           row == FormRow(w, cur[w])
<1>1. /\ pc[w] = "save" /\ UNCHANGED <<req, parent, found, insts>>
      /\ i \in todo[w] /\ row \in Row /\ req[w].method \in {"PUT", "PATCH"}
      /\ rows \in [Items -> Row \cup {None}]
      BY DEF Save, IInv, LocalInv, Loops, BoundInv, TypeOK, local
<1>2. req'[w] = req[w] /\ parent'[w] = parent[w] /\ insts'[w] = insts[w] /\ found'[w] = found[w]
      BY <1>1
<1>3. /\ req[w].keys \in SUBSET Items /\ i.pk \in req[w].keys /\ i.pk \in Items
      /\ rows[i.pk] # None /\ \A j \in todo[w] : j.pk = i.pk => j = i
      BY <1>1, Visits
<1>4. CASE Refused(i.pk, row)
  <2>1. pc'[w] = "error"
        BY <1>4 DEF Save, Fail, Goto, IInv, TypeOK
  <2>2. UNCHANGED rows  BY <1>4 DEF Save, Write, Refused
  <2>3. Present(w)' = Present(w) /\ Keys(insts[w])' = Keys(insts[w])
        BY <1>2, <2>2 DEF Present, Keys
  <2> HIDE DEF i, row
  <2> QED BY <1>1, <1>2, <2>1, <2>3 DEF Still, ParentKey
<1>5. CASE ~Refused(i.pk, row)
  <2>1. /\ rows' = [rows EXCEPT ![i.pk] = row] /\ todo'[w] = todo[w] \ {i}
        /\ pc'[w] \in {"bind", "emit"}
        BY <1>5 DEF Save, Write, Refused, Rest, Goto, IInv, TypeOK
  <2> HIDE DEF i, row
  <2>2. Present(w)' = Present(w)
    <3>1. rows'[i.pk] # None /\ \A k \in Items \ {i.pk} : rows'[k] = rows[k]
          BY <1>1, <1>3, <2>1
    <3> QED BY <1>2, <1>3, <3>1 DEF Present
  <2>3. \A j \in todo'[w] : j \in Fetch(req[w].keys)'
    <3> SUFFICES ASSUME NEW j \in todo[w], j # i PROVE j \in Fetch(req[w].keys)'  BY <2>1
    <3>1. j \in Fetch(req[w].keys) /\ j.pk # i.pk /\ j.pk \in Items  BY <1>1, <1>3, Visits
    <3>2. PICK keys \in SUBSET Items : keys = req[w].keys  BY <1>3
    <3>4. rows'[j.pk] = rows[j.pk]  BY <1>1, <2>1, <3>1
    <3>3. j \in Fetch(keys)'  BY <3>1, <3>2, <3>4, FetchOthers
    <3> QED BY <1>2, <3>2, <3>3
  <2>4. Keys(insts[w]) = Present(w) /\ Keys(insts[w])' = Keys(insts[w])
        BY <1>1, <1>2 DEF Still, Keys
  <2> QED BY <1>1, <1>2, <2>1, <2>2, <2>3, <2>4 DEF Still, ParentKey
<1> QED BY <1>4, <1>5

LEMMA StillDrop == ASSUME IInv, NEW w \in Workers, Still(w), Drop(w) PROVE Still(w)'
<1>1. /\ pc[w] = "drop" /\ UNCHANGED <<req, parent, found, insts>>
      /\ req[w].method = "DELETE" /\ todo[w] = Fetch(req[w].keys)
      /\ rows \in [Items -> Row \cup {None}]
      BY DEF Drop, IInv, LocalInv, Loops, TypeOK, local, Still
<1>2. req'[w] = req[w] /\ parent'[w] = parent[w] /\ insts'[w] = insts[w] /\ found'[w] = found[w]
      BY <1>1
<1>3. PICK i \in todo[w] :
          /\ rows' = [rows EXCEPT ![i.pk] = None]
          /\ todo' = [todo EXCEPT ![w] = @ \ {i}]
          /\ Goto(w, IF todo[w] = {i} THEN "emit" ELSE "drop")
      BY ZenonT(30) DEF Drop
<1>4. /\ req[w].keys \in SUBSET Items /\ i.pk \in req[w].keys /\ i.pk \in Items
      /\ \A j \in todo[w] : j.pk = i.pk => j = i
      BY <1>1, Visits
<1>5. todo'[w] = todo[w] \ {i} /\ pc'[w] = IF todo[w] = {i} THEN "emit" ELSE "drop"
      BY <1>3 DEF Goto, IInv, TypeOK
<1>6. Fetch(req[w].keys)' = todo'[w]
  <2>1. PICK keys \in SUBSET Items : keys = req[w].keys  BY <1>4
  <2>2. \A j \in todo'[w] : j \in Fetch(keys)'
    <3> SUFFICES ASSUME NEW j \in todo[w], j # i PROVE j \in Fetch(keys)'  BY <1>5
    <3>1. j \in Fetch(keys) /\ j.pk # i.pk /\ j.pk \in Items  BY <1>1, <1>4, <2>1, Visits
    <3>2. rows'[j.pk] = rows[j.pk]  BY <1>1, <1>3, <3>1
    <3> QED BY <3>1, <3>2, FetchOthers
  <2>3. ASSUME NEW k \in keys, rows'[k] # None
        PROVE  [pk |-> k, owner |-> rows'[k].owner, title |-> rows'[k].title] \in todo'[w]
    <3>1. k # i.pk /\ rows'[k] = rows[k]  BY <1>1, <1>3, <1>4, <2>3
    <3> DEFINE j == [pk |-> k, owner |-> rows[k].owner, title |-> rows[k].title]
    <3>2. j \in Fetch(keys) /\ j.pk = k  BY <2>3, <3>1 DEF Fetch
    <3>3. j \in todo[w] /\ j # i  BY <1>1, <2>1, <3>1, <3>2
    <3> QED BY <1>5, <3>1, <3>3
  <2>4. \A j \in Fetch(keys)' : j \in todo'[w]  BY <2>3 DEF Fetch
  <2>5. Fetch(keys)' = todo[w] \ {i}
    <3>1. \A j : j \in Fetch(keys)' <=> j \in todo[w] \ {i}  BY <1>5, <2>2, <2>4
    <3> QED BY <3>1 DEF Fetch
  <2>6. keys = req'[w].keys  BY <1>2, <2>1
  <2>7. Fetch(req[w].keys)' = Fetch(keys)'  BY <2>6 DEF Fetch
  <2> QED BY <1>5, <2>5, <2>7
<1>7. todo[w] = {i} => todo'[w] = {}  BY <1>5
<1> QED BY <1>1, <1>2, <1>5, <1>6, <1>7 DEF Still, ParentKey

LEMMA StillStep ==
    ASSUME Alone, IInv, \A w \in Workers : Still(w), [Next]_vars
    PROVE  \A w \in Workers : Still(w)'
<1> SUFFICES ASSUME NEW w \in Workers PROVE Still(w)'  OBVIOUS
<1>1. \A v \in Workers : v = w  BY DEF Alone
<1>2. CASE Step(w)
      BY <1>2, StillChecks, StillReads, StillCreate, StillSave, StillDrop DEF Step
<1>3. CASE \E r \in Requests : Receive(w, r)  BY <1>3, StillChecks
<1>4. ~ \E p \in Owners : DeleteOwner(p)  BY DEF DeleteOwner, Alone
<1>5. CASE UNCHANGED vars
      BY <1>5 DEF vars, Still, ParentKey, Present, Fetch, Keys
<1> QED BY <1>1, <1>2, <1>3, <1>4, <1>5 DEF Next

-----------------------------------------------------------------------------
\* The step of the abstract store that each of the client's steps is.
LEMMA ClientWorks == ASSUME Alone PROVE Client \in Workers /\ \A w \in Workers : w = Client
BY DEF Alone, Client

\* What the client was told, by where the worker is.
LEMMA ToldNothing ==
    ASSUME pc[Client] \in Stages \ ({"idle"} \cup Over) PROVE Told = "nothing"
BY DEF Told, Over

LEMMA ToldSomething ==
    ASSUME pc[Client] \in {"idle"} \cup Over PROVE Told # "nothing"
<1>1. CASE pc[Client] = "idle"  BY <1>1 DEF Told
<1>2. CASE pc[Client] \in Over /\ status[Client] = 200  BY <1>2 DEF Told, Over
<1>3. CASE pc[Client] \in Over /\ status[Client] = 500  BY <1>3 DEF Told, Over
<1>4. CASE pc[Client] \in Over /\ status[Client] \notin {200, 500}  BY <1>4 DEF Told, Over
<1> QED BY <1>1, <1>2, <1>3, <1>4

\* The request goes on and writes nothing.
LEMMA Quiet ==
    ASSUME UNCHANGED rows, req'[Client] = req[Client], done'[Client] = done[Client],
           pc[Client] \in Stages \ ({"idle"} \cup Over),
           pc'[Client] \in Stages \ ({"idle"} \cup Over)
    PROVE  UNCHANGED Store!vars
<1>1. Told = "nothing"  BY ToldNothing
<1>2. Told' = "nothing"  BY DEF Told, Over
<1> QED BY <1>1, <1>2 DEF Store!vars

\* What a form that is valid holds.
LEMMA NewRowAsAsked ==
    ASSUME IInv, Client \in Workers, Still(Client), NewRow(Client) \in Row
    PROVE  NewRow(Client) = [owner |-> Store!NamedOwner, title |-> req[Client].title]
<1> DEFINE r == req[Client]
<1>1. NewRow(Client).owner \in Owners /\ NewRow(Client).title \in Titles  BY DEF Row
<1>2. FormOwner(Client, None) \in Owners /\ FormTitle(Client, None) \in Titles
      BY <1>1 DEF NewRow
<1>3. FormTitle(Client, None) = r.title  BY <1>2 DEF FormTitle
<1>4. FormOwner(Client, None) = Store!NamedOwner
      BY <1>2 DEF FormOwner, Store!NamedOwner, Still, ParentKey
<1> QED BY <1>3, <1>4 DEF NewRow

LEMMA FormRowAsAsked ==
    ASSUME IInv, Client \in Workers, Still(Client), pc[Client] = "save"
    PROVE  FormRow(Client, cur[Client]) = Store!Changed(rows[cur[Client].pk])
<1> DEFINE r == req[Client]
           i == cur[Client]
           old == rows[i.pk]
<1>1. /\ i \in todo[Client] /\ FormRow(Client, i) \in Row /\ r.method \in {"PUT", "PATCH"}
      BY DEF IInv, LocalInv, Loops, BoundInv
<1>2. i.owner = old.owner /\ i.title = old.title  BY <1>1, Visits
<1>3. FormOwner(Client, i.owner) \in Owners  BY <1>1 DEF FormRow, Row
<1>4. FormTitle(Client, i.title) = IF r.title = None THEN old.title ELSE r.title
      BY <1>2 DEF FormTitle
<1>5. r.route = "nested" => i.owner = parent[Client]
      BY <1>1 DEF IInv, LocalInv, Checked, Handling, Preflight
<1>6. FormOwner(Client, i.owner) = IF r.route = "nested" \/ Store!NamedOwner = None THEN old.owner
                                   ELSE Store!NamedOwner
      BY <1>2, <1>3, <1>5 DEF FormOwner, Store!NamedOwner, Still, ParentKey
<1> QED BY <1>4, <1>6 DEF FormRow, Store!Changed

LEMMA CreateInserts ==
    ASSUME IInv, Client \in Workers, Still(Client), Create(Client)
    PROVE  [Store!RNext]_(Store!vars)
<1> DEFINE w == Client
<1>1. /\ pc[w] = "create" /\ UNCHANGED req /\ NewRow(w) \in Row /\ done[w] = {}
      /\ req[w].method = "POST"
      BY DEF Create, local, IInv, BoundInv, LocalInv, Loops, Before
<1>2. Told = "nothing"  BY <1>1, ToldNothing DEF Stages, Over
<1>3. \/ \E k \in Items : /\ rows[k] = None /\ ~Refused(k, NewRow(w))
                          /\ Write(w, k, NewRow(w)) /\ Goto(w, "emit")
      \/ UNCHANGED <<rows, done>> /\ Goto(w, "error")
  <2>1. CASE \A k \in Items : rows[k] # None
        BY <2>1 DEF Create, Fail
  <2>2. ASSUME NEW k \in Items, rows[k] = None, Write(w, k, NewRow(w)),
               IF Refused(k, NewRow(w)) THEN Fail(w, 500) ELSE Goto(w, "emit") /\ UNCHANGED status
        PROVE  \/ ~Refused(k, NewRow(w)) /\ Goto(w, "emit")
               \/ UNCHANGED <<rows, done>> /\ Goto(w, "error")
    <3>1. CASE Refused(k, NewRow(w))
      <4>1. UNCHANGED <<rows, done>>  BY <2>2, <3>1 DEF Write, Refused
      <4> QED BY <2>2, <3>1, <4>1 DEF Fail
    <3>2. CASE ~Refused(k, NewRow(w))  BY <2>2, <3>2
    <3> QED BY <3>1, <3>2
  <2> QED BY <2>1, <2>2 DEF Create
<1>4. CASE UNCHANGED <<rows, done>> /\ Goto(w, "error")
  <2>1. pc'[w] = "error"  BY <1>4 DEF Goto, IInv, TypeOK
  <2>2. UNCHANGED Store!vars  BY <1>1, <1>4, <2>1, Quiet DEF Stages, Over
  <2> QED BY <2>2
<1>5. ASSUME NEW k \in Items, rows[k] = None, ~Refused(k, NewRow(w)), Write(w, k, NewRow(w)),
             Goto(w, "emit")
      PROVE  Store!Insert(k)
  <2>1. rows' = [rows EXCEPT ![k] = NewRow(w)] /\ done'[w] = done[w] \cup {k}
        BY <1>5 DEF Write, Refused, IInv, TypeOK
  <2>2. pc'[w] = "emit"  BY <1>5 DEF Goto, IInv, TypeOK
  <2>3. Told' = "nothing"  BY <2>2 DEF Told, Over
  <2>4. NewRow(w) = [owner |-> Store!NamedOwner, title |-> req[w].title]
        BY <1>1, NewRowAsAsked
  <2> QED BY <1>1, <1>2, <1>5, <2>1, <2>3, <2>4 DEF Store!Insert, Store!Put
<1> QED BY <1>3, <1>4, <1>5 DEF Store!RNext

LEMMA SaveAmends ==
    ASSUME IInv, Client \in Workers, Still(Client), Save(Client)
    PROVE  [Store!RNext]_(Store!vars)
<1> DEFINE w == Client
           k == cur[Client].pk
           row == FormRow(Client, cur[Client])
<1>1. /\ pc[w] = "save" /\ UNCHANGED req /\ cur[w] \in todo[w]
      /\ req[w].method \in {"PUT", "PATCH"}
      BY DEF Save, local, IInv, LocalInv, Loops
<1>2. Told = "nothing"  BY <1>1, ToldNothing DEF Stages, Over
<1>3. k \in req[w].keys /\ k \in Items /\ rows[k] # None /\ k \notin done[w]
      BY <1>1, Visits
<1>4. pc'[w] \in {"error", "emit", "bind"}  BY DEF Save, Fail, Goto, IInv, TypeOK
<1>5. CASE Refused(k, row)
  <2>1. UNCHANGED <<rows, done>>  BY <1>5 DEF Save, Write, Refused
  <2>2. UNCHANGED Store!vars  BY <1>1, <1>4, <2>1, Quiet DEF Stages, Over
  <2> QED BY <2>2
<1>6. CASE ~Refused(k, row)
  <2>1. rows' = [rows EXCEPT ![k] = row] /\ done'[w] = done[w] \cup {k}
        BY <1>6 DEF Save, Write, Refused, IInv, TypeOK
  <2>2. Told' = "nothing"  BY <1>4 DEF Told, Over
  <2>3. row = Store!Changed(rows[k])  BY <1>1, FormRowAsAsked
  <2> HIDE DEF k, row
  <2>4. Store!Amend(k)
        BY <1>1, <1>2, <1>3, <2>1, <2>2, <2>3 DEF Store!Amend, Store!Put
  <2> QED BY <1>3, <2>4 DEF Store!RNext
<1> QED BY <1>5, <1>6

LEMMA DropRemoves ==
    ASSUME IInv, Client \in Workers, Still(Client), Drop(Client)
    PROVE  [Store!RNext]_(Store!vars)
<1> DEFINE w == Client
<1>1. pc[w] = "drop" /\ UNCHANGED req /\ req[w].method = "DELETE"
      BY DEF Drop, local, IInv, LocalInv, Loops
<1>2. PICK i \in todo[w] :
          /\ rows' = [rows EXCEPT ![i.pk] = None]
          /\ done' = [done EXCEPT ![w] = @ \cup {i.pk}]
          /\ Goto(w, IF todo[w] = {i} THEN "emit" ELSE "drop")
      BY ZenonT(30) DEF Drop
<1>3. i.pk \in req[w].keys /\ i.pk \in Items /\ rows[i.pk] # None  BY <1>1, Visits
<1>4. Told = "nothing"  BY <1>1, ToldNothing DEF Stages, Over
<1>5. pc'[w] \in {"emit", "drop"} /\ done'[w] = done[w] \cup {i.pk}
      BY <1>2 DEF Goto, IInv, TypeOK
<1>6. Told' = "nothing"  BY <1>5 DEF Told, Over
<1>7. Store!Remove(i.pk)
      BY <1>1, <1>2, <1>3, <1>4, <1>5, <1>6 DEF Store!Remove, Store!Put
<1> QED BY <1>3, <1>7 DEF Store!RNext

\* A request that has had its whole effect is complete, as RestStore sees it.
LEMMA EffectCompletes ==
    ASSUME IInv, Client \in Workers, Still(Client), Effect(Client),
           pc[Client] \in {"emit", "error"}, pc[Client] = "error" => req[Client].method # "DELETE"
    PROVE  Store!Complete
<1> DEFINE w == Client
<1>1. CASE req[w].method = "POST"
  <2>1. done[w] # {}  BY <1>1 DEF Effect, Changing
  <2> QED BY <1>1, <2>1 DEF Store!Complete
<1>2. CASE req[w].method \in {"PUT", "PATCH"}
  <2>1. done[w] = Keys(insts[w]) /\ done[w] # {}  BY <1>2 DEF Effect, Changing
  <2>2. Keys(insts[w]) = Present(w)  BY <1>2, <2>1 DEF Still
  <2> QED BY <1>2, <2>1, <2>2 DEF Store!Complete, Store!Asked, Present
<1>3. CASE req[w].method = "DELETE"
  <2>1. done[w] # {}  BY <1>3 DEF Effect, Changing
  <2>2. Fetch(req[w].keys) = {}  BY <1>3 DEF Still
  <2>3. \A k \in req[w].keys : rows[k] = None
    <3>1. TypeOK /\ req[w].keys \in SUBSET Items  BY DEF IInv, TypeOK, Request
    <3>2. Keys(Fetch(req[w].keys)) = {k \in req[w].keys : rows[k] # None}
          BY <3>1, FetchTells
    <3> QED BY <2>2, <3>2 DEF Keys
  <2> QED BY <1>3, <2>1, <2>3 DEF Store!Complete, Store!Asked
<1>4. CASE req[w].method \notin {"POST", "PUT", "PATCH", "DELETE"}
  <2>1. done[w] = {}  BY <1>4 DEF Effect, Changing
  <2> QED BY <1>4, <2>1 DEF Store!Complete
<1> QED BY <1>1, <1>2, <1>3, <1>4

\* 200 tells that the request is complete.
LEMMA EmitTells ==
    ASSUME IInv, Client \in Workers, Still(Client), Emit(Client)
    PROVE  [Store!RNext]_(Store!vars)
<1> DEFINE w == Client
<1>1. pc[w] = "emit" /\ UNCHANGED <<rows, req, done>> /\ Effect(w)
      BY DEF Emit, db, IInv, LocalInv, Loops
<1>2. Told = "nothing"  BY <1>1, ToldNothing DEF Stages, Over
<1>3. \/ pc'[w] = "error"
      \/ pc'[w] = "answered" /\ status'[w] = 200
      BY DEF Emit, Fail, Goto, IInv, TypeOK
<1>4. CASE pc'[w] = "error"
  <2>1. UNCHANGED Store!vars  BY <1>1, <1>4, Quiet DEF Stages, Over
  <2> QED BY <2>1
<1>5. CASE pc'[w] = "answered" /\ status'[w] = 200
  <2>1. Told' = "done"  BY <1>5 DEF Told, Over
  <2>2. Store!Complete  BY <1>1, EffectCompletes
  <2>3. Store!Tell("done")  BY <1>1, <1>2, <2>1, <2>2 DEF Store!Tell
  <2> QED BY <2>3 DEF Store!RNext
<1> QED BY <1>3, <1>4, <1>5

\* A refusal tells that nothing was done, or not everything, or that everything was and
\* cannot be shown.
LEMMA ExceptionTells ==
    ASSUME IInv, Client \in Workers, Still(Client), HandleException(Client)
    PROVE  [Store!RNext]_(Store!vars)
<1> DEFINE w == Client
<1>1. /\ pc[w] = "error" /\ UNCHANGED <<rows, req, done, status>>
      /\ pc'[w] \in Over /\ status[w] \in Statuses \ {0, 200}
      BY DEF HandleException, db, local, Goto, Over, IInv, TypeOK, LocalInv, Loops
<1>2. Told = "nothing"  BY <1>1, ToldNothing DEF Stages, Over
<1>3. CASE status[w] = 500
  <2>1. Told' = "failed"  BY <1>1, <1>3 DEF Told, Over
  <2>2. Store!Tell("failed")  BY <1>1, <1>2, <2>1 DEF Store!Tell
  <2> QED BY <2>2 DEF Store!RNext
<1>4. CASE status[w] # 500
  <2>1. Told' = "refused"  BY <1>1, <1>4 DEF Told, Over
  <2>2. Unshown(w) => done[w] = {} \/ (Store!Unshowable /\ Store!Complete)
    <3> SUFFICES ASSUME Unshown(w), done[w] # {}
                 PROVE  Store!Unshowable /\ Store!Complete
        OBVIOUS
    <3>1. Effect(w) /\ Emitted(req[w]) \notin {200, 500}  BY <1>1, <1>4 DEF Unshown
    <3>2. req[w].method \in {"POST", "PUT", "PATCH", "DELETE"}
          BY <3>1 DEF Effect, Changing
    <3>3. req[w].method # "DELETE" /\ Emitted(req[w]) = req[w].emits
          BY <3>1, <3>2 DEF Emitted
    <3>4. Store!Unshowable  BY <3>1, <3>2, <3>3 DEF Store!Unshowable
    <3>5. Store!Complete  BY <1>1, <3>1, <3>3, EffectCompletes
    <3> QED BY <3>4, <3>5
  <2>3. \/ done[w] = {} \/ Unshown(w)
        \/ req[w].method \in {"PUT", "PATCH"} /\ ~Store!Complete
    <3>1. CASE ~(status[w] = 400 /\ req[w].method \in {"PUT", "PATCH"})
          BY <1>1, <1>4, <3>1 DEF IInv, LocalInv, Harmless
    <3>2. CASE status[w] = 400 /\ req[w].method \in {"PUT", "PATCH"}
      <4> SUFFICES ASSUME done[w] # {}, NEW i \in insts[w], i.pk \notin done[w]
                   PROVE  ~Store!Complete
          BY <1>1, <3>2 DEF IInv, LocalInv, Truthful
      <4>1. Keys(insts[w]) = Present(w)  BY <1>1, <3>2 DEF Still
      <4>2. done[w] # Present(w)  BY <4>1 DEF Keys
      <4> QED BY <3>2, <4>2 DEF Store!Complete, Store!Asked, Present
    <3> QED BY <3>1, <3>2
  <2>4. Store!Tell("refused")  BY <1>1, <1>2, <2>1, <2>2, <2>3 DEF Store!Tell
  <2> QED BY <2>4 DEF Store!RNext
<1> QED BY <1>3, <1>4

LEMMA ReceiveAsks ==
    ASSUME IInv, Client \in Workers, NEW r \in Requests, Receive(Client, r)
    PROVE  Store!Ask(r)
<1> DEFINE w == Client
<1>1. /\ pc[w] \in {"idle"} \cup Over /\ UNCHANGED rows /\ req'[w] = r /\ done'[w] = {}
      /\ pc'[w] \in {"admit", "error"}
      BY DEF Receive, db, Over, Goto, Fail, IInv, TypeOK
<1>2. Told # "nothing"  BY <1>1, ToldSomething
<1>3. Told' = "nothing"  BY <1>1 DEF Told, Over
<1> QED BY <1>1, <1>2, <1>3 DEF Store!Ask

LEMMA OthersQuiet ==
    ASSUME IInv, Client \in Workers,
           \/ Admit(Client) \/ Refuse(Client) \/ GetParent(Client) \/ GetOwn(Client)
           \/ CheckOwners(Client) \/ CheckRights(Client) \/ HandleSafe(Client)
           \/ HandleUnknown(Client) \/ HandlePost(Client) \/ HandleObjects(Client)
           \/ BindForm(Client)
    PROVE  UNCHANGED Store!vars
<1> DEFINE w == Client
           Middle == Stages \ ({"idle"} \cup Over)
<1> SUFFICES UNCHANGED <<rows, req, done>> /\ pc[w] \in Middle /\ pc'[w] \in Middle
    BY Quiet
<1> USE DEF IInv, TypeOK, db, local, Goto, Fail, Stages, Over
<1>1. CASE Admit(w) \/ Refuse(w) \/ CheckRights(w)
      BY <1>1 DEF Admit, Refuse, CheckRights
<1>2. CASE GetParent(w)  BY <1>2 DEF GetParent
<1>3. CASE GetOwn(w)  BY <1>3 DEF GetOwn
<1>4. CASE CheckOwners(w)  BY <1>4 DEF CheckOwners
<1>5. CASE HandleSafe(w) \/ HandleUnknown(w) \/ HandlePost(w)
      BY <1>5 DEF HandleSafe, HandleUnknown, HandlePost
<1>6. CASE HandleObjects(w)  BY <1>6 DEF HandleObjects
<1>7. CASE BindForm(w)  BY <1>7 DEF BindForm
<1> QED BY <1>1, <1>2, <1>3, <1>4, <1>5, <1>6, <1>7

LEMMA StepRefines ==
    ASSUME Alone, IInv, \A w \in Workers : Still(w), [Next]_vars
    PROVE  [Store!RNext]_(Store!vars)
<1>1. Client \in Workers /\ Still(Client) /\ \A w \in Workers : w = Client  BY ClientWorks
<1>2. CASE Step(Client)
      BY <1>1, <1>2, OthersQuiet, CreateInserts, SaveAmends, DropRemoves, EmitTells, ExceptionTells
      DEF Step
<1>3. ASSUME NEW r \in Requests, Receive(Client, r) PROVE Store!RNext
      BY <1>1, <1>3, ReceiveAsks DEF Store!RNext
<1>4. ~ \E p \in Owners : DeleteOwner(p)  BY DEF DeleteOwner, Alone
<1>5. CASE UNCHANGED vars
  <2>1. Told' = Told  BY <1>5 DEF vars, Told
  <2> QED BY <1>5, <2>1 DEF vars, Store!vars
<1> QED BY <1>1, <1>2, <1>3, <1>4, <1>5 DEF Next

\* A client that nobody interferes with sees a RestStore: rows are inserted by POST only,
\* changed only in the fields that a PUT or PATCH supplies, never moved between parents
\* on a nested route, and removed by DELETE only; what it is told is true
\* (ImplementsStore).
THEOREM DispatchImplementsStore == ASSUME Alone PROVE Spec => ImplementsStore
<1>1. Init => Store!RInit
  <2> SUFFICES ASSUME Init PROVE Store!RInit  OBVIOUS
  <2>1. Client \in Workers  BY ClientWorks
  <2>2. TypeOK /\ pc[Client] = "idle" /\ done[Client] = {}  BY <2>1, InitType DEF Init
  <2>3. Told = "idle"  BY <2>2 DEF Told, Over
  <2> QED BY <2>1, <2>2, <2>3 DEF Store!RInit, TypeOK
<1>2. Init => \A w \in Workers : Still(w)  BY StillInit
<1>3. IInv /\ (\A w \in Workers : Still(w)) /\ [Next]_vars => (\A w \in Workers : Still(w))'
      BY StillStep
<1>4. IInv /\ (\A w \in Workers : Still(w)) /\ [Next]_vars => [Store!RNext]_(Store!vars)
      BY StepRefines
<1> QED BY <1>1, <1>2, <1>3, <1>4, Invariance, PTL DEF Spec, ImplementsStore, Store!RSpec
=============================================================================
