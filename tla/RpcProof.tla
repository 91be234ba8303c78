----------------------------- MODULE RpcProof -------------------------------
(***************************************************************************)
(* Theorems about Rpc, for every Api, all its schemes, and calls nested to *)
(* any depth.                                                              *)
(***************************************************************************)
EXTENDS Rpc, TLAPS

USE RpcAssumption

-----------------------------------------------------------------------------
\* Types.
MediaTypes == {None, "json"} \cup {Calls[c].headers : c \in DOMAIN Calls}
              \cup UNION {ToSet(Resources[n].emitters) : n \in Names}
AnyMethod == {"GET", "POST", "OPTIONS"} \cup {Method(Calls[c].name) : c \in DOMAIN Calls}
Replies == [raw : BOOLEAN, status : Nat, error : BOOLEAN, text : BOOLEAN, type : MediaTypes]
Steps == {"start", "check", "handle", "called", "emit", "report", "finish"}
AnyParameters == [as : {"nothing", "own", "bad", "payload", "fields", "json"},
                  call : DOMAIN Calls \cup {None, Garbage}]
Answering == {"emit", "report", "finish"}
Frames == {f \in [resource : Names, step : Steps, reply : Replies \cup {None}, method : AnyMethod,
                  data : AnyParameters] :
             f.step \in Answering => f.reply \in Replies}
Requests == [method : AnyMethod, get : AnyParameters, post : AnyParameters, body : AnyParameters,
             type : {None, "form", "json"}, accept : MediaTypes]

Typed == stack \in Seq(Frames) /\ request \in Requests /\ value \in Replies \cup {None}

\* All views but the innermost wait for one they have called.
OthersWait == \A i \in 2..Len(stack) : stack[i].step = "called"

\* What a view finds in the request before its handler runs is what it was asked.
RequestOf(v) ==
    /\ request.method = v.method
    /\ request.type = None => request.body = Nothing
    /\ v.method \notin {"POST", "PUT", "PATCH"} => request.get = v.data
    /\ v.method = "PUT" => request.post = v.data
    /\ v.method = "POST" => IF request.type = "json" THEN request.body = v.data
                            ELSE request.post = v.data
    /\ Resources[v.resource].kind = "rest" => request.type # "json"
    /\ v.step = "handle" => v.method \in Resources[v.resource].methods

NothingYet ==
    (stack # <<>> /\ Top.step \in {"start", "check", "handle"}) => effects = <<>> /\ RequestOf(Top)

\* One element of effects is as DoneAsAsked wants it.
AsAsked(e) ==
    LET r == Resources[e.view.resource]
        call == Calls[e.view.data.call]
        m == e.view.method
    IN  \/ /\ r.kind = "rest" \/ m = "OPTIONS"
           /\ e.does = <<m>> /\ m \in r.methods
           /\ e.data = e.view.data \/ m = "PATCH"
        \/ /\ r.kind = "scheme" /\ e.does = r.scheme \o call.name
           /\ e.does \in Methods /\ e.data = call.data

OnceAsAsked == effects = <<>> \/ \E e : effects = <<e>> /\ AsAsked(e)

\* The view f has called the view g.
Called(f, g) ==
    LET call == Calls[f.data.call]
    IN  /\ IsCall(f.data.call) /\ call.data = g.data
        /\ call.name[1] = g.resource /\ Method(call.name) = g.method

Descends == \A i \in 1..(Len(stack) - 1) : Called(stack[i + 1], stack[i])

IInv == Typed /\ OthersWait /\ NothingYet /\ OnceAsAsked /\ Descends

LEMMA InitInv == Init => IInv
<1> SUFFICES ASSUME Init PROVE IInv  OBVIOUS
<1>1. Nothing \in AnyParameters  BY DEF Nothing, Holds, AnyParameters
<1>2. Typed  BY <1>1 DEF Init, Typed, Requests, AnyMethod, MediaTypes
<1>3. stack = <<>> /\ effects = <<>>  BY DEF Init
<1> QED BY <1>2, <1>3 DEF IInv, OthersWait, NothingYet, OnceAsAsked, Descends

LEMMA InvImplies == IInv => DescendsIntoCall /\ DoneAsAsked
<1> SUFFICES ASSUME IInv PROVE DescendsIntoCall /\ DoneAsAsked  OBVIOUS
<1>1. DescendsIntoCall  BY DEF IInv, Descends, Called, DescendsIntoCall
<1>2. DoneAsAsked
  <2>1. CASE effects = <<>>  BY <2>1 DEF DoneAsAsked
  <2>2. ASSUME NEW e, effects = <<e>>, AsAsked(e) PROVE DoneAsAsked
    <3>1. Len(effects) <= 1 /\ DOMAIN effects = {1} /\ effects[1] = e  BY <2>2
    <3> QED BY <2>2, <3>1 DEF DoneAsAsked, AsAsked
  <2> QED BY <2>1, <2>2 DEF IInv, OnceAsAsked
<1> QED BY <1>1, <1>2

-----------------------------------------------------------------------------
\* The stack when its top changes, when it grows and when it shrinks.
LEMMA NewTop ==
    ASSUME NEW S, NEW s \in Seq(S), s # <<>>, NEW a \in S
    PROVE  LET r == <<a>> \o Tail(s)
           IN  /\ r \in Seq(S) /\ r # <<>> /\ Len(r) = Len(s) /\ Head(r) = a /\ r[1] = a
               /\ \A j \in 2..Len(s) : r[j] = s[j]
OBVIOUS

LEMMA Pushed ==
    ASSUME NEW S, NEW s \in Seq(S), s # <<>>, NEW a \in S, NEW b \in S
    PROVE  LET r == <<a, b>> \o Tail(s)
           IN  /\ r \in Seq(S) /\ r # <<>> /\ Len(r) = Len(s) + 1
               /\ Head(r) = a /\ r[1] = a /\ r[2] = b
               /\ \A j \in 3..(Len(s) + 1) : r[j] = s[j - 1]
OBVIOUS

LEMMA Popped ==
    ASSUME NEW S, NEW s \in Seq(S), s # <<>>
    PROVE  /\ Tail(s) \in Seq(S) /\ Len(Tail(s)) = Len(s) - 1
           /\ \A j \in 1..(Len(s) - 1) : Tail(s)[j] = s[j + 1]
           /\ Tail(s) # <<>> => Head(Tail(s)) = s[2] /\ Len(s) >= 2
OBVIOUS

\* The view at the top goes on.
LEMMA NowFrame ==
    ASSUME Typed, stack # <<>>, NEW step \in Steps, NEW reply \in Replies \cup {None},
           step \in Answering => reply \in Replies, Now(step, reply)
    PROVE  /\ stack' \in Seq(Frames) /\ stack' # <<>>
           /\ Top' = [Top EXCEPT !.step = step, !.reply = reply]
           /\ OthersWait => OthersWait'
           /\ Descends => Descends'
<1> DEFINE a == [Top EXCEPT !.step = step, !.reply = reply]
<1>1. stack \in Seq(Frames) /\ Top \in Frames /\ Top = stack[1]  BY DEF Typed, Top
<1>2. /\ a \in Frames /\ a.resource = Top.resource /\ a.method = Top.method /\ a.data = Top.data
      BY <1>1 DEF Frames
<1>3. stack' = <<a>> \o Tail(stack)  BY DEF Now
<1> HIDE DEF a
<1>4. /\ stack' \in Seq(Frames) /\ stack' # <<>> /\ Len(stack') = Len(stack) /\ Head(stack') = a
      /\ stack'[1] = a /\ \A j \in 2..Len(stack) : stack'[j] = stack[j]
      BY <1>1, <1>2, <1>3, NewTop
<1>5. Top' = a  BY <1>4 DEF Top
<1>6. OthersWait => OthersWait'  BY <1>4 DEF OthersWait
<1>7. ASSUME Descends PROVE Descends'
  <2> SUFFICES ASSUME NEW i \in 1..(Len(stack) - 1) PROVE Called(stack'[i + 1], stack'[i])
      BY <1>4 DEF Descends, Called
  <2>1. Called(stack[i + 1], stack[i])  BY <1>7 DEF Descends
  <2>2. i + 1 \in 2..Len(stack) /\ Len(stack) \in Nat  BY <1>1
  <2>3. CASE i = 1
        BY <1>1, <1>2, <1>4, <2>1, <2>2, <2>3 DEF Called
  <2>4. CASE i # 1
    <3>1. stack'[i] = stack[i] /\ stack'[i + 1] = stack[i + 1]  BY <1>4, <2>2, <2>4
    <3> QED BY <2>1, <3>1
  <2> QED BY <2>3, <2>4
<1> QED BY <1>4, <1>5, <1>6, <1>7 DEF a

\* The view at the top leaves dispatch.
LEMMA LeaveFrame ==
    ASSUME Typed, stack # <<>>, OthersWait, Descends, NEW r \in Replies, Leave(r)
    PROVE  /\ stack' \in Seq(Frames) /\ value' \in Replies \cup {None}
           /\ OthersWait' /\ Descends'
           /\ stack' # <<>> => Top'.step = "called"
<1>1. stack' = Tail(stack) /\ stack \in Seq(Frames)  BY DEF Leave, Typed
<1>2. /\ stack' \in Seq(Frames) /\ Len(stack') = Len(stack) - 1
      /\ \A j \in 1..(Len(stack) - 1) : stack'[j] = stack[j + 1]
      /\ stack' # <<>> => Head(stack') = stack[2] /\ Len(stack) >= 2
      BY <1>1, Popped
<1>3. value' \in Replies \cup {None}  BY DEF Leave, Typed
<1>4. Len(stack) \in Nat /\ Len(stack') \in Nat  BY <1>1, <1>2
<1>5. OthersWait'  BY <1>2, <1>4 DEF OthersWait
<1>6. Descends'
  <2> SUFFICES ASSUME NEW i \in 1..(Len(stack') - 1) PROVE Called(stack'[i + 1], stack'[i])
      BY DEF Descends, Called
  <2>1. /\ stack'[i] = stack[i + 1] /\ stack'[i + 1] = stack[i + 2]
        /\ i + 1 \in 1..(Len(stack) - 1) /\ (i + 1) + 1 = i + 2
        BY <1>2, <1>4
  <2> QED BY <2>1 DEF Descends
<1>7. stack' # <<>> => Top'.step = "called"
  <2>1. stack' # <<>> => 2 \in 2..Len(stack)  BY <1>2, <1>4
  <2> QED BY <1>2, <2>1 DEF OthersWait, Top
<1> QED BY <1>2, <1>3, <1>5, <1>6, <1>7

\* A step after which no handler is still to run keeps the invariant.
LEMMA LateInv ==
    ASSUME IInv, stack # <<>>, request' \in Requests, OnceAsAsked',
           \/ /\ UNCHANGED value
              /\ \E step \in Answering, reply \in Replies :
                    Now(step, reply)
           \/ \E r \in Replies : Leave(r)
    PROVE  IInv'
<1>1. ASSUME NEW step \in Answering, NEW reply \in Replies,
             Now(step, reply), UNCHANGED value
      PROVE  IInv'
  <2>1. /\ stack' \in Seq(Frames) /\ Top' = [Top EXCEPT !.step = step, !.reply = reply]
        /\ OthersWait' /\ Descends'
        BY <1>1, NowFrame DEF IInv, Steps, Answering
  <2>2. Top \in Frames  BY DEF IInv, Typed, Top
  <2>3. Top'.step \notin {"start", "check", "handle"}  BY <2>1, <2>2 DEF Frames, Answering
  <2>4. Typed'  BY <1>1, <2>1 DEF IInv, Typed
  <2> QED BY <2>1, <2>3, <2>4 DEF IInv, NothingYet
<1>2. ASSUME NEW r \in Replies, Leave(r) PROVE IInv'
  <2>1. /\ stack' \in Seq(Frames) /\ value' \in Replies \cup {None} /\ OthersWait' /\ Descends'
        /\ stack' # <<>> => Top'.step = "called"
        BY <1>2, LeaveFrame DEF IInv
  <2> QED BY <2>1 DEF IInv, Typed, NothingYet
<1> QED BY <1>1, <1>2

LEMMA ReplyTypes ==
    /\ Content \in Replies /\ RpcError \in Replies /\ Raised \in Replies
    /\ \A status \in Nat : Failure(status) \in Replies
    /\ Plain(200, TRUE) \in Replies /\ Plain(200, FALSE) \in Replies
    /\ Plain(500, TRUE) \in Replies /\ Failure(400) \in Replies
<1> DEFINE R(raw, status, error, text) ==
       [raw |-> raw, status |-> status, error |-> error, text |-> text, type |-> None]
<1>1. ASSUME NEW raw \in BOOLEAN, NEW status \in Nat, NEW error \in BOOLEAN, NEW text \in BOOLEAN
      PROVE  R(raw, status, error, text) \in Replies
  <2>1. None \in MediaTypes  BY DEF MediaTypes
  <2> QED BY <2>1 DEF Replies
<1>2. Content = R(FALSE, 200, FALSE, TRUE) /\ Raised = R(TRUE, 0, TRUE, TRUE)
      BY DEF Content, Raised, Reply
<1>3. RpcError \in Replies
  <2>1. Content \in Replies  BY <1>1, <1>2, ZenonT(30)
  <2> QED BY <2>1 DEF RpcError, Replies
<1>4. \A status : Failure(status) = R(FALSE, status, TRUE, TRUE)  BY DEF Failure, Reply
<1>5. \A status \in Nat, text \in BOOLEAN : Plain(status, text) \in Replies
      BY DEF Plain, Reply, Replies, MediaTypes
<1>6. Plain(200, TRUE) \in Replies /\ Plain(200, FALSE) \in Replies /\ Plain(500, TRUE) \in Replies
  <2> DEFINE Typable(status) == Plain(status, TRUE) \in Replies /\ Plain(status, FALSE) \in Replies
  <2>1. \A status \in Nat : Typable(status)  BY <1>5, Zenon
  <2> HIDE DEF Typable
  <2>2. Typable(200) /\ Typable(500)  BY <2>1
  <2> QED BY <2>2 DEF Typable
<1>7. \A status \in Nat : Failure(status) \in Replies
  <2> HIDE DEF R
  <2> QED BY <1>1, <1>4
<1>8. Content \in Replies /\ Raised \in Replies  BY <1>1, <1>2, ZenonT(30)
<1>9. Failure(400) \in Replies  BY <1>7
<1> QED BY <1>9, <1>3, <1>6, <1>7, <1>8

\* What fails, and is reported, answered or leaves dispatch.
Breaking ==
    \/ Now("report", Failure(400)) /\ UNCHANGED <<value, answer>>
    \/ Break

LEMMA LateSteps ==
    ASSUME Breaking
    PROVE  \/ UNCHANGED value /\ \E step \in Answering, reply \in Replies : Now(step, reply)
           \/ \E r \in Replies : Leave(r)
<1>1. "report" \in Answering /\ "finish" \in Answering  BY DEF Answering
<1>2. Failure(400) \in Replies /\ Plain(500, TRUE) \in Replies /\ Raised \in Replies
      BY ReplyTypes
<1> QED BY <1>1, <1>2, ZenonT(30) DEF Breaking, Break

\* The view that is about to run its handler.
LEMMA TopTyped == ASSUME IInv, stack # <<>> PROVE Top \in Frames /\ request \in Requests
BY DEF IInv, Typed, Top

-----------------------------------------------------------------------------
LEMMA StartInv == ASSUME IInv, stack # <<>>, Start PROVE IInv'
<1>1. Top \in Frames /\ request \in Requests /\ Top.step = "start" /\ request' = Fix
      BY TopTyped DEF Start
<1>2. /\ request' \in Requests /\ request'.method = request.method /\ request'.get = request.get
      /\ request'.body = request.body /\ request'.type = request.type
      /\ request.method # "PATCH" => request'.post = request.post
  <2>1. Nothing \in AnyParameters  BY DEF Nothing, Holds, AnyParameters
  <2> QED BY <1>1, <2>1 DEF Fix, Requests
<1>3. UNCHANGED effects  BY DEF Start
<1>4. CASE Leave(Raised)
  <2>1. OnceAsAsked'  BY <1>3 DEF IInv, OnceAsAsked
  <2> QED BY <1>2, <1>4, <2>1, LateInv, ReplyTypes DEF Answering
<1>5. CASE Now("check", None) /\ UNCHANGED value
  <2>1. /\ stack' \in Seq(Frames) /\ stack' # <<>>
        /\ Top' = [Top EXCEPT !.step = "check", !.reply = None]
        /\ OthersWait' /\ Descends'
        BY <1>5, NowFrame DEF IInv, Steps, Answering
  <2>2. /\ Top'.step = "check" /\ Top'.resource = Top.resource /\ Top'.method = Top.method
        /\ Top'.data = Top.data
        BY <1>1, <2>1 DEF Frames
  <2>3. effects = <<>> /\ RequestOf(Top)  BY <1>1 DEF IInv, NothingYet
  <2>4. RequestOf(Top)'  BY <1>2, <2>2, <2>3 DEF RequestOf
  <2>5. Typed'  BY <1>2, <1>5, <2>1 DEF IInv, Typed
  <2> QED BY <1>3, <2>1, <2>3, <2>4, <2>5 DEF IInv, NothingYet, OnceAsAsked
<1> QED BY <1>4, <1>5 DEF Start

LEMMA CheckInv == ASSUME IInv, stack # <<>>, Check PROVE IInv'
<1>1. Top \in Frames /\ Top.step = "check" /\ UNCHANGED <<request, effects>>
      BY TopTyped DEF Check
<1>2. effects = <<>> /\ RequestOf(Top) /\ request \in Requests
      BY <1>1, TopTyped DEF IInv, NothingYet
<1>3. CASE UNCHANGED value /\ \E status \in Nat : Now("report", Failure(status))
  <2>1. OnceAsAsked'  BY <1>1, <1>2 DEF OnceAsAsked
  <2> QED BY <1>1, <1>2, <1>3, <2>1, LateInv, ReplyTypes DEF Answering
<1>5. CASE Break
  <2>1. OnceAsAsked'  BY <1>1, <1>2 DEF OnceAsAsked
  <2>2. Breaking  BY <1>5 DEF Breaking
  <2> QED BY <1>1, <1>2, <2>1, <2>2, LateInv, LateSteps
<1>4. CASE Now("handle", None) /\ UNCHANGED value /\ request.method \in Me.methods
  <2>1. /\ stack' \in Seq(Frames) /\ stack' # <<>>
        /\ Top' = [Top EXCEPT !.step = "handle", !.reply = None]
        /\ OthersWait' /\ Descends'
        BY <1>4, NowFrame DEF IInv, Steps, Answering
  <2>2. /\ Top'.step = "handle" /\ Top'.resource = Top.resource /\ Top'.method = Top.method
        /\ Top'.data = Top.data
        BY <1>1, <2>1 DEF Frames
  <2>3. RequestOf(Top)'  BY <1>1, <1>2, <1>4, <2>2 DEF RequestOf, Me
  <2>4. Typed'  BY <1>1, <1>4, <2>1 DEF IInv, Typed
  <2> QED BY <1>1, <1>2, <2>1, <2>3, <2>4 DEF IInv, NothingYet, OnceAsAsked
<1> QED BY <1>3, <1>4, <1>5 DEF Check

\* What a handler or a function of the view at the top does.
LEMMA FirstEffect ==
    ASSUME IInv, effects = <<>>, NEW e, AsAsked(e), effects' = Append(effects, e)
    PROVE  OnceAsAsked'
<1>1. effects' = <<e>>  OBVIOUS
<1> QED BY <1>1 DEF OnceAsAsked, AsAsked

LEMMA HandleInv == ASSUME IInv, stack # <<>>, Handle PROVE IInv'
<1> DEFINE data == IF request.method \in {"POST", "PUT", "PATCH"} THEN request.post ELSE request.get
           e == [view |-> Top, does |-> <<request.method>>, data |-> data]
<1>1. /\ Top \in Frames /\ request \in Requests /\ Top.step = "handle"
      /\ request.method = "OPTIONS" \/ Me.kind = "rest"
      /\ UNCHANGED request
      BY TopTyped DEF Handle
<1>2. effects = <<>> /\ RequestOf(Top)  BY <1>1 DEF IInv, NothingYet
<1>3. AsAsked(e)
  <2>1. e.view = Top /\ e.does = <<request.method>> /\ e.data = data  OBVIOUS
  <2>2. data = Top.data \/ request.method = "PATCH"  BY <1>1, <1>2 DEF RequestOf, Me
  <2> HIDE DEF e, data
  <2> QED BY <1>1, <1>2, <2>1, <2>2 DEF AsAsked, RequestOf, Me
<1>4. CASE /\ effects' = Append(effects, e) /\ UNCHANGED value
           /\ \E reply \in {Content, Plain(200, TRUE), Plain(200, FALSE)} : Now("emit", reply)
  <2>1. OnceAsAsked'  BY <1>2, <1>3, <1>4, FirstEffect
  <2>2. {Content, Plain(200, TRUE), Plain(200, FALSE)} \subseteq Replies  BY ReplyTypes
  <2>3. \E reply \in Replies : Now("emit", reply)  BY <1>4, <2>2
  <2> QED BY <1>1, <1>4, <2>1, <2>3, LateInv DEF Answering
<1>5. CASE UNCHANGED effects /\ Breaking
  <2>1. OnceAsAsked'  BY <1>2, <1>5 DEF OnceAsAsked
  <2> QED BY <1>1, <1>5, <2>1, LateInv, LateSteps
<1>6. \/ /\ effects' = Append(effects, e) /\ UNCHANGED value
         /\ \E reply \in IF request.method = "OPTIONS" THEN {Plain(200, TRUE)}
                         ELSE {Content, Plain(200, TRUE), Plain(200, FALSE)} : Now("emit", reply)
      \/ UNCHANGED effects /\ Breaking
      BY DEF Handle, Breaking
<1> HIDE DEF e
<1> QED BY <1>4, <1>5, <1>6

\* What an RPC resource finds in the request is the call it was asked to make.
LEMMA CallIsAsked ==
    ASSUME IInv, stack # <<>>, NEW kind \in {"auto", "scheme"}, Calling(kind), IsCall(Call)
    PROVE  Call = Top.data.call /\ Call \in DOMAIN Calls
<1>1. Top \in Frames /\ request \in Requests /\ RequestOf(Top) /\ effects = <<>>
      BY TopTyped DEF Calling, IInv, NothingYet
<1>2. Call \in {None, Garbage, Top.data.call}
  <2>1. CASE request.method = "GET"  BY <1>1, <2>1 DEF Call, RequestOf
  <2>2. CASE request.method # "GET" /\ request.method # "POST"  BY <2>2 DEF Call, Parsed
  <2>3. CASE request.method = "POST"
    <3>1. Call = Parsed  BY <2>3 DEF Call
    <3>2. CASE request.type = None
          BY <1>1, <2>3, <3>1, <3>2 DEF Parsed, Json, RequestOf, Nothing, Holds, Calling
    <3>3. CASE request.type = "json"  BY <1>1, <2>3, <3>1, <3>3 DEF Parsed, Json, RequestOf
    <3>4. CASE request.type = "form"  BY <1>1, <2>3, <3>1, <3>4 DEF Parsed, Json, RequestOf
    <3> QED BY <1>1, <3>2, <3>3, <3>4 DEF Requests
  <2> QED BY <2>1, <2>2, <2>3
<1>3. Top.data.call \in DOMAIN Calls \cup {None, Garbage}
      BY <1>1 DEF Frames, AnyParameters
<1> QED BY <1>2, <1>3 DEF IsCall

LEMMA RunInv == ASSUME IInv, stack # <<>>, Run PROVE IInv'
<1>1. /\ Top \in Frames /\ request' \in Requests /\ Top.step = "handle" /\ Me.kind = "scheme"
      /\ UNCHANGED value
      BY TopTyped DEF Run, Calling
<1>2. effects = <<>>  BY <1>1 DEF IInv, NothingYet
<1>3. CASE Now("emit", RpcError) /\ UNCHANGED effects
  <2>1. OnceAsAsked'  BY <1>2, <1>3 DEF OnceAsAsked
  <2> QED BY <1>1, <1>3, <2>1, LateInv, ReplyTypes DEF Answering
<1> DEFINE e == [view |-> Top, does |-> Me.scheme \o Calls[Call].name, data |-> Calls[Call].data]
<1>4. CASE /\ IsCall(Call) /\ Me.scheme \o Calls[Call].name \in Methods
           /\ effects' = Append(effects, e) /\ Now("emit", Content)
  <2>1. Call = Top.data.call  BY <1>4, CallIsAsked DEF Run
  <2>2. /\ e.view = Top /\ e.does = Me.scheme \o Calls[Call].name /\ e.data = Calls[Call].data
        OBVIOUS
  <2>3. AsAsked(e)
    <3> HIDE DEF e
    <3> QED BY <1>1, <1>4, <2>1, <2>2, Zenon DEF AsAsked, Me
  <2>4. OnceAsAsked'  BY <1>2, <1>4, <2>3, FirstEffect
  <2> QED BY <1>1, <1>4, <2>4, LateInv, ReplyTypes DEF Answering
<1> QED BY <1>3, <1>4 DEF Run

LEMMA RefuseCallInv == ASSUME IInv, stack # <<>>, RefuseCall PROVE IInv'
<1>1. request' \in Requests /\ UNCHANGED <<value, effects>> /\ Now("emit", RpcError)
      BY TopTyped DEF RefuseCall
<1>2. OnceAsAsked'  BY <1>1 DEF IInv, OnceAsAsked
<1> QED BY <1>1, <1>2, LateInv, ReplyTypes DEF Answering

\* The request as the view that is called finds it.
LEMMA WrittenRequest ==
    ASSUME IInv, stack # <<>>, Calling("auto"), NEW c \in DOMAIN Calls, WellFormed(Calls[c])
    PROVE  LET q == Written(Calls[c])
           IN  /\ q \in Requests /\ q.method = Method(Calls[c].name)
               /\ q.get = Calls[c].data /\ q.post = Calls[c].data /\ q.type \in {None, "form"}
               /\ q.body = request.body /\ (q.type = None => request.type = None)
<1>1. request \in Requests  BY TopTyped
<1>2. Calls[c].data \in AnyParameters
  <2>1. Calls[c].data \in Parameters  OBVIOUS
  <2> QED BY <2>1 DEF Parameters, Holds, AnyParameters
<1>3. Method(Calls[c].name) \in AnyMethod  BY DEF AnyMethod
<1>4. Calls[c].headers \in MediaTypes  BY DEF MediaTypes
<1> QED BY <1>1, <1>2, <1>3, <1>4 DEF Written, Requests

LEMMA CallViewInv == ASSUME IInv, stack # <<>>, CallView PROVE IInv'
<1> DEFINE c == Calls[Call]
           new == View(c.name[1], Method(c.name), c.data)
           old == [Top EXCEPT !.step = "called"]
<1>1. /\ Top \in Frames /\ request \in Requests /\ Top.step = "handle" /\ Calling("auto")
      /\ WellFormed(c) /\ UNCHANGED <<value, effects>> /\ request' = Written(c)
      BY TopTyped DEF CallView, Calling
<1>2. effects = <<>> /\ RequestOf(Top)  BY <1>1 DEF IInv, NothingYet
<1>3. Call = Top.data.call /\ Call \in DOMAIN Calls  BY CallIsAsked DEF CallView
<1>4. /\ request' \in Requests /\ request'.method = Method(c.name) /\ request'.get = c.data
      /\ request'.post = c.data /\ request'.type \in {None, "form"} /\ request'.body = request.body
      /\ request'.type = None => request.type = None
      BY <1>1, <1>3, WrittenRequest
<1>5. CASE c.params
  <2>1. stack' = <<new, old>> \o Tail(stack)  BY <1>5 DEF CallView
  <2>2. /\ old \in Frames /\ old.resource = Top.resource /\ old.method = Top.method
        /\ old.data = Top.data /\ old.step = "called"
        BY <1>1 DEF Frames, Steps, Answering
  <2>3. /\ new \in Frames /\ new.resource = c.name[1] /\ new.method = Method(c.name)
        /\ new.data = c.data /\ new.step = "start"
    <3>1. c.data \in AnyParameters  BY <1>4 DEF Requests
    <3>2. Method(c.name) \in AnyMethod  BY <1>3 DEF AnyMethod
    <3>3. c.name[1] \in Names  BY <1>1 DEF WellFormed
    <3> QED BY <3>1, <3>2, <3>3 DEF View, Frames, Steps, Answering
  <2>4. stack \in Seq(Frames)  BY DEF IInv, Typed
  <2>6. Called(old, new)  BY <1>3, <2>2, <2>3 DEF Called, CallView
  <2> HIDE DEF c, new, old
  <2>7. /\ stack' \in Seq(Frames) /\ stack' # <<>> /\ Len(stack') = Len(stack) + 1
        /\ Head(stack') = new /\ stack'[1] = new /\ stack'[2] = old
        /\ \A j \in 3..(Len(stack) + 1) : stack'[j] = stack[j - 1]
        BY <2>1, <2>2, <2>3, <2>4, Pushed
  <2>8. Len(stack) \in Nat \ {0} /\ Top = stack[1]  BY <2>4 DEF Top
  <2>9. OthersWait'
    <3> SUFFICES ASSUME NEW j \in 2..Len(stack') PROVE stack'[j].step = "called"
        BY DEF OthersWait
    <3>1. CASE j = 2  BY <2>2, <2>7, <3>1
    <3>2. CASE j # 2
      <4>1. j \in 3..(Len(stack) + 1) /\ j - 1 \in 2..Len(stack)  BY <2>7, <2>8, <3>2
      <4> QED BY <2>7, <4>1 DEF IInv, OthersWait
    <3> QED BY <3>1, <3>2
  <2>10. Descends'
    <3> SUFFICES ASSUME NEW j \in 1..(Len(stack') - 1) PROVE Called(stack'[j + 1], stack'[j])
        BY DEF Descends, Called
    <3>1. CASE j = 1  BY <2>6, <2>7, <3>1
    <3>2. CASE j = 2
      <4>1. stack'[3] = stack[2] /\ 1 \in 1..(Len(stack) - 1)  BY <2>7, <2>8, <3>2
      <4>2. Called(stack[2], stack[1])
        <5>1. Called(stack[1 + 1], stack[1])  BY <4>1 DEF IInv, Descends
        <5> QED BY <5>1
      <4> QED BY <2>2, <2>7, <2>8, <3>2, <4>1, <4>2 DEF Called
    <3>3. CASE j > 2
      <4>1. /\ stack'[j + 1] = stack[j] /\ stack'[j] = stack[j - 1]
            /\ j - 1 \in 1..(Len(stack) - 1) /\ (j - 1) + 1 = j
            BY <2>7, <2>8, <3>3
      <4>2. Called(stack[(j - 1) + 1], stack[j - 1])  BY <4>1 DEF IInv, Descends
      <4> QED BY <4>1, <4>2
    <3> QED BY <3>1, <3>2, <3>3
  <2>11. RequestOf(Top)'
         BY <1>2, <1>4, <2>3, <2>7 DEF RequestOf, Top
  <2> QED BY <1>1, <1>2, <1>4, <2>7, <2>9, <2>10, <2>11
          DEF IInv, Typed, NothingYet, OnceAsAsked
<1>6. CASE ~c.params
  <2>1. Now("emit", RpcError)  BY <1>6 DEF CallView
  <2>2. OnceAsAsked'  BY <1>1, <1>2 DEF OnceAsAsked
  <2> QED BY <1>1, <1>4, <2>1, <2>2, LateInv, ReplyTypes DEF Answering
<1> QED BY <1>5, <1>6

-----------------------------------------------------------------------------
LEMMA ReturnInv == ASSUME IInv, Return PROVE IInv'
<1>1. /\ stack # <<>> /\ Top.step = "called" /\ value \in Replies /\ Top \in Frames
      /\ UNCHANGED <<request, effects>> /\ Now("emit", Taken(value)) /\ value' = None
      BY TopTyped DEF Return, IInv, Typed
<1>2. Taken(value) \in Replies
  <2>1. None \in MediaTypes  BY DEF MediaTypes
  <2>2. RpcError \in Replies  BY ReplyTypes
  <2> QED BY <1>1, <2>1, <2>2 DEF Taken, Replies
<1>3. /\ stack' \in Seq(Frames)
      /\ Top' = [Top EXCEPT !.step = "emit", !.reply = Taken(value)]
      /\ OthersWait' /\ Descends'
      BY <1>1, <1>2, NowFrame DEF IInv, Steps, Answering
<1>4. Top'.step = "emit"  BY <1>1, <1>3 DEF Frames
<1> QED BY <1>1, <1>3, <1>4 DEF IInv, Typed, NothingYet, OnceAsAsked

LEMMA EmitterType == ASSUME IInv, stack # <<>> PROVE Emitter \in MediaTypes
<1>1. Me.emitters \in Seq(STRING) /\ Me.emitters # <<>> /\ Top.resource \in Names
      BY TopTyped DEF Me, Frames
<1>2. Me.emitters[1] \in ToSet(Me.emitters)
  <2>1. 1 \in DOMAIN Me.emitters  BY <1>1
  <2> QED BY <2>1 DEF ToSet
<1>3. Me.emitters[1] \in MediaTypes  BY <1>1, <1>2 DEF MediaTypes, Me
<1> QED BY <1>3, TopTyped DEF Emitter, MediaTypes, Requests

LEMMA EmitInv == ASSUME IInv, stack # <<>>, Emit PROVE IInv'
<1>1. /\ Top \in Frames /\ request' \in Requests /\ request \in Requests /\ UNCHANGED effects
      BY TopTyped DEF Emit
<1>2. OnceAsAsked'  BY <1>1 DEF IInv, OnceAsAsked
<1> DEFINE reply == IF Top.reply.raw THEN Top.reply ELSE [Top.reply EXCEPT !.type = Emitter]
<1>3. CASE Now("finish", reply) /\ UNCHANGED value /\ Top.step \in Answering
  <2>1. reply \in Replies
    <3>1. Emitter \in MediaTypes  BY EmitterType
    <3>2. Top.reply \in Replies  BY <1>1, <1>3 DEF Frames
    <3> QED BY <3>1, <3>2 DEF Replies
  <2> QED BY <1>1, <1>2, <1>3, <2>1, LateInv DEF Answering
<1>4. CASE Breaking  BY <1>1, <1>2, <1>4, LateInv, LateSteps
<1>5. CASE Leave(Raised)
      BY <1>1, <1>2, <1>5, LateInv, ReplyTypes DEF Answering
<1> QED BY <1>3, <1>4, <1>5 DEF Emit, Answering, Breaking

LEMMA FinishInv == ASSUME IInv, stack # <<>>, Finish PROVE IInv'
<1>1. /\ Top \in Frames /\ request' \in Requests /\ UNCHANGED effects
      /\ Leave(Top.reply) \/ Leave(Raised)
      BY TopTyped DEF Finish
<1>2. OnceAsAsked'  BY <1>1 DEF IInv, OnceAsAsked
<1>3. CASE Leave(Raised)  BY <1>1, <1>2, <1>3, LateInv, ReplyTypes
<1>4. Top.reply \in Replies  BY <1>1 DEF Finish, Frames, Answering
<1> QED BY <1>1, <1>2, <1>3, <1>4, LateInv

-----------------------------------------------------------------------------
\* There is one request.
OneRequest == views \in Seq(Names) /\ (views = <<>> => stack = <<>> /\ effects = <<>>)

LEMMA OneRequestInvariant == Spec => []OneRequest
<1>1. Init => OneRequest  BY DEF Init, OneRequest
<1>2. OneRequest /\ [Next]_vars => OneRequest'
  <2> SUFFICES ASSUME OneRequest, [Next]_vars PROVE OneRequest'  OBVIOUS
  <2>1. CASE Arrive
    <3>1. PICK n \in Names : views' = <<n>>  BY <2>1 DEF Arrive, Receive
    <3> QED BY <3>1 DEF OneRequest
  <2>2. CASE Step
    <3>1. stack # <<>> /\ views # <<>>  BY <2>2 DEF Step, OneRequest
    <3>2. views' = views \/ \E n \in Names : views' = Append(views, n)
          BY <2>2 DEF Step, Start, Check, Handle, Run, RefuseCall, CallView, Return, Emit, Finish,
                      WellFormed
    <3>3. CASE views' = views  BY <3>1, <3>3 DEF OneRequest
    <3>4. ASSUME NEW n \in Names, views' = Append(views, n) PROVE OneRequest'
      <4>1. views \in Seq(Names)  BY DEF OneRequest
      <4>2. Append(views, n) \in Seq(Names)  BY <4>1
      <4>3. Len(Append(views, n)) = Len(views) + 1 /\ Len(views) \in Nat  BY <4>1
      <4>4. Append(views, n) # <<>>  BY <4>3
      <4> QED BY <3>4, <4>2, <4>4 DEF OneRequest
    <3> QED BY <3>2, <3>3, <3>4
  <2>3. CASE UNCHANGED vars  BY <2>3 DEF vars, OneRequest
  <2> QED BY <2>1, <2>2, <2>3 DEF Next
<1> QED BY <1>1, <1>2, PTL DEF Spec

LEMMA ArriveInv == ASSUME IInv, OneRequest, Arrive PROVE IInv'
<1>1. PICK n \in Names, m \in {"GET", "POST", "OPTIONS"}, t \in {None, "form", "json"},
           c \in DOMAIN Calls \cup {None, Garbage} :
         /\ Resources[n].kind # "rest" /\ (m = "POST") = (t # None)
         /\ Receive(n, m, t, c)
      BY DEF Arrive
<1> DEFINE held == Holds(CASE t = "form" -> "fields" [] t = "json" -> "json" [] OTHER -> "payload", c)
<1>2. held \in AnyParameters /\ Nothing \in AnyParameters
  <2>1. (CASE t = "form" -> "fields" [] t = "json" -> "json" [] OTHER -> "payload")
           \in {"fields", "json", "payload"}
    <3>1. CASE t = "form"  BY <3>1
    <3>2. CASE t = "json"  BY <3>2
    <3>3. CASE t = None  BY <3>3
    <3> QED BY <1>1, <3>1, <3>2, <3>3
  <2> QED BY <1>1, <2>1 DEF Holds, Nothing, AnyParameters
<1> HIDE DEF held
<1>3. /\ request' = [method |-> m, type |-> t, accept |-> None,
                     get |-> IF t = None THEN held ELSE Nothing,
                     body |-> IF t = None THEN Nothing ELSE held,
                     post |-> IF t = "form" THEN held ELSE Nothing]
      /\ stack' = <<View(n, m, held)>> /\ UNCHANGED <<value, effects>>
      BY <1>1 DEF Receive, held
<1>4. m \in AnyMethod /\ None \in MediaTypes  BY DEF AnyMethod, MediaTypes
<1>5. request' \in Requests  BY <1>1, <1>2, <1>3, <1>4 DEF Requests
<1>6. View(n, m, held) \in Frames /\ View(n, m, held).step = "start"
      /\ View(n, m, held).method = m /\ View(n, m, held).data = held
      /\ View(n, m, held).resource = n
      BY <1>1, <1>2, <1>4 DEF View, Frames, Steps, Answering
<1>7. stack' \in Seq(Frames) /\ Len(stack') = 1 /\ Top' = View(n, m, held)
      BY <1>3, <1>6 DEF Top
<1>8. effects' = <<>>  BY <1>3 DEF Arrive, OneRequest
<1>9. RequestOf(Top)'
      BY <1>1, <1>3, <1>6, <1>7 DEF RequestOf
<1> QED BY <1>3, <1>5, <1>7, <1>8, <1>9
        DEF IInv, Typed, OthersWait, NothingYet, OnceAsAsked, Descends

LEMMA Invariant == Spec => []IInv
<1>1. OneRequest /\ IInv /\ [Next]_vars => IInv'
  <2> SUFFICES ASSUME OneRequest, IInv, [Next]_vars PROVE IInv'  OBVIOUS
  <2>1. CASE Arrive  BY <2>1, ArriveInv
  <2>2. CASE Step
        BY <2>2, StartInv, CheckInv, HandleInv, RunInv, RefuseCallInv, CallViewInv, ReturnInv,
           EmitInv, FinishInv DEF Step
  <2>3. CASE UNCHANGED vars
        BY <2>3 DEF vars, IInv, Typed, OthersWait, NothingYet, RequestOf, OnceAsAsked, Descends, Top
  <2> QED BY <2>1, <2>2, <2>3 DEF Next
<1> QED BY <1>1, InitInv, OneRequestInvariant, PTL DEF Spec

\* However deep a call is nested, at most one handler or function does something, and
\* that is what the innermost call asks for (DoneAsAsked).
THEOREM OneIsDoneAsAsked == Spec => []DoneAsAsked
BY Invariant, InvImplies, PTL

\* Every view works on the call that the next outer one was asked to make
\* (DescendsIntoCall).
THEOREM ViewsDescend == Spec => []DescendsIntoCall
BY Invariant, InvImplies, PTL

-----------------------------------------------------------------------------
\* A reply tells whether something was done and nothing failed since.
Tells(r) == Success(r) <=> effects # <<>> /\ ~late

\* The reply that is on its way to the client, wherever it is.
Told ==
    /\ late \in BOOLEAN /\ (late => effects # <<>>)
    /\ (stack # <<>> /\ Top.step \in Answering) => Tells(Top.reply)
    /\ (stack # <<>> /\ Top.step = "called" /\ value # None) => Tells(value)
    /\ (stack = <<>> /\ answer # None) => Tells(answer)

\* late after a failure
LEMMA FailTells ==
    ASSUME Told, Fail, UNCHANGED effects
    PROVE  late' \in BOOLEAN /\ (late' <=> effects' # <<>>)
<1>1. late \in BOOLEAN /\ (late => effects # <<>>)  BY DEF Told
<1>2. late' = (late \/ effects # <<>>)  BY DEF Fail
<1>3. CASE effects = <<>>
  <2>1. late = FALSE /\ late' = FALSE  BY <1>1, <1>2, <1>3, Zenon
  <2> QED BY <1>3, <2>1
<1>4. CASE effects # <<>>
  <2>1. late' = TRUE  BY <1>1, <1>2, <1>4, Zenon
  <2> QED BY <1>4, <2>1
<1> QED BY <1>3, <1>4

LEMMA NowTells ==
    ASSUME IInv, stack # <<>>, NEW step \in Answering, NEW reply \in Replies, Now(step, reply),
           late' \in BOOLEAN, late' => effects' # <<>>, Tells(reply)'
    PROVE  Told'
<1>1. stack' # <<>> /\ Top' = [Top EXCEPT !.step = step, !.reply = reply]
      BY NowFrame DEF IInv, Steps, Answering
<1>2. Top'.reply = reply /\ Top'.step # "called"
      BY <1>1, TopTyped DEF Frames, Answering
<1> QED BY <1>1, <1>2 DEF Told, Tells

LEMMA LeaveTells ==
    ASSUME IInv, stack # <<>>, NEW r \in Replies, Leave(r),
           late' \in BOOLEAN, late' => effects' # <<>>, Tells(r)'
    PROVE  Told'
<1>1. stack' # <<>> => Top'.step = "called" /\ value' = r
      BY LeaveFrame DEF IInv, Leave
<1>2. stack' = <<>> => answer' = r  BY DEF Leave
<1> QED BY <1>1, <1>2 DEF Told, Tells, Answering

\* Which replies are successes.
LEMMA Successes ==
    /\ Success(Content) /\ Success(Plain(200, TRUE)) /\ Success(Plain(200, FALSE))
    /\ ~Success(RpcError) /\ ~Success(Raised) /\ ~Success(Plain(500, TRUE))
    /\ \A status \in Nat : ~Success(Failure(status))
<1>1. Success(Content) /\ ~Success(RpcError)  BY DEF Success, Content, RpcError, Reply
<1>2. ~Success(Raised)  BY DEF Success, Raised, Reply
<1>3. \A status \in Nat : ~Success(Failure(status))  BY DEF Success, Failure, Reply
<1>4. Success(Plain(200, TRUE)) /\ Success(Plain(200, FALSE))
      BY DEF Success, Plain, Reply
<1>5. ~Success(Plain(500, TRUE))  BY DEF Success, Plain, Reply
<1> QED BY <1>1, <1>2, <1>3, <1>4, <1>5

LEMMA GoodReplies ==
    ASSUME NEW r \in {Content, Plain(200, TRUE), Plain(200, FALSE)}
    PROVE  r \in Replies /\ Success(r)
<1>1. r = Content \/ r = Plain(200, TRUE) \/ r = Plain(200, FALSE)  BY Zenon
<1>2. CASE r = Content  BY <1>2, ReplyTypes, Successes, Zenon
<1>3. CASE r = Plain(200, TRUE)  BY <1>3, ReplyTypes, Successes, Zenon
<1>4. CASE r = Plain(200, FALSE)  BY <1>4, ReplyTypes, Successes, Zenon
<1> QED BY <1>1, <1>2, <1>3, <1>4, Zenon

\* A failure of which the reply tells.
LEMMA FailureTells ==
    ASSUME Told, NEW r, ~Success(r), UNCHANGED effects,
           Fail \/ (UNCHANGED late /\ effects = <<>>)
    PROVE  /\ late' \in BOOLEAN /\ (late' => effects' # <<>>) /\ Tells(r)'
<1>1. CASE Fail  BY <1>1, FailTells DEF Tells, Success
<1>2. CASE UNCHANGED late /\ effects = <<>>  BY <1>2 DEF Told, Tells, Success
<1> QED BY <1>1, <1>2

\* What fails, and is reported or leaves dispatch.
LEMMA FailureTold ==
    ASSUME IInv, Told, stack # <<>>, UNCHANGED effects,
           Fail \/ (UNCHANGED late /\ effects = <<>>),
           \/ Now("report", Failure(400)) \/ Now("finish", Plain(500, TRUE))
           \/ Now("emit", RpcError) \/ Leave(Raised)
    PROVE  Told'
<1>1. CASE Leave(Raised)
      BY <1>1, FailureTells, LeaveTells, Successes, ReplyTypes
<1>2. CASE Now("report", Failure(400))
  <2>1. Failure(400) \in Replies /\ ~Success(Failure(400)) /\ "report" \in Answering
        BY ReplyTypes, Successes DEF Answering
  <2> QED BY <1>2, <2>1, FailureTells, NowTells
<1>3. CASE Now("finish", Plain(500, TRUE))
  <2>1. Plain(500, TRUE) \in Replies /\ ~Success(Plain(500, TRUE)) /\ "finish" \in Answering
        BY ReplyTypes, Successes DEF Answering
  <2> QED BY <1>3, <2>1, FailureTells, NowTells, ZenonT(30)
<1>4. CASE Now("emit", RpcError)
  <2>1. RpcError \in Replies /\ ~Success(RpcError) /\ "emit" \in Answering
        BY ReplyTypes, Successes DEF Answering
  <2> QED BY <1>4, <2>1, FailureTells, NowTells
<1> QED BY <1>1, <1>2, <1>3, <1>4

\* What succeeds in a view that has had no effect yet.
LEMMA SuccessTold ==
    ASSUME IInv, Told, stack # <<>>, effects = <<>>, NEW e, effects' = Append(effects, e),
           UNCHANGED late, NEW reply \in Replies, Success(reply), Now("emit", reply)
    PROVE  Told'
<1>1. late = FALSE  BY DEF Told
<1>2. effects' # <<>> /\ late' = FALSE  BY <1>1
<1>3. Tells(reply)'  BY <1>2 DEF Tells, Success
<1>4. late' \in BOOLEAN /\ (late' => effects' # <<>>) /\ "emit" \in Answering
      BY <1>2 DEF Answering
<1> QED BY <1>3, <1>4, NowTells

\* The view goes on to one of the steps before its handler.
LEMMA EarlyTold ==
    ASSUME IInv, Told, stack # <<>>, NEW step \in {"check", "handle"}, Now(step, None),
           UNCHANGED <<effects, late>>
    PROVE  Told'
<1>1. stack' # <<>> /\ Top' = [Top EXCEPT !.step = step, !.reply = None]
      BY NowFrame, ZenonT(30) DEF IInv, Steps, Answering
<1>2. Top'.step \notin Answering \cup {"called"}
      BY <1>1, TopTyped DEF Frames, Answering
<1> QED BY <1>1, <1>2 DEF Told, Answering

\* What rpc_call makes of a reply succeeds if that does.
LEMMA TakenTells ==
    ASSUME NEW r \in Replies
    PROVE  Taken(r) \in Replies /\ (Success(Taken(r)) <=> Success(r))
<1>0. None \in MediaTypes /\ RpcError \in Replies  BY ReplyTypes DEF MediaTypes
<1>1. CASE r = Raised
  <2>1. Taken(r) = RpcError  BY <1>1 DEF Taken
  <2> QED BY <1>0, <1>1, <2>1, Successes
<1>2. CASE r # Raised /\ r.raw
  <2>1. Taken(r) = r  BY <1>2 DEF Taken
  <2> QED BY <2>1
<1>3. CASE r # Raised /\ ~r.raw /\ r.type \in ToSet(Me.emitters)
  <2>1. Taken(r) = [r EXCEPT !.raw = TRUE, !.type = None]  BY <1>3 DEF Taken
  <2> QED BY <1>0, <2>1 DEF Replies, Success
<1>4. CASE r # Raised /\ ~r.raw /\ r.type \notin ToSet(Me.emitters) /\ r.status = 200
  <2>1. Taken(r) = [r EXCEPT !.type = None]  BY <1>4 DEF Taken
  <2> QED BY <1>0, <2>1 DEF Replies, Success
<1>5. CASE r # Raised /\ ~r.raw /\ r.type \notin ToSet(Me.emitters) /\ r.status # 200
  <2>1. Taken(r) = RpcError  BY <1>5 DEF Taken
  <2>2. ~Success(r)  BY <1>5 DEF Success
  <2> QED BY <1>0, <2>1, <2>2, Successes
<1> QED BY <1>1, <1>2, <1>3, <1>4, <1>5

LEMMA StepTold == ASSUME IInv, Told, stack # <<>>, Step PROVE Told'
<1>1. Top.step \in {"start", "check", "handle"} => effects = <<>>  BY DEF IInv, NothingYet
<1>2. CASE Start  BY <1>1, <1>2, EarlyTold, FailureTold DEF Start
<1>3. CASE Check
  <2>1. effects = <<>> /\ UNCHANGED effects  BY <1>1, <1>3 DEF Check
  <2>2. CASE UNCHANGED late /\ Now("handle", None)  BY <2>1, <2>2, EarlyTold
  <2>3. ASSUME NEW status \in Nat, UNCHANGED late, Now("report", Failure(status)) PROVE Told'
    <3>1. Failure(status) \in Replies /\ ~Success(Failure(status)) /\ "report" \in Answering
          BY ReplyTypes, Successes DEF Answering
    <3> QED BY <2>1, <2>3, <3>1, FailureTells, NowTells
  <2>4. 400 \in Nat /\ 403 \in Nat /\ 405 \in Nat  OBVIOUS
  <2>5. CASE Break /\ Fail  BY <2>1, <2>5, FailureTold DEF Break
  <2> QED BY <1>3, <2>2, <2>3, <2>4, <2>5 DEF Check
<1>4. CASE Handle
  <2>1. effects = <<>> /\ UNCHANGED late  BY <1>1, <1>4 DEF Handle
  <2>2. CASE UNCHANGED effects /\ Breaking
        BY <2>1, <2>2, FailureTold DEF Breaking, Break
  <2>3. ASSUME NEW e, effects' = Append(effects, e),
               NEW reply \in {Content, Plain(200, TRUE), Plain(200, FALSE)}, Now("emit", reply)
        PROVE  Told'
    <3>1. reply \in Replies /\ Success(reply)  BY <2>3, GoodReplies, Zenon
    <3> QED BY <2>1, <2>3, <3>1, SuccessTold
  <2> DEFINE e == [view |-> Top, does |-> <<request.method>>,
                   data |-> IF request.method \in {"POST", "PUT", "PATCH"} THEN request.post
                            ELSE request.get]
  <2>4. \/ /\ effects' = Append(effects, e)
           /\ \E reply \in IF request.method = "OPTIONS" THEN {Plain(200, TRUE)}
                           ELSE {Content, Plain(200, TRUE), Plain(200, FALSE)} : Now("emit", reply)
        \/ UNCHANGED effects /\ Breaking
        BY <1>4 DEF Handle, Breaking
  <2> HIDE DEF e
  <2> QED BY <2>2, <2>3, <2>4, ZenonT(30)
<1>5. CASE Run
  <2>1. effects = <<>> /\ UNCHANGED late  BY <1>1, <1>5 DEF Run, Calling
  <2>2. CASE UNCHANGED effects /\ Now("emit", RpcError)  BY <2>1, <2>2, FailureTold
  <2>3. ASSUME NEW e, effects' = Append(effects, e), Now("emit", Content) PROVE Told'
        BY <2>1, <2>3, SuccessTold, ReplyTypes, Successes
  <2> QED BY <1>5, <2>2, <2>3 DEF Run
<1>6. CASE RefuseCall
      BY <1>1, <1>6, FailureTold DEF RefuseCall, Calling
<1>7. CASE CallView
  <2>1. effects = <<>> /\ UNCHANGED <<effects, late, value>>  BY <1>1, <1>7 DEF CallView, Calling
  <2>2. CASE Now("emit", RpcError)  BY <2>1, <2>2, FailureTold
  <2> DEFINE c == Calls[Call]
             new == View(c.name[1], Method(c.name), c.data)
             old == [Top EXCEPT !.step = "called"]
  <2>3. CASE stack' = <<new, old>> \o Tail(stack)
    <3>1. new.step = "start"  BY DEF View
    <3> HIDE DEF new, old
    <3>2. Tail(stack) \in Seq(Frames)  BY DEF IInv, Typed
    <3>3. stack' # <<>> /\ Head(stack') = new  BY <2>3, <3>2
    <3> QED BY <2>1, <3>1, <3>3 DEF Told, Top, Answering
  <2> QED BY <1>7, <2>2, <2>3 DEF CallView
<1>8. CASE Return
  <2>1. /\ Top.step = "called" /\ value # None /\ Now("emit", Taken(value))
        /\ UNCHANGED <<effects, late>> /\ value \in Replies
        BY <1>8 DEF Return, IInv, Typed
  <2>2. PICK r \in Replies : r = Taken(value)  BY <2>1, TakenTells
  <2>3. Success(r) <=> Success(value)  BY <2>1, <2>2, TakenTells
  <2>4. Tells(r)
    <3>1. Tells(value)  BY <2>1, <1>8 DEF Told
    <3> QED BY <2>3, <3>1 DEF Tells
  <2>5. Tells(r)'  BY <2>1, <2>4 DEF Tells, Success
  <2>6. late' \in BOOLEAN /\ (late' => effects' # <<>>) /\ "emit" \in Answering
        BY <2>1 DEF Told, Answering
  <2> QED BY <2>1, <2>2, <2>5, <2>6, NowTells
<1>9. CASE Emit
  <2>1. UNCHANGED effects  BY <1>9 DEF Emit
  <2>2. CASE Fail /\ (Breaking \/ Leave(Raised))
        BY <2>1, <2>2, FailureTold DEF Breaking, Break
  <2> DEFINE sent == IF Top.reply.raw THEN Top.reply ELSE [Top.reply EXCEPT !.type = Emitter]
  <2>3. CASE Top.step \in Answering /\ Now("finish", sent) /\ UNCHANGED late
    <3>1. Top.reply \in Replies /\ Tells(Top.reply)
          BY <2>3, TopTyped DEF Told, Frames
    <3>2. sent \in Replies  BY <3>1, EmitterType DEF Replies
    <3>3. Success(sent) <=> Success(Top.reply)  BY <3>1 DEF Success, Replies
    <3> HIDE DEF sent
    <3>4. PICK r \in Replies : r = sent  BY <3>2
    <3>5. Tells(r)'  BY <2>1, <2>3, <3>1, <3>3, <3>4 DEF Tells, Success
    <3>6. late' \in BOOLEAN /\ (late' => effects' # <<>>) /\ "finish" \in Answering
          BY <2>1, <2>3 DEF Told, Answering
    <3> QED BY <2>3, <3>4, <3>5, <3>6, NowTells
  <2> QED BY <1>9, <2>2, <2>3 DEF Emit, Answering, Breaking
<1>10. CASE Finish
  <2>1. UNCHANGED effects /\ Top.step = "finish"  BY <1>10 DEF Finish
  <2>2. CASE Leave(Raised) /\ Fail  BY <2>1, <2>2, FailureTold
  <2>3. CASE Leave(Top.reply) /\ UNCHANGED late
    <3>1. Top.reply \in Replies /\ Tells(Top.reply)
          BY <2>1, TopTyped DEF Told, Frames, Answering
    <3>2. PICK r \in Replies : r = Top.reply  BY <3>1
    <3>3. Tells(r)'  BY <2>1, <2>3, <3>1, <3>2 DEF Tells, Success
    <3>4. late' \in BOOLEAN /\ (late' => effects' # <<>>)  BY <2>1, <2>3 DEF Told
    <3> QED BY <2>3, <3>2, <3>3, <3>4, LeaveTells
  <2> QED BY <1>10, <2>2, <2>3 DEF Finish
<1> QED BY <1>2, <1>3, <1>4, <1>5, <1>6, <1>7, <1>8, <1>9, <1>10 DEF Step

LEMMA ToldInvariant == Spec => []Told
<1>1. Init => Told  BY DEF Init, Told
<1>2. OneRequest /\ IInv /\ Told /\ [Next]_vars => Told'
  <2> SUFFICES ASSUME OneRequest, IInv, Told, [Next]_vars PROVE Told'  OBVIOUS
  <2>1. CASE Arrive
    <3>1. PICK v : stack' = <<v>> /\ v.step = "start"  BY <2>1 DEF Arrive, Receive, View
    <3>2. stack' # <<>> /\ Head(stack') = v  BY <3>1
    <3>3. UNCHANGED <<late, effects>>  BY <2>1 DEF Arrive, Receive
    <3> QED BY <3>1, <3>2, <3>3 DEF Told, Top, Answering
  <2>2. CASE Step  BY <2>2, StepTold DEF Step
  <2>3. CASE UNCHANGED vars  BY <2>3 DEF vars, Told, Tells, Success, Top
  <2> QED BY <2>1, <2>2, <2>3 DEF Next
<1> QED BY <1>1, <1>2, Invariant, OneRequestInvariant, PTL DEF Spec

\* The client is told of a success exactly if something has been done and nothing
\* failed after that, whichever views the answer has come through
\* (AnswerTellsEffect).
THEOREM AnswersTellEffects == Spec => []AnswerTellsEffect
<1>1. Told => AnswerTellsEffect  BY DEF Told, Tells, AnswerTellsEffect
<1> QED BY <1>1, ToldInvariant, PTL

-----------------------------------------------------------------------------
\* The rows l of the access log tell, in this order, of those views among vs[k + 1],
\* vs[k + 2], and so on which log, the last one first.
Rows(l, vs, k) ==
    /\ \A i \in DOMAIN l : l[i].view \in (k + 1)..Len(vs) /\ Resources[vs[l[i].view]].log
    /\ \A v \in (k + 1)..Len(vs) : Resources[vs[v]].log => \E i \in DOMAIN l : l[i].view = v
    /\ \A i, j \in DOMAIN l : i < j => l[i].view > l[j].view

\* The last of the rows l is the one of the view that the client has asked, with the
\* status st.
LastRow(l, st) == l # <<>> /\ Last(l).view = 1 /\ Last(l).status = st

LogRows == [view : Nat, method : AnyMethod, status : Nat]
Early == {"start", "check", "handle"}

\* The stack holds the first of the views called.  As long as nothing has failed after
\* the effect, those that have left it are in the log.
Logged ==
    /\ log \in Seq(LogRows) /\ views \in Seq(Names)
    /\ views = <<>> => log = <<>> /\ answer = None
    /\ Len(stack) <= Len(views)
    /\ \A i \in 1..Len(stack) : stack[i].resource = views[(Len(stack) + 1) - i]
    /\ (stack # <<>> /\ Top.step \in Early) => log = <<>> /\ Len(stack) = Len(views)
    /\ effects # <<>> /\ ~late => Rows(log, views, Len(stack))
    /\ (answer # None /\ answer # Raised /\ stack = <<>> /\ Resources[views[1]].log) =>
          LastRow(log, answer.status)

\* No view has ended: there is no row to tell of it.
LEMMA NoRows == ASSUME NEW vs \in Seq(Names) PROVE Rows(<<>>, vs, Len(vs))
BY DEF Rows

\* The view k ends: with a row, or without one, if it does not log.
LEMMA RowAdded ==
    ASSUME NEW vs \in Seq(Names), NEW k \in 1..Len(vs), NEW l \in Seq(LogRows), Rows(l, vs, k),
           NEW row \in LogRows, row.view = k, Resources[vs[k]].log
    PROVE  Rows(Append(l, row), vs, k - 1)
<1> DEFINE m == Append(l, row)
<1>1. /\ m \in Seq(LogRows) /\ Len(m) = Len(l) + 1 /\ m[Len(l) + 1] = row
      /\ \A i \in 1..Len(l) : m[i] = l[i]
      /\ DOMAIN l = 1..Len(l) /\ DOMAIN m = 1..(Len(l) + 1) /\ Len(l) \in Nat
      OBVIOUS
<1> HIDE DEF m
<1>2. /\ \A i \in DOMAIN l : l[i].view \in (k + 1)..Len(vs) /\ Resources[vs[l[i].view]].log
      /\ \A v \in (k + 1)..Len(vs) : Resources[vs[v]].log => \E i \in DOMAIN l : l[i].view = v
      /\ \A i, j \in DOMAIN l : i < j => l[i].view > l[j].view
      BY DEF Rows
<1>3. k \in Nat /\ Len(vs) \in Nat /\ (k - 1) + 1 = k  OBVIOUS
<1>4. ASSUME NEW i \in DOMAIN m
      PROVE  m[i].view \in ((k - 1) + 1)..Len(vs) /\ Resources[vs[m[i].view]].log
  <2>1. CASE i = Len(l) + 1  BY <1>1, <1>3, <2>1
  <2>2. CASE i # Len(l) + 1
    <3>1. i \in DOMAIN l /\ m[i] = l[i]  BY <1>1, <2>2
    <3> QED BY <1>2, <1>3, <3>1
  <2> QED BY <2>1, <2>2
<1>5. ASSUME NEW v \in ((k - 1) + 1)..Len(vs), Resources[vs[v]].log
      PROVE  \E i \in DOMAIN m : m[i].view = v
  <2>1. CASE v = k
    <3>1. Len(l) + 1 \in DOMAIN m /\ m[Len(l) + 1].view = v  BY <1>1, <2>1
    <3> QED BY <3>1
  <2>2. CASE v # k
    <3>1. v \in (k + 1)..Len(vs)  BY <1>3, <2>2
    <3>2. PICK i \in DOMAIN l : l[i].view = v  BY <1>2, <1>5, <3>1
    <3> QED BY <1>1, <3>2
  <2> QED BY <2>1, <2>2
<1>6. ASSUME NEW i \in DOMAIN m, NEW j \in DOMAIN m, i < j PROVE m[i].view > m[j].view
  <2>1. i \in DOMAIN l /\ m[i] = l[i]  BY <1>1, <1>6
  <2>2. CASE j = Len(l) + 1
    <3>1. l[i].view \in (k + 1)..Len(vs)  BY <1>2, <2>1
    <3> QED BY <1>1, <1>3, <2>1, <2>2, <3>1
  <2>3. CASE j # Len(l) + 1
    <3>1. j \in DOMAIN l /\ m[j] = l[j]  BY <1>1, <2>3
    <3> QED BY <1>2, <1>6, <2>1, <3>1
  <2> QED BY <2>2, <2>3
<1>7. Rows(m, vs, k - 1)  BY <1>4, <1>5, <1>6 DEF Rows
<1> QED BY <1>7 DEF m

LEMMA RowNotNeeded ==
    ASSUME NEW vs \in Seq(Names), NEW k \in 1..Len(vs), NEW l \in Seq(LogRows), Rows(l, vs, k),
           ~Resources[vs[k]].log
    PROVE  Rows(l, vs, k - 1)
<1>1. k \in Nat /\ Len(vs) \in Nat /\ (k - 1) + 1 = k  OBVIOUS
<1>2. \A v \in k..Len(vs) : v = k \/ v \in (k + 1)..Len(vs)  BY <1>1
<1>3. \A v \in (k + 1)..Len(vs) : v \in k..Len(vs)  BY <1>1
<1> QED BY <1>1, <1>2, <1>3 DEF Rows

-----------------------------------------------------------------------------
\* The view at the top goes on.
LEMMA NowLogged ==
    ASSUME IInv, Logged, stack # <<>>, NEW step \in Steps, NEW reply \in Replies \cup {None},
           step \in Answering => reply \in Replies, Now(step, reply),
           UNCHANGED <<views, log, answer>>,
           step \in Early => Top.step \in Early,
           effects' # <<>> /\ ~late' => Rows(log, views, Len(stack))
    PROVE  Logged'
<1> DEFINE a == [Top EXCEPT !.step = step, !.reply = reply]
<1>1. stack \in Seq(Frames) /\ Top \in Frames /\ Top = stack[1]  BY DEF IInv, Typed, Top
<1>2. a \in Frames /\ a.resource = Top.resource /\ a.step = step  BY <1>1 DEF Frames
<1>3. stack' = <<a>> \o Tail(stack)  BY DEF Now
<1> HIDE DEF a
<1>4. /\ stack' \in Seq(Frames) /\ stack' # <<>> /\ Len(stack') = Len(stack) /\ Head(stack') = a
      /\ stack'[1] = a /\ \A j \in 2..Len(stack) : stack'[j] = stack[j]
      BY <1>1, <1>2, <1>3, NewTop
<1>5. \A i \in 1..Len(stack) : stack'[i].resource = stack[i].resource
  <2> SUFFICES ASSUME NEW i \in 1..Len(stack) PROVE stack'[i].resource = stack[i].resource
      OBVIOUS
  <2>1. CASE i = 1  BY <1>1, <1>2, <1>4, <2>1
  <2>2. CASE i # 1  BY <1>4, <2>2
  <2> QED BY <2>1, <2>2
<1>6. Top' = a  BY <1>4 DEF Top
<1> QED BY <1>2, <1>4, <1>5, <1>6 DEF Logged

\* The view at the top leaves dispatch, with or without a row.
LEMMA LeaveLogged ==
    ASSUME IInv, Logged, stack # <<>>, NEW r \in Replies, Leave(r), UNCHANGED views,
           log' \in Seq(LogRows),
           effects' # <<>> /\ ~late' => Rows(log', views, Len(stack) - 1),
           Len(stack) = 1 /\ r # Raised /\ Resources[views[1]].log => LastRow(log', r.status)
    PROVE  Logged'
<1>1. stack \in Seq(Frames) /\ stack' = Tail(stack) /\ Len(stack) \in Nat
      BY DEF IInv, Typed, Leave
<1>2. /\ stack' \in Seq(Frames) /\ Len(stack') = Len(stack) - 1
      /\ \A j \in 1..(Len(stack) - 1) : stack'[j] = stack[j + 1]
      BY <1>1, Popped
<1>3. stack' # <<>> => Top'.step = "called"  BY LeaveFrame DEF IInv
<1>4. Len(views) \in Nat /\ Len(stack) <= Len(views) /\ Len(stack) >= 1
      BY <1>1 DEF Logged
<1>5. ASSUME NEW i \in 1..Len(stack')
      PROVE  stack'[i].resource = views[(Len(stack') + 1) - i]
  <2>1. /\ i + 1 \in 1..Len(stack) /\ (Len(stack') + 1) - i = (Len(stack) + 1) - (i + 1)
        /\ stack'[i] = stack[i + 1]
        BY <1>1, <1>2
  <2> QED BY <2>1 DEF Logged
<1>6. views # <<>>  BY <1>4
<1>7. stack' = <<>> => Len(stack) = 1 /\ answer' = r
  <2>1. stack' = <<>> => Len(stack') = 0  OBVIOUS
  <2>2. stack' = <<>> => answer' = r  BY <1>1 DEF Leave
  <2> QED BY <1>1, <1>2, <2>1, <2>2
<1>8. Len(stack') <= Len(views)  BY <1>2, <1>4, <1>1
<1>9. Rows(log', views', Len(stack')) <=> Rows(log', views, Len(stack) - 1)  BY <1>2
<1> QED BY <1>3, <1>5, <1>6, <1>7, <1>8, <1>9 DEF Logged, Early

\* What fails after the effect needs no row.
LEMMA FailureLogged ==
    ASSUME IInv, Told, Logged, stack # <<>>, UNCHANGED <<effects, views>>, log' \in Seq(LogRows),
           Fail \/ (UNCHANGED late /\ effects = <<>>),
           \/ /\ UNCHANGED <<log, answer>>
              /\ \E status \in Nat : Now("report", Failure(status))
           \/ /\ UNCHANGED <<log, answer>>
              /\ Now("finish", Plain(500, TRUE)) \/ Now("emit", RpcError)
           \/ Leave(Raised)
    PROVE  Logged'
<1>1. ~(effects' # <<>> /\ ~late')
  <2>1. CASE Fail  BY <2>1, FailTells
  <2>2. CASE effects = <<>>  BY <2>2
  <2> QED BY <2>1, <2>2
<1>2. {"report", "finish", "emit"} \subseteq Steps \cap Answering /\ Early \cap Answering = {}
      BY DEF Steps, Answering, Early
<1>3. CASE Leave(Raised)  BY <1>1, <1>3, LeaveLogged, ReplyTypes
<1>4. ASSUME NEW step \in {"report", "finish", "emit"}, NEW reply \in Replies, Now(step, reply),
             UNCHANGED <<log, answer>>
      PROVE  Logged'
      BY <1>1, <1>2, <1>4, NowLogged
<1>5. ASSUME NEW status \in Nat, Now("report", Failure(status)), UNCHANGED <<log, answer>>
      PROVE  Logged'
  <2>1. Failure(status) \in Replies  BY ReplyTypes
  <2> QED BY <1>4, <1>5, <2>1
<1>6. Plain(500, TRUE) \in Replies /\ RpcError \in Replies  BY ReplyTypes
<1>7. CASE Now("finish", Plain(500, TRUE)) /\ UNCHANGED <<log, answer>>  BY <1>4, <1>6, <1>7
<1>8. CASE Now("emit", RpcError) /\ UNCHANGED <<log, answer>>  BY <1>4, <1>6, <1>8
<1> QED BY <1>3, <1>5, <1>7, <1>8

LEMMA BreakLogged ==
    ASSUME IInv, Told, Logged, stack # <<>>, UNCHANGED <<effects, views, log>>, Breaking,
           Fail \/ (UNCHANGED late /\ effects = <<>>)
    PROVE  Logged'
<1>1. log' \in Seq(LogRows)  BY DEF Logged
<1>2. 400 \in Nat  OBVIOUS
<1>3. \/ UNCHANGED answer /\ Now("report", Failure(400))
      \/ UNCHANGED answer /\ Now("finish", Plain(500, TRUE))
      \/ Leave(Raised)
      BY DEF Breaking, Break
<1> QED BY <1>1, <1>2, <1>3, FailureLogged

\* The view goes on to answer, and there is nothing to log yet.
LEMMA EffectLogged ==
    ASSUME IInv, Logged, stack # <<>>, Top.step \in Early, NEW step \in Steps,
           NEW reply \in Replies \cup {None}, step \in Answering => reply \in Replies,
           Now(step, reply), UNCHANGED <<views, log, answer>>
    PROVE  Logged'
<1>1. log = <<>> /\ Len(stack) = Len(views) /\ views \in Seq(Names)  BY DEF Logged
<1>2. Rows(log, views, Len(stack))  BY <1>1, NoRows
<1> QED BY <1>2, NowLogged

-----------------------------------------------------------------------------
\* The client's request, and a call that AutoJSONRPC passes on.
LEMMA ArriveLogged == ASSUME IInv, OneRequest, Logged, Arrive PROVE Logged'
<1>1. PICK n \in Names : \E v : /\ stack' = <<v>> /\ v.resource = n /\ v.step = "start"
                                 /\ views' = <<n>> /\ UNCHANGED <<log, answer, effects>>
      BY DEF Arrive, Receive, View
<1>1a. PICK v : /\ stack' = <<v>> /\ v.resource = n /\ v.step = "start"
               /\ views' = <<n>> /\ UNCHANGED <<log, answer, effects>>
      BY <1>1
<1>2. log = <<>> /\ answer = None /\ effects = <<>>  BY DEF Arrive, Logged, OneRequest
<1>3. /\ Len(stack') = 1 /\ stack'[1] = v /\ stack' # <<>>
      /\ views' \in Seq(Names) /\ Len(views') = 1 /\ views'[1] = n
      BY <1>1a
<1> QED BY <1>1a, <1>2, <1>3 DEF Logged

LEMMA CallViewLogged == ASSUME IInv, Told, Logged, stack # <<>>, CallView PROVE Logged'
<1>1. /\ Top.step = "handle" /\ effects = <<>> /\ log = <<>> /\ Len(stack) = Len(views)
      /\ UNCHANGED <<answer, effects, log, late>>
      BY DEF CallView, Calling, IInv, NothingYet, Logged, Early
<1> DEFINE c == Calls[Call]
           new == View(c.name[1], Method(c.name), c.data)
           old == [Top EXCEPT !.step = "called"]
<1>2. CASE c.params
  <2>1. /\ stack' = <<new, old>> \o Tail(stack) /\ views' = Append(views, c.name[1])
        /\ c.name[1] \in Names
        BY <1>2 DEF CallView, WellFormed
  <2>2. new.resource = c.name[1] /\ new.step = "start"  BY DEF View
  <2>3. old.resource = Top.resource  BY TopTyped DEF Frames
  <2>4. stack \in Seq(Frames) /\ views \in Seq(Names)  BY DEF IInv, Typed, Logged
  <2>5. PICK n \in Names : n = c.name[1]  BY <2>1
  <2> HIDE DEF c, new, old
  <2>6. /\ stack' # <<>> /\ Len(stack') = Len(stack) + 1
        /\ Head(stack') = new /\ stack'[1] = new /\ stack'[2] = old
        /\ \A j \in 3..(Len(stack) + 1) : stack'[j] = stack[j - 1]
        BY <2>1, <2>4
  <2>7. /\ views' \in Seq(Names) /\ Len(views') = Len(views) + 1 /\ views'[Len(views) + 1] = n
        /\ \A j \in 1..Len(views) : views'[j] = views[j]
        BY <2>1, <2>4, <2>5
  <2>8. Len(stack) \in Nat \ {0} /\ Top = stack[1]  BY <2>4 DEF Top
  <2>9. ASSUME NEW i \in 1..Len(stack')
        PROVE  stack'[i].resource = views'[(Len(stack') + 1) - i]
    <3>1. CASE i = 1  BY <1>1, <2>2, <2>5, <2>6, <2>7, <2>8, <3>1
    <3>2. CASE i # 1
      <4>1. /\ i - 1 \in 1..Len(stack) /\ (Len(stack') + 1) - i = (Len(stack) + 1) - (i - 1)
            /\ (Len(stack) + 1) - (i - 1) \in 1..Len(stack)
            BY <2>6, <2>8, <3>2
      <4>2. stack[i - 1].resource = views[(Len(stack) + 1) - (i - 1)]  BY <4>1 DEF Logged
      <4>3. stack'[i].resource = stack[i - 1].resource
        <5>1. CASE i = 2  BY <2>3, <2>6, <2>8, <5>1
        <5>2. CASE i # 2
          <6>1. i \in 3..(Len(stack) + 1)  BY <2>6, <2>8, <3>2, <5>2
          <6> QED BY <2>6, <6>1
        <5> QED BY <5>1, <5>2
      <4> QED BY <1>1, <2>7, <4>1, <4>2, <4>3
    <3> QED BY <3>1, <3>2
  <2>10. views' # <<>> /\ Len(stack') = Len(views')  BY <1>1, <2>6, <2>7, <2>8
  <2> QED BY <1>1, <2>6, <2>7, <2>9, <2>10 DEF Logged
<1>3. CASE ~c.params
  <2>1. Now("emit", RpcError) /\ UNCHANGED views  BY <1>3 DEF CallView
  <2>2. RpcError \in Replies /\ "emit" \in Steps /\ "handle" \in Early  BY ReplyTypes DEF Steps, Early
  <2> QED BY <1>1, <2>1, <2>2, EffectLogged
<1> QED BY <1>2, <1>3

\* A view ends: what a success leaves in the log, and what the client may rely on.
LEMMA FinishLogged == ASSUME IInv, Told, Logged, stack # <<>>, Finish PROVE Logged'
<1> DEFINE row == [view |-> Len(stack), method |-> request.method, status |-> Top.reply.status]
<1>1. /\ Top \in Frames /\ Top.step = "finish" /\ Top.reply \in Replies /\ request \in Requests
      /\ UNCHANGED <<effects, views>>
      BY TopTyped DEF Finish, Frames, Answering
<1>2. /\ stack \in Seq(Frames) /\ Len(stack) \in Nat \ {0} /\ views \in Seq(Names)
      /\ Top = stack[1] /\ Len(stack) \in 1..Len(views) /\ log \in Seq(LogRows)
      /\ views[Len(stack)] = Top.resource
  <2>1. stack \in Seq(Frames) /\ views \in Seq(Names) /\ Len(stack) <= Len(views)
        /\ log \in Seq(LogRows)
        BY DEF IInv, Typed, Logged
  <2>2. Len(stack) \in Nat \ {0} /\ Top = stack[1]  BY <2>1 DEF Top
  <2>3. 1 \in 1..Len(stack) /\ (Len(stack) + 1) - 1 = Len(stack)  BY <2>2
  <2>4. stack[1].resource = views[(Len(stack) + 1) - 1]  BY <2>3 DEF Logged
  <2> QED BY <2>1, <2>2, <2>3, <2>4
<1>3. row \in LogRows /\ row.view = Len(stack) /\ row.status = Top.reply.status
      BY <1>1, <1>2 DEF LogRows, Requests, Replies
<1> HIDE DEF row
<1>4. effects # <<>> /\ ~late => Rows(log, views, Len(stack))  BY DEF Logged
<1>5. Me = Resources[views[Len(stack)]]  BY <1>2 DEF Me
<1>6. CASE Leave(Top.reply) /\ UNCHANGED <<late, log>> /\ ~Me.log
  <2>1. effects # <<>> /\ ~late => Rows(log, views, Len(stack) - 1)
        BY <1>2, <1>4, <1>5, <1>6, RowNotNeeded
  <2>2. ~(Len(stack) = 1 /\ Resources[views[1]].log)  BY <1>5, <1>6
  <2> QED BY <1>1, <1>2, <1>6, <2>1, <2>2, LeaveLogged
<1>7. ASSUME log' = Append(log, row) PROVE log' \in Seq(LogRows)  BY <1>2, <1>3, <1>7
<1>8. CASE Leave(Top.reply) /\ UNCHANGED late /\ Me.log /\ log' = Append(log, row)
  <2>1. effects # <<>> /\ ~late => Rows(log', views, Len(stack) - 1)
        BY <1>2, <1>3, <1>4, <1>5, <1>8, RowAdded
  <2>2. Len(stack) = 1 => LastRow(log', Top.reply.status)
    <3>1. Len(log') = Len(log) + 1 /\ log'[Len(log) + 1] = row /\ Len(log) \in Nat
          BY <1>2, <1>3, <1>8
    <3>2. log' # <<>> /\ log'[Len(log')] = row  BY <3>1
    <3> QED BY <1>3, <3>2 DEF LastRow, Last
  <2> QED BY <1>1, <1>7, <1>8, <2>1, <2>2, LeaveLogged
<1>9. CASE Leave(Raised) /\ Fail /\ (UNCHANGED log \/ log' = Append(log, row))
      BY <1>1, <1>2, <1>7, <1>9, FailureLogged
<1> QED BY <1>6, <1>8, <1>9 DEF Finish, row

LEMMA StepLogged == ASSUME IInv, Told, Logged, stack # <<>>, Step PROVE Logged'
<1>1. /\ Top.step \in Early => effects = <<>> /\ log = <<>>
      /\ log \in Seq(LogRows)
      BY DEF IInv, NothingYet, Logged, Early
<1>2. effects # <<>> /\ ~late => Rows(log, views, Len(stack))  BY DEF Logged
<1>3. /\ {"check", "handle", "report", "finish", "emit"} \subseteq Steps
      /\ {"emit", "report", "finish"} \cap Early = {} /\ {"check", "handle"} \cap Answering = {}
      /\ {"start", "check", "handle"} = Early
      BY DEF Steps, Early, Answering
<1>4. CASE Start
  <2>1. Top.step \in Early /\ UNCHANGED <<effects, views, log>>  BY <1>3, <1>4 DEF Start
  <2>2. CASE Leave(Raised) /\ Fail  BY <1>1, <2>1, <2>2, FailureLogged
  <2>3. CASE Now("check", None) /\ UNCHANGED answer  BY <1>3, <2>1, <2>3, EffectLogged
  <2> QED BY <1>4, <2>2, <2>3 DEF Start
<1>5. CASE Check
  <2>1. Top.step \in Early /\ UNCHANGED <<effects, views, log>>
        BY <1>3, <1>5 DEF Check
  <2>2. CASE UNCHANGED <<answer, late>> /\ Now("handle", None)
        BY <1>3, <2>1, <2>2, EffectLogged
  <2>3. CASE UNCHANGED <<answer, late>> /\ \E status \in Nat : Now("report", Failure(status))
        BY <1>1, <2>1, <2>3, FailureLogged
  <2>4. 400 \in Nat /\ 403 \in Nat /\ 405 \in Nat  OBVIOUS
  <2>5. CASE Break /\ Fail
    <3>1. Breaking  BY <2>5 DEF Breaking
    <3> QED BY <1>1, <2>1, <2>5, <3>1, BreakLogged
  <2> QED BY <1>5, <2>2, <2>3, <2>4, <2>5 DEF Check
<1>6. CASE Handle
  <2>1. Top.step \in Early /\ UNCHANGED <<views, log, late>>  BY <1>3, <1>6 DEF Handle
  <2>2. CASE UNCHANGED effects /\ Breaking  BY <1>1, <2>1, <2>2, BreakLogged
  <2>3. ASSUME NEW reply \in {Content, Plain(200, TRUE), Plain(200, FALSE)}, Now("emit", reply),
               UNCHANGED answer
        PROVE  Logged'
    <3>1. reply \in Replies  BY <2>3, GoodReplies, Zenon
    <3> QED BY <1>3, <2>1, <2>3, <3>1, EffectLogged
  <2> QED BY <1>6, <2>2, <2>3 DEF Handle, Breaking
<1>7. CASE Run
  <2>1. Top.step \in Early /\ UNCHANGED <<views, log, answer, late>>
        BY <1>3, <1>7 DEF Run, Calling
  <2>2. Now("emit", Content) \/ Now("emit", RpcError)  BY <1>7 DEF Run
  <2>3. Content \in Replies /\ RpcError \in Replies  BY ReplyTypes
  <2> QED BY <1>3, <2>1, <2>2, <2>3, EffectLogged
<1>8. CASE RefuseCall
  <2>1. Top.step \in Early /\ UNCHANGED <<views, log, answer, late>> /\ Now("emit", RpcError)
        BY <1>3, <1>8 DEF RefuseCall, Calling
  <2> QED BY <1>3, <2>1, ReplyTypes, EffectLogged
<1>9. CASE CallView  BY <1>9, CallViewLogged
<1>10. CASE Return
  <2>1. /\ Now("emit", Taken(value)) /\ UNCHANGED <<answer, views, effects, log, late>>
        /\ value \in Replies
        BY <1>10 DEF Return, IInv, Typed
  <2>2. PICK r \in Replies : r = Taken(value)  BY <2>1, TakenTells
  <2> QED BY <1>2, <1>3, <2>1, <2>2, NowLogged
<1>11. CASE Emit
  <2>1. UNCHANGED <<effects, views, log>>  BY <1>11 DEF Emit
  <2>2. CASE Fail /\ Breaking  BY <1>1, <2>1, <2>2, BreakLogged
  <2>3. CASE Fail /\ Leave(Raised)  BY <1>1, <2>1, <2>3, FailureLogged
  <2> DEFINE sent == IF Top.reply.raw THEN Top.reply ELSE [Top.reply EXCEPT !.type = Emitter]
  <2>4. CASE Top.step \in Answering /\ Now("finish", sent) /\ UNCHANGED <<late, answer>>
    <3>1. Top.reply \in Replies  BY <2>4, TopTyped DEF Frames
    <3>2. sent \in Replies  BY <3>1, EmitterType DEF Replies
    <3> HIDE DEF sent
    <3> QED BY <1>2, <1>3, <2>1, <2>4, <3>2, NowLogged
  <2> QED BY <1>11, <2>2, <2>3, <2>4 DEF Emit, Answering, Breaking
<1>12. CASE Finish  BY <1>12, FinishLogged
<1> QED BY <1>4, <1>5, <1>6, <1>7, <1>8, <1>9, <1>10, <1>11, <1>12 DEF Step

\* A success is one that the access log knows of: it has a row of every view that logs,
\* the inner ones before the outer; and whatever response the client gets, the row of
\* the view it has asked comes last and has its status (LogIsComplete).
THEOREM LogTellsSuccess == Spec => []LogIsComplete
<1>1. Init => Logged
  <2> SUFFICES ASSUME Init PROVE Logged  OBVIOUS
  <2>1. stack = <<>> /\ answer = None /\ views = <<>> /\ effects = <<>> /\ log = <<>> /\ late = FALSE
        BY DEF Init
  <2> QED BY <2>1 DEF Logged
<1>2. OneRequest /\ IInv /\ Told /\ Logged /\ [Next]_vars => Logged'
  <2> SUFFICES ASSUME OneRequest, IInv, Told, Logged, [Next]_vars PROVE Logged'  OBVIOUS
  <2>1. CASE Arrive  BY <2>1, ArriveLogged
  <2>2. CASE Step  BY <2>2, StepLogged DEF Step
  <2>3. CASE UNCHANGED vars  BY <2>3 DEF vars, Logged, Top
  <2> QED BY <2>1, <2>2, <2>3 DEF Next
<1>3. Told /\ Logged => LogIsComplete
  <2> SUFFICES ASSUME Told, Logged, answer # None, stack = <<>>
      PROVE  /\ Success(answer) =>
                   /\ {log[i].view : i \in DOMAIN log} = {v \in DOMAIN views : Resources[views[v]].log}
                   /\ \A i, j \in DOMAIN log : i < j => log[i].view > log[j].view
             /\ (answer # Raised /\ Resources[views[1]].log) =>
                   log # <<>> /\ Last(log).view = 1 /\ Last(log).status = answer.status
      BY DEF LogIsComplete
  <2>1. ASSUME Success(answer) PROVE Rows(log, views, 0)
    <3>1. effects # <<>> /\ ~late  BY <2>1 DEF Told, Tells
    <3> QED BY <3>1 DEF Logged
  <2>2. ASSUME Rows(log, views, 0)
        PROVE  {log[i].view : i \in DOMAIN log} = {v \in DOMAIN views : Resources[views[v]].log}
    <3>1. DOMAIN views = (0 + 1)..Len(views)  BY DEF Logged
    <3> QED BY <2>2, <3>1 DEF Rows
  <2>3. Rows(log, views, 0) => \A i, j \in DOMAIN log : i < j => log[i].view > log[j].view
        BY DEF Rows
  <2>4. (answer # Raised /\ Resources[views[1]].log) => LastRow(log, answer.status)
        BY DEF Logged
  <2> QED BY <2>1, <2>2, <2>3, <2>4 DEF LastRow
<1> QED BY <1>1, <1>2, <1>3, Invariant, OneRequestInvariant, ToldInvariant, PTL DEF Spec
=============================================================================
