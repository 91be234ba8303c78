-------------------------------- MODULE Rpc --------------------------------
(***************************************************************************)
(* Remote calls (adrest/resources/rpc.py): an AutoJSONRPC resource takes a *)
(* call from the request, writes the call into that same request and has   *)
(* another view of the Api dispatch it, which may be an RPC resource       *)
(* again; an RPCResource runs a function of its scheme.                    *)
(*                                                                         *)
(* stack holds the views that are in dispatch, the innermost first.  All   *)
(* share one request.  A view's reply is what has become of it so far; an  *)
(* exception that leaves dispatch goes to the view that has called it.     *)
(*                                                                         *)
(* Parameters (of a query, a form, a body) are told by what an RPC         *)
(* resource finds in them: a call under the name payload, a call spread    *)
(* over their fields, one in JSON, or none.                                *)
(***************************************************************************)
EXTENDS Naturals, SequencesExt

CONSTANTS
    Resources,  \* api.resources: of each name the record described below
    Calls,      \* calls a client may send, numbered: of each the record described below
    Schemes,    \* of each scheme, a module's dotted name, its functions by their __name__
    Garbage,    \* JSON that cannot be read
    Dotted,     \* a method with a dot in it
    None

\* A resource: its kind, "rest", "auto" or "scheme", and its scheme; its methods,
\* emitters (media types, the default one first) and log from Meta; and whether it
\* was registered with emitters of its own or the Api's, which are an attribute then.
\* A call: its name split at the dots (a method in upper case, as rpc_call makes it),
\* data, headers (the type to accept, if any), and whether its params are keyword
\* arguments.  The name of a scheme is split at the dots as well.
Names == DOMAIN Resources
Holds(as, call) == [as |-> as, call |-> call]
Nothing == Holds("nothing", None)
Parameters == {Holds("nothing", None), Holds("own", None), Holds("bad", None)}
              \cup {Holds(as, c) : as \in {"payload", "fields", "json"}, c \in DOMAIN Calls}

ASSUME RpcAssumption ==
    /\ \A n \in Names :
          /\ Resources[n].kind \in {"rest", "auto", "scheme"}
          /\ Resources[n].emitters \in Seq(STRING) /\ Resources[n].emitters # <<>>
          /\ Resources[n].kind = "scheme" => Resources[n].scheme \in Seq(STRING)
          /\ Dotted \notin Resources[n].methods
    /\ \A s \in DOMAIN Schemes : s \in Seq(STRING) /\ s # <<>> /\ Schemes[s] \subseteq STRING
    /\ \A c \in DOMAIN Calls :
          Calls[c].name \in Seq(STRING) /\ Calls[c].data \in Parameters
    /\ {None, Garbage} \cap DOMAIN Calls = {} /\ None \notin {"form", "json"}

VARIABLES
    stack,    \* views in dispatch: resource, step, reply, and what each was asked
    request,  \* the request they share
    value,    \* what the last view to end returns: a reply, Raised, or None
    answer,   \* what the client gets
    views,    \* history: resources of the views called
    effects,  \* history: what handlers and functions have done
    log,      \* rows of Access
    late      \* history: something failed after a handler was done

vars == <<stack, request, value, answer, views, effects, log, late>>

Top == Head(stack)
Me == Resources[Top.resource]

-----------------------------------------------------------------------------
\* Replies.  raw: a plain HttpResponse, which is never serialized.  error: the body
\* says so.  text: the content can be decoded.
Reply(raw, status, error, text) ==
    [raw |-> raw, status |-> status, error |-> error, text |-> text, type |-> None]
Content == Reply(FALSE, 200, FALSE, TRUE)
Failure(status) == Reply(FALSE, status, TRUE, TRUE)
Plain(status, text) == Reply(TRUE, status, status # 200, text)
Raised == Reply(TRUE, 0, TRUE, TRUE)    \* none, but an exception

Success(r) == r.status = 200 /\ ~r.error

\* The view at the top goes on to step, with reply.
Now(step, reply) == stack' = <<[Top EXCEPT !.step = step, !.reply = reply]>> \o Tail(stack)

\* It leaves dispatch with r.
Leave(r) ==
    /\ stack' = Tail(stack)
    /\ IF Tail(stack) = <<>> THEN answer' = r /\ UNCHANGED value
       ELSE value' = r /\ UNCHANGED answer

\* Something failed: after a handler was done, or before.
Fail == late' = (late \/ effects # <<>>)

\* handle_exception of whatever is no HttpError, AssertionError or ValidationError: an
\* answer, or under ADREST_DEBUG the exception again.
Break ==
    \/ Now("finish", Plain(500, TRUE)) /\ UNCHANGED <<value, answer>>
    \/ Leave(Raised)

View(resource, method, data) ==
    [resource |-> resource, step |-> "start", reply |-> None, method |-> method, data |-> data]

-----------------------------------------------------------------------------
Init ==
    /\ stack = <<>> /\ value = None /\ answer = None
    /\ request = [method |-> "GET", get |-> Nothing, post |-> Nothing, body |-> Nothing,
                  type |-> None, accept |-> None]
    /\ views = <<>> /\ effects = <<>> /\ log = <<>> /\ late = FALSE

\* A client's request to an RPC resource: its query, or its body of the content
\* type t, holds a call or something else.
Receive(n, method, t, c) ==
    LET held == Holds(CASE t = "form" -> "fields" [] t = "json" -> "json" [] OTHER -> "payload", c)
    IN  /\ request' = [method |-> method, type |-> t, accept |-> None,
                       get |-> IF t = None THEN held ELSE Nothing,
                       body |-> IF t = None THEN Nothing ELSE held,
                       post |-> IF t = "form" THEN held ELSE Nothing]
        /\ stack' = <<View(n, method, held)>>
        /\ views' = <<n>>
        /\ UNCHANGED <<value, answer, effects, log, late>>

\* fix_request: as rpc_call sets no request.PATCH, request.POST is read from the
\* body again, now as a form.  Of a call's parameters nothing is left.
Fix ==
    IF request.method = "PATCH"
    THEN [request EXCEPT !.post = IF request.body.as = "fields" THEN request.body ELSE Nothing]
    ELSE request

\* dispatch begins; a receiver of the started signals may raise.
Start ==
    /\ Top.step = "start"
    /\ request' = Fix
    /\ \/ Now("check", None) /\ UNCHANGED <<value, answer, late>>
       \/ Leave(Raised) /\ Fail
    /\ UNCHANGED <<views, effects, log>>

\* ParserMixin.parse: the body is parsed as its content type says; as the default
\* of the resource, which is JSON for RPC, if there is none.  Of a form, the fields are
\* the call: one under the name payload is none.
Json == request.type = "json" \/ (request.type = None /\ Me.kind # "rest")

Parsed ==
    IF request.method # "POST" THEN None
    ELSE IF Json THEN IF request.body.as = "json" THEN request.body.call ELSE Garbage
    ELSE IF request.post.as = "fields" THEN request.post.call ELSE None

\* Everything that may refuse the request before the handler is called, or fail there:
\* an authenticator, or get_resources on a body that is JSON and no dictionary.
Check ==
    /\ Top.step = "check"
    /\ \/ /\ request.method \notin Me.methods /\ Now("report", Failure(405))
          /\ UNCHANGED <<value, answer, late>>
       \/ /\ request.method \in Me.methods
          /\ \/ Now("report", Failure(403))
             \/ Now("report", Failure(400)) /\ Parsed = Garbage
             \/ Now("handle", None) /\ Parsed # Garbage
          /\ UNCHANGED <<value, answer, late>>
       \/ request.method \in Me.methods /\ Break /\ Fail
    /\ UNCHANGED <<request, views, effects, log>>

\* A handler of a REST resource, or options of any, does what it is asked and
\* returns content or a response of its own; or it fails and has done nothing.
Handle ==
    LET data == IF request.method \in {"POST", "PUT", "PATCH"} THEN request.post ELSE request.get
    IN  /\ Top.step = "handle" /\ (request.method = "OPTIONS" \/ Me.kind = "rest")
        /\ \/ /\ \E reply \in IF request.method = "OPTIONS" THEN {Plain(200, TRUE)}
                              ELSE {Content, Plain(200, TRUE), Plain(200, FALSE)} :
                    Now("emit", reply)
              /\ effects' = Append(effects, [view |-> Top, does |-> <<request.method>>, data |-> data])
              /\ UNCHANGED <<value, answer>>
           \/ /\ request.method # "OPTIONS"
              /\ \/ Now("report", Failure(400)) /\ UNCHANGED <<value, answer>>
                 \/ Break
              /\ UNCHANGED effects
        /\ UNCHANGED <<request, views, log, late>>

-----------------------------------------------------------------------------
\* RPCResource.handle_request: the call that payload holds, or one's data.
Call == IF request.method = "GET"
        THEN IF request.get.as = "payload" THEN request.get.call ELSE None
        ELSE Parsed

\* What has been read and is a dictionary with a method.
IsCall(c) == c \notin {None, Garbage}

Calling(kind) ==
    Top.step = "handle" /\ request.method # "OPTIONS" /\ Me.kind = kind

\* handle_request turns every exception into an answer with status 200.
RpcError == [Content EXCEPT !.error = TRUE]

\* configure_rpc: one table of all RPC resources.  A function stands there under the
\* name of its scheme, a dot and its own.
Methods == UNION {{Append(s, f) : f \in Schemes[s]} : s \in DOMAIN Schemes}

\* RPCResource.rpc_call: the function that stands under the resource's scheme, a dot
\* and the name called, which may have dots itself, returns or raises.
Run ==
    /\ Calling("scheme")
    /\ \/ /\ IsCall(Call) /\ Me.scheme \o Calls[Call].name \in Methods
          /\ effects' = Append(effects, [view |-> Top, does |-> Me.scheme \o Calls[Call].name,
                                         data |-> Calls[Call].data])
          /\ Now("emit", Content)
       \/ Now("emit", RpcError) /\ UNCHANGED effects
    /\ UNCHANGED <<request, value, answer, views, log, late>>

\* The method called: what follows the first dot.
Method(name) == IF Len(name) = 2 THEN name[2] ELSE Dotted

\* What rpc_call looks at before it changes the request.
WellFormed(c) ==
    /\ Len(c.name) >= 2 /\ c.name[1] \in Names
    /\ c.data.as # "bad" /\ c.headers # "bad"

RefuseCall ==
    /\ Calling("auto") /\ ~(IsCall(Call) /\ WellFormed(Calls[Call]))
    /\ Now("emit", RpcError)
    /\ UNCHANGED <<request, value, answer, views, effects, log, late>>

\* Mutant: the content type is the one of the client's request.
WrittenTyped(c) ==
    [request EXCEPT !.get = c.data, !.post = c.data, !.method = Method(c.name),
                    !.accept = IF c.headers = None THEN request.accept ELSE c.headers]

\* Mutant: only GET is replaced.
WrittenGet(c) ==
    [request EXCEPT !.get = c.data, !.method = Method(c.name), !.type = IF @ = None THEN None ELSE "form",
                    !.accept = IF c.headers = None THEN request.accept ELSE c.headers]

\* The call, written into the request.  A request without content has no content
\* type, whatever META says.
Written(c) ==
    [request EXCEPT !.get = c.data, !.post = c.data, !.method = Method(c.name),
                    !.type = IF @ = None THEN None ELSE "form",
                    !.accept = IF c.headers = None THEN request.accept ELSE c.headers]

\* AutoJSONRPC.rpc_call and Api.call: the view of the resource called dispatches
\* the request, unless the call's params are no keyword arguments.
CallView ==
    LET c == Calls[Call]
    IN  /\ Calling("auto") /\ IsCall(Call) /\ WellFormed(c)
        /\ request' = Written(c)
        /\ IF c.params
           THEN /\ stack' = <<View(c.name[1], Method(c.name), c.data),
                              [Top EXCEPT !.step = "called"]>> \o Tail(stack)
                /\ views' = Append(views, c.name[1])
           ELSE Now("emit", RpcError) /\ UNCHANGED views
        /\ UNCHANGED <<value, answer, effects, log, late>>

\* Mutant: what is no error by its status is content.
TakenAsContent(r) == IF r.raw THEN r ELSE Content

\* What rpc_call makes of the reply r of the view it has called.
Taken(r) ==
    IF r = Raised THEN RpcError
    ELSE IF r.raw THEN r
    ELSE IF r.type \in ToSet(Me.emitters) THEN [r EXCEPT !.raw = TRUE, !.type = None]
    ELSE IF r.status = 200 THEN [r EXCEPT !.type = None]
    ELSE RpcError

Return ==
    /\ stack # <<>> /\ Top.step = "called" /\ value # None
    /\ Now("emit", Taken(value)) /\ value' = None
    /\ UNCHANGED <<request, answer, views, effects, log, late>>

-----------------------------------------------------------------------------
\* EmitterMixin.determine_emitter
Emitter ==
    IF request.method = "OPTIONS" THEN "json"
    ELSE IF request.accept \in ToSet(Me.emitters) THEN request.accept
    ELSE Me.emitters[1]

\* Mutant: what fails in the report of an error is handled like any failure.
EmitAgain ==
    /\ Top.step \in {"emit", "report"}
    /\ \/ Now("finish", IF Top.reply.raw THEN Top.reply ELSE [Top.reply EXCEPT !.type = Emitter])
       \/ Now(IF Top.step = "emit" THEN "report" ELSE "emit", Failure(400)) /\ ~Top.reply.raw
    /\ Fail /\ UNCHANGED <<value, answer, request, views, effects, log>>

\* EmitterMixin.emit: a plain response is left alone, anything else serialized.  What
\* fails there is an error to report, and what fails in the report leaves dispatch.
Emit ==
    /\ Top.step \in {"emit", "report"}
    /\ \/ /\ Now("finish", IF Top.reply.raw THEN Top.reply ELSE [Top.reply EXCEPT !.type = Emitter])
          /\ UNCHANGED <<value, answer, late>>
       \/ /\ Top.step = "emit" /\ ~Top.reply.raw
          /\ \/ Now("report", Failure(400)) /\ UNCHANGED <<value, answer>>
             \/ Break
          /\ Fail
       \/ /\ Top.step = "report"
          /\ Leave(Raised) /\ Fail
    /\ UNCHANGED <<request, views, effects, log>>

\* save_log names the emitters of a resource whose content it cannot decode by an
\* attribute that only a registration with emitters sets.
Logs == Top.reply.text \/ Me.given

\* Mutant: a row that cannot be written is left out.
FinishSilently ==
    /\ Top.step = "finish"
    /\ \E ok \in BOOLEAN, receivers \in BOOLEAN :
          /\ log' = IF Me.log /\ ok /\ Logs
                    THEN Append(log, [view |-> Len(stack), method |-> request.method,
                                      status |-> Top.reply.status])
                    ELSE log
          /\ IF receivers THEN Leave(Top.reply) /\ UNCHANGED late ELSE Leave(Raised) /\ Fail
    /\ UNCHANGED <<request, views, effects>>

\* The receivers of the finished signals, save_log first: what they raise leaves
\* dispatch.
Finish ==
    /\ Top.step = "finish"
    /\ \/ /\ ~Me.log /\ UNCHANGED log
          /\ Leave(Top.reply) /\ UNCHANGED late
       \/ /\ Me.log /\ Logs
          /\ log' = Append(log, [view |-> Len(stack), method |-> request.method,
                                 status |-> Top.reply.status])
          /\ \/ Leave(Top.reply) /\ UNCHANGED late
             \/ Leave(Raised) /\ Fail
       \/ UNCHANGED log /\ Leave(Raised) /\ Fail
    /\ UNCHANGED <<request, views, effects>>

Step ==
    /\ stack # <<>>
    /\ \/ Start \/ Check \/ Handle \/ Run \/ RefuseCall \/ CallView
       \/ Return \/ Emit \/ Finish

\* One request, of which the client hears the end.
Arrive ==
    /\ views = <<>>
    /\ \E n \in Names, m \in {"GET", "POST", "OPTIONS"}, t \in {None, "form", "json"},
          c \in DOMAIN Calls \cup {None, Garbage} :
          /\ Resources[n].kind # "rest"
          /\ (m = "POST") = (t # None) /\ (t = "form" => c # Garbage)
          /\ Receive(n, m, t, c)

Next == Arrive \/ Step

Spec == Init /\ [][Next]_vars /\ WF_vars(Step)

-----------------------------------------------------------------------------
\* However deep a call is nested, at most one handler or function does something,
\* and that is what the innermost call asks for: that method of that resource with
\* those parameters (except PATCH, whose parameters are lost in fix_request), or
\* that function: the one whose full name is the resource's scheme, a dot and the
\* name called.  (With dots in it, that may be one of a scheme inside this scheme's
\* package, which a resource of its own has put into the common table, rpc.py:54.)
DoneAsAsked ==
    /\ Len(effects) <= 1
    /\ \A i \in DOMAIN effects :
          LET e == effects[i]
              r == Resources[e.view.resource]
              call == Calls[e.view.data.call]
              m == e.view.method
          IN  \/ /\ r.kind = "rest" \/ m = "OPTIONS"
                 /\ e.does = <<m>> /\ m \in r.methods
                 /\ e.data = e.view.data \/ m = "PATCH"
              \/ /\ r.kind = "scheme" /\ e.does = r.scheme \o call.name
                 /\ e.does \in Methods /\ e.data = call.data

\* The client is told of a success exactly if something has been done and nothing
\* failed after that, whichever views the answer has come through
\* (rpc.py:112, 184-193).
AnswerTellsEffect ==
    (answer # None /\ stack = <<>>) => (Success(answer) <=> effects # <<>> /\ ~late)

\* Every view works on the call that the next outer one was asked to make, so that
\* calls through AutoJSONRPC itself come to an end.
DescendsIntoCall ==
    \A i \in 1..(Len(stack) - 1) :
        LET c == stack[i + 1].data.call
            call == Calls[c]
        IN  /\ IsCall(c) /\ call.data = stack[i].data
            /\ call.name[1] = stack[i].resource /\ Method(call.name) = stack[i].method

\* A success is one that the access log knows of: it has a row of every view that
\* logs, the inner ones before the outer; and whatever response the client gets, the
\* row of the view it has asked comes last and has its status.
LogIsComplete ==
    (answer # None /\ stack = <<>>) =>
        /\ Success(answer) =>
              /\ {log[i].view : i \in DOMAIN log} = {v \in DOMAIN views : Resources[views[v]].log}
              /\ \A i, j \in DOMAIN log : i < j => log[i].view > log[j].view
        /\ (answer # Raised /\ Resources[views[1]].log) =>
              log # <<>> /\ Last(log).view = 1 /\ Last(log).status = answer.status

\* Every request is answered, or its exception leaves dispatch.
Answered == stack # <<>> ~> stack = <<>>
=============================================================================
