------------------------------- MODULE MCRpc -------------------------------
(***************************************************************************)
(* An instance of Rpc for TLC: three REST resources, of which one has no   *)
(* emitters of its registration and one is not logged, AutoJSONRPC and an  *)
(* RPC resource with a scheme; there is another scheme, and one inside     *)
(* that resource's.                                                        *)
(***************************************************************************)
EXTENDS Rpc

Rest(methods, emitters, logs, given) ==
    [kind |-> "rest", methods |-> methods, emitters |-> emitters, log |-> logs, given |-> given]

MCResources ==
    [book |-> Rest({"GET", "POST", "PATCH", "OPTIONS"}, <<"xml", "json">>, TRUE, TRUE),
     note |-> Rest({"GET", "PUT"}, <<"json">>, TRUE, FALSE),
     map |-> Rest({"GET"}, <<"xml">>, FALSE, TRUE),
     auto |-> [kind |-> "auto", methods |-> {"GET", "POST", "OPTIONS"},
               emitters |-> <<"jsonp", "json">>, log |-> TRUE, given |-> TRUE],
     rpc2 |-> [kind |-> "scheme", scheme |-> <<"rpc", "dummy">>, methods |-> {"GET", "POST"},
               emitters |-> <<"json", "jsonp">>, log |-> TRUE, given |-> TRUE]]

MCSchemes == (<<"rpc", "dummy">> :> {"method1", "method2"}) @@ (<<"rpc">> :> {"secret"})
             @@ (<<"rpc", "dummy", "inner">> :> {"method1"})

ACall(name, data) == [name |-> name, data |-> data, headers |-> None, params |-> TRUE]

Own == Holds("own", None)

Simple ==
    <<ACall(<<"book", "GET">>, Own), ACall(<<"book", "POST">>, Own), ACall(<<"book", "PATCH">>, Own),
      ACall(<<"book", "OPTIONS">>, Own), ACall(<<"book", "DELETE">>, Own),
      ACall(<<"note", "GET">>, Own), ACall(<<"note", "PUT">>, Own), ACall(<<"map", "GET">>, Own),
      [ACall(<<"book", "GET">>, Own) EXCEPT !.headers = "json"],
      ACall(<<"method1">>, Own), ACall(<<"inner", "method1">>, Own), ACall(<<"secret">>, Own),
      ACall(<<"book", "GET", "GET">>, Own),
      \* none of these can be made:
      ACall(<<"nothing", "GET">>, Own), ACall(<<"book", "POST">>, Holds("bad", None)),
      [ACall(<<"book", "POST">>, Own) EXCEPT !.headers = "bad"],
      [ACall(<<"book", "POST">>, Own) EXCEPT !.params = FALSE]>>

\* Each simple call by way of the RPC resource n.
Via(n, m, as) == [i \in DOMAIN Simple |-> ACall(<<n, m>>, Holds(as, i))]

Once == Via("auto", "POST", "fields") \o Via("auto", "POST", "payload") \o Via("auto", "GET", "payload")
        \o Via("rpc2", "POST", "fields") \o Via("rpc2", "GET", "payload")

\* And those of the first kind by way of AutoJSONRPC once more.
Twice == [i \in DOMAIN Simple |-> ACall(<<"auto", "POST">>, Holds("fields", Len(Simple) + i))]

MCCalls == Simple \o Once \o Twice
=============================================================================
