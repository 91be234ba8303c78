------------------------------- MODULE MCAuth -------------------------------
(***************************************************************************)
(* An instance of Auth for TLC.                                            *)
(***************************************************************************)
EXTENDS Auth

CONSTANTS u1, u2, k1, k2

MCUsers == {u1, u2}
MCKeys == {k1, k2}

\* Those that look at request.user after those that set it, and before;
\* and two long chains.
MCChains ==
    {<<"User", "Anonymous">>, <<"User", "UserLoggedIn">>,
     <<"AccessKey", "UserLoggedIn">>, <<"UserLoggedIn", "User">>,
     <<"Basic", "AccessKey", "UserLoggedIn", "Anonymous">>,
     <<"UserLoggedIn", "User", "AccessKey", "Basic">>}

MCHeaders ==
    {Nothing, Malformed, <<"Basic", u1, TRUE>>, <<"Basic", u1, FALSE>>, <<"Token", k1>>}

MCForms ==
    {[login |-> l, key |-> Nothing] : l \in {Nothing, <<u2, TRUE>>, <<u2, FALSE>>}}
    \cup {[login |-> Nothing, key |-> k2]}
=============================================================================
