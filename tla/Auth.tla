-------------------------------- MODULE Auth --------------------------------
(***************************************************************************)
(* Who a request comes from (adrest/mixin/auth.py, adrest/utils/auth.py)   *)
(* and the access keys it may show (adrest/models.py).                     *)
(*                                                                         *)
(* A view tries the authenticators of its resource one after the other.    *)
(* They share the request: some leave request.user as they have set it     *)
(* even when they fail.  A view may call another one with the same request *)
(* (AutoJSONRPC), whose authenticators find request.user as the first left *)
(* it, and other credentials.  Meanwhile users and keys change.            *)
(*                                                                         *)
(* request.user holds the user as it was read: its name, and whether it    *)
(* was active then.  Lazy stands for the session's user not yet read.      *)
(***************************************************************************)
EXTENDS Naturals, Sequences

CONSTANTS
    Users,         \* accounts that may exist
    AccessKeys,    \* values of access keys
    Chains,        \* Meta.authenticators of the resources
    Headers,       \* values of the Authorization header
    Forms,         \* credentials in the parameters: login and key
    AllowOptions,  \* ADREST_ALLOW_OPTIONS
    AutoCreate,    \* ADREST_AUTO_CREATE_ACCESSKEY
    MaxChanges,    \* bound: changes of the database during a request
    Guest,         \* django's AnonymousUser
    Address,       \* REMOTE_ADDR
    Malformed,     \* an Authorization: Basic that cannot be decoded
    Lazy,
    Nothing        \* Python's None

Authenticators == {"Anonymous", "UserLoggedIn", "Basic", "User", "AccessKey"}
Logins == {Nothing} \cup (Users \X BOOLEAN)   \* a name, and whether the password fits
AnyHeader ==
    {Nothing, Malformed} \cup ({"Basic"} \X Users \X BOOLEAN) \cup ({"Token"} \X AccessKeys)
AnyForm == [login : Logins, key : AccessKeys \cup {Nothing}]
UserValues == {Nothing, Lazy} \cup [name : Users \cup {Guest}, active : BOOLEAN]

ASSUME AuthAssumption ==
    /\ Chains \subseteq Seq(Authenticators) /\ <<>> \notin Chains
    /\ Headers \subseteq AnyHeader /\ Forms \subseteq AnyForm
    /\ AllowOptions \in BOOLEAN /\ AutoCreate \in BOOLEAN /\ MaxChanges \in Nat
    /\ Guest \notin Users /\ Address \notin Users /\ Nothing \notin Users
    /\ {Nothing, Lazy} \cap [name : Users \cup {Guest}, active : BOOLEAN] = {}
    /\ Nothing # Lazy /\ Nothing \notin AccessKeys /\ AccessKeys \cap AnyHeader = {}
    /\ Malformed # Nothing
    /\ {Nothing, Malformed} \cap
          (({"Basic"} \X Users \X BOOLEAN) \cup ({"Token"} \X AccessKeys)) = {}
    /\ Nothing \notin Users \X BOOLEAN

VARIABLES
    users,       \* accounts in the database
    active,      \* those with is_active
    keys,        \* rows of AccessKey: user and key
    newcomers,   \* users saved whose post_save receiver has not run
    changes,     \* number of changes others have made
    session,     \* the session's user; Nothing: no session middleware
    user,        \* request.user
    header,      \* request.META["HTTP_AUTHORIZATION"]
    form,        \* what request.REQUEST has of login and key
    options,     \* request.method = "OPTIONS"
    chain,       \* authenticators of the view's resource
    turn,        \* the one to be tried
    stage,       \* "idle", "trying", "accepted", "refused" (401), "error" (500)
    auth,        \* self.auth
    identifier,  \* self.identifier
    nested,      \* the view has been called by another one
    entry        \* history: request.user when the view was called

request == <<session, user, header, form, options>>
database == <<users, active, keys, newcomers, changes>>
view == <<chain, turn, stage, auth, identifier, nested, entry>>
authVars == <<database, request, view>>

AuthTypeOK ==
    /\ users \subseteq Users /\ active \subseteq users /\ newcomers \subseteq users
    /\ keys \subseteq users \X AccessKeys /\ changes \in 0..MaxChanges
    /\ session \in users \cup {Guest, Nothing} /\ user \in UserValues
    /\ header \in AnyHeader /\ form \in AnyForm /\ options \in BOOLEAN
    /\ chain \in Chains \cup {<<>>} /\ turn \in Nat /\ (stage = "trying" => turn \in DOMAIN chain)
    /\ stage \in {"idle", "trying", "accepted", "refused", "error"}
    /\ auth \in Authenticators \cup {Nothing} /\ identifier \in Users \cup {Guest, Address}
    /\ nested \in BOOLEAN /\ entry \in UserValues

-----------------------------------------------------------------------------
IsUser(u) == u \notin {Nothing, Lazy}

\* A user that is there, and was active when it was read.
Active(u) == IsUser(u) /\ u.active

\* A user as it is in the database.
Read(name) == [name |-> name, active |-> name \in active]

\* django's lazy request.user
Loaded(u) == IF u = Lazy THEN Read(session) ELSE u

\* Mutant: the password is not checked.
AnyPassword(login) ==
    IF login # Nothing /\ login[1] \in users THEN Read(login[1]) ELSE Nothing

\* django's authenticate, which does not look at is_active
Authenticate(login) ==
    IF login # Nothing /\ login[1] \in users /\ login[2] THEN Read(login[1]) ELSE Nothing

\* The token of AccessKeyAuthenticator; a Basic header is a token nobody has.
Token == IF header = Nothing THEN form.key ELSE header

Owners == {u \in users : \E k \in AccessKeys : <<u, k>> \in keys /\ Token \in {k, <<"Token", k>>}}

Outcome(u, ok) == [user |-> u, result |-> IF ok THEN "yes" ELSE "no"]
Raises(u) == [user |-> u, result |-> "raise"]

\* Mutant: whoever is there is logged in.
LoggedInAnyone(u) == Outcome(u, IsUser(u))

\* user and user.is_active
LoggedIn(u) == Outcome(u, Active(u))

\* AbstractAuthenticator.authenticate of the class a, with request.user = u:
\* request.user afterwards, and what comes of it.
Attempt(a, u) ==
    CASE a = "Anonymous" -> Outcome(u, TRUE)
      [] a = "UserLoggedIn" -> LoggedIn(Loaded(u))
      [] a = "Basic" ->
            IF header = Malformed THEN Raises(u)
            ELSE LET found == IF header # Nothing /\ header[1] = "Basic"
                              THEN Authenticate(<<header[2], header[3]>>) ELSE Nothing
                 IN  IF Active(found) THEN Outcome(found, TRUE) ELSE Outcome(u, FALSE)
      [] a = "User" ->
            LET found == Authenticate(form.login) IN Outcome(found, Active(found))
      [] a = "AccessKey" ->
            IF \E o, p \in Owners : o # p THEN Raises(u)
            ELSE IF Owners = {} THEN Outcome(u, FALSE)
            ELSE LET found == Read(CHOOSE o \in Owners : TRUE)
                 IN  Outcome(found, Active(found))

-----------------------------------------------------------------------------
AuthInit ==
    /\ users \in SUBSET Users /\ active \in SUBSET users /\ newcomers = {}
    /\ keys \in SUBSET (users \X AccessKeys) /\ changes = 0
    /\ session = Nothing /\ user = Nothing /\ header = Nothing
    /\ form = [login |-> Nothing, key |-> Nothing] /\ options = FALSE
    /\ chain = <<>> /\ turn = 0 /\ stage = "idle" /\ auth = Nothing /\ identifier = Address
    /\ nested = FALSE /\ entry = Nothing

\* as_view and dispatch: a view with the authenticators c is called, and has not
\* authenticated anybody.
Call(c) ==
    /\ chain' = c /\ turn' = 1 /\ stage' = "trying"
    /\ auth' = Nothing /\ identifier' = Address

\* A request comes in; its session, if any, is somebody's or nobody's.
Arrive ==
    /\ stage = "idle"
    /\ session' \in users \cup {Guest, Nothing}
    /\ user' = IF session' = Nothing THEN Nothing ELSE Lazy
    /\ header' \in Headers /\ form' \in Forms /\ options' \in BOOLEAN
    /\ \E c \in Chains : Call(c)
    /\ nested' = FALSE /\ entry' = user'
    /\ UNCHANGED database

\* AutoJSONRPC.rpc_call: the same request, with parameters, perhaps headers, and
\* a method of the call's.
CallNested ==
    /\ stage = "accepted" /\ ~nested /\ ~options
    /\ header' \in {header} \cup Headers /\ form' \in Forms /\ options' \in BOOLEAN
    /\ \E c \in Chains : Call(c)
    /\ nested' = TRUE /\ entry' = user
    /\ UNCHANGED <<database, session, user>>

Preflight == options /\ AllowOptions

\* AuthMixin.authenticate: no restriction of OPTIONS
Pass ==
    /\ stage = "trying" /\ Preflight
    /\ auth' = "Anonymous" /\ stage' = "accepted"
    /\ UNCHANGED <<database, request, chain, turn, identifier, nested, entry>>

\* Mutant: the identifier is left as it is.
ConfigureNothing(a) == identifier

\* configure
Configure(a) == IF a = "Anonymous" THEN identifier ELSE user'.name

\* Mutant: one turn too many.
NotYetLast == turn <= Len(chain)

More == turn < Len(chain)

\* AuthMixin.authenticate: one turn of its loop.
Try(a) ==
    LET attempt == Attempt(a, user)
    IN  /\ stage = "trying" /\ ~Preflight /\ a = chain[turn]
        /\ user' = attempt.user
        /\ IF attempt.result = "yes"
           THEN stage' = "accepted" /\ auth' = a /\ identifier' = Configure(a) /\ UNCHANGED turn
           ELSE /\ UNCHANGED <<auth, identifier>>
                /\ IF attempt.result = "raise" THEN stage' = "error" /\ UNCHANGED turn
                   ELSE IF More THEN turn' = turn + 1 /\ UNCHANGED stage
                   ELSE stage' = "refused" /\ UNCHANGED turn
        /\ UNCHANGED <<database, session, header, form, options, chain, nested, entry>>

\* Somebody changes the database.
Change ==
    /\ stage # "idle" /\ changes < MaxChanges
    /\ changes' = changes + 1
    /\ UNCHANGED <<request, view>>

\* is_active is edited.
Edit(u) ==
    /\ u \in users
    /\ active' = IF u \in active THEN active \ {u} ELSE active \cup {u}
    /\ Change /\ UNCHANGED <<users, keys, newcomers>>

\* A key is given to a user by hand; it may be another's, for only the pair is
\* unique.
Grant(u, k) ==
    /\ u \in users /\ <<u, k>> \notin keys
    /\ keys' = keys \cup {<<u, k>>}
    /\ Change /\ UNCHANGED <<users, active, newcomers>>

Revoke(u, k) ==
    /\ <<u, k>> \in keys
    /\ keys' = keys \ {<<u, k>>}
    /\ Change /\ UNCHANGED <<users, active, newcomers>>

\* A user is saved; the receiver of post_save comes after.
CreateUser(u) ==
    /\ u \notin users
    /\ users' = users \cup {u} /\ active' = active \cup {u}
    /\ newcomers' = IF AutoCreate THEN newcomers \cup {u} ELSE newcomers
    /\ Change /\ UNCHANGED keys

\* create_api_key, with the key AccessKey.save makes, which is nobody's.
CreateKey(u, k) ==
    /\ u \in newcomers /\ \A o \in users : <<o, k>> \notin keys
    /\ keys' = keys \cup {<<u, k>>}
    /\ newcomers' = newcomers \ {u}
    /\ UNCHANGED <<users, active, changes, request, view>>

AuthNext ==
    \/ Arrive \/ CallNested \/ Pass
    \/ \E a \in Authenticators : Try(a)
    \/ \E u \in Users : Edit(u) \/ CreateUser(u)
    \/ \E u \in Users, k \in AccessKeys : Grant(u, k) \/ Revoke(u, k) \/ CreateKey(u, k)

AuthSpec == AuthInit /\ [][AuthNext]_authVars

-----------------------------------------------------------------------------
\* Who is accepted as a user was active when it was read, and the view's
\* identifier, by which it is throttled and logged, is that user's name; whoever is
\* accepted as anonymous, or not at all, is known by address, and what the
\* authenticators that failed have left in request.user is no active user
\* (utils/auth.py:96, 121).
AcceptedIsActive ==
    /\ (stage = "accepted" /\ auth # "Anonymous") => Active(user) /\ identifier = user.name
    /\ (stage # "accepted" \/ auth = "Anonymous") =>
          /\ identifier = Address
          /\ user = entry \/ ~Active(user)

\* What in the request vouches for a user, now.
Vouched(u) ==
    \/ session = u
    \/ header = <<"Basic", u, TRUE>>
    \/ form.login = <<u, TRUE>>
    \/ \E k \in AccessKeys :
          <<u, k>> \in keys /\ (header = <<"Token", k>> \/ (header = Nothing /\ form.key = k))

\* request.user only changes to a user for whom the session, a password or a key
\* vouches at that moment, with its is_active of that moment, or to Nothing.
OnlyVouched ==
    [][(user' # user /\ stage = "trying") =>
          \/ user' = Nothing
          \/ Vouched(user'.name) /\ user'.active = (user'.name \in active)]_authVars

\* The order of a chain admits nobody: an authenticator accepts only whom it would
\* have accepted as the first.  It turns somebody away whom it would have accepted
\* only if it looks at the session after one that replaces request.user (no chain
\* looks at the session twice: the second look would find the user as read by the
\* first).  Only a header that cannot be decoded, or a key of two users, stops the chain.
Alone == Attempt(chain[turn], entry).result

OrderAdmitsNobody ==
    [][(stage = "trying" /\ ~Preflight /\ <<stage, turn>>' # <<stage, turn>>) =>
          /\ stage' = "accepted" => Alone = "yes"
          /\ (stage' # "accepted" /\ Alone = "yes") =>
                /\ chain[turn] = "UserLoggedIn"
                /\ \E j \in 1..(turn - 1) : chain[j] \in {"User", "AccessKey"}
          /\ stage' = "error" =>
                \/ header = Malformed
                \/ \E k \in AccessKeys, o, p \in users :
                      o # p /\ {<<o, k>>, <<p, k>>} \subseteq keys]_authVars
=============================================================================
