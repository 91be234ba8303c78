------------------------------ MODULE Registry ------------------------------
(***************************************************************************)
(* Resource classes, how they come by the options of their Meta, and the   *)
(* registries of the Apis (adrest/utils/meta.py, adrest/mixin/emitter.py,  *)
(* adrest/views.py, adrest/api.py).                                        *)
(*                                                                         *)
(* An application defines resource classes, of one base or of two, and     *)
(* registers them with its Apis; registering makes a subclass whose Meta   *)
(* holds the options of the Api and those given.  _meta is put together    *)
(* once, when a class is made.  The option emit_models is a dictionary: if *)
(* no Meta has one the class gets one of its own, otherwise it takes the   *)
(* very dictionary of that Meta, and writes its option emit_fields there.  *)
(*                                                                         *)
(* Classes are numbered as they are made; they all descend from the mixins *)
(* (Root) by way of ResourceView, and RPCResource, which has neither       *)
(* option, is left out between AutoJSONRPC and that.  The value of an      *)
(* option is told by the class whose Meta has it: Root stands for the      *)
(* default None, from EmitterMixin or because no Meta has the option.  A   *)
(* dictionary is told by the class whose Meta it stands in, or by the Api  *)
(* that puts it into the Meta of all it registers.                         *)
(***************************************************************************)
EXTENDS Naturals, SequencesExt

CONSTANTS
    Apis,        \* Api objects
    ApiOptions,  \* the options each Api was created with
    Metas,       \* the options that Metas and registrations give
    Names,       \* url names
    Map, RPC,    \* url names of MapResource and AutoJSONRPC
    MaxClasses,  \* bound: number of classes
    None         \* Python's None, and no class

Options == {"emit_fields", "emit_models"}
Classes == 1..MaxClasses
Root == 1         \* EmitterMixin and the other mixins
ResourceView == 2
MapResource == 3
AutoJSONRPC == 4
Dictionaries == Classes \cup Apis

ASSUME RegistryAssumption ==
    /\ MaxClasses \in Nat /\ MaxClasses >= 4
    /\ None \notin Nat /\ \A o \in SUBSET Options : None # o

ASSUME OptionsAssumption ==
    /\ ApiOptions \in [Apis -> SUBSET Options] /\ Metas \subseteq SUBSET Options
    /\ Map \in Names /\ RPC \in Names

\* Apis are no classes, and None is neither an Api nor a registry.
ASSUME KindsAssumption ==
    /\ Apis \cap Nat = {} /\ None \notin Apis
    /\ \A r \in [Names -> Classes \cup {None}] : None # r

VARIABLES
    made,      \* number of classes made
    mro,       \* mro of each class
    own,       \* options in its own Meta; None: it has no Meta of its own
    dict,      \* the dictionary that stands there as emit_models, if any does
    meta,      \* cls._meta: for each option the class whose Meta it is from
    fields,    \* emit_models["fields"] of each dictionary, None when absent
    api,       \* the Api that has made the class, or None
    url,       \* cls._meta.url_name, under which it did
    unfinished,\* Apis whose __init__ has AutoJSONRPC still to register
    resources  \* api.resources; None: the Api does not exist yet

registries == <<api, url, unfinished, resources>>
vars == <<made, mro, own, dict, meta, fields, registries>>

Made == 1..made

\* parent.Meta: its own, or that of the nearest base
MetaOf(x, metas, m) ==
    m[x][CHOOSE i \in DOMAIN m[x] :
            /\ metas[m[x][i]] # None
            /\ \A j \in 1..(i - 1) : metas[m[x][j]] = None]

\* Mutant: the loop of MixinBaseMeta goes through cls.mro() as it is.
MergeForward(c, metas, m) ==
    [o \in Options |->
        LET From(i) == MetaOf(m[c][i], metas, m)
        IN  From(CHOOSE i \in DOMAIN m[c] :
                /\ o \in metas[From(i)]
                /\ \A j \in (i + 1)..Len(m[c]) : o \notin metas[From(j)])]

\* MixinBaseMeta: goes through reversed(cls.mro()) and lets each class' Meta
\* overwrite what is there.  A class without a Meta does so, too, with the
\* one it inherits.
Merge(c, metas, m) ==
    [o \in Options |->
        LET From(i) == MetaOf(m[c][i], metas, m)
        IN  From(CHOOSE i \in DOMAIN m[c] :
                /\ o \in metas[From(i)]
                /\ \A j \in 1..(i - 1) : o \notin metas[From(j)])]

\* Mutant: one dictionary is every class' default.
DictShared(c, options, dicts) == dicts[options["emit_models"]]

\* EmitterMeta: if cls._meta.emit_models is None, a new dictionary.
Dict(c, options, dicts) ==
    IF options["emit_models"] = Root THEN c ELSE dicts[options["emit_models"]]

\* A new class c with the mro m and the Meta o, in which d may stand.
Make(m, o, d) ==
    LET c == made + 1
        mros == [mro EXCEPT ![c] = <<c>> \o m]
        metas == [own EXCEPT ![c] = o]
        dicts == [dict EXCEPT ![c] = d]
        options == Merge(c, metas, mros)
    IN  /\ made < MaxClasses
        /\ made' = c /\ mro' = mros /\ own' = metas /\ dict' = dicts
        /\ meta' = [meta EXCEPT ![c] = options]
        /\ fields' = IF options["emit_fields"] = Root THEN fields
                     ELSE [fields EXCEPT ![Dict(c, options, dicts)] = options["emit_fields"]]

Init ==
    /\ made = 4
    /\ mro = [c \in Classes |-> IF c = Root THEN <<Root>>
                                ELSE IF c = ResourceView THEN <<ResourceView, Root>>
                                ELSE IF c \in {MapResource, AutoJSONRPC}
                                     THEN <<c, ResourceView, Root>> ELSE <<>>]
    /\ own = [c \in Classes |-> IF c = Root THEN Options
                                ELSE IF c \in {ResourceView, MapResource, AutoJSONRPC} THEN {}
                                ELSE None]
    /\ dict = [c \in Classes |-> c]
    /\ meta = [c \in Classes |-> [o \in Options |-> Root]]
    /\ fields = [d \in Dictionaries |-> None]
    /\ api = [c \in Classes |-> None] /\ url = [c \in Classes |-> None]
    /\ unfinished = {}
    /\ resources = [a \in Apis |-> None]

-----------------------------------------------------------------------------
\* class X(b) with options o in its Meta, or without one.  A dictionary that
\* stands in it is written there.
Derive(b, o) ==
    /\ b # Root
    /\ Make(mro[b], o, made + 1)
    /\ UNCHANGED registries

\* Python's method resolution order m of a class with two bases, from the orders
\* m1 and m2 of these: nothing that one of them has before comes after, and what
\* only the second has comes no earlier than it must.
Precedes(m, x, y) == \E i, j \in DOMAIN m : i < j /\ m[i] = x /\ m[j] = y

Linearizes(m, m1, m2) ==
    /\ \A i, j \in DOMAIN m : i < j => ~Precedes(m1, m[j], m[i]) /\ ~Precedes(m2, m[j], m[i])
    /\ \A i \in 2..Len(m) : m[i] \notin ToSet(m2) => m[i - 1] \in ToSet(m1)

\* class X(b1, b2).  The first base comes first, the mixins come last.  Python
\* refuses bases for which there is no such order.
Combine(b1, b2) ==
    /\ Root \notin {b1, b2} /\ b1 \notin ToSet(mro[b2]) /\ made < MaxClasses
    /\ \E t \in SetToSeqs((ToSet(mro[b1]) \cup ToSet(mro[b2])) \ {b1, Root}) :
          LET m == <<b1>> \o t \o <<Root>>
          IN  /\ Linearizes(m, mro[b1], mro[b2])
              /\ \E o \in Metas \cup {None} : Make(m, o, made + 1)
    /\ UNCHANGED registries

\* A subclass of c, made by a, takes the place url_name in its registry.
Enter(a, c, o, d, url_name, before) ==
    /\ Make(mro[c], o, d)
    /\ api' = [api EXCEPT ![made + 1] = a] /\ url' = [url EXCEPT ![made + 1] = url_name]
    /\ resources' = [resources EXCEPT ![a] = [before EXCEPT ![url_name] = made + 1]]

\* Api.__init__: the map and AutoJSONRPC are registered before the Api's options
\* are known, the second with its emitters.
Create(a, map, rpc) ==
    /\ resources[a] = None
    /\ unfinished' = IF rpc THEN unfinished \cup {a} ELSE unfinished
    /\ LET empty == [n \in Names |-> None]
       IN  IF map THEN Enter(a, MapResource, {}, made + 1, Map, empty)
           ELSE /\ resources' = [resources EXCEPT ![a] = empty]
                /\ UNCHANGED <<made, mro, own, dict, meta, fields, api, url>>

CreateRPC(a) ==
    /\ a \in unfinished
    /\ unfinished' = unfinished \ {a}
    /\ Enter(a, AutoJSONRPC, {}, made + 1, RPC, resources[a])

\* Mutant: meta instead of dict(self.meta, **meta).
GivenOnly(a, o) == o

\* dict(self.meta, **meta)
Given(a, o) == ApiOptions[a] \cup o
GivenDict(a, o) == IF "emit_models" \in ApiOptions[a] \ o THEN a ELSE made + 1

\* Api.register: what is no ResourceView is refused, and abstract resources are.
Register(a, c, o, url_name) ==
    /\ resources[a] # None /\ a \notin unfinished
    /\ c \notin {Root, ResourceView}
    /\ Enter(a, c, Given(a, o), GivenDict(a, o), url_name, resources[a])
    /\ UNCHANGED unfinished

Next ==
    \/ \E b \in Made, o \in Metas \cup {None} : Derive(b, o)
    \/ \E b1, b2 \in Made : Combine(b1, b2)
    \/ \E a \in Apis :
          \/ \E map, rpc \in BOOLEAN : Create(a, map, rpc)
          \/ CreateRPC(a)
          \/ \E c \in Made, o \in Metas, n \in Names : Register(a, c, o, n)

Spec == Init /\ [][Next]_vars

-----------------------------------------------------------------------------
\* the dictionary of class c
DictOf(c) == Dict(c, meta[c], dict)

\* An option is the one of the nearest class in the mro whose Meta has it, as
\* Python looks attributes up; unless a class without a Meta of its own stands,
\* in the mro, before one of another branch.
Nearest(c, o) ==
    mro[c][CHOOSE i \in DOMAIN mro[c] :
              /\ own[mro[c][i]] # None /\ o \in own[mro[c][i]]
              /\ \A j \in 1..(i - 1) : own[mro[c][j]] # None => o \notin own[mro[c][j]]]

Straight(c) ==
    \A i \in DOMAIN mro[c] : own[mro[c][i]] = None =>
        IsSuffix(mro[mro[c][i]], mro[c])

NearestWins ==
    \A c \in Made : Straight(c) => \A o \in Options : meta[c][o] = Nearest(c, o)

\* A registered class has the options given, those of its Api, and else its
\* resource's; only the map and the AutoJSONRPC that an Api makes for itself are
\* without the Api's.  Under a name stands the last class registered as that.
RegisteredAs(a, n) == {c \in Made : api[c] = a /\ url[c] = n}

RegistrationRedefines ==
    /\ \A c \in Made : api[c] # None =>
          /\ Tail(mro[c]) = mro[mro[c][2]] /\ mro[c][2] \notin {Root, ResourceView}
          /\ \A o \in Options : meta[c][o] = IF o \in own[c] THEN c ELSE meta[mro[c][2]][o]
          /\ \/ ApiOptions[api[c]] \subseteq own[c]
             \/ mro[c][2] \in {MapResource, AutoJSONRPC} /\ own[c] = {}
    /\ \A a \in Apis, n \in Names : resources[a] # None =>
          IF RegisteredAs(a, n) = {} THEN resources[a][n] = None
          ELSE /\ resources[a][n] \in RegisteredAs(a, n)
               /\ \A c \in RegisteredAs(a, n) : c <= resources[a][n]

\* The dictionary of a class is its own, or that of an ancestor's Meta, or that
\* of an Api which has registered it or an ancestor: two classes share one only
\* if they inherit it from one Meta or are registered with one Api whose option
\* it is, but then they do, however little else they have in common.  Of those
\* who share one, the last made with emit_fields has determined what all of them
\* serialize.
Sharers(d) == {c \in Made : DictOf(c) = d}

SharedForCause ==
    \A c \in Made : LET d == DictOf(c) IN
        /\ \/ d = c
           \/ d \in ToSet(mro[c]) \ {Root} /\ own[d] # None /\ "emit_models" \in own[d]
           \/ \E x \in ToSet(mro[c]) :
                 api[x] = d /\ "emit_models" \in ApiOptions[api[x]] \cap own[x]
        /\ LET setters == {x \in Sharers(d) : meta[x]["emit_fields"] # Root}
           IN  fields[d] =
                 IF setters = {} THEN None
                 ELSE meta[CHOOSE x \in setters : \A y \in setters : y <= x]["emit_fields"]
=============================================================================
