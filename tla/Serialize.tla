----------------------------- MODULE Serialize -----------------------------
(***************************************************************************)
(* How an answer is made of the objects a handler returns                  *)
(* (adrest/utils/serializer.py, as adrest/utils/emitter.py calls it).      *)
(*                                                                         *)
(* to_simple turns objects into nested dictionaries.  It is recursive: an  *)
(* object shows related ones, which are read from the database when their  *)
(* turn comes, and may lead back to the first.  todo is the stack of the   *)
(* objects in work.  Meanwhile the database changes.                       *)
(*                                                                         *)
(* Where an object stands in the answer is told by its path, the           *)
(* alternation of keys and field names that leads to it.  out is the       *)
(* answer, a set of what is shown at each path under each name.            *)
(***************************************************************************)
EXTENDS Naturals, SequencesExt, FiniteSets

CONSTANTS
    Default,     \* of each model, the names of the fields django serializes
    ForeignKeys, \* those of them which are foreign keys, and the model each refers to
    Managers,    \* of each model, its reverse managers: by name, the model and its foreign key
    Objects,     \* rows that may exist, and the model of each
    Text,        \* of each, what its other fields hold: "ascii" or "foreign" text
    Options,     \* options of resources, and those of the related objects in them
    Jobs,        \* settings of resources: options, custom, simple, xml
    MaxChanges,  \* bound: changes of the database while an answer is made
    None

\* Options are fields, include, exclude, and related: options by field name; those
\* of a resource are its emit_models.  custom: the x of its methods to_simple__x.
\* simple: emit_format is not 'django'.
NoOptions == [fields |-> {}, include |-> {}, exclude |-> {}, related |-> <<>>]
Keys == DOMAIN Objects

ASSUME ModelsAssumption ==
    \A m \in DOMAIN Default :
        /\ DOMAIN ForeignKeys[m] \subseteq Default[m]
        /\ ({"id", "pk", "of_model", None} \cup DOMAIN Managers[m]) \cap Default[m] = {}
        /\ \A n \in DOMAIN Managers[m] :
              LET r == Managers[m][n]
              IN  /\ r.model \in DOMAIN Default /\ r.key \in DOMAIN ForeignKeys[r.model]
                  /\ ForeignKeys[r.model][r.key] = m

ASSUME ObjectsAssumption ==
    /\ IsFiniteSet(Keys) /\ \A k \in Keys : Objects[k] \in DOMAIN Default
    /\ Text \in [Keys -> {"ascii", "foreign"}]
    /\ {None, "objects"} \cap Keys = {} /\ None # "objects"
    /\ MaxChanges \in Nat

ASSUME OptionsAssumption ==
    /\ NoOptions \in Options /\ \A j \in Jobs : j.options \in Options
    /\ \A o \in Options :
          /\ "of_model" \notin o.fields \cup o.include
          /\ \A n \in DOMAIN o.related : o.related[n] \in Options

VARIABLES
    table,    \* of each row, the key that each of its foreign keys holds
    job,      \* the settings of the resource that answers
    pc, todo, out,
    changes,  \* number of changes so far
    gone      \* history: keys of rows deleted meanwhile

vars == <<table, job, pc, todo, out, changes, gone>>

\* An instance: its row as it was read, and by: the instance whose manager has found
\* it, if any, which django keeps as the target of its foreign key via.
Found(k, by, via) == [key |-> k, row |-> table[k], by |-> by, via |-> via]
Instance(k) == Found(k, None, None)

\* Mutant: fields adds to the others.
NamesAll(options, model) ==
    (Default[model] \cup options.include \cup options.fields) \ options.exclude

\* The names that to_simple_model iterates.
Names(options, model) ==
    IF options.fields # {} THEN options.fields
    ELSE (Default[model] \cup options.include) \ options.exclude

\* Mutant: related objects that have no options get those of the first.
RelatedInherits(options, n) ==
    IF n \in DOMAIN options.related THEN options.related[n] ELSE options

Related(options, n) ==
    IF n \in DOMAIN options.related THEN options.related[n] ELSE NoOptions

\* What to_simple has in work of each instance of a list.
Frames(path, instances, options) ==
    LET list == SetToSeq(instances)
    IN  [i \in DOMAIN list |->
            [path |-> Append(path, list[i].key), instance |-> list[i], options |-> options,
             left |-> Names(options, Objects[list[i].key])]]

Shown(path, n, value) == [at |-> path, name |-> n, shows |-> value]

-----------------------------------------------------------------------------
\* The tables in which every foreign key has its row.
Tables ==
    {t \in UNION {[ks -> UNION {[DOMAIN ForeignKeys[m] -> ks] : m \in DOMAIN Default}] :
                    ks \in SUBSET Keys} :
        \A k \in DOMAIN t : LET m == Objects[k] IN
            /\ DOMAIN t[k] = DOMAIN ForeignKeys[m]
            /\ \A f \in DOMAIN t[k] : Objects[t[k][f]] = ForeignKeys[m][f]}

\* emit: a handler has returned some objects, or something has failed and its
\* message is to be serialized.
Init ==
    /\ table \in Tables /\ job \in Jobs
    /\ \/ /\ \E ks \in SUBSET DOMAIN table :
                todo = Frames(<<>>, {Instance(k) : k \in ks}, job.options)
          /\ out = {}
       \/ /\ todo = <<>>
          /\ \E text \in Range(Text) : out = {Shown(<<>>, "message", text)}
    /\ pc = "simplify" /\ changes = 0 /\ gone = {}

Top == Head(todo)

\* The object in work is done with n, which shows value, and then come others.
Put(n, value, others) ==
    /\ out' = out \cup {Shown(Top.path, n, value)}
    /\ todo' = others \o <<[Top EXCEPT !.left = @ \ {n}]>> \o Tail(todo)
    /\ UNCHANGED pc

\* One turn of to_simple_model's loop over names, a set.
Field(n) ==
    LET me == Top.instance
        model == Objects[me.key]
        options == Related(Top.options, n)
        below == Append(Top.path, n)
    IN  /\ pc = "simplify" /\ todo # <<>> /\ n \in Top.left
        /\ CASE n \in job.custom -> Put(n, "custom", <<>>)
             [] n \notin job.custom /\ n \in DOMAIN ForeignKeys[model] ->
                   LET k == me.row[n]
                   IN  IF n \notin DOMAIN Top.options.related THEN Put(n, k, <<>>)
                       ELSE IF me.via = n THEN Put(n, "objects", Frames(below, {me.by}, options))
                       ELSE IF k \in DOMAIN table
                       THEN Put(n, "objects", Frames(below, {Instance(k)}, options))
                       ELSE pc' = "failed" /\ UNCHANGED <<todo, out>>
             [] n \notin job.custom /\ n \in Default[model] \ DOMAIN ForeignKeys[model] ->
                   Put(n, Text[me.key], <<>>)
             [] n \notin job.custom /\ n \in DOMAIN Managers[model] ->
                   LET m == Managers[model][n]
                       found == {k \in DOMAIN table :
                                    Objects[k] = m.model /\ table[k][m.key] = me.key}
                   IN  Put(n, "objects",
                           Frames(below, {Found(k, me, m.key) : k \in found}, options))
             [] n \notin job.custom /\ n \notin Default[model] \cup DOMAIN Managers[model] ->
                   Put(n, IF n \in {"id", "pk"} THEN me.key ELSE None, <<>>)
        /\ UNCHANGED <<table, job, changes, gone>>

\* The end of to_simple_model.  In the simple format the key is put among the
\* fields.
Close ==
    /\ pc = "simplify" /\ todo # <<>> /\ Top.left = {}
    /\ todo' = Tail(todo)
    /\ out' = IF job.simple
              THEN {e \in out : e.at # Top.path \/ e.name # "id"}
                   \cup {Shown(Top.path, "id", Top.instance.key)}
              ELSE out \cup {Shown(Top.path, "of_model", Objects[Top.instance.key])}
    /\ UNCHANGED <<table, job, pc, changes, gone>>

\* XMLSerializer._dumps: str raises for text that is not ASCII; and a dictionary with
\* something called model is taken for one that to_simple_model has made, whose
\* model has a dot.
Unwritable(e) == e.shows = "foreign" \/ e.name = "model"

\* Mutant: nor can None be written.
DumpNoNone ==
    /\ pc = "simplify" /\ todo = <<>>
    /\ pc' = IF job.xml /\ \E e \in out : Unwritable(e) \/ e.shows = None
             THEN "failed" ELSE "answered"
    /\ UNCHANGED <<table, job, todo, out, changes, gone>>

Dump ==
    /\ pc = "simplify" /\ todo = <<>>
    /\ pc' = IF job.xml /\ \E e \in out : Unwritable(e) THEN "failed" ELSE "answered"
    /\ UNCHANGED <<table, job, todo, out, changes, gone>>

-----------------------------------------------------------------------------
\* Other requests.
Change ==
    /\ pc = "simplify" /\ changes < MaxChanges
    /\ changes' = changes + 1
    /\ UNCHANGED <<job, pc, todo, out>>

\* A row is deleted, with those that refer to it, those that refer to these, and so on.
Referrers(rows) == {j \in DOMAIN table : \E f \in DOMAIN table[j] : table[j][f] \in rows}
Cascade(k) ==
    {j \in DOMAIN table : \A rows \in SUBSET DOMAIN table :
        k \in rows /\ Referrers(rows) \subseteq rows => j \in rows}

Delete(k) ==
    LET dead == Cascade(k)
    IN  /\ k \in DOMAIN table
        /\ table' = [j \in DOMAIN table \ dead |-> table[j]]
        /\ gone' = gone \cup dead
        /\ Change

\* A row is changed to refer to another.
Move(k, f, to) ==
    /\ {k, to} \subseteq DOMAIN table /\ f \in DOMAIN table[k]
    /\ Objects[to] = Objects[table[k][f]] /\ to # table[k][f]
    /\ table' = [table EXCEPT ![k][f] = to]
    /\ Change /\ UNCHANGED gone

Next ==
    \/ Dump \/ Close
    \/ \E n \in (IF todo = <<>> THEN {} ELSE Top.left) : Field(n)
    \/ \E k \in Keys : Delete(k)
    \/ \E k, to \in Keys, f \in UNION {DOMAIN ForeignKeys[m] : m \in DOMAIN Default} :
          Move(k, f, to)

Spec == Init /\ [][Next]_vars

-----------------------------------------------------------------------------
\* The field names on the way to a path, and the options that hold there, or at the
\* i-th object on that way.
Way(p) == [i \in 1..(Len(p) \div 2) |-> p[2 * i]]
OptionsBelow(way) ==
    LET o[i \in 0..Len(way)] ==
            IF i = 0 THEN job.options
            ELSE IF way[i] \in DOMAIN o[i - 1].related THEN o[i - 1].related[way[i]]
            ELSE NoOptions
    IN  o[Len(way)]
OptionsAt(p, i) == OptionsBelow(SubSeq(Way(p), 1, i))

Paths == {todo[i].path : i \in DOMAIN todo} \cup {e.at : e \in out}

\* However objects refer to each other, one is shown below another only where the
\* resource's options name it, and only if related options lead to the other.  So an
\* answer is no deeper than its options, and serialization ends (serializer.py:126).
UnfoldsAsTold ==
    \A p \in Paths : \A i \in DOMAIN Way(p) :
        LET n == Way(p)[i]
            here == OptionsAt(p, i - 1)
        IN  /\ n \in here.fields \cup here.include \cup DOMAIN here.related
            /\ i < Len(Way(p)) => n \in DOMAIN here.related

\* An answer shows of every object, however it was reached, the fields that the
\* options set there, or the model's with those they include and without those they
\* exclude, and each only once; with the key, in the simple format, in place of
\* anything called id.  Below an object stand, if nothing changed meanwhile, all that
\* are related to it (serializer.py:101, 122-127).
ShowsWhatIsAsked ==
    pc = "answered" =>
        \A p \in {q \in Paths : q # <<>>} :
            LET o == OptionsBelow(Way(p))
                model == Objects[Last(p)]
                entries == {e \in out : e.at = p /\ e.name # "of_model"}
                names == {e.name : e \in entries}
                asked == names \ (IF job.simple THEN {"id"} ELSE {})
            IN  /\ \A e, f \in entries : e.name = f.name => e = f
                /\ job.simple => Shown(p, "id", Last(p)) \in out
                /\ o.fields # {} => asked = o.fields \ (names \ asked)
                /\ o.fields = {} =>
                      /\ asked \cap o.exclude = {}
                      /\ (Default[model] \ o.exclude) \subseteq asked
                      /\ asked \subseteq Default[model] \cup o.include
                      /\ (o.include \ o.exclude) \subseteq names
                /\ changes = 0 => \A e \in {x \in entries : x.shows = "objects"} :
                      {Last(q) : q \in {q \in Paths : Len(q) > 1 /\ Front(q) = Append(p, e.name)}}
                      = IF e.name \in DOMAIN ForeignKeys[model] THEN {table[Last(p)][e.name]}
                        ELSE LET r == Managers[model][e.name]
                             IN  {k \in DOMAIN table :
                                     Objects[k] = r.model /\ table[k][r.key] = Last(p)}

\* Serialization fails only for a related object that the options ask for and that was
\* deleted after the one that refers to it was read, and not if this one was found from
\* there; or, in XML, for a text that is not ASCII or something called model
\* (serializer.py:122, 165-177).
FailsForCause ==
    pc = "failed" =>
        \/ /\ job.xml /\ todo = <<>>
           /\ \E e \in out : e.shows = "foreign" \/ e.name = "model"
        \/ /\ todo # <<>>
           /\ \E n \in Top.left \cap DOMAIN Top.instance.row :
                 /\ n \in DOMAIN Top.options.related /\ Top.instance.row[n] \in gone
                 /\ Len(Top.path) > 1 =>
                       LET finder == Top.path[Len(Top.path) - 2]
                           name == Top.path[Len(Top.path) - 1]
                           managers == Managers[Objects[finder]]
                       IN  name \in DOMAIN managers => managers[name].key # n
=============================================================================
