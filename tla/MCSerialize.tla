---------------------------- MODULE MCSerialize ----------------------------
(***************************************************************************)
(* An instance of Serialize for TLC: boats that refer to their pirate,     *)
(* whose boat_set they are.  A boat has a title and a model.               *)
(***************************************************************************)
EXTENDS Serialize

MCDefault == [pirate |-> {"name"}, boat |-> {"title", "model", "pirate"}]
MCForeignKeys == [pirate |-> <<>>, boat |-> [pirate |-> "pirate"]]
MCManagers == [pirate |-> [boat_set |-> [model |-> "boat", key |-> "pirate"]], boat |-> <<>>]
MCObjects == [p1 |-> "pirate", p2 |-> "pirate", b1 |-> "boat", b2 |-> "boat"]
MCText == [p1 |-> "ascii", p2 |-> "foreign", b1 |-> "ascii", b2 |-> "foreign"]

Boat(options) == [NoOptions EXCEPT !.related = [pirate |-> options]]
Boats(options) ==
    [NoOptions EXCEPT !.include = {"boat_set"}, !.related = [boat_set |-> options]]

\* In the last three, objects lead back to the first.
MCSettings ==
    {NoOptions,
     [Boat(NoOptions) EXCEPT !.exclude = {"model", "name"}, !.include = {"pk", "name", "boat_set"}],
     [NoOptions EXCEPT !.fields = {"title", "color", "boat_set"}],
     Boat([NoOptions EXCEPT !.fields = {"name"}, !.exclude = {"name"}]),
     Boat([NoOptions EXCEPT !.include = {"boat_set"}]),
     Boats([Boat(NoOptions) EXCEPT !.exclude = {"model"}]),
     [Boat(Boats(Boat(NoOptions))) EXCEPT !.exclude = {"model"}]}

Job(options, custom, simple, xml) ==
    [options |-> options, custom |-> custom, simple |-> simple, xml |-> xml]

MCJobs ==
    {Job(o, {}, FALSE, FALSE) : o \in MCSettings}
    \cup {Job(o, {"name", "id"}, TRUE, FALSE) : o \in MCSettings}
    \cup {Job(o, {}, FALSE, TRUE) : o \in {x \in MCSettings : "model" \in x.exclude \cup x.fields}}
    \cup {Job([NoOptions EXCEPT !.fields = {"id", "title", "color"}], {"id"}, TRUE, xml) : xml \in BOOLEAN}

Below(o) == Range(o.related)
MCOptions ==
    LET all == {j.options : j \in MCJobs}
        once == UNION {Below(o) : o \in all}
        twice == UNION {Below(o) : o \in once}
    IN  {NoOptions} \cup all \cup once \cup twice \cup UNION {Below(o) : o \in twice}
=============================================================================
