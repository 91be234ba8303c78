----------------------------- MODULE MCFilters -----------------------------
(***************************************************************************)
(* An instance of Filters for TLC.  An unknown lookup of the foreign key,  *)
(* which later versions of Django answer with a TypeError, is not among    *)
(* the names.                                                              *)
(***************************************************************************)
EXTENDS Filters

MCNames ==
    {<<f>> \o l \o e : f \in {Owner, Number}, l \in {<<>>, <<"in">>, <<"gt">>},
                     e \in {<<>>, <<"not">>}}
    \cup {<<Number, "not", "in">>, <<Number, "bad">>, <<"color">>}

MCValues == {1, 2, 12, Bad}

MCChars == [v \in MCValues |-> IF v = 12 THEN {1, 2} ELSE {v}]

MCValueLists == {<<1>>, <<2>>, <<12>>, <<Bad>>, <<1, 2>>, <<2, 2>>, <<1, Bad>>}
=============================================================================
