---------------------------- MODULE MCCollection ----------------------------
(***************************************************************************)
(* An instance of Collection for TLC.  Each worker holds one queryset at a *)
(* time and one more is shared, so with n workers n + 2 are enough for a   *)
(* clone to be made whenever it is asked for.                              *)
(***************************************************************************)
EXTENDS Collection, TLC

CONSTANTS w1, w2, q1, q2, q3, q4

MCWorkers == {w1, w2}
MCQuerysets == {q1, q2, q3, q4}
Alike == Permutations(MCWorkers) \cup Permutations(MCQuerysets)
=============================================================================
