----------------------------- MODULE MCRegistry -----------------------------
(***************************************************************************)
(* An instance of Registry for TLC: one Api has an option that is a        *)
(* dictionary, the other one that is written into dictionaries.            *)
(***************************************************************************)
EXTENDS Registry

CONSTANTS a1, a2

MCApis == {a1, a2}
MCApiOptions == [a \in MCApis |-> IF a = a1 THEN {"emit_models"} ELSE {"emit_fields"}]
MCMetas == {{}, {"emit_models"}, {"emit_fields"}}
MCNames == {Map, RPC}
=============================================================================
