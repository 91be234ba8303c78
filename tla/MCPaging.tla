------------------------------ MODULE MCPaging ------------------------------
(***************************************************************************)
(* An instance of Paging for TLC.                                          *)
(***************************************************************************)
EXTENDS Paging, TLC

MCRows == {{}, {1, 2, 3}, {1, 2, 3, 4}}
=============================================================================
