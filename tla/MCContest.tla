----------------------------- MODULE MCContest -----------------------------
(***************************************************************************)
(* A small instance of Contest: two agents; the values are in its          *)
(* configuration.                                                          *)
(***************************************************************************)
EXTENDS Contest
=============================================================================
