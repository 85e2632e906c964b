-------------------------- MODULE MCCategorySessions --------------------------
(* Small instances of CategorySessions. *)
EXTENDS CategorySessions, TLC
=============================================================================
