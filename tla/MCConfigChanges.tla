--------------------------- MODULE MCConfigChanges ---------------------------
(* Small instances of ConfigChanges. *)
EXTENDS ConfigChanges, Naturals, TLC

\* Bound: how many requests are made in one behaviour, the migration counted as
\* one.  Every choice of so many is explored.
MaxRequests == 3

Made == {r \in Requests : pc[r] # "idle"}

AtMostMaxRequests ==
  Cardinality(Made) + (IF migration = "idle" THEN 0 ELSE 1) <= MaxRequests
=============================================================================
