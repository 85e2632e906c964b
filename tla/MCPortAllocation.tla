--------------------------- MODULE MCPortAllocation ---------------------------
(* Small instances of PortAllocation. *)
EXTENDS PortAllocation, TLC
=============================================================================
