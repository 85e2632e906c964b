---------------------------- MODULE MCToolCalls ----------------------------
(***************************************************************************)
(* One runner and the manager, two file names, three days.  Bursts of calls   *)
(* are looked at while the folder is empty, and the folder with one call      *)
(* that is written: log and store meet in nothing but the days and the calls. *)
(***************************************************************************)
EXTENDS ToolCalls

BurstOrFiles ==
  \/ Present = {}
  \/ queue = <<>> /\ batches = NoBatches /\ total <= 1
=============================================================================
