------------------------------- MODULE OneRunner -------------------------------
(***************************************************************************)
(* What the manager promises of one instance, whoever starts, stops and    *)
(* restarts it: at most one process serves it, the process that serves is  *)
(* the one the manager has registered, and one process never follows       *)
(* another without a moment in which none serves.                          *)
(*                                                                         *)
(* A process that a thread of the manager is still starting, or is on its  *)
(* way to kill, does not serve.  The manager may have registered a process *)
(* that died or is still starting, and may have registered none.           *)
(***************************************************************************)
CONSTANTS
  Processes,
  Nobody

VARIABLES
  serving,  \* the processes that serve the instance
  named     \* the process that the manager has registered, or Nobody

Init == serving = {} /\ named = Nobody

\* A process begins to serve, and is named in the same step.
Serve(p) == serving = {} /\ serving' = {p} /\ named' = p

\* Nobody serves any more, or still not.
Rest == serving' = {} /\ named' \in Processes \cup {Nobody}

Next == Rest \/ \E p \in Processes : Serve(p)

Spec == Init /\ [][Next]_<<serving, named>>
=============================================================================
