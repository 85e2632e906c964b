----------------------------- MODULE MCPublicPorts -----------------------------
(* Small instances of PublicPorts. *)
EXTENDS PublicPorts, TLC

\* Both ports in use and the manager's port open.
AllOn == {[shared |-> 2, category |-> 1, manager |-> TRUE]}
=============================================================================
