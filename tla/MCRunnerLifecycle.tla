------------------------- MODULE MCRunnerLifecycle -------------------------
(* Instances of RunnerLifecycle small enough for TLC. *)
EXTENDS RunnerLifecycle, TLC

\* Starts are alike: what one does, another could have done.
AlikeStarts == Permutations(Starts)
=============================================================================
