---------------------------- MODULE MCApiLockout ----------------------------
(***************************************************************************)
(* Two requests at once from one address, and a clock that counts the first  *)
(* wait as one: a step and a half of guesses, two waits served, a quiet.     *)
(***************************************************************************)
EXTENDS ApiLockout

CONSTANT MaxWrong   \* bound on the guesses that are looked at

DoublingDelays == [d \in 0..2 |-> 2 ^ d]

FewGuesses == \A a \in Addresses : wrong[a] <= MaxWrong
=============================================================================
