--------------------------- MODULE AttemptLimiter ---------------------------
(***************************************************************************)
(* What the lockout (app/lockout.py) promises, without its records, its     *)
(* threads and the credentials: rejected attempts from one address count,   *)
(* every third one in a row costs a wait, each wait is twice the one before  *)
(* it, and only a success, a long quiet after the last wait was served, or a *)
(* restart of the manager wipes the count.                                   *)
(***************************************************************************)
EXTENDS Integers

CONSTANTS Addresses,
          ForgetAfter,   \* FORGET_AFTER_SECONDS
          Wait           \* the wait the k-th block in a row costs, k from 0

FailuresPerStep == 3     \* FAILURES_PER_STEP

VARIABLES now,       \* the clock, in seconds
          strikes,   \* [Addresses -> rejected attempts since the last forgiveness]
          until,     \* [Addresses -> the end of the last wait]
          last       \* [Addresses -> the last rejected attempt]

vars == <<now, strikes, until, last>>

Init ==
  /\ now \in Nat
  /\ strikes = [a \in Addresses |-> 0]
  /\ until = [a \in Addresses |-> 0]
  /\ last = [a \in Addresses |-> 0]

\* A wait is served before the quiet time begins.
QuietSince(a) == IF last[a] > until[a] THEN last[a] ELSE until[a]

Forgotten(a) == strikes[a] = 0 \/ now - QuietSince(a) > ForgetAfter

Strike(a) ==
  LET count == IF Forgotten(a) THEN 1 ELSE strikes[a] + 1
  IN  /\ strikes' = [strikes EXCEPT ![a] = count]
      /\ last' = [last EXCEPT ![a] = now]
      /\ until' = [until EXCEPT ![a] =
           IF count % FailuresPerStep = 0
           THEN now + Wait[count \div FailuresPerStep - 1]
           ELSE IF Forgotten(a) THEN 0 ELSE @]
      /\ UNCHANGED now

Forgive(a) ==
  /\ strikes' = [strikes EXCEPT ![a] = 0]
  /\ until' = [until EXCEPT ![a] = 0]
  /\ last' = [last EXCEPT ![a] = 0]
  /\ UNCHANGED now

ForgiveAll ==
  /\ strikes' = [a \in Addresses |-> 0]
  /\ until' = [a \in Addresses |-> 0]
  /\ last' = [a \in Addresses |-> 0]
  /\ UNCHANGED now

Pass ==
  /\ now' \in Nat /\ now' > now
  /\ UNCHANGED <<strikes, until, last>>

Next == \/ \E a \in Addresses : Strike(a) \/ Forgive(a)
        \/ ForgiveAll \/ Pass

Spec == Init /\ [][Next]_vars
=============================================================================
