----------------------------- MODULE ApiLockout -----------------------------
(***************************************************************************)
(* Who may use the manager's API: app/auth.py decides every request by the   *)
(* Bearer credential it carries, app/lockout.py slows down an address whose  *)
(* credentials are rejected.  The dependencies are synchronous, so FastAPI   *)
(* runs them in threads: between a request's look at the lockout and its     *)
(* verdict any other request may be judged.  A route that hands out or       *)
(* changes credentials asks twice, require_auth and then require_admin_auth. *)
(***************************************************************************)
EXTENDS Integers

CONSTANTS
  Addresses,     \* the addresses requests come from
  Requests,      \* the requests under way at once
  Delays,        \* FIRST_DELAY_SECONDS * 2^d for every d up to MaxDoublings
  ForgetAfter,   \* FORGET_AFTER_SECONDS
  MaxDoublings,  \* _MAX_DOUBLINGS: the exponent stops growing here
  MaxTime,       \* bound on the clock
  None

FailuresPerStep == 3     \* FAILURES_PER_STEP

ASSUME Times == /\ {ForgetAfter, MaxDoublings, MaxTime} \subseteq Nat
                /\ Delays \in [0..MaxDoublings -> Nat]
ASSUME Doubling == \A d \in 1..MaxDoublings : Delays[d] = 2 * Delays[d - 1]

RecordType == [failures : 0..FailuresPerStep - 1, until : Nat,
               doublings : Nat, last : Nat]

ASSUME NoneIsNoRecord == None \notin RecordType /\ None \notin Addresses

VARIABLES
  now,       \* the clock
  records,   \* [Addresses -> [failures, until, doublings, last] or None]
  req,       \* [Requests -> [at, from, cred, door]]
  wrong      \* [Addresses -> credentials nobody issued that were judged since
             \* the address last succeeded or the manager started]
vars == <<now, records, req, wrong>>

Credentials == {"password", "agent", "read", "none", "unknown"}

\* A reading or a writing route, or one of them that wants the password.  A
\* public route that shows guests less judges and counts like "get".
Doors == {"get", "put", "admin get", "admin put"}

Idle == [at |-> "idle", from |-> None, cred |-> "none", door |-> "get"]

---------------------------------------------------------------------------
\* lockout.py

Delay(d) == Delays[IF d > MaxDoublings THEN MaxDoublings ELSE d]

NewRecord == [failures |-> 0, until |-> 0, doublings |-> 0, last |-> now]

\* Fault: the quiet time begins with the last attempt.
QuietSinceTheAttempt(rec) == rec.last

\* Quiet time is measured from the end of the last block.
QuietSince(rec) == IF rec.last > rec.until THEN rec.last ELSE rec.until

BlockedFor(a) ==
  IF records[a] = None \/ records[a].until <= now THEN 0 ELSE records[a].until - now

\* One more rejected credential.
Counted(rec) ==
  IF rec.failures + 1 < FailuresPerStep
  THEN [rec EXCEPT !.failures = @ + 1, !.last = now]
  ELSE [failures |-> 0, doublings |-> rec.doublings + 1, last |-> now,
        until |-> now + Delay(rec.doublings)]

RecordFailure(a) ==
  records' = [records EXCEPT ![a] =
    Counted(IF @ = None THEN NewRecord
            ELSE IF now - QuietSince(@) > ForgetAfter THEN NewRecord ELSE @)]

Reset(a) ==
  /\ records' = [records EXCEPT ![a] = None]
  /\ wrong' = [wrong EXCEPT ![a] = 0]

---------------------------------------------------------------------------
\* auth.py

\* _token_grants_access, and require_admin_auth which knows the password only.
Grants(r) ==
  IF req[r].at = "admin" THEN req[r].cred = "password"
  ELSE IF req[r].cred = "read" THEN req[r].door \in {"get", "admin get"}
  ELSE req[r].cred \in {"password", "agent"}

\* Fault: what opens no writing route is a guess.
MayWrite(r) == req[r].cred \in {"password", "agent"}

IsConfiguredCredential(r) == req[r].cred \in {"password", "agent", "read"}

\* require_auth and is_request_authenticated look at the lockout first; a
\* blocked address is turned away whatever it carries, and changes nothing.
Arrive(r) ==
  /\ req[r].at = "idle"
  /\ \E a \in Addresses, c \in Credentials, d \in Doors :
       /\ BlockedFor(a) = 0
       /\ req' = [req EXCEPT ![r] = [at |-> "auth", from |-> a, cred |-> c, door |-> d]]
  /\ UNCHANGED <<now, records, wrong>>

\* require_admin_auth looks again.
ArriveAtAdmin(r) ==
  /\ req[r].at = "passed"
  /\ req' = [req EXCEPT ![r] =
       IF BlockedFor(@.from) > 0 THEN Idle ELSE [@ EXCEPT !.at = "admin"]]
  /\ UNCHANGED <<now, records, wrong>>

\* No credential is not a guess.
Anonymous(r) ==
  /\ req[r].at \in {"auth", "admin"} /\ req[r].cred = "none"
  /\ req' = [req EXCEPT ![r] = Idle]
  /\ UNCHANGED <<now, records, wrong>>

Accept(r) ==
  /\ req[r].at \in {"auth", "admin"} /\ Grants(r)
  /\ Reset(req[r].from)
  /\ req' = [req EXCEPT ![r] =
       IF @.at = "auth" /\ @.door \in {"admin get", "admin put"}
       THEN [@ EXCEPT !.at = "passed"] ELSE Idle]
  /\ UNCHANGED now

\* 401 or 403: a configured client at the wrong door is not a guess.
WrongDoor(r) ==
  /\ req[r].at \in {"auth", "admin"} /\ ~Grants(r) /\ IsConfiguredCredential(r)
  /\ req' = [req EXCEPT ![r] = Idle]
  /\ UNCHANGED <<now, records, wrong>>

\* Only a credential that matches nothing counts.
Reject(r) ==
  /\ req[r].at \in {"auth", "admin"} /\ req[r].cred # "none"
  /\ ~Grants(r) /\ ~IsConfiguredCredential(r)
  /\ RecordFailure(req[r].from)
  /\ wrong' = [wrong EXCEPT ![req[r].from] = IF req[r].cred = "unknown" THEN @ + 1 ELSE @]
  /\ req' = [req EXCEPT ![r] = Idle]
  /\ UNCHANGED now

Tick ==
  /\ now < MaxTime
  /\ now' = now + 1
  /\ UNCHANGED <<records, req, wrong>>

\* The counters live in memory only.
Restart ==
  /\ records' = [a \in Addresses |-> None]
  /\ req' = [r \in Requests |-> Idle]
  /\ wrong' = [a \in Addresses |-> 0]
  /\ UNCHANGED now

Init ==
  /\ now = 0
  /\ records = [a \in Addresses |-> None]
  /\ req = [r \in Requests |-> Idle]
  /\ wrong = [a \in Addresses |-> 0]

Next ==
  \/ \E r \in Requests : \/ Arrive(r) \/ ArriveAtAdmin(r)
                         \/ Anonymous(r) \/ Accept(r) \/ WrongDoor(r) \/ Reject(r)
  \/ Tick \/ Restart

Spec == Init /\ [][Next]_vars

---------------------------------------------------------------------------
\* The records count below a step, every step was a block, and every request
\* is at a point of its way.
RequestType == [at : {"idle", "auth", "passed", "admin"},
                from : Addresses \cup {None}, cred : Credentials, door : Doors]

TypeOK ==
  /\ now \in Nat
  /\ records \in [Addresses -> RecordType \cup {None}]
  /\ req \in [Requests -> RequestType]
  /\ wrong \in [Addresses -> Nat]
  /\ \A r \in Requests : req[r].at # "idle" => req[r].from \in Addresses
  /\ \A a \in Addresses : records[a] # None =>
       records[a].failures + records[a].doublings > 0

Strikes(a) ==
  IF records[a] = None THEN 0
  ELSE FailuresPerStep * records[a].doublings + records[a].failures

\* A configured client is never punished: whatever credentials of the
\* installation stand at which doors, and however requests of one address
\* overlap, nothing but a credential that nobody issued is counted.
OnlyGuessesCount == \A a \in Addresses : Strikes(a) <= wrong[a]

---------------------------------------------------------------------------
\* The records are a way to keep the abstract count: three failures a doubling.

Limiter == INSTANCE AttemptLimiter WITH
  strikes <- [a \in Addresses |-> Strikes(a)],
  until   <- [a \in Addresses |-> IF records[a] = None THEN 0 ELSE records[a].until],
  last    <- [a \in Addresses |-> IF records[a] = None THEN 0 ELSE records[a].last],
  Wait    <- [d \in Nat |-> Delay(d)]

\* Escalation holds: every third guess in a row from one address costs a wait,
\* each twice the one before it, and no interleaving of guesses, of requests
\* that were let past before the block, of successes and of waits wipes the
\* count but a success, a quiet that begins when the wait is over, or a restart.
Escalates == Limiter!Spec
=============================================================================
