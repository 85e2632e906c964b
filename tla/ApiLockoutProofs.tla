-------------------------- MODULE ApiLockoutProofs --------------------------
(***************************************************************************)
(* The records of app/lockout.py keep the promise of AttemptLimiter, for any *)
(* number of addresses and of requests at once, and whatever the delays are. *)
(* The strikes of an address are three a doubling and one a failure; that    *)
(* the failures of a record stay below three is what makes the next block    *)
(* fall on every third strike, so type correctness is the invariant.         *)
(***************************************************************************)
EXTENDS ApiLockout, TLAPS

\* Delays are times.
LEMMA DelayType == ASSUME NEW d \in Nat PROVE Delay(d) \in Nat
  BY Times DEF Delay

\* Another failure makes a record of a record.
LEMMA CountedType ==
  ASSUME NEW rec \in RecordType, now \in Nat
  PROVE  /\ Counted(rec) \in RecordType
         /\ Counted(rec).failures + Counted(rec).doublings > 0
<1>1. CASE rec.failures + 1 < FailuresPerStep
  <2>1. Counted(rec) = [rec EXCEPT !.failures = rec.failures + 1, !.last = now]
    BY <1>1 DEF Counted
  <2>2. /\ rec.failures \in 0..2 /\ rec.doublings \in Nat /\ rec.failures + 1 < 3
        /\ rec.until \in Nat
        /\ rec = [failures |-> rec.failures, until |-> rec.until,
                  doublings |-> rec.doublings, last |-> rec.last]
    BY <1>1 DEF RecordType, FailuresPerStep
  <2>3. Counted(rec) = [failures |-> rec.failures + 1, until |-> rec.until,
                        doublings |-> rec.doublings, last |-> now]
    BY <2>1, <2>2
  <2>4. QED
    BY <2>2, <2>3 DEF RecordType, FailuresPerStep
<1>2. CASE ~(rec.failures + 1 < FailuresPerStep)
  <2>1. Counted(rec) = [failures |-> 0, doublings |-> rec.doublings + 1, last |-> now,
                        until |-> now + Delay(rec.doublings)]
    BY <1>2 DEF Counted
  <2>2. Delay(rec.doublings) \in Nat
    BY DelayType DEF RecordType
  <2>3. QED
    BY <2>1, <2>2 DEF RecordType, FailuresPerStep
<1>3. QED
  BY <1>1, <1>2

LEMMA NewRecordType ==
  ASSUME now \in Nat
  PROVE  NewRecord \in RecordType
  BY DEF NewRecord, RecordType, FailuresPerStep

\* No step spoils a type.
LEMMA TypeStep == ASSUME TypeOK, [Next]_vars PROVE TypeOK'
<1>1. ASSUME NEW r \in Requests, Arrive(r) PROVE TypeOK'
  BY <1>1 DEF TypeOK, RequestType, Arrive
<1>2. ASSUME NEW r \in Requests, ArriveAtAdmin(r) PROVE TypeOK'
  BY <1>2 DEF TypeOK, ArriveAtAdmin, Idle, RequestType, Credentials, Doors
<1>3. ASSUME NEW r \in Requests, Anonymous(r) PROVE TypeOK'
  BY <1>3 DEF TypeOK, Anonymous, Idle, RequestType, Credentials, Doors
<1>4. ASSUME NEW r \in Requests, Accept(r) PROVE TypeOK'
  BY <1>4 DEF TypeOK, Accept, Reset, Idle, RequestType, Credentials, Doors
<1>5. ASSUME NEW r \in Requests, WrongDoor(r) PROVE TypeOK'
  BY <1>5 DEF TypeOK, WrongDoor, Idle, RequestType, Credentials, Doors
<1>6. ASSUME NEW r \in Requests, Reject(r) PROVE TypeOK'
  <2> DEFINE from == req[r].from
             rec == IF records[from] = None THEN NewRecord
                    ELSE IF now - QuietSince(records[from]) > ForgetAfter
                    THEN NewRecord ELSE records[from]
  <2>1. from \in Addresses /\ rec \in RecordType /\ now \in Nat
    BY <1>6, NewRecordType DEF TypeOK, Reject
  <2>2. records' = [records EXCEPT ![from] = Counted(rec)]
    BY <1>6 DEF Reject, RecordFailure
  <2>3. /\ records' \in [Addresses -> RecordType \cup {None}]
        /\ \A a \in Addresses : records'[a] # None =>
             records'[a].failures + records'[a].doublings > 0
    <3> HIDE DEF from, rec
    <3> QED BY <2>1, <2>2, CountedType DEF TypeOK
  <2>4. wrong' \in [Addresses -> Nat]
    BY <1>6, <2>1 DEF TypeOK, Reject
  <2>5. /\ req' \in [Requests -> RequestType]
        /\ \A q \in Requests : req'[q].at # "idle" => req'[q].from \in Addresses
    BY <1>6 DEF TypeOK, Reject, Idle, RequestType, Credentials, Doors
  <2>6. now' \in Nat
    BY <1>6 DEF TypeOK, Reject
  <2>7. QED
    BY <2>3, <2>4, <2>5, <2>6 DEF TypeOK
<1>7. CASE Tick
  BY <1>7 DEF TypeOK, Tick
<1>8. CASE Restart
  BY <1>8 DEF TypeOK, Restart, Idle, RequestType, Credentials, Doors
<1>9. CASE UNCHANGED vars
  BY <1>9 DEF TypeOK, vars
<1>10. QED
  BY <1>1, <1>2, <1>3, <1>4, <1>5, <1>6, <1>7, <1>8, <1>9 DEF Next

\* The state is well typed in every reachable state.
THEOREM TypeCorrect == Spec => []TypeOK
<1>1. Init => TypeOK
  BY DEF Init, TypeOK, Idle, RequestType, Credentials, Doors
<1>2. TypeOK /\ [Next]_vars => TypeOK'
  BY TypeStep
<1>3. QED
  BY <1>1, <1>2, PTL DEF Spec

---------------------------------------------------------------------------
\* What the abstract count sees of the records.
StrikesOf == [a \in Addresses |-> Strikes(a)]
UntilOf == [a \in Addresses |-> IF records[a] = None THEN 0 ELSE records[a].until]
LastOf == [a \in Addresses |-> IF records[a] = None THEN 0 ELSE records[a].last]

\* Recording a failure is one strike.
LEMMA FailureIsAStrike ==
  ASSUME TypeOK, NEW a \in Addresses, RecordFailure(a), now' = now
  PROVE  Limiter!Strike(a)
<1> DEFINE old == records[a]
           fresh == old = None \/ now - QuietSince(old) > ForgetAfter
           rec == IF fresh THEN NewRecord ELSE old
           count == IF fresh THEN 1 ELSE Strikes(a) + 1
<1>1. rec \in RecordType /\ now \in Nat /\ (old # None => old \in RecordType)
  BY NewRecordType DEF TypeOK
<1>2. records' = [records EXCEPT ![a] = Counted(rec)]
  BY DEF RecordFailure
<1>3. Limiter!Forgotten(a) <=> fresh
  <2>1. CASE old = None
    BY <2>1 DEF Limiter!Forgotten, Strikes
  <2>2. CASE old # None
    <3>1. Strikes(a) > 0
      BY <2>2, <1>1 DEF TypeOK, Strikes, RecordType, FailuresPerStep
    <3>2. Limiter!QuietSince(a) = QuietSince(old)
      BY <2>2 DEF Limiter!QuietSince, QuietSince
    <3>3. QED
      BY <2>2, <3>1, <3>2 DEF Limiter!Forgotten
  <2>3. QED
    BY <2>1, <2>2
<1>4. Counted(rec) \in RecordType /\ Counted(rec) # None
  BY <1>1, CountedType, NoneIsNoRecord
<1>5. records'[a] = Counted(rec) /\ \A b \in Addresses \ {a} : records'[b] = records[b]
  BY <1>2 DEF TypeOK
<1>6. count = 3 * rec.doublings + rec.failures + 1
  <2>1. CASE fresh
    BY <2>1 DEF NewRecord
  <2>2. CASE ~fresh
    BY <2>2, <1>1 DEF Strikes, RecordType, FailuresPerStep
  <2>3. QED
    BY <2>1, <2>2
<1>7. /\ 3 * Counted(rec).doublings + Counted(rec).failures = count
      /\ Counted(rec).last = now
      /\ Counted(rec).until = IF count % 3 = 0 THEN now + Delay(count \div 3 - 1)
                              ELSE rec.until
  <2>1. rec.failures \in 0..2 /\ rec.doublings \in Nat
    BY <1>1 DEF RecordType, FailuresPerStep
  <2>2. CASE rec.failures + 1 < 3
    <3>1. Counted(rec) = [rec EXCEPT !.failures = rec.failures + 1, !.last = now]
      BY <2>2 DEF Counted, FailuresPerStep
    <3>2. /\ Counted(rec).failures = rec.failures + 1 /\ Counted(rec).last = now
          /\ Counted(rec).doublings = rec.doublings /\ Counted(rec).until = rec.until
      BY <3>1, <1>1 DEF RecordType
    <3>3. count % 3 # 0
      <4> HIDE DEF count, rec
      <4> QED BY <2>1, <2>2, <1>6
    <3>4. QED
      <4> HIDE DEF count, rec
      <4> QED BY <2>1, <3>2, <3>3, <1>6
  <2>3. CASE ~(rec.failures + 1 < 3)
    <3>1. Counted(rec) = [failures |-> 0, doublings |-> rec.doublings + 1, last |-> now,
                          until |-> now + Delay(rec.doublings)]
      BY <2>3 DEF Counted, FailuresPerStep
    <3>2. count = 3 * (rec.doublings + 1) /\ count % 3 = 0
          /\ count \div 3 - 1 = rec.doublings
      <4> HIDE DEF count, rec
      <4> QED BY <2>1, <2>3, <1>6
    <3>3. QED
      <4> HIDE DEF count, rec
      <4> QED BY <2>1, <3>1, <3>2
  <2>4. QED
    BY <2>2, <2>3
<1>8. StrikesOf' = [StrikesOf EXCEPT ![a] = count]
  <2>1. Strikes(a)' = count
    BY <1>4, <1>5, <1>7 DEF Strikes, FailuresPerStep
  <2>2. \A b \in Addresses \ {a} : Strikes(b)' = Strikes(b)
    BY <1>5 DEF Strikes
  <2>3. QED
    BY <2>1, <2>2 DEF StrikesOf
<1>9. LastOf' = [LastOf EXCEPT ![a] = now]
  BY <1>4, <1>5, <1>7 DEF LastOf
<1>10. UntilOf' = [UntilOf EXCEPT ![a] =
          IF count % 3 = 0 THEN now + [d \in Nat |-> Delay(d)][count \div 3 - 1]
          ELSE IF fresh THEN 0 ELSE UntilOf[a]]
  <2>1. count % 3 = 0 => count \div 3 - 1 \in Nat
    <3>1. count \in Nat /\ count > 0
      BY <1>6, <1>1 DEF RecordType, FailuresPerStep
    <3>2. QED
      <4> HIDE DEF count
      <4> QED BY <3>1
  <2>2. rec.until = IF fresh THEN 0 ELSE UntilOf[a]
    BY DEF NewRecord, UntilOf
  <2>3. Counted(rec).until =
          IF count % 3 = 0 THEN now + [d \in Nat |-> Delay(d)][count \div 3 - 1]
          ELSE IF fresh THEN 0 ELSE UntilOf[a]
    <3> HIDE DEF count, rec, fresh
    <3> QED BY <1>7, <2>1, <2>2
  <2>4. QED
    <3> HIDE DEF count, rec, fresh
    <3> QED BY <1>4, <1>5, <2>3 DEF UntilOf
<1>11. QED
  <2> HIDE DEF fresh, rec
  <2> QED BY <1>3, <1>8, <1>9, <1>10
       DEF Limiter!Strike, Limiter!FailuresPerStep, StrikesOf, UntilOf, LastOf

\* A success forgets the address.
LEMMA ResetForgives ==
  ASSUME TypeOK, NEW a \in Addresses, Reset(a), now' = now
  PROVE  Limiter!Forgive(a)
  BY DEF TypeOK, Reset, Limiter!Forgive, Strikes

\* Escalation holds for every number of addresses and of requests at once: the
\* lockout's records are an implementation of the abstract count of attempts.
THEOREM LockoutEscalates == Spec => Escalates
<1>1. Init => Limiter!Init
  BY DEF Init, Limiter!Init, Strikes
<1>2. TypeOK /\ [Next]_vars => [Limiter!Next]_(Limiter!vars)
  <2> SUFFICES ASSUME TypeOK, [Next]_vars PROVE [Limiter!Next]_(Limiter!vars)
    OBVIOUS
  <2>1. ASSUME records' = records, now' = now PROVE UNCHANGED Limiter!vars
    BY <2>1 DEF Limiter!vars, Strikes
  <2>2. ASSUME NEW r \in Requests, Reject(r) PROVE Limiter!Next
    <3>1. req[r].from \in Addresses
      BY <2>2 DEF TypeOK, Reject
    <3>2. QED
      BY <2>2, <3>1, FailureIsAStrike DEF Reject, Limiter!Next
  <2>3. ASSUME NEW r \in Requests, Accept(r) PROVE Limiter!Next
    <3>1. req[r].from \in Addresses
      BY <2>3 DEF TypeOK, Accept
    <3>2. QED
      BY <2>3, <3>1, ResetForgives DEF Accept, Limiter!Next
  <2>4. CASE Tick
    <3>1. Limiter!Pass
      BY <2>4 DEF TypeOK, Tick, Limiter!Pass, Strikes
    <3>2. QED
      BY <3>1 DEF Limiter!Next
  <2>5. CASE Restart
    <3>1. Limiter!ForgiveAll
      BY <2>5 DEF Restart, Limiter!ForgiveAll, Strikes
    <3>2. QED
      BY <3>1 DEF Limiter!Next
  <2>6. CASE \E r \in Requests : Arrive(r) \/ ArriveAtAdmin(r) \/ Anonymous(r) \/ WrongDoor(r)
    BY <2>1, <2>6 DEF Arrive, ArriveAtAdmin, Anonymous, WrongDoor
  <2>7. CASE UNCHANGED vars
    BY <2>1, <2>7 DEF vars
  <2>8. QED
    BY <2>2, <2>3, <2>4, <2>5, <2>6, <2>7 DEF Next
<1>3. QED
  BY <1>1, <1>2, TypeCorrect, PTL DEF Spec, Escalates, Limiter!Spec

\* The strikes of an address are a number.
LEMMA StrikesType ==
  ASSUME TypeOK, NEW a \in Addresses
  PROVE  Strikes(a) \in Nat
<1>1. CASE records[a] = None
  BY <1>1 DEF Strikes
<1>2. CASE records[a] # None
  <2>1. records[a].doublings \in Nat /\ records[a].failures \in Nat
    BY <1>2 DEF TypeOK, RecordType, FailuresPerStep
  <2>2. QED
    BY <1>2, <2>1 DEF Strikes, FailuresPerStep
<1>3. QED
  BY <1>1, <1>2

\* An address without a record has no strikes.
LEMMA NoRecordNoStrikes ==
  ASSUME NEW a \in Addresses, records[a] = None
  PROVE  Strikes(a) = 0
  BY DEF Strikes

\* One failure is at most one strike more, and at nobody else.
LEMMA OneStrikeMore ==
  ASSUME TypeOK, TypeOK', NEW from \in Addresses, RecordFailure(from), now' = now
  PROVE  /\ Strikes(from)' <= Strikes(from) + 1
         /\ \A b \in Addresses \ {from} : Strikes(b)' = Strikes(b)
<1> DEFINE count == IF Limiter!Forgotten(from) THEN 1 ELSE Strikes(from) + 1
<1>1. StrikesOf' = [StrikesOf EXCEPT ![from] = count]
  BY FailureIsAStrike DEF Limiter!Strike, StrikesOf
<1>2. Strikes(from)' = count
  <2>1. StrikesOf'[from] = Strikes(from)'
    BY DEF StrikesOf
  <2>2. [StrikesOf EXCEPT ![from] = count][from] = count
    <3> HIDE DEF count
    <3> QED BY DEF StrikesOf
  <2>3. QED
    BY <1>1, <2>1, <2>2
<1>3. Strikes(from) \in Nat
  BY StrikesType
<1>4. \A b \in Addresses \ {from} : Strikes(b)' = Strikes(b)
  BY DEF RecordFailure, TypeOK, Strikes
<1>5. QED
  BY <1>2, <1>3, <1>4

\* Nothing but a credential that nobody issued is counted, for any number of
\* addresses and of requests at once.
THEOREM GuessesAlone == Spec => []OnlyGuessesCount
<1>1. Init => OnlyGuessesCount
  <2> SUFFICES ASSUME Init, NEW a \in Addresses PROVE Strikes(a) <= wrong[a]
    BY DEF OnlyGuessesCount
  <2>1. records[a] = None /\ wrong[a] = 0
    BY DEF Init
  <2>2. QED
    BY <2>1, NoRecordNoStrikes
<1>2. TypeOK /\ OnlyGuessesCount /\ [Next]_vars => OnlyGuessesCount'
  <2> SUFFICES ASSUME TypeOK, OnlyGuessesCount, [Next]_vars, NEW a \in Addresses
               PROVE  (Strikes(a) <= wrong[a])'
    BY DEF OnlyGuessesCount
  <2>1. Strikes(a) \in Nat /\ wrong[a] \in Nat /\ Strikes(a) <= wrong[a]
    BY StrikesType DEF TypeOK, OnlyGuessesCount
  <2>2. TypeOK'
    BY TypeStep
  <2>3. ASSUME records' = records, wrong' = wrong PROVE (Strikes(a) <= wrong[a])'
    BY <2>1, <2>3 DEF Strikes
  <2>4. ASSUME NEW r \in Requests, Reject(r) PROVE (Strikes(a) <= wrong[a])'
    <3>1. PICK from \in Addresses : from = req[r].from
      BY <2>4 DEF TypeOK, Reject
    <3>2. req[r].cred = "unknown"
      BY <2>4 DEF TypeOK, RequestType, Credentials, Reject, IsConfiguredCredential
    <3>3. /\ RecordFailure(from) /\ now' = now
          /\ wrong' = [wrong EXCEPT ![from] = @ + 1]
      BY <2>4, <3>1, <3>2 DEF Reject
    <3>4. /\ Strikes(from)' <= Strikes(from) + 1
          /\ \A b \in Addresses \ {from} : Strikes(b)' = Strikes(b)
      BY <2>2, <3>3, OneStrikeMore
    <3>5. CASE a = from
      <4>1. Strikes(a)' \in Nat
        <5>1. CASE records'[a] = None
          BY <5>1 DEF Strikes
        <5>2. CASE records'[a] # None
          <6>1. records'[a].doublings \in Nat /\ records'[a].failures \in Nat
            BY <2>2, <5>2 DEF TypeOK, RecordType, FailuresPerStep
          <6>2. QED
            BY <5>2, <6>1 DEF Strikes, FailuresPerStep
        <5>3. QED
          BY <5>1, <5>2
      <4>2. wrong'[a] = wrong[a] + 1
        BY <3>3, <3>5 DEF TypeOK
      <4>3. QED
        BY <2>1, <3>4, <3>5, <4>1, <4>2
    <3>6. CASE a # from
      BY <2>1, <3>3, <3>4, <3>6 DEF TypeOK
    <3>7. QED
      BY <3>5, <3>6
  <2>5. ASSUME NEW r \in Requests, Accept(r) PROVE (Strikes(a) <= wrong[a])'
    <3>1. PICK from \in Addresses : from = req[r].from
      BY <2>5 DEF TypeOK, Accept
    <3>2. records' = [records EXCEPT ![from] = None] /\ wrong' = [wrong EXCEPT ![from] = 0]
      BY <2>5, <3>1 DEF Accept, Reset
    <3>3. CASE a = from
      <4>1. records'[a] = None /\ wrong'[a] = 0
        BY <3>2, <3>3 DEF TypeOK
      <4>2. QED
        BY <4>1 DEF Strikes
    <3>4. CASE a # from
      <4>1. records'[a] = records[a] /\ wrong'[a] = wrong[a]
        BY <3>2, <3>4 DEF TypeOK
      <4>2. QED
        BY <2>1, <4>1 DEF Strikes
    <3>5. QED
      BY <3>3, <3>4
  <2>6. CASE Restart
    <3>1. records'[a] = None /\ wrong'[a] = 0
      BY <2>6 DEF Restart
    <3>2. QED
      BY <3>1 DEF Strikes
  <2>7. CASE \/ \E r \in Requests : Arrive(r) \/ ArriveAtAdmin(r) \/ Anonymous(r) \/ WrongDoor(r)
             \/ Tick
    BY <2>3, <2>7 DEF Arrive, ArriveAtAdmin, Anonymous, WrongDoor, Tick
  <2>8. CASE UNCHANGED vars
    BY <2>3, <2>8 DEF vars
  <2>9. QED
    BY <2>4, <2>5, <2>6, <2>7, <2>8 DEF Next
<1>3. QED
  BY <1>1, <1>2, TypeCorrect, PTL DEF Spec
=============================================================================
