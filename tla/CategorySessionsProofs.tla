------------------------ MODULE CategorySessionsProofs ------------------------
(***************************************************************************)
(* The session managers of app/category_endpoint.py, for any number of     *)
(* categories, instances, requests, stop_alls and _serve tasks.            *)
(***************************************************************************)
EXTENDS CategorySessions, FiniteSetTheorems, TLAPS

-----------------------------------------------------------------------------
(***************************************************************************)
(* Types, the numbers of the tasks, and who holds the lock                 *)
(***************************************************************************)

\* A task is numbered when it starts, and a request that waits for the lock may
\* need one; the lock is held by the request that waits for its task to be ready.
SessionsInv ==
  /\ TypeOK
  /\ IsFiniteSet(Pending) /\ Cardinality(Started) + Cardinality(Pending) <= MaxServes
  /\ \A r \in Requests :
       /\ request[r].at \in {"lock", "ready"} => request[r].category \in Categories
       /\ request[r].at = "ready" => request[r].task \in Started /\ lock = r
  /\ lock # None => request[lock].at = "ready"
  /\ \A c \in Categories : known[c] # None => known[c] \in Started

\* The tasks are 1, 2, ... in the order of their start.
LEMMA Numbered ==
  ASSUME TypeOK
  PROVE  /\ IsFiniteSet(Started) /\ Cardinality(Started) \in Nat
         /\ Started = 1..Cardinality(Started) /\ Started \subseteq Serves
<1>1. PICK n \in 0..MaxServes : Started = 1..n
  BY DEF TypeOK, Started
<1>2. IsFiniteSet(Started) /\ Cardinality(Started) = n
  BY <1>1, FS_Interval, Enough
<1>. QED
  BY <1>1, <1>2, Enough DEF Serves

LEMMA SessionsInit == Init => SessionsInv
<1> SUFFICES ASSUME Init PROVE SessionsInv
  OBVIOUS
<1>1. Started = {} /\ Started = 1..0
  BY DEF Init, Started
<1>2. Pending = {}
  BY DEF Init, Pending
<1>3. IsFiniteSet({}) /\ Cardinality({}) = 0
  BY FS_EmptySet
<1>4. TypeOK
  <2>1. request \in [Requests -> RequestType]
    BY DEF Init, RequestType, ServeOrNone
  <2>2. stopper \in [Stoppers -> [at : {"idle", "awaiting", "done"}, tasks : SUBSET Started]]
    BY DEF Init
  <2>3. \E n \in 0..MaxServes : DOMAIN serve = 1..n
    BY <1>1, Enough DEF Started
  <2>4. \A g \in Started : serve[g] \in ServeType
    BY <1>1
  <2>5. managers \in [Categories -> ServeOrNone] /\ known \in [Categories -> ServeOrNone]
    BY DEF Init, ServeOrNone
  <2>6. member \in [Instances -> Categories \cup {None}]
    BY DEF Init
  <2>. QED
    BY <2>1, <2>2, <2>3, <2>4, <2>5, <2>6 DEF Init, TypeOK
<1>. QED
  BY <1>1, <1>2, <1>3, <1>4, Enough DEF Init, SessionsInv

\* A request that changes: the others do not.
LEMMA OneRequest ==
  ASSUME SessionsInv, NEW r \in Requests, NEW q \in RequestType, request' = [request EXCEPT ![r] = q]
  PROVE  /\ request' \in [Requests -> RequestType] /\ request'[r] = q
         /\ \A p \in Requests : p # r => request'[p] = request[p]
  BY DEF SessionsInv, TypeOK

LEMMA AnswerHas ==
  ASSUME SessionsInv, NEW r \in Requests, NEW g \in ServeOrNone, Answered(r, g)
  PROVE  /\ request' \in [Requests -> RequestType] /\ request'[r].at = "answered"
         /\ \A p \in Requests : p # r => request'[p] = request[p]
<1> DEFINE q == [request[r] EXCEPT !.at = "answered", !.task = g]
<1>1. request[r] \in RequestType
  BY DEF SessionsInv, TypeOK
<1>2. q \in RequestType /\ q.at = "answered"
  BY <1>1 DEF RequestType
<1>3. request' = [request EXCEPT ![r] = q]
  BY DEF Answered, SessionsInv, TypeOK
<1> HIDE DEF q
<1>. QED
  BY <1>2, <1>3, OneRequest

\* A request that stops waiting for the lock makes room for a task.
LEMMA OneLessPending ==
  ASSUME IsFiniteSet(Pending), NEW r \in Requests, r \in Pending, Pending' = Pending \ {r}
  PROVE  IsFiniteSet(Pending') /\ Cardinality(Pending') = Cardinality(Pending) - 1
         /\ Cardinality(Pending) \in Nat
  BY FS_RemoveElement, FS_CardinalityType

LEMMA SamePending ==
  ASSUME SessionsInv, Pending' = Pending, Started' = Started
  PROVE  IsFiniteSet(Pending') /\ Cardinality(Started') + Cardinality(Pending') <= MaxServes
  BY DEF SessionsInv

\* Tasks that change their state: the table and the numbers stay.
LEMMA TasksChange ==
  ASSUME SessionsInv, DOMAIN serve' = DOMAIN serve, \A g \in Started : serve'[g] \in ServeType,
         UNCHANGED <<lock, request>>,
         \A c \in Categories : known'[c] \in {known[c], None},
         DOMAIN known' = Categories, known' = [c \in Categories |-> known'[c]],
         doors' \subseteq {"manager", "own"}, member' = member,
         managers' \in [Categories -> ServeOrNone],
         stopper' \in [Stoppers -> [at : {"idle", "awaiting", "done"}, tasks : SUBSET Started]],
         slow' \in BOOLEAN, lost' \in BOOLEAN
  PROVE  SessionsInv'
<1>1. Started' = Started /\ Pending' = Pending
  BY DEF Started, Pending
<1>2. known' \in [Categories -> ServeOrNone]
  BY DEF SessionsInv, TypeOK, ServeOrNone
<1>3. TypeOK'
  BY <1>1, <1>2 DEF SessionsInv, TypeOK, Started
<1>. QED
  BY <1>1, <1>3, SamePending DEF SessionsInv

\* A task that changes where it is.
LEMMA Moved ==
  ASSUME SessionsInv, NEW g \in Started, NEW at \in {"starting", "up", "winding", "ended"},
         serve' = [serve EXCEPT ![g].at = at]
  PROVE  /\ DOMAIN serve' = DOMAIN serve
         /\ \A h \in Started : /\ serve'[h] \in ServeType
                               /\ serve'[h].category = serve[h].category /\ serve'[h].stop = serve[h].stop
                               /\ serve'[h].at = IF h = g THEN at ELSE serve[h].at
<1>1. \A h \in Started : serve[h] \in ServeType
  BY DEF SessionsInv, TypeOK
<1>2. \A h \in Started : serve'[h] = IF h = g THEN [serve[g] EXCEPT !.at = at] ELSE serve[h]
  BY DEF Started
<1>3. [serve[g] EXCEPT !.at = at] \in ServeType
      /\ [serve[g] EXCEPT !.at = at].category = serve[g].category
      /\ [serve[g] EXCEPT !.at = at].stop = serve[g].stop /\ [serve[g] EXCEPT !.at = at].at = at
  BY <1>1 DEF ServeType
<1>4. DOMAIN serve' = DOMAIN serve
  OBVIOUS
<1>5. ASSUME NEW h \in Started
      PROVE  /\ serve'[h] \in ServeType
             /\ serve'[h].category = serve[h].category /\ serve'[h].stop = serve[h].stop
             /\ serve'[h].at = IF h = g THEN at ELSE serve[h].at
  <2>1. CASE h = g
    BY <1>2, <1>3, <2>1
  <2>2. CASE h # g
    BY <1>1, <1>2, <2>2
  <2>. QED
    BY <2>1, <2>2
<1>. QED
  BY <1>4, <1>5

\* stop_all sets the stop events of what it knows.
LEMMA Told ==
  ASSUME SessionsInv,
         serve' = [g \in Started |-> IF g \in Known THEN [serve[g] EXCEPT !.stop = TRUE] ELSE serve[g]]
  PROVE  /\ DOMAIN serve' = DOMAIN serve
         /\ \A h \in Started : /\ serve'[h] \in ServeType
                               /\ serve'[h].category = serve[h].category /\ serve'[h].at = serve[h].at
                               /\ serve'[h].stop = (serve[h].stop \/ h \in Known)
<1>1. \A h \in Started : serve[h] \in ServeType
  BY DEF SessionsInv, TypeOK
<1>2. ASSUME NEW h \in Started
      PROVE  /\ [serve[h] EXCEPT !.stop = TRUE] \in ServeType
             /\ [serve[h] EXCEPT !.stop = TRUE].category = serve[h].category
             /\ [serve[h] EXCEPT !.stop = TRUE].at = serve[h].at
             /\ [serve[h] EXCEPT !.stop = TRUE].stop = TRUE
  BY <1>1 DEF ServeType
<1>3. \A h \in Started : serve[h].stop \in BOOLEAN
  BY <1>1 DEF ServeType
<1>. QED
  BY <1>1, <1>2, <1>3 DEF Started

LEMMA DoneHas ==
  ASSUME SessionsInv, NEW s \in Stoppers, Done(s)
  PROVE  stopper' \in [Stoppers -> [at : {"idle", "awaiting", "done"}, tasks : SUBSET Started]]
         /\ stopper'[s].tasks = {} /\ \A u \in Stoppers : u # s => stopper'[u] = stopper[u]
  BY DEF Done, SessionsInv, TypeOK

\* The task of a new number.
LEMMA NewTask ==
  ASSUME SessionsInv, NEW r \in Requests, Starts(r)
  PROVE  LET g == Cardinality(Started) + 1
             c == request[r].category
         IN /\ g \in Serves /\ g \notin Started /\ Started' = Started \cup {g} /\ Started' = 1..g
            /\ c \in Categories /\ managers[c] = None /\ lock = None /\ lock' = r
            /\ serve'[g] = [category |-> c, at |-> "starting", stop |-> FALSE]
            /\ \A h \in Started : serve'[h] = serve[h]
            /\ known' = [known EXCEPT ![c] = g]
            /\ request' \in [Requests -> RequestType]
            /\ request'[r].at = "ready" /\ request'[r].task = g /\ request'[r].category = c
            /\ \A p \in Requests : p # r => request'[p] = request[p]
            /\ Pending' = Pending \ {r} /\ r \in Pending
            /\ Cardinality(Started') = g
<1> DEFINE g == Cardinality(Started) + 1
           c == request[r].category
           q == [request[r] EXCEPT !.at = "ready", !.task = g]
<1>1. /\ IsFiniteSet(Started) /\ Cardinality(Started) \in Nat
      /\ Started = 1..Cardinality(Started)
  BY Numbered DEF SessionsInv
<1>2. r \in Pending /\ c \in Categories /\ managers[c] = None /\ lock = None /\ lock' = r
  BY DEF Starts, Pending, SessionsInv
<1>3. Cardinality(Pending) \in Nat /\ Cardinality(Pending) >= 1
  <2>1. IsFiniteSet(Pending) /\ Pending # {}
    BY <1>2 DEF SessionsInv
  <2>. QED
    BY <2>1, FS_CardinalityType, FS_EmptySet
<1>4. g \in Serves /\ g \notin Started /\ Started \cup {g} = 1..g
  BY <1>1, <1>3, Enough DEF SessionsInv, Serves
<1>5. Cardinality(1..g) = g
  BY <1>4, FS_Interval, Enough DEF Serves
<1>6. serve' = [h \in Started \cup {g} |->
                  IF h = g THEN [category |-> c, at |-> "starting", stop |-> FALSE] ELSE serve[h]]
      /\ known' = [known EXCEPT ![c] = g]
  BY DEF Starts, Registered
<1>7. Started' = Started \cup {g}
  BY <1>6 DEF Started
<1>8. request' = [request EXCEPT ![r] = q]
  BY DEF Starts, SessionsInv, TypeOK
<1>9. request[r] \in RequestType
  BY DEF SessionsInv, TypeOK
<1>10. q \in RequestType /\ q.at = "ready" /\ q.task = g /\ q.category = c
  <2> HIDE DEF g
  <2>. QED
    BY <1>4, <1>9 DEF RequestType, ServeOrNone
<1> HIDE DEF g, c, q
<1>11. request' \in [Requests -> RequestType] /\ request'[r] = q
       /\ \A p \in Requests : p # r => request'[p] = request[p]
  BY <1>8, <1>10, OneRequest
<1>12. Pending' = Pending \ {r}
  BY <1>10, <1>11 DEF Pending
<1>13. serve'[g] = [category |-> c, at |-> "starting", stop |-> FALSE]
       /\ \A h \in Started : serve'[h] = serve[h]
  BY <1>4, <1>6
<1>14. Cardinality(Started') = g
  BY <1>4, <1>5, <1>7
<1>. QED
  BY <1>2, <1>4, <1>6, <1>7, <1>10, <1>11, <1>12, <1>13, <1>14 DEF g, c

\* What a step of a stop_all does to its list and the map.
LEMMA AwaitedHas ==
  ASSUME SessionsInv, NEW s \in Stoppers, StopAwaited(s)
  PROVE  /\ \E g \in stopper[s].tasks :
              /\ g \in Started
              /\ \/ UNCHANGED serve
                 \/ serve[g].at # "ended" /\ serve' = [serve EXCEPT ![g].at = "winding"]
         /\ stopper' \in [Stoppers -> [at : {"idle", "awaiting", "done"}, tasks : SUBSET Started]]
         /\ \A u \in Stoppers : stopper'[u].tasks \subseteq stopper[u].tasks
         /\ UNCHANGED <<managers, lost>> \/ Clear
         /\ UNCHANGED <<doors, member, known, lock, request, slow>>
<1>1. PICK g \in stopper[s].tasks :
           /\ \/ serve[g].at = "ended" /\ UNCHANGED serve
              \/ serve[g].at # "ended" /\ serve' = [serve EXCEPT ![g].at = "winding"]
           /\ IF stopper[s].tasks = {g} THEN Done(s) /\ Clear
              ELSE stopper' = [stopper EXCEPT ![s].tasks = @ \ {g}] /\ UNCHANGED <<managers, lost>>
  BY DEF StopAwaited
<1>2. /\ stopper \in [Stoppers -> [at : {"idle", "awaiting", "done"}, tasks : SUBSET Started]]
      /\ g \in Started
  BY DEF SessionsInv, TypeOK
<1>3. CASE stopper' = [stopper EXCEPT ![s].tasks = @ \ {g}]
  <2> DEFINE q == [stopper[s] EXCEPT !.tasks = @ \ {g}]
  <2>1. q \in [at : {"idle", "awaiting", "done"}, tasks : SUBSET Started]
        /\ q.tasks = stopper[s].tasks \ {g}
    BY <1>2
  <2>2. stopper' = [stopper EXCEPT ![s] = q]
    BY <1>2, <1>3
  <2> HIDE DEF q
  <2>. QED
    BY <1>1, <1>2, <2>1, <2>2 DEF StopAwaited, Done
<1>4. CASE Done(s) /\ Clear
  BY <1>1, <1>2, <1>4, DoneHas DEF StopAwaited
<1>. QED
  BY <1>1, <1>3, <1>4

LEMMA BeginsHas ==
  ASSUME SessionsInv, NEW s \in Stoppers, StopBegins(s)
  PROVE  /\ stopper' \in [Stoppers -> [at : {"idle", "awaiting", "done"}, tasks : SUBSET Started]]
         /\ \A u \in Stoppers : stopper'[u].tasks \subseteq stopper[u].tasks \cup Known
         /\ UNCHANGED <<managers, lost>> \/ (Known = {} /\ Clear)
<1>1. stopper \in [Stoppers -> [at : {"idle", "awaiting", "done"}, tasks : SUBSET Started]]
  BY DEF SessionsInv, TypeOK
<1>2. Known \subseteq Started
  BY DEF Known, SessionsInv
<1>3. CASE Done(s) /\ Clear /\ Known = {}
  BY <1>3, DoneHas
<1>4. CASE stopper' = [stopper EXCEPT ![s] = [at |-> "awaiting", tasks |-> Known]]
           /\ UNCHANGED <<managers, lost>>
  BY <1>1, <1>2, <1>4
<1>. QED
  BY <1>3, <1>4 DEF StopBegins

LEMMA SessionsStep == SessionsInv /\ [Next]_vars => SessionsInv'
<1> SUFFICES ASSUME SessionsInv, [Next]_vars PROVE SessionsInv'
  OBVIOUS
<1>0. /\ known = [c \in Categories |-> known[c]] /\ DOMAIN known = Categories
      /\ managers \in [Categories -> ServeOrNone]
      /\ \A g \in Started : serve[g] \in ServeType
      /\ stopper \in [Stoppers -> [at : {"idle", "awaiting", "done"}, tasks : SUBSET Started]]
      /\ slow \in BOOLEAN /\ lost \in BOOLEAN /\ doors \subseteq {"manager", "own"}
      /\ request \in [Requests -> RequestType] /\ Started \subseteq ServeOrNone
  BY Numbered DEF SessionsInv, TypeOK, ServeOrNone
<1>1. ASSUME UNCHANGED <<managers, known, serve, lock, request, stopper, slow, lost>>,
             doors' \subseteq {"manager", "own"}, member' \in [Instances -> Categories \cup {None}]
      PROVE  SessionsInv'
  <2>1. Pending' = Pending /\ Started' = Started
    BY <1>1 DEF Pending, Started
  <2>2. TypeOK'
    BY <1>1, <2>1 DEF SessionsInv, TypeOK
  <2>. QED
    BY <1>1, <2>1, <2>2 DEF SessionsInv
<1>2. ASSUME NEW r \in Requests, Arrives(r) PROVE SessionsInv'
  <2>1. PICK c \in Categories :
           request' = [request EXCEPT ![r] = [at |-> "lock", category |-> c, task |-> None]]
    BY <1>2 DEF Arrives
  <2>2. [at |-> "lock", category |-> c, task |-> None] \in RequestType
    BY DEF RequestType, ServeOrNone
  <2>3. /\ request' \in [Requests -> RequestType]
        /\ request'[r].at = "lock" /\ request'[r].category = c
        /\ \A p \in Requests : p # r => request'[p] = request[p]
    BY <2>1, <2>2, OneRequest
  <2>4. Pending' = Pending \cup {r} /\ Started' = Started /\ r \notin Pending
        /\ Cardinality(Started) + Cardinality(Pending) < MaxServes
    BY <1>2, <2>3 DEF Arrives, Pending, Started
  <2>5. IsFiniteSet(Pending') /\ Cardinality(Pending') = Cardinality(Pending) + 1
        /\ Cardinality(Pending) \in Nat /\ Cardinality(Started) \in Nat
    BY <2>4, FS_AddElement, FS_CardinalityType, Numbered DEF SessionsInv
  <2>6. Cardinality(Started') + Cardinality(Pending') <= MaxServes
    BY <2>4, <2>5, Enough
  <2>7. TypeOK'
    BY <1>2, <2>3, <2>4 DEF Arrives, SessionsInv, TypeOK
  <2>. QED
    BY <1>2, <2>3, <2>4, <2>5, <2>6, <2>7 DEF Arrives, SessionsInv
<1>3. ASSUME NEW r \in Requests, Finds(r) PROVE SessionsInv'
  <2>1. Answered(r, managers[request[r].category]) /\ managers[request[r].category] \in ServeOrNone
        /\ r \in Pending
    BY <1>0, <1>3 DEF Finds, Pending, SessionsInv
  <2>2. /\ request' \in [Requests -> RequestType] /\ request'[r].at = "answered"
        /\ \A p \in Requests : p # r => request'[p] = request[p]
    BY <2>1, AnswerHas
  <2>3. Pending' = Pending \ {r} /\ Started' = Started
    BY <1>3, <2>2 DEF Finds, Pending, Started
  <2>4. IsFiniteSet(Pending') /\ Cardinality(Pending') = Cardinality(Pending) - 1
        /\ Cardinality(Pending) \in Nat /\ Cardinality(Started) \in Nat
    BY <2>1, <2>3, OneLessPending, Numbered DEF SessionsInv
  <2>5. Cardinality(Started') + Cardinality(Pending') <= MaxServes
    BY <2>3, <2>4, Enough DEF SessionsInv
  <2>6. TypeOK'
    BY <1>3, <2>2, <2>3 DEF Finds, SessionsInv, TypeOK
  <2>7. request[r].at = "lock"
    BY <1>3 DEF Finds
  <2>. QED
    BY <1>3, <2>2, <2>3, <2>4, <2>5, <2>6, <2>7 DEF Finds, SessionsInv
<1>4. ASSUME NEW r \in Requests, Starts(r) PROVE SessionsInv'
  <2> DEFINE g == Cardinality(Started) + 1
             c == request[r].category
  <2>1. /\ g \in Serves /\ g \notin Started /\ Started' = Started \cup {g} /\ Started' = 1..g
        /\ c \in Categories /\ managers[c] = None /\ lock = None /\ lock' = r
        /\ serve'[g] = [category |-> c, at |-> "starting", stop |-> FALSE]
        /\ \A h \in Started : serve'[h] = serve[h]
        /\ known' = [known EXCEPT ![c] = g]
        /\ request' \in [Requests -> RequestType]
        /\ request'[r].at = "ready" /\ request'[r].task = g /\ request'[r].category = c
        /\ \A p \in Requests : p # r => request'[p] = request[p]
        /\ Pending' = Pending \ {r} /\ r \in Pending
        /\ Cardinality(Started') = g
    BY <1>4, NewTask
  <2>2. IsFiniteSet(Pending') /\ Cardinality(Pending') = Cardinality(Pending) - 1
        /\ Cardinality(Pending) \in Nat /\ Cardinality(Started) \in Nat
    BY <2>1, OneLessPending, Numbered DEF SessionsInv
  <2>3. Cardinality(Started') + Cardinality(Pending') <= MaxServes
    BY <2>1, <2>2, Enough DEF SessionsInv
  <2> HIDE DEF g, c
  <2>4. known' \in [Categories -> ServeOrNone]
    BY <2>1 DEF SessionsInv, TypeOK, ServeOrNone
  <2>5. \A h \in Started' : serve'[h] \in ServeType
    <3>1. serve'[g] \in ServeType
      BY <2>1 DEF ServeType
    <3>. QED
      BY <1>0, <2>1, <3>1
  <2>6. stopper' \in [Stoppers -> [at : {"idle", "awaiting", "done"}, tasks : SUBSET Started']]
    <3>1. stopper' = stopper
      BY <1>4 DEF Starts
    <3>. QED
      BY <1>0, <2>1, <3>1
  <2>7. \E n \in 0..MaxServes : Started' = 1..n
    BY <2>1, Enough DEF Serves
  <2>8. UNCHANGED <<doors, member, managers, slow, lost>>
    BY <1>4 DEF Starts
  <2>9. TypeOK'
    BY <2>1, <2>4, <2>5, <2>6, <2>7, <2>8 DEF SessionsInv, TypeOK, Started
  <2>10. \A d \in Categories : known'[d] # None => known'[d] \in Started'
    BY <2>1 DEF SessionsInv, TypeOK
  <2>11. \A p \in Requests : p # r => request[p].at # "ready"
    BY <2>1, Enough DEF SessionsInv
  <2>. QED
    BY <2>1, <2>2, <2>3, <2>9, <2>10, <2>11, Enough DEF SessionsInv
<1>5. ASSUME NEW r \in Requests, Ready(r) \/ TimesOut(r) PROVE SessionsInv'
  <2>1. PICK g \in ServeOrNone : Answered(r, g)
    BY <1>0, <1>5 DEF Ready, TimesOut, SessionsInv, ServeOrNone
  <2>2. /\ request' \in [Requests -> RequestType] /\ request'[r].at = "answered"
        /\ \A p \in Requests : p # r => request'[p] = request[p]
    BY <2>1, AnswerHas
  <2>3. request[r].at = "ready" /\ lock = r /\ lock' = None
        /\ UNCHANGED <<doors, member, managers, known, serve, stopper, lost>> /\ slow' \in BOOLEAN
    BY <1>0, <1>5 DEF Ready, TimesOut, SessionsInv
  <2>4. Pending' = Pending /\ Started' = Started
    BY <2>2, <2>3 DEF Pending, Started
  <2>5. \A p \in Requests : request'[p].at # "ready"
    BY <2>2, <2>3 DEF SessionsInv
  <2>6. TypeOK'
    BY <2>2, <2>3, <2>4 DEF SessionsInv, TypeOK
  <2>. QED
    BY <2>2, <2>3, <2>4, <2>5, <2>6, SamePending DEF SessionsInv
<1>6. ASSUME NEW g \in Started, ComesUp(g) \/ WindsDown(g) \/ Ends(g) PROVE SessionsInv'
  <2>1. \E at \in {"up", "winding", "ended"} : serve' = [serve EXCEPT ![g].at = at]
    BY <1>6 DEF ComesUp, WindsDown, Ends
  <2>2. DOMAIN serve' = DOMAIN serve /\ \A h \in Started : serve'[h] \in ServeType
    BY <2>1, Moved
  <2>3. managers' \in [Categories -> ServeOrNone] /\ lost' \in BOOLEAN
    BY <1>0, <1>6 DEF ComesUp, WindsDown, Ends, ServeOrNone
  <2>4. UNCHANGED <<doors, member, known, lock, request, stopper, slow>>
    BY <1>6 DEF ComesUp, WindsDown, Ends
  <2>. QED
    BY <1>0, <2>2, <2>3, <2>4, TasksChange
<1>7. ASSUME NEW s \in Stoppers, StopBegins(s) PROVE SessionsInv'
  <2>1. DOMAIN serve' = DOMAIN serve /\ \A h \in Started : serve'[h] \in ServeType
    BY <1>7, Told DEF StopBegins
  <2>2. known' = [c \in Categories |-> None] /\ UNCHANGED <<member, lock, request, slow>>
        /\ doors' \subseteq {"manager", "own"}
    BY <1>0, <1>7 DEF StopBegins
  <2>3. managers' \in [Categories -> ServeOrNone] /\ lost' \in BOOLEAN
    BY <1>0, <1>7, BeginsHas DEF Clear, ServeOrNone
  <2>. QED
    BY <1>0, <1>7, <2>1, <2>2, <2>3, BeginsHas, TasksChange
<1>8. ASSUME NEW s \in Stoppers, StopAwaited(s) PROVE SessionsInv'
  <2>1. DOMAIN serve' = DOMAIN serve /\ \A h \in Started : serve'[h] \in ServeType
    BY <1>0, <1>8, AwaitedHas, Moved
  <2>2. managers' \in [Categories -> ServeOrNone] /\ lost' \in BOOLEAN
    BY <1>0, <1>8, AwaitedHas DEF Clear, ServeOrNone
  <2>3. stopper' \in [Stoppers -> [at : {"idle", "awaiting", "done"}, tasks : SUBSET Started]]
        /\ UNCHANGED <<doors, member, known, lock, request, slow>>
    BY <1>8, AwaitedHas
  <2>. QED
    BY <1>0, <2>1, <2>2, <2>3, TasksChange
<1>9. ASSUME NEW i \in Instances, Recategorise(i) PROVE SessionsInv'
  <2>1. member' \in [Instances -> Categories \cup {None}]
    BY <1>9 DEF Recategorise, SessionsInv, TypeOK
  <2>. QED
    BY <1>0, <1>1, <1>9, <2>1 DEF Recategorise
<1>10. CASE OpenDoor \/ CloseOwnPort
  BY <1>0, <1>1, <1>10 DEF OpenDoor, CloseOwnPort, SessionsInv, TypeOK
<1>11. CASE UNCHANGED vars
  BY <1>0, <1>1, <1>11 DEF vars, SessionsInv, TypeOK
<1>. QED
  BY <1>2, <1>3, <1>4, <1>5, <1>6, <1>7, <1>8, <1>9, <1>10, <1>11 DEF Next, Proceeds

\* The maps, the tasks and the requests have their types, and the lock is held
\* by the one request that waits for a task it started.
THEOREM SessionsAlways == Spec => []SessionsInv
BY SessionsInit, SessionsStep, PTL DEF Spec

-----------------------------------------------------------------------------
(***************************************************************************)
(* What is in the map                                                      *)
(***************************************************************************)

\* Tasks that keep living and the map as it was, or emptied.
LEMMA MapKept ==
  ASSUME MappedIsAlive, Started \subseteq Started',
         \A g \in Started : Alive(g) => Alive(g)' /\ serve'[g].category = serve[g].category,
         \A c \in Categories : managers'[c] \in {managers[c], None}
  PROVE  MappedIsAlive'
  BY DEF MappedIsAlive

LEMMA MapStep == SessionsInv /\ MappedIsAlive /\ [Next]_vars => MappedIsAlive'
<1> SUFFICES ASSUME SessionsInv, MappedIsAlive, [Next]_vars PROVE MappedIsAlive'
  OBVIOUS
<1>1. CASE UNCHANGED <<managers, serve>>
  BY <1>1, MapKept DEF Alive, Started
<1>2. ASSUME NEW r \in Requests, Arrives(r) \/ Finds(r) \/ Ready(r) \/ TimesOut(r) PROVE MappedIsAlive'
  BY <1>1, <1>2 DEF Arrives, Finds, Ready, TimesOut
<1>3. ASSUME NEW r \in Requests, Starts(r) PROVE MappedIsAlive'
  <2>1. Started \subseteq Started' /\ \A h \in Started : serve'[h] = serve[h]
    BY <1>3, NewTask
  <2>2. managers' = managers
    BY <1>3 DEF Starts
  <2>. QED
    BY <2>1, <2>2, MapKept DEF Alive
<1>4. ASSUME NEW g \in Started, ComesUp(g) PROVE MappedIsAlive'
  <2>1. /\ DOMAIN serve' = DOMAIN serve
        /\ \A h \in Started : /\ serve'[h].category = serve[h].category
                              /\ serve'[h].at = IF h = g THEN "up" ELSE serve[h].at
    BY <1>4, Moved DEF ComesUp
  <2>2. managers' = [managers EXCEPT ![serve[g].category] = g]
    BY <1>4 DEF ComesUp
  <2>. QED
    BY <2>1, <2>2 DEF MappedIsAlive, Alive, Started, SessionsInv, TypeOK
<1>5. ASSUME NEW g \in Started, WindsDown(g) PROVE MappedIsAlive'
  <2>1. /\ DOMAIN serve' = DOMAIN serve
        /\ \A h \in Started : /\ serve'[h].category = serve[h].category
                              /\ serve'[h].at = IF h = g THEN "winding" ELSE serve[h].at
    BY <1>5, Moved DEF WindsDown
  <2>. QED
    BY <1>5, <2>1, MapKept DEF WindsDown, Alive, Started
<1>6. ASSUME NEW g \in Started, Ends(g) PROVE MappedIsAlive'
  <2>1. /\ DOMAIN serve' = DOMAIN serve
        /\ \A h \in Started : /\ serve'[h].category = serve[h].category
                              /\ serve'[h].at = IF h = g THEN "ended" ELSE serve[h].at
    BY <1>6, Moved DEF Ends
  <2>2. managers' = [managers EXCEPT ![serve[g].category] = None]
    BY <1>6 DEF Ends
  <2>. QED
    BY <2>1, <2>2 DEF MappedIsAlive, Alive, Started, SessionsInv, TypeOK
<1>7. ASSUME NEW s \in Stoppers, StopBegins(s) PROVE MappedIsAlive'
  <2>1. /\ DOMAIN serve' = DOMAIN serve
        /\ \A h \in Started : serve'[h].category = serve[h].category /\ serve'[h].at = serve[h].at
    BY <1>7, Told DEF StopBegins
  <2>2. \A c \in Categories : managers'[c] \in {managers[c], None}
    BY <1>7, BeginsHas DEF Clear
  <2>. QED
    BY <2>1, <2>2, MapKept DEF Alive, Started
<1>8. ASSUME NEW s \in Stoppers, StopAwaited(s) PROVE MappedIsAlive'
  <2>1. DOMAIN serve' = DOMAIN serve
        /\ \A h \in Started : /\ serve'[h].category = serve[h].category
                              /\ serve'[h].at = serve[h].at \/ serve'[h].at = "winding"
    <3>1. PICK g \in Started : UNCHANGED serve \/ serve' = [serve EXCEPT ![g].at = "winding"]
      BY <1>8, AwaitedHas
    <3>. QED
      BY <3>1, Moved
  <2>2. \A c \in Categories : managers'[c] \in {managers[c], None}
    BY <1>8, AwaitedHas DEF Clear
  <2>. QED
    BY <2>1, <2>2, MapKept DEF Alive, Started
<1>9. ASSUME NEW i \in Instances, Recategorise(i) PROVE MappedIsAlive'
  BY <1>1, <1>9 DEF Recategorise
<1>10. CASE OpenDoor \/ CloseOwnPort \/ UNCHANGED vars
  BY <1>1, <1>10 DEF OpenDoor, CloseOwnPort, vars
<1>. QED
  BY <1>2, <1>3, <1>4, <1>5, <1>6, <1>7, <1>8, <1>9, <1>10 DEF Next, Proceeds

\* What a request finds in the map is the session manager of a task that has not
\* ended and that serves the category.
THEOREM MapIsAlive == Spec => []MappedIsAlive
<1>1. Init => MappedIsAlive
  BY DEF Init, MappedIsAlive
<1>. QED
  BY <1>1, SessionsAlways, MapStep, PTL DEF Spec

-----------------------------------------------------------------------------
(***************************************************************************)
(* What stop_all reaches                                                   *)
(***************************************************************************)

\* The request that holds the lock waits for this task.
Awaited(g) == lock # None /\ request[lock].at = "ready" /\ request[lock].task = g

\* A task that is starting has its request waiting, with the lock; one that is up
\* and was not told to stop is in the map, and is the one known for its category.
Reachable(g) ==
  /\ serve[g].at = "starting" => Awaited(g) /\ ~serve[g].stop
  /\ Alive(g) /\ ~serve[g].stop =>
       /\ known[serve[g].category] = g
       /\ serve[g].at = "starting" \/ managers[serve[g].category] = g

\* A stop_all awaits only what it told to stop.
ReachInv ==
  /\ \A s \in Stoppers : \A g \in stopper[s].tasks : serve[g].stop
  /\ ~slow /\ ~lost => \A g \in Started : Reachable(g)

\* Clearing the map loses nothing that is up, unless it says so.
LEMMA ClearLoses ==
  ASSUME SessionsInv, MappedIsAlive, Clear, ~lost'
  PROVE  ~lost /\ \A c \in Categories : managers[c] # None => serve[managers[c]].stop
  BY DEF Clear, Loses

LEMMA ReachStep == SessionsInv /\ MappedIsAlive /\ ReachInv /\ [Next]_vars => ReachInv'
<1> SUFFICES ASSUME SessionsInv, MappedIsAlive, ReachInv, [Next]_vars PROVE ReachInv'
  OBVIOUS
<1>0. /\ stopper \in [Stoppers -> [at : {"idle", "awaiting", "done"}, tasks : SUBSET Started]]
      /\ \A g \in Started : serve[g] \in ServeType /\ serve[g].category \in Categories
      /\ managers \in [Categories -> ServeOrNone] /\ known \in [Categories -> ServeOrNone]
      /\ None \notin Started
  BY Numbered, Enough DEF SessionsInv, TypeOK, ServeType, Serves
<1>1. CASE UNCHANGED <<managers, known, serve, lock, request, stopper, slow, lost>>
  BY <1>1 DEF ReachInv, Reachable, Awaited, Alive, Started
<1>2. ASSUME NEW r \in Requests, Arrives(r) \/ Finds(r) PROVE ReachInv'
  <2>1. /\ UNCHANGED <<managers, known, serve, lock, stopper, slow, lost>>
        /\ \E q \in RequestType : request' = [request EXCEPT ![r] = q]
        /\ request[r].at # "ready"
    <3>1. CASE Arrives(r)
      BY <3>1 DEF Arrives, RequestType, ServeOrNone
    <3>2. CASE Finds(r)
      <4> DEFINE q == [request[r] EXCEPT !.at = "answered", !.task = managers[request[r].category]]
      <4>1. request[r] \in RequestType /\ managers[request[r].category] \in ServeOrNone
        BY <3>2 DEF Finds, SessionsInv, TypeOK
      <4>2. q \in RequestType
        BY <4>1 DEF RequestType
      <4>3. request' = [request EXCEPT ![r] = q]
        BY <3>2 DEF Finds, Answered, SessionsInv, TypeOK
      <4> HIDE DEF q
      <4>. QED
        BY <3>2, <4>2, <4>3 DEF Finds
    <3>. QED
      BY <1>2, <3>1, <3>2
  <2>2. \A p \in Requests : p # r => request'[p] = request[p]
    BY <2>1, OneRequest
  <2>3. lock # None => lock # r /\ request'[lock] = request[lock]
    BY <2>1, <2>2 DEF SessionsInv, TypeOK
  <2>. QED
    BY <2>1, <2>3 DEF ReachInv, Reachable, Awaited, Alive, Started
<1>3. ASSUME NEW r \in Requests, Starts(r) PROVE ReachInv'
  <2>0. PICK g, c : g = Cardinality(Started) + 1 /\ c = request[r].category
    OBVIOUS
  <2>1. /\ g \in Serves /\ g \notin Started /\ Started' = Started \cup {g}
        /\ c \in Categories /\ managers[c] = None /\ lock = None /\ lock' = r
        /\ serve'[g] = [category |-> c, at |-> "starting", stop |-> FALSE]
        /\ \A h \in Started : serve'[h] = serve[h]
        /\ known' = [known EXCEPT ![c] = g]
        /\ request'[r].at = "ready" /\ request'[r].task = g
    BY <1>3, <2>0, NewTask
  <2>2. UNCHANGED <<managers, stopper, slow, lost>>
    BY <1>3 DEF Starts
  <2>3. \A s \in Stoppers : \A h \in stopper'[s].tasks : serve'[h].stop
    BY <1>0, <2>1, <2>2 DEF ReachInv
  <2>4. Reachable(g)'
    BY <1>0, <2>1, Enough DEF Reachable, Awaited
  <2>5. ASSUME ~slow, ~lost, NEW h \in Started PROVE Reachable(h)'
    BY <1>0, <2>1, <2>2, <2>5 DEF ReachInv, Reachable, Awaited, Alive
  <2>. QED
    BY <2>1, <2>2, <2>3, <2>4, <2>5 DEF ReachInv
<1>4. ASSUME NEW r \in Requests, Ready(r) PROVE ReachInv'
  <2>1. request[r].at = "ready" /\ lock = r /\ serve[request[r].task].at # "starting"
        /\ UNCHANGED <<managers, known, serve, stopper, slow, lost>>
    BY <1>4 DEF Ready, SessionsInv
  <2>. QED
    BY <2>1 DEF ReachInv, Reachable, Awaited, Alive, Started
<1>5. ASSUME NEW r \in Requests, TimesOut(r) PROVE ReachInv'
  BY <1>5 DEF TimesOut, ReachInv
<1>6. ASSUME NEW g \in Started, ComesUp(g) PROVE ReachInv'
  <2>1. /\ DOMAIN serve' = DOMAIN serve
        /\ \A h \in Started : /\ serve'[h].category = serve[h].category /\ serve'[h].stop = serve[h].stop
                              /\ serve'[h].at = IF h = g THEN "up" ELSE serve[h].at
    BY <1>6, Moved DEF ComesUp
  <2>2. managers' = [managers EXCEPT ![serve[g].category] = g] /\ serve[g].at = "starting"
        /\ UNCHANGED <<known, lock, request, stopper, slow, lost>>
    BY <1>6 DEF ComesUp
  <2>3. \A s \in Stoppers : \A h \in stopper'[s].tasks : serve'[h].stop
    BY <1>0, <2>1, <2>2 DEF ReachInv
  <2>4. ASSUME ~slow, ~lost, NEW h \in Started PROVE Reachable(h)'
    <3>1. Reachable(g) /\ Reachable(h) /\ ~serve[g].stop /\ known[serve[g].category] = g
      BY <2>2, <2>4 DEF ReachInv, Reachable, Alive
    <3>. QED
      BY <1>0, <2>1, <2>2, <3>1 DEF Reachable, Awaited, Alive
  <2>. QED
    BY <2>1, <2>2, <2>3, <2>4 DEF ReachInv, Started
<1>7. ASSUME NEW g \in Started, WindsDown(g) PROVE ReachInv'
  <2>1. /\ DOMAIN serve' = DOMAIN serve
        /\ \A h \in Started : /\ serve'[h].category = serve[h].category /\ serve'[h].stop = serve[h].stop
                              /\ serve'[h].at = IF h = g THEN "winding" ELSE serve[h].at
    BY <1>7, Moved DEF WindsDown
  <2>2. serve[g].stop /\ UNCHANGED <<managers, known, lock, request, stopper, slow, lost>>
    BY <1>7 DEF WindsDown
  <2>. QED
    BY <1>0, <2>1, <2>2 DEF ReachInv, Reachable, Awaited, Alive, Started
<1>8. ASSUME NEW g \in Started, Ends(g) PROVE ReachInv'
  <2>1. /\ DOMAIN serve' = DOMAIN serve
        /\ \A h \in Started : /\ serve'[h].category = serve[h].category /\ serve'[h].stop = serve[h].stop
                              /\ serve'[h].at = IF h = g THEN "ended" ELSE serve[h].at
    BY <1>8, Moved DEF Ends
  <2>2. managers' = [managers EXCEPT ![serve[g].category] = None]
        /\ lost' = (lost \/ Loses({serve[g].category}, g))
        /\ UNCHANGED <<known, lock, request, stopper, slow>>
    BY <1>8 DEF Ends
  <2>3. \A s \in Stoppers : \A h \in stopper'[s].tasks : serve'[h].stop
    BY <1>0, <2>1, <2>2 DEF ReachInv
  <2>4. ASSUME ~slow, ~lost', NEW h \in Started PROVE Reachable(h)'
    <3>1. ~lost /\ Reachable(h)
      BY <2>2, <2>4 DEF ReachInv
    <3>2. managers[serve[g].category] \in {None, g} \/ serve[managers[serve[g].category]].stop
      BY <2>2, <2>4 DEF Loses
    <3>. QED
      BY <1>0, <2>1, <2>2, <3>1, <3>2 DEF Reachable, Awaited, Alive
  <2>. QED
    BY <2>1, <2>2, <2>3, <2>4 DEF ReachInv, Started
<1>9. ASSUME NEW s \in Stoppers, StopBegins(s) PROVE ReachInv'
  <2>1. /\ DOMAIN serve' = DOMAIN serve
        /\ \A h \in Started : /\ serve'[h].category = serve[h].category /\ serve'[h].at = serve[h].at
                              /\ serve'[h].stop = (serve[h].stop \/ h \in Known)
    BY <1>9, Told DEF StopBegins
  <2>2. /\ lock = None /\ slow' = slow
        /\ lost' = lost \/ (Known = {} /\ Clear)
    BY <1>9, BeginsHas DEF StopBegins
  <2>3. \A u \in Stoppers : \A h \in stopper'[u].tasks : serve'[h].stop
    <3>1. Known \subseteq Started
      BY DEF Known, SessionsInv
    <3>. QED
      BY <1>0, <1>9, <2>1, <3>1, BeginsHas DEF ReachInv
  <2>4. ASSUME ~slow, ~lost', NEW h \in Started PROVE Reachable(h)'
    <3>1. Reachable(h)
      BY <2>2, <2>4 DEF ReachInv, Clear
    <3>2. serve[h].at # "starting"
      BY <2>2, <3>1 DEF Reachable, Awaited
    <3>3. Alive(h) => serve'[h].stop
      BY <1>0, <2>1, <3>1 DEF Reachable, Known
    <3>. QED
      BY <2>1, <3>2, <3>3 DEF Reachable, Alive
  <2>. QED
    BY <2>1, <2>2, <2>3, <2>4 DEF ReachInv, Started
<1>10. ASSUME NEW s \in Stoppers, StopAwaited(s) PROVE ReachInv'
  <2>1. PICK g \in stopper[s].tasks :
           /\ g \in Started
           /\ \/ UNCHANGED serve
              \/ serve[g].at # "ended" /\ serve' = [serve EXCEPT ![g].at = "winding"]
    BY <1>10, AwaitedHas
  <2>2. /\ DOMAIN serve' = DOMAIN serve
        /\ \A h \in Started : /\ serve'[h].category = serve[h].category /\ serve'[h].stop = serve[h].stop
                              /\ serve'[h].at = serve[h].at \/ (h = g /\ serve'[h].at = "winding")
    BY <2>1, Moved
  <2>3. serve[g].stop
    BY DEF ReachInv
  <2>4. /\ UNCHANGED <<managers, lost>> \/ Clear
        /\ UNCHANGED <<known, lock, request, slow>>
    BY <1>10, AwaitedHas
  <2>5. \A u \in Stoppers : \A h \in stopper'[u].tasks : serve'[h].stop
    BY <1>0, <1>10, <2>2, AwaitedHas DEF ReachInv
  <2>6. ASSUME ~slow, ~lost', NEW h \in Started PROVE Reachable(h)'
    <3>1. Reachable(h) /\ ~lost
      BY <2>4, <2>6, ClearLoses DEF ReachInv
    <3>2. \A c \in Categories :
             managers'[c] = managers[c] \/ (managers[c] # None => serve[managers[c]].stop)
      BY <2>4, <2>6, ClearLoses
    <3>3. CASE h = g
      BY <2>2, <2>3, <3>1, <3>3 DEF Reachable, Awaited, Alive
    <3>4. CASE h # g /\ serve[h].stop
      BY <2>2, <2>4, <3>1, <3>4 DEF Reachable, Awaited, Alive
    <3>5. CASE h # g /\ ~serve[h].stop
      <4>1. managers[serve[h].category] = h => managers'[serve[h].category] = h
        BY <1>0, <3>2, <3>5
      <4>. QED
        BY <2>2, <2>4, <3>1, <3>5, <4>1 DEF Reachable, Awaited, Alive
    <3>. QED
      BY <3>3, <3>4, <3>5
  <2>. QED
    BY <2>2, <2>4, <2>5, <2>6 DEF ReachInv, Started
<1>11. ASSUME NEW i \in Instances, Recategorise(i) PROVE ReachInv'
  BY <1>1, <1>11 DEF Recategorise
<1>12. CASE OpenDoor \/ CloseOwnPort \/ UNCHANGED vars
  BY <1>1, <1>12 DEF OpenDoor, CloseOwnPort, vars
<1>. QED
  BY <1>2, <1>3, <1>4, <1>5, <1>6, <1>7, <1>8, <1>9, <1>10, <1>11, <1>12 DEF Next, Proceeds

\* stop_all reaches every session manager there is, or reached it, unless a start
\* was slower than a request waits for it or the map lost a session manager.
THEOREM NothingForgotten == Spec => []NoneIsForgotten
<1>1. Init => MappedIsAlive
  BY DEF Init, MappedIsAlive
<1>2. Init => ReachInv
  BY DEF Init, ReachInv, Started
<1>3. ReachInv => NoneIsForgotten
  BY DEF ReachInv, Reachable, NoneIsForgotten
<1>. QED
  BY <1>1, <1>2, <1>3, SessionsAlways, MapStep, ReachStep, PTL DEF Spec
=============================================================================
