--------------------------- MODULE CategorySessions ---------------------------
(***************************************************************************)
(* The category endpoints (app/category_endpoint.py): one MCP session      *)
(* manager per category, started by the first request for it, held open by *)
(* a task of its own (_serve), and wound down by stop_all, which a         *)
(* settings request calls when it closes a door or moves the URL segment.  *)
(*                                                                         *)
(* _lock is held over the start of a session manager and over the first    *)
(* half of stop_all only.  A _serve task is named by a number; its stop    *)
(* event and its task are in _stops and _tasks together, under one name.   *)
(***************************************************************************)
EXTENDS Naturals, FiniteSets

CONSTANTS
  Categories,
  Instances,
  Requests,     \* to category endpoints, each made once
  Stoppers,     \* settings requests that call stop_all, each made once
  MaxServes,    \* bound: _serve tasks ever started
  None

ASSUME Enough == MaxServes \in Nat /\ None \notin Nat \cup Requests /\ Requests \cap Stoppers = {}

Serves == 1..MaxServes

VARIABLES
  doors,     \* the ways in that are open: on the manager's port, on a port of its own
  member,    \* the category an instance carries, or None
  managers,  \* _managers: the task whose session manager serves a category, or None
  known,     \* _stops and _tasks: the task stop_all would stop, or None
  serve,     \* the _serve tasks
  lock,      \* the request that holds _lock, or None
  request,   \* the state of a request
  stopper,   \* the state of a stop_all, and the tasks it awaits
  slow,      \* a start took longer than a request waits for it
  lost       \* the map lost the session manager of a task nobody told to stop

vars == <<doors, member, managers, known, serve, lock, request, stopper, slow, lost>>

\* Both switches are off until a person switches one on.
Init ==
  /\ doors = {} /\ member \in [Instances -> Categories]
  /\ managers = [c \in Categories |-> None] /\ known = [c \in Categories |-> None]
  /\ serve = <<>> /\ lock = None
  /\ request = [r \in Requests |-> [at |-> "idle", category |-> None, task |-> None]]
  /\ stopper = [s \in Stoppers |-> [at |-> "idle", tasks |-> {}]]
  /\ slow = FALSE /\ lost = FALSE

Alive(g) == serve[g].at # "ended"
Started == DOMAIN serve

-----------------------------------------------------------------------------
(***************************************************************************)
(* A request                                                               *)
(***************************************************************************)

\* A category exists as long as an instance carries it.
Exists(c) == \E i \in Instances : member[i] = c

Recategorise(i) ==
  /\ \E c \in Categories \cup {None} : c # member[i] /\ member' = [member EXCEPT ![i] = c]
  /\ UNCHANGED <<doors, managers, known, serve, lock, request, stopper, slow, lost>>

Pending == {r \in Requests : request[r].at = "lock"}

\* handle: through an open door, for a category there is (else 404).
Arrives(r) ==
  /\ request[r].at = "idle" /\ doors # {}
  /\ Cardinality(Started) + Cardinality(Pending) < MaxServes
  /\ \E c \in {d \in Categories : Exists(d)} :
       request' = [request EXCEPT ![r] = [at |-> "lock", category |-> c, task |-> None]]
  /\ UNCHANGED <<doors, member, managers, known, serve, lock, stopper, slow, lost>>

\* A session manager, or 503; the lock is free.
Answered(r, g) == request' = [request EXCEPT ![r].at = "answered", ![r].task = g]

Finds(r) ==
  /\ request[r].at = "lock" /\ lock = None
  /\ managers[request[r].category] # None
  /\ Answered(r, managers[request[r].category])
  /\ UNCHANGED <<doors, member, managers, known, serve, lock, stopper, slow, lost>>

\* Fault: setdefault; the entry of a task that ended stays.
RegisteredOnce(c, g) == [known EXCEPT ![c] = IF @ = None THEN g ELSE @]

\* _stops and _tasks
Registered(c, g) == [known EXCEPT ![c] = g]

\* A new task and stop event, in the place of what was known under the category.
Starts(r) ==
  /\ request[r].at = "lock" /\ lock = None
  /\ managers[request[r].category] = None
  /\ LET g == Cardinality(Started) + 1
         c == request[r].category
     IN /\ serve' = [h \in Started \cup {g} |->
                       IF h = g THEN [category |-> c, at |-> "starting", stop |-> FALSE]
                       ELSE serve[h]]
        /\ known' = Registered(c, g)
        /\ request' = [request EXCEPT ![r].at = "ready", ![r].task = g]
  /\ lock' = r
  /\ UNCHANGED <<doors, member, managers, stopper, slow, lost>>

\* ready was set: by the task coming up or, with nothing in the map, by its end.
Ready(r) ==
  /\ request[r].at = "ready" /\ serve[request[r].task].at # "starting"
  /\ Answered(r, managers[request[r].category])
  /\ lock' = None
  /\ UNCHANGED <<doors, member, managers, known, serve, stopper, slow, lost>>

\* Fault: the timeout leaves the lock held.
TimesOutHolding(r) ==
  /\ request[r].at = "ready" /\ serve[request[r].task].at = "starting"
  /\ Answered(r, None) /\ slow' = TRUE
  /\ UNCHANGED <<doors, member, managers, known, serve, lock, stopper, lost>>

\* Ten seconds; the task goes on starting.
TimesOut(r) ==
  /\ request[r].at = "ready" /\ serve[request[r].task].at = "starting"
  /\ Answered(r, None) /\ slow' = TRUE
  /\ lock' = None
  /\ UNCHANGED <<doors, member, managers, known, serve, stopper, lost>>

-----------------------------------------------------------------------------
(***************************************************************************)
(* _serve                                                                  *)
(***************************************************************************)
ComesUp(g) ==
  /\ serve[g].at = "starting"
  /\ serve' = [serve EXCEPT ![g].at = "up"]
  /\ managers' = [managers EXCEPT ![serve[g].category] = g]
  /\ UNCHANGED <<doors, member, known, lock, request, stopper, slow, lost>>

\* Its stop event is set: it leaves the session manager's run().
WindsDown(g) ==
  /\ serve[g].at = "up" /\ serve[g].stop
  /\ serve' = [serve EXCEPT ![g].at = "winding"]
  /\ UNCHANGED <<doors, member, managers, known, lock, request, stopper, slow, lost>>

\* Fault: the map keeps the session manager.
EndsMapped(g) ==
  /\ serve[g].at \in {"starting", "up", "winding"}
  /\ serve' = [serve EXCEPT ![g].at = "ended"]
  /\ UNCHANGED <<doors, member, managers, known, lock, request, stopper, slow, lost>>

\* Whether taking these categories out of the map loses a session manager
\* that goes on; `of` is the task that is ending, if one is.
Loses(cs, of) ==
  \E c \in cs : managers[c] \notin {None, of} /\ ~serve[managers[c]].stop

\* Wound down, cancelled or failed: whatever serves the category by now leaves the map.
Ends(g) ==
  /\ serve[g].at \in {"starting", "up", "winding"}
  /\ serve' = [serve EXCEPT ![g].at = "ended"]
  /\ managers' = [managers EXCEPT ![serve[g].category] = None]
  /\ lost' = (lost \/ Loses({serve[g].category}, g))
  /\ UNCHANGED <<doors, member, known, lock, request, stopper, slow>>

-----------------------------------------------------------------------------
(***************************************************************************)
(* Settings requests and stop_all                                          *)
(***************************************************************************)
OpenDoor ==
  /\ \E d \in {"manager", "own"} \ doors : doors' = doors \cup {d}
  /\ UNCHANGED <<member, managers, known, serve, lock, request, stopper, slow, lost>>

\* A category port of its own is taken away without a stop_all.
CloseOwnPort ==
  /\ "own" \in doors /\ doors' = doors \ {"own"}
  /\ UNCHANGED <<member, managers, known, serve, lock, request, stopper, slow, lost>>

Done(s) == stopper' = [stopper EXCEPT ![s] = [at |-> "done", tasks |-> {}]]

Known == {known[c] : c \in Categories} \ {None}

\* _managers.clear(), over tasks that were started since too.
Clear ==
  /\ managers' = [c \in Categories |-> None]
  /\ lost' = (lost \/ Loses(Categories, None))

\* The door on the manager's port is closed, or the segment moved; the stop
\* events are set and what is known is forgotten, all under the lock.
StopBegins(s) ==
  /\ stopper[s].at = "idle" /\ lock = None
  /\ doors' \in {doors, doors \ {"manager"}}
  /\ serve' = [g \in Started |-> IF g \in Known THEN [serve[g] EXCEPT !.stop = TRUE] ELSE serve[g]]
  /\ known' = [c \in Categories |-> None]
  /\ IF Known = {} THEN Done(s) /\ Clear
     ELSE stopper' = [stopper EXCEPT ![s] = [at |-> "awaiting", tasks |-> Known]] /\ UNCHANGED <<managers, lost>>
  /\ UNCHANGED <<member, lock, request, slow>>

\* A task ended, or did not within five seconds and is cancelled.  After the
\* last one the map is emptied.
StopAwaited(s) ==
  /\ \E g \in stopper[s].tasks :
       /\ \/ serve[g].at = "ended" /\ UNCHANGED serve
          \/ serve[g].at # "ended" /\ serve' = [serve EXCEPT ![g].at = "winding"]
       /\ IF stopper[s].tasks = {g} THEN Done(s) /\ Clear
          ELSE stopper' = [stopper EXCEPT ![s].tasks = @ \ {g}] /\ UNCHANGED <<managers, lost>>
  /\ UNCHANGED <<doors, member, known, lock, request, slow>>

-----------------------------------------------------------------------------
Proceeds(r) == Finds(r) \/ Starts(r) \/ Ready(r) \/ TimesOut(r)

Next ==
  \/ \E r \in Requests : Arrives(r) \/ Proceeds(r)
  \/ \E g \in Started : ComesUp(g) \/ WindsDown(g) \/ Ends(g)
  \/ \E s \in Stoppers : StopBegins(s) \/ StopAwaited(s)
  \/ \E i \in Instances : Recategorise(i)
  \/ OpenDoor \/ CloseOwnPort

Spec == Init /\ [][Next]_vars

\* asyncio's lock is handed on in the order of asking, and every wait has an
\* end of its own: a timeout.  Nothing else is sure to happen.
Fairness ==
  /\ \A r \in Requests : SF_vars(Proceeds(r))
  /\ \A s \in Stoppers : WF_vars(StopAwaited(s))

FairSpec == Spec /\ Fairness

-----------------------------------------------------------------------------
(***************************************************************************)
(* Properties                                                              *)
(***************************************************************************)
ServeOrNone == Serves \cup {None}
ServeType == [category : Categories, stop : BOOLEAN, at : {"starting", "up", "winding", "ended"}]
RequestType == [at : {"idle", "lock", "ready", "answered"}, category : Categories \cup {None},
                task : ServeOrNone]

\* The state variables have their types.
TypeOK ==
  /\ doors \subseteq {"manager", "own"} /\ member \in [Instances -> Categories \cup {None}]
  /\ managers \in [Categories -> ServeOrNone] /\ known \in [Categories -> ServeOrNone]
  /\ \E n \in 0..MaxServes : DOMAIN serve = 1..n
  /\ \A g \in Started : serve[g] \in ServeType
  /\ lock \in Requests \cup {None}
  /\ request \in [Requests -> RequestType]
  /\ stopper \in [Stoppers -> [at : {"idle", "awaiting", "done"}, tasks : SUBSET Started]]
  /\ slow \in BOOLEAN /\ lost \in BOOLEAN

\* What a request finds in the map is never the session manager of a task that
\* ended, although a task that ends takes out whatever serves its category
\* (_serve), and stop_all empties the map over everything.
MappedIsAlive ==
  \A c \in Categories :
    managers[c] # None => /\ managers[c] \in Started /\ Alive(managers[c])
                          /\ serve[managers[c]].category = c

\* stop_all reaches every session manager there is, or reached it, except after
\* one of two things: a start slower than ten seconds, or a map that lost a
\* session manager to the end of another one for the category (line 386) or to
\* the stop_all that did not know of it (line 429).
NoneIsForgotten ==
  ~slow /\ ~lost =>
    \A g \in Started : Alive(g) => serve[g].stop \/ known[serve[g].category] = g

\* Every request is answered, and every stop_all returns, however slow the
\* tasks are: nobody keeps the lock (_session_manager, stop_all).
CallsReturn ==
  /\ \A r \in Requests : request[r].at \in {"lock", "ready"} ~> request[r].at = "answered"
  /\ \A s \in Stoppers : stopper[s].at = "awaiting" ~> stopper[s].at = "done"
=============================================================================
