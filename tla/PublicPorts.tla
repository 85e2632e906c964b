------------------------------ MODULE PublicPorts ------------------------------
(***************************************************************************)
(* The ways in to the MCP instances (app/shared_proxy.py): the listeners   *)
(* on ports of their own, the dispatcher's path on the manager's port, the *)
(* HTTP client each of the two carries requests with, and what the         *)
(* settings request, the watchdog and the shutdown do to them.             *)
(*                                                                         *)
(* Everything runs on one event loop.  A task that is not suspended holds  *)
(* the loop: `running` names it, and nobody else takes a step meanwhile.   *)
(* On a port at most one server listens at a time, so a server is named by *)
(* its port.  A client is named by who holds it: the module variable, or   *)
(* the task that took it out of there and is closing it.                   *)
(***************************************************************************)
EXTENDS Naturals, FiniteSets

CONSTANTS
  Ports,       \* that a listener may be given
  Requests,    \* to save settings, each made once
  Keeper,      \* the manager's lifespan: its boot and its shutdown
  Watchdog,    \* the task of _watchdog_loop
  Streams,     \* requests to an instance that a client carries
  MaxTroubles, \* bound: crashes, slow starts and ports taken by others
  SettingsFiles, \* bound: what the settings file may say at boot
  None

ASSUME Distinct == /\ Ports \subseteq Nat /\ None \notin Ports
                   /\ Keeper \notin Requests /\ Watchdog \notin Requests \cup {Keeper}

PortOrNone == Ports \cup {None}
SettingsType == [shared : PortOrNone, category : PortOrNone, manager : BOOLEAN]

ASSUME FilesAreSettings == SettingsFiles \subseteq SettingsType
ASSUME Troubles == MaxTroubles \in Nat

Tasks == Requests \cup {Keeper, Watchdog}

\* A stream's client is a module variable's or a task's, and None is nobody's.
ASSUME Names ==
  /\ Tasks \cap {"client", "dispatch"} = {} /\ None \notin Tasks \cup {"client", "dispatch"}
  /\ None \notin {"live", "dead", "starting", "up"} \cup SettingsType \cup BOOLEAN
  /\ None \notin {"sync", "bind", "failed", "answered", "stopped"}

VARIABLES
  settings,  \* shared_port, category_port, instance_endpoints_enabled
  occupied,  \* who else has a port: an instance's config, a foreign process, nobody
  entry,     \* _listeners: the entry of a port, its task live or dead, or None
  server,    \* the server that listens on a port
  exiting,   \* the ports whose server was told should_exit
  client,    \* whether there is a _client
  dispatch,  \* whether there is a _dispatch_client
  stream,    \* who holds the client that carries a stream, or None
  task,      \* the tasks' local state
  running,   \* the task that holds the loop, or None
  phase,     \* of the manager
  troubles

vars == <<settings, occupied, entry, server, exiting, client, dispatch, stream, task, running,
          phase, troubles>>

Rest == [at |-> "rest", stops |-> {}, starts |-> {}, port |-> None, seen |-> None,
         then |-> None, failed |-> FALSE, old |-> None, switch |-> None, undo |-> FALSE]

\* wanted_ports: every port that should have a listener.
Wanted(s) == {s.shared, s.category} \ {None}

\* Fault: an entry is as good as a listener.
HasEntry(p) == entry[p] # None

\* listener_running: there is an entry and its task is not done.
ListenerRunning(p) == entry[p] = "live"

Init ==
  /\ settings \in SettingsFiles
  /\ occupied = [p \in Ports |-> None]
  /\ entry = [p \in Ports |-> None] /\ server = [p \in Ports |-> None] /\ exiting = {}
  /\ client = FALSE /\ dispatch = FALSE /\ stream = [f \in Streams |-> None]
  /\ task = [t \in Tasks |-> Rest] /\ running = None /\ phase = "boot" /\ troubles = 0

-----------------------------------------------------------------------------
(***************************************************************************)
(* Suspending and resuming                                                 *)
(***************************************************************************)
Holds(t, at) == running = t /\ task[t].at = at

\* t goes on without giving up the loop.
Becomes(t, r) == task' = [task EXCEPT ![t] = r] /\ running' = t

\* t suspends.
Awaits(t, r) == task' = [task EXCEPT ![t] = r] /\ running' = None

\* t is suspended at `at` and the loop is free.
Suspended(t, at) == running = None /\ task[t].at = at

-----------------------------------------------------------------------------
(***************************************************************************)
(* stop_listener                                                           *)
(***************************************************************************)

\* A task takes the client of `holder` out, and its streams with it.
Carried(t, holder) == [f \in Streams |-> IF stream[f] = holder THEN t ELSE stream[f]]

\* To where stop_listener was called from: `then` and the local state it had.
Return(r) ==
  IF r.then = "failed" THEN [r EXCEPT !.at = "sync", !.then = None, !.port = None, !.failed = TRUE]
  ELSE IF r.then = "bind" THEN [r EXCEPT !.at = "bind", !.then = None]
  ELSE [r EXCEPT !.at = r.then, !.then = None, !.port = None]

\* Fault: the client goes with any listener.
CloseAlways(t, r, e) ==
  IF client
    THEN /\ client' = FALSE /\ stream' = Carried(t, "client")
         /\ Awaits(t, [r EXCEPT !.at = "closing"])
    ELSE Becomes(t, Return(r)) /\ UNCHANGED <<client, stream>>

\* _close_client_if_idle, with the table e: the client goes with the last listener.
CloseIfIdle(t, r, e) ==
  IF client /\ \A p \in Ports : e[p] = None
    THEN /\ client' = FALSE /\ stream' = Carried(t, "client")
         /\ Awaits(t, [r EXCEPT !.at = "closing"])
    ELSE Becomes(t, Return(r)) /\ UNCHANGED <<client, stream>>

\* Fault: the entry is taken out, the server is not told.
StopUntold(t, p, r) ==
  /\ entry' = [entry EXCEPT ![p] = None]
  /\ CloseIfIdle(t, [r EXCEPT !.port = p], [entry EXCEPT ![p] = None])
  /\ UNCHANGED exiting

\* The entry is taken out first; a live server is told to exit and waited for.
StopListener(t, p, r) ==
  LET e == [entry EXCEPT ![p] = None]
  IN /\ entry' = e
     /\ IF ListenerRunning(p)
          THEN /\ exiting' = exiting \cup {p}
               /\ Awaits(t, [r EXCEPT !.at = "draining", !.port = p, !.seen = "live"])
               /\ UNCHANGED <<client, stream>>
          ELSE CloseIfIdle(t, [r EXCEPT !.port = p], e) /\ UNCHANGED exiting

\* The task of the server ended, or was cancelled after five seconds.
Drained(t) ==
  /\ Suspended(t, "draining") /\ task[t].seen = "ended"
  /\ CloseIfIdle(t, [task[t] EXCEPT !.seen = None], entry)
  /\ UNCHANGED <<settings, occupied, entry, server, exiting, dispatch, phase, troubles>>

\* client.aclose() is done; the streams died with it.
Closed(t) ==
  /\ Suspended(t, "closing")
  /\ stream' = [f \in Streams |-> IF stream[f] = t THEN None ELSE stream[f]]
  /\ IF task[t].then = "answered" THEN Awaits(t, Return(task[t])) ELSE Becomes(t, Return(task[t]))
  /\ UNCHANGED <<settings, occupied, entry, server, exiting, client, dispatch, phase, troubles>>

-----------------------------------------------------------------------------
(***************************************************************************)
(* sync_listeners and start_listener                                       *)
(***************************************************************************)

\* The settings and the list of what to stop are read once, here.
SyncBegun(r, s) ==
  [r EXCEPT !.at = "sync", !.stops = {p \in Ports : entry[p] # None /\ p \notin Wanted(s)},
            !.starts = Wanted(s), !.failed = FALSE]

SyncStops(t) ==
  /\ Holds(t, "sync")
  /\ \E p \in task[t].stops :
       StopListener(t, p, [task[t] EXCEPT !.stops = @ \ {p}, !.then = "sync"])
  /\ UNCHANGED <<settings, occupied, server, dispatch, phase, troubles>>

Lowest(S, p) == p \in S /\ \A q \in S : p <= q

\* The next port in order: left alone while its listener lives, else
\* start_listener, which takes out what is left of an old one.
SyncStarts(t) ==
  /\ Holds(t, "sync") /\ task[t].stops = {}
  /\ \E p \in Ports :
       LET r == [task[t] EXCEPT !.starts = @ \ {p}]
       IN /\ Lowest(task[t].starts, p)
          /\ IF ListenerRunning(p) THEN Becomes(t, r) /\ UNCHANGED <<entry, exiting, client, stream>>
             ELSE StopListener(t, p, [r EXCEPT !.then = "bind"])
  /\ UNCHANGED <<settings, occupied, server, dispatch, phase, troubles>>

\* sync_listeners returns to its caller.
Returns(t) == Holds(t, "sync") /\ task[t].stops = {} /\ task[t].starts = {}

BindFails(t) ==
  /\ Becomes(t, [task[t] EXCEPT !.at = "sync", !.port = None, !.failed = TRUE])
  /\ UNCHANGED <<entry, server, client>>

Bound(t, p) ==
  /\ entry' = [entry EXCEPT ![p] = "live"] /\ server' = [server EXCEPT ![p] = "starting"]
  /\ client' = TRUE
  /\ Awaits(t, [task[t] EXCEPT !.at = "polling", !.seen = "live"])

\* An instance's config has the port, or somebody listens there: an error.
Bind(t) ==
  /\ Holds(t, "bind")
  /\ LET p == task[t].port
     IN IF occupied[p] # None \/ server[p] # None THEN BindFails(t) ELSE Bound(t, p)
  /\ UNCHANGED <<settings, occupied, exiting, dispatch, stream, phase, troubles>>

\* The poll loop finds server.started, ...
PolledUp(t) ==
  /\ Suspended(t, "polling") /\ task[t].seen = "started"
  /\ Becomes(t, [task[t] EXCEPT !.at = "sync", !.seen = None, !.port = None])
  /\ UNCHANGED <<settings, occupied, entry, server, exiting, client, dispatch, stream, phase,
                 troubles>>

\* ... its task done, ...
PolledDead(t) ==
  /\ Suspended(t, "polling") /\ task[t].seen = "ended"
  /\ StopListener(t, task[t].port, [task[t] EXCEPT !.then = "failed", !.seen = None])
  /\ UNCHANGED <<settings, occupied, server, dispatch, phase, troubles>>

\* ... or neither for two seconds: whatever listens on the port by then is stopped.
GivesUp(t) ==
  /\ Suspended(t, "polling") /\ task[t].seen = "live" /\ troubles < MaxTroubles
  /\ troubles' = troubles + 1
  /\ StopListener(t, task[t].port, [task[t] EXCEPT !.then = "failed", !.seen = None])
  /\ UNCHANGED <<settings, occupied, server, dispatch, phase>>

-----------------------------------------------------------------------------
(***************************************************************************)
(* The servers (uvicorn), and who else uses ports                          *)
(***************************************************************************)

\* What the tasks that wait for the server of p make of its end or its start.
Seen(p, at, what) ==
  [t \in Tasks |-> IF task[t].port = p /\ task[t].seen = "live" /\ task[t].at \in at
                     THEN [task[t] EXCEPT !.seen = what] ELSE task[t]]

ServerStarts(p) ==
  /\ running = None /\ server[p] = "starting"
  /\ server' = [server EXCEPT ![p] = "up"]
  /\ task' = Seen(p, {"polling"}, "started")
  /\ UNCHANGED <<settings, occupied, entry, exiting, client, dispatch, stream, running, phase,
                 troubles>>

\* Told to exit, it closes its socket; its task ends then or somewhat later.
ServerCloses(p) ==
  /\ running = None /\ p \in exiting
  /\ server' = [server EXCEPT ![p] = None] /\ exiting' = exiting \ {p}
  /\ task' = Seen(p, {"draining", "polling"}, "ended")
  /\ UNCHANGED <<settings, occupied, entry, client, dispatch, stream, running, phase, troubles>>

\* It fails to start or ends unasked: _serve_guarded contains that and closes the socket.
ServerCrashes(p) ==
  /\ running = None /\ server[p] # None /\ p \notin exiting /\ troubles < MaxTroubles
  /\ troubles' = troubles + 1
  /\ server' = [server EXCEPT ![p] = None]
  /\ entry' = [entry EXCEPT ![p] = IF @ = "live" THEN "dead" ELSE @]
  /\ task' = Seen(p, {"polling"}, "ended")
  /\ UNCHANGED <<settings, occupied, exiting, client, dispatch, stream, running, phase>>

\* A foreign process binds the port; an instance may be given it at any time.
TakenByOthers(p) ==
  /\ running = None /\ occupied[p] = None /\ troubles < MaxTroubles
  /\ troubles' = troubles + 1
  /\ \E who \in {"instance", "foreign"} : /\ who = "foreign" => server[p] = None
                                          /\ occupied' = [occupied EXCEPT ![p] = who]
  /\ UNCHANGED <<settings, entry, server, exiting, client, dispatch, stream, task, running, phase>>

GivenUpByOthers(p) ==
  /\ running = None /\ occupied[p] # None
  /\ occupied' = [occupied EXCEPT ![p] = None]
  /\ UNCHANGED <<settings, entry, server, exiting, client, dispatch, stream, task, running, phase,
                 troubles>>

-----------------------------------------------------------------------------
(***************************************************************************)
(* Streams to an instance                                                  *)
(***************************************************************************)

\* _forward to an instance that is known and runs (else 404, 503, 502: no stream).
Forward(f, holder) == stream[f] = None /\ stream' = [stream EXCEPT ![f] = holder]

\* The app of a listener: what it serves is asked of the settings now.
StreamOnPort(f, p) ==
  /\ running = None /\ server[p] = "up" /\ settings.shared = p
  /\ client /\ Forward(f, "client")
  /\ UNCHANGED <<settings, occupied, entry, server, exiting, client, dispatch, task, running, phase,
                 troubles>>

\* asgi: a path under /mcp/ is taken while the switch is on.
Dispatched == phase = "serving" /\ settings.manager

\* handle: the client is made on first use.
StreamOnManager(f) ==
  /\ running = None /\ Dispatched
  /\ dispatch' = TRUE /\ Forward(f, "dispatch")
  /\ UNCHANGED <<settings, occupied, entry, server, exiting, client, task, running, phase, troubles>>

StreamEnds(f) ==
  /\ running = None /\ stream[f] # None
  /\ stream' = [stream EXCEPT ![f] = None]
  /\ UNCHANGED <<settings, occupied, entry, server, exiting, client, dispatch, task, running, phase,
                 troubles>>

-----------------------------------------------------------------------------
(***************************************************************************)
(* The settings request                                                    *)
(***************************************************************************)

\* _wanted_port: unchanged, off, or a port no instance's config has.
Acceptable(current) == {current, None} \cup {p \in Ports : occupied[p] # "instance"}

\* Validated against the settings of now.  Ports go first, saved before they
\* are bound; with none changed the request goes on to the switch.
Request(t) ==
  /\ Suspended(t, "rest") /\ phase = "serving"
  /\ \E s \in Acceptable(settings.shared), c \in Acceptable(settings.category), m \in BOOLEAN :
       LET new == [settings EXCEPT !.shared = s, !.category = c]
           r == [task[t] EXCEPT !.old = IF new = settings THEN None ELSE settings,
                                !.switch = IF m = settings.manager THEN None ELSE m]
       IN /\ settings' = new
          /\ Becomes(t, IF new = settings THEN [r EXCEPT !.at = "apply"] ELSE SyncBegun(r, new))
  /\ UNCHANGED <<occupied, entry, server, exiting, client, dispatch, stream, phase, troubles>>

\* Both ports as they were when the request came, and a second sync.
PutBack(t) ==
  LET s == [settings EXCEPT !.shared = task[t].old.shared, !.category = task[t].old.category]
  IN /\ settings' = s
     /\ Becomes(t, SyncBegun([Rest EXCEPT !.undo = TRUE], s))

\* Bound: the ports are in force and the rest of the request follows; not
\* bound: the ports are put back and the request ends with 409.
Synced(t) ==
  /\ t \in Requests /\ Returns(t)
  /\ \/ task[t].undo /\ Awaits(t, [Rest EXCEPT !.at = "answered"]) /\ UNCHANGED settings
     \/ ~task[t].undo /\ task[t].failed /\ PutBack(t)
     \/ ~task[t].undo /\ ~task[t].failed
        /\ Becomes(t, [task[t] EXCEPT !.at = "apply", !.old = None]) /\ UNCHANGED settings
  /\ UNCHANGED <<occupied, entry, server, exiting, client, dispatch, stream, phase, troubles>>

\* Fault: the client stays, for the next time the path is switched on.
KeepDispatch(t) == Awaits(t, [Rest EXCEPT !.at = "answered"]) /\ UNCHANGED <<dispatch, stream>>

\* stop_dispatch_client, then the answer.
DropDispatch(t) ==
  IF dispatch
    THEN /\ dispatch' = FALSE /\ stream' = Carried(t, "dispatch")
         /\ Awaits(t, [Rest EXCEPT !.at = "closing", !.then = "answered"])
    ELSE Awaits(t, [Rest EXCEPT !.at = "answered"]) /\ UNCHANGED <<dispatch, stream>>

\* The switch is saved.  Switched off, the dispatcher's client goes: at once, or
\* after the category sessions that the same request switched off.
Apply(t) ==
  /\ Holds(t, "apply")
  /\ settings' = IF task[t].switch = None THEN settings
                 ELSE [settings EXCEPT !.manager = task[t].switch]
  /\ IF task[t].switch = FALSE
       THEN \/ DropDispatch(t)
            \/ Awaits(t, [task[t] EXCEPT !.at = "sessions"]) /\ UNCHANGED <<dispatch, stream>>
       ELSE Awaits(t, [Rest EXCEPT !.at = "answered"]) /\ UNCHANGED <<dispatch, stream>>
  /\ UNCHANGED <<occupied, entry, server, exiting, client, phase, troubles>>

SessionsStopped(t) ==
  /\ Suspended(t, "sessions") /\ DropDispatch(t)
  /\ UNCHANGED <<settings, occupied, entry, server, exiting, client, phase, troubles>>

-----------------------------------------------------------------------------
(***************************************************************************)
(* The manager: boot, watchdog, shutdown                                   *)
(***************************************************************************)
KeeperSyncs ==
  /\ Suspended(Keeper, "rest") /\ phase = "boot"
  /\ Becomes(Keeper, SyncBegun(Rest, settings))
  /\ UNCHANGED <<settings, occupied, entry, server, exiting, client, dispatch, stream, phase,
                 troubles>>

KeeperSynced ==
  /\ Returns(Keeper) /\ phase = "boot"
  /\ Awaits(Keeper, Rest) /\ phase' = "serving"
  /\ UNCHANGED <<settings, occupied, entry, server, exiting, client, dispatch, stream, troubles>>

\* Ten seconds have passed.
WatchdogSyncs ==
  /\ Suspended(Watchdog, "rest") /\ phase # "boot"
  /\ Becomes(Watchdog, SyncBegun(Rest, settings))
  /\ UNCHANGED <<settings, occupied, entry, server, exiting, client, dispatch, stream, phase,
                 troubles>>

\* What failed is logged and tried again in ten seconds.
WatchdogSynced ==
  /\ Returns(Watchdog) /\ Awaits(Watchdog, Rest)
  /\ UNCHANGED <<settings, occupied, entry, server, exiting, client, dispatch, stream, phase,
                 troubles>>

Ended == [Rest EXCEPT !.at = "ended"]

\* What cancel() makes of the watchdog.  It ends where it awaits, unless that is
\* the wait of stop_listener: the cancel is passed on to the server's task, and
\* stop_listener takes what comes back for that task's own and goes on.  If the
\* task had ended by then, it depends on the Python whether wait_for raises.
Cancelled ==
  LET r == task[Watchdog]
  IN  IF r.at # "draining" THEN {Ended} ELSE IF r.seen = "live" THEN {r} ELSE {r, Ended}

\* The requests have been answered and the watchdog is cancelled wherever it is;
\* what is being closed by it is closed.
Shutdown ==
  /\ running = None /\ phase = "serving"
  /\ \A t \in Requests : task[t].at \in {"rest", "answered"}
  /\ phase' = "stopping"
  /\ \E w \in Cancelled :
       task' = [task EXCEPT ![Watchdog] = w, ![Keeper] = [Rest EXCEPT !.at = "stop_all"]]
  /\ stream' = [f \in Streams |-> IF stream[f] = Watchdog THEN None ELSE stream[f]]
  /\ UNCHANGED <<settings, occupied, entry, server, exiting, client, dispatch, running, troubles>>

\* After the category sessions the dispatcher's client goes, then every listener
\* that is in the table now.
StopProxy ==
  /\ Suspended(Keeper, "stop_all")
  /\ dispatch' = FALSE
  /\ stream' = [f \in Streams |-> IF stream[f] = "dispatch" THEN None ELSE stream[f]]
  /\ Becomes(Keeper, [Rest EXCEPT !.at = "sync", !.stops = {p \in Ports : entry[p] # None}])
  /\ UNCHANGED <<settings, occupied, entry, server, exiting, client, phase, troubles>>

\* Fault: a client that the watchdog left without listeners stays.
StopsWithoutClosing ==
  /\ Returns(Keeper) /\ phase = "stopping"
  /\ Becomes(Keeper, [Rest EXCEPT !.at = "stopped"])
  /\ UNCHANGED <<settings, occupied, entry, server, exiting, client, dispatch, stream, phase, troubles>>

\* The last line of stop_proxy.
StopsAll ==
  /\ Returns(Keeper) /\ phase = "stopping"
  /\ CloseIfIdle(Keeper, [Rest EXCEPT !.then = "stopped"], entry)
  /\ UNCHANGED <<settings, occupied, entry, server, exiting, dispatch, phase, troubles>>

Stopped ==
  /\ Holds(Keeper, "stopped")
  /\ Awaits(Keeper, Rest) /\ phase' = "stopped"
  /\ UNCHANGED <<settings, occupied, entry, server, exiting, client, dispatch, stream, troubles>>

-----------------------------------------------------------------------------
\* A suspended task resumes; the loop takes ready tasks in turn.
Resumes(t) ==
  \/ Drained(t) \/ Closed(t) \/ PolledUp(t) \/ PolledDead(t) \/ SessionsStopped(t)
  \/ t = Keeper /\ (KeeperSyncs \/ StopProxy)
  \/ t = Watchdog /\ WatchdogSyncs

\* The task that holds the loop goes on.
Continues(t) ==
  \/ SyncStops(t) \/ SyncStarts(t) \/ Bind(t) \/ Synced(t) \/ Apply(t)
  \/ t = Keeper /\ (KeeperSynced \/ StopsAll \/ Stopped)
  \/ t = Watchdog /\ WatchdogSynced

Next ==
  \/ \E t \in Tasks : Resumes(t) \/ Continues(t) \/ GivesUp(t)
  \/ \E t \in Requests : Request(t)
  \/ \E p \in Ports : \/ ServerStarts(p) \/ ServerCloses(p) \/ ServerCrashes(p)
                      \/ TakenByOthers(p) \/ GivenUpByOthers(p)
  \/ \E f \in Streams : StreamOnManager(f) \/ StreamEnds(f) \/ \E p \in Ports : StreamOnPort(f, p)
  \/ Shutdown

Spec == Init /\ [][Next]_vars

(***************************************************************************)
(* The loop runs every ready task again and again (at boot the manager's   *)
(* own is the only one), and a server that is starting or told to exit     *)
(* does so.  Nothing makes people send requests, others give up a port, or *)
(* the manager shut down.                                                  *)
(***************************************************************************)
Fairness ==
  /\ \A t \in Tasks : WF_vars(Continues(t))
  /\ WF_vars(Resumes(Keeper)) /\ \A t \in Tasks \ {Keeper} : SF_vars(Resumes(t))
  /\ \A p \in Ports : SF_vars(ServerStarts(p)) /\ SF_vars(ServerCloses(p))

FairSpec == Spec /\ Fairness

-----------------------------------------------------------------------------
(***************************************************************************)
(* Properties                                                              *)
(***************************************************************************)
TaskType ==
  [at : {"rest", "sync", "draining", "closing", "bind", "polling", "apply", "sessions",
         "answered", "stop_all", "stopped", "ended"},
   stops : SUBSET Ports, starts : SUBSET Ports, port : PortOrNone,
   seen : {"live", "started", "ended", None},
   then : {"sync", "bind", "failed", "answered", "stopped", None}, failed : BOOLEAN,
   old : SettingsType \cup {None}, switch : BOOLEAN \cup {None}, undo : BOOLEAN]

\* The state variables have their types.
TypeOK ==
  /\ settings \in SettingsType
  /\ occupied \in [Ports -> {"instance", "foreign", None}]
  /\ entry \in [Ports -> {"live", "dead", None}]
  /\ server \in [Ports -> {"starting", "up", None}] /\ exiting \subseteq Ports
  /\ client \in BOOLEAN /\ dispatch \in BOOLEAN
  /\ stream \in [Streams -> Tasks \cup {"client", "dispatch", None}]
  /\ task \in [Tasks -> TaskType] /\ running \in Tasks \cup {None}
  /\ phase \in {"boot", "serving", "stopping", "stopped"} /\ troubles \in 0..MaxTroubles

\* A listener never answers "MCP proxy is shutting down" while it is in the
\* table: whichever tasks stop the last listener and start the next one
\* (_close_client_if_idle, start_listener), the table is empty or there is a client.
ListenersHaveAClient == client \/ \A p \in Ports : entry[p] = None

\* A server that listens and was not told to exit is the one in the table, and
\* an entry whose task lives is a server that listens: no interleaving of two
\* syncs leaves a listener that nobody can take down (start_listener, stop_listener).
EveryServerIsKnown ==
  \A p \in Ports : entry[p] = "live" <=> (server[p] # None /\ p \notin exiting)

\* A stream on the manager's port does not outlive the switch: while it is off,
\* a request is about to close the client that carries the stream (settings.py:392).
StreamsObeyTheSwitch ==
  \A f \in Streams :
    stream[f] = "dispatch" /\ ~settings.manager =>
      \E t \in Requests : task[t].at = "sessions"

\* Once the manager has stopped nothing is left, whatever the watchdog and the
\* requests were doing before and wherever the watchdog was when it was cancelled.
\* The exception: a cancel that stop_listener swallowed leaves a watchdog that goes
\* on with its sync beside stop_proxy, and may bind after it.
StoppedLeavesNothing ==
  phase = "stopped" /\ task[Watchdog].at = "ended" =>
                       /\ ~client /\ ~dispatch /\ \A p \in Ports : entry[p] = None
                       /\ \A p \in Ports : server[p] # None => p \in exiting

\* What the settings ask for: a listener on every wanted port that can be had,
\* and none elsewhere.
Settled ==
  \A p \in Ports :
    /\ server[p] # None => p \in Wanted(settings)
    /\ p \in Wanted(settings) /\ occupied[p] = None => server[p] = "up"

\* Requests, crashes and taken ports come to an end, and then the watchdog
\* brings the listeners to what the settings say, for good.
PortsSettle == <>[](Settled \/ phase = "stopped")
=============================================================================
