-------------------------- MODULE PublicPortsProofs --------------------------
(***************************************************************************)
(* The listeners of app/shared_proxy.py, for any number of ports, settings *)
(* requests and streams, and any number of crashes, slow starts and ports  *)
(* taken by others.                                                        *)
(***************************************************************************)
EXTENDS PublicPorts, TLAPS

-----------------------------------------------------------------------------
(***************************************************************************)
(* Types, and where a task can be                                          *)
(***************************************************************************)

\* In sync_listeners, or in what it awaits.
Syncing(r) ==
  \/ r.at \in {"sync", "bind", "polling"}
  \/ r.at \in {"draining", "closing"} /\ r.then \in {"sync", "bind", "failed"}

\* stop_listener knows where to return to, a bind knows its port, only requests
\* answer, and a request that binds the new ports remembers the old ones.
TaskOK(t, r) ==
  /\ r \in TaskType
  /\ r.at = "draining" => r.then \in {"sync", "bind", "failed"}
  /\ r.at = "closing" => r.then # None
  /\ r.at \in {"bind", "polling"} => r.port \in Ports
  /\ r.at \in {"draining", "closing"} /\ r.then = "bind" => r.port \in Ports
  /\ r.at \in {"apply", "sessions"} => t \in Requests
  /\ r.at = "closing" /\ r.then = "answered" => t \in Requests
  /\ t \in Requests /\ Syncing(r) /\ ~r.undo => r.old # None

PortsInv == TypeOK /\ \A t \in Tasks : TaskOK(t, task[t])

LEMMA RestIsOK == ASSUME NEW t PROVE TaskOK(t, Rest)
  BY DEF Rest, TaskOK, TaskType, Syncing, PortOrNone

LEMMA ReturnOK ==
  ASSUME NEW t \in Tasks, NEW r \in TaskType, r.then # None,
         r.then = "bind" => r.port \in Ports,
         t \in Requests /\ r.then \in {"sync", "bind", "failed"} /\ ~r.undo => r.old # None
  PROVE  TaskOK(t, Return(r))
<1>1. CASE r.then = "failed"
  BY <1>1 DEF Return, TaskOK, TaskType, Syncing, PortOrNone
<1>2. CASE r.then = "bind"
  BY <1>2 DEF Return, TaskOK, TaskType, Syncing, PortOrNone
<1>3. CASE r.then \in {"sync", "answered", "stopped"}
  BY <1>3 DEF Return, TaskOK, TaskType, Syncing, PortOrNone
<1>. QED
  BY <1>1, <1>2, <1>3 DEF TaskType

\* The part of the state that stop_listener and a resuming task change.
TasksInv ==
  /\ running \in Tasks \cup {None} /\ client \in BOOLEAN
  /\ stream \in [Streams -> Tasks \cup {"client", "dispatch", None}]
  /\ task \in [Tasks -> TaskType] /\ \A t \in Tasks : TaskOK(t, task[t])

LEMMA TaskSet ==
  ASSUME PortsInv, NEW t \in Tasks, NEW r, TaskOK(t, r), task' = [task EXCEPT ![t] = r]
  PROVE  task' \in [Tasks -> TaskType] /\ \A u \in Tasks : TaskOK(u, task'[u])
  BY DEF PortsInv, TypeOK, TaskOK

LEMMA CarriedType ==
  ASSUME PortsInv, NEW t \in Tasks, NEW holder
  PROVE  Carried(t, holder) \in [Streams -> Tasks \cup {"client", "dispatch", None}]
  BY DEF PortsInv, TypeOK, Carried

\* What stop_listener and _close_client_if_idle are called with.
Callable(t, r) ==
  /\ r \in TaskType /\ r.then \in {"sync", "bind", "failed", "stopped"}
  /\ t \in Requests /\ ~r.undo => r.old # None

LEMMA CloseOK ==
  ASSUME PortsInv, NEW t \in Tasks, NEW r, Callable(t, r), r.then = "bind" => r.port \in Ports,
         NEW e, CloseIfIdle(t, r, e)
  PROVE  TasksInv'
<1>1. TaskOK(t, [r EXCEPT !.at = "closing"])
  <2> DEFINE c == [r EXCEPT !.at = "closing"]
  <2>1. c \in TaskType /\ c.at = "closing" /\ c.then = r.then /\ c.port = r.port
        /\ c.undo = r.undo /\ c.old = r.old
    BY DEF Callable, TaskType
  <2> HIDE DEF c
  <2>2. TaskOK(t, c)
    BY <2>1, Names DEF Callable, TaskOK
  <2>. QED
    BY <2>2 DEF c
<1>2. TaskOK(t, Return(r))
  BY ReturnOK, Names DEF Callable
<1>. QED
  BY <1>1, <1>2, TaskSet, CarriedType
     DEF CloseIfIdle, Awaits, Becomes, TasksInv, PortsInv, TypeOK

LEMMA StopOK ==
  ASSUME PortsInv, NEW t \in Tasks, NEW p \in Ports, NEW r, Callable(t, r), r.then # "stopped",
         StopListener(t, p, r)
  PROVE  /\ TasksInv' /\ entry' \in [Ports -> {"live", "dead", None}] /\ exiting' \subseteq Ports
<1> DEFINE e == [entry EXCEPT ![p] = None]
           c == [r EXCEPT !.port = p]
           d == [r EXCEPT !.at = "draining", !.port = p, !.seen = "live"]
<1>1. e \in [Ports -> {"live", "dead", None}] /\ entry' = e
  BY DEF PortsInv, TypeOK, StopListener
<1>2. /\ c \in TaskType /\ d \in TaskType /\ d.at = "draining"
      /\ c.then = r.then /\ c.port = p /\ c.undo = r.undo /\ c.old = r.old
      /\ d.then = r.then /\ d.port = p /\ d.undo = r.undo /\ d.old = r.old
  BY DEF Callable, TaskType, PortOrNone
<1>3. \/ ListenerRunning(p) /\ exiting' = exiting \cup {p} /\ Awaits(t, d) /\ UNCHANGED <<client, stream>>
      \/ CloseIfIdle(t, c, e) /\ UNCHANGED exiting
  BY DEF StopListener
<1> HIDE DEF c, d
<1>4. Callable(t, c) /\ TaskOK(t, d)
  BY <1>2 DEF Callable, TaskOK, Syncing
<1>5. CASE CloseIfIdle(t, c, e) /\ UNCHANGED exiting
  BY <1>1, <1>2, <1>4, <1>5, CloseOK DEF PortsInv, TypeOK
<1>6. CASE exiting' = exiting \cup {p} /\ Awaits(t, d) /\ UNCHANGED <<client, stream>>
  BY <1>1, <1>4, <1>6, TaskSet DEF Awaits, TasksInv, PortsInv, TypeOK
<1>. QED
  BY <1>3, <1>5, <1>6

LEMMA PortsInit == Init => PortsInv
<1> SUFFICES ASSUME Init PROVE PortsInv
  OBVIOUS
<1>1. task \in [Tasks -> TaskType] /\ \A t \in Tasks : TaskOK(t, task[t])
  BY RestIsOK DEF Init, TaskOK
<1>2. settings \in SettingsType /\ troubles \in 0..MaxTroubles
  BY FilesAreSettings, Troubles DEF Init
<1>3. /\ occupied \in [Ports -> {"instance", "foreign", None}]
      /\ entry \in [Ports -> {"live", "dead", None}]
      /\ server \in [Ports -> {"starting", "up", None}] /\ exiting \subseteq Ports
      /\ stream \in [Streams -> Tasks \cup {"client", "dispatch", None}]
  BY DEF Init
<1>. QED
  BY <1>1, <1>2, <1>3 DEF Init, PortsInv, TypeOK

\* Steps that leave the tables and settings alone and set one task.
LEMMA OneTask ==
  ASSUME PortsInv, NEW t \in Tasks, NEW r, TaskOK(t, r),
         Becomes(t, r) \/ Awaits(t, r),
         UNCHANGED <<settings, occupied, entry, server, exiting, client, dispatch, stream, phase, troubles>>
  PROVE  PortsInv'
  BY TaskSet DEF PortsInv, TypeOK, Becomes, Awaits

LEMMA SyncBegunOK ==
  ASSUME NEW t \in Tasks, NEW r \in TaskType, NEW s \in SettingsType,
         t \in Requests /\ ~r.undo => r.old # None
  PROVE  TaskOK(t, SyncBegun(r, s))
<1> DEFINE b == SyncBegun(r, s)
<1>1. Wanted(s) \subseteq Ports
  BY DEF Wanted, SettingsType, PortOrNone
<1>2. b \in TaskType
  BY <1>1 DEF SyncBegun, TaskType
<1>3. b.at = "sync" /\ b.undo = r.undo /\ b.old = r.old
  BY DEF SyncBegun, TaskType
<1> HIDE DEF b
<1>4. TaskOK(t, b)
  BY <1>2, <1>3 DEF TaskOK
<1>. QED
  BY <1>4 DEF b

\* What Seen changes is only what a task has seen.
LEMMA SeenOK ==
  ASSUME PortsInv, NEW p, NEW at, NEW what \in {"started", "ended"}, task' = Seen(p, at, what)
  PROVE  task' \in [Tasks -> TaskType] /\ \A t \in Tasks : TaskOK(t, task'[t])
<1>1. ASSUME NEW r \in TaskType PROVE [r EXCEPT !.seen = what] \in TaskType
  BY DEF TaskType
<1>2. ASSUME NEW t \in Tasks PROVE TaskOK(t, task'[t])
  <2>1. CASE task'[t] = task[t]
    BY <2>1 DEF PortsInv
  <2>2. CASE task'[t] = [task[t] EXCEPT !.seen = what]
    <3>1. task[t] \in TaskType /\ TaskOK(t, task[t])
      BY DEF PortsInv, TypeOK
    <3>. QED
      BY <1>1, <2>2, <3>1 DEF TaskOK, TaskType, Syncing
  <2>. QED
    BY <2>1, <2>2 DEF Seen
<1>. QED
  BY <1>2 DEF Seen, TaskOK

LEMMA RestAtIsOK ==
  ASSUME NEW t PROVE TaskOK(t, [Rest EXCEPT !.at = "answered"])
  BY DEF Rest, TaskOK, TaskType, Syncing, PortOrNone

LEMMA DropOK ==
  ASSUME PortsInv, NEW t \in Requests, DropDispatch(t), client' = client
  PROVE  TasksInv' /\ dispatch' \in BOOLEAN
<1>1. t \in Tasks
  BY DEF Tasks
<1>2. TaskOK(t, [Rest EXCEPT !.at = "closing", !.then = "answered"])
  <2> DEFINE c == [Rest EXCEPT !.at = "closing", !.then = "answered"]
  <2>1. c \in TaskType /\ c.at = "closing" /\ c.then = "answered"
    BY DEF Rest, TaskType, PortOrNone
  <2> HIDE DEF c
  <2>2. TaskOK(t, c)
    BY <2>1, Names DEF TaskOK, Syncing
  <2>. QED
    BY <2>2 DEF c
<1>. QED
  BY <1>1, <1>2, RestAtIsOK, TaskSet, CarriedType
     DEF DropDispatch, Awaits, TasksInv, PortsInv, TypeOK

LEMMA PortsStep == PortsInv /\ [Next]_vars => PortsInv'
<1> SUFFICES ASSUME PortsInv, [Next]_vars PROVE PortsInv'
  OBVIOUS
<1>0. ASSUME NEW t \in Tasks
      PROVE  task[t] \in TaskType /\ TaskOK(t, task[t])
  BY DEF PortsInv, TypeOK
<1>1. ASSUME NEW t \in Tasks, Drained(t) PROVE PortsInv'
  <2> DEFINE r == [task[t] EXCEPT !.seen = None]
  <2>1. Callable(t, r) /\ (r.then = "bind" => r.port \in Ports)
    BY <1>0, <1>1 DEF Drained, Suspended, Callable, TaskOK, TaskType, Syncing
  <2>2. CloseIfIdle(t, r, entry)
    BY <1>1 DEF Drained
  <2> HIDE DEF r
  <2>. QED
    BY <1>1, <2>1, <2>2, CloseOK DEF Drained, PortsInv, TypeOK, TasksInv
<1>2. ASSUME NEW t \in Tasks, Closed(t) PROVE PortsInv'
  <2>1. TaskOK(t, Return(task[t]))
    BY <1>0, <1>2, ReturnOK DEF Closed, Suspended, TaskOK, Syncing
  <2>. QED
    BY <1>2, <2>1, TaskSet DEF Closed, Becomes, Awaits, PortsInv, TypeOK
<1>3. ASSUME NEW t \in Tasks, PolledUp(t) PROVE PortsInv'
  <2>1. TaskOK(t, [task[t] EXCEPT !.at = "sync", !.seen = None, !.port = None])
    BY <1>0, <1>3 DEF PolledUp, Suspended, TaskOK, TaskType, Syncing, PortOrNone
  <2>. QED
    BY <1>3, <2>1, OneTask DEF PolledUp
<1>4. ASSUME NEW t \in Tasks, PolledDead(t) \/ GivesUp(t) PROVE PortsInv'
  <2> DEFINE r == [task[t] EXCEPT !.then = "failed", !.seen = None]
  <2>1. task[t].at = "polling" /\ StopListener(t, task[t].port, r)
    BY <1>4 DEF PolledDead, GivesUp, Suspended
  <2>2. task[t].port \in Ports /\ Callable(t, r) /\ r.then = "failed"
    BY <1>0, <2>1 DEF TaskOK, TaskType, Callable, Syncing
  <2>4. /\ UNCHANGED <<settings, occupied, server, dispatch, phase>>
        /\ troubles' \in 0..MaxTroubles
    BY <1>4, Troubles DEF PolledDead, GivesUp, PortsInv, TypeOK
  <2> HIDE DEF r
  <2>. QED
    BY <2>1, <2>2, <2>4, StopOK DEF PortsInv, TypeOK, TasksInv
<1>5. ASSUME NEW t \in Tasks, SessionsStopped(t) PROVE PortsInv'
  <2>1. t \in Requests
    BY <1>0, <1>5 DEF SessionsStopped, Suspended, TaskOK
  <2>. QED
    BY <1>5, <2>1, DropOK DEF SessionsStopped, PortsInv, TypeOK, TasksInv
<1>6. CASE KeeperSyncs \/ WatchdogSyncs
  <2>1. PICK t \in {Keeper, Watchdog} :
           /\ Becomes(t, SyncBegun(Rest, settings))
           /\ UNCHANGED <<settings, occupied, entry, server, exiting, client, dispatch, stream, phase,
                          troubles>>
    BY <1>6 DEF KeeperSyncs, WatchdogSyncs
  <2>2. TaskOK(t, SyncBegun(Rest, settings)) /\ t \in Tasks
    BY RestIsOK, SyncBegunOK, Distinct DEF Tasks, PortsInv, TypeOK, TaskOK
  <2>. QED
    BY <2>1, <2>2, OneTask
<1>7. ASSUME NEW t \in Tasks, SyncStops(t) PROVE PortsInv'
  <2>1. PICK p \in task[t].stops :
           StopListener(t, p, [task[t] EXCEPT !.stops = @ \ {p}, !.then = "sync"])
    BY <1>7 DEF SyncStops
  <2> DEFINE r == [task[t] EXCEPT !.stops = @ \ {p}, !.then = "sync"]
  <2>2. p \in Ports /\ Callable(t, r) /\ r.then = "sync"
    BY <1>0, <1>7 DEF SyncStops, Holds, TaskOK, TaskType, Callable, Syncing
  <2> HIDE DEF r
  <2>. QED
    BY <1>7, <2>1, <2>2, StopOK DEF r, SyncStops, PortsInv, TypeOK, TasksInv
<1>8. ASSUME NEW t \in Tasks, SyncStarts(t) PROVE PortsInv'
  <2>1. PICK p \in Ports :
           LET r == [task[t] EXCEPT !.starts = @ \ {p}]
           IN IF ListenerRunning(p) THEN Becomes(t, r) /\ UNCHANGED <<entry, exiting, client, stream>>
              ELSE StopListener(t, p, [r EXCEPT !.then = "bind"])
    BY <1>8 DEF SyncStarts
  <2> DEFINE r == [task[t] EXCEPT !.starts = @ \ {p}]
             b == [r EXCEPT !.then = "bind"]
  <2>2. TaskOK(t, r) /\ Callable(t, b) /\ b.then = "bind"
    BY <1>0, <1>8 DEF SyncStarts, Holds, TaskOK, TaskType, Callable, Syncing
  <2>3. CASE Becomes(t, r) /\ UNCHANGED <<entry, exiting, client, stream>>
    <3> HIDE DEF r, b
    <3>. QED
      BY <1>8, <2>2, <2>3, OneTask DEF SyncStarts
  <2>4. CASE StopListener(t, p, b)
    <3> HIDE DEF r, b
    <3>. QED
      BY <1>8, <2>2, <2>4, StopOK DEF SyncStarts, PortsInv, TypeOK, TasksInv
  <2>. QED
    BY <2>1, <2>3, <2>4
<1>9. ASSUME NEW t \in Tasks, Bind(t) PROVE PortsInv'
  <2>1. task[t].port \in Ports
    BY <1>0, <1>9 DEF Bind, Holds, TaskOK
  <2>2. /\ TaskOK(t, [task[t] EXCEPT !.at = "sync", !.port = None, !.failed = TRUE])
        /\ TaskOK(t, [task[t] EXCEPT !.at = "polling", !.seen = "live"])
    BY <1>0, <1>9 DEF Bind, Holds, TaskOK, TaskType, Syncing, PortOrNone
  <2>3. CASE BindFails(t)
    BY <1>9, <2>2, <2>3, OneTask DEF Bind, BindFails
  <2>4. CASE Bound(t, task[t].port)
    BY <1>9, <2>1, <2>2, <2>4, TaskSet DEF Bind, Bound, Awaits, PortsInv, TypeOK
  <2>. QED
    BY <1>9, <2>3, <2>4 DEF Bind
<1>10. ASSUME NEW t \in Tasks, Synced(t) PROVE PortsInv'
  <2>1. t \in Requests /\ task[t].at = "sync"
    BY <1>10 DEF Synced, Returns, Holds
  <2>2. CASE Awaits(t, [Rest EXCEPT !.at = "answered"]) /\ UNCHANGED settings
    BY <1>10, <2>2, RestAtIsOK, OneTask DEF Synced
  <2>3. CASE ~task[t].undo /\ PutBack(t)
    <3> DEFINE s == [settings EXCEPT !.shared = task[t].old.shared,
                                     !.category = task[t].old.category]
               r == SyncBegun([Rest EXCEPT !.undo = TRUE], s)
    <3>1. task[t].old \in SettingsType
      BY <1>0, <2>1, <2>3 DEF TaskOK, TaskType, Syncing
    <3>2. s \in SettingsType
      BY <3>1 DEF PortsInv, TypeOK, SettingsType
    <3>3. [Rest EXCEPT !.undo = TRUE] \in TaskType /\ [Rest EXCEPT !.undo = TRUE].undo
      BY DEF Rest, TaskType, PortOrNone
    <3>4. TaskOK(t, r)
      <4> HIDE DEF s
      <4>. QED
        BY <3>2, <3>3, SyncBegunOK
    <3>5. settings' = s /\ Becomes(t, r)
      BY <2>3 DEF PutBack
    <3> HIDE DEF s, r
    <3>. QED
      BY <1>10, <3>2, <3>4, <3>5, TaskSet DEF Synced, Becomes, PortsInv, TypeOK
  <2>4. CASE Becomes(t, [task[t] EXCEPT !.at = "apply", !.old = None]) /\ UNCHANGED settings
    <3>1. TaskOK(t, [task[t] EXCEPT !.at = "apply", !.old = None])
      BY <1>0, <2>1 DEF TaskOK, TaskType, Syncing
    <3>. QED
      BY <1>10, <2>4, <3>1, OneTask DEF Synced
  <2>. QED
    BY <1>10, <2>2, <2>3, <2>4 DEF Synced
<1>11. ASSUME NEW t \in Tasks, Apply(t) PROVE PortsInv'
  <2>1. t \in Requests
    BY <1>0, <1>11 DEF Apply, Holds, TaskOK
  <2>2. settings' \in SettingsType
    <3>1. task[t].switch \in BOOLEAN \cup {None}
      BY <1>0 DEF TaskType
    <3>. QED
      BY <1>11, <3>1 DEF Apply, PortsInv, TypeOK, SettingsType
  <2>3. TasksInv' /\ dispatch' \in BOOLEAN
    <3>1. CASE DropDispatch(t)
      BY <1>11, <2>1, <3>1, DropOK DEF Apply
    <3>2. CASE Awaits(t, [task[t] EXCEPT !.at = "sessions"]) /\ UNCHANGED <<dispatch, stream>>
      <4>1. TaskOK(t, [task[t] EXCEPT !.at = "sessions"])
        BY <1>0, <1>11, <2>1 DEF Apply, Holds, TaskOK, TaskType, Syncing
      <4>. QED
        BY <1>11, <3>2, <4>1, TaskSet DEF Apply, Awaits, TasksInv, PortsInv, TypeOK
    <3>3. CASE Awaits(t, [Rest EXCEPT !.at = "answered"]) /\ UNCHANGED <<dispatch, stream>>
      BY <1>11, <3>3, RestAtIsOK, TaskSet DEF Apply, Awaits, TasksInv, PortsInv, TypeOK
    <3>. QED
      BY <1>11, <3>1, <3>2, <3>3 DEF Apply
  <2>. QED
    BY <1>11, <2>2, <2>3 DEF Apply, PortsInv, TypeOK, TasksInv
<1>12. CASE KeeperSynced \/ WatchdogSynced
  <2>1. Keeper \in Tasks /\ Watchdog \in Tasks
    BY DEF Tasks
  <2>2. CASE KeeperSynced
    BY <2>1, <2>2, RestIsOK, TaskSet DEF KeeperSynced, Awaits, PortsInv, TypeOK
  <2>3. CASE WatchdogSynced
    BY <2>1, <2>3, RestIsOK, OneTask DEF WatchdogSynced
  <2>. QED
    BY <1>12, <2>2, <2>3
<1>13. CASE StopsAll
  <2>1. Keeper \in Tasks /\ Keeper \notin Requests
    BY Distinct DEF Tasks
  <2>2. Callable(Keeper, [Rest EXCEPT !.then = "stopped"]) /\ [Rest EXCEPT !.then = "stopped"].then # "bind"
    BY <2>1 DEF Callable, Rest, TaskType, PortOrNone
  <2>. QED
    BY <1>13, <2>1, <2>2, CloseOK DEF StopsAll, PortsInv, TypeOK, TasksInv
<1>14. CASE Stopped
  <2>1. Keeper \in Tasks
    BY DEF Tasks
  <2>. QED
    BY <1>14, <2>1, RestIsOK, TaskSet DEF Stopped, Awaits, PortsInv, TypeOK
<1>15. ASSUME NEW t \in Requests, Request(t) PROVE PortsInv'
  <2>1. PICK s \in Acceptable(settings.shared), c \in Acceptable(settings.category), m \in BOOLEAN :
           LET new == [settings EXCEPT !.shared = s, !.category = c]
               r == [task[t] EXCEPT !.old = IF new = settings THEN None ELSE settings,
                                    !.switch = IF m = settings.manager THEN None ELSE m]
           IN /\ settings' = new
              /\ Becomes(t, IF new = settings THEN [r EXCEPT !.at = "apply"] ELSE SyncBegun(r, new))
    BY <1>15 DEF Request
  <2> DEFINE new == [settings EXCEPT !.shared = s, !.category = c]
             r == [task[t] EXCEPT !.old = IF new = settings THEN None ELSE settings,
                                  !.switch = IF m = settings.manager THEN None ELSE m]
             a == [r EXCEPT !.at = "apply"]
  <2>2. settings \in SettingsType /\ s \in PortOrNone /\ c \in PortOrNone
    BY DEF PortsInv, TypeOK, Acceptable, SettingsType, PortOrNone
  <2>3. new \in SettingsType
    BY <2>2 DEF SettingsType
  <2>4. t \in Tasks /\ task[t].at = "rest" /\ task[t] \in TaskType
    BY <1>0, <1>15 DEF Request, Suspended, Tasks
  <2>5. r \in TaskType /\ r.at = "rest" /\ r.old = IF new = settings THEN None ELSE settings
    <3> HIDE DEF new
    <3>. QED
      BY <2>2, <2>4 DEF TaskType
  <2>6. a \in TaskType /\ a.at = "apply"
    <3> HIDE DEF r
    <3>. QED
      BY <2>5 DEF TaskType
  <2>7. settings' = new /\ Becomes(t, IF new = settings THEN a ELSE SyncBegun(r, new))
    BY <2>1
  <2> HIDE DEF new, r, a
  <2>8. TaskOK(t, a)
    BY <2>6 DEF TaskOK, Syncing
  <2>9. new # settings => TaskOK(t, SyncBegun(r, new))
    BY <2>2, <2>3, <2>4, <2>5, SyncBegunOK, Names
  <2>. QED
    BY <1>15, <2>3, <2>4, <2>7, <2>8, <2>9, TaskSet DEF Request, Becomes, PortsInv, TypeOK
<1>16. ASSUME NEW p \in Ports, ServerStarts(p) \/ ServerCloses(p) \/ ServerCrashes(p) PROVE PortsInv'
  <2>1. task' \in [Tasks -> TaskType] /\ \A t \in Tasks : TaskOK(t, task'[t])
    BY <1>16, SeenOK DEF ServerStarts, ServerCloses, ServerCrashes
  <2>. QED
    BY <1>16, <2>1, Troubles DEF ServerStarts, ServerCloses, ServerCrashes, PortsInv, TypeOK
<1>17. ASSUME NEW p \in Ports, TakenByOthers(p) \/ GivenUpByOthers(p) PROVE PortsInv'
  BY <1>17, Troubles DEF TakenByOthers, GivenUpByOthers, PortsInv, TypeOK
<1>18. ASSUME NEW f \in Streams, StreamOnManager(f) \/ StreamEnds(f) \/ \E p \in Ports : StreamOnPort(f, p)
       PROVE  PortsInv'
  BY <1>18 DEF StreamOnManager, StreamEnds, StreamOnPort, Forward, PortsInv, TypeOK
<1>19. CASE Shutdown
  <2> DEFINE k == [Rest EXCEPT !.at = "stop_all"]
  <2>1. Keeper \in Tasks /\ Watchdog \in Tasks /\ TaskOK(Keeper, k)
    BY Distinct DEF Tasks, Rest, TaskOK, TaskType, Syncing, PortOrNone
  <2>2. ASSUME NEW w \in Cancelled PROVE TaskOK(Watchdog, w)
    <3>1. TaskOK(Watchdog, Ended)
      BY DEF Ended, Rest, TaskOK, TaskType, Syncing, PortOrNone
    <3>. QED
      BY <1>0, <2>1, <2>2, <3>1 DEF Cancelled
  <2>3. PICK w \in Cancelled : task' = [task EXCEPT ![Watchdog] = w, ![Keeper] = k]
    BY <1>19 DEF Shutdown
  <2> HIDE DEF k
  <2>4. task' \in [Tasks -> TaskType] /\ \A t \in Tasks : TaskOK(t, task'[t])
    BY <1>0, <2>1, <2>2, <2>3, Distinct DEF PortsInv, TypeOK, TaskOK
  <2>. QED
    BY <1>19, <2>4 DEF Shutdown, PortsInv, TypeOK
<1>20. CASE StopProxy
  <2> DEFINE r == [Rest EXCEPT !.at = "sync", !.stops = {p \in Ports : entry[p] # None}]
  <2>1. Keeper \in Tasks /\ TaskOK(Keeper, r)
    BY Distinct DEF Tasks, Rest, TaskOK, TaskType, PortOrNone
  <2>2. Becomes(Keeper, r)
    BY <1>20 DEF StopProxy
  <2> HIDE DEF r
  <2>. QED
    BY <1>20, <2>1, <2>2, TaskSet DEF StopProxy, Becomes, PortsInv, TypeOK
<1>21. CASE UNCHANGED vars
  BY <1>21 DEF vars, PortsInv, TypeOK
<1>. QED
  BY <1>1, <1>2, <1>3, <1>4, <1>5, <1>6, <1>7, <1>8, <1>9, <1>10, <1>11, <1>12, <1>13, <1>14,
     <1>15, <1>16, <1>17, <1>18, <1>19, <1>20, <1>21 DEF Next, Resumes, Continues

\* The tables, the client and the local state of the tasks have their types, and
\* a task is only where its caller can be.
THEOREM PortsAlways == Spec => []PortsInv
BY PortsInit, PortsStep, PTL DEF Spec

-----------------------------------------------------------------------------
(***************************************************************************)
(* The table, the servers and the client                                   *)
(***************************************************************************)

\* A server that was told to exit still has its socket.
TablesInv ==
  /\ EveryServerIsKnown
  /\ \A p \in exiting : server[p] # None
  /\ ListenersHaveAClient

\* The client goes only when the table is empty.
LEMMA CloseEffect ==
  ASSUME NEW t, NEW r, NEW e, CloseIfIdle(t, r, e)
  PROVE  client' = client \/ \A p \in Ports : e[p] = None
  BY DEF CloseIfIdle

\* stop_listener: the entry goes, and its server is told to exit if it lives.
StopEffect(p) ==
  /\ entry' = [entry EXCEPT ![p] = None]
  /\ exiting' = IF ListenerRunning(p) THEN exiting \cup {p} ELSE exiting
  /\ client' = client \/ \A q \in Ports : entry'[q] = None

LEMMA StopHasEffect ==
  ASSUME NEW t, NEW p, NEW r, StopListener(t, p, r)
  PROVE  StopEffect(p)
  BY CloseEffect DEF StopListener, StopEffect

LEMMA StopKeepsTables ==
  ASSUME PortsInv, TablesInv, NEW p \in Ports, StopEffect(p), server' = server
  PROVE  TablesInv'
<1>1. entry' \in [Ports -> {"live", "dead", None}] /\ entry'[p] = None
  BY DEF PortsInv, TypeOK, StopEffect
<1>2. EveryServerIsKnown'
  BY <1>1, Names DEF StopEffect, ListenerRunning, TablesInv, EveryServerIsKnown, PortsInv, TypeOK
<1>3. \A q \in exiting' : server'[q] # None
  BY DEF StopEffect, ListenerRunning, TablesInv, EveryServerIsKnown, PortsInv, TypeOK
<1>4. ListenersHaveAClient'
  BY <1>1 DEF StopEffect, TablesInv, ListenersHaveAClient, PortsInv, TypeOK
<1>. QED
  BY <1>2, <1>3, <1>4 DEF TablesInv

LEMMA TablesStep == PortsInv /\ TablesInv /\ [Next]_vars => TablesInv'
<1> SUFFICES ASSUME PortsInv, TablesInv, [Next]_vars PROVE TablesInv'
  OBVIOUS
<1> USE DEF EveryServerIsKnown, ListenersHaveAClient
<1>1. CASE UNCHANGED <<entry, server, exiting, client>>
  BY <1>1 DEF TablesInv
<1>2. ASSUME (\E t \in Tasks : Drained(t)) \/ StopsAll PROVE TablesInv'
  <2>1. UNCHANGED <<entry, server, exiting>> /\ (client' = client \/ \A p \in Ports : entry[p] = None)
    BY <1>2, CloseEffect DEF Drained, StopsAll
  <2>. QED
    BY <2>1 DEF TablesInv
<1>3. ASSUME NEW t \in Tasks, SyncStops(t) PROVE TablesInv'
  <2>1. task[t].stops \subseteq Ports
    BY DEF PortsInv, TypeOK, TaskType
  <2>. QED
    BY <1>3, <2>1, StopHasEffect, StopKeepsTables DEF SyncStops
<1>4. ASSUME NEW t \in Tasks, SyncStarts(t) PROVE TablesInv'
  <2>1. \/ \E p \in Ports : StopEffect(p)
        \/ UNCHANGED <<entry, exiting, client>>
    BY <1>4, StopHasEffect DEF SyncStarts
  <2>. QED
    BY <1>1, <1>4, <2>1, StopKeepsTables DEF SyncStarts
<1>5. ASSUME NEW t \in Tasks, PolledDead(t) \/ GivesUp(t) PROVE TablesInv'
  <2>1. task[t].port \in Ports
    BY <1>5 DEF PolledDead, GivesUp, Suspended, PortsInv, TaskOK
  <2>. QED
    BY <1>5, <2>1, StopHasEffect, StopKeepsTables DEF PolledDead, GivesUp
<1>6. ASSUME NEW t \in Tasks, Bind(t) PROVE TablesInv'
  <2>1. task[t].port \in Ports
    BY <1>6 DEF Bind, Holds, PortsInv, TaskOK
  <2>2. CASE BindFails(t)
    BY <1>1, <1>6, <2>2 DEF Bind, BindFails
  <2>3. CASE server[task[t].port] = None /\ Bound(t, task[t].port)
    <3> DEFINE p == task[t].port
    <3>1. /\ p \in Ports /\ server[p] = None /\ client' = TRUE /\ exiting' = exiting
          /\ entry' = [entry EXCEPT ![p] = "live"] /\ server' = [server EXCEPT ![p] = "starting"]
      BY <1>6, <2>1, <2>3 DEF Bind, Bound
    <3>2. p \notin exiting
      BY <3>1 DEF TablesInv
    <3> HIDE DEF p
    <3>. QED
      BY <3>1, <3>2, Names DEF TablesInv, PortsInv, TypeOK
  <2>. QED
    BY <1>6, <2>2, <2>3 DEF Bind
<1>7. ASSUME NEW p \in Ports, ServerStarts(p) \/ ServerCloses(p) \/ ServerCrashes(p) PROVE TablesInv'
  <2>1. CASE ServerStarts(p)
    BY <2>1, Names DEF ServerStarts, TablesInv, PortsInv, TypeOK
  <2>2. CASE ServerCloses(p)
    BY <2>2 DEF ServerCloses, TablesInv, PortsInv, TypeOK
  <2>3. CASE ServerCrashes(p)
    BY <2>3, Names DEF ServerCrashes, TablesInv, PortsInv, TypeOK
  <2>. QED
    BY <1>7, <2>1, <2>2, <2>3
<1>8. CASE UNCHANGED vars
  BY <1>1, <1>8 DEF vars
<1>9. ASSUME NEW t \in Tasks,
             Closed(t) \/ PolledUp(t) \/ SessionsStopped(t) \/ Synced(t) \/ Apply(t)
      PROVE  TablesInv'
  BY <1>1, <1>9 DEF Closed, PolledUp, SessionsStopped, Synced, Apply
<1>10. CASE \/ KeeperSyncs \/ KeeperSynced \/ WatchdogSyncs \/ WatchdogSynced
            \/ Shutdown \/ StopProxy \/ Stopped
  BY <1>1, <1>10 DEF KeeperSyncs, KeeperSynced, WatchdogSyncs, WatchdogSynced, Shutdown, StopProxy,
                     Stopped
<1>11. ASSUME NEW t \in Requests, Request(t) PROVE TablesInv'
  BY <1>1, <1>11 DEF Request
<1>12. ASSUME NEW p \in Ports, TakenByOthers(p) \/ GivenUpByOthers(p) PROVE TablesInv'
  BY <1>1, <1>12 DEF TakenByOthers, GivenUpByOthers
<1>13. ASSUME NEW f \in Streams, StreamOnManager(f) \/ StreamEnds(f) \/ \E p \in Ports : StreamOnPort(f, p)
       PROVE  TablesInv'
  BY <1>1, <1>13 DEF StreamOnManager, StreamEnds, StreamOnPort
<1>. QED
  BY <1>2, <1>3, <1>4, <1>5, <1>6, <1>7, <1>8, <1>9, <1>10, <1>11, <1>12, <1>13
     DEF Next, Resumes, Continues

\* A server that listens and was not told to exit is the one in the table.
THEOREM ServersAreKnown == Spec => []EveryServerIsKnown
<1>1. Init => TablesInv
  BY Names DEF Init, TablesInv, EveryServerIsKnown, ListenersHaveAClient
<1>2. TablesInv => EveryServerIsKnown
  BY DEF TablesInv
<1>. QED
  BY <1>1, <1>2, PortsAlways, TablesStep, PTL DEF Spec

\* While there is an entry in the table there is a client to carry its requests.
THEOREM EntriesHaveAClient == Spec => []ListenersHaveAClient
<1>1. Init => TablesInv
  BY Names DEF Init, TablesInv, EveryServerIsKnown, ListenersHaveAClient
<1>2. TablesInv => ListenersHaveAClient
  BY DEF TablesInv
<1>. QED
  BY <1>1, <1>2, PortsAlways, TablesStep, PTL DEF Spec

-----------------------------------------------------------------------------
(***************************************************************************)
(* The switch of the manager's port and the streams behind it              *)
(***************************************************************************)

\* Only a client carries streams.
SwitchInv ==
  /\ \A f \in Streams : stream[f] = "dispatch" => dispatch
  /\ StreamsObeyTheSwitch

\* A step that has nothing to do with the dispatcher.
Aside ==
  /\ dispatch' = dispatch /\ settings'.manager = settings.manager
  /\ \A f \in Streams : stream'[f] = "dispatch" => stream[f] = "dispatch"
  /\ \A t \in Requests : task[t].at = "sessions" => task'[t].at = "sessions"

LEMMA AsideKeepsSwitch == SwitchInv /\ Aside => SwitchInv'
  BY DEF SwitchInv, Aside, StreamsObeyTheSwitch

\* A task that was not waiting for sessions leaves those that are.
LEMMA SessionsStay ==
  ASSUME PortsInv, NEW t \in Tasks, NEW r, task[t].at # "sessions", task' = [task EXCEPT ![t] = r]
  PROVE  \A u \in Requests : task[u].at = "sessions" => task'[u].at = "sessions"
  BY DEF PortsInv, TypeOK, Tasks

LEMMA CarriedIsNotDispatch ==
  ASSUME PortsInv, NEW t \in Tasks, NEW holder, NEW f \in Streams, Carried(t, holder)[f] = "dispatch"
  PROVE  stream[f] = "dispatch" /\ holder # "dispatch"
  BY Names DEF Carried

LEMMA CloseIsAside ==
  ASSUME PortsInv, NEW t \in Tasks, NEW r, NEW e, CloseIfIdle(t, r, e), task[t].at # "sessions",
         UNCHANGED <<dispatch, settings>>
  PROVE  Aside
<1>1. \A f \in Streams : stream'[f] = "dispatch" => stream[f] = "dispatch"
  BY CarriedIsNotDispatch DEF CloseIfIdle
<1>2. \E c : task' = [task EXCEPT ![t] = c]
  BY DEF CloseIfIdle, Awaits, Becomes
<1>. QED
  BY <1>1, <1>2, SessionsStay DEF Aside

LEMMA StopIsAside ==
  ASSUME PortsInv, NEW t \in Tasks, NEW p, NEW r, StopListener(t, p, r), task[t].at # "sessions",
         UNCHANGED <<dispatch, settings>>
  PROVE  Aside
<1>1. CASE \E c, e : CloseIfIdle(t, c, e)
  BY <1>1, CloseIsAside
<1>2. CASE \E c : Awaits(t, c) /\ UNCHANGED <<client, stream>>
  BY <1>2, SessionsStay DEF Awaits, Aside
<1>. QED
  BY <1>1, <1>2 DEF StopListener

\* What a server does changes only what tasks have seen.
LEMMA SeenKeeps ==
  ASSUME PortsInv, NEW p, NEW at, NEW what, task' = Seen(p, at, what), NEW t \in Tasks
  PROVE  /\ task'[t].at = task[t].at /\ task'[t].then = task[t].then
         /\ task'[t].stops = task[t].stops /\ task'[t].starts = task[t].starts
  BY DEF Seen, PortsInv, TypeOK, TaskType

\* The dispatcher's client goes, and every stream with it.
LEMMA DropEndsStreams ==
  ASSUME PortsInv, SwitchInv, NEW t \in Tasks, DropDispatch(t)
  PROVE  SwitchInv'
<1>1. \A f \in Streams : stream'[f] # "dispatch"
  BY CarriedIsNotDispatch DEF DropDispatch, SwitchInv
<1>. QED
  BY <1>1 DEF SwitchInv, StreamsObeyTheSwitch

LEMMA SwitchStep == PortsInv /\ SwitchInv /\ [Next]_vars => SwitchInv'
<1> SUFFICES ASSUME PortsInv, SwitchInv, [Next]_vars PROVE SwitchInv'
  OBVIOUS
<1>1. ASSUME NEW t \in Tasks, NEW r, Becomes(t, r) \/ Awaits(t, r), task[t].at # "sessions",
             settings'.manager = settings.manager, UNCHANGED <<dispatch, stream>>
      PROVE  SwitchInv'
  BY <1>1, SessionsStay, AsideKeepsSwitch DEF Becomes, Awaits, Aside
<1>2. ASSUME NEW t \in Tasks, Drained(t) PROVE SwitchInv'
  BY <1>2, CloseIsAside, AsideKeepsSwitch DEF Drained, Suspended
<1>3. ASSUME NEW t \in Tasks, Closed(t) PROVE SwitchInv'
  <2>1. \A f \in Streams : stream'[f] = "dispatch" => stream[f] = "dispatch"
    BY <1>3, Names DEF Closed
  <2>2. task[t].at # "sessions" /\ \E r : task' = [task EXCEPT ![t] = r]
    BY <1>3 DEF Closed, Suspended, Awaits, Becomes
  <2>. QED
    BY <1>3, <2>1, <2>2, SessionsStay, AsideKeepsSwitch DEF Closed, Aside
<1>4. ASSUME NEW t \in Tasks, PolledUp(t) PROVE SwitchInv'
  BY <1>1, <1>4 DEF PolledUp, Suspended
<1>5. ASSUME NEW t \in Tasks, PolledDead(t) \/ GivesUp(t) PROVE SwitchInv'
  BY <1>5, StopIsAside, AsideKeepsSwitch DEF PolledDead, GivesUp, Suspended
<1>6. ASSUME NEW t \in Tasks, SyncStops(t) PROVE SwitchInv'
  BY <1>6, StopIsAside, AsideKeepsSwitch DEF SyncStops, Holds
<1>7. ASSUME NEW t \in Tasks, SyncStarts(t) PROVE SwitchInv'
  <2>1. \/ \E p, r : StopListener(t, p, r)
        \/ \E r : Becomes(t, r) /\ UNCHANGED stream
    BY <1>7 DEF SyncStarts
  <2>. QED
    BY <1>1, <1>7, <2>1, StopIsAside, AsideKeepsSwitch DEF SyncStarts, Holds
<1>8. ASSUME NEW t \in Tasks, Bind(t) PROVE SwitchInv'
  BY <1>1, <1>8 DEF Bind, BindFails, Bound, Holds
<1>9. ASSUME NEW t \in Tasks, Synced(t) PROVE SwitchInv'
  <2>1. settings'.manager = settings.manager
    BY <1>9 DEF Synced, PutBack, PortsInv, TypeOK, SettingsType
  <2>. QED
    BY <1>1, <1>9, <2>1 DEF Synced, PutBack, Returns, Holds
<1>10. ASSUME NEW t \in Tasks, Apply(t) PROVE SwitchInv'
  <2>1. t \in Requests /\ task[t].at = "apply" /\ task[t].switch \in BOOLEAN \cup {None}
    BY <1>10 DEF Apply, Holds, PortsInv, TypeOK, TaskOK, TaskType
  <2>2. CASE DropDispatch(t)
    BY <2>2, DropEndsStreams
  <2>3. CASE Awaits(t, [task[t] EXCEPT !.at = "sessions"]) /\ UNCHANGED <<dispatch, stream>>
    <3>1. task'[t].at = "sessions"
      BY <2>3 DEF Awaits, PortsInv, TypeOK, TaskType
    <3>. QED
      BY <2>1, <2>3, <3>1 DEF SwitchInv, StreamsObeyTheSwitch
  <2>4. CASE /\ task[t].switch # FALSE
             /\ Awaits(t, [Rest EXCEPT !.at = "answered"]) /\ UNCHANGED <<dispatch, stream>>
    <3>1. CASE settings' = settings
      BY <1>1, <2>1, <2>4, <3>1
    <3>2. CASE settings' = [settings EXCEPT !.manager = TRUE]
      <4>1. settings'.manager
        BY <3>2 DEF PortsInv, TypeOK, SettingsType
      <4>. QED
        BY <2>4, <4>1 DEF SwitchInv, StreamsObeyTheSwitch
    <3>. QED
      BY <1>10, <2>1, <2>4, <3>1, <3>2 DEF Apply
  <2>. QED
    BY <1>10, <2>2, <2>3, <2>4 DEF Apply
<1>11. ASSUME NEW t \in Tasks, SessionsStopped(t) PROVE SwitchInv'
  BY <1>11, DropEndsStreams DEF SessionsStopped
<1>12. CASE KeeperSyncs \/ KeeperSynced \/ WatchdogSyncs \/ WatchdogSynced \/ Stopped
  BY <1>1, <1>12 DEF KeeperSyncs, KeeperSynced, WatchdogSyncs, WatchdogSynced, Stopped, Suspended,
                     Returns, Holds, Tasks
<1>13. CASE StopsAll
  BY <1>13, CloseIsAside, AsideKeepsSwitch DEF StopsAll, Returns, Holds, Tasks
<1>14. ASSUME NEW t \in Requests, Request(t) PROVE SwitchInv'
  <2>1. settings'.manager = settings.manager
    BY <1>14 DEF Request, PortsInv, TypeOK, SettingsType
  <2>2. \E r : Becomes(t, r)
    BY <1>14 DEF Request
  <2>. QED
    BY <1>1, <1>14, <2>1, <2>2 DEF Request, Suspended, Tasks
<1>15. ASSUME NEW p \in Ports, ServerStarts(p) \/ ServerCloses(p) \/ ServerCrashes(p) PROVE SwitchInv'
  <2>1. \A t \in Tasks : task'[t].at = task[t].at
    BY <1>15, SeenKeeps DEF ServerStarts, ServerCloses, ServerCrashes
  <2>2. UNCHANGED <<settings, dispatch, stream>>
    BY <1>15 DEF ServerStarts, ServerCloses, ServerCrashes
  <2>. QED
    BY <2>1, <2>2, AsideKeepsSwitch DEF Aside, Tasks
<1>16. ASSUME NEW p \in Ports, TakenByOthers(p) \/ GivenUpByOthers(p) PROVE SwitchInv'
  BY <1>16, AsideKeepsSwitch DEF TakenByOthers, GivenUpByOthers, Aside
<1>17. ASSUME NEW f \in Streams, StreamOnManager(f) PROVE SwitchInv'
  BY <1>17 DEF StreamOnManager, Dispatched, Forward, SwitchInv, StreamsObeyTheSwitch
<1>18. ASSUME NEW f \in Streams, StreamEnds(f) \/ \E p \in Ports : StreamOnPort(f, p) PROVE SwitchInv'
  <2>1. \A g \in Streams : stream'[g] = "dispatch" => stream[g] = "dispatch"
    BY <1>18, Names DEF StreamEnds, StreamOnPort, Forward, PortsInv, TypeOK
  <2>. QED
    BY <1>18, <2>1, AsideKeepsSwitch DEF StreamEnds, StreamOnPort, Aside
<1>19. CASE Shutdown
  <2>1. \A f \in Streams : stream'[f] = "dispatch" => stream[f] = "dispatch"
    BY <1>19, Names DEF Shutdown
  <2>2. \A t \in Requests : task'[t] = task[t]
    BY <1>19, Distinct DEF Shutdown, Tasks, PortsInv, TypeOK
  <2>. QED
    BY <1>19, <2>1, <2>2, AsideKeepsSwitch DEF Shutdown, Aside
<1>20. CASE StopProxy
  BY <1>20, Names DEF StopProxy, SwitchInv, StreamsObeyTheSwitch
<1>21. CASE UNCHANGED vars
  BY <1>21, AsideKeepsSwitch DEF vars, Aside
<1>. QED
  BY <1>2, <1>3, <1>4, <1>5, <1>6, <1>7, <1>8, <1>9, <1>10, <1>11, <1>12, <1>13, <1>14, <1>15,
     <1>16, <1>17, <1>18, <1>19, <1>20, <1>21 DEF Next, Resumes, Continues

\* While the switch is off, a stream on the manager's port has a request that
\* is about to close the client that carries it.
THEOREM SwitchedOffStreamsEnd == Spec => []StreamsObeyTheSwitch
<1>1. Init => SwitchInv
  BY Names DEF Init, SwitchInv, StreamsObeyTheSwitch
<1>2. SwitchInv => StreamsObeyTheSwitch
  BY DEF SwitchInv
<1>. QED
  BY <1>1, <1>2, PortsAlways, SwitchStep, PTL DEF Spec

-----------------------------------------------------------------------------
(***************************************************************************)
(* The shutdown                                                            *)
(***************************************************************************)

Empty == ~client /\ \A p \in Ports : entry[p] = None

\* Where stop_proxy is, with the table e and the client c: what is left in the
\* table is on its list, and when the list is done nothing is left.
StoppingAt(k, e, c) ==
  /\ k.starts = {}
  /\ \/ /\ k.at = "sync" \/ (k.at \in {"draining", "closing"} /\ k.then = "sync")
        /\ \A p \in Ports : e[p] # None => p \in k.stops
     \/ /\ k.at = "stopped" \/ (k.at = "closing" /\ k.then = "stopped")
        /\ ~c /\ \A p \in Ports : e[p] = None

\* Where the shutdown is: before stop_proxy, in it, and through.
Progress ==
  \/ phase = "stopping" /\ task[Keeper].at = "stop_all"
  \/ phase = "stopping" /\ ~dispatch /\ StoppingAt(task[Keeper], entry, client)
  \/ phase = "stopped" /\ ~dispatch /\ Empty /\ task[Keeper].at = "rest"

\* With the watchdog at its end the shutdown is alone.
ShutdownInv ==
  phase \in {"stopping", "stopped"} /\ task[Watchdog].at = "ended" =>
    Progress /\ \A t \in Requests : task[t].at \in {"rest", "answered"}

\* A step that the shutdown does not notice.
Unnoticed ==
  /\ phase' = phase /\ dispatch' = dispatch /\ client' = client
  /\ \A p \in Ports : entry[p] = None => entry'[p] = None
  /\ \A t \in Tasks : /\ task'[t].at = task[t].at /\ task'[t].then = task[t].then
                      /\ task'[t].stops = task[t].stops /\ task'[t].starts = task[t].starts

LEMMA UnnoticedKeepsShutdown == ShutdownInv /\ Unnoticed => ShutdownInv'
<1> SUFFICES ASSUME ShutdownInv, Unnoticed, phase \in {"stopping", "stopped"},
                    task[Watchdog].at = "ended"
             PROVE  ShutdownInv'
  BY DEF ShutdownInv, Unnoticed, Tasks
<1>1. Empty => Empty'
  BY DEF Unnoticed, Empty
<1>2. StoppingAt(task[Keeper], entry, client) => StoppingAt(task[Keeper], entry, client)'
  BY <1>1 DEF Unnoticed, StoppingAt, Tasks
<1>. QED
  BY <1>1, <1>2 DEF ShutdownInv, Progress, Unnoticed, Tasks

\* While the shutdown is alone, only its own task does anything.
LEMMA OnlyTheKeeper ==
  ASSUME ShutdownInv, phase \in {"stopping", "stopped"}, task[Watchdog].at = "ended",
         NEW t \in Tasks, task[t].at \notin {"rest", "answered", "ended"}
  PROVE  /\ t = Keeper /\ phase = "stopping"
         /\ \/ task[t].at = "stop_all"
            \/ ~dispatch /\ StoppingAt(task[t], entry, client)
  BY DEF ShutdownInv, Progress, Tasks

\* The task of stop_proxy goes on.
LEMMA KeeperStep ==
  ASSUME PortsInv, ShutdownInv, phase = "stopping", NEW k, task' = [task EXCEPT ![Keeper] = k],
         ~dispatch', StoppingAt(k, entry', client'), phase' = phase
  PROVE  ShutdownInv'
  BY Distinct DEF PortsInv, TypeOK, Tasks, ShutdownInv, Progress

\* _close_client_if_idle during the shutdown.
LEMMA CloseKeepsShutdown ==
  ASSUME PortsInv, ShutdownInv, phase = "stopping", NEW k \in TaskType, NEW e,
         CloseIfIdle(Keeper, k, e), entry' = e, ~dispatch, UNCHANGED <<phase, dispatch>>,
         k.starts = {},
         \/ k.then = "sync" /\ \A p \in Ports : e[p] # None => p \in k.stops
         \/ k.then = "stopped" /\ (\A p \in Ports : e[p] = None)
  PROVE  ShutdownInv'
<1> DEFINE c == [k EXCEPT !.at = "closing"]
           b == Return(k)
<1>1. /\ c.at = "closing" /\ c.then = k.then /\ c.stops = k.stops /\ c.starts = {}
      /\ b.at = k.then /\ b.stops = k.stops /\ b.starts = {}
  BY DEF Return, TaskType
<1>2. \/ client' = FALSE /\ task' = [task EXCEPT ![Keeper] = c]
      \/ /\ ~(client /\ \A p \in Ports : e[p] = None)
         /\ client' = client /\ task' = [task EXCEPT ![Keeper] = b]
  BY DEF CloseIfIdle, Awaits, Becomes
<1> HIDE DEF b, c
<1>3. CASE client' = FALSE /\ task' = [task EXCEPT ![Keeper] = c]
  <2>1. StoppingAt(c, entry', client')
    BY <1>1, <1>3 DEF StoppingAt, Empty
  <2>. QED
    BY <1>3, <2>1, KeeperStep
<1>4. CASE /\ ~(client /\ \A p \in Ports : e[p] = None)
           /\ client' = client /\ task' = [task EXCEPT ![Keeper] = b]
  <2>1. StoppingAt(b, entry', client')
    BY <1>1, <1>4 DEF StoppingAt, Empty, PortsInv, TypeOK
  <2>. QED
    BY <1>4, <2>1, KeeperStep
<1>. QED
  BY <1>2, <1>3, <1>4

\* The next listener on the list of stop_proxy.
LEMMA StopKeepsShutdown ==
  ASSUME PortsInv, ShutdownInv, phase = "stopping", NEW p \in Ports, NEW k \in TaskType,
         StopListener(Keeper, p, k), ~dispatch, UNCHANGED <<phase, dispatch>>,
         k.starts = {}, k.then = "sync", \A q \in Ports \ {p} : entry[q] # None => q \in k.stops
  PROVE  ShutdownInv'
<1> DEFINE e == [entry EXCEPT ![p] = None]
           c == [k EXCEPT !.port = p]
           d == [k EXCEPT !.at = "draining", !.port = p, !.seen = "live"]
<1>1. /\ c \in TaskType /\ c.then = "sync" /\ c.stops = k.stops /\ c.starts = {}
      /\ d.at = "draining" /\ d.then = "sync" /\ d.stops = k.stops /\ d.starts = {}
  BY DEF TaskType, PortOrNone
<1>2. \/ Awaits(Keeper, d) /\ UNCHANGED client
      \/ CloseIfIdle(Keeper, c, e)
  BY DEF StopListener
<1>3. entry' = e /\ \A q \in Ports : e[q] # None => q \in k.stops
  BY DEF StopListener, PortsInv, TypeOK
<1> HIDE DEF c, d, e
<1>4. CASE Awaits(Keeper, d) /\ UNCHANGED client
  <2>1. StoppingAt(d, entry', client')
    BY <1>1, <1>3 DEF StoppingAt
  <2>. QED
    BY <1>4, <2>1, KeeperStep DEF Awaits
<1>5. CASE CloseIfIdle(Keeper, c, e)
  BY <1>1, <1>3, <1>5, CloseKeepsShutdown
<1>. QED
  BY <1>2, <1>4, <1>5

\* Not on the way to the end of the shutdown.
Calm(r) == r.at # "stopped" /\ r.then # "stopped"

\* Before the shutdown every task is calm.
NotYet == phase \in {"boot", "serving"} => \A t \in Tasks : Calm(task[t])

\* A step that ends no task, and after which every task that was calm is.
CalmKept ==
  \A t \in Tasks : /\ task'[t].at = "ended" => task[t].at = "ended"
                   /\ Calm(task[t]) => Calm(task'[t])

LEMMA CalmStep ==
  ASSUME PortsInv, NEW t \in Tasks, NEW r, r.at # "ended", Calm(task[t]) => Calm(r),
         task' = [task EXCEPT ![t] = r]
  PROVE  CalmKept
  BY DEF PortsInv, TypeOK, CalmKept

LEMMA CloseIsCalm ==
  ASSUME NEW t \in Tasks, NEW r \in TaskType, r.then \in {"sync", "bind", "failed"}, NEW e,
         CloseIfIdle(t, r, e)
  PROVE  \E c : c.at # "ended" /\ Calm(c) /\ task' = [task EXCEPT ![t] = c]
<1> DEFINE c == [r EXCEPT !.at = "closing"]
           b == Return(r)
<1>1. Calm(c) /\ Calm(b) /\ c.at # "ended" /\ b.at # "ended"
  BY Names DEF Calm, Return, TaskType
<1>2. task' = [task EXCEPT ![t] = c] \/ task' = [task EXCEPT ![t] = b]
  BY DEF CloseIfIdle, Awaits, Becomes
<1> HIDE DEF b, c
<1>. QED
  BY <1>1, <1>2

LEMMA StopIsCalm ==
  ASSUME NEW t \in Tasks, NEW p \in Ports, NEW r \in TaskType, r.then \in {"sync", "bind", "failed"},
         StopListener(t, p, r)
  PROVE  \E c : c.at # "ended" /\ Calm(c) /\ task' = [task EXCEPT ![t] = c]
<1> DEFINE c == [r EXCEPT !.port = p]
           d == [r EXCEPT !.at = "draining", !.port = p, !.seen = "live"]
<1>1. c \in TaskType /\ c.then = r.then /\ Calm(d) /\ d.at # "ended"
  BY DEF TaskType, PortOrNone, Calm
<1>2. Awaits(t, d) \/ \E e : CloseIfIdle(t, c, e)
  BY DEF StopListener
<1> HIDE DEF c, d
<1>. QED
  BY <1>1, <1>2, CloseIsCalm DEF Awaits

LEMMA StepIsCalm == PortsInv /\ [Next]_vars /\ ~Shutdown /\ ~StopsAll => CalmKept
<1> SUFFICES ASSUME PortsInv, [Next]_vars, ~Shutdown, ~StopsAll PROVE CalmKept
  OBVIOUS
<1>0. ASSUME NEW t \in Tasks PROVE task[t] \in TaskType /\ TaskOK(t, task[t])
  BY DEF PortsInv, TypeOK
<1>2. /\ Calm(Rest) /\ Rest \in TaskType /\ Rest.at # "ended"
      /\ Keeper \in Tasks /\ Watchdog \in Tasks
  BY Names DEF Rest, Calm, TaskType, PortOrNone, Tasks
<1>3. CASE UNCHANGED task
  BY <1>3 DEF CalmKept
<1>4. ASSUME NEW t \in Tasks, Drained(t) PROVE CalmKept
  <2> DEFINE r == [task[t] EXCEPT !.seen = None]
  <2>1. r \in TaskType /\ r.then \in {"sync", "bind", "failed"}
    BY <1>0, <1>4 DEF Drained, Suspended, TaskOK, TaskType
  <2>2. CloseIfIdle(t, r, entry)
    BY <1>4 DEF Drained
  <2> HIDE DEF r
  <2>. QED
    BY <2>1, <2>2, CloseIsCalm, CalmStep
<1>5. ASSUME NEW t \in Tasks, Closed(t) PROVE CalmKept
  <2>1. task' = [task EXCEPT ![t] = Return(task[t])]
    BY <1>5 DEF Closed, Becomes, Awaits
  <2>2. Return(task[t]).at # "ended" /\ (Calm(task[t]) => Calm(Return(task[t])))
    BY <1>0, <1>5, Names DEF Return, Calm, TaskType, TaskOK, Closed, Suspended
  <2>. QED
    BY <2>1, <2>2, CalmStep
<1>6. ASSUME NEW t \in Tasks, NEW r, r \in TaskType, r.at \notin {"stopped", "ended"},
             r.then = task[t].then, Becomes(t, r) \/ Awaits(t, r)
      PROVE  CalmKept
  BY <1>6, CalmStep DEF Becomes, Awaits, Calm
<1>7. ASSUME NEW t \in Tasks, PolledUp(t) PROVE CalmKept
  <2> DEFINE r == [task[t] EXCEPT !.at = "sync", !.seen = None, !.port = None]
  <2>1. r \in TaskType /\ r.at \notin {"stopped", "ended"} /\ r.then = task[t].then
    BY <1>0 DEF TaskType, PortOrNone
  <2>2. Becomes(t, r)
    BY <1>7 DEF PolledUp
  <2> HIDE DEF r
  <2>. QED
    BY <1>6, <2>1, <2>2
<1>8. ASSUME NEW t \in Tasks, PolledDead(t) \/ GivesUp(t) PROVE CalmKept
  <2> DEFINE r == [task[t] EXCEPT !.then = "failed", !.seen = None]
  <2>1. r \in TaskType /\ r.then = "failed" /\ task[t].port \in Ports
    BY <1>0, <1>8 DEF PolledDead, GivesUp, Suspended, TaskOK, TaskType
  <2>2. StopListener(t, task[t].port, r)
    BY <1>8 DEF PolledDead, GivesUp
  <2> HIDE DEF r
  <2>. QED
    BY <2>1, <2>2, StopIsCalm, CalmStep
<1>9. ASSUME NEW t \in Tasks, SyncStops(t) PROVE CalmKept
  <2>1. PICK p \in task[t].stops :
           StopListener(t, p, [task[t] EXCEPT !.stops = @ \ {p}, !.then = "sync"])
    BY <1>9 DEF SyncStops
  <2> DEFINE r == [task[t] EXCEPT !.stops = @ \ {p}, !.then = "sync"]
  <2>2. r \in TaskType /\ r.then = "sync" /\ p \in Ports
    BY <1>0, <1>9 DEF SyncStops, TaskType
  <2>3. StopListener(t, p, r)
    BY <2>1
  <2> HIDE DEF r
  <2>. QED
    BY <2>2, <2>3, StopIsCalm, CalmStep
<1>10. ASSUME NEW t \in Tasks, SyncStarts(t) PROVE CalmKept
  <2>1. PICK p \in Ports :
           LET r == [task[t] EXCEPT !.starts = @ \ {p}]
           IN IF ListenerRunning(p) THEN Becomes(t, r) ELSE StopListener(t, p, [r EXCEPT !.then = "bind"])
    BY <1>10 DEF SyncStarts
  <2> DEFINE r == [task[t] EXCEPT !.starts = @ \ {p}]
             b == [r EXCEPT !.then = "bind"]
  <2>2. r \in TaskType /\ r.at = "sync" /\ r.then = task[t].then
    BY <1>0, <1>10 DEF SyncStarts, Holds, TaskType
  <2>3. b \in TaskType /\ b.then = "bind"
    <3> HIDE DEF r
    <3>. QED
      BY <2>2 DEF TaskType
  <2>4. Becomes(t, r) \/ StopListener(t, p, b)
    BY <2>1
  <2> HIDE DEF r, b
  <2>. QED
    BY <1>6, <2>2, <2>3, <2>4, StopIsCalm, CalmStep
<1>11. ASSUME NEW t \in Tasks, Bind(t) PROVE CalmKept
  <2> DEFINE r == [task[t] EXCEPT !.at = "sync", !.port = None, !.failed = TRUE]
             b == [task[t] EXCEPT !.at = "polling", !.seen = "live"]
  <2>1. /\ r \in TaskType /\ r.at \notin {"stopped", "ended"} /\ r.then = task[t].then
        /\ b \in TaskType /\ b.at \notin {"stopped", "ended"} /\ b.then = task[t].then
    BY <1>0 DEF TaskType, PortOrNone
  <2>2. (Becomes(t, r) \/ Awaits(t, b))
    BY <1>11 DEF Bind, BindFails, Bound
  <2> HIDE DEF r, b
  <2>. QED
    BY <1>6, <2>1, <2>2
<1>12. ASSUME NEW t \in Tasks, NEW r, r.at # "ended", Calm(task[t]) => Calm(r),
              Becomes(t, r) \/ Awaits(t, r)
       PROVE  CalmKept
  BY <1>12, CalmStep DEF Becomes, Awaits
<1>13. ASSUME NEW c \in TaskType, NEW s
       PROVE  (Calm(c) => Calm(SyncBegun(c, s))) /\ SyncBegun(c, s).at # "ended"
  BY DEF SyncBegun, Calm, TaskType
<1>14. /\ Calm([Rest EXCEPT !.at = "answered"])
       /\ [Rest EXCEPT !.at = "answered"].at # "ended"
       /\ Calm([Rest EXCEPT !.at = "closing", !.then = "answered"])
       /\ [Rest EXCEPT !.at = "closing", !.then = "answered"].at # "ended"
  BY Names DEF Rest, Calm
<1>15. ASSUME NEW t \in Tasks, Synced(t) PROVE CalmKept
  <2>1. CASE Awaits(t, [Rest EXCEPT !.at = "answered"])
    BY <1>12, <1>14, <1>15, <2>1 DEF Synced
  <2>2. CASE PutBack(t)
    <3>1. [Rest EXCEPT !.undo = TRUE] \in TaskType /\ Calm([Rest EXCEPT !.undo = TRUE])
      BY Names DEF Rest, Calm, TaskType, PortOrNone
    <3>2. \E s : Becomes(t, SyncBegun([Rest EXCEPT !.undo = TRUE], s))
      BY <2>2 DEF PutBack
    <3>. QED
      BY <1>12, <1>13, <1>15, <3>1, <3>2 DEF Synced
  <2>3. CASE Becomes(t, [task[t] EXCEPT !.at = "apply", !.old = None])
    <3> DEFINE r == [task[t] EXCEPT !.at = "apply", !.old = None]
    <3>1. r \in TaskType /\ r.at \notin {"stopped", "ended"} /\ r.then = task[t].then
      BY <1>0 DEF TaskType
    <3>2. Becomes(t, r)
      BY <2>3
    <3> HIDE DEF r
    <3>. QED
      BY <1>6, <1>15, <3>1, <3>2 DEF Synced
  <2>. QED
    BY <1>15, <2>1, <2>2, <2>3 DEF Synced
<1>16. ASSUME NEW t \in Tasks, Apply(t) \/ SessionsStopped(t) PROVE CalmKept
  <2> DEFINE r == [task[t] EXCEPT !.at = "sessions"]
  <2>1. r \in TaskType /\ r.at \notin {"stopped", "ended"} /\ r.then = task[t].then
    BY <1>0 DEF TaskType
  <2>2.
        /\ \/ Awaits(t, [Rest EXCEPT !.at = "answered"])
           \/ Awaits(t, [Rest EXCEPT !.at = "closing", !.then = "answered"])
           \/ Awaits(t, r)
    BY <1>16 DEF Apply, SessionsStopped, DropDispatch
  <2> HIDE DEF r
  <2>. QED
    BY <1>6, <1>12, <1>14, <2>1, <2>2
<1>17. CASE KeeperSyncs \/ WatchdogSyncs
  BY <1>2, <1>12, <1>13, <1>17 DEF KeeperSyncs, WatchdogSyncs
<1>18. CASE KeeperSynced \/ WatchdogSynced \/ Stopped
  BY <1>2, <1>12, <1>18 DEF KeeperSynced, WatchdogSynced, Stopped
<1>19. CASE StopProxy
  <2> DEFINE k == [Rest EXCEPT !.at = "sync", !.stops = {p \in Ports : entry[p] # None}]
  <2>1. k.at # "ended" /\ Calm(k) /\ Becomes(Keeper, k)
    BY <1>19, Names DEF StopProxy, Rest, Calm
  <2> HIDE DEF k
  <2>. QED
    BY <1>2, <1>12, <2>1
<1>20. ASSUME NEW t \in Requests, Request(t) PROVE CalmKept
  <2>1. PICK r, s : /\ r.at = "apply" \/ r.at = "rest"
                    /\ r \in TaskType /\ r.then = task[t].then
                    /\ Becomes(t, r) \/ Becomes(t, SyncBegun(r, s))
    <3>1. PICK o \in SettingsType \cup {None}, m \in BOOLEAN \cup {None} :
             LET r == [task[t] EXCEPT !.old = o, !.switch = m]
             IN Becomes(t, [r EXCEPT !.at = "apply"]) \/ \E n : Becomes(t, SyncBegun(r, n))
      BY <1>20 DEF Request, PortsInv, TypeOK
    <3> DEFINE r == [task[t] EXCEPT !.old = o, !.switch = m]
               a == [r EXCEPT !.at = "apply"]
    <3>2. t \in Tasks /\ task[t].at = "rest"
      BY <1>20 DEF Request, Suspended, Tasks
    <3>3. r \in TaskType /\ r.at = "rest" /\ r.then = task[t].then
      BY <1>0, <3>2 DEF TaskType
    <3>4. a \in TaskType /\ a.at = "apply" /\ a.then = task[t].then
      <4> HIDE DEF r
      <4>. QED
        BY <3>3 DEF TaskType
    <3>5. Becomes(t, a) \/ \E n : Becomes(t, SyncBegun(r, n))
      BY <3>1
    <3> HIDE DEF r, a
    <3>. QED
      BY <3>3, <3>4, <3>5
  <2>2. t \in Tasks
    BY DEF Tasks
  <2>3. r.at # "ended" /\ (Calm(task[t]) => Calm(r))
    BY <2>1 DEF Calm
  <2>. QED
    BY <1>12, <1>13, <2>1, <2>2, <2>3
<1>21. ASSUME NEW p \in Ports, ServerStarts(p) \/ ServerCloses(p) \/ ServerCrashes(p) PROVE CalmKept
  <2>1. \E at, what : task' = Seen(p, at, what)
    BY <1>21 DEF ServerStarts, ServerCloses, ServerCrashes
  <2>2. \A t \in Tasks : task'[t].at = task[t].at /\ task'[t].then = task[t].then
    BY <2>1, SeenKeeps
  <2>. QED
    BY <2>2 DEF CalmKept, Calm
<1>22. ASSUME NEW p \in Ports, TakenByOthers(p) \/ GivenUpByOthers(p) PROVE CalmKept
  BY <1>3, <1>22 DEF TakenByOthers, GivenUpByOthers
<1>23. ASSUME NEW f \in Streams, StreamOnManager(f) \/ StreamEnds(f) \/ \E p \in Ports : StreamOnPort(f, p)
       PROVE  CalmKept
  BY <1>3, <1>23 DEF StreamOnManager, StreamEnds, StreamOnPort
<1>24. CASE UNCHANGED vars
  BY <1>3, <1>24 DEF vars
<1>. QED
  BY <1>4, <1>5, <1>7, <1>8, <1>9, <1>10, <1>11, <1>15, <1>16, <1>17, <1>18, <1>19, <1>20,
     <1>21, <1>22, <1>23, <1>24 DEF Next, Resumes, Continues


LEMMA NotYetStep == PortsInv /\ NotYet /\ [Next]_vars => NotYet'
<1> SUFFICES ASSUME PortsInv, NotYet, [Next]_vars, phase' \in {"boot", "serving"} PROVE NotYet'
  BY DEF NotYet
<1>1. ~Shutdown /\ ~StopsAll /\ ~Stopped
  BY DEF Shutdown, StopsAll, Stopped
<1>2. phase \in {"boot", "serving"}
  BY <1>1 DEF Next, Resumes, Continues, Drained, Closed, PolledUp, PolledDead, GivesUp,
     SessionsStopped, KeeperSyncs, WatchdogSyncs, SyncStops, SyncStarts, Bind, Synced, Apply,
     KeeperSynced, WatchdogSynced, Request, ServerStarts, ServerCloses, ServerCrashes,
     TakenByOthers, GivenUpByOthers, StreamOnManager, StreamEnds, StreamOnPort, StopProxy, vars
<1>. QED
  BY <1>1, <1>2, StepIsCalm DEF NotYet, CalmKept

\* Nothing but its cancel ends the watchdog.
LEMMA EndedBefore ==
  ASSUME PortsInv, [Next]_vars, ~Shutdown, task'[Watchdog].at = "ended"
  PROVE  task[Watchdog].at = "ended"
<1>1. Watchdog \in Tasks /\ Watchdog # Keeper
  BY Distinct DEF Tasks
<1>2. CASE StopsAll
  <2>1. \E c : task' = [task EXCEPT ![Keeper] = c]
    BY <1>2 DEF StopsAll, CloseIfIdle, Awaits, Becomes
  <2>. QED
    BY <1>1, <2>1 DEF PortsInv, TypeOK
<1>3. CASE ~StopsAll
  BY <1>1, <1>3, StepIsCalm DEF CalmKept
<1>. QED
  BY <1>2, <1>3

\* The watchdog is cancelled and the lifespan goes on to stop_proxy.
LEMMA ShutdownBegins == ASSUME PortsInv, Shutdown PROVE ShutdownInv'
<1> DEFINE k == [Rest EXCEPT !.at = "stop_all"]
<1>1. k.at = "stop_all" /\ Keeper \in Tasks /\ Keeper # Watchdog
  BY Distinct DEF Rest, Tasks
<1>2. PICK w \in Cancelled : task' = [task EXCEPT ![Watchdog] = w, ![Keeper] = k]
  BY DEF Shutdown
<1> HIDE DEF k
<1>3. task'[Keeper] = k /\ \A t \in Requests : task'[t] = task[t]
  BY <1>1, <1>2, Distinct DEF Tasks, PortsInv, TypeOK
<1>. QED
  BY <1>1, <1>3 DEF Shutdown, ShutdownInv, Progress

LEMMA ShutdownStep == PortsInv /\ NotYet /\ ShutdownInv /\ [Next]_vars => ShutdownInv'
<1> SUFFICES ASSUME PortsInv, NotYet, ShutdownInv, [Next]_vars, ~Shutdown,
                    task'[Watchdog].at = "ended"
             PROVE  ShutdownInv'
  BY ShutdownBegins DEF ShutdownInv
<1>0. /\ task[Keeper] \in TaskType /\ Keeper \in Tasks /\ Keeper \notin Requests
      /\ task[Watchdog].at = "ended"
  BY Distinct, EndedBefore DEF PortsInv, TypeOK, Tasks
<1>1. CASE phase \in {"boot", "serving"} /\ phase' \in {"boot", "serving"}
  BY <1>1 DEF ShutdownInv
<1>2. ASSUME NEW t \in Tasks, task[t].at \notin {"rest", "answered", "ended", "stop_all"},
             phase \in {"stopping", "stopped"}
      PROVE  /\ t = Keeper /\ phase = "stopping" /\ ~dispatch
             /\ StoppingAt(task[Keeper], entry, client) /\ task[Keeper].starts = {}
             /\ task[Keeper].at \in {"sync", "draining", "closing", "stopped"}
  BY <1>0, <1>2, OnlyTheKeeper DEF StoppingAt
<1>3. CASE UNCHANGED <<phase, client, dispatch, entry, task>>
  BY <1>3, UnnoticedKeepsShutdown DEF Unnoticed
<1>4. ASSUME NEW t \in Tasks, Drained(t) PROVE ShutdownInv'
  <2> SUFFICES ASSUME phase \in {"stopping", "stopped"} PROVE ShutdownInv'
    BY <1>1, <1>4 DEF Drained, PortsInv, TypeOK
  <2> DEFINE k == [task[Keeper] EXCEPT !.seen = None]
  <2>1. t = Keeper /\ phase = "stopping" /\ ~dispatch /\ StoppingAt(task[Keeper], entry, client)
        /\ task[Keeper].at = "draining"
    BY <1>2, <1>4 DEF Drained, Suspended
  <2>2. /\ k \in TaskType /\ k.starts = {} /\ k.then = "sync"
        /\ \A p \in Ports : entry[p] # None => p \in k.stops
    BY <1>0, <2>1 DEF StoppingAt, TaskType
  <2>3. CloseIfIdle(Keeper, k, entry) /\ UNCHANGED <<entry, phase, dispatch>>
    BY <1>4, <2>1 DEF Drained
  <2> HIDE DEF k
  <2>. QED
    BY <2>1, <2>2, <2>3, CloseKeepsShutdown
<1>5. ASSUME NEW t \in Tasks, Closed(t) PROVE ShutdownInv'
  <2> SUFFICES ASSUME phase \in {"stopping", "stopped"} PROVE ShutdownInv'
    BY <1>1, <1>5 DEF Closed, PortsInv, TypeOK
  <2> DEFINE k == Return(task[Keeper])
  <2>1. t = Keeper /\ phase = "stopping" /\ ~dispatch /\ StoppingAt(task[Keeper], entry, client)
        /\ task[Keeper].at = "closing"
    BY <1>2, <1>5 DEF Closed, Suspended
  <2>2. k.at = task[Keeper].then /\ k.stops = task[Keeper].stops /\ k.starts = {}
    BY <1>0, <2>1 DEF StoppingAt, Return, TaskType
  <2>3. task' = [task EXCEPT ![Keeper] = k] /\ UNCHANGED <<entry, client, phase, dispatch>>
    BY <1>5, <2>1 DEF Closed, Awaits, Becomes
  <2> HIDE DEF k
  <2>4. StoppingAt(k, entry', client')
    BY <2>1, <2>2, <2>3 DEF StoppingAt, Empty
  <2>. QED
    BY <2>1, <2>3, <2>4, KeeperStep
<1>6. ASSUME NEW t \in Tasks,
             \/ PolledUp(t) \/ PolledDead(t) \/ GivesUp(t) \/ SessionsStopped(t) \/ Bind(t) \/ Apply(t)
      PROVE  ShutdownInv'
  <2>1. /\ task[t].at \in {"polling", "sessions", "bind", "apply"} /\ phase' = phase
    BY <1>6 DEF PolledUp, PolledDead, GivesUp, SessionsStopped, Bind, Apply, Suspended, Holds
  <2>2. phase \notin {"stopping", "stopped"}
    BY <1>2, <2>1
  <2>. QED
    BY <1>1, <2>1, <2>2 DEF PortsInv, TypeOK
<1>7. ASSUME NEW t \in Tasks, SyncStops(t) PROVE ShutdownInv'
  <2> SUFFICES ASSUME phase \in {"stopping", "stopped"} PROVE ShutdownInv'
    BY <1>1, <1>7 DEF SyncStops, PortsInv, TypeOK
  <2>1. t = Keeper /\ phase = "stopping" /\ ~dispatch /\ StoppingAt(task[Keeper], entry, client)
        /\ task[Keeper].at = "sync"
    BY <1>2, <1>7 DEF SyncStops, Holds
  <2>2. PICK p \in task[Keeper].stops :
           StopListener(Keeper, p, [task[Keeper] EXCEPT !.stops = @ \ {p}, !.then = "sync"])
    BY <1>7, <2>1 DEF SyncStops
  <2> DEFINE k == [task[Keeper] EXCEPT !.stops = @ \ {p}, !.then = "sync"]
  <2>3. /\ k \in TaskType /\ k.starts = {} /\ k.then = "sync" /\ p \in Ports
        /\ \A q \in Ports \ {p} : entry[q] # None => q \in k.stops
    BY <1>0, <2>1 DEF StoppingAt, TaskType
  <2>4. UNCHANGED <<phase, dispatch>>
    BY <1>7 DEF SyncStops
  <2>5. StopListener(Keeper, p, k)
    BY <2>2
  <2> HIDE DEF k
  <2>. QED
    BY <2>1, <2>3, <2>4, <2>5, StopKeepsShutdown
<1>8. ASSUME NEW t \in Tasks, SyncStarts(t) PROVE ShutdownInv'
  <2>1. task[t].at = "sync" /\ task[t].starts # {} /\ phase' = phase
    BY <1>8 DEF SyncStarts, Holds, Lowest
  <2>2. phase \notin {"stopping", "stopped"}
    BY <1>2, <2>1
  <2>. QED
    BY <1>1, <2>1, <2>2 DEF PortsInv, TypeOK
<1>9. ASSUME NEW t \in Requests, Synced(t) \/ Request(t) PROVE ShutdownInv'
  <2>1. phase' = phase /\ phase \notin {"stopping", "stopped"}
    BY <1>0, <1>2, <1>9 DEF Synced, Request, Returns, Holds, Tasks
  <2>. QED
    BY <1>1, <2>1 DEF PortsInv, TypeOK
<1>10. CASE KeeperSyncs \/ WatchdogSyncs \/ WatchdogSynced
  <2>1. CASE KeeperSyncs
    BY <1>1, <2>1 DEF KeeperSyncs
  <2>2. ~WatchdogSyncs /\ ~WatchdogSynced
    BY <1>0 DEF WatchdogSyncs, WatchdogSynced, Suspended, Returns, Holds
  <2>. QED
    BY <1>10, <2>1, <2>2
<1>11. CASE KeeperSynced
  <2>1. phase' = "serving"
    BY <1>11 DEF KeeperSynced
  <2>. QED
    BY <2>1 DEF ShutdownInv
<1>12. CASE StopProxy
  <2> DEFINE k == [Rest EXCEPT !.at = "sync", !.stops = {p \in Ports : entry[p] # None}]
  <2>1. k.at = "sync" /\ k.starts = {} /\ \A p \in Ports : entry[p] # None => p \in k.stops
    BY DEF Rest
  <2>2. /\ task' = [task EXCEPT ![Keeper] = k] /\ dispatch' = FALSE
        /\ UNCHANGED <<entry, client, phase>>
    BY <1>12 DEF StopProxy, Becomes
  <2> HIDE DEF k
  <2>3. StoppingAt(k, entry', client')
    BY <2>1, <2>2 DEF StoppingAt
  <2>4. CASE phase \in {"boot", "serving"}
    BY <1>1, <2>2, <2>4
  <2>5. CASE phase \in {"stopping", "stopped"}
    <3>1. phase = "stopping"
      BY <1>0, <1>12, <2>5, OnlyTheKeeper DEF StopProxy, Suspended
    <3>. QED
      BY <2>2, <2>3, <3>1, KeeperStep
  <2>. QED
    BY <2>4, <2>5 DEF PortsInv, TypeOK
<1>13. CASE StopsAll
  <2>1. phase = "stopping" /\ task[Keeper].at = "sync" /\ task[Keeper].stops = {}
    BY <1>13 DEF StopsAll, Returns, Holds
  <2>2. ~dispatch /\ \A p \in Ports : entry[p] = None
    BY <1>0, <1>2, <2>1 DEF StoppingAt
  <2> DEFINE k == [Rest EXCEPT !.then = "stopped"]
  <2>3. k \in TaskType /\ k.starts = {} /\ k.then = "stopped"
    BY DEF Rest, TaskType, PortOrNone
  <2>4. CloseIfIdle(Keeper, k, entry) /\ UNCHANGED <<entry, phase, dispatch>>
    BY <1>13 DEF StopsAll
  <2> HIDE DEF k
  <2>. QED
    BY <2>1, <2>2, <2>3, <2>4, CloseKeepsShutdown
<1>14. CASE Stopped
  <2>1. task[Keeper].at = "stopped" /\ task' = [task EXCEPT ![Keeper] = Rest]
        /\ phase' = "stopped" /\ UNCHANGED <<client, entry, dispatch>>
    BY <1>14 DEF Stopped, Holds, Awaits
  <2>2. CASE phase \in {"boot", "serving"}
    BY <1>0, <2>1, <2>2 DEF NotYet, Calm
  <2>3. CASE phase \in {"stopping", "stopped"}
    <3>1. ~dispatch' /\ Empty' /\ task'[Keeper].at = "rest"
      BY <1>0, <1>2, <2>1, <2>3 DEF StoppingAt, Empty, PortsInv, TypeOK, Rest
    <3>. QED
      BY <1>0, <2>1, <2>3, <3>1 DEF ShutdownInv, Progress, PortsInv, TypeOK, Tasks
  <2>. QED
    BY <2>2, <2>3 DEF PortsInv, TypeOK
<1>15. ASSUME NEW p \in Ports, ServerStarts(p) \/ ServerCloses(p) \/ ServerCrashes(p) PROVE ShutdownInv'
  <2>1. /\ UNCHANGED <<phase, client, dispatch>>
        /\ \A q \in Ports : entry[q] = None => entry'[q] = None
    BY <1>15, Names DEF ServerStarts, ServerCloses, ServerCrashes, PortsInv, TypeOK
  <2>2. \E at, what : task' = Seen(p, at, what)
    BY <1>15 DEF ServerStarts, ServerCloses, ServerCrashes
  <2>. QED
    BY <2>1, <2>2, SeenKeeps, UnnoticedKeepsShutdown DEF Unnoticed
<1>16. ASSUME NEW p \in Ports, TakenByOthers(p) \/ GivenUpByOthers(p) PROVE ShutdownInv'
  BY <1>3, <1>16 DEF TakenByOthers, GivenUpByOthers
<1>17. ASSUME NEW f \in Streams, StreamOnManager(f) PROVE ShutdownInv'
  BY <1>1, <1>17 DEF StreamOnManager, Dispatched
<1>18. ASSUME NEW f \in Streams, StreamEnds(f) \/ \E p \in Ports : StreamOnPort(f, p) PROVE ShutdownInv'
  BY <1>3, <1>18 DEF StreamEnds, StreamOnPort
<1>19. CASE UNCHANGED vars
  BY <1>3, <1>19 DEF vars
<1>. QED
  BY <1>4, <1>5, <1>6, <1>7, <1>8, <1>9, <1>10, <1>11, <1>12, <1>13, <1>14, <1>15,
     <1>16, <1>17, <1>18, <1>19 DEF Next, Resumes, Continues, Synced

\* Once the manager has stopped and the watchdog has ended, there is no entry, no
\* client, and no server that was not told to exit, wherever the watchdog was
\* cancelled.
THEOREM NothingIsLeft == Spec => []StoppedLeavesNothing
<1>1. Init => ShutdownInv
  BY DEF Init, ShutdownInv
<1>2. Init => TablesInv
  BY Names DEF Init, TablesInv, EveryServerIsKnown, ListenersHaveAClient
<1>3. TablesInv /\ ShutdownInv => StoppedLeavesNothing
  BY Names DEF TablesInv, ShutdownInv, Progress, EveryServerIsKnown, StoppedLeavesNothing, Empty
<1>4. Init => NotYet
  BY Names DEF Init, NotYet, Calm, Rest
<1>. QED
  BY <1>1, <1>2, <1>3, <1>4, PortsAlways, TablesStep, NotYetStep, ShutdownStep, PTL DEF Spec
=============================================================================
