---------------------------- MODULE PortAllocation ----------------------------
(***************************************************************************)
(* Which instance has which port.  A port is claimed in four places: a     *)
(* create or an import reserves one for the length of its install; an edit *)
(* asks whether one is free and writes it, after an install if the edit    *)
(* needs one; the start route (and auto-start) replaces a busy one; a      *)
(* restore keeps the one of the backup or takes another.  Next to the      *)
(* instances, the settings name one MCP port, and other programs listen.   *)
(***************************************************************************)
EXTENDS Naturals

CONSTANTS
  Ids,
  MaxPort,    \* bound: the ports are 1..MaxPort
  Foreign,    \* the ports that other programs may listen on
  Edited,     \* the instances whose port update_config is asked to change
  Repeated,   \* the instances whose start is asked for while one is under way
  Restores,   \* BOOLEAN: is there a restore?
  McpPorts,   \* the ports that the settings may name
  None

Ports == 1..MaxPort

ASSUME Sorts ==
  /\ MaxPort \in Nat /\ None \notin Ports
  /\ Foreign \subseteq Ports /\ McpPorts \subseteq Ports
  /\ Edited \subseteq Ids /\ Repeated \subseteq Ids /\ Restores \in BOOLEAN

VARIABLES
  port,      \* server.port in the config of an instance, or None: no config
  inflight,  \* the port that the create of an id holds, or None
  editing,   \* the port that an edit will write after its install, or None
  starting,  \* how far the start of an instance is
  process,   \* the port that its runner was started with, or None: no runner
  listening, \* the instances whose runner has bound its port
  running,   \* the instances with status running and a live pid
  mcpPort,   \* the port of the manager's own MCP listener, or None
  foreign    \* the ports that other programs listen on

vars == <<port, inflight, editing, starting, process, listening, running, mcpPort, foreign>>

NoPort == [i \in Ids |-> None]

Init ==
  /\ port = NoPort /\ inflight = NoPort /\ editing = NoPort /\ process = NoPort
  /\ starting = [i \in Ids |-> "no"]
  /\ listening = {} /\ running = {} /\ mcpPort = None /\ foreign = {}

-----------------------------------------------------------------------------
OsPortFree(p) == p \notin foreign /\ p # mcpPort /\ \A i \in listening : process[i] # p

\* is_port_free, with exclude_id.
IsPortFree(p, i) == p # mcpPort /\ (\A j \in Ids \ {i} : port[j] # p) /\ OsPortFree(p)

InFlight == {inflight[i] : i \in Ids} \ {None}

\* find_free_port looks at no more than the configs, the settings and the system.
Findable(start) ==
  {p \in Ports : p >= start /\ p # mcpPort /\ (\A i \in Ids : port[i] # p) /\ OsPortFree(p)}

Lowest(S, p) == p \in S /\ \A q \in S : p <= q

-----------------------------------------------------------------------------
(***************************************************************************)
(* Creating and importing: reserve_port                                    *)
(***************************************************************************)

\* Fault: the port is looked up and not held.
ReserveUnheld(p, i) == IsPortFree(p, i) \/ Lowest(Findable(1), p)

\* The requested port, or the lowest that is free and not held.
Reserve(p, i) ==
  \/ IsPortFree(p, i) /\ p \notin InFlight
  \/ Lowest(Findable(1) \ InFlight, p)

BeginCreate(i) ==
  /\ port[i] = None /\ inflight[i] = None
  /\ \E p \in Ports : Reserve(p, i) /\ inflight' = [inflight EXCEPT ![i] = p]
  /\ UNCHANGED <<port, editing, starting, process, listening, running, mcpPort, foreign>>

EndCreate(i) ==
  /\ inflight[i] # None
  /\ port' \in {port, [port EXCEPT ![i] = inflight[i]]}
  /\ inflight' = [inflight EXCEPT ![i] = None]
  /\ UNCHANGED <<editing, starting, process, listening, running, mcpPort, foreign>>

-----------------------------------------------------------------------------
(***************************************************************************)
(* update_config: asked when the body is read, written at the commit       *)
(***************************************************************************)

\* Without an install, both are one step.
EditAtOnce(i) ==
  /\ i \in Edited /\ port[i] # None /\ editing[i] = None
  /\ \E p \in Ports : IsPortFree(p, i) /\ port' = [port EXCEPT ![i] = p]
  /\ UNCHANGED <<inflight, editing, starting, process, listening, running, mcpPort, foreign>>

BeginEdit(i) ==
  /\ i \in Edited /\ port[i] # None /\ editing[i] = None
  /\ \E p \in Ports : IsPortFree(p, i) /\ editing' = [editing EXCEPT ![i] = p]
  /\ UNCHANGED <<port, inflight, starting, process, listening, running, mcpPort, foreign>>

EndEdit(i) ==
  /\ editing[i] # None
  /\ port' \in {port} \cup (IF port[i] = None THEN {} ELSE {[port EXCEPT ![i] = editing[i]]})
  /\ editing' = [editing EXCEPT ![i] = None]
  /\ UNCHANGED <<inflight, starting, process, listening, running, mcpPort, foreign>>

-----------------------------------------------------------------------------
(***************************************************************************)
(* Starting, stopping, deleting, restoring                                 *)
(***************************************************************************)

\* Fault: nobody asks whether it is running.
StartableAnyway(i) == port[i] # None

\* A running instance is refused: its own port would look busy.
Startable(i) == port[i] # None /\ i \notin running

\* A busy port is replaced by the next one up that is findable, and saved.  Only
\* then does start_instance find out whether a start is under way already.
StartRoute(i) ==
  /\ Startable(i) /\ (starting[i] # "no" => i \in Repeated)
  /\ \/ IsPortFree(port[i], i) /\ UNCHANGED port
     \/ /\ ~IsPortFree(port[i], i)
        /\ \E p \in Ports : Lowest(Findable(port[i] + 1), p) /\ port' = [port EXCEPT ![i] = p]
  /\ starting' = IF starting[i] = "no" THEN [starting EXCEPT ![i] = "checked"] ELSE starting
  /\ UNCHANGED <<inflight, editing, process, listening, running, mcpPort, foreign>>

\* start_instance refuses what runs, or fails before it spawns, or spawns; the
\* runner reads its port from the config.
Spawn(i) ==
  /\ starting[i] = "checked"
  /\ \/ /\ process[i] = None /\ port[i] # None
        /\ process' = [process EXCEPT ![i] = port[i]]
        /\ starting' = [starting EXCEPT ![i] = "spawned"]
     \/ starting' = [starting EXCEPT ![i] = "no"] /\ UNCHANGED process
  /\ UNCHANGED <<port, inflight, editing, listening, running, mcpPort, foreign>>

RunnerBinds(i) ==
  /\ process[i] # None /\ i \notin listening /\ OsPortFree(process[i])
  /\ listening' = listening \cup {i}
  /\ UNCHANGED <<port, inflight, editing, starting, process, running, mcpPort, foreign>>

\* start_instance sees the port open, or has waited long enough for a runner that
\* is alive, or sees it gone.
StartEnds(i) ==
  /\ starting[i] = "spawned" /\ starting' = [starting EXCEPT ![i] = "no"]
  /\ running' = IF process[i] = None THEN running ELSE running \cup {i}
  /\ UNCHANGED <<port, inflight, editing, process, listening, mcpPort, foreign>>

RunnerEnds(i) ==
  /\ process[i] # None /\ process' = [process EXCEPT ![i] = None]
  /\ listening' = listening \ {i} /\ running' = running \ {i}
  /\ UNCHANGED <<port, inflight, editing, starting, mcpPort, foreign>>

Delete(i) ==
  /\ port[i] # None /\ process[i] = None /\ starting[i] = "no"
  /\ port' = [port EXCEPT ![i] = None]
  /\ UNCHANGED <<inflight, editing, starting, process, listening, running, mcpPort, foreign>>

\* The port of the backup if it is free, else any, and the id is reserved.
Restore(i) ==
  /\ Restores /\ port[i] = None /\ inflight[i] = None
  /\ \E p \in Ports : /\ IsPortFree(p, i) \/ Lowest(Findable(1), p)
                      /\ port' = [port EXCEPT ![i] = p]
  /\ UNCHANGED <<inflight, editing, starting, process, listening, running, mcpPort, foreign>>

\* The settings route: port_conflicts looks at the configs; a port that cannot
\* be bound is put back.
SetMcpPort ==
  /\ \/ \E p \in McpPorts : /\ \A i \in Ids : port[i] # p
                            /\ OsPortFree(p) /\ mcpPort' = p
     \/ mcpPort # None /\ mcpPort' = None
  /\ UNCHANGED <<port, inflight, editing, starting, process, listening, running, foreign>>

ForeignProgram ==
  /\ \E p \in Foreign : \/ OsPortFree(p) /\ foreign' = foreign \cup {p}
                        \/ p \in foreign /\ foreign' = foreign \ {p}
  /\ UNCHANGED <<port, inflight, editing, starting, process, listening, running, mcpPort>>

Next ==
  \/ \E i \in Ids :
       \/ BeginCreate(i) \/ EndCreate(i) \/ EditAtOnce(i) \/ BeginEdit(i) \/ EndEdit(i)
       \/ StartRoute(i) \/ Spawn(i) \/ RunnerBinds(i) \/ StartEnds(i) \/ RunnerEnds(i)
       \/ Delete(i) \/ Restore(i)
  \/ SetMcpPort \/ ForeignProgram

Spec == Init /\ [][Next]_vars

-----------------------------------------------------------------------------
(***************************************************************************)
(* Properties                                                              *)
(***************************************************************************)

TypeOK ==
  /\ \A f \in {port, inflight, editing, process} : f \in [Ids -> Ports \cup {None}]
  /\ starting \in [Ids -> {"no", "checked", "spawned"}]
  /\ listening \cup running \subseteq {i \in Ids : process[i] # None}
  /\ mcpPort \in McpPorts \cup {None} /\ foreign \subseteq Foreign

\* A reserved port is nobody else's reservation, whatever edits, restores, starts
\* and settings do.
ReservationsDiffer ==
  \A i, j \in Ids : i # j /\ inflight[i] # None => inflight[j] # inflight[i]

\* "A running instance holds its own port open -- the OS-level check [...] would
\* see that listener as busy and reassign the port of a healthy instance": the
\* runner of an instance that nobody edits, and whose start nobody repeats, listens
\* where its config says, whatever becomes of the other instances, of the settings
\* and of other programs.
RunnerIsOnItsPort == \A i \in listening \ (Edited \cup Repeated) : process[i] = port[i]
=============================================================================
