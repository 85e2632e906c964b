--------------------------- MODULE RunnerLifecycle ---------------------------
(***************************************************************************)
(* The life of one instance's runner process, as app/process_manager.py    *)
(* and the routes that call it drive it.                                   *)
(*                                                                         *)
(* A *call* is one invocation handed to a worker thread: start_instance,   *)
(* stop_instance, restart_instance (a stop, then a start) or the delete    *)
(* route (perhaps a stop, then the removal of the config).  Calls on the   *)
(* same instance interleave at every lock boundary.  Beside them run the   *)
(* reinstall route, the watchdog, the runner processes themselves, which   *)
(* may die at any moment, and the manager, which may be replaced by a new  *)
(* one while the runners live on.                                          *)
(*                                                                         *)
(* A call spawns at most one process, so a process is named by the call    *)
(* that spawned it: a process id is never reused here.  Instances share    *)
(* only pids.json, whose read-modify-write cycles are atomic               *)
(* (_pids_lock), so one instance is enough.                                *)
(***************************************************************************)
EXTENDS Naturals

CONSTANTS
  Starts,             \* calls of start_instance
  Stops,              \* calls of stop_instance
  Restarts,           \* calls of restart_instance
  Deletes,            \* calls of the delete route
  Reinstalls,         \* calls of the reinstall route
  Unkillable,         \* the processes that outlive SIGKILL (uninterruptible sleep)
  MaxManagerRestarts, \* bound on how often the manager is replaced
  None                \* no process, no call

Calls    == Starts \cup Stops \cup Restarts \cup Deletes
Spawners == Starts \cup Restarts

ASSUME ConstantsAssumption ==
  /\ Starts \cap (Stops \cup Restarts \cup Deletes) = {}
  /\ Stops \cap (Restarts \cup Deletes) = {}
  /\ Restarts \cap Deletes = {}
  /\ Unkillable \subseteq Spawners
  /\ MaxManagerRestarts \in Nat
  /\ None \notin Calls

VARIABLES
  status,      \* inst.status
  pid,         \* inst.pid: the registered runner, or None
  inState,     \* is the instance in config_store._state?
  config,      \* does configs/<id>.json exist?
  pidsFile,    \* the instance's entry in runtime/pids.json, or None
  generation,  \* _generations[id]
  startLock,   \* the call that holds the instance's start lock, or None
  proc,        \* proc[c]: the process call c spawned
  pc,          \* pc[c]: where call c stands, its outcome once it returned
  gen,         \* gen[c]: the number call c claimed last
  target,      \* target[c]: the process a stop has to kill, or None
  reinstall,   \* reinstall[r]: where a reinstall stands, and what it will restore
  watchdog,    \* where the watchdog pass stands with this instance
  restarts,    \* how often the manager was replaced
  displaced    \* history: the live runners that a step wrote over unasked

vars == <<status, pid, inState, config, pidsFile, generation, startLock, proc,
          pc, gen, target, reinstall, watchdog, restarts, displaced>>

\* The state the manager publishes about the instance.
instVars == <<status, pid, inState>>
\* What the other activities of the manager own.
sideVars == <<config, reinstall, watchdog, restarts, displaced>>

Status == {"stopped", "starting", "running", "stopping", "failed",
           "dependency_error", "installing", "installed"}
ProcState == {"none", "live", "zombie", "gone"}
Refusals  == {"refused", "failed", "venv_failed"}
Outcomes  == Refusals \cup {"superseded", "started", "stopped", "overtaken",
                            "not_stopped", "deleted", "lost"}
Holding   == {"check", "check2", "claim", "venv", "spawn"}
Waiting   == {"wait", "publish"}
InFlight  == Holding \cup Waiting \cup {"start", "acquire", "exited", "giveup",
               "stop", "kill", "survived", "finish", "delete_stop", "delete"}

Returned(c) == pc[c] \in Outcomes

\* _is_pid_alive and _pid_is_our_runner: a zombie still answers signal 0, but
\* its command line is empty, so it does not pass for a runner.
Answers(p) == p # None /\ proc[p] \in {"live", "zombie"}
IsRunner(p) == p # None /\ proc[p] = "live"

\* The registration of a live runner may be written over unasked, by the watchdog or
\* by a start that could not see it.  displaced keeps such a runner from the step that
\* decides it; no action reads it.
Displaces(victims) == displaced' = displaced \cup {p \in victims : IsRunner(p)}

\* A start stands between its two reads of the status: what becomes "running" now is
\* "starting" to neither of its tests.
BetweenReads == \E c \in Calls : pc[c] = "check2"

Goto(c, label) == pc' = [pc EXCEPT ![c] = label]

\* set_instance_state after assigning status and pid: the shared object is
\* written and (re-)entered in _state.
Record(s, p) == status' = s /\ pid' = p /\ inState' = TRUE

\* _claim_generation: the next number, under the spawn lock.
Claim(c) ==
  /\ generation' = generation + 1
  /\ gen' = [gen EXCEPT ![c] = generation + 1]

\* _is_current
Current(c) == gen[c] = generation

Init ==
  /\ status = "stopped" /\ pid = None /\ inState = TRUE /\ config = TRUE
  /\ pidsFile = None
  /\ generation = 0 /\ startLock = None
  /\ proc = [c \in Spawners |-> "none"]
  /\ pc = [c \in Calls |-> "idle"]
  /\ gen = [c \in Calls |-> 0]
  /\ target = [c \in Calls |-> None]
  /\ reinstall = [r \in Reinstalls |-> "idle"]
  /\ watchdog = "idle" /\ restarts = 0 /\ displaced = {}

-----------------------------------------------------------------------------
(***************************************************************************)
(* start_instance                                                          *)
(***************************************************************************)

\* The config is loaded before the lock; without one the call is over.
StartCalled(c) ==
  /\ c \in Spawners
  /\ \/ c \in Starts /\ pc[c] = "idle"
     \/ pc[c] = "start"
  /\ Goto(c, IF config THEN "acquire" ELSE "refused")
  /\ UNCHANGED <<instVars, sideVars, pidsFile, generation, startLock, proc, gen, target>>

AcquireStartLock(c) ==
  /\ pc[c] = "acquire" /\ startLock = None
  /\ startLock' = c
  /\ Goto(c, "check")
  /\ UNCHANGED <<instVars, sideVars, pidsFile, generation, proc, gen, target>>

AlreadyRunning  == status = "running" /\ IsRunner(pid)
AlreadyStarting == status = "starting" /\ Answers(pid)

\* "Already running", "Already starting", or an instance whose state is gone
\* (the code then stumbles over None).  Neither test takes the spawn lock, and
\* inst.status is read for each.
Refuse(c) ==
  /\ \/ pc[c] = "check" /\ (AlreadyRunning \/ ~inState)
     \/ pc[c] = "check2" /\ AlreadyStarting
  /\ startLock' = None
  /\ Goto(c, "refused")
  /\ UNCHANGED <<instVars, sideVars, pidsFile, generation, proc, gen, target>>

\* Fault: a start does not ask whether the instance runs already.
PassFirstTestUnasked(c) ==
  /\ pc[c] = "check" /\ inState
  /\ Goto(c, "check2")
  /\ UNCHANGED <<instVars, sideVars, pidsFile, generation, startLock, proc, gen, target>>

PassFirstTest(c) ==
  /\ pc[c] = "check" /\ inState /\ ~AlreadyRunning
  /\ Goto(c, "check2")
  /\ UNCHANGED <<instVars, sideVars, pidsFile, generation, startLock, proc, gen, target>>

\* What a reinstall, and the watchdog that buries an earlier runner, write over the
\* status of a runner that lives.
Hiding == {"installing", "installed", "dependency_error", "failed"}

\* A start does not see a runner whose status is hidden: it will take its place.
PassCheck(c) ==
  /\ pc[c] = "check2" /\ ~AlreadyStarting
  /\ Goto(c, "claim")
  /\ Displaces(IF status \in Hiding THEN {pid} ELSE {})
  /\ UNCHANGED <<instVars, config, reinstall, watchdog, restarts, pidsFile, generation,
                 startLock, proc, gen, target>>

\* Announcing the start and claiming its number are one step.
ClaimStart(c) ==
  /\ pc[c] = "claim"
  /\ Record("starting", pid)
  /\ Claim(c)
  /\ Goto(c, "venv")
  /\ UNCHANGED <<sideVars, pidsFile, startLock, proc, target>>

\* ensure_venv, which may take minutes.
VenvReady(c) ==
  /\ pc[c] = "venv"
  /\ Goto(c, "spawn")
  /\ UNCHANGED <<instVars, sideVars, pidsFile, generation, startLock, proc, gen, target>>

\* Fault: the early return keeps the lock.
VenvFailsHoldingLock(c) ==
  /\ pc[c] = "venv"
  /\ Record("dependency_error", pid)
  /\ Goto(c, "venv_failed")
  /\ UNCHANGED <<sideVars, pidsFile, generation, startLock, proc, gen, target>>

\* Written without asking whether the call still speaks for the instance.
VenvFails(c) ==
  /\ pc[c] = "venv"
  /\ Record("dependency_error", pid)
  /\ startLock' = None
  /\ Goto(c, "venv_failed")
  /\ UNCHANGED <<sideVars, pidsFile, generation, proc, gen, target>>

\* Fault: no last question before the spawn.
SpawnUnasked(c) ==
  /\ pc[c] = "spawn"
  /\ proc' = [proc EXCEPT ![c] = "live"]
  /\ Record(status, c)
  /\ startLock' = None
  /\ Goto(c, "wait")
  /\ UNCHANGED <<sideVars, pidsFile, generation, gen, target>>

\* The last check, Popen and the published pid, all under the spawn lock.
Spawn(c) ==
  /\ pc[c] = "spawn" /\ Current(c)
  /\ proc' = [proc EXCEPT ![c] = "live"]
  /\ Record(status, c)
  /\ startLock' = None
  /\ Goto(c, "wait")
  /\ UNCHANGED <<sideVars, pidsFile, generation, gen, target>>

SpawnSuperseded(c) ==
  /\ pc[c] = "spawn" /\ ~Current(c)
  /\ startLock' = None
  /\ Goto(c, "superseded")
  /\ UNCHANGED <<instVars, sideVars, pidsFile, generation, proc, gen, target>>

\* Anything raised while the command is prepared or Popen runs.
SpawnFails(c) ==
  /\ pc[c] = "spawn"
  /\ Record("failed", pid)
  /\ startLock' = None
  /\ Goto(c, "failed")
  /\ UNCHANGED <<sideVars, pidsFile, generation, proc, gen, target>>

\* One round of the wait loop finds the number taken.
WaitSuperseded(c) ==
  /\ pc[c] = "wait" /\ ~Current(c)
  /\ Goto(c, "giveup")
  /\ UNCHANGED <<instVars, sideVars, pidsFile, generation, startLock, proc, gen, target>>

\* proc.poll() reaps a runner that exited.
WaitExited(c) ==
  /\ pc[c] = "wait" /\ proc[c] \in {"zombie", "gone"}
  /\ proc' = [proc EXCEPT ![c] = "gone"]
  /\ Goto(c, "exited")
  /\ UNCHANGED <<instVars, sideVars, pidsFile, generation, startLock, gen, target>>

\* The port answers, or START_TIMEOUT has passed: both lead to the same place,
\* and a runner that died since the last poll is not noticed here.
WaitEnds(c) ==
  /\ pc[c] = "wait"
  /\ Goto(c, "publish")
  /\ UNCHANGED <<instVars, sideVars, pidsFile, generation, startLock, proc, gen, target>>

\* Fault: the exit is recorded whoever speaks for the instance now.
RecordExitUnasked(c) ==
  /\ pc[c] = "exited"
  /\ Record("failed", None) /\ pidsFile' = None /\ Goto(c, "failed")
  /\ UNCHANGED <<sideVars, generation, startLock, proc, gen, target>>

\* Fault: the exit is returned to the caller and recorded nowhere.
RecordExitNowhere(c) ==
  /\ pc[c] = "exited"
  /\ Goto(c, "failed")
  /\ UNCHANGED <<instVars, sideVars, pidsFile, generation, startLock, proc, gen, target>>

RecordExit(c) ==
  /\ pc[c] = "exited"
  /\ IF Current(c)
       THEN Record("failed", None) /\ pidsFile' = None /\ Goto(c, "failed")
       ELSE UNCHANGED <<instVars, pidsFile>> /\ Goto(c, "superseded")
  /\ UNCHANGED <<sideVars, generation, startLock, proc, gen, target>>

\* Fault: pids.json is left for later.
PublishInMemory(c) ==
  /\ pc[c] = "publish"
  /\ IF Current(c)
       THEN /\ Record("running", c) /\ Goto(c, "started")
            /\ Displaces(IF BetweenReads THEN {c} ELSE {})
       ELSE UNCHANGED <<instVars, displaced>> /\ Goto(c, "giveup")
  /\ UNCHANGED <<config, reinstall, watchdog, restarts, pidsFile, generation, startLock, proc,
                 gen, target>>

\* inst and pids.json together, under the spawn lock.
Publish(c) ==
  /\ pc[c] = "publish"
  /\ IF Current(c)
       THEN /\ Record("running", c) /\ pidsFile' = c /\ Goto(c, "started")
            /\ Displaces(IF BetweenReads THEN {c} ELSE {})
       ELSE UNCHANGED <<instVars, pidsFile, displaced>> /\ Goto(c, "giveup")
  /\ UNCHANGED <<config, reinstall, watchdog, restarts, generation, startLock, proc, gen, target>>

\* Fault: a superseded start returns and leaves the killing to the stop.
GiveUpLeaving(c) ==
  /\ pc[c] = "giveup"
  /\ Goto(c, "superseded")
  /\ UNCHANGED <<instVars, sideVars, pidsFile, generation, startLock, proc, gen, target>>

\* _stopped_during_startup and _abandon: kill the runner and reap it.
GiveUp(c) ==
  /\ pc[c] = "giveup"
  /\ proc' = IF IsRunner(c) /\ c \in Unkillable THEN proc
                                                ELSE [proc EXCEPT ![c] = "gone"]
  /\ Goto(c, "superseded")
  /\ UNCHANGED <<instVars, sideVars, pidsFile, generation, startLock, gen, target>>

-----------------------------------------------------------------------------
(***************************************************************************)
(* stop_instance, and what a restart or a delete does after it             *)
(***************************************************************************)

\* pids.json is read before the lock is taken.
StopCalled(c) ==
  /\ \/ c \in Stops \cup Restarts /\ pc[c] = "idle"
     \/ c \in Deletes /\ pc[c] = "delete_stop"
  /\ IF inState
       THEN target' = [target EXCEPT ![c] = pidsFile] /\ Goto(c, "stop")
       ELSE UNCHANGED target /\ Goto(c, "refused")
  /\ UNCHANGED <<instVars, sideVars, pidsFile, generation, startLock, proc, gen>>

\* Mark the instance stopping, read the pid to kill, take the number.
ClaimStop(c) ==
  /\ pc[c] = "stop"
  /\ target' = [target EXCEPT ![c] = IF pid # None THEN pid ELSE @]
  /\ Record("stopping", pid)
  /\ Claim(c)
  /\ Goto(c, IF IsRunner(target'[c]) THEN "kill" ELSE "finish")
  /\ UNCHANGED <<sideVars, pidsFile, startLock, proc>>

\* Fault: the stop trusts its signals and does not look.
KillUnverified(c) ==
  /\ pc[c] = "kill"
  /\ proc' = IF target[c] \in Unkillable THEN proc ELSE [proc EXCEPT ![target[c]] = "gone"]
  /\ Goto(c, "finish")
  /\ UNCHANGED <<instVars, sideVars, pidsFile, generation, startLock, gen, target>>

\* SIGTERM, SIGKILL and the waiting in between; no lock is held.
Kill(c) ==
  /\ pc[c] = "kill"
  /\ IF IsRunner(target[c]) /\ target[c] \in Unkillable
       THEN UNCHANGED proc /\ Goto(c, "survived")
       ELSE proc' = [proc EXCEPT ![target[c]] = "gone"] /\ Goto(c, "finish")
  /\ UNCHANGED <<instVars, sideVars, pidsFile, generation, startLock, gen, target>>

StopFails(c) ==
  /\ pc[c] = "survived"
  /\ IF Current(c) THEN Record("running", target[c]) ELSE UNCHANGED instVars
  /\ Goto(c, "not_stopped")
  /\ UNCHANGED <<sideVars, pidsFile, generation, startLock, proc, gen, target>>

\* A stop that succeeded lets a restart start and a delete delete.
AfterStop(c, outcome) == CASE c \in Restarts -> "start"
                           [] c \in Deletes  -> "delete"
                           [] OTHER          -> outcome

\* Fault: the stop clears the state although a newer start has taken over.
FinishStopUnasked(c) ==
  /\ pc[c] = "finish"
  /\ Record("stopped", None) /\ pidsFile' = None
  /\ Goto(c, AfterStop(c, "stopped"))
  /\ UNCHANGED <<sideVars, generation, startLock, proc, gen, target>>

FinishStop(c) ==
  /\ pc[c] = "finish"
  /\ IF Current(c)
       THEN /\ Record("stopped", None) /\ pidsFile' = None
            /\ Goto(c, AfterStop(c, "stopped"))
       ELSE UNCHANGED <<instVars, pidsFile>> /\ Goto(c, AfterStop(c, "overtaken"))
  /\ UNCHANGED <<sideVars, generation, startLock, proc, gen, target>>

\* delete_config: the file goes, and the instance leaves _state.  Threads that
\* hold the instance object keep writing to it.
RemoveConfig(c) ==
  /\ config' = FALSE
  /\ inState' = IF config THEN FALSE ELSE inState
  /\ Goto(c, IF config THEN "deleted" ELSE "refused")

\* The delete route stops the instance first if it reads running or starting;
\* otherwise it does not leave the event loop before the config is gone.
DeleteCalled(c) ==
  /\ c \in Deletes /\ pc[c] = "idle"
  /\ \/ /\ inState /\ status \in {"running", "starting"}
        /\ Goto(c, "delete_stop") /\ UNCHANGED <<config, inState>>
     \/ /\ ~inState \/ status \notin {"running", "starting"}
        /\ RemoveConfig(c)
  /\ UNCHANGED <<status, pid, reinstall, watchdog, restarts, displaced, pidsFile, generation,
                 startLock, proc, gen, target>>

\* After the stop it deletes without looking again.
DeleteAfterStop(c) ==
  /\ pc[c] = "delete"
  /\ RemoveConfig(c)
  /\ UNCHANGED <<status, pid, reinstall, watchdog, restarts, displaced, pidsFile, generation,
                 startLock, proc, gen, target>>

-----------------------------------------------------------------------------
(***************************************************************************)
(* What runs beside the calls                                              *)
(***************************************************************************)

callVars == <<generation, startLock, pc, gen, target>>

\* The route reads the status, announces the install and hands it to a thread.
ReinstallBegins(r) ==
  /\ reinstall[r] = "idle" /\ config /\ inState
  /\ reinstall' = [reinstall EXCEPT
       ![r] = IF status = "running" THEN "was_running" ELSE "was_not"]
  /\ Record("installing", pid)
  /\ UNCHANGED <<config, pidsFile, proc, watchdog, restarts, displaced, callVars>>

\* Back on the event loop, it writes what it read at the beginning.
ReinstallEnds(r) ==
  /\ reinstall[r] \in {"was_running", "was_not"}
  /\ \/ /\ reinstall[r] = "was_running" /\ Record("running", pid)
        /\ Displaces(IF BetweenReads THEN {pid} ELSE {})
     \/ /\ reinstall[r] = "was_not" /\ \E s \in {"installed", "dependency_error"} : Record(s, pid)
        /\ UNCHANGED displaced
  /\ reinstall' = [reinstall EXCEPT ![r] = "done"]
  /\ UNCHANGED <<config, pidsFile, proc, watchdog, restarts, callVars>>

\* Fault: only signal 0 is asked, which a zombie answers.
WatchdogSeesSignal ==
  /\ watchdog = "idle"
  /\ config /\ inState /\ status = "running" /\ pid # None /\ ~Answers(pid)
  /\ watchdog' = "demote"
  /\ UNCHANGED <<instVars, config, pidsFile, proc, reinstall, restarts, displaced, callVars>>

\* check_running_instances takes no lock.  It finds the runner dead ...
WatchdogSees ==
  /\ watchdog = "idle"
  /\ config /\ inState /\ status = "running" /\ pid # None /\ ~IsRunner(pid)
  /\ watchdog' = "demote"
  /\ UNCHANGED <<instVars, config, pidsFile, proc, reinstall, restarts, displaced, callVars>>

\* ... reads the log tail, then writes, whoever is registered by now ...
WatchdogDemotes ==
  /\ watchdog = "demote"
  /\ Record("failed", None)
  /\ Displaces({pid})
  /\ watchdog' = "drop"
  /\ UNCHANGED <<config, pidsFile, proc, reinstall, restarts, callVars>>

\* ... and drops the entry from pids.json.
WatchdogDrops ==
  /\ watchdog = "drop"
  /\ pidsFile' = None
  /\ Displaces({pidsFile})
  /\ watchdog' = "idle"
  /\ UNCHANGED <<instVars, config, proc, reinstall, restarts, callVars>>

\* A runner crashes, or gives up because its port is taken.
RunnerDies(p) ==
  /\ proc[p] = "live"
  /\ proc' = [proc EXCEPT ![p] = "zombie"]
  /\ UNCHANGED <<instVars, sideVars, pidsFile, callVars>>

\* os.execv, or a manager that was killed and started again: every thread and
\* everything in memory is gone, the runners and the files are not.  The new
\* manager runs sync_state_from_pids before it answers anyone.
ManagerRestarts ==
  /\ restarts < MaxManagerRestarts
  /\ restarts' = restarts + 1
  /\ LET survivor == IF IsRunner(pidsFile) THEN pidsFile ELSE None
     IN  /\ pid' = IF config THEN survivor ELSE None
         /\ status' = IF config /\ survivor # None THEN "running" ELSE "stopped"
         /\ pidsFile' = survivor
  /\ inState' = config
  /\ generation' = 0 /\ startLock' = None
  /\ gen' = [c \in Calls |-> 0]
  /\ pc' = [c \in Calls |-> IF pc[c] \in InFlight THEN "lost" ELSE pc[c]]
  /\ reinstall' = [r \in Reinstalls |->
       IF reinstall[r] \in {"was_running", "was_not"} THEN "lost" ELSE reinstall[r]]
  /\ watchdog' = "idle"
  /\ UNCHANGED <<config, proc, target, displaced>>

-----------------------------------------------------------------------------
StartStep(c) ==
  \/ StartCalled(c) \/ AcquireStartLock(c)
  \/ Refuse(c) \/ PassFirstTest(c) \/ PassCheck(c) \/ ClaimStart(c)
  \/ VenvReady(c) \/ VenvFails(c)
  \/ Spawn(c) \/ SpawnSuperseded(c) \/ SpawnFails(c)
  \/ WaitSuperseded(c) \/ WaitExited(c) \/ WaitEnds(c)
  \/ RecordExit(c) \/ Publish(c) \/ GiveUp(c)

StopStep(c) ==
  \/ StopCalled(c) \/ ClaimStop(c) \/ Kill(c) \/ StopFails(c) \/ FinishStop(c)
  \/ DeleteCalled(c) \/ DeleteAfterStop(c)

WatchdogStep == WatchdogSees \/ WatchdogDemotes \/ WatchdogDrops

Next ==
  \/ \E c \in Calls : StartStep(c) \/ StopStep(c)
  \/ \E r \in Reinstalls : ReinstallBegins(r) \/ ReinstallEnds(r)
  \/ WatchdogStep
  \/ \E p \in Spawners : RunnerDies(p)
  \/ ManagerRestarts

Spec == Init /\ [][Next]_vars

\* A worker thread that was handed a call keeps running, every wait in it has
\* a deadline, and only finitely many calls contend for the start lock.  Nothing
\* obliges anyone to make a call, a runner to die or the manager to restart.
Fairness ==
  /\ \A c \in Calls : WF_vars(pc[c] # "idle" /\ (StartStep(c) \/ StopStep(c)))
  /\ \A r \in Reinstalls : WF_vars(ReinstallEnds(r))
  /\ WF_vars(WatchdogStep)

FairSpec == Spec /\ Fairness

-----------------------------------------------------------------------------
(***************************************************************************)
(* Properties                                                              *)
(***************************************************************************)

TypeOK ==
  /\ status \in Status /\ pid \in Spawners \cup {None}
  /\ inState \in BOOLEAN /\ config \in BOOLEAN
  /\ pidsFile \in Spawners \cup {None}
  /\ generation \in Nat /\ startLock \in Spawners \cup {None}
  /\ proc \in [Spawners -> ProcState]
  /\ pc \in [Calls -> InFlight \cup Outcomes \cup {"idle"}]
  /\ gen \in [Calls -> Nat]
  /\ target \in [Calls -> Spawners \cup {None}]
  /\ reinstall \in [Reinstalls -> {"idle", "was_running", "was_not", "done", "lost"}]
  /\ watchdog \in {"idle", "demote", "drop"}
  /\ restarts \in 0 .. MaxManagerRestarts
  /\ displaced \subseteq Spawners

\* A stop or the watchdog finds the runner: it is registered in memory, or, with
\* nothing in memory, in pids.json.
Registered(p) == inState /\ (pid = p \/ (pid = None /\ pidsFile = p))

\* Some thread still holds the runner and will keep it or kill it.
InHand(p) == \/ pc[p] \in Waiting \cup {"giveup"}
             \/ \E c \in Calls : pc[c] = "kill" /\ target[c] = p

\* The thread that spawned the runner, or was about to kill it, was lost with its
\* manager.
Forgotten(p) == pc[p] = "lost" \/ \E c \in Calls : pc[c] = "lost" /\ target[c] = p

\* What OneRunner is about: a process is serving once no thread has it in hand, and
\* until it dies.  What a lost thread had in hand serves only if the new manager
\* found it; what SIGKILL cannot end, what a deleted instance leaves behind and what
\* was displaced is left out.
Serves(p) ==
  /\ config /\ IsRunner(p) /\ p \notin Unkillable \cup displaced
  /\ ~InHand(p) /\ (Forgotten(p) => pid = p)
ServingNow == {p \in Spawners : Serves(p)}

Promise == INSTANCE OneRunner WITH
  Processes <- Spawners, Nobody <- None, serving <- ServingNow, named <- pid

\* Whatever runs beside them, starts, stops and restarts in any order implement the
\* promise: one runner at a time, always the registered one, and a hand-over that
\* passes through none.  Only displaced runners may go on beside it: those published
\* between the two reads of another start's check, those whose status a reinstall hid
\* from it, and those registered while the watchdog buries a dead one.
KeepsPromise == Promise!Spec

\* "A process nobody publishes a pid for cannot be stopped from the dashboard
\* and cannot be seen by the watchdog" (_abandon): until the instance is deleted,
\* every live runner that SIGKILL can end is registered or in the hands of a thread,
\* unless the thread whose hands it was in was lost with the manager or one of the
\* steps that displace a runner was taken.
NoOrphan ==
  config => \A p \in Spawners \ Unkillable :
    IsRunner(p) => Registered(p) \/ InHand(p) \/ Forgotten(p) \/ p \in displaced

\* Stale is permanent, and what is current is what is registered: nobody has written
\* over the live runner of the start that holds the latest number and is waiting for
\* its port, but the watchdog that was burying the one before, or a start that could
\* not see it (both displace it).
CurrentStartIsRegistered ==
  \A c \in Spawners : pc[c] \in Waiting /\ Current(c) /\ IsRunner(c) =>
    pid = c \/ c \in displaced

\* The hole the spawn lock was made to close: after a stop answered "stopped",
\* and as long as nobody asked for anything since, nothing is registered, and the
\* only runners alive are those a superseded start, or an earlier stop, is still on its
\* way to kill, those a manager that was replaced had in hand, and those displaced.
ConfirmedStopLeavesNothing ==
  \A c \in Stops : pc[c] = "stopped" /\ Current(c) /\ gen[c] > 0 =>
    /\ pid = None /\ pidsFile = None
    /\ config => \A p \in Spawners \ Unkillable :
         IsRunner(p) => InHand(p) \/ Forgotten(p) \/ p \in displaced

\* pids.json is what a new manager adopts from: it names every runner that serves,
\* whatever a reinstall makes of the status meanwhile.
RunningIsOnFile == \A p \in ServingNow : pid = p /\ pidsFile = p

\* A new manager takes over every runner that served under the old one: none is lost,
\* and none is shown as stopped while it serves.
PublishedRunnerIsAdopted ==
  [][\A p \in ServingNow : ManagerRestarts => status' = "running" /\ pid' = p]_vars

\* A start that answered with an error has not left its runner behind.
FailedStartLeavesNothing ==
  \A c \in Spawners \ Unkillable :
    pc[c] \in Refusals \cup {"superseded"} => ~IsRunner(c)

\* A stop that answered "ok" (and a restart or delete that went on after its
\* stop) has ended the process it read, whatever came in between.
StopEndsWhatItRead ==
  \A c \in Calls : gen[c] > 0 /\ c \notin Starts /\ IsRunner(target[c]) =>
    pc[c] \in {"kill", "survived", "not_stopped"}

\* The two phases of a start: at most one start of an instance at a time is
\* between its check and its spawn, and it holds the lock.
OneSpawnAtATime ==
  \A c \in Calls : (pc[c] \in Holding) <=> (startLock = c)

\* Every call that was made returns: no order of starts, stops and deaths leaves
\* a thread waiting for the start lock or for a process for ever.
CallsReturn == \A c \in Calls : pc[c] # "idle" ~> Returned(c)

\* "starting" and "stopping" are announcements: whoever supersedes whom, somebody
\* is always left who writes what became of the instance.
StatusSettles == status \in {"starting", "stopping"} ~> status \notin {"starting", "stopping"}

\* A runner that died while it was published as running is noticed, although a
\* call or a reinstall may have hidden the status from the watchdog for a while,
\* unless the instance is deleted first.
DeathIsNoticed ==
  status = "running" /\ pid # None /\ ~IsRunner(pid) ~>
    status # "running" \/ IsRunner(pid) \/ ~config
=============================================================================
