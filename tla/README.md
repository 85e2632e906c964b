# OWUI MCP Spawner: a verification project

The manager (`src/app/admin_server.py` and what it mounts) installs tool files
into virtual environments and runs each as a *runner process* with a port of its
own. Its difficulties are those of a supervisor: processes outlive the threads
that start them, installs take minutes while people go on clicking, and several
activities write the same few files and objects. This directory models those
activities in TLA+, checks them with TLC and proves part of them with TLAPS.

1. [The system](#the-system)
2. [The modules](#the-modules)
3. [The runs](#the-runs)
4. [Bounds and fairness](#bounds-and-fairness)
5. [What is proved](#what-is-proved)
6. [Known flaws](#known-flaws)
7. [What is not modelled](#what-is-not-modelled)
8. [Plan](#plan)

## The system

The manager is one process: an asyncio event loop that runs the routes, the
watchdog, the health monitor and the listeners, and worker threads that run what
blocks (`asyncio.to_thread`): installs, validations, starts and stops. A route is
therefore atomic between two awaits, and a thread is not atomic at all, except
under a lock. Runners are separate processes that survive the manager.

| Component | State it keeps | Operations | Talks to |
| --- | --- | --- | --- |
| Process manager (`process_manager.py`) | status and pid of an instance, `_generations`, start locks, `runtime/pids.json` | start, stop, restart, watchdog pass, recovery at boot | runners (Popen, signals), config store, venvs |
| Config store (`config_store.py`) | `configs/<id>.json`, `_state`, `instance_lock`s | load, save, delete, find a free port | files |
| Instance routes (`routes/instances.py`, `api_helpers.py`) | ids and ports reserved by installs under way | create, import, edit, start, stop, delete, lock | config store, venvs, process manager |
| Tool routes (`routes/tools.py`) | `tools/<id>.json` | save code, reinstall | venvs, process manager |
| Venvs and dependencies (`venv_manager.py`, `dependency_manager.py`) | packages per venv, `pip check` results | prepare, install, delete | pip |
| Health monitor (`health.py`) | `_health`: failures, restarts, times | probe pass, restart | process manager |
| Public MCP ports (`shared_proxy.py`, `routes/settings.py`) | `_listeners`, `_client`, `_dispatch_client`, settings | sync, start, stop, carry a stream, roll back | category endpoint, runners |
| Category endpoint (`category_endpoint.py`) | `_managers`, `_tasks`, `_stops` | session manager on first use, wind-down | runners |
| Lockout, authentication (`lockout.py`, `auth.py`) | failures and blocks per address | judge a credential, count, block, reset | every route |
| Access policy and identity (`policy.py`, `identity.py`, `agent_identity.py`, `routes/permissions.py`, `routes/agent_identities.py`) | the policy file, the agent file, copies of both in every process | which tools a caller may use; save, reset, issue, revoke | runners read what the manager writes |
| Content store (`content_store.py`, `routes/content.py`) | the secret file, the files of an instance | create the secret, sign, verify, sweep, empty | runners and the manager share the folder |
| Usage (`activity.py`) | `_pending`, the flusher task, sqlite tables | record, flush, prune, forget | runners write, the manager reads and prunes |
| MCP runner (`mcp_runner.py`) | its calls | gate, call the tool, answer, shut down | policy, content store, usage |
| Backup and restore (`backup.py`) | nothing between calls | merge what an archive holds under what is there | config store, policy, agents |
| Update check, the rest | a cached answer | | |

How they interact, and what is hard about it:

* **Calls of the process manager interleave.** A start is in the middle of
  `ensure_venv` when a stop arrives, a stop waits for SIGTERM when the next start
  spawns. `_claim_generation` numbers the calls: whoever holds the latest number
  speaks for the instance, everybody else must clean up and say nothing. Correct
  is: no runner is left that nobody knows of; a stop that was confirmed stays
  confirmed; what is published is on file for the next manager; every call
  returns and no "starting" stays.
* **Requests span awaits.** An edit reads the config, installs for minutes,
  writes. `instance_lock`, `reserve_id` and a second look before the write are
  the protection, and some routes take none of them. Correct is: what is saved
  is installed; a change nobody asked for is not written; a lock that was set in
  the meantime is respected.
* **Ports are claimed in five places**, checked against three sources (configs,
  reservations, the operating system). Correct is: reservations are disjoint; a
  healthy runner keeps the port its config names.
* **The health monitor acts on old answers** and must not restart for ever.
  Correct is: the cap, the growing wait and the forgiveness bound the restarts
  together, and they are for the runner's own failures.
* **Listeners and sessions follow the settings** while settings requests, the
  watchdog and the shutdown change both, one await at a time. Correct is: no
  listener or session manager that nobody can take down, none without its client,
  no stream through a door that was closed, and in the end what the settings ask.
* **A decision reads files that others replace.** A runner reads the policy three
  times and the agents twice for one call. Correct is: a ban that stands is obeyed
  whichever versions it saw, and a revoked token is dead for the next call.
* **The lockout judges in threads.** Requests that were let past before a block
  are judged after it. Correct is: only guesses count, and escalation is never
  wiped by waiting, by other clients or by overlap.
* **Runner and manager share a folder, a secret and a database**, and each may be
  killed at any line. Correct is: a link opens while its file is there; a set of
  files goes as a set; a stop writes what is queued.

## The modules

`MC*` modules instantiate a component for TLC; `*Proofs` modules hold theorems.
Definitions keep the names of the source where they can. An operator whose
comment begins with `Fault:` is no part of the model: it is a plausible mistake,
kept beside the definition it would replace to show that a property notices it.

**RunnerLifecycle** (`process_manager.py`, with the delete and reinstall routes,
the watchdog loop, and recovery). One instance; a *call* is one invocation of
start, stop, restart or delete, and its place in the code is `pc[c]`. One action
per section between two lock boundaries or waits. A process is named by the call
that spawned it, so `proc[c]` is `none`, `live`, `zombie` (dead, not reaped) or
`gone`. `status`, `pid` and `inState` are the shared object `inst` and its entry
in `_state`; `pidsFile` is the entry in `pids.json`; `generation` and `gen[c]`
are `_generations[id]` and the number a call claimed. `AcquireStartLock` ...
`ClaimStart` ... `VenvReady` ... `Spawn` ... `WaitEnds` ... `Publish` are the
successive sections of `start_instance`; `StopCalled`, `ClaimStop`, `Kill`,
`FinishStop` those of `stop_instance`. `PassFirstTest` splits the check in two,
where the code reads `inst.status` twice without the lock that writers hold.
`WatchdogSees` is what the watchdog reads, `WatchdogDemotes` and `WatchdogDrops` what
it then writes, one after the other, without asking again; `ReinstallBegins` and `ReinstallEnds`
hide the status and bring the old one back. `ManagerRestarts` forgets memory and
threads and runs `sync_state_from_pids`. A live runner loses its registration unasked
in three ways: a start that reads a hidden status takes its place (`PassCheck`); it is
published, by its start or the end of a reinstall, between the two reads of another
start's check (`Publish`, `ReinstallEnds`); or the watchdog writes over it while it
buries another (`WatchdogDemotes`, `WatchdogDrops`). The history variable `displaced`
records which runner was hit, at the step that decides it; no action reads it.

**OneRunner** is the abstract specification of starts and stops: at most one process
serves, it is the one the manager has registered, and one process follows another
only after a moment without. `KeepsPromise` is that RunnerLifecycle implements it: a
process serves when it lives, no call has it in hand, to start it or to kill it, and
it was not displaced.

**ConfigChanges** (`routes/instances.py`, `routes/tools.py`, `routes/venvs.py`,
`api_helpers.py`, the migration in `admin_server.py`). One instance id; a
*request* is one call of a route, and one action is what lies between two
awaits. A value in the config is the request that wrote it, so a lost update is
visible. `installed[v]` is the set of packages in a venv; `RemoveVenv` takes them one
after the other and may stop half way (`rmtree` raises, the route answers 500).
`Written` is what an edit's commit sets: the fields that the body names, and with
one half of the server the other half as it was read. `prepared` is a ghost
field: it is false for an import whose install failed, which is saved on purpose,
and for an instance restored from a backup (`RestoreInstance`), which is saved
before anything is installed for it.

**HealthMonitor** (`health.py`). A clock in units of `HEALTH_INTERVAL`; a pass
sends every running instance a probe (`BeginPass`), the answers are recorded one
at a time under the lock (`RecordHealthy`, `RecordFailure`, `RecordAndRestart`),
and the lock is held over a restart (`restarting`). `restartsOf` and `failuresOf`
are history variables that no action reads. The module names its state so
(`statusOf`, `healthVars`, `HealthSpec`) that it can be read beside RunnerLifecycle.

**PortAllocation** (`config_store.py`, `api_helpers.py` and the callers). Every
instance's saved, reserved and to-be-written port, the port its runner was
started with, and who listens.

**PublicPorts** (`shared_proxy.py`, the ports part of `routes/settings.py`, boot,
watchdog and shutdown in `admin_server.py`). Tasks on one event loop: `running`
names the task that holds it, an action of a task runs to its next await, and a
suspended task resumes when nobody holds the loop. `entry[p]` is `_listeners[p]`,
`server[p]` the uvicorn server behind it, which may outlive its entry while it
drains; `Cancelled` is what the shutdown makes of the watchdog, which goes on if
`stop_listener` took the cancel for that of the server it waits for; `client` and
`dispatch` are the two HTTP clients; `stream[f]` is who holds
the client that a stream came through. `SyncBegun`, `SyncStops`, `SyncStarts`,
`Bind`, `PolledUp` and `PolledDead` are the sections of `sync_listeners` and what
it calls.

**CategorySessions** (`category_endpoint.py`). Requests wait for `_lock`, then for
the session manager; a `_serve` task is a number; `stop_all` reads its list under
the lock and empties the map after its awaits. `slow` and `lost` record the two
things after which the code does lose a session manager (see the flaws).

**AccessControl** (`policy.py`, `identity.py`, `agent_identity.py`, the two routes
that write, the gate in `mcp_runner.py`). A call goes through the bearer gate
(`Receive`), gets its caller (`Identify`), and reads the policy in three steps
(`ReadDefault`, `ReadBan`, `ReadRules`), between which the manager's routes and a
person with an editor write. A policy is a record of entries per id and role, which
may be found by e-mail and, failing that, by name (`UserEntry`); an identity is a
record of what the token proved. `call.during` and `call.stores` are
history variables: the versions of the files that existed while the call ran.
`RestoreAgents` and `RestoreRules` are the two writes of a restore (`backup.py`):
the manager does nothing in between, a runner or an editor may.

**AttemptLimiter** and **ApiLockout** (`lockout.py`, `auth.py`). AttemptLimiter is
the abstract specification: a count of strikes per address, a wait after every
third, forgiveness by a success, a long quiet or a restart. ApiLockout is the code:
records with failures, doublings and two times, and requests that look at the
lockout, are judged in another step, and may be judged twice (`require_admin_auth`
after `require_auth`). `Escalates` is that it implements the abstract one:
`strikes` is three times the doublings plus the failures.

**ContentStore**, **UsageLog** and **ToolCalls** (`content_store.py`,
`activity.py`, `mcp_runner.py`). The first two are components with variables of
their own: the folder, the secret file and every step of its creation; the queue,
the flusher task and the tables. ToolCalls composes them: a call is gated by the
quota, recorded in the log, writes files while it runs in its thread, and gets
links in its answer; the runner is stopped, flushed, killed, deleted. An answer is
made in one turn of the runner's event loop, so nothing else of that loop runs
while the secret is being made (`LoopIsFree`), but the manager and threads do. The
stop of a runner (`Exit`) waits for the queue to be empty and for the batch of its
own `flush`, not for the one the flusher has in a thread: that batch may be lost.

**SharedSecret** is the abstract specification of the secret: a register that whoever
comes first writes, once; who holds a secret holds that one, and what is signed is
signed with it. `SharesOneSecret` is that the file, with its creation in several
steps, and the two caches implement it: `Absent`, `Short` and a damaged file are all
"not chosen yet".

The remaining modules share no variable: each models the others' actions as far as
they touch its state (a stop for the health monitor is two assignments). What links
them is what they rely on: PortAllocation lets one start per instance be past its
check, which is `OneSpawnAtATime` of RunnerLifecycle; ConfigChanges takes
restarts and stops as calls that return, which is `CallsReturn`; ToolCalls starts
runners when the manager is up, which is the order of `_lifespan`.

## The runs

| Run | Module | What it asks |
| --- | --- | --- |
| `lifecycle_calls` | RunnerLifecycle | two starts, a stop, a delete and a reinstall beside the watchdog, deaths and one manager restart: is every runner registered, in somebody's hands or displaced (`NoOrphan`), is the current start the registered one, does a confirmed stop hold, is what serves on file, does a new manager adopt it; and is all of it an implementation of OneRunner (`KeepsPromise`)? |
| `lifecycle_all` | RunnerLifecycle | a start, a restart, a delete and a reinstall beside the watchdog, with an unkillable process: does a failed start leave nothing, does a stop end what it read; does every call return, every announcement settle, every death get noticed? |
| `config_changes` | ConfigChanges | any three of six requests and the migration, with locking and port reassignment: what is saved is installed, locks and reservations are held exactly while a request is under way, late locks are respected, only named fields change (but for the other half of a server), creates do not overwrite, no config is without its tool file |
| `health_passes` | HealthMonitor | are restarts reluctant, and for the runner's own failures? |
| `ports_all` | PortAllocation | are reservations disjoint, and does a runner that is left alone listen where its config says? |
| `public_ports` | PublicPorts | the watchdog and a settings request sync two ports at once, with crashes, slow starts, ports taken by others, a stream, and a shutdown at any await: is every server in the table and every listener with a client, does a closed door close its streams, does a shutdown leave nothing once the watchdog has ended, do the listeners come to what the settings say? |
| `category_sessions` | CategorySessions | three requests beside a wind-down: does nobody get an ended session manager, is none forgotten, does everybody return? |
| `access_control` | AccessControl | calls of a person and of an agent while rules and tokens are written and restored: is whoever is banned refused, is every answer made of rules that the file held during the call, do tokens and roles count as they are, does a grant name its caller? |
| `api_lockout` | ApiLockout | two requests at once, all credentials at all doors: do only guesses count, and is the lockout an implementation of AttemptLimiter? |
| `content_storage` | ToolCalls | files, links, sweeps, calls, with manager and runner stopped or killed at any step: do links open, do whole folders go whole, does a stop write all that is queued, does no call wait for the next to be written, and do runner and manager share one secret as SharedSecret says? |

Two runs show a disagreement between the code and what it says of itself; each
checks one property, which TLC refutes:

| Run | Property | What happens |
| --- | --- | --- |
| `access_reset` | `ResetUnblocksNobody` | a reset writes `{"deny": true}` over the whole entry, the e-mail address it is matched by included; the person it banned is let in by their role |
| `secret_race` | `OneSecret` | after a rotation, a runner that outlived the manager creates the secret file while the manager starts; the manager reads it while it is empty, takes it for damaged and replaces it |

Properties that hold of the passing runs except, each in its own statement, what the
code does not prevent (see the flaws); the steps that lead there are in the model
and in the run:

* `NoOrphan`, `CurrentStartIsRegistered`, `ConfirmedStopLeavesNothing` and what
  serves in `KeepsPromise`, `RunningIsOnFile` and `PublishedRunnerIsAdopted` except
  the runners in `displaced`. The first and the third also except those that a
  replaced manager had just spawned or was about to kill (`Forgotten`): nothing on
  disk names those.
* `SavedIsPrepared` excepts venvs that somebody deleted, wholly or half;
  `EveryChangeIsNamed` the half of "server" that an edit did not name.
* `RestartsItsOwnFailures` is about instances that nobody else stopped, and
  `RunnerIsOnItsPort` about those whose start nobody repeats.
* `StoppedLeavesNothing` excepts a watchdog that swallowed its cancel;
  `NoneIsForgotten` the two ways that lose a session manager.
* `StopWritesTheQueue` excepts the batch in the flusher's thread, what a kill took and
  what the database refused; `LinksOpen` a rotation under a living runner.

Every component module states its `TypeOK`, for the reader; no run spends a property
on it. That of RunnerLifecycle and of ApiLockout are proved, because the other proofs
there begin with them, and the invariants of the other `*Proofs` modules say as much of
the types as their proofs need.

## Bounds and fairness

* *Calls.* One instance and, in `lifecycle_calls`, two starts, a stop, a delete and a
  reinstall give every pair of actors, and every triple that contends for the start
  lock, the number and the pid; to displace a runner takes two starts and at most a
  reinstall, a death and a pass of the watchdog. A restart, which is a stop and then a start under one
  call, is in `lifecycle_all`. More instances add nothing: they share only
  `pids.json`, whose updates are atomic under `_pids_lock`. `MaxManagerRestarts` is 1
  in the first run and 0 in the second.
* *Requests.* `AtMostMaxRequests` in MCConfigChanges lets three requests be made
  in a behaviour, the migration counted as one, in all combinations; a lost update
  needs two, and a delete and a create in the middle of an edit, three. One package and two venvs
  suffice to tell an installed from a missing list, and the right venv from the
  wrong.
* *Health.* Waits of 3 and 4 intervals are longer than the two failures that a restart
  answers, so they bind; three restarts reach the cap; `MaxTime = 18` leaves room for
  the forgiveness after `ResetAfter = 12` healthy intervals and what follows it. They
  keep the order of the real 1, 5 and 30 minutes, not their ratio. The third entry of
  `RESTART_BACKOFF` is left out: the cap of three comes before it is ever asked, though
  `health.py:34` speaks of a wait after the third restart.
* *Ports.* Three instances on four ports, of which the settings may take one and
  another program another: fewer ports than claims.
* *Listeners.* Two ports, so that a listener can move and one can be the last;
  one settings request beside the watchdog, one stream, two troubles.
* *Sessions.* One category, whose session manager is started up to three times by
  three requests around one wind-down. Categories share only the lock.
* *Access.* One runner, one person with an address and a role, one agent, three
  saved policies that differ in default, roles, personal entries and matching, one
  that only an editor can leave (in which two entries give the address and the name
  decides), one in a backup; two writes of the file, two tokens.
* *Lockout.* One address, since addresses share nothing, and two requests. The
  clock runs to 8 with a first wait of 1 and a forgetting time of 1: three blocks,
  waits served and not, and a quiet after them. The exponent of the doubling is capped
  from the fourth block on, which the run does not reach; `LockoutEscalates` covers it,
  having no bounds.
* *Content.* Two names, quota two, three days, one sweep, one call at a time, two
  secrets (three where one is rotated). `BurstOrFiles` in MCToolCalls explores
  bursts of calls with an empty folder and the folder with one call that is
  written; log and store touch each other in nothing but the days and the calls.
* *Fairness.* In `lifecycle_all` a thread that was handed a call goes
  on (every wait in `process_manager.py` has a timeout, and the start lock is
  held over nothing unbounded); an install that was begun ends; the watchdog
  loop runs every ten seconds. Weak fairness of each call's steps taken
  together, of the end of a reinstall, and of the watchdog says no more. In
  `public_ports` and `category_sessions` an event loop takes ready tasks in turn:
  strong fairness of a task's resuming, because others hold the loop in between,
  and weak fairness of a task that holds it. In `content_storage` likewise for the
  flusher, with weak fairness of its threads and of an answer being made. Nobody
  has to make a call, no runner has to die, nobody has to close a port.
* *Deadlock* is not checked: each behaviour ends when its finite stock of calls,
  requests or time is used up.

## What is proved

TLAPS checks these for every value of the constants that the modules' `ASSUME`s
admit: any number of calls, requests, instances, ports, categories, sweeps and
files. The assumptions are typing and the distinctness of the names that model "nothing"
(`None` is no port, no task, no secret), beyond which there are two that say
something: `Provenance` of AccessControl, that no person's token and no machine
credential is an agent's, and in HealthMonitor that the table of waits grows.
No proof uses that the delays of ApiLockout double.

* `RunnerLifecycleProofs`, with everything in the model (watchdog, deletes,
  reinstalls, checks of two reads, managers in turn) and no hypothesis:
  `TypeCorrect`, `SpawnExclusive`, `NoRunnerOfAFailedStart`, `StoppedIsDead`,
  `CurrentStartStaysRegistered`, `RunningStaysOnFile`, `RunningIsAdopted`,
  `NoRunnerIsOrphaned`, `ConfirmedStopHolds` and `OneServesAtATime`. The inductive
  invariant `BaseInv` adds to the types which kinds of calls can stand where: without
  that, a stop could hold the start lock. `ProcInv` says where a process can be in the
  life of the call that spawned it, `GenInv` that numbers are unique and only grow, and
  that what a stop read is dead once it went on. On these rests `ServeInv`: what serves
  is what `pid` and pids.json name, a start that waits with the latest number is
  registered, and a stop that still speaks for the instance has left nothing there;
  each of the three up to `displaced`, which only the unasked writes enlarge. So
  the theorems say that nothing but those writes ever loses a runner.
* `OneServesAtATime`: every step of RunnerLifecycle is a step of OneRunner or none.
  It goes action by action, from `ServeInv`: whoever begins to serve is registered in
  that step, and whoever served before is dead, displaced, or in somebody's hands.
* The same module holds the health monitor's theorems. `RestartsWait`: of the restarts
  of an instance, all but the last `e.restarts` lie behind a forgiveness, and the last
  one is `e.last_restart` (`Tells`); so the wait that the entry demands is the wait
  that the history shows. `RestartsAreEarned`: the failures counted for an instance
  that nobody stopped are at most those of its runner (`OwnInv`).
* `ConfigChangesProofs`. `CreateOverwritesNothing` and `ToolFileIsThere`: whoever is
  creating holds the id, and an id that is held has no config. `LocksAreGivenBack`:
  who holds the lock and who holds the id are the requests under way, so there is
  one at a time (`HeldInv`). `LockProtects` and `ChangesAreNamed` compare each commit
  with what its request read and was asked for (`KindInv`: read and asked as its
  route does), with the one exception that `NamesOtherHalf` states. `ConfigsArePrepared`: between the end of an install and the commit,
  what the request will write is in the venv it will write, or somebody deleted that
  venv, or began to (`ReadyInv`). That is inductive because packages leave a venv only
  through a delete of it.
* `PortAllocationProofs`: `ReservationsAreDistinct`; `RunnerStaysOnItsPort` from
  an invariant about the instances that are left alone.
* `PublicPortsProofs`. `ServersAreKnown` and `EntriesHaveAClient` need where each task
  stands with the port it is starting or stopping (`TasksInv`): a task between the
  entry and the bind owns both. `SwitchedOffStreamsEnd`: only a client carries
  streams, and whoever switches off has not answered before it closes the client.
  `NothingIsLeft`: once the watchdog has ended the shutdown is alone; what is in the
  table is on its list, which nobody adds to (`ShutdownInv`). It says nothing of a
  watchdog that swallowed its cancel.
* `CategorySessionsProofs`. `SessionsAlways`: the lock is held by the one request
  that waits for a task, and that task is the newest. `MapIsAlive` follows task by
  task: it takes itself out of the map before it ends. `NothingForgotten`: what is
  up and was not told to stop is in the map or on the list of a wind-down, unless
  `slow` or `lost` said otherwise (`Reachable`).
* `AccessControlProofs`. `BansHold`, `CallersAreKnown`, `AgentsCountAsTheyAre`. A call is followed stage by stage (`CallInv`: what a call
  carries at each stage, and that what others write while it runs is added to what
  it may have seen); `BanInv` says what is excluded once the second read is behind
  it, `CallerInv` that the identity it carries is the one its token proved.
  `DecisionsAreOfTheirTime`: what each read left in the call is what some version of
  the file says that stood during the call (`DecisionInv`), so an answer is the one
  `allowed_tools` computes from such versions. It implies `BansHold`, and that a call
  which meets no write is decided by the file as it is
  (`UndisturbedDecisionsAreWhole`). The rules themselves are never expanded: all this
  holds whatever a policy says. It rests on the model's reading of the cache key: two
  versions of a file differ in their mtime (in nanoseconds) or size.
* `ApiLockoutProofs`: `TypeCorrect`, whose last conjunct (a record has at least
  one failure or doubling) the refinement needs: an empty record would be a strike
  count of zero with a time; `LockoutEscalates`, that every step of the lockout is a
  step of AttemptLimiter or none, for every number of addresses and requests and
  every table of delays; and `GuessesAlone`, by the invariant itself, from the
  refinement: one failure is at most one strike more (`OneStrikeMore`).
* `ToolCallsProofs`. `EveryLinkOpens`, if runners do not live on while the secret is
  taken away (`KeepRunners`; with it TLC refutes the sharing of one secret, see
  `secret_race`): while a runner lives the file holds a secret, and whoever has one
  has that one; so each step of `ensure_secret` that writes is taken only while
  nobody has any (`SecretInv`). `OneSecretIsShared`, under the same hypothesis: every
  step is one of SharedSecret (a first choice, the learning of what was chosen, a
  signature, a loss) or none (`SharedStep`). `SweepsEmptyFolders`: what is present is
  still to go, or was written since, or was stuck (`SweepInv`). `QueueIsWritten`: every call is in the
  totals, in the queue, with a thread or among those excepted, and those of a day in
  the window likewise among the events (`LogInv`); `OnSplit` is the lemma that a batch and the rest of the
  queue are the queue.

Only model-checked: the liveness properties (`CallsReturn` of two modules,
`StatusSettles`, `DeathIsNoticed`, `PortsSettle`, `RecordedIsWritten`), since liveness
and ENABLED are beyond this prover. Every safety invariant, action property and
refinement of a passing run is proved.

## Known flaws

Beside the two above, modelling met these. They have no run of their own. Where a
property of a passing run names an exception ([The runs](#the-runs)), its model
contains the steps that lead to it; what a model leaves out is said at the flaw.

Process manager and installs:

* `process_manager.py:332`: the check of the status reads it twice without the lock
  under which it is published; a start that publishes in between passes both tests,
  and a second runner replaces a live one, which nobody tracks from then on.
  `process_manager.py:25-31` says that the spawn lock closes exactly this.
* `process_manager.py:325`: a start during a reinstall sees "installing" and spawns
  a second runner beside the one the reinstall will show as running.
* `process_manager.py:298`: the watchdog reads pid and status, reads a log, and
  demotes without asking again, also the runner that replaced the dead one: that one
  lives on and is on no file.
* `routes/instances.py:571`: a delete whose stop was overtaken by a newer start
  removes config and state under that start's runner.
* `admin_server.py:135`: the specs migration writes a whole tool file back as it
  read it before validating, over code that was saved meanwhile.
* `routes/venvs.py:48`: a venv that only a request under way uses can be deleted,
  and becomes the venv of the config when that request commits. A delete that fails
  half way (`venv_manager.py:224-228`) answers 500 and leaves the venv with a part of
  its packages.
* `health.py:213`: the restart is for the runner that was probed, and hits whatever
  runs by then; the spawn lock orders, it does not ask again.
* `routes/instances.py:392`: a second click on start, while the first one's runner is
  bound but not published, finds the own port busy and reassigns it.

* `routes/tools.py:284`: the reinstall restores "running" although a stop ended
  the runner during the install; status running without a pid is skipped by the
  watchdog (`process_manager.py:292`) and stays.
* `routes/instances.py:319-324`: an edit that names only the host writes the port it
  read before its install over one a start reassigned, where the comment at `:291-295`
  says that only the fields named are set.
* `routes/instances.py:571`: the delete takes no `instance_lock`, and deletes an
  instance that was locked while the stop was awaited.
* `health.py:225`: a stop and a start between two passes are not seen; the old
  runner's failures count against the new one. `forget()` has no caller.
* `config_store.py:170-205`: only `reserve_port` looks at reservations. A start,
  an edit, a restore or the settings (`routes/settings.py:332`) can take a port
  that an install holds, and the install then saves it a second time.
* `process_manager.py:369`: `open(log_path)` is outside every `try` of
  `start_instance`; if it raises, the status stays "starting". The model leaves
  this exception out, and `StatusSettles` holds only without it.

Ports and sessions:

* `routes/settings.py:361`: a request whose port cannot be bound puts back the ports
  it read before its awaits, over those another request has set meanwhile.
* `api_helpers.py:411`: a rebind lists what is running and restarts it one after the
  other: an instance that is starting keeps the address it read, and one that a
  person stopped meanwhile is started again.
* `shared_proxy.py:487`: the list of listeners to stop is made before the first
  await; one that is wanted again by then is taken down, until the next sync.
* `shared_proxy.py:450-457`: a cancel that reaches the watchdog while it waits for a
  server to end cancels that server's task, and is then taken for the task's own: the
  watchdog goes on beside `stop_proxy` (`admin_server.py:31-44`), and may bind a
  listener after it.
* `category_endpoint.py:386` and `429`: a `_serve` task that ends takes out whatever
  serves its category, and `stop_all` empties the map over what was started during
  its awaits; the session manager that is lost lives until the manager ends.

Access:

* `policy.py:277-285`: the three reads of one decision may see different files; a
  caller who is banned in between, and was not let in by everything before, can get
  all tools from a relaxed default that was read first.
* `policy.py:212-216`: a personal entry that lists instances narrows a role of "*",
  where `docs/reference.md:441` says entries add up.
* `routes/permissions.py:132-142`: the reset changes the cached policy before saving
  it; if the save is refused the manager goes on showing the change. `:180`: a PUT
  writes whatever the dialog loaded over what was saved since. `:190-217`: the
  preview ignores a relaxed default. `agent_identity.py:320-324` changes cached
  records before saving too.
* `identity_registry.py:151`: a caller who was forgotten does not reappear for as
  long as the write is throttled (60 s).
* `backup.py:338`: a restored policy loses `match_name`.
* `backup.py:372-384`: a restore adds an entry for an id that has none, and such an
  entry comes before one that is found by e-mail (`policy.py:233-268`): a person whom
  the rules ban by address is let in by the archive's older entry, although `:43-44`
  says that nothing can be lost by a restore.

Usage:

* `activity.py:139-142`: the flush at a stop drains the queue and does not wait for the
  batch that the flusher has in a thread. uvicorn raises the SIGTERM again once it has
  served, which ends the process without joining that thread: its batch is lost,
  although `mcp_runner.py:444-447` flushes so that a stop does not "silently drop the
  last calls".

Content:

* `content_store.py:448-464`: a file that is rewritten between the look and the
  unlink is deleted although it is fresh; a manager that is killed in the middle of
  a whole folder leaves half of it.
* A runner that survives a rotation of the secret goes on signing with the old one,
  also when the file is deleted while the manager runs, the order that
  `content_store.py:55-56` names. Not in the model: its rotation (`LoseKey`) comes
  while the manager is down and hits a runner that has not read the secret yet.
* `routes/content.py:65-68`: a file that vanishes between look and unlink is answered
  500, not 404.

## What is not modelled

Parsing and generating tool code and schemas, secrets handling, system statistics,
logs, the web UI and deployment files: pure transformations, presentation or I/O.
Forwarding an MCP request, and what a tool does, is the tool's. Which tools a
category shows is a pure merge of lists. Path checks (`resolve_file`) and
signatures are taken as correct, and a disk that refuses to replace a damaged
secret is left out. Of a restore, the settings, the content key and
the report are left out; of an archive, its making. The update check is one request and one answer. Field validation
inside a request body is abstracted to "the body names these fields". Process ids
are unique: recovery's protection against a reused pid (the instance id in the
command line) is not put to the test.

## Plan

Done: RunnerLifecycle with OneRunner, ConfigChanges, HealthMonitor, PortAllocation,
PublicPorts, CategorySessions, AccessControl, AttemptLimiter with ApiLockout,
ContentStore, SharedSecret and UsageLog with ToolCalls; a theorem for every property of
a passing run that is not a liveness property. Next, the most important first:

1. An abstract specification of PublicPorts, a map from port to owner that follows
   the settings, and the refinement.
2. **Restore** (`backup.py`) as one sequence over instances, settings, agents, policy
   and content key that may stop anywhere; its parts are in three modules now.
