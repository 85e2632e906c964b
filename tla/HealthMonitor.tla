---------------------------- MODULE HealthMonitor ----------------------------
(***************************************************************************)
(* The health check of the manager (app/health.py): one loop that probes   *)
(* every running instance, keeps a history per instance and, reluctantly,  *)
(* restarts what does not answer.  A pass probes several instances at      *)
(* once; what it records of them is serialised by one asyncio lock, which  *)
(* is held over the restart.  Meanwhile people stop and start instances.   *)
(*                                                                         *)
(* What an instance does is RunnerLifecycle's subject; of it this module   *)
(* keeps the status and which runner it is, by number.  The unit of time   *)
(* is HEALTH_INTERVAL.                                                     *)
(***************************************************************************)
EXTENDS Naturals, Sequences

CONSTANTS
  Instances,
  FailuresBefore,  \* failures in a row before a restart
  MaxRestarts,     \* per instance, until it has been healthy again
  Backoff,         \* Backoff[n]: how long to wait after n restarts
  ResetAfter,      \* how long it must stay healthy to be forgiven its restarts
  MaxTime,         \* bound: how far the clock goes
  MaxStops,        \* bound: how often people stop an instance
  Nothing          \* no history, no runner, no instance

\* The history of an instance.
History == [failures: Nat, restarts: Nat, last_restart: Nat, healthy_since: Nat]

ASSUME Settings ==
  /\ FailuresBefore \in 1..20 /\ MaxRestarts \in Nat \ {0}
  /\ Backoff \in Seq(Nat) /\ Len(Backoff) >= 1
  /\ \A m, n \in 1..Len(Backoff) : m <= n => Backoff[m] <= Backoff[n]
  /\ ResetAfter \in Nat /\ \A n \in 1..Len(Backoff) : Backoff[n] <= ResetAfter
  /\ Nothing \notin Instances \cup History

VARIABLES
  clock,
  statusOf,    \* the status of an instance
  runner,      \* the number of its current or last runner
  stops,       \* how often people stopped it
  health,      \* _health: the history of an instance, or Nothing
  probed,      \* in a pass: the runner that was sent a probe, until it is recorded
  restarting,  \* the instance whose restart the pass awaits, or Nothing
  nextPass,    \* not before this time does the next pass begin
  restartsOf,  \* when the monitor restarted it, in this run of it
  failuresOf   \* failed probes in a row of this runner

healthVars == <<clock, statusOf, runner, stops, health, probed, restarting, nextPass,
                restartsOf, failuresOf>>

Unknown == [failures |-> 0, restarts |-> 0, last_restart |-> 0, healthy_since |-> 0]

\* Time starts at 1: the code takes 0.0 for "never".
HealthInit ==
  /\ clock = 1 /\ nextPass = 2
  /\ statusOf = [i \in Instances |-> "running"]
  /\ runner = [i \in Instances |-> 1]
  /\ stops = [i \in Instances |-> 0]
  /\ health = [i \in Instances |-> Nothing]
  /\ probed = [i \in Instances |-> Nothing]
  /\ restarting = Nothing
  /\ restartsOf = [i \in Instances |-> <<>>]
  /\ failuresOf = [i \in Instances |-> 0]

Tick == /\ clock < MaxTime /\ clock' = clock + 1
        /\ UNCHANGED <<statusOf, runner, stops, health, probed, restarting, nextPass,
                       restartsOf, failuresOf>>

-----------------------------------------------------------------------------
(***************************************************************************)
(* One pass                                                                *)
(***************************************************************************)

\* check_once: forget what does not run, probe what runs and is not starting.
BeginPass ==
  /\ clock >= nextPass
  /\ restarting = Nothing /\ \A i \in Instances : probed[i] = Nothing
  /\ health' = [i \in Instances |->
       IF statusOf[i] \in {"running", "starting"} THEN health[i] ELSE Nothing]
  /\ probed' = [i \in Instances |-> IF statusOf[i] = "running" THEN runner[i] ELSE Nothing]
  /\ nextPass' = clock + 1
  /\ UNCHANGED <<clock, statusOf, runner, stops, restarting, restartsOf, failuresOf>>

\* A probe returned and _record got the lock.  The sleep starts anew when the
\* last one is done.
Recorded(i) ==
  /\ probed[i] # Nothing /\ restarting = Nothing
  /\ probed' = [probed EXCEPT ![i] = Nothing]
  /\ nextPass' = clock + 1
  /\ UNCHANGED <<clock, statusOf, runner, stops>>

Entry(i) == IF health[i] = Nothing THEN Unknown ELSE health[i]

\* Forgiven only after a stretch of good behaviour.
Forgive(e) ==
  IF e.restarts > 0 /\ clock - e.healthy_since >= ResetAfter
    THEN [e EXCEPT !.restarts = 0, !.last_restart = 0] ELSE e

RecordHealthy(i) ==
  /\ Recorded(i)
  /\ LET e == [Entry(i) EXCEPT !.failures = 0]
     IN health' = [health EXCEPT ![i] = IF e.healthy_since = 0
                                          THEN [e EXCEPT !.healthy_since = clock] ELSE Forgive(e)]
  /\ failuresOf' = [failuresOf EXCEPT ![i] = 0]
  /\ UNCHANGED <<restarting, restartsOf>>

\* How long to wait after n restarts.
Wait(n) == Backoff[IF n > Len(Backoff) THEN Len(Backoff) ELSE IF n = 0 THEN 1 ELSE n]

\* Fault: the wait does not grow with the restarts.
RestartAllowedFlat(e) ==
  /\ e.restarts < MaxRestarts
  /\ e.last_restart = 0 \/ clock - e.last_restart >= Wait(1)

RestartAllowed(e) ==
  /\ e.restarts < MaxRestarts
  /\ e.last_restart = 0 \/ clock - e.last_restart >= Wait(e.restarts)

Failed(i) == [Entry(i) EXCEPT !.failures = @ + 1, !.healthy_since = 0]

\* autorestart() is asked each time, and people switch it on and off.
RecordFailure(i) ==
  /\ Recorded(i)
  /\ health' = [health EXCEPT ![i] = Failed(i)]
  /\ failuresOf' = [failuresOf EXCEPT ![i] = IF probed[i] = runner[i] THEN @ + 1 ELSE @]
  /\ UNCHANGED <<restarting, restartsOf>>

\* Fault: the failures that led to a restart are not struck off.
MarkedUnreset(e) == [e EXCEPT !.restarts = @ + 1, !.last_restart = clock]

Marked(e) == [e EXCEPT !.restarts = @ + 1, !.last_restart = clock, !.failures = 0]

\* The entry is written before the restart is awaited, under the lock.
RecordAndRestart(i) ==
  /\ Recorded(i)
  /\ Failed(i).failures >= FailuresBefore /\ RestartAllowed(Failed(i))
  /\ health' = [health EXCEPT ![i] = Marked(Failed(i))]
  /\ failuresOf' = [failuresOf EXCEPT ![i] = IF probed[i] = runner[i] THEN @ + 1 ELSE @]
  /\ restarting' = i
  /\ restartsOf' = [restartsOf EXCEPT ![i] = Append(@, clock)]

\* restart_instance returned: a new runner, or an error.
RestartEnds(i) ==
  /\ restarting = i /\ restarting' = Nothing
  /\ nextPass' = clock + 1
  /\ \/ /\ statusOf' = [statusOf EXCEPT ![i] = "running"]
        /\ runner' = [runner EXCEPT ![i] = @ + 1]
        /\ UNCHANGED restartsOf
     \/ /\ statusOf' = [statusOf EXCEPT ![i] = "stopped"]
        /\ restartsOf' = [restartsOf EXCEPT ![i] = <<>>]
        /\ UNCHANGED runner
  /\ failuresOf' = [failuresOf EXCEPT ![i] = 0]
  /\ UNCHANGED <<clock, stops, health, probed>>

-----------------------------------------------------------------------------
(***************************************************************************)
(* Meanwhile                                                               *)
(***************************************************************************)

\* Somebody stops it, or the watchdog finds it dead.
SomebodyStops(i) ==
  /\ statusOf[i] = "running" /\ stops[i] < MaxStops
  /\ statusOf' = [statusOf EXCEPT ![i] = "stopped"]
  /\ stops' = [stops EXCEPT ![i] = @ + 1]
  /\ restartsOf' = [restartsOf EXCEPT ![i] = <<>>]
  /\ failuresOf' = [failuresOf EXCEPT ![i] = 0]
  /\ UNCHANGED <<clock, runner, health, probed, restarting, nextPass>>

StartBegins(i) ==
  /\ statusOf[i] = "stopped"
  /\ statusOf' = [statusOf EXCEPT ![i] = "starting"]
  /\ UNCHANGED <<clock, runner, stops, health, probed, restarting, nextPass, restartsOf, failuresOf>>

StartEnds(i) ==
  /\ statusOf[i] = "starting"
  /\ \/ /\ statusOf' = [statusOf EXCEPT ![i] = "running"]
        /\ runner' = [runner EXCEPT ![i] = @ + 1]
     \/ statusOf' = [statusOf EXCEPT ![i] = "stopped"] /\ UNCHANGED runner
  /\ UNCHANGED <<clock, stops, health, probed, restarting, nextPass, restartsOf, failuresOf>>

HealthNext ==
  \/ Tick \/ BeginPass
  \/ \E i \in Instances :
       \/ RecordHealthy(i) \/ RecordFailure(i) \/ RecordAndRestart(i) \/ RestartEnds(i)
       \/ SomebodyStops(i) \/ StartBegins(i) \/ StartEnds(i)

HealthSpec == HealthInit /\ [][HealthNext]_healthVars
-----------------------------------------------------------------------------
(***************************************************************************)
(* Properties                                                              *)
(***************************************************************************)

HealthTypeOK ==
  /\ clock \in 1..MaxTime /\ nextPass \in 2..MaxTime + 1
  /\ statusOf \in [Instances -> {"running", "starting", "stopped"}]
  /\ runner \in [Instances -> Nat \ {0}]
  /\ stops \in [Instances -> 0..MaxStops]
  /\ health \in [Instances -> History \cup {Nothing}]
  /\ probed \in [Instances -> Nat \cup {Nothing}]
  /\ restarting \in Instances \cup {Nothing}
  /\ restartsOf \in [Instances -> Seq(1..MaxTime)]
  /\ failuresOf \in [Instances -> Nat]

\* "A hard cap per instance, and a growing wait in between", and forgiveness only
\* after a stretch of good behaviour: of an instance that people leave alone, any
\* two restarts j and k, k - j apart, either have the time between them that
\* forgiveness takes, or are within the cap and the last one has waited as long
\* as the table says for that many.
RestartsAreReluctant ==
  \A i \in Instances : \A k \in DOMAIN restartsOf[i] : \A j \in 1..k - 1 :
    LET at == restartsOf[i] IN
    \/ at[k] - at[j] >= ResetAfter
    \/ k - j < MaxRestarts /\ at[k] - at[k - 1] >= Wait(k - j)

\* "A number of consecutive failures before the first restart", and before every
\* later one: as long as nobody else has stopped the instance, a runner is
\* restarted only after as many failures of its own.
RestartsItsOwnFailures ==
  [][\A i \in Instances : stops[i] = 0 /\ Len(restartsOf'[i]) > Len(restartsOf[i]) =>
       failuresOf'[i] >= FailuresBefore]_healthVars
=============================================================================
