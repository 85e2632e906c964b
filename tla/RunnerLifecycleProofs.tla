------------------------ MODULE RunnerLifecycleProofs ------------------------
(***************************************************************************)
(* What holds of RunnerLifecycle for every set of calls, and of the health *)
(* monitor, which makes some of them, for every number of instances.       *)
(***************************************************************************)
EXTENDS RunnerLifecycle, HealthMonitor, Sequences, TLAPS

USE ConstantsAssumption DEF Calls, Spawners

StartLabels == {"start", "acquire", "exited", "giveup"} \cup Holding \cup Waiting
StopLabels  == {"stop", "kill", "survived", "finish"}

\* Only start and restart calls execute start_instance, all calls but the starts
\* execute stop_instance, only deletes delete.
Kinds ==
  \A c \in Calls :
    /\ pc[c] \in StartLabels => c \in Spawners
    /\ pc[c] \in StopLabels => c \notin Starts
    /\ pc[c] \in {"delete_stop", "delete"} => c \in Deletes

BaseInv == TypeOK /\ Kinds /\ OneSpawnAtATime

LEMMA BaseInit == Init => BaseInv
  BY DEF Init, BaseInv, TypeOK, Kinds, OneSpawnAtATime, Status, ProcState, Outcomes, Refusals,
         InFlight, Holding, Waiting, StartLabels, StopLabels

\* Types and kinds are kept by every step.
LEMMA BaseStep == BaseInv /\ [Next]_vars => BaseInv'
<1> SUFFICES ASSUME BaseInv, [Next]_vars PROVE BaseInv'
  OBVIOUS
<1> USE DEF BaseInv, TypeOK, Kinds, OneSpawnAtATime, Status, ProcState, Outcomes, Refusals,
            InFlight, Holding, Waiting, StartLabels, StopLabels, Goto, Record, Claim, instVars, sideVars, callVars
<1>1. ASSUME NEW c \in Calls, StartCalled(c) PROVE BaseInv'
  BY <1>1 DEF StartCalled
<1>2. ASSUME NEW c \in Calls, AcquireStartLock(c) PROVE BaseInv'
  BY <1>2 DEF AcquireStartLock
<1>3. ASSUME NEW c \in Calls, Refuse(c) PROVE BaseInv'
  BY <1>3 DEF Refuse
<1>4. ASSUME NEW c \in Calls, PassCheck(c) PROVE BaseInv'
  <2>1. displaced' \subseteq Spawners
    BY <1>4 DEF PassCheck, Displaces, IsRunner
  <2>. QED
    BY <1>4, <2>1 DEF PassCheck
<1>5. ASSUME NEW c \in Calls, PassFirstTest(c) PROVE BaseInv'
  BY <1>5 DEF PassFirstTest
<1>6. ASSUME NEW c \in Calls, ClaimStart(c) PROVE BaseInv'
  BY <1>6 DEF ClaimStart
<1>7. ASSUME NEW c \in Calls, VenvReady(c) PROVE BaseInv'
  BY <1>7 DEF VenvReady
<1>8. ASSUME NEW c \in Calls, VenvFails(c) PROVE BaseInv'
  BY <1>8 DEF VenvFails
<1>9. ASSUME NEW c \in Calls, Spawn(c) PROVE BaseInv'
  BY <1>9 DEF Spawn
<1>10. ASSUME NEW c \in Calls, SpawnSuperseded(c) PROVE BaseInv'
  BY <1>10 DEF SpawnSuperseded
<1>11. ASSUME NEW c \in Calls, SpawnFails(c) PROVE BaseInv'
  BY <1>11 DEF SpawnFails
<1>12. ASSUME NEW c \in Calls, WaitSuperseded(c) PROVE BaseInv'
  BY <1>12 DEF WaitSuperseded
<1>13. ASSUME NEW c \in Calls, WaitExited(c) PROVE BaseInv'
  BY <1>13 DEF WaitExited
<1>14. ASSUME NEW c \in Calls, WaitEnds(c) PROVE BaseInv'
  BY <1>14 DEF WaitEnds
<1>15. ASSUME NEW c \in Calls, RecordExit(c) PROVE BaseInv'
  <2>1. CASE Current(c)
    BY <1>15, <2>1 DEF RecordExit
  <2>2. CASE ~Current(c)
    BY <1>15, <2>2 DEF RecordExit
  <2> QED
    BY <2>1, <2>2
<1>16. ASSUME NEW c \in Calls, Publish(c) PROVE BaseInv'
  <2>1. displaced' \subseteq Spawners
    BY <1>16 DEF Publish, Displaces, IsRunner
  <2>2. CASE Current(c)
    BY <1>16, <2>1, <2>2 DEF Publish
  <2>3. CASE ~Current(c)
    BY <1>16, <2>1, <2>3 DEF Publish
  <2> QED
    BY <2>2, <2>3
<1>17. ASSUME NEW c \in Calls, GiveUp(c) PROVE BaseInv'
  BY <1>17 DEF GiveUp
<1>18. ASSUME NEW c \in Calls, StopCalled(c) PROVE BaseInv'
  BY <1>18 DEF StopCalled
<1>19. ASSUME NEW c \in Calls, ClaimStop(c) PROVE BaseInv'
  BY <1>19 DEF ClaimStop
<1>20. ASSUME NEW c \in Calls, Kill(c) PROVE BaseInv'
  BY <1>20 DEF Kill
<1>21. ASSUME NEW c \in Calls, StopFails(c) PROVE BaseInv'
  <2>1. CASE Current(c)
    BY <1>21, <2>1 DEF StopFails
  <2>2. CASE ~Current(c)
    BY <1>21, <2>2 DEF StopFails
  <2> QED
    BY <2>1, <2>2
<1>22. ASSUME NEW c \in Calls, FinishStop(c) PROVE BaseInv'
  <2>1. CASE Current(c)
    BY <1>22, <2>1 DEF FinishStop, AfterStop
  <2>2. CASE ~Current(c)
    BY <1>22, <2>2 DEF FinishStop, AfterStop
  <2> QED
    BY <2>1, <2>2
<1>23. ASSUME NEW c \in Calls, DeleteCalled(c) PROVE BaseInv'
  <2>0. c \in Deletes /\ pc[c] = "idle"
        /\ UNCHANGED <<status, pid, reinstall, watchdog, restarts, displaced, pidsFile, generation,
                       startLock, proc, gen, target>>
    BY <1>23 DEF DeleteCalled
  <2>1. CASE pc' = [pc EXCEPT ![c] = "delete_stop"] /\ UNCHANGED <<config, inState>>
    BY <2>0, <2>1
  <2>2. CASE RemoveConfig(c)
    <3>1. pc' = [pc EXCEPT ![c] = "deleted"] \/ pc' = [pc EXCEPT ![c] = "refused"]
      BY <2>2 DEF RemoveConfig
    <3>2. config' \in BOOLEAN /\ inState' \in BOOLEAN
      BY <2>2 DEF RemoveConfig
    <3> QED
      <4>1. CASE pc' = [pc EXCEPT ![c] = "deleted"]
        BY <2>0, <3>2, <4>1
      <4>2. CASE pc' = [pc EXCEPT ![c] = "refused"]
        BY <2>0, <3>2, <4>2
      <4> QED
        BY <3>1, <4>1, <4>2
  <2>3. \/ pc' = [pc EXCEPT ![c] = "delete_stop"] /\ UNCHANGED <<config, inState>>
        \/ RemoveConfig(c)
    BY <1>23 DEF DeleteCalled
  <2> QED
    BY <2>1, <2>2, <2>3
<1>24. ASSUME NEW c \in Calls, DeleteAfterStop(c) PROVE BaseInv'
  <2>0. pc[c] = "delete"
        /\ UNCHANGED <<status, pid, reinstall, watchdog, restarts, displaced, pidsFile, generation,
                       startLock, proc, gen, target>>
    BY <1>24 DEF DeleteAfterStop
  <2>1. pc' = [pc EXCEPT ![c] = "deleted"] \/ pc' = [pc EXCEPT ![c] = "refused"]
    BY <1>24 DEF DeleteAfterStop, RemoveConfig
  <2>2. config' \in BOOLEAN /\ inState' \in BOOLEAN
    BY <1>24 DEF DeleteAfterStop, RemoveConfig
  <2>3. CASE pc' = [pc EXCEPT ![c] = "deleted"]
    BY <2>0, <2>2, <2>3
  <2>4. CASE pc' = [pc EXCEPT ![c] = "refused"]
    BY <2>0, <2>2, <2>4
  <2> QED
    BY <2>1, <2>3, <2>4
<1>25. ASSUME NEW r \in Reinstalls, ReinstallBegins(r) PROVE BaseInv'
  BY <1>25 DEF ReinstallBegins
<1>26. ASSUME NEW r \in Reinstalls, ReinstallEnds(r) PROVE BaseInv'
  <2>1. displaced' \subseteq Spawners
    BY <1>26 DEF ReinstallEnds, Displaces, IsRunner
  <2>. QED
    BY <1>26, <2>1 DEF ReinstallEnds
<1>27. CASE WatchdogSees
  BY <1>27 DEF WatchdogSees
<1>28. CASE WatchdogDemotes
  <2>1. displaced' \subseteq Spawners
    BY <1>28 DEF WatchdogDemotes, Displaces, IsRunner
  <2>. QED
    BY <1>28, <2>1 DEF WatchdogDemotes
<1>29. CASE WatchdogDrops
  <2>1. displaced' \subseteq Spawners
    BY <1>29 DEF WatchdogDrops, Displaces, IsRunner
  <2>. QED
    BY <1>29, <2>1 DEF WatchdogDrops
<1>30. ASSUME NEW p \in Spawners, RunnerDies(p) PROVE BaseInv'
  BY <1>30 DEF RunnerDies
<1>31. CASE ManagerRestarts
  BY <1>31 DEF ManagerRestarts, IsRunner
<1>32. CASE UNCHANGED vars
  BY <1>32 DEF vars
<1> QED
  BY <1>1, <1>2, <1>3, <1>4, <1>5, <1>6, <1>7, <1>8, <1>9, <1>10, <1>11, <1>12,
     <1>13, <1>14, <1>15, <1>16, <1>17, <1>18, <1>19, <1>20, <1>21, <1>22, <1>23, <1>24,
     <1>25, <1>26, <1>27, <1>28, <1>29, <1>30, <1>31, <1>32
     DEF Next, StartStep, StopStep, WatchdogStep

LEMMA BaseInvariant == Spec => []BaseInv
  BY BaseInit, BaseStep, PTL DEF Spec

\* Every variable keeps its type, whatever calls, deaths and restarts of the
\* manager come in which order.
THEOREM TypeCorrect == Spec => []TypeOK
  BY BaseInvariant, PTL DEF BaseInv

\* At most one start of the instance is between its check and its spawn, and it
\* holds the start lock of process_manager.py while it is there.
THEOREM SpawnExclusive == Spec => []OneSpawnAtATime
  BY BaseInvariant, PTL DEF BaseInv

-----------------------------------------------------------------------------
(***************************************************************************)
(* Processes                                                               *)
(***************************************************************************)

\* A call that has not come to its spawn has no process.
NotYetSpawned ==
  \A c \in Spawners :
    pc[c] \in {"idle", "start", "acquire"} \cup Holding \cup StopLabels => proc[c] = "none"

WaitingIsSpawned ==
  \A c \in Spawners : pc[c] \in Waiting \cup {"exited", "giveup"} => proc[c] # "none"

\* What is written down as a process was spawned.
KnownAreSpawned ==
  /\ pid # None => proc[pid] # "none"
  /\ pidsFile # None => proc[pidsFile] # "none"
  /\ \A c \in Calls : target[c] # None => proc[target[c]] # "none"
  /\ \A c \in Calls : pc[c] = "kill" => target[c] # None

ExitedIsGone == \A c \in Spawners : pc[c] = "exited" => proc[c] = "gone"

\* The process a stop has read lives at most until the stop has dealt with it.
StopTargets ==
  \A c \in Calls : c \notin Starts /\ IsRunner(target[c]) =>
    pc[c] \in {"stop", "kill", "survived", "not_stopped", "lost"}

ProcInv == /\ NotYetSpawned /\ WaitingIsSpawned /\ KnownAreSpawned /\ ExitedIsGone
           /\ FailedStartLeavesNothing /\ StopTargets

LEMMA ProcInit == BaseInv /\ Init => ProcInv
  BY DEF Init, ProcInv, NotYetSpawned, WaitingIsSpawned, KnownAreSpawned, ExitedIsGone, IsRunner,
         FailedStartLeavesNothing, StopTargets, Refusals, Holding, Waiting, StopLabels, BaseInv, TypeOK

LEMMA ProcStep == BaseInv /\ ProcInv /\ [Next]_vars => ProcInv'
<1> SUFFICES ASSUME BaseInv, ProcInv, [Next]_vars PROVE ProcInv'
  OBVIOUS
<1> USE DEF BaseInv, TypeOK, Kinds, ProcState, Outcomes, Refusals, InFlight, Holding, Waiting,
            StartLabels, StopLabels, ProcInv, NotYetSpawned, WaitingIsSpawned, KnownAreSpawned, ExitedIsGone,
            FailedStartLeavesNothing, StopTargets, IsRunner, Goto, Record, Claim, instVars, sideVars, callVars
<1>1. ASSUME NEW c \in Calls, StartCalled(c) PROVE ProcInv'
  BY <1>1 DEF StartCalled
<1>2. ASSUME NEW c \in Calls, AcquireStartLock(c) PROVE ProcInv'
  BY <1>2 DEF AcquireStartLock
<1>3. ASSUME NEW c \in Calls, Refuse(c) PROVE ProcInv'
  BY <1>3 DEF Refuse
<1>4. ASSUME NEW c \in Calls, PassCheck(c) PROVE ProcInv'
  BY <1>4 DEF PassCheck
<1>5. ASSUME NEW c \in Calls, PassFirstTest(c) PROVE ProcInv'
  BY <1>5 DEF PassFirstTest
<1>6. ASSUME NEW c \in Calls, ClaimStart(c) PROVE ProcInv'
  BY <1>6 DEF ClaimStart
<1>7. ASSUME NEW c \in Calls, VenvReady(c) PROVE ProcInv'
  BY <1>7 DEF VenvReady
<1>8. ASSUME NEW c \in Calls, VenvFails(c) PROVE ProcInv'
  BY <1>8 DEF VenvFails
<1>9. ASSUME NEW c \in Calls, Spawn(c) PROVE ProcInv'
  BY <1>9 DEF Spawn
<1>10. ASSUME NEW c \in Calls, SpawnSuperseded(c) PROVE ProcInv'
  BY <1>10 DEF SpawnSuperseded
<1>11. ASSUME NEW c \in Calls, SpawnFails(c) PROVE ProcInv'
  BY <1>11 DEF SpawnFails
<1>12. ASSUME NEW c \in Calls, WaitSuperseded(c) PROVE ProcInv'
  BY <1>12 DEF WaitSuperseded
<1>13. ASSUME NEW c \in Calls, WaitExited(c) PROVE ProcInv'
  BY <1>13 DEF WaitExited
<1>14. ASSUME NEW c \in Calls, WaitEnds(c) PROVE ProcInv'
  BY <1>14 DEF WaitEnds
<1>15. ASSUME NEW c \in Calls, RecordExit(c) PROVE ProcInv'
  <2>1. CASE Current(c)
    BY <1>15, <2>1 DEF RecordExit
  <2>2. CASE ~Current(c)
    BY <1>15, <2>2 DEF RecordExit
  <2> QED
    BY <2>1, <2>2
<1>16. ASSUME NEW c \in Calls, Publish(c) PROVE ProcInv'
  <2>1. CASE Current(c)
    BY <1>16, <2>1 DEF Publish
  <2>2. CASE ~Current(c)
    BY <1>16, <2>2 DEF Publish
  <2> QED
    BY <2>1, <2>2
<1>17. ASSUME NEW c \in Calls, GiveUp(c) PROVE ProcInv'
  BY <1>17 DEF GiveUp
<1>18. ASSUME NEW c \in Calls, StopCalled(c) PROVE ProcInv'
  BY <1>18 DEF StopCalled
<1>19. ASSUME NEW c \in Calls, ClaimStop(c) PROVE ProcInv'
  BY <1>19 DEF ClaimStop
<1>20. ASSUME NEW c \in Calls, Kill(c) PROVE ProcInv'
  BY <1>20 DEF Kill
<1>21. ASSUME NEW c \in Calls, StopFails(c) PROVE ProcInv'
  <2>1. CASE Current(c)
    BY <1>21, <2>1 DEF StopFails
  <2>2. CASE ~Current(c)
    BY <1>21, <2>2 DEF StopFails
  <2> QED
    BY <2>1, <2>2
<1>22. ASSUME NEW c \in Calls, FinishStop(c) PROVE ProcInv'
  <2>1. CASE Current(c)
    BY <1>22, <2>1 DEF FinishStop, AfterStop
  <2>2. CASE ~Current(c)
    BY <1>22, <2>2 DEF FinishStop, AfterStop
  <2> QED
    BY <2>1, <2>2
<1>23. ASSUME NEW c \in Calls, DeleteCalled(c) PROVE ProcInv'
  <2>0. c \in Deletes /\ pc[c] = "idle"
        /\ UNCHANGED <<status, pid, reinstall, watchdog, restarts, displaced, pidsFile, generation,
                       startLock, proc, gen, target>>
    BY <1>23 DEF DeleteCalled
  <2>1. CASE pc' = [pc EXCEPT ![c] = "delete_stop"] /\ UNCHANGED <<config, inState>>
    BY <2>0, <2>1
  <2>2. CASE RemoveConfig(c)
    BY <2>0, <2>2 DEF RemoveConfig
  <2> QED
    BY <1>23, <2>1, <2>2 DEF DeleteCalled
<1>24. ASSUME NEW c \in Calls, DeleteAfterStop(c) PROVE ProcInv'
  BY <1>24 DEF DeleteAfterStop, RemoveConfig
<1>25. ASSUME NEW r \in Reinstalls, ReinstallBegins(r) PROVE ProcInv'
  BY <1>25 DEF ReinstallBegins
<1>26. ASSUME NEW r \in Reinstalls, ReinstallEnds(r) PROVE ProcInv'
  BY <1>26 DEF ReinstallEnds
<1>27. CASE WatchdogSees
  BY <1>27 DEF WatchdogSees
<1>28. CASE WatchdogDemotes
  BY <1>28 DEF WatchdogDemotes
<1>29. CASE WatchdogDrops
  BY <1>29 DEF WatchdogDrops
<1>30. ASSUME NEW p \in Spawners, RunnerDies(p) PROVE ProcInv'
  BY <1>30 DEF RunnerDies
<1>31. CASE ManagerRestarts
  BY <1>31 DEF ManagerRestarts
<1>32. CASE UNCHANGED vars
  BY <1>32 DEF vars
<1> QED
  BY <1>1, <1>2, <1>3, <1>4, <1>5, <1>6, <1>7, <1>8, <1>9, <1>10, <1>11, <1>12,
     <1>13, <1>14, <1>15, <1>16, <1>17, <1>18, <1>19, <1>20, <1>21, <1>22, <1>23, <1>24,
     <1>25, <1>26, <1>27, <1>28, <1>29, <1>30, <1>31, <1>32
     DEF Next, StartStep, StopStep, WatchdogStep

LEMMA ProcInvariant == Spec => []ProcInv
  BY BaseInit, BaseInvariant, ProcInit, ProcStep, PTL DEF Spec

\* A start that answered with an error has ended the runner it had spawned, even
\* where the watchdog, a delete or a second start wrote over its registration.
THEOREM NoRunnerOfAFailedStart == Spec => []FailedStartLeavesNothing
  BY ProcInvariant, PTL DEF ProcInv

-----------------------------------------------------------------------------
(***************************************************************************)
(* Generations                                                             *)
(***************************************************************************)

GenBounded == \A c \in Calls : gen[c] <= generation

\* No two calls ever hold the same number.
GenUnique == \A c, d \in Calls : c # d /\ gen[c] > 0 => gen[c] # gen[d]

GenClaimed ==
  \A c \in Calls : pc[c] \in {"venv", "spawn", "exited", "giveup", "kill", "survived", "finish"}
                             \cup Waiting
    => gen[c] > 0

GenUnclaimed ==
  \A c \in Calls : c \notin Starts /\ pc[c] \in {"idle", "stop", "delete_stop", "lost"}
    => gen[c] = 0

GenInv == GenBounded /\ GenUnique /\ GenClaimed /\ GenUnclaimed

LEMMA GenInit == Init => GenInv
  BY DEF Init, GenInv, GenBounded, GenUnique, GenClaimed, GenUnclaimed, Waiting

LEMMA GenStep == BaseInv /\ GenInv /\ [Next]_vars => GenInv'
<1> SUFFICES ASSUME BaseInv, GenInv, [Next]_vars PROVE GenInv'
  OBVIOUS
<1> USE DEF BaseInv, TypeOK, Kinds, Outcomes, Refusals, InFlight, Holding, Waiting, StartLabels,
            StopLabels, GenInv, GenBounded, GenUnique, GenClaimed, GenUnclaimed, Goto, Record, Claim, instVars, sideVars, callVars
<1>1. ASSUME NEW c \in Calls, StartCalled(c) PROVE GenInv'
  BY <1>1 DEF StartCalled
<1>2. ASSUME NEW c \in Calls, AcquireStartLock(c) PROVE GenInv'
  BY <1>2 DEF AcquireStartLock
<1>3. ASSUME NEW c \in Calls, Refuse(c) PROVE GenInv'
  BY <1>3 DEF Refuse
<1>4. ASSUME NEW c \in Calls, PassCheck(c) PROVE GenInv'
  BY <1>4 DEF PassCheck
<1>5. ASSUME NEW c \in Calls, PassFirstTest(c) PROVE GenInv'
  BY <1>5 DEF PassFirstTest
<1>6. ASSUME NEW c \in Calls, ClaimStart(c) PROVE GenInv'
  BY <1>6 DEF ClaimStart
<1>7. ASSUME NEW c \in Calls, VenvReady(c) PROVE GenInv'
  BY <1>7 DEF VenvReady
<1>8. ASSUME NEW c \in Calls, VenvFails(c) PROVE GenInv'
  BY <1>8 DEF VenvFails
<1>9. ASSUME NEW c \in Calls, Spawn(c) PROVE GenInv'
  BY <1>9 DEF Spawn
<1>10. ASSUME NEW c \in Calls, SpawnSuperseded(c) PROVE GenInv'
  BY <1>10 DEF SpawnSuperseded
<1>11. ASSUME NEW c \in Calls, SpawnFails(c) PROVE GenInv'
  BY <1>11 DEF SpawnFails
<1>12. ASSUME NEW c \in Calls, WaitSuperseded(c) PROVE GenInv'
  BY <1>12 DEF WaitSuperseded
<1>13. ASSUME NEW c \in Calls, WaitExited(c) PROVE GenInv'
  BY <1>13 DEF WaitExited
<1>14. ASSUME NEW c \in Calls, WaitEnds(c) PROVE GenInv'
  BY <1>14 DEF WaitEnds
<1>15. ASSUME NEW c \in Calls, RecordExit(c) PROVE GenInv'
  <2>1. CASE Current(c)
    BY <1>15, <2>1 DEF RecordExit
  <2>2. CASE ~Current(c)
    BY <1>15, <2>2 DEF RecordExit
  <2> QED
    BY <2>1, <2>2
<1>16. ASSUME NEW c \in Calls, Publish(c) PROVE GenInv'
  <2>1. CASE Current(c)
    BY <1>16, <2>1 DEF Publish
  <2>2. CASE ~Current(c)
    BY <1>16, <2>2 DEF Publish
  <2> QED
    BY <2>1, <2>2
<1>17. ASSUME NEW c \in Calls, GiveUp(c) PROVE GenInv'
  BY <1>17 DEF GiveUp
<1>18. ASSUME NEW c \in Calls, StopCalled(c) PROVE GenInv'
  BY <1>18 DEF StopCalled
<1>19. ASSUME NEW c \in Calls, ClaimStop(c) PROVE GenInv'
  BY <1>19 DEF ClaimStop
<1>20. ASSUME NEW c \in Calls, Kill(c) PROVE GenInv'
  BY <1>20 DEF Kill
<1>21. ASSUME NEW c \in Calls, StopFails(c) PROVE GenInv'
  <2>1. CASE Current(c)
    BY <1>21, <2>1 DEF StopFails
  <2>2. CASE ~Current(c)
    BY <1>21, <2>2 DEF StopFails
  <2> QED
    BY <2>1, <2>2
<1>22. ASSUME NEW c \in Calls, FinishStop(c) PROVE GenInv'
  <2>1. CASE Current(c)
    BY <1>22, <2>1 DEF FinishStop, AfterStop
  <2>2. CASE ~Current(c)
    BY <1>22, <2>2 DEF FinishStop, AfterStop
  <2> QED
    BY <2>1, <2>2
<1>23. ASSUME NEW c \in Calls, DeleteCalled(c) PROVE GenInv'
  <2>0. c \in Deletes /\ pc[c] = "idle"
        /\ UNCHANGED <<status, pid, reinstall, watchdog, restarts, displaced, pidsFile, generation,
                       startLock, proc, gen, target>>
    BY <1>23 DEF DeleteCalled
  <2>1. CASE pc' = [pc EXCEPT ![c] = "delete_stop"] /\ UNCHANGED <<config, inState>>
    BY <2>0, <2>1
  <2>2. CASE RemoveConfig(c)
    BY <2>0, <2>2 DEF RemoveConfig
  <2> QED
    BY <1>23, <2>1, <2>2 DEF DeleteCalled
<1>24. ASSUME NEW c \in Calls, DeleteAfterStop(c) PROVE GenInv'
  BY <1>24 DEF DeleteAfterStop, RemoveConfig
<1>25. ASSUME NEW r \in Reinstalls, ReinstallBegins(r) PROVE GenInv'
  BY <1>25 DEF ReinstallBegins
<1>26. ASSUME NEW r \in Reinstalls, ReinstallEnds(r) PROVE GenInv'
  BY <1>26 DEF ReinstallEnds
<1>27. CASE WatchdogSees
  BY <1>27 DEF WatchdogSees
<1>28. CASE WatchdogDemotes
  BY <1>28 DEF WatchdogDemotes
<1>29. CASE WatchdogDrops
  BY <1>29 DEF WatchdogDrops
<1>30. ASSUME NEW p \in Spawners, RunnerDies(p) PROVE GenInv'
  BY <1>30 DEF RunnerDies
<1>31. CASE ManagerRestarts
  BY <1>31 DEF ManagerRestarts
<1>32. CASE UNCHANGED vars
  BY <1>32 DEF vars
<1> QED
  BY <1>1, <1>2, <1>3, <1>4, <1>5, <1>6, <1>7, <1>8, <1>9, <1>10, <1>11, <1>12,
     <1>13, <1>14, <1>15, <1>16, <1>17, <1>18, <1>19, <1>20, <1>21, <1>22, <1>23, <1>24,
     <1>25, <1>26, <1>27, <1>28, <1>29, <1>30, <1>31, <1>32
     DEF Next, StartStep, StopStep, WatchdogStep

LEMMA GenInvariant == Spec => []GenInv
  BY GenInit, BaseInvariant, GenStep, PTL DEF Spec

\* A stop that went on, or answered "ok", has ended the process it read.
THEOREM StoppedIsDead == Spec => []StopEndsWhatItRead
<1>1. ProcInv /\ GenInv /\ BaseInv => StopEndsWhatItRead
  BY DEF ProcInv, GenInv, BaseInv, TypeOK, StopTargets, GenUnclaimed, StopEndsWhatItRead
<1> QED
  BY <1>1, ProcInvariant, GenInvariant, BaseInvariant, PTL

-----------------------------------------------------------------------------
(***************************************************************************)
(* That the registered and the serving runner are the same.  The steps     *)
(* that write over a registration unasked put the runner into displaced;   *)
(* of every other runner the code keeps track, whatever runs beside.       *)
(***************************************************************************)

\* A start that speaks for the instance and waits for its runner's port.
Coming(a) ==
  pc[a] \in Waiting /\ Current(a) /\ IsRunner(a) /\ a \notin displaced

\* It is registered, and nothing but a reinstall or the watchdog hides that it starts.
ComingIsRegistered ==
  \A a \in Spawners : Coming(a) => pid = a /\ status \in {"starting", "running"} \cup Hiding

\* A start that speaks for the instance and prepares its spawn has announced itself.
PreparingIsAnnounced ==
  \A c \in Calls : pc[c] \in {"venv", "spawn"} /\ Current(c) =>
    status \in {"starting", "running"} \cup Hiding

\* What serves is registered, on file, and reads "running" unless it is hidden.
ServingIsRegistered ==
  \A p \in Spawners : Serves(p) => pid = p /\ pidsFile = p /\ status \in {"running"} \cup Hiding

Checked == {"claim", "venv", "spawn"}

\* Who has passed both tests of the check: nothing serves, and nothing is about to.
CheckedFoundNone ==
  \A b \in Calls : pc[b] \in Checked => \A p \in Spawners : ~Serves(p) /\ ~Coming(p)

\* Who has passed the first: what serves or is about to does not read "running", and
\* if it comes to read so before the second test, it is displaced.
FirstTestHolds ==
  \A b \in Calls : pc[b] = "check2" =>
    \A p \in Spawners : Serves(p) \/ Coming(p) => status # "running"

\* From its claim to its outcome a call that still speaks for the instance has
\* nothing serving beside it.
ClaimedServesNone ==
  \A c \in Calls :
    pc[c] \in {"venv", "spawn", "exited", "kill", "survived", "finish"} \cup Waiting /\ Current(c)
      => \A p \in Spawners : ~Serves(p)

SurvivorIsUnkillable == \A c \in Calls : pc[c] = "survived" => target[c] \in Unkillable

\* The first half of ConfirmedStopLeavesNothing.
ConfirmedStopIsRecorded ==
  \A c \in Stops : pc[c] = "stopped" /\ Current(c) /\ gen[c] > 0 => pid = None /\ pidsFile = None

ServeInv ==
  /\ config => inState
  /\ ComingIsRegistered /\ PreparingIsAnnounced /\ ServingIsRegistered /\ CheckedFoundNone
  /\ FirstTestHolds /\ ClaimedServesNone
  /\ SurvivorIsUnkillable /\ ConfirmedStopIsRecorded

Kept == BaseInv /\ ProcInv /\ GenInv

LEMMA ServeInit == Init => ServeInv
  BY DEF Init, ServeInv, ComingIsRegistered, PreparingIsAnnounced, ServingIsRegistered, CheckedFoundNone,
         FirstTestHolds, ClaimedServesNone, SurvivorIsUnkillable, ConfirmedStopIsRecorded,
         Serves, Coming, Checked, IsRunner

LEMMA ServeStep == Kept /\ ServeInv /\ [Next]_vars => ServeInv'
<1> SUFFICES ASSUME Kept, ServeInv, [Next]_vars PROVE ServeInv'
  OBVIOUS
<1> USE DEF BaseInv, TypeOK, Kinds, Outcomes, Refusals, InFlight, Holding, Waiting,
            StartLabels, StopLabels, GenInv, GenBounded, GenUnique, GenClaimed, Current,
            Kept, ProcInv, NotYetSpawned, WaitingIsSpawned, KnownAreSpawned, ExitedIsGone,
            OneSpawnAtATime, ServeInv, ComingIsRegistered, PreparingIsAnnounced, ServingIsRegistered,
            CheckedFoundNone, FirstTestHolds, ClaimedServesNone, SurvivorIsUnkillable,
            ConfirmedStopIsRecorded, Serves, Coming, InHand, Forgotten, Checked, Hiding,
            IsRunner, Answers, AlreadyRunning, AlreadyStarting, BetweenReads, Goto, Record,
            Claim, instVars, sideVars, callVars
<1>1. ASSUME NEW c \in Calls, StartCalled(c) PROVE ServeInv'
  BY <1>1 DEF StartCalled
<1>2. ASSUME NEW c \in Calls, AcquireStartLock(c) PROVE ServeInv'
  BY <1>2 DEF AcquireStartLock
<1>3. ASSUME NEW c \in Calls, Refuse(c) PROVE ServeInv'
  BY <1>3 DEF Refuse
<1>4. ASSUME NEW c \in Calls, PassCheck(c) PROVE ServeInv'
  BY <1>4 DEF PassCheck, Displaces
<1>5. ASSUME NEW c \in Calls, PassFirstTest(c) PROVE ServeInv'
  BY <1>5 DEF PassFirstTest
<1>6. ASSUME NEW c \in Calls, ClaimStart(c) PROVE ServeInv'
  BY <1>6 DEF ClaimStart
<1>7. ASSUME NEW c \in Calls, VenvReady(c) PROVE ServeInv'
  BY <1>7 DEF VenvReady
<1>8. ASSUME NEW c \in Calls, VenvFails(c) PROVE ServeInv'
  BY <1>8 DEF VenvFails
<1>9. ASSUME NEW c \in Calls, Spawn(c) PROVE ServeInv'
  BY <1>9 DEF Spawn
<1>10. ASSUME NEW c \in Calls, SpawnSuperseded(c) PROVE ServeInv'
  BY <1>10 DEF SpawnSuperseded
<1>11. ASSUME NEW c \in Calls, SpawnFails(c) PROVE ServeInv'
  BY <1>11 DEF SpawnFails
<1>12. ASSUME NEW c \in Calls, WaitSuperseded(c) PROVE ServeInv'
  BY <1>12 DEF WaitSuperseded
<1>13. ASSUME NEW c \in Calls, WaitExited(c) PROVE ServeInv'
  BY <1>13 DEF WaitExited
<1>14. ASSUME NEW c \in Calls, WaitEnds(c) PROVE ServeInv'
  BY <1>14 DEF WaitEnds
<1>15. ASSUME NEW c \in Calls, RecordExit(c) PROVE ServeInv'
  <2>1. CASE Current(c)
    BY <1>15, <2>1 DEF RecordExit
  <2>2. CASE ~Current(c)
    BY <1>15, <2>2 DEF RecordExit
  <2> QED
    BY <2>1, <2>2
<1>16. ASSUME NEW c \in Calls, Publish(c) PROVE ServeInv'
  <2>1. CASE Current(c)
    BY <1>16, <2>1 DEF Publish, Displaces
  <2>2. CASE ~Current(c)
    BY <1>16, <2>2 DEF Publish, Displaces
  <2> QED
    BY <2>1, <2>2
<1>17. ASSUME NEW c \in Calls, GiveUp(c) PROVE ServeInv'
  BY <1>17 DEF GiveUp
<1>18. ASSUME NEW c \in Calls, StopCalled(c) PROVE ServeInv'
  <2>1. \A d \in Calls : d # c => target'[d] = target[d] /\ pc'[d] = pc[d]
    BY <1>18 DEF StopCalled
  <2>2. pc[c] \in {"idle", "delete_stop"} /\ pc'[c] \in {"stop", "refused"}
    BY <1>18 DEF StopCalled
  <2>3. UNCHANGED <<proc, pid, status, pidsFile, config, inState, displaced, gen, generation>>
    BY <1>18 DEF StopCalled
  <2>4. \A p \in Spawners : (InHand(p)' <=> InHand(p)) /\ (Forgotten(p)' <=> Forgotten(p))
    BY <2>1, <2>2
  <2>5. \A p \in Spawners : (Serves(p)' <=> Serves(p)) /\ (Coming(p)' <=> Coming(p))
    BY <2>1, <2>2, <2>3, <2>4
  <2> QED
    BY <2>1, <2>2, <2>3, <2>5 DEF AfterStop
<1>19. ASSUME NEW c \in Calls, ClaimStop(c) PROVE ServeInv'
  BY <1>19 DEF ClaimStop
<1>20. ASSUME NEW c \in Calls, Kill(c) PROVE ServeInv'
  BY <1>20 DEF Kill
<1>21. ASSUME NEW c \in Calls, StopFails(c) PROVE ServeInv'
  <2>1. CASE Current(c)
    BY <1>21, <2>1 DEF StopFails
  <2>2. CASE ~Current(c)
    BY <1>21, <2>2 DEF StopFails
  <2> QED
    BY <2>1, <2>2
<1>22. ASSUME NEW c \in Calls, FinishStop(c) PROVE ServeInv'
  <2>1. CASE Current(c)
    BY <1>22, <2>1 DEF FinishStop, AfterStop
  <2>2. CASE ~Current(c)
    BY <1>22, <2>2 DEF FinishStop, AfterStop
  <2> QED
    BY <2>1, <2>2
<1>23. ASSUME NEW c \in Calls, DeleteCalled(c) PROVE ServeInv'
  <2>0. c \in Deletes /\ pc[c] = "idle"
        /\ UNCHANGED <<status, pid, reinstall, watchdog, restarts, displaced, pidsFile, generation,
                       startLock, proc, gen, target>>
    BY <1>23 DEF DeleteCalled
  <2>1. CASE pc' = [pc EXCEPT ![c] = "delete_stop"] /\ UNCHANGED <<config, inState>>
    BY <2>0, <2>1
  <2>2. CASE RemoveConfig(c)
    BY <2>0, <2>2 DEF RemoveConfig
  <2> QED
    BY <1>23, <2>1, <2>2 DEF DeleteCalled
<1>24. ASSUME NEW c \in Calls, DeleteAfterStop(c) PROVE ServeInv'
  BY <1>24 DEF DeleteAfterStop, RemoveConfig
<1>25. ASSUME NEW r \in Reinstalls, ReinstallBegins(r) PROVE ServeInv'
  BY <1>25 DEF ReinstallBegins
<1>26. ASSUME NEW r \in Reinstalls, ReinstallEnds(r) PROVE ServeInv'
  BY <1>26 DEF ReinstallEnds, Displaces
<1>27. CASE WatchdogSees
  BY <1>27 DEF WatchdogSees
<1>28. CASE WatchdogDemotes
  BY <1>28 DEF WatchdogDemotes, Displaces
<1>29. CASE WatchdogDrops
  BY <1>29 DEF WatchdogDrops, Displaces
<1>30. ASSUME NEW p \in Spawners, RunnerDies(p) PROVE ServeInv'
  BY <1>30 DEF RunnerDies
<1>31. CASE ManagerRestarts
  <2>1. /\ UNCHANGED <<proc, target, config, displaced>> /\ inState' = config
        /\ \A c \in Calls : pc'[c] = IF pc[c] \in InFlight THEN "lost" ELSE pc[c]
        /\ \A c \in Calls : gen'[c] = 0
    BY <1>31 DEF ManagerRestarts
  <2>2. \A c \in Calls : pc'[c] \in Outcomes \cup {"idle"}
    BY <2>1
  <2>3. ASSUME NEW p \in Spawners, Serves(p)'
        PROVE  pid' = p /\ pidsFile' = p /\ status' = "running"
    <3>1. CASE InHand(p) \/ Forgotten(p)
      <4>1. Forgotten(p)'
        BY <2>1, <3>1
      <4>. QED
        BY <1>31, <2>1, <2>3, <4>1 DEF ManagerRestarts
    <3>2. CASE ~InHand(p) /\ ~Forgotten(p)
      <4>1. Serves(p)
        BY <2>1, <2>3, <3>2
      <4>. QED
        BY <1>31, <2>3, <4>1 DEF ManagerRestarts
    <3>. QED
      BY <3>1, <3>2
  <2>4. \A p \in Spawners : ~Coming(p)'
    BY <2>2
  <2> QED
    BY <2>1, <2>2, <2>3, <2>4
<1>32. CASE UNCHANGED vars
  BY <1>32 DEF vars
<1> HIDE DEF ServeInv
<1> QED
  BY <1>1, <1>2, <1>3, <1>4, <1>5, <1>6, <1>7, <1>8, <1>9, <1>10, <1>11, <1>12,
     <1>13, <1>14, <1>15, <1>16, <1>17, <1>18, <1>19, <1>20, <1>21, <1>22, <1>23, <1>24,
     <1>25, <1>26, <1>27, <1>28, <1>29, <1>30, <1>31, <1>32
     DEF Next, StartStep, StopStep, WatchdogStep

LEMMA KeptInvariant == Spec => []Kept
  BY BaseInvariant, ProcInvariant, GenInvariant, PTL DEF Kept

LEMMA ServeInvariant == Spec => []ServeInv
  BY KeptInvariant, ServeInit, ServeStep, PTL DEF Spec
\* Nobody writes over the registration of a start that is still waiting for its port,
\* not even a reinstall, a delete or a stop that could not end the runner before it:
\* only the watchdog and a start that could not see it do, and those displace it.
THEOREM CurrentStartStaysRegistered == Spec => []CurrentStartIsRegistered
<1>1. ServeInv => CurrentStartIsRegistered
  BY DEF ServeInv, ComingIsRegistered, Coming, CurrentStartIsRegistered
<1> QED
  BY <1>1, ServeInvariant, PTL

\* Whatever serves is what pids.json names, under the watchdog, deletes and reinstalls
\* too, so a new manager finds it.
THEOREM RunningStaysOnFile == Spec => []RunningIsOnFile
<1>1. ServeInv => RunningIsOnFile
  BY DEF ServeInv, ServingIsRegistered, RunningIsOnFile, ServingNow
<1> QED
  BY <1>1, ServeInvariant, PTL

\* So every manager takes over the runner that served under its predecessor.
THEOREM RunningIsAdopted == Spec => PublishedRunnerIsAdopted
<1>1. ServeInv =>
        [\A p \in ServingNow : ManagerRestarts => status' = "running" /\ pid' = p]_vars
  <2> SUFFICES ASSUME ServeInv, NEW p \in ServingNow, ManagerRestarts
               PROVE  status' = "running" /\ pid' = p
    OBVIOUS
  <2>1. pidsFile = p /\ IsRunner(p) /\ config
    BY DEF ServeInv, ServingIsRegistered, ServingNow, Serves
  <2>. QED
    BY <2>1 DEF ManagerRestarts, IsRunner
<1> QED
  BY <1>1, ServeInvariant, PTL DEF PublishedRunnerIsAdopted

\* No order of calls, deaths, watchdog passes, reinstalls and managers leaves a
\* runner that nobody can find, but what was displaced, what a lost thread had in
\* hand, and what a delete leaves behind.
THEOREM NoRunnerIsOrphaned == Spec => []NoOrphan
<1>1. ServeInv => NoOrphan
  BY DEF ServeInv, ServingIsRegistered, Serves, NoOrphan, Registered
<1> QED
  BY <1>1, ServeInvariant, PTL

\* And a stop that answered "stopped" speaks for the instance until the next call.
THEOREM ConfirmedStopHolds == Spec => []ConfirmedStopLeavesNothing
<1>1. ServeInv => ConfirmedStopLeavesNothing
  BY DEF ServeInv, ServingIsRegistered, Serves, ConfirmedStopIsRecorded,
         ConfirmedStopLeavesNothing, IsRunner
<1> QED
  BY <1>1, ServeInvariant, PTL

-----------------------------------------------------------------------------
(***************************************************************************)
(* The promise: one runner at a time                                       *)
(***************************************************************************)

\* As long as a runner serves, nobody registers another in its place.
LEMMA ServingIsNotReplaced ==
  ASSUME Kept, ServeInv, ServeInv', [Next]_vars, NEW p \in ServingNow, NEW q \in ServingNow'
  PROVE  q = p
<1>0. /\ Serves(p) /\ pid = p /\ pidsFile = p /\ config /\ IsRunner(p) /\ p \in Spawners
      /\ Serves(q)' /\ pid' = q /\ q \in Spawners
  BY DEF ServeInv, ServingIsRegistered, ServingNow, Serves
<1> SUFFICES ASSUME pid' # pid PROVE FALSE
  BY <1>0
<1> USE DEF Record, instVars, sideVars, callVars
<1>1. ASSUME NEW c \in Calls, StartStep(c) PROVE FALSE
  <2>1. CASE Spawn(c)
    BY <1>0, <2>1 DEF Spawn, ServeInv, CheckedFoundNone, Checked
  <2>2. CASE Publish(c)
    <3>1. Current(c) /\ pc[c] \in Waiting
      BY <2>2 DEF Publish, Waiting
    <3>. QED
      BY <1>0, <3>1 DEF ServeInv, ClaimedServesNone
  <2>3. CASE RecordExit(c)
    <3>1. Current(c) /\ pc[c] = "exited"
      BY <2>3 DEF RecordExit
    <3>. QED
      BY <1>0, <3>1 DEF ServeInv, ClaimedServesNone
  <2>. QED
    BY <1>1, <2>1, <2>2, <2>3
       DEF StartStep, StartCalled, AcquireStartLock, Refuse, PassCheck, PassFirstTest, ClaimStart,
           VenvReady, VenvFails, SpawnSuperseded, SpawnFails, WaitSuperseded, WaitExited,
           WaitEnds, GiveUp
<1>2. ASSUME NEW c \in Calls, StopStep(c) PROVE FALSE
  <2>1. CASE StopFails(c)
    <3>1. Current(c) /\ pc[c] = "survived"
      BY <2>1 DEF StopFails
    <3>. QED
      BY <1>0, <3>1 DEF ServeInv, ClaimedServesNone
  <2>2. CASE FinishStop(c)
    <3>1. Current(c) /\ pc[c] = "finish"
      BY <2>2 DEF FinishStop
    <3>. QED
      BY <1>0, <3>1 DEF ServeInv, ClaimedServesNone
  <2>. QED
    BY <1>2, <2>1, <2>2
       DEF StopStep, StopCalled, ClaimStop, Kill, DeleteCalled, DeleteAfterStop, RemoveConfig
<1>3. CASE ManagerRestarts
  BY <1>0, <1>3 DEF ManagerRestarts, IsRunner
<1>4. CASE WatchdogStep
  BY <1>0, <1>4, ConstantsAssumption
     DEF WatchdogStep, WatchdogSees, WatchdogDemotes, WatchdogDrops
<1>5. CASE UNCHANGED vars
  BY <1>5 DEF vars
<1>. QED
  BY <1>1, <1>2, <1>3, <1>4, <1>5 DEF Next, ReinstallBegins, ReinstallEnds, RunnerDies

LEMMA PromiseInit == Init => Promise!Init
  BY DEF Init, Promise!Init, ServingNow, Serves, IsRunner

\* Every step either keeps who serves, or leaves nobody serving, or lets one begin
\* where nobody served.
LEMMA PromiseStep ==
  ASSUME Kept, ServeInv, [Next]_vars, Kept', ServeInv'
  PROVE  [Promise!Next]_<<ServingNow, pid>>
<1>1. \A p \in ServingNow : pid = p
  BY DEF ServeInv, ServingIsRegistered, ServingNow
<1>2. \A p \in ServingNow' : pid' = p /\ p \in Spawners
  BY DEF ServeInv, ServingIsRegistered, ServingNow
<1>3. CASE ServingNow' = {}
  <2>1. pid' \in Spawners \cup {None}
    BY DEF Kept, BaseInv, TypeOK
  <2>. QED
    BY <1>3, <2>1 DEF Promise!Next, Promise!Rest
<1>4. CASE ServingNow' # {}
  <2>1. PICK q \in ServingNow' : TRUE
    BY <1>4
  <2>2. ServingNow' = {q} /\ pid' = q /\ q \in Spawners
    BY <1>2, <2>1
  <2>3. CASE ServingNow = {}
    BY <2>2, <2>3 DEF Promise!Next, Promise!Serve
  <2>4. CASE ServingNow # {}
    <3>1. PICK p \in ServingNow : TRUE
      BY <2>4
    <3>2. ServingNow = {p} /\ pid = p
      BY <1>1, <3>1
    <3>3. q = p
      BY <2>1, <3>1, ServingIsNotReplaced
    <3>. QED
      BY <2>2, <3>2, <3>3
  <2>. QED
    BY <2>3, <2>4
<1>. QED
  BY <1>3, <1>4

\* Whatever calls, deaths, watchdog passes, reinstalls and managers come in which
\* order, one runner at a time serves the instance; it is the one that is registered,
\* and no other takes its place before it has ceased to.  What was displaced no longer
\* counts as serving, though it may live on.
THEOREM OneServesAtATime == Spec => KeepsPromise
<1>1. Kept /\ ServeInv /\ Kept' /\ ServeInv' /\ [Next]_vars
      => [Promise!Next]_<<ServingNow, pid>>
  BY PromiseStep
<1>. QED
  BY <1>1, KeptInvariant, ServeInvariant, PromiseInit, PTL DEF Spec, KeepsPromise, Promise!Spec

-----------------------------------------------------------------------------
(***************************************************************************)
(* The health monitor, which restarts what does not answer: HealthMonitor  *)
(* keeps of a runner no more than its status and its number.               *)
(***************************************************************************)

HIDE ConstantsAssumption DEF Calls, Spawners

\* The types, as far as the proofs need them.
HistoryInv ==
  /\ clock \in Nat \ {0}
  /\ DOMAIN statusOf = Instances /\ DOMAIN runner = Instances /\ DOMAIN stops = Instances
  /\ DOMAIN probed = Instances
  /\ \A i \in Instances : stops[i] \in Nat
  /\ health \in [Instances -> History \cup {Nothing}]
  /\ restartsOf \in [Instances -> Seq(Nat)]
  /\ failuresOf \in [Instances -> Nat]

\* What one history says of the restarts of its instance: those before the last
\* e.restarts of them are forgiven, and all precede what it was healthy since.
Tells(e, at) ==
  /\ \A k \in DOMAIN at :
       /\ 0 < at[k] /\ at[k] <= clock
       /\ k <= Len(at) - e.restarts => clock - at[k] >= ResetAfter
       /\ e.healthy_since # 0 => at[k] <= e.healthy_since
  /\ e.healthy_since <= clock
  /\ e.restarts = 0 <=> e.last_restart = 0
  /\ e.restarts > 0 /\ at # <<>> => e.last_restart = at[Len(at)]

\* And whatever does not run has no restarts to answer for, unless one is awaited.
ReluctantInv ==
  \A i \in Instances :
    /\ Tells(Entry(i), restartsOf[i])
    /\ statusOf[i] # "running" /\ restarting # i => restartsOf[i] = <<>>

\* Of an instance that nobody stopped, the failures that are counted are the
\* runner's own: it is still the one that the pass probed.
OwnInv ==
  \A i \in Instances :
    /\ restarting = i => Entry(i).failures = 0 /\ probed[i] = Nothing
    /\ stops[i] = 0 => Entry(i).failures <= failuresOf[i]
    /\ stops[i] = 0 /\ probed[i] # Nothing => probed[i] = runner[i] /\ statusOf[i] = "running"

HealthInv == HistoryInv /\ ReluctantInv /\ OwnInv /\ RestartsAreReluctant

LEMMA HealthBegins == HealthInit => HealthInv
<1> SUFFICES ASSUME HealthInit PROVE HealthInv
  OBVIOUS
<1>1. \A i \in Instances : Entry(i) = Unknown /\ restartsOf[i] = <<>>
  BY DEF HealthInit, Entry
<1>2. HistoryInv
  BY DEF HealthInit, HistoryInv
<1>3. ReluctantInv
  BY <1>1 DEF HealthInit, ReluctantInv, Tells, Unknown
<1>4. OwnInv
  BY <1>1 DEF HealthInit, OwnInv, Unknown
<1>5. RestartsAreReluctant
  BY <1>1 DEF RestartsAreReluctant
<1>. QED
  BY <1>2, <1>3, <1>4, <1>5 DEF HealthInv

\* An instance's history has the fields of one.
LEMMA EntryIsHistory ==
  ASSUME HistoryInv, NEW i \in Instances
  PROVE  Entry(i) \in History
  BY DEF HistoryInv, Entry, Unknown, History

\* What a failed probe, and a restart, make of it.
LEMMA FailureCounts ==
  ASSUME NEW e \in History, NEW i, e = Entry(i)
  PROVE  Failed(i) = [failures |-> e.failures + 1, restarts |-> e.restarts,
                             last_restart |-> e.last_restart, healthy_since |-> 0]
<1>1. [e EXCEPT !.failures = @ + 1, !.healthy_since = 0]
        = [failures |-> e.failures + 1, restarts |-> e.restarts,
           last_restart |-> e.last_restart, healthy_since |-> 0]
  <2> DEFINE d == [e EXCEPT !.failures = @ + 1]
  <2>1. d = [failures |-> e.failures + 1, restarts |-> e.restarts,
             last_restart |-> e.last_restart, healthy_since |-> e.healthy_since]
    BY DEF History
  <2>2. [d EXCEPT !.healthy_since = 0]
          = [failures |-> e.failures + 1, restarts |-> e.restarts,
             last_restart |-> e.last_restart, healthy_since |-> 0]
    <3> HIDE DEF d
    <3>. QED
      BY <2>1
  <2>. QED
    BY <2>2
<1>. QED
  BY <1>1 DEF Failed

LEMMA RestartCounts ==
  ASSUME NEW e \in History
  PROVE  Marked(e) = [failures |-> 0, restarts |-> e.restarts + 1,
                             last_restart |-> clock, healthy_since |-> e.healthy_since]
<1> DEFINE d == [e EXCEPT !.restarts = @ + 1]
           f == [d EXCEPT !.last_restart = clock]
<1>1. d = [failures |-> e.failures, restarts |-> e.restarts + 1,
           last_restart |-> e.last_restart, healthy_since |-> e.healthy_since]
  BY DEF History
<1>2. f = [failures |-> e.failures, restarts |-> e.restarts + 1,
           last_restart |-> clock, healthy_since |-> e.healthy_since]
  <2> HIDE DEF d
  <2>. QED
    BY <1>1
<1>3. [f EXCEPT !.failures = 0]
        = [failures |-> 0, restarts |-> e.restarts + 1,
           last_restart |-> clock, healthy_since |-> e.healthy_since]
  <2> HIDE DEF f
  <2>. QED
    BY <1>2
<1>. QED
  BY <1>3 DEF Marked

\* No later restart waits less.
LEMMA WaitGrows ==
  ASSUME NEW m \in Nat \ {0}, NEW n \in Nat \ {0}, m <= n
  PROVE  Wait(m) <= Wait(n) /\ Wait(m) \in Nat /\ Wait(n) \in Nat
  BY Settings DEF Wait

LEMMA HealthStep == HealthInv /\ [HealthNext]_healthVars => HealthInv'
<1> SUFFICES ASSUME HealthInv, [HealthNext]_healthVars PROVE HealthInv'
  OBVIOUS
<1>0. HistoryInv /\ ReluctantInv /\ OwnInv /\ RestartsAreReluctant
  BY DEF HealthInv
<1>a. Nothing \notin Instances \cup History /\ ResetAfter \in Nat /\ MaxRestarts \in Nat
  BY Settings
<1>b. \A i \in Instances : Entry(i) \in History
  BY <1>0, EntryIsHistory
\* What leaves the histories and the restarts alone.
<1>c. ASSUME UNCHANGED <<health, restartsOf>>, HistoryInv', clock' >= clock, OwnInv',
             \A i \in Instances : statusOf'[i] # "running" /\ restarting' # i
                => statusOf[i] # "running" /\ restarting # i
      PROVE  HealthInv'
  <2>1. \A i \in Instances : Entry(i)' = Entry(i)
    BY <1>c DEF Entry
  <2>2. ASSUME NEW i \in Instances
        PROVE  Tells(Entry(i), restartsOf[i])'
    <3>1. /\ Tells(Entry(i), restartsOf[i]) /\ Entry(i) \in History
          /\ restartsOf[i] \in Seq(Nat) /\ clock \in Nat /\ clock' \in Nat
      BY <1>0, <1>b, <1>c DEF ReluctantInv, HistoryInv
    <3>. QED
      BY <1>a, <1>c, <2>1, <3>1 DEF Tells, History
  <2>3. ReluctantInv'
    BY <1>0, <1>c, <2>2 DEF ReluctantInv
  <2>4. RestartsAreReluctant'
    BY <1>0, <1>c DEF RestartsAreReluctant, Wait
  <2>. QED
    BY <1>c, <2>3, <2>4 DEF HealthInv
\* One history and the restarts of its instance change.
<1>d. ASSUME NEW i \in Instances, HistoryInv', OwnInv', clock' = clock,
             \A j \in Instances \ {i} :
               /\ health'[j] = health[j] /\ restartsOf'[j] = restartsOf[j]
               /\ statusOf'[j] = statusOf[j] /\ (restarting' = j <=> restarting = j),
             Tells(Entry(i), restartsOf[i])',
             statusOf'[i] # "running" /\ restarting' # i => restartsOf'[i] = <<>>,
             \A k \in DOMAIN restartsOf'[i] : \A j \in 1..k - 1 :
               \/ restartsOf'[i][k] - restartsOf'[i][j] >= ResetAfter
               \/ /\ k - j < MaxRestarts
                  /\ restartsOf'[i][k] - restartsOf'[i][k - 1] >= Wait(k - j)
      PROVE  HealthInv'
  <2>1. ASSUME NEW j \in Instances \ {i} PROVE Tells(Entry(j), restartsOf[j])'
    BY <1>0, <1>d DEF ReluctantInv, Tells, Entry
  <2>2. ReluctantInv'
    BY <1>0, <1>d, <2>1 DEF ReluctantInv
  <2>3. RestartsAreReluctant'
    BY <1>0, <1>d DEF RestartsAreReluctant, Wait
  <2>. QED
    BY <1>d, <2>2, <2>3 DEF HealthInv
<1>1. CASE Tick
  <2>1. HistoryInv' /\ OwnInv'
    BY <1>0, <1>1 DEF Tick, HistoryInv, OwnInv, Entry
  <2>. QED
    BY <1>0, <1>1, <1>c, <2>1 DEF Tick, HistoryInv
<1>2. CASE BeginPass
  <2>1. HistoryInv'
    BY <1>0, <1>2 DEF BeginPass, HistoryInv
  <2>2. ASSUME NEW i \in Instances
        PROVE  \/ health'[i] = health[i] /\ Entry(i)' = Entry(i)
               \/ /\ Entry(i)' = Unknown /\ restartsOf[i] = <<>>
    BY <1>0, <1>2, <1>a DEF BeginPass, HistoryInv, ReluctantInv, Entry
  <2>3. ReluctantInv'
    BY <1>0, <1>2, <2>2 DEF BeginPass, ReluctantInv, Tells, Unknown, HistoryInv
  <2>4. OwnInv'
    BY <1>0, <1>2, <1>a, <2>2 DEF BeginPass, OwnInv, Unknown, HistoryInv
  <2>5. RestartsAreReluctant'
    BY <1>0, <1>2 DEF BeginPass, RestartsAreReluctant, Wait
  <2>. QED
    BY <2>1, <2>3, <2>4, <2>5 DEF HealthInv
\* A probe is recorded that restarts nothing.
<1>e. ASSUME NEW i \in Instances, NEW e \in History, Recorded(i),
             health' = [health EXCEPT ![i] = e],
             UNCHANGED <<restarting, restartsOf>>,
             NEW f \in Nat, failuresOf' = [failuresOf EXCEPT ![i] = f],
             stops[i] = 0 => e.failures <= f,
             Tells(e, restartsOf[i])
      PROVE  HealthInv'
  <2>1. HistoryInv'
    BY <1>0, <1>e DEF Recorded, HistoryInv
  <2>2. Entry(i)' = e
    BY <1>0, <1>e, <1>a DEF Entry, HistoryInv
  <2>3. \A j \in Instances \ {i} : Entry(j)' = Entry(j) /\ health'[j] = health[j]
    BY <1>0, <1>e DEF Entry, HistoryInv
  <2>4. OwnInv'
    BY <1>0, <1>e, <1>a, <2>2, <2>3 DEF Recorded, OwnInv, HistoryInv
  <2>5. Tells(Entry(i), restartsOf[i])'
    BY <1>e, <2>2 DEF Recorded, Tells
  <2>. QED
    BY <1>0, <1>e, <1>d, <2>1, <2>3, <2>4, <2>5
       DEF Recorded, HistoryInv, ReluctantInv, RestartsAreReluctant
<1>3. ASSUME NEW i \in Instances, RecordHealthy(i) PROVE HealthInv'
  <2> DEFINE e == [Entry(i) EXCEPT !.failures = 0]
             e2 == IF e.healthy_since = 0 THEN [e EXCEPT !.healthy_since = clock]
                                          ELSE Forgive(e)
  <2>1. e \in History /\ clock \in Nat \ {0} /\ restartsOf[i] \in Seq(Nat)
    BY <1>0, <1>b DEF History, HistoryInv
  <2>2. Tells(e, restartsOf[i])
    BY <1>0, <1>b DEF Tells, ReluctantInv, History
  <2>3. e2 \in History /\ e2.failures = 0
    BY <2>1, <1>b DEF Forgive, History
  <2>4. Tells(e2, restartsOf[i])
    <3>1. CASE e.healthy_since = 0
      BY <2>1, <2>2, <3>1 DEF Tells, History
    <3>2. CASE e.healthy_since # 0 /\ e2 = e
      BY <2>2, <3>2
    <3>3. CASE /\ e.healthy_since # 0 /\ clock - e.healthy_since >= ResetAfter
               /\ e2 = [e EXCEPT !.restarts = 0, !.last_restart = 0]
      <4> HIDE DEF e2, e
      <4>. QED
        BY <2>1, <2>2, <3>3, <1>a DEF Tells, History
    <3>. QED
      BY <3>1, <3>2, <3>3 DEF Forgive
  <2> DEFINE f == 0
  <2>5. health' = [health EXCEPT ![i] = e2] /\ failuresOf' = [failuresOf EXCEPT ![i] = f]
        /\ Recorded(i) /\ UNCHANGED <<restarting, restartsOf>>
    BY <1>3 DEF RecordHealthy
  <2>6. f \in Nat /\ e2.failures <= f
    BY <2>3
  <2> HIDE DEF e2, f
  <2>. QED
    BY <1>e, <2>3, <2>4, <2>5, <2>6
<1>4. ASSUME NEW i \in Instances, RecordFailure(i) PROVE HealthInv'
  <2> DEFINE e == Failed(i)
             f == IF probed[i] = runner[i] THEN failuresOf[i] + 1 ELSE failuresOf[i]
  <2>1. e \in History /\ f \in Nat /\ (stops[i] = 0 => e.failures <= f)
    <3>1. /\ Entry(i) \in History /\ failuresOf[i] \in Nat
          /\ probed[i] # Nothing
          /\ stops[i] = 0 => /\ Entry(i).failures <= failuresOf[i]
                             /\ probed[i] = runner[i]
      BY <1>0, <1>b, <1>4 DEF HistoryInv, OwnInv, RecordFailure, Recorded
    <3>2. e \in History /\ e.failures = Entry(i).failures + 1
      BY <3>1, FailureCounts DEF History
    <3>. QED
      BY <3>1, <3>2 DEF History
  <2>2. Tells(e, restartsOf[i])
    BY <1>0, <1>b DEF Tells, ReluctantInv, History, Failed, HistoryInv
  <2>3. health' = [health EXCEPT ![i] = e] /\ failuresOf' = [failuresOf EXCEPT ![i] = f]
        /\ Recorded(i) /\ UNCHANGED <<restarting, restartsOf>>
    BY <1>0, <1>4 DEF RecordFailure, HistoryInv
  <2> HIDE DEF e, f
  <2>. QED
    BY <1>e, <2>1, <2>2, <2>3
<1>5. ASSUME NEW i \in Instances, RecordAndRestart(i) PROVE HealthInv'
  <2> DEFINE e  == Entry(i)
             e2 == Marked(Failed(i))
             at == restartsOf[i]
             n  == Len(at)
  <2>1. /\ e \in History /\ clock \in Nat \ {0} /\ at \in Seq(Nat)
        /\ e.restarts < MaxRestarts
        /\ e.last_restart = 0 \/ clock - e.last_restart >= Wait(e.restarts)
        /\ Tells(e, at)
    BY <1>0, <1>b, <1>5
       DEF HistoryInv, ReluctantInv, RecordAndRestart, RestartAllowed, Failed,
           History
  <2>2. /\ e2 \in History /\ e2.restarts = e.restarts + 1 /\ e2.last_restart = clock
        /\ e2.failures = 0 /\ e2.healthy_since = 0
    <3>1. /\ Failed(i) \in History /\ Failed(i).restarts = e.restarts
          /\ Failed(i).healthy_since = 0
      BY <2>1, FailureCounts DEF History
    <3>2. e2 = [failures |-> 0, restarts |-> e.restarts + 1, last_restart |-> clock,
                healthy_since |-> 0]
      BY <3>1, RestartCounts
    <3>. QED
      BY <2>1, <3>2 DEF History
  <2>3. /\ health' = [health EXCEPT ![i] = e2]
        /\ restartsOf' = [restartsOf EXCEPT ![i] = Append(at, clock)]
        /\ restarting = Nothing /\ restarting' = i /\ probed' = [probed EXCEPT ![i] = Nothing]
        /\ UNCHANGED <<clock, statusOf, runner, stops>>
    BY <1>5 DEF RecordAndRestart, Recorded
  <2> DEFINE at2 == Append(at, clock)
  <2>4. /\ at2 \in Seq(Nat) /\ n \in Nat /\ Len(at2) = n + 1 /\ at2[n + 1] = clock
        /\ DOMAIN at2 = 1..n + 1 /\ DOMAIN at = 1..n /\ \A k \in 1..n : at2[k] = at[k]
    BY <2>1
  <2>a. /\ e.restarts \in Nat /\ e.healthy_since \in Nat /\ Len(at) = n
        /\ \A k \in 1..n : at[k] \in Nat
    BY <2>1 DEF History
  <2> HIDE DEF at2, e2
  <2>5. HistoryInv'
    <3>1. failuresOf' \in [Instances -> Nat]
      BY <1>0, <1>5 DEF HistoryInv, RecordAndRestart
    <3>. QED
      BY <1>0, <2>2, <2>3, <2>4, <3>1 DEF HistoryInv, at2
  <2>6. restartsOf'[i] = at2 /\ Entry(i)' = e2
    BY <1>0, <1>a, <2>2, <2>3 DEF HistoryInv, Entry, at2
  <2>7. \A j \in Instances \ {i} :
          /\ Entry(j)' = Entry(j) /\ health'[j] = health[j]
          /\ restartsOf'[j] = restartsOf[j] /\ failuresOf'[j] = failuresOf[j]
    BY <1>0, <1>5, <2>3 DEF HistoryInv, Entry, RecordAndRestart
  <2>8. OwnInv'
    BY <1>0, <1>a, <2>2, <2>3, <2>5, <2>6, <2>7 DEF OwnInv, HistoryInv
  <2>9. Tells(e2, at2)
    <3> HIDE DEF e, at, n
    <3>1. ASSUME NEW k \in 1..n, k <= (n + 1) - e2.restarts PROVE clock - at2[k] >= ResetAfter
      <4>1. k <= n - e.restarts
        BY <2>2, <2>4, <2>a, <3>1
      <4>. QED
        BY <2>1, <2>4, <2>a, <4>1 DEF Tells
    <3>2. ASSUME n + 1 <= (n + 1) - e2.restarts PROVE FALSE
      BY <2>2, <2>4, <2>a, <3>2
    <3>3. ASSUME NEW k \in 1..n + 1 PROVE 0 < at2[k] /\ at2[k] <= clock
      BY <2>1, <2>4, <2>a, <3>3 DEF Tells
    <3>4. ASSUME NEW k \in 1..n + 1, k <= (n + 1) - e2.restarts PROVE clock - at2[k] >= ResetAfter
      BY <2>4, <2>a, <3>1, <3>2, <3>4
    <3>. QED
      BY <2>1, <2>2, <2>4, <2>a, <3>3, <3>4 DEF Tells
  <2>10. Tells(Entry(i), restartsOf[i])'
    BY <2>3, <2>6, <2>9 DEF Tells
  <2>11. ASSUME NEW k \in 1..n + 1, NEW j \in 1..k - 1
         PROVE  \/ at2[k] - at2[j] >= ResetAfter
                \/ k - j < MaxRestarts /\ at2[k] - at2[k - 1] >= Wait(k - j)
    <3>0. j \in Nat \ {0} /\ k \in Nat \ {0} /\ k - 1 \in Nat /\ j <= k - 1
      BY <2>4
    <3>1. CASE k <= n
      <4>1. k \in 1..n /\ j \in 1..n /\ k - 1 \in 1..n
        BY <2>4, <3>0, <3>1
      <4>2. at2[k] = at[k] /\ at2[j] = at[j] /\ at2[k - 1] = at[k - 1]
        BY <2>4, <4>1
      <4>. QED
        BY <1>0, <2>4, <4>1, <4>2 DEF RestartsAreReluctant
    <3>2. CASE k = n + 1 /\ j <= n - e.restarts
      <4>1. j \in 1..n /\ at2[j] = at[j] /\ at2[k] = clock
        BY <2>4, <2>a, <3>0, <3>2
      <4>. QED
        BY <2>1, <2>4, <2>a, <3>2, <4>1 DEF Tells
    <3>3. CASE k = n + 1 /\ j > n - e.restarts
      <4>1. e.restarts \in Nat /\ e.restarts > 0 /\ k - j \in Nat \ {0} /\ k - j <= e.restarts
            /\ k - 1 = n /\ n > 0
        <5> HIDE DEF e, n
        <5>. QED
          BY <2>4, <2>a, <3>0, <3>3
      <4>2. e.last_restart = at[n] /\ e.last_restart # 0
        BY <2>1, <2>4, <4>1 DEF Tells
      <4>3. Wait(k - j) <= Wait(e.restarts) /\ Wait(k - j) \in Nat
            /\ Wait(e.restarts) \in Nat
        BY <4>1, WaitGrows
      <4>4. clock - at[n] >= Wait(e.restarts) /\ at[n] \in Nat
        BY <2>1, <2>4, <4>1, <4>2
      <4>. QED
        <5> HIDE DEF e, at, n
        <5>1. at2[k] = clock /\ at2[k - 1] = at[n]
          BY <2>4, <3>3, <4>1
        <5>2. k - j < MaxRestarts
          BY <1>a, <2>1, <2>a, <4>1
        <5>3. clock - at[n] >= Wait(k - j)
          BY <2>1, <4>3, <4>4
        <5>. QED
          BY <5>1, <5>2, <5>3
    <3>4. k <= n \/ (k = n + 1 /\ (j <= n - e.restarts \/ j > n - e.restarts))
      <4> HIDE DEF e, n
      <4>. QED
        BY <2>4, <2>a, <3>0
    <3>. QED
      BY <3>1, <3>2, <3>3, <3>4
  <2>12. \A k \in DOMAIN restartsOf'[i] : \A j \in 1..k - 1 :
               \/ restartsOf'[i][k] - restartsOf'[i][j] >= ResetAfter
               \/ /\ k - j < MaxRestarts
                  /\ restartsOf'[i][k] - restartsOf'[i][k - 1] >= Wait(k - j)
    BY <2>4, <2>6, <2>11
  <2>. QED
    BY <1>a, <1>d, <2>3, <2>5, <2>7, <2>8, <2>10, <2>12
<1>6. ASSUME NEW i \in Instances, RestartEnds(i) PROVE HealthInv'
  <2>1. HistoryInv'
    <3>1. restartsOf' \in [Instances -> Seq(Nat)]
      <4>1. restartsOf' = restartsOf \/ restartsOf' = [restartsOf EXCEPT ![i] = <<>>]
        BY <1>6 DEF RestartEnds
      <4>2. <<>> \in Seq(Nat)
        OBVIOUS
      <4>. QED
        BY <1>0, <4>1, <4>2 DEF HistoryInv
    <3>2. failuresOf' \in [Instances -> Nat]
      BY <1>0, <1>6 DEF RestartEnds, HistoryInv
    <3>. QED
      BY <1>0, <1>6, <3>1, <3>2 DEF RestartEnds, HistoryInv
  <2>2. OwnInv'
    BY <1>0, <1>6, <1>a DEF RestartEnds, HistoryInv, OwnInv, Entry
  <2>3. restarting = i /\ restarting' = Nothing /\ clock' = clock /\ health' = health
        /\ i # Nothing
        /\ \A j \in Instances \ {i} : statusOf'[j] = statusOf[j] /\ restartsOf'[j] = restartsOf[j]
    BY <1>0, <1>6, <1>a DEF RestartEnds, HistoryInv
  <2>4. \/ restartsOf'[i] = restartsOf[i] /\ statusOf'[i] = "running"
        \/ restartsOf'[i] = <<>>
    BY <1>0, <1>6 DEF RestartEnds, HistoryInv
  <2>5. Tells(Entry(i), restartsOf[i])'
    BY <1>0, <2>3, <2>4 DEF Tells, ReluctantInv, Entry
  <2>6. \A k \in DOMAIN restartsOf'[i] : \A j \in 1..k - 1 :
               \/ restartsOf'[i][k] - restartsOf'[i][j] >= ResetAfter
               \/ /\ k - j < MaxRestarts
                  /\ restartsOf'[i][k] - restartsOf'[i][k - 1] >= Wait(k - j)
    BY <1>0, <2>4 DEF RestartsAreReluctant
  <2>. QED
    BY <1>a, <1>d, <2>1, <2>2, <2>3, <2>4, <2>5, <2>6
<1>7. ASSUME NEW i \in Instances, SomebodyStops(i) PROVE HealthInv'
  <2>1. HistoryInv'
    BY <1>0, <1>7 DEF SomebodyStops, HistoryInv
  <2>2. OwnInv'
    BY <1>0, <1>7 DEF SomebodyStops, HistoryInv, OwnInv, Entry
  <2>3. /\ restarting' = restarting /\ clock' = clock /\ health' = health
        /\ restartsOf'[i] = <<>>
        /\ \A j \in Instances \ {i} : statusOf'[j] = statusOf[j] /\ restartsOf'[j] = restartsOf[j]
    BY <1>0, <1>7 DEF SomebodyStops, HistoryInv
  <2>4. Tells(Entry(i), restartsOf[i])'
    BY <1>0, <2>3 DEF Tells, ReluctantInv, Entry
  <2>. QED
    BY <1>d, <2>1, <2>2, <2>3, <2>4
<1>8. ASSUME NEW i \in Instances, StartBegins(i) \/ StartEnds(i) PROVE HealthInv'
  <2>1. HistoryInv' /\ OwnInv'
    BY <1>0, <1>8 DEF StartBegins, StartEnds, HistoryInv, OwnInv, Entry
  <2>2. /\ UNCHANGED <<health, restartsOf, clock, restarting>>
        /\ \A j \in Instances : statusOf'[j] # "running" => statusOf[j] # "running"
    BY <1>0, <1>8 DEF StartBegins, StartEnds, HistoryInv
  <2>. QED
    BY <1>0, <1>c, <2>1, <2>2 DEF HistoryInv
<1>9. CASE UNCHANGED healthVars
  <2>1. HistoryInv' /\ OwnInv'
    BY <1>0, <1>9 DEF healthVars, HistoryInv, OwnInv, Entry
  <2>. QED
    BY <1>0, <1>9, <1>c, <2>1 DEF healthVars, HistoryInv
<1>. QED
  BY <1>1, <1>2, <1>3, <1>4, <1>5, <1>6, <1>7, <1>8, <1>9 DEF HealthNext

\* With any number of instances, any pattern of answers, stops and starts, and any
\* table of waits that grows, what does not answer is restarted within the cap and
\* after its wait, or after a stretch of good behaviour.
THEOREM RestartsWait == HealthSpec => []RestartsAreReluctant
<1>1. HealthInv => RestartsAreReluctant
  BY DEF HealthInv
<1>. QED
  BY <1>1, HealthBegins, HealthStep, PTL DEF HealthSpec

\* And only for failures of its own, as long as nobody else stops it.
THEOREM RestartsAreEarned == HealthSpec => RestartsItsOwnFailures
<1>1. ASSUME HealthInv, [HealthNext]_healthVars, NEW i \in Instances, stops[i] = 0,
             Len(restartsOf'[i]) > Len(restartsOf[i])
      PROVE  failuresOf'[i] >= FailuresBefore
  <2>1. HistoryInv /\ OwnInv
    BY <1>1 DEF HealthInv
  <2>2. RecordAndRestart(i)
    <3>1. CASE UNCHANGED restartsOf
      BY <1>1, <2>1, <3>1 DEF HistoryInv
    <3>2. ASSUME NEW j \in Instances, restartsOf' = [restartsOf EXCEPT ![j] = <<>>]
          PROVE  FALSE
      BY <1>1, <2>1, <3>2 DEF HistoryInv
    <3>3. ASSUME NEW j \in Instances, RecordAndRestart(j) PROVE j = i
      BY <1>1, <2>1, <3>3 DEF RecordAndRestart, HistoryInv
    <3>. QED
      BY <1>1, <3>1, <3>2, <3>3
         DEF HealthNext, healthVars, Tick, BeginPass, RecordHealthy,
             RecordFailure, RestartEnds, SomebodyStops, StartBegins,
             StartEnds
  <2>3. Entry(i) \in History
    BY <2>1, EntryIsHistory
  <2>4. /\ Failed(i).failures = Entry(i).failures + 1
        /\ Failed(i).failures >= FailuresBefore /\ probed[i] # Nothing
        /\ failuresOf' = [failuresOf EXCEPT ![i] = IF probed[i] = runner[i] THEN @ + 1 ELSE @]
    BY <2>2, <2>3
       DEF RecordAndRestart, Recorded, Failed, History
  <2>5. /\ Entry(i).failures <= failuresOf[i] /\ probed[i] = runner[i]
        /\ Entry(i).failures \in Nat /\ failuresOf[i] \in Nat
        /\ failuresOf'[i] = failuresOf[i] + 1
    BY <1>1, <2>1, <2>3, <2>4 DEF HistoryInv, OwnInv, History
  <2>6. FailuresBefore \in Nat
    BY Settings
  <2>. QED
    BY <2>4, <2>5, <2>6
<1>2. HealthInv /\ [HealthNext]_healthVars =>
        [\A i \in Instances : stops[i] = 0 /\ Len(restartsOf'[i]) > Len(restartsOf[i])
            => failuresOf'[i] >= FailuresBefore]_healthVars
  BY <1>1
<1>. QED
  BY <1>2, HealthBegins, HealthStep, PTL DEF HealthSpec, RestartsItsOwnFailures
==============================================================================
