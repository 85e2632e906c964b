------------------------- MODULE PortAllocationProofs -------------------------
(* Theorems about PortAllocation, for any set of ids and any number of ports. *)
EXTENDS PortAllocation, TLAPS

TypeInv ==
  /\ \A f \in {port, inflight, editing, process} : f \in [Ids -> Ports \cup {None}]
  /\ starting \in [Ids -> {"no", "checked", "spawned"}]
  /\ listening \subseteq Ids /\ running \subseteq Ids

LEMMA InitType == Init => TypeInv
BY Sorts DEF Init, TypeInv, NoPort

LEMMA NextType == TypeInv /\ [Next]_vars => TypeInv'
<1> SUFFICES ASSUME TypeInv, [Next]_vars PROVE TypeInv'
  OBVIOUS
<1> USE DEF TypeInv
<1>1. ASSUME NEW i \in Ids, BeginCreate(i) PROVE TypeInv'
  BY <1>1 DEF BeginCreate
<1>2. ASSUME NEW i \in Ids, EndCreate(i) PROVE TypeInv'
  BY <1>2 DEF EndCreate
<1>3. ASSUME NEW i \in Ids, EditAtOnce(i) \/ BeginEdit(i) \/ EndEdit(i) PROVE TypeInv'
  BY <1>3 DEF EditAtOnce, BeginEdit, EndEdit
<1>4. ASSUME NEW i \in Ids, StartRoute(i) PROVE TypeInv'
  BY <1>4 DEF StartRoute, Startable
<1>5. ASSUME NEW i \in Ids, Spawn(i) PROVE TypeInv'
  BY <1>5 DEF Spawn
<1>6. ASSUME NEW i \in Ids, RunnerBinds(i) \/ StartEnds(i) \/ RunnerEnds(i) PROVE TypeInv'
  BY <1>6 DEF RunnerBinds, StartEnds, RunnerEnds
<1>7. ASSUME NEW i \in Ids, Delete(i) \/ Restore(i) PROVE TypeInv'
  BY <1>7 DEF Delete, Restore
<1>8. CASE SetMcpPort \/ ForeignProgram
  BY <1>8 DEF SetMcpPort, ForeignProgram
<1>9. CASE UNCHANGED vars
  BY <1>9 DEF vars
<1>. QED
  BY <1>1, <1>2, <1>3, <1>4, <1>5, <1>6, <1>7, <1>8, <1>9 DEF Next

LEMMA ReservedIsNew ==
  ASSUME TypeInv, NEW p \in Ports, NEW i \in Ids, Reserve(p, i)
  PROVE  \A j \in Ids : inflight[j] # p
BY Sorts DEF TypeInv, Reserve, Lowest, InFlight

-----------------------------------------------------------------------------
(***************************************************************************)
(* Reservations                                                            *)
(***************************************************************************)

\* No two installs hold one port, whatever else claims ports meanwhile: the
\* reservation of reserve_port is exclusive by itself.
THEOREM ReservationsAreDistinct == Spec => []ReservationsDiffer
<1>1. Init => ReservationsDiffer
  BY DEF Init, NoPort, ReservationsDiffer
<1>2. TypeInv /\ ReservationsDiffer /\ [Next]_vars => ReservationsDiffer'
  <2> SUFFICES ASSUME TypeInv, ReservationsDiffer, [Next]_vars PROVE ReservationsDiffer'
    OBVIOUS
  <2>1. ASSUME NEW i \in Ids, BeginCreate(i) PROVE ReservationsDiffer'
    <3>1. PICK p \in Ports : Reserve(p, i) /\ inflight' = [inflight EXCEPT ![i] = p]
      BY <2>1 DEF BeginCreate
    <3>2. \A j \in Ids : inflight[j] # p
      BY <3>1, ReservedIsNew
    <3>. QED
      BY <3>1, <3>2 DEF ReservationsDiffer, TypeInv
  <2>2. ASSUME NEW i \in Ids, EndCreate(i) PROVE ReservationsDiffer'
    BY <2>2 DEF EndCreate, ReservationsDiffer, TypeInv
  <2>3. CASE UNCHANGED inflight
    BY <2>3 DEF ReservationsDiffer
  <2>4. ASSUME NEW i \in Ids,
               \/ EditAtOnce(i) \/ BeginEdit(i) \/ EndEdit(i) \/ StartRoute(i) \/ Spawn(i)
               \/ RunnerBinds(i) \/ StartEnds(i) \/ RunnerEnds(i) \/ Delete(i) \/ Restore(i)
        PROVE  UNCHANGED inflight
    BY <2>4 DEF EditAtOnce, BeginEdit, EndEdit, StartRoute, Spawn, RunnerBinds, StartEnds,
                RunnerEnds, Delete, Restore
  <2>5. SetMcpPort \/ ForeignProgram \/ UNCHANGED vars => UNCHANGED inflight
    BY DEF SetMcpPort, ForeignProgram, vars
  <2>. QED
    BY <2>1, <2>2, <2>3, <2>4, <2>5 DEF Next
<1>. QED
  BY <1>1, <1>2, InitType, NextType, PTL DEF Spec

-----------------------------------------------------------------------------
(***************************************************************************)
(* Runners                                                                 *)
(***************************************************************************)

\* Of an instance that nobody edits and whose start nobody repeats: an id that is
\* reserved has no config yet, a runner exists only if its start is past the check
\* or it is published, and it was started with the port that the config still has.
LeftAlone == Ids \ (Edited \cup Repeated)

RunnerInv ==
  \A i \in LeftAlone :
    /\ editing[i] = None
    /\ inflight[i] # None => port[i] = None
    /\ starting[i] = "checked" => process[i] = None
    /\ starting[i] = "no" /\ process[i] # None => i \in running
    /\ process[i] # None => process[i] = port[i]

LEMMA InitRunner == Init => RunnerInv
BY DEF Init, NoPort, RunnerInv, LeftAlone

LEMMA NextRunner == TypeInv /\ RunnerInv /\ [Next]_vars => RunnerInv'
<1> SUFFICES ASSUME TypeInv, RunnerInv, [Next]_vars PROVE RunnerInv'
  OBVIOUS
<1> USE DEF TypeInv, RunnerInv, LeftAlone
<1>1. ASSUME NEW i \in Ids, BeginCreate(i) PROVE RunnerInv'
  BY <1>1 DEF BeginCreate
<1>2. ASSUME NEW i \in Ids, EndCreate(i) PROVE RunnerInv'
  BY <1>2 DEF EndCreate
<1>3. ASSUME NEW i \in Ids, EditAtOnce(i) \/ BeginEdit(i) \/ EndEdit(i) PROVE RunnerInv'
  BY <1>3 DEF EditAtOnce, BeginEdit, EndEdit
<1>4. ASSUME NEW i \in Ids, StartRoute(i) PROVE RunnerInv'
  BY <1>4 DEF StartRoute, Startable
<1>5. ASSUME NEW i \in Ids, Spawn(i) PROVE RunnerInv'
  BY <1>5 DEF Spawn
<1>6. ASSUME NEW i \in Ids, RunnerBinds(i) \/ StartEnds(i) PROVE RunnerInv'
  BY <1>6 DEF RunnerBinds, StartEnds
<1>7. ASSUME NEW i \in Ids, RunnerEnds(i) PROVE RunnerInv'
  BY <1>7 DEF RunnerEnds
<1>8. ASSUME NEW i \in Ids, Delete(i) PROVE RunnerInv'
  BY <1>8 DEF Delete
<1>9. ASSUME NEW i \in Ids, Restore(i) PROVE RunnerInv'
  BY <1>9 DEF Restore
<1>10. CASE SetMcpPort \/ ForeignProgram
  BY <1>10 DEF SetMcpPort, ForeignProgram
<1>11. CASE UNCHANGED vars
  BY <1>11 DEF vars
<1>. QED
  BY <1>1, <1>2, <1>3, <1>4, <1>5, <1>6, <1>7, <1>8, <1>9, <1>10, <1>11 DEF Next

\* Only what runs listens.
ListeningInv == \A i \in listening : process[i] # None

LEMMA InitListening == Init => ListeningInv
BY DEF Init, ListeningInv

LEMMA NextListening == TypeInv /\ ListeningInv /\ [Next]_vars => ListeningInv'
<1> SUFFICES ASSUME TypeInv, ListeningInv, [Next]_vars PROVE ListeningInv'
  OBVIOUS
<1>1. ASSUME NEW i \in Ids, Spawn(i) \/ RunnerBinds(i) \/ RunnerEnds(i) PROVE ListeningInv'
  BY <1>1, Sorts DEF Spawn, RunnerBinds, RunnerEnds, ListeningInv, TypeInv
<1>2. CASE UNCHANGED <<process, listening>>
  BY <1>2 DEF ListeningInv
<1>3. ASSUME NEW i \in Ids,
             \/ BeginCreate(i) \/ EndCreate(i) \/ EditAtOnce(i) \/ BeginEdit(i) \/ EndEdit(i)
             \/ StartRoute(i) \/ StartEnds(i) \/ Delete(i) \/ Restore(i)
      PROVE  UNCHANGED <<process, listening>>
  BY <1>3 DEF BeginCreate, EndCreate, EditAtOnce, BeginEdit, EndEdit, StartRoute, StartEnds,
              Delete, Restore
<1>4. SetMcpPort \/ ForeignProgram \/ UNCHANGED vars => UNCHANGED <<process, listening>>
  BY DEF SetMcpPort, ForeignProgram, vars
<1>. QED
  BY <1>1, <1>2, <1>3, <1>4 DEF Next

\* The runner of an instance that nobody edits, and whose start nobody repeats,
\* listens where the config says, although other programs, restores, the settings
\* and other instances take ports away and starts reassign them.
THEOREM RunnerStaysOnItsPort == Spec => []RunnerIsOnItsPort
<1>1. TypeInv /\ RunnerInv /\ ListeningInv => RunnerIsOnItsPort
  BY DEF TypeInv, RunnerInv, ListeningInv, RunnerIsOnItsPort, LeftAlone
<1>. QED
  BY <1>1, InitType, NextType, InitRunner, NextRunner, InitListening, NextListening, PTL DEF Spec

=============================================================================
