------------------------- MODULE ConfigChangesProofs -------------------------
(* Theorems about ConfigChanges, for any set of requests, venvs and packages. *)
EXTENDS ConfigChanges, TLAPS

Creating == Creates \cup Imports

\* Where a create stands from its reservation to its last step.
Underway == {"install", "validate", "commit", "commit_unprepared"}

\* A create that is under way holds the id, an id that is held has no config, and
\* an import that is under way has its tool file already.
CreateInv ==
  /\ pc \in [Requests -> Awaiting \cup Answers \cup {"idle"}]
  /\ migration \in Requests \cup {"initial", "idle", "done"}
  /\ toolFile # None => toolFile \in ToolFile
  /\ \A r \in Creating : pc[r] \in Underway => creating = r
  /\ creating # None => config = None
  /\ creating \in Imports => toolFile # None
  /\ creating \in Creating \cup {None}
  /\ config # None => toolFile # None

LEMMA InitCreate == Init => CreateInv
<1> SUFFICES ASSUME Init PROVE CreateInv
  OBVIOUS
<1>1. toolFile # None => toolFile \in ToolFile
  BY DEF Init, ToolFile
<1>2. config # None => toolFile # None
  BY NoneIsNoFile DEF Init, ToolFile
<1>. QED
  BY <1>1, <1>2, KindsAreDisjoint
     DEF Init, CreateInv, Creating, Underway, Awaiting, Answers, Requests

LEMMA NextCreate == CreateInv /\ [Next]_vars => CreateInv'
<1> SUFFICES ASSUME CreateInv, [Next]_vars PROVE CreateInv'
  OBVIOUS
<1>0. Creating \subseteq Requests /\ None \notin Imports
  BY KindsAreDisjoint DEF Creating, Requests
<1> USE DEF Goto
<1>1. ASSUME NEW r \in Requests, Busy(r) PROVE CreateInv'
  BY <1>1, KindsAreDisjoint DEF Busy, CreateInv, Creating, Requests, Underway, Answers
<1>2. ASSUME NEW r \in Requests, EditAtOnce(r) PROVE CreateInv'
  BY <1>2, KindsAreDisjoint
     DEF EditAtOnce, MayBegin, Answer, CreateInv, Creating, Requests, Awaiting, Answers
<1>3. ASSUME NEW r \in Requests, BeginEdit(r) \/ BeginSave(r) PROVE CreateInv'
  BY <1>3, KindsAreDisjoint
     DEF BeginEdit, BeginSave, CreateInv, Creating, Requests, Awaiting
<1>4. ASSUME NEW r \in Requests, CommitEdit(r) PROVE CreateInv'
  BY <1>4, KindsAreDisjoint
     DEF CommitEdit, Answer, CreateInv, Creating, Requests, Awaiting, Answers
<1>5. ASSUME NEW r \in Requests, RestartEnds(r) PROVE CreateInv'
  BY <1>5 DEF RestartEnds, CreateInv, Underway, Answers
<1>6. ASSUME NEW r \in Requests, CommitSave(r) PROVE CreateInv'
  <2>1. [code |-> r, specs |-> r] \in ToolFile
    BY DEF ToolFile
  <2>. QED
    BY <1>6, <2>1, KindsAreDisjoint, NoneIsNoFile
       DEF CommitSave, Answer, CreateInv, Creating, Requests, Awaiting, Answers
<1>7. ASSUME NEW r \in Requests, IdTaken(r) PROVE CreateInv'
  BY <1>7 DEF IdTaken, CreateInv, Underway, Answers
<1>8. ASSUME NEW r \in Requests, BeginCreate(r) PROVE CreateInv'
  <2>1. [code |-> r, specs |-> "stale"] \in ToolFile
    BY DEF ToolFile
  <2>. QED
    BY <1>8, <2>1, KindsAreDisjoint, NoneIsNoFile
       DEF BeginCreate, Reserve, CreateInv, Creating, Requests, Awaiting
<1>9. ASSUME NEW r \in Requests, CommitCreate(r) PROVE CreateInv'
  <2>1. [code |-> r, specs |-> r] \in ToolFile
    BY DEF ToolFile
  <2>2. creating = r
    BY <1>9 DEF CommitCreate, CreateInv, Creating, Underway
  <2>. QED
    BY <1>9, <2>1, <2>2, KindsAreDisjoint, NoneIsNoFile
       DEF CommitCreate, CreateInv, Creating, Requests, Answers, Underway
<1>19. ASSUME NEW r \in Requests, RestoreInstance(r) PROVE CreateInv'
  <2>1. toolFile' \in ToolFile /\ toolFile' # None
    BY <1>19, NoneIsNoFile DEF RestoreInstance, ToolFile
  <2>2. creating = None /\ creating' = creating /\ migration' = migration
    BY <1>19 DEF RestoreInstance
  <2>3. pc' = [pc EXCEPT ![r] = "ok"]
    BY <1>19 DEF RestoreInstance
  <2>. QED
    BY <1>0, <2>1, <2>2, <2>3, KindsAreDisjoint DEF CreateInv, Answers, Underway
<1>10. ASSUME NEW r \in Requests, InstallSucceeds(r) PROVE CreateInv'
  BY <1>10 DEF InstallSucceeds, CreateInv, Underway, Awaiting
<1>11. ASSUME NEW r \in Requests, InstallFails(r) \/ Validated(r) PROVE CreateInv'
  <2>1. pc[r] \in Underway /\ UNCHANGED <<config, toolFile, migration>>
    BY <1>11 DEF InstallFails, Validated, Underway
  <2>2. CASE Goto(r, "commit_unprepared") \/ Goto(r, "commit")
    <3>1. UNCHANGED creating
      BY <1>11, <2>1, <2>2 DEF InstallFails, Validated, CreateInv
    <3>. QED
      BY <1>0, <2>1, <2>2, <3>1 DEF CreateInv, Underway, Awaiting
  <2>3. CASE Goto(r, "failed") /\ Abandon(r)
    BY <1>0, <2>1, <2>3 DEF Abandon, CreateInv, Underway, Answers
  <2>. QED
    BY <1>11, <2>2, <2>3 DEF InstallFails, Validated
<1>12. ASSUME NEW r \in Requests, BeginDelete(r) \/ FinishDelete(r) PROVE CreateInv'
  BY <1>12, KindsAreDisjoint
     DEF BeginDelete, FinishDelete, Remove, CreateInv, Creating, Requests, Awaiting, Answers
<1>13. ASSUME NEW r \in Requests, BeginDeleteVenv(r) PROVE CreateInv'
  <2>1. Goto(r, "refused") \/ Goto(r, "rmtree")
    BY <1>13 DEF BeginDeleteVenv
  <2>2. UNCHANGED <<config, toolFile, creating, migration>>
    BY <1>13 DEF BeginDeleteVenv
  <2>. QED
    BY <1>0, <2>1, <2>2 DEF CreateInv, Awaiting, Answers, Underway
<1>14. ASSUME NEW r \in Requests, RemoveVenv(r) PROVE CreateInv'
  <2>1. \E l \in {"rmtree", "ok", "failed"} : Goto(r, l)
    BY <1>14 DEF RemoveVenv
  <2>2. UNCHANGED <<config, toolFile, creating, migration>>
    BY <1>14 DEF RemoveVenv
  <2>. QED
    BY <1>0, <2>1, <2>2 DEF CreateInv, Awaiting, Answers, Underway
<1>15. CASE ToggleLock \/ ReassignPort
  BY <1>15 DEF ToggleLock, ReassignPort, CreateInv
<1>16. CASE BeginMigration
  BY <1>16 DEF BeginMigration, CreateInv, ToolFile
<1>17. CASE FinishMigration
  <2>1. [code |-> migration, specs |-> migration] \in ToolFile
    BY <1>17 DEF FinishMigration, CreateInv, ToolFile
  <2>. QED
    BY <1>17, <2>1, NoneIsNoFile DEF FinishMigration, CreateInv
<1>18. CASE UNCHANGED vars
  BY <1>18 DEF vars, CreateInv
<1>. QED
  BY <1>1, <1>2, <1>3, <1>4, <1>5, <1>6, <1>7, <1>8, <1>9, <1>10, <1>11, <1>12, <1>13, <1>14,
     <1>15, <1>16, <1>17, <1>18, <1>19 DEF Next, Step

\* No create, however long it installs, overwrites an instance that came to be
\* under its id meanwhile: reserve_id holds the id, and no other step saves a
\* config where there is none.
THEOREM CreateOverwritesNothing == Spec => CreatesNeverOverwrite
<1>1. CreateInv /\ [Next]_vars =>
        [\A r \in Creates \cup Imports : CommitCreate(r) => config = None]_vars
  BY KindsAreDisjoint DEF CreateInv, Creating, Underway, CommitCreate, Requests
<1>. QED
  BY <1>1, InitCreate, NextCreate, PTL DEF Spec, CreatesNeverOverwrite

\* Whatever the order of creates, imports, saves, deletes and the migration, an
\* instance that has a config has a tool file.
THEOREM ToolFileIsThere == Spec => []ConfigHasToolFile
<1>1. CreateInv => ConfigHasToolFile
  BY DEF CreateInv, ConfigHasToolFile
<1>. QED
  BY <1>1, InitCreate, NextCreate, PTL DEF Spec

-----------------------------------------------------------------------------
(***************************************************************************)
(* What stands where                                                       *)
(***************************************************************************)

ConfigFields == {"locked", "prepared", "name", "host", "port", "venv", "deps"}

ConfigOK(c) ==
  DOMAIN c = ConfigFields /\ c.venv \in Venvs /\ c.deps \subseteq Packages

\* What update_config may be asked to write: never the lock.
BodyOK(b) ==
  /\ DOMAIN b \subseteq Fields
  /\ "venv" \in DOMAIN b => b["venv"] \in Venvs
  /\ "deps" \in DOMAIN b => b["deps"] \subseteq Packages

\* The labels at which a request can stand, by its kind.
Labels(r) ==
  Answers \cup {"idle"} \cup
  (IF r \in Edits THEN {"install", "commit", "restart"}
   ELSE IF r \in Saves THEN {"install", "validate", "commit", "restart"}
   ELSE IF r \in Creates THEN {"install", "validate", "commit"}
   ELSE IF r \in Imports THEN {"install", "commit", "commit_unprepared"}
   ELSE IF r \in Deletes THEN {"stop"} ELSE {"rmtree"})

Asked(r) ==
  /\ r \in Edits /\ pc[r] \in {"install", "commit"} => ConfigOK(read[r]) /\ BodyOK(want[r])
  /\ r \in Saves /\ pc[r] \in {"install", "validate", "commit"} =>
       ConfigOK(read[r]) /\ DOMAIN want[r] = {"deps"} /\ want[r].deps \subseteq Packages
  /\ r \in Creating /\ pc[r] \in Underway => want[r].venv \in Venvs /\ want[r].deps \subseteq Packages
  /\ r \in VenvDeletes /\ pc[r] = "rmtree" => want[r].venv \in Venvs

KindInv ==
  /\ config # None => ConfigOK(config)
  /\ DOMAIN installed = Venvs /\ DOMAIN pc = Requests
  /\ DOMAIN read = Requests /\ DOMAIN want = Requests
  /\ \A r \in Requests : pc[r] \in Labels(r) /\ Asked(r)

\* r goes on; the others stay where they are.
LEMMA Moves ==
  ASSUME KindInv, NEW r \in Requests, NEW l, Goto(r, l)
  PROVE  DOMAIN pc' = Requests /\ pc'[r] = l /\ \A q \in Requests : q # r => pc'[q] = pc[q]
  BY DEF KindInv, Goto

\* Requests that stay where they are, with what they read and were asked.
LEMMA Stays ==
  ASSUME NEW q \in Requests, Asked(q), pc'[q] = pc[q], read'[q] = read[q], want'[q] = want[q]
  PROVE  Asked(q)'
  BY DEF Asked

LEMMA OverlayOK ==
  ASSUME NEW c, ConfigOK(c), NEW b, BodyOK(b)
  PROVE  ConfigOK(Overlay(c, b)) /\ \A f \in ConfigFields \ DOMAIN b : Overlay(c, b)[f] = c[f]
  BY DEF ConfigOK, BodyOK, Overlay, ConfigFields

LEMMA BodiesOK ==
  ASSUME NEW r, NEW b \in Bodies(r)
  PROVE  BodyOK(b)
<1>1. PICK N \in SUBSET Editable, v \in Venvs, d \in SUBSET Packages :
         b = [f \in N |-> CASE f = "venv" -> v [] f = "deps" -> d [] OTHER -> r]
  BY DEF Bodies
<1>2. DOMAIN b = N
  BY <1>1
<1>3. "venv" \in N => b["venv"] = v
  BY <1>1
<1>4. "deps" \in N => b["deps"] = d
  BY <1>1
<1>. QED
  BY <1>2, <1>3, <1>4, KindsAreDisjoint DEF BodyOK

\* What an edit's commit writes, onto the config that is there.
LEMMA WrittenOK ==
  ASSUME NEW e \in Requests, ConfigOK(read[e]), BodyOK(want[e])
  PROVE  /\ BodyOK(Written(e))
         /\ DOMAIN Written(e) \subseteq DOMAIN want[e] \cup ServerFields
         /\ \A f \in {"venv", "deps"} :
              f \in DOMAIN Written(e) => f \in DOMAIN want[e] /\ Written(e)[f] = want[e][f]
<1> DEFINE server == IF DOMAIN want[e] \cap ServerFields = {} THEN {} ELSE ServerFields
           cfg == Overlay(read[e], want[e])
<1>1. Written(e) = [f \in DOMAIN want[e] \cup server |-> cfg[f]]
  BY DEF Written
<1>2. server \subseteq ServerFields
  OBVIOUS
<1>3. \A f \in ConfigFields \cap DOMAIN want[e] : cfg[f] = want[e][f]
  BY DEF ConfigOK, Overlay
<1> HIDE DEF server, cfg
<1>. QED
  BY <1>1, <1>2, <1>3 DEF BodyOK, ServerFields, Fields, ConfigFields

\* Setting the lock, the port or the mark of an install leaves a config a config.
LEMMA ExceptOK ==
  ASSUME NEW c, ConfigOK(c), NEW f \in {"locked", "port", "prepared"}, NEW x
  PROVE  ConfigOK([c EXCEPT ![f] = x]) /\ \A g \in ConfigFields \ {f} : [c EXCEPT ![f] = x][g] = c[g]
  BY DEF ConfigOK, ConfigFields

LEMMA NewConfigOK ==
  ASSUME NEW r, NEW b, b["venv"] \in Venvs, b["deps"] \subseteq Packages, NEW lock, NEW ok
  PROVE  /\ ConfigOK(NewConfig(r, b, lock, ok))
         /\ NewConfig(r, b, lock, ok).venv = b["venv"] /\ NewConfig(r, b, lock, ok).deps = b["deps"]
         /\ NewConfig(r, b, lock, ok).prepared = ok
  BY DEF NewConfig, ConfigOK, ConfigFields

LEMMA KindInit == Init => KindInv
<1> SUFFICES ASSUME Init PROVE KindInv
  OBVIOUS
<1>1. ConfigOK(InitialConfig)
  BY KindsAreDisjoint DEF InitialConfig, ConfigOK, ConfigFields
<1>2. \A r \in Requests : pc[r] = "idle"
  BY DEF Init
<1>3. \A r \in Requests : pc[r] \in Labels(r) /\ Asked(r)
  BY <1>2 DEF Labels, Asked, Underway
<1>. QED
  BY <1>1, <1>3 DEF Init, KindInv

\* One request moves to l, and what it read and was asked is in order there.
LEMMA OneKind ==
  ASSUME KindInv, NEW r \in Requests, NEW l, Goto(r, l), l \in Labels(r), Asked(r)',
         config' # None => ConfigOK(config'), DOMAIN installed' = Venvs,
         DOMAIN read' = Requests, DOMAIN want' = Requests,
         \A q \in Requests : q # r => read'[q] = read[q] /\ want'[q] = want[q]
  PROVE  KindInv'
<1>1. DOMAIN pc' = Requests /\ pc'[r] = l /\ \A q \in Requests : q # r => pc'[q] = pc[q]
  BY Moves
<1>2. ASSUME NEW q \in Requests, q # r PROVE pc'[q] \in Labels(q) /\ Asked(q)'
  BY <1>1, <1>2, Stays DEF KindInv
<1>. QED
  BY <1>1, <1>2 DEF KindInv

\* A request that has ended, or restarts, is asked nothing any more.
LEMMA EndKind ==
  ASSUME KindInv, NEW r \in Requests, NEW l, Goto(r, l),
         l \in Labels(r) \cap (Answers \cup {"restart", "stop"}),
         config' # None => ConfigOK(config'), DOMAIN installed' = Venvs,
         DOMAIN read' = Requests, DOMAIN want' = Requests,
         \A q \in Requests : q # r => read'[q] = read[q] /\ want'[q] = want[q]
  PROVE  KindInv'
<1>1. pc'[r] = l
  BY Moves
<1>2. Asked(r)'
  BY <1>1 DEF Asked, Answers, Underway
<1>. QED
  BY <1>2, OneKind

LEMMA Abandoned ==
  ASSUME NEW r PROVE Answers \subseteq Labels(r)
  BY DEF Labels

LEMMA CommitKeepsConfig ==
  ASSUME KindInv, NEW r \in Requests, CommitEdit(r) \/ CommitSave(r)
  PROVE  config' # None => ConfigOK(config')
<1>1. CASE CommitEdit(r) /\ config' # config
  <2> DEFINE o == Overlay(config, Written(r))
  <2>1. config # None /\ config' = [o EXCEPT !.prepared = TRUE]
    BY <1>1 DEF CommitEdit
  <2>2. ConfigOK(o)
    <3>1. ConfigOK(read[r]) /\ BodyOK(want[r])
      BY <1>1 DEF CommitEdit, KindInv, Asked
    <3>. QED
      BY <2>1, <3>1, WrittenOK, OverlayOK DEF KindInv
  <2> HIDE DEF o
  <2>. QED
    BY <2>1, <2>2, ExceptOK
<1>2. CASE CommitSave(r) /\ config' # config
  <2>1. want[r].deps \subseteq Packages
    BY <1>2 DEF CommitSave, KindInv, Asked
  <2>2. /\ config # None
        /\ \/ config' = [config EXCEPT !.deps = @ \cup want[r].deps]
           \/ config' = [config EXCEPT !.deps = @]
    BY <1>2 DEF CommitSave
  <2>. QED
    BY <2>1, <2>2 DEF KindInv, ConfigOK, ConfigFields
<1>3. CASE config' = config
  BY <1>3 DEF KindInv
<1>. QED
  BY <1>1, <1>2, <1>3

LEMMA KindStep == KindInv /\ [Next]_vars => KindInv'
<1> SUFFICES ASSUME KindInv, [Next]_vars PROVE KindInv'
  OBVIOUS
<1>0. ASSUME NEW r \in Requests PROVE Answers \subseteq Labels(r) /\ pc[r] \in Labels(r) /\ Asked(r)
  BY Abandoned DEF KindInv
<1>1. CASE UNCHANGED <<pc, read, want, installed>> /\ (config' # None => ConfigOK(config'))
  BY <1>1, Stays DEF KindInv
<1>2. ASSUME NEW r \in Requests, Busy(r) \/ IdTaken(r) PROVE KindInv'
  BY <1>0, <1>2, EndKind DEF Busy, IdTaken, Answers, KindInv
<1>3. ASSUME NEW r \in Requests, EditAtOnce(r) PROVE KindInv'
  <2>1. PICK b \in Bodies(r) : config' = Overlay(config, b) /\ want' = [want EXCEPT ![r] = b]
    BY <1>3 DEF EditAtOnce
  <2>2. ConfigOK(config')
    BY <1>3, <2>1, BodiesOK, OverlayOK DEF EditAtOnce, MayBegin, KindInv
  <2>3. {"ok", "restart"} \subseteq Labels(r)
    BY <1>3 DEF EditAtOnce, Labels, Answers
  <2>. QED
    BY <1>3, <2>1, <2>2, <2>3, EndKind DEF EditAtOnce, Answer, Answers, KindInv
<1>4. ASSUME NEW r \in Requests, BeginEdit(r) PROVE KindInv'
  <2>1. PICK b \in Bodies(r) : want' = [want EXCEPT ![r] = b]
    BY <1>4 DEF BeginEdit
  <2>2. /\ r \in Edits /\ read' = [read EXCEPT ![r] = config] /\ Goto(r, "install")
        /\ config' = config /\ installed' = installed /\ ConfigOK(config)
    BY <1>4 DEF BeginEdit, MayBegin, KindInv
  <2>3. read'[r] = config /\ want'[r] = b /\ BodyOK(b) /\ DOMAIN read' = Requests /\ DOMAIN want' = Requests
        /\ \A q \in Requests : q # r => read'[q] = read[q] /\ want'[q] = want[q]
    BY <2>1, <2>2, BodiesOK DEF KindInv
  <2>4. Asked(r)' /\ "install" \in Labels(r)
    BY <2>2, <2>3, KindsAreDisjoint DEF Asked, Labels, Creating
  <2>. QED
    BY <2>2, <2>3, <2>4, OneKind DEF KindInv
<1>5. ASSUME NEW r \in Requests, BeginSave(r) PROVE KindInv'
  <2>1. PICK needs \in SUBSET Packages : want' = [want EXCEPT ![r] = [deps |-> needs]]
    BY <1>5 DEF BeginSave
  <2>2. /\ r \in Saves /\ read' = [read EXCEPT ![r] = config] /\ Goto(r, "install")
        /\ config' = config /\ installed' = installed /\ ConfigOK(config)
    BY <1>5 DEF BeginSave, MayBegin, KindInv
  <2>3. read'[r] = config /\ want'[r] = [deps |-> needs]
        /\ DOMAIN read' = Requests /\ DOMAIN want' = Requests
        /\ \A q \in Requests : q # r => read'[q] = read[q] /\ want'[q] = want[q]
    BY <2>1, <2>2 DEF KindInv
  <2>4. Asked(r)' /\ "install" \in Labels(r)
    BY <2>2, <2>3, KindsAreDisjoint DEF Asked, Labels, Creating
  <2>. QED
    BY <2>2, <2>3, <2>4, OneKind DEF KindInv
<1>6. ASSUME NEW r \in Requests, CommitEdit(r) \/ CommitSave(r) PROVE KindInv'
  <2>1. \E l \in {"ok", "restart", "conflict"} : Goto(r, l)
    BY <1>6 DEF CommitEdit, CommitSave, Answer
  <2>2. {"ok", "restart", "conflict"} \subseteq Labels(r)
    BY <1>6, KindsAreDisjoint DEF CommitEdit, CommitSave, Labels, Answers
  <2>3. UNCHANGED <<installed, read, want>>
    BY <1>6 DEF CommitEdit, CommitSave
  <2>. QED
    BY <1>6, <2>1, <2>2, <2>3, CommitKeepsConfig, EndKind DEF Answers, KindInv
<1>7. ASSUME NEW r \in Requests, RestartEnds(r) PROVE KindInv'
  BY <1>0, <1>7, EndKind DEF RestartEnds, Answers, KindInv
<1>8. ASSUME NEW r \in Requests, BeginCreate(r) PROVE KindInv'
  <2>1. PICK v \in Venvs, d \in SUBSET Packages : want' = [want EXCEPT ![r] = [venv |-> v, deps |-> d]]
    BY <1>8 DEF BeginCreate
  <2>2. /\ r \in Creates \cup Imports /\ Goto(r, "install") /\ UNCHANGED <<config, installed, read>>
    BY <1>8 DEF BeginCreate
  <2>3. want'[r] = [venv |-> v, deps |-> d] /\ DOMAIN want' = Requests
        /\ \A q \in Requests : q # r => want'[q] = want[q]
    BY <2>1 DEF KindInv
  <2>4. Asked(r)' /\ "install" \in Labels(r)
    BY <2>2, <2>3, KindsAreDisjoint DEF Asked, Labels, Creating
  <2>. QED
    BY <2>2, <2>3, <2>4, OneKind DEF KindInv
<1>9. ASSUME NEW r \in Requests, CommitCreate(r) PROVE KindInv'
  <2>1. want[r]["venv"] \in Venvs /\ want[r]["deps"] \subseteq Packages
    BY <1>0, <1>9 DEF CommitCreate, Asked, Creating, Underway
  <2>2. \E lock, ok : config' = NewConfig(r, want[r], lock, ok)
    BY <1>9 DEF CommitCreate
  <2>3. ConfigOK(config')
    BY <2>1, <2>2, NewConfigOK
  <2>4. \E l \in Answers : Goto(r, l)
    BY <1>9 DEF CommitCreate, Answers
  <2>. QED
    BY <1>0, <1>9, <2>3, <2>4, EndKind DEF CommitCreate, KindInv
<1>10. ASSUME NEW r \in Requests, RestoreInstance(r) PROVE KindInv'
  <2>1. PICK v \in Venvs, d \in SUBSET Packages, lock \in BOOLEAN :
           config' = NewConfig(r, [venv |-> v, deps |-> d], lock, FALSE)
    BY <1>10 DEF RestoreInstance
  <2>2. ConfigOK(config')
    <3>1. [venv |-> v, deps |-> d]["venv"] \in Venvs /\ [venv |-> v, deps |-> d]["deps"] \subseteq Packages
      OBVIOUS
    <3>. QED
      BY <2>1, <3>1, NewConfigOK
  <2>. QED
    BY <1>0, <1>10, <2>2, EndKind DEF RestoreInstance, Answers, KindInv
<1>11. ASSUME NEW r \in Requests, InstallSucceeds(r) \/ InstallFails(r) \/ Validated(r) PROVE KindInv'
  <2>1. /\ pc[r] \in {"install", "validate"} /\ UNCHANGED <<config, read, want>>
        /\ DOMAIN installed' = Venvs
    BY <1>11 DEF InstallSucceeds, InstallFails, Validated, WithTargets, KindInv
  <2>2. PICK l : Goto(r, l) /\ l \in Labels(r) /\ l \in {"commit", "validate", "commit_unprepared", "failed"}
    <3>1. CASE InstallSucceeds(r)
      BY <1>0, <3>1, KindsAreDisjoint DEF InstallSucceeds, Labels, Answers, Requests
    <3>2. CASE InstallFails(r)
      BY <1>0, <3>2, KindsAreDisjoint DEF InstallFails, Labels, Answers, Requests
    <3>3. CASE Validated(r)
      BY <1>0, <3>3, KindsAreDisjoint DEF Validated, Labels, Answers, Requests
    <3>. QED
      BY <1>11, <3>1, <3>2, <3>3
  <2>3. pc'[r] = l
    BY <2>2, Moves
  <2>4. Asked(r)'
    BY <1>0, <2>1, <2>2, <2>3, KindsAreDisjoint DEF Asked, Underway, Labels, Creating, Answers
  <2>. QED
    BY <2>1, <2>2, <2>4, OneKind DEF KindInv
<1>12. ASSUME NEW r \in Requests, BeginDelete(r) \/ FinishDelete(r) PROVE KindInv'
  <2>1. /\ UNCHANGED <<installed, read, want>> /\ config' \in {config, None}
        /\ \E l \in Answers \cup {"stop"} : Goto(r, l)
    BY <1>12 DEF BeginDelete, FinishDelete, Remove, Answers
  <2>2. Answers \cup {"stop"} \subseteq Labels(r)
    BY <1>12, KindsAreDisjoint DEF BeginDelete, FinishDelete, Labels
  <2>. QED
    BY <2>1, <2>2, EndKind DEF KindInv
<1>13. ASSUME NEW r \in Requests, BeginDeleteVenv(r) PROVE KindInv'
  <2>1. UNCHANGED <<config, installed, read>> /\ r \in VenvDeletes
    BY <1>13 DEF BeginDeleteVenv
  <2>2. CASE Goto(r, "refused") /\ UNCHANGED want
    BY <1>0, <2>1, <2>2, EndKind DEF KindInv, Answers
  <2>3. ASSUME NEW v \in Venvs, Goto(r, "rmtree"), want' = [want EXCEPT ![r] = [venv |-> v]]
        PROVE  KindInv'
    <3>1. want'[r] = [venv |-> v] /\ DOMAIN want' = Requests
          /\ \A q \in Requests : q # r => want'[q] = want[q]
      BY <2>3 DEF KindInv
    <3>2. Asked(r)' /\ "rmtree" \in Labels(r)
      BY <2>1, <2>3, <3>1, KindsAreDisjoint DEF Asked, Labels, Creating
    <3>. QED
      BY <2>1, <2>3, <3>1, <3>2, OneKind DEF KindInv
  <2>. QED
    BY <1>13, <2>2, <2>3 DEF BeginDeleteVenv
<1>14. ASSUME NEW r \in Requests, RemoveVenv(r) PROVE KindInv'
  <2>1. PICK l \in {"rmtree", "ok", "failed"} : Goto(r, l)
    BY <1>14 DEF RemoveVenv
  <2>2. /\ pc[r] = "rmtree" /\ UNCHANGED <<config, read, want>>
        /\ DOMAIN installed' = Venvs
    BY <1>14 DEF RemoveVenv, KindInv
  <2>3. l \in Labels(r) /\ pc'[r] = l
    BY <1>0, <2>1, <2>2, Moves DEF Answers
  <2>4. Asked(r)'
    BY <1>0, <2>1, <2>2, <2>3 DEF Asked, Underway
  <2>. QED
    BY <2>1, <2>2, <2>3, <2>4, OneKind DEF KindInv
<1>15. CASE ToggleLock \/ ReassignPort
  <2>1. ASSUME ToggleLock PROVE ConfigOK(config')
    <3>1. PICK b \in BOOLEAN : config # None /\ config' = [config EXCEPT !.locked = b]
      BY <2>1 DEF ToggleLock
    <3>. QED
      BY <3>1, ExceptOK DEF KindInv
  <2>2. ASSUME ReassignPort PROVE ConfigOK(config')
    BY <2>2, ExceptOK DEF ReassignPort, KindInv
  <2>. QED
    BY <1>1, <1>15, <2>1, <2>2 DEF ToggleLock, ReassignPort
<1>16. CASE BeginMigration \/ FinishMigration \/ UNCHANGED vars
  BY <1>1, <1>16 DEF BeginMigration, FinishMigration, vars, KindInv
<1>. QED
  BY <1>2, <1>3, <1>4, <1>5, <1>6, <1>7, <1>8, <1>9, <1>10, <1>11, <1>12, <1>13, <1>14,
     <1>15, <1>16 DEF Next, Step

\* Every request stands where its route can, with a config read and a body asked
\* as its route reads and asks them.
THEOREM KindsAlways == Spec => []KindInv
BY KindInit, KindStep, PTL DEF Spec

-----------------------------------------------------------------------------
(***************************************************************************)
(* instance_lock and the reserved id                                       *)
(***************************************************************************)

HeldInv ==
  /\ HeldWhileUnderway
  /\ held \in Edits \cup Saves \cup {None} /\ creating \in Creating \cup {None}

\* A lock passes from x to y while r, which may hold it, goes to l.
Passes(x, y, r, l) ==
  \/ y = x /\ (pc[r] \in Awaiting <=> l \in Awaiting)
  \/ x \in {None, r} /\ y = r /\ l \in Awaiting
  \/ x \in {None, r} /\ y = None /\ l \notin Awaiting

LEMMA Passing ==
  ASSUME KindInv, HeldInv, NEW r \in Requests, NEW l, Goto(r, l),
         IF r \in Edits \cup Saves THEN Passes(held, held', r, l) ELSE held' = held,
         IF r \in Creating THEN Passes(creating, creating', r, l) ELSE creating' = creating
  PROVE  HeldInv'
<1>1. pc'[r] = l /\ \A q \in Requests : q # r => pc'[q] = pc[q]
  BY Moves
<1>2. /\ Edits \cup Saves \subseteq Requests /\ Creating \subseteq Requests /\ None \notin Requests
      /\ (Edits \cup Saves) \cap Creating = {}
  BY KindsAreDisjoint DEF Requests, Creating
<1>3. held' \in Edits \cup Saves \cup {None} /\ creating' \in Creating \cup {None}
  BY DEF Passes, HeldInv
<1>4. \A q \in Edits \cup Saves : held' = q <=> pc'[q] \in Awaiting
  BY <1>1, <1>2 DEF Passes, HeldInv, HeldWhileUnderway
<1>5. \A q \in Creating : creating' = q <=> pc'[q] \in Awaiting
  BY <1>1, <1>2 DEF Passes, HeldInv, HeldWhileUnderway, Creating
<1>. QED
  BY <1>3, <1>4, <1>5 DEF HeldInv, HeldWhileUnderway, Creating

LEMMA HeldStep == KindInv /\ HeldInv /\ [Next]_vars => HeldInv'
<1> SUFFICES ASSUME KindInv, HeldInv, [Next]_vars PROVE HeldInv'
  OBVIOUS
<1>0. ASSUME NEW r \in Requests
      PROVE  /\ pc[r] \in Labels(r)
             /\ r \in Edits \cup Saves => (held = r <=> pc[r] \in Awaiting) /\ r \notin Creating
             /\ r \in Creating => (creating = r <=> pc[r] \in Awaiting)
             /\ r \notin Creating => creating # r
             /\ r \notin Edits \cup Saves => held # r
  BY KindsAreDisjoint DEF KindInv, HeldInv, HeldWhileUnderway, Creating
<1> USE DEF Awaiting, Answers
<1>1. CASE UNCHANGED <<pc, held, creating>>
  BY <1>1 DEF HeldInv, HeldWhileUnderway
<1>2. ASSUME NEW r \in Requests, Busy(r) \/ IdTaken(r) \/ RestoreInstance(r) PROVE HeldInv'
  <2>1. pc[r] = "idle" /\ UNCHANGED <<held, creating>> /\ \E l \in {"refused", "ok"} : Goto(r, l)
    BY <1>2 DEF Busy, IdTaken, RestoreInstance
  <2>. QED
    BY <2>1, Passing DEF Passes
<1>3. ASSUME NEW r \in Requests, EditAtOnce(r) \/ BeginEdit(r) \/ BeginSave(r) PROVE HeldInv'
  <2>1. /\ r \in Edits \cup Saves /\ held = None /\ creating' = creating
        /\ \/ Goto(r, "ok") /\ held' = None
           \/ Goto(r, "restart") /\ held' = r
           \/ Goto(r, "install") /\ held' = r
    BY <1>3 DEF EditAtOnce, BeginEdit, BeginSave, MayBegin, Answer
  <2>. QED
    BY <1>0, <2>1, Passing DEF Passes
<1>4. ASSUME NEW r \in Requests, CommitEdit(r) \/ CommitSave(r) PROVE HeldInv'
  <2>1. /\ r \in Edits \cup Saves /\ pc[r] = "commit" /\ creating' = creating
        /\ \/ Goto(r, "ok") /\ held' = None
           \/ Goto(r, "restart") /\ held' = r
           \/ Goto(r, "conflict") /\ held' = None
    BY <1>4 DEF CommitEdit, CommitSave, Answer
  <2>. QED
    BY <1>0, <2>1, Passing DEF Passes
<1>5. ASSUME NEW r \in Requests, RestartEnds(r) PROVE HeldInv'
  <2>1. pc[r] = "restart" /\ Goto(r, "ok") /\ held' = None /\ creating' = creating
    BY <1>5 DEF RestartEnds
  <2>2. r \in Edits \cup Saves
    BY <1>0, <2>1 DEF Labels
  <2>. QED
    BY <1>0, <2>1, <2>2, Passing DEF Passes
<1>6. ASSUME NEW r \in Requests, BeginCreate(r) \/ CommitCreate(r) PROVE HeldInv'
  <2>1. r \in Creating /\ held' = held
    BY <1>6 DEF BeginCreate, CommitCreate, Creating
  <2>2. \/ creating = None /\ creating' = r /\ Goto(r, "install")
        \/ /\ pc[r] \in {"commit", "commit_unprepared"} /\ creating' = None
           /\ \E l \in {"ok", "failed"} : Goto(r, l)
    BY <1>6 DEF BeginCreate, CommitCreate, Reserve
  <2>. QED
    BY <1>0, <2>1, <2>2, Passing DEF Passes
<1>7. ASSUME NEW r \in Requests, InstallSucceeds(r) \/ InstallFails(r) \/ Validated(r) PROVE HeldInv'
  <2>1. /\ pc[r] \in {"install", "validate"}
        /\ \/ (\E l \in {"validate", "commit", "commit_unprepared"} : Goto(r, l)) /\ UNCHANGED <<held, creating>>
           \/ Goto(r, "failed") /\ Abandon(r)
    BY <1>7 DEF InstallSucceeds, InstallFails, Validated
  <2>2. CASE (\E l \in {"validate", "commit", "commit_unprepared"} : Goto(r, l)) /\ UNCHANGED <<held, creating>>
    BY <2>1, <2>2, Passing DEF Passes
  <2>3. CASE Goto(r, "failed") /\ Abandon(r)
    BY <1>0, <2>1, <2>3, Passing DEF Passes, Abandon
  <2>. QED
    BY <2>1, <2>2, <2>3
<1>8. ASSUME NEW r \in Requests,
             BeginDelete(r) \/ FinishDelete(r) \/ BeginDeleteVenv(r) \/ RemoveVenv(r)
      PROVE  HeldInv'
  <2>1. r \in Deletes \cup VenvDeletes
    BY <1>0, <1>8 DEF BeginDelete, FinishDelete, BeginDeleteVenv, RemoveVenv, Labels, Requests
  <2>2. UNCHANGED <<held, creating>> /\ \E l : Goto(r, l)
    BY <1>8 DEF BeginDelete, FinishDelete, BeginDeleteVenv, RemoveVenv, Remove
  <2>3. r \notin Edits \cup Saves /\ r \notin Creating
    BY <2>1, KindsAreDisjoint DEF Creating
  <2>. QED
    BY <2>2, <2>3, Passing
<1>9. CASE ToggleLock \/ ReassignPort \/ BeginMigration \/ FinishMigration \/ UNCHANGED vars
  BY <1>1, <1>9 DEF ToggleLock, ReassignPort, BeginMigration, FinishMigration, vars
<1>. QED
  BY <1>2, <1>3, <1>4, <1>5, <1>6, <1>7, <1>8, <1>9 DEF Next, Step

\* instance_lock is held exactly while an edit or a save is under way, the id
\* exactly while a create or an import is: two never are, and no path, failed or
\* not, leaves either behind.
THEOREM LocksAreGivenBack == Spec => []HeldWhileUnderway
<1>1. Init => HeldInv
  BY KindsAreDisjoint DEF Init, HeldInv, HeldWhileUnderway, Awaiting, Creating, Requests
<1>2. HeldInv => HeldWhileUnderway
  BY DEF HeldInv
<1>. QED
  BY <1>1, <1>2, KindsAlways, HeldStep, PTL DEF Spec

-----------------------------------------------------------------------------
(***************************************************************************)
(* What a commit may touch                                                 *)
(***************************************************************************)

\* Only the request that takes the step goes on.
LEMMA OnlyOneMoves ==
  ASSUME KindInv, NEW q \in Requests, Step(q), NEW r \in Requests, pc'[r] # pc[r]
  PROVE  r = q
<1>1. Busy(q) \/ EditAtOnce(q) \/ BeginEdit(q) \/ CommitEdit(q) \/ RestartEnds(q) \/ BeginSave(q)
      \/ CommitSave(q) \/ IdTaken(q) \/ BeginCreate(q) => \E l : Goto(q, l)
  BY DEF Busy, EditAtOnce, BeginEdit, CommitEdit, RestartEnds, BeginSave, CommitSave, IdTaken,
         BeginCreate, Answer
<1>2. CommitCreate(q) \/ RestoreInstance(q) \/ InstallSucceeds(q) \/ InstallFails(q) \/ Validated(q)
      => \E l : Goto(q, l)
  BY DEF CommitCreate, RestoreInstance, InstallSucceeds, InstallFails, Validated
<1>3. BeginDelete(q) \/ FinishDelete(q) \/ BeginDeleteVenv(q) \/ RemoveVenv(q) => \E l : Goto(q, l)
  BY DEF BeginDelete, FinishDelete, BeginDeleteVenv, RemoveVenv, Remove
<1>. QED
  BY <1>1, <1>2, <1>3, Moves DEF Step

\* Steps of a request that leave a locked config and its tool file alone.
LEMMA LockedStays ==
  ASSUME KindInv, CreateInv, NEW q \in Requests \ Deletes, Step(q), config # None, config.locked
  PROVE  config' = config /\ toolFile' = toolFile
<1>1. ~EditAtOnce(q) /\ ~BeginCreate(q) /\ ~RestoreInstance(q)
  BY DEF EditAtOnce, MayBegin, BeginCreate, Reserve, RestoreInstance
<1>2. ~CommitCreate(q)
  BY KindsAreDisjoint DEF CommitCreate, CreateInv, Creating, Underway, Requests
<1>3. ~BeginDelete(q) /\ ~FinishDelete(q)
  BY DEF BeginDelete, FinishDelete
<1>. QED
  BY <1>1, <1>2, <1>3
     DEF Step, Busy, BeginEdit, CommitEdit, RestartEnds, BeginSave, CommitSave, IdTaken,
         InstallSucceeds, InstallFails, Validated, BeginDeleteVenv, RemoveVenv

\* While an instance is locked, no edit, save, create or import goes on by
\* touching its config or its code, however long ago it began.
THEOREM LockProtects == Spec => LockedIsUntouched
<1>1. KindInv /\ CreateInv /\ [Next]_vars =>
        [\A r \in Requests \ Deletes :
           config # None /\ config.locked /\ pc'[r] # pc[r] =>
             config' = config /\ toolFile' = toolFile]_vars
  <2> SUFFICES ASSUME KindInv, CreateInv, Next, NEW r \in Requests \ Deletes,
                      config # None, config.locked, pc'[r] # pc[r]
               PROVE  config' = config /\ toolFile' = toolFile
    OBVIOUS
  <2>1. PICK q \in Requests : Step(q)
    BY DEF Next, ToggleLock, ReassignPort, BeginMigration, FinishMigration
  <2>. QED
    BY <2>1, OnlyOneMoves, LockedStays
<1>. QED
  BY <1>1, InitCreate, NextCreate, KindsAlways, PTL DEF Spec, LockedIsUntouched

\* What an edit's commit does to the config it finds.
LEMMA CommitWrites ==
  ASSUME KindInv, NEW r \in Requests, CommitEdit(r), config' # config
  PROVE  /\ r \in Edits /\ pc[r] = "commit" /\ pc'[r] # "commit" /\ config # None /\ ConfigOK(config)
         /\ config.venv = read[r].venv /\ config.deps = read[r].deps
         /\ ConfigOK(read[r]) /\ BodyOK(want[r])
         /\ \A f \in ConfigFields \ (DOMAIN want[r] \cup ServerFields \cup {"prepared"}) :
              config'[f] = config[f]
         /\ \A f \in {"venv", "deps"} \cap DOMAIN want[r] : config'[f] = want[r][f]
         /\ \A f \in ServerFields \ DOMAIN want[r] :
              config'[f] = config[f] \/ NamesOtherHalf(r, f)
<1> DEFINE o == Overlay(config, Written(r))
<1>1. /\ r \in Edits /\ pc[r] = "commit" /\ config # None /\ config' = [o EXCEPT !.prepared = TRUE]
      /\ config.venv = read[r].venv /\ config.deps = read[r].deps
      /\ Goto(r, "ok") \/ Goto(r, "restart")
  BY DEF CommitEdit, Answer
<1>2. ConfigOK(config) /\ ConfigOK(read[r]) /\ BodyOK(want[r])
  BY <1>1 DEF KindInv, Asked
<1>3. /\ BodyOK(Written(r)) /\ DOMAIN Written(r) \subseteq DOMAIN want[r] \cup ServerFields
      /\ \A f \in {"venv", "deps"} :
           f \in DOMAIN Written(r) => f \in DOMAIN want[r] /\ Written(r)[f] = want[r][f]
  BY <1>2, WrittenOK
<1>4. {"venv", "deps"} \cap DOMAIN want[r] \subseteq DOMAIN Written(r)
  BY DEF Written
<1>5. /\ ConfigOK(o) /\ \A f \in ConfigFields \ DOMAIN Written(r) : o[f] = config[f]
      /\ \A f \in ConfigFields \cap DOMAIN Written(r) : o[f] = Written(r)[f]
  BY <1>2, <1>3, OverlayOK DEF Overlay, ConfigOK
<1> HIDE DEF o
<1>6. \A f \in ConfigFields \ {"prepared"} : config'[f] = o[f]
  BY <1>1, <1>5 DEF ConfigOK
<1>7. pc'[r] # "commit"
  BY <1>1, Moves
<1>8. \A f \in {"venv", "deps"} \cap DOMAIN want[r] : config'[f] = want[r][f]
  BY <1>3, <1>4, <1>5, <1>6 DEF ConfigFields
<1>9. \A f \in ConfigFields \ (DOMAIN want[r] \cup ServerFields \cup {"prepared"}) :
        config'[f] = config[f]
  BY <1>3, <1>5, <1>6
<1>10. ASSUME NEW f \in ServerFields \ DOMAIN want[r], config'[f] # config[f]
       PROVE  NamesOtherHalf(r, f)
  <2>1. f \in ConfigFields \ {"prepared"}
    BY DEF ServerFields, ConfigFields
  <2>2. f \in DOMAIN Written(r) /\ config'[f] = Written(r)[f]
    BY <1>5, <1>6, <1>10, <2>1
  <2>3. DOMAIN want[r] \cap ServerFields # {} /\ Written(r)[f] = Overlay(read[r], want[r])[f]
    BY <1>10, <2>2 DEF Written
  <2>4. Overlay(read[r], want[r])[f] = read[r][f]
    BY <1>2, <2>1, OverlayOK
  <2>5. want' = want
    BY DEF CommitEdit
  <2>. QED
    BY <2>2, <2>3, <2>4, <2>5 DEF NamesOtherHalf
<1>. QED
  BY <1>1, <1>2, <1>7, <1>8, <1>9, <1>10

\* What a save's commit does to it.
LEMMA CommitMerges ==
  ASSUME KindInv, NEW s \in Requests, CommitSave(s), config' # config
  PROVE  /\ s \in Saves /\ pc[s] = "commit" /\ pc'[s] # "commit" /\ config # None /\ ConfigOK(config)
         /\ config.venv = read[s].venv /\ DOMAIN want[s] = {"deps"}
         /\ \A f \in ConfigFields \ {"deps"} : config'[f] = config[f]
         /\ \/ config'["deps"] = config["deps"]
            \/ config'["deps"] = config["deps"] \cup want[s].deps /\ Installs(s)
<1>1. /\ s \in Saves /\ pc[s] = "commit" /\ config # None /\ config.venv = read[s].venv
      /\ LET grown == ~(want[s].deps \subseteq read[s].deps)
         IN config' = [config EXCEPT !.deps = IF grown THEN @ \cup want[s].deps ELSE @]
      /\ Goto(s, "ok") \/ Goto(s, "restart")
  BY DEF CommitSave, Answer
<1>2. ConfigOK(config) /\ DOMAIN want[s] = {"deps"}
  BY <1>1 DEF KindInv, Asked
<1>3. pc'[s] # "commit"
  BY <1>1, Moves
<1>4. \/ config' = [config EXCEPT !.deps = @]
      \/ config' = [config EXCEPT !.deps = @ \cup want[s].deps] /\ Installs(s)
  BY <1>1 DEF Installs
<1>5. CASE config' = [config EXCEPT !.deps = @]
  BY <1>1, <1>2, <1>3, <1>5 DEF ConfigOK, ConfigFields
<1>6. CASE config' = [config EXCEPT !.deps = @ \cup want[s].deps] /\ Installs(s)
  BY <1>1, <1>2, <1>3, <1>6 DEF ConfigOK, ConfigFields
<1>. QED
  BY <1>4, <1>5, <1>6

\* A commit minutes after the read changes what its request named, and the other
\* half of the server if it named one; only the start route changes the port besides.
THEOREM ChangesAreNamed == Spec => EveryChangeIsNamed
<1>1. ASSUME KindInv, CreateInv, Next, config # None, config' # None, config' # config,
             NEW f \in Fields \cup {"locked"}, config'[f] # config[f]
      PROVE  ChangeIsNamed(f)
  <2>0. ConfigOK(config)
    BY <1>1 DEF KindInv
  <2>1. ASSUME NEW e \in Requests, EditAtOnce(e) PROVE ChangeIsNamed(f)
    <3>1. PICK b \in Bodies(e) : config' = Overlay(config, b) /\ want' = [want EXCEPT ![e] = b]
      BY <2>1 DEF EditAtOnce
    <3>2. f \in DOMAIN b
      BY <1>1, <2>0, <3>1, BodiesOK, OverlayOK DEF ConfigFields, Fields
    <3>3. e \in Edits /\ pc'[e] # pc[e]
      BY <2>1, Moves, <1>1 DEF EditAtOnce, Answer
    <3>. QED
      BY <1>1, <3>1, <3>2, <3>3 DEF ChangeIsNamed, KindInv
  <2>2. ASSUME NEW e \in Requests, CommitEdit(e) PROVE ChangeIsNamed(f)
    <3>1. /\ e \in Edits /\ pc'[e] # pc[e] /\ BodyOK(want[e])
          /\ \A g \in ConfigFields \ (DOMAIN want[e] \cup ServerFields \cup {"prepared"}) :
               config'[g] = config[g]
          /\ \A g \in ServerFields \ DOMAIN want[e] :
               config'[g] = config[g] \/ NamesOtherHalf(e, g)
      BY <1>1, <2>2, CommitWrites
    <3>2. f \in DOMAIN want[e] \/ NamesOtherHalf(e, f)
      BY <1>1, <3>1 DEF ConfigFields, ServerFields, Fields
    <3>3. want' = want
      BY <2>2 DEF CommitEdit
    <3>. QED
      BY <3>1, <3>2, <3>3 DEF ChangeIsNamed
  <2>3. ASSUME NEW s \in Requests, CommitSave(s) PROVE ChangeIsNamed(f)
    <3>1. /\ s \in Saves /\ pc'[s] # pc[s] /\ DOMAIN want[s] = {"deps"}
          /\ \A g \in ConfigFields \ {"deps"} : config'[g] = config[g]
      BY <1>1, <2>3, CommitMerges
    <3>2. f = "deps" /\ want' = want
      BY <1>1, <2>3, <3>1 DEF ConfigFields, Fields, CommitSave
    <3>. QED
      BY <3>1, <3>2 DEF ChangeIsNamed
  <2>4. ASSUME NEW r \in Requests, CommitCreate(r) \/ RestoreInstance(r) PROVE FALSE
    BY <1>1, <2>4, KindsAreDisjoint
       DEF CommitCreate, RestoreInstance, CreateInv, Creating, Underway, Requests
  <2>5. CASE ToggleLock
    <3>1. PICK b \in BOOLEAN : config' = [config EXCEPT !.locked = b]
      BY <2>5 DEF ToggleLock
    <3>2. f = "locked"
      BY <1>1, <2>0, <3>1 DEF ConfigOK, ConfigFields, Fields
    <3>. QED
      BY <2>5, <3>2 DEF ToggleLock, ChangeIsNamed
  <2>6. CASE ReassignPort
    <3>1. f = "port" /\ config'["port"] = "reassigned" /\ pc' = pc
      BY <1>1, <2>0, <2>6 DEF ReassignPort, ConfigOK, ConfigFields, Fields
    <3>. QED
      BY <3>1 DEF ChangeIsNamed
  <2>7. ASSUME NEW r \in Requests, BeginDelete(r) \/ FinishDelete(r) PROVE FALSE
    BY <1>1, <2>7 DEF BeginDelete, FinishDelete, Remove
  <2>. QED
    BY <1>1, <2>1, <2>2, <2>3, <2>4, <2>5, <2>6, <2>7
       DEF Next, Step, Busy, BeginEdit, RestartEnds, BeginSave, IdTaken, BeginCreate,
           InstallSucceeds, InstallFails, Validated, BeginDeleteVenv, RemoveVenv,
           BeginMigration, FinishMigration
<1>2. KindInv /\ CreateInv /\ [Next]_vars =>
        [config # None /\ config' # None =>
           \A f \in Fields \cup {"locked"} :
             config'[f] # config[f] => ChangeIsNamed(f)]_vars
  BY <1>1
<1>. QED
  BY <1>2, InitCreate, NextCreate, KindsAlways, PTL DEF Spec, EveryChangeIsNamed

-----------------------------------------------------------------------------
(***************************************************************************)
(* What a config lists is installed                                        *)
(***************************************************************************)

\* The packages d are in venv v, unless it was deleted under the config.
Ready(v, d) == d \subseteq installed[v] \/ WasDeleted(v)

\* Between its install and its commit a request has ready what it will write.
ReadyInv ==
  \A r \in Requests :
    pc[r] \in {"validate", "commit"} /\ Installs(r) => Ready(TargetVenv(r), TargetDeps(r))

\* Whoever takes the step has not ended, and only one that has not begun is asked.
LEMMA OthersRest ==
  ASSUME KindInv, NEW q \in Requests, Step(q)
  PROVE  /\ pc[q] \notin Answers
         /\ \A r \in Requests :
              r # q \/ pc[q] # "idle" => want'[r] = want[r] /\ read'[r] = read[r]
<1>1. CASE \/ Busy(q) \/ EditAtOnce(q) \/ BeginEdit(q) \/ BeginSave(q) \/ IdTaken(q) \/ BeginCreate(q)
           \/ RestoreInstance(q) \/ BeginDelete(q) \/ BeginDeleteVenv(q)
  <2>1. pc[q] = "idle"
    BY <1>1 DEF Busy, EditAtOnce, BeginEdit, BeginSave, IdTaken, BeginCreate, RestoreInstance,
                BeginDelete, BeginDeleteVenv
  <2>2. (want' = want \/ \E x : want' = [want EXCEPT ![q] = x])
        /\ (read' = read \/ \E x : read' = [read EXCEPT ![q] = x])
    BY <1>1 DEF Busy, EditAtOnce, BeginEdit, BeginSave, IdTaken, BeginCreate, RestoreInstance,
                BeginDelete, BeginDeleteVenv
  <2>. QED
    BY <2>1, <2>2 DEF KindInv, Answers
<1>2. CASE \/ CommitEdit(q) \/ RestartEnds(q) \/ CommitSave(q) \/ CommitCreate(q) \/ InstallSucceeds(q)
           \/ InstallFails(q) \/ Validated(q) \/ FinishDelete(q) \/ RemoveVenv(q)
  <2>1. UNCHANGED <<want, read>>
    BY <1>2 DEF CommitEdit, RestartEnds, CommitSave, CommitCreate, InstallSucceeds, InstallFails,
                Validated, FinishDelete, RemoveVenv
  <2>2. pc[q] \notin Answers
    BY <1>2 DEF CommitEdit, RestartEnds, CommitSave, CommitCreate, InstallSucceeds, InstallFails,
                Validated, FinishDelete, RemoveVenv, Answers
  <2>. QED
    BY <2>1, <2>2
<1>. QED
  BY <1>1, <1>2 DEF Step

LEMMA DeletedStays ==
  ASSUME KindInv, [Next]_vars, NEW v, WasDeleted(v)
  PROVE  WasDeleted(v)'
<1>1. PICK x \in VenvDeletes : pc[x] \in {"rmtree", "ok", "failed"} /\ want[x].venv = v
  BY DEF WasDeleted
<1>2. CASE UNCHANGED <<pc, want>>
  BY <1>1, <1>2 DEF WasDeleted
<1>3. ASSUME NEW q \in Requests, Step(q)
      PROVE  pc'[x] \in {"rmtree", "ok", "failed"} /\ want'[x] = want[x]
  <2>1. CASE x # q
    BY <1>1, <1>3, <2>1, OthersRest, OnlyOneMoves DEF Requests
  <2>2. CASE x = q
    <3>1. pc[x] = "rmtree"
      BY <1>1, <1>3, <2>2, OthersRest DEF Answers
    <3>2. RemoveVenv(x)
      BY <1>3, <2>2, <3>1, KindsAreDisjoint
         DEF Step, Busy, EditAtOnce, BeginEdit, CommitEdit, RestartEnds, BeginSave, CommitSave,
             IdTaken, BeginCreate, CommitCreate, RestoreInstance, InstallSucceeds, InstallFails,
             Validated, BeginDelete, FinishDelete, BeginDeleteVenv
    <3>3. want' = want /\ \E l \in {"rmtree", "ok", "failed"} : Goto(x, l)
      BY <3>2 DEF RemoveVenv
    <3>. QED
      BY <3>3, Moves DEF Requests
  <2>. QED
    BY <2>1, <2>2
<1>4. Next /\ ~(\E q \in Requests : Step(q)) => UNCHANGED <<pc, want>>
  BY DEF Next, ToggleLock, ReassignPort, BeginMigration, FinishMigration
<1>. QED
  BY <1>1, <1>2, <1>3, <1>4 DEF WasDeleted, vars

\* Venvs only grow, but for the one that delete_venv_endpoint removes.
LEMMA ReadyStays ==
  ASSUME KindInv, [Next]_vars, NEW v \in Venvs, NEW d, Ready(v, d)
  PROVE  Ready(v, d)'
<1>1. CASE WasDeleted(v)
  BY <1>1, DeletedStays DEF Ready
<1>2. CASE installed' = installed
  BY <1>1, <1>2 DEF Ready
<1>3. ASSUME NEW r \in Requests, installed' = WithTargets(r) PROVE Ready(v, d)'
  <2>1. installed[v] \subseteq installed'[v]
    BY <1>3 DEF WithTargets, KindInv
  <2>. QED
    BY <1>1, <2>1 DEF Ready
<1>4. ASSUME NEW x \in Requests, RemoveVenv(x) PROVE Ready(v, d)'
  <2>1. /\ \E left : installed' = [installed EXCEPT ![want[x].venv] = left]
        /\ want' = want /\ pc[x] = "rmtree"
        /\ \E l \in {"rmtree", "ok", "failed"} : Goto(x, l)
    BY <1>4 DEF RemoveVenv
  <2>2. pc'[x] \in {"rmtree", "ok", "failed"} /\ x \in VenvDeletes
    BY <2>1, Moves DEF KindInv, Labels, Answers, Requests
  <2>3. CASE want[x].venv = v
    BY <2>1, <2>2, <2>3 DEF Ready, WasDeleted
  <2>4. CASE want[x].venv # v
    <3>1. installed'[v] = installed[v]
      BY <2>1, <2>4 DEF KindInv
    <3>. QED
      BY <1>1, <3>1 DEF Ready
  <2>. QED
    BY <2>3, <2>4
<1>5. \/ installed' = installed \/ \E r \in Requests : installed' = WithTargets(r) \/ RemoveVenv(r)
  <2>1. ASSUME NEW q \in Requests, Step(q)
        PROVE  installed' \in {installed, WithTargets(q)} \/ RemoveVenv(q)
    BY <2>1 DEF Step, Busy, EditAtOnce, BeginEdit, CommitEdit, RestartEnds, BeginSave, CommitSave,
                IdTaken, BeginCreate, CommitCreate, RestoreInstance, InstallSucceeds, InstallFails,
                Validated, BeginDelete, FinishDelete, BeginDeleteVenv
  <2>. QED
    BY <2>1 DEF Next, ToggleLock, ReassignPort, BeginMigration, FinishMigration, vars
<1>. QED
  BY <1>2, <1>3, <1>4, <1>5

LEMMA TargetsOK ==
  ASSUME KindInv, NEW r \in Requests, pc[r] \in {"install", "validate", "commit"}
  PROVE  TargetVenv(r) \in Venvs
<1>1. pc[r] \in Labels(r) /\ Asked(r)
  BY DEF KindInv
<1>2. CASE r \in Edits
  <2>1. ConfigOK(Overlay(read[r], want[r]))
    BY <1>1, <1>2, OverlayOK, KindsAreDisjoint DEF Asked, Labels, Answers
  <2>. QED
    BY <1>2, <2>1, KindsAreDisjoint DEF TargetVenv, ConfigOK
<1>3. CASE r \in Saves
  BY <1>1, <1>3, KindsAreDisjoint DEF TargetVenv, Asked, ConfigOK
<1>4. CASE r \in Creating
  BY <1>1, <1>4 DEF TargetVenv, Asked, Creating, Underway
<1>5. r \in Edits \cup Saves \cup Creating
  BY <1>1 DEF Labels, Answers, Creating
<1>. QED
  BY <1>2, <1>3, <1>4, <1>5

LEMMA TargetsStay ==
  ASSUME NEW r \in Requests, want'[r] = want[r], read'[r] = read[r]
  PROVE  TargetVenv(r)' = TargetVenv(r) /\ TargetDeps(r)' = TargetDeps(r) /\ Installs(r)' = Installs(r)
  BY DEF TargetVenv, TargetDeps, Installs, Overlay

LEMMA ReadyStep == KindInv /\ ReadyInv /\ [Next]_vars => ReadyInv'
<1> SUFFICES ASSUME KindInv, ReadyInv, [Next]_vars, NEW r \in Requests,
                    pc'[r] \in {"validate", "commit"}, Installs(r)'
             PROVE  Ready(TargetVenv(r), TargetDeps(r))'
  BY DEF ReadyInv
<1>1. ASSUME NEW v, NEW d, v = TargetVenv(r), d = TargetDeps(r), Ready(v, d)',
             want'[r] = want[r], read'[r] = read[r]
      PROVE  Ready(TargetVenv(r), TargetDeps(r))'
  <2>1. v = TargetVenv(r)' /\ d = TargetDeps(r)'
    BY <1>1, TargetsStay
  <2>. QED
    BY <1>1, <2>1 DEF Ready
<1>2. ASSUME pc[r] \in {"validate", "commit"}, want'[r] = want[r], read'[r] = read[r]
      PROVE  Ready(TargetVenv(r), TargetDeps(r))'
  <2>1. PICK v, d : v = TargetVenv(r) /\ d = TargetDeps(r)
    OBVIOUS
  <2>2. Ready(v, d) /\ v \in Venvs
    BY <1>2, <2>1, TargetsStay, TargetsOK DEF ReadyInv
  <2>. QED
    BY <1>1, <1>2, <2>1, <2>2, ReadyStays
<1>3. CASE UNCHANGED <<pc, want, read>>
  BY <1>2, <1>3
<1>4. ASSUME NEW q \in Requests, Step(q), pc'[r] = pc[r]
      PROVE  Ready(TargetVenv(r), TargetDeps(r))'
  BY <1>2, <1>4, OthersRest
<1>5. ASSUME Step(r), pc'[r] # pc[r] PROVE Ready(TargetVenv(r), TargetDeps(r))'
  <2>1. CASE InstallSucceeds(r)
    <3>1. PICK v, d : v = TargetVenv(r) /\ d = TargetDeps(r)
      OBVIOUS
    <3>2. pc[r] = "install" /\ UNCHANGED <<want, read>> /\ v \in Venvs
      BY <2>1, <3>1, TargetsOK DEF InstallSucceeds
    <3>3. installed' = WithTargets(r)
      BY <2>1, <3>2, TargetsStay DEF InstallSucceeds
    <3>4. d \subseteq installed'[v]
      BY <3>1, <3>2, <3>3 DEF WithTargets, KindInv
    <3>. QED
      BY <1>1, <3>1, <3>2, <3>4 DEF Ready
  <2>2. CASE Validated(r)
    BY <1>2, <2>2 DEF Validated
  <2>3. InstallSucceeds(r) \/ Validated(r)
    <3>1. \/ Busy(r) \/ EditAtOnce(r) \/ BeginEdit(r) \/ CommitEdit(r) \/ RestartEnds(r)
          \/ BeginSave(r) \/ CommitSave(r) \/ IdTaken(r) \/ BeginCreate(r)
          => \E l : Goto(r, l) /\ l \notin {"validate", "commit"}
      BY DEF Busy, EditAtOnce, BeginEdit, CommitEdit, RestartEnds, BeginSave, CommitSave, IdTaken,
             BeginCreate, Answer
    <3>2. CommitCreate(r) \/ RestoreInstance(r) \/ InstallFails(r)
          => Goto(r, "ok") \/ Goto(r, "failed") \/ Goto(r, "commit_unprepared")
      BY DEF CommitCreate, RestoreInstance, InstallFails
    <3>3. BeginDelete(r) \/ FinishDelete(r) \/ BeginDeleteVenv(r) \/ RemoveVenv(r)
          => \E l : Goto(r, l) /\ l \notin {"validate", "commit"}
      BY DEF BeginDelete, FinishDelete, BeginDeleteVenv, RemoveVenv, Remove
    <3>. QED
      BY <1>5, <3>1, <3>2, <3>3, Moves DEF Step
  <2>. QED
    BY <2>1, <2>2, <2>3
<1>6. \/ UNCHANGED <<pc, want, read>> \/ \E q \in Requests : Step(q)
  BY DEF Next, ToggleLock, ReassignPort, BeginMigration, FinishMigration, vars
<1>. QED
  BY <1>3, <1>4, <1>5, <1>6, OnlyOneMoves

\* A commit marks as prepared what its request has ready.
LEMMA CommitsReady ==
  ASSUME KindInv, ReadyInv, SavedIsPrepared, NEW r \in Requests,
         CommitEdit(r) \/ CommitSave(r), config' # config, config'["prepared"]
  PROVE  config'["venv"] \in Venvs /\ Ready(config'["venv"], config'["deps"])
<1>1. CASE CommitEdit(r)
  <2>1. /\ r \in Edits /\ pc[r] = "commit" /\ ConfigOK(config) /\ ConfigOK(read[r]) /\ BodyOK(want[r])
        /\ config.venv = read[r].venv /\ config.deps = read[r].deps
        /\ \A f \in ConfigFields \ (DOMAIN want[r] \cup ServerFields \cup {"prepared"}) :
             config'[f] = config[f]
        /\ \A f \in {"venv", "deps"} \cap DOMAIN want[r] : config'[f] = want[r][f]
    BY <1>1, CommitWrites
  <2>2. /\ Overlay(read[r], want[r])["venv"] = config'["venv"]
        /\ Overlay(read[r], want[r])["deps"] = config'["deps"]
    BY <2>1 DEF Overlay, ConfigOK, ConfigFields, ServerFields
  <2>3. TargetVenv(r) = config'["venv"] /\ TargetDeps(r) = config'["deps"] /\ Installs(r)
    BY <2>1, <2>2, KindsAreDisjoint DEF TargetVenv, TargetDeps, Installs
  <2>. QED
    BY <2>1, <2>3, TargetsOK DEF ReadyInv
<1>2. CASE CommitSave(r)
  <2>1. /\ r \in Saves /\ pc[r] = "commit" /\ config # None /\ ConfigOK(config)
        /\ config.venv = read[r].venv
        /\ \A f \in ConfigFields \ {"deps"} : config'[f] = config[f]
        /\ \/ config'["deps"] = config["deps"]
           \/ config'["deps"] = config["deps"] \cup want[r].deps /\ Installs(r)
    BY <1>2, CommitMerges
  <2>2. config'["venv"] = config.venv /\ config.prepared /\ config.venv \in Venvs
    BY <2>1 DEF ConfigOK, ConfigFields
  <2>3. Ready(config.venv, config.deps)
    BY <2>1, <2>2 DEF SavedIsPrepared, Ready
  <2>4. TargetVenv(r) = config.venv /\ want[r].deps \subseteq TargetDeps(r)
    BY <2>1, KindsAreDisjoint DEF TargetVenv, TargetDeps
  <2>5. Installs(r) => Ready(config.venv, want[r].deps)
    BY <2>1, <2>4 DEF ReadyInv, Ready
  <2>. QED
    BY <2>1, <2>2, <2>3, <2>5 DEF Ready
<1>. QED
  BY <1>1, <1>2

\* A step leaves what the config lists where it is, or names what is ready.
LEMMA SavedStep == KindInv /\ CreateInv /\ ReadyInv /\ SavedIsPrepared /\ [Next]_vars => SavedIsPrepared'
<1> SUFFICES ASSUME KindInv, CreateInv, ReadyInv, SavedIsPrepared, [Next]_vars,
                    config' # None, config'["prepared"]
             PROVE  Ready(config.venv, config.deps)'
  BY DEF SavedIsPrepared, Ready
<1>1. ASSUME NEW v \in Venvs, NEW d, v = config'["venv"], d = config'["deps"], Ready(v, d)
      PROVE  Ready(config.venv, config.deps)'
  <2>1. Ready(v, d)'
    BY <1>1, ReadyStays
  <2>. QED
    BY <1>1, <2>1 DEF Ready
<1>2. ASSUME config # None, config'["prepared"] = config["prepared"],
             config'["venv"] = config["venv"], config'["deps"] = config["deps"]
      PROVE  Ready(config.venv, config.deps)'
  BY <1>1, <1>2 DEF SavedIsPrepared, Ready, KindInv, ConfigOK
<1>3. CASE config' = config
  BY <1>2, <1>3
<1>4. ASSUME NEW e \in Requests, EditAtOnce(e) PROVE Ready(config.venv, config.deps)'
  <2>1. PICK b \in Bodies(e) : ~Prepares(b) /\ config # None /\ config' = Overlay(config, b)
    BY <1>4 DEF EditAtOnce, MayBegin
  <2>2. config'["venv"] = config["venv"] /\ config'["deps"] = config["deps"]
    BY <2>1 DEF Prepares
  <2>3. config'["prepared"] = config["prepared"]
    BY <2>1, BodiesOK, OverlayOK DEF KindInv, BodyOK, Fields, ConfigFields
  <2>. QED
    BY <1>2, <2>1, <2>2, <2>3
<1>5. ASSUME NEW r \in Requests, CommitEdit(r) \/ CommitSave(r), config' # config
      PROVE  Ready(config.venv, config.deps)'
  BY <1>1, <1>5, CommitsReady
<1>6. ASSUME NEW r \in Requests, CommitCreate(r) PROVE Ready(config.venv, config.deps)'
  <2>1. /\ r \in Creating
        /\ \E lock : config' = NewConfig(r, want[r], lock, pc[r] = "commit")
    BY <1>6 DEF CommitCreate, Creating
  <2>2. config'["venv"] = want[r].venv /\ config'["deps"] = want[r].deps
    BY <2>1 DEF NewConfig
  <2>5. pc[r] = "commit"
    <3>1. config'["prepared"] = (pc[r] = "commit")
      <4>1. PICK lock : config' = NewConfig(r, want[r], lock, pc[r] = "commit")
        BY <2>1
      <4>2. NewConfig(r, want[r], lock, pc[r] = "commit")["prepared"] = (pc[r] = "commit")
        BY Zenon DEF NewConfig
      <4>. QED
        BY <4>1, <4>2, Zenon
    <3>. QED
      BY <3>1
  <2>3. TargetVenv(r) = want[r].venv /\ TargetDeps(r) = want[r].deps /\ Installs(r)
    BY <2>1, KindsAreDisjoint DEF Creating, TargetVenv, TargetDeps, Installs
  <2>4. want[r].venv \in Venvs
    BY <2>1, <2>5 DEF KindInv, Asked, Underway
  <2>. QED
    BY <1>1, <2>2, <2>3, <2>4, <2>5 DEF ReadyInv
<1>7. ASSUME NEW r \in Requests, RestoreInstance(r) PROVE FALSE
  BY <1>7 DEF RestoreInstance, NewConfig
<1>8. CASE ToggleLock \/ ReassignPort
  <2>1. /\ config # None
        /\ \/ \E b \in BOOLEAN : config' = [config EXCEPT !.locked = b]
           \/ config' = [config EXCEPT !.port = "reassigned"]
    BY <1>8 DEF ToggleLock, ReassignPort
  <2>2. /\ config'["prepared"] = config["prepared"]
        /\ config'["venv"] = config["venv"] /\ config'["deps"] = config["deps"]
    BY <2>1 DEF KindInv, ConfigOK, ConfigFields
  <2>. QED
    BY <1>2, <2>1, <2>2
<1>9. ASSUME NEW r \in Requests, Step(r)
      PROVE  \/ EditAtOnce(r) \/ CommitEdit(r) \/ CommitSave(r) \/ CommitCreate(r) \/ RestoreInstance(r)
             \/ config' \in {config, None}
  BY <1>9 DEF Step, Busy, BeginEdit, RestartEnds, BeginSave, IdTaken, BeginCreate, InstallSucceeds,
              InstallFails, Validated, BeginDelete, FinishDelete, Remove, BeginDeleteVenv, RemoveVenv
<1>. QED
  BY <1>3, <1>4, <1>5, <1>6, <1>7, <1>8, <1>9
     DEF Next, BeginMigration, FinishMigration, vars

\* What a saved config lists is in its venv, whoever wrote either and whenever.
THEOREM ConfigsArePrepared == Spec => []SavedIsPrepared
<1>1. Init => ReadyInv /\ SavedIsPrepared
  <2> SUFFICES ASSUME Init PROVE ReadyInv /\ SavedIsPrepared
    OBVIOUS
  <2>1. ReadyInv
    BY DEF Init, ReadyInv
  <2>2. SavedIsPrepared
    BY DEF Init, SavedIsPrepared, InitialConfig
  <2>. QED
    BY <2>1, <2>2
<1>. QED
  BY <1>1, InitCreate, NextCreate, KindsAlways, ReadyStep, SavedStep, PTL DEF Spec
=============================================================================
