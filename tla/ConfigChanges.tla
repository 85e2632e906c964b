---------------------------- MODULE ConfigChanges ----------------------------
(***************************************************************************)
(* Who may write the config and the tool file of one instance id, and      *)
(* against what state: update_config, save_tool_code (update_from_example  *)
(* ends in it), lock and unlock, the port the start route reassigns,       *)
(* delete_instance, the two ways to create (_provision_new_tool and        *)
(* _import_mcp_config), delete_venv_endpoint and the specs migration.      *)
(*                                                                         *)
(* A *request* is one call of a route.  Routes are coroutines of one event *)
(* loop: what lies between two awaits is one step, and only installs,      *)
(* validations, stops and restarts, which run in worker threads, let       *)
(* others in.  A value is represented by the request that wrote it, so     *)
(* that a lost write shows.  The fields that update_config treats alike    *)
(* (name, description, category, values, ...) are one, "name".             *)
(***************************************************************************)
EXTENDS FiniteSets

CONSTANTS
  Edits,        \* calls of update_config
  Saves,        \* calls of save_tool_code
  Creates,      \* calls of _provision_new_tool
  Imports,      \* calls of _import_mcp_config, or of _restore_instance
  Deletes,      \* calls of delete_instance
  VenvDeletes,  \* calls of delete_venv_endpoint
  Editable,     \* the fields that the bodies of update_config name
  Reassigns,    \* BOOLEAN: does the start route find the port taken?
  Migrates,     \* BOOLEAN: does the specs migration run?
  Venvs, DefaultVenv,
  Packages,
  None

Requests == Edits \cup Saves \cup Creates \cup Imports \cup Deletes \cup VenvDeletes

Fields == {"name", "host", "port", "venv", "deps"}

ASSUME KindsAreDisjoint ==
  /\ Edits \cap (Saves \cup Creates \cup Imports \cup Deletes \cup VenvDeletes) = {}
  /\ Saves \cap (Creates \cup Imports \cup Deletes \cup VenvDeletes) = {}
  /\ Creates \cap (Imports \cup Deletes \cup VenvDeletes) = {}
  /\ Imports \cap (Deletes \cup VenvDeletes) = {}
  /\ Deletes \cap VenvDeletes = {}
  /\ Editable \subseteq Fields
  /\ DefaultVenv \in Venvs /\ None \notin Requests \cup Venvs

VARIABLES
  config,     \* configs/<id>.json, or None
  toolFile,   \* tools/<id>.json: whose code, and whose specs; or None
  installed,  \* installed[v]: the packages in venv v
  held,       \* the request that holds instance_lock(id), or None
  creating,   \* the request that reserved the id, or None
  pc,         \* where a request stands, or how it ended
  read,       \* read[r]: the config as r read it when it began
  want,       \* want[r]: what r was asked to write, by field
  migration   \* the code the specs migration has read, or where it stands

vars == <<config, toolFile, installed, held, creating, pc, read, want, migration>>

\* MCPConfig.  "prepared" is in no file: it is FALSE for an import whose install
\* failed, until an edit installs what the config lists.
Config == [locked: BOOLEAN, prepared: BOOLEAN,
           name: Requests \cup {"initial"}, host: Requests \cup {"initial"},
           port: Requests \cup {"initial", "reassigned"},
           venv: Venvs, deps: SUBSET Packages]

ToolFile == [code: Requests \cup {"initial"}, specs: Requests \cup {"initial", "stale"}]

ASSUME NoneIsNoFile == None \notin ToolFile

Awaiting == {"install", "validate", "commit", "commit_unprepared", "restart", "stop", "rmtree"}
Answers  == {"ok", "refused", "failed", "conflict"}
Returned(r) == pc[r] \in Answers

Goto(r, label) == pc' = [pc EXCEPT ![r] = label]

\* Setting the fields that b names.
Overlay(c, b) == [f \in DOMAIN c |-> IF f \in DOMAIN b THEN b[f] ELSE c[f]]

\* The bodies update_config accepts: any of the fields, with r's own values.
Bodies(r) ==
  {[f \in N |-> CASE f = "venv" -> v [] f = "deps" -> d [] OTHER -> r] :
     N \in SUBSET Editable, v \in Venvs, d \in SUBSET Packages}

\* ServerConfig is rebuilt as a whole if the body names either part of it.
ServerFields == {"host", "port"}

NewConfig(r, b, lock, ok) ==
  [locked |-> lock, prepared |-> ok, name |-> r, host |-> r, port |-> r,
   venv |-> b["venv"], deps |-> b["deps"]]

InitialConfig ==
  [locked |-> FALSE, prepared |-> TRUE, name |-> "initial", host |-> "initial",
   port |-> "initial", venv |-> DefaultVenv, deps |-> {}]

Init ==
  /\ \/ config = None /\ toolFile = None
     \/ config = InitialConfig
        /\ toolFile \in [code: {"initial"}, specs: {"initial", "stale"}]
  /\ installed = [v \in Venvs |-> {}]
  /\ held = None /\ creating = None
  /\ pc = [r \in Requests |-> "idle"]
  /\ read = [r \in Requests |-> None]
  /\ want = [r \in Requests |-> <<>>]
  /\ migration = "idle"

-----------------------------------------------------------------------------
(***************************************************************************)
(* update_config                                                           *)
(***************************************************************************)

\* instance_lock is not waited for, a locked or missing instance is not edited.
MayBegin(r) == held = None /\ config # None /\ ~config.locked

Busy(r) ==
  /\ r \in Edits \cup Saves /\ pc[r] = "idle"
  /\ ~MayBegin(r)
  /\ Goto(r, "refused")
  /\ UNCHANGED <<config, toolFile, installed, held, creating, read, want, migration>>

\* Only another venv or another dependency list has to be installed first.
Prepares(b) == \E f \in {"venv", "deps"} : Overlay(config, b)[f] # config[f]

\* After the write the instance may be restarted, still under the lock.
Answer(r) ==
  \/ Goto(r, "ok") /\ held' = None
  \/ Goto(r, "restart") /\ held' = r

EditAtOnce(e) ==
  /\ e \in Edits /\ pc[e] = "idle" /\ MayBegin(e)
  /\ \E b \in Bodies(e) :
       /\ ~Prepares(b)
       /\ config' = Overlay(config, b)
       /\ want' = [want EXCEPT ![e] = b]
  /\ Answer(e)
  /\ UNCHANGED <<toolFile, installed, creating, read, migration>>

BeginEdit(e) ==
  /\ e \in Edits /\ pc[e] = "idle" /\ MayBegin(e)
  /\ \E b \in Bodies(e) : Prepares(b) /\ want' = [want EXCEPT ![e] = b]
  /\ read' = [read EXCEPT ![e] = config]
  /\ held' = e
  /\ Goto(e, "install")
  /\ UNCHANGED <<config, toolFile, installed, creating, migration>>

\* What the commit writes: the fields the body names, and with one half of the
\* server the other half as it was read before the install.
Written(e) ==
  LET server == IF DOMAIN want[e] \cap ServerFields = {} THEN {} ELSE ServerFields
      cfg    == Overlay(read[e], want[e])
  IN  [f \in DOMAIN want[e] \cup server |-> cfg[f]]

\* Fault: the config is written back as it was read.
CommitEditSnapshot(e) ==
  /\ e \in Edits /\ pc[e] = "commit"
  /\ LET unchanged == config # None /\ ~config.locked
     IN \/ unchanged /\ Answer(e)
           /\ config' = [Overlay(read[e], want[e]) EXCEPT !.prepared = TRUE]
        \/ ~unchanged /\ Goto(e, "conflict") /\ held' = None /\ UNCHANGED config
  /\ UNCHANGED <<toolFile, installed, creating, read, want, migration>>

\* Fault: nobody asks whether the venv prepared is still the one.
CommitEditUnasked(e) ==
  /\ e \in Edits /\ pc[e] = "commit"
  /\ LET unchanged == config # None /\ ~config.locked
     IN \/ unchanged /\ Answer(e)
           /\ config' = [Overlay(config, Written(e)) EXCEPT !.prepared = TRUE]
        \/ ~unchanged /\ Goto(e, "conflict") /\ held' = None /\ UNCHANGED config
  /\ UNCHANGED <<toolFile, installed, creating, read, want, migration>>

\* Read again, ask again, write.
CommitEdit(e) ==
  /\ e \in Edits /\ pc[e] = "commit"
  /\ LET unchanged == /\ config # None /\ ~config.locked
                      /\ config.venv = read[e].venv /\ config.deps = read[e].deps
     IN \/ unchanged /\ Answer(e)
           /\ config' = [Overlay(config, Written(e)) EXCEPT !.prepared = TRUE]
        \/ ~unchanged /\ Goto(e, "conflict") /\ held' = None /\ UNCHANGED config
  /\ UNCHANGED <<toolFile, installed, creating, read, want, migration>>

RestartEnds(r) ==
  /\ pc[r] = "restart"
  /\ Goto(r, "ok") /\ held' = None
  /\ UNCHANGED <<config, toolFile, installed, creating, read, want, migration>>

-----------------------------------------------------------------------------
(***************************************************************************)
(* save_tool_code                                                          *)
(***************************************************************************)

\* The venv is made ready even if no dependency is new.
BeginSave(s) ==
  /\ s \in Saves /\ pc[s] = "idle" /\ MayBegin(s)
  /\ \E needs \in SUBSET Packages : want' = [want EXCEPT ![s] = [deps |-> needs]]
  /\ read' = [read EXCEPT ![s] = config]
  /\ held' = s
  /\ Goto(s, "install")
  /\ UNCHANGED <<config, toolFile, installed, creating, migration>>

\* Fault: the lock flag is asked at the door only.
CommitSaveUnasked(s) ==
  /\ s \in Saves /\ pc[s] = "commit"
  /\ LET unchanged == config # None /\ config.venv = read[s].venv
         grown     == ~(want[s].deps \subseteq read[s].deps)
     IN \/ /\ unchanged
           /\ config' = [config EXCEPT !.deps = IF grown THEN @ \cup want[s].deps ELSE @]
           /\ toolFile' = [code |-> s, specs |-> s]
           /\ Answer(s)
        \/ ~unchanged /\ Goto(s, "conflict") /\ held' = None /\ UNCHANGED <<config, toolFile>>
  /\ UNCHANGED <<installed, creating, read, want, migration>>

\* The declared packages are merged onto the list as it stands now.
CommitSave(s) ==
  /\ s \in Saves /\ pc[s] = "commit"
  /\ LET unchanged == config # None /\ ~config.locked /\ config.venv = read[s].venv
         grown     == ~(want[s].deps \subseteq read[s].deps)
     IN \/ /\ unchanged
           /\ config' = [config EXCEPT !.deps = IF grown THEN @ \cup want[s].deps ELSE @]
           /\ toolFile' = [code |-> s, specs |-> s]
           /\ Answer(s)
        \/ ~unchanged /\ Goto(s, "conflict") /\ held' = None /\ UNCHANGED <<config, toolFile>>
  /\ UNCHANGED <<installed, creating, read, want, migration>>

-----------------------------------------------------------------------------
(***************************************************************************)
(* Creating                                                                *)
(***************************************************************************)

\* Fault: only the reservations are looked up.
ReserveTaken(r) == creating = None /\ creating' = r

\* reserve_id: the id is neither taken nor being created.
Reserve(r) == config = None /\ creating = None /\ creating' = r

IdTaken(r) ==
  /\ r \in Creates \cup Imports /\ pc[r] = "idle"
  /\ config # None \/ creating # None
  /\ Goto(r, "refused")
  /\ UNCHANGED <<config, toolFile, installed, held, creating, read, want, migration>>

\* An import copies its source to the tool file before the install.
BeginCreate(r) ==
  /\ r \in Creates \cup Imports /\ pc[r] = "idle"
  /\ Reserve(r)
  /\ \E v \in Venvs, d \in SUBSET Packages : want' = [want EXCEPT ![r] = [venv |-> v, deps |-> d]]
  /\ toolFile' = IF r \in Imports THEN [code |-> r, specs |-> "stale"] ELSE toolFile
  /\ Goto(r, "install")
  /\ UNCHANGED <<config, installed, held, read, migration>>

\* The last steps of a create and of an import run without an await.  What is
\* imported may be a config that is locked already.
CommitCreate(r) ==
  /\ r \in Creates \cup Imports /\ pc[r] \in {"commit", "commit_unprepared"}
  /\ \E lock \in IF r \in Imports THEN BOOLEAN ELSE {FALSE} :
       config' = NewConfig(r, want[r], lock, pc[r] = "commit")
  /\ toolFile' = IF r \in Creates THEN [code |-> r, specs |-> r] ELSE toolFile
  /\ creating' = None
  /\ Goto(r, IF pc[r] = "commit" THEN "ok" ELSE "failed")
  /\ UNCHANGED <<installed, held, read, want, migration>>

\* _restore_instance writes tool file and config in one go, if the id is neither
\* taken nor being created.  What an archive lists is not installed by that.
RestoreInstance(r) ==
  /\ r \in Imports /\ pc[r] = "idle"
  /\ config = None /\ creating = None
  /\ \E v \in Venvs, d \in SUBSET Packages, lock \in BOOLEAN :
       config' = NewConfig(r, [venv |-> v, deps |-> d], lock, FALSE)
  /\ toolFile' \in {[code |-> r, specs |-> sp] : sp \in {r, "stale"}}
  /\ Goto(r, "ok")
  /\ UNCHANGED <<installed, held, creating, read, want, migration>>

-----------------------------------------------------------------------------
(***************************************************************************)
(* install_dependencies and validate_tool_code, in a worker thread         *)
(***************************************************************************)

\* What a request installs where.
TargetVenv(r) == IF r \in Creates \cup Imports THEN want[r]["venv"]
                 ELSE IF r \in Edits THEN Overlay(read[r], want[r])["venv"] ELSE read[r].venv
TargetDeps(r) == IF r \in Edits THEN Overlay(read[r], want[r])["deps"]
                 ELSE IF r \in Saves THEN read[r].deps \cup want[r].deps ELSE want[r]["deps"]

\* A save without a new dependency only makes sure of the venv.
Installs(r) == r \in Saves => ~(want[r].deps \subseteq read[r].deps)

WithTargets(r) == [installed EXCEPT ![TargetVenv(r)] = @ \cup TargetDeps(r)]

InstallSucceeds(r) ==
  /\ pc[r] = "install"
  /\ installed' = IF Installs(r) THEN WithTargets(r) ELSE installed
  /\ Goto(r, IF r \in Saves \cup Creates THEN "validate" ELSE "commit")
  /\ UNCHANGED <<config, toolFile, held, creating, read, want, migration>>

\* Fault: a failure returns without letting go of what is held.
AbandonHolding(r) == UNCHANGED <<held, creating>>

\* Leaving the with blocks: instance_lock, reserve_id.
Abandon(r) ==
  /\ held' = IF held = r THEN None ELSE held
  /\ creating' = IF creating = r THEN None ELSE creating

\* pip may leave the packages behind ("installed, but inconsistent").  An import
\* goes on and saves a config that says so, everything else is over.
InstallFails(r) ==
  /\ pc[r] = "install"
  /\ installed' \in {installed, WithTargets(r)}
  /\ IF r \in Imports
       THEN Goto(r, "commit_unprepared") /\ UNCHANGED <<held, creating>>
       ELSE Goto(r, "failed") /\ Abandon(r)
  /\ UNCHANGED <<config, toolFile, read, want, migration>>

Validated(r) ==
  /\ pc[r] = "validate"
  /\ \/ Goto(r, "commit") /\ UNCHANGED <<held, creating>>
     \/ Goto(r, "failed") /\ Abandon(r)
  /\ UNCHANGED <<config, toolFile, installed, read, want, migration>>

-----------------------------------------------------------------------------
(***************************************************************************)
(* Routes that do not take instance_lock                                   *)
(***************************************************************************)

ToggleLock ==
  /\ config # None
  /\ \E b \in BOOLEAN : config' = [config EXCEPT !.locked = b]
  /\ UNCHANGED <<toolFile, installed, held, creating, pc, read, want, migration>>

\* The start route, and auto-start: a busy port is replaced and saved.
ReassignPort ==
  /\ Reassigns /\ config # None
  /\ config' = [config EXCEPT !.port = "reassigned"]
  /\ UNCHANGED <<toolFile, installed, held, creating, pc, read, want, migration>>

\* Fault: the tool file goes although there was no config to delete.
RemoveRegardless(d) ==
  /\ config' = None /\ toolFile' = None
  /\ Goto(d, IF config = None THEN "refused" ELSE "ok")

\* delete_config, then the tool file of the config that was there.
Remove(d) ==
  \/ config = None /\ Goto(d, "refused") /\ UNCHANGED <<config, toolFile>>
  \/ config # None /\ Goto(d, "ok") /\ config' = None /\ toolFile' = None

\* Whether the instance runs is not modelled here: it may.
BeginDelete(d) ==
  /\ d \in Deletes /\ pc[d] = "idle"
  /\ \/ config # None /\ config.locked /\ Goto(d, "refused") /\ UNCHANGED <<config, toolFile>>
     \/ config # None /\ ~config.locked /\ Goto(d, "stop") /\ UNCHANGED <<config, toolFile>>
     \/ (config # None => ~config.locked) /\ Remove(d)
  /\ UNCHANGED <<installed, held, creating, read, want, migration>>

\* The stop is awaited; then the instance goes, whatever it is by now.
FinishDelete(d) ==
  /\ d \in Deletes /\ pc[d] = "stop"
  /\ \/ Goto(d, "failed") /\ UNCHANGED <<config, toolFile>>
     \/ Remove(d)
  /\ UNCHANGED <<installed, held, creating, read, want, migration>>

BeginDeleteVenv(x) ==
  /\ x \in VenvDeletes /\ pc[x] = "idle"
  /\ \E v \in Venvs :
       IF v = DefaultVenv \/ (config # None /\ config.venv = v)
         THEN Goto(x, "refused") /\ UNCHANGED want
         ELSE Goto(x, "rmtree") /\ want' = [want EXCEPT ![x] = [venv |-> v]]
  /\ UNCHANGED <<config, toolFile, installed, held, creating, read, migration>>

\* rmtree takes one package after the other, beside any pip in the same venv, and
\* raises half way if it meets what it cannot remove.
RemoveVenv(x) ==
  /\ pc[x] = "rmtree"
  /\ \E left \in SUBSET installed[want[x].venv] :
       /\ installed' = [installed EXCEPT ![want[x].venv] = left]
       /\ \/ Goto(x, "rmtree")
          \/ left = {} /\ Goto(x, "ok")
          \/ Goto(x, "failed")
  /\ UNCHANGED <<config, toolFile, held, creating, read, want, migration>>

\* _migrate_tool_specs reads the file, validates its code in a thread ...
BeginMigration ==
  /\ Migrates /\ migration = "idle"
  /\ migration' = IF config # None /\ toolFile # None /\ toolFile.specs = "stale"
                    THEN toolFile.code ELSE "done"
  /\ UNCHANGED <<config, toolFile, installed, held, creating, pc, read, want>>

\* ... and writes back the whole file it had read, with the specs of its code.
FinishMigration ==
  /\ migration \notin {"idle", "done"}
  /\ toolFile' \in {toolFile, [code |-> migration, specs |-> migration]}
  /\ migration' = "done"
  /\ UNCHANGED <<config, installed, held, creating, pc, read, want>>

-----------------------------------------------------------------------------
Step(r) ==
  \/ Busy(r) \/ EditAtOnce(r) \/ BeginEdit(r) \/ CommitEdit(r) \/ RestartEnds(r)
  \/ BeginSave(r) \/ CommitSave(r)
  \/ IdTaken(r) \/ BeginCreate(r) \/ CommitCreate(r) \/ RestoreInstance(r)
  \/ InstallSucceeds(r) \/ InstallFails(r) \/ Validated(r)
  \/ BeginDelete(r) \/ FinishDelete(r)
  \/ BeginDeleteVenv(r) \/ RemoveVenv(r)

Next == \/ \E r \in Requests : Step(r)
        \/ ToggleLock \/ ReassignPort
        \/ BeginMigration \/ FinishMigration

Spec == Init /\ [][Next]_vars

-----------------------------------------------------------------------------
(***************************************************************************)
(* Properties                                                              *)
(***************************************************************************)

TypeOK ==
  /\ config = None \/ config \in Config
  /\ toolFile = None \/ toolFile \in ToolFile
  /\ installed \in [Venvs -> SUBSET Packages]
  /\ held \in Edits \cup Saves \cup {None}
  /\ creating \in Creates \cup Imports \cup {None}
  /\ pc \in [Requests -> Awaiting \cup Answers \cup {"idle"}]
  /\ \A r \in Requests : read[r] = None \/ read[r] \in Config
  /\ \A r \in Requests : DOMAIN want[r] \subseteq Fields
  /\ migration \in Requests \cup {"initial", "idle", "done"}

\* "A failed install must not leave the config pointing at an unprepared venv":
\* what a config lists is in its venv, though the config, the venv and the
\* packages were written by different requests, minutes apart, and although the
\* instance may have been deleted and created again in between.  A venv that
\* delete_venv_endpoint has removed, in whole or in part, is excepted: it asks the
\* saved configs only, once, and nothing puts back what an rmtree that failed took.
WasDeleted(v) ==
  \E x \in VenvDeletes : pc[x] \in {"rmtree", "ok", "failed"} /\ want[x].venv = v

SavedIsPrepared ==
  config # None /\ config.prepared =>
    config.deps \subseteq installed[config.venv] \/ WasDeleted(config.venv)

\* The lock protects: while an instance is locked, no edit or save that began
\* before it was locked touches its config or its code, and no create does.
LockedIsUntouched ==
  [][\A r \in Requests \ Deletes :
       config # None /\ config.locked /\ pc'[r] # pc[r] =>
         config' = config /\ toolFile' = toolFile]_vars

\* A commit minutes after the read writes what its request named: whatever was
\* locked, renamed, reassigned, created anew or added meanwhile stays.  One
\* exception is in the code: an edit that names only one half of the server
\* writes the other half back as it had read it, over a port that the start route
\* has reassigned meanwhile.  (Deleting and creating replace the whole config.)
NamesOtherHalf(r, f) ==
  /\ f \in ServerFields /\ DOMAIN want'[r] \cap ServerFields # {}
  /\ config'[f] = read[r][f]

ChangeIsNamed(f) ==
  \/ f = "locked" /\ pc' = pc
  \/ f = "port" /\ config'["port"] = "reassigned" /\ pc' = pc
  \/ \E r \in Edits \cup Saves :
       pc'[r] # pc[r] /\ (f \in DOMAIN want'[r] \/ NamesOtherHalf(r, f))

EveryChangeIsNamed ==
  [][config # None /\ config' # None =>
       \A f \in Fields \cup {"locked"} :
          config'[f] # config[f] => ChangeIsNamed(f)]_vars

\* A create that is answered "ok" has never overwritten another instance.
CreatesNeverOverwrite ==
  [][\A r \in Creates \cup Imports : CommitCreate(r) => config = None]_vars

\* No order of creates, imports, saves and deletes leaves a config without the
\* tool file it names.
ConfigHasToolFile == config # None => toolFile # None

\* instance_lock and the reserved id belong to a request exactly as long as it is
\* under way: two never are at once, and neither is left behind on any path.
HeldWhileUnderway ==
  /\ \A r \in Edits \cup Saves : held = r <=> pc[r] \in Awaiting
  /\ \A r \in Creates \cup Imports : creating = r <=> pc[r] \in Awaiting
=============================================================================
