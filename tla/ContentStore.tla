---------------------------- MODULE ContentStore ----------------------------
(***************************************************************************)
(* The files an instance produces (app/content_store.py): its folder, the    *)
(* secret that download links are derived from, and the sweeps that empty    *)
(* the folder.  A runner and the manager share the folder and the secret     *)
(* file, and nothing else; each keeps the secret it once read.               *)
(***************************************************************************)
EXTENDS Naturals, FiniteSets

CONSTANTS
  Names,         \* the file names a tool writes under
  Quota,         \* content_max_mb, in files
  Retention,     \* content_retention_days
  Sweeps,        \* the clean-ups that may be under way at once
  KeepRunners,   \* whether runners live on while the secret is taken away
  MaxDay,        \* bound on the days
  MaxKeys,       \* bound on the secrets ever drawn
  Absent, Short, \* no secret file; one that is too short to be a secret
  None

ASSUME StoreNumbers == {Quota, Retention, MaxDay, MaxKeys} \subseteq Nat

\* A secret is none of the things a file without one holds.
ASSUME KeysAreKeys == {Absent, Short, None} \cap (1..MaxKeys) = {}

VARIABLES
  day,
  files,         \* [Names -> the day the file was last written, or None]
  manager,       \* "down", "starting" or "up"
  key,           \* what the secret file holds
  drawn,         \* the secrets drawn so far
  cache,         \* [Procs -> the secret the process keeps]
  mint,          \* [Procs -> where the process is in ensure_secret]
  links,         \* the links handed out: a file and the secret its token is from
  sweep          \* [Sweeps -> the files still to go, whether the whole folder goes,
                 \* and the files that may stay: written since, or not removable]
storeVars == <<day, files, manager, key, drawn, cache, mint, links, sweep>>

Procs == {"manager", "runner"}

IsSecret(k) == k \notin {Absent, Short}

Present == {n \in Names : files[n] # None}

IsFull == Quota > 0 /\ Cardinality(Present) >= Quota

NoSweep == [doomed |-> {}, whole |-> FALSE, excused |-> {}]

StoreInit ==
  /\ day = 0 /\ files = [n \in Names |-> None]
  /\ manager = "down" /\ key \in {Absent, Short} /\ drawn = 0
  /\ cache = [p \in Procs |-> None] /\ mint = [p \in Procs |-> "idle"]
  /\ links = {} /\ sweep = [s \in Sweeps |-> NoSweep]

---------------------------------------------------------------------------
\* ensure_secret: a secret of 32 characters in the file is the secret; if there
\* is none the process creates the file, and writes it in a second step.

Keeps(p, k) ==
  /\ cache' = [cache EXCEPT ![p] = k]
  /\ mint' = [mint EXCEPT ![p] = "idle"]

ReadKey(p) ==
  /\ mint[p] = "read"
  /\ IF IsSecret(key)
     THEN Keeps(p, key)
     ELSE mint' = [mint EXCEPT ![p] = "create"] /\ UNCHANGED cache
  /\ UNCHANGED <<key, drawn>>

CreateKey(p) ==
  /\ mint[p] = "create"
  /\ IF key = Absent
     THEN key' = Short /\ mint' = [mint EXCEPT ![p] = "write"]
     ELSE mint' = [mint EXCEPT ![p] = "lost"] /\ UNCHANGED key
  /\ UNCHANGED <<drawn, cache>>

\* Fault: the secret is kept and not written.
WriteKeyInMemory(p) ==
  /\ mint[p] = "write" /\ drawn < MaxKeys
  /\ drawn' = drawn + 1
  /\ UNCHANGED key
  /\ Keeps(p, drawn')

\* A file that was replaced meanwhile is not the one that is open.
WriteKey(p) ==
  /\ mint[p] = "write" /\ drawn < MaxKeys
  /\ drawn' = drawn + 1
  /\ key' = IF key = Short THEN drawn' ELSE key
  /\ Keeps(p, drawn')

\* The loser reads what the winner wrote, and takes it for damaged if the
\* winner has not written it yet.
ReadOfLoser(p) ==
  /\ mint[p] = "lost"
  /\ IF IsSecret(key)
     THEN Keeps(p, key)
     ELSE mint' = [mint EXCEPT ![p] = "replace"] /\ UNCHANGED cache
  /\ UNCHANGED <<key, drawn>>

ReplaceKey(p) ==
  /\ mint[p] = "replace" /\ drawn < MaxKeys
  /\ drawn' = drawn + 1 /\ key' = drawn'
  /\ Keeps(p, drawn')

EnsureSecret(p) ==
  /\ \/ ReadKey(p) \/ CreateKey(p) \/ WriteKey(p) \/ ReadOfLoser(p) \/ ReplaceKey(p)
  /\ UNCHANGED <<day, files, manager, links, sweep>>

---------------------------------------------------------------------------
\* The manager

StartManager ==
  /\ manager = "down"
  /\ manager' = "starting"
  /\ mint' = [mint EXCEPT !["manager"] = "read"]
  /\ UNCHANGED <<day, files, key, drawn, cache, links, sweep>>

\* Fault: the first process that needs the secret creates it.
ManagerReadyAtOnce ==
  /\ manager = "starting"
  /\ manager' = "up"
  /\ UNCHANGED <<day, files, key, drawn, cache, mint, links, sweep>>

\* The lifespan awaits ensure_secret before anything is started.
ManagerReady ==
  /\ manager = "starting" /\ mint["manager"] = "idle" /\ cache["manager"] # None
  /\ manager' = "up"
  /\ UNCHANGED <<day, files, key, drawn, cache, mint, links, sweep>>

\* Stopped or killed, in the middle of whatever it was doing.
ManagerGone ==
  /\ manager # "down"
  /\ manager' = "down"
  /\ cache' = [cache EXCEPT !["manager"] = None]
  /\ mint' = [mint EXCEPT !["manager"] = "idle"]
  /\ sweep' = [s \in Sweeps |-> NoSweep]
  /\ UNCHANGED <<day, files, key, drawn, links>>

\* Somebody rotates the secret, or the disk damages it, while the manager and, but
\* for KeepRunners, the runner are stopped; the links derived from it are dead.
\* A file deleted under a process that has the secret cached is left out.
LoseKey(runnerDown) ==
  /\ manager = "down" /\ IsSecret(key)
  /\ cache["runner"] = None /\ (KeepRunners \/ runnerDown)
  /\ key' \in {Absent, Short}
  /\ links' = {}
  /\ UNCHANGED <<day, files, manager, drawn, cache, mint, sweep>>

Obsolete(n) == files[n] # None /\ files[n] + Retention < day

Look(s, isWhole, names) ==
  /\ manager = "up" /\ sweep[s] = NoSweep
  /\ sweep' = [sweep EXCEPT ![s] = [doomed |-> names, whole |-> isWhole, excused |-> {}]]
  /\ UNCHANGED <<day, files, manager, key, drawn, cache, mint, links>>

\* Fault: a folder that goes as a whole loses the obsolete files only.
PruneEach(s, wholeFolder) ==
  LET obsolete == {n \in Names : Obsolete(n)}
  IN  /\ Retention > 0 /\ obsolete # {}
      /\ Look(s, wholeFolder, obsolete)

\* prune: the ages are read, then the files go.  In the mode "whole_folder" all
\* of them go with the oldest one.
Prune(s, wholeFolder) ==
  LET obsolete == {n \in Names : Obsolete(n)}
  IN  /\ Retention > 0 /\ obsolete # {}
      /\ Look(s, wholeFolder, IF wholeFolder THEN Present ELSE obsolete)

\* clear_instance, for one folder or for all of them.
Clear(s) == Present # {} /\ Look(s, TRUE, Present)

\* unlink.  A file that is gone, or that cannot be removed, is passed over.
SweepOne(s, n, canRemove) ==
  /\ n \in sweep[s].doomed
  /\ files' = IF canRemove THEN [files EXCEPT ![n] = None] ELSE files
  /\ sweep' = [sweep EXCEPT ![s].doomed = @ \ {n},
                            ![s].excused = IF canRemove THEN @ ELSE @ \cup {n}]
  /\ UNCHANGED <<day, manager, key, drawn, cache, mint, links>>

SweepDone(s) ==
  /\ sweep[s] # NoSweep /\ sweep[s].doomed = {}
  /\ sweep' = [sweep EXCEPT ![s] = NoSweep]
  /\ UNCHANGED <<day, files, manager, key, drawn, cache, mint, links>>

\* delete_content_file: what the look found is removed by name.
DeleteFile(n) ==
  /\ manager = "up" /\ n \in Present
  /\ files' = [files EXCEPT ![n] = None]
  /\ UNCHANGED <<day, manager, key, drawn, cache, mint, links, sweep>>

\* A tool writes a file of its folder; retention measures from the last write.
WriteFile(n) ==
  /\ files' = [files EXCEPT ![n] = day]
  /\ sweep' = [s \in Sweeps |->
       IF sweep[s] = NoSweep THEN NoSweep
       ELSE [sweep[s] EXCEPT !.excused = @ \cup {n}]]
  /\ UNCHANGED <<day, manager, key, drawn, cache, mint, links>>

NextDay ==
  /\ day < MaxDay
  /\ day' = day + 1
  /\ UNCHANGED <<files, manager, key, drawn, cache, mint, links, sweep>>

StoreNext(runnerDown) ==
  \/ \E p \in Procs : EnsureSecret(p)
  \/ StartManager \/ ManagerReady \/ ManagerGone \/ LoseKey(runnerDown)
  \/ \E s \in Sweeps : \/ \E wholeFolder \in BOOLEAN : Prune(s, wholeFolder)
                       \/ Clear(s) \/ SweepDone(s)
                       \/ \E n \in Names, canRemove \in BOOLEAN : SweepOne(s, n, canRemove)
  \/ \E n \in Names : DeleteFile(n)
  \/ NextDay

---------------------------------------------------------------------------
Keys == 1..MaxKeys

StoreTypeOK ==
  /\ day \in 0..MaxDay
  /\ files \in [Names -> 0..MaxDay \cup {None}]
  /\ manager \in {"down", "starting", "up"}
  /\ key \in Keys \cup {Absent, Short} /\ drawn \in 0..MaxKeys
  /\ cache \in [Procs -> Keys \cup {None}]
  /\ mint \in [Procs -> {"idle", "read", "create", "write", "lost", "replace"}]
  /\ links \subseteq [file : Names, key : Keys]
  /\ sweep \in [Sweeps -> [doomed : SUBSET Names, whole : BOOLEAN, excused : SUBSET Names]]

\* A link handed out in a chat opens for as long as its file is there: the
\* manager verifies with the secret the runner signed with, whoever of them was
\* restarted, however often, and wherever a start was cut off.
LinksOpen == \A l \in links : manager = "up" => l.key = cache["manager"]

\* ensure_secret: whoever loses the race for the file reads what the winner
\* wrote, so the processes end up with one secret.
OneSecret == \A p, q \in Procs : None \in {cache[p], cache[q]} \/ cache[p] = cache[q]

\* "Keeping half of it is worse than keeping none": where a folder is emptied as
\* a whole, what is left are the files written meanwhile and those that could
\* not be removed.
SweepsAreWhole == \A s \in Sweeps :
  sweep[s].whole /\ sweep[s].doomed = {} => Present \subseteq sweep[s].excused
=============================================================================
