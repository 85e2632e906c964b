--------------------------- MODULE ToolCallsProofs ---------------------------
(***************************************************************************)
(* Theorems about the files of an instance, in ToolCalls, where a runner   *)
(* and the manager share them: for any names, sweeps, calls and days.      *)
(***************************************************************************)
EXTENDS ToolCalls, FiniteSetTheorems, SequenceTheorems, TLAPS

-----------------------------------------------------------------------------
(***************************************************************************)
(* Who has which secret                                                    *)
(***************************************************************************)

\* What a process may be doing while the file holds a secret, or none.
Minting(p) ==
  /\ mint[p] \in {"idle", "read", "create", "write", "lost", "replace"}
  /\ mint[p] \in {"create", "write", "lost", "replace"} => ~IsSecret(key)
  /\ mint[p] \in {"write", "lost", "replace"} => key = Short

\* The secret in the file is everybody's who has one, and every link's.  While a
\* runner lives there is a secret: it was started by a manager that had made
\* sure of it, and nobody takes it away under the runner.
SecretInv ==
  /\ DOMAIN mint = Procs /\ DOMAIN cache = Procs /\ DOMAIN call = Calls
  /\ key \in Keys \cup {Absent, Short} /\ drawn \in Nat
  /\ runner \in {"down", "serving", "flushing"} /\ manager \in {"down", "starting", "up"}
  /\ \A p \in Procs : Minting(p) /\ (cache[p] # None => IsSecret(key) /\ cache[p] = key)
  /\ manager = "down" => cache["manager"] = None /\ mint["manager"] = "idle"
  /\ manager = "up" => mint["manager"] = "idle" /\ cache["manager"] # None
  /\ RunnerDown => cache["runner"] = None /\ mint["runner"] = "idle"
  /\ ~RunnerDown => IsSecret(key)
  /\ \A c \in Calls :
       /\ DOMAIN call[c] = {"at", "found"}
       /\ call[c].at = "linking" => ~RunnerDown
       /\ call[c].at = "linking" /\ mint["runner"] = "idle" => cache["runner"] # None
  /\ \A l \in links : IsSecret(key) /\ l.key = key

LEMMA SecretInit == Init => SecretInv
  BY StoreNumbers
     DEF Init, StoreInit, SecretInv, Minting, Procs, IsSecret, Keys, RunnerDown, NoCall

\* The steps of ensure_secret: the file changes only if it holds no secret, and
\* whoever is through has what it then holds.
LEMMA SecretMinted ==
  ASSUME SecretInv, NEW p \in Procs,
         ReadKey(p) \/ CreateKey(p) \/ WriteKey(p) \/ ReadOfLoser(p) \/ ReplaceKey(p)
  PROVE  /\ DOMAIN mint' = Procs /\ DOMAIN cache' = Procs
         /\ \A q \in Procs : q # p => mint'[q] = mint[q] /\ cache'[q] = cache[q]
         /\ key' \in Keys \cup {Absent, Short} /\ drawn' \in Nat
         /\ IsSecret(key) => key' = key
         /\ Minting(p)'
         /\ mint[p] # "idle"
         /\ \/ mint'[p] = "idle" /\ cache'[p] = key' /\ IsSecret(key') /\ key' # None
            \/ mint'[p] # "idle" /\ cache'[p] = cache[p]
         /\ ~IsSecret(key) => mint[p] \in {"read", "create", "write", "lost", "replace"}
<1> USE DEF SecretInv, Minting, IsSecret, Keeps
<1>1. CASE ReadKey(p)
  BY <1>1, KeysAreKeys DEF ReadKey, Keys
<1>2. CASE CreateKey(p)
  BY <1>2 DEF CreateKey
<1>3. CASE WriteKey(p)
  BY <1>3, KeysAreKeys, StoreNumbers DEF WriteKey, Keys
<1>4. CASE ReadOfLoser(p)
  BY <1>4, KeysAreKeys DEF ReadOfLoser, Keys
<1>5. CASE ReplaceKey(p)
  BY <1>5, KeysAreKeys, StoreNumbers DEF ReplaceKey, Keys
<1>. QED
  BY <1>1, <1>2, <1>3, <1>4, <1>5

\* What the secret is asked of.
secretVars == <<manager, key, drawn, cache, mint, links, runner, call>>

LEMMA SecretStep ==
  ASSUME ~KeepRunners
  PROVE  SecretInv /\ [Next]_vars => SecretInv'
<1> SUFFICES ASSUME SecretInv, [Next]_vars PROVE SecretInv'
  OBVIOUS
<1>1. ASSUME NEW p \in Procs, EnsureSecret(p), UNCHANGED <<runner, call>> PROVE SecretInv'
  <2>1. UNCHANGED <<manager, links, runner, call>> /\ p \in {"manager", "runner"}
    BY <1>1 DEF EnsureSecret, Procs
  <2>2. ReadKey(p) \/ CreateKey(p) \/ WriteKey(p) \/ ReadOfLoser(p) \/ ReplaceKey(p)
    BY <1>1 DEF EnsureSecret
  <2>3. \/ IsSecret(key) /\ key' = key
        \/ p = "manager" /\ ~IsSecret(key) /\ RunnerDown /\ mint["runner"] = "idle"
    BY <2>1, <2>2, SecretMinted DEF SecretInv
  <2>. QED
    BY <2>1, <2>2, <2>3, SecretMinted DEF SecretInv, Minting, IsSecret, Procs, RunnerDown
<1>2. CASE StartManager /\ UNCHANGED <<runner, call>>
  BY <1>2 DEF StartManager, SecretInv, Minting, IsSecret, Procs, RunnerDown
<1>3. CASE ManagerReady /\ UNCHANGED <<runner, call>>
  BY <1>3 DEF ManagerReady, SecretInv, Minting, IsSecret, Procs, RunnerDown
<1>4. CASE ManagerGone /\ UNCHANGED <<runner, call>>
  BY <1>4 DEF ManagerGone, SecretInv, Minting, IsSecret, Procs, RunnerDown
<1>5. CASE LoseKey(RunnerDown) /\ UNCHANGED <<runner, call>>
  BY <1>5 DEF LoseKey, SecretInv, Minting, IsSecret, Procs, RunnerDown
<1>6. CASE UNCHANGED secretVars
  BY <1>6 DEF secretVars, SecretInv, Minting, IsSecret, RunnerDown
<1>7. CASE StartRunner
  BY <1>7 DEF StartRunner, storeVars, SecretInv, Minting, IsSecret, Procs, RunnerDown
<1>8. ASSUME NEW c \in Calls, Call(c) PROVE SecretInv'
  BY <1>8 DEF Call, storeVars, SecretInv, Minting, IsSecret, RunnerDown
<1>9. ASSUME NEW c \in Calls, NEW mentioned, Answer(c, mentioned) PROVE SecretInv'
  <2> DEFINE found == mentioned \cap Present
             x == IF found = {} THEN NoCall ELSE [at |-> "linking", found |-> found]
             looks == found # {} /\ cache["runner"] = None
  <2>1. /\ UNCHANGED <<manager, key, drawn, cache, links, runner>> /\ runner = "serving"
        /\ call' = [call EXCEPT ![c] = x]
        /\ mint' = [mint EXCEPT !["runner"] = IF looks THEN "read" ELSE @]
    BY <1>9 DEF Answer
  <2>2. DOMAIN x = {"at", "found"} /\ (x.at = "linking" => found # {})
    BY DEF NoCall
  <2>3. (x.at = "linking" /\ cache["runner"] = None => looks) /\ looks \in BOOLEAN
    BY <2>2
  <2> HIDE DEF x, looks
  <2>4. CASE looks
    <3>1. mint' = [mint EXCEPT !["runner"] = "read"]
      BY <2>1, <2>4
    <3>2. /\ DOMAIN mint' = Procs /\ mint'["runner"] = "read" /\ mint'["manager"] = mint["manager"]
          /\ IsSecret(key)
      BY <2>1, <3>1 DEF SecretInv, Procs, RunnerDown
    <3>3. \A p \in Procs : Minting(p)' /\ (cache'[p] # None => IsSecret(key') /\ cache'[p] = key')
      BY <2>1, <3>2 DEF SecretInv, Minting, IsSecret, Procs
    <3>4. \A d \in Calls :
            /\ DOMAIN call'[d] = {"at", "found"}
            /\ call'[d].at = "linking" => ~RunnerDown'
            /\ ~(call'[d].at = "linking" /\ mint'["runner"] = "idle")
      BY <2>1, <2>2, <3>2 DEF SecretInv, RunnerDown
    <3>. QED
      BY <2>1, <3>2, <3>3, <3>4 DEF SecretInv, IsSecret, RunnerDown
  <2>5. CASE ~looks
    <3>1. DOMAIN mint' = Procs /\ \A p \in Procs : mint'[p] = mint[p]
      BY <2>1, <2>5 DEF SecretInv, Procs
    <3>. QED
      BY <2>1, <2>2, <2>3, <2>5, <3>1 DEF SecretInv, Minting, IsSecret, Procs, RunnerDown
  <2>. QED
    BY <2>4, <2>5
<1>10. ASSUME NEW c \in Calls, Linked(c) PROVE SecretInv'
  <2>1. /\ UNCHANGED <<manager, key, drawn, cache, mint, runner>>
        /\ call' = [call EXCEPT ![c] = NoCall]
        /\ links' = links \cup [file : call[c].found, key : {cache["runner"]}]
        /\ cache["runner"] # None
    BY <1>10 DEF Linked, SecretInv
  <2>2. \A l \in links' : IsSecret(key) /\ l.key = key
    BY <2>1 DEF SecretInv, Procs
  <2>. QED
    BY <2>1, <2>2 DEF SecretInv, Minting, IsSecret, RunnerDown, NoCall
<1>11. CASE Shutdown
  BY <1>11 DEF Shutdown, storeVars, SecretInv, Minting, IsSecret, RunnerDown
<1>12. CASE RunnerGone
  BY <1>12 DEF RunnerGone, NoCall, SecretInv, Minting, IsSecret, Procs, RunnerDown
<1>13. CASE StoreNext(RunnerDown) /\ UNCHANGED <<logVars, runner, call>>
  <2>1. ASSUME NEW s \in Sweeps,
               \/ \E wholeFolder \in BOOLEAN : Prune(s, wholeFolder)
               \/ Clear(s) \/ SweepDone(s)
               \/ \E n \in Names, canRemove \in BOOLEAN : SweepOne(s, n, canRemove)
        PROVE  UNCHANGED <<manager, key, drawn, cache, mint, links>>
    BY <2>1 DEF Prune, Look, Clear, SweepDone, SweepOne
  <2>2. (\E n \in Names : DeleteFile(n)) \/ NextDay
        => UNCHANGED <<manager, key, drawn, cache, mint, links>>
    BY DEF DeleteFile, NextDay
  <2>. QED
    BY <1>1, <1>2, <1>3, <1>4, <1>5, <1>6, <1>13, <2>1, <2>2 DEF StoreNext, secretVars
<1>14. ASSUME \/ \E c \in Calls, n \in Names : ToolWrites(c, n)
              \/ Delete \/ UNCHANGED vars \/ UNCHANGED <<storeVars, runner, call>>
       PROVE  SecretInv'
  BY <1>6, <1>14 DEF ToolWrites, WriteFile, Delete, vars, storeVars, secretVars
<1>. QED
  BY <1>7, <1>8, <1>9, <1>10, <1>11, <1>12, <1>13, <1>14 DEF Next, Exit, Killed

\* Wherever a start was cut off, and whoever was restarted, a link opens while its
\* file is there: what the runner signed with, the manager verifies with.  The
\* secret is taken away only while nothing runs.
THEOREM EveryLinkOpens == ASSUME ~KeepRunners PROVE Spec => []LinksOpen
<1>1. SecretInv => LinksOpen
  BY DEF SecretInv, LinksOpen, Procs
<1>. QED
  BY <1>1, SecretInit, SecretStep, PTL DEF Spec

\* What the three abstract variables are here.
TheSecret == IF IsSecret(key) THEN key ELSE None
Signed == {l.key : l \in links}

\* Only who needs the secret and finds none chooses it, only while there is none.
LEMMA ChooseOrLearn ==
  ASSUME SecretInv, SecretInv', NEW p \in Procs, EnsureSecret(p)
  PROVE  [Shared!Next]_<<TheSecret, cache, Signed>>
<1>0. UNCHANGED Signed /\ Minting(p) /\ key' \in Keys \cup {Absent, Short}
  BY DEF EnsureSecret, Signed, SecretInv
<1>1. CASE ReadKey(p) \/ ReadOfLoser(p)
  <2>1. UNCHANGED TheSecret
    BY <1>1 DEF ReadKey, ReadOfLoser, TheSecret
  <2>2. CASE IsSecret(key)
    <3>1. TheSecret # None /\ cache' = [cache EXCEPT ![p] = TheSecret]
      BY <1>1, <2>2, KeysAreKeys DEF ReadKey, ReadOfLoser, Keeps, TheSecret, SecretInv, Keys, IsSecret
    <3>. QED
      BY <1>0, <2>1, <3>1 DEF Shared!Next, Shared!Learn, Shared!Hold, TheSecret, Signed
  <2>3. CASE ~IsSecret(key)
    BY <1>0, <1>1, <2>1, <2>3 DEF ReadKey, ReadOfLoser
  <2>. QED
    BY <2>2, <2>3
<1>2. CASE CreateKey(p)
  BY <1>0, <1>2 DEF CreateKey, TheSecret, IsSecret, Minting
<1>3. CASE WriteKey(p) \/ ReplaceKey(p)
  <2>1. /\ ~IsSecret(key) /\ key' = drawn' /\ drawn' \in Keys
        /\ cache' = [cache EXCEPT ![p] = drawn']
    BY <1>0, <1>3, StoreNumbers DEF WriteKey, ReplaceKey, Keeps, Minting, SecretInv, Keys
  <2>2. TheSecret = None /\ TheSecret' = drawn'
    BY <2>1, KeysAreKeys DEF TheSecret, IsSecret, Keys
  <2>3. Shared!Choose(p, drawn')
    BY <1>0, <2>1, <2>2 DEF Shared!Choose, Shared!Hold, TheSecret, Signed
  <2>. QED
    BY <2>1, <2>3 DEF Shared!Next, TheSecret, Signed
<1>. QED
  BY <1>1, <1>2, <1>3 DEF EnsureSecret

LEMMA SharedStep ==
  ASSUME ~KeepRunners, SecretInv, SecretInv', [Next]_vars
  PROVE  [Shared!Next]_<<TheSecret, cache, Signed>>
<1>1. ASSUME NEW p \in Procs, EnsureSecret(p)
      PROVE  [Shared!Next]_<<TheSecret, cache, Signed>>
  BY <1>1, ChooseOrLearn
<1>2. ASSUME NEW p \in Procs, cache' = [cache EXCEPT ![p] = None], UNCHANGED <<key, links>>
      PROVE  Shared!Next
  BY <1>2 DEF Shared!Next, Shared!Forget, Shared!Hold, TheSecret, IsSecret, Signed
<1>3. CASE LoseKey(RunnerDown)
  <2>1. \A p \in Procs : cache[p] = None
    BY <1>3 DEF LoseKey, SecretInv, Procs
  <2>2. TheSecret' = None /\ Signed' = {} /\ UNCHANGED cache
    BY <1>3 DEF LoseKey, TheSecret, IsSecret, Signed
  <2>. QED
    BY <2>1, <2>2 DEF Shared!Next, Shared!Lose, TheSecret, Signed
<1>4. ASSUME NEW c \in Calls, Linked(c)
      PROVE  [Shared!Next]_<<TheSecret, cache, Signed>>
  <2>1. /\ UNCHANGED <<TheSecret, cache>>
        /\ links' = links \cup [file : call[c].found, key : {cache["runner"]}]
        /\ cache["runner"] = TheSecret /\ TheSecret # None
    BY <1>4 DEF Linked, SecretInv, TheSecret, IsSecret, Procs
  <2>2. CASE call[c].found = {}
    <3>1. links' = links
      BY <2>1, <2>2
    <3>. QED
      BY <2>1, <3>1 DEF Signed
  <2>3. CASE call[c].found # {}
    <3> DEFINE new == [file : call[c].found, key : {cache["runner"]}]
    <3>1. /\ \A l \in new : l.key = TheSecret
          /\ \E l \in new : l.key = TheSecret
      <4>1. PICK n \in call[c].found : TRUE
        BY <2>3
      <4>2. [file |-> n, key |-> cache["runner"]] \in new
        BY <4>1
      <4>. QED
        BY <2>1, <4>2
    <3>2. Signed' = Signed \cup {TheSecret}
      <4> HIDE DEF new
      <4>. QED
        BY <2>1, <3>1 DEF Signed, new
    <3>3. Shared!Sign("runner")
      BY <2>1, <3>2 DEF Shared!Sign, TheSecret, Signed
    <3>. QED
      BY <3>3 DEF Shared!Next, Procs
  <2>. QED
    BY <2>2, <2>3
<1>5. CASE UNCHANGED <<key, cache, links>>
  BY <1>5 DEF TheSecret, IsSecret, Signed
<1>6. ASSUME StoreNext(RunnerDown) PROVE [Shared!Next]_<<TheSecret, cache, Signed>>
  <2>1. CASE ManagerGone
    BY <1>2, <2>1 DEF ManagerGone, Procs
  <2>2. ASSUME NEW s \in Sweeps,
               \/ \E wholeFolder \in BOOLEAN : Prune(s, wholeFolder)
               \/ Clear(s) \/ SweepDone(s)
               \/ \E n \in Names, canRemove \in BOOLEAN : SweepOne(s, n, canRemove)
        PROVE  UNCHANGED <<key, cache, links>>
    BY <2>2 DEF Prune, Look, Clear, SweepDone, SweepOne
  <2>3. StartManager \/ ManagerReady \/ (\E n \in Names : DeleteFile(n)) \/ NextDay
        => UNCHANGED <<key, cache, links>>
    BY DEF StartManager, ManagerReady, DeleteFile, NextDay
  <2>. QED
    BY <1>1, <1>3, <1>5, <1>6, <2>1, <2>2, <2>3 DEF StoreNext
<1>7. CASE Exit \/ Killed
  BY <1>2, <1>7 DEF Exit, Killed, RunnerGone, Procs
<1>8. ASSUME NEW c \in Calls,
             \/ Call(c)
             \/ \E n \in Names : ToolWrites(c, n)
             \/ \E mentioned \in SUBSET Names : Answer(c, mentioned)
      PROVE  UNCHANGED <<key, cache, links>>
  BY <1>8 DEF Call, ToolWrites, WriteFile, Answer, storeVars
<1>9. StartRunner \/ Shutdown \/ Delete \/ UNCHANGED storeVars \/ UNCHANGED vars
      => UNCHANGED <<key, cache, links>>
  BY DEF StartRunner, Shutdown, Delete, storeVars, vars
<1>10. \/ \E c \in Calls : \/ Call(c) \/ Linked(c)
                           \/ \E n \in Names : ToolWrites(c, n)
                           \/ \E mentioned \in SUBSET Names : Answer(c, mentioned)
       \/ StoreNext(RunnerDown) \/ Exit \/ Killed
       \/ StartRunner \/ Shutdown \/ Delete \/ UNCHANGED storeVars \/ UNCHANGED vars
  BY DEF Next, storeVars
<1>. QED
  BY <1>4, <1>5, <1>6, <1>7, <1>8, <1>9, <1>10

\* Runner and manager share one secret as the abstract specification has it: chosen
\* once, by whoever needs it first, whichever of them is cut off in the middle of
\* it, and lost only while nobody holds it.  The rotation is the only hypothesis.
THEOREM OneSecretIsShared == ASSUME ~KeepRunners PROVE Spec => SharesOneSecret
<1>1. Init => Shared!Init
  BY DEF Init, StoreInit, Shared!Init, IsSecret
<1>2. ~KeepRunners /\ SecretInv /\ SecretInv' /\ [Next]_vars
      => [Shared!Next]_<<IF IsSecret(key) THEN key ELSE None, cache, {l.key : l \in links}>>
  BY SharedStep DEF TheSecret, Signed
<1>. QED
  BY <1>1, <1>2, SecretInit, SecretStep, PTL DEF Spec, SharesOneSecret, Shared!Spec

-----------------------------------------------------------------------------
(***************************************************************************)
(* What a sweep leaves                                                     *)
(***************************************************************************)

\* Of a folder that goes as a whole, what is neither still to go nor written
\* since, nor stuck, is gone.
SweepInv ==
  /\ DOMAIN files = Names /\ DOMAIN sweep = Sweeps
  /\ \A s \in Sweeps :
       /\ DOMAIN sweep[s] = {"doomed", "whole", "excused"}
       /\ sweep[s].whole => Present \subseteq sweep[s].doomed \cup sweep[s].excused

LEMMA SweepInit == Init => SweepInv
  BY DEF Init, StoreInit, SweepInv, NoSweep

\* Files that go, and nothing else.
LEMMA FilesGo ==
  ASSUME SweepInv, DOMAIN files' = Names, Present' \subseteq Present, sweep' = sweep
  PROVE  SweepInv'
  BY DEF SweepInv

LEMMA SweepStep == SweepInv /\ [Next]_vars => SweepInv'
<1> SUFFICES ASSUME SweepInv, [Next]_vars PROVE SweepInv'
  OBVIOUS
<1>1. CASE UNCHANGED <<files, sweep>>
  BY <1>1, FilesGo DEF SweepInv, Present
<1>2. ASSUME NEW s \in Sweeps, NEW isWhole \in BOOLEAN, NEW names, Look(s, isWhole, names),
             isWhole => names = Present
      PROVE  SweepInv'
  <2>1. /\ files' = files
        /\ sweep' = [sweep EXCEPT ![s] = [doomed |-> names, whole |-> isWhole, excused |-> {}]]
    BY <1>2 DEF Look
  <2>2. Present' = Present
    BY <2>1 DEF Present
  <2>. QED
    BY <1>2, <2>1, <2>2 DEF SweepInv
<1>3. ASSUME NEW s \in Sweeps, NEW wholeFolder \in BOOLEAN, Prune(s, wholeFolder) PROVE SweepInv'
  BY <1>2, <1>3 DEF Prune
<1>4. ASSUME NEW s \in Sweeps, Clear(s) PROVE SweepInv'
  BY <1>2, <1>4 DEF Clear
<1>5. ASSUME NEW s \in Sweeps, SweepDone(s) PROVE SweepInv'
  <2>1. files' = files /\ sweep' = [sweep EXCEPT ![s] = NoSweep]
    BY <1>5 DEF SweepDone
  <2>2. Present' = Present
    BY <2>1 DEF Present
  <2>. QED
    BY <2>1, <2>2 DEF SweepInv, NoSweep
<1>6. ASSUME NEW s \in Sweeps, NEW n \in Names, SweepOne(s, n, TRUE) PROVE SweepInv'
  <2>1. files' = [files EXCEPT ![n] = None] /\ sweep' = [sweep EXCEPT ![s].doomed = @ \ {n}, ![s].excused = @]
    BY <1>6 DEF SweepOne
  <2>2. Present' = Present \ {n} /\ DOMAIN files' = Names
    BY <2>1 DEF Present, SweepInv
  <2>3. /\ DOMAIN sweep' = Sweeps /\ \A t \in Sweeps : DOMAIN sweep'[t] = {"doomed", "whole", "excused"}
        /\ \A t \in Sweeps : t # s => sweep'[t] = sweep[t]
        /\ sweep'[s].doomed = sweep[s].doomed \ {n} /\ sweep'[s].excused = sweep[s].excused
        /\ sweep'[s].whole = sweep[s].whole
    BY <2>1 DEF SweepInv
  <2>. QED
    BY <2>2, <2>3 DEF SweepInv
<1>7. ASSUME NEW s \in Sweeps, NEW n \in Names, SweepOne(s, n, FALSE) PROVE SweepInv'
  <2>1. files' = files /\ sweep' = [sweep EXCEPT ![s].doomed = @ \ {n}, ![s].excused = @ \cup {n}]
    BY <1>7 DEF SweepOne
  <2>2. Present' = Present /\ DOMAIN files' = Names
    BY <2>1 DEF Present, SweepInv
  <2>3. /\ DOMAIN sweep' = Sweeps /\ \A t \in Sweeps : DOMAIN sweep'[t] = {"doomed", "whole", "excused"}
        /\ \A t \in Sweeps : t # s => sweep'[t] = sweep[t]
        /\ sweep'[s].doomed = sweep[s].doomed \ {n} /\ sweep'[s].excused = sweep[s].excused \cup {n}
        /\ sweep'[s].whole = sweep[s].whole
    BY <2>1 DEF SweepInv
  <2>. QED
    BY <2>2, <2>3 DEF SweepInv
<1>8. ASSUME NEW c \in Calls, NEW n \in Names, ToolWrites(c, n) PROVE SweepInv'
  <2>1. /\ files' = [files EXCEPT ![n] = day]
        /\ sweep' = [s \in Sweeps |->
             IF sweep[s] = NoSweep THEN NoSweep
             ELSE [sweep[s] EXCEPT !.excused = @ \cup {n}]]
    BY <1>8 DEF ToolWrites, WriteFile
  <2>2. Present' \subseteq Present \cup {n} /\ DOMAIN files' = Names
    BY <2>1 DEF Present, SweepInv
  <2>3. ASSUME NEW s \in Sweeps
        PROVE  /\ DOMAIN sweep'[s] = {"doomed", "whole", "excused"}
               /\ sweep'[s].whole => Present' \subseteq sweep'[s].doomed \cup sweep'[s].excused
    <3>1. CASE sweep[s] = NoSweep
      BY <2>1, <3>1 DEF NoSweep
    <3>2. CASE sweep'[s] = [sweep[s] EXCEPT !.excused = @ \cup {n}]
      BY <2>2, <3>2 DEF SweepInv
    <3>. QED
      BY <2>1, <3>1, <3>2
  <2>. QED
    BY <2>1, <2>2, <2>3 DEF SweepInv
<1>9. ASSUME NEW n \in Names, DeleteFile(n) PROVE SweepInv'
  BY <1>9, FilesGo DEF DeleteFile, Present, SweepInv
<1>10. CASE Delete
  <2>1. sweep' = sweep /\ \E stuck \in SUBSET Present :
          files' = [n \in Names |-> IF n \in stuck THEN files[n] ELSE None]
    BY <1>10 DEF Delete
  <2>2. Present' \subseteq Present /\ DOMAIN files' = Names
    BY <2>1 DEF Present
  <2>. QED
    BY <2>1, <2>2, FilesGo
<1>11. CASE ManagerGone
  <2>1. files' = files /\ sweep' = [s \in Sweeps |-> NoSweep]
    BY <1>11 DEF ManagerGone
  <2>. QED
    BY <2>1 DEF SweepInv, NoSweep
<1>12. CASE StoreNext(RunnerDown)
  <2>1. \/ \E p \in Procs : EnsureSecret(p)
        \/ StartManager \/ ManagerReady \/ LoseKey(RunnerDown) \/ NextDay
        => UNCHANGED <<files, sweep>>
    BY DEF EnsureSecret, StartManager, ManagerReady, LoseKey, NextDay
  <2>. QED
    BY <1>1, <1>3, <1>4, <1>5, <1>6, <1>7, <1>9, <1>11, <1>12, <2>1 DEF StoreNext
<1>13. ASSUME \/ \E c \in Calls : Call(c) \/ Linked(c) \/ \E mentioned \in SUBSET Names : Answer(c, mentioned)
              \/ StartRunner \/ Shutdown \/ RunnerGone
              \/ UNCHANGED vars \/ UNCHANGED <<storeVars, runner, call>>
       PROVE  SweepInv'
  BY <1>1, <1>13 DEF Call, Linked, Answer, StartRunner, Shutdown, RunnerGone, vars, storeVars
<1>. QED
  BY <1>8, <1>10, <1>12, <1>13 DEF Next, Exit, Killed

\* A folder emptied as a whole holds what was written meanwhile, and what could
\* not be removed, whatever other sweeps, deletes and tools do at the same time.
THEOREM SweepsEmptyFolders == Spec => []SweepsAreWhole
<1>1. SweepInv => SweepsAreWhole
  BY DEF SweepInv, SweepsAreWhole
<1>. QED
  BY <1>1, SweepInit, SweepStep, PTL DEF Spec

-----------------------------------------------------------------------------
(***************************************************************************)
(* What becomes of a call                                                  *)
(***************************************************************************)

LEMMA SeqIsFinite ==
  ASSUME NEW s \in Seq(Nat) PROVE DOMAIN s = 1..Len(s) /\ Len(s) \in Nat
  OBVIOUS

LEMMA OnIsFinite ==
  ASSUME NEW s \in Seq(Nat), NEW d
  PROVE  /\ IsFiniteSet({k \in DOMAIN s : s[k] = d}) /\ On(d, s) \in Nat
         /\ DOMAIN s = 1..Len(s) /\ Len(s) \in Nat
<1>1. DOMAIN s = 1..Len(s) /\ Len(s) \in Nat
  OBVIOUS
<1>2. IsFiniteSet(1..Len(s))
  BY <1>1, FS_Interval
<1>3. IsFiniteSet({k \in DOMAIN s : s[k] = d})
  BY <1>1, <1>2, FS_Subset
<1>. QED
  BY <1>1, <1>3, FS_CardinalityType DEF On

LEMMA OnEmpty == \A d : On(d, <<>>) = 0
  BY FS_EmptySet DEF On

\* One more call of its day.
LEMMA OnAppend ==
  ASSUME NEW s \in Seq(Nat), NEW x \in Nat, NEW d
  PROVE  On(d, Append(s, x)) = On(d, s) + IF x = d THEN 1 ELSE 0
<1> DEFINE t == Append(s, x)
           A == {k \in DOMAIN s : s[k] = d}
           B == {k \in DOMAIN t : t[k] = d}
<1>1. IsFiniteSet(A) /\ DOMAIN s = 1..Len(s) /\ Len(s) \in Nat /\ Cardinality(A) \in Nat
  BY OnIsFinite, FS_CardinalityType
<1>2. DOMAIN t = 1..Len(s) + 1 /\ t[Len(s) + 1] = x /\ \A k \in 1..Len(s) : t[k] = s[k]
  OBVIOUS
<1>5. On(d, s) = Cardinality(A) /\ On(d, t) = Cardinality(B)
  BY DEF On
<1>3. CASE x = d
  <2>1. B = A \cup {Len(s) + 1} /\ Len(s) + 1 \notin A
    BY <1>1, <1>2, <1>3
  <2> HIDE DEF A, B, t
  <2>. QED
    BY <1>1, <1>3, <1>5, <2>1, FS_AddElement DEF t
<1>4. CASE x # d
  <2>1. B = A
    BY <1>1, <1>2, <1>4
  <2> HIDE DEF A, B, t
  <2>. QED
    BY <1>1, <1>4, <1>5, <2>1 DEF t
<1>. QED
  BY <1>3, <1>4

\* What is cut off a queue and what is left of it are together what it was.
LEMMA OnSplit ==
  ASSUME NEW s \in Seq(Nat), NEW n \in 0..Len(s), NEW d
  PROVE  On(d, s) = On(d, SubSeq(s, 1, n)) + On(d, SubSeq(s, n + 1, Len(s)))
<1> DEFINE h == SubSeq(s, 1, n)
           t == SubSeq(s, n + 1, Len(s))
           A == {k \in DOMAIN h : h[k] = d}
           B == {k \in DOMAIN t : t[k] = d}
           C == {k \in n + 1..Len(s) : s[k] = d}
           S == {k \in DOMAIN s : s[k] = d}
<1>1. DOMAIN s = 1..Len(s) /\ Len(s) \in Nat /\ n \in Nat /\ n <= Len(s)
  BY OnIsFinite
<1>2. h \in Seq(Nat) /\ Len(h) = n /\ DOMAIN h = 1..n /\ \A k \in 1..n : h[k] = s[k]
  BY <1>1
<1>3. t \in Seq(Nat) /\ Len(t) = Len(s) - n /\ DOMAIN t = 1..Len(s) - n
      /\ \A k \in 1..Len(s) - n : t[k] = s[n + k]
  <2>1. \A i \in n + 1..Len(s) : s[i] \in Nat
    BY <1>1
  <2> HIDE DEF t
  <2>2. /\ t \in Seq(Nat)
        /\ \A i \in 1..Len(s) - (n + 1) + 1 : t[i] = s[n + 1 + i - 1]
    <3>1. n + 1 \in Int /\ Len(s) \in Int
      BY <1>1
    <3>. QED
      BY <2>1, <3>1, SubSeqProperties DEF t
  <2>3. Len(t) = Len(s) - n
    <3>1. n + 1 \in Int /\ Len(s) \in Int
      BY <1>1
    <3>2. Len(t) = IF n + 1 <= Len(s) THEN Len(s) - (n + 1) + 1 ELSE 0
      BY <2>1, <3>1, SubSeqProperties DEF t
    <3>3. Len(s) \in Nat /\ n \in Nat /\ n <= Len(s)
      BY <1>1
    <3>. QED
      BY <3>2, <3>3
  <2>4. DOMAIN t = 1..Len(t)
    <3>1. t \in Seq(Nat)
      BY <2>2
    <3>. QED
      BY <3>1, SeqIsFinite
  <2>5. ASSUME NEW k \in 1..Len(s) - n PROVE t[k] = s[n + k]
    <3>1. k \in 1..Len(s) - (n + 1) + 1 /\ n + 1 + k - 1 = n + k
      BY <1>1
    <3>. QED
      BY <2>2, <3>1
  <2>. QED
    BY <2>2, <2>3, <2>4, <2>5
<1> HIDE DEF h, t
<1>4. IsFiniteSet(A) /\ IsFiniteSet(B) /\ IsFiniteSet(S)
  BY <1>2, <1>3, OnIsFinite
<1>5. S = A \cup C /\ A \cap C = {}
  BY <1>1, <1>2
<1>6. IsFiniteSet(C) /\ Cardinality(C) = Cardinality(B)
  <2> DEFINE f == [k \in B |-> n + k]
  <2>1. f \in [B -> C] /\ \A k \in B : f[k] = n + k
    BY <1>1, <1>3
  <2>2. \A j, k \in B : f[j] = f[k] => j = k
    BY <1>1, <1>3
  <2>3. \A j \in C : \E k \in B : f[k] = j
    <3> SUFFICES ASSUME NEW j \in C PROVE j - n \in B /\ f[j - n] = j
      OBVIOUS
    <3>. QED
      BY <1>1, <1>3
  <2> HIDE DEF f
  <2>4. f \in Bijection(B, C)
    BY <2>1, <2>2, <2>3 DEF Bijection, Injection, Surjection, IsInjective
  <2>. QED
    BY <1>4, <2>4, FS_Bijection DEF ExistsBijection
<1>7. On(d, s) = Cardinality(S) /\ On(d, h) = Cardinality(A) /\ On(d, t) = Cardinality(B)
  BY DEF On
<1> HIDE DEF A, B, C, S
<1>8. Cardinality(S) = Cardinality(A) + Cardinality(C)
  <2>1. Cardinality(A \cup C) = Cardinality(A) + Cardinality(C) - Cardinality(A \cap C)
    BY <1>4, <1>6, FS_Union
  <2>2. Cardinality(A \cap C) = 0
    BY <1>5, FS_EmptySet
  <2>3. Cardinality(A) \in Nat /\ Cardinality(C) \in Nat
    BY <1>4, <1>6, FS_CardinalityType
  <2>. QED
    BY <1>5, <2>1, <2>2, <2>3
<1>. QED
  BY <1>6, <1>7, <1>8 DEF h, t

LEMMA SplitLengths ==
  ASSUME NEW s \in Seq(Nat), NEW n \in 0..Len(s)
  PROVE  /\ SubSeq(s, 1, n) \in Seq(Nat) /\ SubSeq(s, n + 1, Len(s)) \in Seq(Nat)
         /\ Len(SubSeq(s, 1, n)) + Len(SubSeq(s, n + 1, Len(s))) = Len(s)
<1>1. Len(s) \in Nat /\ n \in Nat /\ n <= Len(s)
  BY SeqIsFinite
<1>2. \A i \in 1..Len(s) : s[i] \in Nat
  OBVIOUS
<1>3. SubSeq(s, 1, n) \in Seq(Nat) /\ Len(SubSeq(s, 1, n)) = IF 1 <= n THEN n - 1 + 1 ELSE 0
  <2>1. \A i \in 1..n : s[i] \in Nat
    BY <1>1, <1>2
  <2>. QED
    BY <1>1, <2>1, SubSeqProperties
<1>4. /\ SubSeq(s, n + 1, Len(s)) \in Seq(Nat)
      /\ Len(SubSeq(s, n + 1, Len(s))) = IF n + 1 <= Len(s) THEN Len(s) - (n + 1) + 1 ELSE 0
  <2>1. n + 1 \in Int /\ Len(s) \in Int /\ \A i \in n + 1..Len(s) : s[i] \in Nat
    BY <1>1, <1>2
  <2>. QED
    BY <2>1, SubSeqProperties
<1>5. Len(SubSeq(s, 1, n)) = n
  BY <1>1, <1>3
<1>6. Len(SubSeq(s, n + 1, Len(s))) = Len(s) - n
  <2>1. CASE n + 1 <= Len(s)
    <3>1. Len(SubSeq(s, n + 1, Len(s))) = Len(s) - (n + 1) + 1
      BY <1>4, <2>1
    <3>. QED
      BY <1>1, <3>1
  <2>2. CASE ~(n + 1 <= Len(s))
    <3>1. Len(SubSeq(s, n + 1, Len(s))) = 0
      BY <1>4, <2>2
    <3>. QED
      BY <1>1, <2>2, <3>1
  <2>. QED
    BY <2>1, <2>2
<1>7. Len(SubSeq(s, 1, n)) + Len(SubSeq(s, n + 1, Len(s))) = Len(s)
  <2> DEFINE p == Len(SubSeq(s, 1, n))
             q == Len(SubSeq(s, n + 1, Len(s)))
             l == Len(s)
  <2>1. p = n /\ q = l - n /\ l \in Nat /\ n \in Nat
    BY <1>1, <1>5, <1>6
  <2> HIDE DEF p, q, l
  <2>2. p + q = l
    BY <2>1
  <2>. QED
    BY <2>2 DEF p, q, l
<1>. QED
  BY <1>3, <1>4, <1>7

\* The calls of day d that are queued, or in a thread.
Left(d) == On(d, queue) + On(d, batches["loop"]) + On(d, batches["flush"])

\* Every call is in the totals, or queued, or in a thread; and, as long as its day
\* is in the window, among the events of its day, or queued, or in a thread.  The
\* threads are written before a runner exits.
LogInv ==
  /\ day \in Nat /\ queue \in Seq(Nat)
  /\ DOMAIN batches = Writers /\ \A w \in Writers : batches[w] \in Seq(Nat)
  /\ total \in Int /\ counted \in Int
  /\ DOMAIN events = LogDays /\ DOMAIN made = LogDays
  /\ \A d \in LogDays : events[d] \in Int /\ made[d] \in Int
  /\ counted = total + Len(queue) + Len(batches["loop"]) + Len(batches["flush"])
  /\ \A d \in LogDays : d + UsageRetention >= day => made[d] = events[d] + Left(d)
  /\ flusher # "writing" => batches["loop"] = <<>>
  /\ RunnerDown => queue = <<>> /\ \A w \in Writers : batches[w] = <<>>

LEMMA LogInvInit == Init => LogInv
<1> SUFFICES ASSUME Init PROVE LogInv
  OBVIOUS
<1>1. /\ day = 0 /\ queue = <<>> /\ batches = NoBatches /\ total = 0 /\ counted = 0 /\ runner = "down"
      /\ events = [d \in LogDays |-> 0] /\ made = [d \in LogDays |-> 0]
  BY DEF Init, StoreInit, LogInit
<1>2. batches["loop"] = <<>> /\ batches["flush"] = <<>> /\ \A w \in Writers : batches[w] = <<>>
  BY <1>1 DEF NoBatches, Writers
<1>3. \A d \in LogDays : Left(d) = 0
  BY <1>1, <1>2, OnEmpty DEF Left
<1>4. queue \in Seq(Nat) /\ \A w \in Writers : batches[w] \in Seq(Nat)
  <2>1. <<>> \in Seq(Nat)
    OBVIOUS
  <2>. QED
    BY <1>1, <1>2, <2>1, Zenon
<1>5. counted = total + Len(queue) + Len(batches["loop"]) + Len(batches["flush"])
  BY <1>1, <1>2
<1>6. \A d \in LogDays : made[d] = events[d] + Left(d) /\ events[d] \in Int /\ made[d] \in Int
  BY <1>1, <1>3
<1>7. DOMAIN events = LogDays /\ DOMAIN made = LogDays /\ DOMAIN batches = Writers
      /\ day \in Nat /\ total \in Int /\ counted \in Int
  BY <1>1 DEF NoBatches
<1>. QED
  BY <1>1, <1>2, <1>4, <1>5, <1>6, <1>7 DEF LogInv

\* Where nothing but the days, the runner or the events that are out of the window
\* change, no call is lost.
LEMMA LogStays ==
  ASSUME LogInv, day' \in Nat, day' >= day,
         UNCHANGED <<queue, batches, total, made, counted>>, DOMAIN events' = LogDays,
         \A d \in LogDays :
           events'[d] \in Int /\ (d + UsageRetention >= day' => events'[d] = events[d]),
         flusher' = flusher \/ batches["loop"] = <<>>,
         RunnerDown' => RunnerDown \/ (queue = <<>> /\ batches = NoBatches)
  PROVE  LogInv'
<1>1. \A d \in LogDays : Left(d)' = Left(d)
  BY DEF Left
<1>2. \A d \in LogDays : d + UsageRetention >= day' => d + UsageRetention >= day
  BY LogNumbers DEF LogInv, LogDays
<1>3. \A w \in Writers : batches = NoBatches => batches[w] = <<>>
  BY DEF NoBatches
<1>4. \A d \in LogDays : d + UsageRetention >= day' => made'[d] = events'[d] + Left(d)'
  BY <1>1, <1>2 DEF LogInv
<1>5. flusher' # "writing" => batches'["loop"] = <<>>
  BY DEF LogInv
<1>6. RunnerDown' => queue' = <<>> /\ \A w \in Writers : batches'[w] = <<>>
  BY <1>3 DEF LogInv
<1>. QED
  BY <1>4, <1>5, <1>6 DEF LogInv

\* A batch leaves the queue for the thread of w, which was idle.
LEMMA LogDrains ==
  ASSUME LogInv, NEW w \in Writers, batches[w] = <<>>, Drain(w),
         UNCHANGED <<day, events, total, made, counted, runner>>, ~RunnerDown,
         flusher' = "writing" \/ (w = "flush" /\ flusher' = flusher)
  PROVE  LogInv'
<1> DEFINE n == Min({MaxBatch, Len(queue)})
<1>1. n \in 0..Len(queue)
  <2>1. Len(queue) \in Nat /\ MaxBatch \in Nat
    BY LogNumbers DEF LogInv
  <2>. QED
    BY <2>1 DEF Min
<1> DEFINE h == SubSeq(queue, 1, n)
           t == SubSeq(queue, n + 1, Len(queue))
<1>2. /\ h \in Seq(Nat) /\ t \in Seq(Nat) /\ Len(h) + Len(t) = Len(queue)
  BY <1>1, SplitLengths DEF LogInv
<1>3. batches' = [batches EXCEPT ![w] = h] /\ queue' = t
  BY DEF Drain
<1>4. \A d \in LogDays : On(d, queue) = On(d, h) + On(d, t)
  BY <1>1, OnSplit DEF LogInv
<1> HIDE DEF n, h, t
<1>5. DOMAIN batches' = Writers /\ batches'[w] = h /\ \A v \in Writers : v # w => batches'[v] = batches[v]
  BY <1>3 DEF LogInv
<1>6. \A d \in LogDays : Left(d)' = Left(d)
  <2> SUFFICES ASSUME NEW d \in LogDays PROVE Left(d)' = Left(d)
    OBVIOUS
  <2>1. Left(d)' = On(d, t) + On(d, batches'["loop"]) + On(d, batches'["flush"])
    BY <1>3 DEF Left, On
  <2>2. On(d, h) \in Nat /\ On(d, t) \in Nat /\ On(d, batches[w]) = 0
        /\ \A v \in Writers : On(d, batches[v]) \in Nat
    BY <1>2, OnIsFinite, OnEmpty DEF LogInv
  <2>. QED
    BY <1>4, <1>5, <2>1, <2>2 DEF Left, Writers
<1>7. queue' \in Seq(Nat) /\ \A v \in Writers : batches'[v] \in Seq(Nat)
  BY <1>2, <1>3, <1>5 DEF LogInv
<1>8. \A d \in LogDays : d + UsageRetention >= day' => made'[d] = events'[d] + Left(d)'
  BY <1>6 DEF LogInv
<1>9. flusher' # "writing" => batches'["loop"] = <<>>
  BY <1>5 DEF LogInv, Writers
<1>10. ~RunnerDown'
  BY DEF RunnerDown
<1>11. counted' = total' + Len(queue') + Len(batches'["loop"]) + Len(batches'["flush"])
  <2> DEFINE lq == Len(queue)
             lh == Len(h)
             lt == Len(t)
             lb == [v \in Writers |-> Len(batches[v])]
  <2>1. lq \in Nat /\ lh \in Nat /\ lt \in Nat /\ lh + lt = lq
    BY <1>2, SeqIsFinite DEF LogInv
  <2>2. lb["loop"] \in Nat /\ lb["flush"] \in Nat /\ lb[w] = 0
    BY SeqIsFinite DEF LogInv, Writers
  <2>3. counted = total + lq + lb["loop"] + lb["flush"] /\ counted' = counted /\ total' = total
        /\ total \in Int
    BY DEF LogInv, Writers
  <2>4. Len(queue') = lt
    BY <1>3
  <2>5. CASE w = "loop"
    <3>1. Len(batches'["loop"]) = lh /\ Len(batches'["flush"]) = lb["flush"] /\ lb["loop"] = 0
      BY <1>5, <2>2, <2>5 DEF Writers
    <3> HIDE DEF lq, lh, lt, lb
    <3>2. counted = total + lt + lh + lb["flush"]
      BY <2>1, <2>2, <2>3, <3>1
    <3>. QED
      BY <2>3, <2>4, <3>1, <3>2
  <2>6. CASE w = "flush"
    <3>1. Len(batches'["flush"]) = lh /\ Len(batches'["loop"]) = lb["loop"] /\ lb["flush"] = 0
      BY <1>5, <2>2, <2>6 DEF Writers
    <3> HIDE DEF lq, lh, lt, lb
    <3>2. counted = total + lt + lb["loop"] + lh
      BY <2>1, <2>2, <2>3, <3>1
    <3>. QED
      BY <2>3, <2>4, <3>1, <3>2
  <2>. QED
    BY <2>5, <2>6 DEF Writers
<1>. QED
  BY <1>5, <1>7, <1>8, <1>9, <1>10, <1>11 DEF LogInv

\* The thread of w is through with its batch.
LEMMA BatchEnds ==
  ASSUME LogInv, NEW w \in Writers, batches' = [batches EXCEPT ![w] = <<>>], queue' = queue
  PROVE  /\ DOMAIN batches' = Writers /\ \A v \in Writers : batches'[v] \in Seq(Nat)
         /\ \A v \in Writers : batches[v] = <<>> => batches'[v] = <<>>
         /\ \A d \in LogDays : /\ On(d, batches[w]) \in Nat /\ Left(d)' \in Nat
                               /\ Left(d) = Left(d)' + On(d, batches[w])
         /\ Len(batches[w]) \in Nat
         /\ Len(batches'["loop"]) + Len(batches'["flush"]) + Len(batches[w])
              = Len(batches["loop"]) + Len(batches["flush"])
<1>1. DOMAIN batches' = Writers /\ batches'[w] = <<>> /\ \A v \in Writers : v # w => batches'[v] = batches[v]
  BY DEF LogInv
<1>2. \A v \in Writers : batches'[v] \in Seq(Nat)
  <2>1. <<>> \in Seq(Nat)
    OBVIOUS
  <2>. QED
    BY <1>1, <2>1, Zenon DEF LogInv
<1>3. ASSUME NEW d \in LogDays
      PROVE  /\ On(d, batches[w]) \in Nat /\ Left(d)' \in Nat
             /\ Left(d) = Left(d)' + On(d, batches[w])
  <2> DEFINE on == [v \in Writers |-> On(d, batches[v])]
             q == On(d, queue)
  <2>1. on["loop"] \in Nat /\ on["flush"] \in Nat /\ q \in Nat
    BY OnIsFinite DEF LogInv, Writers
  <2>2. Left(d) = q + on["loop"] + on["flush"] /\ on[w] = On(d, batches[w])
    BY DEF Left, Writers
  <2>3. Left(d)' = q + On(d, batches'["loop"]) + On(d, batches'["flush"])
    BY DEF Left, On
  <2>4. CASE w = "loop"
    <3>1. Left(d)' = q + 0 + on["flush"]
      BY <1>1, <2>3, <2>4, OnEmpty DEF Writers
    <3> HIDE DEF q, on
    <3>. QED
      BY <2>1, <2>2, <2>4, <3>1
  <2>5. CASE w = "flush"
    <3>1. Left(d)' = q + on["loop"] + 0
      BY <1>1, <2>3, <2>5, OnEmpty DEF Writers
    <3> HIDE DEF q, on
    <3>. QED
      BY <2>1, <2>2, <2>5, <3>1
  <2>. QED
    BY <2>4, <2>5 DEF Writers
<1>4. Len(batches[w]) \in Nat
      /\ Len(batches'["loop"]) + Len(batches'["flush"]) + Len(batches[w])
           = Len(batches["loop"]) + Len(batches["flush"])
  <2> DEFINE l == Len(batches["loop"])
             f == Len(batches["flush"])
             b == Len(batches[w])
             lp == Len(batches'["loop"])
             fp == Len(batches'["flush"])
  <2>1. l \in Nat /\ f \in Nat
    BY SeqIsFinite DEF LogInv, Writers
  <2>2. \/ lp = 0 /\ fp = f /\ b = l
        \/ fp = 0 /\ lp = l /\ b = f
    <3>1. Len(batches'[w]) = 0
      BY <1>1
    <3>2. CASE w = "loop"
      BY <1>1, <3>1, <3>2 DEF Writers
    <3>3. CASE w = "flush"
      BY <1>1, <3>1, <3>3 DEF Writers
    <3>. QED
      BY <3>2, <3>3 DEF Writers
  <2> HIDE DEF l, f, b, lp, fp
  <2>3. b \in Nat /\ lp + fp + b = l + f
    BY <2>1, <2>2
  <2>. QED
    BY <2>3 DEF l, f, b, lp, fp
<1>. QED
  BY <1>1, <1>2, <1>3, <1>4

LEMMA LogStep == LogInv /\ [Next]_vars => LogInv'
<1> SUFFICES ASSUME LogInv, [Next]_vars PROVE LogInv'
  OBVIOUS
<1>0. \A w \in Writers : batches = NoBatches => batches[w] = <<>>
  BY DEF NoBatches
<1>1. ASSUME UNCHANGED logVars, day' \in {day, day + 1}, RunnerDown' => RunnerDown
      PROVE  LogInv'
  <2>1. day' \in Nat /\ day' >= day
    BY <1>1 DEF LogInv
  <2>. QED
    BY <1>1, <2>1, LogStays DEF logVars, LogInv
<1>2. ASSUME NEW c \in Calls, Call(c) PROVE LogInv'
  <2>1. /\ queue' = Append(queue, day) /\ made' = [made EXCEPT ![day] = @ + 1] /\ counted' = counted + 1
        /\ flusher' = Scheduled /\ UNCHANGED <<batches, events, total, day, runner>>
        /\ ~RunnerDown
    BY <1>2 DEF Call, RecordCall, storeVars, RunnerDown
  <2>2. ~RunnerDown'
    BY <2>1 DEF RunnerDown
  <2>3. queue' \in Seq(Nat) /\ Len(queue') = Len(queue) + 1
    BY <2>1 DEF LogInv
  <2>4. \A d \in LogDays : made'[d] = made[d] + IF day = d THEN 1 ELSE 0
    BY <2>1 DEF LogInv
  <2>5. ASSUME NEW d \in LogDays PROVE Left(d)' = Left(d) + IF day = d THEN 1 ELSE 0
    <3> DEFINE q == On(d, queue)
               l == On(d, batches["loop"])
               f == On(d, batches["flush"])
    <3>1. q \in Nat /\ l \in Nat /\ f \in Nat
      BY OnIsFinite DEF LogInv, Writers
    <3>2. On(d, Append(queue, day)) = q + IF day = d THEN 1 ELSE 0
      BY OnAppend DEF LogInv
    <3>3. Left(d)' = On(d, Append(queue, day)) + l + f
      BY <2>1 DEF Left, On
    <3>4. Left(d) = q + l + f
      BY DEF Left
    <3> HIDE DEF q, l, f
    <3>. QED
      BY <3>1, <3>2, <3>3, <3>4
  <2>6. ASSUME NEW d \in LogDays PROVE Left(d) \in Nat
    <3>1. On(d, queue) \in Nat /\ On(d, batches["loop"]) \in Nat /\ On(d, batches["flush"]) \in Nat
      BY OnIsFinite DEF LogInv, Writers
    <3>. QED
      BY <3>1 DEF Left
  <2>7. ASSUME NEW d \in LogDays, d + UsageRetention >= day' PROVE made'[d] = events'[d] + Left(d)'
    <3>1. made[d] = events[d] + Left(d) /\ events[d] \in Int
      BY <2>1, <2>7 DEF LogInv
    <3>. QED
      BY <2>1, <2>4, <2>5, <2>6, <3>1
  <2>8. counted' = total' + Len(queue') + Len(batches'["loop"]) + Len(batches'["flush"])
    <3> DEFINE q == Len(queue)
               l == Len(batches["loop"])
               f == Len(batches["flush"])
    <3>1. q \in Nat /\ l \in Nat /\ f \in Nat /\ total \in Int /\ counted = total + q + l + f
      BY SeqIsFinite DEF LogInv, Writers
    <3>2. Len(batches'["loop"]) = l /\ Len(batches'["flush"]) = f /\ Len(queue') = q + 1
          /\ total' = total /\ counted' = counted + 1
      BY <2>1, <2>3
    <3> HIDE DEF q, l, f
    <3>. QED
      BY <3>1, <3>2
  <2>9. flusher' # "writing" => batches'["loop"] = <<>>
    BY <2>1 DEF LogInv, Scheduled
  <2>10. \A d \in LogDays : events'[d] \in Int /\ made'[d] \in Int
    BY <2>1, <2>4 DEF LogInv
  <2>11. counted' \in Int /\ DOMAIN made' = LogDays
    BY <2>1 DEF LogInv
  <2>. QED
    BY <2>1, <2>2, <2>3, <2>7, <2>8, <2>9, <2>10, <2>11 DEF LogInv
<1>3. ASSUME Turn, UNCHANGED <<storeVars, runner, call>> PROVE LogInv'
  <2>1. ~RunnerDown /\ day' = day /\ runner' = runner
    BY <1>3 DEF Turn, LoopIsFree, storeVars
  <2>2. CASE FlushNext /\ queue # <<>>
    <3>1. Drain("loop") /\ flusher' = "writing" /\ UNCHANGED <<events, total, made, counted>>
          /\ batches["loop"] = <<>>
      BY <2>2 DEF FlushNext, LogInv
    <3>. QED
      BY <2>1, <3>1, LogDrains DEF Writers
  <2>3. CASE (FlushNext /\ queue = <<>>) \/ FlushBack \/ FlushPaused
    <3>1. UNCHANGED <<queue, batches, events, total, made, counted>> /\ batches["loop"] = <<>>
      BY <2>3 DEF FlushNext, FlushBack, FlushPaused, LogInv
    <3>2. ~RunnerDown' /\ day' \in Nat /\ day' >= day
      BY <2>1 DEF RunnerDown, LogInv
    <3>. QED
      BY <3>1, <3>2, LogStays DEF LogInv
  <2>. QED
    BY <1>3, <2>2, <2>3 DEF Turn
<1>4. ASSUME FlushAtEnd, UNCHANGED <<storeVars, runner, call>> PROVE LogInv'
  <2>1. /\ Drain("flush") /\ batches["flush"] = <<>> /\ ~RunnerDown /\ flusher' = flusher
        /\ UNCHANGED <<day, events, total, made, counted, runner>>
    BY <1>4 DEF FlushAtEnd, FlushRest, storeVars, RunnerDown
  <2>. QED
    BY <2>1, LogDrains DEF Writers
<1>5. ASSUME NEW w \in Writers, WriteBatch(w) \/ WriteFails(w), UNCHANGED <<storeVars, runner, call>>
      PROVE  LogInv'
  <2>1. /\ batches' = [batches EXCEPT ![w] = <<>>] /\ UNCHANGED <<queue, flusher, day, runner>>
    BY <1>5 DEF WriteBatch, WriteFails, storeVars
  <2>2. \/ /\ events' = [d \in LogDays |-> events[d] + On(d, batches[w])]
           /\ total' = total + Len(batches[w]) /\ UNCHANGED <<made, counted>>
        \/ /\ made' = [d \in LogDays |-> made[d] - On(d, batches[w])]
           /\ counted' = counted - Len(batches[w]) /\ UNCHANGED <<events, total>>
    BY <1>5 DEF WriteBatch, WriteFails
  <2>3. ASSUME NEW d \in LogDays
        PROVE  /\ events'[d] \in Int /\ made'[d] \in Int
               /\ d + UsageRetention >= day' => made'[d] = events'[d] + Left(d)'
    <3>1. /\ events[d] \in Int /\ made[d] \in Int
          /\ d + UsageRetention >= day' => made[d] = events[d] + Left(d)
      BY <2>1 DEF LogInv
    <3>2. On(d, batches[w]) \in Nat /\ Left(d)' \in Nat /\ Left(d) = Left(d)' + On(d, batches[w])
      BY <2>1, BatchEnds
    <3>3. \/ events'[d] = events[d] + On(d, batches[w]) /\ made'[d] = made[d]
          \/ made'[d] = made[d] - On(d, batches[w]) /\ events'[d] = events[d]
      BY <2>2
    <3>. QED
      BY <3>1, <3>2, <3>3
  <2>4. /\ total' \in Int /\ counted' \in Int
        /\ counted' = total' + Len(queue') + Len(batches'["loop"]) + Len(batches'["flush"])
    <3> DEFINE q == Len(queue)
               l == Len(batches["loop"])
               f == Len(batches["flush"])
               b == Len(batches[w])
               lp == Len(batches'["loop"])
               fp == Len(batches'["flush"])
    <3>1. q \in Nat /\ l \in Nat /\ f \in Nat /\ b \in Nat /\ total \in Int /\ counted = total + q + l + f
      BY SeqIsFinite DEF LogInv, Writers
    <3>2. lp \in Nat /\ fp \in Nat /\ lp + fp + b = l + f
      BY <2>1, BatchEnds, SeqIsFinite DEF Writers
    <3>3. \/ total' = total + b /\ counted' = counted
          \/ total' = total /\ counted' = counted - b
      BY <2>2
    <3>4. Len(queue') = q
      BY <2>1
    <3> HIDE DEF q, l, f, b, lp, fp
    <3>5. total' \in Int /\ counted' \in Int /\ counted' = total' + q + lp + fp
      BY <3>1, <3>2, <3>3
    <3>. QED
      BY <3>4, <3>5 DEF lp, fp
  <2>5. flusher' # "writing" => batches'["loop"] = <<>>
    BY <2>1, BatchEnds DEF LogInv, Writers
  <2>6. RunnerDown' => queue' = <<>> /\ \A v \in Writers : batches'[v] = <<>>
    BY <2>1, BatchEnds DEF LogInv, RunnerDown
  <2>7. DOMAIN events' = LogDays /\ DOMAIN made' = LogDays
    BY <2>2 DEF LogInv
  <2>. QED
    BY <2>1, <2>3, <2>4, <2>5, <2>6, <2>7, BatchEnds DEF LogInv
<1>6. CASE Killed \/ Exit
  <2>1. /\ queue' = <<>> /\ flusher' = "done" /\ batches' = NoBatches /\ UNCHANGED <<day, events, total>>
        /\ DOMAIN made' = LogDays
        /\ \A d \in LogDays : made'[d] = made[d] - On(d, queue)
                                         - On(d, batches["loop"]) - On(d, batches["flush"])
        /\ counted' = counted - Len(queue) - Len(batches["loop"]) - Len(batches["flush"])
    <3>1. CASE Killed
      BY <3>1 DEF Killed, LoseRest, RunnerGone
    <3>2. CASE Exit
      <4>1. /\ queue = <<>> /\ batches["flush"] = <<>> /\ queue' = <<>> /\ flusher' = "done"
            /\ batches' = NoBatches /\ UNCHANGED <<day, events, total>>
            /\ made' = [d \in LogDays |-> made[d] - On(d, batches["loop"])]
            /\ counted' = counted - Len(batches["loop"])
        BY <3>2 DEF Exit, LoseThread, RunnerGone
      <4>2. /\ Len(queue) = 0 /\ Len(batches["flush"]) = 0
            /\ counted \in Int /\ Len(batches["loop"]) \in Nat
        BY <4>1, SeqIsFinite DEF LogInv, Writers
      <4>3. counted' = counted - Len(queue) - Len(batches["loop"]) - Len(batches["flush"])
        BY <4>1, <4>2
      <4>4. ASSUME NEW d \in LogDays
            PROVE  made'[d] = made[d] - On(d, queue) - On(d, batches["loop"]) - On(d, batches["flush"])
        <5>1. /\ On(d, queue) = 0 /\ On(d, batches["flush"]) = 0 /\ On(d, batches["loop"]) \in Nat
              /\ made[d] \in Int /\ made'[d] = made[d] - On(d, batches["loop"])
          BY <4>1, OnEmpty, OnIsFinite DEF LogInv, Writers
        <5>. QED
          BY <5>1
      <4>. QED
        BY <4>1, <4>3, <4>4
    <3>. QED
      BY <1>6, <3>1, <3>2
  <2>2. DOMAIN batches' = Writers /\ \A w \in Writers : batches'[w] = <<>>
    BY <2>1 DEF NoBatches
  <2>3. <<>> \in Seq(Nat) /\ Len(<<>>) = 0
    OBVIOUS
  <2>4. ASSUME NEW d \in LogDays
        PROVE  /\ made'[d] \in Int /\ events'[d] \in Int
               /\ d + UsageRetention >= day' => made'[d] = events'[d] + Left(d)'
    <3> DEFINE q == On(d, queue)
               l == On(d, batches["loop"])
               f == On(d, batches["flush"])
    <3>1. q \in Nat /\ l \in Nat /\ f \in Nat /\ made[d] \in Int /\ events[d] \in Int
          /\ (d + UsageRetention >= day => made[d] = events[d] + (q + l + f))
      BY OnIsFinite DEF LogInv, Writers, Left
    <3>2. made'[d] = made[d] - q - l - f /\ events'[d] = events[d] /\ day' = day
      BY <2>1
    <3>3. Left(d)' = On(d, queue') + On(d, batches'["loop"]) + On(d, batches'["flush"])
      BY DEF Left, On
    <3>4. Left(d)' = 0
      BY <2>1, <2>2, <3>3, OnEmpty DEF Writers
    <3> HIDE DEF q, l, f
    <3>. QED
      BY <3>1, <3>2, <3>4
  <2>5. counted' \in Int /\ total' \in Int
        /\ counted' = total' + Len(queue') + Len(batches'["loop"]) + Len(batches'["flush"])
    <3> DEFINE q == Len(queue)
               l == Len(batches["loop"])
               f == Len(batches["flush"])
    <3>1. q \in Nat /\ l \in Nat /\ f \in Nat /\ total \in Int /\ counted = total + q + l + f
      BY SeqIsFinite DEF LogInv, Writers
    <3>2. counted' = counted - q - l - f /\ total' = total
      BY <2>1
    <3>3. Len(queue') = 0 /\ Len(batches'["loop"]) = 0 /\ Len(batches'["flush"]) = 0
      BY <2>1, <2>2, <2>3 DEF Writers
    <3> HIDE DEF q, l, f
    <3>. QED
      BY <3>1, <3>2, <3>3
  <2>6. DOMAIN events' = LogDays /\ DOMAIN made' = LogDays /\ day' \in Nat
    BY <2>1 DEF LogInv
  <2>7. queue' \in Seq(Nat) /\ \A w \in Writers : batches'[w] \in Seq(Nat)
    BY <2>1, <2>2, <2>3, Zenon
  <2>. QED
    BY <2>1, <2>2, <2>4, <2>5, <2>6, <2>7 DEF LogInv, Writers
<1>7. CASE Delete
  <2>1. /\ RunnerDown /\ UNCHANGED <<queue, flusher, batches, day, runner>>
        /\ events' = [d \in LogDays |-> 0] /\ made' = [d \in LogDays |-> 0]
        /\ total' = 0 /\ counted' = 0
    BY <1>7 DEF Delete, ForgetUsage
  <2>2. queue = <<>> /\ batches["loop"] = <<>> /\ batches["flush"] = <<>>
    BY <2>1 DEF LogInv, Writers
  <2>3. \A d \in LogDays : Left(d)' = 0
    <3>1. \A d \in LogDays : Left(d)' = On(d, queue) + On(d, batches["loop"]) + On(d, batches["flush"])
      BY <2>1 DEF Left, On
    <3>. QED
      BY <2>2, <3>1, OnEmpty
  <2>4. counted' = total' + Len(queue') + Len(batches'["loop"]) + Len(batches'["flush"])
    BY <2>1, <2>2
  <2>5. \A d \in LogDays : events'[d] = 0 /\ made'[d] = 0
    BY <2>1
  <2>6. \A d \in LogDays : made'[d] = events'[d] + Left(d)'
    BY <2>3, <2>5
  <2>7. /\ DOMAIN events' = LogDays /\ DOMAIN made' = LogDays /\ total' \in Int /\ counted' \in Int
        /\ \A d \in LogDays : events'[d] \in Int /\ made'[d] \in Int
    BY <2>1, <2>5
  <2>8. /\ day' \in Nat /\ queue' \in Seq(Nat)
        /\ DOMAIN batches' = Writers /\ \A w \in Writers : batches'[w] \in Seq(Nat)
        /\ flusher' # "writing" => batches'["loop"] = <<>>
        /\ queue' = <<>> /\ \A w \in Writers : batches'[w] = <<>>
    BY <2>1, <2>2 DEF LogInv, Writers
  <2>. QED
    BY <2>4, <2>6, <2>7, <2>8 DEF LogInv
<1>8. ASSUME PruneEvents(day), UNCHANGED <<storeVars, runner, call>> PROVE LogInv'
  <2>1. /\ events' = [d \in LogDays |-> IF d + UsageRetention < day THEN 0 ELSE events[d]]
        /\ UNCHANGED <<queue, flusher, batches, total, made, counted, day, runner>>
    BY <1>8 DEF PruneEvents, storeVars
  <2>2. ASSUME NEW d \in LogDays
        PROVE  events'[d] \in Int /\ (d + UsageRetention >= day' => events'[d] = events[d])
    <3>1. d \in Nat /\ UsageRetention \in Nat /\ day \in Nat /\ events[d] \in Int
      BY LogNumbers DEF LogDays, LogInv
    <3>. QED
      BY <2>1, <3>1
  <2>3. day' \in Nat /\ day' >= day
    BY <2>1 DEF LogInv
  <2>. QED
    BY <2>1, <2>2, <2>3, LogStays DEF LogInv, RunnerDown
<1>9. CASE StartRunner \/ Shutdown
  <2>1. UNCHANGED <<storeVars, logVars>> /\ ~RunnerDown'
    BY <1>9 DEF StartRunner, Shutdown, RunnerDown
  <2>. QED
    BY <1>1, <2>1 DEF storeVars
<1>10. ASSUME UNCHANGED <<logVars, runner>>, day' \in {day, day + 1} PROVE LogInv'
  BY <1>1, <1>10 DEF RunnerDown
<1>11. ASSUME NEW c \in Calls, Linked(c) \/ (\E n \in Names : ToolWrites(c, n))
                               \/ (\E mentioned \in SUBSET Names : Answer(c, mentioned))
       PROVE  LogInv'
  BY <1>10, <1>11 DEF Linked, ToolWrites, WriteFile, Answer
<1>12. ASSUME StoreNext(RunnerDown), UNCHANGED <<logVars, runner, call>> PROVE LogInv'
  <2>1. day' \in {day, day + 1}
    BY <1>12 DEF StoreNext, EnsureSecret, StartManager, ManagerReady, ManagerGone, LoseKey, Prune,
                 Look, Clear, SweepDone, SweepOne, DeleteFile, NextDay
  <2>. QED
    BY <1>10, <1>12, <2>1
<1>13. CASE UNCHANGED vars
  BY <1>10, <1>13 DEF vars, storeVars
<1>. QED
  BY <1>2, <1>3, <1>4, <1>5, <1>6, <1>7, <1>8, <1>9, <1>11, <1>12, <1>13 DEF Next, Written

\* A stop writes the queue: what a runner counted while it lived is there once it
\* is down, apart from what the database refused, what a kill took, and the batch
\* the flusher's thread had in hand when the server was through.
THEOREM QueueIsWritten == Spec => []StopWritesTheQueue
<1>1. LogInv => StopWritesTheQueue
  <2> SUFFICES ASSUME LogInv, RunnerDown
               PROVE  /\ total = counted
                      /\ \A d \in LogDays : d + UsageRetention >= day => events[d] = made[d]
    BY DEF StopWritesTheQueue
  <2>1. queue = <<>> /\ batches["loop"] = <<>> /\ batches["flush"] = <<>>
    BY DEF LogInv, Writers
  <2>2. Len(queue) = 0 /\ Len(batches["loop"]) = 0 /\ Len(batches["flush"]) = 0
    BY <2>1
  <2>3. \A d : Left(d) = 0
    BY <2>1, OnEmpty DEF Left
  <2>. QED
    BY <2>2, <2>3 DEF LogInv
<1>. QED
  BY <1>1, LogInvInit, LogStep, PTL DEF Spec
=============================================================================
