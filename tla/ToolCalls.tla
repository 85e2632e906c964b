------------------------------ MODULE ToolCalls ------------------------------
(***************************************************************************)
(* A runner serving calls (app/mcp_runner.py): what every call leaves behind  *)
(* in the usage log and in the content store, while the manager cleans up,    *)
(* restarts, and stops the runner.                                            *)
(***************************************************************************)
EXTENDS ContentStore, UsageLog

CONSTANTS Calls,           \* the tool calls under way at once
          BlockWhenFull    \* content_block_when_full

VARIABLES
  runner,    \* "down", "serving" or "flushing"
  call       \* [Calls -> [at, found]]
vars == <<storeVars, logVars, runner, call>>

NoCall == [at |-> "idle", found |-> {}]

RunnerDown == runner = "down"

\* An answer is made in one turn of the event loop, ensure_secret included.
LoopIsFree == ~RunnerDown /\ \A c \in Calls : call[c].at # "linking"

\* The manager starts an instance when its own start is through.
StartRunner ==
  /\ RunnerDown /\ manager = "up"
  /\ runner' = "serving"
  /\ UNCHANGED <<storeVars, logVars, call>>

\* handle_call_tool: refused if the folder is full, counted otherwise.
Call(c) ==
  /\ runner = "serving" /\ LoopIsFree /\ call[c] = NoCall
  /\ ~(BlockWhenFull /\ IsFull)
  /\ counted < MaxCalls
  /\ RecordCall(day)
  /\ call' = [call EXCEPT ![c].at = "running"]
  /\ UNCHANGED <<storeVars, runner>>

\* The tool, in its thread, which the end of the server does not cut off.
ToolWrites(c, n) ==
  /\ ~RunnerDown /\ call[c].at = "running"
  /\ WriteFile(n)
  /\ UNCHANGED <<logVars, runner, call>>

\* rewrite_links: the names the answer mentions get a link if they exist, and
\* the first link makes the runner look for the secret.
Answer(c, mentioned) ==
  LET found == mentioned \cap Present
  IN  /\ runner = "serving" /\ LoopIsFree /\ call[c].at = "running"
      /\ call' = [call EXCEPT ![c] =
           IF found = {} THEN NoCall ELSE [at |-> "linking", found |-> found]]
      /\ mint' = [mint EXCEPT !["runner"] =
           IF found # {} /\ cache["runner"] = None THEN "read" ELSE @]
      /\ UNCHANGED <<day, files, manager, key, drawn, cache, links, sweep, logVars, runner>>

Linked(c) ==
  /\ call[c].at = "linking" /\ mint["runner"] = "idle"
  /\ links' = links \cup [file : call[c].found, key : {cache["runner"]}]
  /\ call' = [call EXCEPT ![c] = NoCall]
  /\ UNCHANGED <<day, files, manager, key, drawn, cache, mint, sweep, logVars, runner>>

\* The server is asked to stop: no more calls, and what is queued is written.
Shutdown ==
  /\ runner = "serving" /\ LoopIsFree
  /\ runner' = "flushing"
  /\ UNCHANGED <<storeVars, logVars, call>>

RunnerGone ==
  /\ runner' = "down"
  /\ call' = [c \in Calls |-> NoCall]
  /\ cache' = [cache EXCEPT !["runner"] = None]
  /\ mint' = [mint EXCEPT !["runner"] = "idle"]
  /\ UNCHANGED <<day, files, manager, key, drawn, links, sweep>>

\* Fault: the server ends without a flush.
ExitUnflushed ==
  /\ runner = "flushing"
  /\ LoseThread
  /\ RunnerGone

\* flush is through with what it took itself.  Then uvicorn raises the SIGTERM it
\* was stopped with once more, and nobody waits for the flusher's thread.
Exit ==
  /\ runner = "flushing" /\ queue = <<>> /\ batches["flush"] = <<>>
  /\ LoseThread
  /\ RunnerGone

\* A stop that ran out of patience, or a crash.
Killed ==
  /\ ~RunnerDown
  /\ LoseRest
  /\ RunnerGone

\* delete_instance forgets the calls once the runner is stopped, and then the
\* files, those apart that cannot be removed.
Delete ==
  /\ RunnerDown /\ manager = "up"
  /\ ForgetUsage
  /\ \E stuck \in SUBSET Present :
       files' = [n \in Names |-> IF n \in stuck THEN files[n] ELSE None]
  /\ UNCHANGED <<day, manager, key, drawn, cache, mint, links, sweep, runner, call>>

\* A turn of the flusher task, a batch in a thread, the flush of the shutdown.
Turn == LoopIsFree /\ (FlushNext \/ FlushBack \/ FlushPaused)
Written == \E w \in Writers : WriteBatch(w) \/ WriteFails(w)
FlushAtEnd == runner = "flushing" /\ FlushRest

Init ==
  /\ StoreInit /\ LogInit
  /\ runner = "down" /\ call = [c \in Calls |-> NoCall]

Next ==
  \/ \E c \in Calls : \/ Call(c) \/ Linked(c)
                      \/ \E n \in Names : ToolWrites(c, n)
                      \/ \E mentioned \in SUBSET Names : Answer(c, mentioned)
  \/ StartRunner \/ Shutdown \/ Exit \/ Killed \/ Delete
  \/ (Turn \/ Written \/ FlushAtEnd) /\ UNCHANGED <<storeVars, runner, call>>
  \/ manager = "up" /\ PruneEvents(day) /\ UNCHANGED <<storeVars, runner, call>>
  \/ StoreNext(RunnerDown) /\ UNCHANGED <<logVars, runner, call>>

\* The event loop of a runner turns, and its threads come to an end.
Fairness ==
  /\ SF_vars(Turn /\ UNCHANGED <<storeVars, runner, call>>)
  /\ WF_vars(Written /\ UNCHANGED <<storeVars, runner, call>>)
  /\ WF_vars(FlushAtEnd /\ UNCHANGED <<storeVars, runner, call>>)
  /\ WF_vars(\E c \in Calls : Linked(c))
  /\ WF_vars(EnsureSecret("runner") /\ UNCHANGED <<logVars, runner, call>>)

Spec == Init /\ [][Next]_vars /\ Fairness

---------------------------------------------------------------------------
TypeOK ==
  /\ StoreTypeOK /\ LogTypeOK
  /\ runner \in {"down", "serving", "flushing"}
  /\ call \in [Calls -> [at : {"idle", "running", "linking"}, found : SUBSET Names]]

\* As long as nobody takes the secret away under a runner, the file and the caches
\* are a way to share one secret, which is chosen once: no start of the manager that
\* was cut off, and no restart of either process, makes two of it.
Shared == INSTANCE SharedSecret WITH
  Secrets <- Keys, Holders <- Procs, Nothing <- None,
  secret <- IF IsSecret(key) THEN key ELSE None,
  held <- cache,
  signed <- {l.key : l \in links}

SharesOneSecret == Shared!Spec

\* A stop writes out what is queued (mcp_runner.py:444-450): once the runner is
\* down, every call is in the totals, and those of the window are among the events
\* of the day they were made on.  The exceptions: what it was killed with, what the
\* database refused, and the one batch that the flusher's thread had in hand when
\* the server was through, which flush does not wait for.
StopWritesTheQueue ==
  RunnerDown =>
    /\ total = counted
    /\ \A d \in LogDays : d + UsageRetention >= day => events[d] = made[d]

\* No call waits for the next one to be written: whenever the flusher task ends
\* and whatever is recorded meanwhile, what is queued is taken into a batch.
RecordedIsWritten == queue # <<>> ~> (queue = <<>> \/ batches # NoBatches)
=============================================================================
