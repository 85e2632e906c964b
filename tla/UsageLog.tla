------------------------------ MODULE UsageLog ------------------------------
(***************************************************************************)
(* How a tool call gets into the usage database (app/activity.py): queued on *)
(* the runner's event loop, taken in batches by one flusher task, written in *)
(* a thread; what is still queued is written when the runner shuts down.     *)
(***************************************************************************)
EXTENDS Naturals, Sequences, FiniteSets, FiniteSetsExt

CONSTANTS
  LastDay,          \* bound on the days
  MaxBatch,         \* MAX_BATCH
  UsageRetention,   \* usage_retention_days
  MaxCalls          \* bound on the calls recorded

ASSUME LogNumbers == {LastDay, MaxBatch, UsageRetention, MaxCalls} \subseteq Nat

VARIABLES
  queue,      \* _pending: the day of each call that is not written
  flusher,    \* the task: "done", "ready", "writing", "pausing"
  batches,    \* [{"loop", "flush"} -> the batch its thread is writing]
  events,     \* the table calls: [day -> the calls of that day]
  total,      \* the table totals
  made,       \* [day -> the calls made on it whose loss nothing excuses]
  counted     \* all of them, whenever they were made
logVars == <<queue, flusher, batches, events, total, made, counted>>

LogDays == 0..LastDay
Writers == {"loop", "flush"}
NoBatches == [w \in Writers |-> <<>>]

LogInit ==
  /\ queue = <<>> /\ flusher = "done" /\ batches = NoBatches
  /\ events = [d \in LogDays |-> 0] /\ total = 0
  /\ made = [d \in LogDays |-> 0] /\ counted = 0

On(d, s) == Cardinality({k \in DOMAIN s : s[k] = d})

\* _schedule_flush: a task that is over is replaced, one under way goes on.
Scheduled == IF flusher = "done" THEN "ready" ELSE flusher

\* record_call: the time is the time of the call.
RecordCall(today) ==
  /\ queue' = Append(queue, today)
  /\ made' = [made EXCEPT ![today] = @ + 1] /\ counted' = counted + 1
  /\ flusher' = Scheduled
  /\ UNCHANGED <<batches, events, total>>

\* _drain, into the thread of w.
Drain(w) ==
  LET n == Min({MaxBatch, Len(queue)})
  IN  /\ batches' = [batches EXCEPT ![w] = SubSeq(queue, 1, n)]
      /\ queue' = SubSeq(queue, n + 1, Len(queue))

\* _flush_loop, up to its first await.
FlushNext ==
  /\ flusher = "ready"
  /\ IF queue = <<>>
     THEN flusher' = "done" /\ UNCHANGED <<queue, batches>>
     ELSE Drain("loop") /\ flusher' = "writing"
  /\ UNCHANGED <<events, total, made, counted>>

\* Fault: one batch, and the task is over.
FlushBackOnce ==
  /\ flusher = "writing" /\ batches["loop"] = <<>>
  /\ flusher' = "done"
  /\ UNCHANGED <<queue, batches, events, total, made, counted>>

\* The thread is back.
FlushBack ==
  /\ flusher = "writing" /\ batches["loop"] = <<>>
  /\ flusher' = IF queue = <<>> THEN "done" ELSE "pausing"
  /\ UNCHANGED <<queue, batches, events, total, made, counted>>

FlushPaused ==
  /\ flusher = "pausing"
  /\ flusher' = "ready"
  /\ UNCHANGED <<queue, batches, events, total, made, counted>>

\* flush, at shutdown.
FlushRest ==
  /\ queue # <<>> /\ batches["flush"] = <<>>
  /\ Drain("flush")
  /\ UNCHANGED <<flusher, events, total, made, counted>>

\* _write_batch: one transaction for both tables.
WriteBatch(w) ==
  /\ batches[w] # <<>>
  /\ events' = [d \in LogDays |-> events[d] + On(d, batches[w])]
  /\ total' = total + Len(batches[w])
  /\ batches' = [batches EXCEPT ![w] = <<>>]
  /\ UNCHANGED <<queue, flusher, made, counted>>

\* The database refuses it: the batch is gone.
WriteFails(w) ==
  /\ batches[w] # <<>>
  /\ made' = [d \in LogDays |-> made[d] - On(d, batches[w])]
  /\ counted' = counted - Len(batches[w])
  /\ batches' = [batches EXCEPT ![w] = <<>>]
  /\ UNCHANGED <<queue, flusher, events, total>>

\* The process is gone, with what it had not written.
LoseRest ==
  /\ queue' = <<>> /\ flusher' = "done" /\ batches' = NoBatches
  /\ made' = [d \in LogDays |-> made[d] - On(d, queue)
                                - On(d, batches["loop"]) - On(d, batches["flush"])]
  /\ counted' = counted - Len(queue) - Len(batches["loop"]) - Len(batches["flush"])
  /\ UNCHANGED <<events, total>>

\* A process that ends by itself takes its threads with it: what the flusher's
\* had in hand is gone, unless it was written just before.
LoseThread ==
  /\ queue' = <<>> /\ flusher' = "done" /\ batches' = NoBatches
  /\ made' = [d \in LogDays |-> made[d] - On(d, batches["loop"])]
  /\ counted' = counted - Len(batches["loop"])
  /\ UNCHANGED <<events, total>>

\* prune: the events go with their time, the totals stay.
PruneEvents(today) ==
  /\ UsageRetention > 0
  /\ events' = [d \in LogDays |-> IF d + UsageRetention < today THEN 0 ELSE events[d]]
  /\ UNCHANGED <<queue, flusher, batches, total, made, counted>>

\* forget: the instance is deleted.
ForgetUsage ==
  /\ events' = [d \in LogDays |-> 0] /\ total' = 0
  /\ made' = [d \in LogDays |-> 0] /\ counted' = 0
  /\ UNCHANGED <<queue, flusher, batches>>

LogTypeOK ==
  /\ queue \in Seq(LogDays) /\ flusher \in {"done", "ready", "writing", "pausing"}
  /\ batches \in [Writers -> Seq(LogDays)]
  /\ events \in [LogDays -> Nat] /\ total \in Nat /\ made \in [LogDays -> Nat]
  /\ counted \in Nat
=============================================================================
