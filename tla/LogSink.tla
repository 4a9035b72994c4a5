------------------------------ MODULE LogSink ------------------------------
(***************************************************************************)
(* The log sink of a worker: LogSink.Append, called by the scheduler, the  *)
(* goroutine writeLoop that collects logs into batches, and the callbacks  *)
(* of the commit timers, which run in goroutines of their own.             *)
(*                                                                         *)
(* A log is a number, counted in the order of the Append calls. batch is   *)
(* the heap of the batches ever made; a batch number stands for the        *)
(* pointer to it, 0 for nil.                                               *)
(***************************************************************************)
EXTENDS Naturals, Sequences, Functions

CONSTANTS MaxLogs,   \* bound: Append calls
          ChanCap,   \* capacity of logChan (1000 in the code)
          BatchSize  \* G_config.MongodbLogBatchSize (100 in worker.json)

ASSUME SinkAssumption == MaxLogs \in Nat /\ ChanCap \in Nat \ {0} /\ BatchSize \in Nat \ {0}

VARIABLES
    offered,        \* number of Append calls
    dropped,        \* logs that Append discarded
    logChan,        \* the queue of logs
    batch,          \* the batches made so far, each a sequence of logs
    timer,          \* the commit timer of each batch
    jobLogBatch,    \* the current batch, or 0
    timeoutBatch,   \* the batch received from autoCommitChan
    autoCommitChan, \* the queue of batches whose time is over
    pc,             \* where writeLoop is
    store,          \* the log collection of mongodb, in order of insertion
    lost            \* logs whose insertion failed

loopVars == <<batch, jobLogBatch, timeoutBatch, pc>>
mongoVars == <<store, lost>>
vars == <<offered, dropped, logChan, timer, autoCommitChan, loopVars, mongoVars>>

Log == 1..MaxLogs

TypeOK == /\ offered \in 0..MaxLogs
          /\ dropped \in SUBSET Log
          /\ logChan \in Seq(Log) /\ Len(logChan) <= ChanCap
          /\ batch \in Seq(Seq(Log))
          /\ timer \in Seq({"armed", "fired", "off"}) /\ Len(timer) = Len(batch)
          /\ jobLogBatch \in 0..Len(batch)
          /\ timeoutBatch \in 0..Len(batch)
          /\ autoCommitChan \in Seq(1..Len(batch)) /\ Len(autoCommitChan) <= 1
          /\ pc \in {"select", "full", "timeout"}
          /\ store \in Seq(Log)
          /\ lost \in SUBSET Log

Init == /\ offered = 0 /\ dropped = {}
        /\ logChan = <<>> /\ autoCommitChan = <<>>
        /\ batch = <<>> /\ timer = <<>>
        /\ jobLogBatch = 0 /\ timeoutBatch = 0
        /\ pc = "select"
        /\ store = <<>> /\ lost = {}

-----------------------------------------------------------------------------
\* A wrong Append: one log too many is accepted.
LogAppendOffByOne ==
    /\ offered < MaxLogs
    /\ offered' = offered + 1
    /\ Len(logChan) <= ChanCap
    /\ logChan' = Append(logChan, offered + 1)
    /\ UNCHANGED <<dropped, timer, autoCommitChan, loopVars, mongoVars>>

\* Append never blocks the scheduler: a log that finds the queue full is
\* dropped.
LogAppend ==
    /\ offered < MaxLogs
    /\ offered' = offered + 1
    /\ \/ /\ Len(logChan) < ChanCap
          /\ logChan' = Append(logChan, offered + 1)
          /\ UNCHANGED dropped
       \/ /\ Len(logChan) >= ChanCap
          /\ dropped' = dropped \cup {offered + 1}
          /\ UNCHANGED logChan
    /\ UNCHANGED <<timer, autoCommitChan, loopVars, mongoVars>>

\* A wrong first log: the batch is made without a timer.
OpenBatchUntimed(log) == /\ batch' = Append(batch, <<log>>)
                         /\ timer' = Append(timer, "off")
                         /\ jobLogBatch' = Len(batch) + 1

\* The first log of a batch makes the batch and arms its timer.
OpenBatch(log) == /\ batch' = Append(batch, <<log>>)
                  /\ timer' = Append(timer, "armed")
                  /\ jobLogBatch' = Len(batch) + 1

\* The other logs are added to the current batch.
ExtendBatch(log) == /\ batch' = [batch EXCEPT ![jobLogBatch] = Append(@, log)]
                    /\ UNCHANGED <<timer, jobLogBatch>>

\* The case of writeLoop that receives a log; a full batch is saved next.
Receive ==
    /\ pc = "select"
    /\ logChan # <<>>
    /\ logChan' = Tail(logChan)
    /\ IF jobLogBatch = 0 THEN OpenBatch(Head(logChan)) ELSE ExtendBatch(Head(logChan))
    /\ pc' = IF Len(batch'[jobLogBatch']) >= BatchSize THEN "full" ELSE "select"
    /\ UNCHANGED <<offered, dropped, timeoutBatch, autoCommitChan, mongoVars>>

\* InsertMany, whose result the code ignores: an ordered insertion that fails
\* leaves a part of the batch in the collection. It is assumed that mongodb is
\* done with an insertion that failed at the client before it gets the next one.
saveJobLogs(b) ==
    \E n \in 0..Len(batch[b]) :
       /\ store' = store \o SubSeq(batch[b], 1, n)
       /\ lost' = lost \cup {batch[b][i] : i \in (n + 1)..Len(batch[b])}

\* A wrong save: the timer of the full batch is left running.
SaveFullNoStop ==
    /\ pc = "full"
    /\ saveJobLogs(jobLogBatch)
    /\ jobLogBatch' = 0
    /\ pc' = "select"
    /\ UNCHANGED <<offered, dropped, logChan, timer, batch, timeoutBatch, autoCommitChan>>

\* A full batch is saved, forgotten, and its timer stopped; Stop has no effect
\* on a callback that has started.
SaveFull ==
    /\ pc = "full"
    /\ saveJobLogs(jobLogBatch)
    /\ jobLogBatch' = 0
    /\ timer' = [timer EXCEPT ![jobLogBatch] = IF @ = "armed" THEN "off" ELSE @]
    /\ pc' = "select"
    /\ UNCHANGED <<offered, dropped, logChan, batch, timeoutBatch, autoCommitChan>>

\* A wrong case: a timed-out batch is saved without asking whether it is still
\* the current one.
TimeoutUnchecked ==
    /\ pc = "select"
    /\ autoCommitChan # <<>>
    /\ timeoutBatch' = Head(autoCommitChan)
    /\ autoCommitChan' = Tail(autoCommitChan)
    /\ pc' = "timeout"
    /\ UNCHANGED <<offered, dropped, logChan, timer, batch, jobLogBatch, mongoVars>>

\* The case of writeLoop that receives a timed-out batch: skipped unless it is
\* still the current one.
Timeout ==
    /\ pc = "select"
    /\ autoCommitChan # <<>>
    /\ timeoutBatch' = Head(autoCommitChan)
    /\ autoCommitChan' = Tail(autoCommitChan)
    /\ pc' = IF timeoutBatch' # jobLogBatch THEN "select" ELSE "timeout"
    /\ UNCHANGED <<offered, dropped, logChan, timer, batch, jobLogBatch, mongoVars>>

\* A wrong save: the saved batch stays the current one.
SaveTimeoutNoReset ==
    /\ pc = "timeout"
    /\ saveJobLogs(timeoutBatch)
    /\ pc' = "select"
    /\ UNCHANGED <<offered, dropped, logChan, timer, batch, jobLogBatch, timeoutBatch, autoCommitChan>>

\* The timed-out batch is saved and forgotten.
SaveTimeout ==
    /\ pc = "timeout"
    /\ saveJobLogs(timeoutBatch)
    /\ jobLogBatch' = 0
    /\ pc' = "select"
    /\ UNCHANGED <<offered, dropped, logChan, timer, batch, timeoutBatch, autoCommitChan>>

\* The commit timer of batch b expires: its callback starts, ...
Fire(b) == /\ timer[b] = "armed"
           /\ timer' = [timer EXCEPT ![b] = "fired"]
           /\ UNCHANGED <<offered, dropped, logChan, autoCommitChan, loopVars, mongoVars>>

\* ... blocks while autoCommitChan is full, and sends the batch.
Callback(b) == /\ timer[b] = "fired"
               /\ Len(autoCommitChan) < 1
               /\ autoCommitChan' = Append(autoCommitChan, b)
               /\ timer' = [timer EXCEPT ![b] = "off"]
               /\ UNCHANGED <<offered, dropped, logChan, loopVars, mongoVars>>

-----------------------------------------------------------------------------
writeLoop == Receive \/ SaveFull \/ Timeout \/ SaveTimeout

Next == LogAppend \/ writeLoop \/ \E b \in 1..Len(batch) : Fire(b) \/ Callback(b)

Spec == Init /\ [][Next]_vars

\* The loop and the timer goroutines are run by the Go scheduler, a timer
\* expires, InsertMany returns. Nothing is assumed of the callers of Append.
Fairness == /\ WF_vars(writeLoop)
            /\ WF_vars(\E b \in 1..Len(batch) : Fire(b))
            /\ WF_vars(\E b \in 1..Len(batch) : Callback(b))

FairSpec == Spec /\ Fairness

-----------------------------------------------------------------------------
(* properties                                                              *)

Current == IF jobLogBatch = 0 THEN <<>> ELSE batch[jobLogBatch]

\* Every log handed over is in exactly one place: no batch is forgotten
\* unsaved, none is saved and then kept, when filling up and timing out race.
Accounted ==
    LET placed == Range(logChan) \cup Range(Current) \cup Range(store)
    IN  /\ placed \cup dropped \cup lost = 1..offered
        /\ placed \cap dropped = {} /\ placed \cap lost = {} /\ dropped \cap lost = {}

\* The logs stored, in the current batch and in the queue are in the order of
\* the Append calls, each of them once.
Increasing(s) == \A i, k \in 1..Len(s) : i < k => s[i] < s[k]
Before(s, t) == \A x \in Range(s), y \in Range(t) : x < y
InOrder == /\ Increasing(store) /\ Increasing(Current) /\ Increasing(logChan)
           /\ Before(store, Current) /\ Before(store, logChan) /\ Before(Current, logChan)

\* A batch that waits for more logs has a commit underway: its timer runs, its
\* callback is about to send it, or it is in autoCommitChan. No timer but that
\* of the current batch still runs, and a batch being saved is the current one.
CommitUnderway ==
    /\ pc = "select" /\ jobLogBatch # 0 =>
          \/ timer[jobLogBatch] \in {"armed", "fired"}
          \/ jobLogBatch \in Range(autoCommitChan)
    /\ \A b \in 1..Len(batch) : timer[b] = "armed" => b = jobLogBatch
    /\ \A b \in Range(autoCommitChan) : timer[b] = "off"
    /\ pc # "select" => jobLogBatch # 0
    /\ pc = "timeout" => timeoutBatch = jobLogBatch /\ timer[jobLogBatch] = "off"

\* Every log that Append accepted is stored, or was lost in a failed insertion:
\* none stays in the queue or in a batch for ever.
LogSettled ==
    \A l \in Log : (l <= offered /\ l \notin dropped) ~> (l \in Range(store) \cup lost)

\* The collection implements the abstract log table.
Table == INSTANCE LogStore
TableSpec == Table!Spec
=============================================================================
