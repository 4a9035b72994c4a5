# Verification of go-distributed-crontab

A distributed crontab: masters keep jobs in etcd, every worker mirrors all jobs,
plans them by their cron expressions, and competes for a lock in etcd before it
executes one; results are logged to mongodb. This directory holds TLA+ models of
that code, TLC configurations, and proofs checked by TLAPS.

## The system

| Part (source under `src/`) | State | Operations | Talks to |
| --- | --- | --- | --- |
| Scheduler (`src/worker/Scheduler.go`, records in `src/common/Protocol.go`) | `jobPlanTable`, `jobExecutingTable`, `jobEventChan`, `jobExecuteResultChan`, a timer | `scheduleLoop`: `handleJobEvent`, `handleJobResult`, `TrySchedule`, `TryStartJob` | one goroutine; fed by the job manager and by executors, starts executors, hands logs to the sink |
| Executor and lock (`Executor.go`, `JobLock.go`) | one goroutine per execution; a lease and the key `/cron/lock/job` in etcd | random sleep, `TryLock` (grant, keep-alive, transaction, rollback), shell, `PushJobResult`, deferred `UnLock` | etcd, the shell, the scheduler |
| Log sink (`LogSink.go`) | `logChan`, the current batch, its commit timer, `autoCommitChan` | `Append`, `writeLoop`, timer callbacks | mongodb |
| Job manager of a worker (`src/worker/JobMgr.go`) | two watches of etcd | `InitJobMgr`, `watchJobs`, `watchKiller` | etcd, pushes into `jobEventChan` |
| Job manager of the master (`src/master/JobMgr.go`) | none of its own; `/cron/jobs/`, `/cron/killer/` in etcd | `SaveJob`, `DeleteJob`, `ListJobs`, `KillJob` | etcd |
| Registration and discovery (`RegisterETCD.go`, `WorkerMgrETCD.go`) | `/cron/workers/ip` under a lease that the client renews | `getLocalIpv4`, `keepOnline` (grant, keep-alive, put, retry), `ListWorkers` | etcd |
| HTTP API and log queries (`ApiServer.go`, `LogMgr.go`) | none | one handler per route; `ListLog` | the managers above, mongodb |

What is hard here: two workers and a lease that may lapse between any two of
their steps; RPCs whose answer is lost; a worker that dies while it holds a
lock; a `select` over events, results and a timer in any order; bounded
channels between goroutines that wait for each other; a batch that fills up as
its timer fires; a snapshot and a watch that must fit together; a registration
that is retried while an earlier try is still under way; requests of two masters
for one job. The list, line by line, is under `hazards` in `PROJECT.json`.

## Modules

* `JobLock` - the executor's goroutine on every worker together with etcd's
  leases and lock keys. An *attempt* is one run of the goroutine (worker, job,
  planned time); as it asks for at most one lease, it also names the lease.
  `pc` is the place in the code: `Grant`, `KeepAlive`, `Commit`/`CommitFails`,
  `Rollback` are the parts of `TryLock`; `RunShell`, `ShellExits`,
  `ShellKilled`, `PushJobResult`, `UnLock` those of `ExecuteJob`. Any call may
  fail; a failed transaction goes to `pendingTxn`, from where it is applied late
  (`LateTxn`) or lost. `Expire` and `KeepAliveLost` are the lease's end as the
  server and the client see it. `Unstable`, `Crashable` and `Forking` say which
  workers may lose etcd for longer than a TTL or crash, and which commands go on
  in child processes.
* `LeaseLock` - the abstract lock `JobLock` implements (`holder <- lockKey`,
  `spent` the attempts whose lease is gone).
* `Scheduler` - one worker's loop. An iteration is one action: the selected
  case, then `TrySchedule`, then the timer's `Reset`, as in the code. An
  expression is the set of seconds it matches; 0 is Go's zero time. Executors
  are reduced to the set `running`, the job manager to `PushJobEvent`.
* `LogSink`, `LogStore` - the log sink, and the abstract table it implements:
  logs are stored in order and at most once. Saving is a step of its own
  (`SaveFull`, `SaveTimeout`), so that timers fire during an insertion. An
  insertion may fail with any part of it stored; that mongodb goes on with one
  that failed at the client while the next is under way is not modelled.
* `JobSync` - masters, etcd's history and one worker's job manager with the
  scheduler as the consumer of its events; `jobs` is what the scheduler was last
  told of each job. Revision `r` is `hist[r]`; the Get is a read at one revision,
  a watch a position in `hist`.
  A watch may end because etcd has compacted what it still had to bring
  (`JobsWatchEnds`, `KillerWatchEnds`); nothing restarts it.
* `WorkerNode` - a worker as a whole: `JobSync` (by `EXTENDS`) and `Scheduler`
  (by `INSTANCE`, as `Sched`) joined in the queue of events. Each keeps the queue
  in its own form, `jobEventChan` with revisions and `eventChan` without; a step
  that lengthens or shortens one does the same to the other (`Fed`,
  `NodeHandleEvent`). `NodeStart` runs `InitScheduler` and then `InitJobMgr`;
  `NodeCrash` takes tables, queues and executions with it, and the clock and etcd
  go on. A job definition is its cron expression, or `BadExpr`. `Forking` are the
  executions whose command goes on in child processes, which no kill reaches.
* `Register` - `keepOnline` on every worker, with leases and registration keys.
  `pc` is the place in a round; `renewing` holds all the leases the worker's
  client renews, since a retry leaves the old renewal running; `pendingPut` the
  Puts that failed or whose worker died and that may still be applied. `faults`
  counts crashes and cuts longer than a TTL, so that *steady* can be said.
* `ApiServer` - one handler per request with the manager calls it makes. etcd is
  the sequence of the modifications it applied; a call may fail before or after
  its effect, or be applied late. `ListLog` is filter, order, page, a cursor
  that may break off, and decoding; a negative skip or limit is sent to mongodb
  as it is (`core/command/find.go` of the driver), which refuses it.
* `MCJobLock`, `MCScheduler`, `MCRegister`, `MCApiServer`, `MCWorkerNode` -
  symmetry sets, cron expressions, network cards, requests and logs for TLC.
* `JobLockProofs`, `LogSinkProofs`, `SchedulerProofs`, `RegisterProofs`,
  `JobSyncProofs`, `ApiServerProofs`, `WorkerNodeProofs` - theorems and proofs,
  one module for each of the above. The last builds on `JobSyncProofs`.

The operators introduced by "A wrong ..." are plausible mistakes in the operator
that follows them. No specification uses them: each is put in place of that
operator to see that a property notices.

## Runs

| Run | Bounds | Shows |
| --- | --- | --- |
| `joblock` | 3 workers (one may crash and lose etcd), 1 job, 1 planned time | the safety properties of the lock, and that it implements `LeaseLock` |
| `joblock_release` | 1 worker, 2 planned times, fair | locks come free for good (`LockReleased`); an execution is not blocked by one its own worker has under way (`NeverBlockedByOwnRun`) |
| `joblock_twice` | 2 stable workers | **violated**: one planned time is executed by two workers, one after the other |
| `scheduler` | 2 jobs, 3 instants, queues of 2 | single flight, no oversleeping, plans follow etcd, no planned instant is passed over in silence |
| `scheduler_expired` | 1 job, an expression that ends | **violated**: the job runs at instants it does not match, again and again |
| `logsink` | 6 logs, queue of 2, batches of 2, fair | every log is in one place, in order, once; nothing is left behind; implements `LogStore` |
| `jobsync` | 2 jobs, 3 revisions, any number of restarts, queue of 2, fair | a worker's jobs are etcd's; events in order, once; all arrive |
| `jobsync_get_fails` | 1 job, 2 revisions, fair | **violated**: a worker whose Get failed never learns of a job |
| `worker` | 1 job, 3 instants, 2 revisions, queues of 2 and 1, any number of restarts, fair | plans are what etcd stores; a kill cancels the execution it was put for, ends it unless the command forks, and acts once; no instant is executed twice, restarts included; due jobs are handled |
| `register` | 1 worker, 3 leases, 2 faults, fair | a steady worker gets and stays listed; a dead one disappears; one whose lease lapsed returns |
| `register_unlisted` | the same, 1 fault | **violated**: a late Put leaves a live worker unlisted for ever |
| `api` | 2 requests of any kind, 1 job, 3 logs, 1 foreign put, fair | success means applied once, with data of one moment; all but failed kills are answered; pages leave no log out |

Why the bounds are enough. In `joblock`, jobs do not share anything, so one is
enough; three workers give two reliable ones and one that does everything wrong
meanwhile; consecutive planned times of one worker meet in `joblock_release`. A
second of a stable worker's attempts differs from one of another worker only in
when it may start. In `scheduler`, two jobs are enough to make the nearest time
belong to either; the expressions "every second" and "every other second" have
matches beyond the clock's end, as a recurring expression has. In `logsink`, six
logs with queue and batch of two fill the queue while a batch is saved, and let
the callback of the first batch arrive when the third one is open. In
`jobsync`, three revisions put changes before the Get, between Get and watch,
and after, with the queue full. In `worker`, a save and a kill, a deletion, a
second save or one that does not parse are two revisions; the third instant is
what an execution needs to be planned, started and still running when the next
is due, and of the two executions that there is time for, the first is
`Forking`; longer histories are in `jobsync`, more jobs in `scheduler`. In
`register`, workers with different addresses share nothing, so one is enough;
three leases are that of a round, an abandoned one and one of a process that
died (an ID that nobody knows any more is used again). In `api`, handlers meet
in pairs; three logs, one of them undecodable, make two pages with one inserted
between the queries, `FirstBatch = 1` makes a page need a second batch, and skip
and limit are missing, positive or negative.

Deadlock is checked where the system must not stop: the scheduler, whose timer
goes on when the clock has come to its bound, `JobSync` and `WorkerNode`. The
others may stop: no attempt is left, all logs are offered, all requests are
answered, or a worker is registered and nothing fails any more.

Fairness. Goroutines that can run do run; a Go `select` chooses at random among
ready cases, so each case of `scheduleLoop` is weakly fair by itself; timers
expire; RPCs return; etcd's expiry loop visits leases nobody renews; senders on
a channel are served in the order in which they wait (strong fairness of the two
watchers in `JobSync` and `WorkerNode`). `keepOnline` repeats its calls for ever,
and a call that is made again and again does not fail each time (strong fairness
of `Grant`, `KeepAlive` and `Put`). In `ApiServer` calls return, with whatever
result. Nothing is assumed of how long a command runs, of masters, kills, crashes
and restarts, or of new logs. A Put that was given up is not in flight for ever
(`Register`). A killed process dies; its children need not, and
`CombinedOutput` waits for them (`Executor.go:66-72`): a cancelled execution is
fair in `JobLock` and `WorkerNode` only if it is not `Forking`.

## What is proved

All theorems hold for every value of the constants under the `ASSUME`s of the
modules (which TLC evaluates in every run).

* `JobLockProofs`. `LockInvariant` is inductive together with the types:
  a key is backed by a live lease (`KeyBacked`); an attempt with `isLocked` and
  a live lease owns the key (`LockedOwnsKey`); a shell runs only with
  `isLocked` (`ShellLocked`); a stable worker's lease is renewed from the claim
  to the end of the shell (`Renewed`); before its claim an attempt owns nothing
  and nothing of it is in flight (`ClaimedOnce`, needed because late
  transactions could otherwise give the key to an attempt that has not asked);
  a worker has one execution of a job under way (`OneAtATime`, which is what
  `jobExecutingTable` is for). From it follow `OverlapOnlyAfterLapse`,
  `ReliableExclusion`, the action properties `LockOutlivesShell` and
  `NeverBlockedByOwnRun`, and the refinement of `LeaseLock`.
* `LogSinkProofs`. `CommitUnderway` carries the argument about timers: the
  batch in the "timeout" state is the current one. With it, `InOrder`
  (everything stored precedes everything in the current batch, which precedes
  the queue) and `Accounted` are preserved by the moves of logs between the
  three, and the sink implements `LogStore`.
* `SchedulerProofs`. The timer never lies after a planned time (`NoOversleep`);
  executions, queued results and table entries correspond (`SingleFlight`, which
  needs that a result is in the queue once and its execution no longer running,
  because `handleJobResult` deletes by name). `PlanFollowsEtcd` speaks of an empty
  queue only; what is inductive is `QueueTellsAll`, that the last event of a job in
  the queue carries its entry of etcd, and its plan follows that entry if there is
  no such event. `TickAccounted` comes from the shape of an iteration: what is due
  and not executing is started before it is planned anew. Under the hypothesis
  `Recurs` that every expression keeps matching, `StartsOnMatch` holds by way of
  `PlanAhead`: a plan lies after all instants its job was executed for. Without
  `Recurs` the run `scheduler_expired` shows it false.
* `RegisterProofs`. The types need that a worker that runs has an address and a
  round past its grant a lease (`TypeInv`). `SteadyListed` needs `SteadyInv`: a
  steady worker's leases are all live and those of its round renewed
  (`LeasesLive`, `RoundRenewed`), and every Put for its address that may still
  arrive, as the key itself, is on a lease that it renews (`KeyRenewed`): so it
  does not matter which of its Puts is applied last.
* `JobSyncProofs`. One invariant, `SyncInv`, carries `TypeOK`, `InOrder` and
  `Replica`: the last queued event of a job, or the job in memory where there is
  none, is the value etcd had at the revision that was brought (`InSync`); nothing
  handled or queued is newer than that revision (`UpToBrought`); the events of a
  job are in order (`Ordered`); a job of the Get that is not pushed yet has no
  event (`SnapshotInv`), and a worker that has not read etcd knows of no job
  (`Fresh`, because a restart must not meet events of the process before). The
  step from one change to the next rests on lemmas about the value of a key in a
  history (`NextValue`, `SameValue`).
* `ApiServerProofs`. `ApiInv` says of each request: nothing is applied for it
  before its call, twice, or while a modification of it is in flight (`Once`);
  its data have the type of its route (`DataType`); a query that succeeded shows a
  page of the logs it found (`LogAnswer`); and a call that has returned took effect
  at one moment after the request (`Effect`). `AtMostOnce`, `Linearizable` and
  `PagesCover` follow, the last because logs inserted between two queries move a
  log to later places only (`PlacesGrow`, `TwoPages`).
* `WorkerNodeProofs`. A whole worker implements `JobSync` (`ImplementsSync`), so
  that `SyncInv` holds of it, and takes the steps of `Scheduler` between the starts
  and the ends of its process (`ImplementsScheduler`). `KillActsOnce` needs that
  kills handled and queued lie before the position of the killer watch (`KillInv`).
  `PlanIsStored` needs that the two forms of the queue agree (`Link`) and that plans
  follow the jobs in memory (`PlanInv`); when the worker has caught up, `InSync`
  says that those are the stored ones. `StartsOnMatch`, under `Recurs`, holds across
  restarts because a new process plans after the clock, and no execution was for a
  later instant (`AheadInv`).

Only model-checked: everything about liveness (`LockReleased`, `LogSettled`,
`JobsArrive`, `KillsArrive`, `SteadyStaysListed`, `CrashedUnlisted`,
`LapsedReturns`, `Answered`, `KillEndsRun`, `DueHandled`), since the prover has no
rules for fairness. tlapm cannot use the theorems of a module that is instantiated,
so the facts about the scheduler's operators that the proofs of `WorkerNode` need
are proved there again; the other properties of `Scheduler` are proved for one
process, and checked by TLC in the run `scheduler`.

## What the checks found

The four violated runs are explained under `findings` in `PROJECT.json`, each with
the line of the code and the comment it contradicts: the lock does not make a
planned time run once; an expression that has come to its end fires for ever; a
failed first read is ignored; a late Put unlists a live worker.

Other limits of the code are exceptions that the passing properties make. They
do not show these cases to be harmless; they show that nothing else goes wrong:

* the lock is as good as its lease, and nobody is told when that lapses: two
  workers then execute a job at a time (`OverlapOnlyAfterLapse`); a crashed
  worker's command may still be running when its key is gone;
* the lock of an execution is given back after its result was pushed, so that the
  next one of the same worker may find it occupied and be skipped
  (`NeverBlockedByOwnRun`, `Executor.go:55`);
* a kill reaches `bash` only: a command that goes on in child processes keeps
  its lock, and its job from being executed again, for as long as they live,
  whatever `ApiServer.go:209` promises (`LockReleased`, `KillEndsRun`);
* a kill cancels whichever execution of the job it finds, which may be a later one
  than was meant, and is not seen at all by a worker that is not watching
  (`KillActsOnce` says only that it acts once);
* a save whose expression does not parse leaves the old plan in force
  (`PlanFollowsEtcd`, `PlanIsStored`);
* a save handled in the second in which the job is due costs that execution
  (`TickAccounted`);
* a watch that etcd ends is not started again (`JobsArrive`, `KillsArrive`,
  `KillEndsRun`);
* a kill that fails is answered with nothing (`Answered`, `ApiServer.go:231`);
* the comment at `LogMgr.go:76` says that a log that does not decode is ignored,
  and the code does not do that: its error stays in `err`, and if it was the last
  log of the page the whole page is refused. The model does what the code does
  (`EndsInError`), and no property claims otherwise;
* a cursor that breaks off shortens a page without an error (`PagesCover` is about
  pages of one batch, `LogMgr.go:72`);
* where start times are equal, pages may overlap or leave a log out.

## Not modelled

Configuration files and flags (pure I/O), the web console, the nginx proxy and
the static files (no state of this program), the tutorial programs under
`src/prepare` (stand-alone demonstrations, not part of the system), and the
vendored libraries except for what the code relies on in them. The text of jobs,
outputs and logs. Whether an HTTP answer reaches the browser, and the server's
read and write timeouts. Two workers with one address, which overwrite each
other's key: the properties of `Register` are about workers with addresses of
their own.

## Plan

1. Done: `JobLock`, `Scheduler`, `LogSink`, `JobSync`, `Register`, `ApiServer` and
   `WorkerNode` with their runs.
2. Done: proofs of every type invariant, safety invariant and action property that
   a passing run checks, and of the refinements.
3. Left: `SingleFlight` and `NoOversleep` for a worker with restarts, with the
   arguments of `SchedulerProofs`.
