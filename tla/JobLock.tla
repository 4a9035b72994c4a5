------------------------------ MODULE JobLock ------------------------------
(***************************************************************************)
(* The execution of jobs under the distributed lock: the goroutine of      *)
(* Executor.ExecuteJob, with JobLock.TryLock and JobLock.UnLock, on every  *)
(* worker, and the part of etcd they use (leases, the keys /cron/lock/job, *)
(* the transaction that claims a key).                                     *)
(*                                                                         *)
(* An attempt is one run of that goroutine: worker w tries to run job j    *)
(* for the planned time t. It asks etcd for at most one lease, so the      *)
(* attempt also names the lease. Every RPC may fail; the claim of the key  *)
(* may be applied although its answer was lost, even long after the client *)
(* gave up. A lease lapses when nobody renews it; the renewals of the      *)
(* workers in Unstable may be interrupted for longer than the lease's TTL. *)
(* The workers in Crashable may die at any moment; their shell processes   *)
(* are not killed with them.                                               *)
(***************************************************************************)
EXTENDS Naturals

CONSTANTS Worker,    \* worker processes
          Job,       \* job names
          Tick,      \* planned times (JobExecuteInfo.PlanTime)
          NoLease,   \* the value of a lock key that does not exist
          Unstable,  \* workers that may be cut off from etcd for a whole TTL
          Crashable, \* workers that may crash
          Forking    \* jobs whose command leaves it to child processes to go on

Attempt == [worker : Worker, job : Job, plan : Tick]

ASSUME ConstantsAssumption ==
    /\ Tick \subseteq Nat
    /\ NoLease \notin Attempt
    /\ Unstable \subseteq Worker
    /\ Crashable \subseteq Worker
    /\ Forking \subseteq Job

VARIABLES
    \* worker side
    pc,         \* where the goroutine of an attempt is
    isLocked,   \* JobLock.isLocked of the attempt
    renewing,   \* the etcd client renews the attempt's lease
    cancelled,  \* attempts whose CancelCtx was cancelled by a kill
    result,     \* JobExecuteResult.Err of the attempt
    shell,      \* attempts whose shell process, or a child of it, is running
    \* etcd side
    lease,      \* the attempt's lease
    lockKey,    \* /cron/lock/job: the lease the key is attached to
    pendingTxn  \* claims whose client has given up but that may still be applied

workerVars == <<pc, isLocked, renewing, cancelled, result, shell>>
etcdVars == <<lease, lockKey, pendingTxn>>
vars == <<workerVars, etcdVars>>

PC == {"idle", "sleep", "keepalive", "txn", "rollback", "locked", "shell",
       "push", "unlock", "done", "dead"}

\* The attempts that the scheduler of their worker still sees as executing:
\* from the start of the goroutine until its result is pushed (and handled:
\* between the two, a kill changes nothing any more and nothing is started).
Executing == {"sleep", "keepalive", "txn", "rollback", "locked", "shell", "push"}

TypeOK == /\ pc \in [Attempt -> PC]
          /\ isLocked \in [Attempt -> BOOLEAN]
          /\ renewing \in [Attempt -> BOOLEAN]
          /\ cancelled \in SUBSET Attempt
          /\ result \in [Attempt -> {"none", "ok", "failed", "error", "occupied"}]
          /\ shell \in SUBSET Attempt
          /\ lease \in [Attempt -> {"none", "live", "gone"}]
          /\ lockKey \in [Job -> Attempt \cup {NoLease}]
          /\ pendingTxn \in SUBSET Attempt

Init == /\ pc = [a \in Attempt |-> "idle"]
        /\ isLocked = [a \in Attempt |-> FALSE]
        /\ renewing = [a \in Attempt |-> FALSE]
        /\ cancelled = {}
        /\ result = [a \in Attempt |-> "none"]
        /\ shell = {}
        /\ lease = [a \in Attempt |-> "none"]
        /\ lockKey = [j \in Job |-> NoLease]
        /\ pendingTxn = {}

-----------------------------------------------------------------------------
(* etcd: leases and the claim of a lock key                                *)

\* A wrong Revoke: the keys of the lease outlive it.
RevokeKeepsKeys(a) == lease' = [lease EXCEPT ![a] = "gone"] /\ UNCHANGED lockKey

\* The end of a lease: etcd deletes the lease and every key attached to it in
\* one transaction. Revoking a lease that is gone already changes nothing.
Revoke(a) == /\ lease' = [lease EXCEPT ![a] = "gone"]
             /\ lockKey' = [j \in Job |-> IF lockKey[j] = a THEN NoLease ELSE lockKey[j]]

\* The client's Revoke call, whose error the code ignores.
TryRevoke(a) == \/ Revoke(a)
                \/ UNCHANGED <<lease, lockKey>>

\* A wrong claim: the put is not conditional on CreateRevision = 0.
ClaimableBlind(a) == lease[a] = "live"

\* A wrong claim: the put is accepted with a lease that has ended.
ClaimableDeadLease(a) == lockKey[a.job] = NoLease

\* The key can be put: it does not exist (CreateRevision = 0), and the put is
\* accepted: its lease exists.
Claimable(a) == lockKey[a.job] = NoLease /\ lease[a] = "live"

\* The lessor's expiry loop: a lease that is not renewed is revoked.
Expire(a) == /\ lease[a] = "live"
             /\ ~renewing[a] \/ a.worker \in Unstable
             /\ Revoke(a)
             /\ UNCHANGED <<workerVars, pendingTxn>>

\* A claim whose client has given up reaches the server after all, or is lost.
LateTxn(a) == /\ a \in pendingTxn
              /\ pendingTxn' = pendingTxn \ {a}
              /\ \/ Claimable(a) /\ lockKey' = [lockKey EXCEPT ![a.job] = a]
                 \/ UNCHANGED lockKey
              /\ UNCHANGED <<workerVars, lease>>

\* The client stops renewing: the server answered that the lease is gone, or
\* no answer came within the TTL. The response channel is closed; the code's
\* goroutine that reads it ends, and nobody else is told.
KeepAliveLost(a) == /\ renewing[a]
                    /\ lease[a] # "live" \/ a.worker \in Unstable
                    /\ renewing' = [renewing EXCEPT ![a] = FALSE]
                    /\ UNCHANGED <<pc, isLocked, cancelled, result, shell, etcdVars>>

-----------------------------------------------------------------------------
(* the executor's goroutine                                                *)

\* A wrong TryStartJob: jobExecutingTable is not consulted.
StartAlways(a) ==
    /\ pc[a] = "idle"
    /\ \A b \in Attempt \ {a} : b.worker = a.worker /\ b.job = a.job =>
          pc[b] = "idle" \/ b.plan < a.plan
    /\ pc' = [pc EXCEPT ![a] = "sleep"]
    /\ UNCHANGED <<isLocked, renewing, cancelled, result, shell, etcdVars>>

\* Scheduler.TryStartJob and the head of ExecuteJob: a due job is started
\* unless its previous execution is still in jobExecutingTable; the planned
\* times of a job increase.
Start(a) ==
    /\ pc[a] = "idle"
    /\ \A b \in Attempt \ {a} : b.worker = a.worker /\ b.job = a.job =>
          \/ pc[b] = "idle"
          \/ b.plan < a.plan /\ pc[b] \notin Executing
    /\ pc' = [pc EXCEPT ![a] = "sleep"]
    /\ UNCHANGED <<isLocked, renewing, cancelled, result, shell, etcdVars>>

\* After the random sleep, TryLock asks for a lease. When the call fails the
\* lease may exist all the same; TryLock returns without a rollback.
Grant(a) ==
    /\ pc[a] = "sleep"
    /\ \/ /\ lease' = [lease EXCEPT ![a] = "live"]
          /\ pc' = [pc EXCEPT ![a] = "keepalive"]
          /\ UNCHANGED result
       \/ /\ \E l \in {"none", "live"} : lease' = [lease EXCEPT ![a] = l]
          /\ pc' = [pc EXCEPT ![a] = "push"]
          /\ result' = [result EXCEPT ![a] = "error"]
    /\ UNCHANGED <<isLocked, renewing, cancelled, shell, lockKey, pendingTxn>>

\* A wrong KeepAlive: the lease is taken for its 5 seconds and never renewed.
KeepAliveOmitted(a) == /\ pc[a] = "keepalive"
                       /\ pc' = [pc EXCEPT ![a] = "txn"]
                       /\ UNCHANGED <<isLocked, renewing, cancelled, result, shell, etcdVars>>

\* Automatic renewal is switched on, or is refused: goto FAIL.
KeepAlive(a) ==
    /\ pc[a] = "keepalive"
    /\ \/ /\ renewing' = [renewing EXCEPT ![a] = TRUE]
          /\ pc' = [pc EXCEPT ![a] = "txn"]
          /\ UNCHANGED result
       \/ /\ pc' = [pc EXCEPT ![a] = "rollback"]
          /\ result' = [result EXCEPT ![a] = "error"]
          /\ UNCHANGED renewing
    /\ UNCHANGED <<isLocked, cancelled, shell, etcdVars>>

\* A wrong claim: the key names the worker and not the lease of the attempt.
CommitWorkerKey(a) ==
    /\ pc[a] = "txn"
    /\ Claimable(a)
    /\ lockKey' = [lockKey EXCEPT ![a.job] = a.worker]
    /\ isLocked' = [isLocked EXCEPT ![a] = TRUE]
    /\ pc' = [pc EXCEPT ![a] = "locked"]
    /\ UNCHANGED <<renewing, cancelled, result, shell, lease, pendingTxn>>

\* The claim of the key is answered: taken, occupied, or rejected because the
\* lease is gone.
Commit(a) ==
    /\ pc[a] = "txn"
    /\ \/ /\ Claimable(a)
          /\ lockKey' = [lockKey EXCEPT ![a.job] = a]
          /\ isLocked' = [isLocked EXCEPT ![a] = TRUE]
          /\ pc' = [pc EXCEPT ![a] = "locked"]
          /\ UNCHANGED result
       \/ /\ ~Claimable(a)
          /\ result' = [result EXCEPT ![a] =
                           IF lockKey[a.job] # NoLease THEN "occupied" ELSE "error"]
          /\ pc' = [pc EXCEPT ![a] = "rollback"]
          /\ UNCHANGED <<lockKey, isLocked>>
    /\ UNCHANGED <<renewing, cancelled, shell, lease, pendingTxn>>

\* A wrong reaction to a failed Commit: the claim is sent again.
CommitRetried(a) == /\ pc[a] = "txn"
                    /\ pendingTxn' = pendingTxn \cup {a}
                    /\ UNCHANGED <<workerVars, lease, lockKey>>

\* Commit returns an error: the claim was lost, was applied, or still will be.
CommitFails(a) == /\ pc[a] = "txn"
                  /\ pc' = [pc EXCEPT ![a] = "rollback"]
                  /\ result' = [result EXCEPT ![a] = "error"]
                  /\ pendingTxn' = pendingTxn \cup {a}
                  /\ UNCHANGED <<isLocked, renewing, cancelled, shell, lease, lockKey>>

\* A wrong FAIL: the lease goes on being renewed when its Revoke is lost.
RollbackKeepsRenewing(a) == /\ pc[a] = "rollback"
                            /\ TryRevoke(a)
                            /\ pc' = [pc EXCEPT ![a] = "push"]
                            /\ UNCHANGED <<isLocked, renewing, cancelled, result, shell, pendingTxn>>

\* A wrong FAIL: the lock key is deleted, whoever owns it.
RollbackDeletesKey(a) == /\ pc[a] = "rollback"
                         /\ renewing' = [renewing EXCEPT ![a] = FALSE]
                         /\ lockKey' = [lockKey EXCEPT ![a.job] = NoLease]
                         /\ pc' = [pc EXCEPT ![a] = "push"]
                         /\ UNCHANGED <<isLocked, cancelled, result, shell, lease, pendingTxn>>

\* FAIL: renewal is cancelled and the lease revoked.
Rollback(a) == /\ pc[a] = "rollback"
               /\ renewing' = [renewing EXCEPT ![a] = FALSE]
               /\ TryRevoke(a)
               /\ pc' = [pc EXCEPT ![a] = "push"]
               /\ UNCHANGED <<isLocked, cancelled, result, shell, pendingTxn>>

\* The lock is held: the shell is started, or its start fails (always so when
\* the context was cancelled before).
RunShell(a) ==
    /\ pc[a] = "locked"
    /\ \/ /\ a \notin cancelled
          /\ shell' = shell \cup {a}
          /\ pc' = [pc EXCEPT ![a] = "shell"]
          /\ UNCHANGED result
       \/ /\ result' = [result EXCEPT ![a] = "failed"]
          /\ pc' = [pc EXCEPT ![a] = "push"]
          /\ UNCHANGED shell
    /\ UNCHANGED <<isLocked, renewing, cancelled, etcdVars>>

\* CombinedOutput returns because the shell ended with status r.
EndShell(a, r) == /\ pc[a] = "shell"
                  /\ shell' = shell \ {a}
                  /\ result' = [result EXCEPT ![a] = r]
                  /\ pc' = [pc EXCEPT ![a] = "push"]
                  /\ UNCHANGED <<isLocked, renewing, cancelled, etcdVars>>

\* The command runs to its end.
ShellExits(a) == \E r \in {"ok", "failed"} : EndShell(a, r)

\* exec.CommandContext kills bash when the context is cancelled. Its children
\* are not killed, and CombinedOutput waits for all that may write to its pipe.
ShellKilled(a) == a \in cancelled /\ a.job \notin Forking /\ EndShell(a, "failed")

\* PushJobResult: the scheduler forgets the execution and may start the next
\* one, while the deferred UnLock of this one is still to come.
PushJobResult(a) == /\ pc[a] = "push"
                    /\ pc' = [pc EXCEPT ![a] = "unlock"]
                    /\ UNCHANGED <<isLocked, renewing, cancelled, result, shell, etcdVars>>

\* The deferred UnLock: only a lock that was taken is given back.
UnLock(a) ==
    /\ pc[a] = "unlock"
    /\ \/ /\ isLocked[a]
          /\ renewing' = [renewing EXCEPT ![a] = FALSE]
          /\ TryRevoke(a)
       \/ /\ ~isLocked[a]
          /\ UNCHANGED <<renewing, lease, lockKey>>
    /\ pc' = [pc EXCEPT ![a] = "done"]
    /\ UNCHANGED <<isLocked, cancelled, result, shell, pendingTxn>>

-----------------------------------------------------------------------------
(* kill and crash                                                          *)

\* handleJobEvent of JOB_EVENT_KILL: CancelFunc of a job in jobExecutingTable.
Cancel(a) == /\ pc[a] \in Executing
             /\ cancelled' = cancelled \cup {a}
             /\ UNCHANGED <<pc, isLocked, renewing, result, shell, etcdVars>>

\* The worker process dies with all its goroutines and renewals; a claim it
\* was sending may still arrive. Its shell processes run on. A restarted
\* worker is represented by the attempts of later planned times.
Crash(w) ==
    LET hit == {a \in Attempt : a.worker = w /\ pc[a] \notin {"idle", "done", "dead"}}
    IN  /\ hit # {}
        /\ pendingTxn' = pendingTxn \cup {a \in hit : pc[a] = "txn"}
        /\ pc' = [a \in Attempt |-> IF a \in hit THEN "dead" ELSE pc[a]]
        /\ renewing' = [a \in Attempt |-> renewing[a] /\ a \notin hit]
        /\ UNCHANGED <<isLocked, cancelled, result, shell, lease, lockKey>>

\* The shell process a crashed worker left behind ends.
OrphanExits(a) == /\ pc[a] = "dead" /\ a \in shell
                  /\ shell' = shell \ {a}
                  /\ UNCHANGED <<pc, isLocked, renewing, cancelled, result, etcdVars>>

-----------------------------------------------------------------------------
\* One step of the goroutine that does not depend on the command's duration.
Step(a) == \/ Grant(a) \/ KeepAlive(a) \/ Commit(a) \/ CommitFails(a) \/ Rollback(a)
           \/ RunShell(a) \/ ShellKilled(a) \/ PushJobResult(a) \/ UnLock(a)

Next == \/ \E a \in Attempt : \/ Start(a) \/ Step(a) \/ ShellExits(a) \/ Cancel(a)
                              \/ Expire(a) \/ LateTxn(a) \/ KeepAliveLost(a)
                              \/ OrphanExits(a)
        \/ \E w \in Crashable : Crash(w)

Spec == Init /\ [][Next]_vars

\* The Go scheduler runs every goroutine that can run, RPCs return, a killed
\* process dies, etcd's expiry loop visits every lease that nobody renews, and
\* a message is not in flight for ever. Nothing is assumed of how long a
\* command runs, of crashes, kills or of Unstable workers' connections.
Fairness == \A a \in Attempt : /\ WF_vars(Step(a))
                               /\ WF_vars(LateTxn(a))
                               /\ WF_vars(~renewing[a] /\ Expire(a))

FairSpec == Spec /\ Fairness

-----------------------------------------------------------------------------
(* properties                                                              *)

\* Why the lock works: the inductive invariant behind the theorems of
\* JobLockProofs. A lock key is always backed by a live lease; who believes to
\* have the lock and still has its lease owns the key; a claim is sent once,
\* before which the attempt can own nothing; a worker has one execution of a job
\* under way.
KeyBacked == \A j \in Job : lockKey[j] # NoLease =>
                lockKey[j].job = j /\ lease[lockKey[j]] = "live"
LockedOwnsKey == \A a \in Attempt : isLocked[a] =>
                /\ pc[a] \in {"locked", "shell", "push", "unlock", "done", "dead"}
                /\ lease[a] # "none"
                /\ lease[a] = "live" => lockKey[a.job] = a
ShellLocked == \A a \in Attempt :
                /\ pc[a] \in {"locked", "shell"} => isLocked[a]
                /\ a \in shell => isLocked[a] /\ pc[a] \in {"shell", "dead"}
                /\ pc[a] = "dead" => a.worker \in Crashable
\* The lease of a stable worker cannot lapse from the claim to the unlock.
Renewed == \A a \in Attempt : a.worker \notin Unstable =>
                /\ pc[a] = "txn" /\ lease[a] = "live" => renewing[a]
                /\ pc[a] \in {"locked", "shell"} => renewing[a] /\ lease[a] = "live"
ClaimedOnce == \A a \in Attempt : pc[a] \in {"idle", "sleep", "keepalive", "txn"} =>
                /\ a \notin pendingTxn
                /\ lockKey[a.job] # a
                /\ pc[a] \in {"idle", "sleep"} => lease[a] = "none"
\* jobExecutingTable: a worker executes a job for one planned time at a time.
OneAtATime == \A a, b \in Attempt :
                a.worker = b.worker /\ a.job = b.job
                /\ pc[a] \in Executing /\ pc[b] \in Executing => a = b

\* All of it together, as checked by TLC and proved in JobLockProofs.
LockInvariant == /\ KeyBacked /\ LockedOwnsKey /\ ShellLocked /\ Renewed /\ ClaimedOnce
                 /\ OneAtATime

\* "A job must not be executed concurrently" (JobLock.go:17), as far as the code
\* guarantees it: two shells of one job, anywhere in the cluster, overlap only
\* when one of them is running on after its lease, and so its lock, was lost.
OverlapOnlyAfterLapse ==
    \A a, b \in shell : a.job = b.job /\ a # b => lease[a] = "gone" \/ lease[b] = "gone"

\* Workers that neither crash nor lose etcd for a TTL never overlap, whatever
\* the others do and however many calls fail: the lock is held until the
\* shell has ended, and taken back by nobody else.
ReliableExclusion ==
    \A a, b \in shell :
       a.job = b.job /\ {a.worker, b.worker} \cap (Unstable \cup Crashable) = {} => a = b

\* A worker never stands in its own way while it executes a job: when TryLock
\* returns ERR_LOCK_ALREADY_REQUIRET, the key it met is not one that its own
\* claim left behind, nor one of another execution of this worker that is still
\* going on. It may be that of an earlier one that is over: PushJobResult comes
\* before the deferred UnLock (Executor.go:55, 82), whose Revoke may be lost.
NeverBlockedByOwnRun ==
    [][\A a \in Attempt : result[a] = "none" /\ result'[a] = "occupied" =>
          /\ lockKey[a.job] # a
          /\ lockKey[a.job].worker = a.worker => pc[lockKey[a.job]] \notin Executing]_vars

\* While a shell runs, its lock key is taken away only if the worker lost its
\* lease: in particular by no rollback or unlock of another attempt.
LockOutlivesShell ==
    [][\A a \in shell : lockKey[a.job] = a /\ lockKey'[a.job] # a =>
          a.worker \in Unstable \cup Crashable]_vars

\* "worker crashed: the lock expires and is released" (JobLock.go:14), and
\* "roll back, whether the write took effect or not" (JobLock.go:117): once an
\* attempt is over, crashed or killed, the lock key is free of it for good.
LockReleased ==
    \A a \in Attempt : (pc[a] \in {"done", "dead"} \/ (a \in cancelled /\ a.job \notin Forking))
                          ~> [](lockKey[a.job] # a)

\* "others have run it, so this worker need not" (JobMgr.go:139): one planned
\* time of a job is run to success by one worker only.
OncePerTick ==
    \A a, b \in Attempt : /\ a.job = b.job /\ a.plan = b.plan
                          /\ result[a] = "ok" /\ result[b] = "ok"
                          => a = b

\* The lock keys implement the abstract lock.
Lock == INSTANCE LeaseLock WITH holder <- lockKey,
                                spent <- {a \in Attempt : lease[a] = "gone"}
LockSpec == Lock!Spec
=============================================================================
