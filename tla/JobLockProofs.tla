--------------------------- MODULE JobLockProofs ---------------------------
(***************************************************************************)
(* Proofs about JobLock, for any workers, jobs, planned times and failures. *)
(***************************************************************************)
EXTENDS JobLock, TLAPS

\* The fields of an attempt have their types (JobExecuteInfo).
LEMMA AttemptFields ==
    ASSUME NEW a \in Attempt
    PROVE  a.worker \in Worker /\ a.job \in Job /\ a.plan \in Tick
  BY DEF Attempt

\* A lock key that does not exist names no lease.
LEMMA NoLeaseIsNoAttempt == NoLease \notin Attempt
  BY ConstantsAssumption

-----------------------------------------------------------------------------
\* Every variable keeps its type through every step of TryLock, UnLock,
\* ExecuteJob and etcd.
THEOREM TypeCorrect == Spec => []TypeOK
<1>1. Init => TypeOK
  BY DEF Init, TypeOK, PC
<1>2. TypeOK /\ [Next]_vars => TypeOK'
  <2> SUFFICES ASSUME TypeOK, [Next]_vars PROVE TypeOK'
    OBVIOUS
  <2> USE AttemptFields
  <2>1. ASSUME NEW a \in Attempt, Start(a) PROVE TypeOK'
    BY <2>1 DEF TypeOK, Start, PC, etcdVars
  <2>2. ASSUME NEW a \in Attempt, Grant(a) PROVE TypeOK'
    BY <2>2 DEF TypeOK, Grant, PC
  <2>3. ASSUME NEW a \in Attempt, KeepAlive(a) PROVE TypeOK'
    BY <2>3 DEF TypeOK, KeepAlive, PC, etcdVars
  <2>4. ASSUME NEW a \in Attempt, Commit(a) PROVE TypeOK'
    <3>1. pc' \in [Attempt -> PC] /\ isLocked' \in [Attempt -> BOOLEAN]
      BY <2>4 DEF TypeOK, Commit, PC
    <3>2. result' \in [Attempt -> {"none", "ok", "failed", "error", "occupied"}]
      <4> DEFINE r == IF lockKey[a.job] # NoLease THEN "occupied" ELSE "error"
      <4>1. r \in {"occupied", "error"}
        OBVIOUS
      <4>2. result' = result \/ result' = [result EXCEPT ![a] = r]
        BY <2>4 DEF Commit
      <4> HIDE DEF r
      <4> QED
        BY <4>1, <4>2 DEF TypeOK
    <3>3. lockKey' \in [Job -> Attempt \cup {NoLease}]
      BY <2>4 DEF TypeOK, Commit
    <3> QED
      BY <2>4, <3>1, <3>2, <3>3 DEF TypeOK, Commit
  <2>5. ASSUME NEW a \in Attempt, CommitFails(a) PROVE TypeOK'
    BY <2>5 DEF TypeOK, CommitFails, PC
  <2>6. ASSUME NEW a \in Attempt, Rollback(a) PROVE TypeOK'
    BY <2>6 DEF TypeOK, Rollback, TryRevoke, Revoke, PC
  <2>7. ASSUME NEW a \in Attempt, RunShell(a) PROVE TypeOK'
    BY <2>7 DEF TypeOK, RunShell, PC, etcdVars
  <2>8. ASSUME NEW a \in Attempt, NEW r \in {"ok", "failed"}, EndShell(a, r) PROVE TypeOK'
    BY <2>8 DEF TypeOK, EndShell, PC, etcdVars
  <2>9. ASSUME NEW a \in Attempt, PushJobResult(a) PROVE TypeOK'
    BY <2>9 DEF TypeOK, PushJobResult, PC, etcdVars
  <2>10. ASSUME NEW a \in Attempt, UnLock(a) PROVE TypeOK'
    BY <2>10 DEF TypeOK, UnLock, TryRevoke, Revoke, PC
  <2>11. ASSUME NEW a \in Attempt, Cancel(a) PROVE TypeOK'
    BY <2>11 DEF TypeOK, Cancel, etcdVars
  <2>12. ASSUME NEW a \in Attempt, Expire(a) PROVE TypeOK'
    BY <2>12 DEF TypeOK, Expire, Revoke, workerVars
  <2>13. ASSUME NEW a \in Attempt, LateTxn(a) PROVE TypeOK'
    BY <2>13 DEF TypeOK, LateTxn, workerVars
  <2>14. ASSUME NEW a \in Attempt, KeepAliveLost(a) PROVE TypeOK'
    BY <2>14 DEF TypeOK, KeepAliveLost, etcdVars
  <2>15. ASSUME NEW a \in Attempt, OrphanExits(a) PROVE TypeOK'
    BY <2>15 DEF TypeOK, OrphanExits, etcdVars
  <2>16. ASSUME NEW w \in Crashable, Crash(w) PROVE TypeOK'
    BY <2>16 DEF TypeOK, Crash, PC
  <2>17. CASE UNCHANGED vars
    BY <2>17 DEF TypeOK, vars, workerVars, etcdVars
  <2> QED
    BY <2>1, <2>2, <2>3, <2>4, <2>5, <2>6, <2>7, <2>8, <2>9, <2>10, <2>11, <2>12,
       <2>13, <2>14, <2>15, <2>16, <2>17 DEF Next, Step, ShellExits, ShellKilled
<1> QED
  BY <1>1, <1>2, PTL DEF Spec

-----------------------------------------------------------------------------
\* The inductive step of the invariant behind the lock, one step per action.
LEMMA LockInvariantStep ==
    ASSUME TypeOK, LockInvariant, [Next]_vars
    PROVE  LockInvariant'
<1> USE AttemptFields, NoLeaseIsNoAttempt
<1> USE DEF TypeOK, LockInvariant, KeyBacked, LockedOwnsKey, ShellLocked, Renewed, ClaimedOnce,
            OneAtATime, Executing
<1>1. ASSUME NEW a \in Attempt, Start(a) PROVE LockInvariant'
  BY <1>1 DEF Start, etcdVars
<1>2. ASSUME NEW a \in Attempt, Grant(a) PROVE LockInvariant'
  BY <1>2 DEF Grant
<1>3. ASSUME NEW a \in Attempt, KeepAlive(a) PROVE LockInvariant'
  BY <1>3 DEF KeepAlive, etcdVars
<1>4. ASSUME NEW a \in Attempt, Commit(a) PROVE LockInvariant'
  BY <1>4 DEF Commit, Claimable
<1>5. ASSUME NEW a \in Attempt, CommitFails(a) PROVE LockInvariant'
  BY <1>5 DEF CommitFails
<1>6. ASSUME NEW a \in Attempt, Rollback(a) PROVE LockInvariant'
  BY <1>6 DEF Rollback, TryRevoke, Revoke
<1>7. ASSUME NEW a \in Attempt, RunShell(a) PROVE LockInvariant'
  BY <1>7 DEF RunShell, etcdVars
<1>8. ASSUME NEW a \in Attempt, NEW r \in {"ok", "failed"}, EndShell(a, r) PROVE LockInvariant'
  BY <1>8 DEF EndShell, etcdVars
<1>9. ASSUME NEW a \in Attempt, PushJobResult(a) PROVE LockInvariant'
  BY <1>9 DEF PushJobResult, etcdVars
<1>10. ASSUME NEW a \in Attempt, UnLock(a) PROVE LockInvariant'
  BY <1>10 DEF UnLock, TryRevoke, Revoke
<1>11. ASSUME NEW a \in Attempt, Cancel(a) PROVE LockInvariant'
  BY <1>11 DEF Cancel, etcdVars
<1>12. ASSUME NEW a \in Attempt, Expire(a) PROVE LockInvariant'
  BY <1>12 DEF Expire, Revoke, workerVars
<1>13. ASSUME NEW a \in Attempt, LateTxn(a) PROVE LockInvariant'
  BY <1>13 DEF LateTxn, Claimable, workerVars
<1>14. ASSUME NEW a \in Attempt, KeepAliveLost(a) PROVE LockInvariant'
  BY <1>14 DEF KeepAliveLost, etcdVars
<1>15. ASSUME NEW a \in Attempt, OrphanExits(a) PROVE LockInvariant'
  BY <1>15 DEF OrphanExits, etcdVars
<1>16. ASSUME NEW w \in Crashable, Crash(w) PROVE LockInvariant'
  BY <1>16 DEF Crash
<1>17. CASE UNCHANGED vars
  BY <1>17 DEF vars, workerVars, etcdVars
<1> QED
  BY <1>1, <1>2, <1>3, <1>4, <1>5, <1>6, <1>7, <1>8, <1>9, <1>10, <1>11, <1>12, <1>13, <1>14, <1>15, <1>16, <1>17
     DEF Next, Step, ShellExits, ShellKilled

\* The lock invariant holds in every reachable state: keys are backed by live
\* leases, and who holds a live lease after a successful TryLock owns the key.
THEOREM LockInvariantHolds == Spec => []LockInvariant
<1>1. Init => LockInvariant
  BY NoLeaseIsNoAttempt, AttemptFields
  DEF Init, LockInvariant, KeyBacked, LockedOwnsKey, ShellLocked, Renewed, ClaimedOnce,
      OneAtATime, Executing
<1> QED
  BY <1>1, TypeCorrect, LockInvariantStep, PTL DEF Spec

\* Two shells of one job overlap only after one of them lost its lease: both
\* ran under isLocked, and two live leases cannot own the same key.
THEOREM OverlapTheorem == Spec => []OverlapOnlyAfterLapse
<1>1. TypeOK /\ LockInvariant => OverlapOnlyAfterLapse
  BY DEF TypeOK, LockInvariant, LockedOwnsKey, ShellLocked, OverlapOnlyAfterLapse
<1> QED
  BY <1>1, TypeCorrect, LockInvariantHolds, PTL

\* Workers that neither crash nor lose etcd for a whole TTL exclude each other:
\* their leases are live for as long as their shells run.
THEOREM ReliableExclusionTheorem == Spec => []ReliableExclusion
<1>1. TypeOK /\ LockInvariant => ReliableExclusion
  <2> SUFFICES ASSUME TypeOK, LockInvariant,
                      NEW a \in shell, NEW b \in shell, a.job = b.job,
                      {a.worker, b.worker} \cap (Unstable \cup Crashable) = {}
               PROVE  a = b
    BY DEF ReliableExclusion
  <2>1. a \in Attempt /\ b \in Attempt
    BY DEF TypeOK
  <2>2. pc[a] = "shell" /\ pc[b] = "shell"
    BY <2>1 DEF LockInvariant, ShellLocked
  <2>3. lease[a] = "live" /\ lease[b] = "live"
    BY <2>1, <2>2 DEF LockInvariant, Renewed
  <2> QED
    BY <2>1, <2>2, <2>3 DEF LockInvariant, LockedOwnsKey, ShellLocked
<1> QED
  BY <1>1, TypeCorrect, LockInvariantHolds, PTL

-----------------------------------------------------------------------------
\* What a step does to a lock key: it is claimed when free, or freed together
\* with the lease it is attached to.
LEMMA LockKeySteps ==
    ASSUME TypeOK, LockInvariant, [Next]_vars
    PROVE  \/ UNCHANGED lockKey /\ \A a \in Attempt : lease[a] = "gone" <=> lease'[a] = "gone"
           \/ \E a \in Attempt : Claimable(a) /\ lockKey' = [lockKey EXCEPT ![a.job] = a]
                                 /\ UNCHANGED lease
           \/ \E a \in Attempt : Revoke(a)
<1> USE DEF TypeOK
<1>1. ASSUME NEW a \in Attempt, Grant(a)
      PROVE  UNCHANGED lockKey /\ \A b \in Attempt : lease[b] = "gone" <=> lease'[b] = "gone"
  BY <1>1 DEF Grant, LockInvariant, ClaimedOnce
<1>2. ASSUME NEW a \in Attempt, Commit(a) \/ LateTxn(a)
      PROVE  \/ UNCHANGED <<lockKey, lease>>
             \/ Claimable(a) /\ lockKey' = [lockKey EXCEPT ![a.job] = a] /\ UNCHANGED lease
  BY <1>2 DEF Commit, LateTxn
<1>3. ASSUME NEW a \in Attempt, Rollback(a) \/ UnLock(a) \/ Expire(a)
      PROVE  Revoke(a) \/ UNCHANGED <<lockKey, lease>>
  BY <1>3 DEF Rollback, UnLock, Expire, TryRevoke
<1>4. ASSUME NEW a \in Attempt,
             \/ Start(a) \/ KeepAlive(a) \/ CommitFails(a) \/ RunShell(a) \/ ShellKilled(a)
             \/ ShellExits(a) \/ PushJobResult(a) \/ Cancel(a) \/ KeepAliveLost(a) \/ OrphanExits(a)
      PROVE  UNCHANGED <<lockKey, lease>>
  BY <1>4 DEF Start, KeepAlive, CommitFails, RunShell, ShellKilled, ShellExits, EndShell,
              PushJobResult, Cancel, KeepAliveLost, OrphanExits, etcdVars
<1>5. ASSUME NEW w \in Crashable, Crash(w) PROVE UNCHANGED <<lockKey, lease>>
  BY <1>5 DEF Crash
<1>6. CASE UNCHANGED vars
  BY <1>6 DEF vars, etcdVars
<1> QED
  BY <1>1, <1>2, <1>3, <1>4, <1>5, <1>6 DEF Next, Step

\* The lock keys of etcd, as TryLock and UnLock use them, implement the
\* abstract lock: a claim is an Acquire, the end of a lease a Release.
THEOREM ImplementsLock == Spec => LockSpec
<1> USE DEF TypeOK
<1>1. Init => Lock!Init
  BY DEF Init, Lock!Init
<1>2. TypeOK /\ LockInvariant /\ [Next]_vars => [Lock!Next]_(Lock!vars)
  <2> SUFFICES ASSUME TypeOK, LockInvariant, [Next]_vars PROVE [Lock!Next]_(Lock!vars)
    OBVIOUS
  <2>1. CASE UNCHANGED lockKey /\ \A a \in Attempt : lease[a] = "gone" <=> lease'[a] = "gone"
    BY <2>1 DEF Lock!vars
  <2>2. ASSUME NEW a \in Attempt, Claimable(a), lockKey' = [lockKey EXCEPT ![a.job] = a],
               UNCHANGED lease
        PROVE  Lock!Acquire(a.job, a)
    <3>1. \A k \in Job : lockKey[k] # a
      BY <2>2, NoLeaseIsNoAttempt DEF Claimable, LockInvariant, KeyBacked
    <3> QED
      BY <2>2, <3>1, AttemptFields DEF Lock!Acquire, Claimable
  <2>3. ASSUME NEW a \in Attempt, Revoke(a) PROVE Lock!Release(a)
    BY <2>3 DEF Revoke, Lock!Release
  <2> QED
    BY <2>1, <2>2, <2>3, LockKeySteps, AttemptFields DEF Lock!Next
<1> QED
  BY <1>1, <1>2, TypeCorrect, LockInvariantHolds, PTL DEF Spec, LockSpec, Lock!Spec

\* While a shell runs, no rollback, unlock or claim of another attempt takes
\* its lock key away; only a lapse of its worker's lease does.
THEOREM LockOutlivesShellTheorem == Spec => LockOutlivesShell
<1>1. TypeOK /\ LockInvariant /\ LockInvariant' /\ TypeOK' /\ [Next]_vars =>
        [\A a \in shell : lockKey[a.job] = a /\ lockKey'[a.job] # a =>
            a.worker \in Unstable \cup Crashable]_vars
  <2> SUFFICES ASSUME TypeOK, LockInvariant, [Next]_vars,
                      NEW a \in shell, lockKey[a.job] = a, lockKey'[a.job] # a,
                      a.worker \notin Unstable \cup Crashable
               PROVE  FALSE
    OBVIOUS
  <2>1. a \in Attempt /\ a.job \in Job
    BY AttemptFields DEF TypeOK
  <2>2. pc[a] = "shell" /\ renewing[a] /\ lease[a] = "live"
    BY <2>1 DEF LockInvariant, ShellLocked, Renewed
  <2>3. ASSUME NEW b \in Attempt, Claimable(b), lockKey' = [lockKey EXCEPT ![b.job] = b] PROVE FALSE
    BY <2>1, <2>3, NoLeaseIsNoAttempt DEF Claimable, TypeOK
  <2>4. lease'[a] = "gone"
    BY <2>1, <2>3, LockKeySteps DEF Revoke, TypeOK
  <2>5. PICK b \in Attempt : \/ Rollback(b) \/ UnLock(b) \/ Expire(b)
    BY <2>1, <2>2, <2>4 DEF TypeOK, Next, Step, vars, etcdVars, Start, Grant, KeepAlive, Commit,
       CommitFails, RunShell, ShellKilled, ShellExits, EndShell, PushJobResult, Cancel, LateTxn,
       KeepAliveLost, OrphanExits, Crash
  <2> QED
    BY <2>1, <2>2, <2>4, <2>5 DEF Rollback, UnLock, Expire, TryRevoke, Revoke, TypeOK
<1> QED
  BY <1>1, TypeCorrect, LockInvariantHolds, PTL DEF Spec, LockOutlivesShell

\* TryLock never reports as occupied a key of an execution that its worker has
\* under way: before its only claim is answered an attempt owns no key, and
\* jobExecutingTable admits no second execution beside it.
THEOREM NeverBlockedByOwnRunTheorem == Spec => NeverBlockedByOwnRun
<1>1. TypeOK /\ LockInvariant /\ [Next]_vars =>
        [\A a \in Attempt : result[a] = "none" /\ result'[a] = "occupied" =>
            /\ lockKey[a.job] # a
            /\ lockKey[a.job].worker = a.worker => pc[lockKey[a.job]] \notin Executing]_vars
  <2> SUFFICES ASSUME TypeOK, LockInvariant, [Next]_vars, NEW a \in Attempt,
                      result[a] = "none", result'[a] = "occupied"
               PROVE  /\ lockKey[a.job] # a
                      /\ lockKey[a.job].worker = a.worker => pc[lockKey[a.job]] \notin Executing
    OBVIOUS
  <2>1. Commit(a)
    <3>1. ASSUME NEW b \in Attempt, Grant(b) \/ KeepAlive(b) \/ CommitFails(b) \/ RunShell(b) PROVE FALSE
      BY <3>1 DEF TypeOK, Grant, KeepAlive, CommitFails, RunShell
    <3>2. ASSUME NEW b \in Attempt, NEW r \in {"ok", "failed"}, EndShell(b, r) PROVE FALSE
      BY <3>2 DEF TypeOK, EndShell
    <3>3. ASSUME NEW b \in Attempt,
                 \/ Start(b) \/ Rollback(b) \/ PushJobResult(b) \/ UnLock(b) \/ Cancel(b)
                 \/ Expire(b) \/ LateTxn(b) \/ KeepAliveLost(b) \/ OrphanExits(b)
          PROVE  FALSE
      BY <3>3 DEF Start, Rollback, PushJobResult, UnLock, Cancel, Expire, LateTxn, KeepAliveLost,
                  OrphanExits, workerVars
    <3>4. ASSUME NEW w \in Crashable, Crash(w) PROVE FALSE
      BY <3>4 DEF Crash
    <3>5. ASSUME NEW b \in Attempt, b # a, Commit(b) PROVE FALSE
      BY <3>5 DEF TypeOK, Commit
    <3>6. ~UNCHANGED vars
      BY DEF vars, workerVars
    <3> QED
      BY <3>1, <3>2, <3>3, <3>4, <3>5, <3>6 DEF Next, Step, ShellExits, ShellKilled
  <2>2. pc[a] = "txn" /\ lockKey[a.job] # NoLease
    BY <2>1 DEF Commit, TypeOK
  <2>3. lockKey[a.job] \in Attempt /\ lockKey[a.job].job = a.job /\ lockKey[a.job] # a
    BY <2>2, AttemptFields DEF TypeOK, LockInvariant, KeyBacked, ClaimedOnce
  <2> QED
    BY <2>2, <2>3 DEF LockInvariant, OneAtATime, Executing
<1> QED
  BY <1>1, TypeCorrect, LockInvariantHolds, PTL DEF Spec, NeverBlockedByOwnRun
=============================================================================
