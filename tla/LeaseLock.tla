----------------------------- MODULE LeaseLock -----------------------------
(***************************************************************************)
(* What the etcd lock of one job promises, whatever happens to its users: *)
(* a lock has one holder at a time, it changes hands only through "free", *)
(* and an attempt that has lost or given up its lease is spent: it never  *)
(* holds a lock again.                                                     *)
(***************************************************************************)
CONSTANTS Job, Attempt, NoLease

VARIABLES holder, \* [Job -> Attempt \cup {NoLease}], who owns /cron/lock/job
          spent   \* the attempts whose lease is over

vars == <<holder, spent>>

Init == /\ holder = [j \in Job |-> NoLease]
        /\ spent = {}

\* A free lock is taken by an attempt that is not spent and holds no lock.
Acquire(j, a) == /\ holder[j] = NoLease
                 /\ a \notin spent
                 /\ \A k \in Job : holder[k] # a
                 /\ holder' = [holder EXCEPT ![j] = a]
                 /\ UNCHANGED spent

\* The lease of an attempt ends, and with it the ownership it backed.
Release(a) == /\ spent' = spent \cup {a}
              /\ holder' = [j \in Job |-> IF holder[j] = a THEN NoLease ELSE holder[j]]

Next == \E a \in Attempt : Release(a) \/ \E j \in Job : Acquire(j, a)

Spec == Init /\ [][Next]_vars
=============================================================================
