-------------------------- MODULE WorkerNodeProofs --------------------------
(***************************************************************************)
(* Proofs about WorkerNode, for any jobs, cron expressions, bounds and     *)
(* capacities. What is proved of the job manager in JobSyncProofs holds of *)
(* it as a part of a worker too.                                           *)
(***************************************************************************)
EXTENDS WorkerNode, JobSyncProofs

\* A step of the worker is one of its job manager, or does not touch it.
LEMMA NodeIsSync == [NodeNext]_allVars => [Next]_vars
<1> SUFFICES ASSUME [NodeNext]_allVars PROVE [Next]_vars
  OBVIOUS
<1>1. CASE NodeMasters \/ NodeStart \/ NodeCrash
  BY <1>1 DEF NodeMasters, NodeStart, NodeCrash, Next
<1>2. CASE NodeInitJobMgr \/ NodeWatchJobs \/ NodeHandleEvent
  BY <1>2 DEF NodeInitJobMgr, NodeWatchJobs, NodeHandleEvent, Next
<1>3. CASE NodeWatchKillerStart \/ NodeWatchKiller \/ NodeWatchEnds
  BY <1>3 DEF NodeWatchKillerStart, NodeWatchKiller, NodeWatchEnds, Next
<1>4. CASE \/ Own(Sched!HandleTimer) \/ Own(Sched!HandleResult) \/ Own(Sched!TimerExpires)
           \/ \E x \in running : Own(Sched!PushJobResult(x))
           \/ Tick
  BY <1>4 DEF Own, Tick
<1>5. CASE UNCHANGED allVars
  BY <1>5 DEF allVars
<1> QED
  BY <1>1, <1>2, <1>3, <1>4, <1>5 DEF NodeNext

\* The worker implements JobSync: every behaviour of it is one of masters, etcd
\* and a job manager whose events a scheduler consumes, so that what is proved
\* there of the job manager (worker/JobMgr.go) holds here.
THEOREM ImplementsSync == NodeSpec => Spec
<1>1. NodeInit => Init
  BY DEF NodeInit
<1> QED
  BY <1>1, NodeIsSync, PTL DEF NodeSpec, Spec

LEMMA NodeSync == NodeSpec => []SyncInv
  BY ImplementsSync, SyncInvHolds, PTL

-----------------------------------------------------------------------------
(* kills                                                                   *)

\* The kills of queue q lie after last and before next, in order.
Kills(q, last, next) ==
    \A i \in 1..Len(q) : q[i].type = "kill" =>
       /\ last < q[i].rev /\ q[i].rev < next
       /\ \A k \in (i + 1)..Len(q) : q[k].type = "kill" => q[i].rev < q[k].rev

\* The inductive invariant behind KillActsOnce: all kills that were handled or
\* are queued lie before the position of the watch, which starts after the start
\* of the process.
KillInv ==
    /\ state \in {"down", "init", "load"} => killRev = 0
    /\ lastKill \in Nat /\ lastKill <= Len(hist)
    /\ killRev # 0 => lastKill < killRev
    /\ Kills(jobEventChan, lastKill, killRev)
    /\ \A i \in 1..Len(jobEventChan) : jobEventChan[i].type = "kill" => jobEventChan[i].rev <= Len(hist)

\* What is pushed is an event, as the queue has only events after it.
LEMMA PushedIsEvent ==
    ASSUME NEW q \in Seq(Event), NEW e, Append(q, e) \in Seq(Event)
    PROVE  e \in Event
<1>1. q \in Seq(Event \cup {e})
  OBVIOUS
<1>2. /\ Len(Append(q, e)) = Len(q) + 1 /\ Len(q) \in Nat
      /\ Append(q, e)[Len(q) + 1] = e
  BY <1>1
<1>3. Len(q) + 1 \in 1..Len(Append(q, e))
  BY <1>2
<1> QED
  BY <1>2, <1>3

LEMMA KillsAppend ==
    ASSUME NEW q \in Seq(Event), NEW e \in Event, NEW last \in Nat, NEW next \in Nat, NEW more \in Nat,
           next <= more, Kills(q, last, next),
           e.type = "kill" => last < e.rev /\ next <= e.rev /\ e.rev < more
    PROVE  Kills(Append(q, e), last, more)
<1> DEFINE p == Append(q, e)
<1>1. /\ Len(p) = Len(q) + 1 /\ Len(q) \in Nat /\ p[Len(q) + 1] = e
      /\ \A i \in 1..Len(q) : p[i] = q[i]
  BY AppendFacts
<1> HIDE DEF p
<1>2. \A i \in 1..Len(p) : i \in 1..Len(q) \/ i = Len(q) + 1
  BY <1>1
<1>3. \A i \in 1..Len(q) : q[i] \in Event /\ q[i].rev \in Nat
  <2>1. \A x \in Event : x.rev \in Nat
    BY EventFields, SyncAssumption DEF Rev
  <2> QED
    BY <2>1
<1>4. e.rev \in Nat
  BY EventFields, SyncAssumption DEF Rev
<1>5. ASSUME NEW i \in 1..Len(p), p[i].type = "kill"
      PROVE  /\ last < p[i].rev /\ p[i].rev < more
             /\ \A k \in (i + 1)..Len(p) : p[k].type = "kill" => p[i].rev < p[k].rev
  <2>1. CASE i = Len(q) + 1
    <3>1. \A k \in (i + 1)..Len(p) : FALSE
      BY <1>1, <2>1
    <3> QED
      BY <1>1, <1>5, <2>1, <3>1
  <2>2. CASE i \in 1..Len(q)
    <3>1. p[i] = q[i] /\ last < q[i].rev /\ q[i].rev < next /\ q[i].rev \in Nat
      BY <1>1, <1>3, <1>5, <2>2 DEF Kills
    <3>2. ASSUME NEW k \in (i + 1)..Len(p), p[k].type = "kill" PROVE q[i].rev < p[k].rev
      <4>1. CASE k = Len(q) + 1
        BY <1>1, <1>4, <3>1, <3>2, <4>1
      <4>2. CASE k # Len(q) + 1
        <5>1. k \in (i + 1)..Len(q) /\ k \in 1..Len(q)
          BY <1>1, <2>2, <4>2
        <5> QED
          BY <1>1, <1>5, <2>2, <3>1, <3>2, <5>1 DEF Kills
      <4> QED
        BY <4>1, <4>2
    <3> QED
      BY <3>1, <3>2
  <2> QED
    BY <1>2, <2>1, <2>2
<1> QED
  BY <1>5 DEF Kills, p

LEMMA KillsTail ==
    ASSUME NEW q \in Seq(Event), q # <<>>, NEW last \in Nat, NEW next, Kills(q, last, next)
    PROVE  /\ Kills(Tail(q), IF Head(q).type = "kill" THEN Head(q).rev ELSE last, next)
           /\ Head(q).type = "kill" => Head(q).rev < next
<1> DEFINE p == Tail(q)
<1>1. /\ Head(q) = q[1] /\ Len(q) \in Nat \ {0} /\ Len(p) = Len(q) - 1
      /\ \A i \in 1..Len(p) : i + 1 \in 1..Len(q) /\ p[i] = q[i + 1]
  BY HeadTail
<1> HIDE DEF p
<1>2. 1 \in 1..Len(q) /\ \A i \in 1..Len(p) : i + 1 \in (1 + 1)..Len(q)
  BY <1>1
<1>3. ASSUME NEW i \in 1..Len(p), p[i].type = "kill"
      PROVE  /\ last < p[i].rev /\ p[i].rev < next
             /\ Head(q).type = "kill" => Head(q).rev < p[i].rev
             /\ \A k \in (i + 1)..Len(p) : p[k].type = "kill" => p[i].rev < p[k].rev
  <2>1. /\ i + 1 \in 1..Len(q) /\ p[i] = q[i + 1] /\ q[i + 1].type = "kill"
        /\ i + 1 \in (1 + 1)..Len(q)
    BY <1>1, <1>2, <1>3
  <2>2. \A k \in (i + 1)..Len(p) : k \in 1..Len(p) /\ k + 1 \in ((i + 1) + 1)..Len(q)
    BY <1>1
  <2> QED
    BY <1>1, <1>2, <2>1, <2>2 DEF Kills
<1> QED
  BY <1>1, <1>2, <1>3 DEF Kills, p

\* What a step of the job manager does to the queue.
Grows(kinds) == \/ UNCHANGED jobEventChan
                \/ \E e : jobEventChan' = Append(jobEventChan, e) /\ e.type \in kinds

LEMMA QueueSteps ==
    /\ InitJobMgr \/ WatchJobs => Grows({"save", "delete"}) /\ UNCHANGED <<hist, killRev>>
    /\ WatchKillerStart \/ JobsWatchEnds \/ KillerWatchEnds =>
          UNCHANGED <<jobEventChan, hist>>
<1>1. \A r : JobEventOf(r).type \in {"save", "delete"}
  BY DEF JobEventOf
<1>2. InitJobMgr => Grows({"save", "delete"}) /\ UNCHANGED <<hist, killRev>>
  BY <1>1 DEF InitJobMgr, GetJobs, GetJobsFails, PushSnapshot, SnapshotDone, PushJobEvent, Grows, etcd
<1>3. WatchJobs => Grows({"save", "delete"}) /\ UNCHANGED <<hist, killRev>>
  BY <1>1 DEF WatchJobs, PushChange, PushJobEvent, Grows, etcd
<1>4. WatchKillerStart \/ JobsWatchEnds \/ KillerWatchEnds => UNCHANGED <<jobEventChan, hist>>
  BY DEF WatchKillerStart, JobsWatchEnds, KillerWatchEnds, etcd
<1> QED
  BY <1>2, <1>3, <1>4

\* The types that the steps below need.
LEMMA SyncTypes ==
    ASSUME SyncInv
    PROVE  /\ jobEventChan \in Seq(Event) /\ Len(hist) \in Nat /\ Len(hist) <= MaxRev
           /\ killRev \in Nat /\ MaxRev \in Nat
           /\ \A i \in 1..Len(jobEventChan) : /\ jobEventChan[i] \in Event
                                              /\ jobEventChan[i].rev \in Nat \ {0}
<1>1. jobEventChan \in Seq(Event) /\ Len(hist) \in Nat /\ Len(hist) <= MaxRev /\ MaxRev \in Nat
  BY BroughtFacts DEF SyncInv, TypeOK
<1>2. killRev \in Nat
  BY <1>1 DEF SyncInv, TypeOK, Ended
<1>3. \A x \in Event : x.rev \in Nat \ {0}
  BY <1>1, EventFields DEF Rev
<1> QED
  BY <1>1, <1>2, <1>3

\* Events of jobs pass the kills by.
LEMMA KillOther ==
    ASSUME SyncInv, SyncInv', KillInv, Grows({"save", "delete"}), UNCHANGED <<hist, killRev, lastKill>>,
           state' \in {"down", "init", "load"} => killRev = 0
    PROVE  KillInv'
<1>1. CASE UNCHANGED jobEventChan
  BY <1>1 DEF KillInv
<1>2. CASE ~UNCHANGED jobEventChan
  <2>1. PICK e : jobEventChan' = Append(jobEventChan, e) /\ e.type \in {"save", "delete"}
    BY <1>2 DEF Grows
  <2>2. jobEventChan \in Seq(Event) /\ jobEventChan' \in Seq(Event) /\ killRev \in Nat /\ lastKill \in Nat
    BY SyncTypes DEF KillInv, SyncInv, TypeOK
  <2>3. e \in Event
    BY <2>1, <2>2, PushedIsEvent
  <2>4. Kills(jobEventChan', lastKill, killRev)
    BY <2>1, <2>2, <2>3, KillsAppend DEF KillInv
  <2>5. /\ Len(jobEventChan') = Len(jobEventChan) + 1 /\ Len(jobEventChan) \in Nat
        /\ \A i \in 1..Len(jobEventChan) : jobEventChan'[i] = jobEventChan[i]
        /\ jobEventChan'[Len(jobEventChan) + 1] = e
    BY <2>1, <2>2, <2>3, AppendFacts
  <2>6. \A i \in 1..Len(jobEventChan') : i \in 1..Len(jobEventChan) \/ i = Len(jobEventChan) + 1
    BY <2>5
  <2> QED
    BY <2>1, <2>4, <2>5, <2>6 DEF KillInv
<1> QED
  BY <1>1, <1>2

LEMMA KillWatch ==
    ASSUME SyncInv, SyncInv', KillInv, WatchKiller, UNCHANGED lastKill
    PROVE  KillInv'
<1> DEFINE rev == Min(Ahead(killRev, KillChange))
           e == KillEventOf(rev)
           q == jobEventChan
<1>1. /\ killRev # 0 /\ Ahead(killRev, KillChange) # {} /\ PushKill(rev) /\ killRev' = rev + 1
      /\ UNCHANGED <<hist, state>>
  BY DEF WatchKiller, etcd
<1>2. /\ q \in Seq(Event) /\ Len(hist) \in Nat /\ killRev \in Nat \ {0}
      /\ \A i \in 1..Len(q) : q[i] \in Event /\ q[i].rev \in Nat \ {0}
      /\ lastKill \in Nat /\ lastKill < killRev
  BY <1>1, SyncTypes DEF KillInv
<1>3. rev \in Nat \ {0} /\ rev >= killRev /\ rev <= Len(hist)
  <2>1. rev \in Rev /\ rev >= killRev /\ rev <= Len(hist)
    BY <1>1, <1>2, FirstAhead
  <2> QED
    BY <2>1, SyncAssumption DEF Rev
<1>4. e.type = "kill" /\ e.rev = rev
  BY DEF KillEventOf
<1>5. state \notin {"down", "init", "load"}
  BY <1>1 DEF KillInv
<1> HIDE DEF rev, e
<1>6. CASE UNCHANGED q
  <2>1. Kills(q, lastKill, rev + 1)
    <3>1. \A i \in 1..Len(q) : q[i].rev < killRev => q[i].rev < rev + 1
      BY <1>2, <1>3
    <3> QED
      BY <3>1 DEF KillInv, Kills
  <2>2. lastKill < rev + 1
    BY <1>2, <1>3
  <2> QED
    BY <1>1, <1>5, <1>6, <2>1, <2>2 DEF KillInv
<1>7. CASE q' = Append(q, e)
  <2>1. e \in Event
    BY <1>2, <1>7, PushedIsEvent DEF SyncInv, TypeOK
  <2>2. killRev <= rev + 1 /\ lastKill < rev /\ rev < rev + 1 /\ rev + 1 \in Nat
    BY <1>2, <1>3
  <2>3. Kills(Append(q, e), lastKill, rev + 1)
    <3>1. Kills(q, lastKill, killRev)
      BY DEF KillInv
    <3> QED
      BY <1>2, <1>3, <1>4, <2>1, <2>2, <3>1, KillsAppend
  <2>4. /\ Len(q') = Len(q) + 1 /\ Len(q) \in Nat
        /\ \A i \in 1..Len(q) : q'[i] = q[i]
        /\ q'[Len(q) + 1] = e
    BY <1>2, <1>7, <2>1, AppendFacts
  <2>5. \A i \in 1..Len(q') : i \in 1..Len(q) \/ i = Len(q) + 1
    BY <2>4
  <2>6. \A i \in 1..Len(q') : q'[i].type = "kill" => q'[i].rev <= Len(hist)
    BY <1>3, <1>4, <2>4, <2>5 DEF KillInv
  <2>7. lastKill < rev + 1
    BY <1>2, <2>2
  <2> QED
    BY <1>1, <1>5, <1>7, <2>3, <2>6, <2>7 DEF KillInv
<1> QED
  BY <1>1, <1>6, <1>7 DEF PushKill, PushJobEvent, e

LEMMA KillHandled ==
    ASSUME SyncInv, KillInv, NodeHandleEvent
    PROVE  KillInv'
<1> DEFINE q == jobEventChan
<1>1. /\ q # <<>> /\ q' = Tail(q) /\ UNCHANGED <<hist, state, killRev>>
      /\ lastKill' = IF Head(q).type = "kill" THEN Head(q).rev ELSE lastKill
  BY DEF NodeHandleEvent, HandleJobEvent, etcd
<1>2. /\ q \in Seq(Event) /\ Len(hist) \in Nat /\ killRev \in Nat
      /\ \A i \in 1..Len(q) : q[i] \in Event /\ q[i].rev \in Nat \ {0}
      /\ lastKill \in Nat
  BY SyncTypes DEF KillInv
<1>3. /\ Kills(q', lastKill', killRev)
      /\ Head(q).type = "kill" => Head(q).rev < killRev
  BY <1>1, <1>2, KillsTail DEF KillInv
<1>4. /\ Head(q) = q[1] /\ Len(q) \in Nat \ {0} /\ Len(q') = Len(q) - 1
      /\ \A i \in 1..Len(q') : i + 1 \in 1..Len(q) /\ q'[i] = q[i + 1]
  BY <1>1, <1>2, HeadTail
<1>5. 1 \in 1..Len(q)
  BY <1>4
<1>6. lastKill' \in Nat /\ lastKill' <= Len(hist) /\ (killRev # 0 => lastKill' < killRev)
  BY <1>1, <1>2, <1>3, <1>4, <1>5 DEF KillInv
<1>7. \A i \in 1..Len(q') : q'[i].type = "kill" => q'[i].rev <= Len(hist)
  BY <1>4 DEF KillInv
<1> QED
  BY <1>1, <1>3, <1>6, <1>7 DEF KillInv

\* Starts and ends: of the process, and of the watch.
LEMMA KillLife ==
    ASSUME SyncInv, KillInv,
           \/ NodeStart \/ NodeCrash
           \/ (WatchKillerStart \/ KillerWatchEnds \/ JobsWatchEnds) /\ UNCHANGED lastKill
    PROVE  KillInv'
<1>1. /\ jobEventChan \in Seq(Event) /\ Len(hist) \in Nat /\ Len(hist) <= MaxRev
      /\ killRev \in Nat /\ MaxRev \in Nat /\ lastKill \in Nat /\ lastKill <= Len(hist)
      /\ \A i \in 1..Len(jobEventChan) : jobEventChan[i].rev \in Nat \ {0}
  BY SyncTypes DEF KillInv
<1>2. ASSUME killRev = 0 PROVE \A i \in 1..Len(jobEventChan) : jobEventChan[i].type # "kill"
  BY <1>1, <1>2 DEF KillInv, Kills
<1>3. CASE NodeStart
  <2>1. killRev = 0 /\ state' = "init" /\ lastKill' = Len(hist) /\ UNCHANGED <<hist, killRev, jobEventChan>>
    BY <1>3 DEF NodeStart, Start, KillInv, etcd
  <2> QED
    BY <1>1, <1>2, <2>1 DEF KillInv, Kills
<1>4. CASE NodeCrash
  <2>1. /\ killRev' = 0 /\ jobEventChan' = <<>> /\ UNCHANGED <<hist, lastKill>>
    BY <1>4 DEF NodeCrash, Crash, etcd
  <2> QED
    BY <1>1, <2>1 DEF KillInv, Kills
<1>5. CASE WatchKillerStart /\ UNCHANGED lastKill
  <2>1. /\ killRev = 0 /\ killRev' = Len(hist) + 1 /\ UNCHANGED <<hist, jobEventChan, lastKill, state>>
        /\ state \in {"watch", "deaf"}
    BY <1>5 DEF WatchKillerStart, etcd
  <2> QED
    BY <1>1, <1>2, <2>1 DEF KillInv, Kills
<1>6. CASE KillerWatchEnds /\ UNCHANGED lastKill
  <2>1. /\ killRev # 0 /\ killRev' = MaxRev + 2 /\ UNCHANGED <<hist, jobEventChan, lastKill, state>>
    BY <1>6 DEF KillerWatchEnds, etcd, Ended
  <2>2. \A i \in 1..Len(jobEventChan) : jobEventChan[i].type = "kill" => jobEventChan[i].rev < MaxRev + 2
    BY <1>1 DEF KillInv
  <2>3. Kills(jobEventChan, lastKill, MaxRev + 2)
    BY <2>2 DEF KillInv, Kills
  <2>4. lastKill < MaxRev + 2
    BY <1>1
  <2> QED
    BY <2>1, <2>3, <2>4 DEF KillInv
<1>7. CASE JobsWatchEnds /\ UNCHANGED lastKill
  BY <1>7 DEF JobsWatchEnds, etcd, KillInv
<1> QED
  BY <1>3, <1>4, <1>5, <1>6, <1>7

LEMMA KillSteps == SyncInv /\ SyncInv' /\ KillInv /\ [NodeNext]_allVars => KillInv'
<1> SUFFICES ASSUME SyncInv, SyncInv', KillInv, [NodeNext]_allVars PROVE KillInv'
  OBVIOUS
<1>1. CASE NodeMasters
  <2>1. UNCHANGED <<state, killRev, jobEventChan, lastKill>>
    BY <1>1 DEF NodeMasters, Masters, SaveJob, ForeignPut, DeleteJob, KillJobGrant, KillJobPut,
                KillJobFails, KillerExpires, worker
  <2>2. Len(hist) \in Nat /\ Len(hist') \in Nat /\ Len(hist) <= Len(hist')
    <3>1. hist' = hist \/ \E c : hist' = Append(hist, c)
      BY <1>1 DEF NodeMasters, Masters, SaveJob, ForeignPut, DeleteJob, KillJobGrant, KillJobPut,
                  KillJobFails, KillerExpires, Modify
    <3>2. hist \in Seq(Change) /\ hist' \in Seq(Change)
      BY DEF SyncInv, TypeOK
    <3>3. ASSUME NEW c, hist' = Append(hist, c) PROVE Len(hist') = Len(hist) + 1
      <4>1. hist \in Seq(Change \cup {c})
        BY <3>2
      <4> QED
        BY <3>3, <4>1
    <3> QED
      BY <3>1, <3>2, <3>3
  <2>3. /\ \A i \in 1..Len(jobEventChan) : jobEventChan[i].rev \in Nat
        /\ lastKill \in Nat /\ lastKill <= Len(hist)
    BY SyncTypes DEF KillInv
  <2> QED
    BY <2>1, <2>2, <2>3 DEF KillInv
<1>2. CASE NodeStart \/ NodeCrash \/ NodeWatchKillerStart \/ NodeWatchEnds
  BY <1>2, KillLife DEF NodeWatchKillerStart, NodeWatchEnds, Fed
<1>3. CASE NodeInitJobMgr \/ NodeWatchJobs
  <2>1. Grows({"save", "delete"}) /\ UNCHANGED <<hist, killRev, lastKill>>
    BY <1>3, QueueSteps DEF NodeInitJobMgr, NodeWatchJobs, Fed
  <2>2. state' \in {"down", "init", "load"} => killRev = 0
    BY <1>3 DEF NodeInitJobMgr, NodeWatchJobs, InitJobMgr, GetJobs, GetJobsFails, PushSnapshot,
                SnapshotDone, WatchJobs, KillInv
  <2> QED
    BY <2>1, <2>2, KillOther
<1>4. CASE NodeWatchKiller
  BY <1>4, KillWatch DEF NodeWatchKiller, Fed
<1>5. CASE NodeHandleEvent
  BY <1>5, KillHandled
<1>6. CASE UNCHANGED <<vars, lastKill>>
  BY <1>6 DEF vars, etcd, worker, KillInv
<1>7. CASE \/ Own(Sched!HandleTimer) \/ Own(Sched!HandleResult) \/ Own(Sched!TimerExpires)
           \/ \E x \in running : Own(Sched!PushJobResult(x))
           \/ Tick \/ UNCHANGED allVars
  BY <1>6, <1>7 DEF Own, Tick, allVars
<1> QED
  BY <1>1, <1>2, <1>3, <1>4, <1>5, <1>7 DEF NodeNext

LEMMA NodeKills == NodeSpec => []KillInv
<1>1. NodeInit => KillInv
  BY DEF NodeInit, Init, KillInv, Kills
<1> QED
  BY <1>1, KillSteps, NodeSync, PTL DEF NodeSpec

\* A kill acts once in a process, and one from before its start not at all: the
\* watch of the killer keys (worker/JobMgr.go:162) starts after the start of the
\* process and goes forward only, and the queue keeps the order.
THEOREM KillActsOnceTheorem == NodeSpec => []KillActsOnce
<1>1. KillInv => KillActsOnce
  BY DEF KillInv, Kills, KillActsOnce
<1> QED
  BY <1>1, NodeKills, PTL

-----------------------------------------------------------------------------
(* from etcd to the plans                                                  *)

\* The scheduler's queue is the job manager's, without the revisions.
Link == /\ eventChan \in Seq(Sched!Event) /\ Len(eventChan) = Len(jobEventChan)
        /\ \A i \in 1..Len(jobEventChan) : eventChan[i] = JobEvent(jobEventChan[i])

LEMMA JobEventFacts ==
    ASSUME NEW e \in Event
    PROVE  /\ JobEvent(e) \in Sched!Event
           /\ JobEvent(e).type = e.type /\ JobEvent(e).job = e.job
           /\ e.type = "save" => JobEvent(e).expr = e.val
<1>1. CASE e.type = "save"
  <2>1. e.val \in Expr \cup {BadExpr}
    BY <1>1, EventFields DEF Expr
  <2> QED
    BY <1>1, <2>1, EventFields DEF JobEvent, Sched!Event
<1>2. CASE e.type # "save"
  BY <1>2, EventFields DEF JobEvent, Sched!Event
<1> QED
  BY <1>1, <1>2

\* What one pushes reaches the other.
LEMMA LinkFed ==
    ASSUME SyncInv, SyncInv', Link, Fed, NEW kinds, Grows(kinds)
    PROVE  Link' /\ UNCHANGED <<now, jobPlanTable>>
<1>1. jobEventChan \in Seq(Event) /\ jobEventChan' \in Seq(Event) /\ Len(jobEventChan) \in Nat
  BY DEF SyncInv, TypeOK
<1>2. CASE UNCHANGED jobEventChan
  <2>1. UNCHANGED schedVars
    BY <1>1, <1>2 DEF Fed
  <2> QED
    BY <1>2, <2>1 DEF schedVars, Link
<1>3. CASE ~UNCHANGED jobEventChan
  <2>1. PICK e : jobEventChan' = Append(jobEventChan, e)
    BY <1>3 DEF Grows
  <2>2. e \in Event
    BY <1>1, <2>1, PushedIsEvent
  <2>3. /\ Len(jobEventChan') = Len(jobEventChan) + 1
        /\ \A i \in 1..Len(jobEventChan) : jobEventChan'[i] = jobEventChan[i]
        /\ jobEventChan'[Len(jobEventChan')] = e
    BY <1>1, <2>1, <2>2, AppendFacts
  <2>4. Len(jobEventChan') > Len(jobEventChan)
    BY <1>1, <2>3
  <2>5. Sched!PushJobEvent(JobEvent(e))
    BY <2>3, <2>4 DEF Fed
  <2>6. eventChan' = Append(eventChan, JobEvent(e)) /\ UNCHANGED <<now, jobPlanTable>>
    BY <2>5 DEF Sched!PushJobEvent, Sched!tables
  <2>7. /\ eventChan' \in Seq(Sched!Event) /\ Len(eventChan') = Len(eventChan) + 1
        /\ \A i \in 1..Len(eventChan) : eventChan'[i] = eventChan[i]
        /\ eventChan'[Len(eventChan) + 1] = JobEvent(e)
    BY <2>2, <2>6, JobEventFacts, AppendFacts DEF Link
  <2>8. \A i \in 1..Len(jobEventChan') : i \in 1..Len(jobEventChan) \/ i = Len(jobEventChan')
    BY <1>1, <2>3
  <2> QED
    BY <2>3, <2>6, <2>7, <2>8 DEF Link
<1> QED
  BY <1>2, <1>3

\* A step of the scheduler, or the start or the end of its process.
SchedulerStep == Sched!Next \/ \E timer : InitScheduler(timer)

\* The other component: as long as its process lives, the scheduler of a worker
\* takes the steps of Scheduler and no others, whatever the job manager pushes
\* (worker/Scheduler.go:62); only a start or a crash of the process resets it.
THEOREM ImplementsScheduler == NodeSpec => Sched!Init /\ [][SchedulerStep]_schedVars
<1>1. SyncInv /\ SyncInv' /\ [NodeNext]_allVars => [SchedulerStep]_schedVars
  <2> SUFFICES ASSUME SyncInv, SyncInv', [NodeNext]_allVars PROVE [SchedulerStep]_schedVars
    OBVIOUS
  <2>1. CASE NodeMasters \/ UNCHANGED allVars
    BY <2>1 DEF NodeMasters, allVars
  <2>2. CASE NodeStart \/ NodeCrash
    BY <2>2 DEF NodeStart, NodeCrash, SchedulerStep
  <2>3. CASE Fed
    <3>1. CASE ~(Len(jobEventChan') > Len(jobEventChan))
      BY <2>3, <3>1 DEF Fed
    <3>2. CASE Len(jobEventChan') > Len(jobEventChan)
      <4> DEFINE e == jobEventChan'[Len(jobEventChan')]
      <4>1. /\ jobEventChan' \in Seq(Event) /\ Len(jobEventChan') \in Nat
            /\ Len(jobEventChan) \in Nat
        BY DEF SyncInv, TypeOK
      <4>2. Len(jobEventChan') \in 1..Len(jobEventChan')
        BY <3>2, <4>1
      <4>3. e \in Event
        BY <4>1, <4>2
      <4>4. Sched!PushJobEvent(JobEvent(e))
        BY <2>3, <3>2 DEF Fed
      <4> HIDE DEF e
      <4> QED
        BY <4>3, <4>4, JobEventFacts DEF SchedulerStep, Sched!Next
    <3> QED
      BY <3>1, <3>2
  <2>4. CASE \/ NodeInitJobMgr \/ NodeWatchJobs
             \/ NodeWatchKillerStart \/ NodeWatchKiller \/ NodeWatchEnds
    BY <2>3, <2>4 DEF NodeInitJobMgr, NodeWatchJobs, NodeWatchKillerStart, NodeWatchKiller, NodeWatchEnds
  <2>5. CASE NodeHandleEvent \/ Own(Sched!HandleTimer) \/ Own(Sched!HandleResult)
    BY <2>5 DEF NodeHandleEvent, Own, SchedulerStep, Sched!Next, Sched!scheduleLoop
  <2>6. CASE Own(Sched!TimerExpires) \/ (\E x \in running : Own(Sched!PushJobResult(x))) \/ Tick
    BY <2>6 DEF Own, Tick, SchedulerStep, Sched!Next
  <2> QED
    BY <2>1, <2>2, <2>4, <2>5, <2>6 DEF NodeNext
<1>2. NodeInit => Sched!Init
  BY DEF NodeInit
<1> QED
  BY <1>1, <1>2, NodeSync, PTL DEF NodeSpec

-----------------------------------------------------------------------------
(* the scheduler's operators, as in SchedulerProofs                        *)

PlanTable == [Job -> Sched!Plan \cup {NoJob}]

\* Expression.Next gives a later match, or the zero time when there is none.
LEMMA NextMatchFacts ==
    ASSUME NEW e \in Expr, NEW t \in Nat
    PROVE  /\ Sched!NextMatch(e, t) \in Nat
           /\ (\E m \in e : m > t) => Sched!NextMatch(e, t) \in e /\ t < Sched!NextMatch(e, t)
<1> DEFINE later == {m \in e : m > t}
<1>1. e \subseteq Nat
  BY NodeAssumption
<1>2. CASE later = {}
  BY <1>2 DEF Sched!NextMatch, Sched!Zero
<1>3. CASE later # {}
  <2>1. Sched!NextMatch(e, t) = Min(later)
    BY <1>3 DEF Sched!NextMatch, Sched!Min, Min
  <2>2. later \in SUBSET Nat
    BY <1>1
  <2>3. Min(later) \in later
    <3> HIDE DEF later
    <3> QED
      BY <1>3, <2>2, MinRev
  <2> QED
    BY <1>1, <2>1, <2>3
<1> QED
  BY <1>2, <1>3

LEMMA ReplanKeeps ==
    ASSUME NEW plan \in PlanTable, now \in Nat
    PROVE  /\ Sched!Replan(plan) \in PlanTable
           /\ \A j \in Job : /\ Sched!Replan(plan)[j] = NoJob <=> plan[j] = NoJob
                             /\ plan[j] # NoJob => Sched!Replan(plan)[j].expr = plan[j].expr
                             /\ j \in Sched!Due(plan) =>
                                   Sched!Replan(plan)[j].next = Sched!NextMatch(plan[j].expr, now)
                             /\ j \notin Sched!Due(plan) => Sched!Replan(plan)[j] = plan[j]
<1> DEFINE again(j) == [plan[j] EXCEPT !.next = Sched!NextMatch(plan[j].expr, now)]
<1>1. ASSUME NEW j \in Job, plan[j] # NoJob
      PROVE  /\ again(j) \in Sched!Plan /\ again(j).expr = plan[j].expr
             /\ again(j).next = Sched!NextMatch(plan[j].expr, now)
  <2>1. plan[j] \in Sched!Plan /\ plan[j].expr \in Expr
    BY <1>1 DEF PlanTable, Sched!Plan
  <2> QED
    BY <2>1, NextMatchFacts DEF Sched!Plan
<1>2. \A j \in Job : plan[j] \in Sched!Plan \cup {NoJob}
  BY DEF PlanTable
<1>3. \A j \in Job : Sched!Replan(plan)[j] = IF j \in Sched!Due(plan) THEN again(j) ELSE plan[j]
  BY DEF Sched!Replan
<1>4. \A j \in Sched!Due(plan) : plan[j] # NoJob
  BY DEF Sched!Due
<1> HIDE DEF again
<1>5. Sched!Replan(plan) \in PlanTable
  <2>1. \A j \in Job : Sched!Replan(plan)[j] \in Sched!Plan \cup {NoJob}
    BY <1>1, <1>2, <1>3, <1>4
  <2> QED
    BY <2>1 DEF Sched!Replan, PlanTable
<1> QED
  BY <1>1, <1>3, <1>4, <1>5, NodeAssumption

\* A job's plan follows the definition in memory.
Follows(j, entry, plan) ==
    /\ entry = NoJob => plan[j] = NoJob
    /\ entry \in Expr => plan[j] # NoJob /\ plan[j].expr = entry

PlanInv == /\ now \in Nat /\ jobPlanTable \in PlanTable
           /\ \A j \in Job : Follows(j, jobs[j], jobPlanTable)

\* An event does to the plans what it does to the jobs in memory.
LEMMA PlanAfterFollows ==
    ASSUME NEW e \in Event, PlanInv
    PROVE  /\ Sched!PlanAfter(JobEvent(e)) \in PlanTable
           /\ \A j \in Job : Follows(j, IF Concerns(e, j) THEN Told(e) ELSE jobs[j],
                                     Sched!PlanAfter(JobEvent(e)))
<1> DEFINE after == Sched!PlanAfter(JobEvent(e))
<1>1. /\ e.type \in {"save", "delete", "kill"} /\ e.job \in Job
      /\ JobEvent(e).type = e.type /\ JobEvent(e).job = e.job
      /\ e.type = "save" => JobEvent(e).expr = e.val /\ e.val \in Val
      /\ NoJob \notin Val /\ BadExpr \in Val /\ jobPlanTable \in PlanTable
  BY EventFields, JobEventFacts, SyncAssumption, NodeAssumption DEF PlanInv
<1>2. CASE e.type = "save" /\ e.val # BadExpr
  <2> DEFINE plan == Sched!BuildJobSchedulePlan(e.val)
  <2>1. e.val \in Expr
    BY <1>1, <1>2 DEF Expr
  <2>2. plan \in Sched!Plan /\ plan.expr = e.val
    BY <2>1, NextMatchFacts DEF Sched!BuildJobSchedulePlan, Sched!Plan, PlanInv
  <2>3. after = [jobPlanTable EXCEPT ![e.job] = plan]
    BY <1>1, <1>2 DEF Sched!PlanAfter
  <2> HIDE DEF plan, after
  <2>4. /\ after \in PlanTable /\ after[e.job] = plan
        /\ \A j \in Job : j # e.job => after[j] = jobPlanTable[j]
    BY <1>1, <2>2, <2>3 DEF PlanTable
  <2>5. Told(e) = e.val /\ Told(e) # NoJob /\ \A j : Concerns(e, j) <=> e.job = j
    BY <1>1, <1>2 DEF Told, Concerns
  <2>6. plan # NoJob
    BY <2>2, NodeAssumption
  <2>7. \A j \in Job : Follows(j, IF Concerns(e, j) THEN Told(e) ELSE jobs[j], after)
    BY <2>2, <2>4, <2>5, <2>6 DEF Follows, PlanInv
  <2> QED
    BY <2>4, <2>7 DEF after
<1>3. CASE e.type = "save" /\ e.val = BadExpr
  <2>1. after = jobPlanTable
    BY <1>1, <1>3 DEF Sched!PlanAfter
  <2>2. Told(e) # NoJob /\ Told(e) \notin Expr
    BY <1>1, <1>3 DEF Told, Expr
  <2> QED
    BY <1>1, <2>1, <2>2 DEF Follows, PlanInv
<1>4. CASE e.type = "delete"
  <2>1. after = [jobPlanTable EXCEPT ![e.job] = NoJob]
    BY <1>1, <1>4 DEF Sched!PlanAfter
  <2> HIDE DEF after
  <2>2. /\ after \in PlanTable /\ after[e.job] = NoJob
        /\ \A j \in Job : j # e.job => after[j] = jobPlanTable[j]
    BY <1>1, <2>1 DEF PlanTable
  <2>3. Told(e) = NoJob /\ Told(e) \notin Expr /\ \A j : Concerns(e, j) <=> e.job = j
    BY <1>1, <1>4 DEF Told, Concerns, Expr
  <2>4. \A j \in Job : Follows(j, IF Concerns(e, j) THEN Told(e) ELSE jobs[j], after)
    BY <2>2, <2>3 DEF Follows, PlanInv
  <2> QED
    BY <2>2, <2>4 DEF after
<1>5. CASE e.type = "kill"
  <2>1. after = jobPlanTable
    BY <1>1, <1>5 DEF Sched!PlanAfter
  <2> QED
    BY <1>1, <1>5, <2>1 DEF Concerns, PlanInv
<1> QED
  BY <1>1, <1>2, <1>3, <1>4, <1>5

\* TrySchedule moves plans on, and leaves their expressions.
LEMMA TryScheduleFollows ==
    ASSUME NEW plan \in PlanTable, now \in Nat, NEW executing, NEW C,
           Sched!TrySchedule(plan, executing, C)
    PROVE  /\ jobPlanTable' \in PlanTable
           /\ \A j \in Job : \A entry : Follows(j, entry, plan) => Follows(j, entry, jobPlanTable')
<1>1. jobPlanTable' = Sched!Replan(plan)
  BY DEF Sched!TrySchedule
<1> QED
  BY <1>1, ReplanKeeps DEF Follows

LEMMA PlanHandled ==
    ASSUME SyncInv, Link, PlanInv, NodeHandleEvent
    PROVE  Link' /\ PlanInv'
<1> DEFINE q == jobEventChan
           e == Head(q)
           after == Sched!PlanAfter(JobEvent(e))
<1>1. /\ q # <<>> /\ q' = Tail(q)
      /\ jobs' = CASE e.type = "save" -> [jobs EXCEPT ![e.job] = e.val]
                   [] e.type = "delete" -> [jobs EXCEPT ![e.job] = NoJob]
                   [] e.type = "kill" -> jobs
  BY DEF NodeHandleEvent, HandleJobEvent
<1>2. /\ q \in Seq(Event) /\ Head(q) = q[1] /\ e \in Event /\ Len(q) \in Nat \ {0}
      /\ q' \in Seq(Event) /\ Len(q') = Len(q) - 1
      /\ \A i \in 1..Len(q') : i + 1 \in 1..Len(q) /\ q'[i] = q[i + 1]
      /\ jobs \in [Job -> Val \cup {NoJob}]
  BY <1>1, HeadTail DEF SyncInv, TypeOK
<1>3. \A j \in Job : jobs'[j] = IF Concerns(e, j) THEN Told(e) ELSE jobs[j]
  <2>1. e.type \in {"save", "delete", "kill"} /\ e.job \in Job
    BY <1>2, EventFields
  <2> HIDE DEF e
  <2> QED
    BY <1>1, <1>2, <2>1 DEF Concerns, Told
<1>4. eventChan # <<>> /\ eventChan' = Tail(eventChan) /\ UNCHANGED now
  BY DEF NodeHandleEvent, Sched!HandleEvent
<1>5. /\ Head(eventChan) = eventChan[1] /\ eventChan' \in Seq(Sched!Event)
      /\ Len(eventChan') = Len(eventChan) - 1
      /\ \A i \in 1..Len(eventChan') : eventChan'[i] = eventChan[i + 1]
  BY <1>4, HeadTail DEF Link
<1>6. 1 \in 1..Len(q)
  BY <1>2
<1>7. Head(eventChan) = JobEvent(e)
  BY <1>2, <1>5, <1>6 DEF Link
<1>8. Sched!TrySchedule(after, jobExecutingTable, scheduleTimer.C)
  BY <1>7 DEF NodeHandleEvent, Sched!HandleEvent
<1> HIDE DEF e, after
<1>9. Link'
  BY <1>2, <1>5 DEF Link
<1>10. /\ after \in PlanTable
       /\ \A j \in Job : Follows(j, jobs'[j], after)
  BY <1>2, <1>3, PlanAfterFollows DEF after
<1>11. /\ jobPlanTable' \in PlanTable /\ now \in Nat
       /\ \A j \in Job : Follows(j, jobs'[j], jobPlanTable')
  BY <1>8, <1>10, TryScheduleFollows DEF PlanInv
<1> QED
  BY <1>4, <1>9, <1>11 DEF PlanInv

\* A process starts, and ends, without jobs and without plans.
LEMMA PlanLife ==
    ASSUME SyncInv, KillInv, Link, PlanInv, NodeStart \/ NodeCrash
    PROVE  Link' /\ PlanInv'
<1>1. /\ jobPlanTable' = [j \in Job |-> NoJob] /\ eventChan' = <<>> /\ UNCHANGED now
  BY DEF NodeStart, NodeCrash, InitScheduler
<1>2. jobEventChan' = <<>> /\ \A j \in Job : jobs'[j] = NoJob
  <2>1. CASE NodeCrash
    BY <2>1 DEF NodeCrash, Crash
  <2>2. CASE NodeStart
    <3>1. state = "down" /\ UNCHANGED <<jobEventChan, jobs>>
      BY <2>2 DEF NodeStart, Start
    <3>2. \A j \in Job : /\ jobs[j] = NoJob
                        /\ \A i \in 1..Len(jobEventChan) : ~Concerns(jobEventChan[i], j)
      BY <3>1 DEF SyncInv, Fresh
    <3>3. ASSUME NEW i \in 1..Len(jobEventChan) PROVE FALSE
      <4>1. jobEventChan[i] \in Event /\ jobEventChan[i].rev \in Nat
        BY SyncTypes
      <4>2. jobEventChan[i].type = "kill"
        BY <3>2, <4>1, EventFields DEF Concerns
      <4> QED
        BY <3>1, <4>1, <4>2 DEF KillInv, Kills
    <3>4. jobEventChan = <<>>
      BY <3>3, SyncTypes
    <3> QED
      BY <3>1, <3>2, <3>4
  <2> QED
    BY <2>1, <2>2
<1> QED
  BY <1>1, <1>2, SyncAssumption DEF Link, PlanInv, PlanTable, Follows, Expr

LEMMA PlanSteps ==
    SyncInv /\ SyncInv' /\ KillInv /\ Link /\ PlanInv /\ [NodeNext]_allVars => Link' /\ PlanInv'
<1> SUFFICES ASSUME SyncInv, SyncInv', KillInv, Link, PlanInv, [NodeNext]_allVars PROVE Link' /\ PlanInv'
  OBVIOUS
<1>1. CASE NodeMasters \/ UNCHANGED allVars
  BY <1>1 DEF NodeMasters, Masters, SaveJob, ForeignPut, DeleteJob, KillJobGrant, KillJobPut,
              KillJobFails, KillerExpires, worker, allVars, vars, schedVars, Link, PlanInv
<1>2. CASE NodeStart \/ NodeCrash
  BY <1>2, PlanLife
<1>3. ASSUME NEW kinds, Grows(kinds), Fed, UNCHANGED jobs PROVE Link' /\ PlanInv'
  BY <1>3, LinkFed DEF PlanInv
<1>4. CASE NodeInitJobMgr \/ NodeWatchJobs
  <2>1. Grows({"save", "delete"}) /\ Fed
    BY <1>4, QueueSteps DEF NodeInitJobMgr, NodeWatchJobs
  <2>2. UNCHANGED jobs
    BY <1>4 DEF NodeInitJobMgr, NodeWatchJobs, InitJobMgr, GetJobs, GetJobsFails, PushSnapshot,
                SnapshotDone, WatchJobs
  <2> QED
    BY <1>3, <2>1, <2>2
<1>5. CASE NodeWatchKillerStart \/ NodeWatchEnds
  <2>1. Grows({}) /\ Fed
    BY <1>5, QueueSteps DEF NodeWatchKillerStart, NodeWatchEnds, Grows
  <2>2. UNCHANGED jobs
    BY <1>5 DEF NodeWatchKillerStart, NodeWatchEnds, WatchKillerStart, JobsWatchEnds, KillerWatchEnds
  <2> QED
    BY <1>3, <2>1, <2>2
<1>6. CASE NodeWatchKiller
  <2>1. Grows({"kill"}) /\ Fed /\ UNCHANGED jobs
    BY <1>6 DEF NodeWatchKiller, WatchKiller, PushKill, PushJobEvent, KillEventOf, Grows
  <2> QED
    BY <1>3, <2>1
<1>7. CASE NodeHandleEvent
  BY <1>7, PlanHandled
<1>8. CASE Own(Sched!HandleTimer) \/ Own(Sched!HandleResult)
  <2>1. UNCHANGED <<jobEventChan, jobs, now, eventChan>>
    BY <1>8 DEF Own, vars, worker, Sched!HandleTimer, Sched!HandleResult, Sched!queues
  <2>2. \E executing, C : Sched!TrySchedule(jobPlanTable, executing, C)
    BY <1>8 DEF Own, Sched!HandleTimer, Sched!HandleResult
  <2>3. jobPlanTable' \in PlanTable /\ \A j \in Job : Follows(j, jobs[j], jobPlanTable')
    BY <2>2, TryScheduleFollows DEF PlanInv
  <2> QED
    BY <2>1, <2>3 DEF Link, PlanInv
<1>9. CASE Own(Sched!TimerExpires) \/ (\E x \in running : Own(Sched!PushJobResult(x))) \/ Tick
  <2>1. UNCHANGED <<jobEventChan, jobs, eventChan, jobPlanTable>>
    BY <1>9 DEF Own, Tick, vars, worker, Sched!TimerExpires, Sched!PushJobResult, Sched!Clock,
                Sched!tables, Sched!queues
  <2>2. now' = now \/ now' = now + 1
    BY <1>9 DEF Own, Tick, Sched!TimerExpires, Sched!PushJobResult, Sched!Clock
  <2>3. now' \in Nat
    BY <2>2 DEF PlanInv
  <2> QED
    BY <2>1, <2>3 DEF Link, PlanInv
<1> QED
  BY <1>1, <1>2, <1>4, <1>5, <1>6, <1>7, <1>8, <1>9 DEF NodeNext

LEMMA NodePlans == NodeSpec => [](Link /\ PlanInv)
<1>1. NodeInit => Link /\ PlanInv
  BY SyncAssumption DEF NodeInit, Init, Sched!Init, Link, PlanInv, PlanTable, Follows, Expr
<1> QED
  BY <1>1, PlanSteps, NodeSync, NodeKills, PTL DEF NodeSpec

\* From etcd to the plans (worker/JobMgr.go:66, Scheduler.go:90): a worker that
\* has caught up plans each stored job whose expression parses by what is
\* stored, and no other but one whose stored value is no job or no expression.
THEOREM PlanIsStoredTheorem == NodeSpec => []PlanIsStored
<1>1. SyncInv /\ PlanInv => PlanIsStored
  <2> SUFFICES ASSUME SyncInv, PlanInv, CaughtUp, NEW j \in Job
               PROVE  /\ Stored(j) = NoJob => jobPlanTable[j] = NoJob
                      /\ Stored(j) \in Expr => jobPlanTable[j] # NoJob /\ jobPlanTable[j].expr = Stored(j)
    BY DEF PlanIsStored
  <2>1. state = "watch" /\ jobEventChan = <<>> /\ Ahead(jobRev, JobChange) = {}
    BY DEF CaughtUp
  <2>2. /\ Listening /\ j \notin snapshot
        /\ Brought \in Nat /\ Brought <= Len(hist) /\ jobRev = Brought + 1 /\ Len(hist) \in Nat
    BY <2>1, BroughtFacts DEF Listening, SyncInv, SnapshotInv
  <2>3. ValueIn(hist, j, Brought) \in {jobs[j], Garbage}
    BY <2>1, <2>2 DEF SyncInv, InSync, Tracked
  <2>4. \A i \in (Brought + 1)..Len(hist) : hist[i].type \notin JobChange
    BY <2>1, <2>2 DEF Ahead
  <2>5. ValueIn(hist, j, Len(hist)) = ValueIn(hist, j, Brought)
    <3>1. CASE Brought = Len(hist)
      BY <3>1
    <3>2. CASE Brought < Len(hist)
      <4>1. /\ Len(hist) \in (Brought + 1)..Len(hist)
            /\ \A i \in (Brought + 1)..(Len(hist) - 1) : i \in (Brought + 1)..Len(hist)
        BY <2>2, <3>2
      <4>2. /\ hist[Len(hist)].type \notin JobChange
            /\ \A i \in (Brought + 1)..(Len(hist) - 1) : hist[i].type \notin JobChange
        BY <2>4, <4>1
      <4> QED
        BY <2>2, <3>2, <4>2, NextValue
    <3> QED
      BY <2>2, <3>1, <3>2
  <2>6. Stored(j) \in {jobs[j], Garbage}
    BY <2>3, <2>5, HistValues DEF Stored
  <2>7. Garbage # NoJob /\ Garbage \notin Expr
    BY SyncAssumption DEF Expr
  <2> QED
    BY <2>6, <2>7 DEF PlanInv, Follows
<1> QED
  BY <1>1, NodePlans, NodeSync, PTL

-----------------------------------------------------------------------------
(* executions, across restarts                                             *)

\* Every expression keeps matching: no year field that comes to an end.
Recurs == \A e \in Expr, t \in 1..MaxTime : \E m \in e : m > t

\* Each plan is a match that lies after all the instants its job was executed
\* for, by this process or by one before it.
PlansAhead(plan, last) ==
    \A j \in Job : plan[j] # NoJob => plan[j].next \in plan[j].expr /\ last[j] < plan[j].next

\* The inductive invariant behind StartsOnMatch. lastPlan outlives the process,
\* the plans do not: what a new process plans lies after the clock, and with it
\* after everything that was executed.
AheadInv == /\ now \in 1..MaxTime /\ lastPlan \in [Job -> Nat]
            /\ jobExecutingTable = [j \in Job |-> jobExecutingTable[j]]
            /\ \A j \in Job : lastPlan[j] <= now
            /\ PlansAhead(jobPlanTable, lastPlan)

\* What a step may start.
Starts == \A j \in Job : jobExecutingTable'[j] \notin {NoJob, jobExecutingTable[j]} =>
             /\ jobExecutingTable'[j].plan \in jobPlanTable'[j].expr
             /\ lastPlan[j] < jobExecutingTable'[j].plan
             /\ jobExecutingTable'[j].plan <= now

LEMMA NextIsAhead ==
    ASSUME AheadInv, Recurs, NEW e \in Expr
    PROVE  /\ Sched!NextMatch(e, now) \in e /\ Sched!NextMatch(e, now) \in Nat
           /\ now < Sched!NextMatch(e, now)
<1>1. now \in Nat /\ \E m \in e : m > now
  BY NodeAssumption DEF AheadInv, Recurs
<1> QED
  BY <1>1, NextMatchFacts

LEMMA PlanAfterAhead ==
    ASSUME AheadInv, PlanInv, Recurs, NEW e \in Event
    PROVE  PlansAhead(Sched!PlanAfter(JobEvent(e)), lastPlan)
<1> DEFINE after == Sched!PlanAfter(JobEvent(e))
<1>1. /\ e.type \in {"save", "delete", "kill"} /\ e.job \in Job
      /\ JobEvent(e).type = e.type /\ JobEvent(e).job = e.job
      /\ e.type = "save" => JobEvent(e).expr = e.val /\ e.val \in Val
      /\ jobPlanTable \in PlanTable /\ lastPlan \in [Job -> Nat] /\ now \in Nat
  BY EventFields, JobEventFacts, NodeAssumption DEF PlanInv, AheadInv
<1>2. CASE e.type = "save" /\ e.val # BadExpr
  <2> DEFINE plan == Sched!BuildJobSchedulePlan(e.val)
  <2>1. e.val \in Expr
    BY <1>1, <1>2 DEF Expr
  <2>2. plan.expr = e.val /\ plan.next = Sched!NextMatch(e.val, now)
    BY DEF Sched!BuildJobSchedulePlan
  <2>3. plan.next \in plan.expr /\ lastPlan[e.job] < plan.next
    <3>1. lastPlan[e.job] \in Nat /\ lastPlan[e.job] <= now
      BY <1>1 DEF AheadInv
    <3> QED
      BY <1>1, <2>1, <2>2, <3>1, NextIsAhead
  <2>4. after = [jobPlanTable EXCEPT ![e.job] = plan]
    BY <1>1, <1>2 DEF Sched!PlanAfter
  <2> HIDE DEF plan, after
  <2>5. \A j \in Job : after[j] = IF j = e.job THEN plan ELSE jobPlanTable[j]
    BY <1>1, <2>4 DEF PlanTable
  <2>6. PlansAhead(after, lastPlan)
    BY <2>3, <2>5 DEF AheadInv, PlansAhead
  <2> QED
    BY <2>6 DEF after
<1>3. CASE e.type = "delete"
  <2>1. \A j \in Job : after[j] \in {NoJob, jobPlanTable[j]}
    BY <1>1, <1>3 DEF Sched!PlanAfter, PlanTable
  <2> QED
    BY <2>1 DEF AheadInv, PlansAhead
<1>4. CASE e.type = "kill" \/ (e.type = "save" /\ e.val = BadExpr)
  <2>1. after = jobPlanTable
    BY <1>1, <1>4 DEF Sched!PlanAfter
  <2> QED
    BY <2>1 DEF AheadInv
<1> QED
  BY <1>1, <1>2, <1>3, <1>4

\* What an iteration starts was planned, and what it plans lies ahead.
LEMMA AheadIteration ==
    ASSUME AheadInv, Recurs, UNCHANGED now,
           NEW plan \in PlanTable, PlansAhead(plan, lastPlan), NEW executing, NEW C,
           \A j \in Job : executing[j] \in {NoJob, jobExecutingTable[j]},
           Sched!TrySchedule(plan, executing, C)
    PROVE  AheadInv' /\ Starts
<1> DEFINE started == Sched!Started(plan, executing)
<1>1. /\ now \in Nat /\ lastPlan \in [Job -> Nat] /\ \A j \in Job : lastPlan[j] <= now
      /\ jobPlanTable' = Sched!Replan(plan)
  BY NodeAssumption DEF AheadInv, Sched!TrySchedule
<1>2. /\ jobExecutingTable' = [j \in Job |-> IF j \in started THEN Sched!BuildJobExecuteInfo(plan, j)
                                             ELSE executing[j]]
      /\ lastPlan' = [j \in Job |-> IF j \in started THEN plan[j].next ELSE lastPlan[j]]
  BY DEF Sched!TrySchedule
<1>3. \A j \in Job : Sched!BuildJobExecuteInfo(plan, j).plan = plan[j].next
  BY DEF Sched!BuildJobExecuteInfo
<1>4. \A j \in started : /\ j \in Sched!Due(plan) /\ j \in Job /\ plan[j] # NoJob
                         /\ plan[j].next <= now /\ plan[j].next \in Nat
                         /\ lastPlan[j] < plan[j].next /\ plan[j].next \in plan[j].expr
  BY DEF Sched!Started, Sched!Due, PlansAhead, PlanTable, Sched!Plan
<1> HIDE DEF started
<1>5. lastPlan' \in [Job -> Nat] /\ \A j \in Job : lastPlan'[j] <= now
  BY <1>1, <1>2, <1>4
<1>6. ASSUME NEW j \in Job, jobPlanTable'[j] # NoJob
      PROVE  jobPlanTable'[j].next \in jobPlanTable'[j].expr /\ lastPlan'[j] < jobPlanTable'[j].next
  <2>1. plan[j] # NoJob /\ jobPlanTable'[j].expr = plan[j].expr
    BY <1>1, <1>6, ReplanKeeps
  <2>2. plan[j].expr \in Expr
    BY <2>1 DEF PlanTable, Sched!Plan
  <2>3. CASE j \in Sched!Due(plan)
    <3>1. jobPlanTable'[j].next = Sched!NextMatch(plan[j].expr, now)
      BY <1>1, <2>3, ReplanKeeps
    <3>2. lastPlan'[j] \in Nat /\ lastPlan'[j] <= now
      BY <1>5
    <3> QED
      BY <1>1, <2>1, <2>2, <3>1, <3>2, NextIsAhead
  <2>4. CASE j \notin Sched!Due(plan)
    <3>1. jobPlanTable'[j] = plan[j] /\ lastPlan'[j] = lastPlan[j]
      BY <1>1, <1>2, <1>4, <2>4, ReplanKeeps
    <3> QED
      BY <2>1, <3>1 DEF PlansAhead
  <2> QED
    BY <2>3, <2>4
<1>7. AheadInv'
  <2>1. jobExecutingTable' = [j \in Job |-> jobExecutingTable'[j]]
    BY <1>2
  <2> QED
    BY <1>5, <1>6, <2>1 DEF AheadInv, PlansAhead
<1>8. \A j \in started : jobPlanTable'[j].expr = plan[j].expr
  BY <1>1, <1>4, ReplanKeeps
<1>9. ASSUME NEW j \in Job, jobExecutingTable'[j] \notin {NoJob, jobExecutingTable[j]}
      PROVE  j \in started /\ jobExecutingTable'[j].plan = plan[j].next
  BY <1>2, <1>3, <1>9
<1> QED
  BY <1>4, <1>7, <1>8, <1>9 DEF Starts

LEMMA AheadSteps ==
    ASSUME Recurs
    PROVE  SyncInv /\ Link /\ PlanInv /\ AheadInv /\ [NodeNext]_allVars => AheadInv' /\ Starts
<1> SUFFICES ASSUME SyncInv, Link, PlanInv, AheadInv, [NodeNext]_allVars PROVE AheadInv' /\ Starts
  OBVIOUS
<1>1. ASSUME UNCHANGED <<jobPlanTable, jobExecutingTable, lastPlan>>, now' \in 1..MaxTime, now <= now'
      PROVE  AheadInv' /\ Starts
  <2>1. \A j \in Job : lastPlan[j] <= now'
    <3>1. now \in Nat /\ now' \in Nat /\ \A j \in Job : lastPlan[j] \in Nat /\ lastPlan[j] <= now
      BY <1>1, NodeAssumption DEF AheadInv
    <3> QED
      BY <1>1, <3>1
  <2> QED
    BY <1>1, <2>1 DEF AheadInv, PlansAhead, Starts
<1>2. now \in 1..MaxTime /\ now <= now /\ MaxTime \in Nat
  BY NodeAssumption DEF AheadInv
<1>3. CASE NodeMasters \/ UNCHANGED allVars
  BY <1>1, <1>2, <1>3 DEF NodeMasters, allVars, schedVars
<1>4. CASE NodeStart \/ NodeCrash
  <2>1. /\ jobPlanTable' = [j \in Job |-> NoJob] /\ jobExecutingTable' = [j \in Job |-> NoJob]
        /\ UNCHANGED <<now, lastPlan>>
    BY <1>4 DEF NodeStart, NodeCrash, InitScheduler
  <2> QED
    BY <2>1 DEF AheadInv, PlansAhead, Starts
<1>5. CASE Fed
  <2>1. UNCHANGED <<jobPlanTable, jobExecutingTable, lastPlan, now>>
    BY <1>5 DEF Fed, schedVars, Sched!PushJobEvent, Sched!tables
  <2> QED
    BY <1>1, <1>2, <2>1
<1>6. CASE NodeHandleEvent
  <2> DEFINE e == Head(jobEventChan)
             after == Sched!PlanAfter(JobEvent(e))
  <2>1. /\ e \in Event /\ e = jobEventChan[1] /\ 1 \in 1..Len(jobEventChan)
        /\ eventChan # <<>> /\ UNCHANGED now
    BY <1>6, HeadTail DEF NodeHandleEvent, HandleJobEvent, Sched!HandleEvent, SyncInv, TypeOK
  <2>2. Head(eventChan) = JobEvent(e)
    BY <2>1, HeadTail DEF Link
  <2>3. Sched!TrySchedule(after, jobExecutingTable, scheduleTimer.C)
    BY <1>6, <2>2 DEF NodeHandleEvent, Sched!HandleEvent
  <2>4. after \in PlanTable /\ PlansAhead(after, lastPlan)
    BY <2>1, PlanAfterFollows, PlanAfterAhead
  <2> HIDE DEF after
  <2> QED
    BY <2>1, <2>3, <2>4, AheadIteration
<1>7. jobPlanTable \in PlanTable /\ PlansAhead(jobPlanTable, lastPlan)
  BY DEF PlanInv, AheadInv
<1>8. CASE Own(Sched!HandleTimer)
  <2>1. Sched!TrySchedule(jobPlanTable, jobExecutingTable, FALSE) /\ UNCHANGED now
    BY <1>8 DEF Own, Sched!HandleTimer
  <2> QED
    BY <1>7, <2>1, AheadIteration
<1>9. CASE Own(Sched!HandleResult)
  <2> DEFINE executing == [jobExecutingTable EXCEPT ![Head(jobExecuteResultChan).info.job] = NoJob]
  <2>1. Sched!TrySchedule(jobPlanTable, executing, scheduleTimer.C) /\ UNCHANGED now
    BY <1>9 DEF Own, Sched!HandleResult
  <2>2. \A j \in Job : executing[j] \in {NoJob, jobExecutingTable[j]}
    BY DEF AheadInv
  <2> HIDE DEF executing
  <2> QED
    BY <1>7, <2>1, <2>2, AheadIteration
<1>10. CASE Own(Sched!TimerExpires) \/ (\E x \in running : Own(Sched!PushJobResult(x)))
  <2>1. UNCHANGED <<jobPlanTable, jobExecutingTable, lastPlan, now>>
    BY <1>10 DEF Own, Sched!TimerExpires, Sched!PushJobResult, Sched!tables
  <2> QED
    BY <1>1, <1>2, <2>1
<1>11. CASE Tick
  <2>1. UNCHANGED <<jobPlanTable, jobExecutingTable, lastPlan>> /\ now < MaxTime /\ now' = now + 1
    BY <1>11 DEF Tick, Sched!Clock, Sched!tables
  <2>2. now' \in 1..MaxTime /\ now <= now'
    BY <1>2, <2>1
  <2> QED
    BY <1>1, <2>1, <2>2
<1> QED
  BY <1>3, <1>4, <1>5, <1>6, <1>8, <1>9, <1>10, <1>11
  DEF NodeNext, NodeInitJobMgr, NodeWatchJobs, NodeWatchKillerStart, NodeWatchKiller, NodeWatchEnds

\* Across crashes and restarts (Protocol.go:211), as long as expressions recur:
\* an execution is started only for an instant that has come, that the job's
\* expression matches, and that is later than all those the job was executed
\* for by any earlier process of this worker.
THEOREM StartsOnMatchTheorem ==
    ASSUME Recurs PROVE NodeSpec => StartsOnMatch
<1>1. NodeInit => AheadInv
  BY NodeAssumption DEF NodeInit, Sched!Init, AheadInv, PlansAhead, Sched!Zero
<1>2. SyncInv /\ Link /\ PlanInv /\ AheadInv /\ [NodeNext]_allVars => AheadInv' /\ Starts
  BY AheadSteps
<1> QED
  BY <1>1, <1>2, NodePlans, NodeSync, PTL DEF NodeSpec, StartsOnMatch, Sched!StartsOnMatch, Starts
=============================================================================
