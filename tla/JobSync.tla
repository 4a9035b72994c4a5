------------------------------ MODULE JobSync ------------------------------
(***************************************************************************)
(* How the jobs that a master saves in etcd reach the scheduler of a       *)
(* worker: the operations of the master's JobMgr, the directories          *)
(* /cron/jobs/ and /cron/killer/ of etcd, and the JobMgr of one worker,    *)
(* which reads the first once and then watches both. Workers do not meet   *)
(* here, so one of them is enough; masters meet in etcd, where their       *)
(* requests are atomic.                                                    *)
(*                                                                         *)
(* etcd is the history of its modifications: the event at index r is what  *)
(* revision r did. A job is its definition only: what is saved under a     *)
(* name is a member of Val, or Garbage when it does not decode.            *)
(***************************************************************************)
EXTENDS Naturals, Sequences, FiniteSetsExt

CONSTANTS Job,        \* job names
          Val,        \* job definitions that decode
          Garbage,    \* a value that does not decode, put by another client of etcd
          NoJob,      \* there is no such job
          MaxRev,     \* bound: the last revision of etcd
          EventCap    \* capacity of the scheduler's jobEventChan (1000 in the code)

ASSUME SyncAssumption ==
    /\ MaxRev \in Nat /\ EventCap \in Nat \ {0}
    /\ Garbage \notin Val /\ NoJob \notin Val /\ NoJob # Garbage

Rev == 1..MaxRev

\* What a revision did: to a job's key or, with kill and expire, to its killer key.
Change == [type : {"put"}, job : Job, val : Val \cup {Garbage}]
             \cup [type : {"delete", "kill", "expire"}, job : Job]

\* JobEvent, with the revision it stands for.
Event == [type : {"save"}, job : Job, val : Val, rev : Rev]
            \cup [type : {"delete", "kill"}, job : Job, rev : Rev]

VARIABLES
    hist,         \* what etcd went through
    killCall,     \* jobs for which KillJob has its lease and not yet put its key
    killKey,      \* jobs with a killer key in etcd
    state,        \* how far the worker's InitJobMgr is
    snapshot,     \* jobs of the Get whose events are still to be pushed
    jobRev,       \* the revision of the Get, then the next one the watch of /cron/jobs/ asks for
    killRev,      \* ... and that of /cron/killer/; 0 before there is a watch
    jobEventChan, \* queue of JobEvents
    jobs,         \* what the scheduler was last told of each job
    handled       \* history: the revision of the last event the scheduler handled of each job

etcd == <<hist, killCall, killKey>>
worker == <<state, snapshot, jobRev, killRev, jobEventChan, jobs, handled>>
vars == <<etcd, worker>>

\* The position of a watch that has ended.
Ended == MaxRev + 2

\* "load": the Get has returned; "watch": InitJobMgr is done; "deaf": it is done
\* too, but its Get failed, or its watch has ended.
State == {"down", "init", "load", "watch", "deaf"}

TypeOK == /\ hist \in Seq(Change) /\ Len(hist) <= MaxRev
          /\ killCall \in SUBSET Job /\ killKey \in SUBSET Job
          /\ state \in State
          /\ snapshot \in SUBSET Job
          /\ jobRev \in 0..(MaxRev + 1) /\ killRev \in 0..(MaxRev + 1) \cup {Ended}
          /\ jobEventChan \in Seq(Event) /\ Len(jobEventChan) <= EventCap
          /\ jobs \in [Job -> Val \cup {NoJob}]
          /\ handled \in [Job -> 0..MaxRev]

Init == /\ hist = <<>> /\ killCall = {} /\ killKey = {}
        /\ state = "down" /\ snapshot = {} /\ jobRev = 0 /\ killRev = 0
        /\ jobEventChan = <<>>
        /\ jobs = [j \in Job |-> NoJob]
        /\ handled = [j \in Job |-> 0]

-----------------------------------------------------------------------------
(* etcd and the masters                                                    *)

\* What the two directories go through.
JobChange == {"put", "delete"}
KillChange == {"kill", "expire"}

\* The revision that last modified job j's key, up to revision r; 0 for none.
ModRev(j, r) == LET mods == {i \in 1..r : hist[i].type \in JobChange /\ hist[i].job = j}
                IN  IF mods = {} THEN 0 ELSE Max(mods)

\* Job j's value at revision r.
ValueAt(j, r) == LET m == ModRev(j, r)
                 IN  IF m = 0 \/ hist[m].type = "delete" THEN NoJob ELSE hist[m].val

Stored(j) == ValueAt(j, Len(hist))

Modify(change) == Len(hist) < MaxRev /\ hist' = Append(hist, change)

\* SaveJob: a Put, whether there was such a job or not.
SaveJob(j, v) == /\ Modify([type |-> "put", job |-> j, val |-> v])
                 /\ UNCHANGED <<killCall, killKey, worker>>

\* Another client of etcd puts what is no job.
ForeignPut(j) == /\ Modify([type |-> "put", job |-> j, val |-> Garbage])
                 /\ UNCHANGED <<killCall, killKey, worker>>

\* DeleteJob: to delete a job that does not exist modifies nothing.
DeleteJob(j) == /\ Stored(j) # NoJob
                /\ Modify([type |-> "delete", job |-> j])
                /\ UNCHANGED <<killCall, killKey, worker>>

\* KillJob: a lease of a second is granted ...
KillJobGrant(j) == /\ j \notin killCall
                   /\ killCall' = killCall \cup {j}
                   /\ UNCHANGED <<hist, killKey, worker>>

\* ... and the killer key is put with it. A key that is there already changes
\* over to the new lease.
KillJobPut(j) == /\ j \in killCall
                 /\ Modify([type |-> "kill", job |-> j])
                 /\ killCall' = killCall \ {j}
                 /\ killKey' = killKey \cup {j}
                 /\ UNCHANGED worker

\* The lease expires before the Put, which then fails: KillJob returns an error.
KillJobFails(j) == /\ j \in killCall
                   /\ killCall' = killCall \ {j}
                   /\ UNCHANGED <<hist, killKey, worker>>

\* The lease expires after the Put, and etcd deletes the key.
KillerExpires(j) == /\ j \in killKey
                    /\ Modify([type |-> "expire", job |-> j])
                    /\ killKey' = killKey \ {j}
                    /\ UNCHANGED <<killCall, worker>>

-----------------------------------------------------------------------------
(* the worker                                                              *)

Start == /\ state = "down"
         /\ state' = "init"
         /\ UNCHANGED <<etcd, snapshot, jobRev, killRev, jobEventChan, jobs, handled>>

\* Nothing of a worker outlives its process.
Crash == /\ state # "down"
         /\ state' = "down" /\ snapshot' = {}
         /\ jobRev' = 0 /\ killRev' = 0
         /\ jobEventChan' = <<>>
         /\ jobs' = [j \in Job |-> NoJob]
         /\ handled' = [j \in Job |-> 0]
         /\ UNCHANGED etcd

\* watchJobs: the Get of all jobs. One that does not decode is passed over.
GetJobs == /\ state = "init"
           /\ state' = "load"
           /\ snapshot' = {j \in Job : Stored(j) \in Val}
           /\ jobRev' = Len(hist)
           /\ UNCHANGED <<etcd, killRev, jobEventChan, jobs, handled>>

\* The Get fails. watchJobs returns before it watches, and InitJobMgr goes on.
GetJobsFails == /\ state = "init"
                /\ state' = "deaf"
                /\ UNCHANGED <<etcd, snapshot, jobRev, killRev, jobEventChan, jobs, handled>>

\* A wrong push: events are queued beyond the capacity.
PushJobEventUnbounded(event) == jobEventChan' = Append(jobEventChan, event)

\* PushJobEvent blocks while the queue is full.
PushJobEvent(event) == /\ Len(jobEventChan) < EventCap
                       /\ jobEventChan' = Append(jobEventChan, event)

\* UnpackJob fails on what does not decode.
Unpacks(change) == change.type = "put" => change.val # Garbage

\* The event of a modification of a job.
JobEventOf(rev) ==
    IF hist[rev].type = "put"
    THEN [type |-> "save", job |-> hist[rev].job, val |-> hist[rev].val, rev |-> rev]
    ELSE [type |-> "delete", job |-> hist[rev].job, rev |-> rev]

\* watchJobs pushes the jobs of the Get, one by one, as they were then. (The
\* code's order is that of their names, which matters to nobody.)
PushSnapshot(j) ==
    /\ state = "load" /\ j \in snapshot
    /\ PushJobEvent(JobEventOf(ModRev(j, jobRev)))
    /\ snapshot' = snapshot \ {j}
    /\ UNCHANGED <<etcd, state, jobRev, killRev, jobs, handled>>

\* A wrong watchJobs: the watch starts at the Get's revision.
WatchStartSame == IF jobRev = 0 THEN 1 ELSE jobRev

\* watchStartRevision: the one after the Get's.
WatchStart == jobRev + 1

\* watchJobs returns, its goroutine started.
SnapshotDone == /\ state = "load" /\ snapshot = {}
                /\ state' = "watch"
                /\ jobRev' = WatchStart
                /\ UNCHANGED <<etcd, snapshot, killRev, jobEventChan, jobs, handled>>

\* The modifications that a watch from revision r still has to bring.
Ahead(r, types) == {i \in r..Len(hist) : hist[i].type \in types}

\* A wrong goroutine: what finds the queue full is dropped.
PushChangeDrops(rev) ==
    \/ ~Unpacks(hist[rev]) /\ UNCHANGED jobEventChan
    \/ Unpacks(hist[rev]) /\ PushJobEvent(JobEventOf(rev))
    \/ Len(jobEventChan) = EventCap /\ UNCHANGED jobEventChan

\* A wrong goroutine: it stops at a value that does not decode.
PushChangeStops(rev) == Unpacks(hist[rev]) /\ PushJobEvent(JobEventOf(rev))

\* A wrong goroutine: a deleted key is passed over, as an expired killer key is.
PushChangeNoDelete(rev) ==
    \/ ~Unpacks(hist[rev]) /\ UNCHANGED jobEventChan
    \/ hist[rev].type = "delete" /\ UNCHANGED jobEventChan
    \/ hist[rev].type = "put" /\ Unpacks(hist[rev]) /\ PushJobEvent(JobEventOf(rev))

\* A modification of a job becomes an event; a value that does not decode is
\* passed over.
PushChange(rev) ==
    \/ ~Unpacks(hist[rev]) /\ UNCHANGED jobEventChan
    \/ Unpacks(hist[rev]) /\ PushJobEvent(JobEventOf(rev))

\* The goroutine of watchJobs handles the next modification.
WatchJobs ==
    /\ state = "watch"
    /\ Ahead(jobRev, JobChange) # {}
    /\ LET rev == Min(Ahead(jobRev, JobChange))
       IN  PushChange(rev) /\ jobRev' = rev + 1
    /\ UNCHANGED <<etcd, state, snapshot, killRev, jobs, handled>>

\* etcd has compacted a revision that the watch still has to bring: the channel
\* is closed, the loop over it ends, and the goroutine with it.
JobsWatchEnds ==
    /\ state = "watch"
    /\ jobRev < Len(hist)
    /\ state' = "deaf"
    /\ UNCHANGED <<etcd, snapshot, jobRev, killRev, jobEventChan, jobs, handled>>

\* A wrong watch: it starts with the kills that etcd still knows of.
WatchKillerStartEarly ==
    /\ state \in {"watch", "deaf"} /\ killRev = 0
    /\ killRev' = 1
    /\ UNCHANGED <<etcd, state, snapshot, jobRev, jobEventChan, jobs, handled>>

\* watchKiller: its goroutine's watch names no revision, so that it starts at
\* the one etcd has when it creates the watch.
WatchKillerStart == /\ state \in {"watch", "deaf"} /\ killRev = 0
                    /\ killRev' = Len(hist) + 1
                    /\ UNCHANGED <<etcd, state, snapshot, jobRev, jobEventChan, jobs, handled>>

KillEventOf(rev) == [type |-> "kill", job |-> hist[rev].job, rev |-> rev]

\* A wrong goroutine: it stops at the expiry of a killer key.
PushKillStops(rev) == hist[rev].type = "kill" /\ PushJobEvent(KillEventOf(rev))

\* A killer key that was put becomes an event, one that expired does not.
PushKill(rev) ==
    \/ hist[rev].type = "expire" /\ UNCHANGED jobEventChan
    \/ hist[rev].type = "kill" /\ PushJobEvent(KillEventOf(rev))

\* The goroutine of watchKiller handles the next modification.
WatchKiller ==
    /\ killRev # 0
    /\ Ahead(killRev, KillChange) # {}
    /\ LET rev == Min(Ahead(killRev, KillChange))
       IN  PushKill(rev) /\ killRev' = rev + 1
    /\ UNCHANGED <<etcd, state, snapshot, jobRev, jobs, handled>>

\* The watch of the killer keys ends likewise.
KillerWatchEnds ==
    /\ killRev # 0 /\ killRev < Len(hist)
    /\ killRev' = Ended
    /\ UNCHANGED <<etcd, state, snapshot, jobRev, jobEventChan, jobs, handled>>

\* The scheduler's loop receives an event and handles it. What it was told is
\* kept whether or not its expression parses; what handleJobEvent makes of it,
\* which ignores one that does not, is in Scheduler and WorkerNode.
HandleJobEvent ==
    /\ jobEventChan # <<>>
    /\ LET event == Head(jobEventChan)
       IN  /\ jobs' = CASE event.type = "save" -> [jobs EXCEPT ![event.job] = event.val]
                        [] event.type = "delete" -> [jobs EXCEPT ![event.job] = NoJob]
                        [] event.type = "kill" -> jobs
           /\ handled' = IF event.type = "kill" THEN handled
                         ELSE [handled EXCEPT ![event.job] = event.rev]
    /\ jobEventChan' = Tail(jobEventChan)
    /\ UNCHANGED <<etcd, state, snapshot, jobRev, killRev>>

-----------------------------------------------------------------------------
Masters == \E j \in Job :
              \/ \E v \in Val : SaveJob(j, v)
              \/ ForeignPut(j)
              \/ DeleteJob(j)
              \/ KillJobGrant(j) \/ KillJobPut(j) \/ KillJobFails(j) \/ KillerExpires(j)

InitJobMgr == \/ GetJobs \/ GetJobsFails
              \/ \E j \in Job : PushSnapshot(j)
              \/ SnapshotDone

Next == \/ Masters
        \/ Start \/ Crash
        \/ InitJobMgr
        \/ WatchJobs \/ JobsWatchEnds
        \/ WatchKillerStart \/ WatchKiller \/ KillerWatchEnds
        \/ HandleJobEvent

Spec == Init /\ [][Next]_vars

\* The goroutines of a live worker run, and etcd delivers what is watched. The
\* two that push wait for room in the queue in turn, as the senders of a Go
\* channel do, so that neither starves.
\* Nothing is assumed of the masters, nor that a worker starts or stays up.
Fairness == /\ WF_vars(InitJobMgr) /\ WF_vars(HandleJobEvent)
            /\ SF_vars(WatchJobs) /\ SF_vars(WatchKiller) /\ WF_vars(WatchKillerStart)

FairSpec == Spec /\ Fairness

-----------------------------------------------------------------------------
(* properties                                                              *)

JobEvents == {i \in 1..Len(jobEventChan) : jobEventChan[i].type # "kill"}

\* Get and watch fit together: once the scheduler has no event of a job left to
\* handle, its job is etcd's as of the last revision that the watch has
\* brought. No modification falls between the Get and the watch, is overtaken
\* by another, or is lost to a full queue.
Replica ==
    state = "watch" =>
       \A j \in Job : (\A i \in JobEvents : jobEventChan[i].job # j) =>
                         ValueAt(j, jobRev - 1) \in {jobs[j], Garbage}

\* An event is handled once, and those of a job in the order of their
\* revisions: a job that was deleted or changed does not come back as it was.
InOrder ==
    \A i \in JobEvents :
       LET event == jobEventChan[i]
       IN  /\ handled[event.job] < event.rev
           /\ \A k \in JobEvents : i < k /\ jobEventChan[k].job = event.job =>
                                      event.rev < jobEventChan[k].rev

\* The worker is past revision r: it has no event of r or before left to handle.
PastJobRev(r) == jobRev > r /\ \A i \in JobEvents : jobEventChan[i].rev > r
PastKillRev(r) == killRev > r /\ \A i \in 1..Len(jobEventChan) :
                                    jobEventChan[i].type = "kill" => jobEventChan[i].rev > r

IsRevision(r, types) == r <= Len(hist) /\ hist[r].type \in types

\* A worker whose Get succeeded comes to know every modification of a job,
\* unless it crashes, or etcd ends its watch, first.
JobsArrive ==
    \A r \in Rev : (state = "watch" /\ IsRevision(r, JobChange)) ~>
                      (PastJobRev(r) \/ state \in {"deaf", "down"})

\* A kill that is put while the worker watches is handled, unless the worker
\* crashes or etcd ends the watch, even if the killer key has expired by then
\* (master/JobMgr.go:194).
KillsArrive ==
    \A r \in Rev : (killRev \in 1..r /\ IsRevision(r, {"kill"})) ~>
                      (PastKillRev(r) \/ state = "down")

\* "the worker watches the jobs of etcd and syncs them to memory"
\* (worker/JobMgr.go:20): every worker that is up and stays so does.
EveryWorkerSyncs ==
    \A r \in Rev : (state # "down" /\ IsRevision(r, JobChange)) ~>
                      (PastJobRev(r) \/ state = "down")
=============================================================================
