----------------------------- MODULE WorkerNode -----------------------------
(***************************************************************************)
(* A worker as a whole, from etcd to its executions: the job manager and   *)
(* its watches (JobSync) joined to the scheduler (Scheduler). They meet in *)
(* one queue, jobEventChan: what one pushes the other receives. A worker   *)
(* may crash at any moment, and be started again while etcd goes on and    *)
(* time passes.                                                            *)
(*                                                                         *)
(* What the job manager decodes is a job with some cron expression: Val is *)
(* the set of the expressions and of one string that is none. The queue    *)
(* is kept twice, as JobSync has it, with revisions, and as Scheduler has  *)
(* it, without. The variable jobs of JobSync, which stands for a scheduler *)
(* there, holds the jobs of the events that were handled.                  *)
(***************************************************************************)
EXTENDS JobSync

CONSTANTS BadExpr,    \* a string that is not a cron expression
          MaxTime,    \* bound: the last instant of the clock
          ResultCap,  \* capacity of jobExecuteResultChan (1000 in the code)
          Forking     \* executions <<job, planned time>> whose command goes on in
                      \* child processes: a kill does not reach them

Expr == Val \ {BadExpr}

VARIABLES
    now, jobPlanTable, jobExecutingTable, jobExecuteResultChan, scheduleTimer,
    running, cancelled, jobLog, lastPlan,  \* the scheduler, see Scheduler
    eventChan,    \* jobEventChan, as Scheduler has it
    pushed,       \* the jobs of the events that were pushed: jobs of Scheduler
    lastKill      \* history: the revision of the start, then of the last kill handled

Sched == INSTANCE Scheduler WITH jobEventChan <- eventChan, jobs <- pushed

ASSUME NodeAssumption ==
    /\ MaxTime \in Nat \ {0} /\ ResultCap \in Nat \ {0}
    /\ BadExpr \in Val /\ \A e \in Expr : e \subseteq Nat \ {Sched!Zero}
    /\ NoJob \notin Sched!Plan /\ NoJob \notin Sched!Exec
    /\ Forking \subseteq Job \X Nat

schedVars == <<now, jobPlanTable, jobExecutingTable, jobExecuteResultChan, scheduleTimer,
               running, cancelled, jobLog, lastPlan, eventChan, pushed>>
allVars == <<vars, schedVars, lastKill>>

NodeInit == Init /\ Sched!Init /\ lastKill = 0

-----------------------------------------------------------------------------
(* the queue between the two                                               *)

\* A JobEvent without its revision.
JobEvent(e) == IF e.type = "save" THEN [type |-> "save", job |-> e.job, expr |-> e.val]
               ELSE [type |-> e.type, job |-> e.job]

\* What the job manager pushed in this step, if anything, is the scheduler's.
Fed == /\ IF Len(jobEventChan') > Len(jobEventChan)
          THEN Sched!PushJobEvent(JobEvent(jobEventChan'[Len(jobEventChan')]))
          ELSE UNCHANGED schedVars
       /\ UNCHANGED lastKill

NodeMasters == Masters /\ UNCHANGED <<schedVars, lastKill>>

NodeInitJobMgr == InitJobMgr /\ Fed
NodeWatchJobs == WatchJobs /\ Fed
NodeWatchKillerStart == WatchKillerStart /\ Fed
NodeWatchKiller == WatchKiller /\ Fed
NodeWatchEnds == (JobsWatchEnds \/ KillerWatchEnds) /\ Fed

\* The loop receives an event.
NodeHandleEvent ==
    /\ HandleJobEvent /\ Sched!HandleEvent
    /\ lastKill' = IF Head(jobEventChan).type = "kill" THEN Head(jobEventChan).rev ELSE lastKill

-----------------------------------------------------------------------------
(* the rest of the scheduler                                               *)

Up == state # "down"
Own(action) == Up /\ action /\ UNCHANGED <<vars, lastKill>>

Tick == Sched!Clock /\ UNCHANGED <<vars, lastKill>>

\* The scheduler of a process that has just started, or that is no more.
InitScheduler(timer) ==
    /\ jobPlanTable' = [j \in Job |-> NoJob] /\ jobExecutingTable' = [j \in Job |-> NoJob]
    /\ eventChan' = <<>> /\ jobExecuteResultChan' = <<>>
    /\ running' = {} /\ cancelled' = {}
    /\ jobLog' = NoJob /\ pushed' = [j \in Job |-> NoJob]
    /\ scheduleTimer' = timer
    /\ UNCHANGED <<now, lastPlan>>

\* The process starts: InitScheduler, then InitJobMgr.
NodeStart == /\ Start
             /\ InitScheduler([armed |-> TRUE, at |-> now + 1, C |-> FALSE])
             /\ lastKill' = Len(hist)

\* Nothing of a worker outlives its process, its executions included.
NodeCrash == /\ Crash
             /\ InitScheduler([armed |-> FALSE, at |-> Sched!Zero, C |-> FALSE])
             /\ UNCHANGED lastKill

-----------------------------------------------------------------------------
NodeNext == \/ NodeMasters \/ NodeStart \/ NodeCrash
            \/ NodeInitJobMgr \/ NodeWatchJobs
            \/ NodeWatchKillerStart \/ NodeWatchKiller \/ NodeWatchEnds
            \/ NodeHandleEvent
            \/ Own(Sched!HandleTimer) \/ Own(Sched!HandleResult) \/ Own(Sched!TimerExpires)
            \/ \E x \in running : Own(Sched!PushJobResult(x))
            \/ Tick

NodeSpec == NodeInit /\ [][NodeNext]_allVars

\* The job manager as in JobSync. select chooses at random among the cases that
\* are ready, so that none of them is passed over for ever; timers expire; the
\* goroutine of a cancelled execution ends unless its command is Forking.
\* (exec.CommandContext kills bash alone, and CombinedOutput goes on waiting
\* for the children that hold its pipe.) Nothing is assumed of Forking
\* commands, of executions nobody killed, of the clock, of masters, or of
\* starts and crashes.
Killed == {x \in running \cap cancelled : <<x.job, x.plan>> \notin Forking}

NodeFairness ==
    /\ WF_allVars(NodeInitJobMgr) /\ WF_allVars(NodeWatchKillerStart)
    /\ SF_allVars(NodeWatchJobs) /\ SF_allVars(NodeWatchKiller)
    /\ WF_allVars(NodeHandleEvent)
    /\ WF_allVars(Own(Sched!HandleTimer)) /\ WF_allVars(Own(Sched!HandleResult))
    /\ WF_allVars(Own(Sched!TimerExpires))
    /\ WF_allVars(\E x \in Killed : Own(Sched!PushJobResult(x)))

FairNodeSpec == NodeSpec /\ NodeFairness

-----------------------------------------------------------------------------
(* properties                                                              *)

\* The worker has seen all that etcd has.
CaughtUp == state = "watch" /\ jobEventChan = <<>> /\ Ahead(jobRev, JobChange) = {}

\* From etcd to the plans: a worker that has caught up plans every stored job
\* whose expression parses, by that expression, and no job that is not stored,
\* whatever happened before and between its starts.
PlanIsStored ==
    CaughtUp => \A j \in Job :
       /\ Stored(j) = NoJob => jobPlanTable[j] = NoJob
       /\ Stored(j) \in Expr => jobPlanTable[j] # NoJob /\ jobPlanTable[j].expr = Stored(j)

\* A kill acts once in a process, and none that was put before its start does:
\* of the kills in the queue, each is later than the start, than those handled
\* and than those before it. So one kill never ends two executions of a worker,
\* although it ends whichever it finds.
KillActsOnce ==
    \A i \in 1..Len(jobEventChan) : jobEventChan[i].type = "kill" =>
       /\ lastKill < jobEventChan[i].rev
       /\ \A k \in (i + 1)..Len(jobEventChan) :
             jobEventChan[k].type = "kill" => jobEventChan[i].rev < jobEventChan[k].rev

ExecutesFor(j, t) == jobExecutingTable[j] # NoJob /\ jobExecutingTable[j].plan = t

\* A kill of job j is on its way to the worker.
KillComing(j) ==
    \/ \E i \in 1..Len(jobEventChan) : jobEventChan[i].type = "kill" /\ jobEventChan[i].job = j
    \/ killRev # 0 /\ \E i \in killRev..Len(hist) : hist[i].type = "kill" /\ hist[i].job = j

\* "make the workers kill the job that is executing" (ApiServer.go:209), as far
\* as the code does it: a kill that is put while the worker executes the job and
\* watches cancels that execution, and ends it, so that the job is free for the
\* next one, unless its command goes on in child processes (Executor.go:66-72).
\* Those keep the job in jobExecutingTable for as long as they like.
KillEndsRun ==
    \A j \in Job, t \in 1..MaxTime :
       (ExecutesFor(j, t) /\ KillComing(j)) ~>
          \/ ~ExecutesFor(j, t)
          \/ killRev = Ended
          \/ <<j, t>> \in Forking /\ jobExecutingTable[j] \in cancelled

\* Of the scheduler, across crashes and restarts (Protocol.go:211): an execution
\* is started only for an instant that its job's expression matches and that is
\* later than all those it was executed for, by whichever process.
StartsOnMatch == Sched!StartsOnMatch

\* ... and a due job does not stay due: the loop starts it or skips it
\* (Scheduler.go:144), or the process dies.
DueHandled == Sched!DueHandled
=============================================================================
