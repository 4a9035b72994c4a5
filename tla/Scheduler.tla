----------------------------- MODULE Scheduler -----------------------------
(***************************************************************************)
(* The scheduler of one worker: the goroutine scheduleLoop with its tables *)
(* of plans and of executing jobs, its timer and its two queues, the       *)
(* executions it starts and the job manager that feeds it.                 *)
(*                                                                         *)
(* Time is counted in seconds, the grain of a cron expression; 0 is Go's   *)
(* zero time.Time, which lies before every instant of the clock. A cron    *)
(* expression is the set of the instants it matches. Every iteration of    *)
(* the loop is one action: the case it selected, then TrySchedule, then    *)
(* the timer's Reset. The clock may advance between any two of them.       *)
(***************************************************************************)
EXTENDS Naturals, Sequences, FiniteSetsExt

CONSTANTS Job,        \* job names
          Expr,       \* cron expressions
          BadExpr,    \* a string that is not a cron expression
          NoJob,      \* a job that is not in a table
          MaxTime,    \* bound: the last instant of the clock
          EventCap,   \* capacity of jobEventChan (1000 in the code)
          ResultCap   \* capacity of jobExecuteResultChan (1000 in the code)

Zero == 0

\* JobSchedulePlan, JobExecuteInfo, JobExecuteResult and JobEvent. Of a result,
\* only whether the lock was occupied matters.
Plan == [expr : Expr, next : Nat]
Exec == [job : Job, plan : Nat, real : Nat]
Result == [info : Exec, occupied : BOOLEAN]
Event == [type : {"save"}, job : Job, expr : Expr \cup {BadExpr}]
            \cup [type : {"delete", "kill"}, job : Job]

ASSUME SchedulerAssumption ==
    /\ MaxTime \in Nat \ {0} /\ EventCap \in Nat \ {0} /\ ResultCap \in Nat \ {0}
    /\ \A e \in Expr : e \subseteq Nat \ {Zero}
    /\ BadExpr \notin Expr
    /\ NoJob \notin Expr \cup {BadExpr}

\* NoJob is not a table entry.
ASSUME NoJobAssumption == NoJob \notin Plan /\ NoJob \notin Exec

VARIABLES
    now,                  \* the clock
    jobPlanTable,         \* the plan of each job, or NoJob
    jobExecutingTable,    \* the execution of each job, or NoJob
    jobEventChan,         \* queue of JobEvents
    jobExecuteResultChan, \* queue of JobExecuteResults
    scheduleTimer,        \* whether it is armed, for when, and a value in its channel C
    running,              \* executions whose goroutine has not pushed its result
    cancelled,            \* executions whose CancelFunc was called
    jobLog,               \* the log that the last iteration gave to LogSink.Append
    jobs,                 \* the job manager's view of etcd: what it has pushed
    lastPlan              \* history: the planned time of each job's last execution

tables == <<jobPlanTable, jobExecutingTable>>
queues == <<jobEventChan, jobExecuteResultChan>>
vars == <<now, tables, queues, scheduleTimer, running, cancelled, jobLog, jobs, lastPlan>>

TypeOK == /\ now \in 1..MaxTime
          /\ jobPlanTable \in [Job -> Plan \cup {NoJob}]
          /\ jobExecutingTable \in [Job -> Exec \cup {NoJob}]
          /\ jobEventChan \in Seq(Event) /\ Len(jobEventChan) <= EventCap
          /\ jobExecuteResultChan \in Seq(Result) /\ Len(jobExecuteResultChan) <= ResultCap
          /\ scheduleTimer \in [armed : BOOLEAN, at : Nat, C : BOOLEAN]
          /\ running \in SUBSET Exec
          /\ cancelled \in SUBSET Exec
          /\ jobLog \in Exec \cup {NoJob}
          /\ jobs \in [Job -> Expr \cup {BadExpr, NoJob}]
          /\ lastPlan \in [Job -> Nat]

\* InitScheduler: no job yet, and the timer set to one second.
Init == /\ now = 1
        /\ jobPlanTable = [j \in Job |-> NoJob]
        /\ jobExecutingTable = [j \in Job |-> NoJob]
        /\ jobEventChan = <<>> /\ jobExecuteResultChan = <<>>
        /\ scheduleTimer = [armed |-> TRUE, at |-> now + 1, C |-> FALSE]
        /\ running = {} /\ cancelled = {}
        /\ jobLog = NoJob
        /\ jobs = [j \in Job |-> NoJob]
        /\ lastPlan = [j \in Job |-> Zero]

-----------------------------------------------------------------------------
(* one iteration of the loop                                               *)

\* Expression.Next: the first match after t, or the zero time.
NextMatch(expr, t) == LET later == {m \in expr : m > t}
                      IN  IF later = {} THEN Zero ELSE Min(later)

\* A wrong plan: the current second counts.
BuildJobSchedulePlanNow(expr) == [expr |-> expr, next |-> NextMatch(expr, now - 1)]

\* BuildJobSchedulePlan of an expression that parses.
BuildJobSchedulePlan(expr) == [expr |-> expr, next |-> NextMatch(expr, now)]

\* The jobs whose time has come.
Due(plan) == {j \in Job : plan[j] # NoJob /\ plan[j].next <= now}

\* A wrong TryStartJob: jobExecutingTable is not consulted.
StartedAlways(plan, executing) == Due(plan)

\* TryStartJob starts a due job unless its last execution is still in
\* jobExecutingTable.
Started(plan, executing) == {j \in Due(plan) : executing[j] = NoJob}

BuildJobExecuteInfo(plan, j) == [job |-> j, plan |-> plan[j].next, real |-> now]

\* Every due job, started or not, is planned for its next match after now.
Replan(plan) == [j \in Job |-> IF j \in Due(plan)
                               THEN [plan[j] EXCEPT !.next = NextMatch(plan[j].expr, now)]
                               ELSE plan[j]]

\* A wrong comparison: the loop sleeps until the last planned time.
NearestLatest(plan) == LET planned == {j \in Job : plan[j] # NoJob}
                       IN  IF planned = {} THEN now + 1 ELSE Max({plan[j].next : j \in planned})

\* When to wake up: at the nearest planned time, or after a second when there
\* is no job.
Nearest(plan) == LET planned == {j \in Job : plan[j] # NoJob}
                 IN  IF planned = {} THEN now + 1 ELSE Min({plan[j].next : j \in planned})

\* A wrong loop: the timer is not reset.
TryScheduleNoReset(plan, executing, C) ==
    LET started == Started(plan, executing)
        info(j) == BuildJobExecuteInfo(plan, j)
    IN  /\ jobPlanTable' = Replan(plan)
        /\ jobExecutingTable' = [j \in Job |-> IF j \in started THEN info(j) ELSE executing[j]]
        /\ running' = running \cup {info(j) : j \in started}
        /\ lastPlan' = [j \in Job |-> IF j \in started THEN plan[j].next ELSE lastPlan[j]]
        /\ scheduleTimer' = [scheduleTimer EXCEPT !.C = C]

\* TrySchedule over the tables as the selected case left them, and the Reset of
\* the timer, which leaves a value in its channel where it is.
TrySchedule(plan, executing, C) ==
    LET started == Started(plan, executing)
        info(j) == BuildJobExecuteInfo(plan, j)
    IN  /\ jobPlanTable' = Replan(plan)
        /\ jobExecutingTable' = [j \in Job |-> IF j \in started THEN info(j) ELSE executing[j]]
        /\ running' = running \cup {info(j) : j \in started}
        /\ lastPlan' = [j \in Job |-> IF j \in started THEN plan[j].next ELSE lastPlan[j]]
        /\ scheduleTimer' = [armed |-> TRUE, at |-> Nearest(Replan(plan)), C |-> C]

\* A wrong handleJobEvent: a job that is planned already is not updated.
PlanAfterInsertOnly(event) ==
    CASE event.type = "save" ->
            IF event.expr = BadExpr \/ jobPlanTable[event.job] # NoJob THEN jobPlanTable
            ELSE [jobPlanTable EXCEPT ![event.job] = BuildJobSchedulePlan(event.expr)]
      [] event.type = "delete" -> [jobPlanTable EXCEPT ![event.job] = NoJob]
      [] event.type = "kill" -> jobPlanTable

\* A wrong handleJobEvent: a kill plans the job anew.
PlanAfterKillReplans(event) ==
    CASE event.type = "save" ->
            IF event.expr = BadExpr THEN jobPlanTable
            ELSE [jobPlanTable EXCEPT ![event.job] = BuildJobSchedulePlan(event.expr)]
      [] event.type = "delete" -> [jobPlanTable EXCEPT ![event.job] = NoJob]
      [] event.type = "kill" ->
            IF jobPlanTable[event.job] = NoJob THEN jobPlanTable
            ELSE [jobPlanTable EXCEPT ![event.job] = BuildJobSchedulePlan(@.expr)]

\* handleJobEvent: what an event does to the plans. A save whose expression
\* does not parse is ignored.
PlanAfter(event) ==
    CASE event.type = "save" ->
            IF event.expr = BadExpr THEN jobPlanTable
            ELSE [jobPlanTable EXCEPT ![event.job] = BuildJobSchedulePlan(event.expr)]
      [] event.type = "delete" -> [jobPlanTable EXCEPT ![event.job] = NoJob]
      [] event.type = "kill" -> jobPlanTable

\* A wrong handleJobEvent: it cancels nothing.
CancelledByNone(event) == {}

\* ... and to the executions: a kill cancels the job's execution, if any.
CancelledBy(event) == {x \in {jobExecutingTable[event.job]} : event.type = "kill" /\ x # NoJob}

HandleEvent ==
    /\ jobEventChan # <<>>
    /\ TrySchedule(PlanAfter(Head(jobEventChan)), jobExecutingTable, scheduleTimer.C)
    /\ cancelled' = cancelled \cup CancelledBy(Head(jobEventChan))
    /\ jobEventChan' = Tail(jobEventChan)
    /\ jobLog' = NoJob
    /\ UNCHANGED <<now, jobExecuteResultChan, jobs>>

\* The timer's case has no body of its own.
HandleTimer ==
    /\ scheduleTimer.C
    /\ TrySchedule(jobPlanTable, jobExecutingTable, FALSE)
    /\ jobLog' = NoJob
    /\ UNCHANGED <<now, queues, cancelled, jobs>>

\* handleJobResult removes the job, by its name, from jobExecutingTable, and
\* logs the execution unless the lock was occupied. The context of an execution
\* whose result was handled is garbage.
HandleResult ==
    /\ jobExecuteResultChan # <<>>
    /\ LET result == Head(jobExecuteResultChan)
       IN  /\ TrySchedule(jobPlanTable,
                          [jobExecutingTable EXCEPT ![result.info.job] = NoJob],
                          scheduleTimer.C)
           /\ cancelled' = cancelled \ {result.info}
           /\ jobLog' = IF result.occupied THEN NoJob ELSE result.info
    /\ jobExecuteResultChan' = Tail(jobExecuteResultChan)
    /\ UNCHANGED <<now, jobEventChan, jobs>>

-----------------------------------------------------------------------------
(* the loop's surroundings                                                 *)

\* A wrong push: events are queued beyond the capacity.
PushJobEventUnbounded(event) ==
    /\ Len(jobEventChan) <= EventCap
    /\ jobEventChan' = Append(jobEventChan, event)
    /\ UNCHANGED <<now, tables, jobExecuteResultChan, scheduleTimer, running, cancelled,
                   jobLog, jobs, lastPlan>>

\* PushJobEvent, called by the job manager for what it sees in etcd, blocks
\* while the queue is full.
PushJobEvent(event) ==
    /\ Len(jobEventChan) < EventCap
    /\ jobEventChan' = Append(jobEventChan, event)
    /\ jobs' = CASE event.type = "save" -> [jobs EXCEPT ![event.job] = event.expr]
                 [] event.type = "delete" -> [jobs EXCEPT ![event.job] = NoJob]
                 [] event.type = "kill" -> jobs
    /\ UNCHANGED <<now, tables, jobExecuteResultChan, scheduleTimer, running, cancelled,
                   jobLog, lastPlan>>

\* The goroutine of an execution ends with PushJobResult, which blocks while
\* the queue is full.
PushJobResult(x) ==
    /\ x \in running
    /\ Len(jobExecuteResultChan) < ResultCap
    /\ running' = running \ {x}
    /\ \E occupied \in BOOLEAN :
          jobExecuteResultChan' =
             Append(jobExecuteResultChan, [info |-> x, occupied |-> occupied])
    /\ UNCHANGED <<now, tables, jobEventChan, scheduleTimer, cancelled, jobLog, jobs, lastPlan>>

\* The timer expires: there is a value in its channel, which holds one.
TimerExpires ==
    /\ scheduleTimer.armed
    /\ scheduleTimer.at <= now
    /\ scheduleTimer' = [armed |-> FALSE, at |-> Zero, C |-> TRUE]
    /\ UNCHANGED <<now, tables, queues, running, cancelled, jobLog, jobs, lastPlan>>

Clock == /\ now < MaxTime
         /\ now' = now + 1
         /\ UNCHANGED <<tables, queues, scheduleTimer, running, cancelled, jobLog, jobs, lastPlan>>

-----------------------------------------------------------------------------
scheduleLoop == HandleEvent \/ HandleTimer \/ HandleResult

Next == \/ scheduleLoop
        \/ \E event \in Event : PushJobEvent(event)
        \/ \E x \in running : PushJobResult(x)
        \/ TimerExpires
        \/ Clock

Spec == Init /\ [][Next]_vars

-----------------------------------------------------------------------------
(* properties                                                              *)

Pushed == {jobExecuteResultChan[i].info : i \in 1..Len(jobExecuteResultChan)}

\* "jobExecutingTable prevents concurrency" (Scheduler.go:167): the goroutines
\* that execute a job and the results that are still in the queue are, one for
\* one, the entries of jobExecutingTable. A job is never executed twice at a
\* time by one worker, and no entry is left behind that would keep it from
\* ever being executed again.
SingleFlight ==
    /\ \A x \in running \cup Pushed : jobExecutingTable[x.job] = x
    /\ \A j \in Job : jobExecutingTable[j] # NoJob =>
          jobExecutingTable[j].job = j /\ jobExecutingTable[j] \in running \cup Pushed
    /\ running \cap Pushed = {}
    /\ \A i, k \in 1..Len(jobExecuteResultChan) :
          i # k => jobExecuteResultChan[i].info # jobExecuteResultChan[k].info

\* The loop never sleeps past a planned time: its timer is armed for no later
\* than the nearest one, or has expired.
NoOversleep ==
    \/ scheduleTimer.C
    \/ /\ scheduleTimer.armed
       /\ \A j \in Job : jobPlanTable[j] # NoJob => scheduleTimer.at <= jobPlanTable[j].next

\* "the tasks in memory are kept consistent with those in etcd"
\* (Scheduler.go:90): once the events are handled, every job of etcd whose
\* expression parses is planned by that expression, and no deleted job is
\* planned. (One saved with an expression that does not parse keeps its plan.)
PlanFollowsEtcd ==
    jobEventChan = <<>> =>
       \A j \in Job : /\ jobs[j] = NoJob => jobPlanTable[j] = NoJob
                      /\ jobs[j] \in Expr => jobPlanTable[j] # NoJob /\ jobPlanTable[j].expr = jobs[j]

\* An execution is started only for an instant that has come, that the job's
\* expression matches, and that is later than all those it was executed for,
\* before a restart too (Protocol.go:211).
StartsOnMatch ==
    [][\A j \in Job : jobExecutingTable'[j] \notin {NoJob, jobExecutingTable[j]} =>
          /\ jobExecutingTable'[j].plan \in jobPlanTable'[j].expr
          /\ lastPlan[j] < jobExecutingTable'[j].plan
          /\ jobExecutingTable'[j].plan <= now]_vars

\* No planned instant is passed over in silence: when a plan that is due is
\* replaced, the job is started for it, or was still executing, or the event at
\* hand saves or deletes that job. A save in the second in which the job is due
\* costs that execution (Scheduler.go:106); nothing else does.
TickAccounted ==
    [][\A j \in Due(jobPlanTable) : jobPlanTable'[j] # jobPlanTable[j] =>
          \/ jobExecutingTable[j] # NoJob
          \/ jobExecutingTable'[j] # NoJob /\ jobExecutingTable'[j].plan = jobPlanTable[j].next
          \/ /\ jobEventChan # <<>> /\ jobEventChan' = Tail(jobEventChan)
             /\ Head(jobEventChan).job = j /\ Head(jobEventChan).type # "kill"]_vars

\* A due job does not stay due: the loop wakes up, starts it or skips it, and
\* plans its next time.
DueHandled == \A j \in Job : j \in Due(jobPlanTable) ~> j \notin Due(jobPlanTable)
=============================================================================
