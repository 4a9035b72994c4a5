-------------------------- MODULE SchedulerProofs --------------------------
(***************************************************************************)
(* Proofs about Scheduler, for any jobs, cron expressions, bound of the    *)
(* clock and capacities of the queues.                                     *)
(***************************************************************************)
EXTENDS Scheduler, WellFoundedInduction, TLAPS

\* The least of a set of instants.
LEMMA MinNat ==
    ASSUME NEW S \in SUBSET Nat, S # {}
    PROVE  Min(S) \in S /\ \A y \in S : Min(S) <= y
<1> DEFINE R == OpToRel(<, Nat)
<1>1. \A x, y \in Nat : <<y, x>> \in R <=> y < x
  BY DEF OpToRel
<1>2. IsWellFoundedOn(R, Nat)
  BY NatLessThanWellFounded
<1> HIDE DEF R
<1>3. PICK x \in S : \A y \in S : ~(<<y, x>> \in R)
  BY <1>2, WFMin
<1>4. ASSUME NEW y \in S PROVE x <= y
  <2>1. x \in Nat /\ y \in Nat
    OBVIOUS
  <2>2. ~(y < x)
    BY <1>1, <1>3, <2>1
  <2> QED
    BY <2>1, <2>2
<1> QED
  BY <1>4 DEF Min

\* Expression.Next gives a match later than the instant asked for, or the zero
\* time when there is none.
LEMMA NextMatchFacts ==
    ASSUME NEW e \in Expr, NEW t \in Nat
    PROVE  /\ NextMatch(e, t) \in Nat
           /\ NextMatch(e, t) # Zero => NextMatch(e, t) \in e /\ NextMatch(e, t) > t
           /\ NextMatch(e, t) = Zero => \A m \in e : m <= t
<1> DEFINE later == {m \in e : m > t}
<1>1. e \subseteq Nat \ {Zero}
  BY SchedulerAssumption
<1>2. CASE later = {}
  BY <1>1, <1>2 DEF NextMatch, Zero
<1>3. CASE later # {}
  <2>1. later \subseteq Nat
    BY <1>1
  <2>2. NextMatch(e, t) = Min(later)
    BY <1>3 DEF NextMatch
  <2>3. Min(later) \in later
    BY <1>3, <2>1, MinNat
  <2> QED
    BY <1>1, <2>2, <2>3
<1> QED
  BY <1>2, <1>3

\* The fields of an event, which depend on its type.
LEMMA EventFields ==
    ASSUME NEW e \in Event
    PROVE  /\ e.type \in {"save", "delete", "kill"} /\ e.job \in Job
           /\ e.type = "save" => e.expr \in Expr \cup {BadExpr}
  BY DEF Event

-----------------------------------------------------------------------------
\* A table of plans stays one through the handling of an event and through
\* TrySchedule, which leaves no job due unless its expression has expired.
PlanTable == [Job -> Plan \cup {NoJob}]

LEMMA BuildPlanType ==
    ASSUME NEW e \in Expr, now \in Nat
    PROVE  BuildJobSchedulePlan(e) \in Plan
  BY NextMatchFacts DEF BuildJobSchedulePlan, Plan

LEMMA PlanAfterType ==
    ASSUME TypeOK, NEW e \in Event
    PROVE  PlanAfter(e) \in PlanTable
<1>1. e.job \in Job /\ jobPlanTable \in PlanTable /\ now \in Nat
  BY EventFields, SchedulerAssumption DEF TypeOK, PlanTable
<1>2. CASE e.type = "save" /\ e.expr # BadExpr
  <2>1. e.expr \in Expr
    BY <1>2, EventFields
  <2>2. PlanAfter(e) = [jobPlanTable EXCEPT ![e.job] = BuildJobSchedulePlan(e.expr)]
    BY <1>2 DEF PlanAfter
  <2> QED
    BY <1>1, <2>1, <2>2, BuildPlanType DEF PlanTable
<1>3. CASE e.type = "save" /\ e.expr = BadExpr
  BY <1>1, <1>3 DEF PlanAfter
<1>4. CASE e.type = "delete"
  BY <1>1, <1>4 DEF PlanAfter, PlanTable
<1>5. CASE e.type = "kill"
  BY <1>1, <1>5 DEF PlanAfter
<1> QED
  BY <1>2, <1>3, <1>4, <1>5, EventFields

LEMMA ReplanFacts ==
    ASSUME NEW plan \in PlanTable, now \in Nat
    PROVE  /\ Replan(plan) \in PlanTable
           /\ \A j \in Job : /\ Replan(plan)[j] = NoJob <=> plan[j] = NoJob
                             /\ plan[j] # NoJob => Replan(plan)[j].expr = plan[j].expr
                             /\ j \in Due(plan) => Replan(plan)[j].next = NextMatch(plan[j].expr, now)
                             /\ j \notin Due(plan) => Replan(plan)[j] = plan[j]
<1>1. ASSUME NEW j \in Job, plan[j] # NoJob
      PROVE  /\ plan[j] \in Plan /\ plan[j].expr \in Expr
             /\ [plan[j] EXCEPT !.next = NextMatch(plan[j].expr, now)] \in Plan
             /\ [plan[j] EXCEPT !.next = NextMatch(plan[j].expr, now)].expr = plan[j].expr
             /\ [plan[j] EXCEPT !.next = NextMatch(plan[j].expr, now)].next = NextMatch(plan[j].expr, now)
  <2>1. plan[j] \in Plan /\ plan[j].expr \in Expr
    BY <1>1 DEF PlanTable, Plan
  <2> QED
    BY <2>1, NextMatchFacts DEF Plan
<1>2. \A j \in Job : plan[j] \in Plan \cup {NoJob}
  BY DEF PlanTable
<1>3. \A j \in Job : Replan(plan)[j] = IF j \in Due(plan)
                         THEN [plan[j] EXCEPT !.next = NextMatch(plan[j].expr, now)] ELSE plan[j]
  BY DEF Replan
<1>4. \A j \in Job : Replan(plan)[j] \in Plan \cup {NoJob}
  BY <1>1, <1>2, <1>3 DEF Due
<1>5. Replan(plan) \in PlanTable
  BY <1>4 DEF Replan, PlanTable
<1> QED
  BY <1>1, <1>3, <1>5, NoJobAssumption DEF Due

\* The timer is set for no later than any planned time.
LEMMA NearestFacts ==
    ASSUME NEW plan \in PlanTable, now \in Nat
    PROVE  Nearest(plan) \in Nat /\ \A j \in Job : plan[j] # NoJob => Nearest(plan) <= plan[j].next
<1> DEFINE planned == {j \in Job : plan[j] # NoJob}
           times == {plan[j].next : j \in planned}
<1>1. \A j \in planned : plan[j].next \in Nat
  BY DEF PlanTable, Plan
<1>2. CASE planned = {}
  BY <1>2 DEF Nearest
<1>3. CASE planned # {}
  <2>1. times \in SUBSET Nat /\ times # {}
    BY <1>1, <1>3
  <2>2. Nearest(plan) = Min(times)
    BY <1>3 DEF Nearest
  <2> HIDE DEF times
  <2>3. Min(times) \in times /\ \A y \in times : Min(times) <= y
    BY <2>1, MinNat
  <2> QED
    BY <2>1, <2>2, <2>3 DEF times
<1> QED
  BY <1>2, <1>3

-----------------------------------------------------------------------------
ExecTable == [Job -> Exec \cup {NoJob}]

\* What one iteration does to the tables, the timer and the executions.
LEMMA TryScheduleFacts ==
    ASSUME TypeOK, NEW plan \in PlanTable, NEW executing \in ExecTable, NEW C \in BOOLEAN,
           TrySchedule(plan, executing, C)
    PROVE  /\ jobPlanTable' \in PlanTable
           /\ jobExecutingTable' \in ExecTable
           /\ running' \in SUBSET Exec
           /\ lastPlan' \in [Job -> Nat]
           /\ scheduleTimer' \in [armed : BOOLEAN, at : Nat, C : BOOLEAN]
           /\ NoOversleep'
<1>1. now \in Nat /\ Replan(plan) \in PlanTable
  BY ReplanFacts, SchedulerAssumption DEF TypeOK
<1>2. ASSUME NEW j \in Started(plan, executing)
      PROVE  /\ plan[j].next \in Nat /\ j \in Job
             /\ BuildJobExecuteInfo(plan, j) \in Exec
  BY <1>1 DEF Started, Due, PlanTable, Plan, BuildJobExecuteInfo, Exec
<1>3. jobPlanTable' = Replan(plan)
  BY DEF TrySchedule
<1>4. jobExecutingTable' \in ExecTable
  BY <1>2 DEF TrySchedule, ExecTable
<1>5. running' \in SUBSET Exec
  BY <1>2 DEF TrySchedule, TypeOK
<1>6. lastPlan' \in [Job -> Nat]
  BY <1>2 DEF TrySchedule, TypeOK
<1>7. scheduleTimer' = [armed |-> TRUE, at |-> Nearest(Replan(plan)), C |-> C]
  BY DEF TrySchedule
<1>8. /\ Nearest(Replan(plan)) \in Nat
      /\ \A j \in Job : Replan(plan)[j] # NoJob => Nearest(Replan(plan)) <= Replan(plan)[j].next
  BY <1>1, NearestFacts
<1>9. NoOversleep'
  BY <1>3, <1>7, <1>8 DEF NoOversleep
<1> QED
  BY <1>1, <1>3, <1>4, <1>5, <1>6, <1>7, <1>8, <1>9

\* The head of a queue, and what is left of it.
LEMMA HeadTail ==
    ASSUME NEW S, NEW s \in Seq(S), s # <<>>
    PROVE  /\ Head(s) \in S /\ Head(s) = s[1] /\ Len(s) \in Nat \ {0}
           /\ Tail(s) \in Seq(S) /\ Len(Tail(s)) = Len(s) - 1
           /\ \A i \in 1..Len(Tail(s)) : i + 1 \in 1..Len(s) /\ Tail(s)[i] = s[i + 1]
  OBVIOUS

LEMMA AppendFacts ==
    ASSUME NEW S, NEW s \in Seq(S), NEW x \in S
    PROVE  /\ Append(s, x) \in Seq(S) /\ Len(Append(s, x)) = Len(s) + 1 /\ Len(s) \in Nat
           /\ \A i \in 1..Len(s) : Append(s, x)[i] = s[i]
           /\ Append(s, x)[Len(s) + 1] = x
  OBVIOUS

\* The tables as an iteration of the loop meets them, case by case.
LEMMA LoopCases ==
    ASSUME TypeOK, scheduleLoop
    PROVE  \E plan \in PlanTable, executing \in ExecTable, C \in BOOLEAN : TrySchedule(plan, executing, C)
<1>1. jobPlanTable \in PlanTable /\ jobExecutingTable \in ExecTable /\ scheduleTimer.C \in BOOLEAN
  BY DEF TypeOK, PlanTable, ExecTable
<1>2. CASE HandleEvent
  <2>1. Head(jobEventChan) \in Event
    BY <1>2, HeadTail DEF HandleEvent, TypeOK
  <2> QED
    BY <1>1, <1>2, <2>1, PlanAfterType DEF HandleEvent
<1>3. CASE HandleTimer
  BY <1>1, <1>3 DEF HandleTimer
<1>4. CASE HandleResult
  <2>1. [jobExecutingTable EXCEPT ![Head(jobExecuteResultChan).info.job] = NoJob] \in ExecTable
    BY <1>1 DEF ExecTable
  <2> QED
    BY <1>1, <1>4, <2>1 DEF HandleResult
<1> QED
  BY <1>2, <1>3, <1>4 DEF scheduleLoop

\* Every variable keeps its type, and the queues their capacity, through every
\* iteration of the loop and every push.
THEOREM TypeCorrect == Spec => []TypeOK
<1>1. Init => TypeOK
  BY SchedulerAssumption DEF Init, TypeOK, Zero
<1>2. TypeOK /\ [Next]_vars => TypeOK'
  <2> SUFFICES ASSUME TypeOK, [Next]_vars PROVE TypeOK'
    OBVIOUS
  <2>1. CASE scheduleLoop
    <3>1. /\ jobPlanTable' \in PlanTable /\ jobExecutingTable' \in ExecTable
          /\ running' \in SUBSET Exec /\ lastPlan' \in [Job -> Nat]
          /\ scheduleTimer' \in [armed : BOOLEAN, at : Nat, C : BOOLEAN]
      BY <2>1, LoopCases, TryScheduleFacts
    <3>2. UNCHANGED <<now, jobs>>
      BY <2>1 DEF scheduleLoop, HandleEvent, HandleTimer, HandleResult
    <3>3. /\ jobEventChan' \in Seq(Event) /\ Len(jobEventChan') <= EventCap
          /\ jobExecuteResultChan' \in Seq(Result) /\ Len(jobExecuteResultChan') <= ResultCap
          /\ cancelled' \in SUBSET Exec
          /\ jobLog' \in Exec \cup {NoJob}
      <4>1. CASE HandleEvent
        <5>1. jobEventChan' \in Seq(Event) /\ Len(jobEventChan') <= EventCap
          BY <4>1, HeadTail, SchedulerAssumption DEF HandleEvent, TypeOK
        <5>2. cancelled' \in SUBSET Exec
          <6>1. Head(jobEventChan).job \in Job
            BY <4>1, HeadTail, EventFields DEF HandleEvent, TypeOK
          <6> QED
            BY <4>1, <6>1 DEF HandleEvent, CancelledBy, TypeOK
        <5> QED
          BY <4>1, <5>1, <5>2 DEF HandleEvent, TypeOK
      <4>2. CASE HandleTimer
        BY <4>2 DEF HandleTimer, TypeOK, queues
      <4>3. CASE HandleResult
        <5>1. Head(jobExecuteResultChan).info \in Exec
          <6>1. Head(jobExecuteResultChan) \in Result
            BY <4>3, HeadTail DEF HandleResult, TypeOK
          <6> QED
            BY <6>1 DEF Result
        <5>2. jobExecuteResultChan' \in Seq(Result) /\ Len(jobExecuteResultChan') <= ResultCap
          BY <4>3, HeadTail, SchedulerAssumption DEF HandleResult, TypeOK
        <5>3. cancelled' \in SUBSET Exec /\ jobLog' \in Exec \cup {NoJob}
          BY <4>3, <5>1 DEF HandleResult, TypeOK
        <5> QED
          BY <4>3, <5>2, <5>3 DEF HandleResult, TypeOK
      <4> QED
        BY <2>1, <4>1, <4>2, <4>3 DEF scheduleLoop
    <3> QED
      BY <3>1, <3>2, <3>3 DEF TypeOK, PlanTable, ExecTable
  <2>2. ASSUME NEW e \in Event, PushJobEvent(e) PROVE TypeOK'
    <3>1. jobEventChan' \in Seq(Event) /\ Len(jobEventChan') <= EventCap
      BY <2>2, AppendFacts, SchedulerAssumption DEF PushJobEvent, TypeOK
    <3>2. jobs' \in [Job -> Expr \cup {BadExpr, NoJob}]
      <4>1. CASE e.type = "save"
        BY <2>2, <4>1, EventFields DEF PushJobEvent, TypeOK
      <4>2. CASE e.type = "delete"
        BY <2>2, <4>2, EventFields DEF PushJobEvent, TypeOK
      <4>3. CASE e.type = "kill"
        BY <2>2, <4>3, EventFields DEF PushJobEvent, TypeOK
      <4> QED
        BY <4>1, <4>2, <4>3, EventFields
    <3> QED
      BY <2>2, <3>1, <3>2 DEF PushJobEvent, TypeOK, tables
  <2>3. ASSUME NEW x \in running, PushJobResult(x) PROVE TypeOK'
    <3>1. PICK o \in BOOLEAN : jobExecuteResultChan' = Append(jobExecuteResultChan, [info |-> x, occupied |-> o])
      BY <2>3 DEF PushJobResult
    <3>2. [info |-> x, occupied |-> o] \in Result
      BY DEF Result, TypeOK
    <3>3. jobExecuteResultChan' \in Seq(Result) /\ Len(jobExecuteResultChan') <= ResultCap
      BY <2>3, <3>1, <3>2, AppendFacts, SchedulerAssumption DEF PushJobResult, TypeOK
    <3> QED
      BY <2>3, <3>3 DEF PushJobResult, TypeOK, tables
  <2>4. CASE TimerExpires
    BY <2>4 DEF TimerExpires, TypeOK, tables, queues, Zero
  <2>5. CASE Clock
    BY <2>5, SchedulerAssumption DEF Clock, TypeOK, tables, queues
  <2>6. CASE UNCHANGED vars
    BY <2>6 DEF vars, TypeOK, tables, queues
  <2> QED
    BY <2>1, <2>2, <2>3, <2>4, <2>5, <2>6 DEF Next
<1> QED
  BY <1>1, <1>2, PTL DEF Spec

\* The loop never sleeps past a planned time.
THEOREM NoOversleepTheorem == Spec => []NoOversleep
<1>1. Init => NoOversleep
  BY DEF Init, NoOversleep
<1>2. TypeOK /\ NoOversleep /\ [Next]_vars => NoOversleep'
  <2> SUFFICES ASSUME TypeOK, NoOversleep, [Next]_vars PROVE NoOversleep'
    OBVIOUS
  <2>1. CASE scheduleLoop
    BY <2>1, LoopCases, TryScheduleFacts
  <2>2. CASE TimerExpires
    BY <2>2 DEF TimerExpires, NoOversleep
  <2>3. CASE UNCHANGED <<jobPlanTable, scheduleTimer>>
    BY <2>3 DEF NoOversleep
  <2>4. ASSUME NEW e \in Event, PushJobEvent(e) PROVE UNCHANGED <<jobPlanTable, scheduleTimer>>
    BY <2>4 DEF PushJobEvent, tables
  <2>5. ASSUME NEW x \in running, PushJobResult(x) PROVE UNCHANGED <<jobPlanTable, scheduleTimer>>
    BY <2>5 DEF PushJobResult, tables
  <2>6. CASE Clock \/ UNCHANGED vars
    BY <2>3, <2>6 DEF Clock, vars, tables
  <2> QED
    BY <2>1, <2>2, <2>3, <2>4, <2>5, <2>6 DEF Next
<1> QED
  BY <1>1, <1>2, TypeCorrect, PTL DEF Spec

-----------------------------------------------------------------------------
\* What an iteration adds to jobExecutingTable and to the running executions.
LEMMA StartFacts ==
    ASSUME TypeOK, NEW plan \in PlanTable, NEW executing \in ExecTable, NEW C,
           TrySchedule(plan, executing, C)
    PROVE  \E started \in SUBSET Job :
              /\ \A j \in started : /\ executing[j] = NoJob
                                    /\ jobExecutingTable'[j] # NoJob
                                    /\ jobExecutingTable'[j].job = j
              /\ \A j \in Job \ started : jobExecutingTable'[j] = executing[j]
              /\ running' = running \cup {jobExecutingTable'[j] : j \in started}
<1> DEFINE started == Started(plan, executing)
           info(j) == BuildJobExecuteInfo(plan, j)
<1>1. now \in Nat /\ started \in SUBSET Job
  BY SchedulerAssumption DEF TypeOK, Started, Due
<1>2. ASSUME NEW j \in started PROVE info(j) \in Exec /\ info(j).job = j /\ info(j) # NoJob
  <2>1. info(j) \in Exec /\ info(j).job = j
    BY <1>1 DEF Started, Due, PlanTable, Plan, BuildJobExecuteInfo, Exec
  <2> QED
    BY <2>1, NoJobAssumption
<1>3. /\ \A j \in started : jobExecutingTable'[j] = info(j)
      /\ \A j \in Job \ started : jobExecutingTable'[j] = executing[j]
      /\ running' = running \cup {info(j) : j \in started}
  BY <1>1 DEF TrySchedule
<1>4. \A j \in started : executing[j] = NoJob
  BY DEF Started
<1> HIDE DEF started, info
<1>5. running' = running \cup {jobExecutingTable'[j] : j \in started}
  BY <1>3
<1> QED
  BY <1>1, <1>2, <1>3, <1>4, <1>5

\* The iterations keep the correspondence of table and executions: an entry is
\* added together with its execution, and removed with its result.
LEMMA FlightStep ==
    ASSUME TypeOK, NEW plan \in PlanTable, NEW executing \in ExecTable, NEW C,
           TrySchedule(plan, executing, C),
           NEW P, \* the executions whose results stay in the queue
           \A x \in running \cup P : executing[x.job] = x /\ x # NoJob /\ x.job \in Job,
           \A j \in Job : executing[j] # NoJob => executing[j].job = j /\ executing[j] \in running \cup P,
           running \cap P = {}
    PROVE  /\ \A x \in running' \cup P : jobExecutingTable'[x.job] = x
           /\ \A j \in Job : jobExecutingTable'[j] # NoJob =>
                 jobExecutingTable'[j].job = j /\ jobExecutingTable'[j] \in running' \cup P
           /\ running' \cap P = {}
<1>1. PICK started \in SUBSET Job :
              /\ \A j \in started : /\ executing[j] = NoJob
                                    /\ jobExecutingTable'[j] # NoJob
                                    /\ jobExecutingTable'[j].job = j
              /\ \A j \in Job \ started : jobExecutingTable'[j] = executing[j]
              /\ running' = running \cup {jobExecutingTable'[j] : j \in started}
  BY StartFacts
<1>2. \A x \in running \cup P : jobExecutingTable'[x.job] = x
  BY <1>1
<1>3. \A j \in started : jobExecutingTable'[j] \notin P
  BY <1>1
<1> QED
  BY <1>1, <1>2, <1>3

LEMMA FlightLoop ==
    ASSUME TypeOK, SingleFlight, HandleEvent \/ HandleTimer
    PROVE  SingleFlight'
<1>1. PICK plan \in PlanTable, C \in {FALSE, scheduleTimer.C} : TrySchedule(plan, jobExecutingTable, C)
  <2>1. jobPlanTable \in PlanTable /\ scheduleTimer.C \in BOOLEAN
    BY DEF TypeOK, PlanTable
  <2>2. CASE HandleEvent
    BY <2>1, <2>2, PlanAfterType, HeadTail DEF HandleEvent, TypeOK
  <2>3. CASE HandleTimer
    BY <2>1, <2>3 DEF HandleTimer
  <2> QED
    BY <2>2, <2>3
<1>2. UNCHANGED jobExecuteResultChan
  BY DEF HandleEvent, HandleTimer, queues
<1>3. Pushed' = Pushed /\ Pushed \subseteq Exec
  <2>1. \A i \in 1..Len(jobExecuteResultChan) : jobExecuteResultChan[i] \in Result
    BY DEF TypeOK
  <2> QED
    BY <1>2, <2>1 DEF Pushed, Result
<1>4. \A x \in running \cup Pushed : jobExecutingTable[x.job] = x /\ x # NoJob /\ x.job \in Job
  BY <1>3, NoJobAssumption DEF SingleFlight, TypeOK, Exec
<1>5. jobExecutingTable \in ExecTable
  BY DEF TypeOK, ExecTable
<1>6. /\ \A x \in running' \cup Pushed : jobExecutingTable'[x.job] = x
      /\ \A j \in Job : jobExecutingTable'[j] # NoJob =>
            jobExecutingTable'[j].job = j /\ jobExecutingTable'[j] \in running' \cup Pushed
      /\ running' \cap Pushed = {}
  <2>1. \A j \in Job : jobExecutingTable[j] # NoJob =>
           jobExecutingTable[j].job = j /\ jobExecutingTable[j] \in running \cup Pushed
    BY DEF SingleFlight
  <2>2. running \cap Pushed = {}
    BY DEF SingleFlight
  <2> DEFINE P == Pushed
  <2>3. /\ \A x \in running \cup P : jobExecutingTable[x.job] = x /\ x # NoJob /\ x.job \in Job
        /\ \A j \in Job : jobExecutingTable[j] # NoJob =>
              jobExecutingTable[j].job = j /\ jobExecutingTable[j] \in running \cup P
        /\ running \cap P = {}
    BY <1>4, <2>1, <2>2
  <2> HIDE DEF P
  <2>4. /\ \A x \in running' \cup P : jobExecutingTable'[x.job] = x
        /\ \A j \in Job : jobExecutingTable'[j] # NoJob =>
              jobExecutingTable'[j].job = j /\ jobExecutingTable'[j] \in running' \cup P
        /\ running' \cap P = {}
    BY <1>1, <1>5, <2>3, FlightStep
  <2> QED
    BY <2>4 DEF P
<1> QED
  BY <1>2, <1>3, <1>6 DEF SingleFlight

LEMMA FlightResult ==
    ASSUME TypeOK, SingleFlight, HandleResult
    PROVE  SingleFlight'
<1> DEFINE q == jobExecuteResultChan
           x == Head(q).info
           executing == [jobExecutingTable EXCEPT ![x.job] = NoJob]
           P == {q[i].info : i \in 2..Len(q)}
<1>1. /\ q \in Seq(Result) /\ Len(q) \in Nat \ {0} /\ q[1].info = x /\ Len(q') = Len(q) - 1
      /\ \A i \in 1..Len(q') : i + 1 \in 1..Len(q) /\ q'[i] = q[i + 1]
  BY HeadTail DEF HandleResult, TypeOK
<1>2. \A i \in 1..Len(q) : q[i] \in Result /\ q[i].info \in Exec
  <2>1. \A i \in 1..Len(q) : q[i] \in Result
    BY <1>1
  <2>2. \A r \in Result : r.info \in Exec
    BY DEF Result
  <2> QED
    BY <2>1, <2>2
<1>3. x \in Exec /\ x.job \in Job /\ P \subseteq Exec /\ x \in Pushed /\ Pushed = P \cup {x}
  <2>1. 1 \in 1..Len(q) /\ 2..Len(q) \subseteq 1..Len(q) /\ 1..Len(q) = {1} \cup 2..Len(q)
    BY <1>1
  <2>2. x \in Exec /\ x.job \in Job
    BY <1>1, <1>2, <2>1 DEF Exec
  <2> QED
    BY <1>1, <1>2, <2>1, <2>2 DEF Pushed
<1>4. x \notin P
  <2>1. \A i \in 2..Len(q) : i \in 1..Len(q) /\ i # 1 /\ 1 \in 1..Len(q)
    BY <1>1
  <2> QED
    BY <1>1, <2>1 DEF SingleFlight
<1>5. Pushed' = P
  <2>1. \A i \in 2..Len(q) : i - 1 \in 1..Len(q') /\ q'[i - 1] = q[i]
    <3>1. ASSUME NEW i \in 2..Len(q) PROVE i - 1 \in 1..Len(q') /\ (i - 1) + 1 = i
      BY <1>1
    <3> QED
      BY <1>1, <3>1
  <2>2. \A i \in 1..Len(q') : i + 1 \in 2..Len(q) /\ q'[i] = q[i + 1]
    BY <1>1
  <2>3. Pushed' = {q'[i].info : i \in 1..Len(q')}
    BY DEF Pushed
  <2>4. \A y : y \in P <=> \E i \in 2..Len(q) : y = q[i].info
    OBVIOUS
  <2>5. \A y : y \in Pushed' <=> \E i \in 1..Len(q') : y = q'[i].info
    BY <2>3
  <2> HIDE DEF P
  <2>6. ASSUME NEW y \in P PROVE y \in Pushed'
    <3>1. PICK i \in 2..Len(q) : y = q[i].info
      BY <2>4
    <3>2. i - 1 \in 1..Len(q') /\ y = q'[i - 1].info
      BY <2>1, <3>1
    <3> QED
      BY <2>5, <3>2
  <2>7. ASSUME NEW y \in Pushed' PROVE y \in P
    <3>1. PICK i \in 1..Len(q') : y = q'[i].info
      BY <2>5
    <3>2. i + 1 \in 2..Len(q) /\ y = q[i + 1].info
      BY <2>2, <3>1
    <3> QED
      BY <2>4, <3>2
  <2> QED
    BY <2>6, <2>7
<1>6. executing \in ExecTable /\ \A j \in Job : executing[j] = IF j = x.job THEN NoJob ELSE jobExecutingTable[j]
  BY <1>3 DEF TypeOK, ExecTable
<1>7. TrySchedule(jobPlanTable, executing, scheduleTimer.C)
  BY DEF HandleResult
<1>8. jobPlanTable \in PlanTable /\ scheduleTimer.C \in BOOLEAN
  BY DEF TypeOK, PlanTable
<1>9. \A i, k \in 1..Len(q') : i # k => q'[i].info # q'[k].info
  <2>1. ASSUME NEW i \in 1..Len(q'), NEW k \in 1..Len(q'), i # k PROVE i + 1 # k + 1
    BY <1>1, <2>1
  <2> QED
    BY <1>1, <2>1 DEF SingleFlight
<1> HIDE DEF x, P, executing
<1>10. ASSUME NEW y \in running \cup P PROVE executing[y.job] = y /\ y # NoJob /\ y.job \in Job
  <2>1. y \in Exec /\ jobExecutingTable[y.job] = y /\ y.job \in Job /\ y # x
    BY <1>3, <1>4 DEF SingleFlight, TypeOK, Exec
  <2>2. jobExecutingTable[x.job] = x
    BY <1>3 DEF SingleFlight
  <2> QED
    BY <1>6, <2>1, <2>2, NoJobAssumption
<1>11. ASSUME NEW j \in Job, executing[j] # NoJob PROVE executing[j].job = j /\ executing[j] \in running \cup P
  <2>1. j # x.job /\ executing[j] = jobExecutingTable[j]
    BY <1>6, <1>11
  <2>2. jobExecutingTable[j].job = j /\ jobExecutingTable[j] \in running \cup P \cup {x}
    BY <1>3, <1>11, <2>1 DEF SingleFlight
  <2> QED
    BY <2>1, <2>2
<1>12. running \cap P = {}
  BY <1>3 DEF SingleFlight
<1>13. /\ \A y \in running' \cup P : jobExecutingTable'[y.job] = y
       /\ \A j \in Job : jobExecutingTable'[j] # NoJob =>
             jobExecutingTable'[j].job = j /\ jobExecutingTable'[j] \in running' \cup P
       /\ running' \cap P = {}
  BY <1>6, <1>7, <1>8, <1>10, <1>11, <1>12, FlightStep
<1> QED
  BY <1>5, <1>9, <1>13 DEF SingleFlight

LEMMA FlightPush ==
    ASSUME TypeOK, SingleFlight, NEW x \in running, PushJobResult(x)
    PROVE  SingleFlight'
<1> DEFINE q == jobExecuteResultChan
<1>1. PICK r \in Result : q' = Append(q, r) /\ r.info = x
  BY DEF PushJobResult, TypeOK, Result
<1>2. /\ Len(q') = Len(q) + 1 /\ Len(q) \in Nat /\ q'[Len(q) + 1].info = x
      /\ \A i \in 1..Len(q) : q'[i] = q[i]
  BY <1>1, AppendFacts DEF TypeOK
<1>3. \A i \in 1..Len(q') : i \in 1..Len(q) \/ i = Len(q) + 1
  BY <1>2
<1>4. \A i \in 1..Len(q) : i \in 1..Len(q') /\ i # Len(q) + 1
  BY <1>2
<1>5. Len(q) + 1 \in 1..Len(q')
  BY <1>2
<1>6. Pushed' = Pushed \cup {x}
  BY <1>2, <1>3, <1>4, <1>5 DEF Pushed
<1>7. \A i \in 1..Len(q) : q[i].info # x
  BY DEF SingleFlight, Pushed
<1>8. \A i, k \in 1..Len(q') : i # k => q'[i].info # q'[k].info
  BY <1>2, <1>3, <1>7 DEF SingleFlight
<1>9. running' = running \ {x} /\ UNCHANGED jobExecutingTable
  BY DEF PushJobResult, tables
<1> QED
  BY <1>6, <1>8, <1>9 DEF SingleFlight

\* On one worker, executions, results and the entries of jobExecutingTable
\* correspond one to one: no job runs twice at a time, none is blocked for good.
THEOREM SingleFlightTheorem == Spec => []SingleFlight
<1>1. Init => SingleFlight
  BY DEF Init, SingleFlight, Pushed
<1>2. TypeOK /\ SingleFlight /\ [Next]_vars => SingleFlight'
  <2> SUFFICES ASSUME TypeOK, SingleFlight, [Next]_vars PROVE SingleFlight'
    OBVIOUS
  <2>1. CASE UNCHANGED <<jobExecutingTable, running, jobExecuteResultChan>>
    BY <2>1 DEF SingleFlight, Pushed
  <2>2. ASSUME NEW e \in Event, PushJobEvent(e)
        PROVE  UNCHANGED <<jobExecutingTable, running, jobExecuteResultChan>>
    BY <2>2 DEF PushJobEvent, tables
  <2>3. CASE TimerExpires \/ Clock \/ UNCHANGED vars
    BY <2>1, <2>3 DEF TimerExpires, Clock, vars, tables, queues
  <2> QED
    BY <2>1, <2>2, <2>3, FlightLoop, FlightResult, FlightPush DEF Next, scheduleLoop
<1> QED
  BY <1>1, <1>2, TypeCorrect, PTL DEF Spec
-----------------------------------------------------------------------------
\* Every expression keeps matching: no year field that comes to an end.
Recurs == \A e \in Expr, t \in 1..MaxTime : \E m \in e : m > t

\* A plan is a match that lies after all the instants its job was executed for;
\* the inductive invariant behind StartsOnMatch.
Ahead(plan) ==
    \A j \in Job : plan[j] # NoJob => plan[j].next \in plan[j].expr /\ lastPlan[j] < plan[j].next
PlanAhead == Ahead(jobPlanTable) /\ \A j \in Job : lastPlan[j] <= now

LEMMA NextIsAhead ==
    ASSUME TypeOK, Recurs, NEW e \in Expr
    PROVE  NextMatch(e, now) \in e /\ now < NextMatch(e, now) /\ NextMatch(e, now) \in Nat
<1>1. now \in Nat /\ now \in 1..MaxTime /\ e \subseteq Nat
  BY SchedulerAssumption DEF TypeOK
<1>2. PICK m \in e : m > now
  BY <1>1 DEF Recurs
<1>3. ~(m <= now)
  BY <1>1, <1>2
<1> QED
  BY <1>1, <1>3, NextMatchFacts

LEMMA PlanAfterAhead ==
    ASSUME TypeOK, Recurs, PlanAhead, NEW e \in Event
    PROVE  Ahead(PlanAfter(e))
<1>1. e.job \in Job /\ jobPlanTable \in PlanTable /\ lastPlan \in [Job -> Nat] /\ now \in Nat
  BY EventFields, SchedulerAssumption DEF TypeOK, PlanTable
<1>2. CASE e.type = "save" /\ e.expr # BadExpr
  <2>1. e.expr \in Expr
    BY <1>2, EventFields
  <2>2. PlanAfter(e) = [jobPlanTable EXCEPT ![e.job] = BuildJobSchedulePlan(e.expr)]
    BY <1>2 DEF PlanAfter
  <2>3. /\ BuildJobSchedulePlan(e.expr).expr = e.expr
        /\ BuildJobSchedulePlan(e.expr).next = NextMatch(e.expr, now)
    BY DEF BuildJobSchedulePlan
  <2>4. lastPlan[e.job] < NextMatch(e.expr, now) /\ NextMatch(e.expr, now) \in e.expr
    BY <1>1, <2>1, NextIsAhead DEF PlanAhead
  <2>5. ASSUME NEW j \in Job, j # e.job PROVE PlanAfter(e)[j] = jobPlanTable[j]
    BY <1>1, <2>2, <2>5 DEF PlanTable
  <2>6. PlanAfter(e)[e.job] = BuildJobSchedulePlan(e.expr)
    BY <1>1, <2>2 DEF PlanTable
  <2> QED
    BY <1>1, <2>3, <2>4, <2>5, <2>6 DEF Ahead, PlanAhead
<1>3. CASE e.type = "delete"
  <2>1. \A j \in Job : PlanAfter(e)[j] \in {NoJob, jobPlanTable[j]}
    BY <1>1, <1>3 DEF PlanAfter, PlanTable
  <2> QED
    BY <2>1 DEF Ahead, PlanAhead
<1>4. CASE e.type = "kill" \/ (e.type = "save" /\ e.expr = BadExpr)
  <2>1. PlanAfter(e) = jobPlanTable
    BY <1>4 DEF PlanAfter
  <2> QED
    BY <2>1 DEF PlanAhead
<1> QED
  BY <1>2, <1>3, <1>4, EventFields

\* What an iteration starts was planned, and what it plans lies ahead.
LEMMA AheadStep ==
    ASSUME TypeOK, Recurs, UNCHANGED now, \A j \in Job : lastPlan[j] <= now,
           NEW plan \in PlanTable, Ahead(plan), NEW executing, NEW C,
           \A j \in Job : executing[j] \in {NoJob, jobExecutingTable[j]},
           TrySchedule(plan, executing, C)
    PROVE  /\ PlanAhead'
           /\ \A j \in Job : jobExecutingTable'[j] \notin {NoJob, jobExecutingTable[j]} =>
                 /\ jobExecutingTable'[j].plan \in jobPlanTable'[j].expr
                 /\ lastPlan[j] < jobExecutingTable'[j].plan
                 /\ jobExecutingTable'[j].plan <= now
<1> DEFINE started == Started(plan, executing)
<1>1. now \in Nat /\ lastPlan \in [Job -> Nat] /\ jobPlanTable' = Replan(plan)
  BY SchedulerAssumption DEF TypeOK, TrySchedule
<1>2. \A j \in Job : /\ j \in started => /\ jobExecutingTable'[j].plan = plan[j].next
                                         /\ lastPlan'[j] = plan[j].next
                     /\ j \notin started => /\ jobExecutingTable'[j] = executing[j]
                                            /\ lastPlan'[j] = lastPlan[j]
  BY DEF TrySchedule, BuildJobExecuteInfo
<1>3. \A j \in started : /\ j \in Due(plan) /\ plan[j] # NoJob /\ plan[j].next <= now
                         /\ lastPlan[j] < plan[j].next /\ plan[j].next \in plan[j].expr
  BY DEF Started, Due, Ahead
<1>4. \A j \in Job : lastPlan'[j] <= now
  BY <1>2, <1>3
<1>5. ASSUME NEW j \in Job, jobPlanTable'[j] # NoJob
      PROVE  jobPlanTable'[j].next \in jobPlanTable'[j].expr /\ lastPlan'[j] < jobPlanTable'[j].next
  <2>1. plan[j] # NoJob /\ jobPlanTable'[j].expr = plan[j].expr
    BY <1>1, <1>5, ReplanFacts
  <2>2. plan[j] \in Plan /\ plan[j].expr \in Expr
    BY <2>1 DEF PlanTable, Plan
  <2>3. CASE j \in Due(plan)
    <3>1. jobPlanTable'[j].next = NextMatch(plan[j].expr, now)
      BY <1>1, <2>3, ReplanFacts
    <3>2. lastPlan'[j] \in Nat
      BY <1>1, <1>2, <2>2 DEF Plan
    <3> QED
      BY <1>1, <1>4, <2>1, <2>2, <3>1, <3>2, NextIsAhead
  <2>4. CASE j \notin Due(plan)
    BY <1>1, <1>2, <1>3, <2>1, <2>4, ReplanFacts DEF Ahead
  <2> QED
    BY <2>3, <2>4
<1>6. PlanAhead'
  BY <1>4, <1>5 DEF PlanAhead, Ahead
<1>7. \A j \in started : jobPlanTable'[j].expr = plan[j].expr
  BY <1>1, <1>3, ReplanFacts DEF Due
<1> HIDE DEF started
<1> QED
  BY <1>2, <1>3, <1>6, <1>7

\* As long as expressions recur, a job is executed only for instants that have
\* come and that its expression matches, and for each of them at most once.
THEOREM StartsOnMatchTheorem ==
    ASSUME Recurs PROVE Spec => StartsOnMatch
<1> DEFINE Start == \A j \in Job : jobExecutingTable'[j] \notin {NoJob, jobExecutingTable[j]} =>
                      /\ jobExecutingTable'[j].plan \in jobPlanTable'[j].expr
                      /\ lastPlan[j] < jobExecutingTable'[j].plan
                      /\ jobExecutingTable'[j].plan <= now
<1>1. Init => PlanAhead
  BY DEF Init, PlanAhead, Ahead, Zero
<1>2. TypeOK /\ PlanAhead /\ [Next]_vars => PlanAhead' /\ Start
  <2> SUFFICES ASSUME TypeOK, PlanAhead, [Next]_vars PROVE PlanAhead' /\ Start
    OBVIOUS
  <2>1. CASE scheduleLoop
    <3>1. UNCHANGED now /\ jobPlanTable \in PlanTable /\ Ahead(jobPlanTable)
      BY <2>1 DEF scheduleLoop, HandleEvent, HandleTimer, HandleResult, TypeOK, PlanTable, PlanAhead
    <3>2. \A j \in Job : lastPlan[j] <= now
      BY DEF PlanAhead
    <3>3. CASE HandleEvent
      <4>1. Head(jobEventChan) \in Event
        BY <3>3, HeadTail DEF HandleEvent, TypeOK
      <4>2. PlanAfter(Head(jobEventChan)) \in PlanTable /\ Ahead(PlanAfter(Head(jobEventChan)))
        BY <4>1, PlanAfterType, PlanAfterAhead
      <4>3. TrySchedule(PlanAfter(Head(jobEventChan)), jobExecutingTable, scheduleTimer.C)
        BY <3>3 DEF HandleEvent
      <4> QED
        BY <3>1, <3>2, <4>2, <4>3, AheadStep
    <3>4. CASE HandleTimer
      <4>1. TrySchedule(jobPlanTable, jobExecutingTable, FALSE)
        BY <3>4 DEF HandleTimer
      <4> QED
        BY <3>1, <3>2, <4>1, AheadStep
    <3>5. CASE HandleResult
      <4> DEFINE executing == [jobExecutingTable EXCEPT ![Head(jobExecuteResultChan).info.job] = NoJob]
      <4>1. TrySchedule(jobPlanTable, executing, scheduleTimer.C)
        BY <3>5 DEF HandleResult
      <4>2. \A j \in Job : executing[j] \in {NoJob, jobExecutingTable[j]}
        BY DEF TypeOK
      <4> HIDE DEF executing
      <4> QED
        BY <3>1, <3>2, <4>1, <4>2, AheadStep
    <3> QED
      BY <2>1, <3>3, <3>4, <3>5 DEF scheduleLoop
  <2>2. CASE UNCHANGED <<jobPlanTable, jobExecutingTable, lastPlan>> /\ now' \in {now, now + 1}
    <3>1. now \in Nat /\ lastPlan \in [Job -> Nat]
      BY SchedulerAssumption DEF TypeOK
    <3>2. Ahead(jobPlanTable)'
      BY <2>2 DEF PlanAhead, Ahead
    <3>3. \A j \in Job : lastPlan'[j] <= now'
      BY <2>2, <3>1 DEF PlanAhead
    <3> QED
      BY <2>2, <3>2, <3>3 DEF PlanAhead
  <2>3. ASSUME NEW e \in Event, PushJobEvent(e) PROVE PlanAhead' /\ Start
    BY <2>2, <2>3 DEF PushJobEvent, tables
  <2>4. ASSUME NEW x \in running, PushJobResult(x) PROVE PlanAhead' /\ Start
    BY <2>2, <2>4 DEF PushJobResult, tables
  <2>5. CASE TimerExpires \/ Clock \/ UNCHANGED vars
    BY <2>2, <2>5 DEF TimerExpires, Clock, vars, tables
  <2> QED
    BY <2>1, <2>3, <2>4, <2>5 DEF Next
<1> QED
  BY <1>1, <1>2, TypeCorrect, PTL DEF Spec, StartsOnMatch
-----------------------------------------------------------------------------
\* The events that change the plan of a job, and what they say of the job.
Concerns(e, j) == e.job = j /\ e.type # "kill"
Told(e) == IF e.type = "save" THEN e.expr ELSE NoJob

\* The plan of a job is the one of an entry of etcd. Nothing is said of an entry
\* whose expression does not parse: the job keeps the plan it had.
Follows(j, entry, plan) == /\ entry = NoJob => plan[j] = NoJob
                           /\ entry \in Expr => plan[j] # NoJob /\ plan[j].expr = entry

\* The inductive invariant behind PlanFollowsEtcd: the last event in the queue
\* that concerns a job carries its entry of etcd, and if there is none the plan
\* follows that entry already.
QueueTellsAll ==
    \A j \in Job :
       /\ \A i \in 1..Len(jobEventChan) :
             /\ Concerns(jobEventChan[i], j)
             /\ \A k \in (i + 1)..Len(jobEventChan) : ~Concerns(jobEventChan[k], j)
             => jobs[j] = Told(jobEventChan[i])
       /\ (\A i \in 1..Len(jobEventChan) : ~Concerns(jobEventChan[i], j))
             => Follows(j, jobs[j], jobPlanTable)

\* handleJobEvent: an event that concerns a job makes its plan follow what the
\* event says; another leaves its plan alone.
LEMMA PlanAfterFacts ==
    ASSUME TypeOK, NEW e \in Event, NEW j \in Job
    PROVE  /\ Concerns(e, j) => Follows(j, Told(e), PlanAfter(e))
           /\ ~Concerns(e, j) => PlanAfter(e)[j] = jobPlanTable[j]
<1>1. e.job \in Job /\ jobPlanTable \in PlanTable /\ now \in Nat
  BY EventFields, SchedulerAssumption DEF TypeOK, PlanTable
<1>2. CASE e.type = "save" /\ e.expr # BadExpr
  <2>1. e.expr \in Expr /\ e.expr # NoJob
    BY <1>2, EventFields, SchedulerAssumption
  <2>2. PlanAfter(e) = [jobPlanTable EXCEPT ![e.job] = BuildJobSchedulePlan(e.expr)]
    BY <1>2 DEF PlanAfter
  <2>3. BuildJobSchedulePlan(e.expr) # NoJob /\ BuildJobSchedulePlan(e.expr).expr = e.expr
    <3>1. BuildJobSchedulePlan(e.expr) \in Plan
      BY <1>1, <2>1, BuildPlanType
    <3> QED
      BY <3>1, NoJobAssumption DEF BuildJobSchedulePlan
  <2>4. Told(e) = e.expr
    BY <1>2 DEF Told
  <2>5. j = e.job => PlanAfter(e)[j] = BuildJobSchedulePlan(e.expr)
    BY <1>1, <2>2 DEF PlanTable
  <2>6. j # e.job => PlanAfter(e)[j] = jobPlanTable[j]
    BY <1>1, <2>2 DEF PlanTable
  <2> QED
    BY <1>2, <2>1, <2>3, <2>4, <2>5, <2>6 DEF Concerns, Follows
<1>3. CASE e.type = "save" /\ e.expr = BadExpr
  <2>1. Told(e) = BadExpr /\ PlanAfter(e) = jobPlanTable
    BY <1>3 DEF Told, PlanAfter
  <2> QED
    BY <2>1, SchedulerAssumption DEF Follows
<1>4. CASE e.type = "delete"
  <2>1. Told(e) = NoJob /\ PlanAfter(e) = [jobPlanTable EXCEPT ![e.job] = NoJob]
    BY <1>4 DEF Told, PlanAfter
  <2> QED
    BY <1>1, <1>4, <2>1, SchedulerAssumption DEF Concerns, Follows, PlanTable
<1>5. CASE e.type = "kill"
  BY <1>5 DEF PlanAfter, Concerns
<1> QED
  BY <1>2, <1>3, <1>4, <1>5, EventFields

\* TrySchedule moves planned times on; which jobs are planned, and by which
\* expression, it leaves alone.
LEMMA ReplanFollows ==
    ASSUME TypeOK, NEW plan \in PlanTable, NEW j \in Job, NEW entry, Follows(j, entry, plan)
    PROVE  Follows(j, entry, Replan(plan))
<1>1. now \in Nat
  BY SchedulerAssumption DEF TypeOK
<1> QED
  BY <1>1, ReplanFacts DEF Follows

LEMMA QueueEvent ==
    ASSUME TypeOK, QueueTellsAll, HandleEvent
    PROVE  QueueTellsAll'
<1> DEFINE q == jobEventChan
           e == Head(q)
<1>1. /\ q \in Seq(Event) /\ Len(q) \in Nat \ {0} /\ e = q[1] /\ e \in Event
      /\ q' = Tail(q) /\ Len(q') = Len(q) - 1
      /\ \A i \in 1..Len(q') : i + 1 \in 1..Len(q) /\ q'[i] = q[i + 1]
  BY HeadTail DEF HandleEvent, TypeOK
<1>2. jobPlanTable' = Replan(PlanAfter(e)) /\ PlanAfter(e) \in PlanTable /\ UNCHANGED jobs
  BY <1>1, PlanAfterType DEF HandleEvent, TrySchedule
<1> HIDE DEF e
<1> SUFFICES ASSUME NEW j \in Job
             PROVE  /\ \A i \in 1..Len(q') :
                          /\ Concerns(q'[i], j)
                          /\ \A k \in (i + 1)..Len(q') : ~Concerns(q'[k], j)
                          => jobs[j] = Told(q'[i])
                    /\ (\A i \in 1..Len(q') : ~Concerns(q'[i], j)) => Follows(j, jobs[j], jobPlanTable')
  BY <1>2 DEF QueueTellsAll
<1>3. \A i \in 2..Len(q) : i - 1 \in 1..Len(q') /\ q'[i - 1] = q[i]
  <2>1. ASSUME NEW i \in 2..Len(q) PROVE i - 1 \in 1..Len(q') /\ (i - 1) + 1 = i
    BY <1>1
  <2> QED
    BY <1>1, <2>1
<1>4. ASSUME NEW i \in 1..Len(q'), Concerns(q'[i], j),
             \A k \in (i + 1)..Len(q') : ~Concerns(q'[k], j)
      PROVE  jobs[j] = Told(q'[i])
  <2>1. i + 1 \in 1..Len(q) /\ Concerns(q[i + 1], j) /\ q'[i] = q[i + 1]
    BY <1>1, <1>4
  <2>2. ASSUME NEW k \in ((i + 1) + 1)..Len(q) PROVE ~Concerns(q[k], j)
    <3>1. k \in 2..Len(q) /\ k - 1 \in (i + 1)..Len(q')
      BY <1>1
    <3> QED
      BY <1>3, <1>4, <3>1
  <2> QED
    BY <2>1, <2>2 DEF QueueTellsAll
<1>5. ASSUME \A i \in 1..Len(q') : ~Concerns(q'[i], j)
      PROVE  Follows(j, jobs[j], jobPlanTable')
  <2>1. \A k \in 2..Len(q) : ~Concerns(q[k], j)
    BY <1>3, <1>5
  <2>2. CASE Concerns(e, j)
    <3>1. jobs[j] = Told(e)
      <4>1. 1 \in 1..Len(q) /\ 1 + 1 = 2
        BY <1>1
      <4> QED
        BY <1>1, <2>1, <2>2, <4>1 DEF QueueTellsAll
    <3> QED
      BY <1>1, <1>2, <2>2, <3>1, PlanAfterFacts, ReplanFollows
  <2>3. CASE ~Concerns(e, j)
    <3>1. \A i \in 1..Len(q) : i = 1 \/ i \in 2..Len(q)
      BY <1>1
    <3>2. Follows(j, jobs[j], jobPlanTable)
      BY <1>1, <2>1, <2>3, <3>1 DEF QueueTellsAll
    <3>3. Follows(j, jobs[j], PlanAfter(e))
      BY <1>1, <2>3, <3>2, PlanAfterFacts DEF Follows
    <3> QED
      BY <1>2, <3>3, ReplanFollows
  <2> QED
    BY <2>2, <2>3
<1> QED
  BY <1>4, <1>5

LEMMA QueuePush ==
    ASSUME TypeOK, QueueTellsAll, NEW e \in Event, PushJobEvent(e)
    PROVE  QueueTellsAll'
<1> DEFINE q == jobEventChan
<1>1. /\ Len(q) \in Nat /\ Len(q') = Len(q) + 1 /\ q'[Len(q) + 1] = e
      /\ \A i \in 1..Len(q) : q'[i] = q[i]
  BY AppendFacts DEF PushJobEvent, TypeOK
<1>2. \A i \in 1..Len(q') : i \in 1..Len(q) \/ i = Len(q) + 1
  BY <1>1
<1>3. UNCHANGED jobPlanTable
  BY DEF PushJobEvent, tables
<1>4. \A j \in Job : /\ Concerns(e, j) => jobs'[j] = Told(e)
                     /\ ~Concerns(e, j) => jobs'[j] = jobs[j]
  <2>1. jobs' = IF e.type = "kill" THEN jobs ELSE [jobs EXCEPT ![e.job] = Told(e)]
    BY EventFields DEF PushJobEvent, Told
  <2> QED
    BY <2>1, EventFields DEF Concerns, TypeOK
<1> SUFFICES ASSUME NEW j \in Job
             PROVE  /\ \A i \in 1..Len(q') :
                          /\ Concerns(q'[i], j)
                          /\ \A k \in (i + 1)..Len(q') : ~Concerns(q'[k], j)
                          => jobs'[j] = Told(q'[i])
                    /\ (\A i \in 1..Len(q') : ~Concerns(q'[i], j)) => Follows(j, jobs'[j], jobPlanTable)
  BY <1>3 DEF QueueTellsAll
<1>5. Len(q) + 1 \in 1..Len(q') /\ \A i \in 1..Len(q) : i \in 1..Len(q') /\ Len(q) + 1 \in (i + 1)..Len(q')
  BY <1>1
<1>6. ASSUME NEW i \in 1..Len(q'), Concerns(q'[i], j),
             \A k \in (i + 1)..Len(q') : ~Concerns(q'[k], j)
      PROVE  jobs'[j] = Told(q'[i])
  <2>1. CASE i = Len(q) + 1
    BY <1>1, <1>4, <1>6, <2>1
  <2>2. CASE i \in 1..Len(q)
    <3>1. ~Concerns(e, j)
      BY <1>1, <1>5, <1>6, <2>2
    <3>2. \A k \in (i + 1)..Len(q) : k \in (i + 1)..Len(q') /\ k \in 1..Len(q)
      BY <1>1, <2>2
    <3>3. \A k \in (i + 1)..Len(q) : ~Concerns(q[k], j)
      BY <1>1, <1>6, <3>2
    <3> QED
      BY <1>1, <1>4, <1>6, <2>2, <3>1, <3>3 DEF QueueTellsAll
  <2> QED
    BY <1>2, <2>1, <2>2
<1>7. ASSUME \A i \in 1..Len(q') : ~Concerns(q'[i], j)
      PROVE  Follows(j, jobs'[j], jobPlanTable)
  <2>1. ~Concerns(e, j) /\ \A i \in 1..Len(q) : ~Concerns(q[i], j)
    BY <1>1, <1>5, <1>7
  <2> QED
    BY <1>4, <2>1 DEF QueueTellsAll
<1> QED
  BY <1>6, <1>7

\* Once the events are handled, the plans are those of the jobs of etcd: each
\* event is handled in the order in which it was pushed, and nothing but an
\* event plans a job, takes one out or changes its expression.
THEOREM PlanFollowsEtcdTheorem == Spec => []PlanFollowsEtcd
<1>1. Init => QueueTellsAll
  BY SchedulerAssumption DEF Init, QueueTellsAll, Follows
<1>2. TypeOK /\ QueueTellsAll /\ [Next]_vars => QueueTellsAll'
  <2> SUFFICES ASSUME TypeOK, QueueTellsAll, [Next]_vars PROVE QueueTellsAll'
    OBVIOUS
  <2>1. CASE UNCHANGED <<jobEventChan, jobs, jobPlanTable>>
    BY <2>1 DEF QueueTellsAll, Follows
  <2>2. CASE HandleTimer \/ HandleResult
    <3>1. jobPlanTable' = Replan(jobPlanTable) /\ UNCHANGED <<jobEventChan, jobs>>
      BY <2>2 DEF HandleTimer, HandleResult, TrySchedule, queues
    <3>2. jobPlanTable \in PlanTable
      BY DEF TypeOK, PlanTable
    <3>3. \A j \in Job : Follows(j, jobs[j], jobPlanTable) => Follows(j, jobs[j], Replan(jobPlanTable))
      BY <3>2, ReplanFollows
    <3> QED
      BY <3>1, <3>3 DEF QueueTellsAll
  <2>3. ASSUME NEW x \in running, PushJobResult(x) PROVE UNCHANGED <<jobEventChan, jobs, jobPlanTable>>
    BY <2>3 DEF PushJobResult, tables
  <2>4. CASE TimerExpires \/ Clock \/ UNCHANGED vars
    BY <2>1, <2>4 DEF TimerExpires, Clock, vars, tables, queues
  <2> QED
    BY <2>1, <2>2, <2>3, <2>4, QueueEvent, QueuePush DEF Next, scheduleLoop
<1>3. QueueTellsAll => PlanFollowsEtcd
  BY DEF QueueTellsAll, PlanFollowsEtcd, Follows
<1> QED
  BY <1>1, <1>2, <1>3, TypeCorrect, PTL DEF Spec
-----------------------------------------------------------------------------
\* A job that is due in the tables that TrySchedule looks at is started, unless
\* its last execution is still in jobExecutingTable.
LEMMA DueIsStarted ==
    ASSUME TypeOK, NEW plan \in PlanTable, NEW executing, NEW C, TrySchedule(plan, executing, C),
           NEW j \in Due(plan), executing[j] = NoJob
    PROVE  jobExecutingTable'[j] # NoJob /\ jobExecutingTable'[j].plan = plan[j].next
<1>1. j \in Job /\ j \in Started(plan, executing) /\ plan[j] \in Plan /\ now \in Nat
  BY SchedulerAssumption DEF Started, Due, PlanTable, TypeOK
<1>2. jobExecutingTable'[j] = BuildJobExecuteInfo(plan, j)
  BY <1>1 DEF TrySchedule
<1>3. BuildJobExecuteInfo(plan, j) \in Exec /\ BuildJobExecuteInfo(plan, j).plan = plan[j].next
  BY <1>1 DEF BuildJobExecuteInfo, Exec, Plan
<1> QED
  BY <1>2, <1>3, NoJobAssumption

\* No planned instant is passed over in silence: a plan that is due is replaced
\* only when its job is started for it, when the job's last execution has not
\* ended, or when the event at hand saves or deletes that very job.
THEOREM TickAccountedTheorem == Spec => TickAccounted
<1> DEFINE Accounted(j) ==
              \/ jobExecutingTable[j] # NoJob
              \/ jobExecutingTable'[j] # NoJob /\ jobExecutingTable'[j].plan = jobPlanTable[j].next
              \/ /\ jobEventChan # <<>> /\ jobEventChan' = Tail(jobEventChan)
                 /\ Head(jobEventChan).job = j /\ Head(jobEventChan).type # "kill"
           Tick == \A j \in Due(jobPlanTable) : jobPlanTable'[j] # jobPlanTable[j] => Accounted(j)
<1>1. TypeOK /\ [Next]_vars => Tick
  <2> SUFFICES ASSUME TypeOK, [Next]_vars, NEW j \in Due(jobPlanTable),
                      jobPlanTable'[j] # jobPlanTable[j], jobExecutingTable[j] = NoJob
               PROVE  Accounted(j)
    OBVIOUS
  <2>1. j \in Job /\ jobPlanTable \in PlanTable
    BY DEF Due, TypeOK, PlanTable
  <2>2. CASE HandleEvent
    <3> DEFINE e == Head(jobEventChan)
    <3>1. e \in Event /\ jobEventChan # <<>> /\ jobEventChan' = Tail(jobEventChan)
      BY <2>2, HeadTail DEF HandleEvent, TypeOK
    <3>2. CASE Concerns(e, j)
      BY <3>1, <3>2 DEF Concerns
    <3>3. CASE ~Concerns(e, j)
      <4>1. PlanAfter(e)[j] = jobPlanTable[j] /\ PlanAfter(e) \in PlanTable
        BY <2>1, <3>1, <3>3, PlanAfterFacts, PlanAfterType
      <4>2. j \in Due(PlanAfter(e))
        BY <2>1, <4>1 DEF Due
      <4>3. TrySchedule(PlanAfter(e), jobExecutingTable, scheduleTimer.C)
        BY <2>2 DEF HandleEvent
      <4> QED
        BY <4>1, <4>2, <4>3, DueIsStarted
    <3> QED
      BY <3>2, <3>3
  <2>3. CASE HandleTimer
    BY <2>1, <2>3, DueIsStarted DEF HandleTimer
  <2>4. CASE HandleResult
    <3> DEFINE executing == [jobExecutingTable EXCEPT ![Head(jobExecuteResultChan).info.job] = NoJob]
    <3>1. TrySchedule(jobPlanTable, executing, scheduleTimer.C)
      BY <2>4 DEF HandleResult
    <3>2. executing[j] = NoJob
      BY <2>1 DEF TypeOK
    <3> HIDE DEF executing
    <3> QED
      BY <2>1, <3>1, <3>2, DueIsStarted
  <2>5. ~UNCHANGED jobPlanTable
    OBVIOUS
  <2>6. ASSUME NEW e \in Event, PushJobEvent(e) PROVE FALSE
    BY <2>5, <2>6 DEF PushJobEvent, tables
  <2>7. ASSUME NEW x \in running, PushJobResult(x) PROVE FALSE
    BY <2>5, <2>7 DEF PushJobResult, tables
  <2>8. ~(TimerExpires \/ Clock \/ UNCHANGED vars)
    BY <2>5 DEF TimerExpires, Clock, vars, tables
  <2> QED
    BY <2>2, <2>3, <2>4, <2>6, <2>7, <2>8 DEF Next, scheduleLoop
<1> QED
  BY <1>1, TypeCorrect, PTL DEF Spec, TickAccounted
=============================================================================
