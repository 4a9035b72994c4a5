----------------------------- MODULE ApiServer -----------------------------
(***************************************************************************)
(* The HTTP interface of the masters: one handler per request, the calls   *)
(* of JobMgr, WorkerMgrETCD and LogMgr that it makes, and the answer it    *)
(* writes. Handlers, of one master or of several, run concurrently and     *)
(* share nothing but etcd and mongodb.                                     *)
(*                                                                         *)
(* Requests are numbered in the order in which they are made. What a save  *)
(* stores is known by the number of its request. etcd is the sequence of   *)
(* the modifications it has applied; a call that failed, or whose master   *)
(* died, may be applied later, but not twice: clientv3 does not repeat a   *)
(* modification that may have reached the server.                          *)
(***************************************************************************)
EXTENDS Integers, SequencesExt

CONSTANTS MaxReq,      \* bound: how many requests there are
          Job,         \* job names
          Log,         \* logs that workers, or others, may insert
          JobOf, StartTime, Decodes, \* of each log, its job, its start, and whether it decodes
          Param,       \* values of the parameters skip and limit: integers and NaN
          NaN,         \* a parameter that is missing or no number
          Asked,       \* the requests that are made
          FirstBatch,  \* how many logs mongodb returns at once (101)
          MaxForeign,  \* bound: how many modifications other clients of etcd make
          NoJob,       \* there is no such job; the nil of an old job
          Garbage,     \* a value that does not decode
          None         \* nothing yet

Req == 1..MaxReq
Foreign == 0

ASSUME ApiAssumption ==
    /\ MaxReq \in Nat /\ MaxForeign \in Nat /\ FirstBatch \in Nat \ {0}
    /\ JobOf \in [Log -> Job] /\ StartTime \in [Log -> Nat] /\ Decodes \in [Log -> BOOLEAN]
    /\ Param \subseteq Int \cup {NaN} /\ NaN \notin Int
    /\ NoJob \notin Nat \cup {Garbage} /\ Garbage \notin Nat

\* What may be asked: the routes of the server.
Ask == [type : {"save", "delete", "kill"}, job : Job]
          \cup [type : {"list", "workers"}]
          \cup [type : {"log"}, job : Job, skip : Param, limit : Param]

ASSUME AskedAssumption == Asked \subseteq Ask

Modifying == {"save", "delete", "kill"}

\* Response: a message stands for the error it comes from.
Response == [errno : {0}, msg : {"success"}] \cup [errno : {-1}, msg : {"form", "call", "decode"}]

VARIABLES
    pc,        \* where the request's handler is
    ask,       \* the request
    data,      \* what its call returned: the field data of a successful answer
    answer,    \* the answer that was written
    applied,   \* the modifications that etcd has applied
    inflight,  \* requests whose modification was given up but may still be applied
    logs,      \* the logs in mongodb
    since,     \* history: how much was applied when the request was made
    found      \* history: the logs there were when mongodb was queried

handlers == <<pc, ask, data, answer, since, found>>
vars == <<handlers, applied, inflight, logs>>

\* "empty": the handler has returned and written nothing.
PC == {"new", "call", "put", "reply", "answered", "empty", "lost"}

TypeOK ==
    /\ pc \in [Req -> PC]
    /\ ask \in [Req -> Ask \cup {None}] /\ answer \in [Req -> Response \cup {None}]
    /\ DOMAIN data = Req
    /\ \A r \in Req :
          \/ data[r] = None
          \/ ask[r].type \in {"save", "delete"} /\ data[r] \in Req \cup {NoJob}
          \/ ask[r].type = "list" /\ data[r] \in [Job -> Req \cup {NoJob}]
          \/ ask[r].type = "log" /\ DOMAIN data[r] \subseteq Nat /\ Range(data[r]) \subseteq Log
    /\ applied \in Seq([req : Req \cup {Foreign}, type : Modifying \cup {"garbage"}, job : Job])
    /\ inflight \in SUBSET Req
    /\ logs \in SUBSET Log
    /\ since \in [Req -> Nat] /\ found \in [Req -> SUBSET Log]

Init == /\ pc = [r \in Req |-> "new"]
        /\ ask = [r \in Req |-> None] /\ data = [r \in Req |-> None]
        /\ answer = [r \in Req |-> None]
        /\ applied = <<>> /\ inflight = {} /\ logs = {}
        /\ since = [r \in Req |-> 0] /\ found = [r \in Req |-> {}]

-----------------------------------------------------------------------------
(* etcd                                                                    *)

\* What is stored under a job's key after the first n modifications.
ValueAfter(j, n) ==
    LET last == CHOOSE m \in 0..n :
                   /\ m = 0 \/ (applied[m].job = j /\ applied[m].type # "kill")
                   /\ \A i \in (m + 1)..n : applied[i].job # j \/ applied[i].type = "kill"
    IN  IF last = 0 \/ applied[last].type = "delete" THEN NoJob
        ELSE IF applied[last].type = "garbage" THEN Garbage
        ELSE applied[last].req

Modification(r) == [req |-> r, type |-> ask[r].type, job |-> ask[r].job]

Apply(r) == applied' = Append(applied, Modification(r))

\* A modification that was given up is applied after all, or is lost. That of a
\* kill is rejected when its lease is gone.
LateApply(r) == /\ r \in inflight
                /\ inflight' = inflight \ {r}
                /\ Apply(r) \/ UNCHANGED applied
                /\ UNCHANGED <<handlers, logs>>

ForeignModifications == {i \in 1..Len(applied) : applied[i].req = Foreign}

\* Another client of etcd puts what is no job.
ForeignPut(j) == /\ Cardinality(ForeignModifications) < MaxForeign
                 /\ applied' = Append(applied, [req |-> Foreign, type |-> "garbage", job |-> j])
                 /\ UNCHANGED <<handlers, inflight, logs>>

\* Log sinks insert logs, in any order of their start times.
InsertLog(l) == /\ l \notin logs
                /\ logs' = logs \cup {l}
                /\ UNCHANGED <<handlers, applied, inflight>>

-----------------------------------------------------------------------------
(* the handlers                                                            *)

GoTo(r, place) == pc' = [pc EXCEPT ![r] = place]

\* A request arrives, and its handler starts.
Serve(r, a) ==
    /\ pc[r] = "new" /\ \A q \in 1..(r - 1) : pc[q] # "new"
    /\ GoTo(r, "call")
    /\ ask' = [ask EXCEPT ![r] = a]
    /\ since' = [since EXCEPT ![r] = Len(applied)]
    /\ UNCHANGED <<data, answer, found, applied, inflight, logs>>

\* A wrong label ERR: it writes no answer for a save either.
RefuseSilent(r, msg) ==
    IF ask[r].type \in {"kill", "save"}
    THEN GoTo(r, "empty") /\ UNCHANGED answer
    ELSE GoTo(r, "answered") /\ answer' = [answer EXCEPT ![r] = [errno |-> -1, msg |-> msg]]

\* The label ERR of the handlers. handleJobKill writes its answer there only if
\* it could not be built, which does not happen.
Refuse(r, msg) ==
    IF ask[r].type = "kill"
    THEN GoTo(r, "empty") /\ UNCHANGED answer
    ELSE GoTo(r, "answered") /\ answer' = [answer EXCEPT ![r] = [errno |-> -1, msg |-> msg]]

\* ParseForm, or the decoding of the job to save, fails.
BadForm(r) ==
    /\ pc[r] = "call" /\ ask[r].type \notin {"list", "workers"}
    /\ Refuse(r, "form")
    /\ UNCHANGED <<ask, data, since, found, applied, inflight, logs>>

\* The call has returned.
Returns(r, d) == /\ GoTo(r, "reply")
                 /\ data' = [data EXCEPT ![r] = d]
                 /\ UNCHANGED <<ask, answer, since, inflight, logs>>

\* A wrong old job: what was read before the modification.
OldJobStale(r) == LET old == ValueAfter(ask[r].job, since[r])
                  IN  IF old = Garbage THEN NoJob ELSE old

\* A wrong old job: one that does not decode is returned too.
OldJobRaw(r) == ValueAfter(ask[r].job, Len(applied))

\* The old job that SaveJob and DeleteJob return: what the modification
\* replaced, unless that does not decode.
OldJob(r) == LET old == ValueAfter(ask[r].job, Len(applied))
             IN  IF old = Garbage THEN NoJob ELSE old

SaveJob(r) == /\ pc[r] = "call" /\ ask[r].type = "save"
              /\ Apply(r) /\ Returns(r, OldJob(r)) /\ UNCHANGED found

\* To delete what does not exist is no error.
DeleteJob(r) == /\ pc[r] = "call" /\ ask[r].type = "delete"
                /\ Apply(r) /\ Returns(r, OldJob(r)) /\ UNCHANGED found

\* The jobs that decode, after the first n modifications.
Jobs(n) == [j \in Job |-> IF ValueAfter(j, n) = Garbage THEN NoJob ELSE ValueAfter(j, n)]

ListJobs(r) == /\ pc[r] = "call" /\ ask[r].type = "list"
               /\ Returns(r, Jobs(Len(applied))) /\ UNCHANGED <<found, applied>>

\* What ListWorkers lists is the subject of Register.
ListWorkers(r) == /\ pc[r] = "call" /\ ask[r].type = "workers"
                  /\ Returns(r, None) /\ UNCHANGED <<found, applied>>

\* KillJob: the lease ...
KillJobGrant(r) == /\ pc[r] = "call" /\ ask[r].type = "kill"
                   /\ GoTo(r, "put")
                   /\ UNCHANGED <<ask, data, answer, since, found, applied, inflight, logs>>

\* ... and the killer key.
KillJobPut(r) == /\ pc[r] = "put"
                 /\ Apply(r) /\ Returns(r, None) /\ UNCHANGED found

\* Sending(r): the handler waits for the answer to a modification.
Sending(r) == \/ pc[r] = "call" /\ ask[r].type \in {"save", "delete"}
              \/ pc[r] = "put"

\* A wrong call: it is made again.
CallFailsRetries(r) ==
    /\ pc[r] \in {"call", "put", "reply"}
    /\ GoTo(r, "call")
    /\ inflight' = inflight \cup {q \in {r} : Sending(q)}
    /\ UNCHANGED <<ask, data, answer, since, found, applied, logs>>

\* A call to etcd or mongodb returns an error. A modification may have been
\* applied, or may still be.
CallFails(r) ==
    /\ pc[r] \in {"call", "put", "reply"}
    /\ Refuse(r, "call")
    /\ inflight' = inflight \cup {q \in {r} : Sending(q)}
    /\ UNCHANGED <<ask, data, since, found, applied, logs>>

\* The call succeeded, and so did its handler.
Respond(r) ==
    /\ pc[r] = "reply"
    /\ GoTo(r, "answered")
    /\ answer' = [answer EXCEPT ![r] = [errno |-> 0, msg |-> "success"]]
    /\ UNCHANGED <<ask, data, since, found, applied, inflight, logs>>

\* The master that serves the request dies.
MasterCrash(r) ==
    /\ pc[r] \in {"call", "put", "reply"}
    /\ GoTo(r, "lost")
    /\ inflight' = inflight \cup {q \in {r} : Sending(q)}
    /\ UNCHANGED <<ask, data, answer, since, found, applied, logs>>

-----------------------------------------------------------------------------
(* handleJobLog and ListLog                                                *)

\* strconv.Atoi, and what is taken when it fails.
Skip(a) == IF a.skip = NaN THEN 0 ELSE a.skip
Limit(a) == IF a.limit = NaN THEN 20 ELSE a.limit

\* mongodb accepts the query.
Acceptable(a) == Skip(a) >= 0 /\ Limit(a) >= 0

\* A wrong skip: from which log on, counted from one.
FirstOffByOne(a) == Skip(a) + 2

\* The place of the first log of a page.
First(a) == Skip(a) + 1

\* The job's logs from the latest start to the earliest.
Sorted(j) == {s \in SetToSeqs({l \in logs : JobOf[l] = j}) :
                 \A i, k \in 1..Len(s) : i < k => StartTime[s[i]] >= StartTime[s[k]]}

\* The page that Find selects. A limit of 0 is none.
Page(s, a) ==
    SubSeq(s, First(a), IF Limit(a) = 0 THEN Len(s) ELSE Min({Len(s), Skip(a) + Limit(a)}))

\* What the loop over the cursor reads of a page: all of it or, when mongodb
\* fails to send another batch, what it sent before.
Read(page) == {SubSeq(page, 1, n) : n \in (FirstBatch..Len(page)) \cup {Len(page)}}

\* What the loop keeps: the logs that decode, each at its place.
Decoded(read) == RestrictValues(read, LAMBDA l : Decodes[l])

\* It leaves the error of the last log behind, although a log that does not
\* decode was meant to be ignored: then ListLog fails.
EndsInError(read) == read # <<>> /\ ~Decodes[Last(read)]

\* Find. A negative skip or limit, which Atoi accepts and the driver sends as it
\* is, is refused by mongodb: such a call can only fail.
ListLog(r) ==
    /\ pc[r] = "call" /\ ask[r].type = "log" /\ Acceptable(ask[r])
    /\ found' = [found EXCEPT ![r] = logs]
    /\ \E s \in Sorted(ask[r].job) : \E read \in Read(Page(s, ask[r])) :
          IF EndsInError(read)
          THEN Refuse(r, "decode") /\ UNCHANGED <<ask, data, since, inflight, logs>>
          ELSE Returns(r, Decoded(read))
    /\ UNCHANGED applied

-----------------------------------------------------------------------------
Handler(r) == \/ BadForm(r) \/ CallFails(r) \/ Respond(r)
              \/ SaveJob(r) \/ DeleteJob(r) \/ ListJobs(r) \/ ListWorkers(r)
              \/ KillJobGrant(r) \/ KillJobPut(r)
              \/ ListLog(r)

Next == \/ \E r \in Req : \E a \in Asked : Serve(r, a)
        \/ \E r \in Req : Handler(r) \/ MasterCrash(r) \/ LateApply(r)
        \/ \E j \in Job : ForeignPut(j)
        \/ \E l \in Log : InsertLog(l)

Spec == Init /\ [][Next]_vars

\* Handlers run and calls return. Nothing is assumed of what they return.
FairSpec == Spec /\ \A r \in Req : WF_vars(Handler(r))

-----------------------------------------------------------------------------
(* properties                                                              *)

AppliedFor(r) == {i \in 1..Len(applied) : applied[i].req = r}

\* Whatever fails, etcd applies a request at most once, after it was made, and
\* never one whose form was bad.
AtMostOnce ==
    \A r \in Req : \A i \in AppliedFor(r) :
       /\ AppliedFor(r) = {i} /\ since[r] < i
       /\ r \notin inflight
       /\ answer[r] = None \/ answer[r].msg # "form"

\* "errno 0: success" (ApiServer.go:109): a request that is answered so took
\* effect at one moment between its arrival and the answer. A modification was
\* applied, and its old job is what it replaced, not what some concurrent save
\* replaced (master/JobMgr.go:68); a list shows all jobs as they were at one
\* moment.
TookEffect(r) ==
    CASE ask[r].type \in {"save", "delete"} ->
            \E i \in AppliedFor(r) : data[r] = Jobs(i - 1)[ask[r].job]
      [] ask[r].type = "kill" -> AppliedFor(r) # {}
      [] ask[r].type = "list" -> \E n \in since[r]..Len(applied) : data[r] = Jobs(n)
      [] OTHER -> TRUE
Linearizable ==
    [][\A r \in Req : answer[r] = None /\ answer'[r] # None /\ answer'[r].errno = 0 =>
          TookEffect(r)]_vars

\* A request is answered, unless its master dies. The exception is a kill that
\* failed: its handler writes nothing (ApiServer.go:231), so that the browser
\* is told neither success nor failure. A kill that succeeded is answered.
Answered ==
    \A r \in Req : pc[r] = "call" ~>
                      \/ pc[r] \in {"answered", "lost"}
                      \/ pc[r] = "empty" /\ ask[r].type = "kill"

Shown(r) == ask[r] # None /\ answer[r] # None /\ ask[r].type = "log" /\ answer[r].errno = 0

\* Query s asks for the page after the one of query r.
NextPage(r, s) == /\ ask[s].job = ask[r].job
                  /\ Limit(ask[r]) \in 1..FirstBatch
                  /\ Skip(ask[r]) = 0 /\ Skip(ask[s]) = Limit(ask[r])
                  /\ found[r] \subseteq found[s]

\* Who reads the logs of a job page by page sees every log that was there when
\* he began and that comes before the end of the second page, although log
\* sinks insert logs, of earlier and of later starts, in between: they move
\* logs to later pages only. (Not so where starts are equal.)
PagesCover ==
    (\A k, l \in Log : k # l => StartTime[k] # StartTime[l]) =>
    \A r, s \in Req : Shown(r) /\ Shown(s) /\ NextPage(r, s) =>
       \A l \in found[r] :
          /\ JobOf[l] = ask[r].job /\ Decodes[l]
          /\ \E k \in Range(data[s]) : StartTime[l] >= StartTime[k]
          => l \in Range(data[r]) \cup Range(data[s])
=============================================================================
