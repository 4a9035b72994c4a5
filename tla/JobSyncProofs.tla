--------------------------- MODULE JobSyncProofs ---------------------------
(***************************************************************************)
(* Proofs about JobSync, for any jobs, definitions, number of revisions    *)
(* and capacity of the queue.                                              *)
(***************************************************************************)
EXTENDS JobSync, WellFoundedInduction, TLAPS

-----------------------------------------------------------------------------
(* sets of revisions and queues                                            *)

\* The least of a set of revisions.
LEMMA MinRev ==
    ASSUME NEW S \in SUBSET Nat, S # {}
    PROVE  Min(S) \in S /\ \A y \in S : Min(S) <= y
<1> DEFINE R == OpToRel(<, Nat)
<1>1. \A x, y \in Nat : <<y, x>> \in R <=> y < x
  BY DEF OpToRel
<1>2. IsWellFoundedOn(R, Nat)
  BY NatLessThanWellFounded
<1> HIDE DEF R
<1>3. PICK x \in S : \A y \in S : ~(<<y, x>> \in R)
  BY <1>2, WFMin
<1>4. ASSUME NEW y \in S PROVE x <= y
  <2>1. x \in Nat /\ y \in Nat /\ ~(y < x)
    BY <1>1, <1>3
  <2> QED
    BY <2>1
<1> QED
  BY <1>4 DEF Min

\* The greatest of a set of revisions that ends somewhere: the least bound of it.
LEMMA MaxRevision ==
    ASSUME NEW n \in Nat, NEW S \in SUBSET (1..n), S # {}
    PROVE  Max(S) \in S /\ \A y \in S : y <= Max(S)
<1> DEFINE U == {u \in Nat : \A y \in S : y <= u}
           u0 == Min(U)
<1>1. U \in SUBSET Nat /\ n \in U /\ \A y \in S : y \in Nat \ {0}
  OBVIOUS
<1>2. u0 \in U /\ \A u \in U : u0 <= u
  BY <1>1, MinRev
<1>3. u0 \in S
  <2> SUFFICES ASSUME u0 \notin S PROVE FALSE
    OBVIOUS
  <2>1. PICK y \in S : TRUE
    OBVIOUS
  <2>2. u0 \in Nat \ {0} /\ \A z \in S : z <= u0
    BY <1>1, <1>2, <2>1
  <2> HIDE DEF u0, U
  <2>3. ASSUME NEW z \in S PROVE z <= u0 - 1
    BY <1>1, <2>2, <2>3
  <2>4. u0 - 1 \in U
    BY <2>2, <2>3 DEF U
  <2> QED
    BY <1>2, <2>2, <2>4
<1>4. \A y \in S : y <= u0 /\ u0 \in Nat
  BY <1>2
<1> HIDE DEF u0, U
<1>5. \E x \in S : \A y \in S : x >= y
  BY <1>3, <1>4
<1>6. Max(S) = CHOOSE x \in S : \A y \in S : x >= y
  BY DEF Max
<1>7. Max(S) \in S /\ \A y \in S : Max(S) >= y
  BY <1>5, <1>6
<1> QED
  BY <1>7

LEMMA HeadTail ==
    ASSUME NEW S, NEW s \in Seq(S), s # <<>>
    PROVE  /\ Head(s) \in S /\ Head(s) = s[1] /\ Len(s) \in Nat \ {0}
           /\ Tail(s) \in Seq(S) /\ Len(Tail(s)) = Len(s) - 1
           /\ \A i \in 1..Len(Tail(s)) : i + 1 \in 1..Len(s) /\ Tail(s)[i] = s[i + 1]
  OBVIOUS

LEMMA AppendFacts ==
    ASSUME NEW S, NEW s \in Seq(S), NEW x \in S
    PROVE  /\ Append(s, x) \in Seq(S) /\ Len(Append(s, x)) = Len(s) + 1 /\ Len(s) \in Nat
           /\ \A i \in 1..Len(s) : Append(s, x)[i] = s[i]
           /\ Append(s, x)[Len(s) + 1] = x
  OBVIOUS

-----------------------------------------------------------------------------
(* the history of etcd                                                     *)

\* ModRev and ValueAt of a history.
Mods(h, j, r) == {i \in 1..r : h[i].type \in JobChange /\ h[i].job = j}
LastMod(h, j, r) == IF Mods(h, j, r) = {} THEN 0 ELSE Max(Mods(h, j, r))
ValueIn(h, j, r) == IF LastMod(h, j, r) = 0 \/ h[LastMod(h, j, r)].type = "delete"
                    THEN NoJob ELSE h[LastMod(h, j, r)].val

LEMMA LastModFacts ==
    ASSUME NEW h, NEW j, NEW r \in Nat
    PROVE  /\ LastMod(h, j, r) = 0 => Mods(h, j, r) = {}
           /\ LastMod(h, j, r) # 0 => /\ LastMod(h, j, r) \in Mods(h, j, r)
                                      /\ \A i \in Mods(h, j, r) : i <= LastMod(h, j, r)
<1> DEFINE S == Mods(h, j, r)
<1>1. S \in SUBSET (1..r)
  BY DEF Mods
<1>2. CASE S = {}
  BY <1>2 DEF LastMod
<1>3. CASE S # {}
  <2>1. LastMod(h, j, r) = Max(S)
    BY <1>3 DEF LastMod
  <2>2. Max(S) \in S /\ \A y \in S : y <= Max(S)
    BY <1>1, <1>3, MaxRevision
  <2>3. Max(S) # 0
    BY <1>1, <2>2
  <2> QED
    BY <2>1, <2>2, <2>3
<1> QED
  BY <1>2, <1>3

\* There is one last modification.
LEMMA LastModIs ==
    ASSUME NEW h, NEW j, NEW r \in Nat, NEW m \in Mods(h, j, r),
           \A i \in Mods(h, j, r) : i <= m
    PROVE  LastMod(h, j, r) = m
<1>1. LastMod(h, j, r) # 0
  BY LastModFacts
<1>2. LastMod(h, j, r) \in Mods(h, j, r) /\ m <= LastMod(h, j, r) /\ LastMod(h, j, r) <= m
  BY <1>1, LastModFacts
<1>3. m \in Nat /\ LastMod(h, j, r) \in Nat
  BY <1>2 DEF Mods
<1> QED
  BY <1>2, <1>3

\* What a history says up to a revision, a longer one says too.
LEMMA SameValue ==
    ASSUME NEW h, NEW g, NEW j, NEW r \in Nat, \A i \in 1..r : g[i] = h[i]
    PROVE  LastMod(g, j, r) = LastMod(h, j, r) /\ ValueIn(g, j, r) = ValueIn(h, j, r)
<1>1. Mods(g, j, r) = Mods(h, j, r)
  BY DEF Mods
<1>2. LastMod(g, j, r) = LastMod(h, j, r)
  BY <1>1 DEF LastMod
<1>3. LastMod(h, j, r) # 0 => LastMod(h, j, r) \in 1..r
  BY LastModFacts DEF Mods
<1> QED
  BY <1>2, <1>3 DEF ValueIn

\* A modification of a job sets its value; the others' stay, and so do all where
\* no job is modified.
LEMMA NextValue ==
    ASSUME NEW h, NEW j, NEW r \in Nat, NEW s \in Nat, r < s,
           \A i \in (r + 1)..(s - 1) : h[i].type \notin JobChange
    PROVE  /\ h[s].type \in JobChange /\ h[s].job = j =>
                 ValueIn(h, j, s) = IF h[s].type = "delete" THEN NoJob ELSE h[s].val
           /\ ~(h[s].type \in JobChange /\ h[s].job = j) => ValueIn(h, j, s) = ValueIn(h, j, r)
<1>1. CASE h[s].type \in JobChange /\ h[s].job = j
  <2>1. s \in Mods(h, j, s) /\ \A i \in Mods(h, j, s) : i <= s
    BY <1>1 DEF Mods
  <2>2. LastMod(h, j, s) = s /\ s # 0
    BY <2>1, LastModIs
  <2> QED
    BY <1>1, <2>2 DEF ValueIn
<1>2. CASE ~(h[s].type \in JobChange /\ h[s].job = j)
  <2>1. \A i \in 1..s : i \in 1..r \/ i \in (r + 1)..(s - 1) \/ i = s
    OBVIOUS
  <2>2. \A i \in 1..r : i \in 1..s
    OBVIOUS
  <2>3. Mods(h, j, s) = Mods(h, j, r)
    BY <1>2, <2>1, <2>2 DEF Mods
  <2> QED
    BY <1>2, <2>3 DEF ValueIn, LastMod
<1> QED
  BY <1>1, <1>2

-----------------------------------------------------------------------------
(* the queue of events                                                     *)

\* The events that change a job in memory, and what they make of it.
Concerns(e, j) == e.type # "kill" /\ e.job = j
Told(e) == IF e.type = "save" THEN e.val ELSE NoJob

\* Events queue, and the job in memory is j's: the last event of j, or if there
\* is none the job in memory, has the value val, unless that does not decode.
Tracked(queue, j, val, inMemory) ==
    /\ \A i \in 1..Len(queue) :
          /\ Concerns(queue[i], j)
          /\ \A k \in (i + 1)..Len(queue) : ~Concerns(queue[k], j)
          => val \in {Told(queue[i]), Garbage}
    /\ (\A i \in 1..Len(queue) : ~Concerns(queue[i], j)) => val \in {inMemory, Garbage}

LEMMA TrackedAppend ==
    ASSUME NEW queue \in Seq(Event), NEW e \in Event, NEW j, NEW val, NEW inMemory, NEW value,
           IF Concerns(e, j) THEN val \in {Told(e), Garbage}
                             ELSE val = value /\ Tracked(queue, j, value, inMemory)
    PROVE  Tracked(Append(queue, e), j, val, inMemory)
<1> DEFINE q == Append(queue, e)
<1>1. /\ Len(queue) \in Nat /\ Len(q) = Len(queue) + 1 /\ q[Len(queue) + 1] = e
      /\ \A i \in 1..Len(queue) : q[i] = queue[i]
  BY AppendFacts
<1>2. \A i \in 1..Len(q) : i \in 1..Len(queue) \/ i = Len(queue) + 1
  BY <1>1
<1>3. /\ Len(queue) + 1 \in 1..Len(q)
      /\ \A i \in 1..Len(queue) : i \in 1..Len(q) /\ Len(queue) + 1 \in (i + 1)..Len(q)
      /\ \A i \in 1..Len(queue) : \A k \in (i + 1)..Len(queue) : k \in (i + 1)..Len(q) /\ k \in 1..Len(queue)
  BY <1>1
<1> HIDE DEF q
<1>4. Concerns(e, j) => Tracked(q, j, val, inMemory)
  BY <1>1, <1>2, <1>3 DEF Tracked
<1>5. ~Concerns(e, j) => Tracked(q, j, val, inMemory)
  BY <1>1, <1>2, <1>3 DEF Tracked
<1> QED
  BY <1>4, <1>5 DEF q

LEMMA TrackedTail ==
    ASSUME NEW queue \in Seq(Event), queue # <<>>, NEW j, NEW val, NEW inMemory,
           Tracked(queue, j, val, inMemory)
    PROVE  Tracked(Tail(queue), j, val,
                   IF Concerns(Head(queue), j) THEN Told(Head(queue)) ELSE inMemory)
<1> DEFINE q == Tail(queue)
           e == Head(queue)
<1>1. /\ Len(queue) \in Nat \ {0} /\ Len(q) = Len(queue) - 1 /\ e = queue[1]
      /\ \A i \in 1..Len(q) : i + 1 \in 1..Len(queue) /\ q[i] = queue[i + 1]
  BY HeadTail
<1> HIDE DEF q, e
<1>2. \A k \in 2..Len(queue) : k - 1 \in 1..Len(q) /\ q[k - 1] = queue[k]
  <2>1. ASSUME NEW k \in 2..Len(queue) PROVE k - 1 \in 1..Len(q) /\ (k - 1) + 1 = k
    BY <1>1
  <2> QED
    BY <1>1, <2>1
<1>3. ASSUME NEW i \in 1..Len(q), Concerns(q[i], j),
             \A k \in (i + 1)..Len(q) : ~Concerns(q[k], j)
      PROVE  val \in {Told(q[i]), Garbage}
  <2>1. ASSUME NEW k \in ((i + 1) + 1)..Len(queue) PROVE ~Concerns(queue[k], j)
    <3>1. k \in 2..Len(queue) /\ k - 1 \in (i + 1)..Len(q)
      BY <1>1
    <3> QED
      BY <1>2, <1>3, <3>1
  <2> QED
    BY <1>1, <1>3, <2>1 DEF Tracked
<1>4. ASSUME \A i \in 1..Len(q) : ~Concerns(q[i], j)
      PROVE  val \in {IF Concerns(e, j) THEN Told(e) ELSE inMemory, Garbage}
  <2>1. \A k \in 2..Len(queue) : ~Concerns(queue[k], j)
    BY <1>2, <1>4
  <2>2. 1 \in 1..Len(queue) /\ 1 + 1 = 2 /\ \A i \in 1..Len(queue) : i = 1 \/ i \in 2..Len(queue)
    BY <1>1
  <2>3. CASE Concerns(e, j)
    BY <1>1, <2>1, <2>2, <2>3 DEF Tracked
  <2>4. CASE ~Concerns(e, j)
    BY <1>1, <2>1, <2>2, <2>4 DEF Tracked
  <2> QED
    BY <2>3, <2>4
<1>5. Tracked(q, j, val, IF Concerns(e, j) THEN Told(e) ELSE inMemory)
  BY <1>3, <1>4 DEF Tracked
<1> QED
  BY <1>5 DEF q, e

\* The events of a job are in the order of their revisions, and later than the
\* last one handled.
Ordered(queue, done) ==
    \A i \in 1..Len(queue) : queue[i].type # "kill" =>
       /\ done[queue[i].job] < queue[i].rev
       /\ \A k \in 1..Len(queue) :
             queue[k].type # "kill" /\ i < k /\ queue[k].job = queue[i].job =>
                queue[i].rev < queue[k].rev

LEMMA OrderedAppend ==
    ASSUME NEW queue \in Seq(Event), NEW e \in Event, NEW done, Ordered(queue, done),
           e.type # "kill" =>
              /\ done[e.job] < e.rev
              /\ \A i \in 1..Len(queue) : Concerns(queue[i], e.job) => queue[i].rev < e.rev
    PROVE  Ordered(Append(queue, e), done)
<1> DEFINE q == Append(queue, e)
<1>1. /\ Len(queue) \in Nat /\ Len(q) = Len(queue) + 1 /\ q[Len(queue) + 1] = e
      /\ \A i \in 1..Len(queue) : q[i] = queue[i]
  BY AppendFacts
<1>2. \A i \in 1..Len(q) : i \in 1..Len(queue) \/ i = Len(queue) + 1
  BY <1>1
<1>3. \A k \in 1..Len(q) : ~(Len(queue) + 1 < k)
  BY <1>1
<1> HIDE DEF q
<1>4. Ordered(q, done)
  BY <1>1, <1>2, <1>3 DEF Ordered, Concerns
<1> QED
  BY <1>4 DEF q

LEMMA EventFields ==
    ASSUME NEW e \in Event
    PROVE  /\ e.type \in {"save", "delete", "kill"} /\ e.job \in Job /\ e.rev \in Rev
           /\ e.type = "save" => e.val \in Val
  BY DEF Event

LEMMA OrderedTail ==
    ASSUME NEW queue \in Seq(Event), queue # <<>>, NEW done \in [Job -> 0..MaxRev],
           Ordered(queue, done)
    PROVE  Ordered(Tail(queue), IF Head(queue).type = "kill" THEN done
                                ELSE [done EXCEPT ![Head(queue).job] = Head(queue).rev])
<1> DEFINE q == Tail(queue)
           e == Head(queue)
           new == IF e.type = "kill" THEN done ELSE [done EXCEPT ![e.job] = e.rev]
<1>1. /\ Len(queue) \in Nat \ {0} /\ Len(q) = Len(queue) - 1 /\ e = queue[1]
      /\ \A i \in 1..Len(q) : i + 1 \in 1..Len(queue) /\ q[i] = queue[i + 1]
  BY HeadTail
<1>2. \A i \in 1..Len(queue) : queue[i] \in Event /\ queue[i].job \in Job
  BY EventFields
<1>3. \A j \in Job : new[j] = IF e.type # "kill" /\ e.job = j THEN e.rev ELSE done[j]
  OBVIOUS
<1> HIDE DEF q, e, new
<1>4. 1 \in 1..Len(queue) /\ \A i \in 1..Len(q) : 1 < i + 1 /\ \A k \in 1..Len(q) : i < k => i + 1 < k + 1
  BY <1>1
<1>5. ASSUME NEW i \in 1..Len(q), q[i].type # "kill"
      PROVE  /\ new[q[i].job] < q[i].rev
             /\ \A k \in 1..Len(q) : q[k].type # "kill" /\ i < k /\ q[k].job = q[i].job =>
                                        q[i].rev < q[k].rev
  <2>1. q[i] = queue[i + 1] /\ i + 1 \in 1..Len(queue) /\ q[i].job \in Job
    BY <1>1, <1>2
  <2>2. done[q[i].job] < q[i].rev
    BY <1>5, <2>1 DEF Ordered
  <2>3. e.type # "kill" /\ e.job = q[i].job => e.rev < q[i].rev
    BY <1>1, <1>4, <1>5, <2>1 DEF Ordered
  <2>4. new[q[i].job] < q[i].rev
    BY <1>3, <2>1, <2>2, <2>3
  <2> QED
    BY <1>1, <1>4, <1>5, <2>1, <2>4 DEF Ordered
<1>6. Ordered(q, new)
  BY <1>5 DEF Ordered
<1> QED
  BY <1>6 DEF q, new, e

-----------------------------------------------------------------------------
(* the inductive invariant                                                 *)

\* The worker has got its jobs and is still told of their changes: up to which
\* revision it has brought them to the queue.
Listening == state \in {"load", "watch"}
Brought == IF state = "load" THEN jobRev ELSE jobRev - 1

\* A watch is not ahead of etcd.
Positions == /\ jobRev <= Len(hist) + 1
             /\ state = "load" => jobRev <= Len(hist)
             /\ state = "watch" => jobRev # 0

\* The jobs of the Get that are still to be pushed decode, and no event of them
\* has been pushed yet.
SnapshotInv == \A j \in snapshot : /\ state = "load" /\ ValueIn(hist, j, jobRev) \in Val
                                   /\ handled[j] = 0
                                   /\ \A i \in 1..Len(jobEventChan) : ~Concerns(jobEventChan[i], j)

\* A worker that has not read etcd knows of no job.
Fresh == state \in {"down", "init"} =>
            \A j \in Job : /\ jobs[j] = NoJob /\ handled[j] = 0
                           /\ \A i \in 1..Len(jobEventChan) : ~Concerns(jobEventChan[i], j)

\* Nothing handled or queued is newer than what was brought.
UpToBrought == Listening => /\ \A j \in Job : handled[j] <= Brought
                            /\ \A i \in 1..Len(jobEventChan) :
                                  jobEventChan[i].type # "kill" => jobEventChan[i].rev <= Brought

\* What was brought of a job is its last event in the queue or, when it has none
\* there, the job in memory.
InSync == Listening => \A j \in Job \ snapshot :
                          Tracked(jobEventChan, j, ValueIn(hist, j, Brought), jobs[j])

SyncInv == /\ TypeOK /\ Positions /\ SnapshotInv /\ Fresh /\ UpToBrought
           /\ Ordered(jobEventChan, handled) /\ InSync

LEMMA BroughtFacts ==
    ASSUME SyncInv
    PROVE  /\ Len(hist) \in Nat /\ jobRev \in Nat /\ MaxRev \in Nat
           /\ Listening => Brought \in Nat /\ Brought <= Len(hist) /\ Brought < jobRev + 1
           /\ state = "watch" => jobRev = Brought + 1
           /\ state = "load" => jobRev = Brought
<1>1. Len(hist) \in Nat /\ jobRev \in Nat /\ MaxRev \in Nat
  BY SyncAssumption DEF SyncInv, TypeOK
<1> QED
  BY <1>1 DEF SyncInv, Positions, Listening, Brought

\* The masters' requests and the expiry of a killer key only add to the history.
LEMMA HistGrows ==
    ASSUME SyncInv, NEW c \in Change, Modify(c), UNCHANGED worker,
           killCall' \in SUBSET Job, killKey' \in SUBSET Job
    PROVE  SyncInv'
<1>1. /\ hist' \in Seq(Change) /\ Len(hist') = Len(hist) + 1 /\ Len(hist) < MaxRev
      /\ \A i \in 1..Len(hist) : hist'[i] = hist[i]
  BY AppendFacts DEF Modify, SyncInv, TypeOK
<1>2. UNCHANGED <<state, snapshot, jobRev, killRev, jobEventChan, jobs, handled>>
  BY DEF worker
<1>3. TypeOK'
  BY <1>1, <1>2, BroughtFacts DEF SyncInv, TypeOK
<1>4. Positions'
  BY <1>1, <1>2, BroughtFacts DEF SyncInv, Positions
<1>5. ASSUME NEW r \in Nat, r <= Len(hist), NEW j PROVE ValueIn(hist', j, r) = ValueIn(hist, j, r)
  <2>1. \A i \in 1..r : hist'[i] = hist[i]
    BY <1>1, <1>5, BroughtFacts
  <2> QED
    BY <2>1, SameValue
<1>6. SnapshotInv'
  BY <1>2, <1>5, BroughtFacts DEF SyncInv, SnapshotInv, Positions
<1>7. Fresh' /\ UpToBrought' /\ Ordered(jobEventChan, handled)'
  BY <1>2 DEF SyncInv, Fresh, UpToBrought, Listening, Brought, Ordered
<1>8. InSync'
  <2>1. Listening' = Listening /\ Brought' = Brought
    BY <1>2 DEF Listening, Brought
  <2>2. Listening => \A j \in Job : ValueIn(hist', j, Brought) = ValueIn(hist, j, Brought)
    BY <1>5, BroughtFacts
  <2> QED
    BY <1>2, <2>1, <2>2 DEF SyncInv, InSync
<1> QED
  BY <1>3, <1>4, <1>6, <1>7, <1>8 DEF SyncInv

LEMMA MastersStep ==
    ASSUME SyncInv, Masters
    PROVE  SyncInv'
<1> PICK j \in Job : \/ \E v \in Val : SaveJob(j, v)
                     \/ ForeignPut(j) \/ DeleteJob(j)
                     \/ KillJobGrant(j) \/ KillJobPut(j) \/ KillJobFails(j) \/ KillerExpires(j)
  BY DEF Masters
<1>1. killCall \in SUBSET Job /\ killKey \in SUBSET Job
  BY DEF SyncInv, TypeOK
<1>2. ASSUME NEW v \in Val, SaveJob(j, v) PROVE SyncInv'
  <2>1. [type |-> "put", job |-> j, val |-> v] \in Change
    BY DEF Change
  <2> QED
    BY <1>1, <1>2, <2>1, HistGrows DEF SaveJob
<1>3. CASE ForeignPut(j)
  <2>1. [type |-> "put", job |-> j, val |-> Garbage] \in Change
    BY DEF Change
  <2> QED
    BY <1>1, <1>3, <2>1, HistGrows DEF ForeignPut
<1>4. \A type \in {"delete", "kill", "expire"} : [type |-> type, job |-> j] \in Change
  BY DEF Change
<1>5. CASE DeleteJob(j)
  BY <1>1, <1>4, <1>5, HistGrows DEF DeleteJob
<1>6. CASE KillJobPut(j)
  <2>1. killCall' \in SUBSET Job /\ killKey' \in SUBSET Job
    BY <1>1, <1>6 DEF KillJobPut
  <2> QED
    BY <1>4, <1>6, <2>1, HistGrows DEF KillJobPut
<1>7. CASE KillerExpires(j)
  <2>1. killCall' \in SUBSET Job /\ killKey' \in SUBSET Job
    BY <1>1, <1>7 DEF KillerExpires
  <2> QED
    BY <1>4, <1>7, <2>1, HistGrows DEF KillerExpires
<1>8. CASE KillJobGrant(j) \/ KillJobFails(j)
  <2>1. killCall' \in SUBSET Job /\ UNCHANGED <<hist, killKey, worker>>
    BY <1>1, <1>8 DEF KillJobGrant, KillJobFails
  <2> QED
    BY <2>1 DEF worker, SyncInv, TypeOK, Positions, SnapshotInv, Fresh, UpToBrought, InSync,
                Listening, Brought
<1> QED
  BY <1>2, <1>3, <1>5, <1>6, <1>7, <1>8

\* The model's operators are those on its history.
LEMMA HistValues ==
    ASSUME NEW j, NEW r
    PROVE  ModRev(j, r) = LastMod(hist, j, r) /\ ValueAt(j, r) = ValueIn(hist, j, r)
<1>1. ModRev(j, r) = LastMod(hist, j, r)
  BY DEF ModRev, LastMod, Mods
<1> QED
  BY <1>1 DEF ValueAt, ValueIn

\* What a key may hold, and the modification that it comes from.
LEMMA ValueType ==
    ASSUME SyncInv, NEW j, NEW r \in Nat, r <= Len(hist)
    PROVE  /\ ValueIn(hist, j, r) \in Val \cup {Garbage, NoJob}
           /\ ValueIn(hist, j, r) # NoJob =>
                 /\ LastMod(hist, j, r) \in 1..r
                 /\ hist[LastMod(hist, j, r)].type = "put"
                 /\ hist[LastMod(hist, j, r)].job = j
                 /\ hist[LastMod(hist, j, r)].val = ValueIn(hist, j, r)
<1> DEFINE m == LastMod(hist, j, r)
<1>1. CASE m = 0
  BY <1>1 DEF ValueIn
<1>2. CASE m # 0
  <2>1. m \in 1..r /\ hist[m].type \in JobChange /\ hist[m].job = j
    BY <1>2, LastModFacts DEF Mods
  <2>2. hist[m] \in Change
    <3>1. m \in 1..Len(hist)
      BY <2>1, BroughtFacts
    <3> QED
      BY <3>1 DEF SyncInv, TypeOK
  <2>3. hist[m].type = "put" => hist[m].val \in Val \cup {Garbage}
    BY <2>2 DEF Change
  <2> HIDE DEF m
  <2>4. ValueIn(hist, j, r) = IF hist[m].type = "delete" THEN NoJob ELSE hist[m].val
    BY <1>2 DEF ValueIn, m
  <2> QED
    BY <2>1, <2>3, <2>4 DEF JobChange, m
<1> QED
  BY <1>1, <1>2

\* Starts, crashes and the ends of watches.
LEMMA LifeStep ==
    ASSUME SyncInv, Start \/ Crash \/ GetJobsFails \/ JobsWatchEnds
    PROVE  SyncInv'
<1> USE DEF SyncInv, TypeOK, State, Positions, SnapshotInv, Fresh, UpToBrought, InSync, Listening,
            Ordered
<1>1. CASE Start
  BY <1>1, BroughtFacts DEF Start, etcd
<1>2. CASE GetJobsFails
  BY <1>2, BroughtFacts DEF GetJobsFails, etcd
<1>3. CASE JobsWatchEnds
  BY <1>3, BroughtFacts DEF JobsWatchEnds, etcd
<1>4. CASE Crash
  <2>1. /\ jobEventChan' = <<>> /\ snapshot' = {} /\ state' = "down"
        /\ jobRev' = 0 /\ killRev' = 0 /\ UNCHANGED <<hist, killCall, killKey>>
        /\ jobs' = [j \in Job |-> NoJob] /\ handled' = [j \in Job |-> 0]
    BY <1>4 DEF Crash, etcd
  <2>2. jobEventChan' \in Seq(Event) /\ Len(jobEventChan') = 0
    BY <2>1
  <2>3. MaxRev \in Nat /\ EventCap \in Nat /\ Len(hist) \in Nat
    BY SyncAssumption
  <2>4. TypeOK'
    BY <2>1, <2>2, <2>3
  <2>5. Positions' /\ SnapshotInv' /\ Fresh' /\ UpToBrought' /\ InSync' /\ Ordered(jobEventChan, handled)'
    BY <2>1, <2>2, <2>3
  <2> QED
    BY <2>4, <2>5
<1> QED
  BY <1>1, <1>2, <1>3, <1>4

\* The Get: what it returns is at hand as a whole before any of it is pushed.
LEMMA GetStep ==
    ASSUME SyncInv, GetJobs
    PROVE  SyncInv'
<1>1. /\ state = "init" /\ state' = "load" /\ jobRev' = Len(hist)
      /\ snapshot' = {j \in Job : ValueIn(hist, j, Len(hist)) \in Val}
      /\ UNCHANGED <<hist, killCall, killKey, killRev, jobEventChan, jobs, handled>>
  BY HistValues DEF GetJobs, Stored, etcd
<1>2. \A j \in Job : /\ jobs[j] = NoJob /\ handled[j] = 0
                     /\ \A i \in 1..Len(jobEventChan) : ~Concerns(jobEventChan[i], j)
  BY <1>1 DEF SyncInv, Fresh
<1>3. TypeOK'
  BY <1>1, BroughtFacts DEF SyncInv, TypeOK, State
<1>4. Positions' /\ SnapshotInv' /\ Fresh'
  BY <1>1, <1>2, BroughtFacts DEF Positions, SnapshotInv, Fresh
<1>5. \A i \in 1..Len(jobEventChan) : jobEventChan[i].type = "kill"
  <2>1. \A i \in 1..Len(jobEventChan) : jobEventChan[i] \in Event
    BY DEF SyncInv, TypeOK
  <2> QED
    BY <1>2, <2>1, EventFields DEF Concerns
<1>6. UpToBrought'
  BY <1>1, <1>2, <1>5, BroughtFacts DEF UpToBrought, Brought
<1>7. Ordered(jobEventChan, handled)'
  BY <1>1 DEF SyncInv
<1>8. InSync'
  <2>1. Brought' = Len(hist) /\ Len(hist) \in Nat
    BY <1>1, BroughtFacts DEF Brought
  <2>2. ASSUME NEW j \in Job \ snapshot' PROVE ValueIn(hist, j, Len(hist)) \in {NoJob, Garbage}
    BY <1>1, <2>1, ValueType
  <2> QED
    BY <1>1, <1>2, <2>1, <2>2 DEF InSync, Tracked
<1> QED
  BY <1>3, <1>4, <1>6, <1>7, <1>8 DEF SyncInv

\* The watch takes over where the Get ended.
LEMMA SnapshotDoneStep ==
    ASSUME SyncInv, SnapshotDone
    PROVE  SyncInv'
<1>1. /\ state = "load" /\ state' = "watch" /\ snapshot = {} /\ jobRev' = jobRev + 1
      /\ UNCHANGED <<hist, killCall, killKey, snapshot, killRev, jobEventChan, jobs, handled>>
  BY DEF SnapshotDone, WatchStart, etcd
<1>2. Brought' = Brought /\ Listening /\ Listening' /\ jobRev <= Len(hist)
  BY <1>1, BroughtFacts DEF Brought, Listening, SyncInv, Positions
<1>3. TypeOK' /\ Positions'
  BY <1>1, <1>2, BroughtFacts DEF SyncInv, TypeOK, State, Positions
<1>4. SnapshotInv' /\ Fresh'
  BY <1>1 DEF SnapshotInv, Fresh
<1>5. UpToBrought' /\ Ordered(jobEventChan, handled)' /\ InSync'
  BY <1>1, <1>2 DEF SyncInv, UpToBrought, InSync
<1> QED
  BY <1>3, <1>4, <1>5 DEF SyncInv

\* The watch of the killer keys is of no consequence to the jobs.
LEMMA KillerWatchStep ==
    ASSUME SyncInv, WatchKillerStart \/ KillerWatchEnds
    PROVE  SyncInv'
<1>1. /\ UNCHANGED <<hist, killCall, killKey, state, snapshot, jobRev, jobEventChan, jobs, handled>>
      /\ killRev' \in {Len(hist) + 1, Ended}
  BY DEF WatchKillerStart, KillerWatchEnds, etcd
<1>2. TypeOK'
  BY <1>1, BroughtFacts DEF SyncInv, TypeOK
<1> QED
  BY <1>1, <1>2 DEF SyncInv, Positions, SnapshotInv, Fresh, UpToBrought, InSync, Listening, Brought

\* A queue with room takes one more event.
LEMMA PushType ==
    ASSUME SyncInv, NEW e \in Event, PushJobEvent(e)
    PROVE  /\ jobEventChan' \in Seq(Event) /\ Len(jobEventChan') <= EventCap
           /\ jobEventChan' = Append(jobEventChan, e)
           /\ Len(jobEventChan) \in Nat /\ Len(jobEventChan') = Len(jobEventChan) + 1
           /\ jobEventChan'[Len(jobEventChan) + 1] = e
           /\ \A i \in 1..Len(jobEventChan) : jobEventChan'[i] = jobEventChan[i]
           /\ \A i \in 1..Len(jobEventChan') : i \in 1..Len(jobEventChan) \/ i = Len(jobEventChan) + 1
<1>1. jobEventChan \in Seq(Event) /\ EventCap \in Nat
  BY SyncAssumption DEF SyncInv, TypeOK
<1> QED
  BY <1>1, AppendFacts DEF PushJobEvent

LEMMA SnapshotStep ==
    ASSUME SyncInv, NEW j \in Job, PushSnapshot(j)
    PROVE  SyncInv'
<1> DEFINE q == jobEventChan
           m == LastMod(hist, j, jobRev)
           e == [type |-> "save", job |-> j, val |-> ValueIn(hist, j, jobRev), rev |-> m]
<1>1. /\ state = "load" /\ j \in snapshot /\ snapshot' = snapshot \ {j}
      /\ UNCHANGED <<hist, killCall, killKey, state, jobRev, killRev, jobs, handled>>
  BY DEF PushSnapshot, etcd
<1>2. jobRev \in Nat /\ jobRev <= Len(hist) /\ Brought = jobRev /\ Listening /\ Len(hist) <= MaxRev
  BY <1>1, BroughtFacts DEF SyncInv, Positions, Listening, TypeOK
<1>3. ValueIn(hist, j, jobRev) \in Val /\ ValueIn(hist, j, jobRev) # NoJob
  BY <1>1, SyncAssumption DEF SyncInv, SnapshotInv
<1>4. /\ m \in 1..jobRev /\ hist[m].type = "put" /\ hist[m].job = j
      /\ hist[m].val = ValueIn(hist, j, jobRev)
  BY <1>2, <1>3, ValueType
<1>5. e \in Event /\ e.type # "kill" /\ e.rev = m /\ e.job = j /\ Told(e) = ValueIn(hist, j, jobRev)
  <2>1. m \in Rev
    BY <1>2, <1>4, BroughtFacts DEF Rev
  <2> QED
    BY <1>3, <2>1 DEF Event, Told
<1>6. PushJobEvent(e)
  <2>1. JobEventOf(m) = e
    BY <1>4 DEF JobEventOf
  <2> QED
    BY <2>1, HistValues DEF PushSnapshot
<1> HIDE DEF e, m
<1>7. TypeOK'
  BY <1>1, <1>5, <1>6, PushType DEF SyncInv, TypeOK
<1>8. Positions' /\ Fresh'
  BY <1>1 DEF SyncInv, Positions, Fresh
<1>9. SnapshotInv'
  BY <1>1, <1>5, <1>6, PushType DEF SyncInv, SnapshotInv, Concerns
<1>10. Brought' = Brought /\ Listening'
  BY <1>1 DEF Brought, Listening
<1>11. UpToBrought'
  <2>1. e.rev <= Brought
    BY <1>2, <1>4, <1>5
  <2> QED
    BY <1>1, <1>2, <1>5, <1>6, <1>10, <2>1, PushType DEF SyncInv, UpToBrought
<1>12. Ordered(jobEventChan, handled)'
  <2>1. handled[j] = 0 /\ \A i \in 1..Len(q) : ~Concerns(q[i], j)
    BY <1>1 DEF SyncInv, SnapshotInv
  <2>2. handled[e.job] < e.rev
    BY <1>2, <1>4, <1>5, <2>1
  <2>3. q \in Seq(Event) /\ Ordered(q, handled)
    BY DEF SyncInv, TypeOK
  <2>4. Ordered(Append(q, e), handled)
    BY <1>5, <2>1, <2>2, <2>3, OrderedAppend
  <2> QED
    BY <1>1, <1>5, <1>6, <2>4, PushType
<1>13. InSync'
  <2>1. q \in Seq(Event) /\ q' = Append(q, e)
    BY <1>5, <1>6, PushType DEF SyncInv, TypeOK
  <2>2. ASSUME NEW k \in Job \ snapshot'
        PROVE  Tracked(Append(q, e), k, ValueIn(hist, k, Brought), jobs[k])
    <3>1. CASE k = j
      BY <1>2, <1>5, <2>1, <3>1, TrackedAppend DEF Concerns
    <3>2. CASE k # j
      <4>1. ~Concerns(e, k) /\ Tracked(q, k, ValueIn(hist, k, Brought), jobs[k])
        BY <1>1, <1>2, <1>5, <2>2, <3>2 DEF SyncInv, InSync, Concerns
      <4> QED
        BY <1>5, <2>1, <4>1, TrackedAppend
    <3> QED
      BY <3>1, <3>2
  <2> QED
    BY <1>1, <1>10, <2>1, <2>2 DEF InSync
<1> QED
  BY <1>7, <1>8, <1>9, <1>11, <1>12, <1>13 DEF SyncInv

\* The next modification that a watch brings.
LEMMA FirstAhead ==
    ASSUME SyncInv, NEW r \in Nat \ {0}, NEW types, Ahead(r, types) # {}
    PROVE  LET rev == Min(Ahead(r, types))
           IN  /\ rev \in Rev /\ rev >= r /\ rev <= Len(hist)
               /\ hist[rev] \in Change /\ hist[rev].type \in types
               /\ \A i \in r..(rev - 1) : hist[i].type \notin types
<1> DEFINE S == Ahead(r, types)
           rev == Min(S)
<1>1. S \in SUBSET Nat /\ S \subseteq r..Len(hist) /\ Len(hist) \in Nat /\ MaxRev \in Nat
      /\ Len(hist) <= MaxRev
  BY BroughtFacts DEF Ahead, SyncInv, TypeOK
<1>2. rev \in S /\ \A y \in S : rev <= y
  BY <1>1, MinRev
<1> HIDE DEF rev
<1>3. rev \in Rev /\ rev >= r /\ rev <= Len(hist) /\ rev \in 1..Len(hist)
  BY <1>1, <1>2 DEF Rev
<1>4. hist[rev].type \in types /\ hist[rev] \in Change
  BY <1>2, <1>3 DEF Ahead, SyncInv, TypeOK
<1>5. ASSUME NEW i \in r..(rev - 1), hist[i].type \in types PROVE FALSE
  <2>1. i \in r..Len(hist)
    BY <1>1, <1>3
  <2>2. rev <= i
    BY <1>2, <1>5, <2>1 DEF Ahead
  <2> QED
    BY <1>3, <2>2
<1> QED
  BY <1>3, <1>4, <1>5 DEF rev

LEMMA WatchJobsStep ==
    ASSUME SyncInv, WatchJobs
    PROVE  SyncInv'
<1> DEFINE q == jobEventChan
           rev == Min(Ahead(jobRev, JobChange))
           e == JobEventOf(rev)
<1>1. /\ state = "watch" /\ Ahead(jobRev, JobChange) # {}
      /\ PushChange(rev) /\ jobRev' = rev + 1
      /\ UNCHANGED <<hist, killCall, killKey, state, snapshot, killRev, jobs, handled>>
  BY DEF WatchJobs, etcd
<1>2. /\ jobRev \in Nat \ {0} /\ jobRev = Brought + 1 /\ Brought \in Nat /\ Listening
      /\ Len(hist) \in Nat /\ MaxRev \in Nat
  BY <1>1, BroughtFacts DEF SyncInv, Positions, Listening
<1>3. /\ rev \in Rev /\ rev >= jobRev /\ rev <= Len(hist)
      /\ hist[rev] \in Change /\ hist[rev].type \in JobChange
      /\ \A i \in jobRev..(rev - 1) : hist[i].type \notin JobChange
  BY <1>1, <1>2, FirstAhead
<1> HIDE DEF rev
<1>4. rev \in Nat /\ Brought' = rev /\ Listening' /\ Brought < rev
  BY <1>1, <1>2, <1>3 DEF Brought, Listening, Rev
<1>5. snapshot = {}
  BY <1>1 DEF SyncInv, SnapshotInv
<1>6. \A j \in Job : /\ hist[rev].job = j =>
                           ValueIn(hist, j, rev) = IF hist[rev].type = "delete" THEN NoJob ELSE hist[rev].val
                     /\ hist[rev].job # j => ValueIn(hist, j, rev) = ValueIn(hist, j, Brought)
  <2>1. \A i \in (Brought + 1)..(rev - 1) : hist[i].type \notin JobChange
    BY <1>2, <1>3
  <2>2. Brought \in Nat /\ rev \in Nat /\ Brought < rev
    BY <1>2, <1>4
  <2> HIDE DEF q, e
  <2>3. \A j \in Job :
           /\ hist[rev].type \in JobChange /\ hist[rev].job = j =>
                 ValueIn(hist, j, rev) = IF hist[rev].type = "delete" THEN NoJob ELSE hist[rev].val
           /\ ~(hist[rev].type \in JobChange /\ hist[rev].job = j) =>
                 ValueIn(hist, j, rev) = ValueIn(hist, j, Brought)
    BY ONLY <2>1, <2>2, NextValue, Zenon
  <2> QED
    BY <1>3, <2>3
<1>7. Positions' /\ SnapshotInv' /\ Fresh'
  BY <1>1, <1>2, <1>3, <1>4, <1>5 DEF Positions, SnapshotInv, Fresh
<1>8. jobRev' \in 0..(MaxRev + 1)
  BY <1>1, <1>2, <1>3 DEF Rev
<1>9. \A j \in Job : Tracked(q, j, ValueIn(hist, j, Brought), jobs[j])
  BY <1>2, <1>5 DEF SyncInv, InSync
<1>10. /\ \A j \in Job : handled[j] \in Nat /\ handled[j] <= Brought
       /\ \A i \in 1..Len(q) : q[i].type # "kill" => q[i].rev \in Nat /\ q[i].rev <= Brought
  <2>1. q \in Seq(Event) /\ handled \in [Job -> 0..MaxRev]
    BY DEF SyncInv, TypeOK
  <2>2. \A i \in 1..Len(q) : q[i].rev \in Nat
    BY <2>1, EventFields DEF Rev
  <2> QED
    BY <1>2, <2>1, <2>2 DEF SyncInv, UpToBrought
<1>11. CASE ~Unpacks(hist[rev]) /\ UNCHANGED jobEventChan
  <2>1. hist[rev].type = "put" /\ hist[rev].val = Garbage
    BY <1>11 DEF Unpacks
  <2>2. TypeOK'
    BY <1>1, <1>8, <1>11 DEF SyncInv, TypeOK
  <2>3. UpToBrought'
    BY <1>1, <1>4, <1>2, <1>10, <1>11 DEF UpToBrought
  <2>4. Ordered(jobEventChan, handled)'
    BY <1>1, <1>11 DEF SyncInv
  <2>5. \A j \in Job : Tracked(q, j, ValueIn(hist, j, rev), jobs[j])
    BY <1>6, <1>9, <2>1 DEF Tracked
  <2>6. InSync'
    BY <1>1, <1>4, <1>11, <2>5 DEF InSync
  <2> QED
    BY <1>7, <2>2, <2>3, <2>4, <2>6 DEF SyncInv
<1>12. CASE Unpacks(hist[rev]) /\ PushJobEvent(e)
  <2>1. /\ e \in Event /\ e.type # "kill" /\ e.rev = rev /\ e.job = hist[rev].job
        /\ Told(e) = IF hist[rev].type = "delete" THEN NoJob ELSE hist[rev].val
    <3>1. CASE hist[rev].type = "put"
      <4>1. hist[rev].job \in Job /\ hist[rev].val \in Val
        BY <1>3, <1>12, <3>1 DEF Change, Unpacks
      <4> QED
        BY <1>3, <3>1, <4>1 DEF JobEventOf, Event, Told
    <3>2. CASE hist[rev].type = "delete"
      <4>1. hist[rev].job \in Job
        BY <1>3 DEF Change
      <4> QED
        BY <1>3, <3>2, <4>1 DEF JobEventOf, Event, Told
    <3> QED
      BY <1>3, <3>1, <3>2 DEF JobChange
  <2> HIDE DEF e
  <2>2. e.job \in Job /\ q \in Seq(Event) /\ q' = Append(q, e)
    BY <1>12, <2>1, EventFields, PushType DEF SyncInv, TypeOK
  <2>3. TypeOK'
    BY <1>1, <1>8, <1>12, <2>1, PushType DEF SyncInv, TypeOK
  <2>4. UpToBrought'
    <3>1. \A j \in Job : handled'[j] <= Brought'
      BY <1>1, <1>2, <1>4, <1>10
    <3>2. ASSUME NEW i \in 1..Len(q'), q'[i].type # "kill" PROVE q'[i].rev <= rev
      <4>1. CASE i \in 1..Len(q)
        BY <1>2, <1>4, <1>10, <1>12, <2>1, <3>2, <4>1, PushType
      <4>2. CASE i = Len(q) + 1
        BY <1>4, <1>12, <2>1, <4>2, PushType
      <4> QED
        BY <1>12, <2>1, <4>1, <4>2, PushType
    <3> QED
      BY <1>4, <3>1, <3>2 DEF UpToBrought
  <2>5. Ordered(jobEventChan, handled)'
    <3>1. handled[e.job] < e.rev
      BY <1>2, <1>4, <1>10, <2>1, <2>2
    <3>2. \A i \in 1..Len(q) : Concerns(q[i], e.job) => q[i].rev < e.rev
      BY <1>2, <1>4, <1>10, <2>1 DEF Concerns
    <3>3. Ordered(Append(q, e), handled)
      BY <2>1, <2>2, <3>1, <3>2, OrderedAppend DEF SyncInv
    <3> QED
      BY <1>1, <2>2, <3>3
  <2>6. ASSUME NEW j \in Job PROVE Tracked(Append(q, e), j, ValueIn(hist, j, rev), jobs[j])
    BY <1>6, <1>9, <2>1, <2>2, TrackedAppend DEF Concerns
  <2>7. InSync'
    BY <1>1, <1>4, <2>2, <2>6 DEF InSync
  <2> QED
    BY <1>7, <2>3, <2>4, <2>5, <2>7 DEF SyncInv
<1> QED
  BY <1>1, <1>11, <1>12 DEF PushChange

\* The kills go through the same queue, and change no job.
LEMMA WatchKillerStep ==
    ASSUME SyncInv, WatchKiller
    PROVE  SyncInv'
<1> DEFINE q == jobEventChan
           rev == Min(Ahead(killRev, KillChange))
           e == KillEventOf(rev)
<1>1. /\ killRev # 0 /\ Ahead(killRev, KillChange) # {}
      /\ PushKill(rev) /\ killRev' = rev + 1
      /\ UNCHANGED <<hist, killCall, killKey, state, snapshot, jobRev, jobs, handled>>
  BY DEF WatchKiller, etcd
<1>2. killRev \in Nat \ {0} /\ MaxRev \in Nat
  BY <1>1, BroughtFacts DEF SyncInv, TypeOK, Ended
<1>3. rev \in Rev /\ hist[rev] \in Change /\ hist[rev].job \in Job
  <2>1. rev \in Rev /\ hist[rev] \in Change
    BY <1>1, <1>2, FirstAhead
  <2> QED
    BY <2>1 DEF Change
<1> HIDE DEF rev
<1>4. killRev' \in 0..(MaxRev + 1)
  BY <1>1, <1>2, <1>3 DEF Rev
<1>5. Positions' /\ Brought' = Brought /\ Listening' = Listening
  BY <1>1 DEF SyncInv, Positions, Brought, Listening
<1>6. CASE UNCHANGED jobEventChan
  <2>1. TypeOK'
    BY <1>1, <1>4, <1>6 DEF SyncInv, TypeOK
  <2> QED
    BY <1>1, <1>5, <1>6, <2>1 DEF SyncInv, SnapshotInv, Fresh, UpToBrought, InSync
<1>7. CASE PushJobEvent(e)
  <2>1. e \in Event /\ e.type = "kill" /\ \A j : ~Concerns(e, j)
    BY <1>3 DEF KillEventOf, Event, Concerns
  <2> HIDE DEF e
  <2>2. q \in Seq(Event) /\ q' = Append(q, e)
    BY <1>7, <2>1, PushType DEF SyncInv, TypeOK
  <2>3. TypeOK'
    BY <1>1, <1>4, <1>7, <2>1, PushType DEF SyncInv, TypeOK
  <2>4. \A j : (\A i \in 1..Len(q) : ~Concerns(q[i], j)) => \A i \in 1..Len(q') : ~Concerns(q'[i], j)
    BY <1>7, <2>1, PushType
  <2>5. SnapshotInv' /\ Fresh'
    BY <1>1, <2>4 DEF SyncInv, SnapshotInv, Fresh
  <2>6. UpToBrought'
    BY <1>1, <1>5, <1>7, <2>1, PushType DEF SyncInv, UpToBrought
  <2>7. Ordered(jobEventChan, handled)'
    BY <1>1, <2>1, <2>2, OrderedAppend DEF SyncInv
  <2>8. ASSUME Listening, NEW j \in Job \ snapshot
        PROVE  Tracked(Append(q, e), j, ValueIn(hist, j, Brought), jobs[j])
    BY <2>1, <2>2, <2>8, TrackedAppend DEF SyncInv, InSync
  <2>9. InSync'
    BY <1>1, <1>5, <2>2, <2>8 DEF InSync
  <2> QED
    BY <1>5, <2>3, <2>5, <2>6, <2>7, <2>9 DEF SyncInv
<1> QED
  BY <1>1, <1>6, <1>7 DEF PushKill

LEMMA HandleStep ==
    ASSUME SyncInv, HandleJobEvent
    PROVE  SyncInv'
<1> DEFINE q == jobEventChan
           e == Head(q)
<1>1. /\ q # <<>> /\ q' = Tail(q)
      /\ handled' = IF e.type = "kill" THEN handled ELSE [handled EXCEPT ![e.job] = e.rev]
      /\ UNCHANGED <<hist, killCall, killKey, state, snapshot, jobRev, killRev>>
  BY DEF HandleJobEvent, etcd
<1>2. /\ q \in Seq(Event) /\ e \in Event /\ e = q[1] /\ Len(q) \in Nat \ {0}
      /\ q' \in Seq(Event) /\ Len(q') = Len(q) - 1
      /\ \A i \in 1..Len(q') : i + 1 \in 1..Len(q) /\ q'[i] = q[i + 1]
      /\ jobs \in [Job -> Val \cup {NoJob}] /\ handled \in [Job -> 0..MaxRev]
  BY <1>1, HeadTail DEF SyncInv, TypeOK
<1>3. /\ jobs' \in [Job -> Val \cup {NoJob}]
      /\ \A j \in Job : jobs'[j] = IF Concerns(e, j) THEN Told(e) ELSE jobs[j]
  <2>1. jobs' = IF e.type = "kill" THEN jobs ELSE [jobs EXCEPT ![e.job] = Told(e)]
    BY <1>2, EventFields DEF HandleJobEvent, Told
  <2>2. Told(e) \in Val \cup {NoJob} /\ e.job \in Job
    BY <1>2, EventFields DEF Told
  <2> HIDE DEF e
  <2> QED
    BY <1>2, <2>1, <2>2 DEF Concerns
<1>4. /\ handled' \in [Job -> 0..MaxRev]
      /\ \A j \in Job : handled'[j] = IF Concerns(e, j) THEN e.rev ELSE handled[j]
  <2>1. e.rev \in 0..MaxRev /\ e.job \in Job
    BY <1>2, EventFields, BroughtFacts DEF Rev
  <2> HIDE DEF e
  <2> QED
    BY <1>1, <1>2, <2>1 DEF Concerns
<1>5. 1 \in 1..Len(q)
  BY <1>2
<1> HIDE DEF e
<1>6. TypeOK'
  BY <1>1, <1>2, <1>3, <1>4, SyncAssumption DEF SyncInv, TypeOK
<1>7. Positions' /\ Brought' = Brought /\ Listening' = Listening
  BY <1>1 DEF SyncInv, Positions, Brought, Listening
<1>8. \A j : (\A i \in 1..Len(q) : ~Concerns(q[i], j)) =>
                ~Concerns(e, j) /\ \A i \in 1..Len(q') : ~Concerns(q'[i], j)
  BY <1>2, <1>5
<1>9. SnapshotInv'
  <2>1. snapshot \subseteq Job
    BY DEF SyncInv, TypeOK
  <2> QED
    BY <1>1, <1>4, <1>8, <2>1 DEF SyncInv, SnapshotInv
<1>10. Fresh'
  BY <1>1, <1>3, <1>4, <1>8 DEF SyncInv, Fresh
<1>11. UpToBrought'
  <2>1. Listening /\ e.type # "kill" => e.rev <= Brought
    BY <1>2, <1>5 DEF SyncInv, UpToBrought
  <2>2. Listening => \A j \in Job : handled'[j] <= Brought
    BY <1>4, <2>1 DEF SyncInv, UpToBrought, Concerns
  <2>3. Listening => \A i \in 1..Len(q') : q'[i].type # "kill" => q'[i].rev <= Brought
    BY <1>2 DEF SyncInv, UpToBrought
  <2> QED
    BY <1>7, <2>2, <2>3 DEF UpToBrought
<1>12. Ordered(jobEventChan, handled)'
  <2>1. Ordered(q, handled)
    BY DEF SyncInv
  <2> QED
    BY <1>1, <1>2, <2>1, OrderedTail DEF e
<1>13. InSync'
  <2>1. ASSUME Listening, NEW j \in Job \ snapshot
        PROVE  Tracked(q', j, ValueIn(hist, j, Brought), jobs'[j])
    <3>1. Tracked(q, j, ValueIn(hist, j, Brought), jobs[j])
      BY <2>1 DEF SyncInv, InSync
    <3> QED
      BY <1>1, <1>2, <1>3, <3>1, TrackedTail DEF e
  <2> QED
    BY <1>1, <1>7, <2>1 DEF InSync
<1> QED
  BY <1>6, <1>7, <1>9, <1>10, <1>11, <1>12, <1>13 DEF SyncInv

LEMMA SyncInit == Init => SyncInv
<1> SUFFICES ASSUME Init PROVE SyncInv
  OBVIOUS
<1>1. TypeOK
  BY SyncAssumption DEF Init, TypeOK, State
<1> QED
  BY <1>1 DEF Init, SyncInv, Positions, SnapshotInv, Fresh, UpToBrought, InSync, Listening, Ordered

LEMMA SyncStep == SyncInv /\ [Next]_vars => SyncInv'
<1> SUFFICES ASSUME SyncInv, [Next]_vars PROVE SyncInv'
  OBVIOUS
<1>1. CASE UNCHANGED vars
  BY <1>1 DEF vars, etcd, worker, SyncInv, TypeOK, Positions, SnapshotInv, Fresh, UpToBrought,
              InSync, Listening, Brought
<1> QED
  BY <1>1, MastersStep, LifeStep, GetStep, SnapshotStep, SnapshotDoneStep, WatchJobsStep,
     KillerWatchStep, WatchKillerStep, HandleStep
  DEF Next, InitJobMgr

LEMMA SyncInvHolds == Spec => []SyncInv
  BY SyncInit, SyncStep, PTL DEF Spec

-----------------------------------------------------------------------------
\* Every variable keeps its type: in particular an event that watchJobs pushes,
\* for a job of the Get or for a watched change, always carries a definition
\* that decodes, and the queue its capacity.
THEOREM TypeCorrect == Spec => []TypeOK
  BY SyncInvHolds, PTL DEF SyncInv

\* The events of a job are handled once each, and in the order of etcd's
\* revisions: Get and watch deliver none twice, and none after a later one.
THEOREM InOrderTheorem == Spec => []InOrder
<1>1. SyncInv => InOrder
  BY DEF SyncInv, Ordered, InOrder, JobEvents
<1> QED
  BY <1>1, SyncInvHolds, PTL

\* Get and watch fit together: once the scheduler has no event of a job left to
\* handle, the job in memory is etcd's, as of the last revision that the watch
\* has brought (worker/JobMgr.go:95).
THEOREM ReplicaTheorem == Spec => []Replica
<1>1. SyncInv => Replica
  <2> SUFFICES ASSUME SyncInv, state = "watch", NEW j \in Job,
                      \A i \in JobEvents : jobEventChan[i].job # j
               PROVE  ValueAt(j, jobRev - 1) \in {jobs[j], Garbage}
    BY DEF Replica
  <2>1. \A i \in 1..Len(jobEventChan) : ~Concerns(jobEventChan[i], j)
    BY DEF JobEvents, Concerns
  <2>2. j \notin snapshot /\ Listening /\ Brought = jobRev - 1
    BY DEF SyncInv, SnapshotInv, Listening, Brought
  <2>3. ValueIn(hist, j, Brought) \in {jobs[j], Garbage}
    BY <2>1, <2>2 DEF SyncInv, InSync, Tracked
  <2> QED
    BY <2>2, <2>3, HistValues
<1> QED
  BY <1>1, SyncInvHolds, PTL
=============================================================================
