-------------------------- MODULE ApiServerProofs --------------------------
(***************************************************************************)
(* Proofs about ApiServer, for any requests, jobs, logs, parameters and    *)
(* size of mongodb's first batch.                                          *)
(***************************************************************************)
EXTENDS ApiServer, FiniteSetTheorems, WellFoundedInduction, TLAPS

-----------------------------------------------------------------------------
(* the modifications of etcd                                               *)

Mod == [req : Req \cup {Foreign}, type : Modifying \cup {"garbage"}, job : Job]

\* ValueAfter, Jobs and AppliedFor of a sequence of modifications.
IsLast(a, j, n, m) == /\ m = 0 \/ (a[m].job = j /\ a[m].type # "kill")
                      /\ \A i \in (m + 1)..n : a[i].job # j \/ a[i].type = "kill"
LastIn(a, j, n) == CHOOSE m \in 0..n : IsLast(a, j, n, m)
ValueIn(a, j, n) == IF LastIn(a, j, n) = 0 \/ a[LastIn(a, j, n)].type = "delete" THEN NoJob
                    ELSE IF a[LastIn(a, j, n)].type = "garbage" THEN Garbage
                    ELSE a[LastIn(a, j, n)].req
JobsIn(a, n) == [j \in Job |-> IF ValueIn(a, j, n) = Garbage THEN NoJob ELSE ValueIn(a, j, n)]
OfRequest(a, r) == {i \in 1..Len(a) : a[i].req = r}

LEMMA Operators ==
    /\ \A j, n : ValueAfter(j, n) = ValueIn(applied, j, n)
    /\ \A n : Jobs(n) = JobsIn(applied, n)
    /\ \A r : AppliedFor(r) = OfRequest(applied, r)
<1>1. ASSUME NEW j, NEW n PROVE ValueAfter(j, n) = ValueIn(applied, j, n)
  BY DEF ValueAfter, ValueIn, LastIn, IsLast
<1>2. ASSUME NEW n PROVE Jobs(n) = JobsIn(applied, n)
  BY <1>1 DEF Jobs, JobsIn
<1>3. ASSUME NEW r PROVE AppliedFor(r) = OfRequest(applied, r)
  BY DEF AppliedFor, OfRequest
<1> QED
  BY <1>1, <1>2, <1>3

\* There is a last modification, or none: the least index that no later one is
\* a modification of the job.
LEMMA LastExists ==
    ASSUME NEW a, NEW j, NEW n \in Nat
    PROVE  LastIn(a, j, n) \in 0..n /\ IsLast(a, j, n, LastIn(a, j, n))
<1> DEFINE R == OpToRel(<, Nat)
           U == {m \in 0..n : \A i \in (m + 1)..n : a[i].job # j \/ a[i].type = "kill"}
<1>1. \A x, y \in Nat : <<y, x>> \in R <=> y < x
  BY DEF OpToRel
<1>2. IsWellFoundedOn(R, Nat)
  BY NatLessThanWellFounded
<1> HIDE DEF R
<1>3. U \in SUBSET Nat /\ n \in U
  OBVIOUS
<1> HIDE DEF U
<1>4. PICK m \in U : \A y \in U : ~(<<y, m>> \in R)
  BY <1>2, <1>3, WFMin
<1>5. m \in 0..n /\ \A i \in (m + 1)..n : a[i].job # j \/ a[i].type = "kill"
  BY DEF U
<1>6. m = 0 \/ (a[m].job = j /\ a[m].type # "kill")
  <2> SUFFICES ASSUME m # 0, ~(a[m].job = j /\ a[m].type # "kill") PROVE FALSE
    OBVIOUS
  <2>1. m - 1 \in 0..n /\ m - 1 < m /\ (m - 1) + 1 = m
    BY <1>5
  <2>2. \A i \in m..n : i = m \/ i \in (m + 1)..n
    BY <1>5
  <2>3. m - 1 \in U
    BY <1>5, <2>1, <2>2 DEF U
  <2> QED
    BY <1>1, <1>3, <1>4, <2>1, <2>3
<1>7. \E x \in 0..n : IsLast(a, j, n, x)
  BY <1>5, <1>6 DEF IsLast
<1> QED
  BY <1>7 DEF LastIn

LEMMA LastUnique ==
    ASSUME NEW a, NEW j, NEW n \in Nat, NEW m \in 0..n, NEW k \in 0..n,
           IsLast(a, j, n, m), IsLast(a, j, n, k)
    PROVE  m = k
<1>1. ~(m < k)
  <2> SUFFICES ASSUME m < k PROVE FALSE
    OBVIOUS
  <2>1. k \in (m + 1)..n /\ k # 0
    OBVIOUS
  <2> QED
    BY <2>1 DEF IsLast
<1>2. ~(k < m)
  <2> SUFFICES ASSUME k < m PROVE FALSE
    OBVIOUS
  <2>1. m \in (k + 1)..n /\ m # 0
    OBVIOUS
  <2> QED
    BY <2>1 DEF IsLast
<1> QED
  BY <1>1, <1>2

\* What is stored after the first n modifications does not depend on later ones.
LEMMA ValueStays ==
    ASSUME NEW a, NEW b, NEW n \in Nat, \A i \in 1..n : b[i] = a[i]
    PROVE  JobsIn(b, n) = JobsIn(a, n)
<1>1. ASSUME NEW j PROVE ValueIn(b, j, n) = ValueIn(a, j, n)
  <2> DEFINE m == LastIn(a, j, n)
             k == LastIn(b, j, n)
  <2>1. m \in 0..n /\ IsLast(a, j, n, m) /\ k \in 0..n /\ IsLast(b, j, n, k)
    BY LastExists
  <2> HIDE DEF m, k
  <2>2. \A i \in (k + 1)..n : i \in 1..n
    BY <2>1
  <2>3. k # 0 => k \in 1..n
    BY <2>1
  <2>4. IsLast(a, j, n, k)
    BY <2>1, <2>2, <2>3 DEF IsLast
  <2>5. m = k
    BY <2>1, <2>4, LastUnique
  <2> QED
    BY <2>3, <2>5 DEF ValueIn, m, k
<1> QED
  BY <1>1 DEF JobsIn

\* What is stored is a save's request, unless it does not decode or is not there:
\* other clients' modifications are the ones that do not decode.
LEMMA JobsType ==
    ASSUME NEW a \in Seq(Mod), NEW n \in Nat, n <= Len(a),
           \A i \in 1..Len(a) : a[i].req = Foreign => a[i].type = "garbage"
    PROVE  JobsIn(a, n) \in [Job -> Req \cup {NoJob}]
<1> SUFFICES ASSUME NEW j \in Job, ValueIn(a, j, n) # Garbage PROVE ValueIn(a, j, n) \in Req \cup {NoJob}
  BY DEF JobsIn
<1> DEFINE m == LastIn(a, j, n)
<1>1. m \in 0..n
  BY LastExists
<1>2. CASE m = 0 \/ a[m].type \in {"delete", "garbage"}
  BY <1>2 DEF ValueIn
<1>3. CASE m # 0 /\ a[m].type \notin {"delete", "garbage"}
  <2>1. m \in 1..Len(a)
    BY <1>1, <1>3
  <2>2. a[m] \in Mod /\ a[m].req # Foreign
    BY <1>3, <2>1
  <2>3. a[m].req \in Req
    BY <2>2 DEF Mod
  <2>4. ValueIn(a, j, n) = a[m].req
    BY <1>3 DEF ValueIn
  <2> QED
    BY <2>3, <2>4
<1> QED
  BY <1>2, <1>3

-----------------------------------------------------------------------------
(* the pages of a job's logs                                               *)

OfJob(L, j) == {l \in L : JobOf[l] = j}

\* Sorted of a set of logs.
SortedIn(L, j) == {s \in SetToSeqs(OfJob(L, j)) :
                      \A i, k \in 1..Len(s) : i < k => StartTime[s[i]] >= StartTime[s[k]]}

LEMMA SortedIs == \A j : Sorted(j) = SortedIn(logs, j)
  BY DEF Sorted, SortedIn, OfJob

\* A sort of a set has every element of it in one place.
IsSort(s, S) == /\ s \in Seq(Log) /\ Len(s) \in Nat
                /\ \A i \in 1..Len(s) : s[i] \in S
                /\ \A i, k \in 1..Len(s) : s[i] = s[k] => i = k
                /\ \A l \in S : \E i \in 1..Len(s) : s[i] = l
                /\ \A i, k \in 1..Len(s) : i < k => StartTime[s[i]] >= StartTime[s[k]]

LEMMA SortedFacts ==
    ASSUME NEW L \in SUBSET Log, IsFiniteSet(L), NEW j, NEW s \in SortedIn(L, j)
    PROVE  IsSort(s, OfJob(L, j))
<1> DEFINE S == OfJob(L, j)
           D == 1..Cardinality(S)
<1>1. IsFiniteSet(S) /\ S \subseteq L /\ S \subseteq Log
  BY FS_Subset DEF OfJob
<1>2. Cardinality(S) \in Nat
  BY <1>1, FS_CardinalityType
<1>3. s \in [D -> S] /\ \A i, k \in D : i # k => s[i] # s[k]
  BY DEF SortedIn, SetToSeqs
<1>4. s \in Seq(S) /\ Len(s) = Cardinality(S)
  BY <1>2, <1>3
<1>5. s \in Surjection(D, S)
  <2>1. s \in Injection(D, S)
    BY <1>3 DEF Injection, IsInjective
  <2>2. Cardinality(D) = Cardinality(S)
    BY <1>2, FS_Interval
  <2> QED
    BY <1>1, <2>1, <2>2, FS_Injection
<1>6. \A l \in S : \E i \in D : s[i] = l
  BY <1>5 DEF Surjection
<1>7. D = 1..Len(s) /\ s \in Seq(Log)
  BY <1>1, <1>4
<1>8. \A i, k \in 1..Len(s) : i < k => StartTime[s[i]] >= StartTime[s[k]]
  BY DEF SortedIn
<1> HIDE DEF D, S
<1> QED
  BY <1>2, <1>3, <1>4, <1>6, <1>7, <1>8 DEF IsSort, S

\* Logs that are inserted between two queries move a log to later places only,
\* as long as no two start at the same time.
LEMMA PlacesGrow ==
    ASSUME NEW S \in SUBSET Log, NEW T \in SUBSET Log, S \subseteq T,
           \A k, l \in Log : k # l => StartTime[k] # StartTime[l],
           NEW s, NEW u, IsSort(s, S), IsSort(u, T),
           NEW p \in 1..Len(s), NEW q \in 1..Len(u), s[p] = u[q]
    PROVE  p <= q
<1>1. /\ Len(s) \in Nat /\ \A i \in 1..Len(s) : s[i] \in S
      /\ \A i, k \in 1..Len(s) : s[i] = s[k] => i = k
      /\ \A i, k \in 1..Len(s) : i < k => StartTime[s[i]] >= StartTime[s[k]]
  BY DEF IsSort
<1>2. /\ Len(u) \in Nat /\ \A i \in 1..Len(u) : u[i] \in T
      /\ \A l \in T : \E i \in 1..Len(u) : u[i] = l
      /\ \A i, k \in 1..Len(u) : u[i] = u[k] => i = k
      /\ \A i, k \in 1..Len(u) : i < k => StartTime[u[i]] >= StartTime[u[k]]
  BY DEF IsSort
<1>3. \A l \in S : l \in T /\ l \in Log /\ StartTime[l] \in Nat
  BY ApiAssumption
<1>4. \A l \in T : l \in Log /\ StartTime[l] \in Nat
  BY ApiAssumption
<1>5. ASSUME NEW i \in 1..p PROVE \E k \in 1..q : u[k] = s[i]
  <2>1. i \in 1..Len(s) /\ (i < p \/ i = p)
    BY <1>1
  <2>2. PICK k \in 1..Len(u) : u[k] = s[i]
    BY <1>1, <1>2, <1>3, <2>1
  <2>3. StartTime[s[i]] >= StartTime[s[p]]
    BY <1>1, <1>3, <2>1
  <2>4. ~(q < k)
    <3> SUFFICES ASSUME q < k PROVE FALSE
      OBVIOUS
    <3>1. StartTime[u[q]] >= StartTime[u[k]]
      BY <1>2
    <3>2. u[q] = u[k]
      BY <1>2, <1>4, <2>2, <2>3, <3>1
    <3>3. q = k
      BY <1>2, <3>2
    <3> QED
      BY <1>2, <3>3
  <2> QED
    BY <1>2, <2>2, <2>4
<1> DEFINE f == [i \in 1..p |-> CHOOSE k \in 1..q : u[k] = s[i]]
<1>6. \A i \in 1..p : f[i] \in 1..q /\ u[f[i]] = s[i]
  BY <1>5
<1>7. f \in Injection(1..p, 1..q)
  <2>1. f \in [1..p -> 1..q]
    BY <1>6
  <2>2. \A i \in 1..p : i \in 1..Len(s)
    BY <1>1
  <2>3. ASSUME NEW i \in 1..p, NEW k \in 1..p, f[i] = f[k] PROVE i = k
    BY <1>1, <1>6, <2>2, <2>3
  <2> HIDE DEF f
  <2> QED
    BY <2>1, <2>3 DEF Injection, IsInjective
<1>8. /\ IsFiniteSet(1..q) /\ p \in Nat \ {0} /\ q \in Nat \ {0}
      /\ Cardinality(1..p) = p /\ Cardinality(1..q) = q
  <2>1. p \in Nat \ {0} /\ q \in Nat \ {0} /\ p \in Int /\ q \in Int /\ 1 \in Int
    BY <1>1, <1>2
  <2>2. \A n \in Nat \ {0} : IsFiniteSet(1..n) /\ Cardinality(1..n) = n
    <3>1. ASSUME NEW n \in Nat \ {0} PROVE n \in Int /\ ~(1 > n) /\ n - 1 + 1 = n /\ 1 \in Int
      OBVIOUS
    <3> QED
      BY <3>1, FS_Interval
  <2> QED
    BY <2>1, <2>2
<1> QED
  BY <1>7, <1>8, FS_Injection

\* The least of two.
LEMMA MinOfTwo ==
    ASSUME NEW m \in Nat, NEW n \in Nat
    PROVE  Min({m, n}) = IF m <= n THEN m ELSE n
  BY DEF Min

LEMMA LogAsk ==
    ASSUME NEW a \in Ask, a.type = "log"
    PROVE  /\ a.job \in Job /\ Skip(a) \in Int /\ Limit(a) \in Int
           /\ Acceptable(a) => Skip(a) \in Nat /\ Limit(a) \in Nat
<1>1. a.job \in Job /\ a.skip \in Param /\ a.limit \in Param
  BY DEF Ask
<1>2. (a.skip = NaN \/ a.skip \in Int) /\ (a.limit = NaN \/ a.limit \in Int)
  BY <1>1, ApiAssumption
<1>3. Skip(a) = 0 \/ Skip(a) \in Int
  BY <1>2 DEF Skip
<1>4. Limit(a) = 20 \/ Limit(a) \in Int
  BY <1>2 DEF Limit
<1>5. Skip(a) \in Int /\ Limit(a) \in Int
  BY <1>3, <1>4
<1> QED
  BY <1>1, <1>5 DEF Acceptable

\* A page has the logs at the places that skip and limit name, and what is read
\* of it is the beginning of it: all of it, if the first batch is.
LEMMA PageFacts ==
    ASSUME NEW a \in Ask, a.type = "log", Acceptable(a),
           NEW s \in Seq(Log), NEW read \in Read(Page(s, a))
    PROVE  /\ read \in Seq(Log) /\ Len(read) \in Nat
           /\ \A i \in 1..Len(read) : Skip(a) + i \in 1..Len(s) /\ read[i] = s[Skip(a) + i]
           /\ Limit(a) \in 1..FirstBatch => \A q \in 1..Len(s) :
                 Skip(a) < q /\ q <= Skip(a) + Limit(a) => q - Skip(a) \in 1..Len(read)
<1> DEFINE page == Page(s, a)
           last == IF Limit(a) = 0 THEN Len(s) ELSE Min({Len(s), Skip(a) + Limit(a)})
<1>1. Skip(a) \in Nat /\ Limit(a) \in Nat /\ Len(s) \in Nat /\ FirstBatch \in Nat \ {0}
  BY LogAsk, ApiAssumption
<1>2. /\ last \in Nat /\ last <= Len(s)
      /\ Limit(a) # 0 => last = IF Len(s) <= Skip(a) + Limit(a) THEN Len(s) ELSE Skip(a) + Limit(a)
  BY <1>1, MinOfTwo
<1>3. page = SubSeq(s, Skip(a) + 1, last)
  BY DEF Page, First
<1> HIDE DEF last
<1>4. /\ page \in Seq(Log) /\ Len(page) = IF Skip(a) + 1 <= last THEN last - Skip(a) ELSE 0
      /\ \A i \in 1..Len(page) : page[i] = s[Skip(a) + i]
  <2>1. Skip(a) + 1 \in Nat \ {0}
    BY <1>1
  <2>2. page \in Seq(Log) /\ Len(page) = IF Skip(a) + 1 <= last THEN last - Skip(a) ELSE 0
    BY <1>1, <1>2, <1>3, <2>1
  <2>3. ASSUME NEW i \in 1..Len(page) PROVE page[i] = s[Skip(a) + i]
    <3>1. i \in 1..(last - (Skip(a) + 1) + 1) /\ (Skip(a) + 1) + i - 1 = Skip(a) + i
      BY <1>1, <1>2, <2>2
    <3> QED
      BY <1>1, <1>2, <1>3, <2>1, <3>1
  <2> QED
    BY <2>2, <2>3
<1> HIDE DEF page
<1>5. PICK n \in (FirstBatch..Len(page)) \cup {Len(page)} : read = SubSeq(page, 1, n)
  BY DEF Read, page
<1>6. Len(page) \in Nat /\ n \in Nat /\ n <= Len(page) /\ (Len(page) <= FirstBatch => n = Len(page))
  BY <1>1, <1>4, <1>5
<1>7. read \in Seq(Log) /\ Len(read) = n /\ \A i \in 1..n : read[i] = page[i]
  BY <1>4, <1>5, <1>6
<1>8. ASSUME NEW i \in 1..Len(read)
      PROVE  Skip(a) + i \in 1..Len(s) /\ read[i] = s[Skip(a) + i]
  <2>1. i \in 1..Len(page)
    BY <1>6, <1>7
  <2>2. Skip(a) + i \in 1..Len(s)
    BY <1>1, <1>2, <1>4, <2>1
  <2> QED
    BY <1>4, <1>7, <2>1, <2>2
<1>9. ASSUME Limit(a) \in 1..FirstBatch, NEW q \in 1..Len(s),
             Skip(a) < q, q <= Skip(a) + Limit(a)
      PROVE  q - Skip(a) \in 1..Len(read)
  <2>1. q <= last /\ last <= Skip(a) + Limit(a)
    BY <1>1, <1>2, <1>9
  <2>2. Len(page) <= FirstBatch /\ q - Skip(a) \in 1..Len(page)
    BY <1>1, <1>2, <1>4, <1>9, <2>1
  <2> QED
    BY <1>6, <1>7, <2>2
<1> QED
  BY <1>6, <1>7, <1>8, <1>9

\* What the loop over the cursor keeps.
LEMMA DecodedFacts ==
    ASSUME NEW read \in Seq(Log)
    PROVE  /\ DOMAIN Decoded(read) \subseteq Nat /\ Range(Decoded(read)) \subseteq Log
           /\ \A l : l \in Range(Decoded(read)) <=> \E i \in 1..Len(read) : read[i] = l /\ Decodes[l]
<1> DEFINE D == {i \in DOMAIN read : Decodes[read[i]]}
<1>1. Decoded(read) = [i \in D |-> read[i]]
  BY DEF Decoded, RestrictValues, Restrict
<1>2. DOMAIN read = 1..Len(read) /\ Len(read) \in Nat
  OBVIOUS
<1>3. \A l : l \in Range(Decoded(read)) <=> \E i \in D : l = read[i]
  BY <1>1 DEF Range
<1> QED
  BY <1>1, <1>2, <1>3

\* Two pages, the second queried when there were more logs: between them they
\* show every log of the first query that is not beyond the second page.
LEMMA TwoPages ==
    ASSUME NEW S \in SUBSET Log, NEW T \in SUBSET Log, S \subseteq T,
           \A k, l \in Log : k # l => StartTime[k] # StartTime[l],
           NEW s, NEW u, IsSort(s, S), IsSort(u, T),
           NEW a \in Ask, a.type = "log", NEW b \in Ask, b.type = "log",
           Acceptable(a), Acceptable(b),
           Limit(a) \in 1..FirstBatch, Skip(a) = 0, Skip(b) = Limit(a),
           NEW first \in Read(Page(s, a)), NEW second \in Read(Page(u, b)),
           NEW l \in S, Decodes[l],
           NEW k \in Range(Decoded(second)), StartTime[l] >= StartTime[k]
    PROVE  l \in Range(Decoded(first)) \cup Range(Decoded(second))
<1>1. /\ s \in Seq(Log) /\ Len(s) \in Nat /\ u \in Seq(Log) /\ Len(u) \in Nat
      /\ \A i \in 1..Len(u) : u[i] \in T
      /\ \A i, m \in 1..Len(u) : u[i] = u[m] => i = m
      /\ \A i, m \in 1..Len(u) : i < m => StartTime[u[i]] >= StartTime[u[m]]
  BY DEF IsSort
<1>2. PICK p \in 1..Len(s) : s[p] = l
  BY DEF IsSort
<1>3. PICK q \in 1..Len(u) : u[q] = l
  BY DEF IsSort
<1>4. p <= q
  BY <1>2, <1>3, PlacesGrow
<1>5. Limit(a) \in Nat /\ Skip(b) \in Nat
  BY LogAsk
<1>6. /\ first \in Seq(Log) /\ Len(first) \in Nat
      /\ \A i \in 1..Len(first) : Skip(a) + i \in 1..Len(s) /\ first[i] = s[Skip(a) + i]
      /\ \A i \in 1..Len(s) : Skip(a) < i /\ i <= Skip(a) + Limit(a) => i - Skip(a) \in 1..Len(first)
  <2>1. /\ first \in Seq(Log) /\ Len(first) \in Nat
        /\ \A i \in 1..Len(first) : Skip(a) + i \in 1..Len(s) /\ first[i] = s[Skip(a) + i]
        /\ Limit(a) \in 1..FirstBatch => \A i \in 1..Len(s) :
              Skip(a) < i /\ i <= Skip(a) + Limit(a) => i - Skip(a) \in 1..Len(first)
    BY <1>1, PageFacts, Zenon
  <2> QED
    BY <2>1
<1>7. /\ second \in Seq(Log) /\ Len(second) \in Nat
      /\ \A i \in 1..Len(second) : Skip(b) + i \in 1..Len(u) /\ second[i] = u[Skip(b) + i]
  BY <1>1, PageFacts
<1>8. CASE p <= Limit(a)
  <2>1. p \in 1..Len(first) /\ 0 + p = p
    <3>1. 0 < p /\ p <= 0 + Limit(a) /\ p - 0 = p
      BY <1>1, <1>5, <1>8
    <3> QED
      BY <1>1, <1>6, <3>1
  <2>2. first[p] = l
    BY <1>2, <1>6, <2>1
  <2> QED
    BY <1>6, <2>1, <2>2, DecodedFacts
<1>9. CASE ~(p <= Limit(a))
  <2>1. PICK i \in 1..Len(second) : second[i] = k
    BY <1>7, DecodedFacts
  <2> DEFINE m == Skip(b) + i
  <2>2. m \in 1..Len(u) /\ u[m] = k
    BY <1>7, <2>1
  <2>3. StartTime[l] \in Nat /\ StartTime[k] \in Nat /\ l \in Log /\ k \in Log
    BY <1>1, <2>2, ApiAssumption
  <2>4. ~(m < q)
    <3> SUFFICES ASSUME m < q PROVE FALSE
      OBVIOUS
    <3>1. StartTime[k] >= StartTime[l]
      BY <1>1, <1>3, <2>2
    <3>2. k = l
      BY <2>3, <3>1
    <3> QED
      BY <1>1, <1>3, <2>2, <3>2
  <2>5. q - Skip(b) \in 1..Len(second) /\ Skip(b) + (q - Skip(b)) = q
    BY <1>1, <1>4, <1>5, <1>7, <1>9, <2>4
  <2>6. second[q - Skip(b)] = l
    BY <1>3, <1>7, <2>5
  <2> QED
    BY <1>7, <2>5, <2>6, DecodedFacts
<1> QED
  BY <1>8, <1>9

-----------------------------------------------------------------------------
(* the inductive invariant                                                 *)

\* The types that do not depend on what was asked. What other clients of etcd
\* put does not decode, and there are finitely many logs.
GlobalInv ==
    /\ pc \in [Req -> PC] /\ ask \in [Req -> Ask \cup {None}]
    /\ answer \in [Req -> Response \cup {None}] /\ DOMAIN data = Req
    /\ applied \in Seq(Mod)
    /\ \A i \in 1..Len(applied) : applied[i].req = Foreign => applied[i].type = "garbage"
    /\ inflight \in SUBSET Req
    /\ logs \in SUBSET Log /\ IsFiniteSet(logs)
    /\ since \in [Req -> Nat] /\ found \in [Req -> SUBSET Log]

\* TookEffect of a request: q asked a and got d, when s modifications had been
\* applied.
Effect(app, q, a, d, s) ==
    CASE a.type \in {"save", "delete"} -> \E i \in OfRequest(app, q) : d = JobsIn(app, i - 1)[a.job]
      [] a.type = "kill" -> OfRequest(app, q) # {}
      [] a.type = "list" -> \E n \in s..Len(app) : d = JobsIn(app, n)
      [] OTHER -> TRUE

\* d is what ListLog makes of a page of the logs f.
Queried(a, d, f) == /\ Acceptable(a)
                    /\ \E s \in SortedIn(f, a.job) : \E read \in Read(Page(s, a)) : d = Decoded(read)

\* What holds of one request q: its handler is at p, it asked a, its call
\* returned d, w was answered, s modifications had been applied when it was made
\* and f are the logs its query found.
\*   - Nothing is applied for it before its call, twice, or while its
\*     modification is still in flight, and nothing if its form was bad.
Once(q, p, a, w, s, app, fl) ==
    /\ p # "new" => a \in Ask
    /\ p = "put" => a.type = "kill"
    /\ p \in {"new", "call", "put"} => OfRequest(app, q) = {} /\ q \notin fl
    /\ p \in {"new", "call", "put", "reply"} => w = None
    /\ q \in fl => OfRequest(app, q) = {} /\ a.type \in Modifying /\ (w = None \/ w.msg # "form")
    /\ \A i \in OfRequest(app, q) :
          /\ OfRequest(app, q) = {i} /\ s < i
          /\ w = None \/ w.msg # "form"
    /\ s <= Len(app)
\*   - Its data are of the type that it asked for.
DataType(p, a, d) ==
    /\ p \in {"new", "call", "put"} => d = None
    /\ \/ d = None
       \/ a.type \in {"save", "delete"} /\ d \in Req \cup {NoJob}
       \/ a.type = "list" /\ d \in [Job -> Req \cup {NoJob}]
       \/ a.type = "log" /\ DOMAIN d \subseteq Nat /\ Range(d) \subseteq Log
\*   - A query that succeeded shows a page.
LogAnswer(p, a, d, w, f) ==
    /\ IsFiniteSet(f)
    /\ a \in Ask /\ a.type = "log" =>
          (p = "reply" \/ (w # None /\ w.errno = 0) => Queried(a, d, f))
\*   - When its call has returned, it took effect.
RequestInv(q, p, a, d, w, s, f, app, fl) ==
    /\ Once(q, p, a, w, s, app, fl)
    /\ DataType(p, a, d)
    /\ LogAnswer(p, a, d, w, f)
    /\ p = "reply" => Effect(app, q, a, d, s)

Request(q) == RequestInv(q, pc[q], ask[q], data[q], answer[q], since[q], found[q], applied, inflight)

ApiInv == GlobalInv /\ \A q \in Req : Request(q)

\* One more modification: whose it is, and that those before it stay.
LEMMA AppendMod ==
    ASSUME NEW app \in Seq(Mod), NEW m \in Mod
    PROVE  /\ Append(app, m) \in Seq(Mod) /\ Len(app) \in Nat
           /\ Len(Append(app, m)) = Len(app) + 1
           /\ \A i \in 1..Len(app) : Append(app, m)[i] = app[i]
           /\ Append(app, m)[Len(app) + 1] = m
           /\ \A q : /\ m.req # q => OfRequest(Append(app, m), q) = OfRequest(app, q)
                     /\ m.req = q => OfRequest(Append(app, m), q) = OfRequest(app, q) \cup {Len(app) + 1}
           /\ \A n \in 0..Len(app) : JobsIn(Append(app, m), n) = JobsIn(app, n)
<1> DEFINE b == Append(app, m)
<1>1. /\ b \in Seq(Mod) /\ Len(app) \in Nat /\ Len(b) = Len(app) + 1
      /\ \A i \in 1..Len(app) : b[i] = app[i]
      /\ b[Len(app) + 1] = m
  OBVIOUS
<1> HIDE DEF b
<1>2. \A i : i \in 1..Len(b) <=> i \in 1..Len(app) \/ i = Len(app) + 1
  BY <1>1
<1>3. ASSUME NEW q
      PROVE  /\ m.req # q => OfRequest(b, q) = OfRequest(app, q)
             /\ m.req = q => OfRequest(b, q) = OfRequest(app, q) \cup {Len(app) + 1}
  BY <1>1, <1>2 DEF OfRequest
<1>4. ASSUME NEW n \in 0..Len(app) PROVE JobsIn(b, n) = JobsIn(app, n)
  <2>1. n \in Nat /\ \A i \in 1..n : b[i] = app[i]
    BY <1>1
  <2> QED
    BY <2>1, ValueStays
<1> QED
  BY <1>1, <1>3, <1>4 DEF b

\* What took effect stays so.
LEMMA EffectStays ==
    ASSUME NEW app \in Seq(Mod), NEW m \in Mod, NEW q, NEW a, NEW d, NEW s \in Nat,
           Effect(app, q, a, d, s)
    PROVE  Effect(Append(app, m), q, a, d, s)
<1> DEFINE b == Append(app, m)
<1>1. /\ Len(app) \in Nat /\ Len(b) = Len(app) + 1
      /\ OfRequest(app, q) \subseteq OfRequest(b, q)
      /\ \A n \in 0..Len(app) : JobsIn(b, n) = JobsIn(app, n)
  BY AppendMod
<1> HIDE DEF b
<1>2. \A i \in OfRequest(app, q) : i - 1 \in 0..Len(app)
  BY <1>1 DEF OfRequest
<1>3. CASE a.type \in {"save", "delete"}
  BY <1>1, <1>2, <1>3 DEF Effect, b
<1>4. CASE a.type = "kill"
  BY <1>1, <1>4 DEF Effect, b
<1>5. CASE a.type = "list"
  <2>1. PICK n \in s..Len(app) : d = JobsIn(app, n)
    BY <1>5 DEF Effect
  <2>2. n \in s..Len(b) /\ n \in 0..Len(app)
    BY <1>1
  <2>3. d = JobsIn(b, n)
    BY <1>1, <2>1, <2>2
  <2> QED
    BY <1>5, <2>2, <2>3 DEF Effect, b
<1>6. CASE a.type \notin {"save", "delete", "kill", "list"}
  BY <1>6 DEF Effect
<1> QED
  BY <1>3, <1>4, <1>5, <1>6

\* What is applied for another request, or is lost, does not matter to q.
LEMMA Others ==
    ASSUME NEW q, NEW p, NEW a, NEW d, NEW w, NEW s \in Nat, NEW f,
           NEW app \in Seq(Mod), NEW new \in Seq(Mod), NEW fl, NEW fl2,
           RequestInv(q, p, a, d, w, s, f, app, fl),
           new = app \/ \E m \in Mod : new = Append(app, m) /\ m.req # q,
           q \in fl2 => q \in fl
    PROVE  RequestInv(q, p, a, d, w, s, f, new, fl2)
<1>1. OfRequest(new, q) = OfRequest(app, q) /\ Len(new) \in Nat /\ Len(app) \in Nat /\ Len(app) <= Len(new)
  <2>1. CASE new = app
    BY <2>1
  <2>2. CASE \E m \in Mod : new = Append(app, m) /\ m.req # q
    <3>1. PICK m \in Mod : new = Append(app, m) /\ m.req # q
      BY <2>2
    <3>2. OfRequest(Append(app, m), q) = OfRequest(app, q)
      BY <3>1, AppendMod
    <3>3. Len(app) \in Nat /\ Len(new) = Len(app) + 1
      BY <3>1, AppendMod
    <3> QED
      BY <3>1, <3>2, <3>3
  <2> QED
    BY <2>1, <2>2
<1>2. Once(q, p, a, w, s, new, fl2)
  BY <1>1 DEF RequestInv, Once
<1>3. p = "reply" => Effect(new, q, a, d, s)
  BY EffectStays DEF RequestInv
<1> QED
  BY <1>2, <1>3 DEF RequestInv

\* So that a step of one request has only that one to account for.
LEMMA OneRequest ==
    ASSUME ApiInv, NEW r \in Req, GlobalInv', Request(r)',
           \A q \in Req \ {r} : /\ pc'[q] = pc[q] /\ ask'[q] = ask[q] /\ data'[q] = data[q]
                                /\ answer'[q] = answer[q] /\ since'[q] = since[q]
                                /\ found'[q] = found[q],
           applied' = applied \/ \E m \in Mod : applied' = Append(applied, m) /\ m.req = r,
           inflight' \subseteq inflight \cup {r}
    PROVE  ApiInv'
<1>1. ASSUME NEW q \in Req \ {r} PROVE Request(q)'
  <2>1. applied \in Seq(Mod) /\ applied' \in Seq(Mod) /\ since[q] \in Nat
    BY DEF ApiInv, GlobalInv
  <2>2. RequestInv(q, pc[q], ask[q], data[q], answer[q], since[q], found[q], applied, inflight)
    BY DEF ApiInv, Request
  <2>3. applied' = applied \/ \E m \in Mod : applied' = Append(applied, m) /\ m.req # q
    OBVIOUS
  <2>4. RequestInv(q, pc[q], ask[q], data[q], answer[q], since[q], found[q], applied', inflight')
    BY <2>1, <2>2, <2>3, Others
  <2> QED
    BY <2>4 DEF Request
<1> QED
  BY <1>1 DEF ApiInv

-----------------------------------------------------------------------------
(* one lemma per step                                                      *)

\* What holds of the handler that takes a step.
LEMMA Before ==
    ASSUME ApiInv, NEW r \in Req
    PROVE  /\ pc[r] \in PC /\ answer[r] \in Response \cup {None} /\ found[r] \in SUBSET Log
           /\ applied \in Seq(Mod) /\ Len(applied) \in Nat /\ since[r] \in Nat
           /\ Once(r, pc[r], ask[r], answer[r], since[r], applied, inflight)
           /\ DataType(pc[r], ask[r], data[r])
           /\ LogAnswer(pc[r], ask[r], data[r], answer[r], found[r])
           /\ pc[r] = "reply" => Effect(applied, r, ask[r], data[r], since[r])
<1>1. GlobalInv /\ RequestInv(r, pc[r], ask[r], data[r], answer[r], since[r], found[r], applied, inflight)
  BY DEF ApiInv, Request
<1> QED
  BY <1>1 DEF GlobalInv, RequestInv

LEMMA ServeStep ==
    ASSUME ApiInv, NEW r \in Req, NEW a \in Asked, Serve(r, a)
    PROVE  ApiInv'
<1>1. GlobalInv /\ a \in Ask
  BY AskedAssumption DEF ApiInv
<1>2. GlobalInv'
  BY <1>1 DEF GlobalInv, Serve, GoTo, PC
<1>3. /\ pc'[r] = "call" /\ ask'[r] = a /\ since'[r] = Len(applied)
      /\ data'[r] = data[r] /\ answer'[r] = answer[r] /\ found'[r] = found[r]
      /\ applied' = applied /\ inflight' = inflight
  BY <1>1 DEF GlobalInv, Serve, GoTo
<1>4. /\ pc[r] = "new" /\ applied \in Seq(Mod) /\ Len(applied) \in Nat
      /\ Once(r, pc[r], ask[r], answer[r], since[r], applied, inflight)
      /\ DataType(pc[r], ask[r], data[r])
      /\ LogAnswer(pc[r], ask[r], data[r], answer[r], found[r])
  BY Before DEF Serve
<1>5. Once(r, "call", a, answer[r], Len(applied), applied, inflight)
  BY <1>1, <1>4 DEF Once
<1>6. DataType("call", a, data[r])
  BY <1>4 DEF DataType
<1>7. LogAnswer("call", a, data[r], answer[r], found[r])
  BY <1>4 DEF LogAnswer, Once
<1>8. Request(r)'
  BY <1>3, <1>5, <1>6, <1>7 DEF Request, RequestInv
<1>9. \A q \in Req \ {r} : /\ pc'[q] = pc[q] /\ ask'[q] = ask[q] /\ data'[q] = data[q]
                           /\ answer'[q] = answer[q] /\ since'[q] = since[q]
                           /\ found'[q] = found[q]
  BY <1>1 DEF GlobalInv, Serve, GoTo
<1> QED
  BY <1>2, <1>3, <1>8, <1>9, OneRequest

\* The label ERR: a handler that made no modification, or gave it up.
LEMMA RefuseStep ==
    ASSUME ApiInv, NEW r \in Req, NEW msg \in {"form", "call", "decode"}, Refuse(r, msg),
           pc[r] \in {"call", "put", "reply"},
           msg = "form" => pc[r] = "call" /\ r \notin inflight',
           inflight' \subseteq inflight \cup {r},
           r \in inflight' => r \in inflight \/ Sending(r),
           UNCHANGED <<ask, data, since, applied, logs>>,
           found' = found \/ found' = [found EXCEPT ![r] = logs]
    PROVE  ApiInv'
<1>1. GlobalInv
  BY DEF ApiInv
<1>2. GlobalInv'
  <2>1. pc' \in [Req -> PC] /\ answer' \in [Req -> Response \cup {None}]
    <3>1. [errno |-> -1, msg |-> msg] \in Response /\ "empty" \in PC /\ "answered" \in PC
      BY DEF Response, PC
    <3>2. pc \in [Req -> PC] /\ answer \in [Req -> Response \cup {None}]
      BY <1>1 DEF GlobalInv
    <3> QED
      BY <3>1, <3>2 DEF Refuse, GoTo
  <2>2. found' \in [Req -> SUBSET Log] /\ inflight' \in SUBSET Req
    BY <1>1 DEF GlobalInv
  <2> QED
    BY <1>1, <2>1, <2>2 DEF GlobalInv
<1>3. /\ pc'[r] \in {"empty", "answered"}
      /\ answer'[r] = answer[r] \/ answer'[r] = [errno |-> -1, msg |-> msg]
      /\ found'[r] = found[r] \/ found'[r] = logs
  BY <1>1 DEF GlobalInv, Refuse, GoTo
<1>4. /\ applied \in Seq(Mod) /\ Len(applied) \in Nat
      /\ Once(r, pc[r], ask[r], answer[r], since[r], applied, inflight)
      /\ DataType(pc[r], ask[r], data[r])
      /\ LogAnswer(pc[r], ask[r], data[r], answer[r], found[r])
  BY Before
<1>5. answer[r] = None /\ ask[r] \in Ask
  BY <1>4 DEF Once
<1>6. answer'[r] = None \/ (answer'[r].msg = msg /\ answer'[r].errno = -1)
  BY <1>3, <1>5
<1>7. Once(r, pc'[r], ask[r], answer'[r], since[r], applied, inflight')
  <2>1. pc[r] \in {"call", "put"} => OfRequest(applied, r) = {} /\ r \notin inflight
    BY <1>4 DEF Once
  <2>2. r \in inflight' => OfRequest(applied, r) = {} /\ ask[r].type \in Modifying
    BY <1>4, <2>1 DEF Once, Sending, Modifying
  <2>3. OfRequest(applied, r) # {} \/ r \in inflight' => msg # "form"
    BY <2>1
  <2>4. \A i \in OfRequest(applied, r) : OfRequest(applied, r) = {i} /\ since[r] < i
    BY <1>4 DEF Once
  <2>5. since[r] <= Len(applied)
    BY <1>4 DEF Once
  <2> QED
    BY <1>3, <1>5, <1>6, <2>2, <2>3, <2>4, <2>5 DEF Once
<1>8. DataType(pc'[r], ask[r], data[r])
  BY <1>3, <1>4 DEF DataType
<1>9. LogAnswer(pc'[r], ask[r], data[r], answer'[r], found'[r])
  <2>1. IsFiniteSet(found'[r])
    BY <1>1, <1>3, <1>4 DEF GlobalInv, LogAnswer
  <2> QED
    BY <1>3, <1>6, <2>1 DEF LogAnswer
<1>10. Request(r)'
  BY <1>3, <1>7, <1>8, <1>9 DEF Request, RequestInv
<1>11. \A q \in Req \ {r} : /\ pc'[q] = pc[q] /\ ask'[q] = ask[q] /\ data'[q] = data[q]
                            /\ answer'[q] = answer[q] /\ since'[q] = since[q]
                            /\ found'[q] = found[q]
  BY <1>1 DEF GlobalInv, Refuse, GoTo
<1> QED
  BY <1>2, <1>10, <1>11, OneRequest

LEMMA FailureSteps ==
    ASSUME ApiInv, NEW r \in Req, BadForm(r) \/ CallFails(r)
    PROVE  ApiInv'
<1>1. Once(r, pc[r], ask[r], answer[r], since[r], applied, inflight)
  BY Before
<1>2. CASE BadForm(r)
  <2>1. r \notin inflight' /\ pc[r] = "call" /\ inflight' = inflight
    BY <1>1, <1>2 DEF BadForm, Once
  <2> QED
    BY <1>2, <2>1, RefuseStep DEF BadForm
<1>3. CASE CallFails(r)
  BY <1>3, RefuseStep DEF CallFails
<1> QED
  BY <1>2, <1>3

\* The master dies.
LEMMA CrashStep ==
    ASSUME ApiInv, NEW r \in Req, MasterCrash(r)
    PROVE  ApiInv'
<1>1. GlobalInv
  BY DEF ApiInv
<1>2. GlobalInv'
  BY <1>1 DEF GlobalInv, MasterCrash, GoTo, PC
<1>3. /\ pc'[r] = "lost" /\ ask' = ask /\ data' = data /\ answer' = answer /\ since' = since
      /\ found' = found /\ applied' = applied /\ inflight' \subseteq inflight \cup {r}
      /\ r \in inflight' => r \in inflight \/ Sending(r)
  BY <1>1 DEF GlobalInv, MasterCrash, GoTo
<1>4. /\ applied \in Seq(Mod) /\ Len(applied) \in Nat
      /\ Once(r, pc[r], ask[r], answer[r], since[r], applied, inflight)
      /\ DataType(pc[r], ask[r], data[r])
      /\ LogAnswer(pc[r], ask[r], data[r], answer[r], found[r])
      /\ pc[r] \in {"call", "put", "reply"}
  BY Before DEF MasterCrash
<1>5. Once(r, "lost", ask[r], answer[r], since[r], applied, inflight')
  BY <1>3, <1>4 DEF Once, Sending, Modifying
<1>6. DataType("lost", ask[r], data[r])
  BY <1>4 DEF DataType
<1>7. LogAnswer("lost", ask[r], data[r], answer[r], found[r])
  BY <1>4 DEF LogAnswer
<1>8. Request(r)'
  BY <1>3, <1>5, <1>6, <1>7 DEF Request, RequestInv
<1>9. \A q \in Req \ {r} : pc'[q] = pc[q]
  BY <1>1 DEF GlobalInv, MasterCrash, GoTo
<1> QED
  BY <1>2, <1>3, <1>8, <1>9, OneRequest

\* The answer says that the call succeeded.
LEMMA RespondStep ==
    ASSUME ApiInv, NEW r \in Req, Respond(r)
    PROVE  ApiInv'
<1> DEFINE w == [errno |-> 0, msg |-> "success"]
<1>1. GlobalInv /\ w \in Response /\ w.errno = 0 /\ w.msg = "success"
  BY DEF ApiInv, Response
<1> HIDE DEF w
<1>2. GlobalInv'
  <2>1. pc' \in [Req -> PC] /\ answer' \in [Req -> Response \cup {None}]
    BY <1>1 DEF GlobalInv, Respond, GoTo, PC, w
  <2> QED
    BY <1>1, <2>1 DEF GlobalInv, Respond
<1>3. /\ pc'[r] = "answered" /\ ask' = ask /\ data' = data /\ answer'[r] = w /\ since' = since
      /\ found' = found /\ applied' = applied /\ inflight' = inflight
  BY <1>1 DEF GlobalInv, Respond, GoTo, w
<1>4. /\ applied \in Seq(Mod) /\ Len(applied) \in Nat
      /\ Once(r, pc[r], ask[r], answer[r], since[r], applied, inflight)
      /\ DataType(pc[r], ask[r], data[r])
      /\ LogAnswer(pc[r], ask[r], data[r], answer[r], found[r])
      /\ pc[r] = "reply"
  BY Before DEF Respond
<1>5. Once(r, "answered", ask[r], w, since[r], applied, inflight)
  BY <1>1, <1>4 DEF Once
<1>6. DataType("answered", ask[r], data[r])
  BY <1>4 DEF DataType
<1>7. LogAnswer("answered", ask[r], data[r], w, found[r])
  BY <1>1, <1>4 DEF LogAnswer
<1>8. Request(r)'
  BY <1>3, <1>5, <1>6, <1>7 DEF Request, RequestInv
<1>9. \A q \in Req \ {r} : pc'[q] = pc[q] /\ answer'[q] = answer[q]
  BY <1>1 DEF GlobalInv, Respond, GoTo
<1> QED
  BY <1>2, <1>3, <1>8, <1>9, OneRequest

\* The modification of a request.
LEMMA ModificationType ==
    ASSUME NEW r \in Req, ask[r] \in Ask, ask[r].type \in Modifying
    PROVE  /\ Modification(r) \in Mod /\ Modification(r).req = r /\ r # Foreign
           /\ Modification(r).type # "garbage" /\ ask[r].job \in Job
<1>1. ask[r].job \in Job
  BY DEF Ask, Modifying
<1>2. r # 0
  BY DEF Req
<1> QED
  BY <1>1, <1>2 DEF Modification, Mod, Modifying, Foreign

LEMMA AppliedType ==
    ASSUME GlobalInv, NEW m \in Mod, m.req = Foreign => m.type = "garbage",
           applied' = Append(applied, m)
    PROVE  /\ applied' \in Seq(Mod)
           /\ \A i \in 1..Len(applied') : applied'[i].req = Foreign => applied'[i].type = "garbage"
<1>1. /\ applied' \in Seq(Mod) /\ Len(applied) \in Nat /\ Len(applied') = Len(applied) + 1
      /\ \A i \in 1..Len(applied) : applied'[i] = applied[i]
      /\ applied'[Len(applied) + 1] = m
  BY AppendMod DEF GlobalInv
<1>2. \A i \in 1..Len(applied') : i \in 1..Len(applied) \/ i = Len(applied) + 1
  BY <1>1
<1> QED
  BY <1>1, <1>2 DEF GlobalInv

\* A modification is applied, and its call returns d.
LEMMA ModifyStep ==
    ASSUME ApiInv, NEW r \in Req, NEW d, Apply(r), Returns(r, d), UNCHANGED found,
           pc[r] \in {"call", "put"}, ask[r].type \in Modifying,
           DataType("reply", ask[r], d),
           ask[r].type \in {"save", "delete"} => d = JobsIn(applied, Len(applied))[ask[r].job]
    PROVE  ApiInv'
<1> DEFINE m == Modification(r)
<1>1. GlobalInv
  BY DEF ApiInv
<1>2. /\ applied \in Seq(Mod) /\ Len(applied) \in Nat /\ since[r] \in Nat
      /\ Once(r, pc[r], ask[r], answer[r], since[r], applied, inflight)
      /\ LogAnswer(pc[r], ask[r], data[r], answer[r], found[r])
  BY Before
<1>3. ask[r] \in Ask /\ answer[r] = None /\ OfRequest(applied, r) = {} /\ r \notin inflight
  BY <1>2 DEF Once
<1>4. m \in Mod /\ m.req = r /\ r # Foreign
  BY <1>3, ModificationType
<1>5. applied' = Append(applied, m)
  BY DEF Apply
<1> HIDE DEF m
<1>6. /\ applied' \in Seq(Mod)
      /\ \A i \in 1..Len(applied') : applied'[i].req = Foreign => applied'[i].type = "garbage"
  BY <1>1, <1>4, <1>5, AppliedType
<1>7. GlobalInv'
  BY <1>1, <1>6 DEF GlobalInv, Returns, GoTo, PC
<1>8. /\ pc'[r] = "reply" /\ ask' = ask /\ data'[r] = d /\ answer' = answer /\ since' = since
      /\ found' = found /\ inflight' = inflight
  BY <1>1 DEF GlobalInv, Returns, GoTo
<1>9. OfRequest(applied', r) = {Len(applied) + 1} /\ Len(applied') = Len(applied) + 1
  <2>1. OfRequest(applied', r) = OfRequest(applied, r) \cup {Len(applied) + 1}
    BY <1>2, <1>4, <1>5, AppendMod
  <2>2. Len(applied') = Len(applied) + 1
    BY <1>2, <1>4, <1>5, AppendMod
  <2> QED
    BY <1>3, <2>1, <2>2
<1>10. Once(r, "reply", ask[r], answer[r], since[r], applied', inflight)
  BY <1>2, <1>3, <1>9 DEF Once
<1>11. LogAnswer("reply", ask[r], d, answer[r], found[r])
  BY <1>2 DEF LogAnswer, Modifying
<1>12. Effect(applied', r, ask[r], d, since[r])
  <2>1. CASE ask[r].type \in {"save", "delete"}
    <3>1. JobsIn(applied', Len(applied)) = JobsIn(applied, Len(applied))
      <4>1. Len(applied) \in 0..Len(applied)
        BY <1>2
      <4> QED
        BY <1>2, <1>4, <1>5, <4>1, AppendMod
    <3>2. Len(applied) + 1 - 1 = Len(applied)
      BY <1>2
    <3>3. \E i \in OfRequest(applied', r) : d = JobsIn(applied', i - 1)[ask[r].job]
      BY <1>9, <2>1, <3>1, <3>2
    <3> QED
      BY <2>1, <3>3 DEF Effect
  <2>2. CASE ask[r].type = "kill"
    BY <1>9, <2>2 DEF Effect
  <2> QED
    BY <2>1, <2>2 DEF Modifying
<1>13. Request(r)'
  BY <1>8, <1>10, <1>11, <1>12 DEF Request, RequestInv
<1>14. \A q \in Req \ {r} : pc'[q] = pc[q] /\ data'[q] = data[q]
  BY <1>1 DEF GlobalInv, Returns, GoTo
<1> QED
  BY <1>4, <1>5, <1>7, <1>8, <1>13, <1>14, OneRequest

LEMMA JobsNow ==
    ASSUME ApiInv
    PROVE  JobsIn(applied, Len(applied)) \in [Job -> Req \cup {NoJob}]
<1>1. /\ applied \in Seq(Mod)
      /\ \A i \in 1..Len(applied) : applied[i].req = Foreign => applied[i].type = "garbage"
  BY DEF ApiInv, GlobalInv
<1>2. Len(applied) \in Nat /\ Len(applied) <= Len(applied)
  BY <1>1
<1> QED
  BY <1>1, <1>2, JobsType

\* The old job is the one that the modification replaces.
LEMMA OldJobIs ==
    ASSUME ApiInv, NEW r \in Req, ask[r] \in Ask, ask[r].type \in Modifying
    PROVE  /\ OldJob(r) = JobsIn(applied, Len(applied))[ask[r].job]
           /\ OldJob(r) \in Req \cup {NoJob}
<1>1. ask[r].job \in Job
  BY ModificationType
<1>2. OldJob(r) = JobsIn(applied, Len(applied))[ask[r].job]
  BY <1>1, Operators DEF OldJob, JobsIn
<1>3. JobsIn(applied, Len(applied)) \in [Job -> Req \cup {NoJob}]
  BY JobsNow
<1> QED
  BY <1>1, <1>2, <1>3

LEMMA ModifySteps ==
    ASSUME ApiInv, NEW r \in Req, SaveJob(r) \/ DeleteJob(r) \/ KillJobPut(r)
    PROVE  ApiInv'
<1>1. Once(r, pc[r], ask[r], answer[r], since[r], applied, inflight)
  BY Before
<1>2. CASE SaveJob(r) \/ DeleteJob(r)
  <2>1. ask[r] \in Ask /\ ask[r].type \in {"save", "delete"} /\ ask[r].type \in Modifying /\ pc[r] = "call"
    BY <1>1, <1>2 DEF Once, SaveJob, DeleteJob, Modifying
  <2>2. /\ OldJob(r) = JobsIn(applied, Len(applied))[ask[r].job]
        /\ DataType("reply", ask[r], OldJob(r))
    BY <2>1, OldJobIs DEF DataType
  <2> QED
    BY <1>2, <2>1, <2>2, ModifyStep DEF SaveJob, DeleteJob
<1>3. CASE KillJobPut(r)
  <2>1. ask[r].type = "kill" /\ ask[r].type \in Modifying /\ pc[r] = "put"
    BY <1>1, <1>3 DEF Once, KillJobPut, Modifying
  <2>2. DataType("reply", ask[r], None)
    BY DEF DataType
  <2> QED
    BY <1>3, <2>1, <2>2, ModifyStep DEF KillJobPut
<1> QED
  BY <1>2, <1>3

\* A call that modifies nothing returns d, and the logs found are f.
LEMMA ReadStep ==
    ASSUME ApiInv, NEW r \in Req, NEW d, NEW f, Returns(r, d), UNCHANGED applied,
           found' = [found EXCEPT ![r] = f], f = found[r] \/ f = logs,
           pc[r] = "call", ask[r].type \notin Modifying,
           DataType("reply", ask[r], d),
           ask[r].type = "list" => d = JobsIn(applied, Len(applied)),
           ask[r].type = "log" => Queried(ask[r], d, f)
    PROVE  ApiInv'
<1>1. GlobalInv
  BY DEF ApiInv
<1>2. /\ applied \in Seq(Mod) /\ Len(applied) \in Nat /\ since[r] \in Nat
      /\ Once(r, pc[r], ask[r], answer[r], since[r], applied, inflight)
      /\ LogAnswer(pc[r], ask[r], data[r], answer[r], found[r])
  BY Before
<1>3. GlobalInv'
  <2>1. found' \in [Req -> SUBSET Log]
    BY <1>1 DEF GlobalInv
  <2> QED
    BY <1>1, <2>1 DEF GlobalInv, Returns, GoTo, PC
<1>4. /\ pc'[r] = "reply" /\ ask' = ask /\ data'[r] = d /\ answer' = answer /\ since' = since
      /\ found'[r] = f /\ inflight' = inflight
  BY <1>1 DEF GlobalInv, Returns, GoTo
<1>5. Once(r, "reply", ask[r], answer[r], since[r], applied, inflight)
  BY <1>2 DEF Once
<1>6. LogAnswer("reply", ask[r], d, answer[r], f)
  <2>1. IsFiniteSet(f) /\ answer[r] = None
    BY <1>1, <1>2 DEF GlobalInv, LogAnswer, Once
  <2> QED
    BY <2>1 DEF LogAnswer
<1>7. Effect(applied, r, ask[r], d, since[r])
  <2>1. CASE ask[r].type = "list"
    <3>1. Len(applied) \in since[r]..Len(applied)
      BY <1>2 DEF Once
    <3> QED
      BY <2>1, <3>1 DEF Effect
  <2>2. CASE ask[r].type # "list"
    BY <2>2 DEF Effect, Modifying
  <2> QED
    BY <2>1, <2>2
<1>8. Request(r)'
  BY <1>4, <1>5, <1>6, <1>7 DEF Request, RequestInv
<1>9. \A q \in Req \ {r} : pc'[q] = pc[q] /\ data'[q] = data[q] /\ found'[q] = found[q]
  BY <1>1 DEF GlobalInv, Returns, GoTo
<1> QED
  BY <1>3, <1>4, <1>8, <1>9, OneRequest

LEMMA ListSteps ==
    ASSUME ApiInv, NEW r \in Req, ListJobs(r) \/ ListWorkers(r)
    PROVE  ApiInv'
<1>1. found' = [found EXCEPT ![r] = found[r]]
  BY DEF ApiInv, GlobalInv, ListJobs, ListWorkers
<1>2. CASE ListJobs(r)
  <2>1. Jobs(Len(applied)) = JobsIn(applied, Len(applied))
    BY Operators
  <2>2. ask[r].type = "list" /\ ask[r].type \notin Modifying
    BY <1>2 DEF ListJobs, Modifying
  <2>3. DataType("reply", ask[r], Jobs(Len(applied)))
    BY <2>1, <2>2, JobsNow DEF DataType
  <2> QED
    BY <1>1, <1>2, <2>1, <2>2, <2>3, ReadStep DEF ListJobs
<1>3. CASE ListWorkers(r)
  <2>1. ask[r].type = "workers" /\ ask[r].type \notin Modifying
    BY <1>3 DEF ListWorkers, Modifying
  <2>2. DataType("reply", ask[r], None)
    BY DEF DataType
  <2> QED
    BY <1>1, <1>3, <2>1, <2>2, ReadStep DEF ListWorkers
<1> QED
  BY <1>2, <1>3

\* The lease of a kill: nothing is modified yet.
LEMMA GrantStep ==
    ASSUME ApiInv, NEW r \in Req, KillJobGrant(r)
    PROVE  ApiInv'
<1>1. GlobalInv
  BY DEF ApiInv
<1>2. GlobalInv'
  BY <1>1 DEF GlobalInv, KillJobGrant, GoTo, PC
<1>3. /\ pc'[r] = "put" /\ ask' = ask /\ data' = data /\ answer' = answer /\ since' = since
      /\ found' = found /\ applied' = applied /\ inflight' = inflight
  BY <1>1 DEF GlobalInv, KillJobGrant, GoTo
<1>4. /\ pc[r] = "call" /\ ask[r].type = "kill"
      /\ Once(r, pc[r], ask[r], answer[r], since[r], applied, inflight)
      /\ DataType(pc[r], ask[r], data[r])
      /\ LogAnswer(pc[r], ask[r], data[r], answer[r], found[r])
  BY Before DEF KillJobGrant
<1>5. Once(r, "put", ask[r], answer[r], since[r], applied, inflight)
  BY <1>4 DEF Once
<1>6. DataType("put", ask[r], data[r])
  BY <1>4 DEF DataType
<1>7. LogAnswer("put", ask[r], data[r], answer[r], found[r])
  BY <1>4 DEF LogAnswer
<1>8. Request(r)'
  BY <1>3, <1>5, <1>6, <1>7 DEF Request, RequestInv
<1>9. \A q \in Req \ {r} : pc'[q] = pc[q]
  BY <1>1 DEF GlobalInv, KillJobGrant, GoTo
<1> QED
  BY <1>2, <1>3, <1>8, <1>9, OneRequest

\* A query shows a page of the logs that were there, or is refused because the
\* last log that it read does not decode.
LEMMA QueryStep ==
    ASSUME ApiInv, NEW r \in Req, ListLog(r)
    PROVE  ApiInv'
<1>1. GlobalInv
  BY DEF ApiInv
<1>2. /\ pc[r] = "call" /\ ask[r].type = "log" /\ Acceptable(ask[r])
      /\ found' = [found EXCEPT ![r] = logs]
      /\ applied' = applied
  BY DEF ListLog
<1>3. Once(r, pc[r], ask[r], answer[r], since[r], applied, inflight)
  BY Before
<1>4. ask[r] \in Ask /\ r \notin inflight
  BY <1>2, <1>3 DEF Once
<1> DEFINE Shows(read) ==
              IF EndsInError(read)
              THEN Refuse(r, "decode") /\ UNCHANGED <<ask, data, since, inflight, logs>>
              ELSE Returns(r, Decoded(read))
<1>5. PICK s \in Sorted(ask[r].job) : \E read \in Read(Page(s, ask[r])) : Shows(read)
  BY DEF ListLog
<1>6. PICK read \in Read(Page(s, ask[r])) : Shows(read)
  BY <1>5
<1>7. logs \in SUBSET Log /\ IsFiniteSet(logs) /\ found'[r] = logs
  BY <1>1, <1>2 DEF GlobalInv
<1>8. s \in SortedIn(logs, ask[r].job)
  BY SortedIs
<1>9. IsSort(s, OfJob(logs, ask[r].job))
  BY <1>7, <1>8, SortedFacts
<1>10. s \in Seq(Log) /\ \A i \in 1..Len(s) : s[i] \in logs /\ JobOf[s[i]] = ask[r].job
  BY <1>9 DEF IsSort, OfJob
<1>11. read \in Seq(Log)
  BY <1>2, <1>4, <1>10, PageFacts
<1>12. CASE EndsInError(read)
  <2>1. Refuse(r, "decode") /\ UNCHANGED <<ask, data, since, inflight, logs>>
    BY <1>6, <1>12
  <2> QED
    BY <1>2, <1>4, <1>7, <2>1, RefuseStep
<1>13. CASE ~EndsInError(read)
  <2>1. Returns(r, Decoded(read))
    BY <1>6, <1>13
  <2>2. DataType("reply", ask[r], Decoded(read))
    BY <1>2, <1>11, DecodedFacts DEF DataType
  <2>3. Queried(ask[r], Decoded(read), logs)
    BY <1>2, <1>8 DEF Queried
  <2>4. ask[r].type \notin Modifying /\ ask[r].type # "list"
    BY <1>2 DEF Modifying
  <2> QED
    BY <1>2, <2>1, <2>2, <2>3, <2>4, ReadStep
<1> QED
  BY <1>12, <1>13

\* A modification that was given up is applied after all.
LEMMA LateStep ==
    ASSUME ApiInv, NEW r \in Req, LateApply(r)
    PROVE  ApiInv'
<1> DEFINE m == Modification(r)
<1>1. GlobalInv /\ r \in inflight /\ inflight' = inflight \ {r}
  BY DEF ApiInv, LateApply
<1>2. UNCHANGED <<pc, ask, data, answer, since, found, logs>>
  BY DEF LateApply, handlers
<1>3. /\ applied \in Seq(Mod) /\ Len(applied) \in Nat /\ since[r] \in Nat
      /\ Once(r, pc[r], ask[r], answer[r], since[r], applied, inflight)
      /\ DataType(pc[r], ask[r], data[r])
      /\ LogAnswer(pc[r], ask[r], data[r], answer[r], found[r])
      /\ pc[r] = "reply" => Effect(applied, r, ask[r], data[r], since[r])
  BY Before
<1>4. /\ pc[r] \notin {"new", "call", "put"} /\ ask[r].type \in Modifying
      /\ OfRequest(applied, r) = {} /\ (answer[r] = None \/ answer[r].msg # "form")
      /\ since[r] <= Len(applied)
  BY <1>1, <1>3 DEF Once
<1>5. ask[r] \in Ask
  BY <1>3, <1>4 DEF Once
<1>6. m \in Mod /\ m.req = r /\ r # Foreign
  BY <1>4, <1>5, ModificationType
<1>7. applied' = applied \/ applied' = Append(applied, m)
  BY DEF LateApply, Apply
<1> HIDE DEF m
<1>8. GlobalInv'
  <2>1. /\ applied' \in Seq(Mod)
        /\ \A i \in 1..Len(applied') : applied'[i].req = Foreign => applied'[i].type = "garbage"
    <3>1. CASE applied' = applied
      BY <1>1, <3>1 DEF GlobalInv
    <3>2. CASE applied' = Append(applied, m)
      BY <1>1, <1>6, <3>2, AppliedType
    <3> QED
      BY <1>7, <3>1, <3>2
  <2> QED
    BY <1>1, <1>2, <2>1 DEF GlobalInv
<1>9. Once(r, pc[r], ask[r], answer[r], since[r], applied', inflight')
  <2>1. CASE applied' = applied
    BY <1>1, <1>3, <2>1 DEF Once
  <2>2. CASE applied' = Append(applied, m)
    <3>1. OfRequest(applied', r) = OfRequest(applied, r) \cup {Len(applied) + 1}
      BY <1>3, <1>6, <2>2, AppendMod
    <3>2. Len(applied') = Len(applied) + 1
      BY <1>3, <1>6, <2>2, AppendMod
    <3>3. OfRequest(applied', r) = {Len(applied) + 1}
      BY <1>4, <3>1
    <3> QED
      BY <1>1, <1>3, <1>4, <3>2, <3>3 DEF Once
  <2> QED
    BY <1>7, <2>1, <2>2
<1>10. pc[r] = "reply" => Effect(applied', r, ask[r], data[r], since[r])
  BY <1>3, <1>6, <1>7, EffectStays
<1>11. Request(r)'
  BY <1>2, <1>3, <1>9, <1>10 DEF Request, RequestInv
<1>12. applied' = applied \/ \E x \in Mod : applied' = Append(applied, x) /\ x.req = r
  BY <1>6, <1>7
<1> QED
  BY <1>1, <1>2, <1>8, <1>11, <1>12, OneRequest

\* A put of another client: of no request.
LEMMA ForeignStep ==
    ASSUME ApiInv, NEW j \in Job, ForeignPut(j)
    PROVE  ApiInv'
<1> DEFINE m == [req |-> Foreign, type |-> "garbage", job |-> j]
<1>1. GlobalInv /\ applied \in Seq(Mod) /\ applied' = Append(applied, m)
  BY DEF ApiInv, GlobalInv, ForeignPut
<1>2. UNCHANGED <<pc, ask, data, answer, since, found, inflight, logs>>
  BY DEF ForeignPut, handlers
<1>3. m \in Mod /\ m.type = "garbage" /\ m.req = Foreign
  BY DEF Mod
<1> HIDE DEF m
<1>4. /\ applied' \in Seq(Mod)
      /\ \A i \in 1..Len(applied') : applied'[i].req = Foreign => applied'[i].type = "garbage"
  BY <1>1, <1>3, AppliedType
<1>5. GlobalInv'
  BY <1>1, <1>2, <1>4 DEF GlobalInv
<1>6. ASSUME NEW q \in Req PROVE Request(q)'
  <2>1. m.req # q
    BY <1>3 DEF Req, Foreign
  <2>2. RequestInv(q, pc[q], ask[q], data[q], answer[q], since[q], found[q], applied, inflight)
    BY DEF ApiInv, Request
  <2>3. since[q] \in Nat
    BY <1>1 DEF GlobalInv
  <2>4. RequestInv(q, pc[q], ask[q], data[q], answer[q], since[q], found[q], applied', inflight)
    BY <1>1, <1>3, <1>4, <2>1, <2>2, <2>3, Others
  <2> QED
    BY <1>2, <2>4 DEF Request
<1> QED
  BY <1>5, <1>6 DEF ApiInv

LEMMA InsertStep ==
    ASSUME ApiInv, NEW l \in Log, InsertLog(l)
    PROVE  ApiInv'
<1>1. GlobalInv /\ IsFiniteSet(logs) /\ logs' = logs \cup {l}
  BY DEF ApiInv, GlobalInv, InsertLog
<1>2. UNCHANGED <<pc, ask, data, answer, since, found, applied, inflight>>
  BY DEF InsertLog, handlers
<1>3. IsFiniteSet(logs')
  BY <1>1, FS_AddElement
<1>4. GlobalInv'
  BY <1>1, <1>2, <1>3 DEF GlobalInv
<1>5. \A q \in Req : Request(q)'
  BY <1>2 DEF ApiInv, Request
<1> QED
  BY <1>4, <1>5 DEF ApiInv

LEMMA InitInv == Init => ApiInv
<1> SUFFICES ASSUME Init PROVE ApiInv
  OBVIOUS
<1>1. applied = <<>> /\ applied \in Seq(Mod) /\ Len(applied) = 0 /\ \A i \in 1..Len(applied) : FALSE
  BY DEF Init
<1>2. IsFiniteSet({})
  BY FS_EmptySet
<1>3. GlobalInv
  BY <1>1, <1>2 DEF Init, GlobalInv, PC
<1>4. ASSUME NEW q \in Req PROVE Request(q)
  <2>1. /\ pc[q] = "new" /\ ask[q] = None /\ data[q] = None /\ answer[q] = None
        /\ since[q] = 0 /\ found[q] = {} /\ inflight = {}
    BY DEF Init
  <2>2. OfRequest(applied, q) = {}
    BY <1>1 DEF OfRequest
  <2>3. Once(q, pc[q], ask[q], answer[q], since[q], applied, inflight)
    BY <1>1, <2>1, <2>2 DEF Once
  <2>4. DataType(pc[q], ask[q], data[q])
    BY <2>1 DEF DataType
  <2>5. LogAnswer(pc[q], ask[q], data[q], answer[q], found[q])
    BY <1>2, <2>1 DEF LogAnswer
  <2> QED
    BY <2>1, <2>3, <2>4, <2>5 DEF Request, RequestInv
<1> QED
  BY <1>3, <1>4 DEF ApiInv

LEMMA StepInv == ApiInv /\ [Next]_vars => ApiInv'
<1> SUFFICES ASSUME ApiInv, [Next]_vars PROVE ApiInv'
  OBVIOUS
<1>1. ASSUME NEW r \in Req, NEW a \in Asked, Serve(r, a) PROVE ApiInv'
  BY <1>1, ServeStep
<1>2. ASSUME NEW r \in Req, Handler(r) PROVE ApiInv'
  BY <1>2, FailureSteps, RespondStep, ModifySteps, ListSteps, GrantStep, QueryStep DEF Handler
<1>3. ASSUME NEW r \in Req, MasterCrash(r) \/ LateApply(r) PROVE ApiInv'
  BY <1>3, CrashStep, LateStep
<1>4. ASSUME NEW j \in Job, ForeignPut(j) PROVE ApiInv'
  BY <1>4, ForeignStep
<1>5. ASSUME NEW l \in Log, InsertLog(l) PROVE ApiInv'
  BY <1>5, InsertStep
<1>6. CASE UNCHANGED vars
  BY <1>6 DEF vars, handlers, ApiInv, GlobalInv, Request
<1> QED
  BY <1>1, <1>2, <1>3, <1>4, <1>5, <1>6 DEF Next

LEMMA ApiInvHolds == Spec => []ApiInv
  BY InitInv, StepInv, PTL DEF Spec

-----------------------------------------------------------------------------
(* the theorems                                                            *)

\* The variables have their types. In particular the data of an answer are what
\* the browser decodes for the route it asked (ApiServer.go): an old job or
\* null, the jobs, or logs that were read from mongodb, never a value that does
\* not decode, which other clients of etcd may put.
THEOREM TypeCorrect == Spec => []TypeOK
<1>1. ApiInv => TypeOK
  <2> SUFFICES ASSUME ApiInv PROVE TypeOK
    OBVIOUS
  <2>1. \A r \in Req : DataType(pc[r], ask[r], data[r])
    BY Before
  <2> QED
    BY <2>1 DEF ApiInv, GlobalInv, DataType, TypeOK, Mod
<1> QED
  BY <1>1, ApiInvHolds, PTL

\* Whatever calls fail and masters die, etcd applies what SaveJob, DeleteJob or
\* KillJob asks for at most once, after the request was made and never for a
\* request whose form was refused.
THEOREM AtMostOnceTheorem == Spec => []AtMostOnce
<1>1. ApiInv => AtMostOnce
  <2> SUFFICES ASSUME ApiInv, NEW r \in Req, NEW i \in AppliedFor(r)
               PROVE  /\ AppliedFor(r) = {i} /\ since[r] < i
                      /\ r \notin inflight
                      /\ answer[r] = None \/ answer[r].msg # "form"
    BY DEF AtMostOnce
  <2>1. Once(r, pc[r], ask[r], answer[r], since[r], applied, inflight)
    BY Before
  <2>2. AppliedFor(r) = OfRequest(applied, r)
    BY Operators
  <2> QED
    BY <2>1, <2>2 DEF Once
<1> QED
  BY <1>1, ApiInvHolds, PTL

\* A request that is answered with errno 0 took effect between its arrival and its
\* answer: its modification was applied, the old job that it shows is the one
\* that this modification replaced, and a list shows the jobs of one moment.
THEOREM LinearizableTheorem == Spec => Linearizable
<1> DEFINE A == \A r \in Req : answer[r] = None /\ answer'[r] # None /\ answer'[r].errno = 0 =>
                                  TookEffect(r)
<1>1. ApiInv /\ [Next]_vars => A
  <2> SUFFICES ASSUME ApiInv, [Next]_vars, NEW r \in Req,
                      answer[r] = None, answer'[r] # None, answer'[r].errno = 0
               PROVE  TookEffect(r)
    OBVIOUS
  <2>1. answer \in [Req -> Response \cup {None}]
    BY DEF ApiInv, GlobalInv
  <2>2. ASSUME NEW q \in Req, NEW msg, Refuse(q, msg) PROVE FALSE
    <3>1. answer' = answer \/ answer' = [answer EXCEPT ![q] = [errno |-> -1, msg |-> msg]]
      BY <2>2 DEF Refuse
    <3>2. answer'[r] = answer[r] \/ answer'[r] = [errno |-> -1, msg |-> msg]
      BY <2>1, <3>1
    <3> QED
      BY <3>2
  <2>3. ~(answer' = answer)
    OBVIOUS
  <2>4. ASSUME NEW q \in Req, Handler(q) PROVE Respond(q)
    <3>1. ~BadForm(q) /\ ~CallFails(q)
      BY <2>2 DEF BadForm, CallFails
    <3>2. ~SaveJob(q) /\ ~DeleteJob(q) /\ ~ListJobs(q) /\ ~ListWorkers(q) /\ ~KillJobPut(q)
      BY <2>3 DEF SaveJob, DeleteJob, ListJobs, ListWorkers, KillJobPut, Returns
    <3>3. ~KillJobGrant(q) /\ ~ListLog(q)
      BY <2>2, <2>3 DEF KillJobGrant, ListLog, Returns
    <3> QED
      BY <2>4, <3>1, <3>2, <3>3 DEF Handler
  <2>5. PICK q \in Req : Respond(q)
    BY <2>3, <2>4 DEF Next, vars, handlers, Serve, MasterCrash, LateApply, ForeignPut, InsertLog
  <2>6. pc[r] = "reply"
    <3>1. r = q
      BY <2>1, <2>5 DEF Respond
    <3> QED
      BY <2>5, <3>1 DEF Respond
  <2>7. Effect(applied, r, ask[r], data[r], since[r])
    BY <2>6, Before
  <2> QED
    BY <2>7, Operators DEF Effect, TookEffect
<1> QED
  BY <1>1, ApiInvHolds, PTL DEF Spec, Linearizable

\* A browser that reads a job's logs page by page (skip and limit of handleJobLog)
\* misses no log that was there from the beginning, while log sinks insert more.
THEOREM PagesCoverTheorem == Spec => []PagesCover
<1>1. ApiInv => PagesCover
  <2> SUFFICES ASSUME ApiInv,
                      \A k, l \in Log : k # l => StartTime[k] # StartTime[l],
                      NEW r \in Req, NEW s \in Req, Shown(r), Shown(s), NextPage(r, s),
                      NEW l \in found[r], JobOf[l] = ask[r].job, Decodes[l],
                      NEW k \in Range(data[s]), StartTime[l] >= StartTime[k]
               PROVE  l \in Range(data[r]) \cup Range(data[s])
    BY DEF PagesCover
  <2> DEFINE S == OfJob(found[r], ask[r].job)
             T == OfJob(found[s], ask[s].job)
  <2>1. /\ ask[r] \in Ask /\ ask[r].type = "log" /\ ask[s] \in Ask /\ ask[s].type = "log"
        /\ answer[r] # None /\ answer[r].errno = 0 /\ answer[s] # None /\ answer[s].errno = 0
    BY DEF ApiInv, GlobalInv, Shown
  <2>2. /\ LogAnswer(pc[r], ask[r], data[r], answer[r], found[r])
        /\ LogAnswer(pc[s], ask[s], data[s], answer[s], found[s])
        /\ found[r] \in SUBSET Log /\ found[s] \in SUBSET Log
    BY Before
  <2>3. /\ IsFiniteSet(found[r]) /\ IsFiniteSet(found[s])
        /\ Queried(ask[r], data[r], found[r]) /\ Queried(ask[s], data[s], found[s])
        /\ Acceptable(ask[r]) /\ Acceptable(ask[s])
    BY <2>1, <2>2 DEF LogAnswer, Queried
  <2>4. PICK x \in SortedIn(found[r], ask[r].job) :
           \E read \in Read(Page(x, ask[r])) : data[r] = Decoded(read)
    BY <2>3 DEF Queried
  <2>5. PICK first \in Read(Page(x, ask[r])) : data[r] = Decoded(first)
    BY <2>4
  <2>6. PICK y \in SortedIn(found[s], ask[s].job) :
           \E read \in Read(Page(y, ask[s])) : data[s] = Decoded(read)
    BY <2>3 DEF Queried
  <2>7. PICK second \in Read(Page(y, ask[s])) : data[s] = Decoded(second)
    BY <2>6
  <2>8. IsSort(x, S) /\ IsSort(y, T)
    BY <2>2, <2>3, SortedFacts
  <2>9. S \in SUBSET Log /\ T \in SUBSET Log /\ S \subseteq T /\ l \in S
    BY <2>2 DEF OfJob, NextPage
  <2>10. Limit(ask[r]) \in 1..FirstBatch /\ Skip(ask[r]) = 0 /\ Skip(ask[s]) = Limit(ask[r])
    BY DEF NextPage
  <2> HIDE DEF S, T
  <2> QED
    BY <2>1, <2>3, <2>5, <2>7, <2>8, <2>9, <2>10, TwoPages
<1> QED
  BY <1>1, ApiInvHolds, PTL
==================================================
