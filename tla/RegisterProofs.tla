--------------------------- MODULE RegisterProofs ---------------------------
(***************************************************************************)
(* Proofs about Register, for any workers, network cards, leases and       *)
(* bounds.                                                                 *)
(***************************************************************************)
EXTENDS Register, WellFoundedInduction, TLAPS

\* The least index of a set of them.
LEMMA Least ==
    ASSUME NEW S \in SUBSET Nat, S # {}
    PROVE  \E x \in S : \A y \in Nat : y < x => y \notin S
<1> DEFINE R == OpToRel(<, Nat)
<1>1. \A x, y \in Nat : <<y, x>> \in R <=> y < x
  BY DEF OpToRel
<1>2. IsWellFoundedOn(R, Nat)
  BY NatLessThanWellFounded
<1> HIDE DEF R
<1>3. PICK x \in S : \A y \in S : ~(<<y, x>> \in R)
  BY <1>2, WFMin
<1> QED
  BY <1>1, <1>3

\* getLocalIpv4 returns the address of one of the cards, or none.
LEMMA LocalIPType == localIPV4 \in [Worker -> IP \cup {NoIP}]
<1> SUFFICES ASSUME NEW w \in Worker PROVE getLocalIpv4(Interfaces[w]) \in IP \cup {NoIP}
  BY DEF localIPV4
<1> DEFINE cards == Interfaces[w]
           first(i) == Eligible(cards[i]) /\ \A k \in 1..(i - 1) : ~Eligible(cards[k])
<1>1. cards \in Seq(Card) /\ Len(cards) \in Nat /\ \A i \in 1..Len(cards) : cards[i] \in Card
  <2>1. cards \in Seq(Card)
    BY RegisterAssumption
  <2> QED
    BY <2>1
<1>2. CASE \E i \in 1..Len(cards) : Eligible(cards[i])
  <2> DEFINE S == {i \in 1..Len(cards) : Eligible(cards[i])}
  <2>1. S \in SUBSET Nat /\ S # {}
    BY <1>2
  <2>2. PICK x \in S : \A y \in Nat : y < x => y \notin S
    BY <2>1, Least
  <2>3. x \in 1..Len(cards) /\ first(x)
    <3>1. ASSUME NEW k \in 1..(x - 1) PROVE k \in Nat /\ k < x /\ k \in 1..Len(cards)
      BY <1>1
    <3> QED
      BY <2>2, <3>1
  <2> DEFINE c == CHOOSE i \in 1..Len(cards) : first(i)
  <2>4. c \in 1..Len(cards)
    BY <2>3
  <2>5. getLocalIpv4(cards) = cards[c].ip
    BY <1>2 DEF getLocalIpv4
  <2> QED
    BY <1>1, <2>4, <2>5 DEF Card
<1>3. CASE ~\E i \in 1..Len(cards) : Eligible(cards[i])
  BY <1>3 DEF getLocalIpv4
<1> QED
  BY <1>2, <1>3

-----------------------------------------------------------------------------
\* A worker that runs has an address, and a round that has got as far as the
\* renewal has a lease: what the types rest on.
HasAddress == \A w \in Worker : pc[w] # "down" => localIPV4[w] \in IP
HasLease == \A w \in Worker : pc[w] \in {"keepalive", "put", "online"} => lease[w] \in Lease
TypeInv == TypeOK /\ HasAddress /\ HasLease

LEMMA NewLeaseFree ==
    ASSUME Free # {}
    PROVE  NewLease \in Free /\ NewLease \in Lease
  BY DEF NewLease, Free

\* Faults are only ever added.
LEMMA FaultsFacts ==
    ASSUME TypeOK, NEW W \in SUBSET Worker, Faults(W)
    PROVE  /\ faults' \in [Worker -> 0..MaxFaults]
           /\ \A w \in Worker : faults'[w] = 0 => faults[w] = 0 /\ w \notin W
<1>1. MaxFaults \in Nat /\ faults \in [Worker -> 0..MaxFaults]
  BY RegisterAssumption DEF TypeOK
<1> QED
  BY <1>1 DEF Faults

LEMMA TypeStep ==
    ASSUME TypeInv, [Next]_vars
    PROVE  TypeInv'
<1> USE RegisterAssumption DEF TypeInv, TypeOK, HasAddress, HasLease, PC
<1>1. ASSUME NEW w \in Worker, InitRegisterETCD(w) PROVE TypeInv'
  BY <1>1, LocalIPType DEF InitRegisterETCD, GoTo, etcdVars
<1>2. ASSUME NEW w \in Worker, Grant(w) PROVE TypeInv'
  BY <1>2, NewLeaseFree DEF Grant, GoTo
<1>3. ASSUME NEW w \in Worker, GrantFails(w) PROVE TypeInv'
  BY <1>3 DEF GrantFails, GoTo, etcdVars
<1>4. ASSUME NEW w \in Worker, KeepAlive(w) PROVE TypeInv'
  BY <1>4 DEF KeepAlive, GoTo, etcdVars
<1>5. ASSUME NEW w \in Worker, KeepAliveFails(w) PROVE TypeInv'
  BY <1>5 DEF KeepAliveFails, GoTo, etcdVars
<1>6. ASSUME NEW w \in Worker, Put(w) PROVE TypeInv'
  BY <1>6 DEF Put, GoTo
<1>7. ASSUME NEW w \in Worker, pc[w] = "put" PROVE PutInFlight(w) \in RegPut
  BY <1>7 DEF PutInFlight, RegPut
<1>8. ASSUME NEW w \in Worker, PutFails(w) PROVE TypeInv'
  BY <1>7, <1>8 DEF PutFails, GoTo
<1>9. ASSUME NEW w \in Worker, ReadResponses(w) PROVE TypeInv'
  BY <1>9 DEF ReadResponses, GoTo, etcdVars
<1>10. ASSUME NEW w \in Worker, Retry(w) PROVE TypeInv'
  BY <1>10 DEF Retry, GoTo, etcdVars
<1>11. ASSUME NEW w \in Worker, Crash(w) PROVE TypeInv'
  <2>1. faults' \in [Worker -> 0..MaxFaults]
    BY <1>11, FaultsFacts DEF Crash
  <2>2. pendingPut' \in SUBSET RegPut
    BY <1>7, <1>11 DEF Crash
  <2> QED
    BY <1>11, <2>1, <2>2 DEF Crash, GoTo
<1>12. ASSUME NEW w \in Worker, NEW l \in Lease, KeepAliveLost(w, l) PROVE TypeInv'
  <2>1. faults' \in [Worker -> 0..MaxFaults]
    BY <1>12, FaultsFacts DEF KeepAliveLost
  <2> QED
    BY <1>12, <2>1 DEF KeepAliveLost, etcdVars
<1>13. ASSUME NEW l \in Lease, Expire(l) PROVE TypeInv'
  <2>1. faults' \in [Worker -> 0..MaxFaults]
    BY <1>13, FaultsFacts DEF Expire, Users
  <2> QED
    BY <1>13, <2>1 DEF Expire, workerVars
<1>14. ASSUME NEW p \in pendingPut, LatePut(p) PROVE TypeInv'
  BY <1>14 DEF LatePut, workerVars, RegPut
<1>15. CASE UNCHANGED vars
  BY <1>15 DEF vars, workerVars, etcdVars
<1> QED
  BY <1>1, <1>2, <1>3, <1>4, <1>5, <1>6, <1>8, <1>9, <1>10, <1>11, <1>12, <1>13, <1>14, <1>15
  DEF Next, keepOnline

LEMMA TypeInvHolds == Spec => []TypeInv
<1>1. Init => TypeInv
  BY RegisterAssumption DEF Init, TypeInv, TypeOK, HasAddress, HasLease, PC
<1> QED
  BY <1>1, TypeStep, PTL DEF Spec

\* Every variable keeps its type: no key is put with a lease that was not
\* granted, none for an address that no card has.
THEOREM TypeCorrect == Spec => []TypeOK
  BY TypeInvHolds, PTL DEF TypeInv
-----------------------------------------------------------------------------
\* A worker that has neither crashed nor lost etcd for a TTL holds on to all its
\* leases: those it renews, which no retry stops renewing, and that of its round.
LeasesLive ==
    \A w \in Worker : Steady(w) => renewing[w] \cup ({lease[w]} \ {NoLease}) \subseteq live

\* The lease that it is about to put its key with, or has, is renewed.
RoundRenewed ==
    \A w \in Worker : Steady(w) /\ pc[w] \in {"put", "online"} => lease[w] \in renewing[w]

\* Whoever's Put is applied last, the key of an address that only one worker has
\* is on a lease which that worker renews: so are the key, and every Put of it
\* that was given up.
KeyRenewed ==
    \A w \in Worker, ip \in IP : Steady(w) /\ Namesakes(w) = {} /\ localIPV4[w] = ip =>
       /\ regKey[ip] \in renewing[w] \cup {NoKey}
       /\ \A p \in pendingPut : p.ip = ip => p.lease \in renewing[w]
       /\ pc[w] = "online" => regKey[ip] # NoKey

SteadyInv == LeasesLive /\ RoundRenewed /\ KeyRenewed

\* Nobody else has the address.
LEMMA NoNamesake ==
    ASSUME NEW w \in Worker, NEW x \in Worker, Namesakes(w) = {}, localIPV4[x] = localIPV4[w]
    PROVE  x = w
  BY DEF Namesakes

LEMMA SteadyStep ==
    ASSUME TypeInv, TypeInv', SteadyInv, [Next]_vars
    PROVE  SteadyInv'
<1> USE RegisterAssumption
        DEF SteadyInv, LeasesLive, RoundRenewed, KeyRenewed, Steady, TypeInv, TypeOK, PC
<1>1. ASSUME NEW w \in Worker, InitRegisterETCD(w) PROVE SteadyInv'
  BY <1>1 DEF InitRegisterETCD, GoTo, etcdVars
<1>2. ASSUME NEW w \in Worker, Grant(w) PROVE SteadyInv'
  BY <1>2, NewLeaseFree DEF Grant, GoTo
<1>3. ASSUME NEW w \in Worker, GrantFails(w) PROVE SteadyInv'
  BY <1>3 DEF GrantFails, GoTo, etcdVars
<1>4. ASSUME NEW w \in Worker, KeepAlive(w) PROVE SteadyInv'
  BY <1>4 DEF KeepAlive, GoTo, etcdVars, HasLease
<1>5. ASSUME NEW w \in Worker, KeepAliveFails(w) PROVE SteadyInv'
  BY <1>5 DEF KeepAliveFails, GoTo, etcdVars
<1>6. ASSUME NEW w \in Worker, Put(w) PROVE SteadyInv'
  <2>1. LeasesLive' /\ RoundRenewed'
    BY <1>6 DEF Put, GoTo
  <2>2. KeyRenewed'
    BY <1>6, NoNamesake DEF Put, GoTo, HasAddress
  <2> QED
    BY <2>1, <2>2
<1>7. ASSUME NEW w \in Worker, pc[w] = "put",
             NEW x \in Worker, NEW ip \in IP,
             Steady(x), Namesakes(x) = {}, localIPV4[x] = ip, PutInFlight(w).ip = ip
      PROVE  PutInFlight(w).lease \in renewing[x]
  BY <1>7, NoNamesake DEF PutInFlight
<1>8. ASSUME NEW w \in Worker, PutFails(w) PROVE SteadyInv'
  <2>1. LeasesLive' /\ RoundRenewed'
    BY <1>8 DEF PutFails, GoTo
  <2>2. KeyRenewed'
    BY <1>7, <1>8 DEF PutFails, GoTo
  <2> QED
    BY <2>1, <2>2
<1>9. ASSUME NEW w \in Worker, ReadResponses(w) PROVE SteadyInv'
  BY <1>9 DEF ReadResponses, GoTo, etcdVars
<1>10. ASSUME NEW w \in Worker, Retry(w) PROVE SteadyInv'
  BY <1>10 DEF Retry, GoTo, etcdVars
<1>11. ASSUME NEW w \in Worker, Crash(w) PROVE SteadyInv'
  <2>1. \A x \in Worker : Steady(x)' => Steady(x) /\ x # w
    <3>1. {w} \in SUBSET Worker /\ Faults({w})
      BY <1>11 DEF Crash
    <3> QED
      BY <3>1, FaultsFacts
  <2>2. \A x \in Worker : x # w => /\ renewing'[x] = renewing[x] /\ lease'[x] = lease[x]
                                   /\ pc'[x] = pc[x]
    BY <1>11 DEF Crash, GoTo
  <2>3. LeasesLive' /\ RoundRenewed'
    BY <1>11, <2>1, <2>2 DEF Crash
  <2>4. KeyRenewed'
    <3>1. ASSUME NEW p \in pendingPut'
          PROVE  p \in pendingPut \/ (pc[w] = "put" /\ p = PutInFlight(w))
      BY <1>11 DEF Crash
    <3> SUFFICES ASSUME NEW x \in Worker, NEW ip \in IP,
                        Steady(x)', Namesakes(x) = {}, localIPV4[x] = ip
                 PROVE  /\ regKey'[ip] \in renewing'[x] \cup {NoKey}
                        /\ \A p \in pendingPut' : p.ip = ip => p.lease \in renewing'[x]
                        /\ pc'[x] = "online" => regKey'[ip] # NoKey
      BY DEF Namesakes
    <3>2. Steady(x) /\ x # w
      BY <2>1
    <3>3. ASSUME NEW p \in pendingPut', p.ip = ip PROVE p.lease \in renewing[x]
      BY <1>7, <3>1, <3>2, <3>3
    <3> QED
      BY <1>11, <2>2, <3>2, <3>3 DEF Crash
  <2> QED
    BY <2>3, <2>4
<1>12. ASSUME NEW w \in Worker, NEW l \in Lease, KeepAliveLost(w, l) PROVE SteadyInv'
  <2>1. \A x \in Worker : Steady(x)' => Steady(x) /\ (x = w => l \notin live)
    <3> DEFINE W == {x \in {w} : l \in live}
    <3>1. W \in SUBSET Worker /\ Faults(W)
      BY <1>12 DEF KeepAliveLost
    <3>2. \A x \in Worker : x = w /\ l \in live => x \in W
      OBVIOUS
    <3> HIDE DEF W
    <3> QED
      BY <3>1, <3>2, FaultsFacts
  <2>2. \A x \in Worker : Steady(x)' => x # w
    BY <1>12, <2>1 DEF KeepAliveLost
  <2>3. \A x \in Worker : x # w => renewing'[x] = renewing[x]
    BY <1>12 DEF KeepAliveLost
  <2> QED
    BY <1>12, <2>1, <2>2, <2>3 DEF KeepAliveLost, etcdVars
<1>13. ASSUME NEW l \in Lease, Expire(l) PROVE SteadyInv'
  <2>1. \A x \in Worker : Steady(x)' => Steady(x) /\ l \notin renewing[x] /\ l # lease[x]
    <3>1. Users(l) \in SUBSET Worker /\ Faults(Users(l))
      BY <1>13 DEF Expire, Users
    <3>2. \A x \in Worker : Steady(x)' => Steady(x) /\ x \notin Users(l)
      BY <3>1, FaultsFacts
    <3> QED
      BY <3>2 DEF Users
  <2>2. LeasesLive' /\ RoundRenewed'
    BY <1>13, <2>1 DEF Expire, workerVars
  <2>3. KeyRenewed'
    <3> SUFFICES ASSUME NEW w \in Worker, NEW ip \in IP,
                        Steady(w)', Namesakes(w) = {}, localIPV4[w] = ip
                 PROVE  /\ regKey'[ip] = regKey[ip]
                        /\ UNCHANGED <<pendingPut, renewing, pc>>
      BY <2>1 DEF Namesakes
    <3>1. regKey[ip] \in renewing[w] \cup {NoKey} /\ l \notin renewing[w]
      BY <2>1
    <3> QED
      BY <1>13, <3>1 DEF Expire, workerVars
  <2> QED
    BY <2>2, <2>3
<1>14. ASSUME NEW p \in pendingPut, LatePut(p) PROVE SteadyInv'
  <2>1. UNCHANGED <<pc, lease, renewing, live, faults>> /\ pendingPut' \subseteq pendingPut
    BY <1>14 DEF LatePut, workerVars
  <2>2. LeasesLive' /\ RoundRenewed'
    BY <2>1
  <2>3. p.ip \in IP /\ p.lease \in Lease
    BY DEF RegPut
  <2>4. \A ip \in IP : regKey'[ip] = regKey[ip] \/ (p.ip = ip /\ regKey'[ip] = p.lease)
    BY <1>14, <2>3 DEF LatePut
  <2>5. KeyRenewed'
    BY <2>1, <2>3, <2>4 DEF Namesakes
  <2> QED
    BY <2>2, <2>5
<1>15. CASE UNCHANGED vars
  BY <1>15 DEF vars, workerVars, etcdVars
<1> QED
  BY <1>1, <1>2, <1>3, <1>4, <1>5, <1>6, <1>8, <1>9, <1>10, <1>11, <1>12, <1>13, <1>14, <1>15
  DEF Next, keepOnline

\* A worker that has neither crashed nor lost etcd for a TTL, and whose address
\* is its own, is in the list from its first successful Put on, by a lease that
\* it renews: however many rounds of keepOnline failed before, and in whatever
\* order their abandoned Puts are applied (RegisterETCD.go:138, :166).
THEOREM SteadyListedTheorem == Spec => []SteadyListed
<1>1. Init => SteadyInv
  BY RegisterAssumption
  DEF Init, SteadyInv, LeasesLive, RoundRenewed, KeyRenewed, Steady
<1>2. TypeInv /\ SteadyInv => SteadyListed
  BY RegisterAssumption
  DEF TypeInv, HasAddress, TypeOK, SteadyInv, LeasesLive, KeyRenewed, Steady, SteadyListed
<1> QED
  BY <1>1, <1>2, TypeInvHolds, SteadyStep, PTL DEF Spec
=============================================================================
