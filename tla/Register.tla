------------------------------ MODULE Register ------------------------------
(***************************************************************************)
(* How workers register: the goroutine of keepOnline on every worker, the  *)
(* leases and the keys /cron/workers/ip of etcd, and the list of workers   *)
(* that a master reads from them.                                          *)
(*                                                                         *)
(* A round is one pass of keepOnline's loop: a lease, its renewal, and a   *)
(* Put of the key. Any call may fail; a Put whose client has given up, or  *)
(* has died, may still be applied. A worker may be cut off from etcd for   *)
(* longer than the lease's 10 seconds, and may die and be started again.   *)
(***************************************************************************)
EXTENDS Naturals, Sequences, FiniteSets

CONSTANTS Worker,      \* worker machines
          IP,          \* their addresses
          Interfaces,  \* of each worker, the addresses of its network cards, in order
          NoIP,        \* there is no address to register
          Lease,       \* bound: the pool of lease IDs; one that nobody knows is used again
          MaxRenewals, \* bound: how many leases a worker's client renews
          MaxFaults,   \* bound: how often a worker crashes or is cut off
          NoLease,     \* the round has no lease yet
          NoKey        \* there is no such key

Card == [ip : IP, loopback : BOOLEAN, v4 : BOOLEAN]

ASSUME RegisterAssumption ==
    /\ Interfaces \in [Worker -> Seq(Card)]
    /\ NoIP \notin IP
    /\ MaxRenewals \in Nat /\ MaxFaults \in Nat
    /\ NoLease \notin Lease /\ NoKey \notin Lease \cup {NoLease}

Eligible(card) == ~card.loopback /\ card.v4

\* getLocalIpv4: the first address that is IPv4 and not the loopback's.
getLocalIpv4(cards) ==
    IF \E i \in 1..Len(cards) : Eligible(cards[i])
    THEN cards[CHOOSE i \in 1..Len(cards) :
                  /\ Eligible(cards[i])
                  /\ \A k \in 1..(i - 1) : ~Eligible(cards[k])].ip
    ELSE NoIP

localIPV4 == [w \in Worker |-> getLocalIpv4(Interfaces[w])]

VARIABLES
    pc,         \* where the worker's keepOnline is
    lease,      \* the lease of its round
    renewing,   \* the leases that its etcd client renews
    live,       \* the leases that etcd has
    regKey,     \* /cron/workers/ip: the lease the key is attached to, or NoKey
    pendingPut, \* Puts whose client has given up but that may still be applied
    faults      \* how often the worker has crashed or was cut off for a TTL

workerVars == <<pc, lease, renewing>>
etcdVars == <<live, regKey, pendingPut>>
vars == <<workerVars, etcdVars, faults>>

PC == {"down", "grant", "keepalive", "put", "online", "retry"}
RegPut == [ip : IP, lease : Lease]

TypeOK == /\ pc \in [Worker -> PC]
          /\ lease \in [Worker -> Lease \cup {NoLease}]
          /\ renewing \in [Worker -> SUBSET Lease]
          /\ live \in SUBSET Lease
          /\ regKey \in [IP -> Lease \cup {NoKey}]
          /\ pendingPut \in SUBSET RegPut
          /\ faults \in [Worker -> 0..MaxFaults]

Init == /\ pc = [w \in Worker |-> "down"]
        /\ lease = [w \in Worker |-> NoLease]
        /\ renewing = [w \in Worker |-> {}]
        /\ live = {}
        /\ regKey = [ip \in IP |-> NoKey]
        /\ pendingPut = {}
        /\ faults = [w \in Worker |-> 0]

-----------------------------------------------------------------------------
(* etcd                                                                    *)

\* Leases that neither etcd nor any client knows. Which one of them etcd grants
\* matters to nobody.
Free == {l \in Lease : /\ l \notin live
                       /\ \A w \in Worker : lease[w] # l /\ l \notin renewing[w]
                       /\ \A p \in pendingPut : p.lease # l}

NewLease == CHOOSE l \in Free : TRUE

Renewed(l) == \E w \in Worker : l \in renewing[w]

\* The workers that renew a lease or are about to.
Users(l) == {w \in Worker : l \in renewing[w] \cup {lease[w]}}

\* One more fault of the workers in W.
Faults(W) == /\ \A w \in W : faults[w] < MaxFaults
             /\ faults' = [w \in Worker |-> IF w \in W THEN faults[w] + 1 ELSE faults[w]]

\* A wrong expiry: the keys of the lease stay.
ExpireKeepsKeys(l) ==
    /\ l \in live
    /\ live' = live \ {l}
    /\ Faults(Users(l))
    /\ UNCHANGED <<workerVars, regKey, pendingPut>>

\* A lease that was not renewed for its TTL ends, and its keys with it. A
\* worker that uses it was cut off.
Expire(l) ==
    /\ l \in live
    /\ live' = live \ {l}
    /\ regKey' = [ip \in IP |-> IF regKey[ip] = l THEN NoKey ELSE regKey[ip]]
    /\ Faults(Users(l))
    /\ UNCHANGED <<workerVars, pendingPut>>

\* A Put whose client has given up is applied after all, or is lost. It is
\* rejected when its lease is gone.
LatePut(p) ==
    /\ p \in pendingPut
    /\ pendingPut' = pendingPut \ {p}
    /\ \/ p.lease \in live /\ regKey' = [regKey EXCEPT ![p.ip] = p.lease]
       \/ UNCHANGED regKey
    /\ UNCHANGED <<workerVars, live, faults>>

\* The client stops renewing a lease: the server answered that it is gone, or no
\* answer came within the TTL. The channel of responses is closed.
KeepAliveLost(w, l) ==
    /\ l \in renewing[w]
    /\ renewing' = [renewing EXCEPT ![w] = @ \ {l}]
    /\ Faults({x \in {w} : l \in live})
    /\ UNCHANGED <<pc, lease, etcdVars>>

-----------------------------------------------------------------------------
(* keepOnline                                                              *)

GoTo(w, place) == pc' = [pc EXCEPT ![w] = place]

\* InitRegisterETCD fails, and with it the process, when there is no address.
InitRegisterETCD(w) ==
    /\ pc[w] = "down"
    /\ localIPV4[w] # NoIP
    /\ GoTo(w, "grant")
    /\ UNCHANGED <<lease, renewing, etcdVars, faults>>

Grant(w) ==
    /\ pc[w] = "grant"
    /\ Free # {}
    /\ live' = live \cup {NewLease}
    /\ lease' = [lease EXCEPT ![w] = NewLease]
    /\ GoTo(w, "keepalive")
    /\ UNCHANGED <<renewing, regKey, pendingPut, faults>>

\* A wrong Grant: its error is not looked at.
GrantFailsIgnored(w) ==
    /\ pc[w] = "grant"
    /\ GoTo(w, "keepalive")
    /\ UNCHANGED <<lease, renewing, etcdVars, faults>>

\* A lease that exists although the call failed is known to nobody, carries no
\* key and is left out.
GrantFails(w) ==
    /\ pc[w] = "grant"
    /\ GoTo(w, "retry")
    /\ UNCHANGED <<lease, renewing, etcdVars, faults>>

KeepAlive(w) ==
    /\ pc[w] = "keepalive"
    /\ renewing' = [renewing EXCEPT ![w] = @ \cup {lease[w]}]
    /\ GoTo(w, "put")
    /\ UNCHANGED <<lease, etcdVars, faults>>

\* KeepAlive fails when the client's lessor was closed. The worker never closes
\* it, so that the error does not last.
KeepAliveFails(w) ==
    /\ pc[w] = "keepalive"
    /\ GoTo(w, "retry")
    /\ UNCHANGED <<lease, renewing, etcdVars, faults>>

\* The key is put; one that is there already, by whomever, changes over to the
\* new lease.
Put(w) ==
    /\ pc[w] = "put"
    /\ lease[w] \in live
    /\ regKey' = [regKey EXCEPT ![localIPV4[w]] = lease[w]]
    /\ GoTo(w, "online")
    /\ UNCHANGED <<lease, renewing, live, pendingPut, faults>>

PutInFlight(w) == [ip |-> localIPV4[w], lease |-> lease[w]]

\* A wrong Put: its error is not looked at.
PutFailsIgnored(w) ==
    /\ pc[w] = "put"
    /\ Cardinality(renewing[w]) < MaxRenewals
    /\ pendingPut' = pendingPut \cup {PutInFlight(w)}
    /\ GoTo(w, "online")
    /\ UNCHANGED <<lease, renewing, live, regKey, faults>>

\* The Put fails: its lease is gone, or its answer is lost, so that it was
\* applied, still will be, or never is.
PutFails(w) ==
    /\ pc[w] = "put"
    /\ Cardinality(renewing[w]) < MaxRenewals
    /\ pendingPut' = pendingPut \cup {PutInFlight(w)}
    /\ GoTo(w, "retry")
    /\ UNCHANGED <<lease, renewing, live, regKey, faults>>

\* A wrong loop: the end of the renewals goes unnoticed.
ReadResponsesForEver(w) ==
    /\ pc[w] = "online"
    /\ lease[w] \notin renewing[w]
    /\ UNCHANGED vars

\* The loop over the renewals' responses ends when their channel is closed.
ReadResponses(w) ==
    /\ pc[w] = "online"
    /\ lease[w] \notin renewing[w]
    /\ GoTo(w, "retry")
    /\ UNCHANGED <<lease, renewing, etcdVars, faults>>

\* A wrong retry: it cancels the renewal of the round's lease, as the comment says.
RetryCancels(w) ==
    /\ pc[w] = "retry"
    /\ renewing' = [renewing EXCEPT ![w] = @ \ {lease[w]}]
    /\ lease' = [lease EXCEPT ![w] = NoLease]
    /\ GoTo(w, "grant")
    /\ UNCHANGED <<etcdVars, faults>>

\* After a second, the next round. cancelFuc cancels the context of the Put,
\* which has returned; the renewal has a context of its own and goes on.
Retry(w) ==
    /\ pc[w] = "retry"
    /\ lease' = [lease EXCEPT ![w] = NoLease]
    /\ GoTo(w, "grant")
    /\ UNCHANGED <<renewing, etcdVars, faults>>

\* The process dies with its goroutine and renewals; a Put it was sending may
\* still arrive.
Crash(w) ==
    /\ pc[w] # "down"
    /\ pendingPut' = pendingPut \cup {p \in {PutInFlight(w)} : pc[w] = "put"}
    /\ lease' = [lease EXCEPT ![w] = NoLease]
    /\ renewing' = [renewing EXCEPT ![w] = {}]
    /\ GoTo(w, "down")
    /\ Faults({w})
    /\ UNCHANGED <<live, regKey>>

-----------------------------------------------------------------------------
(* the master                                                              *)

\* ListWorkers: the addresses of all keys of the directory.
ListWorkers == {ip \in IP : regKey[ip] # NoKey}

-----------------------------------------------------------------------------
keepOnline(w) == \/ Grant(w) \/ GrantFails(w)
                 \/ KeepAlive(w) \/ KeepAliveFails(w)
                 \/ Put(w) \/ PutFails(w)
                 \/ ReadResponses(w) \/ Retry(w)

Next == \/ \E w \in Worker : InitRegisterETCD(w) \/ keepOnline(w)
        \/ \E w \in Worker : Crash(w)
        \/ \E w \in Worker, l \in Lease : KeepAliveLost(w, l)
        \/ \E l \in Lease : Expire(l)
        \/ \E p \in pendingPut : LatePut(p)

Spec == Init /\ [][Next]_vars

\* Goroutines run, RPCs return, and a call that is made again and again does not
\* fail for ever; etcd's expiry loop visits every lease that nobody renews and
\* its answers reach the clients; a message is not in flight for ever. Nothing
\* is assumed of starts, crashes or connections.
Fairness ==
    /\ \A w \in Worker : /\ WF_vars(keepOnline(w))
                         /\ SF_vars(Grant(w)) /\ SF_vars(KeepAlive(w)) /\ SF_vars(Put(w))
    /\ \A l \in Lease : /\ WF_vars(~Renewed(l) /\ Expire(l))
                        /\ \A w \in Worker : WF_vars(l \notin live /\ KeepAliveLost(w, l))
    /\ WF_vars(\E p \in pendingPut : LatePut(p))

FairSpec == Spec /\ Fairness

-----------------------------------------------------------------------------
(* properties                                                              *)

Up(w) == pc[w] # "down"
Listed(w) == localIPV4[w] \in ListWorkers
Steady(w) == faults[w] = 0
Namesakes(w) == {x \in Worker \ {w} : localIPV4[x] = localIPV4[w]}

\* A worker that got online, that has neither crashed nor lost etcd for a TTL,
\* and that shares its address with nobody, is listed, by a lease that is
\* renewed. Puts of its abandoned rounds may still move the key to an older
\* lease: that one is renewed too, because no retry cancels a renewal
\* (RegisterETCD.go:138, :166).
SteadyListed ==
    \A w \in Worker : Steady(w) /\ Namesakes(w) = {} /\ pc[w] = "online" =>
                         regKey[localIPV4[w]] \in renewing[w] \cap live

\* Whatever fails, a steady worker that has an address of its own gets listed
\* (RegisterETCD.go:132), and then stays so.
SteadyStaysListed ==
    \A w \in Worker : Namesakes(w) = {} /\ []Steady(w) /\ <>Up(w) => <>[]Listed(w)

\* "ten seconds after the worker has crashed its lease expires and regKey is
\* deleted" (RegisterETCD.go:130): an address at which no worker is up does not
\* stay in the list, late Puts or not.
CrashedUnlisted ==
    \A ip \in IP : []<>(ip \notin ListWorkers \/ \E w \in Worker : localIPV4[w] = ip /\ Up(w))

\* "apply for a new lease" (RegisterETCD.go:155): a worker whose lease has lapsed
\* is listed again, unless it crashes.
LapsedReturns ==
    \A w \in Worker : (pc[w] = "online" /\ lease[w] \notin live) ~> (Listed(w) \/ ~Up(w))

\* "the worker's liveness has to be reported; on any error, try again and again"
\* (RegisterETCD.go:132): a worker that is up and missing from the list comes
\* back to it.
AliveListed == \A w \in Worker : (Up(w) /\ ~Listed(w)) ~> (Listed(w) \/ ~Up(w))
=============================================================================
