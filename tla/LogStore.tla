------------------------------ MODULE LogStore ------------------------------
(***************************************************************************)
(* What the log table promises: the logs of a worker, numbered in the      *)
(* order in which the scheduler hands them over, are stored in that order  *)
(* and none of them twice; logs may be missing.                            *)
(***************************************************************************)
EXTENDS Naturals, Sequences

VARIABLES offered, \* how many logs were handed over
          store    \* the table, in the order of insertion

vars == <<offered, store>>

Init == offered = 0 /\ store = <<>>

Offer == offered' = offered + 1 /\ UNCHANGED store

\* logs are logs handed over later than every stored one, in order.
Insert(logs) == /\ \A i \in 1..Len(logs) :
                      /\ logs[i] <= offered
                      /\ \A k \in 1..Len(store) : store[k] < logs[i]
                      /\ \A k \in 1..Len(logs) : k < i => logs[k] < logs[i]
                /\ store' = store \o logs
                /\ UNCHANGED offered

Next == \/ Offer
        \/ Insert(SubSeq(store', Len(store) + 1, Len(store')))

Spec == Init /\ [][Next]_vars
=============================================================================
