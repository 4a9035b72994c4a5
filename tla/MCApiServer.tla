---------------------------- MODULE MCApiServer ----------------------------
(* An instance of ApiServer for TLC. *)
EXTENDS ApiServer

CONSTANTS j1, l1, l2, l3

\* Every route; of the logs: all of them, the first page, the rest, and pages
\* that there cannot be.
Params == {-1, 1, NaN}
Requests == {a \in Ask : a.type = "log" => NaN \in {a.skip, a.limit}}

\* Three logs of one job: the second one does not decode.
Owners == [l \in Log |-> j1]
Starts == [l \in Log |-> IF l = l1 THEN 1 ELSE IF l = l2 THEN 2 ELSE 3]
Decodable == [l \in Log |-> l # l2]
=============================================================================
