---------------------------- MODULE MCWorkerNode ----------------------------
(* An instance of WorkerNode for TLC. *)
EXTENDS WorkerNode

\* Every second, or nothing that parses.
EverySecond == {1..(MaxTime + 1), BadExpr}

\* Of the two executions that there is time for, the first forks.
FirstForks == Job \X {2}
=============================================================================
