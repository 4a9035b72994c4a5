---------------------------- MODULE MCScheduler ----------------------------
(* Instances of Scheduler for TLC. *)
EXTENDS Scheduler, TLC

\* Expressions with a match after the last instant of the clock: every second,
\* and every other second.
Recurring == {1..(MaxTime + 1), {m \in 1..(MaxTime + 2) : m % 2 = 0}}

\* An expression that stops matching, such as one that names a past year.
Expiring == {{2}}

Symmetry == Permutations(Job)
=============================================================================
