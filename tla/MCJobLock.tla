----------------------------- MODULE MCJobLock -----------------------------
(* Instances of JobLock for TLC. *)
EXTENDS JobLock, TLC

\* The workers that TLC may exchange: those with the same failures.
Symmetry == Permutations(Worker \ (Unstable \cup Crashable))
=============================================================================
