----------------------------- MODULE MCService -----------------------------
(* Instances of Service for TLC. *)
EXTENDS Service, TLC

\* Run ids are interchangeable: what distinguishes two runs (job, trigger) is
\* chosen freely in Init.
RunSymmetry == Permutations(Runs)
=============================================================================
