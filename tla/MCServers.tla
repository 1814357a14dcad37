------------------------------ MODULE MCServers ------------------------------
(* Servers on small instances. *)
EXTENDS Servers, TLC

CONSTANTS s1, s2, r1, r2, k1, k2, p1, p2

Symmetric == Permutations(Refs) \cup Permutations(Keys) \cup Permutations(Procs)
=============================================================================
