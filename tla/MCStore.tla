------------------------------ MODULE MCStore ------------------------------
(* One job, two sessions on one connection and two migrations, as embedded. *)
EXTENDS Store
=============================================================================
