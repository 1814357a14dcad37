------------------------------- MODULE MCIpc -------------------------------
(* The channel of a session holds two events, so that it overflows. *)
EXTENDS Ipc
=============================================================================
