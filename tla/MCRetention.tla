---- MODULE MCRetention ----
(* An instance of Retention: the clocks go back at 3, whose files are named 2. *)
EXTENDS Retention

ClocksGoBack == [t \in Time |-> IF t = 3 THEN 2 ELSE t]
====
