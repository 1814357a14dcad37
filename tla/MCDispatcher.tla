---- MODULE MCDispatcher ----
(* Instances of Dispatcher: two jobs on one server or on two. *)
EXTENDS Dispatcher, TLC

CONSTANTS a, b, s, t

OneServer == (a :> s @@ b :> s)
TwoServers == (a :> s @@ b :> t)
Schedules == (a :> {1, 2} @@ b :> {2})
Policies == (a :> "RUN_AS_SOON_AS_POSSIBLE" @@ b :> "SKIP")
NoSkipping == [j \in Jobs |-> "RUN_AS_SOON_AS_POSSIBLE"]
WorkerSymmetry == Permutations(Workers)
====
