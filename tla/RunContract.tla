----------------------------- MODULE RunContract -----------------------------
(***************************************************************************)
(* What one run promises to the rest of the service (the scheduler, the    *)
(* IPC handlers, the history and the user's archives), without its stages: *)
(* module RunEngine implements this specification.                         *)
(*                                                                         *)
(* A run may be refused, skipped, or begun; only a run that has begun and  *)
(* has put a verified archive in place may prune old archives or end as a  *)
(* success; a run that has pruned does not end FAILED or CANCELLED; its    *)
(* end is announced once, before the job lock is given back.  The history  *)
(* and the lock are in a database: a write to them may be lost.            *)
(***************************************************************************)

VARIABLES
    state,      \* "new", "active", "over"
    lock,       \* "free", "mine", "other"
    history,    \* status in the run history, "NONE" without a row
    archive,    \* a verified archive has its final name
    pruned,     \* retention has been applied
    announced   \* status of the RunFinished event, "NONE" before it

vars == <<state, lock, history, archive, pruned, announced>>

Final == {"SUCCESS", "WARNING", "FAILED", "CANCELLED"}

Init ==
    /\ state = "new" /\ lock \in {"free", "other"}
    /\ history = "NONE" /\ announced = "NONE"
    /\ archive = FALSE /\ pruned = FALSE

\* The lock is held by another run, or the attempt to take it failed.
Refuse ==
    /\ state = "new" /\ state' = "over"
    /\ history' = "NONE" \/ (lock = "other" /\ history' = "SKIPPED")
    /\ UNCHANGED <<lock, archive, pruned, announced>>

Begin ==
    /\ state = "new" /\ lock = "free"
    /\ state' = "active" /\ lock' = "mine"
    /\ UNCHANGED <<history, archive, pruned, announced>>

Record ==
    /\ state = "active" /\ history = "NONE" /\ announced = "NONE"
    /\ history' = "RUNNING"
    /\ UNCHANGED <<state, lock, archive, pruned, announced>>

\* The archive is verified and renamed.
Archive ==
    /\ state = "active" /\ history = "RUNNING" /\ announced = "NONE"
    /\ archive' = TRUE
    /\ UNCHANGED <<state, lock, history, pruned, announced>>

Prune ==
    /\ state = "active" /\ archive /\ announced = "NONE"
    /\ pruned' = TRUE
    /\ UNCHANGED <<state, lock, history, archive, announced>>

Announce(status) ==
    /\ state = "active" /\ history = "RUNNING" /\ announced = "NONE"
    /\ status \in {"SUCCESS", "WARNING"} => archive
    /\ status \in {"FAILED", "CANCELLED"} => ~pruned
    /\ announced' = status
    /\ history' \in {status, history}
    /\ UNCHANGED <<state, lock, archive, pruned>>

\* After the announcement, or because the row could not be created.
Release ==
    /\ state = "active" /\ (announced # "NONE" \/ history = "NONE")
    /\ state' = "over" /\ lock' \in {"free", lock}
    /\ UNCHANGED <<history, archive, pruned, announced>>

Next ==
    \/ Refuse \/ Begin \/ Record \/ Archive \/ Prune \/ Release
    \/ \E status \in Final : Announce(status)

Spec == Init /\ [][Next]_vars
=============================================================================
