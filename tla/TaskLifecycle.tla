--------------------------- MODULE TaskLifecycle ---------------------------
(***************************************************************************)
(* What the work queue promises about a task (wq/core/mgmt.py): it is      *)
(* pending from the moment it is enqueued, then succeeded or failed, and   *)
(* an outcome is final until the task is deleted or its time to live ends. *)
(***************************************************************************)
CONSTANT Tasks

VARIABLE status     \* TaskStatus of each task; "none": not on the queue

Outcomes == {"succeeded", "failed"}
TaskStatus == {"none", "pending", "gone"} \cup Outcomes

LifecycleTypeOK == status \in [Tasks -> TaskStatus]

LifecycleInit == status = [t \in Tasks |-> "none"]

Move(t, from, to) ==
    /\ status[t] \in from
    /\ status' = [status EXCEPT ![t] = to]

LifecycleNext ==
    \E t \in Tasks :
        \/ Move(t, {"none"}, "pending")                        \* enqueue
        \/ \E outcome \in Outcomes : Move(t, {"pending"}, outcome)
        \/ Move(t, Outcomes \cup {"pending"}, "gone")          \* TTL, delete

LifecycleSpec == LifecycleInit /\ [][LifecycleNext]_status
=============================================================================
