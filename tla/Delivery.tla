------------------------------ MODULE Delivery ------------------------------
(***************************************************************************)
(* What QuantumLeap promises about a notification: it may be refused, and  *)
(* then nothing of it is stored; once it is accepted what was stored stays *)
(* stored, it is reported as done only when each entity that was due has   *)
(* been stored, and it may be given up half way.                           *)
(***************************************************************************)
CONSTANTS Tasks, Entities

VARIABLES
    state,      \* of each notification
    due,        \* entities to store
    delivered   \* entities stored, in full or as raw JSON

States == {"new", "pending", "refused", "done", "lost"}

deliveryVars == <<state, due, delivered>>

DeliveryInit ==
    /\ state = [t \in Tasks |-> "new"]
    /\ due = [t \in Tasks |-> {}]
    /\ delivered = [t \in Tasks |-> {}]

Move(t, from, to) == state[t] \in from /\ state' = [state EXCEPT ![t] = to]

Grow(t) ==
    \E E \in SUBSET due[t] :
        delivered' = [delivered EXCEPT ![t] = @ \cup E]

Accept(t) ==
    /\ Move(t, {"new"}, "pending")
    /\ \E E \in SUBSET Entities : due' = [due EXCEPT ![t] = E]
    /\ UNCHANGED delivered

Refuse(t) ==
    /\ Move(t, {"new", "pending"}, "refused")
    /\ delivered[t] = {}
    /\ UNCHANGED <<due, delivered>>

Store(t) == Move(t, {"pending"}, "pending") /\ Grow(t) /\ UNCHANGED due

Complete(t) ==
    /\ Move(t, {"pending"}, "done")
    /\ Grow(t) /\ delivered'[t] = due[t]
    /\ UNCHANGED due

GiveUp(t) == Move(t, {"pending"}, "lost") /\ Grow(t) /\ UNCHANGED due

DeliveryNext ==
    \E t \in Tasks :
        Accept(t) \/ Refuse(t) \/ Store(t) \/ Complete(t) \/ GiveUp(t)

DeliverySpec == DeliveryInit /\ [][DeliveryNext]_deliveryVars
=============================================================================
