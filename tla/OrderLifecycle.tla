---------------------------- MODULE OrderLifecycle -----------------------------
(******************************************************************************)
(* What the order engine promises about the status of an order when requests  *)
(* overlap.  It is weaker than "every change is a transition of the table":   *)
(* a request may act on a status that was replaced since it was read.  What   *)
(* remains is that an order is placed once, that it is never pending again,   *)
(* that every status it takes is ONE step of the table away from a status it  *)
(* really had, and that it is refunded without having been cancelled only if  *)
(* the payment provider gave money back.                                      *)
(******************************************************************************)
EXTENDS OrderStatus

CONSTANT Order

VARIABLES
    status,         \* the status every reader of the database sees
    been,           \* the statuses each order has had
    repaid          \* the orders the payment provider gave money back for

vars == <<status, been, repaid>>

Init ==
    /\ status = [o \in Order |-> "absent"]
    /\ been = [o \in Order |-> {}]
    /\ repaid = {}

Placed(o) ==
    /\ status[o] = "absent"
    /\ status'[o] = "PENDING"

Moved(o) ==
    /\ status[o] # "absent"
    /\ \E past \in been[o] : CanTransition(past, status'[o])

Refunded(o) ==
    /\ status[o] # "absent"
    /\ o \in repaid
    /\ status'[o] = "REFUNDED"

(* A commit may change several orders, each in its own way.                   *)
Next ==
    /\ \A o \in Order :
        \/ status'[o] = status[o]
        \/ Placed(o)
        \/ Moved(o)
        \/ Refunded(o)
    /\ been' = [o \in Order |-> been[o] \cup ({status'[o]} \ {"absent"})]
    /\ repaid \subseteq repaid'

Spec == Init /\ [][Next]_vars
================================================================================
