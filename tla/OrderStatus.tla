------------------------------ MODULE OrderStatus ------------------------------
(******************************************************************************)
(* The order life cycle as plain data: the statuses of the database enum, the *)
(* statuses of the REST schema, the conversions between the two and the       *)
(* transition table of OrderStateMachine.  There is no state here; the        *)
(* modules that change orders extend this one.                                *)
(******************************************************************************)

(* What the column Order.status can hold.                                     *)
OrderStatusEnum ==
    {"PENDING", "CONFIRMED", "PREPARING", "READY", "SERVED",
     "OUT_FOR_DELIVERY", "DELIVERED", "CANCELLED", "REFUNDED"}

(* The statuses a REST client can name.                                       *)
SchemaStatus ==
    {"pending", "confirmed", "preparing", "ready", "served", "cancelled",
     "refunded"}

(* A status of the schema always names one of the enum.                       *)
SchemaStatusToEnum ==
    [pending |-> "PENDING", confirmed |-> "CONFIRMED",
     preparing |-> "PREPARING", ready |-> "READY", served |-> "SERVED",
     cancelled |-> "CANCELLED", refunded |-> "REFUNDED"]

(* VALID_TRANSITIONS.get(current, []): the delivery statuses have no entry.   *)
ValidTransitions(current) ==
    CASE current = "PENDING"   -> {"CONFIRMED", "CANCELLED"}
      [] current = "CONFIRMED" -> {"PREPARING", "CANCELLED"}
      [] current = "PREPARING" -> {"READY", "CANCELLED"}
      [] current = "READY"     -> {"SERVED", "CANCELLED"}
      [] current = "CANCELLED" -> {"REFUNDED"}
      [] OTHER                 -> {}

CanTransition(current, new) == new \in ValidTransitions(current)

(* What PaymentTransaction.status and Order.payment_status can hold.          *)
PaymentStatus == {"pending", "processing", "completed", "failed", "refunded"}

PaymentMethod == {"stripe", "paypal", "cod", "wallet"}
================================================================================
