---------------------------- MODULE MCOrderPayments ----------------------------
(* Model checking of OrderPayments on small instances.                        *)
EXTENDS OrderPayments, TLC

(* Requests are interchangeable; used by the runs that check safety only.     *)
Symmetry == Permutations(Request)

(* Two requests meet on one order, and who has ordered fills no new cart,     *)
(* or one request at a time works on orders that may share a payment.  That   *)
(* PayPal's events are believed and payments fail is seen with one order.     *)
Touched == {o \in Order : OrderExists(o) \/ \E r \in Request : job[r].order = o}

Meeting ==
    /\ Touched \subseteq {CHOOSE o \in Order : TRUE}
    /\ (\E o \in Order : OrderExists(o)) => \A c \in Cart : ~ carts[c]

Sharing ==
    /\ \A r, q \in Request : "idle" \in {pc[r], pc[q]} \/ r = q
    /\ claimed = {}
    /\ \A i \in Intent : ~ intents[i].declined

Scene == Meeting \/ Sharing
================================================================================
