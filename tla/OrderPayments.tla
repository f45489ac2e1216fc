----------------------------- MODULE OrderPayments -----------------------------
(******************************************************************************)
(* Orders, their payment transactions and the REST handlers that change them, *)
(* at the granularity the deployment has: several API processes, one database *)
(* session per request, other requests running at every await.                *)
(*                                                                            *)
(* The database is PostgreSQL at READ COMMITTED behind SQLAlchemy sessions.   *)
(* A request reads committed rows into its identity map, changes the Python   *)
(* objects and, when it flushes, sends an UPDATE BY PRIMARY KEY OF THE        *)
(* COLUMNS WHOSE VALUE DIFFERS FROM THE ONE IT READ.  The UPDATE holds the    *)
(* row's lock until get_db commits.  No SELECT here takes a lock and no       *)
(* UPDATE compares a version, so a request may write what it decided on a     *)
(* row that has changed since.                                                *)
(******************************************************************************)
EXTENDS OrderStatus, Naturals, Sequences

CONSTANTS
    Order,          \* order ids; the order's transaction goes by the same id
    Request,        \* requests in flight at the same time
    Intent,         \* payment intents (Stripe) and orders (PayPal) of the provider
    Cart,           \* session tokens that hold a cart
    Methods,        \* the payment methods customers choose
    StaffTargets,   \* the statuses staff ask for
    MaxBatch,       \* the longest list of a bulk update
    Total,          \* the price of an order, in the unit refunds are counted in
    None            \* no value: a null column, a free lock

ASSUME OrderPaymentsAssumption ==
    /\ Methods \subseteq PaymentMethod
    /\ StaffTargets \subseteq SchemaStatus
    /\ MaxBatch \in Nat
    /\ Total \in Nat \ {0}
    /\ None \notin Order \cup Request \cup Intent \cup Cart

VARIABLES
    orders,         \* committed rows of table orders
    txs,            \* committed rows of table payment_transactions
    seen,           \* history: the statuses each order has been committed with
    orderLock,      \* the request that holds an order's row lock
    txLock,         \* the request that holds a transaction's row lock
    pc,             \* where a request is
    job,            \* what a request was asked and has worked out
    loaded,         \* identity map: the order columns as the request read them
    object,         \* identity map: the order columns as the request set them
    loadedTx,       \* the same two for the transaction
    txObject,
    carts,          \* Redis: does the session token have a cart with items
    intents,        \* the payment provider
    claimed         \* history: the orders a PayPal event has spoken of

db == <<orders, txs, seen>>
locks == <<orderLock, txLock>>
orderMap == <<loaded, object>>
txMap == <<loadedTx, txObject>>
vars == <<db, locks, pc, job, orderMap, txMap, carts, intents, claimed>>

--------------------------------------------------------------------------------
(* Rows and records                                                           *)

(* The columns of orders the handlers below read or write.  The id of an      *)
(* order that does not exist maps to NoOrder.                                 *)
NoOrder == [status |-> "absent", payment_status |-> "absent",
            payment_method |-> "absent"]

OrderRow == [status : OrderStatusEnum \cup {"absent"},
             payment_status : PaymentStatus \cup {"absent"},
             payment_method : PaymentMethod \cup {"absent"}]

(* The columns of payment_transactions.  refunded is refunded_amount.         *)
NoTx == [status |-> "absent", method |-> "absent", provider_ref |-> None,
         refunded |-> 0]

TxRow == [status : PaymentStatus \cup {"absent"},
          method : PaymentMethod \cup {"absent"},
          provider_ref : Intent \cup {None},
          refunded : 0..Total]

(* What the provider keeps of one intent.  Nothing in the program ties it to  *)
(* the order it was made for: its metadata is written and never read.         *)
(* given: how much of what was refunded was asked for on which order.         *)
NoIntent == [method |-> "absent", status |-> "unused", declined |-> FALSE,
             refunded |-> 0, given |-> [o \in Order |-> 0]]

IntentRow == [method : PaymentMethod \cup {"absent"},
              status : {"unused", "open", "approved", "succeeded"},
              declined : BOOLEAN, refunded : 0..Total,
              given : [Order -> Nat]]

(* Arguments and locals of a request.  touch: the pending UPDATE of the       *)
(* transaction also changes a column the model leaves out (failure_reason,    *)
(* provider_response), so it is sent even if the columns above stay the same. *)
NoJob == [order |-> None, todo |-> <<>>, to |-> "absent", intent |-> None,
          amount |-> 0, cart |-> None, touch |-> FALSE]

Job == [order : Order \cup {None}, todo : Seq(Order),
        to : OrderStatusEnum \cup {"absent"}, intent : Intent \cup {None},
        amount : 0..Total, cart : Cart \cup {None}, touch : BOOLEAN]

Points == {"idle", "intent", "clear_cart", "next_order", "flush_one",
           "confirm_call", "confirm_order", "stripe_order", "paypal_order",
           "refund_tx", "refund_call", "flush_order", "flush"}

TypeOK ==
    /\ orders \in [Order -> OrderRow]
    /\ txs \in [Order -> TxRow]
    /\ seen \in [Order -> SUBSET OrderStatusEnum]
    /\ orderLock \in [Order -> Request \cup {None}]
    /\ txLock \in [Order -> Request \cup {None}]
    /\ pc \in [Request -> Points]
    /\ job \in [Request -> Job]
    /\ loaded \in [Request -> [Order -> OrderRow]]
    /\ object \in [Request -> [Order -> OrderRow]]
    /\ loadedTx \in [Request -> [Order -> TxRow]]
    /\ txObject \in [Request -> [Order -> TxRow]]
    /\ carts \in [Cart -> BOOLEAN]
    /\ intents \in [Intent -> IntentRow]
    /\ claimed \subseteq Order

Init ==
    /\ orders = [o \in Order |-> NoOrder]
    /\ txs = [o \in Order |-> NoTx]
    /\ seen = [o \in Order |-> {}]
    /\ orderLock = [o \in Order |-> None]
    /\ txLock = [o \in Order |-> None]
    /\ pc = [r \in Request |-> "idle"]
    /\ job = [r \in Request |-> NoJob]
    /\ loaded = [r \in Request |-> [o \in Order |-> NoOrder]]
    /\ object = [r \in Request |-> [o \in Order |-> NoOrder]]
    /\ loadedTx = [r \in Request |-> [o \in Order |-> NoTx]]
    /\ txObject = [r \in Request |-> [o \in Order |-> NoTx]]
    /\ carts = [c \in Cart |-> FALSE]
    /\ intents = [i \in Intent |-> NoIntent]
    /\ claimed = {}

--------------------------------------------------------------------------------
(* The database session of a request                                          *)

(* A column after a flush: written only if the request changed it.            *)
Column(row, was, now) == IF now = was THEN row ELSE now

(* Mutant of MergeOrder: every column of a changed object is sent.            *)
MergeWholeOrder(row, was, now) == IF now = was THEN row ELSE now

MergeOrder(row, was, now) ==
    [status |-> Column(row.status, was.status, now.status),
     payment_status |->
        Column(row.payment_status, was.payment_status, now.payment_status),
     payment_method |->
        Column(row.payment_method, was.payment_method, now.payment_method)]

(* Mutant of MergeTx: every column of a changed object is sent.               *)
MergeWholeTx(row, was, now) == IF now = was THEN row ELSE now

MergeTx(row, was, now) ==
    [status |-> Column(row.status, was.status, now.status),
     method |-> Column(row.method, was.method, now.method),
     provider_ref |->
        Column(row.provider_ref, was.provider_ref, now.provider_ref),
     refunded |-> Column(row.refunded, was.refunded, now.refunded)]

DirtyOrders(r) == {o \in Order : object[r][o] # loaded[r][o]}

DirtyTxs(r) ==
    {o \in Order : \/ txObject[r][o] # loadedTx[r][o]
                   \/ job[r].touch /\ o = job[r].order}

(* The rows the next step of the request sends an UPDATE for.  A flush writes *)
(* orders before payment_transactions; a SELECT made while a transaction      *)
(* object is dirty flushes that object first (autoflush).                     *)
OrdersToLock(r) ==
    CASE pc[r] = "flush_one" -> {Head(job[r].todo)}
      [] pc[r] \in {"flush_order", "flush"} -> DirtyOrders(r)
      [] OTHER -> {}

TxsToLock(r) ==
    IF pc[r] \in {"confirm_order", "stripe_order", "paypal_order", "flush"}
    THEN DirtyTxs(r)
    ELSE {}

LocksFree(r) ==
    /\ \A o \in OrdersToLock(r) : orderLock[o] \in {None, r}
    /\ \A o \in TxsToLock(r) : txLock[o] \in {None, r}

TakeLocks(r) ==
    /\ LocksFree(r)
    /\ orderLock' =
        [o \in Order |-> IF o \in OrdersToLock(r) THEN r ELSE orderLock[o]]
    /\ txLock' = [o \in Order |-> IF o \in TxsToLock(r) THEN r ELSE txLock[o]]

Begin(r, point, j) ==
    /\ pc[r] = "idle"
    /\ pc' = [pc EXCEPT ![r] = point]
    /\ job' = [job EXCEPT ![r] = j]

Goto(r, point) == pc' = [pc EXCEPT ![r] = point]

OrderExists(o) == orders[o].status # "absent"

TxExists(o) == txs[o].status # "absent"

(* Assignments to the attributes of an object.                                *)
SetOrder(r, o, now) == object' = [object EXCEPT ![r][o] = now]

SetTx(r, o, now) == txObject' = [txObject EXCEPT ![r][o] = now]

(* The first read of an order or transaction, and the object as it then is.   *)
ReadOrder(r, o, now) ==
    /\ loaded' = [loaded EXCEPT ![r][o] = orders[o]]
    /\ SetOrder(r, o, now)

ReadTx(r, o, now) ==
    /\ loadedTx' = [loadedTx EXCEPT ![r][o] = txs[o]]
    /\ SetTx(r, o, now)

(* Mutant of EndRequest: the session is not closed, its locks stay.           *)
LeaveSessionOpen(r) ==
    /\ pc' = [pc EXCEPT ![r] = "idle"]
    /\ job' = [job EXCEPT ![r] = NoJob]
    /\ loaded' = [loaded EXCEPT ![r] = [o \in Order |-> NoOrder]]
    /\ object' = [object EXCEPT ![r] = [o \in Order |-> NoOrder]]
    /\ loadedTx' = [loadedTx EXCEPT ![r] = [o \in Order |-> NoTx]]
    /\ txObject' = [txObject EXCEPT ![r] = [o \in Order |-> NoTx]]
    /\ UNCHANGED locks

(* The session is closed: locks released, identity map gone.                  *)
EndRequest(r) ==
    /\ pc' = [pc EXCEPT ![r] = "idle"]
    /\ job' = [job EXCEPT ![r] = NoJob]
    /\ loaded' = [loaded EXCEPT ![r] = [o \in Order |-> NoOrder]]
    /\ object' = [object EXCEPT ![r] = [o \in Order |-> NoOrder]]
    /\ loadedTx' = [loadedTx EXCEPT ![r] = [o \in Order |-> NoTx]]
    /\ txObject' = [txObject EXCEPT ![r] = [o \in Order |-> NoTx]]
    /\ orderLock' =
        [o \in Order |-> IF orderLock[o] = r THEN None ELSE orderLock[o]]
    /\ txLock' = [o \in Order |-> IF txLock[o] = r THEN None ELSE txLock[o]]

(* get_db after the handler returned: what is left to flush is flushed, all   *)
(* of the request's changes become visible at once.                           *)
Commit(r) ==
    /\ \/ pc[r] = "flush"
       \/ pc[r] = "next_order" /\ job[r].todo = <<>>
    /\ LocksFree(r)
    /\ orders' =
        [o \in Order |-> MergeOrder(orders[o], loaded[r][o], object[r][o])]
    /\ txs' = [o \in Order |-> MergeTx(txs[o], loadedTx[r][o], txObject[r][o])]
    /\ seen' = [o \in Order |-> seen[o] \cup ({orders'[o].status} \ {"absent"})]
    /\ EndRequest(r)
    /\ UNCHANGED <<carts, intents, claimed>>

(* get_db after an exception (a provider's answer that never came is one), or *)
(* the process or its connection is gone.                                     *)
Rollback(r) ==
    /\ pc[r] # "idle"
    /\ EndRequest(r)
    /\ UNCHANGED <<db, carts, intents, claimed>>

(* A request waits for the holder of a row it wants to update.                *)
WaitsFor(r, q) ==
    /\ q # r
    /\ \/ \E o \in OrdersToLock(r) : orderLock[o] = q
       \/ \E o \in TxsToLock(r) : txLock[o] = q

(* PostgreSQL breaks a cycle of waiting requests by failing one of them.      *)
DeadlockVictim(r) ==
    /\ \E C \in SUBSET Request :
        /\ r \in C
        /\ \A q \in C : /\ \E p \in C : WaitsFor(q, p)
                        /\ \E p \in C : WaitsFor(p, q)
    /\ EndRequest(r)
    /\ UNCHANGED <<db, carts, intents, claimed>>

--------------------------------------------------------------------------------
(* Customers, and the payment provider as src/ uses it                        *)

AddToCart(c) ==
    /\ ~ carts[c]
    /\ carts' = [carts EXCEPT ![c] = TRUE]
    /\ UNCHANGED <<db, locks, pc, job, orderMap, txMap, intents, claimed>>

(* The customer pays: Stripe charges at once, PayPal waits for a capture.     *)
CustomerPays(i) ==
    /\ intents[i].status = "open"
    /\ intents' = [intents EXCEPT ![i].status =
           IF intents[i].method = "paypal" THEN "approved" ELSE "succeeded"]
    /\ UNCHANGED <<db, locks, pc, job, orderMap, txMap, carts, claimed>>

(* A payment attempt is declined; the intent stays open for another try.      *)
CustomerDeclined(i) ==
    /\ intents[i].status = "open"
    /\ ~ intents[i].declined
    /\ intents' = [intents EXCEPT ![i].declined = TRUE]
    /\ UNCHANGED <<db, locks, pc, job, orderMap, txMap, carts, claimed>>

OpenIntent(i, m) ==
    /\ intents[i] = NoIntent
    /\ intents' = [intents EXCEPT
           ![i] = [NoIntent EXCEPT !.method = m, !.status = "open"]]

--------------------------------------------------------------------------------
(* POST /orders/checkout                                                      *)

(* A fresh uuid: in no row and in no open session.                            *)
FreshOrder(o) ==
    /\ ~ OrderExists(o)
    /\ \A r \in Request : object[r][o].status = "absent"

NewTx(m, status, ref) ==
    [status |-> status, method |-> m, provider_ref |-> ref, refunded |-> 0]

(* The cart is read, the order and its items are inserted and flushed; an     *)
(* empty or missing cart is a 400.  cod gets its transaction here too, wallet *)
(* never gets one.                                                            *)
Checkout(r, c, o, m) ==
    /\ carts[c]
    /\ FreshOrder(o)
    /\ Begin(r, IF m \in {"stripe", "paypal"} THEN "intent" ELSE "clear_cart",
             [NoJob EXCEPT !.order = o, !.cart = c])
    /\ SetOrder(r, o, [status |-> "PENDING", payment_status |-> "pending",
                       payment_method |-> m])
    /\ IF m = "cod" THEN SetTx(r, o, NewTx(m, "pending", None))
                    ELSE UNCHANGED txObject
    /\ UNCHANGED <<db, locks, loaded, loadedTx, carts, intents, claimed>>

(* PaymentService.create_payment_intent during a checkout.  Only PayPal's     *)
(* reference is kept.  A Stripe error is answered with status failed; PayPal  *)
(* refusing the order leaves a pending transaction without a reference; no    *)
(* answer is an exception (Rollback).                                         *)
CheckoutIntent(r) ==
    LET o == job[r].order
        m == object[r][o].payment_method
    IN
    /\ pc[r] = "intent"
    /\ m \in {"stripe", "paypal"}
    /\ \/ \E i \in Intent :
            /\ OpenIntent(i, m)
            /\ SetTx(r, o, NewTx(m, "pending", IF m = "paypal" THEN i ELSE None))
       \/ /\ SetTx(r, o, NewTx(m, IF m = "stripe" THEN "failed" ELSE "pending",
                               None))
          /\ UNCHANGED intents
    /\ Goto(r, "clear_cart")
    /\ UNCHANGED <<db, locks, job, orderMap, loadedTx, carts, claimed>>

(* CartService.clear_cart deletes the Redis key before the commit.            *)
ClearCart(r) ==
    /\ pc[r] = "clear_cart"
    /\ carts' = [carts EXCEPT ![job[r].cart] = FALSE]
    /\ Goto(r, "flush")
    /\ UNCHANGED <<db, locks, job, orderMap, txMap, intents, claimed>>

--------------------------------------------------------------------------------
(* The order endpoints for staff                                              *)

StartStatusUpdate(r, list, to) ==
    /\ Begin(r, "next_order", [NoJob EXCEPT !.todo = list, !.to = to])
    /\ UNCHANGED <<db, locks, orderMap, txMap, carts, intents, claimed>>

(* PUT /orders/merchant/{id}/status                                           *)
UpdateOrderStatus(r, o, status) ==
    /\ OrderExists(o)
    /\ StartStatusUpdate(r, <<o>>, SchemaStatusToEnum[status])

(* POST /orders/merchant/{id}/cancel                                          *)
CancelOrder(r, o) ==
    /\ OrderExists(o)
    /\ StartStatusUpdate(r, <<o>>, "CANCELLED")

(* POST /orders/merchant/bulk-status: one session for the whole list.         *)
BulkUpdateStatus(r, list, status) ==
    /\ \A n \in 1..Len(list) : OrderExists(list[n])
    /\ StartStatusUpdate(r, list, SchemaStatusToEnum[status])

(* Mutant of NextOrder: the state machine is not asked.                       *)
NextOrderUnchecked(r) ==
    /\ pc[r] = "next_order"
    /\ job[r].todo # <<>>
    /\ LET o == Head(job[r].todo) IN
        ReadOrder(r, o, [orders[o] EXCEPT !.status = job[r].to])
    /\ Goto(r, "flush_one")
    /\ UNCHANGED <<db, locks, job, txMap, carts, intents, claimed>>

(* OrderService.update_status up to its flush: read the order, ask the state  *)
(* machine.  A refusal (ValueError) leaves the single request with nothing to *)
(* write and the bulk request with its next order.                            *)
NextOrder(r) ==
    /\ pc[r] = "next_order"
    /\ job[r].todo # <<>>
    /\ LET o == Head(job[r].todo) IN
        IF CanTransition(orders[o].status, job[r].to)
        THEN /\ ReadOrder(r, o, [orders[o] EXCEPT !.status = job[r].to])
             /\ Goto(r, "flush_one")
             /\ UNCHANGED job
        ELSE /\ job' = [job EXCEPT ![r].todo = Tail(@)]
             /\ UNCHANGED <<pc, orderMap>>
    /\ UNCHANGED <<db, locks, txMap, carts, intents, claimed>>

(* Its flush: the row lock is kept until the request commits.                 *)
FlushOne(r) ==
    /\ pc[r] = "flush_one"
    /\ job[r].todo # <<>>
    /\ TakeLocks(r)
    /\ job' = [job EXCEPT ![r].todo = Tail(@)]
    /\ Goto(r, "next_order")
    /\ UNCHANGED <<db, orderMap, txMap, carts, intents, claimed>>

--------------------------------------------------------------------------------
(* The payment endpoints                                                      *)

(* POST /payments/intent saves nothing: the transaction id it hands out names *)
(* no row.  The method is the client's choice, not the order's.               *)
CreatePaymentIntent(o, i, m) ==
    /\ OrderExists(o)
    /\ OpenIntent(i, m)
    /\ UNCHANGED <<db, locks, pc, job, orderMap, txMap, carts, claimed>>

(* Mutant of ApplyPayment: the schema's status instead of the enum's.         *)
ApplySchemaStatus(row) ==
    [row EXCEPT !.payment_status = "completed",
                !.status = IF @ = "PENDING" THEN "confirmed" ELSE @]

(* What a payment does to its order.                                          *)
ApplyPayment(row) ==
    [row EXCEPT !.payment_status = "completed",
                !.status = IF @ = "PENDING" THEN "CONFIRMED" ELSE @]

(* POST /payments/confirm: the transaction is read, whatever its status.  The *)
(* client sends any reference; whose intent it is and over which amount is    *)
(* not looked at.  An intent not in use stands for a reference the provider   *)
(* does not know.                                                             *)
ConfirmPayment(r, o, ref) ==
    /\ TxExists(o)
    /\ IF txs[o].method = "cod"
       THEN /\ ref = None
            /\ Begin(r, "confirm_order", [NoJob EXCEPT !.order = o])
       ELSE /\ ref \in Intent
            /\ Begin(r, "confirm_call",
                     [NoJob EXCEPT !.order = o, !.intent = ref])
    /\ ReadTx(r, o, txs[o])
    /\ UNCHANGED <<db, locks, orderMap, carts, intents, claimed>>

(* provider_ref becomes the intent (for PayPal its capture, which the intent  *)
(* stands for: nothing below looks PayPal's reference up).                    *)
ConfirmSucceeded(r) ==
    LET o == job[r].order IN
    /\ SetTx(r, o, [txObject[r][o] EXCEPT !.status = "completed",
                                          !.provider_ref = job[r].intent])
    /\ UNCHANGED job

(* After an earlier failure the UPDATE is only sent for failure_reason, which *)
(* Stripe's failures set, and only if the reason differs.                     *)
ConfirmFailed(r) ==
    LET o == job[r].order IN
    /\ SetTx(r, o, [txObject[r][o] EXCEPT !.status = "failed"])
    /\ \E differs \in BOOLEAN :
        /\ differs => loadedTx[r][o].status = "failed"
        /\ differs => loadedTx[r][o].method = "stripe"
        /\ job' = [job EXCEPT ![r].touch = differs]

(* Mutant of ConfirmStripe: an intent that exists is taken for a paid one.    *)
ConfirmStripeUnread(r) ==
    /\ pc[r] = "confirm_call"
    /\ loadedTx[r][job[r].order].method = "stripe"
    /\ ConfirmSucceeded(r)
    /\ Goto(r, "confirm_order")
    /\ UNCHANGED <<db, locks, orderMap, loadedTx, carts, intents, claimed>>

(* confirm_stripe_payment: the intent is retrieved and believed when it says  *)
(* succeeded; any Stripe error reads as a failure.                            *)
ConfirmStripe(r) ==
    /\ pc[r] = "confirm_call"
    /\ loadedTx[r][job[r].order].method = "stripe"
    /\ \/ /\ intents[job[r].intent].method = "stripe"
          /\ intents[job[r].intent].status = "succeeded"
          /\ ConfirmSucceeded(r)
       \/ ConfirmFailed(r)
    /\ Goto(r, "confirm_order")
    /\ UNCHANGED <<db, locks, orderMap, loadedTx, carts, intents, claimed>>

(* capture_paypal_order: a capture moves the money; one that is asked for     *)
(* again, or before the customer approved, fails.                             *)
ConfirmPaypal(r) ==
    LET i == job[r].intent IN
    /\ pc[r] = "confirm_call"
    /\ loadedTx[r][job[r].order].method = "paypal"
    /\ \/ /\ intents[i].status = "approved"
          /\ intents' = [intents EXCEPT ![i].status = "succeeded"]
          /\ ConfirmSucceeded(r)
       \/ /\ ConfirmFailed(r)
          /\ UNCHANGED intents
    /\ Goto(r, "confirm_order")
    /\ UNCHANGED <<db, locks, orderMap, loadedTx, carts, claimed>>

(* Mutant of ConfirmOrder: the order is selected FOR UPDATE, and only then is *)
(* the transaction flushed.                                                   *)
ConfirmOrderForUpdate(r) ==
    LET o == job[r].order IN
    /\ pc[r] = "confirm_order"
    /\ orderLock[o] = None
    /\ orderLock' = [orderLock EXCEPT ![o] = r]
    /\ ReadOrder(r, o,
           IF txObject[r][o].status = "completed"
           THEN ApplyPayment(orders[o])
           ELSE [orders[o] EXCEPT !.payment_status = "failed"])
    /\ Goto(r, "flush")
    /\ UNCHANGED <<db, txLock, job, txMap, carts, intents, claimed>>

(* The order is selected after the transaction was autoflushed, and follows   *)
(* the transaction.                                                           *)
ConfirmOrder(r) ==
    LET o == job[r].order IN
    /\ pc[r] = "confirm_order"
    /\ TakeLocks(r)
    /\ ReadOrder(r, o,
           IF txObject[r][o].status = "completed"
           THEN ApplyPayment(orders[o])
           ELSE [orders[o] EXCEPT !.payment_status = "failed"])
    /\ Goto(r, "flush")
    /\ UNCHANGED <<db, job, txMap, carts, intents, claimed>>

(* POST /payments/cod/{id}/confirm: neither the order's status nor its        *)
(* transaction is looked at.                                                  *)
ConfirmCod(r, o) ==
    /\ OrderExists(o)
    /\ orders[o].payment_method = "cod"
    /\ Begin(r, "flush", [NoJob EXCEPT !.order = o])
    /\ ReadOrder(r, o, [orders[o] EXCEPT !.payment_status = "completed",
                                         !.status = "CONFIRMED"])
    /\ UNCHANGED <<db, locks, txMap, carts, intents, claimed>>

(* POST /payments/refund: first the order, then its completed transaction.    *)
ProcessRefund(r, o, amount) ==
    /\ OrderExists(o)
    /\ Begin(r, "refund_tx", [NoJob EXCEPT !.order = o, !.amount = amount])
    /\ ReadOrder(r, o, orders[o])
    /\ UNCHANGED <<db, locks, txMap, carts, intents, claimed>>

RefundReadTx(r) ==
    LET o == job[r].order IN
    /\ pc[r] = "refund_tx"
    /\ txs[o].status = "completed"
    /\ ReadTx(r, o, txs[o])
    /\ Goto(r, "refund_call")
    /\ UNCHANGED <<db, locks, job, orderMap, carts, intents, claimed>>

(* stripe.Refund.create: Stripe refunds what was charged on the reference,    *)
(* and at most that.                                                          *)
RefundStripe(r) ==
    LET o == job[r].order
        i == loadedTx[r][o].provider_ref
    IN
    /\ pc[r] = "refund_call"
    /\ loadedTx[r][o].method = "stripe"
    /\ i # None
    /\ intents[i].status = "succeeded"
    /\ intents[i].refunded + job[r].amount <= Total
    /\ intents' = [intents EXCEPT ![i].refunded = @ + job[r].amount,
                                  ![i].given[o] = @ + job[r].amount]
    /\ SetTx(r, o, [txObject[r][o] EXCEPT !.status = "refunded",
                                          !.refunded = job[r].amount])
    /\ SetOrder(r, o, [object[r][o] EXCEPT !.status = "REFUNDED"])
    /\ Goto(r, "flush_order")
    /\ UNCHANGED <<db, locks, job, loaded, loadedTx, carts, claimed>>

(* Mutant of RefundRefused: every answer of the provider counts as a refund.  *)
RefundUnread(r) ==
    LET o == job[r].order IN
    /\ pc[r] = "refund_call"
    /\ SetTx(r, o, [txObject[r][o] EXCEPT !.status = "refunded",
                                          !.refunded = job[r].amount])
    /\ SetOrder(r, o, [object[r][o] EXCEPT !.status = "REFUNDED"])
    /\ Goto(r, "flush_order")
    /\ UNCHANGED <<db, locks, job, loaded, loadedTx, carts, intents, claimed>>

(* No completed payment, a Stripe error, or a method whose refund does not    *)
(* answer "success" (paypal: pending, cod: completed): a 400.                 *)
RefundRefused(r) ==
    /\ pc[r] \in {"refund_tx", "refund_call"}
    /\ pc[r] = "refund_tx" => txs[job[r].order].status # "completed"
    /\ EndRequest(r)
    /\ UNCHANGED <<db, carts, intents, claimed>>

(* One flush sends two UPDATEs: orders, then payment_transactions (in Commit).*)
RefundFlushOrder(r) ==
    /\ pc[r] = "flush_order"
    /\ TakeLocks(r)
    /\ Goto(r, "flush")
    /\ UNCHANGED <<db, job, orderMap, txMap, carts, intents, claimed>>

--------------------------------------------------------------------------------
(* Provider events.  They may come late, more than once and in any order.     *)

OnlyReference(o) ==
    \A p \in Order : txs[p].provider_ref = txs[o].provider_ref => p = o

(* payment_intent.succeeded finds the transaction by its stored reference, or *)
(* finds none and changes nothing.  The event is stored too: on a transaction *)
(* that is completed already the UPDATE is only sent if the event differs     *)
(* from the one stored before, which a redelivered one does not.  Where two   *)
(* transactions have the reference scalar_one_or_none raises: no change.      *)
StripeSucceeded(r, i, o) ==
    /\ intents[i].method = "stripe"
    /\ intents[i].status = "succeeded"
    /\ txs[o].provider_ref = i
    /\ OnlyReference(o)
    /\ \E differs \in BOOLEAN :
        /\ differs => txs[o].status = "completed"
        /\ Begin(r, "stripe_order", [NoJob EXCEPT !.order = o, !.touch = differs])
    /\ ReadTx(r, o, [txs[o] EXCEPT !.status = "completed"])
    /\ UNCHANGED <<db, locks, orderMap, carts, intents, claimed>>

StripeOrder(r) ==
    LET o == job[r].order IN
    /\ pc[r] = "stripe_order"
    /\ TakeLocks(r)
    /\ ReadOrder(r, o, ApplyPayment(orders[o]))
    /\ Goto(r, "flush")
    /\ UNCHANGED <<db, job, txMap, carts, intents, claimed>>

(* payment_intent.payment_failed leaves the order alone; like ConfirmFailed   *)
(* after an earlier failure.                                                  *)
StripeFailed(r, i, o) ==
    /\ intents[i].method = "stripe"
    /\ intents[i].declined
    /\ txs[o].provider_ref = i
    /\ OnlyReference(o)
    /\ \E differs \in BOOLEAN :
        /\ differs => txs[o].status = "failed"
        /\ Begin(r, "flush", [NoJob EXCEPT !.order = o, !.touch = differs])
    /\ ReadTx(r, o, [txs[o] EXCEPT !.status = "failed"])
    /\ UNCHANGED <<db, locks, orderMap, carts, intents, claimed>>

(* POST /payments/webhook/paypal: a body that names CHECKOUT.ORDER.APPROVED   *)
(* or PAYMENT.CAPTURE.COMPLETED, and as custom_id the id of a transaction.    *)
(* The body is believed: neither its sender nor the provider nor how the      *)
(* order is paid is looked at.                                                *)
PaypalEvent(r, o) ==
    /\ TxExists(o)
    /\ Begin(r, "paypal_order", [NoJob EXCEPT !.order = o])
    /\ ReadTx(r, o, [txs[o] EXCEPT !.status = "completed"])
    /\ claimed' = claimed \cup {o}
    /\ UNCHANGED <<db, locks, orderMap, carts, intents>>

PaypalOrder(r) ==
    LET o == job[r].order IN
    /\ pc[r] = "paypal_order"
    /\ TakeLocks(r)
    /\ ReadOrder(r, o, ApplyPayment(orders[o]))
    /\ Goto(r, "flush")
    /\ UNCHANGED <<db, job, txMap, carts, intents, claimed>>

--------------------------------------------------------------------------------
Batches == {list \in UNION {[1..n -> Order] : n \in 2..MaxBatch} :
                \A m, n \in DOMAIN list : list[m] = list[n] => m = n}

Outside ==
    \/ \E c \in Cart : AddToCart(c)
    \/ \E i \in Intent : CustomerPays(i)
    \/ \E i \in Intent : CustomerDeclined(i)
    \/ \E o \in Order, i \in Intent, m \in Methods \cap {"stripe", "paypal"} :
          CreatePaymentIntent(o, i, m)

(* A request arrives.                                                         *)
Arrive(r) ==
    \/ \E c \in Cart, o \in Order, m \in Methods : Checkout(r, c, o, m)
    \/ \E o \in Order, s \in StaffTargets : UpdateOrderStatus(r, o, s)
    \/ \E o \in Order : CancelOrder(r, o)
    \/ \E list \in Batches, s \in StaffTargets : BulkUpdateStatus(r, list, s)
    \/ \E o \in Order, ref \in Intent \cup {None} : ConfirmPayment(r, o, ref)
    \/ \E o \in Order : ConfirmCod(r, o)
    \/ \E o \in Order, amount \in 1..Total : ProcessRefund(r, o, amount)
    \/ \E i \in Intent, o \in Order : StripeSucceeded(r, i, o)
    \/ \E i \in Intent, o \in Order : StripeFailed(r, i, o)
    \/ \E o \in Order : PaypalEvent(r, o)

(* A request goes on.                                                         *)
Continue(r) ==
    \/ CheckoutIntent(r)
    \/ ClearCart(r)
    \/ NextOrder(r)
    \/ FlushOne(r)
    \/ ConfirmStripe(r)
    \/ ConfirmPaypal(r)
    \/ ConfirmOrder(r)
    \/ RefundReadTx(r)
    \/ RefundStripe(r)
    \/ RefundRefused(r)
    \/ RefundFlushOrder(r)
    \/ StripeOrder(r)
    \/ PaypalOrder(r)
    \/ Commit(r)
    \/ DeadlockVictim(r)

Next ==
    \/ Outside
    \/ \E r \in Request : Arrive(r) \/ Continue(r) \/ Rollback(r)

Spec == Init /\ [][Next]_vars

(* A waiting UPDATE is served when its row is free, in the order of arrival,  *)
(* and a request that does not wait goes on: PostgreSQL queues the waiters of *)
(* a row, the event loop runs every ready coroutine.  Arrivals, the customers *)
(* and failures are not fair.                                                 *)
LiveSpec == Spec /\ \A r \in Request : SF_vars(Continue(r))

--------------------------------------------------------------------------------
(* Properties                                                                 *)

GivenBack(o, amount) == \E i \in Intent : amount <= intents[i].given[o]

Repaid == {o \in Order : \E i \in Intent : intents[i].given[o] > 0}

Lifecycle == INSTANCE OrderLifecycle WITH
    status <- [o \in Order |-> orders[o].status],
    been <- seen,
    repaid <- Repaid

(* Whatever requests overlap, fail or are rolled back, committed orders       *)
(* behave as OrderLifecycle says: placed once, never pending again, every     *)
(* status one transition away from one the order really had, refunded only    *)
(* after a cancellation or after the provider gave money back.                *)
ImplementsLifecycle == Lifecycle!Spec

(* The kitchen never works on an order that skipped a stage: an order that    *)
(* was committed as served was committed as ready before, as preparing before *)
(* that and as confirmed before that; and it was pending first.  Every stage  *)
(* is written by another request, from a status that may be stale.            *)
NoStageSkipped ==
    \A o \in Order :
        /\ "SERVED" \in seen[o] => "READY" \in seen[o]
        /\ "READY" \in seen[o] => "PREPARING" \in seen[o]
        /\ "PREPARING" \in seen[o] => "CONFIRMED" \in seen[o]
        /\ seen[o] # {} => "PENDING" \in seen[o]

ChargedOn(ref) == ref \in Intent /\ intents[ref].status = "succeeded"

Charged(o) == ChargedOn(txs[o].provider_ref)

(* No payment is booked that nobody charged, unless somebody posted a PayPal  *)
(* event for it.  A transaction that reads completed, and an order paid       *)
(* online that reads completed, has a reference the provider charged (which   *)
(* need not be an intent of this order: the program does not compare), or a   *)
(* PayPal event has named it.  The reference of a Stripe transaction, by      *)
(* which Stripe's events and refunds find the payment, always was charged,    *)
(* and then its order has left PENDING: an event repeats a confirmation and   *)
(* never stands in for one.  Confirmations, webhooks and refunds write these  *)
(* columns independently of each other, from reads made before the provider   *)
(* answered.                                                                  *)
PaidIsBacked ==
    \A o \in Order :
        /\ \/ txs[o].status = "completed"
           \/ /\ orders[o].payment_status = "completed"
              /\ orders[o].payment_method \in {"stripe", "paypal"}
           => o \in claimed \/ Charged(o)
        /\ txs[o].method = "stripe" /\ txs[o].provider_ref # None =>
            Charged(o) /\ seen[o] \ {"PENDING"} # {}

(* A transaction that reads refunded was refunded: the provider gave back, on *)
(* a request for this order, at least the amount that is recorded.  It only   *)
(* gives back for an order whose transaction has a charged reference.  Where  *)
(* an amount is recorded the order was REFUNDED too, in part or in whole,     *)
(* whatever is committed over either row later.                               *)
RefundIsBacked ==
    \A o \in Order :
        /\ txs[o].status = "refunded" => txs[o].refunded > 0
        /\ txs[o].refunded > 0 =>
            GivenBack(o, txs[o].refunded) /\ "REFUNDED" \in seen[o]
        /\ o \in Repaid => Charged(o)

(* What a transaction has learned is not forgotten, whatever stale session    *)
(* commits over it: how it was paid, that it has a reference and that money   *)
(* was given back.  A success event that comes again after the refund makes   *)
(* its status read completed, and still the refund shows.                     *)
RecordsKept ==
    [][\A o \in Order : TxExists(o) =>
          /\ txs'[o].method = txs[o].method
          /\ txs[o].provider_ref # None => txs'[o].provider_ref # None
          /\ txs[o].refunded > 0 => txs'[o].refunded > 0]_vars

(* Handlers that take the payment's row lock take it before the order's, all  *)
(* but the refund.  So two requests wait for each other only if one of them   *)
(* is a refund or both are bulk updates; a confirmation, a webhook or a       *)
(* change of one order never deadlocks with another of these.                 *)
RefundInFlight(r) == pc[r] \in {"flush_order", "flush"} /\ job[r].amount > 0

HoldsOrder(r) == \E o \in Order : orderLock[o] = r

BulkInFlight(r) == pc[r] = "flush_one" /\ HoldsOrder(r)

DeadlockNeedsRefundOrBulk ==
    \A r, q \in Request :
        WaitsFor(r, q) /\ WaitsFor(q, r) =>
            \/ RefundInFlight(r) \/ RefundInFlight(q)
            \/ BulkInFlight(r) /\ BulkInFlight(q)

(* Every request ends, with a commit or a rollback, however requests wait for *)
(* each other's rows.                                                         *)
EveryRequestEnds == \A r \in Request : pc[r] # "idle" ~> pc[r] = "idle"

(* "Update order status via state machine": every change of a committed       *)
(* status is a transition of the table.                                       *)
StateMachineObeyed ==
    [][\A o \in Order :
          OrderExists(o) /\ orders'[o].status # orders[o].status
          => CanTransition(orders[o].status, orders'[o].status)]_vars
================================================================================
