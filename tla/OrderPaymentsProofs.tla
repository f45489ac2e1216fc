-------------------------- MODULE OrderPaymentsProofs --------------------------
(******************************************************************************)
(* Proofs about OrderPayments for any number of orders, requests, intents and *)
(* carts and any price.                                                       *)
(*                                                                            *)
(* None of the safety properties is inductive: a request writes what it       *)
(* decided on an earlier state.  The inductive invariant IInv therefore says, *)
(* for every open session, what is still true of the rows it read and of the  *)
(* objects it will write: the status it read is one the order has had, the    *)
(* one it will write is a transition from such a status, a transaction it     *)
(* takes for paid has a charged reference or was named by an event, and where *)
(* it replaces a reference it has a charged one.  All of these are stable,    *)
(* because what orders have been and what the provider did is never undone.   *)
(*                                                                            *)
(* Three more invariants stand on it: LockInv says who can hold a lock,       *)
(* TraceInv with which status of the order a session will record a refund or  *)
(* a reference of Stripe, and RepaidInv that an order was only given money    *)
(* back on a charged reference.                                               *)
(******************************************************************************)
EXTENDS OrderPayments, TLAPS

--------------------------------------------------------------------------------
(* The inductive invariant                                                    *)

Online == {"stripe", "paypal"}

(* A status a request may write: one step of the table away from a status the *)
(* order had, or refunded if the provider gave money back.                    *)
MayBecome(o, s) ==
    \/ \E past \in seen[o] : CanTransition(past, s)
    \/ s = "REFUNDED" /\ o \in Repaid

(* The columns of one transaction row or object agree with the provider and   *)
(* with the events that were posted.                                          *)
TxBacked(row, o) ==
    /\ row.status = "absent" => row = NoTx
    /\ row.method = "stripe" /\ row.provider_ref \in Intent =>
        ChargedOn(row.provider_ref)
    /\ row.status = "completed" => o \in claimed \/ ChargedOn(row.provider_ref)
    /\ row.status = "refunded" => row.refunded > 0
    /\ row.refunded > 0 => GivenBack(o, row.refunded)

OrderBacked(row, o) ==
    row.payment_status = "completed" /\ row.payment_method \in Online =>
        o \in claimed \/ Charged(o)

RowInv(o) ==
    /\ OrderExists(o) => /\ orders[o].status \in seen[o]
                         /\ "PENDING" \in seen[o]
    /\ ~ OrderExists(o) => /\ orders[o] = NoOrder
                           /\ txs[o] = NoTx
                           /\ seen[o] = {}
    /\ OrderBacked(orders[o], o)
    /\ TxBacked(txs[o], o)

Untouched(r, o) == loaded[r][o] = NoOrder /\ object[r][o] = NoOrder

(* The order is being placed by r, and nobody else can know it.               *)
Placing(r, o) ==
    /\ ~ OrderExists(o)
    /\ loaded[r][o] = NoOrder
    /\ object[r][o].status = "PENDING"
    /\ object[r][o].payment_status = "pending"
    /\ \A q \in Request \ {r} : object[q][o].status = "absent"

(* r has read the order and may be about to write it.  Where it books the     *)
(* payment, the charge is on the row or on the transaction it holds itself.   *)
Editing(r, o) ==
    /\ OrderExists(o)
    /\ loaded[r][o].status \in seen[o]
    /\ loaded[r][o].payment_method = orders[o].payment_method
    /\ object[r][o].payment_method = orders[o].payment_method
    /\ \/ object[r][o].status = loaded[r][o].status
       \/ MayBecome(o, object[r][o].status)
    /\ OrderBacked(object[r][o], o) \/ ChargedOn(txObject[r][o].provider_ref)

OrderInv(r, o) == Untouched(r, o) \/ Placing(r, o) \/ Editing(r, o)

(* The same for the transaction.  A column of it that is set stays set, and   *)
(* whoever replaces its reference, r or another request, has a charged one.   *)
TxUntouched(r, o) == loadedTx[r][o] = NoTx /\ txObject[r][o] = NoTx

TxPlacing(r, o) == Placing(r, o) /\ loadedTx[r][o] = NoTx

TxEditing(r, o) ==
    LET was == loadedTx[r][o]
        now == txObject[r][o]
    IN
    /\ TxExists(o)
    /\ was.status # "absent"
    /\ now.status # "absent"
    /\ was.method = txs[o].method
    /\ now.method = txs[o].method
    /\ was.provider_ref \in Intent => /\ txs[o].provider_ref \in Intent
                                      /\ now.provider_ref \in Intent
    /\ txs[o].provider_ref = was.provider_ref \/ Charged(o)
    /\ now.provider_ref = was.provider_ref \/ ChargedOn(now.provider_ref)
    /\ was.refunded > 0 => txs[o].refunded > 0 /\ now.refunded > 0

TxInv(r, o) ==
    /\ TxUntouched(r, o) \/ TxPlacing(r, o) \/ TxEditing(r, o)
    /\ TxBacked(loadedTx[r][o], o)
    /\ TxBacked(txObject[r][o], o)

JobInv(r) ==
    LET o == job[r].order IN
    /\ pc[r] = "idle" => \A p \in Order : Untouched(r, p) /\ TxUntouched(r, p)
    /\ pc[r] \notin {"idle", "next_order", "flush_one"} => o \in Order
    /\ pc[r] = "intent" => /\ Placing(r, o)
                           /\ loadedTx[r][o] = NoTx
    /\ pc[r] \in {"intent", "clear_cart"} => job[r].cart \in Cart
    /\ pc[r] = "flush_one" => job[r].todo # <<>>
    /\ pc[r] \in {"confirm_call", "confirm_order", "stripe_order",
                  "paypal_order"} => TxEditing(r, o)
    /\ pc[r] = "confirm_call" => job[r].intent \in Intent
    /\ pc[r] \in {"stripe_order", "paypal_order"} =>
        txObject[r][o].status = "completed"
    /\ pc[r] \in {"refund_tx", "refund_call"} => /\ Editing(r, o)
                                                 /\ job[r].amount > 0
    /\ pc[r] = "refund_tx" => TxUntouched(r, o)
    /\ pc[r] = "refund_call" => /\ loadedTx[r][o].status = "completed"
                                /\ TxEditing(r, o)
    /\ pc[r] = "flush_order" => job[r].amount > 0

SessionInv(r) ==
    /\ JobInv(r)
    /\ \A o \in Order : OrderInv(r, o) /\ TxInv(r, o)

IInv ==
    /\ TypeOK
    /\ \A o \in Order : RowInv(o)
    /\ \A r \in Request : SessionInv(r)

--------------------------------------------------------------------------------
(* Types                                                                      *)

(* A row merged with an object of its kind is a row.                          *)
LEMMA MergeType ==
    /\ \A row, was, now \in OrderRow : MergeOrder(row, was, now) \in OrderRow
    /\ \A row, was, now \in TxRow : MergeTx(row, was, now) \in TxRow
BY DEF MergeOrder, MergeTx, Column, OrderRow, TxRow

(* The absent rows and the empty job have their types.                        *)
LEMMA NoRowTypes ==
    /\ NoOrder \in OrderRow
    /\ NoTx \in TxRow
    /\ NoJob \in Job
    /\ NoIntent \in IntentRow
BY OrderPaymentsAssumption
   DEF NoOrder, OrderRow, NoTx, TxRow, NoJob, Job, NoIntent, IntentRow

(* Rows and records after a column changed.                                   *)
LEMMA ColumnTypes ==
    /\ \A row \in OrderRow, x \in OrderStatusEnum \cup {"absent"} :
        [row EXCEPT !.status = x] \in OrderRow
    /\ \A row \in OrderRow, x \in PaymentStatus \cup {"absent"} :
        [row EXCEPT !.payment_status = x] \in OrderRow
    /\ \A row \in TxRow, x \in PaymentStatus \cup {"absent"} :
        [row EXCEPT !.status = x] \in TxRow
    /\ \A row \in TxRow, x \in Intent \cup {None} :
        [row EXCEPT !.provider_ref = x] \in TxRow
    /\ \A row \in TxRow, x \in 0..Total : [row EXCEPT !.refunded = x] \in TxRow
    /\ \A row \in IntentRow, x \in {"unused", "open", "approved", "succeeded"} :
        [row EXCEPT !.status = x] \in IntentRow
    /\ \A row \in IntentRow, x \in BOOLEAN :
        [row EXCEPT !.declined = x] \in IntentRow
    /\ \A row \in IntentRow, x \in 0..Total :
        [row EXCEPT !.refunded = x] \in IntentRow
    /\ \A row \in IntentRow, x \in PaymentMethod :
        [row EXCEPT !.method = x] \in IntentRow
    /\ \A row \in IntentRow, x \in [Order -> Nat] :
        [row EXCEPT !.given = x] \in IntentRow
BY DEF OrderRow, TxRow, IntentRow

(* Setting a column of a job to a value of its type leaves a job.             *)
LEMMA JobColumnTypes ==
    /\ \A j \in Job, x \in Order : [j EXCEPT !.order = x] \in Job
    /\ \A j \in Job, x \in Seq(Order) : [j EXCEPT !.todo = x] \in Job
    /\ \A j \in Job, x \in OrderStatusEnum : [j EXCEPT !.to = x] \in Job
    /\ \A j \in Job, x \in Intent : [j EXCEPT !.intent = x] \in Job
    /\ \A j \in Job, x \in 1..Total : [j EXCEPT !.amount = x] \in Job
    /\ \A j \in Job, x \in Cart : [j EXCEPT !.cart = x] \in Job
    /\ \A j \in Job, x \in BOOLEAN : [j EXCEPT !.touch = x] \in Job
BY DEF Job

(* Jobs as the handlers start with.                                           *)
LEMMA JobTypes ==
    /\ \A list \in Seq(Order), to \in OrderStatusEnum :
        [NoJob EXCEPT !.todo = list, !.to = to] \in Job
    /\ \A o \in Order :
        /\ [NoJob EXCEPT !.order = o] \in Job
        /\ \A b \in BOOLEAN : [NoJob EXCEPT !.order = o, !.touch = b] \in Job
        /\ \A c \in Cart : [NoJob EXCEPT !.order = o, !.cart = c] \in Job
        /\ \A i \in Intent : [NoJob EXCEPT !.order = o, !.intent = i] \in Job
        /\ \A n \in 1..Total : [NoJob EXCEPT !.order = o, !.amount = n] \in Job
BY NoRowTypes, JobColumnTypes

(* An intent that was just opened, a transaction that was just made.          *)
LEMMA FreshTypes ==
    /\ \A m \in PaymentMethod :
        [NoIntent EXCEPT !.method = m, !.status = "open"] \in IntentRow
    /\ \A m \in PaymentMethod, st \in PaymentStatus, ref \in Intent \cup {None} :
        NewTx(m, st, ref) \in TxRow
<1>1. ASSUME NEW m \in PaymentMethod
      PROVE  [NoIntent EXCEPT !.method = m, !.status = "open"] \in IntentRow
  BY NoRowTypes, ColumnTypes
<1>2. ASSUME NEW m \in PaymentMethod, NEW st \in PaymentStatus,
             NEW ref \in Intent \cup {None}
      PROVE  NewTx(m, st, ref) \in TxRow
  BY OrderPaymentsAssumption DEF NewTx, TxRow
<1> QED
  BY <1>1, <1>2

(* The initial state is type correct.                                         *)
LEMMA TypeInit == Init => TypeOK
BY NoRowTypes DEF Init, TypeOK, Points

(* Closing a session keeps the types of everything it resets.                 *)
LEMMA EndRequestType ==
    ASSUME TypeOK, NEW r \in Request, EndRequest(r)
    PROVE  /\ orderLock' \in [Order -> Request \cup {None}]
           /\ txLock' \in [Order -> Request \cup {None}]
           /\ pc' \in [Request -> Points]
           /\ job' \in [Request -> Job]
           /\ loaded' \in [Request -> [Order -> OrderRow]]
           /\ object' \in [Request -> [Order -> OrderRow]]
           /\ loadedTx' \in [Request -> [Order -> TxRow]]
           /\ txObject' \in [Request -> [Order -> TxRow]]
BY NoRowTypes DEF TypeOK, EndRequest, Points

(* Taking row locks leaves every lock free or with a request.                 *)
LEMMA TakeLocksType ==
    ASSUME TypeOK, NEW r \in Request, TakeLocks(r)
    PROVE  /\ orderLock' \in [Order -> Request \cup {None}]
           /\ txLock' \in [Order -> Request \cup {None}]
BY DEF TypeOK, TakeLocks

(* Reading an order into the identity map keeps the map's type.               *)
LEMMA ReadOrderType ==
    ASSUME TypeOK, NEW r \in Request, NEW o \in Order, NEW now \in OrderRow,
           ReadOrder(r, o, now)
    PROVE  /\ loaded' \in [Request -> [Order -> OrderRow]]
           /\ object' \in [Request -> [Order -> OrderRow]]
BY DEF TypeOK, ReadOrder, SetOrder

(* Reading a transaction into the identity map keeps the map's type.          *)
LEMMA ReadTxType ==
    ASSUME TypeOK, NEW r \in Request, NEW o \in Order, NEW now \in TxRow,
           ReadTx(r, o, now)
    PROVE  /\ loadedTx' \in [Request -> [Order -> TxRow]]
           /\ txObject' \in [Request -> [Order -> TxRow]]
BY DEF TypeOK, ReadTx, SetTx

(* Assigning to an order object keeps the objects' type.                      *)
LEMMA SetOrderType ==
    ASSUME TypeOK, NEW r \in Request, NEW o \in Order, NEW now \in OrderRow,
           SetOrder(r, o, now)
    PROVE  object' \in [Request -> [Order -> OrderRow]]
BY DEF TypeOK, SetOrder

(* Assigning to a transaction object keeps the objects' type.                 *)
LEMMA SetTxType ==
    ASSUME TypeOK, NEW r \in Request, NEW o \in Order, NEW now \in TxRow,
           SetTx(r, o, now)
    PROVE  txObject' \in [Request -> [Order -> TxRow]]
BY DEF TypeOK, SetTx

(* One step per action.  Actions of other groups leave out what the lemmas    *)
(* above say.                                                                 *)
LEMMA OutsideType == TypeOK /\ Outside => TypeOK'
<1> SUFFICES ASSUME TypeOK, Outside PROVE TypeOK'
  OBVIOUS
<1>1. CASE \E c \in Cart : AddToCart(c)
  BY <1>1 DEF TypeOK, AddToCart, db, locks, orderMap, txMap
<1>2. ASSUME NEW i \in Intent, CustomerPays(i) PROVE TypeOK'
  <2> DEFINE st == IF intents[i].method = "paypal" THEN "approved"
                                                  ELSE "succeeded"
  <2>1. [intents[i] EXCEPT !.status = st] \in IntentRow
    BY ColumnTypes DEF TypeOK
  <2>2. intents' = [intents EXCEPT ![i] = [intents[i] EXCEPT !.status = st]]
    BY <1>2 DEF CustomerPays
  <2> QED
    BY <1>2, <2>1, <2>2 DEF TypeOK, CustomerPays, db, locks, orderMap, txMap
<1>3. ASSUME NEW i \in Intent, CustomerDeclined(i) PROVE TypeOK'
  <2>1. [intents[i] EXCEPT !.declined = TRUE] \in IntentRow
    BY ColumnTypes DEF TypeOK
  <2>2. intents' = [intents EXCEPT ![i] = [intents[i] EXCEPT !.declined = TRUE]]
    BY <1>3 DEF CustomerDeclined
  <2> QED
    BY <1>3, <2>1, <2>2 DEF TypeOK, CustomerDeclined, db, locks, orderMap, txMap
<1>4. ASSUME NEW o \in Order, NEW i \in Intent,
             NEW m \in Methods \cap {"stripe", "paypal"},
             CreatePaymentIntent(o, i, m)
      PROVE  TypeOK'
  BY <1>4, FreshTypes, OrderPaymentsAssumption
     DEF TypeOK, CreatePaymentIntent, OpenIntent, db, locks, orderMap, txMap
<1> QED
  BY <1>1, <1>2, <1>3, <1>4 DEF Outside

(* Every step of a checkout is type correct.                                  *)
LEMMA CheckoutType ==
    ASSUME TypeOK, NEW r \in Request,
           \/ \E c \in Cart, o \in Order, m \in Methods : Checkout(r, c, o, m)
           \/ CheckoutIntent(r)
           \/ ClearCart(r)
    PROVE  TypeOK'
<1>1. ASSUME NEW c \in Cart, NEW o \in Order, NEW m \in Methods,
             Checkout(r, c, o, m)
      PROVE  TypeOK'
  <2>1. [status |-> "PENDING", payment_status |-> "pending",
         payment_method |-> m] \in OrderRow
    BY OrderPaymentsAssumption DEF OrderRow, OrderStatusEnum, PaymentStatus
  <2>2. NewTx(m, "pending", None) \in TxRow
    BY FreshTypes, OrderPaymentsAssumption DEF PaymentStatus
  <2> QED
    BY <1>1, <2>1, <2>2, JobTypes, SetOrderType, SetTxType
       DEF TypeOK, Checkout, Begin, db, locks, Points
<1>2. CASE CheckoutIntent(r)
  <2> DEFINE o == job[r].order
             m == object[r][o].payment_method
  <2>1. /\ m \in PaymentMethod
        /\ o \in Order \cup {None}
        /\ {"pending", "failed"} \subseteq PaymentStatus
    BY <1>2 DEF CheckoutIntent, TypeOK, Job, PaymentMethod, PaymentStatus
  <2>2. ASSUME NEW i \in Intent,
               OpenIntent(i, m),
               SetTx(r, o, NewTx(m, "pending", IF m = "paypal" THEN i ELSE None))
        PROVE  TypeOK'
    <3>1. /\ [NoIntent EXCEPT !.method = m, !.status = "open"] \in IntentRow
          /\ NewTx(m, "pending", IF m = "paypal" THEN i ELSE None) \in TxRow
      BY <2>1, FreshTypes
    <3> HIDE DEF o, m
    <3>2. intents' \in [Intent -> IntentRow]
      BY <2>2, <3>1 DEF OpenIntent, TypeOK
    <3>3. txObject' \in [Request -> [Order -> TxRow]]
      BY <2>2, <3>1 DEF TypeOK, SetTx
    <3> QED
      BY <1>2, <3>2, <3>3
         DEF TypeOK, CheckoutIntent, Goto, db, locks, orderMap, Points
  <2>3. ASSUME NEW st \in {"pending", "failed"},
               SetTx(r, o, NewTx(m, st, None)),
               UNCHANGED intents
        PROVE  TypeOK'
    <3>1. NewTx(m, st, None) \in TxRow
      BY <2>1, FreshTypes
    <3> HIDE DEF o, m
    <3>2. txObject' \in [Request -> [Order -> TxRow]]
      BY <2>3, <3>1 DEF TypeOK, SetTx
    <3> QED
      BY <1>2, <2>3, <3>2
         DEF TypeOK, CheckoutIntent, Goto, db, locks, orderMap, Points
  <2> QED
    BY <1>2, <2>2, <2>3 DEF CheckoutIntent
<1>3. CASE ClearCart(r)
  BY <1>3 DEF TypeOK, ClearCart, Goto, db, locks, orderMap, txMap, Points
<1> QED
  BY <1>1, <1>2, <1>3

(* Every step of a staff request is type correct.                             *)
LEMMA StaffType ==
    ASSUME TypeOK, NEW r \in Request,
           \/ \E o \in Order, s \in StaffTargets : UpdateOrderStatus(r, o, s)
           \/ \E o \in Order : CancelOrder(r, o)
           \/ \E list \in Batches, s \in StaffTargets :
                 BulkUpdateStatus(r, list, s)
           \/ NextOrder(r)
           \/ FlushOne(r)
           \/ RefundFlushOrder(r)
    PROVE  TypeOK'
<1>1. ASSUME NEW list \in Seq(Order), NEW to \in OrderStatusEnum,
             StartStatusUpdate(r, list, to)
      PROVE  TypeOK'
  BY <1>1, JobTypes
     DEF TypeOK, StartStatusUpdate, Begin, db, locks, orderMap, txMap, Points
<1>2. \A s \in StaffTargets : SchemaStatusToEnum[s] \in OrderStatusEnum
  BY OrderPaymentsAssumption
     DEF SchemaStatus, SchemaStatusToEnum, OrderStatusEnum
<1>3. CASE \E o \in Order, s \in StaffTargets : UpdateOrderStatus(r, o, s)
  <2>1. \A o \in Order : <<o>> \in Seq(Order)
    OBVIOUS
  <2> QED
    BY <1>1, <1>2, <1>3, <2>1 DEF UpdateOrderStatus
<1>4. CASE \E o \in Order : CancelOrder(r, o)
  <2>1. \A o \in Order : <<o>> \in Seq(Order)
    OBVIOUS
  <2>2. "CANCELLED" \in OrderStatusEnum
    BY DEF OrderStatusEnum
  <2> QED
    BY <1>1, <1>4, <2>1, <2>2 DEF CancelOrder
<1>5. CASE \E list \in Batches, s \in StaffTargets : BulkUpdateStatus(r, list, s)
  <2>1. Batches \subseteq Seq(Order)
    BY OrderPaymentsAssumption DEF Batches
  <2> QED
    BY <1>1, <1>2, <1>5, <2>1 DEF BulkUpdateStatus
<1>6. CASE NextOrder(r)
  <2> DEFINE o == Head(job[r].todo)
  <2>1. /\ job[r] \in Job
        /\ job[r].todo # <<>>
        /\ o \in Order
        /\ Tail(job[r].todo) \in Seq(Order)
    BY <1>6 DEF NextOrder, TypeOK, Job
  <2>2. CASE CanTransition(orders[o].status, job[r].to)
    <3>1. job[r].to \in OrderStatusEnum
      BY <2>1, <2>2 DEF CanTransition, ValidTransitions, OrderStatusEnum
    <3>2. [orders[o] EXCEPT !.status = job[r].to] \in OrderRow
      BY <2>1, <3>1, ColumnTypes DEF TypeOK
    <3>3. /\ ReadOrder(r, o, [orders[o] EXCEPT !.status = job[r].to])
          /\ Goto(r, "flush_one")
          /\ UNCHANGED <<db, locks, job, txMap, carts, intents, claimed>>
      BY <1>6, <2>2 DEF NextOrder
    <3> QED
      BY <2>1, <3>2, <3>3, ReadOrderType
         DEF Goto, TypeOK, Points, db, locks, txMap
  <2>3. CASE ~ CanTransition(orders[o].status, job[r].to)
    <3>1. /\ job' = [job EXCEPT ![r].todo = Tail(@)]
          /\ UNCHANGED <<pc, orderMap, db, locks, txMap, carts, intents, claimed>>
      BY <1>6, <2>3 DEF NextOrder
    <3>2. [job[r] EXCEPT !.todo = Tail(@)] \in Job
      BY <2>1, JobColumnTypes
    <3> QED
      BY <3>1, <3>2 DEF TypeOK, db, locks, orderMap, txMap
  <2> QED
    BY <2>2, <2>3
<1>7. CASE FlushOne(r)
  <2>1. Tail(job[r].todo) \in Seq(Order)
    BY <1>7 DEF FlushOne, TypeOK, Job
  <2> QED
    BY <1>7, <2>1, TakeLocksType, JobColumnTypes
       DEF FlushOne, Goto, TypeOK, Points, db, orderMap, txMap
<1>8. CASE RefundFlushOrder(r)
  BY <1>8, TakeLocksType
     DEF RefundFlushOrder, Goto, TypeOK, Points, db, orderMap, txMap
<1> QED
  BY <1>3, <1>4, <1>5, <1>6, <1>7, <1>8

(* What a payment does to an order gives a row of the table.                  *)
LEMMA ApplyPaymentType ==
    \A row \in OrderRow : ApplyPayment(row) \in OrderRow
BY DEF ApplyPayment, OrderRow, OrderStatusEnum, PaymentStatus

(* The first step of every payment request and event is type correct.         *)
LEMMA PaymentArriveType ==
    ASSUME TypeOK, NEW r \in Request, NEW o \in Order,
           \/ \E ref \in Intent \cup {None} : ConfirmPayment(r, o, ref)
           \/ ConfirmCod(r, o)
           \/ \E amount \in 1..Total : ProcessRefund(r, o, amount)
           \/ \E i \in Intent : StripeSucceeded(r, i, o)
           \/ \E i \in Intent : StripeFailed(r, i, o)
           \/ PaypalEvent(r, o)
    PROVE  TypeOK'
<1>1. /\ orders[o] \in OrderRow
      /\ txs[o] \in TxRow
      /\ [txs[o] EXCEPT !.status = "completed"] \in TxRow
      /\ [txs[o] EXCEPT !.status = "failed"] \in TxRow
  BY ColumnTypes DEF TypeOK, PaymentStatus
<1>8. ASSUME NEW point \in Points, NEW j \in Job, Begin(r, point, j),
             NEW now \in TxRow, ReadTx(r, o, now),
             claimed' \subseteq Order,
             UNCHANGED <<db, locks, orderMap, carts, intents>>
      PROVE  TypeOK'
  BY <1>8, ReadTxType DEF TypeOK, Begin, db, locks, orderMap
<1>2. ASSUME NEW ref \in Intent \cup {None}, ConfirmPayment(r, o, ref)
      PROVE  TypeOK'
  <2>3. claimed' \subseteq Order
    BY <1>2 DEF ConfirmPayment, TypeOK
  <2>1. CASE ref = None
    BY <1>1, <1>2, <1>8, <2>1, <2>3, JobTypes, OrderPaymentsAssumption
       DEF ConfirmPayment, Points
  <2>2. CASE ref \in Intent
    BY <1>1, <1>2, <1>8, <2>2, <2>3, JobTypes, OrderPaymentsAssumption
       DEF ConfirmPayment, Points
  <2> QED
    BY <2>1, <2>2
<1>3. CASE ConfirmCod(r, o)
  <2>1. [orders[o] EXCEPT !.payment_status = "completed",
                          !.status = "CONFIRMED"] \in OrderRow
    BY <1>1, ColumnTypes DEF PaymentStatus, OrderStatusEnum
  <2> QED
    BY <1>3, <2>1, JobTypes, ReadOrderType
       DEF TypeOK, ConfirmCod, Begin, db, locks, txMap, Points
<1>4. ASSUME NEW amount \in 1..Total, ProcessRefund(r, o, amount)
      PROVE  TypeOK'
  BY <1>1, <1>4, JobTypes, ReadOrderType
     DEF TypeOK, ProcessRefund, Begin, db, locks, txMap, Points
<1>5. CASE \E i \in Intent : StripeSucceeded(r, i, o)
  BY <1>1, <1>5, <1>8, JobTypes DEF StripeSucceeded, Points, TypeOK
<1>6. CASE \E i \in Intent : StripeFailed(r, i, o)
  BY <1>1, <1>6, <1>8, JobTypes DEF StripeFailed, Points, TypeOK
<1>7. CASE PaypalEvent(r, o)
  <2>1. claimed' \subseteq Order
    BY <1>7 DEF PaypalEvent, TypeOK
  <2> QED
    BY <1>1, <1>7, <1>8, <2>1, JobTypes DEF PaypalEvent, Points
<1> QED
  BY <1>2, <1>3, <1>4, <1>5, <1>6, <1>7

(* The provider's answer to a confirmation is stored type correctly.          *)
LEMMA ConfirmType ==
    ASSUME TypeOK, NEW r \in Request, JobInv(r),
           ConfirmStripe(r) \/ ConfirmPaypal(r)
    PROVE  TypeOK'
<1> DEFINE o == job[r].order
<1>1. /\ o \in Order
      /\ job[r] \in Job
      /\ job[r].intent \in Intent
      /\ txObject[r][o] \in TxRow
  BY DEF JobInv, ConfirmStripe, ConfirmPaypal, TypeOK
<1>2. /\ [txObject[r][o] EXCEPT !.status = "failed"] \in TxRow
      /\ [txObject[r][o] EXCEPT !.status = "completed",
                                !.provider_ref = job[r].intent] \in TxRow
      /\ \A b \in BOOLEAN : [job[r] EXCEPT !.touch = b] \in Job
  BY <1>1, ColumnTypes, JobColumnTypes DEF PaymentStatus
<1>3. ASSUME ConfirmSucceeded(r) \/ ConfirmFailed(r)
      PROVE  /\ txObject' \in [Request -> [Order -> TxRow]]
             /\ job' \in [Request -> Job]
  BY <1>1, <1>2, <1>3, SetTxType DEF ConfirmSucceeded, ConfirmFailed, TypeOK
<1>4. CASE ConfirmStripe(r)
  BY <1>3, <1>4
     DEF ConfirmStripe, Goto, TypeOK, db, locks, orderMap, Points
<1>5. CASE ConfirmPaypal(r)
  <2>1. [intents[job[r].intent] EXCEPT !.status = "succeeded"] \in IntentRow
    BY <1>1, ColumnTypes DEF TypeOK
  <2>2. intents' \in [Intent -> IntentRow]
    BY <1>1, <1>5, <2>1 DEF ConfirmPaypal, TypeOK
  <2> QED
    BY <1>3, <1>5, <2>2
       DEF ConfirmPaypal, Goto, TypeOK, db, locks, orderMap, Points
<1> QED
  BY <1>4, <1>5

(* The steps that update the order after its transaction are type correct.    *)
LEMMA FollowType ==
    ASSUME TypeOK, NEW r \in Request, JobInv(r),
           ConfirmOrder(r) \/ StripeOrder(r) \/ PaypalOrder(r)
    PROVE  TypeOK'
<1> DEFINE o == job[r].order
<1>1. /\ o \in Order
      /\ orders[o] \in OrderRow
  BY DEF JobInv, ConfirmOrder, StripeOrder, PaypalOrder, TypeOK
<1>2. /\ ApplyPayment(orders[o]) \in OrderRow
      /\ [orders[o] EXCEPT !.payment_status = "failed"] \in OrderRow
  BY <1>1, ApplyPaymentType, ColumnTypes DEF PaymentStatus
<1>3. PICK now \in OrderRow : ReadOrder(r, o, now)
  BY <1>2 DEF ConfirmOrder, StripeOrder, PaypalOrder
<1>4. /\ TakeLocks(r)
      /\ Goto(r, "flush")
      /\ UNCHANGED <<db, job, txMap, carts, intents, claimed>>
  BY DEF ConfirmOrder, StripeOrder, PaypalOrder
<1> QED
  BY <1>1, <1>3, <1>4, TakeLocksType, ReadOrderType
     DEF Goto, TypeOK, db, txMap, Points

(* What the provider keeps of an intent after a refund for an order.          *)
AfterRefund(row, o, amount) ==
    [row EXCEPT !.refunded = @ + amount, !.given[o] = @ + amount]

(* A refund within the price is an intent of the provider, and gives more.    *)
LEMMA AfterRefundType ==
    ASSUME NEW row \in IntentRow, NEW o \in Order, NEW amount \in 0..Total,
           row.refunded + amount <= Total
    PROVE  /\ AfterRefund(row, o, amount) \in IntentRow
           /\ AfterRefund(row, o, amount).status = row.status
           /\ AfterRefund(row, o, amount).given[o] = row.given[o] + amount
           /\ \A p \in Order \ {o} :
                AfterRefund(row, o, amount).given[p] = row.given[p]
<1>1. /\ row.refunded + amount \in 0..Total
      /\ row.given[o] + amount \in Nat
  BY OrderPaymentsAssumption DEF IntentRow
<1> DEFINE sum == row.refunded + amount
           given == [row.given EXCEPT ![o] = @ + amount]
<1>2. given \in [Order -> Nat]
  BY <1>1 DEF IntentRow
<1>3. given[o] = row.given[o] + amount /\ \A p \in Order \ {o} : given[p] = row.given[p]
  BY DEF IntentRow
<1>4. AfterRefund(row, o, amount) = [row EXCEPT !.refunded = sum, !.given = given]
  BY DEF AfterRefund
<1>5. sum \in 0..Total
  BY <1>1
<1> HIDE DEF sum, given
<1> QED
  BY <1>2, <1>3, <1>4, <1>5 DEF IntentRow

(* Every step of a refund is type correct.                                    *)
LEMMA RefundType ==
    ASSUME TypeOK, NEW r \in Request, JobInv(r),
           RefundReadTx(r) \/ RefundStripe(r)
    PROVE  TypeOK'
<1> DEFINE o == job[r].order
           i == loadedTx[r][o].provider_ref
<1>1. /\ o \in Order
      /\ txs[o] \in TxRow
      /\ txObject[r][o] \in TxRow
      /\ object[r][o] \in OrderRow
      /\ job[r].amount \in 0..Total
  BY DEF JobInv, RefundReadTx, RefundStripe, TypeOK, Job
<1>2. CASE RefundReadTx(r)
  BY <1>1, <1>2, ReadTxType
     DEF RefundReadTx, Goto, TypeOK, db, locks, orderMap, Points
<1>3. CASE RefundStripe(r)
  <2>1. /\ [object[r][o] EXCEPT !.status = "REFUNDED"] \in OrderRow
        /\ [txObject[r][o] EXCEPT !.status = "refunded",
                                  !.refunded = job[r].amount] \in TxRow
    BY <1>1, ColumnTypes DEF OrderStatusEnum, PaymentStatus
  <2>2. intents' \in [Intent -> IntentRow]
    <3>1. i \in Intent /\ intents[i] \in IntentRow
      <4>1. loadedTx[r][o] \in TxRow
        BY <1>1 DEF TypeOK
      <4>2. i \in Intent
        BY <1>3, <4>1 DEF RefundStripe, TxRow
      <4> QED
        BY <4>2 DEF TypeOK
    <3>2. PICK row \in IntentRow :
              /\ intents' = [intents EXCEPT ![i] = row]
              /\ row = AfterRefund(intents[i], o, job[r].amount)
      <4>1. intents[i].refunded + job[r].amount <= Total
        BY <1>3 DEF RefundStripe
      <4>2. AfterRefund(intents[i], o, job[r].amount) \in IntentRow
        BY <1>1, <3>1, <4>1, AfterRefundType
      <4> QED
        BY <1>3, <4>2 DEF RefundStripe, AfterRefund
    <3> HIDE DEF i
    <3> QED
      BY <3>2 DEF TypeOK
  <2> QED
    BY <1>1, <1>3, <2>1, <2>2, SetOrderType, SetTxType
       DEF RefundStripe, Goto, TypeOK, db, locks, Points
<1> QED
  BY <1>2, <1>3

(* A commit is type correct.                                                  *)
LEMMA CommitType ==
    ASSUME TypeOK, NEW r \in Request, Commit(r)
    PROVE  TypeOK'
<1>1. orders' \in [Order -> OrderRow]
  BY MergeType DEF Commit, TypeOK
<1>2. txs' \in [Order -> TxRow]
  BY MergeType DEF Commit, TypeOK
<1>3. seen' \in [Order -> SUBSET OrderStatusEnum]
  <2>1. \A o \in Order : orders'[o].status \in OrderStatusEnum \cup {"absent"}
    BY <1>1 DEF OrderRow
  <2> QED
    BY <2>1 DEF Commit, TypeOK
<1> QED
  BY <1>1, <1>2, <1>3, EndRequestType DEF Commit, TypeOK

(* A rollback, a refusal or a deadlock victim is type correct.                *)
LEMMA EndType ==
    ASSUME TypeOK, NEW r \in Request,
           Rollback(r) \/ DeadlockVictim(r) \/ RefundRefused(r)
    PROVE  TypeOK'
BY EndRequestType DEF Rollback, DeadlockVictim, RefundRefused, TypeOK, db

(* Every step is type correct; JobInv says which job is at which point.       *)
LEMMA TypeStep ==
    ASSUME TypeOK, \A r \in Request : JobInv(r), [Next]_vars
    PROVE  TypeOK'
<1>1. CASE Outside
  BY <1>1, OutsideType
<1>2. ASSUME NEW r \in Request, Arrive(r)
      PROVE  TypeOK'
  BY <1>2, CheckoutType, StaffType, PaymentArriveType DEF Arrive
<1>3. ASSUME NEW r \in Request, Continue(r)
      PROVE  TypeOK'
  BY <1>3, CheckoutType, StaffType, ConfirmType, FollowType, RefundType,
     CommitType, EndType DEF Continue
<1>4. ASSUME NEW r \in Request, Rollback(r)
      PROVE  TypeOK'
  BY <1>4, EndType
<1>5. CASE UNCHANGED vars
  BY <1>5 DEF TypeOK, vars, db, locks, orderMap, txMap
<1> QED
  BY <1>1, <1>2, <1>3, <1>4, <1>5 DEF Next

--------------------------------------------------------------------------------
(* What every step keeps                                                      *)

(* The provider takes nothing back, and an event that was posted was posted.  *)
IntentsGrow ==
    /\ claimed \subseteq claimed'
    /\ \A i \in Intent :
        /\ intents[i].status = "succeeded" => intents'[i].status = "succeeded"
        /\ \A o \in Order : intents[i].given[o] <= intents'[i].given[o]

(* Committed rows keep what later writes rely on.                             *)
RowsGrow ==
    \A o \in Order :
        /\ seen[o] \subseteq seen'[o]
        /\ OrderExists(o) =>
            /\ OrderExists(o)'
            /\ orders'[o].payment_method = orders[o].payment_method
        /\ TxExists(o) =>
            /\ TxExists(o)'
            /\ txs'[o].method = txs[o].method
            /\ txs[o].provider_ref \in Intent => txs'[o].provider_ref \in Intent
            /\ txs'[o].provider_ref = txs[o].provider_ref \/ Charged(o)'
            /\ txs[o].refunded > 0 => txs'[o].refunded > 0
        /\ Charged(o) => Charged(o)'

(* What the provider did and what orders have been is never undone: the facts *)
(* the invariant rests on survive any step that only grows them.              *)
LEMMA StableFacts ==
    ASSUME TypeOK, TypeOK', IntentsGrow, RowsGrow, NEW o \in Order
    PROVE  /\ \A ref : ChargedOn(ref) => ChargedOn(ref)'
           /\ \A n \in 0..Total : GivenBack(o, n) => GivenBack(o, n)'
           /\ o \in Repaid => o \in Repaid'
           /\ \A s : MayBecome(o, s) => MayBecome(o, s)'
           /\ \A row \in OrderRow : OrderBacked(row, o) => OrderBacked(row, o)'
           /\ \A row \in TxRow : TxBacked(row, o) => TxBacked(row, o)'
<1>1. ASSUME NEW ref, ChargedOn(ref) PROVE ChargedOn(ref)'
  BY <1>1 DEF ChargedOn, IntentsGrow
<1>2. ASSUME NEW n \in Nat, NEW i \in Intent, n <= intents[i].given[o]
      PROVE  n <= intents'[i].given[o]
  <2>1. intents[i].given[o] <= intents'[i].given[o]
    BY DEF IntentsGrow
  <2>2. intents[i].given[o] \in Nat /\ intents'[i].given[o] \in Nat
    BY DEF TypeOK, IntentRow
  <2> QED
    BY <1>2, <2>1, <2>2
<1>3. ASSUME NEW n \in 0..Total, GivenBack(o, n) PROVE GivenBack(o, n)'
  BY <1>2, <1>3, OrderPaymentsAssumption DEF GivenBack
<1>4. o \in Repaid => o \in Repaid'
  <2> SUFFICES ASSUME o \in Repaid PROVE o \in Repaid'
    OBVIOUS
  <2>1. PICK i \in Intent : intents[i].given[o] > 0
    BY DEF Repaid
  <2>2. intents[i].given[o] \in Nat /\ intents'[i].given[o] \in Nat
    BY DEF TypeOK, IntentRow
  <2>3. 1 <= intents'[i].given[o]
    BY <1>2, <2>1, <2>2
  <2>4. intents'[i].given[o] > 0
    BY <2>2, <2>3
  <2> QED
    BY <2>4 DEF Repaid
<1>5. ASSUME NEW s, MayBecome(o, s) PROVE MayBecome(o, s)'
  BY <1>4, <1>5 DEF MayBecome, RowsGrow
<1>6. o \in claimed => o \in claimed'
  BY DEF IntentsGrow
<1>7. ASSUME NEW row \in OrderRow, OrderBacked(row, o)
      PROVE  OrderBacked(row, o)'
  BY <1>6, <1>7 DEF OrderBacked, RowsGrow
<1>8. ASSUME NEW row \in TxRow, TxBacked(row, o) PROVE TxBacked(row, o)'
  <2>1. row.refunded \in 0..Total
    BY DEF TxRow
  <2> QED
    BY <1>1, <1>3, <1>6, <1>8, <2>1 DEF TxBacked
<1> QED
  BY <1>1, <1>3, <1>4, <1>5, <1>7, <1>8

(* A session that does not take part in a step keeps its invariant, order by  *)
(* order.                                                                     *)
LEMMA KeepOrder ==
    ASSUME TypeOK, TypeOK', IntentsGrow, RowsGrow,
           NEW q \in Request, NEW o \in Order,
           loaded'[q][o] = loaded[q][o], object'[q][o] = object[q][o],
           ChargedOn(txObject[q][o].provider_ref) =>
               ChargedOn(txObject[q][o].provider_ref)'
    PROVE  /\ Untouched(q, o) => Untouched(q, o)'
           /\ Editing(q, o) => Editing(q, o)'
<1>1. Untouched(q, o) => Untouched(q, o)'
  BY DEF Untouched
<1>2. ASSUME Editing(q, o) PROVE Editing(q, o)'
  <2>1. PICK now \in OrderRow : now = object[q][o]
    BY DEF TypeOK
  <2>2. OrderBacked(now, o)' \/ ChargedOn(txObject[q][o].provider_ref)'
    <3>1. OrderBacked(now, o) \/ ChargedOn(txObject[q][o].provider_ref)
      BY <1>2, <2>1 DEF Editing, OrderBacked
    <3> QED
      BY <3>1, StableFacts
  <2>3. \/ object'[q][o].status = loaded'[q][o].status
        \/ MayBecome(o, now.status)'
    BY <1>2, <2>1, StableFacts DEF Editing
  <2> QED
    BY <1>2, <2>1, <2>2, <2>3 DEF Editing, RowsGrow, OrderBacked, MayBecome
<1> QED
  BY <1>1, <1>2

(* A session's half about one transaction survives such a step.               *)
LEMMA KeepTx ==
    ASSUME TypeOK, TypeOK', IntentsGrow, RowsGrow,
           NEW q \in Request, NEW o \in Order,
           loadedTx'[q][o] = loadedTx[q][o], txObject'[q][o] = txObject[q][o]
    PROVE  /\ TxUntouched(q, o) => TxUntouched(q, o)'
           /\ TxEditing(q, o) => TxEditing(q, o)'
           /\ Placing(q, o)' /\ TxPlacing(q, o) => TxPlacing(q, o)'
           /\ TxBacked(loadedTx[q][o], o) => TxBacked(loadedTx[q][o], o)'
           /\ TxBacked(txObject[q][o], o) => TxBacked(txObject[q][o], o)'
<1>1. TxUntouched(q, o) => TxUntouched(q, o)'
  BY DEF TxUntouched
<1>2. ASSUME TxEditing(q, o) PROVE TxEditing(q, o)'
  <2>1. \A ref : ChargedOn(ref) => ChargedOn(ref)'
    BY StableFacts
  <2>2. txs'[o].provider_ref = loadedTx'[q][o].provider_ref \/ Charged(o)'
    BY <1>2 DEF TxEditing, RowsGrow
  <2>3. \/ txObject'[q][o].provider_ref = loadedTx'[q][o].provider_ref
        \/ ChargedOn(txObject[q][o].provider_ref)'
    BY <1>2, <2>1 DEF TxEditing, ChargedOn
  <2> QED
    BY <1>2, <2>2, <2>3 DEF TxEditing, RowsGrow
<1>3. Placing(q, o)' /\ TxPlacing(q, o) => TxPlacing(q, o)'
  BY DEF TxPlacing
<1>4. PICK was \in TxRow, now \in TxRow :
         was = loadedTx[q][o] /\ now = txObject[q][o]
  BY DEF TypeOK
<1>5. /\ TxBacked(was, o) => TxBacked(was, o)'
      /\ TxBacked(now, o) => TxBacked(now, o)'
  BY <1>4, StableFacts
<1>6. /\ TxBacked(loadedTx[q][o], o) => TxBacked(loadedTx[q][o], o)'
      /\ TxBacked(txObject[q][o], o) => TxBacked(txObject[q][o], o)'
  BY <1>4, <1>5 DEF TxBacked
<1> QED
  BY <1>1, <1>2, <1>3, <1>6

(* What a session says of one order stays true if it does not touch the       *)
(* order.                                                                     *)
LEMMA SessionKept ==
    ASSUME TypeOK, TypeOK', IntentsGrow, RowsGrow,
           NEW q \in Request, SessionInv(q), NEW o \in Order,
           loaded'[q][o] = loaded[q][o], object'[q][o] = object[q][o],
           loadedTx'[q][o] = loadedTx[q][o], txObject'[q][o] = txObject[q][o],
           Placing(q, o) => Placing(q, o)'
    PROVE  OrderInv(q, o)' /\ TxInv(q, o)'
<1>1. ChargedOn(txObject[q][o].provider_ref) =>
          ChargedOn(txObject[q][o].provider_ref)'
  BY StableFacts DEF ChargedOn
<1> QED
  BY <1>1, KeepOrder, KeepTx DEF SessionInv, OrderInv, TxInv, TxPlacing

(* A session that a step does not touch keeps its invariant.                  *)
LEMMA KeepSession ==
    ASSUME TypeOK, TypeOK', IntentsGrow, RowsGrow,
           NEW q \in Request, SessionInv(q),
           pc'[q] = pc[q], job'[q] = job[q],
           loaded'[q] = loaded[q], object'[q] = object[q],
           loadedTx'[q] = loadedTx[q], txObject'[q] = txObject[q],
           \A o \in Order : Placing(q, o) => Placing(q, o)'
    PROVE  SessionInv(q)'
<1>1. ASSUME NEW o \in Order PROVE OrderInv(q, o)' /\ TxInv(q, o)'
  BY SessionKept
<1>2. JobInv(q)'
  <2> DEFINE o == job[q].order
  <2>6. \A p \in Order : ChargedOn(txObject[q][p].provider_ref) =>
            ChargedOn(txObject[q][p].provider_ref)'
    BY StableFacts DEF ChargedOn
  <2>1. pc[q] = "idle" => \A p \in Order : Untouched(q, p)' /\ TxUntouched(q, p)'
    BY <2>6, KeepOrder, KeepTx DEF SessionInv, JobInv
  <2>2. pc[q] = "intent" => Placing(q, o)' /\ loadedTx'[q][o] = NoTx
    BY DEF SessionInv, JobInv
  <2>3. pc[q] \in {"confirm_call", "confirm_order", "stripe_order",
                   "paypal_order", "refund_call"} => TxEditing(q, o)'
    BY KeepTx DEF SessionInv, JobInv
  <2>4. pc[q] \in {"refund_tx", "refund_call"} => Editing(q, o)'
    BY <2>6, KeepOrder DEF SessionInv, JobInv
  <2>5. pc[q] = "refund_tx" => TxUntouched(q, o)'
    BY KeepTx DEF SessionInv, JobInv
  <2> QED
    BY <2>1, <2>2, <2>3, <2>4, <2>5
       DEF SessionInv, JobInv, Placing, Editing, TxEditing
<1> QED
  BY <1>1, <1>2 DEF SessionInv

(* A step of r's session before its commit.                                   *)
OthersWait(r) ==
    \A q \in Request \ {r} :
        /\ pc'[q] = pc[q]
        /\ job'[q] = job[q]
        /\ loaded'[q] = loaded[q]
        /\ object'[q] = object[q]
        /\ loadedTx'[q] = loadedTx[q]
        /\ txObject'[q] = txObject[q]

(* Rows that do not change keep their invariant while the history grows.      *)
LEMMA RowsKept ==
    ASSUME TypeOK, TypeOK', IntentsGrow, UNCHANGED db,
           \A o \in Order : RowInv(o)
    PROVE  RowsGrow /\ \A o \in Order : RowInv(o)'
<1>1. RowsGrow
  <2>1. \A o \in Order : Charged(o) => Charged(o)'
    BY DEF Charged, ChargedOn, IntentsGrow, db
  <2> QED
    BY <2>1 DEF RowsGrow, db, OrderExists, TxExists
<1>2. ASSUME NEW o \in Order PROVE RowInv(o)'
  <2>1. PICK order \in OrderRow, tx \in TxRow : order = orders[o] /\ tx = txs[o]
    BY DEF TypeOK
  <2>2. OrderBacked(order, o)' /\ TxBacked(tx, o)'
    BY <1>1, <2>1, StableFacts DEF RowInv
  <2> QED
    BY <2>1, <2>2 DEF RowInv, db, OrderExists, OrderBacked, TxBacked
<1> QED
  BY <1>1, <1>2

(* To keep the invariant, a step of r has to show it for r's own session and  *)
(* for the rows; the other sessions follow.                                   *)
LEMMA SessionStep ==
    ASSUME IInv, TypeOK', IntentsGrow, UNCHANGED db,
           NEW r \in Request, OthersWait(r), SessionInv(r)',
           \A o \in Order :
               object'[r][o].status # "absent" =>
                   \/ object[r][o].status # "absent"
                   \/ OrderExists(o)
                   \/ FreshOrder(o)
    PROVE  IInv'
<1>1. RowsGrow /\ \A o \in Order : RowInv(o)'
  BY RowsKept DEF IInv
<1>2. ASSUME NEW q \in Request \ {r} PROVE SessionInv(q)'
  <2>1. ASSUME NEW o \in Order, Placing(q, o) PROVE Placing(q, o)'
    <3>1. orders'[o] = orders[o]
      BY DEF db
    <3>2. ~ FreshOrder(o)
      BY <2>1 DEF Placing, FreshOrder
    <3>3. object'[r][o].status = "absent"
      BY <2>1, <3>2 DEF Placing
    <3>4. ASSUME NEW p \in Request \ {q} PROVE object'[p][o].status = "absent"
      BY <2>1, <3>3 DEF OthersWait, Placing
    <3> QED
      BY <2>1, <3>1, <3>4 DEF Placing, OrderExists, OthersWait
  <2> QED
    BY <1>1, <2>1, KeepSession DEF OthersWait, IInv
<1> QED
  BY <1>1, <1>2 DEF IInv

(* A step outside every session keeps rows and sessions.                      *)
LEMMA OutsideStep ==
    ASSUME IInv, TypeOK', IntentsGrow,
           UNCHANGED <<db, pc, job, orderMap, txMap>>
    PROVE  IInv'
<1>1. RowsGrow /\ \A o \in Order : RowInv(o)'
  BY RowsKept DEF IInv, db
<1>2. ASSUME NEW q \in Request PROVE SessionInv(q)'
  <2>1. ASSUME NEW o \in Order, Placing(q, o) PROVE Placing(q, o)'
    BY <2>1 DEF Placing, OrderExists, db, orderMap
  <2> QED
    BY <1>1, <2>1, KeepSession DEF IInv, orderMap, txMap
<1> QED
  BY <1>1, <1>2 DEF IInv

(* The intents: one changes at a time.                                        *)
LEMMA OneIntent ==
    ASSUME TypeOK, UNCHANGED claimed, NEW i \in Intent, NEW row \in IntentRow,
           intents' = [intents EXCEPT ![i] = row],
           intents[i].status = "succeeded" => row.status = "succeeded",
           \A o \in Order : intents[i].given[o] <= row.given[o]
    PROVE  IntentsGrow
<1>1. /\ intents'[i] = row
      /\ \A j \in Intent \ {i} : intents'[j] = intents[j]
  BY DEF TypeOK
<1>2. \A j \in Intent, o \in Order : intents[j].given[o] <= intents[j].given[o]
  <2>1. \A j \in Intent, o \in Order : intents[j].given[o] \in Nat
    BY DEF TypeOK, IntentRow
  <2> QED
    BY <2>1
<1>3. ASSUME NEW j \in Intent
      PROVE  /\ intents[j].status = "succeeded" => intents'[j].status = "succeeded"
             /\ \A o \in Order : intents[j].given[o] <= intents'[j].given[o]
  BY <1>1, <1>2
<1> QED
  BY <1>3 DEF IntentsGrow

(* With the same intents and events their history stays.                      *)
LEMMA IntentsUnchanged ==
    ASSUME TypeOK, UNCHANGED intents, claimed \subseteq claimed'
    PROVE  IntentsGrow
<1>1. \A i \in Intent, o \in Order : intents[i].given[o] \in Nat
  BY DEF TypeOK, IntentRow
<1>2. \A i \in Intent, o \in Order : intents[i].given[o] <= intents'[i].given[o]
  BY <1>1
<1> QED
  BY <1>2 DEF IntentsGrow

(* Another status or a declined attempt gives nothing back.                   *)
LEMMA SameGiven ==
    ASSUME TypeOK, UNCHANGED claimed, NEW i \in Intent, NEW row \in IntentRow,
           intents' = [intents EXCEPT ![i] = row],
           intents[i].status = "succeeded" => row.status = "succeeded",
           row.given = intents[i].given
    PROVE  IntentsGrow
<1>1. \A o \in Order : intents[i].given[o] \in Nat
  BY DEF TypeOK, IntentRow
<1>2. \A o \in Order : intents[i].given[o] <= row.given[o]
  BY <1>1
<1> QED
  BY <1>2, OneIntent

(* Opening an intent only adds to what the provider knows.                    *)
LEMMA OpenIntentStep ==
    ASSUME TypeOK, UNCHANGED claimed, NEW i \in Intent,
           NEW m \in PaymentMethod, OpenIntent(i, m)
    PROVE  IntentsGrow
<1>1. PICK row \in IntentRow :
          row = [NoIntent EXCEPT !.method = m, !.status = "open"]
  BY FreshTypes
<1>2. intents[i] = NoIntent /\ intents' = [intents EXCEPT ![i] = row]
  BY <1>1 DEF OpenIntent
<1>3. row.given = intents[i].given /\ intents[i].status # "succeeded"
  BY <1>1, <1>2 DEF NoIntent
<1> QED
  BY <1>2, <1>3, SameGiven

(* A customer's payment or declined attempt only adds to it.                  *)
LEMMA CustomerStep ==
    ASSUME TypeOK, NEW i \in Intent, CustomerPays(i) \/ CustomerDeclined(i)
    PROVE  IntentsGrow
<1>0. /\ intents[i] \in IntentRow
      /\ intents[i].status = "open"
      /\ UNCHANGED claimed
  BY DEF CustomerPays, CustomerDeclined, TypeOK
<1>1. CASE CustomerPays(i)
  <2>1. PICK s \in {"approved", "succeeded"} :
            intents' = [intents EXCEPT ![i] = [intents[i] EXCEPT !.status = s]]
    BY <1>1 DEF CustomerPays
  <2>2. PICK row \in IntentRow : row = [intents[i] EXCEPT !.status = s]
    BY <1>0, ColumnTypes
  <2>3. row.given = intents[i].given
    BY <1>0, <2>2 DEF IntentRow
  <2> QED
    BY <1>0, <2>1, <2>2, <2>3, SameGiven
<1>2. CASE CustomerDeclined(i)
  <2>1. intents' = [intents EXCEPT ![i] = [intents[i] EXCEPT !.declined = TRUE]]
    BY <1>2 DEF CustomerDeclined
  <2>2. PICK row \in IntentRow : row = [intents[i] EXCEPT !.declined = TRUE]
    BY <1>0, ColumnTypes
  <2>3. row.given = intents[i].given
    BY <1>0, <2>2 DEF IntentRow
  <2> QED
    BY <1>0, <2>1, <2>2, <2>3, SameGiven
<1> QED
  BY <1>1, <1>2

(* So do a capture and a refund that stays within the price.                  *)
LEMMA ProviderStep ==
    ASSUME TypeOK, NEW r \in Request, SessionInv(r),
           ConfirmPaypal(r) \/ RefundStripe(r)
    PROVE  IntentsGrow
<1>0. UNCHANGED claimed
  BY Zenon DEF ConfirmPaypal, RefundStripe
<1>1. CASE UNCHANGED intents
  BY <1>0, <1>1, IntentsUnchanged
<1>2. CASE ConfirmPaypal(r)
  <2>1. PICK i \in Intent : i = job[r].intent
    BY <1>2 DEF ConfirmPaypal, SessionInv, JobInv
  <2>2. PICK row \in IntentRow : row = [intents[i] EXCEPT !.status = "succeeded"]
    BY ColumnTypes DEF TypeOK
  <2>3. ASSUME ~ UNCHANGED intents
        PROVE  intents' = [intents EXCEPT ![i] = row]
    BY <1>2, <2>1, <2>2, <2>3 DEF ConfirmPaypal
  <2>4. row.status = "succeeded" /\ row.given = intents[i].given
    BY <2>2 DEF TypeOK, IntentRow
  <2> QED
    BY <1>0, <1>1, <2>3, <2>4, SameGiven
<1>3. CASE RefundStripe(r)
  <2>1. PICK o \in Order, amount \in 0..Total :
            o = job[r].order /\ amount = job[r].amount
    BY <1>3 DEF RefundStripe, SessionInv, JobInv, TypeOK, Job
  <2>2. PICK i \in Intent : i = loadedTx[r][o].provider_ref
    <3>1. loadedTx[r][o] \in TxRow
      BY DEF TypeOK
    <3> QED
      BY <1>3, <2>1, <3>1 DEF RefundStripe, TxRow
  <2>3. intents[i].refunded + amount <= Total
    BY <1>3, <2>1, <2>2 DEF RefundStripe
  <2>4. PICK row \in IntentRow :
            /\ row = AfterRefund(intents[i], o, amount)
            /\ row.status = intents[i].status
            /\ row.given[o] = intents[i].given[o] + amount
            /\ \A p \in Order \ {o} : row.given[p] = intents[i].given[p]
    BY <2>3, AfterRefundType DEF TypeOK
  <2>5. intents' = [intents EXCEPT ![i] = row]
    BY <1>3, <2>1, <2>2, <2>4 DEF RefundStripe, AfterRefund
  <2>6. \A p \in Order : intents[i].given[p] \in Nat
    BY DEF TypeOK, IntentRow
  <2>7. \A p \in Order : intents[i].given[p] <= row.given[p]
    BY <2>4, <2>6, OrderPaymentsAssumption
  <2>8. intents[i].status = "succeeded" => row.status = "succeeded"
    BY <2>4
  <2> QED
    BY <1>0, <2>5, <2>7, <2>8, OneIntent
<1> QED
  BY <1>2, <1>3

(* An object that is not in the database yet is being placed.                 *)
LEMMA NewIsPlacing ==
    ASSUME IInv, NEW q \in Request, NEW o \in Order,
           ~ OrderExists(o), object[q][o].status # "absent"
    PROVE  Placing(q, o)
BY DEF IInv, SessionInv, OrderInv, Untouched, Editing, NoOrder

(* A step that changes nothing of the session but its place and job.          *)
LEMMA MapsKept ==
    ASSUME IInv, TypeOK', IntentsGrow, UNCHANGED db,
           NEW r \in Request, UNCHANGED <<orderMap, txMap>>, OthersWait(r),
           JobInv(r)'
    PROVE  IInv'
<1>1. \A q \in Request, o \in Order : Placing(q, o)' <=> Placing(q, o)
  BY DEF Placing, OrderExists, db, orderMap
<1>3. RowsGrow
  BY RowsKept DEF IInv
<1>4. SessionInv(r)'
  <2>1. TypeOK /\ SessionInv(r)
    BY DEF IInv
  <2> SUFFICES ASSUME NEW o \in Order PROVE OrderInv(r, o)' /\ TxInv(r, o)'
    BY DEF SessionInv
  <2>2. /\ loaded'[r][o] = loaded[r][o]
        /\ object'[r][o] = object[r][o]
        /\ loadedTx'[r][o] = loadedTx[r][o]
        /\ txObject'[r][o] = txObject[r][o]
    BY DEF orderMap, txMap
  <2> QED
    BY <1>1, <1>3, <2>1, <2>2, SessionKept
<1> QED
  BY <1>4, SessionStep DEF orderMap

(* A step that changes what the session holds of one order.                   *)
OnlyAt(r, o) ==
    \A p \in Order \ {o} :
        /\ loaded'[r][p] = loaded[r][p]
        /\ object'[r][p] = object[r][p]
        /\ loadedTx'[r][p] = loadedTx[r][p]
        /\ txObject'[r][p] = txObject[r][p]

(* A step that touches one order's objects leaves the session's other orders  *)
(* alone.                                                                     *)
LEMMA OnlyAtSession ==
    ASSUME IInv, TypeOK', IntentsGrow, UNCHANGED db,
           NEW r \in Request, NEW o \in Order, OthersWait(r), OnlyAt(r, o),
           JobInv(r)', OrderInv(r, o)', TxInv(r, o)'
    PROVE  SessionInv(r)'
<1>1. RowsGrow
  BY RowsKept DEF IInv
<1>2. ASSUME NEW p \in Order \ {o} PROVE OrderInv(r, p)' /\ TxInv(r, p)'
  <2>1. Placing(r, p) => Placing(r, p)'
    BY DEF Placing, OrderExists, db, OnlyAt, OthersWait
  <2>2. TypeOK /\ SessionInv(r)
    BY DEF IInv
  <2> QED
    BY <1>1, <2>1, <2>2, SessionKept DEF OnlyAt
<1> QED
  BY <1>2 DEF SessionInv

(* The same at an order that exists.                                          *)
LEMMA ExistingStep ==
    ASSUME IInv, TypeOK', IntentsGrow, UNCHANGED db,
           NEW r \in Request, NEW o \in Order, OthersWait(r), OnlyAt(r, o),
           OrderExists(o),
           JobInv(r)', OrderInv(r, o)', TxInv(r, o)'
    PROVE  IInv'
<1>1. SessionInv(r)'
  BY OnlyAtSession
<1>2. \A p \in Order : object'[r][p].status # "absent" =>
          \/ object[r][p].status # "absent"
          \/ OrderExists(p)
  BY DEF OnlyAt
<1> QED
  BY <1>1, <1>2, SessionStep

(* Customers, the provider and POST /payments/intent keep the invariant.      *)
LEMMA OutsideKeeps == ASSUME IInv, TypeOK', Outside PROVE IInv'
<1>1. UNCHANGED <<db, pc, job, orderMap, txMap, claimed>>
  BY DEF Outside, AddToCart, CustomerPays, CustomerDeclined, CreatePaymentIntent
<1>2. IntentsGrow
  <2>1. CASE \E c \in Cart : AddToCart(c)
    BY <1>1, <2>1, IntentsUnchanged DEF IInv, AddToCart
  <2>2. CASE \E i \in Intent : CustomerPays(i) \/ CustomerDeclined(i)
    BY <2>2, CustomerStep DEF IInv
  <2>3. ASSUME NEW o \in Order, NEW i \in Intent,
               NEW m \in Methods \cap {"stripe", "paypal"},
               CreatePaymentIntent(o, i, m)
        PROVE  IntentsGrow
    BY <1>1, <2>3, OpenIntentStep, OrderPaymentsAssumption
       DEF IInv, CreatePaymentIntent
  <2> QED
    BY <2>1, <2>2, <2>3 DEF Outside
<1> QED
  BY <1>1, <1>2, OutsideStep

(* What the assignments of a handler change.                                  *)
LEMMA SetFrames ==
    ASSUME TypeOK, NEW r \in Request, NEW o \in Order, NEW now
    PROVE  /\ SetOrder(r, o, now) =>
                /\ object'[r][o] = now
                /\ \A p \in Order \ {o} : object'[r][p] = object[r][p]
                /\ \A q \in Request \ {r} : object'[q] = object[q]
           /\ SetTx(r, o, now) =>
                /\ txObject'[r][o] = now
                /\ \A p \in Order \ {o} : txObject'[r][p] = txObject[r][p]
                /\ \A q \in Request \ {r} : txObject'[q] = txObject[q]
           /\ ReadOrder(r, o, now) =>
                /\ object'[r][o] = now
                /\ loaded'[r][o] = orders[o]
                /\ \A p \in Order \ {o} : /\ object'[r][p] = object[r][p]
                                          /\ loaded'[r][p] = loaded[r][p]
                /\ \A q \in Request \ {r} : /\ object'[q] = object[q]
                                            /\ loaded'[q] = loaded[q]
           /\ ReadTx(r, o, now) =>
                /\ txObject'[r][o] = now
                /\ loadedTx'[r][o] = txs[o]
                /\ \A p \in Order \ {o} : /\ txObject'[r][p] = txObject[r][p]
                                          /\ loadedTx'[r][p] = loadedTx[r][p]
                /\ \A q \in Request \ {r} : /\ txObject'[q] = txObject[q]
                                            /\ loadedTx'[q] = loadedTx[q]
<1>1. SetOrder(r, o, now) =>
        /\ object'[r][o] = now
        /\ \A p \in Order \ {o} : object'[r][p] = object[r][p]
        /\ \A q \in Request \ {r} : object'[q] = object[q]
  BY DEF SetOrder, TypeOK
<1>2. SetTx(r, o, now) =>
        /\ txObject'[r][o] = now
        /\ \A p \in Order \ {o} : txObject'[r][p] = txObject[r][p]
        /\ \A q \in Request \ {r} : txObject'[q] = txObject[q]
  BY DEF SetTx, TypeOK
<1>3. loaded' = [loaded EXCEPT ![r][o] = orders[o]] =>
        /\ loaded'[r][o] = orders[o]
        /\ \A p \in Order \ {o} : loaded'[r][p] = loaded[r][p]
        /\ \A q \in Request \ {r} : loaded'[q] = loaded[q]
  BY DEF TypeOK
<1>4. loadedTx' = [loadedTx EXCEPT ![r][o] = txs[o]] =>
        /\ loadedTx'[r][o] = txs[o]
        /\ \A p \in Order \ {o} : loadedTx'[r][p] = loadedTx[r][p]
        /\ \A q \in Request \ {r} : loadedTx'[q] = loadedTx[q]
  BY DEF TypeOK
<1> QED
  BY <1>1, <1>2, <1>3, <1>4 DEF ReadOrder, ReadTx

(* What placing an order leaves alone in the identity maps.                   *)
LEMMA PlaceFrames ==
    ASSUME TypeOK, NEW r \in Request, NEW point, NEW j
    PROVE  /\ Begin(r, point, j) =>
                /\ pc[r] = "idle"
                /\ pc'[r] = point
                /\ job'[r] = j
                /\ \A q \in Request \ {r} : pc'[q] = pc[q] /\ job'[q] = job[q]
           /\ Goto(r, point) =>
                /\ pc'[r] = point
                /\ \A q \in Request \ {r} : pc'[q] = pc[q]
BY DEF Begin, Goto, TypeOK

(* The four ways the handlers change their maps.                              *)
OthersPlaces(r) ==
    \A q \in Request \ {r} : pc'[q] = pc[q] /\ job'[q] = job[q]

(* What reading an order leaves alone.                                        *)
LEMMA ReadOrderFrame ==
    ASSUME TypeOK, NEW r \in Request, NEW o \in Order, NEW now,
           OthersPlaces(r), ReadOrder(r, o, now), UNCHANGED txMap
    PROVE  /\ OthersWait(r) /\ OnlyAt(r, o)
           /\ object'[r][o] = now /\ loaded'[r][o] = orders[o]
           /\ loadedTx'[r][o] = loadedTx[r][o] /\ txObject'[r][o] = txObject[r][o]
<1>1. /\ object'[r][o] = now
      /\ loaded'[r][o] = orders[o]
      /\ \A p \in Order \ {o} : /\ object'[r][p] = object[r][p]
                                /\ loaded'[r][p] = loaded[r][p]
      /\ \A q \in Request \ {r} : /\ object'[q] = object[q]
                                  /\ loaded'[q] = loaded[q]
  BY SetFrames
<1> QED
  BY <1>1 DEF OthersWait, OthersPlaces, OnlyAt, txMap

(* What reading a transaction leaves alone.                                   *)
LEMMA ReadTxFrame ==
    ASSUME TypeOK, NEW r \in Request, NEW o \in Order, NEW now,
           OthersPlaces(r), ReadTx(r, o, now), UNCHANGED orderMap
    PROVE  /\ OthersWait(r) /\ OnlyAt(r, o)
           /\ txObject'[r][o] = now /\ loadedTx'[r][o] = txs[o]
           /\ loaded'[r][o] = loaded[r][o] /\ object'[r][o] = object[r][o]
<1>1. /\ txObject'[r][o] = now
      /\ loadedTx'[r][o] = txs[o]
      /\ \A p \in Order \ {o} : /\ txObject'[r][p] = txObject[r][p]
                                /\ loadedTx'[r][p] = loadedTx[r][p]
      /\ \A q \in Request \ {r} : /\ txObject'[q] = txObject[q]
                                  /\ loadedTx'[q] = loadedTx[q]
  BY SetFrames
<1> QED
  BY <1>1 DEF OthersWait, OthersPlaces, OnlyAt, orderMap

(* What assigning to a transaction leaves alone.                              *)
LEMMA SetTxFrame ==
    ASSUME TypeOK, NEW r \in Request, NEW o \in Order, NEW now,
           OthersPlaces(r), SetTx(r, o, now), UNCHANGED <<orderMap, loadedTx>>
    PROVE  /\ OthersWait(r) /\ OnlyAt(r, o)
           /\ txObject'[r][o] = now /\ loadedTx'[r][o] = loadedTx[r][o]
           /\ loaded'[r][o] = loaded[r][o] /\ object'[r][o] = object[r][o]
<1>1. /\ txObject'[r][o] = now
      /\ \A p \in Order \ {o} : txObject'[r][p] = txObject[r][p]
      /\ \A q \in Request \ {r} : txObject'[q] = txObject[q]
  BY SetFrames
<1> QED
  BY <1>1 DEF OthersWait, OthersPlaces, OnlyAt, orderMap

(* What assigning to an order and its transaction leaves alone.               *)
LEMMA SetBothFrame ==
    ASSUME TypeOK, NEW r \in Request, NEW o \in Order, NEW order, NEW tx,
           OthersPlaces(r), SetOrder(r, o, order), SetTx(r, o, tx),
           UNCHANGED <<loaded, loadedTx>>
    PROVE  /\ OthersWait(r) /\ OnlyAt(r, o)
           /\ object'[r][o] = order /\ txObject'[r][o] = tx
<1>1. /\ txObject'[r][o] = tx
      /\ \A p \in Order \ {o} : txObject'[r][p] = txObject[r][p]
      /\ \A q \in Request \ {r} : txObject'[q] = txObject[q]
  BY SetFrames
<1>2. /\ object'[r][o] = order
      /\ \A p \in Order \ {o} : object'[r][p] = object[r][p]
      /\ \A q \in Request \ {r} : object'[q] = object[q]
  BY SetFrames
<1> QED
  BY <1>1, <1>2 DEF OthersWait, OthersPlaces, OnlyAt

(* A transaction that does not exist claims nothing.                          *)
LEMMA NoTxBacked == \A o : TxBacked(NoTx, o)
BY OrderPaymentsAssumption DEF TxBacked, NoTx

(* The columns of a job that was just made.                                   *)
LEMMA JobColumns ==
    ASSUME NEW o, NEW x
    PROVE  /\ [NoJob EXCEPT !.order = o].order = o
           /\ [NoJob EXCEPT !.order = o, !.cart = x].order = o
           /\ [NoJob EXCEPT !.order = o, !.cart = x].cart = x
           /\ [NoJob EXCEPT !.order = o, !.intent = x].order = o
           /\ [NoJob EXCEPT !.order = o, !.intent = x].intent = x
           /\ [NoJob EXCEPT !.order = o, !.amount = x].order = o
           /\ [NoJob EXCEPT !.order = o, !.amount = x].amount = x
           /\ [NoJob EXCEPT !.order = o, !.touch = x].order = o
BY DEF NoJob

(* The first step of a checkout keeps the invariant.                          *)
LEMMA CheckoutKeeps ==
    ASSUME IInv, TypeOK', NEW r \in Request, NEW c \in Cart, NEW o \in Order,
           NEW m \in Methods, Checkout(r, c, o, m)
    PROVE  IInv'
<1> DEFINE row == [status |-> "PENDING", payment_status |-> "pending",
                   payment_method |-> m]
           j == [NoJob EXCEPT !.order = o, !.cart = c]
<1>1. /\ UNCHANGED db
      /\ UNCHANGED <<loaded, loadedTx, intents, claimed>>
      /\ FreshOrder(o)
      /\ SetOrder(r, o, row)
      /\ Begin(r, IF m \in {"stripe", "paypal"} THEN "intent" ELSE "clear_cart", j)
      /\ SetTx(r, o, NewTx(m, "pending", None)) \/ UNCHANGED txObject
  BY DEF Checkout
<1>2. IntentsGrow
  BY <1>1, IntentsUnchanged DEF IInv
<1>3. /\ pc[r] = "idle"
      /\ pc'[r] \in {"intent", "clear_cart"}
      /\ job'[r] = j
      /\ j.order = o
      /\ j.cart = c
  BY <1>1, PlaceFrames, JobColumns DEF IInv
<1>4. OthersWait(r) /\ OnlyAt(r, o)
  <2>1. CASE SetTx(r, o, NewTx(m, "pending", None))
    BY <1>1, <2>1, PlaceFrames, SetFrames DEF IInv, OthersWait, OnlyAt
  <2>2. CASE UNCHANGED txObject
    BY <1>1, <2>2, PlaceFrames, SetFrames DEF IInv, OthersWait, OnlyAt
  <2> QED
    BY <1>1, <2>1, <2>2
<1>5. /\ loaded[r][o] = NoOrder
      /\ loadedTx[r][o] = NoTx
      /\ txObject[r][o] = NoTx
  BY <1>3 DEF IInv, SessionInv, JobInv, Untouched, TxUntouched
<1>6. /\ object'[r][o] = row
      /\ txObject'[r][o] \in {NoTx, NewTx(m, "pending", None)}
  BY <1>1, <1>5, SetFrames DEF IInv
<1>7. Placing(r, o)'
  BY <1>1, <1>4, <1>5, <1>6 DEF Placing, FreshOrder, OrderExists, db, OthersWait
<1>8. OrderInv(r, o)'
  BY <1>7 DEF OrderInv
<1>9. TxInv(r, o)'
  <2>1. TxBacked(loadedTx[r][o], o)'
    BY <1>1, <1>5, NoTxBacked, OrderPaymentsAssumption DEF TxBacked, NoTx
  <2>2. TxBacked(txObject[r][o], o)'
    BY <1>6, OrderPaymentsAssumption DEF TxBacked, NoTx, NewTx
  <2> QED
    BY <1>1, <1>5, <1>7, <2>1, <2>2 DEF TxInv, TxPlacing
<1>10. JobInv(r)'
  <2>1. \A p \in Request : ~ (pc'[r] = "flush")
    BY <1>3
  <2> QED
    BY <1>1, <1>3, <1>5, <1>7 DEF JobInv
<1>11. SessionInv(r)'
  BY <1>1, <1>2, <1>4, <1>8, <1>9, <1>10, OnlyAtSession
<1> QED
  BY <1>1, <1>2, <1>4, <1>11, SessionStep DEF OnlyAt

(* What a request knows of an order it has just read.                         *)
LEMMA ReadEditing ==
    ASSUME IInv, TypeOK', IntentsGrow, UNCHANGED db,
           NEW r \in Request, NEW o \in Order, NEW now \in OrderRow,
           OrderExists(o), loaded'[r][o] = orders[o], object'[r][o] = now,
           now.payment_method = orders[o].payment_method,
           now.status = orders[o].status \/ MayBecome(o, now.status),
           OrderBacked(now, o) \/ ChargedOn(txObject'[r][o].provider_ref)
    PROVE  Editing(r, o)'
<1>1. RowsGrow
  BY RowsKept DEF IInv
<1>5. PICK ref : ref = txObject'[r][o].provider_ref
  OBVIOUS
<1>6. MayBecome(o, now.status) => MayBecome(o, now.status)'
  BY <1>1, StableFacts DEF IInv
<1>2. OrderBacked(now, o)' \/ ChargedOn(ref)'
  BY <1>1, <1>5, StableFacts DEF IInv
<1>3. orders[o].status \in seen[o]
  BY DEF IInv, RowInv
<1>4. OrderBacked(object[r][o], o)' \/ ChargedOn(txObject[r][o].provider_ref)'
  BY <1>2, <1>5 DEF OrderBacked, ChargedOn
<1> QED
  BY <1>3, <1>4, <1>6 DEF Editing, MayBecome, OrderExists, db

(* A transaction just read, with a new status that is backed, may be edited.  *)
LEMMA ReadTxEditing ==
    ASSUME IInv, TypeOK', IntentsGrow, UNCHANGED db,
           NEW r \in Request, NEW o \in Order, NEW now \in TxRow,
           TxExists(o), loadedTx'[r][o] = txs[o], txObject'[r][o] = now,
           now.status # "absent", now.method = txs[o].method,
           now.provider_ref = txs[o].provider_ref, now.refunded = txs[o].refunded,
           TxBacked(now, o)'
    PROVE  TxEditing(r, o)' /\ TxInv(r, o)'
<1>1. RowsGrow
  BY RowsKept DEF IInv
<1>2. PICK tx \in TxRow : tx = txs[o]
  BY DEF IInv, TypeOK
<1>3. TxBacked(tx, o)'
  BY <1>1, <1>2, StableFacts DEF IInv, RowInv
<1>4. TxEditing(r, o)'
  BY DEF TxEditing, TxExists, db
<1>5. TxBacked(loadedTx[r][o], o)' /\ TxBacked(txObject[r][o], o)'
  BY <1>2, <1>3 DEF TxBacked
<1> QED
  BY <1>4, <1>5 DEF TxInv

(* A transaction's order exists.                                              *)
LEMMA TxHasOrder ==
    ASSUME IInv, NEW o \in Order, TxExists(o)
    PROVE  OrderExists(o)
BY DEF IInv, RowInv, TxExists, NoTx

(* An idle request has empty identity maps.                                   *)
LEMMA IdleHoldsNothing ==
    ASSUME IInv, NEW r \in Request, pc[r] = "idle", NEW o \in Order
    PROVE  Untouched(r, o) /\ TxUntouched(r, o)
BY DEF IInv, SessionInv, JobInv

(* The half of the session a step leaves alone.                               *)
LEMMA OrderHalfKept ==
    ASSUME IInv, TypeOK', IntentsGrow, UNCHANGED db,
           NEW r \in Request, NEW o \in Order, OrderExists(o),
           loaded'[r][o] = loaded[r][o], object'[r][o] = object[r][o],
           ChargedOn(txObject[r][o].provider_ref) =>
               ChargedOn(txObject[r][o].provider_ref)'
    PROVE  /\ OrderInv(r, o)'
           /\ Editing(r, o) => Editing(r, o)'
<1>1. RowsGrow
  BY RowsKept DEF IInv
<1>2. TypeOK /\ OrderInv(r, o)
  BY DEF IInv, SessionInv
<1> QED
  BY <1>1, <1>2, KeepOrder DEF OrderInv, Placing

(* The transaction's half of a session, when a step changes no transaction.   *)
LEMMA TxHalfKept ==
    ASSUME IInv, TypeOK', IntentsGrow, UNCHANGED db,
           NEW r \in Request, NEW o \in Order, OrderExists(o),
           loadedTx'[r][o] = loadedTx[r][o], txObject'[r][o] = txObject[r][o]
    PROVE  /\ TxInv(r, o)'
           /\ TxEditing(r, o) => TxEditing(r, o)'
<1>1. RowsGrow
  BY RowsKept DEF IInv
<1>2. TypeOK /\ TxInv(r, o)
  BY DEF IInv, SessionInv
<1> QED
  BY <1>1, <1>2, KeepTx DEF TxInv, TxPlacing, Placing

(* A step that leaves the intents alone keeps all that is known of them.      *)
LEMMA QuietStep ==
    ASSUME IInv, UNCHANGED intents, claimed \subseteq claimed'
    PROVE  IntentsGrow
BY IntentsUnchanged DEF IInv

(* Clearing the cart keeps the invariant.                                     *)
LEMMA ClearCartKeeps ==
    ASSUME IInv, TypeOK', NEW r \in Request, ClearCart(r)
    PROVE  IInv'
<1>1. /\ UNCHANGED <<db, job, orderMap, txMap, intents, claimed>>
      /\ pc[r] = "clear_cart"
      /\ Goto(r, "flush")
  BY DEF ClearCart
<1>2. IntentsGrow
  BY <1>1, QuietStep
<1>3. pc'[r] = "flush" /\ OthersWait(r)
  BY <1>1, PlaceFrames DEF IInv, OthersWait, orderMap, txMap
<1>4. JobInv(r)'
  <2>1. job[r].order \in Order
    BY <1>1 DEF IInv, SessionInv, JobInv
  <2> QED
    BY <1>1, <1>3, <2>1 DEF JobInv
<1> QED
  BY <1>1, <1>2, <1>3, <1>4, MapsKept

(* The start of a staff request keeps it.                                     *)
LEMMA StartKeeps ==
    ASSUME IInv, TypeOK', NEW r \in Request, NEW list, NEW to,
           StartStatusUpdate(r, list, to)
    PROVE  IInv'
<1>1. /\ UNCHANGED <<db, orderMap, txMap, intents, claimed>>
      /\ Begin(r, "next_order", [NoJob EXCEPT !.todo = list, !.to = to])
  BY DEF StartStatusUpdate
<1>2. IntentsGrow
  BY <1>1, QuietStep
<1>3. pc'[r] = "next_order" /\ OthersWait(r)
  BY <1>1, PlaceFrames DEF IInv, OthersWait, orderMap, txMap
<1>4. JobInv(r)'
  BY <1>3 DEF JobInv
<1> QED
  BY <1>1, <1>2, <1>3, <1>4, MapsKept

(* The flush of one order of a staff request keeps it.                        *)
LEMMA FlushOneKeeps ==
    ASSUME IInv, TypeOK', NEW r \in Request, FlushOne(r)
    PROVE  IInv'
<1>1. /\ UNCHANGED <<db, orderMap, txMap, intents, claimed>>
      /\ job' = [job EXCEPT ![r].todo = Tail(@)]
      /\ Goto(r, "next_order")
  BY DEF FlushOne
<1>2. IntentsGrow
  BY <1>1, QuietStep
<1>3. pc'[r] = "next_order" /\ OthersWait(r)
  BY <1>1, PlaceFrames DEF IInv, TypeOK, OthersWait, orderMap, txMap
<1>4. JobInv(r)'
  BY <1>3 DEF JobInv
<1> QED
  BY <1>1, <1>2, <1>3, <1>4, MapsKept

(* The transition check keeps it: the status it writes is one step from the   *)
(* status it read, and the order has had that status.                         *)
LEMMA NextOrderKeeps ==
    ASSUME IInv, TypeOK', NEW r \in Request, NextOrder(r)
    PROVE  IInv'
<1>1. /\ UNCHANGED <<db, txMap, intents, claimed>>
      /\ pc[r] = "next_order"
      /\ job[r].todo # <<>>
  BY DEF NextOrder
<1>5. PICK o \in Order : o = Head(job[r].todo)
  BY <1>1 DEF IInv, TypeOK, Job
<1>2. IntentsGrow
  BY <1>1, QuietStep
<1>3. CASE CanTransition(orders[o].status, job[r].to)
  <2>1. /\ Goto(r, "flush_one")
        /\ ReadOrder(r, o, [orders[o] EXCEPT !.status = job[r].to])
        /\ UNCHANGED job
    BY <1>3, <1>5 DEF NextOrder
  <2>2. /\ orders[o] \in OrderRow
        /\ job[r].to \in OrderStatusEnum
    BY <1>1, <1>3
       DEF IInv, TypeOK, CanTransition, ValidTransitions, OrderStatusEnum
  <2>3. PICK now \in OrderRow : now = [orders[o] EXCEPT !.status = job[r].to]
    BY <2>2, ColumnTypes
  <2>4. /\ now.status = job[r].to
        /\ now.payment_status = orders[o].payment_status
        /\ now.payment_method = orders[o].payment_method
    BY <2>2, <2>3 DEF OrderRow
  <2>5. OrderExists(o)
    BY <1>3 DEF CanTransition, ValidTransitions, OrderExists
  <2>6. MayBecome(o, now.status) /\ OrderBacked(now, o)
    BY <1>1, <1>3, <2>4, <2>5 DEF IInv, RowInv, MayBecome, OrderBacked
  <2>7. /\ object'[r][o] = now
        /\ loaded'[r][o] = orders[o]
        /\ pc'[r] = "flush_one"
        /\ OthersWait(r)
        /\ OnlyAt(r, o)
    <3>1. TypeOK /\ ReadOrder(r, o, now)
      BY <2>1, <2>3 DEF IInv
    <3>2. pc'[r] = "flush_one" /\ OthersPlaces(r)
      BY <2>1, <3>1, PlaceFrames DEF OthersPlaces
    <3> QED
      BY <1>1, <3>1, <3>2, ReadOrderFrame
  <2>8. Editing(r, o)'
    BY <1>1, <1>2, <2>4, <2>5, <2>6, <2>7, ReadEditing
  <2>9. TxInv(r, o)'
    BY <1>1, <1>2, <2>5, TxHalfKept DEF txMap
  <2>10. JobInv(r)'
    BY <1>1, <2>1, <2>7 DEF JobInv
  <2> QED
    BY <1>1, <1>2, <2>5, <2>7, <2>8, <2>9, <2>10, ExistingStep DEF OrderInv
<1>4. CASE ~ CanTransition(orders[o].status, job[r].to)
  <2>1. /\ job' = [job EXCEPT ![r].todo = Tail(@)]
        /\ UNCHANGED <<pc, orderMap>>
    BY <1>4, <1>5 DEF NextOrder
  <2>2. pc'[r] = "next_order" /\ OthersWait(r)
    BY <1>1, <2>1 DEF IInv, TypeOK, OthersWait, orderMap, txMap
  <2>3. JobInv(r)'
    BY <2>2 DEF JobInv
  <2> QED
    BY <1>1, <1>2, <2>1, <2>2, <2>3, MapsKept
<1> QED
  BY <1>3, <1>4

(* Requests that start with a read of the order.                              *)
LEMMA ReadOrderKeeps ==
    ASSUME IInv, TypeOK', NEW r \in Request, NEW o \in Order,
           NEW now \in OrderRow, NEW point \in {"flush", "refund_tx"}, NEW j,
           OrderExists(o), Begin(r, point, j), ReadOrder(r, o, now),
           UNCHANGED <<db, txMap, intents, claimed>>,
           j.order = o, point = "refund_tx" => j.amount > 0,
           now.payment_method = orders[o].payment_method,
           now.status = orders[o].status \/ MayBecome(o, now.status),
           OrderBacked(now, o)
    PROVE  IInv'
<1>1. IntentsGrow
  BY QuietStep
<1>2. pc'[r] = point /\ job'[r] = j /\ OthersPlaces(r)
  BY PlaceFrames DEF IInv, OthersPlaces
<1>3. /\ OthersWait(r)
      /\ OnlyAt(r, o)
      /\ object'[r][o] = now
      /\ loaded'[r][o] = orders[o]
  BY <1>2, ReadOrderFrame DEF IInv
<1>4. Editing(r, o)'
  BY <1>1, <1>3, ReadEditing
<1>5. TxInv(r, o)'
  BY <1>1, TxHalfKept DEF txMap
<1>6. JobInv(r)'
  <2>1. TxUntouched(r, o)'
    BY IdleHoldsNothing DEF TxUntouched, txMap, Begin
  <2> QED
    BY <1>2, <1>4, <2>1 DEF JobInv
<1> QED
  BY <1>1, <1>2, <1>3, <1>4, <1>5, <1>6, ExistingStep DEF OrderInv

(* A cash confirmation keeps it: every order was pending first.               *)
LEMMA ConfirmCodKeeps ==
    ASSUME IInv, TypeOK', NEW r \in Request, NEW o \in Order, ConfirmCod(r, o)
    PROVE  IInv'
<1>1. orders[o] \in OrderRow
  BY DEF IInv, TypeOK
<1>2. PICK now \in OrderRow : now = [orders[o] EXCEPT !.payment_status = "completed",
                                                      !.status = "CONFIRMED"]
  BY <1>1, ColumnTypes DEF OrderStatusEnum, PaymentStatus
<1>3. /\ now.status = "CONFIRMED"
      /\ now.payment_method = orders[o].payment_method
  BY <1>1, <1>2 DEF OrderRow
<1>4. OrderExists(o) /\ orders[o].payment_method = "cod"
  BY DEF ConfirmCod
<1>5. "PENDING" \in seen[o]
  BY <1>4 DEF IInv, RowInv
<1>6. MayBecome(o, now.status) /\ OrderBacked(now, o)
  BY <1>3, <1>4, <1>5
     DEF MayBecome, CanTransition, ValidTransitions, OrderBacked, Online
<1> DEFINE j == [NoJob EXCEPT !.order = o]
<1>7. j.order = o
  BY JobColumns
<1>8. /\ Begin(r, "flush", j)
      /\ ReadOrder(r, o, now)
      /\ UNCHANGED <<db, txMap, intents, claimed>>
  BY <1>2 DEF ConfirmCod
<1> HIDE DEF j
<1> QED
  BY <1>3, <1>4, <1>6, <1>7, <1>8, ReadOrderKeeps

(* The start of a refund keeps it.                                            *)
LEMMA ProcessRefundKeeps ==
    ASSUME IInv, TypeOK', NEW r \in Request, NEW o \in Order,
           NEW amount \in 1..Total, ProcessRefund(r, o, amount)
    PROVE  IInv'
<1>1. PICK now \in OrderRow : now = orders[o]
  BY DEF IInv, TypeOK
<1> DEFINE j == [NoJob EXCEPT !.order = o, !.amount = amount]
<1>2. j.order = o /\ j.amount > 0
  BY JobColumns, OrderPaymentsAssumption
<1>3. OrderExists(o) /\ OrderBacked(now, o)
  BY <1>1 DEF ProcessRefund, IInv, RowInv, OrderBacked
<1>4. /\ Begin(r, "refund_tx", j)
      /\ ReadOrder(r, o, now)
      /\ UNCHANGED <<db, txMap, intents, claimed>>
  BY <1>1 DEF ProcessRefund
<1> HIDE DEF j
<1> QED
  BY <1>1, <1>2, <1>3, <1>4, ReadOrderKeeps

(* Requests that start with a read of the transaction.                        *)
LEMMA ReadTxKeeps ==
    ASSUME IInv, TypeOK', NEW r \in Request, NEW o \in Order,
           NEW now \in TxRow, NEW j,
           NEW point \in {"confirm_call", "confirm_order", "stripe_order",
                          "paypal_order", "flush"},
           TxExists(o), Begin(r, point, j), ReadTx(r, o, now),
           UNCHANGED <<db, orderMap, intents>>, claimed \subseteq claimed',
           j.order = o,
           point = "confirm_call" => j.intent \in Intent,
           point \in {"stripe_order", "paypal_order"} => now.status = "completed",
           now.status # "absent", now.method = txs[o].method,
           now.provider_ref = txs[o].provider_ref, now.refunded = txs[o].refunded,
           TxBacked(now, o)'
    PROVE  IInv'
<1>1. IntentsGrow
  BY QuietStep
<1>2. pc'[r] = point /\ job'[r] = j /\ OthersPlaces(r)
  BY PlaceFrames DEF IInv, OthersPlaces
<1>3. /\ OthersWait(r)
      /\ OnlyAt(r, o)
      /\ txObject'[r][o] = now
      /\ loadedTx'[r][o] = txs[o]
      /\ loaded'[r][o] = loaded[r][o]
      /\ object'[r][o] = object[r][o]
  BY <1>2, ReadTxFrame DEF IInv
<1>4. OrderExists(o)
  BY TxHasOrder
<1>5. TxEditing(r, o)' /\ TxInv(r, o)'
  BY <1>1, <1>3, ReadTxEditing
<1>6. OrderInv(r, o)'
  <2>1. ~ ChargedOn(txObject[r][o].provider_ref)
    BY IdleHoldsNothing, OrderPaymentsAssumption
       DEF Begin, TxUntouched, NoTx, ChargedOn
  <2> QED
    BY <1>1, <1>3, <1>4, <2>1, OrderHalfKept
<1>7. JobInv(r)'
  BY <1>2, <1>3, <1>5 DEF JobInv
<1> QED
  BY <1>1, <1>2, <1>3, <1>4, <1>5, <1>6, <1>7, ExistingStep

(* A transaction after its status changed.                                    *)
LEMMA StatusBacked ==
    ASSUME NEW row \in TxRow, NEW o \in Order, TxBacked(row, o)',
           row.status # "absent", NEW st \in {"completed", "failed"},
           st = "completed" => o \in claimed' \/ ChargedOn(row.provider_ref)',
           NEW now, now = [row EXCEPT !.status = st]
    PROVE  /\ now \in TxRow
           /\ now.status = st
           /\ now.method = row.method
           /\ now.provider_ref = row.provider_ref
           /\ now.refunded = row.refunded
           /\ TxBacked(now, o)'
<1>1. now \in TxRow
  BY ColumnTypes DEF PaymentStatus
<1>2. /\ now.status = st
      /\ now.method = row.method
      /\ now.provider_ref = row.provider_ref
      /\ now.refunded = row.refunded
  BY DEF TxRow
<1>3. TxBacked(now, o)'
  BY <1>2 DEF TxBacked
<1> QED
  BY <1>1, <1>2, <1>3

(* A row that was read stays backed while the history grows.                  *)
LEMMA ReadBacked ==
    ASSUME IInv, TypeOK', IntentsGrow, UNCHANGED db, NEW o \in Order,
           NEW row \in TxRow, row = txs[o]
    PROVE  TxBacked(row, o)'
<1>1. RowsGrow
  BY RowsKept DEF IInv
<1> QED
  BY <1>1, StableFacts DEF IInv, RowInv

(* The start of a confirmation keeps it.                                      *)
LEMMA ConfirmPaymentKeeps ==
    ASSUME IInv, TypeOK', NEW r \in Request, NEW o \in Order,
           NEW ref \in Intent \cup {None}, ConfirmPayment(r, o, ref)
    PROVE  IInv'
<1>1. PICK now \in TxRow : now = txs[o]
  BY DEF IInv, TypeOK
<1>3. /\ TxExists(o)
      /\ now.status # "absent"
      /\ ReadTx(r, o, now)
      /\ UNCHANGED <<db, orderMap, intents, claimed>>
  BY <1>1 DEF ConfirmPayment, TxExists
<1>2. TxBacked(now, o)'
  BY <1>1, <1>3, QuietStep, ReadBacked
<1>4. CASE txs[o].method = "cod"
  <2>1. Begin(r, "confirm_order", [NoJob EXCEPT !.order = o])
    BY <1>4 DEF ConfirmPayment
  <2>2. PICK j : j = [NoJob EXCEPT !.order = o]
    OBVIOUS
  <2>3. j.order = o /\ Begin(r, "confirm_order", j)
    BY <2>1, <2>2, JobColumns
  <2> QED
    BY <1>1, <1>2, <1>3, <2>3, ReadTxKeeps
<1>5. CASE txs[o].method # "cod"
  <2>1. /\ ref \in Intent
        /\ Begin(r, "confirm_call", [NoJob EXCEPT !.order = o, !.intent = ref])
    BY <1>5 DEF ConfirmPayment
  <2>2. PICK j : j = [NoJob EXCEPT !.order = o, !.intent = ref]
    OBVIOUS
  <2>3. /\ j.order = o
        /\ j.intent = ref
        /\ Begin(r, "confirm_call", j)
    BY <2>1, <2>2, JobColumns
  <2> QED
    BY <1>1, <1>2, <1>3, <2>1, <2>3, ReadTxKeeps
<1> QED
  BY <1>4, <1>5

(* A provider's event that writes the status of the row it names.             *)
LEMMA EventWrites ==
    ASSUME IInv, TypeOK', NEW r \in Request, NEW o \in Order,
           NEW row \in TxRow, row = txs[o],
           TxExists(o), row.status # "absent",
           UNCHANGED <<db, orderMap, intents>>, claimed \subseteq claimed',
           NEW st \in {"completed", "failed"},
           NEW point \in {"stripe_order", "paypal_order", "flush"},
           NEW j \in Job, j.order = o, Begin(r, point, j),
           ReadTx(r, o, [row EXCEPT !.status = st]),
           point \in {"stripe_order", "paypal_order"} => st = "completed",
           st = "completed" => o \in claimed' \/ ChargedOn(row.provider_ref)'
    PROVE  IInv'
<1>1. TxBacked(row, o)'
  BY QuietStep, ReadBacked
<1>2. PICK now : now = [row EXCEPT !.status = st]
  OBVIOUS
<1>3. /\ now \in TxRow
      /\ now.status = st
      /\ now.method = row.method
      /\ now.provider_ref = row.provider_ref
      /\ now.refunded = row.refunded
      /\ TxBacked(now, o)'
  BY <1>1, <1>2, StatusBacked
<1>4. ReadTx(r, o, now)
  BY <1>2
<1>5. /\ point \in {"confirm_call", "confirm_order", "stripe_order",
                    "paypal_order", "flush"}
      /\ point # "confirm_call"
      /\ point \in {"stripe_order", "paypal_order"} => now.status = "completed"
      /\ now.status # "absent"
      /\ now.method = txs[o].method
      /\ now.provider_ref = txs[o].provider_ref
      /\ now.refunded = txs[o].refunded
  BY <1>3
<1> QED
  BY <1>3, <1>4, <1>5, ReadTxKeeps

(* The start of a provider event keeps it: Stripe's says that the reference   *)
(* was charged, PayPal's is remembered.                                       *)
LEMMA EventKeeps ==
    ASSUME IInv, TypeOK', NEW r \in Request, NEW o \in Order,
           \/ \E i \in Intent : StripeSucceeded(r, i, o) \/ StripeFailed(r, i, o)
           \/ PaypalEvent(r, o)
    PROVE  IInv'
<1>1. PICK row \in TxRow : row = txs[o]
  BY DEF IInv, TypeOK
<1>2. /\ UNCHANGED <<db, orderMap, intents>>
      /\ claimed \subseteq claimed'
  BY DEF StripeSucceeded, StripeFailed, PaypalEvent
<1>4. TxExists(o) /\ row.status # "absent"
  <2>1. ASSUME NEW i \in Intent, row.provider_ref = i PROVE row # NoTx
    BY <2>1, OrderPaymentsAssumption DEF NoTx
  <2>2. row.status = "absent" => row = NoTx
    BY <1>1 DEF IInv, RowInv, TxBacked
  <2> QED
    BY <1>1, <2>1, <2>2 DEF StripeSucceeded, StripeFailed, PaypalEvent, TxExists
<1>5. ASSUME NEW i \in Intent, StripeSucceeded(r, i, o) PROVE IInv'
  <2>1. PICK b \in BOOLEAN :
            Begin(r, "stripe_order", [NoJob EXCEPT !.order = o, !.touch = b])
    BY <1>5 DEF StripeSucceeded
  <2>2. PICK j \in Job : j = [NoJob EXCEPT !.order = o, !.touch = b]
    BY JobTypes
  <2>3. Begin(r, "stripe_order", j) /\ j.order = o
    BY <2>1, <2>2, JobColumns
  <2>4. /\ ReadTx(r, o, [row EXCEPT !.status = "completed"])
        /\ ChargedOn(row.provider_ref)'
    BY <1>1, <1>2, <1>5 DEF StripeSucceeded, ChargedOn
  <2> QED
    BY <1>1, <1>2, <1>4, <2>3, <2>4, EventWrites
<1>6. ASSUME NEW i \in Intent, StripeFailed(r, i, o) PROVE IInv'
  <2>1. PICK b \in BOOLEAN :
            Begin(r, "flush", [NoJob EXCEPT !.order = o, !.touch = b])
    BY <1>6 DEF StripeFailed
  <2>2. PICK j \in Job : j = [NoJob EXCEPT !.order = o, !.touch = b]
    BY JobTypes
  <2>3. Begin(r, "flush", j) /\ j.order = o
    BY <2>1, <2>2, JobColumns
  <2>4. ReadTx(r, o, [row EXCEPT !.status = "failed"])
    BY <1>1, <1>6 DEF StripeFailed
  <2> QED
    BY <1>1, <1>2, <1>4, <2>3, <2>4, EventWrites
<1>7. CASE PaypalEvent(r, o)
  <2>1. PICK j \in Job : j = [NoJob EXCEPT !.order = o]
    BY JobTypes
  <2>2. Begin(r, "paypal_order", j) /\ j.order = o
    BY <1>7, <2>1, JobColumns DEF PaypalEvent
  <2>3. /\ ReadTx(r, o, [row EXCEPT !.status = "completed"])
        /\ o \in claimed'
    BY <1>1, <1>7 DEF PaypalEvent
  <2> QED
    BY <1>1, <1>2, <1>4, <2>2, <2>3, EventWrites
<1> QED
  BY <1>5, <1>6, <1>7

(* A request that goes on with the transaction it holds.                      *)
LEMMA SetTxKeeps ==
    ASSUME IInv, TypeOK', IntentsGrow,
           NEW r \in Request, NEW o \in Order, NEW now \in TxRow,
           TxEditing(r, o), job'[r].order = o, OthersPlaces(r),
           pc'[r] = "confirm_order", SetTx(r, o, now),
           UNCHANGED <<db, orderMap, loadedTx>>,
           now.status # "absent", now.method = txObject[r][o].method,
           \/ now.provider_ref = txObject[r][o].provider_ref
           \/ ChargedOn(now.provider_ref)',
           now.refunded = txObject[r][o].refunded,
           TxBacked(now, o)'
    PROVE  IInv'
<1>1. /\ OthersWait(r)
      /\ OnlyAt(r, o)
      /\ txObject'[r][o] = now
      /\ loadedTx'[r][o] = loadedTx[r][o]
      /\ loaded'[r][o] = loaded[r][o]
      /\ object'[r][o] = object[r][o]
  BY SetTxFrame DEF IInv
<1>2. OrderExists(o)
  BY TxHasOrder DEF TxEditing
<1>7. RowsGrow /\ TypeOK
  BY RowsKept DEF IInv
<1>8. \A ref : ChargedOn(ref) => ChargedOn(ref)'
  BY <1>7, StableFacts
<1>3. OrderInv(r, o)'
  <2>1. ChargedOn(txObject[r][o].provider_ref) =>
            ChargedOn(txObject[r][o].provider_ref)'
    BY <1>1, <1>8 DEF ChargedOn
  <2> QED
    BY <1>1, <1>2, <2>1, OrderHalfKept
<1>4. TxEditing(r, o)'
  <2>1. txObject[r][o].refunded > 0 => now.refunded > 0
    OBVIOUS
  <2>2. loadedTx[r][o].refunded > 0 => now.refunded > 0 /\ txs[o].refunded > 0
    BY <2>1 DEF TxEditing
  <2>3. \/ now.provider_ref = loadedTx[r][o].provider_ref
        \/ ChargedOn(now.provider_ref)'
    BY <1>8 DEF TxEditing
  <2>4. loadedTx[r][o].provider_ref \in Intent => now.provider_ref \in Intent
    BY DEF TxEditing, ChargedOn
  <2>5. txs[o].provider_ref = loadedTx[r][o].provider_ref \/ Charged(o)'
    BY <1>7 DEF TxEditing, RowsGrow
  <2>7. TxExists(o)' /\ txs' = txs
    BY DEF TxEditing, TxExists, db
  <2> QED
    BY <1>1, <2>2, <2>3, <2>4, <2>5, <2>7 DEF TxEditing, ChargedOn
<1>5. TxInv(r, o)'
  <2>1. PICK was \in TxRow : was = loadedTx[r][o]
    BY DEF IInv, TypeOK
  <2>2. RowsGrow
    BY RowsKept DEF IInv
  <2>3. TxBacked(was, o)'
    BY <2>1, <2>2, StableFacts DEF IInv, SessionInv, TxInv, TxBacked
  <2>4. TxBacked(loadedTx[r][o], o)' /\ TxBacked(txObject[r][o], o)'
    BY <1>1, <2>1, <2>3 DEF TxBacked
  <2> QED
    BY <1>4, <2>4 DEF TxInv
<1>6. JobInv(r)'
  BY <1>4 DEF JobInv
<1> QED
  BY <1>1, <1>2, <1>3, <1>5, <1>6, ExistingStep

(* The provider's answer to a confirmation keeps it: a success is about a     *)
(* charged intent.                                                            *)
LEMMA ConfirmKeeps ==
    ASSUME IInv, TypeOK', NEW r \in Request, ConfirmStripe(r) \/ ConfirmPaypal(r)
    PROVE  IInv'
<1>1. SessionInv(r) /\ pc[r] = "confirm_call"
  BY DEF IInv, ConfirmStripe, ConfirmPaypal
<1>2. IntentsGrow
  <2>1. CASE ConfirmStripe(r)
    BY <2>1, QuietStep DEF ConfirmStripe
  <2>2. CASE ConfirmPaypal(r)
    BY <1>1, <2>2, ProviderStep DEF IInv
  <2> QED
    BY <2>1, <2>2
<1>3. PICK o \in Order, i \in Intent :
          /\ job[r].order = o
          /\ job[r].intent = i
          /\ TxEditing(r, o)
  BY <1>1 DEF SessionInv, JobInv
<1>4. PICK row \in TxRow : row = txObject[r][o]
  BY DEF IInv, TypeOK
<1>5. /\ TxBacked(row, o)
      /\ row.status # "absent"
      /\ row.method = loadedTx[r][o].method
  BY <1>1, <1>3, <1>4 DEF SessionInv, TxInv, TxBacked, TxEditing
<1>6. RowsGrow
  BY <1>2, RowsKept DEF IInv, ConfirmStripe, ConfirmPaypal
<1>7. TxBacked(row, o)'
  BY <1>2, <1>5, <1>6, StableFacts DEF IInv
<1>8. /\ UNCHANGED <<db, orderMap, loadedTx>>
      /\ pc'[r] = "confirm_order"
      /\ \A q \in Request \ {r} : pc'[q] = pc[q]
  BY PlaceFrames DEF ConfirmStripe, ConfirmPaypal, IInv
<1>9. CASE ConfirmFailed(r)
  <2>1. PICK now \in TxRow : now = [row EXCEPT !.status = "failed"]
    BY ColumnTypes DEF PaymentStatus
  <2>2. /\ now.status = "failed"
        /\ now.method = row.method
        /\ now.provider_ref = row.provider_ref
        /\ now.refunded = row.refunded
    BY <2>1 DEF TxRow
  <2>3. TxBacked(now, o)'
    BY <1>7, <2>2 DEF TxBacked
  <2>4. SetTx(r, o, now)
    BY <1>3, <1>4, <1>9, <2>1 DEF ConfirmFailed
  <2>5. job'[r].order = o /\ OthersPlaces(r)
    <3>1. job[r] \in Job
      BY DEF IInv, TypeOK
    <3>2. PICK b \in BOOLEAN : job' = [job EXCEPT ![r].touch = b]
      BY <1>9 DEF ConfirmFailed
    <3> QED
      BY <1>3, <1>8, <3>1, <3>2 DEF OthersPlaces, IInv, TypeOK, Job
  <2> QED
    BY <1>2, <1>3, <1>4, <1>8, <2>2, <2>3, <2>4, <2>5, SetTxKeeps
<1>10. CASE ConfirmSucceeded(r)
  <2>1. PICK now \in TxRow : now = [row EXCEPT !.status = "completed",
                                               !.provider_ref = i]
    BY ColumnTypes DEF PaymentStatus
  <2>2. /\ now.status = "completed"
        /\ now.method = row.method
        /\ now.provider_ref = i
        /\ now.refunded = row.refunded
    BY <2>1 DEF TxRow
  <2>3. SetTx(r, o, now) /\ UNCHANGED job
    BY <1>3, <1>4, <1>10, <2>1 DEF ConfirmSucceeded
  <2>4. job'[r].order = o /\ OthersPlaces(r)
    BY <1>3, <1>8, <2>3 DEF OthersPlaces
  <2>6. intents'[i].status = "succeeded"
    <3>1. ~ (txObject'[r][o].status = "failed")
      BY <1>8, <2>2, <2>3, SetFrames DEF IInv
    <3>2. ~ ConfirmFailed(r)
      <4>1. SUFFICES ASSUME ConfirmFailed(r) PROVE FALSE
        OBVIOUS
      <4>2. SetTx(r, o, [row EXCEPT !.status = "failed"])
        BY <1>3, <1>4, <4>1 DEF ConfirmFailed
      <4>3. txObject'[r][o] = [row EXCEPT !.status = "failed"]
        BY <4>2, SetFrames DEF IInv
      <4> QED
        BY <3>1, <4>3 DEF TxRow
    <3>3. CASE ConfirmStripe(r)
      BY <1>3, <3>2, <3>3 DEF ConfirmStripe
    <3>4. CASE ConfirmPaypal(r)
      <4>1. intents' = [intents EXCEPT ![i].status = "succeeded"]
        BY <1>3, <3>2, <3>4 DEF ConfirmPaypal
      <4> QED
        BY <4>1 DEF IInv, TypeOK, IntentRow
    <3> QED
      BY <3>3, <3>4
  <2>5. ChargedOn(now.provider_ref)'
    BY <2>2, <2>6 DEF ChargedOn
  <2>7. TxBacked(now, o)'
    BY <1>7, <2>2, <2>5 DEF TxBacked
  <2> QED
    BY <1>2, <1>3, <1>4, <1>8, <2>2, <2>3, <2>4, <2>5, <2>7, SetTxKeeps
<1> QED
  BY <1>9, <1>10 DEF ConfirmStripe, ConfirmPaypal

(* A request that goes on with the order of a transaction it holds.           *)
LEMMA FollowKeeps ==
    ASSUME IInv, TypeOK', NEW r \in Request,
           ConfirmOrder(r) \/ StripeOrder(r) \/ PaypalOrder(r)
    PROVE  IInv'
<1>1. SessionInv(r) /\ pc[r] \in {"confirm_order", "stripe_order", "paypal_order"}
  BY DEF IInv, ConfirmOrder, StripeOrder, PaypalOrder
<1>2. /\ UNCHANGED <<db, job, txMap, intents, claimed>>
      /\ pc'[r] = "flush"
      /\ OthersPlaces(r)
  BY PlaceFrames DEF ConfirmOrder, StripeOrder, PaypalOrder, IInv, OthersPlaces
<1>3. IntentsGrow
  BY <1>2, QuietStep
<1>4. PICK o \in Order : job[r].order = o /\ TxEditing(r, o)
  BY <1>1 DEF SessionInv, JobInv
<1>5. OrderExists(o)
  BY <1>4, TxHasOrder DEF TxEditing
<1>6. PICK row \in OrderRow : row = orders[o]
  BY DEF IInv, TypeOK
<1>7. OrderBacked(row, o) /\ row.status \in seen[o]
  BY <1>5, <1>6 DEF IInv, RowInv, OrderBacked
<1>8. PICK now \in OrderRow :
          /\ ReadOrder(r, o, now)
          /\ \/ /\ now = ApplyPayment(row)
                /\ txObject[r][o].status = "completed"
             \/ now = [row EXCEPT !.payment_status = "failed"]
  <2>1. ApplyPayment(row) \in OrderRow
    BY ApplyPaymentType
  <2>2. [row EXCEPT !.payment_status = "failed"] \in OrderRow
    BY ColumnTypes DEF PaymentStatus
  <2>3. CASE ConfirmOrder(r)
    BY <1>4, <1>6, <2>1, <2>2, <2>3 DEF ConfirmOrder
  <2>4. CASE StripeOrder(r) \/ PaypalOrder(r)
    <3>1. txObject[r][o].status = "completed"
      BY <1>1, <1>4, <2>4 DEF SessionInv, JobInv, StripeOrder, PaypalOrder
    <3> QED
      BY <1>4, <1>6, <2>1, <2>4, <3>1 DEF StripeOrder, PaypalOrder
  <2> QED
    BY <2>3, <2>4
<1>9. /\ now.payment_method = row.payment_method
      /\ now.status = row.status \/ MayBecome(o, now.status)
      /\ OrderBacked(now, o) \/ ChargedOn(txObject[r][o].provider_ref)
  <2>1. CASE now = [row EXCEPT !.payment_status = "failed"]
    BY <2>1 DEF OrderRow, OrderBacked
  <2>2. CASE now = ApplyPayment(row) /\ txObject[r][o].status = "completed"
    <3>1. /\ now.payment_method = row.payment_method
          /\ \/ now.status = row.status
             \/ row.status = "PENDING" /\ now.status = "CONFIRMED"
      BY <2>2 DEF ApplyPayment, OrderRow
    <3>2. o \in claimed \/ ChargedOn(txObject[r][o].provider_ref)
      BY <1>1, <2>2 DEF SessionInv, TxInv, TxBacked
    <3> QED
      BY <1>7, <3>1, <3>2
         DEF MayBecome, CanTransition, ValidTransitions, OrderBacked
  <2> QED
    BY <1>8, <2>1, <2>2
<1>10. /\ OthersWait(r)
       /\ OnlyAt(r, o)
       /\ object'[r][o] = now
       /\ loaded'[r][o] = orders[o]
  BY <1>2, <1>8, ReadOrderFrame DEF IInv
<1>11. OrderInv(r, o)'
  <2>1. txObject'[r][o] = txObject[r][o]
    BY <1>2 DEF txMap
  <2> QED
    BY <1>2, <1>3, <1>5, <1>6, <1>9, <1>10, <2>1, ReadEditing DEF OrderInv
<1>12. TxInv(r, o)'
  BY <1>2, <1>3, <1>5, TxHalfKept DEF txMap
<1>13. JobInv(r)'
  BY <1>2, <1>4 DEF JobInv
<1> QED
  BY <1>2, <1>3, <1>5, <1>10, <1>11, <1>12, <1>13, ExistingStep

(* Finding the completed transaction to refund keeps it.                      *)
LEMMA RefundReadTxKeeps ==
    ASSUME IInv, TypeOK', NEW r \in Request, RefundReadTx(r)
    PROVE  IInv'
<1>1. SessionInv(r) /\ pc[r] = "refund_tx"
  BY DEF IInv, RefundReadTx
<1>2. PICK o \in Order : /\ job[r].order = o
                         /\ Editing(r, o)
                         /\ job[r].amount > 0
                         /\ TxUntouched(r, o)
  BY <1>1 DEF SessionInv, JobInv
<1>3. PICK now \in TxRow : now = txs[o]
  BY DEF IInv, TypeOK
<1>4. /\ UNCHANGED <<db, job, orderMap, intents, claimed>>
      /\ now.status = "completed"
      /\ ReadTx(r, o, now)
      /\ Goto(r, "refund_call")
  BY <1>2, <1>3 DEF RefundReadTx
<1>5. pc'[r] = "refund_call" /\ OthersPlaces(r)
  BY <1>4, PlaceFrames DEF IInv, OthersPlaces
<1>6. IntentsGrow
  BY <1>4, QuietStep
<1>7. /\ OthersWait(r)
      /\ OnlyAt(r, o)
      /\ txObject'[r][o] = now
      /\ loadedTx'[r][o] = now
      /\ loaded'[r][o] = loaded[r][o]
      /\ object'[r][o] = object[r][o]
  BY <1>3, <1>4, <1>5, ReadTxFrame DEF IInv
<1>8. OrderExists(o) /\ TxExists(o)
  BY <1>2, <1>3, <1>4 DEF Editing, TxExists
<1>9. Editing(r, o)' /\ OrderInv(r, o)'
  <2>1. ~ ChargedOn(txObject[r][o].provider_ref)
    BY <1>2, OrderPaymentsAssumption DEF TxUntouched, NoTx, ChargedOn
  <2> QED
    BY <1>2, <1>4, <1>6, <1>7, <1>8, <2>1, OrderHalfKept
<1>10. TxBacked(now, o)'
  BY <1>3, <1>4, <1>6, ReadBacked
<1>11. TxEditing(r, o)' /\ TxInv(r, o)'
  BY <1>3, <1>4, <1>6, <1>7, <1>8, <1>10, ReadTxEditing
<1>12. JobInv(r)'
  BY <1>2, <1>4, <1>5, <1>7, <1>9, <1>11 DEF JobInv
<1> QED
  BY <1>4, <1>5, <1>6, <1>7, <1>8, <1>9, <1>11, <1>12, ExistingStep

(* A Stripe refund keeps it: the amount is given back before it is recorded.  *)
LEMMA RefundStripeKeeps ==
    ASSUME IInv, TypeOK', NEW r \in Request, RefundStripe(r)
    PROVE  IInv'
<1>1. SessionInv(r) /\ pc[r] = "refund_call"
  <2>1. SessionInv(r)
    BY DEF IInv
  <2>2. pc[r] = "refund_call"
    BY Zenon DEF RefundStripe
  <2> QED
    BY <2>1, <2>2
<1>2. PICK o \in Order : /\ job[r].order = o
                         /\ Editing(r, o)
                         /\ job[r].amount > 0
                         /\ loadedTx[r][o].status = "completed"
                         /\ TxEditing(r, o)
  BY <1>1 DEF SessionInv, JobInv
<1>3. PICK amount \in 1..Total : amount = job[r].amount
  BY <1>2, OrderPaymentsAssumption DEF IInv, TypeOK, Job
<1>4. IntentsGrow
  BY <1>1, ProviderStep DEF IInv
<1>5. PICK tx \in TxRow, order \in OrderRow, was \in TxRow :
          tx = txObject[r][o] /\ order = object[r][o] /\ was = loadedTx[r][o]
  BY DEF IInv, TypeOK
<1>6. PICK newTx \in TxRow :
          newTx = [tx EXCEPT !.status = "refunded", !.refunded = amount]
  <2>1. PICK mid \in TxRow : mid = [tx EXCEPT !.status = "refunded"]
    BY ColumnTypes DEF PaymentStatus
  <2>2. amount \in 0..Total
    BY OrderPaymentsAssumption
  <2>3. [mid EXCEPT !.refunded = amount] \in TxRow
    BY <2>2, ColumnTypes
  <2>4. [mid EXCEPT !.refunded = amount]
            = [tx EXCEPT !.status = "refunded", !.refunded = amount]
    BY <2>1 DEF TxRow
  <2> QED
    BY <2>3, <2>4
<1>7. PICK newOrder \in OrderRow : newOrder = [order EXCEPT !.status = "REFUNDED"]
  BY ColumnTypes DEF OrderStatusEnum
<1>8. /\ UNCHANGED <<db, job, loaded, loadedTx>>
      /\ SetTx(r, o, newTx)
      /\ SetOrder(r, o, newOrder)
      /\ Goto(r, "flush_order")
  BY <1>2, <1>3, <1>5, <1>6, <1>7 DEF RefundStripe
<1>9. pc'[r] = "flush_order" /\ OthersPlaces(r)
  BY <1>8, PlaceFrames DEF IInv, OthersPlaces
<1>10. /\ OthersWait(r)
       /\ OnlyAt(r, o)
       /\ object'[r][o] = newOrder
       /\ txObject'[r][o] = newTx
  BY <1>8, <1>9, SetBothFrame DEF IInv
<1>11. RowsGrow
  BY <1>4, <1>8, RowsKept DEF IInv
<1>12. PICK i \in Intent : was.provider_ref = i
  BY <1>2, <1>5 DEF RefundStripe, TxRow
<1>13. amount <= intents'[i].given[o] /\ intents'[i].given[o] > 0
  <2>1. intents[i].refunded + amount <= Total
    BY <1>2, <1>3, <1>5, <1>12 DEF RefundStripe
  <2>2. PICK row \in IntentRow :
            /\ row = AfterRefund(intents[i], o, amount)
            /\ row.given[o] = intents[i].given[o] + amount
    BY <2>1, AfterRefundType, OrderPaymentsAssumption DEF IInv, TypeOK
  <2>3. intents' = [intents EXCEPT ![i] = row]
    BY <1>2, <1>3, <1>5, <1>12, <2>2 DEF RefundStripe, AfterRefund
  <2>4. intents'[i].given[o] = intents[i].given[o] + amount
    BY <2>2, <2>3 DEF IInv, TypeOK
  <2>5. intents[i].given[o] \in Nat
    BY DEF IInv, TypeOK, IntentRow
  <2> QED
    BY <2>4, <2>5, OrderPaymentsAssumption
<1>14. GivenBack(o, amount)' /\ o \in Repaid'
  BY <1>13 DEF GivenBack, Repaid
<1>15. Editing(r, o)'
  <2>1. /\ newOrder.status = "REFUNDED"
        /\ newOrder.payment_status = order.payment_status
        /\ newOrder.payment_method = order.payment_method
    BY <1>7 DEF OrderRow
  <2>2. OrderBacked(order, o)' \/ ChargedOn(tx.provider_ref)'
    BY <1>2, <1>4, <1>5, <1>11, StableFacts DEF IInv, Editing, OrderBacked
  <2>3. newTx.provider_ref = tx.provider_ref
    BY <1>6 DEF TxRow
  <2>4. OrderBacked(newOrder, o)' \/ ChargedOn(newTx.provider_ref)'
    BY <2>1, <2>2, <2>3 DEF OrderBacked
  <2>5. OrderBacked(object[r][o], o)' \/ ChargedOn(txObject[r][o].provider_ref)'
    BY <1>10, <2>4 DEF OrderBacked
  <2>6. MayBecome(o, newOrder.status)'
    BY <1>14, <2>1 DEF MayBecome
  <2> QED
    BY <1>2, <1>5, <1>8, <1>10, <2>1, <2>5, <2>6
       DEF Editing, OrderExists, MayBecome, db
<1>16. /\ newTx.status = "refunded"
       /\ newTx.refunded = amount
       /\ newTx.method = tx.method
       /\ newTx.provider_ref = tx.provider_ref
  BY <1>6 DEF TxRow
<1>17. TxEditing(r, o)'
  <2>1. newTx.refunded > 0
    BY <1>16, OrderPaymentsAssumption
  <2>2. \/ newTx.provider_ref = was.provider_ref
        \/ ChargedOn(newTx.provider_ref)'
    BY <1>2, <1>4, <1>5, <1>11, <1>16, StableFacts DEF IInv, TxEditing
  <2>3. txs[o].provider_ref = was.provider_ref \/ Charged(o)'
    BY <1>2, <1>5, <1>11 DEF TxEditing, RowsGrow
  <2> QED
    BY <1>2, <1>5, <1>8, <1>10, <1>16, <2>1, <2>2, <2>3
       DEF TxEditing, TxExists, ChargedOn, db
<1>18. TxInv(r, o)'
  <2>1. TxBacked(tx, o)' /\ TxBacked(was, o)'
    BY <1>1, <1>4, <1>5, <1>11, StableFacts DEF IInv, SessionInv, TxInv, TxBacked
  <2>2. TxBacked(newTx, o)'
    <3>1. newTx.refunded > 0
      BY <1>16, OrderPaymentsAssumption
    <3>2. GivenBack(o, newTx.refunded)'
      BY <1>14, <1>16 DEF GivenBack
    <3> QED
      BY <1>16, <2>1, <3>1, <3>2 DEF TxBacked
  <2>3. TxBacked(loadedTx[r][o], o)' /\ TxBacked(txObject[r][o], o)'
    BY <1>5, <1>8, <1>10, <2>1, <2>2 DEF TxBacked
  <2> QED
    BY <1>17, <2>3 DEF TxInv
<1>19. JobInv(r)'
  BY <1>2, <1>8, <1>9 DEF JobInv
<1>20. OrderExists(o)
  BY <1>2 DEF Editing
<1> QED
  BY <1>4, <1>8, <1>9, <1>10, <1>15, <1>18, <1>19, <1>20, ExistingStep DEF OrderInv

(* The refund's first UPDATE keeps it.                                        *)
LEMMA RefundFlushKeeps ==
    ASSUME IInv, TypeOK', NEW r \in Request, RefundFlushOrder(r)
    PROVE  IInv'
<1>1. /\ UNCHANGED <<db, job, orderMap, txMap, intents, claimed>>
      /\ pc[r] = "flush_order"
      /\ Goto(r, "flush")
  BY DEF RefundFlushOrder
<1>2. IntentsGrow
  BY <1>1, QuietStep
<1>3. pc'[r] = "flush" /\ OthersWait(r)
  BY <1>1, PlaceFrames DEF IInv, OthersWait, orderMap, txMap
<1>4. JobInv(r)'
  <2>1. job[r].order \in Order
    BY <1>1 DEF IInv, SessionInv, JobInv
  <2> QED
    BY <1>1, <1>3, <2>1 DEF JobInv
<1> QED
  BY <1>1, <1>2, <1>3, <1>4, MapsKept

(* The checkout's intent, and the transaction that goes with it.              *)
LEMMA CheckoutIntentKeeps ==
    ASSUME IInv, TypeOK', NEW r \in Request, CheckoutIntent(r)
    PROVE  IInv'
<1>1. SessionInv(r) /\ pc[r] = "intent"
  BY DEF IInv, CheckoutIntent
<1>2. PICK o \in Order : /\ job[r].order = o
                         /\ Placing(r, o)
                         /\ loadedTx[r][o] = NoTx
  BY <1>1 DEF SessionInv, JobInv
<1>3. PICK m \in {"stripe", "paypal"} : m = object[r][o].payment_method
  BY <1>2 DEF CheckoutIntent
<1>4. /\ UNCHANGED <<db, job, orderMap, loadedTx, claimed>>
      /\ Goto(r, "clear_cart")
  BY DEF CheckoutIntent
<1>5. pc'[r] = "clear_cart" /\ OthersPlaces(r)
  BY <1>4, PlaceFrames DEF IInv, OthersPlaces
<1>6. job[r].cart \in Cart
  BY <1>1 DEF SessionInv, JobInv
<1>7. /\ IntentsGrow
      /\ \E st \in {"pending", "failed"}, ref \in Intent \cup {None} :
            /\ SetTx(r, o, NewTx(m, st, ref))
            /\ ref \in Intent => m = "paypal"
  <2>1. ASSUME NEW i \in Intent, OpenIntent(i, m),
               SetTx(r, o, NewTx(m, "pending", IF m = "paypal" THEN i ELSE None))
        PROVE  <1>7!:
    <3>1. IntentsGrow
      BY <1>4, <2>1, OpenIntentStep DEF IInv, PaymentMethod
    <3>2. CASE m = "paypal"
      BY <2>1, <3>1, <3>2
    <3>3. CASE m = "stripe"
      BY <2>1, <3>1, <3>3, OrderPaymentsAssumption
    <3> QED
      BY <3>2, <3>3
  <2>2. ASSUME UNCHANGED intents, NEW st \in {"pending", "failed"},
               SetTx(r, o, NewTx(m, st, None))
        PROVE  <1>7!:
    <3>1. IntentsGrow
      BY <1>4, <2>2, QuietStep
    <3> QED
      BY <2>2, <3>1, OrderPaymentsAssumption
  <2> QED
    BY <1>2, <1>3, <2>1, <2>2 DEF CheckoutIntent
<1>8. PICK st \in {"pending", "failed"}, ref \in Intent \cup {None} :
          /\ SetTx(r, o, NewTx(m, st, ref))
          /\ ref \in Intent => m = "paypal"
  BY <1>7
<1>16. PICK tx : tx = NewTx(m, st, ref)
  OBVIOUS
<1>9. /\ tx.method = m
      /\ tx.status = st
      /\ tx.provider_ref = ref
      /\ tx.refunded = 0
  BY <1>16 DEF NewTx
<1>10. /\ OthersWait(r)
       /\ OnlyAt(r, o)
       /\ txObject'[r][o] = tx
       /\ loadedTx'[r][o] = NoTx
       /\ object'[r][o] = object[r][o]
       /\ loaded'[r][o] = loaded[r][o]
  BY <1>2, <1>4, <1>5, <1>8, <1>16, SetTxFrame DEF IInv
<1>11. Placing(r, o)'
  BY <1>2, <1>4 DEF Placing, OrderExists, db, orderMap
<1>12. TxInv(r, o)'
  <2>1. TxBacked(loadedTx[r][o], o)'
    BY <1>10, OrderPaymentsAssumption DEF TxBacked, NoTx
  <2>2. TxBacked(txObject[r][o], o)'
    BY <1>8, <1>9, <1>10 DEF TxBacked
  <2> QED
    BY <1>10, <1>11, <2>1, <2>2 DEF TxInv, TxPlacing
<1>13. JobInv(r)'
  BY <1>2, <1>4, <1>5, <1>6 DEF JobInv
<1>14. SessionInv(r)'
  BY <1>4, <1>7, <1>10, <1>11, <1>12, <1>13, OnlyAtSession DEF OrderInv
<1> QED
  BY <1>4, <1>7, <1>10, <1>14, SessionStep DEF orderMap

(* The session of r is closed.                                                *)
LEMMA Ended ==
    ASSUME IInv, NEW r \in Request, EndRequest(r)
    PROVE  /\ OthersWait(r)
           /\ pc'[r] = "idle"
           /\ \A o \in Order : /\ loaded'[r][o] = NoOrder
                               /\ object'[r][o] = NoOrder
                               /\ loadedTx'[r][o] = NoTx
                               /\ txObject'[r][o] = NoTx
           /\ SessionInv(r)'
<1>1. OthersWait(r) /\ pc'[r] = "idle"
  BY DEF IInv, TypeOK, EndRequest, OthersWait
<1>2. \A o \in Order : /\ loaded'[r][o] = NoOrder
                       /\ object'[r][o] = NoOrder
                       /\ loadedTx'[r][o] = NoTx
                       /\ txObject'[r][o] = NoTx
  BY DEF IInv, TypeOK, EndRequest
<1>3. JobInv(r)'
  BY <1>1, <1>2 DEF JobInv, Untouched, TxUntouched
<1>4. ASSUME NEW o \in Order PROVE OrderInv(r, o)' /\ TxInv(r, o)'
  <2>1. TxBacked(loadedTx[r][o], o)' /\ TxBacked(txObject[r][o], o)'
    BY <1>2, OrderPaymentsAssumption DEF TxBacked, NoTx
  <2> QED
    BY <1>2, <2>1 DEF OrderInv, TxInv, Untouched, TxUntouched
<1> QED
  BY <1>1, <1>2, <1>3, <1>4 DEF SessionInv

(* Closing a session without a commit keeps it.                               *)
LEMMA EndKeeps ==
    ASSUME IInv, TypeOK', NEW r \in Request,
           Rollback(r) \/ DeadlockVictim(r) \/ RefundRefused(r)
    PROVE  IInv'
<1>1. EndRequest(r) /\ UNCHANGED <<db, intents, claimed>>
  BY DEF Rollback, DeadlockVictim, RefundRefused
<1>2. IntentsGrow
  BY <1>1, QuietStep
<1>3. /\ OthersWait(r)
      /\ \A o \in Order : object'[r][o].status = "absent"
      /\ SessionInv(r)'
  BY <1>1, Ended DEF NoOrder
<1> QED
  BY <1>1, <1>2, <1>3, SessionStep

--------------------------------------------------------------------------------
(* The commit                                                                 *)

(* What a commit makes of the row of one order, by what the session holds.    *)
LEMMA CommitOrder ==
    ASSUME IInv, TypeOK', NEW r \in Request, Commit(r), NEW o \in Order
    PROVE  /\ Untouched(r, o) => orders'[o] = orders[o]
           /\ Placing(r, o) => orders'[o] = object[r][o]
           /\ Editing(r, o) =>
                /\ orders'[o].status # "absent"
                /\ \/ orders'[o].status = orders[o].status
                   \/ MayBecome(o, orders'[o].status)
                /\ orders'[o].payment_method = orders[o].payment_method
                /\ \/ OrderBacked(orders'[o], o)
                   \/ ChargedOn(txObject[r][o].provider_ref)
           /\ seen'[o] = seen[o] \cup ({orders'[o].status} \ {"absent"})
<1>1. PICK row \in OrderRow, was \in OrderRow, now \in OrderRow :
          row = orders[o] /\ was = loaded[r][o] /\ now = object[r][o]
  BY DEF IInv, TypeOK
<1>2. orders'[o] = MergeOrder(row, was, now)
  BY <1>1 DEF Commit
<1>3. /\ orders'[o].status = Column(row.status, was.status, now.status)
      /\ orders'[o].payment_status =
            Column(row.payment_status, was.payment_status, now.payment_status)
      /\ orders'[o].payment_method =
            Column(row.payment_method, was.payment_method, now.payment_method)
      /\ orders'[o] \in OrderRow
  BY <1>2, MergeType DEF MergeOrder
<1>4. Untouched(r, o) => orders'[o] = orders[o]
  BY <1>1, <1>3 DEF Untouched, Column, OrderRow
<1>5. Placing(r, o) => orders'[o] = object[r][o]
  <2> SUFFICES ASSUME Placing(r, o) PROVE orders'[o] = object[r][o]
    OBVIOUS
  <2>1. row = NoOrder /\ was = NoOrder
    BY <1>1 DEF Placing, IInv, RowInv
  <2> QED
    BY <1>1, <1>3, <2>1 DEF Column, OrderRow
<1>6. ASSUME Editing(r, o)
      PROVE  /\ orders'[o].status # "absent"
             /\ \/ orders'[o].status = orders[o].status
                \/ MayBecome(o, orders'[o].status)
             /\ orders'[o].payment_method = orders[o].payment_method
             /\ \/ OrderBacked(orders'[o], o)
                \/ ChargedOn(txObject[r][o].provider_ref)
  <2>1. /\ row.status # "absent"
        /\ now.payment_method = row.payment_method
        /\ was.payment_method = row.payment_method
        /\ now.status = was.status \/ MayBecome(o, now.status)
        /\ OrderBacked(now, o) \/ ChargedOn(txObject[r][o].provider_ref)
        /\ OrderBacked(row, o)
    BY <1>1, <1>6 DEF Editing, OrderExists, IInv, RowInv, OrderBacked
  <2>2. MayBecome(o, now.status) => now.status # "absent"
    BY DEF MayBecome, CanTransition, ValidTransitions
  <2> QED
    BY <1>1, <1>3, <2>1, <2>2 DEF Column, OrderBacked
<1>7. seen'[o] = seen[o] \cup ({orders'[o].status} \ {"absent"})
  BY DEF Commit
<1> QED
  BY <1>4, <1>5, <1>6, <1>7

(* After a commit every transaction is backed, the columns another request    *)
(* wrote meanwhile included.                                                  *)
LEMMA CommitTx ==
    ASSUME IInv, TypeOK', NEW r \in Request, Commit(r), NEW o \in Order
    PROVE  /\ TxUntouched(r, o) => txs'[o] = txs[o]
           /\ TxPlacing(r, o) => txs'[o] = txObject[r][o]
           /\ TxEditing(r, o) =>
                /\ TxExists(o)'
                /\ txs'[o].method = txs[o].method
                /\ txs[o].provider_ref \in Intent => txs'[o].provider_ref \in Intent
                /\ txs[o].refunded > 0 => txs'[o].refunded > 0
                /\ \/ txs'[o].provider_ref = txs[o].provider_ref
                   \/ ChargedOn(txs'[o].provider_ref)
                /\ Charged(o) => ChargedOn(txs'[o].provider_ref)
                /\ ChargedOn(txObject[r][o].provider_ref) =>
                       ChargedOn(txs'[o].provider_ref)
           /\ TxBacked(txs'[o], o)
<1>1. PICK row \in TxRow, was \in TxRow, now \in TxRow :
          row = txs[o] /\ was = loadedTx[r][o] /\ now = txObject[r][o]
  BY DEF IInv, TypeOK
<1>2. PICK new \in TxRow : new = MergeTx(row, was, now) /\ new = txs'[o]
  BY <1>1, MergeType DEF Commit
<1>3. /\ new.status = Column(row.status, was.status, now.status)
      /\ new.method = Column(row.method, was.method, now.method)
      /\ new.provider_ref =
            Column(row.provider_ref, was.provider_ref, now.provider_ref)
      /\ new.refunded = Column(row.refunded, was.refunded, now.refunded)
  BY <1>2 DEF MergeTx
<1>4. TxBacked(row, o) /\ TxBacked(now, o)
  BY <1>1 DEF IInv, RowInv, SessionInv, TxInv, TxBacked
<1>5. CASE TxUntouched(r, o)
  <2>1. new = row
    BY <1>1, <1>3, <1>5 DEF TxUntouched, Column, TxRow
  <2> QED
    BY <1>1, <1>2, <1>4, <1>5, <2>1
       DEF TxUntouched, TxPlacing, Placing, TxEditing, NoTx, IInv, RowInv
<1>6. CASE TxPlacing(r, o)
  <2>1. row = NoTx /\ was = NoTx /\ ~ TxExists(o)
    BY <1>1, <1>6 DEF TxPlacing, Placing, IInv, RowInv, TxExists, NoTx
  <2>2. new = now
    BY <1>1, <1>3, <2>1 DEF Column, TxRow
  <2> QED
    BY <1>1, <1>2, <1>4, <1>6, <2>1, <2>2 DEF TxEditing, TxUntouched
<1>7. CASE TxEditing(r, o)
  <2>1. /\ row.status # "absent"
        /\ was.status # "absent"
        /\ now.status # "absent"
        /\ was.method = row.method
        /\ now.method = row.method
        /\ was.provider_ref \in Intent =>
             row.provider_ref \in Intent /\ now.provider_ref \in Intent
        /\ row.provider_ref = was.provider_ref \/ ChargedOn(row.provider_ref)
        /\ now.provider_ref = was.provider_ref \/ ChargedOn(now.provider_ref)
        /\ was.refunded > 0 => row.refunded > 0 /\ now.refunded > 0
    BY <1>1, <1>7 DEF TxEditing, TxExists, Charged
  <2>2. new.status # "absent" /\ new.method = row.method
    BY <1>3, <2>1 DEF Column
  <2>3. /\ row.provider_ref \in Intent => new.provider_ref \in Intent
        /\ now.provider_ref \in Intent => new.provider_ref \in Intent
    BY <1>3, <2>1 DEF Column, TxRow
  <2>4. /\ row.refunded > 0 => new.refunded > 0
        /\ now.refunded > 0 => new.refunded > 0
    <3>1. \A x \in {row, was, now} : x.refunded \in Nat
      BY OrderPaymentsAssumption DEF TxRow
    <3>2. now.refunded = was.refunded =>
            (now.refunded > 0 => new.refunded > 0) /\ new.refunded = row.refunded
      BY <1>3, <2>1 DEF Column
    <3>3. now.refunded # was.refunded => new.refunded = now.refunded
      BY <1>3 DEF Column
    <3>4. now.refunded # was.refunded => now.refunded > 0
      BY <2>1, <3>1
    <3> QED
      BY <3>2, <3>3, <3>4
  <2>7. /\ \/ new.provider_ref = row.provider_ref
           \/ ChargedOn(new.provider_ref)
        /\ ChargedOn(row.provider_ref) => ChargedOn(new.provider_ref)
        /\ ChargedOn(now.provider_ref) => ChargedOn(new.provider_ref)
    BY <1>3, <2>1 DEF Column
  <2>5. TxBacked(new, o)
    <3>1. /\ new.status \in {row.status, now.status}
          /\ new.provider_ref \in {row.provider_ref, now.provider_ref}
          /\ new.refunded \in {row.refunded, now.refunded}
      BY <1>3 DEF Column
    <3>2. new.method = "stripe" /\ new.provider_ref \in Intent =>
            ChargedOn(new.provider_ref)
      BY <1>4, <2>1, <2>2, <3>1 DEF TxBacked
    <3>3. new.status = "completed" => o \in claimed \/ ChargedOn(new.provider_ref)
      BY <1>4, <2>7, <3>1 DEF TxBacked
    <3>4. new.status = "refunded" => new.refunded > 0
      BY <1>4, <2>4, <3>1 DEF TxBacked
    <3>5. new.refunded > 0 => GivenBack(o, new.refunded)
      BY <1>4, <3>1 DEF TxBacked
    <3> QED
      BY <2>2, <3>2, <3>3, <3>4, <3>5 DEF TxBacked
  <2>6. TxExists(o)'
    BY <1>2, <2>2 DEF TxExists
  <2> QED
    BY <1>1, <1>2, <1>7, <2>1, <2>2, <2>3, <2>4, <2>5, <2>6, <2>7
       DEF Charged, TxUntouched, TxPlacing, Placing, IInv, RowInv, NoTx
<1> QED
  BY <1>5, <1>6, <1>7 DEF IInv, SessionInv, TxInv

(* A commit only adds to what orders have been.                               *)
LEMMA CommitGrows ==
    ASSUME IInv, TypeOK', NEW r \in Request, Commit(r)
    PROVE  RowsGrow
<1> SUFFICES ASSUME NEW o \in Order
             PROVE  /\ seen[o] \subseteq seen'[o]
                    /\ OrderExists(o) =>
                        /\ OrderExists(o)'
                        /\ orders'[o].payment_method = orders[o].payment_method
                    /\ TxExists(o) =>
                        /\ TxExists(o)'
                        /\ txs'[o].method = txs[o].method
                        /\ txs[o].provider_ref \in Intent =>
                               txs'[o].provider_ref \in Intent
                        /\ \/ txs'[o].provider_ref = txs[o].provider_ref
                           \/ Charged(o)'
                        /\ txs[o].refunded > 0 => txs'[o].refunded > 0
                    /\ Charged(o) => Charged(o)'
  BY DEF RowsGrow
<1>1. OrderInv(r, o) /\ TxInv(r, o) /\ RowInv(o)
  BY DEF IInv, SessionInv
<1>2. OrderExists(o) =>
        /\ OrderExists(o)'
        /\ orders'[o].payment_method = orders[o].payment_method
  BY <1>1, CommitOrder DEF OrderInv, Placing, OrderExists
<1>3. ASSUME NEW ref PROVE ChargedOn(ref)' <=> ChargedOn(ref)
  BY DEF ChargedOn, Commit
<1>4. Charged(o)' <=> ChargedOn(txs'[o].provider_ref)
  BY <1>3 DEF Charged, ChargedOn
<1>5. Charged(o) => TxExists(o)
  <2>1. ~ TxExists(o) => txs[o] = NoTx
    BY <1>1 DEF RowInv, TxBacked, TxExists
  <2> QED
    BY <2>1, OrderPaymentsAssumption DEF Charged, ChargedOn, NoTx
<1>6. ASSUME TxExists(o)
      PROVE  /\ TxExists(o)'
             /\ txs'[o].method = txs[o].method
             /\ txs[o].provider_ref \in Intent => txs'[o].provider_ref \in Intent
             /\ txs'[o].provider_ref = txs[o].provider_ref \/ Charged(o)'
             /\ txs[o].refunded > 0 => txs'[o].refunded > 0
             /\ Charged(o) => Charged(o)'
  <2>1. CASE TxUntouched(r, o)
    <3>1. txs'[o] = txs[o]
      BY <2>1, CommitTx
    <3> QED
      BY <1>4, <1>6, <3>1 DEF TxExists, Charged
  <2>2. ~ TxPlacing(r, o)
    BY <1>6, TxHasOrder DEF TxPlacing, Placing
  <2>3. CASE TxEditing(r, o)
    BY <1>4, <2>3, CommitTx
  <2> QED
    BY <1>1, <2>1, <2>2, <2>3 DEF TxInv
<1> QED
  BY <1>2, <1>5, <1>6, CommitOrder

(* After a commit every row has its invariant.                                *)
LEMMA CommitRow ==
    ASSUME IInv, TypeOK', NEW r \in Request, Commit(r), NEW o \in Order
    PROVE  RowInv(o)'
<1>1. OrderInv(r, o) /\ TxInv(r, o) /\ RowInv(o)
  BY DEF IInv, SessionInv
<1>2. IntentsGrow /\ RowsGrow
  BY CommitGrows, QuietStep DEF Commit
<1>3. UNCHANGED intents
  BY DEF Commit
<1>4. PICK row \in OrderRow, tx \in TxRow : row = orders'[o] /\ tx = txs'[o]
  BY DEF TypeOK
<1>5. seen'[o] = seen[o] \cup ({row.status} \ {"absent"})
  BY <1>4, CommitOrder
<1>6. OrderBacked(row, o)'
  <2>1. ASSUME OrderBacked(row, o) PROVE OrderBacked(row, o)'
    BY <1>2, <2>1, StableFacts DEF IInv
  <2>2. CASE Untouched(r, o) \/ Placing(r, o)
    BY <1>1, <1>4, <2>1, <2>2, CommitOrder DEF RowInv, OrderBacked, Placing
  <2>3. CASE Editing(r, o) /\ ChargedOn(txObject[r][o].provider_ref)
    <3>1. ~ TxUntouched(r, o)
      BY <2>3, OrderPaymentsAssumption DEF TxUntouched, NoTx, ChargedOn
    <3>2. TxEditing(r, o)
      BY <1>1, <2>3, <3>1 DEF TxInv, TxPlacing, Placing, Editing
    <3>3. ChargedOn(txs'[o].provider_ref)
      BY <2>3, <3>2, CommitTx
    <3>4. Charged(o)'
      BY <1>3, <3>3 DEF Charged, ChargedOn
    <3> QED
      BY <3>4 DEF OrderBacked
  <2>4. CASE Editing(r, o) /\ ~ ChargedOn(txObject[r][o].provider_ref)
    BY <1>4, <2>1, <2>4, CommitOrder DEF OrderBacked
  <2> QED
    BY <1>1, <2>2, <2>3, <2>4 DEF OrderInv
<1>7. TxBacked(tx, o)'
  <2>1. TxBacked(tx, o)
    BY <1>4, CommitTx DEF TxBacked
  <2> QED
    BY <1>2, <2>1, StableFacts DEF IInv
<1>8. OrderBacked(orders[o], o)' /\ TxBacked(txs[o], o)'
  BY <1>4, <1>6, <1>7 DEF OrderBacked, TxBacked
<1>9. CASE OrderExists(o)
  <2>1. OrderExists(o)' /\ "PENDING" \in seen'[o]
    BY <1>1, <1>2, <1>9 DEF RowInv, RowsGrow
  <2> QED
    BY <1>4, <1>5, <1>8, <2>1 DEF RowInv, OrderExists
<1>10. CASE ~ OrderExists(o) /\ Placing(r, o)
  <2>1. row.status = "PENDING"
    BY <1>4, <1>10, CommitOrder DEF Placing
  <2> QED
    BY <1>4, <1>5, <1>8, <2>1 DEF RowInv, OrderExists
<1>11. CASE ~ OrderExists(o) /\ ~ Placing(r, o)
  <2>1. Untouched(r, o)
    BY <1>1, <1>11 DEF OrderInv, Editing
  <2>2. orders'[o] = NoOrder /\ seen'[o] = {}
    BY <1>1, <1>4, <1>5, <1>11, <2>1, CommitOrder DEF RowInv, NoOrder
  <2>3. TxUntouched(r, o)
    BY <1>1, <1>11, TxHasOrder DEF TxInv, TxPlacing, TxEditing
  <2>4. txs'[o] = NoTx
    BY <1>1, <1>11, <2>3, CommitTx DEF RowInv
  <2> QED
    BY <1>8, <2>2, <2>4 DEF RowInv, OrderExists, NoOrder
<1> QED
  BY <1>9, <1>10, <1>11

(* A commit keeps the invariant.                                              *)
LEMMA CommitKeeps ==
    ASSUME IInv, TypeOK', NEW r \in Request, Commit(r)
    PROVE  IInv'
<1>1. EndRequest(r) /\ UNCHANGED <<intents, claimed>>
  BY DEF Commit
<1>2. IntentsGrow /\ RowsGrow
  BY <1>1, QuietStep, CommitGrows
<1>3. /\ OthersWait(r)
      /\ pc'[r] = "idle"
      /\ \A o \in Order : object'[r][o].status = "absent"
      /\ SessionInv(r)'
  BY <1>1, Ended DEF NoOrder
<1>4. \A o \in Order : RowInv(o)'
  BY CommitRow
<1>5. ASSUME NEW q \in Request \ {r} PROVE SessionInv(q)'
  <2>1. ASSUME NEW o \in Order, Placing(q, o) PROVE Placing(q, o)'
    <3>1. object[r][o].status = "absent" /\ ~ OrderExists(o)
      BY <2>1 DEF Placing
    <3>2. Untouched(r, o)
      BY <3>1 DEF IInv, SessionInv, OrderInv, Placing, Editing
    <3>3. orders'[o] = orders[o]
      BY <3>2, CommitOrder
    <3> QED
      BY <1>3, <2>1, <3>3 DEF Placing, OthersWait, OrderExists
  <2>2. TypeOK /\ SessionInv(q)
    BY DEF IInv
  <2> QED
    BY <1>2, <1>3, <2>1, <2>2, KeepSession DEF OthersWait
<1>7. \A q \in Request : SessionInv(q)'
  BY <1>3, <1>5
<1> QED
  BY <1>4, <1>7 DEF IInv

--------------------------------------------------------------------------------
(* The theorems                                                               *)

(* The invariant holds at first.                                              *)
LEMMA InvInit == Init => IInv
<1> SUFFICES ASSUME Init PROVE IInv
  OBVIOUS
<1>1. TypeOK
  BY TypeInit
<1>2. /\ \A o \in Order : orders[o] = NoOrder /\ txs[o] = NoTx /\ seen[o] = {}
      /\ \A r \in Request : pc[r] = "idle"
      /\ \A r \in Request, o \in Order :
            Untouched(r, o) /\ TxUntouched(r, o)
  BY DEF Init, Untouched, TxUntouched
<1>4. ASSUME NEW o \in Order PROVE RowInv(o)
  BY <1>2, NoTxBacked DEF RowInv, OrderExists, OrderBacked, NoOrder
<1>5. ASSUME NEW r \in Request PROVE SessionInv(r)
  <2>1. JobInv(r)
    BY <1>2 DEF JobInv
  <2>2. ASSUME NEW o \in Order PROVE OrderInv(r, o) /\ TxInv(r, o)
    BY <1>2, NoTxBacked DEF OrderInv, TxInv, TxUntouched
  <2> QED
    BY <2>1, <2>2 DEF SessionInv
<1> QED
  BY <1>1, <1>4, <1>5 DEF IInv

(* Every step keeps the invariant, action by action.                          *)
LEMMA InvNext == IInv /\ [Next]_vars => IInv'
<1> SUFFICES ASSUME IInv, [Next]_vars PROVE IInv'
  OBVIOUS
<1>1. TypeOK'
  BY TypeStep DEF IInv, SessionInv
<1>2. CASE Outside
  BY <1>1, <1>2, OutsideKeeps
<1>3. ASSUME NEW r \in Request, Arrive(r) PROVE IInv'
  <2>1. CASE \E c \in Cart, o \in Order, m \in Methods : Checkout(r, c, o, m)
    BY <1>1, <2>1, CheckoutKeeps
  <2>2. CASE \/ \E o \in Order, s \in StaffTargets : UpdateOrderStatus(r, o, s)
             \/ \E o \in Order : CancelOrder(r, o)
             \/ \E list \in Batches, s \in StaffTargets :
                   BulkUpdateStatus(r, list, s)
    BY <1>1, <2>2, StartKeeps DEF UpdateOrderStatus, CancelOrder, BulkUpdateStatus
  <2>3. CASE \E o \in Order, ref \in Intent \cup {None} : ConfirmPayment(r, o, ref)
    BY <1>1, <2>3, ConfirmPaymentKeeps
  <2>4. CASE \E o \in Order : ConfirmCod(r, o)
    BY <1>1, <2>4, ConfirmCodKeeps
  <2>5. CASE \E o \in Order, amount \in 1..Total : ProcessRefund(r, o, amount)
    BY <1>1, <2>5, ProcessRefundKeeps
  <2>6. CASE \/ \E i \in Intent, o \in Order : \/ StripeSucceeded(r, i, o)
                                               \/ StripeFailed(r, i, o)
             \/ \E o \in Order : PaypalEvent(r, o)
    BY <1>1, <2>6, EventKeeps
  <2> QED
    BY <1>3, <2>1, <2>2, <2>3, <2>4, <2>5, <2>6 DEF Arrive
<1>4. ASSUME NEW r \in Request, Continue(r) PROVE IInv'
  <2>1. CASE CheckoutIntent(r) \/ ClearCart(r)
    BY <1>1, <2>1, CheckoutIntentKeeps, ClearCartKeeps
  <2>2. CASE NextOrder(r) \/ FlushOne(r)
    BY <1>1, <2>2, NextOrderKeeps, FlushOneKeeps
  <2>3. CASE ConfirmStripe(r) \/ ConfirmPaypal(r)
    BY <1>1, <2>3, ConfirmKeeps
  <2>4. CASE ConfirmOrder(r) \/ StripeOrder(r) \/ PaypalOrder(r)
    BY <1>1, <2>4, FollowKeeps
  <2>5. CASE RefundReadTx(r) \/ RefundStripe(r) \/ RefundFlushOrder(r)
    BY <1>1, <2>5, RefundReadTxKeeps, RefundStripeKeeps, RefundFlushKeeps
  <2>6. CASE RefundRefused(r) \/ DeadlockVictim(r)
    BY <1>1, <2>6, EndKeeps
  <2>7. CASE Commit(r)
    BY <1>1, <2>7, CommitKeeps
  <2> QED
    BY <1>4, <2>1, <2>2, <2>3, <2>4, <2>5, <2>6, <2>7 DEF Continue
<1>5. ASSUME NEW r \in Request, Rollback(r) PROVE IInv'
  BY <1>1, <1>5, EndKeeps
<1>6. CASE UNCHANGED vars
  <2>1. UNCHANGED <<db, pc, job, orderMap, txMap, intents, claimed>>
    BY <1>6 DEF vars
  <2>2. IntentsGrow
    BY <2>1, QuietStep
  <2> QED
    BY <1>1, <2>1, <2>2, OutsideStep
<1> QED
  BY <1>2, <1>3, <1>4, <1>5, <1>6 DEF Next

(* The inductive invariant holds in every reachable state.                    *)
THEOREM Invariance == Spec => []IInv
BY InvInit, InvNext, PTL DEF Spec

(* Every handler keeps the columns, objects, locks and intents in the types   *)
(* of TypeOK: in particular no refund ever pushes an amount past the price,   *)
(* and no status of the schema ever reaches the enum's column.                *)
THEOREM TypeCorrect == Spec => []TypeOK
<1>1. IInv => TypeOK
  BY DEF IInv
<1> QED
  BY <1>1, Invariance, PTL

(* Only commits change rows, and money only flows back.                       *)
LEMMA CommitsOrNot ==
    ASSUME IInv, [Next]_vars
    PROVE  UNCHANGED db \/ \E r \in Request : Commit(r)
<1>1. CASE Outside
  BY <1>1
     DEF Outside, AddToCart, CustomerPays, CustomerDeclined, CreatePaymentIntent
<1>2. ASSUME NEW r \in Request, Arrive(r) PROVE UNCHANGED db
  BY <1>2, Zenon
     DEF Arrive, Checkout, UpdateOrderStatus, CancelOrder, BulkUpdateStatus,
         StartStatusUpdate, ConfirmPayment, ConfirmCod, ProcessRefund,
         StripeSucceeded, StripeFailed, PaypalEvent, db
<1>3. ASSUME NEW r \in Request, Continue(r), ~ Commit(r) PROVE UNCHANGED db
  BY <1>3, Zenon
     DEF Continue, CheckoutIntent, ClearCart, NextOrder, FlushOne,
         ConfirmStripe, ConfirmPaypal, ConfirmOrder, RefundReadTx, RefundStripe,
         RefundRefused, RefundFlushOrder, StripeOrder, PaypalOrder,
         DeadlockVictim, db
<1>4. ASSUME NEW r \in Request, Rollback(r) PROVE UNCHANGED db
  BY <1>4 DEF Rollback
<1>5. CASE UNCHANGED vars
  BY <1>5 DEF vars
<1> QED
  BY <1>1, <1>2, <1>3, <1>4, <1>5 DEF Next

(* In every step, what the provider has done only grows.                      *)
LEMMA GrowStep ==
    ASSUME IInv, [Next]_vars
    PROVE  IntentsGrow
<1>1. ASSUME UNCHANGED intents, claimed \subseteq claimed' PROVE IntentsGrow
  BY <1>1, QuietStep
<1>2. CASE Outside
  <2>1. CASE \E c \in Cart : AddToCart(c)
    BY <1>1, <2>1 DEF AddToCart
  <2>2. CASE \E i \in Intent : CustomerPays(i) \/ CustomerDeclined(i)
    BY <2>2, CustomerStep DEF IInv
  <2>3. ASSUME NEW o \in Order, NEW i \in Intent,
               NEW m \in Methods \cap {"stripe", "paypal"},
               CreatePaymentIntent(o, i, m)
        PROVE  IntentsGrow
    BY <2>3, OpenIntentStep, OrderPaymentsAssumption DEF IInv, CreatePaymentIntent
  <2> QED
    BY <1>2, <2>1, <2>2, <2>3 DEF Outside
<1>3. ASSUME NEW r \in Request, Arrive(r)
      PROVE  UNCHANGED intents /\ claimed \subseteq claimed'
  BY <1>3, Zenon
     DEF Arrive, Checkout, UpdateOrderStatus, CancelOrder, BulkUpdateStatus,
         StartStatusUpdate, ConfirmPayment, ConfirmCod, ProcessRefund,
         StripeSucceeded, StripeFailed, PaypalEvent
<1>4. ASSUME NEW r \in Request, Continue(r) PROVE IntentsGrow
  <2>1. CASE CheckoutIntent(r)
    <3>1. job[r].order \in Order
      BY <2>1 DEF IInv, SessionInv, JobInv, CheckoutIntent
    <3>2. PICK o \in Order, m \in {"stripe", "paypal"} :
              o = job[r].order /\ m = object[r][o].payment_method
      BY <2>1, <3>1 DEF CheckoutIntent
    <3>3. /\ UNCHANGED claimed
          /\ UNCHANGED intents \/ \E i \in Intent : OpenIntent(i, m)
      BY <2>1, <3>2 DEF CheckoutIntent
    <3> QED
      BY <1>1, <3>3, OpenIntentStep DEF IInv, PaymentMethod
  <2>2. CASE ConfirmPaypal(r) \/ RefundStripe(r)
    BY <2>2, ProviderStep DEF IInv
  <2>3. CASE ~ CheckoutIntent(r) /\ ~ ConfirmPaypal(r) /\ ~ RefundStripe(r)
    <3>1. UNCHANGED <<intents, claimed>>
      BY <1>4, <2>3, Zenon
         DEF Continue, ClearCart, NextOrder, FlushOne, ConfirmStripe,
             ConfirmOrder, RefundReadTx, RefundRefused, RefundFlushOrder,
             StripeOrder, PaypalOrder, Commit, DeadlockVictim
    <3> QED
      BY <1>1, <3>1
  <2> QED
    BY <2>1, <2>2, <2>3
<1>5. ASSUME NEW r \in Request, Rollback(r) PROVE UNCHANGED <<intents, claimed>>
  BY <1>5 DEF Rollback
<1>6. CASE UNCHANGED vars
  BY <1>1, <1>6 DEF vars
<1> QED
  BY <1>1, <1>2, <1>3, <1>4, <1>5, <1>6 DEF Next

(* What a commit may make of a status.                                        *)
LEMMA StatusStep ==
    ASSUME IInv, TypeOK', [Next]_vars, NEW o \in Order
    PROVE  /\ \/ orders'[o].status = orders[o].status
              \/ ~ OrderExists(o) /\ orders'[o].status = "PENDING"
              \/ OrderExists(o) /\ MayBecome(o, orders'[o].status)
           /\ seen'[o] = seen[o] \cup ({orders'[o].status} \ {"absent"})
<1>1. CASE UNCHANGED db
  <2>1. orders[o].status # "absent" => orders[o].status \in seen[o]
    BY DEF IInv, RowInv, OrderExists
  <2> QED
    BY <1>1, <2>1 DEF db
<1>2. ASSUME NEW r \in Request, Commit(r)
      PROVE  /\ \/ orders'[o].status = orders[o].status
                \/ ~ OrderExists(o) /\ orders'[o].status = "PENDING"
                \/ OrderExists(o) /\ MayBecome(o, orders'[o].status)
             /\ seen'[o] = seen[o] \cup ({orders'[o].status} \ {"absent"})
  <2>1. OrderInv(r, o)
    BY DEF IInv, SessionInv
  <2> QED
    BY <1>2, <2>1, CommitOrder DEF OrderInv, Placing, Editing
<1> QED
  BY <1>1, <1>2, CommitsOrNot

(* The initial states of the abstract specification.                          *)
LEMMA LifecycleInit == Init => Lifecycle!Init
BY OrderPaymentsAssumption
   DEF Init, Lifecycle!Init, Repaid, NoOrder, NoIntent

(* Every step is one of the abstract specification, or a stutter.             *)
LEMMA LifecycleNext == IInv /\ IInv' /\ [Next]_vars => [Lifecycle!Next]_(Lifecycle!vars)
<1> SUFFICES ASSUME IInv, IInv', [Next]_vars PROVE Lifecycle!Next
  OBVIOUS
<1>1. ASSUME NEW o \in Order
      PROVE  /\ \/ orders'[o].status = orders[o].status
                \/ orders[o].status = "absent" /\ orders'[o].status = "PENDING"
                \/ /\ orders[o].status # "absent"
                   /\ \E past \in seen[o] : CanTransition(past, orders'[o].status)
                \/ /\ orders[o].status # "absent"
                   /\ o \in Repaid
                   /\ orders'[o].status = "REFUNDED"
             /\ seen'[o] = seen[o] \cup ({orders'[o].status} \ {"absent"})
  BY StatusStep DEF IInv, MayBecome, OrderExists
<1>2. seen' = [o \in Order |-> seen[o] \cup ({orders'[o].status} \ {"absent"})]
  <2>1. seen' \in [Order -> SUBSET OrderStatusEnum]
    BY DEF IInv, TypeOK
  <2> QED
    BY <1>1, <2>1
<1>3. Repaid \subseteq Repaid'
  <2>1. IntentsGrow
    BY GrowStep
  <2>2. \A i \in Intent, o \in Order : /\ intents[i].given[o] \in Nat
                                      /\ intents'[i].given[o] \in Nat
    BY DEF IInv, TypeOK, IntentRow
  <2> SUFFICES ASSUME NEW o \in Repaid PROVE o \in Repaid'
    OBVIOUS
  <2>3. PICK i \in Intent : o \in Order /\ intents[i].given[o] > 0
    BY DEF Repaid
  <2>4. intents[i].given[o] <= intents'[i].given[o]
    BY <2>1, <2>3 DEF IntentsGrow
  <2>5. intents'[i].given[o] > 0
    BY <2>2, <2>3, <2>4
  <2> QED
    BY <2>3, <2>5 DEF Repaid
<1> QED
  BY <1>1, <1>2, <1>3
     DEF Lifecycle!Next, Lifecycle!Placed, Lifecycle!Moved, Lifecycle!Refunded,
         CanTransition, ValidTransitions, Lifecycle!CanTransition,
         Lifecycle!ValidTransitions

(* The handlers, interleaved, failing and rolled back in any way, implement   *)
(* the abstract life cycle of an order.                                       *)
THEOREM Refinement == Spec => ImplementsLifecycle
<1>1. Init => Lifecycle!Init
  BY LifecycleInit
<1>2. IInv /\ IInv' /\ [Next]_vars => [Lifecycle!Next]_(Lifecycle!vars)
  BY LifecycleNext
<1> QED
  BY <1>1, <1>2, Invariance, PTL DEF Spec, ImplementsLifecycle, Lifecycle!Spec

(* No order skips a stage of the kitchen: each stage has one predecessor in   *)
(* the table, and a stale status is still one the order had.                  *)
THEOREM StagesInOrder == Spec => []NoStageSkipped
<1>1. Init => NoStageSkipped
  BY DEF Init, NoStageSkipped
<1>2. IInv /\ IInv' /\ NoStageSkipped /\ [Next]_vars => NoStageSkipped'
  <2> SUFFICES ASSUME IInv, IInv', NoStageSkipped, [Next]_vars, NEW o \in Order
               PROVE  /\ "SERVED" \in seen'[o] => "READY" \in seen'[o]
                      /\ "READY" \in seen'[o] => "PREPARING" \in seen'[o]
                      /\ "PREPARING" \in seen'[o] => "CONFIRMED" \in seen'[o]
                      /\ seen'[o] # {} => "PENDING" \in seen'[o]
    BY DEF NoStageSkipped
  <2>1. /\ seen'[o] = seen[o] \cup ({orders'[o].status} \ {"absent"})
        /\ \/ orders'[o].status = orders[o].status
           \/ orders'[o].status = "PENDING"
           \/ MayBecome(o, orders'[o].status)
    BY StatusStep DEF IInv
  <2>2. orders[o].status # "absent" => orders[o].status \in seen[o]
    BY DEF IInv, RowInv, OrderExists
  <2>3. seen'[o] # {} => "PENDING" \in seen'[o]
    <3>1. RowInv(o)'
      BY DEF IInv
    <3> QED
      BY <3>1 DEF RowInv
  <2>4. CASE \E past \in seen[o] : CanTransition(past, orders'[o].status)
    <3>1. PICK past \in seen[o] : CanTransition(past, orders'[o].status)
      BY <2>4
    <3>2. /\ orders'[o].status = "SERVED" => past = "READY"
          /\ orders'[o].status = "READY" => past = "PREPARING"
          /\ orders'[o].status = "PREPARING" => past = "CONFIRMED"
      BY <3>1 DEF CanTransition, ValidTransitions
    <3> QED
      BY <2>1, <2>3, <3>1, <3>2 DEF NoStageSkipped
  <2>5. CASE orders'[o].status \in {"PENDING", "REFUNDED", orders[o].status}
    BY <2>1, <2>2, <2>3, <2>5 DEF NoStageSkipped
  <2> QED
    BY <2>1, <2>4, <2>5 DEF MayBecome
<1> QED
  BY <1>1, <1>2, Invariance, PTL DEF Spec

--------------------------------------------------------------------------------
(* Deadlock                                                                   *)

(* A session changes at most the transaction of its order.                    *)
OneTx(r) ==
    \A o \in Order : loadedTx[r][o] # txObject[r][o] => o = job[r].order

(* Who can hold a lock, and which: a bulk update or a refund the order's, a   *)
(* request at its last flush that of its transaction.                         *)
LockInv ==
    \A r \in Request :
        /\ OneTx(r)
        /\ \A o \in Order :
            /\ orderLock[o] = r =>
                \/ pc[r] \in {"next_order", "flush_one"}
                \/ pc[r] = "flush" /\ job[r].amount > 0
            /\ txLock[o] = r => pc[r] = "flush" /\ o = job[r].order

(* A step of r that takes no lock and touches one transaction.                *)
LEMMA LocksKept ==
    ASSUME IInv, LockInv, UNCHANGED locks, NEW r \in Request, OthersWait(r),
           pc[r] \notin {"next_order", "flush_one", "flush"}, OneTx(r)'
    PROVE  LockInv'
<1> SUFFICES ASSUME NEW q \in Request
             PROVE  /\ OneTx(q)'
                    /\ \A o \in Order :
                        /\ orderLock'[o] = q =>
                            \/ pc'[q] \in {"next_order", "flush_one"}
                            \/ pc'[q] = "flush" /\ job'[q].amount > 0
                        /\ txLock'[o] = q => pc'[q] = "flush" /\ o = job'[q].order
  BY DEF LockInv
<1>1. orderLock' = orderLock /\ txLock' = txLock
  BY DEF locks
<1>2. CASE q = r
  BY <1>1, <1>2 DEF LockInv
<1>3. CASE q # r
  BY <1>1, <1>3 DEF LockInv, OthersWait, OneTx
<1> QED
  BY <1>2, <1>3

(* Closing a session frees its locks and no other.                            *)
LEMMA EndLocks ==
    ASSUME IInv, LockInv, NEW r \in Request, EndRequest(r)
    PROVE  LockInv'
<1>1. /\ OthersWait(r)
      /\ OneTx(r)'
  BY Ended DEF OneTx
<1>2. /\ \A o \in Order : orderLock'[o] # r /\ txLock'[o] # r
      /\ \A o \in Order, q \in Request :
            /\ orderLock'[o] = q => orderLock[o] = q
            /\ txLock'[o] = q => txLock[o] = q
  BY OrderPaymentsAssumption DEF EndRequest
<1>3. ASSUME NEW q \in Request \ {r} PROVE OneTx(q)'
  BY <1>1 DEF LockInv, OneTx, OthersWait
<1> QED
  BY <1>1, <1>2, <1>3 DEF LockInv, OthersWait

(* A flush.                                                                   *)
LEMMA TakeLocksKeep ==
    ASSUME IInv, LockInv, NEW r \in Request, TakeLocks(r),
           OthersWait(r), UNCHANGED txMap, job'[r].order = job[r].order,
           \/ pc[r] = "flush_one" /\ pc'[r] = "next_order"
           \/ /\ pc[r] \in {"confirm_order", "stripe_order", "paypal_order"}
              /\ pc'[r] = "flush"
           \/ /\ pc[r] = "flush_order"
              /\ pc'[r] = "flush"
              /\ job'[r].amount > 0
    PROVE  LockInv'
<1>1. \A o \in Order, q \in Request \ {r} :
          /\ orderLock'[o] = q => orderLock[o] = q
          /\ txLock'[o] = q => txLock[o] = q
  BY DEF TakeLocks
<1>2. ASSUME NEW q \in Request PROVE OneTx(q)'
  BY DEF LockInv, OneTx, OthersWait, txMap
<1>3. ASSUME NEW o \in Order, orderLock'[o] = r
      PROVE  \/ pc'[r] \in {"next_order", "flush_one"}
             \/ pc'[r] = "flush" /\ job'[r].amount > 0
  BY <1>3 DEF TakeLocks, OrdersToLock, LockInv
<1>4. ASSUME NEW o \in Order, txLock'[o] = r
      PROVE  pc'[r] = "flush" /\ o = job'[r].order
  BY <1>4 DEF TakeLocks, TxsToLock, DirtyTxs, LockInv, OneTx
<1> QED
  BY <1>1, <1>2, <1>3, <1>4 DEF LockInv, OthersWait

(* What steps that take no lock change.                                       *)
Elsewhere(r) ==
    \A o \in Order : o # job'[r].order =>
        /\ loadedTx'[r][o] = loadedTx[r][o]
        /\ txObject'[r][o] = txObject[r][o]

(* A request that arrives takes no lock and disturbs no other session.        *)
LEMMA ArriveFrame ==
    ASSUME IInv, NEW r \in Request, Arrive(r)
    PROVE  /\ pc[r] = "idle"
           /\ UNCHANGED locks
           /\ OthersWait(r)
           /\ Elsewhere(r)
<1> USE DEF Elsewhere
<1>0. TypeOK
  BY DEF IInv
<1>1. ASSUME NEW point, NEW j, Begin(r, point, j)
      PROVE  pc[r] = "idle" /\ job'[r] = j /\ OthersPlaces(r)
  BY <1>0, <1>1, PlaceFrames DEF OthersPlaces
<1>2. ASSUME NEW c \in Cart, NEW o \in Order, NEW m \in Methods,
             Checkout(r, c, o, m)
      PROVE  pc[r] = "idle" /\ UNCHANGED locks /\ OthersWait(r) /\ Elsewhere(r)
  <2> DEFINE j == [NoJob EXCEPT !.order = o, !.cart = c]
             row == [status |-> "PENDING", payment_status |-> "pending",
                     payment_method |-> m]
             tx == NewTx(m, "pending", None)
  <2>1. /\ UNCHANGED <<locks, loaded, loadedTx>>
        /\ SetOrder(r, o, row)
        /\ SetTx(r, o, tx) \/ UNCHANGED txObject
        /\ \E point : Begin(r, point, j)
    BY <1>2 DEF Checkout
  <2>2. j.order = o
    BY JobColumns
  <2> HIDE DEF j, row, tx
  <2>3. pc[r] = "idle" /\ job'[r].order = o /\ OthersPlaces(r)
    BY <1>1, <2>1, <2>2
  <2>4. CASE SetTx(r, o, tx)
    <3>1. OthersWait(r) /\ OnlyAt(r, o)
      BY <1>0, <2>1, <2>3, <2>4, SetBothFrame
    <3> QED
      BY <2>1, <2>3, <3>1 DEF OnlyAt
  <2>5. CASE UNCHANGED txObject
    <3>1. \A q \in Request \ {r} : object'[q] = object[q]
      BY <1>0, <2>1, SetFrames
    <3> QED
      BY <2>1, <2>3, <2>5, <3>1 DEF OthersWait, OthersPlaces
  <2> QED
    BY <2>1, <2>4, <2>5
<1>3. ASSUME NEW list, NEW to, StartStatusUpdate(r, list, to)
      PROVE  pc[r] = "idle" /\ UNCHANGED locks /\ OthersWait(r) /\ Elsewhere(r)
  BY <1>1, <1>3 DEF StartStatusUpdate, OthersWait, OthersPlaces, orderMap, txMap
<1>4. ASSUME NEW o \in Order, NEW now, NEW point, NEW j, Begin(r, point, j),
             ReadOrder(r, o, now), UNCHANGED <<locks, txMap>>
      PROVE  pc[r] = "idle" /\ UNCHANGED locks /\ OthersWait(r) /\ Elsewhere(r)
  BY <1>0, <1>1, <1>4, ReadOrderFrame DEF txMap
<1>5. ASSUME NEW o \in Order, NEW now, NEW point, NEW j, Begin(r, point, j),
             j.order = o, ReadTx(r, o, now), UNCHANGED <<locks, orderMap>>
      PROVE  pc[r] = "idle" /\ UNCHANGED locks /\ OthersWait(r) /\ Elsewhere(r)
  BY <1>0, <1>1, <1>5, ReadTxFrame DEF OnlyAt
<1>6. ASSUME NEW o \in Order, NEW ref \in Intent \cup {None},
             ConfirmPayment(r, o, ref)
      PROVE  pc[r] = "idle" /\ UNCHANGED locks /\ OthersWait(r) /\ Elsewhere(r)
  <2>1. PICK point, j : /\ Begin(r, point, j)
                        /\ \/ j = [NoJob EXCEPT !.order = o]
                           \/ j = [NoJob EXCEPT !.order = o, !.intent = ref]
    BY <1>6 DEF ConfirmPayment
  <2>2. j.order = o
    BY <2>1 DEF NoJob
  <2>3. ReadTx(r, o, txs[o]) /\ UNCHANGED <<locks, orderMap>>
    BY <1>6 DEF ConfirmPayment
  <2> QED
    BY <1>5, <2>1, <2>2, <2>3
<1>7. ASSUME NEW o \in Order, ConfirmCod(r, o)
      PROVE  pc[r] = "idle" /\ UNCHANGED locks /\ OthersWait(r) /\ Elsewhere(r)
  BY <1>4, <1>7 DEF ConfirmCod
<1>8. ASSUME NEW o \in Order, NEW n \in 1..Total, ProcessRefund(r, o, n)
      PROVE  pc[r] = "idle" /\ UNCHANGED locks /\ OthersWait(r) /\ Elsewhere(r)
  BY <1>4, <1>8 DEF ProcessRefund
<1>9. ASSUME NEW o \in Order,
             \/ \E i \in Intent : StripeSucceeded(r, i, o) \/ StripeFailed(r, i, o)
             \/ PaypalEvent(r, o)
      PROVE  pc[r] = "idle" /\ UNCHANGED locks /\ OthersWait(r) /\ Elsewhere(r)
  <2>1. PICK point, j : /\ Begin(r, point, j)
                        /\ \/ j = [NoJob EXCEPT !.order = o]
                           \/ \E b : j = [NoJob EXCEPT !.order = o, !.touch = b]
    BY <1>9 DEF StripeSucceeded, StripeFailed, PaypalEvent
  <2>2. j.order = o
    BY <2>1 DEF NoJob
  <2>3. PICK now : ReadTx(r, o, now)
    BY <1>9 DEF StripeSucceeded, StripeFailed, PaypalEvent
  <2>4. UNCHANGED <<locks, orderMap>>
    BY <1>9 DEF StripeSucceeded, StripeFailed, PaypalEvent
  <2> QED
    BY <1>5, <2>1, <2>2, <2>3, <2>4
<1> QED
  <2> HIDE DEF Elsewhere
  <2> QED
    BY <1>2, <1>3, <1>6, <1>7, <1>8, <1>9
       DEF Arrive, UpdateOrderStatus, CancelOrder, BulkUpdateStatus

(* A step of a request takes locks for itself only and disturbs no other      *)
(* session.                                                                   *)
LEMMA ContinueFrame ==
    ASSUME IInv, NEW r \in Request,
           \/ CheckoutIntent(r) \/ ClearCart(r)
           \/ ConfirmStripe(r) \/ ConfirmPaypal(r)
           \/ RefundReadTx(r) \/ RefundStripe(r)
    PROVE  /\ pc[r] \in {"intent", "clear_cart", "confirm_call", "refund_tx",
                         "refund_call"}
           /\ UNCHANGED locks
           /\ OthersWait(r)
           /\ job'[r].order = job[r].order
           /\ Elsewhere(r)
<1>1. TypeOK
  BY DEF IInv
<1>2. pc[r] \in {"intent", "clear_cart", "confirm_call", "refund_tx", "refund_call"}
  BY Zenon DEF CheckoutIntent, ClearCart, ConfirmStripe, ConfirmPaypal,
               RefundReadTx, RefundStripe
<1>3. UNCHANGED locks
  BY Zenon DEF CheckoutIntent, ClearCart, ConfirmStripe, ConfirmPaypal,
               RefundReadTx, RefundStripe
<1>4. PICK o \in Order : o = job[r].order
  BY <1>2 DEF IInv, SessionInv, JobInv
<1>5. job'[r].order = o /\ OthersPlaces(r)
  <2>1. CASE ConfirmStripe(r) \/ ConfirmPaypal(r)
    <3>4. ConfirmFailed(r) \/ ConfirmSucceeded(r)
      BY <2>1, Zenon DEF ConfirmStripe, ConfirmPaypal
    <3>1. (\E b \in BOOLEAN : job' = [job EXCEPT ![r].touch = b]) \/ UNCHANGED job
      BY <3>4, Zenon DEF ConfirmFailed, ConfirmSucceeded
    <3>2. job[r] \in Job
      BY <1>1 DEF TypeOK
    <3>3. /\ job'[r].order = o
          /\ \A q \in Request \ {r} : job'[q] = job[q]
      BY <1>1, <1>4, <3>1, <3>2 DEF TypeOK, Job
    <3> QED
      BY <1>1, <2>1, <3>3, PlaceFrames DEF ConfirmStripe, ConfirmPaypal, OthersPlaces
  <2>2. CASE CheckoutIntent(r) \/ ClearCart(r) \/ RefundReadTx(r) \/ RefundStripe(r)
    <3>1. UNCHANGED job /\ \E point : Goto(r, point)
      BY <2>2, Zenon DEF CheckoutIntent, ClearCart, RefundReadTx, RefundStripe
    <3> QED
      BY <1>1, <1>4, <3>1, PlaceFrames DEF OthersPlaces
  <2> QED
    BY <2>1, <2>2
<1>6. \/ UNCHANGED <<orderMap, txMap>>
      \/ UNCHANGED <<orderMap, loadedTx>> /\ \E now : SetTx(r, o, now)
      \/ UNCHANGED orderMap /\ \E now : ReadTx(r, o, now)
      \/ /\ UNCHANGED <<loaded, loadedTx>>
         /\ \E order, tx : SetOrder(r, o, order) /\ SetTx(r, o, tx)
  <2>1. CASE CheckoutIntent(r)
    BY <1>4, <2>1 DEF CheckoutIntent
  <2>2. CASE ClearCart(r)
    BY <2>2 DEF ClearCart
  <2>3. CASE ConfirmStripe(r) \/ ConfirmPaypal(r)
    <3>1. ConfirmFailed(r) \/ ConfirmSucceeded(r)
      BY <2>3, Zenon DEF ConfirmStripe, ConfirmPaypal
    <3>2. UNCHANGED <<orderMap, loadedTx>>
      BY <2>3, Zenon DEF ConfirmStripe, ConfirmPaypal
    <3>3. \E now : SetTx(r, o, now)
      BY <1>4, <3>1, Zenon DEF ConfirmFailed, ConfirmSucceeded
    <3> QED
      BY <3>2, <3>3
  <2>4. CASE RefundReadTx(r)
    BY <1>4, <2>4 DEF RefundReadTx
  <2>5. CASE RefundStripe(r)
    BY <1>4, <2>5, Zenon DEF RefundStripe
  <2> QED
    BY <2>1, <2>2, <2>3, <2>4, <2>5
<1>7. OthersWait(r) /\ (UNCHANGED txMap \/ OnlyAt(r, o))
  <2>1. CASE UNCHANGED <<orderMap, txMap>>
    BY <1>5, <2>1 DEF OthersWait, OthersPlaces, orderMap, txMap
  <2>2. CASE UNCHANGED <<orderMap, loadedTx>> /\ \E now : SetTx(r, o, now)
    BY <1>1, <1>5, <2>2, SetTxFrame
  <2>3. CASE UNCHANGED orderMap /\ \E now : ReadTx(r, o, now)
    BY <1>1, <1>5, <2>3, ReadTxFrame
  <2>4. CASE /\ UNCHANGED <<loaded, loadedTx>>
             /\ \E order, tx : SetOrder(r, o, order) /\ SetTx(r, o, tx)
    BY <1>1, <1>5, <2>4, SetBothFrame
  <2> QED
    BY <1>6, <2>1, <2>2, <2>3, <2>4
<1> QED
  BY <1>2, <1>3, <1>4, <1>5, <1>7 DEF Elsewhere, OnlyAt, txMap

(* No lock is held at first.                                                  *)
LEMMA LockInit == Init => LockInv
BY OrderPaymentsAssumption DEF Init, LockInv, OneTx, NoOrder

(* Locks stay with the request whose pending writes need them.                *)
LEMMA LockNext == IInv /\ LockInv /\ [Next]_vars => LockInv'
<1> SUFFICES ASSUME IInv, LockInv, [Next]_vars PROVE LockInv'
  OBVIOUS
<1>1. ASSUME UNCHANGED <<locks, pc, job, txMap>> PROVE LockInv'
  BY <1>1 DEF LockInv, OneTx, locks, txMap
<1>2. CASE Outside
  BY <1>1, <1>2
     DEF Outside, AddToCart, CustomerPays, CustomerDeclined, CreatePaymentIntent
<1>3. ASSUME NEW r \in Request, Arrive(r) PROVE LockInv'
  <2>1. /\ pc[r] = "idle"
        /\ UNCHANGED locks
        /\ OthersWait(r)
        /\ Elsewhere(r)
    BY <1>3, ArriveFrame
  <2>2. \A o \in Order : loadedTx[r][o] = txObject[r][o]
    BY <2>1, IdleHoldsNothing DEF TxUntouched
  <2>3. OneTx(r)'
    BY <2>1, <2>2 DEF OneTx, Elsewhere
  <2> QED
    BY <2>1, <2>3, LocksKept
<1>4. ASSUME NEW r \in Request, Continue(r) PROVE LockInv'
  <2>1. CASE \/ CheckoutIntent(r) \/ ClearCart(r)
             \/ ConfirmStripe(r) \/ ConfirmPaypal(r)
             \/ RefundReadTx(r) \/ RefundStripe(r)
    <3>1. /\ pc[r] \in {"intent", "clear_cart", "confirm_call", "refund_tx",
                        "refund_call"}
          /\ UNCHANGED locks
          /\ OthersWait(r)
          /\ job'[r].order = job[r].order
          /\ Elsewhere(r)
      BY <2>1, ContinueFrame
    <3>2. OneTx(r)'
      BY <3>1 DEF OneTx, Elsewhere, LockInv
    <3> QED
      BY <3>1, <3>2, LocksKept
  <2>2. CASE NextOrder(r)
    <3>1. job[r] \in Job
      BY DEF IInv, TypeOK
    <3>2. /\ UNCHANGED <<locks, txMap>>
          /\ pc[r] = "next_order"
          /\ pc' = [pc EXCEPT ![r] = "flush_one"] \/ UNCHANGED pc
          /\ job' = [job EXCEPT ![r].todo = Tail(@)] \/ UNCHANGED job
      BY <2>2, Zenon DEF NextOrder, Goto
    <3>3. pc'[r] \in {"next_order", "flush_one"} /\ job'[r].order = job[r].order
      BY <3>1, <3>2 DEF IInv, TypeOK, Job
    <3>4. \A q \in Request \ {r} : pc'[q] = pc[q] /\ job'[q] = job[q]
      BY <3>2 DEF IInv, TypeOK
    <3>5. \A q \in Request : OneTx(q)'
      BY <3>2, <3>3, <3>4 DEF LockInv, OneTx, txMap
    <3> QED
      BY <3>2, <3>3, <3>4, <3>5 DEF LockInv, locks
  <2>3. CASE FlushOne(r)
    <3>1. job[r] \in Job
      BY DEF IInv, TypeOK
    <3>2. /\ UNCHANGED <<orderMap, txMap>>
          /\ pc[r] = "flush_one"
          /\ TakeLocks(r)
          /\ Goto(r, "next_order")
          /\ job' = [job EXCEPT ![r].todo = Tail(@)]
      BY <2>3 DEF FlushOne
    <3>3. /\ job'[r].order = job[r].order
          /\ \A q \in Request \ {r} : job'[q] = job[q]
      BY <3>1, <3>2 DEF IInv, TypeOK, Job
    <3>4. OthersWait(r) /\ pc'[r] = "next_order"
      BY <3>2, <3>3, PlaceFrames DEF IInv, OthersWait, orderMap, txMap
    <3> QED
      BY <3>2, <3>3, <3>4, TakeLocksKeep
  <2>4. CASE ConfirmOrder(r) \/ StripeOrder(r) \/ PaypalOrder(r)
    <3>1. /\ pc[r] \in {"confirm_order", "stripe_order", "paypal_order"}
          /\ TakeLocks(r)
          /\ Goto(r, "flush")
          /\ UNCHANGED <<job, txMap>>
          /\ \E now : ReadOrder(r, job[r].order, now)
      BY <2>4, Zenon DEF ConfirmOrder, StripeOrder, PaypalOrder
    <3>2. PICK o \in Order : o = job[r].order
      BY <3>1 DEF IInv, SessionInv, JobInv
    <3>3. pc'[r] = "flush" /\ OthersPlaces(r)
      BY <3>1, PlaceFrames DEF IInv, OthersPlaces
    <3>4. OthersWait(r)
      BY <3>1, <3>2, <3>3, ReadOrderFrame DEF IInv
    <3> QED
      BY <3>1, <3>3, <3>4, TakeLocksKeep
  <2>5. CASE RefundFlushOrder(r)
    <3>1. /\ pc[r] = "flush_order"
          /\ TakeLocks(r)
          /\ Goto(r, "flush")
          /\ UNCHANGED <<job, orderMap, txMap>>
      BY <2>5 DEF RefundFlushOrder
    <3>2. OthersWait(r) /\ pc'[r] = "flush"
      BY <3>1, PlaceFrames DEF IInv, OthersWait, orderMap, txMap
    <3>3. job'[r].amount > 0
      BY <3>1 DEF IInv, SessionInv, JobInv
    <3> QED
      BY <3>1, <3>2, <3>3, TakeLocksKeep
  <2>6. CASE RefundRefused(r) \/ Commit(r) \/ DeadlockVictim(r)
    BY <2>6, EndLocks DEF RefundRefused, Commit, DeadlockVictim
  <2> QED
    BY <1>4, <2>1, <2>2, <2>3, <2>4, <2>5, <2>6 DEF Continue
<1>5. ASSUME NEW r \in Request, Rollback(r) PROVE LockInv'
  BY <1>5, EndLocks DEF Rollback
<1>6. CASE UNCHANGED vars
  BY <1>1, <1>6 DEF vars
<1> QED
  BY <1>2, <1>3, <1>4, <1>5, <1>6 DEF Next

(* Of two requests that wait for each other one is a refund, or both are bulk *)
(* updates: every other handler takes its transaction's lock first and then   *)
(* waits for nothing another of them holds.                                   *)
THEOREM DeadlocksAreRefundsOrBulk == Spec => []DeadlockNeedsRefundOrBulk
<1>1. IInv /\ LockInv => DeadlockNeedsRefundOrBulk
  <2> SUFFICES ASSUME IInv, LockInv, NEW r \in Request, NEW q \in Request,
                      WaitsFor(r, q), WaitsFor(q, r),
                      ~ RefundInFlight(r), ~ RefundInFlight(q)
               PROVE  BulkInFlight(r) /\ BulkInFlight(q)
    BY DEF DeadlockNeedsRefundOrBulk
  <2>1. ASSUME NEW p \in Request, ~ RefundInFlight(p),
               NEW o \in Order, orderLock[o] = p
        PROVE  HoldsOrder(p) /\ pc[p] \in {"next_order", "flush_one"}
    BY <2>1 DEF LockInv, RefundInFlight, HoldsOrder
  <2>2. \A p \in Request, o \in Order :
            txLock[o] = p => pc[p] = "flush" /\ o = job[p].order
    BY DEF LockInv
  <2>3. \A p \in Request : pc[p] = "next_order" =>
            OrdersToLock(p) = {} /\ TxsToLock(p) = {}
    BY DEF OrdersToLock, TxsToLock
  <2>4. pc[r] # "next_order" /\ pc[q] # "next_order"
    BY <2>3 DEF WaitsFor
  <2>5. ASSUME NEW p \in Request, NEW o \in TxsToLock(p), pc[p] = "flush"
        PROVE  o \in Order /\ o = job[p].order
    BY <2>5 DEF TxsToLock, DirtyTxs, LockInv, OneTx
  <2>6. \A p \in Request : pc[p] = "flush_one" => TxsToLock(p) = {}
    BY DEF TxsToLock
  <2>7. \A p \in Request : OrdersToLock(p) \subseteq Order /\ TxsToLock(p) \subseteq Order
    <3>1. \A p \in Request : pc[p] = "flush_one" => Head(job[p].todo) \in Order
      BY DEF IInv, SessionInv, JobInv, TypeOK, Job
    <3> QED
      BY <3>1 DEF OrdersToLock, TxsToLock, DirtyOrders, DirtyTxs
  <2>8. CASE pc[q] = "flush_one"
    BY <2>1, <2>2, <2>4, <2>6, <2>7, <2>8 DEF WaitsFor, BulkInFlight, HoldsOrder
  <2>9. CASE pc[r] = "flush_one"
    BY <2>1, <2>2, <2>4, <2>6, <2>7, <2>9 DEF WaitsFor, BulkInFlight, HoldsOrder
  <2>10. CASE pc[q] # "flush_one" /\ pc[r] # "flush_one"
    <3>1. \E o \in TxsToLock(r) : txLock[o] = q
      BY <2>1, <2>4, <2>7, <2>10 DEF WaitsFor
    <3>2. \E o \in TxsToLock(q) : txLock[o] = r
      BY <2>1, <2>4, <2>7, <2>10 DEF WaitsFor
    <3>3. pc[r] = "flush" /\ pc[q] = "flush"
      BY <2>2, <2>7, <3>1, <3>2
    <3>4. job[r].order = job[q].order
      BY <2>2, <2>5, <3>1, <3>3
    <3> QED
      BY <2>2, <2>5, <3>1, <3>2, <3>3, <3>4 DEF WaitsFor
  <2> QED
    BY <2>8, <2>9, <2>10
<1> QED
  BY <1>1, LockInit, LockNext, InvInit, InvNext, PTL DEF Spec

--------------------------------------------------------------------------------
(* What a transaction has learned                                             *)

(* Only a commit changes a transaction, and it adds to what is recorded: a    *)
(* request never holds fewer of a column's facts than it read, so a column    *)
(* its session did change was empty, and one it did not is not written.       *)
THEOREM RecordsAreKept == Spec => RecordsKept
<1> DEFINE Kept == \A o \in Order : TxExists(o) =>
                      /\ txs'[o].method = txs[o].method
                      /\ txs[o].provider_ref # None => txs'[o].provider_ref # None
                      /\ txs[o].refunded > 0 => txs'[o].refunded > 0
<1>1. IInv /\ IInv' /\ [Next]_vars => [Kept]_vars
  <2> SUFFICES ASSUME IInv, IInv', [Next]_vars PROVE Kept
    OBVIOUS
  <2>1. CASE UNCHANGED db
    BY <2>1 DEF db
  <2>2. ASSUME NEW r \in Request, Commit(r) PROVE Kept
    <3>1. RowsGrow
      BY <2>2, CommitGrows DEF IInv
    <3>2. \A o \in Order : /\ txs[o].provider_ref \in Intent \cup {None}
                           /\ txs'[o].provider_ref \in Intent \cup {None}
      BY DEF IInv, TypeOK, TxRow
    <3> QED
      BY <3>1, <3>2, OrderPaymentsAssumption DEF RowsGrow
  <2> QED
    BY <2>1, <2>2, CommitsOrNot
<1> QED
  BY <1>1, Invariance, PTL DEF Spec, RecordsKept

(* What the columns a commit adds are added with.  A session that would       *)
(* record a refund writes REFUNDED to the order in the same commit, one that  *)
(* would record a Stripe reference writes the order's new status; before that *)
(* it holds nothing it has not read.                                          *)
RowTraced(o) ==
    /\ txs[o].refunded > 0 => "REFUNDED" \in seen[o]
    /\ txs[o].method = "stripe" /\ txs[o].provider_ref # None =>
        seen[o] \ {"PENDING"} # {}

RefundTraced(r, o) ==
    txObject[r][o].refunded > 0 =>
        \/ loadedTx[r][o].refunded > 0
        \/ /\ pc[r] \in {"flush_order", "flush"}
           /\ object[r][o].status = "REFUNDED"

ReferenceTraced(r, o) ==
    txObject[r][o].method = "stripe" /\ txObject[r][o].provider_ref # None =>
        \/ loadedTx[r][o].provider_ref # None
        \/ /\ pc[r] = "confirm_order"
           /\ o = job[r].order
           /\ txObject[r][o].status = "completed"
        \/ /\ pc[r] = "flush"
           /\ object[r][o].status \notin {"PENDING", "absent"}

TraceInv ==
    /\ \A o \in Order : RowTraced(o)
    /\ \A r \in Request, o \in Order : RefundTraced(r, o) /\ ReferenceTraced(r, o)

(* What a session read is what it holds.                                      *)
Faithful(r, o) ==
    /\ txObject[r][o].refunded = loadedTx[r][o].refunded
    /\ txObject[r][o].provider_ref = loadedTx[r][o].provider_ref

SessionTraced(r, o) == RefundTraced(r, o) /\ ReferenceTraced(r, o)

(* A session that has called nobody yet keeps what it holds, whatever else    *)
(* the step does.                                                             *)
LEMMA EarlyTraced ==
    ASSUME NEW r \in Request, NEW o \in Order, SessionTraced(r, o),
           pc[r] \notin {"confirm_order", "flush_order", "flush"},
           loadedTx'[r][o] = loadedTx[r][o], txObject'[r][o] = txObject[r][o]
    PROVE  SessionTraced(r, o)'
BY DEF SessionTraced, RefundTraced, ReferenceTraced

(* A step of one session, with the rows as they were.                         *)
LEMMA TracedStep ==
    ASSUME TraceInv, UNCHANGED db, NEW r \in Request, OthersWait(r),
           \A o \in Order : SessionTraced(r, o)'
    PROVE  TraceInv'
<1>1. ASSUME NEW o \in Order PROVE RowTraced(o)'
  BY DEF TraceInv, RowTraced, db
<1>2. ASSUME NEW q \in Request \ {r}, NEW o \in Order PROVE SessionTraced(q, o)'
  BY DEF TraceInv, SessionTraced, RefundTraced, ReferenceTraced, OthersWait
<1> QED
  BY <1>1, <1>2 DEF TraceInv, SessionTraced

(* A transaction with a new status is otherwise the one it was.               *)
LEMMA NewStatusColumns ==
    ASSUME NEW row \in TxRow, NEW s
    PROVE  /\ [row EXCEPT !.status = s].refunded = row.refunded
           /\ [row EXCEPT !.status = s].provider_ref = row.provider_ref
           /\ [row EXCEPT !.status = s].method = row.method
           /\ [row EXCEPT !.status = s].status = s
BY DEF TxRow

(* A request that has just arrived holds what it read.                        *)
LEMMA ArriveFaithful ==
    ASSUME IInv, NEW r \in Request, Arrive(r), NEW o \in Order
    PROVE  Faithful(r, o)'
<1>0. TypeOK /\ pc[r] = "idle"
  BY ArriveFrame DEF IInv
<1>1. \A p \in Order : loadedTx[r][p] = NoTx /\ txObject[r][p] = NoTx
  BY <1>0, IdleHoldsNothing DEF TxUntouched
<1>2. ASSUME UNCHANGED txMap PROVE Faithful(r, o)'
  BY <1>1, <1>2 DEF Faithful, txMap
<1>3. ASSUME NEW p \in Order, NEW now, ReadTx(r, p, now),
             now.refunded = txs[p].refunded,
             now.provider_ref = txs[p].provider_ref
      PROVE  Faithful(r, o)'
  <2>1. /\ txObject'[r][p] = now
        /\ loadedTx'[r][p] = txs[p]
        /\ o # p => /\ txObject'[r][o] = txObject[r][o]
                    /\ loadedTx'[r][o] = loadedTx[r][o]
    BY <1>0, <1>3, SetFrames
  <2> QED
    BY <1>1, <1>3, <2>1 DEF Faithful
<1>4. ASSUME NEW c \in Cart, NEW p \in Order, NEW m \in Methods,
             Checkout(r, c, p, m)
      PROVE  Faithful(r, o)'
  <2>1. PICK tx : tx = NewTx(m, "pending", None)
    OBVIOUS
  <2>2. tx.refunded = 0 /\ tx.provider_ref = None
    BY <2>1 DEF NewTx
  <2>3. loadedTx' = loadedTx /\ (SetTx(r, p, tx) \/ UNCHANGED txObject)
    BY <1>4, <2>1 DEF Checkout
  <2>4. CASE SetTx(r, p, tx)
    <3>1. /\ txObject'[r][p] = tx
          /\ o # p => txObject'[r][o] = txObject[r][o]
      BY <1>0, <2>4, SetFrames
    <3> QED
      BY <1>1, <2>2, <2>3, <3>1 DEF Faithful, NoTx
  <2> QED
    BY <1>2, <2>3, <2>4 DEF txMap
<1>5. ASSUME NEW list, NEW to, StartStatusUpdate(r, list, to)
      PROVE  Faithful(r, o)'
  BY <1>2, <1>5 DEF StartStatusUpdate
<1>6. ASSUME NEW p \in Order, ConfirmCod(r, p) \/ \E n : ProcessRefund(r, p, n)
      PROVE  Faithful(r, o)'
  BY <1>2, <1>6 DEF ConfirmCod, ProcessRefund
<1>7. ASSUME NEW p \in Order, NEW ref, ConfirmPayment(r, p, ref)
      PROVE  Faithful(r, o)'
  BY <1>3, <1>7 DEF ConfirmPayment
<1>8. ASSUME NEW p \in Order,
             \/ \E i \in Intent : StripeSucceeded(r, i, p) \/ StripeFailed(r, i, p)
             \/ PaypalEvent(r, p)
      PROVE  Faithful(r, o)'
  <2>1. PICK row \in TxRow : row = txs[p]
    BY <1>0 DEF TypeOK
  <2>2. PICK s : ReadTx(r, p, [row EXCEPT !.status = s])
    BY <1>8, <2>1 DEF StripeSucceeded, StripeFailed, PaypalEvent
  <2> QED
    BY <1>3, <2>1, <2>2, NewStatusColumns
<1> QED
  BY <1>4, <1>5, <1>6, <1>7, <1>8
     DEF Arrive, UpdateOrderStatus, CancelOrder, BulkUpdateStatus

(* The checkout's transaction has no reference of Stripe and no refund.       *)
LEMMA CheckoutIntentTraced ==
    ASSUME IInv, TraceInv, NEW r \in Request, CheckoutIntent(r), NEW o \in Order
    PROVE  SessionTraced(r, o)'
<1>1. /\ pc[r] = "intent"
      /\ loadedTx' = loadedTx
      /\ TypeOK
  BY DEF CheckoutIntent, IInv
<1>2. PICK p \in Order : p = job[r].order /\ loadedTx[r][p] = NoTx
  BY <1>1 DEF IInv, SessionInv, JobInv
<1>3. PICK m : m = object[r][p].payment_method
  OBVIOUS
<1>4. PICK status, ref : /\ SetTx(r, p, NewTx(m, status, ref))
                         /\ m = "stripe" => ref = None
  BY <1>2, <1>3 DEF CheckoutIntent
<1>5. PICK tx : tx = NewTx(m, status, ref)
  OBVIOUS
<1>6. tx.refunded = 0 /\ tx.method = m /\ tx.provider_ref = ref
  BY <1>5 DEF NewTx
<1>7. /\ txObject'[r][p] = tx
      /\ o # p => txObject'[r][o] = txObject[r][o]
  BY <1>1, <1>4, <1>5, SetFrames
<1>8. CASE o = p
  BY <1>4, <1>6, <1>7, <1>8 DEF SessionTraced, RefundTraced, ReferenceTraced
<1>9. CASE o # p
  BY <1>1, <1>7, <1>9, EarlyTraced DEF TraceInv, SessionTraced
<1> QED
  BY <1>8, <1>9

(* A confirmation only sets a reference where it sets completed too, and then *)
(* goes on to the order.                                                      *)
LEMMA ConfirmTraced ==
    ASSUME IInv, TraceInv, NEW r \in Request,
           ConfirmStripe(r) \/ ConfirmPaypal(r), NEW o \in Order
    PROVE  SessionTraced(r, o)'
<1>1. pc[r] = "confirm_call" /\ Goto(r, "confirm_order") /\ loadedTx' = loadedTx
  BY Zenon DEF ConfirmStripe, ConfirmPaypal
<1>2. TypeOK /\ pc'[r] = "confirm_order" /\ job'[r].order = job[r].order
  BY <1>1, ContinueFrame, PlaceFrames DEF IInv
<1>3. PICK p \in Order : p = job[r].order
  BY <1>1 DEF IInv, SessionInv, JobInv
<1>4. PICK row \in TxRow : row = txObject[r][p]
  BY <1>2 DEF TypeOK
<1>5. PICK i : i = job[r].intent
  OBVIOUS
<1>6. ConfirmFailed(r) \/ ConfirmSucceeded(r)
  BY Zenon DEF ConfirmStripe, ConfirmPaypal
<1>7. PICK now : /\ SetTx(r, p, now)
                 /\ now.refunded = row.refunded
                 /\ now.method = row.method
                 /\ now.provider_ref = row.provider_ref \/ now.status = "completed"
  <2>1. CASE ConfirmFailed(r)
    <3>1. PICK now : now = [row EXCEPT !.status = "failed"]
      OBVIOUS
    <3>2. SetTx(r, p, now)
      BY <1>3, <1>4, <2>1, <3>1 DEF ConfirmFailed
    <3>3. /\ now.refunded = row.refunded
          /\ now.method = row.method
          /\ now.provider_ref = row.provider_ref
      BY <3>1, NewStatusColumns
    <3> QED
      BY <3>2, <3>3
  <2>2. CASE ConfirmSucceeded(r)
    <3>1. PICK now : now = [row EXCEPT !.status = "completed", !.provider_ref = i]
      OBVIOUS
    <3>2. SetTx(r, p, now)
      BY <1>3, <1>4, <1>5, <2>2, <3>1 DEF ConfirmSucceeded
    <3>3. /\ now.refunded = row.refunded
          /\ now.method = row.method
          /\ now.status = "completed"
      BY <1>4, <3>1 DEF TxRow
    <3> QED
      BY <3>2, <3>3
  <2> QED
    BY <1>6, <2>1, <2>2
<1>8. /\ txObject'[r][p] = now
      /\ o # p => txObject'[r][o] = txObject[r][o]
  BY <1>2, <1>7, SetFrames
<1>9. SessionTraced(r, o)
  BY DEF TraceInv, SessionTraced
<1>10. CASE o = p
  BY <1>1, <1>2, <1>3, <1>4, <1>7, <1>8, <1>9, <1>10
     DEF SessionTraced, RefundTraced, ReferenceTraced
<1>11. CASE o # p
  BY <1>1, <1>8, <1>9, <1>11, EarlyTraced
<1> QED
  BY <1>10, <1>11

(* An order that a payment is applied to leaves PENDING.                      *)
LEMMA AppliedStatus ==
    ASSUME NEW row \in OrderRow, row.status # "absent"
    PROVE  ApplyPayment(row).status \notin {"PENDING", "absent"}
BY DEF ApplyPayment, OrderRow

(* What a confirmation writes to the order.                                   *)
LEMMA ConfirmOrderTraced ==
    ASSUME IInv, TraceInv, NEW r \in Request, ConfirmOrder(r), NEW o \in Order
    PROVE  SessionTraced(r, o)'
<1>1. pc[r] = "confirm_order" /\ Goto(r, "flush") /\ UNCHANGED <<job, txMap>>
  BY DEF ConfirmOrder
<1>2. TypeOK /\ pc'[r] = "flush"
  BY <1>1, PlaceFrames DEF IInv
<1>3. PICK p \in Order : p = job[r].order
  BY <1>1 DEF IInv, SessionInv, JobInv
<1>4. TxEditing(r, p)
  BY <1>1, <1>3 DEF IInv, SessionInv, JobInv
<1>5. orders[p].status # "absent"
  BY <1>4, TxHasOrder DEF TxEditing, OrderExists
<1>6. ASSUME txObject[r][p].status = "completed"
      PROVE  object'[r][p].status \notin {"PENDING", "absent"}
  <2>1. PICK row \in OrderRow : row = orders[p]
    BY <1>2 DEF TypeOK
  <2>2. ReadOrder(r, p, ApplyPayment(row))
    BY <1>3, <1>6, <2>1 DEF ConfirmOrder
  <2>3. object'[r][p] = ApplyPayment(row)
    BY <1>2, <2>2, SetFrames
  <2> QED
    BY <1>5, <2>1, <2>3, AppliedStatus
<1>7. SessionTraced(r, o)
  BY DEF TraceInv, SessionTraced
<1> QED
  BY <1>1, <1>2, <1>3, <1>6, <1>7
     DEF SessionTraced, RefundTraced, ReferenceTraced, txMap

(* A refund marks the order where it records the amount.                      *)
LEMMA RefundStripeTraced ==
    ASSUME IInv, TraceInv, NEW r \in Request, RefundStripe(r), NEW o \in Order
    PROVE  SessionTraced(r, o)'
<1>1. pc[r] = "refund_call" /\ Goto(r, "flush_order") /\ loadedTx' = loadedTx
  BY DEF RefundStripe
<1>2. TypeOK /\ pc'[r] = "flush_order"
  BY <1>1, PlaceFrames DEF IInv
<1>3. PICK p \in Order : p = job[r].order
  BY <1>1 DEF IInv, SessionInv, JobInv
<1>4. PICK tx \in TxRow, row \in OrderRow :
          tx = txObject[r][p] /\ row = object[r][p]
  BY <1>2 DEF TypeOK
<1>5. PICK now, order : /\ now = [tx EXCEPT !.status = "refunded",
                                        !.refunded = job[r].amount]
                        /\ order = [row EXCEPT !.status = "REFUNDED"]
  OBVIOUS
<1>6. SetTx(r, p, now) /\ SetOrder(r, p, order)
  BY <1>3, <1>4, <1>5 DEF RefundStripe
<1>7. /\ now.provider_ref = tx.provider_ref
      /\ now.method = tx.method
      /\ order.status = "REFUNDED"
  BY <1>4, <1>5 DEF TxRow, OrderRow
<1>8. /\ txObject'[r][p] = now
      /\ object'[r][p] = order
      /\ o # p => txObject'[r][o] = txObject[r][o]
  BY <1>2, <1>6, SetFrames
<1>9. SessionTraced(r, o)
  BY DEF TraceInv, SessionTraced
<1>10. CASE o = p
  BY <1>1, <1>2, <1>4, <1>7, <1>8, <1>9, <1>10
     DEF SessionTraced, RefundTraced, ReferenceTraced
<1>11. CASE o # p
  BY <1>1, <1>8, <1>9, <1>11, EarlyTraced
<1> QED
  BY <1>10, <1>11

(* A status that is committed over a row the session has read is one the      *)
(* order has had from then on, whether the UPDATE names the column or not.    *)
LEMMA CommittedStatus ==
    ASSUME IInv, IInv', NEW r \in Request, Commit(r), NEW o \in Order,
           Editing(r, o), object[r][o].status # "absent"
    PROVE  object[r][o].status \in seen'[o]
<1>1. PICK row, was, now :
          row = orders[o] /\ was = loaded[r][o] /\ now = object[r][o]
  OBVIOUS
<1>2. orders'[o].status = Column(row.status, was.status, now.status)
  BY <1>1 DEF Commit, MergeOrder
<1>3. seen'[o] = seen[o] \cup ({orders'[o].status} \ {"absent"})
  BY DEF Commit
<1>4. was.status \in seen[o]
  BY <1>1 DEF Editing
<1> QED
  BY <1>1, <1>2, <1>3, <1>4 DEF Column

(* The steps that read or flush an order leave the other sessions alone.      *)
LEMMA QuietFrame ==
    ASSUME IInv, NEW r \in Request,
           \/ ClearCart(r) \/ NextOrder(r) \/ FlushOne(r)
           \/ StripeOrder(r) \/ PaypalOrder(r) \/ ConfirmOrder(r)
    PROVE  OthersWait(r)
<1>1. TypeOK
  BY DEF IInv
<1>2. UNCHANGED txMap
  BY Zenon
     DEF ClearCart, NextOrder, FlushOne, StripeOrder, PaypalOrder, ConfirmOrder
<1>3. \/ UNCHANGED pc
      \/ \E point : Goto(r, point)
  BY Zenon
     DEF ClearCart, NextOrder, FlushOne, StripeOrder, PaypalOrder, ConfirmOrder
<1>4. \/ UNCHANGED job
      \/ job' = [job EXCEPT ![r].todo = Tail(@)]
  BY Zenon
     DEF ClearCart, NextOrder, FlushOne, StripeOrder, PaypalOrder, ConfirmOrder
<1>5. OthersPlaces(r)
  BY <1>1, <1>3, <1>4, PlaceFrames DEF OthersPlaces, TypeOK
<1>6. UNCHANGED orderMap \/ \E o \in Order : \E now : ReadOrder(r, o, now)
  <2>1. CASE ClearCart(r) \/ FlushOne(r)
    BY <2>1 DEF ClearCart, FlushOne
  <2>2. CASE NextOrder(r)
    <3>1. job[r].todo \in Seq(Order) /\ job[r].todo # <<>>
      BY <1>1, <2>2 DEF NextOrder, TypeOK, Job
    <3>2. Head(job[r].todo) \in Order
      BY <3>1
    <3> QED
      BY <2>2, <3>2 DEF NextOrder
  <2>3. CASE StripeOrder(r) \/ PaypalOrder(r) \/ ConfirmOrder(r)
    <3>1. job[r].order \in Order
      BY <2>3 DEF IInv, SessionInv, JobInv, StripeOrder, PaypalOrder, ConfirmOrder
    <3> QED
      BY <2>3, <3>1, Zenon DEF StripeOrder, PaypalOrder, ConfirmOrder
  <2> QED
    BY <2>1, <2>2, <2>3
<1>7. CASE UNCHANGED orderMap
  BY <1>2, <1>5, <1>7 DEF OthersWait, OthersPlaces, orderMap, txMap
<1>8. CASE \E o \in Order : \E now : ReadOrder(r, o, now)
  BY <1>1, <1>2, <1>5, <1>8, ReadOrderFrame
<1> QED
  BY <1>6, <1>7, <1>8

(* A commit records what the session accounts for.                            *)
LEMMA CommitRowTraced ==
    ASSUME IInv, IInv', TraceInv, NEW r \in Request, Commit(r), NEW o \in Order
    PROVE  RowTraced(o)'
<1>1. PICK row \in TxRow, was \in TxRow, now \in TxRow :
          row = txs[o] /\ was = loadedTx[r][o] /\ now = txObject[r][o]
  BY DEF IInv, TypeOK
<1>2. PICK new \in TxRow : new = MergeTx(row, was, now) /\ new = txs'[o]
  BY <1>1, MergeType DEF Commit
<1>3. /\ new.provider_ref =
            Column(row.provider_ref, was.provider_ref, now.provider_ref)
      /\ new.method = Column(row.method, was.method, now.method)
      /\ new.refunded = Column(row.refunded, was.refunded, now.refunded)
  BY <1>2 DEF MergeTx
<1>4. RowTraced(o) /\ RefundTraced(r, o) /\ ReferenceTraced(r, o)
  BY DEF TraceInv
<1>5. seen[o] \subseteq seen'[o]
  BY DEF Commit
<1>6. OrderInv(r, o) /\ TxInv(r, o)
  BY DEF IInv, SessionInv
<1>7. ASSUME NEW s, object[r][o].status = s, s \notin {"PENDING", "absent"}
      PROVE  s \in seen'[o]
  <2>1. Editing(r, o)
    BY <1>6, <1>7 DEF OrderInv, Untouched, Placing, NoOrder
  <2> QED
    BY <1>7, <2>1, CommittedStatus
<1>8. TxUntouched(r, o) \/ TxPlacing(r, o) \/ TxEditing(r, o)
  BY <1>6 DEF TxInv
<1>9. pc[r] \notin {"confirm_order", "flush_order"}
  BY DEF Commit
<1>10. \A x \in {row, was, now, new} :
          x.refunded \in Nat /\ x.provider_ref \in Intent \cup {None}
  BY OrderPaymentsAssumption DEF TxRow
<1>11. ASSUME new.refunded > 0 PROVE "REFUNDED" \in seen'[o]
  <2>1. CASE row.refunded > 0
    BY <1>1, <1>4, <1>5, <2>1 DEF RowTraced
  <2>2. CASE ~ row.refunded > 0
    <3>1. new.refunded = now.refunded /\ now.refunded > 0
      BY <1>3, <1>11, <2>2 DEF Column
    <3>2. ~ was.refunded > 0
      <4>1. CASE TxUntouched(r, o) \/ TxPlacing(r, o)
        BY <1>1, <4>1 DEF TxUntouched, TxPlacing, NoTx
      <4>2. CASE TxEditing(r, o)
        BY <1>1, <2>2, <4>2 DEF TxEditing
      <4> QED
        BY <1>8, <4>1, <4>2
    <3> QED
      BY <1>1, <1>4, <1>7, <3>1, <3>2 DEF RefundTraced
  <2> QED
    BY <2>1, <2>2
<1>12. ASSUME new.method = "stripe", new.provider_ref # None
       PROVE  seen'[o] \ {"PENDING"} # {}
  <2>1. CASE row.method = "stripe" /\ row.provider_ref # None
    BY <1>1, <1>4, <1>5, <2>1 DEF RowTraced
  <2>2. CASE ~ (row.method = "stripe" /\ row.provider_ref # None)
    <3>1. /\ now.method = "stripe"
          /\ now.provider_ref # None
          /\ was.provider_ref = None
      <4>1. CASE TxUntouched(r, o)
        BY <1>1, <1>3, <1>12, <2>2, <4>1 DEF TxUntouched, Column
      <4>2. CASE TxPlacing(r, o)
        <5>1. row = NoTx /\ was = NoTx
          BY <1>1, <4>2 DEF TxPlacing, Placing, IInv, RowInv
        <5> QED
          BY <1>3, <1>12, <5>1 DEF NoTx, Column
      <4>3. CASE TxEditing(r, o)
        <5>1. /\ was.method = row.method
              /\ now.method = row.method
              /\ was.provider_ref \in Intent => row.provider_ref \in Intent
          BY <1>1, <4>3 DEF TxEditing
        <5>2. row.method = "stripe"
          BY <1>3, <1>12, <5>1 DEF Column
        <5>3. row.provider_ref = None /\ None \notin Intent
          BY <2>2, <5>2, OrderPaymentsAssumption
        <5> QED
          BY <1>3, <1>10, <1>12, <5>1, <5>2, <5>3 DEF Column
      <4> QED
        BY <1>8, <4>1, <4>2, <4>3
    <3>2. object[r][o].status \notin {"PENDING", "absent"}
      BY <1>1, <1>4, <1>9, <3>1 DEF ReferenceTraced
    <3>3. object[r][o].status \in seen'[o]
      BY <1>7, <3>2
    <3> QED
      BY <3>2, <3>3
  <2> QED
    BY <2>1, <2>2
<1> QED
  BY <1>2, <1>11, <1>12 DEF RowTraced

(* A closed session has nothing to account for.                               *)
LEMMA EndedTraced ==
    ASSUME IInv, NEW r \in Request, EndRequest(r), NEW o \in Order
    PROVE  SessionTraced(r, o)'
<1>1. loadedTx'[r][o] = NoTx /\ txObject'[r][o] = NoTx
  BY Ended
<1> QED
  BY <1>1, OrderPaymentsAssumption
     DEF SessionTraced, RefundTraced, ReferenceTraced, NoTx

(* Nothing is recorded at first.                                              *)
LEMMA TraceInit == Init => TraceInv
BY DEF Init, TraceInv, RowTraced, RefundTraced, ReferenceTraced, NoTx, NoOrder

(* What is recorded was recorded with its reason.                             *)
LEMMA TraceNext == IInv /\ IInv' /\ TraceInv /\ [Next]_vars => TraceInv'
<1> SUFFICES ASSUME IInv, IInv', TraceInv, [Next]_vars PROVE TraceInv'
  OBVIOUS
<1>1. ASSUME UNCHANGED <<db, pc, job, orderMap, txMap>> PROVE TraceInv'
  BY <1>1
     DEF TraceInv, RowTraced, RefundTraced, ReferenceTraced, db, orderMap, txMap
<1>2. CASE Outside
  BY <1>1, <1>2
     DEF Outside, AddToCart, CustomerPays, CustomerDeclined, CreatePaymentIntent
<1>3. ASSUME NEW r \in Request, Arrive(r) PROVE TraceInv'
  <2>1. OthersWait(r)
    BY <1>3, ArriveFrame
  <2>2. UNCHANGED db
    BY <1>3, Zenon
       DEF Arrive, Checkout, UpdateOrderStatus, CancelOrder, BulkUpdateStatus,
           StartStatusUpdate, ConfirmPayment, ConfirmCod, ProcessRefund,
           StripeSucceeded, StripeFailed, PaypalEvent
  <2>3. \A o \in Order : SessionTraced(r, o)'
    <3>1. ASSUME NEW o \in Order PROVE SessionTraced(r, o)'
      <4>1. Faithful(r, o)'
        BY <1>3, ArriveFaithful
      <4> QED
        BY <4>1 DEF Faithful, SessionTraced, RefundTraced, ReferenceTraced
    <3> QED
      BY <3>1
  <2> QED
    BY <2>1, <2>2, <2>3, TracedStep
<1>4. ASSUME NEW r \in Request, Continue(r) PROVE TraceInv'
  <2>0. \A o \in Order : SessionTraced(r, o)
    BY DEF TraceInv, SessionTraced
  <2>1. CASE \/ CheckoutIntent(r) \/ ConfirmStripe(r) \/ ConfirmPaypal(r)
             \/ RefundStripe(r)
    <3>1. OthersWait(r)
      BY <2>1, ContinueFrame
    <3>2. UNCHANGED db
      BY <2>1, Zenon DEF CheckoutIntent, ConfirmStripe, ConfirmPaypal, RefundStripe
    <3>3. \A o \in Order : SessionTraced(r, o)'
      BY <2>1, CheckoutIntentTraced, ConfirmTraced, RefundStripeTraced
    <3> QED
      BY <3>1, <3>2, <3>3, TracedStep
  <2>2. CASE RefundReadTx(r)
    <3>1. OthersWait(r)
      BY <2>2, ContinueFrame
    <3>2. /\ UNCHANGED db
          /\ pc[r] = "refund_tx"
          /\ ReadTx(r, job[r].order, txs[job[r].order])
      BY <2>2 DEF RefundReadTx
    <3>3. PICK p \in Order : p = job[r].order
      BY <3>2 DEF IInv, SessionInv, JobInv
    <3>4. /\ txObject'[r][p] = txs[p]
          /\ loadedTx'[r][p] = txs[p]
          /\ \A o \in Order \ {p} : /\ txObject'[r][o] = txObject[r][o]
                                    /\ loadedTx'[r][o] = loadedTx[r][o]
      BY <3>2, <3>3, SetFrames DEF IInv
    <3>5. SessionTraced(r, p)'
      BY <3>4 DEF SessionTraced, RefundTraced, ReferenceTraced
    <3>6. \A o \in Order \ {p} : SessionTraced(r, o)'
      BY <2>0, <3>2, <3>4, EarlyTraced
    <3> QED
      BY <3>1, <3>2, <3>5, <3>6, TracedStep
  <2>3. CASE \/ ClearCart(r) \/ NextOrder(r) \/ FlushOne(r)
             \/ StripeOrder(r) \/ PaypalOrder(r)
    <3>1. /\ UNCHANGED db
          /\ UNCHANGED txMap
          /\ pc[r] \in {"clear_cart", "next_order", "flush_one", "stripe_order",
                        "paypal_order"}
      BY <2>3, Zenon DEF ClearCart, NextOrder, FlushOne, StripeOrder, PaypalOrder
    <3>2. OthersWait(r)
      BY <2>3, QuietFrame
    <3>3. \A o \in Order : SessionTraced(r, o)'
      BY <2>0, <3>1, EarlyTraced DEF txMap
    <3> QED
      BY <3>1, <3>2, <3>3, TracedStep
  <2>4. CASE ConfirmOrder(r)
    <3>1. UNCHANGED db /\ OthersWait(r)
      BY <2>4, QuietFrame DEF ConfirmOrder
    <3>2. \A o \in Order : SessionTraced(r, o)'
      BY <2>4, ConfirmOrderTraced
    <3> QED
      BY <3>1, <3>2, TracedStep
  <2>5. CASE RefundFlushOrder(r)
    <3>1. /\ pc[r] = "flush_order"
          /\ Goto(r, "flush")
          /\ UNCHANGED <<db, job, orderMap, txMap>>
      BY <2>5 DEF RefundFlushOrder
    <3>2. OthersWait(r) /\ pc'[r] = "flush"
      BY <3>1, PlaceFrames DEF IInv, OthersWait, orderMap, txMap
    <3>3. \A o \in Order : SessionTraced(r, o)'
      BY <2>0, <3>1, <3>2
         DEF SessionTraced, RefundTraced, ReferenceTraced, orderMap, txMap
    <3> QED
      BY <3>1, <3>2, <3>3, TracedStep
  <2>6. CASE RefundRefused(r) \/ DeadlockVictim(r)
    <3>1. EndRequest(r) /\ UNCHANGED db
      BY <2>6 DEF RefundRefused, DeadlockVictim
    <3> QED
      BY <3>1, Ended, EndedTraced, TracedStep
  <2>7. CASE Commit(r)
    <3>1. EndRequest(r)
      BY <2>7 DEF Commit
    <3>2. \A o \in Order : RowTraced(o)'
      BY <2>7, CommitRowTraced
    <3>3. \A o \in Order : SessionTraced(r, o)'
      BY <3>1, EndedTraced
    <3>4. ASSUME NEW q \in Request \ {r}, NEW o \in Order PROVE SessionTraced(q, o)'
      BY <3>1, Ended
         DEF TraceInv, SessionTraced, RefundTraced, ReferenceTraced, OthersWait
    <3> QED
      BY <3>2, <3>3, <3>4 DEF TraceInv, SessionTraced
  <2> QED
    BY <1>4, <2>1, <2>2, <2>3, <2>4, <2>5, <2>6, <2>7 DEF Continue
<1>5. ASSUME NEW r \in Request, Rollback(r) PROVE TraceInv'
  <2>1. EndRequest(r) /\ UNCHANGED db
    BY <1>5 DEF Rollback
  <2> QED
    BY <2>1, Ended, EndedTraced, TracedStep
<1>6. CASE UNCHANGED vars
  BY <1>1, <1>6 DEF vars
<1> QED
  BY <1>2, <1>3, <1>4, <1>5, <1>6 DEF Next

(* Only a refund makes the provider give anything back.                       *)
LEMMA OnlyRefundsGive ==
    ASSUME IInv, [Next]_vars, \A r \in Request : ~ RefundStripe(r)
    PROVE  \A i \in Intent : intents'[i].given = intents[i].given
<1>1. ASSUME NEW i \in Intent, NEW row \in IntentRow,
             intents' = [intents EXCEPT ![i] = row], row.given = intents[i].given
      PROVE  \A j \in Intent : intents'[j].given = intents[j].given
  BY <1>1 DEF IInv, TypeOK
<1>2. ASSUME NEW i \in Intent, NEW m \in PaymentMethod, OpenIntent(i, m)
      PROVE  \A j \in Intent : intents'[j].given = intents[j].given
  <2>1. PICK row \in IntentRow :
            row = [NoIntent EXCEPT !.method = m, !.status = "open"]
    BY FreshTypes
  <2>2. row.given = intents[i].given /\ intents' = [intents EXCEPT ![i] = row]
    BY <1>2, <2>1 DEF OpenIntent, NoIntent
  <2> QED
    BY <1>1, <2>2
<1>3. ASSUME NEW i \in Intent, NEW st \in {"approved", "succeeded"},
             intents' = [intents EXCEPT ![i].status = st]
      PROVE  \A j \in Intent : intents'[j].given = intents[j].given
  <2>1. PICK row \in IntentRow : row = [intents[i] EXCEPT !.status = st]
    BY ColumnTypes DEF IInv, TypeOK
  <2>2. row.given = intents[i].given /\ intents' = [intents EXCEPT ![i] = row]
    BY <1>3, <2>1 DEF IInv, TypeOK, IntentRow
  <2> QED
    BY <1>1, <2>2
<1>4. CASE Outside
  <2>1. CASE \E c \in Cart : AddToCart(c)
    BY <2>1 DEF AddToCart
  <2>2. ASSUME NEW i \in Intent, CustomerPays(i)
        PROVE  \A j \in Intent : intents'[j].given = intents[j].given
    BY <1>3, <2>2 DEF CustomerPays
  <2>3. ASSUME NEW i \in Intent, CustomerDeclined(i)
        PROVE  \A j \in Intent : intents'[j].given = intents[j].given
    <3>1. PICK row \in IntentRow : row = [intents[i] EXCEPT !.declined = TRUE]
      BY ColumnTypes DEF IInv, TypeOK
    <3>2. row.given = intents[i].given /\ intents' = [intents EXCEPT ![i] = row]
      BY <2>3, <3>1 DEF CustomerDeclined, IInv, TypeOK, IntentRow
    <3> QED
      BY <1>1, <3>2
  <2>4. ASSUME NEW o \in Order, NEW i \in Intent,
               NEW m \in Methods \cap {"stripe", "paypal"},
               CreatePaymentIntent(o, i, m)
        PROVE  \A j \in Intent : intents'[j].given = intents[j].given
    BY <1>2, <2>4, OrderPaymentsAssumption DEF CreatePaymentIntent
  <2> QED
    BY <1>4, <2>1, <2>2, <2>3, <2>4 DEF Outside
<1>5. ASSUME NEW r \in Request, Arrive(r) PROVE UNCHANGED intents
  BY <1>5, Zenon
     DEF Arrive, Checkout, UpdateOrderStatus, CancelOrder, BulkUpdateStatus,
         StartStatusUpdate, ConfirmPayment, ConfirmCod, ProcessRefund,
         StripeSucceeded, StripeFailed, PaypalEvent
<1>6. ASSUME NEW r \in Request, Continue(r)
      PROVE  \A j \in Intent : intents'[j].given = intents[j].given
  <2>1. CASE CheckoutIntent(r)
    <3>1. PICK m \in {"stripe", "paypal"} : m = object[r][job[r].order].payment_method
      BY <2>1 DEF CheckoutIntent
    <3>2. UNCHANGED intents \/ \E i \in Intent : OpenIntent(i, m)
      BY <2>1, <3>1 DEF CheckoutIntent
    <3> QED
      BY <1>2, <3>2 DEF PaymentMethod
  <2>2. CASE ConfirmPaypal(r)
    <3>1. PICK i \in Intent : i = job[r].intent
      BY <2>2 DEF ConfirmPaypal, IInv, SessionInv, JobInv
    <3>2. \/ UNCHANGED intents
          \/ intents' = [intents EXCEPT ![i].status = "succeeded"]
      BY <2>2, <3>1 DEF ConfirmPaypal
    <3> QED
      BY <1>3, <3>2
  <2>3. CASE ~ CheckoutIntent(r) /\ ~ ConfirmPaypal(r)
    <3>1. UNCHANGED intents
      BY <1>6, <2>3, Zenon
         DEF Continue, ClearCart, NextOrder, FlushOne, ConfirmStripe,
             ConfirmOrder, RefundReadTx, RefundRefused, RefundFlushOrder,
             StripeOrder, PaypalOrder, Commit, DeadlockVictim
    <3> QED
      BY <3>1
  <2> QED
    BY <2>1, <2>2, <2>3
<1>7. ASSUME NEW r \in Request, Rollback(r) PROVE UNCHANGED intents
  BY <1>7 DEF Rollback
<1>8. CASE UNCHANGED vars
  BY <1>8 DEF vars
<1> QED
  BY <1>4, <1>5, <1>6, <1>7, <1>8 DEF Next

(* Rows only grow in any step.                                                *)
LEMMA RowsStep ==
    ASSUME IInv, IInv', [Next]_vars
    PROVE  RowsGrow
<1>1. CASE UNCHANGED db
  BY <1>1, GrowStep, RowsKept DEF IInv
<1> QED
  BY <1>1, CommitsOrNot, CommitGrows DEF IInv

(* What the provider gives back, it gives on a reference the order's          *)
(* transaction had when it was read; only a charged one can replace it.       *)
RepaidInv == \A o \in Order : o \in Repaid => Charged(o)

(* Nothing is given back at first.                                            *)
LEMMA RepaidInit == Init => RepaidInv
BY DEF Init, RepaidInv, Repaid, NoIntent

(* Every step keeps it.                                                       *)
LEMMA RepaidNext == IInv /\ IInv' /\ RepaidInv /\ [Next]_vars => RepaidInv'
<1> SUFFICES ASSUME IInv, IInv', RepaidInv, [Next]_vars, NEW o \in Order,
                    (o \in Repaid)'
             PROVE  Charged(o)'
  BY DEF RepaidInv
<1>1. RowsGrow
  BY RowsStep
<1>2. CASE o \in Repaid
  BY <1>1, <1>2 DEF RepaidInv, RowsGrow
<1>3. CASE o \notin Repaid
  <2>1. PICK r \in Request : RefundStripe(r)
    BY <1>3, OnlyRefundsGive DEF Repaid
  <2>2. PICK p \in Order : p = job[r].order /\ TxEditing(r, p)
    <3>1. pc[r] = "refund_call"
      BY <2>1, Zenon DEF RefundStripe
    <3> QED
      BY <3>1 DEF IInv, SessionInv, JobInv
  <2>3. loadedTx[r][p] \in TxRow
    BY DEF IInv, TypeOK
  <2>4. PICK i \in Intent : /\ i = loadedTx[r][p].provider_ref
                            /\ ChargedOn(i)
    BY <2>1, <2>2, <2>3 DEF RefundStripe, ChargedOn, TxRow
  <2>5. PICK amount \in 0..Total : amount = job[r].amount
    BY DEF IInv, TypeOK, Job
  <2>6. PICK row \in IntentRow :
            /\ row = AfterRefund(intents[i], p, amount)
            /\ \A q \in Order \ {p} : row.given[q] = intents[i].given[q]
    <3>1. intents[i].refunded + amount <= Total
      BY <2>1, <2>2, <2>4, <2>5 DEF RefundStripe
    <3> QED
      BY <3>1, AfterRefundType DEF IInv, TypeOK
  <2>7. intents' = [intents EXCEPT ![i] = row]
    BY <2>1, <2>2, <2>4, <2>5, <2>6 DEF RefundStripe, AfterRefund
  <2>8. \A j \in Intent, q \in Order \ {p} :
            intents'[j].given[q] = intents[j].given[q]
    BY <2>6, <2>7 DEF IInv, TypeOK
  <2>9. o = p
    BY <1>3, <2>8 DEF Repaid
  <2>10. Charged(o)
    BY <2>2, <2>4, <2>9 DEF TxEditing, Charged
  <2> QED
    BY <1>1, <2>10 DEF RowsGrow
<1> QED
  BY <1>2, <1>3

(* Nothing reads as paid that nobody charged, unless an event was posted for  *)
(* it; whoever replaces a charged reference has another charged one.  The     *)
(* reference of a Stripe transaction was charged, and its order has left      *)
(* PENDING: the reference is stored with the order's new status.              *)
THEOREM PaymentsBacked == Spec => []PaidIsBacked
<1>1. IInv /\ TraceInv => PaidIsBacked
  <2> SUFFICES ASSUME IInv, TraceInv, NEW o \in Order
               PROVE  /\ \/ txs[o].status = "completed"
                         \/ /\ orders[o].payment_status = "completed"
                            /\ orders[o].payment_method \in {"stripe", "paypal"}
                         => o \in claimed \/ Charged(o)
                      /\ txs[o].method = "stripe" /\ txs[o].provider_ref # None =>
                          Charged(o) /\ seen[o] \ {"PENDING"} # {}
    BY DEF PaidIsBacked
  <2>1. OrderBacked(orders[o], o) /\ TxBacked(txs[o], o)
    BY DEF IInv, RowInv
  <2>2. PICK row \in TxRow : row = txs[o]
    BY DEF IInv, TypeOK
  <2>3. row.provider_ref # None <=> row.provider_ref \in Intent
    BY OrderPaymentsAssumption DEF TxRow
  <2>4. row.method = "stripe" /\ row.provider_ref # None =>
            seen[o] \ {"PENDING"} # {}
    BY <2>2 DEF TraceInv, RowTraced
  <2> QED
    BY <2>1, <2>2, <2>3, <2>4 DEF OrderBacked, TxBacked, Online, Charged
<1> QED
  BY <1>1, TraceInit, TraceNext, Invariance, InvInit, InvNext, PTL DEF Spec

(* A transaction that reads refunded was refunded by the provider for this    *)
(* order, which gives back only where the order's transaction has a charged   *)
(* reference; and where an amount is recorded the order was REFUNDED: the two *)
(* are written by one session and committed together, and a status once       *)
(* written is one the order has had.                                          *)
THEOREM RefundsBacked == Spec => []RefundIsBacked
<1>1. IInv /\ TraceInv /\ RepaidInv => RefundIsBacked
  <2> SUFFICES ASSUME IInv, TraceInv, RepaidInv PROVE RefundIsBacked
    OBVIOUS
  <2>1. \A o \in Order : TxBacked(txs[o], o)
    BY DEF IInv, RowInv
  <2>2. \A o \in Order : txs[o].refunded > 0 => "REFUNDED" \in seen[o]
    BY DEF TraceInv, RowTraced
  <2> QED
    BY <2>1, <2>2 DEF RefundIsBacked, TxBacked, RepaidInv
<1> QED
  BY <1>1, TraceInit, TraceNext, RepaidInit, RepaidNext, Invariance, InvInit,
     InvNext, PTL DEF Spec

================================================================================
