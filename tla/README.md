# QR-menu SaaS: TLA+ models, model checks and proofs

This directory is a formal model of the QR-menu ordering platform (FastAPI,
async SQLAlchemy on PostgreSQL, Redis, Celery). Paths like
`app/services/order_service.py` are relative to the repository.

Modelled: orders, their payments and the database session every request runs
in; WhatsApp acceptance; kitchen displays and the rooms they listen in;
deliveries and drivers; intake of third-party orders; reconciliation, payouts
and reports; the menu, carts, tables and the cache behind them. Every safety
property below is model-checked on small instances and proved for any.

## 1. Inventory

| component | state it keeps | operations | hard behaviour | what makes it correct |
|---|---|---|---|---|
| Orders (`order_service.py`, `endpoints/orders.py`) | rows of `orders`, `order_items` | checkout, status update, cancel, bulk update | the status is read, checked against the table and written by primary key without a lock or version | every status is a transition from one the order had; no stage skipped |
| Payments (`payment_service.py`, `endpoints/payments.py`) | rows of `payment_transactions`; intents at Stripe and PayPal | intent, confirm, cash confirm, refund, two webhooks | awaits the provider between read and write; events late, repeated, reordered; refund made before it is recorded | nothing reads paid that nobody charged or claimed, nothing refunded that was not given back |
| Session (`db/session.py`) | identity map, row locks | commit on return, rollback on exception | locks held over the whole request; deadlock | every request ends |
| Cart and cache (`cart_service.py`, `core/cache.py`) | Redis `cart:{token}`; per-process memory when Redis fails | get, add, update, remove, clear | read-modify-write without a lock; fallback splits the state per process | no lost item; a cart makes one order |
| WhatsApp acceptance (`whatsapp_service.py`, `endpoints/whatsapp.py`) | cache record per order; in-process timeout task | request, respond, webhook, timeout | timeout races the answer; cached before the commit; lost on restart | an accepted order is not rejected; the record agrees with the order |
| Celery (`core/celery_tasks.py`) | none of its own | auto reconciliation, acceptance timeouts, driver cleanup | runs beside the API, two replicas | each task's effect is committed once |
| Connection manager (`core/websocket_manager.py`) | connections, rooms, metadata | connect, disconnect, subscribe, broadcast | a handler may fail before the `try` that disconnects | rooms hold the connections that listen in them, and no others |
| WebSocket endpoints, kitchen display (`endpoints/websocket.py`, `endpoints/kds.py`, `kds_service.py`) | one session per connection | bump, status update, refresh | one transaction spans a connection; broadcast before commit | what is announced is what is committed |
| Delivery (`delivery_service.py`) | drivers, zones, assignments | create, update status, auto assign | two assignments pick one driver; a final status repeats | a driver carries one order; deliveries counted once |
| Driver tracking (`driver_tracking_service.py`) | driver rows, `orders.driver_id` | location, assign, pickup, delivery | writes the same rows in another vocabulary; a driver confirms another's delivery | an assigned driver knows his order |
| Third party (`third_party_service.py`) | ingested orders, fallback records | ingest, status, failure handling | duplicate check and insert are two statements; the fallback renames the source | an external order exists once |
| Reconciliation (`reconciliation_service.py`) | runs, discrepancies, ledger, payouts, settlements | run, resolve, sync, report | boundaries of tolerance and threshold; two syncs; failure half way | the classification covers every case; a payout exists once |
| Tables and QR (`endpoints/tables.py`, `endpoints/qr.py`, `qr_service.py`) | tables, pictures of codes, sessions | create, change, new code, scan, validate | the picture is written before the commit; two requests for a new code | the picture a table names leads to that table |
| Menu (`endpoints/menu.py`) | categories, items, links to modifiers; two cached listings | CRUD, listings, public menu | the cache is cleared before the commit; the public menu never | no listing is older than its time to live |
| Business hours, acceptance settings | rows | CRUD, `is_open` | boundaries of times | not modelled: nothing asks |
| Auth (`auth_service.py`, `core/auth.py`, `core/security.py`) | users, tokens | login, refresh, guards | tokens outlive what they name | a request acts for one merchant |
| Analytics (`analytics_service.py`) | none | reports by period | several SELECTs while orders change; ends of periods | periods tile the calendar; parts of a report fit together |
| Web clients, deployment | none that other parts read | pages, manifests | - | not modelled |

How they interact: endpoints call services with the request's session; the
session commits after the handler returned. Payments write both a transaction
and its order; staff, payments, WhatsApp answers, the kitchen display, driver
tracking and third-party events all write `orders.status`. Carts and
acceptance records are in Redis, outside the transaction. WebSocket broadcasts
leave before the commit. The deployment has several API processes (gunicorn
workers times Kubernetes replicas) and two Celery workers, so two requests for
one order really overlap.

`PROJECT.json` lists every hazard found so far, with its line, and the
property that covers it or why none does yet.

## 2. Plan

In the order written:

1. `OrderStatus`: the two status vocabularies, the conversion, the transition table.
2. `OrderPayments`: orders, payments, sessions (the core).
3. `OrderLifecycle`: abstract specification of an order's status, implemented by `OrderPayments`.
4. `OrderPaymentsProofs`: its invariants and the refinement, proved.
5. `Acceptance`: cache record, timeout task, merchant's answer and order status; implements `OrderLifecycle`, in an environment that `OrderLifecycle` describes.
6. `AcceptanceProofs`: its invariants and the refinement, proved.
7. `SocketRooms`: the connection manager's operations; `KitchenDisplays` extends it with the handlers of both displays and their sessions.
8. `Delivery`: both services that write drivers, and the cleanup task.
9. `ThirdParty`: connections, intake, retries and fallback.
10. `Reconciliation`: ledger, runs, payouts, settlements; `Analytics` extends it with the reports that read orders and runs.
11. `Cache`: Redis with the memory behind it; `Menu` extends it, `Carts` extends `Menu` (a cart copies prices of items), `Tables` stands alone. `MCDining` puts them together.

12. `KitchenDisplaysProofs`, `DeliveryProofs`, `ThirdPartyProofs`, `TablesProofs`, `BooksProofs`, `DiningProofs` (menu and carts, and their composition with `Tables`): an inductive invariant for each of these, and the properties of its run from it.

No module declares a `RECURSIVE` operator.

## 3. The core: `OrderPayments`

### State

| variable | code |
|---|---|
| `orders`, `txs` | committed rows; only columns the handlers decide on (`status`, `payment_status`, `payment_method`; `status`, `method`, `provider_ref`, `refunded_amount`) |
| `seen` | history variable: statuses an order was committed with |
| `orderLock`, `txLock` | PostgreSQL row locks taken by UPDATE |
| `pc`, `job` | where a handler is and its arguments and locals |
| `loaded`, `object`, `loadedTx`, `txObject` | the session's identity map: columns as read, columns as set |
| `carts` | does `cart:{token}` hold items |
| `intents` | the provider: what Stripe or PayPal knows of one payment intent (external); `given` is the history of what it refunded, by the order that was asked for |
| `claimed` | history: the orders a PayPal event has spoken of |

A step of a request runs from one await that matters to the next: a provider
call, a statement that may wait for a row lock, a read whose result is used
after another await. `expire_on_commit=False` and one session per request mean
that a row is read once and then taken from the identity map. SQLAlchemy sends
the columns whose value differs from the one read; `MergeOrder` and `MergeTx`
say exactly this. A SELECT made while a transaction object is dirty flushes it
first (autoflush); that is why confirmations and webhooks lock the transaction
before the order, while the refund flushes both in table order.

### Actions

| actions | code |
|---|---|
| `Checkout`, `CheckoutIntent`, `ClearCart` | `OrderService.create_order_from_cart` (`order_service.py`) with `PaymentService.create_payment_intent` |
| `UpdateOrderStatus`, `CancelOrder`, `BulkUpdateStatus`, `NextOrder`, `FlushOne` | the three staff endpoints of `endpoints/orders.py` and `OrderService.update_status` |
| `CreatePaymentIntent` | `POST /payments/intent` |
| `ConfirmPayment`, `ConfirmStripe`, `ConfirmPaypal`, `ConfirmOrder` | `POST /payments/confirm` |
| `ConfirmCod` | `POST /payments/cod/{id}/confirm` |
| `ProcessRefund`, `RefundReadTx`, `RefundStripe`, `RefundRefused`, `RefundFlushOrder` | `POST /payments/refund` |
| `StripeSucceeded`, `StripeOrder`, `StripeFailed`, `PaypalEvent`, `PaypalOrder` | the two webhooks |
| `Commit`, `Rollback` | the two ends of `get_db` |
| `AddToCart`, `CustomerPays`, `CustomerDeclined`, `DeadlockVictim` | the environment: customers, the provider, PostgreSQL's deadlock detector |

`ConfirmPayment` takes *any* reference for any transaction: the code asks the
provider whether it was paid, and compares neither the order it was made for nor
its amount. `PaypalEvent` takes any event at any time, since the endpoint
believes the body it gets. So two transactions may share a reference; Stripe's
events, which look a transaction up by it, then fail (`OnlyReference`), and
refunds of both come out of one charge.

Stripe's events (whose signature is verified) may fire at any time after the
fact they report and any number of times: late, repeated and reordered events
need no queue. `Rollback` may
hit a request at any step, which covers an exception, a provider that never
answers, and a killed process.

### Abstract specification

`OrderLifecycle` says what survives overlapping requests. The transition table
itself does not (see below): what remains is that an order is placed once, that
each new status is one transition away from *some* status the order had, and
that it is refunded without having been cancelled only if the provider gave
money back. The refinement maps `status` to the committed column, `been` to
`seen` and `repaid` to the orders on whose account the provider gave money back
(`given`), on whichever intent.

## 4. WhatsApp acceptance: `Acceptance`

The merchant is asked over WhatsApp whether to take an order. The question and
its answer live in one cache record per order, the order in the database; no
transaction spans the two. A *task* is a request or the timeout task a request
leaves behind.

| variable | code |
|---|---|
| `status`, `seen`, `lock` | the committed column, its history, the row lock |
| `record` | `acceptance:{order_id}` in the cache, with the message that asked |
| `pc`, `job` | where a task is; its answers, and the copy of the record it read |
| `was`, `now` | its database session: the status as read and as set |
| `told` | history: what the customer was sent |
| `lost` | history: orders with an answer that was stored and then not committed |
| `failures` | history: exceptions and restarts, bounded by `MaxFailures` |

| actions | code |
|---|---|
| `RequestAcceptance`, `StorePending` | `POST /whatsapp/acceptance/request` and `send_acceptance_request` |
| `TimeoutFires`, `TimeoutSelect`, `TimeoutCommit`, `TimeoutCommitFails`, `RecordTimeout`, `TellTimeout` | `_timeout_task` |
| `RespondAcceptance`, `WhatsappWebhook` | the portal's answer; a webhook with several messages in one session |
| `ReadRecord`, `Decide`, `Flush`, `RecordAnswer`, `TellAnswer` | `handle_merchant_response` around `OrderService.update_status` |
| `Commit`, `Fail` | the two ends of `get_db`; `Fail` is also a restart, which ends a sleeping timeout task |
| `PlaceOrder`, `OthersMove`, `Expire`, `DeadlockVictim` | the environment: other writers of the order, the cache's time to live, PostgreSQL |

`OthersMove` is not a copy of the other modules: it is what `OrderLifecycle`
lets any part of the system do, which `OrderPayments` is proved to implement
(refunds that were not preceded by a cancellation aside: they change an order
that acceptance can no longer change either). Displays and driver tracking, which write
without the table, are not in this environment: `ImplementsLifecycle` of
`Acceptance` is about the parts that ask it. So the two models compose through
their abstract specification, and the theorem of `Acceptance` closes the circle.

Time is abstracted: a sleeping task may fire whenever it is scheduled, and a
record may expire once no timeout task that it was stored with sleeps any
more (its time to live is the timeout plus five minutes).

Why `lost`. `handle_merchant_response` stores the answer and tells the customer
*before* the commit. A later exception in the same request (a second message of
the webhook that the table refuses, a database that does not answer) rolls the
order back and leaves the record saying "accepted". The properties name this
case and no other: a record that is not true was stored by a task that still
works on it, or by one that gave up, and never results from a race between
tasks that all succeed. `lost` is a fact about the code's steps, not a free
choice: it grows in `Abandon`, in `TimeoutCommitFails`, and in `Decide` when a
webhook overwrites its own uncommitted answer.

## 5. The other modules

### Displays: `SocketRooms`, `KitchenDisplays`

`SocketRooms` has the dictionaries of `ConnectionManager` as variables and one
operator per method. Each body runs under one asyncio lock without an await, so
each is a step. `KitchenDisplays` has the handlers: *screens*
(`endpoints/kds.py`) change orders through `OrderService`, *sockets* and
*requests* (`endpoints/websocket.py`, `kds_service.py`) write the status they
are given. A WebSocket connection is one database session: `path` holds what it
has written and not committed, `lock` the rows it keeps for hours, and
`CommitSession` runs when a screen is switched off. A socket of phase 9 answers
an update with a value that JSON cannot encode, so its session ends in a
rollback. `told` records whom the last broadcast reached with what. `Numbered`
are the orders with an `order_number`, which phase 9 cannot do without and
nothing in the code sets. Other writers of an order appear as `OthersMove`:
`OrderLifecycle`'s step, and CONFIRMED, OUT_FOR_DELIVERY, DELIVERED and REFUNDED
over any status (`WrittenOver`), since the cash confirmation, driver tracking and
the refund look at none.

Properties: `ScreensTellTruth` (a broadcast before the commit names a status
the order has had or that some open session has given it), `StagesInOrder` (an
order without a number came to PREPARING, READY, SERVED and CANCELLED from a status
that the table allows it from), `RoomsMatchSockets`. Deadlock is checked: two
screens that wait for each other's rows are never stuck for good, since each
may be switched off.

### Deliveries: `Delivery`

One variable for the rows of drivers, one for assignments, one for what an
order says of its driver. A session (`job`) keeps the rows as it read them and
as it leaves them, and `Merge` writes the columns that differ: SQLAlchemy's
rule, from which the lost updates follow. `point` says where it stands.
`Track`, `AssignDriver`, `ConfirmPickup` and `ConfirmDelivery` are the tracking
service; `CreateAssignment`, `AutoAssign`, `AutoChoose`, `Report` the delivery
service; `SweepSelects`, `SweepCommits` and `SweepFails` the Celery cleanup,
which has a session of its own. `torn` and `released` name the histories under
which the properties do not speak: a session that had read another row wrote
the driver, or someone freed him of a delivery that was not his last. A bulk
assignment is several sessions of `CreateAssignment`.

These races do go wrong in the code, and the properties say what is left.

Properties: `CountsDeliveries`, `CarriersAreBusy`, `AssignedKnowsOrder`, and
`StaleDriversLeave` under `LiveSpec`: the cleanup is scheduled for ever
(`WF(SweepSelects)`) and, however often it fails or the driver is heard of
meanwhile, does not fail every time (`SF(SweepCommits)`).

### Third-party orders: `ThirdParty`

Three webhooks with one structure. `Webhook` looks the restaurant up among the
connections, which owners create, change and delete meanwhile (two connections
with one name make the look-up raise). Intake is two statements: `FoundNone`
or `FoundDuplicate`, then `Insert`. `Retry`, `TakeOver` and `TriggerFallback` are
the fallback with its counter in the cache; `Forget` ends a counter. `raced`
are the orders two deliveries of which overlapped.

Properties: `AnswersAreTrue`, `TakenOnce`, `RetriedFirst`, and `TakenAtLast`
under `LiveSpec`: a platform repeats a webhook until it gets an answer, strongly
fair because a request may find no task free; a session that began ends; and a
request that can infinitely often be committed is. Rollbacks, owners and the
fallback are not fair.

### Books: `Reconciliation`, `Analytics`

Every request is one transaction that reads with several SELECTs at READ
COMMITTED. A run (`StartRun`, `SelectOrders`, `CheckOrder`, `SelectLedgers`,
`CheckEntry`, `FinishRun`, `FailRun`) reads the orders, then the ledger order
by order, while both grow. `knew` records what there was when it began, so that
findings can be judged. Orders are cancelled and come back (a stale update, a
cash confirmation or a driver reopens them), so `CancelOrder` takes an order
out of what a run that skips cancelled ones was sure to see; `cancelled` keeps
the same history for the report on items. A sync merges a list of payouts (`SyncPayout`), a
settlement reads entries and then payouts. `GiveUp` is a failure of any
request, and also the nightly Celery run, which never commits. In `Analytics`
a report holds what its first SELECT returned while the second is still to be
made; `PeriodBoundaries` is the calendar arithmetic on days.

Properties: `FindingsTrue`, `CleanMeansClean`, `PayoutsOnce`, `PeriodsTile` (the
run tries every first and last day of 48 months, with a leap year, one
Wednesday, and the first months of 2100, which is none; the theorem is about
every day), `ReportsAddUp`.

Days are numbers, day 0 the first of 2024, a Monday. `FirstOf` gives the first
day of a month by the Gregorian rules, and `MonthOf` is its inverse. The 31 days
of January 2024 are left out of `Day`, so that the month before a day has a
number too; nothing depends on where the count begins.

### Dining: `Cache`, `Menu`, `Carts`, `Tables`

`Cache` is `core/cache.py`: Redis, one memory per process, and an operation that
is done, lost, or done although the caller was told otherwise ("late"). A value
in Redis ends at its time, one in memory one instant later. `Menu` has the two
cached listings, made of two or three SELECTs, and the changes, which flush,
delete the listing of categories, and then commit. The pattern they delete,
`menu:*:{merchant_id}`, does not match `menu:public:{slug}`, and nothing deletes
from the memory by pattern; the model says so. Copies carry the time since when
they are outdated (`old`) and whether a change was under way (`raced`). `Carts`
has the read-change-write operations of a cart and checkout. A line is told apart by its item and its
options as `cart_service.py` compares them: per modifier, in the order named, a
repeated one twice (`Selected`); `Named` are the lists of options guests send. `due` is what the
requests, one after the other, should leave in it. `Tables` has the table rows,
the picture files, and the sessions of guests; a picture is written before the
commit, and a failed request leaves it behind.

Properties: `MenusAge`, `CartsHoldRequests`, `CodesLead`, and `CategoriesFresh`,
which is proved and not part of the run.
Assumed: making a listing takes less than one tick of the model's clock (five
minutes in the code); and pictures are on one disk that all processes share and
that lasts. `k8s/api-deployment.yaml` (three replicas, no volume) and
`docker-compose.prod.yml` (`./static` mounted read-only) do not provide such a
disk: `CodesLead` is about the code, not about these deployments.

## 6. Runs

| run | instance | question |
|---|---|---|
| `payments` | 1 order and 2 requests, or 2 orders and one request after the other; 1 intent, Stripe and PayPal, price 2, no staff targets but cancel | Are bookings backed by the provider and shown by the order, is what a transaction has learned kept, does the order follow the life cycle, which requests can deadlock? 1.1 million states |
| `kitchen` | 1 cash order, 2 requests, six staff targets | Can a stale status skip a stage? 1.2 million states |
| `bulk` | 2 orders, 2 requests, bulk lists of 2 in either order | Does every request end even when bulk updates deadlock? |
| `statemachine` | 1 order, 2 requests, target `confirmed` | Is each committed change a transition of the table, as `endpoints/orders.py:149` says? No: violated |
| `acceptance` | 1 order, 2 tasks, both answers, webhooks of 2, one failure, other writers may confirm | Do record, customer and order agree, and is every question settled? 490 thousand states |
| `webhooks` | 2 orders, 2 tasks, accepting webhooks of 2, two failures | Does the record stay truthful when two webhooks deadlock on two rows? 330 thousand states |
| `restart` | 1 order, 1 task, one failure | Is an unanswered order auto-rejected, as `whatsapp_service.py:50` tells the merchant? No: violated |
| `displays` | 2 orders (one numbered), 2 screens, a socket, a request | Do displays show what happened, do stages come in order, do rooms match connections? 146 thousand states |
| `delivery` | 1 driver, 1 order, 2 assignments, 2 tasks, 4 sessions | Do driver, assignments and counts agree; does the cleanup reach everyone? |
| `thirdparty` | 2 external orders (one unreadable), 2 connections, 2 tasks, 2 rows, 2 retries | Is an external order taken, once, and not given up too early? 214 thousand states |
| `books` | 2 orders, 2 entries, 1 run of five configurations, 2 payouts, 2 clerks | Are findings and clean runs right, are payouts stored once, do reports and periods fit? 227 thousand states |
| `dining` | 1 category, item, modifier, table, cart and process, 2 tasks, 3 codes, 2 faults | Do menus age within bounds, do carts hold what was asked for, do codes lead to tables? 787 thousand states |

Properties of the core:

- `TypeOK`: among others, the status column only ever holds values of the enum although the REST schema has its own vocabulary.
- `PaidIsBacked`: a completed transaction, or an order paid online that reads completed, has a reference that the provider charged (some customer's: the program does not compare it with the order), or a PayPal event has named the order. The reference of a Stripe transaction always was charged, and its order has left PENDING: the checkout does not store the reference, so an event never stands in for a confirmation that did not come.
- `RefundIsBacked`: a refunded transaction is covered by money the provider gave back, on one intent, on requests for this order; it gives back only for an order whose reference was charged. Where an amount is recorded the order was REFUNDED: the two rows are written by different statements of sessions that overlap, and a later confirmation or webhook may commit over either.
- `RecordsKept` (an action property): no commit makes a transaction forget its method, that it has a reference, or that money was given back. A success event that comes again after a refund makes the status read completed; the amount stays.
- `NoStageSkipped`: served implies ready before, ready implies preparing before, and so on.
- `DeadlockNeedsRefundOrBulk`: the only pairs of requests that can wait for each other.
- `ImplementsLifecycle`: the refinement.
- `EveryRequestEnds`: liveness.

Properties of acceptance:

- `TypeOK`: among others, a record holds only the statuses the code stores.
- `RecordTellsTruth`: once the tasks that answered have ended, a record that says accepted (rejected) belongs to an order that was confirmed (cancelled), unless that answer is known to be lost. `auto_rejected` is weaker: the timeout also stores it for an order that could not be cancelled.
- `CustomerToldTruth`: the same of messages to the customer, which cannot be taken back.
- `ImplementsLifecycle`: answers and timeouts keep to `OrderLifecycle`.
- `AnsweredOrRejected`: a pending question about a pending order is settled, unless something failed. `AutoRejected` drops the exception and is violated.

Bounds of the core. Two requests are enough for every pairwise race, and every deadlock of
two; cycles of three are excluded from the runs, and
`DeadlockNeedsRefundOrBulk` speaks of pairs only. `Total = 2` is the smallest
price with partial refunds (two halves, or one too many). The run `payments` has two
scenes (`Scene` of `MCOrderPayments`): in one, two requests meet on one order and one intent,
which shows every order of the steps of one payment; in the other, one request
after the other works on two orders, which may share the intent as a reference.
More would repeat the interleavings of the first scene. That keeps it small,
and so do two more bounds: the second has no forged PayPal event and no
payment that fails, and in the first nobody who has ordered fills another cart. Prices do not differ between orders, so that
the intent may be one of a smaller amount is not to be seen; the code compares
no amounts. The theorems are about any numbers. `MaxBatch = 1` in `payments`:
that two bulk updates wait for each other is in `bulk`, and the disjunct of
`DeadlockNeedsRefundOrBulk` about them is tried by the theorem only. `MaxBatch`
bounds a bulk list; its orders are distinct (a repeated id finds the order in the identity map and is refused by the table). Requests
that have ended may be replaced by new ones without limit. Symmetry is over
requests, which are interchangeable, and only in runs without liveness.
Deadlock checking is off: a system whose orders are all final and whose
customers have gone may stop.

Bounds of acceptance. Races are between pairs: two answers, an answer and a
timeout, two timeouts of a question asked twice; two tasks show each of them,
and one task may ask again after it has ended. `OtherStatuses` are the statuses
other writers give an order: `CONFIRMED` is the one that makes both an answer
and its table check change outcome. `MaxBatch = 2` lets one webhook name the
same order twice or two orders in either order. One failure is enough to lose
any single step of a task. Run `webhooks` gives up rejections and other writers for the second order, and
its constraint `WebhooksOnly` leaves out what `acceptance` already covers: its
timeout tasks are lost in a restart before they fire (hence two failures), and
an answered order is asked about again only while the answer is not committed.
The last case is needed for the deadlock: two webhooks that name two orders in
opposite order read the second record only after they have stored the first
answer, so each finds the other's order settled unless it was asked about again
in between.

Bounds of the other runs. In `displays` two clients are open at a time, in every
combination, and orders change status four times (six if only screens are
open): enough for a stale read, a commit over it and a broadcast in between.
In `delivery` all sessions meet on one driver; four sessions let two assign
work, one finish it, and one come back with what it read first. In `thirdparty`
two rows are a duplicate, and the platform's two orders share a restaurant whose
connection may be doubled, renamed or deleted. In `books`
and `dining` the parts that share no row are looked at one at a time (`OnePart`;
`MenuPart`, `CartsPart`, `TablesPart`): amounts 0 to 2 lie below, at and above
the tolerance; two clerks work only where requests of one kind disturb each
other; the order without an external id, which is always an orphan, is tried
with the default configuration; settlement reports reach only the type
invariant. In `dining` times to live are one tick and
there are three, so that a copy can be made, outdated, ended and made again;
Redis fails at most twice. Two options of one
modifier are named in either order. Price is one value:
what ages is shown by availability and categories. Symmetry is over requests,
entries and payouts.

Fairness (runs `bulk`, `acceptance`, `restart`; for `delivery` and `thirdparty` see section 5). In `bulk`, `SF_vars(Continue(r))` for each request: a request
that waits for a row may be disabled and enabled again, and PostgreSQL serves
waiters of a row in order of arrival; a request that does not wait is a ready
coroutine, and the event loop runs it. PostgreSQL's detector breaks a cycle, so
`DeadlockVictim` is part of `Continue`. Arrivals, customers and rollbacks are
not fair: nothing forces them to happen. In the acceptance runs `SF_vars(Continue(t))`
says the same of tasks, and that a sleep ends. The merchant's answers, other
writers, failures and the expiry of a record are not fair.

## 7. Proofs

`OrderPaymentsProofs` proves, for any number of orders, requests, intents and
carts, any price and any bulk length, under `OrderPaymentsAssumption` alone:

| theorem | statement |
|---|---|
| `Invariance` | `Spec => []IInv`, the inductive invariant |
| `TypeCorrect` | `Spec => []TypeOK` |
| `Refinement` | `Spec => ImplementsLifecycle` |
| `PaymentsBacked` | `Spec => []PaidIsBacked` |
| `RefundsBacked` | `Spec => []RefundIsBacked` |
| `StagesInOrder` | `Spec => []NoStageSkipped` |
| `DeadlocksAreRefundsOrBulk` | `Spec => []DeadlockNeedsRefundOrBulk` |
| `RecordsAreKept` | `Spec => RecordsKept` |

None of the properties is inductive: a commit writes what a request decided on
rows that have changed since. `IInv` has three parts: `TypeOK`; `RowInv(o)`, what each pair of rows says about
the provider and the history; and `SessionInv(r)`, what is still true of the
rows an open session read and of the objects it will write. The argument is one
idea: every fact a session relies on is *stable*. `seen` only grows, and neither
a charge, a refund nor an event is ever undone (`StableFacts`), so what was
true when the row was read is true when it is written. The step lemmas are
one per operation (`ConfirmKeeps`, `RefundStripeKeeps`, `CommitKeeps`, ...),
each split into the half about the order and the half about the transaction;
`InvNext` puts them together. The refinement follows from `CommitRow`: only
`Commit` changes committed rows, and `IInv` says of every object what
`OrderLifecycle!Next` asks of the new status.

No step says for which order an intent was made, so nothing in the invariant does.
A transaction may even change its reference under a session that read it:
`TxEditing` says that whoever replaces a reference has a charged one. The order
of a confirmation may be booked although the transaction that it is booked with
is not committed yet: `Editing` allows either, and the two rows are committed
together. That money is only given back for an order whose reference was
charged has an invariant of its own, `RepaidInv`: only the refund gives
(`OnlyRefundsGive`), after it read a completed transaction with a reference.

The deadlock theorem has its own invariant `LockInv`, relative to `IInv`: a
session deals with at most one transaction, and holds a lock only at the points
after the statement that took it.

`RecordsAreKept` follows from `CommitGrows`: only a commit changes committed
rows, and by `TxEditing` an object holds no less than its session read, so an
UPDATE that names a column fills it. That the order shows what its transaction
records (half of `PaidIsBacked` and of `RefundIsBacked`) has the invariant
`TraceInv`, relative to `IInv` too: a session that would add a refund to its
transaction holds REFUNDED for the order (`RefundTraced`), one that would add a
reference of Stripe is about to give the order its new status or has
(`ReferenceTraced`), and every other session holds what it read
(`ArriveFaithful`, `EarlyTraced`). At the commit the status in the object is
one the order has had from then on even if the UPDATE does not name the column
(`CommittedStatus`), because what was read was one already.

`AcceptanceProofs` proves, for any number of orders and tasks, any webhook
length, any other statuses and any number of failures, under
`AcceptanceAssumption` alone:

| theorem | statement |
|---|---|
| `Invariance` | `Spec => []IInv`, the inductive invariant |
| `TypeCorrect` | `Spec => []TypeOK` |
| `RecordsTellTruth` | `Spec => []RecordTellsTruth` |
| `CustomersToldTruth` | `Spec => []CustomerToldTruth` |
| `Refinement` | `Spec => ImplementsLifecycle` |

A record is written before the commit that makes it true, so its truth is a
promise of the task that wrote it. `Backed(o, s)` says that the promise is
kept, open, or known to be broken: `s` was committed, or the order is in
`lost`, or some task has stored an answer and its session still holds `s`.
`IInv` says `Backed` of every record and every message (`RecordInv`,
`ToldInv`), of every session that what it will write differs from what it read
and is one of the two decisions (`SessionInv`, without which a commit could
skip the column), and of every point of a task what it has established
(`PointInv`). `BackedKept` is the heart: a step keeps every promise if the task
that moves keeps, fulfils or writes off its own (`StoredKept`). The refinement
needs little more: PENDING is among the statuses of every placed order, and
both decisions are one transition away from it, however stale the status a task
has read.

### Displays, deliveries, third-party orders, tables, books, dining

One proof module for each, for any values of the constants under the module's
`ASSUME` alone. Each proves that its inductive invariant holds (`Invariance`,
`Spec => []IInv`; `TablesInvariance`, `TablesSpec => []TablesInv`;
`DiningInvariance`, `CartsSpec => [](MenuInv /\ CartInv)`), type correctness
(`TypeCorrect`; `TablesTypes`; `MenuTypes`, `CartsTypes` and, for the three
together, `DiningTypes`), and from the invariant:

| module | theorem | property |
|---|---|---|
| `KitchenDisplaysProofs` | `Truthful` | `ScreensTellTruth` |
| | `Staged` | `StagesInOrder` |
| | `RoomsMatch` | `RoomsMatchSockets` |
| `DeliveryProofs` | `DeliveriesCounted` | `CountsDeliveries` |
| | `CarriersBusy` | `CarriersAreBusy` |
| | `AssignedHasOrder` | `AssignedKnowsOrder` |
| `ThirdPartyProofs` | `AnswersTrue` | `AnswersAreTrue` |
| | `OrdersTakenOnce` | `TakenOnce` |
| | `RetriesFirst` | `RetriedFirst` |
| `TablesProofs` | `PicturesLead` | `CodesLead` |
| `BooksProofs` | `AccusationsStand` | `FindingsTrue` |
| | `CompletedRunsClean` | `CleanMeansClean` |
| | `PayoutsStoredOnce` | `PayoutsOnce` |
| | `ReportsConsistent` | `ReportsAddUp` |
| | `PeriodsFitCalendar` | `PeriodsTile` |
| `DiningProofs` | `MenusAgeHolds` | `MenusAge` |
| | `CategoriesFreshHolds` | `CategoriesFresh` |
| | `CartsHoldRequestsHolds` | `CartsHoldRequests` |
| | `DiningIsBoth` | `DiningSpec => CartsSpec /\ TablesSpec` |

In each, the property is not inductive because requests act on what they have
read, and the invariant says what of it is still true.

*Displays.* `JobInv` and `StagedInOrder` say that the status a session read was
one the order had or that the session itself gave it; `passed` (the history)
only grows and `path` (what the session gave) ends with it. What others write
over any status (`WrittenOver`) only adds to `passed`. `RequestInv` says that a
request has written at most its own order. The rooms are a state
machine of their own: every operation of `SocketRooms` keeps `ManagerInv`,
whatever it is applied to.

*Deliveries.* `Shape` says what a session's copies look like at each point,
`Stands` what nobody takes back while it works: an employed driver stays
employed, an assignment keeps its driver, an order that had a driver has one.
`CountInv` bounds the counters: reports and open sessions together never exceed
the sessions that ever began.

*Third-party orders.* `SoleInv(e)` carries `TakenOnce`: of an order no two
deliveries of which overlapped, at most one request is under way, what it
selected is still so, and the rows that hold the order are one. `CountInv`
(a retry counted was made) carries `RetriedFirst`; the counter may be lost,
never gained.

*Tables.* `JobInv`: a code is above all codes that rows name until its request
ends, nobody else draws its picture, and the request either knows the table's
number or is marked `renumbered`. Codes are handed out in order, which is what
`rotate_qr_token`'s random tokens are taken for: all different.

*Books.* What a run knew when it began (`Knows`) stays: entries are only added
and orders do not vanish. An order that is cancelled under a run leaves what the
run knew of its scope (`WithoutCancelled`, `CancelOrderKeeps`) even if it comes
back, and all others are among those the run selects. So each accusation
(`Stands`) stays true under the later steps of others, and an order that was
found clean stays so (`OrdersClean`), since its entry does (`KnowsKept`,
`StandsKept`, `OrdersCleanKept`); all that
is left is to count: `RunJob` relates `checked`, `matched`, the accusations and
what is still to do at every point, `OneMore` and `OneLess` change them
together. `PayoutsInv` says that what is only in one list is as that list found
it. A report relies on what does not shrink: discrepancies, entries, and
the history of cancellations since its first SELECT (`Unwatched`). That the sum of the runs' counts does not exceed the number of
discrepancies (`CountedFound`) is an injection put together from one numbering
for each run. The calendar needs no induction: `FirstOf` is a closed formula of
divisions, so that lengths of months are linear arithmetic
(`MonthLength`), the month of a day is the last that begins by then
(`MonthExists`, from the well-foundedness of the numbers), and adding 32 or 95
days lands in the right month because months have 28 to 31 days and those that
begin a quarter have at least 30.

*Dining.* `CartsSpec` is every behaviour of `Cache`, `Menu` and `Carts` together:
the run `dining` takes some of its steps (`MenuPart`, `CartsPart`), the theorems
are about all. That they are steps of each part is proved, not assumed:
`DiningIsBoth` says that the specification of the run, whatever parts it looks
at in turn, implements `CartsSpec` and `TablesSpec`, so every theorem about a
part holds of the composition. The one step that needs an argument is the tick
of the menu while there are no carts, which must be a tick of the carts too
(`NoCartEnds`): nothing of a cart ends, and no race is forgotten. `EntryInv` says that an entry of the cache ends within `MenuTTL`
of now and, if it shows an older menu, within `MenuTTL + 1` of the moment it
became older: it was stored by a listing that began at most a tick before
(`ListingInv`), so `MenusAge` follows for what is found in Redis or in a memory.
For `CategoriesFresh`, a change marks every listing that still reads; an
unmarked one therefore reads and stores while nobody changes anything, and what
is stored is deleted by each change before its commit (`FreshInv`). A deletion
that Redis did not carry out is counted in `faults`, which never falls.

A cart is harder, because a line may not exceed what was asked for in all while
any number of requests work on copies of the cart. `Owed(s)` is the sum of what
requests have asked for and not saved, written as the number of the pairs
`Units(s)`, so that sums are counted rather than folded; `Room(s)` is the rest
of `asked[s]`. Every copy, in Redis, in a memory, in a request, and `due`, fits
the room (`HeldInv`); beginning a request adds to both (`OwedBegun`), saving
moves its own quantity from what is owed to the room (`OwedSaved`), and the
operators on lines need only that (`AddFits`, `UpdateFits`, `RemoveFits`, put
together in `ChangedFits`). The exact half is `ExactInv`: while Redis answers
and requests for a cart follow one another, Redis holds `due`, and what the one
request has read is `due` too. `GuestGoes` is the frame of all steps of guests,
`MenuAside` and `CartsAside` say that menu and carts share the cache but no key.

Assumptions about constants that the proofs need, besides finiteness and
ranges: `None` and `NoRow` are no ids, rows, lines or cache entries, session
tokens are not the names of listings (the keys have different prefixes in the
code), and (displays) the three kinds of clients are different.

### What is only model-checked

`EveryRequestEnds`, `AnsweredOrRejected`, `StaleDriversLeave` and `TakenAtLast`
(liveness is out of the prover's reach), and the violations of
`StateMachineObeyed` and `AutoRejected`. Every invariant and every action
property of a passing run is a theorem. `CategoriesFresh` is a theorem only: it
excepts every listing made during a change, and `MenusAge`, which excepts none,
is what the run checks.

## 8. What does not hold

`StateMachineObeyed`, shown by the run `statemachine`, and `AutoRejected`, shown
by the run `restart`; both are listed as findings.
The following were met while modelling; they are no claims of the repository,
so they are not runs, but the properties above are worded around them:

- A late success event sets a refunded transaction back to completed (its amount stays: `RecordsKept`).
- A stale staff update, or a cash confirmation, resurrects a cancelled order.
- A transaction may be confirmed, and refunded, on the reference of another order's payment: `/payments/confirm` compares neither the order nor the amount.
- The PayPal endpoint believes any body: such an event completes the transaction of any order, whatever its method, before or without a capture.
- A confirmation that is sent again after a PayPal capture marks the payment failed.
- A Stripe event that arrives before `/payments/confirm` finds no transaction: checkout does not keep the reference (`PaidIsBacked` says when one does find it).
- Two partial refunds leave only the last amount in `refunded_amount`.
- A refund is made at the provider even if the commit that records it is lost.
- The cart is cleared even if the order is rolled back; two checkouts of one cart place two orders.
- A cash transaction never completes, so its refund is always refused, and `/payments/confirm` on it marks the order's payment failed.
- An order that was accepted may be cancelled by a timeout that read the record before the answer was stored, and the record then says `auto_rejected`; the customer is told both.
- A record that says accepted outlives the rollback of its request, and the redelivered webhook is then ignored because the record is no longer pending.
- A timeout that cannot cancel an order (it was confirmed by staff) still tells the customer that it was rejected.
- Asking again about an order overwrites its answered record; the first timeout task then fires on the second question.
- `/payments/intent` hands out a second intent that no row knows of.
- A phase 9 display cannot change an order that has no `order_number`, and none has: the request fails after the broadcast room was chosen and is rolled back. A socket that changes an order loses its connection and the change.
- A display whose first message cannot be sent stays in its rooms until the process ends.
- The filter of active orders shows everything if it is asked for "cancelled" or "delayed" only; READY displays omit OUT_FOR_DELIVERY, which is shown as ready; displays of a branch hear nothing, since no order has a `branch_id`.
- Two assignments may take one driver; a second report of a delivery frees him again and counts again; a stale session may leave a driver "assigned" without an order, or take back a count. A driver without a location is never swept offline.
- Two deliveries of one external order that overlap create it twice, and so does a redelivery after the fallback renamed its source. Two connections with one restaurant name make every webhook for it fail.
- A run for one connection checks no orders (no order has a `platform_connection_id`); of several entries for one order any is compared, fees included; dates with a time zone store a FAILED run. A payout from a sync has no expected date, so no settlement report has it. Two copies of a payout make every later sync with it fail.
- The ledger summary counts types over all connections, whichever was asked for.
- After any change the public menu is old for up to five minutes, and a listing of categories made during a change too; a hidden category's item that is made available again can be ordered though it is not shown.
- The same options named in another order, or one of them twice, make a second line of a cart for the same article.
- Driver tracking sets OUT_FOR_DELIVERY and DELIVERED on an order of any status.
- Overlapping requests for a cart lose lines; a merged line keeps its old price. The cart endpoints do not look at the session a code opened, and such sessions survive a new code. A session's end does not free its table.
- Two requests that attach modifiers at the same time leave both sets.
- `download_qr` calls `exists()` on a string and always fails for a picture.

## 9. What is not modelled

In acceptance: `cancel_timeout` (nothing calls it), `POST /customer/notify` and reading
the record (no state), the fallback of the cache to process memory, the texts.
The Celery task for acceptance timeouts queries columns that do not exist and
changes nothing. In the core: `update_item_status` (it writes only the item), reads and listings,
tax and price arithmetic, response bodies, notifications, the signature of
Stripe's webhook (verified; PayPal's has none to verify, and its events are not
restricted). `NoStageSkipped` speaks of the REST order and payment endpoints only; what the
kitchen displays write is in `KitchenDisplays`, and what drivers and platforms
write is in `Delivery` and `ThirdParty`, each with its own view of the order. Driver
details of asyncpg, the loss of the database and isolation levels other than
READ COMMITTED are left out.

In the other modules: `item_ready`, statistics and colour tags of the displays;
delivery zones, fees and the scores of drivers (`AutoChoose` takes any that
qualifies); the fields of third-party orders but whether they can be read;
sums, fees and exports of the books, the statuses of entries and payouts;
customer, delivery and WhatsApp figures; names, order and search of the menu;
plain reads everywhere. The Celery tasks other than the driver cleanup change
nothing: they compute, broadcast or never commit, `check_whatsapp_timeouts`
queries columns that do not exist, and `app/tasks/` calls what does not exist.
Business hours and acceptance settings are rows that no order, payment or
acceptance reads. Tokens are signed and neither stored nor revoked. Web clients
keep no state that others depend on. The deployment manifests are read for the
number of processes; the one thing `Tables` asks of them, a lasting disk that
all processes share, they do not provide (section 5). Rows follow
`app/models/models.py`, as the tests create them, and not the migrations, which
do not fit the models.

What the properties do not catch. Where the code loses a race, a property about
it excepts exactly that race, by a history: `raced` (two checkouts of one cart,
lost lines, an external order created twice, a listing made during a change),
`torn` and `released` (a driver assigned twice, freed by another's delivery, or
swept while he is assigned), `doubled` (a payout in two overlapping lists).
These hazards are real and listed in `PROJECT.json` with a note, without a
property where none is left.
