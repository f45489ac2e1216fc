------------------------------ MODULE Acceptance -------------------------------
(******************************************************************************)
(* The WhatsApp acceptance flow: the merchant is asked to accept an order and *)
(* an in-process task rejects it when the time is up.  The question lives in  *)
(* the cache, the order in the database, and the two are never written        *)
(* together: an answer (from the portal or from a webhook with several        *)
(* messages) and the timeout task read the cached record, change the order,   *)
(* store the record they read with a new status and tell the customer.        *)
(*                                                                            *)
(* Orders are changed by others meanwhile, in any way OrderLifecycle allows   *)
(* (refunds by the provider aside, which end an order just as a cancellation  *)
(* and a refund by the table do).                                             *)
(******************************************************************************)
EXTENDS OrderStatus, Naturals, Sequences

CONSTANTS
    Order,
    Task,           \* requests and timeout tasks at the same time
    OtherStatuses,  \* the statuses other parts of the system give an order
    Answers,        \* what the merchant may answer
    MaxBatch,       \* the most messages in one webhook
    MaxFailures,    \* how many exceptions and restarts a behaviour has
    None

ASSUME AcceptanceAssumption ==
    /\ OtherStatuses \subseteq OrderStatusEnum
    /\ Answers \subseteq {"accept", "reject"}
    /\ MaxBatch \in Nat
    /\ MaxFailures \in Nat
    /\ None \notin Order \cup Task

VARIABLES
    status,         \* committed column orders.status
    seen,           \* history: the statuses each order has been committed with
    lock,           \* the task that holds the row lock of an order
    record,         \* Redis: acceptance:{order_id}
    pc,             \* where a task is
    job,            \* the arguments of a task and the record it has read
    was,            \* its session: the order's status as it read it
    now,            \* and as it set it
    told,           \* history: the messages sent to the customer
    lost,           \* history: orders with a stored answer that was not committed
    failures        \* history: how many exceptions and restarts there were

session == <<pc, job, was, now>>
vars == <<status, seen, lock, record, session, told, lost, failures>>

--------------------------------------------------------------------------------
(* What is stored; "none" is a record that is not there.  The enum also has   *)
(* "timeout", which nothing stores.                                           *)
AcceptanceStatus == {"none", "pending", "accepted", "rejected", "auto_rejected"}

(* message: the message_id, for which the task that sent it stands.           *)
Record == [status : AcceptanceStatus, message : Task \cup {None}]

NoRecord == [status |-> "none", message |-> None]

(* todo: the answers a request carries, the one it works on first.  stored:   *)
(* the orders whose answer it has stored.                                     *)
Message == [order : Order, action : Answers]

NoJob == [order |-> None, todo |-> <<>>, data |-> NoRecord, stored |-> {}]

Job == [order : Order \cup {None}, todo : Seq(Message), data : Record,
        stored : SUBSET Order]

Points == {"idle", "send", "asleep", "cancel", "cancel_commit", "record_timeout",
           "tell_timeout", "respond", "decide", "flush", "record", "tell"}

TypeOK ==
    /\ status \in [Order -> OrderStatusEnum \cup {"absent"}]
    /\ seen \in [Order -> SUBSET OrderStatusEnum]
    /\ lock \in [Order -> Task \cup {None}]
    /\ record \in [Order -> Record]
    /\ pc \in [Task -> Points]
    /\ job \in [Task -> Job]
    /\ was \in [Task -> [Order -> OrderStatusEnum \cup {"absent"}]]
    /\ now \in [Task -> [Order -> OrderStatusEnum \cup {"absent"}]]
    /\ told \in [Order -> SUBSET {"accepted", "rejected"}]
    /\ lost \in SUBSET Order
    /\ failures \in 0..MaxFailures

Init ==
    /\ status = [o \in Order |-> "absent"]
    /\ seen = [o \in Order |-> {}]
    /\ lock = [o \in Order |-> None]
    /\ record = [o \in Order |-> NoRecord]
    /\ pc = [t \in Task |-> "idle"]
    /\ job = [t \in Task |-> NoJob]
    /\ was = [t \in Task |-> [o \in Order |-> "absent"]]
    /\ now = [t \in Task |-> [o \in Order |-> "absent"]]
    /\ told = [o \in Order |-> {}]
    /\ lost = {}
    /\ failures = 0

--------------------------------------------------------------------------------
(* The session of a task                                                      *)

Exists(o) == status[o] # "absent"

Begin(t, point, j) ==
    /\ pc[t] = "idle"
    /\ pc' = [pc EXCEPT ![t] = point]
    /\ job' = [job EXCEPT ![t] = j]

Goto(t, point) == pc' = [pc EXCEPT ![t] = point]

Write(o, s) ==
    /\ status' = [status EXCEPT ![o] = s]
    /\ seen' = [seen EXCEPT ![o] = @ \cup {s}]

(* The order is selected: an order that is in the session already keeps the   *)
(* attributes it was loaded with.                                             *)
Selected(t, o) == IF now[t][o] = "absent" THEN status[o] ELSE now[t][o]

Load(t, o, s) ==
    /\ was' = [was EXCEPT ![t][o] = IF @ = "absent" THEN status[o] ELSE @]
    /\ now' = [now EXCEPT ![t][o] = s]

EndTask(t) ==
    /\ pc' = [pc EXCEPT ![t] = "idle"]
    /\ job' = [job EXCEPT ![t] = NoJob]
    /\ was' = [was EXCEPT ![t] = [o \in Order |-> "absent"]]
    /\ now' = [now EXCEPT ![t] = [o \in Order |-> "absent"]]
    /\ lock' = [o \in Order |-> IF lock[o] = t THEN None ELSE lock[o]]

Changed(t) == {o \in Order : now[t][o] # was[t][o]}

(* get_db after an exception.                                                 *)
Abandon(t) ==
    /\ lost' = lost \cup job[t].stored
    /\ EndTask(t)

--------------------------------------------------------------------------------
(* The rest of the system                                                     *)

PlaceOrder(o) ==
    /\ status[o] = "absent"
    /\ Write(o, "PENDING")
    /\ UNCHANGED <<lock, record, session, told, lost, failures>>

(* Staff, payments, the kitchen: as OrderLifecycle says, when the row is free.*)
OthersMove(o, s) ==
    /\ Exists(o)
    /\ lock[o] = None
    /\ s # status[o]
    /\ \E past \in seen[o] : CanTransition(past, s)
    /\ Write(o, s)
    /\ UNCHANGED <<lock, record, session, told, lost, failures>>

(* The time to live of a pending record ends five minutes after its timeout.  *)
Expire(o) ==
    /\ record[o] # NoRecord
    /\ record[o].status = "pending" =>
        LET t == record[o].message IN ~ (pc[t] = "asleep" /\ job[t].order = o)
    /\ record' = [record EXCEPT ![o] = NoRecord]
    /\ UNCHANGED <<status, seen, lock, session, told, lost, failures>>

--------------------------------------------------------------------------------
(* POST /whatsapp/acceptance/request                                          *)

(* The order may have any status.  Then the message is sent.                  *)
RequestAcceptance(t, o) ==
    /\ Exists(o)
    /\ Begin(t, "send", [NoJob EXCEPT !.order = o])
    /\ UNCHANGED <<status, seen, lock, record, was, now, told, lost, failures>>

(* Mutant of StorePending: the timeout task is not created.                   *)
StorePendingOnly(t) ==
    /\ pc[t] = "send"
    /\ record' = [record EXCEPT ![job[t].order] =
                      [status |-> "pending", message |-> t]]
    /\ EndTask(t)
    /\ UNCHANGED <<status, seen, told, lost, failures>>

(* The record is stored, whatever the answer of WhatsApp and over any record  *)
(* there is, and the timeout task is created; the request itself ends.        *)
StorePending(t) ==
    /\ pc[t] = "send"
    /\ record' = [record EXCEPT ![job[t].order] =
                      [status |-> "pending", message |-> t]]
    /\ Goto(t, "asleep")
    /\ UNCHANGED <<status, seen, lock, job, was, now, told, lost, failures>>

--------------------------------------------------------------------------------
(* The timeout task                                                           *)

(* The sleep ends; a record that is gone or answered ends the task.           *)
TimeoutFires(t) ==
    LET data == record[job[t].order] IN
    /\ pc[t] = "asleep"
    /\ IF data.status = "pending"
       THEN /\ job' = [job EXCEPT ![t].data = data]
            /\ Goto(t, "cancel")
            /\ UNCHANGED <<lock, was, now>>
       ELSE EndTask(t)
    /\ UNCHANGED <<status, seen, record, told, lost, failures>>

(* update_status in a session of its own.  A refusal is swallowed: the record *)
(* and the customer are told of a rejection all the same.                     *)
TimeoutSelect(t) ==
    LET o == job[t].order IN
    /\ pc[t] = "cancel"
    /\ IF CanTransition(status[o], "CANCELLED")
       THEN Goto(t, "cancel_commit")
       ELSE Goto(t, "record_timeout")
    /\ UNCHANGED <<status, seen, lock, record, job, was, now, told, lost, failures>>

(* The UPDATE and its commit.                                                 *)
TimeoutCommit(t) ==
    LET o == job[t].order IN
    /\ pc[t] = "cancel_commit"
    /\ lock[o] = None
    /\ Write(o, "CANCELLED")
    /\ Goto(t, "record_timeout")
    /\ UNCHANGED <<lock, record, job, was, now, told, lost, failures>>

(* A failing one is swallowed too.                                            *)
TimeoutCommitFails(t) ==
    /\ pc[t] = "cancel_commit"
    /\ failures < MaxFailures
    /\ failures' = failures + 1
    /\ lost' = lost \cup {job[t].order}
    /\ Goto(t, "record_timeout")
    /\ UNCHANGED <<status, seen, lock, record, job, was, now, told>>

(* Mutant of RecordTimeout: the other word of the enum.                       *)
RecordAsTimeout(t) ==
    /\ pc[t] = "record_timeout"
    /\ record' = [record EXCEPT ![job[t].order] =
                      [job[t].data EXCEPT !.status = "timeout"]]
    /\ Goto(t, "tell_timeout")
    /\ UNCHANGED <<status, seen, lock, job, was, now, told, lost, failures>>

(* The record is stored as it was read, over what was stored since.           *)
RecordTimeout(t) ==
    /\ pc[t] = "record_timeout"
    /\ record' = [record EXCEPT ![job[t].order] =
                      [job[t].data EXCEPT !.status = "auto_rejected"]]
    /\ Goto(t, "tell_timeout")
    /\ UNCHANGED <<status, seen, lock, job, was, now, told, lost, failures>>

TellTimeout(t) ==
    /\ pc[t] = "tell_timeout"
    /\ told' = [told EXCEPT ![job[t].order] = @ \cup {"rejected"}]
    /\ EndTask(t)
    /\ UNCHANGED <<status, seen, record, lost, failures>>

--------------------------------------------------------------------------------
(* The merchant's answers                                                     *)

(* POST /whatsapp/acceptance/respond: the order is loaded first.              *)
RespondAcceptance(t, m) ==
    /\ Exists(m.order)
    /\ Begin(t, "respond", [NoJob EXCEPT !.todo = <<m>>])
    /\ Load(t, m.order, status[m.order])
    /\ UNCHANGED <<status, seen, lock, record, told, lost, failures>>

(* POST /whatsapp/webhook: late, repeated, one session for all its messages.  *)
WhatsappWebhook(t, list) ==
    /\ Begin(t, "respond", [NoJob EXCEPT !.todo = list])
    /\ UNCHANGED <<status, seen, lock, record, was, now, told, lost, failures>>

(* handle_merchant_response looks at the record: one that is gone or answered *)
(* ends it without a change.                                                  *)
ReadRecord(t) ==
    /\ pc[t] = "respond"
    /\ job[t].todo # <<>>
    /\ LET data == record[Head(job[t].todo).order] IN
        IF data.status = "pending"
        THEN /\ job' = [job EXCEPT ![t].data = data]
             /\ Goto(t, "decide")
        ELSE /\ job' = [job EXCEPT ![t].todo = Tail(@)]
             /\ UNCHANGED pc
    /\ UNCHANGED <<status, seen, lock, record, was, now, told, lost, failures>>

Target(action) == IF action = "accept" THEN "CONFIRMED" ELSE "CANCELLED"

Answer(action) == IF action = "accept" THEN "accepted" ELSE "rejected"

(* Mutant of Decide: a refusal by the state machine is ignored.               *)
DecideSwallowing(t) ==
    LET m == Head(job[t].todo) IN
    /\ pc[t] = "decide"
    /\ IF CanTransition(Selected(t, m.order), Target(m.action))
       THEN /\ Load(t, m.order, Target(m.action))
            /\ Goto(t, "flush")
       ELSE /\ Goto(t, "record")
            /\ UNCHANGED <<was, now>>
    /\ UNCHANGED <<status, seen, record, lock, job, told, lost, failures>>

(* update_status up to its flush; a refusal is an exception of the request.   *)
(* An order that was answered in the same session (and asked for again since) *)
(* is overwritten before its first answer is committed.                       *)
Decide(t) ==
    LET m == Head(job[t].todo) IN
    /\ pc[t] = "decide"
    /\ IF CanTransition(Selected(t, m.order), Target(m.action))
       THEN /\ Load(t, m.order, Target(m.action))
            /\ lost' = lost \cup (job[t].stored \cap {m.order})
            /\ Goto(t, "flush")
            /\ UNCHANGED <<lock, job>>
       ELSE Abandon(t)
    /\ UNCHANGED <<status, seen, record, told, failures>>

(* Mutant of Flush: a row that is locked is skipped.                          *)
FlushSkippingLocked(t) ==
    LET o == Head(job[t].todo).order IN
    /\ pc[t] = "flush"
    /\ IF lock[o] \in {None, t}
       THEN /\ lock' = [lock EXCEPT ![o] = t]
            /\ UNCHANGED now
       ELSE /\ now' = [now EXCEPT ![t][o] = was[t][o]]
            /\ UNCHANGED lock
    /\ Goto(t, "record")
    /\ UNCHANGED <<status, seen, record, job, was, told, lost, failures>>

(* The UPDATE waits for the row.                                              *)
Flush(t) ==
    LET o == Head(job[t].todo).order IN
    /\ pc[t] = "flush"
    /\ lock[o] \in {None, t}
    /\ lock' = [lock EXCEPT ![o] = t]
    /\ Goto(t, "record")
    /\ UNCHANGED <<status, seen, record, job, was, now, told, lost, failures>>

(* Before the commit, and over what was stored since the record was read.     *)
RecordAnswer(t) ==
    LET m == Head(job[t].todo) IN
    /\ pc[t] = "record"
    /\ record' = [record EXCEPT ![m.order] =
                      [job[t].data EXCEPT !.status = Answer(m.action)]]
    /\ job' = [job EXCEPT ![t].stored = @ \cup {m.order}]
    /\ Goto(t, "tell")
    /\ UNCHANGED <<status, seen, lock, was, now, told, lost, failures>>

(* Mutant of TellAnswer: the two messages are swapped.                        *)
TellSwapped(t) ==
    LET m == Head(job[t].todo) IN
    /\ pc[t] = "tell"
    /\ told' = [told EXCEPT ![m.order] = @ \cup
                    {IF m.action = "accept" THEN "rejected" ELSE "accepted"}]
    /\ job' = [job EXCEPT ![t].todo = Tail(@)]
    /\ Goto(t, "respond")
    /\ UNCHANGED <<status, seen, lock, record, was, now, lost, failures>>

TellAnswer(t) ==
    LET m == Head(job[t].todo) IN
    /\ pc[t] = "tell"
    /\ told' = [told EXCEPT ![m.order] = @ \cup {Answer(m.action)}]
    /\ job' = [job EXCEPT ![t].todo = Tail(@)]
    /\ Goto(t, "respond")
    /\ UNCHANGED <<status, seen, lock, record, was, now, lost, failures>>

(* Mutant of Commit: every order of the session is written back.              *)
CommitLoaded(t) ==
    /\ pc[t] = "respond"
    /\ job[t].todo = <<>>
    /\ status' = [o \in Order |->
                      IF now[t][o] # "absent" THEN now[t][o] ELSE status[o]]
    /\ seen' = [o \in Order |-> seen[o] \cup ({now[t][o]} \ {"absent"})]
    /\ EndTask(t)
    /\ UNCHANGED <<record, told, lost, failures>>

(* get_db after the last message.                                             *)
Commit(t) ==
    /\ pc[t] = "respond"
    /\ job[t].todo = <<>>
    /\ status' = [o \in Order |->
                      IF o \in Changed(t) THEN now[t][o] ELSE status[o]]
    /\ seen' = [o \in Order |->
                    IF o \in Changed(t) THEN seen[o] \cup {now[t][o]} ELSE seen[o]]
    /\ EndTask(t)
    /\ UNCHANGED <<record, told, lost, failures>>

--------------------------------------------------------------------------------
(* An exception (WhatsApp or the database does not answer), or the process is *)
(* restarted: a request is rolled back, a timeout task is gone.               *)
Fail(t) ==
    /\ pc[t] # "idle"
    /\ failures < MaxFailures
    /\ failures' = failures + 1
    /\ Abandon(t)
    /\ UNCHANGED <<status, seen, record, told>>

WaitsFor(t, u) ==
    /\ t # u
    /\ \/ pc[t] = "flush" /\ lock[Head(job[t].todo).order] = u
       \/ pc[t] = "cancel_commit" /\ lock[job[t].order] = u

(* Two webhooks that name the same orders in another order.                   *)
DeadlockVictim(t) ==
    /\ \E u \in Task : WaitsFor(t, u) /\ WaitsFor(u, t)
    /\ Abandon(t)
    /\ UNCHANGED <<status, seen, record, told, failures>>

--------------------------------------------------------------------------------
Batches == UNION {[1..n -> Message] : n \in 1..MaxBatch}

Outside ==
    \E o \in Order :
        \/ PlaceOrder(o)
        \/ \E s \in OtherStatuses : OthersMove(o, s)
        \/ Expire(o)

Arrive(t) ==
    \/ \E o \in Order : RequestAcceptance(t, o)
    \/ \E m \in Message : RespondAcceptance(t, m)
    \/ \E list \in Batches : WhatsappWebhook(t, list)

Continue(t) ==
    \/ StorePending(t)
    \/ TimeoutFires(t)
    \/ TimeoutSelect(t)
    \/ TimeoutCommit(t)
    \/ RecordTimeout(t)
    \/ TellTimeout(t)
    \/ ReadRecord(t)
    \/ Decide(t)
    \/ Flush(t)
    \/ RecordAnswer(t)
    \/ TellAnswer(t)
    \/ Commit(t)
    \/ DeadlockVictim(t)

Next ==
    \/ Outside
    \/ \E t \in Task : Arrive(t) \/ Continue(t) \/ TimeoutCommitFails(t) \/ Fail(t)

Spec == Init /\ [][Next]_vars

(* The event loop runs what is ready, a sleep ends, a row lock is handed to   *)
(* its waiters in order of arrival.                                           *)
LiveSpec == Spec /\ \A t \in Task : SF_vars(Continue(t))

--------------------------------------------------------------------------------
(* Properties                                                                 *)

Lifecycle == INSTANCE OrderLifecycle WITH been <- seen, repaid <- {}

(* Answers and timeouts that race with each other and with the rest of the    *)
(* system still give an order only statuses one transition away from one it   *)
(* had.                                                                       *)
ImplementsLifecycle == Lifecycle!Spec

Working(o) == \E t \in Task : o \in job[t].stored

Uncancellable(o) == \E s \in seen[o] : ~ CanTransition(s, "CANCELLED")

(* An answer that can be read in the cache was committed to the order, is     *)
(* about to be, or was rolled back after it was stored (lost); only a timeout *)
(* may also have found an order that could not be cancelled any more.         *)
RecordTellsTruth ==
    \A o \in Order :
        \/ Working(o)
        \/ o \in lost
        \/ /\ record[o].status = "accepted" => "CONFIRMED" \in seen[o]
           /\ record[o].status = "rejected" => "CANCELLED" \in seen[o]
           /\ record[o].status = "auto_rejected" =>
                "CANCELLED" \in seen[o] \/ Uncancellable(o)

(* The same of what the customer was told, although answer and timeout may    *)
(* both tell.                                                                 *)
CustomerToldTruth ==
    \A o \in Order :
        \/ Working(o)
        \/ o \in lost
        \/ /\ "accepted" \in told[o] => "CONFIRMED" \in seen[o]
           /\ "rejected" \in told[o] => "CANCELLED" \in seen[o] \/ Uncancellable(o)

(* An order that waits for the merchant does not wait for ever: it is         *)
(* answered, or rejected by the timeout, unless something failed.             *)
AnsweredOrRejected ==
    \A o \in Order :
        record[o].status = "pending" /\ status[o] = "PENDING"
        ~> \/ status[o] # "PENDING"
           \/ o \in lost
           \/ failures > 0

(* "Respond within {timeout_minutes} minutes or order will be auto-rejected." *)
AutoRejected ==
    \A o \in Order :
        record[o].status = "pending" /\ status[o] = "PENDING"
        ~> status[o] # "PENDING"
================================================================================
