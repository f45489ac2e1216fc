--------------------------- MODULE AcceptanceProofs ----------------------------
(******************************************************************************)
(* Proofs about Acceptance for any number of orders, tasks, messages and      *)
(* failures.                                                                  *)
(*                                                                            *)
(* The truth of a stored answer is no local matter: the record is written     *)
(* before the commit that makes it true.  IInv therefore says what every task *)
(* that has stored an answer will still commit, and that it is noted as lost  *)
(* if the task gives up or changes its mind.                                  *)
(******************************************************************************)
EXTENDS Acceptance, TLAPS

(* The tasks store only these two statuses.                                   *)
Decided == {"CONFIRMED", "CANCELLED"}

(* s was committed to the order, or is about to be, or is known to be lost.   *)
Backed(o, s) ==
    \/ s \in seen[o]
    \/ o \in lost
    \/ \E t \in Task : o \in job[t].stored /\ now[t][o] = s

HistoryInv ==
    \A o \in Order :
        /\ Exists(o) => status[o] \in seen[o] /\ "PENDING" \in seen[o]
        /\ ~ Exists(o) => seen[o] = {}

(* What a session will write is new, decided, and about a placed order.       *)
SessionInv(t) ==
    \A o \in Order :
        /\ now[t][o] = "absent" <=> was[t][o] = "absent"
        /\ now[t][o] # was[t][o] => /\ now[t][o] \in Decided
                                    /\ was[t][o] # "CANCELLED"
                                    /\ Exists(o)
        /\ o \in job[t].stored => now[t][o] # was[t][o]

(* Who cancels by timeout: done, lost, or not possible any more.              *)
TimedOut(o) == "CANCELLED" \in seen[o] \/ o \in lost \/ Uncancellable(o)

PointInv(t) ==
    /\ pc[t] = "idle" => job[t] = NoJob /\ \A o \in Order : now[t][o] = "absent"
    /\ pc[t] \in {"send", "asleep", "cancel", "cancel_commit", "record_timeout",
                  "tell_timeout"} =>
        /\ job[t].order \in Order
        /\ Exists(job[t].order)
        /\ job[t].stored = {}
    /\ pc[t] \in {"record_timeout", "tell_timeout"} => TimedOut(job[t].order)
    /\ pc[t] \in {"decide", "flush", "record", "tell"} => job[t].todo # <<>>
    /\ pc[t] = "decide" => Exists(Head(job[t].todo).order)
    /\ pc[t] \in {"flush", "record", "tell"} =>
        LET m == Head(job[t].todo) IN
        /\ now[t][m.order] = Target(m.action)
        /\ now[t][m.order] # was[t][m.order]
    /\ pc[t] = "tell" => Head(job[t].todo).order \in job[t].stored

RecordInv(o) ==
    /\ ~ Exists(o) => record[o] = NoRecord
    /\ record[o].status = "accepted" => Backed(o, "CONFIRMED")
    /\ record[o].status = "rejected" => Backed(o, "CANCELLED")
    /\ record[o].status = "auto_rejected" => TimedOut(o)

ToldInv(o) ==
    /\ "accepted" \in told[o] => Backed(o, "CONFIRMED")
    /\ "rejected" \in told[o] => Backed(o, "CANCELLED") \/ Uncancellable(o)

IInv ==
    /\ TypeOK
    /\ HistoryInv
    /\ \A t \in Task : SessionInv(t) /\ PointInv(t)
    /\ \A o \in Order : RecordInv(o) /\ ToldInv(o)

--------------------------------------------------------------------------------
(* Types                                                                      *)

(* Setting a field of a job or of a record to a value of its type.            *)
LEMMA FieldTypes ==
    /\ NoRecord \in Record
    /\ NoJob \in Job
    /\ \A t \in Task : [status |-> "pending", message |-> t] \in Record
    /\ \A d \in Record, s \in AcceptanceStatus : [d EXCEPT !.status = s] \in Record
    /\ \A o \in Order : [NoJob EXCEPT !.order = o] \in Job
    /\ \A list \in Seq(Message) : [NoJob EXCEPT !.todo = list] \in Job
    /\ \A j \in Job, list \in Seq(Message) : [j EXCEPT !.todo = list] \in Job
    /\ \A j \in Job, d \in Record : [j EXCEPT !.data = d] \in Job
    /\ \A j \in Job, o \in Order :
        [j EXCEPT !.stored = j.stored \cup {o}] \in Job
<1>1. NoRecord \in Record
  BY DEF NoRecord, Record, AcceptanceStatus
<1>2. NoJob \in Job
  BY <1>1 DEF NoJob, Job
<1>3. /\ \A t \in Task : [status |-> "pending", message |-> t] \in Record
      /\ \A d \in Record, s \in AcceptanceStatus :
            [d EXCEPT !.status = s] \in Record
  BY DEF Record, AcceptanceStatus
<1>4. /\ \A j \in Job, o \in Order : [j EXCEPT !.order = o] \in Job
      /\ \A j \in Job, list \in Seq(Message) : [j EXCEPT !.todo = list] \in Job
      /\ \A j \in Job, d \in Record : [j EXCEPT !.data = d] \in Job
      /\ \A j \in Job, o \in Order :
            [j EXCEPT !.stored = j.stored \cup {o}] \in Job
  BY DEF Job
<1> QED
  BY <1>1, <1>2, <1>3, <1>4

(* The list of a webhook is a sequence of messages.                           *)
LEMMA BatchTypes == Batches \subseteq Seq(Message)
BY AcceptanceAssumption DEF Batches

(* The next message of a task that has one, and what is left after it.        *)
LEMMA TodoTypes ==
    ASSUME TypeOK, NEW t \in Task, job[t].todo # <<>>
    PROVE  /\ job[t] \in Job
           /\ Head(job[t].todo) \in Message
           /\ Head(job[t].todo).order \in Order
           /\ Head(job[t].todo).action \in {"accept", "reject"}
           /\ Tail(job[t].todo) \in Seq(Message)
<1>1. job[t] \in Job
  BY DEF TypeOK
<1>2. job[t].todo \in Seq(Message)
  BY <1>1 DEF Job
<1>3. Head(job[t].todo) \in Message /\ Tail(job[t].todo) \in Seq(Message)
  BY <1>2
<1> QED
  BY <1>1, <1>3, AcceptanceAssumption DEF Message

(* What an answer asks for.                                                   *)
LEMMA AnswerTypes ==
    ASSUME NEW a
    PROVE  /\ Target(a) \in Decided
           /\ Target(a) \in OrderStatusEnum
           /\ Answer(a) \in {"accepted", "rejected"}
           /\ Answer(a) \in AcceptanceStatus
           /\ Answer(a) = "accepted" => Target(a) = "CONFIRMED"
           /\ Answer(a) = "rejected" => Target(a) = "CANCELLED"
BY DEF Target, Answer, Decided, OrderStatusEnum, AcceptanceStatus

(* The end of a task leaves everything it resets well typed.                  *)
LEMMA EndTaskType ==
    ASSUME TypeOK, NEW t \in Task, EndTask(t)
    PROVE  /\ pc' \in [Task -> Points]
           /\ job' \in [Task -> Job]
           /\ was' \in [Task -> [Order -> OrderStatusEnum \cup {"absent"}]]
           /\ now' \in [Task -> [Order -> OrderStatusEnum \cup {"absent"}]]
           /\ lock' \in [Order -> Task \cup {None}]
BY FieldTypes DEF TypeOK, EndTask, Points

(* So does giving up.                                                         *)
LEMMA AbandonType ==
    ASSUME TypeOK, NEW t \in Task, Abandon(t)
    PROVE  /\ pc' \in [Task -> Points]
           /\ job' \in [Task -> Job]
           /\ was' \in [Task -> [Order -> OrderStatusEnum \cup {"absent"}]]
           /\ now' \in [Task -> [Order -> OrderStatusEnum \cup {"absent"}]]
           /\ lock' \in [Order -> Task \cup {None}]
           /\ lost' \in SUBSET Order
<1>1. job[t].stored \in SUBSET Order
  BY DEF TypeOK, Job
<1> QED
  BY <1>1, EndTaskType DEF Abandon, TypeOK

(* The initial state is type correct.                                         *)
LEMMA TypeInit == Init => TypeOK
BY FieldTypes, AcceptanceAssumption DEF Init, TypeOK, Points

(* The steps of the rest of the system are type correct.                      *)
LEMMA OutsideType == TypeOK /\ Outside => TypeOK'
<1> SUFFICES ASSUME TypeOK, NEW o \in Order,
                    \/ PlaceOrder(o)
                    \/ \E s \in OtherStatuses : OthersMove(o, s)
                    \/ Expire(o)
             PROVE  TypeOK'
  BY DEF Outside
<1>1. CASE PlaceOrder(o)
  BY <1>1 DEF PlaceOrder, Write, TypeOK, session, OrderStatusEnum
<1>2. CASE \E s \in OtherStatuses : OthersMove(o, s)
  BY <1>2, AcceptanceAssumption DEF OthersMove, Write, TypeOK, session
<1>3. CASE Expire(o)
  BY <1>3, FieldTypes DEF Expire, TypeOK, session
<1> QED
  BY <1>1, <1>2, <1>3

(* A request that begins is type correct.                                     *)
LEMMA ArriveType ==
    ASSUME TypeOK, NEW t \in Task, Arrive(t)
    PROVE  TypeOK'
<1>1. ASSUME NEW o \in Order, RequestAcceptance(t, o)
      PROVE  TypeOK'
  BY <1>1, FieldTypes DEF RequestAcceptance, Begin, TypeOK, Points
<1>2. ASSUME NEW m \in Message, RespondAcceptance(t, m)
      PROVE  TypeOK'
  <2>1. <<m>> \in Seq(Message) /\ m.order \in Order
    BY DEF Message
  <2>2. job' \in [Task -> Job] /\ pc' \in [Task -> Points]
    BY <1>2, <2>1, FieldTypes DEF RespondAcceptance, Begin, TypeOK, Points
  <2>3. /\ was' \in [Task -> [Order -> OrderStatusEnum \cup {"absent"}]]
        /\ now' \in [Task -> [Order -> OrderStatusEnum \cup {"absent"}]]
    BY <1>2, <2>1 DEF RespondAcceptance, Load, TypeOK
  <2> QED
    BY <1>2, <2>2, <2>3 DEF RespondAcceptance, TypeOK
<1>3. ASSUME NEW list \in Batches, WhatsappWebhook(t, list)
      PROVE  TypeOK'
  BY <1>3, FieldTypes, BatchTypes DEF WhatsappWebhook, Begin, TypeOK, Points
<1> QED
  BY <1>1, <1>2, <1>3 DEF Arrive

(* The steps of the timeout task, and of the request that creates it.         *)
LEMMA TimeoutType ==
    ASSUME TypeOK, NEW t \in Task, PointInv(t),
           \/ StorePending(t)
           \/ TimeoutFires(t)
           \/ TimeoutSelect(t)
           \/ TimeoutCommit(t)
           \/ TimeoutCommitFails(t)
           \/ RecordTimeout(t)
           \/ TellTimeout(t)
    PROVE  TypeOK'
<1>1. CASE StorePending(t)
  BY <1>1, FieldTypes DEF StorePending, Goto, TypeOK, Points, PointInv
<1>2. CASE TimeoutFires(t)
  <2>1. job[t].order \in Order /\ job[t] \in Job
    BY <1>2 DEF TimeoutFires, PointInv, TypeOK
  <2>2. record[job[t].order] \in Record
    BY <2>1 DEF TypeOK
  <2>3. CASE record[job[t].order].status = "pending"
    <3>1. [job[t] EXCEPT !.data = record[job[t].order]] \in Job
      BY <2>1, <2>2, FieldTypes
    <3>2. /\ job' = [job EXCEPT ![t] = [job[t] EXCEPT !.data = record[job[t].order]]]
          /\ pc' = [pc EXCEPT ![t] = "cancel"]
          /\ UNCHANGED <<status, seen, lock, record, was, now, told, lost, failures>>
      BY <1>2, <2>3 DEF TimeoutFires, Goto
    <3> QED
      BY <3>1, <3>2 DEF TypeOK, Points
  <2>4. CASE record[job[t].order].status # "pending"
    BY <1>2, <2>4, EndTaskType DEF TimeoutFires, TypeOK
  <2> QED
    BY <2>3, <2>4
<1>3. CASE TimeoutSelect(t)
  BY <1>3 DEF TimeoutSelect, Goto, TypeOK, Points
<1>4. CASE TimeoutCommit(t)
  BY <1>4 DEF TimeoutCommit, Write, Goto, TypeOK, Points, PointInv, OrderStatusEnum
<1>5. CASE TimeoutCommitFails(t)
  <2>1. failures' \in 0..MaxFailures
    BY <1>5, AcceptanceAssumption DEF TimeoutCommitFails, TypeOK
  <2> QED
    BY <1>5, <2>1 DEF TimeoutCommitFails, Goto, TypeOK, Points, PointInv
<1>6. CASE RecordTimeout(t)
  <2>1. [job[t].data EXCEPT !.status = "auto_rejected"] \in Record
    BY FieldTypes DEF TypeOK, Job, AcceptanceStatus
  <2> QED
    BY <1>6, <2>1 DEF RecordTimeout, Goto, TypeOK, Points
<1>7. CASE TellTimeout(t)
  BY <1>7, EndTaskType DEF TellTimeout, TypeOK
<1> QED
  BY <1>1, <1>2, <1>3, <1>4, <1>5, <1>6, <1>7

(* The steps of an answer.                                                    *)
LEMMA AnswerType ==
    ASSUME TypeOK, NEW t \in Task, PointInv(t), SessionInv(t),
           \/ ReadRecord(t)
           \/ Decide(t)
           \/ Flush(t)
           \/ RecordAnswer(t)
           \/ TellAnswer(t)
           \/ Commit(t)
           \/ DeadlockVictim(t)
           \/ Fail(t)
    PROVE  TypeOK'
<1> DEFINE m == Head(job[t].todo)
<1>1. CASE ReadRecord(t)
  <2>1. /\ job[t] \in Job
        /\ m.order \in Order
        /\ Tail(job[t].todo) \in Seq(Message)
    BY <1>1, TodoTypes DEF ReadRecord
  <2>2. record[m.order] \in Record
    BY <2>1 DEF TypeOK
  <2>3. /\ [job[t] EXCEPT !.data = record[m.order]] \in Job
        /\ [job[t] EXCEPT !.todo = Tail(job[t].todo)] \in Job
    BY <2>1, <2>2, FieldTypes
  <2>4. job' \in [Task -> Job]
    <3>1. \/ job' = [job EXCEPT ![t] = [job[t] EXCEPT !.data = record[m.order]]]
          \/ job' = [job EXCEPT ![t] = [job[t] EXCEPT !.todo = Tail(job[t].todo)]]
      BY <1>1 DEF ReadRecord
    <3> QED
      BY <2>3, <3>1 DEF TypeOK
  <2>5. pc' \in [Task -> Points]
    BY <1>1 DEF ReadRecord, Goto, TypeOK, Points
  <2> QED
    BY <1>1, <2>4, <2>5 DEF ReadRecord, TypeOK
<1>2. CASE Decide(t)
  <2>1. m.order \in Order
    BY <1>2, TodoTypes DEF Decide, PointInv
  <2>2. CASE CanTransition(Selected(t, m.order), Target(m.action))
    <3>1. Target(m.action) \in OrderStatusEnum
      BY AnswerTypes
    <3>2. /\ Load(t, m.order, Target(m.action))
          /\ lost' = lost \cup (job[t].stored \cap {m.order})
          /\ Goto(t, "flush")
          /\ UNCHANGED <<lock, job, status, seen, record, told, failures>>
      BY <1>2, <2>2 DEF Decide
    <3> QED
      BY <2>1, <3>1, <3>2 DEF Load, Goto, TypeOK, Points
  <2>3. CASE ~ CanTransition(Selected(t, m.order), Target(m.action))
    BY <1>2, <2>3, AbandonType DEF Decide, TypeOK
  <2> QED
    BY <2>2, <2>3
<1>3. CASE Flush(t)
  BY <1>3 DEF Flush, Goto, TypeOK, Points
<1>4. CASE RecordAnswer(t)
  <2>1. job[t] \in Job /\ m.order \in Order
    BY <1>4, TodoTypes DEF RecordAnswer, PointInv
  <2>2. [job[t] EXCEPT !.stored = job[t].stored \cup {m.order}] \in Job
    BY <2>1, FieldTypes
  <2>3. [job[t].data EXCEPT !.status = Answer(m.action)] \in Record
    BY <2>1, FieldTypes, AnswerTypes DEF Job
  <2> QED
    BY <1>4, <2>2, <2>3 DEF RecordAnswer, Goto, TypeOK, Points
<1>5. CASE TellAnswer(t)
  <2>1. /\ job[t] \in Job
        /\ Tail(job[t].todo) \in Seq(Message)
    BY <1>5, TodoTypes DEF TellAnswer, PointInv
  <2>2. [job[t] EXCEPT !.todo = Tail(job[t].todo)] \in Job
    BY <2>1, FieldTypes
  <2> QED
    BY <1>5, <2>2, AnswerTypes DEF TellAnswer, Goto, TypeOK, Points
<1>6. CASE Commit(t)
  <2>1. status' \in [Order -> OrderStatusEnum \cup {"absent"}]
    BY <1>6 DEF Commit, TypeOK
  <2>2. \A o \in Changed(t) : now[t][o] \in OrderStatusEnum
    BY DEF Changed, SessionInv, Decided, OrderStatusEnum
  <2>3. seen' \in [Order -> SUBSET OrderStatusEnum]
    BY <1>6, <2>2 DEF Commit, TypeOK
  <2> QED
    BY <1>6, <2>1, <2>3, EndTaskType DEF Commit, TypeOK
<1>7. CASE DeadlockVictim(t)
  BY <1>7, AbandonType DEF DeadlockVictim, TypeOK
<1>8. CASE Fail(t)
  <2>1. failures' \in 0..MaxFailures
    BY <1>8, AcceptanceAssumption DEF Fail, TypeOK
  <2> QED
    BY <1>8, <2>1, AbandonType DEF Fail, TypeOK
<1> QED
  BY <1>1, <1>2, <1>3, <1>4, <1>5, <1>6, <1>7, <1>8

--------------------------------------------------------------------------------
(* What every step keeps                                                      *)

Grows ==
    /\ \A o \in Order : seen[o] \subseteq seen'[o]
    /\ lost \subseteq lost'
    /\ \A o \in Order : Exists(o) => Exists(o)'

TaskKept(u) ==
    /\ pc'[u] = pc[u]
    /\ job'[u] = job[u]
    /\ was'[u] = was[u]
    /\ now'[u] = now[u]

(* What t has stored stays to be committed, or is committed, or is lost.      *)
StoredKept(t) ==
    \A o \in job[t].stored :
        \/ o \in job'[t].stored /\ now'[t][o] = now[t][o]
        \/ o \in lost'
        \/ now[t][o] \in seen'[o]

(* The statuses an order has had stay; so does what they prove.               *)
LEMMA TimedOutKept ==
    ASSUME Grows, NEW o \in Order
    PROVE  /\ TimedOut(o) => TimedOut(o)'
           /\ Uncancellable(o) => Uncancellable(o)'
BY DEF Grows, TimedOut, Uncancellable

(* A task that does not move keeps its part of the invariant.                 *)
LEMMA TaskKeeps ==
    ASSUME Grows, TypeOK, NEW u \in Task, SessionInv(u), PointInv(u), TaskKept(u)
    PROVE  SessionInv(u)' /\ PointInv(u)'
<1>1. SessionInv(u)'
  BY DEF Grows, SessionInv, TaskKept
<1>2. PointInv(u)'
  <2>1. pc[u] \in {"record_timeout", "tell_timeout"} => TimedOut(job[u].order)'
    <3> SUFFICES ASSUME pc[u] \in {"record_timeout", "tell_timeout"}
                 PROVE  TimedOut(job[u].order)'
      OBVIOUS
    <3>1. job[u].order \in Order /\ TimedOut(job[u].order)
      BY DEF PointInv
    <3>2. TimedOut(job[u].order)'
      BY <3>1 DEF Grows, TimedOut, Uncancellable, TaskKept
    <3> QED
      BY <3>2
  <2>2. pc[u] = "decide" => Exists(Head(job[u].todo).order)'
    <3> SUFFICES ASSUME pc[u] = "decide"
                 PROVE  Exists(Head(job[u].todo).order)'
      OBVIOUS
    <3>1. Head(job[u].todo).order \in Order
      BY TodoTypes DEF PointInv
    <3> QED
      BY <3>1 DEF PointInv, Grows, Exists, TaskKept
  <2> QED
    BY <2>1, <2>2 DEF PointInv, TaskKept, Grows, Exists, TimedOut, Uncancellable
<1> QED
  BY <1>1, <1>2

(* So an answer that is backed stays backed.                                  *)
LEMMA BackedKept ==
    ASSUME Grows, NEW o \in Order, NEW s, Backed(o, s),
           \A u \in Task : TaskKept(u) \/ StoredKept(u)
    PROVE  Backed(o, s)'
<1>1. CASE s \in seen[o] \/ o \in lost
  BY <1>1 DEF Grows, Backed
<1>2. ASSUME NEW u \in Task, o \in job[u].stored, now[u][o] = s
      PROVE  Backed(o, s)'
  BY <1>2 DEF Backed, TaskKept, StoredKept
<1> QED
  BY <1>1, <1>2 DEF Backed

(* What has to be shown of a step of the task t.                              *)
TaskStep(t) ==
    /\ Grows
    /\ HistoryInv'
    /\ \A u \in Task \ {t} : TaskKept(u)
    /\ StoredKept(t)
    /\ SessionInv(t)'
    /\ PointInv(t)'
    /\ \A o \in Order : record'[o] = record[o] \/ RecordInv(o)'
    /\ \A o \in Order : told'[o] = told[o] \/ ToldInv(o)'

(* A record or a message that stays is still true.                            *)
LEMMA OrderKeeps ==
    ASSUME Grows, NEW o \in Order,
           \A u \in Task : TaskKept(u) \/ StoredKept(u)
    PROVE  /\ record'[o] = record[o] /\ RecordInv(o) => RecordInv(o)'
           /\ told'[o] = told[o] /\ ToldInv(o) => ToldInv(o)'
<1>1. /\ Backed(o, "CONFIRMED") => Backed(o, "CONFIRMED")'
      /\ Backed(o, "CANCELLED") => Backed(o, "CANCELLED")'
  BY BackedKept
<1>2. ~ Exists(o)' => ~ Exists(o)
  BY DEF Grows
<1> QED
  BY <1>1, <1>2, TimedOutKept DEF RecordInv, ToldInv

(* Enough for a step of a task.                                               *)
LEMMA TaskStepKeeps ==
    ASSUME IInv, TypeOK', NEW t \in Task, TaskStep(t)
    PROVE  IInv'
<1>1. \A u \in Task : TaskKept(u) \/ StoredKept(u)
  BY DEF TaskStep
<1>2. ASSUME NEW u \in Task
      PROVE  SessionInv(u)' /\ PointInv(u)'
  BY TaskKeeps DEF TaskStep, IInv
<1>3. ASSUME NEW o \in Order
      PROVE  RecordInv(o)' /\ ToldInv(o)'
  BY <1>1, OrderKeeps DEF TaskStep, IInv
<1> QED
  BY <1>2, <1>3 DEF IInv, TaskStep

(* Enough for a step outside the tasks.                                       *)
LEMMA OutsideStepKeeps ==
    ASSUME IInv, TypeOK', Grows, HistoryInv', UNCHANGED <<session, told>>,
           \A o \in Order : record'[o] = record[o] \/ RecordInv(o)'
    PROVE  IInv'
<1>1. \A u \in Task : TaskKept(u)
  BY DEF TaskKept, session
<1>2. ASSUME NEW u \in Task
      PROVE  SessionInv(u)' /\ PointInv(u)'
  BY <1>1, TaskKeeps DEF IInv
<1>3. ASSUME NEW o \in Order
      PROVE  RecordInv(o)' /\ ToldInv(o)'
  BY <1>1, OrderKeeps DEF IInv
<1> QED
  BY <1>2, <1>3 DEF IInv

(* A step that commits nothing.                                               *)
LEMMA NothingCommitted ==
    ASSUME HistoryInv, UNCHANGED <<status, seen>>, lost \subseteq lost'
    PROVE  Grows /\ HistoryInv'
BY DEF HistoryInv, Grows, Exists

--------------------------------------------------------------------------------
(* The steps                                                                  *)

(* The rest of the system keeps the invariant.                                *)
LEMMA OutsideKeeps ==
    ASSUME IInv, TypeOK', Outside
    PROVE  IInv'
<1> SUFFICES ASSUME NEW o \in Order,
                    \/ PlaceOrder(o)
                    \/ \E s \in OtherStatuses : OthersMove(o, s)
                    \/ Expire(o)
             PROVE  IInv'
  BY DEF Outside
<1>1. CASE PlaceOrder(o)
  <2>1. Grows /\ HistoryInv'
    BY <1>1 DEF PlaceOrder, Write, IInv, TypeOK, HistoryInv, Grows, Exists
  <2> QED
    BY <1>1, <2>1, OutsideStepKeeps DEF PlaceOrder
<1>2. ASSUME NEW s \in OtherStatuses, OthersMove(o, s)
      PROVE  IInv'
  <2>1. s # "absent"
    BY AcceptanceAssumption DEF OrderStatusEnum
  <2>2. Grows /\ HistoryInv'
    BY <1>2, <2>1 DEF OthersMove, Write, IInv, TypeOK, HistoryInv, Grows, Exists
  <2> QED
    BY <1>2, <2>2, OutsideStepKeeps DEF OthersMove
<1>3. CASE Expire(o)
  <2>1. Grows /\ HistoryInv'
    BY <1>3, NothingCommitted DEF Expire, IInv
  <2>2. \A p \in Order : record'[p] = record[p] \/ RecordInv(p)'
    BY <1>3 DEF Expire, IInv, TypeOK, RecordInv, NoRecord
  <2> QED
    BY <1>3, <2>1, <2>2, OutsideStepKeeps DEF Expire
<1> QED
  BY <1>1, <1>2, <1>3

(* A task at rest holds nothing and has stored nothing.                       *)
LEMMA IdleTask ==
    ASSUME NEW t \in Task, PointInv(t), pc[t] = "idle"
    PROVE  /\ job[t].stored = {}
           /\ \A o \in Order : now[t][o] = "absent"
BY DEF PointInv, NoJob

(* A request that begins.                                                     *)
LEMMA ArriveKeeps ==
    ASSUME IInv, TypeOK', NEW t \in Task, Arrive(t)
    PROVE  IInv'
<1>1. /\ job[t].stored = {}
      /\ \A o \in Order : now[t][o] = "absent" /\ was[t][o] = "absent"
      /\ pc[t] = "idle"
  <2>1. pc[t] = "idle"
    BY DEF Arrive, RequestAcceptance, RespondAcceptance, WhatsappWebhook, Begin
  <2>2. SessionInv(t) /\ PointInv(t)
    BY DEF IInv
  <2> QED
    BY <2>1, <2>2, IdleTask DEF SessionInv
<1>2. Grows /\ HistoryInv'
  BY NothingCommitted
     DEF Arrive, RequestAcceptance, RespondAcceptance, WhatsappWebhook, IInv
<1>3. ASSUME NEW o \in Order, RequestAcceptance(t, o)
      PROVE  TaskStep(t)
  <2>1. job'[t] = [NoJob EXCEPT !.order = o] /\ pc'[t] = "send"
    BY <1>3 DEF RequestAcceptance, Begin, IInv, TypeOK
  <2>2. \A u \in Task \ {t} : TaskKept(u)
    BY <1>3 DEF RequestAcceptance, Begin, IInv, TypeOK, TaskKept
  <2>3. SessionInv(t)'
    BY <1>1, <1>3, <2>1 DEF RequestAcceptance, SessionInv, NoJob
  <2>4. PointInv(t)'
    BY <1>3, <2>1 DEF RequestAcceptance, PointInv, NoJob, Exists
  <2> QED
    BY <1>1, <1>2, <1>3, <2>2, <2>3, <2>4
       DEF TaskStep, StoredKept, RequestAcceptance
<1>4. ASSUME NEW m \in Message, RespondAcceptance(t, m)
      PROVE  TaskStep(t)
  <2>1. job'[t] = [NoJob EXCEPT !.todo = <<m>>] /\ pc'[t] = "respond"
    BY <1>4 DEF RespondAcceptance, Begin, IInv, TypeOK
  <2>2. \A u \in Task \ {t} : TaskKept(u)
    BY <1>4 DEF RespondAcceptance, Begin, Load, IInv, TypeOK, TaskKept
  <2>3. m.order \in Order
    BY DEF Message
  <2>4. \A o \in Order : now'[t][o] = was'[t][o]
    BY <1>1, <1>4, <2>3 DEF RespondAcceptance, Load, IInv, TypeOK
  <2>5. SessionInv(t)'
    BY <2>1, <2>4 DEF SessionInv, NoJob
  <2>6. PointInv(t)'
    BY <2>1 DEF PointInv
  <2> QED
    BY <1>1, <1>2, <1>4, <2>2, <2>5, <2>6
       DEF TaskStep, StoredKept, RespondAcceptance
<1>5. ASSUME NEW list \in Batches, WhatsappWebhook(t, list)
      PROVE  TaskStep(t)
  <2>1. job'[t] = [NoJob EXCEPT !.todo = list] /\ pc'[t] = "respond"
    BY <1>5 DEF WhatsappWebhook, Begin, IInv, TypeOK
  <2>2. \A u \in Task \ {t} : TaskKept(u)
    BY <1>5 DEF WhatsappWebhook, Begin, IInv, TypeOK, TaskKept
  <2>3. SessionInv(t)'
    BY <1>1, <1>5, <2>1 DEF WhatsappWebhook, SessionInv, NoJob
  <2>4. PointInv(t)'
    BY <2>1 DEF PointInv
  <2> QED
    BY <1>1, <1>2, <1>5, <2>2, <2>3, <2>4
       DEF TaskStep, StoredKept, WhatsappWebhook
<1> QED
  BY <1>3, <1>4, <1>5, TaskStepKeeps DEF Arrive

(* A task that has ended is at rest again.                                    *)
LEMMA Ended ==
    ASSUME TypeOK, NEW t \in Task, EndTask(t)
    PROVE  /\ SessionInv(t)'
           /\ PointInv(t)'
           /\ \A u \in Task \ {t} : TaskKept(u)
<1>1. /\ pc'[t] = "idle"
      /\ job'[t] = NoJob
      /\ \A o \in Order : was'[t][o] = "absent" /\ now'[t][o] = "absent"
      /\ \A u \in Task \ {t} : TaskKept(u)
  BY DEF EndTask, TypeOK, TaskKept
<1> QED
  BY <1>1 DEF SessionInv, PointInv, NoJob

(* A task that gives up: what it stored is lost.                              *)
LEMMA AbandonKeeps ==
    ASSUME IInv, TypeOK', NEW t \in Task, Abandon(t),
           UNCHANGED <<status, seen, record, told>>
    PROVE  IInv'
<1>1. Grows /\ HistoryInv'
  BY NothingCommitted DEF Abandon, IInv
<1>2. StoredKept(t)
  BY DEF Abandon, StoredKept
<1>3. SessionInv(t)' /\ PointInv(t)' /\ \A u \in Task \ {t} : TaskKept(u)
  BY Ended DEF Abandon, IInv
<1> QED
  BY <1>1, <1>2, <1>3, TaskStepKeeps DEF TaskStep

(* A step that leaves the session, the order and the history alone.           *)
LEMMA QuietStep ==
    ASSUME IInv, TypeOK', NEW t \in Task,
           \A u \in Task \ {t} : pc'[u] = pc[u] /\ job'[u] = job[u],
           UNCHANGED <<status, seen, was, now>>, lost \subseteq lost',
           job'[t].stored = job[t].stored,
           PointInv(t)',
           \A o \in Order : record'[o] = record[o] \/ RecordInv(o)',
           \A o \in Order : told'[o] = told[o] \/ ToldInv(o)'
    PROVE  IInv'
<1>1. Grows /\ HistoryInv'
  BY NothingCommitted DEF IInv
<1>2. \A u \in Task \ {t} : TaskKept(u)
  BY DEF TaskKept
<1>3. SessionInv(t)'
  BY DEF IInv, SessionInv, Exists
<1>4. StoredKept(t)
  BY DEF StoredKept
<1> QED
  BY <1>1, <1>2, <1>3, <1>4, TaskStepKeeps DEF TaskStep

(* The question is stored and the timeout task created.                       *)
LEMMA StorePendingKeeps ==
    ASSUME IInv, TypeOK', NEW t \in Task, StorePending(t)
    PROVE  IInv'
<1>1. job[t].order \in Order /\ Exists(job[t].order) /\ job[t].stored = {}
  BY DEF StorePending, IInv, PointInv
<1>2. /\ \A u \in Task \ {t} : pc'[u] = pc[u]
      /\ pc'[t] = "asleep"
      /\ UNCHANGED <<status, seen, job, was, now, told, lost>>
  BY DEF StorePending, Goto, IInv, TypeOK
<1>3. PointInv(t)'
  BY <1>1, <1>2 DEF PointInv, Exists
<1>4. \A o \in Order : record'[o] = record[o] \/ RecordInv(o)'
  BY <1>1, <1>2 DEF StorePending, IInv, TypeOK, RecordInv, Exists
<1> QED
  BY <1>2, <1>3, <1>4, QuietStep

(* The sleep ends.                                                            *)
LEMMA TimeoutFiresKeeps ==
    ASSUME IInv, TypeOK', NEW t \in Task, TimeoutFires(t)
    PROVE  IInv'
<1> DEFINE o == job[t].order
<1>1. o \in Order /\ Exists(o) /\ job[t].stored = {}
  BY DEF TimeoutFires, IInv, PointInv
<1>2. UNCHANGED <<status, seen, record, told, lost>>
  BY DEF TimeoutFires
<1>3. CASE record[o].status = "pending"
  <2>1. /\ job' = [job EXCEPT ![t] = [job[t] EXCEPT !.data = record[o]]]
        /\ pc' = [pc EXCEPT ![t] = "cancel"]
        /\ UNCHANGED <<was, now>>
    BY <1>3 DEF TimeoutFires, Goto
  <2>2. job[t] \in Job
    BY DEF IInv, TypeOK
  <2>3. /\ job'[t].order = o
        /\ job'[t].stored = {}
        /\ pc'[t] = "cancel"
        /\ \A u \in Task \ {t} : pc'[u] = pc[u] /\ job'[u] = job[u]
    BY <1>1, <2>1, <2>2 DEF IInv, TypeOK, Job
  <2>4. PointInv(t)'
    BY <1>1, <1>2, <2>3 DEF PointInv, Exists
  <2> QED
    BY <1>1, <1>2, <2>1, <2>3, <2>4, QuietStep
<1>4. CASE record[o].status # "pending"
  <2>1. EndTask(t)
    BY <1>4 DEF TimeoutFires
  <2>2. lost' = lost \cup job[t].stored
    BY <1>1, <1>2
  <2> QED
    BY <1>2, <2>1, <2>2, AbandonKeeps DEF Abandon
<1> QED
  BY <1>3, <1>4

(* A refused cancellation proves that the order cannot be cancelled.          *)
LEMMA TimeoutSelectKeeps ==
    ASSUME IInv, TypeOK', NEW t \in Task, TimeoutSelect(t)
    PROVE  IInv'
<1> DEFINE o == job[t].order
<1>1. o \in Order /\ Exists(o) /\ job[t].stored = {}
  BY DEF TimeoutSelect, IInv, PointInv
<1>2. /\ UNCHANGED <<status, seen, record, told, lost, job, was, now>>
      /\ \A u \in Task \ {t} : pc'[u] = pc[u]
  BY DEF TimeoutSelect, Goto, IInv, TypeOK
<1>3. \/ pc'[t] = "cancel_commit"
      \/ pc'[t] = "record_timeout" /\ ~ CanTransition(status[o], "CANCELLED")
  BY DEF TimeoutSelect, Goto, IInv, TypeOK
<1>4. pc'[t] = "record_timeout" => TimedOut(o)
  <2>1. status[o] \in seen[o]
    BY <1>1 DEF IInv, HistoryInv
  <2> QED
    BY <1>3, <2>1 DEF TimedOut, Uncancellable
<1>5. PointInv(t)'
  BY <1>1, <1>2, <1>3, <1>4
     DEF PointInv, Exists, TimedOut, Uncancellable
<1> QED
  BY <1>2, <1>5, QuietStep

(* The cancellation by timeout is committed, or fails to be.                  *)
LEMMA TimeoutCommitKeeps ==
    ASSUME IInv, TypeOK', NEW t \in Task,
           TimeoutCommit(t) \/ TimeoutCommitFails(t)
    PROVE  IInv'
<1> DEFINE o == job[t].order
<1>1. o \in Order /\ Exists(o) /\ job[t].stored = {}
  BY DEF TimeoutCommit, TimeoutCommitFails, IInv, PointInv
<1>2. /\ UNCHANGED <<record, told, job, was, now>>
      /\ \A u \in Task \ {t} : TaskKept(u)
      /\ pc'[t] = "record_timeout"
  BY DEF TimeoutCommit, TimeoutCommitFails, Goto, IInv, TypeOK, TaskKept
<1>3. /\ Grows
      /\ HistoryInv'
      /\ "CANCELLED" \in seen'[o] \/ o \in lost'
  <2>1. CASE TimeoutCommit(t)
    BY <1>1, <2>1
       DEF TimeoutCommit, Write, Grows, HistoryInv, Exists, IInv, TypeOK
  <2>2. CASE TimeoutCommitFails(t)
    BY <2>2, NothingCommitted DEF TimeoutCommitFails, IInv
  <2> QED
    BY <2>1, <2>2
<1>4. PointInv(t)'
  BY <1>1, <1>2, <1>3 DEF PointInv, TimedOut, Grows
<1>5. SessionInv(t)'
  BY <1>2, <1>3 DEF IInv, SessionInv, Grows
<1>6. StoredKept(t)
  BY <1>1 DEF StoredKept
<1> QED
  BY <1>2, <1>3, <1>4, <1>5, <1>6, TaskStepKeeps DEF TaskStep

(* The record says that time was up.                                          *)
LEMMA RecordTimeoutKeeps ==
    ASSUME IInv, TypeOK', NEW t \in Task, RecordTimeout(t)
    PROVE  IInv'
<1> DEFINE o == job[t].order
           new == [job[t].data EXCEPT !.status = "auto_rejected"]
<1>1. /\ o \in Order
      /\ Exists(o)
      /\ TimedOut(o)
      /\ job[t].stored = {}
      /\ pc[t] = "record_timeout"
  BY DEF RecordTimeout, IInv, PointInv
<1>2. /\ UNCHANGED <<status, seen, told, lost, job, was, now>>
      /\ \A u \in Task \ {t} : pc'[u] = pc[u]
      /\ pc'[t] = "tell_timeout"
      /\ record' = [record EXCEPT ![o] = new]
  BY DEF RecordTimeout, Goto, IInv, TypeOK
<1>3. TimedOut(o)'
  BY <1>1, <1>2 DEF TimedOut, Uncancellable
<1>4. PointInv(t)'
  BY <1>1, <1>2, <1>3 DEF PointInv, Exists
<1>5. new.status = "auto_rejected"
  BY DEF IInv, TypeOK, Job, Record
<1>6. \A p \in Order : record'[p] = record[p] \/ RecordInv(p)'
  BY <1>1, <1>2, <1>3, <1>5 DEF RecordInv, Exists, IInv, TypeOK
<1> QED
  BY <1>2, <1>4, <1>6, QuietStep

(* The customer is told of the rejection.                                     *)
LEMMA TellTimeoutKeeps ==
    ASSUME IInv, TypeOK', NEW t \in Task, TellTimeout(t)
    PROVE  IInv'
<1>1. PICK o \in Order : o = job[t].order /\ TimedOut(o) /\ job[t].stored = {}
  BY DEF TellTimeout, IInv, PointInv
<1>2. Grows /\ HistoryInv'
  BY NothingCommitted DEF TellTimeout, IInv
<1>3. SessionInv(t)' /\ PointInv(t)' /\ \A u \in Task \ {t} : TaskKept(u)
  BY Ended DEF TellTimeout, IInv
<1>4. StoredKept(t)
  BY <1>1 DEF StoredKept
<1>5. ToldInv(o)'
  <2>1. Backed(o, "CANCELLED")' \/ Uncancellable(o)'
    BY <1>1, <1>2, TimedOutKept DEF TimedOut, Backed
  <2>2. "accepted" \in told'[o] => "accepted" \in told[o]
    BY <1>1 DEF TellTimeout, IInv, TypeOK
  <2>3. Backed(o, "CONFIRMED") => Backed(o, "CONFIRMED")'
    BY <1>1, <1>2, <1>3, <1>4, BackedKept
  <2>4. ToldInv(o)
    BY <1>1 DEF IInv
  <2> QED
    BY <2>1, <2>2, <2>3, <2>4 DEF ToldInv
<1>6. \A p \in Order : told'[p] = told[p] \/ ToldInv(p)'
  BY <1>1, <1>5 DEF TellTimeout, IInv, TypeOK
<1> QED
  BY <1>2, <1>3, <1>4, <1>6, TaskStepKeeps DEF TaskStep, TellTimeout

(* A question that is still open is about an order that was placed.           *)
LEMMA ReadRecordKeeps ==
    ASSUME IInv, TypeOK', NEW t \in Task, ReadRecord(t)
    PROVE  IInv'
<1> DEFINE m == Head(job[t].todo)
<1>1. m.order \in Order /\ job[t] \in Job
  BY TodoTypes DEF ReadRecord, IInv
<1>2. UNCHANGED <<status, seen, record, told, lost, was, now>>
  BY DEF ReadRecord
<1>3. CASE record[m.order].status = "pending"
  <2>1. /\ job' = [job EXCEPT ![t] = [job[t] EXCEPT !.data = record[m.order]]]
        /\ pc' = [pc EXCEPT ![t] = "decide"]
    BY <1>3 DEF ReadRecord, Goto
  <2>2. /\ job'[t].todo = job[t].todo
        /\ job'[t].stored = job[t].stored
        /\ pc'[t] = "decide"
        /\ \A u \in Task \ {t} : pc'[u] = pc[u] /\ job'[u] = job[u]
    BY <1>1, <2>1 DEF IInv, TypeOK, Job
  <2>3. Exists(m.order)
    BY <1>1, <1>3 DEF IInv, RecordInv, NoRecord
  <2>4. PointInv(t)'
    BY <1>2, <2>2, <2>3 DEF PointInv, Exists, ReadRecord
  <2> QED
    BY <1>2, <2>2, <2>4, QuietStep
<1>4. CASE record[m.order].status # "pending"
  <2>1. /\ job' = [job EXCEPT ![t] = [job[t] EXCEPT !.todo = Tail(job[t].todo)]]
        /\ pc' = pc
    BY <1>4 DEF ReadRecord
  <2>2. /\ job'[t].stored = job[t].stored
        /\ pc'[t] = "respond"
        /\ \A u \in Task \ {t} : pc'[u] = pc[u] /\ job'[u] = job[u]
    BY <1>1, <2>1 DEF IInv, TypeOK, Job, ReadRecord
  <2>3. PointInv(t)'
    BY <2>2 DEF PointInv
  <2> QED
    BY <1>2, <2>2, <2>3, QuietStep
<1> QED
  BY <1>3, <1>4

(* What the table says of an answer that is allowed.                          *)
LEMMA AllowedAnswer ==
    ASSUME NEW s, NEW to \in Decided, CanTransition(s, to)
    PROVE  /\ s # to
           /\ s # "CANCELLED"
           /\ s = "CONFIRMED" => to = "CANCELLED"
BY DEF CanTransition, ValidTransitions, Decided

(* An answer that is allowed is put into the session; one that is not ends    *)
(* the task.                                                                  *)
LEMMA DecideKeeps ==
    ASSUME IInv, TypeOK', NEW t \in Task, Decide(t)
    PROVE  IInv'
<1> DEFINE m == Head(job[t].todo)
           o == m.order
           to == Target(m.action)
<1>1. o \in Order /\ Exists(o) /\ to \in Decided /\ pc[t] = "decide"
  BY TodoTypes, AnswerTypes DEF Decide, IInv, PointInv
<1>2. CASE CanTransition(Selected(t, o), to)
  <2>1. /\ Load(t, o, to)
        /\ lost' = lost \cup (job[t].stored \cap {o})
        /\ Goto(t, "flush")
        /\ UNCHANGED <<lock, job, status, seen, record, told, failures>>
    BY <1>2 DEF Decide
  <2>2. /\ \A u \in Task \ {t} : TaskKept(u)
        /\ pc'[t] = "flush"
        /\ now'[t][o] = to
        /\ was'[t][o] = IF was[t][o] = "absent" THEN status[o] ELSE was[t][o]
        /\ \A p \in Order \ {o} : now'[t][p] = now[t][p] /\ was'[t][p] = was[t][p]
    BY <1>1, <2>1 DEF Load, Goto, TaskKept, IInv, TypeOK
  <2>3. was'[t][o] # to /\ was'[t][o] \notin {"CANCELLED", "absent"}
    <3>1. SessionInv(t)
      BY DEF IInv
    <3>2. CASE was[t][o] = "absent"
      <4>1. now[t][o] = "absent"
        BY <1>1, <3>1, <3>2 DEF SessionInv
      <4>2. CanTransition(status[o], to)
        BY <1>2, <4>1 DEF Selected
      <4>3. status[o] # to /\ status[o] # "CANCELLED"
        BY <1>1, <4>2, AllowedAnswer
      <4>4. status[o] # "absent"
        BY <1>1 DEF Exists
      <4>5. was'[t][o] = status[o]
        BY <2>2, <3>2
      <4> QED
        BY <4>3, <4>4, <4>5
    <3>3. CASE was[t][o] # "absent" /\ now[t][o] = was[t][o]
      BY <1>1, <1>2, <2>2, <3>3, AllowedAnswer DEF Selected
    <3>4. CASE was[t][o] # "absent" /\ now[t][o] # was[t][o]
      <4>1. /\ now[t][o] \in Decided
            /\ was[t][o] # "CANCELLED"
        BY <1>1, <3>1, <3>4 DEF SessionInv
      <4>2. CanTransition(now[t][o], to)
        BY <1>2, <4>1 DEF Selected, Decided
      <4>3. /\ now[t][o] # "CANCELLED"
            /\ now[t][o] = "CONFIRMED" => to = "CANCELLED"
        BY <1>1, <4>2, AllowedAnswer
      <4>4. now[t][o] = "CONFIRMED"
        BY <4>1, <4>3 DEF Decided
      <4>5. was'[t][o] = was[t][o]
        BY <2>2, <3>4
      <4> QED
        BY <3>4, <4>1, <4>3, <4>4, <4>5
    <3> QED
      BY <3>2, <3>3, <3>4
  <2>4. Grows /\ HistoryInv'
    BY <2>1, NothingCommitted DEF IInv
  <2>5. SessionInv(t)'
    BY <1>1, <2>1, <2>2, <2>3 DEF SessionInv, IInv, Exists, Decided
  <2>6. PointInv(t)'
    <3>1. job' = job /\ job[t].todo # <<>>
      BY <1>1, <2>1 DEF IInv, PointInv
    <3>2. PICK n : n = Head(job[t].todo)
      OBVIOUS
    <3>3. now'[t][n.order] = Target(n.action) /\ now'[t][n.order] # was'[t][n.order]
      BY <2>2, <2>3, <3>2
    <3>4. n = Head(job'[t].todo)
      BY <3>1, <3>2
    <3>5. pc'[t] = "flush" /\ job'[t].todo # <<>>
      BY <2>2, <3>1
    <3> HIDE DEF m, o, to
    <3> QED
      BY <3>3, <3>4, <3>5 DEF PointInv
  <2>7. StoredKept(t)
    BY <1>1, <2>1, <2>2 DEF StoredKept, IInv, TypeOK, Job
  <2> QED
    BY <2>1, <2>2, <2>4, <2>5, <2>6, <2>7, TaskStepKeeps DEF TaskStep
<1>3. CASE ~ CanTransition(Selected(t, o), to)
  BY <1>3, AbandonKeeps DEF Decide
<1> QED
  BY <1>2, <1>3

(* The UPDATE takes the row's lock.                                           *)
LEMMA FlushKeeps ==
    ASSUME IInv, TypeOK', NEW t \in Task, Flush(t)
    PROVE  IInv'
<1>1. /\ UNCHANGED <<status, seen, record, job, was, now, told, lost>>
      /\ \A u \in Task \ {t} : pc'[u] = pc[u]
      /\ pc'[t] = "record"
  BY DEF Flush, Goto, IInv, TypeOK
<1>2. PointInv(t)'
  BY <1>1 DEF Flush, PointInv, IInv
<1> QED
  BY <1>1, <1>2, QuietStep

(* The answer is stored before it is committed.                               *)
LEMMA RecordAnswerKeeps ==
    ASSUME IInv, TypeOK', NEW t \in Task, RecordAnswer(t)
    PROVE  IInv'
<1>1. PICK m \in Message : m = Head(job[t].todo)
  BY TodoTypes DEF RecordAnswer, IInv, PointInv
<1> DEFINE new == [job[t].data EXCEPT !.status = Answer(m.action)]
<1>2. /\ m.order \in Order
      /\ job[t] \in Job
      /\ job[t].todo # <<>>
      /\ pc[t] = "record"
      /\ now[t][m.order] = Target(m.action)
      /\ now[t][m.order] # was[t][m.order]
  BY <1>1, TodoTypes DEF RecordAnswer, IInv, PointInv
<1>3. /\ UNCHANGED <<status, seen, was, now, told, lost>>
      /\ record' = [record EXCEPT ![m.order] = new]
      /\ job' = [job EXCEPT ![t] =
                    [job[t] EXCEPT !.stored = job[t].stored \cup {m.order}]]
      /\ pc' = [pc EXCEPT ![t] = "tell"]
  BY <1>1 DEF RecordAnswer, Goto
<1>4. /\ job'[t].todo = job[t].todo
      /\ job'[t].stored = job[t].stored \cup {m.order}
      /\ pc'[t] = "tell"
      /\ \A u \in Task \ {t} : TaskKept(u)
  BY <1>2, <1>3 DEF IInv, TypeOK, Job, TaskKept
<1>5. Grows /\ HistoryInv'
  BY <1>3, NothingCommitted DEF IInv
<1>6. SessionInv(t)'
  BY <1>2, <1>3, <1>4 DEF SessionInv, IInv, Exists
<1>7. PointInv(t)'
  BY <1>1, <1>2, <1>3, <1>4 DEF PointInv
<1>8. StoredKept(t)
  BY <1>3, <1>4 DEF StoredKept
<1>9. RecordInv(m.order)'
  <2>1. new.status = Answer(m.action)
    BY <1>2 DEF Job, Record
  <2>2. record'[m.order] = new
    BY <1>2, <1>3 DEF IInv, TypeOK
  <2>3. Backed(m.order, Target(m.action))'
    BY <1>2, <1>3, <1>4 DEF Backed
  <2>4. Exists(m.order)'
    BY <1>2, <1>3 DEF IInv, SessionInv, Exists
  <2> QED
    BY <2>1, <2>2, <2>3, <2>4, AnswerTypes DEF RecordInv
<1>10. \A p \in Order : record'[p] = record[p] \/ RecordInv(p)'
  BY <1>2, <1>3, <1>9 DEF IInv, TypeOK
<1> QED
  BY <1>3, <1>4, <1>5, <1>6, <1>7, <1>8, <1>10, TaskStepKeeps DEF TaskStep

(* The customer is told what is stored.                                       *)
LEMMA TellAnswerKeeps ==
    ASSUME IInv, TypeOK', NEW t \in Task, TellAnswer(t)
    PROVE  IInv'
<1>1. PICK m \in Message : m = Head(job[t].todo)
  BY TodoTypes DEF TellAnswer, IInv, PointInv
<1>2. /\ m.order \in Order
      /\ job[t] \in Job
      /\ m.order \in job[t].stored
      /\ now[t][m.order] = Target(m.action)
  BY <1>1, TodoTypes DEF TellAnswer, IInv, PointInv
<1>3. /\ UNCHANGED <<status, seen, record, was, now, lost>>
      /\ told' = [told EXCEPT ![m.order] = told[m.order] \cup {Answer(m.action)}]
      /\ job' = [job EXCEPT ![t] = [job[t] EXCEPT !.todo = Tail(job[t].todo)]]
      /\ pc' = [pc EXCEPT ![t] = "respond"]
  BY <1>1 DEF TellAnswer, Goto
<1>4. /\ job'[t].stored = job[t].stored
      /\ pc'[t] = "respond"
      /\ \A u \in Task \ {t} : pc'[u] = pc[u] /\ job'[u] = job[u]
  BY <1>2, <1>3 DEF IInv, TypeOK, Job
<1>5. PointInv(t)'
  BY <1>4 DEF PointInv
<1>6. ToldInv(m.order)'
  <2>1. Backed(m.order, Target(m.action))'
    BY <1>2, <1>3, <1>4 DEF Backed
  <2>2. \A s \in told'[m.order] : s \in told[m.order] \/ s = Answer(m.action)
    BY <1>2, <1>3 DEF IInv, TypeOK
  <2>3. \A s : Backed(m.order, s) => Backed(m.order, s)'
    BY <1>3, <1>4 DEF Backed
  <2>4. Uncancellable(m.order) => Uncancellable(m.order)'
    BY <1>3 DEF Uncancellable
  <2>5. ToldInv(m.order)
    BY <1>2 DEF IInv
  <2>6. "accepted" \in told'[m.order] => Backed(m.order, "CONFIRMED")'
    BY <2>1, <2>2, <2>3, <2>5, AnswerTypes DEF ToldInv
  <2>7. "rejected" \in told'[m.order] =>
            Backed(m.order, "CANCELLED")' \/ Uncancellable(m.order)'
    BY <2>1, <2>2, <2>3, <2>4, <2>5, AnswerTypes DEF ToldInv
  <2> QED
    BY <2>6, <2>7 DEF ToldInv
<1>7. \A p \in Order : told'[p] = told[p] \/ ToldInv(p)'
  BY <1>2, <1>3, <1>6 DEF IInv, TypeOK
<1> QED
  BY <1>3, <1>4, <1>5, <1>7, QuietStep

(* Everything that was stored is committed.                                   *)
LEMMA CommitKeeps ==
    ASSUME IInv, TypeOK', NEW t \in Task, Commit(t)
    PROVE  IInv'
<1>1. \A o \in Order :
        \/ /\ now[t][o] = was[t][o]
           /\ status'[o] = status[o]
           /\ seen'[o] = seen[o]
        \/ /\ now[t][o] # was[t][o]
           /\ status'[o] = now[t][o]
           /\ seen'[o] = seen[o] \cup {now[t][o]}
           /\ now[t][o] \in Decided
           /\ Exists(o)
  BY DEF Commit, Changed, IInv, SessionInv
<1>2. Grows
  BY <1>1 DEF Grows, Commit, Exists, Decided
<1>3. HistoryInv'
  BY <1>1 DEF HistoryInv, IInv, Exists, Decided
<1>4. StoredKept(t)
  BY <1>1 DEF StoredKept, IInv, SessionInv, TypeOK, Job
<1>5. SessionInv(t)' /\ PointInv(t)' /\ \A u \in Task \ {t} : TaskKept(u)
  BY Ended DEF Commit, IInv
<1> QED
  BY <1>2, <1>3, <1>4, <1>5, TaskStepKeeps DEF TaskStep, Commit

--------------------------------------------------------------------------------
(* The invariant                                                              *)

(* It holds before anything happened.                                         *)
LEMMA InvInit == Init => IInv
<1> SUFFICES ASSUME Init PROVE IInv
  OBVIOUS
<1>1. HistoryInv
  BY DEF Init, HistoryInv, Exists
<1>2. ASSUME NEW t \in Task
      PROVE  SessionInv(t) /\ PointInv(t)
  BY DEF Init, SessionInv, PointInv, NoJob
<1>3. ASSUME NEW o \in Order
      PROVE  RecordInv(o) /\ ToldInv(o)
  BY DEF Init, RecordInv, ToldInv, NoRecord
<1> QED
  BY <1>1, <1>2, <1>3, TypeInit DEF IInv

(* Every step keeps it.                                                       *)
LEMMA InvNext == IInv /\ [Next]_vars => IInv'
<1> SUFFICES ASSUME IInv, [Next]_vars PROVE IInv'
  OBVIOUS
<1>1. CASE Outside
  BY <1>1, OutsideType, OutsideKeeps DEF IInv
<1>2. ASSUME NEW t \in Task, Arrive(t)
      PROVE  IInv'
  BY <1>2, ArriveType, ArriveKeeps DEF IInv
<1>3. ASSUME NEW t \in Task, Continue(t) \/ TimeoutCommitFails(t) \/ Fail(t)
      PROVE  IInv'
  <2>1. TypeOK /\ PointInv(t) /\ SessionInv(t)
    BY DEF IInv
  <2>2. TypeOK'
    BY <1>3, <2>1, TimeoutType, AnswerType DEF Continue
  <2>3. CASE StorePending(t) \/ TimeoutFires(t) \/ TimeoutSelect(t)
    BY <2>2, <2>3, StorePendingKeeps, TimeoutFiresKeeps, TimeoutSelectKeeps
  <2>4. CASE TimeoutCommit(t) \/ TimeoutCommitFails(t)
    BY <2>2, <2>4, TimeoutCommitKeeps
  <2>5. CASE RecordTimeout(t) \/ TellTimeout(t)
    BY <2>2, <2>5, RecordTimeoutKeeps, TellTimeoutKeeps
  <2>6. CASE ReadRecord(t) \/ Decide(t) \/ Flush(t)
    BY <2>2, <2>6, ReadRecordKeeps, DecideKeeps, FlushKeeps
  <2>7. CASE RecordAnswer(t) \/ TellAnswer(t) \/ Commit(t)
    BY <2>2, <2>7, RecordAnswerKeeps, TellAnswerKeeps, CommitKeeps
  <2>8. CASE DeadlockVictim(t) \/ Fail(t)
    BY <2>2, <2>8, AbandonKeeps DEF DeadlockVictim, Fail
  <2> QED
    BY <1>3, <2>3, <2>4, <2>5, <2>6, <2>7, <2>8 DEF Continue
<1>4. CASE UNCHANGED vars
  <2>1. TypeOK' /\ HistoryInv'
    BY <1>4 DEF vars, session, IInv, TypeOK, HistoryInv, Exists
  <2>2. ASSUME NEW t \in Task
        PROVE  SessionInv(t)' /\ PointInv(t)'
    BY <1>4 DEF vars, session, IInv, SessionInv, PointInv, Exists, TimedOut,
                Uncancellable
  <2>3. ASSUME NEW o \in Order
        PROVE  RecordInv(o)' /\ ToldInv(o)'
    BY <1>4 DEF vars, session, IInv, RecordInv, ToldInv, Backed, Exists,
                TimedOut, Uncancellable
  <2> QED
    BY <2>1, <2>2, <2>3 DEF IInv
<1> QED
  BY <1>1, <1>2, <1>3, <1>4 DEF Next

(* What every task knows of the orders it works on is always true.            *)
THEOREM Invariance == Spec => []IInv
<1>1. Init => IInv
  BY InvInit
<1>2. IInv /\ [Next]_vars => IInv'
  BY InvNext
<1> QED
  BY <1>1, <1>2, PTL DEF Spec

(* Every order, record and task is well typed at all times.                   *)
THEOREM TypeCorrect == Spec => []TypeOK
<1>1. IInv => TypeOK
  BY DEF IInv
<1> QED
  BY <1>1, Invariance, PTL

(* A step leaves an order alone, places it, or gives it a status that one of  *)
(* those it had may be followed by.                                           *)
OrderStep(o) ==
    \/ status'[o] = status[o] /\ seen'[o] = seen[o]
    \/ /\ seen'[o] = seen[o] \cup {status'[o]}
       /\ status'[o] \in OrderStatusEnum
       /\ \/ status[o] = "absent" /\ status'[o] = "PENDING"
          \/ /\ Exists(o)
             /\ \E past \in seen[o] : CanTransition(past, status'[o])

(* What the tasks decide may follow PENDING, which every placed order was.    *)
LEMMA DecidedFollowsPending ==
    ASSUME IInv, NEW o \in Order, Exists(o), NEW s \in Decided
    PROVE  /\ s \in OrderStatusEnum
           /\ \E past \in seen[o] : CanTransition(past, s)
<1>1. "PENDING" \in seen[o]
  BY DEF IInv, HistoryInv
<1>2. CanTransition("PENDING", s)
  BY DEF CanTransition, ValidTransitions, Decided
<1>3. s \in OrderStatusEnum
  BY DEF Decided, OrderStatusEnum
<1> QED
  BY <1>1, <1>2, <1>3

(* No action changes an order in any other way.                               *)
LEMMA OrderSteps ==
    ASSUME IInv, [Next]_vars, NEW o \in Order
    PROVE  OrderStep(o)
<1>1. CASE UNCHANGED <<status, seen>>
  BY <1>1 DEF OrderStep
<1>2. ASSUME NEW p \in Order, PlaceOrder(p)
      PROVE  OrderStep(o)
  BY <1>2 DEF PlaceOrder, Write, OrderStep, IInv, TypeOK, OrderStatusEnum
<1>3. ASSUME NEW p \in Order, NEW s \in OtherStatuses, OthersMove(p, s)
      PROVE  OrderStep(o)
  BY <1>3, AcceptanceAssumption DEF OthersMove, Write, OrderStep, IInv, TypeOK
<1>4. ASSUME NEW t \in Task, TimeoutCommit(t)
      PROVE  OrderStep(o)
  <2>1. job[t].order \in Order /\ Exists(job[t].order)
    BY <1>4 DEF TimeoutCommit, IInv, PointInv
  <2>2. CASE o = job[t].order
    BY <1>4, <2>1, <2>2, DecidedFollowsPending
       DEF TimeoutCommit, Write, OrderStep, Decided, IInv, TypeOK
  <2>3. CASE o # job[t].order
    BY <1>4, <2>1, <2>3 DEF TimeoutCommit, Write, OrderStep, IInv, TypeOK
  <2> QED
    BY <2>2, <2>3
<1>5. ASSUME NEW t \in Task, Commit(t)
      PROVE  OrderStep(o)
  <2>1. CASE o \in Changed(t)
    <3>1. now[t][o] \in Decided /\ Exists(o)
      BY <2>1 DEF Changed, IInv, SessionInv
    <3>2. status'[o] = now[t][o] /\ seen'[o] = seen[o] \cup {now[t][o]}
      BY <1>5, <2>1 DEF Commit
    <3> QED
      BY <3>1, <3>2, DecidedFollowsPending DEF OrderStep
  <2>2. CASE o \notin Changed(t)
    BY <1>5, <2>2 DEF Commit, OrderStep
  <2> QED
    BY <2>1, <2>2
<1>6. \/ UNCHANGED <<status, seen>>
      \/ \E p \in Order : PlaceOrder(p) \/ \E s \in OtherStatuses : OthersMove(p, s)
      \/ \E t \in Task : TimeoutCommit(t) \/ Commit(t)
  <2>1. CASE Outside
    BY <2>1 DEF Outside, Expire
  <2>2. ASSUME NEW t \in Task, Arrive(t) \/ TimeoutCommitFails(t) \/ Fail(t)
        PROVE  UNCHANGED <<status, seen>>
    <3>1. /\ \A p \in Order : RequestAcceptance(t, p) => UNCHANGED <<status, seen>>
          /\ \A m \in Message : RespondAcceptance(t, m) => UNCHANGED <<status, seen>>
          /\ \A l \in Batches : WhatsappWebhook(t, l) => UNCHANGED <<status, seen>>
      BY ZenonT(30) DEF RequestAcceptance, RespondAcceptance, WhatsappWebhook
    <3>2. TimeoutCommitFails(t) \/ Fail(t) => UNCHANGED <<status, seen>>
      BY DEF TimeoutCommitFails, Fail
    <3> QED
      BY <2>2, <3>1, <3>2 DEF Arrive
  <2>3. ASSUME NEW t \in Task, Continue(t)
        PROVE  UNCHANGED <<status, seen>> \/ TimeoutCommit(t) \/ Commit(t)
    <3>1. StorePending(t) \/ TimeoutFires(t) \/ TimeoutSelect(t) \/ RecordTimeout(t)
            \/ TellTimeout(t) => UNCHANGED <<status, seen>>
      BY DEF StorePending, TimeoutFires, TimeoutSelect, RecordTimeout, TellTimeout
    <3>2. ReadRecord(t) \/ Flush(t) \/ RecordAnswer(t) \/ TellAnswer(t)
            => UNCHANGED <<status, seen>>
      BY DEF ReadRecord, Flush, RecordAnswer, TellAnswer
    <3>3. Decide(t) \/ DeadlockVictim(t) => UNCHANGED <<status, seen>>
      BY DEF Decide, DeadlockVictim
    <3> QED
      BY <2>3, <3>1, <3>2, <3>3 DEF Continue
  <2>4. CASE UNCHANGED vars
    BY <2>4 DEF vars
  <2> QED
    BY <2>1, <2>2, <2>3, <2>4 DEF Next
<1> QED
  BY <1>1, <1>2, <1>3, <1>4, <1>5, <1>6

(* Answers and timeouts, interleaved and failing in any way, implement the    *)
(* abstract life cycle of an order.                                           *)
THEOREM Refinement == Spec => ImplementsLifecycle
<1>1. Init => Lifecycle!Init
  BY DEF Init, Lifecycle!Init
<1>2. IInv /\ IInv' /\ [Next]_vars => [Lifecycle!Next]_(Lifecycle!vars)
  <2> SUFFICES ASSUME IInv, IInv', [Next]_vars
               PROVE  Lifecycle!Next
    OBVIOUS
  <2>1. ASSUME NEW o \in Order
        PROVE  \/ status'[o] = status[o]
               \/ Lifecycle!Placed(o)
               \/ Lifecycle!Moved(o)
    BY OrderSteps DEF OrderStep, Exists, Lifecycle!Placed, Lifecycle!Moved,
                      Lifecycle!CanTransition, CanTransition,
                      Lifecycle!ValidTransitions, ValidTransitions
  <2>2. ASSUME NEW o \in Order
        PROVE  seen'[o] = seen[o] \cup ({status'[o]} \ {"absent"})
    <3>1. "absent" \notin OrderStatusEnum
      BY DEF OrderStatusEnum
    <3>2. status[o] # "absent" => status[o] \in seen[o]
      BY DEF IInv, HistoryInv, Exists
    <3> QED
      BY <3>1, <3>2, OrderSteps DEF OrderStep
  <2>3. seen' = [o \in Order |-> seen[o] \cup ({status'[o]} \ {"absent"})]
    BY <2>2 DEF IInv, TypeOK
  <2> QED
    BY <2>1, <2>3 DEF Lifecycle!Next
<1> QED
  BY <1>1, <1>2, Invariance, PTL DEF Spec, ImplementsLifecycle, Lifecycle!Spec

(* An answer in the cache was committed, or is known to be lost.              *)
THEOREM RecordsTellTruth == Spec => []RecordTellsTruth
<1>1. IInv => RecordTellsTruth
  BY DEF IInv, RecordTellsTruth, RecordInv, Backed, TimedOut, Working
<1> QED
  BY <1>1, Invariance, PTL

(* So was what the customer was told.                                         *)
THEOREM CustomersToldTruth == Spec => []CustomerToldTruth
<1>1. IInv => CustomerToldTruth
  BY DEF IInv, CustomerToldTruth, ToldInv, Backed, Working
<1> QED
  BY <1>1, Invariance, PTL
================================================================================
