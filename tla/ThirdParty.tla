------------------------------ MODULE ThirdParty -------------------------------
(******************************************************************************)
(* Orders of delivery platforms.  A platform posts an order to the webhook of *)
(* the restaurant's connection, again and again until it is answered; intake  *)
(* looks for the order before it inserts it, in two statements that no unique *)
(* constraint backs.  When a platform fails to deliver, the fallback counts   *)
(* attempts in the cache and then takes the order over by renaming its source.*)
(*                                                                            *)
(* The connections are rows that owners create, change and delete meanwhile.  *)
(******************************************************************************)
EXTENDS Naturals, FiniteSets

CONSTANTS
    External,       \* orders of platforms (merchant_ref, external_order_id)
    Malformed,      \* those whose payload cannot be normalized
    Paid,           \* those that are paid at the platform
    Platform,
    Merchant,
    Restaurant,     \* the names restaurants have on platforms
    Connection,
    MaxRows,        \* how many orders intake may insert
    Task,           \* requests at the same time
    MaxRetries,     \* max_retry_attempts
    RestaurantOf,   \* where an external order was placed
    PlatformOf,
    None

(* Ids of orders, taken in turn.                                              *)
Row == 1..MaxRows

ConnectionRow == [merchant : Merchant, platform : Platform, ref : Restaurant]

(* own: source is the platform's name, as intake writes it, and not           *)
(* "{platform}_fallback".                                                     *)
OrderRow == [merchant : Merchant, platform : Platform, own : BOOLEAN,
             external : External, status : {"PENDING", "CONFIRMED"}]

ASSUME ThirdPartyAssumption ==
    /\ Malformed \subseteq External
    /\ Paid \subseteq External
    /\ RestaurantOf \in [External -> Restaurant]
    /\ PlatformOf \in [External -> Platform]
    /\ MaxRetries \in Nat
    /\ MaxRows \in Nat
    /\ None \notin Connection \cup External \cup Merchant \cup Platform
    /\ None \notin ConnectionRow \cup OrderRow

VARIABLES
    connection,     \* platform_connections
    orders,         \* orders with an external_order_id
    attempts,       \* the cache: fallback:retry:{order_id}
    job,            \* where a request is and what it has read
    answered,       \* history: the answers the platform got for an order
    raced,          \* history: orders that two requests worked on at the same time
    retried         \* history: how often a retry was answered for an order

vars == <<connection, orders, attempts, job, answered, raced, retried>>

--------------------------------------------------------------------------------
Answer == {"created", "duplicate", "error"}

Idle == [at |-> "idle", external |-> None, merchant |-> None, row |-> 0,
         platform |-> None, count |-> 0]

Job == [at : {"idle", "check", "insert", "counted", "takeover"},
        external : External \cup {None}, merchant : Merchant \cup {None},
        row : Row \cup {0}, platform : Platform \cup {None}, count : 0..MaxRetries]

TypeOK ==
    /\ connection \in [Connection -> ConnectionRow \cup {None}]
    /\ orders \in [Row -> OrderRow \cup {None}]
    /\ attempts \in [Row -> 0..MaxRetries]
    /\ job \in [Task -> Job]
    /\ answered \in [External -> SUBSET Answer]
    /\ raced \in SUBSET External
    /\ retried \in [Row -> 0..MaxRetries]

Init ==
    /\ connection = [c \in Connection |-> None]
    /\ orders = [i \in Row |-> None]
    /\ attempts = [i \in Row |-> 0]
    /\ job = [t \in Task |-> Idle]
    /\ answered = [e \in External |-> {}]
    /\ raced = {}
    /\ retried = [i \in Row |-> 0]

Goto(t, j) == job' = [job EXCEPT ![t] = j]

RollBack(t) ==
    /\ Goto(t, Idle)
    /\ UNCHANGED <<connection, orders, attempts, answered, raced, retried>>

--------------------------------------------------------------------------------
(* Connections.  Nothing makes a name unique, and is_active is never asked.   *)

CreateConnection(c, row) ==
    /\ connection[c] = None
    /\ connection' = [connection EXCEPT ![c] = row]
    /\ UNCHANGED <<orders, attempts, job, answered, raced, retried>>

UpdateConnection(c, ref) ==
    /\ connection[c] # None
    /\ connection' = [connection EXCEPT ![c].ref = ref]
    /\ UNCHANGED <<orders, attempts, job, answered, raced, retried>>

DeleteConnection(c) ==
    /\ connection[c] # None
    /\ connection' = [connection EXCEPT ![c] = None]
    /\ UNCHANGED <<orders, attempts, job, answered, raced, retried>>

--------------------------------------------------------------------------------
(* Intake                                                                     *)

Named(e) ==
    {c \in Connection : /\ connection[c] # None
                        /\ connection[c].ref = RestaurantOf[e]
                        /\ connection[c].platform = PlatformOf[e]}

(* The webhook finds the connection of the restaurant: without one it answers *)
(* 404 and with two it raises.                                                *)
Webhook(t, e) ==
    /\ job[t] = Idle
    /\ \E c \in Connection :
           /\ Named(e) = {c}
           /\ IF e \in Malformed
              THEN /\ answered' = [answered EXCEPT ![e] = @ \cup {"error"}]
                   /\ UNCHANGED <<job, raced>>
              ELSE /\ Goto(t, [Idle EXCEPT !.at = "check", !.external = e,
                                           !.merchant = connection[c].merchant])
                   /\ raced' = IF \E u \in Task : job[u].external = e
                               THEN raced \cup {e} ELSE raced
                   /\ UNCHANGED answered
    /\ UNCHANGED <<connection, orders, attempts, retried>>

(* Mutant of Copies: the source is compared with the fallback's.              *)
CopiesTakenOver(e, m) ==
    {i \in Row : orders[i] # None /\ orders[i].external = e
                 /\ orders[i].merchant = m /\ ~ orders[i].own}

(* What the duplicate check selects.                                          *)
Copies(e, m) ==
    {i \in Row : orders[i] # None /\ orders[i].external = e
                 /\ orders[i].merchant = m /\ orders[i].own
                 /\ orders[i].platform = PlatformOf[e]}

(* One copy is a duplicate; two, and every later check raises.                *)
FoundDuplicate(t) ==
    LET e == job[t].external IN
    /\ job[t].at = "check"
    /\ Cardinality(Copies(e, job[t].merchant)) = 1
    /\ answered' = [answered EXCEPT ![e] = @ \cup {"duplicate"}]
    /\ Goto(t, Idle)
    /\ UNCHANGED <<connection, orders, attempts, raced, retried>>

FoundNone(t) ==
    /\ job[t].at = "check"
    /\ Copies(job[t].external, job[t].merchant) = {}
    /\ Goto(t, [job[t] EXCEPT !.at = "insert"])
    /\ UNCHANGED <<connection, orders, attempts, answered, raced, retried>>

NextRow(i) == {k \in Row : orders[k] = None} = i..MaxRows

(* Mutant of Insert: the platform is answered, and the session fails.         *)
InsertLost(t, i) ==
    LET e == job[t].external IN
    /\ job[t].at = "insert"
    /\ NextRow(i)
    /\ answered' = [answered EXCEPT ![e] = @ \cup {"created"}]
    /\ Goto(t, Idle)
    /\ UNCHANGED <<connection, orders, attempts, raced, retried>>

(* The order and its items are inserted and committed, then answered for.     *)
Insert(t, i) ==
    LET e == job[t].external
        m == job[t].merchant
    IN /\ job[t].at = "insert"
       /\ NextRow(i)
       /\ orders' = [orders EXCEPT ![i] =
              [merchant |-> m, platform |-> PlatformOf[e], own |-> TRUE, external |-> e,
               status |-> IF e \in Paid THEN "CONFIRMED" ELSE "PENDING"]]
       /\ answered' = [answered EXCEPT ![e] = @ \cup {"created"}]
       /\ Goto(t, Idle)
       /\ UNCHANGED <<connection, attempts, raced, retried>>

--------------------------------------------------------------------------------
(* Fallback                                                                   *)

(* Mutant of TriggerFallback: one retry too many.                             *)
TriggerFallbackAtMost(t, i, p) ==
    /\ job[t] = Idle
    /\ orders[i] # None
    /\ Goto(t, [Idle EXCEPT !.row = i, !.platform = p, !.count = attempts[i],
                            !.at = IF attempts[i] <= MaxRetries THEN "counted"
                                                                ELSE "takeover"])
    /\ UNCHANGED <<connection, orders, attempts, answered, raced, retried>>

(* trigger_fallback names any order and any platform; its configuration is    *)
(* the default one, whatever was put.                                         *)
TriggerFallback(t, i, p) ==
    /\ job[t] = Idle
    /\ orders[i] # None
    /\ Goto(t, [Idle EXCEPT !.row = i, !.platform = p, !.count = attempts[i],
                            !.at = IF attempts[i] < MaxRetries THEN "counted"
                                                               ELSE "takeover"])
    /\ UNCHANGED <<connection, orders, attempts, answered, raced, retried>>

(* Mutant of Retry: an attempt counts twice.                                  *)
RetryTwice(t) ==
    LET i == job[t].row IN
    /\ job[t].at = "counted"
    /\ attempts' = [attempts EXCEPT ![i] =
           IF job[t].count + 2 > MaxRetries THEN MaxRetries ELSE job[t].count + 2]
    /\ retried' = [retried EXCEPT ![i] = IF @ < MaxRetries THEN @ + 1 ELSE @]
    /\ Goto(t, Idle)
    /\ UNCHANGED <<connection, orders, answered, raced>>

(* The count that was read is stored, one higher: of attempts at one time     *)
(* only one counts.  (The history stops at the maximum.)                      *)
Retry(t) ==
    LET i == job[t].row IN
    /\ job[t].at = "counted"
    /\ attempts' = [attempts EXCEPT ![i] = job[t].count + 1]
    /\ retried' = [retried EXCEPT ![i] = IF @ < MaxRetries THEN @ + 1 ELSE @]
    /\ Goto(t, Idle)
    /\ UNCHANGED <<connection, orders, answered, raced>>

(* Own delivery: the order is given a driver too, if one is free (Delivery).  *)
TakeOver(t) ==
    /\ job[t].at = "takeover"
    /\ orders' = [orders EXCEPT ![job[t].row].own = FALSE,
                                ![job[t].row].platform = job[t].platform]
    /\ Goto(t, Idle)
    /\ UNCHANGED <<connection, attempts, answered, raced, retried>>

(* An hour without an attempt, or a cache that is gone.                       *)
Forget(i) ==
    /\ attempts[i] > 0
    /\ attempts' = [attempts EXCEPT ![i] = 0]
    /\ UNCHANGED <<connection, orders, job, answered, raced, retried>>

--------------------------------------------------------------------------------
Next ==
    \/ \E c \in Connection :
           \/ \E row \in ConnectionRow : CreateConnection(c, row)
           \/ \E ref \in Restaurant : UpdateConnection(c, ref)
           \/ DeleteConnection(c)
    \/ \E t \in Task :
           \/ \E e \in External : Webhook(t, e)
           \/ FoundDuplicate(t)
           \/ FoundNone(t)
           \/ \E i \in Row : Insert(t, i)
           \/ \E i \in Row, p \in Platform : TriggerFallback(t, i, p)
           \/ Retry(t)
           \/ TakeOver(t)
           \/ job[t] # Idle /\ RollBack(t)
    \/ \E i \in Row : Forget(i)

Spec == Init /\ [][Next]_vars

(* The platform posts an order until it is answered; a request ends.          *)
Answered(e) == answered[e] # {}

Fairness ==
    /\ \A e \in External : SF_vars(\E t \in Task : ~ Answered(e) /\ Webhook(t, e))
    /\ \A t \in Task :
           /\ WF_vars(job[t] # Idle /\ RollBack(t))
           /\ SF_vars(FoundNone(t))
           /\ SF_vars(\E i \in Row : Insert(t, i))
           /\ SF_vars(FoundDuplicate(t))

LiveSpec == Spec /\ Fairness

--------------------------------------------------------------------------------
(* Properties                                                                 *)

Held(e) == {i \in Row : orders[i] # None /\ orders[i].external = e}

(* Whatever requests overlap, fail or are sent again, and whatever becomes of *)
(* the connection: an order the platform believes to be taken is in the       *)
(* database, and one that cannot be read never is.                            *)
AnswersAreTrue ==
    \A e \in External :
        /\ answered[e] \cap {"created", "duplicate"} # {} => Held(e) # {}
        /\ e \in Malformed => Held(e) = {}

(* However often a platform sends an order, a merchant has it once, unless    *)
(* two deliveries of it overlapped.  Orders that the fallback took over do    *)
(* not count: the duplicate check no longer sees them, and each may be        *)
(* followed by another.                                                       *)
TakenOnce ==
    \A e \in External \ raced, m \in Merchant :
        Cardinality({i \in Held(e) : orders[i].merchant = m /\ orders[i].own}) <= 1

(* The counter loses attempts and is forgotten, and is shared by no two       *)
(* orders: the fallback never takes an order over before the platform was     *)
(* given all its retries for that order.                                      *)
RetriedFirst ==
    \A i \in Row : orders[i] # None /\ ~ orders[i].own => retried[i] = MaxRetries

(* A platform that repeats its webhook gets every readable order taken, if    *)
(* from some time on one connection, and no more, names the restaurant.       *)
TakenAtLast ==
    \A e \in External \ Malformed :
        <>[](Cardinality(Named(e)) = 1) => <>(Held(e) # {})
================================================================================
