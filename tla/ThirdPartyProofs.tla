--------------------------- MODULE ThirdPartyProofs ----------------------------
(******************************************************************************)
(* Proofs about ThirdParty for any number of platforms, connections, orders,  *)
(* requests and retries.                                                      *)
(*                                                                            *)
(* Intake decides on a SELECT that may be stale when it inserts, and the      *)
(* fallback on a counter that others overwrite.  IInv says what a request may *)
(* still rely on: as long as no second request has worked on an order, what   *)
(* the first did not find is still not there; and the counter that a request  *)
(* read never exceeds the retries that were really answered.                  *)
(******************************************************************************)
EXTENDS ThirdParty, FiniteSetTheorems, TLAPS

(* Rows intake still recognizes are written as intake writes them.            *)
RowInv ==
    \A i \in Row : orders[i] # None =>
        /\ orders[i].external \notin Malformed
        /\ orders[i].own => orders[i].platform = PlatformOf[orders[i].external]
        /\ ~ orders[i].own => retried[i] = MaxRetries

AnswerInv ==
    \A e \in External : answered[e] \cap {"created", "duplicate"} # {} => Held(e) # {}

(* The counter loses attempts, and never has one that was not answered.       *)
CountInv == \A i \in Row : attempts[i] <= retried[i]

(* Where a request is, and what it knows there.                               *)
JobInv(t) ==
    /\ job[t].at = "idle" => job[t] = Idle
    /\ job[t].at \in {"check", "insert"} =>
        /\ job[t].external \in External \ Malformed
        /\ job[t].merchant \in Merchant
    /\ job[t].at \in {"counted", "takeover"} =>
        /\ job[t].external = None
        /\ job[t].row \in Row
        /\ orders[job[t].row] # None
        /\ job[t].platform \in Platform
    /\ job[t].at = "counted" =>
        /\ job[t].count < MaxRetries
        /\ job[t].count <= retried[job[t].row]
    /\ job[t].at = "takeover" => retried[job[t].row] = MaxRetries

(* Of an order that no two requests worked on at the same time.               *)
SoleInv(e) ==
    /\ \A t, u \in Task : job[t].external = e /\ job[u].external = e => t = u
    /\ \A t \in Task : job[t].external = e /\ job[t].at = "insert" =>
           Copies(e, job[t].merchant) = {}
    /\ \A i, k \in Held(e) :
           /\ orders[i].own /\ orders[k].own
           /\ orders[i].merchant = orders[k].merchant
           => i = k

IInv ==
    /\ TypeOK
    /\ RowInv
    /\ AnswerInv
    /\ CountInv
    /\ \A t \in Task : JobInv(t)
    /\ \A e \in External \ raced : SoleInv(e)

--------------------------------------------------------------------------------
(* Types                                                                      *)

(* What requests keep is well typed.                                          *)
LEMMA JobTypes ==
    /\ Idle \in Job
    /\ \A e \in External, m \in Merchant :
          [Idle EXCEPT !.at = "check", !.external = e, !.merchant = m] \in Job
    /\ \A j \in Job : [j EXCEPT !.at = "insert"] \in Job
    /\ \A i \in Row, p \in Platform, n \in 0..MaxRetries, at \in {"counted", "takeover"} :
          [Idle EXCEPT !.row = i, !.platform = p, !.count = n, !.at = at] \in Job
<1>0. 0 \in 0..MaxRetries
  BY ThirdPartyAssumption
<1>1. Idle \in Job
  BY <1>0 DEF Idle, Job
<1>2. \A e \in External, m \in Merchant :
          [Idle EXCEPT !.at = "check", !.external = e, !.merchant = m] \in Job
  BY <1>0 DEF Idle, Job
<1>3. \A j \in Job : [j EXCEPT !.at = "insert"] \in Job
  BY DEF Job
<1>4. \A i \in Row, p \in Platform, n \in 0..MaxRetries, at \in {"counted", "takeover"} :
          [Idle EXCEPT !.row = i, !.platform = p, !.count = n, !.at = at] \in Job
  BY DEF Idle, Job
<1> QED
  BY <1>1, <1>2, <1>3, <1>4

(* Initially nothing is there.                                                *)
LEMMA InitInv == Init => IInv
<1> SUFFICES ASSUME Init
             PROVE  IInv
  OBVIOUS
<1>1. TypeOK
  <2>1. 0 \in 0..MaxRetries
    BY ThirdPartyAssumption
  <2> QED
    BY <2>1, JobTypes DEF Init, TypeOK
<1>2. RowInv /\ AnswerInv /\ CountInv
  BY DEF Init, RowInv, AnswerInv, CountInv
<1>3. \A t \in Task : JobInv(t)
  BY DEF Init, JobInv, Idle
<1>4. \A e \in External \ raced : SoleInv(e)
  BY ThirdPartyAssumption DEF Init, SoleInv, Held, Idle
<1> QED
  BY <1>1, <1>2, <1>3, <1>4 DEF IInv

--------------------------------------------------------------------------------
(* Steps                                                                      *)

(* What holds of orders, answers and requests does not depend on connections. *)
LEMMA ConnectionsKeep ==
    ASSUME IInv, connection' \in [Connection -> ConnectionRow \cup {None}],
           UNCHANGED <<orders, attempts, job, answered, raced, retried>>
    PROVE  IInv'
<1>1. TypeOK'
  BY DEF IInv, TypeOK
<1>2. RowInv' /\ AnswerInv' /\ CountInv'
  BY DEF IInv, RowInv, AnswerInv, CountInv, Held
<1>3. \A t \in Task : JobInv(t)'
  BY DEF IInv, JobInv
<1>4. \A e \in External \ raced' : SoleInv(e)'
  BY DEF IInv, SoleInv, Held, Copies
<1> QED
  BY <1>1, <1>2, <1>3, <1>4 DEF IInv

(* Owners leave well-typed connections.                                       *)
LEMMA OwnersKeep ==
    ASSUME IInv, NEW c \in Connection,
           \/ \E row \in ConnectionRow : CreateConnection(c, row)
           \/ \E ref \in Restaurant : UpdateConnection(c, ref)
           \/ DeleteConnection(c)
    PROVE  IInv'
<1>1. ASSUME NEW row \in ConnectionRow, CreateConnection(c, row)
      PROVE  IInv'
  BY <1>1, ConnectionsKeep DEF CreateConnection, IInv, TypeOK
<1>2. ASSUME NEW ref \in Restaurant, UpdateConnection(c, ref)
      PROVE  IInv'
  <2>1. connection[c] \in ConnectionRow
    BY <1>2 DEF UpdateConnection, IInv, TypeOK
  <2>2. [connection[c] EXCEPT !.ref = ref] \in ConnectionRow
    BY <2>1 DEF ConnectionRow
  <2> QED
    BY <1>2, <2>2, ConnectionsKeep DEF UpdateConnection, IInv, TypeOK
<1>3. CASE DeleteConnection(c)
  BY <1>3, ConnectionsKeep DEF DeleteConnection, IInv, TypeOK
<1> QED
  BY <1>1, <1>2, <1>3

(* A request that ends, whatever was answered of what is there.               *)
LEMMA EndKeeps ==
    ASSUME IInv, NEW t \in Task, Goto(t, Idle),
           UNCHANGED <<connection, orders, attempts, raced, retried>>,
           answered' \in [External -> SUBSET Answer],
           \A e \in External :
               answered'[e] \cap {"created", "duplicate"} # {} => Held(e) # {}
    PROVE  IInv'
<1>1. job' = [job EXCEPT ![t] = Idle] /\ job' \in [Task -> Job]
  BY JobTypes DEF Goto, IInv, TypeOK
<1>2. TypeOK'
  BY <1>1 DEF IInv, TypeOK
<1>3. RowInv' /\ AnswerInv' /\ CountInv'
  BY DEF IInv, RowInv, AnswerInv, CountInv, Held
<1>4. ASSUME NEW u \in Task
      PROVE  JobInv(u)'
  <2>1. CASE u = t
    BY <1>1, <2>1 DEF JobInv, Idle, IInv, TypeOK
  <2>2. CASE u # t
    BY <1>1, <2>2 DEF JobInv, IInv, TypeOK
  <2> QED
    BY <2>1, <2>2
<1>5. ASSUME NEW e \in External \ raced
      PROVE  SoleInv(e)'
  <2>1. \A u \in Task : job'[u].external = e => u # t /\ job'[u] = job[u]
    BY <1>1, ThirdPartyAssumption DEF Idle, IInv, TypeOK
  <2> QED
    BY <2>1 DEF IInv, SoleInv, Held, Copies
<1> QED
  BY <1>2, <1>3, <1>4, <1>5 DEF IInv

(* A request that fails.                                                      *)
LEMMA RollBackKeeps ==
    ASSUME IInv, NEW t \in Task, RollBack(t)
    PROVE  IInv'
BY EndKeeps DEF RollBack, IInv, TypeOK, AnswerInv

(* A copy that was found is held.                                             *)
LEMMA FoundDuplicateKeeps ==
    ASSUME IInv, NEW t \in Task, FoundDuplicate(t)
    PROVE  IInv'
<1> DEFINE e == job[t].external
<1>1. e \in External
  BY DEF FoundDuplicate, IInv, JobInv
<1>2. Copies(e, job[t].merchant) # {}
  BY FS_EmptySet DEF FoundDuplicate
<1>3. Held(e) # {}
  BY <1>2 DEF Copies, Held
<1>4. answered' = [answered EXCEPT ![e] = @ \cup {"duplicate"}]
  BY DEF FoundDuplicate
<1>5. answered' \in [External -> SUBSET Answer]
  BY <1>1, <1>4 DEF IInv, TypeOK, Answer
<1>6. \A x \in External : answered'[x] \cap {"created", "duplicate"} # {} => Held(x) # {}
  BY <1>1, <1>3, <1>4 DEF IInv, TypeOK, AnswerInv
<1> QED
  BY <1>5, <1>6, EndKeeps DEF FoundDuplicate

(* An order that cannot be read leaves nothing but an error.                  *)
LEMMA WebhookRefusedKeeps ==
    ASSUME IInv, NEW t \in Task, NEW e \in External, Webhook(t, e), e \in Malformed
    PROVE  IInv'
<1>1. /\ answered' = [answered EXCEPT ![e] = @ \cup {"error"}]
      /\ UNCHANGED <<connection, orders, attempts, job, raced, retried>>
  BY DEF Webhook
<1>2. TypeOK'
  BY <1>1 DEF IInv, TypeOK, Answer
<1>3. AnswerInv'
  BY <1>1 DEF IInv, TypeOK, AnswerInv, Held
<1>4. RowInv' /\ CountInv'
  BY <1>1 DEF IInv, RowInv, CountInv
<1>5. \A u \in Task : JobInv(u)'
  BY <1>1 DEF IInv, JobInv
<1>6. \A x \in External \ raced' : SoleInv(x)'
  BY <1>1 DEF IInv, SoleInv, Held, Copies
<1> QED
  BY <1>2, <1>3, <1>4, <1>5, <1>6 DEF IInv

(* An order that can is looked for next, and noted if another request already *)
(* works on it.                                                               *)
LEMMA WebhookKeeps ==
    ASSUME IInv, NEW t \in Task, NEW e \in External, Webhook(t, e), e \notin Malformed
    PROVE  IInv'
<1>1. PICK c \in Connection :
          /\ Named(e) = {c}
          /\ Goto(t, [Idle EXCEPT !.at = "check", !.external = e,
                                  !.merchant = connection[c].merchant])
          /\ raced' = IF \E u \in Task : job[u].external = e THEN raced \cup {e} ELSE raced
  BY DEF Webhook
<1>2. job[t] = Idle /\ UNCHANGED <<connection, orders, attempts, answered, retried>>
  BY DEF Webhook
<1> DEFINE m == connection[c].merchant
           new == [Idle EXCEPT !.at = "check", !.external = e, !.merchant = m]
<1>3. m \in Merchant
  <2>1. connection[c] # None
    BY <1>1 DEF Named
  <2> QED
    BY <2>1 DEF IInv, TypeOK, ConnectionRow
<1>4. new \in Job /\ new.at = "check" /\ new.external = e /\ new.merchant = m
  BY <1>3, JobTypes DEF Idle
<1> HIDE DEF m, new
<1>5. job' = [job EXCEPT ![t] = new] /\ job' \in [Task -> Job]
  BY <1>1, <1>4 DEF Goto, IInv, TypeOK, new, m
<1>6. TypeOK'
  BY <1>1, <1>2, <1>5 DEF IInv, TypeOK
<1>7. RowInv' /\ AnswerInv' /\ CountInv'
  BY <1>2 DEF IInv, RowInv, AnswerInv, CountInv, Held
<1>8. ASSUME NEW u \in Task
      PROVE  JobInv(u)'
  <2>1. CASE u = t
    <3>1. job'[u] = new
      BY <1>5, <2>1 DEF IInv, TypeOK
    <3> QED
      BY <1>3, <1>4, <3>1 DEF JobInv
  <2>2. CASE u # t
    BY <1>2, <1>5, <2>2 DEF JobInv, IInv, TypeOK
  <2> QED
    BY <2>1, <2>2
<1>9. ASSUME NEW x \in External \ raced'
      PROVE  SoleInv(x)'
  <2>1. x \notin raced /\ SoleInv(x)
    BY <1>1, <1>9 DEF IInv
  <2>2. x = e => \A u \in Task : job[u].external # e
    BY <1>1, <1>9
  <2>3. \A u \in Task : job'[u] = IF u = t THEN new ELSE job[u]
    BY <1>5 DEF IInv, TypeOK
  <2> QED
    BY <1>2, <1>4, <2>1, <2>2, <2>3 DEF SoleInv, Held, Copies
<1> QED
  BY <1>6, <1>7, <1>8, <1>9 DEF IInv

(* What is not there now is not there when only this request works on it.     *)
LEMMA FoundNoneKeeps ==
    ASSUME IInv, NEW t \in Task, FoundNone(t)
    PROVE  IInv'
<1> DEFINE new == [job[t] EXCEPT !.at = "insert"]
<1>1. /\ job[t].at = "check"
      /\ Copies(job[t].external, job[t].merchant) = {}
      /\ UNCHANGED <<connection, orders, attempts, answered, raced, retried>>
  BY DEF FoundNone
<1>2. /\ new \in Job /\ new.at = "insert"
      /\ new.external = job[t].external /\ new.merchant = job[t].merchant
  <2>1. job[t] \in Job
    BY DEF IInv, TypeOK
  <2> QED
    BY <2>1, JobTypes DEF Job
<1> HIDE DEF new
<1>3. job' = [job EXCEPT ![t] = new] /\ job' \in [Task -> Job]
  BY <1>2 DEF FoundNone, Goto, IInv, TypeOK, new
<1>4. \A u \in Task : job'[u] = IF u = t THEN new ELSE job[u]
  BY <1>3 DEF IInv, TypeOK
<1>5. TypeOK'
  BY <1>1, <1>3 DEF IInv, TypeOK
<1>6. RowInv' /\ AnswerInv' /\ CountInv'
  BY <1>1 DEF IInv, RowInv, AnswerInv, CountInv, Held
<1>7. \A u \in Task : JobInv(u)'
  BY <1>1, <1>2, <1>4 DEF JobInv, IInv
<1>8. \A x \in External \ raced' : SoleInv(x)'
  BY <1>1, <1>2, <1>4 DEF SoleInv, Held, Copies, IInv
<1> QED
  BY <1>5, <1>6, <1>7, <1>8 DEF IInv

(* The row that is inserted is new, and the only one of its order there if no *)
(* other request worked on that.                                              *)
LEMMA InsertKeeps ==
    ASSUME IInv, NEW t \in Task, NEW i \in Row, Insert(t, i)
    PROVE  IInv'
<1> DEFINE e == job[t].external
           m == job[t].merchant
           row == [merchant |-> m, platform |-> PlatformOf[e], own |-> TRUE, external |-> e,
                   status |-> IF e \in Paid THEN "CONFIRMED" ELSE "PENDING"]
<1>1. e \in External \ Malformed /\ m \in Merchant /\ job[t].at = "insert"
  BY DEF Insert, IInv, JobInv
<1>2. row \in OrderRow
  BY <1>1, ThirdPartyAssumption DEF OrderRow
<1>3. /\ row # None /\ row.external = e /\ row.merchant = m
      /\ row.own = TRUE /\ row.platform = PlatformOf[e]
  BY <1>2, ThirdPartyAssumption
<1>4. orders[i] = None
  BY DEF Insert, NextRow, Row
<1>5. /\ orders' = [orders EXCEPT ![i] = row]
      /\ answered' = [answered EXCEPT ![e] = @ \cup {"created"}]
      /\ Goto(t, Idle)
      /\ UNCHANGED <<connection, attempts, raced, retried>>
  BY DEF Insert
<1> HIDE DEF e, m, row
<1>6. \A k \in Row : orders'[k] = IF k = i THEN row ELSE orders[k]
  BY <1>5 DEF IInv, TypeOK
<1>7. \A u \in Task : job'[u] = IF u = t THEN Idle ELSE job[u]
  BY <1>5 DEF Goto, IInv, TypeOK
<1>8. \A x \in External : Held(x)' = IF x = e THEN Held(x) \cup {i} ELSE Held(x)
  BY <1>3, <1>4, <1>6 DEF Held
<1>9. TypeOK'
  <2>1. orders' \in [Row -> OrderRow \cup {None}]
    BY <1>2, <1>5 DEF IInv, TypeOK
  <2>2. answered' \in [External -> SUBSET Answer]
    BY <1>1, <1>5 DEF IInv, TypeOK, Answer
  <2>3. job' \in [Task -> Job]
    BY <1>5, JobTypes DEF Goto, IInv, TypeOK
  <2> QED
    BY <1>5, <2>1, <2>2, <2>3 DEF IInv, TypeOK
<1>10. RowInv'
  BY <1>1, <1>3, <1>5, <1>6 DEF IInv, RowInv
<1>11. AnswerInv'
  BY <1>5, <1>8 DEF IInv, TypeOK, AnswerInv
<1>12. CountInv'
  BY <1>5 DEF IInv, CountInv
<1>13. ASSUME NEW u \in Task
       PROVE  JobInv(u)'
  <2>1. CASE u = t
    BY <1>7, <2>1 DEF JobInv, Idle
  <2>2. CASE u # t
    BY <1>3, <1>5, <1>6, <1>7, <2>2 DEF JobInv, IInv
  <2> QED
    BY <2>1, <2>2
<1>14. ASSUME NEW x \in External \ raced'
       PROVE  SoleInv(x)'
  <2>1. x \in External \ raced /\ SoleInv(x)
    BY <1>5 DEF IInv
  <2>2. \A u \in Task : job'[u].external = x => u # t /\ job'[u] = job[u]
    BY <1>7, ThirdPartyAssumption DEF Idle
  <2>3. CASE x = e
    <3>1. \A u \in Task : job'[u].external # x
      BY <2>1, <2>2, <2>3 DEF SoleInv, e
    <3>2. Copies(e, m) = {}
      BY <1>1, <2>1, <2>3 DEF SoleInv, e, m
    <3>3. \A k \in Held(x) : ~ (orders[k].own /\ orders[k].merchant = m)
      BY <2>3, <3>2 DEF Copies, Held, IInv, RowInv
    <3>4. \A k, l \in Held(x)' :
              /\ orders'[k].own /\ orders'[l].own
              /\ orders'[k].merchant = orders'[l].merchant
              => k = l
      BY <1>3, <1>4, <1>6, <1>8, <2>1, <2>3, <3>3 DEF SoleInv, Held
    <3> QED
      BY <3>1, <3>4 DEF SoleInv
  <2>4. CASE x # e
    <3>1. \A u \in Task : Copies(x, job[u].merchant)' = Copies(x, job'[u].merchant)
      BY <1>3, <1>4, <1>6, <2>4 DEF Copies
    <3> QED
      BY <1>4, <1>6, <1>8, <2>1, <2>2, <2>4, <3>1 DEF SoleInv, Held
  <2> QED
    BY <2>3, <2>4
<1> QED
  BY <1>9, <1>10, <1>11, <1>12, <1>13, <1>14 DEF IInv

(* What a fallback has read is at most what was answered.                     *)
LEMMA TriggerFallbackKeeps ==
    ASSUME IInv, NEW t \in Task, NEW i \in Row, NEW p \in Platform, TriggerFallback(t, i, p)
    PROVE  IInv'
<1> DEFINE at == IF attempts[i] < MaxRetries THEN "counted" ELSE "takeover"
           new == [Idle EXCEPT !.row = i, !.platform = p, !.count = attempts[i], !.at = at]
<1>1. /\ orders[i] # None
      /\ UNCHANGED <<connection, orders, attempts, answered, raced, retried>>
      /\ Goto(t, new)
  BY DEF TriggerFallback
<1>2. attempts[i] \in 0..MaxRetries /\ retried[i] \in 0..MaxRetries /\ attempts[i] <= retried[i]
  BY DEF IInv, TypeOK, CountInv
<1>3. new \in Job
  BY <1>2, JobTypes
<1>4. /\ new.row = i /\ new.platform = p /\ new.count = attempts[i] /\ new.at = at
      /\ new.external = None
  BY DEF Idle
<1>5. /\ at \in {"counted", "takeover"}
      /\ at = "counted" => attempts[i] < MaxRetries
      /\ at = "takeover" => retried[i] = MaxRetries
  BY <1>2, ThirdPartyAssumption
<1> HIDE DEF new, at
<1>6. job' = [job EXCEPT ![t] = new] /\ job' \in [Task -> Job]
  BY <1>1, <1>3 DEF Goto, IInv, TypeOK
<1>7. \A u \in Task : job'[u] = IF u = t THEN new ELSE job[u]
  BY <1>6 DEF IInv, TypeOK
<1>8. TypeOK'
  BY <1>1, <1>6 DEF IInv, TypeOK
<1>9. RowInv' /\ AnswerInv' /\ CountInv'
  BY <1>1 DEF IInv, RowInv, AnswerInv, CountInv, Held
<1>10. ASSUME NEW u \in Task
       PROVE  JobInv(u)'
  <2>1. CASE u = t
    BY <1>1, <1>2, <1>4, <1>5, <1>7, <2>1 DEF JobInv
  <2>2. CASE u # t
    BY <1>1, <1>7, <2>2 DEF JobInv, IInv
  <2> QED
    BY <2>1, <2>2
<1>11. \A x \in External \ raced' : SoleInv(x)'
  BY <1>1, <1>4, <1>7, ThirdPartyAssumption DEF SoleInv, Held, Copies, IInv
<1> QED
  BY <1>8, <1>9, <1>10, <1>11 DEF IInv

(* A retry is counted once at most, and answered.                             *)
LEMMA RetryKeeps ==
    ASSUME IInv, NEW t \in Task, Retry(t)
    PROVE  IInv'
<1> DEFINE i == job[t].row
<1>1. /\ job[t].at = "counted"
      /\ attempts' = [attempts EXCEPT ![i] = job[t].count + 1]
      /\ retried' = [retried EXCEPT ![i] = IF @ < MaxRetries THEN @ + 1 ELSE @]
      /\ Goto(t, Idle)
      /\ UNCHANGED <<connection, orders, answered, raced>>
  BY DEF Retry
<1>2. i \in Row /\ job[t].count < MaxRetries /\ job[t].count <= retried[i]
  BY <1>1 DEF IInv, JobInv
<1>3. job[t].count \in 0..MaxRetries /\ retried[i] \in 0..MaxRetries /\ MaxRetries \in Nat
  BY <1>2, ThirdPartyAssumption DEF IInv, TypeOK, Job
<1> HIDE DEF i
<1>4. \A k \in Row : attempts'[k] = IF k = i THEN job[t].count + 1 ELSE attempts[k]
  BY <1>1 DEF IInv, TypeOK
<1>5. \A k \in Row :
          retried'[k] = IF k = i /\ retried[i] < MaxRetries THEN retried[i] + 1 ELSE retried[k]
  BY <1>1 DEF IInv, TypeOK
<1>6. \A u \in Task : job'[u] = IF u = t THEN Idle ELSE job[u]
  BY <1>1 DEF Goto, IInv, TypeOK
<1>7. \A k \in Row : /\ retried[k] <= retried'[k]
                     /\ retried[k] = MaxRetries => retried'[k] = MaxRetries
                     /\ retried[k] \in Nat /\ retried'[k] \in 0..MaxRetries
  BY <1>3, <1>5 DEF IInv, TypeOK
<1>8. TypeOK'
  <2>1. attempts' \in [Row -> 0..MaxRetries]
    BY <1>1, <1>2, <1>3 DEF IInv, TypeOK
  <2>2. retried' \in [Row -> 0..MaxRetries]
    BY <1>1, <1>2, <1>3 DEF IInv, TypeOK
  <2>3. job' \in [Task -> Job]
    BY <1>1, JobTypes DEF Goto, IInv, TypeOK
  <2> QED
    BY <1>1, <2>1, <2>2, <2>3 DEF IInv, TypeOK
<1>9. RowInv' /\ AnswerInv'
  BY <1>1, <1>7 DEF IInv, RowInv, AnswerInv, Held
<1>10. CountInv'
  <2> SUFFICES ASSUME NEW k \in Row
               PROVE  attempts'[k] <= retried'[k]
    BY DEF CountInv
  <2>1. CASE k = i
    BY <1>2, <1>3, <1>4, <1>5, <2>1
  <2>2. CASE k # i
    BY <1>4, <1>5, <2>2 DEF IInv, CountInv
  <2> QED
    BY <2>1, <2>2
<1>11. ASSUME NEW u \in Task
       PROVE  JobInv(u)'
  <2>1. CASE u = t
    BY <1>6, <2>1 DEF JobInv, Idle
  <2>2. CASE u # t
    <3>1. job'[u] = job[u] /\ JobInv(u) /\ job[u].count \in Nat
      BY <1>6, <2>2, <1>3 DEF IInv, TypeOK, Job
    <3>2. job[u].row \in Row => /\ retried[job[u].row] <= retried'[job[u].row]
                                /\ retried[job[u].row] \in Nat /\ retried'[job[u].row] \in Nat
      BY <1>7, <1>3
    <3> QED
      BY <1>1, <1>7, <3>1, <3>2 DEF JobInv
  <2> QED
    BY <2>1, <2>2
<1>12. \A x \in External \ raced' : SoleInv(x)'
  BY <1>1, <1>6, ThirdPartyAssumption DEF SoleInv, Held, Copies, IInv, Idle
<1> QED
  BY <1>8, <1>9, <1>10, <1>11, <1>12 DEF IInv

(* An order is taken over after its retries, and stays what was taken once.   *)
LEMMA TakeOverKeeps ==
    ASSUME IInv, NEW t \in Task, TakeOver(t)
    PROVE  IInv'
<1> DEFINE i == job[t].row
           row == [[orders[i] EXCEPT !.own = FALSE] EXCEPT !.platform = job[t].platform]
<1>1. /\ job[t].at = "takeover"
      /\ Goto(t, Idle)
      /\ UNCHANGED <<connection, attempts, answered, raced, retried>>
  BY DEF TakeOver
<1>2. i \in Row /\ orders[i] # None /\ job[t].platform \in Platform /\ retried[i] = MaxRetries
  BY <1>1 DEF IInv, JobInv
<1>3. orders[i] \in OrderRow
  BY <1>2 DEF IInv, TypeOK
<1>4. /\ row \in OrderRow /\ row.own = FALSE
      /\ row.external = orders[i].external /\ row.merchant = orders[i].merchant
  BY <1>2, <1>3 DEF OrderRow
<1>5. row # None
  BY <1>4, ThirdPartyAssumption
<1>6. orders' = [orders EXCEPT ![i] = row]
  BY <1>2, <1>3 DEF TakeOver, IInv, TypeOK, OrderRow
<1> HIDE DEF i, row
<1>7. \A k \in Row : orders'[k] = IF k = i THEN row ELSE orders[k]
  BY <1>6 DEF IInv, TypeOK
<1>8. \A u \in Task : job'[u] = IF u = t THEN Idle ELSE job[u]
  BY <1>1 DEF Goto, IInv, TypeOK
<1>9. \A x \in External : Held(x)' = Held(x)
  BY <1>2, <1>4, <1>5, <1>7 DEF Held
<1>10. TypeOK'
  BY <1>1, <1>4, <1>6, JobTypes DEF Goto, IInv, TypeOK
<1>11. RowInv'
  BY <1>1, <1>2, <1>4, <1>7 DEF IInv, RowInv
<1>12. AnswerInv' /\ CountInv'
  BY <1>1, <1>9 DEF IInv, AnswerInv, CountInv
<1>13. ASSUME NEW u \in Task
       PROVE  JobInv(u)'
  <2>1. CASE u = t
    BY <1>8, <2>1 DEF JobInv, Idle
  <2>2. CASE u # t
    BY <1>1, <1>5, <1>7, <1>8, <2>2 DEF JobInv, IInv
  <2> QED
    BY <2>1, <2>2
<1>14. ASSUME NEW x \in External \ raced'
       PROVE  SoleInv(x)'
  <2>1. SoleInv(x)
    BY <1>1 DEF IInv
  <2>2. \A u \in Task : job'[u].external = x => u # t /\ job'[u] = job[u]
    BY <1>8, ThirdPartyAssumption DEF Idle
  <2>3. \A k \in Held(x) : orders'[k].own => orders'[k] = orders[k]
    BY <1>4, <1>7 DEF Held
  <2>4. \A k, l \in Held(x)' : /\ orders'[k].own /\ orders'[l].own
                               /\ orders'[k].merchant = orders'[l].merchant
                               => k = l
    BY <1>9, <2>1, <2>3 DEF SoleInv
  <2>5. \A u \in Task : job'[u].external = x /\ job'[u].at = "insert"
                          => Copies(x, job[u].merchant)' = {}
    <3> SUFFICES ASSUME NEW u \in Task, job'[u].external = x, job'[u].at = "insert"
                 PROVE  Copies(x, job[u].merchant)' = {}
      OBVIOUS
    <3>1. Copies(x, job[u].merchant) = {}
      BY <2>1, <2>2 DEF SoleInv
    <3>2. job'[u].merchant = job[u].merchant
      BY <2>2
    <3> QED
      BY <1>4, <1>5, <1>7, <3>1, <3>2 DEF Copies
  <2> QED
    BY <2>1, <2>2, <2>4, <2>5 DEF SoleInv
<1> QED
  BY <1>10, <1>11, <1>12, <1>13, <1>14 DEF IInv

(* What is forgotten was answered all the same.                               *)
LEMMA ForgetKeeps ==
    ASSUME IInv, NEW i \in Row, Forget(i)
    PROVE  IInv'
<1>1. /\ attempts' = [attempts EXCEPT ![i] = 0]
      /\ UNCHANGED <<connection, orders, job, answered, raced, retried>>
  BY DEF Forget
<1>2. 0 \in 0..MaxRetries
  BY ThirdPartyAssumption
<1>3. TypeOK'
  BY <1>1, <1>2 DEF IInv, TypeOK
<1>4. RowInv' /\ AnswerInv'
  BY <1>1 DEF IInv, RowInv, AnswerInv, Held
<1>5. CountInv'
  BY <1>1 DEF IInv, TypeOK, CountInv
<1>6. \A u \in Task : JobInv(u)'
  BY <1>1 DEF IInv, JobInv
<1>7. \A x \in External \ raced' : SoleInv(x)'
  BY <1>1 DEF IInv, SoleInv, Held, Copies
<1> QED
  BY <1>3, <1>4, <1>5, <1>6, <1>7 DEF IInv

--------------------------------------------------------------------------------
(* Theorems                                                                   *)

(* Every step keeps the invariant.                                            *)
LEMMA NextInv == IInv /\ [Next]_vars => IInv'
<1> SUFFICES ASSUME IInv, [Next]_vars
             PROVE  IInv'
  OBVIOUS
<1>1. ASSUME NEW c \in Connection,
             \/ \E row \in ConnectionRow : CreateConnection(c, row)
             \/ \E ref \in Restaurant : UpdateConnection(c, ref)
             \/ DeleteConnection(c)
      PROVE  IInv'
  BY <1>1, OwnersKeep
<1>2. ASSUME NEW t \in Task, NEW e \in External, Webhook(t, e)
      PROVE  IInv'
  BY <1>2, WebhookRefusedKeeps, WebhookKeeps
<1>3. ASSUME NEW t \in Task, FoundDuplicate(t) \/ FoundNone(t) \/ Retry(t) \/ TakeOver(t)
      PROVE  IInv'
  BY <1>3, FoundDuplicateKeeps, FoundNoneKeeps, RetryKeeps, TakeOverKeeps
<1>4. ASSUME NEW t \in Task, NEW i \in Row, Insert(t, i)
      PROVE  IInv'
  BY <1>4, InsertKeeps
<1>5. ASSUME NEW t \in Task, NEW i \in Row, NEW p \in Platform, TriggerFallback(t, i, p)
      PROVE  IInv'
  BY <1>5, TriggerFallbackKeeps
<1>6. ASSUME NEW t \in Task, RollBack(t)
      PROVE  IInv'
  BY <1>6, RollBackKeeps
<1>7. ASSUME NEW i \in Row, Forget(i)
      PROVE  IInv'
  BY <1>7, ForgetKeeps
<1>8. CASE UNCHANGED vars
  BY <1>8, ConnectionsKeep DEF vars, IInv, TypeOK
<1> QED
  BY <1>1, <1>2, <1>3, <1>4, <1>5, <1>6, <1>7, <1>8 DEF Next

(* What requests rely on holds in every reachable state.                      *)
THEOREM Invariance == Spec => []IInv
BY InitInv, NextInv, PTL DEF Spec

(* Every reachable state is type correct.                                     *)
THEOREM TypeCorrect == Spec => []TypeOK
<1>1. IInv => TypeOK
  BY DEF IInv
<1> QED
  BY <1>1, Invariance, PTL

(* An order a platform believes to be taken is in the database, and one that  *)
(* cannot be read never is.                                                   *)
THEOREM AnswersTrue == Spec => []AnswersAreTrue
<1>1. IInv => AnswersAreTrue
  BY DEF IInv, AnswersAreTrue, AnswerInv, RowInv, Held
<1> QED
  BY <1>1, Invariance, PTL

(* A merchant has an order once that no two deliveries of it overlapped on.   *)
THEOREM OrdersTakenOnce == Spec => []TakenOnce
<1>1. IInv => TakenOnce
  <2> SUFFICES ASSUME IInv, NEW e \in External \ raced, NEW m \in Merchant
               PROVE  Cardinality({i \in Held(e) : orders[i].merchant = m /\ orders[i].own}) <= 1
    BY DEF TakenOnce
  <2> DEFINE S == {i \in Held(e) : orders[i].merchant = m /\ orders[i].own}
  <2>1. \A i, k \in S : i = k
    BY DEF IInv, SoleInv
  <2>2. S = {} \/ \E i \in S : S = {i}
    BY <2>1
  <2>3. Cardinality(S) \in {0, 1}
    BY <2>2, FS_EmptySet, FS_Singleton
  <2> QED
    BY <2>3
<1> QED
  BY <1>1, Invariance, PTL

(* The fallback takes no order over before all its retries were answered.     *)
THEOREM RetriesFirst == Spec => []RetriedFirst
<1>1. IInv => RetriedFirst
  BY DEF IInv, RetriedFirst, RowInv
<1> QED
  BY <1>1, Invariance, PTL
================================================================================
