------------------------ MODULE KitchenDisplaysProofs --------------------------
(******************************************************************************)
(* Proofs about KitchenDisplays and SocketRooms for any number of orders,     *)
(* screens, sockets, requests and rooms.                                      *)
(*                                                                            *)
(* The invariant has three parts that meet only in where a client is: rows    *)
(* and the sessions that hold them (DataInv), connections and rooms           *)
(* (ManagerInv), and what displays were told (ToldInv).  A session may act    *)
(* for hours on a status it once read; DataInv says that it was a true one,   *)
(* and passed and Given only grow until the session ends.                     *)
(******************************************************************************)
EXTENDS KitchenDisplays, SequenceTheorems, TLAPS

DataTypeOK ==
    /\ status \in [Order -> OrderStatusEnum \cup {"absent"}]
    /\ passed \in [Order -> SUBSET OrderStatusEnum]
    /\ lock \in [Order -> Client \cup {None}]
    /\ pc \in [Client -> Points]
    /\ job \in [Client -> Job]
    /\ path \in [Client -> [Order -> Seq(OrderStatusEnum)]]

HistoryInv ==
    \A o \in Order : IF Exists(o) THEN status[o] \in passed[o] ELSE passed[o] = {}

(* What a client knows of the order it works on.                              *)
Seen(c, o) == passed[o] \cup Given(c, o)

JobInv(c) ==
    /\ pc[c] \in {"update", "announce", "finish"} =>
        /\ job[c].order \in Order
        /\ job[c].new \in OrderStatusEnum
        /\ job[c].read \in Seen(c, job[c].order)
    /\ pc[c] \in {"announce", "finish"} => job[c].new \in Seen(c, job[c].order)
    /\ pc[c] = "finish" => job[c].order \in Numbered
    /\ c \in Screen /\ pc[c] = "update" => CanTransition(job[c].read, job[c].new)

(* Whom phase 9 commits for: requests, one order each.                        *)
RequestInv(c) ==
    \A o \in Order : path[c][o] # <<>> =>
        pc[c] \in {"announce", "finish"} /\ job[c].order = o

(* What a screen has in its session was reached stage by stage.               *)
StagedInOrder(c) ==
    \A o \in Order \ Numbered : \A s \in Given(c, o) \ {"PENDING"} :
        \E p \in Seen(c, o) : CanTransition(p, s)

DataInv ==
    /\ DataTypeOK
    /\ HistoryInv
    /\ \A c \in Client : JobInv(c)
    /\ \A c \in Request : RequestInv(c)
    /\ \A c \in Screen : StagedInOrder(c)
    /\ StagesInOrder

ManagerInv == ManagerTypeOK /\ RoomsMatchSockets

ToldInv ==
    /\ live \in SUBSET Screen
    /\ told \in SUBSET [display : Screen \cup Socket, order : Order, status : KdsOrderStatus]
    /\ ScreensTellTruth

IInv == DataInv /\ ManagerInv /\ ToldInv

--------------------------------------------------------------------------------
(* Words and sequences                                                        *)

(* What the kitchen asks for and is shown are words of its own.               *)
LEMMA Words ==
    /\ \A s : KdsStatus(s) \in KdsOrderStatus
    /\ \A k, s : s \in OrderStatusEnum => Requested(k, s) \in OrderStatusEnum
    /\ "absent" \notin OrderStatusEnum
    /\ {"PENDING", "PREPARING", "READY", "SERVED"} \subseteq OrderStatusEnum
<1>1. \A s : KdsStatus(s) \in KdsOrderStatus
  BY DEF KdsStatus, KdsOrderStatus
<1>2. \A k, s : s \in OrderStatusEnum => Requested(k, s) \in OrderStatusEnum
  BY DEF Requested, OrderStatusEnum
<1>3. /\ "absent" \notin OrderStatusEnum
      /\ {"PENDING", "PREPARING", "READY", "SERVED"} \subseteq OrderStatusEnum
  BY DEF OrderStatusEnum
<1> QED
  BY <1>1, <1>2, <1>3

Elements(list) == {list[i] : i \in DOMAIN list}

(* What is appended joins what is there.                                      *)
LEMMA AppendedRange ==
    ASSUME NEW S, NEW list \in Seq(S), NEW x \in S
    PROVE  /\ Append(list, x) \in Seq(S)
           /\ Append(list, x) # <<>>
           /\ Elements(Append(list, x)) = Elements(list) \cup {x}
<1>1. /\ Append(list, x) \in Seq(S)
      /\ Len(Append(list, x)) = Len(list) + 1
      /\ \A i \in 1..Len(list) : Append(list, x)[i] = list[i]
      /\ Append(list, x)[Len(list) + 1] = x
  OBVIOUS
<1>2. /\ DOMAIN list = 1..Len(list)
      /\ DOMAIN Append(list, x) = 1..(Len(list) + 1)
      /\ Len(list) \in Nat
  BY <1>1
<1>3. 1..(Len(list) + 1) = 1..Len(list) \cup {Len(list) + 1}
  BY <1>2
<1> QED
  BY <1>1, <1>2, <1>3 DEF Elements

(* What a session selects of an order that is placed it has seen.             *)
LEMMA SelectedIsSeen ==
    ASSUME DataInv, NEW c \in Client, NEW o \in Order
    PROVE  /\ Selected(c, o) \in OrderStatusEnum \cup {"absent"}
           /\ Exists(o) \/ path[c][o] # <<>> =>
                  Selected(c, o) \in Seen(c, o) /\ Selected(c, o) \in OrderStatusEnum
           /\ Selected(c, o) = "absent" => ~ Exists(o) /\ path[c][o] = <<>>
           /\ Given(c, o) \subseteq OrderStatusEnum
<1>1. path[c][o] \in Seq(OrderStatusEnum) /\ status[o] \in OrderStatusEnum \cup {"absent"}
  BY DEF DataInv, DataTypeOK
<1>2. Given(c, o) \subseteq OrderStatusEnum
  BY <1>1 DEF Given
<1>3. CASE path[c][o] = <<>>
  BY <1>1, <1>2, <1>3 DEF DataInv, HistoryInv, Exists, Selected, Seen
<1>4. CASE path[c][o] # <<>>
  <2>1. Len(path[c][o]) \in DOMAIN path[c][o]
    BY <1>1, <1>4
  <2>2. Selected(c, o) \in Given(c, o)
    BY <1>4, <2>1 DEF Selected, Given
  <2> QED
    BY <1>2, <1>4, <2>2, Words DEF Seen
<1> QED
  BY <1>3, <1>4

(* Nothing was there at first.                                                *)
LEMMA InitInv == Init => IInv
<1> SUFFICES ASSUME Init
             PROVE  IInv
  OBVIOUS
<1>1. NoJob \in Job
  BY DEF NoJob, Job
<1>2. DataTypeOK
  BY <1>1 DEF Init, DataTypeOK, Points
<1>3. HistoryInv
  BY DEF Init, HistoryInv, Exists
<1>5. ASSUME NEW c \in Client
      PROVE  JobInv(c) /\ RequestInv(c) /\ \A o \in Order : Given(c, o) = {}
  BY DEF Init, JobInv, RequestInv, Given
<1>6. StagesInOrder /\ \A c \in Screen : StagedInOrder(c)
  BY <1>5 DEF Init, StagesInOrder, StagedInOrder, Client
<1>7. ManagerInv
  BY DEF Init, ManagerInit, ManagerInv, ManagerTypeOK, RoomsMatchSockets, Client
<1>8. ToldInv
  BY DEF Init, ToldInv, ScreensTellTruth
<1> QED
  BY <1>2, <1>3, <1>5, <1>6, <1>7, <1>8 DEF IInv, DataInv, Client

--------------------------------------------------------------------------------
(* Rows and sessions                                                          *)

(* The system around the displays only adds to the history of an order.       *)
LEMMA DatabaseKeeps ==
    ASSUME DataInv, UNCHANGED session,
           status' \in [Order -> OrderStatusEnum \cup {"absent"}],
           passed' \in [Order -> SUBSET OrderStatusEnum],
           \A o \in Order : passed[o] \subseteq passed'[o],
           HistoryInv', StagesInOrder'
    PROVE  DataInv'
<1>1. DataTypeOK'
  BY DEF DataInv, DataTypeOK, session
<1>2. \A c \in Client, o \in Order :
          Given(c, o)' = Given(c, o) /\ Seen(c, o) \subseteq Seen(c, o)'
  BY DEF Given, Seen, session
<1>3. \A c \in Client : JobInv(c)'
  BY <1>2 DEF DataInv, JobInv, session
<1>4. \A c \in Request : RequestInv(c)'
  BY DEF DataInv, RequestInv, session
<1>5. \A c \in Screen : StagedInOrder(c)'
  BY <1>2 DEF DataInv, StagedInOrder, Client
<1> QED
  BY <1>1, <1>3, <1>4, <1>5 DEF DataInv

(* Placing an order and moving it are such steps.                             *)
LEMMA OrdersKeep == DataInv /\ Orders => DataInv'
<1>1. ASSUME DataInv, NEW o \in Order, PlaceOrder(o)
      PROVE  DataInv'
  <2>1. /\ ~ Exists(o) /\ passed[o] = {}
        /\ status' = [status EXCEPT ![o] = "PENDING"]
        /\ passed' = [passed EXCEPT ![o] = {"PENDING"}]
        /\ UNCHANGED session
    BY <1>1 DEF PlaceOrder, DataInv, HistoryInv
  <2>2. /\ status' \in [Order -> OrderStatusEnum \cup {"absent"}]
        /\ passed' \in [Order -> SUBSET OrderStatusEnum]
    BY <1>1, <2>1, Words DEF DataInv, DataTypeOK
  <2>3. /\ \A p \in Order : passed[p] \subseteq passed'[p]
        /\ HistoryInv' /\ StagesInOrder'
    BY <1>1, <2>1 DEF DataInv, DataTypeOK, HistoryInv, Exists, StagesInOrder
  <2> QED
    BY <1>1, <2>1, <2>2, <2>3, DatabaseKeeps
<1>2. ASSUME DataInv, NEW o \in Order, NEW s \in OtherStatuses, OthersMove(o, s)
      PROVE  DataInv'
  <2>1. /\ Exists(o)
        /\ s \in WrittenOver \/ \E past \in passed[o] : CanTransition(past, s)
        /\ status' = [status EXCEPT ![o] = s]
        /\ passed' = [passed EXCEPT ![o] = @ \cup {s}]
        /\ UNCHANGED session
    BY <1>2 DEF OthersMove
  <2>2. s \in OrderStatusEnum /\ s # "absent"
    BY KitchenAssumption, Words
  <2>3. /\ status' \in [Order -> OrderStatusEnum \cup {"absent"}]
        /\ passed' \in [Order -> SUBSET OrderStatusEnum]
        /\ \A p \in Order : passed[p] \subseteq passed'[p]
    BY <1>2, <2>1, <2>2 DEF DataInv, DataTypeOK
  <2>4. HistoryInv'
    BY <1>2, <2>1, <2>2 DEF DataInv, DataTypeOK, HistoryInv, Exists
  <2>5. StagesInOrder'
    BY <1>2, <2>1 DEF DataInv, DataTypeOK, StagesInOrder
  <2> QED
    BY <1>2, <2>1, <2>3, <2>4, <2>5, DatabaseKeeps
<1> QED
  BY <1>1, <1>2 DEF Orders

(* A client that only moves on, with its job or without one.                  *)
LEMMA PointKeeps ==
    ASSUME DataInv, NEW c \in Client, NEW point \in Points,
           UNCHANGED <<database, lock, path>>,
           Goto(c, point),
           job' = job \/ (job' = [job EXCEPT ![c] = NoJob] /\ point = "open"),
           point \notin {"closed", "update", "announce"},
           pc[c] \in {"closed", "setup"} \/ point \in {"open", "finish"},
           point = "finish" => pc[c] = "announce" /\ job[c].order \in Numbered,
           c \in Request => point = "finish"
    PROVE  DataInv'
<1>1. \A d \in Client : pc'[d] = IF d = c THEN point ELSE pc[d]
  BY DEF Goto, DataInv, DataTypeOK
<1>2. \A d \in Client \ {c} : job'[d] = job[d]
  BY DEF DataInv, DataTypeOK
<1>3. /\ \A d \in Client, o \in Order : Given(d, o)' = Given(d, o) /\ Seen(d, o)' = Seen(d, o)
      /\ HistoryInv' /\ StagesInOrder'
  BY DEF Given, Seen, DataInv, HistoryInv, Exists, StagesInOrder, database
<1>4. DataTypeOK'
  <2>1. NoJob \in Job
    BY DEF NoJob, Job
  <2> QED
    BY <2>1 DEF DataInv, DataTypeOK, Goto, database
<1>6. \A d \in Client : JobInv(d)'
  <2>1. JobInv(c)'
    BY <1>1, <1>3 DEF DataInv, JobInv
  <2>2. \A d \in Client \ {c} : JobInv(d)'
    BY <1>1, <1>2, <1>3 DEF DataInv, JobInv
  <2> QED
    BY <2>1, <2>2
<1>7. \A d \in Request : RequestInv(d)'
  BY <1>1, <1>2 DEF DataInv, RequestInv, Client
<1>8. \A d \in Screen : StagedInOrder(d)'
  BY <1>3 DEF DataInv, StagedInOrder, Client
<1> QED
  BY <1>3, <1>4, <1>6, <1>7, <1>8 DEF DataInv

(* An update is decided on what was selected.                                 *)
LEMMA BeginKeeps ==
    ASSUME DataInv, NEW c \in Client, NEW o \in Order, NEW new \in OrderStatusEnum,
           pc[c] \in {"closed", "open"}, Exists(o),
           BeginUpdate(c, o, new), UNCHANGED database,
           c \in Request => pc[c] = "closed",
           c \in Screen => CanTransition(Selected(c, o), new)
    PROVE  DataInv'
<1> DEFINE j == [order |-> o, read |-> Selected(c, o), new |-> new]
<1>1. Selected(c, o) \in OrderStatusEnum /\ Selected(c, o) \in Seen(c, o)
  BY SelectedIsSeen
<1>2. j \in Job
  BY <1>1 DEF Job
<1>3. \A d \in Client : /\ pc'[d] = IF d = c THEN "update" ELSE pc[d]
                        /\ job'[d] = IF d = c THEN j ELSE job[d]
  BY DEF BeginUpdate, Goto, DataInv, DataTypeOK
<1>4. DataTypeOK'
  BY <1>2 DEF BeginUpdate, Goto, DataInv, DataTypeOK, Points, database
<1>5. /\ \A d \in Client, p \in Order : Given(d, p)' = Given(d, p) /\ Seen(d, p)' = Seen(d, p)
      /\ HistoryInv' /\ StagesInOrder'
  BY DEF BeginUpdate, Given, Seen, DataInv, HistoryInv, Exists, StagesInOrder, database
<1>7. \A d \in Client : JobInv(d)'
  BY <1>1, <1>3, <1>5 DEF DataInv, JobInv
<1>8. \A d \in Request : RequestInv(d)'
  BY <1>3 DEF DataInv, RequestInv, Client, BeginUpdate
<1>9. \A d \in Screen : StagedInOrder(d)'
  BY <1>5 DEF DataInv, StagedInOrder, Client
<1> QED
  BY <1>4, <1>5, <1>7, <1>8, <1>9 DEF DataInv

(* The row is taken and what was decided is in the session.                   *)
LEMMA FlushKeeps ==
    ASSUME DataInv, NEW c \in Client, Flush(c)
    PROVE  DataInv'
<1> DEFINE o == job[c].order
           new == job[c].new
<1>1. /\ pc[c] = "update" /\ lock[o] \in {None, c}
      /\ lock' = [lock EXCEPT ![o] = c]
      /\ path' = [path EXCEPT ![c][o] = IF new = job[c].read THEN @ ELSE Append(@, new)]
      /\ pc' = [pc EXCEPT ![c] = "announce"]
      /\ UNCHANGED <<database, job, manager, live>>
  BY DEF Flush, Goto
<1>2. o \in Order /\ new \in OrderStatusEnum /\ job[c].read \in Seen(c, o)
  BY <1>1 DEF DataInv, JobInv
<1>3. path[c][o] \in Seq(OrderStatusEnum)
  BY <1>2 DEF DataInv, DataTypeOK
<1> HIDE DEF o, new
<1>4. \A d \in Client, p \in Order :
          path'[d][p] = IF d = c /\ p = o /\ new # job[c].read THEN Append(path[c][o], new)
                                                               ELSE path[d][p]
  BY <1>1, <1>2 DEF DataInv, DataTypeOK
<1>5. \A d \in Client, p \in Order :
          Given(d, p)' = IF d = c /\ p = o /\ new # job[c].read
                         THEN Given(d, p) \cup {new} ELSE Given(d, p)
  <2>1. Elements(Append(path[c][o], new)) = Elements(path[c][o]) \cup {new}
    BY <1>2, <1>3, AppendedRange
  <2> SUFFICES ASSUME NEW d \in Client, NEW p \in Order
               PROVE  Given(d, p)' = IF d = c /\ p = o /\ new # job[c].read
                                     THEN Given(d, p) \cup {new} ELSE Given(d, p)
    OBVIOUS
  <2>2. CASE d = c /\ p = o /\ new # job[c].read
    <3>1. path'[d][p] = Append(path[c][o], new)
      BY <1>4, <2>2
    <3>2. Given(d, p) = Elements(path[c][o]) /\ Given(d, p)' = Elements(path'[d][p])
      BY <2>2 DEF Given, Elements
    <3> QED
      BY <2>1, <2>2, <3>1, <3>2
  <2>3. CASE ~ (d = c /\ p = o /\ new # job[c].read)
    BY <1>4, <2>3 DEF Given
  <2> QED
    BY <2>2, <2>3
<1>6. \A d \in Client, p \in Order : Seen(d, p) \subseteq Seen(d, p)'
  BY <1>1, <1>5 DEF Seen, database
<1>7. new \in Seen(c, o)'
  <2>1. o' = o /\ new' = new
    BY <1>1 DEF o, new
  <2> QED
    BY <1>1, <1>2, <1>5, <2>1 DEF Seen, database
<1>8. DataTypeOK'
  <2>1. path' \in [Client -> [Order -> Seq(OrderStatusEnum)]]
    <3>1. \A x \in Seq(OrderStatusEnum) : Append(x, new) \in Seq(OrderStatusEnum)
      BY <1>2
    <3> QED
      BY <1>1, <1>2, <3>1 DEF DataInv, DataTypeOK
  <2> QED
    BY <1>1, <1>2, <2>1 DEF DataInv, DataTypeOK, Points, database
<1>9. HistoryInv' /\ StagesInOrder'
  BY <1>1 DEF DataInv, HistoryInv, Exists, StagesInOrder, database
<1>11. \A d \in Client : JobInv(d)'
  <2>1. \A d \in Client : pc'[d] = IF d = c THEN "announce" ELSE pc[d]
    BY <1>1 DEF DataInv, DataTypeOK
  <2>2. JobInv(c)'
    BY <1>1, <1>2, <1>6, <1>7, <2>1 DEF JobInv, o, new
  <2>3. \A d \in Client \ {c} : JobInv(d)'
    BY <1>1, <1>6, <2>1 DEF DataInv, JobInv
  <2> QED
    BY <2>2, <2>3
<1>12. \A d \in Request : RequestInv(d)'
  <2>1. \A d \in Client : pc'[d] = IF d = c THEN "announce" ELSE pc[d]
    BY <1>1 DEF DataInv, DataTypeOK
  <2> QED
    BY <1>1, <1>4, <2>1 DEF DataInv, RequestInv, Client, o
<1>13. \A d \in Screen : StagedInOrder(d)'
  <2>1. c \in Screen => CanTransition(job[c].read, new)
    BY <1>1 DEF DataInv, JobInv, new
  <2> SUFFICES ASSUME NEW d \in Screen, NEW p \in Order \ Numbered,
                      NEW s \in Given(d, p)' \ {"PENDING"}
               PROVE  \E q \in Seen(d, p)' : CanTransition(q, s)
    BY DEF StagedInOrder
  <2>2. d \in Client
    BY DEF Client
  <2>3. CASE s \in Given(d, p)
    BY <1>6, <2>2, <2>3 DEF DataInv, StagedInOrder
  <2>4. CASE s \notin Given(d, p)
    BY <1>2, <1>5, <1>6, <2>1, <2>2, <2>4
  <2> QED
    BY <2>3, <2>4
<1> QED
  BY <1>8, <1>9, <1>11, <1>12, <1>13 DEF DataInv

(* A session that ends leaves nothing behind, and what it committed was       *)
(* reached stage by stage: by a screen, or by a request for one order, which  *)
(* has a number.                                                              *)
LEMMA EndKeeps ==
    ASSUME DataInv, NEW c \in Client, EndSession(c, "closed"),
           \/ UNCHANGED database
           \/ /\ CommitSession(c)
              /\ c \in Screen \/ (c \in Request /\ pc[c] = "finish")
    PROVE  DataInv'
<1>1. /\ \A d \in Client : pc'[d] = IF d = c THEN "closed" ELSE pc[d]
      /\ \A d \in Client : job'[d] = IF d = c THEN NoJob ELSE job[d]
      /\ \A d \in Client, o \in Order : path'[d][o] = IF d = c THEN <<>> ELSE path[d][o]
      /\ \A o \in Order : lock'[o] = IF lock[o] = c THEN None ELSE lock[o]
  BY DEF EndSession, Goto, DataInv, DataTypeOK
<1>2. \A o \in Order : /\ passed[o] \subseteq passed'[o]
                       /\ passed'[o] \subseteq Seen(c, o)
                       /\ passed'[o] \subseteq OrderStatusEnum
                       /\ passed'[o] # passed[o] =>
                              /\ passed'[o] = Seen(c, o)
                              /\ c \in Screen \/ (c \in Request /\ pc[c] = "finish")
  BY SelectedIsSeen DEF CommitSession, Seen, database, DataInv, DataTypeOK
<1>3. DataTypeOK'
  <2>1. NoJob \in Job
    BY DEF NoJob, Job
  <2>2. \A o \in Order : /\ Selected(c, o) \in OrderStatusEnum \cup {"absent"}
                         /\ Given(c, o) \subseteq OrderStatusEnum
    BY SelectedIsSeen
  <2>3. /\ status' \in [Order -> OrderStatusEnum \cup {"absent"}]
        /\ passed' \in [Order -> SUBSET OrderStatusEnum]
    <3>1. CASE UNCHANGED database
      BY <3>1 DEF database, DataInv, DataTypeOK
    <3>2. CASE CommitSession(c)
      BY <2>2, <3>2 DEF CommitSession, DataInv, DataTypeOK
    <3> QED
      BY <3>1, <3>2
  <2>4. /\ lock' \in [Order -> Client \cup {None}]
        /\ pc' \in [Client -> Points]
        /\ job' \in [Client -> Job]
    BY <2>1 DEF EndSession, Goto, Points, DataInv, DataTypeOK
  <2>5. path' \in [Client -> [Order -> Seq(OrderStatusEnum)]]
    BY DEF EndSession, DataInv, DataTypeOK
  <2> QED
    BY <2>3, <2>4, <2>5 DEF DataTypeOK
<1>4. HistoryInv'
  <2> SUFFICES ASSUME NEW o \in Order
               PROVE  IF Exists(o)' THEN status'[o] \in passed'[o] ELSE passed'[o] = {}
    BY DEF HistoryInv
  <2>1. CASE UNCHANGED database
    BY <2>1 DEF database, DataInv, HistoryInv, Exists
  <2>2. CASE CommitSession(c)
    <3>1. status'[o] = Selected(c, o) /\ passed'[o] = Seen(c, o)
      BY <2>2 DEF CommitSession, Seen
    <3>2. CASE Selected(c, o) = "absent"
      <4>1. ~ Exists(o) /\ path[c][o] = <<>>
        BY <3>2, SelectedIsSeen
      <4>2. passed[o] = {} /\ Given(c, o) = {}
        BY <4>1 DEF DataInv, HistoryInv, Given
      <4> QED
        BY <3>1, <3>2, <4>2 DEF Exists, Seen
    <3>3. CASE Selected(c, o) # "absent"
      <4>1. Exists(o) \/ path[c][o] # <<>>
        BY <3>3 DEF Selected, Exists
      <4> QED
        BY <3>1, <3>3, <4>1, SelectedIsSeen DEF Exists
    <3> QED
      BY <3>2, <3>3
  <2> QED
    BY <2>1, <2>2
<1>6. \A d \in Client, o \in Order : d # c => /\ Given(d, o)' = Given(d, o)
                                            /\ Seen(d, o) \subseteq Seen(d, o)'
  BY <1>1, <1>2 DEF Given, Seen
<1>7. \A d \in Client : JobInv(d)'
  <2>1. JobInv(c)'
    BY <1>1 DEF JobInv
  <2>2. \A d \in Client \ {c} : JobInv(d)'
    BY <1>1, <1>6 DEF DataInv, JobInv
  <2> QED
    BY <2>1, <2>2
<1>8. \A d \in Request : RequestInv(d)'
  BY <1>1 DEF DataInv, RequestInv, Client
<1>9. \A d \in Screen : StagedInOrder(d)'
  <2>1. StagedInOrder(c)'
    BY <1>1 DEF StagedInOrder, Given
  <2>2. \A d \in Screen \ {c} : StagedInOrder(d)'
    BY <1>6 DEF DataInv, StagedInOrder, Client
  <2> QED
    BY <2>1, <2>2
<1>10. StagesInOrder'
  <2> SUFFICES ASSUME NEW o \in Order \ Numbered, NEW s \in passed'[o] \ (WrittenOver \cup {"PENDING"})
               PROVE  \E p \in passed'[o] : CanTransition(p, s)
    BY DEF StagesInOrder
  <2>1. CASE s \in passed[o]
    BY <1>2, <2>1 DEF DataInv, StagesInOrder
  <2>2. CASE s \notin passed[o]
    <3>1. passed'[o] = Seen(c, o) /\ s \in Given(c, o)
      <4>1. passed'[o] # passed[o] /\ s \in passed'[o]
        BY <2>2
      <4>2. passed'[o] # passed[o] => passed'[o] = Seen(c, o)
        BY <1>2
      <4> QED
        BY <2>2, <4>1, <4>2 DEF Seen
    <3>2. c \in Screen
      <4>1. path[c][o] # <<>>
        BY <3>1 DEF Given
      <4>2. c \notin Screen => c \in Request /\ pc[c] = "finish"
        <5>1. passed'[o] # passed[o]
          BY <2>2
        <5> QED
          BY <1>2, <5>1
      <4>3. c \notin Screen => job[c].order = o /\ job[c].order \in Numbered
        BY <4>1, <4>2 DEF DataInv, RequestInv, JobInv
      <4> QED
        BY <4>3
    <3> QED
      BY <3>1, <3>2 DEF DataInv, StagedInOrder
  <2> QED
    BY <2>1, <2>2
<1> QED
  BY <1>3, <1>4, <1>7, <1>8, <1>9, <1>10 DEF DataInv

(* So do all sessions when the process ends.                                  *)
LEMMA RestartKeeps == DataInv /\ Restart => DataInv'
<1> SUFFICES ASSUME DataInv, Restart
             PROVE  DataInv'
  OBVIOUS
<1>1. NoJob \in Job
  BY DEF NoJob, Job
<1>2. DataTypeOK'
  BY <1>1 DEF Restart, DataInv, DataTypeOK, Points, database
<1>3. HistoryInv' /\ StagesInOrder'
  BY DEF Restart, DataInv, HistoryInv, Exists, StagesInOrder, database
<1>5. \A c \in Client : JobInv(c)' /\ RequestInv(c)' /\ StagedInOrder(c)'
  BY DEF Restart, JobInv, RequestInv, StagedInOrder, Given
<1> QED
  BY <1>2, <1>3, <1>5 DEF DataInv, Client

(* Nothing else touches rows or sessions.                                     *)
LEMMA DataStutters == DataInv /\ UNCHANGED <<database, session>> => DataInv'
<1> SUFFICES ASSUME DataInv, UNCHANGED <<database, session>>
             PROVE  DataInv'
  OBVIOUS
<1>1. DataTypeOK' /\ HistoryInv' /\ StagesInOrder'
  BY DEF DataInv, DataTypeOK, HistoryInv, Exists, StagesInOrder, database, session
<1>2. \A c \in Client, o \in Order : Given(c, o)' = Given(c, o) /\ Seen(c, o)' = Seen(c, o)
  BY DEF Given, Seen, database, session
<1>3. \A c \in Client : JobInv(c)'
  BY <1>2 DEF DataInv, JobInv, session
<1>4. \A c \in Request : RequestInv(c)'
  BY DEF DataInv, RequestInv, session
<1>5. \A c \in Screen : StagedInOrder(c)'
  BY <1>2 DEF DataInv, StagedInOrder, Client
<1> QED
  BY <1>1, <1>3, <1>4, <1>5 DEF DataInv

--------------------------------------------------------------------------------
(* Every step keeps rows and sessions                                         *)

(* A client is one of the three, and of one kind.                             *)
LEMMA ClientKinds ==
    /\ \A c \in Screen : c \in Client /\ c \notin Socket /\ c \notin Request
    /\ \A c \in Socket : c \in Client /\ c \notin Screen /\ c \notin Request
    /\ \A c \in Request : c \in Client /\ c \notin Screen /\ c \notin Socket
BY KitchenAssumption DEF Client

(* A screen that is switched off commits.                                     *)
LEMMA CloseScreenKeepsData ==
    ASSUME DataInv, NEW c \in Screen, CloseScreen(c)
    PROVE  DataInv'
BY ClientKinds, EndKeeps DEF CloseScreen

(* Screens                                                                    *)
LEMMA ScreensKeepData == DataInv /\ Screens => DataInv'
<1> SUFFICES ASSUME DataInv, NEW c \in Screen,
                    \/ ConnectScreen(c)
                    \/ LeaveScreen(c)
                    \/ \E o \in Order, new \in {"PREPARING", "READY", "SERVED"} :
                           ScreenMoves(c, o, new)
             PROVE  DataInv'
  BY DEF Screens
<1>1. CASE ConnectScreen(c)
  BY <1>1, ClientKinds, PointKeeps DEF ConnectScreen, Points, database
<1>2. CASE LeaveScreen(c)
  BY <1>2, CloseScreenKeepsData DEF LeaveScreen
<1>3. ASSUME NEW o \in Order, NEW new \in {"PREPARING", "READY", "SERVED"}, ScreenMoves(c, o, new)
      PROVE  DataInv'
  <2>1. CASE CanTransition(Selected(c, o), new)
    <3>1. /\ pc[c] = "open" /\ Exists(o) /\ BeginUpdate(c, o, new)
          /\ UNCHANGED database /\ new \in OrderStatusEnum
      BY <1>3, <2>1, Words DEF ScreenMoves, database
    <3> QED
      BY <2>1, <3>1, ClientKinds, BeginKeeps
  <2>2. CASE ~ CanTransition(Selected(c, o), new)
    BY <1>3, <2>2, CloseScreenKeepsData DEF ScreenMoves
  <2> QED
    BY <2>1, <2>2
<1> QED
  BY <1>1, <1>2, <1>3

(* A connection that is given up commits nothing.                             *)
LEMMA AbandonKeepsData ==
    ASSUME DataInv, NEW c \in Client, EndSession(c, "closed"), UNCHANGED database
    PROVE  DataInv'
BY EndKeeps

(* Sockets                                                                    *)
LEMMA SocketsKeepData == DataInv /\ Sockets => DataInv'
<1> SUFFICES ASSUME DataInv, NEW c \in Socket,
                    \/ KdsWebsocket(c) \/ DriverWebsocket(c)
                    \/ MerchantWebsocket(c) \/ CustomerWebsocket(c)
                    \/ \E point \in {"open", "leaked"} : SetUp(c, point)
                    \/ \E r \in AskedRooms : MessageSubscribe(c, r) \/ MessageUnsubscribe(c, r)
                    \/ LeaveSocket(c)
                    \/ ReplyFails(c)
             PROVE  DataInv'
  BY DEF Sockets
<1>1. ASSUME NEW kind, NEW point \in {"setup", "open", "leaked"}, Connect(c, kind, point)
      PROVE  DataInv'
  BY <1>1, ClientKinds, PointKeeps DEF Connect, Points, database
<1>2. CASE KdsWebsocket(c) \/ DriverWebsocket(c) \/ MerchantWebsocket(c) \/ CustomerWebsocket(c)
  BY <1>1, <1>2 DEF KdsWebsocket, DriverWebsocket, MerchantWebsocket, CustomerWebsocket
<1>3. ASSUME NEW point \in {"open", "leaked"}, SetUp(c, point)
      PROVE  DataInv'
  BY <1>3, ClientKinds, PointKeeps DEF SetUp, Points, database
<1>4. ASSUME NEW r \in AskedRooms, MessageSubscribe(c, r) \/ MessageUnsubscribe(c, r)
      PROVE  DataInv'
  BY <1>4, DataStutters DEF MessageSubscribe, MessageUnsubscribe
<1>5. CASE LeaveSocket(c) \/ ReplyFails(c)
  BY <1>5, ClientKinds, AbandonKeepsData DEF LeaveSocket, ReplyFails, Abandon
<1> QED
  BY <1>2, <1>3, <1>4, <1>5

(* Updates of phase 9                                                         *)
LEMMA UpdatesKeepData == DataInv /\ Updates => DataInv'
<1> SUFFICES ASSUME DataInv, NEW c \in Socket \cup Request,
                    \/ \E o \in Order : \/ BumpOrder(c, o)
                                        \/ \E k \in KdsOrderStatus : UpdateOrderStatus(c, o, k)
                    \/ FinishRequest(c)
             PROVE  DataInv'
  BY DEF Updates
<1>1. c \in Client /\ c \notin Screen
  BY ClientKinds
<1>2. ASSUME NEW o \in Order, NEW new \in OrderStatusEnum,
             Ready(c), Exists(o), BeginUpdate(c, o, new), UNCHANGED database
      PROVE  DataInv'
  <2>1. pc[c] \in {"closed", "open"} /\ (c \in Request => pc[c] = "closed")
    BY <1>2, ClientKinds DEF Ready
  <2> QED
    BY <1>1, <1>2, <2>1, BeginKeeps
<1>3. ASSUME NEW o \in Order, BumpOrder(c, o)
      PROVE  DataInv'
  BY <1>2, <1>3, Words DEF BumpOrder
<1>4. ASSUME NEW o \in Order, NEW k \in KdsOrderStatus, UpdateOrderStatus(c, o, k)
      PROVE  DataInv'
  <2>1. Exists(o)
    BY <1>4 DEF UpdateOrderStatus
  <2>2. Requested(k, Selected(c, o)) \in OrderStatusEnum
    BY <1>1, <2>1, SelectedIsSeen, Words
  <2> QED
    BY <1>2, <1>4, <2>2 DEF UpdateOrderStatus
<1>5. CASE FinishRequest(c)
  BY <1>1, <1>5, EndKeeps DEF FinishRequest
<1> QED
  BY <1>3, <1>4, <1>5

(* Failures                                                                   *)
LEMMA FailuresKeepData == DataInv /\ Failures => DataInv'
<1>1. ASSUME DataInv, NEW c \in Client, DeadlockVictim(c) \/ DatabaseError(c)
      PROVE  DataInv'
  BY <1>1, AbandonKeepsData DEF DeadlockVictim, DatabaseError, Break
<1> QED
  BY <1>1, RestartKeeps DEF Failures

(* What displays are told                                                     *)
LEMMA TellingKeepsData == DataInv /\ Telling => DataInv'
<1>1. ASSUME DataInv, NEW c \in Client, TellScreens(c)
      PROVE  DataInv'
  <2>1. /\ c \in Screen /\ pc[c] = "announce" /\ Goto(c, "open")
        /\ job' = [job EXCEPT ![c] = NoJob]
        /\ UNCHANGED <<database, lock, path>>
    BY <1>1 DEF TellScreens
  <2> QED
    BY <1>1, <2>1, ClientKinds, PointKeeps DEF Points
<1>2. ASSUME DataInv, NEW c \in Client, TellRoom(c)
      PROVE  DataInv'
  <2>1. CASE Convertible(job[c].order)
    <3>1. /\ pc[c] = "announce" /\ Goto(c, "finish") /\ job[c].order \in Numbered
          /\ UNCHANGED <<database, lock, job, path>>
      BY <1>2, <2>1 DEF TellRoom, Convertible
    <3> QED
      BY <1>2, <3>1, PointKeeps DEF Points
  <2>2. CASE ~ Convertible(job[c].order)
    BY <1>2, <2>2, AbandonKeepsData DEF TellRoom, Abandon
  <2> QED
    BY <2>1, <2>2
<1>3. ASSUME DataInv, NEW c \in Screen, NEW reached \in SUBSET live, TellSomeScreens(c, reached)
      PROVE  DataInv'
  BY <1>3, CloseScreenKeepsData DEF TellSomeScreens
<1>4. ASSUME DataInv, NEW c \in Screen \cup Socket, NEW words \in Filters, GetKdsOrders(c, words)
      PROVE  DataInv'
  BY <1>4, DataStutters DEF GetKdsOrders
<1> QED
  BY <1>1, <1>2, <1>3, <1>4 DEF Telling

(* Together                                                                   *)
LEMMA DataNext == DataInv /\ [Next]_vars => DataInv'
<1>1. DataInv /\ Silent => DataInv'
  BY OrdersKeep, ScreensKeepData, SocketsKeepData, UpdatesKeepData, FailuresKeepData, FlushKeeps
     DEF Silent
<1>2. DataInv /\ UNCHANGED vars => DataInv'
  BY DataStutters DEF vars, system
<1> QED
  BY <1>1, <1>2, TellingKeepsData DEF Next

--------------------------------------------------------------------------------
(* Connections and rooms                                                      *)

(* Where clients other than sockets are is of no concern to the manager.      *)
LEMMA ManagerStays ==
    ASSUME ManagerInv, UNCHANGED manager,
           \A c \in Socket : pc'[c] = "closed" <=> pc[c] = "closed"
    PROVE  ManagerInv'
BY DEF ManagerInv, ManagerTypeOK, RoomsMatchSockets, manager

(* A connection that begins to listen.                                        *)
LEMMA RegisterKeeps ==
    ASSUME ManagerInv, NEW c \in Socket, NEW home \in SUBSET Room,
           Register(c, home), pc[c] = "closed", pc'[c] # "closed",
           \A d \in Socket \ {c} : pc'[d] = pc[d]
    PROVE  ManagerInv'
<1>1. c \notin registered /\ subscribed[c] = {} /\ \A r \in Room : c \notin rooms[r]
  BY DEF ManagerInv, ManagerTypeOK, RoomsMatchSockets
<1>2. /\ registered' = registered \cup {c}
      /\ \A d \in Socket : subscribed'[d] = IF d = c THEN home ELSE subscribed[d]
      /\ \A r \in Room : rooms'[r] = IF r \in home THEN rooms[r] \cup {c} ELSE rooms[r]
  BY DEF Register, ManagerInv, ManagerTypeOK
<1>3. ManagerTypeOK'
  BY DEF Register, ManagerInv, ManagerTypeOK
<1>4. \A d \in Socket : \A r \in Room : d \in rooms'[r] <=> r \in subscribed'[d]
  <2>1. ASSUME NEW d \in Socket, NEW r \in Room
        PROVE  d \in rooms'[r] <=> r \in subscribed'[d]
    <3>1. d \in rooms[r] <=> r \in subscribed[d]
      BY DEF ManagerInv, RoomsMatchSockets
    <3>2. d = c => r \notin subscribed[d]
      BY <1>1
    <3> QED
      BY <1>2, <3>1, <3>2
  <2> QED
    BY <2>1
<1>5. \A d \in Socket : subscribed'[d] # {} => d \in registered'
  BY <1>2 DEF ManagerInv, RoomsMatchSockets
<1>6. \A d \in Socket : d \in registered' <=> pc'[d] # "closed"
  BY <1>2 DEF ManagerInv, RoomsMatchSockets
<1>7. RoomsMatchSockets'
  BY <1>4, <1>5, <1>6 DEF RoomsMatchSockets
<1> QED
  BY <1>3, <1>7 DEF ManagerInv

(* One that ends, in whatever room it listens.                                *)
LEMMA UnregisterKeeps ==
    ASSUME ManagerInv, NEW c \in Socket, Unregister(c), pc'[c] = "closed",
           \A d \in Socket \ {c} : pc'[d] = pc[d]
    PROVE  ManagerInv'
<1>1. /\ registered' = registered \ {c}
      /\ \A d \in Socket : subscribed'[d] = IF d = c THEN {} ELSE subscribed[d]
      /\ \A r \in Room : rooms'[r] = IF r \in subscribed[c] THEN rooms[r] \ {c} ELSE rooms[r]
  BY DEF Unregister, ManagerInv, ManagerTypeOK
<1>2. ManagerTypeOK'
  BY DEF Unregister, ManagerInv, ManagerTypeOK
<1>3. \A d \in Socket : \A r \in Room : d \in rooms'[r] <=> r \in subscribed'[d]
  <2>1. ASSUME NEW d \in Socket, NEW r \in Room
        PROVE  d \in rooms'[r] <=> r \in subscribed'[d]
    <3>1. d \in rooms[r] <=> r \in subscribed[d]
      BY DEF ManagerInv, RoomsMatchSockets
    <3> QED
      BY <1>1, <3>1
  <2> QED
    BY <2>1
<1>4. \A d \in Socket : subscribed'[d] # {} => d \in registered'
  BY <1>1 DEF ManagerInv, RoomsMatchSockets
<1>5. \A d \in Socket : d \in registered' <=> pc'[d] # "closed"
  BY <1>1 DEF ManagerInv, RoomsMatchSockets
<1>6. RoomsMatchSockets'
  BY <1>3, <1>4, <1>5 DEF RoomsMatchSockets
<1> QED
  BY <1>2, <1>6 DEF ManagerInv

(* Subscriptions of open connections, which are registered.                   *)
LEMMA SubscribeKeeps ==
    ASSUME ManagerInv, NEW c \in Socket, NEW r \in Room, pc[c] = "open",
           Subscribe(c, r) \/ Unsubscribe(c, r), UNCHANGED pc
    PROVE  ManagerInv'
<1>1. c \in registered
  BY DEF ManagerInv, RoomsMatchSockets
<1>2. CASE Subscribe(c, r)
  BY <1>1, <1>2 DEF Subscribe, ManagerInv, ManagerTypeOK, RoomsMatchSockets
<1>3. CASE Unsubscribe(c, r)
  BY <1>1, <1>3 DEF Unsubscribe, ManagerInv, ManagerTypeOK, RoomsMatchSockets
<1> QED
  BY <1>2, <1>3

(* A client that is given up, with its registration if it is a socket.        *)
LEMMA AbandonKeepsManager ==
    ASSUME DataInv, ManagerInv, NEW c \in Client, EndSession(c, "closed"),
           IF c \in Socket THEN Unregister(c) ELSE UNCHANGED manager
    PROVE  ManagerInv'
<1>1. \A d \in Client : pc'[d] = IF d = c THEN "closed" ELSE pc[d]
  BY DEF EndSession, Goto, DataInv, DataTypeOK
<1>2. CASE c \in Socket
  BY <1>1, <1>2, UnregisterKeeps, ClientKinds
<1>3. CASE c \notin Socket
  BY <1>1, <1>3, ManagerStays, ClientKinds
<1> QED
  BY <1>2, <1>3

(* A client that moves on and is open before and after.                       *)
LEMMA MovesKeepManager ==
    ASSUME DataInv, ManagerInv, UNCHANGED manager, NEW c \in Client, NEW point, Goto(c, point),
           c \in Socket => pc[c] # "closed" /\ point # "closed"
    PROVE  ManagerInv'
<1>1. \A d \in Client : pc'[d] = IF d = c THEN point ELSE pc[d]
  BY DEF Goto, DataInv, DataTypeOK
<1> QED
  BY <1>1, ManagerStays, ClientKinds

(* Sockets                                                                    *)
LEMMA SocketsKeepManager == DataInv /\ ManagerInv /\ Sockets => ManagerInv'
<1> SUFFICES ASSUME DataInv, ManagerInv, NEW c \in Socket,
                    \/ KdsWebsocket(c) \/ DriverWebsocket(c)
                    \/ MerchantWebsocket(c) \/ CustomerWebsocket(c)
                    \/ \E point \in {"open", "leaked"} : SetUp(c, point)
                    \/ \E r \in AskedRooms : MessageSubscribe(c, r) \/ MessageUnsubscribe(c, r)
                    \/ LeaveSocket(c)
                    \/ ReplyFails(c)
             PROVE  ManagerInv'
  BY DEF Sockets
<1>1. ASSUME NEW kind \in {"display", "branch_display", "driver", "merchant", "customer"},
             NEW point \in {"setup", "open", "leaked"}, Connect(c, kind, point)
      PROVE  ManagerInv'
  <2>1. Home(kind) \in SUBSET Room
    BY KitchenAssumption DEF Home
  <2>2. \A d \in Client : pc'[d] = IF d = c THEN point ELSE pc[d]
    BY <1>1 DEF Connect, Goto, DataInv, DataTypeOK
  <2> QED
    BY <1>1, <2>1, <2>2, RegisterKeeps, ClientKinds DEF Connect
<1>2. CASE KdsWebsocket(c) \/ DriverWebsocket(c) \/ MerchantWebsocket(c) \/ CustomerWebsocket(c)
  BY <1>1, <1>2 DEF KdsWebsocket, DriverWebsocket, MerchantWebsocket, CustomerWebsocket
<1>3. ASSUME NEW point \in {"open", "leaked"}, SetUp(c, point)
      PROVE  ManagerInv'
  BY <1>3, MovesKeepManager, ClientKinds DEF SetUp
<1>4. ASSUME NEW r \in AskedRooms, MessageSubscribe(c, r) \/ MessageUnsubscribe(c, r)
      PROVE  ManagerInv'
  BY <1>4, SubscribeKeeps, KitchenAssumption DEF MessageSubscribe, MessageUnsubscribe, session
<1>5. CASE LeaveSocket(c) \/ ReplyFails(c)
  BY <1>5, AbandonKeepsManager, ClientKinds DEF LeaveSocket, ReplyFails, Abandon
<1> QED
  BY <1>2, <1>3, <1>4, <1>5

(* Screens and updates                                                        *)
LEMMA UpdatesKeepManager ==
    ASSUME DataInv, ManagerInv,
           Orders \/ Screens \/ Updates \/ \E c \in Client : Flush(c)
    PROVE  ManagerInv'
<1>1. CASE Orders
  BY <1>1, ManagerStays DEF Orders, PlaceOrder, OthersMove, session
<1>2. ASSUME NEW c \in Screen, CloseScreen(c), UNCHANGED manager
      PROVE  ManagerInv'
  BY <1>2, AbandonKeepsManager, ClientKinds DEF CloseScreen
<1>3. ASSUME NEW c \in Screen, ConnectScreen(c) \/ LeaveScreen(c)
      PROVE  ManagerInv'
  BY <1>2, <1>3, MovesKeepManager, ClientKinds DEF ConnectScreen, LeaveScreen
<1>4. ASSUME NEW c \in Screen, NEW o \in Order, NEW new, ScreenMoves(c, o, new)
      PROVE  ManagerInv'
  BY <1>2, <1>4, MovesKeepManager, ClientKinds DEF ScreenMoves, BeginUpdate
<1>5. ASSUME NEW c \in Socket \cup Request, NEW o \in Order, NEW new,
             Ready(c), BeginUpdate(c, o, new), UNCHANGED manager
      PROVE  ManagerInv'
  BY <1>5, MovesKeepManager, ClientKinds DEF Ready, BeginUpdate
<1>6. CASE Updates
  <2>1. ASSUME NEW c \in Socket \cup Request, FinishRequest(c)
        PROVE  ManagerInv'
    BY <2>1, AbandonKeepsManager, ClientKinds DEF FinishRequest
  <2>2. ASSUME NEW c \in Socket \cup Request, NEW o \in Order,
               BumpOrder(c, o) \/ \E k \in KdsOrderStatus : UpdateOrderStatus(c, o, k)
        PROVE  ManagerInv'
    BY <1>5, <2>2 DEF BumpOrder, UpdateOrderStatus
  <2> QED
    BY <1>6, <2>1, <2>2 DEF Updates
<1>7. ASSUME NEW c \in Client, Flush(c)
      PROVE  ManagerInv'
  BY <1>7, MovesKeepManager DEF Flush
<1> QED
  BY <1>1, <1>3, <1>4, <1>6, <1>7 DEF Screens

(* Failures and what displays are told                                        *)
LEMMA FailuresKeepManager ==
    ASSUME DataInv, ManagerInv, Failures \/ Telling
    PROVE  ManagerInv'
<1>1. ASSUME NEW c \in Client, DeadlockVictim(c) \/ DatabaseError(c)
      PROVE  ManagerInv'
  BY <1>1, AbandonKeepsManager DEF DeadlockVictim, DatabaseError, Break
<1>2. CASE Restart
  BY <1>2, ClientKinds DEF Restart, ManagerInv, ManagerTypeOK, RoomsMatchSockets
<1>3. ASSUME NEW c \in Client, TellScreens(c)
      PROVE  ManagerInv'
  BY <1>3, MovesKeepManager, ClientKinds DEF TellScreens
<1>4. ASSUME NEW c \in Client, TellRoom(c)
      PROVE  ManagerInv'
  <2>1. CASE Convertible(job[c].order)
    BY <1>4, <2>1, MovesKeepManager DEF TellRoom
  <2>2. CASE ~ Convertible(job[c].order)
    BY <1>4, <2>2, AbandonKeepsManager DEF TellRoom, Abandon
  <2> QED
    BY <2>1, <2>2
<1>5. ASSUME NEW c \in Screen, NEW reached \in SUBSET live, TellSomeScreens(c, reached)
      PROVE  ManagerInv'
  BY <1>5, AbandonKeepsManager, ClientKinds DEF TellSomeScreens, CloseScreen
<1>6. ASSUME NEW c \in Screen \cup Socket, NEW words \in Filters, GetKdsOrders(c, words)
      PROVE  ManagerInv'
  BY <1>6, ManagerStays DEF GetKdsOrders, session
<1> QED
  BY <1>1, <1>2, <1>3, <1>4, <1>5, <1>6 DEF Failures, Telling

(* Together                                                                   *)
LEMMA ManagerNext == DataInv /\ ManagerInv /\ [Next]_vars => ManagerInv'
<1>1. ManagerInv /\ UNCHANGED vars => ManagerInv'
  BY ManagerStays DEF vars, system, session
<1> QED
  BY <1>1, SocketsKeepManager, UpdatesKeepManager, FailuresKeepManager DEF Next, Silent

--------------------------------------------------------------------------------
(* What displays were told                                                    *)

(* A step that tells nobody keeps what the invariant says of telling.         *)
LEMMA SilenceKeeps ==
    ASSUME live' \in SUBSET Screen, told' = {}
    PROVE  ToldInv'
BY DEF ToldInv, ScreensTellTruth

(* A display is told what is true of the order after the step, or in a        *)
(* session that is open after it.                                             *)
LEMMA TellKeeps ==
    ASSUME live' \in SUBSET Screen, NEW o \in Order,
           \A m \in told' :
               /\ m \in [display : Screen \cup Socket, order : {o}, status : KdsOrderStatus]
               /\ \E s \in passed'[o] \cup UNION {Elements(path'[u][o]) : u \in Client} :
                      m.status = KdsStatus(s)
    PROVE  ToldInv'
<1>1. told' \in SUBSET [display : Screen \cup Socket, order : Order, status : KdsOrderStatus]
  OBVIOUS
<1>2. \A u \in Client : Given(u, o)' = Elements(path'[u][o])
  BY DEF Given, Elements
<1>3. ASSUME NEW m \in told'
      PROVE  \E s \in passed'[m.order] \cup UNION {Given(u, m.order)' : u \in Client} :
                 m.status = KdsStatus(s)
  <2>1. m.order = o
    OBVIOUS
  <2>2. PICK s \in passed'[o] \cup UNION {Elements(path'[u][o]) : u \in Client} :
            m.status = KdsStatus(s)
    OBVIOUS
  <2>3. s \in passed'[m.order] \cup UNION {Given(u, m.order)' : u \in Client}
    BY <1>2, <2>1, <2>2
  <2> QED
    BY <2>2, <2>3
<1>4. ScreensTellTruth'
  BY <1>3 DEF ScreensTellTruth
<1> QED
  BY <1>1, <1>4 DEF ToldInv

(* Screens and the room "kds" are told what the teller has seen, which it     *)
(* has still in its session or commits as it goes.                            *)
LEMMA AnnouncementsKeep ==
    ASSUME DataInv, ManagerInv, live' \in SUBSET Screen,
           NEW c \in Client, pc[c] = "announce",
           NEW displays \in SUBSET (Screen \cup Socket),
           Tell(displays, job[c].order, job[c].new),
           UNCHANGED <<passed, path>> \/ CommitSession(c)
    PROVE  ToldInv'
<1> DEFINE o == job[c].order
           s == job[c].new
<1>1. o \in Order /\ s \in passed[o] \cup Given(c, o)
  BY DEF DataInv, JobInv, Seen
<1>2. s \in passed'[o] \cup UNION {Elements(path'[u][o]) : u \in Client}
  <2>1. CASE UNCHANGED <<passed, path>>
    BY <1>1, <2>1 DEF Given, Elements
  <2>2. CASE CommitSession(c)
    BY <1>1, <2>2 DEF CommitSession
  <2> QED
    BY <2>1, <2>2
<1>3. \A m \in told' :
          /\ m \in [display : Screen \cup Socket, order : {o}, status : KdsOrderStatus]
          /\ m.status = KdsStatus(s)
  BY Words DEF Tell
<1> HIDE DEF o, s
<1>4. \A m \in told' :
          /\ m \in [display : Screen \cup Socket, order : {o}, status : KdsOrderStatus]
          /\ \E t \in passed'[o] \cup UNION {Elements(path'[u][o]) : u \in Client} :
                 m.status = KdsStatus(t)
  BY <1>2, <1>3
<1> QED
  BY <1>1, <1>4, TellKeeps

(* A list that is asked for shows what is committed.                          *)
LEMMA ListsKeep ==
    ASSUME DataInv, ToldInv, NEW c \in Screen \cup Socket, NEW words \in Filters,
           GetKdsOrders(c, words)
    PROVE  ToldInv'
<1>1. UNCHANGED <<status, passed, path, live>>
  BY DEF GetKdsOrders, database, session
<1>2. \A o \in GetActiveOrders(words) : o \in Order /\ status[o] \in passed[o]
  BY DEF GetActiveOrders, DataInv, HistoryInv, Exists, ActiveStatuses
<1>3. told' = {[display |-> c, order |-> o, status |-> KdsStatus(status[o])] :
                   o \in GetActiveOrders(words)}
  BY DEF GetKdsOrders
<1>4. told' \in SUBSET [display : Screen \cup Socket, order : Order, status : KdsOrderStatus]
  BY <1>2, <1>3, Words
<1>5. \A m \in told' : m.order \in Order /\ status[m.order] \in passed[m.order]
                          /\ m.status = KdsStatus(status[m.order])
  BY <1>2, <1>3
<1>6. ScreensTellTruth'
  BY <1>1, <1>5 DEF ScreensTellTruth
<1> QED
  BY <1>1, <1>4, <1>6 DEF ToldInv

(* Whoever is told                                                            *)
LEMMA TellingKeepsTold ==
    ASSUME DataInv, ManagerInv, ToldInv, Telling
    PROVE  ToldInv'
<1>1. ASSUME NEW c \in Client, TellScreens(c)
      PROVE  ToldInv'
  BY <1>1, AnnouncementsKeep DEF TellScreens, ToldInv, database
<1>2. ASSUME NEW c \in Client, TellRoom(c)
      PROVE  ToldInv'
  <2>1. CASE Convertible(job[c].order)
    <3>1. {d \in Reached("kds") : pc[d] # "leaked"} \in SUBSET (Screen \cup Socket)
      BY KitchenAssumption DEF ManagerInv, ManagerTypeOK, Reached
    <3>2. /\ pc[c] = "announce"
          /\ UNCHANGED <<passed, path, live>>
          /\ Tell({d \in Reached("kds") : pc[d] # "leaked"}, job[c].order, job[c].new)
      BY <1>2, <2>1 DEF TellRoom, database
    <3> QED
      BY <3>1, <3>2, AnnouncementsKeep DEF ToldInv
  <2>2. CASE ~ Convertible(job[c].order)
    BY <1>2, <2>2, SilenceKeeps DEF TellRoom, ToldInv
  <2> QED
    BY <2>1, <2>2
<1>3. ASSUME NEW c \in Screen, NEW reached \in SUBSET live, TellSomeScreens(c, reached)
      PROVE  ToldInv'
  <2>1. /\ pc[c] = "announce"
        /\ CommitSession(c)
        /\ live' = live \ {c}
        /\ Tell(reached, job[c].order, job[c].new)
    BY <1>3 DEF TellSomeScreens, CloseScreen
  <2> QED
    BY <2>1, AnnouncementsKeep, ClientKinds DEF ToldInv
<1> QED
  BY <1>1, <1>2, <1>3, ListsKeep DEF Telling

(* Steps that tell nobody change the screens that are on, if anything.        *)
LEMMA SilentKeepsTold ==
    ASSUME ToldInv, Silent, told' = {}
    PROVE  ToldInv'
<1> SUFFICES live' \in SUBSET Screen
  BY SilenceKeeps
<1>1. live \in SUBSET Screen
  BY DEF ToldInv
<1>2. CASE Orders
  BY <1>1, <1>2 DEF Orders, PlaceOrder, OthersMove
<1>3. CASE Screens
  BY <1>1, <1>3 DEF Screens, ConnectScreen, LeaveScreen, ScreenMoves, CloseScreen
<1>4. CASE Sockets
  BY <1>1, <1>4 DEF Sockets, KdsWebsocket, DriverWebsocket, MerchantWebsocket,
     CustomerWebsocket, Connect, SetUp, MessageSubscribe, MessageUnsubscribe, LeaveSocket,
     ReplyFails
<1>5. CASE Updates
  BY <1>1, <1>5 DEF Updates, BumpOrder, UpdateOrderStatus, FinishRequest
<1>6. CASE Failures
  BY <1>1, <1>6 DEF Failures, DeadlockVictim, DatabaseError, Break, Restart
<1>7. CASE \E c \in Client : Flush(c)
  BY <1>1, <1>7 DEF Flush
<1> QED
  BY <1>2, <1>3, <1>4, <1>5, <1>6, <1>7 DEF Silent

(* Together                                                                   *)
LEMMA ToldNext == DataInv /\ ManagerInv /\ ToldInv /\ [Next]_vars => ToldInv'
<1>1. ToldInv /\ UNCHANGED vars => ToldInv'
  BY DEF ToldInv, ScreensTellTruth, Given, vars, system, database, session
<1> QED
  BY <1>1, TellingKeepsTold, SilentKeepsTold DEF Next

--------------------------------------------------------------------------------
(* Theorems                                                                   *)

(* The invariant is inductive, and holds from the start.                      *)
THEOREM Invariance == Spec => []IInv
<1>1. IInv /\ [Next]_vars => IInv'
  BY DataNext, ManagerNext, ToldNext DEF IInv
<1> QED
  BY InitInv, <1>1, PTL DEF Spec

(* Rows, sessions, rooms and messages are what they are taken for.            *)
THEOREM TypeCorrect == Spec => []TypeOK
<1>1. IInv => TypeOK
  BY DEF IInv, DataInv, DataTypeOK, ManagerInv, ToldInv, TypeOK
<1> QED
  BY <1>1, Invariance, PTL

(* No display is told a status that an order has not, never had, and is in    *)
(* nobody's session: announcing before the commit (kds.py, kds_service.py)    *)
(* shows changes early, and never invents one.                                *)
THEOREM Truthful == Spec => []ScreensTellTruth
<1>1. IInv => ScreensTellTruth
  BY DEF IInv, ToldInv
<1> QED
  BY <1>1, Invariance, PTL

(* Whatever screens with sessions of hours commit (kds.py through             *)
(* OrderService.update_status), what phase 9 can write and what others write  *)
(* over any status (driver_tracking_service.py, payments.py): an order that   *)
(* phase 9 cannot show is prepared, ready, served or cancelled only if it had *)
(* a status from which the state machine allows it.                           *)
THEOREM Staged == Spec => []StagesInOrder
<1>1. IInv => StagesInOrder
  BY DEF IInv, DataInv
<1> QED
  BY <1>1, Invariance, PTL

(* ConnectionManager's two maps stay inverse to one another, and what they    *)
(* hold are the connections whose handler has not unregistered them.          *)
THEOREM RoomsMatch == Spec => []RoomsMatchSockets
<1>1. IInv => RoomsMatchSockets
  BY DEF IInv, ManagerInv
<1> QED
  BY <1>1, Invariance, PTL

================================================================================
