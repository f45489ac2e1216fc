---------------------------- MODULE KitchenDisplays ----------------------------
(******************************************************************************)
(* The two kitchen displays and what their screens show.                      *)
(*                                                                            *)
(* Screens (endpoints/kds.py) move orders through OrderService and tell every *)
(* screen; sockets and REST requests of phase 9 (endpoints/websocket.py,      *)
(* kds_service.py) write the status they are given and tell the room "kds".   *)
(* Both tell before they commit, and a connection is ONE database session: a  *)
(* screen commits what it changed when it goes, and holds the rows it changed *)
(* until then; a socket of phase 9 cannot answer an update and never commits. *)
(*                                                                            *)
(* Orders are changed by others meanwhile, some of whom ask no state machine. *)
(******************************************************************************)
EXTENDS OrderStatus, SocketRooms, Naturals, Sequences

CONSTANTS
    Order,
    Numbered,       \* orders with an order_number: nothing in src/ sets one
    Screen,         \* connections to /kds/ws/kds/{merchant_id}
    Request,        \* REST requests of phase 9 at the same time
    OtherStatuses,  \* the statuses other parts of the system give an order
    AskedRooms,     \* the rooms clients subscribe to themselves
    Filters,        \* the status filters that lists of orders are asked with
    None

KdsOrderStatus == {"pending", "preparing", "ready", "served", "delayed", "cancelled"}

ASSUME KitchenAssumption ==
    /\ Numbered \subseteq Order
    /\ OtherStatuses \subseteq OrderStatusEnum
    /\ AskedRooms \subseteq Room
    /\ Filters \subseteq SUBSET KdsOrderStatus
    /\ {"kds", "kds_branch", "driver", "fleet", "merchant", "order"} \subseteq Room
    /\ Screen \cap Socket = {} /\ Screen \cap Request = {} /\ Socket \cap Request = {}
    /\ None \notin Screen \cup Socket \cup Request \cup Order

Client == Screen \cup Socket \cup Request

VARIABLES
    status,         \* committed column orders.status
    passed,         \* history: the statuses an order was given in committed sessions
    lock,           \* the session that holds the row lock of an order
    pc,             \* where the task of a client is
    job,            \* the update it works on
    path,           \* its session: the statuses it has given an order, uncommitted
    live,           \* kds_manager.active_connections of the merchant
    told            \* history: what the last step told which display of which order

database == <<status, passed>>
session == <<lock, pc, job, path>>
system == <<database, session, manager, live>>
vars == <<system, told>>

--------------------------------------------------------------------------------
(* _map_order_status                                                          *)
KdsStatus(s) ==
    CASE s \in {"CONFIRMED", "PREPARING"}    -> "preparing"
      [] s \in {"READY", "OUT_FOR_DELIVERY"} -> "ready"
      [] s \in {"SERVED", "DELIVERED"}       -> "served"
      [] s = "CANCELLED"                     -> "cancelled"
      [] OTHER                               -> "pending"

(* Mutant of Requested: other words are put in capitals.                      *)
RequestedWord(k, current) ==
    CASE k = "preparing" -> "PREPARING"
      [] k = "ready"     -> "READY"
      [] k = "served"    -> "SERVED"
      [] k = "cancelled" -> "CANCELLED"
      [] k = "delayed"   -> "DELAYED"
      [] OTHER           -> "PENDING"

(* status_map of update_order_status; other words leave the order as it is.   *)
Requested(k, current) ==
    CASE k = "preparing" -> "PREPARING"
      [] k = "ready"     -> "READY"
      [] k = "served"    -> "SERVED"
      [] k = "cancelled" -> "CANCELLED"
      [] OTHER           -> current

(* order_to_kds raises for an order without a number, which KDSOrder requires.*)
Convertible(o) == o \in Numbered

ActiveStatuses == {"PENDING", "CONFIRMED", "PREPARING", "READY", "OUT_FOR_DELIVERY"}

(* A filter none of whose words has an entry does not filter.                 *)
Filter(words) ==
    LET named == (IF "pending" \in words THEN {"PENDING"} ELSE {})
            \cup (IF "preparing" \in words THEN {"CONFIRMED", "PREPARING"} ELSE {})
            \cup (IF "ready" \in words THEN {"READY"} ELSE {})
            \cup (IF "served" \in words THEN {"SERVED", "DELIVERED"} ELSE {})
    IN IF named = {} THEN OrderStatusEnum ELSE named

GetActiveOrders(words) ==
    {o \in Order : status[o] \in ActiveStatuses \cap Filter(words)}

NoJob == [order |-> None, read |-> "absent", new |-> "absent"]

Job == [order : Order \cup {None}, read : OrderStatusEnum \cup {"absent"},
        new : OrderStatusEnum \cup {"absent"}]

Points == {"closed", "setup", "open", "leaked", "update", "announce", "finish"}

TypeOK ==
    /\ ManagerTypeOK
    /\ status \in [Order -> OrderStatusEnum \cup {"absent"}]
    /\ passed \in [Order -> SUBSET OrderStatusEnum]
    /\ lock \in [Order -> Client \cup {None}]
    /\ pc \in [Client -> Points]
    /\ job \in [Client -> Job]
    /\ path \in [Client -> [Order -> Seq(OrderStatusEnum)]]
    /\ live \in SUBSET Screen
    /\ told \in SUBSET [display : Screen \cup Socket, order : Order, status : KdsOrderStatus]

Init ==
    /\ ManagerInit
    /\ status = [o \in Order |-> "absent"]
    /\ passed = [o \in Order |-> {}]
    /\ lock = [o \in Order |-> None]
    /\ pc = [c \in Client |-> "closed"]
    /\ job = [c \in Client |-> NoJob]
    /\ path = [c \in Client |-> [o \in Order |-> <<>>]]
    /\ live = {}
    /\ told = {}

--------------------------------------------------------------------------------
(* Sessions                                                                   *)

Exists(o) == status[o] # "absent"

Given(c, o) == {path[c][o][i] : i \in DOMAIN path[c][o]}

(* A fresh SELECT: the row of another session's last commit, or one's own.    *)
Selected(c, o) == IF path[c][o] = <<>> THEN status[o]
                  ELSE path[c][o][Len(path[c][o])]

Goto(c, point) == pc' = [pc EXCEPT ![c] = point]

EndSession(c, point) ==
    /\ Goto(c, point)
    /\ job' = [job EXCEPT ![c] = NoJob]
    /\ path' = [path EXCEPT ![c] = [o \in Order |-> <<>>]]
    /\ lock' = [o \in Order |-> IF lock[o] = c THEN None ELSE lock[o]]

(* get_db commits the session.                                                *)
CommitSession(c) ==
    /\ status' = [o \in Order |-> Selected(c, o)]
    /\ passed' = [o \in Order |-> passed[o] \cup Given(c, o)]

Tell(displays, o, s) ==
    told' = [display : displays, order : {o}, status : {KdsStatus(s)}]

(* The SELECT of an update.                                                   *)
BeginUpdate(c, o, new) ==
    /\ job' = [job EXCEPT ![c] = [order |-> o, read |-> Selected(c, o), new |-> new]]
    /\ Goto(c, "update")
    /\ UNCHANGED <<lock, path>>

(* The UPDATE waits for the row and keeps it; the column status is part of it *)
(* only if it was changed.                                                    *)
Flush(c) ==
    LET j == job[c] IN
    /\ pc[c] = "update"
    /\ lock[j.order] \in {None, c}
    /\ lock' = [lock EXCEPT ![j.order] = c]
    /\ path' = [path EXCEPT ![c][j.order] =
                    IF j.new = j.read THEN @ ELSE Append(@, j.new)]
    /\ Goto(c, "announce")
    /\ UNCHANGED <<database, job, manager, live>>

--------------------------------------------------------------------------------
(* The rest of the system                                                     *)

PlaceOrder(o) ==
    /\ ~ Exists(o)
    /\ status' = [status EXCEPT ![o] = "PENDING"]
    /\ passed' = [passed EXCEPT ![o] = {"PENDING"}]
    /\ UNCHANGED <<session, manager, live>>

(* What is written over any status: the cash confirmation, the driver tracking*)
(* and the refund look at none.                                               *)
WrittenOver == {"CONFIRMED", "OUT_FOR_DELIVERY", "DELIVERED", "REFUNDED"}

(* All others asked the table about a status the order had.                   *)
OthersMove(o, s) ==
    /\ Exists(o) /\ lock[o] = None /\ s # status[o]
    /\ s \in WrittenOver \/ \E past \in passed[o] : CanTransition(past, s)
    /\ status' = [status EXCEPT ![o] = s]
    /\ passed' = [passed EXCEPT ![o] = @ \cup {s}]
    /\ UNCHANGED <<session, manager, live>>

--------------------------------------------------------------------------------
(* Screens: endpoints/kds.py                                                  *)

ConnectScreen(c) ==
    /\ pc[c] = "closed"
    /\ Goto(c, "open")
    /\ live' = live \cup {c}
    /\ UNCHANGED <<database, lock, job, path, manager>>

(* However it ends, the exception is swallowed, disconnect runs and get_db    *)
(* commits.                                                                   *)
CloseScreen(c) ==
    /\ CommitSession(c)
    /\ EndSession(c, "closed")
    /\ live' = live \ {c}

LeaveScreen(c) ==
    /\ pc[c] = "open"
    /\ CloseScreen(c)
    /\ UNCHANGED manager

(* Mutant of ScreenMoves: the status is set without asking the state machine. *)
ScreenMovesUnchecked(c, o, new) ==
    /\ pc[c] = "open"
    /\ Exists(o)
    /\ BeginUpdate(c, o, new)
    /\ UNCHANGED <<database, live, manager>>

(* start_preparing, order_ready and bump go through OrderService; a refusal   *)
(* ends the connection.                                                       *)
ScreenMoves(c, o, new) ==
    /\ pc[c] = "open"
    /\ Exists(o)
    /\ IF CanTransition(Selected(c, o), new)
       THEN /\ BeginUpdate(c, o, new)
            /\ UNCHANGED <<database, live>>
       ELSE CloseScreen(c)
    /\ UNCHANGED manager

(* broadcast_to_merchant tells every screen in turn.                          *)
TellScreens(c) ==
    /\ c \in Screen
    /\ pc[c] = "announce"
    /\ Tell(live, job[c].order, job[c].new)
    /\ Goto(c, "open")
    /\ job' = [job EXCEPT ![c] = NoJob]
    /\ UNCHANGED <<database, lock, path, manager, live>>

(* The set it goes through changed size under it: only some were told, and    *)
(* the RuntimeError ends the connection of the one that tells.                *)
TellSomeScreens(c, reached) ==
    /\ c \in Screen
    /\ pc[c] = "announce"
    /\ Screen # {c}
    /\ Tell(reached, job[c].order, job[c].new)
    /\ CloseScreen(c)
    /\ UNCHANGED manager

--------------------------------------------------------------------------------
(* Sockets and requests of phase 9                                            *)

(* A display that names a branch listens where no order is announced: nothing *)
(* sets Order.branch_id.                                                      *)
Home(kind) ==
    CASE kind = "display"        -> {"kds"}
      [] kind = "branch_display" -> {"kds_branch"}
      [] kind = "driver"         -> {"driver", "fleet"}
      [] kind = "merchant"       -> {"merchant", "fleet"}
      [] kind = "customer"       -> {"order"}

Connect(c, kind, point) ==
    /\ pc[c] = "closed"
    /\ Register(c, Home(kind))
    /\ Goto(c, point)
    /\ UNCHANGED <<database, lock, job, path, live>>

(* A display is sent its statistics before the try: until then it is          *)
(* registered and outside any handler that would unregister it.               *)
KdsWebsocket(c) == \E kind \in {"display", "branch_display"} : Connect(c, kind, "setup")

DriverWebsocket(c) == Connect(c, "driver", "open")

MerchantWebsocket(c) == Connect(c, "merchant", "open")

(* The customer's first message always raises: the order has no number, or    *)
(* the message holds ids and times that json.dumps refuses.                   *)
CustomerWebsocket(c) == Connect(c, "customer", "leaked")

(* A merchant_id that is no id, a client that is gone, a database that is not *)
(* there: the exception leaves the registration behind.                       *)
SetUp(c, point) ==
    /\ pc[c] = "setup"
    /\ point \in {"open", "leaked"}
    /\ Goto(c, point)
    /\ UNCHANGED <<database, lock, job, path, manager, live>>

MessageSubscribe(c, r) ==
    /\ pc[c] = "open"
    /\ Subscribe(c, r)
    /\ UNCHANGED <<database, session, live>>

MessageUnsubscribe(c, r) ==
    /\ pc[c] = "open"
    /\ Unsubscribe(c, r)
    /\ UNCHANGED <<database, session, live>>

(* The client goes, or a message is malformed.                                *)
LeaveSocket(c) ==
    /\ pc[c] = "open"
    /\ Unregister(c)
    /\ EndSession(c, "closed")
    /\ UNCHANGED <<database, live>>

(* A socket takes updates when it is open, a request is one.                  *)
Ready(c) == pc[c] = IF c \in Socket THEN "open" ELSE "closed"

(* bump_order looks at no status.                                             *)
BumpOrder(c, o) ==
    /\ Ready(c)
    /\ Exists(o)
    /\ BeginUpdate(c, o, "SERVED")
    /\ UNCHANGED <<database, manager, live>>

UpdateOrderStatus(c, o, k) ==
    /\ Ready(c)
    /\ Exists(o)
    /\ BeginUpdate(c, o, Requested(k, Selected(c, o)))
    /\ UNCHANGED <<database, manager, live>>

(* An exception: rolled back, and a socket is unregistered.                   *)
Abandon(c) ==
    /\ EndSession(c, "closed")
    /\ UNCHANGED database
    /\ IF c \in Socket THEN Unregister(c) ELSE UNCHANGED manager

(* Mutant of TellRoom: the room is told before the order is converted.        *)
TellRoomFirst(c) ==
    /\ c \notin Screen
    /\ pc[c] = "announce"
    /\ IF Convertible(job[c].order)
       THEN /\ Goto(c, "finish")
            /\ UNCHANGED <<database, lock, job, path, manager>>
       ELSE /\ EndSession(c, "closed")
            /\ UNCHANGED <<database, manager>>
    /\ Tell({d \in Reached("kds") : pc[d] # "leaked"}, job[c].order, job[c].new)
    /\ UNCHANGED live

(* After the flush the order is converted and the room told.                  *)
TellRoom(c) ==
    /\ c \notin Screen
    /\ pc[c] = "announce"
    /\ IF Convertible(job[c].order)
       THEN /\ Tell({d \in Reached("kds") : pc[d] # "leaked"}, job[c].order, job[c].new)
            /\ Goto(c, "finish")
            /\ UNCHANGED <<database, lock, job, path, manager>>
       ELSE /\ Abandon(c)
            /\ told' = {}
    /\ UNCHANGED live

(* The request commits.                                                       *)
FinishRequest(c) ==
    /\ c \in Request
    /\ pc[c] = "finish"
    /\ CommitSession(c)
    /\ EndSession(c, "closed")
    /\ UNCHANGED <<manager, live>>

(* The answer to a socket holds ids and times: json.dumps raises.             *)
ReplyFails(c) ==
    /\ c \in Socket
    /\ pc[c] = "finish"
    /\ Abandon(c)
    /\ UNCHANGED live

(* GET /ws/kds/orders, one order without a number fails the whole list.       *)
GetKdsOrders(c, words) ==
    LET orders == GetActiveOrders(words) IN
    /\ pc[c] = "open"
    /\ \A o \in orders : Convertible(o)
    /\ told' = {[display |-> c, order |-> o, status |-> KdsStatus(status[o])] : o \in orders}
    /\ UNCHANGED <<database, session, manager, live>>

--------------------------------------------------------------------------------
(* Failures                                                                   *)

WaitsFor(c, d) == /\ c # d
                  /\ pc[c] = "update"
                  /\ lock[job[c].order] = d

(* The database fails the session: nothing of it is kept.                     *)
Break(c) ==
    /\ EndSession(c, "closed")
    /\ UNCHANGED database
    /\ live' = live \ {c}
    /\ IF c \in Socket THEN Unregister(c) ELSE UNCHANGED manager

DeadlockVictim(c) ==
    /\ \E d \in Client : WaitsFor(c, d) /\ WaitsFor(d, c)
    /\ Break(c)

DatabaseError(c) ==
    /\ pc[c] \notin {"closed", "leaked", "setup"}
    /\ Break(c)

(* The process ends with everything it holds in memory.                       *)
Restart ==
    /\ pc' = [c \in Client |-> "closed"]
    /\ job' = [c \in Client |-> NoJob]
    /\ path' = [c \in Client |-> [o \in Order |-> <<>>]]
    /\ lock' = [o \in Order |-> None]
    /\ live' = {}
    /\ registered' = {}
    /\ rooms' = [r \in Room |-> {}]
    /\ subscribed' = [c \in Socket |-> {}]
    /\ UNCHANGED database

--------------------------------------------------------------------------------
Orders ==
    \E o \in Order : PlaceOrder(o) \/ \E s \in OtherStatuses : OthersMove(o, s)

Screens ==
    \E c \in Screen :
        \/ ConnectScreen(c)
        \/ LeaveScreen(c)
        \/ \E o \in Order, new \in {"PREPARING", "READY", "SERVED"} :
               ScreenMoves(c, o, new)

Sockets ==
    \E c \in Socket :
        \/ KdsWebsocket(c)
        \/ DriverWebsocket(c)
        \/ MerchantWebsocket(c)
        \/ CustomerWebsocket(c)
        \/ \E point \in {"open", "leaked"} : SetUp(c, point)
        \/ \E r \in AskedRooms : MessageSubscribe(c, r) \/ MessageUnsubscribe(c, r)
        \/ LeaveSocket(c)
        \/ ReplyFails(c)

Updates ==
    \E c \in Socket \cup Request :
        \/ \E o \in Order :
               \/ BumpOrder(c, o)
               \/ \E k \in KdsOrderStatus : UpdateOrderStatus(c, o, k)
        \/ FinishRequest(c)

Failures ==
    \/ \E c \in Client : DeadlockVictim(c) \/ DatabaseError(c)
    \/ Restart

Telling ==
    \/ \E c \in Client : TellScreens(c) \/ TellRoom(c)
    \/ \E c \in Screen, reached \in SUBSET live : TellSomeScreens(c, reached)
    \/ \E c \in Screen \cup Socket, words \in Filters : GetKdsOrders(c, words)

Silent == Orders \/ Screens \/ Sockets \/ Updates \/ Failures \/ \E c \in Client : Flush(c)

Next == Telling \/ (Silent /\ told' = {})

Spec == Init /\ [][Next]_vars

--------------------------------------------------------------------------------
(* Properties                                                                 *)

(* Displays are told of changes before they are committed, and some never are.*)
(* Still no display is told what never was: it is a status the order has or   *)
(* had in the database, or has in a session that is still open.               *)
ScreensTellTruth ==
    \A m \in told :
        \E s \in passed[m.order] \cup UNION {Given(c, m.order) : c \in Client} :
            m.status = KdsStatus(s)

(* Screens work for hours in one session, on orders that others change too,   *)
(* some without the state machine, and phase 9 writes any status.  Still an   *)
(* order no screen of phase 9 can be told of is brought to PREPARING, READY,  *)
(* SERVED or CANCELLED only if it had a status from which the state machine   *)
(* allows it.                                                                 *)
StagesInOrder ==
    \A o \in Order \ Numbered : \A s \in passed[o] \ (WrittenOver \cup {"PENDING"}) :
        \E p \in passed[o] : CanTransition(p, s)

(* Whatever connections do and however they end, a room holds exactly the     *)
(* registered connections that listen in it, and these are open connections   *)
(* and those whose handler failed before it reached its try (a leak until the *)
(* process ends).                                                             *)
RoomsMatchSockets ==
    /\ \A c \in Socket, r \in Room : c \in rooms[r] <=> r \in subscribed[c]
    /\ \A c \in Socket : subscribed[c] # {} => c \in registered
    /\ \A c \in Socket : c \in registered <=> pc[c] # "closed"
================================================================================
