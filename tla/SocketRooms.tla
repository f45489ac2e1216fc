----------------------------- MODULE SocketRooms -------------------------------
(******************************************************************************)
(* ConnectionManager: the sockets of one server process and the rooms they    *)
(* listen in.  The body of each operation runs under one asyncio lock and     *)
(* awaits nothing, so each is one step, and a list of subscriptions too.      *)
(* There is no state machine here: the modules whose handlers use the manager *)
(* extend this one and take the operators into their own steps.               *)
(******************************************************************************)
CONSTANTS
    Socket,         \* connections, one merchant's
    Room

VARIABLES
    registered,     \* the keys of _connection_merchant and _merchant_connections
    rooms,          \* _rooms: who listens in a room
    subscribed      \* _connection_rooms: where a registered socket listens

manager == <<registered, rooms, subscribed>>

ManagerTypeOK ==
    /\ registered \in SUBSET Socket
    /\ rooms \in [Room -> SUBSET Socket]
    /\ subscribed \in [Socket -> SUBSET Room]

ManagerInit ==
    /\ registered = {}
    /\ rooms = [r \in Room |-> {}]
    /\ subscribed = [c \in Socket |-> {}]

(* connect, and the subscriptions the endpoints make right after it.          *)
Register(c, home) ==
    /\ registered' = registered \cup {c}
    /\ subscribed' = [subscribed EXCEPT ![c] = home]
    /\ rooms' = [r \in Room |-> IF r \in home THEN rooms[r] \cup {c} ELSE rooms[r]]

(* Mutant of Unregister: the rooms keep the connection.                       *)
UnregisterOnly(c) ==
    /\ registered' = registered \ {c}
    /\ subscribed' = [subscribed EXCEPT ![c] = {}]
    /\ UNCHANGED rooms

(* disconnect leaves the rooms the connection is known to listen in.          *)
Unregister(c) ==
    /\ registered' = registered \ {c}
    /\ subscribed' = [subscribed EXCEPT ![c] = {}]
    /\ rooms' = [r \in Room |->
                    IF r \in subscribed[c] THEN rooms[r] \ {c} ELSE rooms[r]]

(* A room takes any connection, registered or not.                            *)
Subscribe(c, r) ==
    /\ rooms' = [rooms EXCEPT ![r] = @ \cup {c}]
    /\ subscribed' = [subscribed EXCEPT ![c] =
                          IF c \in registered THEN @ \cup {r} ELSE @]
    /\ UNCHANGED registered

Unsubscribe(c, r) ==
    /\ rooms' = [rooms EXCEPT ![r] = @ \ {c}]
    /\ subscribed' = [subscribed EXCEPT ![c] = @ \ {r}]
    /\ UNCHANGED registered

(* broadcast_to_room sends to the members of the moment, each of which is     *)
(* looked up once more.                                                       *)
Reached(r) == rooms[r] \cap registered
================================================================================
