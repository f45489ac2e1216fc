---------------------------- MODULE DeliveryProofs ------------------------------
(******************************************************************************)
(* Proofs about Delivery for any number of drivers, orders, assignments and   *)
(* requests at a time, and any number of requests altogether.                 *)
(*                                                                            *)
(* Nothing locks what a request has read, so the invariant says of each       *)
(* session what is still true of its copies when it commits: how much it      *)
(* counts (Shape), and what nobody takes back meanwhile (Stands): reports are *)
(* only added, an assignment keeps its driver, an order once given a driver   *)
(* has one, and who was promised by an assignment is busy as long as nobody   *)
(* released it.                                                               *)
(******************************************************************************)
EXTENDS Delivery, FiniteSetTheorems, TLAPS

RowsTypeOK ==
    /\ driver \in [Driver -> DriverRow]
    /\ assignment \in [Assignment -> AssignmentRow]
    /\ order \in [Order -> OrderRow]
    /\ job \in [Task -> Job]
    /\ sweeping \in SUBSET Driver
    /\ reports \in [Driver -> 0..MaxSessions]
    /\ torn \in SUBSET Driver
    /\ released \in SUBSET Assignment

Creates(j) == j.does \in {"create", "auto"}

Tracks(j) == j.does \in {"assign", "pickup", "deliver"}

Counts(j) == j.does = "report" /\ j.itemNew.status = "delivered"

(* What a session is about to write, as far as it knows yet.                  *)
Shape(j) ==
    /\ j.point = "idle" \/ j.does = "nothing" => j = Idle
    /\ j.does = "status" => j.point = "commit" /\ j.item = None /\ j.order = None
    /\ Creates(j) =>
        /\ j.point \in {"count", "commit"}
        /\ j.driver \in Driver /\ j.order = None
        /\ j.point = "count" => j.item = None /\ j.itemNew.order \in Order
                                /\ j.itemOld = NoAssignment
        /\ j.point = "commit" =>
            /\ j.item \in Assignment /\ j.itemOld = NoAssignment
            /\ j.itemNew.driver = j.driver /\ j.itemNew.order \in Order
            /\ j.itemNew.status = "assigned"
            /\ j.new.status = "busy"
    /\ j.does = "report" =>
        /\ j.point \in {"look", "commit"}
        /\ j.point = "look" => j.itemNew.status \in {"delivered", "cancelled"}
        /\ j.item \in Assignment /\ j.order = None
        /\ j.itemOld.driver \in Driver /\ j.itemOld.status # "absent"
        /\ j.itemNew.driver = j.itemOld.driver
        /\ j.itemNew.status # "absent"
        /\ j.driver = IF j.point = "commit" /\ j.itemNew.status \in {"delivered", "cancelled"}
                      THEN j.itemOld.driver ELSE None
    /\ Tracks(j) =>
        /\ j.point \in {"look", "commit"}
        /\ j.item = None /\ j.order \in Order
        /\ j.orderNew.driver = None => j.orderOld.driver = None /\ j.does # "assign"
    /\ j.point = "commit" /\ j.driver # None =>
        /\ j.new.deliveries = IF Counts(j) THEN j.old.deliveries + 1 ELSE j.old.deliveries
        /\ j.new.status = "assigned" => j.does = "assign" /\ j.new.order = j.order
        /\ j.new.status # "absent"

(* What it read of others that still stands.                                  *)
Stands(j) ==
    /\ j.driver # None => Employed(j.driver) /\ j.old.deliveries <= reports[j.driver]
    /\ Creates(j) /\ j.item # None => assignment[j.item].status = "absent"
    /\ j.does = "report" =>
        /\ assignment[j.item].status # "absent"
        /\ assignment[j.item].driver = j.itemOld.driver
        /\ j.itemOld.status \in Active /\ j.item \notin released /\ j.itemOld.driver \notin torn =>
               driver[j.itemOld.driver].status = "busy"
    /\ Tracks(j) /\ j.orderOld.driver # None => order[j.order].driver # None

(* An id is for one session.                                                  *)
IdsDiffer ==
    \A t, u \in Task :
        Creates(job[t]) /\ job[t].item # None /\ u # t => job[u].item # job[t].item

AssignmentsInv ==
    \A a \in Assignment : assignment[a].status # "absent" =>
        assignment[a].driver \in Driver /\ Employed(assignment[a].driver)

DriversInv ==
    \A d \in Driver : ~ Employed(d) => driver[d].order = None /\ driver[d].deliveries = 0

Sessions == {t \in Task : job[t] # Idle}

(* A session that is open has not been counted yet.                           *)
CountInv ==
    /\ sessions \in 0..MaxSessions
    /\ IsFiniteSet(Sessions)
    /\ \A d \in Driver : reports[d] + Cardinality(Sessions) <= sessions

IInv ==
    /\ RowsTypeOK
    /\ CountInv
    /\ AssignmentsInv
    /\ DriversInv
    /\ \A t \in Task : Shape(job[t]) /\ Stands(job[t])
    /\ IdsDiffer
    /\ CountsDeliveries
    /\ CarriersAreBusy
    /\ AssignedKnowsOrder

--------------------------------------------------------------------------------
(* Rows                                                                       *)

(* A merged row has of each column the value written if that was changed.     *)
LEMMA MergedDriver ==
    ASSUME NEW row \in DriverRow, NEW old \in DriverRow, NEW new \in DriverRow
    PROVE  /\ Merge(row, old, new) \in DriverRow
           /\ Merge(row, old, new).status = IF new.status = old.status THEN row.status ELSE new.status
           /\ Merge(row, old, new).order = IF new.order = old.order THEN row.order ELSE new.order
           /\ Merge(row, old, new).deliveries =
                  IF new.deliveries = old.deliveries THEN row.deliveries ELSE new.deliveries
BY DEF Merge, DriverRow

(* The same of assignments.                                                   *)
LEMMA MergedAssignment ==
    ASSUME NEW row \in AssignmentRow, NEW old \in AssignmentRow, NEW new \in AssignmentRow
    PROVE  /\ Merge(row, old, new) \in AssignmentRow
           /\ Merge(row, old, new).status = IF new.status = old.status THEN row.status ELSE new.status
           /\ Merge(row, old, new).driver = IF new.driver = old.driver THEN row.driver ELSE new.driver
BY DEF Merge, AssignmentRow

(* And of orders.                                                             *)
LEMMA MergedOrder ==
    ASSUME NEW row \in OrderRow, NEW old \in OrderRow, NEW new \in OrderRow
    PROVE  /\ Merge(row, old, new) \in OrderRow
           /\ Merge(row, old, new).driver = IF new.driver = old.driver THEN row.driver ELSE new.driver
BY DEF Merge, OrderRow

(* The session of a request that has not begun.                               *)
LEMMA IdleIsJob ==
    /\ Idle \in Job
    /\ Idle.item = None /\ Idle.driver = None /\ Idle.order = None
    /\ Idle.does = "nothing" /\ Idle.point = "idle"
    /\ Shape(Idle)
    /\ Stands(Idle)
<1>1. NoDriver \in DriverRow /\ NoAssignment \in AssignmentRow /\ NoOrder \in OrderRow
  BY DeliveryAssumption DEF NoDriver, NoAssignment, NoOrder, DriverRow, AssignmentRow, OrderRow,
     StoredStatus
<1>2. Idle \in Job
  BY <1>1 DEF Idle, Job
<1>3. /\ Idle.item = None /\ Idle.driver = None /\ Idle.order = None
      /\ Idle.does = "nothing" /\ Idle.point = "idle"
  BY DEF Idle
<1>4. Shape(Idle)
  BY <1>3 DEF Shape, Creates, Tracks
<1>5. Stands(Idle)
  BY <1>3 DEF Stands, Creates, Tracks
<1> QED
  BY <1>2, <1>3, <1>4, <1>5

(* What a session reads of a driver, but for his place.                       *)
LEMMA PlacelessRow ==
    ASSUME RowsTypeOK, NEW d \in Driver
    PROVE  /\ Placeless(d) \in DriverRow
           /\ Placeless(d).status = driver[d].status
           /\ Placeless(d).order = driver[d].order
           /\ Placeless(d).deliveries = driver[d].deliveries
BY DEF RowsTypeOK, DriverRow, Placeless

(* Sessions are counted as they open and close.                               *)
LEMMA CountSessions ==
    ASSUME IInv, NEW t \in Task, NEW j, job' = [job EXCEPT ![t] = j]
    PROVE  /\ job[t] = Idle /\ j # Idle =>
               IsFiniteSet(Sessions') /\ Cardinality(Sessions') = Cardinality(Sessions) + 1
           /\ job[t] # Idle /\ j # Idle =>
               IsFiniteSet(Sessions') /\ Cardinality(Sessions') = Cardinality(Sessions)
           /\ job[t] # Idle /\ j = Idle =>
               IsFiniteSet(Sessions') /\ Cardinality(Sessions') = Cardinality(Sessions) - 1
           /\ Cardinality(Sessions) \in Nat /\ Cardinality(Sessions') \in Nat
           /\ job[t] # Idle => Cardinality(Sessions) >= 1
<1>1. IsFiniteSet(Sessions) /\ Cardinality(Sessions) \in Nat
  BY FS_CardinalityType DEF IInv, CountInv
<1>2. \A u \in Task : job'[u] = IF u = t THEN j ELSE job[u]
  BY DEF IInv, RowsTypeOK
<1>3. CASE job[t] = Idle /\ j # Idle
  <2>1. Sessions' = Sessions \cup {t} /\ t \notin Sessions
    BY <1>2, <1>3 DEF Sessions
  <2>2. /\ IsFiniteSet(Sessions \cup {t})
        /\ Cardinality(Sessions \cup {t}) = Cardinality(Sessions) + 1
    BY <1>1, <2>1, FS_AddElement
  <2> QED
    BY <1>1, <1>3, <2>1, <2>2
<1>4. CASE job[t] # Idle /\ j # Idle
  <2>1. Sessions' = Sessions
    BY <1>2, <1>4 DEF Sessions
  <2>2. t \in Sessions
    BY <1>4 DEF Sessions
  <2>3. Cardinality(Sessions) # 0
    BY <1>1, <2>2, FS_EmptySet
  <2> QED
    BY <1>1, <1>4, <2>1, <2>3
<1>5. CASE job[t] # Idle /\ j = Idle
  <2>1. Sessions' = Sessions \ {t} /\ t \in Sessions
    BY <1>2, <1>5 DEF Sessions
  <2>2. Cardinality(Sessions) # 0
    BY <1>1, <2>1, FS_EmptySet
  <2> QED
    BY <1>1, <1>5, <2>1, <2>2, FS_RemoveElement
<1>6. CASE job[t] = Idle /\ j = Idle
  <2>1. Sessions' = Sessions
    BY <1>2, <1>6 DEF Sessions
  <2> QED
    BY <1>1, <1>6, <2>1
<1> QED
  BY <1>3, <1>4, <1>5, <1>6

--------------------------------------------------------------------------------
(* Sessions                                                                   *)

(* A step of a session that writes no row: what it has read now must stand.   *)
LEMMA SessionStep ==
    ASSUME IInv, NEW t \in Task, NEW j \in Job, job' = [job EXCEPT ![t] = j],
           UNCHANGED <<driver, assignment, order, sweeping, reports, torn, released>>,
           CountInv', Shape(j), Stands(j),
           Creates(j) /\ j.item # None => \A u \in Task \ {t} : job[u].item # j.item,
           \A u \in Task \ {t} :
               Creates(job[u]) /\ job[u].item # None => j.item # job[u].item
    PROVE  IInv'
<1>1. \A u \in Task : job'[u] = IF u = t THEN j ELSE job[u]
  BY DEF IInv, RowsTypeOK
<1>2. RowsTypeOK'
  BY DEF IInv, RowsTypeOK
<1>3. \A u \in Task : Shape(job[u])' /\ Stands(job[u])'
  <2>1. ASSUME NEW u \in Task, NEW k, job'[u] = k, Shape(k), Stands(k)
        PROVE  Shape(job[u])' /\ Stands(job[u])'
    BY <2>1 DEF Shape, Stands, Creates, Tracks, Counts, Employed
  <2>2. \A u \in Task : Shape(job[u]) /\ Stands(job[u])
    BY DEF IInv
  <2> QED
    BY <1>1, <2>1, <2>2
<1>4. IdsDiffer'
  BY <1>1 DEF IInv, IdsDiffer, Creates
<1>5. (AssignmentsInv /\ DriversInv /\ CountsDeliveries /\ CarriersAreBusy /\ AssignedKnowsOrder)'
  BY DEF IInv, AssignmentsInv, DriversInv, Employed, CountsDeliveries, CarriersAreBusy, AssignedKnowsOrder
<1> QED
  BY <1>2, <1>3, <1>4, <1>5 DEF IInv

(* A request that begins.                                                     *)
LEMMA BeginKeeps ==
    ASSUME IInv, NEW t \in Task, NEW j \in Job, Begin(t, j),
           Shape(j), Stands(j), j.point # "idle",
           \/ j.item = None
           \/ Creates(j) /\ Fresh(j.item)
           \/ j.item \in Assignment /\ ~ Creates(j) /\ assignment[j.item].status # "absent"
    PROVE  IInv'
<1>1. /\ job' = [job EXCEPT ![t] = j] /\ job[t] = Idle
      /\ sessions < MaxSessions /\ sessions' = sessions + 1
      /\ UNCHANGED <<driver, assignment, order, sweeping, reports, torn, released>>
  BY DEF Begin
<1>2. j # Idle
  BY IdleIsJob
<1>3. CountInv'
  <2>1. sessions' \in 0..MaxSessions
    BY <1>1, DeliveryAssumption DEF IInv, CountInv
  <2>2. IsFiniteSet(Sessions') /\ Cardinality(Sessions') = Cardinality(Sessions) + 1
    BY <1>1, <1>2, CountSessions
  <2>3. Cardinality(Sessions) \in Nat
    BY <1>1, CountSessions
  <2>4. \A d \in Driver : reports'[d] + Cardinality(Sessions') <= sessions'
    BY <1>1, <2>2, <2>3 DEF IInv, CountInv, RowsTypeOK
  <2> QED
    BY <2>1, <2>2, <2>4 DEF CountInv
<1>4. Creates(j) /\ j.item # None => \A u \in Task \ {t} : job[u].item # j.item
  BY DEF Fresh
<1>5. \A u \in Task \ {t} : Creates(job[u]) /\ job[u].item # None => j.item # job[u].item
  BY DEF Fresh, IInv, Stands
<1> QED
  BY <1>1, <1>3, <1>4, <1>5, SessionStep

(* A request that reads on.                                                   *)
LEMMA ContinueKeeps ==
    ASSUME IInv, NEW t \in Task, NEW j \in Job, Continue(t, j), job[t] # Idle,
           Shape(j), Stands(j),
           \/ j.item = None
           \/ Creates(j) /\ Fresh(j.item)
           \/ j.item = job[t].item /\ ~ Creates(j)
    PROVE  IInv'
<1>1. /\ job' = [job EXCEPT ![t] = j]
      /\ UNCHANGED <<driver, assignment, order, sessions, sweeping, reports, torn, released>>
  BY DEF Continue
<1>2. CountInv'
  <2>1. /\ IsFiniteSet(Sessions')
        /\ Cardinality(Sessions') <= Cardinality(Sessions)
        /\ Cardinality(Sessions) \in Nat /\ Cardinality(Sessions') \in Nat
    <3>1. /\ IsFiniteSet(Sessions')
          /\ \/ Cardinality(Sessions') = Cardinality(Sessions)
             \/ Cardinality(Sessions') = Cardinality(Sessions) - 1
          /\ Cardinality(Sessions) \in Nat /\ Cardinality(Sessions') \in Nat
      BY <1>1, CountSessions
    <3> QED
      BY <3>1
  <2>2. \A d \in Driver : reports'[d] + Cardinality(Sessions') <= sessions'
    BY <1>1, <2>1, DeliveryAssumption DEF IInv, CountInv, RowsTypeOK
  <2> QED
    BY <1>1, <2>1, <2>2 DEF IInv, CountInv
<1>3. Creates(j) /\ j.item # None => \A u \in Task \ {t} : job[u].item # j.item
  BY DEF Fresh
<1>4. \A u \in Task \ {t} : Creates(job[u]) /\ job[u].item # None => j.item # job[u].item
  BY DEF Fresh, IInv, IdsDiffer
<1> QED
  BY <1>1, <1>2, <1>3, <1>4, SessionStep

(* One that fails.                                                            *)
LEMMA AbortKeeps == \A t \in Task : IInv /\ (Abort(t) \/ NoSuitableDriver(t)) => IInv'
<1> SUFFICES ASSUME NEW t \in Task, IInv, Abort(t) \/ NoSuitableDriver(t)
             PROVE  IInv'
  OBVIOUS
<1>1. job[t] # Idle /\ Continue(t, Idle)
  BY IdleIsJob DEF Abort, NoSuitableDriver
<1> QED
  BY <1>1, ContinueKeeps, IdleIsJob

(* A session that has read the driver and knows what it will write.           *)
LEMMA WithDriverIs ==
    ASSUME RowsTypeOK, NEW j \in Job, NEW d \in Driver, NEW new \in DriverRow
    PROVE  /\ WithDriver(j, d, new) \in Job
           /\ WithDriver(j, d, new).does = j.does
           /\ WithDriver(j, d, new).point = "commit"
           /\ WithDriver(j, d, new).driver = d
           /\ WithDriver(j, d, new).old = Placeless(d)
           /\ WithDriver(j, d, new).new = new
           /\ WithDriver(j, d, new).item = j.item
           /\ WithDriver(j, d, new).itemOld = j.itemOld
           /\ WithDriver(j, d, new).itemNew = j.itemNew
           /\ WithDriver(j, d, new).order = j.order
           /\ WithDriver(j, d, new).orderOld = j.orderOld
           /\ WithDriver(j, d, new).orderNew = j.orderNew
<1>1. Placeless(d) \in DriverRow
  BY PlacelessRow
<1>2. j \in [does : {"nothing", "status", "create", "auto", "report", "assign", "pickup", "deliver"},
             point : {"idle", "count", "look", "commit"},
             driver : Driver \cup {None}, old : DriverRow, new : DriverRow,
             item : Assignment \cup {None}, itemOld : AssignmentRow, itemNew : AssignmentRow,
             order : Order \cup {None}, orderOld : OrderRow, orderNew : OrderRow]
  BY DEF Job
<1> QED
  BY <1>1, <1>2 DEF WithDriver, Job

(* It stands that a driver has as many deliveries reported as he is read with.*)
LEMMA ReadsStand ==
    ASSUME IInv, NEW d \in Driver
    PROVE  Placeless(d).deliveries <= reports[d]
BY PlacelessRow DEF IInv, CountsDeliveries

(* update_driver and update_status.                                           *)
LEMMA UpdateStatusKeeps ==
    ASSUME IInv, NEW t \in Task, NEW d \in Driver, NEW s \in StaffStatuses, UpdateStatus(t, d, s)
    PROVE  IInv'
<1> DEFINE idle == [Idle EXCEPT !.does = "status"]
           new == [Placeless(d) EXCEPT !.status = s]
           j == WithDriver(idle, d, new)
<1>1. RowsTypeOK /\ Begin(t, j) /\ Employed(d)
  BY DEF UpdateStatus, IInv
<1>2. /\ Placeless(d) \in DriverRow
      /\ s \in StoredStatus
  BY <1>1, PlacelessRow, DeliveryAssumption DEF StoredStatus
<1>3. new \in DriverRow /\ new.status = s /\ new.deliveries = Placeless(d).deliveries
  BY <1>2 DEF DriverRow
<1>4. /\ idle \in Job /\ idle.does = "status" /\ idle.item = None /\ idle.order = None
  BY IdleIsJob DEF Job
<1> HIDE DEF idle, new
<1>5. /\ j \in Job /\ j.does = "status" /\ j.point = "commit" /\ j.driver = d
      /\ j.old = Placeless(d) /\ j.new = new /\ j.item = None /\ j.order = None
  BY <1>1, <1>3, <1>4, WithDriverIs
<1>6. s # "assigned" /\ s # "absent"
  BY DeliveryAssumption DEF DeliveryDriverStatus
<1> HIDE DEF j
<1>7. Shape(j) /\ Stands(j)
  BY <1>1, <1>3, <1>5, <1>6, ReadsStand DEF Shape, Stands, Creates, Tracks, Counts
<1> QED
  BY <1>1, <1>5, <1>7, BeginKeeps

(* What create_assignment leaves for the commit.                              *)
LEMMA NewAssignmentIs ==
    ASSUME NEW j \in Job, NEW a \in Assignment, NEW o \in Order, NEW d \in Driver,
           NEW row \in DriverRow
    PROVE  LET k == NewAssignment(j, a, o, d, row) IN
           /\ k \in Job
           /\ k.does = j.does /\ k.point = "commit" /\ k.driver = d /\ k.old = row
           /\ k.new.status = "busy" /\ k.new.deliveries = row.deliveries
           /\ k.item = a /\ k.itemOld = j.itemOld
           /\ k.itemNew.driver = d /\ k.itemNew.order = o /\ k.itemNew.status = "assigned"
           /\ k.order = j.order
<1> DEFINE new == [row EXCEPT !.status = "busy"]
           item == [order |-> o, driver |-> d, status |-> "assigned"]
           k == [j EXCEPT !.item = a, !.itemNew = item, !.driver = d, !.old = row,
                          !.new = new, !.point = "commit"]
<1>1. new \in DriverRow /\ new.status = "busy" /\ new.deliveries = row.deliveries
  BY DEF DriverRow, StoredStatus, DeliveryDriverStatus
<1>2. /\ item \in AssignmentRow
      /\ item.driver = d /\ item.order = o /\ item.status = "assigned"
  BY DEF AssignmentRow, DeliveryStatus
<1>3. NewAssignment(j, a, o, d, row) = k
  BY DEF NewAssignment
<1> HIDE DEF new, item
<1>4. /\ k \in Job
      /\ k.does = j.does /\ k.point = "commit" /\ k.driver = d /\ k.old = row
      /\ k.new = new /\ k.item = a /\ k.itemOld = j.itemOld /\ k.itemNew = item
      /\ k.order = j.order
  BY <1>1, <1>2 DEF Job
<1> QED
  BY <1>1, <1>2, <1>3, <1>4

(* Such a session stands if the id is free.                                   *)
LEMMA NewAssignmentStands ==
    ASSUME IInv, NEW j \in Job, NEW a \in Assignment, NEW d \in Driver, Fresh(a), Employed(d),
           Creates(j), j.point = "commit", j.driver = d, j.item = a,
           j.itemOld = NoAssignment, j.itemNew.driver = d, j.itemNew.order \in Order,
           j.itemNew.status = "assigned", j.order = None, j.new.status = "busy",
           j.new.deliveries = j.old.deliveries, j.old.deliveries <= reports[d]
    PROVE  Shape(j) /\ Stands(j)
<1>1. j.does # "report" /\ ~ Tracks(j) /\ j.does # "nothing" /\ j.does # "status"
  BY DEF Creates, Tracks
<1>2. Shape(j)
  BY <1>1 DEF Shape, Counts
<1>3. Stands(j)
  BY <1>1 DEF Stands, Fresh
<1> QED
  BY <1>2, <1>3

(* The endpoint.                                                              *)
LEMMA CreateAssignmentKeeps ==
    ASSUME IInv, NEW t \in Task, NEW a \in Assignment, NEW o \in Order, NEW d \in Driver,
           CreateAssignment(t, a, o, d)
    PROVE  IInv'
<1> DEFINE idle == [Idle EXCEPT !.does = "create"]
           j == NewAssignment(idle, a, o, d, Placeless(d))
<1>1. RowsTypeOK /\ Begin(t, j) /\ Fresh(a) /\ Employed(d)
  BY DEF CreateAssignment, IInv
<1>2. /\ idle \in Job /\ idle.does = "create" /\ idle.order = None
      /\ idle.itemOld = NoAssignment
  BY IdleIsJob DEF Job, Idle
<1> HIDE DEF idle
<1>3. /\ j \in Job
      /\ j.does = "create" /\ j.point = "commit" /\ j.driver = d /\ j.old = Placeless(d)
      /\ j.new.status = "busy" /\ j.new.deliveries = Placeless(d).deliveries
      /\ j.item = a /\ j.itemOld = NoAssignment
      /\ j.itemNew.driver = d /\ j.itemNew.order = o /\ j.itemNew.status = "assigned"
      /\ j.order = None
  BY <1>1, <1>2, NewAssignmentIs, PlacelessRow
<1> HIDE DEF j
<1>4. Creates(j)
  BY <1>3 DEF Creates
<1>5. Shape(j) /\ Stands(j)
  BY <1>1, <1>3, <1>4, ReadsStand, NewAssignmentStands
<1> QED
  BY <1>1, <1>3, <1>4, <1>5, BeginKeeps

(* auto_assign has its drivers before it counts what they carry.              *)
LEMMA AutoAssignKeeps ==
    ASSUME IInv, NEW t \in Task, NEW o \in Order, NEW d \in Driver, AutoAssign(t, o, d)
    PROVE  IInv'
<1> DEFINE item == [NoAssignment EXCEPT !.order = o]
           j == [Idle EXCEPT !.does = "auto", !.point = "count", !.driver = d,
                             !.old = Placeless(d), !.itemNew = item]
<1>1. RowsTypeOK /\ Begin(t, j) /\ Employed(d)
  BY DEF AutoAssign, IInv, Employed
<1>2. item \in AssignmentRow /\ item.order = o
  BY DEF NoAssignment, AssignmentRow
<1>3. Placeless(d) \in DriverRow
  BY <1>1, PlacelessRow
<1> HIDE DEF item
<1>4. /\ j \in Job /\ j.does = "auto" /\ j.point = "count" /\ j.driver = d
      /\ j.old = Placeless(d) /\ j.itemNew = item
      /\ j.item = None /\ j.order = None /\ j.itemOld = NoAssignment
  BY <1>2, <1>3, IdleIsJob DEF Job, Idle
<1> HIDE DEF j
<1>5. Shape(j) /\ Stands(j)
  BY <1>1, <1>2, <1>4, ReadsStand DEF Shape, Stands, Creates, Tracks, Counts
<1> QED
  BY <1>1, <1>4, <1>5, BeginKeeps

(* It chooses one.                                                            *)
LEMMA AutoChooseKeeps ==
    ASSUME IInv, NEW t \in Task, NEW a \in Assignment, AutoChoose(t, a)
    PROVE  IInv'
<1> DEFINE i == job[t]
           j == NewAssignment(i, a, i.itemNew.order, i.driver, i.old)
<1>1. i.point = "count" /\ Fresh(a) /\ Continue(t, j)
  BY DEF AutoChoose
<1>2. i \in Job /\ Shape(i) /\ Stands(i)
  BY DEF IInv, RowsTypeOK
<1> HIDE DEF i
<1>3. Creates(i)
  <2>1. i.does \in {"nothing", "status", "create", "auto", "report", "assign", "pickup", "deliver"}
    BY <1>2 DEF Job
  <2>2. i.does # "nothing" /\ i.does # "status"
    BY <1>1, <1>2, IdleIsJob DEF Shape
  <2> QED
    BY <1>1, <1>2, <2>1, <2>2 DEF Shape, Creates, Tracks
<1>4. /\ i.driver \in Driver /\ i.itemNew.order \in Order /\ i.order = None
      /\ i.itemOld = NoAssignment /\ i.old \in DriverRow
      /\ i.old.deliveries <= reports[i.driver] /\ Employed(i.driver)
  BY <1>1, <1>2, <1>3, DeliveryAssumption DEF Shape, Stands, Job
<1>5. /\ j \in Job
      /\ j.does = i.does /\ j.point = "commit" /\ j.driver = i.driver /\ j.old = i.old
      /\ j.new.status = "busy" /\ j.new.deliveries = i.old.deliveries
      /\ j.item = a /\ j.itemOld = NoAssignment
      /\ j.itemNew.driver = i.driver /\ j.itemNew.order = i.itemNew.order
      /\ j.itemNew.status = "assigned" /\ j.order = None
  BY <1>2, <1>4, NewAssignmentIs
<1> HIDE DEF j
<1>6. Creates(j) /\ job[t] # Idle
  BY <1>1, <1>3, <1>5, IdleIsJob DEF Creates, i
<1>7. Shape(j) /\ Stands(j)
  BY <1>1, <1>4, <1>5, <1>6, NewAssignmentStands
<1> QED
  BY <1>1, <1>5, <1>6, <1>7, ContinueKeeps

(* A report of a delivery.                                                    *)
LEMMA ReportKeeps ==
    ASSUME IInv, NEW t \in Task, NEW a \in Assignment, NEW s \in Reported, Report(t, a, s)
    PROVE  IInv'
<1> DEFINE row == assignment[a]
           new == [row EXCEPT !.status = s]
           point == IF s \in {"delivered", "cancelled"} THEN "look" ELSE "commit"
           j == [Idle EXCEPT !.does = "report", !.item = a, !.itemOld = row,
                             !.itemNew = new, !.point = point]
<1>1. row.status # "absent" /\ Begin(t, j) /\ row \in AssignmentRow
  BY DEF Report, IInv, RowsTypeOK
<1>2. row.driver \in Driver
  BY <1>1 DEF IInv, AssignmentsInv
<1>3. s \in DeliveryStatus /\ s # "absent"
  BY DeliveryAssumption DEF DeliveryStatus
<1>4. new \in AssignmentRow /\ new.status = s /\ new.driver = row.driver
  BY <1>1, <1>3 DEF AssignmentRow
<1>5. point \in {"look", "commit"} /\ (point = "look" <=> s \in {"delivered", "cancelled"})
  OBVIOUS
<1>6. row.status \in Active /\ a \notin released /\ row.driver \notin torn =>
          driver[row.driver].status = "busy"
  BY DEF IInv, CarriersAreBusy
<1> HIDE DEF new, point
<1>7. /\ j \in Job /\ j.does = "report" /\ j.point = point /\ j.driver = None
      /\ j.item = a /\ j.itemOld = row /\ j.itemNew = new /\ j.order = None
  BY <1>1, <1>4, <1>5, IdleIsJob DEF Job, Idle
<1> HIDE DEF j
<1>8. Shape(j)
  BY <1>1, <1>2, <1>3, <1>4, <1>5, <1>7 DEF Shape, Creates, Tracks
<1>9. Stands(j)
  BY <1>1, <1>6, <1>7 DEF Stands, Creates, Tracks
<1>10. ~ Creates(j)
  BY <1>7 DEF Creates
<1> QED
  BY <1>1, <1>5, <1>7, <1>8, <1>9, <1>10, BeginKeeps

(* An open session has still to be counted.                                   *)
LEMMA RoomToCount ==
    ASSUME IInv, NEW t \in Task, job[t] # Idle, NEW d \in Driver
    PROVE  reports[d] \in Nat /\ reports[d] + 1 <= MaxSessions
<1>1. Sessions # {} /\ IsFiniteSet(Sessions)
  BY DEF Sessions, IInv, CountInv
<1>2. Cardinality(Sessions) \in Nat /\ Cardinality(Sessions) # 0
  BY <1>1, FS_CardinalityType, FS_EmptySet
<1>3. reports[d] \in Nat /\ sessions \in 0..MaxSessions
  BY DeliveryAssumption DEF IInv, CountInv, RowsTypeOK
<1>4. reports[d] + Cardinality(Sessions) <= sessions
  BY DEF IInv, CountInv
<1> QED
  BY <1>2, <1>3, <1>4, DeliveryAssumption

(* The report of one that is over reads the driver.                           *)
LEMMA ReportLooksKeeps ==
    ASSUME IInv, NEW t \in Task, ReportLooks(t)
    PROVE  IInv'
<1> DEFINE i == job[t]
           d == i.itemNew.driver
           new == Finished(Placeless(d), i.itemNew.status)
           j == WithDriver(i, d, new)
<1>1. i.point = "look" /\ i.does = "report" /\ Continue(t, j)
  BY DEF ReportLooks
<1>2. RowsTypeOK /\ i \in Job /\ Shape(i) /\ Stands(i)
  BY DEF IInv, RowsTypeOK
<1>3. i.point # "idle" /\ job[t] # Idle
  BY <1>1, IdleIsJob
<1> HIDE DEF i
<1>4. /\ i.item \in Assignment /\ i.order = None
      /\ i.itemOld.driver \in Driver /\ i.itemOld.status # "absent"
      /\ i.itemNew.driver = i.itemOld.driver
      /\ i.itemNew.status # "absent"
  BY <1>1, <1>2 DEF Shape
<1>5. d \in Driver /\ Placeless(d) \in DriverRow /\ Placeless(d).deliveries <= reports[d]
      /\ Employed(d)
  <2>1. assignment[i.item].driver = d /\ assignment[i.item].status # "absent"
    BY <1>1, <1>2, <1>4 DEF Stands
  <2>2. Employed(d)
    BY <1>4, <2>1 DEF IInv, AssignmentsInv
  <2> QED
    BY <1>2, <1>4, <2>2, PlacelessRow, ReadsStand
<1>6. /\ i.itemNew.status \in {"delivered", "cancelled"}
      /\ Placeless(d).deliveries + 1 \in 0..MaxSessions
  BY <1>1, <1>2, <1>3, <1>5, RoomToCount, DeliveryAssumption DEF Shape, DriverRow
<1>7. /\ new \in DriverRow /\ new.status = "available"
      /\ new.deliveries = IF i.itemNew.status = "delivered" THEN Placeless(d).deliveries + 1
                          ELSE Placeless(d).deliveries
  <2>1. CASE i.itemNew.status = "delivered"
    BY <1>5, <1>6, <2>1 DEF Finished, DriverRow, StoredStatus, DeliveryDriverStatus
  <2>2. CASE i.itemNew.status # "delivered"
    BY <1>5, <1>6, <2>2 DEF Finished, DriverRow, StoredStatus, DeliveryDriverStatus
  <2> QED
    BY <2>1, <2>2
<1> HIDE DEF new, d
<1>8. /\ j \in Job /\ j.does = "report" /\ j.point = "commit" /\ j.driver = d
      /\ j.old = Placeless(d) /\ j.new = new /\ j.item = i.item
      /\ j.itemOld = i.itemOld /\ j.itemNew = i.itemNew /\ j.order = None
  BY <1>1, <1>2, <1>4, <1>5, <1>7, WithDriverIs
<1>9. d = i.itemOld.driver
  BY <1>4 DEF d
<1> HIDE DEF j
<1>10. Shape(j)
  BY <1>4, <1>6, <1>7, <1>8, <1>9 DEF Shape, Creates, Tracks, Counts
<1>11. Stands(j)
  BY <1>1, <1>2, <1>5, <1>8 DEF Stands, Creates, Tracks
<1>12. ~ Creates(j) /\ j.item = job[t].item
  BY <1>8 DEF Creates, i
<1> QED
  BY <1>1, <1>3, <1>8, <1>10, <1>11, <1>12, ContinueKeeps

(* The tracking service reads the order first.                                *)
LEMMA TrackKeeps ==
    ASSUME IInv, NEW t \in Task, NEW what \in {"assign", "pickup", "deliver"},
           NEW o \in Order, NEW new \in OrderRow, Track(t, what, o, new),
           new.driver = None => order[o].driver = None /\ what # "assign"
    PROVE  IInv'
<1> DEFINE row == order[o]
           j == [Idle EXCEPT !.does = what, !.point = "look", !.order = o,
                             !.orderOld = row, !.orderNew = new]
<1>1. Begin(t, j) /\ row \in OrderRow
  BY DEF Track, IInv, RowsTypeOK
<1> HIDE DEF row
<1>2. /\ j \in Job /\ j.does = what /\ j.point = "look" /\ j.driver = None /\ j.item = None
      /\ j.order = o /\ j.orderOld = row /\ j.orderNew = new
  BY <1>1, IdleIsJob DEF Job, Idle
<1> HIDE DEF j
<1>3. Shape(j)
  BY <1>2 DEF Shape, Creates, Tracks, row
<1>4. Stands(j)
  BY <1>2 DEF Stands, Creates, Tracks, row
<1> QED
  BY <1>1, <1>2, <1>3, <1>4, BeginKeeps

(* assign_driver and the two confirmations, first half.                       *)
LEMMA TracksKeep ==
    ASSUME IInv, NEW t \in Task, NEW o \in Order,
           \/ \E d \in Driver : AssignDriver(t, o, d)
           \/ ConfirmPickup(t, o)
           \/ ConfirmDelivery(t, o)
    PROVE  IInv'
<1>1. order[o] \in OrderRow
  BY DEF IInv, RowsTypeOK
<1>2. ASSUME NEW d \in Driver, AssignDriver(t, o, d)
      PROVE  IInv'
  <2> DEFINE new == [status |-> "OUT_FOR_DELIVERY", driver |-> d]
  <2>1. new \in OrderRow /\ new.driver = d /\ d # None
    BY DeliveryAssumption DEF OrderRow
  <2>2. Track(t, "assign", o, new)
    BY <1>2 DEF AssignDriver
  <2> HIDE DEF new
  <2> QED
    BY <2>1, <2>2, TrackKeeps
<1>3. ASSUME NEW s \in {"OUT_FOR_DELIVERY", "DELIVERED"}
      PROVE  /\ [order[o] EXCEPT !.status = s] \in OrderRow
             /\ [order[o] EXCEPT !.status = s].driver = order[o].driver
  BY <1>1 DEF OrderRow
<1>4. CASE ConfirmPickup(t, o)
  BY <1>3, <1>4, TrackKeeps DEF ConfirmPickup
<1>5. CASE ConfirmDelivery(t, o)
  BY <1>3, <1>5, TrackKeeps DEF ConfirmDelivery
<1> QED
  BY <1>2, <1>4, <1>5

(* Then the driver it names or is told.                                       *)
LEMMA LooksKeep ==
    ASSUME IInv, NEW t \in Task, NEW what \in {"assign", "pickup", "deliver"}, Looks(t, what),
           NEW d \in Driver, NEW new \in DriverRow, Continue(t, WithDriver(job[t], d, new)),
           Employed(d), new.status # "absent",
           new.deliveries = Placeless(d).deliveries,
           new.status = "assigned" => what = "assign" /\ new.order = job[t].order
    PROVE  IInv'
<1> DEFINE i == job[t]
           j == WithDriver(i, d, new)
<1>1. RowsTypeOK /\ i \in Job /\ Shape(i) /\ Stands(i) /\ i.does = what /\ i.point = "look"
  BY DEF IInv, RowsTypeOK, Looks
<1>2. Continue(t, j) /\ job[t] # Idle /\ (new.status = "assigned" => new.order = i.order)
  BY <1>1, IdleIsJob
<1> HIDE DEF i
<1>3. /\ j \in Job /\ j.does = what /\ j.point = "commit" /\ j.driver = d
      /\ j.old = Placeless(d) /\ j.new = new /\ j.item = i.item
      /\ j.order = i.order /\ j.orderOld = i.orderOld /\ j.orderNew = i.orderNew
  BY <1>1, WithDriverIs
<1> HIDE DEF j
<1>4. Tracks(i) /\ ~ Creates(j) /\ ~ Counts(j) /\ j.does # "report" /\ j.does # "nothing"
         /\ j.does # "status"
  BY <1>1, <1>3 DEF Tracks, Creates, Counts
<1>5. Shape(j)
  BY <1>1, <1>2, <1>3, <1>4 DEF Shape
<1>6. Stands(j)
  BY <1>1, <1>3, <1>4, ReadsStand DEF Stands
<1>7. j.item = None
  BY <1>1, <1>3, <1>4 DEF Shape
<1> QED
  BY <1>2, <1>3, <1>5, <1>6, <1>7, ContinueKeeps

(* assign_driver tells him the order; a confirmation of delivery takes it     *)
(* from him.                                                                  *)
LEMMA TrackingKeeps ==
    ASSUME IInv, NEW t \in Task,
           AssignLooks(t) \/ \E d \in Driver : PickupLooks(t, d) \/ DeliveryLooks(t, d)
    PROVE  IInv'
<1>1. RowsTypeOK /\ job[t] \in Job /\ Shape(job[t])
  BY DEF IInv, RowsTypeOK
<1>2. \A d \in Driver : Placeless(d) \in DriverRow
  BY <1>1, PlacelessRow
<1>3. CASE AssignLooks(t)
  <2> DEFINE d == job[t].orderNew.driver
             o == job[t].order
  <2>1. Looks(t, "assign")
        /\ Continue(t, WithDriver(job[t], d, [Placeless(d) EXCEPT !.status = "assigned",
                                                                  !.order = o]))
    BY <1>3 DEF AssignLooks
  <2>2. o \in Order /\ d \in Driver
    BY <1>1, <2>1, DeliveryAssumption DEF Looks, Shape, Tracks, Job, OrderRow
  <2> DEFINE new == [Placeless(d) EXCEPT !.status = "assigned", !.order = o]
  <2>3. /\ new \in DriverRow /\ new.deliveries = Placeless(d).deliveries /\ new.order = o
        /\ new.status = "assigned"
    BY <1>2, <2>2 DEF DriverRow, StoredStatus
  <2>4. Continue(t, WithDriver(job[t], d, new)) /\ Looks(t, "assign") /\ Employed(d)
    BY <1>3, <2>1 DEF AssignLooks, Employed
  <2> HIDE DEF d, new
  <2> QED
    BY <2>2, <2>3, <2>4, LooksKeep
<1>4. ASSUME NEW d \in Driver, PickupLooks(t, d)
      PROVE  IInv'
  <2> DEFINE new == [Placeless(d) EXCEPT !.status = "en_route_delivery"]
  <2>1. /\ new \in DriverRow /\ new.deliveries = Placeless(d).deliveries
        /\ new.status = "en_route_delivery"
    BY <1>2 DEF DriverRow, StoredStatus
  <2>2. Looks(t, "pickup") /\ Employed(d) /\ Continue(t, WithDriver(job[t], d, new))
    BY <1>4 DEF PickupLooks
  <2> HIDE DEF new
  <2> QED
    BY <2>1, <2>2, LooksKeep
<1>5. ASSUME NEW d \in Driver, DeliveryLooks(t, d)
      PROVE  IInv'
  <2> DEFINE new == [Placeless(d) EXCEPT !.status = "available", !.order = None]
  <2>1. /\ new \in DriverRow /\ new.deliveries = Placeless(d).deliveries
        /\ new.status = "available"
    BY <1>2 DEF DriverRow, StoredStatus, DeliveryDriverStatus
  <2>2. Looks(t, "deliver") /\ Employed(d) /\ Continue(t, WithDriver(job[t], d, new))
    BY <1>5 DEF DeliveryLooks
  <2> HIDE DEF new
  <2> QED
    BY <2>1, <2>2, LooksKeep
<1> QED
  BY <1>3, <1>4, <1>5

--------------------------------------------------------------------------------
(* Commits                                                                    *)

(* What a commit does to rows and history.                                    *)
LEMMA CommitWrites ==
    ASSUME IInv, NEW t \in Task, Commit(t)
    PROVE  LET j == job[t] IN
           /\ j \in Job /\ j.point = "commit" /\ Shape(j) /\ Stands(j)
           /\ \A d \in Driver :
                  driver'[d] = IF d = j.driver THEN Merge(driver[d], j.old, j.new) ELSE driver[d]
           /\ \A a \in Assignment : assignment'[a] =
                  IF a = j.item THEN Merge(assignment[a], j.itemOld, j.itemNew) ELSE assignment[a]
           /\ \A o \in Order : order'[o] =
                  IF o = j.order THEN Merge(order[o], j.orderOld, j.orderNew) ELSE order[o]
           /\ \A d \in Driver :
                  reports'[d] = IF d = j.driver /\ Counts(j) THEN reports[d] + 1 ELSE reports[d]
           /\ torn \subseteq torn' /\ torn' \in SUBSET Driver
           /\ \A d \in Driver : d = j.driver /\ d \notin torn' => Placeless(d) = j.old
           /\ released' = released \cup Releases(j) \cup Reopens(j)
           /\ \A u \in Task : job'[u] = IF u = t THEN Idle ELSE job[u]
           /\ Counts(j) => j.driver \in Driver
<1> DEFINE j == job[t]
<1>1. j \in Job /\ Shape(j) /\ Stands(j) /\ RowsTypeOK
  BY DEF IInv, RowsTypeOK
<1>2. /\ j.point = "commit"
      /\ IF j.driver = None THEN UNCHANGED <<driver, torn>>
         ELSE /\ driver' = [driver EXCEPT ![j.driver] = Merge(@, j.old, j.new)]
              /\ torn' = IF Placeless(j.driver) = j.old THEN torn ELSE torn \cup {j.driver}
      /\ IF j.item = None THEN UNCHANGED assignment
         ELSE assignment' = [assignment EXCEPT ![j.item] = Merge(@, j.itemOld, j.itemNew)]
      /\ IF j.order = None THEN UNCHANGED order
         ELSE order' = [order EXCEPT ![j.order] = Merge(@, j.orderOld, j.orderNew)]
      /\ reports' = IF Counts(j) THEN [reports EXCEPT ![j.driver] = @ + 1] ELSE reports
      /\ released' = released \cup Releases(j) \cup Reopens(j)
      /\ job' = [job EXCEPT ![t] = Idle]
  BY DEF Commit, Counts
<1>3. \A u \in Task : job'[u] = IF u = t THEN Idle ELSE job[u]
  BY <1>1, <1>2 DEF RowsTypeOK
<1> HIDE DEF j
<1>4. Counts(j) => j.driver \in Driver
  BY <1>1, <1>2 DEF Shape, Counts
<1>5. j.driver \in Driver \cup {None}
  BY <1>1 DEF Job
<1>6. \A d \in Driver :
          driver'[d] = IF d = j.driver THEN Merge(driver[d], j.old, j.new) ELSE driver[d]
  BY <1>1, <1>2, DeliveryAssumption DEF RowsTypeOK
<1>7. \A a \in Assignment : assignment'[a] =
          IF a = j.item THEN Merge(assignment[a], j.itemOld, j.itemNew) ELSE assignment[a]
  BY <1>1, <1>2, DeliveryAssumption DEF RowsTypeOK
<1>8. \A o \in Order : order'[o] =
          IF o = j.order THEN Merge(order[o], j.orderOld, j.orderNew) ELSE order[o]
  BY <1>1, <1>2, DeliveryAssumption DEF RowsTypeOK
<1>9. \A d \in Driver :
          reports'[d] = IF d = j.driver /\ Counts(j) THEN reports[d] + 1 ELSE reports[d]
  BY <1>1, <1>2, <1>4 DEF RowsTypeOK
<1>10. /\ torn \subseteq torn' /\ torn' \in SUBSET Driver
       /\ \A d \in Driver : d = j.driver /\ d \notin torn' => Placeless(d) = j.old
  BY <1>1, <1>2, <1>5, DeliveryAssumption DEF RowsTypeOK
<1> QED
  BY <1>1, <1>2, <1>3, <1>4, <1>6, <1>7, <1>8, <1>9, <1>10 DEF j

(* What it does not write stale it leaves as it means to.                     *)
LEMMA CommitMeans ==
    ASSUME IInv, NEW t \in Task, Commit(t), NEW d \in Driver, d = job[t].driver, d \notin torn'
    PROVE  /\ driver'[d].status = job[t].new.status
           /\ driver'[d].order = job[t].new.order
           /\ driver'[d].deliveries = job[t].new.deliveries
           /\ driver[d].status = job[t].old.status
           /\ driver[d].order = job[t].old.order
           /\ driver[d].deliveries = job[t].old.deliveries
           /\ d \notin torn
<1> DEFINE j == job[t]
<1>1. /\ j \in Job /\ driver'[d] = Merge(driver[d], j.old, j.new)
      /\ Placeless(d) = j.old /\ d \notin torn /\ driver[d] \in DriverRow
  BY CommitWrites DEF IInv, RowsTypeOK
<1> HIDE DEF j
<1>2. j.old \in DriverRow /\ j.new \in DriverRow
  BY <1>1 DEF Job
<1>3. /\ driver[d].status = j.old.status
      /\ driver[d].order = j.old.order
      /\ driver[d].deliveries = j.old.deliveries
  BY <1>1, PlacelessRow DEF IInv
<1> QED
  BY <1>1, <1>2, <1>3, MergedDriver DEF j

(* Who is busy with an assignment stays so, or it is released.                *)
LEMMA BusyStays ==
    ASSUME IInv, NEW t \in Task, Commit(t), NEW a \in Assignment, NEW d \in Driver,
           assignment[a].driver = d, driver[d].status = "busy",
           a \notin released', d \notin torn'
    PROVE  driver'[d].status = "busy"
<1>1. CASE d # job[t].driver
  BY <1>1, CommitWrites
<1>2. CASE d = job[t].driver
  <2>1. /\ driver'[d].status = job[t].new.status
        /\ job[t].old.status = "busy"
    BY <1>2, CommitMeans
  <2>2. Creates(job[t]) => job[t].new.status = "busy"
    BY CommitWrites DEF Shape
  <2>3. a \notin Releases(job[t])
    BY CommitWrites
  <2> QED
    BY <1>2, <2>1, <2>2, <2>3 DEF Releases, Carried, Creates
<1> QED
  BY <1>1, <1>2

(* An order that has a driver keeps one.                                      *)
LEMMA OrderKeepsDriver ==
    ASSUME IInv, NEW t \in Task, Commit(t), NEW o \in Order,
           \/ order[o].driver # None
           \/ o = job[t].order /\ job[t].orderNew.driver # None
    PROVE  order'[o].driver # None
<1> DEFINE j == job[t]
<1>1. /\ j \in Job /\ j.point = "commit" /\ Shape(j) /\ Stands(j)
      /\ order'[o] = IF o = j.order THEN Merge(order[o], j.orderOld, j.orderNew) ELSE order[o]
      /\ order[o] \in OrderRow
  BY CommitWrites DEF IInv, RowsTypeOK
<1>2. (o = j.order /\ j.orderNew.driver # None) \/ order[o].driver # None
  OBVIOUS
<1> HIDE DEF j
<1>3. CASE o # j.order
  BY <1>1, <1>2, <1>3
<1>4. CASE o = j.order
  <2>1. o # None
    BY DeliveryAssumption
  <2>2. Tracks(j)
    <3>1. j.does \in {"nothing", "status", "create", "auto", "report", "assign", "pickup", "deliver"}
      BY <1>1 DEF Job
    <3>2. j.does # "nothing"
      BY <1>1, IdleIsJob DEF Shape
    <3> QED
      BY <1>1, <1>4, <2>1, <3>1, <3>2 DEF Shape, Creates, Tracks
  <2>3. j.orderNew.driver = None => j.orderOld.driver = None
    BY <1>1, <2>2 DEF Shape
  <2>4. j.orderOld.driver # None => order[o].driver # None
    BY <1>1, <1>4, <2>2 DEF Stands
  <2>5. order'[o].driver = IF j.orderNew.driver = j.orderOld.driver THEN order[o].driver
                           ELSE j.orderNew.driver
    BY <1>1, <1>4, MergedOrder DEF Job
  <2> QED
    BY <1>2, <2>3, <2>4, <2>5
<1> QED
  BY <1>3, <1>4

(* A new assignment is written whole; a report leaves the driver as he is.    *)
LEMMA CommittedAssignment ==
    ASSUME IInv, NEW t \in Task, Commit(t), NEW a \in Assignment, a = job[t].item
    PROVE  LET j == job[t] IN
           \/ /\ Creates(j)
              /\ assignment[a].status = "absent"
              /\ assignment'[a].status = "assigned"
              /\ assignment'[a].driver = j.driver /\ j.driver \in Driver
           \/ /\ j.does = "report"
              /\ assignment[a].status # "absent" /\ assignment'[a].status # "absent"
              /\ assignment'[a].status = IF j.itemNew.status = j.itemOld.status
                                         THEN assignment[a].status ELSE j.itemNew.status
              /\ assignment'[a].driver = assignment[a].driver
              /\ assignment[a].driver = j.itemOld.driver /\ j.itemOld.driver \in Driver
<1> DEFINE j == job[t]
<1>1. /\ j \in Job /\ j.point = "commit" /\ Shape(j) /\ Stands(j)
      /\ assignment'[a] = Merge(assignment[a], j.itemOld, j.itemNew)
      /\ assignment[a] \in AssignmentRow
  BY CommitWrites DEF IInv, RowsTypeOK
<1>2. a = j.item /\ a # None
  BY DeliveryAssumption
<1> HIDE DEF j
<1>3. /\ assignment'[a].status = IF j.itemNew.status = j.itemOld.status
                                 THEN assignment[a].status ELSE j.itemNew.status
      /\ assignment'[a].driver = IF j.itemNew.driver = j.itemOld.driver
                                 THEN assignment[a].driver ELSE j.itemNew.driver
  BY <1>1, MergedAssignment DEF Job
<1>4. Creates(j) \/ j.does = "report"
  <2>1. j.does \in {"nothing", "status", "create", "auto", "report", "assign", "pickup", "deliver"}
    BY <1>1 DEF Job
  <2>2. j.does # "nothing"
    BY <1>1, IdleIsJob DEF Shape
  <2> QED
    BY <1>1, <1>2, <2>1, <2>2 DEF Shape, Creates, Tracks
<1>5. CASE Creates(j)
  <2>1. /\ j.driver \in Driver /\ j.itemOld = NoAssignment
        /\ j.itemNew.driver = j.driver /\ j.itemNew.status = "assigned"
        /\ assignment[a].status = "absent"
    BY <1>1, <1>2, <1>5 DEF Shape, Stands
  <2>2. /\ j.itemOld.status = "absent" /\ j.itemOld.driver = None /\ j.driver # None
    BY <2>1, DeliveryAssumption DEF NoAssignment
  <2> QED
    BY <1>3, <1>5, <2>1, <2>2 DEF j
<1>6. CASE j.does = "report"
  BY <1>1, <1>2, <1>3, <1>6 DEF Shape, Stands, j
<1> QED
  BY <1>4, <1>5, <1>6

(* Nobody is let go, and no absent driver is written.                         *)
LEMMA CommitEmploys ==
    ASSUME IInv, NEW t \in Task, Commit(t), NEW d \in Driver
    PROVE  /\ Employed(d) => Employed(d)'
           /\ d = job[t].driver => Employed(d)
<1> DEFINE j == job[t]
<1>1. /\ j \in Job /\ j.point = "commit" /\ Shape(j) /\ Stands(j)
      /\ driver'[d] = IF d = j.driver THEN Merge(driver[d], j.old, j.new) ELSE driver[d]
      /\ driver[d] \in DriverRow /\ d # None
  BY CommitWrites, DeliveryAssumption DEF IInv, RowsTypeOK
<1> HIDE DEF j
<1>2. d = j.driver => j.new.status # "absent" /\ Employed(d)
  BY <1>1 DEF Shape, Stands
<1>3. d = j.driver => driver'[d].status = IF j.new.status = j.old.status THEN driver[d].status
                                          ELSE j.new.status
  BY <1>1, MergedDriver DEF Job
<1> QED
  BY <1>1, <1>2, <1>3 DEF Employed, j

(* What other sessions have read stands.                                      *)
LEMMA OthersStand ==
    ASSUME IInv, NEW t \in Task, Commit(t), NEW u \in Task, u # t
    PROVE  Stands(job[u])'
<1> DEFINE k == job[u]
           j == job[t]
<1>1. job'[u] = k /\ k \in Job /\ Shape(k) /\ Stands(k) /\ Stands(j)
  BY CommitWrites DEF IInv, RowsTypeOK
<1>2. k.driver # None => driver'[k.driver].status # "absent" /\ k.old.deliveries <= reports'[k.driver]
  <2>1. k.driver # None => k.driver \in Driver
    BY <1>1 DEF Job
  <2>2. \A d \in Driver : reports[d] \in Nat /\ reports'[d] \in Nat /\ reports[d] <= reports'[d]
    BY CommitWrites, DeliveryAssumption DEF IInv, RowsTypeOK
  <2>3. k.old.deliveries \in Nat
    BY <1>1, DeliveryAssumption DEF Job, DriverRow
  <2>4. \A d \in Driver : Employed(d) => driver'[d].status # "absent"
    BY CommitEmploys DEF Employed
  <2> HIDE DEF k
  <2> QED
    BY <1>1, <2>1, <2>2, <2>3, <2>4 DEF Stands, Employed
<1>3. Creates(k) /\ k.item # None => assignment'[k.item].status = "absent"
  <2>1. Creates(k) /\ k.item # None => k.item # j.item
    BY DEF IInv, IdsDiffer
  <2>2. k.item \in Assignment \cup {None}
    BY <1>1 DEF Job
  <2> QED
    BY <1>1, <2>1, <2>2, CommitWrites DEF Stands
<1>4. ASSUME k.does = "report"
      PROVE  /\ assignment'[k.item].status # "absent"
             /\ assignment'[k.item].driver = k.itemOld.driver
             /\ k.itemOld.status \in Active /\ k.item \notin released' /\ k.itemOld.driver \notin torn' =>
                    driver'[k.itemOld.driver].status = "busy"
  <2>1. /\ k.item \in Assignment /\ k.itemOld.driver \in Driver
        /\ assignment[k.item].status # "absent"
        /\ assignment[k.item].driver = k.itemOld.driver
    BY <1>1, <1>4 DEF Shape, Stands
  <2>2. /\ assignment'[k.item].status # "absent"
        /\ assignment'[k.item].driver = assignment[k.item].driver
    <3>1. CASE k.item = j.item
      BY <2>1, <3>1, CommittedAssignment
    <3>2. CASE k.item # j.item
      BY <2>1, <3>2, CommitWrites
    <3> QED
      BY <3>1, <3>2
  <2>3. ASSUME k.itemOld.status \in Active, k.item \notin released', k.itemOld.driver \notin torn'
        PROVE  driver'[k.itemOld.driver].status = "busy"
    <3>1. k.item \notin released /\ k.itemOld.driver \notin torn
      BY <2>1, <2>3, CommitWrites
    <3>2. driver[k.itemOld.driver].status = "busy"
      BY <1>1, <1>4, <2>3, <3>1 DEF Stands
    <3> HIDE DEF k
    <3> QED
      BY <2>1, <2>3, <3>2, BusyStays
  <2> QED
    BY <2>1, <2>2, <2>3
<1>5. Tracks(k) /\ k.orderOld.driver # None => order'[k.order].driver # None
  <2>1. Tracks(k) /\ k.orderOld.driver # None => k.order \in Order /\ order[k.order].driver # None
    BY <1>1 DEF Shape, Stands
  <2> HIDE DEF k
  <2> QED
    BY <2>1, OrderKeepsDriver
<1>6. ASSUME NEW i, job'[u] = i, i = k
      PROVE  Stands(i)'
  BY <1>2, <1>3, <1>4, <1>5, <1>6 DEF Stands, Creates, Tracks, Employed
<1> QED
  BY <1>1, <1>6 DEF Stands, Creates, Tracks, Employed

(* Rows after a commit are rows.                                              *)
LEMMA CommitKeepsRows ==
    ASSUME IInv, NEW t \in Task, Commit(t)
    PROVE  RowsTypeOK' /\ AssignmentsInv' /\ DriversInv'
<1> DEFINE j == job[t]
<1>1. /\ RowsTypeOK /\ j \in Job /\ j # Idle
  BY CommitWrites, IdleIsJob DEF IInv, RowsTypeOK
<1>2. /\ j.old \in DriverRow /\ j.new \in DriverRow
      /\ j.itemOld \in AssignmentRow /\ j.itemNew \in AssignmentRow
      /\ j.orderOld \in OrderRow /\ j.orderNew \in OrderRow
      /\ j.item \in Assignment \cup {None}
  BY <1>1 DEF Job
<1>3. driver' \in [Driver -> DriverRow]
  <2>1. \A d \in Driver : driver'[d] \in DriverRow
    BY <1>1, <1>2, CommitWrites, MergedDriver DEF RowsTypeOK
  <2>2. \E f : driver' = [d \in Driver |-> f[d]]
    BY <1>1 DEF Commit, RowsTypeOK
  <2> QED
    BY <2>1, <2>2
<1>4. assignment' \in [Assignment -> AssignmentRow]
  <2>1. \A a \in Assignment : assignment'[a] \in AssignmentRow
    BY <1>1, <1>2, CommitWrites, MergedAssignment DEF RowsTypeOK
  <2>2. \E f : assignment' = [a \in Assignment |-> f[a]]
    BY <1>1 DEF Commit, RowsTypeOK
  <2> QED
    BY <2>1, <2>2
<1>5. order' \in [Order -> OrderRow]
  <2>1. \A o \in Order : order'[o] \in OrderRow
    BY <1>1, <1>2, CommitWrites, MergedOrder DEF RowsTypeOK
  <2>2. \E f : order' = [o \in Order |-> f[o]]
    BY <1>1 DEF Commit, RowsTypeOK
  <2> QED
    BY <2>1, <2>2
<1>6. job' \in [Task -> Job] /\ sweeping' = sweeping
  BY <1>1, IdleIsJob DEF Commit, RowsTypeOK
<1>7. reports' \in [Driver -> 0..MaxSessions]
  <2>1. \A d \in Driver : reports[d] \in Nat /\ reports[d] + 1 <= MaxSessions
    BY <1>1, RoomToCount
  <2>2. \A d \in Driver : reports'[d] \in 0..MaxSessions
    BY <2>1, CommitWrites, DeliveryAssumption
  <2>3. reports' = [reports EXCEPT ![j.driver] = @ + 1] \/ reports' = reports
    BY DEF Commit
  <2>4. \E f : reports' = [d \in Driver |-> f[d]]
    BY <1>1, <2>3 DEF RowsTypeOK
  <2> QED
    BY <2>2, <2>4
<1>8. torn' \in SUBSET Driver /\ released' \in SUBSET Assignment
  <2>1. Releases(j) \subseteq Assignment
    BY DEF Releases, Carried
  <2>2. Reopens(j) \subseteq Assignment
    BY <1>2, CommitWrites DEF Reopens, Shape
  <2> QED
    BY <1>1, <2>1, <2>2, CommitWrites DEF RowsTypeOK
<1>9. AssignmentsInv'
  <2>1. ASSUME NEW a \in Assignment, assignment'[a].status # "absent"
        PROVE  assignment'[a].driver \in Driver /\ Employed(assignment'[a].driver)
    <3>1. CASE a = j.item
      BY <3>1, CommittedAssignment, CommitEmploys DEF IInv, AssignmentsInv
    <3>2. CASE a # j.item
      BY <2>1, <3>2, CommitWrites DEF IInv, AssignmentsInv
    <3> QED
      BY <3>1, <3>2
  <2>2. \A d \in Driver : Employed(d) => driver'[d].status # "absent"
    BY CommitEmploys DEF Employed
  <2> QED
    BY <2>1, <2>2 DEF AssignmentsInv, Employed
<1>10. DriversInv'
  <2>1. \A d \in Driver : driver'[d].status = "absent" => driver'[d] = driver[d] /\ ~ Employed(d)
    BY CommitWrites, CommitEmploys DEF Employed
  <2> QED
    BY <2>1 DEF IInv, DriversInv, Employed
<1> QED
  BY <1>1, <1>3, <1>4, <1>5, <1>6, <1>7, <1>8, <1>9, <1>10 DEF RowsTypeOK

(* A session that is over may have been counted.                              *)
LEMMA CommitCounts ==
    ASSUME IInv, NEW t \in Task, Commit(t)
    PROVE  CountInv' /\ CountsDeliveries'
<1> DEFINE j == job[t]
<1>1. /\ j # Idle /\ job' = [job EXCEPT ![t] = Idle] /\ sessions' = sessions
      /\ \A d \in Driver :
             reports'[d] = IF d = j.driver /\ Counts(j) THEN reports[d] + 1 ELSE reports[d]
      /\ \A d \in Driver :
             driver'[d] = IF d = j.driver THEN Merge(driver[d], j.old, j.new) ELSE driver[d]
      /\ torn \subseteq torn'
  BY CommitWrites, IdleIsJob DEF Commit
<1>2. \A d \in Driver :
          reports[d] \in Nat /\ driver[d] \in DriverRow /\ driver[d].deliveries \in Nat
  BY DeliveryAssumption DEF IInv, RowsTypeOK, DriverRow
<1>3. CountInv'
  <2>1. /\ IsFiniteSet(Sessions') /\ Cardinality(Sessions') = Cardinality(Sessions) - 1
        /\ Cardinality(Sessions) \in Nat
    BY <1>1, CountSessions
  <2>2. \A d \in Driver : reports[d] + Cardinality(Sessions) <= sessions
    BY DEF IInv, CountInv
  <2>3. \A d \in Driver : reports'[d] + Cardinality(Sessions') <= sessions'
    BY <1>1, <1>2, <2>1, <2>2, DeliveryAssumption DEF IInv, CountInv
  <2> QED
    BY <1>1, <2>1, <2>3 DEF IInv, CountInv
<1>4. ASSUME NEW d \in Driver
      PROVE  /\ driver'[d].deliveries <= reports'[d]
             /\ reports'[d] > 0 => driver'[d].deliveries > 0
             /\ d \notin torn' => driver'[d].deliveries = reports'[d]
  <2>1. /\ driver[d].deliveries <= reports[d]
        /\ reports[d] > 0 => driver[d].deliveries > 0
        /\ d \notin torn => driver[d].deliveries = reports[d]
    BY DEF IInv, CountsDeliveries
  <2>2. CASE d # j.driver
    BY <1>1, <2>1, <2>2
  <2>3. CASE d = j.driver
    <3>1. /\ j \in Job /\ j.point = "commit" /\ Shape(j) /\ Stands(j) /\ j.driver # None
      BY <2>3, CommitWrites, DeliveryAssumption
    <3>2. /\ j.old \in DriverRow /\ j.new \in DriverRow /\ j.old.deliveries \in Nat
      BY <3>1, DeliveryAssumption DEF Job, DriverRow
    <3>3. /\ j.new.deliveries = IF Counts(j) THEN j.old.deliveries + 1 ELSE j.old.deliveries
          /\ j.old.deliveries <= reports[d]
      BY <2>3, <3>1 DEF Shape, Stands
    <3>4. driver'[d].deliveries = IF j.new.deliveries = j.old.deliveries
                                  THEN driver[d].deliveries ELSE j.new.deliveries
      BY <1>1, <1>2, <2>3, <3>2, MergedDriver
    <3>5. reports'[d] = IF Counts(j) THEN reports[d] + 1 ELSE reports[d]
      BY <1>1, <2>3
    <3>6. d \notin torn' => driver[d].deliveries = j.old.deliveries /\ d \notin torn
      BY <2>3, CommitMeans
    <3> HIDE DEF j
    <3>7. CASE Counts(j)
      BY <1>2, <2>1, <3>2, <3>3, <3>4, <3>5, <3>6, <3>7
    <3>8. CASE ~ Counts(j)
      BY <1>2, <2>1, <3>2, <3>3, <3>4, <3>5, <3>6, <3>8
    <3> QED
      BY <3>7, <3>8
  <2> QED
    BY <2>2, <2>3
<1> QED
  BY <1>3, <1>4 DEF CountsDeliveries

(* Carriers stay busy.                                                        *)
LEMMA CommitKeepsCarriers ==
    ASSUME IInv, NEW t \in Task, Commit(t)
    PROVE  CarriersAreBusy'
<1> DEFINE j == job[t]
<1> SUFFICES ASSUME NEW a \in Assignment, a \notin released',
                    assignment'[a].status \in Active, assignment'[a].driver \notin torn'
             PROVE  driver'[assignment'[a].driver].status = "busy"
  BY DEF CarriersAreBusy
<1>1. /\ torn \subseteq torn' /\ a \notin released /\ a \notin Reopens(j)
      /\ Stands(j)
  BY CommitWrites
<1>2. ASSUME assignment[a].status \in Active, assignment'[a].driver = assignment[a].driver
      PROVE  driver'[assignment'[a].driver].status = "busy"
  <2>1. assignment[a].driver \in Driver
    BY <1>2 DEF IInv, AssignmentsInv, Active
  <2>2. driver[assignment[a].driver].status = "busy"
    BY <1>1, <1>2 DEF IInv, CarriersAreBusy
  <2> QED
    BY <1>2, <2>1, <2>2, BusyStays
<1>3. CASE a # j.item
  BY <1>2, <1>3, CommitWrites
<1>4. CASE a = j.item /\ Creates(j)
  <2>1. assignment'[a].driver = j.driver /\ j.driver \in Driver
    BY <1>4, CommittedAssignment DEF Creates
  <2>2. j.new.status = "busy"
    BY <1>4, CommitWrites DEF Shape
  <2> QED
    BY <2>1, <2>2, CommitMeans
<1>5. CASE a = j.item /\ ~ Creates(j)
  <2>1. /\ j.does = "report"
        /\ assignment'[a].status = IF j.itemNew.status = j.itemOld.status
                                   THEN assignment[a].status ELSE j.itemNew.status
        /\ assignment'[a].driver = assignment[a].driver
        /\ assignment[a].driver = j.itemOld.driver /\ j.itemOld.driver \in Driver
    BY <1>5, CommittedAssignment
  <2>2. CASE j.itemNew.status = j.itemOld.status
    BY <1>2, <2>1, <2>2
  <2>3. CASE j.itemNew.status # j.itemOld.status
    <3>1. j.itemOld.status \in Active
      BY <1>1, <1>5, <2>1, <2>3 DEF Reopens
    <3>2. driver[j.itemOld.driver].status = "busy"
      BY <1>1, <1>5, <2>1, <3>1 DEF Stands
    <3> QED
      BY <2>1, <3>2, BusyStays
  <2> QED
    BY <2>2, <2>3
<1> QED
  BY <1>3, <1>4, <1>5

(* Who is assigned knows an order that has a driver.                          *)
LEMMA CommitKeepsAssigned ==
    ASSUME IInv, NEW t \in Task, Commit(t)
    PROVE  AssignedKnowsOrder'
<1> DEFINE j == job[t]
<1> SUFFICES ASSUME NEW d \in Driver, d \notin torn', driver'[d].status = "assigned"
             PROVE  driver'[d].order # None /\ order'[driver'[d].order].driver # None
  BY DEF AssignedKnowsOrder
<1>1. CASE d # j.driver
  <2>1. /\ driver'[d] = driver[d] /\ d \notin torn
    BY <1>1, CommitWrites
  <2>2. driver[d].order # None /\ order[driver[d].order].driver # None
    BY <2>1 DEF IInv, AssignedKnowsOrder
  <2>3. driver[d].order \in Order
    BY <2>2 DEF IInv, RowsTypeOK, DriverRow
  <2> QED
    BY <2>1, <2>2, <2>3, OrderKeepsDriver
<1>2. CASE d = j.driver
  <2>1. j.new.status = "assigned" /\ driver'[d].order = j.new.order
    BY <1>2, CommitMeans
  <2>2. j.does = "assign" /\ j.new.order = j.order
    BY <1>2, <2>1, CommitWrites, DeliveryAssumption DEF Shape
  <2>3. j.order \in Order /\ j.orderNew.driver # None
    BY <2>2, CommitWrites DEF Shape, Tracks
  <2> QED
    BY <2>1, <2>2, <2>3, OrderKeepsDriver, DeliveryAssumption
<1> QED
  BY <1>1, <1>2

(* A commit, whatever was committed since its session read.                   *)
LEMMA CommitKeeps ==
    ASSUME IInv, NEW t \in Task, Commit(t)
    PROVE  IInv'
<1>1. \A u \in Task : job'[u] = IF u = t THEN Idle ELSE job[u]
  BY CommitWrites
<1>2. IdsDiffer'
  BY <1>1, IdleIsJob DEF IInv, IdsDiffer, Creates
<1>3. ASSUME NEW u \in Task
      PROVE  Shape(job[u])'
  BY <1>1, IdleIsJob DEF IInv, Shape, Creates, Tracks, Counts
<1>4. ASSUME NEW u \in Task
      PROVE  Stands(job[u])'
  <2>1. CASE u = t
    BY <1>1, <2>1, IdleIsJob DEF Stands, Creates, Tracks
  <2>2. CASE u # t
    BY <2>2, OthersStand
  <2> QED
    BY <2>1, <2>2
<1> QED
  BY <1>2, <1>3, <1>4, CommitKeepsRows, CommitCounts, CommitKeepsCarriers, CommitKeepsAssigned
     DEF IInv

--------------------------------------------------------------------------------
(* Drivers and orders outside sessions                                        *)

(* A step that opens and closes no session keeps of what sessions have read   *)
(* that which it does not take back.                                          *)
LEMMA OutsideKeeps ==
    ASSUME IInv, RowsTypeOK',
           UNCHANGED <<assignment, job, sessions, reports, released>>, torn \subseteq torn',
           \A o \in Order : order'[o].driver = order[o].driver,
           \A d \in Driver :
               /\ driver'[d].deliveries = driver[d].deliveries
               /\ driver'[d].order = driver[d].order
               /\ d \notin torn' /\ driver[d].status = "busy" => driver'[d].status = "busy"
               /\ driver'[d].status = "assigned" => driver[d].status = "assigned"
               /\ Employed(d) => driver'[d].status # "absent"
    PROVE  IInv'
<1>1. CountInv' /\ AssignmentsInv' /\ DriversInv' /\ IdsDiffer'
  BY DEF IInv, CountInv, AssignmentsInv, DriversInv, IdsDiffer, Sessions, Creates, Employed
<1>2. ASSUME NEW t \in Task
      PROVE  Shape(job[t])' /\ Stands(job[t])'
  <2>1. Shape(job[t]) /\ Stands(job[t]) /\ job[t] \in Job
    BY DEF IInv, RowsTypeOK
  <2>2. Shape(job[t])'
    BY <2>1 DEF Shape, Creates, Tracks, Counts
  <2>3. job[t].does = "report" => job[t].itemOld.driver \in Driver
    BY <2>1 DEF Shape
  <2>4. Tracks(job[t]) => job[t].order \in Order
    BY <2>1 DEF Shape
  <2>5. job[t].driver # None => job[t].driver \in Driver
    BY <2>1 DEF Job
  <2>6. Stands(job[t])'
    BY <2>1, <2>3, <2>4, <2>5 DEF Stands, Creates, Tracks, Employed
  <2> QED
    BY <2>2, <2>6
<1>3. CountsDeliveries'
  BY DEF IInv, CountsDeliveries
<1>4. CarriersAreBusy'
  <2>1. \A a \in Assignment : assignment[a].status \in Active => assignment[a].driver \in Driver
    BY DEF IInv, AssignmentsInv, Active
  <2> QED
    BY <2>1 DEF IInv, CarriersAreBusy
<1>5. AssignedKnowsOrder'
  <2>1. \A d \in Driver : driver[d].order # None => driver[d].order \in Order
    BY DEF IInv, RowsTypeOK, DriverRow
  <2> QED
    BY <2>1 DEF IInv, AssignedKnowsOrder
<1> QED
  BY <1>1, <1>2, <1>3, <1>4, <1>5 DEF IInv

(* create_driver, places and statuses from elsewhere.                         *)
LEMMA RowsKeep ==
    ASSUME IInv,
           \/ \E d \in Driver : CreateDriver(d) \/ UpdateLocation(d) \/ HalfAnHour(d)
           \/ \E o \in Order : OthersMove(o)
    PROVE  IInv'
<1>1. RowsTypeOK
  BY DEF IInv
<1>2. ASSUME NEW d \in Driver, CreateDriver(d)
      PROVE  IInv'
  <2> DEFINE new == [NoDriver EXCEPT !.status = "available"]
  <2>1. new \in DriverRow /\ new.status = "available" /\ new.order = None /\ new.deliveries = 0
    BY DeliveryAssumption DEF NoDriver, DriverRow, StoredStatus, DeliveryDriverStatus
  <2>2. /\ driver' = [driver EXCEPT ![d] = new] /\ ~ Employed(d)
        /\ UNCHANGED <<assignment, order, job, sessions, sweeping, reports, torn, released>>
    BY <1>2 DEF CreateDriver
  <2>3. driver[d].order = None /\ driver[d].deliveries = 0 /\ driver[d].status = "absent"
    BY <2>2 DEF IInv, DriversInv, Employed
  <2> HIDE DEF new
  <2>4. RowsTypeOK'
    BY <1>1, <2>1, <2>2 DEF RowsTypeOK
  <2>5. \A e \in Driver : driver'[e] = IF e = d THEN new ELSE driver[e]
    BY <1>1, <2>2 DEF RowsTypeOK
  <2> QED
    BY <2>1, <2>2, <2>3, <2>4, <2>5, OutsideKeeps DEF Employed
<1>3. ASSUME NEW d \in Driver, UpdateLocation(d) \/ HalfAnHour(d)
      PROVE  IInv'
  <2>1. PICK place \in {"fresh", "old"} :
            /\ driver' = [driver EXCEPT ![d].location = place]
            /\ UNCHANGED <<assignment, order, job, sessions, sweeping, reports, torn, released>>
    BY <1>3 DEF UpdateLocation, HalfAnHour
  <2>2. RowsTypeOK'
    BY <1>1, <2>1 DEF RowsTypeOK, DriverRow
  <2>3. \A e \in Driver : /\ driver'[e].status = driver[e].status
                          /\ driver'[e].order = driver[e].order
                          /\ driver'[e].deliveries = driver[e].deliveries
    BY <1>1, <2>1 DEF RowsTypeOK, DriverRow
  <2> QED
    BY <2>1, <2>2, <2>3, OutsideKeeps DEF Employed
<1>4. ASSUME NEW o \in Order, OthersMove(o)
      PROVE  IInv'
  <2>1. /\ order' = [order EXCEPT ![o].status = "open"]
        /\ UNCHANGED <<driver, assignment, job, sessions, sweeping, reports, torn, released>>
    BY <1>4 DEF OthersMove
  <2>2. RowsTypeOK'
    BY <1>1, <2>1 DEF RowsTypeOK, OrderRow
  <2>3. \A p \in Order : order'[p].driver = order[p].driver
    BY <1>1, <2>1 DEF RowsTypeOK, OrderRow
  <2> QED
    BY <2>1, <2>2, <2>3, OutsideKeeps DEF Employed
<1> QED
  BY <1>2, <1>3, <1>4

(* The cleanup takes drivers offline; whoever got work since is torn.         *)
LEMMA SweepKeeps ==
    ASSUME IInv, SweepSelects \/ SweepCommits \/ SweepFails
    PROVE  IInv'
<1>1. RowsTypeOK
  BY DEF IInv
<1>2. CASE SweepSelects \/ SweepFails
  <2>1. UNCHANGED <<driver, assignment, order, job, sessions, reports, torn, released>>
        /\ sweeping' \in SUBSET Driver
    BY <1>2 DEF SweepSelects, SweepFails
  <2>2. RowsTypeOK'
    BY <1>1, <2>1 DEF RowsTypeOK
  <2> QED
    BY <2>1, <2>2, OutsideKeeps DEF Employed
<1>3. CASE SweepCommits
  <2>1. /\ driver' = [d \in Driver |-> IF d \in sweeping
                                       THEN [driver[d] EXCEPT !.status = "offline"] ELSE driver[d]]
        /\ torn' = torn \cup {d \in sweeping : ~ Stale(d)}
        /\ sweeping' = {}
        /\ UNCHANGED <<assignment, order, job, sessions, reports, released>>
    BY <1>3 DEF SweepCommits
  <2>2. \A d \in Driver : /\ driver'[d] = IF d \in sweeping
                                          THEN [driver[d] EXCEPT !.status = "offline"]
                                          ELSE driver[d]
                          /\ driver[d] \in DriverRow
    BY <1>1, <2>1 DEF RowsTypeOK
  <2>3. \A d \in Driver : /\ driver'[d] \in DriverRow
                          /\ driver'[d].status = IF d \in sweeping THEN "offline"
                                                 ELSE driver[d].status
                          /\ driver'[d].order = driver[d].order
                          /\ driver'[d].deliveries = driver[d].deliveries
    <3>1. ASSUME NEW row \in DriverRow
          PROVE  /\ [row EXCEPT !.status = "offline"] \in DriverRow
                 /\ [row EXCEPT !.status = "offline"].status = "offline"
                 /\ [row EXCEPT !.status = "offline"].order = row.order
                 /\ [row EXCEPT !.status = "offline"].deliveries = row.deliveries
      BY DEF DriverRow, StoredStatus, DeliveryDriverStatus
    <3> QED
      BY <2>2, <3>1
  <2>4. \A d \in Driver : d \notin torn' /\ driver[d].status = "busy" => d \notin sweeping
    BY <2>1 DEF Stale
  <2>5. RowsTypeOK'
    BY <1>1, <2>1, <2>3 DEF RowsTypeOK
  <2> QED
    BY <2>1, <2>3, <2>4, <2>5, OutsideKeeps DEF Employed
<1> QED
  BY <1>2, <1>3

--------------------------------------------------------------------------------
(* Theorems                                                                   *)

(* Nothing was there at first.                                                *)
LEMMA InitInv == Init => IInv
<1> SUFFICES ASSUME Init
             PROVE  IInv
  OBVIOUS
<1>1. \A t \in Task : job[t] = Idle
  BY DEF Init
<1>2. NoDriver \in DriverRow /\ NoAssignment \in AssignmentRow /\ NoOrder \in OrderRow
  BY DeliveryAssumption DEF NoDriver, NoAssignment, NoOrder, DriverRow, AssignmentRow, OrderRow,
     StoredStatus
<1>3. RowsTypeOK
  BY <1>2, IdleIsJob, DeliveryAssumption DEF Init, RowsTypeOK
<1>4. CountInv
  <2>1. Sessions = {}
    BY <1>1 DEF Sessions
  <2>2. IsFiniteSet(Sessions) /\ Cardinality(Sessions) = 0
    BY <2>1, FS_EmptySet
  <2> QED
    BY <2>2, DeliveryAssumption DEF Init, CountInv
<1>5. \A t \in Task : Shape(job[t]) /\ Stands(job[t])
  BY <1>1, IdleIsJob
<1>6. IdsDiffer
  BY <1>1, IdleIsJob DEF IdsDiffer, Creates
<1>7. AssignmentsInv /\ DriversInv /\ CarriersAreBusy /\ AssignedKnowsOrder /\ CountsDeliveries
  BY DEF Init, AssignmentsInv, DriversInv, CarriersAreBusy, AssignedKnowsOrder, CountsDeliveries,
     NoDriver, NoAssignment, Active
<1> QED
  BY <1>3, <1>4, <1>5, <1>6, <1>7 DEF IInv

(* Every step keeps the invariant.                                            *)
LEMMA NextInv == IInv /\ [Next]_vars => IInv'
<1>1. IInv /\ UNCHANGED vars => IInv'
  <2> SUFFICES ASSUME IInv, UNCHANGED vars
               PROVE  IInv'
    OBVIOUS
  <2>1. RowsTypeOK'
    BY DEF IInv, RowsTypeOK, vars
  <2> QED
    BY <2>1, OutsideKeeps DEF vars, Employed
<1> QED
  BY <1>1, RowsKeep, UpdateStatusKeeps, AutoAssignKeeps, TracksKeep, TrackingKeeps,
     CreateAssignmentKeeps, AutoChooseKeeps, ReportKeeps, ReportLooksKeeps, AbortKeeps,
     CommitKeeps, SweepKeeps DEF Next

(* The invariant holds throughout.                                            *)
THEOREM Invariance == Spec => []IInv
BY InitInv, NextInv, PTL DEF Spec

(* Rows, sessions and history are what they are taken for, the counts within  *)
(* the number of requests.                                                    *)
THEOREM TypeCorrect == Spec => []TypeOK
<1>1. IInv => TypeOK
  BY DEF IInv, RowsTypeOK, CountInv, TypeOK
<1> QED
  BY <1>1, Invariance, PTL

(* total_deliveries, read by DeliveryAssignmentService.update_status and      *)
(* written back at the commit, never runs ahead of what was reported, never   *)
(* returns to nothing, and is exact where no stale session wrote.             *)
THEOREM DeliveriesCounted == Spec => []CountsDeliveries
<1>1. IInv => CountsDeliveries
  BY DEF IInv
<1> QED
  BY <1>1, Invariance, PTL

(* Whom an active assignment names is busy (create_assignment), unless one of *)
(* the named causes has released him.                                         *)
THEOREM CarriersBusy == Spec => []CarriersAreBusy
<1>1. IInv => CarriersAreBusy
  BY DEF IInv
<1> QED
  BY <1>1, Invariance, PTL

(* A driver whom assign_driver made "assigned" has an order, and that order a *)
(* driver, unless one row of the two was overwritten by a stale session.      *)
THEOREM AssignedHasOrder == Spec => []AssignedKnowsOrder
<1>1. IInv => AssignedKnowsOrder
  BY DEF IInv
<1> QED
  BY <1>1, Invariance, PTL

================================================================================
