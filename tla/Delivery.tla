------------------------------- MODULE Delivery --------------------------------
(******************************************************************************)
(* Drivers and what they carry.  Two services write the same rows: the        *)
(* delivery service keeps assignments and sets drivers busy and available;    *)
(* the tracking service gives a driver an order to carry.  A scheduled task   *)
(* takes drivers offline that have not been heard of.                         *)
(*                                                                            *)
(* A request reads rows, changes them in its session and writes back the      *)
(* columns it CHANGED when it commits: nothing locks or rechecks what was     *)
(* read.  Flush and commit are one step, since nothing is read between them.  *)
(******************************************************************************)
EXTENDS Naturals, FiniteSets

CONSTANTS
    Driver,
    Order,
    Assignment,     \* ids, enough for the assignments of a behaviour
    Task,           \* requests at the same time
    StaffStatuses,  \* the statuses staff sets drivers to
    Reported,       \* the statuses reported of an assignment
    MaxOrders,      \* max_orders_per_run
    MaxSessions,    \* how many requests a behaviour has
    None

(* Two enumerations share the column status.  Of the tracking service's only  *)
(* these are ever stored: a location report comes over a WebSocket, whose     *)
(* answer cannot be encoded, and is rolled back with the status it reports.   *)
DeliveryDriverStatus == {"offline", "available", "busy", "on_break"}

StoredStatus == DeliveryDriverStatus \cup {"assigned", "en_route_delivery"}

DeliveryStatus == {"pending", "assigned", "picked_up", "en_route", "arrived",
                   "delivered", "cancelled", "returned"}

ASSUME DeliveryAssumption ==
    /\ StaffStatuses \subseteq DeliveryDriverStatus
    /\ Reported \subseteq DeliveryStatus
    /\ MaxOrders \in Nat \ {0}
    /\ MaxSessions \in Nat
    /\ None \notin Driver \cup Order \cup Assignment

VARIABLES
    driver,         \* rows of drivers
    assignment,     \* rows of delivery_assignments
    order,          \* orders: on their way or not, and driver_id
    job,            \* the session of a request
    sessions,       \* history: how many requests there were
    sweeping,       \* the drivers the cleanup task has selected
    reports,        \* history: deliveries reported for a driver and committed
    torn,           \* history: drivers written by a session that had read another row
    released        \* history: assignments whose driver was freed by someone else

vars == <<driver, assignment, order, job, sessions, sweeping, reports, torn, released>>

--------------------------------------------------------------------------------
Active == {"assigned", "picked_up", "en_route"}

(* location: whether there are coordinates, and how old.                      *)
DriverRow == [status : StoredStatus \cup {"absent"}, order : Order \cup {None},
              deliveries : 0..MaxSessions, location : {"none", "fresh", "old"}]

AssignmentRow == [order : Order \cup {None}, driver : Driver \cup {None},
                  status : DeliveryStatus \cup {"absent"}]

(* "open" stands for every status but the two that are set here.              *)
OrderRow == [status : {"open", "OUT_FOR_DELIVERY", "DELIVERED"},
             driver : Driver \cup {None}]

NoDriver == [status |-> "absent", order |-> None, deliveries |-> 0, location |-> "none"]

NoAssignment == [order |-> None, driver |-> None, status |-> "absent"]

NoOrder == [status |-> "open", driver |-> None]

(* A session: the rows as it read them and as it leaves them.  point: where   *)
(* it is, "count" and "look" having a SELECT before them.                     *)
Idle == [does |-> "nothing", point |-> "idle", driver |-> None, old |-> NoDriver,
         new |-> NoDriver, item |-> None, itemOld |-> NoAssignment,
         itemNew |-> NoAssignment, order |-> None, orderOld |-> NoOrder,
         orderNew |-> NoOrder]

Job == [does : {"nothing", "status", "create", "auto", "report", "assign", "pickup", "deliver"},
        point : {"idle", "count", "look", "commit"},
        driver : Driver \cup {None}, old : DriverRow, new : DriverRow,
        item : Assignment \cup {None}, itemOld : AssignmentRow, itemNew : AssignmentRow,
        order : Order \cup {None}, orderOld : OrderRow, orderNew : OrderRow]

TypeOK ==
    /\ driver \in [Driver -> DriverRow]
    /\ assignment \in [Assignment -> AssignmentRow]
    /\ order \in [Order -> OrderRow]
    /\ job \in [Task -> Job]
    /\ sessions \in 0..MaxSessions
    /\ sweeping \in SUBSET Driver
    /\ reports \in [Driver -> 0..MaxSessions]
    /\ torn \in SUBSET Driver
    /\ released \in SUBSET Assignment

Init ==
    /\ driver = [d \in Driver |-> NoDriver]
    /\ assignment = [a \in Assignment |-> NoAssignment]
    /\ order = [o \in Order |-> NoOrder]
    /\ job = [t \in Task |-> Idle]
    /\ sessions = 0
    /\ sweeping = {}
    /\ reports = [d \in Driver |-> 0]
    /\ torn = {}
    /\ released = {}

--------------------------------------------------------------------------------
(* Sessions                                                                   *)

Employed(d) == driver[d].status # "absent"

Begin(t, j) ==
    /\ job[t] = Idle
    /\ sessions < MaxSessions
    /\ sessions' = sessions + 1
    /\ job' = [job EXCEPT ![t] = j]
    /\ UNCHANGED <<driver, assignment, order, sweeping, reports, torn, released>>

Continue(t, j) ==
    /\ job' = [job EXCEPT ![t] = j]
    /\ UNCHANGED <<driver, assignment, order, sessions, sweeping, reports, torn, released>>

(* No session writes a place but that of UpdateLocation, which does no more.  *)
Placeless(d) == [driver[d] EXCEPT !.location = "none"]

(* A session that has read the driver and will leave it as `new`.             *)
WithDriver(j, d, new) ==
    [j EXCEPT !.driver = d, !.old = Placeless(d), !.new = new, !.point = "commit"]

(* An UPDATE has the columns that were changed.                               *)
Merge(row, old, new) ==
    [c \in DOMAIN row |-> IF new[c] = old[c] THEN row[c] ELSE new[c]]

(* What was promised a driver's assignments no longer stands: someone set the *)
(* driver free or aside without a look at them.                               *)
Carried(d) == {a \in Assignment : assignment[a].driver = d}

Releases(j) ==
    IF j.does \in {"create", "auto"} \/ j.new.status = j.old.status THEN {}
    ELSE Carried(j.driver)

(* A report that makes a finished assignment active again tells no driver.    *)
Reopens(j) ==
    IF j.does = "report" /\ j.itemNew.status \in Active /\ j.itemOld.status \notin Active
    THEN {j.item} ELSE {}

Commit(t) ==
    LET j == job[t] IN
    /\ j.point = "commit"
    /\ IF j.driver = None THEN UNCHANGED <<driver, torn>>
       ELSE /\ driver' = [driver EXCEPT ![j.driver] = Merge(@, j.old, j.new)]
            /\ torn' = IF Placeless(j.driver) = j.old THEN torn
                       ELSE torn \cup {j.driver}
    /\ IF j.item = None THEN UNCHANGED assignment
       ELSE assignment' = [assignment EXCEPT ![j.item] = Merge(@, j.itemOld, j.itemNew)]
    /\ IF j.order = None THEN UNCHANGED order
       ELSE order' = [order EXCEPT ![j.order] = Merge(@, j.orderOld, j.orderNew)]
    /\ reports' = IF j.does = "report" /\ j.itemNew.status = "delivered"
                  THEN [reports EXCEPT ![j.driver] = @ + 1] ELSE reports
    /\ released' = released \cup Releases(j) \cup Reopens(j)
    /\ job' = [job EXCEPT ![t] = Idle]
    /\ UNCHANGED <<sessions, sweeping>>

(* An exception, or a deadlock found by the database: get_db rolls back.      *)
Abort(t) ==
    /\ job[t] # Idle
    /\ Continue(t, Idle)

--------------------------------------------------------------------------------
(* Drivers                                                                    *)

CreateDriver(d) ==
    /\ ~ Employed(d)
    /\ driver' = [driver EXCEPT ![d] = [NoDriver EXCEPT !.status = "available"]]
    /\ UNCHANGED <<assignment, order, job, sessions, sweeping, reports, torn, released>>

(* update_driver and update_status set any status of the schema.              *)
UpdateStatus(t, d, s) ==
    /\ Employed(d)
    /\ Begin(t, WithDriver([Idle EXCEPT !.does = "status"], d,
                           [Placeless(d) EXCEPT !.status = s]))

(* last_location_at is a new time whatever it was.                            *)
UpdateLocation(d) ==
    /\ Employed(d)
    /\ driver' = [driver EXCEPT ![d].location = "fresh"]
    /\ UNCHANGED <<assignment, order, job, sessions, sweeping, reports, torn, released>>

HalfAnHour(d) ==
    /\ driver[d].location = "fresh"
    /\ driver' = [driver EXCEPT ![d].location = "old"]
    /\ UNCHANGED <<assignment, order, job, sessions, sweeping, reports, torn, released>>

--------------------------------------------------------------------------------
(* Assignments                                                                *)

(* Ids are taken in any order; one id is for one session.                     *)
Fresh(a) ==
    /\ assignment[a].status = "absent"
    /\ \A t \in Task : job[t].item # a

(* Mutant of NewAssignment: the driver is not set busy.                       *)
NewAssignmentOnly(j, a, o, d, row) ==
    [j EXCEPT !.item = a, !.itemNew = [order |-> o, driver |-> d, status |-> "assigned"],
              !.driver = d, !.old = row, !.new = row, !.point = "commit"]

(* create_assignment asks neither what the driver does nor whether the order  *)
(* has an assignment.                                                         *)
NewAssignment(j, a, o, d, row) ==
    [j EXCEPT !.item = a, !.itemNew = [order |-> o, driver |-> d, status |-> "assigned"],
              !.driver = d, !.old = row, !.new = [row EXCEPT !.status = "busy"],
              !.point = "commit"]

(* The endpoint, and one order of bulk_assign.                                *)
CreateAssignment(t, a, o, d) ==
    /\ Employed(d) /\ Fresh(a)
    /\ Begin(t, NewAssignment([Idle EXCEPT !.does = "create"], a, o, d, Placeless(d)))

(* auto_assign: of the drivers available with a known place, and not at their *)
(* limit, one is chosen (by distance, deliveries or load).                    *)
AutoAssign(t, o, d) ==
    /\ driver[d].status = "available"
    /\ driver[d].location # "none"
    /\ Begin(t, [Idle EXCEPT !.does = "auto", !.point = "count", !.driver = d,
                             !.old = Placeless(d),
                             !.itemNew = [NoAssignment EXCEPT !.order = o]])

Load(d) == Cardinality({a \in Carried(d) : assignment[a].status \in Active})

AutoChoose(t, a) ==
    LET j == job[t] IN
    /\ j.point = "count"
    /\ Load(j.driver) < MaxOrders
    /\ Fresh(a)
    /\ Continue(t, NewAssignment(j, a, j.itemNew.order, j.driver, j.old))

NoSuitableDriver(t) ==
    /\ job[t].point = "count"
    /\ Load(job[t].driver) >= MaxOrders
    /\ Continue(t, Idle)

(* DeliveryAssignmentService.update_status: any status after any other.  The  *)
(* driver is selected only if the delivery is over.                           *)
Report(t, a, s) ==
    LET row == assignment[a] IN
    /\ row.status # "absent"
    /\ Begin(t, [Idle EXCEPT !.does = "report", !.item = a, !.itemOld = row,
                             !.itemNew = [row EXCEPT !.status = s],
                             !.point = IF s \in {"delivered", "cancelled"}
                                       THEN "look" ELSE "commit"])

(* Mutant of Finished: a cancelled delivery counts too.                       *)
FinishedAlike(row, s) ==
    [row EXCEPT !.status = "available", !.deliveries = @ + 1]

Finished(row, s) ==
    [row EXCEPT !.status = "available",
                !.deliveries = IF s = "delivered" THEN @ + 1 ELSE @]

ReportLooks(t) ==
    LET j == job[t]
        d == j.itemNew.driver
    IN /\ j.point = "look" /\ j.does = "report"
       /\ Continue(t, WithDriver(j, d, Finished(Placeless(d), j.itemNew.status)))

--------------------------------------------------------------------------------
(* Tracking                                                                   *)

(* Each reads the order first, whatever its status and driver.                *)
Track(t, what, o, new) ==
    Begin(t, [Idle EXCEPT !.does = what, !.point = "look", !.order = o,
                          !.orderOld = order[o], !.orderNew = new])

Looks(t, what) == job[t].does = what /\ job[t].point = "look"

AssignDriver(t, o, d) ==
    Track(t, "assign", o, [status |-> "OUT_FOR_DELIVERY", driver |-> d])

(* Mutant of AssignLooks: the driver is not told which order.                 *)
AssignLooksAway(t) ==
    LET d == job[t].orderNew.driver IN
    /\ Looks(t, "assign")
    /\ driver[d].status = "available"
    /\ Continue(t, WithDriver(job[t], d, [Placeless(d) EXCEPT !.status = "assigned"]))

(* Only a driver who is available (nothing stores "returning") is taken; else *)
(* the request fails, as by Abort.                                            *)
AssignLooks(t) ==
    LET d == job[t].orderNew.driver IN
    /\ Looks(t, "assign")
    /\ driver[d].status = "available"
    /\ Continue(t, WithDriver(job[t], d, [Placeless(d) EXCEPT !.status = "assigned",
                                                           !.order = job[t].order]))

(* The two confirmations believe what the request says of order and driver.   *)
ConfirmPickup(t, o) ==
    Track(t, "pickup", o, [order[o] EXCEPT !.status = "OUT_FOR_DELIVERY"])

(* Mutant of PickupLooks: a word of the tracking service that is never stored.*)
PickupLooksArrived(t, d) ==
    /\ Looks(t, "pickup") /\ Employed(d)
    /\ Continue(t, WithDriver(job[t], d, [Placeless(d) EXCEPT !.status = "arrived"]))

PickupLooks(t, d) ==
    /\ Looks(t, "pickup") /\ Employed(d)
    /\ Continue(t, WithDriver(job[t], d, [Placeless(d) EXCEPT !.status = "en_route_delivery"]))

ConfirmDelivery(t, o) ==
    Track(t, "deliver", o, [order[o] EXCEPT !.status = "DELIVERED"])

DeliveryLooks(t, d) ==
    /\ Looks(t, "deliver") /\ Employed(d)
    /\ Continue(t, WithDriver(job[t], d, [Placeless(d) EXCEPT !.status = "available",
                                                           !.order = None]))

(* The rest of the system gives the order another status.                     *)
OthersMove(o) ==
    /\ order[o].status # "open"
    /\ order' = [order EXCEPT ![o].status = "open"]
    /\ UNCHANGED <<driver, assignment, job, sessions, sweeping, reports, torn, released>>

--------------------------------------------------------------------------------
(* cleanup_offline_drivers.  A driver without a place has no last_location_at *)
(* either and is never selected.                                              *)

Stale(d) == driver[d].status = "available" /\ driver[d].location = "old"

(* Mutant of SweepSelects: the two vocabularies are mixed up.                 *)
SweepSelectsReturning ==
    /\ sweeping = {}
    /\ sweeping' = {d \in Driver : driver[d].status = "on_break" /\ driver[d].location = "old"}
    /\ sweeping' # {}
    /\ UNCHANGED <<driver, assignment, order, job, sessions, reports, torn, released>>

SweepSelects ==
    /\ sweeping = {}
    /\ \E d \in Driver : Stale(d)
    /\ sweeping' = {d \in Driver : Stale(d)}
    /\ UNCHANGED <<driver, assignment, order, job, sessions, reports, torn, released>>

(* The UPDATE names the driver and nothing else: whoever was given work since *)
(* goes offline with it.                                                      *)
SweepCommits ==
    /\ sweeping # {}
    /\ driver' = [d \in Driver |-> IF d \in sweeping
                                    THEN [driver[d] EXCEPT !.status = "offline"] ELSE driver[d]]
    /\ torn' = torn \cup {d \in sweeping : ~ Stale(d)}
    /\ sweeping' = {}
    /\ UNCHANGED <<assignment, order, job, sessions, reports, released>>

SweepFails ==
    /\ sweeping # {}
    /\ sweeping' = {}
    /\ UNCHANGED <<driver, assignment, order, job, sessions, reports, torn, released>>

--------------------------------------------------------------------------------
Next ==
    \/ \E d \in Driver :
           \/ CreateDriver(d)
           \/ UpdateLocation(d)
           \/ HalfAnHour(d)
    \/ \E o \in Order : OthersMove(o)
    \/ \E t \in Task :
           \/ \E d \in Driver :
                  \/ \E s \in StaffStatuses : UpdateStatus(t, d, s)
                  \/ \E o \in Order : AutoAssign(t, o, d) \/ AssignDriver(t, o, d)
                  \/ PickupLooks(t, d)
                  \/ DeliveryLooks(t, d)
           \/ \E a \in Assignment :
                  \/ \E o \in Order, d \in Driver : CreateAssignment(t, a, o, d)
                  \/ AutoChoose(t, a)
                  \/ \E s \in Reported : Report(t, a, s)
           \/ \E o \in Order : ConfirmPickup(t, o) \/ ConfirmDelivery(t, o)
           \/ NoSuitableDriver(t)
           \/ ReportLooks(t)
           \/ AssignLooks(t)
           \/ Commit(t)
           \/ Abort(t)
    \/ SweepSelects
    \/ SweepCommits
    \/ SweepFails

Spec == Init /\ [][Next]_vars

(* The cleanup is scheduled again and again, and does not fail for ever.      *)
LiveSpec == Spec /\ WF_vars(SweepSelects) /\ SF_vars(SweepCommits)

--------------------------------------------------------------------------------
(* Properties                                                                 *)

(* total_deliveries is read and written back.  Two reports at once may lose   *)
(* one, or take the count back; it never runs ahead of the reports, never     *)
(* returns to nothing, and is exact for a driver no stale session has written.*)
CountsDeliveries ==
    \A d \in Driver :
        /\ driver[d].deliveries <= reports[d]
        /\ reports[d] > 0 => driver[d].deliveries > 0
        /\ d \notin torn => driver[d].deliveries = reports[d]

(* A driver with an active assignment is busy, so that auto_assign passes him *)
(* by, unless somebody set him free or aside since (another delivery of his   *)
(* was over, staff or the tracking service changed his status), the           *)
(* assignment was reopened, or a session wrote him that had read another row. *)
CarriersAreBusy ==
    \A a \in Assignment \ released :
        assignment[a].status \in Active /\ assignment[a].driver \notin torn =>
            driver[assignment[a].driver].status = "busy"

(* assign_driver and confirm_delivery set a driver's status and his order     *)
(* together: one who is "assigned" knows an order, and that order names a     *)
(* driver (not always him), unless a stale session wrote one column without   *)
(* the other.                                                                 *)
AssignedKnowsOrder ==
    \A d \in Driver \ torn :
        driver[d].status = "assigned" =>
            driver[d].order # None /\ order[driver[d].order].driver # None

(* A driver who is available and was last heard of long ago does not stay so. *)
StaleDriversLeave == \A d \in Driver : Stale(d) ~> ~ Stale(d)
================================================================================
