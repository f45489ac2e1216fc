--------------------------- MODULE MCBooks ------------------------------------
EXTENDS Analytics, TLC

CONSTANTS o1, o2, x, c1

(* Two orders, one with an external id, of 2 and 1.                           *)
MCRefOf == (o1 :> x) @@ (o2 :> None)
MCTotal == (o1 :> 2) @@ (o2 :> 1)

(* Entries for the order, right or off by one or two (a fee, say), one of a   *)
(* connection and one that names no order.                                    *)
MCRow == {[ref |-> x, gross |-> n, connection |-> None] : n \in Amount}
         \cup {[ref |-> x, gross |-> 2, connection |-> c1],
               [ref |-> None, gross |-> 2, connection |-> None]}

Default == [byId |-> TRUE, byAmount |-> TRUE, pending |-> FALSE, cancelled |-> FALSE,
            tolerance |-> 0, autoResolve |-> TRUE, minor |-> 1, zoned |-> FALSE]

(* The default, one that compares no amounts but all orders, one that is      *)
(* looser, one that matches nothing, and one with a time zone.                *)
MCConfig == {Default,
             [Default EXCEPT !.byAmount = FALSE, !.pending = TRUE, !.cancelled = TRUE],
             [Default EXCEPT !.tolerance = 1, !.autoResolve = FALSE],
             [Default EXCEPT !.byId = FALSE],
             [Default EXCEPT !.zoned = TRUE]}

(* Runs, payouts and reports share no row that matters to both but the orders *)
(* and the runs that reports read: one part is looked at at a time, and       *)
(* two requests at a time only where requests of one kind can disturb one     *)
(* another.                                                                   *)
Books == \A o \in Order : status[o] = "absent"
Unrun == \A r \in Run : runs[r] = None
Working == {t \in Clerk : desk[t] # Away}
(* Wednesday, 11 March 2026, with an order of the Monday before, as the week   *)
(* began, and one of the day between.                                         *)
Now == 800
MCCreatedOn == (o1 :> 798) @@ (o2 :> 799)

(* The first and the last day of each month of 2025 to 2028, and of the first *)
(* three of 2100, which is no leap year.                                      *)
MCDay == {Now} \cup UNION {{FirstOf(m), FirstOf(m + 1) - 1} : m \in 12..59 \cup 912..914}

(* The order without an external id is told from the other only by a run like *)
(* this one.                                                                  *)
Plain(run) == run.config = Default /\ run.connection = None

Readable ==
    /\ Stored = {} \/ (Books /\ Unrun /\ Working = {} /\ reading.at \in {"idle", "ledger", "summary"})
    /\ \A row \in PayoutRow : payouts[row] = 0
    /\ \A t \in Working : desk[t].at \notin {"sync", "settle"}

OnePart ==
    /\ today # Now => /\ Books /\ Stored = {} /\ Working = {}
                      /\ reading.at \in {"idle", "dashboard"}
                      /\ \A row \in PayoutRow : payouts[row] = 0
    /\ reading # Nothing => Readable
    /\ reading.at \notin {"idle", "runs", "reconciliation"} => Unrun /\ Working = {}
    /\ \A t \in Working : "run" \in DOMAIN desk[t] /\ desk[t].connection # None
                            => desk[t].config = Default
    /\ status[o2] # "absent" =>
          /\ \A t \in Working : "run" \in DOMAIN desk[t] => Plain(desk[t])
          /\ \A r \in Run : runs[r] # None => Plain(runs[r])
    /\ \/ \A row \in PayoutRow : payouts[row] = 0
       \/ Books /\ Stored = {} /\ Unrun
    /\ Cardinality(Working) <= 1 \/ \A t \in Working : desk[t].at = "sync"
    /\ (\E t \in Working : desk[t].at = "sync") => Books /\ Stored = {} /\ Unrun
    /\ (\E t \in Working : desk[t].at = "settle") => Books /\ Unrun /\ Cardinality(Stored) <= 1
    /\ (\E s \in Report : reports[s] # None) =>
          Books /\ Unrun /\ Working = {} /\ synced = {} /\ Cardinality(Stored) <= 1

MCNext ==
    \/ BooksNext /\ Watch
    \/ Readable /\ AnalyticsNext /\ UNCHANGED booksVars

MCSpec == Init /\ [][MCNext]_<<booksVars, readerVars>>

Symmetry == Permutations(Entry) \cup Permutations(Clerk) \cup Permutations(PlatformPayout)
================================================================================
