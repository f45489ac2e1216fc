----------------------------- MODULE Reconciliation ----------------------------
(******************************************************************************)
(* The books of one merchant: ledger entries that staff enter, runs that      *)
(* compare the orders with the ledger and store what does not match, payouts  *)
(* that staff enter or a platform's list is merged into, and settlement       *)
(* reports.  Every request is one transaction that reads with several SELECTs *)
(* of committed rows (READ COMMITTED) and writes at its end; orders and       *)
(* ledger change in between.  All rows lie in the period that is asked for.   *)
(******************************************************************************)
EXTENDS Naturals, FiniteSets

CONSTANTS
    Order,
    Ref,            \* external ids of orders
    RefOf,          \* external_order_id of an order, or None
    Total,          \* total of an order, in the ledger's smallest step
    MaxAmount,
    Entry,          \* ids of ledger entries
    Row,            \* the ledger entries that are tried
    Connection,     \* platform connections
    Run,            \* ids of reconciliation runs
    Config,         \* the configurations that are tried
    PlatformPayout, \* payouts as a platform names them: (connection, payout_id)
    MaxPayouts,     \* how many rows a payout may have
    Report,         \* ids of settlement reports
    Clerk,          \* requests at the same time
    None

Amount == 0..MaxAmount

(* byId, byAmount: match_by_platform_id, match_by_amount; tolerance and minor *)
(* (minor_threshold) are amounts; zoned: the dates of the request carry a     *)
(* time zone.                                                                 *)
ReconciliationConfig ==
    [byId : BOOLEAN, byAmount : BOOLEAN, pending : BOOLEAN, cancelled : BOOLEAN,
     tolerance : Amount, autoResolve : BOOLEAN, minor : Amount, zoned : BOOLEAN]

(* ref: platform_order_id.                                                    *)
FinancialLedger == [ref : Ref \cup {None}, gross : Amount, connection : Connection \cup {None}]

(* History: all orders and all entries when a run began, and the orders that  *)
(* have been in its scope from then on.                                       *)
Known == [orders : SUBSET Order, placed : SUBSET Order, entries : SUBSET Entry]

ReconciliationRun ==
    [connection : Connection \cup {None}, config : Config,
     status : {"COMPLETED", "PARTIAL", "FAILED"},
     checked : 0..Cardinality(Order), matched : 0..Cardinality(Order),
     discrepancies : 0..(Cardinality(Order) + Cardinality(Entry)), knew : Known]

ASSUME ReconciliationAssumption ==
    /\ MaxAmount \in Nat
    /\ MaxPayouts \in Nat
    /\ RefOf \in [Order -> Ref \cup {None}]
    /\ Total \in [Order -> Amount]
    /\ Config \subseteq ReconciliationConfig
    /\ Row \subseteq FinancialLedger
    /\ None \notin Ref \cup Connection \cup Run \cup ReconciliationRun
    /\ IsFiniteSet(Order) /\ IsFiniteSet(Entry)

VARIABLES
    status,         \* orders: "absent", "PENDING", "CANCELLED" or "open" for the others
    ledger,         \* financial_ledger
    runs,           \* reconciliation_runs
    found,          \* discrepancies
    payouts,        \* payouts: how many rows there are of each kind
    reports,        \* settlement_reports
    desk,           \* where a request is and what it has read
    doubled,        \* history: payouts entered by hand or in two lists at the same time
    synced          \* history: payouts of lists that were answered

booksVars == <<status, ledger, runs, found, payouts, reports, desk, doubled, synced>>

--------------------------------------------------------------------------------
Status == {"absent", "PENDING", "open", "CANCELLED"}

(* of: the order, or the ledger entry whose order is missing.                 *)
Discrepancy ==
    [run : Run, kind : {"ORPHAN_ORDER", "AMOUNT_MISMATCH", "MISSING_ORDER"},
     of : Order \cup Entry, resolved : BOOLEAN]

(* dated: it has an expected_date.                                            *)
PayoutRow == [name : PlatformPayout, dated : BOOLEAN]

SettlementReport == [entries : SUBSET Entry, final : BOOLEAN,
                     payouts : [PlatformPayout -> 0..MaxPayouts]]

Away == [at |-> "away"]

Reconciling ==
    [at : {"orders", "order", "entry"}, run : Run,
     connection : Connection \cup {None}, config : Config,
     todo : SUBSET (Order \cup Entry), checked : 0..Cardinality(Order),
     matched : 0..Cardinality(Order), findings : SUBSET Discrepancy,
     knew : Known]

Syncing == [at : {"sync"}, todo : SUBSET PlatformPayout,
            new : SUBSET PlatformPayout, old : SUBSET PlatformPayout]

Settling == [at : {"settle"}, entries : SUBSET Entry]

BooksTypeOK ==
    /\ status \in [Order -> Status]
    /\ ledger \in [Entry -> FinancialLedger \cup {None}]
    /\ runs \in [Run -> ReconciliationRun \cup {None}]
    /\ found \in SUBSET Discrepancy
    /\ payouts \in [PayoutRow -> 0..MaxPayouts]
    /\ reports \in [Report -> SettlementReport \cup {None}]
    /\ desk \in [Clerk -> {Away} \cup Reconciling \cup Syncing \cup Settling]
    /\ doubled \in SUBSET PlatformPayout
    /\ synced \in SUBSET PlatformPayout

BooksInit ==
    /\ status = [o \in Order |-> "absent"]
    /\ ledger = [e \in Entry |-> None]
    /\ runs = [r \in Run |-> None]
    /\ found = {}
    /\ payouts = [row \in PayoutRow |-> 0]
    /\ reports = [s \in Report |-> None]
    /\ desk = [t \in Clerk |-> Away]
    /\ doubled = {}
    /\ synced = {}

Sit(t, job) == desk' = [desk EXCEPT ![t] = job]

(* The request fails, or runs as a scheduled task, which commits nothing.     *)
GiveUp(t) ==
    /\ desk[t] # Away
    /\ Sit(t, Away)
    /\ UNCHANGED <<status, ledger, runs, found, payouts, reports, doubled, synced>>

--------------------------------------------------------------------------------
(* What others do                                                             *)

(* Orders as the other modules move them: placed (open at once when a         *)
(* platform was paid), progressing, and progressing again or refunded after   *)
(* they were cancelled.                                                       *)
MoveOrder(o) ==
    /\ \/ status[o] = "absent" /\ status' = [status EXCEPT ![o] = "PENDING"]
       \/ /\ status[o] \in {"absent", "PENDING", "CANCELLED"}
          /\ status' = [status EXCEPT ![o] = "open"]
    /\ UNCHANGED <<ledger, runs, found, payouts, reports, desk, doubled, synced>>

(* For the history: an order leaves the scope of a run under way that takes   *)
(* no cancelled ones.                                                         *)
WithoutCancelled(j, o) ==
    IF j.at \in {"orders", "order", "entry"} /\ ~ j.config.cancelled
    THEN [j EXCEPT !.knew.orders = @ \ {o}] ELSE j

CancelOrder(o) ==
    /\ status[o] \in {"PENDING", "open"}
    /\ status' = [status EXCEPT ![o] = "CANCELLED"]
    /\ desk' = [t \in Clerk |-> WithoutCancelled(desk[t], o)]
    /\ UNCHANGED <<ledger, runs, found, payouts, reports, doubled, synced>>

Stored == {e \in Entry : ledger[e] # None}

(* Entries are never changed in what is read here, nor deleted.               *)
CreateEntry(e, row) ==
    /\ e \notin Stored
    /\ ledger' = [ledger EXCEPT ![e] = row]
    /\ UNCHANGED <<status, runs, found, payouts, reports, desk, doubled, synced>>

--------------------------------------------------------------------------------
(* A reconciliation run                                                       *)

Excluded(k) == {"absent"} \cup (IF k.pending THEN {} ELSE {"PENDING"})
                          \cup (IF k.cancelled THEN {} ELSE {"CANCELLED"})

(* No code sets platform_connection_id of an order: a run for one connection  *)
(* has no order to check.                                                     *)
InScope(k, c) == IF c = None THEN {o \in Order : status[o] \notin Excluded(k)} ELSE {}

EntriesOf(ref) == {e \in Stored : ref # None /\ ledger[e].ref = ref}

(* The row of the run is flushed, and seen by nobody before the commit.       *)
StartRun(t, r, c, k) ==
    /\ desk[t] = Away
    /\ runs[r] = None
    /\ \A u \in Clerk : desk[u].at \in {"orders", "order", "entry"} => desk[u].run # r
    /\ Sit(t, [at |-> "orders", run |-> r, connection |-> c, config |-> k, todo |-> {},
               checked |-> 0, matched |-> 0, findings |-> {},
               knew |-> [orders |-> InScope(k, c), entries |-> Stored,
                         placed |-> {o \in Order : status[o] # "absent"}]])
    /\ UNCHANGED <<status, ledger, runs, found, payouts, reports, doubled, synced>>

SelectOrders(t) ==
    LET j == desk[t] IN
    /\ j.at = "orders"
    /\ ~ j.config.zoned
    /\ Sit(t, [j EXCEPT !.at = "order", !.todo = InScope(j.config, j.connection),
                        !.checked = Cardinality(InScope(j.config, j.connection))])
    /\ UNCHANGED <<status, ledger, runs, found, payouts, reports, doubled, synced>>

(* Mutant of FailRun: the status is left as it was.                           *)
FailRunSilently(t) ==
    LET j == desk[t] IN
    /\ j.at = "orders"
    /\ j.config.zoned
    /\ runs' = [runs EXCEPT ![j.run] =
           [connection |-> j.connection, config |-> j.config, status |-> "IN_PROGRESS",
            checked |-> 0, matched |-> 0, discrepancies |-> 0, knew |-> j.knew]]
    /\ Sit(t, Away)
    /\ UNCHANGED <<status, ledger, found, payouts, reports, doubled, synced>>

(* created_at of an order has no time zone: dates with one fail in the        *)
(* driver, the transaction survives, and the run is stored as FAILED.         *)
FailRun(t) ==
    LET j == desk[t] IN
    /\ j.at = "orders"
    /\ j.config.zoned
    /\ runs' = [runs EXCEPT ![j.run] =
           [connection |-> j.connection, config |-> j.config, status |-> "FAILED",
            checked |-> 0, matched |-> 0, discrepancies |-> 0, knew |-> j.knew]]
    /\ Sit(t, Away)
    /\ UNCHANGED <<status, ledger, found, payouts, reports, doubled, synced>>

Off(a, b) == IF a > b THEN a - b ELSE b - a

Finding(j, kind, of, off) ==
    [run |-> j.run, kind |-> kind, of |-> of,
     resolved |-> kind = "AMOUNT_MISMATCH" /\ j.config.autoResolve /\ off <= j.config.minor]

(* Mutant of CheckOrder: an amount at the tolerance mismatches already.       *)
CheckOrderStrict(t, o) ==
    LET j == desk[t]
        k == j.config
        matches == IF k.byId THEN EntriesOf(RefOf[o]) ELSE {}
    IN /\ j.at = "order"
       /\ o \in j.todo
       /\ \E e \in matches :
             LET off == Off(Total[o], ledger[e].gross) IN
             Sit(t, [j EXCEPT !.todo = @ \ {o}, !.matched = @ + 1,
                              !.findings = IF k.byAmount /\ off >= k.tolerance
                                           THEN @ \cup {Finding(j, "AMOUNT_MISMATCH", o, off)}
                                           ELSE @])
       /\ UNCHANGED <<status, ledger, runs, found, payouts, reports, doubled, synced>>

(* The ledger is read for one order; of several entries any may come first.   *)
(* (Whether it stands for the payment or for a fee is not asked.)             *)
CheckOrder(t, o) ==
    LET j == desk[t]
        k == j.config
        matches == IF k.byId THEN EntriesOf(RefOf[o]) ELSE {}
        done == [j EXCEPT !.todo = @ \ {o}]
    IN /\ j.at = "order"
       /\ o \in j.todo
       /\ \/ /\ matches = {}
             /\ Sit(t, [done EXCEPT !.findings = @ \cup {Finding(j, "ORPHAN_ORDER", o, 0)}])
          \/ \E e \in matches :
                LET off == Off(Total[o], ledger[e].gross) IN
                Sit(t, [done EXCEPT
                          !.matched = @ + 1,
                          !.findings = IF k.byAmount /\ off > k.tolerance
                                       THEN @ \cup {Finding(j, "AMOUNT_MISMATCH", o, off)}
                                       ELSE @])
       /\ UNCHANGED <<status, ledger, runs, found, payouts, reports, doubled, synced>>

(* Of a run for one connection: its entries that name an order ...            *)
SelectLedgers(t) ==
    LET j == desk[t] IN
    /\ j.at = "order" /\ j.todo = {} /\ j.connection # None
    /\ Sit(t, [j EXCEPT !.at = "entry",
                        !.todo = {e \in Stored : /\ ledger[e].connection = j.connection
                                                 /\ ledger[e].ref # None}])
    /\ UNCHANGED <<status, ledger, runs, found, payouts, reports, doubled, synced>>

(* ... and for each whether there is such an order, whatever its status.      *)
CheckEntry(t, e) ==
    LET j == desk[t]
        missing == \A o \in Order : status[o] # "absent" => RefOf[o] # ledger[e].ref
    IN /\ j.at = "entry"
       /\ e \in j.todo
       /\ Sit(t, [j EXCEPT !.todo = @ \ {e},
                           !.findings = IF missing
                                        THEN @ \cup {Finding(j, "MISSING_ORDER", e, 0)} ELSE @])
       /\ UNCHANGED <<status, ledger, runs, found, payouts, reports, doubled, synced>>

(* Mutant of FinishRun: what was resolved at once does not count.             *)
FinishRunLenient(t) ==
    LET j == desk[t] IN
    /\ j.at = "entry" \/ (j.at = "order" /\ j.connection = None)
    /\ j.todo = {}
    /\ runs' = [runs EXCEPT ![j.run] =
           [connection |-> j.connection, config |-> j.config,
            status |-> IF \A d \in j.findings : d.resolved THEN "COMPLETED" ELSE "PARTIAL",
            checked |-> j.checked, matched |-> j.matched,
            discrepancies |-> Cardinality(j.findings), knew |-> j.knew]]
    /\ found' = found \cup j.findings
    /\ Sit(t, Away)
    /\ UNCHANGED <<status, ledger, payouts, reports, doubled, synced>>

FinishRun(t) ==
    LET j == desk[t] IN
    /\ j.at = "entry" \/ (j.at = "order" /\ j.connection = None)
    /\ j.todo = {}
    /\ runs' = [runs EXCEPT ![j.run] =
           [connection |-> j.connection, config |-> j.config,
            status |-> IF j.findings = {} THEN "COMPLETED" ELSE "PARTIAL",
            checked |-> j.checked, matched |-> j.matched,
            discrepancies |-> Cardinality(j.findings), knew |-> j.knew]]
    /\ found' = found \cup j.findings
    /\ Sit(t, Away)
    /\ UNCHANGED <<status, ledger, payouts, reports, doubled, synced>>

(* Staff resolve a discrepancy, or open it again.                             *)
UpdateDiscrepancy(d, resolved) ==
    /\ d \in found
    /\ found' = (found \ {d}) \cup {[d EXCEPT !.resolved = resolved]}
    /\ UNCHANGED <<status, ledger, runs, payouts, reports, desk, doubled, synced>>

--------------------------------------------------------------------------------
(* Payouts                                                                    *)

Dated(n) == payouts[[name |-> n, dated |-> TRUE]]
Copies(n) == payouts[[name |-> n, dated |-> FALSE]] + Dated(n)

(* By hand: nobody looks whether the payout is there.                         *)
CreatePayout(row) ==
    /\ Copies(row.name) < MaxPayouts
    /\ payouts' = [payouts EXCEPT ![row] = @ + 1]
    /\ doubled' = doubled \cup {row.name}
    /\ UNCHANGED <<status, ledger, runs, found, reports, desk, synced>>

InList(t, n) == desk[t].at = "sync" /\ n \in desk[t].todo \cup desk[t].new \cup desk[t].old

StartSync(t, list) ==
    /\ desk[t] = Away
    /\ Sit(t, [at |-> "sync", todo |-> list, new |-> {}, old |-> {}])
    /\ doubled' = doubled \cup {n \in list : \E u \in Clerk : InList(u, n)}
    /\ UNCHANGED <<status, ledger, runs, found, payouts, reports, synced>>

(* Mutant of SyncPayout: every payout of the list is new.                     *)
SyncPayoutBlindly(t, name) ==
    LET j == desk[t] IN
    /\ j.at = "sync"
    /\ name \in j.todo
    /\ Sit(t, [j EXCEPT !.todo = @ \ {name}, !.new = @ \cup {name}])
    /\ UNCHANGED <<status, ledger, runs, found, payouts, reports, doubled, synced>>

(* One SELECT for each payout of the list; two copies make it raise, and the  *)
(* whole list is lost (GiveUp).                                               *)
SyncPayout(t, name) ==
    LET j == desk[t] IN
    /\ j.at = "sync"
    /\ name \in j.todo
    /\ \/ /\ Copies(name) = 0
          /\ Sit(t, [j EXCEPT !.todo = @ \ {name}, !.new = @ \cup {name}])
       \/ /\ Copies(name) = 1
          /\ Sit(t, [j EXCEPT !.todo = @ \ {name}, !.old = @ \cup {name}])
    /\ UNCHANGED <<status, ledger, runs, found, payouts, reports, doubled, synced>>

(* The new payouts are stored together.  JSON brings dates as text, which the *)
(* database refuses, so that no payout that was stored by a sync is dated.    *)
FinishSync(t) ==
    LET j == desk[t] IN
    /\ j.at = "sync"
    /\ j.todo = {}
    /\ \A n \in j.new : Copies(n) < MaxPayouts
    /\ payouts' = [row \in PayoutRow |->
           payouts[row] + (IF row.name \in j.new /\ ~ row.dated THEN 1 ELSE 0)]
    /\ synced' = synced \cup j.new \cup j.old
    /\ Sit(t, Away)
    /\ UNCHANGED <<status, ledger, runs, found, reports, doubled>>

--------------------------------------------------------------------------------
(* Settlement reports                                                         *)

StartReport(t) ==
    /\ desk[t] = Away
    /\ Sit(t, [at |-> "settle", entries |-> Stored])
    /\ UNCHANGED <<status, ledger, runs, found, payouts, reports, doubled, synced>>

(* A second SELECT finds the payouts that are expected in the period.         *)
FinishReport(t, s) ==
    /\ desk[t].at = "settle"
    /\ reports[s] = None
    /\ reports' = [reports EXCEPT ![s] =
           [entries |-> desk[t].entries, final |-> FALSE,
            payouts |-> [n \in PlatformPayout |-> Dated(n)]]]
    /\ Sit(t, Away)
    /\ UNCHANGED <<status, ledger, runs, found, payouts, doubled, synced>>

Finalize(s) ==
    /\ reports[s] # None
    /\ reports' = [reports EXCEPT ![s].final = TRUE]
    /\ UNCHANGED <<status, ledger, runs, found, payouts, desk, doubled, synced>>

--------------------------------------------------------------------------------
BooksNext ==
    \/ \E o \in Order : MoveOrder(o) \/ CancelOrder(o)
    \/ \E e \in Entry, row \in Row : CreateEntry(e, row)
    \/ \E t \in Clerk :
           \/ GiveUp(t)
           \/ \E r \in Run, c \in Connection \cup {None}, k \in Config : StartRun(t, r, c, k)
           \/ SelectOrders(t)
           \/ FailRun(t)
           \/ \E o \in Order : CheckOrder(t, o)
           \/ SelectLedgers(t)
           \/ \E e \in Entry : CheckEntry(t, e)
           \/ FinishRun(t)
           \/ \E list \in SUBSET PlatformPayout : StartSync(t, list)
           \/ \E name \in PlatformPayout : SyncPayout(t, name)
           \/ FinishSync(t)
           \/ StartReport(t)
           \/ \E s \in Report : FinishReport(t, s)
    \/ \E d \in found, resolved \in BOOLEAN : UpdateDiscrepancy(d, resolved)
    \/ \E row \in PayoutRow : CreatePayout(row)
    \/ \E s \in Report : Finalize(s)

BooksSpec == BooksInit /\ [][BooksNext]_booksVars

--------------------------------------------------------------------------------
(* Properties                                                                 *)

Within(o, e, k) == Off(Total[o], ledger[e].gross) <= k.tolerance

(* While orders and entries are written next to a run, what it accuses stands *)
(* up: an order it calls an orphan had no entry when the run began, of one    *)
(* with a wrong amount there is an entry that is too far off, and the order   *)
(* of an entry that it misses was not there when it began.                    *)
FindingsTrue ==
    \A d \in found :
        LET k == runs[d.run].config IN
        CASE d.kind = "ORPHAN_ORDER" ->
                k.byId => \A e \in runs[d.run].knew.entries :
                              ledger[e].ref # RefOf[d.of] \/ RefOf[d.of] = None
          [] d.kind = "AMOUNT_MISMATCH" ->
                \E e \in EntriesOf(RefOf[d.of]) :
                    Off(Total[d.of], ledger[e].gross) > k.tolerance
          [] d.kind = "MISSING_ORDER" ->
                \A o \in Order : RefOf[o] = ledger[d.of].ref =>
                                     o \notin runs[d.run].knew.placed

(* A run that says COMPLETED stays right, although orders come and go between *)
(* its SELECTs, and go on after it: an order that was in its scope all the    *)
(* time it ran has an entry, within the tolerance if amounts were compared;   *)
(* and for one connection, every entry that was there has its order.          *)
(* Its counts are those of the discrepancies it stored, resolved or not.      *)
CleanMeansClean ==
    \A r \in Run : runs[r] # None =>
        LET k == runs[r].config
            c == runs[r].connection
            rows == {d \in found : d.run = r}
            orphans == {d \in rows : d.kind = "ORPHAN_ORDER"}
        IN /\ runs[r].discrepancies = Cardinality(rows)
           /\ runs[r].checked = runs[r].matched + Cardinality(orphans)
           /\ runs[r].status = "COMPLETED" =>
                /\ \A o \in runs[r].knew.orders :
                       \E e \in EntriesOf(RefOf[o]) : k.byAmount => Within(o, e, k)
                /\ c # None =>
                      \A e \in runs[r].knew.entries :
                          ledger[e].connection = c /\ ledger[e].ref # None =>
                              \E o \in Order : status[o] # "absent" /\ RefOf[o] = ledger[e].ref

(* However lists are sent again, overlap or fail in the middle: a payout of a *)
(* list that was answered is stored, and stored once unless it was entered by *)
(* hand or two lists with it overlapped.                                      *)
PayoutsOnce ==
    \A n \in PlatformPayout :
        /\ n \in synced => Copies(n) > 0
        /\ n \notin doubled => Copies(n) <= 1
================================================================================
