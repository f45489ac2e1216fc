----------------------------- MODULE BooksProofs ---------------------------------
(******************************************************************************)
(* Proofs about Reconciliation and Analytics for any number of orders, ledger *)
(* entries, runs, payouts and requests, and for every day of the calendar.    *)
(******************************************************************************)
EXTENDS Analytics, FiniteSetTheorems, FunctionTheorems, TLAPS

--------------------------------------------------------------------------------
(* What requests and rows rely on                                             *)

Orphans(D) == {d \in D : d.kind = "ORPHAN_ORDER"}
OfRun(r) == {d \in found : d.run = r}

(* A run never accuses the same of the same twice.                            *)
Apart(D) == \A d, e \in D : d.run = e.run /\ d.kind = e.kind /\ d.of = e.of => d = e

(* What was there when a run began is there still.                            *)
Knows(knew) ==
    /\ knew.entries \subseteq Stored
    /\ \A o \in knew.placed : status[o] # "absent"

(* An accusation stands up.                                                   *)
Stands(d, k, knew) ==
    /\ d.kind = "ORPHAN_ORDER" /\ k.byId =>
         \A e \in knew.entries : ledger[e].ref # RefOf[d.of] \/ RefOf[d.of] = None
    /\ d.kind = "AMOUNT_MISMATCH" =>
         \E e \in EntriesOf(RefOf[d.of]) : Off(Total[d.of], ledger[e].gross) > k.tolerance
    /\ d.kind = "MISSING_ORDER" =>
         /\ d.of \in Stored
         /\ \A o \in knew.placed : RefOf[o] # ledger[d.of].ref

(* Nothing can be said against the orders, or the entries, but those to do.   *)
OrdersClean(k, knew, todo) ==
    \A o \in knew.orders \ todo :
        \E e \in EntriesOf(RefOf[o]) : k.byAmount => Within(o, e, k)
EntriesClean(c, knew, todo) ==
    \A e \in knew.entries \ todo :
        ledger[e].connection = c /\ ledger[e].ref # None =>
            \E o \in Order : status[o] # "absent" /\ RefOf[o] = ledger[e].ref

(* A run under way.  The orders that have been in its scope are, when it has  *)
(* not selected them yet, among those that it would select now.               *)
RunJob(j) ==
    /\ runs[j.run] = None
    /\ Knows(j.knew)
    /\ IsFiniteSet(j.findings) /\ Apart(j.findings)
    /\ \A d \in j.findings : d.run = j.run /\ Stands(d, j.config, j.knew)
    /\ j.connection # None => j.knew.orders = {}
    /\ j.at = "orders" =>
         /\ j.knew.orders \subseteq InScope(j.config, j.connection)
         /\ j.findings = {} /\ j.checked = 0 /\ j.matched = 0
    /\ j.at = "order" =>
         /\ j.todo \subseteq Order
         /\ \A d \in j.findings : d.kind # "MISSING_ORDER" /\ d.of \notin j.todo
         /\ j.checked = j.matched + Cardinality(Orphans(j.findings)) + Cardinality(j.todo)
         /\ Cardinality(j.findings) + Cardinality(j.todo) <= Cardinality(Order)
         /\ j.findings = {} => OrdersClean(j.config, j.knew, j.todo)
    /\ j.at = "entry" =>
         /\ j.connection # None
         /\ j.todo \subseteq Stored
         /\ \A d \in j.findings : d.kind = "MISSING_ORDER" => d.of \notin j.todo
         /\ j.checked = j.matched + Cardinality(Orphans(j.findings))
         /\ Cardinality(j.findings) + Cardinality(j.todo)
              <= Cardinality(Order) + Cardinality(Entry)
         /\ j.findings = {} => EntriesClean(j.connection, j.knew, j.todo)

(* A run that is over.                                                        *)
RunRow(r, row) ==
    /\ Knows(row.knew)
    /\ row.discrepancies = Cardinality(OfRun(r))
    /\ row.checked = row.matched + Cardinality(Orphans(OfRun(r)))
    /\ row.status = "COMPLETED" =>
         /\ OrdersClean(row.config, row.knew, {})
         /\ row.connection # None => EntriesClean(row.connection, row.knew, {})

RunsInv ==
    /\ \A r \in Run : runs[r] # None => RunRow(r, runs[r])
    /\ IsFiniteSet(found) /\ Apart(found)
    /\ \A d \in found : /\ runs[d.run] # None
                        /\ Stands(d, runs[d.run].config, runs[d.run].knew)

Reconciles(t) == desk[t] \in Reconciling

DeskInv ==
    /\ \A t \in Clerk : Reconciles(t) => RunJob(desk[t])
    /\ \A t, u \in Clerk : Reconciles(t) /\ Reconciles(u) /\ t # u => desk[t].run # desk[u].run

(* A payout that is only in one list is as that list has found it.            *)
PayoutsInv ==
    /\ \A t \in Clerk, n \in PlatformPayout : desk[t] \in Syncing =>
         /\ n \in desk[t].new /\ n \notin doubled => Copies(n) = 0
         /\ n \in desk[t].old => Copies(n) > 0
    /\ \A t, u \in Clerk, n \in PlatformPayout :
         t # u /\ InList(t, n) /\ InList(u, n) => n \in doubled
    /\ PayoutsOnce

(* What a report has read.                                                    *)
ReadingInv ==
    /\ today \in Day
    /\ reading.at = "dashboard" =>
         \A o \in reading.current : In(o, PeriodBoundaries(reading.period, today))
    /\ reading.at = "runs" => reading.discrepancies <= Cardinality(found)
    /\ reading.at = "ledger" => reading.overall <= Cardinality(Stored)
    /\ reading.at = "items" =>
         \A o \in reading.sold : status[o] = "CANCELLED" => o \in reading.cancelled
    /\ ReportsAddUp

BooksInv == BooksTypeOK /\ RunsInv /\ DeskInv /\ PayoutsInv

IInv == BooksInv /\ AnalyticsTypeOK /\ ReadingInv

--------------------------------------------------------------------------------
(* The calendar                                                               *)

(* The least of some natural numbers.                                         *)
LEMMA LeastNumber ==
    ASSUME NEW T \in SUBSET Nat, T # {}
    PROVE  \E n \in T : \A m \in T : n <= m
<1> DEFINE Less == {pair \in Nat \X Nat : pair[1] < pair[2]}
<1>1. IsWellFoundedOn(Less, Nat)
  BY NatLessThanWellFounded, Zenon DEF OpToRel
<1> HIDE DEF Less
<1>2. PICK n \in T : \A m \in T : ~ (<<m, n>> \in Less)
  BY <1>1, WFMin, Zenon
<1>3. \A m \in T : ~ (m < n)
  BY <1>2 DEF Less
<1> QED
  BY <1>2, <1>3

(* How long months are; those that begin a quarter have thirty days at least. *)
LEMMA MonthLength ==
    ASSUME NEW m \in Int
    PROVE  /\ FirstOf(m) \in Int
           /\ FirstOf(m + 1) - FirstOf(m) \in 28..31
           /\ m % 12 # 1 => FirstOf(m + 1) - FirstOf(m) \in 30..31
BY DEF FirstOf, NewYear, DaysBefore, LeapYear

(* A later month begins when the one before it has ended.                     *)
LEMMA MonthsFollow ==
    ASSUME NEW m \in Int, NEW n \in Int, m < n
    PROVE  FirstOf(m + 1) <= FirstOf(n)
BY DEF FirstOf, NewYear, DaysBefore, LeapYear

(* Months have 30 days on the average at least, and 31 at most.               *)
LEMMA MonthBounds ==
    ASSUME NEW m \in Nat
    PROVE  30 * m <= FirstOf(m) /\ FirstOf(m) <= 31 * m
BY DEF FirstOf, NewYear, DaysBefore, LeapYear

(* A day is in the month it is in.                                            *)
LEMMA MonthIs ==
    ASSUME NEW m \in Int, m >= -1, NEW d \in Int, FirstOf(m) <= d, d < FirstOf(m + 1)
    PROVE  MonthOf(d) = m
<1>1. m \in (d \div 31)..((d \div 30) + 1)
  <2>1. CASE m = -1
    <3>1. m + 1 = 0 /\ m \in Int
      BY <2>1
    <3>2. FirstOf(m) = 0 - 31 /\ FirstOf(m + 1) = 0
      BY <3>1 DEF FirstOf, NewYear, DaysBefore, LeapYear
    <3> QED
      BY <3>1, <3>2
  <2>2. CASE m \in Nat
    <3>1. 30 * m <= d /\ d < 31 * (m + 1)
      BY <2>2, MonthBounds, MonthLength, m + 1 \in Nat
    <3> QED
      BY <2>2, <3>1
  <2> QED
    BY <2>1, <2>2
<1>2. ASSUME NEW n \in Int, FirstOf(n) <= d, d < FirstOf(n + 1)
      PROVE  n = m
  <2>1. /\ FirstOf(m) \in Int /\ FirstOf(m + 1) \in Int
        /\ FirstOf(n) \in Int /\ FirstOf(n + 1) \in Int
    BY MonthLength
  <2>2. ~ (n < m) /\ ~ (m < n)
    BY <1>2, <2>1, MonthsFollow
  <2> QED
    BY <2>2
<1>3. \A n \in (d \div 31)..((d \div 30) + 1) :
          FirstOf(n) <= d /\ d < FirstOf(n + 1) => n = m
  BY <1>2
<1> QED
  BY <1>1, <1>3 DEF MonthOf

(* Every day is in a month.                                                   *)
LEMMA MonthExists ==
    ASSUME NEW d \in Nat
    PROVE  /\ MonthOf(d) \in Nat
           /\ FirstOf(MonthOf(d)) <= d /\ d < FirstOf(MonthOf(d) + 1)
<1> DEFINE Later == {m \in Nat : d < FirstOf(m)}
<1>1. d + 1 \in Later
  BY MonthBounds, MonthLength
<1>2. PICK n \in Later : \A m \in Later : n <= m
  BY <1>1, LeastNumber
<1>3. n > 0
  BY <1>2, MonthBounds, MonthLength
<1>4. n - 1 \in Nat /\ n - 1 \notin Later
  BY <1>2, <1>3
<1>5. FirstOf(n - 1) <= d /\ d < FirstOf((n - 1) + 1)
  BY <1>2, <1>4, MonthLength
<1>6. MonthOf(d) = n - 1
  BY <1>4, <1>5, MonthIs
<1> QED
  BY <1>4, <1>5, <1>6

(* The periods of a dashboard, on any day after the first month.              *)
LEMMA PeriodOfDay ==
    ASSUME NEW d \in Nat, d > 30, NEW p \in Period
    PROVE  LET b == PeriodBoundaries(p, d)
           IN  /\ b[1] \in Int /\ b[2] \in Int
               /\ Same(p, d, b[1]) /\ Same(p, d, b[2] - 1)
               /\ ~ Same(p, d, b[1] - 1) /\ ~ Same(p, d, b[2])
<1> DEFINE M == MonthOf(d)
<1>1. M \in Nat /\ M > 0 /\ FirstOf(M) <= d
  <2>1. M \in Nat /\ FirstOf(M) <= d /\ d < FirstOf(M + 1)
    BY MonthExists
  <2>2. FirstOf(1) = 31
    BY DEF FirstOf, NewYear, DaysBefore, LeapYear
  <2> QED
    BY <2>1, <2>2
<1>2. ASSUME NEW m \in Int, m >= -1
      PROVE  /\ FirstOf(m) \in Int /\ MonthOf(FirstOf(m)) = m
             /\ m >= 0 => MonthOf(FirstOf(m) - 1) = m - 1
  BY <1>2, MonthIs, MonthLength, (m - 1) + 1 = m
<1> HIDE DEF M
<1>3. CASE p \in {"today", "yesterday", "this_week", "last_week"}
  <2>1. CASE p = "today"
    <3>1. PeriodBoundaries(p, d) = <<d, d + 1>>
      BY <2>1 DEF PeriodBoundaries
    <3> QED
      BY <2>1, <3>1 DEF Same
  <2>2. CASE p = "yesterday"
    <3>1. PeriodBoundaries(p, d) = <<d - 1, d>>
      BY <2>2 DEF PeriodBoundaries
    <3> QED
      BY <2>2, <3>1 DEF Same
  <2>3. CASE p = "this_week"
    <3>1. PeriodBoundaries(p, d) = <<d - (d % 7), d - (d % 7) + 7>>
      BY <2>3 DEF PeriodBoundaries
    <3> QED
      BY <2>3, <3>1 DEF Same
  <2>4. CASE p = "last_week"
    <3>1. PeriodBoundaries(p, d) = <<d - ((d % 7) + 7), d - ((d % 7) + 7) + 7>>
      BY <2>4 DEF PeriodBoundaries
    <3> QED
      BY <2>4, <3>1 DEF Same
  <2> QED
    BY <1>3, <2>1, <2>2, <2>3, <2>4
<1>4. CASE p = "this_month"
  <2>1. NextMonth(FirstOf(M)) = FirstOf(M + 1)
    <3>1. FirstOf(M + 1) <= FirstOf(M) + 32 /\ FirstOf(M) + 32 < FirstOf((M + 1) + 1)
      BY <1>1, MonthLength
    <3>2. MonthOf(FirstOf(M) + 32) = M + 1
      BY <1>1, <3>1, MonthIs, MonthLength
    <3> QED
      BY <3>2 DEF NextMonth, Day1
  <2>2. PeriodBoundaries(p, d) = <<FirstOf(M), FirstOf(M + 1)>>
    BY <1>4, <2>1 DEF PeriodBoundaries, Day1, M
  <2>3. (M + 1) - 1 = M /\ M + 1 >= -1 /\ M >= -1 /\ M + 1 \in Int /\ M \in Int
    BY <1>1
  <2>4. /\ MonthOf(FirstOf(M)) = M /\ MonthOf(FirstOf(M) - 1) = M - 1
        /\ MonthOf(FirstOf(M + 1)) = M + 1 /\ MonthOf(FirstOf(M + 1) - 1) = M
        /\ FirstOf(M) \in Int /\ FirstOf(M + 1) \in Int
    BY <1>1, <1>2, <2>3
  <2> QED
    BY <1>1, <1>4, <2>2, <2>4 DEF Same, M
<1>5. CASE p = "last_month"
  <2>1. M - 1 >= -1 /\ M - 1 >= 0 /\ M >= -1 /\ M - 1 \in Int /\ M \in Int
    BY <1>1
  <2>2. /\ MonthOf(FirstOf(M)) = M /\ MonthOf(FirstOf(M) - 1) = M - 1
        /\ MonthOf(FirstOf(M - 1)) = M - 1 /\ MonthOf(FirstOf(M - 1) - 1) = (M - 1) - 1
        /\ FirstOf(M) \in Int /\ FirstOf(M - 1) \in Int
    BY <1>1, <1>2, <2>1
  <2>3. PeriodBoundaries(p, d) = <<FirstOf(M - 1), FirstOf(M)>>
    BY <1>5, <2>2 DEF PeriodBoundaries, Day1, M
  <2> QED
    BY <1>1, <1>5, <2>2, <2>3 DEF Same, M
<1>6. CASE p = "this_quarter"
  <2> DEFINE q == 3 * (M \div 3)
  <2>1. q \in Nat /\ q % 12 # 1 /\ q + 3 \in Nat /\ q \div 3 = M \div 3
        /\ (q + 3) \div 3 = (M \div 3) + 1 /\ (q + 2) \div 3 = M \div 3
        /\ (q - 1) \div 3 = (M \div 3) - 1 /\ (q + 3) % 12 # 1
    BY <1>1
  <2> HIDE DEF q
  <2>2. /\ FirstOf(q) \in Int /\ FirstOf(q + 3) \in Int /\ FirstOf(q + 4) \in Int
        /\ FirstOf(q + 3) <= FirstOf(q) + 95 /\ FirstOf(q) + 95 < FirstOf(q + 4)
    <3>1. /\ FirstOf(q) \in Int
          /\ FirstOf(q + 1) \in FirstOf(q) + 30..FirstOf(q) + 31
      BY <2>1, MonthLength
    <3>2. ASSUME NEW m \in Int, NEW n \in Int, n = m + 1
          PROVE  FirstOf(n) \in FirstOf(m) + 28..FirstOf(m) + 31 /\ FirstOf(m) \in Int
      BY <3>2, MonthLength
    <3>3. /\ FirstOf(q + 2) \in FirstOf(q + 1) + 28..FirstOf(q + 1) + 31
          /\ FirstOf(q + 3) \in FirstOf(q + 2) + 28..FirstOf(q + 2) + 31
          /\ FirstOf(q + 4) \in FirstOf(q + 3) + 28..FirstOf(q + 3) + 31
      <4>1. /\ q + 1 \in Int /\ q + 2 \in Int /\ q + 3 \in Int /\ q + 4 \in Int
            /\ q + 2 = (q + 1) + 1 /\ q + 3 = (q + 2) + 1 /\ q + 4 = (q + 3) + 1
        BY <2>1
      <4> QED
        BY <3>2, <4>1
    <3> QED
      BY <3>1, <3>3
  <2>3. Day1(FirstOf(q) + 95) = FirstOf(q + 3)
    <3>1. MonthOf(FirstOf(q) + 95) = q + 3
      BY <2>1, <2>2, MonthIs, (q + 3) + 1 = q + 4
    <3> QED
      BY <3>1 DEF Day1
  <2>4. PeriodBoundaries(p, d) = <<FirstOf(q), FirstOf(q + 3)>>
    BY <1>6, <2>3 DEF PeriodBoundaries, M, q
  <2>5. /\ MonthOf(FirstOf(q)) = q /\ MonthOf(FirstOf(q) - 1) = q - 1
        /\ MonthOf(FirstOf(q + 3)) = q + 3 /\ MonthOf(FirstOf(q + 3) - 1) = q + 2
    BY <1>2, <2>1, (q + 3) - 1 = q + 2
  <2> QED
    BY <1>1, <1>6, <2>1, <2>2, <2>4, <2>5 DEF Same, M
<1>7. CASE p = "this_year"
  <2> DEFINE y == 12 * (M \div 12)
  <2>1. y \in Nat /\ y + 12 \in Nat /\ y \div 12 = M \div 12
        /\ (y + 12) \div 12 = (M \div 12) + 1 /\ (y + 11) \div 12 = M \div 12
        /\ (y - 1) \div 12 = (M \div 12) - 1
    BY <1>1
  <2>2. PeriodBoundaries(p, d) = <<FirstOf(y), FirstOf(y + 12)>>
    BY <1>7 DEF PeriodBoundaries, M
  <2> HIDE DEF y
  <2>3. /\ MonthOf(FirstOf(y)) = y /\ MonthOf(FirstOf(y) - 1) = y - 1
        /\ MonthOf(FirstOf(y + 12)) = y + 12 /\ MonthOf(FirstOf(y + 12) - 1) = y + 11
        /\ FirstOf(y) \in Int /\ FirstOf(y + 12) \in Int
    BY <1>2, <2>1, (y + 12) - 1 = y + 11
  <2> QED
    BY <1>1, <1>7, <2>1, <2>2, <2>3 DEF Same, M
<1> QED
  BY <1>3, <1>4, <1>5, <1>6, <1>7 DEF Period

--------------------------------------------------------------------------------
(* Requests, and what orders and entries may become under them                *)

Job == {Away} \cup Reconciling \cup Syncing \cup Settling

(* What a request is at tells what kind it is of.                             *)
LEMMA Kinds ==
    ASSUME NEW j \in Job
    PROVE  /\ j.at \in {"orders", "order", "entry"} <=> j \in Reconciling
           /\ j.at = "sync" <=> j \in Syncing
           /\ j.at = "settle" <=> j \in Settling
           /\ j.at = "away" <=> j = Away
           /\ j \in Reconciling => j \notin Syncing
<1>1. CASE j = Away
  BY <1>1 DEF Away, Reconciling, Syncing, Settling
<1>2. CASE j \in Reconciling
  BY <1>2 DEF Away, Reconciling, Syncing, Settling
<1>3. CASE j \in Syncing
  BY <1>3 DEF Away, Reconciling, Syncing, Settling
<1>4. CASE j \in Settling
  BY <1>4 DEF Away, Reconciling, Syncing, Settling
<1> QED
  BY <1>1, <1>2, <1>3, <1>4 DEF Job

(* The types that a run's fields have.                                        *)
LEMMA RunFields ==
    ASSUME NEW j \in Reconciling
    PROVE  /\ j.at \in {"orders", "order", "entry"} /\ j.run \in Run
           /\ j.connection \in Connection \cup {None} /\ j.config \in Config
           /\ j.todo \in SUBSET (Order \cup Entry)
           /\ j.checked \in 0..Cardinality(Order) /\ j.matched \in 0..Cardinality(Order)
           /\ j.findings \in SUBSET Discrepancy /\ j.knew \in Known
BY DEF Reconciling

(* How many orders and entries there are.                                     *)
LEMMA Sizes == Cardinality(Order) \in Nat /\ Cardinality(Entry) \in Nat
BY ReconciliationAssumption, FS_CardinalityType

(* A configuration's switches and amounts.                                    *)
LEMMA ConfigFields ==
    ASSUME NEW k \in Config
    PROVE  /\ k.byId \in BOOLEAN /\ k.byAmount \in BOOLEAN /\ k.pending \in BOOLEAN
           /\ k.cancelled \in BOOLEAN /\ k.tolerance \in Amount
BY ReconciliationAssumption DEF ReconciliationConfig

(* A status and one that an order may have after it: an order that was placed *)
(* stays placed, and is not pending again.                                    *)
Follows(a, b) == b = a \/ a = "absent" \/ b \in {"open", "CANCELLED"}

(* Orders go on and entries are added.                                        *)
Later ==
    /\ \A o \in Order : status'[o] \in Status /\ Follows(status[o], status'[o])
    /\ \A e \in Stored : ledger'[e] = ledger[e]

(* What was there when a run began stays.                                     *)
LEMMA KnowsKept ==
    ASSUME Later, NEW knew \in Known, Knows(knew)
    PROVE  Knows(knew)'
<1>1. knew.entries \subseteq Entry /\ knew.placed \subseteq Order
  BY DEF Known
<1>2. Stored \subseteq Stored'
  BY DEF Later, Stored
<1>3. \A o \in Order : status[o] # "absent" => status'[o] # "absent"
  BY DEF Later, Follows
<1> QED
  BY <1>1, <1>2, <1>3 DEF Knows

(* An accusation stands up still.                                             *)
LEMMA StandsKept ==
    ASSUME Later, NEW knew \in Known, NEW k \in Config, Knows(knew),
           NEW d \in Discrepancy, Stands(d, k, knew)
    PROVE  Stands(d, k, knew)'
<1>1. \A e \in Stored : e \in Stored' /\ ledger'[e] = ledger[e]
  BY DEF Later, Stored
<1>2. knew.entries \subseteq Stored
  BY DEF Knows
<1>3. \A ref : EntriesOf(ref) \subseteq EntriesOf(ref)' /\ EntriesOf(ref) \subseteq Stored
  BY <1>1 DEF EntriesOf
<1> QED
  BY <1>1, <1>2, <1>3 DEF Stands

(* An order that has its entry keeps it.                                      *)
LEMMA OrdersCleanKept ==
    ASSUME Later, NEW k, NEW knew, NEW todo, OrdersClean(k, knew, todo)
    PROVE  OrdersClean(k, knew, todo)'
<1>1. \A e \in Stored : e \in Stored' /\ ledger'[e] = ledger[e]
  BY DEF Later, Stored
<1>2. \A ref : EntriesOf(ref) \subseteq EntriesOf(ref)' /\ EntriesOf(ref) \subseteq Stored
  BY <1>1 DEF EntriesOf
<1>3. ASSUME NEW o \in knew.orders \ todo
      PROVE  \E e \in EntriesOf(RefOf[o])' : k.byAmount => Within(o, e, k)'
  <2>1. PICK e \in EntriesOf(RefOf[o]) : k.byAmount => Within(o, e, k)
    BY <1>3 DEF OrdersClean
  <2>2. e \in EntriesOf(RefOf[o])' /\ ledger'[e] = ledger[e]
    BY <1>1, <1>2, <2>1
  <2> QED
    BY <2>1, <2>2 DEF Within
<1> QED
  BY <1>3 DEF OrdersClean

(* An entry whose order was there has it still.                               *)
LEMMA EntriesCleanKept ==
    ASSUME Later, NEW knew \in Known, Knows(knew), NEW c, NEW todo, EntriesClean(c, knew, todo)
    PROVE  EntriesClean(c, knew, todo)'
<1>1. \A e \in knew.entries : ledger'[e] = ledger[e]
  BY DEF Later, Knows
<1>2. \A o \in Order : status[o] # "absent" => status'[o] # "absent"
  BY DEF Later, Follows
<1> QED
  BY <1>1, <1>2 DEF EntriesClean

(* A run under way is as good as before, also when an order has left its      *)
(* scope.                                                                     *)
LEMMA RunJobKept ==
    ASSUME Later, NEW j \in Reconciling, RunJob(j), runs'[j.run] = runs[j.run],
           NEW n \in Reconciling, n.at = j.at, n.run = j.run, n.connection = j.connection,
           n.config = j.config, n.todo = j.todo, n.checked = j.checked, n.matched = j.matched,
           n.findings = j.findings, n.knew.entries = j.knew.entries,
           n.knew.placed = j.knew.placed, n.knew.orders \subseteq j.knew.orders,
           n.at = "orders" => n.knew.orders \subseteq InScope(n.config, n.connection)'
    PROVE  RunJob(n)'
<1>1. /\ j.knew \in Known /\ n.knew \in Known /\ j.config \in Config
      /\ Knows(j.knew) /\ Knows(n.knew)
  BY RunFields DEF RunJob, Knows
<1>2. Knows(n.knew)'
  BY <1>1, KnowsKept
<1>3. \A d \in n.findings : d.run = n.run /\ Stands(d, n.config, n.knew)'
  <2>1. \A d \in j.findings : d \in Discrepancy /\ d.run = j.run /\ Stands(d, j.config, j.knew)
    BY RunFields DEF RunJob
  <2>2. \A d \in n.findings : d \in Discrepancy /\ d.run = n.run /\ Stands(d, n.config, n.knew)
    BY <2>1 DEF Stands
  <2> QED
    BY <1>1, <2>2, StandsKept
<1>4. OrdersClean(j.config, j.knew, j.todo) => OrdersClean(n.config, n.knew, n.todo)'
  <2>1. OrdersClean(j.config, j.knew, j.todo) => OrdersClean(n.config, n.knew, n.todo)
    BY DEF OrdersClean
  <2> QED
    BY <2>1, OrdersCleanKept
<1>5. EntriesClean(j.connection, j.knew, j.todo) => EntriesClean(n.connection, n.knew, n.todo)'
  <2>1. EntriesClean(j.connection, j.knew, j.todo) => EntriesClean(n.connection, n.knew, n.todo)
    BY DEF EntriesClean
  <2> QED
    BY <1>1, <2>1, EntriesCleanKept
<1>6. Stored \subseteq Stored'
  BY DEF Later, Stored
<1>7. n.connection # None => n.knew.orders = {}
  BY DEF RunJob
<1>8. n.at = "orders" => n.findings = {} /\ n.checked = 0 /\ n.matched = 0
  BY DEF RunJob
<1>9. n.at = "order" =>
        /\ n.todo \subseteq Order
        /\ \A d \in n.findings : d.kind # "MISSING_ORDER" /\ d.of \notin n.todo
        /\ n.checked = n.matched + Cardinality(Orphans(n.findings)) + Cardinality(n.todo)
        /\ Cardinality(n.findings) + Cardinality(n.todo) <= Cardinality(Order)
        /\ n.findings = {} => OrdersClean(n.config, n.knew, n.todo)'
  BY <1>4 DEF RunJob
<1>10. n.at = "entry" =>
        /\ n.connection # None
        /\ n.todo \subseteq Stored'
        /\ \A d \in n.findings : d.kind = "MISSING_ORDER" => d.of \notin n.todo
        /\ n.checked = n.matched + Cardinality(Orphans(n.findings))
        /\ Cardinality(n.findings) + Cardinality(n.todo)
             <= Cardinality(Order) + Cardinality(Entry)
        /\ n.findings = {} => EntriesClean(n.connection, n.knew, n.todo)'
  BY <1>5, <1>6 DEF RunJob
<1>11. /\ runs'[n.run] = None
       /\ IsFiniteSet(n.findings) /\ Apart(n.findings)
  BY DEF RunJob
<1> QED
  BY <1>2, <1>3, <1>7, <1>8, <1>9, <1>10, <1>11 DEF RunJob, Orphans, Apart

(* A run under way, when no order moves.                                      *)
LEMMA RunJobSame ==
    ASSUME Later, status' = status, NEW j \in Reconciling, RunJob(j),
           runs'[j.run] = runs[j.run]
    PROVE  RunJob(j)'
<1>1. j.at = "orders" => j.knew.orders \subseteq InScope(j.config, j.connection)'
  BY DEF RunJob, InScope, Excluded
<1> QED
  BY <1>1, RunJobKept

(* A run that is over is as right as before.                                  *)
LEMMA RunRowKept ==
    ASSUME Later, status \in [Order -> Status], NEW r \in Run, NEW row \in ReconciliationRun,
           RunRow(r, row),
           Cardinality(OfRun(r)') = Cardinality(OfRun(r)),
           Cardinality(Orphans(OfRun(r)')) = Cardinality(Orphans(OfRun(r)))
    PROVE  RunRow(r, row)'
<1>1. row.knew \in Known /\ row.config \in Config /\ Knows(row.knew)
  BY DEF ReconciliationRun, RunRow
<1>2. Knows(row.knew)'
  BY <1>1, KnowsKept
<1>3. OrdersClean(row.config, row.knew, {}) => OrdersClean(row.config, row.knew, {})'
  BY <1>1, OrdersCleanKept
<1>4. EntriesClean(row.connection, row.knew, {}) => EntriesClean(row.connection, row.knew, {})'
  BY <1>1, EntriesCleanKept
<1> QED
  BY <1>2, <1>3, <1>4 DEF RunRow, Orphans

--------------------------------------------------------------------------------
(* What steps leave as it is                                                  *)

(* Where neither orders nor entries change.                                   *)
LEMMA Unmoved ==
    ASSUME BooksTypeOK, status' = status, ledger' = ledger
    PROVE  Later
BY DEF Later, Follows, BooksTypeOK

(* Stored runs and discrepancies, when none is written.                       *)
LEMMA RunsKept ==
    ASSUME BooksTypeOK, RunsInv, Later, runs' = runs, found' = found
    PROVE  RunsInv'
<1>1. /\ status \in [Order -> Status] /\ found \subseteq Discrepancy
      /\ runs \in [Run -> ReconciliationRun \cup {None}]
  BY DEF BooksTypeOK
<1>2. ASSUME NEW r \in Run, runs[r] # None
      PROVE  RunRow(r, runs[r])'
  <2>1. PICK row \in ReconciliationRun : row = runs[r]
    BY <1>1, <1>2
  <2>2. RunRow(r, row) /\ OfRun(r)' = OfRun(r)
    BY <1>2, <2>1 DEF RunsInv, OfRun
  <2>3. RunRow(r, row)'
    BY <1>1, <2>2, RunRowKept
  <2> QED
    BY <2>1, <2>3
<1>3. ASSUME NEW d \in found
      PROVE  runs[d.run] # None /\ Stands(d, runs[d.run].config, runs[d.run].knew)'
  <2>1. d \in Discrepancy /\ d.run \in Run /\ runs[d.run] # None
    BY <1>1, <1>3 DEF RunsInv, Discrepancy
  <2>2. PICK row \in ReconciliationRun : row = runs[d.run]
    BY <1>1, <2>1
  <2>3. Stands(d, row.config, row.knew) /\ Knows(row.knew)
        /\ row.config \in Config /\ row.knew \in Known
    BY <1>3, <2>1, <2>2 DEF RunsInv, RunRow, ReconciliationRun
  <2>4. Stands(d, row.config, row.knew)'
    BY <2>1, <2>3, StandsKept
  <2> QED
    BY <2>1, <2>2, <2>4
<1> QED
  BY <1>2, <1>3 DEF RunsInv, Apart

(* Runs under way, when one request does something.                           *)
LEMMA DeskKept ==
    ASSUME BooksTypeOK, DeskInv, Later, status' = status, NEW t \in Clerk, NEW j \in Job,
           desk' = [desk EXCEPT ![t] = j],
           \A u \in Clerk \ {t} : Reconciles(u) => runs'[desk[u].run] = runs[desk[u].run],
           j \in Reconciling =>
               /\ RunJob(j)'
               /\ \A u \in Clerk \ {t} : Reconciles(u) => desk[u].run # j.run
    PROVE  DeskInv'
<1>1. desk \in [Clerk -> Job]
  BY DEF BooksTypeOK, Job
<1>2. ASSUME NEW u \in Clerk, Reconciles(u)'
      PROVE  RunJob(desk[u])'
  <2>1. CASE u = t
    <3>1. desk'[u] = j
      BY <1>1, <2>1
    <3> QED
      BY <1>2, <3>1 DEF Reconciles
  <2>2. CASE u # t
    <3>1. desk'[u] = desk[u]
      BY <1>1, <2>2
    <3>2. PICK i \in Reconciling : i = desk[u]
      BY <1>2, <3>1 DEF Reconciles
    <3>3. RunJob(i) /\ runs'[i.run] = runs[i.run]
      BY <2>2, <3>2 DEF DeskInv, Reconciles
    <3>4. RunJob(i)'
      BY <1>1, <3>3, RunJobSame
    <3> QED
      BY <3>1, <3>2, <3>4
  <2> QED
    BY <2>1, <2>2
<1>3. ASSUME NEW u \in Clerk, NEW v \in Clerk, Reconciles(u)', Reconciles(v)', u # v
      PROVE  desk'[u].run # desk'[v].run
  BY <1>1, <1>3 DEF DeskInv, Reconciles
<1> QED
  BY <1>2, <1>3 DEF DeskInv

(* Runs under way, when no request does anything.                             *)
LEMMA DeskSame ==
    ASSUME BooksTypeOK, DeskInv, Later, UNCHANGED <<status, desk, runs>>
    PROVE  DeskInv'
<1>1. ASSUME NEW u \in Clerk, Reconciles(u)
      PROVE  RunJob(desk[u])'
  <2>1. PICK i \in Reconciling : i = desk[u]
    BY <1>1 DEF Reconciles
  <2>2. RunJob(i)
    BY <1>1, <2>1 DEF DeskInv
  <2>3. RunJob(i)'
    BY <2>2, RunJobSame
  <2> QED
    BY <2>1, <2>3
<1> QED
  BY <1>1 DEF DeskInv, Reconciles

(* Payouts and lists, when nothing is done about them.                        *)
LEMMA PayoutsKept ==
    ASSUME BooksTypeOK, PayoutsInv, UNCHANGED <<payouts, doubled, synced>>,
           desk' \in [Clerk -> Job],
           \A u \in Clerk : desk'[u] = desk[u] \/ desk'[u] \notin Syncing
    PROVE  PayoutsInv'
<1>1. \A n : Copies(n)' = Copies(n)
  BY DEF Copies, Dated
<1>2. \A u \in Clerk : desk'[u] \in Syncing => desk'[u] = desk[u]
  OBVIOUS
<1>3. \A u \in Clerk, n \in PlatformPayout : InList(u, n)' => InList(u, n)
  <2>1. \A u \in Clerk : desk'[u].at = "sync" => desk'[u] = desk[u]
    BY <1>2, Kinds
  <2> QED
    BY <2>1 DEF InList
<1>4. PayoutsOnce'
  BY <1>1 DEF PayoutsInv, PayoutsOnce
<1> QED
  BY <1>1, <1>2, <1>3, <1>4 DEF PayoutsInv

(* A step of a run that stores nothing yet.                                   *)
LEMMA RunStep ==
    ASSUME BooksInv, NEW t \in Clerk, desk[t] \in {Away} \cup Reconciling, NEW j \in Reconciling,
           RunJob(j), \A u \in Clerk \ {t} : Reconciles(u) => desk[u].run # j.run,
           desk' = [desk EXCEPT ![t] = j],
           UNCHANGED <<status, ledger, runs, found, payouts, reports, doubled, synced>>
    PROVE  BooksInv'
<1>1. BooksTypeOK /\ RunsInv /\ DeskInv /\ PayoutsInv /\ Later
  BY Unmoved DEF BooksInv
<1>2. desk \in [Clerk -> Job] /\ status \in [Order -> Status]
  BY <1>1 DEF BooksTypeOK, Job
<1>3. j \in Job /\ j \notin Syncing
  BY Kinds DEF Job
<1>4. desk' \in [Clerk -> Job]
  BY <1>2, <1>3
<1>5. BooksTypeOK'
  BY <1>1, <1>4 DEF BooksTypeOK, Job
<1>6. RunsInv'
  BY <1>1, RunsKept
<1>7. RunJob(j)'
  BY <1>1, <1>2, RunJobSame
<1>8. DeskInv'
  BY <1>1, <1>3, <1>7, DeskKept
<1>9. PayoutsInv'
  BY <1>1, <1>2, <1>3, <1>4, PayoutsKept
<1> QED
  BY <1>5, <1>6, <1>8, <1>9 DEF BooksInv

(* A request that ends with nothing stored, or collects entries for a report. *)
LEMMA OtherStep ==
    ASSUME BooksInv, NEW t \in Clerk, NEW j \in {Away} \cup Settling,
           desk' = [desk EXCEPT ![t] = j],
           UNCHANGED <<status, ledger, runs, found, payouts, doubled, synced>>,
           reports' \in [Report -> SettlementReport \cup {None}]
    PROVE  BooksInv'
<1>1. BooksTypeOK /\ RunsInv /\ DeskInv /\ PayoutsInv /\ Later
  BY Unmoved DEF BooksInv
<1>2. desk \in [Clerk -> Job]
  BY <1>1 DEF BooksTypeOK, Job
<1>3. j \in Job
  BY DEF Job
<1>4. j \notin Syncing /\ j \notin Reconciling
  BY <1>3, Kinds DEF Away, Settling
<1>5. desk' \in [Clerk -> Job]
  BY <1>2, <1>3
<1>6. BooksTypeOK'
  BY <1>1, <1>5 DEF BooksTypeOK, Job
<1>7. RunsInv'
  BY <1>1, RunsKept
<1>8. DeskInv'
  BY <1>1, <1>3, <1>4, DeskKept
<1>9. PayoutsInv'
  BY <1>1, <1>2, <1>4, <1>5, PayoutsKept
<1> QED
  BY <1>6, <1>7, <1>8, <1>9 DEF BooksInv

(* Orders go on, and some leave the scope of runs under way.                  *)
LEMMA OrderStep ==
    ASSUME BooksInv, Later, status' \in [Order -> Status], desk' \in [Clerk -> Job],
           UNCHANGED <<ledger, runs, found, payouts, reports, doubled, synced>>,
           \A u \in Clerk : desk'[u] = desk[u] \/ desk'[u] \notin Syncing,
           \A u \in Clerk : Reconciles(u)' =>
               Reconciles(u) /\ desk'[u].run = desk[u].run /\ RunJob(desk[u])'
    PROVE  BooksInv'
<1>1. BooksTypeOK /\ RunsInv /\ DeskInv /\ PayoutsInv
  BY DEF BooksInv
<1>2. BooksTypeOK'
  BY <1>1 DEF BooksTypeOK, Job
<1>3. RunsInv'
  BY <1>1, RunsKept
<1>4. DeskInv'
  BY <1>1 DEF DeskInv
<1>5. PayoutsInv'
  BY <1>1, PayoutsKept
<1> QED
  BY <1>2, <1>3, <1>4, <1>5 DEF BooksInv

--------------------------------------------------------------------------------
(* A run, step by step                                                        *)

(* One accusation more.                                                       *)
LEMMA OneMore ==
    ASSUME NEW D \in SUBSET Discrepancy, IsFiniteSet(D), Apart(D), NEW d \in Discrepancy,
           \A e \in D : ~ (e.run = d.run /\ e.kind = d.kind /\ e.of = d.of)
    PROVE  /\ D \cup {d} \in SUBSET Discrepancy
           /\ IsFiniteSet(D \cup {d}) /\ Apart(D \cup {d})
           /\ Cardinality(D \cup {d}) = Cardinality(D) + 1
           /\ Cardinality(Orphans(D \cup {d})) =
                Cardinality(Orphans(D)) + (IF d.kind = "ORPHAN_ORDER" THEN 1 ELSE 0)
<1>1. d \notin D
  OBVIOUS
<1>2. IsFiniteSet(D \cup {d}) /\ Cardinality(D \cup {d}) = Cardinality(D) + 1
  BY <1>1, FS_AddElement
<1>3. Apart(D \cup {d})
  BY DEF Apart
<1>4. IsFiniteSet(Orphans(D)) /\ Cardinality(Orphans(D)) \in Nat
  <2>1. Orphans(D) \in SUBSET D
    BY DEF Orphans
  <2> QED
    BY <2>1, FS_Subset, FS_CardinalityType
<1>5. CASE d.kind = "ORPHAN_ORDER"
  <2>1. Orphans(D \cup {d}) = Orphans(D) \cup {d} /\ d \notin Orphans(D)
    BY <1>1, <1>5 DEF Orphans
  <2> QED
    BY <1>2, <1>3, <1>4, <1>5, <2>1, FS_AddElement
<1>6. CASE d.kind # "ORPHAN_ORDER"
  <2>1. Orphans(D \cup {d}) = Orphans(D)
    BY <1>6 DEF Orphans
  <2> QED
    BY <1>2, <1>3, <1>4, <1>6, <2>1
<1> QED
  BY <1>5, <1>6

(* Fewer to do.                                                               *)
LEMMA OneLess ==
    ASSUME NEW S, IsFiniteSet(S), NEW x \in S
    PROVE  /\ IsFiniteSet(S \ {x}) /\ Cardinality(S \ {x}) = Cardinality(S) - 1
           /\ Cardinality(S) \in Nat
BY FS_RemoveElement, FS_CardinalityType

(* The accusations of a run.                                                  *)
LEMMA FindingIs ==
    ASSUME NEW j \in Reconciling, NEW off \in Amount, NEW of \in Order \cup Entry,
           NEW kind \in {"ORPHAN_ORDER", "AMOUNT_MISMATCH", "MISSING_ORDER"}
    PROVE  /\ Finding(j, kind, of, off) \in Discrepancy
           /\ Finding(j, kind, of, off).run = j.run
           /\ Finding(j, kind, of, off).kind = kind
           /\ Finding(j, kind, of, off).of = of
<1>1. j.run \in Run
  BY RunFields
<1> QED
  BY <1>1 DEF Finding, Discrepancy

(* Amounts differ by an amount.                                               *)
LEMMA OffIs ==
    ASSUME NEW a \in Amount, NEW b \in Amount
    PROVE  Off(a, b) \in Amount
BY ReconciliationAssumption DEF Off, Amount

(* The row of a run is flushed.                                               *)
LEMMA StartRunKeeps ==
    ASSUME BooksInv, NEW t \in Clerk, NEW r \in Run, NEW c \in Connection \cup {None},
           NEW k \in Config, StartRun(t, r, c, k)
    PROVE  BooksInv'
<1> DEFINE knew == [orders |-> InScope(k, c), entries |-> Stored,
                    placed |-> {o \in Order : status[o] # "absent"}]
           j == [at |-> "orders", run |-> r, connection |-> c, config |-> k, todo |-> {},
                 checked |-> 0, matched |-> 0, findings |-> {}, knew |-> knew]
<1>1. BooksTypeOK /\ desk \in [Clerk -> Job] /\ status \in [Order -> Status]
  BY DEF BooksInv, BooksTypeOK, Job
<1>2. /\ desk[t] = Away /\ runs[r] = None
      /\ \A u \in Clerk : desk[u].at \in {"orders", "order", "entry"} => desk[u].run # r
      /\ desk' = [desk EXCEPT ![t] = j]
      /\ UNCHANGED <<status, ledger, runs, found, payouts, reports, doubled, synced>>
  BY DEF StartRun, Sit
<1>3. knew \in Known
  BY DEF Known, InScope, Stored
<1>4. /\ Knows(knew) /\ knew.orders = InScope(k, c)
      /\ c # None => knew.orders = {}
  BY DEF Knows, InScope
<1> HIDE DEF knew
<1>5. j \in Reconciling
  BY <1>3, Sizes DEF Reconciling
<1>6. RunJob(j)
  <2>1. IsFiniteSet({}) /\ Apart({})
    BY FS_EmptySet DEF Apart
  <2> QED
    BY <1>2, <1>4, <2>1 DEF RunJob
<1>7. \A u \in Clerk \ {t} : Reconciles(u) => desk[u].run # j.run
  BY <1>1, <1>2, Kinds DEF Reconciles
<1> HIDE DEF j
<1> QED
  BY <1>2, <1>5, <1>6, <1>7, RunStep

(* What every step of a run begins with.                                      *)
LEMMA UnderWay ==
    ASSUME BooksInv, NEW t \in Clerk, desk[t].at \in {"orders", "order", "entry"}
    PROVE  \E j \in Reconciling :
               /\ j = desk[t] /\ RunJob(j)
               /\ \A u \in Clerk \ {t} : Reconciles(u) => desk[u].run # j.run
<1>1. desk[t] \in Job
  BY DEF BooksInv, BooksTypeOK, Job
<1>2. desk[t] \in Reconciling
  BY <1>1, Kinds
<1> QED
  BY <1>2 DEF BooksInv, DeskInv, Reconciles

(* The orders are selected.                                                   *)
LEMMA SelectOrdersKeeps ==
    ASSUME BooksInv, NEW t \in Clerk, SelectOrders(t)
    PROVE  BooksInv'
<1>1. desk[t].at = "orders"
  BY DEF SelectOrders
<1>2. PICK j \in Reconciling :
          /\ j = desk[t] /\ RunJob(j)
          /\ \A u \in Clerk \ {t} : Reconciles(u) => desk[u].run # j.run
  BY <1>1, UnderWay
<1> DEFINE S == InScope(j.config, j.connection)
           n == [j EXCEPT !.at = "order", !.todo = S, !.checked = Cardinality(S)]
<1>3. /\ desk' = [desk EXCEPT ![t] = n]
      /\ UNCHANGED <<status, ledger, runs, found, payouts, reports, doubled, synced>>
  BY <1>2 DEF SelectOrders, Sit
<1>4. S \subseteq Order /\ Cardinality(S) \in 0..Cardinality(Order)
  <2>1. S \in SUBSET Order
    BY DEF InScope
  <2> QED
    BY <2>1, Sizes, ReconciliationAssumption, FS_Subset, FS_CardinalityType
<1>5. j.findings = {} /\ j.checked = 0 /\ j.matched = 0
  BY <1>1, <1>2 DEF RunJob
<1>6. OrdersClean(j.config, j.knew, S) /\ (j.connection # None => j.knew.orders = {})
  BY <1>1, <1>2 DEF OrdersClean, RunJob
<1> HIDE DEF S
<1>7. /\ n \in Reconciling /\ n.at = "order" /\ n.run = j.run /\ n.connection = j.connection
      /\ n.config = j.config /\ n.todo = S /\ n.checked = Cardinality(S)
      /\ n.matched = j.matched /\ n.findings = j.findings /\ n.knew = j.knew
  BY <1>4 DEF Reconciling
<1> HIDE DEF n
<1>8. RunJob(n)
  <2>1. Orphans({}) = {} /\ Cardinality({}) = 0
    BY FS_EmptySet DEF Orphans
  <2>2. /\ n.checked = n.matched + Cardinality(Orphans(n.findings)) + Cardinality(n.todo)
        /\ Cardinality(n.findings) + Cardinality(n.todo) <= Cardinality(Order)
    BY <1>4, <1>5, <1>7, <2>1, Sizes
  <2> QED
    BY <1>2, <1>4, <1>5, <1>6, <1>7, <2>2 DEF RunJob
<1>9. desk[t] \in {Away} \cup Reconciling
  BY <1>2
<1> QED
  BY <1>2, <1>3, <1>7, <1>8, <1>9, RunStep

(* An order is compared with its entries.                                     *)
LEMMA CheckOrderKeeps ==
    ASSUME BooksInv, NEW t \in Clerk, NEW o \in Order, CheckOrder(t, o)
    PROVE  BooksInv'
<1>1. desk[t].at = "order"
  BY DEF CheckOrder
<1>2. PICK j \in Reconciling :
          /\ j = desk[t] /\ RunJob(j)
          /\ \A u \in Clerk \ {t} : Reconciles(u) => desk[u].run # j.run
  BY <1>1, UnderWay
<1> DEFINE k == j.config
           matches == IF k.byId THEN EntriesOf(RefOf[o]) ELSE {}
           done == [j EXCEPT !.todo = @ \ {o}]
           orphan == Finding(j, "ORPHAN_ORDER", o, 0)
<1>3. /\ o \in j.todo
      /\ UNCHANGED <<status, ledger, runs, found, payouts, reports, doubled, synced>>
  BY <1>2 DEF CheckOrder
<1>4. \/ /\ matches = {}
         /\ desk' = [desk EXCEPT ![t] = [done EXCEPT !.findings = @ \cup {orphan}]]
      \/ \E e \in matches :
            LET off == Off(Total[o], ledger[e].gross)
            IN  desk' = [desk EXCEPT ![t] =
                   [done EXCEPT !.matched = @ + 1,
                                !.findings = IF k.byAmount /\ off > k.tolerance
                                             THEN @ \cup {Finding(j, "AMOUNT_MISMATCH", o, off)}
                                             ELSE @]]
  <2>1. desk[t] = j
    BY <1>2
  <2>2. \/ matches = {} /\ Sit(t, [done EXCEPT !.findings = @ \cup {orphan}])
        \/ \E e \in matches :
              LET off == Off(Total[o], ledger[e].gross)
              IN  Sit(t, [done EXCEPT
                            !.matched = @ + 1,
                            !.findings = IF k.byAmount /\ off > k.tolerance
                                         THEN @ \cup {Finding(j, "AMOUNT_MISMATCH", o, off)}
                                         ELSE @])
    BY <2>1, Zenon DEF CheckOrder
  <2> QED
    BY <2>2, Zenon DEF Sit
<1>5. /\ j.todo \subseteq Order /\ IsFiniteSet(j.todo)
      /\ IsFiniteSet(j.todo \ {o}) /\ Cardinality(j.todo \ {o}) = Cardinality(j.todo) - 1
      /\ Cardinality(j.todo) \in Nat /\ Cardinality(j.todo \ {o}) \in Nat
      /\ j.findings \in SUBSET Discrepancy /\ IsFiniteSet(j.findings) /\ Apart(j.findings)
      /\ Cardinality(j.findings) \in Nat
      /\ k \in Config /\ Knows(j.knew)
  <2>1. j.todo \in SUBSET Order
    BY <1>1, <1>2 DEF RunJob
  <2>2. IsFiniteSet(j.todo)
    BY <2>1, ReconciliationAssumption, FS_Subset
  <2> QED
    BY <1>2, <1>3, <2>1, <2>2, OneLess, RunFields, FS_CardinalityType DEF RunJob
<1>6. /\ \A d \in j.findings : /\ d.kind # "MISSING_ORDER" /\ d.of \notin j.todo
                               /\ d.run = j.run /\ Stands(d, k, j.knew)
      /\ j.checked = j.matched + Cardinality(Orphans(j.findings)) + Cardinality(j.todo)
      /\ Cardinality(j.findings) + Cardinality(j.todo) <= Cardinality(Order)
      /\ j.findings = {} => OrdersClean(k, j.knew, j.todo)
  BY <1>1, <1>2 DEF RunJob
<1>7. Cardinality(Orphans(j.findings)) \in Nat
  <2>1. Orphans(j.findings) \in SUBSET j.findings
    BY DEF Orphans
  <2> QED
    BY <1>5, <2>1, FS_Subset, FS_CardinalityType
<1>8. j.checked \in 0..Cardinality(Order) /\ j.matched \in 0..Cardinality(Order)
      /\ Cardinality(Order) \in Nat
  BY RunFields, Sizes
<1>9. ASSUME NEW D \in SUBSET Discrepancy, IsFiniteSet(D), Apart(D),
             \A d \in D : /\ d.kind # "MISSING_ORDER" /\ d.of \notin j.todo \ {o}
                          /\ d.run = j.run /\ Stands(d, k, j.knew),
             NEW n \in Reconciling, n.at = "order", n.run = j.run,
             n.connection = j.connection, n.config = k, n.todo = j.todo \ {o},
             n.checked = j.checked, n.findings = D, n.knew = j.knew,
             n.matched + Cardinality(Orphans(D)) = j.matched + Cardinality(Orphans(j.findings)) + 1,
             Cardinality(D) <= Cardinality(j.findings) + 1,
             D = {} => /\ j.findings = {}
                       /\ \E e \in EntriesOf(RefOf[o]) : k.byAmount => Within(o, e, k),
             desk' = [desk EXCEPT ![t] = n]
      PROVE  BooksInv'
  <2>1. n.matched \in Nat /\ Cardinality(Orphans(D)) \in Nat /\ Cardinality(D) \in Nat
    <3>1. Orphans(D) \in SUBSET D
      BY DEF Orphans
    <3> QED
      BY <1>9, <3>1, RunFields, Sizes, FS_Subset, FS_CardinalityType
  <2>2. /\ n.checked = n.matched + Cardinality(Orphans(n.findings)) + Cardinality(n.todo)
        /\ Cardinality(n.findings) + Cardinality(n.todo) <= Cardinality(Order)
    BY <1>5, <1>6, <1>7, <1>8, <1>9, <2>1
  <2>3. D = {} => OrdersClean(k, j.knew, j.todo \ {o})
    BY <1>6, <1>9 DEF OrdersClean
  <2>4. RunJob(n)
    <3>1. /\ runs[n.run] = None /\ Knows(n.knew)
          /\ IsFiniteSet(n.findings) /\ Apart(n.findings)
          /\ \A d \in n.findings : d.run = n.run /\ Stands(d, n.config, n.knew)
          /\ n.connection # None => n.knew.orders = {}
      BY <1>2, <1>9 DEF RunJob
    <3>2. /\ n.todo \subseteq Order
          /\ \A d \in n.findings : d.kind # "MISSING_ORDER" /\ d.of \notin n.todo
          /\ n.findings = {} => OrdersClean(n.config, n.knew, n.todo)
      BY <1>5, <1>9, <2>3
    <3> QED
      BY <1>9, <2>2, <3>1, <3>2 DEF RunJob
  <2>5. \A u \in Clerk \ {t} : Reconciles(u) => desk[u].run # n.run
    BY <1>2, <1>9
  <2>6. desk[t] \in {Away} \cup Reconciling
    BY <1>2
  <2> QED
    BY <1>3, <1>9, <2>4, <2>5, <2>6, RunStep
<1>10. ASSUME NEW d \in Discrepancy, d.of = o, d.run = j.run, d.kind # "MISSING_ORDER"
       PROVE  \A e \in j.findings : ~ (e.run = d.run /\ e.kind = d.kind /\ e.of = d.of)
  BY <1>3, <1>6, <1>10
<1>11. j.matched + 1 \in 0..Cardinality(Order)
  BY <1>3, <1>5, <1>6, <1>7, <1>8
<1>12. ASSUME NEW D \in SUBSET Discrepancy
       PROVE  LET n == [done EXCEPT !.findings = D]
              IN  /\ n \in Reconciling /\ n.at = "order" /\ n.run = j.run
                  /\ n.connection = j.connection /\ n.config = k /\ n.todo = j.todo \ {o}
                  /\ n.checked = j.checked /\ n.findings = D /\ n.knew = j.knew
                  /\ n.matched = j.matched
  BY <1>1, <1>2 DEF Reconciling
<1>13. ASSUME NEW D \in SUBSET Discrepancy
       PROVE  LET n == [done EXCEPT !.matched = j.matched + 1, !.findings = D]
              IN  /\ n \in Reconciling /\ n.at = "order" /\ n.run = j.run
                  /\ n.connection = j.connection /\ n.config = k /\ n.todo = j.todo \ {o}
                  /\ n.checked = j.checked /\ n.findings = D /\ n.knew = j.knew
                  /\ n.matched = j.matched + 1
  BY <1>1, <1>2, <1>11 DEF Reconciling
<1>14. done.findings = j.findings /\ done.matched = j.matched
  BY DEF Reconciling
<1>15. CASE /\ matches = {}
            /\ desk' = [desk EXCEPT ![t] = [done EXCEPT !.findings = @ \cup {orphan}]]
  <2>1. /\ orphan \in Discrepancy /\ orphan.run = j.run /\ orphan.of = o
        /\ orphan.kind = "ORPHAN_ORDER"
    <3>1. 0 \in Amount
      BY ReconciliationAssumption DEF Amount
    <3> QED
      BY <3>1, FindingIs
  <2> HIDE DEF orphan
  <2>2. Stands(orphan, k, j.knew)
    <3>1. k.byId => EntriesOf(RefOf[o]) = {}
      BY <1>15
    <3>2. j.knew.entries \subseteq Stored
      BY <1>5 DEF Knows
    <3> QED
      BY <2>1, <3>1, <3>2 DEF Stands, EntriesOf
  <2> DEFINE D == j.findings \cup {orphan}
             n == [done EXCEPT !.findings = D]
  <2>3. /\ D \in SUBSET Discrepancy /\ IsFiniteSet(D) /\ Apart(D)
        /\ Cardinality(D) = Cardinality(j.findings) + 1
        /\ Cardinality(Orphans(D)) = Cardinality(Orphans(j.findings)) + 1
    BY <1>5, <1>10, <2>1, OneMore
  <2>4. \A d \in D : /\ d.kind # "MISSING_ORDER" /\ d.of \notin j.todo \ {o}
                     /\ d.run = j.run /\ Stands(d, k, j.knew)
    BY <1>6, <2>1, <2>2
  <2>5. D # {}
    OBVIOUS
  <2>6. desk' = [desk EXCEPT ![t] = n]
    BY <1>14, <1>15
  <2> HIDE DEF D
  <2>7. /\ n \in Reconciling /\ n.at = "order" /\ n.run = j.run
        /\ n.connection = j.connection /\ n.config = k /\ n.todo = j.todo \ {o}
        /\ n.checked = j.checked /\ n.findings = D /\ n.knew = j.knew /\ n.matched = j.matched
    BY <1>12, <2>3
  <2>8. /\ n.matched + Cardinality(Orphans(D)) = j.matched + Cardinality(Orphans(j.findings)) + 1
        /\ Cardinality(D) <= Cardinality(j.findings) + 1
    BY <1>5, <1>7, <1>8, <2>3, <2>7
  <2> HIDE DEF n, k
  <2> QED
    BY <1>9, <2>3, <2>4, <2>5, <2>6, <2>7, <2>8
<1>16. ASSUME NEW e \in matches,
              LET off == Off(Total[o], ledger[e].gross)
              IN  desk' = [desk EXCEPT ![t] =
                     [done EXCEPT !.matched = @ + 1,
                                  !.findings = IF k.byAmount /\ off > k.tolerance
                                               THEN @ \cup {Finding(j, "AMOUNT_MISMATCH", o, off)}
                                               ELSE @]]
       PROVE  BooksInv'
  <2> DEFINE off == Off(Total[o], ledger[e].gross)
             d == Finding(j, "AMOUNT_MISMATCH", o, off)
             D == IF k.byAmount /\ off > k.tolerance THEN j.findings \cup {d} ELSE j.findings
             n == [done EXCEPT !.matched = j.matched + 1, !.findings = D]
  <2>1. e \in EntriesOf(RefOf[o])
    BY <1>16
  <2>2. off \in Amount
    <3>1. e \in Stored /\ ledger \in [Entry -> FinancialLedger \cup {None}]
      BY <2>1 DEF EntriesOf, BooksInv, BooksTypeOK
    <3>2. ledger[e].gross \in Amount /\ Total[o] \in Amount
      BY <3>1, ReconciliationAssumption DEF Stored, FinancialLedger
    <3> QED
      BY <3>2, OffIs
  <2>3. d \in Discrepancy /\ d.run = j.run /\ d.of = o /\ d.kind = "AMOUNT_MISMATCH"
    BY <2>2, FindingIs
  <2>4. off > k.tolerance => Stands(d, k, j.knew)
    <3> HIDE DEF d
    <3> QED
      BY <2>1, <2>3 DEF Stands
  <2>5. desk' = [desk EXCEPT ![t] = n]
    BY <1>14, <1>16
  <2> HIDE DEF d
  <2>6. /\ D \in SUBSET Discrepancy /\ IsFiniteSet(D) /\ Apart(D)
        /\ Cardinality(D) <= Cardinality(j.findings) + 1
        /\ Cardinality(Orphans(D)) = Cardinality(Orphans(j.findings))
    <3>1. CASE k.byAmount /\ off > k.tolerance
      <4>1. /\ j.findings \cup {d} \in SUBSET Discrepancy
            /\ IsFiniteSet(j.findings \cup {d}) /\ Apart(j.findings \cup {d})
            /\ Cardinality(j.findings \cup {d}) = Cardinality(j.findings) + 1
            /\ Cardinality(Orphans(j.findings \cup {d})) = Cardinality(Orphans(j.findings)) + 0
        BY <1>5, <1>10, <2>3, OneMore
      <4> QED
        BY <1>5, <1>7, <3>1, <4>1
    <3>2. CASE ~ (k.byAmount /\ off > k.tolerance)
      BY <1>5, <3>2
    <3> QED
      BY <3>1, <3>2
  <2>7. \A x \in D : /\ x.kind # "MISSING_ORDER" /\ x.of \notin j.todo \ {o}
                     /\ x.run = j.run /\ Stands(x, k, j.knew)
    BY <1>6, <2>3, <2>4
  <2>8. D = {} => /\ j.findings = {}
                  /\ \E x \in EntriesOf(RefOf[o]) : k.byAmount => Within(o, x, k)
    <3>1. k.tolerance \in Amount
      BY <1>5, ConfigFields
    <3>2. ~ (off > k.tolerance) => Within(o, e, k)
      BY <2>2, <3>1, ReconciliationAssumption DEF Within, Amount
    <3> QED
      BY <2>1, <3>2
  <2> HIDE DEF D
  <2>9. /\ n \in Reconciling /\ n.at = "order" /\ n.run = j.run
        /\ n.connection = j.connection /\ n.config = k /\ n.todo = j.todo \ {o}
        /\ n.checked = j.checked /\ n.findings = D /\ n.knew = j.knew
        /\ n.matched = j.matched + 1
    BY <1>13, <2>6
  <2>10. n.matched + Cardinality(Orphans(D)) = j.matched + Cardinality(Orphans(j.findings)) + 1
    BY <1>7, <1>8, <2>6, <2>9
  <2> HIDE DEF n, k
  <2> QED
    BY <1>9, <2>5, <2>6, <2>7, <2>8, <2>9, <2>10
<1> QED
  BY <1>4, <1>15, <1>16

(* The entries of a connection are selected.                                  *)
LEMMA SelectLedgersKeeps ==
    ASSUME BooksInv, NEW t \in Clerk, SelectLedgers(t)
    PROVE  BooksInv'
<1>1. desk[t].at = "order"
  BY DEF SelectLedgers
<1>2. PICK j \in Reconciling :
          /\ j = desk[t] /\ RunJob(j)
          /\ \A u \in Clerk \ {t} : Reconciles(u) => desk[u].run # j.run
  BY <1>1, UnderWay
<1> DEFINE S == {e \in Stored : ledger[e].connection = j.connection /\ ledger[e].ref # None}
           n == [j EXCEPT !.at = "entry", !.todo = S]
<1>3. /\ j.todo = {} /\ j.connection # None
      /\ desk' = [desk EXCEPT ![t] = n]
      /\ UNCHANGED <<status, ledger, runs, found, payouts, reports, doubled, synced>>
  BY <1>2 DEF SelectLedgers, Sit
<1>4. /\ S \subseteq Stored /\ S \subseteq Entry
      /\ Cardinality(S) \in Nat /\ Cardinality(S) <= Cardinality(Entry)
  <2>1. S \in SUBSET Entry /\ S \subseteq Stored
    BY DEF Stored
  <2> QED
    BY <2>1, ReconciliationAssumption, FS_Subset, FS_CardinalityType
<1>5. EntriesClean(j.connection, j.knew, S)
  BY <1>2 DEF EntriesClean, RunJob, Knows
<1> HIDE DEF S
<1>6. /\ n \in Reconciling /\ n.at = "entry" /\ n.run = j.run /\ n.connection = j.connection
      /\ n.config = j.config /\ n.todo = S /\ n.checked = j.checked
      /\ n.matched = j.matched /\ n.findings = j.findings /\ n.knew = j.knew
  BY <1>4 DEF Reconciling
<1> HIDE DEF n
<1>7. /\ j.checked = j.matched + Cardinality(Orphans(j.findings)) + 0
      /\ Cardinality(j.findings) <= Cardinality(Order) /\ Cardinality(j.findings) \in Nat
      /\ \A d \in j.findings : d.kind # "MISSING_ORDER"
      /\ IsFiniteSet(j.findings) /\ Apart(j.findings)
  <2>1. /\ j.checked = j.matched + Cardinality(Orphans(j.findings)) + Cardinality({})
        /\ Cardinality(j.findings) + Cardinality({}) <= Cardinality(Order)
        /\ \A d \in j.findings : d.kind # "MISSING_ORDER"
        /\ IsFiniteSet(j.findings) /\ Apart(j.findings)
    BY <1>1, <1>2, <1>3 DEF RunJob
  <2>2. Cardinality({}) = 0 /\ Cardinality(j.findings) \in Nat
    BY <2>1, FS_EmptySet, FS_CardinalityType
  <2> QED
    BY <2>1, <2>2
<1>8. /\ n.checked = n.matched + Cardinality(Orphans(n.findings))
      /\ Cardinality(n.findings) + Cardinality(n.todo) <= Cardinality(Order) + Cardinality(Entry)
  <2>1. IsFiniteSet(Orphans(j.findings)) /\ Cardinality(Orphans(j.findings)) \in Nat
    <3>1. Orphans(j.findings) \in SUBSET j.findings
      BY DEF Orphans
    <3> QED
      BY <1>7, <3>1, FS_Subset, FS_CardinalityType
  <2>2. j.matched \in Nat
    BY RunFields, Sizes
  <2> QED
    BY <1>4, <1>6, <1>7, <2>1, <2>2, Sizes
<1>9. RunJob(n)
  BY <1>2, <1>3, <1>4, <1>5, <1>6, <1>7, <1>8 DEF RunJob
<1>10. desk[t] \in {Away} \cup Reconciling
  BY <1>2
<1> QED
  BY <1>2, <1>3, <1>6, <1>9, <1>10, RunStep

(* An entry's order is looked for.                                            *)
LEMMA CheckEntryKeeps ==
    ASSUME BooksInv, NEW t \in Clerk, NEW e \in Entry, CheckEntry(t, e)
    PROVE  BooksInv'
<1>1. desk[t].at = "entry"
  BY DEF CheckEntry
<1>2. PICK j \in Reconciling :
          /\ j = desk[t] /\ RunJob(j)
          /\ \A u \in Clerk \ {t} : Reconciles(u) => desk[u].run # j.run
  BY <1>1, UnderWay
<1> DEFINE missing == \A o \in Order : status[o] # "absent" => RefOf[o] # ledger[e].ref
           d == Finding(j, "MISSING_ORDER", e, 0)
           D == IF missing THEN j.findings \cup {d} ELSE j.findings
           n == [j EXCEPT !.todo = j.todo \ {e}, !.findings = D]
<1>3. /\ e \in j.todo
      /\ desk' = [desk EXCEPT ![t] = n]
      /\ UNCHANGED <<status, ledger, runs, found, payouts, reports, doubled, synced>>
  <2>1. desk[t] = j
    BY <1>2
  <2>2. e \in j.todo
        /\ Sit(t, [j EXCEPT !.todo = @ \ {e},
                            !.findings = IF missing THEN @ \cup {d} ELSE @])
    BY <2>1, Zenon DEF CheckEntry
  <2>3. desk' = [desk EXCEPT ![t] = [j EXCEPT !.todo = j.todo \ {e},
                            !.findings = IF missing THEN j.findings \cup {d} ELSE j.findings]]
    BY <2>2 DEF Sit
  <2> QED
    BY <2>2, <2>3 DEF CheckEntry
<1>4. /\ j.todo \subseteq Stored /\ IsFiniteSet(j.todo)
      /\ IsFiniteSet(j.todo \ {e}) /\ Cardinality(j.todo \ {e}) = Cardinality(j.todo) - 1
      /\ Cardinality(j.todo) \in Nat
      /\ j.findings \in SUBSET Discrepancy /\ IsFiniteSet(j.findings) /\ Apart(j.findings)
      /\ Cardinality(j.findings) \in Nat
      /\ j.todo \in SUBSET (Order \cup Entry)
  <2>1. j.todo \subseteq Stored
    BY <1>1, <1>2 DEF RunJob
  <2>2. IsFiniteSet(j.todo)
    <3>1. j.todo \in SUBSET Entry
      BY <2>1 DEF Stored
    <3> QED
      BY <3>1, ReconciliationAssumption, FS_Subset
  <2> QED
    BY <1>2, <1>3, <2>1, <2>2, OneLess, RunFields, FS_CardinalityType DEF RunJob
<1>5. /\ \A x \in j.findings : /\ x.kind = "MISSING_ORDER" => x.of \notin j.todo
                               /\ x.run = j.run /\ Stands(x, j.config, j.knew)
      /\ j.checked = j.matched + Cardinality(Orphans(j.findings))
      /\ Cardinality(j.findings) + Cardinality(j.todo) <= Cardinality(Order) + Cardinality(Entry)
      /\ j.findings = {} => EntriesClean(j.connection, j.knew, j.todo)
      /\ runs[j.run] = None /\ Knows(j.knew) /\ j.connection # None
  BY <1>1, <1>2 DEF RunJob
<1>6. d \in Discrepancy /\ d.run = j.run /\ d.of = e /\ d.kind = "MISSING_ORDER"
  <2>1. 0 \in Amount
    BY ReconciliationAssumption DEF Amount
  <2> QED
    BY <2>1, FindingIs
<1> HIDE DEF d
<1>7. missing => Stands(d, j.config, j.knew)
  <2>1. e \in Stored
    BY <1>3, <1>4
  <2>2. \A o \in j.knew.placed : o \in Order /\ status[o] # "absent"
    BY <1>5, RunFields DEF Knows, Known
  <2> QED
    BY <1>6, <2>1, <2>2 DEF Stands
<1>8. /\ D \in SUBSET Discrepancy /\ IsFiniteSet(D) /\ Apart(D)
      /\ Cardinality(D) <= Cardinality(j.findings) + 1 /\ Cardinality(D) \in Nat
      /\ Cardinality(Orphans(D)) = Cardinality(Orphans(j.findings))
  <2>1. CASE missing
    <3>1. \A x \in j.findings : ~ (x.run = d.run /\ x.kind = d.kind /\ x.of = d.of)
      BY <1>3, <1>5, <1>6
    <3>2. /\ j.findings \cup {d} \in SUBSET Discrepancy
          /\ IsFiniteSet(j.findings \cup {d}) /\ Apart(j.findings \cup {d})
          /\ Cardinality(j.findings \cup {d}) = Cardinality(j.findings) + 1
          /\ Cardinality(Orphans(j.findings \cup {d})) = Cardinality(Orphans(j.findings)) + 0
      BY <1>4, <1>6, <3>1, OneMore
    <3>3. Cardinality(Orphans(j.findings)) \in Nat
      <4>1. Orphans(j.findings) \in SUBSET j.findings
        BY DEF Orphans
      <4> QED
        BY <1>4, <4>1, FS_Subset, FS_CardinalityType
    <3> QED
      BY <1>4, <2>1, <3>2, <3>3
  <2>2. CASE ~ missing
    BY <1>4, <2>2
  <2> QED
    BY <2>1, <2>2
<1>9. \A x \in D : /\ x.kind = "MISSING_ORDER" => x.of \notin j.todo \ {e}
                   /\ x.run = j.run /\ Stands(x, j.config, j.knew)
  BY <1>5, <1>6, <1>7
<1>10. D = {} => EntriesClean(j.connection, j.knew, j.todo \ {e})
  BY <1>5 DEF EntriesClean
<1> HIDE DEF D, missing
<1>11. /\ n \in Reconciling /\ n.at = "entry" /\ n.run = j.run /\ n.connection = j.connection
       /\ n.config = j.config /\ n.todo = j.todo \ {e} /\ n.checked = j.checked
       /\ n.matched = j.matched /\ n.findings = D /\ n.knew = j.knew
  BY <1>1, <1>2, <1>4, <1>8 DEF Reconciling
<1> HIDE DEF n
<1>12. /\ n.checked = n.matched + Cardinality(Orphans(n.findings))
       /\ Cardinality(n.findings) + Cardinality(n.todo) <= Cardinality(Order) + Cardinality(Entry)
  BY <1>4, <1>5, <1>8, <1>11, Sizes
<1>13. RunJob(n)
  <2>1. n.connection # None => n.knew.orders = {}
    BY <1>2, <1>11 DEF RunJob
  <2> QED
    BY <1>4, <1>5, <1>8, <1>9, <1>10, <1>11, <1>12, <2>1 DEF RunJob
<1>14. desk[t] \in {Away} \cup Reconciling
  BY <1>2
<1> QED
  BY <1>2, <1>3, <1>11, <1>13, <1>14, RunStep

(* The row of a run is committed, and what it found.                          *)
LEMMA StoreRun ==
    ASSUME BooksInv, NEW t \in Clerk, NEW j \in Reconciling, j = desk[t], RunJob(j),
           \A u \in Clerk \ {t} : Reconciles(u) => desk[u].run # j.run,
           NEW D \in SUBSET Discrepancy, IsFiniteSet(D), Apart(D),
           \A d \in D : d.run = j.run /\ Stands(d, j.config, j.knew),
           NEW row \in ReconciliationRun, row.knew = j.knew, row.config = j.config,
           row.discrepancies = Cardinality(D),
           row.checked = row.matched + Cardinality(Orphans(D)),
           row.status = "COMPLETED" =>
               /\ OrdersClean(row.config, row.knew, {})
               /\ row.connection # None => EntriesClean(row.connection, row.knew, {}),
           runs' = [runs EXCEPT ![j.run] = row], found' = found \cup D,
           desk' = [desk EXCEPT ![t] = Away],
           UNCHANGED <<status, ledger, payouts, reports, doubled, synced>>
    PROVE  BooksInv'
<1>1. BooksTypeOK /\ RunsInv /\ DeskInv /\ PayoutsInv /\ Later
  BY Unmoved DEF BooksInv
<1>2. /\ desk \in [Clerk -> Job] /\ status \in [Order -> Status] /\ found \subseteq Discrepancy
      /\ runs \in [Run -> ReconciliationRun \cup {None}]
  BY <1>1 DEF BooksTypeOK, Job
<1>3. Away \in Job /\ Away \notin Reconciling /\ Away \notin Syncing
  BY DEF Job, Away, Reconciling, Syncing
<1>4. desk' \in [Clerk -> Job]
  BY <1>2, <1>3
<1>5. /\ j.run \in Run /\ runs[j.run] = None /\ j.knew \in Known /\ j.config \in Config
      /\ Knows(j.knew)
  BY RunFields DEF RunJob
<1>6. runs' \in [Run -> ReconciliationRun \cup {None}]
  BY <1>2, <1>5
<1>7. BooksTypeOK'
  BY <1>1, <1>2, <1>4, <1>6 DEF BooksTypeOK, Job
<1>8. /\ runs'[j.run] = row /\ row # None
      /\ \A r \in Run \ {j.run} : runs'[r] = runs[r]
  BY <1>2, <1>5, ReconciliationAssumption
<1>9. \A d \in found : d.run \in Run \ {j.run}
  BY <1>1, <1>2, <1>5 DEF RunsInv, Discrepancy
<1>10. /\ OfRun(j.run)' = D
       /\ \A r \in Run \ {j.run} : OfRun(r)' = OfRun(r)
  BY <1>9 DEF OfRun
<1>11. ASSUME NEW r \in Run, runs'[r] # None
       PROVE  RunRow(r, runs[r])'
  <2>1. CASE r = j.run
    <3>1. Knows(row.knew)'
      BY <1>1, <1>5, KnowsKept
    <3>2. /\ OrdersClean(row.config, row.knew, {}) => OrdersClean(row.config, row.knew, {})'
          /\ EntriesClean(row.connection, row.knew, {}) =>
               EntriesClean(row.connection, row.knew, {})'
      BY <1>1, <1>2, <1>5, OrdersCleanKept, EntriesCleanKept
    <3>3. RunRow(j.run, row)'
      BY <1>10, <3>1, <3>2 DEF RunRow, Orphans
    <3> QED
      BY <1>8, <2>1, <3>3
  <2>2. CASE r # j.run
    <3>1. PICK old \in ReconciliationRun : old = runs[r]
      BY <1>2, <1>8, <1>11, <2>2
    <3>2. runs'[r] = old
      BY <1>8, <2>2, <3>1
    <3>3. RunRow(r, old)
      BY <1>1, <1>11, <3>1, <3>2 DEF RunsInv
    <3>4. OfRun(r)' = OfRun(r)
      BY <1>10, <2>2
    <3>5. RunRow(r, old)'
      BY <1>1, <1>2, <3>3, <3>4, RunRowKept
    <3> QED
      BY <3>2, <3>5
  <2> QED
    BY <2>1, <2>2
<1>12. ASSUME NEW d \in found \cup D
       PROVE  runs'[d.run] # None /\ Stands(d, runs[d.run].config, runs[d.run].knew)'
  <2>1. CASE d \in D
    <3>1. d.run = j.run /\ Stands(d, row.config, row.knew) /\ d \in Discrepancy
      BY <2>1
    <3>2. Stands(d, row.config, row.knew)'
      BY <1>1, <1>5, <3>1, StandsKept
    <3> QED
      BY <1>8, <3>1, <3>2
  <2>2. CASE d \in found
    <3>1. /\ d.run \in Run \ {j.run} /\ d \in Discrepancy
          /\ runs[d.run] # None /\ Stands(d, runs[d.run].config, runs[d.run].knew)
      BY <1>1, <1>2, <1>9, <2>2 DEF RunsInv
    <3>2. PICK old \in ReconciliationRun : old = runs[d.run]
      BY <1>2, <3>1
    <3>3. /\ Stands(d, old.config, old.knew) /\ Knows(old.knew)
          /\ old.config \in Config /\ old.knew \in Known
      BY <1>1, <3>1, <3>2 DEF RunsInv, RunRow, ReconciliationRun
    <3>4. Stands(d, old.config, old.knew)'
      BY <1>1, <3>1, <3>3, StandsKept
    <3>5. runs'[d.run] = old
      BY <1>8, <3>1, <3>2
    <3> QED
      BY <3>1, <3>2, <3>4, <3>5
  <2> QED
    BY <2>1, <2>2
<1>13. IsFiniteSet(found \cup D) /\ Apart(found \cup D)
  <2>1. IsFiniteSet(found) /\ Apart(found)
    BY <1>1 DEF RunsInv
  <2>2. IsFiniteSet(found \cup D)
    BY <2>1, FS_Union
  <2>3. \A d \in D : d.run = j.run
    OBVIOUS
  <2> QED
    BY <1>9, <2>1, <2>2, <2>3 DEF Apart
<1>14. RunsInv'
  BY <1>11, <1>12, <1>13 DEF RunsInv
<1>15. DeskInv'
  <2>1. \A u \in Clerk \ {t} : Reconciles(u) => desk[u].run \in Run \ {j.run}
    BY RunFields DEF Reconciles
  <2>2. \A u \in Clerk \ {t} : Reconciles(u) => runs'[desk[u].run] = runs[desk[u].run]
    BY <1>8, <2>1
  <2> QED
    BY <1>1, <1>3, <2>2, DeskKept
<1>16. PayoutsInv'
  BY <1>1, <1>2, <1>3, <1>4, PayoutsKept
<1> QED
  BY <1>7, <1>14, <1>15, <1>16 DEF BooksInv

(* Dates with a time zone: the run is stored as failed.                       *)
LEMMA FailRunKeeps ==
    ASSUME BooksInv, NEW t \in Clerk, FailRun(t)
    PROVE  BooksInv'
<1>1. desk[t].at = "orders"
  BY DEF FailRun
<1>2. PICK j \in Reconciling :
          /\ j = desk[t] /\ RunJob(j)
          /\ \A u \in Clerk \ {t} : Reconciles(u) => desk[u].run # j.run
  BY <1>1, UnderWay
<1> DEFINE row == [connection |-> j.connection, config |-> j.config, status |-> "FAILED",
                   checked |-> 0, matched |-> 0, discrepancies |-> 0, knew |-> j.knew]
<1>3. /\ runs' = [runs EXCEPT ![j.run] = row]
      /\ desk' = [desk EXCEPT ![t] = Away]
      /\ UNCHANGED <<status, ledger, found, payouts, reports, doubled, synced>>
  BY <1>2 DEF FailRun, Sit
<1>4. /\ row \in ReconciliationRun /\ row.knew = j.knew /\ row.config = j.config
      /\ row.discrepancies = 0 /\ row.checked = 0 /\ row.matched = 0 /\ row.status = "FAILED"
  BY RunFields, Sizes DEF ReconciliationRun
<1> HIDE DEF row
<1>5. /\ {} \in SUBSET Discrepancy /\ IsFiniteSet({}) /\ Apart({}) /\ found' = found \cup {}
      /\ Cardinality({}) = 0 /\ Orphans({}) = {}
  BY <1>3, FS_EmptySet DEF Apart, Orphans
<1>6. row.discrepancies = Cardinality({}) /\ row.checked = row.matched + Cardinality(Orphans({}))
  BY <1>4, <1>5
<1>7. \A d \in {} : d.run = j.run /\ Stands(d, j.config, j.knew)
  OBVIOUS
<1>8. row.status # "COMPLETED"
  BY <1>4
<1> QED
  BY <1>2, <1>3, <1>4, <1>5, <1>6, <1>7, <1>8, StoreRun

(* The run is committed with what it found.                                   *)
LEMMA FinishRunKeeps ==
    ASSUME BooksInv, NEW t \in Clerk, FinishRun(t)
    PROVE  BooksInv'
<1>1. desk[t].at \in {"order", "entry"}
  BY DEF FinishRun
<1>2. PICK j \in Reconciling :
          /\ j = desk[t] /\ RunJob(j)
          /\ \A u \in Clerk \ {t} : Reconciles(u) => desk[u].run # j.run
  BY <1>1, UnderWay
<1> DEFINE size == Cardinality(j.findings)
           row == [connection |-> j.connection, config |-> j.config,
                   status |-> IF j.findings = {} THEN "COMPLETED" ELSE "PARTIAL",
                   checked |-> j.checked, matched |-> j.matched,
                   discrepancies |-> size, knew |-> j.knew]
<1>3. /\ j.at = "entry" \/ (j.at = "order" /\ j.connection = None)
      /\ j.todo = {}
      /\ runs' = [runs EXCEPT ![j.run] = row]
      /\ found' = found \cup j.findings
      /\ desk' = [desk EXCEPT ![t] = Away]
      /\ UNCHANGED <<status, ledger, payouts, reports, doubled, synced>>
  BY <1>2 DEF FinishRun, Sit
<1>4. /\ j.findings \in SUBSET Discrepancy /\ IsFiniteSet(j.findings) /\ Apart(j.findings)
      /\ \A d \in j.findings : d.run = j.run /\ Stands(d, j.config, j.knew)
      /\ size \in Nat
  BY <1>2, RunFields, FS_CardinalityType DEF RunJob
<1>5. /\ j.checked = j.matched + Cardinality(Orphans(j.findings))
      /\ size <= Cardinality(Order) + Cardinality(Entry)
  <2>1. Cardinality({}) = 0
    BY FS_EmptySet
  <2>2. Cardinality(Orphans(j.findings)) \in Nat /\ j.matched \in Nat
    <3>1. Orphans(j.findings) \in SUBSET j.findings
      BY DEF Orphans
    <3> QED
      BY <1>4, <3>1, FS_Subset, FS_CardinalityType, RunFields, Sizes
  <2>3. CASE j.at = "entry"
    <3>1. /\ j.checked = j.matched + Cardinality(Orphans(j.findings))
          /\ size + Cardinality({}) <= Cardinality(Order) + Cardinality(Entry)
      BY <1>2, <1>3, <2>3 DEF RunJob
    <3> QED
      BY <1>4, <2>1, <3>1, Sizes
  <2>4. CASE j.at = "order"
    <3>1. /\ j.checked = j.matched + Cardinality(Orphans(j.findings)) + Cardinality({})
          /\ size + Cardinality({}) <= Cardinality(Order)
      BY <1>2, <1>3, <2>4 DEF RunJob
    <3> QED
      BY <1>4, <2>1, <2>2, <3>1, Sizes
  <2> QED
    BY <1>3, <2>3, <2>4
<1>6. j.findings = {} =>
          /\ OrdersClean(j.config, j.knew, {})
          /\ j.connection # None => EntriesClean(j.connection, j.knew, {})
  <2>1. CASE j.at = "entry"
    <3>1. OrdersClean(j.config, j.knew, {})
      BY <1>2, <2>1 DEF RunJob, OrdersClean
    <3> QED
      BY <1>2, <1>3, <2>1, <3>1 DEF RunJob
  <2>2. CASE j.at = "order" /\ j.connection = None
    BY <1>2, <1>3, <2>2 DEF RunJob
  <2> QED
    BY <1>3, <2>1, <2>2
<1> HIDE DEF size
<1>7. /\ row \in ReconciliationRun /\ row.knew = j.knew /\ row.config = j.config
      /\ row.connection = j.connection
      /\ row.discrepancies = size /\ row.checked = j.checked /\ row.matched = j.matched
      /\ row.status = "COMPLETED" => j.findings = {}
  BY <1>4, <1>5, RunFields, Sizes DEF ReconciliationRun
<1> HIDE DEF row
<1>8. row.discrepancies = Cardinality(j.findings)
  BY <1>7 DEF size
<1>9. row.checked = row.matched + Cardinality(Orphans(j.findings))
  BY <1>5, <1>7
<1>10. row.status = "COMPLETED" =>
           /\ OrdersClean(row.config, row.knew, {})
           /\ row.connection # None => EntriesClean(row.connection, row.knew, {})
  BY <1>6, <1>7
<1>11. row \in ReconciliationRun /\ row.knew = j.knew /\ row.config = j.config
  BY <1>7
<1> QED
  BY <1>2, <1>3, <1>4, <1>8, <1>9, <1>10, <1>11, StoreRun

(* One of a set in the place of another.                                      *)
LEMMA Swap ==
    ASSUME NEW S, IsFiniteSet(S), NEW x \in S, NEW y, y \notin S \/ y = x
    PROVE  /\ IsFiniteSet((S \ {x}) \cup {y})
           /\ Cardinality((S \ {x}) \cup {y}) = Cardinality(S)
<1>1. CASE y = x
  <2>1. (S \ {x}) \cup {y} = S
    BY <1>1
  <2> QED
    BY <2>1
<1>2. CASE y \notin S
  <2>1. IsFiniteSet(S \ {x}) /\ Cardinality(S \ {x}) = Cardinality(S) - 1
        /\ Cardinality(S) \in Nat /\ y \notin S \ {x}
    BY <1>2, OneLess
  <2>2. /\ IsFiniteSet((S \ {x}) \cup {y})
        /\ Cardinality((S \ {x}) \cup {y}) = Cardinality(S \ {x}) + 1
    BY <2>1, FS_AddElement
  <2> QED
    BY <2>1, <2>2
<1> QED
  BY <1>1, <1>2

(* A discrepancy is resolved, or opened again: the counts stay.               *)
LEMMA UpdateDiscrepancyKeeps ==
    ASSUME BooksInv, NEW d \in found, NEW resolved \in BOOLEAN, UpdateDiscrepancy(d, resolved)
    PROVE  /\ BooksInv' /\ IsFiniteSet(found')
           /\ Cardinality(found') = Cardinality(found)
<1> DEFINE new == [d EXCEPT !.resolved = resolved]
<1>1. BooksTypeOK /\ RunsInv /\ DeskInv /\ PayoutsInv
  BY DEF BooksInv
<1>2. /\ found' = (found \ {d}) \cup {new}
      /\ UNCHANGED <<status, ledger, runs, payouts, reports, desk, doubled, synced>>
  BY DEF UpdateDiscrepancy
<1>3. /\ desk \in [Clerk -> Job] /\ status \in [Order -> Status] /\ found \subseteq Discrepancy
      /\ runs \in [Run -> ReconciliationRun \cup {None}]
      /\ IsFiniteSet(found) /\ Apart(found) /\ Later
  BY <1>1, <1>2, Unmoved DEF BooksTypeOK, Job, RunsInv
<1>4. d \in Discrepancy
  BY <1>3
<1>5. /\ new \in Discrepancy /\ new.run = d.run /\ new.kind = d.kind /\ new.of = d.of
  BY <1>4 DEF Discrepancy
<1> HIDE DEF new
<1>6. new \notin found \/ new = d
  BY <1>3, <1>5 DEF Apart
<1>7. IsFiniteSet(found') /\ Cardinality(found') = Cardinality(found)
  BY <1>2, <1>3, <1>6, Swap
<1>8. ASSUME NEW r
      PROVE  /\ Cardinality(OfRun(r)') = Cardinality(OfRun(r))
             /\ Cardinality(Orphans(OfRun(r)')) = Cardinality(Orphans(OfRun(r)))
  <2>1. CASE d.run # r
    <3>1. OfRun(r)' = OfRun(r)
      BY <1>2, <1>5, <2>1 DEF OfRun
    <3> QED
      BY <3>1
  <2>2. CASE d.run = r
    <3>1. /\ OfRun(r)' = (OfRun(r) \ {d}) \cup {new} /\ d \in OfRun(r)
          /\ new \notin OfRun(r) \/ new = d
      BY <1>2, <1>5, <1>6, <2>2 DEF OfRun
    <3>2. OfRun(r) \in SUBSET found /\ Orphans(OfRun(r)) \in SUBSET found
      BY DEF OfRun, Orphans
    <3>3. IsFiniteSet(OfRun(r)) /\ IsFiniteSet(Orphans(OfRun(r)))
      BY <1>3, <3>2, FS_Subset
    <3>4. CASE d.kind = "ORPHAN_ORDER"
      <4>1. /\ Orphans(OfRun(r)') = (Orphans(OfRun(r)) \ {d}) \cup {new}
            /\ d \in Orphans(OfRun(r))
            /\ new \notin Orphans(OfRun(r)) \/ new = d
        BY <1>5, <3>1, <3>4 DEF Orphans
      <4>2. Cardinality(Orphans(OfRun(r)')) = Cardinality(Orphans(OfRun(r)))
        BY <3>3, <4>1, Swap
      <4>3. Cardinality(OfRun(r)') = Cardinality(OfRun(r))
        BY <3>1, <3>3, Swap
      <4> QED
        BY <4>2, <4>3
    <3>5. CASE d.kind # "ORPHAN_ORDER"
      <4>1. Orphans(OfRun(r)') = Orphans(OfRun(r))
        BY <1>5, <3>1, <3>5 DEF Orphans
      <4> QED
        BY <3>1, <3>3, <4>1, Swap
    <3> QED
      BY <3>4, <3>5
  <2> QED
    BY <2>1, <2>2
<1>9. ASSUME NEW r \in Run, runs[r] # None
      PROVE  RunRow(r, runs[r])'
  <2>1. PICK row \in ReconciliationRun : row = runs[r]
    BY <1>3, <1>9
  <2>2. RunRow(r, row)
    BY <1>1, <1>9, <2>1 DEF RunsInv
  <2>3. RunRow(r, row)'
    BY <1>3, <1>8, <2>2, RunRowKept
  <2> QED
    BY <1>2, <2>1, <2>3
<1>10. ASSUME NEW x \in found'
       PROVE  runs'[x.run] # None /\ Stands(x, runs[x.run].config, runs[x.run].knew)'
  <2>1. PICK y \in found : y.run = x.run /\ y.kind = x.kind /\ y.of = x.of
    BY <1>2, <1>5
  <2>2. runs[y.run] # None /\ Stands(y, runs[y.run].config, runs[y.run].knew)
    BY <1>1, <2>1 DEF RunsInv
  <2> QED
    BY <1>2, <2>1, <2>2 DEF Stands, EntriesOf, Stored
<1>11. Apart(found)'
  BY <1>2, <1>3, <1>5 DEF Apart
<1>12. RunsInv'
  BY <1>2, <1>7, <1>9, <1>10, <1>11 DEF RunsInv
<1>13. BooksTypeOK'
  BY <1>1, <1>2, <1>3, <1>5 DEF BooksTypeOK
<1>14. DeskInv' /\ PayoutsInv'
  BY <1>1, <1>2, <1>3, DeskSame, PayoutsKept
<1> QED
  BY <1>7, <1>12, <1>13, <1>14 DEF BooksInv

--------------------------------------------------------------------------------
(* Payouts                                                                    *)

(* A payout's rows and how many they are.                                     *)
LEMMA CopiesAre ==
    ASSUME BooksTypeOK, NEW n \in PlatformPayout
    PROVE  /\ [name |-> n, dated |-> FALSE] \in PayoutRow
           /\ [name |-> n, dated |-> TRUE] \in PayoutRow
           /\ payouts[[name |-> n, dated |-> FALSE]] \in 0..MaxPayouts
           /\ payouts[[name |-> n, dated |-> TRUE]] \in 0..MaxPayouts
           /\ Copies(n) = payouts[[name |-> n, dated |-> FALSE]]
                          + payouts[[name |-> n, dated |-> TRUE]]
           /\ Copies(n) \in Nat /\ MaxPayouts \in Nat
<1>1. /\ [name |-> n, dated |-> FALSE] \in PayoutRow
      /\ [name |-> n, dated |-> TRUE] \in PayoutRow
  BY DEF PayoutRow
<1>2. payouts \in [PayoutRow -> 0..MaxPayouts] /\ MaxPayouts \in Nat
  BY ReconciliationAssumption DEF BooksTypeOK
<1> QED
  BY <1>1, <1>2 DEF Copies, Dated

(* A row is one of its payout's two.                                          *)
LEMMA RowIs ==
    ASSUME NEW row \in PayoutRow
    PROVE  /\ row.name \in PlatformPayout
           /\ row.dated = FALSE => row = [name |-> row.name, dated |-> FALSE]
           /\ row.dated = TRUE => row = [name |-> row.name, dated |-> TRUE]
           /\ row.dated \in BOOLEAN
BY DEF PayoutRow

(* There are no more of a row than of its payout.                             *)
LEMMA RowOfCopies ==
    ASSUME BooksTypeOK, NEW row \in PayoutRow
    PROVE  /\ payouts[row] \in 0..MaxPayouts /\ payouts[row] <= Copies(row.name)
           /\ Copies(row.name) \in Nat
<1>1. PICK n \in PlatformPayout : n = row.name
  BY RowIs
<1>2. PICK a \in 0..MaxPayouts : a = payouts[[name |-> n, dated |-> FALSE]]
  BY CopiesAre
<1>3. PICK b \in 0..MaxPayouts : b = payouts[[name |-> n, dated |-> TRUE]]
  BY CopiesAre
<1>4. Copies(n) = a + b /\ MaxPayouts \in Nat
  BY <1>2, <1>3, CopiesAre
<1>5. payouts[row] \in {a, b}
  BY <1>1, <1>2, <1>3, RowIs
<1> QED
  BY <1>1, <1>4, <1>5

(* A request that is about payouts only.                                      *)
LEMMA PayoutStep ==
    ASSUME BooksInv, NEW t \in Clerk, NEW j \in {Away} \cup Syncing,
           desk' = [desk EXCEPT ![t] = j],
           payouts' \in [PayoutRow -> 0..MaxPayouts],
           doubled' \in SUBSET PlatformPayout, synced' \in SUBSET PlatformPayout,
           PayoutsInv',
           UNCHANGED <<status, ledger, runs, found, reports>>
    PROVE  BooksInv'
<1>1. BooksTypeOK /\ RunsInv /\ DeskInv /\ Later
  BY Unmoved DEF BooksInv
<1>2. desk \in [Clerk -> Job]
  BY <1>1 DEF BooksTypeOK, Job
<1>3. j \in Job
  BY DEF Job
<1>4. j \notin Reconciling
  BY <1>3, Kinds DEF Away, Syncing
<1>5. desk' \in [Clerk -> Job]
  BY <1>2, <1>3
<1>6. BooksTypeOK'
  BY <1>1, <1>5 DEF BooksTypeOK, Job
<1>7. RunsInv'
  BY <1>1, RunsKept
<1>8. DeskInv'
  BY <1>1, <1>3, <1>4, DeskKept
<1> QED
  BY <1>6, <1>7, <1>8 DEF BooksInv

(* A payout is entered by hand.                                               *)
LEMMA CreatePayoutKeeps ==
    ASSUME BooksInv, NEW row \in PayoutRow, CreatePayout(row)
    PROVE  BooksInv'
<1>1. BooksTypeOK /\ RunsInv /\ DeskInv /\ PayoutsInv
  BY DEF BooksInv
<1>2. /\ Copies(row.name) < MaxPayouts
      /\ payouts' = [payouts EXCEPT ![row] = payouts[row] + 1]
      /\ doubled' = doubled \cup {row.name}
      /\ UNCHANGED <<status, ledger, runs, found, reports, desk, synced>>
  BY DEF CreatePayout
<1>3. /\ payouts \in [PayoutRow -> 0..MaxPayouts] /\ doubled \in SUBSET PlatformPayout
      /\ row.name \in PlatformPayout /\ MaxPayouts \in Nat
  BY <1>1, RowIs, ReconciliationAssumption DEF BooksTypeOK
<1>4. payouts[row] + 1 \in 0..MaxPayouts
  <2>1. payouts[row] \in 0..MaxPayouts /\ payouts[row] <= Copies(row.name)
        /\ Copies(row.name) \in Nat
    BY <1>1, RowOfCopies
  <2> QED
    BY <1>2, <1>3, <2>1
<1>5. payouts' \in [PayoutRow -> 0..MaxPayouts]
  BY <1>2, <1>3, <1>4
<1>6. BooksTypeOK'
  BY <1>1, <1>2, <1>3, <1>5 DEF BooksTypeOK
<1>7. ASSUME NEW n \in PlatformPayout
      PROVE  /\ n # row.name => Copies(n)' = Copies(n)
             /\ Copies(n)' >= Copies(n) /\ Copies(n)' \in Nat /\ Copies(n) \in Nat
  <2>1. /\ Copies(n) = payouts[[name |-> n, dated |-> FALSE]]
                       + payouts[[name |-> n, dated |-> TRUE]]
        /\ Copies(n)' = payouts'[[name |-> n, dated |-> FALSE]]
                        + payouts'[[name |-> n, dated |-> TRUE]]
    BY DEF Copies, Dated
  <2>2. /\ [name |-> n, dated |-> FALSE] \in PayoutRow
        /\ [name |-> n, dated |-> TRUE] \in PayoutRow
    BY <1>1, CopiesAre
  <2>3. ASSUME NEW x \in PayoutRow
        PROVE  /\ payouts'[x] >= payouts[x] /\ payouts'[x] \in Nat /\ payouts[x] \in Nat
               /\ x.name # row.name => payouts'[x] = payouts[x]
    BY <1>2, <1>3, <1>4
  <2>4. /\ [name |-> n, dated |-> FALSE].name = n
        /\ [name |-> n, dated |-> TRUE].name = n
    OBVIOUS
  <2> QED
    BY <2>1, <2>2, <2>3, <2>4
<1>8. PayoutsInv'
  <2>1. \A u \in Clerk : \A n : InList(u, n)' <=> InList(u, n)
    BY <1>2 DEF InList
  <2>2. ASSUME NEW u \in Clerk, NEW n \in PlatformPayout, desk[u] \in Syncing
        PROVE  /\ n \in desk[u].new /\ n \notin doubled' => Copies(n)' = 0
               /\ n \in desk[u].old => Copies(n)' > 0
    BY <1>1, <1>2, <1>7, <2>2 DEF PayoutsInv
  <2>3. PayoutsOnce'
    BY <1>1, <1>2, <1>7 DEF PayoutsInv, PayoutsOnce
  <2> QED
    BY <1>1, <1>2, <2>1, <2>2, <2>3 DEF PayoutsInv
<1>9. Later
  BY <1>1, <1>2, Unmoved
<1>10. RunsInv' /\ DeskInv'
  BY <1>1, <1>2, <1>9, RunsKept, DeskSame
<1> QED
  BY <1>6, <1>8, <1>10 DEF BooksInv

(* A platform's list comes.                                                   *)
LEMMA StartSyncKeeps ==
    ASSUME BooksInv, NEW t \in Clerk, NEW list \in SUBSET PlatformPayout, StartSync(t, list)
    PROVE  BooksInv'
<1> DEFINE j == [at |-> "sync", todo |-> list, new |-> {}, old |-> {}]
<1>1. /\ desk[t] = Away
      /\ desk' = [desk EXCEPT ![t] = j]
      /\ doubled' = doubled \cup {n \in list : \E u \in Clerk : InList(u, n)}
      /\ UNCHANGED <<status, ledger, runs, found, payouts, reports, synced>>
  BY DEF StartSync, Sit
<1>2. BooksTypeOK /\ PayoutsInv /\ desk \in [Clerk -> Job]
  BY DEF BooksInv, BooksTypeOK, Job
<1>3. j \in Syncing
  BY DEF Syncing
<1>4. /\ desk'[t] = j /\ \A u \in Clerk \ {t} : desk'[u] = desk[u]
      /\ doubled \subseteq doubled' /\ doubled' \in SUBSET PlatformPayout
  BY <1>1, <1>2 DEF BooksTypeOK
<1>5. \A n : Copies(n)' = Copies(n)
  BY <1>1 DEF Copies, Dated
<1>6. \A u \in Clerk \ {t} : \A n : InList(u, n)' <=> InList(u, n)
  BY <1>4 DEF InList
<1>7. \A n : InList(t, n)' <=> n \in list
  BY <1>4 DEF InList
<1>8. ASSUME NEW u \in Clerk, NEW n \in PlatformPayout, desk'[u] \in Syncing
      PROVE  /\ n \in desk'[u].new /\ n \notin doubled' => Copies(n)' = 0
             /\ n \in desk'[u].old => Copies(n)' > 0
  <2>1. CASE u = t
    <3>1. desk'[u].new = {} /\ desk'[u].old = {}
      BY <1>4, <2>1
    <3> QED
      BY <3>1
  <2>2. CASE u # t
    <3>1. desk'[u] = desk[u]
      BY <1>4, <2>2
    <3> QED
      BY <1>2, <1>4, <1>5, <1>8, <3>1 DEF PayoutsInv
  <2> QED
    BY <2>1, <2>2
<1>9. ASSUME NEW u \in Clerk, NEW v \in Clerk, NEW n \in PlatformPayout,
             u # v, InList(u, n)', InList(v, n)'
      PROVE  n \in doubled'
  BY <1>1, <1>2, <1>4, <1>6, <1>7, <1>9 DEF PayoutsInv
<1>10. PayoutsOnce'
  BY <1>1, <1>2, <1>4, <1>5 DEF PayoutsInv, PayoutsOnce
<1>11. PayoutsInv'
  BY <1>8, <1>9, <1>10 DEF PayoutsInv
<1>12. /\ payouts' \in [PayoutRow -> 0..MaxPayouts] /\ synced' \in SUBSET PlatformPayout
  BY <1>1, <1>2 DEF BooksTypeOK
<1> HIDE DEF j
<1> QED
  BY <1>1, <1>3, <1>4, <1>11, <1>12, PayoutStep

(* A payout of the list is looked up.                                         *)
LEMMA SyncPayoutKeeps ==
    ASSUME BooksInv, NEW t \in Clerk, NEW name \in PlatformPayout, SyncPayout(t, name)
    PROVE  BooksInv'
<1>1. BooksTypeOK /\ PayoutsInv /\ desk \in [Clerk -> Job]
  BY DEF BooksInv, BooksTypeOK, Job
<1>2. desk[t] \in Syncing
  <2>1. desk[t].at = "sync"
    BY DEF SyncPayout
  <2> QED
    BY <1>1, <2>1, Kinds
<1>3. PICK i \in Syncing : i = desk[t]
  BY <1>2
<1>4. /\ name \in i.todo
      /\ UNCHANGED <<status, ledger, runs, found, payouts, reports, doubled, synced>>
  BY <1>3 DEF SyncPayout
<1>5. \E j \in Syncing :
          /\ desk' = [desk EXCEPT ![t] = j]
          /\ j.at = "sync" /\ j.todo \cup j.new \cup j.old = i.todo \cup i.new \cup i.old
          /\ j.new \subseteq i.new \cup (IF Copies(name) = 0 THEN {name} ELSE {})
          /\ j.old \subseteq i.old \cup (IF Copies(name) = 1 THEN {name} ELSE {})
  <2>1. CASE /\ Copies(name) = 0
             /\ desk' = [desk EXCEPT ![t] = [i EXCEPT !.todo = i.todo \ {name}, !.new = i.new \cup {name}]]
    <3> DEFINE j == [i EXCEPT !.todo = i.todo \ {name}, !.new = i.new \cup {name}]
    <3>1. /\ j \in Syncing /\ j.at = "sync" /\ j.todo = i.todo \ {name}
          /\ j.new = i.new \cup {name} /\ j.old = i.old
      BY DEF Syncing
    <3> HIDE DEF j
    <3>2. desk' = [desk EXCEPT ![t] = j]
      BY <2>1 DEF j
    <3>3. j.todo \cup j.new \cup j.old = i.todo \cup i.new \cup i.old
      BY <1>4, <3>1
    <3> QED
      BY <2>1, <3>1, <3>2, <3>3
  <2>2. CASE /\ Copies(name) = 1
             /\ desk' = [desk EXCEPT ![t] = [i EXCEPT !.todo = i.todo \ {name}, !.old = i.old \cup {name}]]
    <3> DEFINE j == [i EXCEPT !.todo = i.todo \ {name}, !.old = i.old \cup {name}]
    <3>1. /\ j \in Syncing /\ j.at = "sync" /\ j.todo = i.todo \ {name}
          /\ j.new = i.new /\ j.old = i.old \cup {name}
      BY DEF Syncing
    <3> HIDE DEF j
    <3>2. desk' = [desk EXCEPT ![t] = j]
      BY <2>2 DEF j
    <3>3. j.todo \cup j.new \cup j.old = i.todo \cup i.new \cup i.old
      BY <1>4, <3>1
    <3> QED
      BY <2>2, <3>1, <3>2, <3>3
  <2> QED
    BY <1>3, <2>1, <2>2 DEF SyncPayout, Sit
<1>6. PICK j \in Syncing :
          /\ desk' = [desk EXCEPT ![t] = j]
          /\ j.at = "sync" /\ j.todo \cup j.new \cup j.old = i.todo \cup i.new \cup i.old
          /\ j.new \subseteq i.new \cup (IF Copies(name) = 0 THEN {name} ELSE {})
          /\ j.old \subseteq i.old \cup (IF Copies(name) = 1 THEN {name} ELSE {})
  BY <1>5
<1>7. desk'[t] = j /\ \A u \in Clerk \ {t} : desk'[u] = desk[u]
  BY <1>1, <1>6
<1>8. \A n : Copies(n)' = Copies(n)
  BY <1>4 DEF Copies, Dated
<1>9. i.at = "sync"
  BY DEF Syncing
<1>10. \A u \in Clerk : \A n : InList(u, n)' <=> InList(u, n)
  <2>1. \A n : InList(t, n)' <=> InList(t, n)
    BY <1>3, <1>6, <1>7, <1>9 DEF InList
  <2>2. \A u \in Clerk \ {t} : \A n : InList(u, n)' <=> InList(u, n)
    BY <1>7 DEF InList
  <2> QED
    BY <2>1, <2>2
<1>11. ASSUME NEW u \in Clerk, NEW n \in PlatformPayout, desk'[u] \in Syncing
       PROVE  /\ n \in desk'[u].new /\ n \notin doubled' => Copies(n)' = 0
              /\ n \in desk'[u].old => Copies(n)' > 0
  <2>1. CASE u = t
    <3>1. /\ n \in i.new /\ n \notin doubled => Copies(n) = 0
          /\ n \in i.old => Copies(n) > 0
      BY <1>1, <1>3 DEF PayoutsInv
    <3> QED
      BY <1>4, <1>6, <1>7, <1>8, <2>1, <3>1
  <2>2. CASE u # t
    <3>1. desk'[u] = desk[u]
      BY <1>7, <2>2
    <3> QED
      BY <1>1, <1>4, <1>8, <1>11, <3>1 DEF PayoutsInv
  <2> QED
    BY <2>1, <2>2
<1>12. PayoutsOnce'
  BY <1>1, <1>4, <1>8 DEF PayoutsInv, PayoutsOnce
<1>13. PayoutsInv'
  BY <1>1, <1>4, <1>10, <1>11, <1>12 DEF PayoutsInv
<1>14. /\ payouts' \in [PayoutRow -> 0..MaxPayouts] /\ synced' \in SUBSET PlatformPayout
       /\ doubled' \in SUBSET PlatformPayout
  BY <1>1, <1>4 DEF BooksTypeOK
<1> QED
  BY <1>4, <1>6, <1>13, <1>14, PayoutStep

(* The list is stored.                                                        *)
LEMMA FinishSyncKeeps ==
    ASSUME BooksInv, NEW t \in Clerk, FinishSync(t)
    PROVE  BooksInv'
<1>1. BooksTypeOK /\ PayoutsInv /\ desk \in [Clerk -> Job]
  BY DEF BooksInv, BooksTypeOK, Job
<1>2. desk[t] \in Syncing
  <2>1. desk[t].at = "sync"
    BY DEF FinishSync
  <2> QED
    BY <1>1, <2>1, Kinds
<1>3. PICK i \in Syncing : i = desk[t]
  BY <1>2
<1>4. /\ i.at = "sync"
      /\ \A n \in i.new : Copies(n) < MaxPayouts
      /\ payouts' = [row \in PayoutRow |->
             payouts[row] + (IF row.name \in i.new /\ ~ row.dated THEN 1 ELSE 0)]
      /\ synced' = synced \cup i.new \cup i.old
      /\ desk' = [desk EXCEPT ![t] = Away]
      /\ UNCHANGED <<status, ledger, runs, found, reports, doubled>>
  BY <1>3 DEF FinishSync, Sit
<1>5. /\ payouts \in [PayoutRow -> 0..MaxPayouts] /\ MaxPayouts \in Nat
      /\ i.new \in SUBSET PlatformPayout /\ i.old \in SUBSET PlatformPayout
      /\ synced \in SUBSET PlatformPayout /\ doubled \in SUBSET PlatformPayout
  BY <1>1, ReconciliationAssumption DEF BooksTypeOK, Syncing
<1>6. ASSUME NEW n \in PlatformPayout
      PROVE  /\ Copies(n)' = Copies(n) + (IF n \in i.new THEN 1 ELSE 0)
             /\ Copies(n) \in Nat
  <2>1. /\ [name |-> n, dated |-> FALSE] \in PayoutRow
        /\ [name |-> n, dated |-> TRUE] \in PayoutRow
        /\ payouts[[name |-> n, dated |-> FALSE]] \in 0..MaxPayouts
        /\ payouts[[name |-> n, dated |-> TRUE]] \in 0..MaxPayouts
        /\ Copies(n) = payouts[[name |-> n, dated |-> FALSE]]
                       + payouts[[name |-> n, dated |-> TRUE]]
        /\ Copies(n) \in Nat
    BY <1>1, CopiesAre
  <2>2. /\ payouts'[[name |-> n, dated |-> FALSE]] =
             payouts[[name |-> n, dated |-> FALSE]] + (IF n \in i.new THEN 1 ELSE 0)
        /\ payouts'[[name |-> n, dated |-> TRUE]] = payouts[[name |-> n, dated |-> TRUE]] + 0
    BY <1>4, <2>1
  <2>3. Copies(n)' = payouts'[[name |-> n, dated |-> FALSE]]
                     + payouts'[[name |-> n, dated |-> TRUE]]
    BY DEF Copies, Dated
  <2> QED
    BY <1>5, <2>1, <2>2, <2>3
<1>7. payouts' \in [PayoutRow -> 0..MaxPayouts]
  <2>1. ASSUME NEW row \in PayoutRow
        PROVE  payouts[row] + (IF row.name \in i.new /\ ~ row.dated THEN 1 ELSE 0) \in 0..MaxPayouts
    <3>1. payouts[row] \in 0..MaxPayouts
      BY <1>5
    <3>2. ASSUME row.name \in i.new
          PROVE  payouts[row] < MaxPayouts
      <4>1. payouts[row] <= Copies(row.name) /\ Copies(row.name) \in Nat
        BY <1>1, RowOfCopies
      <4> QED
        BY <1>4, <1>5, <3>1, <3>2, <4>1
    <3> QED
      BY <1>5, <3>1, <3>2
  <2> QED
    BY <1>4, <2>1
<1>8. /\ desk'[t] = Away /\ \A u \in Clerk \ {t} : desk'[u] = desk[u]
      /\ Away \notin Syncing /\ Away.at # "sync"
  BY <1>1, <1>4 DEF Away, Syncing
<1>9. \A u \in Clerk : \A n : InList(u, n)' => u # t /\ InList(u, n)
  BY <1>8 DEF InList
<1>10. \A n \in i.new : InList(t, n)
  BY <1>3, <1>4 DEF InList
<1>11. ASSUME NEW u \in Clerk, NEW n \in PlatformPayout, desk'[u] \in Syncing
       PROVE  /\ n \in desk'[u].new /\ n \notin doubled' => Copies(n)' = 0
              /\ n \in desk'[u].old => Copies(n)' > 0
  <2>1. u # t /\ desk'[u] = desk[u]
    BY <1>8, <1>11
  <2>2. desk[u].at = "sync"
    BY <1>11, <2>1 DEF Syncing
  <2>3. n \in desk[u].new /\ n \notin doubled => n \notin i.new /\ Copies(n) = 0
    <3>1. n \in desk[u].new => InList(u, n)
      BY <2>2 DEF InList
    <3> QED
      BY <1>1, <1>10, <1>11, <2>1, <3>1 DEF PayoutsInv
  <2>4. n \in desk[u].old => Copies(n) > 0
    BY <1>1, <1>11, <2>1 DEF PayoutsInv
  <2> QED
    BY <1>4, <1>6, <2>1, <2>3, <2>4
<1>12. ASSUME NEW n \in PlatformPayout
       PROVE  /\ n \in synced' => Copies(n)' > 0
              /\ n \notin doubled' => Copies(n)' <= 1
  <2>1. /\ n \in i.new /\ n \notin doubled => Copies(n) = 0
        /\ n \in i.old => Copies(n) > 0
        /\ n \in synced => Copies(n) > 0
        /\ n \notin doubled => Copies(n) <= 1
    BY <1>1, <1>3 DEF PayoutsInv, PayoutsOnce
  <2> QED
    BY <1>4, <1>6, <2>1
<1>13. PayoutsInv'
  <2>1. PayoutsOnce'
    BY <1>12 DEF PayoutsOnce
  <2> QED
    BY <1>1, <1>4, <1>9, <1>11, <2>1 DEF PayoutsInv
<1>14. doubled' \in SUBSET PlatformPayout /\ synced' \in SUBSET PlatformPayout
  BY <1>4, <1>5
<1> QED
  BY <1>4, <1>7, <1>13, <1>14, PayoutStep

--------------------------------------------------------------------------------
(* Every step of the books                                                    *)

(* An order is placed or progresses: what a run under way has had in its      *)
(* scope all the time is in it still.                                         *)
LEMMA MoveOrderKeeps ==
    ASSUME BooksInv, NEW o \in Order, MoveOrder(o)
    PROVE  BooksInv' /\ Later
<1>1. /\ status \in [Order -> Status] /\ desk \in [Clerk -> Job] /\ DeskInv
      /\ UNCHANGED <<ledger, runs, found, payouts, reports, desk, doubled, synced>>
  BY DEF BooksInv, BooksTypeOK, MoveOrder, Job
<1>2. PICK s \in {"PENDING", "open"} :
          /\ status' = [status EXCEPT ![o] = s]
          /\ s = "PENDING" => status[o] = "absent"
  BY DEF MoveOrder
<1>3. \A p \in Order : status'[p] = IF p = o THEN s ELSE status[p]
  BY <1>1, <1>2
<1>4. status' \in [Order -> Status]
  BY <1>1, <1>2 DEF Status
<1>5. Later
  BY <1>1, <1>2, <1>3, <1>4 DEF Later, Follows
<1>6. \A k \in Config : \A c : InScope(k, c) \subseteq InScope(k, c)'
  BY <1>2, <1>3 DEF InScope, Excluded
<1>7. ASSUME NEW u \in Clerk, Reconciles(u)
      PROVE  RunJob(desk[u])'
  <2>1. PICK j \in Reconciling : j = desk[u] /\ RunJob(j) /\ j.config \in Config
    BY <1>1, <1>7, RunFields DEF DeskInv, Reconciles
  <2>2. j.at = "orders" => j.knew.orders \subseteq InScope(j.config, j.connection)'
    BY <1>6, <2>1 DEF RunJob
  <2>3. RunJob(j)'
    BY <1>1, <1>5, <2>1, <2>2, RunJobKept
  <2> QED
    BY <1>1, <2>1, <2>3
<1>8. BooksInv'
  BY <1>1, <1>4, <1>5, <1>7, OrderStep DEF Reconciles
<1> QED
  BY <1>2, <1>3, <1>5, <1>8

(* What is left of a request when an order is cancelled.                      *)
LEMMA WithoutIs ==
    ASSUME NEW j \in Job, NEW o \in Order
    PROVE  /\ WithoutCancelled(j, o) \in Job
           /\ j \notin Reconciling => WithoutCancelled(j, o) = j
           /\ j \in Reconciling =>
                \E n \in Reconciling :
                    /\ n = WithoutCancelled(j, o)
                    /\ n.at = j.at /\ n.run = j.run /\ n.connection = j.connection
                    /\ n.config = j.config /\ n.todo = j.todo /\ n.checked = j.checked
                    /\ n.matched = j.matched /\ n.findings = j.findings
                    /\ n.knew.entries = j.knew.entries /\ n.knew.placed = j.knew.placed
                    /\ n.knew.orders \subseteq j.knew.orders
                    /\ ~ j.config.cancelled => o \notin n.knew.orders
<1>1. CASE j \notin Reconciling
  BY <1>1, Kinds DEF WithoutCancelled
<1>2. CASE j \in Reconciling /\ j.config.cancelled
  BY <1>2 DEF WithoutCancelled, Job
<1>3. CASE j \in Reconciling /\ ~ j.config.cancelled
  <2> DEFINE knew == [j.knew EXCEPT !.orders = @ \ {o}]
             n == [j EXCEPT !.knew = knew]
  <2>1. j.at \in {"orders", "order", "entry"} /\ j.knew \in Known
    BY <1>3, RunFields
  <2>2. n = WithoutCancelled(j, o)
    BY <1>3, <2>1 DEF WithoutCancelled
  <2>3. /\ knew \in Known /\ knew.entries = j.knew.entries /\ knew.placed = j.knew.placed
        /\ knew.orders = j.knew.orders \ {o}
    BY <2>1 DEF Known
  <2> HIDE DEF knew
  <2>4. /\ n \in Reconciling
        /\ n.at = j.at /\ n.run = j.run /\ n.connection = j.connection
        /\ n.config = j.config /\ n.todo = j.todo /\ n.checked = j.checked
        /\ n.matched = j.matched /\ n.findings = j.findings /\ n.knew = knew
    BY <1>3, <2>3 DEF Reconciling
  <2> HIDE DEF n
  <2> QED
    BY <1>3, <2>2, <2>3, <2>4 DEF Job
<1> QED
  BY <1>1, <1>2, <1>3

(* An order is cancelled, and is no longer one that a run has had in its      *)
(* scope all the time unless cancelled orders are.                            *)
LEMMA CancelOrderKeeps ==
    ASSUME BooksInv, NEW o \in Order, CancelOrder(o)
    PROVE  BooksInv' /\ Later
<1>1. /\ status \in [Order -> Status] /\ desk \in [Clerk -> Job] /\ DeskInv
      /\ status[o] # "absent" /\ status' = [status EXCEPT ![o] = "CANCELLED"]
      /\ desk' = [u \in Clerk |-> WithoutCancelled(desk[u], o)]
      /\ UNCHANGED <<ledger, runs, found, payouts, reports, doubled, synced>>
  BY DEF BooksInv, BooksTypeOK, CancelOrder, Job
<1>2. \A p \in Order : status'[p] = IF p = o THEN "CANCELLED" ELSE status[p]
  BY <1>1
<1>3. status' \in [Order -> Status]
  BY <1>1 DEF Status
<1>4. Later
  BY <1>1, <1>2, <1>3 DEF Later, Follows
<1>5. desk' \in [Clerk -> Job] /\ \A u \in Clerk : desk[u] \notin Reconciling => desk'[u] = desk[u]
  BY <1>1, WithoutIs
<1>6. \A k \in Config : \A c : \A p \in InScope(k, c) : (p = o /\ ~ k.cancelled) \/ p \in InScope(k, c)'
  BY <1>1, <1>2 DEF InScope, Excluded
<1>7. ASSUME NEW u \in Clerk, desk[u] \in Reconciling
      PROVE  desk'[u] \in Reconciling /\ desk'[u].run = desk[u].run /\ RunJob(desk[u])'
  <2>1. PICK j \in Reconciling : j = desk[u] /\ RunJob(j) /\ j.config \in Config
    BY <1>1, <1>7, RunFields DEF DeskInv, Reconciles
  <2>2. PICK n \in Reconciling :
                    /\ n = WithoutCancelled(j, o)
                    /\ n.at = j.at /\ n.run = j.run /\ n.connection = j.connection
                    /\ n.config = j.config /\ n.todo = j.todo /\ n.checked = j.checked
                    /\ n.matched = j.matched /\ n.findings = j.findings
                    /\ n.knew.entries = j.knew.entries /\ n.knew.placed = j.knew.placed
                    /\ n.knew.orders \subseteq j.knew.orders
                    /\ ~ j.config.cancelled => o \notin n.knew.orders
    BY <2>1, WithoutIs DEF Job
  <2>3. n.at = "orders" => n.knew.orders \subseteq InScope(n.config, n.connection)'
    <3>1. SUFFICES ASSUME n.at = "orders", NEW p \in n.knew.orders
                   PROVE  p \in InScope(n.config, n.connection)'
      OBVIOUS
    <3>2. p \in InScope(j.config, j.connection)
      BY <2>1, <2>2, <3>1 DEF RunJob
    <3>3. ~ (p = o /\ ~ j.config.cancelled)
      BY <2>2, <3>1
    <3> QED
      BY <1>6, <2>1, <2>2, <3>2, <3>3
  <2>4. RunJob(n)'
    BY <1>1, <1>4, <2>1, <2>2, <2>3, RunJobKept
  <2>5. desk'[u] = n
    BY <1>1, <2>1, <2>2
  <2> QED
    BY <2>1, <2>2, <2>4, <2>5
<1>8. \A u \in Clerk : desk'[u] = desk[u] \/ desk'[u] \notin Syncing
  <2>1. \A j \in Reconciling : j \notin Syncing
    BY Kinds DEF Job
  <2> QED
    BY <1>5, <1>7, <2>1
<1>9. \A u \in Clerk : Reconciles(u)' =>
               Reconciles(u) /\ desk'[u].run = desk[u].run /\ RunJob(desk[u])'
  BY <1>5, <1>7 DEF Reconciles
<1>10. BooksInv'
  BY <1>1, <1>3, <1>4, <1>5, <1>8, <1>9, OrderStep
<1> QED
  BY <1>4, <1>10

(* An entry is added.                                                         *)
LEMMA CreateEntryKeeps ==
    ASSUME BooksInv, NEW e \in Entry, NEW row \in Row, CreateEntry(e, row)
    PROVE  BooksInv' /\ Later
<1>1. /\ status \in [Order -> Status] /\ ledger \in [Entry -> FinancialLedger \cup {None}]
      /\ e \notin Stored /\ ledger' = [ledger EXCEPT ![e] = row]
      /\ UNCHANGED <<status, runs, found, payouts, reports, desk, doubled, synced>>
  BY DEF BooksInv, BooksTypeOK, CreateEntry
<1>2. row \in FinancialLedger
  BY ReconciliationAssumption
<1>3. ledger' \in [Entry -> FinancialLedger \cup {None}]
  BY <1>1, <1>2
<1>4. \A d \in Stored : d \in Entry /\ d # e
  BY <1>1 DEF Stored
<1>5. Later
  BY <1>1, <1>4 DEF Later, Follows
<1>6. /\ BooksTypeOK /\ RunsInv /\ DeskInv /\ PayoutsInv /\ desk \in [Clerk -> Job]
      /\ BooksTypeOK'
  BY <1>1, <1>3 DEF BooksInv, BooksTypeOK, Job
<1>7. RunsInv' /\ DeskInv' /\ PayoutsInv'
  BY <1>1, <1>5, <1>6, RunsKept, DeskSame, PayoutsKept
<1> QED
  BY <1>5, <1>6, <1>7 DEF BooksInv

(* A request gives up.                                                        *)
LEMMA GiveUpKeeps ==
    ASSUME BooksInv, NEW t \in Clerk, GiveUp(t)
    PROVE  BooksInv'
<1>1. /\ desk' = [desk EXCEPT ![t] = Away]
      /\ UNCHANGED <<status, ledger, runs, found, payouts, reports, doubled, synced>>
  BY DEF GiveUp, Sit
<1>2. reports' \in [Report -> SettlementReport \cup {None}]
  BY <1>1 DEF BooksInv, BooksTypeOK
<1> QED
  BY <1>1, <1>2, OtherStep

(* A settlement report reads the entries.                                     *)
LEMMA StartReportKeeps ==
    ASSUME BooksInv, NEW t \in Clerk, StartReport(t)
    PROVE  BooksInv'
<1> DEFINE j == [at |-> "settle", entries |-> Stored]
<1>1. /\ desk' = [desk EXCEPT ![t] = j]
      /\ UNCHANGED <<status, ledger, runs, found, payouts, reports, doubled, synced>>
  BY DEF StartReport, Sit
<1>2. reports' \in [Report -> SettlementReport \cup {None}]
  BY <1>1 DEF BooksInv, BooksTypeOK
<1>3. j \in Settling
  BY DEF Settling, Stored
<1> HIDE DEF j
<1> QED
  BY <1>1, <1>2, <1>3, OtherStep

(* It reads the payouts and is stored.                                        *)
LEMMA FinishReportKeeps ==
    ASSUME BooksInv, NEW t \in Clerk, NEW s \in Report, FinishReport(t, s)
    PROVE  BooksInv'
<1>1. BooksTypeOK /\ desk \in [Clerk -> Job]
      /\ reports \in [Report -> SettlementReport \cup {None}]
  BY DEF BooksInv, BooksTypeOK, Job
<1>2. desk[t] \in Settling
  <2>1. desk[t].at = "settle"
    BY DEF FinishReport
  <2> QED
    BY <1>1, <2>1, Kinds
<1> DEFINE sums == [n \in PlatformPayout |-> Dated(n)]
           report == [entries |-> desk[t].entries, final |-> FALSE, payouts |-> sums]
<1>3. /\ desk' = [desk EXCEPT ![t] = Away]
      /\ reports' = [reports EXCEPT ![s] = report]
      /\ UNCHANGED <<status, ledger, runs, found, payouts, doubled, synced>>
  BY DEF FinishReport, Sit
<1>4. sums \in [PlatformPayout -> 0..MaxPayouts]
  BY <1>1, CopiesAre DEF Dated
<1> HIDE DEF sums
<1>5. report \in SettlementReport
  BY <1>2, <1>4 DEF Settling, SettlementReport
<1> HIDE DEF report
<1>6. reports' \in [Report -> SettlementReport \cup {None}]
  BY <1>1, <1>3, <1>5
<1> QED
  BY <1>3, <1>6, OtherStep

(* A settlement report becomes final.                                         *)
LEMMA FinalizeKeeps ==
    ASSUME BooksInv, NEW s \in Report, Finalize(s)
    PROVE  BooksInv'
<1>1. /\ BooksTypeOK /\ RunsInv /\ DeskInv /\ PayoutsInv
      /\ desk \in [Clerk -> Job] /\ reports \in [Report -> SettlementReport \cup {None}]
  BY DEF BooksInv, BooksTypeOK, Job
<1>2. /\ reports[s] # None
      /\ reports' = [reports EXCEPT ![s] = [reports[s] EXCEPT !.final = TRUE]]
      /\ UNCHANGED <<status, ledger, runs, found, payouts, desk, doubled, synced>>
  BY DEF Finalize
<1>3. PICK report \in SettlementReport : report = reports[s]
  BY <1>1, <1>2
<1>4. [report EXCEPT !.final = TRUE] \in SettlementReport
  BY DEF SettlementReport
<1>5. reports' \in [Report -> SettlementReport \cup {None}]
  BY <1>1, <1>2, <1>3, <1>4
<1>6. BooksTypeOK'
  BY <1>1, <1>2, <1>5 DEF BooksTypeOK
<1>7. Later
  BY <1>1, <1>2, Unmoved
<1>8. RunsInv' /\ DeskInv'
  BY <1>1, <1>2, <1>7, RunsKept, DeskSame
<1>9. PayoutsInv'
  BY <1>1, <1>2, PayoutsKept
<1> QED
  BY <1>6, <1>8, <1>9 DEF BooksInv

(* Steps keep what requests and rows rely on; orders and entries only go on,  *)
(* and discrepancies do not become fewer.                                     *)
LEMMA BooksStep ==
    ASSUME BooksInv, BooksNext
    PROVE  /\ BooksInv' /\ Later
           /\ Cardinality(found) <= Cardinality(found')
<1>1. BooksTypeOK /\ IsFiniteSet(found) /\ Cardinality(found) \in Nat
  BY FS_CardinalityType DEF BooksInv, RunsInv
<1>2. ASSUME UNCHANGED <<status, ledger>>, found \subseteq found', BooksInv'
      PROVE  Later /\ Cardinality(found) <= Cardinality(found')
  <2>1. IsFiniteSet(found')
    BY <1>2 DEF BooksInv, RunsInv
  <2> QED
    BY <1>1, <1>2, <2>1, Unmoved, FS_Subset
<1>3. ASSUME NEW o \in Order, MoveOrder(o) \/ CancelOrder(o)
      PROVE  BooksInv' /\ Later /\ found' = found
  BY <1>3, MoveOrderKeeps, CancelOrderKeeps DEF MoveOrder, CancelOrder
<1>4. ASSUME NEW e \in Entry, NEW row \in Row, CreateEntry(e, row)
      PROVE  BooksInv' /\ Later /\ found' = found
  BY <1>4, CreateEntryKeeps DEF CreateEntry
<1>5. ASSUME NEW t \in Clerk, GiveUp(t)
      PROVE  BooksInv' /\ UNCHANGED <<status, ledger>> /\ found \subseteq found'
  BY <1>5, GiveUpKeeps DEF GiveUp
<1>6. ASSUME NEW t \in Clerk, NEW r \in Run, NEW c \in Connection \cup {None}, NEW k \in Config,
             StartRun(t, r, c, k)
      PROVE  BooksInv' /\ UNCHANGED <<status, ledger>> /\ found \subseteq found'
  BY <1>6, StartRunKeeps DEF StartRun
<1>7. ASSUME NEW t \in Clerk, SelectOrders(t)
      PROVE  BooksInv' /\ UNCHANGED <<status, ledger>> /\ found \subseteq found'
  BY <1>7, SelectOrdersKeeps DEF SelectOrders
<1>8. ASSUME NEW t \in Clerk, FailRun(t)
      PROVE  BooksInv' /\ UNCHANGED <<status, ledger>> /\ found \subseteq found'
  BY <1>8, FailRunKeeps DEF FailRun
<1>9. ASSUME NEW t \in Clerk, NEW o \in Order, CheckOrder(t, o)
      PROVE  BooksInv' /\ UNCHANGED <<status, ledger>> /\ found \subseteq found'
  BY <1>9, CheckOrderKeeps DEF CheckOrder
<1>10. ASSUME NEW t \in Clerk, SelectLedgers(t)
       PROVE  BooksInv' /\ UNCHANGED <<status, ledger>> /\ found \subseteq found'
  BY <1>10, SelectLedgersKeeps DEF SelectLedgers
<1>11. ASSUME NEW t \in Clerk, NEW e \in Entry, CheckEntry(t, e)
       PROVE  BooksInv' /\ UNCHANGED <<status, ledger>> /\ found \subseteq found'
  BY <1>11, CheckEntryKeeps DEF CheckEntry
<1>12. ASSUME NEW t \in Clerk, FinishRun(t)
       PROVE  BooksInv' /\ UNCHANGED <<status, ledger>> /\ found \subseteq found'
  BY <1>12, FinishRunKeeps DEF FinishRun
<1>13. ASSUME NEW t \in Clerk, NEW list \in SUBSET PlatformPayout, StartSync(t, list)
       PROVE  BooksInv' /\ UNCHANGED <<status, ledger>> /\ found \subseteq found'
  BY <1>13, StartSyncKeeps DEF StartSync
<1>14. ASSUME NEW t \in Clerk, NEW name \in PlatformPayout, SyncPayout(t, name)
       PROVE  BooksInv' /\ UNCHANGED <<status, ledger>> /\ found \subseteq found'
  BY <1>14, SyncPayoutKeeps DEF SyncPayout
<1>15. ASSUME NEW t \in Clerk, FinishSync(t)
       PROVE  BooksInv' /\ UNCHANGED <<status, ledger>> /\ found \subseteq found'
  BY <1>15, FinishSyncKeeps DEF FinishSync
<1>16. ASSUME NEW t \in Clerk, StartReport(t)
       PROVE  BooksInv' /\ UNCHANGED <<status, ledger>> /\ found \subseteq found'
  BY <1>16, StartReportKeeps DEF StartReport
<1>17. ASSUME NEW t \in Clerk, NEW s \in Report, FinishReport(t, s)
       PROVE  BooksInv' /\ UNCHANGED <<status, ledger>> /\ found \subseteq found'
  BY <1>17, FinishReportKeeps DEF FinishReport
<1>18. ASSUME NEW d \in found, NEW resolved \in BOOLEAN, UpdateDiscrepancy(d, resolved)
       PROVE  BooksInv' /\ UNCHANGED <<status, ledger>> /\ Cardinality(found') = Cardinality(found)
  BY <1>18, UpdateDiscrepancyKeeps DEF UpdateDiscrepancy
<1>19. ASSUME NEW row \in PayoutRow, CreatePayout(row)
       PROVE  BooksInv' /\ UNCHANGED <<status, ledger>> /\ found \subseteq found'
  BY <1>19, CreatePayoutKeeps DEF CreatePayout
<1>20. ASSUME NEW s \in Report, Finalize(s)
       PROVE  BooksInv' /\ UNCHANGED <<status, ledger>> /\ found \subseteq found'
  BY <1>20, FinalizeKeeps DEF Finalize
<1>21. CASE \E t \in Clerk :
                \/ GiveUp(t)
                \/ \E r \in Run, c \in Connection \cup {None}, k \in Config : StartRun(t, r, c, k)
                \/ SelectOrders(t)
                \/ FailRun(t)
                \/ \E o \in Order : CheckOrder(t, o)
                \/ SelectLedgers(t)
                \/ \E e \in Entry : CheckEntry(t, e)
                \/ FinishRun(t)
                \/ \E list \in SUBSET PlatformPayout : StartSync(t, list)
                \/ \E name \in PlatformPayout : SyncPayout(t, name)
                \/ FinishSync(t)
                \/ StartReport(t)
                \/ \E s \in Report : FinishReport(t, s)
  <2>1. BooksInv' /\ UNCHANGED <<status, ledger>> /\ found \subseteq found'
    BY <1>5, <1>6, <1>7, <1>8, <1>9, <1>10, <1>11, <1>12, <1>13, <1>14, <1>15, <1>16, <1>17, <1>21,
       Zenon
  <2> QED
    BY <1>2, <2>1
<1>22. CASE \E d \in found, resolved \in BOOLEAN : UpdateDiscrepancy(d, resolved)
  <2>1. BooksInv' /\ UNCHANGED <<status, ledger>> /\ Cardinality(found') = Cardinality(found)
    BY <1>18, <1>22, Zenon
  <2> QED
    BY <1>1, <2>1, Unmoved
<1>23. CASE \/ \E o \in Order : MoveOrder(o) \/ CancelOrder(o)
            \/ \E e \in Entry, row \in Row : CreateEntry(e, row)
  <2>1. BooksInv' /\ Later /\ found' = found
    BY <1>3, <1>4, <1>23, Zenon
  <2> QED
    BY <1>1, <2>1
<1>24. CASE (\E row \in PayoutRow : CreatePayout(row)) \/ \E s \in Report : Finalize(s)
  <2>1. BooksInv' /\ UNCHANGED <<status, ledger>> /\ found \subseteq found'
    BY <1>19, <1>20, <1>24, Zenon
  <2> QED
    BY <1>2, <2>1
<1> QED
  BY <1>21, <1>22, <1>23, <1>24, Zenon DEF BooksNext

--------------------------------------------------------------------------------
(* Reports                                                                    *)

(* What a report has read, by what it is at.                                  *)
LEMMA ReadingFields ==
    ASSUME AnalyticsTypeOK
    PROVE  /\ reading.at = "dashboard" =>
                reading.period \in Period /\ reading.current \in SUBSET Order
           /\ reading.at = "items" =>
                reading \in [at : {"items"}, period : Period, sold : SUBSET Order,
                             cancelled : SUBSET Order]
           /\ reading.at = "runs" => reading.discrepancies \in Nat
           /\ reading.at = "ledger" => reading.overall \in Nat
<1>1. CASE reading = Nothing
  BY <1>1 DEF Nothing
<1>2. CASE reading \in [at : {"dashboard"}, period : Period, current : SUBSET Order]
  BY <1>2
<1>3. CASE reading \in [at : {"comparison"}, current : SUBSET Order, previous : SUBSET Order]
  BY <1>3
<1>4. CASE reading \in [at : {"items"}, period : Period, sold : SUBSET Order,
                        cancelled : SUBSET Order]
  BY <1>4
<1>5. CASE reading \in [at : {"performance"}, sold : SUBSET Order, refunded : SUBSET Order,
                        cancelled : SUBSET Order]
  BY <1>5
<1>6. CASE reading \in [at : {"runs"}, discrepancies : Nat]
  BY <1>6
<1>7. CASE reading \in [at : {"ledger"}, overall : Nat]
  BY <1>7
<1>8. CASE reading \in [at : {"summary"}, overall : Nat, byType : Nat]
  BY <1>8
<1>9. CASE reading \in [at : {"reconciliation"}, discrepancies : Nat, byType : Nat]
  BY <1>9
<1> QED
  BY <1>1, <1>2, <1>3, <1>4, <1>5, <1>6, <1>7, <1>8, <1>9 DEF AnalyticsTypeOK

(* What runs have counted can be found: there is a discrepancy for each.      *)
LEMMA CountedFound ==
    ASSUME BooksInv
    PROVE  /\ Cardinality(Counted) \in Nat
           /\ Cardinality(Counted) <= Cardinality(found)
<1> DEFINE Done == {r \in Run : runs[r] # None}
           Numbers(r) == 1..runs[r].discrepancies
           nth == [r \in Done |-> CHOOSE b : b \in Bijection(Numbers(r), OfRun(r))]
           f == [x \in Counted |-> nth[x[1]][x[2]]]
<1>1. IsFiniteSet(found)
  BY DEF BooksInv, RunsInv
<1>2. ASSUME NEW r \in Done
      PROVE  nth[r] \in Bijection(Numbers(r), OfRun(r))
  <2>1. OfRun(r) \in SUBSET found
    BY DEF OfRun
  <2>2. ExistsBijection(1..Cardinality(OfRun(r)), OfRun(r))
    BY <1>1, <2>1, FS_Subset, FS_CardinalityType
  <2>3. runs[r].discrepancies = Cardinality(OfRun(r))
    BY <1>2 DEF BooksInv, RunsInv, RunRow
  <2>4. \E b : b \in Bijection(Numbers(r), OfRun(r))
    BY <2>2, <2>3, Fun_ExistsBij
  <2>5. (CHOOSE b : b \in Bijection(Numbers(r), OfRun(r))) \in Bijection(Numbers(r), OfRun(r))
    BY <2>4, Zenon
  <2> QED
    BY <1>2, <2>5
<1> HIDE DEF nth
<1>3. ASSUME NEW r \in Done
      PROVE  /\ \A a \in Numbers(r) : nth[r][a] \in found /\ nth[r][a].run = r
             /\ \A a, b \in Numbers(r) : nth[r][a] = nth[r][b] => a = b
  <2> DEFINE g == nth[r]
             S == Numbers(r)
  <2>0. g \in Bijection(S, OfRun(r))
    BY <1>2
  <2> HIDE DEF g, S
  <2>1. g \in [S -> OfRun(r)] /\ \A a, b \in S : g[a] = g[b] => a = b
    <3> DEFINE T == OfRun(r)
    <3> HIDE DEF T
    <3>1. g \in Bijection(S, T)
      BY <2>0 DEF T
    <3>2. g \in [S -> T]
      BY <3>1, Fun_BijectionProperties
    <3>3. \A a, b \in S : g[a] = g[b] => a = b
      BY <3>1, Fun_BijectionProperties
    <3> QED
      BY <3>2, <3>3 DEF T
  <2>2. \A a, b \in Numbers(r) : nth[r][a] = nth[r][b] => a = b
    BY <2>1 DEF g, S
  <2>3. \A a \in Numbers(r) : nth[r][a] \in OfRun(r)
    BY <2>1 DEF g, S
  <2> QED
    BY <2>2, <2>3 DEF OfRun
<1>4. \A x \in Counted : x[1] \in Done /\ x[2] \in Numbers(x[1]) /\ x = <<x[1], x[2]>>
  BY DEF Counted
<1> HIDE DEF Done, Numbers
<1>5. f \in [Counted -> found]
  BY <1>3, <1>4
<1>6. ASSUME NEW x \in Counted, NEW y \in Counted, f[x] = f[y]
      PROVE  x = y
  <2>1. f[x] = nth[x[1]][x[2]] /\ f[y] = nth[y[1]][y[2]]
    OBVIOUS
  <2>2. x[1] = y[1]
    BY <1>3, <1>4, <1>6, <2>1
  <2>3. x[2] = y[2]
    BY <1>3, <1>4, <1>6, <2>1, <2>2
  <2> QED
    BY <1>4, <2>2, <2>3
<1> HIDE DEF f
<1>7. f \in Injection(Counted, found)
  BY <1>5, <1>6, Fun_IsInj
<1> QED
  BY <1>1, <1>7, FS_Injection, FS_CardinalityType

(* Books that do not change.                                                  *)
LEMMA BooksStill ==
    ASSUME BooksInv, UNCHANGED booksVars
    PROVE  BooksInv' /\ Later /\ found' = found
<1>1. /\ BooksTypeOK /\ RunsInv /\ DeskInv /\ PayoutsInv /\ desk \in [Clerk -> Job]
  BY DEF BooksInv, BooksTypeOK, Job
<1>2. UNCHANGED <<status, ledger, runs, found, payouts, reports, desk, doubled, synced>>
  BY DEF booksVars
<1>3. BooksTypeOK'
  BY <1>1, <1>2 DEF BooksTypeOK
<1>4. Later
  BY <1>1, <1>2, Unmoved
<1>5. RunsInv' /\ DeskInv'
  BY <1>1, <1>2, <1>4, RunsKept, DeskSame
<1>6. PayoutsInv'
  BY <1>1, <1>2, PayoutsKept
<1> QED
  BY <1>2, <1>3, <1>4, <1>5, <1>6 DEF BooksInv

(* What a report has read while books go on under it.                         *)
LEMMA ReadingKept ==
    ASSUME AnalyticsTypeOK, ReadingInv, Watch, Later,
           Cardinality(found) \in Nat, Cardinality(found') \in Nat,
           Cardinality(found) <= Cardinality(found')
    PROVE  AnalyticsTypeOK' /\ ReadingInv'
<1>1. today' = today
  BY DEF Watch
<1>2. /\ Cardinality(Stored) <= Cardinality(Stored')
      /\ Cardinality(Stored) \in Nat /\ Cardinality(Stored') \in Nat
  <2>1. Stored \in SUBSET Stored'
    BY DEF Later, Stored
  <2>2. Stored' \in SUBSET Entry
    BY DEF Stored
  <2>3. IsFiniteSet(Stored')
    BY <2>2, FS_Subset, ReconciliationAssumption
  <2>4. IsFiniteSet(Stored)
    BY <2>1, <2>3, FS_Subset
  <2> QED
    BY <2>1, <2>3, <2>4, FS_Subset, FS_CardinalityType
<1>3. CASE reading.at # "items"
  <2>1. reading' = reading
    BY <1>3 DEF Watch
  <2>2. AnalyticsTypeOK'
    BY <1>1, <2>1 DEF AnalyticsTypeOK
  <2>3. reading.at = "dashboard" =>
            \A o \in reading.current : In(o, PeriodBoundaries(reading.period, today))
    BY DEF ReadingInv
  <2>4. reading.at = "runs" => reading.discrepancies <= Cardinality(found')
    BY ReadingFields DEF ReadingInv
  <2>5. reading.at = "ledger" => reading.overall <= Cardinality(Stored')
    BY <1>2, ReadingFields DEF ReadingInv
  <2>6. ReportsAddUp'
    BY <2>1 DEF ReadingInv, ReportsAddUp
  <2> QED
    BY <1>1, <1>3, <2>1, <2>2, <2>3, <2>4, <2>5, <2>6 DEF ReadingInv
<1>4. CASE reading.at = "items"
  <2> DEFINE new == {o \in Order : status[o] # "CANCELLED" /\ status'[o] = "CANCELLED"}
             n == [reading EXCEPT !.cancelled = @ \cup new]
  <2>1. reading' = n
    BY <1>4 DEF Watch
  <2>2. /\ n \in [at : {"items"}, period : Period, sold : SUBSET Order, cancelled : SUBSET Order]
        /\ n.at = "items" /\ n.sold = reading.sold /\ n.sold \subseteq Order
        /\ n.cancelled = reading.cancelled \cup new
    BY <1>4, ReadingFields
  <2>3. \A o \in n.sold : status'[o] = "CANCELLED" => o \in n.cancelled
    BY <1>4, <2>2 DEF ReadingInv
  <2> HIDE DEF n, new
  <2>4. AnalyticsTypeOK'
    BY <1>1, <2>1, <2>2 DEF AnalyticsTypeOK
  <2> QED
    BY <1>1, <2>1, <2>2, <2>3, <2>4 DEF ReadingInv, ReportsAddUp
<1> QED
  BY <1>3, <1>4

(* When nothing happens, the history does not change either.                  *)
LEMMA Unwatched ==
    ASSUME AnalyticsTypeOK, UNCHANGED <<status, today, reading>>
    PROVE  Watch
<1>1. {o \in Order : status[o] # "CANCELLED" /\ status'[o] = "CANCELLED"} = {}
  OBVIOUS
<1>2. CASE reading.at = "items"
  <2>1. reading \in [at : {"items"}, period : Period, sold : SUBSET Order,
                     cancelled : SUBSET Order]
    BY <1>2, ReadingFields
  <2>2. [reading EXCEPT !.cancelled = @ \cup {}] = reading
    BY <2>1
  <2> QED
    BY <1>1, <1>2, <2>2 DEF Watch
<1>3. CASE reading.at # "items"
  BY <1>3 DEF Watch
<1> QED
  BY <1>2, <1>3

(* A report reads on.                                                         *)
LEMMA AnalyticsStep ==
    ASSUME IInv, AnalyticsNext, UNCHANGED booksVars
    PROVE  AnalyticsTypeOK' /\ ReadingInv'
<1>1. /\ BooksInv /\ AnalyticsTypeOK /\ ReadingInv
      /\ IsFiniteSet(found) /\ Cardinality(found) \in Nat
  BY FS_CardinalityType DEF IInv, BooksInv, RunsInv
<1>2. /\ today \in Day /\ today \in Nat /\ today > 30
      /\ CreatedOn \in [Order -> Nat]
  BY <1>1, AnalyticsAssumption DEF ReadingInv
<1>3. /\ status' = status /\ found' = found /\ Stored' = Stored
  BY DEF booksVars, Stored
<1>4. today' = today
  BY Zenon DEF AnalyticsNext, StartDashboard, StartItems, FinishDashboard, FinishItems,
     StartReconciliationReport, FinishReconciliationReport, StartLedgerSummary,
     FinishLedgerSummary, CloseReport, Read
<1>5. \A b : SalesReport(b) \in SUBSET Order /\ \A o \in SalesReport(b) : In(o, b)
  BY DEF SalesReport
<1>6. /\ \A T \in SUBSET Stored : Cardinality(T) \in Nat /\ Cardinality(T) <= Cardinality(Stored)
      /\ Cardinality(Stored) \in Nat
  <2>1. Stored \in SUBSET Entry
    BY DEF Stored
  <2>2. IsFiniteSet(Stored)
    BY <2>1, FS_Subset, ReconciliationAssumption
  <2> QED
    BY <2>2, FS_Subset, FS_CardinalityType
<1>7. ASSUME NEW p \in Period, StartDashboard(p)
      PROVE  AnalyticsTypeOK' /\ ReadingInv'
  <2> DEFINE r == [at |-> "dashboard", period |-> p,
                   current |-> SalesReport(PeriodBoundaries(p, today))]
  <2>1. reading' = r
    BY <1>7 DEF StartDashboard, Read
  <2>2. /\ r \in [at : {"dashboard"}, period : Period, current : SUBSET Order]
        /\ r.at = "dashboard" /\ r.period = p
        /\ \A o \in r.current : In(o, PeriodBoundaries(p, today))
    BY <1>5
  <2> HIDE DEF r
  <2>3. AnalyticsTypeOK'
    BY <1>2, <1>4, <2>1, <2>2 DEF AnalyticsTypeOK
  <2> QED
    BY <1>2, <1>4, <2>1, <2>2, <2>3 DEF ReadingInv, ReportsAddUp
<1>8. ASSUME FinishDashboard
      PROVE  AnalyticsTypeOK' /\ ReadingInv'
  <2> DEFINE b == PeriodBoundaries(reading.period, today)
             r == [at |-> "comparison", current |-> reading.current,
                   previous |-> SalesReport(PreviousPeriod(b))]
  <2>1. reading' = r /\ reading.at = "dashboard"
    BY <1>8 DEF FinishDashboard, Read
  <2>2. /\ reading.current \in SUBSET Order /\ reading.period \in Period
        /\ \A o \in reading.current : In(o, b)
    BY <1>1, <2>1, ReadingFields DEF ReadingInv
  <2>3. b[1] \in Int
    BY <1>2, <2>2, PeriodOfDay
  <2> HIDE DEF b
  <2>4. /\ r \in [at : {"comparison"}, current : SUBSET Order, previous : SUBSET Order]
        /\ r.at = "comparison" /\ r.current = reading.current
        /\ \A o \in r.previous : o \in Order /\ In(o, PreviousPeriod(b))
    BY <1>5, <2>2
  <2> HIDE DEF r
  <2>5. PreviousPeriod(b)[2] = b[1]
    BY DEF PreviousPeriod
  <2>6. r.current \cap r.previous = {}
    <3>1. ASSUME NEW o \in r.current, o \in r.previous
          PROVE  FALSE
      <4>1. CreatedOn[o] \in Nat /\ b[1] <= CreatedOn[o] /\ CreatedOn[o] < b[1]
        BY <1>2, <2>2, <2>4, <2>5, <3>1 DEF In
      <4> QED
        BY <2>3, <4>1
    <3> QED
      BY <3>1
  <2>7. AnalyticsTypeOK'
    BY <1>2, <1>4, <2>1, <2>4 DEF AnalyticsTypeOK
  <2> QED
    BY <1>2, <1>4, <2>1, <2>4, <2>6, <2>7 DEF ReadingInv, ReportsAddUp
<1>9. ASSUME NEW p \in Period, StartItems(p)
      PROVE  AnalyticsTypeOK' /\ ReadingInv'
  <2> DEFINE sold == {o \in Order : /\ In(o, PeriodBoundaries(p, today))
                                    /\ status[o] \notin {"absent", "CANCELLED"}}
             r == [at |-> "items", period |-> p, sold |-> sold, cancelled |-> {}]
  <2>1. reading' = r
    BY <1>9 DEF StartItems, Read
  <2>2. sold \in SUBSET Order /\ \A o \in sold : status[o] # "CANCELLED"
    OBVIOUS
  <2> HIDE DEF sold
  <2>3. /\ r \in [at : {"items"}, period : Period, sold : SUBSET Order, cancelled : SUBSET Order]
        /\ r.at = "items" /\ r.sold = sold
    BY <2>2
  <2> HIDE DEF r
  <2>4. AnalyticsTypeOK'
    BY <1>2, <1>4, <2>1, <2>3 DEF AnalyticsTypeOK
  <2> QED
    BY <1>2, <1>3, <1>4, <2>1, <2>2, <2>3, <2>4 DEF ReadingInv, ReportsAddUp
<1>10. ASSUME FinishItems
       PROVE  AnalyticsTypeOK' /\ ReadingInv'
  <2> DEFINE refunded == {o \in Order : /\ In(o, PeriodBoundaries(reading.period, today))
                                        /\ status[o] = "CANCELLED"}
             r == [at |-> "performance", sold |-> reading.sold,
                   cancelled |-> reading.cancelled, refunded |-> refunded]
  <2>1. reading' = r /\ reading.at = "items"
    BY <1>10 DEF FinishItems, Read
  <2>2. /\ reading.sold \in SUBSET Order /\ reading.cancelled \in SUBSET Order
        /\ \A o \in reading.sold : status[o] = "CANCELLED" => o \in reading.cancelled
    BY <1>1, <2>1, ReadingFields DEF ReadingInv
  <2>3. refunded \in SUBSET Order /\ \A o \in refunded : status[o] = "CANCELLED"
    OBVIOUS
  <2> HIDE DEF refunded
  <2>4. /\ r \in [at : {"performance"}, sold : SUBSET Order, refunded : SUBSET Order,
                  cancelled : SUBSET Order]
        /\ r.at = "performance" /\ r.sold \cap r.refunded \subseteq r.cancelled
    BY <2>2, <2>3
  <2> HIDE DEF r
  <2>5. AnalyticsTypeOK'
    BY <1>2, <1>4, <2>1, <2>4 DEF AnalyticsTypeOK
  <2> QED
    BY <1>2, <1>4, <2>1, <2>4, <2>5 DEF ReadingInv, ReportsAddUp
<1>11. ASSUME StartReconciliationReport
       PROVE  AnalyticsTypeOK' /\ ReadingInv'
  <2> DEFINE n == Cardinality(Counted)
             r == [at |-> "runs", discrepancies |-> n]
  <2>1. reading' = r
    BY <1>11 DEF StartReconciliationReport, Read
  <2>2. n \in Nat /\ n <= Cardinality(found)
    BY <1>1, CountedFound
  <2> HIDE DEF n
  <2>3. r \in [at : {"runs"}, discrepancies : Nat] /\ r.at = "runs" /\ r.discrepancies = n
    BY <2>2
  <2> HIDE DEF r
  <2>4. AnalyticsTypeOK'
    BY <1>2, <1>4, <2>1, <2>3 DEF AnalyticsTypeOK
  <2> QED
    BY <1>2, <1>3, <1>4, <2>1, <2>2, <2>3, <2>4 DEF ReadingInv, ReportsAddUp
<1>12. ASSUME FinishReconciliationReport
       PROVE  AnalyticsTypeOK' /\ ReadingInv'
  <2> DEFINE n == Cardinality(found)
             r == [at |-> "reconciliation", discrepancies |-> reading.discrepancies, byType |-> n]
  <2>1. reading' = r /\ reading.at = "runs"
    BY <1>12 DEF FinishReconciliationReport, Read
  <2>2. reading.discrepancies \in Nat /\ n \in Nat /\ reading.discrepancies <= n
    BY <1>1, <2>1, ReadingFields DEF ReadingInv
  <2> HIDE DEF n
  <2>3. /\ r \in [at : {"reconciliation"}, discrepancies : Nat, byType : Nat]
        /\ r.at = "reconciliation" /\ r.discrepancies <= r.byType
    BY <2>2
  <2> HIDE DEF r
  <2>4. AnalyticsTypeOK'
    BY <1>2, <1>4, <2>1, <2>3 DEF AnalyticsTypeOK
  <2> QED
    BY <1>2, <1>4, <2>1, <2>3, <2>4 DEF ReadingInv, ReportsAddUp
<1>13. ASSUME NEW c \in Connection \cup {None}, StartLedgerSummary(c)
       PROVE  AnalyticsTypeOK' /\ ReadingInv'
  <2> DEFINE T == {e \in Stored : c \in {None, ledger[e].connection}}
             n == Cardinality(T)
             r == [at |-> "ledger", overall |-> n]
  <2>1. reading' = r
    BY <1>13 DEF StartLedgerSummary, Read
  <2>2. n \in Nat /\ n <= Cardinality(Stored)
    BY <1>6, T \in SUBSET Stored
  <2> HIDE DEF n, T
  <2>3. r \in [at : {"ledger"}, overall : Nat] /\ r.at = "ledger" /\ r.overall = n
    BY <2>2
  <2> HIDE DEF r
  <2>4. AnalyticsTypeOK'
    BY <1>2, <1>4, <2>1, <2>3 DEF AnalyticsTypeOK
  <2> QED
    BY <1>2, <1>3, <1>4, <2>1, <2>2, <2>3, <2>4 DEF ReadingInv, ReportsAddUp
<1>14. ASSUME FinishLedgerSummary
       PROVE  AnalyticsTypeOK' /\ ReadingInv'
  <2> DEFINE n == Cardinality(Stored)
             r == [at |-> "summary", overall |-> reading.overall, byType |-> n]
  <2>1. reading' = r /\ reading.at = "ledger"
    BY <1>14 DEF FinishLedgerSummary, Read
  <2>2. reading.overall \in Nat /\ n \in Nat /\ reading.overall <= n
    BY <1>1, <1>6, <2>1, ReadingFields DEF ReadingInv
  <2> HIDE DEF n
  <2>3. /\ r \in [at : {"summary"}, overall : Nat, byType : Nat]
        /\ r.at = "summary" /\ r.overall <= r.byType
    BY <2>2
  <2> HIDE DEF r
  <2>4. AnalyticsTypeOK'
    BY <1>2, <1>4, <2>1, <2>3 DEF AnalyticsTypeOK
  <2> QED
    BY <1>2, <1>4, <2>1, <2>3, <2>4 DEF ReadingInv, ReportsAddUp
<1>15. ASSUME CloseReport
       PROVE  AnalyticsTypeOK' /\ ReadingInv'
  <2>1. reading' = Nothing /\ Nothing.at = "idle"
    BY <1>15 DEF CloseReport, Read, Nothing
  <2>2. AnalyticsTypeOK'
    BY <1>2, <1>4, <2>1 DEF AnalyticsTypeOK
  <2> QED
    BY <1>2, <1>4, <2>1, <2>2 DEF ReadingInv, ReportsAddUp
<1> QED
  BY <1>7, <1>8, <1>9, <1>10, <1>11, <1>12, <1>13, <1>14, <1>15, Zenon DEF AnalyticsNext

--------------------------------------------------------------------------------
(* The invariant                                                              *)

(* Nothing is stored, and nobody asks for anything.                           *)
LEMMA InitInv == Init => IInv
<1> SUFFICES ASSUME Init
             PROVE  IInv
  OBVIOUS
<1>1. BooksInit /\ today \in Day /\ today \in Nat /\ reading = Nothing
  BY AnalyticsAssumption DEF Init, AnalyticsInit
<1>2. Away \notin Reconciling /\ Away \notin Syncing /\ Away.at = "away"
  BY DEF Away, Reconciling, Syncing
<1>3. BooksTypeOK
  <2>1. payouts \in [PayoutRow -> 0..MaxPayouts]
    BY <1>1, ReconciliationAssumption DEF BooksInit
  <2> QED
    BY <1>1, <2>1 DEF BooksInit, BooksTypeOK, Status
<1>4. RunsInv
  <2>1. IsFiniteSet({})
    BY FS_EmptySet
  <2> QED
    BY <1>1, <2>1 DEF BooksInit, RunsInv, Apart
<1>5. \A t \in Clerk : ~ Reconciles(t) /\ desk[t] \notin Syncing
  BY <1>1, <1>2 DEF BooksInit, Reconciles
<1>6. DeskInv
  BY <1>5 DEF DeskInv
<1>7. PayoutsInv
  <2>1. \A t \in Clerk : \A n : ~ InList(t, n)
    BY <1>1, <1>2 DEF BooksInit, InList
  <2>2. ASSUME NEW n \in PlatformPayout
        PROVE  Copies(n) = 0
    <3>1. /\ [name |-> n, dated |-> FALSE] \in PayoutRow
          /\ [name |-> n, dated |-> TRUE] \in PayoutRow
      BY <1>3, CopiesAre
    <3> QED
      BY <1>1, <3>1 DEF BooksInit, Copies, Dated
  <2>3. PayoutsOnce
    BY <1>1, <2>2 DEF BooksInit, PayoutsOnce
  <2> QED
    BY <1>5, <2>1, <2>3 DEF PayoutsInv
<1>8. AnalyticsTypeOK
  BY <1>1 DEF AnalyticsTypeOK
<1>9. ReadingInv
  <2>1. reading.at = "idle"
    BY <1>1 DEF Nothing
  <2> QED
    BY <1>1, <2>1 DEF ReadingInv, ReportsAddUp
<1> QED
  BY <1>3, <1>4, <1>6, <1>7, <1>8, <1>9 DEF IInv, BooksInv

(* Every step keeps the invariant.                                            *)
LEMMA NextInv == IInv /\ [Next]_<<booksVars, readerVars>> => IInv'
<1> SUFFICES ASSUME IInv, [Next]_<<booksVars, readerVars>>
             PROVE  IInv'
  OBVIOUS
<1>1. BooksInv /\ AnalyticsTypeOK /\ ReadingInv
  BY DEF IInv
<1>2. Cardinality(found) \in Nat
  BY <1>1, FS_CardinalityType DEF BooksInv, RunsInv
<1>3. CASE BooksNext /\ Watch
  <2>1. BooksInv' /\ Later /\ Cardinality(found) <= Cardinality(found')
    BY <1>1, <1>3, BooksStep
  <2>2. Cardinality(found') \in Nat
    BY <2>1, FS_CardinalityType DEF BooksInv, RunsInv
  <2> QED
    BY <1>1, <1>2, <1>3, <2>1, <2>2, ReadingKept DEF IInv
<1>4. CASE AnalyticsNext /\ UNCHANGED booksVars
  BY <1>1, <1>4, BooksStill, AnalyticsStep DEF IInv
<1>5. CASE UNCHANGED <<booksVars, readerVars>>
  <2>1. UNCHANGED booksVars /\ UNCHANGED readerVars
    BY <1>5
  <2>2. BooksInv' /\ Later /\ found' = found
    BY <1>1, <2>1, BooksStill
  <2>3. Watch
    BY <1>1, <2>1, Unwatched DEF booksVars, readerVars
  <2> QED
    BY <1>1, <1>2, <2>2, <2>3, ReadingKept DEF IInv
<1> QED
  BY <1>3, <1>4, <1>5 DEF Next

(* The invariant holds for ever.                                              *)
THEOREM Invariance == Spec => []IInv
BY InitInv, NextInv, PTL DEF Spec

--------------------------------------------------------------------------------
(* What follows from it                                                       *)

(* Rows, requests and reports have the types they were given.                 *)
THEOREM TypeCorrect == Spec => []TypeOK
<1>1. IInv => TypeOK
  BY DEF IInv, BooksInv, TypeOK
<1> QED
  BY <1>1, Invariance, PTL

(* What a run accuses stands up, while orders and entries are written next to *)
(* it.                                                                        *)
THEOREM AccusationsStand == Spec => []FindingsTrue
<1>1. IInv => FindingsTrue
  <2> SUFFICES ASSUME IInv, NEW d \in found
               PROVE  LET k == runs[d.run].config IN
                      CASE d.kind = "ORPHAN_ORDER" ->
                              k.byId => \A e \in runs[d.run].knew.entries :
                                            ledger[e].ref # RefOf[d.of] \/ RefOf[d.of] = None
                        [] d.kind = "AMOUNT_MISMATCH" ->
                              \E e \in EntriesOf(RefOf[d.of]) :
                                  Off(Total[d.of], ledger[e].gross) > k.tolerance
                        [] d.kind = "MISSING_ORDER" ->
                              \A o \in Order : RefOf[o] = ledger[d.of].ref =>
                                                   o \notin runs[d.run].knew.placed
    BY DEF FindingsTrue
  <2>1. d.kind \in {"ORPHAN_ORDER", "AMOUNT_MISMATCH", "MISSING_ORDER"}
    BY DEF IInv, BooksInv, BooksTypeOK, Discrepancy
  <2>2. Stands(d, runs[d.run].config, runs[d.run].knew)
    BY DEF IInv, BooksInv, RunsInv
  <2>3. CASE d.kind = "ORPHAN_ORDER"
    BY <2>2, <2>3 DEF Stands
  <2>4. CASE d.kind = "AMOUNT_MISMATCH"
    BY <2>2, <2>4 DEF Stands
  <2>5. CASE d.kind = "MISSING_ORDER"
    BY <2>2, <2>5 DEF Stands
  <2> QED
    BY <2>1, <2>3, <2>4, <2>5
<1> QED
  BY <1>1, Invariance, PTL

(* A run that says COMPLETED stays right, and every run counted what it       *)
(* stored.                                                                    *)
THEOREM CompletedRunsClean == Spec => []CleanMeansClean
<1>1. IInv => CleanMeansClean
  <2> SUFFICES ASSUME IInv, NEW r \in Run, runs[r] # None
               PROVE  LET k == runs[r].config
                          c == runs[r].connection
                          rows == {d \in found : d.run = r}
                          orphans == {d \in rows : d.kind = "ORPHAN_ORDER"}
                      IN /\ runs[r].discrepancies = Cardinality(rows)
                         /\ runs[r].checked = runs[r].matched + Cardinality(orphans)
                         /\ runs[r].status = "COMPLETED" =>
                              /\ \A o \in runs[r].knew.orders :
                                     \E e \in EntriesOf(RefOf[o]) : k.byAmount => Within(o, e, k)
                              /\ c # None =>
                                    \A e \in runs[r].knew.entries :
                                        ledger[e].connection = c /\ ledger[e].ref # None =>
                                            \E o \in Order : status[o] # "absent"
                                                             /\ RefOf[o] = ledger[e].ref
    BY DEF CleanMeansClean
  <2>1. RunRow(r, runs[r])
    BY DEF IInv, BooksInv, RunsInv
  <2> QED
    BY <2>1 DEF RunRow, OfRun, Orphans, OrdersClean, EntriesClean
<1> QED
  BY <1>1, Invariance, PTL

(* A payout of a list that was answered is stored, and once unless it was     *)
(* entered by hand or two lists with it overlapped.                           *)
THEOREM PayoutsStoredOnce == Spec => []PayoutsOnce
<1>1. IInv => PayoutsOnce
  BY DEF IInv, BooksInv, PayoutsInv
<1> QED
  BY <1>1, Invariance, PTL

(* Reports that read with several SELECTs do not contradict themselves.       *)
THEOREM ReportsConsistent == Spec => []ReportsAddUp
<1>1. IInv => ReportsAddUp
  BY DEF IInv, ReadingInv
<1> QED
  BY <1>1, Invariance, PTL

(* On every day, a dashboard's period begins and ends as the calendar says.   *)
THEOREM PeriodsFitCalendar == Spec => []PeriodsTile
<1>1. IInv => PeriodsTile
  <2> SUFFICES ASSUME IInv, reading.at = "dashboard"
               PROVE  LET p == reading.period
                          b == PeriodBoundaries(p, today)
                      IN /\ Same(p, today, b[1]) /\ Same(p, today, b[2] - 1)
                         /\ ~ Same(p, today, b[1] - 1) /\ ~ Same(p, today, b[2])
    BY DEF PeriodsTile
  <2>1. today \in Nat /\ today > 30
    BY AnalyticsAssumption DEF IInv, ReadingInv
  <2>2. reading.period \in Period
    BY ReadingFields DEF IInv
  <2> QED
    BY <2>1, <2>2, PeriodOfDay
<1> QED
  BY <1>1, Invariance, PTL

================================================================================
