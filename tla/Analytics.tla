------------------------------- MODULE Analytics -------------------------------
(******************************************************************************)
(* Reports over the orders and the reconciliation runs, read with several     *)
(* SELECTs while both change, and the calendar arithmetic of their periods.   *)
(* No order has a branch or a platform connection (no code sets them), so     *)
(* these breakdowns are empty; sums and rates are left out.                   *)
(******************************************************************************)
EXTENDS Reconciliation, Integers

CONSTANTS
    Day,            \* the days that are tried
    CreatedOn       \* the day of created_at of an order

(* Day 0 is Monday, 1 January 2024; year 0 is 2024, month 0 its January.      *)
DaysBefore == <<0, 31, 59, 90, 120, 151, 181, 212, 243, 273, 304, 334>>
LeapYear(y) == y % 4 = 0 /\ ((y + 24) % 100 # 0 \/ (y + 24) % 400 = 0)
NewYear(y) == 365 * y + ((y + 3) \div 4) - ((y + 23) \div 100) + ((y + 23) \div 400)
FirstOf(m) ==
    NewYear(m \div 12) + DaysBefore[(m % 12) + 1]
      + (IF LeapYear(m \div 12) /\ m % 12 >= 2 THEN 1 ELSE 0)

MonthOf(d) == CHOOSE m \in (d \div 31)..((d \div 30) + 1) : FirstOf(m) <= d /\ d < FirstOf(m + 1)

ASSUME AnalyticsAssumption ==
    /\ Day \subseteq Nat \ 0..30
    /\ CreatedOn \in [Order -> Nat]

VARIABLES
    today,          \* utcnow, to the day
    reading         \* a report: what it has read

readerVars == <<today, reading>>

--------------------------------------------------------------------------------
(* Periods                                                                    *)

Period == {"today", "yesterday", "this_week", "last_week", "this_month",
           "last_month", "this_quarter", "this_year"}

(* date.replace(day=1)                                                        *)
Day1(d) == FirstOf(MonthOf(d))

(* Mutant of NextMonth: thirty days always lead into the next month.          *)
NextMonthTooSoon(first) == Day1(first + 30)

NextMonth(first) == Day1(first + 32)

(* From, inclusive, to, exclusive.                                            *)
PeriodBoundaries(p, d) ==
    LET monday == d - (d % 7)
        first == Day1(d)
        quarter == FirstOf(3 * (MonthOf(d) \div 3))
        year == FirstOf(12 * (MonthOf(d) \div 12))
    IN CASE p = "today" -> <<d, d + 1>>
         [] p = "yesterday" -> <<d - 1, d>>
         [] p = "this_week" -> <<monday, monday + 7>>
         [] p = "last_week" -> <<d - ((d % 7) + 7), d - ((d % 7) + 7) + 7>>
         [] p = "this_month" -> <<first, NextMonth(first)>>
         [] p = "last_month" -> <<Day1(first - 1), first>>
         [] p = "this_quarter" -> <<quarter, Day1(quarter + 95)>>
         [] p = "this_year" -> <<year, FirstOf(12 * (MonthOf(d) \div 12) + 12)>>

PreviousPeriod(b) == <<b[1] - (b[2] - b[1]), b[1]>>

(* Mutant of In: both ends belong to the period.                              *)
InBoth(o, b) == b[1] <= CreatedOn[o] /\ CreatedOn[o] <= b[2]

In(o, b) == b[1] <= CreatedOn[o] /\ CreatedOn[o] < b[2]

--------------------------------------------------------------------------------
(* Reports                                                                    *)

Nothing == [at |-> "idle"]

AnalyticsTypeOK ==
    /\ today \in Nat
    /\ reading \in {Nothing}
         \cup [at : {"dashboard"}, period : Period, current : SUBSET Order]
         \cup [at : {"comparison"}, current : SUBSET Order, previous : SUBSET Order]
         \cup [at : {"items"}, period : Period, sold : SUBSET Order,
               cancelled : SUBSET Order]
         \cup [at : {"performance"}, sold : SUBSET Order, refunded : SUBSET Order,
               cancelled : SUBSET Order]
         \cup [at : {"runs"}, discrepancies : Nat]
         \cup [at : {"ledger"}, overall : Nat]
         \cup [at : {"summary"}, overall : Nat, byType : Nat]
         \cup [at : {"reconciliation"}, discrepancies : Nat, byType : Nat]

AnalyticsInit == today \in Day /\ reading = Nothing

Read(r) == reading' = r /\ UNCHANGED today

(* The orders whose sales count, read at once; what their items number is     *)
(* read order by order, and does not change.                                  *)
SalesReport(b) == {o \in Order : In(o, b) /\ status[o] \notin {"absent", "PENDING", "CANCELLED"}}

(* The dashboard makes one sales report for the period ...                    *)
StartDashboard(p) ==
    /\ reading = Nothing
    /\ Read([at |-> "dashboard", period |-> p,
             current |-> SalesReport(PeriodBoundaries(p, today))])

(* ... and then one for the time before, of the same length.                  *)
FinishDashboard ==
    /\ reading.at = "dashboard"
    /\ Read([at |-> "comparison", current |-> reading.current,
             previous |-> SalesReport(PreviousPeriod(PeriodBoundaries(reading.period, today)))])

(* What was sold, in orders that are not cancelled ...  ("cancelled": history,*)
(* the orders that are cancelled from then on.)                               *)
StartItems(p) ==
    /\ reading = Nothing
    /\ Read([at |-> "items", period |-> p,
             sold |-> {o \in Order : /\ In(o, PeriodBoundaries(p, today))
                                     /\ status[o] \notin {"absent", "CANCELLED"}},
             cancelled |-> {}])

(* ... and, by then, was cancelled, item by item.                             *)
FinishItems ==
    /\ reading.at = "items"
    /\ Read([at |-> "performance", sold |-> reading.sold, cancelled |-> reading.cancelled,
             refunded |-> {o \in Order : /\ In(o, PeriodBoundaries(reading.period, today))
                                         /\ status[o] = "CANCELLED"}])

(* What runs have counted, as so many numbers of each: of the sum of their    *)
(* counts ...                                                                 *)
Counted == UNION {{r} \X (1..runs[r].discrepancies) : r \in {q \in Run : runs[q] # None}}

StartReconciliationReport ==
    /\ reading = Nothing
    /\ Read([at |-> "runs", discrepancies |-> Cardinality(Counted)])

(* ... and the number of discrepancies of all types.                          *)
FinishReconciliationReport ==
    /\ reading.at = "runs"
    /\ Read([at |-> "reconciliation", discrepancies |-> reading.discrepancies,
             byType |-> Cardinality(found)])

(* The ledger's summary: all entries, or those of one connection ...          *)
StartLedgerSummary(c) ==
    /\ reading = Nothing
    /\ Read([at |-> "ledger",
             overall |-> Cardinality({e \in Stored : c \in {None, ledger[e].connection}})])

(* ... and then by type, for which the connection is forgotten.               *)
FinishLedgerSummary ==
    /\ reading.at = "ledger"
    /\ Read([at |-> "summary", overall |-> reading.overall, byType |-> Cardinality(Stored)])

CloseReport == reading # Nothing /\ Read(Nothing)

AnalyticsNext ==
    \/ \E p \in Period : StartDashboard(p) \/ StartItems(p)
    \/ FinishDashboard
    \/ FinishItems
    \/ StartReconciliationReport
    \/ FinishReconciliationReport
    \/ \E c \in Connection \cup {None} : StartLedgerSummary(c)
    \/ FinishLedgerSummary
    \/ CloseReport

(* While a report reads, the history goes on.                                 *)
Watch ==
    /\ reading' = IF reading.at = "items"
                  THEN [reading EXCEPT !.cancelled = @ \cup
                          {o \in Order : status[o] # "CANCELLED" /\ status'[o] = "CANCELLED"}]
                  ELSE reading
    /\ UNCHANGED today

Init == BooksInit /\ AnalyticsInit

Next ==
    \/ BooksNext /\ Watch
    \/ AnalyticsNext /\ UNCHANGED booksVars

Spec == Init /\ [][Next]_<<booksVars, readerVars>>

TypeOK == BooksTypeOK /\ AnalyticsTypeOK

--------------------------------------------------------------------------------
(* Properties                                                                 *)

(* Which days belong together, by the calendar.                               *)
Same(p, d, e) ==
    CASE p = "today" -> d = e
      [] p = "yesterday" -> e = d - 1
      [] p = "this_week" -> d \div 7 = e \div 7
      [] p = "last_week" -> d \div 7 = (e \div 7) + 1
      [] p = "this_month" -> MonthOf(d) = MonthOf(e)
      [] p = "last_month" -> MonthOf(d) = MonthOf(e) + 1
      [] p = "this_quarter" -> MonthOf(d) \div 3 = MonthOf(e) \div 3
      [] p = "this_year" -> MonthOf(d) \div 12 = MonthOf(e) \div 12

(* Adding 32 days to the first of a month, or 95 to that of a quarter, and    *)
(* going back to the first: on every day, the period of a dashboard begins    *)
(* with the first and ends with the last of the days that the calendar says.  *)
PeriodsTile ==
    reading.at = "dashboard" =>
        LET p == reading.period
            b == PeriodBoundaries(p, today)
        IN /\ Same(p, today, b[1]) /\ Same(p, today, b[2] - 1)
           /\ ~ Same(p, today, b[1] - 1) /\ ~ Same(p, today, b[2])

(* Reports are made of several SELECTs with orders and runs changing between  *)
(* them; still no order is counted in both periods that the dashboard         *)
(* compares, even if it was placed at the instant between them, nor both sold *)
(* and refunded unless it was cancelled between the two SELECTs (an order may *)
(* come back from CANCELLED, before and after); and what is counted by type   *)
(* is never less than what was counted as a whole.                            *)
ReportsAddUp ==
    /\ reading.at = "comparison" => reading.current \cap reading.previous = {}
    /\ reading.at = "performance" =>
          reading.sold \cap reading.refunded \subseteq reading.cancelled
    /\ reading.at = "reconciliation" => reading.discrepancies <= reading.byType
    /\ reading.at = "summary" => reading.overall <= reading.byType
================================================================================
