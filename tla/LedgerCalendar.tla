--------------------------- MODULE LedgerCalendar ---------------------------
(***************************************************************************)
(* The calendar dates of the ledger and the charge schedule of a           *)
(* subscription (packages/domain/src/subscriptions.ts).                    *)
(*                                                                         *)
(* A date is a month, counted from the first month the program accepts,    *)
(* and a day of that month: "YYYY-MM-DD" strings compare the way Before    *)
(* does.  The lengths of the months are a parameter, so that the schedule  *)
(* is checked on the Gregorian calendar (MCReadings), the state machines   *)
(* on short months (MCSubscriptions), and the theorems hold for any.       *)
(***************************************************************************)
EXTENDS Integers

CONSTANTS
    LastMonth,   \* the last month of the calendar (9998-12 in the program)
    DaysIn       \* [0..LastMonth -> length of the month]

Month == 0..LastMonth

ASSUME CalendarAssumption ==
    /\ LastMonth \in Nat \ {0}
    /\ DaysIn \in [Month -> 1..31]

(* subscriptionDateSchema: an ISO date inside the accepted range. *)
Date == {d \in [month : Month, day : 1..31] : d.day <= DaysIn[d.month]}

(* String comparison of two ISO dates. *)
Before(d, e) == \/ d.month < e.month
                \/ d.month = e.month /\ d.day < e.day

NotAfter(d, e) == d = e \/ Before(d, e)

(* The day after d; today's date is ledgerDate(now, timeZone). *)
Tomorrow(d) == IF d.day < DaysIn[d.month]
               THEN [month |-> d.month, day |-> d.day + 1]
               ELSE [month |-> d.month + 1, day |-> 1]

Cadence == {"MONTHLY", "YEARLY"}

MonthsIn(cadence) == IF cadence = "MONTHLY" THEN 1 ELSE 12

(* The anchor day, or the last day of a month that is too short for it. *)
Clamped(month, anchor) ==
    [month |-> month,
     day   |-> IF anchor <= DaysIn[month] THEN anchor ELSE DaysIn[month]]

\* Mutant of NextDate: the day is taken from the date before, not the anchor.
NextFromDate(d, anchor, cadence) == Clamped(d.month + MonthsIn(cadence), d.day)

(* nextSubscriptionDate: the month of the date moves by the cadence, the   *)
(* day is taken from the anchor and never from the date itself.            *)
NextDate(d, anchor, cadence) == Clamped(d.month + MonthsIn(cadence), anchor)

=============================================================================
