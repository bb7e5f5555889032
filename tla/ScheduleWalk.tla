----------------------------- MODULE ScheduleWalk ---------------------------
(***************************************************************************)
(* The schedule of one subscription on the Gregorian calendar: it starts   *)
(* on any date of its first two years and follows nextSubscriptionDate to  *)
(* the end of the bounded calendar.                                        *)
(***************************************************************************)
EXTENDS LedgerCalendar

VARIABLES start, date, cadence, charges

vars == <<start, date, cadence, charges>>

Init ==
    /\ start \in {d \in Date : d.month < 24}
    /\ date = start
    /\ cadence \in Cadence
    /\ charges = 0

Advance ==
    /\ date.month + MonthsIn(cadence) <= LastMonth
    /\ date' = NextDate(date, start.day, cadence)
    /\ charges' = charges + 1
    /\ UNCHANGED <<start, cadence>>

Next == Advance

Spec == Init /\ [][Next]_vars

(* Reference: the date of the n-th charge, computed from the start alone.  *)
LastDayUpTo(month, n) ==
    CHOOSE k \in 1..n : /\ k <= DaysIn[month]
                        /\ \A j \in 1..n : j <= DaysIn[month] => j <= k

NthCharge(n) ==
    LET month == start.month + n * MonthsIn(cadence)
    IN  [month |-> month, day |-> LastDayUpTo(month, start.day)]

(* Following nextSubscriptionDate from one charge to the next never        *)
(* drifts: the n-th charge falls on the anchor day of the n-th month, or   *)
(* on the last day of a shorter one, whatever short months came before     *)
(* (January 31, February 28, March 31).                                    *)
ScheduleNeverDrifts == date = NthCharge(charges)

=============================================================================
