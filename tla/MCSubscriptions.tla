--------------------------- MODULE MCSubscriptions ---------------------------
(***************************************************************************)
(* Short calendars for the model checker: months of one and two days, so   *)
(* that an anchor is clamped and retained, and clocks that miss charges.   *)
(***************************************************************************)
EXTENDS Subscriptions

(* Months 0 to 2: the second is shorter than the anchor of a plan may be.  *)
ShortMonths == [m \in 0..2 |-> IF m = 1 THEN 1 ELSE 2]

(* Months of a single day, when only the order of the charges matters.     *)
SingleDays == [m \in 0..2 |-> 1]

=============================================================================
