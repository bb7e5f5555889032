---------------------------- MODULE Installments ----------------------------
(***************************************************************************)
(* How a purchase in installments is divided                               *)
(* (packages/persistence/src/manual-transactions.ts,                       *)
(* createInstallmentSchedule and the functions it calls).                  *)
(*                                                                         *)
(* The amount is divided in one expression; the reimbursement by two loops *)
(* that never give an installment more than its amount.  An iteration of a *)
(* loop is a step.                                                         *)
(***************************************************************************)
EXTENDS LedgerCalendar

CONSTANTS
    MaxTotal,    \* bound: the largest total, in minor units
    MaxCount     \* the most installments (60 in the program)

ASSUME InstallmentAssumption ==
    /\ MaxTotal \in Nat
    /\ MaxCount \in Nat \ {0}

VARIABLES
    total,        \* amountMinor
    reimbursed,   \* reimbursementMinor
    first,        \* postedDate
    count,        \* installmentCount
    phase,        \* which loop of allocateMinorUnitsWithinCaps runs
    i,            \* its index, counted from 1
    allocated,    \* the reimbursement of each installment
    remaining     \* what is still to be allocated

vars == <<total, reimbursed, first, count, phase, i, allocated, remaining>>

-----------------------------------------------------------------------------

AtMost(a, b) == IF a <= b THEN a ELSE b

\* Mutant of Shares: the last installment takes a share like the others.
EqualShares(sum, n) == [k \in 1..n |-> sum \div n]

(* allocateMinorUnits: equal shares, the last one with the remainder.       *)
Shares(sum, n) ==
    [k \in 1..n |-> IF k = n THEN sum - (sum \div n) * (n - 1) ELSE sum \div n]

(* The amounts of the installments, and the caps of their reimbursements.   *)
Caps == Shares(total, count)

\* Mutant of InstallmentDate: each date is computed from the one before it.
DriftingDate(d, offset) ==
    LET previous[k \in Nat] ==
            IF k = 0 THEN d ELSE Clamped(previous[k - 1].month + 1, previous[k - 1].day)
    IN  previous[offset]

(* monthlyInstallmentDates: the day of the first date in each later month,  *)
(* or the last day of a shorter month.                                      *)
InstallmentDate(d, offset) == Clamped(d.month + offset, d.day)

Dates == [k \in 1..count |-> InstallmentDate(first, k - 1)]

-----------------------------------------------------------------------------
(* allocateMinorUnitsWithinCaps.                                           *)

(* The inputs that pass createSchema.                                       *)
Init ==
    /\ total \in 0..MaxTotal
    /\ reimbursed \in 0..total
    /\ count \in 2..MaxCount
    /\ first \in {d \in Date : d.month + count - 1 <= LastMonth}
    /\ phase = "SHARE"
    /\ i = 1
    /\ allocated = [k \in 1..count |-> 0]
    /\ remaining = reimbursed

(* First loop, forwards: an equal share, within the cap.                    *)
Share ==
    LET amount == AtMost(AtMost(reimbursed \div count, Caps[i]), remaining) IN
    /\ phase = "SHARE"
    /\ allocated' = [allocated EXCEPT ![i] = amount]
    /\ remaining' = remaining - amount
    /\ IF i = count THEN phase' = "FILL" /\ i' = count
       ELSE phase' = "SHARE" /\ i' = i + 1
    /\ UNCHANGED <<total, reimbursed, first, count>>

\* Mutant of Fill: what is left goes to the last installment only.
FillLast ==
    /\ phase = "FILL"
    /\ allocated' = [allocated EXCEPT ![count] = @ + remaining]
    /\ remaining' = 0
    /\ phase' = "DONE"
    /\ UNCHANGED <<total, reimbursed, first, count, i>>

(* Second loop, backwards from the last: what is left, up to each cap.      *)
Fill ==
    LET amount == AtMost(Caps[i] - allocated[i], remaining) IN
    /\ phase = "FILL"
    /\ IF i > 0 /\ remaining > 0
       THEN /\ allocated' = [allocated EXCEPT ![i] = @ + amount]
            /\ remaining' = remaining - amount
            /\ i' = i - 1
            /\ phase' = phase
       ELSE phase' = "DONE" /\ UNCHANGED <<allocated, remaining, i>>
    /\ UNCHANGED <<total, reimbursed, first, count>>

Next == Share \/ Fill

Spec == Init /\ [][Next]_vars

-----------------------------------------------------------------------------
(* Properties.                                                             *)

SumTo(f, n) ==
    LET upTo[k \in 0..n] == IF k = 0 THEN 0 ELSE upTo[k - 1] + f[k]
    IN  upTo[n]

(* The variables keep the ranges the loops rely on: an index that is in the *)
(* schedule whenever it is used, and nothing negative.                      *)
TypeOK ==
    /\ total \in Nat /\ reimbursed \in 0..total
    /\ count \in 2..MaxCount
    /\ first \in Date /\ first.month + count - 1 <= LastMonth
    /\ phase \in {"SHARE", "FILL", "DONE"}
    /\ i \in 0..count /\ (phase = "SHARE" => i > 0)
    /\ allocated \in [1..count -> Nat]
    /\ remaining \in 0..reimbursed

(* No installment is ever reimbursed beyond its amount: the rows would      *)
(* violate the table's CHECK and the whole purchase would be refused.       *)
ReimbursedWithinShares == \A k \in 1..count : allocated[k] <= Caps[k]

(* Neither a cent of the amount nor a cent of the reimbursement is lost or  *)
(* invented, at every iteration, and at the end nothing is left over.       *)
NoCentLost ==
    /\ SumTo(Caps, count) = total
    /\ SumTo(allocated, count) + remaining = reimbursed
    /\ phase = "DONE" => remaining = 0

(* The amounts differ only in the last installment, which is never the      *)
(* smaller one, and by less than one cent per installment.                  *)
LastShareCarriesRemainder ==
    \A k \in 1..(count - 1) : /\ Caps[k] = Caps[1]
                              /\ Caps[count] - Caps[k] \in 0..(count - 1)

(* Each installment falls on a day that exists, one month after the one     *)
(* before it, and on the owner's day whenever the month has it: a short     *)
(* February does not move the installments after it.                        *)
DatesKeepTheDay ==
    \A k \in 1..count :
        /\ Dates[k] \in Date
        /\ Dates[k].month = first.month + k - 1
        /\ \/ Dates[k].day = first.day
           \/ Dates[k].day = DaysIn[Dates[k].month] /\ Dates[k].day < first.day
=============================================================================
