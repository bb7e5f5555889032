------------------------------ MODULE MCPlans ------------------------------
(***************************************************************************)
(* Four instances of Subscriptions in one run, with fairness: two plans     *)
(* that compete for the rows a run selects ("rows") or for the charges it   *)
(* attempts ("charges"), one plan whose anchor is clamped ("clamped"), and  *)
(* one whose amount the owner changes ("terms").                            *)
(***************************************************************************)
EXTENDS Integers, FiniteSets, Sequences

CONSTANTS cron, web, NoDate, NoPlan, NoRequest

VARIABLES case, today, sub, occ, tx, run

vars == <<case, today, sub, occ, tx, run>>

CronJobs == {cron}
Requests == {web}
LastMonth == 2
ShortMonths == [m \in 0..2 |-> IF m = 1 THEN 1 ELSE 2]
SingleDays == [m \in 0..2 |-> 1]
Mutations == {"CANCEL", "RESUME", "EDIT"}

Rows == INSTANCE Subscriptions WITH
    DaysIn <- SingleDays, SubIds <- {1, 2}, Amounts <- {5}, MaxPlans <- 2, SelectLimit <- 1,
    MaxAttempts <- 2, MaxVersion <- 2, Mutations <- {"CANCEL"}, ChargeEdits <- {}

Charges == INSTANCE Subscriptions WITH
    DaysIn <- SingleDays, SubIds <- {1, 2}, Amounts <- {5}, MaxPlans <- 2, SelectLimit <- 2,
    MaxAttempts <- 1, MaxVersion <- 2, Mutations <- {"CANCEL"}, ChargeEdits <- {}

Clamped == INSTANCE Subscriptions WITH
    DaysIn <- ShortMonths, SubIds <- {1}, Amounts <- {5}, MaxPlans <- 1, SelectLimit <- 2,
    MaxAttempts <- 2, MaxVersion <- 3, ChargeEdits <- BOOLEAN

Terms == INSTANCE Subscriptions WITH
    DaysIn <- SingleDays, SubIds <- {1}, Amounts <- {5, 7}, MaxPlans <- 1, SelectLimit <- 2,
    MaxAttempts <- 2, MaxVersion <- 5, ChargeEdits <- {TRUE}

Init == \/ case = "rows" /\ Rows!Init
        \/ case = "charges" /\ Charges!Init
        \/ case = "clamped" /\ Clamped!Init
        \/ case = "terms" /\ Terms!Init

RowsStep == case = "rows" /\ Rows!Next /\ UNCHANGED case
ChargesStep == case = "charges" /\ Charges!Next /\ UNCHANGED case
ClampedStep == case = "clamped" /\ Clamped!Next /\ UNCHANGED case
TermsStep == case = "terms" /\ Terms!Next /\ UNCHANGED case

Next == RowsStep \/ ChargesStep \/ ClampedStep \/ TermsStep

(* As in Subscriptions: the cron trigger fires again and again, and every   *)
(* database call of an invocation returns.                                  *)
Scheduled(w) == /\ UNCHANGED case
                /\ \/ case = "rows" /\ Rows!Cron(w)
                   \/ case = "charges" /\ Charges!Cron(w)
                   \/ case = "clamped" /\ Clamped!Cron(w)

Served(w) == /\ UNCHANGED case
             /\ \/ case = "rows" /\ Rows!Handling(w)
                \/ case = "charges" /\ Charges!Handling(w)
                \/ case = "clamped" /\ Clamped!Handling(w)

Fairness == /\ \A w \in CronJobs : WF_vars(Scheduled(w))
            /\ \A w \in Requests : WF_vars(Served(w))

FairSpec == Init /\ [][Next]_vars /\ Fairness

(* A charge carries the amount its plan had when it was posted, although    *)
(* the owner edits the plan between the run's select and its batch, and no  *)
(* later change of the plan alters it.                                      *)
ChargesCarryPlanTerms == [][case = "terms" => Terms!CarriesPlanTerms]_vars

Competing == case \in {"rows", "charges"}
Overdue(s) == IF case = "rows" THEN Rows!Overdue(s) ELSE Charges!Overdue(s)
Stuck(s) == IF case = "rows" THEN Rows!Stuck(s) ELSE Charges!Stuck(s)

(* "Catch-up SHALL be bounded and resumable": unless some plan's batch      *)
(* aborts, an overdue plan is caught up, over as many runs as it takes.     *)
CatchUpCompletes ==
    \A s \in {1, 2} :
        Competing /\ Overdue(s) ~> (Competing => ~Overdue(s) \/ \E q \in {1, 2} : Stuck(q))

OpenPast == \E d \in Clamped!Date : Clamped!OpenPast(1, d)

(* A plan whose cancellation has taken effect is closed, after its owed     *)
(* dates are recorded, whatever the owner has changed before, unless its    *)
(* batch aborts.                                                            *)
CancellationsClose ==
    case = "clamped" /\ OpenPast ~> (case = "clamped" => ~OpenPast \/ Clamped!Stuck(1))
=============================================================================
