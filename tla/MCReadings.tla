----------------------------- MODULE MCReadings -----------------------------
(***************************************************************************)
(* What the pages compute and show, in one run of independent instances.    *)
(* TransactionPages: "walks" of a tab through the list while another edits, *)
(* "filters" of several dates, "exports" of what the pages show.            *)
(* ReportPeriods: "periods"; Reports: "reports"; the calendar: "schedule".  *)
(***************************************************************************)
EXTENDS Integers, Sequences, SequencesExt, FiniteSets, TLC

CONSTANTS
    Tx, Rows, Aliases, Dates, FilterDates, Sorts, FilterSorts,          \* TransactionPages
    PageSize, ExportRows, MaxEdits, MaxHistory,
    LastMonth, DaysIn                                                   \* ScheduleWalk

VARIABLES
    case,                                                               \* the instance
    entries, at, page, requests, trail, changed, export, edits,         \* TransactionPages
    today, report,                                                      \* ReportPeriods
    ledger, query,                                                      \* of several
    start, date, cadence, charges                                       \* ScheduleWalk

pageVars == <<entries, at, page, requests, trail, changed, export, edits>>
periodVars == <<today, report>>
walkVars == <<start, date, cadence, charges>>
vars == <<case, pageVars, periodVars, ledger, query, walkVars>>

NoPage == /\ entries = <<>> /\ at = 0 /\ page = <<>> /\ requests = {} /\ trail = <<>>
          /\ changed = {} /\ export = <<>> /\ edits = 0
NoPeriod == today = 0 /\ report = <<>>
NoWalk == start = 0 /\ date = 0 /\ cadence = 0 /\ charges = 0

-----------------------------------------------------------------------------
(* Rows that share a key, so that the id decides; a family of two aliases   *)
(* and one stranger.                                                        *)
Row(d, n, m) == [date |-> d, amount |-> n, merchant |-> m]
TwoDays == {Row(1, 1, "bus"), Row(2, 1, "grocer")}
TwoAmounts == {Row(1, 2, "bus station"), Row(2, 1, "bus")}

Walks == INSTANCE TransactionPages WITH MaxExports <- 0
Filters == INSTANCE TransactionPages WITH
    Dates <- FilterDates, Sorts <- FilterSorts, MaxEdits <- 0, MaxExports <- 0
Exports == INSTANCE TransactionPages WITH
    Rows <- TwoAmounts, Dates <- {1}, Sorts <- {"AMOUNT_DESC"}, PageSize <- 2,
    ExportRows <- 2, MaxEdits <- 1, MaxHistory <- 2, MaxExports <- 1

-----------------------------------------------------------------------------
(* The Gregorian calendar (Date.UTC(year, month + 1, 0) of JavaScript): the *)
(* reports from 2020 to 2029, a schedule from 2023 on.                      *)
IsLeap(y) == y % 4 = 0 /\ (y % 100 # 0 \/ y % 400 = 0)
Gregorian(firstYear, last) ==
    [m \in 0..last |->
        CASE m % 12 = 1 -> IF IsLeap(firstYear + m \div 12) THEN 29 ELSE 28
          [] m % 12 \in {3, 5, 8, 10} -> 30
          [] OTHER -> 31]
Decade == Gregorian(2020, 119)
Years == Gregorian(2023, 83)

\* Dates around the Februaries and the turns of the year.
At(year, month, day) == [month |-> 12 * (year - 2020) + month - 1, day |-> day]
Todays == {At(2027, 12, 31), At(2028, 1, 1), At(2028, 2, 29), At(2028, 3, 1)}
FormMonths ==
    {<<2020, 1>>, <<2020, 5>>, <<2020, 12>>, <<2021, 1>>, <<2021, 2>>, <<2024, 2>>, <<2024, 3>>,
     <<2029, 1>>, <<2029, 12>>, <<2030, 1>>}
FormDates ==
    {At(2023, 3, 1), At(2024, 2, 28), At(2024, 2, 29), At(2024, 3, 1), At(2025, 1, 1),
     At(2025, 2, 28), At(2025, 3, 1), At(2026, 2, 28), At(2026, 12, 30), At(2026, 12, 31)}

Periods == INSTANCE ReportPeriods WITH
    FirstYear <- 2020, LastMonth <- 119, DaysIn <- Decade, MaxCustomDays <- 730
Schedule == INSTANCE ScheduleWalk

-----------------------------------------------------------------------------
(* A few transactions of each kind: refunds, reimbursements, a transfer, a  *)
(* pending purchase, currencies, a family with two aliases.  A change of an *)
(* odd amount against 32, or against a refund of 32, is an exact half.      *)
None == <<>>
KindOf == "food" :> "EXPENSE" @@ "fun" :> "EXPENSE" @@ "pay" :> "INCOME" @@ "move" :> "TRANSFER"
FamilyOf == "bus" :> "transit" @@ "bus pass" :> "transit"

Entry(day, amount, direction, currency, category, merchant) ==
    [date |-> day, status |-> "POSTED", amount |-> amount, reimbursed |-> 0,
     direction |-> direction, currency |-> currency, category |-> category,
     merchant |-> merchant, account |-> "chequing"]

ReportRows ==
    {Entry(3, 37, "OUTFLOW", "CAD", <<"food">>, <<"bus">>),
     [Entry(3, 5, "OUTFLOW", "CAD", <<"fun">>, <<"bus pass">>) EXCEPT !.reimbursed = 2],
     Entry(3, 4, "INFLOW", "CAD", <<"food">>, <<"bus">>),
     Entry(3, 3, "OUTFLOW", "USD", <<"food">>, <<"cafe">>),
     [Entry(3, 2, "OUTFLOW", "CAD", <<"food">>, None) EXCEPT !.account = "card"],
     [Entry(3, 2, "OUTFLOW", "CAD", <<"food">>, <<"cafe">>) EXCEPT !.status = "PENDING"],
     Entry(3, 9, "INFLOW", "CAD", <<"pay">>, <<"bus">>),
     Entry(3, 6, "OUTFLOW", "CAD", <<"move">>, None),
     Entry(3, 1, "OUTFLOW", "CAD", None, <<"cafe">>),
     Entry(2, 32, "OUTFLOW", "CAD", <<"food">>, <<"cafe">>),
     Entry(2, 8, "INFLOW", "USD", <<"pay">>, None),
     Entry(1, 32, "INFLOW", "CAD", <<"food">>, <<"bus">>),
     Entry(1, 7, "INFLOW", "EUR", <<"fun">>, <<"bus pass">>)}

Query(account, category, currency, merchant) ==
    [account |-> account, category |-> category, currency |-> currency, merchant |-> merchant]
Queries ==
    {Query(None, None, None, None), Query(<<"chequing">>, None, None, None),
     Query(None, <<"food">>, None, <<"missing">>), Query(None, None, <<"CAD">>, <<"bus">>)}

Figures == INSTANCE Reports WITH
    Rows <- ReportRows, Current <- {3}, Before <- {2}, YearAgo <- {1}, MaxRows <- 3

ASSUME PagesAssumption ==
    /\ Walks!TxAssumption /\ Walks!RowAssumption /\ Exports!RowAssumption
    /\ Walks!SizeAssumption /\ Filters!SizeAssumption /\ Exports!SizeAssumption
    /\ Walks!SortAssumption /\ Filters!SortAssumption /\ Exports!SortAssumption
ASSUME Periods!PeriodAssumption /\ Figures!ReportAssumption

ASSUME ScheduleAssumption == LastMonth \in Nat \ {0} /\ DaysIn \in [0..LastMonth -> 1..31]

-----------------------------------------------------------------------------
Init ==
    \/ case = "walks" /\ Walks!Init /\ NoPeriod /\ NoWalk /\ query = <<>>
    \/ case = "filters" /\ Filters!Init /\ NoPeriod /\ NoWalk /\ query = <<>>
    \/ case = "exports" /\ Exports!Init /\ NoPeriod /\ NoWalk /\ query = <<>>
    \/ case = "periods" /\ Periods!Init /\ NoPage /\ NoWalk /\ ledger = <<>>
    \/ case = "reports" /\ Figures!Init /\ NoPage /\ NoPeriod /\ NoWalk
    \/ case = "schedule" /\ Schedule!Init /\ NoPage /\ NoPeriod /\ ledger = <<>> /\ query = <<>>

PageStep ==
    /\ \/ case = "walks" /\ Walks!Next
       \/ case = "filters" /\ Filters!Next
       \/ case = "exports" /\ Exports!Next
    /\ UNCHANGED <<case, query, periodVars, walkVars>>

PeriodStep ==
    case = "periods" /\ Periods!Next /\ UNCHANGED <<case, ledger, pageVars, walkVars>>

ReportStep ==
    case = "reports" /\ Figures!Next /\ UNCHANGED <<case, pageVars, periodVars, walkVars>>

ScheduleStep ==
    /\ case = "schedule" /\ Schedule!Next
    /\ UNCHANGED <<case, ledger, query, pageVars, periodVars>>

Next == PageStep \/ PeriodStep \/ ReportStep \/ ScheduleStep

Spec == Init /\ [][Next]_vars

-----------------------------------------------------------------------------
(* Walking from a first page to a last one shows every matching transaction *)
(* that nobody changed meanwhile exactly once, in the order of the sort,    *)
(* however the others moved between and across pages                        *)
(* (repositories.ts:487-523, the tie-break by id and the scope of cursors). *)
NoRowSkipped ==
    /\ case = "walks" => Walks!TypeOK /\ Walks!NoRowSkipped
    /\ case = "filters" => Filters!NoRowSkipped

(* When no answer is awaited, the list that is shown is the answer to the   *)
(* address of the page, never one of an earlier address that came late      *)
(* (design.md:357 of build-free-personal-ledger: location.search is the     *)
(* only source of the filters).                                             *)
SettledListMatchesAddress ==
    /\ case = "walks" => Walks!SettledListMatchesAddress
    /\ case = "filters" => Filters!SettledListMatchesAddress

(* A downloaded file holds the transactions the pages of the same filters   *)
(* show, in the same order, unless it was refused as too long               *)
(* (data-portability/spec.md:82 of build-free-personal-ledger).             *)
ExportAgreesWithPages == case = "exports" => Exports!ExportAgreesWithPages

(* A report is compared with the days right before it and with the same     *)
(* days a year before, and the page's "Previous" opens the very period the  *)
(* report called its previous one, whatever the day of the clock            *)
(* (financial-reporting/spec.md:50: "like-for-like").  The trend shows each *)
(* of its months or quarters, none from two reports and none missing        *)
(* (financial-reporting/spec.md:40).                                        *)
ComparisonsAreLikeForLike ==
    case = "periods" => /\ Periods!TypeOK /\ Periods!ComparisonsAreLikeForLike
                        /\ Periods!PreviousIsThePreviousPeriod /\ Periods!TrendIsComplete

(* Income and net spending are what the owner's guide defines, for each     *)
(* currency and period; no currency is lost or mixed with another, and a    *)
(* change against either reference is rounded half away from zero           *)
(* (financial-reporting/spec.md:19-31 and 83, financial-reporting.ts:464).  *)
(* Behind every amount of the spending report is a list of transactions     *)
(* that adds up to it (financial-reporting/spec.md:61).                     *)
FiguresReconcile ==
    case = "reports" => /\ Figures!CashFlowIsAsDefined /\ Figures!NoCurrencyIsLost
                        /\ Figures!ChangesAreRounded /\ Figures!DrillDownsReconcile

(* Following nextSubscriptionDate from one charge to the next never drifts: *)
(* the n-th charge falls on the anchor day of the n-th month, or on the     *)
(* last day of a shorter one (domain/src/subscriptions.ts:70-80).           *)
ScheduleNeverDrifts == case = "schedule" => Schedule!ScheduleNeverDrifts
=============================================================================
