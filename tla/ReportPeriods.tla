--------------------------- MODULE ReportPeriods ---------------------------
(***************************************************************************)
(* The periods of a financial report: which dates a month, a quarter, a    *)
(* year or a range of days stands for, the two periods it is compared      *)
(* with, and the earlier periods of its trend:                             *)
(*   packages/domain/src/financial-reporting.ts   (resolveReportPeriod)    *)
(*   apps/web/src/features/analysis/analysis-period.ts                     *)
(*   apps/web/src/features/analysis/analysis-data.ts   (the labels)        *)
(*   apps/web/src/features/analysis/AnalysisPage.tsx, AnalysisControls.tsx *)
(*                                                                         *)
(* The server steps back by a rollover of its own, the page by Date.UTC    *)
(* and by floor and remainder, and the trend relies on the two agreeing.   *)
(* A period is written as its label is, a year and the number of a month   *)
(* or quarter in it; dates are those of LedgerCalendar, whose month 0 is   *)
(* January of FirstYear.                                                   *)
(***************************************************************************)
EXTENDS LedgerCalendar, Sequences, SequencesExt, FiniteSets

CONSTANTS
    FirstYear,      \* the year of the calendar's first months
    Todays,         \* dates on which the page may be used
    FormMonths,     \* <<year, month>> the form of the page is filled with
    FormDates,      \* dates the form is filled with
    MaxCustomDays   \* MAX_CUSTOM_REPORT_DAYS

PeriodAssumption ==
    /\ LastMonth % 12 = 11 /\ FirstYear \in Nat \ {0}
    /\ FormMonths \subseteq Nat \X Nat /\ FormDates \subseteq Date /\ Todays \subseteq Date
    /\ MaxCustomDays \in Nat
    \* Ranges of days have no first year in the program: keep them off the edge.
    /\ \A d \in FormDates : 12 * ((MaxCustomDays \div 365) + 1) <= d.month

VARIABLES
    today,    \* the ledger date of the browser's clock
    query,    \* the AnalysisQuery of the address, already parsed
    report    \* <<>> while the answer is awaited, or the answer

vars == <<today, query, report>>

-----------------------------------------------------------------------------
(* Dates as numbers.                                                       *)

DaysBefore[m \in 0..LastMonth + 1] ==
    IF m = 0 THEN 0 ELSE DaysBefore[m - 1] + DaysIn[m - 1]

Number(d) == DaysBefore[d.month] + d.day

(* addCalendarDays                                                         *)
AddDays(d, n) ==
    LET at == Number(d) + n
        month == CHOOSE m \in Month : DaysBefore[m] < at /\ at <= DaysBefore[m + 1]
    IN  [month |-> month, day |-> at - DaysBefore[month]]

InclusiveDays(from, to) == Number(to) - Number(from) + 1

(* shiftCalendarYear by one year back.                                     *)
ShiftYear(d) == Clamped(d.month - 12, d.day)

-----------------------------------------------------------------------------
(* Periods: a grain, a year and its month or quarter, or a range of dates.  *)

(* The numbers a label may have after its year.                            *)
Parts(grain) == CASE grain = "MONTH" -> 1..12 [] grain = "QUARTER" -> 1..4 [] grain = "YEAR" -> {0}

Natural(grain, year, part) ==
    [grain |-> grain, year |-> year, part |-> part, from |-> <<>>, to |-> <<>>]
Custom(from, to) == [grain |-> "CUSTOM", year |-> 0, part |-> 0, from |-> <<from>>, to |-> <<to>>]

(* The period the schema and resolveReportPeriod accept.                   *)
Valid(p) ==
    IF p.grain = "CUSTOM"
    THEN InclusiveDays(p.from[1], p.to[1]) \in 1..MaxCustomDays
    ELSE /\ p.part \in Parts(p.grain)
         /\ p.year - FirstYear \in 0..(LastMonth \div 12)   \* bound: the years of the calendar

MonthOf(year, month) == 12 * (year - FirstYear) + month - 1

(* resolveReportPeriod                                                     *)
Resolved(p) ==
    LET months == CASE p.grain = "MONTH" -> <<p.part, p.part>>
                    [] p.grain = "QUARTER" -> <<(p.part - 1) * 3 + 1, (p.part - 1) * 3 + 3>>
                    [] p.grain = "YEAR" -> <<1, 12>>
        final == MonthOf(p.year, months[2])
    IN  IF p.grain = "CUSTOM" THEN [period |-> p, from |-> p.from[1], to |-> p.to[1]]
        ELSE [period |-> p, from |-> [month |-> MonthOf(p.year, months[1]), day |-> 1],
              to |-> [month |-> final, day |-> DaysIn[final]]]

\* Mutant of Rolled: the last month of the same year precedes its first.
RolledInYear(p, last) == [p EXCEPT !.part = IF @ = 1 THEN last ELSE @ - 1]

(* The month or quarter before: the last one of the year before at its     *)
(* first.                                                                  *)
Rolled(p, last) ==
    IF p.part = 1 THEN [p EXCEPT !.part = last, !.year = @ - 1] ELSE [p EXCEPT !.part = @ - 1]

(* resolveReportComparisonPeriods.  A year is its own previous year.       *)
PreviousPeriod(p) ==
    CASE p.grain = "MONTH" -> Rolled(p, 12)
      [] p.grain = "QUARTER" -> Rolled(p, 4)
      [] p.grain = "YEAR" -> [p EXCEPT !.year = @ - 1]
      [] p.grain = "CUSTOM" ->
            LET days == InclusiveDays(p.from[1], p.to[1])
            IN  Custom(AddDays(p.from[1], -days), AddDays(p.from[1], -1))

PreviousYear(p) ==
    IF p.grain = "CUSTOM"
    THEN Custom(ShiftYear(p.from[1]), ShiftYear(p.to[1]))
    ELSE [p EXCEPT !.year = @ - 1]

(* GET /reports/cash-flow: the three periods, or 422 when one of them is   *)
(* not a period.                                                           *)
Answered(p) ==
    IF Valid(p) /\ Valid(PreviousPeriod(p)) /\ Valid(PreviousYear(p))
    THEN <<[current |-> Resolved(p), previousPeriod |-> Resolved(PreviousPeriod(p)),
            previousYear |-> Resolved(PreviousYear(p))]>>
    ELSE <<>>

-----------------------------------------------------------------------------
(* The page.                                                               *)

(* currentPeriod: the quarter is the month's third, rounded up.            *)
CurrentPeriod(grain) ==
    LET month == (today.month % 12) + 1
    IN  Natural(grain, FirstYear + (today.month \div 12),
                CASE grain = "MONTH" -> month
                  [] grain = "QUARTER" -> (month + 2) \div 3
                  [] grain = "YEAR" -> 0)

(* parseAnalysisQuery: an address that is not a period is the current month.*)
Parsed(p) == IF Valid(p) THEN p ELSE CurrentPeriod("MONTH")

(* Date.UTC(year, n, 1) with a month counted from 0: what is below or      *)
(* beyond the year is carried.                                             *)
MonthUTC(year, n) == Natural("MONTH", year + (n \div 12), (n % 12) + 1)

(* shiftMonth, shiftQuarter, and years.                                    *)
Shifted(p, offset) ==
    CASE p.grain = "MONTH" -> MonthUTC(p.year, p.part - 1 + offset)
      [] p.grain = "QUARTER" ->
            LET index == 4 * p.year + p.part - 1 + offset
            IN  Natural("QUARTER", index \div 4, (index % 4) + 1)
      [] p.grain = "YEAR" -> [p EXCEPT !.year = @ + offset]

(* trendPeriodInputs: each report also holds the period before its own.    *)
TrendPeriods(p) ==
    CASE p.grain = "YEAR" -> [i \in 1..6 |-> Natural("MONTH", p.year, 2 * i)]
      [] p.grain = "MONTH" -> <<Shifted(p, -2), Shifted(p, -4)>>
      [] p.grain = "QUARTER" -> <<Shifted(p, -2)>>
      [] OTHER -> <<>>

(* expectedLabels                                                          *)
ExpectedLabels(p) ==
    CASE p.grain = "YEAR" -> [i \in 1..12 |-> Natural("MONTH", p.year, i)]
      [] p.grain = "MONTH" -> [i \in 1..6 |-> Shifted(p, i - 6)]
      [] p.grain = "QUARTER" -> [i \in 1..4 |-> Shifted(p, i - 4)]
      [] OTHER -> <<>>

(* assembleAnalysisData: the reports whose points make the trend.          *)
TrendReports(p) ==
    (IF p.grain = "YEAR" THEN <<>> ELSE <<Answered(p)>>)
      \o [i \in DOMAIN TrendPeriods(p) |-> Answered(TrendPeriods(p)[i])]

Points(p) ==
    FlattenSeq([i \in DOMAIN TrendReports(p) |->
        LET r == TrendReports(p)[i][1] IN <<r.previousPeriod.period, r.current.period>>])

-----------------------------------------------------------------------------
Init ==
    /\ today \in Todays
    /\ query = CurrentPeriod("MONTH")
    /\ report = <<>>

Commit(p) == query' = Parsed(p) /\ report' = <<>> /\ UNCHANGED today

ChooseGrain ==
    \/ \E grain \in {"MONTH", "QUARTER", "YEAR"} : Commit(CurrentPeriod(grain))
    \/ Commit(Custom(AddDays(today, -29), today))

StepAside == \E offset \in {-1, 1} : query.grain # "CUSTOM" /\ Commit(Shifted(query, offset))

(* applyQuery: the form of a month or of a range; refused when not valid.   *)
ApplyForm ==
    \/ /\ query.grain = "MONTH"
       /\ \E m \in FormMonths : LET chosen == Natural("MONTH", m[1], m[2])
                                IN  Valid(chosen) /\ Commit(chosen)
    \/ /\ query.grain = "CUSTOM"
       /\ \E from, to \in FormDates : Valid(Custom(from, to)) /\ Commit(Custom(from, to))

(* All the reports of the page, or the error state.                        *)
Answer ==
    /\ report = <<>>
    /\ report' = <<[status |-> IF Answered(query) # <<>> /\ (\A i \in DOMAIN TrendReports(query) :
                                    TrendReports(query)[i] # <<>>)
                               THEN "ready" ELSE "error"]>>
    /\ UNCHANGED <<today, query>>

NewDay ==
    /\ \E d \in Todays : Before(today, d) /\ today' = d
    /\ UNCHANGED <<query, report>>

Next == ChooseGrain \/ StepAside \/ ApplyForm \/ Answer \/ NewDay

Spec == Init /\ [][Next]_vars

-----------------------------------------------------------------------------
TypeOK ==
    /\ today \in Todays
    /\ query.grain \in {"MONTH", "QUARTER", "YEAR", "CUSTOM"} /\ Valid(query)
    /\ report = <<>> \/ report[1].status \in {"ready", "error"}

Ready == report # <<>> /\ report[1].status = "ready"

(* A report is compared with the days right before it, as many of them for *)
(* a range, whole months for the others, and with the same days a year     *)
(* before, up to a February 29 (financial-reporting/spec.md:50 of          *)
(* build-free-personal-ledger: "like-for-like").                           *)
ComparisonsAreLikeForLike ==
    Ready =>
        LET r == Answered(query)[1]
            whole(p) == p.from.day = 1 /\ p.to.day = DaysIn[p.to.month]
            span(p) == p.to.month - p.from.month
        IN  /\ Number(r.previousPeriod.to) + 1 = Number(r.current.from)
            /\ IF query.grain = "CUSTOM"
               THEN /\ InclusiveDays(r.previousPeriod.from, r.previousPeriod.to)
                         = InclusiveDays(r.current.from, r.current.to)
                    /\ {r.previousYear.from, r.previousYear.to} \subseteq Date
                    /\ Number(r.current.from) - Number(r.previousYear.from) \in {365, 366}
                    /\ Number(r.current.to) - Number(r.previousYear.to) \in {365, 366}
               ELSE /\ \A p \in {r.current, r.previousPeriod, r.previousYear} :
                          whole(p) /\ span(p) = span(r.current)
                    /\ r.previousYear.from.month = r.current.from.month - 12

(* The trend shows each of its months or quarters, none from two reports   *)
(* and none missing: the points the reports bring are the labels the page  *)
(* draws (financial-reporting/spec.md:40 of build-free-personal-ledger).   *)
TrendIsComplete ==
    Ready /\ query.grain # "CUSTOM" =>
        /\ ToSet(Points(query)) = ToSet(ExpectedLabels(query))
        /\ Len(Points(query)) = Len(ExpectedLabels(query))

(* "Previous" on the page opens the very period the report called its      *)
(* previous one, whatever the day of the clock.                            *)
PreviousIsThePreviousPeriod ==
    Ready /\ query.grain # "CUSTOM" =>
        Resolved(Parsed(Shifted(query, -1))) = Answered(query)[1].previousPeriod

(* Claimed by apps/web/src/i18n/en.ts:405 ("A custom range can cover at    *)
(* most 730 days") and design.md:291 of build-free-personal-ledger: every  *)
(* range of up to 730 days that the form accepts gets its report.          *)
EveryAcceptedRangeIsReported ==
    query.grain = "CUSTOM" /\ report # <<>> => report[1].status = "ready"
=============================================================================
