------------------------------ MODULE Reports ------------------------------
(***************************************************************************)
(* The totals of a financial report and the lists behind them:             *)
(*   packages/persistence/src/financial-reports.ts                         *)
(*   packages/domain/src/financial-reporting.ts    (the sums, the changes) *)
(*   packages/persistence/src/repositories.ts      (the drill-down's list) *)
(*                                                                         *)
(* The report adds up one read in the order of its rows, in maps keyed by  *)
(* currency, category and merchant; a drill-down sends some of those keys  *)
(* to the list of transactions, which filters by conditions of its own.    *)
(* Which dates a period has is the subject of ReportPeriods.               *)
(***************************************************************************)
EXTENDS Integers, Sequences, SequencesExt, FiniteSets, FiniteSetsExt, Functions

CONSTANTS
    Rows,      \* contents of a transaction: [date, status, amount, reimbursed,
               \*   direction, currency, category, merchant, account]
    KindOf,    \* the kind of each category
    FamilyOf,  \* the merchants of a family, and which
    Queries,   \* report queries: [account, category, currency, merchant], each
               \*   <<>> or <<value>>; <<"missing">> is merchantMissing
    Current, Before, YearAgo,   \* the dates of the three periods
    MaxRows    \* bound on the ledger

ReportAssumption ==
    /\ \A r \in Rows : r.amount \in Nat /\ r.reimbursed \in 0..r.amount
    /\ MaxRows \in Nat \ {0}

VARIABLES
    ledger,    \* the recorded transactions, in the order of their ids
    query      \* the query of the report

vars == <<ledger, query>>

None == <<>>
Missing == <<"missing">>

-----------------------------------------------------------------------------
(* The reads.                                                              *)

Is(condition, value) == condition = None \/ condition = <<value>>

IsMerchant(condition, row) ==
    \/ condition = None
    \/ condition = Missing /\ row.merchant = None
    \/ condition # Missing /\ row.merchant = condition

(* queryStatement: ordered by date and id, reimbursements deducted.        *)
Selected(q, dates) ==
    LET ids == {i \in DOMAIN ledger :
            /\ ledger[i].status = "POSTED" /\ ledger[i].date \in dates
            /\ Is(q.account, ledger[i].account)
            /\ q.category # None => ledger[i].category = q.category
            /\ Is(q.currency, ledger[i].currency)
            /\ IsMerchant(q.merchant, ledger[i])}
    IN  SetToSortSeq(ids, LAMBDA i, j : \/ ledger[i].date < ledger[j].date
                                        \/ ledger[i].date = ledger[j].date /\ i < j)

Kind(row) == IF row.category = None THEN "UNCLASSIFIED" ELSE KindOf[row.category[1]]

(* The column amount_minor of the read.                                    *)
Net(row) == row.amount - row.reimbursed

(* Set a key of a map, as Map.set.                                         *)
Put(map, key, value) ==
    [k \in DOMAIN map \cup {key} |-> IF k = key THEN value ELSE map[k]]
Get(map, key, default) == IF key \in DOMAIN map THEN map[key] ELSE default

-----------------------------------------------------------------------------
(* Cash flow.                                                              *)

NoFlow == [income |-> 0, spending |-> 0, net |-> 0]
Signed(row, plus) == IF row.direction = plus THEN Net(row) ELSE -Net(row)

(* calculateCashFlowReport, the loop body.                                 *)
AddFlow(sections, row) ==
    LET old == Get(sections, row.currency, NoFlow)
        new == CASE Kind(row) = "INCOME"  -> [old EXCEPT !.income = @ + Signed(row, "INFLOW")]
                 [] Kind(row) = "EXPENSE" -> [old EXCEPT !.spending = @ + Signed(row, "OUTFLOW")]
                 [] OTHER -> old
    IN  Put(sections, row.currency, [new EXCEPT !.net = new.income - new.spending])

CashFlow(dates) ==
    FoldLeft(LAMBDA sections, i : AddFlow(sections, ledger[i]), <<>>, Selected(query, dates))

\* Mutant of BasisPoints: an exact half is rounded towards zero.
BasisPointsHalfDown(delta, reference) ==
    IF reference = 0 THEN None
    ELSE LET numerator == 10000 * (IF delta < 0 THEN -delta ELSE delta)
             denominator == IF reference < 0 THEN -reference ELSE reference
             up == IF 2 * (numerator % denominator) > denominator THEN 1 ELSE 0
             magnitude == (numerator \div denominator) + up
         IN  <<IF delta < 0 THEN -magnitude ELSE magnitude>>

(* roundedPercentageBasisPoints: BigInt division truncates, then the       *)
(* remainder decides; \div of TLA+ is taken of magnitudes only.            *)
BasisPoints(delta, reference) ==
    IF reference = 0 THEN None
    ELSE LET numerator == 10000 * (IF delta < 0 THEN -delta ELSE delta)
             denominator == IF reference < 0 THEN -reference ELSE reference
             up == IF 2 * (numerator % denominator) >= denominator THEN 1 ELSE 0
             magnitude == (numerator \div denominator) + up
         IN  <<IF delta < 0 THEN -magnitude ELSE magnitude>>

(* compareMetric, for one of the three metrics                             *)
Compare(current, reference) ==
    [current |-> current, reference |-> reference, change |-> current - reference,
     points |-> BasisPoints(current - reference, reference)]

CompareFlows(current, reference) ==
    [f \in {"income", "spending", "net"} |-> Compare(current[f], reference[f])]

(* compareCashFlowCurrencies                                               *)
Comparisons(current, reference) ==
    [c \in DOMAIN current \cup DOMAIN reference |->
        CompareFlows(Get(current, c, NoFlow), Get(reference, c, NoFlow))]

(* mergeCashFlowCurrencySections                                           *)
Merged(current, before, yearAgo) ==
    LET zero == CompareFlows(NoFlow, NoFlow)
    IN  [c \in DOMAIN current \cup DOMAIN before \cup DOMAIN yearAgo |->
            [current |-> Get(current, c, NoFlow), before |-> Get(before, c, zero),
             yearAgo |-> Get(yearAgo, c, zero)]]

(* cashFlowWithComparisons: the three reads are one batch.                 *)
CashFlowReport ==
    LET current == CashFlow(Current)
    IN  Merged(current, Comparisons(current, CashFlow(Before)), Comparisons(current, CashFlow(YearAgo)))

-----------------------------------------------------------------------------
(* Spending.                                                               *)

NoGroup == [spending |-> 0, count |-> 0]
AddTo(groups, key, delta) ==
    Put(groups, key, [spending |-> Get(groups, key, NoGroup).spending + delta,
                      count |-> Get(groups, key, NoGroup).count + 1])

(* The key of a merchant group: a family unless the query names a merchant. *)
GroupKey(row) ==
    IF row.merchant # None /\ row.merchant[1] \in DOMAIN FamilyOf
         /\ (query.merchant = None \/ query.merchant = Missing)
    THEN [family |-> <<FamilyOf[row.merchant[1]]>>, merchant |-> None]
    ELSE [family |-> None, merchant |-> row.merchant]

NoSection == [spending |-> 0, categories |-> <<>>, merchants |-> <<>>]

(* spendingSections, the loop body: expenses only.                         *)
AddSpending(sections, row) ==
    IF Kind(row) # "EXPENSE" THEN sections
    ELSE LET old == Get(sections, row.currency, NoSection)
             delta == Signed(row, "OUTFLOW")
         IN  Put(sections, row.currency,
                 [spending |-> old.spending + delta,
                  categories |-> AddTo(old.categories, row.category, delta),
                  merchants |-> AddTo(old.merchants, GroupKey(row), delta)])

SpendingReport ==
    FoldLeft(LAMBDA sections, i : AddSpending(sections, ledger[i]), <<>>, Selected(query, Current))

(* drillDown: the keys of the query, and the currency and the dates.       *)
DrillDown(currency) ==
    [query EXCEPT !.currency = <<currency>>]

CategoryDrillDown(currency, category) ==
    [keys |-> [DrillDown(currency) EXCEPT !.category = category], family |-> None]

MerchantDrillDown(currency, key) ==
    [keys |-> [DrillDown(currency) EXCEPT !.merchant =
                  CASE key.family # None -> None
                    [] key.family = None /\ key.merchant = None -> Missing
                    [] OTHER -> key.merchant],
     family |-> key.family]

(* buildTransactionFilters with reportMetric NET_SPENDING, and             *)
(* filterMerchantFamily: the transactions a drill-down lists.              *)
ListFilter(d) ==
    {i \in DOMAIN ledger :
        /\ ledger[i].date \in Current /\ ledger[i].status = "POSTED"
        /\ Kind(ledger[i]) = "EXPENSE"
        /\ Is(d.keys.account, ledger[i].account)
        /\ d.keys.category # None => ledger[i].category = d.keys.category
        /\ Is(d.keys.currency, ledger[i].currency)
        /\ IsMerchant(d.keys.merchant, ledger[i])
        /\ d.family # None =>
              /\ ledger[i].merchant # None /\ ledger[i].merchant[1] \in DOMAIN FamilyOf
              /\ FamilyOf[ledger[i].merchant[1]] = d.family[1]}

-----------------------------------------------------------------------------
Init == ledger = <<>> /\ query \in Queries

(* A transaction is recorded, or one is changed, by another request.       *)
Record == \E row \in Rows : Len(ledger) < MaxRows /\ ledger' = Append(ledger, row) /\ UNCHANGED query
Change == \E row \in Rows, i \in DOMAIN ledger :
    ledger' = [ledger EXCEPT ![i] = row] /\ UNCHANGED query
Ask == query' \in Queries /\ UNCHANGED ledger

Next == Record \/ Change \/ Ask

Spec == Init /\ [][Next]_vars

-----------------------------------------------------------------------------
Sum(ids, plus) ==
    MapThenSumSet(LAMBDA i : (IF ledger[i].direction = plus THEN 1 ELSE -1)
                                 * (ledger[i].amount - ledger[i].reimbursed), ids)
Of(dates, currency, kind) ==
    {i \in ToSet(Selected(query, dates)) : ledger[i].currency = currency /\ Kind(ledger[i]) = kind}

(* Income is what income categories brought in, net spending what expense  *)
(* categories cost after refunds and reimbursements, for each currency and *)
(* period, and the currencies never mix; transfers count nowhere           *)
(* (financial-reporting/spec.md:19-31 and 83 of build-free-personal-ledger).*)
CashFlowIsAsDefined ==
    \A c \in DOMAIN CashFlowReport :
        LET section == CashFlowReport[c]
            asDefined(f, dates) ==
                /\ f["income"] = Sum(Of(dates, c, "INCOME"), "INFLOW")
                /\ f["spending"] = Sum(Of(dates, c, "EXPENSE"), "OUTFLOW")
                /\ f["net"] = f["income"] - f["spending"]
            reference(comparison) ==
                [m \in {"income", "spending", "net"} |-> comparison[m].reference]
        IN  /\ asDefined(section.current, Current)
            /\ asDefined(reference(section.before), Before)
            /\ asDefined(reference(section.yearAgo), YearAgo)

(* Every currency of any of the three periods has its section, and each    *)
(* change is the current value less the reference                          *)
(* (financial-reporting.ts:489-564).                                       *)
NoCurrencyIsLost ==
    /\ DOMAIN CashFlowReport =
          {ledger[i].currency : i \in ToSet(Selected(query, Current \cup Before \cup YearAgo))}
    /\ \A c \in DOMAIN CashFlowReport : \A m \in {"income", "spending", "net"} :
          LET section == CashFlowReport[c]
          IN  /\ section.before[m].current = section.current[m]
              /\ section.yearAgo[m].current = section.current[m]

(* Against the period before and against the year before, the percentage is*)
(* the basis points nearest to the exact ratio, halves away from zero, and *)
(* of the sign of the change (financial-reporting.ts:464-477).             *)
ChangesAreRounded ==
    \A c \in DOMAIN CashFlowReport : \A m \in {"income", "spending", "net"} :
        LET size(n) == IF n < 0 THEN -n ELSE n
            rounded(change) ==
                IF change.reference = 0 THEN change.points = None
                ELSE LET error == change.points[1] * size(change.reference) - 10000 * change.change
                     IN  /\ 2 * size(error) <= size(change.reference)
                         /\ 2 * size(error) = size(change.reference) =>
                                size(change.points[1] * change.reference) > size(10000 * change.change)
        IN  rounded(CashFlowReport[c].before[m]) /\ rounded(CashFlowReport[c].yearAgo[m])

(* Behind every amount of the spending report is a list of transactions    *)
(* that adds up to it: the categories and the merchant groups each divide  *)
(* the total, and a drill-down lists exactly what its row counted          *)
(* (financial-reporting/spec.md:61 of build-free-personal-ledger).         *)
DrillDownsReconcile ==
    \A c \in DOMAIN SpendingReport :
        LET section == SpendingReport[c]
            listed(group, d) ==
                /\ group.count = Cardinality(ListFilter(d))
                /\ group.spending = Sum(ListFilter(d), "OUTFLOW")
            total(groups) == MapThenSumSet(LAMBDA k : groups[k].spending, DOMAIN groups)
        IN  /\ section.spending = CashFlow(Current)[c].spending
            /\ total(section.categories) = section.spending
            /\ total(section.merchants) = section.spending
            /\ \A k \in DOMAIN section.categories : listed(section.categories[k], CategoryDrillDown(c, k))
            /\ \A k \in DOMAIN section.merchants : listed(section.merchants[k], MerchantDrillDown(c, k))
=============================================================================
