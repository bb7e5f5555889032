----------------------------- MODULE MCEntries -----------------------------
(***************************************************************************)
(* What the owner enters, in one run of independent instances.              *)
(* Installments: "shares" of a purchase and of what was reimbursed.         *)
(* QuickEntry: "entries" of some purchases.  Budgets: "budgets" of some     *)
(* months.                                                                  *)
(***************************************************************************)
EXTENDS Installments, Sequences, FiniteSets, TLC

CONSTANTS
    Merchants, EveryTime, PreferredOf, Seeded, Named,                   \* QuickEntry
    Scenarios,
    Keys, Spendable, Months, Amounts, MaxWrites                         \* Budgets

VARIABLES
    case,                                                               \* the instance
    scenario, categories, rules, txs, edits, online, form, busy, dialog, \* QuickEntry
    calls, notice, confirmed, cancelled, untold,
    page, table, reading, save, stray, stale, writes                    \* Budgets

entryVars == <<scenario, categories, rules, txs, edits, online, form, busy, dialog,
               calls, notice, confirmed, cancelled, untold>>
budgetVars == <<page, table, reading, save, stray, stale, writes>>
mcVars == <<case, vars, entryVars, budgetVars>>

\* Months of three days, the third of them of two and the fifth of one.
ShortMonths == [m \in 0..6 |-> IF m = 2 THEN 2 ELSE IF m = 4 THEN 1 ELSE 3]

\* One merchant like any other, one to be confirmed every time.
MCPreferredOf == "shop" :> <<>> @@ "market" :> <<2>>

\* September to November.
MCMonths == 9..11

(* Two purchases, the second typed ahead, while another tab changes a rule; *)
(* one with two calls in flight and the browser offline at any time.        *)
MCScenarios ==
    {[entries |-> 2, edits |-> 1, calls |-> 1, ahead |-> TRUE, drops |-> FALSE],
     [entries |-> 1, edits |-> 0, calls |-> 2, ahead |-> FALSE, drops |-> TRUE]}

Entry == INSTANCE QuickEntry
Limits == INSTANCE Budgets

ASSUME EntryAssumption == Entry!EntryAssumption
ASSUME BudgetAssumption == Limits!BudgetAssumption

NoShares == /\ total = 0 /\ reimbursed = 0 /\ count = 2 /\ first = [month |-> 0, day |-> 1]
            /\ phase = "DONE" /\ i = 0 /\ allocated = <<0, 0>> /\ remaining = 0
NoEntry == /\ scenario = <<>> /\ categories = {} /\ rules = <<>> /\ txs = <<>> /\ edits = 0
           /\ online = TRUE /\ form = <<>> /\ busy = FALSE /\ dialog = <<>> /\ calls = {}
           /\ notice = [kind |-> "none"] /\ confirmed = {} /\ cancelled = {} /\ untold = {}
NoBudget == /\ page = <<>> /\ table = <<>> /\ reading = <<>> /\ save = <<>> /\ stray = {}
            /\ stale = FALSE /\ writes = 0

MCInit ==
    \/ case = "shares" /\ Init /\ NoEntry /\ NoBudget
    \/ case = "entries" /\ Entry!Init /\ NoShares /\ NoBudget
    \/ case = "budgets" /\ Limits!Init /\ NoShares /\ NoEntry

SharesStep == case = "shares" /\ Next /\ UNCHANGED <<case, entryVars, budgetVars>>
EntryStep == case = "entries" /\ Entry!Next /\ UNCHANGED <<case, vars, budgetVars>>
BudgetStep == case = "budgets" /\ Limits!Next /\ UNCHANGED <<case, vars, entryVars>>

MCNext == SharesStep \/ EntryStep \/ BudgetStep

(* The browser settles every call, and the page handles what it returns.   *)
Served == case = "entries" /\ Entry!Served /\ UNCHANGED <<case, scenario, vars, budgetVars>>
Returned == case = "entries" /\ Entry!Returned /\ UNCHANGED <<case, scenario, vars, budgetVars>>

MCSpec == MCInit /\ [][MCNext]_mcVars /\ WF_mcVars(Served) /\ WF_mcVars(Returned)

-----------------------------------------------------------------------------
(* Nothing is recorded but under an active rule of its merchant, or under a *)
(* category the owner confirmed for this very entry, whatever another tab   *)
(* does to the rule between preview and write, whatever answers are lost,   *)
(* and whatever is typed, escaped or unmounted meanwhile                    *)
(* (quick-entry-merchant-confirmation/spec.md:3-16).                        *)
OnlyKnownOrConfirmed == [][case = "entries" => Entry!KnownOrConfirmed]_mcVars

(* "Recorded under" is said of an entry that is in the ledger under that    *)
(* very category; an entry is recorded once, "Nothing was written" is said  *)
(* of one that is not recorded, and cancelling a confirmation records       *)
(* nothing (QuickEntryPage.tsx:268-283, i18n/en.ts:68 and 100), except for  *)
(* an entry some recording of which was served with no part of the page     *)
(* left to learn it: its answer was lost, or the owner dismissed the dialog *)
(* or went offline while it ran.  Of those the code keeps no promise.       *)
NoticesAreTrue ==
    case = "entries" =>
        /\ Entry!TypeOK /\ Entry!RecordedOnce /\ Entry!SavedIsRecorded
        /\ Entry!CancelWritesNothing /\ Entry!NothingWrittenIsTrue

(* Neither the form (setBusy in QuickEntryPage.tsx) nor the confirmation    *)
(* dialog (setBusy and loading in NewMerchantConfirmation.tsx) stays        *)
(* disabled, whatever the owner confirms, creates or cancels, whatever call *)
(* fails, and whenever the browser goes offline.                            *)
PageSettles ==
    /\ case = "entries" /\ Entry!FormWaits ~> ~Entry!FormWaits
    /\ case = "entries" /\ Entry!DialogWaits ~> ~Entry!DialogWaits

(* Whenever the page shows its limits and neither waits for a save nor      *)
(* doubts one, they are those in force in its month, unless somebody wrote  *)
(* after its last read (useBudgets.ts:42-71, MonthlyBudgets' key).          *)
ShownIsInForce == case = "budgets" => Limits!TypeOK /\ Limits!ShownIsInForce

(* What is set for a month, by the page, by a request it no longer waits    *)
(* for or by another tab, holds in every month up to the next setting of    *)
(* its key, and leaves every other month and key as they were               *)
(* (monthly-category-budgets/spec.md:11 of add-monthly-category-budgets).   *)
SettingHoldsUntilTheNext == [][case = "budgets" => Limits!HoldsUntilTheNext]_mcVars
=============================================================================
