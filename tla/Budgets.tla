------------------------------ MODULE Budgets ------------------------------
(***************************************************************************)
(* Monthly limits of spending categories, which hold from the month they   *)
(* are set for until a later setting, and the page that edits them:        *)
(*   packages/persistence/src/budgets.ts        (BudgetRepository)         *)
(*   packages/domain/src/budgets.ts             (the schemas)              *)
(*   migrations/0019_category_budgets.sql       (the table)                *)
(*   apps/web/worker/index.ts                   (GET, PUT /budgets)        *)
(*   apps/web/src/features/analysis/useBudgets.ts, MonthlyBudgets.tsx,     *)
(*   BudgetRow.tsx                                                         *)
(*                                                                         *)
(* A save of the page is a PUT followed by a read of the list; either may  *)
(* fail, before or after the server did its part, and the owner may leave  *)
(* the page, or use another one, in between.                               *)
(***************************************************************************)
EXTENDS Integers, FiniteSets, FiniteSetsExt

CONSTANTS
    Keys,        \* pairs of a category and a currency
    Spendable,   \* those whose category is an active EXPENSE category
    Months,      \* months, counted from any one
    Amounts,     \* amounts of limits in minor units; 0 is a limit
    MaxWrites    \* bound on the settings written

BudgetAssumption ==
    /\ Spendable \subseteq Keys
    /\ Months \subseteq Nat /\ Amounts \subseteq Nat /\ MaxWrites \in Nat

VARIABLES
    table,     \* category_budgets: limits by <<key, effective month>>
    page,      \* the budgets of the page: its month, state, list and notice
    reading,   \* the request of the effect: <<>>, or whether and what it read
    save,      \* the save of the page: <<>>, or its setting and progress
    stray,     \* settings of PUT requests nobody waits for
    stale,     \* whether the table was written since the page last read it
    writes     \* number of settings written

vars == <<table, page, reading, save, stray, stale, writes>>

(* A limit: none, or an amount.                                            *)
NoLimit == <<>>
Limits == {NoLimit} \cup {<<a>> : a \in Amounts}
Setting == [key : Keys, month : Months, limit : Limits]

-----------------------------------------------------------------------------
(* The server.                                                             *)

\* Mutant of InForce: a removed limit falls back on the one before it.
InForceIgnoringRemoval(rows, key, month) ==
    {m \in Months : m <= month /\ <<key, m>> \in DOMAIN rows /\ rows[<<key, m>>] # NoLimit}

(* The settings of a key that a list for the month chooses from.           *)
InForce(rows, key, month) == {m \in Months : m <= month /\ <<key, m>> \in DOMAIN rows}

(* BudgetRepository.list: the last setting of each key, removals included. *)
List(rows, month) ==
    [key \in {k \in Keys : InForce(rows, k, month) # {}} |->
        rows[<<key, Max(InForce(rows, key, month))>>]]

(* BudgetRepository.save: an upsert, when the category may have a limit.   *)
Saved(rows, s) ==
    LET row == <<s.key, s.month>>
    IN  IF s.key \in Spendable
        THEN [at \in DOMAIN rows \cup {row} |-> IF at = row THEN s.limit ELSE rows[at]]
        ELSE rows

-----------------------------------------------------------------------------
(* The page.                                                               *)

Mounted(month) == [month |-> month, state |-> "loading", shown |-> <<>>, notice |-> <<>>]
Asked == <<"asked">>
Answered(list) == <<"answered", list>>

(* The limit a row of the page shows.                                      *)
LimitOf(shown, key) == IF key \in DOMAIN shown THEN shown[key] ELSE NoLimit

Init ==
    /\ table = <<>>
    /\ \E m \in Months : page = Mounted(m)
    /\ reading = Asked
    /\ save = <<>> /\ stray = {} /\ stale = FALSE /\ writes = 0

\* Mutant of Open: the component is kept for another month.
OpenUnkeyed(month) ==
    /\ page' = [page EXCEPT !.month = month]
    /\ reading' = Asked
    /\ UNCHANGED <<table, save, stray, stale, writes>>

(* Another month: the component is mounted anew, its requests are aborted, *)
(* and a save goes on without it.                                          *)
Open(month) ==
    /\ page' = Mounted(month)
    /\ reading' = Asked
    /\ save' = <<>>
    /\ stray' = stray \cup {save[1].setting : i \in {j \in DOMAIN save : save[j].at = "put"}}
    /\ UNCHANGED <<table, stale, writes>>

Navigate == \E month \in Months \ {page.month} : Open(month)

ReadList ==
    /\ reading = Asked
    /\ reading' = Answered(List(table, page.month))
    /\ stale' = FALSE
    /\ UNCHANGED <<table, page, save, stray, writes>>

ShowList ==
    /\ reading # <<>> /\ reading # Asked
    /\ page' = [page EXCEPT !.state = "ready", !.shown = reading[2]]
    /\ reading' = <<>>
    /\ UNCHANGED <<table, save, stray, stale, writes>>

ReadFails ==
    /\ reading # <<>>
    /\ page' = [page EXCEPT !.state = "error", !.shown = <<>>]
    /\ reading' = <<>>
    /\ UNCHANGED <<table, save, stray, stale, writes>>

Retry ==
    /\ page.state = "error"
    /\ page' = [page EXCEPT !.state = "loading"]
    /\ reading' = Asked
    /\ UNCHANGED <<table, save, stray, stale, writes>>

(* A row of the page saves or removes its limit.                           *)
BeginSave ==
    /\ page.state = "ready" /\ save = <<>>
    /\ writes + Cardinality(stray) < MaxWrites
    /\ \E key \in Spendable, limit \in Limits :
          /\ limit = NoLimit => LimitOf(page.shown, key) # NoLimit
          /\ save' = <<[setting |-> [key |-> key, month |-> page.month, limit |-> limit],
                        at |-> "put", list |-> <<>>]>>
    /\ page' = [page EXCEPT !.notice = <<>>]
    /\ UNCHANGED <<table, reading, stray, stale, writes>>

Write(s) ==
    /\ writes < MaxWrites
    /\ table' = Saved(table, s)
    /\ writes' = writes + 1
    /\ stale' = TRUE

PutSetting ==
    /\ save # <<>> /\ save[1].at = "put"
    /\ Write(save[1].setting)
    /\ save' = [save EXCEPT ![1].at = "list"]
    /\ UNCHANGED <<page, reading, stray>>

(* The list is read again, for the month the save was made in.             *)
ReadBack ==
    /\ save # <<>> /\ save[1].at = "list"
    /\ save' = [save EXCEPT ![1].at = "answered",
                            ![1].list = List(table, save[1].setting.month)]
    /\ stale' = FALSE
    /\ UNCHANGED <<table, page, reading, stray, writes>>

SaveDone ==
    /\ save # <<>> /\ save[1].at = "answered"
    /\ page' = [page EXCEPT
          !.shown = IF page.state = "ready" THEN save[1].list ELSE @,
          !.notice = <<IF save[1].setting.limit = NoLimit THEN "cleared" ELSE "saved">>]
    /\ save' = <<>>
    /\ UNCHANGED <<table, reading, stray, stale, writes>>

(* Either request fails; a PUT may still reach the server afterwards.      *)
SaveFails ==
    /\ save # <<>>
    /\ page' = [page EXCEPT !.notice = <<"unconfirmed">>]
    /\ save' = <<>>
    /\ stray' \in {stray, stray \cup {save[1].setting : i \in {j \in {1} : save[j].at = "put"}}}
    /\ UNCHANGED <<table, reading, stale, writes>>

StrayPut ==
    /\ \E s \in stray : Write(s) /\ stray' = stray \ {s}
    /\ UNCHANGED <<page, reading, save>>

(* Another tab or client; its category need not be one with limits.        *)
OtherPut ==
    /\ \E s \in Setting : Write(s)
    /\ UNCHANGED <<page, reading, save, stray>>

Next ==
    \/ Navigate \/ ReadList \/ ShowList \/ ReadFails \/ Retry
    \/ BeginSave \/ PutSetting \/ ReadBack \/ SaveDone \/ SaveFails
    \/ StrayPut \/ OtherPut

Spec == Init /\ [][Next]_vars

-----------------------------------------------------------------------------
TypeOK ==
    /\ DOMAIN table \subseteq Spendable \X Months
    /\ \A at \in DOMAIN table : table[at] \in Limits
    /\ page.month \in Months /\ page.state \in {"loading", "ready", "error"}
    /\ DOMAIN page.shown \subseteq Keys
    /\ stray \subseteq Setting /\ writes \in 0..MaxWrites

(* The months a setting of this table is for: from its own up to the next  *)
(* setting of its key, one that removes the limit included.                *)
UpToTheNext(rows, s) ==
    {month \in Months : /\ s.month <= month
                        /\ \A later \in Months :
                              s.month < later /\ later <= month => <<s.key, later>> \notin DOMAIN rows}

(* What a step may have written: the setting the page saves, one of those  *)
(* nobody waits for, or any that another tab sends.                        *)
MayWrite(s) ==
    /\ save' # save => s = save[1].setting
    /\ stray' # stray => s \in stray \ stray'

(* What is set for a month holds in every month up to the next setting of  *)
(* its key, and leaves the months before it, those after the next one and  *)
(* every other key as they were; what is set for a category that may have  *)
(* no limit changes nothing (monthly-category-budgets/spec.md:11 of        *)
(* add-monthly-category-budgets; the scenario at :14: 500 from September,  *)
(* 600 from October, none from November).                                  *)
HoldsUntilTheNext ==
    /\ writes' = writes => table' = table
    /\ writes' # writes =>
          \E s \in Setting :
             /\ MayWrite(s)
             /\ \A key \in Keys, month \in Months :
                   LimitOf(List(table', month), key) =
                       IF key = s.key /\ key \in Spendable /\ month \in UpToTheNext(table, s)
                       THEN s.limit ELSE LimitOf(List(table, month), key)

(* Whenever the page shows its limits and neither waits for a save nor     *)
(* doubts one, they are those in force in its month, unless somebody wrote *)
(* after its last read (useBudgets.ts:42-71, MonthlyBudgets' key).         *)
ShownIsInForce ==
    page.state = "ready" /\ save = <<>> /\ page.notice # <<"unconfirmed">> /\ ~stale
        => page.shown = List(table, page.month)
=============================================================================
