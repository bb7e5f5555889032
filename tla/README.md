# Personal Ledger: TLA+ models and proofs

Personal Ledger is a single-owner bookkeeping application: a React client, one Cloudflare Worker
with a JSON API and a cron trigger, and a D1 (SQLite) database. One person uses it, but several
things write to the database at once: tabs and devices of the owner, retried requests, and the cron
trigger, which fires every 15 minutes. A Worker invocation has no locks. It reads, awaits, and then
writes with `database.batch([...])`, the only atomic unit there is, and protects itself with version
columns, guards repeated in every SQL statement, unique indexes and triggers. The client has no
locks either: an answer may come late, or never. These modules check whether the protections add up.

Contents: [the system](#the-system), [modules](#modules), [runs](#runs-and-bounds),
[fairness](#fairness), [proofs](#proofs), [findings](#findings),
[other disagreements](#other-disagreements), [abstractions](#abstractions),
[not modelled](#not-modelled), [plan](#plan).

## The system

| Part | State it keeps | Operations | What makes it hard | What makes it correct |
|---|---|---|---|---|
| Subscription catch-up (`persistence/src/subscriptions.ts`, `worker/index.ts`, migrations 0014, 0016, 0020) | `subscriptions`, `subscription_occurrences`, generated rows of `transactions` | create, edit, cancel, resume; generate due charges (cron, and after each request) | several invocations work from rows they read before an await; runs are bounded; cancellations apply to the past; an abort in a batch ends a run | each date is charged once; nothing is charged past a cutoff; owed dates are recorded before a plan closes; every overdue plan is caught up |
| Subscription calendar (`domain/src/subscriptions.ts`) | none | next date of a cadence | short months, leap years | the schedule does not drift or skip |
| CSV import (`domain/src/csv-import.ts`, `persistence/src/csv-imports.ts`, `CsvImportSettings.tsx`) | parser state; `import_batches`, `import_rows`, imported rows of `transactions` | parse, match, stage a preview, replay it, replace it when expired, commit with decisions | chunks end anywhere; the evidence is older than the commit; two files overlap; expiry races a commit; answers get lost | files are read as written; rows are imported once, merges are one to one and still justified, committed batches are final |
| Manual transactions (`manual-transactions.ts`, `repositories.ts`) | `transactions` | create, update, delete, reimburse | optimistic versions between tabs | no lost update |
| Installments (`manual-transactions.ts`) | a group of rows of `transactions` | split an amount over months | cents left over, caps of reimbursements, short months | amounts add up, dates exist |
| Categories, rules, overrides (`categories.ts`, `merchant-rules.ts`, `category-overrides.ts`) | `categories`, `merchant_rules`, `category_audits` | correct and remember, create, update, preview | a rule and a transaction written under two versions | audits tell the history, rules are unique, marks agree with rules |
| Budgets (`budgets.ts`, `useBudgets.ts`) | `category_budgets`, the page | set, remove, show a month | settings in any order; saves answered late | a limit holds until the next one; the page shows it |
| Reports (`financial-reports.ts`, `financial-reporting.ts`, `features/analysis`) | none | totals, comparisons, trend, drill-downs | transfers, refunds, reimbursements, two currencies, leap years, two arithmetics of periods | figures are what the guide defines and add up from rows |
| Transaction list (`repositories.ts`, `useTransactions.ts`) | address, page, requests in flight | filter, page, go back, export | rows move between pages; answers out of order | no row is skipped; the list belongs to the address |
| Quick entry (`features/quick-entry`) | form, dialog, calls in flight, `online` | preview, record, confirm, create a category | each call may fail or get lost; another tab edits rules; the browser goes offline | nothing is recorded unconfirmed or twice; what the page says is true; neither form nor dialog stays disabled |
| JSON export and restore (`full-json-export.ts`, `full-json-restore.ts`, `scripts/`) | a file | one snapshot batch; validate; restore | limits, references between collections, rules stricter than the program | what is exported can be restored |
| Remote migration guard (`remote-migration-guard.ts`, `scripts/migrate-remote.mjs`) | backup file, migration files, directories, D1 | sequence of commands | each reads the disk by itself and may fail | no migration without a verified rehearsal |
| Request pipeline (`worker/index.ts`, `worker/security/`) | none | access, CSRF, limits, routing | order of checks | a refused request writes nothing |
| Service worker (`public/service-worker.js`) | caches | fetch, activate | versions | no ledger data cached |

How they interact: all parts meet in the table `transactions`. Subscriptions insert charges that the
owner may edit or delete like any manual transaction; triggers (`0014`, `0016`) keep occurrences in
step with such changes and refuse an occurrence whose charge does not fit. An import links bank rows
to manual transactions, charges of subscriptions included, or inserts new ones. Rules give a category
to purchases as they are recorded. The export reads all tables in one batch; the migration guard has
its file restored before it lets a migration go remote. The client never talks to the database; it
holds versions and sends them back.

## Modules

Specifications, each a state machine with its type invariant and properties:

| Module | Models |
|---|---|
| `LedgerCalendar` | dates and `nextSubscriptionDate`, for calendars of any month lengths (operators, used by four others) |
| `Subscriptions` | the subscription tables, every invocation that touches them, the owner's changes of charges, the clock |
| `ChargeSchedule` | what recurring charges promise, without database or invocations: the abstract specification that `Subscriptions` implements |
| `ScheduleWalk` | one schedule, followed from charge to charge |
| `CsvParser` | bytes to rows of cells: decoder, state machine, limits, chunks that end anywhere |
| `CsvPreview` | rows to a preview: column mapping, the RBC adapter, three reads of a ledger that changes between them, and the test of each row at the commit |
| `CsvImports` | staging, replaying, replacing, committing and merging, with the owner's changes meanwhile |
| `LedgerTransactions` | transactions, categories, audits and merchant rules, written from several tabs |
| `Installments` | the division of an amount and its reimbursement, one loop iteration per step |
| `CsvExport` | the file of transactions, read back by `CsvParser` |
| `TransactionPages` | the list page: cursors, filters, history, requests in flight; the export of the same rows |
| `ReportPeriods` | periods, comparisons and trends: the server's rollover of months and quarters, the page's `Date.UTC` and remainders |
| `Reports` | cash flow, spending groups, drill-downs |
| `Budgets` | monthly limits and the page that edits them |
| `QuickEntry` | recording a purchase: page, dialog, calls, another tab, the browser offline |
| `Backups` | every table, export, validation, restore, verification |
| `MigrationGuard` | two commands that migrate a remote database |

Proofs: `SubscriptionsProofs` (calendar facts first, then the invocations, the history of plans and
the refinement), `LedgerTransactionsProofs`, `CsvImportsProofs`, `StatementsProofs` (previews),
`InstallmentsProofs`, `EntriesProofs` (limits, then quick entry), `ReadingsProofs` (list pages, the
export, dates) and `RecoveryProofs` (the migration guard, then backups).

Model checking: `MCSubscriptions`, `MCLedgerTransactions`, `MCPlans`, `MCImports`, `MCStatements`,
`MCReadings`, `MCEntries` and `MCRecovery`. `MCPlans`, `MCStatements`, `MCReadings`, `MCEntries` and
`MCRecovery` hold several instances of several modules side by side: a variable `case` says which
instance a behaviour belongs to, `Init` picks one, a step of an instance leaves `case` and the variables
of the other modules alone. So one run explores each of them completely and independently.
`MCLedgerTransactions` and `MCImports` extend the module they check, so that run and theorem name the
same definitions; their `case` keeps a behaviour within the ids, names, files, items, times and versions
that `Bounds` gives it. `MCStatements`, `MCReadings`, `MCEntries` and `MCRecovery` take what their proved
instances depend on from the configuration, so the theorems about them hold of all values, with several
instances side by side as in the run. `MCCsvImports`, `MCBackups` and the other small `MC` modules serve
the runs that show a disagreement.

### Subscriptions

State: `sub`, `occ` and `tx` are the tables; `today` is the ledger date of the clock; `run[w]` is
what invocation `w` holds in local variables between two awaits, its program counter included. One
action is one database call or one batch, because that is what other invocations can come between.

| Action | Code |
|---|---|
| `Create` | `POST /subscriptions`: find, `INSERT ... ON CONFLICT DO NOTHING`, then the catch-up of this plan |
| `ReadForMutation`, then `Cancel`, `Resume`, `Edit` or `Conflict` | `mutate`: the read and its checks, then the write under the version |
| `StartCron`, `Select` | `scheduled`, the selection of `generateDue` |
| `Generate`, `GenerateAborted` | `generateOne`: four statements, each under `GUARD`, in one batch; the trigger aborts all of it |
| `Refind` | reading the plan again after a successful batch |
| `Close` | the closing update of `generateDue` |
| `DeleteCharge`, `EditCharge` | the owner's changes of a generated transaction, with the trigger's effect on its occurrence |

The operators `InsertsCharge`, `RepostsCharge`, `OccAfterBatch` and `Advanced` are the four
statements of the batch, in their order; `BatchAborts` is the trigger on occurrences, evaluated on
the result of the second. `AnchorRetained` names the steps that may change an anchor (`MovesAnchor`: the
answer to a resumption, or to an edit that names another date) and refuses all others, a catch-up that
clamps the date in a short month included. `ImplementsSchedule` maps `cursor` to the next date, `cutoff` to the
cancellation date and `slot` to the status of the transaction of an occurrence.

### CsvParser, CsvPreview, CsvImports

Three stages of one upload. In `CsvParser` a step is a chunk; the state is what the code carries to
the next one (`CsvParserState`, the pending byte of the decoder, the byte count). Files are written
from a table by an operator of the module, so that what should be read is known. In `CsvPreview` the
three reads of `POST /imports/csv` answer in any order while the ledger changes; a cell is its parsed
value. In `CsvImports` `batch[f]` is the batch of a file and its rows; of a transaction it keeps
status, version, fingerprint and `item`, the values `canonicalImportRowKey` compares; `Near` is the
relation behind `findExistingMatches`.

| Action of `CsvImports` | Code |
|---|---|
| `ReadSuspected`, `ReadMatches` | the two queries of `POST /imports/csv`, answered in either order; the instant of the preview is taken after both |
| `ReadBatch`, then `InsertPreview` or `ReplacePreview` | `stagePreview`: the read that decides, then the batch of statements |
| `BeginCommit`, `Decide` | `commit`: the batch is read and checked against the clock; then its rows are read and the decisions validated |
| `Commit`, `CommitRefused` | the atomic batch (guard, inserts, links, final status), or its refusal by the guard or by a constraint |
| `Abandon` | any early end of an invocation: a failed read, refused decisions, the platform |
| `Record`, `Revise`, `Delete` | the owner keeps working on manual transactions |

### LedgerTransactions

`page[t]` is the copy of a row that tab `t` shows; most writes are one guarded `UPDATE` from that
copy. Two operations read first and write later: remembering a correction (`ReadTransaction`,
`ReadRule`, then `SaveForFuture` or `SaveEndsUnchanged`, one batch whose last statement fails on
purpose when rule and transaction do not fit) and changing a rule (`BeginUpdateRule`,
`FindConflict`, `WriteRule`). `Create`, `CreateInCategory` and `CreateAndRemember` are the three
ways to record a purchase. `classes` is a history: every category, source and rule each row has had, in
order, taken from the rows and not from the audits. `AuditsReconstruct` compares the audits with it, one
for each change, so a trigger that misses a change, or loses an audit, shows.

### The pages: TransactionPages, Budgets, QuickEntry

Each call of a page is sent, served in one database call, and answered; in `Budgets` and
`QuickEntry` it may also fail before or after it was served, and in `Budgets` the page may be left
while a `PUT` is under way (`stray`).

In `QuickEntry` a purchase is known by a number, its `entry`, so that the model can tell one that is
recorded twice from two. `GoOffline` and `GoOnline` are the switch `online` of `App.tsx`: offline, the page
draws neither form nor dialog (`QuickEntryPage.tsx:152`), so the fields of the form are lost, the dialog is
unmounted (it aborts its reading of the categories, a recording it sent goes on), while
`newMerchantPreview`, `busy` and the notice stay; online again, a new form and, if a draft was waiting, a
new dialog (`Mount`) appear. A call remembers the dialog that sent it (`mount`); what it returns to a dialog
that is gone sets nothing, but a recording that succeeded ends in `Finish` all the same. `untold` collects
the entries one of whose recordings was served while no part of the page was left to learn of it: the answer
was lost, or the dialog had been dismissed by Escape or unmounted. `POST /transactions` has no request id,
so of these the code promises nothing, and `NoticesAreTrue` exempts them and no others; all of it happens in
the run.

`TransactionPages` has the effect of React that asks for the
current address and aborts the request before it (`Effect`), the history of the tab (`PopState`) and
the two reads behind a merchant family (`ReadFamily`, then `Answer`).

### Backups and MigrationGuard

`Backups` takes every operation of the ledger as one batch with what it writes in every table, so
that `Export` can meet each history. `Accepts` is `validateRestoreRelationships`, clause by clause;
`InsertsSucceed` the order of the inserts against foreign keys; `Verified` the evidence the restore
compares. `Restore` puts the restored database in the place of the old one, and it is used, and
exported, further. In `MigrationGuard` each read of the disk by the guard, its child process and
wrangler is a step of its own; the owner may save an export or edit a migration in between.

## Runs and bounds

Passing runs. A run lists its instances with what bounds them; "a name in quotes" is a value of `case`.

| Run | Question | Instances |
|---|---|---|
| `race` | safety of subscriptions, and the refinement | one plan, one cron invocation, one request, 3 months of 2, 1 and 2 days, every mutation, versions up to 5 |
| `plans` | liveness, terms of charges | "rows": 2 plans, `LIMIT` 1, 2 attempts; "charges": 2 plans both selected, 1 attempt; "clamped": one plan with a clamped anchor, every mutation, edited charges; "terms": 2 amounts, edits, versions up to 5 |
| `imports` | rows counted once, commits whole, and final while previews are fresh, merges justified | "race": 2 overlapping statements (`rent, rent` and `rent`), 2 invocations, 2 keys, one manual transaction; "refresh": one statement, previews that expire and are replaced, transactions alike and unlike |
| `ledger` | lost edits, audits, rules against marks | "edits": one purchase; "corrections": an imported transaction and 2 rules; "rules": 2 merchants and 2 rules; "remember": purchases under a rule; 2 tabs in each |
| `statements` | files in and out | "table": every table of up to 2 rows of 2 cells over all special characters, every line end, quotation and cut; "limits": around each limit; "pairs" and "triples": previews of 2 lines, and of 3 with one candidate; "texts": every text of 3 special characters; "lists": lists around the limits |
| `readings` | pages, periods, figures, dates | "walks" with edits, "filters", "exports" over 3 transactions; "periods" from 2020 to 2029 around leap days and turns of the year; "reports" of up to 3 of 13 kinds of rows; "schedule" from every start in 2023 and 2024, through 2029 |
| `entries` | installments, quick entry, limits | "shares": every amount up to 14 over up to 5 installments, every first date of 7 short months; "entries": 2 merchants; 2 purchases with typing ahead and one change by another tab, or 1 purchase with 2 calls in flight and the browser offline at any time; lost answers and Escape in both; "budgets": September to November, 3 writes |
| `recovery` | backups and migrations | "records": every kind of record, 3 changes; "plans": charges, 4 changes; "limits": more records than allowed; "guard": 2 commands, 2 directories, 2 migrations, 2 edits |

What they show:

- `race`: `ChargesMatchOccurrences`, `NothingPostedPastCutoff`, `ClosedPlansAreSettled`,
  `RunWithinBudget`; `AnchorRetained` (only a resumption or an edit to another date moves an anchor);
  `ImplementsSchedule`.
- `plans`: `ChargesCarryPlanTerms`; `CatchUpCompletes` and `CancellationsClose`
  (liveness: while no batch aborts, overdue plans are caught up and cancelled ones closed).
- `imports`: `RowsCountedOnce`, `MergesMatch`; `ImportsKeepTheirRows` and `FinalBeforeExpiry`, which
  promise something until a preview can have expired (`now < Lifetime`).
- `ledger`: `NoEditLost` and `NoRuleEditLost` (a change starts from the row its author saw),
  `AuditsReconstruct` (one audit for every change of a classification), `RuleMarksAgree`.
- `statements`: `ReadAsWritten` (with the truncated file, and the limits), `NoSilentDuplicate`,
  `AutoMergeIsUnambiguous` (and a preview is always stageable), `ExportReadsBack` (round trip, no
  cell a spreadsheet would take for a formula, whole or refused).
- `readings`: `NoRowSkipped`, `SettledListMatchesAddress`, `ExportAgreesWithPages`,
  `ComparisonsAreLikeForLike` (with the page's own "previous", and the trend without gap or overlap),
  `FiguresReconcile` (totals, percentages with exact halves of both signs, drill-downs),
  `ScheduleNeverDrifts`.
- `entries`: `ReimbursedWithinShares`, `NoCentLost`, `DatesKeepTheDay`; `OnlyKnownOrConfirmed`,
  `NoticesAreTrue`, `PageSettles` (liveness, of the form and of the dialog); `ShownIsInForce`,
  `SettingHoldsUntilTheNext` (what is set holds in each month up to the next setting, and nowhere else).
- `recovery`: `BackupRestores`, `RoundTrip`, `RemoteIsRehearsed` (with the fresh and verified backup).

Why the bounds suffice. Interference in `Subscriptions` is between two invocations over one row, so
one cron and one request show each race; a second plan matters only through the selection and the
attempts, which "rows" and "charges" are about, with the limits (100 and 8 in the code) scaled down
so that they bind. A month of one day between months of two clamps an anchor and lets it return.
Versions up to 5 allow a cancel, a resume at an earlier date, and edits or charges between them, so
that a schedule walks over recorded dates again. `MaxVersion` only stops new requests of the owner,
never a catch-up, so it does not cut a liveness argument short. In `CsvImports` a file with a repeated
row is the smallest with same-file evidence, and two files sharing a row the smallest with two claims
of one transaction. The versions of `LedgerTransactions` allow each tab to write once and to find that
the other has written. Two rows and a cell of two characters reach every pair of parser states, and a
chunk of up to three bytes every cut of both. Changes of an odd amount of cents against 32, an expense or
a refund, are the exact halves of a hundredth of a percent. In `QuickEntry` the second purchase is what a
late answer can be mistaken for, and the second call in flight what a dialog mounted anew may send while
the recording of the one before is still running. Pages of one row put every row at a page's edge. A
database of three or four changes holds each kind of record with each kind it refers to. Workers,
keys, tabs, rules, commands and directories are interchangeable, hence the symmetry; liveness is
checked without symmetry. `CHECK_DEADLOCK` is off where a bounded clock, a bounded owner or the end
of a file ends every behaviour; `race` and `plans` never stop.

Runs that show a disagreement: `stuck_plan`, `import_expiry`, `import_review` and `backup_moved`,
each the smallest instance that shows it.

## Fairness

`FairSpec` of `Subscriptions` and of `MCPlans` assumes that the cron trigger keeps firing (`wrangler`
schedules it every 15 minutes) and that a database call of a running invocation eventually returns;
weak fairness on the actions of each invocation says so, because an action that is possible stays
possible until the invocation takes it. Nothing is assumed of the owner: requests, edits and
deletions may happen or not, and the clock may stand still. A failing batch (`GenerateAborted`) is an
answer too, so fairness does not make it succeed. `MCEntries` assumes of quick entry that the browser
settles every call, with an answer or an error, and that the page handles what it returns: both are
what `fetch` and the event loop do. It assumes nothing of the owner, who may leave a dialog open for
good, nor of the connection, which may never come back: a submission settles offline too, and a dialog that is
unmounted waits for nothing. The other modules promise nothing in the end: nothing in that code retries.

## Proofs

TLAPS proves, for all values of the constants:

| Theorem | Says |
|---|---|
| `SubscriptionsProofs!TypeCorrect`, `ChargesMatch`, `CutoffRespected` | `Spec => []TypeOK`, `[]ChargesMatchOccurrences`, `[]NothingPostedPastCutoff`, for every calendar, plans, amounts, invocations and bounds |
| `SubscriptionsProofs!Invariance`, `HistoryKept` | `Spec => []IInv` and `Spec => [](IInv /\ History)`, on which these and the next rest |
| `SubscriptionsProofs!ClosedAreSettled`, `BudgetKept` | `Spec => []ClosedPlansAreSettled`, `[]RunWithinBudget` |
| `SubscriptionsProofs!AnchorsRetained`, `TermsCarried` | `Spec => AnchorRetained`: the next date is the anchor, clamped, and no catch-up moves it; and `Spec => [][CarriesPlanTerms]_vars` |
| `SubscriptionsProofs!ScheduleImplemented` | `Spec => ImplementsSchedule`: the invocations implement `ChargeSchedule` |
| `LedgerTransactionsProofs!EditsAreNeverLost`, `RuleEditsAreNeverLost` | `Spec => NoEditLost`, `NoRuleEditLost`, for any tabs, transactions, rules and names |
| `LedgerTransactionsProofs!AuditsComplete` | `Spec => []AuditsReconstruct`: one audit for every change since a transaction was recorded, for any number of changes |
| `LedgerTransactionsProofs!MarksAreTrue`, `TypeCorrect` | `Spec => RuleMarksAgree`, `[]TypeOK` |
| `LedgerTransactionsProofs!CopiesKept` | `Spec => []Inv`, on which these rest |
| `CsvImportsProofs!CountedOnce`, `MergesFit` | `Spec => []RowsCountedOnce`, `MergesMatch`, for any files, rows, invocations and edits, expired previews included |
| `CsvImportsProofs!ImportsKept`, `FinalWhileFresh` | `Spec => []ImportsKeepTheirRows`, `FinalBeforeExpiry` |
| `CsvImportsProofs!OnlyRefreshesReopen`, `OnlyLostFinalityBreaksImports` | at any time, only `ReplacePreview` changes a committed batch; and `Spec /\ CommittedIsFinal => []ImportsAreRows` |
| `CsvImportsProofs!EvidenceKept` | `Spec => []Inv`, on which these rest |
| `StatementsProofs!DuplicatesAreFlagged` | `Spec => []NoSilentDuplicate`, for any statements, ledger, references and number of changes during the reads |
| `StatementsProofs!AutoMergesAreUnambiguous` | `Spec => []AutoMergeIsUnambiguous`, for any number of candidates kept |
| `InstallmentsProofs!TypeCorrect`, `NeverOverReimbursed` | the loops stay in range and no installment is reimbursed beyond its amount, for every amount and count |
| `InstallmentsProofs!CentsAreKept` | `Spec => []NoCentLost`: shares and reimbursements add up, for every amount and count |
| `InstallmentsProofs!RemainderInLast`, `DatesExist` | the last installment alone carries the remainder; each falls on the owner's day or the end of a shorter month |
| `EntriesProofs!ShownLimitsAreInForce`, `LimitsHoldUntilTheNext` | `MCSpec => []ShownIsInForce`, `SettingHoldsUntilTheNext` (a limit holds up to the next setting, and changes nothing else), for any categories, months and limits |
| `EntriesProofs!RecordingsAreAuthorized` | `MCSpec => OnlyKnownOrConfirmed`, whatever is lost, dismissed or unmounted |
| `EntriesProofs!PageNoticesAreTrue` | `MCSpec => []NoticesAreTrue`, for any number of purchases and calls, under the same conditions; the `untold` entries are exempt in the property itself |
| `ReadingsProofs!ListsMatchTheirAddresses`, `NoRowIsSkipped` | `Spec => []SettledListMatchesAddress`, `[]NoRowSkipped`, for any rows, filters, page size and edits |
| `ReadingsProofs!ExportsAgree` | `Spec => []ExportAgreesWithPages`, for any limit of the export |
| `ReadingsProofs!DatesNeverDrift` | `Spec => []ScheduleNeverDrifts`, for any month lengths and after any number of charges |
| `RecoveryProofs!TypeCorrect`, `RemoteIsBackedUp`, `VerifiedIsKept` | `Spec => []TypeOK`, `[][BackedUp]_vars`, `[][KeepsVerified]_vars`, for any number of commands, directories and files |
| `RecoveryProofs!RemoteWasRehearsed` | `Spec => [][Rehearsed]_vars`, if no file is edited after the second digest |
| `RecoveryProofs!RemoteMigrationsAreGuarded` | `Spec => RemoteIsRehearsed`, the whole promise, under the same hypothesis |
| `RecoveryProofs!RestoredIsExported` | `Spec => RoundTrip`, for any categories, names, transactions, plans, files, limits and histories |
| `RecoveryProofs!BackupsAlwaysAccepted` | `Spec => []BackupsAreAccepted`: a backup passes the validation of the restore, unless a charge was moved, and the restored tables have its rows, every reference resolved |
| `RecoveryProofs!LedgersStaySound` | `Spec => []LedgersAreSound`, on which these two rest |

**Subscriptions.** The inductive invariant `IInv` has six conjuncts. `TypeOK`. `RowIds`: a row of the
table carries its own id, so that a snapshot names the row it came from. `ClockInRange`: the clock has
a successor month, and no invocation holds a day later than today; without it the next date of a
charge could leave the calendar. `RunsHoldRows`: every snapshot that an invocation holds is of a plan
that exists. `ChargesMatchOccurrences` and `NothingPostedPastCutoff` are inductive only with these and
with each other: a repost relies on the first to know that the transaction belongs to the slot being
charged, a removal on the one-to-one correspondence to know that nothing outside the cut changes. The
key step is `GenerateKeeps`: `GUARD` is evaluated on the row as it is and not on the snapshot, so a
cutoff set after the snapshot was read is seen. There is one lemma for each action, and lemmas about
what the actions share (`RunMoves`, `RowWritten`, `ProceedMoves`, `ChargesUntouched`). Calendar facts
(a clamped date is a date, the day after a date is later) come first in the module.

The second half of the module adds what the versions mean. In `History`, `RunsRemember` says that no version
of a plan names two rows: the snapshot of an invocation has a lower version than the table, or is the row
itself. So a write that finds the version it remembers finds the row it checked, and a closing update or a
late cancellation acts on the dates it has looked at. `AnchorsKept` says that the next date is the anchor,
clamped to its month; with the first, a step that changes an anchor answers a request
(`MutationMovesAnchor`), and each batch of a catch-up keeps it. With `RunsRemember` and `AnchorsKept`,
`ClosedPlansAreSettled` is inductive, and each step maps to one step or a stutter of `ChargeSchedule`
(`StepMaps`): every batch that advances a plan is `Charge`, a cancellation `SetCutoff`, a resumption
`Restart`, a change of the date `Postpone`, an owner's deletion `Remove`; reads, closings and all
bookkeeping between them stutter.

**LedgerTransactions.** Tabs write from copies that may be old. `PagesAreCopies` and
`RequestsRemember` say of each copy, on a page or in a request between two of its calls, that it is the
row of its table or an earlier one of lower version; `OneRuleEach`, that a merchant has one rule, which
gives the rule found by an upsert a name. An edit guarded by the version of a copy then replaces the
row its author saw. `SaveForFuture` is the hard step: it writes a transaction from one copy and a rule
from another, and marks the first with the second. The proof defines the kinds of steps there are (a
page moves, a request moves, a row is rewritten, a rule is), shows once for each kind what it keeps, and
then which kinds each action is. `HistoriesTold` relates the audits of a
row to the history of its classes: whichever kind of step rewrites a row with another classification adds
one audit, of the class before and after (`AuditsFollow`), and no step adds another.

**CsvImports.** The evidence of a preview is older than its commit. What the commit compares are
versions, and `Inv` says what equal versions mean. `Resembled`: a candidate, when it still has the
version it was staged with, is near its row (`BatchesHold`, and for answers that are still on the way
`RequestsHold`). `Decided`: a request that names the current version of its batch has decided about
the rows the batch has now, only about those that needed it, and never twice for one transaction.
`FingerprintsDiffer` is the unique index, `ValidRowsLead` says where the row of a committed file leads,
and `MergedOnce` is kept by the constraint on merged rows. Occurrences of equal rows in a file are
numbered without repetition (`OccurrencesDiffer`, by cardinalities), so a commit never gives two rows
one fingerprint. A refresh of an expired preview keeps all of this, even when it overwrites a committed
batch; what it breaks is the correspondence of imported rows and transactions. The two general
theorems say that the refresh is the only step that can reopen a batch, and a reopened batch the only
way to lose the correspondence: closing the race of finding 2 is all that is needed for
`CommittedIsFinal` and `ImportsAreRows` to hold at any time.

**Previews.** `PreviewInv` follows a preview through its phases. While it is read, its rows are the
parsed lines, and what has been answered guarantees something of the transactions that were there at
the upload and were not touched since (`steady`), although the three answers are of three instants:
`KeysFit`, a row the ledger already has is among the suspected keys; `MatchesFit`, an automatic match
has one candidate, which no other row has, and no other steady transaction resembles the row. Afterwards
`MarkedFits` relates each marked row to the line it came from. That equal rows of one file are numbered
without repetition (`OrdinalsGrow`) is an argument by cardinalities.

**Installments.** The reimbursement is shared equally first, from the first installment on, and the rest
filled from the last one back, each up to its amount, so a bound on every installment is inductive
together with the range of the index and of what remains. That the shares add up (`NoCentLost`) is an
induction over the number of installments; it is done by the least number at which the sums would go
wrong. `Accounted` says that installments the first loop has not reached have nothing, and that while
something is left those the second loop has passed are full; so it cannot end with something left.

**Limits.** That a limit holds up to the next setting is a fact of the query: the latest row of a key up to
a month decides (`InForce`), so a row put at one month changes the decision in just the months before the
next row of its key, and each of these has the new limit. What the page shows is right when nothing is on
its way because what is on its way is right: `LimitsInv` says that an answer not yet shown, of the page's
own reading or of the list after a save, is the list of the month of the page, unless the table was written
since (`stale`).

**Quick entry.** `EntryInv` has four parts. `PageFits`: what the page holds and what is on its way
belong together; a confirmation on its way is one the owner gave for that entry (`CallFits`), whether or
not the dialog it came from is still there, which is all `RecordingsAreAuthorized` needs, and a dialog of
a page that is offline is not mounted. `OneAtATime`: however many calls are in flight, the form and the
mounted dialog each await at most one (`CallIsAwaited`), and it is about the purchase they show. `LedgerIsTold`
is what makes the notices true: of every recorded entry the page will still be told (`Told`: an answer that
is on its way to a part of the page that waits for it), or it has done with it (`Past`: nothing on the page
is about to record it, and the form is at a later one), or it is `untold`. So an entry that the page can still
record is not in the ledger, and a second recording, a failure reported of a recorded purchase, and a
recorded purchase reported as cancelled need an untold one. `NoticesFit` says that of each notice. The steps
that remove a listener (`Cancel`, `GoOffline`) are where an entry becomes untold, those that answer (`Serve`,
the returns) where it is told. `First` gives the suggestion of the server a value, by the least element in
each of four orders.

**Lists.** `ListInv`: every request in flight asks for the address the page is at (`AsksForAddress`), for
the page aborts the one before, so whatever answer arrives belongs to it. `PageInv` adds the rows:
the pages walked through are each what the query gave (`PageFits`), each starts where the one before
ended (`Linked`), and together they show everything up to the last key that nobody edited meanwhile
(`ShownUpTo`); the family of a merchant that a request read holds for rows not edited since
(`AliasesFit`). An export (`FileFits`) is one page whose size is its limit, hence the same lemmas.
`DatesNeverDrift` says that the n-th date of a schedule is the day of its start in the n-th month of its
cadence, clamped to that month alone.

**Backups.** `Sound` says of a ledger, table by table, what the restore will ask of its backup, and what
that needs to be inductive: references lead to rows that are there (`Linked`), names and system keys are
unique (`CategoriesFit`), budgets and plans belong to expenses (`Spends`), groups are complete
(`GroupFits`), pending links are acyclic, charges have a manual transaction without a group
(`OccsFit`), merged rows one transaction each (`RowsFit`), and a fingerprint belongs to a committed file
(`FilesFit`, without which a second commit could repeat one). The owner's eleven operations reduce to
a few kinds of change (a row added, a row put in the place of another, transactions rewritten one by one,
a group added), each with one lemma; `Common` is a ledger that may do what the three instances may, so
these lemmas are proved once. An export that is not refused has read every row: a read of one row more
than the limit, when it is cut, has more rows than the limit (`TakenIsSnapshot`). A document lacks only the
previews and the normalized names, a restored database has the document's rows (`SameRows`), and both are
sound again, so restores may follow each other. What is left to TLC of `BackupRestores` is the order of
the inserts and the totals.

**MigrationGuard.** The promises rest on four facts. `FreshSince`: a running command holds, and will
read, no backup older than the one it found fresh, because a later export is saved over an earlier
one. `OneOwner`: two commands never own one directory, for `mkdirSync` refuses what exists, and it is
verified exactly from the owner's verification on. `ContentsAreKnown`: an edit is newer than every
digest. `SchemaIsOfDigest`: hence equal digests mean that the rehearsal has the files on disk, although
they were read in between. `RemoteWasRehearsed` and `RemoteMigrationsAreGuarded` assume `~EditsAnyTime`;
the configuration `GuardWindow` shows why.

The invariants were tried on a run, as invariants or on the states they speak of, before they were
proved. The proofs assume what the modules name, and TLC evaluates these assumptions in the runs:
`CalendarAssumption`, `SubscriptionAssumption`, `RowAssumption` (no row is the value that stands for
none), `LedgerAssumption`, `ImportAssumption` (a row resembles an equal one, a preview lives for some
time, the stand-ins for a file or key are none), `BatchAssumption` (no batch is the value that stands
for none), `PreviewsAssumption` (ids are finitely many numbers, days are numbers),
`InstallmentAssumption`, `EntryAssumption` and `BudgetAssumption` (the constants of
quick entry and of the limits), `PagesAssumption` (sizes and bounds of the list page),
`ScheduleAssumption` (a month has 1 to 31 days), `RecoveryAssumption` (the guard's constants) and
`BackupsAssumption` (ids are finitely many, installments 2 to 60, and what the migrations seed and an
older version left would itself be accepted by the restore).

Only model-checked, with the reason:

- all liveness (`CatchUpCompletes`, `CancellationsClose`, `PageSettles`): it needs fairness and
  ENABLED, out of this prover's reach;
- `ReadAsWritten` and `ExportReadsBack`: inductions over files, with tables written by flattening
  sequences;
- `ComparisonsAreLikeForLike`: the lengths of Gregorian months and years, over sequences of periods;
- `FiguresReconcile`: sums over sets by folds, of which the provers know nothing;
- `BackupRestores` as a whole: the order in which linked transactions are inserted is found by a
  recursive sort, totals are folds (that the backup is accepted and complete is proved).

## Findings

1. **One plan starves the others** (`stuck_plan`, `subscriptions.ts:295`). The trigger that validates
   an occurrence also runs when the insert becomes an update. If the owner changed the date or
   direction of a charge, cancelled the plan and resumed it at that date, the batch aborts,
   `generateDue` throws, and in each later run the plans behind it are not reached and nothing is closed.
2. **A committed import can become a preview again** (`import_expiry`, `csv-imports.ts:615`).
   `stagePreview` decides on a read and writes by id alone. A commit that began before the preview
   expired may finish in between; its status and row sources are overwritten while its transactions stay.
3. **A row nobody can decide** (`import_review`, `CsvImportSettings.tsx:75`). A row that exactly
   repeats an imported transaction needs a decision, but has no match (or its match is already
   claimed); the page neither offers nor sends one, so every commit of that preview is refused.
4. **A backup that cannot be restored** (`backup_moved`, `full-json-restore.ts:241`). The restore
   requires every charge of a plan to be an outflow on its scheduled date, but the owner may correct
   either; from then on every backup of that ledger is refused by the restore and the remote
   migration guard with it.

## Other disagreements

Met while modelling, smaller, each with a configuration that shows it:

| Configuration | Module | What it shows |
|---|---|---|
| `Euro.cfg` (`tlc -continue`) | `MCCsvPreview` | A purchase in EUR that is already recorded is not recognised (`EveryCurrencyIsMatched`): the comparison with the ledger (`csv-imports.ts:296` and `:328`) drops every currency but CAD and USD, the parser takes any (regional-configuration/spec.md:41). `selectedRowPayload` (`csv-imports.ts:747`) throws for such a row, and its preview can never be committed (`ValidRowsCanBeCommitted`) |
| `PageStuck.cfg` | `MCTransactionPages` | Applying the filters that are already shown sets the list to loading (`useTransactions.ts:50`), React keeps the search, no request is made, and the page loads until another navigation |
| `LongRange.cfg` | `MCReportPeriods` | A range of 730 days whose copy of a year before holds a February 29 is accepted and then refused for its comparison (`financial-reporting.ts:358`) |
| `BackupNames.cfg` | `MCBackups` | `normalized_name` of a category is neither exported nor recomputed (`full-json-restore.ts:299`): a restored ledger accepts a second category of an equivalent name |
| `GuardWindow.cfg` | `MCMigrationGuard` | A migration file saved after the second digest and before wrangler reads the directory is applied remotely without a rehearsal (`migrate-remote.mjs:163`) |
| `EntryNotices.cfg` (`tlc -continue`) | `MCQuickEntry` | Escape dismisses the confirmation while its write runs (`NewMerchantConfirmation.tsx:122`, the Cancel button is disabled): the page shows the form as cancelled and the purchase is recorded (`EveryCancelWritesNothing`). An answer lost after the write is reported as "nothing was written" (`QuickEntryPage.tsx:136`, `EveryNoticeIsTrue`); trying again records the purchase twice, `POST /transactions` has no request id |

Also in the models, without a statement of the program they contradict: a row that was `VALID` in its
preview stays selected when the owner records the same purchase by hand before the commit
(`csv-imports.ts:1125`); a revision by hand leaves `category_rule_id` behind
(`manual-transactions.ts:605`); two renames that meet on one merchant are stopped by the unique index
only, as an internal error (`merchant-rules.ts:642`).

## Abstractions

- Dates are (month, day) pairs in a calendar whose month lengths are a constant, or numbers where
  only their order matters; time zones are taken as given (`ledgerDate`).
- Of a plan: status, next date, anchor, cancellation date, amount, version. Name, account, category
  and currency behave like the amount (terms copied into a charge). `PAUSED` and yearly plans are
  never written by the current code.
- Of a charge: status, amount, and whether it still is an outflow on its scheduled date, which is all
  the trigger looks at that an owner's edit may change (migration 0016 dropped the other conditions of 0015).
- `Create` of `Subscriptions` is one action: its insert does nothing when the plan exists, so the
  reads around it decide nothing.
- Requests refused before they write (bad input, stale versions, other keys) change nothing and are
  not actions; what they would read is.
- Characters of a statement are the ones the parser tells apart, one other of one byte and one of two.
- `CsvImports` takes rows as values; parsing, mapping, `INVALID` rows and the limit of 10 candidates
  are in `CsvParser` and `CsvPreview`. `Revise` replaces the values of a transaction as a whole; that
  an edited description keeps the normalized merchant of the old one is not represented.
- A digest of files, a checksum of a content and the scope of a cursor are the thing itself.
- `ImportsKeepTheirRows` and `FinalBeforeExpiry` say `now < Lifetime`, although `imports` goes on
  past it; `import_expiry` shows why that is needed, and `OnlyRefreshesReopen` (see
  [proofs](#proofs)) that nothing else is to blame. `BackupRestores` leaves moved charges to `backup_moved`.
  `RemoteIsRehearsed` assumes that nobody edits a migration after the second digest (`EditsAnyTime`);
  the configuration `GuardWindow` drops this. `NoticesAreTrue` exempts the entries in `untold`;
  `EntryNotices` states it of every entry.
- Of the form of `QuickEntry` the merchant stands for all fields. Going offline really loses only the
  uncontrolled ones (merchant, account, date, installments) and keeps the amount, currency and direction, which
  are state of the page; the form cannot be submitted before the merchant is typed again. What is
  typed ahead, or lost by going offline, is lost by the code too: no property says otherwise. A name of a
  category, a rule and a suggestion are the category.
- D1 batches are atomic and serial; single calls see the latest state.

## Not modelled

- Request pipeline: each request is admitted or refused by its own headers, assertion and token and
  leaves nothing behind; token verification is cryptography. What the routes do behind it is modelled.
- Service worker: a cache of the page and its versioned assets; it keeps nothing of the ledger, and
  its policy is a function of one request.
- Overview, transaction detail and settings pages of the client, beyond the requests they make; the
  dialogue in which columns are mapped; charts, texts, languages.
- The table of merchant families and the e-transfer patterns: data. A family is a constant of the
  models that use it.
- Overflow of sums beyond 2^53 (`checkedAdd` throws) and `detectDestructiveMigrations`, which only
  fills the audit output.
- Logging and the environment: formatting and validation without state.

## Plan

Done: the calendar, subscriptions with their abstract specification, imports in three stages, ledger
transactions with rules, installments, reports, budgets, list pages, quick entry, CSV and JSON
export, restore, and the migration guard; proofs of the subscriptions (refinement included), ledger
transactions, imports, previews, installments, limits, quick entry, list pages, the export of a list,
the migration guard, and of backups the round trip and their acceptance.

Next, in this order:

1. Composition of `LedgerTransactions`, `Subscriptions` and `CsvImports` over one table of
   transactions, in place of the abstractions `EditCharge`, `Record` and `Revise` each uses now.
2. An abstract import, a function from decided rows to ledger entries, which `CsvImports` implements
   while no preview expires.
3. The subscriptions and detail pages of the client, as `Budgets` and `QuickEntry` are modelled.
