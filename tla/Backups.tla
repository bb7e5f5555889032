------------------------------ MODULE Backups ------------------------------
(***************************************************************************)
(* The backup of a ledger as one JSON document, and the database restored  *)
(* from it:                                                                *)
(*   packages/persistence/src/full-json-export.ts    (readSnapshot)        *)
(*   packages/domain/src/full-json-export.ts         (limits and schema)   *)
(*   packages/persistence/src/full-json-restore.ts   (rules, SQL, evidence)*)
(*   scripts/restore-json-export.mjs                 (the restored totals) *)
(*   migrations 0001, 0008, 0010, 0014, 0016, 0017, 0021  (constraints)    *)
(*                                                                         *)
(* A database is a record of tables, a table a function from keys to rows. *)
(* The operations of the ledger are taken here with what they write, one   *)
(* database batch each; LedgerTransactions, Subscriptions and CsvImports   *)
(* have their interleavings.  A restored database takes the place of the   *)
(* one it was exported from and is used, and exported, further.            *)
(***************************************************************************)
EXTENDS Integers, Sequences, SequencesExt, FiniteSets, FiniteSetsExt, Functions

CONSTANTS
    Seeded,       \* the categories of a new database: names and kinds by id
    NewIds,       \* ids of categories to be created
    Names,        \* names the owner gives to categories
    NormalOf,     \* the normalized form of each name
    Legacy,       \* transactions of an older version of the program
    TxIds,        \* ids of transactions, in the order of the export
    GroupSizes,   \* numbers of installments
    Merchants, Plans, Dates, Months, Files,
    MaxEdits,     \* bound on the owner's changes
    MaxRecords, MaxTotal   \* RECORDS_PER_COLLECTION, TOTAL_RECORDS

SizeAssumption ==
    /\ IsFiniteSet(DOMAIN Seeded)
    /\ DOMAIN Legacy \subseteq TxIds /\ TxIds \subseteq Nat /\ IsFiniteSet(TxIds)
    /\ \A n \in GroupSizes : n \in 2..60
    /\ MaxEdits \in Nat /\ MaxRecords \in Nat /\ MaxTotal \in Nat

VARIABLES
    db,         \* the tables
    document,   \* the last export, or <<>>
    edits       \* changes of the owner

vars == <<db, document, edits>>

Null == <<>>

(* Exported tables in the order in which createFullJsonRestoreSql fills them.*)
Order == <<"categories", "budgets", "rules", "subs", "txs", "occs", "audits", "batches", "rows">>
Tables == ToSet(Order)

IsSystem(category) == category.system # Null
KindIn(tables, id) == tables.categories[id].kind

-----------------------------------------------------------------------------
(* The ledger in use.                                                      *)

Transaction(source, date, category) ==
    [source |-> source, date |-> date, direction |-> "OUTFLOW", amount |-> 3, reimbursed |-> 0,
     status |-> "POSTED", category |-> <<category>>, rule |-> Null, fingerprint |-> Null,
     group |-> Null, pending |-> Null]

(* A category with its normalized name, or without one.                    *)
Normalized(category, norm) ==
    [name |-> category.name, kind |-> category.kind, system |-> category.system, norm |-> norm]

(* A table with rows added, or put in the place of those it had.           *)
Written(rows, table) ==
    [k \in DOMAIN rows \cup DOMAIN table |-> IF k \in DOMAIN rows THEN rows[k] ELSE table[k]]
Put(key, row, table) == Written([k \in {key} |-> row], table)

(* The tables of a new database, or of one that an older version left.     *)
Begun ==
    [t \in Tables |-> CASE t = "categories" ->
                              [c \in DOMAIN Seeded |-> Normalized(Seeded[c], <<NormalOf[Seeded[c].name]>>)]
                         [] t = "txs" -> Legacy
                         [] OTHER -> <<>>]

Init == db = Begun /\ document = Null /\ edits = 0

FreshTx == TxIds \ DOMAIN db.txs
Usable == {c \in DOMAIN db.categories : db.categories[c].system # <<"UNCLASSIFIED">>}
Spendable == {c \in Usable : KindIn(db, c) = "EXPENSE"}
Owned(t) == db.txs[t].source = "MANUAL" /\ db.txs[t].status = "POSTED"
Insert(t, key, row) == [db EXCEPT ![t] = Put(key, row, @)]
Does(tables) == edits < MaxEdits /\ edits' = edits + 1 /\ db' = tables /\ UNCHANGED document

(* CategoryRepository.createExpense: the name is taken when the normalized *)
(* one is; the insert fails on an equal name.                              *)
CreateCategory ==
    \E id \in NewIds \ DOMAIN db.categories, name \in Names :
        /\ \A c \in DOMAIN db.categories :
              /\ db.categories[c].norm # <<NormalOf[name]>>
              /\ db.categories[c].name # name
        /\ Does(Insert("categories", id, [name |-> name, kind |-> "EXPENSE", system |-> Null,
                                          norm |-> <<NormalOf[name]>>]))

SetBudget ==
    \E c \in Spendable, m \in Months, limit \in {Null, <<5>>} :
        Does(Insert("budgets", <<c, m>>, [limit |-> limit]))

(* A purchase; the rule of its merchant, if there is one, classifies it.   *)
Record ==
    \E t \in FreshTx, d \in Dates, c \in Usable, m \in DOMAIN db.rules \cup {""} :
        Does(Insert("txs", t, IF m = "" THEN Transaction("MANUAL", d, c)
                              ELSE [Transaction("MANUAL", d, db.rules[m].category) EXCEPT !.rule = <<m>>]))

(* A purchase in n installments, each a transaction of its own.            *)
RecordInstallments ==
    \E n \in GroupSizes, c \in Usable, d \in Dates : \E ids \in kSubset(n, FreshTx) :
        LET nth(t) == Cardinality({s \in ids : s <= t})
            share(i) == [Transaction("MANUAL", d, c) EXCEPT
                            !.group = <<[id |-> Min(ids), number |-> i, count |-> n]>>]
        IN  Does([db EXCEPT !.txs = Written([t \in ids |-> share(nth(t))], @)])

(* A correction, remembered for the merchant or not; the trigger of 0010   *)
(* appends an audit.                                                       *)
Recategorize ==
    \E t \in DOMAIN db.txs, c \in Usable, rule \in {Null} \cup {<<m>> : m \in Merchants} :
        /\ db.txs[t].status = "POSTED"
        /\ <<c>> # db.txs[t].category \/ rule # db.txs[t].rule
        /\ LET audit == [tx |-> t, old |-> db.txs[t].category, new |-> <<c>>,
                         oldRule |-> db.txs[t].rule, newRule |-> rule]
               written == Insert("audits", Cardinality(DOMAIN db.audits) + 1, audit)
               ruled == IF rule = Null THEN written
                        ELSE [written EXCEPT !.rules = Put(rule[1], [category |-> c], @)]
           IN  Does([ruled EXCEPT !.txs[t].category = <<c>>, !.txs[t].rule = rule])

(* ManualTransactionRepository.update and delete.                          *)
Edit ==
    \E t \in DOMAIN db.txs :
        /\ Owned(t)
        /\ \/ \E d \in Dates : Does([db EXCEPT !.txs[t].date = d])
           \/ Does([db EXCEPT !.txs[t].direction = IF @ = "INFLOW" THEN "OUTFLOW" ELSE "INFLOW"])
           \/ Does([db EXCEPT !.txs[t].reimbursed = 1])

Delete ==
    \E t \in DOMAIN db.txs :
        /\ Owned(t)
        /\ Does([db EXCEPT !.txs[t].status = "REMOVED",
                           !.occs = [k \in DOMAIN @ |->
                               IF @[k].tx = t /\ @[k].status = "GENERATED"
                               THEN [@[k] EXCEPT !.status = "NOT_CHARGED", !.decided = TRUE]
                               ELSE @[k]]])

Subscribe ==
    \E p \in Plans \ DOMAIN db.subs, c \in Spendable, cutoff \in {Null} \cup {<<d>> : d \in Dates} :
        Does(Insert("subs", p, [category |-> c, cutoff |-> cutoff]))

(* SubscriptionRepository.generateOne: a new charge, or one posted again.  *)
Charge ==
    \E p \in DOMAIN db.subs, d \in Dates :
        \/ /\ <<p, d>> \notin DOMAIN db.occs
           /\ \E t \in FreshTx :
                 LET occurrence == [tx |-> t, status |-> "GENERATED", decided |-> FALSE]
                     charged == Insert("txs", t, Transaction("MANUAL", d, db.subs[p].category))
                 IN  Does([charged EXCEPT !.occs = Put(<<p, d>>, occurrence, @)])
        \/ /\ <<p, d>> \in DOMAIN db.occs /\ db.occs[<<p, d>>].status = "NOT_CHARGED"
           /\ Does([db EXCEPT
                 !.occs[<<p, d>>].status = "GENERATED", !.occs[<<p, d>>].decided = FALSE,
                 !.txs[db.occs[<<p, d>>].tx] = Transaction("MANUAL", d, db.subs[p].category)])

(* POST /imports/csv, and the commit of a preview of one row: imported,    *)
(* merged with a transaction not merged with before, or skipped.           *)
Preview ==
    \E f \in Files \ DOMAIN db.batches :
        Does([Insert("batches", f, [status |-> "PREVIEWED"]) EXCEPT
                 !.rows = Put(<<f, 2>>, [resolution |-> "UNRESOLVED", tx |-> Null, evidence |-> FALSE], @)])

CommitImport ==
    \E f \in DOMAIN db.batches :
        /\ db.batches[f].status = "PREVIEWED"
        /\ LET resolved(resolution, tx, evidence) ==
                  [db EXCEPT !.batches[f].status = "COMMITTED",
                             !.rows[<<f, 2>>] = [resolution |-> resolution, tx |-> tx, evidence |-> evidence]]
           IN  \/ \E t \in FreshTx, d \in Dates, c \in Usable :
                    Does([resolved("IMPORTED_NEW", <<t>>, FALSE) EXCEPT
                             !.txs = Put(t, [Transaction("CSV", d, c) EXCEPT !.fingerprint = <<f>>], @)])
               \/ \E t \in DOMAIN db.txs :
                    /\ Owned(t)
                    /\ \A k \in DOMAIN db.rows : db.rows[k].tx # <<t>>
                    /\ Does(resolved("OWNER_MERGED", <<t>>, TRUE))
               \/ Does(resolved("SKIPPED_DUPLICATE", Null, FALSE))

-----------------------------------------------------------------------------
(* The export.                                                             *)

(* The LIMIT of each SELECT of readSnapshot.                               *)
ReadUpTo == MaxRecords + 1

Exportable(t) ==
    CASE t = "batches" -> {k \in DOMAIN db.batches : db.batches[k].status = "COMMITTED"}
      [] t = "rows" -> {k \in DOMAIN db.rows : db.batches[k[1]].status = "COMMITTED"}
      [] OTHER -> DOMAIN db[t]

Selected(t) ==
    LET keys == Exportable(t)
    IN  IF Cardinality(keys) <= ReadUpTo THEN keys
        ELSE CHOOSE some \in kSubset(ReadUpTo, keys) : TRUE

Column(t, row) ==
    IF t = "categories" THEN [name |-> row.name, kind |-> row.kind, system |-> row.system] ELSE row

(* FullJsonExportRepository.readSnapshot, one batch of reads.              *)
Snapshot == [t \in Tables |-> [k \in Selected(t) |-> Column(t, db[t][k])]]

Count(tables, t) == Cardinality(DOMAIN tables[t])
WithinLimits(tables) ==
    /\ \A t \in Tables : Count(tables, t) <= MaxRecords
    /\ MapThenSumSet(LAMBDA t : Count(tables, t), Tables) <= MaxTotal

Export ==
    /\ document' = IF WithinLimits(Snapshot) THEN <<Snapshot>> ELSE document
    /\ UNCHANGED <<db, edits>>

-----------------------------------------------------------------------------
(* The restore: which documents it accepts.                                *)

Optional(t, value) == {<<t, v>> : v \in ToSet(value)}

(* The rows that a row of a table refers to.                               *)
References(t, key, row) ==
    CASE t = "budgets" -> {<<"categories", key[1]>>}
      [] t \in {"rules", "subs"} -> {<<"categories", row.category>>}
      [] t = "txs" -> Optional("categories", row.category) \cup Optional("rules", row.rule)
                         \cup Optional("txs", row.pending)
      [] t = "occs" -> {<<"subs", key[1]>>, <<"txs", row.tx>>}
      [] t = "audits" -> {<<"txs", row.tx>>}
                            \cup Optional("categories", row.old) \cup Optional("categories", row.new)
                            \cup Optional("rules", row.oldRule) \cup Optional("rules", row.newRule)
      [] t = "rows" -> {<<"batches", key[1]>>} \cup Optional("txs", row.tx)
      [] OTHER -> {}

Resolves(doc) ==
    \A t \in Tables : \A k \in DOMAIN doc[t] : \A r \in References(t, k, doc[t][k]) : r[2] \in DOMAIN doc[r[1]]

Distinct(rows, value(_)) ==
    \A i, j \in DOMAIN rows : value(rows[i]) = value(rows[j]) /\ value(rows[i]) # Null => i = j

Merged(row) == row.resolution \in {"AUTO_MERGED", "OWNER_MERGED"}

(* assertUniqueIds and the unique values of validateRestoreRelationships.  *)
HasUniqueValues(doc) ==
    /\ Distinct(doc.categories, LAMBDA c : <<c.name>>)
    /\ Distinct(doc.categories, LAMBDA c : c.system)
    /\ Distinct(doc.txs, LAMBDA t : t.fingerprint)
    /\ Distinct(doc.occs, LAMBDA o : <<o.tx>>)
    /\ Distinct(doc.rows, LAMBDA r : IF Merged(r) THEN r.tx ELSE Null)

HasSystemCategories(doc) ==
    /\ {doc.categories[c].system : c \in DOMAIN doc.categories} \ {Null} = {<<"TRANSFER">>, <<"UNCLASSIFIED">>}
    /\ \A c \in DOMAIN doc.categories :
          IF IsSystem(doc.categories[c]) THEN doc.categories[c].system = <<KindIn(doc, c)>>
          ELSE KindIn(doc, c) \in {"INCOME", "EXPENSE", "TRANSFER"}

SpendsOnly(doc) ==
    /\ \A k \in DOMAIN doc.budgets : KindIn(doc, k[1]) = "EXPENSE"
    /\ \A p \in DOMAIN doc.subs : KindIn(doc, doc.subs[p].category) = "EXPENSE"

Identified(doc) ==
    \A t \in DOMAIN doc.txs :
        /\ doc.txs[t].source = "CSV" => doc.txs[t].fingerprint # Null
        /\ doc.txs[t].rule # Null => doc.txs[t].category # Null

\* Mutant of Group: the installments still posted.
GroupPosted(doc, id) ==
    {t \in DOMAIN doc.txs : doc.txs[t].group # Null /\ doc.txs[t].group[1].id = id
                              /\ doc.txs[t].status = "POSTED"}

Group(doc, id) ==
    {t \in DOMAIN doc.txs : doc.txs[t].group # Null /\ doc.txs[t].group[1].id = id}

(* Each installment group is complete: one of each number up to its count. *)
HasWholeGroups(doc) ==
    \A t \in DOMAIN doc.txs : doc.txs[t].group # Null =>
        LET all == Group(doc, doc.txs[t].group[1].id)
            count == doc.txs[t].group[1].count
        IN  /\ Cardinality(all) = count
            /\ {doc.txs[s].group[1].number : s \in all} = 1..count
            /\ \A s \in all : doc.txs[s].group[1].count = count

ResolvesRows(doc) ==
    \A k \in DOMAIN doc.rows :
        /\ doc.rows[k].resolution = "IMPORTED_NEW" \/ Merged(doc.rows[k]) => doc.rows[k].tx # Null
        /\ Merged(doc.rows[k]) => doc.rows[k].evidence

(* The rules on occurrences, which the trigger of migration 0016 repeats.  *)
IsCharge(doc, key) ==
    LET occurrence == doc.occs[key]
        tx == doc.txs[occurrence.tx]
    IN  /\ tx.source = "MANUAL" /\ tx.direction = "OUTFLOW" /\ tx.date = key[2]
        /\ IF occurrence.status = "GENERATED" THEN ~occurrence.decided /\ tx.status = "POSTED"
           ELSE occurrence.decided /\ tx.status = "REMOVED"

HasNoCycle(doc) ==
    \A some \in (SUBSET DOMAIN doc.txs) \ {{}} :
        \E t \in some : \A p \in ToSet(doc.txs[t].pending) : p \notin some

(* validateRestoreRelationships                                            *)
Accepts(doc) ==
    /\ Resolves(doc) /\ HasUniqueValues(doc) /\ HasSystemCategories(doc) /\ SpendsOnly(doc)
    /\ Identified(doc) /\ HasWholeGroups(doc) /\ ResolvesRows(doc)
    /\ \A key \in DOMAIN doc.occs : IsCharge(doc, key)
    /\ HasNoCycle(doc)

(* What an older version left keeps the constraints of the migrations, and *)
(* has ids of its own.                                                     *)
BackupAssumption ==
    /\ SizeAssumption
    /\ Accepts(Begun)
    /\ \A t \in DOMAIN Legacy :
          /\ DOMAIN Legacy[t] = DOMAIN Transaction("MANUAL", 1, "") /\ Legacy[t].amount \in Int
          /\ Legacy[t].reimbursed \in Int
          /\ \A f \in Files : Legacy[t].fingerprint # <<f>>
          /\ Legacy[t].group # Null => Legacy[t].group[1].id \in DOMAIN Legacy

-----------------------------------------------------------------------------
(* The restore: what it inserts, and its evidence.                         *)

After(doc, t) ==
    LET after[u \in DOMAIN doc.txs] ==
            (IF doc.txs[u].pending = Null THEN <<>> ELSE after[doc.txs[u].pending[1]]) \o <<u>>
    IN  after[t]

ById(doc) == SelectSeq([t \in 1..Max(TxIds) |-> t], LAMBDA t : t \in DOMAIN doc.txs)

(* topologicallySortedTransactions                                         *)
Sorted(doc) ==
    FoldLeft(LAMBDA done, t : done \o SelectSeq(After(doc, t), LAMBDA s : s \notin ToSet(done)),
             <<>>, ById(doc))

(* Each insert refers to rows inserted before it (PRAGMA foreign_keys):    *)
(* of a table filled before, or of transactions sorted before.             *)
InsertsSucceed(doc) ==
    LET txs == Sorted(doc)
    IN  \A i \in DOMAIN Order : \A k \in DOMAIN doc[Order[i]] :
            \A r \in References(Order[i], k, doc[Order[i]][k]) :
                IF r[1] = Order[i]
                THEN \E m, n \in DOMAIN txs : m < n /\ txs[m] = r[2] /\ txs[n] = k
                ELSE \E j \in 1..(i - 1) : Order[j] = r[1]

\* Mutant of RestoredRow: columns added by later migrations are forgotten.
RestoredRowWithoutDeduction(t, row) ==
    CASE t = "categories" -> Normalized(row, Null)
      [] t = "txs" -> [row EXCEPT !.reimbursed = 0]
      [] OTHER -> row

(* The columns of createFullJsonRestoreSql; a category's normalized name   *)
(* is none of them.                                                        *)
RestoredRow(t, row) ==
    CASE t = "categories" -> Normalized(row, Null)
      [] OTHER -> row

(* The system categories stay those of the migrations.                     *)
Restored(doc) ==
    [t \in Tables |-> [k \in DOMAIN doc[t] |->
        IF t = "categories" /\ IsSystem(doc[t][k])
        THEN Normalized(doc[t][k], <<NormalOf[doc[t][k].name]>>)
        ELSE RestoredRow(t, doc[t][k])]]

Personal(tx) == tx.amount - tx.reimbursed

(* calculateFullJsonRestoreEvidence, the totals of one currency.           *)
Totals(doc) ==
    LET counted(kind) == {t \in DOMAIN doc.txs :
            /\ doc.txs[t].status = "POSTED" /\ doc.txs[t].category # Null
            /\ KindIn(doc, doc.txs[t].category[1]) = kind}
        total(kind, plus) ==
            MapThenSumSet(LAMBDA t : (IF doc.txs[t].direction = plus THEN 1 ELSE -1) * Personal(doc.txs[t]),
                          counted(kind))
    IN  [income |-> total("INCOME", "INFLOW"), spending |-> total("EXPENSE", "OUTFLOW")]

(* REPORT_QUERY of restore-json-export.mjs, of the restored tables.        *)
QueriedTotals(tables) ==
    LET joined == {t \in DOMAIN tables.txs : tables.txs[t].status = "POSTED" /\ tables.txs[t].category # Null}
        kind(t) == KindIn(tables, tables.txs[t].category[1])
        sign(t, plus) == IF tables.txs[t].direction = plus THEN Personal(tables.txs[t])
                         ELSE -Personal(tables.txs[t])
    IN  [income |-> MapThenSumSet(LAMBDA t : IF kind(t) = "INCOME" THEN sign(t, "INFLOW") ELSE 0, joined),
         spending |-> MapThenSumSet(LAMBDA t : IF kind(t) = "EXPENSE" THEN sign(t, "OUTFLOW") ELSE 0, joined)]

(* verifyFullJsonRestoreEvidence                                           *)
Verified(doc, tables) ==
    /\ \A t \in Tables : Count(tables, t) = Count(doc, t)
    /\ Resolves(tables)
    /\ QueriedTotals(tables) = Totals(doc)

RestoreSucceeds(doc) ==
    Accepts(doc) /\ InsertsSucceed(doc) /\ Verified(doc, Restored(doc))

(* db:restore, and its new database taken into use when it succeeds.       *)
Restore ==
    /\ document # Null
    /\ db' = IF RestoreSucceeds(document[1]) THEN Restored(document[1]) ELSE db
    /\ UNCHANGED <<document, edits>>

Next ==
    \/ CreateCategory \/ SetBudget \/ Record \/ RecordInstallments \/ Recategorize
    \/ Edit \/ Delete \/ Subscribe \/ Charge \/ Preview \/ CommitImport
    \/ Export \/ Restore

Spec == Init /\ [][Next]_vars

-----------------------------------------------------------------------------
(* No charge of a plan was given another date or direction.                *)
ChargesAsScheduled(doc) ==
    \A key \in DOMAIN doc.occs :
        doc.txs[doc.occs[key].tx].date = key[2] /\ doc.txs[doc.occs[key].tx].direction = "OUTFLOW"

(* A backup of any ledger the program can produce is accepted by its own   *)
(* restore, inserted without a broken reference and found complete, as     *)
(* long as no charge was moved (data-portability/spec.md of                *)
(* prune-legacy-sync-remnants, "A valid export is restored").              *)
BackupRestores ==
    document # Null /\ ChargesAsScheduled(document[1]) => RestoreSucceeds(document[1])

(* Claimed by the same scenario: every backup is restored.                 *)
EveryBackupRestores == document # Null => RestoreSucceeds(document[1])

(* A document holds every committed record of the ledger at one instant,   *)
(* or there is none (full-json-export.ts:280-286).                         *)
WholeDocument ==
    document' # document => \A t \in Tables : DOMAIN document'[1][t] = Exportable(t)

(* A database restored from a document exports that very document.         *)
SameDocument ==
    db' # db /\ edits' = edits =>
        \A t \in Tables :
            /\ Exportable(t)' = DOMAIN document[1][t]
            /\ \A k \in DOMAIN document[1][t] : Column(t, db'[t][k]) = document[1][t][k]

(* Claimed by merchant-categorization/spec.md:74 of                        *)
(* build-free-personal-ledger: no second category of an equivalent name,   *)
(* in a restored ledger either.                                            *)
NamesStayDistinct ==
    \A c, d \in DOMAIN db.categories :
        NormalOf[db.categories[c].name] = NormalOf[db.categories[d].name] => c = d
=============================================================================
