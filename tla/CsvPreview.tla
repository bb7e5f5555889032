----------------------------- MODULE CsvPreview -----------------------------
(***************************************************************************)
(* From the rows of a statement to the preview its owner decides on        *)
(* (packages/domain/src/csv-import.ts, mappingIndexes to                   *)
(* applyExistingMatches; POST /imports/csv of apps/web/worker/index.ts;    *)
(* the reads of packages/persistence/src/csv-imports.ts), and the test the *)
(* commit applies to each selected row.                                    *)
(*                                                                         *)
(* Three reads of the ledger run side by side while the ledger changes.    *)
(* A cell is its parsed value: 0 stands for a date, -1 for an amount and   *)
(* "" for a text that does not pass the check of its field.                *)
(***************************************************************************)
EXTENDS Integers, Sequences, FiniteSets, SequencesExt

CONSTANTS
    Statements,   \* what may be uploaded: [rbc, lines]
    Ledger,       \* the transactions that may be recorded, by id
    References,   \* the names and ids of active editable categories
    Candidates,   \* the most candidates kept for a row (10)
    MaxChanges    \* bound: changes of the ledger while a preview is made

None == "none"
Ids == DOMAIN Ledger

\* A statement is a sequence of lines, and a day is a number.
PreviewAssumption ==
    /\ Candidates \in Nat \ {0} /\ MaxChanges \in Nat
    /\ Ids \subseteq Nat /\ IsFiniteSet(Ids)
    /\ \A id \in Ids : Ledger[id].day \in Nat
    /\ \A s \in Statements :
          /\ s.lines \in Seq({s.lines[n] : n \in DOMAIN s.lines})
          /\ \A n \in DOMAIN s.lines : s.lines[n].day \in Nat

VARIABLES
    phase,      \* "parsing", "reading", "marked", "staged", "refused", "committed", "failed"
    statement,  \* the upload
    preview,    \* the rows of the CsvImportPreview
    read,       \* what each of the three reads returned, <<>> before it did
    posted,     \* ids of transactions with status POSTED
    merged,     \* ids that a committed row was merged into
    steady,     \* history: ids posted, and unmerged, ever since the upload
    changes     \* history: changes of the ledger since the upload

vars == <<phase, statement, preview, read, posted, merged, steady, changes>>

-----------------------------------------------------------------------------
(* Lines to raw rows.                                                      *)

Empty == [day |-> 0, text |-> "", merchant |-> None, amount |-> -1, flow |-> "",
          currency |-> "", account |-> "", category |-> None]

(* readMappedRow: the cells of the mapped columns.                          *)
ReadMapped(line) == [f \in DOMAIN Empty |-> line[f]]

(* readRbcRow: exactly one of the two amount columns, its sign the direction. *)
ReadRbc(line) ==
    LET signed == line.cad \o line.usd
        one    == Len(signed) = 1
        valid  == one /\ signed[1].amount # -1
    IN  [Empty EXCEPT
           !.day = line.day, !.text = line.text,
           !.amount   = IF valid THEN signed[1].amount ELSE -1,
           !.flow     = IF ~valid THEN "" ELSE IF signed[1].minus THEN "OUTFLOW" ELSE "INFLOW",
           !.currency = IF ~one THEN "" ELSE IF line.cad # <<>> THEN "CAD" ELSE "USD",
           !.account  = CASE line.type = "Visa" -> "RBC Credit"
                          [] line.type = "Chequing" -> "RBC Debit"
                          [] OTHER -> ""]

Raw(s, line) ==
    IF s.rbc THEN IF line.whole THEN ReadRbc(line) ELSE Empty
    ELSE ReadMapped(line)

Centesimal == {"CAD", "USD", "EUR"}

(* validateRow, and the corrections of its caller: the fields in error.     *)
FieldErrors(raw) ==
    {f \in DOMAIN Empty :
        \/ f = "day" /\ raw.day = 0
        \/ f = "text" /\ raw.text = ""
        \/ f = "amount" /\ raw.amount = -1
        \/ f = "flow" /\ raw.flow \notin {"INFLOW", "OUTFLOW"}
        \/ f = "currency" /\ raw.currency \notin Centesimal
        \/ f = "account" /\ raw.account = ""}

RowErrors(s, line) ==
    LET errors == FieldErrors(Raw(s, line))
    IN  (IF s.rbc /\ errors \cap {"amount", "currency"} # {} THEN errors \ {"flow"} ELSE errors)
           \cup (IF line.whole THEN {} ELSE {"row"})

(* canonicalImportRowKey: neither the merchant nor the category is part.    *)
Key(r) == <<r.day, r.amount, r.flow, r.currency, r.text, r.account>>

-----------------------------------------------------------------------------
(* The preview, and the three marks put on it.                             *)

Ordinal(s, n) ==
    Cardinality({m \in 1..n : /\ RowErrors(s, s.lines[m]) = {}
                              /\ Key(Raw(s, s.lines[m])) = Key(Raw(s, s.lines[n]))})

Invalid(raw, errors, n) ==
    [raw |-> raw, errors |-> errors, number |-> n, status |-> "INVALID",
     fingerprint |-> <<>>, evidence |-> None, match |-> <<>>]

(* parseCsvPreview, one row.                                                *)
ParsedRow(s, n) ==
    LET raw     == Raw(s, s.lines[n])
        ordinal == Ordinal(s, n)
    IN  IF RowErrors(s, s.lines[n]) # {} THEN Invalid(raw, RowErrors(s, s.lines[n]), n + 1)
        ELSE [raw |-> raw, errors |-> {}, number |-> n + 1,
              status   |-> IF ordinal > 1 THEN "DUPLICATE" ELSE "VALID",
              fingerprint |-> <<Key(raw), ordinal>>,
              evidence |-> IF ordinal > 1 THEN "SUSPECTED_SAME_FILE" ELSE None,
              match |-> <<>>]

Parsed(s) == [n \in DOMAIN s.lines |-> ParsedRow(s, n)]

(* applyActiveCategoryReferences *)
WithReferences(rows, references) == [n \in DOMAIN rows |->
    IF rows[n].raw.category \in references \cup {None} THEN rows[n]
    ELSE Invalid(rows[n].raw, rows[n].errors \cup {"category"}, rows[n].number)]

(* applySuspectedDuplicateKeys *)
WithSuspects(rows, keys) == [n \in DOMAIN rows |->
    IF rows[n].status = "VALID" /\ rows[n].fingerprint[1] \in keys
    THEN [rows[n] EXCEPT !.evidence = "SUSPECTED_EXISTING", !.status = "DUPLICATE"]
    ELSE rows[n]]

(* applyExistingMatches *)
WithMatches(rows, matches) == [n \in DOMAIN rows |->
    IF n \notin DOMAIN matches \/ rows[n].status = "INVALID" THEN rows[n]
    ELSE [rows[n] EXCEPT
            !.evidence = IF @ = "SUSPECTED_SAME_FILE" THEN @ ELSE "SUSPECTED_EXISTING",
            !.match = <<matches[n]>>, !.status = "DUPLICATE"]]

-----------------------------------------------------------------------------
(* The reads.                                                              *)

Native == {"CAD", "USD"}

SameTerms(raw, tx) ==
    /\ raw.amount = tx.amount /\ raw.flow = tx.flow
    /\ raw.currency = tx.currency /\ raw.account = tx.account

\* Mutant of SuspectedKeys: a transaction already reconciled is left out.
UnmergedKeys(rows) ==
    {Key(Ledger[id]) : id \in {i \in posted \ merged : Ledger[i].currency \in Native}}
        \cap {Key(rows[n].raw) : n \in {m \in DOMAIN rows : rows[m].status = "VALID"}}

(* findSuspectedDuplicateKeys: rows of the ledger in the two currencies.    *)
SuspectedKeys(rows) ==
    {Key(Ledger[id]) : id \in {i \in posted : Ledger[i].currency \in Native}}
        \cap {Key(rows[n].raw) : n \in {m \in DOMAIN rows : rows[m].status = "VALID"}}

Merchant(r) == IF r.merchant = None THEN r.text ELSE r.merchant

Distance(raw, tx) == IF raw.day > tx.day THEN raw.day - tx.day ELSE tx.day - raw.day

(* merchantExact or descriptionExact; an owner's rule only names the former. *)
IsEvidence(raw, tx) ==
    \/ Merchant(raw) = Merchant(tx)
    \/ Distance(raw, tx) = 0 /\ raw.text = tx.text

Similar(row) ==
    {id \in posted \ merged :
        /\ row.status # "INVALID" /\ row.raw.currency \in Native
        /\ SameTerms(row.raw, Ledger[id]) /\ Distance(row.raw, Ledger[id]) <= 3
        /\ IsEvidence(row.raw, Ledger[id])}

Manual(ids) == {id \in ids : Ledger[id].source = "MANUAL"}

\* Mutant of IsAutomatic: an equal row of an earlier statement does not stop it.
IsAutomaticManual(rows, n) ==
    /\ Cardinality(Manual(Similar(rows[n]))) = 1
    /\ \A m \in DOMAIN rows \ {n} :
          Manual(Similar(rows[m])) \cap Manual(Similar(rows[n])) = {}
    /\ rows[n].evidence # "SUSPECTED_SAME_FILE"

(* The disposition: one manual candidate, that no other row claims, and no  *)
(* similar transaction of another source.                                   *)
IsAutomatic(rows, n) ==
    /\ Cardinality(Manual(Similar(rows[n]))) = 1
    /\ \A m \in DOMAIN rows \ {n} :
          Manual(Similar(rows[m])) \cap Manual(Similar(rows[n])) = {}
    /\ Similar(rows[n]) = Manual(Similar(rows[n]))
    /\ rows[n].evidence # "SUSPECTED_SAME_FILE"

(* findExistingMatches: at most Candidates of them, in the order of the ids. *)
ExistingMatches(rows) ==
    [n \in {m \in DOMAIN rows : Manual(Similar(rows[m])) # {}} |->
        [candidates  |-> {id \in Manual(Similar(rows[n])) :
            Cardinality({o \in Manual(Similar(rows[n])) : o < id}) < Candidates},
         disposition |-> IF IsAutomatic(rows, n) THEN "AUTO_MERGE_EXISTING"
                         ELSE "SUSPECTED_EXISTING"]]

-----------------------------------------------------------------------------

NotRead == [categories |-> <<>>, keys |-> <<>>, matches |-> <<>>]

Init ==
    /\ phase = "parsing"
    /\ statement \in Statements
    /\ preview = <<>>
    /\ read = NotRead
    /\ posted \in SUBSET Ids
    /\ merged \in SUBSET {id \in posted : Ledger[id].source = "MANUAL"}
    /\ steady = posted
    /\ changes = 0

Upload ==
    /\ phase = "parsing"
    /\ preview' = Parsed(statement)
    /\ phase' = "reading"
    /\ UNCHANGED <<statement, read, posted, merged, steady, changes>>

(* One of the reads of Promise.all answers; all three work on the parsed    *)
(* preview.                                                                 *)
Answer(name) ==
    /\ phase = "reading"
    /\ read[name] = <<>>
    /\ read' = [read EXCEPT ![name] =
         CASE name = "categories" -> <<References>>
           [] name = "keys" -> <<SuspectedKeys(preview)>>
           [] name = "matches" -> <<ExistingMatches(preview)>>]
    /\ UNCHANGED <<phase, statement, preview, posted, merged, steady, changes>>

Mark ==
    /\ phase = "reading"
    /\ \A name \in DOMAIN read : read[name] # <<>>
    /\ preview' = WithMatches(
                    WithSuspects(WithReferences(preview, read.categories[1]),
                                 read.keys[1]),
                    read.matches[1])
    /\ phase' = "marked"
    /\ UNCHANGED <<statement, read, posted, merged, steady, changes>>

CountOf(rows, status) == Cardinality({n \in DOMAIN rows : rows[n].status = status})

Stageable(rows) ==
    /\ CountOf(rows, "VALID") + CountOf(rows, "INVALID") + CountOf(rows, "DUPLICATE") = Len(rows)
    /\ \A n \in DOMAIN rows : rows[n].status # "INVALID" => rows[n].fingerprint # <<>>

(* stagePreview, after assertStageInput.                                    *)
Stage ==
    /\ phase = "marked"
    /\ phase' = IF Stageable(preview) THEN "staged" ELSE "refused"
    /\ UNCHANGED <<statement, preview, read, posted, merged, steady, changes>>

(* The rows a commit imports: the VALID ones, and those the owner decides   *)
(* to import as new.                                                        *)
Selected(rows, decided) ==
    {n \in DOMAIN rows : rows[n].status = "VALID"} \cup decided

(* selectedRowPayload throws READ_FAILED, and with it the commit, when a    *)
(* selected row is not in one of the two currencies.                        *)
Commit(decided) ==
    /\ phase = "staged"
    /\ decided \subseteq {n \in DOMAIN preview : preview[n].status = "DUPLICATE"}
    /\ phase' = IF \A n \in Selected(preview, decided) : preview[n].raw.currency \in Native
                THEN "committed" ELSE "failed"
    /\ UNCHANGED <<statement, preview, read, posted, merged, steady, changes>>

(* The ledger while the reads run: another tab records, removes or merges.  *)
Change ==
    /\ phase = "reading"
    /\ changes < MaxChanges
    /\ changes' = changes + 1
    /\ \/ /\ \E id \in Ids \ posted : posted' = posted \cup {id}
          /\ UNCHANGED <<merged, steady>>
       \/ /\ \E id \in posted : posted' = posted \ {id} /\ steady' = steady \ {id}
          /\ UNCHANGED merged
       \/ /\ \E id \in Manual(posted) \ merged :
                merged' = merged \cup {id} /\ steady' = steady \ {id}
          /\ UNCHANGED posted
    /\ UNCHANGED <<phase, statement, preview, read>>

Next ==
    \/ Upload \/ Mark \/ Stage \/ Change
    \/ \E name \in DOMAIN NotRead : Answer(name)
    \/ \E decided \in SUBSET DOMAIN preview : Commit(decided)

Spec == Init /\ [][Next]_vars

-----------------------------------------------------------------------------
(* Properties *)

Done == phase \in {"staged", "refused", "committed", "failed"}

(* Every row has a status, and its marks are those of its status.           *)
TypeOK ==
    /\ phase \in {"parsing", "reading", "marked", "staged", "refused", "committed", "failed"}
    /\ merged \subseteq Ids /\ posted \subseteq Ids /\ steady \subseteq posted
    /\ changes \in 0..MaxChanges
    /\ \A n \in DOMAIN preview :
          /\ preview[n].number = n + 1
          /\ preview[n].status \in {"VALID", "INVALID", "DUPLICATE"}
          /\ (preview[n].status = "DUPLICATE") = (preview[n].evidence # None)
          /\ (preview[n].status = "INVALID") = (preview[n].errors # {})

(* A row that would be imported without a question is not in the ledger     *)
(* already, as far as the ledger held still during the preview, and stands  *)
(* for no other such row of its file                                        *)
(* (specs/data-portability/spec.md:33, a suspected duplicate is flagged).   *)
NoSilentDuplicate ==
    Done => \A n \in DOMAIN preview :
        (preview[n].status = "VALID" /\ preview[n].raw.currency \in Native) =>
            /\ \A id \in steady : Key(Ledger[id]) # Key(preview[n].raw)
            /\ \A m \in DOMAIN preview \ {n} : preview[m].status = "VALID" =>
                   Key(preview[m].raw) # Key(preview[n].raw)

(* The same for every currency a statement may hold                         *)
(* (regional-configuration/spec.md:41, EUR "exactly as CAD and USD are").   *)
EveryCurrencyIsMatched ==
    Done => \A n \in DOMAIN preview : preview[n].status = "VALID" =>
        \A id \in steady : Key(Ledger[id]) # Key(preview[n].raw)

(* A row is merged without a question only when nothing is open to doubt:   *)
(* one manual transaction with the same terms within three days, which no   *)
(* other row of the preview may be, and no other transaction is as similar, *)
(* nor is the row a repeat of another (design.md:514).                      *)
AutoMergeIsUnambiguous ==
    Done => \A n \in DOMAIN preview :
        LET row   == preview[n]
            alike == {id \in steady \ merged :
                        /\ SameTerms(row.raw, Ledger[id])
                        /\ Distance(row.raw, Ledger[id]) <= 3
                        /\ \/ Merchant(row.raw) = Merchant(Ledger[id])
                           \/ Key(row.raw) = Key(Ledger[id])}
        IN  (row.match # <<>> /\ row.match[1].disposition = "AUTO_MERGE_EXISTING") =>
               /\ \E id \in Manual(Ids) :
                     /\ row.match[1].candidates = {id}
                     /\ SameTerms(row.raw, Ledger[id]) /\ Distance(row.raw, Ledger[id]) <= 3
                     /\ \/ Merchant(row.raw) = Merchant(Ledger[id])
                        \/ Key(row.raw) = Key(Ledger[id])
               /\ alike \subseteq row.match[1].candidates
               /\ \A m \in DOMAIN preview \ {n} :
                     /\ preview[m].match # <<>> =>
                           row.match[1].candidates \cap preview[m].match[1].candidates = {}
                     /\ preview[m].status # "INVALID" =>
                           (preview[m].number < row.number => Key(preview[m].raw) # Key(row.raw))

(* Whatever the statement holds, its preview passes the checks of staging;  *)
(* and no two rows share an identity, which the commit relies on when it    *)
(* tells a repeat submission from a new row.                                *)
PreviewIsStageable ==
    /\ phase # "refused"
    /\ \A m, n \in DOMAIN preview :
          (preview[n].status # "INVALID" /\ preview[m].fingerprint = preview[n].fingerprint)
              => m = n

(* A preview without errors can be committed                                *)
(* (regional-configuration/spec.md:41, EUR is accepted when imported).      *)
ValidRowsCanBeCommitted == phase # "failed"
=============================================================================
