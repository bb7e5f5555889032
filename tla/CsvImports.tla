----------------------------- MODULE CsvImports -----------------------------
(***************************************************************************)
(* Two-phase CSV import and its reconciliation with the owner's manual     *)
(* transactions (packages/persistence/src/csv-imports.ts, packages/domain/ *)
(* src/csv-import.ts, the /imports routes of apps/web/worker/index.ts and  *)
(* apps/web/src/features/settings/CsvImportSettings.tsx).                  *)
(*                                                                         *)
(* Uploading a file stages its rows in import_batches and import_rows,     *)
(* with what they resemble in the ledger; committing the batch creates or  *)
(* links a transaction per row.  Each request is several database calls,   *)
(* and requests run concurrently: a call, or an atomic batch of calls, is  *)
(* an action, and req[w] is what invocation w remembers between its awaits. *)
(* Rows that are INVALID are left out: both phases skip them.              *)
(***************************************************************************)
EXTENDS Integers, Sequences, FiniteSets

CONSTANTS
    Files,        \* files the owner uploads, one per content checksum
    Items,        \* the visible values of a transaction (canonicalImportRowKey)
    RowsOf,       \* [Files -> sequence of Items]
    Near,         \* pairs of items with the same money and account, at most
                  \* three days apart, with merchant or description evidence
    Workers,      \* concurrent invocations of the Worker
    Keys,         \* idempotency keys
    Lifetime,     \* time until a preview expires (30 minutes)
    MaxTime,      \* bound: the last instant
    MaxManual,    \* bound: manual transactions
    MaxVersion,   \* bound: versions of a transaction
    MaxStagings,  \* bound: versions of a batch that a new preview replaces
    NoBatch,      \* no row in import_batches
    NoFile,       \* in place of a file, for a manual transaction
    NoKey,        \* the key of a batch before its commit, preview:<checksum>
    NoTx          \* SQL NULL in import_rows.transaction_id

ASSUME ImportAssumption ==
    /\ RowsOf \in [Files -> Seq(Items)]
    /\ Near \subseteq Items \X Items
    /\ \A i \in Items : <<i, i>> \in Near
    /\ {MaxTime, MaxManual, MaxVersion, MaxStagings} \subseteq Nat
    /\ Lifetime \in Nat \ {0}
    /\ NoFile \notin Files
    /\ NoKey \notin Keys

VARIABLES
    now,     \* the clock
    batch,   \* tables import_batches and import_rows, by file
    tx,      \* table transactions, by id
    req      \* what each invocation is doing

vars == <<now, batch, tx, req>>

-----------------------------------------------------------------------------
(* Transactions.  A manual one has id <<NoFile, n>>; the one created for    *)
(* row r of a file has id <<file, r>> (csv-<batch>-<row>).                  *)
RowNumbers(f) == 1..Len(RowsOf[f])

ManualIds == {NoFile} \X (1..MaxManual)

ImportedIds == UNION {{f} \X RowNumbers(f) : f \in Files}

Occurrence(f, r) == Cardinality({k \in 1..r : RowsOf[f][k] = RowsOf[f][r]})

(* import_fingerprint: the item and its ordinal among the equal rows of a   *)
(* file, or, for a reviewed row imported as new, its own id as well.        *)
Canonical(f, r) == <<RowsOf[f][r], Occurrence(f, r), NoFile, 0>>

OwnerNew(f, r) == <<RowsOf[f][r], Occurrence(f, r), f, r>>

Transaction == [status : {"POSTED", "REMOVED"}, item : Items, version : Nat,
                fingerprint : {<<>>} \cup
                    {Canonical(t[1], t[2]) : t \in ImportedIds} \cup
                    {OwnerNew(t[1], t[2]) : t \in ImportedIds}]

IsPosted(t) == t \in DOMAIN tx /\ tx[t].status = "POSTED"

\* Mutant of MergedResolutions: merges chosen by the owner do not count.
AutoMergedOnly == {"AUTO_MERGED"}

MergedResolutions == {"AUTO_MERGED", "OWNER_MERGED"}

Committed(f) == batch[f] # NoBatch /\ batch[f].status = "COMMITTED"

IsMerged(row) == row.resolution \in MergedResolutions

(* Some committed row has been merged into t. *)
Claimed(t) == \E f \in Files :
    /\ Committed(f)
    /\ \E r \in RowNumbers(f) : batch[f].rows[r].tx = t /\ IsMerged(batch[f].rows[r])

-----------------------------------------------------------------------------
(* Staged rows.                                                             *)

(* A row of import_rows.  evidence "NONE" is validation status VALID, any   *)
(* other DUPLICATE; candidates are the staged <<id, version>> of the match. *)
Row == [evidence : {"NONE", "SAME_FILE", "EXISTING"},
        match : {"NONE", "AUTO", "REVIEW"},
        candidates : SUBSET (ManualIds \X Nat),
        resolution : {"UNRESOLVED", "IMPORTED_NEW", "SKIPPED_DUPLICATE",
                      "AUTO_MERGED", "OWNER_MERGED"},
        tx : ManualIds \cup ImportedIds \cup {NoTx}]

Batch == [status : {"PREVIEWED", "COMMITTED"}, expires : Nat, version : Nat,
          key : Keys \cup {NoKey}, rows : Seq(Row)]

ASSUME BatchAssumption == NoBatch \notin Batch

(* findSuspectedDuplicateKeys: rows that a transaction repeats exactly.     *)
Suspected(f) ==
    {r \in RowNumbers(f) :
        /\ Occurrence(f, r) = 1
        /\ \E t \in DOMAIN tx : tx[t].status # "REMOVED" /\ tx[t].item = RowsOf[f][r]}

IsNear(f, r, t) == IsPosted(t) /\ <<RowsOf[f][r], tx[t].item>> \in Near

(* findExistingMatches: the manual transactions row r may be merged into.   *)
Candidates(f, r) == {t \in ManualIds : IsNear(f, r, t) /\ ~Claimed(t)}

(* Exactly one candidate, that no other row claims, nothing imported nearby. *)
Automatic(f, r) ==
    /\ Cardinality(Candidates(f, r)) = 1
    /\ \A k \in RowNumbers(f) \ {r} : Candidates(f, k) \cap Candidates(f, r) = {}
    /\ ~\E t \in ImportedIds : IsNear(f, r, t)
    /\ Occurrence(f, r) = 1

Matches(f) ==
    [r \in RowNumbers(f) |->
        [candidates |-> {<<t, tx[t].version>> : t \in Candidates(f, r)},
         match |-> IF Candidates(f, r) = {} THEN "NONE"
                   ELSE IF Automatic(f, r) THEN "AUTO" ELSE "REVIEW"]]

(* A row as staged, from the answers of both queries.                       *)
StagedRow(f, r, suspected, found) ==
    [evidence |-> IF Occurrence(f, r) > 1 THEN "SAME_FILE"
                  ELSE IF found.match # "NONE" \/ r \in suspected THEN "EXISTING"
                  ELSE "NONE",
     match |-> found.match, candidates |-> found.candidates,
     resolution |-> "UNRESOLVED", tx |-> NoTx]

(* assertCommitDecisions: the rows a commit must decide.                    *)
NeedsDecision(row) == \/ row.evidence = "SAME_FILE"
                      \/ row.match = "REVIEW"
                      \/ row.evidence = "EXISTING" /\ row.match = "NONE"

(* The rows the settings page lets the owner decide, and includes in its    *)
(* request.                                                                 *)
IsOffered(row) == row.evidence = "SAME_FILE" \/ row.match = "REVIEW"

-----------------------------------------------------------------------------
Idle == [pc |-> "idle"]

Init ==
    /\ now = 0
    /\ batch = [f \in Files |-> NoBatch]
    /\ tx = [t \in {} |-> NoTx]
    /\ req = [w \in Workers |-> Idle]

Tick == now < MaxTime /\ now' = now + 1 /\ UNCHANGED <<batch, tx, req>>

(* POST /imports/csv asks both questions about the ledger at once, and they *)
(* are answered in either order; an answer is in a singleton once there.    *)
Asking(w, f) == IF req[w].pc = "idle"
                THEN [pc |-> "ask", file |-> f, suspected |-> {}, matches |-> {}]
                ELSE req[w]

(* The instant of a preview is taken once both answers are there.           *)
Answered(q) ==
    IF q.suspected = {} \/ q.matches = {} THEN q
    ELSE [pc |-> "stage", file |-> q.file, at |-> now,
          rows |-> [r \in RowNumbers(q.file) |->
                      StagedRow(q.file, r, UNION q.suspected,
                                (CHOOSE m \in q.matches : TRUE)[r])]]

CanAsk(w, f) == \/ req[w].pc = "idle"
                \/ req[w].pc = "ask" /\ req[w].file = f

ReadSuspected(w, f) ==
    /\ CanAsk(w, f)
    /\ Asking(w, f).suspected = {}
    /\ req' = [req EXCEPT
                 ![w] = Answered([Asking(w, f) EXCEPT !.suspected = {Suspected(f)}])]
    /\ UNCHANGED <<now, batch, tx>>

ReadMatches(w, f) ==
    /\ CanAsk(w, f)
    /\ Asking(w, f).matches = {}
    /\ req' = [req EXCEPT
                 ![w] = Answered([Asking(w, f) EXCEPT !.matches = {Matches(f)}])]
    /\ UNCHANGED <<now, batch, tx>>

IsExpired(b, at) == b.expires <= at

\* Mutant of Restageable: the status of the batch is not looked at.
RestageableByExpiry(b, at) == IsExpired(b, at) \/ b.status # "PREVIEWED"

Restageable(b, at) == b.status = "PREVIEWED" /\ IsExpired(b, at)

(* stagePreview reads the batch of the checksum: it replays an unexpired    *)
(* preview and refuses (CONFLICT) a batch that is no longer one.            *)
ReadBatch(w) ==
    LET b == batch[req[w].file]
    IN  /\ req[w].pc = "stage"
        /\ req' = [req EXCEPT ![w] =
                     IF b = NoBatch THEN [@ EXCEPT !.pc = "insert"]
                     ELSE IF Restageable(b, @.at) THEN [@ EXCEPT !.pc = "replace"]
                     ELSE Idle]
        /\ UNCHANGED <<now, batch, tx>>

Preview(r, key, version) ==
    [status |-> "PREVIEWED", expires |-> r.at + Lifetime, version |-> version,
     key |-> key, rows |-> r.rows]

(* content_checksum is unique: the second insert of a file fails.           *)
InsertPreview(w) ==
    LET f == req[w].file
    IN  /\ req[w].pc = "insert"
        /\ batch' = IF batch[f] = NoBatch
                    THEN [batch EXCEPT ![f] = Preview(req[w], NoKey, 1)] ELSE batch
        /\ req' = [req EXCEPT ![w] = Idle]
        /\ UNCHANGED <<now, tx>>

(* The statements that replace an expired preview name it by its id alone.  *)
ReplacePreview(w) ==
    LET f == req[w].file
    IN  /\ req[w].pc = "replace"
        /\ batch[f].version < MaxStagings
        /\ batch' = [batch EXCEPT ![f] = Preview(req[w], @.key, @.version + 1)]
        /\ req' = [req EXCEPT ![w] = Idle]
        /\ UNCHANGED <<now, tx>>

-----------------------------------------------------------------------------
(* POST /imports/:id/commit with the version of a preview.  Other requests  *)
(* (stale, expired, with a key in use) are refused here and change nothing; *)
(* a committed batch is replayed to the key that committed it.  The batch   *)
(* and the owner of the key are two reads, which the guard of Commit checks *)
(* again: reading them at once loses nothing.                               *)
BeginCommit(w, f, key) ==
    LET b == batch[f]
    IN  /\ req[w].pc = "idle"
        /\ b # NoBatch
        /\ b.status = "PREVIEWED"
        /\ ~IsExpired(b, now)
        /\ \A g \in Files \ {f} : batch[g] # NoBatch => batch[g].key # key
        /\ req' = [req EXCEPT ![w] = [pc |-> "decide", file |-> f, at |-> now,
                                      version |-> b.version, key |-> key]]
        /\ UNCHANGED <<now, batch, tx>>

(* The staged rows are read and the decisions of the request applied to     *)
(* them: import as new, merge into distinct candidates, or skip.            *)
Decide(w) ==
    LET b == batch[req[w].file]
        required == {r \in DOMAIN b.rows : NeedsDecision(b.rows[r])}
        automatic == {r \in DOMAIN b.rows : b.rows[r].match = "AUTO"}
    IN  /\ req[w].pc = "decide"
        /\ \E new \in SUBSET required : \E merged \in SUBSET (required \ new) :
           \E target \in [merged \cup automatic ->
                            UNION {b.rows[r].candidates : r \in DOMAIN b.rows}] :
              /\ \A r \in DOMAIN target : target[r] \in b.rows[r].candidates
              /\ \A r, k \in DOMAIN target : target[r][1] = target[k][1] => r = k
              /\ req' = [req EXCEPT ![w] =
                    [pc |-> "commit", file |-> @.file, at |-> @.at, version |-> @.version,
                     key |-> @.key, new |-> new, target |-> target,
                     valid |-> {r \in DOMAIN b.rows : b.rows[r].evidence = "NONE"}]]
        /\ UNCHANGED <<now, batch, tx>>

Selected(c) == c.valid \cup c.new

FingerprintOf(c, r) == IF r \in c.new THEN OwnerNew(c.file, r) ELSE Canonical(c.file, r)

Stored(fingerprint) == {t \in DOMAIN tx : tx[t].fingerprint = fingerprint}

\* Mutant of TargetsUnchanged: the version the owner has seen is not compared.
TargetsPresent(c) ==
    \A r \in DOMAIN c.target :
        LET t == c.target[r][1] IN IsPosted(t) /\ ~Claimed(t)

(* The transactions to merge into are as the owner has seen them and free.  *)
TargetsUnchanged(c) ==
    \A r \in DOMAIN c.target :
        LET t == c.target[r][1]
        IN  /\ IsPosted(t)
            /\ tx[t].version = c.target[r][2]
            /\ c.target[r] \in batch[c.file].rows[r].candidates
            /\ ~Claimed(t)

(* The guard of the atomic batch. *)
Committable(c) ==
    LET b == batch[c.file]
    IN  /\ b.status = "PREVIEWED"
        /\ b.version = c.version
        /\ ~IsExpired(b, c.at)
        /\ \A g \in Files \ {c.file} : batch[g] # NoBatch => batch[g].key # c.key
        /\ TargetsUnchanged(c)

(* Constraints that make the batch fail as a whole: the primary key of      *)
(* transactions, and one merged row per transaction.                        *)
ViolatesKeys(c) ==
    \/ \E r \in Selected(c) : /\ Stored(FingerprintOf(c, r)) = {}
                              /\ <<c.file, r>> \in DOMAIN tx
    \/ \E r \in DOMAIN c.target : \E f \in Files :
          /\ batch[f] # NoBatch
          /\ \E k \in DOMAIN batch[f].rows : /\ batch[f].rows[k].tx = c.target[r][1]
                                             /\ IsMerged(batch[f].rows[k])

Commits(c) == Committable(c) /\ ~ViolatesKeys(c)

(* The rows that get a transaction: ON CONFLICT(import_fingerprint) DO      *)
(* NOTHING leaves the others to the transaction that has their fingerprint. *)
Inserted(c) == {r \in Selected(c) : Stored(FingerprintOf(c, r)) = {}}

Imported(c, r) == [status |-> "POSTED", item |-> RowsOf[c.file][r], version |-> 1,
                   fingerprint |-> FingerprintOf(c, r)]

LedgerAfter(c) ==
    [t \in DOMAIN tx \cup {<<c.file, r>> : r \in Inserted(c)} |->
        IF t \in DOMAIN tx THEN tx[t] ELSE Imported(c, t[2])]

\* Mutant of NewlyImported: a row linked to an earlier transaction counts.
AnyImported(c, r) == TRUE

(* The transaction of a selected row is its own, and not an earlier one's.  *)
NewlyImported(c, r) == r \in Inserted(c) \/ Stored(FingerprintOf(c, r)) = {<<c.file, r>>}

Resolved(c, r) ==
    LET row == batch[c.file].rows[r]
    IN  IF r \in DOMAIN c.target
        THEN [row EXCEPT !.tx = c.target[r][1],
                         !.resolution = IF row.match = "AUTO" THEN "AUTO_MERGED"
                                                              ELSE "OWNER_MERGED"]
        ELSE IF r \notin Selected(c) THEN [row EXCEPT !.resolution = "SKIPPED_DUPLICATE"]
        ELSE [row EXCEPT
                !.tx = IF r \in Inserted(c) THEN <<c.file, r>>
                       ELSE CHOOSE t \in Stored(FingerprintOf(c, r)) : TRUE,
                !.resolution = IF NewlyImported(c, r) THEN "IMPORTED_NEW"
                                                      ELSE "SKIPPED_DUPLICATE"]

(* One atomic batch: guard, inserts, links, final state of the batch.       *)
Commit(w) ==
    LET c == req[w]
    IN  /\ req[w].pc = "commit"
        /\ Commits(c)
        /\ tx' = LedgerAfter(c)
        /\ batch' = [batch EXCEPT ![c.file].status = "COMMITTED", ![c.file].key = c.key,
                        ![c.file].version = @ + 1,
                        ![c.file].rows = [r \in DOMAIN @ |-> Resolved(c, r)]]
        /\ req' = [req EXCEPT ![w] = Idle]
        /\ UNCHANGED now

CommitRefused(w) ==
    /\ req[w].pc = "commit"
    /\ ~Commits(req[w])
    /\ req' = [req EXCEPT ![w] = Idle]
    /\ UNCHANGED <<now, batch, tx>>

(* An invocation ends early: a read fails, the decisions are refused, a     *)
(* category is gone, or the platform stops it.                              *)
Abandon(w) ==
    /\ req[w] # Idle
    /\ req' = [req EXCEPT ![w] = Idle]
    /\ UNCHANGED <<now, batch, tx>>

-----------------------------------------------------------------------------
(* Meanwhile the owner keeps the ledger (manual-transactions.ts).  A change *)
(* of category only (item unchanged) increments the version as well.        *)
Record(item) ==
    LET n == Cardinality(DOMAIN tx \cap ManualIds) + 1
    IN  /\ n <= MaxManual
        /\ tx' = [t \in DOMAIN tx \cup {<<NoFile, n>>} |->
                    IF t \in DOMAIN tx THEN tx[t]
                    ELSE [status |-> "POSTED", item |-> item, version |-> 1,
                          fingerprint |-> <<>>]]
        /\ UNCHANGED <<now, batch, req>>

Revise(t, item) ==
    /\ IsPosted(t)
    /\ tx[t].version < MaxVersion
    /\ tx' = [tx EXCEPT ![t].item = item, ![t].version = @ + 1]
    /\ UNCHANGED <<now, batch, req>>

Delete(t) ==
    /\ IsPosted(t)
    /\ tx[t].version < MaxVersion
    /\ tx' = [tx EXCEPT ![t].status = "REMOVED", ![t].version = @ + 1]
    /\ UNCHANGED <<now, batch, req>>

Owner == \/ \E item \in Items : Record(item)
         \/ \E t \in ManualIds : Delete(t) \/ \E item \in Items : Revise(t, item)

Upload(w) == \/ \E f \in Files : ReadSuspected(w, f) \/ ReadMatches(w, f)
             \/ ReadBatch(w) \/ InsertPreview(w) \/ ReplacePreview(w)

CommitRequest(w) == \/ \E f \in Files : \E key \in Keys : BeginCommit(w, f, key)
                    \/ Decide(w) \/ Commit(w) \/ CommitRefused(w)

Next == \/ Tick
        \/ \E w \in Workers : Upload(w) \/ CommitRequest(w) \/ Abandon(w)
        \/ Owner

Spec == Init /\ [][Next]_vars

-----------------------------------------------------------------------------
(* Properties.                                                              *)

(* Every table holds rows of its type, and every imported transaction the   *)
(* values of the row it was created for.                                    *)
TypeOK ==
    /\ now \in 0..MaxTime
    /\ \A f \in Files :
          batch[f] # NoBatch => batch[f] \in Batch /\ DOMAIN batch[f].rows = RowNumbers(f)
    /\ DOMAIN tx \subseteq ManualIds \cup ImportedIds
    /\ \A t \in DOMAIN tx : tx[t] \in Transaction
    /\ \A t \in DOMAIN tx \cap ImportedIds : tx[t].item = RowsOf[t[1]][t[2]]

(* "The import side and the target side must be one-to-one globally": no    *)
(* transaction is the counterpart of two bank rows, of one file or of       *)
(* several, however their previews and commits interleave.                  *)
MergedOnce ==
    \A f, g \in Files : \A r \in RowNumbers(f), k \in RowNumbers(g) :
        /\ Committed(f) /\ Committed(g) /\ <<f, r>> # <<g, k>>
        /\ batch[f].rows[r].resolution \in {"AUTO_MERGED", "OWNER_MERGED"}
        /\ batch[g].rows[k].resolution \in {"AUTO_MERGED", "OWNER_MERGED"}
        => batch[f].rows[r].tx # batch[g].rows[k].tx

(* The same occurrence of a bank row in two files, neither suspected when   *)
(* it was previewed, is imported once: both rows lead to one transaction.   *)
ValidRowsImportedOnce ==
    \A f, g \in Files : \A r \in RowNumbers(f), k \in RowNumbers(g) :
        /\ Committed(f) /\ Committed(g)
        /\ batch[f].rows[r].evidence = "NONE" /\ batch[g].rows[k].evidence = "NONE"
        /\ RowsOf[f][r] = RowsOf[g][k] /\ Occurrence(f, r) = Occurrence(g, k)
        => batch[f].rows[r].tx = batch[g].rows[k].tx

(* A commit counts a purchase once: no transaction is the counterpart of    *)
(* two bank rows, and one row found in two files leads to one transaction,  *)
(* however the previews and commits of the two interleave                   *)
(* (packages/persistence/src/csv-imports.ts, preview and commit).           *)
RowsCountedOnce == TypeOK /\ MergedOnce /\ ValidRowsImportedOnce

(* The merges of a step, if it commits some, fit the ledger of that moment. *)
MergeMatches ==
    \A f \in Files : \A r \in RowNumbers(f) :
        /\ batch'[f] # NoBatch /\ IsMerged(batch'[f].rows[r])
        /\ batch[f] = NoBatch \/ ~IsMerged(batch[f].rows[r])
        => IsNear(f, r, batch'[f].rows[r].tx)

(* A row is merged only into a transaction that is posted and still         *)
(* resembles it when the batch commits, although the evidence dates from    *)
(* the preview and the owner keeps editing the ledger.                      *)
MergesMatch == [][MergeMatches]_vars

(* A step leaves the committed batches as they are.                         *)
CommittedStays == \A f \in Files : Committed(f) => batch'[f] = batch[f]

(* "Never replaces a committed batch with preview staging rows": what a     *)
(* commit has recorded of its file and of each row stays.  The run          *)
(* import_expiry shows what becomes of it once a preview has expired.       *)
CommittedIsFinal == [][CommittedStays]_vars

(* The same while no preview can have expired yet.                          *)
FinalBeforeExpiry == [][now < Lifetime => CommittedStays]_vars

(* "Any failure leaves no partial transaction" and "retaining the import    *)
(* batch and row source": the imported transactions are exactly the         *)
(* IMPORTED_NEW rows of committed batches, each the only one of its own.    *)
ImportsAreRows ==
    /\ \A t \in DOMAIN tx \cap ImportedIds :
          /\ Committed(t[1])
          /\ batch[t[1]].rows[t[2]].resolution = "IMPORTED_NEW"
    /\ \A f \in Files : \A r \in RowNumbers(f) :
          Committed(f) /\ batch[f].rows[r].resolution = "IMPORTED_NEW"
              => batch[f].rows[r].tx = <<f, r>> /\ <<f, r>> \in DOMAIN tx

(* The imported transactions are those rows while no preview can have       *)
(* expired yet: a committed batch that is replaced breaks this, as the run  *)
(* import_expiry shows.                                                     *)
ImportsKeepTheirRows == now < Lifetime => ImportsAreRows

(* "Every SUSPECTED_EXISTING or SUSPECTED_SAME_FILE row must be decided row *)
(* by row before the commit": each row a commit requires a decision for is  *)
(* one the settings page offers to the owner.                               *)
EveryReviewRowIsOffered ==
    \A f \in Files :
        batch[f] # NoBatch /\ batch[f].status = "PREVIEWED"
        => \A r \in RowNumbers(f) :
              NeedsDecision(batch[f].rows[r]) => IsOffered(batch[f].rows[r])

=============================================================================
