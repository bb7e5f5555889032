------------------------- MODULE LedgerTransactions -------------------------
(***************************************************************************)
(* Transactions, their categories and the owner's merchant rules           *)
(* (packages/persistence/src/manual-transactions.ts, category-overrides.ts,*)
(* merchant-rules.ts, TransactionRepository.setReimbursement, the          *)
(* /transactions and /merchant-rules routes of apps/web/worker/index.ts,   *)
(* TransactionDetailPage and RuleSettings of apps/web/src).                *)
(*                                                                         *)
(* The owner works in several tabs at once.  A tab shows a copy of one     *)
(* transaction or rule and writes with the version of that copy.  Most     *)
(* writes are one guarded UPDATE; remembering a correction and changing a  *)
(* rule read first and write later, and req[t] is what such a request has  *)
(* read.  Nothing deactivates a category, so every category is active.     *)
(***************************************************************************)
EXTENDS Integers, Sequences, FiniteSets

CONSTANTS
    Tabs,          \* the owner's tabs, each with at most one request
    Ids,           \* ids that new manual transactions take
    ImportedId,    \* a transaction that an import left unclassified
    RuleIds,       \* ids that new merchant rules take
    Names,         \* merchant names as written
    Merchants,     \* normalized merchants
    NormalOf,      \* [Names -> Merchants], normalizeMerchantName
    Editable,      \* categories the owner manages
    Transfer,      \* the system category TRANSFER
    Unclassified,  \* the system category UNCLASSIFIED
    MaxAmount,     \* bound: the largest amount
    MaxVersion,    \* bound: versions of a row
    NoRule,        \* SQL NULL for a rule id, and no row found
    Nothing        \* no page, no request

ASSUME LedgerAssumption ==
    /\ NormalOf \in [Names -> Merchants]
    /\ ImportedId \notin Ids
    /\ NoRule \notin RuleIds
    /\ {Transfer, Unclassified} \cap Editable = {}
    /\ MaxAmount \in Nat
    /\ MaxVersion \in Nat \ {0}

VARIABLES
    tx,       \* table transactions, by id
    rules,    \* table merchant_rules, by id
    audits,   \* table category_audits: the changes of each transaction
    page,     \* what each tab shows: a copy of a transaction or of a rule
    req,      \* the request of each tab that is between two database calls
    classes   \* history: what each transaction has been classified as, in order

vars == <<tx, rules, audits, page, req, classes>>

-----------------------------------------------------------------------------
(* Tables.                                                                 *)

Categories == Editable \cup {Transfer, Unclassified}

Class == [category : Categories, origin : {"MANUAL", "RULE", "UNCLASSIFIED"},
          rule : RuleIds \cup {NoRule}]

(* merchant_name and normalized_merchant are the name and NormalOf[name].   *)
Transaction == [source : {"MANUAL", "CSV"}, status : {"POSTED", "REMOVED"},
                amount : 0..MaxAmount, reimbursement : 0..MaxAmount, name : Names,
                class : Class, review : BOOLEAN, version : 1..MaxVersion]

Rule == [merchant : Merchants, name : Names, category : Categories,
         active : BOOLEAN, version : 1..MaxVersion]

ClassOf(category, origin, rule) ==
    [category |-> category, origin |-> origin, rule |-> rule]

Merchant(row) == NormalOf[row.name]

(* The row of a merchant: normalized_merchant is UNIQUE.                    *)
RuleFor(merchant) ==
    IF \E r \in DOMAIN rules : rules[r].merchant = merchant
    THEN CHOOSE r \in DOMAIN rules : rules[r].merchant = merchant
    ELSE NoRule

ActiveRuleFor(merchant) ==
    IF RuleFor(merchant) # NoRule /\ rules[RuleFor(merchant)].active
    THEN RuleFor(merchant) ELSE NoRule

(* What a lookup answers: the row with its id, or nothing.                  *)
Lookup(r) == IF r = NoRule THEN NoRule ELSE [id |-> r, row |-> rules[r]]

(* hasEditableCategory: what a correction or a rule may choose.             *)
IsCorrectable(category) == category \in Editable \cup {Transfer}

-----------------------------------------------------------------------------
(* How a row changes.                                                      *)

(* version = version + 1; the bound keeps the versions finite.              *)
Bumped(row) == [row EXCEPT !.version = @ + 1]

\* Mutant of Audited: only a change of the category itself is recorded.
AuditedCategoryOnly(t, class) ==
    IF tx[t].class.category = class.category THEN audits
    ELSE [audits EXCEPT ![t] = Append(@, [old |-> tx[t].class, new |-> class])]

(* The trigger transactions_append_category_audit.                          *)
Audited(t, class) ==
    IF tx[t].class = class THEN audits
    ELSE [audits EXCEPT ![t] = Append(@, [old |-> tx[t].class, new |-> class])]

(* An UPDATE of one transaction, with its trigger, answered to tab t, which *)
(* then shows the row it wrote.                                             *)
Writes(t, id, row) ==
    /\ row.version <= MaxVersion
    /\ tx' = [tx EXCEPT ![id] = row]
    /\ audits' = Audited(id, row.class)
    /\ page' = [page EXCEPT ![t].row = row]

\* Mutant of Matches: the version of the page is not compared.
MatchesAnyVersion(t, id) ==
    /\ req[t] = Nothing
    /\ page[t] # Nothing /\ page[t].kind = "TRANSACTION" /\ page[t].id = id

(* WHERE id = ? AND version = ?, with what the page of tab t shows.         *)
Matches(t, id) ==
    /\ req[t] = Nothing
    /\ page[t] # Nothing /\ page[t].kind = "TRANSACTION" /\ page[t].id = id
    /\ page[t].row.version = tx[id].version

-----------------------------------------------------------------------------
(* Pages.                                                                  *)

(* The detail page of a transaction, or the settings page's copy of a rule, *)
(* opened or refreshed.                                                     *)
OpenTransaction(t, id) ==
    /\ req[t] = Nothing
    /\ id \in DOMAIN tx
    /\ page' = [page EXCEPT ![t] = [kind |-> "TRANSACTION", id |-> id, row |-> tx[id]]]
    /\ UNCHANGED <<tx, rules, audits, req>>

OpenRule(t, r) ==
    /\ req[t] = Nothing
    /\ r \in DOMAIN rules
    /\ page' = [page EXCEPT ![t] = [kind |-> "RULE", id |-> r, row |-> rules[r]]]
    /\ UNCHANGED <<tx, rules, audits, req>>

-----------------------------------------------------------------------------
(* Manual transactions.                                                    *)

(* The rows of one purchase: one id, or one per installment, all alike.     *)
Purchase(ids, amount, reimbursement, name, class) ==
    [id \in ids |->
        [source |-> "MANUAL", status |-> "POSTED", amount |-> amount,
         reimbursement |-> reimbursement, name |-> name, class |-> class,
         review |-> FALSE, version |-> 1]]

(* Inserts add no audit: the trigger watches updates.                       *)
Inserts(ids, amount, reimbursement, name, class) ==
    LET new == Purchase(ids, amount, reimbursement, name, class) IN
    /\ ids \cap DOMAIN tx = {}
    /\ reimbursement <= amount
    /\ tx' = [id \in DOMAIN tx \cup ids |-> IF id \in ids THEN new[id] ELSE tx[id]]
    /\ audits' = [id \in DOMAIN tx \cup ids |-> IF id \in ids THEN <<>> ELSE audits[id]]

(* create without a category: an active rule of the merchant supplies it,   *)
(* else nothing is written (CATEGORY_CONFIRMATION_REQUIRED).                *)
Create(t, ids, amount, reimbursement, name) ==
    /\ req[t] = Nothing
    /\ ActiveRuleFor(NormalOf[name]) # NoRule
    /\ LET r == ActiveRuleFor(NormalOf[name])
       IN  Inserts(ids, amount, reimbursement, name,
                   ClassOf(rules[r].category, "RULE", r))
    /\ UNCHANGED <<rules, page, req>>

(* create with a category of the owner's, any active one.                   *)
CreateInCategory(t, ids, amount, reimbursement, name, category) ==
    /\ req[t] = Nothing
    /\ Inserts(ids, amount, reimbursement, name, ClassOf(category, "MANUAL", NoRule))
    /\ UNCHANGED <<rules, page, req>>

(* The rule a remembered merchant gets: INSERT ... ON CONFLICT DO UPDATE.   *)
Remembered(merchant, name, category) ==
    IF RuleFor(merchant) = NoRule
    THEN [merchant |-> merchant, name |-> name, category |-> category,
          active |-> TRUE, version |-> 1]
    ELSE [Bumped(rules[RuleFor(merchant)]) EXCEPT
            !.name = name, !.category = category, !.active = TRUE]

(* create with rememberMerchant: the rule and the purchase in one batch.    *)
CreateAndRemember(t, ids, amount, reimbursement, name, category) ==
    /\ req[t] = Nothing
    /\ category \in Editable
    /\ LET merchant == NormalOf[name]
           rule == Remembered(merchant, name, category)
       IN  /\ rule.version <= MaxVersion
           /\ \E r \in IF RuleFor(merchant) = NoRule THEN RuleIds \ DOMAIN rules
                       ELSE {RuleFor(merchant)} :
                /\ rules' = [q \in DOMAIN rules \cup {r} |->
                                IF q = r THEN rule ELSE rules[q]]
                /\ Inserts(ids, amount, reimbursement, name, ClassOf(category, "RULE", r))
    /\ UNCHANGED <<page, req>>

(* update: amounts, and the category when the body has one.  The source     *)
(* becomes MANUAL; category_rule_id and needs_review keep their values.     *)
Update(t, id, amount, reimbursement, category) ==
    /\ Matches(t, id)
    /\ tx[id].source = "MANUAL" /\ tx[id].status = "POSTED"
    /\ reimbursement <= amount
    /\ Writes(t, id, [Bumped(tx[id]) EXCEPT
                        !.amount = amount, !.reimbursement = reimbursement,
                        !.class.category = category, !.class.origin = "MANUAL"])
    /\ UNCHANGED <<rules, req>>

Delete(t, id) ==
    /\ Matches(t, id)
    /\ tx[id].source = "MANUAL" /\ tx[id].status = "POSTED"
    /\ Writes(t, id, [Bumped(tx[id]) EXCEPT !.status = "REMOVED"])
    /\ UNCHANGED <<rules, req>>

-----------------------------------------------------------------------------
(* Corrections of any transaction.                                         *)

SetReimbursement(t, id, reimbursement) ==
    /\ Matches(t, id)
    /\ tx[id].status = "POSTED"
    /\ tx[id].amount >= reimbursement
    /\ Writes(t, id, [Bumped(tx[id]) EXCEPT !.reimbursement = reimbursement])
    /\ UNCHANGED <<rules, req>>

(* override: this transaction only.                                         *)
Override(t, id, category) ==
    LET class == ClassOf(category, "MANUAL", NoRule) IN
    /\ Matches(t, id)
    /\ tx[id].status # "REMOVED"
    /\ IsCorrectable(category)
    /\ tx[id].class # class \/ tx[id].review
    /\ Writes(t, id, [Bumped(tx[id]) EXCEPT !.class = class, !.review = FALSE])
    /\ UNCHANGED <<rules, req>>

(* saveForFuture, its reads: the transaction, then the rule of its merchant.*)
ReadTransaction(t, id, category) ==
    /\ Matches(t, id)
    /\ tx[id].status # "REMOVED"
    /\ IsCorrectable(category)
    /\ req' = [req EXCEPT ![t] = [step |-> "READ_RULE", id |-> id, row |-> tx[id],
                                  category |-> category, found |-> NoRule]]
    /\ UNCHANGED <<tx, rules, audits, page>>

ReadRule(t) ==
    /\ req[t] # Nothing /\ req[t].step = "READ_RULE"
    /\ req' = [req EXCEPT ![t].step = "SAVE",
                          ![t].found = Lookup(RuleFor(Merchant(req[t].row)))]
    /\ UNCHANGED <<tx, rules, audits, page>>

RuleNeedsChange(q) ==
    \/ q.found = NoRule
    \/ ~q.found.row.active
    \/ q.found.row.category # q.category
    \/ q.found.row.name # q.row.name

(* The rule as the first statement of the batch leaves it, or NoRule when   *)
(* the statement aborts: the merchant is taken, or the version has moved.   *)
SavedRule(q) ==
    IF q.found = NoRule
    THEN IF RuleFor(Merchant(q.row)) # NoRule THEN NoRule
         ELSE [merchant |-> Merchant(q.row), name |-> q.row.name,
               category |-> q.category, active |-> TRUE, version |-> 1]
    ELSE IF ~RuleNeedsChange(q) THEN rules[q.found.id]
    ELSE IF rules[q.found.id].version # q.found.row.version THEN NoRule
    ELSE [Bumped(rules[q.found.id]) EXCEPT
            !.name = q.row.name, !.category = q.category, !.active = TRUE]

FinalRuleVersion(q) ==
    IF q.found = NoRule THEN 1
    ELSE q.found.row.version + (IF RuleNeedsChange(q) THEN 1 ELSE 0)

\* Mutant of Saveable: the transaction's statement does not look at the rule.
SaveableWithoutRule(q, rule) ==
    /\ rule # NoRule
    /\ tx[q.id].version = q.row.version /\ tx[q.id].status # "REMOVED"

(* The CASE of the last statement; any other case writes version 0, which   *)
(* the table refuses, and the whole batch is rolled back.                   *)
Saveable(q, rule) ==
    /\ rule # NoRule
    /\ tx[q.id].version = q.row.version /\ tx[q.id].status # "REMOVED"
    /\ rule.merchant = Merchant(q.row)
    /\ rule.category = q.category
    /\ rule.active
    /\ rule.version = FinalRuleVersion(q)

SavedTransaction(q, r) ==
    [Bumped(tx[q.id]) EXCEPT !.class = ClassOf(q.category, "RULE", r), !.review = FALSE]

(* NO_CHANGE: neither statement is needed.                                  *)
NothingToSave(q) ==
    /\ ~RuleNeedsChange(q)
    /\ q.row.class = ClassOf(q.category, "RULE", q.found.id)
    /\ ~q.row.review

(* saveForFuture: one batch writes the rule and the transaction.            *)
SaveForFuture(t) ==
    LET q == req[t]
        rule == SavedRule(q)
    IN  /\ q # Nothing /\ q.step = "SAVE"
        /\ ~NothingToSave(q)
        /\ Saveable(q, rule)
        /\ rule.version <= MaxVersion
        /\ \E r \in IF q.found = NoRule THEN RuleIds \ DOMAIN rules ELSE {q.found.id} :
             /\ rules' = [k \in DOMAIN rules \cup {r} |-> IF k = r THEN rule ELSE rules[k]]
             /\ Writes(t, q.id, SavedTransaction(q, r))
        /\ req' = [req EXCEPT ![t] = Nothing]

(* NO_CHANGE, or the batch was rolled back and diagnose names the conflict. *)
SaveEndsUnchanged(t) ==
    /\ req[t] # Nothing /\ req[t].step = "SAVE"
    /\ NothingToSave(req[t]) \/ ~Saveable(req[t], SavedRule(req[t]))
    /\ req' = [req EXCEPT ![t] = Nothing]
    /\ UNCHANGED <<tx, rules, audits, page>>

-----------------------------------------------------------------------------
(* Rules, on the settings page.                                            *)

(* create: a lookup, then an INSERT that the UNIQUE merchant may refuse;    *)
(* either way the answer is NORMALIZED_MERCHANT_CONFLICT.                   *)
BeginCreateRule(t, name, category) ==
    /\ req[t] = Nothing
    /\ IsCorrectable(category)
    /\ RuleFor(NormalOf[name]) = NoRule
    /\ req' = [req EXCEPT ![t] = [step |-> "INSERT_RULE", name |-> name,
                                  category |-> category]]
    /\ UNCHANGED <<tx, rules, audits, page>>

InsertRule(t) ==
    LET q == req[t] IN
    /\ q # Nothing /\ q.step = "INSERT_RULE"
    /\ IF RuleFor(NormalOf[q.name]) # NoRule THEN UNCHANGED rules
       ELSE \E r \in RuleIds \ DOMAIN rules :
              rules' = [k \in DOMAIN rules \cup {r} |->
                          IF k # r THEN rules[k]
                          ELSE [merchant |-> NormalOf[q.name], name |-> q.name,
                                category |-> q.category, active |-> TRUE, version |-> 1]]
    /\ req' = [req EXCEPT ![t] = Nothing]
    /\ UNCHANGED <<tx, audits, page>>

\* Mutant of BeginUpdateRule: a new name keeps the old normalized merchant.
BeginRenameRule(t, r, name, category, active) ==
    /\ req[t] = Nothing
    /\ page[t] # Nothing /\ page[t].kind = "RULE" /\ page[t].id = r
    /\ page[t].row.version = rules[r].version
    /\ category = rules[r].category \/ IsCorrectable(category)
    /\ <<name, category, active>> # <<rules[r].name, rules[r].category, rules[r].active>>
    /\ req' = [req EXCEPT ![t] = [step |-> "FIND_CONFLICT", id |-> r, row |->
                 [merchant |-> rules[r].merchant, name |-> name, category |-> category,
                  active |-> active, version |-> rules[r].version]]]
    /\ UNCHANGED <<tx, rules, audits, page>>

(* update: the rule is read and its version compared; what the body leaves  *)
(* out keeps the value that was read.                                       *)
BeginUpdateRule(t, r, name, category, active) ==
    /\ req[t] = Nothing
    /\ page[t] # Nothing /\ page[t].kind = "RULE" /\ page[t].id = r
    /\ page[t].row.version = rules[r].version
    /\ category = rules[r].category \/ IsCorrectable(category)
    /\ <<name, category, active>> # <<rules[r].name, rules[r].category, rules[r].active>>
    /\ req' = [req EXCEPT ![t] = [step |-> "FIND_CONFLICT", id |-> r, row |->
                 [merchant |-> NormalOf[name], name |-> name, category |-> category,
                  active |-> active, version |-> rules[r].version]]]
    /\ UNCHANGED <<tx, rules, audits, page>>

(* A rule of another id that has the merchant ends the request.             *)
FindConflict(t) ==
    LET q == req[t] IN
    /\ q # Nothing /\ q.step = "FIND_CONFLICT"
    /\ req' = [req EXCEPT ![t] =
                IF RuleFor(q.row.merchant) \in {NoRule, q.id}
                THEN [q EXCEPT !.step = "WRITE_RULE"] ELSE Nothing]
    /\ UNCHANGED <<tx, rules, audits, page>>

\* Mutant of Writable: the version read with the rule is not compared again.
WritableUnversioned(q) == RuleFor(q.row.merchant) \in {NoRule, q.id}

(* UPDATE ... WHERE id = ? AND version = ?, under the UNIQUE merchant.      *)
Writable(q) ==
    /\ rules[q.id].version = q.row.version
    /\ RuleFor(q.row.merchant) \in {NoRule, q.id}

WriteRule(t) ==
    LET q == req[t] IN
    /\ q # Nothing /\ q.step = "WRITE_RULE"
    /\ IF Writable(q)
       THEN /\ Bumped(q.row).version <= MaxVersion
            /\ rules' = [rules EXCEPT ![q.id] = Bumped(q.row)]
            /\ page' = [page EXCEPT ![t].row = Bumped(q.row)]
       ELSE UNCHANGED <<rules, page>>
    /\ req' = [req EXCEPT ![t] = Nothing]
    /\ UNCHANGED <<tx, audits>>

-----------------------------------------------------------------------------
(* The ledger at first: one transaction that an import left unclassified.   *)
Init ==
    /\ \E name \in Names :
         tx = [id \in {ImportedId} |->
                 [source |-> "CSV", status |-> "POSTED", amount |-> MaxAmount,
                  reimbursement |-> 0, name |-> name,
                  class |-> ClassOf(Unclassified, "UNCLASSIFIED", NoRule),
                  review |-> TRUE, version |-> 1]]
    /\ rules = <<>>
    /\ audits = [id \in {ImportedId} |-> <<>>]
    /\ page = [t \in Tabs |-> Nothing]
    /\ req = [t \in Tabs |-> Nothing]
    /\ classes = [id \in {ImportedId} |-> <<tx[id].class>>]

Purchases(t) ==
    \E ids \in (SUBSET Ids) \ {{}}, amount, reimbursement \in 0..MaxAmount, name \in Names :
        \/ Create(t, ids, amount, reimbursement, name)
        \/ \E category \in Categories :
             \/ CreateInCategory(t, ids, amount, reimbursement, name, category)
             \/ CreateAndRemember(t, ids, amount, reimbursement, name, category)

Edits(t) ==
    \E id \in DOMAIN tx :
        \/ OpenTransaction(t, id)
        \/ Delete(t, id)
        \/ \E reimbursement \in 0..MaxAmount : SetReimbursement(t, id, reimbursement)
        \/ \E category \in Categories :
             \/ Override(t, id, category)
             \/ ReadTransaction(t, id, category)
             \/ \E amount, reimbursement \in 0..MaxAmount :
                  Update(t, id, amount, reimbursement, category)

RuleSteps(t) ==
    \/ ReadRule(t) \/ SaveForFuture(t) \/ SaveEndsUnchanged(t)
    \/ InsertRule(t) \/ FindConflict(t) \/ WriteRule(t)
    \/ \E name \in Names, category \in Categories : BeginCreateRule(t, name, category)
    \/ \E r \in DOMAIN rules :
         \/ OpenRule(t, r)
         \/ \E name \in Names, category \in Categories, active \in BOOLEAN :
              BeginUpdateRule(t, r, name, category, active)

(* The history follows the rows themselves, whichever statement wrote them  *)
(* and whatever it recorded; no action reads it.                            *)
Reclassified ==
    [id \in DOMAIN tx' |->
        IF id \notin DOMAIN tx THEN <<tx'[id].class>>
        ELSE IF tx'[id].class = tx[id].class THEN classes[id]
        ELSE Append(classes[id], tx'[id].class)]

Step == \E t \in Tabs : Purchases(t) \/ Edits(t) \/ RuleSteps(t)

Next == Step /\ classes' = Reclassified

Spec == Init /\ [][Next]_vars

-----------------------------------------------------------------------------
(* Properties.                                                             *)

Request ==
    [step : {"READ_RULE", "SAVE"}, id : Ids \cup {ImportedId}, row : Transaction,
     category : Categories, found : {NoRule} \cup [id : RuleIds, row : Rule]]
    \cup [step : {"INSERT_RULE"}, name : Names, category : Categories]
    \cup [step : {"FIND_CONFLICT", "WRITE_RULE"}, id : RuleIds, row : Rule]

Page == [kind : {"TRANSACTION"}, id : Ids \cup {ImportedId}, row : Transaction]
        \cup [kind : {"RULE"}, id : RuleIds, row : Rule]

TransactionsOK ==
    /\ DOMAIN tx \subseteq Ids \cup {ImportedId}
    /\ \A id \in DOMAIN tx : tx[id] \in Transaction /\ tx[id].reimbursement <= tx[id].amount

RulesOK ==
    /\ DOMAIN rules \subseteq RuleIds
    /\ \A r \in DOMAIN rules : rules[r] \in Rule /\ rules[r].merchant = NormalOf[rules[r].name]

MarksOK == \A id \in DOMAIN tx : tx[id].class.rule \in DOMAIN rules \cup {NoRule}

AuditsOK ==
    /\ DOMAIN audits = DOMAIN tx
    /\ \A id \in DOMAIN audits : audits[id] \in Seq([old : Class, new : Class])

(* Every row has the shape of its table, a reimbursement never exceeds its  *)
(* amount, every reference names a row, and what a tab shows or a request   *)
(* has read are rows.                                                       *)
TypeOK ==
    /\ TransactionsOK /\ RulesOK /\ MarksOK /\ AuditsOK
    /\ page \in [Tabs -> {Nothing} \cup Page]
    /\ req \in [Tabs -> {Nothing} \cup Request]

(* The edit of a step, if it makes one, began from the row it replaces.     *)
EditsKept ==
    \A id \in DOMAIN tx : tx'[id] # tx[id] =>
       \E t \in Tabs : /\ page[t] # Nothing /\ page[t].kind = "TRANSACTION"
                       /\ page[t].id = id /\ page[t].row = tx[id]
                       /\ page'[t].row = tx'[id]

(* No edit is lost: whoever changes a transaction was looking at exactly    *)
(* the row being changed, although other tabs write in between and no lock  *)
(* is held while the owner decides (version = ? in every UPDATE of          *)
(* packages/persistence/src/manual-transactions.ts).                        *)
NoEditLost == [][EditsKept]_vars

(* The change of a rule in a step, if it makes one, began from the row it   *)
(* replaces, unless the step also records a purchase.                       *)
RuleEditsKept ==
    \A r \in DOMAIN rules : rules'[r] # rules[r] =>
       \/ DOMAIN tx' # DOMAIN tx
       \/ \E t \in Tabs :
            \/ page[t] # Nothing /\ page[t].kind = "RULE"
                 /\ page[t].id = r /\ page[t].row = rules[r]
                 /\ page'[t].row = rules'[r]
            \/ req[t] # Nothing /\ req[t].step = "SAVE"
                 /\ req[t].found = [id |-> r, row |-> rules[r]]
                 /\ req'[t] = Nothing

(* The same for rules: a change of a rule starts from the row its author    *)
(* saw, or that saveForFuture read; only a remembered purchase, an upsert,  *)
(* replaces a rule unseen (packages/persistence/src/merchant-rules.ts).     *)
NoRuleEditLost == [][RuleEditsKept]_vars

(* The audit trail of a transaction is complete: it has one audit for every *)
(* change of the category, its source or its rule, in order, the first with *)
(* what the transaction was recorded with and each with what the row had    *)
(* before and after, down to the row as it is.  A correction, an edit and a *)
(* remembered merchant all leave their audit, and nothing else does         *)
(* (category_audits, migrations/0010_category_override_audits.sql).         *)
AuditsReconstruct ==
    \A id \in DOMAIN tx :
        LET past == classes[id] IN
        /\ past[Len(past)] = tx[id].class
        /\ Len(audits[id]) = Len(past) - 1
        /\ \A k \in 1..(Len(past) - 1) :
              audits[id][k] = [old |-> past[k], new |-> past[k + 1]]

(* The rule a step marks a transaction with is as the mark says.            *)
MarksAgree ==
    \A id \in DOMAIN tx' :
       LET class == tx'[id].class IN
       /\ class.origin = "RULE"
       /\ id \notin DOMAIN tx \/ class # tx[id].class
       => /\ rules'[class.rule].active
          /\ rules'[class.rule].category = class.category
          /\ rules'[class.rule].merchant = Merchant(tx'[id])

(* When a step gives a transaction its category by a rule, that rule is     *)
(* active then, is the one of the transaction's merchant and has that       *)
(* category, although the rule was looked up before the write.              *)
RuleMarksAgree == [][MarksAgree]_vars
=============================================================================
