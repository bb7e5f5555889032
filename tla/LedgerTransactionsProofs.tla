---------------------- MODULE LedgerTransactionsProofs ----------------------
(***************************************************************************)
(* Proofs about LedgerTransactions, for any number of tabs, transactions   *)
(* and rules.                                                              *)
(*                                                                         *)
(* A write compares a version and nothing else.  What makes that enough is *)
(* an invariant of several tabs: every copy, in a page or in a request     *)
(* that waits between two statements, is a row its table has now or had    *)
(* under a smaller version (Inv).                                          *)
(***************************************************************************)
EXTENDS LedgerTransactions, SequenceTheorems, TLAPS

-----------------------------------------------------------------------------
(* The inductive invariant.                                                *)

(* p.row is the row p.id of a table, or an earlier one of a lower version.  *)
IsCopy(p, table) ==
    /\ p.id \in DOMAIN table
    /\ p.row.version <= table[p.id].version
    /\ p.row.version = table[p.id].version => p.row = table[p.id]

ShowsTransaction(p) == p # Nothing /\ p.kind = "TRANSACTION"
ShowsRule(p) == p # Nothing /\ p.kind = "RULE"

PageIsCopy(p, transactions, merchantRules) ==
    /\ ShowsTransaction(p) => IsCopy(p, transactions)
    /\ ShowsRule(p) => IsCopy(p, merchantRules)

Corrects(q) == q # Nothing /\ q.step \in {"READ_RULE", "SAVE"}
Updates(q) == q # Nothing /\ q.step \in {"FIND_CONFLICT", "WRITE_RULE"}

(* A correction has read the row its tab shows, and the rule it found is a  *)
(* copy; the update of a rule keeps the version its tab shows.              *)
Remembers(q, p, merchantRules) ==
    /\ Corrects(q) =>
          /\ ShowsTransaction(p) /\ p.id = q.id /\ p.row = q.row
          /\ q.found # NoRule => IsCopy(q.found, merchantRules)
    /\ Updates(q) =>
          /\ ShowsRule(p) /\ p.id = q.id /\ p.row.version = q.row.version
          /\ q.row.merchant = NormalOf[q.row.name]

PagesAreCopies == \A t \in Tabs : PageIsCopy(page[t], tx, rules)

RequestsRemember == \A t \in Tabs : Remembers(req[t], page[t], rules)

(* No merchant has two rules, so a lookup has one answer.                   *)
OneRuleEach ==
    \A r, s \in DOMAIN rules : rules[r].merchant = rules[s].merchant => r = s

Inv ==
    /\ TypeOK
    /\ PagesAreCopies
    /\ RequestsRemember
    /\ OneRuleEach

-----------------------------------------------------------------------------
(* How the tables move.                                                    *)

(* Rows are never removed, and a changed row has the next version.          *)
MovesOn(old, new) ==
    /\ DOMAIN old \subseteq DOMAIN new
    /\ \A k \in DOMAIN old : new[k] = old[k] \/ new[k].version = old[k].version + 1

(* A copy stays a copy while the tables move on.                            *)
LEMMA CopiesStay ==
    ASSUME NEW old, NEW new, NEW p, MovesOn(old, new), IsCopy(p, old),
           p.row.version \in Int, old[p.id].version \in Int
    PROVE  IsCopy(p, new)
BY DEF MovesOn, IsCopy

(* The versions of typed rows are integers.                                 *)
LEMMA VersionsAreInts ==
    /\ \A row \in Transaction : row.version \in Int
    /\ \A row \in Rule : row.version \in Int
BY LedgerAssumption DEF Transaction, Rule

(* So a page stays a copy, and a request's copies stay copies.              *)
LEMMA PageStays ==
    ASSUME TypeOK, NEW p \in {Nothing} \cup Page,
           PageIsCopy(p, tx, rules), MovesOn(tx, tx'), MovesOn(rules, rules')
    PROVE  PageIsCopy(p, tx', rules')
<1>1. CASE ShowsTransaction(p)
  <2>1. p.row \in Transaction /\ ~ShowsRule(p)
    BY <1>1 DEF ShowsTransaction, ShowsRule, Page
  <2>2. IsCopy(p, tx)
    BY <1>1 DEF PageIsCopy
  <2>3. tx[p.id] \in Transaction
    BY <2>2 DEF IsCopy, TypeOK, TransactionsOK
  <2>4. IsCopy(p, tx')
    BY <2>1, <2>2, <2>3, CopiesStay, VersionsAreInts
  <2> QED BY <2>1, <2>4 DEF PageIsCopy
<1>2. CASE ShowsRule(p)
  <2>1. p.row \in Rule /\ ~ShowsTransaction(p)
    BY <1>2 DEF ShowsTransaction, ShowsRule, Page
  <2>2. IsCopy(p, rules)
    BY <1>2 DEF PageIsCopy
  <2>3. rules[p.id] \in Rule
    BY <2>2 DEF IsCopy, TypeOK, RulesOK
  <2>4. IsCopy(p, rules')
    BY <2>1, <2>2, <2>3, CopiesStay, VersionsAreInts
  <2> QED BY <2>1, <2>4 DEF PageIsCopy
<1> QED BY <1>1, <1>2 DEF PageIsCopy

LEMMA RequestStays ==
    ASSUME TypeOK, NEW q \in {Nothing} \cup Request, NEW p,
           Remembers(q, p, rules), MovesOn(rules, rules')
    PROVE  Remembers(q, p, rules')
<1>1. ASSUME Corrects(q), q.found # NoRule
      PROVE  IsCopy(q.found, rules')
  <2>1. q.found \in [id : RuleIds, row : Rule]
    BY <1>1 DEF Corrects, Request
  <2>2. IsCopy(q.found, rules)
    BY <1>1 DEF Remembers
  <2>3. q.found.row \in Rule /\ rules[q.found.id] \in Rule
    BY <2>1, <2>2 DEF IsCopy, TypeOK, RulesOK
  <2> QED BY <2>2, <2>3, CopiesStay, VersionsAreInts
<1> QED BY <1>1 DEF Remembers

(* The pages and requests of all tabs keep their history in a step in which *)
(* the tables move on and one tab changes what it shows or has read.        *)
LEMMA OneTabMoves ==
    ASSUME Inv, NEW t \in Tabs,
           MovesOn(tx, tx'), MovesOn(rules, rules'),
           \A u \in Tabs \ {t} : page'[u] = page[u] /\ req'[u] = req[u],
           PageIsCopy(page'[t], tx', rules'),
           Remembers(req'[t], page'[t], rules')
    PROVE  PagesAreCopies' /\ RequestsRemember'
<1> SUFFICES ASSUME NEW u \in Tabs
             PROVE  PageIsCopy(page'[u], tx', rules') /\ Remembers(req'[u], page'[u], rules')
  BY DEF PagesAreCopies, RequestsRemember
<1>1. CASE u = t
  BY <1>1
<1>2. CASE u # t
  <2>1. page[u] \in {Nothing} \cup Page /\ req[u] \in {Nothing} \cup Request
    BY DEF Inv, TypeOK
  <2>2. PageIsCopy(page[u], tx, rules) /\ Remembers(req[u], page[u], rules)
    BY DEF Inv, PagesAreCopies, RequestsRemember
  <2>3. PageIsCopy(page[u], tx', rules') /\ Remembers(req[u], page[u], rules')
    BY <2>1, <2>2, PageStays, RequestStays DEF Inv
  <2> QED BY <1>2, <2>3
<1> QED BY <1>1, <1>2

(* The same of a step that changes no page and no request.                  *)
LEMMA NoTabMoves ==
    ASSUME Inv, MovesOn(tx, tx'), MovesOn(rules, rules'),
           UNCHANGED <<page, req>>
    PROVE  PagesAreCopies' /\ RequestsRemember'
<1> SUFFICES ASSUME NEW u \in Tabs
             PROVE  PageIsCopy(page'[u], tx', rules') /\ Remembers(req'[u], page'[u], rules')
  BY DEF PagesAreCopies, RequestsRemember
<1>1. page[u] \in {Nothing} \cup Page /\ req[u] \in {Nothing} \cup Request
  BY DEF Inv, TypeOK
<1>2. PageIsCopy(page[u], tx, rules) /\ Remembers(req[u], page[u], rules)
  BY DEF Inv, PagesAreCopies, RequestsRemember
<1> QED BY <1>1, <1>2, PageStays, RequestStays DEF Inv

(* A table that does not change moves on.                                   *)
LEMMA StillMovesOn ==
    ASSUME NEW table
    PROVE  MovesOn(table, table)
BY DEF MovesOn

-----------------------------------------------------------------------------
(* The three ways a table is written.                                      *)

(* New transactions, whose audits are empty.                                *)
Adds(ids) ==
    /\ ids \subseteq Ids /\ ids \cap DOMAIN tx = {}
    /\ DOMAIN tx' = DOMAIN tx \cup ids
    /\ \A id \in DOMAIN tx : tx'[id] = tx[id]
    /\ \A id \in ids : /\ tx'[id] \in Transaction
                       /\ tx'[id].reimbursement <= tx'[id].amount
                       /\ tx'[id].class.rule \in DOMAIN rules'
                                                 \cup {NoRule}
    /\ DOMAIN audits' = DOMAIN tx \cup ids
    /\ \A id \in DOMAIN tx : audits'[id] = audits[id]
    /\ \A id \in ids : audits'[id] = <<>>

(* The next row of a transaction, written by a tab that shows its row.      *)
Rewrites(t, id, row) ==
    /\ id \in DOMAIN tx
    /\ ShowsTransaction(page[t]) /\ page[t].id = id /\ page[t].row = tx[id]
    /\ row \in Transaction /\ row.reimbursement <= row.amount
    /\ row.version = tx[id].version + 1
    /\ row.name = tx[id].name
    /\ row.class.rule \in DOMAIN rules' \cup {NoRule}
    /\ Writes(t, id, row)

(* A new rule, the next row of a rule, or a rule left as it is.             *)
Stores(r, rule) ==
    /\ r \in RuleIds
    /\ rule \in Rule /\ rule.merchant = NormalOf[rule.name]
    /\ \A k \in DOMAIN rules \ {r} : rules[k].merchant # rule.merchant
    /\ r \in DOMAIN rules => rule = rules[r] \/ rule.version = rules[r].version + 1
    /\ DOMAIN rules' = DOMAIN rules \cup {r}
    /\ rules'[r] = rule
    /\ \A k \in DOMAIN rules \ {r} : rules'[k] = rules[k]

LEMMA StoreKeepsRules ==
    ASSUME TypeOK, OneRuleEach, NEW r, NEW rule, Stores(r, rule)
    PROVE  RulesOK' /\ OneRuleEach' /\ MovesOn(rules, rules')
<1>1. RulesOK'
  BY DEF TypeOK, RulesOK, Stores
<1>2. OneRuleEach'
  BY DEF OneRuleEach, Stores
<1>3. MovesOn(rules, rules')
  BY DEF MovesOn, Stores
<1> QED BY <1>1, <1>2, <1>3

(* Marks name rules as long as no rule disappears.                          *)
LEMMA MarksStay ==
    ASSUME MarksOK, MovesOn(rules, rules'), UNCHANGED tx
    PROVE  MarksOK'
BY DEF MarksOK, MovesOn

LEMMA AddKeepsTransactions ==
    ASSUME TypeOK, MovesOn(rules, rules'), NEW ids, Adds(ids)
    PROVE  /\ TransactionsOK' /\ MarksOK' /\ AuditsOK'
           /\ MovesOn(tx, tx')
<1>1. TransactionsOK'
  BY DEF TypeOK, TransactionsOK, Adds
<1>2. MarksOK'
  BY DEF TypeOK, MarksOK, Adds, MovesOn
<1>3. AuditsOK'
  <2>1. <<>> \in Seq([old : Class, new : Class])
    BY EmptySeq
  <2>2. DOMAIN audits' = DOMAIN tx'
    BY DEF Adds
  <2>3. ASSUME NEW id \in DOMAIN audits'
        PROVE  audits'[id] \in Seq([old : Class, new : Class])
    <3>1. CASE id \in DOMAIN tx
      BY <3>1 DEF TypeOK, AuditsOK, Adds
    <3>2. CASE id \in ids
      BY <2>1, <3>2 DEF Adds
    <3> QED BY <3>1, <3>2 DEF Adds
  <2> QED BY <2>2, <2>3 DEF AuditsOK
<1>4. MovesOn(tx, tx')
  BY DEF MovesOn, Adds
<1> QED BY <1>1, <1>2, <1>3, <1>4

(* One audit more for a transaction whose class changes, none otherwise.    *)
LEMMA RewriteKeepsAudits ==
    ASSUME TypeOK, NEW t, NEW id, NEW row, Rewrites(t, id, row)
    PROVE  /\ AuditsOK'
           /\ \A i \in DOMAIN tx :
                 audits'[i] = IF tx'[i].class = tx[i].class THEN audits[i]
                              ELSE Append(audits[i], [old |-> tx[i].class,
                                                      new |-> tx'[i].class])
<1> DEFINE Change == [old : Class, new : Class]
           e == [old |-> tx[id].class, new |-> row.class]
<1>1. /\ id \in DOMAIN tx
      /\ DOMAIN audits = DOMAIN tx
      /\ DOMAIN tx' = DOMAIN tx /\ tx'[id] = row
      /\ \A i \in DOMAIN tx \ {id} : tx'[i] = tx[i]
  BY DEF Rewrites, Writes, TypeOK, AuditsOK
<1>2. audits[id] \in Seq(Change) /\ e \in Change
  BY <1>1 DEF TypeOK, AuditsOK, TransactionsOK, Transaction, Rewrites
<1>3. CASE tx[id].class = row.class
  <2>1. audits' = audits
    BY <1>3 DEF Rewrites, Writes, Audited
  <2> QED BY <1>1, <1>3, <2>1 DEF TypeOK, AuditsOK
<1>4. CASE tx[id].class # row.class
  <2>1. audits' = [audits EXCEPT ![id] = Append(audits[id], e)]
    BY <1>4 DEF Rewrites, Writes, Audited
  <2>2. /\ DOMAIN audits' = DOMAIN tx /\ audits'[id] = Append(audits[id], e)
        /\ \A i \in DOMAIN tx \ {id} : audits'[i] = audits[i]
    BY <1>1, <2>1
  <2>3. Append(audits[id], e) \in Seq(Change)
    <3> HIDE DEF Change, e
    <3> QED BY <1>2, AppendProperties
  <2>4. AuditsOK'
    BY <1>1, <2>2, <2>3 DEF TypeOK, AuditsOK
  <2> QED BY <1>1, <1>4, <2>2, <2>4
<1> QED BY <1>3, <1>4

LEMMA RewriteKeepsTransactions ==
    ASSUME TypeOK, MovesOn(rules, rules'), NEW t, NEW id, NEW row, Rewrites(t, id, row)
    PROVE  TransactionsOK' /\ MarksOK' /\ MovesOn(tx, tx')
<1>1. /\ DOMAIN tx' = DOMAIN tx /\ tx'[id] = row
      /\ \A i \in DOMAIN tx \ {id} : tx'[i] = tx[i]
      /\ id \in DOMAIN tx
  BY DEF Rewrites, Writes
<1>2. TransactionsOK'
  BY <1>1 DEF TypeOK, TransactionsOK, Rewrites
<1>3. MarksOK'
  BY <1>1 DEF TypeOK, MarksOK, Rewrites, MovesOn
<1>4. MovesOn(tx, tx')
  BY <1>1 DEF MovesOn, Rewrites
<1> QED BY <1>2, <1>3, <1>4

(* The page that wrote a row shows it.                                      *)
LEMMA RewritingPage ==
    ASSUME TypeOK, NEW t \in Tabs, NEW id, NEW row, Rewrites(t, id, row)
    PROVE  /\ page' \in [Tabs -> {Nothing} \cup Page]
           /\ page'[t] = [page[t] EXCEPT !.row = row]
           /\ page'[t] \in [kind : {"TRANSACTION"}, id : Ids \cup {ImportedId},
                            row : Transaction]
           /\ page'[t].id = id /\ page'[t].row = row
           /\ \A u \in Tabs \ {t} : page'[u] = page[u]
<1>1. page[t] \in [kind : {"TRANSACTION"}, id : Ids \cup {ImportedId}, row : Transaction]
  BY DEF TypeOK, Rewrites, ShowsTransaction, Page
<1>2. /\ [page[t] EXCEPT !.row = row] \in
            [kind : {"TRANSACTION"}, id : Ids \cup {ImportedId}, row : Transaction]
      /\ [page[t] EXCEPT !.row = row].id = id
      /\ [page[t] EXCEPT !.row = row].row = row
  BY <1>1 DEF Rewrites
<1>3. page' = [page EXCEPT ![t] = [page[t] EXCEPT !.row = row]]
  BY DEF Rewrites, Writes
<1>4. page \in [Tabs -> {Nothing} \cup Page]
  BY DEF TypeOK
<1>5. [page[t] EXCEPT !.row = row] \in Page
  BY <1>2 DEF Page
<1> HIDE DEF Rewrites
<1> QED BY <1>2, <1>3, <1>4, <1>5

-----------------------------------------------------------------------------
(* The kinds of steps.  Every action is of one kind; what a kind keeps is   *)
(* shown once.                                                              *)

MarkAgrees(row, merchantRules) ==
    /\ merchantRules[row.class.rule].active
    /\ merchantRules[row.class.rule].category = row.class.category
    /\ merchantRules[row.class.rule].merchant = Merchant(row)

(* A purchase, perhaps with the rule it remembers.                          *)
Purchased ==
    \E ids :
        /\ ids # {} /\ Adds(ids)
        /\ \A id \in ids : tx'[id].class.origin = "RULE" => MarkAgrees(tx'[id], rules')
        /\ UNCHANGED rules \/ \E r, rule : Stores(r, rule)
        /\ UNCHANGED <<page, req>>

(* One UPDATE of the transaction that a tab shows, without a new mark.      *)
Edited(t) ==
    \E id, row :
        /\ req[t] = Nothing
        /\ Rewrites(t, id, row)
        /\ row.class.origin = "RULE" => row.class = tx[id].class
        /\ UNCHANGED <<rules, req>>

(* The batch of saveForFuture.                                              *)
Saved(t) ==
    \E id, row, r, rule :
        /\ Rewrites(t, id, row)
        /\ Stores(r, rule)
        /\ MarkAgrees(row, rules')
        /\ \/ r \notin DOMAIN rules
           \/ rule = rules[r]
           \/ /\ req[t] # Nothing /\ req[t].step = "SAVE"
              /\ req[t].found = [id |-> r, row |-> rules[r]]
        /\ req' = [req EXCEPT ![t] = Nothing]

(* A new rule, or the next row of the rule that a tab shows.                *)
RuleStored(t) ==
    \E r, rule :
        /\ Stores(r, rule)
        /\ \/ r \notin DOMAIN rules /\ UNCHANGED page
           \/ /\ r \in DOMAIN rules
              /\ ShowsRule(page[t]) /\ page[t].id = r /\ page[t].row = rules[r]
              /\ page' = [page EXCEPT ![t].row = rule]
        /\ req' = [req EXCEPT ![t] = Nothing]
        /\ UNCHANGED <<tx, audits>>

(* A step that only reads: what it keeps is a copy.                         *)
Looked(t) ==
    /\ page' \in [Tabs -> {Nothing} \cup Page]
    /\ req' \in [Tabs -> {Nothing} \cup Request]
    /\ \A u \in Tabs \ {t} : page'[u] = page[u] /\ req'[u] = req[u]
    /\ PageIsCopy(page'[t], tx, rules)
    /\ Remembers(req'[t], page'[t], rules)
    /\ UNCHANGED <<tx, rules, audits>>

(* A request that ends leaves Nothing, which remembers nothing.             *)
LEMMA EndedRequest ==
    ASSUME TypeOK, NEW t \in Tabs, req' = [req EXCEPT ![t] = Nothing]
    PROVE  /\ req' \in [Tabs -> {Nothing} \cup Request]
           /\ \A u \in Tabs \ {t} : req'[u] = req[u]
           /\ req'[t] = Nothing
           /\ \A p, table : Remembers(req'[t], p, table)
BY DEF TypeOK, Remembers, Corrects, Updates

LEMMA PurchasedKeeps ==
    ASSUME Inv, Purchased
    PROVE  Inv'
<1>1. PICK ids : /\ Adds(ids)
                 /\ UNCHANGED rules \/ \E r, rule : Stores(r, rule)
                 /\ UNCHANGED <<page, req>>
  BY DEF Purchased
<1>2. RulesOK' /\ OneRuleEach' /\ MovesOn(rules, rules')
  <2>1. CASE UNCHANGED rules
    BY <2>1, StillMovesOn DEF Inv, TypeOK, RulesOK, OneRuleEach
  <2>2. CASE \E r, rule : Stores(r, rule)
    BY <2>2, StoreKeepsRules DEF Inv
  <2> QED BY <1>1, <2>1, <2>2
<1>3. /\ TransactionsOK' /\ MarksOK' /\ AuditsOK'
      /\ MovesOn(tx, tx')
  BY <1>1, <1>2, AddKeepsTransactions DEF Inv
<1>4. TypeOK'
  BY <1>1, <1>2, <1>3 DEF Inv, TypeOK
<1>5. PagesAreCopies' /\ RequestsRemember'
  BY <1>1, <1>2, <1>3, NoTabMoves
<1> QED BY <1>2, <1>3, <1>4, <1>5 DEF Inv

LEMMA EditedKeeps ==
    ASSUME Inv, NEW t \in Tabs, Edited(t)
    PROVE  Inv'
<1>1. PICK id, row : /\ req[t] = Nothing
                     /\ Rewrites(t, id, row)
                     /\ UNCHANGED <<rules, req>>
  BY DEF Edited
<1>2. RulesOK' /\ OneRuleEach' /\ MovesOn(rules, rules')
  BY <1>1, StillMovesOn DEF Inv, TypeOK, RulesOK, OneRuleEach
<1>3. TransactionsOK' /\ MarksOK' /\ MovesOn(tx, tx')
  BY <1>1, <1>2, RewriteKeepsTransactions DEF Inv
<1>4. AuditsOK'
  BY <1>1, RewriteKeepsAudits DEF Inv
<1>5. /\ page' \in [Tabs -> {Nothing} \cup Page]
      /\ page'[t].kind = "TRANSACTION" /\ page'[t].id = id /\ page'[t].row = row
      /\ \A u \in Tabs \ {t} : page'[u] = page[u]
  BY <1>1, RewritingPage DEF Inv
<1>6. TypeOK'
  BY <1>1, <1>2, <1>3, <1>4, <1>5 DEF Inv, TypeOK
<1>7. PageIsCopy(page'[t], tx', rules')
  <2>1. id \in DOMAIN tx' /\ tx'[id] = row
    BY <1>1 DEF Rewrites, Writes
  <2>2. row.version \in Int
    BY <1>1, VersionsAreInts DEF Rewrites
  <2> QED BY <1>5, <2>1, <2>2 DEF PageIsCopy, ShowsTransaction, ShowsRule, IsCopy
<1>8. Remembers(req'[t], page'[t], rules')
  BY <1>1 DEF Remembers, Corrects, Updates
<1>9. PagesAreCopies' /\ RequestsRemember'
  BY <1>1, <1>2, <1>3, <1>5, <1>7, <1>8, OneTabMoves
<1> QED BY <1>2, <1>4, <1>6, <1>9 DEF Inv

LEMMA SavedKeeps ==
    ASSUME Inv, NEW t \in Tabs, Saved(t)
    PROVE  Inv'
<1>1. PICK id, row, r, rule : /\ Rewrites(t, id, row)
                              /\ Stores(r, rule)
                              /\ req' = [req EXCEPT ![t] = Nothing]
  BY DEF Saved
<1>2. RulesOK' /\ OneRuleEach' /\ MovesOn(rules, rules')
  BY <1>1, StoreKeepsRules DEF Inv
<1>3. TransactionsOK' /\ MarksOK' /\ MovesOn(tx, tx')
  BY <1>1, <1>2, RewriteKeepsTransactions DEF Inv
<1>4. AuditsOK'
  BY <1>1, RewriteKeepsAudits DEF Inv
<1>5. /\ page' \in [Tabs -> {Nothing} \cup Page]
      /\ page'[t].kind = "TRANSACTION" /\ page'[t].id = id /\ page'[t].row = row
      /\ \A u \in Tabs \ {t} : page'[u] = page[u]
  BY <1>1, RewritingPage DEF Inv
<1>6. /\ req' \in [Tabs -> {Nothing} \cup Request]
      /\ \A u \in Tabs \ {t} : req'[u] = req[u]
      /\ Remembers(req'[t], page'[t], rules')
  BY <1>1, EndedRequest DEF Inv
<1>7. TypeOK'
  BY <1>2, <1>3, <1>4, <1>5, <1>6 DEF TypeOK
<1>8. PageIsCopy(page'[t], tx', rules')
  <2>1. id \in DOMAIN tx' /\ tx'[id] = row
    BY <1>1 DEF Rewrites, Writes
  <2>2. row.version \in Int
    BY <1>1, VersionsAreInts DEF Rewrites
  <2> QED BY <1>5, <2>1, <2>2 DEF PageIsCopy, ShowsTransaction, ShowsRule, IsCopy
<1>9. PagesAreCopies' /\ RequestsRemember'
  BY <1>2, <1>3, <1>5, <1>6, <1>8, OneTabMoves
<1> QED BY <1>2, <1>4, <1>7, <1>9 DEF Inv

LEMMA RuleStoredKeeps ==
    ASSUME Inv, NEW t \in Tabs, RuleStored(t)
    PROVE  Inv'
<1>1. PICK r, rule :
         /\ Stores(r, rule)
         /\ \/ r \notin DOMAIN rules /\ UNCHANGED page
            \/ /\ r \in DOMAIN rules
               /\ ShowsRule(page[t]) /\ page[t].id = r /\ page[t].row = rules[r]
               /\ page' = [page EXCEPT ![t].row = rule]
         /\ req' = [req EXCEPT ![t] = Nothing]
         /\ UNCHANGED <<tx, audits>>
  BY DEF RuleStored
<1>2. RulesOK' /\ OneRuleEach' /\ MovesOn(rules, rules')
  BY <1>1, StoreKeepsRules DEF Inv
<1>3. /\ TransactionsOK' /\ MarksOK' /\ AuditsOK'
      /\ MovesOn(tx, tx')
  <2>1. MarksOK'
    BY <1>1, <1>2, MarksStay DEF Inv, TypeOK
  <2> QED BY <1>1, <2>1, StillMovesOn
          DEF Inv, TypeOK, TransactionsOK, AuditsOK
<1>4. /\ req' \in [Tabs -> {Nothing} \cup Request]
      /\ \A u \in Tabs \ {t} : req'[u] = req[u]
      /\ Remembers(req'[t], page'[t], rules')
  BY <1>1, EndedRequest DEF Inv
<1>5. /\ page' \in [Tabs -> {Nothing} \cup Page]
      /\ \A u \in Tabs \ {t} : page'[u] = page[u]
      /\ PageIsCopy(page'[t], tx', rules')
  <2>1. CASE UNCHANGED page
    <3>1. page[t] \in {Nothing} \cup Page /\ PageIsCopy(page[t], tx, rules)
      BY DEF Inv, TypeOK, PagesAreCopies
    <3>2. PageIsCopy(page[t], tx', rules')
      BY <1>2, <1>3, <3>1, PageStays DEF Inv
    <3> QED BY <2>1, <3>2 DEF Inv, TypeOK
  <2>2. CASE /\ ShowsRule(page[t]) /\ page[t].id = r
             /\ page' = [page EXCEPT ![t].row = rule]
    <3>1. page[t] \in [kind : {"RULE"}, id : RuleIds, row : Rule]
      BY <2>2 DEF Inv, TypeOK, ShowsRule, Page
    <3>2. rule \in Rule /\ rule.version \in Int /\ r \in DOMAIN rules' /\ rules'[r] = rule
      BY <1>1, VersionsAreInts DEF Stores
    <3>3. /\ [page[t] EXCEPT !.row = rule] \in [kind : {"RULE"}, id : RuleIds, row : Rule]
          /\ [page[t] EXCEPT !.row = rule].id = r
          /\ [page[t] EXCEPT !.row = rule].row = rule
      BY <2>2, <3>1, <3>2
    <3>4. PageIsCopy([page[t] EXCEPT !.row = rule], tx', rules')
      BY <3>2, <3>3 DEF PageIsCopy, ShowsTransaction, IsCopy
    <3>5. /\ [page[t] EXCEPT !.row = rule] \in Page
          /\ page' = [page EXCEPT ![t] = [page[t] EXCEPT !.row = rule]]
      BY <2>2, <3>3 DEF Page
    <3>6. page \in [Tabs -> {Nothing} \cup Page]
      BY DEF Inv, TypeOK
    <3> QED BY <3>4, <3>5, <3>6
  <2> QED BY <1>1, <2>1, <2>2
<1>6. TypeOK'
  BY <1>2, <1>3, <1>4, <1>5 DEF TypeOK
<1>7. PagesAreCopies' /\ RequestsRemember'
  BY <1>2, <1>3, <1>4, <1>5, OneTabMoves
<1> QED BY <1>2, <1>3, <1>6, <1>7 DEF Inv

LEMMA LookedKeeps ==
    ASSUME Inv, NEW t \in Tabs, Looked(t)
    PROVE  Inv'
<1>1. TypeOK' /\ OneRuleEach'
  BY DEF Inv, TypeOK, TransactionsOK, RulesOK, MarksOK, AuditsOK, OneRuleEach, Looked
<1>2. MovesOn(tx, tx') /\ MovesOn(rules, rules')
  BY StillMovesOn DEF Looked
<1>3. PageIsCopy(page'[t], tx', rules') /\ Remembers(req'[t], page'[t], rules')
  BY DEF Looked
<1>4. \A u \in Tabs \ {t} : page'[u] = page[u] /\ req'[u] = req[u]
  BY DEF Looked
<1>5. PagesAreCopies' /\ RequestsRemember'
  BY <1>2, <1>3, <1>4, OneTabMoves
<1> QED BY <1>1, <1>5 DEF Inv

-----------------------------------------------------------------------------
(* Lookups.                                                                *)

(* A lookup by merchant answers its rule, if it has one.                    *)
LEMMA LookupFinds ==
    ASSUME RulesOK, OneRuleEach, NEW m
    PROVE  /\ RuleFor(m) # NoRule <=> \E r \in DOMAIN rules : rules[r].merchant = m
           /\ RuleFor(m) # NoRule => /\ RuleFor(m) \in DOMAIN rules
                                     /\ RuleFor(m) \in RuleIds
                                     /\ rules[RuleFor(m)] \in Rule
                                     /\ rules[RuleFor(m)].merchant = m
           /\ \A r \in DOMAIN rules : rules[r].merchant = m => RuleFor(m) = r
<1>1. CASE \E r \in DOMAIN rules : rules[r].merchant = m
  <2>1. RuleFor(m) \in DOMAIN rules /\ rules[RuleFor(m)].merchant = m
    BY <1>1 DEF RuleFor
  <2> QED BY <1>1, <2>1, LedgerAssumption DEF RulesOK, OneRuleEach
<1>2. CASE ~\E r \in DOMAIN rules : rules[r].merchant = m
  BY <1>2 DEF RuleFor
<1> QED BY <1>1, <1>2

(* The tab that matches a transaction shows the row that is there.          *)
LEMMA MatchingTab ==
    ASSUME Inv, NEW t \in Tabs, NEW id \in DOMAIN tx, Matches(t, id)
    PROVE  /\ req[t] = Nothing
           /\ ShowsTransaction(page[t]) /\ page[t].id = id /\ page[t].row = tx[id]
           /\ tx[id] \in Transaction /\ tx[id].reimbursement <= tx[id].amount
           /\ tx[id].class.rule \in DOMAIN rules \cup {NoRule}
<1>1. ShowsTransaction(page[t]) /\ page[t].id = id /\ page[t].row.version = tx[id].version
  BY DEF Matches, ShowsTransaction
<1>2. IsCopy(page[t], tx)
  BY <1>1 DEF Inv, PagesAreCopies, PageIsCopy
<1> QED BY <1>1, <1>2 DEF IsCopy, Matches, Inv, TypeOK, TransactionsOK, MarksOK

-----------------------------------------------------------------------------
(* Purchases.                                                              *)

LEMMA InsertsAdd ==
    ASSUME NEW ids \in SUBSET Ids, NEW amount \in 0..MaxAmount,
           NEW reimbursement \in 0..MaxAmount, NEW name \in Names, NEW class \in Class,
           class.rule \in DOMAIN rules' \cup {NoRule},
           Inserts(ids, amount, reimbursement, name, class)
    PROVE  /\ Adds(ids)
           /\ \A id \in ids : tx'[id].class = class /\ tx'[id].name = name
<1> DEFINE new == [source |-> "MANUAL", status |-> "POSTED", amount |-> amount,
                   reimbursement |-> reimbursement, name |-> name, class |-> class,
                   review |-> FALSE, version |-> 1]
<1>1. new \in Transaction /\ reimbursement <= amount
  BY LedgerAssumption DEF Transaction, Inserts
<1>2. new.class = class /\ new.name = name /\ new.amount = amount
      /\ new.reimbursement = reimbursement
  OBVIOUS
<1>3. /\ ids \cap DOMAIN tx = {}
      /\ tx' = [id \in DOMAIN tx \cup ids |-> IF id \in ids THEN new ELSE tx[id]]
      /\ audits' = [id \in DOMAIN tx \cup ids |-> IF id \in ids THEN <<>> ELSE audits[id]]
  BY DEF Inserts, Purchase
<1> HIDE DEF new
<1>4. /\ DOMAIN tx' = DOMAIN tx \cup ids
      /\ \A id \in DOMAIN tx : tx'[id] = tx[id]
      /\ \A id \in ids : tx'[id] = new
  BY <1>3
<1>5. /\ DOMAIN audits' = DOMAIN tx \cup ids
      /\ \A id \in DOMAIN tx : audits'[id] = audits[id]
      /\ \A id \in ids : audits'[id] = <<>>
  BY <1>3
<1> QED BY <1>1, <1>2, <1>3, <1>4, <1>5 DEF Adds

LEMMA CreateGoes ==
    ASSUME Inv, NEW t \in Tabs, NEW ids \in (SUBSET Ids) \ {{}},
           NEW amount \in 0..MaxAmount, NEW reimbursement \in 0..MaxAmount,
           NEW name \in Names, Create(t, ids, amount, reimbursement, name)
    PROVE  Purchased
<1> DEFINE r == ActiveRuleFor(NormalOf[name])
           class == ClassOf(rules[r].category, "RULE", r)
<1>1. /\ r \in DOMAIN rules /\ r \in RuleIds /\ rules[r] \in Rule /\ rules[r].active
      /\ rules[r].merchant = NormalOf[name]
  BY LookupFinds DEF ActiveRuleFor, Create, Inv, TypeOK
<1>2. class \in Class /\ class.rule = r /\ class.category = rules[r].category
  BY <1>1 DEF Class, ClassOf, Rule
<1>3. Inserts(ids, amount, reimbursement, name, class) /\ UNCHANGED <<rules, page, req>>
  BY DEF Create
<1> HIDE DEF class, r
<1>4. Adds(ids) /\ \A id \in ids : tx'[id].class = class /\ tx'[id].name = name
  BY <1>1, <1>2, <1>3, InsertsAdd
<1>5. \A id \in ids : MarkAgrees(tx'[id], rules')
  BY <1>1, <1>2, <1>3, <1>4 DEF MarkAgrees, Merchant
<1>6. ids # {}
  OBVIOUS
<1> QED BY <1>3, <1>4, <1>5, <1>6 DEF Purchased

LEMMA CreateInCategoryGoes ==
    ASSUME Inv, NEW t \in Tabs, NEW ids \in (SUBSET Ids) \ {{}},
           NEW amount \in 0..MaxAmount, NEW reimbursement \in 0..MaxAmount,
           NEW name \in Names, NEW category \in Categories,
           CreateInCategory(t, ids, amount, reimbursement, name, category)
    PROVE  Purchased
<1> DEFINE class == ClassOf(category, "MANUAL", NoRule)
<1>1. class \in Class /\ class.rule = NoRule /\ class.origin = "MANUAL"
  BY DEF Class, ClassOf
<1>2. Inserts(ids, amount, reimbursement, name, class) /\ UNCHANGED <<rules, page, req>>
  BY DEF CreateInCategory
<1> HIDE DEF class
<1>3. Adds(ids) /\ \A id \in ids : tx'[id].class = class
  BY <1>1, <1>2, InsertsAdd
<1>4. ids # {} /\ \A id \in ids : tx'[id].class.origin # "RULE"
  BY <1>1, <1>3
<1> QED BY <1>2, <1>3, <1>4 DEF Purchased

(* The rule that a remembered purchase writes.                              *)
LEMMA RememberedRule ==
    ASSUME TypeOK, OneRuleEach, NEW name \in Names,
           NEW category \in Categories,
           Remembered(NormalOf[name], name, category).version <= MaxVersion
    PROVE  LET rule == Remembered(NormalOf[name], name, category)
               found == RuleFor(NormalOf[name])
           IN  /\ rule \in Rule /\ rule.active /\ rule.category = category
               /\ rule.name = name /\ rule.merchant = NormalOf[name]
               /\ found # NoRule => rule.version = rules[found].version + 1
<1> DEFINE found == RuleFor(NormalOf[name])
           rule == Remembered(NormalOf[name], name, category)
<1>1. CASE found = NoRule
  <2>1. rule = [merchant |-> NormalOf[name], name |-> name, category |-> category,
                active |-> TRUE, version |-> 1]
    BY <1>1 DEF Remembered
  <2>2. NormalOf[name] \in Merchants /\ 1 \in 1..MaxVersion
    BY LedgerAssumption
  <2> QED BY <1>1, <2>1, <2>2 DEF Rule
<1>2. CASE found # NoRule
  <2>1. rules[found] \in Rule /\ rules[found].merchant = NormalOf[name]
    BY <1>2, LookupFinds DEF TypeOK
  <2>2. rule = [rules[found] EXCEPT !.version = @ + 1, !.name = name,
                                    !.category = category, !.active = TRUE]
    BY <1>2, <2>1 DEF Remembered, Bumped, Rule
  <2>3. rule.version = rules[found].version + 1 /\ rules[found].version \in 1..MaxVersion
    BY <2>1, <2>2 DEF Rule
  <2> HIDE DEF found, rule
  <2>4. rule.version \in 1..MaxVersion
    BY <2>3, LedgerAssumption DEF rule
  <2> QED BY <1>2, <2>1, <2>2, <2>3, <2>4 DEF Rule, found, rule
<1> QED BY <1>1, <1>2

LEMMA CreateAndRememberGoes ==
    ASSUME Inv, NEW t \in Tabs, NEW ids \in (SUBSET Ids) \ {{}},
           NEW amount \in 0..MaxAmount, NEW reimbursement \in 0..MaxAmount,
           NEW name \in Names, NEW category \in Categories,
           CreateAndRemember(t, ids, amount, reimbursement, name, category)
    PROVE  Purchased
<1> DEFINE merchant == NormalOf[name]
           found == RuleFor(merchant)
           rule == Remembered(merchant, name, category)
<1>1. PICK r \in IF found = NoRule THEN RuleIds \ DOMAIN rules ELSE {found} :
         /\ rules' = [q \in DOMAIN rules \cup {r} |-> IF q = r THEN rule ELSE rules[q]]
         /\ Inserts(ids, amount, reimbursement, name, ClassOf(category, "RULE", r))
  BY DEF CreateAndRemember
<1>2. /\ rule \in Rule /\ rule.active /\ rule.category = category
      /\ rule.name = name /\ rule.merchant = merchant
      /\ found # NoRule => rule.version = rules[found].version + 1
  BY RememberedRule DEF CreateAndRemember, Inv
<1>3. /\ found # NoRule => found \in DOMAIN rules /\ found \in RuleIds
      /\ \A k \in DOMAIN rules : rules[k].merchant = merchant => found # NoRule /\ k = found
  BY LookupFinds DEF Inv, TypeOK
<1>4. UNCHANGED <<page, req>>
  BY DEF CreateAndRemember
<1> HIDE DEF rule, found, merchant
<1>5. /\ r \in RuleIds /\ (r \in DOMAIN rules => r = found /\ found # NoRule)
      /\ (found # NoRule => r = found)
  BY <1>1, <1>3
<1>6. DOMAIN rules' = DOMAIN rules \cup {r} /\ rules'[r] = rule
      /\ \A k \in DOMAIN rules \ {r} : rules'[k] = rules[k]
  BY <1>1
<1>7. Stores(r, rule)
  BY <1>2, <1>3, <1>5, <1>6 DEF Stores, merchant
<1>8. ClassOf(category, "RULE", r) \in Class
  BY <1>5 DEF Class, ClassOf
<1>9. /\ Adds(ids)
      /\ \A id \in ids : tx'[id].class = ClassOf(category, "RULE", r) /\ tx'[id].name = name
  <2>1. ClassOf(category, "RULE", r).rule \in DOMAIN rules' \cup {NoRule}
    BY <1>6 DEF ClassOf
  <2>2. Inserts(ids, amount, reimbursement, name, ClassOf(category, "RULE", r))
    BY <1>1
  <2> QED BY <1>8, <2>1, <2>2, InsertsAdd
<1>10. \A id \in ids : MarkAgrees(tx'[id], rules')
  BY <1>2, <1>6, <1>9 DEF MarkAgrees, Merchant, ClassOf, merchant
<1>11. ids # {}
  OBVIOUS
<1> QED BY <1>4, <1>7, <1>9, <1>10, <1>11 DEF Purchased

-----------------------------------------------------------------------------
(* Pages and edits.                                                        *)

LEMMA OpenTransactionGoes ==
    ASSUME Inv, NEW t \in Tabs, NEW id \in DOMAIN tx,
           OpenTransaction(t, id)
    PROVE  Looked(t)
<1> DEFINE p == [kind |-> "TRANSACTION", id |-> id, row |-> tx[id]]
<1>1. tx[id] \in Transaction /\ tx[id].version \in Int /\ id \in Ids \cup {ImportedId}
  BY VersionsAreInts DEF Inv, TypeOK, TransactionsOK
<1>2. p \in Page
  BY <1>1 DEF Page
<1>3. PageIsCopy(p, tx, rules)
  BY <1>1 DEF PageIsCopy, ShowsRule, IsCopy
<1>4. page' = [page EXCEPT ![t] = p] /\ req[t] = Nothing /\ UNCHANGED <<tx, rules, audits, req>>
  BY DEF OpenTransaction
<1> HIDE DEF p
<1>5. Remembers(req[t], p, rules)
  BY <1>4 DEF Remembers, Corrects, Updates
<1>6. page \in [Tabs -> {Nothing} \cup Page] /\ req \in [Tabs -> {Nothing} \cup Request]
  BY DEF Inv, TypeOK
<1> QED BY <1>2, <1>3, <1>4, <1>5, <1>6 DEF Looked

LEMMA OpenRuleGoes ==
    ASSUME Inv, NEW t \in Tabs, NEW r \in DOMAIN rules, OpenRule(t, r)
    PROVE  Looked(t)
<1> DEFINE p == [kind |-> "RULE", id |-> r, row |-> rules[r]]
<1>1. rules[r] \in Rule /\ rules[r].version \in Int /\ r \in RuleIds
  BY VersionsAreInts DEF Inv, TypeOK, RulesOK
<1>2. p \in Page
  BY <1>1 DEF Page
<1>3. PageIsCopy(p, tx, rules)
  BY <1>1 DEF PageIsCopy, ShowsTransaction, IsCopy
<1>4. page' = [page EXCEPT ![t] = p] /\ req[t] = Nothing /\ UNCHANGED <<tx, rules, audits, req>>
  BY DEF OpenRule
<1> HIDE DEF p
<1>5. Remembers(req[t], p, rules)
  BY <1>4 DEF Remembers, Corrects, Updates
<1>6. page \in [Tabs -> {Nothing} \cup Page] /\ req \in [Tabs -> {Nothing} \cup Request]
  BY DEF Inv, TypeOK
<1> QED BY <1>2, <1>3, <1>4, <1>5, <1>6 DEF Looked

(* The next row of a transaction within the bound of versions.              *)
LEMMA NextVersion ==
    ASSUME NEW row \in Transaction, row.version + 1 <= MaxVersion
    PROVE  row.version + 1 \in 1..MaxVersion
BY LedgerAssumption DEF Transaction

LEMMA UpdateGoes ==
    ASSUME Inv, NEW t \in Tabs, NEW id \in DOMAIN tx,
           NEW amount \in 0..MaxAmount, NEW reimbursement \in 0..MaxAmount,
           NEW category \in Categories, Update(t, id, amount, reimbursement, category)
    PROVE  Edited(t)
<1> DEFINE row == [Bumped(tx[id]) EXCEPT
                      !.amount = amount, !.reimbursement = reimbursement,
                      !.class.category = category, !.class.origin = "MANUAL"]
           class == [tx[id].class EXCEPT !.category = category, !.origin = "MANUAL"]
<1>1. Matches(t, id) /\ Writes(t, id, row) /\ reimbursement <= amount
      /\ UNCHANGED <<rules, req>>
  BY DEF Update
<1>2. /\ req[t] = Nothing
      /\ ShowsTransaction(page[t]) /\ page[t].id = id /\ page[t].row = tx[id]
      /\ tx[id] \in Transaction
      /\ tx[id].class.rule \in DOMAIN rules \cup {NoRule}
  BY <1>1, MatchingTab
<1>3. tx[id].class \in Class /\ tx[id].version \in Int
  BY <1>2, VersionsAreInts DEF Transaction
<1>4. /\ row.version = tx[id].version + 1 /\ row.name = tx[id].name
      /\ row.amount = amount /\ row.reimbursement = reimbursement
      /\ row.class = class
      /\ row = [tx[id] EXCEPT !.version = @ + 1, !.amount = amount,
                              !.reimbursement = reimbursement, !.class = row.class]
  BY <1>2, <1>3 DEF Bumped, Transaction, Class
<1>5. row.class \in Class /\ row.class.rule = tx[id].class.rule /\ row.class.origin = "MANUAL"
  <2>1. class \in Class /\ class.rule = tx[id].class.rule /\ class.origin = "MANUAL"
    BY <1>3 DEF Class
  <2> HIDE DEF row, class
  <2> QED BY <1>4, <2>1
<1>6. row.version \in 1..MaxVersion
  BY <1>1, <1>2, <1>4, NextVersion DEF Writes
<1> HIDE DEF row
<1>7. row \in Transaction
  BY <1>2, <1>4, <1>5, <1>6 DEF Transaction
<1>8. Rewrites(t, id, row)
  BY <1>1, <1>2, <1>4, <1>5, <1>7 DEF Rewrites
<1> QED BY <1>1, <1>2, <1>5, <1>8 DEF Edited

LEMMA DeleteGoes ==
    ASSUME Inv, NEW t \in Tabs, NEW id \in DOMAIN tx, Delete(t, id)
    PROVE  Edited(t)
<1> DEFINE row == [Bumped(tx[id]) EXCEPT !.status = "REMOVED"]
<1>1. Matches(t, id) /\ Writes(t, id, row) /\ UNCHANGED <<rules, req>>
  BY DEF Delete
<1>2. /\ req[t] = Nothing
      /\ ShowsTransaction(page[t]) /\ page[t].id = id /\ page[t].row = tx[id]
      /\ tx[id] \in Transaction /\ tx[id].reimbursement <= tx[id].amount
      /\ tx[id].class.rule \in DOMAIN rules \cup {NoRule}
  BY <1>1, MatchingTab
<1>3. /\ row.version = tx[id].version + 1 /\ row.name = tx[id].name
      /\ row.amount = tx[id].amount /\ row.reimbursement = tx[id].reimbursement
      /\ row.class = tx[id].class
      /\ row = [tx[id] EXCEPT !.version = @ + 1, !.status = "REMOVED"]
  BY <1>2 DEF Bumped, Transaction
<1>4. row.version \in 1..MaxVersion
  BY <1>1, <1>2, <1>3, NextVersion DEF Writes
<1> HIDE DEF row
<1>5. row \in Transaction
  BY <1>2, <1>3, <1>4 DEF Transaction
<1>6. Rewrites(t, id, row)
  BY <1>1, <1>2, <1>3, <1>5 DEF Rewrites
<1> QED BY <1>1, <1>2, <1>3, <1>6 DEF Edited

LEMMA SetReimbursementGoes ==
    ASSUME Inv, NEW t \in Tabs, NEW id \in DOMAIN tx,
           NEW reimbursement \in 0..MaxAmount, SetReimbursement(t, id, reimbursement)
    PROVE  Edited(t)
<1> DEFINE row == [Bumped(tx[id]) EXCEPT !.reimbursement = reimbursement]
<1>1. Matches(t, id) /\ Writes(t, id, row) /\ UNCHANGED <<rules, req>>
      /\ tx[id].amount >= reimbursement
  BY DEF SetReimbursement
<1>2. /\ req[t] = Nothing
      /\ ShowsTransaction(page[t]) /\ page[t].id = id /\ page[t].row = tx[id]
      /\ tx[id] \in Transaction
      /\ tx[id].class.rule \in DOMAIN rules \cup {NoRule}
  BY <1>1, MatchingTab
<1>3. /\ row.version = tx[id].version + 1 /\ row.name = tx[id].name
      /\ row.amount = tx[id].amount /\ row.reimbursement = reimbursement
      /\ row.class = tx[id].class
      /\ row = [tx[id] EXCEPT !.version = @ + 1, !.reimbursement = reimbursement]
  BY <1>2 DEF Bumped, Transaction
<1>4. row.version \in 1..MaxVersion
  BY <1>1, <1>2, <1>3, NextVersion DEF Writes
<1> HIDE DEF row
<1>5. row \in Transaction
  BY <1>2, <1>3, <1>4 DEF Transaction
<1>6. row.reimbursement <= row.amount
  BY <1>1, <1>2, <1>3, LedgerAssumption DEF Transaction
<1>7. Rewrites(t, id, row)
  BY <1>1, <1>2, <1>3, <1>5, <1>6 DEF Rewrites
<1> QED BY <1>1, <1>2, <1>3, <1>7 DEF Edited

LEMMA OverrideGoes ==
    ASSUME Inv, NEW t \in Tabs, NEW id \in DOMAIN tx,
           NEW category \in Categories, Override(t, id, category)
    PROVE  Edited(t)
<1> DEFINE class == ClassOf(category, "MANUAL", NoRule)
           row == [Bumped(tx[id]) EXCEPT !.class = class, !.review = FALSE]
<1>1. Matches(t, id) /\ Writes(t, id, row) /\ UNCHANGED <<rules, req>>
  BY DEF Override
<1>2. /\ req[t] = Nothing
      /\ ShowsTransaction(page[t]) /\ page[t].id = id /\ page[t].row = tx[id]
      /\ tx[id] \in Transaction /\ tx[id].reimbursement <= tx[id].amount
  BY <1>1, MatchingTab
<1>3. class \in Class /\ class.rule = NoRule /\ class.origin = "MANUAL"
  BY DEF Class, ClassOf
<1> HIDE DEF class
<1>4. /\ row.version = tx[id].version + 1 /\ row.name = tx[id].name
      /\ row.amount = tx[id].amount /\ row.reimbursement = tx[id].reimbursement
      /\ row.class = class
      /\ row = [tx[id] EXCEPT !.version = @ + 1, !.class = class, !.review = FALSE]
  BY <1>2 DEF Bumped, Transaction
<1>5. row.version \in 1..MaxVersion
  BY <1>1, <1>2, <1>4, NextVersion DEF Writes
<1> HIDE DEF row
<1>6. row \in Transaction
  BY <1>2, <1>3, <1>4, <1>5 DEF Transaction
<1>7. Rewrites(t, id, row)
  BY <1>1, <1>2, <1>3, <1>4, <1>6 DEF Rewrites
<1> QED BY <1>1, <1>2, <1>3, <1>4, <1>7 DEF Edited

-----------------------------------------------------------------------------
(* Corrections that are remembered.                                        *)

LEMMA ReadTransactionGoes ==
    ASSUME Inv, NEW t \in Tabs, NEW id \in DOMAIN tx,
           NEW category \in Categories, ReadTransaction(t, id, category)
    PROVE  Looked(t)
<1> DEFINE q == [step |-> "READ_RULE", id |-> id, row |-> tx[id],
                 category |-> category, found |-> NoRule]
<1>1. Matches(t, id) /\ req' = [req EXCEPT ![t] = q] /\ UNCHANGED <<tx, rules, audits, page>>
  BY DEF ReadTransaction
<1>2. /\ ShowsTransaction(page[t]) /\ page[t].id = id /\ page[t].row = tx[id]
      /\ tx[id] \in Transaction
  BY <1>1, MatchingTab
<1>3. id \in Ids \cup {ImportedId}
  BY DEF Inv, TypeOK, TransactionsOK
<1>4. q \in Request
  BY <1>2, <1>3 DEF Request
<1>5. Remembers(q, page[t], rules)
  BY <1>2 DEF Remembers, Corrects, Updates
<1> HIDE DEF q
<1>6. /\ page \in [Tabs -> {Nothing} \cup Page] /\ req \in [Tabs -> {Nothing} \cup Request]
      /\ PageIsCopy(page[t], tx, rules)
  BY DEF Inv, TypeOK, PagesAreCopies
<1> QED BY <1>1, <1>4, <1>5, <1>6 DEF Looked

(* What a correction holds between its reads and its batch.                 *)
LEMMA CorrectingTab ==
    ASSUME Inv, NEW t \in Tabs, Corrects(req[t])
    PROVE  /\ req[t] \in [step : {"READ_RULE", "SAVE"}, id : Ids \cup {ImportedId},
                          row : Transaction, category : Categories,
                          found : {NoRule} \cup [id : RuleIds, row : Rule]]
           /\ ShowsTransaction(page[t])
           /\ page[t].id = req[t].id /\ page[t].row = req[t].row
           /\ IsCopy(page[t], tx)
           /\ req[t].found # NoRule => IsCopy(req[t].found, rules)
<1>1. req[t] \in {Nothing} \cup Request /\ Remembers(req[t], page[t], rules)
      /\ PageIsCopy(page[t], tx, rules)
  BY DEF Inv, TypeOK, RequestsRemember, PagesAreCopies
<1>2. req[t] \in Request /\ req[t].step \in {"READ_RULE", "SAVE"}
  BY <1>1 DEF Corrects
<1> QED BY <1>1, <1>2 DEF Request, Remembers, PageIsCopy

LEMMA ReadRuleGoes ==
    ASSUME Inv, NEW t \in Tabs, ReadRule(t)
    PROVE  Looked(t)
<1> DEFINE q == req[t]
           m == Merchant(q.row)
           found == Lookup(RuleFor(m))
           new == [q EXCEPT !.step = "SAVE", !.found = found]
<1>1. Corrects(q)
  BY DEF ReadRule, Corrects
<1>2. /\ q \in [step : {"READ_RULE", "SAVE"}, id : Ids \cup {ImportedId},
                row : Transaction, category : Categories,
                found : {NoRule} \cup [id : RuleIds, row : Rule]]
      /\ ShowsTransaction(page[t]) /\ page[t].id = q.id /\ page[t].row = q.row
  BY <1>1, CorrectingTab
<1>3. /\ found \in {NoRule} \cup [id : RuleIds, row : Rule]
      /\ found # NoRule => IsCopy(found, rules)
  <2>1. CASE RuleFor(m) = NoRule
    BY <2>1 DEF Lookup
  <2>2. CASE RuleFor(m) # NoRule
    <3>1. RuleFor(m) \in DOMAIN rules /\ RuleFor(m) \in RuleIds /\ rules[RuleFor(m)] \in Rule
      BY <2>2, LookupFinds DEF Inv, TypeOK
    <3>2. found = [id |-> RuleFor(m), row |-> rules[RuleFor(m)]]
      BY <2>2 DEF Lookup
    <3>3. rules[RuleFor(m)].version \in Int
      BY <3>1, VersionsAreInts
    <3> QED BY <3>1, <3>2, <3>3 DEF IsCopy
  <2> QED BY <2>1, <2>2
<1>4. req' = [req EXCEPT ![t] = new] /\ UNCHANGED <<tx, rules, audits, page>>
  BY DEF ReadRule
<1> HIDE DEF q, m, found
<1>5. /\ new \in Request
      /\ new.step = "SAVE" /\ new.id = q.id /\ new.row = q.row /\ new.found = found
  BY <1>2, <1>3 DEF Request
<1> HIDE DEF new
<1>6. Remembers(new, page[t], rules)
  BY <1>2, <1>3, <1>5 DEF Remembers, Corrects, Updates
<1>7. /\ page \in [Tabs -> {Nothing} \cup Page] /\ req \in [Tabs -> {Nothing} \cup Request]
      /\ PageIsCopy(page[t], tx, rules)
  BY DEF Inv, TypeOK, PagesAreCopies
<1> QED BY <1>4, <1>5, <1>6, <1>7 DEF Looked

(* A request that ends and writes nothing.                                  *)
LEMMA EndGoes ==
    ASSUME Inv, NEW t \in Tabs, req' = [req EXCEPT ![t] = Nothing],
           UNCHANGED <<tx, rules, audits, page>>
    PROVE  Looked(t)
<1>1. /\ req' \in [Tabs -> {Nothing} \cup Request]
      /\ \A u \in Tabs \ {t} : req'[u] = req[u]
      /\ Remembers(req'[t], page'[t], rules)
  BY EndedRequest DEF Inv
<1> QED BY <1>1 DEF Looked, Inv, TypeOK, PagesAreCopies

LEMMA SaveEndsUnchangedGoes ==
    ASSUME Inv, NEW t \in Tabs, SaveEndsUnchanged(t)
    PROVE  Looked(t)
BY EndGoes DEF SaveEndsUnchanged

LEMMA SaveForFutureGoes ==
    ASSUME Inv, NEW t \in Tabs, SaveForFuture(t)
    PROVE  Saved(t)
<1> DEFINE q == req[t]
           rule == SavedRule(q)
<1>1. q # Nothing /\ q.step = "SAVE" /\ Saveable(q, rule) /\ rule.version <= MaxVersion
      /\ req' = [req EXCEPT ![t] = Nothing]
  BY DEF SaveForFuture
<1>2. PICK r \in IF q.found = NoRule THEN RuleIds \ DOMAIN rules ELSE {q.found.id} :
         /\ rules' = [k \in DOMAIN rules \cup {r} |-> IF k = r THEN rule ELSE rules[k]]
         /\ Writes(t, q.id, SavedTransaction(q, r))
  BY DEF SaveForFuture
<1>3. /\ q \in [step : {"READ_RULE", "SAVE"}, id : Ids \cup {ImportedId},
                row : Transaction, category : Categories,
                found : {NoRule} \cup [id : RuleIds, row : Rule]]
      /\ ShowsTransaction(page[t]) /\ page[t].id = q.id /\ page[t].row = q.row
      /\ IsCopy(page[t], tx)
      /\ q.found # NoRule => IsCopy(q.found, rules)
  BY <1>1, CorrectingTab DEF Corrects
<1>4. /\ q.id \in DOMAIN tx /\ q.row = tx[q.id]
      /\ tx[q.id] \in Transaction /\ tx[q.id].reimbursement <= tx[q.id].amount
  BY <1>1, <1>3 DEF Saveable, IsCopy, Inv, TypeOK, TransactionsOK
<1>5. /\ rule # NoRule /\ rule.merchant = Merchant(q.row)
      /\ rule.category = q.category /\ rule.active
  BY <1>1 DEF Saveable
<1>6. /\ r \in RuleIds
      /\ rule \in Rule /\ rule.merchant = NormalOf[rule.name]
      /\ \A k \in DOMAIN rules \ {r} : rules[k].merchant # rule.merchant
      /\ r \in DOMAIN rules => rule = rules[r] \/ rule.version = rules[r].version + 1
      /\ \/ r \notin DOMAIN rules
         \/ rule = rules[r]
         \/ q.found = [id |-> r, row |-> rules[r]]
  <2>1. CASE q.found = NoRule
    <3>1. r \in RuleIds /\ r \notin DOMAIN rules
      BY <1>2, <2>1
    <3>2. RuleFor(Merchant(q.row)) = NoRule
      BY <1>5, <2>1 DEF SavedRule
    <3>3. rule = [merchant |-> Merchant(q.row), name |-> q.row.name,
                  category |-> q.category, active |-> TRUE, version |-> 1]
      BY <2>1, <3>2 DEF SavedRule
    <3>4. q.row.name \in Names /\ Merchant(q.row) \in Merchants /\ 1 \in 1..MaxVersion
      BY <1>3, LedgerAssumption DEF Transaction, Merchant
    <3>5. \A k \in DOMAIN rules : rules[k].merchant # Merchant(q.row)
      BY <3>2, LookupFinds DEF Inv, TypeOK
    <3> QED BY <1>3, <3>1, <3>3, <3>4, <3>5 DEF Rule, Merchant
  <2>2. CASE q.found # NoRule
    <3>1. r = q.found.id /\ r \in RuleIds /\ r \in DOMAIN rules
          /\ q.found \in [id : RuleIds, row : Rule] /\ IsCopy(q.found, rules)
      BY <1>2, <1>3, <2>2 DEF IsCopy
    <3>2. rules[r] \in Rule /\ rules[r].merchant = NormalOf[rules[r].name]
      BY <3>1 DEF Inv, TypeOK, RulesOK
    <3>3. CASE ~RuleNeedsChange(q)
      <4>1. rule = rules[r]
        BY <2>2, <3>1, <3>3 DEF SavedRule
      <4> QED BY <3>1, <3>2, <4>1 DEF Inv, OneRuleEach
    <3>4. CASE RuleNeedsChange(q)
      <4>1. rules[r].version = q.found.row.version
        BY <1>5, <2>2, <3>1, <3>4 DEF SavedRule
      <4>2. q.found = [id |-> r, row |-> rules[r]]
        BY <3>1, <4>1 DEF IsCopy
      <4>3. rule = [rules[r] EXCEPT !.version = @ + 1, !.name = q.row.name,
                                    !.category = q.category, !.active = TRUE]
        BY <2>2, <3>1, <3>2, <3>4, <4>1 DEF SavedRule, Bumped, Rule
      <4>4. /\ rule.version = rules[r].version + 1 /\ rule.merchant = rules[r].merchant
            /\ rule.name = q.row.name
        BY <3>2, <4>3 DEF Rule
      <4>5. rules[r].version \in 1..MaxVersion /\ q.row.name \in Names
        BY <1>3, <3>2 DEF Rule, Transaction
      <4> HIDE DEF rule, q
      <4>6. rule.version \in 1..MaxVersion
        BY <1>1, <4>4, <4>5, LedgerAssumption
      <4>7. rule \in Rule
        BY <1>3, <3>2, <4>3, <4>4, <4>5, <4>6 DEF Rule
      <4>8. rule.merchant = NormalOf[rule.name]
        BY <1>5, <4>4 DEF Merchant
      <4>9. \A k \in DOMAIN rules \ {r} : rules[k].merchant # rule.merchant
        BY <3>1, <4>4 DEF Inv, OneRuleEach
      <4> QED BY <3>1, <4>2, <4>4, <4>7, <4>8, <4>9
    <3> QED BY <3>3, <3>4
  <2> QED BY <2>1, <2>2
<1> HIDE DEF rule
<1>7. DOMAIN rules' = DOMAIN rules \cup {r} /\ rules'[r] = rule
      /\ \A k \in DOMAIN rules \ {r} : rules'[k] = rules[k]
  BY <1>2
<1>8. Stores(r, rule)
  BY <1>6, <1>7 DEF Stores
<1> DEFINE class == ClassOf(q.category, "RULE", r)
           row == SavedTransaction(q, r)
<1>9. class \in Class /\ class.rule = r /\ class.category = q.category /\ class.origin = "RULE"
  BY <1>3, <1>6 DEF Class, ClassOf
<1>10. row = [tx[q.id] EXCEPT !.version = @ + 1, !.class = class, !.review = FALSE]
  BY <1>4 DEF SavedTransaction, Bumped, Transaction
<1> HIDE DEF class, row
<1>11. /\ row.version = tx[q.id].version + 1 /\ row.name = tx[q.id].name
       /\ row.amount = tx[q.id].amount /\ row.reimbursement = tx[q.id].reimbursement
       /\ row.class = class
  BY <1>4, <1>10 DEF Transaction
<1>12. Writes(t, q.id, row)
  BY <1>2 DEF row
<1>13. row.version \in 1..MaxVersion
  BY <1>4, <1>11, <1>12, NextVersion DEF Writes
<1>14. row \in Transaction
  BY <1>4, <1>9, <1>10, <1>11, <1>13 DEF Transaction
<1>15. Rewrites(t, q.id, row)
  BY <1>3, <1>4, <1>7, <1>9, <1>11, <1>12, <1>14 DEF Rewrites
<1>16. MarkAgrees(row, rules')
  BY <1>4, <1>5, <1>7, <1>9, <1>11 DEF MarkAgrees, Merchant
<1> QED BY <1>1, <1>6, <1>8, <1>15, <1>16 DEF Saved

-----------------------------------------------------------------------------
(* Rules, on the settings page.                                            *)

LEMMA BeginCreateRuleGoes ==
    ASSUME Inv, NEW t \in Tabs, NEW name \in Names, NEW category \in Categories,
           BeginCreateRule(t, name, category)
    PROVE  Looked(t)
<1> DEFINE q == [step |-> "INSERT_RULE", name |-> name, category |-> category]
<1>1. q \in Request
  BY DEF Request
<1>2. Remembers(q, page[t], rules)
  BY DEF Remembers, Corrects, Updates
<1>3. req' = [req EXCEPT ![t] = q] /\ UNCHANGED <<tx, rules, audits, page>>
  BY DEF BeginCreateRule
<1> HIDE DEF q
<1>4. /\ page \in [Tabs -> {Nothing} \cup Page] /\ req \in [Tabs -> {Nothing} \cup Request]
      /\ PageIsCopy(page[t], tx, rules)
  BY DEF Inv, TypeOK, PagesAreCopies
<1> QED BY <1>1, <1>2, <1>3, <1>4 DEF Looked

LEMMA InsertRuleGoes ==
    ASSUME Inv, NEW t \in Tabs, InsertRule(t)
    PROVE  Looked(t) \/ RuleStored(t)
<1> DEFINE q == req[t]
           m == NormalOf[q.name]
           rule == [merchant |-> m, name |-> q.name, category |-> q.category,
                    active |-> TRUE, version |-> 1]
<1>1. q # Nothing /\ q.step = "INSERT_RULE" /\ req' = [req EXCEPT ![t] = Nothing]
      /\ UNCHANGED <<tx, audits, page>>
  BY DEF InsertRule
<1>2. CASE RuleFor(m) # NoRule
  <2>1. UNCHANGED rules
    BY <1>2 DEF InsertRule
  <2> QED BY <1>1, <2>1, EndGoes
<1>3. CASE RuleFor(m) = NoRule
  <2>1. PICK r \in RuleIds \ DOMAIN rules :
           rules' = [k \in DOMAIN rules \cup {r} |-> IF k # r THEN rules[k] ELSE rule]
    BY <1>3 DEF InsertRule
  <2>2. q.name \in Names /\ q.category \in Categories
    BY <1>1 DEF Inv, TypeOK, Request
  <2>3. rule \in Rule /\ rule.merchant = NormalOf[rule.name]
    <3>1. m \in Merchants /\ 1 \in 1..MaxVersion
      BY <2>2, LedgerAssumption
    <3> QED BY <2>2, <3>1 DEF Rule
  <2>4. \A k \in DOMAIN rules : rules[k].merchant # rule.merchant
    BY <1>3, LookupFinds DEF Inv, TypeOK
  <2> HIDE DEF rule
  <2>5. Stores(r, rule)
    BY <2>1, <2>3, <2>4 DEF Stores
  <2> QED BY <1>1, <2>1, <2>5 DEF RuleStored
<1> QED BY <1>2, <1>3

LEMMA BeginUpdateRuleGoes ==
    ASSUME Inv, NEW t \in Tabs, NEW r \in DOMAIN rules,
           NEW name \in Names, NEW category \in Categories, NEW active \in BOOLEAN,
           BeginUpdateRule(t, r, name, category, active)
    PROVE  Looked(t)
<1> DEFINE row == [merchant |-> NormalOf[name], name |-> name, category |-> category,
                   active |-> active, version |-> rules[r].version]
           q == [step |-> "FIND_CONFLICT", id |-> r, row |-> row]
<1>1. /\ ShowsRule(page[t]) /\ page[t].id = r /\ page[t].row.version = rules[r].version
      /\ req' = [req EXCEPT ![t] = q] /\ UNCHANGED <<tx, rules, audits, page>>
  BY DEF BeginUpdateRule, ShowsRule
<1>2. rules[r] \in Rule /\ r \in RuleIds
  BY DEF Inv, TypeOK, RulesOK
<1>3. row \in Rule /\ row.version = rules[r].version /\ row.merchant = NormalOf[row.name]
  BY <1>2, LedgerAssumption DEF Rule
<1> HIDE DEF row
<1>4. q \in Request
  BY <1>2, <1>3 DEF Request
<1>5. Remembers(q, page[t], rules)
  BY <1>1, <1>3 DEF Remembers, Corrects, Updates
<1> HIDE DEF q
<1>6. /\ page \in [Tabs -> {Nothing} \cup Page] /\ req \in [Tabs -> {Nothing} \cup Request]
      /\ PageIsCopy(page[t], tx, rules)
  BY DEF Inv, TypeOK, PagesAreCopies
<1> QED BY <1>1, <1>4, <1>5, <1>6 DEF Looked

(* What an update of a rule holds between its statements.                   *)
LEMMA UpdatingTab ==
    ASSUME Inv, NEW t \in Tabs, Updates(req[t])
    PROVE  /\ req[t] \in [step : {"FIND_CONFLICT", "WRITE_RULE"}, id : RuleIds, row : Rule]
           /\ ShowsRule(page[t]) /\ page[t].id = req[t].id
           /\ page[t].row.version = req[t].row.version
           /\ IsCopy(page[t], rules)
           /\ req[t].row.merchant = NormalOf[req[t].row.name]
<1>1. req[t] \in {Nothing} \cup Request /\ Remembers(req[t], page[t], rules)
      /\ PageIsCopy(page[t], tx, rules)
  BY DEF Inv, TypeOK, RequestsRemember, PagesAreCopies
<1>2. req[t] \in Request /\ req[t].step \in {"FIND_CONFLICT", "WRITE_RULE"}
  BY <1>1 DEF Updates
<1> QED BY <1>1, <1>2 DEF Request, Remembers, PageIsCopy

LEMMA FindConflictGoes ==
    ASSUME Inv, NEW t \in Tabs, FindConflict(t)
    PROVE  Looked(t)
<1> DEFINE q == req[t]
           new == [q EXCEPT !.step = "WRITE_RULE"]
<1>1. Updates(q) /\ UNCHANGED <<tx, rules, audits, page>>
  BY DEF FindConflict, Updates
<1>2. CASE RuleFor(q.row.merchant) \in {NoRule, q.id}
  <2>1. req' = [req EXCEPT ![t] = new]
    BY <1>2 DEF FindConflict
  <2>2. /\ q \in [step : {"FIND_CONFLICT", "WRITE_RULE"}, id : RuleIds, row : Rule]
        /\ ShowsRule(page[t]) /\ page[t].id = q.id
        /\ page[t].row.version = q.row.version
        /\ q.row.merchant = NormalOf[q.row.name]
    BY <1>1, UpdatingTab
  <2> HIDE DEF q
  <2>3. new \in Request /\ new.step = "WRITE_RULE" /\ new.id = q.id /\ new.row = q.row
    BY <2>2 DEF Request
  <2> HIDE DEF new
  <2>4. Remembers(new, page[t], rules)
    BY <2>2, <2>3 DEF Remembers, Corrects, Updates
  <2>5. /\ page \in [Tabs -> {Nothing} \cup Page] /\ req \in [Tabs -> {Nothing} \cup Request]
        /\ PageIsCopy(page[t], tx, rules)
    BY DEF Inv, TypeOK, PagesAreCopies
  <2> QED BY <1>1, <2>1, <2>3, <2>4, <2>5 DEF Looked
<1>3. CASE RuleFor(q.row.merchant) \notin {NoRule, q.id}
  <2>1. req' = [req EXCEPT ![t] = Nothing]
    BY <1>3 DEF FindConflict
  <2> QED BY <1>1, <2>1, EndGoes
<1> QED BY <1>2, <1>3

LEMMA WriteRuleGoes ==
    ASSUME Inv, NEW t \in Tabs, WriteRule(t)
    PROVE  Looked(t) \/ RuleStored(t)
<1> DEFINE q == req[t]
           rule == Bumped(q.row)
<1>1. Updates(q) /\ req' = [req EXCEPT ![t] = Nothing] /\ UNCHANGED <<tx, audits>>
  BY DEF WriteRule, Updates
<1>2. /\ q \in [step : {"FIND_CONFLICT", "WRITE_RULE"}, id : RuleIds, row : Rule]
      /\ ShowsRule(page[t]) /\ page[t].id = q.id
      /\ page[t].row.version = q.row.version
      /\ IsCopy(page[t], rules)
      /\ q.row.merchant = NormalOf[q.row.name]
  BY <1>1, UpdatingTab
<1>3. CASE ~Writable(q)
  <2>1. UNCHANGED <<rules, page>>
    BY <1>3 DEF WriteRule
  <2> QED BY <1>1, <2>1, EndGoes
<1>4. CASE Writable(q)
  <2>1. /\ rule.version <= MaxVersion
        /\ rules' = [rules EXCEPT ![q.id] = rule]
        /\ page' = [page EXCEPT ![t].row = rule]
    BY <1>4 DEF WriteRule
  <2>2. q.id \in DOMAIN rules /\ page[t].row = rules[q.id]
    BY <1>2, <1>4 DEF IsCopy, Writable
  <2>3. /\ rule = [q.row EXCEPT !.version = @ + 1]
        /\ rule.version = q.row.version + 1 /\ rule.merchant = q.row.merchant
        /\ rule.name = q.row.name /\ q.row \in Rule /\ q.row.version \in 1..MaxVersion
    BY <1>2 DEF Bumped, Rule
  <2> HIDE DEF rule, q
  <2>4. rule.version \in 1..MaxVersion
    BY <2>1, <2>3, LedgerAssumption
  <2>5. rule \in Rule /\ rule.merchant = NormalOf[rule.name]
    BY <1>2, <2>3, <2>4 DEF Rule
  <2>6. \A k \in DOMAIN rules \ {q.id} : rules[k].merchant # rule.merchant
    <3>1. RuleFor(rule.merchant) \in {NoRule, q.id}
      BY <1>4, <2>3 DEF Writable
    <3> QED BY <3>1, LookupFinds DEF Inv, TypeOK
  <2>7. Stores(q.id, rule)
    BY <1>2, <1>4, <2>1, <2>2, <2>3, <2>5, <2>6 DEF Stores, Writable
  <2> QED BY <1>1, <1>2, <2>1, <2>2, <2>7 DEF RuleStored, q
<1> QED BY <1>3, <1>4

-----------------------------------------------------------------------------
(* Invariance.                                                             *)

LEMMA InitOK ==
    ASSUME Init
    PROVE  Inv
<1>1. PICK name \in Names :
         tx = [id \in {ImportedId} |->
                 [source |-> "CSV", status |-> "POSTED", amount |-> MaxAmount,
                  reimbursement |-> 0, name |-> name,
                  class |-> ClassOf(Unclassified, "UNCLASSIFIED", NoRule),
                  review |-> TRUE, version |-> 1]]
  BY DEF Init
<1>2. DOMAIN rules = {}
  BY DEF Init
<1>3. /\ audits = [id \in {ImportedId} |-> <<>>]
      /\ page = [t \in Tabs |-> Nothing] /\ req = [t \in Tabs |-> Nothing]
  BY DEF Init
<1> DEFINE row == [source |-> "CSV", status |-> "POSTED", amount |-> MaxAmount,
                   reimbursement |-> 0, name |-> name,
                   class |-> ClassOf(Unclassified, "UNCLASSIFIED", NoRule),
                   review |-> TRUE, version |-> 1]
<1>4. ClassOf(Unclassified, "UNCLASSIFIED", NoRule) \in Class
  BY DEF Class, ClassOf, Categories
<1>5. row \in Transaction /\ row.reimbursement <= row.amount /\ row.class.rule = NoRule
  BY <1>4, LedgerAssumption DEF Transaction, ClassOf
<1>6. DOMAIN tx = {ImportedId} /\ tx[ImportedId] = row
  BY <1>1
<1> HIDE DEF row
<1>7. TransactionsOK /\ RulesOK /\ MarksOK
  BY <1>2, <1>5, <1>6 DEF TransactionsOK, RulesOK, MarksOK
<1>8. AuditsOK
  <2>1. <<>> \in Seq([old : Class, new : Class])
    BY EmptySeq
  <2> QED BY <1>3, <1>6, <2>1 DEF AuditsOK
<1>9. page \in [Tabs -> {Nothing} \cup Page] /\ req \in [Tabs -> {Nothing} \cup Request]
  BY <1>3
<1>10. PagesAreCopies /\ RequestsRemember
  BY <1>3 DEF PagesAreCopies, RequestsRemember, PageIsCopy, Remembers, ShowsTransaction,
              ShowsRule, Corrects, Updates
<1>11. OneRuleEach
  BY <1>2 DEF OneRuleEach
<1> QED BY <1>7, <1>8, <1>9, <1>10, <1>11 DEF Inv, TypeOK

(* Every step is of one kind.                                               *)
Goes(t) == Purchased \/ Edited(t) \/ Saved(t) \/ RuleStored(t) \/ Looked(t)

LEMMA NextGoes ==
    ASSUME Inv, Next
    PROVE  \E t \in Tabs : Goes(t)
<1>1. PICK t \in Tabs : Purchases(t) \/ Edits(t) \/ RuleSteps(t)
  BY DEF Next, Step
<1>2. CASE Purchases(t)
  BY <1>2, CreateGoes, CreateInCategoryGoes, CreateAndRememberGoes DEF Purchases, Goes
<1>3. CASE Edits(t)
  BY <1>3, OpenTransactionGoes, DeleteGoes, SetReimbursementGoes, OverrideGoes,
     ReadTransactionGoes, UpdateGoes DEF Edits, Goes
<1>4. CASE RuleSteps(t)
  BY <1>4, ReadRuleGoes, SaveForFutureGoes, SaveEndsUnchangedGoes, InsertRuleGoes,
     FindConflictGoes, WriteRuleGoes, BeginCreateRuleGoes, OpenRuleGoes,
     BeginUpdateRuleGoes DEF RuleSteps, Goes
<1> QED BY <1>1, <1>2, <1>3, <1>4

LEMMA NextKeeps ==
    ASSUME Inv, [Next]_vars
    PROVE  Inv'
<1>1. CASE Next
  BY <1>1, NextGoes, PurchasedKeeps, EditedKeeps, SavedKeeps, RuleStoredKeeps,
     LookedKeeps DEF Goes
<1>2. CASE UNCHANGED vars
  BY <1>2 DEF Inv, TypeOK, TransactionsOK, RulesOK, MarksOK, AuditsOK,
              PagesAreCopies, RequestsRemember, OneRuleEach, vars
<1> QED BY <1>1, <1>2

(* The inductive invariant: every copy that a tab or a request holds is the *)
(* row of its table, or an earlier row of a lower version.                  *)
THEOREM CopiesKept == Spec => []Inv
BY InitOK, NextKeeps, PTL DEF Spec

(* Every table has its type, every copy that a tab shows or a request has   *)
(* read is a row, and no reimbursement exceeds its amount.                  *)
THEOREM TypeCorrect == Spec => []TypeOK
<1>1. Inv => TypeOK
  BY DEF Inv
<1> QED BY <1>1, CopiesKept, PTL

-----------------------------------------------------------------------------
(* What a step may do.                                                     *)

LEMMA StepsAreGuarded ==
    ASSUME Inv, [Next]_vars
    PROVE  UNCHANGED vars \/ \E t \in Tabs : Goes(t)
BY NextGoes

(* The row that a rewriting tab leaves.                                     *)
LEMMA RewrittenRow ==
    ASSUME Inv, NEW t \in Tabs, NEW id, NEW row, Rewrites(t, id, row)
    PROVE  /\ DOMAIN tx' = DOMAIN tx /\ id \in DOMAIN tx /\ tx'[id] = row
           /\ \A i \in DOMAIN tx \ {id} : tx'[i] = tx[i]
           /\ page[t] # Nothing /\ page[t].kind = "TRANSACTION"
           /\ page[t].id = id /\ page[t].row = tx[id] /\ page'[t].row = tx'[id]
<1>1. page'[t].row = row
  BY RewritingPage DEF Inv
<1> QED BY <1>1 DEF Rewrites, Writes, ShowsTransaction

LEMMA KeepsEdits ==
    ASSUME Inv, [Next]_vars
    PROVE  EditsKept
<1> SUFFICES ASSUME NEW i \in DOMAIN tx, tx'[i] # tx[i]
             PROVE  \E t \in Tabs :
                       /\ page[t] # Nothing /\ page[t].kind = "TRANSACTION"
                       /\ page[t].id = i /\ page[t].row = tx[i]
                       /\ page'[t].row = tx'[i]
  BY DEF EditsKept
<1>1. PICK t \in Tabs : Goes(t)
  BY StepsAreGuarded DEF vars
<1>2. ASSUME NEW id, NEW row, Rewrites(t, id, row)
      PROVE  /\ page[t] # Nothing /\ page[t].kind = "TRANSACTION"
             /\ page[t].id = i /\ page[t].row = tx[i]
             /\ page'[t].row = tx'[i]
  BY <1>2, RewrittenRow
<1>3. ~Purchased /\ ~RuleStored(t) /\ ~Looked(t)
  BY DEF Purchased, Adds, RuleStored, Looked
<1>4. \E id, row : Rewrites(t, id, row)
  BY <1>1, <1>3 DEF Goes, Edited, Saved
<1> QED BY <1>2, <1>4

LEMMA KeepsRuleEdits ==
    ASSUME Inv, [Next]_vars
    PROVE  RuleEditsKept
<1> SUFFICES ASSUME NEW k \in DOMAIN rules, rules'[k] # rules[k], DOMAIN tx' = DOMAIN tx
             PROVE  \E t \in Tabs :
                       \/ page[t] # Nothing /\ page[t].kind = "RULE"
                            /\ page[t].id = k /\ page[t].row = rules[k]
                            /\ page'[t].row = rules'[k]
                       \/ req[t] # Nothing /\ req[t].step = "SAVE"
                            /\ req[t].found = [id |-> k, row |-> rules[k]]
                            /\ req'[t] = Nothing
  BY DEF RuleEditsKept
<1>1. PICK t \in Tabs : Goes(t)
  BY StepsAreGuarded DEF vars
<1>2. ASSUME NEW r, NEW rule, Stores(r, rule)
      PROVE  r = k /\ rule = rules'[k] /\ rule # rules[k] /\ r \in DOMAIN rules
  BY <1>2 DEF Stores
<1>3. ~Purchased /\ ~Edited(t) /\ ~Looked(t)
  BY DEF Purchased, Adds, Edited, Looked
<1>4. page \in [Tabs -> {Nothing} \cup Page] /\ req \in [Tabs -> {Nothing} \cup Request]
  BY DEF Inv, TypeOK
<1>5. CASE Saved(t)
  <2>1. PICK r, rule :
           /\ Stores(r, rule)
           /\ \/ r \notin DOMAIN rules
              \/ rule = rules[r]
              \/ /\ req[t] # Nothing /\ req[t].step = "SAVE"
                 /\ req[t].found = [id |-> r, row |-> rules[r]]
           /\ req' = [req EXCEPT ![t] = Nothing]
    BY <1>5 DEF Saved
  <2>2. r = k /\ rule # rules[k] /\ r \in DOMAIN rules
    BY <1>2, <2>1
  <2>3. req'[t] = Nothing
    BY <1>4, <2>1
  <2> QED BY <2>1, <2>2, <2>3
<1>6. CASE RuleStored(t)
  <2>1. PICK r, rule :
           /\ Stores(r, rule)
           /\ \/ r \notin DOMAIN rules
              \/ /\ ShowsRule(page[t]) /\ page[t].id = r /\ page[t].row = rules[r]
                 /\ page' = [page EXCEPT ![t].row = rule]
    BY <1>6 DEF RuleStored
  <2>2. r = k /\ rule = rules'[k] /\ r \in DOMAIN rules
    BY <1>2, <2>1
  <2>3. page[t] \in [kind : {"RULE"}, id : RuleIds, row : Rule]
    BY <1>4, <2>1, <2>2 DEF ShowsRule, Page
  <2>4. page'[t].row = rule
    BY <1>4, <2>1, <2>2, <2>3
  <2> QED BY <2>1, <2>2, <2>4 DEF ShowsRule
<1> QED BY <1>1, <1>3, <1>5, <1>6 DEF Goes

LEMMA MarksTruly ==
    ASSUME Inv, [Next]_vars
    PROVE  MarksAgree
<1> SUFFICES ASSUME NEW i \in DOMAIN tx', tx'[i].class.origin = "RULE",
                    i \notin DOMAIN tx \/ tx'[i].class # tx[i].class
             PROVE  MarkAgrees(tx'[i], rules')
  BY DEF MarksAgree, MarkAgrees
<1>1. PICK t \in Tabs : Goes(t)
  BY StepsAreGuarded DEF vars
<1>2. ~RuleStored(t) /\ ~Looked(t)
  BY DEF RuleStored, Looked
<1>3. CASE Purchased
  BY <1>3 DEF Purchased, Adds
<1>4. CASE Edited(t)
  <2>1. PICK id, row : /\ Rewrites(t, id, row)
                       /\ row.class.origin = "RULE" => row.class = tx[id].class
    BY <1>4 DEF Edited
  <2> QED BY <2>1, RewrittenRow
<1>5. CASE Saved(t)
  <2>1. PICK id, row : Rewrites(t, id, row) /\ MarkAgrees(row, rules')
    BY <1>5 DEF Saved
  <2> QED BY <2>1, RewrittenRow
<1> QED BY <1>1, <1>2, <1>3, <1>4, <1>5 DEF Goes

-----------------------------------------------------------------------------
(* The audits and the history they are compared with.                      *)

(* What a step does to the audits: none for a row that is recorded, one for *)
(* a row whose class changes, and none for any other.                       *)
LEMMA AuditsFollow ==
    ASSUME Inv, Next
    PROVE  /\ DOMAIN tx \subseteq DOMAIN tx'
           /\ \A i \in DOMAIN tx' \ DOMAIN tx : audits'[i] = <<>>
           /\ \A i \in DOMAIN tx :
                 audits'[i] = IF tx'[i].class = tx[i].class THEN audits[i]
                              ELSE Append(audits[i], [old |-> tx[i].class,
                                                      new |-> tx'[i].class])
<1>1. PICK t \in Tabs : Goes(t)
  BY NextGoes
<1>2. CASE Purchased
  BY <1>2 DEF Purchased, Adds
<1>3. CASE RuleStored(t) \/ Looked(t)
  BY <1>3 DEF RuleStored, Looked
<1>4. CASE Edited(t) \/ Saved(t)
  <2>1. PICK id, row : Rewrites(t, id, row)
    BY <1>4 DEF Edited, Saved
  <2>2. DOMAIN tx' = DOMAIN tx
    BY <2>1, RewrittenRow
  <2> QED BY <2>1, <2>2, RewriteKeepsAudits DEF Inv
<1> QED BY <1>1, <1>2, <1>3, <1>4 DEF Goes

(* The audits a are one for each change of the history past, which ends in  *)
(* class.                                                                   *)
Tells(a, past, class) ==
    /\ past[Len(past)] = class
    /\ Len(a) = Len(past) - 1
    /\ \A k \in 1..(Len(past) - 1) : a[k] = [old |-> past[k], new |-> past[k + 1]]

(* The next change adds one of each.                                        *)
LEMMA TellsOn ==
    ASSUME NEW Change, NEW a \in Seq(Change), NEW e \in Change,
           NEW C, NEW past \in Seq(C), past # <<>>, NEW old, NEW class \in C,
           e = [old |-> old, new |-> class], Tells(a, past, old)
    PROVE  Tells(Append(a, e), Append(past, class), class)
<1>1. /\ Len(Append(a, e)) = Len(a) + 1
      /\ \A k \in 1..Len(a) : Append(a, e)[k] = a[k]
      /\ Append(a, e)[Len(a) + 1] = e
  BY AppendProperties
<1>2. /\ Len(Append(past, class)) = Len(past) + 1
      /\ \A k \in 1..Len(past) : Append(past, class)[k] = past[k]
      /\ Append(past, class)[Len(past) + 1] = class
  BY AppendProperties
<1>3. /\ Len(a) \in Nat /\ Len(past) \in Nat /\ Len(past) # 0
      /\ Len(past) = Len(a) + 1 /\ past[Len(past)] = old
  BY EmptySeq, LenProperties DEF Tells
<1>4. ASSUME NEW k \in 1..Len(past)
      PROVE  Append(a, e)[k] = [old |-> Append(past, class)[k],
                                new |-> Append(past, class)[k + 1]]
  <2>1. CASE k = Len(past)
    BY <1>1, <1>2, <1>3, <2>1
  <2>2. CASE k # Len(past)
    <3>1. k \in 1..(Len(past) - 1) /\ k \in 1..Len(a) /\ k + 1 \in 1..Len(past)
      BY <1>3, <2>2
    <3>2. a[k] = [old |-> past[k], new |-> past[k + 1]]
      BY <3>1 DEF Tells
    <3> QED BY <1>1, <1>2, <3>1, <3>2
  <2> QED BY <2>1, <2>2
<1> QED BY <1>1, <1>2, <1>3, <1>4 DEF Tells

(* Every transaction has a history, and its audits tell it.                 *)
HistoriesTold ==
    /\ DOMAIN classes = DOMAIN tx
    /\ \A id \in DOMAIN tx : /\ classes[id] \in Seq(Class) /\ classes[id] # <<>>
                             /\ Tells(audits[id], classes[id], tx[id].class)

LEMMA HistoriesGrow ==
    ASSUME Inv, Inv', HistoriesTold, [Next]_vars
    PROVE  HistoriesTold'
<1>1. CASE UNCHANGED vars
  BY <1>1 DEF vars, HistoriesTold
<1>2. CASE Next
  <2>1. classes' = Reclassified
    BY <1>2 DEF Next
  <2>2. DOMAIN classes' = DOMAIN tx'
    BY <2>1 DEF Reclassified
  <2>3. ASSUME NEW i \in DOMAIN tx'
        PROVE  /\ classes'[i] \in Seq(Class) /\ classes'[i] # <<>>
               /\ Tells(audits'[i], classes'[i], tx'[i].class)
    <3>1. PICK class : class = tx'[i].class
      OBVIOUS
    <3>2. class \in Class
      BY <3>1 DEF Inv, TypeOK, TransactionsOK, Transaction
    <3>3. CASE i \notin DOMAIN tx
      <4>1. audits'[i] = <<>> /\ classes'[i] = <<class>>
        BY <1>2, <2>1, <3>1, <3>3, AuditsFollow DEF Reclassified
      <4>2. /\ <<class>> \in Seq(Class) /\ <<class>> # <<>> /\ Len(<<class>>) = 1
            /\ Len(<<>>) = 0
        BY <3>2
      <4>3. Tells(<<>>, <<class>>, class)
        BY <4>2 DEF Tells
      <4> QED BY <3>1, <4>1, <4>2, <4>3
    <3>4. CASE i \in DOMAIN tx /\ class = tx[i].class
      <4>1. audits'[i] = audits[i] /\ classes'[i] = classes[i]
        BY <1>2, <2>1, <3>1, <3>4, AuditsFollow DEF Reclassified
      <4> QED BY <3>1, <3>4, <4>1 DEF HistoriesTold
    <3>5. CASE i \in DOMAIN tx /\ class # tx[i].class
      <4>1. PICK e, old : old = tx[i].class /\ e = [old |-> old, new |-> class]
        OBVIOUS
      <4>2. PICK Change : Change = [old : Class, new : Class]
        OBVIOUS
      <4>3. old \in Class /\ e \in Change /\ audits[i] \in Seq(Change)
        BY <3>2, <3>5, <4>1, <4>2
           DEF Inv, TypeOK, TransactionsOK, Transaction, AuditsOK
      <4>4. audits'[i] = Append(audits[i], e) /\ classes'[i] = Append(classes[i], class)
        BY <1>2, <2>1, <3>1, <3>5, <4>1, AuditsFollow DEF Reclassified
      <4>5. /\ classes[i] \in Seq(Class) /\ classes[i] # <<>>
            /\ Tells(audits[i], classes[i], old)
        BY <3>5, <4>1 DEF HistoriesTold
      <4>6. Tells(Append(audits[i], e), Append(classes[i], class), class)
        BY <3>2, <4>1, <4>3, <4>5, TellsOn
      <4>7. Append(classes[i], class) \in Seq(Class) /\ Append(classes[i], class) # <<>>
        BY <3>2, <4>5, AppendProperties
      <4> QED BY <3>1, <4>4, <4>6, <4>7
    <3> QED BY <3>3, <3>4, <3>5
  <2> QED BY <2>2, <2>3 DEF HistoriesTold
<1> QED BY <1>1, <1>2

LEMMA InitHistories ==
    ASSUME Init
    PROVE  HistoriesTold
<1>1. Inv
  BY InitOK
<1>2. PICK class : class = tx[ImportedId].class
  OBVIOUS
<1>3. /\ DOMAIN tx = {ImportedId} /\ audits[ImportedId] = <<>>
      /\ DOMAIN classes = {ImportedId} /\ classes[ImportedId] = <<class>>
  BY <1>2 DEF Init
<1>4. class \in Class
  BY <1>1, <1>2, <1>3 DEF Inv, TypeOK, TransactionsOK, Transaction
<1>5. /\ <<class>> \in Seq(Class) /\ <<class>> # <<>> /\ Len(<<class>>) = 1
      /\ Len(<<>>) = 0
  BY <1>4
<1>6. Tells(<<>>, <<class>>, class)
  BY <1>5 DEF Tells
<1> QED BY <1>2, <1>3, <1>5, <1>6 DEF HistoriesTold

(* However many tabs correct, save and edit a transaction, its audits are   *)
(* one for each change of its category, source and rule, in order, from     *)
(* what it was recorded with to what it has now                             *)
(* (transactions_append_category_audit).                                    *)
THEOREM AuditsComplete == Spec => []AuditsReconstruct
<1>1. HistoriesTold => AuditsReconstruct
  BY DEF HistoriesTold, Tells, AuditsReconstruct
<1>2. Init => HistoriesTold
  BY InitHistories
<1>3. Inv /\ Inv' /\ HistoriesTold /\ [Next]_vars => HistoriesTold'
  BY HistoriesGrow
<1> QED BY <1>1, <1>2, <1>3, CopiesKept, PTL DEF Spec

-----------------------------------------------------------------------------
(* No edit of a transaction is lost: whatever other tabs do meanwhile,      *)
(* whoever changes a transaction was looking at the row that is replaced.   *)
THEOREM EditsAreNeverLost == Spec => NoEditLost
<1>1. Inv /\ [Next]_vars => [EditsKept]_vars
  BY KeepsEdits
<1> QED BY <1>1, CopiesKept, PTL DEF Spec, NoEditLost

(* No edit of a rule is lost: a change of a rule starts from the row that   *)
(* its author, or saveForFuture, has read, unless a purchase remembers it.  *)
THEOREM RuleEditsAreNeverLost == Spec => NoRuleEditLost
<1>1. Inv /\ [Next]_vars => [RuleEditsKept]_vars
  BY KeepsRuleEdits
<1> QED BY <1>1, CopiesKept, PTL DEF Spec, NoRuleEditLost

(* A transaction that a step marks with a rule is marked truly: the rule is *)
(* active, of its merchant and of its category when the mark is written,    *)
(* although it was looked up in an earlier statement.                       *)
THEOREM MarksAreTrue == Spec => RuleMarksAgree
<1>1. Inv /\ [Next]_vars => [MarksAgree]_vars
  BY MarksTruly
<1> QED BY <1>1, CopiesKept, PTL DEF Spec, RuleMarksAgree
=============================================================================
