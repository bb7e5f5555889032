-------------------------- MODULE TransactionPages --------------------------
(***************************************************************************)
(* The transactions page, the requests it makes and the file the owner     *)
(* downloads of the same transactions:                                     *)
(*   apps/web/src/features/transactions/useTransactions.ts                 *)
(*   apps/web/src/features/transactions/TransactionsPage.tsx               *)
(*   packages/persistence/src/repositories.ts  (listPage, listForCsvExport)*)
(*   apps/web/worker/index.ts                  (GET /transactions, CSV)    *)
(*                                                                         *)
(* One browser tab reads the ledger page by page while the owner's other   *)
(* tabs change it.  A page is found by the key and the id of the last row  *)
(* of the page before it; a merchant family takes two reads.  The filters  *)
(* are two representatives: the first date, which the form offers, and a   *)
(* merchant family, which only a link from a report sets and the form      *)
(* keeps.  The scope of a cursor is a 64-bit hash of the filters; here it  *)
(* is the filters themselves.                                              *)
(***************************************************************************)
EXTENDS Integers, Sequences, SequencesExt, FiniteSets

CONSTANTS
  Tx,           \* ids of transactions, ordered as the ids of the table are
  Rows,         \* the contents a transaction may have: [date, amount, merchant]
  Aliases,      \* the normalized merchants of the one family of the links
  Dates,        \* the first dates the form offers
  Sorts,        \* the sorts it offers, of the four of transactionSortSchema
  PageSize,     \* rows of a page
  ExportRows,   \* TRANSACTION_CSV_EXPORT_LIMITS.ROWS
  MaxEdits,     \* bound on the changes of the other tabs
  MaxHistory,   \* bound on the entries of the tab's history
  MaxExports    \* bound on the downloads, 0 or 1

TxAssumption == Tx \subseteq Nat /\ IsFiniteSet(Tx)
RowAssumption == \A row \in Rows : row.date \in Int /\ row.amount \in Int
SizeAssumption == {PageSize, MaxHistory} \subseteq Nat \ {0} /\ {ExportRows, MaxEdits} \subseteq Nat
SortAssumption == Sorts \subseteq {"DATE_DESC", "DATE_ASC", "AMOUNT_DESC", "AMOUNT_ASC"}

VARIABLES
  ledger,    \* the recorded transactions: a function of a subset of Tx to Rows
  entries,   \* the history of the tab, addresses in the order they were opened
  at,        \* the position in it: entries[at] is location.search, and `search`
  page,      \* the load state of the page: [status] or [status, the page]
  requests,  \* the list requests whose answers the tab still waits for
  trail,     \* the pages the owner has walked through, from a first page on
  changed,   \* transactions changed since the first page of the trail was asked
  export,    \* <<>>, or the export that is being read, or the finished one
  edits      \* number of changes made so far

vars == <<ledger, entries, at, page, requests, trail, changed, export, edits>>

(* location.search as a link sets it: filters, and no sort or cursor.      *)
Link(family, from) == [filter |-> <<family, from>>, sort |-> <<>>, cursor |-> <<>>]

(* apiSearch: the address with the defaults of the request.                *)
ApiSearch(address) ==
  [address EXCEPT !.sort = IF address.sort = <<>> THEN "DATE_DESC" ELSE address.sort[1]]

-----------------------------------------------------------------------------
(* The condition of the WHERE clause.  The family is the one condition     *)
(* that needs the aliases of the read before.                              *)
Matches(row, query, aliases) ==
  /\ row.date >= query.filter[2]
  /\ query.filter[1] => row.merchant \in aliases

(* filterMerchantFamily: the merchants of the family that occur now.       *)
ReadAliases(query) ==
  {row.merchant : row \in {r \in {ledger[t] : t \in DOMAIN ledger} :
     r.date >= query.filter[2] /\ r.merchant \in Aliases}}

KeyOf(row, sort) == IF sort \in {"DATE_DESC", "DATE_ASC"} THEN row.date ELSE row.amount

(* SORT_SQL and the keyset conditions: key, then id, in one direction.     *)
Follows(key, t, key0, t0, sort) ==
  IF sort \in {"DATE_DESC", "AMOUNT_DESC"}
    THEN key < key0 \/ (key = key0 /\ t < t0)
    ELSE key > key0 \/ (key = key0 /\ t > t0)

\* Mutant of AfterCursor: rows of the key of the last row are taken as read.
AfterCursorKey(t, query) ==
  query.cursor # <<>> =>
    LET c == query.cursor[1] IN
      IF query.sort \in {"DATE_DESC", "AMOUNT_DESC"}
        THEN KeyOf(ledger[t], query.sort) < c.key ELSE KeyOf(ledger[t], query.sort) > c.key

AfterCursor(t, query) ==
  query.cursor # <<>> =>
    LET c == query.cursor[1] IN Follows(KeyOf(ledger[t], query.sort), t, c.key, c.id, query.sort)

(* ORDER BY: the place of a row is the number of rows up to it.             *)
Precedes(t, u, sort) == Follows(KeyOf(ledger[u], sort), u, KeyOf(ledger[t], sort), t, sort)
Place(t, txs, sort) == Cardinality({u \in txs : u = t \/ Precedes(u, t, sort)})
Ordered(txs, sort) ==
  [i \in 1..Cardinality(txs) |-> CHOOSE t \in txs : Place(t, txs, sort) = i]

Limited(seq, n) == SubSeq(seq, 1, IF Len(seq) < n THEN Len(seq) ELSE n)

(* TransactionRepository.query                                             *)
Query(query, aliases, limit) ==
  Limited(Ordered({t \in DOMAIN ledger : Matches(ledger[t], query, aliases) /\ AfterCursor(t, query)},
                  query.sort), limit)

(* decodeTransactionCursor: INVALID_CURSOR unless the sort and the filters  *)
(* are those of the page it was made for.                                  *)
CursorFits(query) ==
  query.cursor # <<>> =>
    query.cursor[1].sort = query.sort /\ query.cursor[1].scope = query.filter

(* listPage: one row more than the page tells whether there are others.    *)
ListPage(query, aliases) ==
  LET records == Query(query, aliases, PageSize + 1)
      more    == Len(records) > PageSize
      shown   == Limited(records, PageSize)
      final   == shown[Len(shown)]
  IN [query |-> query, rows |-> shown,
      next  |-> IF more THEN <<[scope |-> query.filter, sort |-> query.sort, id |-> final,
                                key |-> KeyOf(ledger[final], query.sort)]>>
                        ELSE <<>>]

\* Mutant of ExportOf: the rows beyond the limit are left out.
ExportOfCut(query, aliases) == <<Query(query, aliases, ExportRows)>>

(* listForCsvExport: the rows of the filter, or ROW_LIMIT_EXCEEDED.        *)
ExportOf(query, aliases) ==
  LET records == Query(query, aliases, ExportRows + 1)
  IN IF Len(records) > ExportRows THEN <<>> ELSE <<records>>

-----------------------------------------------------------------------------
Loading == [status |-> "loading", data |-> <<>>]
Failed  == [status |-> "error",   data |-> <<>>]
Ready(data) == [status |-> "ready", data |-> <<data>>]

search == entries[at]

(* The effect of useTransactions starts one request for a new search.      *)
Ask(address) == [query |-> ApiSearch(address), aliases |-> <<>>, changed |-> {}]

\* Mutant of Effect: the cleanup of the effect does not abort the request.
EffectWithoutAbort(address) ==
  requests' = IF address = search THEN requests ELSE requests \cup {Ask(address)}

(* useEffect(..., [search]): runs when the search is another one; its      *)
(* cleanup aborts the request before.                                      *)
Effect(address) ==
  requests' = IF address = search THEN requests ELSE {Ask(address)}

Init ==
  /\ \E txs \in SUBSET Tx : ledger \in [txs -> Rows]
  /\ \E family \in BOOLEAN, from \in Dates : entries = <<Link(family, from)>>
  /\ at = 1
  /\ page = Loading /\ requests = {Ask(entries[1])}
  /\ trail = <<>> /\ changed = {} /\ export = <<>> /\ edits = 0

(* navigate                                                                *)
Navigate(address) ==
  /\ at < MaxHistory
  /\ entries' = Append(SubSeq(entries, 1, at), address)
  /\ at' = at + 1
  /\ page' = Loading
  /\ Effect(address)
  /\ UNCHANGED <<ledger, trail, changed, export, edits>>

(* applyFilters: the form sets its own filters and a sort, drops the       *)
(* cursor and keeps the family.                                            *)
ApplyFilters ==
  \E from \in Dates, s \in Sorts :
    Navigate([filter |-> <<search.filter[1], from>>, sort |-> <<s>>, cursor |-> <<>>])

(* nextPage: the cursor of the page that is shown, the filters of the      *)
(* address; right after a step back these may be of two queries.           *)
NextPage ==
  /\ page.status = "ready" /\ page.data[1].next # <<>>
  /\ Navigate([search EXCEPT !.cursor = page.data[1].next])

(* The browser's Back and Forward, and the Previous button: popstate sets  *)
(* the search and leaves the state as it is.                               *)
PopState(i) ==
  /\ i \in {at - 1, at + 1} \cap DOMAIN entries
  /\ at' = i
  /\ Effect(entries[i])
  /\ UNCHANGED <<ledger, entries, page, trail, changed, export, edits>>

(* The page is opened anew: reloaded, or by the link that clears it.       *)
Load(address) ==
  /\ IF address = search
       THEN UNCHANGED <<entries, at>>
       ELSE /\ at < MaxHistory
            /\ entries' = Append(SubSeq(entries, 1, at), address)
            /\ at' = at + 1
  /\ page' = Loading /\ requests' = {Ask(address)}
  /\ UNCHANGED <<ledger, trail, changed, export, edits>>

Reload == Load(search)
Clear  == \E from \in Dates : (\A d \in Dates : from <= d)
            /\ Load(Link(FALSE, from))

-----------------------------------------------------------------------------
(* GET /transactions, the first of two reads; only for a family.           *)
ReadFamily(r) ==
  /\ r.query.filter[1] /\ r.aliases = <<>>
  /\ requests' = (requests \ {r}) \cup {[r EXCEPT !.aliases = <<ReadAliases(r.query)>>]}
  /\ UNCHANGED <<ledger, entries, at, page, trail, changed, export, edits>>

(* The pages walked through: those up to the one whose cursor was asked    *)
(* for, and the one that arrives.  A page opened from elsewhere has none   *)
(* before it and starts no trail.                                          *)
Walked(p) ==
  IF p.query.cursor = <<>> THEN <<p>>
  ELSE LET before == {i \in DOMAIN trail : trail[i].next = p.query.cursor}
       IN IF before = {} THEN <<>>
          ELSE Append(SubSeq(trail, 1, CHOOSE i \in before : \A j \in before : j <= i), p)

(* The second read, and the answer: 422 for a cursor of another query.     *)
Answer(r) ==
  /\ r.query.filter[1] => r.aliases # <<>>
  /\ requests' = requests \ {r}
  /\ IF CursorFits(r.query)
       THEN LET p == ListPage(r.query, IF r.aliases = <<>> THEN {} ELSE r.aliases[1]) IN
              /\ page' = Ready(p)
              /\ trail' = Walked(p)
              /\ changed' = IF r.query.cursor = <<>> THEN r.changed ELSE changed
       ELSE page' = Failed /\ UNCHANGED <<trail, changed>>
  /\ UNCHANGED <<ledger, entries, at, export, edits>>

(* The network or the server fails.                                        *)
Fail(r) ==
  /\ requests' = requests \ {r}
  /\ page' = Failed
  /\ UNCHANGED <<ledger, entries, at, trail, changed, export, edits>>

(* GET /exports/transactions.csv with the filters of the address.          *)
StartExport ==
  /\ export = <<>> /\ MaxExports > 0
  /\ export' = <<[query |-> [ApiSearch(search) EXCEPT !.cursor = <<>>], done |-> FALSE,
                  changed |-> {}, aliases |-> ReadAliases(search), rows |-> <<>>]>>
  /\ UNCHANGED <<ledger, entries, at, page, requests, trail, changed, edits>>

FinishExport ==
  /\ export # <<>> /\ ~export[1].done
  /\ export' = <<[export[1] EXCEPT !.done = TRUE,
                                   !.rows = ExportOf(export[1].query, export[1].aliases)]>>
  /\ UNCHANGED <<ledger, entries, at, page, requests, trail, changed, edits>>

(* Another tab records a transaction or changes one.  No row is deleted.   *)
Edit(t) ==
  /\ edits < MaxEdits
  /\ edits' = edits + 1
  /\ \E row \in Rows :
       ledger' = [u \in DOMAIN ledger \cup {t} |-> IF u = t THEN row ELSE ledger[u]]
  /\ requests' = {[r EXCEPT !.changed = @ \cup {t}] : r \in requests}
  /\ changed' = changed \cup {t}
  /\ export' = IF export = <<>> THEN <<>> ELSE <<[export[1] EXCEPT !.changed = @ \cup {t}]>>
  /\ UNCHANGED <<entries, at, page, trail>>

Next ==
  \/ ApplyFilters \/ NextPage \/ Reload \/ Clear
  \/ \E i \in 1..MaxHistory : PopState(i)
  \/ \E r \in requests : ReadFamily(r) \/ Answer(r) \/ Fail(r)
  \/ StartExport \/ FinishExport
  \/ \E t \in Tx : Edit(t)

(* Requests are answered, or fail, in the end; the owner need do nothing.  *)
Fairness == WF_vars(\E r \in requests : ReadFamily(r) \/ Answer(r) \/ Fail(r))

Spec == Init /\ [][Next]_vars /\ Fairness

-----------------------------------------------------------------------------
(* Type correctness.                                                       *)
TypeOK ==
  /\ DOMAIN ledger \subseteq Tx /\ \A t \in DOMAIN ledger : ledger[t] \in Rows
  /\ at \in DOMAIN entries /\ Len(entries) <= MaxHistory
  /\ page.status \in {"loading", "ready", "error"}
  /\ page.status = "ready" <=> page.data # <<>>
  /\ Cardinality(requests) <= 1
  /\ \A i \in DOMAIN trail : Len(trail[i].rows) <= PageSize
  /\ changed \subseteq Tx /\ edits \in 0..MaxEdits

Complete(pages) == pages # <<>> /\ pages[Len(pages)].next = <<>>
Lists(pages, t) == \E i \in DOMAIN pages : \E k \in DOMAIN pages[i].rows : pages[i].rows[k] = t
ListsBefore(pages, t, u) ==
  \E i, j \in DOMAIN pages : \E k \in DOMAIN pages[i].rows, l \in DOMAIN pages[j].rows :
    /\ i < j \/ (i = j /\ k < l)
    /\ pages[i].rows[k] = t /\ pages[j].rows[l] = u

(* Walking from a first page to a last one shows every matching            *)
(* transaction that nobody changed meanwhile exactly once, in the order of *)
(* the sort, however the others moved between and across pages             *)
(* (repositories.ts:487-523, the tie-break by id and the scope of cursors).*)
NoRowSkipped ==
  Complete(trail) =>
    LET query == trail[Len(trail)].query IN
      /\ \A t \in Tx \ changed :
            Lists(trail, t) <=> t \in DOMAIN ledger /\ Matches(ledger[t], query, Aliases)
      /\ \A t, u \in Tx \ changed : ListsBefore(trail, t, u) => Precedes(t, u, query.sort)

(* When no answer is awaited, the list that is shown is the answer to the  *)
(* address of the page, never one of an earlier address that came late     *)
(* (design.md:357 of build-free-personal-ledger: location.search is the    *)
(* only source of the filters).                                            *)
SettledListMatchesAddress ==
  requests = {} /\ page.status = "ready" => page.data[1].query = ApiSearch(search)

(* A downloaded file holds the transactions the pages of the same filters  *)
(* show, in the same order, unless it was refused as too long              *)
(* (data-portability/spec.md:82 of build-free-personal-ledger: the rows    *)
(* represent the same population as the UI filter).                        *)
ExportAgreesWithPages ==
  export # <<>> /\ Complete(trail) =>
    LET file == export[1]
        rows == <<[rows |-> file.rows[1]]>>
        still == Tx \ (changed \cup file.changed) IN
      /\ file.done /\ file.rows # <<>>
      /\ file.query = [trail[Len(trail)].query EXCEPT !.cursor = <<>>]
      => /\ \A t \in still : Lists(rows, t) <=> Lists(trail, t)
         /\ \A t, u \in still : ListsBefore(rows, t, u) <=> ListsBefore(trail, t, u)

(* Claimed by transaction-ledger/spec.md:142 of build-free-personal-ledger *)
(* of the owner applying a filter: the list shall show the matching        *)
(* transactions.  Here: a page that loads shows an answer or an error in   *)
(* the end.                                                                *)
EventuallySettles == page.status = "loading" ~> page.status # "loading"
=============================================================================
