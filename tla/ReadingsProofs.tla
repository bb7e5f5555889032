--------------------------- MODULE ReadingsProofs ---------------------------
(***************************************************************************)
(* What holds of the owner's readings for every ledger, number of pages    *)
(* and calendar: the list of transactions belongs to the address of its    *)
(* page, a walk through it skips no row, and a downloaded file agrees with *)
(* it ("Walks", "Filters" and "Exports", TransactionPages); the dates of a *)
(* plan do not drift ("Schedule", ScheduleWalk).  What the three instances *)
(* of the page share is stated with the operators of the first.            *)
(***************************************************************************)
EXTENDS MCReadings, TLAPS, FiniteSetTheorems

-----------------------------------------------------------------------------
(* The list of transactions.  Every request on its way asks for the        *)
(* address as it is now: that is what aborting the others is for.          *)

IsRequest(r) == r = [query |-> r.query, aliases |-> r.aliases, changed |-> r.changed]

HistoryFits == \E S : entries \in Seq(S) /\ at \in 1..Len(entries)

AsksForAddress == \A r \in requests : IsRequest(r) /\ r.query = Walks!ApiSearch(entries[at])

ListInv == HistoryFits /\ AsksForAddress /\ Walks!SettledListMatchesAddress

(* The steps there are.  The page opens an address, and loads: it asks for *)
(* the address, or already did.                                            *)
Asks(address) ==
    \A r \in requests' : r = Walks!Ask(address) \/ (address = entries[at] /\ r \in requests)

Opens(address) ==
    /\ entries' = Append(SubSeq(entries, 1, at), address) /\ at' = at + 1
    /\ page' = Walks!Loading /\ Asks(address)

OpensAgain ==
    UNCHANGED <<entries, at>> /\ page' = Walks!Loading /\ Asks(entries[at])

(* Back and Forward show the old list until the new one comes.             *)
Turns(k) ==
    /\ k \in DOMAIN entries /\ at' = k /\ UNCHANGED <<entries, page>> /\ Asks(entries[k])
    /\ requests' = {} => entries[k] = entries[at] /\ requests = {}

(* A request ends, with a list of what it asked for or without one.        *)
Ends(r) ==
    /\ UNCHANGED <<entries, at>> /\ requests' \subseteq requests
    /\ page'.status = "ready" => page'.data[1].query = r.query

(* The requests go on.                                                     *)
GoesOn ==
    /\ UNCHANGED <<entries, at, page>> /\ (requests' = {} <=> requests = {})
    /\ \A r \in requests' : IsRequest(r) /\ \E q \in requests : r.query = q.query

ListStep ==
    \/ \E address : Opens(address)
    \/ OpensAgain
    \/ \E k : Turns(k)
    \/ \E r \in requests : Ends(r)
    \/ GoesOn

LEMMA AskedForAddress ==
  ASSUME AsksForAddress, NEW address, Asks(address), address = (entries[at])'
  PROVE  AsksForAddress'
<1>1. IsRequest(Walks!Ask(address)) /\ Walks!Ask(address).query = Walks!ApiSearch(address)
  BY DEF IsRequest, Walks!Ask
<1>2. \A r \in requests : IsRequest(r) /\ r.query = Walks!ApiSearch(entries[at])
  BY DEF AsksForAddress
<1>3. \A r \in requests' : IsRequest(r) /\ r.query = Walks!ApiSearch(address)
  BY <1>1, <1>2 DEF Asks
<1>. QED
  BY <1>3 DEF AsksForAddress, IsRequest

LEMMA ListStepKeeps ==
  ASSUME ListInv, ListStep
  PROVE  ListInv'
<1>0. PICK S : entries \in Seq(S) /\ at \in 1..Len(entries)
  BY DEF ListInv, HistoryFits
<1>1. ASSUME NEW address, Opens(address)
      PROVE  ListInv'
  <2>1. PICK T : T = S \cup {address}
    OBVIOUS
  <2>2. entries \in Seq(T) /\ address \in T
    BY <1>0, <2>1
  <2>3. PICK before : before = SubSeq(entries, 1, at)
    OBVIOUS
  <2>4. before \in Seq(T) /\ Len(before) = at /\ at \in Nat
    BY <1>0, <2>2, <2>3
  <2>5. entries' = Append(before, address) /\ at' = at + 1
    BY <1>1, <2>3 DEF Opens
  <2>6. entries' \in Seq(T) /\ at' \in 1..Len(entries') /\ entries'[at'] = address
    BY <2>2, <2>4, <2>5
  <2>7. HistoryFits'
    BY <2>6 DEF HistoryFits
  <2>8. AsksForAddress'
    BY <1>1, <2>6, AskedForAddress DEF ListInv, Opens
  <2>9. page'.status # "ready"
    BY <1>1 DEF Opens, Walks!Loading
  <2>. QED
    BY <2>7, <2>8, <2>9 DEF ListInv, Walks!SettledListMatchesAddress
<1>2. CASE OpensAgain
  <2>1. HistoryFits'
    BY <1>2 DEF ListInv, HistoryFits, OpensAgain
  <2>2. AsksForAddress'
    BY <1>2, AskedForAddress DEF ListInv, OpensAgain
  <2>3. page'.status # "ready"
    BY <1>2 DEF OpensAgain, Walks!Loading
  <2>. QED
    BY <2>1, <2>2, <2>3 DEF ListInv, Walks!SettledListMatchesAddress
<1>3. ASSUME NEW k, Turns(k)
      PROVE  ListInv'
  <2>1. entries' = entries /\ at' = k /\ page' = page /\ k \in 1..Len(entries)
    BY <1>0, <1>3 DEF Turns
  <2>2. HistoryFits'
    BY <1>0, <2>1 DEF HistoryFits
  <2>3. AsksForAddress'
    BY <1>3, <2>1, AskedForAddress DEF ListInv, Turns
  <2>4. Walks!SettledListMatchesAddress'
    BY <1>3, <2>1 DEF ListInv, Turns, Walks!SettledListMatchesAddress, Walks!ApiSearch, Walks!search
  <2>. QED
    BY <2>2, <2>3, <2>4 DEF ListInv
<1>4. ASSUME NEW r \in requests, Ends(r)
      PROVE  ListInv'
  <2>1. HistoryFits'
    BY <1>4 DEF ListInv, HistoryFits, Ends
  <2>2. AsksForAddress'
    BY <1>4 DEF ListInv, AsksForAddress, IsRequest, Ends, Walks!ApiSearch
  <2>3. r.query = Walks!ApiSearch(entries[at])
    BY DEF ListInv, AsksForAddress
  <2>4. Walks!SettledListMatchesAddress'
    BY <1>4, <2>3 DEF Ends, Walks!SettledListMatchesAddress, Walks!ApiSearch, Walks!search
  <2>. QED
    BY <2>1, <2>2, <2>4 DEF ListInv
<1>5. CASE GoesOn
  <2>1. HistoryFits'
    BY <1>5 DEF ListInv, HistoryFits, GoesOn
  <2>2. AsksForAddress'
    BY <1>5 DEF ListInv, AsksForAddress, IsRequest, GoesOn, Walks!ApiSearch
  <2>3. Walks!SettledListMatchesAddress'
    BY <1>5 DEF ListInv, GoesOn, Walks!SettledListMatchesAddress, Walks!ApiSearch, Walks!search
  <2>. QED
    BY <2>1, <2>2, <2>3 DEF ListInv
<1>. QED
  BY <1>1, <1>2, <1>3, <1>4, <1>5 DEF ListStep

(* What each action is.                                                    *)
LEMMA EditedRequestsGoOn ==
  ASSUME AsksForAddress, NEW t, UNCHANGED <<entries, at, page>>,
         requests' = {[r EXCEPT !.changed = @ \cup {t}] : r \in requests}
  PROVE  GoesOn
<1>1. ASSUME NEW r \in requests
      PROVE  IsRequest([r EXCEPT !.changed = @ \cup {t}])
             /\ [r EXCEPT !.changed = @ \cup {t}].query = r.query
  <2>1. PICK more : more = r.changed \cup {t}
    OBVIOUS
  <2>2. PICK q : q = [r EXCEPT !.changed = more]
    OBVIOUS
  <2>3. r = [query |-> r.query, aliases |-> r.aliases, changed |-> r.changed]
    BY DEF AsksForAddress, IsRequest
  <2>4. q = [query |-> r.query, aliases |-> r.aliases, changed |-> more]
    BY <2>2, <2>3
  <2>5. IsRequest(q) /\ q.query = r.query
    BY <2>4 DEF IsRequest
  <2>. QED
    BY <2>1, <2>2, <2>5
<1>. QED
  BY <1>1 DEF GoesOn

LEMMA ReadRequestGoesOn ==
  ASSUME AsksForAddress, NEW r \in requests, NEW aliases, UNCHANGED <<entries, at, page>>,
         requests' = (requests \ {r}) \cup {[r EXCEPT !.aliases = aliases]}
  PROVE  GoesOn
<1>1. PICK q : q = [r EXCEPT !.aliases = aliases]
  OBVIOUS
<1>2. r = [query |-> r.query, aliases |-> r.aliases, changed |-> r.changed]
  BY DEF AsksForAddress, IsRequest
<1>3. q = [query |-> r.query, aliases |-> aliases, changed |-> r.changed]
  BY <1>1, <1>2
<1>4. IsRequest(q) /\ q.query = r.query
  BY <1>3 DEF IsRequest
<1>5. \A p \in requests : IsRequest(p)
  BY DEF AsksForAddress
<1>. QED
  BY <1>1, <1>4, <1>5 DEF GoesOn

LEMMA WalkSteps ==
  ASSUME AsksForAddress, Walks!Next
  PROVE  ListStep
<1>1. ASSUME NEW address, Walks!Navigate(address)
      PROVE  Opens(address)
  BY <1>1 DEF Walks!Navigate, Walks!Effect, Walks!search, Opens, Asks
<1>2. ASSUME NEW address, Walks!Load(address)
      PROVE  Opens(address) \/ OpensAgain
  BY <1>2 DEF Walks!Load, Walks!search, Opens, OpensAgain, Asks
<1>3. ASSUME NEW k, Walks!PopState(k)
      PROVE  Turns(k)
  BY <1>3 DEF Walks!PopState, Walks!Effect, Walks!search, Turns, Asks
<1>4. ASSUME NEW r \in requests, Walks!ReadFamily(r)
      PROVE  GoesOn
  BY <1>4, ReadRequestGoesOn DEF Walks!ReadFamily
<1>5. ASSUME NEW r \in requests, Walks!Answer(r)
      PROVE  Ends(r)
  <2>1. CASE Walks!CursorFits(r.query)
    <3>1. PICK p : p = Walks!ListPage(r.query, IF r.aliases = <<>> THEN {} ELSE r.aliases[1])
      OBVIOUS
    <3>2. p.query = r.query
      BY <3>1 DEF Walks!ListPage
    <3>3. page' = Walks!Ready(p) /\ UNCHANGED <<entries, at>> /\ requests' = requests \ {r}
      BY <1>5, <2>1, <3>1 DEF Walks!Answer
    <3>4. page'.data[1] = p
      BY <3>3 DEF Walks!Ready
    <3>. QED
      BY <3>2, <3>3, <3>4 DEF Ends
  <2>2. CASE ~Walks!CursorFits(r.query)
    <3>1. page' = Walks!Failed /\ UNCHANGED <<entries, at>> /\ requests' = requests \ {r}
      BY <1>5, <2>2 DEF Walks!Answer
    <3>2. page'.status # "ready"
      BY <3>1 DEF Walks!Failed
    <3>. QED
      BY <3>1, <3>2 DEF Ends
  <2>. QED
    BY <2>1, <2>2
<1>6. ASSUME NEW r \in requests, Walks!Fail(r)
      PROVE  Ends(r)
  BY <1>6 DEF Walks!Fail, Walks!Failed, Ends
<1>7. CASE Walks!StartExport \/ Walks!FinishExport
  <2>1. UNCHANGED <<entries, at, page, requests>>
    BY <1>7 DEF Walks!StartExport, Walks!FinishExport
  <2>. QED
    BY <2>1 DEF AsksForAddress, GoesOn, ListStep
<1>8. ASSUME NEW t, Walks!Edit(t)
      PROVE  GoesOn
  BY <1>8, EditedRequestsGoOn DEF Walks!Edit
<1>9. CASE Walks!ApplyFilters \/ Walks!NextPage
  BY <1>1, <1>9 DEF Walks!ApplyFilters, Walks!NextPage, ListStep
<1>10. CASE Walks!Reload \/ Walks!Clear
  BY <1>2, <1>10 DEF Walks!Reload, Walks!Clear, ListStep
<1>. QED
  BY <1>3, <1>4, <1>5, <1>6, <1>7, <1>8, <1>9, <1>10 DEF Walks!Next, ListStep

LEMMA FilterSteps ==
  ASSUME AsksForAddress, Filters!Next
  PROVE  ListStep
<1>1. ASSUME NEW address, Filters!Navigate(address)
      PROVE  Opens(address)
  BY <1>1 DEF Filters!Navigate, Filters!Effect, Filters!search, Filters!Loading, Filters!Ask, Filters!ApiSearch,
              Opens, Asks, Walks!Loading, Walks!Ask, Walks!ApiSearch
<1>2. ASSUME NEW address, Filters!Load(address)
      PROVE  Opens(address) \/ OpensAgain
  BY <1>2 DEF Filters!Load, Filters!search, Filters!Loading, Filters!Ask, Filters!ApiSearch,
              Opens, OpensAgain, Asks, Walks!Loading, Walks!Ask, Walks!ApiSearch
<1>3. ASSUME NEW k, Filters!PopState(k)
      PROVE  Turns(k)
  BY <1>3 DEF Filters!PopState, Filters!Effect, Filters!search, Filters!Ask, Filters!ApiSearch,
              Turns, Asks, Walks!Ask, Walks!ApiSearch
<1>4. ASSUME NEW r \in requests, Filters!ReadFamily(r)
      PROVE  GoesOn
  BY <1>4, ReadRequestGoesOn DEF Filters!ReadFamily
<1>5. ASSUME NEW r \in requests, Filters!Answer(r)
      PROVE  Ends(r)
  <2>1. CASE Filters!CursorFits(r.query)
    <3>1. PICK p : p = Filters!ListPage(r.query, IF r.aliases = <<>> THEN {} ELSE r.aliases[1])
      OBVIOUS
    <3>2. p.query = r.query
      BY <3>1 DEF Filters!ListPage
    <3>3. page' = Filters!Ready(p) /\ UNCHANGED <<entries, at>> /\ requests' = requests \ {r}
      BY <1>5, <2>1, <3>1 DEF Filters!Answer
    <3>4. page'.data[1] = p
      BY <3>3 DEF Filters!Ready
    <3>. QED
      BY <3>2, <3>3, <3>4 DEF Ends
  <2>2. CASE ~Filters!CursorFits(r.query)
    <3>1. page' = Filters!Failed /\ UNCHANGED <<entries, at>> /\ requests' = requests \ {r}
      BY <1>5, <2>2 DEF Filters!Answer
    <3>2. page'.status # "ready"
      BY <3>1 DEF Filters!Failed
    <3>. QED
      BY <3>1, <3>2 DEF Ends
  <2>. QED
    BY <2>1, <2>2
<1>6. ASSUME NEW r \in requests, Filters!Fail(r)
      PROVE  Ends(r)
  BY <1>6 DEF Filters!Fail, Filters!Failed, Ends
<1>7. CASE Filters!StartExport \/ Filters!FinishExport
  <2>1. UNCHANGED <<entries, at, page, requests>>
    BY <1>7 DEF Filters!StartExport, Filters!FinishExport
  <2>. QED
    BY <2>1 DEF AsksForAddress, GoesOn, ListStep
<1>8. ASSUME NEW t, Filters!Edit(t)
      PROVE  GoesOn
  BY <1>8, EditedRequestsGoOn DEF Filters!Edit
<1>9. CASE Filters!ApplyFilters \/ Filters!NextPage
  BY <1>1, <1>9 DEF Filters!ApplyFilters, Filters!NextPage, ListStep
<1>10. CASE Filters!Reload \/ Filters!Clear
  BY <1>2, <1>10 DEF Filters!Reload, Filters!Clear, ListStep
<1>. QED
  BY <1>3, <1>4, <1>5, <1>6, <1>7, <1>8, <1>9, <1>10 DEF Filters!Next, ListStep

(* When no answer is awaited, the list on the screen is the answer to the   *)
(* address of the page, for any ledger, filters, sorts and edits.          *)
THEOREM ListsMatchTheirAddresses == Spec => []SettledListMatchesAddress
<1> DEFINE Inv == case \in {"walks", "filters"} => ListInv
<1>1. Init => Inv
  <2> SUFFICES ASSUME Init, case \in {"walks", "filters"} PROVE ListInv
    OBVIOUS
  <2>1. /\ \E address : entries = <<address>>
        /\ at = 1 /\ page.status = "loading" /\ requests = {Walks!Ask(entries[1])}
    BY DEF Init, Walks!Init, Filters!Init, Walks!Loading, Filters!Loading, Walks!Ask, Filters!Ask,
           Walks!ApiSearch, Filters!ApiSearch
  <2>2. HistoryFits
    <3>1. PICK address : entries = <<address>>
      BY <2>1
    <3>2. entries \in Seq({address}) /\ at \in 1..Len(entries)
      BY <2>1, <3>1
    <3>. QED
      BY <3>2 DEF HistoryFits
  <2>3. AsksForAddress
    BY <2>1 DEF AsksForAddress, IsRequest, Walks!Ask
  <2>. QED
    BY <2>1, <2>2, <2>3 DEF ListInv, Walks!SettledListMatchesAddress
<1>2. Inv /\ [Next]_vars => Inv'
  <2> SUFFICES ASSUME Inv, [Next]_vars, case' \in {"walks", "filters"} PROVE ListInv'
    OBVIOUS
  <2>1. case \in {"walks", "filters"} /\ ListInv
    BY DEF Next, PageStep, PeriodStep, ReportStep, ScheduleStep, vars
  <2>2. CASE UNCHANGED vars
    <3>1. UNCHANGED <<entries, at, page, requests>>
      BY <2>2 DEF vars, pageVars
    <3>2. GoesOn
      BY <2>1, <3>1 DEF ListInv, AsksForAddress, GoesOn
    <3>. QED
      BY <2>1, <3>2, ListStepKeeps DEF ListStep
  <2>3. CASE Walks!Next \/ Filters!Next
    BY <2>1, <2>3, WalkSteps, FilterSteps, ListStepKeeps DEF ListInv
  <2>. QED
    BY <2>1, <2>2, <2>3 DEF Next, PageStep, PeriodStep, ReportStep, ScheduleStep
<1>3. Inv => SettledListMatchesAddress
  BY DEF ListInv, SettledListMatchesAddress, Walks!SettledListMatchesAddress,
         Filters!SettledListMatchesAddress, Walks!search, Filters!search, Walks!ApiSearch,
         Filters!ApiSearch
<1>. QED
  BY <1>1, <1>2, <1>3, PTL DEF Spec

-----------------------------------------------------------------------------
(* Rows in order.  A row of lower place comes first, and each place is     *)
(* taken, since places are counted.                                        *)
LEMMA PlacesAreTaken ==
  ASSUME NEW S, IsFiniteSet(S), NEW Rel,
         \A t \in S : <<t, t>> \notin Rel,
         \A t, u, v \in S : <<t, u>> \in Rel /\ <<u, v>> \in Rel => <<t, v>> \in Rel,
         \A t, u \in S : <<t, u>> \in Rel \/ t = u \/ <<u, t>> \in Rel,
         NEW place, place = [t \in S |-> Cardinality({u \in S : u = t \/ <<u, t>> \in Rel})]
  PROVE  /\ Cardinality(S) \in Nat
         /\ \A t \in S : place[t] \in 1..Cardinality(S)
         /\ \A i \in 1..Cardinality(S) : \E t \in S : place[t] = i
         /\ \A t, u \in S : place[t] < place[u] => <<t, u>> \in Rel
         /\ \A t, u \in S : place[t] = place[u] => t = u
<1> DEFINE upto(t) == {u \in S : u = t \/ <<u, t>> \in Rel}
           n == Cardinality(S)
<1>1. \A t \in S : place[t] = Cardinality(upto(t)) /\ t \in upto(t) /\ upto(t) \subseteq S
  OBVIOUS
<1>2. ASSUME NEW t \in S, NEW u \in S, <<t, u>> \in Rel
      PROVE  upto(t) \subseteq upto(u) /\ u \notin upto(t) /\ u \in upto(u)
  BY <1>2
<1> HIDE DEF upto
<1>3. n \in Nat
  BY FS_CardinalityType
<1>4. ASSUME NEW t \in S
      PROVE  IsFiniteSet(upto(t)) /\ place[t] \in 1..n
  <2>1. upto(t) \in SUBSET S
    BY <1>1
  <2>2. IsFiniteSet(upto(t)) /\ Cardinality(upto(t)) <= n
    BY <2>1, FS_Subset
  <2>3. Cardinality(upto(t)) \in Nat /\ Cardinality(upto(t)) # 0
    BY <1>1, <2>2, FS_CardinalityType, FS_EmptySet
  <2>. QED
    BY <1>1, <1>3, <2>2, <2>3
<1>5. ASSUME NEW t \in S, NEW u \in S, <<t, u>> \in Rel
      PROVE  place[t] < place[u]
  <2>1. upto(t) \in SUBSET upto(u) /\ upto(t) # upto(u) /\ IsFiniteSet(upto(u))
    BY <1>2, <1>4, <1>5
  <2>2. Cardinality(upto(t)) <= Cardinality(upto(u)) /\ Cardinality(upto(u)) # Cardinality(upto(t))
    BY <2>1, FS_Subset
  <2>. QED
    BY <1>1, <1>3, <1>4, <2>2
<1>6. \A t, u \in S : place[t] = place[u] => t = u
  <2> SUFFICES ASSUME NEW t \in S, NEW u \in S, place[t] = place[u], t # u PROVE FALSE
    OBVIOUS
  <2>1. <<t, u>> \in Rel \/ <<u, t>> \in Rel
    OBVIOUS
  <2>2. place[t] < place[u] \/ place[u] < place[t]
    BY <1>5, <2>1
  <2>3. place[t] \in Nat
    BY <1>3, <1>4
  <2>. QED
    BY <2>2, <2>3
<1>7. \A t, u \in S : place[t] < place[u] => <<t, u>> \in Rel
  <2> SUFFICES ASSUME NEW t \in S, NEW u \in S, place[t] < place[u], <<t, u>> \notin Rel PROVE FALSE
    OBVIOUS
  <2>1. t = u \/ <<u, t>> \in Rel
    OBVIOUS
  <2>2. place[t] = place[u] \/ place[u] < place[t]
    BY <1>5, <2>1
  <2>3. place[t] \in Nat /\ place[u] \in Nat
    BY <1>3, <1>4
  <2>. QED
    BY <2>2, <2>3
<1>8. place \in Injection(S, 1..n)
  <2>1. place \in [S -> 1..n]
    BY <1>4
  <2>. QED
    BY <1>6, <2>1 DEF Injection, IsInjective
<1>9. IsFiniteSet(1..n) /\ Cardinality(1..n) = n
  BY <1>3, FS_Interval
<1>10. place \in Surjection(S, 1..n)
  BY <1>8, <1>9, FS_Injection
<1>11. \A i \in 1..n : \E t \in S : place[t] = i
  BY <1>10 DEF Surjection
<1>. QED
  BY <1>3, <1>4, <1>6, <1>7, <1>11

-----------------------------------------------------------------------------
(* The sort is a strict order of all rows.                                 *)
LEMMA SortIsOrder ==
  ASSUME NEW sort, NEW k1 \in Int, NEW t1 \in Int, NEW k2 \in Int, NEW t2 \in Int,
         NEW k3 \in Int, NEW t3 \in Int
  PROVE  /\ ~Walks!Follows(k1, t1, k1, t1, sort)
         /\ Walks!Follows(k1, t1, k2, t2, sort) /\ Walks!Follows(k2, t2, k3, t3, sort)
              => Walks!Follows(k1, t1, k3, t3, sort)
         /\ Walks!Follows(k1, t1, k2, t2, sort) \/ (k1 = k2 /\ t1 = t2)
              \/ Walks!Follows(k2, t2, k1, t1, sort)
         /\ ~(Walks!Follows(k1, t1, k2, t2, sort) /\ Walks!Follows(k2, t2, k1, t1, sort))
  BY DEF Walks!Follows

(* The sort, over the rows of a ledger.                                    *)
Book ==
    /\ DOMAIN ledger \subseteq Tx
    /\ \A t \in DOMAIN ledger : ledger[t].date \in Int /\ ledger[t].amount \in Int
Key(t, sort) == Walks!KeyOf(ledger[t], sort)

LEMMA KeysAreNumbers ==
  ASSUME Book
  PROVE  \A t \in DOMAIN ledger : \A sort : t \in Nat /\ t \in Int /\ Key(t, sort) \in Int
<1> SUFFICES ASSUME NEW t \in DOMAIN ledger, NEW sort PROVE t \in Nat /\ Key(t, sort) \in Int
  OBVIOUS
<1>1. t \in Tx /\ Tx \subseteq Nat
  BY PagesAssumption DEF Walks!TxAssumption, Book
<1>2. ledger[t].date \in Int /\ ledger[t].amount \in Int
  BY DEF Book
<1>. QED
  BY <1>1, <1>2 DEF Key, Walks!KeyOf

(* The list of a set of rows holds each of them, in the order of the sort. *)
LEMMA OrderedIs ==
  ASSUME Book, NEW S, S \subseteq DOMAIN ledger, NEW sort, NEW list, list = Walks!Ordered(S, sort)
  PROVE  /\ list \in Seq(S)
         /\ \A t \in S : \E i \in DOMAIN list : list[i] = t
         /\ \A i, j \in DOMAIN list : i < j => Walks!Precedes(list[i], list[j], sort)
<1> DEFINE Rel == {p \in S \X S : Walks!Precedes(p[1], p[2], sort)}
           place == [t \in S |-> Cardinality({u \in S : u = t \/ <<u, t>> \in Rel})]
           n == Cardinality(S)
<1>1. IsFiniteSet(S)
  <2>1. IsFiniteSet(Tx) /\ S \in SUBSET Tx
    BY PagesAssumption DEF Walks!TxAssumption, Walks!IsFiniteSet, IsFiniteSet, Book
  <2>. QED
    BY <2>1, FS_Subset
<1>2. \A t, u \in S : <<t, u>> \in Rel <=> Walks!Precedes(t, u, sort)
  OBVIOUS
<1>3. \A t \in S : t \in Int /\ Walks!KeyOf(ledger[t], sort) \in Int
  BY KeysAreNumbers DEF Key
<1>4. /\ \A t \in S : <<t, t>> \notin Rel
      /\ \A t, u \in S : <<t, u>> \in Rel \/ t = u \/ <<u, t>> \in Rel
  <2> HIDE DEF Rel
  <2>. QED
    BY <1>2, <1>3, SortIsOrder DEF Walks!Precedes
<1>5. \A t, u, v \in S : <<t, u>> \in Rel /\ <<u, v>> \in Rel => <<t, v>> \in Rel
  <2> HIDE DEF Rel
  <2> SUFFICES ASSUME NEW t \in S, NEW u \in S, NEW v \in S, <<t, u>> \in Rel, <<u, v>> \in Rel
               PROVE  <<t, v>> \in Rel
    OBVIOUS
  <2>1. Walks!Precedes(t, u, sort) /\ Walks!Precedes(u, v, sort)
    BY <1>2
  <2>2. Walks!Precedes(t, v, sort)
    BY <1>3, <2>1, SortIsOrder DEF Walks!Precedes
  <2>. QED
    BY <1>2, <2>2
<1>6. \A t \in S : Walks!Place(t, S, sort) = place[t]
  <2> SUFFICES ASSUME NEW t \in S PROVE Walks!Place(t, S, sort) = place[t]
    OBVIOUS
  <2>1. {u \in S : u = t \/ Walks!Precedes(u, t, sort)} = {u \in S : u = t \/ <<u, t>> \in Rel}
    OBVIOUS
  <2>2. \A T : Walks!Cardinality(T) = Cardinality(T)
    BY DEF Walks!Cardinality, Cardinality
  <2> HIDE DEF Rel
  <2>. QED
    BY <2>1, <2>2 DEF Walks!Place
<1>7. /\ n \in Nat
      /\ \A t \in S : place[t] \in 1..n
      /\ \A i \in 1..n : \E t \in S : place[t] = i
      /\ \A t, u \in S : place[t] < place[u] => <<t, u>> \in Rel
      /\ \A t, u \in S : place[t] = place[u] => t = u
  <2>1. PICK f : f = place
    OBVIOUS
  <2> HIDE DEF Rel
  <2>. QED
    BY <1>1, <1>4, <1>5, <2>1, PlacesAreTaken
<1>8. list = [i \in 1..n |-> CHOOSE t \in S : Walks!Place(t, S, sort) = i]
  BY DEF Walks!Ordered, Walks!Cardinality, Cardinality
<1> HIDE DEF place, n
<1>9. \A i \in 1..n : list[i] \in S /\ place[list[i]] = i
  <2> SUFFICES ASSUME NEW i \in 1..n PROVE list[i] \in S /\ place[list[i]] = i
    OBVIOUS
  <2>1. list[i] = CHOOSE t \in S : Walks!Place(t, S, sort) = i
    BY <1>8
  <2>2. \E t \in S : Walks!Place(t, S, sort) = i
    BY <1>6, <1>7
  <2>. QED
    BY <1>6, <2>1, <2>2
<1>10. list \in Seq(S) /\ DOMAIN list = 1..n
  BY <1>7, <1>8, <1>9
<1>11. \A t \in S : list[place[t]] = t
  BY <1>7, <1>9
<1>12. ASSUME NEW i \in 1..n, NEW j \in 1..n, i < j
       PROVE  Walks!Precedes(list[i], list[j], sort)
  <2>1. place[list[i]] = i /\ place[list[j]] = j /\ list[i] \in S /\ list[j] \in S
    BY <1>9
  <2>2. place[list[i]] < place[list[j]]
    BY <1>12, <2>1
  <2> HIDE DEF Rel
  <2>3. <<list[i], list[j]>> \in Rel
    BY <1>7, <2>1, <2>2
  <2>. QED
    BY <1>2, <2>1, <2>3
<1>. QED
  BY <1>7, <1>10, <1>11, <1>12

(* One page.                                                               *)
IsCursor(c) == c # <<>> => c[1].id \in Int /\ c[1].key \in Int

OnPage(p, t) == \E k \in DOMAIN p.rows : p.rows[k] = t

(* The row comes after the last one of the page.                           *)
PastPage(p, t) ==
    /\ p.next # <<>>
    /\ Walks!Follows(Key(t, p.query.sort), t, p.next[1].key, p.next[1].id, p.query.sort)

(* The rows a page has to show, as they are now.                           *)
Belongs(p, t) ==
    /\ t \in DOMAIN ledger /\ Walks!Matches(ledger[t], p.query, Aliases)
    /\ Walks!AfterCursor(t, p.query) /\ ~PastPage(p, t)

(* The next page starts at the last row of this one.                       *)
NextFits(p) ==
    p.next # <<>> =>
        /\ IsCursor(p.next) /\ p.next[1].scope = p.query.filter /\ p.next[1].sort = p.query.sort
        /\ p.query.cursor # <<>> =>
             Walks!Follows(p.next[1].key, p.next[1].id, p.query.cursor[1].key, p.query.cursor[1].id,
                           p.query.sort)

(* A page still shows the rows that nobody touched, in their order.        *)
PageFits(p, touched) ==
    /\ p.rows \in Seq(Tx)
    /\ IsCursor(p.query.cursor) /\ Walks!CursorFits(p.query) /\ NextFits(p)
    /\ \A t \in Tx \ touched : OnPage(p, t) <=> Belongs(p, t)
    /\ \A k, l \in DOMAIN p.rows :
         k < l /\ p.rows[k] \notin touched /\ p.rows[l] \notin touched
           => Walks!Precedes(p.rows[k], p.rows[l], p.query.sort)

(* The merchants of a family that a request has read are those of all rows *)
(* nobody touched.                                                         *)
AliasesFit(asked, aliases, touched) ==
    asked.filter[1] =>
        /\ aliases \subseteq Aliases
        /\ \A t \in DOMAIN ledger \ touched :
             ledger[t].date >= asked.filter[2] /\ ledger[t].merchant \in Aliases
               => ledger[t].merchant \in aliases

(* ListPage for any size of a page.                                        *)
PageOf(asked, aliases, size) ==
    LET records == Walks!Query(asked, aliases, size + 1)
        shown   == Walks!Limited(records, size)
        final   == shown[Len(shown)]
    IN [query |-> asked, rows |-> shown,
        next  |-> IF Len(records) > size
                    THEN <<[scope |-> asked.filter, sort |-> asked.sort, id |-> final,
                            key |-> Walks!KeyOf(ledger[final], asked.sort)]>>
                    ELSE <<>>]

LEMMA LimitedIs ==
  ASSUME NEW S, NEW list \in Seq(S), NEW n \in Nat, NEW short, short = Walks!Limited(list, n)
  PROVE  /\ short \in Seq(S) /\ Len(short) = IF Len(list) < n THEN Len(list) ELSE n
         /\ \A k \in 1..Len(short) : k \in 1..Len(list) /\ short[k] = list[k]
<1>1. PICK m : m = IF Len(list) < n THEN Len(list) ELSE n
  OBVIOUS
<1>2. m \in 0..Len(list) /\ short = SubSeq(list, 1, m)
  BY <1>1 DEF Walks!Limited
<1>3. short \in Seq(S) /\ Len(short) = m /\ \A k \in 1..m : short[k] = list[k]
  BY <1>2
<1>. QED
  BY <1>1, <1>2, <1>3

LEMMA MatchesAnyway ==
  ASSUME NEW q, NEW aliases, NEW touched, AliasesFit(q, aliases, touched),
         NEW t \in DOMAIN ledger \ touched
  PROVE  Walks!Matches(ledger[t], q, aliases) <=> Walks!Matches(ledger[t], q, Aliases)
  BY DEF AliasesFit, Walks!Matches

(* The page that is answered fits.                                         *)
LEMMA PageFitsNow ==
  ASSUME Book, NEW q, NEW aliases, NEW touched, AliasesFit(q, aliases, touched),
         IsCursor(q.cursor), Walks!CursorFits(q), NEW size \in Nat \ {0},
         NEW p, p = PageOf(q, aliases, size)
  PROVE  PageFits(p, touched) /\ Len(p.rows) <= size /\ p.query = q
<1> DEFINE S == {t \in DOMAIN ledger : Walks!Matches(ledger[t], q, aliases) /\ Walks!AfterCursor(t, q)}
<1>1. PICK list : list = Walks!Ordered(S, q.sort)
  OBVIOUS
<1>2. PICK records : records = Walks!Limited(list, size + 1)
  OBVIOUS
<1>3. PICK shown : shown = Walks!Limited(records, size)
  OBVIOUS
<1>4. PICK final : final = shown[Len(shown)]
  OBVIOUS
<1>5. PICK key : key = Walks!KeyOf(ledger[final], q.sort)
  OBVIOUS
<1>6. PICK next : next = IF Len(records) > size
                    THEN <<[scope |-> q.filter, sort |-> q.sort, id |-> final, key |-> key]>>
                    ELSE <<>>
  OBVIOUS
<1>7. p = [query |-> q, rows |-> shown, next |-> next]
  BY <1>1, <1>2, <1>3, <1>4, <1>5, <1>6 DEF PageOf, Walks!Query
<1>8. p.query = q /\ p.rows = shown /\ p.next = next
  BY <1>7
<1>11. /\ \A t \in DOMAIN ledger : t \in S <=> Walks!Matches(ledger[t], q, aliases) /\ Walks!AfterCursor(t, q)
       /\ S \subseteq DOMAIN ledger
  OBVIOUS
<1> HIDE DEF S
<1>9. /\ list \in Seq(S)
      /\ \A t \in S : \E i \in DOMAIN list : list[i] = t
      /\ \A i, j \in DOMAIN list : i < j => Walks!Precedes(list[i], list[j], q.sort)
  <2>1. PICK sort : sort = q.sort
    OBVIOUS
  <2>. QED
    BY <1>1, <1>11, <2>1, OrderedIs
<1>10. \A t \in S : t \in DOMAIN ledger /\ t \in Tx /\ t \in Int /\ Key(t, q.sort) \in Int
  BY <1>11, KeysAreNumbers DEF Book
<1>12. /\ records \in Seq(S) /\ Len(records) = IF Len(list) < size + 1 THEN Len(list) ELSE size + 1
       /\ \A k \in 1..Len(records) : k \in 1..Len(list) /\ records[k] = list[k]
  BY <1>2, <1>9, LimitedIs
<1>13. /\ shown \in Seq(S) /\ Len(shown) = IF Len(records) < size THEN Len(records) ELSE size
       /\ \A k \in 1..Len(shown) : k \in 1..Len(records) /\ shown[k] = records[k]
  BY <1>3, <1>12, LimitedIs
<1>14. /\ shown \in Seq(S) /\ DOMAIN shown = 1..Len(shown) /\ Len(shown) \in Nat
       /\ Len(shown) = IF Len(list) < size THEN Len(list) ELSE size
       /\ DOMAIN list = 1..Len(list) /\ Len(list) \in Nat
       /\ \A k \in 1..Len(shown) : k \in 1..Len(list) /\ shown[k] = list[k]
       /\ Len(records) > size <=> Len(list) > size
  BY <1>9, <1>12, <1>13
<1>15. next # <<>> <=> Len(list) > size
  BY <1>6, <1>14
<1>16. shown \in Seq(Tx) /\ Len(shown) <= size
  BY <1>10, <1>14
<1>17. \A k, l \in DOMAIN shown : k < l => Walks!Precedes(shown[k], shown[l], q.sort)
  BY <1>9, <1>14
<1>18. ASSUME next # <<>>
       PROVE  /\ Len(shown) = size /\ final = list[size] /\ final \in S /\ size \in 1..Len(list)
              /\ next[1].id = final /\ next[1].key = Key(final, q.sort)
              /\ next[1].scope = q.filter /\ next[1].sort = q.sort
  <2>1. next = <<[scope |-> q.filter, sort |-> q.sort, id |-> final, key |-> key]>>
    BY <1>6, <1>18
  <2>2. next[1] = [scope |-> q.filter, sort |-> q.sort, id |-> final, key |-> key]
    BY <2>1
  <2>3. Len(shown) = size /\ size \in 1..Len(list) /\ size \in 1..Len(shown)
    <3>1. PICK m, n : m = Len(shown) /\ n = Len(list)
      OBVIOUS
    <3>2. m \in Nat /\ n \in Nat /\ n > size /\ m = IF n < size THEN n ELSE size
      BY <1>14, <1>15, <1>18, <3>1
    <3>. QED
      BY <3>1, <3>2
  <2>4. final = list[size] /\ final \in S
    BY <1>4, <1>9, <1>14, <2>3
  <2>. QED
    BY <1>5, <2>2, <2>3, <2>4 DEF Key
<1>19. NextFits(p)
  <2> SUFFICES ASSUME next # <<>>
               PROVE  /\ IsCursor(next) /\ next[1].scope = q.filter /\ next[1].sort = q.sort
                      /\ q.cursor # <<>> =>
                           Walks!Follows(next[1].key, next[1].id, q.cursor[1].key, q.cursor[1].id, q.sort)
    BY <1>8 DEF NextFits
  <2>1. IsCursor(next) /\ next[1].scope = q.filter /\ next[1].sort = q.sort
    BY <1>10, <1>18 DEF IsCursor
  <2>2. Walks!AfterCursor(final, q)
    BY <1>11, <1>18
  <2>. QED
    BY <1>18, <2>1, <2>2 DEF Walks!AfterCursor, Key
<1>20. \A t \in S : OnPage(p, t) <=> ~PastPage(p, t)
  <2> SUFFICES ASSUME NEW t \in S
               PROVE  (\E k \in DOMAIN shown : shown[k] = t) <=>
                      ~(next # <<>> /\ Walks!Follows(Key(t, q.sort), t, next[1].key, next[1].id, q.sort))
    BY <1>8 DEF OnPage, PastPage
  <2>1. PICK i \in 1..Len(list) : list[i] = t
    BY <1>9, <1>14
  <2>2. CASE next = <<>>
    BY <1>14, <1>15, <2>1, <2>2
  <2>3. CASE next # <<>>
    <3>1. Walks!Follows(Key(t, q.sort), t, next[1].key, next[1].id, q.sort)
            <=> Walks!Precedes(list[size], list[i], q.sort)
      BY <1>18, <2>1, <2>3 DEF Walks!Precedes, Key
    <3>2. ASSUME i <= size
          PROVE  ~Walks!Precedes(list[size], list[i], q.sort) /\ \E k \in DOMAIN shown : shown[k] = t
      <4>0. i \in 1..size /\ i \in DOMAIN list /\ size \in DOMAIN list
        <5>1. DOMAIN list = 1..Len(list) /\ size \in 1..Len(list)
          BY <1>14, <1>18, <2>3
        <5>. QED
          BY <2>1, <3>2, <5>1
      <4>1. i \in DOMAIN shown /\ shown[i] = t
        BY <1>14, <1>18, <2>1, <2>3, <4>0
      <4>2. i = size \/ Walks!Precedes(list[i], list[size], q.sort)
        <5>1. i = size \/ i < size
          BY <4>0
        <5>. QED
          BY <1>9, <4>0, <5>1
      <4>3. list[i] \in S /\ list[size] \in S
        BY <1>9, <1>18, <2>1, <2>3
      <4>4. ~Walks!Precedes(list[size], list[i], q.sort)
        BY <1>10, <4>2, <4>3, SortIsOrder DEF Walks!Precedes, Key
      <4>. QED
        BY <4>1, <4>4
    <3>3. ASSUME i > size
          PROVE  Walks!Precedes(list[size], list[i], q.sort) /\ ~\E k \in DOMAIN shown : shown[k] = t
      <4>1. Walks!Precedes(list[size], list[i], q.sort)
        BY <1>9, <1>14, <1>18, <2>1, <2>3, <3>3
      <4>2. ASSUME NEW k \in DOMAIN shown, shown[k] = t PROVE FALSE
        <5>0. k \in 1..size /\ k \in 1..Len(list) /\ shown[k] = list[k]
          BY <1>14, <1>18, <2>3
        <5>1. k < i /\ k \in DOMAIN list /\ list[k] = list[i]
          <6>1. k < i
            BY <2>1, <3>3, <5>0
          <6>. QED
            BY <1>14, <2>1, <4>2, <5>0, <6>1
        <5>2. Walks!Precedes(list[i], list[i], q.sort)
          BY <1>9, <1>14, <2>1, <5>1
        <5>. QED
          BY <1>10, <2>1, <5>2, SortIsOrder DEF Walks!Precedes, Key
      <4>. QED
        BY <4>1, <4>2
    <3>. QED
      BY <2>3, <3>1, <3>2, <3>3
  <2>. QED
    BY <2>2, <2>3
<1>21. \A t \in Tx \ touched : OnPage(p, t) <=> Belongs(p, t)
  <2> SUFFICES ASSUME NEW t \in Tx \ touched PROVE OnPage(p, t) <=> Belongs(p, t)
    OBVIOUS
  <2>1. OnPage(p, t) => t \in S
    BY <1>8, <1>14 DEF OnPage
  <2>2. Belongs(p, t) <=> t \in S /\ ~PastPage(p, t)
    BY <1>8, <1>11, MatchesAnyway DEF Belongs
  <2>. QED
    BY <1>20, <2>1, <2>2
<1>. QED
  BY <1>8, <1>16, <1>17, <1>19, <1>21 DEF PageFits

(* A change of other rows leaves a page as it is.                          *)
SameRows(touched) ==
    \A t \in Tx \ touched :
        /\ t \in DOMAIN ledger' <=> t \in DOMAIN ledger
        /\ t \in DOMAIN ledger => ledger'[t] = ledger[t]

LEMMA PageStaysFit ==
  ASSUME NEW p, NEW touched, NEW more, PageFits(p, touched), touched \subseteq more, SameRows(more)
  PROVE  PageFits(p, more)'
<1>1. ASSUME NEW t \in Tx \ more
      PROVE  OnPage(p, t) <=> Belongs(p, t)'
  <2>1. OnPage(p, t) <=> Belongs(p, t)
    BY DEF PageFits
  <2>2. CASE t \notin DOMAIN ledger
    BY <2>1, <2>2 DEF SameRows, Belongs
  <2>3. CASE t \in DOMAIN ledger
    <3>1. t \in DOMAIN ledger' /\ ledger'[t] = ledger[t]
      BY <2>3 DEF SameRows
    <3>2. Key(t, p.query.sort)' = Key(t, p.query.sort)
      BY <3>1 DEF Key, Walks!KeyOf
    <3>3. PastPage(p, t)' <=> PastPage(p, t)
      BY <3>2 DEF PastPage, Walks!Follows
    <3>4. Walks!AfterCursor(t, p.query)' <=> Walks!AfterCursor(t, p.query)
      BY <3>2 DEF Walks!AfterCursor, Key, Walks!Follows
    <3>. QED
      BY <2>1, <2>3, <3>1, <3>3, <3>4 DEF Belongs, Walks!Matches
  <2>. QED
    BY <2>2, <2>3
<1>2. ASSUME NEW k \in DOMAIN p.rows, NEW l \in DOMAIN p.rows, k < l,
             p.rows[k] \notin more, p.rows[l] \notin more
      PROVE  Walks!Precedes(p.rows[k], p.rows[l], p.query.sort)'
  <2>1. PICK t, u : t = p.rows[k] /\ u = p.rows[l]
    OBVIOUS
  <2>2. t \in Tx \ more /\ u \in Tx \ more
    BY <1>2, <2>1 DEF PageFits
  <2>3. t \in DOMAIN ledger /\ u \in DOMAIN ledger
    BY <2>1, <2>2 DEF PageFits, OnPage, Belongs
  <2>4. ledger'[t] = ledger[t] /\ ledger'[u] = ledger[u]
    BY <2>2, <2>3 DEF SameRows
  <2>5. Walks!Precedes(t, u, p.query.sort)
    BY <1>2, <2>1 DEF PageFits
  <2>6. Walks!Precedes(t, u, p.query.sort)'
    BY <2>4, <2>5 DEF Walks!Precedes, Walks!KeyOf, Walks!Follows
  <2>. QED
    BY <2>1, <2>6
<1>3. /\ p.rows \in Seq(Tx)
      /\ IsCursor(p.query.cursor) /\ Walks!CursorFits(p.query)' /\ NextFits(p)
  BY DEF PageFits, Walks!CursorFits
<1>4. NextFits(p)' /\ IsCursor(p.query.cursor)'
  BY <1>3 DEF NextFits, IsCursor, Walks!Follows
<1>. QED
  BY <1>1, <1>2, <1>3, <1>4 DEF PageFits, OnPage

(* The pages the owner has walked through.  Each starts where the one      *)
(* before ends, so that cursors only move forward; and the rows up to the  *)
(* end of each have been shown on it or before.                            *)
Linked(p, q) ==
    /\ p.next # <<>> /\ q.query.cursor # <<>>
    /\ q.query.filter = p.query.filter /\ q.query.sort = p.query.sort
    /\ \/ q.query.cursor = p.next
       \/ Walks!Follows(q.query.cursor[1].key, q.query.cursor[1].id, p.next[1].key, p.next[1].id,
                        p.query.sort)

ShownUpTo(m, touched) ==
    \A t \in (Tx \ touched) \cap DOMAIN ledger :
        Walks!Matches(ledger[t], trail[m].query, Aliases) /\ ~PastPage(trail[m], t)
          => \E i \in 1..m : OnPage(trail[i], t)

TrailFits ==
    /\ \E S : trail \in Seq(S)
    /\ \A i \in DOMAIN trail : PageFits(trail[i], changed) /\ ShownUpTo(i, changed)
    /\ \A i, j \in DOMAIN trail : i < j => Linked(trail[i], trail[j])
    /\ trail # <<>> => trail[1].query.cursor = <<>>

(* A first page starts a trail.                                            *)
LEMMA TrailStarts ==
  ASSUME NEW p, PageFits(p, changed)', p.query.cursor = <<>>, trail' = <<p>>
  PROVE  TrailFits'
<1>1. trail' \in Seq({p}) /\ DOMAIN trail' = {1} /\ trail'[1] = p
  BY DEF TrailFits
<1>2. ShownUpTo(1, changed)'
  <2> SUFFICES ASSUME NEW t \in Tx \ changed', t \in DOMAIN ledger',
                      Walks!Matches(ledger[t], p.query, Aliases)', ~PastPage(p, t)'
               PROVE  \E i \in 1..1 : OnPage(trail'[i], t)
    BY <1>1 DEF ShownUpTo, OnPage
  <2>1. Walks!AfterCursor(t, p.query)'
    BY DEF Walks!AfterCursor
  <2>2. Belongs(p, t)'
    BY <2>1 DEF Belongs
  <2>3. OnPage(p, t)
    BY <2>2 DEF PageFits, OnPage
  <2>. QED
    BY <1>1, <2>3
<1>3. PageFits(trail[1], changed)'
  BY <1>1
<1>4. \A i, j \in DOMAIN trail' : ~(i < j) /\ i = 1
  BY <1>1
<1>. QED
  BY <1>1, <1>2, <1>3, <1>4 DEF TrailFits

(* Two pages of a trail never end at the same row.                         *)
LEMMA EndsDiffer ==
  ASSUME TrailFits, NEW i \in DOMAIN trail, NEW j \in DOMAIN trail, i < j, trail[j].next # <<>>
  PROVE  trail[i].next # trail[j].next
<1>1. PICK p : p = trail[i]
  OBVIOUS
<1>2. PICK q : q = trail[j]
  OBVIOUS
<1>3. Linked(p, q) /\ PageFits(p, changed) /\ PageFits(q, changed) /\ q.next # <<>>
  BY <1>1, <1>2 DEF TrailFits
<1>4. PICK a : a = p.next[1]
  OBVIOUS
<1>5. PICK b : b = q.query.cursor[1]
  OBVIOUS
<1>6. PICK c : c = q.next[1]
  OBVIOUS
<1>7. PICK sort : sort = q.query.sort
  OBVIOUS
<1>8. Walks!Follows(c.key, c.id, b.key, b.id, sort)
  BY <1>3, <1>5, <1>6, <1>7 DEF PageFits, NextFits, Linked
<1>9. b = a \/ Walks!Follows(b.key, b.id, a.key, a.id, sort)
  BY <1>3, <1>4, <1>5, <1>7 DEF Linked
<1>10. {a.key, a.id, b.key, b.id, c.key, c.id} \subseteq Int
  BY <1>3, <1>4, <1>5, <1>6 DEF PageFits, NextFits, Linked, IsCursor
<1>11. c # a
  BY <1>8, <1>9, <1>10, SortIsOrder
<1>. QED
  BY <1>1, <1>2, <1>4, <1>6, <1>11

(* A page whose cursor is the end of a page of the trail follows it.       *)
LEMMA WalkedIs ==
  ASSUME TrailFits, NEW p, p.query.cursor # <<>>
  PROVE  \/ Walks!Walked(p) = <<>>
         \/ \E i \in DOMAIN trail :
              trail[i].next = p.query.cursor /\ Walks!Walked(p) = Append(SubSeq(trail, 1, i), p)
<1> DEFINE before == {i \in DOMAIN trail : trail[i].next = p.query.cursor}
<1>1. CASE before = {}
  BY <1>1 DEF Walks!Walked
<1>2. CASE before # {}
  <2>1. PICK i \in before : TRUE
    BY <1>2
  <2>2. PICK S : trail \in Seq(S)
    BY DEF TrailFits
  <2>3. DOMAIN trail \subseteq Nat
    BY <2>2
  <2>4. \A j \in before : j = i
    <3> SUFFICES ASSUME NEW j \in before, j # i PROVE FALSE
      OBVIOUS
    <3>1. i < j \/ j < i
      BY <2>3
    <3>. QED
      BY <3>1, EndsDiffer
  <2>5. before = {i}
    BY <2>4
  <2>6. (CHOOSE k \in before : \A j \in before : j <= k) = i
    <3>1. i <= i
      BY <2>3
    <3> HIDE DEF before
    <3>. QED
      BY <2>5, <3>1
  <2>7. Walks!Walked(p) = Append(SubSeq(trail, 1, CHOOSE k \in before : \A j \in before : j <= k), p)
    BY <1>2 DEF Walks!Walked
  <2>. QED
    BY <2>1, <2>6, <2>7
<1>. QED
  BY <1>1, <1>2

(* The trail goes on with the page.                                        *)
LEMMA TrailGoesOn ==
  ASSUME TrailFits, UNCHANGED <<ledger, changed>>, NEW p, PageFits(p, changed), p.query.cursor # <<>>,
         NEW i \in DOMAIN trail, trail[i].next = p.query.cursor,
         trail' = Append(SubSeq(trail, 1, i), p)
  PROVE  TrailFits'
<1>1. PICK S : trail \in Seq(S)
  BY DEF TrailFits
<1>2. PICK T : T = S \cup {p}
  OBVIOUS
<1>3. trail \in Seq(T) /\ p \in T /\ i \in 1..Len(trail)
  BY <1>1, <1>2
<1>4. PICK head : head = SubSeq(trail, 1, i)
  OBVIOUS
<1>5. head \in Seq(T) /\ Len(head) = i /\ \A k \in 1..i : head[k] = trail[k]
  BY <1>3, <1>4
<1>6. trail' = Append(head, p)
  BY <1>4
<1>7. /\ trail' \in Seq(T) /\ DOMAIN trail' = 1..(i + 1) /\ i \in Nat \ {0} /\ trail'[i + 1] = p
      /\ \A k \in 1..i : trail'[k] = trail[k] /\ k \in DOMAIN trail
  BY <1>3, <1>5, <1>6
<1> HIDE DEF TrailFits
<1>8. PageFits(trail[i], changed)
  BY DEF TrailFits
<1>9. p.query.filter = trail[i].query.filter /\ p.query.sort = trail[i].query.sort
  BY <1>8 DEF PageFits, NextFits, Walks!CursorFits
<1>10. \A k \in 1..i : Linked(trail[k], p)
  <2> SUFFICES ASSUME NEW k \in 1..i PROVE Linked(trail[k], p)
    OBVIOUS
  <2>1. CASE k = i
    BY <1>9, <2>1 DEF Linked
  <2>2. CASE k < i
    <3>1. PICK a : a = trail[k]
      OBVIOUS
    <3>2. PICK b : b = trail[i]
      OBVIOUS
    <3>3. Linked(a, b) /\ PageFits(a, changed) /\ PageFits(b, changed)
      BY <1>7, <2>2, <3>1, <3>2 DEF TrailFits
    <3>4. PICK x, y, z : x = a.next[1] /\ y = b.query.cursor[1] /\ z = b.next[1]
      OBVIOUS
    <3>5. z = p.query.cursor[1] /\ b.next # <<>>
      BY <3>2, <3>4
    <3>6. PICK sort : sort = a.query.sort
      OBVIOUS
    <3>7. y = x \/ Walks!Follows(y.key, y.id, x.key, x.id, sort)
      BY <3>3, <3>4, <3>6 DEF Linked
    <3>8. Walks!Follows(z.key, z.id, y.key, y.id, sort)
      BY <3>3, <3>4, <3>5, <3>6 DEF PageFits, NextFits, Linked
    <3>9. {x.key, x.id, y.key, y.id, z.key, z.id} \subseteq Int
      BY <3>3, <3>4, <3>5 DEF PageFits, NextFits, Linked, IsCursor
    <3>10. Walks!Follows(z.key, z.id, x.key, x.id, sort)
      BY <3>7, <3>8, <3>9, SortIsOrder
    <3>11. p.query.filter = a.query.filter /\ p.query.sort = a.query.sort /\ a.next # <<>>
      BY <1>9, <3>2, <3>3 DEF Linked
    <3>12. Walks!Follows(p.query.cursor[1].key, p.query.cursor[1].id, a.next[1].key, a.next[1].id,
                         a.query.sort)
      BY <3>4, <3>5, <3>6, <3>10
    <3>13. Linked(a, p)
      BY <3>11, <3>12 DEF Linked
    <3>. QED
      BY <3>1, <3>13
  <2>. QED
    BY <1>7, <2>1, <2>2
<1>11. \A k \in 1..i : ShownUpTo(k, changed)'
  <2> SUFFICES ASSUME NEW k \in 1..i PROVE ShownUpTo(k, changed)'
    OBVIOUS
  <2>1. ShownUpTo(k, changed) /\ trail'[k] = trail[k] /\ \A j \in 1..k : trail'[j] = trail[j]
    BY <1>7 DEF TrailFits
  <2> SUFFICES ASSUME NEW t \in Tx \ changed, t \in DOMAIN ledger,
                      Walks!Matches(ledger[t], trail[k].query, Aliases), ~PastPage(trail[k], t)
               PROVE  \E j \in 1..k : OnPage(trail'[j], t)
    BY <2>1 DEF ShownUpTo, PastPage, OnPage, Key, Walks!KeyOf, Walks!Follows, Walks!Matches
  <2>. QED
    BY <2>1 DEF ShownUpTo
<1>12. ShownUpTo(i + 1, changed)'
  <2> SUFFICES ASSUME NEW t \in Tx \ changed, t \in DOMAIN ledger,
                      Walks!Matches(ledger[t], p.query, Aliases), ~PastPage(p, t)
               PROVE  \E k \in 1..(i + 1) : OnPage(trail'[k], t)
    BY <1>7 DEF ShownUpTo, PastPage, OnPage, Key, Walks!KeyOf, Walks!Follows, Walks!Matches
  <2>1. CASE Walks!AfterCursor(t, p.query)
    <3>1. OnPage(p, t)
      BY <2>1 DEF Belongs, PageFits
    <3>. QED
      BY <1>7, <3>1
  <2>2. CASE ~Walks!AfterCursor(t, p.query)
    <3>1. ~PastPage(trail[i], t)
      BY <1>9, <2>2 DEF Walks!AfterCursor, PastPage, Key
    <3>2. Walks!Matches(ledger[t], trail[i].query, Aliases)
      BY <1>9 DEF Walks!Matches
    <3>3. \E k \in 1..i : OnPage(trail[k], t)
      BY <3>1, <3>2 DEF TrailFits, ShownUpTo
    <3>. QED
      BY <1>7, <3>3
  <2>. QED
    BY <2>1, <2>2
<1>13. \A k \in DOMAIN trail' : PageFits(trail[k], changed)'
  <2> SUFFICES ASSUME NEW k \in DOMAIN trail' PROVE PageFits(trail[k], changed)'
    OBVIOUS
  <2>1. PICK q : q = trail'[k]
    OBVIOUS
  <2>2. PageFits(q, changed)
    BY <1>7, <2>1 DEF TrailFits
  <2>3. SameRows(changed)
    BY DEF SameRows
  <2>4. PageFits(q, changed)'
    BY <2>2, <2>3, PageStaysFit
  <2>. QED
    BY <2>1, <2>4
<1>14. \A k, j \in DOMAIN trail' : k < j => Linked(trail'[k], trail'[j])
  <2> SUFFICES ASSUME NEW k \in DOMAIN trail', NEW j \in DOMAIN trail', k < j
               PROVE  Linked(trail'[k], trail'[j])
    OBVIOUS
  <2>1. k \in 1..i /\ trail'[k] = trail[k] /\ k \in DOMAIN trail
    BY <1>7
  <2>2. j = i + 1 \/ (j \in 1..i /\ trail'[j] = trail[j] /\ j \in DOMAIN trail)
    BY <1>7
  <2>. QED
    BY <1>7, <1>10, <2>1, <2>2 DEF TrailFits
<1>15. trail'[1] = trail[1] /\ trail # <<>>
  BY <1>3, <1>7
<1>16. trail'[1].query.cursor = <<>>
  BY <1>15 DEF TrailFits
<1>17. \A k \in DOMAIN trail' : ShownUpTo(k, changed)'
  BY <1>7, <1>11, <1>12
<1>18. \A k, j \in DOMAIN trail' : k < j => Linked(trail[k], trail[j])'
  BY <1>14 DEF Linked, Walks!Follows
<1>. QED
  BY <1>7, <1>13, <1>16, <1>17, <1>18 DEF TrailFits

(* A change of a row, which counts as changed, leaves the trail as it is.  *)
LEMMA TrailStays ==
  ASSUME TrailFits, trail' = trail, changed \subseteq changed', SameRows(changed')
  PROVE  TrailFits'
<1>1. ASSUME NEW i \in DOMAIN trail
      PROVE  PageFits(trail[i], changed)' /\ ShownUpTo(i, changed)'
  <2>1. PICK p : p = trail[i]
    OBVIOUS
  <2>2. PageFits(p, changed)
    BY <2>1 DEF TrailFits
  <2>3. PICK more : more = changed'
    OBVIOUS
  <2>4. PageFits(p, more)'
    BY <2>2, <2>3, PageStaysFit
  <2>5. ShownUpTo(i, changed)'
    <3> SUFFICES ASSUME NEW t \in Tx \ changed', t \in DOMAIN ledger',
                        Walks!Matches(ledger[t], p.query, Aliases)', ~PastPage(p, t)'
                 PROVE  \E k \in 1..i : OnPage(trail[k], t)
      BY <2>1 DEF ShownUpTo, OnPage
    <3>1. t \in DOMAIN ledger /\ ledger'[t] = ledger[t]
      BY DEF SameRows
    <3>2. Walks!Matches(ledger[t], p.query, Aliases)
      BY <3>1 DEF Walks!Matches
    <3>3. ~PastPage(p, t)
      BY <3>1 DEF PastPage, Key, Walks!KeyOf, Walks!Follows
    <3>. QED
      BY <2>1, <3>1, <3>2, <3>3 DEF TrailFits, ShownUpTo
  <2>. QED
    BY <2>1, <2>3, <2>4, <2>5
<1>2. \A i, j \in DOMAIN trail : i < j => Linked(trail[i], trail[j])'
  BY DEF TrailFits, Linked, Walks!Follows
<1>. QED
  BY <1>1, <1>2 DEF TrailFits

(* The addresses and requests of the page.                                 *)
IsAddress(a) ==
    a = [filter |-> a.filter, sort |-> a.sort, cursor |-> a.cursor] /\ IsCursor(a.cursor)

AddressesFit ==
    /\ \E S : entries \in Seq(S) /\ at \in 1..Len(entries)
    /\ \A k \in DOMAIN entries : IsAddress(entries[k])
    /\ page.status = "ready" => IsCursor(page.data[1].next)

RequestFits(r) ==
    /\ IsRequest(r) /\ r.changed \subseteq changed /\ IsCursor(r.query.cursor)
    /\ r.aliases # <<>> => AliasesFit(r.query, r.aliases[1], r.changed)

RequestsFit == (\A r \in requests : RequestFits(r)) /\ \A r, q \in requests : r = q

PageInv == Book /\ AddressesFit /\ RequestsFit /\ TrailFits

(* The steps there are, of whichever instance.                             *)
OpensPage(address) ==
    /\ IsAddress(address) /\ requests' \in {requests, {Walks!Ask(address)}}
    /\ entries' = Append(SubSeq(entries, 1, at), address) /\ at' = at + 1
    /\ page' = Walks!Loading /\ UNCHANGED <<ledger, trail, changed>>

ShowsPage ==
    /\ at' \in DOMAIN entries /\ requests' \in {requests, {Walks!Ask(entries[at'])}}
    /\ page' \in {page, Walks!Loading} /\ UNCHANGED <<ledger, entries, trail, changed>>

ReadsFamily(r) ==
    /\ requests' = (requests \ {r}) \cup {[r EXCEPT !.aliases = <<Walks!ReadAliases(r.query)>>]}
    /\ UNCHANGED <<ledger, entries, at, page, trail, changed>>

AnswersWith(r, p) ==
    /\ requests' = requests \ {r} /\ page' = Walks!Ready(p) /\ trail' = Walks!Walked(p)
    /\ changed' = IF p.query.cursor = <<>> THEN r.changed ELSE changed
    /\ UNCHANGED <<ledger, entries, at>>

Answers(r, size) ==
    /\ r.query.filter[1] => r.aliases # <<>>
    /\ Walks!CursorFits(r.query)
    /\ AnswersWith(r, PageOf(r.query, IF r.aliases = <<>> THEN {} ELSE r.aliases[1], size))

FailsToAnswer(r) ==
    /\ requests' = requests \ {r} /\ page' = Walks!Failed
    /\ UNCHANGED <<ledger, entries, at, trail, changed>>

EditsRow(t, row) ==
    /\ t \in Tx /\ row.date \in Int /\ row.amount \in Int
    /\ ledger' = [u \in DOMAIN ledger \cup {t} |-> IF u = t THEN row ELSE ledger[u]]
    /\ requests' = {[r EXCEPT !.changed = @ \cup {t}] : r \in requests}
    /\ changed' = changed \cup {t}
    /\ UNCHANGED <<entries, at, page, trail>>

Rests == UNCHANGED <<ledger, entries, at, page, requests, trail, changed>>

WalkStep(size) ==
    \/ \E address : OpensPage(address)
    \/ ShowsPage
    \/ \E r \in requests : ReadsFamily(r) \/ Answers(r, size) \/ FailsToAnswer(r)
    \/ \E t, row : EditsRow(t, row)
    \/ Rests

-----------------------------------------------------------------------------
(* What each step keeps.                                                   *)
LEMMA TrailUntouched ==
  ASSUME TrailFits, UNCHANGED <<ledger, trail, changed>>
  PROVE  TrailFits'
<1>1. SameRows(changed') /\ changed \subseteq changed'
  BY DEF SameRows
<1>. QED
  BY <1>1, TrailStays

LEMMA RequestUntouched ==
  ASSUME NEW r, RequestFits(r), UNCHANGED <<ledger, changed>>
  PROVE  RequestFits(r)'
  BY DEF RequestFits, IsRequest, IsCursor, AliasesFit

LEMMA AskFits ==
  ASSUME NEW address, IsAddress(address)
  PROVE  RequestFits(Walks!Ask(address))'
<1>1. PICK q : q = Walks!ApiSearch(address)
  OBVIOUS
<1>2. address = [filter |-> address.filter, sort |-> address.sort, cursor |-> address.cursor]
      /\ IsCursor(address.cursor)
  BY DEF IsAddress
<1>3. q.cursor = address.cursor
  <2>1. PICK sort : sort = IF address.sort = <<>> THEN "DATE_DESC" ELSE address.sort[1]
    OBVIOUS
  <2>2. q = [address EXCEPT !.sort = sort]
    BY <1>1, <2>1 DEF Walks!ApiSearch
  <2>3. q = [filter |-> address.filter, sort |-> sort, cursor |-> address.cursor]
    BY <1>2, <2>2
  <2>. QED
    BY <2>3
<1>4. PICK r : r = Walks!Ask(address)
  OBVIOUS
<1>5. r = [query |-> q, aliases |-> <<>>, changed |-> {}]
  BY <1>1, <1>4 DEF Walks!Ask
<1>6. RequestFits(r)'
  BY <1>2, <1>3, <1>5 DEF RequestFits, IsRequest, IsCursor
<1>. QED
  BY <1>4, <1>6

LEMMA AskedFits ==
  ASSUME RequestsFit, UNCHANGED <<ledger, changed>>, NEW address, IsAddress(address),
         requests' \in {requests, {Walks!Ask(address)}}
  PROVE  RequestsFit'
<1>1. CASE requests' = requests
  BY <1>1, RequestUntouched DEF RequestsFit
<1>2. CASE requests' = {Walks!Ask(address)}
  BY <1>2, AskFits DEF RequestsFit
<1>. QED
  BY <1>1, <1>2

LEMMA RequestsFewer ==
  ASSUME RequestsFit, UNCHANGED <<ledger, changed>>, requests' \subseteq requests
  PROVE  RequestsFit'
  BY RequestUntouched DEF RequestsFit

LEMMA OpensKeeps ==
  ASSUME PageInv, NEW address, OpensPage(address)
  PROVE  PageInv'
<1>1. TrailFits' /\ Book'
  BY TrailUntouched DEF PageInv, OpensPage, Book
<1>2. RequestsFit'
  BY AskedFits DEF PageInv, OpensPage
<1>3. AddressesFit'
  <2>1. PICK S : entries \in Seq(S) /\ at \in 1..Len(entries)
    BY DEF PageInv, AddressesFit
  <2>2. PICK T : T = S \cup {address}
    OBVIOUS
  <2>3. entries \in Seq(T) /\ address \in T
    BY <2>1, <2>2
  <2>4. PICK before : before = SubSeq(entries, 1, at)
    OBVIOUS
  <2>5. before \in Seq(T) /\ Len(before) = at /\ at \in Nat /\ \A k \in 1..at : before[k] = entries[k]
    BY <2>1, <2>3, <2>4
  <2>6. entries' = Append(before, address) /\ at' = at + 1 /\ page' = Walks!Loading
    BY <2>4 DEF OpensPage
  <2>7. /\ entries' \in Seq(T) /\ at' \in 1..Len(entries') /\ DOMAIN entries' = 1..(at + 1)
        /\ entries'[at + 1] = address /\ \A k \in 1..at : entries'[k] = entries[k]
    BY <2>3, <2>5, <2>6
  <2>8. \A k \in 1..at : IsAddress(entries[k])
    BY <2>1 DEF PageInv, AddressesFit
  <2>9. \A k \in DOMAIN entries' : k \in 1..at \/ k = at + 1
    BY <2>5, <2>7
  <2>10. \A k \in DOMAIN entries' : IsAddress(entries'[k])
    BY <2>7, <2>8, <2>9 DEF OpensPage
  <2>11. page'.status # "ready"
    BY <2>6 DEF Walks!Loading
  <2>12. \A k \in DOMAIN entries' : IsAddress(entries[k])'
    BY <2>10 DEF IsAddress, IsCursor
  <2>. QED
    BY <2>7, <2>11, <2>12 DEF AddressesFit
<1>. QED
  BY <1>1, <1>2, <1>3 DEF PageInv

LEMMA AddressesStay ==
  ASSUME AddressesFit, entries' = entries, at' \in DOMAIN entries,
         page'.status = "ready" => IsCursor(page'.data[1].next)
  PROVE  AddressesFit'
<1>1. PICK S : entries \in Seq(S)
  BY DEF AddressesFit
<1>2. \A k \in DOMAIN entries : IsAddress(entries[k])'
  BY DEF AddressesFit, IsAddress, IsCursor
<1>3. (page.status = "ready" => IsCursor(page.data[1].next))'
  BY DEF IsCursor
<1>4. at' \in 1..Len(entries)
  BY <1>1
<1>. QED
  BY <1>1, <1>2, <1>3, <1>4 DEF AddressesFit

LEMMA AtIsPosition == AddressesFit => at \in DOMAIN entries
  BY DEF AddressesFit

LEMMA ShowsKeeps ==
  ASSUME PageInv, ShowsPage
  PROVE  PageInv'
<1>1. TrailFits' /\ Book'
  BY TrailUntouched DEF PageInv, ShowsPage, Book
<1>2. IsAddress(entries[at'])
  BY DEF PageInv, AddressesFit, ShowsPage
<1>3. RequestsFit'
  BY <1>2, AskedFits DEF PageInv, ShowsPage
<1>4. page'.status = "ready" => IsCursor(page'.data[1].next)
  BY DEF PageInv, AddressesFit, ShowsPage, Walks!Loading
<1>5. AddressesFit'
  BY <1>4, AddressesStay DEF PageInv, ShowsPage
<1>. QED
  BY <1>1, <1>3, <1>5 DEF PageInv

LEMMA ReadsKeeps ==
  ASSUME PageInv, NEW r \in requests, ReadsFamily(r)
  PROVE  PageInv'
<1>1. TrailFits' /\ Book'
  BY TrailUntouched DEF PageInv, ReadsFamily, Book
<1>2. AddressesFit'
  BY AddressesStay, AtIsPosition DEF PageInv, AddressesFit, ReadsFamily
<1>3. PICK aliases : aliases = Walks!ReadAliases(r.query)
  OBVIOUS
<1>4. PICK q : q = [r EXCEPT !.aliases = <<aliases>>]
  OBVIOUS
<1>5. RequestFits(r) /\ \A s \in requests : s = r
  BY DEF PageInv, RequestsFit
<1>6. requests' = {q}
  BY <1>3, <1>4, <1>5 DEF ReadsFamily
<1>7. r = [query |-> r.query, aliases |-> r.aliases, changed |-> r.changed]
  BY <1>5 DEF RequestFits, IsRequest
<1>8. q = [query |-> r.query, aliases |-> <<aliases>>, changed |-> r.changed]
  BY <1>4, <1>7
<1>9. q.query = r.query /\ q.aliases[1] = aliases /\ q.changed = r.changed /\ IsRequest(q)
  BY <1>8 DEF IsRequest
<1>10. AliasesFit(r.query, aliases, r.changed)
  BY <1>3 DEF AliasesFit, Walks!ReadAliases
<1>11. AliasesFit(r.query, aliases, r.changed)'
  BY <1>10 DEF AliasesFit, ReadsFamily
<1>12. RequestFits(q)'
  BY <1>5, <1>9, <1>11 DEF RequestFits, IsRequest, IsCursor, ReadsFamily
<1>13. RequestsFit'
  BY <1>6, <1>12 DEF RequestsFit
<1>. QED
  BY <1>1, <1>2, <1>13 DEF PageInv

LEMMA FailsKeeps ==
  ASSUME PageInv, NEW r \in requests, FailsToAnswer(r)
  PROVE  PageInv'
<1>1. TrailFits' /\ Book'
  BY TrailUntouched DEF PageInv, FailsToAnswer, Book
<1>2. page'.status # "ready"
  BY DEF FailsToAnswer, Walks!Failed
<1>3. AddressesFit'
  BY <1>2, AddressesStay, AtIsPosition DEF PageInv, FailsToAnswer
<1>4. RequestsFit'
  BY RequestsFewer DEF PageInv, FailsToAnswer
<1>. QED
  BY <1>1, <1>3, <1>4 DEF PageInv

LEMMA AnswersKeeps ==
  ASSUME PageInv, NEW size \in Nat \ {0}, NEW r \in requests, Answers(r, size)
  PROVE  /\ PageInv'
         /\ \A i \in DOMAIN trail' :
              Len(trail'[i].rows) <= size \/ \E j \in DOMAIN trail : trail'[i] = trail[j]
<1>1. PICK aliases : aliases = IF r.aliases = <<>> THEN {} ELSE r.aliases[1]
  OBVIOUS
<1>2. PICK p : p = PageOf(r.query, aliases, size)
  OBVIOUS
<1>3. AnswersWith(r, p) /\ Walks!CursorFits(r.query)
  BY <1>1, <1>2 DEF Answers
<1>4. RequestFits(r) /\ requests' = {}
  BY <1>3 DEF PageInv, RequestsFit, AnswersWith
<1>5. AliasesFit(r.query, aliases, r.changed)
  <2>1. CASE r.aliases # <<>>
    BY <1>1, <1>4, <2>1 DEF RequestFits
  <2>2. CASE ~r.query.filter[1]
    BY <2>2 DEF AliasesFit
  <2>. QED
    BY <2>1, <2>2 DEF Answers
<1>6. PageFits(p, r.changed) /\ Len(p.rows) <= size /\ p.query = r.query
  <2>1. PICK q, touched : q = r.query /\ touched = r.changed
    OBVIOUS
  <2>. QED
    BY <1>2, <1>3, <1>4, <1>5, <2>1, PageFitsNow DEF PageInv, RequestFits
<1>7. r.changed \subseteq changed' /\ UNCHANGED <<ledger, entries, at>>
  BY <1>3, <1>4 DEF AnswersWith, RequestFits
<1>8. PageFits(p, changed)'
  <2>1. SameRows(changed')
    BY <1>7 DEF SameRows
  <2>2. PICK touched, more : touched = r.changed /\ more = changed'
    OBVIOUS
  <2>3. PageFits(p, more)'
    BY <1>6, <1>7, <2>1, <2>2, PageStaysFit
  <2>. QED
    BY <2>2, <2>3
<1>9. Book'
  BY <1>7 DEF PageInv, Book
<1>10. RequestsFit'
  BY <1>4 DEF RequestsFit
<1>11. AddressesFit'
  <2>1. page' = Walks!Ready(p)
    BY <1>3 DEF AnswersWith
  <2>2. page'.data[1] = p
    BY <2>1 DEF Walks!Ready
  <2>3. IsCursor(p.next)
    BY <1>6 DEF PageFits, NextFits, IsCursor
  <2>. QED
    BY <1>7, <2>2, <2>3, AddressesStay, AtIsPosition DEF PageInv
<1>12. CASE p.query.cursor = <<>>
  <2>1. trail' = <<p>>
    BY <1>3, <1>12 DEF AnswersWith, Walks!Walked
  <2>2. TrailFits'
    BY <1>8, <1>12, <2>1, TrailStarts
  <2>3. \A i \in DOMAIN trail' : trail'[i] = p
    BY <2>1
  <2>. QED
    BY <1>6, <1>9, <1>10, <1>11, <2>2, <2>3 DEF PageInv
<1>13. CASE p.query.cursor # <<>>
  <2>1. trail' = Walks!Walked(p) /\ changed' = changed
    BY <1>3, <1>13 DEF AnswersWith
  <2>2. CASE trail' = <<>>
    <3>1. trail' \in Seq({}) /\ DOMAIN trail' = {}
      BY <2>2
    <3>2. TrailFits'
      BY <2>2, <3>1 DEF TrailFits
    <3>. QED
      BY <1>9, <1>10, <1>11, <3>1, <3>2 DEF PageInv
  <2>3. ASSUME NEW i \in DOMAIN trail, trail[i].next = p.query.cursor,
               trail' = Append(SubSeq(trail, 1, i), p)
        PROVE  /\ TrailFits'
               /\ \A k \in DOMAIN trail' : trail'[k] = p \/ \E j \in DOMAIN trail : trail'[k] = trail[j]
    <3>1. PageFits(p, changed)
      <4>1. PICK touched : touched = r.changed
        OBVIOUS
      <4>2. changed' = changed /\ ledger' = ledger
        BY <1>7, <2>1
      <4>. QED
        BY <1>8, <4>2 DEF PageFits, NextFits, IsCursor, OnPage, Belongs, PastPage, Key, Walks!KeyOf,
             Walks!Follows, Walks!Matches, Walks!AfterCursor, Walks!CursorFits, Walks!Precedes
    <3>2. TrailFits'
      BY <1>7, <1>13, <2>1, <2>3, <3>1, TrailGoesOn DEF PageInv
    <3>3. PICK S : trail \in Seq(S)
      BY DEF PageInv, TrailFits
    <3>4. PICK head : head = SubSeq(trail, 1, i)
      OBVIOUS
    <3>5. head \in Seq(S) /\ Len(head) = i /\ i \in Nat /\ \A k \in 1..i : head[k] = trail[k] /\ k \in DOMAIN trail
      BY <3>3, <3>4
    <3>6. trail' = Append(head, p)
      BY <2>3, <3>4
    <3>7. \A k \in DOMAIN trail' : k \in 1..i \/ trail'[k] = p
      BY <3>5, <3>6
    <3>8. \A k \in 1..i : trail'[k] = trail[k] /\ k \in DOMAIN trail
      BY <3>5, <3>6
    <3>. QED
      BY <3>2, <3>7, <3>8
  <2>4. \/ trail' = <<>>
        \/ \E i \in DOMAIN trail :
             trail[i].next = p.query.cursor /\ trail' = Append(SubSeq(trail, 1, i), p)
    BY <1>13, <2>1, WalkedIs DEF PageInv
  <2>. QED
    BY <1>6, <1>9, <1>10, <1>11, <2>2, <2>3, <2>4 DEF PageInv
<1>. QED
  BY <1>12, <1>13

LEMMA EditsKeeps ==
  ASSUME PageInv, NEW t, NEW row, EditsRow(t, row)
  PROVE  PageInv'
<1>1. /\ ledger' = [u \in DOMAIN ledger \cup {t} |-> IF u = t THEN row ELSE ledger[u]]
      /\ DOMAIN ledger' = DOMAIN ledger \cup {t} /\ ledger'[t] = row
      /\ \A u \in DOMAIN ledger : u # t => ledger'[u] = ledger[u]
      /\ t \in Tx /\ row.date \in Int /\ row.amount \in Int
  BY DEF EditsRow
<1>2. changed' = changed \cup {t} /\ t \in changed' /\ UNCHANGED <<entries, at, page, trail>>
  BY DEF EditsRow
<1>3. Book'
  BY <1>1 DEF PageInv, Book
<1>4. TrailFits'
  <2>1. SameRows(changed')
    BY <1>1, <1>2 DEF SameRows
  <2>. QED
    BY <1>2, <2>1, TrailStays DEF PageInv
<1>5. AddressesFit'
  BY <1>2, AddressesStay, AtIsPosition DEF PageInv, AddressesFit
<1>6. ASSUME NEW r \in requests, NEW q, q = [r EXCEPT !.changed = @ \cup {t}]
      PROVE  RequestFits(q)'
  <2>1. PICK more : more = r.changed \cup {t}
    OBVIOUS
  <2>2. q = [r EXCEPT !.changed = more]
    BY <1>6, <2>1
  <2>3. RequestFits(r)
    BY DEF PageInv, RequestsFit
  <2>4. r = [query |-> r.query, aliases |-> r.aliases, changed |-> r.changed]
    BY <2>3 DEF RequestFits, IsRequest
  <2>5. q = [query |-> r.query, aliases |-> r.aliases, changed |-> more]
    BY <2>2, <2>4
  <2>6. q.query = r.query /\ q.aliases = r.aliases /\ q.changed = more /\ IsRequest(q)
    BY <2>5 DEF IsRequest
  <2>7. more \subseteq changed'
    BY <1>2, <2>1, <2>3 DEF RequestFits
  <2>8. r.aliases # <<>> => AliasesFit(r.query, r.aliases[1], more)'
    BY <1>1, <2>1, <2>3 DEF RequestFits, AliasesFit
  <2>9. IsCursor(r.query.cursor)
    BY <2>3 DEF RequestFits
  <2>. QED
    BY <2>6, <2>7, <2>8, <2>9 DEF RequestFits, IsRequest, IsCursor
<1>7. RequestsFit'
  <2>1. \A q \in requests' : RequestFits(q)'
    BY <1>6 DEF EditsRow
  <2>2. \A r, q \in requests' : r = q
    BY DEF PageInv, RequestsFit, EditsRow
  <2>. QED
    BY <2>1, <2>2 DEF RequestsFit
<1>. QED
  BY <1>3, <1>4, <1>5, <1>7 DEF PageInv

LEMMA RestsKeeps ==
  ASSUME PageInv, Rests
  PROVE  PageInv'
<1>1. TrailFits' /\ Book'
  BY TrailUntouched DEF PageInv, Rests, Book
<1>2. AddressesFit'
  BY AddressesStay, AtIsPosition DEF PageInv, AddressesFit, Rests
<1>3. RequestsFit'
  BY RequestsFewer DEF PageInv, Rests
<1>. QED
  BY <1>1, <1>2, <1>3 DEF PageInv

LEMMA WalkStepKeeps ==
  ASSUME PageInv, NEW size \in Nat \ {0}, WalkStep(size)
  PROVE  PageInv'
BY OpensKeeps, ShowsKeeps, ReadsKeeps, AnswersKeeps, FailsKeeps, EditsKeeps, RestsKeeps DEF WalkStep

(* What the trail then says.                                               *)
LEMMA TrailIsComplete ==
  ASSUME Book, TrailFits
  PROVE  Walks!NoRowSkipped
<1> SUFFICES ASSUME Walks!Complete(trail)
             PROVE  LET asked == trail[Len(trail)].query IN
                      /\ \A t \in Tx \ changed :
                            Walks!Lists(trail, t) <=> t \in DOMAIN ledger /\ Walks!Matches(ledger[t], asked, Aliases)
                      /\ \A t, u \in Tx \ changed :
                            Walks!ListsBefore(trail, t, u) => Walks!Precedes(t, u, asked.sort)
  BY DEF Walks!NoRowSkipped
<1>1. PICK S : trail \in Seq(S)
  BY DEF TrailFits
<1>2. PICK n : n = Len(trail)
  OBVIOUS
<1>3. PICK asked : asked = trail[n].query
  OBVIOUS
<1>4. n \in Nat \ {0} /\ n \in DOMAIN trail /\ DOMAIN trail = 1..n /\ trail[n].next = <<>>
  BY <1>1, <1>2 DEF Walks!Complete
<1>5. \A i \in DOMAIN trail : trail[i].query.filter = asked.filter /\ trail[i].query.sort = asked.sort
  <2> SUFFICES ASSUME NEW i \in DOMAIN trail
               PROVE  trail[i].query.filter = asked.filter /\ trail[i].query.sort = asked.sort
    OBVIOUS
  <2>1. i = n \/ i < n
    BY <1>4
  <2>. QED
    BY <1>3, <1>4, <2>1 DEF TrailFits, Linked
<1>6. ASSUME NEW t \in Tx \ changed
      PROVE  Walks!Lists(trail, t) <=> t \in DOMAIN ledger /\ Walks!Matches(ledger[t], asked, Aliases)
  <2>1. ASSUME Walks!Lists(trail, t)
        PROVE  t \in DOMAIN ledger /\ Walks!Matches(ledger[t], asked, Aliases)
    <3>1. PICK i \in DOMAIN trail : OnPage(trail[i], t)
      BY <2>1 DEF Walks!Lists, OnPage
    <3>2. Belongs(trail[i], t)
      BY <3>1 DEF TrailFits, PageFits
    <3>. QED
      BY <1>5, <3>2 DEF Belongs, Walks!Matches
  <2>2. ASSUME t \in DOMAIN ledger, Walks!Matches(ledger[t], asked, Aliases)
        PROVE  Walks!Lists(trail, t)
    <3>1. ~PastPage(trail[n], t) /\ ShownUpTo(n, changed)
      BY <1>4 DEF PastPage, TrailFits
    <3>2. \E i \in 1..n : OnPage(trail[i], t)
      BY <1>3, <2>2, <3>1 DEF ShownUpTo
    <3>. QED
      BY <1>4, <3>2 DEF Walks!Lists, OnPage
  <2>. QED
    BY <2>1, <2>2
<1>7. ASSUME NEW t \in Tx \ changed, NEW u \in Tx \ changed, Walks!ListsBefore(trail, t, u)
      PROVE  Walks!Precedes(t, u, asked.sort)
  <2>1. PICK i \in DOMAIN trail, j \in DOMAIN trail :
             \E k \in DOMAIN trail[i].rows, l \in DOMAIN trail[j].rows :
               /\ i < j \/ (i = j /\ k < l)
               /\ trail[i].rows[k] = t /\ trail[j].rows[l] = u
    BY <1>7 DEF Walks!ListsBefore
  <2>2. PICK k \in DOMAIN trail[i].rows, l \in DOMAIN trail[j].rows :
               /\ i < j \/ (i = j /\ k < l)
               /\ trail[i].rows[k] = t /\ trail[j].rows[l] = u
    BY <2>1
  <2>3. CASE i = j /\ k < l
    <3>1. PICK p : p = trail[i]
      OBVIOUS
    <3>2. PageFits(p, changed) /\ p.query.sort = asked.sort
      BY <1>5, <3>1 DEF TrailFits
    <3>3. k \in DOMAIN p.rows /\ l \in DOMAIN p.rows /\ p.rows[k] = t /\ p.rows[l] = u /\ k < l
      BY <2>2, <2>3, <3>1
    <3>. QED
      BY <3>2, <3>3 DEF PageFits
  <2>4. CASE i < j
    <3>1. PICK p, q : p = trail[i] /\ q = trail[j]
      OBVIOUS
    <3>2. PageFits(p, changed) /\ PageFits(q, changed) /\ Linked(p, q) /\ p.query.sort = asked.sort
      BY <1>5, <2>4, <3>1 DEF TrailFits
    <3>3. Belongs(p, t) /\ Belongs(q, u)
      BY <2>2, <3>1, <3>2 DEF PageFits, OnPage
    <3>4. PICK a, b, sort : a = p.next[1] /\ b = q.query.cursor[1] /\ sort = asked.sort
      OBVIOUS
    <3>5. ~Walks!Follows(Key(t, sort), t, a.key, a.id, sort)
      BY <3>2, <3>3, <3>4 DEF Belongs, PastPage, Linked
    <3>6. b = a \/ Walks!Follows(b.key, b.id, a.key, a.id, sort)
      BY <3>2, <3>4 DEF Linked
    <3>7. Walks!Follows(Key(u, sort), u, b.key, b.id, sort)
      BY <3>2, <3>3, <3>4 DEF Belongs, Walks!AfterCursor, Linked, Key
    <3>8. {a.key, a.id, b.key, b.id} \subseteq Int
      BY <3>2, <3>4 DEF PageFits, NextFits, IsCursor, Linked
    <3>9. t \in Int /\ u \in Int /\ Key(t, sort) \in Int /\ Key(u, sort) \in Int
      BY <3>3, KeysAreNumbers DEF Belongs
    <3>10. Walks!Follows(Key(u, sort), u, a.key, a.id, sort)
      BY <3>6, <3>7, <3>8, <3>9, SortIsOrder
    <3>11. Walks!Follows(Key(u, sort), u, Key(t, sort), t, sort)
      BY <3>5, <3>8, <3>9, <3>10, SortIsOrder
    <3>. QED
      BY <3>4, <3>11 DEF Walks!Precedes, Key
  <2>. QED
    BY <2>2, <2>3, <2>4
<1>. QED
  BY <1>2, <1>3, <1>6, <1>7

(* The pages and files of the instances.                                   *)
LEMMA InstancesCount ==
  \A S : Walks!Cardinality(S) = Filters!Cardinality(S) /\ Walks!Cardinality(S) = Exports!Cardinality(S)
  BY DEF Walks!Cardinality, Filters!Cardinality, Exports!Cardinality

LEMMA FiltersOrder == \A S, sort : Filters!Ordered(S, sort) = Walks!Ordered(S, sort)
<1>1. \A t, u, sort : Filters!Precedes(t, u, sort) <=> Walks!Precedes(t, u, sort)
  BY DEF Filters!Precedes, Filters!Follows, Filters!KeyOf, Walks!Precedes, Walks!Follows, Walks!KeyOf
<1>2. \A t, S, sort : Filters!Place(t, S, sort) = Walks!Place(t, S, sort)
  BY <1>1, InstancesCount DEF Filters!Place, Walks!Place
<1>. QED
  BY <1>2, InstancesCount DEF Filters!Ordered, Walks!Ordered

LEMMA ExportsOrder == \A S, sort : Exports!Ordered(S, sort) = Walks!Ordered(S, sort)
<1>1. \A t, u, sort : Exports!Precedes(t, u, sort) <=> Walks!Precedes(t, u, sort)
  BY DEF Exports!Precedes, Exports!Follows, Exports!KeyOf, Walks!Precedes, Walks!Follows, Walks!KeyOf
<1>2. \A t, S, sort : Exports!Place(t, S, sort) = Walks!Place(t, S, sort)
  BY <1>1, InstancesCount DEF Exports!Place, Walks!Place
<1>. QED
  BY <1>2, InstancesCount DEF Exports!Ordered, Walks!Ordered

LEMMA SameQuery ==
  \A q, aliases, n : /\ Filters!Query(q, aliases, n) = Walks!Query(q, aliases, n)
                     /\ Exports!Query(q, aliases, n) = Walks!Query(q, aliases, n)
<1> SUFFICES ASSUME NEW q, NEW aliases, NEW n
             PROVE  /\ Filters!Query(q, aliases, n) = Walks!Query(q, aliases, n)
                    /\ Exports!Query(q, aliases, n) = Walks!Query(q, aliases, n)
  OBVIOUS
<1>1. \A t : /\ Filters!Matches(ledger[t], q, aliases) <=> Walks!Matches(ledger[t], q, aliases)
             /\ Exports!Matches(ledger[t], q, aliases) <=> Walks!Matches(ledger[t], q, aliases)
  BY DEF Filters!Matches, Exports!Matches, Walks!Matches
<1>2. \A t : /\ Filters!AfterCursor(t, q) <=> Walks!AfterCursor(t, q)
             /\ Exports!AfterCursor(t, q) <=> Walks!AfterCursor(t, q)
  BY DEF Filters!AfterCursor, Exports!AfterCursor, Walks!AfterCursor, Filters!Follows, Exports!Follows,
         Walks!Follows, Filters!KeyOf, Exports!KeyOf, Walks!KeyOf
<1>3. \A list : /\ Filters!Limited(list, n) = Walks!Limited(list, n)
                /\ Exports!Limited(list, n) = Walks!Limited(list, n)
  BY DEF Filters!Limited, Exports!Limited, Walks!Limited
<1>. QED
  BY <1>1, <1>2, <1>3, FiltersOrder, ExportsOrder DEF Filters!Query, Exports!Query, Walks!Query

LEMMA ListPageIs ==
  \A q, aliases : /\ Walks!ListPage(q, aliases) = PageOf(q, aliases, PageSize)
                  /\ Filters!ListPage(q, aliases) = PageOf(q, aliases, PageSize)
                  /\ Exports!ListPage(q, aliases) = PageOf(q, aliases, 2)
<1>1. \A list, n : /\ Filters!Limited(list, n) = Walks!Limited(list, n)
                   /\ Exports!Limited(list, n) = Walks!Limited(list, n)
  BY DEF Filters!Limited, Exports!Limited, Walks!Limited
<1>2. \A row, sort : /\ Filters!KeyOf(row, sort) = Walks!KeyOf(row, sort)
                     /\ Exports!KeyOf(row, sort) = Walks!KeyOf(row, sort)
  BY DEF Filters!KeyOf, Exports!KeyOf, Walks!KeyOf
<1>3. \A q, aliases : Walks!ListPage(q, aliases) = PageOf(q, aliases, PageSize)
  BY DEF Walks!ListPage, PageOf
<1>4. \A q, aliases : Filters!ListPage(q, aliases) = PageOf(q, aliases, PageSize)
  BY <1>1, <1>2, SameQuery DEF Filters!ListPage, PageOf
<1>5. \A q, aliases : Exports!ListPage(q, aliases) = PageOf(q, aliases, 2)
  BY <1>1, <1>2, SameQuery DEF Exports!ListPage, PageOf
<1>. QED
  BY <1>3, <1>4, <1>5

(* What each action is.                                                    *)
LEMMA LinkIsAddress ==
  \A f, s : IsAddress([filter |-> f, sort |-> s, cursor |-> <<>>])
  BY DEF IsAddress, IsCursor

LEMMA NextIsAddress ==
  ASSUME AddressesFit, page.status = "ready"
  PROVE  IsAddress([entries[at] EXCEPT !.cursor = page.data[1].next])
<1>1. PICK a : a = entries[at]
  OBVIOUS
<1>2. PICK c : c = page.data[1].next
  OBVIOUS
<1>3. IsAddress(a) /\ IsCursor(c)
  BY <1>1, <1>2 DEF AddressesFit
<1>4. a = [filter |-> a.filter, sort |-> a.sort, cursor |-> a.cursor]
  BY <1>3 DEF IsAddress
<1>5. PICK b : b = [a EXCEPT !.cursor = c]
  OBVIOUS
<1>6. b = [filter |-> a.filter, sort |-> a.sort, cursor |-> c]
  BY <1>4, <1>5
<1>7. IsAddress(b)
  BY <1>3, <1>6 DEF IsAddress
<1>. QED
  BY <1>1, <1>2, <1>5, <1>7

LEMMA WalksAre ==
  ASSUME PageInv, Walks!Next
  PROVE  WalkStep(PageSize)
<1>0. AddressesFit /\ IsAddress(entries[at]) /\ at \in DOMAIN entries
  BY AtIsPosition DEF PageInv, AddressesFit
<1>1. ASSUME NEW address, IsAddress(address), Walks!Navigate(address)
      PROVE  OpensPage(address)
  BY <1>1 DEF Walks!Navigate, Walks!Effect, Walks!search, OpensPage
<1>2. ASSUME NEW address, IsAddress(address), Walks!Load(address)
      PROVE  OpensPage(address) \/ ShowsPage
  BY <1>0, <1>2 DEF Walks!Load, Walks!search, OpensPage, ShowsPage
<1>3. ASSUME NEW k, Walks!PopState(k)
      PROVE  ShowsPage
  BY <1>3 DEF Walks!PopState, Walks!Effect, Walks!search, ShowsPage
<1>4. ASSUME NEW r \in requests, Walks!ReadFamily(r)
      PROVE  ReadsFamily(r)
  BY <1>4 DEF Walks!ReadFamily, ReadsFamily
<1>5. ASSUME NEW r \in requests, Walks!Answer(r)
      PROVE  Answers(r, PageSize) \/ FailsToAnswer(r)
  <2>1. PICK aliases : aliases = IF r.aliases = <<>> THEN {} ELSE r.aliases[1]
    OBVIOUS
  <2>2. PICK p : p = PageOf(r.query, aliases, PageSize)
    OBVIOUS
  <2>3. CASE Walks!CursorFits(r.query)
    <3>1. Walks!ListPage(r.query, aliases) = p /\ p.query = r.query
      BY <2>2, ListPageIs DEF PageOf
    <3>2. AnswersWith(r, p)
      BY <1>5, <2>1, <2>3, <3>1 DEF Walks!Answer, AnswersWith
    <3>. QED
      BY <1>5, <2>1, <2>2, <2>3, <3>2 DEF Walks!Answer, Answers
  <2>4. CASE ~Walks!CursorFits(r.query)
    BY <1>5, <2>4 DEF Walks!Answer, FailsToAnswer
  <2>. QED
    BY <2>3, <2>4
<1>6. ASSUME NEW r \in requests, Walks!Fail(r)
      PROVE  FailsToAnswer(r)
  BY <1>6 DEF Walks!Fail, FailsToAnswer
<1>7. CASE Walks!StartExport \/ Walks!FinishExport
  BY <1>7 DEF Walks!StartExport, Walks!FinishExport, Rests, WalkStep
<1>8. ASSUME NEW t \in Tx, Walks!Edit(t)
      PROVE  \E row : EditsRow(t, row)
  BY <1>8, PagesAssumption DEF Walks!Edit, Walks!RowAssumption, EditsRow
<1>9. CASE Walks!ApplyFilters
  BY <1>1, <1>9, LinkIsAddress DEF Walks!ApplyFilters, WalkStep
<1>10. CASE Walks!NextPage
  BY <1>0, <1>1, <1>10, NextIsAddress DEF Walks!NextPage, Walks!search, WalkStep
<1>11. CASE Walks!Reload \/ Walks!Clear
  BY <1>0, <1>2, <1>11, LinkIsAddress DEF Walks!Reload, Walks!Clear, Walks!search, Walks!Link, WalkStep
<1>. QED
  BY <1>3, <1>4, <1>5, <1>6, <1>7, <1>8, <1>9, <1>10, <1>11 DEF Walks!Next, WalkStep

LEMMA FiltersAre ==
  ASSUME PageInv, Filters!Next
  PROVE  WalkStep(PageSize)
<1>0. AddressesFit /\ IsAddress(entries[at]) /\ at \in DOMAIN entries
  BY AtIsPosition DEF PageInv, AddressesFit
<1>1. ASSUME NEW address, IsAddress(address), Filters!Navigate(address)
      PROVE  OpensPage(address)
  BY <1>1 DEF Filters!Navigate, Filters!Effect, Filters!search, Filters!Loading, Filters!Ask, Filters!ApiSearch,
              OpensPage, Walks!Loading, Walks!Ask, Walks!ApiSearch
<1>2. ASSUME NEW address, IsAddress(address), Filters!Load(address)
      PROVE  OpensPage(address) \/ ShowsPage
  BY <1>0, <1>2 DEF Filters!Load, Filters!search, Filters!Loading, Filters!Ask, Filters!ApiSearch,
              OpensPage, ShowsPage, Walks!Loading, Walks!Ask, Walks!ApiSearch
<1>3. ASSUME NEW k, Filters!PopState(k)
      PROVE  ShowsPage
  BY <1>3 DEF Filters!PopState, Filters!Effect, Filters!search, Filters!Ask, Filters!ApiSearch,
              ShowsPage, Walks!Ask, Walks!ApiSearch
<1>4. ASSUME NEW r \in requests, Filters!ReadFamily(r)
      PROVE  ReadsFamily(r)
  BY <1>4 DEF Filters!ReadFamily, Filters!ReadAliases, ReadsFamily, Walks!ReadAliases
<1>5. ASSUME NEW r \in requests, Filters!Answer(r)
      PROVE  Answers(r, PageSize) \/ FailsToAnswer(r)
  <2>0. \A q : Walks!CursorFits(q) <=> Filters!CursorFits(q)
    BY DEF Walks!CursorFits, Filters!CursorFits
  <2>1. PICK aliases : aliases = IF r.aliases = <<>> THEN {} ELSE r.aliases[1]
    OBVIOUS
  <2>2. PICK p : p = PageOf(r.query, aliases, PageSize)
    OBVIOUS
  <2>3. CASE Walks!CursorFits(r.query)
    <3>1. Filters!ListPage(r.query, aliases) = p /\ p.query = r.query
      BY <2>2, ListPageIs DEF PageOf
    <3>2. AnswersWith(r, p)
      BY <1>5, <2>0, <2>1, <2>3, <3>1 DEF Filters!Answer, Filters!Ready, Filters!Walked, Walks!Ready, Walks!Walked,
                 AnswersWith
    <3>. QED
      BY <1>5, <2>1, <2>2, <2>3, <3>2 DEF Filters!Answer, Answers
  <2>4. CASE ~Walks!CursorFits(r.query)
    BY <1>5, <2>0, <2>4 DEF Filters!Answer, Filters!Failed, Walks!Failed, FailsToAnswer
  <2>. QED
    BY <2>3, <2>4
<1>6. ASSUME NEW r \in requests, Filters!Fail(r)
      PROVE  FailsToAnswer(r)
  BY <1>6 DEF Filters!Fail, Filters!Failed, Walks!Failed, FailsToAnswer
<1>7. CASE Filters!StartExport \/ Filters!FinishExport
  BY <1>7 DEF Filters!StartExport, Filters!FinishExport, Rests, WalkStep
<1>8. ASSUME NEW t \in Tx, Filters!Edit(t)
      PROVE  \E row : EditsRow(t, row)
  BY <1>8, PagesAssumption DEF Filters!Edit, Walks!RowAssumption, EditsRow
<1>9. CASE Filters!ApplyFilters
  BY <1>1, <1>9, LinkIsAddress DEF Filters!ApplyFilters, WalkStep
<1>10. CASE Filters!NextPage
  BY <1>0, <1>1, <1>10, NextIsAddress DEF Filters!NextPage, Filters!search, WalkStep
<1>11. CASE Filters!Reload \/ Filters!Clear
  BY <1>0, <1>2, <1>11, LinkIsAddress DEF Filters!Reload, Filters!Clear, Filters!search, Filters!Link, WalkStep
<1>. QED
  BY <1>3, <1>4, <1>5, <1>6, <1>7, <1>8, <1>9, <1>10, <1>11 DEF Filters!Next, WalkStep

LEMMA ExportsAre ==
  ASSUME PageInv, Exports!Next
  PROVE  WalkStep(2)
<1>0. AddressesFit /\ IsAddress(entries[at]) /\ at \in DOMAIN entries
  BY AtIsPosition DEF PageInv, AddressesFit
<1>1. ASSUME NEW address, IsAddress(address), Exports!Navigate(address)
      PROVE  OpensPage(address)
  BY <1>1 DEF Exports!Navigate, Exports!Effect, Exports!search, Exports!Loading, Exports!Ask, Exports!ApiSearch,
              OpensPage, Walks!Loading, Walks!Ask, Walks!ApiSearch
<1>2. ASSUME NEW address, IsAddress(address), Exports!Load(address)
      PROVE  OpensPage(address) \/ ShowsPage
  BY <1>0, <1>2 DEF Exports!Load, Exports!search, Exports!Loading, Exports!Ask, Exports!ApiSearch,
              OpensPage, ShowsPage, Walks!Loading, Walks!Ask, Walks!ApiSearch
<1>3. ASSUME NEW k, Exports!PopState(k)
      PROVE  ShowsPage
  BY <1>3 DEF Exports!PopState, Exports!Effect, Exports!search, Exports!Ask, Exports!ApiSearch,
              ShowsPage, Walks!Ask, Walks!ApiSearch
<1>4. ASSUME NEW r \in requests, Exports!ReadFamily(r)
      PROVE  ReadsFamily(r)
  BY <1>4 DEF Exports!ReadFamily, Exports!ReadAliases, ReadsFamily, Walks!ReadAliases
<1>5. ASSUME NEW r \in requests, Exports!Answer(r)
      PROVE  Answers(r, 2) \/ FailsToAnswer(r)
  <2>0. \A q : Walks!CursorFits(q) <=> Exports!CursorFits(q)
    BY DEF Walks!CursorFits, Exports!CursorFits
  <2>1. PICK aliases : aliases = IF r.aliases = <<>> THEN {} ELSE r.aliases[1]
    OBVIOUS
  <2>2. PICK p : p = PageOf(r.query, aliases, 2)
    OBVIOUS
  <2>3. CASE Walks!CursorFits(r.query)
    <3>1. Exports!ListPage(r.query, aliases) = p /\ p.query = r.query
      BY <2>2, ListPageIs DEF PageOf
    <3>2. AnswersWith(r, p)
      BY <1>5, <2>0, <2>1, <2>3, <3>1 DEF Exports!Answer, Exports!Ready, Exports!Walked, Walks!Ready, Walks!Walked,
                 AnswersWith
    <3>. QED
      BY <1>5, <2>1, <2>2, <2>3, <3>2 DEF Exports!Answer, Answers
  <2>4. CASE ~Walks!CursorFits(r.query)
    BY <1>5, <2>0, <2>4 DEF Exports!Answer, Exports!Failed, Walks!Failed, FailsToAnswer
  <2>. QED
    BY <2>3, <2>4
<1>6. ASSUME NEW r \in requests, Exports!Fail(r)
      PROVE  FailsToAnswer(r)
  BY <1>6 DEF Exports!Fail, Exports!Failed, Walks!Failed, FailsToAnswer
<1>7. CASE Exports!StartExport \/ Exports!FinishExport
  BY <1>7 DEF Exports!StartExport, Exports!FinishExport, Rests, WalkStep
<1>8. ASSUME NEW t \in Tx, Exports!Edit(t)
      PROVE  \E row : EditsRow(t, row)
  BY <1>8, PagesAssumption DEF Exports!Edit, Exports!RowAssumption, EditsRow
<1>9. CASE Exports!ApplyFilters
  BY <1>1, <1>9, LinkIsAddress DEF Exports!ApplyFilters, WalkStep
<1>10. CASE Exports!NextPage
  BY <1>0, <1>1, <1>10, NextIsAddress DEF Exports!NextPage, Exports!search, WalkStep
<1>11. CASE Exports!Reload \/ Exports!Clear
  BY <1>0, <1>2, <1>11, LinkIsAddress DEF Exports!Reload, Exports!Clear, Exports!search, Exports!Link, WalkStep
<1>. QED
  BY <1>3, <1>4, <1>5, <1>6, <1>7, <1>8, <1>9, <1>10, <1>11 DEF Exports!Next, WalkStep

(* Types of a walk.                                                        *)
WalkTypes ==
    /\ \A t \in DOMAIN ledger : ledger[t] \in Rows
    /\ Len(entries) <= MaxHistory /\ edits \in 0..MaxEdits /\ changed \subseteq Tx
    /\ page.status \in {"loading", "ready", "error"} /\ (page.status = "ready" <=> page.data # <<>>)
    /\ \A i \in DOMAIN trail : Len(trail[i].rows) <= PageSize

LEMMA WalkTypesKept ==
  ASSUME PageInv, WalkTypes, Walks!Next
  PROVE  WalkTypes'
<1>1. ASSUME NEW S, entries \in Seq(S), at \in 1..Len(entries), at < MaxHistory, NEW address,
             entries' = Append(SubSeq(entries, 1, at), address)
      PROVE  Len(entries') <= MaxHistory
  <2>1. PICK before : before = SubSeq(entries, 1, at)
    OBVIOUS
  <2>2. before \in Seq(S) /\ Len(before) = at /\ at \in Nat
    BY <1>1, <2>1
  <2>3. entries' = Append(before, address) /\ MaxHistory \in Nat
    BY <1>1, <2>1, PagesAssumption DEF Walks!SizeAssumption
  <2>4. Len(entries') = at + 1
    <3>1. PICK T : T = S \cup {address}
      OBVIOUS
    <3>2. before \in Seq(T) /\ address \in T
      BY <2>2, <3>1
    <3>. QED
      BY <2>2, <2>3, <3>2
  <2>. QED
    BY <1>1, <2>2, <2>3, <2>4
<1>2. PICK S : entries \in Seq(S) /\ at \in 1..Len(entries)
  BY DEF PageInv, AddressesFit
<1>3. ASSUME UNCHANGED <<ledger, trail, changed, edits>>, Len(entries') <= MaxHistory,
             page' \in {page, Walks!Loading, Walks!Failed}
      PROVE  WalkTypes'
  BY <1>3 DEF WalkTypes, Walks!Loading, Walks!Failed
<1>4. ASSUME NEW address, Walks!Navigate(address)
      PROVE  WalkTypes'
  BY <1>1, <1>2, <1>3, <1>4 DEF Walks!Navigate
<1>5. ASSUME NEW address, Walks!Load(address)
      PROVE  WalkTypes'
  BY <1>1, <1>2, <1>3, <1>5 DEF Walks!Load, WalkTypes
<1>6. ASSUME NEW r \in requests, Walks!Answer(r)
      PROVE  WalkTypes'
  <2>1. CASE Walks!CursorFits(r.query)
    <3>1. PICK p : p = Walks!ListPage(r.query, IF r.aliases = <<>> THEN {} ELSE r.aliases[1])
      OBVIOUS
    <3>2. page' = Walks!Ready(p) /\ UNCHANGED <<ledger, entries, edits>>
      BY <1>6, <2>1, <3>1 DEF Walks!Answer
    <3>3. page'.status = "ready" /\ page'.data # <<>>
      BY <3>2 DEF Walks!Ready
    <3>4. Answers(r, PageSize)
      <4>1. PICK aliases : aliases = IF r.aliases = <<>> THEN {} ELSE r.aliases[1]
        OBVIOUS
      <4>2. p = PageOf(r.query, aliases, PageSize) /\ p.query = r.query
        BY <3>1, <4>1, ListPageIs DEF PageOf
      <4>3. AnswersWith(r, p)
        BY <1>6, <2>1, <3>1, <4>1, <4>2 DEF Walks!Answer, AnswersWith
      <4>. QED
        BY <1>6, <2>1, <4>1, <4>2, <4>3 DEF Walks!Answer, Answers
    <3>5. \A i \in DOMAIN trail' : Len(trail'[i].rows) <= PageSize
      BY <3>4, AnswersKeeps, PagesAssumption DEF Walks!SizeAssumption, WalkTypes
    <3>6. changed' \subseteq Tx
      BY <1>6, <2>1 DEF Walks!Answer, WalkTypes, PageInv, RequestsFit, RequestFits
    <3>. QED
      BY <3>2, <3>3, <3>5, <3>6 DEF WalkTypes
  <2>2. CASE ~Walks!CursorFits(r.query)
    BY <1>3, <1>6, <2>2 DEF Walks!Answer, WalkTypes
  <2>. QED
    BY <2>1, <2>2
<1>7. ASSUME NEW r \in requests, Walks!ReadFamily(r) \/ Walks!Fail(r)
      PROVE  WalkTypes'
  BY <1>3, <1>7 DEF Walks!ReadFamily, Walks!Fail, WalkTypes
<1>8. ASSUME NEW t \in Tx, Walks!Edit(t)
      PROVE  WalkTypes'
  <2>1. PICK row \in Rows : ledger' = [u \in DOMAIN ledger \cup {t} |-> IF u = t THEN row ELSE ledger[u]]
    BY <1>8 DEF Walks!Edit
  <2>2. \A u \in DOMAIN ledger' : ledger'[u] \in Rows
    BY <2>1 DEF WalkTypes
  <2>3. edits' \in 0..MaxEdits
    BY <1>8, PagesAssumption DEF Walks!Edit, Walks!SizeAssumption, WalkTypes
  <2>. QED
    BY <1>8, <2>2, <2>3 DEF Walks!Edit, WalkTypes
<1>9. ASSUME NEW k, Walks!PopState(k)
      PROVE  WalkTypes'
  BY <1>3, <1>9 DEF Walks!PopState, WalkTypes
<1>10. CASE Walks!StartExport \/ Walks!FinishExport
  BY <1>3, <1>10 DEF Walks!StartExport, Walks!FinishExport, WalkTypes
<1>. QED
  BY <1>4, <1>5, <1>6, <1>7, <1>8, <1>9, <1>10 DEF Walks!Next, Walks!ApplyFilters, Walks!NextPage,
     Walks!Reload, Walks!Clear

LEMMA WalkIsTyped ==
  ASSUME PageInv, WalkTypes
  PROVE  Walks!TypeOK
<1>1. Walks!Cardinality(requests) <= 1
  <2>1. Walks!Cardinality(requests) = Cardinality(requests)
    BY DEF Walks!Cardinality, Cardinality
  <2>2. CASE requests = {}
    BY <2>1, <2>2, FS_EmptySet
  <2>3. CASE requests # {}
    <3>1. PICK r \in requests : requests = {r}
      BY <2>3 DEF PageInv, RequestsFit
    <3>2. Cardinality({r}) = 1
      BY FS_Singleton
    <3>. QED
      BY <2>1, <3>1, <3>2
  <2>. QED
    BY <2>2, <2>3
<1>2. at \in DOMAIN entries
  BY AtIsPosition DEF PageInv
<1>. QED
  BY <1>1, <1>2 DEF PageInv, Book, WalkTypes, Walks!TypeOK

-----------------------------------------------------------------------------
(* The first state.                                                        *)
LEMMA PageInvAtFirst ==
  ASSUME DOMAIN ledger \subseteq Tx,
         \A t \in DOMAIN ledger : ledger[t].date \in Int /\ ledger[t].amount \in Int,
         NEW address, IsAddress(address), entries = <<address>>, at = 1, page = Walks!Loading,
         requests = {Walks!Ask(address)}, trail = <<>>, changed = {}
  PROVE  PageInv
<1>1. Book
  BY DEF Book
<1>2. AddressesFit
  <2>1. entries \in Seq({address}) /\ at \in 1..Len(entries) /\ DOMAIN entries = {1} /\ entries[1] = address
    OBVIOUS
  <2>2. page.status # "ready"
    BY DEF Walks!Loading
  <2>. QED
    BY <2>1, <2>2 DEF AddressesFit
<1>3. RequestsFit
  <2>1. PICK q : q = Walks!ApiSearch(address)
    OBVIOUS
  <2>2. PICK sort : sort = IF address.sort = <<>> THEN "DATE_DESC" ELSE address.sort[1]
    OBVIOUS
  <2>3. address = [filter |-> address.filter, sort |-> address.sort, cursor |-> address.cursor]
        /\ IsCursor(address.cursor)
    BY DEF IsAddress
  <2>4. q = [address EXCEPT !.sort = sort]
    BY <2>1, <2>2 DEF Walks!ApiSearch
  <2>5. q = [filter |-> address.filter, sort |-> sort, cursor |-> address.cursor]
    BY <2>3, <2>4
  <2>6. PICK r : r = Walks!Ask(address)
    OBVIOUS
  <2>7. r = [query |-> q, aliases |-> <<>>, changed |-> {}]
    BY <2>1, <2>6 DEF Walks!Ask
  <2>8. RequestFits(r)
    BY <2>3, <2>5, <2>7 DEF RequestFits, IsRequest
  <2>. QED
    BY <2>6, <2>8 DEF RequestsFit
<1>4. TrailFits
  <2>1. trail \in Seq({}) /\ DOMAIN trail = {}
    OBVIOUS
  <2>. QED
    BY <2>1 DEF TrailFits
<1>. QED
  BY <1>1, <1>2, <1>3, <1>4 DEF PageInv

LEMMA FirstPage ==
  ASSUME Init, case \in {"walks", "filters", "exports"}
  PROVE  PageInv
<1>1. /\ \E f, s : entries = <<[filter |-> f, sort |-> s, cursor |-> <<>>]>>
      /\ at = 1 /\ page = Walks!Loading /\ requests = {Walks!Ask(entries[1])} /\ trail = <<>> /\ changed = {}
  BY DEF Init, Walks!Init, Filters!Init, Exports!Init, Walks!Link, Filters!Link, Exports!Link,
         Walks!Loading, Filters!Loading, Exports!Loading, Walks!Ask, Filters!Ask, Exports!Ask,
         Walks!ApiSearch, Filters!ApiSearch, Exports!ApiSearch
<1>2. DOMAIN ledger \subseteq Tx
      /\ \A t \in DOMAIN ledger : ledger[t].date \in Int /\ ledger[t].amount \in Int
  <2>1. \E txs \in SUBSET Tx : ledger \in [txs -> Rows] \/ ledger \in [txs -> TwoAmounts]
    BY DEF Init, Walks!Init, Filters!Init, Exports!Init
  <2>2. \A row \in Rows \cup TwoAmounts : row.date \in Int /\ row.amount \in Int
    BY PagesAssumption DEF Walks!RowAssumption, Exports!RowAssumption
  <2>. QED
    BY <2>1, <2>2
<1>3. PICK address : entries = <<address>> /\ IsAddress(address)
  BY <1>1, LinkIsAddress
<1>4. entries[1] = address
  BY <1>3
<1>. QED
  BY <1>1, <1>2, <1>3, <1>4, PageInvAtFirst

(* Whoever walks through the pages to the last one has seen each matching  *)
(* row that nobody changed once and in order, for any ledger, size of a    *)
(* page, sorts, filters, aliases and edits meanwhile.                      *)
THEOREM NoRowIsSkipped == Spec => []NoRowSkipped
<1> DEFINE Inv == /\ case \in {"walks", "filters"} => PageInv
                  /\ case = "walks" => WalkTypes
<1>1. Init => Inv
  <2>1. ASSUME Init, case = "walks" PROVE WalkTypes
    <3>1. /\ \E txs \in SUBSET Tx : ledger \in [txs -> Rows]
          /\ \E address : entries = <<address>>
          /\ edits = 0 /\ changed = {} /\ trail = <<>> /\ page = Walks!Loading
      BY <2>1 DEF Init, Walks!Init
    <3>2. Len(entries) = 1 /\ 1 <= MaxHistory /\ 0 \in 0..MaxEdits
      BY <3>1, PagesAssumption DEF Walks!SizeAssumption
    <3>. QED
      BY <3>1, <3>2 DEF WalkTypes, Walks!Loading
  <2>. QED
    BY <2>1, FirstPage
<1>2. Inv /\ [Next]_vars => Inv'
  <2> SUFFICES ASSUME Inv, [Next]_vars, case' \in {"walks", "filters"}
               PROVE  PageInv' /\ (case' = "walks" => WalkTypes')
    OBVIOUS
  <2>1. case' = case /\ PageInv /\ (case = "walks" => WalkTypes)
    BY DEF Next, PageStep, PeriodStep, ReportStep, ScheduleStep, vars
  <2>2. PageSize \in Nat \ {0}
    BY PagesAssumption DEF Walks!SizeAssumption
  <2>3. CASE UNCHANGED vars
    <3>1. Rests /\ edits' = edits
      BY <2>3 DEF vars, pageVars, Rests
    <3>. QED
      BY <2>1, <3>1, RestsKeeps DEF Rests, WalkTypes
  <2>4. CASE case = "walks" /\ Walks!Next
    BY <2>1, <2>2, <2>4, WalksAre, WalkStepKeeps, WalkTypesKept
  <2>5. CASE case = "filters" /\ Filters!Next
    BY <2>1, <2>2, <2>5, FiltersAre, WalkStepKeeps
  <2>. QED
    BY <2>1, <2>3, <2>4, <2>5 DEF Next, PageStep, PeriodStep, ReportStep, ScheduleStep
<1>3. Inv => NoRowSkipped
  <2>1. Walks!NoRowSkipped <=> Filters!NoRowSkipped
    BY DEF Walks!NoRowSkipped, Filters!NoRowSkipped, Walks!Complete, Filters!Complete, Walks!Lists,
           Filters!Lists, Walks!ListsBefore, Filters!ListsBefore, Walks!Matches, Filters!Matches,
           Walks!Precedes, Filters!Precedes, Walks!Follows, Filters!Follows, Walks!KeyOf, Filters!KeyOf
  <2>. QED
    BY <2>1, WalkIsTyped, TrailIsComplete DEF NoRowSkipped, PageInv
<1>. QED
  BY <1>1, <1>2, <1>3, PTL DEF Spec

(* The file of an export is one page that holds all rows.                  *)
IsExport(e) ==
    e = [query |-> e.query, done |-> e.done, changed |-> e.changed, aliases |-> e.aliases,
         rows |-> e.rows]

FileOf(e) == [query |-> e.query, rows |-> e.rows[1], next |-> <<>>]

ExportFits(e) ==
    /\ IsExport(e) /\ e.query.cursor = <<>> /\ AliasesFit(e.query, e.aliases, e.changed)
    /\ e.done /\ e.rows # <<>> => PageFits(FileOf(e), e.changed)

FileFits == export # <<>> => ExportFits(export[1])

LEMMA WholeIsLimited ==
  ASSUME NEW S, NEW list \in Seq(S), NEW n \in Nat, Len(list) <= n
  PROVE  Walks!Limited(list, n) = list
<1>1. PICK short : short = Walks!Limited(list, n)
  OBVIOUS
<1>2. /\ short \in Seq(S) /\ Len(short) = Len(list)
      /\ \A k \in 1..Len(list) : short[k] = list[k]
  BY <1>1, LimitedIs
<1>3. short = list
  BY <1>2
<1>. QED
  BY <1>1, <1>3

(* A file that was not refused holds what one page of that size would.     *)
LEMMA FileIsPage ==
  ASSUME Book, NEW q, NEW aliases, NEW rows, rows = Exports!ExportOf(q, aliases), rows # <<>>
  PROVE  PageOf(q, aliases, 2) = [query |-> q, rows |-> rows[1], next |-> <<>>]
<1> DEFINE S == {t \in DOMAIN ledger : Walks!Matches(ledger[t], q, aliases) /\ Walks!AfterCursor(t, q)}
<1>1. PICK list : list = Walks!Ordered(S, q.sort)
  OBVIOUS
<1>2. PICK records : records = Walks!Limited(list, 3)
  OBVIOUS
<1>3. records = Walks!Query(q, aliases, 3)
  BY <1>1, <1>2 DEF Walks!Query
<1>4. S \subseteq DOMAIN ledger
  OBVIOUS
<1> HIDE DEF S
<1>5. list \in Seq(S)
  <2>1. PICK sort : sort = q.sort
    OBVIOUS
  <2>. QED
    BY <1>1, <1>4, <2>1, OrderedIs
<1>6. records \in Seq(S)
  BY <1>2, <1>5, LimitedIs
<1>7. rows = IF Len(records) > 2 THEN <<>> ELSE <<records>>
  BY <1>3, SameQuery DEF Exports!ExportOf
<1>8. ~(Len(records) > 2) /\ rows = <<records>> /\ rows[1] = records
  BY <1>7
<1>9. Len(records) <= 2
  BY <1>6, <1>8
<1>10. Walks!Limited(records, 2) = records
  BY <1>6, <1>9, WholeIsLimited
<1>11. 2 + 1 = 3
  OBVIOUS
<1>. QED
  BY <1>3, <1>8, <1>10, <1>11 DEF PageOf

LEMMA FileUntouched ==
  ASSUME FileFits, UNCHANGED <<ledger, export>>
  PROVE  FileFits'
  BY DEF FileFits, ExportFits, IsExport, FileOf, AliasesFit, PageFits, NextFits, IsCursor, OnPage,
     Belongs, PastPage, Key, Walks!KeyOf, Walks!Follows, Walks!Matches, Walks!AfterCursor,
     Walks!CursorFits, Walks!Precedes

LEMMA FileKept ==
  ASSUME PageInv, FileFits, Exports!Next
  PROVE  FileFits'
<1>1. CASE UNCHANGED <<ledger, export>>
  BY <1>1, FileUntouched
<1>2. CASE Exports!StartExport
  <2>1. PICK a : a = entries[at]
    OBVIOUS
  <2>2. IsAddress(a)
    BY <2>1, AtIsPosition DEF PageInv, AddressesFit
  <2>3. PICK sort : sort = IF a.sort = <<>> THEN "DATE_DESC" ELSE a.sort[1]
    OBVIOUS
  <2>4. a = [filter |-> a.filter, sort |-> a.sort, cursor |-> a.cursor]
    BY <2>2 DEF IsAddress
  <2>5. PICK q : q = Exports!ApiSearch(a)
    OBVIOUS
  <2>6. q = [a EXCEPT !.sort = sort]
    BY <2>3, <2>5 DEF Exports!ApiSearch
  <2>7. q = [filter |-> a.filter, sort |-> sort, cursor |-> a.cursor]
    BY <2>4, <2>6
  <2>8. PICK query1 : query1 = [q EXCEPT !.cursor = <<>>]
    OBVIOUS
  <2>9. query1 = [filter |-> a.filter, sort |-> sort, cursor |-> <<>>]
    BY <2>7, <2>8
  <2>10. PICK aliases : aliases = Exports!ReadAliases(a)
    OBVIOUS
  <2>11. PICK e : e = [query |-> query1, done |-> FALSE, changed |-> {}, aliases |-> aliases, rows |-> <<>>]
    OBVIOUS
  <2>12. export' = <<e>> /\ ledger' = ledger
    BY <1>2, <2>1, <2>5, <2>8, <2>10, <2>11 DEF Exports!StartExport, Exports!search
  <2>13. AliasesFit(query1, aliases, {})
    BY <2>9, <2>10 DEF AliasesFit, Exports!ReadAliases
  <2>14. /\ e.query = query1 /\ e.done = FALSE /\ e.changed = {} /\ e.aliases = aliases
         /\ IsExport(e) /\ query1.cursor = <<>>
    BY <2>9, <2>11 DEF IsExport
  <2>15. ExportFits(e)'
    BY <2>12, <2>13, <2>14 DEF ExportFits, IsExport, AliasesFit
  <2>16. export'[1] = e
    BY <2>12
  <2>. QED
    BY <2>15, <2>16 DEF FileFits
<1>3. CASE Exports!FinishExport
  <2>1. PICK e : e = export[1]
    OBVIOUS
  <2>2. ExportFits(e)
    BY <1>3, <2>1 DEF Exports!FinishExport, FileFits
  <2>3. e = [query |-> e.query, done |-> e.done, changed |-> e.changed, aliases |-> e.aliases, rows |-> e.rows]
    BY <2>2 DEF ExportFits, IsExport
  <2>4. PICK rows : rows = Exports!ExportOf(e.query, e.aliases)
    OBVIOUS
  <2>5. PICK f : f = [e EXCEPT !.done = TRUE, !.rows = rows]
    OBVIOUS
  <2>6. f = [query |-> e.query, done |-> TRUE, changed |-> e.changed, aliases |-> e.aliases, rows |-> rows]
    BY <2>3, <2>5
  <2>7. export' = <<f>> /\ export'[1] = f /\ ledger' = ledger
    BY <1>3, <2>1, <2>4, <2>5 DEF Exports!FinishExport
  <2>8. PICK q, aliases, touched : q = e.query /\ aliases = e.aliases /\ touched = e.changed
    OBVIOUS
  <2>9. q.cursor = <<>> /\ AliasesFit(q, aliases, touched)
    BY <2>2, <2>8 DEF ExportFits
  <2>10. ASSUME rows # <<>>
         PROVE  PageFits(FileOf(f), touched)
    <3>1. PICK p : p = PageOf(q, aliases, 2)
      OBVIOUS
    <3>2. p = [query |-> q, rows |-> rows[1], next |-> <<>>]
      BY <2>4, <2>8, <2>10, <3>1, FileIsPage DEF PageInv
    <3>3. IsCursor(q.cursor) /\ Walks!CursorFits(q)
      BY <2>9 DEF IsCursor, Walks!CursorFits
    <3>4. PageFits(p, touched)
      BY <2>9, <3>1, <3>3, PageFitsNow DEF PageInv
    <3>5. FileOf(f) = p
      BY <2>6, <2>8, <3>2 DEF FileOf
    <3>. QED
      BY <3>4, <3>5
  <2>11. f.query = q /\ f.changed = touched /\ f.aliases = aliases /\ f.rows = rows /\ IsExport(f)
    BY <2>6, <2>8 DEF IsExport
  <2>12. ExportFits(f)
    BY <2>9, <2>10, <2>11 DEF ExportFits
  <2>13. ExportFits(f)'
    BY <2>7, <2>12 DEF ExportFits, IsExport, FileOf, AliasesFit, PageFits, NextFits, IsCursor, OnPage,
       Belongs, PastPage, Key, Walks!KeyOf, Walks!Follows, Walks!Matches, Walks!AfterCursor,
       Walks!CursorFits, Walks!Precedes
  <2>. QED
    BY <2>7, <2>13 DEF FileFits
<1>4. ASSUME NEW t \in Tx, Exports!Edit(t)
      PROVE  FileFits'
  <2>1. CASE export = <<>>
    BY <1>4, <2>1 DEF Exports!Edit, FileFits
  <2>2. CASE export # <<>>
    <3>1. PICK e : e = export[1]
      OBVIOUS
    <3>2. ExportFits(e)
      BY <2>2, <3>1 DEF FileFits
    <3>3. e = [query |-> e.query, done |-> e.done, changed |-> e.changed, aliases |-> e.aliases, rows |-> e.rows]
      BY <3>2 DEF ExportFits, IsExport
    <3>4. PICK more : more = e.changed \cup {t}
      OBVIOUS
    <3>5. PICK f : f = [e EXCEPT !.changed = more]
      OBVIOUS
    <3>6. f = [query |-> e.query, done |-> e.done, changed |-> more, aliases |-> e.aliases, rows |-> e.rows]
      BY <3>3, <3>5
    <3>7. export' = <<f>> /\ export'[1] = f
      BY <1>4, <2>2, <3>1, <3>4, <3>5 DEF Exports!Edit
    <3>8. f.query = e.query /\ f.changed = more /\ f.aliases = e.aliases /\ f.rows = e.rows
          /\ f.done = e.done /\ IsExport(f) /\ FileOf(f) = FileOf(e)
      BY <3>6 DEF IsExport, FileOf
    <3>9. PICK row : ledger' = [u \in DOMAIN ledger \cup {t} |-> IF u = t THEN row ELSE ledger[u]]
      BY <1>4 DEF Exports!Edit
    <3>10. \A u : u # t => (u \in DOMAIN ledger' <=> u \in DOMAIN ledger)
                           /\ (u \in DOMAIN ledger => ledger'[u] = ledger[u])
      BY <3>9
    <3>11. SameRows(more) /\ e.changed \subseteq more
      BY <3>4, <3>10 DEF SameRows
    <3>12. AliasesFit(f.query, f.aliases, more)'
      BY <3>2, <3>4, <3>8, <3>10 DEF ExportFits, AliasesFit
    <3>13. f.done /\ f.rows # <<>> => PageFits(FileOf(f), more)'
      <4>1. SUFFICES ASSUME f.done, f.rows # <<>> PROVE PageFits(FileOf(f), more)'
        OBVIOUS
      <4>2. PICK p, touched : p = FileOf(e) /\ touched = e.changed
        OBVIOUS
      <4>3. PageFits(p, touched)
        BY <3>2, <3>8, <4>1, <4>2 DEF ExportFits
      <4>4. PageFits(p, more)'
        BY <3>11, <4>2, <4>3, PageStaysFit
      <4>. QED
        BY <3>8, <4>2, <4>4
    <3>14. ExportFits(f)'
      BY <3>2, <3>8, <3>12, <3>13 DEF ExportFits, IsExport, FileOf
    <3>. QED
      BY <3>7, <3>14 DEF FileFits
  <2>. QED
    BY <2>1, <2>2
<1>5. CASE Exports!ApplyFilters \/ Exports!NextPage \/ Exports!Reload \/ Exports!Clear
  BY <1>1, <1>5 DEF Exports!ApplyFilters, Exports!NextPage, Exports!Reload, Exports!Clear,
     Exports!Navigate, Exports!Load
<1>6. CASE \E i \in 1..2 : Exports!PopState(i)
  BY <1>1, <1>6 DEF Exports!PopState
<1>7. CASE \E r \in requests : Exports!ReadFamily(r) \/ Exports!Answer(r) \/ Exports!Fail(r)
  BY <1>1, <1>7 DEF Exports!ReadFamily, Exports!Answer, Exports!Fail
<1>. QED
  BY <1>2, <1>3, <1>4, <1>5, <1>6, <1>7 DEF Exports!Next

(* Lists in the order of the sort agree on which of two rows comes first.  *)
LEMMA OrderDecides ==
  ASSUME Book, NEW pages, NEW T, pages \in Seq(T), \A i \in DOMAIN pages : pages[i].rows \in Seq(Tx),
         NEW sort, NEW t \in DOMAIN ledger, NEW u \in DOMAIN ledger,
         Walks!Lists(pages, t), Walks!Lists(pages, u),
         Walks!ListsBefore(pages, u, t) => Walks!Precedes(u, t, sort),
         Walks!Precedes(t, u, sort)
  PROVE  Walks!ListsBefore(pages, t, u)
<1>1. PICK i \in DOMAIN pages : \E k \in DOMAIN pages[i].rows : pages[i].rows[k] = t
  BY DEF Walks!Lists
<1>2. PICK k \in DOMAIN pages[i].rows : pages[i].rows[k] = t
  BY <1>1
<1>3. PICK j \in DOMAIN pages : \E l \in DOMAIN pages[j].rows : pages[j].rows[l] = u
  BY DEF Walks!Lists
<1>4. PICK l \in DOMAIN pages[j].rows : pages[j].rows[l] = u
  BY <1>3
<1>5. i \in Nat /\ j \in Nat /\ k \in Nat /\ l \in Nat
  BY <1>2, <1>4
<1>6. ~Walks!Precedes(u, t, sort) /\ t # u
  BY KeysAreNumbers, SortIsOrder DEF Walks!Precedes, Key
<1>7. ~(j < i \/ (j = i /\ l < k))
  BY <1>2, <1>4, <1>6 DEF Walks!ListsBefore
<1>8. ~(i = j /\ k = l)
  BY <1>2, <1>4, <1>6
<1>9. i < j \/ (i = j /\ k < l)
  BY <1>5, <1>7, <1>8
<1>. QED
  BY <1>2, <1>4, <1>9 DEF Walks!ListsBefore

LEMMA FilesAgree ==
  ASSUME PageInv, FileFits
  PROVE  Exports!ExportAgreesWithPages
<1> SUFFICES ASSUME export # <<>>, Exports!Complete(trail), NEW file, file = export[1],
                    file.done, file.rows # <<>>,
                    file.query = [trail[Len(trail)].query EXCEPT !.cursor = <<>>],
                    NEW rows, rows = <<[rows |-> file.rows[1]]>>,
                    NEW still, still = Tx \ (changed \cup file.changed)
             PROVE  /\ \A t \in still : Exports!Lists(rows, t) <=> Exports!Lists(trail, t)
                    /\ \A t, u \in still : Exports!ListsBefore(rows, t, u) <=> Exports!ListsBefore(trail, t, u)
  BY DEF Exports!ExportAgreesWithPages
<1>1. PICK p, touched : p = FileOf(file) /\ touched = file.changed
  OBVIOUS
<1>2. PageFits(p, touched) /\ file.query.cursor = <<>>
  BY <1>1 DEF FileFits, ExportFits
<1>3. PICK q : q = file.query
  OBVIOUS
<1>4. p.query = q /\ p.rows = file.rows[1] /\ p.next = <<>> /\ q.cursor = <<>>
  BY <1>1, <1>2, <1>3 DEF FileOf
<1>5. PICK query1 : query1 = trail[Len(trail)].query
  OBVIOUS
<1>6. q.filter = query1.filter /\ q.sort = query1.sort
  BY <1>3, <1>5
<1>7. /\ \A t \in Tx \ changed :
            Walks!Lists(trail, t) <=> t \in DOMAIN ledger /\ Walks!Matches(ledger[t], query1, Aliases)
      /\ \A t, u \in Tx \ changed : Walks!ListsBefore(trail, t, u) => Walks!Precedes(t, u, query1.sort)
  BY <1>5, TrailIsComplete DEF PageInv, Walks!NoRowSkipped, Walks!Complete, Exports!Complete
<1>8. PICK sort : sort = q.sort
  OBVIOUS
<1>9. rows \in Seq({rows[1]}) /\ DOMAIN rows = {1} /\ rows[1].rows = p.rows /\ p.rows \in Seq(Tx)
  BY <1>2, <1>4 DEF PageFits
<1>10. \A t \in still : Walks!Lists(rows, t) <=> OnPage(p, t)
  BY <1>9 DEF Walks!Lists, OnPage
<1>11. ASSUME NEW t \in still
       PROVE  OnPage(p, t) <=> t \in DOMAIN ledger /\ Walks!Matches(ledger[t], query1, Aliases)
  <2>1. OnPage(p, t) <=> Belongs(p, t)
    BY <1>1, <1>2 DEF PageFits
  <2>2. Walks!AfterCursor(t, q) /\ ~PastPage(p, t)
    BY <1>4 DEF Walks!AfterCursor, PastPage
  <2>. QED
    BY <1>4, <1>6, <2>1, <2>2 DEF Belongs, Walks!Matches
<1>12. \A t \in still : t \in Tx \ changed /\ t \in Tx \ touched
  BY <1>1
<1>13. \A t \in still : Walks!Lists(rows, t) <=> Walks!Lists(trail, t)
  BY <1>7, <1>10, <1>11, <1>12
<1>14. ASSUME NEW t \in still, NEW u \in still, Walks!ListsBefore(rows, t, u)
       PROVE  Walks!Precedes(t, u, sort)
  <2>1. PICK k \in DOMAIN p.rows, l \in DOMAIN p.rows : k < l /\ p.rows[k] = t /\ p.rows[l] = u
    BY <1>9, <1>14 DEF Walks!ListsBefore
  <2>. QED
    BY <1>2, <1>4, <1>8, <1>12, <2>1 DEF PageFits
<1>15. \A t, u \in still : Walks!ListsBefore(trail, t, u) => Walks!Precedes(t, u, sort)
  BY <1>6, <1>7, <1>8, <1>12
<1>16. \A t, u : (Walks!ListsBefore(rows, t, u) => Walks!Lists(rows, t) /\ Walks!Lists(rows, u))
                 /\ (Walks!ListsBefore(trail, t, u) => Walks!Lists(trail, t) /\ Walks!Lists(trail, u))
  BY DEF Walks!Lists, Walks!ListsBefore
<1>17. \A t \in still : Walks!Lists(rows, t) => t \in DOMAIN ledger
  BY <1>10, <1>11
<1>18. PICK T : trail \in Seq(T)
  BY DEF PageInv, TrailFits
<1>19. \A i \in DOMAIN trail : trail[i].rows \in Seq(Tx)
  BY DEF PageInv, TrailFits, PageFits
<1>20. ASSUME NEW t \in still, NEW u \in still
       PROVE  Walks!ListsBefore(rows, t, u) <=> Walks!ListsBefore(trail, t, u)
  <2>1. ASSUME Walks!ListsBefore(rows, t, u)
        PROVE  Walks!ListsBefore(trail, t, u)
    <3>1. /\ Walks!Lists(trail, t) /\ Walks!Lists(trail, u) /\ t \in DOMAIN ledger /\ u \in DOMAIN ledger
          /\ Walks!Precedes(t, u, sort)
          /\ Walks!ListsBefore(trail, u, t) => Walks!Precedes(u, t, sort)
      BY <1>13, <1>14, <1>15, <1>16, <1>17, <2>1
    <3>. QED
      BY <1>18, <1>19, <3>1, OrderDecides DEF PageInv
  <2>2. ASSUME Walks!ListsBefore(trail, t, u)
        PROVE  Walks!ListsBefore(rows, t, u)
    <3>1. /\ Walks!Lists(rows, t) /\ Walks!Lists(rows, u) /\ t \in DOMAIN ledger /\ u \in DOMAIN ledger
          /\ Walks!Precedes(t, u, sort)
          /\ Walks!ListsBefore(rows, u, t) => Walks!Precedes(u, t, sort)
      BY <1>13, <1>14, <1>15, <1>16, <1>17, <2>2
    <3>2. \A i \in DOMAIN rows : rows[i].rows \in Seq(Tx)
      BY <1>9
    <3>. QED
      BY <1>9, <3>1, <3>2, OrderDecides DEF PageInv
  <2>. QED
    BY <2>1, <2>2
<1>. QED
  BY <1>13, <1>20 DEF Exports!Lists, Walks!Lists, Exports!ListsBefore, Walks!ListsBefore

(* A downloaded file holds the rows that the pages of its filters show, in *)
(* their order, for any ledger, aliases and edits meanwhile.               *)
THEOREM ExportsAgree == Spec => []ExportAgreesWithPages
<1> DEFINE Inv == case = "exports" => PageInv /\ FileFits
<1>1. Init => Inv
  <2> SUFFICES ASSUME Init, case = "exports" PROVE PageInv /\ FileFits
    OBVIOUS
  <2>1. export = <<>>
    BY DEF Init, Exports!Init
  <2>. QED
    BY <2>1, FirstPage DEF FileFits
<1>2. Inv /\ [Next]_vars => Inv'
  <2> SUFFICES ASSUME Inv, [Next]_vars, case' = "exports" PROVE PageInv' /\ FileFits'
    OBVIOUS
  <2>1. case = "exports" /\ PageInv /\ FileFits
    BY DEF Next, PageStep, PeriodStep, ReportStep, ScheduleStep, vars
  <2>2. CASE UNCHANGED vars
    <3>1. Rests /\ export' = export
      BY <2>2 DEF vars, pageVars, Rests
    <3>2. PageInv'
      BY <2>1, <3>1, RestsKeeps
    <3>3. FileFits'
      BY <2>1, <3>1, FileUntouched DEF Rests
    <3>. QED
      BY <3>2, <3>3
  <2>3. CASE Exports!Next
    BY <2>1, <2>3, ExportsAre, WalkStepKeeps, FileKept
  <2>. QED
    BY <2>1, <2>2, <2>3 DEF Next, PageStep, PeriodStep, ReportStep, ScheduleStep
<1>3. Inv => ExportAgreesWithPages
  BY FilesAgree DEF ExportAgreesWithPages
<1>. QED
  BY <1>1, <1>2, <1>3, PTL DEF Spec

-----------------------------------------------------------------------------
(* The dates of a plan.  The n-th charge is the anchor clamped to its      *)
(* month, whichever way it is computed.                                    *)

WalkInv ==
    /\ start \in Schedule!Date /\ cadence \in Schedule!Cadence /\ charges \in Nat
    /\ date.month = start.month + charges * Schedule!MonthsIn(cadence)
    /\ date.month \in Schedule!Month
    /\ date = Schedule!Clamped(date.month, start.day)

LEMMA LastDayIsClamped ==
  ASSUME NEW month \in Schedule!Month, NEW n \in 1..31
  PROVE  Schedule!LastDayUpTo(month, n) = Schedule!Clamped(month, n).day
<1>1. DaysIn[month] \in 1..31
  BY ScheduleAssumption DEF Schedule!Month
<1>2. PICK last : last = IF n <= DaysIn[month] THEN n ELSE DaysIn[month]
  OBVIOUS
<1>3. last \in 1..n /\ last <= DaysIn[month] /\ \A j \in 1..n : j <= DaysIn[month] => j <= last
  BY <1>1, <1>2
<1>4. ASSUME NEW k \in 1..n, k <= DaysIn[month], \A j \in 1..n : j <= DaysIn[month] => j <= k
      PROVE  k = last
  <2>1. k <= last /\ last <= k
    BY <1>3, <1>4
  <2>. QED
    BY <1>3, <2>1
<1>5. Schedule!LastDayUpTo(month, n) = last
  BY <1>3, <1>4 DEF Schedule!LastDayUpTo
<1>. QED
  BY <1>2, <1>5 DEF Schedule!Clamped

LEMMA WalkInvIsReference == WalkInv => Schedule!ScheduleNeverDrifts
<1> SUFFICES ASSUME WalkInv PROVE date = Schedule!NthCharge(charges)
  BY DEF Schedule!ScheduleNeverDrifts
<1>1. start.day \in 1..31 /\ date.month \in Schedule!Month
  BY DEF WalkInv, Schedule!Date
<1>2. PICK month : month = date.month
  OBVIOUS
<1>3. Schedule!NthCharge(charges) = [month |-> month, day |-> Schedule!LastDayUpTo(month, start.day)]
  BY <1>2 DEF WalkInv, Schedule!NthCharge
<1>4. date = [month |-> month, day |-> Schedule!Clamped(month, start.day).day]
  BY <1>2 DEF WalkInv, Schedule!Clamped
<1>. QED
  BY <1>1, <1>2, <1>3, <1>4, LastDayIsClamped

LEMMA AdvanceKeeps ==
  ASSUME WalkInv, Schedule!Advance
  PROVE  WalkInv'
<1>1. PICK k : k = Schedule!MonthsIn(cadence)
  OBVIOUS
<1>2. k \in {1, 12} /\ start' = start /\ cadence' = cadence /\ charges' = charges + 1
  BY <1>1 DEF Schedule!MonthsIn, Schedule!Advance
<1>3. date' = Schedule!Clamped(date.month + k, start.day)
  BY <1>1 DEF Schedule!Advance, Schedule!NextDate
<1>4. date'.month = date.month + k
  BY <1>3 DEF Schedule!Clamped
<1>5. date.month \in Nat /\ start.month \in Nat /\ LastMonth \in Nat /\ charges \in Nat
  BY ScheduleAssumption DEF WalkInv, Schedule!Month, Schedule!Date
<1>6. date'.month \in Schedule!Month
  BY <1>1, <1>2, <1>4, <1>5 DEF Schedule!Advance, Schedule!Month
<1>7. date.month = start.month + charges * k
  BY <1>1 DEF WalkInv
<1>8. date'.month = start.month + (charges + 1) * k
  BY <1>2, <1>4, <1>5, <1>7
<1>9. Schedule!MonthsIn(cadence)' = k
  BY <1>1, <1>2 DEF Schedule!MonthsIn
<1>10. date' = Schedule!Clamped(date'.month, start'.day)
  BY <1>2, <1>3, <1>4
<1>11. date'.month = start'.month + charges' * Schedule!MonthsIn(cadence)'
  BY <1>2, <1>8, <1>9
<1>12. start' \in Schedule!Date /\ cadence' \in Schedule!Cadence /\ charges' \in Nat
  BY <1>2, <1>5 DEF WalkInv
<1>. QED
  BY <1>6, <1>10, <1>11, <1>12 DEF WalkInv, Schedule!Clamped

(* From one charge to the next the dates never drift, on any calendar and  *)
(* for any number of charges.                                              *)
THEOREM DatesNeverDrift == Spec => []ScheduleNeverDrifts
<1> DEFINE Inv == case = "schedule" => WalkInv
<1>1. Init => Inv
  <2> SUFFICES ASSUME Init, case = "schedule" PROVE WalkInv
    OBVIOUS
  <2>1. start \in Schedule!Date /\ cadence \in Schedule!Cadence /\ charges = 0 /\ date = start
    BY DEF Init, Schedule!Init
  <2>2. /\ start = [month |-> start.month, day |-> start.day]
        /\ start.month \in Schedule!Month /\ start.day <= DaysIn[start.month]
    BY <2>1 DEF Schedule!Date
  <2>3. start.month = start.month + 0 * Schedule!MonthsIn(cadence)
    BY <2>2, ScheduleAssumption DEF Schedule!Month, Schedule!MonthsIn
  <2>4. start = Schedule!Clamped(start.month, start.day)
    BY <2>2 DEF Schedule!Clamped
  <2>. QED
    BY <2>1, <2>2, <2>3, <2>4 DEF WalkInv
<1>2. Inv /\ [Next]_vars => Inv'
  <2> SUFFICES ASSUME Inv, [Next]_vars, case' = "schedule" PROVE WalkInv'
    OBVIOUS
  <2>1. CASE UNCHANGED vars
    BY <2>1 DEF vars, walkVars, WalkInv, Schedule!MonthsIn, Schedule!Clamped
  <2>2. CASE Next
    <3>1. WalkInv /\ Schedule!Advance
      BY <2>2 DEF Next, PageStep, PeriodStep, ReportStep, ScheduleStep, Schedule!Next
    <3>. QED
      BY <3>1, AdvanceKeeps
  <2>. QED
    BY <2>1, <2>2
<1>3. Inv => ScheduleNeverDrifts
  BY WalkInvIsReference DEF ScheduleNeverDrifts
<1>. QED
  BY <1>1, <1>2, <1>3, PTL DEF Spec

=============================================================================
