-------------------------- MODULE CsvImportsProofs --------------------------
(***************************************************************************)
(* Proofs about CsvImports, for any files, rows, invocations and changes   *)
(* of the ledger in between.                                               *)
(*                                                                         *)
(* The evidence of a preview is older than its commit.  What the commit    *)
(* compares are versions: of its batch and of the transactions it merges   *)
(* into.  The invariant says what equal versions mean.                     *)
(***************************************************************************)
EXTENDS CsvImports, FiniteSetTheorems, SequenceTheorems, TLAPS

-----------------------------------------------------------------------------
(* The inductive invariant.                                                *)

(* A candidate of row r is a manual transaction that resembled the row when *)
(* it had the version of the candidate.                                     *)
Resembled(f, r, candidates, ledger) ==
    \A c \in candidates :
        /\ c \in ManualIds \X Nat
        /\ c[1] \in DOMAIN ledger
        /\ c[2] <= ledger[c[1]].version
        /\ c[2] = ledger[c[1]].version => <<RowsOf[f][r], ledger[c[1]].item>> \in Near

(* What findExistingMatches found for row r.                                *)
MatchHolds(f, r, m, ledger) ==
    /\ m.match \in {"NONE", "AUTO", "REVIEW"}
    /\ m.match = "AUTO" => Occurrence(f, r) = 1
    /\ Resembled(f, r, m.candidates, ledger)

(* The rows of a preview: what a commit must decide is neither imported nor *)
(* merged by itself.                                                        *)
RowsHold(f, rows, ledger) ==
    /\ rows \in Seq(Row)
    /\ DOMAIN rows = RowNumbers(f)
    /\ \A r \in RowNumbers(f) :
          /\ rows[r].match = "AUTO" => rows[r].evidence = "EXISTING"
          /\ rows[r].evidence = "NONE" => rows[r].match = "NONE"
          /\ Resembled(f, r, rows[r].candidates, ledger)

(* What a commit has decided about the rows of a batch.                     *)
Decided(c, rows) ==
    /\ c.valid = {r \in DOMAIN rows : rows[r].evidence = "NONE"}
    /\ c.new \subseteq {r \in DOMAIN rows : NeedsDecision(rows[r])}
    /\ DOMAIN c.target \subseteq DOMAIN rows \ Selected(c)
    /\ \A r \in DOMAIN c.target : c.target[r] \in rows[r].candidates
    /\ \A r, k \in DOMAIN c.target : c.target[r][1] = c.target[k][1] => r = k

(* What an invocation remembers, by where it is.                            *)
RequestHolds(q, staged, ledger, time) ==
    /\ q = Idle \/ q.file \in Files
    /\ q.pc = "ask" =>
          /\ q = [pc |-> "ask", file |-> q.file, suspected |-> q.suspected,
                  matches |-> q.matches]
          /\ \A m \in q.matches : \A r \in RowNumbers(q.file) :
                MatchHolds(q.file, r, m[r], ledger)
    /\ q.pc \in {"stage", "insert", "replace"} =>
          /\ q = [pc |-> q.pc, file |-> q.file, at |-> q.at, rows |-> q.rows]
          /\ q.at \in 0..time
          /\ RowsHold(q.file, q.rows, ledger)
          /\ \A r \in RowNumbers(q.file) : ~IsMerged(q.rows[r])
    /\ q.pc = "replace" => staged[q.file] # NoBatch /\ time >= Lifetime
    /\ q.pc \in {"decide", "commit"} =>
          /\ staged[q.file] # NoBatch
          /\ q.key \in Keys
          /\ q.version \in Nat /\ q.version <= staged[q.file].version
    /\ q.pc = "commit" =>
          (q.version = staged[q.file].version => Decided(q, staged[q.file].rows))

RequestsHold ==
    /\ DOMAIN req = Workers
    /\ \A w \in Workers : RequestHolds(req[w], batch, tx, now)

BatchesHold ==
    /\ DOMAIN batch = Files
    /\ \A f \in Files : batch[f] # NoBatch =>
          RowsHold(f, batch[f].rows, tx) /\ batch[f].expires >= Lifetime

(* import_fingerprint is UNIQUE.                                            *)
FingerprintsDiffer ==
    \A t, u \in DOMAIN tx :
        tx[t].fingerprint = tx[u].fingerprint /\ tx[t].fingerprint # <<>> => t = u

(* A row imported without a question leads to the transaction of its        *)
(* fingerprint, of its own file or of another.                              *)
ValidRowsLead ==
    \A f \in Files : \A r \in RowNumbers(f) :
        Committed(f) /\ batch[f].rows[r].evidence = "NONE" =>
            /\ batch[f].rows[r].tx \in DOMAIN tx
            /\ tx[batch[f].rows[r].tx].fingerprint = Canonical(f, r)

Inv ==
    /\ TypeOK
    /\ BatchesHold
    /\ RequestsHold
    /\ FingerprintsDiffer
    /\ ValidRowsLead
    /\ MergedOnce

-----------------------------------------------------------------------------
(* Ids and fingerprints.                                                   *)

LEMMA ImportedIdsAre ==
    /\ \A f \in Files : \A r \in RowNumbers(f) : <<f, r>> \in ImportedIds
    /\ \A t \in ImportedIds : t[1] \in Files /\ t[2] \in RowNumbers(t[1]) /\ t = <<t[1], t[2]>>
    /\ \A t \in ManualIds : t \notin ImportedIds
<1>1. \A t : t \in ImportedIds <=> \E f \in Files : t \in {f} \X RowNumbers(f)
  BY DEF ImportedIds
<1>2. \A t \in ManualIds : t[1] = NoFile
  BY DEF ManualIds
<1> QED BY <1>1, <1>2, ImportAssumption

LEMMA RowsAreItems ==
    ASSUME NEW f \in Files
    PROVE  /\ Len(RowsOf[f]) \in Nat
           /\ \A r \in RowNumbers(f) : RowsOf[f][r] \in Items
<1>1. RowsOf[f] \in Seq(Items)
  BY ImportAssumption
<1> QED BY <1>1 DEF RowNumbers

(* Equal rows of one file have different ordinals.                          *)
LEMMA OccurrencesGrow ==
    ASSUME NEW f \in Files, NEW r \in RowNumbers(f), NEW k \in RowNumbers(f), r < k,
           RowsOf[f][r] = RowsOf[f][k]
    PROVE  Occurrence(f, r) < Occurrence(f, k)
<1> DEFINE Equal(n) == {i \in 1..n : RowsOf[f][i] = RowsOf[f][n]}
<1>1. r \in Nat /\ k \in Nat
  BY RowsAreItems DEF RowNumbers
<1>2. IsFiniteSet(1..k)
  BY <1>1, FS_Interval
<1>3. IsFiniteSet(Equal(k))
  BY <1>2, FS_Subset
<1>4. Equal(r) \subseteq Equal(k) \ {k}
  BY <1>1
<1>5. k \in Equal(k)
  BY <1>1 DEF RowNumbers
<1> HIDE DEF Equal
<1>6. /\ IsFiniteSet(Equal(k) \ {k})
      /\ Cardinality(Equal(k) \ {k}) = Cardinality(Equal(k)) - 1
  BY <1>3, <1>5, FS_RemoveElement
<1>7. Cardinality(Equal(r)) <= Cardinality(Equal(k) \ {k})
  BY <1>4, <1>6, FS_Subset
<1>8. /\ Cardinality(Equal(k)) \in Nat /\ Cardinality(Equal(r)) \in Nat
  BY <1>3, <1>4, <1>6, FS_Subset, FS_CardinalityType
<1>9. Cardinality(Equal(r)) < Cardinality(Equal(k))
  BY <1>6, <1>7, <1>8
<1> QED BY <1>9 DEF Occurrence, Equal

LEMMA OccurrencesDiffer ==
    ASSUME NEW f \in Files, NEW r \in RowNumbers(f), NEW k \in RowNumbers(f),
           RowsOf[f][r] = RowsOf[f][k], Occurrence(f, r) = Occurrence(f, k)
    PROVE  r = k
<1>1. r \in Int /\ k \in Int
  BY RowsAreItems DEF RowNumbers
<1>2. ~(r < k)
  <2> SUFFICES ASSUME r < k PROVE FALSE
    OBVIOUS
  <2>1. Occurrence(f, r) < Occurrence(f, k)
    BY OccurrencesGrow
  <2>2. Occurrence(f, r) \in Nat
    <3>1. IsFiniteSet(1..r)
      BY <1>1, FS_Interval
    <3>2. IsFiniteSet({i \in 1..r : RowsOf[f][i] = RowsOf[f][r]})
      BY <3>1, FS_Subset
    <3> QED BY <3>2, FS_CardinalityType DEF Occurrence
  <2> QED BY <2>1, <2>2
<1>3. ~(k < r)
  <2> SUFFICES ASSUME k < r PROVE FALSE
    OBVIOUS
  <2>1. Occurrence(f, k) < Occurrence(f, r)
    BY OccurrencesGrow
  <2>2. Occurrence(f, r) \in Nat
    <3>1. IsFiniteSet(1..r)
      BY <1>1, FS_Interval
    <3>2. IsFiniteSet({i \in 1..r : RowsOf[f][i] = RowsOf[f][r]})
      BY <3>1, FS_Subset
    <3> QED BY <3>2, FS_CardinalityType DEF Occurrence
  <2> QED BY <2>1, <2>2
<1> QED BY <1>1, <1>2, <1>3

(* A commit gives every row a fingerprint of its own.                       *)
LEMMA FingerprintsOfRowsDiffer ==
    ASSUME NEW c, c.file \in Files, NEW r \in RowNumbers(c.file), NEW k \in RowNumbers(c.file),
           FingerprintOf(c, r) = FingerprintOf(c, k)
    PROVE  r = k
<1>1. CASE r \in c.new /\ k \in c.new
  BY <1>1 DEF FingerprintOf, OwnerNew
<1>2. CASE r \notin c.new /\ k \notin c.new
  <2>1. RowsOf[c.file][r] = RowsOf[c.file][k] /\ Occurrence(c.file, r) = Occurrence(c.file, k)
    BY <1>2 DEF FingerprintOf, Canonical
  <2> QED BY <2>1, OccurrencesDiffer
<1>3. CASE ~(r \in c.new <=> k \in c.new)
  BY <1>3, ImportAssumption DEF FingerprintOf, Canonical, OwnerNew
<1> QED BY <1>1, <1>2, <1>3

LEMMA FingerprintsAreTyped ==
    ASSUME NEW c, c.file \in Files, NEW r \in RowNumbers(c.file)
    PROVE  /\ FingerprintOf(c, r) # <<>>
           /\ [status |-> "POSTED", item |-> RowsOf[c.file][r], version |-> 1,
               fingerprint |-> FingerprintOf(c, r)] \in Transaction
<1>1. <<c.file, r>> \in ImportedIds /\ RowsOf[c.file][r] \in Items
  BY ImportedIdsAre, RowsAreItems
<1>2. /\ Canonical(c.file, r) \in {Canonical(t[1], t[2]) : t \in ImportedIds}
      /\ OwnerNew(c.file, r) \in {OwnerNew(t[1], t[2]) : t \in ImportedIds}
  <2>1. <<c.file, r>>[1] = c.file /\ <<c.file, r>>[2] = r
    OBVIOUS
  <2> QED BY <1>1, <2>1
<1>3. FingerprintOf(c, r) \in {Canonical(c.file, r), OwnerNew(c.file, r)}
  BY DEF FingerprintOf
<1>4. FingerprintOf(c, r) # <<>>
  BY DEF FingerprintOf, Canonical, OwnerNew
<1> HIDE DEF FingerprintOf
<1> QED BY <1>1, <1>2, <1>3, <1>4 DEF Transaction

-----------------------------------------------------------------------------
(* How the ledger and the batches move.                                    *)

(* Rows stay, with their fingerprint, and a changed row has the next version.*)
LedgerMoves(old, new) ==
    /\ DOMAIN old \subseteq DOMAIN new
    /\ \A t \in DOMAIN old :
          /\ new[t].fingerprint = old[t].fingerprint
          /\ new[t] = old[t] \/ new[t].version = old[t].version + 1

(* A changed batch has the next version.                                    *)
BatchMoves(old, new) ==
    \/ new = old
    \/ old = NoBatch
    \/ new # NoBatch /\ new.version = old.version + 1

LEMMA StillMoves ==
    ASSUME NEW table
    PROVE  LedgerMoves(table, table)
BY DEF LedgerMoves

LEMMA ResembledStays ==
    ASSUME TypeOK, LedgerMoves(tx, tx'), NEW f, NEW r, NEW candidates,
           Resembled(f, r, candidates, tx)
    PROVE  Resembled(f, r, candidates, tx')
<1> SUFFICES ASSUME NEW c \in candidates
             PROVE  /\ c \in ManualIds \X Nat
                    /\ c[1] \in DOMAIN tx'
                    /\ c[2] <= tx'[c[1]].version
                    /\ c[2] = tx'[c[1]].version => <<RowsOf[f][r], tx'[c[1]].item>> \in Near
  BY DEF Resembled
<1>1. /\ c \in ManualIds \X Nat
      /\ c[1] \in DOMAIN tx
      /\ c[2] <= tx[c[1]].version
      /\ c[2] = tx[c[1]].version => <<RowsOf[f][r], tx[c[1]].item>> \in Near
  BY DEF Resembled
<1>2. c[2] \in Nat /\ tx[c[1]].version \in Nat
  BY <1>1 DEF TypeOK, Transaction
<1>3. /\ c[1] \in DOMAIN tx'
      /\ tx'[c[1]] = tx[c[1]] \/ tx'[c[1]].version = tx[c[1]].version + 1
  BY <1>1 DEF LedgerMoves
<1> QED BY <1>1, <1>2, <1>3

LEMMA RowsStay ==
    ASSUME TypeOK, LedgerMoves(tx, tx'), NEW f, NEW rows, RowsHold(f, rows, tx)
    PROVE  RowsHold(f, rows, tx')
BY ResembledStays DEF RowsHold

LEMMA RequestStays ==
    ASSUME TypeOK, now \in Nat, now' \in Nat, now <= now', LedgerMoves(tx, tx'),
           \A f \in Files : BatchMoves(batch[f], batch'[f]),
           NEW q, RequestHolds(q, batch, tx, now)
    PROVE  RequestHolds(q, batch', tx', now')
<1>1. CASE q = Idle
  BY <1>1 DEF RequestHolds, Idle
<1>2. CASE q # Idle
  <2>1. q.file \in Files
    BY <1>2 DEF RequestHolds
  <2>2. BatchMoves(batch[q.file], batch'[q.file])
    BY <2>1
  <2>3. ASSUME q.pc = "ask", NEW m \in q.matches, NEW r \in RowNumbers(q.file)
        PROVE  MatchHolds(q.file, r, m[r], tx')
    BY <2>3, ResembledStays DEF RequestHolds, MatchHolds
  <2>4. ASSUME q.pc \in {"stage", "insert", "replace"}
        PROVE  q.at \in 0..now' /\ RowsHold(q.file, q.rows, tx')
    BY <2>4, RowsStay DEF RequestHolds
  <2>5. ASSUME q.pc = "replace"
        PROVE  batch'[q.file] # NoBatch /\ now' >= Lifetime
    BY <2>2, <2>5, ImportAssumption DEF RequestHolds, BatchMoves
  <2>6. ASSUME q.pc \in {"decide", "commit"}
        PROVE  /\ batch'[q.file] # NoBatch
               /\ q.key \in Keys
               /\ q.version \in Nat /\ q.version <= batch'[q.file].version
               /\ batch'[q.file] = batch[q.file] \/ q.version # batch'[q.file].version
    <3>1. /\ batch[q.file] # NoBatch /\ q.key \in Keys
          /\ q.version \in Nat /\ q.version <= batch[q.file].version
      BY <2>6 DEF RequestHolds
    <3>2. batch[q.file].version \in Nat
      BY <2>1, <3>1 DEF TypeOK, Batch
    <3> QED BY <2>2, <3>1, <3>2 DEF BatchMoves
  <2>7. ASSUME q.pc = "commit", q.version = batch'[q.file].version
        PROVE  Decided(q, batch'[q.file].rows)
    <3>1. batch'[q.file] = batch[q.file]
      BY <2>6, <2>7
    <3> QED BY <2>7, <3>1 DEF RequestHolds
  <2> QED BY <2>1, <2>3, <2>4, <2>5, <2>6, <2>7 DEF RequestHolds
<1> QED BY <1>1, <1>2

(* The requests of all invocations hold after a step of one of them.        *)
LEMMA OneRequestMoves ==
    ASSUME Inv, now' = now, LedgerMoves(tx, tx'),
           \A f \in Files : BatchMoves(batch[f], batch'[f]),
           NEW w \in Workers, NEW q, req' = [req EXCEPT ![w] = q],
           RequestHolds(q, batch', tx', now)
    PROVE  RequestsHold'
<1>1. now \in Nat
  BY DEF Inv, TypeOK
<1>2. DOMAIN req = Workers
  BY DEF Inv, RequestsHold
<1>3. DOMAIN req' = Workers /\ req'[w] = q /\ \A v \in Workers \ {w} : req'[v] = req[v]
  BY <1>2
<1>4. ASSUME NEW v \in Workers \ {w}
      PROVE  RequestHolds(req[v], batch', tx', now)
  <2>1. RequestHolds(req[v], batch, tx, now)
    BY DEF Inv, RequestsHold
  <2> QED BY <1>1, <2>1, RequestStays DEF Inv
<1> QED BY <1>3, <1>4 DEF RequestsHold

(* A request that is over remembers nothing.                                *)
LEMMA IdleHolds ==
    ASSUME NEW staged, NEW ledger, NEW time
    PROVE  RequestHolds(Idle, staged, ledger, time)
BY DEF RequestHolds, Idle

(* A step that only moves one request keeps the rest of the invariant.      *)
LEMMA RequestMoves ==
    ASSUME Inv, UNCHANGED <<now, batch, tx>>, NEW w \in Workers, NEW q,
           req' = [req EXCEPT ![w] = q], RequestHolds(q, batch, tx, now)
    PROVE  Inv'
<1>1. RequestsHold'
  <2>1. LedgerMoves(tx, tx') /\ \A f \in Files : BatchMoves(batch[f], batch'[f])
    BY StillMoves DEF BatchMoves
  <2> QED BY <2>1, OneRequestMoves
<1>2. TypeOK' /\ BatchesHold' /\ FingerprintsDiffer' /\ ValidRowsLead' /\ MergedOnce'
  BY DEF Inv, TypeOK, BatchesHold, FingerprintsDiffer, ValidRowsLead, MergedOnce, Committed
<1> QED BY <1>1, <1>2 DEF Inv

-----------------------------------------------------------------------------
(* Previews, up to the read of the batch.                                  *)

(* findExistingMatches answers rows that hold.                              *)
LEMMA MatchesHold ==
    ASSUME TypeOK, NEW f \in Files, NEW r \in RowNumbers(f)
    PROVE  MatchHolds(f, r, Matches(f)[r], tx)
<1> DEFINE m == Matches(f)[r]
<1>1. /\ m.candidates = {<<t, tx[t].version>> : t \in Candidates(f, r)}
      /\ m.match = IF Candidates(f, r) = {} THEN "NONE"
                   ELSE IF Automatic(f, r) THEN "AUTO" ELSE "REVIEW"
  BY DEF Matches
<1> HIDE DEF m
<1>2. Resembled(f, r, m.candidates, tx)
  <2> SUFFICES ASSUME NEW c \in m.candidates
               PROVE  /\ c \in ManualIds \X Nat
                      /\ c[1] \in DOMAIN tx
                      /\ c[2] <= tx[c[1]].version
                      /\ <<RowsOf[f][r], tx[c[1]].item>> \in Near
    BY DEF Resembled
  <2>1. PICK t \in Candidates(f, r) : c = <<t, tx[t].version>>
    BY <1>1
  <2>2. t \in ManualIds /\ t \in DOMAIN tx /\ <<RowsOf[f][r], tx[t].item>> \in Near
    BY DEF Candidates, IsNear, IsPosted
  <2>3. tx[t].version \in Nat
    BY <2>2 DEF TypeOK, Transaction
  <2> QED BY <2>1, <2>2, <2>3
<1>3. m.match = "AUTO" => Occurrence(f, r) = 1
  BY <1>1 DEF Automatic
<1> QED BY <1>1, <1>2, <1>3 DEF MatchHolds, m

LEMMA StagedRowHolds ==
    ASSUME NEW f, NEW r, NEW suspected, NEW found, NEW ledger,
           MatchHolds(f, r, found, ledger)
    PROVE  LET row == StagedRow(f, r, suspected, found)
           IN  /\ row \in Row
               /\ row.match = "AUTO" => row.evidence = "EXISTING"
               /\ row.evidence = "NONE" => row.match = "NONE"
               /\ row.candidates = found.candidates
               /\ ~IsMerged(row)
<1>1. found.candidates \in SUBSET (ManualIds \X Nat)
  BY DEF MatchHolds, Resembled
<1>2. found.match = "AUTO" => ~(Occurrence(f, r) > 1)
  BY DEF MatchHolds
<1> QED BY <1>1, <1>2 DEF StagedRow, Row, MatchHolds, IsMerged, MergedResolutions

(* Once both questions are answered the rows of the preview hold.           *)
LEMMA AnsweredHolds ==
    ASSUME TypeOK, NEW q, RequestHolds(q, batch, tx, now), q.file \in Files, q.pc = "ask"
    PROVE  RequestHolds(Answered(q), batch, tx, now)
<1>1. CASE q.suspected = {} \/ q.matches = {}
  BY <1>1 DEF Answered
<1>2. CASE ~(q.suspected = {} \/ q.matches = {})
  <2> DEFINE m == CHOOSE m \in q.matches : TRUE
             suspected == UNION q.suspected
             rows == [r \in RowNumbers(q.file) |-> StagedRow(q.file, r, suspected, m[r])]
  <2>1. m \in q.matches
    BY <1>2
  <2> HIDE DEF m, suspected
  <2>2. ASSUME NEW r \in RowNumbers(q.file)
        PROVE  /\ rows[r] \in Row
               /\ rows[r].match = "AUTO" => rows[r].evidence = "EXISTING"
               /\ rows[r].evidence = "NONE" => rows[r].match = "NONE"
               /\ Resembled(q.file, r, rows[r].candidates, tx)
               /\ ~IsMerged(rows[r])
    <3>1. MatchHolds(q.file, r, m[r], tx)
      BY <2>1 DEF RequestHolds
    <3>2. rows[r] = StagedRow(q.file, r, suspected, m[r])
      OBVIOUS
    <3> HIDE DEF rows
    <3> QED BY <3>1, <3>2, StagedRowHolds DEF MatchHolds
  <2>3. DOMAIN rows = RowNumbers(q.file) /\ rows \in [1..Len(RowsOf[q.file]) -> Row]
    BY <2>2 DEF RowNumbers
  <2>4. Len(RowsOf[q.file]) \in Nat
    BY RowsAreItems
  <2> HIDE DEF rows
  <2>5. rows \in Seq(Row)
    BY <2>3, <2>4, SeqDef
  <2>6. RowsHold(q.file, rows, tx)
    BY <2>2, <2>3, <2>5 DEF RowsHold
  <2>7. Answered(q) = [pc |-> "stage", file |-> q.file, at |-> now, rows |-> rows]
    BY <1>2 DEF Answered, rows, m, suspected
  <2>8. now \in 0..now
    BY DEF TypeOK
  <2> QED BY <2>2, <2>6, <2>7, <2>8 DEF RequestHolds
<1> QED BY <1>1, <1>2

(* An invocation that asks both questions.                                  *)
LEMMA AskingHolds ==
    ASSUME Inv, NEW w \in Workers, NEW f \in Files, CanAsk(w, f)
    PROVE  LET q == Asking(w, f)
           IN  /\ q = [pc |-> "ask", file |-> f, suspected |-> q.suspected,
                       matches |-> q.matches]
               /\ \A m \in q.matches : \A r \in RowNumbers(f) : MatchHolds(f, r, m[r], tx)
<1>1. CASE req[w].pc = "idle"
  BY <1>1 DEF Asking
<1>2. CASE req[w].pc # "idle"
  <2>1. req[w].pc = "ask" /\ req[w].file = f /\ RequestHolds(req[w], batch, tx, now)
    BY <1>2 DEF CanAsk, Inv, RequestsHold
  <2> QED BY <1>2, <2>1 DEF Asking, RequestHolds
<1> QED BY <1>1, <1>2

LEMMA ReadSuspectedKeeps ==
    ASSUME Inv, NEW w \in Workers, NEW f \in Files, ReadSuspected(w, f)
    PROVE  Inv'
<1> DEFINE a == Asking(w, f)
           q == [a EXCEPT !.suspected = {Suspected(f)}]
<1>1. /\ a = [pc |-> "ask", file |-> f, suspected |-> a.suspected, matches |-> a.matches]
      /\ \A m \in a.matches : \A r \in RowNumbers(f) : MatchHolds(f, r, m[r], tx)
  BY AskingHolds DEF ReadSuspected
<1>2. req' = [req EXCEPT ![w] = Answered(q)] /\ UNCHANGED <<now, batch, tx>>
  BY DEF ReadSuspected
<1> HIDE DEF a
<1>3. /\ q = [pc |-> "ask", file |-> q.file, suspected |-> q.suspected, matches |-> q.matches]
      /\ q.pc = "ask" /\ q.file = f /\ q.matches = a.matches
  BY <1>1
<1> HIDE DEF q
<1>4. RequestHolds(q, batch, tx, now)
  BY <1>1, <1>3 DEF RequestHolds
<1>5. RequestHolds(Answered(q), batch, tx, now)
  BY <1>3, <1>4, AnsweredHolds DEF Inv
<1> QED BY <1>2, <1>5, RequestMoves

LEMMA ReadMatchesKeeps ==
    ASSUME Inv, NEW w \in Workers, NEW f \in Files, ReadMatches(w, f)
    PROVE  Inv'
<1> DEFINE a == Asking(w, f)
           q == [a EXCEPT !.matches = {Matches(f)}]
<1>1. a = [pc |-> "ask", file |-> f, suspected |-> a.suspected, matches |-> a.matches]
  BY AskingHolds DEF ReadMatches
<1>2. req' = [req EXCEPT ![w] = Answered(q)] /\ UNCHANGED <<now, batch, tx>>
  BY DEF ReadMatches
<1> HIDE DEF a
<1>3. /\ q = [pc |-> "ask", file |-> q.file, suspected |-> q.suspected, matches |-> q.matches]
      /\ q.pc = "ask" /\ q.file = f /\ q.matches = {Matches(f)}
  BY <1>1
<1> HIDE DEF q
<1>4. \A m \in q.matches : \A r \in RowNumbers(f) : MatchHolds(f, r, m[r], tx)
  BY <1>3, MatchesHold DEF Inv
<1>5. RequestHolds(q, batch, tx, now)
  BY <1>3, <1>4 DEF RequestHolds
<1>6. RequestHolds(Answered(q), batch, tx, now)
  BY <1>3, <1>5, AnsweredHolds DEF Inv
<1> QED BY <1>2, <1>6, RequestMoves

LEMMA ReadBatchKeeps ==
    ASSUME Inv, NEW w \in Workers, ReadBatch(w)
    PROVE  Inv'
<1> DEFINE q == req[w]
           b == batch[q.file]
<1>1. q.pc = "stage" /\ UNCHANGED <<now, batch, tx>>
  BY DEF ReadBatch
<1>2. RequestHolds(q, batch, tx, now) /\ q # Idle
  BY <1>1 DEF Inv, RequestsHold, Idle
<1>3. /\ q.file \in Files
      /\ q = [pc |-> q.pc, file |-> q.file, at |-> q.at, rows |-> q.rows]
      /\ q.at \in 0..now /\ RowsHold(q.file, q.rows, tx)
      /\ \A r \in RowNumbers(q.file) : ~IsMerged(q.rows[r])
  BY <1>1, <1>2 DEF RequestHolds
<1>4. CASE b = NoBatch
  <2>1. req' = [req EXCEPT ![w] = [q EXCEPT !.pc = "insert"]]
    BY <1>4 DEF ReadBatch
  <2>2. [q EXCEPT !.pc = "insert"] =
           [pc |-> "insert", file |-> q.file, at |-> q.at, rows |-> q.rows]
    BY <1>3
  <2>3. RequestHolds([q EXCEPT !.pc = "insert"], batch, tx, now)
    BY <1>3, <2>2 DEF RequestHolds
  <2> QED BY <1>1, <2>1, <2>3, RequestMoves
<1>5. CASE b # NoBatch /\ Restageable(b, q.at)
  <2>1. req' = [req EXCEPT ![w] = [q EXCEPT !.pc = "replace"]]
    BY <1>5 DEF ReadBatch
  <2>2. [q EXCEPT !.pc = "replace"] =
           [pc |-> "replace", file |-> q.file, at |-> q.at, rows |-> q.rows]
    BY <1>3
  <2>3. b.expires >= Lifetime /\ b.expires <= q.at /\ b.expires \in Nat /\ now \in Nat
    BY <1>3, <1>5 DEF Inv, BatchesHold, Restageable, IsExpired, TypeOK, Batch
  <2>4. now >= Lifetime
    BY <1>3, <2>3, ImportAssumption
  <2>5. RequestHolds([q EXCEPT !.pc = "replace"], batch, tx, now)
    BY <1>3, <1>5, <2>2, <2>4 DEF RequestHolds
  <2> QED BY <1>1, <2>1, <2>5, RequestMoves
<1>6. CASE b # NoBatch /\ ~Restageable(b, q.at)
  <2>1. req' = [req EXCEPT ![w] = Idle]
    BY <1>6 DEF ReadBatch
  <2> QED BY <1>1, <2>1, IdleHolds, RequestMoves
<1> QED BY <1>4, <1>5, <1>6

-----------------------------------------------------------------------------
(* Commits, up to the atomic batch.                                        *)

LEMMA BeginCommitKeeps ==
    ASSUME Inv, NEW w \in Workers, NEW f \in Files, NEW key \in Keys, BeginCommit(w, f, key)
    PROVE  Inv'
<1> DEFINE q == [pc |-> "decide", file |-> f, at |-> now, version |-> batch[f].version,
                 key |-> key]
<1>1. batch[f] # NoBatch /\ req' = [req EXCEPT ![w] = q] /\ UNCHANGED <<now, batch, tx>>
  BY DEF BeginCommit
<1>2. batch[f].version \in Nat
  BY <1>1 DEF Inv, TypeOK, Batch
<1>3. RequestHolds(q, batch, tx, now)
  BY <1>1, <1>2 DEF RequestHolds
<1> QED BY <1>1, <1>3, RequestMoves

LEMMA DecideKeeps ==
    ASSUME Inv, NEW w \in Workers, Decide(w)
    PROVE  Inv'
<1> DEFINE d == req[w]
           rows == batch[d.file].rows
           required == {r \in DOMAIN rows : NeedsDecision(rows[r])}
           automatic == {r \in DOMAIN rows : rows[r].match = "AUTO"}
           valid == {r \in DOMAIN rows : rows[r].evidence = "NONE"}
<1>1. d.pc = "decide" /\ UNCHANGED <<now, batch, tx>>
  BY DEF Decide
<1>2. RequestHolds(d, batch, tx, now) /\ d # Idle
  BY <1>1 DEF Inv, RequestsHold, Idle
<1>3. /\ d.file \in Files /\ batch[d.file] # NoBatch /\ d.key \in Keys
      /\ d.version \in Nat /\ d.version <= batch[d.file].version
  BY <1>1, <1>2 DEF RequestHolds
<1>4. RowsHold(d.file, rows, tx)
  BY <1>3 DEF Inv, BatchesHold
<1>5. PICK new \in SUBSET required : \E merged \in SUBSET (required \ new) :
        \E target \in [merged \cup automatic -> UNION {rows[r].candidates : r \in DOMAIN rows}] :
           /\ \A r \in DOMAIN target : target[r] \in rows[r].candidates
           /\ \A r, k \in DOMAIN target : target[r][1] = target[k][1] => r = k
           /\ req' = [req EXCEPT ![w] =
                 [pc |-> "commit", file |-> d.file, at |-> d.at, version |-> d.version,
                  key |-> d.key, new |-> new, target |-> target, valid |-> valid]]
  BY DEF Decide
<1>6. PICK merged \in SUBSET (required \ new) :
        \E target \in [merged \cup automatic -> UNION {rows[r].candidates : r \in DOMAIN rows}] :
           /\ \A r \in DOMAIN target : target[r] \in rows[r].candidates
           /\ \A r, k \in DOMAIN target : target[r][1] = target[k][1] => r = k
           /\ req' = [req EXCEPT ![w] =
                 [pc |-> "commit", file |-> d.file, at |-> d.at, version |-> d.version,
                  key |-> d.key, new |-> new, target |-> target, valid |-> valid]]
  BY <1>5
<1>7. PICK target \in [merged \cup automatic -> UNION {rows[r].candidates : r \in DOMAIN rows}] :
           /\ \A r \in DOMAIN target : target[r] \in rows[r].candidates
           /\ \A r, k \in DOMAIN target : target[r][1] = target[k][1] => r = k
           /\ req' = [req EXCEPT ![w] =
                 [pc |-> "commit", file |-> d.file, at |-> d.at, version |-> d.version,
                  key |-> d.key, new |-> new, target |-> target, valid |-> valid]]
  BY <1>6
<1> DEFINE c == [pc |-> "commit", file |-> d.file, at |-> d.at, version |-> d.version,
                 key |-> d.key, new |-> new, target |-> target, valid |-> valid]
<1>8. Decided(c, rows)
  <2>1. DOMAIN target = merged \cup automatic
    BY <1>7
  <2>2. \A r \in DOMAIN rows : /\ rows[r].match = "AUTO" => rows[r].evidence = "EXISTING"
                               /\ rows[r].evidence = "NONE" => rows[r].match = "NONE"
    BY <1>4 DEF RowsHold
  <2>3. required \cap valid = {} /\ automatic \cap valid = {} /\ automatic \cap required = {}
    BY <2>2 DEF NeedsDecision
  <2>4. DOMAIN target \subseteq DOMAIN rows \ (valid \cup new)
    BY <1>5, <1>6, <2>1, <2>3
  <2> QED BY <1>5, <1>7, <2>4 DEF Decided, Selected
<1>9. c.pc = "commit" /\ c.file = d.file /\ c.key = d.key /\ c.version = d.version
  OBVIOUS
<1>10. req' = [req EXCEPT ![w] = c]
  BY <1>7
<1> HIDE DEF c
<1>11. RequestHolds(c, batch, tx, now)
  BY <1>3, <1>8, <1>9 DEF RequestHolds
<1> QED BY <1>1, <1>10, <1>11, RequestMoves

LEMMA EndKeeps ==
    ASSUME Inv, NEW w \in Workers, CommitRefused(w) \/ Abandon(w)
    PROVE  Inv'
<1>1. req' = [req EXCEPT ![w] = Idle] /\ UNCHANGED <<now, batch, tx>>
  BY DEF CommitRefused, Abandon
<1> QED BY <1>1, IdleHolds, RequestMoves

LEMMA TickKeeps ==
    ASSUME Inv, Tick
    PROVE  Inv'
<1>1. now \in Nat /\ now' = now + 1 /\ now < MaxTime /\ UNCHANGED <<batch, tx, req>>
  BY DEF Inv, TypeOK, Tick
<1>2. RequestsHold'
  <2>1. LedgerMoves(tx, tx') /\ \A f \in Files : BatchMoves(batch[f], batch'[f])
    BY <1>1, StillMoves DEF BatchMoves
  <2>2. ASSUME NEW v \in Workers
        PROVE  RequestHolds(req[v], batch', tx', now')
    <3>1. RequestHolds(req[v], batch, tx, now)
      BY DEF Inv, RequestsHold
    <3>2. now' \in Nat /\ now <= now'
      BY <1>1
    <3> QED BY <1>1, <2>1, <3>1, <3>2, RequestStays DEF Inv
  <2> QED BY <1>1, <2>2 DEF Inv, RequestsHold
<1>3. TypeOK'
  <2>1. now' \in 0..MaxTime
    BY <1>1, ImportAssumption
  <2> QED BY <1>1, <2>1 DEF Inv, TypeOK
<1>4. BatchesHold' /\ FingerprintsDiffer' /\ ValidRowsLead' /\ MergedOnce'
  BY <1>1 DEF Inv, BatchesHold, FingerprintsDiffer, ValidRowsLead, MergedOnce, Committed
<1> QED BY <1>2, <1>3, <1>4 DEF Inv

-----------------------------------------------------------------------------
(* A preview is stored.                                                    *)

LEMMA PreviewKeeps ==
    ASSUME Inv, UNCHANGED <<now, tx>>, NEW w \in Workers, req' = [req EXCEPT ![w] = Idle],
           NEW f \in Files, NEW p \in Batch, batch' = [batch EXCEPT ![f] = p],
           p.status = "PREVIEWED", p.expires >= Lifetime, RowsHold(f, p.rows, tx),
           batch[f] = NoBatch \/ p.version = batch[f].version + 1
    PROVE  Inv'
<1>1. /\ DOMAIN batch' = Files /\ batch'[f] = p /\ p # NoBatch
      /\ \A g \in Files \ {f} : batch'[g] = batch[g]
  BY BatchAssumption DEF Inv, BatchesHold
<1>2. RequestsHold'
  <2>1. LedgerMoves(tx, tx')
    BY StillMoves
  <2>2. \A g \in Files : BatchMoves(batch[g], batch'[g])
    BY <1>1 DEF BatchMoves
  <2> QED BY <2>1, <2>2, IdleHolds, OneRequestMoves
<1>3. TypeOK'
  <2>1. DOMAIN p.rows = RowNumbers(f)
    BY DEF RowsHold
  <2>2. \A g \in Files : batch'[g] # NoBatch =>
           batch'[g] \in Batch /\ DOMAIN batch'[g].rows = RowNumbers(g)
    BY <1>1, <2>1 DEF Inv, TypeOK
  <2> QED BY <2>2 DEF Inv, TypeOK
<1>4. BatchesHold'
  BY <1>1 DEF Inv, BatchesHold
<1>5. \A g \in Files : Committed(g)' => g # f /\ Committed(g) /\ batch'[g] = batch[g]
  BY <1>1 DEF Committed
<1>6. ValidRowsLead' /\ MergedOnce'
  BY <1>5 DEF Inv, ValidRowsLead, MergedOnce
<1>7. FingerprintsDiffer'
  BY DEF Inv, FingerprintsDiffer
<1> QED BY <1>2, <1>3, <1>4, <1>6, <1>7 DEF Inv

LEMMA PreviewsAreTyped ==
    ASSUME TypeOK, NEW q, q.at \in 0..now, RowsHold(q.file, q.rows, tx),
           NEW key \in Keys \cup {NoKey}, NEW version \in Nat
    PROVE  LET p == Preview(q, key, version)
           IN  /\ p \in Batch /\ p.status = "PREVIEWED" /\ p.expires >= Lifetime
               /\ p.version = version /\ p.rows = q.rows
<1>1. q.at + Lifetime \in Nat /\ q.at + Lifetime >= Lifetime
  BY ImportAssumption DEF TypeOK
<1>2. q.rows \in Seq(Row)
  BY DEF RowsHold
<1> QED BY <1>1, <1>2 DEF Preview, Batch

LEMMA InsertPreviewKeeps ==
    ASSUME Inv, NEW w \in Workers, InsertPreview(w)
    PROVE  Inv'
<1> DEFINE q == req[w]
           p == Preview(q, NoKey, 1)
<1>1. q.pc = "insert" /\ req' = [req EXCEPT ![w] = Idle] /\ UNCHANGED <<now, tx>>
  BY DEF InsertPreview
<1>2. RequestHolds(q, batch, tx, now) /\ q # Idle
  BY <1>1 DEF Inv, RequestsHold, Idle
<1>3. q.file \in Files /\ q.at \in 0..now /\ RowsHold(q.file, q.rows, tx)
  BY <1>1, <1>2 DEF RequestHolds
<1>4. CASE batch[q.file] # NoBatch
  <2>1. batch' = batch
    BY <1>4 DEF InsertPreview
  <2> QED BY <1>1, <2>1, IdleHolds, RequestMoves
<1>5. CASE batch[q.file] = NoBatch
  <2>1. batch' = [batch EXCEPT ![q.file] = p]
    BY <1>5 DEF InsertPreview
  <2>2. /\ p \in Batch /\ p.status = "PREVIEWED" /\ p.expires >= Lifetime
        /\ p.rows = q.rows
    BY <1>3, PreviewsAreTyped DEF Inv
  <2> HIDE DEF p
  <2> QED BY <1>1, <1>3, <1>5, <2>1, <2>2, PreviewKeeps
<1> QED BY <1>4, <1>5

LEMMA ReplacePreviewKeeps ==
    ASSUME Inv, NEW w \in Workers, ReplacePreview(w)
    PROVE  Inv'
<1> DEFINE q == req[w]
           b == batch[q.file]
           p == Preview(q, b.key, b.version + 1)
<1>1. q.pc = "replace" /\ req' = [req EXCEPT ![w] = Idle] /\ UNCHANGED <<now, tx>>
  BY DEF ReplacePreview
<1>2. RequestHolds(q, batch, tx, now) /\ q # Idle
  BY <1>1 DEF Inv, RequestsHold, Idle
<1>3. q.file \in Files /\ q.at \in 0..now /\ RowsHold(q.file, q.rows, tx) /\ b # NoBatch
  BY <1>1, <1>2 DEF RequestHolds
<1>4. b.key \in Keys \cup {NoKey} /\ b.version + 1 \in Nat
  BY <1>3 DEF Inv, TypeOK, Batch
<1>5. batch' = [batch EXCEPT ![q.file] = p]
  BY <1>3 DEF ReplacePreview, Inv, BatchesHold
<1>6. /\ p \in Batch /\ p.status = "PREVIEWED" /\ p.expires >= Lifetime
      /\ p.version = b.version + 1 /\ p.rows = q.rows
  BY <1>3, <1>4, PreviewsAreTyped DEF Inv
<1> HIDE DEF p
<1> QED BY <1>1, <1>3, <1>5, <1>6, PreviewKeeps

-----------------------------------------------------------------------------
(* The owner keeps the ledger.                                             *)

LEMMA LedgerKeeps ==
    ASSUME Inv, UNCHANGED <<now, batch, req>>, LedgerMoves(tx, tx'), TypeOK',
           FingerprintsDiffer'
    PROVE  Inv'
<1>1. now \in Nat /\ \A f \in Files : BatchMoves(batch[f], batch'[f])
  BY DEF Inv, TypeOK, BatchMoves
<1>2. RequestsHold'
  <2>1. ASSUME NEW v \in Workers
        PROVE  RequestHolds(req[v], batch', tx', now')
    <3>1. RequestHolds(req[v], batch, tx, now)
      BY DEF Inv, RequestsHold
    <3> QED BY <1>1, <3>1, RequestStays DEF Inv
  <2> QED BY <2>1 DEF Inv, RequestsHold
<1>3. BatchesHold'
  BY RowsStay DEF Inv, BatchesHold
<1>4. ValidRowsLead'
  BY DEF Inv, ValidRowsLead, Committed, LedgerMoves
<1>5. MergedOnce'
  BY DEF Inv, MergedOnce, Committed
<1> QED BY <1>2, <1>3, <1>4, <1>5 DEF Inv

(* A transaction whose status or item changes.                              *)
LEMMA ChangesAreTyped ==
    ASSUME NEW old \in Transaction, NEW status \in {"POSTED", "REMOVED"}, NEW item \in Items
    PROVE  LET row == [old EXCEPT !.status = status, !.item = item, !.version = @ + 1]
           IN  /\ row \in Transaction
               /\ row.version = old.version + 1 /\ row.fingerprint = old.fingerprint
<1> DEFINE Fingerprints == {<<>>} \cup {Canonical(t[1], t[2]) : t \in ImportedIds} \cup
                             {OwnerNew(t[1], t[2]) : t \in ImportedIds}
<1>1. Transaction = [status : {"POSTED", "REMOVED"}, item : Items, version : Nat,
                     fingerprint : Fingerprints]
  BY DEF Transaction
<1> HIDE DEF Fingerprints
<1>2. old.version + 1 \in Nat /\ old.fingerprint \in Fingerprints
  BY <1>1
<1>3. [old EXCEPT !.status = status, !.item = item, !.version = @ + 1] =
         [status |-> status, item |-> item, version |-> old.version + 1,
          fingerprint |-> old.fingerprint]
  <2>1. DOMAIN old = {"status", "item", "version", "fingerprint"}
    BY <1>1
  <2> DEFINE row == [old EXCEPT !.status = status, !.item = item, !.version = @ + 1]
  <2>2. /\ DOMAIN row = {"status", "item", "version", "fingerprint"}
        /\ row = [k \in {"status", "item", "version", "fingerprint"} |-> row[k]]
        /\ row["status"] = status /\ row["item"] = item
        /\ row["version"] = old.version + 1 /\ row["fingerprint"] = old.fingerprint
    BY <2>1
  <2> HIDE DEF row
  <2>3. row = [status |-> status, item |-> item, version |-> old.version + 1,
               fingerprint |-> old.fingerprint]
    BY <2>2
  <2> QED BY <2>3 DEF row
<1> QED BY <1>1, <1>2, <1>3

(* A change of one manual transaction.                                      *)
LEMMA RevisionKeeps ==
    ASSUME Inv, UNCHANGED <<now, batch, req>>, NEW t \in ManualIds, t \in DOMAIN tx,
           NEW row \in Transaction, tx' = [tx EXCEPT ![t] = row],
           row.version = tx[t].version + 1, row.fingerprint = tx[t].fingerprint
    PROVE  Inv'
<1>1. /\ DOMAIN tx' = DOMAIN tx /\ tx'[t] = row
      /\ \A u \in DOMAIN tx \ {t} : tx'[u] = tx[u]
  OBVIOUS
<1>2. LedgerMoves(tx, tx')
  BY <1>1 DEF LedgerMoves
<1>3. TypeOK'
  <2>1. \A u \in DOMAIN tx' : tx'[u] \in Transaction
    BY <1>1 DEF Inv, TypeOK
  <2>2. \A u \in DOMAIN tx' \cap ImportedIds : tx'[u].item = RowsOf[u[1]][u[2]]
    BY <1>1, ImportedIdsAre DEF Inv, TypeOK
  <2> QED BY <1>1, <2>1, <2>2 DEF Inv, TypeOK
<1>4. FingerprintsDiffer'
  BY <1>1 DEF Inv, FingerprintsDiffer
<1> QED BY <1>2, <1>3, <1>4, LedgerKeeps

LEMMA ReviseKeeps ==
    ASSUME Inv, NEW t \in ManualIds, NEW item \in Items, Revise(t, item)
    PROVE  Inv'
<1> DEFINE row == [tx[t] EXCEPT !.item = item, !.version = @ + 1]
<1>1. t \in DOMAIN tx /\ UNCHANGED <<now, batch, req>>
  BY DEF Revise, IsPosted
<1>2. tx[t] \in Transaction
  BY <1>1 DEF Inv, TypeOK
<1>3. row = [tx[t] EXCEPT !.status = "POSTED", !.item = item, !.version = @ + 1]
  BY <1>2 DEF Transaction, Revise, IsPosted
<1>4. tx' = [tx EXCEPT ![t] = row]
  BY <1>1 DEF Revise
<1> HIDE DEF row
<1>5. row \in Transaction /\ row.version = tx[t].version + 1 /\ row.fingerprint = tx[t].fingerprint
  BY <1>2, <1>3, ChangesAreTyped
<1> QED BY <1>1, <1>4, <1>5, RevisionKeeps

LEMMA DeleteKeeps ==
    ASSUME Inv, NEW t \in ManualIds, Delete(t)
    PROVE  Inv'
<1> DEFINE row == [tx[t] EXCEPT !.status = "REMOVED", !.version = @ + 1]
<1>1. t \in DOMAIN tx /\ UNCHANGED <<now, batch, req>>
  BY DEF Delete, IsPosted
<1>2. tx[t] \in Transaction
  BY <1>1 DEF Inv, TypeOK
<1>3. /\ row = [tx[t] EXCEPT !.status = "REMOVED", !.item = tx[t].item, !.version = @ + 1]
      /\ tx[t].item \in Items
  BY <1>2 DEF Transaction
<1>4. tx' = [tx EXCEPT ![t] = row]
  BY <1>1 DEF Delete
<1> HIDE DEF row
<1>5. row \in Transaction /\ row.version = tx[t].version + 1 /\ row.fingerprint = tx[t].fingerprint
  BY <1>2, <1>3, ChangesAreTyped
<1> QED BY <1>1, <1>4, <1>5, RevisionKeeps

LEMMA RecordKeeps ==
    ASSUME Inv, NEW item \in Items, Record(item)
    PROVE  Inv'
<1> DEFINE n == Cardinality(DOMAIN tx \cap ManualIds) + 1
           new == [status |-> "POSTED", item |-> item, version |-> 1, fingerprint |-> <<>>]
           id == <<NoFile, n>>
<1>1. /\ n <= MaxManual /\ UNCHANGED <<now, batch, req>>
      /\ tx' = [t \in DOMAIN tx \cup {id} |-> IF t \in DOMAIN tx THEN tx[t] ELSE new]
  BY DEF Record
<1>2. n \in 1..MaxManual
  <2>0. MaxManual \in Int
    BY ImportAssumption
  <2>1. IsFiniteSet(1..MaxManual) /\ IsFiniteSet({NoFile})
    <3>1. IsFiniteSet(1..MaxManual)
      BY <2>0, FS_Interval
    <3>2. IsFiniteSet({NoFile})
      BY FS_Singleton
    <3> QED BY <3>1, <3>2
  <2>2. IsFiniteSet(ManualIds)
    BY <2>1, FS_Product DEF ManualIds
  <2>3. IsFiniteSet(DOMAIN tx \cap ManualIds)
    BY <2>2, FS_Subset
  <2>4. Cardinality(DOMAIN tx \cap ManualIds) \in Nat
    BY <2>3, FS_CardinalityType
  <2> QED BY <1>1, <2>4, ImportAssumption
<1> HIDE DEF n
<1>3. id \in ManualIds /\ new \in Transaction /\ new.fingerprint = <<>>
  BY <1>2 DEF ManualIds, Transaction
<1> HIDE DEF id, new
<1>4. /\ DOMAIN tx' = DOMAIN tx \cup {id}
      /\ \A t \in DOMAIN tx : tx'[t] = tx[t]
      /\ \A t \in DOMAIN tx' : tx'[t] = new \/ t \in DOMAIN tx
      /\ \A t \in DOMAIN tx' \cap ImportedIds : t \in DOMAIN tx
  BY <1>1, <1>3, ImportedIdsAre
<1>5. LedgerMoves(tx, tx')
  BY <1>4 DEF LedgerMoves
<1>6. TypeOK'
  <2>1. DOMAIN tx' \subseteq ManualIds \cup ImportedIds
    BY <1>3, <1>4 DEF Inv, TypeOK
  <2>2. \A t \in DOMAIN tx' : tx'[t] \in Transaction
    BY <1>3, <1>4 DEF Inv, TypeOK
  <2>3. \A t \in DOMAIN tx' \cap ImportedIds : tx'[t].item = RowsOf[t[1]][t[2]]
    BY <1>4 DEF Inv, TypeOK
  <2> QED BY <1>1, <2>1, <2>2, <2>3 DEF Inv, TypeOK
<1>7. FingerprintsDiffer'
  BY <1>3, <1>4 DEF Inv, FingerprintsDiffer
<1> QED BY <1>1, <1>5, <1>6, <1>7, LedgerKeeps

-----------------------------------------------------------------------------
(* The atomic batch of a commit.                                           *)

(* Its guard compares the version of the batch, so the rows are those the   *)
(* invocation has decided about.                                            *)
LEMMA CommitFindsItsRows ==
    ASSUME Inv, NEW w \in Workers, Commit(w)
    PROVE  LET c == req[w]
               b == batch[req[w].file]
           IN  /\ c.file \in Files /\ c.key \in Keys
               /\ b # NoBatch /\ b \in Batch /\ b.status = "PREVIEWED"
               /\ RowsHold(c.file, b.rows, tx)
               /\ Decided(c, b.rows)
               /\ Selected(c) \subseteq RowNumbers(c.file)
               /\ DOMAIN c.target \subseteq RowNumbers(c.file) \ Selected(c)
               /\ TargetsUnchanged(c) /\ ~ViolatesKeys(c)
<1> DEFINE c == req[w]
           b == batch[c.file]
<1>1. c.pc = "commit" /\ Commits(c)
  BY DEF Commit
<1>2. RequestHolds(c, batch, tx, now) /\ c # Idle
  BY <1>1 DEF Inv, RequestsHold, Idle
<1>3. /\ c.file \in Files /\ c.key \in Keys /\ b # NoBatch
      /\ c.version = b.version => Decided(c, b.rows)
  BY <1>1, <1>2 DEF RequestHolds
<1>4. /\ b.status = "PREVIEWED" /\ b.version = c.version
      /\ TargetsUnchanged(c) /\ ~ViolatesKeys(c)
  BY <1>1 DEF Commits, Committable
<1>5. b \in Batch /\ RowsHold(c.file, b.rows, tx) /\ DOMAIN b.rows = RowNumbers(c.file)
  BY <1>3 DEF Inv, TypeOK, BatchesHold
<1>6. Decided(c, b.rows)
  BY <1>3, <1>4
<1>7. /\ Selected(c) \subseteq RowNumbers(c.file)
      /\ DOMAIN c.target \subseteq RowNumbers(c.file) \ Selected(c)
  BY <1>5, <1>6 DEF Decided, Selected
<1> QED BY <1>3, <1>4, <1>5, <1>6, <1>7

(* What becomes of the ledger: rows are only added, each the transaction of *)
(* a selected row whose fingerprint nobody had.                             *)
LEMMA CommitAdds ==
    ASSUME Inv, NEW w \in Workers, Commit(w)
    PROVE  LET c == req[w]
               new == {<<c.file, r>> : r \in Inserted(c)}
           IN  /\ DOMAIN tx' = DOMAIN tx \cup new
               /\ \A t \in DOMAIN tx : tx'[t] = tx[t]
               /\ \A r \in Inserted(c) :
                     /\ r \in RowNumbers(c.file)
                     /\ <<c.file, r>> \in ImportedIds
                     /\ <<c.file, r>> \notin DOMAIN tx
                     /\ <<c.file, r>> \in DOMAIN tx'
                     /\ tx'[<<c.file, r>>] = Imported(c, r)
                     /\ \A t \in DOMAIN tx : tx[t].fingerprint # FingerprintOf(c, r)
<1> DEFINE c == req[w]
           new == {<<c.file, r>> : r \in Inserted(c)}
<1>1. tx' = LedgerAfter(c)
  BY DEF Commit
<1>2. /\ c.file \in Files /\ Selected(c) \subseteq RowNumbers(c.file) /\ ~ViolatesKeys(c)
  BY CommitFindsItsRows
<1> HIDE DEF c
<1>3. /\ DOMAIN tx' = DOMAIN tx \cup new
      /\ \A t \in DOMAIN tx : tx'[t] = tx[t]
      /\ \A t \in DOMAIN tx' \ DOMAIN tx : tx'[t] = Imported(c, t[2])
  BY <1>1 DEF LedgerAfter
<1>4. ASSUME NEW r \in Inserted(c)
      PROVE  /\ r \in RowNumbers(c.file)
             /\ <<c.file, r>> \in ImportedIds
             /\ <<c.file, r>> \notin DOMAIN tx
             /\ <<c.file, r>> \in DOMAIN tx'
             /\ tx'[<<c.file, r>>] = Imported(c, r)
             /\ \A t \in DOMAIN tx : tx[t].fingerprint # FingerprintOf(c, r)
  <2>1. r \in Selected(c) /\ Stored(FingerprintOf(c, r)) = {}
    BY DEF Inserted
  <2>2. <<c.file, r>> \notin DOMAIN tx
    BY <1>2, <2>1 DEF ViolatesKeys
  <2>3. r \in RowNumbers(c.file) /\ <<c.file, r>> \in ImportedIds
    BY <1>2, <2>1, ImportedIdsAre
  <2>4. <<c.file, r>> \in DOMAIN tx' /\ <<c.file, r>>[2] = r
    BY <1>3
  <2>5. tx'[<<c.file, r>>] = Imported(c, r)
    BY <1>3, <2>2, <2>4
  <2>6. \A t \in DOMAIN tx : tx[t].fingerprint # FingerprintOf(c, r)
    BY <2>1 DEF Stored
  <2> QED BY <2>2, <2>3, <2>4, <2>5, <2>6
<1> QED BY <1>3, <1>4 DEF c

(* What becomes of the rows of the batch.                                   *)
LEMMA CommitResolves ==
    ASSUME Inv, NEW w \in Workers, Commit(w), NEW r \in RowNumbers(req[w].file)
    PROVE  LET c == req[w]
               row == batch[req[w].file].rows[r]
               done == Resolved(req[w], r)
           IN  /\ done \in Row
               /\ done.evidence = row.evidence /\ done.match = row.match
               /\ done.candidates = row.candidates
               /\ r \in DOMAIN c.target => IsMerged(done) /\ done.tx = c.target[r][1]
               /\ r \notin DOMAIN c.target => ~IsMerged(done)
               /\ r \in Selected(c) =>
                     /\ done.tx \in DOMAIN tx'
                     /\ tx'[done.tx].fingerprint = FingerprintOf(c, r)
                     /\ done.resolution = "IMPORTED_NEW" <=> NewlyImported(c, r)
                     /\ r \in Inserted(c) => done.tx = <<c.file, r>>
                     /\ r \notin Inserted(c) =>
                           done.tx \in DOMAIN tx /\ done.tx \in Stored(FingerprintOf(c, r))
               /\ r \notin Selected(c) => done.resolution # "IMPORTED_NEW"
<1> DEFINE c == req[w]
           row == batch[c.file].rows[r]
           done == Resolved(c, r)
<1>1. /\ c.file \in Files /\ RowsHold(c.file, batch[c.file].rows, tx)
      /\ Decided(c, batch[c.file].rows)
      /\ DOMAIN c.target \subseteq RowNumbers(c.file) \ Selected(c)
  BY CommitFindsItsRows
<1>2. /\ \A t \in DOMAIN tx : tx'[t] = tx[t] /\ t \in DOMAIN tx'
      /\ \A k \in Inserted(c) : /\ <<c.file, k>> \in ImportedIds /\ <<c.file, k>> \in DOMAIN tx'
                                /\ tx'[<<c.file, k>>] = Imported(c, k)
  BY CommitAdds
<1>0. r \in RowNumbers(c.file)
  OBVIOUS
<1> HIDE DEF c
<1>3. row \in Row
  BY <1>0, <1>1 DEF RowsHold
<1> HIDE DEF row
<1>4. CASE r \in DOMAIN c.target
  <2>1. c.target[r][1] \in ManualIds
    <3>1. c.target[r] \in row.candidates
      BY <1>1, <1>4 DEF Decided, row
    <3>2. Resembled(c.file, r, row.candidates, tx)
      BY <1>0, <1>1 DEF RowsHold, row
    <3> QED BY <3>1, <3>2 DEF Resembled
  <2>2. done = [row EXCEPT !.tx = c.target[r][1],
                           !.resolution = IF row.match = "AUTO" THEN "AUTO_MERGED"
                                                                ELSE "OWNER_MERGED"]
    BY <1>4 DEF Resolved, row
  <2>3. /\ done \in Row
        /\ done.evidence = row.evidence /\ done.match = row.match
        /\ done.candidates = row.candidates /\ done.tx = c.target[r][1]
        /\ done.resolution \in {"AUTO_MERGED", "OWNER_MERGED"}
    BY <1>3, <2>1, <2>2 DEF Row
  <2> HIDE DEF done
  <2> QED BY <1>1, <1>4, <2>3 DEF IsMerged, MergedResolutions, c, row, done
<1>5. CASE r \notin DOMAIN c.target /\ r \notin Selected(c)
  <2>1. done = [row EXCEPT !.resolution = "SKIPPED_DUPLICATE"]
    BY <1>5 DEF Resolved, row
  <2>2. /\ done \in Row
        /\ done.evidence = row.evidence /\ done.match = row.match
        /\ done.candidates = row.candidates
        /\ done.resolution = "SKIPPED_DUPLICATE"
    BY <1>3, <2>1 DEF Row
  <2> HIDE DEF done
  <2> QED BY <1>5, <2>2 DEF IsMerged, MergedResolutions, c, row, done
<1>6. CASE r \notin DOMAIN c.target /\ r \in Selected(c)
  <2> DEFINE led == IF r \in Inserted(c) THEN <<c.file, r>>
                    ELSE CHOOSE t \in Stored(FingerprintOf(c, r)) : TRUE
             resolution == IF NewlyImported(c, r) THEN "IMPORTED_NEW" ELSE "SKIPPED_DUPLICATE"
  <2>1. done = [row EXCEPT !.tx = led, !.resolution = resolution]
    BY <1>6 DEF Resolved, row
  <2>2. r \notin Inserted(c) =>
           /\ led \in Stored(FingerprintOf(c, r))
           /\ led \in DOMAIN tx /\ tx[led].fingerprint = FingerprintOf(c, r)
    <3>1. r \notin Inserted(c) => Stored(FingerprintOf(c, r)) # {}
      BY <1>6 DEF Inserted
    <3>2. r \notin Inserted(c) => led \in Stored(FingerprintOf(c, r))
      BY <3>1
    <3> HIDE DEF led
    <3> QED BY <3>2 DEF Stored
  <2>3. r \in Inserted(c) => led = <<c.file, r>>
    OBVIOUS
  <2> HIDE DEF led
  <2>4. /\ led \in ManualIds \cup ImportedIds /\ led \in DOMAIN tx'
        /\ tx'[led].fingerprint = FingerprintOf(c, r)
    <3>1. CASE r \in Inserted(c)
      <4>1. Imported(c, r).fingerprint = FingerprintOf(c, r)
        BY DEF Imported
      <4>2. /\ <<c.file, r>> \in ImportedIds /\ <<c.file, r>> \in DOMAIN tx'
            /\ tx'[<<c.file, r>>] = Imported(c, r)
        BY <1>2, <3>1
      <4> QED BY <2>3, <3>1, <4>1, <4>2
    <3>2. CASE r \notin Inserted(c)
      <4>1. led \in DOMAIN tx /\ tx[led].fingerprint = FingerprintOf(c, r)
        BY <2>2, <3>2
      <4>2. DOMAIN tx \subseteq ManualIds \cup ImportedIds
        BY DEF Inv, TypeOK
      <4>3. led \in DOMAIN tx' /\ tx'[led] = tx[led]
        BY <1>2, <4>1
      <4> QED BY <4>1, <4>2, <4>3
    <3> QED BY <3>1, <3>2
  <2>5. /\ done \in Row
        /\ done.evidence = row.evidence /\ done.match = row.match
        /\ done.candidates = row.candidates /\ done.tx = led
        /\ done.resolution = resolution
    BY <1>3, <2>1, <2>4 DEF Row
  <2> HIDE DEF done
  <2> QED BY <1>6, <2>2, <2>3, <2>4, <2>5 DEF IsMerged, MergedResolutions, c, row, done
<1> QED BY <1>4, <1>5, <1>6

(* What becomes of the batch.                                               *)
LEMMA CommitSettles ==
    ASSUME Inv, NEW w \in Workers, Commit(w)
    PROVE  LET c == req[w]
               b == batch[req[w].file]
               settled == batch'[req[w].file]
           IN  /\ DOMAIN batch' = Files
               /\ \A g \in Files \ {c.file} : batch'[g] = batch[g]
               /\ settled \in Batch /\ settled # NoBatch /\ settled.status = "COMMITTED"
               /\ settled.version = b.version + 1 /\ settled.expires = b.expires
               /\ settled.rows = [r \in RowNumbers(c.file) |-> Resolved(c, r)]
<1> DEFINE c == req[w]
           b == batch[c.file]
           rows == [r \in RowNumbers(c.file) |-> Resolved(c, r)]
<1>1. /\ c.file \in Files /\ c.key \in Keys /\ b \in Batch
      /\ DOMAIN b.rows = RowNumbers(c.file)
  BY CommitFindsItsRows DEF RowsHold
<1>2. \A r \in RowNumbers(c.file) : Resolved(c, r) \in Row
  BY CommitResolves
<1>3. DOMAIN batch = Files
  BY DEF Inv, BatchesHold
<1>4. batch' = [batch EXCEPT ![c.file].status = "COMMITTED", ![c.file].key = c.key,
                             ![c.file].version = @ + 1,
                             ![c.file].rows = [r \in DOMAIN @ |-> Resolved(c, r)]]
  BY DEF Commit
<1> HIDE DEF c
<1>5. rows \in Seq(Row)
  <2>1. rows \in [1..Len(RowsOf[c.file]) -> Row] /\ Len(RowsOf[c.file]) \in Nat
    BY <1>1, <1>2, RowsAreItems DEF RowNumbers
  <2> HIDE DEF rows
  <2> QED BY <2>1, SeqDef
<1>6. /\ DOMAIN batch' = Files /\ \A g \in Files \ {c.file} : batch'[g] = batch[g]
      /\ batch'[c.file] = [b EXCEPT !.status = "COMMITTED", !.key = c.key, !.version = @ + 1,
                                    !.rows = [r \in DOMAIN @ |-> Resolved(c, r)]]
  BY <1>1, <1>3, <1>4
<1>7. [r \in DOMAIN b.rows |-> Resolved(c, r)] = rows
  BY <1>1
<1>8. batch'[c.file] = [b EXCEPT !.status = "COMMITTED", !.key = c.key, !.version = @ + 1,
                                 !.rows = rows]
  BY <1>6, <1>7
<1> HIDE DEF rows, b
<1>9. /\ batch'[c.file] \in Batch
      /\ batch'[c.file].status = "COMMITTED" /\ batch'[c.file].version = b.version + 1
      /\ batch'[c.file].expires = b.expires /\ batch'[c.file].rows = rows
  <2>1. /\ DOMAIN b = {"status", "expires", "version", "key", "rows"}
        /\ b.expires \in Nat /\ b.version + 1 \in Nat
    BY <1>1 DEF Batch
  <2>2. LET s == batch'[c.file]
        IN  /\ s = [k \in {"status", "expires", "version", "key", "rows"} |-> s[k]]
            /\ s["status"] = "COMMITTED" /\ s["expires"] = b.expires
            /\ s["version"] = b.version + 1 /\ s["key"] = c.key /\ s["rows"] = rows
    BY <1>8, <2>1
  <2>3. batch'[c.file] = [status |-> "COMMITTED", expires |-> b.expires,
                          version |-> b.version + 1, key |-> c.key, rows |-> rows]
    BY <2>2
  <2> QED BY <1>1, <1>5, <2>1, <2>3 DEF Batch
<1>10. batch'[c.file] # NoBatch
  BY <1>9, BatchAssumption
<1> QED BY <1>6, <1>9, <1>10 DEF rows, b, c

LEMMA CommitMoves ==
    ASSUME Inv, NEW w \in Workers, Commit(w)
    PROVE  /\ now' = now /\ req' = [req EXCEPT ![w] = Idle]
           /\ LedgerMoves(tx, tx')
           /\ \A f \in Files : BatchMoves(batch[f], batch'[f])
<1>1. now' = now /\ req' = [req EXCEPT ![w] = Idle]
  BY DEF Commit
<1>2. LedgerMoves(tx, tx')
  BY CommitAdds DEF LedgerMoves
<1>3. \A f \in Files : BatchMoves(batch[f], batch'[f])
  BY CommitSettles DEF BatchMoves
<1> QED BY <1>1, <1>2, <1>3

LEMMA CommitKeepsTypes ==
    ASSUME Inv, NEW w \in Workers, Commit(w)
    PROVE  TypeOK'
<1> DEFINE c == req[w]
           new == {<<c.file, r>> : r \in Inserted(c)}
<1>1. /\ DOMAIN tx' = DOMAIN tx \cup new
      /\ \A t \in DOMAIN tx : tx'[t] = tx[t]
      /\ \A r \in Inserted(c) : /\ r \in RowNumbers(c.file)
                                /\ <<c.file, r>> \in ImportedIds
                                /\ tx'[<<c.file, r>>] = Imported(c, r)
  BY CommitAdds
<1>2. c.file \in Files
  BY CommitFindsItsRows
<1>3. /\ \A g \in Files \ {c.file} : batch'[g] = batch[g]
      /\ batch'[c.file] \in Batch
      /\ batch'[c.file].rows = [r \in RowNumbers(c.file) |-> Resolved(c, r)]
  BY CommitSettles
<1>4. now' \in 0..MaxTime
  BY CommitMoves DEF Inv, TypeOK
<1> HIDE DEF c
<1>5. ASSUME NEW r \in Inserted(c)
      PROVE  /\ <<c.file, r>> \in ImportedIds
             /\ tx'[<<c.file, r>>] \in Transaction
             /\ tx'[<<c.file, r>>].item = RowsOf[<<c.file, r>>[1]][<<c.file, r>>[2]]
  <2>1. Imported(c, r) \in Transaction
    BY <1>1, <1>2, FingerprintsAreTyped DEF Imported
  <2>2. Imported(c, r).item = RowsOf[c.file][r]
    BY DEF Imported
  <2>3. <<c.file, r>>[1] = c.file /\ <<c.file, r>>[2] = r
    OBVIOUS
  <2> QED BY <1>1, <2>1, <2>2, <2>3
<1>6. ASSUME NEW f \in Files, batch'[f] # NoBatch
      PROVE  batch'[f] \in Batch /\ DOMAIN batch'[f].rows = RowNumbers(f)
  BY <1>3, <1>6 DEF Inv, TypeOK
<1>7. ASSUME NEW t \in DOMAIN tx'
      PROVE  /\ t \in ManualIds \cup ImportedIds
             /\ tx'[t] \in Transaction
             /\ t \in ImportedIds => tx'[t].item = RowsOf[t[1]][t[2]]
  <2>1. CASE t \in DOMAIN tx
    <3>1. /\ t \in ManualIds \cup ImportedIds /\ tx[t] \in Transaction
          /\ t \in ImportedIds => tx[t].item = RowsOf[t[1]][t[2]]
      BY <2>1 DEF Inv, TypeOK
    <3> QED BY <1>1, <2>1, <3>1
  <2>2. CASE t \in new
    <3>1. PICK r \in Inserted(c) : t = <<c.file, r>>
      BY <2>2
    <3> QED BY <1>5, <3>1
  <2> QED BY <1>1, <2>1, <2>2
<1> QED BY <1>4, <1>6, <1>7 DEF TypeOK

LEMMA CommitKeepsBatches ==
    ASSUME Inv, NEW w \in Workers, Commit(w)
    PROVE  BatchesHold'
<1> DEFINE c == req[w]
           b == batch[c.file]
           rows == [r \in RowNumbers(c.file) |-> Resolved(c, r)]
<1>1. /\ c.file \in Files /\ b # NoBatch /\ RowsHold(c.file, b.rows, tx)
  BY CommitFindsItsRows
<1>2. /\ DOMAIN batch' = Files
      /\ \A g \in Files \ {c.file} : batch'[g] = batch[g]
      /\ batch'[c.file] \in Batch
      /\ batch'[c.file].expires = b.expires
      /\ batch'[c.file].rows = rows
  BY CommitSettles
<1>3. \A r \in RowNumbers(c.file) :
         /\ rows[r].evidence = b.rows[r].evidence /\ rows[r].match = b.rows[r].match
         /\ rows[r].candidates = b.rows[r].candidates
  BY CommitResolves
<1> HIDE DEF c
<1>4. DOMAIN rows = RowNumbers(c.file) /\ rows \in Seq(Row)
  BY <1>2 DEF Batch
<1> HIDE DEF rows, b
<1>5. TypeOK /\ LedgerMoves(tx, tx')
  BY CommitMoves DEF Inv
<1>6. RowsHold(c.file, rows, tx)
  BY <1>1, <1>3, <1>4 DEF RowsHold
<1>7. RowsHold(c.file, rows, tx')
  BY <1>5, <1>6, RowsStay
<1>8. b.expires >= Lifetime
  BY <1>1 DEF Inv, BatchesHold, b
<1>9. ASSUME NEW f \in Files \ {c.file}, batch'[f] # NoBatch
      PROVE  RowsHold(f, batch'[f].rows, tx') /\ batch'[f].expires >= Lifetime
  <2>1. RowsHold(f, batch[f].rows, tx) /\ batch[f].expires >= Lifetime
    BY <1>2, <1>9 DEF Inv, BatchesHold
  <2> QED BY <1>2, <1>5, <2>1, RowsStay
<1> QED BY <1>2, <1>7, <1>8, <1>9 DEF BatchesHold

LEMMA CommitKeepsFingerprints ==
    ASSUME Inv, NEW w \in Workers, Commit(w)
    PROVE  FingerprintsDiffer'
<1> DEFINE c == req[w]
           new == {<<c.file, r>> : r \in Inserted(c)}
<1>1. /\ DOMAIN tx' = DOMAIN tx \cup new
      /\ \A t \in DOMAIN tx : tx'[t] = tx[t]
      /\ \A r \in Inserted(c) :
            /\ r \in RowNumbers(c.file)
            /\ tx'[<<c.file, r>>] = Imported(c, r)
            /\ \A t \in DOMAIN tx : tx[t].fingerprint # FingerprintOf(c, r)
  BY CommitAdds
<1>2. c.file \in Files
  BY CommitFindsItsRows
<1> HIDE DEF c
<1>3. ASSUME NEW r \in Inserted(c)
      PROVE  tx'[<<c.file, r>>].fingerprint = FingerprintOf(c, r)
  <2>1. Imported(c, r).fingerprint = FingerprintOf(c, r)
    BY DEF Imported
  <2> QED BY <1>1, <2>1
<1> SUFFICES ASSUME NEW t \in DOMAIN tx', NEW u \in DOMAIN tx',
                    tx'[t].fingerprint = tx'[u].fingerprint, tx'[t].fingerprint # <<>>
             PROVE  t = u
  BY DEF FingerprintsDiffer
<1>4. CASE t \in DOMAIN tx /\ u \in DOMAIN tx
  BY <1>1, <1>4 DEF Inv, FingerprintsDiffer
<1>5. CASE t \in new /\ u \in new
  <2>1. PICK r \in Inserted(c) : t = <<c.file, r>>
    BY <1>5
  <2>2. PICK k \in Inserted(c) : u = <<c.file, k>>
    BY <1>5
  <2>3. FingerprintOf(c, r) = FingerprintOf(c, k)
    BY <1>3, <2>1, <2>2
  <2>4. r \in RowNumbers(c.file) /\ k \in RowNumbers(c.file)
    BY <1>1
  <2>5. r = k
    BY <1>2, <2>3, <2>4, FingerprintsOfRowsDiffer
  <2> QED BY <2>1, <2>2, <2>5
<1>6. ASSUME NEW s \in DOMAIN tx, NEW v \in new
      PROVE  tx'[s].fingerprint # tx'[v].fingerprint
  <2>1. PICK r \in Inserted(c) : v = <<c.file, r>>
    OBVIOUS
  <2> QED BY <1>1, <1>3, <2>1
<1> QED BY <1>1, <1>4, <1>5, <1>6

LEMMA CommitKeepsLeads ==
    ASSUME Inv, NEW w \in Workers, Commit(w)
    PROVE  ValidRowsLead'
<1> DEFINE c == req[w]
<1> SUFFICES ASSUME NEW f \in Files, NEW r \in RowNumbers(f), Committed(f)',
                    batch'[f].rows[r].evidence = "NONE"
             PROVE  /\ batch'[f].rows[r].tx \in DOMAIN tx'
                    /\ tx'[batch'[f].rows[r].tx].fingerprint = Canonical(f, r)
  BY DEF ValidRowsLead
<1>1. CASE f # c.file
  <2>1. batch'[f] = batch[f]
    BY <1>1, CommitSettles
  <2>2. /\ batch[f].rows[r].tx \in DOMAIN tx
        /\ tx[batch[f].rows[r].tx].fingerprint = Canonical(f, r)
    BY <2>1 DEF Inv, ValidRowsLead, Committed
  <2> QED BY <2>1, <2>2, CommitMoves DEF LedgerMoves
<1>2. CASE f = c.file
  <2>1. batch'[f].rows[r] = Resolved(c, r)
    BY <1>2, CommitSettles
  <2>2. batch[f].rows[r].evidence = "NONE"
    BY <1>2, <2>1, CommitResolves
  <2>3. /\ RowsHold(f, batch[f].rows, tx) /\ Decided(c, batch[f].rows)
    BY <1>2, CommitFindsItsRows
  <2>4. r \in Selected(c) /\ r \notin c.new
    BY <2>2, <2>3 DEF RowsHold, Decided, Selected, NeedsDecision
  <2>5. FingerprintOf(c, r) = Canonical(f, r)
    BY <1>2, <2>4 DEF FingerprintOf
  <2>6. /\ Resolved(c, r).tx \in DOMAIN tx'
        /\ tx'[Resolved(c, r).tx].fingerprint = FingerprintOf(c, r)
    BY <1>2, <2>4, CommitResolves
  <2> QED BY <2>1, <2>5, <2>6
<1> QED BY <1>1, <1>2

LEMMA CommitKeepsMerges ==
    ASSUME Inv, NEW w \in Workers, Commit(w)
    PROVE  MergedOnce'
<1> DEFINE c == req[w]
           Merges(f, r) == /\ f \in Files /\ r \in RowNumbers(f) /\ Committed(f)'
                           /\ batch'[f].rows[r].resolution \in {"AUTO_MERGED", "OWNER_MERGED"}
<1>1. ASSUME NEW f, NEW r, Merges(f, r), f # c.file
      PROVE  /\ Committed(f) /\ batch'[f] = batch[f] /\ r \in DOMAIN batch[f].rows
             /\ IsMerged(batch[f].rows[r])
  <2>1. batch'[f] = batch[f]
    BY <1>1, CommitSettles
  <2>2. Committed(f) /\ IsMerged(batch[f].rows[r])
    BY <1>1, <2>1 DEF Committed, IsMerged, MergedResolutions
  <2> QED BY <1>1, <2>1, <2>2 DEF Inv, TypeOK, Committed
<1>2. ASSUME NEW f, NEW r, Merges(f, r), f = c.file
      PROVE  r \in DOMAIN c.target /\ batch'[f].rows[r].tx = c.target[r][1]
  <2>1. batch'[f].rows[r] = Resolved(c, r)
    BY <1>2, CommitSettles
  <2>2. IsMerged(Resolved(c, r))
    BY <1>2, <2>1 DEF IsMerged, MergedResolutions
  <2> QED BY <1>2, <2>1, <2>2, CommitResolves
<1>3. ~ViolatesKeys(c)
  BY CommitFindsItsRows
<1>4. \A r, k \in DOMAIN c.target : c.target[r][1] = c.target[k][1] => r = k
  BY CommitFindsItsRows DEF Decided
<1> SUFFICES ASSUME NEW f, NEW g, NEW r, NEW k, Merges(f, r), Merges(g, k), <<f, r>> # <<g, k>>
             PROVE  batch'[f].rows[r].tx # batch'[g].rows[k].tx
  BY DEF MergedOnce
<1> HIDE DEF Merges, c
<1>5. CASE f # c.file /\ g # c.file
  BY <1>1, <1>5 DEF Inv, MergedOnce, Merges, IsMerged, MergedResolutions
<1>6. CASE f = c.file /\ g = c.file
  BY <1>2, <1>4, <1>6
<1>7. CASE f = c.file /\ g # c.file
  <2>1. r \in DOMAIN c.target /\ batch'[f].rows[r].tx = c.target[r][1]
    BY <1>2, <1>7
  <2>2. /\ g \in Files /\ batch'[g] = batch[g] /\ batch[g] # NoBatch
        /\ k \in DOMAIN batch[g].rows /\ IsMerged(batch[g].rows[k])
    BY <1>1, <1>7 DEF Merges, Committed
  <2> QED BY <1>3, <2>1, <2>2 DEF ViolatesKeys
<1>8. CASE f # c.file /\ g = c.file
  <2>1. k \in DOMAIN c.target /\ batch'[g].rows[k].tx = c.target[k][1]
    BY <1>2, <1>8
  <2>2. /\ f \in Files /\ batch'[f] = batch[f] /\ batch[f] # NoBatch
        /\ r \in DOMAIN batch[f].rows /\ IsMerged(batch[f].rows[r])
    BY <1>1, <1>8 DEF Merges, Committed
  <2> QED BY <1>3, <2>1, <2>2 DEF ViolatesKeys
<1> QED BY <1>5, <1>6, <1>7, <1>8

LEMMA CommitKeeps ==
    ASSUME Inv, NEW w \in Workers, Commit(w)
    PROVE  Inv'
<1>1. RequestsHold'
  BY CommitMoves, IdleHolds, OneRequestMoves
<1> QED BY <1>1, CommitKeepsTypes, CommitKeepsBatches, CommitKeepsFingerprints,
           CommitKeepsLeads, CommitKeepsMerges DEF Inv

-----------------------------------------------------------------------------
(* The invariant holds.                                                    *)

LEMMA InitOK ==
    ASSUME Init
    PROVE  Inv
<1>1. /\ now = 0 /\ batch = [f \in Files |-> NoBatch] /\ req = [w \in Workers |-> Idle]
      /\ DOMAIN tx = {}
  BY DEF Init
<1>2. TypeOK
  BY <1>1, ImportAssumption DEF TypeOK
<1>3. BatchesHold /\ ValidRowsLead /\ MergedOnce /\ FingerprintsDiffer
  BY <1>1 DEF BatchesHold, ValidRowsLead, MergedOnce, FingerprintsDiffer, Committed
<1>4. RequestsHold
  BY <1>1, IdleHolds DEF RequestsHold
<1> QED BY <1>2, <1>3, <1>4 DEF Inv

LEMMA NextKeeps ==
    ASSUME Inv, [Next]_vars
    PROVE  Inv'
<1>1. CASE Tick
  BY <1>1, TickKeeps
<1>2. ASSUME NEW w \in Workers, Upload(w)
      PROVE  Inv'
  BY <1>2, ReadSuspectedKeeps, ReadMatchesKeeps, ReadBatchKeeps, InsertPreviewKeeps,
     ReplacePreviewKeeps DEF Upload
<1>3. ASSUME NEW w \in Workers, CommitRequest(w)
      PROVE  Inv'
  BY <1>3, BeginCommitKeeps, DecideKeeps, CommitKeeps, EndKeeps DEF CommitRequest
<1>4. ASSUME NEW w \in Workers, Abandon(w)
      PROVE  Inv'
  BY <1>4, EndKeeps
<1>5. CASE Owner
  BY <1>5, RecordKeeps, ReviseKeeps, DeleteKeeps DEF Owner
<1>6. CASE UNCHANGED vars
  <2>1. LedgerMoves(tx, tx') /\ UNCHANGED <<now, batch, req>>
    BY <1>6, StillMoves DEF vars
  <2>2. TypeOK' /\ FingerprintsDiffer'
    BY <1>6 DEF vars, Inv, TypeOK, FingerprintsDiffer
  <2> QED BY <2>1, <2>2, LedgerKeeps
<1> QED BY <1>1, <1>2, <1>3, <1>4, <1>5, <1>6 DEF Next

(* What is in the tables and in the memory of every invocation is           *)
(* consistent: candidates have resembled their rows at the version they     *)
(* were staged with, decisions are those of the rows they name the version  *)
(* of, fingerprints are unique, and no transaction is merged twice          *)
(* (packages/persistence/src/csv-imports.ts, preview and commit).           *)
THEOREM EvidenceKept == Spec => []Inv
BY InitOK, NextKeeps, PTL DEF Spec

-----------------------------------------------------------------------------
(* The properties.                                                         *)

(* A row is counted once, for any files and rows and any interleaving of    *)
(* uploads, commits and edits (packages/persistence/src/csv-imports.ts,     *)
(* preview and commit).                                                     *)
THEOREM CountedOnce == Spec => []RowsCountedOnce
<1>1. Inv => ValidRowsImportedOnce
  <2> SUFFICES ASSUME Inv, NEW f \in Files, NEW g \in Files,
                      NEW r \in RowNumbers(f), NEW k \in RowNumbers(g),
                      Committed(f), Committed(g),
                      batch[f].rows[r].evidence = "NONE", batch[g].rows[k].evidence = "NONE",
                      RowsOf[f][r] = RowsOf[g][k], Occurrence(f, r) = Occurrence(g, k)
               PROVE  batch[f].rows[r].tx = batch[g].rows[k].tx
    BY DEF ValidRowsImportedOnce
  <2> DEFINE t == batch[f].rows[r].tx
             u == batch[g].rows[k].tx
  <2>1. /\ t \in DOMAIN tx /\ tx[t].fingerprint = Canonical(f, r)
        /\ u \in DOMAIN tx /\ tx[u].fingerprint = Canonical(g, k)
    BY DEF Inv, ValidRowsLead
  <2>2. Canonical(f, r) = Canonical(g, k) /\ Canonical(f, r) # <<>>
    BY DEF Canonical
  <2> QED BY <2>1, <2>2 DEF Inv, FingerprintsDiffer
<1>2. Inv => RowsCountedOnce
  BY <1>1 DEF Inv, RowsCountedOnce
<1> QED BY <1>2, EvidenceKept, PTL

(* What a step does to the batches: nothing, a new preview of one file, or  *)
(* a commit.                                                                *)
LedgerStep ==
    /\ batch' = batch
    /\ DOMAIN tx \subseteq DOMAIN tx'
    /\ DOMAIN tx' \cap ImportedIds \subseteq DOMAIN tx

PreviewStep(f) ==
    /\ UNCHANGED <<now, tx>>
    /\ batch[f] # NoBatch => now >= Lifetime
    /\ batch'[f] # NoBatch /\ batch'[f].status = "PREVIEWED"
    /\ \A r \in RowNumbers(f) : ~IsMerged(batch'[f].rows[r])
    /\ \A g \in Files \ {f} : batch'[g] = batch[g]

LEMMA InsertPreviewSteps ==
    ASSUME Inv, NEW w \in Workers, InsertPreview(w)
    PROVE  LedgerStep \/ \E f \in Files : PreviewStep(f)
<1> DEFINE q == req[w]
<1>1. q.pc = "insert" /\ RequestHolds(q, batch, tx, now) /\ q # Idle
  BY DEF InsertPreview, Inv, RequestsHold, Idle
<1>2. /\ q.file \in Files /\ q.at \in 0..now /\ RowsHold(q.file, q.rows, tx)
      /\ \A r \in RowNumbers(q.file) : ~IsMerged(q.rows[r])
  BY <1>1 DEF RequestHolds
<1>3. CASE batch[q.file] # NoBatch
  BY <1>3 DEF InsertPreview, LedgerStep
<1>4. CASE batch[q.file] = NoBatch
  <2>1. /\ Preview(q, NoKey, 1) \in Batch /\ Preview(q, NoKey, 1).status = "PREVIEWED"
        /\ Preview(q, NoKey, 1).rows = q.rows
    BY <1>2, PreviewsAreTyped DEF Inv
  <2>2. /\ batch'[q.file] = Preview(q, NoKey, 1) /\ UNCHANGED <<now, tx>>
        /\ \A g \in Files \ {q.file} : batch'[g] = batch[g]
    BY <1>2, <1>4 DEF InsertPreview, Inv, BatchesHold
  <2>3. PreviewStep(q.file)
    BY <1>2, <1>4, <2>1, <2>2, BatchAssumption DEF PreviewStep
  <2> QED BY <1>2, <2>3
<1> QED BY <1>3, <1>4

LEMMA ReplacePreviewSteps ==
    ASSUME Inv, NEW w \in Workers, ReplacePreview(w)
    PROVE  \E f \in Files : PreviewStep(f)
<1> DEFINE q == req[w]
           b == batch[q.file]
           p == Preview(q, b.key, b.version + 1)
<1>1. q.pc = "replace" /\ RequestHolds(q, batch, tx, now) /\ q # Idle
  BY DEF ReplacePreview, Inv, RequestsHold, Idle
<1>2. /\ q.file \in Files /\ q.at \in 0..now /\ RowsHold(q.file, q.rows, tx)
      /\ \A r \in RowNumbers(q.file) : ~IsMerged(q.rows[r])
      /\ b # NoBatch /\ now >= Lifetime
  BY <1>1 DEF RequestHolds
<1>3. b.key \in Keys \cup {NoKey} /\ b.version + 1 \in Nat
  BY <1>2 DEF Inv, TypeOK, Batch
<1>4. p \in Batch /\ p.status = "PREVIEWED" /\ p.rows = q.rows
  BY <1>2, <1>3, PreviewsAreTyped DEF Inv
<1>5. /\ batch'[q.file] = p /\ UNCHANGED <<now, tx>>
      /\ \A g \in Files \ {q.file} : batch'[g] = batch[g]
  BY <1>2 DEF ReplacePreview, Inv, BatchesHold
<1> HIDE DEF p
<1>6. PreviewStep(q.file)
  BY <1>2, <1>4, <1>5, BatchAssumption DEF PreviewStep
<1> QED BY <1>2, <1>6

LEMMA OwnerSteps ==
    ASSUME Owner
    PROVE  LedgerStep
<1>1. CASE \E item \in Items : Record(item)
  <2> DEFINE n == Cardinality(DOMAIN tx \cap ManualIds) + 1
  <2>1. batch' = batch /\ DOMAIN tx' = DOMAIN tx \cup {<<NoFile, n>>}
    BY <1>1 DEF Record
  <2> HIDE DEF n
  <2>2. <<NoFile, n>> \notin ImportedIds
    BY ImportedIdsAre, ImportAssumption
  <2> QED BY <2>1, <2>2 DEF LedgerStep
<1>2. CASE \E t \in ManualIds : Delete(t) \/ \E item \in Items : Revise(t, item)
  <2>1. batch' = batch /\ DOMAIN tx' = DOMAIN tx
    BY <1>2 DEF Delete, Revise
  <2> QED BY <2>1 DEF LedgerStep
<1> QED BY <1>1, <1>2 DEF Owner

LEMMA StepsAre ==
    ASSUME Inv, [Next]_vars
    PROVE  \/ LedgerStep
           \/ \E f \in Files : PreviewStep(f)
           \/ \E w \in Workers : Commit(w)
<1>1. CASE Tick \/ UNCHANGED vars
  BY <1>1 DEF Tick, vars, LedgerStep
<1>2. ASSUME NEW w \in Workers, Upload(w)
      PROVE  LedgerStep \/ \E f \in Files : PreviewStep(f)
  <2>1. CASE \E f \in Files : ReadSuspected(w, f) \/ ReadMatches(w, f)
    BY <2>1 DEF ReadSuspected, ReadMatches, LedgerStep
  <2>2. CASE ReadBatch(w)
    BY <2>2 DEF ReadBatch, LedgerStep
  <2> QED BY <1>2, <2>1, <2>2, InsertPreviewSteps, ReplacePreviewSteps DEF Upload
<1>3. ASSUME NEW w \in Workers, CommitRequest(w) \/ Abandon(w), ~Commit(w)
      PROVE  LedgerStep
  <2>1. UNCHANGED <<batch, tx>>
    BY <1>3 DEF CommitRequest, Abandon, BeginCommit, Decide, CommitRefused
  <2> QED BY <2>1 DEF LedgerStep
<1> QED BY <1>1, <1>2, <1>3, OwnerSteps DEF Next

(* No step of any invocation merges a row into a transaction that is gone   *)
(* or no longer resembles it (packages/persistence/src/csv-imports.ts,      *)
(* commit): a candidate at its staged version is still what was matched.    *)
THEOREM MergesFit == Spec => MergesMatch
<1>1. ASSUME Inv, [Next]_vars
      PROVE  MergeMatches
  <2> SUFFICES ASSUME NEW f \in Files, NEW r \in RowNumbers(f),
                      batch'[f] # NoBatch, IsMerged(batch'[f].rows[r]),
                      batch[f] = NoBatch \/ ~IsMerged(batch[f].rows[r])
               PROVE  IsNear(f, r, batch'[f].rows[r].tx)
    BY DEF MergeMatches
  <2>1. ~LedgerStep /\ ~\E g \in Files : PreviewStep(g)
    BY DEF LedgerStep, PreviewStep
  <2>2. PICK w \in Workers : Commit(w)
    BY <1>1, <2>1, StepsAre
  <2> DEFINE c == req[w]
             b == batch[c.file]
  <2>3. f = c.file /\ batch'[f].rows[r] = Resolved(c, r)
    <3>1. /\ \A g \in Files \ {c.file} : batch'[g] = batch[g]
          /\ batch'[c.file].rows = [k \in RowNumbers(c.file) |-> Resolved(c, k)]
      BY <1>1, <2>2, CommitSettles
    <3>2. f = c.file
      BY <3>1
    <3> QED BY <3>1, <3>2
  <2>4. /\ TargetsUnchanged(c) /\ RowsHold(c.file, b.rows, tx)
    BY <1>1, <2>2, CommitFindsItsRows
  <2>5. r \in DOMAIN c.target /\ batch'[f].rows[r].tx = c.target[r][1]
    BY <1>1, <2>2, <2>3, CommitResolves
  <2>6. /\ IsPosted(c.target[r][1])
        /\ tx[c.target[r][1]].version = c.target[r][2]
        /\ c.target[r] \in b.rows[r].candidates
    BY <2>4, <2>5 DEF TargetsUnchanged
  <2>7. Resembled(f, r, b.rows[r].candidates, tx)
    BY <2>3, <2>4 DEF RowsHold
  <2>8. <<RowsOf[f][r], tx[c.target[r][1]].item>> \in Near
    BY <2>6, <2>7 DEF Resembled
  <2> QED BY <2>5, <2>6, <2>8 DEF IsNear
<1> QED BY <1>1, EvidenceKept, PTL DEF MergesMatch, Spec

(* A step before any preview can have expired leaves committed batches.     *)
LEMMA EarlyStepsAreFinal ==
    ASSUME Inv, [Next]_vars, now < Lifetime
    PROVE  CommittedStays
<1> SUFFICES ASSUME NEW f \in Files, Committed(f)
             PROVE  batch'[f] = batch[f]
  BY DEF CommittedStays
<1>1. CASE LedgerStep
  BY <1>1 DEF LedgerStep
<1>2. ASSUME NEW g \in Files, PreviewStep(g)
      PROVE  batch'[f] = batch[f]
  <2>1. now \in Nat /\ Lifetime \in Nat
    BY ImportAssumption DEF Inv, TypeOK
  <2>2. f # g
    BY <1>2, <2>1 DEF PreviewStep, Committed
  <2> QED BY <1>2, <2>2 DEF PreviewStep
<1>3. ASSUME NEW w \in Workers, Commit(w)
      PROVE  batch'[f] = batch[f]
  <2>1. batch[req[w].file].status = "PREVIEWED"
    BY <1>3, CommitFindsItsRows
  <2>2. f # req[w].file
    BY <2>1 DEF Committed
  <2> QED BY <1>3, <2>2, CommitSettles
<1> QED BY <1>1, <1>2, <1>3, StepsAre

(* Until a preview can have expired, nothing changes a committed batch      *)
(* (packages/persistence/src/csv-imports.ts, stagePreview).                 *)
THEOREM FinalWhileFresh == Spec => FinalBeforeExpiry
<1>1. Inv /\ [Next]_vars => [now < Lifetime => CommittedStays]_vars
  BY EarlyStepsAreFinal
<1> QED BY <1>1, EvidenceKept, PTL DEF FinalBeforeExpiry, Spec

(* The only step that ever changes a committed batch is the refresh of an   *)
(* expired preview, decided before the commit (packages/persistence/src/    *)
(* csv-imports.ts, the replacing statements of stagePreview).               *)
THEOREM OnlyRefreshesReopen ==
    Spec => [][CommittedStays \/ \E w \in Workers : ReplacePreview(w)]_vars
<1>1. ASSUME Inv, [Next]_vars, ~\E w \in Workers : ReplacePreview(w),
             NEW f \in Files, Committed(f)
      PROVE  batch'[f] = batch[f]
  <2>1. CASE Tick \/ UNCHANGED vars \/ Owner
    BY <2>1, OwnerSteps DEF Tick, vars, LedgerStep
  <2>2. ASSUME NEW w \in Workers, Upload(w)
        PROVE  batch'[f] = batch[f]
    <3>1. CASE InsertPreview(w)
      BY <1>1, <3>1 DEF InsertPreview, Committed, Inv, BatchesHold
    <3>2. CASE ~InsertPreview(w)
      BY <1>1, <2>2, <3>2 DEF Upload, ReadSuspected, ReadMatches, ReadBatch
    <3> QED BY <3>1, <3>2
  <2>3. ASSUME NEW w \in Workers, CommitRequest(w) \/ Abandon(w)
        PROVE  batch'[f] = batch[f]
    <3>1. CASE Commit(w)
      <4>1. f # req[w].file
        BY <1>1, <3>1, CommitFindsItsRows DEF Committed
      <4> QED BY <1>1, <3>1, <4>1, CommitSettles
    <3>2. CASE ~Commit(w)
      BY <2>3, <3>2 DEF CommitRequest, Abandon, BeginCommit, Decide, CommitRefused
    <3> QED BY <3>1, <3>2
  <2> QED BY <1>1, <2>1, <2>2, <2>3 DEF Next
<1>2. Inv /\ [Next]_vars => CommittedStays \/ \E w \in Workers : ReplacePreview(w)
  BY <1>1 DEF CommittedStays
<1> QED BY <1>2, EvidenceKept, PTL DEF Spec

(* A step that leaves committed batches keeps imports and rows in step.     *)
LEMMA FinalStepsKeepImports ==
    ASSUME Inv, [Next]_vars, CommittedStays, ImportsAreRows
    PROVE  ImportsAreRows'
<1>1. CASE LedgerStep
  BY <1>1 DEF LedgerStep, ImportsAreRows, Committed
<1>2. ASSUME NEW g \in Files, PreviewStep(g)
      PROVE  ImportsAreRows'
  <2>1. \A f \in Files : Committed(f) <=> f # g /\ Committed(f)'
    BY <1>2 DEF PreviewStep, CommittedStays, Committed
  <2>2. /\ \A f \in Files : Committed(f)' => f # g
        /\ \A f \in Files \ {g} : batch'[f] = batch[f]
        /\ tx' = tx
    BY <1>2 DEF PreviewStep, Committed
  <2>3. \A t \in ImportedIds : t[1] \in Files
    BY ImportedIdsAre
  <2> QED BY <2>1, <2>2, <2>3 DEF ImportsAreRows
<1>3. ASSUME NEW w \in Workers, Commit(w)
      PROVE  ImportsAreRows'
  <2> DEFINE c == req[w]
             new == {<<c.file, r>> : r \in Inserted(c)}
  <2>1. /\ DOMAIN tx' = DOMAIN tx \cup new
        /\ \A r \in Inserted(c) : r \in RowNumbers(c.file) /\ <<c.file, r>> \in DOMAIN tx'
    BY <1>3, CommitAdds
  <2>2. /\ c.file \in Files /\ batch[c.file].status = "PREVIEWED"
        /\ Selected(c) \subseteq RowNumbers(c.file)
    BY <1>3, CommitFindsItsRows
  <2>3. /\ \A g \in Files \ {c.file} : batch'[g] = batch[g]
        /\ batch'[c.file] # NoBatch /\ batch'[c.file].status = "COMMITTED"
        /\ \A r \in RowNumbers(c.file) : batch'[c.file].rows[r] = Resolved(c, r)
    <3>1. /\ \A g \in Files \ {c.file} : batch'[g] = batch[g]
          /\ batch'[c.file] # NoBatch /\ batch'[c.file].status = "COMMITTED"
          /\ batch'[c.file].rows = [r \in RowNumbers(c.file) |-> Resolved(c, r)]
      BY <1>3, CommitSettles
    <3> HIDE DEF c
    <3> QED BY <3>1
  <2>4. ASSUME NEW r \in RowNumbers(c.file)
        PROVE  /\ Resolved(c, r).resolution = "IMPORTED_NEW" <=>
                     r \in Selected(c) /\ NewlyImported(c, r)
               /\ r \in Selected(c) /\ r \in Inserted(c) => Resolved(c, r).tx = <<c.file, r>>
               /\ r \in Selected(c) /\ r \notin Inserted(c) =>
                     /\ Resolved(c, r).tx \in DOMAIN tx
                     /\ Resolved(c, r).tx \in Stored(FingerprintOf(c, r))
    BY <1>3, CommitResolves
  <2> HIDE DEF c
  <2>5. ASSUME NEW t \in DOMAIN tx' \cap ImportedIds
        PROVE  Committed(t[1])' /\ batch'[t[1]].rows[t[2]].resolution = "IMPORTED_NEW"
    <3>1. CASE t \in DOMAIN tx
      <4>1. Committed(t[1]) /\ batch[t[1]].rows[t[2]].resolution = "IMPORTED_NEW"
        BY <3>1 DEF ImportsAreRows
      <4>2. t[1] \in Files \ {c.file}
        BY <2>2, <4>1, ImportedIdsAre DEF Committed
      <4> QED BY <2>3, <4>1, <4>2 DEF Committed
    <3>2. CASE t \in new
      <4>1. PICK r \in Inserted(c) : t = <<c.file, r>>
        BY <3>2
      <4>2. r \in Selected(c) /\ NewlyImported(c, r) /\ r \in RowNumbers(c.file)
        BY <2>1, <4>1 DEF Inserted, NewlyImported
      <4>3. t[1] = c.file /\ t[2] = r
        BY <4>1
      <4>4. batch'[c.file].rows[r].resolution = "IMPORTED_NEW"
        BY <2>3, <2>4, <4>2
      <4>5. Committed(t[1])'
        BY <2>3, <4>3 DEF Committed
      <4> QED BY <4>3, <4>4, <4>5
    <3> QED BY <2>1, <3>1, <3>2
  <2>6. ASSUME NEW f \in Files, NEW r \in RowNumbers(f), Committed(f)',
               batch'[f].rows[r].resolution = "IMPORTED_NEW"
        PROVE  batch'[f].rows[r].tx = <<f, r>> /\ <<f, r>> \in DOMAIN tx'
    <3>1. CASE f # c.file
      <4>1. batch'[f] = batch[f]
        BY <2>3, <3>1
      <4>2. batch[f].rows[r].tx = <<f, r>> /\ <<f, r>> \in DOMAIN tx
        BY <2>6, <4>1 DEF ImportsAreRows, Committed
      <4> QED BY <2>1, <4>1, <4>2
    <3>2. CASE f = c.file
      <4>1. r \in Selected(c) /\ NewlyImported(c, r)
        BY <2>3, <2>4, <2>6, <3>2
      <4>2. CASE r \in Inserted(c)
        BY <2>1, <2>3, <2>4, <3>2, <4>1, <4>2
      <4>3. CASE r \notin Inserted(c)
        <5>1. Stored(FingerprintOf(c, r)) = {<<c.file, r>>}
          BY <4>1, <4>3 DEF NewlyImported
        <5> QED BY <2>1, <2>3, <2>4, <3>2, <4>1, <4>3, <5>1
      <4> QED BY <4>2, <4>3
    <3> QED BY <3>1, <3>2
  <2> QED BY <2>5, <2>6 DEF ImportsAreRows
<1> QED BY <1>1, <1>2, <1>3, StepsAre

LEMMA InitImports == Init => ImportsAreRows
BY DEF Init, ImportsAreRows, Committed

(* Until a preview can have expired, the imported transactions are exactly  *)
(* the rows that batches record as imported (packages/persistence/src/      *)
(* csv-imports.ts, commit).                                                 *)
THEOREM ImportsKept == Spec => []ImportsKeepTheirRows
<1>1. Init => ImportsKeepTheirRows
  BY InitImports DEF ImportsKeepTheirRows
<1>2. Inv /\ ImportsKeepTheirRows /\ [Next]_vars => ImportsKeepTheirRows'
  <2> SUFFICES ASSUME Inv, ImportsKeepTheirRows, [Next]_vars, now' < Lifetime
               PROVE  ImportsAreRows'
    BY DEF ImportsKeepTheirRows
  <2>1. now < Lifetime
    <3>1. now' = now \/ now' = now + 1
      BY DEF Next, vars, Tick, Upload, ReadSuspected, ReadMatches, ReadBatch, InsertPreview,
         ReplacePreview, CommitRequest, BeginCommit, Decide, Commit, CommitRefused, Abandon,
         Owner, Record, Revise, Delete
    <3>2. now \in Nat /\ Lifetime \in Nat
      BY ImportAssumption DEF Inv, TypeOK
    <3> QED BY <3>1, <3>2
  <2> QED BY <2>1, EarlyStepsAreFinal, FinalStepsKeepImports DEF ImportsKeepTheirRows
<1> QED BY <1>1, <1>2, EvidenceKept, PTL DEF Spec

(* Later only the loss of a committed batch can break that: as long as no   *)
(* step changes a committed batch (which run import_expiry shows a late     *)
(* preview doing), imports and rows stay in step for good.                  *)
THEOREM OnlyLostFinalityBreaksImports == Spec /\ CommittedIsFinal => []ImportsAreRows
<1>1. Inv /\ ImportsAreRows /\ [Next]_vars /\ [CommittedStays]_vars => ImportsAreRows'
  <2>1. CASE CommittedStays
    BY <2>1, FinalStepsKeepImports
  <2>2. CASE UNCHANGED vars
    BY <2>2 DEF vars, ImportsAreRows, Committed
  <2> QED BY <2>1, <2>2
<1> QED BY <1>1, InitImports, EvidenceKept, PTL DEF Spec, CommittedIsFinal
=============================================================================
