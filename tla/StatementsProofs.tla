-------------------------- MODULE StatementsProofs --------------------------
(***************************************************************************)
(* What holds of a preview for every statement, ledger, list of active     *)
(* categories and number of candidates, whatever others change while its   *)
(* three reads run ("pairs" and "triples", CsvPreview).  What the two      *)
(* instances share is stated with the operators of the first.              *)
(***************************************************************************)
EXTENDS MCStatements, TLAPS, FiniteSetTheorems

IsStatement(s) ==
    /\ DOMAIN s.lines = 1..Len(s.lines) /\ Len(s.lines) \in Nat
    /\ \A n \in DOMAIN s.lines : s.lines[n].day \in Nat

(* What the assumptions say.                                               *)
LEMMA SameFiniteness ==
  /\ \A S : PairPreview!Cardinality(S) = Cardinality(S)
  /\ \A S : TriplePreview!Cardinality(S) = Cardinality(S)
  /\ \A S : PairPreview!IsFiniteSet(S) = IsFiniteSet(S)
BY DEF Cardinality, PairPreview!Cardinality, TriplePreview!Cardinality, IsFiniteSet, PairPreview!IsFiniteSet

LEMMA LedgerFits ==
  /\ Candidates \in Nat \ {0} /\ MaxChanges \in Nat
  /\ DOMAIN Ledger \subseteq Nat /\ IsFiniteSet(DOMAIN Ledger)
  /\ \A id \in DOMAIN Ledger : Ledger[id].day \in Nat
BY PreviewsAssumption, SameFiniteness DEF PairPreview!PreviewAssumption, PairPreview!Ids

LEMMA StatementsFit ==
  \A s \in PairStatements \cup TripleStatements : IsStatement(s)
<1> SUFFICES ASSUME NEW s \in PairStatements \cup TripleStatements
             PROVE  IsStatement(s)
  OBVIOUS
<1>1. /\ s.lines \in Seq({s.lines[n] : n \in DOMAIN s.lines})
      /\ \A n \in DOMAIN s.lines : s.lines[n].day \in Nat
  BY PreviewsAssumption DEF PairPreview!PreviewAssumption, TriplePreview!PreviewAssumption
<1>2. PICK S : s.lines \in Seq(S)
  BY <1>1
<1>. QED
  BY <1>1, <1>2 DEF IsStatement

LEMMA RawDay ==
  ASSUME NEW s, IsStatement(s), NEW n \in DOMAIN s.lines
  PROVE  PairPreview!Raw(s, s.lines[n]).day \in Nat
<1>1. PICK line : line = s.lines[n] /\ line.day \in Nat
  BY DEF IsStatement
<1>2. PairPreview!ReadMapped(line).day \in Nat
  BY <1>1 DEF PairPreview!ReadMapped, PairPreview!Empty
<1>3. PairPreview!ReadRbc(line).day \in Nat
  BY <1>1 DEF PairPreview!ReadRbc, PairPreview!Empty
<1>4. PairPreview!Empty.day \in Nat
  BY DEF PairPreview!Empty
<1>. QED
  BY <1>1, <1>2, <1>3, <1>4 DEF PairPreview!Raw

-----------------------------------------------------------------------------
(* The parsed rows.                                                        *)

IsRow(row) ==
    row = [raw |-> row.raw, errors |-> row.errors, number |-> row.number, status |-> row.status,
           fingerprint |-> row.fingerprint, evidence |-> row.evidence, match |-> row.match]

ParsedFits(row, s, n) ==
    /\ IsRow(row) /\ row.raw = PairPreview!Raw(s, s.lines[n]) /\ row.number = n + 1 /\ row.match = <<>>
    /\ row.errors = PairPreview!RowErrors(s, s.lines[n])
    /\ row.errors # {} =>
          row.status = "INVALID" /\ row.fingerprint = <<>> /\ row.evidence = PairPreview!None
    /\ row.errors = {} =>
          /\ row.fingerprint = <<PairPreview!Key(row.raw), PairPreview!Ordinal(s, n)>>
          /\ IF PairPreview!Ordinal(s, n) > 1
             THEN row.status = "DUPLICATE" /\ row.evidence = "SUSPECTED_SAME_FILE"
             ELSE row.status = "VALID" /\ row.evidence = PairPreview!None

LEMMA RowsAreParsed ==
  ASSUME NEW s
  PROVE  /\ DOMAIN PairPreview!Parsed(s) = DOMAIN s.lines
         /\ \A n \in DOMAIN s.lines : ParsedFits(PairPreview!Parsed(s)[n], s, n)
<1>1. DOMAIN PairPreview!Parsed(s) = DOMAIN s.lines
  BY DEF PairPreview!Parsed
<1>2. ASSUME NEW n \in DOMAIN s.lines
      PROVE  ParsedFits(PairPreview!Parsed(s)[n], s, n)
  <2>1. PICK raw, errors, ordinal :
          /\ raw = PairPreview!Raw(s, s.lines[n]) /\ errors = PairPreview!RowErrors(s, s.lines[n])
          /\ ordinal = PairPreview!Ordinal(s, n)
    OBVIOUS
  <2>2. PICK row : row = PairPreview!Parsed(s)[n]
    OBVIOUS
  <2>3. row = IF errors # {}
              THEN [raw |-> raw, errors |-> errors, number |-> n + 1, status |-> "INVALID",
                    fingerprint |-> <<>>, evidence |-> PairPreview!None, match |-> <<>>]
              ELSE [raw |-> raw, errors |-> {}, number |-> n + 1,
                    status |-> IF ordinal > 1 THEN "DUPLICATE" ELSE "VALID",
                    fingerprint |-> <<PairPreview!Key(raw), ordinal>>,
                    evidence |-> IF ordinal > 1 THEN "SUSPECTED_SAME_FILE" ELSE PairPreview!None,
                    match |-> <<>>]
    BY <2>1, <2>2 DEF PairPreview!Parsed, PairPreview!ParsedRow, PairPreview!Invalid
  <2>4. CASE errors # {}
    BY <2>1, <2>2, <2>3, <2>4 DEF ParsedFits, IsRow
  <2>5. CASE errors = {}
    <3>1. CASE ordinal > 1
      BY <2>1, <2>2, <2>3, <2>5, <3>1 DEF ParsedFits, IsRow
    <3>2. CASE ~(ordinal > 1)
      BY <2>1, <2>2, <2>3, <2>5, <3>2 DEF ParsedFits, IsRow
    <3>. QED
      BY <3>1, <3>2
  <2>. QED
    BY <2>2, <2>4, <2>5
<1>. QED
  BY <1>1, <1>2

(* Of two equal rows the later one has the higher ordinal.                 *)
LEMMA OrdinalsGrow ==
  ASSUME NEW s, IsStatement(s), NEW n \in DOMAIN s.lines,
         PairPreview!RowErrors(s, s.lines[n]) = {}
  PROVE  /\ PairPreview!Ordinal(s, n) \in Nat \ {0}
         /\ \A m \in DOMAIN s.lines :
              /\ m < n /\ PairPreview!RowErrors(s, s.lines[m]) = {}
              /\ PairPreview!Key(PairPreview!Raw(s, s.lines[m])) = PairPreview!Key(PairPreview!Raw(s, s.lines[n]))
              => /\ PairPreview!Ordinal(s, m) \in Nat \ {0}
                 /\ PairPreview!Ordinal(s, m) < PairPreview!Ordinal(s, n)
<1> DEFINE Equal(k) == {m \in 1..k : /\ PairPreview!RowErrors(s, s.lines[m]) = {}
                                     /\ PairPreview!Key(PairPreview!Raw(s, s.lines[m]))
                                           = PairPreview!Key(PairPreview!Raw(s, s.lines[k]))}
<1>1. ASSUME NEW k \in DOMAIN s.lines, PairPreview!RowErrors(s, s.lines[k]) = {}
      PROVE  /\ IsFiniteSet(Equal(k)) /\ k \in Equal(k)
             /\ PairPreview!Ordinal(s, k) = Cardinality(Equal(k)) /\ Cardinality(Equal(k)) \in Nat \ {0}
  <2>1. k \in Nat /\ k \in 1..k
    BY DEF IsStatement
  <2>2. IsFiniteSet(1..k)
    BY <2>1, FS_Interval
  <2>3. IsFiniteSet(Equal(k)) /\ k \in Equal(k)
    BY <1>1, <2>1, <2>2, FS_Subset
  <2>4. PairPreview!Ordinal(s, k) = Cardinality(Equal(k))
    BY SameFiniteness DEF PairPreview!Ordinal
  <2>5. Cardinality(Equal(k)) \in Nat /\ Cardinality(Equal(k)) # 0
    <3> HIDE DEF Equal
    <3>. QED
      BY <2>3, FS_CardinalityType, FS_EmptySet
  <2>. QED
    BY <2>3, <2>4, <2>5
<1>2. ASSUME NEW m \in DOMAIN s.lines, m < n, PairPreview!RowErrors(s, s.lines[m]) = {},
             PairPreview!Key(PairPreview!Raw(s, s.lines[m])) = PairPreview!Key(PairPreview!Raw(s, s.lines[n]))
      PROVE  Cardinality(Equal(m)) < Cardinality(Equal(n))
  <2>1. Equal(m) \subseteq Equal(n) /\ n \notin Equal(m) /\ n \in Equal(n)
    BY <1>1, <1>2 DEF IsStatement
  <2>2. Cardinality(Equal(m)) \in Nat /\ Cardinality(Equal(n)) \in Nat /\ IsFiniteSet(Equal(n))
    BY <1>1, <1>2
  <2> HIDE DEF Equal
  <2>3. Equal(m) # Equal(n)
    BY <2>1
  <2>4. /\ Cardinality(Equal(m)) <= Cardinality(Equal(n))
        /\ Cardinality(Equal(m)) = Cardinality(Equal(n)) => Equal(m) = Equal(n)
    BY <2>1, <2>2, FS_Subset
  <2>. QED
    BY <2>2, <2>3, <2>4
<1> HIDE DEF Equal
<1>. QED
  BY <1>1, <1>2

-----------------------------------------------------------------------------
(* The marked rows.                                                        *)

MarkedFits(row, old, keys, matches, n) ==
    /\ row.number = old.number /\ row.raw = old.raw
    /\ row.status \in {"VALID", "INVALID", "DUPLICATE"}
    /\ row.status = "DUPLICATE" <=> row.evidence # PairPreview!None
    /\ row.status = "INVALID" <=> row.errors # {}
    /\ row.status = "INVALID" => row.fingerprint = <<>>
    /\ row.status # "INVALID" => old.status # "INVALID" /\ row.fingerprint = old.fingerprint
    /\ row.status = "VALID" => old.status = "VALID" /\ PairPreview!Key(row.raw) \notin keys
    /\ row.match # <<>> =>
          /\ n \in DOMAIN matches /\ row.match = <<matches[n]>> /\ row.status = "DUPLICATE"

LEMMA RowsAreMarked ==
  ASSUME NEW s, NEW references, NEW keys, NEW matches, NEW rows,
         rows = PairPreview!WithMatches(PairPreview!WithSuspects(
                  PairPreview!WithReferences(PairPreview!Parsed(s), references), keys), matches)
  PROVE  /\ DOMAIN rows = DOMAIN s.lines
         /\ \A n \in DOMAIN s.lines :
               MarkedFits(rows[n], PairPreview!Parsed(s)[n], keys, matches, n)
<1>1. PICK parsed : parsed = PairPreview!Parsed(s)
  OBVIOUS
<1>2. PICK named : named = PairPreview!WithReferences(parsed, references)
  OBVIOUS
<1>3. PICK suspected : suspected = PairPreview!WithSuspects(named, keys)
  OBVIOUS
<1>4. rows = PairPreview!WithMatches(suspected, matches)
  BY <1>1, <1>2, <1>3
<1>5. DOMAIN parsed = DOMAIN s.lines /\ \A n \in DOMAIN s.lines : ParsedFits(parsed[n], s, n)
  BY <1>1, RowsAreParsed
<1>6. DOMAIN named = DOMAIN s.lines /\ DOMAIN suspected = DOMAIN s.lines /\ DOMAIN rows = DOMAIN s.lines
  BY <1>2, <1>3, <1>4, <1>5 DEF PairPreview!WithReferences, PairPreview!WithSuspects, PairPreview!WithMatches
<1>7. ASSUME NEW n \in DOMAIN s.lines
      PROVE  MarkedFits(rows[n], parsed[n], keys, matches, n)
  <2>1. PICK old : old = parsed[n] /\ ParsedFits(old, s, n)
    BY <1>5
  <2>2. PICK one : one = named[n]
    OBVIOUS
  <2>3. PICK two : two = suspected[n]
    OBVIOUS
  <2>4. PICK row : row = rows[n]
    OBVIOUS
  <2>5. \/ one = old
        \/ one = PairPreview!Invalid(old.raw, old.errors \cup {"category"}, old.number)
    BY <1>2, <1>5, <2>1, <2>2 DEF PairPreview!WithReferences
  <2>6. two = IF one.status = "VALID" /\ one.fingerprint[1] \in keys
              THEN [one EXCEPT !.evidence = "SUSPECTED_EXISTING", !.status = "DUPLICATE"]
              ELSE one
    BY <1>3, <1>6, <2>2, <2>3 DEF PairPreview!WithSuspects
  <2>7. row = IF n \notin DOMAIN matches \/ two.status = "INVALID" THEN two
              ELSE [two EXCEPT
                      !.evidence = IF @ = "SUSPECTED_SAME_FILE" THEN @ ELSE "SUSPECTED_EXISTING",
                      !.match = <<matches[n]>>, !.status = "DUPLICATE"]
    BY <1>4, <1>6, <2>3, <2>4 DEF PairPreview!WithMatches
  <2>. DEFINE Named(r) ==
          /\ IsRow(r) /\ r.number = old.number /\ r.raw = old.raw
          /\ r.status = "INVALID" <=> r.errors # {}
          /\ r.status = "INVALID" => r.fingerprint = <<>>
          /\ r.status # "INVALID" => old.status # "INVALID" /\ r.fingerprint = old.fingerprint
          /\ r.status = "VALID" => old.status = "VALID"
          /\ r.status \in {"VALID", "INVALID", "DUPLICATE"}
          /\ r.status = "DUPLICATE" <=> r.evidence # PairPreview!None
  <2>8. Named(one) /\ one.match = <<>>
    <3>1. CASE one = old
      BY <2>1, <3>1 DEF ParsedFits, PairPreview!None
    <3>2. CASE one = PairPreview!Invalid(old.raw, old.errors \cup {"category"}, old.number)
      BY <3>2 DEF PairPreview!Invalid, IsRow
    <3>. QED
      BY <2>5, <3>1, <3>2
  <2>9. /\ Named(two) /\ two.match = <<>>
        /\ two.status = "VALID" => PairPreview!Key(two.raw) \notin keys
    <3>1. CASE one.status = "VALID" /\ one.fingerprint[1] \in keys
      <4>1. two = [raw |-> one.raw, errors |-> one.errors, number |-> one.number, status |-> "DUPLICATE",
                   fingerprint |-> one.fingerprint, evidence |-> "SUSPECTED_EXISTING", match |-> one.match]
        BY <2>6, <2>8, <3>1 DEF IsRow
      <4>. QED
        BY <2>8, <3>1, <4>1 DEF IsRow, PairPreview!None
    <3>2. CASE ~(one.status = "VALID" /\ one.fingerprint[1] \in keys)
      <4>1. two = one
        BY <2>6, <3>2
      <4>2. one.status = "VALID" => one.fingerprint[1] = PairPreview!Key(one.raw)
        BY <2>1, <2>8 DEF ParsedFits
      <4>. QED
        BY <2>8, <3>2, <4>1, <4>2
    <3>. QED
      BY <3>1, <3>2
  <2>10. MarkedFits(row, old, keys, matches, n)
    <3>1. CASE n \notin DOMAIN matches \/ two.status = "INVALID"
      BY <2>7, <2>9, <3>1 DEF MarkedFits
    <3>2. CASE ~(n \notin DOMAIN matches \/ two.status = "INVALID")
      <4>1. PICK e : e = (IF two.evidence = "SUSPECTED_SAME_FILE" THEN two.evidence ELSE "SUSPECTED_EXISTING")
        OBVIOUS
      <4>2. row = [raw |-> two.raw, errors |-> two.errors, number |-> two.number, status |-> "DUPLICATE",
                   fingerprint |-> two.fingerprint, evidence |-> e, match |-> <<matches[n]>>]
        BY <2>7, <2>9, <3>2, <4>1 DEF IsRow
      <4>3. e # PairPreview!None
        BY <4>1 DEF PairPreview!None
      <4>. QED
        BY <2>9, <3>2, <4>2, <4>3 DEF MarkedFits
    <3>. QED
      BY <3>1, <3>2
  <2>. QED
    BY <2>1, <2>4, <2>10
<1>. QED
  BY <1>1, <1>6, <1>7

-----------------------------------------------------------------------------
(* The reads.  A key that is in the ledger from the first read on is in    *)
(* the answer.                                                             *)
KeysFit(keys) ==
    \A n \in DOMAIN statement.lines :
        LET row == PairPreview!Parsed(statement)[n] IN
        (row.status = "VALID" /\ row.raw.currency \in PairPreview!Native) =>
            \A id \in steady :
                PairPreview!Key(Ledger[id]) = PairPreview!Key(row.raw) => PairPreview!Key(row.raw) \in keys

Resembles(raw, id) ==
    /\ PairPreview!SameTerms(raw, Ledger[id]) /\ PairPreview!Distance(raw, Ledger[id]) <= 3
    /\ \/ PairPreview!Merchant(raw) = PairPreview!Merchant(Ledger[id])
       \/ PairPreview!Key(raw) = PairPreview!Key(Ledger[id])

(* What is to be merged without a question is no repeat, has one candidate *)
(* that resembles it, which no other row has, and nothing else that was in *)
(* the ledger from then on does.                                           *)
MatchesFit(matches) ==
    /\ DOMAIN matches \subseteq DOMAIN statement.lines
    /\ \A n \in DOMAIN matches : matches[n].disposition = "AUTO_MERGE_EXISTING" =>
          LET row == PairPreview!Parsed(statement)[n] IN
          /\ row.evidence # "SUSPECTED_SAME_FILE"
          /\ \E id \in PairPreview!Manual(PairPreview!Ids) :
                matches[n].candidates = {id} /\ Resembles(row.raw, id)
          /\ \A id \in steady \ merged : Resembles(row.raw, id) => id \in matches[n].candidates
          /\ \A m \in DOMAIN matches \ {n} : matches[n].candidates \cap matches[m].candidates = {}

(* ExistingMatches for any number of candidates.                           *)
MatchesOf(rows, limit) ==
    [n \in {m \in DOMAIN rows : PairPreview!Manual(PairPreview!Similar(rows[m])) # {}} |->
        [candidates  |-> {id \in PairPreview!Manual(PairPreview!Similar(rows[n])) :
            Cardinality({o \in PairPreview!Manual(PairPreview!Similar(rows[n])) : o < id}) < limit},
         disposition |-> IF PairPreview!IsAutomatic(rows, n) THEN "AUTO_MERGE_EXISTING"
                         ELSE "SUSPECTED_EXISTING"]]

TablesFit == posted \subseteq DOMAIN Ledger /\ merged \subseteq DOMAIN Ledger /\ steady \subseteq posted

LEMMA KeysAreRead ==
  ASSUME TablesFit, preview = PairPreview!Parsed(statement)
  PROVE  KeysFit(PairPreview!SuspectedKeys(preview))
<1> SUFFICES ASSUME NEW n \in DOMAIN statement.lines, NEW id \in steady,
                    preview[n].status = "VALID", preview[n].raw.currency \in PairPreview!Native,
                    PairPreview!Key(Ledger[id]) = PairPreview!Key(preview[n].raw)
             PROVE  PairPreview!Key(preview[n].raw) \in PairPreview!SuspectedKeys(preview)
  BY DEF KeysFit
<1>1. n \in DOMAIN preview
  BY RowsAreParsed
<1>2. id \in posted /\ Ledger[id].currency = preview[n].raw.currency
  BY DEF TablesFit, PairPreview!Key
<1>. QED
  BY <1>1, <1>2 DEF PairPreview!SuspectedKeys

(* Evidence and equal terms are resemblance, and the other way round.      *)
LEMMA EvidenceIsResemblance ==
  ASSUME NEW raw, raw.day \in Nat, NEW id \in DOMAIN Ledger
  PROVE  Resembles(raw, id) <=>
           /\ PairPreview!SameTerms(raw, Ledger[id]) /\ PairPreview!Distance(raw, Ledger[id]) <= 3
           /\ PairPreview!IsEvidence(raw, Ledger[id])
<1>1. PICK a, b : a = raw.day /\ b = Ledger[id].day /\ a \in Nat /\ b \in Nat
  BY LedgerFits
<1>2. PairPreview!Distance(raw, Ledger[id]) = IF a > b THEN a - b ELSE b - a
  BY <1>1 DEF PairPreview!Distance
<1>3. PairPreview!Distance(raw, Ledger[id]) = 0 <=> raw.day = Ledger[id].day
  BY <1>1, <1>2
<1>4. ASSUME PairPreview!SameTerms(raw, Ledger[id])
      PROVE  PairPreview!Key(raw) = PairPreview!Key(Ledger[id])
               <=> raw.day = Ledger[id].day /\ raw.text = Ledger[id].text
  BY <1>4 DEF PairPreview!SameTerms, PairPreview!Key
<1>. QED
  BY <1>3, <1>4 DEF Resembles, PairPreview!IsEvidence

LEMMA MatchesAreRead ==
  ASSUME TablesFit, IsStatement(statement), preview = PairPreview!Parsed(statement), NEW limit \in Nat \ {0}
  PROVE  MatchesFit(MatchesOf(preview, limit))
<1>1. PICK matches : matches = MatchesOf(preview, limit)
  OBVIOUS
<1>2. DOMAIN preview = DOMAIN statement.lines
  BY RowsAreParsed
<1>3. DOMAIN matches = {m \in DOMAIN preview : PairPreview!Manual(PairPreview!Similar(preview[m])) # {}}
  BY <1>1 DEF MatchesOf
<1>4. \A n \in DOMAIN matches :
        /\ matches[n].candidates = {id \in PairPreview!Manual(PairPreview!Similar(preview[n])) :
              Cardinality({o \in PairPreview!Manual(PairPreview!Similar(preview[n])) : o < id}) < limit}
        /\ matches[n].disposition = "AUTO_MERGE_EXISTING" => PairPreview!IsAutomatic(preview, n)
  BY <1>1, <1>3 DEF MatchesOf
<1>5. ASSUME NEW n \in DOMAIN matches, PairPreview!IsAutomatic(preview, n)
      PROVE  /\ preview[n].evidence # "SUSPECTED_SAME_FILE"
             /\ \E id \in PairPreview!Manual(PairPreview!Ids) :
                   matches[n].candidates = {id} /\ Resembles(preview[n].raw, id)
             /\ \A id \in steady \ merged : Resembles(preview[n].raw, id) => id \in matches[n].candidates
             /\ \A m \in DOMAIN matches \ {n} : matches[n].candidates \cap matches[m].candidates = {}
  <2>1. PICK own : own = PairPreview!Manual(PairPreview!Similar(preview[n]))
    OBVIOUS
  <2>2. Cardinality(own) = 1 /\ own = PairPreview!Similar(preview[n])
    BY <1>5, <2>1, SameFiniteness DEF PairPreview!IsAutomatic
  <2>3. own \subseteq DOMAIN Ledger /\ own \subseteq PairPreview!Manual(PairPreview!Ids)
    BY <2>1, <2>2 DEF TablesFit, PairPreview!Similar, PairPreview!Manual, PairPreview!Ids
  <2>4. PICK id : own = {id}
    <3>1. IsFiniteSet(own)
      BY <2>3, LedgerFits, FS_Subset
    <3>. QED
      BY <2>2, <3>1, FS_Singleton
  <2>5. matches[n].candidates = {id}
    <3>1. id \in Nat /\ {o \in own : o < id} = {}
      BY <2>3, <2>4, LedgerFits
    <3>2. Cardinality({}) = 0
      BY FS_EmptySet
    <3>3. matches[n].candidates = {i \in own : Cardinality({o \in own : o < i}) < limit}
      BY <1>4, <2>1
    <3>. QED
      BY <2>4, <3>1, <3>2, <3>3
  <2>6. preview[n].raw.day \in Nat /\ preview[n].status # "INVALID" /\ preview[n].raw.currency \in PairPreview!Native
    <3>1. preview[n].raw.day \in Nat
      BY <1>2, <1>3, RowsAreParsed, RawDay DEF ParsedFits
    <3>2. id \in PairPreview!Similar(preview[n])
      BY <2>2, <2>4
    <3>. QED
      BY <3>1, <3>2 DEF PairPreview!Similar
  <2>7. ASSUME NEW i \in posted \ merged
        PROVE  i \in own <=> Resembles(preview[n].raw, i)
    BY <2>2, <2>6, EvidenceIsResemblance DEF PairPreview!Similar, TablesFit
  <2>8. id \in posted \ merged /\ Resembles(preview[n].raw, id)
    <3>1. id \in posted \ merged
      BY <2>2, <2>4 DEF PairPreview!Similar
    <3>. QED
      BY <2>4, <2>7, <3>1
  <2>9. \A i \in steady \ merged : Resembles(preview[n].raw, i) => i \in own
    BY <2>7 DEF TablesFit
  <2>10. ASSUME NEW m \in DOMAIN matches \ {n}
         PROVE  matches[n].candidates \cap matches[m].candidates = {}
    <3>1. PairPreview!Manual(PairPreview!Similar(preview[m])) \cap own = {}
      BY <1>3, <1>5, <2>1 DEF PairPreview!IsAutomatic
    <3>2. matches[m].candidates \subseteq PairPreview!Manual(PairPreview!Similar(preview[m]))
      BY <1>4
    <3>. QED
      BY <2>4, <2>5, <3>1, <3>2
  <2>11. preview[n].evidence # "SUSPECTED_SAME_FILE"
    BY <1>5 DEF PairPreview!IsAutomatic
  <2>. QED
    BY <2>3, <2>4, <2>5, <2>8, <2>9, <2>10, <2>11
<1>6. \A n \in DOMAIN matches : matches[n].disposition = "AUTO_MERGE_EXISTING" =>
        /\ preview[n].evidence # "SUSPECTED_SAME_FILE"
        /\ \E id \in PairPreview!Manual(PairPreview!Ids) :
              matches[n].candidates = {id} /\ Resembles(preview[n].raw, id)
        /\ \A id \in steady \ merged : Resembles(preview[n].raw, id) => id \in matches[n].candidates
        /\ \A m \in DOMAIN matches \ {n} : matches[n].candidates \cap matches[m].candidates = {}
  BY <1>4, <1>5
<1>7. MatchesFit(matches)
  BY <1>2, <1>3, <1>6 DEF MatchesFit
<1>. QED
  BY <1>1, <1>7

-----------------------------------------------------------------------------
(* The inductive invariant of a preview.                                   *)

IsRead == read = [categories |-> read.categories, keys |-> read.keys, matches |-> read.matches]

ReadsFit ==
    /\ read.keys # <<>> => KeysFit(read.keys[1])
    /\ read.matches # <<>> => MatchesFit(read.matches[1])

RowsFit ==
    \E keys, matches :
        /\ KeysFit(keys) /\ MatchesFit(matches)
        /\ DOMAIN preview = DOMAIN statement.lines
        /\ \A n \in DOMAIN statement.lines :
              MarkedFits(preview[n], PairPreview!Parsed(statement)[n], keys, matches, n)

After == {"marked", "staged", "committed", "failed"}

PreviewInv ==
    /\ IsStatement(statement) /\ TablesFit /\ changes \in 0..MaxChanges /\ IsRead
    /\ phase \in {"parsing", "reading"} \cup After
    /\ phase = "parsing" => preview = <<>> /\ read.keys = <<>> /\ read.matches = <<>>
    /\ phase = "reading" => preview = PairPreview!Parsed(statement) /\ ReadsFit
    /\ phase \in After => RowsFit

(* The step that is not the same in the two instances: an answer.          *)
AnswersWith(name, value) ==
    /\ phase = "reading" /\ name \in {"categories", "keys", "matches"}
    /\ name = "keys" => value = PairPreview!SuspectedKeys(preview)
    /\ name = "matches" => \E limit \in Nat \ {0} : value = MatchesOf(preview, limit)
    /\ read' = [read EXCEPT ![name] = <<value>>]
    /\ UNCHANGED <<phase, statement, preview, posted, merged, steady, changes>>

StepOfPreview ==
    \/ PairPreview!Upload \/ PairPreview!Mark \/ PairPreview!Stage \/ PairPreview!Change
    \/ \E name, value : AnswersWith(name, value)
    \/ \E decided : PairPreview!Commit(decided)

LEMMA StillFit ==
  ASSUME statement' = statement, steady' \subseteq steady, merged \subseteq merged'
  PROVE  /\ \A keys : KeysFit(keys) => KeysFit(keys)'
         /\ \A matches : MatchesFit(matches) => MatchesFit(matches)'
<1>1. ASSUME NEW keys, KeysFit(keys)
      PROVE  KeysFit(keys)'
  BY <1>1 DEF KeysFit
<1>2. ASSUME NEW matches, MatchesFit(matches)
      PROVE  MatchesFit(matches)'
  BY <1>2 DEF MatchesFit
<1>. QED
  BY <1>1, <1>2

LEMMA UploadKeeps ==
  ASSUME PreviewInv, PairPreview!Upload
  PROVE  PreviewInv'
<1>1. /\ phase = "parsing" /\ phase' = "reading" /\ preview' = PairPreview!Parsed(statement)
      /\ UNCHANGED <<statement, read, posted, merged, steady, changes>>
  BY DEF PairPreview!Upload
<1>. QED
  BY <1>1 DEF PreviewInv, After, TablesFit, IsRead, ReadsFit

LEMMA AnswerKeeps ==
  ASSUME PreviewInv, NEW name, NEW value, AnswersWith(name, value)
  PROVE  PreviewInv'
<1>1. /\ phase = "reading" /\ name \in {"categories", "keys", "matches"}
      /\ read' = [read EXCEPT ![name] = <<value>>]
      /\ UNCHANGED <<phase, statement, preview, posted, merged, steady, changes>>
  BY DEF AnswersWith
<1>2. IsRead' /\ (read'.keys = read.keys \/ (name = "keys" /\ read'.keys = <<value>>))
      /\ (read'.matches = read.matches \/ (name = "matches" /\ read'.matches = <<value>>))
  BY <1>1 DEF PreviewInv, IsRead
<1>3. name = "keys" => KeysFit(value)
  BY <1>1, KeysAreRead DEF AnswersWith, PreviewInv
<1>4. name = "matches" => MatchesFit(value)
  BY <1>1, MatchesAreRead DEF AnswersWith, PreviewInv
<1>5. PICK keys, matches : keys = read'.keys[1] /\ matches = read'.matches[1]
  OBVIOUS
<1>6. (read'.keys # <<>> => KeysFit(keys)) /\ (read'.matches # <<>> => MatchesFit(matches))
  BY <1>1, <1>2, <1>3, <1>4, <1>5 DEF PreviewInv, ReadsFit
<1>7. ReadsFit'
  BY <1>1, <1>5, <1>6, StillFit DEF ReadsFit
<1>. QED
  BY <1>1, <1>2, <1>7 DEF PreviewInv, After, TablesFit

LEMMA MarkKeeps ==
  ASSUME PreviewInv, PairPreview!Mark
  PROVE  PreviewInv'
<1>1. /\ phase = "reading" /\ phase' = "marked"
      /\ UNCHANGED <<statement, read, posted, merged, steady, changes>>
      /\ read.keys # <<>> /\ read.matches # <<>>
  BY DEF PairPreview!Mark, PreviewInv, IsRead
<1>2. PICK references, keys, matches :
        references = read.categories[1] /\ keys = read.keys[1] /\ matches = read.matches[1]
  OBVIOUS
<1>3. preview' = PairPreview!WithMatches(PairPreview!WithSuspects(
                   PairPreview!WithReferences(PairPreview!Parsed(statement), references), keys), matches)
  BY <1>1, <1>2 DEF PairPreview!Mark, PreviewInv
<1>4. KeysFit(keys) /\ MatchesFit(matches)
  BY <1>1, <1>2 DEF PreviewInv, ReadsFit
<1>5. KeysFit(keys)' /\ MatchesFit(matches)'
  BY <1>1, <1>4, StillFit
<1>6. /\ DOMAIN preview' = DOMAIN statement.lines
      /\ \A n \in DOMAIN statement.lines :
            MarkedFits(preview'[n], PairPreview!Parsed(statement)[n], keys, matches, n)
  BY <1>3, RowsAreMarked
<1>7. RowsFit'
  BY <1>1, <1>5, <1>6 DEF RowsFit
<1>. QED
  BY <1>1, <1>7 DEF PreviewInv, After, TablesFit, IsRead

LEMMA DisjointAddUp ==
  ASSUME NEW S, IsFiniteSet(S), NEW T, IsFiniteSet(T), S \cap T = {}
  PROVE  /\ IsFiniteSet(S \cup T)
         /\ Cardinality(S) \in Nat /\ Cardinality(T) \in Nat
         /\ Cardinality(S \cup T) = Cardinality(S) + Cardinality(T)
<1>1. Cardinality(S \cap T) = 0
  BY FS_EmptySet
<1>2. Cardinality(S) \in Nat /\ Cardinality(T) \in Nat
  BY FS_CardinalityType
<1>3. /\ IsFiniteSet(S \cup T)
      /\ Cardinality(S \cup T) = Cardinality(S) + Cardinality(T) - Cardinality(S \cap T)
  BY FS_Union
<1>. QED
  BY <1>1, <1>2, <1>3

(* The numbers of the three kinds of rows add up.                          *)
LEMMA CountsAddUp ==
  ASSUME PreviewInv, RowsFit
  PROVE  PairPreview!Stageable(preview)
<1>1. PICK keys, matches :
        /\ DOMAIN preview = DOMAIN statement.lines
        /\ \A n \in DOMAIN statement.lines :
              MarkedFits(preview[n], PairPreview!Parsed(statement)[n], keys, matches, n)
  BY DEF RowsFit
<1> DEFINE Of(status) == {n \in DOMAIN preview : preview[n].status = status}
<1>2. PICK k \in Nat : DOMAIN preview = 1..k
  BY <1>1 DEF PreviewInv, IsStatement
<1>3. Len(preview) = k
  BY <1>2
<1>4. IsFiniteSet(1..k) /\ Cardinality(1..k) = k
  BY FS_Interval
<1>5. /\ Of("VALID") \cup Of("INVALID") \cup Of("DUPLICATE") = 1..k
      /\ Of("VALID") \cap Of("INVALID") = {} /\ (Of("VALID") \cup Of("INVALID")) \cap Of("DUPLICATE") = {}
  BY <1>1, <1>2 DEF MarkedFits
<1>6. IsFiniteSet(Of("VALID")) /\ IsFiniteSet(Of("INVALID")) /\ IsFiniteSet(Of("DUPLICATE"))
  BY <1>4, <1>5, FS_Subset
<1>7. \A status : PairPreview!CountOf(preview, status) = Cardinality(Of(status))
  BY SameFiniteness DEF PairPreview!CountOf
<1>8. Cardinality(Of("VALID")) + Cardinality(Of("INVALID")) + Cardinality(Of("DUPLICATE")) = k
  <2> HIDE DEF Of
  <2>1. PICK V, I, D : V = Of("VALID") /\ I = Of("INVALID") /\ D = Of("DUPLICATE")
    OBVIOUS
  <2>2. /\ IsFiniteSet(V) /\ IsFiniteSet(I) /\ IsFiniteSet(D)
        /\ (V \cup I) \cup D = 1..k /\ V \cap I = {} /\ (V \cup I) \cap D = {}
    BY <1>5, <1>6, <2>1
  <2>3. /\ IsFiniteSet(V \cup I) /\ Cardinality(V) \in Nat /\ Cardinality(I) \in Nat
        /\ Cardinality(V \cup I) = Cardinality(V) + Cardinality(I)
    BY <2>2, DisjointAddUp
  <2>4. Cardinality(D) \in Nat /\ Cardinality((V \cup I) \cup D) = Cardinality(V \cup I) + Cardinality(D)
    BY <2>2, <2>3, DisjointAddUp
  <2>5. Cardinality((V \cup I) \cup D) = k
    BY <1>4, <2>2
  <2>. QED
    BY <2>1, <2>3, <2>4, <2>5
<1>9. ASSUME NEW n \in DOMAIN preview, preview[n].status # "INVALID"
      PROVE  preview[n].fingerprint # <<>>
  <2>1. PICK old : old = PairPreview!Parsed(statement)[n]
    OBVIOUS
  <2>2. ParsedFits(old, statement, n) /\ old.status # "INVALID" /\ preview[n].fingerprint = old.fingerprint
    BY <1>1, <1>9, <2>1, RowsAreParsed DEF MarkedFits
  <2>. QED
    BY <2>2 DEF ParsedFits
<1>. QED
  BY <1>3, <1>7, <1>8, <1>9 DEF PairPreview!Stageable

LEMMA RowsStillFit ==
  ASSUME RowsFit, UNCHANGED <<statement, preview, steady, merged>>
  PROVE  RowsFit'
<1>1. PICK keys, matches :
        /\ KeysFit(keys) /\ MatchesFit(matches)
        /\ DOMAIN preview = DOMAIN statement.lines
        /\ \A n \in DOMAIN statement.lines :
              MarkedFits(preview[n], PairPreview!Parsed(statement)[n], keys, matches, n)
  BY DEF RowsFit
<1>2. KeysFit(keys)' /\ MatchesFit(matches)'
  BY <1>1, StillFit
<1>. QED
  BY <1>1, <1>2 DEF RowsFit

LEMMA StageKeeps ==
  ASSUME PreviewInv, PairPreview!Stage
  PROVE  PreviewInv'
<1>1. phase = "marked" /\ UNCHANGED <<statement, preview, read, posted, merged, steady, changes>> /\ RowsFit
  BY DEF PairPreview!Stage, PreviewInv, After
<1>2. phase' = "staged"
  BY <1>1, CountsAddUp DEF PairPreview!Stage
<1>. QED
  BY <1>1, <1>2, RowsStillFit DEF PreviewInv, After, TablesFit, IsRead

LEMMA CommitKeeps ==
  ASSUME PreviewInv, NEW decided, PairPreview!Commit(decided)
  PROVE  PreviewInv'
<1>1. /\ phase = "staged" /\ UNCHANGED <<statement, preview, read, posted, merged, steady, changes>> /\ RowsFit
      /\ phase' \in {"committed", "failed"}
  BY DEF PairPreview!Commit, PreviewInv, After
<1>. QED
  BY <1>1, RowsStillFit DEF PreviewInv, After, TablesFit, IsRead

LEMMA ChangeKeeps ==
  ASSUME PreviewInv, PairPreview!Change
  PROVE  PreviewInv'
<1>1. /\ phase = "reading" /\ UNCHANGED <<phase, statement, preview, read>>
      /\ changes < MaxChanges /\ changes' = changes + 1
  BY DEF PairPreview!Change
<1>2. TablesFit' /\ steady' \subseteq steady /\ merged \subseteq merged'
  BY DEF PairPreview!Change, PreviewInv, TablesFit, PairPreview!Ids, PairPreview!Manual
<1>3. PICK keys, matches : keys = read.keys[1] /\ matches = read.matches[1]
  OBVIOUS
<1>4. (read.keys # <<>> => KeysFit(keys)') /\ (read.matches # <<>> => MatchesFit(matches)')
  BY <1>1, <1>2, <1>3, StillFit DEF PreviewInv, ReadsFit
<1>5. ReadsFit'
  BY <1>1, <1>3, <1>4 DEF ReadsFit
<1>6. changes' \in 0..MaxChanges
  BY <1>1, LedgerFits DEF PreviewInv
<1>. QED
  BY <1>1, <1>2, <1>5, <1>6 DEF PreviewInv, After, IsRead

LEMMA PreviewKeeps ==
  ASSUME PreviewInv, StepOfPreview
  PROVE  PreviewInv'
BY UploadKeeps, AnswerKeeps, MarkKeeps, StageKeeps, CommitKeeps, ChangeKeeps DEF StepOfPreview

-----------------------------------------------------------------------------
(* What the invariant says of a preview.                                   *)

LEMMA MarkedRow ==
  ASSUME PreviewInv, phase \in After
  PROVE  \E keys, matches :
           /\ KeysFit(keys) /\ MatchesFit(matches) /\ DOMAIN preview = DOMAIN statement.lines
           /\ \A n \in DOMAIN statement.lines :
                /\ n \in Nat /\ ParsedFits(PairPreview!Parsed(statement)[n], statement, n)
                /\ MarkedFits(preview[n], PairPreview!Parsed(statement)[n], keys, matches, n)
BY RowsAreParsed DEF PreviewInv, RowsFit, IsStatement

LEMMA PreviewsHaveTypes ==
  ASSUME PreviewInv
  PROVE  PairPreview!TypeOK
<1>1. ASSUME NEW n \in DOMAIN preview
      PROVE  /\ preview[n].number = n + 1
             /\ preview[n].status \in {"VALID", "INVALID", "DUPLICATE"}
             /\ preview[n].status = "DUPLICATE" <=> preview[n].evidence # PairPreview!None
             /\ preview[n].status = "INVALID" <=> preview[n].errors # {}
  <2>1. CASE phase = "parsing"
    BY <2>1 DEF PreviewInv
  <2>2. CASE phase = "reading"
    BY <2>2, RowsAreParsed DEF PreviewInv, ParsedFits, PairPreview!None
  <2>3. CASE phase \in After
    <3>1. PICK keys, matches, old :
            MarkedFits(preview[n], old, keys, matches, n) /\ ParsedFits(old, statement, n)
      BY <2>3, MarkedRow
    <3>. QED
      BY <3>1 DEF MarkedFits, ParsedFits
  <2>. QED
    BY <2>1, <2>2, <2>3 DEF PreviewInv
<1>. QED
  BY <1>1 DEF PreviewInv, After, TablesFit, PairPreview!TypeOK, PairPreview!Ids

LEMMA NoDuplicateIsSilent ==
  ASSUME PreviewInv
  PROVE  PairPreview!NoSilentDuplicate
<1> SUFFICES ASSUME phase \in After, NEW n \in DOMAIN preview, preview[n].status = "VALID",
                    preview[n].raw.currency \in PairPreview!Native
             PROVE  /\ \A id \in steady : PairPreview!Key(Ledger[id]) # PairPreview!Key(preview[n].raw)
                    /\ \A m \in DOMAIN preview \ {n} : preview[m].status = "VALID" =>
                          PairPreview!Key(preview[m].raw) # PairPreview!Key(preview[n].raw)
  BY DEF PreviewInv, After, PairPreview!NoSilentDuplicate, PairPreview!Done
<1>1. PICK keys, matches :
        /\ KeysFit(keys) /\ DOMAIN preview = DOMAIN statement.lines
        /\ \A m \in DOMAIN statement.lines :
             /\ m \in Nat /\ ParsedFits(PairPreview!Parsed(statement)[m], statement, m)
             /\ MarkedFits(preview[m], PairPreview!Parsed(statement)[m], keys, matches, m)
  BY MarkedRow
<1>2. \A id \in steady : PairPreview!Key(Ledger[id]) # PairPreview!Key(preview[n].raw)
  BY <1>1 DEF MarkedFits, KeysFit
<1>3. ASSUME NEW k \in DOMAIN statement.lines, NEW m \in DOMAIN statement.lines, k < m,
             preview[k].status = "VALID", preview[m].status = "VALID",
             PairPreview!Key(preview[k].raw) = PairPreview!Key(preview[m].raw)
      PROVE  FALSE
  <2>1. PICK a, b : a = PairPreview!Parsed(statement)[k] /\ b = PairPreview!Parsed(statement)[m]
    OBVIOUS
  <2>2. /\ ParsedFits(a, statement, k) /\ ParsedFits(b, statement, m)
        /\ a.status = "VALID" /\ b.status = "VALID" /\ a.raw = preview[k].raw /\ b.raw = preview[m].raw
    BY <1>1, <1>3, <2>1 DEF MarkedFits
  <2>3. /\ PairPreview!RowErrors(statement, statement.lines[k]) = {}
        /\ PairPreview!RowErrors(statement, statement.lines[m]) = {}
        /\ ~(PairPreview!Ordinal(statement, m) > 1)
        /\ a.raw = PairPreview!Raw(statement, statement.lines[k])
        /\ b.raw = PairPreview!Raw(statement, statement.lines[m])
    BY <2>2 DEF ParsedFits
  <2>4. /\ PairPreview!Ordinal(statement, m) \in Nat /\ PairPreview!Ordinal(statement, k) \in Nat \ {0}
        /\ PairPreview!Ordinal(statement, k) < PairPreview!Ordinal(statement, m)
    BY <1>3, <2>2, <2>3, OrdinalsGrow DEF PreviewInv
  <2>. QED
    BY <2>3, <2>4
<1>4. ASSUME NEW m \in DOMAIN preview \ {n}, preview[m].status = "VALID"
      PROVE  PairPreview!Key(preview[m].raw) # PairPreview!Key(preview[n].raw)
  <2>1. m \in DOMAIN statement.lines /\ n \in DOMAIN statement.lines /\ (m < n \/ n < m)
    BY <1>1
  <2>. QED
    BY <1>3, <1>4, <2>1
<1>. QED
  BY <1>2, <1>4

LEMMA PreviewsAreStageable ==
  ASSUME PreviewInv
  PROVE  PairPreview!PreviewIsStageable
<1> SUFFICES ASSUME NEW m \in DOMAIN preview, NEW n \in DOMAIN preview, preview[n].status # "INVALID",
                    preview[m].fingerprint = preview[n].fingerprint
             PROVE  m = n
  BY DEF PreviewInv, After, PairPreview!PreviewIsStageable
<1>1. ASSUME NEW k \in DOMAIN preview
      PROVE  /\ k \in DOMAIN statement.lines /\ k \in Nat
             /\ preview[k].status = "INVALID" => preview[k].fingerprint = <<>>
             /\ preview[k].status # "INVALID" =>
                  /\ PairPreview!RowErrors(statement, statement.lines[k]) = {}
                  /\ preview[k].fingerprint =
                       <<PairPreview!Key(PairPreview!Raw(statement, statement.lines[k])),
                         PairPreview!Ordinal(statement, k)>>
  <2>1. CASE phase = "parsing"
    BY <2>1 DEF PreviewInv
  <2>2. CASE phase = "reading"
    <3>1. DOMAIN preview = DOMAIN statement.lines /\ ParsedFits(preview[k], statement, k)
      BY <2>2, RowsAreParsed DEF PreviewInv
    <3>. QED
      BY <3>1 DEF ParsedFits, PreviewInv, IsStatement
  <2>3. CASE phase \in After
    <3>1. PICK keys, matches, old :
            /\ k \in DOMAIN statement.lines /\ k \in Nat
            /\ MarkedFits(preview[k], old, keys, matches, k) /\ ParsedFits(old, statement, k)
      BY <2>3, MarkedRow
    <3>. QED
      BY <3>1 DEF MarkedFits, ParsedFits
  <2>. QED
    BY <2>1, <2>2, <2>3 DEF PreviewInv
<1>2. preview[m].status # "INVALID"
  <2>1. PICK key, ordinal : preview[n].fingerprint = <<key, ordinal>>
    BY <1>1
  <2>2. preview[n].fingerprint # <<>>
    BY <2>1
  <2>. QED
    BY <1>1, <2>2
<1>3. ASSUME NEW k \in DOMAIN preview, NEW l \in DOMAIN preview, k < l,
             preview[k].status # "INVALID", preview[l].status # "INVALID",
             preview[k].fingerprint = preview[l].fingerprint
      PROVE  FALSE
  <2>1. PICK key, ordinal, other, later :
          /\ key = PairPreview!Key(PairPreview!Raw(statement, statement.lines[k]))
          /\ other = PairPreview!Key(PairPreview!Raw(statement, statement.lines[l]))
          /\ ordinal = PairPreview!Ordinal(statement, k) /\ later = PairPreview!Ordinal(statement, l)
    OBVIOUS
  <2>2. <<key, ordinal>> = <<other, later>>
    BY <1>1, <1>3, <2>1
  <2>3. key = other /\ ordinal = later
    BY <2>2
  <2>4. /\ PairPreview!RowErrors(statement, statement.lines[k]) = {}
        /\ PairPreview!RowErrors(statement, statement.lines[l]) = {}
        /\ k \in DOMAIN statement.lines /\ l \in DOMAIN statement.lines
    BY <1>1, <1>3
  <2>5. ordinal \in Nat /\ later \in Nat /\ ordinal < later
    BY <1>3, <2>1, <2>3, <2>4, OrdinalsGrow DEF PreviewInv
  <2>. QED
    BY <2>3, <2>5
<1>4. m \in Nat /\ n \in Nat
  BY <1>1
<1>5. ~(m < n) /\ ~(n < m)
  BY <1>2, <1>3
<1>. QED
  BY <1>4, <1>5

LEMMA MergesAreUnambiguous ==
  ASSUME PreviewInv
  PROVE  PairPreview!AutoMergeIsUnambiguous
<1> SUFFICES ASSUME phase \in After, NEW n \in DOMAIN preview, preview[n].match # <<>>,
                    preview[n].match[1].disposition = "AUTO_MERGE_EXISTING"
             PROVE  /\ \E id \in PairPreview!Manual(PairPreview!Ids) :
                          preview[n].match[1].candidates = {id} /\ Resembles(preview[n].raw, id)
                    /\ \A id \in steady \ merged :
                          Resembles(preview[n].raw, id) => id \in preview[n].match[1].candidates
                    /\ \A m \in DOMAIN preview \ {n} :
                          /\ preview[m].match # <<>> =>
                               preview[n].match[1].candidates \cap preview[m].match[1].candidates = {}
                          /\ preview[m].status # "INVALID" =>
                               (preview[m].number < preview[n].number =>
                                  PairPreview!Key(preview[m].raw) # PairPreview!Key(preview[n].raw))
  BY DEF PreviewInv, After, PairPreview!AutoMergeIsUnambiguous, PairPreview!Done, Resembles
<1>1. PICK keys, matches :
        /\ MatchesFit(matches) /\ DOMAIN preview = DOMAIN statement.lines
        /\ \A m \in DOMAIN statement.lines :
             /\ m \in Nat /\ ParsedFits(PairPreview!Parsed(statement)[m], statement, m)
             /\ MarkedFits(preview[m], PairPreview!Parsed(statement)[m], keys, matches, m)
  BY MarkedRow
<1>2. PICK old : old = PairPreview!Parsed(statement)[n]
  OBVIOUS
<1>3. \A m \in DOMAIN preview : preview[m].match # <<>> =>
        m \in DOMAIN matches /\ preview[m].match[1] = matches[m]
  BY <1>1 DEF MarkedFits
<1>4. old.raw = preview[n].raw /\ old.number = preview[n].number
  BY <1>1, <1>2 DEF MarkedFits
<1>5. /\ old.evidence # "SUSPECTED_SAME_FILE"
      /\ \E id \in PairPreview!Manual(PairPreview!Ids) :
            matches[n].candidates = {id} /\ Resembles(old.raw, id)
      /\ \A id \in steady \ merged : Resembles(old.raw, id) => id \in matches[n].candidates
      /\ \A m \in DOMAIN matches \ {n} : matches[n].candidates \cap matches[m].candidates = {}
  BY <1>1, <1>2, <1>3 DEF MatchesFit
<1>6. ASSUME NEW m \in DOMAIN preview \ {n}, preview[m].status # "INVALID",
             preview[m].number < preview[n].number,
             PairPreview!Key(preview[m].raw) = PairPreview!Key(preview[n].raw)
      PROVE  FALSE
  <2>1. PICK row : row = PairPreview!Parsed(statement)[m]
    OBVIOUS
  <2>2. /\ m \in DOMAIN statement.lines /\ n \in DOMAIN statement.lines /\ m \in Nat /\ n \in Nat
        /\ ParsedFits(row, statement, m) /\ ParsedFits(old, statement, n)
        /\ row.raw = preview[m].raw /\ row.number = preview[m].number /\ row.status # "INVALID"
    BY <1>1, <1>2, <1>6, <2>1 DEF MarkedFits
  <2>3. m < n
    BY <1>4, <1>6, <2>2 DEF ParsedFits
  <2>4. /\ PairPreview!RowErrors(statement, statement.lines[m]) = {}
        /\ PairPreview!Key(PairPreview!Raw(statement, statement.lines[m]))
             = PairPreview!Key(PairPreview!Raw(statement, statement.lines[n]))
    BY <1>4, <1>6, <2>2 DEF ParsedFits
  <2>5. PairPreview!RowErrors(statement, statement.lines[n]) = {} /\ ~(PairPreview!Ordinal(statement, n) > 1)
    <3>1. preview[n].status # "INVALID"
      BY <1>1 DEF MarkedFits
    <3>2. old.status # "INVALID"
      BY <1>1, <1>2, <3>1 DEF MarkedFits
    <3>. QED
      BY <1>5, <2>2, <3>2 DEF ParsedFits
  <2>6. /\ PairPreview!Ordinal(statement, n) \in Nat /\ PairPreview!Ordinal(statement, m) \in Nat \ {0}
        /\ PairPreview!Ordinal(statement, m) < PairPreview!Ordinal(statement, n)
    BY <2>2, <2>3, <2>4, <2>5, OrdinalsGrow DEF PreviewInv
  <2>. QED
    BY <2>5, <2>6
<1>. QED
  BY <1>3, <1>4, <1>5, <1>6

-----------------------------------------------------------------------------
(* The operators of the two instances are the same.                        *)

LEMMA SameRows ==
  \A s, line : /\ TriplePreview!Raw(s, line) = PairPreview!Raw(s, line)
               /\ TriplePreview!RowErrors(s, line) = PairPreview!RowErrors(s, line)
<1>1. TriplePreview!Empty = PairPreview!Empty
  BY DEF TriplePreview!Empty, PairPreview!Empty, TriplePreview!None, PairPreview!None
<1>2. \A line : TriplePreview!ReadMapped(line) = PairPreview!ReadMapped(line)
  BY <1>1 DEF TriplePreview!ReadMapped, PairPreview!ReadMapped
<1>3. \A line : TriplePreview!ReadRbc(line) = PairPreview!ReadRbc(line)
  BY DEF TriplePreview!ReadRbc, PairPreview!ReadRbc, TriplePreview!Empty, PairPreview!Empty,
         TriplePreview!None, PairPreview!None
<1>4. \A s, line : TriplePreview!Raw(s, line) = PairPreview!Raw(s, line)
  BY <1>1, <1>2, <1>3 DEF TriplePreview!Raw, PairPreview!Raw
<1>5. \A raw : TriplePreview!FieldErrors(raw) = PairPreview!FieldErrors(raw)
  BY DEF TriplePreview!FieldErrors, PairPreview!FieldErrors, TriplePreview!Empty, PairPreview!Empty,
         TriplePreview!Centesimal, PairPreview!Centesimal, TriplePreview!None, PairPreview!None
<1>6. \A s, line : TriplePreview!RowErrors(s, line) = PairPreview!RowErrors(s, line)
  BY <1>4, <1>5 DEF TriplePreview!RowErrors, PairPreview!RowErrors
<1>. QED
  BY <1>4, <1>6

LEMMA SameParsed ==
  \A s : TriplePreview!Parsed(s) = PairPreview!Parsed(s)
<1>1. ASSUME NEW s, NEW n
      PROVE  TriplePreview!Ordinal(s, n) = PairPreview!Ordinal(s, n)
  <2>1. PICK S : S = {m \in 1..n : /\ PairPreview!RowErrors(s, s.lines[m]) = {}
                                   /\ PairPreview!Key(PairPreview!Raw(s, s.lines[m]))
                                        = PairPreview!Key(PairPreview!Raw(s, s.lines[n]))}
    OBVIOUS
  <2>2. \A r : TriplePreview!Key(r) = PairPreview!Key(r)
    BY DEF TriplePreview!Key, PairPreview!Key
  <2>3. S = {m \in 1..n : /\ TriplePreview!RowErrors(s, s.lines[m]) = {}
                          /\ TriplePreview!Key(TriplePreview!Raw(s, s.lines[m]))
                               = TriplePreview!Key(TriplePreview!Raw(s, s.lines[n]))}
    BY <2>1, <2>2, SameRows
  <2>4. PairPreview!Ordinal(s, n) = Cardinality(S)
    BY <2>1, SameFiniteness DEF PairPreview!Ordinal
  <2>5. TriplePreview!Ordinal(s, n) = Cardinality(S)
    BY <2>3, SameFiniteness DEF TriplePreview!Ordinal
  <2>. QED
    BY <2>4, <2>5
<1>2. ASSUME NEW s, NEW n
      PROVE  TriplePreview!ParsedRow(s, n) = PairPreview!ParsedRow(s, n)
  <2>1. TriplePreview!Ordinal(s, n) = PairPreview!Ordinal(s, n)
    BY <1>1
  <2>2. /\ TriplePreview!Raw(s, s.lines[n]) = PairPreview!Raw(s, s.lines[n])
        /\ TriplePreview!RowErrors(s, s.lines[n]) = PairPreview!RowErrors(s, s.lines[n])
    BY SameRows
  <2>. QED
    BY <2>1, <2>2 DEF TriplePreview!ParsedRow, PairPreview!ParsedRow, TriplePreview!Invalid, PairPreview!Invalid,
         TriplePreview!Key, PairPreview!Key, TriplePreview!None, PairPreview!None
<1>. QED
  BY <1>2 DEF TriplePreview!Parsed, PairPreview!Parsed

LEMMA SameMarks ==
  \A rows, other :
    /\ TriplePreview!WithReferences(rows, other) = PairPreview!WithReferences(rows, other)
    /\ TriplePreview!WithSuspects(rows, other) = PairPreview!WithSuspects(rows, other)
    /\ TriplePreview!WithMatches(rows, other) = PairPreview!WithMatches(rows, other)
BY DEF TriplePreview!WithReferences, PairPreview!WithReferences, TriplePreview!WithSuspects, PairPreview!WithSuspects,
       TriplePreview!WithMatches, PairPreview!WithMatches, TriplePreview!Invalid, PairPreview!Invalid,
       TriplePreview!None, PairPreview!None

LEMMA SameEvidence ==
  /\ \A raw, tx : /\ TriplePreview!SameTerms(raw, tx) = PairPreview!SameTerms(raw, tx)
                  /\ TriplePreview!Distance(raw, tx) = PairPreview!Distance(raw, tx)
                  /\ TriplePreview!IsEvidence(raw, tx) = PairPreview!IsEvidence(raw, tx)
  /\ \A r : /\ TriplePreview!Key(r) = PairPreview!Key(r)
            /\ TriplePreview!Merchant(r) = PairPreview!Merchant(r)
  /\ \A S : TriplePreview!Manual(S) = PairPreview!Manual(S)
  /\ TriplePreview!Native = PairPreview!Native /\ TriplePreview!Ids = PairPreview!Ids
<1>1. \A r : TriplePreview!Merchant(r) = PairPreview!Merchant(r)
  BY DEF TriplePreview!Merchant, PairPreview!Merchant, TriplePreview!None, PairPreview!None
<1>2. \A raw, tx : TriplePreview!Distance(raw, tx) = PairPreview!Distance(raw, tx)
  BY DEF TriplePreview!Distance, PairPreview!Distance
<1>3. \A raw, tx : TriplePreview!IsEvidence(raw, tx) = PairPreview!IsEvidence(raw, tx)
  BY <1>1, <1>2 DEF TriplePreview!IsEvidence, PairPreview!IsEvidence
<1>4. \A raw, tx : TriplePreview!SameTerms(raw, tx) = PairPreview!SameTerms(raw, tx)
  BY DEF TriplePreview!SameTerms, PairPreview!SameTerms
<1>5. \A r : TriplePreview!Key(r) = PairPreview!Key(r)
  BY DEF TriplePreview!Key, PairPreview!Key
<1>6. \A S : TriplePreview!Manual(S) = PairPreview!Manual(S)
  BY DEF TriplePreview!Manual, PairPreview!Manual
<1>7. TriplePreview!Native = PairPreview!Native /\ TriplePreview!Ids = PairPreview!Ids
  BY DEF TriplePreview!Native, PairPreview!Native, TriplePreview!Ids, PairPreview!Ids
<1>. QED
  BY <1>1, <1>2, <1>3, <1>4, <1>5, <1>6, <1>7

LEMMA MatchesAreOf ==
  /\ \A rows : PairPreview!ExistingMatches(rows) = MatchesOf(rows, Candidates)
  /\ \A rows : TriplePreview!ExistingMatches(rows) = MatchesOf(rows, 1)
<1>1. \A rows : PairPreview!ExistingMatches(rows) = MatchesOf(rows, Candidates)
  BY SameFiniteness DEF PairPreview!ExistingMatches, MatchesOf
<1>2. \A row : TriplePreview!Similar(row) = PairPreview!Similar(row)
  BY SameEvidence DEF TriplePreview!Similar, PairPreview!Similar
<1>3. \A rows, n : TriplePreview!IsAutomatic(rows, n) = PairPreview!IsAutomatic(rows, n)
  BY <1>2, SameEvidence, SameFiniteness DEF TriplePreview!IsAutomatic, PairPreview!IsAutomatic
<1>4. \A rows : TriplePreview!ExistingMatches(rows) = MatchesOf(rows, 1)
  BY <1>2, <1>3, SameEvidence, SameFiniteness DEF TriplePreview!ExistingMatches, MatchesOf
<1>. QED
  BY <1>1, <1>4

LEMMA SameKeys ==
  TriplePreview!SuspectedKeys(preview) = PairPreview!SuspectedKeys(preview)
BY SameEvidence DEF TriplePreview!SuspectedKeys, PairPreview!SuspectedKeys

(* What the steps of the instances are.                                    *)
LEMMA PairsAre ==
  ASSUME PairPreview!Next
  PROVE  StepOfPreview
<1>1. ASSUME NEW name \in DOMAIN PairPreview!NotRead, PairPreview!Answer(name)
      PROVE  \E value : AnswersWith(name, value)
  <2>1. name \in {"categories", "keys", "matches"}
    BY DEF PairPreview!NotRead
  <2>2. PICK value : /\ read' = [read EXCEPT ![name] = <<value>>]
                     /\ name = "keys" => value = PairPreview!SuspectedKeys(preview)
                     /\ name = "matches" => value = MatchesOf(preview, Candidates)
    BY <1>1, <2>1, MatchesAreOf DEF PairPreview!Answer
  <2>. QED
    BY <1>1, <2>1, <2>2, LedgerFits DEF PairPreview!Answer, AnswersWith
<1>. QED
  BY <1>1 DEF PairPreview!Next, StepOfPreview

LEMMA TriplesAre ==
  ASSUME TriplePreview!Next
  PROVE  StepOfPreview
<1>1. ASSUME NEW name \in DOMAIN TriplePreview!NotRead, TriplePreview!Answer(name)
      PROVE  \E value : AnswersWith(name, value)
  <2>1. name \in {"categories", "keys", "matches"}
    BY DEF TriplePreview!NotRead
  <2>2. PICK value : /\ read' = [read EXCEPT ![name] = <<value>>]
                     /\ name = "keys" => value = PairPreview!SuspectedKeys(preview)
                     /\ name = "matches" => value = MatchesOf(preview, 1)
    BY <1>1, <2>1, MatchesAreOf, SameKeys DEF TriplePreview!Answer
  <2>3. 1 \in Nat \ {0}
    OBVIOUS
  <2>. QED
    BY <1>1, <2>1, <2>2, <2>3 DEF TriplePreview!Answer, AnswersWith
<1>2. CASE TriplePreview!Upload
  BY <1>2, SameParsed DEF TriplePreview!Upload, PairPreview!Upload, StepOfPreview
<1>3. CASE TriplePreview!Mark
  BY <1>3, SameMarks DEF TriplePreview!Mark, PairPreview!Mark, StepOfPreview
<1>4. CASE TriplePreview!Stage
  <2>1. \A rows, status : TriplePreview!CountOf(rows, status) = PairPreview!CountOf(rows, status)
    BY SameFiniteness DEF TriplePreview!CountOf, PairPreview!CountOf
  <2>2. \A rows : TriplePreview!Stageable(rows) = PairPreview!Stageable(rows)
    BY <2>1 DEF TriplePreview!Stageable, PairPreview!Stageable
  <2>. QED
    BY <1>4, <2>2 DEF TriplePreview!Stage, PairPreview!Stage, StepOfPreview
<1>5. CASE TriplePreview!Change
  BY <1>5, SameEvidence DEF TriplePreview!Change, PairPreview!Change, StepOfPreview
<1>6. ASSUME NEW decided, TriplePreview!Commit(decided)
      PROVE  PairPreview!Commit(decided)
  BY <1>6, SameEvidence DEF TriplePreview!Commit, PairPreview!Commit, TriplePreview!Selected, PairPreview!Selected
<1>. QED
  BY <1>1, <1>2, <1>3, <1>4, <1>5, <1>6 DEF TriplePreview!Next, StepOfPreview

-----------------------------------------------------------------------------
PreviewsFit == case \in {"pairs", "triples"} => PreviewInv

(* The inductive invariant of both instances.                              *)
LEMMA PreviewsAreSafe == Spec => []PreviewsFit
<1>1. Init => PreviewsFit
  <2>1. ASSUME PairPreview!Init \/ TriplePreview!Init
        PROVE  PreviewInv
    <3>1. /\ phase = "parsing" /\ statement \in PairStatements \cup TripleStatements /\ preview = <<>>
          /\ read = [categories |-> <<>>, keys |-> <<>>, matches |-> <<>>]
          /\ posted \subseteq DOMAIN Ledger /\ merged \subseteq posted /\ steady = posted /\ changes = 0
      BY <2>1 DEF PairPreview!Init, TriplePreview!Init, PairPreview!NotRead, TriplePreview!NotRead,
                  PairPreview!Ids, TriplePreview!Ids
    <3>2. IsRead /\ read.keys = <<>> /\ read.matches = <<>>
      BY <3>1 DEF IsRead
    <3>. QED
      BY <3>1, <3>2, StatementsFit, LedgerFits DEF PreviewInv, After, TablesFit
  <2>. QED
    BY <2>1 DEF Init, PreviewsFit
<1>2. PreviewsFit /\ [Next]_vars => PreviewsFit'
  <2> SUFFICES ASSUME PreviewsFit, [Next]_vars, case' \in {"pairs", "triples"}
               PROVE  PreviewInv'
    BY DEF PreviewsFit
  <2>1. CASE PreviewStep
    <3>1. case' = case /\ StepOfPreview
      BY <2>1, PairsAre, TriplesAre DEF PreviewStep
    <3>. QED
      BY <3>1, PreviewKeeps DEF PreviewsFit
  <2>2. CASE ParserStep
    BY <2>2 DEF ParserStep
  <2>3. CASE ExportStep
    BY <2>3 DEF ExportStep
  <2>4. CASE UNCHANGED vars
    <3>1. case' = case /\ UNCHANGED <<phase, statement, preview, read, posted, merged, steady, changes>>
      BY <2>4 DEF vars, previewVars
    <3>2. RowsFit => RowsFit'
      BY <3>1, RowsStillFit
    <3>3. ReadsFit => ReadsFit'
      BY <3>1 DEF ReadsFit, KeysFit, MatchesFit
    <3>. QED
      BY <3>1, <3>2, <3>3 DEF PreviewsFit, PreviewInv, TablesFit, IsRead
  <2>. QED
    BY <2>1, <2>2, <2>3, <2>4 DEF Next
<1>. QED
  BY <1>1, <1>2, PTL DEF Spec

(* A row that would be imported without a question is not in the ledger    *)
(* already, as far as the ledger held still, nor in its file before: for   *)
(* any statements, ledger, number of candidates and changes by others      *)
(* while the three reads of POST /imports/csv run.                         *)
THEOREM DuplicatesAreFlagged == Spec => []NoSilentDuplicate
<1>1. PreviewsFit => NoSilentDuplicate
  <2>1. TriplePreview!NoSilentDuplicate <=> PairPreview!NoSilentDuplicate
    BY SameEvidence DEF TriplePreview!NoSilentDuplicate, PairPreview!NoSilentDuplicate,
                        TriplePreview!Done, PairPreview!Done
  <2>. QED
    BY <2>1, PreviewsHaveTypes, NoDuplicateIsSilent DEF PreviewsFit, NoSilentDuplicate
<1>. QED
  BY <1>1, PreviewsAreSafe, PTL

(* A row is merged without a question only into the one transaction it can *)
(* be, and every preview passes the checks of staging (stagePreview,       *)
(* applyExistingMatches), in the same generality.                          *)
THEOREM AutoMergesAreUnambiguous == Spec => []AutoMergeIsUnambiguous
<1>1. PreviewsFit => AutoMergeIsUnambiguous
  <2>1. TriplePreview!AutoMergeIsUnambiguous <=> PairPreview!AutoMergeIsUnambiguous
    BY SameEvidence DEF TriplePreview!AutoMergeIsUnambiguous, PairPreview!AutoMergeIsUnambiguous,
                        TriplePreview!Done, PairPreview!Done
  <2>. QED
    BY <2>1, PreviewsAreStageable, MergesAreUnambiguous DEF PreviewsFit, AutoMergeIsUnambiguous
<1>. QED
  BY <1>1, PreviewsAreSafe, PTL
=============================================================================
