CONSTANTS
    PairStatements <- LinePairs
    TripleStatements <- LineTriples
    Ledger <- FourRows
    References = {"food"}
    Candidates = 10
    MaxChanges = 1
SPECIFICATION Spec
INVARIANTS ReadAsWritten NoSilentDuplicate AutoMergeIsUnambiguous ExportReadsBack
CHECK_DEADLOCK FALSE
