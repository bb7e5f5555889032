CONSTANTS
    Statements <- EuroStatements
    Ledger <- EuroLedger
    References <- MCReferences
    Candidates = 10
    MaxChanges = 1
SPECIFICATION Spec
INVARIANTS EveryCurrencyIsMatched ValidRowsCanBeCommitted
CHECK_DEADLOCK FALSE
