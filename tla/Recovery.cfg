CONSTANTS
    Seeded <- MCSeeded
    Legacy <- MCLegacy
    TxIds = {1, 2, 3, 4}
    NewIds = {"c1"}
    Names = {"Fun", "fun", "food"}
    NormalOf <- MCNormalOf
    GroupSizes = {2}
    Merchants = {"m"}
    Plans = {"p"}
    Dates = {1, 2}
    Months = {1}
    Files = {"f"}
    MaxChanges = 3
    MaxRecords = 5
    MaxTotal = 12
    FewRecords = 4
    FewTotal = 7
    FewSeeded <- MCFewSeeded
    FewTxIds = {1, 2}
    PlanChanges = 4
    Commands = {a, b}
    Targets = {x, y}
    Migrations = {1, 2}
    MaxAge = 1
    MaxTime = 3
    MaxEdits = 2
    EditsAnyTime = FALSE
SPECIFICATION Spec
SYMMETRY Symmetry
INVARIANTS BackupRestores
PROPERTIES RoundTrip RemoteIsRehearsed
CHECK_DEADLOCK FALSE
