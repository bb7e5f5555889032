SPECIFICATION Spec
CONSTANTS
    Seeded <- MCSeeded
    NewIds = {"c1"}
    Names = {}
    NormalOf <- MCNormalOf
    Legacy <- MCNoLegacy
    TxIds = {1, 2}
    GroupSizes = {}
    Merchants = {"m"}
    Plans = {"p"}
    Dates = {1, 2}
    Months = {}
    Files = {}
    MaxEdits = 5
    MaxRecords = 5
    MaxTotal = 12
INVARIANTS
    EveryBackupRestores
CHECK_DEADLOCK FALSE
