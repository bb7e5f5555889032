SPECIFICATION Spec
CONSTANTS
    Seeded <- MCSeeded
    NewIds = {"c1", "c2"}
    Names <- MCNames
    NormalOf <- MCNormalOf
    Legacy <- MCLegacy
    TxIds = {1, 2, 3, 4}
    GroupSizes = {2}
    Merchants = {"m"}
    Plans = {"p"}
    Dates = {1, 2}
    Months = {1}
    Files = {"f"}
    MaxEdits = 3
    MaxRecords = 5
    MaxTotal = 12
INVARIANTS
    NamesStayDistinct
CHECK_DEADLOCK FALSE
