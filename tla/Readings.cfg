CONSTANTS
    Tx = {1, 2, 3}
    Rows <- TwoDays
    Aliases = {"bus", "bus station"}
    Dates = {1}
    FilterDates = {1, 2}
    Sorts = {"DATE_DESC", "AMOUNT_ASC"}
    FilterSorts = {"DATE_ASC"}
    PageSize = 1
    ExportRows = 2
    MaxEdits = 1
    MaxHistory = 3
    LastMonth = 83
    DaysIn <- Years
SPECIFICATION Spec
INVARIANTS NoRowSkipped SettledListMatchesAddress ExportAgreesWithPages
    ComparisonsAreLikeForLike FiguresReconcile
    ScheduleNeverDrifts
CHECK_DEADLOCK FALSE
