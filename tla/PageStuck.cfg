SPECIFICATION Spec
CONSTANTS
  Tx = {1}
  Rows <- TwoRows
  Aliases <- Family
  Dates = {1}
  Sorts = {"DATE_DESC"}
  PageSize = 1
  ExportRows = 2
  MaxEdits = 0
  MaxHistory = 3
  MaxExports = 0
PROPERTIES EventuallySettles
CHECK_DEADLOCK FALSE
