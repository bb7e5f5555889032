CONSTANTS
    may = may
    june = june
    july = july
    rent = rent
    food = food
    milk = milk
    bread = bread
    gift = gift
    Files = {may, june, july}
    Items = {rent, food, milk, bread, gift}
    RowsOf <- Statements
    Near <- Resembling
    Workers = {tab1, tab2}
    Keys = {key1, key2}
    Lifetime = 1
    MaxTime = 1
    MaxManual = 1
    MaxVersion = 3
    MaxStagings = 3
    NoBatch = NoBatch
    NoFile = NoFile
    NoKey = NoKey
    NoTx = NoTx
SPECIFICATION MCSpec
SYMMETRY Symmetry
INVARIANTS RowsCountedOnce ImportsKeepTheirRows
PROPERTIES FinalBeforeExpiry MergesMatch
CHECK_DEADLOCK FALSE
