CONSTANTS
    june = june
    july = july
    rent = rent
    food = food
    gift = gift
    Files = {june, july}
    Items = {rent, food}
    RowsOf <- TwoStatements
    Near <- OnlyEqual
    Workers = {tab1, tab2}
    Keys = {key1, key2}
    Lifetime = 1
    MaxTime = 0
    MaxManual = 0
    MaxVersion = 2
    MaxStagings = 3
    NoBatch = NoBatch
    NoFile = NoFile
    NoKey = NoKey
    NoTx = NoTx
SPECIFICATION Spec
SYMMETRY Symmetry
INVARIANT EveryReviewRowIsOffered
CHECK_DEADLOCK FALSE
