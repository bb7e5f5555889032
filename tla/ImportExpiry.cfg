CONSTANTS
    june = june
    july = july
    rent = rent
    food = food
    gift = gift
    Files = {june}
    Items = {rent, food}
    RowsOf <- OneStatement
    Near <- OnlyEqual
    Workers = {tab1, tab2}
    Keys = {key1}
    Lifetime = 1
    MaxTime = 1
    MaxManual = 0
    MaxVersion = 1
    MaxStagings = 3
    NoBatch = NoBatch
    NoFile = NoFile
    NoKey = NoKey
    NoTx = NoTx
SPECIFICATION Spec
SYMMETRY Symmetry
PROPERTY CommittedIsFinal
CHECK_DEADLOCK FALSE
