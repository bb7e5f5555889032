CONSTANTS
    cafe = cafe
    bar = bar
    food = food
    purchase = purchase
    Tabs = {tab1, tab2}
    Ids = {purchase}
    RuleIds = {rule1, rule2}
    Names = {cafe, bar}
    Merchants = {cafe, bar}
    NormalOf <- TwoMerchants
    Editable = {food}
    MaxAmount = 1
    MaxVersion = 3
    ImportedId = imported
    Transfer = transfer
    Unclassified = unclassified
    NoRule = NoRule
    Nothing = Nothing
SPECIFICATION MCSpec
SYMMETRY Symmetry
INVARIANTS TypeOK AuditsReconstruct
PROPERTIES NoEditLost NoRuleEditLost RuleMarksAgree
CHECK_DEADLOCK FALSE
