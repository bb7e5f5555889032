CONSTANTS
    MaxTotal = 14
    MaxCount = 5
    LastMonth = 6
    DaysIn <- ShortMonths
    Merchants = {"shop", "market"}
    EveryTime = {"market"}
    PreferredOf <- MCPreferredOf
    Seeded = {1}
    Named = {1, 2}
    Scenarios <- MCScenarios
    Keys = {"food CAD", "pay CAD"}
    Spendable = {"food CAD"}
    Months <- MCMonths
    Amounts = {0, 5}
    MaxWrites = 3
SPECIFICATION MCSpec
INVARIANTS ReimbursedWithinShares NoCentLost DatesKeepTheDay NoticesAreTrue ShownIsInForce
PROPERTIES OnlyKnownOrConfirmed PageSettles SettingHoldsUntilTheNext
CHECK_DEADLOCK FALSE
