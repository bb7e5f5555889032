SPECIFICATION Spec
CONSTANTS
    Merchants = {"shop", "market"}
    EveryTime = {"market"}
    PreferredOf <- MCPreferredOf
    Seeded = {1, 2}
    Named = {1, 2, 3}
    Scenarios <- MCScenarios
INVARIANTS
    EveryCancelWritesNothing
    EveryNoticeIsTrue
CHECK_DEADLOCK FALSE
