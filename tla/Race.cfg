CONSTANTS
    LastMonth = 2
    DaysIn <- ShortMonths
    SubIds = {1}
    Amounts = {5}
    CronJobs = {cron}
    Requests = {web}
    MaxPlans = 1
    SelectLimit = 2
    MaxAttempts = 2
    MaxVersion = 5
    Mutations = {"CANCEL", "RESUME", "EDIT"}
    ChargeEdits = {TRUE, FALSE}
    NoDate = NoDate
    NoPlan = NoPlan
    NoRequest = NoRequest
SPECIFICATION Spec
INVARIANTS TypeOK ChargesMatchOccurrences NothingPostedPastCutoff ClosedPlansAreSettled
           RunWithinBudget
PROPERTIES AnchorRetained ImplementsSchedule
