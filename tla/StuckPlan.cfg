CONSTANTS
    LastMonth = 2
    DaysIn <- SingleDays
    SubIds = {1, 2}
    Amounts = {5}
    CronJobs = {cron}
    Requests = {web}
    MaxPlans = 2
    SelectLimit = 1
    MaxAttempts = 1
    MaxVersion = 4
    Mutations = {"CANCEL", "RESUME"}
    ChargeEdits = {FALSE}
    NoDate = NoDate
    NoPlan = NoPlan
    NoRequest = NoRequest
SPECIFICATION FairSpec
PROPERTY EachPlanCatchesUp
