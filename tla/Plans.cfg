CONSTANTS
    cron = cron
    web = web
    NoDate = NoDate
    NoPlan = NoPlan
    NoRequest = NoRequest
SPECIFICATION FairSpec
PROPERTIES ChargesCarryPlanTerms CatchUpCompletes CancellationsClose
