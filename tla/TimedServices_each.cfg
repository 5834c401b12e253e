SPECIFICATION AllSpec
CONSTANTS
    Reminders <- TwoReminders
    MaxClock = 2
    MaxAttempts = 3
    BatchLimit = 2
    MaxCrashes = 2
    MaxStoreErrors = 1
    AnswersMayBeLost = TRUE
    n1 = n1
    MaxJobs = 1
    Names = {n1}
    PlanClock = 2
    Period = 1
    Commands <- EveryEdit
    MaxPlanCrashes = 0
    d1 = d1  d2 = d2
    Slots = {d1, d2}
    MaxFile = 2
    MaxTotal = 2
    MaxDeaths = 1
INVARIANTS RetriesBounded StoreKept
PROPERTIES Settles DueMovesOn OverlapOnlyByOwner Expires
CHECK_DEADLOCK FALSE
