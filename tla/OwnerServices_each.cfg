SPECIFICATION AllSpec
CONSTANTS
    n1 = n1  n2 = n2
    MaxJobs = 2
    Names = {n1, n2}
    MaxClock = 2
    Period = 1
    Commands <- SwitchAndCopy
    MaxCrashes = 1
    f1 = f1  f2 = f2  f3 = f3
    Files = {f1, f2, f3}
    Texts = {1}
    MaxFiles = 2
    MaxUpsets = 1
    Posed = {1, 2}
    Multiple = {2}
    Labels = {"yes", "no"}
    MaxTroubles = 2
    Lists = {"hostkey"}
    Page = 2
    Listed = {1}
    MaxPresses = 2
    MaxLines = 4
    PageSize = 2
    MaxRows = 1
    MaxFollowups = 1
    MaxRefused = 1
    Live = TRUE
    MaxTrail = 4
    e1 = e1  e2 = e2  t1 = t1  t2 = t2  t3 = t3
    Executors = {e1, e2}
    Written = {1, 2}
    MaxSent = 1
    MaxMishaps = 1
    Waiters = {t1, t2, t3}
    Daily = {t1}
    Paid = {t1}
    Slots = 2
    Renewals = "midnight"
    MaxTime = 2
    MaxFailures = 1
    MaxStops = 1
    MaxAttempts = 3
    MaxRaises = 2
    MaxLives = 2
SYMMETRY NameSymmetry
INVARIANTS
    OccurrenceRecorded OneInstruction CardsTellTrue ConfirmedOnce AnswerArrives TrailKept
    FilesFollowTask QuotaKept StartedOnce
CHECK_DEADLOCK FALSE
