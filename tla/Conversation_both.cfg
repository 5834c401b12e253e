SPECIFICATION AllSpec
CONSTANTS
    MaxMessages = 3
    MaxFailures = 2
    Upsets <- Kinds
    MaxUpsets = 2
    IdlePolls = 3
    Repos = {"a", "b"}
    Fixed = {"a"}
    MaxJobs = 2
    MaxSessions = 3
    MaxCommands = 2
    MaxDeaths = 1
INVARIANTS DeliveredIsComplete CancelledMeansStopped NeverAnotherRepo
PROPERTIES AskedOnce TurnLeft
CHECK_DEADLOCK FALSE
