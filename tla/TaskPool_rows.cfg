SPECIFICATION Spec
CONSTANTS
    a = a  b = b  w1 = w1  w2 = w2
    MaxTasks = 2
    Workers <- Pool
    Owners = {a}
    OwnerOf <- SameChat
    KindOf <- PlainJob
    Asked <- DailyFirst
    MaxActive = 2
    LeaseTicks = 1
    MaxDelay = 1
    MaxFailures = 1
    PriorityBound = 0
    MaxCrashes = 1
    MaxLost = 0
SYMMETRY PoolSymmetry
INVARIANTS DeferredBlocksLater
PROPERTIES RecordKept
