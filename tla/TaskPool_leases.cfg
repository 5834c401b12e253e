SPECIFICATION Spec
CONSTANTS
    a = a  b = b  w1 = w1  w2 = w2
    MaxTasks = 2
    Workers <- Pool
    Owners = {a}
    OwnerOf <- SameChat
    KindOf <- RecurringPlain
    Asked <- NoFlags
    MaxActive = 2
    LeaseTicks = 1
    MaxDelay = 1
    MaxFailures = 1
    PriorityBound = 0
    MaxCrashes = 0
    MaxLost = 1
SYMMETRY PoolSymmetry
INVARIANTS OneLeasePerOwner OneExecutionPerOwner
PROPERTIES ImplementsQueue
