SPECIFICATION FairSpec
CONSTANTS
    a = a  b = b  w1 = w1  w2 = w2
    MaxTasks = 2
    Workers <- Pool
    Owners = {a}
    OwnerOf <- SameChat
    KindOf <- PlainOnly
    Asked <- NoFlags
    MaxActive = 2
    LeaseTicks = 1
    MaxDelay = 1
    MaxFailures = 1
    PriorityBound = 1
    MaxCrashes = 0
    MaxLost = 0
PROPERTIES ActiveEnds LoneRowIsTaken
