SPECIFICATION FairSpec
CONSTANTS
    u1 = u1  u2 = u2
    Updaters = {u1, u2}
    Owner = owner
    Nobody = nobody
    MaxRelease = 2
    MaxUpsets = 1
    MaxRestarts = 1
    MaxManual = 0
INVARIANTS SingleClaim
PROPERTIES ApplyingEnds
CHECK_DEADLOCK FALSE
