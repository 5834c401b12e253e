SPECIFICATION Spec
CONSTANTS
    Releases = {1, 2}
    MaxWrites = 2
    MaxTries = 2
    MaxKills = 1
INVARIANTS DataKept
CHECK_DEADLOCK FALSE
