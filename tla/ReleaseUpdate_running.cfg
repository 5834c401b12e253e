SPECIFICATION Spec
CONSTANTS
    u1 = u1  u2 = u2
    Updaters = {u1}
    Owner = owner
    Nobody = nobody
    MaxRelease = 1
    MaxUpsets = 0
    MaxRestarts = 0
    MaxManual = 0
PROPERTIES QuarantinedWhenOver
CHECK_DEADLOCK FALSE
