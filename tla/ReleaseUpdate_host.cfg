SPECIFICATION Spec
CONSTANTS
    u1 = u1  u2 = u2
    Updaters = {u1, u2}
    Owner = owner
    Nobody = nobody
    MaxRelease = 2
    MaxUpsets = 1
    MaxRestarts = 0
    MaxManual = 1
SYMMETRY UpdaterSymmetry
INVARIANTS SettledTree
CHECK_DEADLOCK FALSE
