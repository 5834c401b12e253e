--------------------------- MODULE MCOwnerServices ---------------------------
EXTENDS OwnerServices, TLC

CONSTANTS n1, n2, f1, f2, f3, e1, e2, t1, t2, t3

\* Names of schedules are alike.
NameSymmetry == Permutations({n1, n2})

SwitchAndCopy == {"pause", "resume", "duplicate"}
==============================================================================
