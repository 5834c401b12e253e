--------------------------- MODULE MCTimedServices ---------------------------
EXTENDS TimedServices

CONSTANTS n1, d1, d2

TwoReminders == 1..2
EveryEdit == {"time", "interval", "once", "timezone", "pause", "resume", "run", "duplicate"}
==============================================================================
