-------------------------- MODULE MCReleaseUpdate --------------------------
EXTENDS ReleaseUpdate

CONSTANTS u1, u2

UpdaterSymmetry == Permutations({u1, u2})
============================================================================
