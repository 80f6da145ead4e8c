------------------------------ MODULE MCRepoJobs ------------------------------
EXTENDS RepoJobs, TLC

CONSTANTS r1, r2, r3, j1, j2

MCEntries == 1 .. 3

Symmetry == Permutations(Requests) \cup Permutations(Jobs)
==============================================================================
