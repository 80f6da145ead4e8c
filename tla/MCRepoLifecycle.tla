--------------------------- MODULE MCRepoLifecycle ---------------------------
(* Four requests of any kind on a repository of three entries, the hooks    *)
(* directory in the middle.                                                 *)
EXTENDS RepoLifecycle, TLC

CONSTANTS r1, r2, r3, r4

MCRequests == {r1, r2, r3, r4}
MCEntries == 1 .. 3

==============================================================================
