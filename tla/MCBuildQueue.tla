---------------------------- MODULE MCBuildQueue ----------------------------
(* Submissions to one repository; their job files sort by number, and they *)
(* are submitted in every order.                                            *)
EXTENDS BuildQueue, TLC

CONSTANTS r1, r2, r3, app

MCRepoOf == [r \in Requests |-> app]
MCRank == Restrict(r1 :> 1 @@ r2 :> 2 @@ r3 :> 3, Requests)
==============================================================================
