----------------------------- MODULE MCPipeline -----------------------------
(* One worker with up to two builds and two tasks, one push, one request and *)
(* the retention thread.                                                     *)
EXTENDS Pipeline, TLC

CONSTANTS w1, h1, d1

MCWorkers == {w1}
MCHooks == {h1}
MCRequests == {d1}
MCLogs == (MCWorkers \X Stages) \cup (MCHooks \X {Dispatcher, Mirror})

Listing == <<"build", "mirror", "build-auth", "task", "build-dispatcher",
             "build-infra", "task-config", "build-config">>
MCPlace ==
  [l \in MCLogs |-> 3 * (CHOOSE i \in DOMAIN Listing : Listing[i] = l[2][1]) + l[2][2]]
==============================================================================
