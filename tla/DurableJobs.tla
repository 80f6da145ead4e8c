----------------------------- MODULE DurableJobs -----------------------------
(***************************************************************************)
(* What the build dispatcher promises about jobs (ADR-0005, README         *)
(* "Isolated build dispatch"), with no queue, no threads and no crashes:   *)
(* the set of jobs it owes a run is bounded, a client is told "queued"     *)
(* only about a job the dispatcher has taken on, and an owed job is        *)
(* settled only after a run of it ended.  Two ways to break the promise    *)
(* are part of the code and are therefore named here: an owed job may be   *)
(* abandoned without a run (its repository is gone, or the dispatcher      *)
(* could not read or start it).  README.md leaves that out, "deleted only   *)
(* after the worker returns", and this specification does not say it.      *)
(***************************************************************************)
EXTENDS Naturals, FiniteSets

CONSTANTS Jobs, Capacity

VARIABLES
  owed,       \* accepted jobs that are not settled
  ran,        \* jobs at least one run of which has ended
  settled,    \* owed once, removed after a run
  abandoned,  \* owed once, removed without a completed run by its worker
  promised    \* jobs whose client has been told "queued"

vars == <<owed, ran, settled, abandoned, promised>>

Known == owed \cup settled \cup abandoned

Init ==
  /\ owed = {}
  /\ ran = {}
  /\ settled = {}
  /\ abandoned = {}
  /\ promised = {}

Accept(j) ==
  /\ j \notin Known
  /\ Cardinality(owed) < Capacity
  /\ owed' = owed \cup {j}
  /\ UNCHANGED <<ran, settled, abandoned, promised>>

Promise(j) ==
  /\ j \in Known
  /\ promised' = promised \cup {j}
  /\ UNCHANGED <<owed, ran, settled, abandoned>>

\* A run of an accepted job ends; repeats are allowed (at-least-once), and
\* a run may still end after its job was settled by another one.
Run(j) ==
  /\ j \in Known
  /\ ran' = ran \cup {j}
  /\ UNCHANGED <<owed, settled, abandoned, promised>>

Settle(j) ==
  /\ j \in owed
  /\ j \in ran
  /\ owed' = owed \ {j}
  /\ settled' = settled \cup {j}
  /\ UNCHANGED <<ran, abandoned, promised>>

Abandon(j) ==
  /\ j \in owed
  /\ owed' = owed \ {j}
  /\ abandoned' = abandoned \cup {j}
  /\ UNCHANGED <<ran, settled, promised>>

Next == \E j \in Jobs :
  \/ Accept(j)
  \/ Promise(j)
  \/ Run(j)
  \/ Settle(j)
  \/ Abandon(j)

Spec == Init /\ [][Next]_vars

==============================================================================
