--------------------------- MODULE AtomicVariables ---------------------------
(***************************************************************************)
(* What repository_variables.py promises about the managed variables of    *)
(* one repository (README "Post-build tasks and managed variables"): every *)
(* patch, removal and load takes effect at one instant between its call    *)
(* and its answer; what was answered "ok" survives a power failure; what   *)
(* was not may or may not have taken effect.                               *)
(***************************************************************************)
CONSTANTS Clients, Names, Values, Calls, None

VARIABLES
  vals,    \* the variables: a value or None for every name
  stable,  \* what a power failure falls back to
  call,    \* the call of each client
  stage,   \* "idle", "called", "done" (took effect), "ok" or "error"
  got      \* what a load has seen

vars == <<vals, stable, call, stage, got>>

Empty == [n \in Names |-> None]

\* patch(): the new value of a name, unless it is deleted or not mentioned.
Merge(old, p) ==
  [n \in Names |-> IF n \in p.delete THEN None
                   ELSE IF p.upsert[n] # None THEN p.upsert[n] ELSE old[n]]

Effect(old, op) == IF op.kind = "drop" THEN Empty ELSE Merge(old, op)

Init ==
  /\ vals = Empty
  /\ stable = Empty
  /\ call = [c \in Clients |-> None]
  /\ stage = [c \in Clients |-> "idle"]
  /\ got = [c \in Clients |-> None]

Call(c, op) ==
  /\ stage[c] = "idle"
  /\ call' = [call EXCEPT ![c] = op]
  /\ stage' = [stage EXCEPT ![c] = "called"]
  /\ UNCHANGED <<vals, stable, got>>

Change(c) ==
  /\ stage[c] = "called"
  /\ call[c].kind # "load"
  /\ vals' = Effect(vals, call[c])
  /\ stage' = [stage EXCEPT ![c] = "done"]
  /\ UNCHANGED <<stable, call, got>>

Load(c) ==
  /\ stage[c] = "called"
  /\ call[c].kind = "load"
  /\ got' = [got EXCEPT ![c] = vals]
  /\ stage' = [stage EXCEPT ![c] = "ok"]
  /\ UNCHANGED <<vals, stable, call>>

\* A change is answered only with everything on stable storage.
Confirm(c) ==
  /\ stage[c] = "done"
  /\ stable' = vals
  /\ stage' = [stage EXCEPT ![c] = "ok"]
  /\ UNCHANGED <<vals, call, got>>

\* Refused, failed, or the process died: with or without an effect.
Fail(S) ==
  /\ \A c \in S : stage[c] \in {"called", "done"}
  /\ stage' = [c \in Clients |-> IF c \in S THEN "error" ELSE stage[c]]
  /\ UNCHANGED <<vals, stable, call, got>>

Stabilize ==
  /\ stable' = vals
  /\ UNCHANGED <<vals, call, stage, got>>

PowerFailure ==
  /\ vals' = stable
  /\ stage' = [c \in Clients |->
                 IF stage[c] \in {"called", "done"} THEN "error" ELSE stage[c]]
  /\ UNCHANGED <<stable, call, got>>

Next ==
  \/ \E c \in Clients :
       \/ \E op \in Calls : Call(c, op)
       \/ Change(c)
       \/ Load(c)
       \/ Confirm(c)
  \/ \E S \in SUBSET Clients : Fail(S)
  \/ Stabilize
  \/ PowerFailure

Spec == Init /\ [][Next]_vars

==============================================================================
