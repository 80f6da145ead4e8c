------------------------- MODULE VariableStore_proofs -------------------------
(***************************************************************************)
(* Proofs about VariableStore for every set of clients, names, values and  *)
(* calls, every limit and any number of failures, killed processes and     *)
(* power failures.                                                         *)
(***************************************************************************)
EXTENDS VariableStore, FiniteSetTheorems, TLAPS

Critical == {"locked", "writing", "renamed", "leaving"}

\* A client that writes is alone in the critical section.
Locking ==
  \A c, d \in Clients :
    pc[c] \in Critical /\ pc[d] \in Critical /\ c # d =>
      ~Exclusive(c) /\ ~Exclusive(d)

\* What brought a client to where it is.
Progressed ==
  \A c \in Clients :
    /\ pc[c] = "writing" => call[c].kind = "patch"
    /\ pc[c] = "renamed" => call[c].kind # "load"
    /\ pc[c] \in {"leaving", "done"} <=> result[c] # "none"
    /\ pc[c] = "idle" => call[c] = None
    /\ pc[c] \in {"idle", "waiting"} => loaded[c] = None

\* The content about to be written is within the limit as well.
WritesWithinLimit ==
  \A c \in Clients :
    pc[c] = "writing" => Cardinality(Present(loaded[c])) <= MaxVariables

IInv ==
  /\ TypeOK
  /\ Locking
  /\ Progressed
  /\ PatchIsCurrent
  /\ LimitKept
  /\ WritesWithinLimit

------------------------------------------------------------------------------
(***************************************************************************)
(* Facts about the helpers.                                                *)
(***************************************************************************)

\* What patch() computes is again the content of a file.
LEMMA MergeType ==
  ASSUME NEW old \in Contents, NEW op \in Calls
  PROVE  Merge(old, op) \in Contents
  <1>1. op.upsert \in Contents
    BY CallsAssumption
  <1> QED
    BY <1>1 DEF Merge, Contents

\* No file holds no variables, which is within every limit.
LEMMA EmptyFacts ==
  /\ Empty \in Contents
  /\ Present(Empty) = {}
  /\ Cardinality(Present(Empty)) <= MaxVariables
  <1>1. Empty \in Contents /\ Present(Empty) = {}
    BY DEF Empty, Contents, Present
  <1>2. Cardinality(Present(Empty)) = 0
    BY <1>1, FS_EmptySet
  <1> QED
    BY <1>1, <1>2, LimitsAssumption

\* The three kinds of calls and what they carry.
LEMMA CallFacts ==
  ASSUME TypeOK, NEW c \in Clients, pc[c] # "idle"
  PROVE  /\ call[c] \in Calls
         /\ call[c].kind \in Kinds
         /\ call[c] # None
  BY CallsAssumption DEF TypeOK

------------------------------------------------------------------------------
(***************************************************************************)
(* The inductive invariant.                                                *)
(***************************************************************************)

LEMMA InitInv == Init => IInv
  <1> SUFFICES ASSUME Init PROVE IInv
    OBVIOUS
  <1>1. TypeOK
    BY EmptyFacts DEF Init, TypeOK, Pcs
  <1>2. Locking /\ Progressed /\ PatchIsCurrent /\ WritesWithinLimit
    BY DEF Init, Locking, Critical, Progressed, PatchIsCurrent, WritesWithinLimit
  <1>3. LimitKept
    BY EmptyFacts DEF Init, LimitKept
  <1> QED
    BY <1>1, <1>2, <1>3 DEF IInv

\* A client that only fails, refuses or leaves with an answer changes no file.
LEMMA RaiseInv ==
  ASSUME IInv, NEW c \in Clients, pc[c] \in {"locked", "writing", "renamed"},
         Raise(c), UNCHANGED loaded, faults' \in Nat
  PROVE  IInv'
  <1>1. TypeOK'
    BY DEF IInv, TypeOK, Raise, Pcs
  <1>2. Locking'
    BY DEF IInv, TypeOK, Raise, Locking, Critical, Exclusive
  <1>3. Progressed'
    BY DEF IInv, TypeOK, Raise, Progressed
  <1>4. PatchIsCurrent' /\ LimitKept' /\ WritesWithinLimit'
    BY DEF IInv, TypeOK, Raise, PatchIsCurrent, LimitKept, WritesWithinLimit
  <1> QED
    BY <1>1, <1>2, <1>3, <1>4 DEF IInv

\* The calls that end by a killed process or a power failure leave the
\* critical section; what is read and written there no longer matters.
LEMMA EndedInv ==
  ASSUME IInv, NEW S \in SUBSET Clients, Ended(S), UNCHANGED <<call, loaded>>,
         holders' = holders \ S, stops' \in Nat, UNCHANGED faults,
         file' = file \/ (file' = synced /\ holders' = {}), UNCHANGED synced
  PROVE  IInv'
  <1>1. /\ \A c \in S : pc'[c] = "done"
        /\ \A c \in Clients \ S : pc'[c] = pc[c] /\ result'[c] = result[c]
        /\ \A c \in S : result'[c] # "none"
        /\ \A c \in S : pc[c] # "idle"
    BY DEF IInv, TypeOK, Ended
  <1>2. TypeOK'
    <2>1. pc' \in [Clients -> Pcs]
      BY DEF IInv, TypeOK, Ended, Pcs
    <2>2. result' \in [Clients -> {"none", "ok", "error"}]
      BY DEF IInv, TypeOK, Ended
    <2>3. \A c \in Clients : pc'[c] # "idle" => call'[c] # None
      BY <1>1 DEF IInv, TypeOK
    <2>4. holders' = {c \in Clients : pc'[c] \in Critical}
      BY <1>1 DEF IInv, TypeOK, Critical
    <2>5. file' \in Contents /\ synced' \in Contents
      BY DEF IInv, TypeOK
    <2> QED
      BY <2>1, <2>2, <2>3, <2>4, <2>5 DEF IInv, TypeOK, Critical
  <1>3. Locking'
    BY <1>1 DEF IInv, TypeOK, Locking, Critical, Exclusive
  <1>4. Progressed'
    BY <1>1 DEF IInv, TypeOK, Progressed
  <1>5. PatchIsCurrent'
    <2> SUFFICES ASSUME NEW c \in Clients, pc'[c] = "writing"
                 PROVE  loaded'[c] = Merge(file', call'[c])
      BY DEF PatchIsCurrent
    <2>1. c \notin S /\ pc[c] = "writing"
      BY <1>1
    <2>2. c \in holders'
      BY <2>1 DEF IInv, TypeOK
    <2> QED
      BY <2>1, <2>2 DEF IInv, PatchIsCurrent
  <1>6. LimitKept'
    BY DEF IInv, LimitKept
  <1>7. WritesWithinLimit'
    BY <1>1 DEF IInv, WritesWithinLimit
  <1> QED
    BY <1>2, <1>3, <1>4, <1>5, <1>6, <1>7 DEF IInv

\* begin, flock, release: only the place of one client changes.
LEMMA MoveInv ==
  ASSUME IInv, NEW c \in Clients,
         \/ \E op \in Calls : Begin(c, op)
         \/ Lock(c) \/ LockFails(c) \/ Release(c)
  PROVE  IInv'
  <1>1. CASE \E op \in Calls : Begin(c, op)
    <2> PICK op \in Calls : Begin(c, op)
      BY <1>1
    <2>1. TypeOK'
      BY CallsAssumption DEF IInv, TypeOK, Begin, Pcs
    <2>2. Locking'
      BY DEF IInv, TypeOK, Begin, Locking, Critical, Exclusive
    <2>3. Progressed'
      BY CallsAssumption DEF IInv, TypeOK, Begin, Progressed
    <2>4. PatchIsCurrent' /\ LimitKept' /\ WritesWithinLimit'
      BY DEF IInv, TypeOK, Begin, PatchIsCurrent, LimitKept, WritesWithinLimit
    <2> QED
      BY <2>1, <2>2, <2>3, <2>4 DEF IInv
  <1>2. CASE Lock(c)
    <2>1. TypeOK'
      BY <1>2 DEF IInv, TypeOK, Lock, Pcs
    <2>2. Locking'
      BY <1>2 DEF IInv, TypeOK, Lock, Locking, Critical, Exclusive
    <2>3. Progressed'
      BY <1>2 DEF IInv, TypeOK, Lock, Progressed
    <2>4. PatchIsCurrent' /\ LimitKept' /\ WritesWithinLimit'
      BY <1>2 DEF IInv, TypeOK, Lock, PatchIsCurrent, LimitKept, WritesWithinLimit
    <2> QED
      BY <2>1, <2>2, <2>3, <2>4 DEF IInv
  <1>3. CASE LockFails(c)
    <2>1. TypeOK'
      BY <1>3 DEF IInv, TypeOK, LockFails, Pcs
    <2>2. Locking'
      BY <1>3 DEF IInv, TypeOK, LockFails, Locking, Critical, Exclusive
    <2>3. Progressed'
      BY <1>3 DEF IInv, TypeOK, LockFails, Progressed
    <2>4. PatchIsCurrent' /\ LimitKept' /\ WritesWithinLimit'
      BY <1>3 DEF IInv, TypeOK, LockFails, PatchIsCurrent, LimitKept,
                  WritesWithinLimit
    <2> QED
      BY <2>1, <2>2, <2>3, <2>4 DEF IInv
  <1>4. CASE Release(c)
    <2>1. TypeOK'
      BY <1>4 DEF IInv, TypeOK, Release, Pcs
    <2>2. Locking'
      BY <1>4 DEF IInv, TypeOK, Release, Locking, Critical, Exclusive
    <2>3. Progressed'
      BY <1>4 DEF IInv, TypeOK, Release, Progressed
    <2>4. PatchIsCurrent' /\ LimitKept' /\ WritesWithinLimit'
      BY <1>4 DEF IInv, TypeOK, Release, PatchIsCurrent, LimitKept,
                  WritesWithinLimit
    <2> QED
      BY <2>1, <2>2, <2>3, <2>4 DEF IInv
  <1> QED
    BY <1>1, <1>2, <1>3, <1>4

\* Reading: a load has its values, a patch has merged what it read.
LEMMA ReadInv ==
  ASSUME IInv, NEW c \in Clients, Load(c) \/ Patch(c)
  PROVE  IInv'
  <1>1. CASE Load(c)
    <2>1. TypeOK'
      BY <1>1 DEF IInv, TypeOK, Load, Pcs
    <2>2. Locking'
      BY <1>1 DEF IInv, TypeOK, Load, Locking, Critical, Exclusive
    <2>3. Progressed'
      BY <1>1 DEF IInv, TypeOK, Load, Progressed
    <2>4. PatchIsCurrent' /\ LimitKept' /\ WritesWithinLimit'
      BY <1>1 DEF IInv, TypeOK, Load, PatchIsCurrent, LimitKept,
                  WritesWithinLimit
    <2> QED
      BY <2>1, <2>2, <2>3, <2>4 DEF IInv
  <1>2. CASE Patch(c)
    <2>0. call[c] \in Calls /\ file \in Contents /\ call[c].kind = "patch"
      BY <1>2, CallFacts DEF IInv, TypeOK, Patch
    <2>1. Merge(file, call[c]) \in Contents
      BY <2>0, MergeType
    <2>2. TypeOK'
      BY <1>2, <2>1 DEF IInv, TypeOK, Patch, Pcs
    <2>3. Locking'
      BY <1>2 DEF IInv, TypeOK, Patch, Locking, Critical, Exclusive
    <2>4. Progressed'
      BY <1>2, <2>0 DEF IInv, TypeOK, Patch, Progressed
    <2>5. PatchIsCurrent' /\ LimitKept'
      BY <1>2 DEF IInv, TypeOK, Patch, PatchIsCurrent, LimitKept
    <2>6. WritesWithinLimit'
      BY <1>2 DEF IInv, TypeOK, Patch, WithinLimit, WritesWithinLimit
    <2> QED
      BY <2>2, <2>3, <2>4, <2>5, <2>6 DEF IInv
  <1> QED
    BY <1>1, <1>2

\* Writing: the client has the lock for itself, so nobody's merge is undone.
LEMMA WriteInv ==
  ASSUME IInv, NEW c \in Clients, Rename(c) \/ Drop(c) \/ Sync(c)
  PROVE  IInv'
  <1>0. /\ pc[c] \in Critical
        /\ pc'[c] \in {"renamed", "leaving"}
        /\ \A d \in Clients \ {c} : pc'[d] = pc[d]
        /\ UNCHANGED <<call, holders, loaded, faults, stops>>
    BY DEF IInv, TypeOK, Rename, Drop, Sync, Critical
  <1>1. \A d \in Clients : pc'[d] = "writing" =>
          d # c /\ pc[d] = "writing" /\ ~(pc[c] = "writing" \/ Drop(c))
    BY <1>0 DEF IInv, Locking, Progressed, Critical, Exclusive, Drop
  <1>2. CASE Rename(c)
    <2>0. loaded[c] \in Contents /\ Cardinality(Present(loaded[c])) <= MaxVariables
      <3>1. call[c] \in Calls /\ file \in Contents
        BY <1>2, CallFacts DEF IInv, TypeOK, Rename
      <3>2. loaded[c] = Merge(file, call[c])
        BY <1>2 DEF IInv, PatchIsCurrent, Rename
      <3> QED
        BY <1>2, <3>1, <3>2, MergeType DEF IInv, WritesWithinLimit, Rename
    <2>1. TypeOK'
      BY <1>2, <2>0 DEF IInv, TypeOK, Rename, Pcs
    <2>2. Locking'
      BY <1>2 DEF IInv, TypeOK, Rename, Locking, Critical, Exclusive
    <2>3. Progressed'
      BY <1>2 DEF IInv, TypeOK, Rename, Progressed
    <2>4. PatchIsCurrent' /\ WritesWithinLimit'
      BY <1>1, <1>2 DEF PatchIsCurrent, WritesWithinLimit, Rename
    <2>5. LimitKept'
      BY <1>2, <2>0 DEF IInv, LimitKept, Rename
    <2> QED
      BY <2>1, <2>2, <2>3, <2>4, <2>5 DEF IInv
  <1>3. CASE Drop(c)
    <2>1. TypeOK'
      BY <1>3, EmptyFacts DEF IInv, TypeOK, Drop, Pcs
    <2>2. Locking'
      BY <1>3 DEF IInv, TypeOK, Drop, Locking, Critical, Exclusive
    <2>3. Progressed'
      BY <1>3 DEF IInv, TypeOK, Drop, Progressed
    <2>4. PatchIsCurrent' /\ WritesWithinLimit'
      BY <1>1, <1>3 DEF PatchIsCurrent, WritesWithinLimit
    <2>5. LimitKept'
      BY <1>3, EmptyFacts DEF IInv, LimitKept, Drop
    <2> QED
      BY <2>1, <2>2, <2>3, <2>4, <2>5 DEF IInv
  <1>4. CASE Sync(c)
    <2>1. TypeOK'
      BY <1>4 DEF IInv, TypeOK, Sync, Pcs
    <2>2. Locking'
      BY <1>4 DEF IInv, TypeOK, Sync, Locking, Critical, Exclusive
    <2>3. Progressed'
      BY <1>4 DEF IInv, TypeOK, Sync, Progressed
    <2>4. PatchIsCurrent' /\ LimitKept' /\ WritesWithinLimit'
      BY <1>4 DEF IInv, TypeOK, Sync, PatchIsCurrent, LimitKept,
                  WritesWithinLimit
    <2> QED
      BY <2>1, <2>2, <2>3, <2>4 DEF IInv
  <1> QED
    BY <1>2, <1>3, <1>4

LEMMA StepInv == IInv /\ [Next]_vars => IInv'
  <1> SUFFICES ASSUME IInv, [Next]_vars PROVE IInv'
    OBVIOUS
  <1>1. ASSUME NEW c \in Clients, NEW op \in Calls, Begin(c, op) PROVE IInv'
    BY <1>1, MoveInv
  <1>2. ASSUME NEW c \in Clients, Lock(c) \/ LockFails(c) \/ Release(c)
        PROVE  IInv'
    BY <1>2, MoveInv
  <1>3. ASSUME NEW c \in Clients, Load(c) \/ Patch(c) PROVE IInv'
    BY <1>3, ReadInv
  <1>4. ASSUME NEW c \in Clients, Rename(c) \/ Drop(c) \/ Sync(c) PROVE IInv'
    BY <1>4, WriteInv
  <1>5. ASSUME NEW c \in Clients, LoadRefused(c) \/ PatchRefused(c) PROVE IInv'
    <2>1. /\ pc[c] = "locked"
          /\ Raise(c)
          /\ UNCHANGED <<loaded, faults>>
          /\ faults' \in Nat
      BY <1>5 DEF LoadRefused, PatchRefused, IInv, TypeOK
    <2> QED
      BY <2>1, RaiseInv
  <1>6. ASSUME NEW c \in Clients, LoadFails(c) \/ WriteFails(c) \/ SyncFails(c)
        PROVE  IInv'
    <2>1. /\ pc[c] \in {"locked", "writing", "renamed"}
          /\ Raise(c)
          /\ UNCHANGED loaded
          /\ faults' \in Nat
      BY <1>6 DEF LoadFails, WriteFails, SyncFails, IInv, TypeOK
    <2> QED
      BY <2>1, RaiseInv
  <1>7. ASSUME NEW S \in SUBSET Clients, Die(S) PROVE IInv'
    <2>1. /\ Ended(S)
          /\ UNCHANGED <<call, loaded, faults, file, synced>>
          /\ holders' = holders \ S
          /\ stops' \in Nat
      BY <1>7 DEF Die, IInv, TypeOK
    <2> QED
      BY <2>1, EndedInv
  <1>8. CASE PowerFailure
    <2> DEFINE S == {c \in Clients : pc[c] \notin {"idle", "done"}}
    <2>1. holders \ S = {}
      BY DEF IInv, TypeOK
    <2>2. /\ Ended(S)
          /\ UNCHANGED <<call, loaded, faults, synced>>
          /\ holders' = {}
          /\ file' = synced
          /\ stops' \in Nat
      BY <1>8 DEF PowerFailure, IInv, TypeOK
    <2>3. S \in SUBSET Clients
      OBVIOUS
    <2> HIDE DEF S
    <2> QED
      BY <2>1, <2>2, <2>3, EndedInv
  <1>9. CASE Writeback
    BY <1>9 DEF Writeback, IInv, TypeOK, Locking, Critical, Exclusive, Progressed,
                PatchIsCurrent, LimitKept, WritesWithinLimit
  <1>10. CASE UNCHANGED vars
    BY <1>10 DEF vars, IInv, TypeOK, Locking, Critical, Exclusive, Progressed,
                 PatchIsCurrent, LimitKept, WritesWithinLimit
  <1> QED
    BY <1>1, <1>2, <1>3, <1>4, <1>5, <1>6, <1>7, <1>8, <1>9, <1>10
       DEF Next, Progress, Failure

\* IInv holds in every reachable state: the flock keeps writers apart and
\* what is about to be written agrees with the file.
THEOREM Inductive == Spec => []IInv
  BY InitInv, StepInv, PTL DEF Spec

\* Types, and the flock is held exactly by the clients in the with statement.
THEOREM TypeCorrect == Spec => []TypeOK
  <1>1. IInv => TypeOK
    BY DEF IInv
  <1> QED
    BY <1>1, Inductive, PTL

\* patch() loses no update: what it writes is the current file, merged.
THEOREM NoLostUpdate == Spec => []PatchIsCurrent
  <1>1. IInv => PatchIsCurrent
    BY DEF IInv
  <1> QED
    BY <1>1, Inductive, PTL

\* MAX_VARIABLES holds for the file and for what a power failure leaves.
THEOREM LimitHolds == Spec => []LimitKept
  <1>1. IInv => LimitKept
    BY DEF IInv
  <1> QED
    BY <1>1, Inductive, PTL

------------------------------------------------------------------------------
(***************************************************************************)
(* The store implements AtomicVariables.                                   *)
(***************************************************************************)

LEMMA SameMerge ==
  /\ Atomic!Empty = Empty
  /\ \A old, op : Atomic!Merge(old, op) = Merge(old, op)
  BY DEF Atomic!Empty, Empty, Atomic!Merge, Merge

LEMMA InitImplements == Init => Atomic!Init
  <1> SUFFICES ASSUME Init PROVE Atomic!Init
    OBVIOUS
  <1>1. Stage = [c \in Clients |-> "idle"]
    BY DEF Init, Stage
  <1>2. Got = [c \in Clients |-> None]
    BY DEF Init, Got
  <1> QED
    BY <1>1, <1>2, SameMerge DEF Init, Atomic!Init

\* Where a client stands, abstractly; the values of Stage and Got.
LEMMA StageFacts ==
  ASSUME NEW c \in Clients
  PROVE  /\ pc[c] = "idle" => Stage[c] = "idle"
         /\ pc[c] \in {"waiting", "locked", "writing"} => Stage[c] = "called"
         /\ pc[c] = "renamed" => Stage[c] = "done"
         /\ pc[c] \in {"leaving", "done"} => Stage[c] = result[c]
  BY DEF Stage

\* A call that ends with an error, wherever it was.
LEMMA RaiseImplements ==
  ASSUME IInv, NEW c \in Clients,
         pc[c] \in {"waiting", "locked", "writing", "renamed"},
         pc' = [pc EXCEPT ![c] = "leaving"] \/ pc' = [pc EXCEPT ![c] = "done"],
         result' = [result EXCEPT ![c] = "error"],
         UNCHANGED <<file, synced, call, loaded>>
  PROVE  Atomic!Fail({c})
  <1>1. Stage[c] \in {"called", "done"}
    BY StageFacts
  <1>2. Stage' = [d \in Clients |-> IF d \in {c} THEN "error" ELSE Stage[d]]
    BY DEF Stage, IInv, TypeOK
  <1>3. Got' = Got
    BY DEF Got
  <1> QED
    BY <1>1, <1>2, <1>3 DEF Atomic!Fail

\* Calls that end together, in a killed process or a power failure: those
\* that had their result keep it.
LEMMA EndedImplements ==
  ASSUME IInv, NEW S \in SUBSET Clients, Ended(S), UNCHANGED <<call, loaded>>
  PROVE  /\ Stage' = [c \in Clients |->
                        IF c \in S /\ Stage[c] \in {"called", "done"}
                        THEN "error" ELSE Stage[c]]
         /\ Got' = Got
  <1>1. Got' = Got
    BY DEF Got
  <1>2. ASSUME NEW c \in Clients
        PROVE  Stage'[c] = IF c \in S /\ Stage[c] \in {"called", "done"}
                           THEN "error" ELSE Stage[c]
    <2>1. CASE c \notin S
      BY <2>1 DEF Ended, Stage
    <2>2. CASE c \in S /\ pc[c] = "leaving"
      <3>1. /\ result[c] \in {"ok", "error"}
            /\ Stage[c] = result[c]
            /\ result'[c] = result[c]
            /\ pc'[c] = "done"
        BY <2>2 DEF IInv, TypeOK, Progressed, Ended, Stage
      <3>2. Stage'[c] = result'[c]
        BY <3>1 DEF Stage
      <3> QED
        BY <3>1, <3>2
    <2>3. CASE c \in S /\ pc[c] # "leaving"
      <3>1. /\ pc[c] \in {"waiting", "locked", "writing", "renamed"}
            /\ result[c] = "none"
            /\ result'[c] = "error"
            /\ pc'[c] = "done"
        BY <2>3 DEF IInv, TypeOK, Progressed, Ended, Pcs
      <3>2. Stage'[c] = "error"
        BY <3>1 DEF Stage
      <3> QED
        BY <2>3, <3>1, <3>2, StageFacts
    <2> QED
      BY <2>1, <2>2, <2>3
  <1>3. Stage' = [c \in Clients |-> Stage'[c]]
    BY DEF Stage
  <1> QED
    BY <1>1, <1>2, <1>3

LEMMA StepImplements == IInv /\ [Next]_vars => [Atomic!Next]_(Atomic!vars)
  <1> SUFFICES ASSUME IInv, [Next]_vars
               PROVE  Atomic!Next \/ UNCHANGED <<file, synced, call, Stage, Got>>
    BY DEF Atomic!vars
  <1>0. TypeOK /\ Progressed
    BY DEF IInv
  <1>1. ASSUME NEW c \in Clients, NEW op \in Calls, Begin(c, op)
        PROVE  Atomic!Next
    <2>1. Stage[c] = "idle"
      BY <1>1, StageFacts DEF Begin
    <2>2. Stage' = [Stage EXCEPT ![c] = "called"]
      BY <1>0, <1>1 DEF Begin, Stage, TypeOK
    <2>3. Got' = Got
      BY <1>0, <1>1 DEF Begin, Got, TypeOK, Progressed
    <2>4. Atomic!Call(c, op)
      BY <1>1, <2>1, <2>2, <2>3 DEF Begin, Atomic!Call
    <2> QED
      BY <2>4 DEF Atomic!Next
  <1>2. ASSUME NEW c \in Clients, Lock(c) \/ Patch(c) \/ Release(c)
        PROVE  UNCHANGED <<file, synced, call, Stage, Got>>
    <2>1. UNCHANGED <<file, synced, call, result>>
      BY <1>2 DEF Lock, Patch, Release
    <2>2. Stage' = Stage
      BY <1>0, <1>2 DEF Lock, Patch, Release, Stage, TypeOK
    <2>3. Got' = Got
      BY <1>0, <1>2 DEF Lock, Patch, Release, Got, TypeOK
    <2> QED
      BY <2>1, <2>2, <2>3
  <1>3. ASSUME NEW c \in Clients, Load(c) PROVE Atomic!Next
    <2>1. /\ Stage[c] = "called"
          /\ call[c] # None
          /\ call[c].kind = "load"
      BY <1>0, <1>3, StageFacts DEF Load, TypeOK
    <2>2. Stage' = [Stage EXCEPT ![c] = "ok"]
      BY <1>0, <1>3 DEF Load, Stage, TypeOK
    <2>3. Got' = [Got EXCEPT ![c] = file]
      BY <1>0, <1>3, <2>1 DEF Load, Got, TypeOK
    <2>4. Atomic!Load(c)
      BY <1>3, <2>1, <2>2, <2>3 DEF Load, Atomic!Load
    <2> QED
      BY <2>4 DEF Atomic!Next
  <1>4. ASSUME NEW c \in Clients, Rename(c) \/ Drop(c) PROVE Atomic!Next
    <2>1. Stage[c] = "called"
      BY <1>4, StageFacts DEF Rename, Drop
    <2>2. Stage' = [Stage EXCEPT ![c] = "done"]
      BY <1>0, <1>4 DEF Rename, Drop, Stage, TypeOK
    <2>3. Got' = Got
      BY <1>4 DEF Rename, Drop, Got
    <2>4. file' = Atomic!Effect(file, call[c]) /\ call[c].kind # "load"
      <3>1. CASE Rename(c)
        <4>1. call[c].kind = "patch" /\ loaded[c] = Merge(file, call[c])
          BY <3>1 DEF Rename, IInv, Progressed, PatchIsCurrent
        <4> QED
          BY <3>1, <4>1, SameMerge DEF Rename, Atomic!Effect
      <3>2. CASE Drop(c)
        BY <3>2, SameMerge DEF Drop, Atomic!Effect
      <3> QED
        BY <1>4, <3>1, <3>2
    <2>5. UNCHANGED <<synced, call>>
      BY <1>4 DEF Rename, Drop
    <2>6. Atomic!Change(c)
      BY <2>1, <2>2, <2>3, <2>4, <2>5 DEF Atomic!Change
    <2> QED
      BY <2>6 DEF Atomic!Next
  <1>5. ASSUME NEW c \in Clients, Sync(c) PROVE Atomic!Next
    <2>1. Stage[c] = "done"
      BY <1>5, StageFacts DEF Sync
    <2>2. Stage' = [Stage EXCEPT ![c] = "ok"]
      BY <1>0, <1>5 DEF Sync, Stage, TypeOK
    <2>3. Got' = Got
      BY <1>5 DEF Sync, Got
    <2>4. Atomic!Confirm(c)
      BY <1>5, <2>1, <2>2, <2>3 DEF Sync, Atomic!Confirm
    <2> QED
      BY <2>4 DEF Atomic!Next
  <1>6. ASSUME NEW c \in Clients,
               \/ LockFails(c) \/ LoadRefused(c) \/ PatchRefused(c)
               \/ LoadFails(c) \/ WriteFails(c) \/ SyncFails(c)
        PROVE  Atomic!Next
    <2>1. /\ pc[c] \in {"waiting", "locked", "writing", "renamed"}
          /\ \/ pc' = [pc EXCEPT ![c] = "leaving"]
             \/ pc' = [pc EXCEPT ![c] = "done"]
          /\ result' = [result EXCEPT ![c] = "error"]
          /\ UNCHANGED <<file, synced, call, loaded>>
      BY <1>6 DEF LockFails, LoadRefused, PatchRefused, LoadFails, WriteFails,
                  SyncFails, Raise
    <2>2. Atomic!Fail({c})
      BY <2>1, RaiseImplements
    <2> QED
      BY <2>2 DEF Atomic!Next
  <1>7. ASSUME NEW S \in SUBSET Clients, Die(S) PROVE Atomic!Next
    <2> DEFINE T == {c \in S : Stage[c] \in {"called", "done"}}
    <2>1. /\ Stage' = [c \in Clients |->
                         IF c \in S /\ Stage[c] \in {"called", "done"}
                         THEN "error" ELSE Stage[c]]
          /\ Got' = Got
      BY <1>7, EndedImplements DEF Die
    <2>2. Stage' = [c \in Clients |-> IF c \in T THEN "error" ELSE Stage[c]]
      BY <2>1
    <2>3. Atomic!Fail(T)
      BY <1>7, <2>1, <2>2 DEF Die, Atomic!Fail
    <2> QED
      BY <2>3 DEF Atomic!Next
  <1>8. CASE PowerFailure
    <2> DEFINE S == {c \in Clients : pc[c] \notin {"idle", "done"}}
    <2>0. Ended(S) /\ UNCHANGED <<call, loaded, synced>> /\ file' = synced
      BY <1>8 DEF PowerFailure
    <2>1. S \in SUBSET Clients
      OBVIOUS
    <2>2. \A c \in Clients : Stage[c] \in {"called", "done"} => c \in S
      BY <1>0 DEF Stage, TypeOK
    <2> HIDE DEF S
    <2>3. /\ Stage' = [c \in Clients |->
                         IF c \in S /\ Stage[c] \in {"called", "done"}
                         THEN "error" ELSE Stage[c]]
          /\ Got' = Got
      BY <2>0, <2>1, EndedImplements
    <2>4. Stage' = [c \in Clients |-> IF Stage[c] \in {"called", "done"}
                                      THEN "error" ELSE Stage[c]]
      BY <2>2, <2>3
    <2>5. Atomic!PowerFailure
      BY <2>0, <2>3, <2>4 DEF Atomic!PowerFailure
    <2> QED
      BY <2>5 DEF Atomic!Next
  <1>9. CASE Writeback
    <2>1. Stage' = Stage /\ Got' = Got
      BY <1>9 DEF Writeback, Stage, Got
    <2>2. Atomic!Stabilize
      BY <1>9, <2>1 DEF Writeback, Atomic!Stabilize
    <2> QED
      BY <2>2 DEF Atomic!Next
  <1>10. CASE UNCHANGED vars
    BY <1>10 DEF vars, Stage, Got
  <1> QED
    BY <1>1, <1>2, <1>3, <1>4, <1>5, <1>6, <1>7, <1>8, <1>9, <1>10
       DEF Next, Progress, Failure

\* The store implements AtomicVariables: every call takes effect at one
\* instant, the rename or the read, and an answered change is on the disk.
THEOREM Implements == Spec => IsAtomic
  BY Inductive, InitImplements, StepImplements, PTL DEF Spec, IsAtomic, Atomic!Spec

==============================================================================
