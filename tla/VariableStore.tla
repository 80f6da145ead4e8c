---------------------------- MODULE VariableStore ----------------------------
(***************************************************************************)
(* repository_variables.py: the managed variables of one repository, kept  *)
(* in <repository>.json and guarded by flock on <repository>.lock.  The    *)
(* clients are threads of the HTTP service (PATCH, list, DELETE) and       *)
(* build_image.py processes (load); each makes one call.                   *)
(*                                                                         *)
(* A file is the function from names to values it holds, None for a name   *)
(* it lacks; no file is the function Empty.  What a power failure leaves   *)
(* is kept apart (synced): os.replace and unlink reach the disk at         *)
(* _fsync_root at the latest, and possibly earlier.                        *)
(***************************************************************************)
EXTENDS Integers, FiniteSets, FiniteSetsExt

CONSTANTS
  Clients,
  Names, Values,
  Calls,         \* the calls clients may make, see CallsAssumption
  Encoded,       \* bytes a value takes in the JSON file (escapes included)
  MaxVariables,  \* MAX_VARIABLES
  MaxEntry,      \* bytes allowed for one value and its name in MAX_STORAGE_BYTES
  MaxFaults,     \* bound: failing system calls
  MaxStops,      \* bound: killed processes and power failures
  None

Contents == [Names -> Values \cup {None}]
Kinds == {"patch", "load", "drop"}

ASSUME NamesAssumption == IsFiniteSet(Names) /\ None \notin Values
ASSUME CallsAssumption ==
  /\ None \notin Calls
  /\ Calls \subseteq [kind : Kinds, upsert : Contents, delete : SUBSET Names]
  \* patch() refuses a name that is both upserted and deleted
  /\ \A op \in Calls : \A n \in op.delete : op.upsert[n] = None
ASSUME EncodedAssumption == Encoded \in [Values -> Nat]
ASSUME LimitsAssumption == MaxVariables \in Nat /\ MaxEntry \in Nat
ASSUME BoundsAssumption == MaxFaults \in Nat /\ MaxStops \in Nat

VARIABLES
  file,     \* what a process that opens the file reads
  synced,   \* what a power failure would leave
  call,     \* the call of each client
  pc,       \* where the client is in it
  holders,  \* who holds the flock
  loaded,   \* `values` in memory: read from the file, then patched
  result,   \* "none", "ok" or "error"
  faults,
  stops

vars == <<file, synced, call, pc, holders, loaded, result, faults, stops>>

Pcs == {"idle", "waiting", "locked", "writing", "renamed", "leaving", "done"}

Empty == [n \in Names |-> None]

Present(f) == {n \in Names : f[n] # None}

MaxStorage == MaxVariables * MaxEntry

\* The size of the file that _write_unlocked produces.
StorageSize(f) == MapThenSumSet(LAMBDA n : Encoded[f[n]], Present(f))

\* values.update(upsert), then pop for each deleted name.
Merge(old, p) ==
  [n \in Names |-> IF n \in p.delete THEN None
                   ELSE IF p.upsert[n] # None THEN p.upsert[n] ELSE old[n]]

Init ==
  /\ file = Empty
  /\ synced = Empty
  /\ call = [c \in Clients |-> None]
  /\ pc = [c \in Clients |-> "idle"]
  /\ holders = {}
  /\ loaded = [c \in Clients |-> None]
  /\ result = [c \in Clients |-> "none"]
  /\ faults = 0
  /\ stops = 0

\* The calls of the clients in S, all of them begun, end without an answer
\* unless they have one.
Ended(S) ==
  /\ \A c \in S : pc[c] \notin {"idle", "done"}
  /\ pc' = [c \in Clients |-> IF c \in S THEN "done" ELSE pc[c]]
  /\ result' = [c \in Clients |->
                  IF c \in S /\ result[c] = "none" THEN "error" ELSE result[c]]

(***************************************************************************)
(* Faulty variants of definitions below; no specification uses them.       *)
(***************************************************************************)
\* patch() takes the shared lock.
ExclusiveForDrop(c) == call[c].kind = "drop"

\* The temporary file is renamed and the answer sent without a sync.
RenameIsEnough(c) ==
  /\ pc[c] = "renamed"
  /\ result' = [result EXCEPT ![c] = "ok"]
  /\ pc' = [pc EXCEPT ![c] = "leaving"]
  /\ UNCHANGED <<file, synced, call, holders, loaded, faults, stops>>

\* The limit is compared before the patch is merged.
LimitChecked(c) == Cardinality(Present(file)) <= MaxVariables

\* The lock is not released on an error.
ReleaseIfOk(c) ==
  /\ pc[c] = "leaving"
  /\ pc' = [pc EXCEPT ![c] = "done"]
  /\ holders' = IF result[c] = "ok" THEN holders \ {c} ELSE holders
  /\ UNCHANGED <<file, synced, call, loaded, result, faults, stops>>

\* flock: LOCK_EX for patch and delete_repository, LOCK_SH for load.
Exclusive(c) == call[c].kind # "load"

Begin(c, op) ==
  /\ pc[c] = "idle"
  /\ call' = [call EXCEPT ![c] = op]
  /\ pc' = [pc EXCEPT ![c] = "waiting"]
  /\ UNCHANGED <<file, synced, holders, loaded, result, faults, stops>>

Lock(c) ==
  /\ pc[c] = "waiting"
  /\ \A d \in holders : ~Exclusive(c) /\ ~Exclusive(d)
  /\ holders' = holders \cup {c}
  /\ pc' = [pc EXCEPT ![c] = "locked"]
  /\ UNCHANGED <<file, synced, call, loaded, result, faults, stops>>

\* The lock file cannot be opened.
LockFails(c) ==
  /\ pc[c] = "waiting"
  /\ faults < MaxFaults
  /\ faults' = faults + 1
  /\ result' = [result EXCEPT ![c] = "error"]
  /\ pc' = [pc EXCEPT ![c] = "done"]
  /\ UNCHANGED <<file, synced, call, holders, loaded, stops>>

\* Leaving the critical section with an exception.
Raise(c) ==
  /\ result' = [result EXCEPT ![c] = "error"]
  /\ pc' = [pc EXCEPT ![c] = "leaving"]
  /\ UNCHANGED <<file, synced, call, holders, stops>>

\* What _load_unlocked accepts.
Readable ==
  /\ StorageSize(file) <= MaxStorage
  /\ Cardinality(Present(file)) <= MaxVariables

\* A file that is too large or has too many variables is refused.
LoadRefused(c) ==
  /\ pc[c] = "locked"
  /\ call[c].kind # "drop"
  /\ ~Readable
  /\ Raise(c)
  /\ UNCHANGED <<loaded, faults>>

\* The file cannot be read (by delete_repository: removed).
LoadFails(c) ==
  /\ pc[c] = "locked"
  /\ faults < MaxFaults
  /\ faults' = faults + 1
  /\ Raise(c)
  /\ UNCHANGED loaded

Load(c) ==
  /\ pc[c] = "locked"
  /\ call[c].kind = "load"
  /\ Readable
  /\ loaded' = [loaded EXCEPT ![c] = file]
  /\ result' = [result EXCEPT ![c] = "ok"]
  /\ pc' = [pc EXCEPT ![c] = "leaving"]
  /\ UNCHANGED <<file, synced, call, holders, faults, stops>>

\* len(values) <= MAX_VARIABLES after the merge.
WithinLimit(c) == Cardinality(Present(Merge(file, call[c]))) <= MaxVariables

\* patch(): read and merge; the new values are then written to a temporary
\* file (or, if there are none, the file is about to be removed).
Patch(c) ==
  /\ pc[c] = "locked"
  /\ call[c].kind = "patch"
  /\ Readable
  /\ WithinLimit(c)
  /\ loaded' = [loaded EXCEPT ![c] = Merge(file, call[c])]
  /\ pc' = [pc EXCEPT ![c] = "writing"]
  /\ UNCHANGED <<file, synced, call, holders, result, faults, stops>>

PatchRefused(c) ==
  /\ pc[c] = "locked"
  /\ call[c].kind = "patch"
  /\ Readable
  /\ ~WithinLimit(c)
  /\ Raise(c)
  /\ UNCHANGED <<loaded, faults>>

\* Creating, writing or syncing the temporary file fails; it is removed.
WriteFails(c) ==
  /\ pc[c] = "writing"
  /\ faults < MaxFaults
  /\ faults' = faults + 1
  /\ Raise(c)
  /\ UNCHANGED loaded

\* os.replace, or unlink when no variable is left.
Rename(c) ==
  /\ pc[c] = "writing"
  /\ file' = loaded[c]
  /\ pc' = [pc EXCEPT ![c] = "renamed"]
  /\ UNCHANGED <<synced, call, holders, loaded, result, faults, stops>>

\* delete_repository(): the file is removed unread.
Drop(c) ==
  /\ pc[c] = "locked"
  /\ call[c].kind = "drop"
  /\ file' = Empty
  /\ pc' = [pc EXCEPT ![c] = "renamed"]
  /\ UNCHANGED <<synced, call, holders, loaded, result, faults, stops>>

\* _fsync_root
Sync(c) ==
  /\ pc[c] = "renamed"
  /\ synced' = file
  /\ result' = [result EXCEPT ![c] = "ok"]
  /\ pc' = [pc EXCEPT ![c] = "leaving"]
  /\ UNCHANGED <<file, call, holders, loaded, faults, stops>>

\* chmod or the sync fails: an error is answered for a change that is there.
SyncFails(c) ==
  /\ pc[c] = "renamed"
  /\ faults < MaxFaults
  /\ faults' = faults + 1
  /\ Raise(c)
  /\ UNCHANGED loaded

Release(c) ==
  /\ pc[c] = "leaving"
  /\ holders' = holders \ {c}
  /\ pc' = [pc EXCEPT ![c] = "done"]
  /\ UNCHANGED <<file, synced, call, loaded, result, faults, stops>>

\* A process is killed with the calls its threads are making (which clients
\* share one is left open); the kernel drops its flocks.
Die(S) ==
  /\ stops < MaxStops
  /\ stops' = stops + 1
  /\ holders' = holders \ S
  /\ Ended(S)
  /\ UNCHANGED <<file, synced, call, loaded, faults>>

\* The kernel writes the directory back by itself.
Writeback ==
  /\ synced' = file
  /\ UNCHANGED <<file, call, pc, holders, loaded, result, faults, stops>>

PowerFailure ==
  /\ stops < MaxStops
  /\ stops' = stops + 1
  /\ file' = synced
  /\ holders' = {}
  /\ Ended({c \in Clients : pc[c] \notin {"idle", "done"}})
  /\ UNCHANGED <<synced, call, loaded, faults>>

\* What a client's own thread does without a failure.
Progress(c) ==
  \/ Lock(c)
  \/ LoadRefused(c)
  \/ Load(c)
  \/ Patch(c)
  \/ PatchRefused(c)
  \/ Rename(c)
  \/ Drop(c)
  \/ Sync(c)
  \/ Release(c)

Failure(c) ==
  \/ LoadFails(c)
  \/ WriteFails(c)
  \/ LockFails(c)
  \/ SyncFails(c)

Next ==
  \/ \E c \in Clients :
       \/ \E op \in Calls : Begin(c, op)
       \/ Progress(c)
       \/ Failure(c)
  \/ \E S \in SUBSET Clients : S # {} /\ Die(S)
  \/ Writeback
  \/ PowerFailure

Spec == Init /\ [][Next]_vars

\* Threads and processes are scheduled; nobody has to make a call.
FairSpec == Spec /\ \A c \in Clients : WF_vars(Progress(c))

------------------------------------------------------------------------------
\* Types; the flock is held exactly by the clients in the critical section.
TypeOK ==
  /\ file \in Contents
  /\ synced \in Contents
  /\ call \in [Clients -> Calls \cup {None}]
  /\ pc \in [Clients -> Pcs]
  /\ \A c \in Clients : pc[c] # "idle" => call[c] # None
  /\ holders = {c \in Clients :
                  pc[c] \in {"locked", "writing", "renamed", "leaving"}}
  /\ loaded \in [Clients -> Contents \cup {None}]
  /\ result \in [Clients -> {"none", "ok", "error"}]
  /\ faults \in Nat
  /\ stops \in Nat

\* No update is lost: between the read of a patch and its rename nobody
\* else changes the file, so what is written is the current content merged.
PatchIsCurrent ==
  \A c \in Clients : pc[c] = "writing" => loaded[c] = Merge(file, call[c])

\* The documented limit (README: "at most 128 values") holds for the file
\* and for whatever a power failure brings back.
LimitKept ==
  /\ Cardinality(Present(file)) <= MaxVariables
  /\ Cardinality(Present(synced)) <= MaxVariables

\* What the store has written it can read again: README.md promises "at most
\* 128 values of at most 64 KiB each", and _load_unlocked refuses a file
\* larger than that allows.
StoredIsReadable == StorageSize(file) <= MaxStorage

\* A failed or killed call does not leave the store locked: every call ends.
EveryCallEnds == \A c \in Clients : pc[c] = "waiting" ~> pc[c] = "done"

\* A call has taken effect from the rename on, and is over with its result.
Stage == [c \in Clients |->
  CASE pc[c] = "idle" -> "idle"
    [] pc[c] \in {"waiting", "locked", "writing"} -> "called"
    [] pc[c] = "renamed" -> "done"
    [] OTHER -> result[c]]

Got == [c \in Clients |->
  IF call[c] # None /\ call[c].kind = "load" THEN loaded[c] ELSE None]

\* Calls take effect at one instant; an answered change is on stable storage.
Atomic == INSTANCE AtomicVariables WITH
  vals <- file, stable <- synced, stage <- Stage, got <- Got

IsAtomic == Atomic!Spec

==============================================================================
